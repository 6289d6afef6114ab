--------------------------- MODULE TerminalStream ---------------------------
(***************************************************************************)
(* TerminalStream and the /ws endpoint (adroid/web/server.py): threads     *)
(* append lines of agent activity to a ring buffer and hand each one to    *)
(* the event loop for every subscribed browser; the loop puts it into the  *)
(* browser's bounded queue, from which the endpoint sends it.              *)
(*                                                                         *)
(* append() releases its lock before it publishes, so other threads, the   *)
(* loop and new subscribers may act between the two, and between two of    *)
(* its publications.  The loop runs one thing at a time; the endpoint does *)
(* not give it back between subscribing and taking the history.            *)
(*                                                                         *)
(* Simplifications: a line is <<thread, n>>, the n-th line of that thread; *)
(* the lines that coroutines append are lines of a thread like any other;  *)
(* a socket is used once, so a browser that reconnects is a new one; the   *)
(* heartbeats, which carry no lines, are left out.                         *)
(***************************************************************************)
EXTENDS Naturals, Sequences, FiniteSets, SequencesExt

CONSTANTS
    Threads,        \* threads that append lines
    Sockets,        \* WebSocket connections
    Capacity,       \* of the ring buffer, 500
    QueueMax,       \* of a subscriber's queue, 100
    HistoryLimit,   \* lines sent on connecting, 100
    MaxLines        \* bound of the model: lines appended in all

ASSUME TerminalAssumption ==
    /\ {Capacity, QueueMax, HistoryLimit} \subseteq Nat \ {0}
    /\ MaxLines \in Nat

VARIABLES
    lines,          \* TerminalStream._lines
    subscribers,    \* TerminalStream._subscribers
    publishing,     \* publishing[h]: the line h is publishing and to whom yet
    callbacks,      \* the loop's ready queue: <<socket, line>>
    queue,          \* queue[s]: the asyncio.Queue of socket s
    socket,         \* socket[s]: where ws_endpoint is
    init,           \* init[s]: the history sent in the "init" message
    live,           \* live[s]: the lines sent in "terminal" messages
    dropped,        \* dropped[s]: lines lost because queue[s] was full
    log,            \* every line appended so far, in order
    since           \* since[s]: Len(log) when s subscribed

streamVars == <<lines, subscribers, publishing, log>>
socketVars == <<socket, init, live, since>>
loopVars == <<callbacks, queue, dropped>>
vars == <<streamVars, socketVars, loopVars>>

Lines == Threads \X (1..MaxLines)

Nothing == [line |-> <<>>, to |-> <<>>]

\* Type invariant.
TypeOK ==
    /\ lines \in Seq(Lines)
    /\ subscribers \in Seq(Sockets)
    /\ \A h \in Threads : publishing[h].line \in Lines \cup {<<>>}
    /\ \A h \in Threads : publishing[h].to \in Seq(Sockets)
    /\ callbacks \in Seq(Sockets \X Lines)
    /\ socket \in [Sockets -> {"new", "subscribed", "open", "closed"}]
    /\ \A s \in Sockets :
         /\ queue[s] \in Seq(Lines) /\ Len(queue[s]) <= QueueMax
         /\ init[s] \in Seq(Lines) /\ Len(init[s]) <= HistoryLimit
         /\ live[s] \in Seq(Lines)
         /\ dropped[s] \subseteq Lines
         /\ since[s] \in 0..Len(log)
    /\ log \in Seq(Lines)

-----------------------------------------------------------------------------
LastOnes(s, n) == IF Len(s) <= n THEN s ELSE SubSeq(s, Len(s) - n + 1, Len(s))

Init ==
    /\ lines = <<>>
    /\ subscribers = <<>>
    /\ publishing = [h \in Threads |-> Nothing]
    /\ callbacks = <<>>
    /\ queue = [s \in Sockets |-> <<>>]
    /\ socket = [s \in Sockets |-> "new"]
    /\ init = [s \in Sockets |-> <<>>]
    /\ live = [s \in Sockets |-> <<>>]
    /\ dropped = [s \in Sockets |-> {}]
    /\ log = <<>>
    /\ since = [s \in Sockets |-> 0]

NextLine(h) == <<h, Cardinality({i \in DOMAIN log : log[i][1] = h}) + 1>>

\* Mutant: a full buffer keeps its oldest lines.
TrimmedToOldest(s) == IF Len(s) <= Capacity THEN s ELSE SubSeq(s, 1, Capacity)

Trimmed(s) == LastOnes(s, Capacity)

\* append(), the critical section.
AppendLine(h) ==
    /\ publishing[h] = Nothing
    /\ Len(log) < MaxLines
    /\ log' = Append(log, NextLine(h))
    /\ lines' = Trimmed(Append(lines, NextLine(h)))
    /\ publishing' = [publishing EXCEPT
                        ![h] = IF subscribers = <<>> THEN Nothing
                               ELSE [line |-> NextLine(h), to |-> subscribers]]
    /\ UNCHANGED <<subscribers, socketVars, loopVars>>

\* Mutant: the loop over the subscribers reads the list itself, not the copy
\* made under the lock (h still stops after as many as it found).
PublishToCurrent(h) ==
    /\ publishing[h] # Nothing
    /\ LET p == publishing[h]
           s == IF subscribers = <<>> THEN Head(p.to) ELSE Last(subscribers)
       IN  /\ callbacks' = Append(callbacks, <<s, p.line>>)
           /\ publishing' = [publishing EXCEPT
                ![h] = IF Len(p.to) = 1 THEN Nothing ELSE [p EXCEPT !.to = Tail(@)]]
    /\ UNCHANGED <<lines, subscribers, log, socketVars, queue, dropped>>

\* append(), one call_soon_threadsafe of its loop over the subscribers.
Publish(h) ==
    /\ publishing[h] # Nothing
    /\ LET p == publishing[h]
       IN  /\ callbacks' = Append(callbacks, <<Head(p.to), p.line>>)
           /\ publishing' = [publishing EXCEPT
                ![h] = IF Len(p.to) = 1 THEN Nothing ELSE [p EXCEPT !.to = Tail(@)]]
    /\ UNCHANGED <<lines, subscribers, log, socketVars, queue, dropped>>

\* The loop is not in the middle of a connecting ws_endpoint.
LoopIdle == \A s \in Sockets : socket[s] # "subscribed"

\* Mutant: the newest callback first.
CallbackNewestFirst ==
    /\ LoopIdle
    /\ callbacks # <<>>
    /\ LET s == Last(callbacks)[1]
           line == Last(callbacks)[2]
       IN  queue' = [queue EXCEPT ![s] = IF Len(@) < QueueMax THEN Append(@, line) ELSE @]
           /\ dropped' = [dropped EXCEPT
                ![s] = IF Len(queue[s]) < QueueMax THEN @ ELSE @ \cup {line}]
    /\ callbacks' = Front(callbacks)
    /\ UNCHANGED <<streamVars, socketVars>>

\* Mutant: a queue without a maximum.
CallbackUnbounded ==
    /\ LoopIdle
    /\ callbacks # <<>>
    /\ queue' = [queue EXCEPT ![Head(callbacks)[1]] = Append(@, Head(callbacks)[2])]
    /\ callbacks' = Tail(callbacks)
    /\ UNCHANGED <<streamVars, socketVars, dropped>>

\* The loop runs q.put_nowait(line).  On a full queue QueueFull is raised in
\* the loop, out of reach of append's except clause, and the line is lost.
Callback ==
    /\ LoopIdle
    /\ callbacks # <<>>
    /\ LET s == Head(callbacks)[1]
           line == Head(callbacks)[2]
       IN  \/ /\ Len(queue[s]) < QueueMax
              /\ queue' = [queue EXCEPT ![s] = Append(@, line)]
              /\ UNCHANGED dropped
           \/ /\ Len(queue[s]) = QueueMax
              /\ dropped' = [dropped EXCEPT ![s] = @ \cup {line}]
              /\ UNCHANGED queue
    /\ callbacks' = Tail(callbacks)
    /\ UNCHANGED <<streamVars, socketVars>>

-----------------------------------------------------------------------------
(* ws_endpoint *)

Subscribe(s) ==
    /\ LoopIdle
    /\ socket[s] = "new"
    /\ socket' = [socket EXCEPT ![s] = "subscribed"]
    /\ subscribers' = Append(subscribers, s)
    /\ since' = [since EXCEPT ![s] = Len(log)]
    /\ UNCHANGED <<lines, publishing, log, init, live, loopVars>>

\* The "init" message, with history(limit=100).
SendInit(s) ==
    /\ socket[s] = "subscribed"
    /\ socket' = [socket EXCEPT ![s] = "open"]
    /\ init' = [init EXCEPT ![s] = LastOnes(lines, HistoryLimit)]
    /\ UNCHANGED <<streamVars, live, since, loopVars>>

\* The endpoint takes a line from its queue and sends it.
Send(s) ==
    /\ LoopIdle
    /\ socket[s] = "open"
    /\ queue[s] # <<>>
    /\ live' = [live EXCEPT ![s] = Append(@, Head(queue[s]))]
    /\ queue' = [queue EXCEPT ![s] = Tail(@)]
    /\ UNCHANGED <<streamVars, socket, init, since, callbacks, dropped>>

\* Mutant: unsubscribe compares the event loop, not the queue.
DisconnectUnsubscribesLoop(s) ==
    /\ LoopIdle
    /\ socket[s] = "open"
    /\ socket' = [socket EXCEPT ![s] = "closed"]
    /\ subscribers' = <<>>
    /\ UNCHANGED <<lines, publishing, log, init, live, since, loopVars>>

\* The browser has gone: the endpoint unsubscribes its queue, which the list
\* has once.
Disconnect(s) ==
    /\ LoopIdle
    /\ socket[s] = "open"
    /\ socket' = [socket EXCEPT ![s] = "closed"]
    /\ subscribers' = RemoveAt(subscribers, CHOOSE i \in DOMAIN subscribers : subscribers[i] = s)
    /\ UNCHANGED <<lines, publishing, log, init, live, since, loopVars>>

Next ==
    \/ \E h \in Threads : AppendLine(h) \/ Publish(h)
    \/ Callback
    \/ \E s \in Sockets : Subscribe(s) \/ SendInit(s) \/ Send(s) \/ Disconnect(s)

Spec == Init /\ [][Next]_vars

-----------------------------------------------------------------------------
(* Properties *)

Sent(s) == ToSet(init[s]) \cup ToSet(live[s])

\* The ring buffer holds the latest lines, in the order of the appends.
HistoryIsLatest == lines = LastOnes(log, Capacity)

\* A browser sees the lines of one thread in that thread's order: never a
\* call's result before its request, although lines of two threads may change
\* places because append publishes outside its lock.
ThreadOrderKept ==
    \A s \in Sockets : \A i, j \in DOMAIN live[s] :
        i < j /\ live[s][i][1] = live[s][j][1] => live[s][i][2] < live[s][j][2]

\* A browser is sent a line a second time only if the line was appended while
\* that browser was connecting: in the "init" history and as a live line.
RepeatsOnlyWhileConnecting ==
    \A s \in Sockets : \A line \in ToSet(live[s]) \cap ToSet(init[s]) :
        line \in ToSet(SubSeq(log, since[s] + 1, Len(log)))

Occurrences(e, s) == Cardinality({i \in DOMAIN s : s[i] = e})

\* How many copies of a line are on their way to socket s or have got there.
Copies(s, line) ==
    Occurrences(line, live[s]) + Occurrences(line, queue[s])
    + Occurrences(<<s, line>>, callbacks)
    + Cardinality({h \in Threads : publishing[h].line = line /\ s \in ToSet(publishing[h].to)})

\* No gap and no repetition: a line appended after a browser subscribed, while
\* it was connecting included, is sent to it once or dropped at its full queue.
NoGap ==
    \A s \in Sockets : socket[s] \in {"subscribed", "open"} =>
        \A i \in since[s] + 1 .. Len(log) :
            Copies(s, log[i]) = IF log[i] \in dropped[s] THEN 0 ELSE 1
=============================================================================
