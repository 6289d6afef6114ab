------------------------- MODULE TerminalStreamProofs -------------------------
(***************************************************************************)
(* Theorems about the live stream, for any threads, sockets, capacity of   *)
(* the ring buffer, size of the queues and length of the history.          *)
(*                                                                         *)
(* The inductive invariant follows a line on its way to a socket: in what  *)
(* a thread is publishing, among the loop's callbacks, in the socket's     *)
(* queue and sent.  All that is on the way was appended after the socket   *)
(* subscribed (Arrives), is in the order of its thread, place by place     *)
(* (Ordered), and is there once (NoGap).                                   *)
(***************************************************************************)
EXTENDS TerminalStream, FiniteSetTheorems, SequenceTheorems, TLAPS

USE TerminalAssumption

------------------------------------------------------------------------------
(* The inductive invariant.                                                 *)

Types ==
    /\ lines \in Seq(Lines)
    /\ subscribers \in Seq(Sockets)
    /\ publishing \in [Threads -> [line : Lines \cup {<<>>}, to : Seq(Sockets)]]
    /\ callbacks \in Seq(Sockets \X Lines)
    /\ queue \in [Sockets -> Seq(Lines)]
    /\ socket \in [Sockets -> {"new", "subscribed", "open", "closed"}]
    /\ init \in [Sockets -> Seq(Lines)]
    /\ live \in [Sockets -> Seq(Lines)]
    /\ dropped \in [Sockets -> SUBSET Lines]
    /\ log \in Seq(Lines) /\ Len(log) <= MaxLines
    /\ since \in [Sockets -> Nat]

Bounded ==
    \A s \in Sockets : /\ Len(queue[s]) <= QueueMax
                       /\ Len(init[s]) <= HistoryLimit
                       /\ since[s] <= Len(log)

LinesOf(h) == Cardinality({i \in DOMAIN log : log[i][1] = h})

\* The lines of a thread are numbered as it appended them.
Numbered ==
    /\ \A i \in DOMAIN log : log[i][2] <= LinesOf(log[i][1])
    /\ \A i, j \in DOMAIN log : i < j /\ log[i][1] = log[j][1] => log[i][2] < log[j][2]

\* Who is subscribed, and to whom a line is published yet.
Roster ==
    /\ IsInjective(subscribers)
    /\ \A s \in Sockets :
         s \in ToSet(subscribers) <=> socket[s] \in {"subscribed", "open"}
    /\ \A h \in Threads :
         publishing[h] # Nothing =>
            /\ publishing[h].line \in Lines /\ publishing[h].line[1] = h
            /\ publishing[h].to # <<>> /\ IsInjective(publishing[h].to)

\* A line appended after s subscribed.
After(s, line) == \E i \in DOMAIN log : since[s] < i /\ log[i] = line

Arrives(s) ==
    /\ \A i \in DOMAIN live[s] : After(s, live[s][i])
    /\ \A i \in DOMAIN queue[s] : After(s, queue[s][i])
    /\ \A i \in DOMAIN callbacks : callbacks[i][1] = s => After(s, callbacks[i][2])
    /\ \A h \in Threads : s \in ToSet(publishing[h].to) => After(s, publishing[h].line)
    /\ \A line \in dropped[s] : After(s, line)

\* Nothing is on the way to a socket that has not subscribed.
Untouched(s) ==
    socket[s] = "new" =>
        /\ live[s] = <<>> /\ queue[s] = <<>> /\ dropped[s] = {}
        /\ \A i \in DOMAIN callbacks : callbacks[i][1] # s
        /\ \A h \in Threads : s \notin ToSet(publishing[h].to)

Lt(x, y) == x[1] = y[1] => x[2] < y[2]
Sorted(q) == \A i, j \in DOMAIN q : i < j => Lt(q[i], q[j])
AllBelow(q, x) == \A i \in DOMAIN q : Lt(q[i], x)

\* Of one thread, what was sent to s is before what is in its queue.
InQueueOrder(s) ==
    /\ Sorted(live[s]) /\ Sorted(queue[s])
    /\ \A i \in DOMAIN queue[s] : AllBelow(live[s], queue[s][i])

\* Both are before what the loop has yet to put there.
InCallbackOrder(s) ==
    /\ \A i \in DOMAIN callbacks : callbacks[i][1] = s =>
         AllBelow(live[s], callbacks[i][2]) /\ AllBelow(queue[s], callbacks[i][2])
    /\ \A i, j \in DOMAIN callbacks :
         i < j /\ callbacks[i][1] = s /\ callbacks[j][1] = s => Lt(callbacks[i][2], callbacks[j][2])

\* All is before the line that a thread is publishing to s.
InPublishingOrder(s) ==
    \A h \in Threads : s \in ToSet(publishing[h].to) =>
        /\ AllBelow(live[s], publishing[h].line) /\ AllBelow(queue[s], publishing[h].line)
        /\ \A i \in DOMAIN callbacks :
             callbacks[i][1] = s => Lt(callbacks[i][2], publishing[h].line)

Ordered(s) == InQueueOrder(s) /\ InCallbackOrder(s) /\ InPublishingOrder(s)

\* What was appended after s subscribed is on its way to s, or has got there,
\* once, unless it was dropped.
Gapless(s) ==
    socket[s] \in {"subscribed", "open"} =>
        \A line \in Lines : After(s, line) =>
            Copies(s, line) = IF line \in dropped[s] THEN 0 ELSE 1

Served(s) == Arrives(s) /\ Untouched(s) /\ Ordered(s) /\ Gapless(s)

IInv ==
    /\ Types /\ Bounded /\ HistoryIsLatest /\ Numbered /\ Roster
    /\ \A s \in Sockets : Served(s)

------------------------------------------------------------------------------
(* Sequences.                                                               *)

LEMMA LineFields ==
    ASSUME NEW x \in Lines
    PROVE  x[1] \in Threads /\ x[2] \in Nat
    BY DEF Lines

LEMMA LastOnesType ==
    ASSUME NEW T, NEW s \in Seq(T), NEW n \in Nat
    PROVE  LastOnes(s, n) \in Seq(T) /\ Len(LastOnes(s, n)) <= n
<1>1. CASE Len(s) <= n
    BY <1>1 DEF LastOnes
<1>2. CASE Len(s) > n
    <2>1. LastOnes(s, n) = SubSeq(s, Len(s) - n + 1, Len(s))
        BY <1>2 DEF LastOnes
    <2> QED
        BY <1>2, <2>1
<1> QED
    BY <1>1, <1>2

\* Keeping the latest of the latest and one more is keeping the latest of all.
LEMMA LastOnesAppend ==
    ASSUME NEW T, NEW s \in Seq(T), NEW n \in Nat \ {0}, NEW x \in T
    PROVE  LastOnes(Append(LastOnes(s, n), x), n) = LastOnes(Append(s, x), n)
<1> DEFINE r == LastOnes(s, n)
           k == Len(s)
<1>1. CASE k <= n
    BY <1>1 DEF LastOnes
<1>2. CASE k > n
    <2>1. r = SubSeq(s, k - n + 1, k)
        BY <1>2 DEF LastOnes
    <2>2. r \in Seq(T) /\ Len(r) = n /\ \A i \in 1..n : r[i] = s[k - n + i]
        BY <1>2, <2>1
    <2> HIDE DEF r
    <2> DEFINE a == Append(r, x)
               b == Append(s, x)
    <2>3. /\ a \in Seq(T) /\ Len(a) = n + 1 /\ a[n + 1] = x
          /\ \A i \in 1..n : a[i] = s[k - n + i]
        BY <2>2
    <2>4. /\ b \in Seq(T) /\ Len(b) = k + 1 /\ b[k + 1] = x
          /\ \A i \in 1..k : b[i] = s[i]
        OBVIOUS
    <2> HIDE DEF a, b
    <2>5. LastOnes(a, n) = SubSeq(a, 2, n + 1)
        <3>1. ~(Len(a) <= n) /\ Len(a) - n + 1 = 2
            BY <2>3
        <3> QED
            BY <2>3, <3>1 DEF LastOnes
    <2>6. LastOnes(b, n) = SubSeq(b, k - n + 2, k + 1)
        <3>1. k \in Nat
            OBVIOUS
        <3> HIDE DEF k
        <3>2. ~(Len(b) <= n) /\ Len(b) - n + 1 = k - n + 2
            BY <1>2, <2>4, <3>1
        <3> QED
            BY <2>4, <3>2 DEF LastOnes
    <2>7. /\ SubSeq(a, 2, n + 1) \in Seq(T) /\ Len(SubSeq(a, 2, n + 1)) = n
          /\ \A i \in 1..n : SubSeq(a, 2, n + 1)[i] = a[i + 1]
        BY <2>3
    <2>8. /\ SubSeq(b, k - n + 2, k + 1) \in Seq(T) /\ Len(SubSeq(b, k - n + 2, k + 1)) = n
          /\ \A i \in 1..n : SubSeq(b, k - n + 2, k + 1)[i] = b[k - n + 1 + i]
        BY <1>2, <2>4
    <2>9. \A i \in 1..n : a[i + 1] = b[k - n + 1 + i]
        <3> SUFFICES ASSUME NEW i \in 1..n PROVE a[i + 1] = b[k - n + 1 + i]
            OBVIOUS
        <3>1. CASE i = n
            BY <1>2, <2>3, <2>4, <3>1
        <3>2. CASE i # n
            <4>1. i + 1 \in 1..n /\ k - n + 1 + i \in 1..k /\ k - n + (i + 1) = k - n + 1 + i
                BY <1>2, <3>2
            <4> QED
                BY <2>3, <2>4, <4>1
        <3> QED
            BY <3>1, <3>2
    <2> QED
        <3> DEFINE u == SubSeq(a, 2, n + 1)
                   v == SubSeq(b, k - n + 2, k + 1)
        <3>1. \A i \in 1..n : u[i] = v[i]
            BY <2>7, <2>8, <2>9
        <3>2. /\ u \in Seq(T) /\ v \in Seq(T) /\ Len(u) = n /\ Len(v) = n
            BY <2>7, <2>8
        <3>3. r = LastOnes(s, n) /\ LastOnes(a, n) = u /\ LastOnes(b, n) = v
            BY <2>5, <2>6 DEF r
        <3> HIDE DEF u, v
        <3>4. u = v
            BY <3>1, <3>2, SeqEqual
        <3> QED
            BY <3>3, <3>4 DEF a, b
<1> QED
    BY <1>1, <1>2

LEMMA SortedAppend ==
    ASSUME NEW T, NEW q \in Seq(T), NEW x \in T
    PROVE  /\ Sorted(q) /\ AllBelow(q, x) => Sorted(Append(q, x))
           /\ \A y : AllBelow(Append(q, x), y) <=> AllBelow(q, y) /\ Lt(x, y)
<1> DEFINE n == Len(q)
           a == Append(q, x)
<1>1. /\ n \in Nat /\ DOMAIN q = 1..n /\ DOMAIN a = 1..(n + 1) /\ a[n + 1] = x
      /\ \A i \in 1..n : a[i] = q[i]
    OBVIOUS
<1>2. \A i \in 1..(n + 1) : i \in 1..n \/ i = n + 1
    OBVIOUS
<1>3. 1..n \subseteq 1..(n + 1) /\ n + 1 \in 1..(n + 1)
    OBVIOUS
<1> HIDE DEF n, a
<1>4. ASSUME Sorted(q), AllBelow(q, x) PROVE Sorted(a)
    <2> SUFFICES ASSUME NEW i \in 1..(n + 1), NEW j \in 1..(n + 1), i < j
                 PROVE  Lt(a[i], a[j])
        BY <1>1 DEF Sorted
    <2>1. i \in 1..n
        BY <1>1
    <2>2. CASE j = n + 1
        BY <1>1, <1>4, <2>1, <2>2 DEF AllBelow
    <2>3. CASE j \in 1..n
        BY <1>1, <1>4, <2>1, <2>3 DEF Sorted
    <2> QED
        BY <1>2, <2>2, <2>3
<1>5. ASSUME NEW y
      PROVE  AllBelow(a, y) <=> AllBelow(q, y) /\ Lt(x, y)
    BY <1>1, <1>2, <1>3 DEF AllBelow
<1> QED
    BY <1>4, <1>5 DEF a

LEMMA TailFields ==
    ASSUME NEW T, NEW q \in Seq(T), q # <<>>
    PROVE  /\ Tail(q) \in Seq(T) /\ Head(q) \in T /\ Head(q) = q[1]
           /\ Len(q) \in Nat \ {0} /\ Len(Tail(q)) = Len(q) - 1
           /\ DOMAIN q = 1..Len(q) /\ DOMAIN Tail(q) = 1..(Len(q) - 1)
           /\ 1 \in DOMAIN q
           /\ \A i \in DOMAIN Tail(q) :
                i + 1 \in DOMAIN q /\ i + 1 > 1 /\ Tail(q)[i] = q[i + 1]
    OBVIOUS

LEMMA SortedTail ==
    ASSUME NEW T, NEW q \in Seq(T), q # <<>>
    PROVE  /\ Sorted(q) => Sorted(Tail(q)) /\ \A i \in DOMAIN Tail(q) : Lt(Head(q), Tail(q)[i])
           /\ \A y : AllBelow(q, y) => AllBelow(Tail(q), y) /\ Lt(Head(q), y)
<1>1. ASSUME Sorted(q)
      PROVE  Sorted(Tail(q)) /\ \A i \in DOMAIN Tail(q) : Lt(Head(q), Tail(q)[i])
    <2>1. ASSUME NEW i \in DOMAIN Tail(q), NEW j \in DOMAIN Tail(q), i < j
          PROVE  Lt(Tail(q)[i], Tail(q)[j])
        <3>1. /\ i + 1 \in DOMAIN q /\ j + 1 \in DOMAIN q
              /\ Tail(q)[i] = q[i + 1] /\ Tail(q)[j] = q[j + 1]
            BY TailFields
        <3>2. i + 1 < j + 1
            BY <2>1
        <3> QED
            BY <1>1, <3>1, <3>2 DEF Sorted
    <2>2. ASSUME NEW i \in DOMAIN Tail(q) PROVE Lt(Head(q), Tail(q)[i])
        <3>1. /\ i + 1 \in DOMAIN q /\ i + 1 > 1 /\ 1 \in DOMAIN q
              /\ Tail(q)[i] = q[i + 1] /\ Head(q) = q[1]
            BY TailFields
        <3> QED
            BY <1>1, <3>1 DEF Sorted
    <2> QED
        BY <2>1, <2>2 DEF Sorted
<1>2. ASSUME NEW y, AllBelow(q, y)
      PROVE  AllBelow(Tail(q), y) /\ Lt(Head(q), y)
    <2>1. \A i \in DOMAIN Tail(q) : i + 1 \in DOMAIN q /\ Tail(q)[i] = q[i + 1]
        BY TailFields
    <2>2. 1 \in DOMAIN q /\ Head(q) = q[1]
        BY TailFields
    <2> QED
        BY <1>2, <2>1, <2>2 DEF AllBelow
<1> QED
    BY <1>1, <1>2

LEMMA AppendFields ==
    ASSUME NEW T, NEW q \in Seq(T), NEW x \in T
    PROVE  /\ Append(q, x) \in Seq(T) /\ Len(q) \in Nat /\ Len(Append(q, x)) = Len(q) + 1
           /\ DOMAIN q = 1..Len(q) /\ DOMAIN Append(q, x) = DOMAIN q \cup {Len(q) + 1}
           /\ Len(q) + 1 \notin DOMAIN q /\ Append(q, x)[Len(q) + 1] = x
           /\ \A i \in DOMAIN q : Append(q, x)[i] = q[i] /\ i < Len(q) + 1
    OBVIOUS

LEMMA ToSetAppend ==
    ASSUME NEW T, NEW q \in Seq(T), NEW x \in T
    PROVE  /\ ToSet(Append(q, x)) = ToSet(q) \cup {x}
           /\ IsInjective(q) /\ x \notin ToSet(q) => IsInjective(Append(q, x))
<1> DEFINE a == Append(q, x)
<1>1. /\ DOMAIN a = DOMAIN q \cup {Len(q) + 1} /\ Len(q) + 1 \notin DOMAIN q
      /\ a[Len(q) + 1] = x /\ \A i \in DOMAIN q : a[i] = q[i]
    BY AppendFields
<1> HIDE DEF a
<1>2. ToSet(a) = ToSet(q) \cup {x}
    BY <1>1 DEF ToSet
<1>3. IsInjective(q) /\ x \notin ToSet(q) => IsInjective(a)
    BY <1>1 DEF ToSet, IsInjective
<1> QED
    BY <1>2, <1>3 DEF a

LEMMA ToSetTail ==
    ASSUME NEW T, NEW q \in Seq(T), q # <<>>, IsInjective(q)
    PROVE  /\ IsInjective(Tail(q)) /\ ToSet(Tail(q)) = ToSet(q) \ {Head(q)}
           /\ Head(q) \in ToSet(q) /\ (Len(q) = 1 => ToSet(q) = {Head(q)})
           /\ (Len(q) # 1 => Tail(q) # <<>>)
<1> DEFINE r == Tail(q)
           n == Len(q)
<1>1. /\ n \in Nat \ {0} /\ DOMAIN q = 1..n /\ DOMAIN r = 1..(n - 1) /\ Head(q) = q[1]
      /\ Len(r) = n - 1
      /\ \A i \in 1..(n - 1) : i + 1 \in 1..n /\ i + 1 > 1 /\ r[i] = q[i + 1]
    BY TailFields
<1>2. \A i, j \in 1..n : q[i] = q[j] => i = j
    BY <1>1 DEF IsInjective
<1>3. \A i \in 1..n : i = 1 \/ (i - 1 \in 1..(n - 1) /\ (i - 1) + 1 = i)
    BY <1>1
<1>4. Len(r) # 0 => r # <<>>
    <2>1. Len(<<>>) = 0
        BY EmptySeq
    <2> HIDE DEF r
    <2> QED
        BY <2>1
<1> HIDE DEF r, n
<1>5. IsInjective(r)
    <2> SUFFICES ASSUME NEW i \in 1..(n - 1), NEW j \in 1..(n - 1), r[i] = r[j] PROVE i = j
        BY <1>1 DEF IsInjective
    <2>1. i + 1 = j + 1
        BY <1>1, <1>2
    <2> QED
        BY <2>1
<1>6. 1 \in 1..n
    BY <1>1
<1>7. ToSet(r) = ToSet(q) \ {q[1]}
    <2>1. ASSUME NEW i \in 1..(n - 1) PROVE r[i] \in ToSet(q) /\ r[i] # q[1]
        <3>1. i + 1 \in 1..n /\ r[i] = q[i + 1] /\ i + 1 # 1
            BY <1>1
        <3> QED
            BY <1>1, <1>2, <1>6, <3>1 DEF ToSet
    <2>2. ASSUME NEW i \in 1..n, q[i] # q[1] PROVE q[i] \in ToSet(r)
        <3>1. i - 1 \in 1..(n - 1) /\ (i - 1) + 1 = i
            BY <1>3, <2>2
        <3>2. r[i - 1] = q[i]
            BY <1>1, <3>1
        <3> QED
            BY <1>1, <3>1, <3>2 DEF ToSet
    <2> QED
        BY <1>1, <2>1, <2>2 DEF ToSet
<1>8. q[1] \in ToSet(q) /\ (n = 1 => ToSet(q) = {q[1]})
    <2>1. ToSet(q) = {q[i] : i \in 1..n}
        BY <1>1 DEF ToSet
    <2>2. n = 1 => \A i \in 1..n : i = 1
        OBVIOUS
    <2> QED
        BY <1>6, <2>1, <2>2
<1>9. /\ IsInjective(r) /\ ToSet(r) = ToSet(q) \ {Head(q)}
      /\ Head(q) \in ToSet(q) /\ (n = 1 => ToSet(q) = {Head(q)})
      /\ (n # 1 => r # <<>>)
    <2>1. n - 1 # 0 \/ n = 1
        BY <1>1
    <2> QED
        BY <1>1, <1>4, <1>5, <1>7, <1>8, <2>1
<1> QED
    BY <1>9, Zenon DEF r, n

LEMMA ToSetRemoveAt ==
    ASSUME NEW T, NEW q \in Seq(T), IsInjective(q), NEW k \in DOMAIN q
    PROVE  LET r == RemoveAt(q, k) IN
           r \in Seq(T) /\ IsInjective(r) /\ ToSet(r) = ToSet(q) \ {q[k]}
<1> DEFINE n == Len(q)
           a == SubSeq(q, 1, k - 1)
           b == SubSeq(q, k + 1, n)
           r == a \o b
<1>1. n \in Nat /\ k \in 1..n /\ DOMAIN q = 1..n
    OBVIOUS
<1>2. a \in Seq(T) /\ Len(a) = k - 1 /\ \A i \in 1..(k - 1) : a[i] = q[i]
    BY <1>1
<1>3. b \in Seq(T) /\ Len(b) = n - k /\ \A i \in 1..(n - k) : b[i] = q[k + i]
    BY <1>1
<1> HIDE DEF a, b, n
<1>4. /\ r \in Seq(T) /\ Len(r) = n - 1 /\ DOMAIN r = 1..(n - 1)
      /\ \A i \in 1..(n - 1) : r[i] = IF i < k THEN a[i] ELSE b[i - (k - 1)]
    <2>1. Len(a) + Len(b) = n - 1
        BY <1>1, <1>2, <1>3
    <2>2. /\ r \in Seq(T) /\ Len(r) = n - 1
          /\ \A i \in 1..(n - 1) : r[i] = IF i <= k - 1 THEN a[i] ELSE b[i - (k - 1)]
        <3>1. /\ r \in Seq(T) /\ Len(r) = Len(a) + Len(b)
              /\ \A i \in 1..(Len(a) + Len(b)) :
                   r[i] = IF i <= Len(a) THEN a[i] ELSE b[i - Len(a)]
            BY <1>2, <1>3, ConcatProperties
        <3> HIDE DEF r
        <3> QED
            BY <1>2, <2>1, <3>1
    <2> QED
        BY <1>1, <2>2
<1>5. ASSUME NEW i \in 1..(n - 1)
      PROVE  r[i] = q[IF i < k THEN i ELSE i + 1]
    <2>1. CASE i < k
        BY <1>1, <1>2, <1>4, <2>1
    <2>2. CASE ~(i < k)
        <3>1. i - (k - 1) \in 1..(n - k) /\ k + (i - (k - 1)) = i + 1
            BY <1>1, <2>2
        <3>2. b[i - (k - 1)] = q[i + 1]
            BY <1>3, <3>1
        <3> QED
            BY <1>4, <2>2, <3>2
    <2> QED
        BY <2>1, <2>2
<1> DEFINE g(i) == IF i < k THEN i ELSE i + 1
<1>6. \A i \in 1..(n - 1) : g(i) \in 1..n /\ g(i) # k /\ r[i] = q[g(i)]
    <2> SUFFICES ASSUME NEW i \in 1..(n - 1)
                 PROVE  g(i) \in 1..n /\ g(i) # k /\ r[i] = q[g(i)]
        OBVIOUS
    <2>1. r[i] = q[g(i)]
        BY <1>5
    <2>2. g(i) \in 1..n /\ g(i) # k
        BY <1>1
    <2> QED
        BY <2>1, <2>2
<1>7. \A i, j \in 1..(n - 1) : g(i) = g(j) => i = j
    BY <1>1
<1>8. \A j \in 1..n : j # k => \E i \in 1..(n - 1) : g(i) = j
    <2> SUFFICES ASSUME NEW j \in 1..n, j # k PROVE \E i \in 1..(n - 1) : g(i) = j
        OBVIOUS
    <2>1. CASE j < k
        <3>1. j \in 1..(n - 1) /\ g(j) = j
            BY <1>1, <2>1
        <3> QED
            BY <3>1
    <2>2. CASE ~(j < k)
        <3>1. j - 1 \in 1..(n - 1) /\ g(j - 1) = j
            BY <1>1, <2>2
        <3> QED
            BY <3>1
    <2> QED
        BY <2>1, <2>2
<1>9. \A i, j \in 1..n : q[i] = q[j] => i = j
    BY <1>1 DEF IsInjective
<1> HIDE DEF g, r
<1>10. IsInjective(r)
    BY <1>4, <1>6, <1>7, <1>9 DEF IsInjective
<1>11. ToSet(r) = ToSet(q) \ {q[k]}
    <2>1. ASSUME NEW i \in 1..(n - 1) PROVE r[i] \in ToSet(q) /\ r[i] # q[k]
        <3>1. g(i) \in 1..n /\ g(i) # k /\ r[i] = q[g(i)]
            BY <1>6
        <3>2. q[g(i)] # q[k]
            BY <1>1, <1>9, <3>1
        <3> QED
            BY <1>1, <3>1, <3>2 DEF ToSet
    <2>2. ASSUME NEW j \in 1..n, q[j] # q[k] PROVE q[j] \in ToSet(r)
        <3>1. PICK i \in 1..(n - 1) : g(i) = j
            BY <1>8, <2>2
        <3>2. r[i] = q[j]
            BY <1>6, <3>1
        <3> QED
            BY <1>4, <3>2 DEF ToSet
    <2>3. ToSet(q) = {q[j] : j \in 1..n} /\ ToSet(r) = {r[i] : i \in 1..(n - 1)}
        BY <1>1, <1>4 DEF ToSet
    <2> QED
        BY <2>1, <2>2, <2>3
<1> QED
    BY <1>4, <1>10, <1>11 DEF RemoveAt, r, a, b, n

------------------------------------------------------------------------------
(* Counting.                                                                *)

LEMMA CountType ==
    ASSUME NEW T, NEW q \in Seq(T), NEW S \in SUBSET (DOMAIN q)
    PROVE  IsFiniteSet(S) /\ Cardinality(S) \in Nat /\ Cardinality(S) <= Len(q)
<1>1. DOMAIN q = 1..Len(q) /\ Len(q) \in Nat
    OBVIOUS
<1>2. IsFiniteSet(1..Len(q)) /\ Cardinality(1..Len(q)) = Len(q)
    <2> DEFINE n == Len(q)
    <2>1. n \in Nat /\ n \in Int /\ 1 \in Int
        BY <1>1
    <2> HIDE DEF n
    <2>2. IsFiniteSet(1..n) /\ Cardinality(1..n) = IF 1 > n THEN 0 ELSE n - 1 + 1
        BY <2>1, FS_Interval
    <2>3. Cardinality(1..n) = n
        BY <2>1, <2>2
    <2> QED
        BY <2>2, <2>3 DEF n
<1> QED
    BY <1>1, <1>2, FS_Subset, FS_CardinalityType

LEMMA OccurrencesType ==
    ASSUME NEW T, NEW q \in Seq(T), NEW e
    PROVE  Occurrences(e, q) \in Nat /\ (Occurrences(e, q) = 0 <=> e \notin ToSet(q))
<1> DEFINE S == {i \in DOMAIN q : q[i] = e}
<1>1. IsFiniteSet(S) /\ Cardinality(S) \in Nat
    BY CountType
<1>2. Cardinality(S) = 0 <=> S = {}
    BY <1>1, FS_EmptySet
<1>3. S = {} <=> e \notin ToSet(q)
    BY DEF ToSet
<1> QED
    BY <1>1, <1>2, <1>3 DEF Occurrences

LEMMA OccurrencesAppend ==
    ASSUME NEW T, NEW q \in Seq(T), NEW x \in T, NEW e
    PROVE  Occurrences(e, Append(q, x)) = Occurrences(e, q) + IF x = e THEN 1 ELSE 0
<1> DEFINE a == Append(q, x)
           S == {i \in DOMAIN q : q[i] = e}
           A == {i \in DOMAIN a : a[i] = e}
           m == Len(q) + 1
<1>1. /\ DOMAIN a = DOMAIN q \cup {m} /\ m \notin DOMAIN q
      /\ a[m] = x /\ \A i \in DOMAIN q : a[i] = q[i]
    BY AppendFields
<1>2. IsFiniteSet(S) /\ Cardinality(S) \in Nat
    BY CountType
<1> HIDE DEF a, m
<1>3. CASE x = e
    <2>1. A = S \cup {m} /\ m \notin S
        BY <1>1, <1>3
    <2> HIDE DEF A, S
    <2>2. Cardinality(A) = Cardinality(S) + 1
        BY <1>2, <2>1, FS_AddElement
    <2> QED
        BY <1>3, <2>2 DEF Occurrences, A, S, a
<1>4. CASE x # e
    <2>1. A = S
        BY <1>1, <1>4
    <2> QED
        <3> HIDE DEF A, S
        <3>1. Cardinality(A) = Cardinality(S) + 0
            BY <1>2, <2>1
        <3> QED
            BY <1>4, <3>1 DEF Occurrences, a, A, S
<1> QED
    BY <1>3, <1>4

LEMMA OccurrencesTail ==
    ASSUME NEW T, NEW q \in Seq(T), q # <<>>, NEW e
    PROVE  Occurrences(e, q) = Occurrences(e, Tail(q)) + IF Head(q) = e THEN 1 ELSE 0
<1> DEFINE r == Tail(q)
           n == Len(q)
           S == {i \in DOMAIN q : q[i] = e}
           R == {i \in DOMAIN r : r[i] = e}
           U == S \ {1}
           f == [i \in R |-> i + 1]
<1>1. /\ n \in Nat \ {0} /\ DOMAIN q = 1..n /\ DOMAIN r = 1..(n - 1) /\ Head(q) = q[1]
      /\ \A i \in 1..(n - 1) : i + 1 \in 1..n /\ i + 1 > 1 /\ r[i] = q[i + 1]
    BY TailFields
<1>2. IsFiniteSet(S) /\ Cardinality(S) \in Nat
    BY CountType
<1>3. IsFiniteSet(R) /\ Cardinality(R) \in Nat
    BY TailFields, CountType
<1> HIDE DEF r, n
<1>4. f \in [R -> U]
    BY <1>1
<1>5. \A i, j \in R : f[i] = f[j] => i = j
    BY <1>1
<1>6. \A j \in U : \E i \in R : f[i] = j
    <2> SUFFICES ASSUME NEW j \in U PROVE \E i \in R : f[i] = j
        OBVIOUS
    <2>1. j - 1 \in 1..(n - 1) /\ (j - 1) + 1 = j /\ q[j] = e
        BY <1>1
    <2>2. j - 1 \in R
        BY <1>1, <2>1
    <2> QED
        BY <2>1, <2>2
<1> HIDE DEF f, R, S, U
<1>7. f \in Bijection(R, U)
    BY <1>4, <1>5, <1>6 DEF Bijection, Injection, Surjection, IsInjective
<1>8. Cardinality(U) = Cardinality(R)
    BY <1>3, <1>7, FS_Bijection DEF ExistsBijection
<1>9. Cardinality(U) = IF 1 \in S THEN Cardinality(S) - 1 ELSE Cardinality(S)
    BY <1>2, FS_RemoveElement DEF U
<1>10. 1 \in S <=> Head(q) = e
    BY <1>1 DEF S
<1>11. Cardinality(S) = Cardinality(R) + IF Head(q) = e THEN 1 ELSE 0
    BY <1>2, <1>3, <1>8, <1>9, <1>10
<1> QED
    BY <1>11 DEF Occurrences, S, R, r

------------------------------------------------------------------------------
(* Appending a line.                                                        *)

LEMMA LinesOfAppend ==
    ASSUME log \in Seq(Lines), NEW x \in Lines, log' = Append(log, x), NEW g \in Threads
    PROVE  /\ LinesOf(g) \in Nat /\ LinesOf(g) <= Len(log)
           /\ LinesOf(g)' = LinesOf(g) + IF x[1] = g THEN 1 ELSE 0
<1> DEFINE S == {i \in DOMAIN log : log[i][1] = g}
           A == {i \in DOMAIN log' : log'[i][1] = g}
           m == Len(log) + 1
<1>1. /\ DOMAIN log' = DOMAIN log \cup {m} /\ m \notin DOMAIN log
      /\ log'[m] = x /\ \A i \in DOMAIN log : log'[i] = log[i]
    BY AppendFields
<1>2. IsFiniteSet(S) /\ Cardinality(S) \in Nat /\ Cardinality(S) <= Len(log)
    BY CountType
<1> HIDE DEF m
<1>3. Cardinality(A) = Cardinality(S) + IF x[1] = g THEN 1 ELSE 0
    <2>1. CASE x[1] = g
        <3>1. A = S \cup {m} /\ m \notin S
            BY <1>1, <2>1
        <3> HIDE DEF A, S
        <3> QED
            BY <1>2, <2>1, <3>1, FS_AddElement
    <2>2. CASE x[1] # g
        <3>1. A = S
            BY <1>1, <2>2
        <3> HIDE DEF A, S
        <3> QED
            BY <1>2, <2>2, <3>1
    <2> QED
        BY <2>1, <2>2
<1>4. LinesOf(g) = Cardinality(S) /\ LinesOf(g)' = Cardinality(A)
    BY DEF LinesOf
<1> QED
    BY <1>2, <1>3, <1>4

\* The next line of a thread is none there is, and the last in its order.
LEMMA NextLineIsNew ==
    ASSUME Types, Numbered, NEW h \in Threads, Len(log) < MaxLines
    PROVE  /\ NextLine(h) \in Lines /\ NextLine(h)[1] = h
           /\ NextLine(h)[2] = LinesOf(h) + 1
           /\ \A i \in DOMAIN log : Lt(log[i], NextLine(h)) /\ log[i] # NextLine(h)
<1>1. LinesOf(h) \in Nat /\ LinesOf(h) <= Len(log)
    BY CountType DEF Types, LinesOf
<1>2. NextLine(h) = <<h, LinesOf(h) + 1>>
    BY DEF NextLine, LinesOf
<1>3. LinesOf(h) + 1 \in 1..MaxLines
    BY <1>1 DEF Types
<1>4. \A i \in DOMAIN log : log[i][1] = h => log[i][2] < LinesOf(h) + 1
    <2> SUFFICES ASSUME NEW i \in DOMAIN log, log[i][1] = h
                 PROVE  log[i][2] < LinesOf(h) + 1
        OBVIOUS
    <2>1. log[i] \in Lines
        BY DEF Types
    <2>2. log[i][2] \in Nat
        BY <2>1, LineFields
    <2>3. log[i][2] <= LinesOf(h)
        BY DEF Numbered
    <2> QED
        BY <1>1, <2>2, <2>3
<1> DEFINE n == LinesOf(h) + 1
<1>5. /\ NextLine(h) \in Lines /\ NextLine(h)[1] = h /\ NextLine(h)[2] = n
    BY <1>2, <1>3 DEF Lines
<1>6. \A i \in DOMAIN log : log[i][2] \in Nat
    BY LineFields DEF Types
<1>7. n \in Nat
    BY <1>1
<1> HIDE DEF n
<1>8. ASSUME NEW i \in DOMAIN log PROVE Lt(log[i], NextLine(h)) /\ log[i] # NextLine(h)
    <2>1. log[i][1] = h => log[i][2] < n
        BY <1>4 DEF n
    <2>2. ~(n < n)
        BY <1>7
    <2> QED
        BY <1>5, <2>1, <2>2 DEF Lt
<1> QED
    BY <1>5, <1>8 DEF n

LEMMA AppendNumbered ==
    ASSUME Types, Numbered, NEW h \in Threads, Len(log) < MaxLines,
           log' = Append(log, NextLine(h))
    PROVE  Numbered'
<1> DEFINE x == NextLine(h)
           m == Len(log) + 1
<1>1. /\ x \in Lines /\ x[1] = h /\ x[2] = LinesOf(h) + 1
      /\ \A i \in DOMAIN log : Lt(log[i], x)
    BY NextLineIsNew
<1>2. log \in Seq(Lines)
    BY DEF Types
<1> HIDE DEF x
<1>3. /\ DOMAIN log' = DOMAIN log \cup {m} /\ m \notin DOMAIN log /\ log'[m] = x
      /\ \A i \in DOMAIN log : log'[i] = log[i] /\ i < m /\ i \in Nat
      /\ m \in Nat
    BY <1>1, <1>2, AppendFields DEF x
<1> HIDE DEF m
<1>4. \A g \in Threads :
        LinesOf(g) \in Nat /\ LinesOf(g)' = LinesOf(g) + IF x[1] = g THEN 1 ELSE 0
    BY <1>1, <1>2, LinesOfAppend DEF x
<1>5. \A i \in DOMAIN log : log[i][1] \in Threads /\ log[i][2] \in Nat
    BY <1>2, LineFields
<1>6. ASSUME NEW i \in DOMAIN log' PROVE (log[i][2] <= LinesOf(log[i][1]))'
    <2>1. CASE i = m
        <3>1. log'[i] = x
            BY <1>3, <2>1
        <3>2. LinesOf(h)' = LinesOf(h) + 1 /\ LinesOf(h) \in Nat
            BY <1>1, <1>4
        <3>3. log'[i][2] = LinesOf(h) + 1 /\ log'[i][1] = h
            BY <1>1, <3>1
        <3>4. LinesOf(log[i][1])' = LinesOf(h)'
            BY <3>3 DEF LinesOf
        <3> QED
            BY <3>2, <3>3, <3>4
    <2>2. CASE i \in DOMAIN log
        <3>0. PICK g \in Threads : g = log[i][1]
            BY <1>5, <2>2
        <3>1. log'[i][2] = log[i][2] /\ log'[i][1] = g
            BY <1>3, <2>2, <3>0
        <3>2. log[i][2] <= LinesOf(g)
            BY <2>2, <3>0 DEF Numbered
        <3>3. LinesOf(g) \in Nat /\ LinesOf(g) <= LinesOf(g)' /\ LinesOf(g)' \in Nat
            BY <1>4
        <3>4. LinesOf(log[i][1])' = LinesOf(g)'
            BY <3>1 DEF LinesOf
        <3>5. log[i][2] \in Nat
            BY <1>5, <2>2
        <3> QED
            BY <3>1, <3>2, <3>3, <3>4, <3>5
    <2> QED
        BY <1>3, <2>1, <2>2
<1>7. ASSUME NEW i \in DOMAIN log', NEW j \in DOMAIN log', i < j, log'[i][1] = log'[j][1]
      PROVE  log'[i][2] < log'[j][2]
    <2>1. i \in DOMAIN log
        BY <1>3, <1>7
    <2>2. CASE j = m
        BY <1>1, <1>3, <1>7, <2>1, <2>2 DEF Lt
    <2>3. CASE j \in DOMAIN log
        BY <1>3, <1>7, <2>1, <2>3 DEF Numbered
    <2> QED
        BY <1>3, <2>2, <2>3
<1> QED
    BY <1>6, <1>7 DEF Numbered

\* A line has one publisher at most, the thread that appended it.
LEMMA OnePublisher ==
    ASSUME NEW line \in Lines, NEW P, NEW s,
           \A h \in Threads : P[h].line = line => line[1] = h
    PROVE  Cardinality({h \in Threads : P[h].line = line /\ s \in ToSet(P[h].to)}) =
             IF P[line[1]].line = line /\ s \in ToSet(P[line[1]].to) THEN 1 ELSE 0
<1> DEFINE S == {h \in Threads : P[h].line = line /\ s \in ToSet(P[h].to)}
<1>1. CASE P[line[1]].line = line /\ s \in ToSet(P[line[1]].to)
    <2>1. S = {line[1]}
        BY <1>1, LineFields
    <2> HIDE DEF S
    <2>2. Cardinality(S) = 1
        BY <2>1, FS_Singleton
    <2> QED
        BY <1>1, <2>2 DEF S
<1>2. CASE ~(P[line[1]].line = line /\ s \in ToSet(P[line[1]].to))
    <2>1. S = {}
        BY <1>2
    <2> HIDE DEF S
    <2>2. Cardinality(S) = 0
        BY <2>1, FS_EmptySet
    <2> QED
        BY <1>2, <2>2 DEF S
<1> QED
    BY <1>1, <1>2

LEMMA LineIsNotEmpty == <<>> \notin Lines
    BY DEF Lines

LEMMA EmptyToSet == ToSet(<<>>) = {} /\ DOMAIN <<>> = {}
    BY DEF ToSet

LEMMA Pieces ==
    ASSUME Types
    PROVE  /\ \A s \in Sockets : /\ live[s] \in Seq(Lines) /\ queue[s] \in Seq(Lines)
                                 /\ init[s] \in Seq(Lines) /\ dropped[s] \subseteq Lines
                                 /\ since[s] \in Nat
           /\ callbacks \in Seq(Sockets \X Lines) /\ log \in Seq(Lines)
           /\ \A i \in DOMAIN callbacks :
                /\ callbacks[i][1] \in Sockets /\ callbacks[i][2] \in Lines
                /\ callbacks[i] = <<callbacks[i][1], callbacks[i][2]>>
           /\ \A h \in Threads : /\ publishing[h].line \in Lines \cup {<<>>}
                                 /\ publishing[h].to \in Seq(Sockets)
<1> DEFINE L == Lines
<1>1. callbacks \in Seq(Sockets \X L)
    BY DEF Types
<1> HIDE DEF L
<1>2. \A i \in DOMAIN callbacks : callbacks[i] \in Sockets \X L
    BY <1>1
<1>3. \A c \in Sockets \X L : c[1] \in Sockets /\ c[2] \in L /\ c = <<c[1], c[2]>>
    OBVIOUS
<1>4. \A h \in Threads : publishing[h].line \in Lines \cup {<<>>} /\ publishing[h].to \in Seq(Sockets)
    BY DEF Types
<1> QED
    BY <1>2, <1>3, <1>4 DEF Types, L

LEMMA AppendLineInv ==
    ASSUME IInv, NEW h \in Threads, AppendLine(h)
    PROVE  IInv'
<1>1. /\ Types /\ Bounded /\ HistoryIsLatest /\ Numbered /\ Roster
      /\ \A s \in Sockets : Served(s)
    BY DEF IInv
<1>0. PICK x \in Lines : x = NextLine(h)
    BY <1>1, NextLineIsNew DEF AppendLine
<1> DEFINE p == IF subscribers = <<>> THEN Nothing ELSE [line |-> x, to |-> subscribers]
<1>2. /\ publishing[h] = Nothing /\ Len(log) < MaxLines /\ log' = Append(log, x)
      /\ lines' = LastOnes(Append(lines, x), Capacity)
      /\ publishing' = [publishing EXCEPT ![h] = p]
      /\ UNCHANGED <<subscribers, callbacks, queue, socket, init, live, dropped, since>>
    BY <1>0 DEF AppendLine, Trimmed, socketVars, loopVars
<1>3. /\ x \in Lines /\ x[1] = h
      /\ \A i \in DOMAIN log : Lt(log[i], x) /\ log[i] # x
    BY <1>0, <1>1, <1>2, NextLineIsNew
<1>4. Numbered'
    BY <1>0, <1>1, <1>2, AppendNumbered
<1>5. /\ log' \in Seq(Lines) /\ Len(log) \in Nat /\ Len(log') = Len(log) + 1
      /\ DOMAIN log = 1..Len(log) /\ DOMAIN log' = DOMAIN log \cup {Len(log) + 1}
      /\ log'[Len(log) + 1] = x /\ \A i \in DOMAIN log : log'[i] = log[i]
    <2>1. log \in Seq(Lines)
        BY <1>1 DEF Types
    <2> QED
        BY <1>2, <2>1, AppendFields
<1>6. /\ p \in [line : Lines \cup {<<>>}, to : Seq(Sockets)] /\ p.to = subscribers
      /\ p # Nothing => p.line = x /\ p.to # <<>>
      /\ p.line \in {x, <<>>} /\ (ToSet(p.to) # {} => p.line = x)
    <2>1. CASE subscribers = <<>>
        BY <2>1, EmptyToSet DEF Nothing
    <2>2. CASE subscribers # <<>>
        BY <1>1, <1>3, <2>2 DEF Types
    <2> QED
        BY <2>1, <2>2
<1> HIDE DEF p
<1>7. /\ \A g \in Threads : publishing'[g] = IF g = h THEN p ELSE publishing[g]
      /\ publishing[h].line = <<>> /\ ToSet(publishing[h].to) = {}
    BY <1>1, <1>2, EmptyToSet DEF Types, Nothing
<1>8. Types'
    <2>1. lines' \in Seq(Lines)
        <3>1. Append(lines, x) \in Seq(Lines)
            BY <1>1, <1>3 DEF Types
        <3> QED
            BY <1>2, <3>1, LastOnesType
    <2>2. publishing' \in [Threads -> [line : Lines \cup {<<>>}, to : Seq(Sockets)]]
        BY <1>1, <1>2, <1>6 DEF Types
    <2>3. Len(log') <= MaxLines
        BY <1>2, <1>5
    <2> QED
        BY <1>1, <1>2, <1>5, <2>1, <2>2, <2>3 DEF Types
<1>9. Bounded'
    <2> SUFFICES ASSUME NEW s \in Sockets
                 PROVE  Len(queue[s]) <= QueueMax /\ Len(init[s]) <= HistoryLimit
                        /\ since[s] <= Len(log')
        BY <1>2 DEF Bounded
    <2>1. since[s] \in Nat
        BY <1>1, Pieces
    <2> QED
        BY <1>1, <1>5, <2>1 DEF Bounded
<1>10. HistoryIsLatest'
    <2>1. lines = LastOnes(log, Capacity) /\ log \in Seq(Lines)
        BY <1>1 DEF HistoryIsLatest, Types
    <2> QED
        BY <1>2, <1>3, <2>1, LastOnesAppend DEF HistoryIsLatest
<1>11. Roster'
    <2>1. ASSUME NEW g \in Threads, publishing'[g] # Nothing
          PROVE  /\ publishing'[g].line \in Lines /\ publishing'[g].line[1] = g
                 /\ publishing'[g].to # <<>> /\ IsInjective(publishing'[g].to)
        <3>1. CASE g = h
            BY <1>1, <1>3, <1>6, <1>7, <2>1, <3>1 DEF Roster
        <3>2. CASE g # h
            BY <1>1, <1>7, <2>1, <3>2 DEF Roster
        <3> QED
            BY <3>1, <3>2
    <2> QED
        BY <1>1, <1>2, <2>1 DEF Roster
<1>12. ASSUME NEW s \in Sockets PROVE Served(s)'
    <2>1. Arrives(s) /\ Untouched(s) /\ Ordered(s) /\ Gapless(s)
        BY <1>1 DEF Served
    <2>2. \A line : After(s, line) => After(s, line)'
        BY <1>2, <1>5 DEF After
    <2>3. After(s, x)'
        <3>1. since[s] < Len(log) + 1 /\ Len(log) + 1 \in DOMAIN log'
            BY <1>1, <1>5, Pieces DEF Bounded
        <3> QED
            BY <1>2, <1>5, <3>1 DEF After
    <2>4. \A line : After(s, line) => Lt(line, x) /\ line # x
        BY <1>3 DEF After
    <2>5. \A g \in Threads : s \in ToSet(publishing'[g].to) =>
             \/ g # h /\ publishing'[g] = publishing[g] /\ s \in ToSet(publishing[g].to)
             \/ g = h /\ publishing'[g].line = x /\ s \in ToSet(subscribers)
        BY <1>6, <1>7
    <2>6. Arrives(s)'
        <3>1. ASSUME NEW g \in Threads, s \in ToSet(publishing'[g].to)
              PROVE  After(s, publishing[g].line)'
            <4>1. PICK line \in {x, publishing[g].line} : publishing'[g].line = line
                BY <2>5, <3>1
            <4>2. After(s, line)'
                BY <2>1, <2>2, <2>3, <2>5, <3>1, <4>1 DEF Arrives
            <4> QED
                BY <4>1, <4>2 DEF After
        <3> QED
            BY <1>2, <2>1, <2>2, <3>1 DEF Arrives
    <2>7. Untouched(s)'
        <3>1. socket[s] = "new" => s \notin ToSet(subscribers)
            BY <1>1 DEF Roster
        <3> QED
            BY <1>2, <2>1, <2>5, <3>1 DEF Untouched
    <2>8. Ordered(s)'
        <3>1. InQueueOrder(s)' /\ InCallbackOrder(s)'
            BY <1>2, <2>1 DEF Ordered, InQueueOrder, InCallbackOrder
        <3>2. InPublishingOrder(s)'
            <4> SUFFICES ASSUME NEW g \in Threads, s \in ToSet(publishing'[g].to)
                         PROVE  LET line == publishing'[g].line IN
                                /\ AllBelow(live[s], line) /\ AllBelow(queue[s], line)
                                /\ \A i \in DOMAIN callbacks :
                                     callbacks[i][1] = s => Lt(callbacks[i][2], line)
                BY <1>2 DEF InPublishingOrder
            <4>1. CASE g # h /\ publishing'[g] = publishing[g] /\ s \in ToSet(publishing[g].to)
                BY <2>1, <4>1 DEF Ordered, InPublishingOrder
            <4>2. CASE publishing'[g].line = x
                BY <2>1, <2>4, <4>2 DEF Arrives, AllBelow
            <4> QED
                BY <2>5, <4>1, <4>2
        <3> QED
            BY <3>1, <3>2 DEF Ordered
    <2>9. Gapless(s)'
        <3> SUFFICES ASSUME socket[s] \in {"subscribed", "open"}, NEW line \in Lines,
                            After(s, line)'
                     PROVE  Copies(s, line)' = IF line \in dropped[s] THEN 0 ELSE 1
            BY <1>2 DEF Gapless
        <3> DEFINE S == {g \in Threads : publishing[g].line = line /\ s \in ToSet(publishing[g].to)}
                   O == Occurrences(line, live[s]) + Occurrences(line, queue[s])
                        + Occurrences(<<s, line>>, callbacks)
        <3>1. Copies(s, line) = O + Cardinality(S) /\ Copies(s, line)' = O + Cardinality(S')
            BY <1>2 DEF Copies
        <3>2. CASE line # x
            <4>1. After(s, line)
                BY <1>2, <1>5, <3>2 DEF After
            <4>2. S' = S
                BY <1>6, <1>7, <3>2, LineIsNotEmpty
            <4> QED
                BY <2>1, <3>1, <4>1, <4>2 DEF Gapless
        <3>3. CASE line = x
            <4>1. /\ line \notin ToSet(live[s]) /\ line \notin ToSet(queue[s])
                  /\ <<s, line>> \notin ToSet(callbacks) /\ line \notin dropped[s]
                BY <2>1, <2>4, <3>3 DEF Arrives, ToSet
            <4>2. O = 0
                BY <1>1, <4>1, OccurrencesType, Pieces
            <4>3. S' = {h}
                <5>1. s \in ToSet(subscribers)
                    BY <1>1 DEF Roster
                <5>2. \A g \in Threads : g # h => publishing'[g].line # x
                    BY <1>1, <1>3, <1>7, LineIsNotEmpty DEF Roster, Nothing
                <5>3. publishing'[h].line = x /\ s \in ToSet(publishing'[h].to)
                    BY <1>6, <1>7, <5>1
                <5> QED
                    BY <3>3, <5>2, <5>3
            <4>4. Cardinality(S') = 1
                BY <4>3, FS_Singleton
            <4> HIDE DEF S, O
            <4> QED
                BY <3>1, <4>1, <4>2, <4>4
        <3> QED
            BY <3>2, <3>3
    <2> QED
        BY <2>6, <2>7, <2>8, <2>9 DEF Served
<1> QED
    BY <1>4, <1>8, <1>9, <1>10, <1>11, <1>12 DEF IInv

------------------------------------------------------------------------------
(* Publishing, and what the loop does with it.                              *)

LEMMA PublishInv ==
    ASSUME IInv, NEW h \in Threads, Publish(h)
    PROVE  IInv'
<1>1. /\ Types /\ Bounded /\ HistoryIsLatest /\ Numbered /\ Roster
      /\ \A s \in Sockets : Served(s)
    BY DEF IInv
<1>2. PICK to \in Seq(Sockets), x \in Lines :
        /\ publishing[h].to = to /\ publishing[h].line = x /\ x[1] = h
        /\ to # <<>> /\ IsInjective(to)
    BY <1>1, Pieces DEF Publish, Roster
<1>3. PICK r \in Sockets : r = Head(to)
    BY <1>2
<1> DEFINE c == <<r, x>>
           p == IF Len(to) = 1 THEN Nothing ELSE [publishing[h] EXCEPT !.to = Tail(to)]
<1>4. /\ publishing' = [publishing EXCEPT ![h] = p] /\ callbacks' = Append(callbacks, c)
      /\ UNCHANGED <<lines, subscribers, log, socket, init, live, since, queue, dropped>>
    BY <1>2, <1>3 DEF Publish, socketVars
<1>5. /\ IsInjective(Tail(to)) /\ ToSet(Tail(to)) = ToSet(to) \ {r} /\ r \in ToSet(to)
      /\ (Len(to) = 1 => ToSet(to) = {r}) /\ (Len(to) # 1 => Tail(to) # <<>>)
      /\ Tail(to) \in Seq(Sockets)
    BY <1>2, <1>3, ToSetTail
<1>6. /\ p \in [line : Lines \cup {<<>>}, to : Seq(Sockets)]
      /\ ToSet(p.to) = ToSet(to) \ {r}
      /\ p = Nothing \/ (p.line = x /\ p.to # <<>> /\ IsInjective(p.to))
      /\ p.line \in {x, <<>>} /\ (ToSet(p.to) # {} => p.line = x)
    <2>1. CASE Len(to) = 1
        BY <1>5, <2>1, EmptyToSet DEF Nothing
    <2>2. CASE Len(to) # 1
        <3>1. publishing[h] \in [line : Lines \cup {<<>>}, to : Seq(Sockets)]
            BY <1>1 DEF Types
        <3>2. p = [publishing[h] EXCEPT !.to = Tail(to)]
            BY <2>2
        <3>3. /\ p \in [line : Lines \cup {<<>>}, to : Seq(Sockets)]
              /\ p.line = x /\ p.to = Tail(to)
            BY <1>2, <1>5, <3>1, <3>2
        <3> HIDE DEF p
        <3> QED
            BY <1>5, <2>2, <3>3
    <2> QED
        BY <2>1, <2>2
<1> HIDE DEF p
<1>7. \A g \in Threads : publishing'[g] = IF g = h THEN p ELSE publishing[g]
    BY <1>1, <1>4 DEF Types
<1> DEFINE m == Len(callbacks) + 1
<1>8. /\ callbacks' \in Seq(Sockets \X Lines)
      /\ DOMAIN callbacks' = DOMAIN callbacks \cup {m} /\ callbacks'[m] = c
      /\ c[1] = r /\ c[2] = x
      /\ \A i \in DOMAIN callbacks : callbacks'[i] = callbacks[i] /\ i < m /\ i \in Nat
      /\ m \in Nat
    <2> DEFINE T == Sockets \X Lines
    <2>1. callbacks \in Seq(T) /\ c \in T
        BY <1>1 DEF Types
    <2> HIDE DEF T
    <2>2. /\ callbacks' \in Seq(T)
          /\ DOMAIN callbacks' = DOMAIN callbacks \cup {m} /\ callbacks'[m] = c
          /\ \A i \in DOMAIN callbacks : callbacks'[i] = callbacks[i] /\ i < m /\ i \in Nat
          /\ m \in Nat
        BY <1>4, <2>1, AppendFields
    <2> QED
        BY <2>2 DEF T
<1> HIDE DEF m, c
<1>9. Types'
    <2>1. publishing' \in [Threads -> [line : Lines \cup {<<>>}, to : Seq(Sockets)]]
        BY <1>1, <1>4, <1>6 DEF Types
    <2> QED
        BY <1>1, <1>4, <1>8, <2>1 DEF Types
<1>10. Bounded' /\ HistoryIsLatest' /\ Numbered'
    BY <1>1, <1>4 DEF Bounded, HistoryIsLatest, Numbered, LinesOf
<1>11. Roster'
    <2>1. ASSUME NEW g \in Threads, publishing'[g] # Nothing
          PROVE  /\ publishing'[g].line \in Lines /\ publishing'[g].line[1] = g
                 /\ publishing'[g].to # <<>> /\ IsInjective(publishing'[g].to)
        <3>1. CASE g = h
            BY <1>2, <1>6, <1>7, <2>1, <3>1
        <3>2. CASE g # h
            BY <1>1, <1>7, <2>1, <3>2 DEF Roster
        <3> QED
            BY <3>1, <3>2
    <2> QED
        BY <1>1, <1>4, <2>1 DEF Roster
<1>12. ASSUME NEW s \in Sockets PROVE Served(s)'
    <2>1. Arrives(s) /\ Untouched(s) /\ Ordered(s) /\ Gapless(s)
        BY <1>1 DEF Served
    <2>2. \A line : After(s, line)' <=> After(s, line)
        BY <1>4 DEF After
    <2>3. \A g \in Threads : s \in ToSet(publishing'[g].to) =>
            /\ s \in ToSet(publishing[g].to) /\ publishing'[g].line = publishing[g].line
            /\ g = h => s # r
        BY <1>2, <1>6, <1>7
    <2>4. r = s => s \in ToSet(publishing[h].to)
        BY <1>2, <1>5
    <2>5. Arrives(s)'
        <3>1. r = s => After(s, x)
            BY <1>2, <2>1, <2>4 DEF Arrives
        <3>2. \A i \in DOMAIN callbacks' : callbacks'[i][1] = s => After(s, callbacks'[i][2])
            BY <1>8, <2>1, <3>1 DEF Arrives
        <3>3. \A g \in Threads :
                s \in ToSet(publishing'[g].to) => After(s, publishing'[g].line)
            BY <2>1, <2>3 DEF Arrives
        <3> QED
            BY <1>4, <2>1, <3>2, <3>3 DEF Arrives, After
    <2>6. Untouched(s)'
        BY <1>4, <1>8, <2>1, <2>3, <2>4 DEF Untouched
    <2>7. InQueueOrder(s)'
        BY <1>4, <2>1 DEF Ordered, InQueueOrder
    <2>8. InCallbackOrder(s)'
        <3>1. r = s => /\ AllBelow(live[s], x) /\ AllBelow(queue[s], x)
                       /\ \A i \in DOMAIN callbacks : callbacks[i][1] = s => Lt(callbacks[i][2], x)
            BY <1>2, <2>1, <2>4 DEF Ordered, InPublishingOrder
        <3>2. ASSUME NEW i \in DOMAIN callbacks', callbacks'[i][1] = s
              PROVE  AllBelow(live[s], callbacks'[i][2]) /\ AllBelow(queue[s], callbacks'[i][2])
            BY <1>8, <2>1, <3>1, <3>2 DEF Ordered, InCallbackOrder
        <3>3. ASSUME NEW i \in DOMAIN callbacks', NEW j \in DOMAIN callbacks', i < j,
                     callbacks'[i][1] = s, callbacks'[j][1] = s
              PROVE  Lt(callbacks'[i][2], callbacks'[j][2])
            <4>1. i \in DOMAIN callbacks
                BY <1>8, <3>3
            <4>2. CASE j = m
                BY <1>8, <3>1, <3>3, <4>1, <4>2
            <4>3. CASE j \in DOMAIN callbacks
                BY <1>8, <2>1, <3>3, <4>1, <4>3 DEF Ordered, InCallbackOrder
            <4> QED
                BY <1>8, <4>2, <4>3
        <3> QED
            BY <1>4, <3>2, <3>3 DEF InCallbackOrder
    <2>9. InPublishingOrder(s)'
        <3> SUFFICES ASSUME NEW g \in Threads, s \in ToSet(publishing'[g].to)
                     PROVE  LET line == publishing'[g].line IN
                            /\ AllBelow(live[s], line) /\ AllBelow(queue[s], line)
                            /\ \A i \in DOMAIN callbacks' :
                                 callbacks'[i][1] = s => Lt(callbacks'[i][2], line)
            BY <1>4 DEF InPublishingOrder
        <3>1. s \in ToSet(publishing[g].to) /\ publishing'[g].line = publishing[g].line
            BY <2>3
        <3>2. /\ AllBelow(live[s], publishing[g].line) /\ AllBelow(queue[s], publishing[g].line)
              /\ \A i \in DOMAIN callbacks :
                   callbacks[i][1] = s => Lt(callbacks[i][2], publishing[g].line)
            BY <2>1, <3>1 DEF Ordered, InPublishingOrder
        <3>3. callbacks'[m][1] = s => Lt(callbacks'[m][2], publishing[g].line)
            <4>1. callbacks'[m][1] = s => g # h
                BY <1>8, <2>3
            <4>2. publishing[g] # Nothing
                BY <3>1, EmptyToSet DEF Nothing
            <4>3. publishing[g].line[1] = g
                BY <1>1, <4>2 DEF Roster
            <4> QED
                BY <1>2, <1>8, <4>1, <4>3 DEF Lt
        <3> QED
            BY <1>8, <3>1, <3>2, <3>3
    <2>10. Gapless(s)'
        <3> SUFFICES ASSUME socket[s] \in {"subscribed", "open"}, NEW line \in Lines,
                            After(s, line)
                     PROVE  Copies(s, line)' = IF line \in dropped[s] THEN 0 ELSE 1
            BY <1>4, <2>2 DEF Gapless
        <3> DEFINE S == {g \in Threads : publishing[g].line = line /\ s \in ToSet(publishing[g].to)}
                   O == Occurrences(line, live[s]) + Occurrences(line, queue[s])
                   C == Occurrences(<<s, line>>, callbacks)
        <3>1. Copies(s, line) = O + C + Cardinality(S)
              /\ Copies(s, line)' = O + C' + Cardinality(S')
            BY <1>4 DEF Copies
        <3>2. C \in Nat /\ C' = C + IF c = <<s, line>> THEN 1 ELSE 0
            <4> DEFINE T == Sockets \X Lines
            <4>1. callbacks \in Seq(T) /\ c \in T
                BY <1>1 DEF Types, c
            <4> HIDE DEF T
            <4> QED
                BY <1>4, <4>1, OccurrencesAppend, OccurrencesType
        <3>3. O \in Nat
            BY <1>1, Pieces, OccurrencesType
        <3>4. Copies(s, line) = IF line \in dropped[s] THEN 0 ELSE 1
            BY <2>1 DEF Gapless
        <3>5. CASE r = s /\ x = line
            <4>1. \A g \in Threads : publishing[g].line = line => g = h
                BY <1>1, <1>2, <3>5, LineIsNotEmpty DEF Roster, Nothing
            <4>2. S = {h}
                BY <1>2, <2>4, <3>5, <4>1
            <4>3. S' = {}
                BY <1>6, <1>7, <2>3, <3>5, <4>1
            <4>4. Cardinality(S) = 1 /\ Cardinality(S') = 0
                BY <4>2, <4>3, FS_Singleton, FS_EmptySet
            <4>5. C' = C + 1
                BY <3>2, <3>5 DEF c
            <4> HIDE DEF S, C, O
            <4> QED
                BY <3>1, <3>2, <3>3, <3>4, <4>4, <4>5
        <3>6. CASE ~(r = s /\ x = line)
            <4>1. S' = S
                BY <1>2, <1>6, <1>7, <3>6, LineIsNotEmpty
            <4>2. C' = C
                BY <3>2, <3>6 DEF c
            <4> HIDE DEF S, C, O
            <4> QED
                BY <3>1, <3>4, <4>1, <4>2
        <3> QED
            BY <3>5, <3>6
    <2> QED
        BY <2>5, <2>6, <2>7, <2>8, <2>9, <2>10 DEF Served, Ordered
<1> QED
    BY <1>9, <1>10, <1>11, <1>12 DEF IInv

LEMMA CallbackInv ==
    ASSUME IInv, Callback
    PROVE  IInv'
<1>1. /\ Types /\ Bounded /\ HistoryIsLatest /\ Numbered /\ Roster
      /\ \A s \in Sockets : Served(s)
    BY DEF IInv
<1>2. /\ callbacks # <<>> /\ callbacks \in Seq(Sockets \X Lines)
      /\ \A i \in DOMAIN callbacks : callbacks[i] \in Sockets \X Lines
    BY <1>1 DEF Callback, Types
<1>3. PICK r \in Sockets, x \in Lines : Head(callbacks) = <<r, x>>
    BY <1>2
<1> DEFINE Room == Len(queue[r]) < QueueMax
<1>4. /\ callbacks' = Tail(callbacks)
      /\ Room => /\ queue' = [queue EXCEPT ![r] = Append(@, x)] /\ UNCHANGED dropped
      /\ ~Room => /\ dropped' = [dropped EXCEPT ![r] = @ \cup {x}] /\ UNCHANGED queue
      /\ UNCHANGED <<lines, subscribers, publishing, log, socket, init, live, since>>
    BY <1>1, <1>3 DEF Callback, streamVars, socketVars, Bounded
<1>5. /\ callbacks' \in Seq(Sockets \X Lines) /\ 1 \in DOMAIN callbacks
      /\ callbacks[1][1] = r /\ callbacks[1][2] = x
      /\ \A i \in DOMAIN callbacks' :
           i + 1 \in DOMAIN callbacks /\ i + 1 > 1 /\ callbacks'[i] = callbacks[i + 1]
    <2> DEFINE T == Sockets \X Lines
    <2>1. callbacks \in Seq(T) /\ callbacks # <<>>
        BY <1>2
    <2> HIDE DEF T
    <2>2. /\ callbacks' \in Seq(T) /\ 1 \in DOMAIN callbacks /\ callbacks[1] = Head(callbacks)
          /\ \A i \in DOMAIN callbacks' :
               i + 1 \in DOMAIN callbacks /\ i + 1 > 1 /\ callbacks'[i] = callbacks[i + 1]
        BY <1>4, <2>1, TailFields
    <2> QED
        BY <1>3, <2>2 DEF T
<1>6. \A i, j \in DOMAIN callbacks' : i < j => i + 1 < j + 1
    <2>1. DOMAIN callbacks' = 1..Len(callbacks')
        BY <1>5
    <2> QED
        BY <2>1
<1>7. \A s \in Sockets :
        /\ s = r /\ Room => queue'[s] = Append(queue[s], x) /\ dropped'[s] = dropped[s]
        /\ s = r /\ ~Room => queue'[s] = queue[s] /\ dropped'[s] = dropped[s] \cup {x}
        /\ s # r => queue'[s] = queue[s] /\ dropped'[s] = dropped[s]
    BY <1>1, <1>4 DEF Types
<1>8. \A s \in Sockets : /\ live[s] \in Seq(Lines) /\ queue[s] \in Seq(Lines)
                         /\ Append(queue[s], x) \in Seq(Lines) /\ dropped[s] \subseteq Lines
    BY <1>1, Pieces
<1>9. Types'
    <2>1. queue \in [Sockets -> Seq(Lines)] /\ dropped \in [Sockets -> SUBSET Lines]
        BY <1>1 DEF Types
    <2>2. queue' \in [Sockets -> Seq(Lines)] /\ dropped' \in [Sockets -> SUBSET Lines]
        <3>1. CASE Room
            <4>1. queue' = [queue EXCEPT ![r] = Append(queue[r], x)] /\ dropped' = dropped
                BY <1>4, <3>1
            <4> HIDE DEF Room
            <4> QED
                BY <1>8, <2>1, <4>1
        <3>2. CASE ~Room
            <4>1. dropped' = [dropped EXCEPT ![r] = dropped[r] \cup {x}] /\ queue' = queue
                BY <1>4, <3>2
            <4> HIDE DEF Room
            <4> QED
                BY <1>8, <2>1, <4>1
        <3> QED
            BY <3>1, <3>2
    <2> QED
        BY <1>1, <1>4, <1>5, <2>1, <2>2 DEF Types
<1>10. Bounded'
    <2> SUFFICES ASSUME NEW s \in Sockets PROVE Len(queue'[s]) <= QueueMax
        BY <1>1, <1>4 DEF Bounded
    <2>1. Len(queue[s]) <= QueueMax /\ Len(queue[s]) \in Nat
        BY <1>1, <1>8 DEF Bounded
    <2>2. CASE s = r /\ Room
        <3>1. Len(queue'[s]) = Len(queue[s]) + 1
            BY <1>7, <1>8, <2>2
        <3> QED
            BY <2>1, <2>2, <3>1
    <2>3. CASE ~(s = r /\ Room)
        BY <1>7, <2>1, <2>3
    <2> QED
        BY <2>2, <2>3
<1>11. HistoryIsLatest' /\ Numbered' /\ Roster'
    BY <1>1, <1>4 DEF HistoryIsLatest, Numbered, LinesOf, Roster
<1>12. ASSUME NEW s \in Sockets PROVE Served(s)'
    <2>1. Arrives(s) /\ Untouched(s) /\ Ordered(s) /\ Gapless(s)
        BY <1>1 DEF Served
    <2>2. \A line : After(s, line)' <=> After(s, line)
        BY <1>4 DEF After
    <2>3. s = r => After(s, x) /\ socket[s] # "new"
        BY <1>5, <2>1 DEF Arrives, Untouched
    <2>4. ASSUME s = r
          PROVE  /\ AllBelow(live[s], x) /\ AllBelow(queue[s], x)
                 /\ \A i \in DOMAIN callbacks' : callbacks'[i][1] = s => Lt(x, callbacks'[i][2])
                 /\ \A h \in Threads : s \in ToSet(publishing[h].to) => Lt(x, publishing[h].line)
        BY <1>5, <2>1, <2>4 DEF Ordered, InCallbackOrder, InPublishingOrder
    <2>5. \A y : AllBelow(queue[s], y) /\ (s = r => Lt(x, y)) => AllBelow(queue'[s], y)
        <3>1. s = r /\ Room => \A y : AllBelow(queue'[s], y) <=> AllBelow(queue[s], y) /\ Lt(x, y)
            <4>1. \A y : AllBelow(Append(queue[s], x), y) <=> AllBelow(queue[s], y) /\ Lt(x, y)
                BY <1>8, SortedAppend
            <4>2. s = r /\ Room => queue'[s] = Append(queue[s], x)
                BY <1>7
            <4> HIDE DEF Room
            <4> QED
                BY <4>1, <4>2
        <3>2. ~(s = r /\ Room) => queue'[s] = queue[s]
            BY <1>7
        <3> HIDE DEF Room
        <3> QED
            BY <3>1, <3>2
    <2>6. Arrives(s)'
        <3>1. ASSUME NEW i \in DOMAIN queue'[s] PROVE After(s, queue'[s][i])
            <4>1. CASE s = r /\ Room
                <5>1. /\ DOMAIN queue'[s] = DOMAIN queue[s] \cup {Len(queue[s]) + 1}
                      /\ queue'[s][Len(queue[s]) + 1] = x
                      /\ \A j \in DOMAIN queue[s] : queue'[s][j] = queue[s][j]
                    BY <1>7, <1>8, <4>1, AppendFields
                <5> QED
                    BY <2>1, <2>3, <3>1, <4>1, <5>1 DEF Arrives
            <4>2. CASE ~(s = r /\ Room)
                BY <1>7, <2>1, <3>1, <4>2 DEF Arrives
            <4> QED
                BY <4>1, <4>2
        <3>2. \A i \in DOMAIN callbacks' : callbacks'[i][1] = s => After(s, callbacks'[i][2])
            BY <1>5, <2>1 DEF Arrives
        <3>3. \A line \in dropped'[s] : After(s, line)
            BY <1>7, <2>1, <2>3 DEF Arrives
        <3> QED
            BY <1>4, <2>1, <3>1, <3>2, <3>3 DEF Arrives, After
    <2>7. Untouched(s)'
        BY <1>4, <1>5, <1>7, <2>1, <2>3 DEF Untouched
    <2>8. InQueueOrder(s)'
        <3>1. CASE s = r /\ Room
            <4>1. Sorted(queue'[s])
                BY <1>7, <1>8, <2>1, <2>4, <3>1, SortedAppend DEF Ordered, InQueueOrder
            <4>2. /\ DOMAIN queue'[s] = DOMAIN queue[s] \cup {Len(queue[s]) + 1}
                  /\ queue'[s][Len(queue[s]) + 1] = x
                  /\ \A j \in DOMAIN queue[s] : queue'[s][j] = queue[s][j]
                BY <1>7, <1>8, <3>1, AppendFields
            <4>3. \A i \in DOMAIN queue'[s] : AllBelow(live[s], queue'[s][i])
                BY <2>1, <2>4, <3>1, <4>2 DEF Ordered, InQueueOrder
            <4> QED
                BY <1>4, <2>1, <4>1, <4>3 DEF Ordered, InQueueOrder
        <3>2. CASE ~(s = r /\ Room)
            BY <1>4, <1>7, <2>1, <3>2 DEF Ordered, InQueueOrder
        <3> QED
            BY <3>1, <3>2
    <2>9. InCallbackOrder(s)'
        <3>1. ASSUME NEW i \in DOMAIN callbacks', callbacks'[i][1] = s
              PROVE  AllBelow(live[s], callbacks'[i][2]) /\ AllBelow(queue'[s], callbacks'[i][2])
            BY <1>5, <2>1, <2>4, <2>5, <3>1 DEF Ordered, InCallbackOrder
        <3>2. ASSUME NEW i \in DOMAIN callbacks', NEW j \in DOMAIN callbacks', i < j,
                     callbacks'[i][1] = s, callbacks'[j][1] = s
              PROVE  Lt(callbacks'[i][2], callbacks'[j][2])
            BY <1>5, <1>6, <2>1, <3>2 DEF Ordered, InCallbackOrder
        <3> QED
            BY <1>4, <3>1, <3>2 DEF InCallbackOrder
    <2>10. InPublishingOrder(s)'
        <3> SUFFICES ASSUME NEW h \in Threads, s \in ToSet(publishing[h].to)
                     PROVE  LET line == publishing[h].line IN
                            /\ AllBelow(live[s], line) /\ AllBelow(queue'[s], line)
                            /\ \A i \in DOMAIN callbacks' :
                                 callbacks'[i][1] = s => Lt(callbacks'[i][2], line)
            BY <1>4 DEF InPublishingOrder
        <3>1. /\ AllBelow(live[s], publishing[h].line) /\ AllBelow(queue[s], publishing[h].line)
              /\ \A i \in DOMAIN callbacks :
                   callbacks[i][1] = s => Lt(callbacks[i][2], publishing[h].line)
            BY <2>1 DEF Ordered, InPublishingOrder
        <3>2. AllBelow(queue'[s], publishing[h].line)
            BY <2>4, <2>5, <3>1
        <3> QED
            BY <1>5, <3>1, <3>2
    <2>11. Gapless(s)'
        <3> SUFFICES ASSUME socket[s] \in {"subscribed", "open"}, NEW line \in Lines,
                            After(s, line)
                     PROVE  Copies(s, line)' = IF line \in dropped'[s] THEN 0 ELSE 1
            BY <1>4, <2>2 DEF Gapless
        <3> DEFINE S == {g \in Threads : publishing[g].line = line /\ s \in ToSet(publishing[g].to)}
                   O == Occurrences(line, live[s])
                   Q == Occurrences(line, queue[s])
                   C == Occurrences(<<s, line>>, callbacks)
        <3>1. Copies(s, line) = O + Q + C + Cardinality(S)
              /\ Copies(s, line)' = O + Q' + C' + Cardinality(S)
            BY <1>4 DEF Copies
        <3>2. C \in Nat /\ C' \in Nat /\ C = C' + IF <<r, x>> = <<s, line>> THEN 1 ELSE 0
            <4> DEFINE T == Sockets \X Lines
            <4>1. callbacks \in Seq(T) /\ callbacks' \in Seq(T) /\ callbacks # <<>>
                BY <1>2, <1>5
            <4> HIDE DEF T
            <4>2. PICK e : e = <<s, line>>
                OBVIOUS
            <4>3. /\ Occurrences(e, callbacks) \in Nat /\ Occurrences(e, callbacks') \in Nat
                  /\ Occurrences(e, callbacks) =
                       Occurrences(e, Tail(callbacks)) + IF Head(callbacks) = e THEN 1 ELSE 0
                BY <4>1, OccurrencesTail, OccurrencesType
            <4> QED
                BY <1>3, <1>4, <4>2, <4>3
        <3>3. /\ O \in Nat /\ Q \in Nat
              /\ Q' = Q + IF s = r /\ Room /\ x = line THEN 1 ELSE 0
            <4>1. O \in Nat /\ Q \in Nat
                BY <1>8, OccurrencesType
            <4>2. CASE s = r /\ Room
                <5>1. queue'[s] = Append(queue[s], x)
                    BY <1>7, <4>2
                <5>2. Occurrences(line, Append(queue[s], x)) = Q + IF x = line THEN 1 ELSE 0
                    BY <1>8, OccurrencesAppend
                <5>3. Q' = Occurrences(line, Append(queue[s], x))
                    BY <5>1
                <5> HIDE DEF Room, Q
                <5> QED
                    BY <4>1, <4>2, <5>2, <5>3
            <4>3. CASE ~(s = r /\ Room)
                <5>1. Q' = Q
                    BY <1>7, <4>3
                <5> HIDE DEF Q
                <5> QED
                    BY <4>1, <4>3, <5>1
            <4> QED
                BY <4>1, <4>2, <4>3
        <3>4. Copies(s, line) = IF line \in dropped[s] THEN 0 ELSE 1
            BY <2>1 DEF Gapless
        <3>5. Cardinality(S) \in {0, 1}
            <4>1. \A g \in Threads : publishing[g].line = line => line[1] = g
                BY <1>1, LineIsNotEmpty DEF Roster, Nothing
            <4> QED
                BY <4>1, OnePublisher
        <3>6. CASE s = r /\ x = line
            <4>1. C = C' + 1 /\ (Room => Q' = Q + 1) /\ (~Room => Q' = Q)
                BY <3>2, <3>3, <3>6
            <4>2. /\ Room => (line \in dropped'[s] <=> line \in dropped[s])
                  /\ ~Room => line \in dropped'[s]
                BY <1>7, <3>6
            <4> HIDE DEF S, C, O, Q, Room
            <4> QED
                BY <3>1, <3>2, <3>3, <3>4, <3>5, <4>1, <4>2
        <3>7. CASE ~(s = r /\ x = line)
            <4>1. C = C' /\ Q' = Q
                BY <3>2, <3>3, <3>7
            <4>2. line \in dropped'[s] <=> line \in dropped[s]
                BY <1>7, <3>7
            <4> HIDE DEF S, C, O, Q
            <4> QED
                BY <3>1, <3>4, <4>1, <4>2
        <3> QED
            BY <3>6, <3>7
    <2> QED
        BY <2>6, <2>7, <2>8, <2>9, <2>10, <2>11 DEF Served, Ordered
<1> QED
    BY <1>9, <1>10, <1>11, <1>12 DEF IInv

------------------------------------------------------------------------------
(* The endpoint.                                                            *)

LEMMA SubscribeInv ==
    ASSUME IInv, NEW r \in Sockets, Subscribe(r)
    PROVE  IInv'
<1>1. /\ Types /\ Bounded /\ HistoryIsLatest /\ Numbered /\ Roster
      /\ \A s \in Sockets : Served(s)
    BY DEF IInv
<1>2. /\ socket[r] = "new" /\ socket' = [socket EXCEPT ![r] = "subscribed"]
      /\ subscribers' = Append(subscribers, r)
      /\ since' = [since EXCEPT ![r] = Len(log)]
      /\ UNCHANGED <<lines, publishing, log, init, live, callbacks, queue, dropped>>
    BY DEF Subscribe, loopVars
<1>3. Len(log) \in Nat /\ DOMAIN log = 1..Len(log)
    BY <1>1 DEF Types
<1>4. Types'
    <2>1. Append(subscribers, r) \in Seq(Sockets)
        BY <1>1 DEF Types
    <2> QED
        BY <1>1, <1>2, <1>3, <2>1 DEF Types
<1>5. Bounded'
    BY <1>1, <1>2, <1>3 DEF Bounded, Types
<1>6. HistoryIsLatest' /\ Numbered'
    BY <1>1, <1>2 DEF HistoryIsLatest, Numbered, LinesOf
<1>7. Roster'
    <2>1. r \notin ToSet(subscribers) /\ IsInjective(subscribers) /\ subscribers \in Seq(Sockets)
        BY <1>1, <1>2 DEF Roster, Types
    <2>2. IsInjective(subscribers') /\ ToSet(subscribers') = ToSet(subscribers) \cup {r}
        BY <1>2, <2>1, ToSetAppend
    <2>3. \A s \in Sockets :
            s \in ToSet(subscribers') <=> socket'[s] \in {"subscribed", "open"}
        BY <1>1, <1>2, <2>2 DEF Roster, Types
    <2> QED
        BY <1>1, <1>2, <2>2, <2>3 DEF Roster
<1>8. ASSUME NEW s \in Sockets PROVE Served(s)'
    <2>1. Arrives(s) /\ Untouched(s) /\ Ordered(s) /\ Gapless(s)
        BY <1>1 DEF Served
    <2>2. Ordered(s)'
        BY <1>2, <2>1 DEF Ordered, InQueueOrder, InCallbackOrder, InPublishingOrder
    <2>3. CASE s = r
        <3>1. /\ live[s] = <<>> /\ queue[s] = <<>> /\ dropped[s] = {}
              /\ \A i \in DOMAIN callbacks : callbacks[i][1] # s
              /\ \A h \in Threads : s \notin ToSet(publishing[h].to)
            BY <1>2, <2>1, <2>3 DEF Untouched
        <3>2. Arrives(s)'
            BY <1>2, <3>1, EmptyToSet DEF Arrives
        <3>3. socket'[s] = "subscribed" /\ since'[s] = Len(log)
            BY <1>1, <1>2, <2>3 DEF Types
        <3>4. Untouched(s)'
            BY <3>3 DEF Untouched
        <3>5. \A line : ~After(s, line)'
            BY <1>2, <1>3, <3>3 DEF After
        <3>6. Gapless(s)'
            BY <3>5 DEF Gapless
        <3> QED
            BY <2>2, <3>2, <3>4, <3>6 DEF Served
    <2>4. CASE s # r
        <3>1. socket'[s] = socket[s] /\ since'[s] = since[s]
            BY <1>1, <1>2, <2>4 DEF Types
        <3>2. \A line : After(s, line)' <=> After(s, line)
            BY <1>2, <3>1 DEF After
        <3>3. Arrives(s)'
            BY <1>2, <2>1, <3>1 DEF Arrives, After
        <3>4. Untouched(s)'
            BY <1>2, <2>1, <3>1 DEF Untouched
        <3>5. Gapless(s)'
            BY <1>2, <2>1, <3>1, <3>2 DEF Gapless, Copies
        <3> QED
            BY <2>2, <3>3, <3>4, <3>5 DEF Served
    <2> QED
        BY <2>3, <2>4
<1> QED
    BY <1>4, <1>5, <1>6, <1>7, <1>8 DEF IInv

\* A step that only moves a socket on among its later states.
LEMMA SameServed ==
    ASSUME Types, NEW s \in Sockets, Served(s),
           socket'[s] # "new",
           socket'[s] \in {"subscribed", "open"} => socket[s] \in {"subscribed", "open"},
           UNCHANGED <<publishing, log, live, since, callbacks, queue, dropped>>
    PROVE  Served(s)'
<1>1. Arrives(s) /\ Untouched(s) /\ Ordered(s) /\ Gapless(s)
    BY DEF Served
<1>2. \A line : After(s, line)' <=> After(s, line)
    BY DEF After
<1>3. Arrives(s)'
    BY <1>1 DEF Arrives, After
<1>4. Untouched(s)'
    BY DEF Untouched
<1>5. Ordered(s)'
    BY <1>1 DEF Ordered, InQueueOrder, InCallbackOrder, InPublishingOrder
<1>6. Gapless(s)'
    BY <1>1, <1>2 DEF Gapless, Copies
<1> QED
    BY <1>3, <1>4, <1>5, <1>6 DEF Served

LEMMA OtherServed ==
    ASSUME Types, NEW s \in Sockets, Served(s), socket'[s] = socket[s],
           UNCHANGED <<publishing, log, live, since, callbacks, queue, dropped>>
    PROVE  Served(s)'
<1>1. Arrives(s) /\ Untouched(s) /\ Ordered(s) /\ Gapless(s)
    BY DEF Served
<1>2. \A line : After(s, line)' <=> After(s, line)
    BY DEF After
<1>3. Arrives(s)' /\ Untouched(s)'
    BY <1>1 DEF Arrives, After, Untouched
<1>4. Ordered(s)'
    BY <1>1 DEF Ordered, InQueueOrder, InCallbackOrder, InPublishingOrder
<1>5. Gapless(s)'
    BY <1>1, <1>2 DEF Gapless, Copies
<1> QED
    BY <1>3, <1>4, <1>5 DEF Served

LEMMA SendInitInv ==
    ASSUME IInv, NEW r \in Sockets, SendInit(r)
    PROVE  IInv'
<1>1. /\ Types /\ Bounded /\ HistoryIsLatest /\ Numbered /\ Roster
      /\ \A s \in Sockets : Served(s)
    BY DEF IInv
<1>2. /\ socket[r] = "subscribed" /\ socket' = [socket EXCEPT ![r] = "open"]
      /\ init' = [init EXCEPT ![r] = LastOnes(lines, HistoryLimit)]
      /\ UNCHANGED <<lines, subscribers, publishing, log, live, since, callbacks, queue, dropped>>
    BY DEF SendInit, streamVars, loopVars
<1>3. LastOnes(lines, HistoryLimit) \in Seq(Lines)
      /\ Len(LastOnes(lines, HistoryLimit)) <= HistoryLimit
    BY <1>1, LastOnesType DEF Types
<1>4. Types'
    BY <1>1, <1>2, <1>3 DEF Types
<1>5. Bounded'
    BY <1>1, <1>2, <1>3 DEF Bounded, Types
<1>6. HistoryIsLatest' /\ Numbered'
    BY <1>1, <1>2 DEF HistoryIsLatest, Numbered, LinesOf
<1>7. Roster'
    BY <1>1, <1>2 DEF Roster, Types
<1>8. ASSUME NEW s \in Sockets PROVE Served(s)'
    <2>1. CASE s = r
        <3>1. socket'[s] = "open" /\ socket[s] = "subscribed"
            BY <1>1, <1>2, <2>1 DEF Types
        <3> QED
            BY <1>1, <1>2, <3>1, SameServed
    <2>2. CASE s # r
        <3>1. socket'[s] = socket[s]
            BY <1>1, <1>2, <2>2 DEF Types
        <3> QED
            BY <1>1, <1>2, <3>1, OtherServed
    <2> QED
        BY <2>1, <2>2
<1> QED
    BY <1>4, <1>5, <1>6, <1>7, <1>8 DEF IInv

LEMMA DisconnectInv ==
    ASSUME IInv, NEW r \in Sockets, Disconnect(r)
    PROVE  IInv'
<1>1. /\ Types /\ Bounded /\ HistoryIsLatest /\ Numbered /\ Roster
      /\ \A s \in Sockets : Served(s)
    BY DEF IInv
<1> DEFINE k == CHOOSE i \in DOMAIN subscribers : subscribers[i] = r
<1>2. /\ socket[r] = "open" /\ socket' = [socket EXCEPT ![r] = "closed"]
      /\ subscribers' = RemoveAt(subscribers, k)
      /\ UNCHANGED <<lines, publishing, log, init, live, since, callbacks, queue, dropped>>
    BY DEF Disconnect, loopVars
<1>3. k \in DOMAIN subscribers /\ subscribers[k] = r
    <2>1. r \in ToSet(subscribers)
        BY <1>1, <1>2 DEF Roster
    <2>2. \E i \in DOMAIN subscribers : subscribers[i] = r
        BY <2>1 DEF ToSet
    <2> QED
        BY <2>2
<1> HIDE DEF k
<1>4. /\ subscribers' \in Seq(Sockets) /\ IsInjective(subscribers')
      /\ ToSet(subscribers') = ToSet(subscribers) \ {r}
    <2>1. subscribers \in Seq(Sockets) /\ IsInjective(subscribers)
        BY <1>1 DEF Types, Roster
    <2> QED
        BY <1>2, <1>3, <2>1, ToSetRemoveAt
<1>5. Types'
    BY <1>1, <1>2, <1>4 DEF Types
<1>6. Bounded' /\ HistoryIsLatest' /\ Numbered'
    BY <1>1, <1>2 DEF Bounded, HistoryIsLatest, Numbered, LinesOf
<1>7. Roster'
    <2>1. \A s \in Sockets :
            s \in ToSet(subscribers') <=> socket'[s] \in {"subscribed", "open"}
        BY <1>1, <1>2, <1>4 DEF Roster, Types
    <2> QED
        BY <1>1, <1>2, <1>4, <2>1 DEF Roster
<1>8. ASSUME NEW s \in Sockets PROVE Served(s)'
    <2>1. CASE s = r
        <3>1. socket'[s] = "closed"
            BY <1>1, <1>2, <2>1 DEF Types
        <3> QED
            BY <1>1, <1>2, <3>1, SameServed
    <2>2. CASE s # r
        <3>1. socket'[s] = socket[s]
            BY <1>1, <1>2, <2>2 DEF Types
        <3> QED
            BY <1>1, <1>2, <3>1, OtherServed
    <2> QED
        BY <2>1, <2>2
<1> QED
    BY <1>5, <1>6, <1>7, <1>8 DEF IInv

LEMMA SendInv ==
    ASSUME IInv, NEW r \in Sockets, Send(r)
    PROVE  IInv'
<1>1. /\ Types /\ Bounded /\ HistoryIsLatest /\ Numbered /\ Roster
      /\ \A s \in Sockets : Served(s)
    BY DEF IInv
<1>2. PICK x \in Lines : queue[r] # <<>> /\ x = Head(queue[r])
    BY <1>1, Pieces, TailFields DEF Send
<1>3. /\ live' = [live EXCEPT ![r] = Append(live[r], x)]
      /\ queue' = [queue EXCEPT ![r] = Tail(queue[r])]
      /\ UNCHANGED <<lines, subscribers, publishing, log, socket, init, since, callbacks, dropped>>
    BY <1>2 DEF Send, streamVars
<1>4. /\ live[r] \in Seq(Lines) /\ queue[r] \in Seq(Lines)
      /\ Append(live[r], x) \in Seq(Lines) /\ Tail(queue[r]) \in Seq(Lines)
      /\ Len(Tail(queue[r])) <= Len(queue[r])
      /\ Len(queue[r]) \in Nat /\ Len(Tail(queue[r])) \in Nat
    BY <1>1, <1>2, Pieces, TailFields
<1>5. /\ live'[r] = Append(live[r], x) /\ queue'[r] = Tail(queue[r])
      /\ \A s \in Sockets : s # r => live'[s] = live[s] /\ queue'[s] = queue[s]
    BY <1>1, <1>3 DEF Types
<1>6. Types'
    <2>1. live' \in [Sockets -> Seq(Lines)] /\ queue' \in [Sockets -> Seq(Lines)]
        BY <1>1, <1>3, <1>4 DEF Types
    <2> QED
        BY <1>1, <1>3, <2>1 DEF Types
<1>7. Bounded'
    <2> SUFFICES ASSUME NEW s \in Sockets PROVE Len(queue'[s]) <= QueueMax
        BY <1>1, <1>3 DEF Bounded
    <2>1. CASE s = r
        <3>1. Len(queue[r]) <= QueueMax
            BY <1>1 DEF Bounded
        <3>2. queue'[s] = Tail(queue[r])
            BY <1>5, <2>1
        <3> QED
            BY <1>4, <3>1, <3>2
    <2>2. CASE s # r
        BY <1>1, <1>5, <2>2 DEF Bounded
    <2> QED
        BY <2>1, <2>2
<1>8. HistoryIsLatest' /\ Numbered' /\ Roster'
    BY <1>1, <1>3 DEF HistoryIsLatest, Numbered, LinesOf, Roster
<1>9. /\ 1 \in DOMAIN queue[r] /\ queue[r][1] = x
      /\ \A i \in DOMAIN Tail(queue[r]) :
           i + 1 \in DOMAIN queue[r] /\ i + 1 > 1 /\ Tail(queue[r])[i] = queue[r][i + 1]
    BY <1>2, <1>4, TailFields
<1>10. ASSUME NEW s \in Sockets PROVE Served(s)'
    <2>1. Arrives(s) /\ Untouched(s) /\ Ordered(s) /\ Gapless(s)
        BY <1>1 DEF Served
    <2>2. \A line : After(s, line)' <=> After(s, line)
        BY <1>3 DEF After
    <2>3. CASE s # r
        <3>1. live'[s] = live[s] /\ queue'[s] = queue[s]
            BY <1>5, <2>3
        <3>2. Arrives(s)'
            <4>1. \A i \in DOMAIN live'[s] : After(s, live'[s][i])
                BY <2>1, <3>1 DEF Arrives
            <4>2. \A i \in DOMAIN queue'[s] : After(s, queue'[s][i])
                BY <2>1, <3>1 DEF Arrives
            <4> QED
                BY <1>3, <2>1, <4>1, <4>2 DEF Arrives, After
        <3>3. Untouched(s)'
            BY <1>3, <2>1, <3>1 DEF Untouched
        <3>4. Ordered(s)'
            BY <1>3, <2>1, <3>1 DEF Ordered, InQueueOrder, InCallbackOrder, InPublishingOrder
        <3>5. Gapless(s)'
            BY <1>3, <2>1, <2>2, <3>1 DEF Gapless, Copies
        <3> QED
            BY <3>2, <3>3, <3>4, <3>5 DEF Served
    <2>4. CASE s = r
        <3>1. /\ DOMAIN live'[r] = DOMAIN live[r] \cup {Len(live[r]) + 1}
              /\ live'[r][Len(live[r]) + 1] = x
              /\ \A i \in DOMAIN live[r] : live'[r][i] = live[r][i]
            BY <1>4, <1>5, AppendFields
        <3>2. Arrives(r)'
            <4>1. After(r, x)
                BY <1>9, <2>1, <2>4 DEF Arrives
            <4>2. \A i \in DOMAIN live'[r] : After(r, live'[r][i])
                BY <2>1, <2>4, <3>1, <4>1 DEF Arrives
            <4>3. \A i \in DOMAIN queue'[r] : After(r, queue'[r][i])
                BY <1>5, <1>9, <2>1, <2>4 DEF Arrives
            <4> QED
                BY <1>3, <2>1, <2>4, <4>2, <4>3 DEF Arrives, After
        <3>3. Untouched(r)'
            <4>1. socket[r] # "new"
                BY DEF Send
            <4> QED
                BY <1>3, <4>1 DEF Untouched
        <3>4. /\ Sorted(live[r]) /\ Sorted(queue[r]) /\ AllBelow(live[r], x)
              /\ \A i \in DOMAIN queue[r] : AllBelow(live[r], queue[r][i])
            BY <1>9, <2>1, <2>4 DEF Ordered, InQueueOrder
        <3>5. /\ Sorted(live'[r])
              /\ \A y : AllBelow(live'[r], y) <=> AllBelow(live[r], y) /\ Lt(x, y)
            BY <1>4, <1>5, <3>4, SortedAppend
        <3>6. /\ Sorted(queue'[r])
              /\ \A i \in DOMAIN queue'[r] : Lt(x, queue'[r][i])
              /\ \A y : AllBelow(queue[r], y) => AllBelow(queue'[r], y) /\ Lt(x, y)
            BY <1>2, <1>4, <1>5, <3>4, SortedTail
        <3>7. Ordered(r)'
            <4>1. \A i \in DOMAIN queue'[r] : AllBelow(live'[r], queue'[r][i])
                BY <1>5, <1>9, <3>4, <3>5, <3>6
            <4>2. InQueueOrder(r)'
                BY <3>5, <3>6, <4>1 DEF InQueueOrder
            <4>3. \A y : AllBelow(live[r], y) /\ AllBelow(queue[r], y) =>
                     AllBelow(live'[r], y) /\ AllBelow(queue'[r], y)
                BY <3>5, <3>6
            <4>4. InCallbackOrder(r)'
                BY <1>3, <2>1, <2>4, <4>3 DEF Ordered, InCallbackOrder
            <4>5. InPublishingOrder(r)'
                BY <1>3, <2>1, <2>4, <4>3 DEF Ordered, InPublishingOrder
            <4> QED
                BY <4>2, <4>4, <4>5 DEF Ordered
        <3>8. Gapless(r)'
            <4> SUFFICES ASSUME socket[r] \in {"subscribed", "open"}, NEW line \in Lines,
                                After(r, line)
                         PROVE  Copies(r, line)' = IF line \in dropped[r] THEN 0 ELSE 1
                BY <1>3, <2>2, <2>4 DEF Gapless
            <4> DEFINE S == {g \in Threads : publishing[g].line = line /\ r \in ToSet(publishing[g].to)}
                       O == Occurrences(line, live[r])
                       Q == Occurrences(line, queue[r])
                       C == Occurrences(<<r, line>>, callbacks)
            <4>1. Copies(r, line) = O + Q + C + Cardinality(S)
                  /\ Copies(r, line)' = O' + Q' + C + Cardinality(S)
                BY <1>3 DEF Copies
            <4>2. O \in Nat /\ O' = O + IF x = line THEN 1 ELSE 0
                BY <1>4, <1>5, OccurrencesType, OccurrencesAppend
            <4>3. Q' \in Nat /\ Q = Q' + IF x = line THEN 1 ELSE 0
                BY <1>2, <1>4, <1>5, OccurrencesType, OccurrencesTail
            <4>4. Copies(r, line) = IF line \in dropped[r] THEN 0 ELSE 1
                BY <2>1, <2>4 DEF Gapless
            <4>5. O' + Q' = O + Q
                <5> HIDE DEF O, Q
                <5> QED
                    BY <4>2, <4>3
            <4> HIDE DEF S, O, Q, C
            <4> QED
                BY <4>1, <4>4, <4>5
        <3> QED
            BY <2>4, <3>2, <3>3, <3>7, <3>8 DEF Served
    <2> QED
        BY <2>3, <2>4
<1> QED
    BY <1>6, <1>7, <1>8, <1>10 DEF IInv

------------------------------------------------------------------------------
(* Every step.                                                              *)

LEMMA InitInv == Init => IInv
<1> SUFFICES ASSUME Init PROVE IInv
    OBVIOUS
<1>1. Len(<<>>) = 0 /\ <<>> \in Seq(Lines) /\ <<>> \in Seq(Sockets)
      /\ <<>> \in Seq(Sockets \X Lines)
    BY EmptySeq
<1>2. Types
    BY <1>1 DEF Init, Types, Nothing
<1>3. Bounded
    BY <1>1 DEF Init, Bounded
<1>4. HistoryIsLatest
    BY <1>1 DEF Init, HistoryIsLatest, LastOnes
<1>5. Numbered
    BY EmptyToSet DEF Init, Numbered
<1>6. Roster
    BY EmptyToSet DEF Init, Roster, IsInjective
<1>7. ASSUME NEW s \in Sockets PROVE Served(s)
    <2>1. /\ live[s] = <<>> /\ queue[s] = <<>> /\ callbacks = <<>> /\ dropped[s] = {}
          /\ socket[s] = "new" /\ \A h \in Threads : publishing[h].to = <<>>
        BY DEF Init, Nothing
    <2>2. Arrives(s) /\ Untouched(s)
        BY <2>1, EmptyToSet DEF Arrives, Untouched
    <2>3. Ordered(s)
        BY <2>1, EmptyToSet
        DEF Ordered, InQueueOrder, InCallbackOrder, InPublishingOrder, Sorted
    <2>4. Gapless(s)
        BY <2>1 DEF Gapless
    <2> QED
        BY <2>2, <2>3, <2>4 DEF Served
<1> QED
    BY <1>2, <1>3, <1>4, <1>5, <1>6, <1>7 DEF IInv

LEMMA StepInv == IInv /\ [Next]_vars => IInv'
<1> SUFFICES ASSUME IInv, [Next]_vars PROVE IInv'
    OBVIOUS
<1>1. CASE Next
    BY <1>1, AppendLineInv, PublishInv, CallbackInv, SubscribeInv, SendInitInv, SendInv,
       DisconnectInv DEF Next
<1>2. CASE UNCHANGED vars
    <2>1. UNCHANGED <<lines, subscribers, publishing, log, socket, init, live, since,
                      callbacks, queue, dropped>>
        BY <1>2 DEF vars, streamVars, socketVars, loopVars
    <2>2. \A s \in Sockets : Served(s)'
        BY <2>1, OtherServed DEF IInv
    <2>3. Types' /\ Bounded' /\ HistoryIsLatest' /\ Numbered' /\ Roster'
        BY <2>1 DEF IInv, Types, Bounded, HistoryIsLatest, Numbered, LinesOf, Roster
    <2> QED
        BY <2>2, <2>3 DEF IInv
<1> QED
    BY <1>1, <1>2

\* The invariant holds in every state of every run.
THEOREM StreamInvariance == Spec => []IInv
    BY InitInv, StepInv, PTL DEF Spec

------------------------------------------------------------------------------
(* What the stream promises.                                                *)

\* Queues and histories keep their bounds, whatever the threads append and
\* whenever browsers come and go.
THEOREM StreamTypeCorrect == Spec => []TypeOK
<1>1. ASSUME IInv PROVE TypeOK
    <2>1. ASSUME NEW s \in Sockets
          PROVE  /\ queue[s] \in Seq(Lines) /\ Len(queue[s]) <= QueueMax
                 /\ init[s] \in Seq(Lines) /\ Len(init[s]) <= HistoryLimit
                 /\ live[s] \in Seq(Lines) /\ dropped[s] \subseteq Lines
                 /\ since[s] \in 0..Len(log)
        <3>1. Len(log) \in Nat /\ since[s] \in Nat
            BY <1>1, Pieces DEF IInv, Types
        <3> QED
            BY <1>1, <3>1, Pieces DEF IInv, Bounded
    <2>2. \A h \in Threads : /\ publishing[h].line \in Lines \cup {<<>>}
                             /\ publishing[h].to \in Seq(Sockets)
        BY <1>1, Pieces DEF IInv
    <2> QED
        BY <1>1, <2>1, <2>2 DEF TypeOK, IInv, Types
<1> QED
    BY <1>1, StreamInvariance, PTL

\* The ring buffer holds the latest lines of all, in order.
\* (TerminalStream.append)
THEOREM HistoryKept == Spec => []HistoryIsLatest
<1>1. IInv => HistoryIsLatest
    BY DEF IInv
<1> QED
    BY <1>1, StreamInvariance, PTL

\* No browser sees two lines of a thread out of their order, although threads
\* publish outside the lock.  (TerminalStream.append, ws_endpoint)
THEOREM ThreadsInOrder == Spec => []ThreadOrderKept
<1>1. ASSUME IInv, NEW s \in Sockets, NEW i \in DOMAIN live[s], NEW j \in DOMAIN live[s],
             i < j, live[s][i][1] = live[s][j][1]
      PROVE  live[s][i][2] < live[s][j][2]
    BY <1>1 DEF IInv, Served, Ordered, InQueueOrder, Sorted, Lt
<1>2. IInv => ThreadOrderKept
    BY <1>1 DEF ThreadOrderKept
<1> QED
    BY <1>2, StreamInvariance, PTL

\* A browser sees a line of its history again only if the line came while it
\* was connecting.  (ws_endpoint)
THEOREM RepeatsAreRecent == Spec => []RepeatsOnlyWhileConnecting
<1>1. ASSUME IInv, NEW s \in Sockets, NEW line \in ToSet(live[s])
      PROVE  line \in ToSet(SubSeq(log, since[s] + 1, Len(log)))
    <2>1. After(s, line)
        BY <1>1 DEF IInv, Served, Arrives, ToSet
    <2>2. PICK i \in DOMAIN log : since[s] < i /\ log[i] = line
        BY <2>1 DEF After
    <2>3. /\ log \in Seq(Lines) /\ DOMAIN log = 1..Len(log) /\ Len(log) \in Nat
          /\ since[s] \in Nat
        BY <1>1, Pieces DEF IInv
    <2>4. PICK n \in Nat : n = since[s]
        BY <2>3
    <2>5. i \in n + 1 .. Len(log) /\ i - n \in 1 .. Len(log) - n /\ n + (i - n) = i
        BY <2>2, <2>3, <2>4
    <2> DEFINE r == SubSeq(log, n + 1, Len(log))
    <2>6. DOMAIN r = 1 .. Len(log) - n
        <3>1. Len(r) = Len(log) - n /\ r \in Seq(Lines)
            <4>1. n + 1 <= Len(log) + 1 /\ Len(log) - (n + 1) + 1 = Len(log) - n
                BY <2>3, <2>5
            <4>2. \A k \in n + 1 .. Len(log) : log[k] \in Lines
                BY <2>3
            <4>3. n + 1 \in Int /\ Len(log) \in Int
                BY <2>3
            <4> DEFINE m == n + 1
            <4>4. m <= Len(log)
                BY <2>5 DEF m
            <4> HIDE DEF m, r
            <4>5. /\ SubSeq(log, m, Len(log)) \in Seq(Lines)
                  /\ Len(SubSeq(log, m, Len(log))) =
                       IF m <= Len(log) THEN Len(log) - m + 1 ELSE 0
                BY <4>2, <4>3, SubSeqProperties, Zenon DEF m
            <4> QED
                BY <4>1, <4>4, <4>5 DEF m, r
        <3> HIDE DEF r
        <3> QED
            BY <3>1
    <2>7. r[i - n] = log[i]
        BY <2>3, <2>5
    <2>8. r = SubSeq(log, since[s] + 1, Len(log))
        BY <2>4
    <2> HIDE DEF r
    <2> QED
        BY <2>2, <2>5, <2>6, <2>7, <2>8 DEF ToSet
<1>2. IInv => RepeatsOnlyWhileConnecting
    BY <1>1 DEF RepeatsOnlyWhileConnecting
<1> QED
    BY <1>2, StreamInvariance, PTL

\* Each line appended since a browser subscribed is sent to it once, or on its
\* way to it once, or was dropped at its full queue.  (TerminalStream.append,
\* subscribe, ws_endpoint)
THEOREM NothingIsLost == Spec => []NoGap
<1>1. ASSUME IInv, NEW s \in Sockets, socket[s] \in {"subscribed", "open"},
             NEW i \in since[s] + 1 .. Len(log)
      PROVE  Copies(s, log[i]) = IF log[i] \in dropped[s] THEN 0 ELSE 1
    <2>1. log \in Seq(Lines) /\ DOMAIN log = 1..Len(log) /\ Len(log) \in Nat /\ since[s] \in Nat
        BY <1>1, Pieces DEF IInv
    <2>2. i \in DOMAIN log /\ since[s] < i /\ log[i] \in Lines
        BY <1>1, <2>1
    <2>3. After(s, log[i])
        BY <2>2 DEF After
    <2> QED
        BY <1>1, <2>2, <2>3 DEF IInv, Served, Gapless
<1>2. IInv => NoGap
    BY <1>1 DEF NoGap
<1> QED
    BY <1>2, StreamInvariance, PTL
==============================================================================
