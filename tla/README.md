# A TLA+ verification of adroid

adroid is a self-hosted server that lets AI agents act on an Android device. A
human pairs an agent once, in a browser; the agent then holds a session token
and calls tools with it until the token runs out or the human disconnects the
session. Every call passes one permission gate, is recorded in a signed,
hash-chained audit log, and is shown live in the browser.

This directory holds TLA+ models of the parts whose correctness depends on the
order in which threads, humans, crashes and clocks act, the TLC runs that check
them, and theorems about them that TLAPS checks. Paths below are relative to
the repository, `adroid/` for `src/adroid/`.

## Running it

    tlc -config pairing.cfg MCPairing        # any run of the table below
    tlapm SessionsProofs.tla                 # any *Proofs module

`PROJECT.json` lists the components, the runs, a map from each definition to
the lines it models, the mutations each property must catch, the findings, the
hazards and the theorems.

## Inventory of the system

| Component | Source | State | Operations | What makes it correct |
|---|---|---|---|---|
| Pairing and sessions | `permissions/sessions.py` | pairings by id, sessions by token, the revocation list, one lock | request, approve, deny, list (which times pairings out), disconnect, cleanup, is_revoked | one token per approval; decisions and withdrawals are final; whatever the gate accepts the human can withdraw |
| Pairing HTTP API | `web/server.py` 553-676 | none of its own; reads the pairing objects without the lock | approve, deny, disconnect, request, poll | an agent is told what was decided |
| Permission gate | `permissions/gate.py` | none | authorize: revocation, token, scope, limit, in that order | a revoked or expired token does nothing; a denial costs nothing |
| Rate limiter | `permissions/gate.py` 36-124 | a bucket per (token, capability) | check_and_consume | burst and rate bounds over every window; no loss for callers that retry |
| Tokens | `permissions/tokens.py` | signing key | issue, verify, validate | expiry, issuer |
| Tool dispatch | `web/server.py` 195-426, 682-736; `runtime/core.py` | tool table | agent_call, _dispatch_tool, 17 runtime methods, _audit_call | audited iff something was done; answer and trail agree; every call answered |
| Audit log | `audit/writer.py`, `audit/schema.py` | the file; sequence and previous hash in memory | write, recover, verify_all, tail | what was acknowledged stays in the chain; append-only across crashes and failed writes |
| Terminal stream | `web/server.py` 114-161, 742-771 | ring buffer, subscribers, their queues | append, subscribe, history, unsubscribe, ws_endpoint | a browser sees no gap, and a thread's lines in order |
| ADB bridge, commands | `bridge/adb.py` 97-310 | none | launch (three methods), tap_text (dump, match, swipe, again), tap, screenshot and one-command tools, all through subprocesses with a timeout | an answer agrees with what was done to the device |
| ADB bridge, UI state | `bridge/adb.py` 449-744, `contract/ui.py` | world-state cache and revision counter, class-wide | ui_dump, ui_find_elements, ui_tap_element, ui_wait_for | a wait reports what was so, and ends; a tap aims at something recent |
| uiautomator parser | `bridge/uiautomator_parser.py` | none | parse | the order of the nodes decides what "first" means |
| Self-healing selectors | `perception/` | success and failure counts per (app, action, strategy), shared by all calls | find with fallbacks; record; order of fallbacks | every derived fallback is tried once, in vain or to a match |
| Blob store | `bridge/adb.py` 874-933 | content-addressed files | put, get, exists | a reference resolves to all of its content |
| Memory store | `memory/store.py` | three JSON files and their copies in memory, one lock | remember, recall, load, save | what a caller was told was remembered survives failed saves and restarts |
| MCP server | `mcp/` | key files beside the audit log; one runtime, one token per process | issue-token, start, call_tool | a token that was issued for the server is accepted by it |
| Shell allowlist, types | `permissions/allowlist.py`, `contract/` | none | pure functions | |
| CLI, dashboard, Rust extension, Termux and mock bridges | `cli/`, `web/templates/`, `rust_ext/`, `bridge/` | | front ends and I/O | |

How they interact: FastAPI runs `async def` handlers (the dashboard's approve,
deny and disconnect, the WebSocket, the cleanup task) one at a time on the event
loop, and plain `def` handlers (an agent's request, poll and tool call) in a
pool of threads. They meet in the session manager, the limiter, the terminal
stream and the audit writer, each of which has a lock of its own; no code holds
two of them. What is hard is therefore what lies between two critical sections:
the gate's several reads, the two reads of a poll, `append` releasing its lock
before it publishes, and a crash between the bytes of a line. The wall clock
(token expiry, pairings) may be set back; the limiter uses a monotonic one.

On the device side the hard parts are that a screen changes between the commands
that read it and between reading and tapping; that a command which timed out may
have taken effect; that calls share the cache, the scores, the blob files and the
memory; and that a process may die between any two of these.

## Modules

    SessionAccess   what the session layer promises (abstract)
    Sessions        SessionManager; implements SessionAccess
      PairingPoll     extends it with the agents' polling handler
        MCPairing       instance for TLC
      ToolCall        extends it with the path of a tool call
        MCToolCall      instance for TLC
      SessionsProofs, PairingPollProofs, ToolCallProofs
    EventLog        an append-only log (abstract)
    AuditLog        AuditWriter and AuditReader; implements EventLog
      MCAuditLog, AuditLogProofs
    RateBucket      the textbook token bucket (abstract)
    RateLimiter     check_and_consume; implements RateBucket
      MCRateLimiter, RateLimiterProofs
    TerminalStream  TerminalStream and ws_endpoint
      MCTerminalStream, TerminalStreamProofs
    UiWait          ui_dump, the cache, ui_wait_for, the bridge's find and tap
      MCUiWait, UiWaitProofs
    Confidence      scores of the selector strategies (pure)
      Selectors       nodes, selectors, fallbacks (pure)
    MemoryStore     memories and their files
    BlobStore       content-addressed files
    UiTools         find, tap, tap_text, launch, screenshot: composes Selectors,
                    MemoryStore and BlobStore
      MCUiTools, UiToolsProofs (of these five modules)
    McpServer       issue-token and the MCP server
      MCMcpServer

**Sessions.** A pairing is `status`, `requestedAt`, `minted`; a token is a member of
`issued` with its `expiresAt`; `session[t]` says whether `_sessions` has the
session and whether it is revoked; `revokedIds` is `_revoked_token_ids`.
`now` is the wall clock. Each method holds the lock throughout and is one
action: `RequestPairing`, `ListPending`, `Approve`, `Deny`, `Disconnect`,
`CleanupExpired`. A call the method rejects changes nothing and is no action.

**PairingPoll.** `agent_session_status` as three actions: the first look finds an
approved pairing with its token (`PollApproved`) or does not
(`PollNotApproved`), and the second look answers the status of that later moment
(`PollReread`). `Approve` fills the pairing in as one step although the code
assigns status and token one after the other outside the reader's view: a
reader that sees the status and not yet the token answers just what
`PollReread` answers.

**ToolCall.** `call[c]` is a thread of the pool: where it is, and what it has done so
far. `CheckSession`, `RejectRequest`, `Dispatch` are the web layer;
`GateRevocation`, `GateToken`, `GateLimit` the gate; `Prepare`, `SelectorInvalid`,
`ShellRefused`, `BridgeReturns`, `BridgeRaises`, `AuditCall` a runtime method;
`Reply` the answer. Tools are four classes by the order of their steps: the
bridge at once, a selector first, the allowlist first, no device at all.
`revokedAtGate` and `usableAtGate` are history variables the properties need.
`audited` counts events handed to `AuditWriter.write`; whether a write gets to
the disk is the matter of AuditLog.

**AuditLog.** The file is a sequence of lines: whole records, junk, or bytes cut
inside a character. `Write`, `WriteError` (raises, the process goes on),
`CrashInWrite`, `Crash`, `Boot` (`_recover_state`, with the old key or a new one).
What a crash or an error may leave of a line, and the keys, are constants: the
passing run gives them every value, and the run that expects a violation fragments
of failed writes only. A hash is the list of what it covers.
Two history variables say what the code can promise: `spoilt` whether a failed
write or a crash has spoilt the end of the file, and until when (a fragment until
the next start cuts it off; a whole line whose `write()` raised, or one without its
newline, for good), and `secured` the events whose `write()` returned while nothing
had. `Sound(f)` is the unbroken chain at the start of the file: what someone who has
the key of every boot can verify. The readers of the code have one key (`Walk`).

**RateLimiter.** One bucket per (token, capability). The code's floats are integers in
units of 1/Minute of a call, exact; rounding is not modelled.

**TerminalStream.** `AppendLine` is the critical section of `append`, `Publish` one
`call_soon_threadsafe` of its loop, `Callback` the loop's `put_nowait`,
`Subscribe`, `SendInit`, `Send`, `Disconnect` the endpoint. A dropped line is
recorded in `dropped`.

**UiWait.** The inputs are `Screens`, what the device may show, and `Awaited`, what
callers wait for. `th[t]` is a thread of the pool in one of the bridge's methods. A dump is
three steps: `StartDump` (inside `NextRound` and `BeginFind`), `ReadNodes` (the
commands that write and read the tree), `Publish` (the dumpsys commands, then
the cache); `DumpFails` may end it before either. `NextRound`, `Check` and `Wake`
are the loop of `ui_wait_for`: limit, dump and test, sleep. `BeginFind`, `Matched`
and `TapFound` are the bridge's own find and tap, the only readers of the cache;
the runtime's tools of the same name dump afresh and are in UiTools. The seven
kinds of conditions are three: stable, and a fact that appears or disappears,
where a fact is an element matched by a selector or a text, or the keyboard,
which is read by a later command than the nodes. Without the Rust extension two
dumps are compared by six fields of each node; an element that is told apart by
other fields only (a class name, enabled, selected, scrollable, editable) is in
`Uncompared`, and `Compared` leaves it out. A state keeps apart what it saw and what it could not read (`unread`), because the code reports both alike.
`saw`, `dumps` and `seenAge` are history. Time is in ticks; durations are ages
or what is left, so that `UiWait` has no bound on the length of a run.

**Confidence, Selectors.** `ConfidenceOf`, `FallbackOrder`, `Classify`, `Fallbacks`,
`NodeMatches`, `FindNodes` and `Walk` are the functions of those names in
`perception/`, `contract/ui.py` and the parser. Scores are in hundredths; `SortKey`
adds or takes off a third of one where the float the code compares lies above or
below its hundredths (`RoundedUp`, `RoundedDown`), so that a description that failed
once comes after a contained text, as 0.85 - 0.05 < 0.8 in floats. A label is the
set of its words and "contained in" is subset, which is all that the functions tell
apart; a selector may ask for `Blank`, the empty string, which is not None and
matches nothing. Of the five boolean predicates one is kept.

**MemoryStore, BlobStore.** An entry is its observation count. `Remember` is one
step because one lock is held over observation and save; `RememberUnsaved` is
the save that raises after the entry was observed. `unreadable` holds the stores this
process could not read when it started, which begin empty (`Reload`), and
`overwritten` those that such a process has saved (history). `put` is three steps of
UiTools (`CheckBlob`, `WriteBlob`, `Publish`), since nothing is locked.

**UiTools.** One action per command that reads or acts on the device and per access to
shared state. `TryOriginal` and `TryFallback` are the attempts of
`SelfHealingSelector.find`, each with its record in the tracker. Between the first
and the second, `get_fallback_order` reads the score of one strategy after another,
and of each the successes, then the failures, of an entry it no longer has the lock
of (`ReadSuccesses`, `ReadFailures`); other calls come in between all of these. A
command that acts (a tap, a swipe, a launch) may be acknowledged (`Acknowledged`),
fail without effect, or take effect and raise all the same (`Raised`); `acted` and
`late` count the effects and those that raised (history). `Crash` restarts the process: calls and tracker are gone, the memory
is loaded from its files.

**McpServer.** The key files, the tokens and the server process, which generates a key
of its own. A call is answered in one step, as the server's event loop runs one
call to its end before it takes the next.

## Runs

| Run | Expect | What it shows |
|---|---|---|
| `pairing` | pass | `OneTokenPerApproval`, `UsableIsDisconnectable`, `LastAnswerStands`, `DecisionsAreFinal`, `NoRevival`, `ExpiredIsReaped`; Sessions implements SessionAccess |
| `toolcall` | pass | `RevokedNeverActs`, `ActsOnlyIfUsable`, `TouchedIsAudited`, `AnswerAgreesWithTrail`, `DeniedIsFree`, `EveryCallAnswered` |
| `auditlog` | pass | `AckedStaysInChain`, `LogVerifies`, `NumberedByPosition`; AuditLog implements EventLog (`AppendOnly`) |
| `ratelimiter` | pass | `BurstAndRateBound`, `SteadyCallerPasses`; RateLimiter implements RateBucket |
| `terminal` | pass | `HistoryIsLatest`, `ThreadOrderKept`, `RepeatsOnlyWhileConnecting`, `NoGap` |
| `uiwait` | pass | `StableIsExact`, `SatisfiedIsReal`, `LateByOneRound`, `FindIsRecent`, `EveryWaitEnds` |
| `uitools` | pass | `HealingIsHonest`, `AnswersMatchDevice`, `RefsReadable`, `MemoryKept` |
| `pairing_capacity` | violation | more than `max_sessions` sessions can be active (finding 1) |
| `pairing_lost_token` | violation | a poll answers "approved" without the token (finding 2) |
| `auditlog_disk_full` | violation | a failed write swallows the next event (finding 3) |
| `wait_stable_rust` | violation | with the Rust extension no screen is ever stable (finding 4) |
| `mcp_token` | violation | the MCP server refuses the tokens issued for it (finding 5) |

### Bounds, and why they are enough

- `pairing`: two pairings, two tokens, a session limit of 1, a pairing wait of 1, TTL
  limits 1..2 with submitted values 0..3 (both sides of both limits), a clock
  0..3 that may be set back. Two of each is what the interesting cases need: a
  second approval of one pairing, two pairings past a limit of one, a token
  that expires, is reaped and comes back when the clock does.
- `toolcall`: one session, two calls, a bucket of one: the calls compete for the
  last unit, and one may be anywhere while the other is denied. The clock only
  moves forward, because `ActsOnlyIfUsable` is claimed for that case alone; the
  other properties are proved for both.
- `auditlog`: four events and three restarts: a torn line, a recovery, a write after
  it, and a second torn line. Crashes and failed writes leave anything of a line
  from nothing to all of it, and each restart keeps its key or makes a new one. The
  three properties of the file as a whole are claimed while nothing has spoilt its
  end; after a fragment that is so again from the next restart on.
  `auditlog_disk_full` allows fragments of failed writes only and keeps the keys; with
  nothing but new keys at a restart, or nothing but a crash that loses a newline,
  `AckedStaysVerifiable` fails in it, too.
- `ratelimiter`: limits 0, 2 and 4 a minute, a minute of 3 units, a largest burst of 2,
  five instants: a bucket that never refills, one whose period is not a whole
  number of units, and one whose capacity is cut off.
- `terminal`: two threads, two browsers, three lines; a ring of 2, queues of 2 and a
  history of 1: each overflows, and a queue's order shows. Threads and browsers are symmetric.
- `uiwait`: one waiting thread and one that finds or taps, two elements and the
  keyboard. One element is compared by a wait for a stable screen and one is not, and
  three screens (nothing, the first, everything) let a screen change in what is
  compared or in what is not. Callers wait for the first element or the keyboard. A wait
  of three ticks polled every tick with dumps of up to one tick
  has up to three dumps, so that equal, different and equal again, a dump that
  begins before the limit and ends after it, and two overlapping dumps all
  occur; a cache lifetime of one tick expires between two finds. A second
  waiter shares nothing with the first but the cache, which waits do not read.
  Nothing else is bounded: threads go on calling for ever.
  `wait_stable_rust` has one thread and up to four dumps.
- `uitools`: two threads, two calls, one crash, two screens: on one the label that is
  asked for is part of a text, on the other it is a description, so that each
  fallback has a screen on which it wins and one on which it fails. One failure
  of a description, counted before the run or between two reads of the scores,
  puts it behind the contained text, so the other call can change the order at any
  of its steps. Two dumps per `tap_text` instead of five: one with a swipe
  after it, and the last. Threads are symmetric. With one crash no process
  follows one that could not read its memory; that case rests on the proof alone.
- `mcp_token`: two tools, one of them called with arguments the runtime lacks, one
  issuer, three keys.

`CHECK_DEADLOCK FALSE` stands where the bounds stop the system: all calls
answered, all events written, all lines appended, the clock at its last value.

### Fairness

- `WF(CleanupExpired)`: the cleanup task of the lifespan handler runs every 60 s as
  long as the server is up. `ExpiredIsReaped` rests on it. No human, agent or
  browser is assumed ever to act.
- `WF(Step(c))` for every call: a thread that can take a step takes it, as no method on
  the path waits for another call and the bridge's subprocesses have timeouts.
  `EveryCallAnswered` rests on it. No fairness for time, refills or arrivals.
- `WF(ThreadStep(t))` and `SF(Tick)` in UiWait: threads are scheduled, commands end
  within their timeout (`subprocess.run(timeout=...)`), and time passes. It is
  strong fairness because the model lets time stand still while Python runs: a
  thread that always has a next step must not hold the clock back for ever.
  `EveryWaitEnds` rests on both. Nothing is assumed of the screen or the callers.

## Theorems

Every safety property of the passing runs is proved, for all values of the
constants: any number of pairings, tokens, calls, events, threads, browsers,
screens, any limits, timeouts and sizes. The ASSUMEs of the modules say only
what kind of value a constant is, and that bounds are not negative or empty;
where a theorem needs more, it says so.

| Module | Theorem | Property |
|---|---|---|
| SessionsProofs | `TypeCorrect` | `TypeOK` |
| | `TokensMatchApprovals` | `OneTokenPerApproval` |
| | `AccessIsRevocable` | `UsableIsDisconnectable` |
| | `DecisionsStand` | `DecisionsAreFinal` |
| | `DeadTokensStayDead` | `NoRevival` |
| | `Refinement` | `ImplementsAccess` |
| PairingPollProofs | `PollTypeCorrect` | `PollTypeOK` |
| | `AnswersStand` | `LastAnswerStands` |
| | `TokensGoToOneAgent` | no two agents get one token |
| | `PollingOnlyReads` | PairingPoll implements Sessions |
| ToolCallProofs | `CallTypeCorrect` | `CallTypeOK` |
| | `RevocationHolds` | `RevokedNeverActs` |
| | `AdmissionIsAtomic` | `ActsOnlyIfUsable`, if the clock is never set back |
| | `AuditIsComplete` | `TouchedIsAudited` |
| | `AnswersAreHonest` | `AnswerAgreesWithTrail` |
| | `DenialsAreFree` | `DeniedIsFree` |
| | `CallsKeepAccess` | `ImplementsAccess`, with calls running |
| AuditLogProofs | `TypeCorrect` | `LogTypeOK` |
| | `AckedForever` | `AckedStaysInChain` |
| | `NumberingSurvives` | `NumberedByPosition` |
| | `LogAlwaysVerifies` | `LogVerifies` |
| | `OnlyAppends` | `AppendOnly` |
| RateLimiterProofs | `TypeCorrect` | `TypeOK` |
| | `BurstsAreBounded` | `BurstAndRateBound` |
| | `SteadyCallersPass` | `SteadyCallerPasses` |
| | `Refinement` | `ImplementsBucket` |
| TerminalStreamProofs | `StreamTypeCorrect` | `TypeOK` |
| | `HistoryKept` | `HistoryIsLatest` |
| | `ThreadsInOrder` | `ThreadOrderKept` |
| | `RepeatsAreRecent` | `RepeatsOnlyWhileConnecting` |
| | `NothingIsLost` | `NoGap` |
| UiWaitProofs | `WaitTypeCorrect` | `WaitTypeOK` |
| | `SatisfactionIsReal` | `SatisfiedIsReal` |
| | `LateByARound` | `LateByOneRound` |
| | `FindsAreRecent` | `FindIsRecent` |
| | `StableWaitIsExact` | `StableIsExact`, without the Rust extension |
| | `NeverStableWithRust` | with it, no wait for a stable screen ends well |
| UiToolsProofs | `ToolsTypeCorrect` | `ToolsTypeOK` |
| | `SearchesAreHonest` | `HealingIsHonest` |
| | `AnswersAreTrue` | `AnswersMatchDevice` |
| | `ReferencesHold` | `RefsReadable` |
| | `ToolsUseMemory` | UiTools implements MemoryStore |
| | `MemoryIsKept`, `ToolsKeepMemory` | `MemoryKept`, of MemoryStore and of UiTools |
| | `ConfidenceBand` | scores stay in 0..1 and near their base |
| | `ClassNameBelowContains` | the order of two fallbacks |

*Sessions.* The inductive invariant adds to the properties how the registry and the
revocation list relate (`RegistryAgrees`): an issued token is off the revocation
list exactly while its session is open, and a token not issued yet is in
neither. Without it, cleanup followed by a clock set back could leave a usable
token without a session. The refinement maps `access[t]` to "withdrawn" if `t`
is in the revocation list.

*PairingPoll.* An agent stops polling when it is told a decision, and decisions are
final (`DecidedKept`, a lemma about Sessions): that, and no lock, is why the two
reads of the handler do no harm. The invariant adds that whoever has left was
told a decision (`LeavesDecided`). `PollingOnlyReads` and `CallsKeepAccess` carry
what is proved of Sessions over to the modules that extend it.

*ToolCall.* The invariant says, for every place a call may be at, what it can have done
when it gets there (charged only from "prepare" on, audited only from "reply"
on, and so on), and that what the gate saw as revoked never gets past it.
`AdmissionIsAtomic` is the subtle one: the gate reads the revocation list and
then the clock, and the token may be revoked in between; but it was not revoked
at the first read, and a token not expired at the second was not expired at the
first if the clock only moves forward. So the instant of the first read is one
at which the token was good.

*AuditLog.* The theorems assume nothing of what a crash or a failed write leaves, or of
the keys. The invariant names the chain: there is a sequence `g` of whole, linked
lines, numbered from 0, with keys that never decrease, that holds all secured
events, and the file begins with it (`LogIs`). While nothing has spoilt the file's
end, the file is `g` or, with the process down, `g` with a line that is no record
after it, and the writer goes on from `g`; after a fragment, `g` is what comes before
it, and the next recovery goes on from there (`RecoveryKeepsChain`). Once the end is
spoilt for good, nothing more is said of the file than that it begins with `g`, all
that was secured by then, and no later step cuts into that (`BytesKeepChain`).
`AppendOnly` needs less of an invariant: the unbroken chain at the start of the file
grows by an event that was never written before, or stays (`BytesGrowLog`,
`RecoveryKeepsLog`), which is the step of EventLog. What a reader's walk computes for
a file is an induction over its lines: the library's least element of a set of
numbers (`Least`) shows that two walks which obey the same steps are equal
(`WalkUnfolds`), and for a chain one can be written down, for a reader with the first
boot's key and for one without (`WalkOfChain`). What does not hold is shown by `auditlog_disk_full`: that an event acknowledged after a
failure stays, and that a reader with one key can verify a chain with several.

*RateLimiter.* The invariant relates what is left in a bucket to the times of the calls
that passed, from above and from below: since the i-th of them, the bucket can
have gained no more than the refill and has lost the calls after it (hence the
burst bound), and since the last one it has gained at least the refill up to
the latest look, unless it is full (hence the steady caller). A refused call
moves `last_refill` and the tokens together, which keeps both. The refinement
maps the eager bucket's level to the tokens and the refill outstanding.

*TerminalStream.* The invariant follows a line on its four stages to a browser: with the
thread that publishes it, among the loop's callbacks, in the browser's queue,
sent. What is on the way was appended after the browser subscribed (`Arrives`);
within a thread the stages are sorted, and each is behind the next (`Ordered`);
and every line since the subscription is at one stage exactly, once, or was
dropped (`Gapless`, by counting occurrences in sequences).

*UiWait.* The invariant says, for each place of a call, how much of its time is gone
and how much may still come (`Timely`), what its dumps have seen (`Honest`), and
how long ago the elements it carries were on the screen (`Recent`), and the same
of the cached state, whichever thread published it.
`StableWaitIsExact` needs a second invariant (`Counts`): `stable` is the length of
the run at the end of dumps that agree on what is compared, and no run long
enough came before; which elements are compared is left open.
`NeverStableWithRust` proves finding 4 for every configuration: no two of a
wait's hashes are ever equal.

*UiTools.* The invariant says which kind of call may be at a place, what its commands
have done to the device so far (`Balance`: every effect is the one it will tell of, a
swipe it counted, or late, and how many late ones there can be at this place), how
far its search is (`Healing`: the strategies tried, all that failed, and those left
are a list without repetition of the rest, in whatever order the scores had that
it read; `Scoring`: which scores it has read so far), and that what it stored is
whole (`Holds`). The order of the fallbacks is complete and free of repetition for
all scores (`FallbackOrderComplete`), also for scores no moment had together.

*MemoryStore.* The invariant is inductive with the types: what was acknowledged is at
most what the file holds, until it is overwritten by a process that could not read it,
and that at most what a process holds that could. A failed
save widens the second gap, a restart closes it. UiTools inherits the property by
refinement (`ToolsUseMemory`).

*Confidence.* The adjustment is between -15 and 5 hundredths for every history, so the
class-name strategy (at most 55) stays below contained text (at least 65), by far
more than the rounding of the floats.

Each inductive invariant was checked by TLC on the constants of its run (that of
AuditLog for the one sequence that recovery would keep). Some definitions are
written so that they can be proved about: the walk of the audit log is a recursive
function instead of a fold, the next number of a thread's line is a cardinality, and the order of the fallbacks is
described by what comes before what (`Before`) instead of by a sort.

Only model-checked: the three liveness properties (`ExpiredIsReaped`,
`EveryCallAnswered`, `EveryWaitEnds`), which need fairness and ENABLED; and the runs
that expect a violation. The parts of `NodeMatches`, `FindNodes` and `Walk` of
Selectors that say which node a selector finds have no theorem of their own:
what is proved of the search holds whatever they find.

## Findings

1. *More than 20 sessions.* `sessions.py:19` and `README.md:36` promise at most 20
   concurrent sessions. The count is taken in `request_pairing`, not in
   `approve_pairing`.
2. *Approved, but no token.* `server.py:657` says the answer to an approved poll
   includes the token. The handler reads the pairing twice without the lock.
3. *A failed write takes the next event with it.* A fragment left by a full disk is
   joined with the next event's line, whose `write()` succeeds.
4. *No screen is stable with the Rust extension.* `contract/ui.py:356` and
   `rust_ext/src/lib.rs:319` mean screens to be compared by their nodes. The hash
   is over the whole state, with its revision, time and random node ids.
5. *The MCP server refuses the tokens issued for it.* `mcp/issue_token.py:14` writes
   the runtime's token key beside the audit log; the server does not read it.
Observed while modelling, and not the matter of a run:

- A restart ends the audit trail for its readers. `schema.py:3` says an event stays
  verifiable forever. The runtime makes a new audit key at every start
  (`core.py:564`), as neither `adroid start` nor the MCP server hands it one, and
  appends to the same file; a reader knows one key (`LogVerifies`: all or nothing).
- A lost newline takes two events with it. Recovery (`writer.py:158`) accepts a whole
  record without its newline; the next event is appended to the same line.
- A torn character stops the runtime from starting. `writer.py:121` says that a
  truncated line is detected and quarantined. The line is decoded at 153, outside
  the try statement whose except clause lists `UnicodeDecodeError` (`Recoverable`).
- Without the Rust extension a changed screen may be called stable. `contract/ui.py:356`
  and `395` speak of identical dumps. The comparison (`adb.py:610-614`) leaves out
  `enabled`, `selected`, `scrollable`, `editable` and `class_name` (`Compared`).
- An unreadable memory file is overwritten. `_load` warns (`store.py:238`) that what
  it drops the next save destroys, and returns an empty store if the file cannot
  be read (249) or parsed (253). `MemoryKept` says that nothing is lost otherwise.
- A denial of the gate is not audited: every runtime method calls the gate outside
  its try block. `gate.py:11-13` says it is; `tests/test_runtime.py:161` knows.
- The parser lists children before their parent (`uiautomator_parser.py:296-324`, and
  the Rust walk likewise), not in the XML's order as its docstring says (159).
  `tap_text` reads the XML itself and takes matches in document order, so that
  "first" may be another element there than in `ui.tap_element`.
- A fallback selector keeps none of the original's other predicates: a search for
  a clickable "Login" that heals may tap a label that is not clickable.
- The class-name fallback asks for more than the contained-text one and comes
  after it (`ClassNameBelowContains`), so it never finds anything where both
  are derived from one text.
- The docstring of `_generate_fallbacks` derives `text` from a description; the code
  does not.
- `timeout_seconds` is called a hard limit (`contract/ui.py:398`); `LateByOneRound` is
  what holds.
- Two dumps that cannot be parsed in a row are a stable screen.
- A revision is drawn after the dump, so of two concurrent dumps the one that read
  the screen later may have the earlier revision.

## Not modelled, and why

Cryptography, serialisation, parsing and formatting: signatures are names of keys,
hashes lists, arguments valid or not. Scopes: every session token has every
capability at the highest one in use. The browser's own authentication and the
bootstrap token. The event loop's cancellation of a pending `queue.get()` at the
heartbeat's timeout. Two processes over one audit log or one memory directory.
The parts marked `not_modelled` in PROJECT.json: the shell allowlist is text handling
(ToolCall takes its answer as a choice), the dashboard and the command line print
and parse, the mock bridge is a test double. Of the Termux bridge the screenshot
is the one method with shared state, a file named after the process id; its other
methods are those of the ADB bridge with fewer fallbacks, and it lacks the `ui.*`
methods. Of the ADB bridge the parsing of command output is left out. Power loss
(what fsync guards against) is not told apart from a crash of the process.

## Plan

The order is by what goes most wrong when it goes wrong: who may act, what is
recorded of it, how much of it, what is shown of it; then the device side.

1. Done: SessionAccess, Sessions, PairingPoll, ToolCall, EventLog, AuditLog,
   RateBucket, RateLimiter, TerminalStream, their runs, and the proofs of
   Sessions, ToolCall and AuditLog.
2. Done: UiWait with the cache and the waits; Confidence, Selectors, MemoryStore,
   BlobStore and their composition UiTools; McpServer; the proofs of MemoryStore
   and Confidence.
3. Done: the proofs of RateLimiter, PairingPoll, TerminalStream, UiWait and
   UiTools, the rest of those of AuditLog, and what the modules that extend
   Sessions inherit from it.
4. Later: the screenshot file of the Termux bridge with two concurrent captures, two
   processes over one audit log or memory directory.
