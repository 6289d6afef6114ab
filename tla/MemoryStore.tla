----------------------------- MODULE MemoryStore -----------------------------
(***************************************************************************)
(* The memory of skills and failures: entries that count how often they    *)
(* were observed, kept in memory and saved, a whole store at a time, to a  *)
(* file of their own.  One lock makes an observation and its save one step *)
(* for the other threads; a crash loses what is not in the file.           *)
(*                                                                         *)
(* An entry is its observation_count: its confidence is a function of it,  *)
(* and its value is the last one observed.  One process owns the files.    *)
(***************************************************************************)
EXTENDS Naturals

CONSTANTS Stores, Keys

VARIABLES
  memory,      \* store -> key -> observation_count, 0 when there is no entry
  files,       \* the same, as saved in the stores' files
  kept,        \* observations the callers were told of (history)
  unreadable,  \* the stores this process could not read at its start (history)
  overwritten  \* the stores a process saved that could not read them (history)

memoryVars == <<memory, files, kept, unreadable, overwritten>>

Entries == [Stores -> [Keys -> Nat]]
NoEntries == [s \in Stores |-> [k \in Keys |-> 0]]

MemoryInit ==
  /\ memory = NoEntries /\ files = NoEntries /\ kept = NoEntries
  /\ unreadable = {} /\ overwritten = {}

Observe(s, k) == [memory EXCEPT ![s][k] = @ + 1]

\* Mutant: what is saved was taken before the observation.
RememberStale(s, k) ==
  /\ memory' = Observe(s, k)
  /\ files' = [files EXCEPT ![s] = memory[s]]
  /\ kept' = [kept EXCEPT ![s][k] = @ + 1]
  /\ overwritten' = overwritten \cup ({s} \cap unreadable)
  /\ UNCHANGED unreadable

\* remember_*: observe, then replace the store's file by all the store holds.
Remember(s, k) ==
  /\ memory' = Observe(s, k)
  /\ files' = [files EXCEPT ![s] = memory'[s]]
  /\ kept' = [kept EXCEPT ![s][k] = @ + 1]
  /\ overwritten' = overwritten \cup ({s} \cap unreadable)
  /\ UNCHANGED unreadable

\* The temporary file cannot be written or moved: it is removed, the old file
\* stays, the error is raised, and the entry stays observed in memory.
RememberUnsaved(s, k) ==
  /\ memory' = Observe(s, k)
  /\ UNCHANGED <<files, kept, unreadable, overwritten>>

\* _load of every store by a new process.  A store whose file cannot be read
\* starts empty; its file stays until the store's next save overwrites it.
Reload ==
  /\ \E bad \in SUBSET Stores :
       /\ memory' = [s \in Stores |-> IF s \in bad THEN NoEntries[s] ELSE files[s]]
       /\ unreadable' = bad
  /\ UNCHANGED <<files, kept, overwritten>>

MemoryNext ==
  \/ \E s \in Stores, k \in Keys : Remember(s, k) \/ RememberUnsaved(s, k)
  \/ Reload

MemorySpec == MemoryInit /\ [][MemoryNext]_memoryVars

------------------------------------------------------------------------------

\* What callers were told was remembered is in the store's file, through failed
\* saves and through crashes, until a process that could not read the file
\* saves over it; one that could has all of it in memory, also when the process
\* before it could not.  (MemoryStore._save, _load)
MemoryKept ==
  \A s \in Stores, k \in Keys :
    /\ s \notin overwritten => kept[s][k] <= files[s][k]
    /\ s \notin unreadable => files[s][k] <= memory[s][k]
==============================================================================
