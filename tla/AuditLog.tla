------------------------------ MODULE AuditLog ------------------------------
(***************************************************************************)
(* AuditWriter and AuditReader (adroid/audit/writer.py): a JSON-lines file *)
(* in which every event carries the hash of the one before it, written by  *)
(* a process that may crash in the middle of a line, fail to write, and    *)
(* restart, and read back by a verifier that walks the chain.              *)
(*                                                                         *)
(* The file is a sequence of lines.  A line is "whole" (one JSON record),  *)
(* "junk" (bytes that do not parse as one record: a torn record, or a      *)
(* record appended to a line that had no newline), or "badutf8" (it ends   *)
(* or is cut inside a multi-byte character, so decoding it raises).        *)
(*                                                                         *)
(* Simplifications: a hash is the list of (sequence, event) pairs from the *)
(* first event on, so hashes collide for no two chains; a signature is the *)
(* name of the key it was made with; every event fits max_metadata_bytes.  *)
(* The writer holds its lock throughout write(), so a write is one action. *)
(***************************************************************************)
EXTENDS Integers, Sequences, SequencesExt

CONSTANTS
    Events,         \* the events callers audit, each with its own event_id
    CrashForms,     \* what a crash inside write() may leave of the line
    ErrorForms,     \* what a write() that raises OSError may leave of it
    FreshKeys,      \* may a boot generate a new signing key, may it keep the old?
    MaxBoots        \* bound of the model: restarts

\* "nothing" and "whole" are the ends of the range: no byte, or the line.
Forms == {"nothing", "junk", "badutf8", "no_newline", "whole"}

ASSUME AuditAssumption ==
    /\ CrashForms \subseteq Forms
    /\ ErrorForms \subseteq Forms
    /\ FreshKeys \subseteq BOOLEAN
    /\ MaxBoots \in Nat

VARIABLES
    file,       \* the lines of the log file
    up,         \* is the runtime process running?
    sequence,   \* AuditWriter._sequence
    prevHash,   \* AuditWriter._prev_hash, <<>> for None
    key,        \* the signing key of this boot, and the key readers are given
    boots,      \* restarts so far
    tried,      \* the events handed to write() so far
    acked,      \* the events whose write() returned
    spoilt,     \* has a failed write or a crash spoilt the file's end?
    secured     \* the events whose write() returned while nothing had

vars == <<file, up, sequence, prevHash, key, boots, tried, acked, spoilt, secured>>

-----------------------------------------------------------------------------
(* Lines and hashes *)

Hash(line) == Append(line.prev, <<line.seq, line.event>>)

\* What write() builds for event e: chained, hashed and signed.
Record(e) == [form |-> "whole", nl |-> TRUE,
              seq |-> sequence, prev |-> prevHash, event |-> e, key |-> key]

Garbage(form, nl) == [form |-> form, nl |-> nl]

\* The part of a line that reaches the file.
Torn(line, form) ==
    CASE form = "whole" -> line
      [] form = "no_newline" -> [line EXCEPT !.nl = FALSE]
      [] OTHER -> Garbage(form, FALSE)

\* Appending bytes after a line without its newline joins the two lines.
AppendBytes(f, line) ==
    CASE line.form = "nothing" -> f
      [] line.form # "nothing" /\ (f = <<>> \/ Last(f).nl) -> Append(f, line)
      [] OTHER -> Append(Front(f),
                    Garbage(IF "badutf8" \in {Last(f).form, line.form}
                            THEN "badutf8" ELSE "junk", line.nl))

-----------------------------------------------------------------------------
(* AuditReader *)

\* One line of the walk: the checks of the chain, the hash and the signature.
LineVerifies(line, hash) ==
    /\ line.form = "whole"
    /\ line.prev = hash
    /\ line.key = key

\* A line of the walk of verify_all and tail: one that fails leaves prev_hash
\* alone.
WalkLine(walk, line) ==
    IF LineVerifies(line, walk.hash)
    THEN [hash |-> Hash(line), failed |-> walk.failed]
    ELSE [hash |-> walk.hash, failed |-> walk.failed + 1]

NothingRead == [hash |-> <<>>, failed |-> 0]

Walk(f) ==
    LET walk[n \in 0..Len(f)] ==
          IF n = 0 THEN NothingRead ELSE WalkLine(walk[n - 1], f[n])
    IN  walk[Len(f)]

\* The events tail() returns, oldest first, when asked for all of them: the
\* hash of the last verified event lists them.
Verified(f) == LET h == Walk(f).hash IN [i \in DOMAIN h |-> h[i][2]]

-----------------------------------------------------------------------------
(* What writes can rely on *)

\* A fragment, written by a process that goes on, is cut off when the process
\* starts again, with every line after it.  A whole line whose write() raised
\* stays, and so does one that lacks its newline: the first is not in the
\* writer's chain, and the next record is appended to the second.
SpoiltBy(form) ==
    CASE form = "nothing" -> spoilt
      [] form \in {"whole", "no_newline"} -> "for_good"
      [] OTHER -> IF spoilt = "for_good" THEN spoilt ELSE "until_restart"

\* The secured events once write() has returned for e.
SecuredWith(e) == IF spoilt = "no" THEN secured \cup {e} ELSE secured

-----------------------------------------------------------------------------
Init ==
    /\ file = <<>>
    /\ up = TRUE
    /\ sequence = 0
    /\ prevHash = <<>>
    /\ key = 0
    /\ boots = 0
    /\ tried = {}
    /\ acked = {}
    /\ spoilt = "no"
    /\ secured = {}

\* Mutant: _prev_hash is not moved on.
WriteKeepsHash(e) ==
    /\ up
    /\ e \notin tried
    /\ file' = AppendBytes(file, Record(e))
    /\ sequence' = sequence + 1
    /\ tried' = tried \cup {e}
    /\ acked' = acked \cup {e}
    /\ secured' = SecuredWith(e)
    /\ UNCHANGED <<up, prevHash, key, boots, spoilt>>

\* Mutant: the caller is told before the line has left the buffer.
CrashInWriteAcks(e, form) ==
    /\ up
    /\ e \notin tried
    /\ file' = AppendBytes(file, Torn(Record(e), form))
    /\ tried' = tried \cup {e}
    /\ acked' = acked \cup {e}
    /\ secured' = SecuredWith(e)
    /\ up' = FALSE
    /\ spoilt' = IF form = "no_newline" THEN "for_good" ELSE spoilt
    /\ UNCHANGED <<sequence, prevHash, key, boots>>

\* write() returns: the line is on disk and the chain moves on.
Write(e) ==
    /\ up
    /\ e \notin tried
    /\ file' = AppendBytes(file, Record(e))
    /\ sequence' = sequence + 1
    /\ prevHash' = Hash(Record(e))
    /\ tried' = tried \cup {e}
    /\ acked' = acked \cup {e}
    /\ secured' = SecuredWith(e)
    /\ UNCHANGED <<up, key, boots, spoilt>>

\* write() raises: a full disk, an I/O error or a failed fsync, after some of
\* the bytes.  The chain does not move on.  The caller swallows the error.
WriteError(e, form) ==
    /\ up
    /\ e \notin tried
    /\ file' = AppendBytes(file, Torn(Record(e), form))
    /\ tried' = tried \cup {e}
    /\ spoilt' = SpoiltBy(form)
    /\ UNCHANGED <<up, sequence, prevHash, key, boots, acked, secured>>

\* The process dies inside write().
CrashInWrite(e, form) ==
    /\ up
    /\ e \notin tried
    /\ file' = AppendBytes(file, Torn(Record(e), form))
    /\ tried' = tried \cup {e}
    /\ up' = FALSE
    /\ spoilt' = IF form = "no_newline" THEN "for_good" ELSE spoilt
    /\ UNCHANGED <<sequence, prevHash, key, boots, acked, secured>>

\* The process dies, or is stopped, between writes.
Crash ==
    /\ up
    /\ up' = FALSE
    /\ UNCHANGED <<file, sequence, prevHash, key, boots, tried, acked, spoilt, secured>>

\* The lines _recover_state reads before it stops.
FirstBad(f) == SelectInSeq(f, LAMBDA line : line.form # "whole")

\* Mutant: cuts off the last good line, too.
GoodPrefixShort(f) == IF FirstBad(f) = 0 THEN f ELSE SubSeq(f, 1, FirstBad(f) - 2)

GoodPrefix(f) == IF FirstBad(f) = 0 THEN f ELSE SubSeq(f, 1, FirstBad(f) - 1)

\* Decoding the first bad line must not raise, or __init__ does.
Recoverable(f) == FirstBad(f) # 0 => f[FirstBad(f)].form # "badutf8"

\* Mutant: last_seq, which starts at -1, instead of last_seq + 1.
NextSequenceSame(f) == IF f = <<>> THEN -1 ELSE Last(f).seq

NextSequence(f) == IF f = <<>> THEN 0 ELSE Last(f).seq + 1

LastHash(f) == IF f = <<>> THEN <<>> ELSE Hash(Last(f))

\* The runtime starts again: __init__ and _recover_state, which truncates the
\* file to the lines before the first bad one.  No caller of AdroidRuntime in
\* src/ hands it the old key, so it makes a new one (core.py:560-564); the
\* docstring of build_runtime asks production to keep it.
Boot ==
    /\ ~up
    /\ boots < MaxBoots
    /\ Recoverable(file)
    /\ file' = GoodPrefix(file)
    /\ sequence' = NextSequence(GoodPrefix(file))
    /\ prevHash' = LastHash(GoodPrefix(file))
    /\ \E fresh \in FreshKeys : key' = IF fresh THEN key + 1 ELSE key
    /\ boots' = boots + 1
    /\ up' = TRUE
    /\ spoilt' = IF spoilt = "until_restart" THEN "no" ELSE spoilt
    /\ UNCHANGED <<tried, acked, secured>>

Next ==
    \/ \E e \in Events : Write(e)
    \/ \E e \in Events, form \in ErrorForms : WriteError(e, form)
    \/ \E e \in Events, form \in CrashForms : CrashInWrite(e, form)
    \/ Crash
    \/ Boot

Spec == Init /\ [][Next]_vars

-----------------------------------------------------------------------------
(* Properties *)

\* Type invariant.
LogTypeOK ==
    /\ \A i \in DOMAIN file :
         /\ file[i].form \in Forms \ {"nothing", "no_newline"}
         /\ file[i].nl \in BOOLEAN
         /\ file[i].form = "whole" =>
              /\ file[i].seq \in Nat
              /\ file[i].event \in Events
              /\ file[i].key \in 0..MaxBoots
    /\ up \in BOOLEAN
    /\ sequence \in Nat
    /\ key \in 0..MaxBoots
    /\ boots \in 0..MaxBoots
    /\ tried \subseteq Events
    /\ acked \subseteq tried
    /\ spoilt \in {"no", "until_restart", "for_good"}
    /\ secured \subseteq acked

\* Line i is a record with its newline, chained to the record on the line
\* before it.
SoundLine(f, i) ==
    /\ f[i].form = "whole"
    /\ f[i].nl
    /\ f[i].prev = IF i = 1 THEN <<>> ELSE Hash(f[i - 1])

\* The positions up to which the chain is unbroken from the first line on, and
\* the events there: what someone who has the key of every boot can verify.
Sound(f) == {n \in 1..Len(f) : \A i \in 1..n : SoundLine(f, i)}

SoundEvents(f) == [n \in Sound(f) |-> f[n].event]

\* schema.py:3, "Once an event is written, it must remain verifiable forever",
\* as far as the code keeps it: an event whose write() returned while no
\* failure had spoilt the file's end stays in the unbroken chain.  No crash,
\* torn line, failed write, restart, truncation or new key takes it out again.
AckedStaysInChain ==
    \A e \in secured : \E n \in Sound(file) : file[n].event = e

\* While the runtime is up and nothing has spoilt the file's end, verify_all
\* and tail() find all or nothing: every line if the first boot had the key of
\* this one, and otherwise not even the lines this boot has written.
LogVerifies ==
    up /\ spoilt = "no" =>
        IF file = <<>> \/ file[1].key = key
        THEN Walk(file).failed = 0 /\ Len(Verified(file)) = Len(file)
        ELSE Walk(file).failed = Len(file) /\ Verified(file) = <<>>

\* The numbers in the file count its lines, across restarts, and the writer
\* goes on with the next one (verify_all itself never looks at them).
NumberedByPosition ==
    up /\ spoilt = "no" =>
        /\ sequence = Len(file)
        /\ \A i \in DOMAIN file : file[i].seq = i - 1

\* The unbroken chain is a log in the sense of EventLog: it only grows, by one
\* event at a time, and no event enters it twice, whatever fails.
Chained == INSTANCE EventLog WITH log <- SoundEvents(file)

AppendOnly == Chained!Spec

-----------------------------------------------------------------------------
(* What the docs say *)

\* Line i verifies against the line before it, as do all lines up to n.
ChainedUpTo(n) ==
    \A i \in 1..n : LineVerifies(file[i], IF i = 1 THEN <<>> ELSE Hash(file[i - 1]))

\* schema.py:3 to the letter: every event whose write() returned stays in the
\* file, and a reader verifies the chain from the first line up to it.
AckedStaysVerifiable ==
    \A e \in acked : \E n \in DOMAIN file :
        file[n].form = "whole" /\ file[n].event = e /\ ChainedUpTo(n)
=============================================================================
