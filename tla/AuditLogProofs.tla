--------------------------- MODULE AuditLogProofs ---------------------------
(***************************************************************************)
(* Theorems about AuditLog for any set of events, any number of writes,    *)
(* crashes and restarts, whatever a crash or a failed write leaves in the  *)
(* file, and whether a boot keeps its signing key or makes a new one.      *)
(*                                                                         *)
(* The inductive invariant: the file begins with a chain of whole lines    *)
(* that is numbered from 0, whose keys only grow, and in which the secured *)
(* events are.  Nothing follows the chain while nothing has spoilt the     *)
(* file's end, but for a torn line while the runtime is down; and after a  *)
(* fragment the line behind the chain is no record, so that recovery cuts  *)
(* the file back to the chain.                                             *)
(*                                                                         *)
(* The walk of a reader is a recursion over the lines: two walks that obey *)
(* the same steps cannot differ first at any line (Least), and for a chain *)
(* one such walk can be written down.                                      *)
(***************************************************************************)
EXTENDS AuditLog, SequenceTheorems, WellFoundedInduction, TLAPS

USE AuditAssumption

-----------------------------------------------------------------------------
(* Numbers, and what a walk of a file finds *)

Below == {ss \in Nat \X Nat : ss[1] < ss[2]}

\* A nonempty set of numbers has a least one.
LEMMA Least ==
    ASSUME NEW S \in SUBSET Nat, S # {}
    PROVE  \E n \in S : \A m \in S : n <= m
<1>1. IsWellFoundedOn(Below, Nat)
  BY NatLessThanWellFounded, Zenon DEF OpToRel, Below
<1>2. PICK n \in S : \A m \in S : ~(<<m, n>> \in Below)
  BY <1>1, WFMin
<1>3. ASSUME NEW m \in S PROVE n <= m
  <2>1. ~(m < n)
    BY <1>2 DEF Below
  <2> QED
    BY <2>1
<1> QED
  BY <1>3

\* A list of accumulators that obeys the steps of the walk holds its result:
\* the least line at which the walk has another would contradict its step.
LEMMA WalkUnfolds ==
    ASSUME NEW f, Len(f) \in Nat, NEW w,
           w = [n \in 0..Len(f) |-> IF n = 0 THEN NothingRead ELSE WalkLine(w[n - 1], f[n])]
    PROVE  Walk(f) = w[Len(f)]
<1> DEFINE Unfolds(v) ==
             v = [n \in 0..Len(f) |-> IF n = 0 THEN NothingRead ELSE WalkLine(v[n - 1], f[n])]
           walk == CHOOSE v : Unfolds(v)
<1>1. Unfolds(w)
  OBVIOUS
<1>2. Unfolds(walk)
  BY <1>1
<1>3. Walk(f) = walk[Len(f)]
  BY DEF Walk
<1> HIDE DEF walk
<1>4. ASSUME NEW n \in 0..Len(f), walk[n] # w[n] PROVE FALSE
  <2> DEFINE D == {k \in 0..Len(f) : walk[k] # w[k]}
  <2>1. D \in SUBSET Nat /\ D # {}
    BY <1>4
  <2>2. PICK k \in D : \A m \in D : k <= m
    BY <2>1, Least
  <2>3. k \in 0..Len(f) /\ walk[k] # w[k]
    OBVIOUS
  <2>4. k # 0
    BY <1>1, <1>2, <2>3
  <2>5. k - 1 \in 0..Len(f) /\ ~(k <= k - 1)
    BY <2>3, <2>4
  <2>6. walk[k - 1] = w[k - 1]
    BY <2>2, <2>5
  <2>7. walk[k] = WalkLine(walk[k - 1], f[k]) /\ w[k] = WalkLine(w[k - 1], f[k])
    BY <1>1, <1>2, <2>3, <2>4
  <2> QED
    BY <2>3, <2>6, <2>7
<1> QED
  BY <1>3, <1>4

-----------------------------------------------------------------------------
(* Types *)

Hashes == Seq(Nat \X Events)

WholeLines == [form : {"whole"}, nl : BOOLEAN, seq : Nat, prev : Hashes,
               event : Events, key : 0..MaxBoots]

BadLines == [form : {"junk", "badutf8"}, nl : BOOLEAN]

FileLines == WholeLines \cup BadLines

TypeInv ==
    /\ file \in Seq(FileLines)
    /\ up \in BOOLEAN
    /\ sequence \in Nat
    /\ prevHash \in Hashes
    /\ boots \in 0..MaxBoots
    /\ key \in 0..boots
    /\ tried \subseteq Events
    /\ acked \subseteq tried
    /\ spoilt \in {"no", "until_restart", "for_good"}
    /\ secured \subseteq acked

LEMMA LineFields ==
    ASSUME NEW x \in FileLines
    PROVE  /\ x.form \in {"whole", "junk", "badutf8"}
           /\ x.nl \in BOOLEAN
           /\ x.form = "whole" => x.seq \in Nat /\ x.prev \in Hashes
                                  /\ x.event \in Events /\ x.key \in 0..MaxBoots
<1> DEFINE H == Hashes
           K == 0..MaxBoots
<1> HIDE DEF H, K
<1>1. CASE x \in [form : {"whole"}, nl : BOOLEAN, seq : Nat, prev : H, event : Events, key : K]
  BY <1>1 DEF H, K
<1>2. CASE x \in BadLines
  BY <1>2 DEF BadLines
<1> QED
  BY <1>1, <1>2 DEF FileLines, WholeLines, H, K

LEMMA GarbageTyped ==
    ASSUME NEW form, NEW nl \in BOOLEAN
    PROVE  /\ Garbage(form, nl).form = form /\ Garbage(form, nl).nl = nl
           /\ form \in {"junk", "badutf8"} => Garbage(form, nl) \in FileLines
BY DEF Garbage, FileLines, BadLines

LEMMA RecordTyped ==
    ASSUME TypeInv, NEW e \in Events, NEW form \in Forms
    PROVE  \/ Torn(Record(e), form) \in FileLines
           \/ Torn(Record(e), form) = Garbage("nothing", FALSE)
<1> DEFINE H == Hashes
           K == 0..MaxBoots
           W == [form : {"whole"}, nl : BOOLEAN, seq : Nat, prev : H, event : Events, key : K]
<1>1. sequence \in Nat /\ prevHash \in H /\ key \in K
  BY DEF TypeInv
<1> HIDE DEF H, K
<1>2. Record(e) \in W /\ [Record(e) EXCEPT !.nl = FALSE] \in W
  BY <1>1 DEF Record
<1>3. W \subseteq FileLines
  BY DEF FileLines, WholeLines, H, K
<1> HIDE DEF W
<1>4. CASE form = "whole"
  BY <1>2, <1>3, <1>4 DEF Torn
<1>5. CASE form = "no_newline"
  BY <1>2, <1>3, <1>5 DEF Torn
<1>6. CASE form \in {"nothing", "junk", "badutf8"}
  <2>1. Torn(Record(e), form) = Garbage(form, FALSE)
    BY <1>6 DEF Torn
  <2> QED
    BY <1>6, <2>1, GarbageTyped
<1> QED
  BY <1>4, <1>5, <1>6 DEF Forms

\* Bytes at the end of a file of lines leave a file of lines.
LEMMA AppendTyped ==
    ASSUME NEW f \in Seq(FileLines), NEW x, x \in FileLines \/ x = Garbage("nothing", FALSE)
    PROVE  AppendBytes(f, x) \in Seq(FileLines)
<1>1. CASE x = Garbage("nothing", FALSE)
  <2>1. x.form = "nothing"
    BY <1>1, GarbageTyped
  <2> QED
    BY <2>1 DEF AppendBytes
<1>2. CASE x \in FileLines
  <2>1. x.form # "nothing" /\ x.nl \in BOOLEAN
    BY <1>2, LineFields
  <2>2. CASE f = <<>> \/ Last(f).nl
    <3>1. AppendBytes(f, x) = Append(f, x)
      BY <2>1, <2>2 DEF AppendBytes
    <3> QED
      BY <1>2, <3>1
  <2>3. CASE ~(f = <<>> \/ Last(f).nl)
    <3> DEFINE form == IF "badutf8" \in {Last(f).form, x.form} THEN "badutf8" ELSE "junk"
    <3>1. AppendBytes(f, x) = Append(Front(f), Garbage(form, x.nl))
      BY <2>1, <2>3 DEF AppendBytes
    <3>2. Garbage(form, x.nl) \in FileLines
      BY <2>1, GarbageTyped
    <3>3. Front(f) \in Seq(FileLines)
      BY <2>3 DEF Front
    <3> HIDE DEF form
    <3> QED
      BY <3>1, <3>2, <3>3
  <2> QED
    BY <2>2, <2>3
<1> QED
  BY <1>1, <1>2

\* Recovery keeps the lines before the first one that is no record.
LEMMA GoodPrefixIs ==
    ASSUME NEW T, NEW f \in Seq(T)
    PROVE  \/ GoodPrefix(f) = f /\ \A i \in 1..Len(f) : f[i].form = "whole"
           \/ \E n \in 1..Len(f) :
                /\ GoodPrefix(f) = SubSeq(f, 1, n - 1)
                /\ f[n].form # "whole"
                /\ \A i \in 1..(n - 1) : f[i].form = "whole"
<1> DEFINE bad == {i \in 1..Len(f) : f[i].form # "whole"}
<1>1. CASE bad = {}
  <2>1. FirstBad(f) = 0
    BY <1>1 DEF FirstBad, SelectInSeq
  <2> QED
    BY <1>1, <2>1 DEF GoodPrefix
<1>2. CASE bad # {}
  <2>1. FirstBad(f) = Min(bad)
    BY <1>2 DEF FirstBad, SelectInSeq
  <2>2. \E n \in bad : \A m \in bad : n <= m
    <3>1. bad \in SUBSET Nat
      OBVIOUS
    <3> HIDE DEF bad
    <3> QED
      BY <1>2, <3>1, Least
  <2>3. FirstBad(f) \in bad /\ \A m \in bad : FirstBad(f) <= m
    <3> HIDE DEF bad
    <3> QED
      BY <2>1, <2>2 DEF Min
  <2>4. PICK n \in 1..Len(f) : n = FirstBad(f)
    BY <2>3
  <2>5. f[n].form # "whole" /\ \A i \in 1..(n - 1) : f[i].form = "whole"
    BY <2>3, <2>4
  <2>6. GoodPrefix(f) = SubSeq(f, 1, n - 1)
    BY <2>4 DEF GoodPrefix
  <2> QED
    BY <2>5, <2>6
<1> QED
  BY <1>1, <1>2

\* What recovery keeps of a file is whole lines of it.
LEMMA GoodPrefixTyped ==
    ASSUME NEW f \in Seq(FileLines)
    PROVE  /\ GoodPrefix(f) \in Seq(FileLines)
           /\ \A i \in 1..Len(GoodPrefix(f)) : GoodPrefix(f)[i].form = "whole"
<1>1. CASE GoodPrefix(f) = f /\ \A i \in 1..Len(f) : f[i].form = "whole"
  BY <1>1
<1>2. ASSUME NEW n \in 1..Len(f), GoodPrefix(f) = SubSeq(f, 1, n - 1),
             \A i \in 1..(n - 1) : f[i].form = "whole"
      PROVE  /\ GoodPrefix(f) \in Seq(FileLines)
             /\ \A i \in 1..Len(GoodPrefix(f)) : GoodPrefix(f)[i].form = "whole"
  BY <1>2
<1> QED
  BY <1>1, <1>2, GoodPrefixIs

\* Types are kept by what the processes do, and by what disks and crashes do.
LEMMA TypeStep == TypeInv /\ [Next]_vars => TypeInv'
<1> SUFFICES ASSUME TypeInv, [Next]_vars PROVE TypeInv'
  OBVIOUS
<1>1. CASE UNCHANGED vars
  BY <1>1 DEF vars, TypeInv
<1>2. ASSUME NEW e \in Events, Write(e) PROVE TypeInv'
  <2>1. "whole" \in Forms /\ Torn(Record(e), "whole") = Record(e)
    BY DEF Forms, Torn
  <2>2. file' \in Seq(FileLines)
    BY <1>2, <2>1, RecordTyped, AppendTyped DEF Write, TypeInv
  <2>3. prevHash' \in Hashes
    <3>1. prevHash' = Append(prevHash, <<sequence, e>>)
      BY <1>2 DEF Write, Hash, Record
    <3> QED
      BY <3>1 DEF TypeInv, Hashes
  <2> QED
    BY <1>2, <2>2, <2>3 DEF Write, TypeInv, SecuredWith
<1>3. ASSUME NEW e \in Events, NEW form \in ErrorForms, WriteError(e, form) PROVE TypeInv'
  <2>1. file' \in Seq(FileLines)
    BY <1>3, RecordTyped, AppendTyped DEF WriteError, TypeInv, AuditAssumption
  <2> QED
    BY <1>3, <2>1 DEF WriteError, TypeInv, SpoiltBy
<1>4. ASSUME NEW e \in Events, NEW form \in CrashForms, CrashInWrite(e, form) PROVE TypeInv'
  <2>1. file' \in Seq(FileLines)
    BY <1>4, RecordTyped, AppendTyped DEF CrashInWrite, TypeInv, AuditAssumption
  <2> QED
    BY <1>4, <2>1 DEF CrashInWrite, TypeInv
<1>5. CASE Crash
  BY <1>5 DEF Crash, TypeInv
<1>6. CASE Boot
  <2>1. PICK g \in Seq(FileLines) : g = GoodPrefix(file)
    BY GoodPrefixTyped DEF TypeInv
  <2>2. NextSequence(g) \in Nat /\ LastHash(g) \in Hashes
    <3>1. CASE g = <<>>
      BY <3>1 DEF NextSequence, LastHash, Hashes
    <3>2. CASE g # <<>>
      <4>1. Len(g) \in 1..Len(g) /\ Last(g) = g[Len(g)]
        BY <3>2 DEF Last
      <4>2. Last(g) \in FileLines /\ Last(g).form = "whole"
        BY <2>1, <4>1, GoodPrefixTyped DEF TypeInv
      <4>3. Last(g).seq \in Nat /\ Last(g).prev \in Hashes /\ Last(g).event \in Events
        BY <4>2, LineFields
      <4>4. Hash(Last(g)) \in Hashes
        BY <4>3 DEF Hash, Hashes
      <4> QED
        BY <3>2, <4>3, <4>4 DEF NextSequence, LastHash
    <3> QED
      BY <3>1, <3>2
  <2>3. boots' \in 0..MaxBoots /\ key' \in 0..boots'
    BY <1>6 DEF Boot, TypeInv, AuditAssumption
  <2> QED
    BY <1>6, <2>1, <2>2, <2>3 DEF Boot, TypeInv
<1> QED
  BY <1>1, <1>2, <1>3, <1>4, <1>5, <1>6 DEF Next

LEMMA TypeInit == Init => TypeInv
<1>1. <<>> \in Seq(FileLines) /\ <<>> \in Hashes
  BY DEF Hashes
<1> QED
  BY <1>1 DEF Init, TypeInv

\* Type correctness, whatever crashes and failed writes leave in the file and
\* whether or not a boot generates a new key.  (AuditWriter)
THEOREM TypeCorrect == Spec => []LogTypeOK
<1>1. Init => TypeInv
  BY TypeInit
<1>2. ASSUME TypeInv PROVE LogTypeOK
  <2>1. ASSUME NEW i \in DOMAIN file
        PROVE  /\ file[i].form \in Forms \ {"nothing", "no_newline"}
               /\ file[i].nl \in BOOLEAN
               /\ file[i].form = "whole" =>
                    file[i].seq \in Nat /\ file[i].event \in Events /\ file[i].key \in 0..MaxBoots
    <3>1. file[i] \in FileLines
      BY <1>2 DEF TypeInv
    <3> QED
      BY <3>1, LineFields DEF Forms
  <2>2. key \in 0..MaxBoots
    BY <1>2 DEF TypeInv, AuditAssumption
  <2> QED
    BY <1>2, <2>1, <2>2 DEF TypeInv, LogTypeOK
<1> QED
  BY <1>1, <1>2, TypeStep, PTL DEF Spec

-----------------------------------------------------------------------------
(* Chains of whole lines at the beginning of a file *)

Whole == [form : {"whole"}, nl : {TRUE}, seq : Nat, prev : Hashes,
          event : Events, key : Nat]

\* A sound line at position i, given the one before it.
Linked(g, i) ==
    /\ g[i].seq = i - 1
    /\ g[i].prev = IF i = 1 THEN <<>> ELSE Hash(g[i - 1])

Chain(g) ==
    /\ g \in Seq(Whole)
    /\ \A i \in 1..Len(g) : Linked(g, i)

Records(g) == {g[i].event : i \in 1..Len(g)}

\* The keys of a chain only grow, up to the key of this boot.
KeysGrow(g, k) ==
    /\ \A i \in 1..Len(g) : g[i].key <= k
    /\ \A i, j \in 1..Len(g) : i <= j => g[i].key <= g[j].key

\* f begins with g.
Begins(g, f) ==
    /\ Len(g) <= Len(f)
    /\ \A i \in 1..Len(g) : f[i] = g[i]

\* f begins with g, and what follows is no record.
BrokenAfter(g, f) ==
    /\ Begins(g, f)
    /\ Len(g) < Len(f)
    /\ f[Len(g) + 1].form # "whole"

\* The file holds the chain g, and more than that only as the writer allows.
LogIs(g) ==
    /\ Chain(g)
    /\ KeysGrow(g, key)
    /\ secured \subseteq Records(g)
    /\ Begins(g, file)
    /\ spoilt = "no" =>
         /\ file = g \/ (~up /\ BrokenAfter(g, file))
         /\ up => sequence = Len(g) /\ prevHash = LastHash(g)
    /\ spoilt = "until_restart" => BrokenAfter(g, file)

IInv ==
    /\ TypeInv
    /\ \E g \in Seq(Whole) : LogIs(g)

LEMMA WholeLine ==
    ASSUME NEW g \in Seq(Whole), NEW i \in 1..Len(g)
    PROVE  /\ g[i] \in Whole
           /\ g[i].form = "whole" /\ g[i].nl = TRUE
           /\ g[i].seq \in Nat /\ g[i].key \in Nat
           /\ g[i].prev \in Hashes /\ g[i].event \in Events
<1>1. g[i] \in Whole
  OBVIOUS
<1> DEFINE H == Hashes
<1> HIDE DEF H
<1>2. g[i] \in [form : {"whole"}, nl : {TRUE}, seq : Nat, prev : H, event : Events, key : Nat]
  BY <1>1 DEF Whole, H
<1>3. /\ g[i].form = "whole" /\ g[i].nl = TRUE /\ g[i].seq \in Nat
      /\ g[i].key \in Nat /\ g[i].prev \in H /\ g[i].event \in Events
  BY <1>2
<1> QED
  BY <1>1, <1>3 DEF H

\* The hash of a line is a list that is not empty.
LEMMA HashType ==
    ASSUME NEW g \in Seq(Whole), NEW i \in 1..Len(g)
    PROVE  Hash(g[i]) \in Hashes /\ Len(Hash(g[i])) = Len(g[i].prev) + 1
<1>1. g[i].prev \in Hashes /\ <<g[i].seq, g[i].event>> \in Nat \X Events
  BY WholeLine
<1> QED
  BY <1>1 DEF Hash, Hashes

LEMMA LastHashType ==
    ASSUME NEW g \in Seq(Whole)
    PROVE  LastHash(g) \in Hashes
<1>1. CASE g = <<>>
  BY <1>1 DEF LastHash, Hashes
<1>2. CASE g # <<>>
  <2>1. Len(g) \in 1..Len(g)
    BY <1>2
  <2> QED
    BY <1>2, <2>1, HashType DEF LastHash, Last
<1> QED
  BY <1>1, <1>2

\* The hash of a line of a chain lists as many events as there are lines.
LEMMA HashLength ==
    ASSUME NEW g, Chain(g), NEW n \in 1..Len(g)
    PROVE  Len(Hash(g[n])) = n
<1> DEFINE D == {m \in 1..Len(g) : Len(Hash(g[m])) # m}
<1>0. g \in Seq(Whole) /\ Len(g) \in Nat
  BY DEF Chain
<1>1. ASSUME n \in D PROVE FALSE
  <2>1. D \in SUBSET Nat /\ D # {}
    BY <1>0, <1>1
  <2>2. PICK m \in D : \A k \in D : m <= k
    BY <2>1, Least
  <2>3. m \in 1..Len(g) /\ Len(Hash(g[m])) # m
    OBVIOUS
  <2>4. Len(Hash(g[m])) = Len(g[m].prev) + 1
    BY <1>0, <2>3, HashType
  <2>5. g[m].prev = IF m = 1 THEN <<>> ELSE Hash(g[m - 1])
    BY <2>3 DEF Chain, Linked
  <2>6. CASE m = 1
    BY <2>3, <2>4, <2>5, <2>6
  <2>7. CASE m # 1
    <3>1. m - 1 \in 1..Len(g) /\ ~(m <= m - 1)
      BY <1>0, <2>3, <2>7
    <3>2. m - 1 \notin D
      BY <2>2, <3>1
    <3>3. Len(Hash(g[m - 1])) = m - 1
      BY <3>1, <3>2
    <3> QED
      BY <2>3, <2>4, <2>5, <2>7, <3>3
  <2> QED
    BY <2>6, <2>7
<1>2. n \notin D
  BY <1>1
<1> QED
  BY <1>2

\* write() at the end of a chain makes the chain longer by its event.
LEMMA ChainGrows ==
    ASSUME NEW g, Chain(g), KeysGrow(g, key), NEW e \in Events, key \in Nat,
           sequence = Len(g), prevHash = LastHash(g)
    PROVE  \E h \in Seq(Whole) :
               /\ h = AppendBytes(g, Record(e))
               /\ Chain(h) /\ KeysGrow(h, key)
               /\ Records(h) = Records(g) \cup {e}
               /\ Len(h) = Len(g) + 1 /\ LastHash(h) = Hash(Record(e))
<1> DEFINE r == Record(e)
           h == Append(g, r)
<1>0. g \in Seq(Whole) /\ Len(g) \in Nat
  BY DEF Chain
<1>1. r \in Whole
  <2> DEFINE H == Hashes
  <2>1. prevHash \in H /\ sequence \in Nat
    BY <1>0, LastHashType
  <2> HIDE DEF H
  <2>2. Record(e) \in [form : {"whole"}, nl : {TRUE}, seq : Nat, prev : H,
                       event : Events, key : Nat]
    BY <2>1 DEF Record
  <2> QED
    BY <2>2 DEF Whole, H
<1>2. h \in Seq(Whole) /\ Len(h) = Len(g) + 1 /\ h[Len(g) + 1] = r
      /\ \A i \in 1..Len(g) : h[i] = g[i]
  BY <1>0, <1>1
<1>3. r.seq = Len(g) /\ r.prev = LastHash(g) /\ r.event = e /\ r.form = "whole"
      /\ r.key = key
  BY DEF Record
<1>4. h # <<>> /\ Last(h) = r
  BY <1>0, <1>2 DEF Last
<1>5. AppendBytes(g, r) = h
  <2>1. ASSUME g # <<>> PROVE Last(g).nl = TRUE
    <3>1. Len(g) \in 1..Len(g)
      BY <1>0, <2>1
    <3> QED
      BY <1>0, <3>1, WholeLine DEF Last
  <2> QED
    BY <1>3, <2>1 DEF AppendBytes
<1> HIDE DEF r, h
<1>6. ASSUME NEW i \in 1..Len(h) PROVE Linked(h, i)
  <2>1. CASE i \in 1..Len(g)
    <3>1. i # 1 => i - 1 \in 1..Len(g)
      BY <1>0, <2>1
    <3> QED
      BY <1>2, <2>1, <3>1 DEF Chain, Linked
  <2>2. CASE i = Len(g) + 1
    <3>1. CASE g = <<>>
      BY <1>2, <1>3, <2>2, <3>1 DEF Linked, LastHash
    <3>2. CASE g # <<>>
      <4>1. Len(g) \in 1..Len(g) /\ Len(g) + 1 # 1 /\ i - 1 = Len(g)
        BY <1>0, <2>2, <3>2
      <4> QED
        BY <1>2, <1>3, <2>2, <3>2, <4>1 DEF Linked, LastHash, Last
    <3> QED
      BY <3>1, <3>2
  <2> QED
    BY <1>0, <1>2, <2>1, <2>2
<1>7. KeysGrow(h, key)
  <2>1. ASSUME NEW i \in 1..Len(h) PROVE h[i].key <= key
    <3>1. CASE i \in 1..Len(g)
      BY <1>2, <3>1 DEF KeysGrow
    <3>2. CASE i = Len(g) + 1
      BY <1>2, <1>3, <3>2
    <3> QED
      BY <1>0, <1>2, <3>1, <3>2
  <2>2. ASSUME NEW i \in 1..Len(h), NEW j \in 1..Len(h), i <= j
        PROVE  h[i].key <= h[j].key
    <3>1. CASE j \in 1..Len(g)
      <4>1. i \in 1..Len(g)
        BY <1>0, <2>2, <3>1
      <4> QED
        BY <1>2, <2>2, <3>1, <4>1 DEF KeysGrow
    <3>2. CASE j = Len(g) + 1
      BY <1>2, <1>3, <2>1, <3>2
    <3> QED
      BY <1>0, <1>2, <3>1, <3>2
  <2> QED
    BY <2>1, <2>2 DEF KeysGrow
<1>8. Records(h) = Records(g) \cup {e}
  BY <1>0, <1>2, <1>3 DEF Records
<1>9. Chain(h) /\ LastHash(h) = Hash(r)
  BY <1>2, <1>4, <1>6 DEF Chain, LastHash
<1> QED
  BY <1>2, <1>5, <1>7, <1>8, <1>9 DEF r

-----------------------------------------------------------------------------
(* What bytes at the end of the file, and recovery, do to the chain in it *)

\* h is f and the line x.
Follows(f, x, h) ==
    /\ h = Append(f, x) /\ x \in FileLines
    /\ Len(h) = Len(f) + 1 /\ h[Len(f) + 1] = x
    /\ \A i \in 1..Len(f) : h[i] = f[i]

\* h is f but for its last line, which had no newline and holds no record now.
Joins(f, h) ==
    /\ Len(f) >= 1 /\ Len(h) = Len(f)
    /\ ~f[Len(f)].nl /\ h[Len(f)].form # "whole"
    /\ \A i \in 1..(Len(f) - 1) : h[i] = f[i]

\* Bytes at the end of a file follow its last line, or join it when it has no
\* newline.
LEMMA AppendBytesIs ==
    ASSUME NEW f \in Seq(FileLines), NEW x, x \in FileLines \/ x = Garbage("nothing", FALSE),
           NEW h, h = AppendBytes(f, x)
    PROVE  h = f \/ Follows(f, x, h) \/ Joins(f, h)
<1>1. CASE x.form = "nothing"
  BY <1>1 DEF AppendBytes
<1>2. CASE x.form # "nothing" /\ (f = <<>> \/ Last(f).nl)
  <2>1. AppendBytes(f, x) = Append(f, x)
    BY <1>2 DEF AppendBytes
  <2>2. x \in FileLines
    BY <1>2, GarbageTyped
  <2> QED
    BY <2>1, <2>2 DEF Follows
<1>3. CASE x.form # "nothing" /\ ~(f = <<>> \/ Last(f).nl)
  <2> DEFINE form == IF "badutf8" \in {Last(f).form, x.form} THEN "badutf8" ELSE "junk"
             y == Garbage(form, x.nl)
  <2>1. h = Append(Front(f), y)
    BY <1>3 DEF AppendBytes
  <2>2. Len(f) \in Nat /\ Len(f) >= 1 /\ Last(f) = f[Len(f)]
    BY <1>3 DEF Last
  <2>3. y.form # "whole" /\ y \in FileLines
    <3>1. form \in {"junk", "badutf8"} /\ x.nl \in BOOLEAN
      BY <1>3, LineFields, GarbageTyped
    <3> HIDE DEF form
    <3> QED
      BY <3>1, GarbageTyped
  <2>4. /\ Front(f) \in Seq(FileLines) /\ Len(Front(f)) = Len(f) - 1
        /\ \A i \in 1..(Len(f) - 1) : Front(f)[i] = f[i]
    <3>1. Len(f) - 1 \in 0..Len(f)
      BY <2>2
    <3>2. PICK n \in 0..Len(f) : n = Len(f) - 1
      BY <3>1, Zenon
    <3>3. 1..n \subseteq DOMAIN f /\ n \in Nat
      BY <2>2
    <3>4. SubSeq(f, 1, n) = [i \in 1..n |-> f[i]]
      BY <3>3
    <3>5. Front(f) = SubSeq(f, 1, n)
      BY <2>2, <3>2 DEF Front
    <3> QED
      BY <3>2, <3>3, <3>4, <3>5
  <2> HIDE DEF y, form
  <2> QED
    BY <1>3, <2>1, <2>2, <2>3, <2>4 DEF Joins
<1> QED
  BY <1>1, <1>2, <1>3

\* Neither touches a line that has its newline, such as those of a chain.
LEMMA BytesKeepChain ==
    ASSUME NEW g \in Seq(Whole), NEW f \in Seq(FileLines), Begins(g, f),
           NEW x, x \in FileLines \/ x = Garbage("nothing", FALSE)
    PROVE  /\ Begins(g, AppendBytes(f, x))
           /\ BrokenAfter(g, f) => BrokenAfter(g, AppendBytes(f, x))
<1>0. Len(g) \in Nat /\ Len(f) \in Nat
  OBVIOUS
<1> PICK h : h = AppendBytes(f, x)
  OBVIOUS
<1>1. CASE h = f
  BY <1>1
<1>2. CASE Follows(f, x, h)
  BY <1>0, <1>2 DEF Begins, BrokenAfter, Follows
<1>3. CASE Joins(f, h)
  <2> USE DEF Joins
  <2>1. Len(g) < Len(f)
    <3>1. ASSUME Len(g) = Len(f) PROVE FALSE
      <4>1. Len(f) \in 1..Len(g) /\ f[Len(f)] = g[Len(f)]
        BY <1>0, <1>3, <3>1 DEF Begins
      <4> QED
        BY <1>3, <4>1, WholeLine
    <3> QED
      BY <1>0, <3>1 DEF Begins
  <2>2. Begins(g, h)
    BY <1>0, <1>3, <2>1 DEF Begins
  <2>3. ASSUME BrokenAfter(g, f) PROVE h[Len(g) + 1].form # "whole"
    <3>1. CASE Len(g) + 1 = Len(f)
      BY <1>3, <3>1
    <3>2. CASE Len(g) + 1 < Len(f)
      <4>1. Len(g) + 1 \in 1..(Len(f) - 1)
        BY <1>0, <3>2
      <4> QED
        BY <1>3, <2>3, <4>1 DEF BrokenAfter
    <3> QED
      BY <1>0, <2>1, <3>1, <3>2
  <2> QED
    BY <1>3, <2>1, <2>2, <2>3 DEF BrokenAfter
<1> QED
  BY <1>1, <1>2, <1>3, AppendBytesIs

\* A fragment written behind a chain is no record, and recovery will see it.
LEMMA FragmentBreaks ==
    ASSUME NEW g \in Seq(Whole), NEW e \in Events, NEW form \in {"junk", "badutf8"}
    PROVE  BrokenAfter(g, AppendBytes(g, Torn(Record(e), form)))
<1> DEFINE x == Garbage(form, FALSE)
<1>1. Torn(Record(e), form) = x /\ x.form = form
  BY GarbageTyped DEF Torn
<1>2. g # <<>> => Last(g).nl = TRUE
  <2>1. ASSUME g # <<>> PROVE Last(g).nl = TRUE
    <3>1. Len(g) \in 1..Len(g)
      BY <2>1
    <3> QED
      BY <3>1, WholeLine DEF Last
  <2> QED
    BY <2>1
<1> HIDE DEF x
<1>3. AppendBytes(g, x) = Append(g, x)
  BY <1>1, <1>2 DEF AppendBytes
<1>4. /\ Len(Append(g, x)) = Len(g) + 1 /\ Append(g, x)[Len(g) + 1] = x
      /\ \A i \in 1..Len(g) : Append(g, x)[i] = g[i]
  OBVIOUS
<1> QED
  BY <1>1, <1>3, <1>4 DEF BrokenAfter, Begins

\* Recovery keeps a chain the file begins with, and only that when the line
\* after it is no record.
LEMMA RecoveryKeepsChain ==
    ASSUME NEW g \in Seq(Whole), NEW f \in Seq(FileLines), Begins(g, f)
    PROVE  /\ Begins(g, GoodPrefix(f))
           /\ f = g \/ BrokenAfter(g, f) => GoodPrefix(f) = g
<1>0. Len(g) \in Nat /\ Len(f) \in Nat
  OBVIOUS
<1>1. \A i \in 1..Len(g) : f[i] = g[i] /\ f[i].form = "whole"
  BY WholeLine DEF Begins
<1>2. CASE GoodPrefix(f) = f /\ \A i \in 1..Len(f) : f[i].form = "whole"
  <2>1. ~BrokenAfter(g, f)
    <3>1. Len(g) < Len(f) => Len(g) + 1 \in 1..Len(f)
      BY <1>0
    <3> QED
      BY <1>2, <3>1 DEF BrokenAfter
  <2> QED
    BY <1>2, <2>1
<1>3. ASSUME NEW n \in 1..Len(f), GoodPrefix(f) = SubSeq(f, 1, n - 1),
             f[n].form # "whole", \A i \in 1..(n - 1) : f[i].form = "whole"
      PROVE  /\ Begins(g, GoodPrefix(f))
             /\ f = g \/ BrokenAfter(g, f) => GoodPrefix(f) = g
  <2>1. Len(g) < n
    <3>1. n \notin 1..Len(g)
      BY <1>1, <1>3
    <3> QED
      BY <1>0, <3>1
  <2>2. /\ Len(SubSeq(f, 1, n - 1)) = n - 1
        /\ \A i \in 1..(n - 1) : SubSeq(f, 1, n - 1)[i] = f[i]
    BY <1>0
  <2>3. Begins(g, SubSeq(f, 1, n - 1))
    BY <1>0, <1>1, <2>1, <2>2 DEF Begins
  <2>4. f # g
    BY <1>0, <2>1
  <2>5. ASSUME BrokenAfter(g, f) PROVE SubSeq(f, 1, n - 1) = g
    <3>1. ~(Len(g) + 1 < n)
      <4>1. ASSUME Len(g) + 1 < n PROVE FALSE
        <5>1. Len(g) + 1 \in 1..(n - 1)
          BY <1>0, <4>1
        <5> QED
          BY <1>3, <2>5, <5>1 DEF BrokenAfter
      <4> QED
        BY <4>1
    <3>2. n - 1 = Len(g)
      BY <1>0, <2>1, <3>1
    <3>3. \A i \in 1..Len(g) : SubSeq(f, 1, n - 1)[i] = g[i]
      BY <1>1, <2>2, <3>2
    <3>4. SubSeq(f, 1, n - 1) \in Seq(FileLines \cup Whole) /\ g \in Seq(FileLines \cup Whole)
      BY <1>0
    <3>5. Len(SubSeq(f, 1, n - 1)) = Len(g)
      BY <2>2, <3>2
    <3> DEFINE a == SubSeq(f, 1, n - 1)
    <3> HIDE DEF a
    <3> QED
      BY <3>3, <3>4, <3>5, SeqEqual DEF a
  <2> QED
    BY <1>3, <2>3, <2>4, <2>5
<1> QED
  BY <1>2, <1>3, GoodPrefixIs

-----------------------------------------------------------------------------
(* The invariant *)

LEMMA InitIInv == Init => IInv
<1> SUFFICES ASSUME Init PROVE IInv
  OBVIOUS
<1>1. TypeInv
  BY TypeInit
<1>2. <<>> \in Seq(Whole) /\ Chain(<<>>) /\ KeysGrow(<<>>, key) /\ Begins(<<>>, file)
  BY DEF Init, Chain, KeysGrow, Begins
<1>3. LogIs(<<>>)
  BY <1>2 DEF Init, LogIs, Records, LastHash
<1> QED
  BY <1>1, <1>2, <1>3 DEF IInv

LEMMA WriteStep ==
    ASSUME TypeInv, NEW g \in Seq(Whole), LogIs(g), NEW e \in Events, Write(e)
    PROVE  \E h \in Seq(Whole) : LogIs(h)'
<1>0. Record(e) \in FileLines
  <2>1. "whole" \in Forms /\ Torn(Record(e), "whole") = Record(e)
    BY DEF Forms, Torn
  <2>2. Record(e).form = "whole"
    BY DEF Record
  <2> QED
    BY <2>1, <2>2, RecordTyped, GarbageTyped
<1>1. CASE spoilt = "no"
  <2>1. file = g /\ sequence = Len(g) /\ prevHash = LastHash(g) /\ key \in Nat
    BY <1>1 DEF Write, LogIs, TypeInv
  <2>2. PICK h \in Seq(Whole) :
              /\ h = AppendBytes(g, Record(e))
              /\ Chain(h) /\ KeysGrow(h, key)
              /\ Records(h) = Records(g) \cup {e}
              /\ Len(h) = Len(g) + 1 /\ LastHash(h) = Hash(Record(e))
    BY <2>1, ChainGrows DEF LogIs
  <2>3. file' = h /\ Begins(h, h)
    BY <2>1, <2>2 DEF Write, Begins
  <2>4. LogIs(h)'
    BY <1>1, <2>1, <2>2, <2>3 DEF Write, LogIs, SecuredWith
  <2> QED
    BY <2>4
<1>2. CASE spoilt # "no"
  <2>1. /\ Begins(g, file')
        /\ BrokenAfter(g, file) => BrokenAfter(g, file')
    BY <1>0, BytesKeepChain DEF Write, LogIs, TypeInv
  <2>2. LogIs(g)'
    BY <1>2, <2>1 DEF Write, LogIs, SecuredWith
  <2> QED
    BY <2>2
<1> QED
  BY <1>1, <1>2

LEMMA WriteErrorStep ==
    ASSUME TypeInv, NEW g \in Seq(Whole), LogIs(g), NEW e \in Events,
           NEW form \in ErrorForms, WriteError(e, form)
    PROVE  LogIs(g)'
<1>0. /\ file \in Seq(FileLines) /\ form \in Forms
      /\ file' = AppendBytes(file, Torn(Record(e), form))
  BY DEF TypeInv, WriteError
<1>1. /\ Begins(g, file')
      /\ BrokenAfter(g, file) => BrokenAfter(g, file')
  BY <1>0, RecordTyped, BytesKeepChain DEF LogIs
<1>2. CASE form = "nothing"
  <2>1. Torn(Record(e), form) = Garbage("nothing", FALSE)
    BY <1>2 DEF Torn
  <2>2. file' = file /\ spoilt' = spoilt
    BY <1>2, <2>1, GarbageTyped DEF WriteError, AppendBytes, SpoiltBy
  <2> QED
    BY <2>2 DEF WriteError, LogIs
<1>3. CASE form \in {"whole", "no_newline"}
  <2>1. spoilt' = "for_good"
    BY <1>3 DEF WriteError, SpoiltBy
  <2> QED
    BY <1>1, <2>1 DEF WriteError, LogIs
<1>4. CASE form \in {"junk", "badutf8"}
  <2>1. spoilt' = IF spoilt = "for_good" THEN spoilt ELSE "until_restart"
    BY <1>4 DEF WriteError, SpoiltBy
  <2>2. CASE spoilt = "no"
    <3>1. file = g
      BY <2>2 DEF WriteError, LogIs
    <3>2. BrokenAfter(g, file')
      BY <1>0, <1>4, <3>1, FragmentBreaks
    <3> QED
      BY <1>1, <2>1, <2>2, <3>2 DEF WriteError, LogIs
  <2>3. CASE spoilt # "no"
    BY <1>1, <2>1, <2>3 DEF WriteError, LogIs, TypeInv
  <2> QED
    BY <2>2, <2>3
<1> QED
  BY <1>0, <1>2, <1>3, <1>4 DEF Forms

LEMMA CrashInWriteStep ==
    ASSUME TypeInv, NEW g \in Seq(Whole), LogIs(g), NEW e \in Events,
           NEW form \in CrashForms, CrashInWrite(e, form)
    PROVE  \E h \in Seq(Whole) : LogIs(h)'
<1>0. /\ file \in Seq(FileLines) /\ form \in Forms
      /\ file' = AppendBytes(file, Torn(Record(e), form))
  BY DEF TypeInv, CrashInWrite
<1>1. /\ Begins(g, file')
      /\ BrokenAfter(g, file) => BrokenAfter(g, file')
  BY <1>0, RecordTyped, BytesKeepChain DEF LogIs
<1>2. CASE form = "no_newline"
  <2>1. LogIs(g)'
    BY <1>1, <1>2 DEF CrashInWrite, LogIs
  <2> QED
    BY <2>1
<1>3. CASE form # "no_newline" /\ spoilt # "no"
  <2>1. LogIs(g)'
    BY <1>1, <1>3 DEF CrashInWrite, LogIs
  <2> QED
    BY <2>1
<1>4. CASE form # "no_newline" /\ spoilt = "no"
  <2>1. file = g /\ sequence = Len(g) /\ prevHash = LastHash(g) /\ key \in Nat
    BY <1>4 DEF CrashInWrite, LogIs, TypeInv
  <2>2. CASE form = "nothing"
    <3>1. Torn(Record(e), form) = Garbage("nothing", FALSE)
      BY <2>2 DEF Torn
    <3>2. file' = file
      BY <1>0, <3>1, GarbageTyped DEF AppendBytes
    <3>3. LogIs(g)'
      BY <1>1, <1>4, <2>1, <2>2, <3>2 DEF CrashInWrite, LogIs
    <3> QED
      BY <3>3
  <2>3. CASE form \in {"junk", "badutf8"}
    <3>1. BrokenAfter(g, file')
      BY <1>0, <2>1, <2>3, FragmentBreaks
    <3>2. LogIs(g)'
      BY <1>1, <1>4, <3>1 DEF CrashInWrite, LogIs
    <3> QED
      BY <3>2
  <2>4. CASE form = "whole"
    <3>1. PICK h \in Seq(Whole) :
                /\ h = AppendBytes(g, Record(e))
                /\ Chain(h) /\ KeysGrow(h, key)
                /\ Records(h) = Records(g) \cup {e}
      BY <2>1, ChainGrows DEF LogIs
    <3>2. file' = h /\ Begins(h, h)
      BY <1>0, <2>1, <2>4, <3>1 DEF Torn, Begins
    <3>3. LogIs(h)'
      BY <1>4, <3>1, <3>2 DEF CrashInWrite, LogIs
    <3> QED
      BY <3>3
  <2> QED
    BY <1>0, <1>4, <2>2, <2>3, <2>4 DEF Forms
<1> QED
  BY <1>2, <1>3, <1>4

LEMMA BootStep ==
    ASSUME TypeInv, NEW g \in Seq(Whole), LogIs(g), Boot
    PROVE  LogIs(g)'
<1>1. /\ Begins(g, GoodPrefix(file))
      /\ file = g \/ BrokenAfter(g, file) => GoodPrefix(file) = g
  BY RecoveryKeepsChain DEF LogIs, TypeInv
<1>2. NextSequence(g) = Len(g)
  <2>1. CASE g = <<>>
    BY <2>1 DEF NextSequence
  <2>2. CASE g # <<>>
    <3>1. Len(g) \in 1..Len(g) /\ Len(g) \in Nat
      BY <2>2
    <3>2. g[Len(g)].seq = Len(g) - 1
      BY <3>1 DEF LogIs, Chain, Linked
    <3> QED
      BY <2>2, <3>1, <3>2 DEF NextSequence, Last
  <2> QED
    BY <2>1, <2>2
<1>3. KeysGrow(g, key')
  <2>1. key \in Nat /\ key' \in Nat /\ key <= key'
    BY DEF Boot, TypeInv
  <2>2. ASSUME NEW i \in 1..Len(g) PROVE g[i].key <= key'
    <3>1. g[i].key \in Nat /\ g[i].key <= key
      BY WholeLine DEF LogIs, KeysGrow
    <3> QED
      BY <2>1, <3>1
  <2> QED
    BY <2>2 DEF LogIs, KeysGrow
<1>4. CASE spoilt = "for_good"
  BY <1>1, <1>3, <1>4 DEF Boot, LogIs
<1>5. CASE spoilt # "for_good"
  <2>1. GoodPrefix(file) = g
    BY <1>1, <1>5 DEF LogIs, TypeInv
  <2>2. spoilt' = "no"
    BY <1>5 DEF Boot, TypeInv
  <2> QED
    BY <1>1, <1>2, <1>3, <2>1, <2>2 DEF Boot, LogIs
<1> QED
  BY <1>4, <1>5

LEMMA NextIInv == IInv /\ [Next]_vars => IInv'
<1> SUFFICES ASSUME IInv, [Next]_vars PROVE IInv'
  OBVIOUS
<1>1. PICK g \in Seq(Whole) : LogIs(g)
  BY DEF IInv
<1>2. TypeInv /\ TypeInv'
  BY TypeStep DEF IInv
<1>3. CASE UNCHANGED vars
  <2>1. LogIs(g)'
    BY <1>1, <1>3 DEF vars, LogIs
  <2> QED
    BY <1>2, <2>1 DEF IInv
<1>4. CASE \E e \in Events : Write(e)
  BY <1>1, <1>2, <1>4, WriteStep DEF IInv
<1>5. CASE \E e \in Events, form \in ErrorForms : WriteError(e, form)
  BY <1>1, <1>2, <1>5, WriteErrorStep DEF IInv
<1>6. CASE \E e \in Events, form \in CrashForms : CrashInWrite(e, form)
  BY <1>1, <1>2, <1>6, CrashInWriteStep DEF IInv
<1>7. CASE Crash
  <2>1. LogIs(g)'
    BY <1>1, <1>7 DEF Crash, LogIs
  <2> QED
    BY <1>2, <2>1 DEF IInv
<1>8. CASE Boot
  BY <1>1, <1>2, <1>8, BootStep DEF IInv
<1> QED
  BY <1>3, <1>4, <1>5, <1>6, <1>7, <1>8 DEF Next

\* The invariant above holds of every reachable state.
THEOREM Invariance == Spec => []IInv
<1> QED
  BY InitIInv, NextIInv, PTL DEF Spec

\* schema.py:3, as far as the code keeps it: what a write() that returned on a
\* file nothing had spoilt put there stays in the unbroken chain, through torn
\* lines, failed writes, restarts, new keys and the truncation of recovery.
THEOREM AckedForever == Spec => []AckedStaysInChain
<1>1. ASSUME IInv PROVE AckedStaysInChain
  <2>1. PICK g \in Seq(Whole) : LogIs(g)
    BY <1>1 DEF IInv
  <2>0. Len(g) \in Nat /\ Len(file) \in Nat
    BY <1>1 DEF IInv, TypeInv
  <2>2. ASSUME NEW i \in 1..Len(g) PROVE SoundLine(file, i)
    <3>1. g[i].form = "whole" /\ g[i].nl = TRUE
      BY WholeLine
    <3>2. g[i].prev = IF i = 1 THEN <<>> ELSE Hash(g[i - 1])
      BY <2>1 DEF LogIs, Chain, Linked
    <3>3. i # 1 => i - 1 \in 1..Len(g)
      BY <2>0
    <3>4. file[i] = g[i] /\ (i # 1 => file[i - 1] = g[i - 1])
      BY <2>1, <3>3 DEF LogIs, Begins
    <3> QED
      BY <3>1, <3>2, <3>4 DEF SoundLine
  <2>3. \A n \in 1..Len(g) : n \in Sound(file) /\ file[n] = g[n]
    BY <2>0, <2>1, <2>2 DEF Sound, LogIs, Begins
  <2> QED
    BY <2>1, <2>3 DEF AckedStaysInChain, LogIs, Records
<1> QED
  BY <1>1, Invariance, PTL

\* While nothing has spoilt the file's end, the writer's counter and the numbers
\* in the file agree with the positions of the lines, after any number of
\* crashes and recoveries.
THEOREM NumberingSurvives == Spec => []NumberedByPosition
<1>1. ASSUME IInv, up, spoilt = "no"
      PROVE  sequence = Len(file) /\ \A i \in DOMAIN file : file[i].seq = i - 1
  <2>1. PICK g \in Seq(Whole) : LogIs(g)
    BY <1>1 DEF IInv
  <2>2. file = g /\ sequence = Len(g) /\ Chain(g)
    BY <1>1, <2>1 DEF LogIs
  <2> QED
    BY <2>2 DEF Chain, Linked
<1>2. IInv => NumberedByPosition
  BY <1>1 DEF NumberedByPosition
<1> QED
  BY <1>2, Invariance, PTL

\* The walk of a chain verifies all of it with the key it begins with, if that
\* is the key of this boot, and otherwise no line of it.
LEMMA WalkOfChain ==
    ASSUME NEW g, Chain(g), KeysGrow(g, key), key \in Nat
    PROVE  Walk(g) = IF g = <<>> \/ g[1].key = key
                     THEN [hash |-> LastHash(g), failed |-> 0]
                     ELSE [hash |-> <<>>, failed |-> Len(g)]
<1>0. g \in Seq(Whole) /\ Len(g) \in Nat
  BY DEF Chain
<1>1. CASE g = <<>> \/ g[1].key = key
  <2> DEFINE hash(n) == IF n = 0 THEN <<>> ELSE Hash(g[n])
             w == [n \in 0..Len(g) |-> [hash |-> hash(n), failed |-> 0]]
  <2>1. ASSUME NEW n \in 0..Len(g)
        PROVE  w[n] = IF n = 0 THEN NothingRead ELSE WalkLine(w[n - 1], g[n])
    <3>1. CASE n = 0
      BY <3>1 DEF NothingRead
    <3>2. CASE n # 0
      <4>1. n \in 1..Len(g) /\ 1 \in 1..Len(g) /\ 1 <= n /\ g # <<>>
        BY <1>0, <3>2
      <4>2. g[n].form = "whole" /\ g[n].key \in Nat
        BY <1>0, <4>1, WholeLine
      <4>3. g[n].key = key
        <5>1. g[1].key <= g[n].key /\ g[n].key <= key
          BY <4>1 DEF KeysGrow
        <5> QED
          BY <1>1, <4>1, <4>2, <5>1
      <4>4. w[n - 1] = [hash |-> IF n = 1 THEN <<>> ELSE Hash(g[n - 1]), failed |-> 0]
        BY <1>0, <4>1
      <4>5. g[n].prev = IF n = 1 THEN <<>> ELSE Hash(g[n - 1])
        BY <4>1 DEF Chain, Linked
      <4>6. w[n] = [hash |-> Hash(g[n]), failed |-> 0]
        BY <4>1
      <4> HIDE DEF w
      <4> QED
        BY <3>2, <4>2, <4>3, <4>4, <4>5, <4>6 DEF WalkLine, LineVerifies
    <3> QED
      BY <3>1, <3>2
  <2>2. w = [n \in 0..Len(g) |-> IF n = 0 THEN NothingRead ELSE WalkLine(w[n - 1], g[n])]
    BY <2>1
  <2>3. w[Len(g)] = [hash |-> hash(Len(g)), failed |-> 0]
    BY <1>0
  <2>4. hash(Len(g)) = LastHash(g)
    BY <1>0 DEF LastHash, Last
  <2> HIDE DEF w, hash
  <2>5. Walk(g) = [hash |-> LastHash(g), failed |-> 0]
    BY <1>0, <2>2, <2>3, <2>4, WalkUnfolds, Zenon
  <2> QED
    BY <1>1, <2>5
<1>2. CASE ~(g = <<>> \/ g[1].key = key)
  <2> DEFINE w == [n \in 0..Len(g) |-> [hash |-> <<>>, failed |-> n]]
  <2>1. ASSUME NEW n \in 0..Len(g)
        PROVE  w[n] = IF n = 0 THEN NothingRead ELSE WalkLine(w[n - 1], g[n])
    <3>1. CASE n = 0
      BY <3>1 DEF NothingRead
    <3>2. CASE n # 0
      <4>1. n \in 1..Len(g) /\ (n # 1 => n - 1 \in 1..Len(g))
        BY <1>0, <3>2
      <4>2. ~LineVerifies(g[n], <<>>)
        <5>1. CASE n = 1
          BY <1>2, <5>1 DEF LineVerifies
        <5>2. CASE n # 1
          <6>1. g[n].prev = Hash(g[n - 1])
            BY <4>1, <5>2 DEF Chain, Linked
          <6>2. Len(Hash(g[n - 1])) = n - 1
            BY <4>1, <5>2, HashLength
          <6>3. Hash(g[n - 1]) # <<>>
            BY <1>0, <4>1, <5>2, <6>2
          <6> QED
            BY <6>1, <6>3 DEF LineVerifies
        <5> QED
          BY <5>1, <5>2
      <4>3. w[n - 1] = [hash |-> <<>>, failed |-> n - 1]
        BY <1>0, <4>1
      <4>4. w[n] = [hash |-> <<>>, failed |-> n]
        BY <4>1
      <4> HIDE DEF w
      <4> QED
        BY <3>2, <4>1, <4>2, <4>3, <4>4 DEF WalkLine
    <3> QED
      BY <3>1, <3>2
  <2>2. w = [n \in 0..Len(g) |-> IF n = 0 THEN NothingRead ELSE WalkLine(w[n - 1], g[n])]
    BY <2>1
  <2>3. w[Len(g)] = [hash |-> <<>>, failed |-> Len(g)]
    BY <1>0
  <2> HIDE DEF w
  <2>4. Walk(g) = [hash |-> <<>>, failed |-> Len(g)]
    BY <1>0, <2>2, <2>3, WalkUnfolds, Zenon
  <2> QED
    BY <1>2, <2>4
<1> QED
  BY <1>1, <1>2

\* writer.py:180: on a file nothing has spoilt, verify_all and tail() find every
\* line, if the file was begun with the key of this boot, and none otherwise.
THEOREM LogAlwaysVerifies == Spec => []LogVerifies
<1>1. ASSUME IInv, up, spoilt = "no"
      PROVE  IF file = <<>> \/ file[1].key = key
             THEN Walk(file).failed = 0 /\ Len(Verified(file)) = Len(file)
             ELSE Walk(file).failed = Len(file) /\ Verified(file) = <<>>
  <2>1. PICK g \in Seq(Whole) : LogIs(g)
    BY <1>1 DEF IInv
  <2>2. file = g /\ Chain(g) /\ KeysGrow(g, key) /\ key \in Nat
    BY <1>1, <2>1 DEF LogIs, IInv, TypeInv
  <2>3. CASE g = <<>> \/ g[1].key = key
    <3>1. Walk(g).hash = LastHash(g) /\ Walk(g).failed = 0
      BY <2>2, <2>3, WalkOfChain
    <3>2. LastHash(g) \in Hashes /\ Len(LastHash(g)) = Len(g)
      <4>1. CASE g = <<>>
        BY <4>1 DEF LastHash, Hashes
      <4>2. CASE g # <<>>
        <5>1. Len(g) \in 1..Len(g)
          BY <4>2
        <5> QED
          BY <2>2, <4>2, <5>1, HashLength, LastHashType DEF LastHash, Last
      <4> QED
        BY <4>1, <4>2
    <3>3. Len(Verified(g)) = Len(g)
      <4>1. Verified(g) = [i \in DOMAIN LastHash(g) |-> LastHash(g)[i][2]]
        BY <3>1 DEF Verified
      <4>2. DOMAIN LastHash(g) = 1..Len(g) /\ Len(g) \in Nat
        BY <3>2 DEF Hashes
      <4> QED
        BY <4>1, <4>2
    <3> QED
      BY <2>2, <2>3, <3>1, <3>3
  <2>4. CASE ~(g = <<>> \/ g[1].key = key)
    <3>1. Walk(g).hash = <<>> /\ Walk(g).failed = Len(g)
      BY <2>2, <2>4, WalkOfChain
    <3>2. Verified(g) = <<>>
      BY <3>1 DEF Verified
    <3> QED
      BY <2>2, <2>4, <3>1, <3>2
  <2> QED
    BY <2>3, <2>4
<1>2. IInv => LogVerifies
  BY <1>1 DEF LogVerifies
<1> QED
  BY <1>2, Invariance, PTL

-----------------------------------------------------------------------------
(* The unbroken chain is a log that only grows, whatever fails *)

\* The records in the file were handed to write().
Tried(f) == \A i \in 1..Len(f) : f[i].form = "whole" => f[i].event \in tried

\* Files that agree up to a line at which neither is sound hold the same log.
LEMMA SoundKeeps ==
    ASSUME NEW f, NEW h, Len(f) \in Nat, Len(h) \in Nat,
           NEW n \in Nat, n <= Len(f), n <= Len(h), \A i \in 1..n : h[i] = f[i],
           n < Len(f) => ~SoundLine(f, n + 1), n < Len(h) => ~SoundLine(h, n + 1)
    PROVE  Sound(h) = Sound(f) /\ SoundEvents(h) = SoundEvents(f)
<1>1. \A i \in 1..n : SoundLine(h, i) <=> SoundLine(f, i)
  <2>1. ASSUME NEW i \in 1..n PROVE SoundLine(h, i) <=> SoundLine(f, i)
    <3>1. h[i] = f[i] /\ (i # 1 => h[i - 1] = f[i - 1])
      OBVIOUS
    <3> QED
      BY <3>1 DEF SoundLine
  <2> QED
    BY <2>1
<1>2. Sound(f) = {k \in 1..n : \A i \in 1..k : SoundLine(f, i)}
  <2>1. ASSUME NEW k \in 1..Len(f), \A i \in 1..k : SoundLine(f, i) PROVE k \in 1..n
    <3>1. ~(n < k)
      BY <2>1
    <3> QED
      BY <3>1
  <2> QED
    BY <2>1 DEF Sound
<1>3. Sound(h) = {k \in 1..n : \A i \in 1..k : SoundLine(h, i)}
  <2>1. ASSUME NEW k \in 1..Len(h), \A i \in 1..k : SoundLine(h, i) PROVE k \in 1..n
    <3>1. ~(n < k)
      BY <2>1
    <3> QED
      BY <3>1
  <2> QED
    BY <2>1 DEF Sound
<1>4. Sound(h) = Sound(f)
  BY <1>1, <1>2, <1>3
<1>5. \A k \in Sound(f) : h[k] = f[k]
  BY <1>2
<1> QED
  BY <1>4, <1>5 DEF SoundEvents

\* One more line leaves the log alone, or adds its event to it.
LEMMA SoundGrows ==
    ASSUME NEW f \in Seq(FileLines), NEW x \in FileLines, NEW h,
           Follows(f, x, h), SoundEvents(h) # SoundEvents(f)
    PROVE  /\ x.form = "whole"
           /\ SoundEvents(h) = Append(SoundEvents(f), x.event)
<1>0. /\ Len(f) \in Nat /\ Len(h) \in Nat /\ Len(h) = Len(f) + 1
      /\ h[Len(f) + 1] = x /\ \A i \in 1..Len(f) : h[i] = f[i]
  BY DEF Follows
<1>1. \A i \in 1..Len(f) : SoundLine(f, i)
  <2>1. ASSUME NEW m \in 1..Len(f), ~SoundLine(f, m) PROVE FALSE
    <3>1. PICK n \in Nat : m = n + 1 /\ n < Len(f)
      BY <1>0
    <3>2. ~SoundLine(h, n + 1)
      <4>1. h[m] = f[m] /\ (m # 1 => h[m - 1] = f[m - 1])
        BY <1>0
      <4> QED
        BY <2>1, <3>1, <4>1 DEF SoundLine
    <3>3. SoundEvents(h) = SoundEvents(f)
      BY <1>0, <2>1, <3>1, <3>2, SoundKeeps
    <3> QED
      BY <3>3
  <2> QED
    BY <2>1
<1>2. SoundLine(h, Len(f) + 1)
  <2>1. ASSUME ~SoundLine(h, Len(f) + 1) PROVE SoundEvents(h) = SoundEvents(f)
    BY <1>0, <2>1, SoundKeeps
  <2> QED
    BY <2>1
<1>3. \A i \in 1..(Len(f) + 1) : SoundLine(h, i)
  <2>1. ASSUME NEW i \in 1..Len(f) PROVE SoundLine(h, i)
    <3>1. h[i] = f[i] /\ (i # 1 => h[i - 1] = f[i - 1])
      BY <1>0
    <3> QED
      BY <1>1, <3>1 DEF SoundLine
  <2> QED
    BY <1>0, <1>2, <2>1
<1>4. Sound(f) = 1..Len(f) /\ Sound(h) = 1..(Len(f) + 1)
  BY <1>0, <1>1, <1>3 DEF Sound
<1>5. x.form = "whole" /\ x.event \in Events /\ \A i \in 1..Len(f) : f[i].event \in Events
  <2>1. x.form = "whole" /\ \A i \in 1..Len(f) : f[i].form = "whole"
    BY <1>0, <1>1, <1>2 DEF SoundLine
  <2>2. \A i \in 1..Len(f) : f[i] \in FileLines
    OBVIOUS
  <2> QED
    BY <2>1, <2>2, LineFields
<1> DEFINE a == Append(SoundEvents(f), x.event)
           b == SoundEvents(h)
<1>6. SoundEvents(f) = [i \in 1..Len(f) |-> f[i].event]
      /\ b = [i \in 1..(Len(f) + 1) |-> h[i].event]
  BY <1>4 DEF SoundEvents
<1>7. /\ SoundEvents(f) \in Seq(Events) /\ Len(SoundEvents(f)) = Len(f)
      /\ \A i \in 1..Len(f) : SoundEvents(f)[i] = f[i].event
  BY <1>0, <1>5, <1>6
<1>8. /\ a \in Seq(Events) /\ Len(a) = Len(f) + 1 /\ a[Len(f) + 1] = x.event
      /\ \A i \in 1..Len(f) : a[i] = f[i].event
  BY <1>0, <1>5, <1>7
<1>9. b \in Seq(Events) /\ Len(b) = Len(f) + 1
  <2>1. \A i \in 1..(Len(f) + 1) : h[i].event \in Events
    BY <1>0, <1>5
  <2> QED
    BY <1>0, <1>6, <2>1
<1>10. \A i \in 1..(Len(f) + 1) : b[i] = h[i].event
  BY <1>6
<1> HIDE DEF a, b
<1>11. \A i \in 1..(Len(f) + 1) : b[i] = a[i]
  BY <1>0, <1>8, <1>10
<1>12. b = a
  BY <1>8, <1>9, <1>11, SeqEqual
<1> QED
  BY <1>5, <1>12 DEF a, b

\* What an attempt to write e puts in the file adds e to the log, or nothing.
LEMMA BytesGrowLog ==
    ASSUME TypeInv, Tried(file), NEW e \in Events \ tried, NEW form \in Forms,
           file' = AppendBytes(file, Torn(Record(e), form)), tried' = tried \cup {e}
    PROVE  /\ Tried(file)'
           /\ \/ SoundEvents(file)' = SoundEvents(file)
              \/ Chained!Record(e)
<1> DEFINE f == file
           h == file'
<1> PICK x : x = Torn(Record(e), form)
  OBVIOUS
<1>0. f \in Seq(FileLines) /\ Len(f) \in Nat /\ (x \in FileLines \/ x = Garbage("nothing", FALSE))
  <2>1. f \in Seq(FileLines) /\ Len(f) \in Nat
    BY DEF TypeInv
  <2> QED
    BY <2>1, RecordTyped
<1>1. x.form = "whole" => x.event = e
  BY GarbageTyped DEF Torn, Record, Forms
<1>2. CASE h = f
  BY <1>2 DEF Tried
<1>3. CASE Follows(f, x, h)
  <2>1. Tried(file)'
    BY <1>0, <1>1, <1>3 DEF Tried, Follows
  <2>2. ASSUME SoundEvents(h) # SoundEvents(f) PROVE Chained!Record(e)
    <3>0. x \in FileLines
      BY <1>3 DEF Follows
    <3>1. x.form = "whole" /\ SoundEvents(h) = Append(SoundEvents(f), x.event)
      BY <1>0, <1>3, <2>2, <3>0, SoundGrows, Zenon
    <3>2. \A i \in DOMAIN SoundEvents(f) : SoundEvents(f)[i] # e
      <4>1. ASSUME NEW i \in Sound(f) PROVE f[i].event # e
        <5>1. i \in 1..Len(f) /\ SoundLine(f, i)
          BY <1>0 DEF Sound
        <5> QED
          BY <5>1 DEF SoundLine, Tried
      <4> QED
        BY <4>1 DEF SoundEvents
    <3> QED
      BY <1>1, <3>1, <3>2 DEF Chained!Record, SoundEvents, Sound, SoundLine
  <2> QED
    BY <2>1, <2>2
<1>4. CASE Joins(f, h)
  <2> USE DEF Joins
  <2>1. Tried(file)'
    <3>1. ASSUME NEW i \in 1..Len(h), h[i].form = "whole" PROVE h[i].event \in tried'
      <4>1. i # Len(f) /\ i \in 1..Len(f)
        BY <1>4, <3>1
      <4>2. i \in 1..(Len(f) - 1)
        BY <1>0, <4>1
      <4> QED
        BY <1>4, <3>1, <4>1, <4>2 DEF Tried
    <3> QED
      BY <3>1 DEF Tried
  <2>2. PICK n \in Nat : Len(f) = n + 1
    <3>1. Len(f) - 1 \in Nat /\ Len(f) = (Len(f) - 1) + 1
      BY <1>0, <1>4
    <3> QED
      BY <3>1, Zenon
  <2>3. ~SoundLine(f, n + 1) /\ ~SoundLine(h, n + 1)
    BY <1>4, <2>2 DEF SoundLine
  <2>4. SoundEvents(h) = SoundEvents(f)
    <3>1. n <= Len(f) /\ n <= Len(h) /\ Len(h) \in Nat /\ \A i \in 1..n : h[i] = f[i]
      BY <1>0, <1>4, <2>2
    <3> QED
      BY <1>0, <2>3, <3>1, SoundKeeps
  <2> QED
    BY <2>1, <2>4 DEF SoundEvents, Sound, SoundLine
<1> QED
  BY <1>0, <1>2, <1>3, <1>4, AppendBytesIs

\* Recovery cuts nothing off the log.
LEMMA RecoveryKeepsLog ==
    ASSUME NEW f \in Seq(FileLines), Tried(f), NEW h, h = GoodPrefix(f)
    PROVE  Tried(h) /\ SoundEvents(h) = SoundEvents(f)
<1>1. CASE h = f
  BY <1>1
<1>2. ASSUME NEW n \in 1..Len(f), h = SubSeq(f, 1, n - 1), f[n].form # "whole"
      PROVE  Tried(h) /\ SoundEvents(h) = SoundEvents(f)
  <2>1. PICK m \in Nat : n = m + 1 /\ m < Len(f) /\ m = n - 1
    OBVIOUS
  <2>2. Len(h) = m /\ \A i \in 1..m : h[i] = f[i]
    BY <1>2, <2>1
  <2>3. ~SoundLine(f, m + 1)
    BY <1>2, <2>1 DEF SoundLine
  <2>4. SoundEvents(h) = SoundEvents(f)
    <3>1. Len(f) \in Nat /\ m <= Len(f)
      BY <2>1
    <3> QED
      BY <2>2, <2>3, <3>1, SoundKeeps
  <2> QED
    BY <2>1, <2>2, <2>4 DEF Tried
<1> QED
  BY <1>1, <1>2, GoodPrefixIs

\* The unbroken chain only grows, event by event, and holds no event twice,
\* through torn lines, failed writes, restarts and truncations: AuditLog
\* implements EventLog.
THEOREM OnlyAppends == Spec => AppendOnly
<1> DEFINE Inv == TypeInv /\ Tried(file)
<1>1. Init => Inv /\ Chained!Init
  <2> SUFFICES ASSUME Init PROVE Inv /\ Chained!Init
    OBVIOUS
  <2>1. file = <<>> /\ Sound(file) = {}
    BY DEF Init, Sound
  <2>2. SoundEvents(file) = <<>>
    BY <2>1 DEF SoundEvents
  <2> QED
    BY <2>1, <2>2, TypeInit DEF Tried, Chained!Init
<1>2. ASSUME Inv, [Next]_vars
      PROVE  Inv' /\ [Chained!Next]_(SoundEvents(file))
  <2>0. TypeInv' /\ file \in Seq(FileLines)
    BY <1>2, TypeStep DEF TypeInv
  <2>1. CASE file' = file /\ tried' = tried
    BY <1>2, <2>0, <2>1 DEF Tried, SoundEvents, Sound, SoundLine
  <2>2. ASSUME NEW e \in Events \ tried, NEW form \in Forms,
               file' = AppendBytes(file, Torn(Record(e), form)), tried' = tried \cup {e}
        PROVE  Inv' /\ [Chained!Next]_(SoundEvents(file))
    <3>1. /\ Tried(file)'
          /\ \/ SoundEvents(file)' = SoundEvents(file)
             \/ Chained!Record(e)
      BY <1>2, <2>2, BytesGrowLog
    <3> QED
      BY <2>0, <3>1 DEF Chained!Next
  <2>3. ASSUME NEW e \in Events, Write(e) PROVE Inv' /\ [Chained!Next]_(SoundEvents(file))
    <3>1. "whole" \in Forms /\ Torn(Record(e), "whole") = Record(e)
      BY DEF Forms, Torn
    <3> QED
      BY <2>2, <2>3, <3>1 DEF Write
  <2>4. ASSUME NEW e \in Events, NEW form \in ErrorForms, WriteError(e, form)
        PROVE  Inv' /\ [Chained!Next]_(SoundEvents(file))
    BY <2>2, <2>4 DEF WriteError
  <2>5. ASSUME NEW e \in Events, NEW form \in CrashForms, CrashInWrite(e, form)
        PROVE  Inv' /\ [Chained!Next]_(SoundEvents(file))
    BY <2>2, <2>5 DEF CrashInWrite
  <2>6. CASE Boot
    <3>1. file' = GoodPrefix(file) /\ tried' = tried
      BY <2>6 DEF Boot
    <3>2. Tried(file') /\ SoundEvents(file') = SoundEvents(file)
      BY <1>2, <2>0, <3>1, RecoveryKeepsLog
    <3> QED
      BY <2>0, <3>1, <3>2 DEF Tried, SoundEvents, Sound, SoundLine
  <2>7. CASE Crash \/ UNCHANGED vars
    BY <2>1, <2>7 DEF Crash, vars
  <2> QED
    BY <1>2, <2>3, <2>4, <2>5, <2>6, <2>7 DEF Next
<1> QED
  BY <1>1, <1>2, PTL DEF Spec, AppendOnly, Chained!Spec

=============================================================================
