------------------------- MODULE PairingPollProofs --------------------------
(***************************************************************************)
(* Theorems about PairingPoll for any number of agents that poll, any      *)
(* order of their two reads and the human's decisions, and any movement of *)
(* the wall clock.                                                         *)
(*                                                                         *)
(* The inductive invariant adds that an agent which has left was told a    *)
(* decision.  It could not be less: a status that is not decided may still *)
(* change, and the answer would be stale.                                  *)
(***************************************************************************)
EXTENDS PairingPoll, SessionsProofs

PollTypes ==
    /\ poll \in [Pairings -> {"idle", "reading", "left"}]
    /\ answer \in [Pairings -> [status : Statuses, token : Tokens \cup {None}]]

\* The handler reads pairings that exist, and agents leave with decisions.
LeavesDecided ==
    \A p \in Pairings :
        /\ poll[p] = "reading" => status[p] # "absent"
        /\ poll[p] = "left" => status[p] \in Decided

PollInv ==
    /\ IInv
    /\ PollTypes
    /\ LeavesDecided
    /\ LastAnswerStands

LEMMA PollInitInv == PollInit => PollInv
  BY InitIInv
  DEF PollInit, PollInv, PollTypes, LeavesDecided, LastAnswerStands, Statuses

\* A pairing that was requested stays.
LEMMA RequestedKept ==
    ASSUME IInv, Next, NEW q \in Pairings, status[q] # "absent"
    PROVE  status'[q] # "absent"
<1> USE DEF IInv, TypeOK
<1>1. CASE \E p \in Pairings : RequestPairing(p) \/ Deny(p)
  BY <1>1 DEF RequestPairing, Deny
<1>2. CASE \E p \in Pairings, ttl \in Ttls, t \in Tokens : Approve(p, ttl, t)
  BY <1>2 DEF Approve
<1>3. CASE ListPending
  BY <1>3 DEF ListPending
<1>4. CASE (\E t \in Tokens : Disconnect(t)) \/ CleanupExpired \/ Tick \/ StepBack
  BY <1>4 DEF Disconnect, CleanupExpired, Tick, StepBack, pairingVars
<1> QED
  BY <1>1, <1>2, <1>3, <1>4 DEF Next

\* Whatever the session manager does between the polls.
LEMMA ManagerInv ==
    ASSUME PollInv, Next, UNCHANGED pollVars
    PROVE  PollInv'
<1>1. IInv /\ IInv'
  BY NextIInv DEF PollInv
<1>2. PollTypes'
  BY DEF PollInv, PollTypes, pollVars
<1>3. LeavesDecided'
  BY <1>1, DecidedKept, RequestedKept DEF PollInv, LeavesDecided, pollVars
<1>4. LastAnswerStands'
  BY <1>1, DecidedKept DEF PollInv, LeavesDecided, LastAnswerStands, pollVars
<1> QED
  BY <1>1, <1>2, <1>3, <1>4 DEF PollInv

\* An agent told what is on record: it leaves if that is a decision.
LEMMA AnswerInv ==
    ASSUME PollInv, NEW p \in Pairings, NEW t \in {minted[p], None},
           status[p] # "absent", Answer(p, status[p], t), UNCHANGED vars
    PROVE  PollInv'
<1> USE DEF PollInv
<1>1. IInv'
  BY DEF IInv, TypeOK, RegistryAgrees, OneTokenPerApproval, vars
<1>2. status[p] \in Statuses /\ minted[p] \in Tokens \cup {None}
  BY DEF IInv, TypeOK
<1>3. UNCHANGED <<status, minted>>
  BY DEF vars
<1>4. CASE /\ status[p] # "pending"
           /\ answer' = [answer EXCEPT ![p] = [status |-> status[p], token |-> t]]
           /\ poll' = [poll EXCEPT ![p] = "left"]
  <2>1. PollTypes'
    BY <1>2, <1>4 DEF PollTypes
  <2>2. LeavesDecided'
    BY <1>2, <1>3, <1>4 DEF LeavesDecided, PollTypes, Statuses, Decided
  <2>3. LastAnswerStands'
    BY <1>3, <1>4 DEF LastAnswerStands, PollTypes
  <2> QED
    BY <1>1, <2>1, <2>2, <2>3
<1>5. CASE /\ status[p] = "pending"
           /\ poll' = [poll EXCEPT ![p] = "idle"]
           /\ UNCHANGED answer
  BY <1>1, <1>3, <1>5 DEF PollTypes, LeavesDecided, LastAnswerStands
<1> QED
  BY <1>4, <1>5 DEF Answer

LEMMA PollStepInv == PollInv /\ [PollNext]_allVars => PollInv'
<1> SUFFICES ASSUME PollInv, [PollNext]_allVars PROVE PollInv'
  OBVIOUS
<1>1. CASE Next /\ UNCHANGED pollVars
  BY <1>1, ManagerInv
<1>2. ASSUME NEW p \in Pairings, PollApproved(p) PROVE PollInv'
  BY <1>2, AnswerInv DEF PollApproved
<1>3. ASSUME NEW p \in Pairings, PollNotApproved(p) PROVE PollInv'
  <2>1. IInv' /\ UNCHANGED <<status, minted>>
    BY <1>3 DEF PollNotApproved, PollInv, IInv, TypeOK, RegistryAgrees,
                OneTokenPerApproval, vars
  <2> QED
    BY <1>3, <2>1
    DEF PollNotApproved, PollInv, PollTypes, LeavesDecided, LastAnswerStands
<1>4. ASSUME NEW p \in Pairings, PollReread(p) PROVE PollInv'
  <2>1. status[p] # "absent"
    BY <1>4 DEF PollReread, PollInv, LeavesDecided
  <2> QED
    BY <1>4, <2>1, AnswerInv DEF PollReread
<1>5. CASE UNCHANGED allVars
  BY <1>5 DEF allVars, vars, pollVars, PollInv, IInv, TypeOK, RegistryAgrees,
              OneTokenPerApproval, PollTypes, LeavesDecided, LastAnswerStands
<1> QED
  BY <1>1, <1>2, <1>3, <1>4, <1>5 DEF PollNext

LEMMA PollInvariance == PollSpec => []PollInv
  BY PollInitInv, PollStepInv, PTL DEF PollSpec

-----------------------------------------------------------------------------
\* Polling does nothing to the session manager, so that all that is proved of
\* Sessions holds with the agents polling, too.  (agent_session_status)
THEOREM PollingOnlyReads == PollSpec => Spec
<1>1. PollInit => Init
  BY DEF PollInit
<1>2. [PollNext]_allVars => [Next]_vars
  BY DEF PollNext, PollApproved, PollNotApproved, PollReread, allVars
<1> QED
  BY <1>1, <1>2, PTL DEF PollSpec, Spec

\* With the agents polling, the sessions are what SessionAccess promises.
COROLLARY PollingKeepsAccess == PollSpec => ImplementsAccess
  BY PollingOnlyReads, Refinement, PTL

\* Every variable of the manager and of the pollers keeps its type.
THEOREM PollTypeCorrect == PollSpec => []PollTypeOK
<1>1. PollInv => PollTypeOK
  BY DEF PollInv, PollTypes, IInv, PollTypeOK
<1> QED
  BY <1>1, PollInvariance, PTL

\* What an agent was told when it left stays true, although the handler reads
\* the shared pairing twice without the lock.  (agent_session_status)
THEOREM AnswersStand == PollSpec => []LastAnswerStands
<1>1. PollInv => LastAnswerStands
  BY DEF PollInv
<1> QED
  BY <1>1, PollInvariance, PTL

\* Agents that left with a token did not leave with the same one.
TokensNotShared ==
    \A p, q \in Pairings :
        poll[p] = "left" /\ poll[q] = "left" /\ answer[p].token = answer[q].token =>
            p = q \/ answer[p].token = None

\* No token is ever handed to the agents of two pairings.
\* (approve_pairing, agent_session_status)
THEOREM TokensGoToOneAgent == PollSpec => []TokensNotShared
<1>1. PollInv => TokensNotShared
  BY DEF PollInv, IInv, LastAnswerStands, OneTokenPerApproval, TokensNotShared
<1> QED
  BY <1>1, PollInvariance, PTL
=============================================================================
