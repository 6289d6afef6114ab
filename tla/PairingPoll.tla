----------------------------- MODULE PairingPoll -----------------------------
(***************************************************************************)
(* The agents' side of pairing: each agent polls                           *)
(* GET /agent/session/{pairing_id} (agent_session_status, web/server.py)   *)
(* until the answer is no longer "pending", as the client loop of the      *)
(* README does.  The handler runs in a thread of FastAPI's pool.  It takes *)
(* the manager's lock only to look the PairingRequest up, and then reads   *)
(* the fields of the shared object twice: once for "approved with a        *)
(* token", and again for the status it answers otherwise.  The dashboard's *)
(* approval may come between the two reads.                                *)
(***************************************************************************)
EXTENDS Sessions

VARIABLES
    poll,       \* poll[p]: "idle", "reading" (between the reads), "left"
    answer      \* answer[p]: the answer p's agent left with, [status, token]

pollVars == <<poll, answer>>
allVars == <<vars, pollVars>>

\* Type invariant.
PollTypeOK ==
    /\ TypeOK
    /\ poll \in [Pairings -> {"idle", "reading", "left"}]
    /\ answer \in [Pairings -> [status : Statuses, token : Tokens \cup {None}]]

PollInit ==
    /\ Init
    /\ poll = [p \in Pairings |-> "idle"]
    /\ answer = [p \in Pairings |-> [status |-> "absent", token |-> None]]

\* The agent leaves with the answer, unless it is "pending": then it drops the
\* answer and polls again.
Answer(p, st, t) ==
    \/ /\ st # "pending"
       /\ answer' = [answer EXCEPT ![p] = [status |-> st, token |-> t]]
       /\ poll' = [poll EXCEPT ![p] = "left"]
    \/ /\ st = "pending"
       /\ poll' = [poll EXCEPT ![p] = "idle"]
       /\ UNCHANGED answer

\* First read: approved, and the token is there.
PollApproved(p) ==
    /\ poll[p] = "idle"
    /\ status[p] = "approved" /\ minted[p] # None
    /\ Answer(p, "approved", minted[p])
    /\ UNCHANGED vars

\* First read: not so.
PollNotApproved(p) ==
    /\ poll[p] = "idle"
    /\ status[p] # "absent"
    /\ ~(status[p] = "approved" /\ minted[p] # None)
    /\ poll' = [poll EXCEPT ![p] = "reading"]
    /\ UNCHANGED <<vars, answer>>

\* Second read: the status as it is now, and no token.
PollReread(p) ==
    /\ poll[p] = "reading"
    /\ Answer(p, status[p], None)
    /\ UNCHANGED vars

PollNext ==
    \/ Next /\ UNCHANGED pollVars
    \/ \E p \in Pairings : PollApproved(p) \/ PollNotApproved(p) \/ PollReread(p)

PollSpec == PollInit /\ [][PollNext]_allVars /\ Fairness

-----------------------------------------------------------------------------
(* Properties *)

\* What an agent was told when it left the loop stays true: the status is
\* the one on record, and a token it got is the one minted for its pairing.
LastAnswerStands ==
    \A p \in Pairings : poll[p] = "left" =>
        /\ answer[p].status = status[p]
        /\ answer[p].token \in {minted[p], None}

\* server.py:657: "When approved, the response includes the session_token".
\* README.md:286 reads it from that answer.
ApprovedAnswerHasToken ==
    \A p \in Pairings :
        answer[p].status = "approved" => answer[p].token # None
=============================================================================
