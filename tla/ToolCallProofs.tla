--------------------------- MODULE ToolCallProofs ---------------------------
(***************************************************************************)
(* Theorems about ToolCall for any number of concurrent calls, tokens and  *)
(* pairings, any burst, and, except where it says so, any movement of the  *)
(* wall clock.                                                             *)
(*                                                                         *)
(* The inductive invariant says, for each place a call can be at, what it  *)
(* can have done by then (Shape) and what is known of its token (Holds).   *)
(***************************************************************************)
EXTENDS ToolCall, SessionsProofs

CallRecord ==
    [at : Places, token : Tokens \cup {None}, tool : Tools, outcome : Outcomes,
     answer : {"none", "ok", "error"} \cup Denials \cup Refusals,
     touched : BOOLEAN, charged : 0..1,
     audited : {<<>>} \cup {<<o>> : o \in Outcomes},
     revokedAtGate : BOOLEAN, usableAtGate : BOOLEAN]

\* Nothing but looking has been done for this call.
Untouched(r) == ~r.touched /\ r.audited = <<>>

\* What a call can have done when it is at r.at.
Shape(r) ==
    /\ r.at \in {"idle", "web", "dispatch", "gate"} =>
         ~r.revokedAtGate /\ Untouched(r) /\ r.charged = 0
    /\ r.at \in {"token", "limit"} =>
         ~r.revokedAtGate /\ Untouched(r) /\ r.charged = 0
    /\ r.at \in {"prepare", "bridge"} => ~r.revokedAtGate /\ Untouched(r)
    /\ r.at = "audit" => ~r.revokedAtGate /\ r.audited = <<>>
    /\ r.at = "reply" => ~r.revokedAtGate /\ r.audited = <<r.outcome>>
    /\ r.at \in {"audit", "reply"} => (r.outcome = "DENIED" => ~r.touched)
    /\ r.at # "answered" => r.answer = "none"
    /\ r.at = "answered" =>
         \/ /\ r.answer \in Denials \cup {"session_revoked", "bad_request"}
            /\ Untouched(r) /\ r.charged = 0
         \/ r.answer = "unexpected" /\ Untouched(r) /\ ~r.revokedAtGate
         \/ r.answer = "ok" /\ r.audited = <<"SUCCESS">> /\ ~r.revokedAtGate
         \/ r.answer = "error" /\ r.audited = <<"ERROR">> /\ ~r.revokedAtGate
         \/ /\ r.answer = "error" /\ r.audited = <<"DENIED">>
            /\ ~r.touched /\ ~r.revokedAtGate

CallIInv ==
    /\ CallTypeOK
    /\ \A c \in Calls : Shape(call[c])

Answers == {"none", "ok", "error"} \cup Denials \cup Refusals

USE DEF Denials, Refusals, Outcomes, Places, Tools

LEMMA InitCallIInv == CallInit => CallIInv
<1> SUFFICES ASSUME CallInit PROVE CallIInv
  OBVIOUS
<1>1. Idle \in CallRecord /\ Shape(Idle)
  BY DEF Idle, CallRecord, Shape, Untouched
<1>2. call \in [Calls -> CallRecord]
  BY <1>1 DEF CallInit
<1>3. spent \in [Tokens -> 0..Burst]
  BY ToolCallAssumption DEF CallInit
<1> QED
  BY <1>1, <1>2, <1>3 DEF CallIInv, CallTypeOK, CallInit, CallRecord

\* A step of one call keeps the invariant if that call's new record is sound.
LEMMA OneCall ==
    ASSUME CallIInv, NEW c \in Calls,
           call' \in [Calls -> CallRecord],
           \A d \in Calls \ {c} : call'[d] = call[d],
           Shape(call'[c]), spent' \in [Tokens -> 0..Burst]
    PROVE  CallIInv'
  BY DEF CallIInv, CallTypeOK, CallRecord

\* One step of the call's own thread: the new record has its type, the other
\* records stay, and the new record is sound.
LEMMA StepCallIInv ==
    ASSUME CallIInv, NEW c \in Calls, Step(c)
    PROVE  CallIInv'
<1>1. call \in [Calls -> CallRecord] /\ spent \in [Tokens -> 0..Burst]
  BY DEF CallIInv, CallTypeOK, CallRecord
<1>2. call[c] \in CallRecord /\ Shape(call[c])
  BY <1>1 DEF CallIInv
<1>3. CASE CheckSession(c)
  <2>1. call' \in [Calls -> CallRecord]
    BY <1>1, <1>2, <1>3 DEF CheckSession, Answer, Goto, Revoked, CallRecord, Shape
  <2>2. \A d \in Calls \ {c} : call'[d] = call[d]
    BY <1>1, <1>3 DEF CheckSession, Answer, Goto, Revoked
  <2>3. Shape(call'[c])
    BY <1>1, <1>2, <1>3 DEF CheckSession, Answer, Goto, Revoked, CallRecord, Shape, Untouched
  <2> QED
    BY <1>1, <1>3, <2>1, <2>2, <2>3, OneCall DEF CheckSession
<1>4. CASE RejectRequest(c)
  <2>1. call' \in [Calls -> CallRecord]
    BY <1>1, <1>2, <1>4 DEF RejectRequest, Answer, CallRecord, Shape
  <2>2. \A d \in Calls \ {c} : call'[d] = call[d]
    BY <1>1, <1>4 DEF RejectRequest, Answer
  <2>3. Shape(call'[c])
    BY <1>1, <1>2, <1>4 DEF RejectRequest, Answer, CallRecord, Shape, Untouched
  <2> QED
    BY <1>1, <1>4, <2>1, <2>2, <2>3, OneCall DEF RejectRequest
<1>5. CASE Dispatch(c)
  <2>1. call' \in [Calls -> CallRecord]
    BY <1>1, <1>2, <1>5 DEF Dispatch, Goto, CallRecord, Shape
  <2>2. \A d \in Calls \ {c} : call'[d] = call[d]
    BY <1>1, <1>5 DEF Dispatch, Goto
  <2>3. Shape(call'[c])
    BY <1>1, <1>2, <1>5 DEF Dispatch, Goto, CallRecord, Shape, Untouched
  <2> QED
    BY <1>1, <1>5, <2>1, <2>2, <2>3, OneCall DEF Dispatch
<1>6. CASE GateRevocation(c)
  <2> DEFINE rev == Revoked(c)
             use == Usable(call[c].token)
  <2>1. rev \in BOOLEAN /\ use \in BOOLEAN
    BY DEF Revoked, Usable
  <2>2. /\ call[c].at = "gate"
        /\ call' = [call EXCEPT ![c].at = IF rev THEN "answered" ELSE "token",
                                ![c].answer = IF rev THEN "revoked" ELSE @,
                                ![c].revokedAtGate = rev,
                                ![c].usableAtGate = use]
    BY <1>6 DEF GateRevocation
  <2> HIDE DEF rev, use
  <2>3. call' \in [Calls -> CallRecord]
    <3>1. (IF rev THEN "answered" ELSE "token") \in Places
      OBVIOUS
    <3>2. (IF rev THEN "revoked" ELSE call[c].answer) \in Answers
      BY <1>2 DEF CallRecord, Answers
    <3> DEFINE place == IF rev THEN "answered" ELSE "token"
               answer == IF rev THEN "revoked" ELSE call[c].answer
    <3>3. call'[c] = [call[c] EXCEPT !.at = place, !.answer = answer,
                        !.revokedAtGate = rev, !.usableAtGate = use]
      BY <1>1, <2>2
    <3>4. place \in Places /\ answer \in Answers
      BY <3>1, <3>2
    <3> HIDE DEF place, answer, Places, Denials, Refusals, Outcomes, Tools
    <3>5. call'[c] \in CallRecord
      <4>1. ASSUME NEW r \in CallRecord
            PROVE  [r EXCEPT !.at = place, !.answer = answer,
                        !.revokedAtGate = rev, !.usableAtGate = use] \in CallRecord
        BY <2>1, <3>4 DEF CallRecord, Answers
      <4> QED
        BY <1>2, <3>3, <4>1
    <3>6. \A d \in Calls : call'[d] \in CallRecord
      BY <1>1, <2>2, <3>5
    <3> QED
      BY <1>1, <2>2, <3>6
  <2>4. \A d \in Calls \ {c} : call'[d] = call[d]
    BY <1>1, <2>2
  <2>5. Shape(call'[c])
    BY <1>1, <1>2, <2>1, <2>2 DEF CallRecord, Shape, Untouched
  <2> QED
    BY <1>1, <1>6, <2>3, <2>4, <2>5, OneCall DEF GateRevocation
<1>7. CASE GateToken(c)
  <2>1. call' \in [Calls -> CallRecord]
    <3>1. CASE Expired(call[c].token)
      BY <1>1, <1>7, <3>1 DEF GateToken, Answer, CallRecord
    <3>2. CASE ~Expired(call[c].token)
      BY <1>1, <1>7, <3>2 DEF GateToken, Goto, CallRecord
    <3> QED
      BY <3>1, <3>2
  <2>2. \A d \in Calls \ {c} : call'[d] = call[d]
    BY <1>1, <1>7 DEF GateToken, Answer, Goto, Expired
  <2>3. Shape(call'[c])
    BY <1>1, <1>2, <1>7 DEF GateToken, Answer, Goto, Expired, CallRecord, Shape, Untouched
  <2> QED
    BY <1>1, <1>7, <2>1, <2>2, <2>3, OneCall DEF GateToken
<1>8. CASE GateLimit(c)
  <2>1. call' \in [Calls -> CallRecord]
    BY <1>1, <1>2, <1>8 DEF GateLimit, Answer, CallRecord, Shape
  <2>2. \A d \in Calls \ {c} : call'[d] = call[d]
    BY <1>1, <1>8 DEF GateLimit, Answer
  <2>3. Shape(call'[c])
    BY <1>1, <1>2, <1>8 DEF GateLimit, Answer, CallRecord, Shape, Untouched
  <2>4. spent' \in [Tokens -> 0..Burst]
    BY <1>1, <1>2, <1>8, ToolCallAssumption DEF GateLimit
  <2> QED
    BY <2>1, <2>2, <2>3, <2>4, OneCall
<1>9. CASE Prepare(c)
  <2>1. call' \in [Calls -> CallRecord]
    BY <1>1, <1>2, <1>9 DEF Prepare, ToAudit, Goto, CallRecord, Shape
  <2>2. \A d \in Calls \ {c} : call'[d] = call[d]
    BY <1>1, <1>9 DEF Prepare, ToAudit, Goto
  <2>3. Shape(call'[c])
    BY <1>1, <1>2, <1>9 DEF Prepare, ToAudit, Goto, CallRecord, Shape, Untouched
  <2> QED
    BY <1>1, <1>9, <2>1, <2>2, <2>3, OneCall DEF Prepare
<1>10. CASE SelectorInvalid(c)
  <2>1. call' \in [Calls -> CallRecord]
    BY <1>1, <1>2, <1>10 DEF SelectorInvalid, Answer, CallRecord, Shape
  <2>2. \A d \in Calls \ {c} : call'[d] = call[d]
    BY <1>1, <1>10 DEF SelectorInvalid, Answer
  <2>3. Shape(call'[c])
    BY <1>1, <1>2, <1>10 DEF SelectorInvalid, Answer, CallRecord, Shape, Untouched
  <2> QED
    BY <1>1, <1>10, <2>1, <2>2, <2>3, OneCall DEF SelectorInvalid
<1>11. CASE ShellRefused(c)
  <2>1. call' \in [Calls -> CallRecord]
    BY <1>1, <1>2, <1>11 DEF ShellRefused, ToAudit, CallRecord, Shape
  <2>2. \A d \in Calls \ {c} : call'[d] = call[d]
    BY <1>1, <1>11 DEF ShellRefused, ToAudit
  <2>3. Shape(call'[c])
    BY <1>1, <1>2, <1>11 DEF ShellRefused, ToAudit, CallRecord, Shape, Untouched
  <2> QED
    BY <1>1, <1>11, <2>1, <2>2, <2>3, OneCall DEF ShellRefused
<1>12. CASE BridgeReturns(c)
  <2>1. call' \in [Calls -> CallRecord]
    BY <1>1, <1>2, <1>12 DEF BridgeReturns, ToAudit, CallRecord, Shape
  <2>2. \A d \in Calls \ {c} : call'[d] = call[d]
    BY <1>1, <1>12 DEF BridgeReturns, ToAudit
  <2>3. Shape(call'[c])
    BY <1>1, <1>2, <1>12 DEF BridgeReturns, ToAudit, CallRecord, Shape, Untouched
  <2> QED
    BY <1>1, <1>12, <2>1, <2>2, <2>3, OneCall DEF BridgeReturns
<1>13. CASE BridgeRaises(c)
  <2>1. call' \in [Calls -> CallRecord]
    <3>1. PICK touched \in BOOLEAN : ToAudit(c, "ERROR", touched)
      BY <1>13 DEF BridgeRaises
    <3>2. CASE touched = TRUE
      <4>1. ToAudit(c, "ERROR", TRUE)
        BY <3>1, <3>2
      <4> QED
        BY <1>1, <1>2, <4>1 DEF ToAudit, CallRecord
    <3>3. CASE touched = FALSE
      <4>1. ToAudit(c, "ERROR", FALSE)
        BY <3>1, <3>3
      <4> QED
        BY <1>1, <1>2, <4>1 DEF ToAudit, CallRecord
    <3> QED
      BY <3>2, <3>3
  <2>2. \A d \in Calls \ {c} : call'[d] = call[d]
    BY <1>1, <1>13 DEF BridgeRaises, ToAudit
  <2>3. Shape(call'[c])
    BY <1>1, <1>2, <1>13 DEF BridgeRaises, ToAudit, CallRecord, Shape, Untouched
  <2> QED
    BY <1>1, <1>13, <2>1, <2>2, <2>3, OneCall DEF BridgeRaises
<1>14. CASE AuditCall(c)
  <2>1. call' \in [Calls -> CallRecord]
    BY <1>1, <1>2, <1>14 DEF AuditCall, CallRecord, Shape
  <2>2. \A d \in Calls \ {c} : call'[d] = call[d]
    BY <1>1, <1>14 DEF AuditCall
  <2>3. Shape(call'[c])
    BY <1>1, <1>2, <1>14 DEF AuditCall, CallRecord, Shape, Untouched
  <2> QED
    BY <1>1, <1>14, <2>1, <2>2, <2>3, OneCall DEF AuditCall
<1>15. CASE Reply(c)
  <2>1. call' \in [Calls -> CallRecord]
    BY <1>1, <1>2, <1>15 DEF Reply, Answer, CallRecord, Shape
  <2>2. \A d \in Calls \ {c} : call'[d] = call[d]
    BY <1>1, <1>15 DEF Reply, Answer
  <2>3. Shape(call'[c])
    BY <1>1, <1>2, <1>15 DEF Reply, Answer, CallRecord, Shape, Untouched
  <2> QED
    BY <1>1, <1>15, <2>1, <2>2, <2>3, OneCall DEF Reply
<1> QED
  BY <1>3, <1>4, <1>5, <1>6, <1>7, <1>8, <1>9, <1>10, <1>11, <1>12, <1>13, <1>14, <1>15 DEF Step

LEMMA ArriveCallIInv ==
    ASSUME CallIInv, NEW c \in Calls, NEW t \in Tokens, NEW tool \in Tools,
           Arrive(c, t, tool)
    PROVE  CallIInv'
<1>1. call \in [Calls -> CallRecord] /\ spent \in [Tokens -> 0..Burst]
  BY DEF CallIInv, CallTypeOK, CallRecord
<1>2. call[c] \in CallRecord /\ Shape(call[c])
  BY <1>1 DEF CallIInv
<1>3. call' \in [Calls -> CallRecord]
  BY <1>1, <1>2 DEF Arrive, CallRecord
<1>4. \A d \in Calls \ {c} : call'[d] = call[d]
  BY <1>1 DEF Arrive
<1>5. Shape(call'[c])
  BY <1>1, <1>2 DEF Arrive, CallRecord, Shape, Untouched
<1> QED
  BY <1>1, <1>3, <1>4, <1>5, OneCall DEF Arrive

LEMMA NextCallIInv == CallIInv /\ [CallNext]_allVars => CallIInv'
<1> SUFFICES ASSUME CallIInv, [CallNext]_allVars PROVE CallIInv'
  OBVIOUS
<1>1. CASE UNCHANGED callVars
  BY <1>1 DEF CallIInv, CallTypeOK, callVars
<1>2. ASSUME NEW c \in Calls, NEW t \in Tokens, NEW tool \in Tools, Arrive(c, t, tool)
      PROVE  CallIInv'
  BY <1>2, ArriveCallIInv
<1>3. ASSUME NEW c \in Calls, Step(c) PROVE CallIInv'
  BY <1>3, StepCallIInv
<1>4. ASSUME NEW t \in Tokens, Refill(t) PROVE CallIInv'
  BY <1>4, ToolCallAssumption DEF Refill, CallIInv, CallTypeOK
<1> QED
  BY <1>1, <1>2, <1>3, <1>4 DEF CallNext, allVars

THEOREM CallInvariance == CallSpec => []CallIInv
  BY InitCallIInv, NextCallIInv, PTL DEF CallSpec

-----------------------------------------------------------------------------
\* No step of a call changes what the session manager holds.
LEMMA CallsOnlyRead == [CallNext]_allVars => [Next]_vars
  BY DEF CallNext, allVars, Arrive, Refill, Step, CheckSession, RejectRequest,
         Dispatch, GateRevocation, GateToken, GateLimit, Prepare, SelectorInvalid,
         ShellRefused, BridgeReturns, BridgeRaises, AuditCall, Reply

\* With any number of calls running, the sessions are what SessionAccess
\* promises.  (agent_call)
THEOREM CallsKeepAccess == CallSpec => ImplementsAccess
<1>1. CallInit => Init /\ IInv
  BY InitIInv DEF CallInit
<1> QED
  BY <1>1, CallsOnlyRead, NextIInv, InitAccess, NextAccess, PTL
  DEF CallSpec, ImplementsAccess, Abstract!Spec

\* Every call record and every bucket keeps its type.
THEOREM CallTypeCorrect == CallSpec => []CallTypeOK
<1>1. CallIInv => CallTypeOK
  BY DEF CallIInv
<1> QED
  BY <1>1, CallInvariance, PTL

\* A call that meets the gate after its token was revoked does nothing.
THEOREM RevocationHolds == CallSpec => []RevokedNeverActs
<1>1. CallIInv => RevokedNeverActs
  BY DEF CallIInv, CallTypeOK, Shape, Untouched, RevokedNeverActs
<1> QED
  BY <1>1, CallInvariance, PTL

\* Whatever touched the device is audited, once, before it is answered.
THEOREM AuditIsComplete == CallSpec => []TouchedIsAudited
<1>1. CallIInv => TouchedIsAudited
  <2> SUFFICES ASSUME CallIInv, NEW c \in Calls
               PROVE  /\ Len(call[c].audited) <= 1
                      /\ call[c].at = "answered" /\ call[c].touched
                           => call[c].audited # <<>>
    BY DEF TouchedIsAudited
  <2>1. call[c].audited \in {<<>>} \cup {<<o>> : o \in Outcomes}
    BY DEF CallIInv, CallTypeOK
  <2>2. Len(call[c].audited) <= 1
    <3>1. CASE call[c].audited = <<>>
      BY <3>1
    <3>2. CASE \E o \in Outcomes : call[c].audited = <<o>>
      BY <3>2
    <3> QED
      BY <2>1, <3>1, <3>2
  <2>3. \A o : <<o>> # <<>>
    OBVIOUS
  <2>4. Shape(call[c])
    BY DEF CallIInv
  <2> QED
    BY <2>2, <2>3, <2>4 DEF Shape, Untouched
<1> QED
  BY <1>1, CallInvariance, PTL

\* The agent's answer and the audit trail agree.
THEOREM AnswersAreHonest == CallSpec => []AnswerAgreesWithTrail
<1>1. CallIInv => AnswerAgreesWithTrail
  <2> SUFFICES ASSUME CallIInv, NEW c \in Calls
               PROVE  /\ call[c].answer = "ok" => call[c].audited = <<"SUCCESS">>
                      /\ call[c].answer = "error" =>
                           call[c].audited \in {<<"ERROR">>, <<"DENIED">>}
                      /\ call[c].audited = <<"DENIED">> => ~call[c].touched
    BY DEF AnswerAgreesWithTrail
  <2>1. Shape(call[c]) /\ call[c].at \in Places
    BY DEF CallIInv, CallTypeOK
  <2>2. <<"DENIED">> # <<>> /\ <<"DENIED">> # <<"SUCCESS">> /\ <<"DENIED">> # <<"ERROR">>
    OBVIOUS
  <2>3. call[c].audited = <<call[c].outcome>> /\ call[c].audited = <<"DENIED">>
          => call[c].outcome = "DENIED"
    OBVIOUS
  <2> QED
    BY <2>1, <2>2, <2>3 DEF Shape, Untouched
<1> QED
  BY <1>1, CallInvariance, PTL

\* A denied call is not charged.
THEOREM DenialsAreFree == CallSpec => []DeniedIsFree
<1>1. CallIInv => DeniedIsFree
  BY DEF CallIInv, CallTypeOK, Shape, DeniedIsFree
<1> QED
  BY <1>1, CallInvariance, PTL

-----------------------------------------------------------------------------
(* The gate's two readings are as good as one, if time never goes back.    *)

PastGate == {"limit", "prepare", "bridge", "audit", "reply"}

\* What is known of the token of call c: a token that was not usable when the
\* gate read the revocation list has expired by the time it reads the clock.
Holds(c) ==
    /\ call[c].at # "idle" => call[c].token \in issued
    /\ call[c].at = "token" => call[c].usableAtGate \/ Expired(call[c].token)
    /\ call[c].at \in PastGate \/ call[c].touched \/ call[c].charged > 0
         => call[c].usableAtGate

AllHold == \A c \in Calls : Holds(c)

LEMMA SessionsStepHolds ==
    ASSUME ClockMayStepBack = FALSE, IInv, CallIInv, AllHold, [Next]_vars,
           UNCHANGED callVars
    PROVE  AllHold'
<1> SUFFICES ASSUME NEW c \in Calls PROVE Holds(c)'
  BY DEF AllHold
<1>1. Holds(c) /\ call'[c] = call[c]
  BY DEF AllHold, callVars
<1>2. now' >= now /\ now \in Nat /\ now' \in Nat
  BY NextIInv, SessionsAssumption
  DEF Next, vars, pairingVars, IInv, TypeOK, RequestPairing, Deny, Approve,
      Disconnect, ListPending, CleanupExpired, Tick, StepBack
<1>3. ASSUME call[c].token \in issued
      PROVE  /\ call[c].token \in issued'
             /\ Expired(call[c].token) => Expired(call[c].token)'
  <2>1. CASE Next
    <3>1. expiresAt'[call[c].token] = expiresAt[call[c].token]
      BY <1>3, <2>1, IssuedStep
    <3>2. expiresAt[call[c].token] \in Nat
      BY <1>3 DEF IInv, TypeOK
    <3> QED
      BY <1>1, <1>2, <1>3, <2>1, <3>1, <3>2, IssuedStep DEF Expired
  <2>2. CASE UNCHANGED vars
    BY <1>1, <1>3, <2>2 DEF vars, tokenVars, Expired
  <2> QED
    BY <2>1, <2>2
<1> QED
  BY <1>1, <1>3 DEF Holds

LEMMA StepHolds ==
    ASSUME IInv, CallIInv, AllHold, NEW c \in Calls, Step(c)
    PROVE  AllHold'
<1> USE DEF Holds, PastGate
<1>1. UNCHANGED vars
  BY DEF Step, CheckSession, RejectRequest, Dispatch, GateRevocation, GateToken,
         GateLimit, Prepare, SelectorInvalid, ShellRefused, BridgeReturns,
         BridgeRaises, AuditCall, Reply
<1>2. UNCHANGED <<issued, expiresAt, now, revokedIds>>
  BY <1>1 DEF vars
<1>3. call \in [Calls -> CallRecord] /\ Shape(call[c])
  BY DEF CallIInv, CallTypeOK, CallRecord
<1>4. \A d \in Calls \ {c} : call'[d] = call[d]
  BY <1>3 DEF Step, CheckSession, RejectRequest, Dispatch, GateRevocation, GateToken,
         GateLimit, Prepare, SelectorInvalid, ShellRefused, BridgeReturns,
         BridgeRaises, AuditCall, Reply, Answer, Goto, ToAudit
<1>5. Holds(c)
  BY DEF AllHold
<1>6. Holds(c)'
  <2>1. CASE CheckSession(c)
    BY <1>2, <1>3, <1>5, <2>1 DEF CheckSession, Answer, Goto, Shape, Untouched, CallRecord
  <2>2. CASE RejectRequest(c) \/ Dispatch(c)
    BY <1>2, <1>3, <1>5, <2>2 DEF RejectRequest, Dispatch, Answer, Goto, Shape, Untouched, CallRecord
  <2>3. CASE GateRevocation(c)
    BY <1>2, <1>3, <1>5, <2>3 DEF GateRevocation, Revoked, Usable, Expired, Shape, Untouched, CallRecord
  <2>4. CASE GateToken(c)
    BY <1>2, <1>3, <1>5, <2>4 DEF GateToken, Answer, Goto, Expired, Shape, Untouched, CallRecord
  <2>5. CASE GateLimit(c)
    BY <1>2, <1>3, <1>5, <2>5 DEF GateLimit, Answer, Shape, Untouched, CallRecord
  <2>6. CASE Prepare(c) \/ SelectorInvalid(c) \/ ShellRefused(c)
    BY <1>2, <1>3, <1>5, <2>6
    DEF Prepare, SelectorInvalid, ShellRefused, Answer, Goto, ToAudit, CallRecord
  <2>7. CASE BridgeReturns(c) \/ BridgeRaises(c)
    BY <1>2, <1>3, <1>5, <2>7 DEF BridgeReturns, BridgeRaises, ToAudit, CallRecord
  <2>8. CASE AuditCall(c) \/ Reply(c)
    BY <1>2, <1>3, <1>5, <2>8 DEF AuditCall, Reply, Answer, CallRecord
  <2> QED
    BY <2>1, <2>2, <2>3, <2>4, <2>5, <2>6, <2>7, <2>8 DEF Step
<1> QED
  <2> SUFFICES ASSUME NEW d \in Calls PROVE Holds(d)'
    BY DEF AllHold
  <2>1. CASE d # c
    BY <1>2, <1>4, <2>1 DEF AllHold, Expired
  <2> QED
    BY <1>6, <2>1

LEMMA InitHolds == CallInit => AllHold
  BY DEF CallInit, AllHold, Holds, Idle, PastGate

LEMMA CallNextHolds ==
    ASSUME ClockMayStepBack = FALSE, IInv, CallIInv, AllHold, [CallNext]_allVars
    PROVE  AllHold'
<1>1. CASE [Next]_vars /\ UNCHANGED callVars
  BY <1>1, SessionsStepHolds
<1>2. ASSUME NEW c \in Calls, NEW t \in Tokens, NEW tool \in Tools, Arrive(c, t, tool)
      PROVE  AllHold'
  <2>1. call \in [Calls -> CallRecord] /\ Shape(call[c])
    BY DEF CallIInv, CallTypeOK, CallRecord
  <2>2. \A d \in Calls \ {c} : call'[d] = call[d]
    BY <1>2, <2>1 DEF Arrive
  <2>3. UNCHANGED <<issued, expiresAt, now>>
    BY <1>2 DEF Arrive, vars, tokenVars
  <2>4. Holds(c)'
    BY <1>2, <2>1, <2>3 DEF Arrive, Holds, PastGate, Shape, Untouched, CallRecord
  <2> QED
    BY <2>2, <2>3, <2>4 DEF AllHold, Holds, Expired
<1>3. ASSUME NEW c \in Calls, Step(c) PROVE AllHold'
  BY <1>3, StepHolds
<1>4. ASSUME NEW t \in Tokens, Refill(t) PROVE AllHold'
  BY <1>4 DEF Refill, vars, tokenVars, AllHold, Holds, Expired
<1> QED
  BY <1>1, <1>2, <1>3, <1>4 DEF CallNext, allVars

\* On a clock that never goes back, whatever the gate lets through had a token
\* that was neither revoked nor expired at one and the same instant.
THEOREM AdmissionIsAtomic ==
    ASSUME ClockMayStepBack = FALSE
    PROVE  CallSpec => []ActsOnlyIfUsable
<1>1. CallInit => IInv
  BY InitIInv DEF CallInit
<1>2. IInv /\ CallIInv /\ AllHold /\ [CallNext]_allVars
        => (IInv /\ CallIInv /\ AllHold)'
  <2> SUFFICES ASSUME IInv, CallIInv, AllHold, [CallNext]_allVars
               PROVE  IInv' /\ CallIInv' /\ AllHold'
    OBVIOUS
  <2>1. [Next]_vars
    BY CallsOnlyRead
  <2> QED
    BY <2>1, NextIInv, NextCallIInv, CallNextHolds
<1>3. AllHold => ActsOnlyIfUsable
  BY DEF AllHold, Holds, ActsOnlyIfUsable
<1> QED
  BY <1>1, <1>2, <1>3, InitCallIInv, InitHolds, PTL DEF CallSpec
=============================================================================
