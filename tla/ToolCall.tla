------------------------------ MODULE ToolCall ------------------------------
(***************************************************************************)
(* The path of an agent's tool call: agent_call and _dispatch_tool         *)
(* (adroid/web/server.py), PermissionGate.authorize (permissions/gate.py), *)
(* a method of AdroidRuntime (runtime/core.py), the device bridge and the  *)
(* audit trail, while the human and the cleanup task end sessions.         *)
(*                                                                         *)
(* Every call runs in its own thread of the web server's pool.  It reads   *)
(* shared state under a lock of its own each time (the revocation list,    *)
(* the clock, the rate-limit bucket), so each read is an action and        *)
(* anything may happen between two of them.                                *)
(*                                                                         *)
(* Simplifications: a session token grants every tool (approve_pairing),   *)
(* so the scope check always passes; the bucket of a (token, capability)   *)
(* pair is one per token, and refills in units (module RateLimiter has its *)
(* arithmetic); the audit write itself is module AuditLog; terminal lines  *)
(* are module TerminalStream.                                              *)
(***************************************************************************)
EXTENDS Sessions, Sequences

CONSTANTS
    Calls,      \* the tool calls, each made once
    Burst       \* _Bucket.capacity

ASSUME ToolCallAssumption == Burst \in Nat \ {0}

VARIABLES
    call,       \* call[c]: where call c is and what it has done
    spent       \* spent[t]: what is missing in token t's bucket

callVars == <<call, spent>>
allVars == <<vars, callVars>>

\* "device": the bridge is called at once.  "selector": ui.find_elements,
\* ui.tap_element and ui.wait_for, which parse their argument first.
\* "shell": the allowlist is consulted first.  "meta": permission.request.
Tools == {"device", "selector", "shell", "meta"}

Places == {"idle", "web", "dispatch", "gate", "token", "limit", "prepare",
           "bridge", "audit", "reply", "answered"}

Denials == {"revoked", "token_expired", "rate_limited"}
Refusals == {"session_revoked", "bad_request", "unexpected"}
Outcomes == {"SUCCESS", "ERROR", "DENIED"}

Idle == [at |-> "idle", token |-> None, tool |-> "device",
         outcome |-> "SUCCESS", answer |-> "none",
         touched |-> FALSE, charged |-> 0, audited |-> <<>>,
         revokedAtGate |-> FALSE, usableAtGate |-> FALSE]

\* Type invariant.
CallTypeOK ==
    /\ call \in [Calls ->
         [at : Places, token : Tokens \cup {None}, tool : Tools,
          outcome : Outcomes,
          answer : {"none", "ok", "error"} \cup Denials \cup Refusals,
          touched : BOOLEAN, charged : 0..1,
          audited : {<<>>} \cup {<<o>> : o \in Outcomes},
          revokedAtGate : BOOLEAN, usableAtGate : BOOLEAN]]
    /\ spent \in [Tokens -> 0..Burst]

CallInit ==
    /\ Init
    /\ call = [c \in Calls |-> Idle]
    /\ spent = [t \in Tokens |-> 0]

-----------------------------------------------------------------------------
Revoked(c) == call[c].token \in revokedIds

Goto(c, place) == call' = [call EXCEPT ![c].at = place]

Answer(c, answer) ==
    call' = [call EXCEPT ![c].at = "answered", ![c].answer = answer]

\* An agent that holds token t calls a tool.
Arrive(c, t, tool) ==
    /\ call[c].at = "idle"
    /\ t \in issued
    /\ call' = [call EXCEPT ![c].at = "web", ![c].token = t, ![c].tool = tool]
    /\ UNCHANGED <<vars, spent>>

\* agent_call asks the session manager first.
CheckSession(c) ==
    /\ call[c].at = "web"
    /\ IF Revoked(c) THEN Answer(c, "session_revoked") ELSE Goto(c, "dispatch")
    /\ UNCHANGED <<vars, spent>>

\* _dispatch_tool: an unknown tool (404) or arguments outside its schema.
RejectRequest(c) ==
    /\ call[c].at = "dispatch"
    /\ Answer(c, "bad_request")
    /\ UNCHANGED <<vars, spent>>

\* _dispatch_tool calls the runtime's method for the tool.
Dispatch(c) ==
    /\ call[c].at = "dispatch"
    /\ Goto(c, "gate")
    /\ UNCHANGED <<vars, spent>>

-----------------------------------------------------------------------------
(* PermissionGate.authorize *)

\* Mutant: the gate leaves revocation to the web layer.
GateTrustsWebLayer(c) ==
    /\ call[c].at = "gate"
    /\ call' = [call EXCEPT ![c].at = "token",
                            ![c].revokedAtGate = Revoked(c),
                            ![c].usableAtGate = Usable(call[c].token)]
    /\ UNCHANGED <<vars, spent>>

\* Step 0, the revocation list.
GateRevocation(c) ==
    /\ call[c].at = "gate"
    /\ call' = [call EXCEPT ![c].at = IF Revoked(c) THEN "answered" ELSE "token",
                            ![c].answer = IF Revoked(c) THEN "revoked" ELSE @,
                            ![c].revokedAtGate = Revoked(c),
                            ![c].usableAtGate = Usable(call[c].token)]
    /\ UNCHANGED <<vars, spent>>

\* Mutant: the token counts as good in the instant it expires.
GateTokenInclusive(c) ==
    /\ call[c].at = "token"
    /\ IF expiresAt[call[c].token] < now
       THEN Answer(c, "token_expired") ELSE Goto(c, "limit")
    /\ UNCHANGED <<vars, spent>>

\* Mutant: the bucket is charged before the token is looked at.
GateTokenCharges(c) ==
    /\ call[c].at = "token"
    /\ call' = [call EXCEPT
         ![c].at = IF Expired(call[c].token) THEN "answered" ELSE "limit",
         ![c].answer = IF Expired(call[c].token) THEN "token_expired" ELSE @,
         ![c].charged = 1]
    /\ UNCHANGED <<vars, spent>>

\* Step 1, validate_token_at (this runtime signed the token).
GateToken(c) ==
    /\ call[c].at = "token"
    /\ IF Expired(call[c].token)
       THEN Answer(c, "token_expired") ELSE Goto(c, "limit")
    /\ UNCHANGED <<vars, spent>>

\* Mutant: a call over the limit waits for its turn.
GateLimitWaits(c) ==
    /\ call[c].at = "limit"
    /\ spent[call[c].token] < Burst
    /\ call' = [call EXCEPT ![c].at = "prepare", ![c].charged = @ + 1]
    /\ spent' = [spent EXCEPT ![call[c].token] = @ + 1]
    /\ UNCHANGED vars

\* Mutant: the check and the decrement are not one critical section, and the
\* bucket is overdrawn.
GateLimitOverdraws(c) ==
    /\ call[c].at = "limit"
    /\ call' = [call EXCEPT ![c].at = "prepare", ![c].charged = @ + 1]
    /\ spent' = [spent EXCEPT ![call[c].token] = @ + 1]
    /\ UNCHANGED vars

\* Step 3, RateLimiter.check_and_consume.
GateLimit(c) ==
    /\ call[c].at = "limit"
    /\ \/ /\ spent[call[c].token] < Burst
          /\ call' = [call EXCEPT ![c].at = "prepare", ![c].charged = @ + 1]
          /\ spent' = [spent EXCEPT ![call[c].token] = @ + 1]
       \/ /\ spent[call[c].token] = Burst
          /\ Answer(c, "rate_limited")
          /\ UNCHANGED spent
    /\ UNCHANGED vars

\* A token's bucket gains a unit as time passes.
Refill(t) ==
    /\ spent[t] > 0
    /\ spent' = [spent EXCEPT ![t] = @ - 1]
    /\ UNCHANGED <<vars, call>>

-----------------------------------------------------------------------------
(* The runtime's method, once the gate let the call through *)

ToAudit(c, outcome, touched) ==
    call' = [call EXCEPT ![c].at = "audit", ![c].outcome = outcome,
                         ![c].touched = touched]

\* Nothing to prepare, a selector that parses, or a command that is allowed.
Prepare(c) ==
    /\ call[c].at = "prepare"
    /\ IF call[c].tool = "meta" THEN ToAudit(c, "SUCCESS", FALSE)
                                ELSE Goto(c, "bridge")
    /\ UNCHANGED <<vars, spent>>

\* Selector(**selector) or WaitForCondition(**kwargs) raises: it stands
\* before the try block, so nothing is audited.
SelectorInvalid(c) ==
    /\ call[c].at = "prepare"
    /\ call[c].tool = "selector"
    /\ Answer(c, "unexpected")
    /\ UNCHANGED <<vars, spent>>

\* run_shell: the allowlist refuses the command.
ShellRefused(c) ==
    /\ call[c].at = "prepare"
    /\ call[c].tool = "shell"
    /\ ToAudit(c, "DENIED", FALSE)
    /\ UNCHANGED <<vars, spent>>

\* The bridge does what it was asked to do.
BridgeReturns(c) ==
    /\ call[c].at = "bridge"
    /\ ToAudit(c, "SUCCESS", TRUE)
    /\ UNCHANGED <<vars, spent>>

\* Mutant: an error from the bridge goes straight to the agent.
BridgeRaisesUnaudited(c) ==
    /\ call[c].at = "bridge"
    /\ \E touched \in BOOLEAN :
         call' = [call EXCEPT ![c].at = "answered", ![c].answer = "error",
                              ![c].touched = touched]
    /\ UNCHANGED <<vars, spent>>

\* The bridge raises, before or after it touched the device; so does what
\* follows it in the try block (ui_tap_element taps, then saves the memory).
BridgeRaises(c) ==
    /\ call[c].at = "bridge"
    /\ \E touched \in BOOLEAN : ToAudit(c, "ERROR", touched)
    /\ UNCHANGED <<vars, spent>>

\* _audit_call: handed to AuditWriter.write, whose errors are swallowed.
AuditCall(c) ==
    /\ call[c].at = "audit"
    /\ call' = [call EXCEPT ![c].at = "reply",
                            ![c].audited = Append(@, call[c].outcome)]
    /\ UNCHANGED <<vars, spent>>

\* Mutant: whatever was raised, the agent is told ok.
ReplyAlwaysOk(c) ==
    /\ call[c].at = "reply"
    /\ Answer(c, "ok")
    /\ UNCHANGED <<vars, spent>>

\* agent_call answers with the result or with the error.
Reply(c) ==
    /\ call[c].at = "reply"
    /\ Answer(c, IF call[c].outcome = "SUCCESS" THEN "ok" ELSE "error")
    /\ UNCHANGED <<vars, spent>>

-----------------------------------------------------------------------------
\* What the thread of call c does next.
Step(c) ==
    \/ CheckSession(c)   \/ RejectRequest(c)  \/ Dispatch(c)
    \/ GateRevocation(c) \/ GateToken(c)      \/ GateLimit(c)
    \/ Prepare(c)        \/ SelectorInvalid(c) \/ ShellRefused(c)
    \/ BridgeReturns(c)  \/ BridgeRaises(c)
    \/ AuditCall(c)      \/ Reply(c)

CallNext ==
    \/ Next /\ UNCHANGED callVars
    \/ \E c \in Calls, t \in Tokens, tool \in Tools : Arrive(c, t, tool)
    \/ \E c \in Calls : Step(c)
    \/ \E t \in Tokens : Refill(t)

\* A thread of the pool that has a step to take takes it: no method of the
\* path waits for another call, and the bridge's subprocesses have timeouts.
\* Nothing makes an agent call, and no bucket needs to be refilled.
CallSpec ==
    /\ CallInit /\ [][CallNext]_allVars
    /\ \A c \in Calls : WF_allVars(Step(c))

-----------------------------------------------------------------------------
(* Properties *)

\* A call that enters the gate after its token was disconnected or cleaned up
\* neither touches the device nor uses the rate limit, even if it got past
\* the web layer's own check before the human pressed Disconnect.
RevokedNeverActs ==
    \A c \in Calls : call[c].revokedAtGate =>
        ~call[c].touched /\ call[c].charged = 0 /\ call[c].audited = <<>>

\* The gate reads the revocation list and the clock at different times.  As
\* long as the clock is not set back, whatever it lets through had a token
\* that was good on both counts at one and the same instant.
ActsOnlyIfUsable ==
    \A c \in Calls :
        call[c].touched \/ call[c].charged > 0 => call[c].usableAtGate

\* A call that touched the device is audited once before it is answered, on
\* every path; and nothing is ever audited twice (core.py, _audit_call).
TouchedIsAudited ==
    \A c \in Calls :
        /\ Len(call[c].audited) <= 1
        /\ call[c].at = "answered" /\ call[c].touched => call[c].audited # <<>>

\* The agent and the audit trail are told the same: "ok" goes with SUCCESS,
\* an error after the gate with ERROR or DENIED, and DENIED with no effect.
AnswerAgreesWithTrail ==
    \A c \in Calls :
        /\ call[c].answer = "ok" => call[c].audited = <<"SUCCESS">>
        /\ call[c].answer = "error" => call[c].audited \in {<<"ERROR">>, <<"DENIED">>}
        /\ call[c].audited = <<"DENIED">> => ~call[c].touched

\* A call the gate denies costs nothing of the token's rate limit (gate.py,
\* authorize: "only after we know the call is allowed").
DeniedIsFree ==
    \A c \in Calls : call[c].answer \in Denials => call[c].charged = 0

\* Every call the server accepts is answered.
EveryCallAnswered ==
    \A c \in Calls : call[c].at # "idle" ~> call[c].at = "answered"
=============================================================================
