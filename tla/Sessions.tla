------------------------------ MODULE Sessions ------------------------------
(***************************************************************************)
(* SessionManager (adroid/permissions/sessions.py): the pairing requests   *)
(* of AI agents, the human's decision on each, the session token a         *)
(* decision mints, and how a session ends: by its time to live, by the     *)
(* human's Disconnect, or by the periodic cleanup.                         *)
(*                                                                         *)
(* Every method of the class runs under one lock, so each is one action.   *)
(* A call the method rejects changes nothing and is not an action.         *)
(*                                                                         *)
(* Simplifications: agent ids, approver ids and the decided_at timestamps  *)
(* are left out; _sessions and _token_to_session always have the same      *)
(* entries and are one variable; a time unit stands for a span of seconds. *)
(***************************************************************************)
EXTENDS Naturals, FiniteSets

CONSTANTS
    Pairings,           \* pairing ids (uuid4: never drawn twice)
    Tokens,             \* token ids (uuid4: never drawn twice)
    None,               \* Python's None
    MaxSessions,        \* SessionManager(max_sessions), 20 by default
    MaxPairingWait,     \* max_pairing_wait_seconds, 600 by default
    MinTtl, MaxTtl,     \* approve_pairing's limits, 60 s and one year
    Ttls,               \* the time-to-live values a human may submit
    MaxTime,            \* bound of the model: the last value of the clock
    ClockMayStepBack    \* is the wall clock ever set back?

ASSUME SessionsAssumption ==
    /\ None \notin Tokens
    /\ MaxSessions \in Nat /\ MaxPairingWait \in Nat /\ MaxTime \in Nat
    /\ MinTtl \in Nat /\ MaxTtl \in Nat
    /\ Ttls \subseteq Nat
    /\ ClockMayStepBack \in BOOLEAN

VARIABLES
    now,            \* datetime.now(timezone.utc), a wall clock
    status,         \* status[p]: PairingRequest.status, "absent" if not made
    requestedAt,    \* requestedAt[p]: PairingRequest.requested_at
    minted,         \* minted[p]: PairingRequest.session_id, a token or None
    issued,         \* the session tokens signed so far
    expiresAt,      \* expiresAt[t]: the expires_at signed into token t
    session,        \* session[t]: t's Session in _sessions: "absent",
                    \* "open" (revoked is False) or "closed" (True)
    revokedIds      \* _revoked_token_ids

vars == <<now, status, requestedAt, minted, issued, expiresAt, session,
          revokedIds>>

pairingVars == <<status, requestedAt, minted>>
tokenVars == <<issued, expiresAt>>
sessionVars == <<session, revokedIds>>

Statuses == {"absent", "pending", "approved", "denied", "expired"}
Decided == {"approved", "denied", "expired"}

\* Type invariant.
TypeOK ==
    /\ now \in Nat
    /\ status \in [Pairings -> Statuses]
    /\ requestedAt \in [Pairings -> Nat]
    /\ minted \in [Pairings -> Tokens \cup {None}]
    /\ issued \in SUBSET Tokens
    /\ expiresAt \in [Tokens -> Nat]
    /\ session \in [Tokens -> {"absent", "open", "closed"}]
    /\ revokedIds \in SUBSET Tokens

-----------------------------------------------------------------------------
Expired(t) == expiresAt[t] <= now

\* Session.is_active.
Active(t) == session[t] = "open" /\ ~Expired(t)

ActiveSessions == {t \in Tokens : Active(t)}

\* What PermissionGate.authorize accepts of a session token: one this runtime
\* signed (validate_token_at), not expired and not in the revocation list.
Usable(t) == t \in issued /\ t \notin revokedIds /\ ~Expired(t)

\* Mutant: the timeout forgets to look at the status.
StaleWhateverStatus(p) ==
    status[p] # "absent" /\ now > requestedAt[p] + MaxPairingWait

\* A pairing list_pending_pairings gives up on.
Stale(p) == status[p] = "pending" /\ now > requestedAt[p] + MaxPairingWait

Init ==
    /\ now = 0
    /\ status = [p \in Pairings |-> "absent"]
    /\ requestedAt = [p \in Pairings |-> 0]
    /\ minted = [p \in Pairings |-> None]
    /\ issued = {}
    /\ expiresAt = [t \in Tokens |-> 0]
    /\ session = [t \in Tokens |-> "absent"]
    /\ revokedIds = {}

\* request_pairing.
RequestPairing(p) ==
    /\ status[p] = "absent"
    /\ Cardinality(ActiveSessions) < MaxSessions
    /\ status' = [status EXCEPT ![p] = "pending"]
    /\ requestedAt' = [requestedAt EXCEPT ![p] = now]
    /\ UNCHANGED <<now, minted, tokenVars, sessionVars>>

\* list_pending_pairings: the only place where a pairing times out.
ListPending ==
    /\ status' = [p \in Pairings |-> IF Stale(p) THEN "expired" ELSE status[p]]
    /\ UNCHANGED <<now, requestedAt, minted, tokenVars, sessionVars>>

\* Mutant: a second Approve of the same pairing goes through.
MayApproveTwice(p) == status[p] \in {"pending", "approved"}

\* Mutant: a pairing that has timed out may still be approved.
MayApproveExpired(p) == status[p] \in {"pending", "expired"}

MayApprove(p) == status[p] = "pending"

\* Mutant: the upper limit is not enforced.
TtlAtLeastMin(ttl) == MinTtl <= ttl

TtlAllowed(ttl) == MinTtl <= ttl /\ ttl <= MaxTtl

\* approve_pairing: checks the time to live and that the pairing is pending,
\* mints a token, fills the pairing in and registers the session.
Approve(p, ttl, t) ==
    /\ TtlAllowed(ttl)
    /\ MayApprove(p)
    /\ t \notin issued
    /\ issued' = issued \cup {t}
    /\ expiresAt' = [expiresAt EXCEPT ![t] = now + ttl]
    /\ status' = [status EXCEPT ![p] = "approved"]
    /\ minted' = [minted EXCEPT ![p] = t]
    /\ session' = [session EXCEPT ![t] = "open"]
    /\ UNCHANGED <<now, requestedAt, revokedIds>>

\* Mutant: a status nobody else knows.
DenyAsRejected(p) ==
    /\ status[p] = "pending"
    /\ status' = [status EXCEPT ![p] = "rejected"]
    /\ UNCHANGED <<now, requestedAt, minted, tokenVars, sessionVars>>

\* deny_pairing.
Deny(p) ==
    /\ status[p] = "pending"
    /\ status' = [status EXCEPT ![p] = "denied"]
    /\ UNCHANGED <<now, requestedAt, minted, tokenVars, sessionVars>>

\* disconnect_session: the session stays in the registry, marked revoked.
Disconnect(t) ==
    /\ session[t] = "open"
    /\ session' = [session EXCEPT ![t] = "closed"]
    /\ revokedIds' = revokedIds \cup {t}
    /\ UNCHANGED <<now, pairingVars, tokenVars>>

\* Mutant: "<" where the token itself expires with ">=".
ReapedStrictly == {t \in Tokens : session[t] = "open" /\ expiresAt[t] < now}

\* The sessions one pass of cleanup_expired takes out.
Reaped == {t \in Tokens : session[t] = "open" /\ Expired(t)}

\* Mutant: prunes without adding the token ids to the revocation list.
CleanupWithoutRevoking ==
    /\ session' = [t \in Tokens |-> IF t \in Reaped THEN "absent" ELSE session[t]]
    /\ UNCHANGED <<now, pairingVars, tokenVars, revokedIds>>

\* Mutant: drops expired ids from the revocation list to bound its growth.
CleanupForgetsIds ==
    /\ session' = [t \in Tokens |-> IF t \in Reaped THEN "absent" ELSE session[t]]
    /\ revokedIds' = {t \in revokedIds : ~Expired(t)}
    /\ UNCHANGED <<now, pairingVars, tokenVars>>

\* cleanup_expired: revokes what has expired and drops it from the registry.
CleanupExpired ==
    /\ session' = [t \in Tokens |-> IF t \in Reaped THEN "absent" ELSE session[t]]
    /\ revokedIds' = revokedIds \cup Reaped
    /\ UNCHANGED <<now, pairingVars, tokenVars>>

\* Time passes.
Tick ==
    /\ now < MaxTime
    /\ now' = now + 1
    /\ UNCHANGED <<pairingVars, tokenVars, sessionVars>>

\* The wall clock the code reads is set back (NTP, a human).
StepBack ==
    /\ ClockMayStepBack
    /\ now > 0
    /\ now' = now - 1
    /\ UNCHANGED <<pairingVars, tokenVars, sessionVars>>

Next ==
    \/ \E p \in Pairings : RequestPairing(p) \/ Deny(p)
    \/ \E p \in Pairings, ttl \in Ttls, t \in Tokens : Approve(p, ttl, t)
    \/ \E t \in Tokens : Disconnect(t)
    \/ ListPending
    \/ CleanupExpired
    \/ Tick
    \/ StepBack

\* The web layer's lifespan task runs cleanup_expired every 60 seconds for as
\* long as the server is up.  No human, agent or dashboard is owed a step.
Fairness == WF_vars(CleanupExpired)

Spec == Init /\ [][Next]_vars /\ Fairness

-----------------------------------------------------------------------------
(* Properties *)

\* Approvals and tokens are in bijection: no pairing, approved twice from two
\* dashboard tabs, ever has two live tokens, and no token is orphaned by a
\* second approval overwriting the first (approve_pairing).
OneTokenPerApproval ==
    /\ \A p \in Pairings : status[p] = "approved" <=> minted[p] # None
    /\ \A p, q \in Pairings : minted[p] = minted[q] /\ minted[p] # None => p = q
    /\ issued = {minted[p] : p \in Pairings} \ {None}

\* Whatever token the gate would still accept has an open session in the
\* registry, so the human can see it and disconnect it.  It must survive a
\* clock that is set back after cleanup_expired has dropped the session.
UsableIsDisconnectable ==
    \A t \in Tokens : Usable(t) => session[t] = "open"

\* A decision is final: neither a late approval or denial nor the timeout of
\* list_pending_pairings ever changes the status of a decided pairing or the
\* token it carries.
DecisionsAreFinal ==
    [][\A p \in Pairings : status[p] \in Decided =>
          status'[p] = status[p] /\ minted'[p] = minted[p]]_vars

\* A token that no longer works starts to work again only if the wall clock
\* is set back, and never once it has been disconnected or cleaned up.
NoRevival ==
    [][\A t \in issued : (~Usable(t) /\ Usable(t)') =>
          now' < now /\ session[t] = "open"]_vars

\* An expired session that nobody disconnects does not stay in the registry:
\* cleanup_expired gets to it, however the clock moves.
ExpiredIsReaped ==
    \A t \in Tokens : []<>~(session[t] = "open" /\ Expired(t))

\* SessionManager implements the abstract access rules.
Abstract == INSTANCE SessionAccess WITH
    access <- [t \in Tokens |->
                 IF t \notin issued THEN "none"
                 ELSE IF t \in revokedIds THEN "withdrawn" ELSE "granted"],
    until <- expiresAt

ImplementsAccess == Abstract!Spec

\* sessions.py:19 and README.md:36 promise that at most MaxSessions sessions
\* are active at a time.
AtMostMaxSessions == Cardinality(ActiveSessions) <= MaxSessions
=============================================================================
