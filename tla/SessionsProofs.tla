--------------------------- MODULE SessionsProofs ---------------------------
(***************************************************************************)
(* Theorems about Sessions for every set of pairings and tokens, every     *)
(* limit and every movement of the wall clock.                             *)
(*                                                                         *)
(* The inductive invariant adds to the two safety invariants what they do  *)
(* not say of themselves: that a token nobody issued has no session and is *)
(* not revoked, and that the revocation list and the registry agree on     *)
(* each issued token.                                                      *)
(***************************************************************************)
EXTENDS Sessions, TLAPS

\* An issued token is off the revocation list exactly while its session is
\* open; a token not issued yet is in neither.
RegistryAgrees ==
    /\ \A t \in issued : t \notin revokedIds <=> session[t] = "open"
    /\ \A t \in Tokens \ issued : session[t] = "absent" /\ t \notin revokedIds

IInv ==
    /\ TypeOK
    /\ RegistryAgrees
    /\ OneTokenPerApproval

LEMMA InitIInv == Init => IInv
  BY SessionsAssumption
  DEF Init, IInv, TypeOK, Statuses, RegistryAgrees, OneTokenPerApproval

\* Actions that leave pairings, tokens and sessions alone keep IInv.
LEMMA ClockIInv ==
    ASSUME IInv, now' \in Nat, UNCHANGED <<pairingVars, tokenVars, sessionVars>>
    PROVE  IInv'
  BY DEF IInv, TypeOK, RegistryAgrees, OneTokenPerApproval, pairingVars,
         tokenVars, sessionVars

LEMMA ApproveIInv ==
    ASSUME IInv, NEW p \in Pairings, NEW ttl \in Ttls, NEW t \in Tokens,
           Approve(p, ttl, t)
    PROVE  IInv'
<1> USE SessionsAssumption
<1>1. TypeOK'
  BY DEF IInv, TypeOK, Approve, Statuses
<1>2. RegistryAgrees'
  BY DEF IInv, TypeOK, RegistryAgrees, Approve
<1>3. OneTokenPerApproval'
  <2>1. \A q \in Pairings : minted[q] # t
    BY DEF IInv, OneTokenPerApproval, Approve
  <2>2. minted[p] = None
    BY DEF IInv, OneTokenPerApproval, Approve, MayApprove
  <2>3. /\ minted' = [minted EXCEPT ![p] = t]
        /\ status' = [status EXCEPT ![p] = "approved"]
        /\ issued' = issued \cup {t}
    BY DEF Approve
  <2>4. \A q \in Pairings : minted'[q] = IF q = p THEN t ELSE minted[q]
    BY <2>3 DEF IInv, TypeOK
  <2>5. \A q \in Pairings : status'[q] = IF q = p THEN "approved" ELSE status[q]
    BY <2>3 DEF IInv, TypeOK
  <2>6. (\A q \in Pairings : status[q] = "approved" <=> minted[q] # None)'
    BY <2>4, <2>5 DEF IInv, OneTokenPerApproval
  <2>7. (\A q, r \in Pairings : minted[q] = minted[r] /\ minted[q] # None => q = r)'
    BY <2>1, <2>4 DEF IInv, OneTokenPerApproval
  <2>8. (issued = {minted[q] : q \in Pairings} \ {None})'
    BY <2>2, <2>3, <2>4 DEF IInv, OneTokenPerApproval
  <2> QED
    BY <2>6, <2>7, <2>8 DEF OneTokenPerApproval
<1> QED
  BY <1>1, <1>2, <1>3 DEF IInv

\* A step that only moves undecided pairings to another status than approved.
LEMMA StatusIInv ==
    ASSUME IInv,
           status' \in [Pairings -> Statuses],
           requestedAt' \in [Pairings -> Nat],
           \A q \in Pairings : status'[q] = status[q]
              \/ (status[q] # "approved" /\ status'[q] # "approved"),
           UNCHANGED <<now, minted, tokenVars, sessionVars>>
    PROVE  IInv'
<1>1. TypeOK'
  BY DEF IInv, TypeOK, tokenVars, sessionVars
<1>2. RegistryAgrees'
  BY DEF IInv, RegistryAgrees, tokenVars, sessionVars
<1>3. OneTokenPerApproval'
  BY DEF IInv, OneTokenPerApproval, tokenVars
<1> QED
  BY <1>1, <1>2, <1>3 DEF IInv

\* A step that closes or drops open sessions and revokes exactly those.
LEMMA RevokeIInv ==
    ASSUME IInv, NEW S \in SUBSET Tokens, NEW end \in {"absent", "closed"},
           \A t \in S : session[t] = "open",
           session' = [t \in Tokens |-> IF t \in S THEN end ELSE session[t]],
           revokedIds' = revokedIds \cup S,
           UNCHANGED <<now, pairingVars, tokenVars>>
    PROVE  IInv'
<1>1. TypeOK'
  BY DEF IInv, TypeOK, pairingVars, tokenVars
<1>2. RegistryAgrees'
  BY DEF IInv, TypeOK, RegistryAgrees, tokenVars
<1>3. OneTokenPerApproval'
  BY DEF IInv, OneTokenPerApproval, tokenVars, pairingVars
<1> QED
  BY <1>1, <1>2, <1>3 DEF IInv

LEMMA NextIInv == IInv /\ [Next]_vars => IInv'
<1> SUFFICES ASSUME IInv, [Next]_vars PROVE IInv'
  OBVIOUS
<1> USE SessionsAssumption
<1>1. CASE UNCHANGED vars
  BY <1>1, ClockIInv DEF vars, IInv, TypeOK, pairingVars, tokenVars, sessionVars
<1>2. ASSUME NEW p \in Pairings, RequestPairing(p) PROVE IInv'
  <2>1. /\ status' \in [Pairings -> Statuses]
        /\ requestedAt' \in [Pairings -> Nat]
    BY <1>2 DEF RequestPairing, IInv, TypeOK, Statuses
  <2>2. \A q \in Pairings : status'[q] = status[q]
              \/ (status[q] # "approved" /\ status'[q] # "approved")
    BY <1>2 DEF RequestPairing, IInv, TypeOK
  <2> QED
    BY <1>2, <2>1, <2>2, StatusIInv DEF RequestPairing
<1>3. ASSUME NEW p \in Pairings, Deny(p) PROVE IInv'
  <2>1. /\ status' \in [Pairings -> Statuses]
        /\ requestedAt' \in [Pairings -> Nat]
    BY <1>3 DEF Deny, IInv, TypeOK, Statuses
  <2>2. \A q \in Pairings : status'[q] = status[q]
              \/ (status[q] # "approved" /\ status'[q] # "approved")
    BY <1>3 DEF Deny, IInv, TypeOK
  <2> QED
    BY <1>3, <2>1, <2>2, StatusIInv DEF Deny
<1>4. ASSUME NEW p \in Pairings, NEW ttl \in Ttls, NEW t \in Tokens,
             Approve(p, ttl, t)
      PROVE  IInv'
  BY <1>4, ApproveIInv
<1>5. ASSUME NEW t \in Tokens, Disconnect(t) PROVE IInv'
  <2>1. session' = [s \in Tokens |-> IF s \in {t} THEN "closed" ELSE session[s]]
    BY <1>5 DEF Disconnect, IInv, TypeOK
  <2>2. IInv /\ {t} \in SUBSET Tokens
    OBVIOUS
  <2>3. /\ \A s \in {t} : session[s] = "open"
        /\ revokedIds' = revokedIds \cup {t}
        /\ UNCHANGED <<now, pairingVars, tokenVars>>
    BY <1>5 DEF Disconnect
  <2> QED
    BY <2>1, <2>2, <2>3, RevokeIInv
<1>6. CASE ListPending
  <2>1. status' \in [Pairings -> Statuses]
    BY <1>6 DEF ListPending, IInv, TypeOK, Statuses
  <2>2. \A q \in Pairings : status'[q] = status[q]
              \/ (status[q] # "approved" /\ status'[q] # "approved")
    BY <1>6 DEF ListPending, Stale
  <2> QED
    BY <1>6, <2>1, <2>2, StatusIInv DEF ListPending, IInv, TypeOK
<1>7. CASE CleanupExpired
  <2>1. Reaped \in SUBSET Tokens /\ \A t \in Reaped : session[t] = "open"
    BY DEF Reaped
  <2> QED
    BY <1>7, <2>1, RevokeIInv DEF CleanupExpired
<1>8. CASE Tick
  BY <1>8, ClockIInv DEF Tick, IInv, TypeOK
<1>9. CASE StepBack
  BY <1>9, ClockIInv DEF StepBack, IInv, TypeOK
<1> QED
  BY <1>1, <1>2, <1>3, <1>4, <1>5, <1>6, <1>7, <1>8, <1>9 DEF Next

THEOREM Invariance == Spec => []IInv
  BY InitIInv, NextIInv, PTL DEF Spec

-----------------------------------------------------------------------------
\* Every variable keeps its type.
THEOREM TypeCorrect == Spec => []TypeOK
<1>1. IInv => TypeOK
  BY DEF IInv
<1> QED
  BY <1>1, Invariance, PTL

\* Approvals and tokens are in bijection, whatever tabs and timers do.
THEOREM TokensMatchApprovals == Spec => []OneTokenPerApproval
<1>1. IInv => OneTokenPerApproval
  BY DEF IInv
<1> QED
  BY <1>1, Invariance, PTL

\* What the gate would accept, the human can disconnect.
THEOREM AccessIsRevocable == Spec => []UsableIsDisconnectable
<1>1. IInv => UsableIsDisconnectable
  BY DEF IInv, RegistryAgrees, UsableIsDisconnectable, Usable
<1> QED
  BY <1>1, Invariance, PTL

\* No step changes a decided pairing.
LEMMA DecidedKept ==
    ASSUME IInv, Next, NEW q \in Pairings, status[q] \in Decided
    PROVE  status'[q] = status[q] /\ minted'[q] = minted[q]
<1> USE DEF IInv, TypeOK, Decided
<1>1. ASSUME NEW p \in Pairings, RequestPairing(p)
      PROVE  status'[q] = status[q] /\ minted'[q] = minted[q]
  BY <1>1 DEF RequestPairing
<1>2. ASSUME NEW p \in Pairings, Deny(p)
      PROVE  status'[q] = status[q] /\ minted'[q] = minted[q]
  BY <1>2 DEF Deny
<1>3. ASSUME NEW p \in Pairings, NEW ttl \in Ttls, NEW t \in Tokens,
             Approve(p, ttl, t)
      PROVE  status'[q] = status[q] /\ minted'[q] = minted[q]
  BY <1>3 DEF Approve, MayApprove
<1>4. CASE ListPending
  BY <1>4 DEF ListPending, Stale
<1>5. CASE \E t \in Tokens : Disconnect(t)
  BY <1>5 DEF Disconnect, pairingVars
<1>6. CASE CleanupExpired \/ Tick \/ StepBack
  BY <1>6 DEF CleanupExpired, Tick, StepBack, pairingVars
<1> QED
  BY <1>1, <1>2, <1>3, <1>4, <1>5, <1>6 DEF Next

\* A decided pairing keeps its status and its token.
THEOREM DecisionsStand == Spec => DecisionsAreFinal
<1>1. IInv /\ [Next]_vars =>
        [\A p \in Pairings : status[p] \in Decided =>
            status'[p] = status[p] /\ minted'[p] = minted[p]]_vars
  BY DecidedKept
<1> QED
  BY <1>1, Invariance, PTL DEF Spec, DecisionsAreFinal

-----------------------------------------------------------------------------
\* What every step does to an issued token: its end is fixed, and it never
\* leaves the revocation list.
LEMMA IssuedStep ==
    ASSUME IInv, Next, NEW t \in issued
    PROVE  /\ t \in issued'
           /\ expiresAt'[t] = expiresAt[t]
           /\ t \in revokedIds => t \in revokedIds'
<1> USE DEF IInv, TypeOK, tokenVars, sessionVars
<1>1. CASE \E p \in Pairings : RequestPairing(p) \/ Deny(p)
  BY <1>1 DEF RequestPairing, Deny
<1>2. CASE \E p \in Pairings, ttl \in Ttls, s \in Tokens : Approve(p, ttl, s)
  BY <1>2 DEF Approve
<1>3. CASE \E s \in Tokens : Disconnect(s)
  BY <1>3 DEF Disconnect
<1>4. CASE ListPending \/ CleanupExpired \/ Tick \/ StepBack
  BY <1>4 DEF ListPending, CleanupExpired, Tick, StepBack
<1> QED
  BY <1>1, <1>2, <1>3, <1>4 DEF Next

\* Only a clock set back makes a dead token work again, and only one whose
\* session was never closed.
THEOREM DeadTokensStayDead == Spec => NoRevival
<1>1. IInv /\ [Next]_vars =>
        [\A t \in issued : (~Usable(t) /\ Usable(t)') =>
            now' < now /\ session[t] = "open"]_vars
  <2> SUFFICES ASSUME IInv, IInv', Next, NEW t \in issued, ~Usable(t), Usable(t)'
               PROVE  now' < now /\ session[t] = "open"
    BY NextIInv
  <2>1. t \notin revokedIds
    BY IssuedStep DEF Usable
  <2>2. session[t] = "open"
    BY <2>1 DEF IInv, RegistryAgrees
  <2>3. expiresAt[t] <= now
    BY <2>1 DEF Usable, Expired
  <2>4. ~(expiresAt[t] <= now')
    BY IssuedStep DEF Usable, Expired
  <2>5. now \in Nat /\ now' \in Nat /\ expiresAt[t] \in Nat
    BY DEF IInv, TypeOK
  <2> QED
    BY <2>2, <2>3, <2>4, <2>5
<1> QED
  BY <1>1, Invariance, PTL DEF Spec, NoRevival

-----------------------------------------------------------------------------
(* Sessions implements SessionAccess.                                      *)

\* The abstract access of each token, as Sessions!Abstract maps it.
Access == [t \in Tokens |->
             IF t \notin issued THEN "none"
             ELSE IF t \in revokedIds THEN "withdrawn" ELSE "granted"]

LEMMA InitAccess == Init => Abstract!Init
  BY DEF Init, Abstract!Init

\* The steps that leave tokens and sessions alone either move the clock or
\* stutter.
LEMMA SilentStep ==
    ASSUME now' \in Nat, UNCHANGED <<tokenVars, sessionVars>>
    PROVE  Abstract!SetClock
  BY DEF Abstract!SetClock, tokenVars, sessionVars

LEMMA ApproveGrants ==
    ASSUME IInv, NEW p \in Pairings, NEW ttl \in Ttls, NEW t \in Tokens,
           Approve(p, ttl, t)
    PROVE  Abstract!Grant(t)
<1> USE SessionsAssumption DEF IInv, TypeOK, Approve
<1>1. Access[t] = "none"
  BY DEF Access
<1>2. Access' = [Access EXCEPT ![t] = "granted"]
  BY DEF Access, RegistryAgrees
<1>3. \E end \in (now + MinTtl)..(now + MaxTtl) :
         expiresAt' = [expiresAt EXCEPT ![t] = end]
  BY ttl \in Nat, now + ttl \in (now + MinTtl)..(now + MaxTtl) DEF TtlAllowed
<1> QED
  BY <1>1, <1>2, <1>3 DEF Access, Abstract!Grant

LEMMA DisconnectWithdraws ==
    ASSUME IInv, NEW t \in Tokens, Disconnect(t)
    PROVE  Abstract!Withdraw(t)
<1> USE DEF IInv, TypeOK, RegistryAgrees, Disconnect, tokenVars
<1>1. t \in issued /\ t \notin revokedIds
  OBVIOUS
<1>2. Access[t] = "granted"
  BY <1>1 DEF Access
<1>3. Access' = [Access EXCEPT ![t] = "withdrawn"]
  BY <1>1 DEF Access
<1> QED
  BY <1>2, <1>3 DEF Access, Abstract!Withdraw

LEMMA CleanupReaps ==
    ASSUME IInv, CleanupExpired
    PROVE  Abstract!Reap
<1> USE DEF IInv, TypeOK, RegistryAgrees, CleanupExpired, tokenVars
<1>1. ASSUME NEW t \in Tokens
      PROVE  t \in Reaped <=> (Access[t] = "granted" /\ expiresAt[t] <= now)
  BY DEF Reaped, Expired, Access
<1>2. ASSUME NEW t \in Tokens
      PROVE  Access'[t] = IF Access[t] = "granted" /\ expiresAt[t] <= now
                          THEN "withdrawn" ELSE Access[t]
  BY <1>1 DEF Access
<1>3. Access' = [t \in Tokens |->
                   IF Access[t] = "granted" /\ expiresAt[t] <= now
                   THEN "withdrawn" ELSE Access[t]]
  BY <1>2 DEF Access
<1> QED
  BY <1>3 DEF Access, Abstract!Reap

LEMMA NextAccess == IInv /\ [Next]_vars => [Abstract!Next]_(Abstract!vars)
<1> SUFFICES ASSUME IInv, [Next]_vars PROVE [Abstract!Next]_(Abstract!vars)
  OBVIOUS
<1> USE DEF Abstract!Next
<1>1. CASE UNCHANGED vars
  BY <1>1 DEF vars, Abstract!vars
<1>2. CASE \E p \in Pairings : RequestPairing(p) \/ Deny(p)
  BY <1>2, SilentStep DEF RequestPairing, Deny, IInv, TypeOK
<1>3. CASE \E p \in Pairings, ttl \in Ttls, t \in Tokens : Approve(p, ttl, t)
  BY <1>3, ApproveGrants
<1>4. CASE \E t \in Tokens : Disconnect(t)
  BY <1>4, DisconnectWithdraws
<1>5. CASE CleanupExpired
  BY <1>5, CleanupReaps
<1>6. CASE ListPending
  BY <1>6, SilentStep DEF ListPending, IInv, TypeOK
<1>7. CASE Tick \/ StepBack
  BY <1>7, SilentStep DEF Tick, StepBack, IInv, TypeOK
<1> QED
  BY <1>1, <1>2, <1>3, <1>4, <1>5, <1>6, <1>7 DEF Next

\* Pairings, registry and revocation list together keep the abstract promise.
THEOREM Refinement == Spec => ImplementsAccess
  BY InitAccess, NextAccess, Invariance, PTL DEF Spec, ImplementsAccess, Abstract!Spec
=============================================================================
