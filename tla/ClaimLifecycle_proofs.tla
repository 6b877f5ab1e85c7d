------------------------ MODULE ClaimLifecycle_proofs ------------------------
(***************************************************************************)
(* Proofs about ClaimLifecycle, for every set of requests, calls and       *)
(* expiry runs, every duration and every lifetime of an exchange PIN.      *)
(***************************************************************************)
EXTENDS ClaimLifecycle, TLAPS

CallState ==
    [stage : Stages, request : Requests \union {None}, claim : Calls \union {None},
     at : Nat, via : Retrievals, seen : ClaimStatus, seenExpiry : Nat,
     late : BOOLEAN, shown : BOOLEAN]

ClaimRow ==
    [status : ClaimStatus, request : Requests \union {None},
     issuedAt : Nat, expiresAt : Nat, revokedAt : Nat]

(* A call in flight works on a request, or on a claim, according to its    *)
(* stage.                                                                  *)
Targeted(x) ==
    /\ x.stage \in {"pin", "approve", "deny"} => x.request \in Requests
    /\ x.stage \in {"revoke", "share", "resolve", "audit", "respond"} => x.claim \in Calls

TypeInv == TypeOK /\ \A k \in Calls : Targeted(call[k])

LEMMA CallFacts ==
  TypeInv => /\ call \in [Calls -> CallState]
             /\ \A j \in Calls : Targeted(call[j])
             /\ claim \in [Calls -> ClaimRow]
             /\ clock \in Nat
  BY DEF TypeInv, TypeOK, CallState, ClaimRow

(***************************************************************************)
(* What one call's step does to the table of calls.                        *)
(***************************************************************************)
LEMMA CallTable ==
  ASSUME TypeInv, NEW k \in Calls, NEW v \in CallState, Targeted(v),
         call' = [call EXCEPT ![k] = v]
  PROVE  /\ call' \in [Calls -> CallState]
         /\ \A j \in Calls : Targeted(call'[j])
         /\ call'[k] = v
         /\ \A j \in Calls : j # k => call'[j] = call[j]
<1>1. call \in [Calls -> CallState] /\ \A j \in Calls : Targeted(call[j])
  BY CallFacts
<1>2. call'[k] = v /\ \A j \in Calls : j # k => call'[j] = call[j]
  BY <1>1
<1>3. QED
  BY <1>1, <1>2

LEMMA DoneStep ==
  ASSUME TypeInv, NEW k \in Calls, Done(k)
  PROVE  /\ call' \in [Calls -> CallState]
         /\ \A j \in Calls : Targeted(call'[j])
         /\ call'[k] = [NewCall EXCEPT !.stage = "done"]
         /\ call'[k].stage = "done"
         /\ \A j \in Calls : j # k => call'[j] = call[j]
<1> DEFINE v == [NewCall EXCEPT !.stage = "done"]
<1>1. v \in CallState /\ v.stage = "done" /\ Targeted(v)
  BY DEF NewCall, CallState, Stages, Retrievals, ClaimStatus, Targeted
<1>2. call' = [call EXCEPT ![k] = v]
  BY DEF Done
<1> HIDE DEF v
<1>3. /\ call'[k] = v /\ call' \in [Calls -> CallState]
      /\ \A j \in Calls : Targeted(call'[j])
      /\ \A j \in Calls : j # k => call'[j] = call[j]
  BY <1>1, <1>2, CallTable
<1>4. QED
  BY <1>1, <1>3 DEF v

LEMMA EnterStep ==
  ASSUME TypeInv, NEW k \in Calls, NEW c \in Calls \union {None},
         NEW stage \in Stages, Enter(k, stage, c),
         stage = "approve" => call[k].request \in Requests,
         stage \in {"approve"} \/ (stage \in {"revoke", "share"} /\ c \in Calls)
  PROVE  /\ call' \in [Calls -> CallState]
         /\ \A j \in Calls : Targeted(call'[j])
         /\ call'[k].stage = stage /\ call'[k].claim = c /\ call'[k].at = clock
         /\ call'[k].shown = call[k].shown
         /\ \A j \in Calls : j # k => call'[j] = call[j]
<1> DEFINE v == [call[k] EXCEPT !.stage = stage, !.claim = c, !.at = clock]
<1>1. /\ v \in CallState /\ Targeted(v)
      /\ v.stage = stage /\ v.claim = c /\ v.at = clock /\ v.shown = call[k].shown
  BY CallFacts, ZenonT(30) DEF CallState, Targeted
<1>2. call' = [call EXCEPT ![k] = v]
  BY DEF Enter
<1> HIDE DEF v
<1>3. /\ call'[k] = v /\ call' \in [Calls -> CallState]
      /\ \A j \in Calls : Targeted(call'[j])
      /\ \A j \in Calls : j # k => call'[j] = call[j]
  BY <1>1, <1>2, CallTable
<1>4. QED
  BY <1>1, <1>3

LEMMA SnapshotStep ==
  ASSUME TypeInv, NEW k \in Calls, NEW c \in Calls, NEW stage \in {"audit", "respond"},
         NEW via \in Retrievals, NEW late \in BOOLEAN, Snapshot(k, c, stage, via, late)
  PROVE  /\ call' \in [Calls -> CallState]
         /\ \A j \in Calls : Targeted(call'[j])
         /\ call'[k].stage = stage /\ call'[k].claim = c /\ call'[k].via = via
         /\ call'[k].late <=> late
         /\ call'[k].seen = claim[c].status /\ call'[k].seenExpiry = claim[c].expiresAt
         /\ call'[k].at = call[k].at /\ call'[k].shown = call[k].shown
         /\ \A j \in Calls : j # k => call'[j] = call[j]
<1> DEFINE v == [call[k] EXCEPT !.stage = stage, !.claim = c, !.via = via,
                   !.late = late, !.seen = claim[c].status,
                   !.seenExpiry = claim[c].expiresAt]
<1>1. v \in CallState /\ Targeted(v)
  <2>1. call[k] \in CallState
    BY CallFacts
  <2>2. claim[c].status \in ClaimStatus /\ claim[c].expiresAt \in Nat
    BY CallFacts DEF ClaimRow
  <2>3. stage \in Stages
    BY DEF Stages
  <2>4. v \in CallState
    BY <2>1, <2>2, <2>3 DEF CallState
  <2>5. v.stage = stage /\ v.claim = c
    BY <2>1 DEF CallState
  <2>6. Targeted(v)
    BY <2>5 DEF Targeted
  <2>7. QED
    BY <2>4, <2>6
<1>2. call' = [call EXCEPT ![k] = v]
  BY DEF Snapshot
<1> HIDE DEF v
<1>3. /\ call'[k] = v /\ call' \in [Calls -> CallState]
      /\ \A j \in Calls : Targeted(call'[j])
      /\ \A j \in Calls : j # k => call'[j] = call[j]
  BY <1>1, <1>2, CallTable
<1>4. /\ v.stage = stage /\ v.claim = c /\ v.via = via
      /\ v.seen = claim[c].status /\ v.seenExpiry = claim[c].expiresAt
      /\ v.at = call[k].at /\ v.shown = call[k].shown
  BY CallFacts DEF v, CallState
<1>5. v.late <=> late
  BY CallFacts DEF v, CallState
<1>6. QED
  BY <1>3, <1>4, <1>5

LEMMA ResolveStep ==
  ASSUME TypeInv, NEW k \in Calls, NEW p \in exchangePins, BeginResolve(k, p)
  PROVE  /\ call' \in [Calls -> CallState]
         /\ \A j \in Calls : Targeted(call'[j])
         /\ call'[k] = [call[k] EXCEPT !.stage = "resolve", !.claim = p.claim,
                          !.at = clock, !.seenExpiry = p.expiresAt,
                          !.late = ~ InForce(p.claim)]
         /\ \A j \in Calls : j # k => call'[j] = call[j]
<1> DEFINE v == [call[k] EXCEPT !.stage = "resolve", !.claim = p.claim,
                   !.at = clock, !.seenExpiry = p.expiresAt,
                   !.late = ~ InForce(p.claim)]
<1>1. v \in CallState /\ Targeted(v)
  <2>1. call[k] \in CallState /\ clock \in Nat
    BY CallFacts
  <2>2. p.claim \in Calls /\ p.expiresAt \in Nat
    BY DEF TypeInv, TypeOK
  <2>3. ASSUME NEW b \in BOOLEAN
        PROVE  [call[k] EXCEPT !.stage = "resolve", !.claim = p.claim, !.at = clock,
                  !.seenExpiry = p.expiresAt, !.late = b] \in CallState
    BY <2>1, <2>2 DEF CallState, Stages
  <2>4. (~ InForce(p.claim)) \in BOOLEAN
    OBVIOUS
  <2>5. v \in CallState
    BY <2>3, <2>4
  <2>6. v.stage = "resolve" /\ v.claim = p.claim
    BY <2>1 DEF CallState
  <2>7. QED
    BY <2>2, <2>5, <2>6 DEF Targeted
<1>2. call' = [call EXCEPT ![k] = v]
  BY DEF BeginResolve
<1> HIDE DEF v
<1>3. /\ call'[k] = v /\ call' \in [Calls -> CallState]
      /\ \A j \in Calls : Targeted(call'[j])
      /\ \A j \in Calls : j # k => call'[j] = call[j]
  BY <1>1, <1>2, CallTable
<1>4. QED
  BY <1>3 DEF v

LEMMA RespondStep ==
  ASSUME TypeInv, NEW k \in Calls, Respond(k)
  PROVE  /\ call' \in [Calls -> CallState]
         /\ \A j \in Calls : Targeted(call'[j])
         /\ call'[k] = [NewCall EXCEPT !.stage = "done", !.via = call[k].via,
                          !.claim = call[k].claim, !.late = call[k].late,
                          !.shown = DetailsVisible(k)]
         /\ \A j \in Calls : j # k => call'[j] = call[j]
<1> DEFINE v == [NewCall EXCEPT !.stage = "done", !.via = call[k].via,
                   !.claim = call[k].claim, !.late = call[k].late,
                   !.shown = DetailsVisible(k)]
<1>1. v \in CallState /\ Targeted(v)
  <2>1. /\ call[k].via \in Retrievals
        /\ call[k].claim \in Calls \union {None}
        /\ call[k].late \in BOOLEAN
    BY CallFacts DEF CallState
  <2>2. ASSUME NEW via \in Retrievals, NEW c \in Calls \union {None},
               NEW late \in BOOLEAN, NEW shown \in BOOLEAN
        PROVE  [NewCall EXCEPT !.stage = "done", !.via = via, !.claim = c,
                  !.late = late, !.shown = shown] \in CallState
    BY DEF CallState, NewCall, Stages, ClaimStatus
  <2>3. DetailsVisible(k) \in BOOLEAN
    BY DEF DetailsVisible
  <2>4. v \in CallState
    BY <2>1, <2>2, <2>3
  <2>5. v.stage = "done"
    BY DEF NewCall
  <2>6. QED
    BY <2>4, <2>5 DEF Targeted
<1>2. call' = [call EXCEPT ![k] = v]
  BY DEF Respond
<1> HIDE DEF v
<1>3. /\ call'[k] = v /\ call' \in [Calls -> CallState]
      /\ \A j \in Calls : Targeted(call'[j])
      /\ \A j \in Calls : j # k => call'[j] = call[j]
  BY <1>1, <1>2, CallTable
<1>4. QED
  BY <1>3 DEF v

LEMMA BeginStep ==
  ASSUME TypeInv, NEW k \in Calls, NEW r \in Requests,
         BeginApprove(k, r) \/ BeginDeny(k, r)
  PROVE  /\ call' \in [Calls -> CallState]
         /\ \A j \in Calls : Targeted(call'[j])
         /\ call'[k].stage \in {"pin", "deny"}
         /\ call'[k].at \in {call[k].at, clock}
         /\ call'[k].request = r
         /\ call'[k].shown = call[k].shown
         /\ \A j \in Calls : j # k => call'[j] = call[j]
<1>1. call[k] \in CallState /\ clock \in Nat
  BY CallFacts
<1>2. CASE BeginApprove(k, r)
  <2> DEFINE v == [call[k] EXCEPT !.stage = "pin", !.request = r]
  <2>1. /\ v \in CallState
        /\ v.stage = "pin" /\ v.request = r /\ v.at = call[k].at /\ v.shown = call[k].shown
    BY <1>1 DEF CallState, Stages
  <2>2. Targeted(v)
    BY <2>1 DEF Targeted
  <2>3. call' = [call EXCEPT ![k] = v]
    BY <1>2 DEF BeginApprove
  <2> HIDE DEF v
  <2>4. QED
    BY <2>1, <2>2, <2>3, CallTable
<1>3. CASE BeginDeny(k, r)
  <2> DEFINE v == [call[k] EXCEPT !.stage = "deny", !.request = r, !.at = clock]
  <2>1. /\ v \in CallState
        /\ v.stage = "deny" /\ v.request = r /\ v.at = clock /\ v.shown = call[k].shown
    BY <1>1 DEF CallState, Stages
  <2>2. Targeted(v)
    BY <2>1 DEF Targeted
  <2>3. call' = [call EXCEPT ![k] = v]
    BY <1>3 DEF BeginDeny
  <2> HIDE DEF v
  <2>4. QED
    BY <2>1, <2>2, <2>3, CallTable
<1>4. QED
  BY <1>2, <1>3

LEMMA AuditStep ==
  ASSUME TypeInv, NEW k \in Calls, AuditRetrieval(k)
  PROVE  /\ call' \in [Calls -> CallState]
         /\ \A j \in Calls : Targeted(call'[j])
         /\ call'[k] = [call[k] EXCEPT !.stage = "respond"]
         /\ \A j \in Calls : j # k => call'[j] = call[j]
<1> DEFINE v == [call[k] EXCEPT !.stage = "respond"]
<1>1. v \in CallState /\ v.stage = "respond" /\ v.claim = call[k].claim
  BY CallFacts DEF CallState, Stages
<1>2. Targeted(v)
  BY <1>1, CallFacts DEF Targeted, AuditRetrieval
<1>3. call' = [call EXCEPT ![k] = v]
  BY CallFacts DEF AuditRetrieval
<1> HIDE DEF v
<1>4. /\ call'[k] = v /\ call' \in [Calls -> CallState]
      /\ \A j \in Calls : Targeted(call'[j])
      /\ \A j \in Calls : j # k => call'[j] = call[j]
  BY <1>1, <1>2, <1>3, CallTable
<1>5. QED
  BY <1>4 DEF v

(***************************************************************************)
(* Type correctness, one step per action.                                  *)
(***************************************************************************)
LEMMA InitTypeInv == Init => TypeInv
<1> SUFFICES ASSUME Init PROVE TypeInv
  OBVIOUS
<1>1. NewRequest \in [status : RequestStatus, expiresAt : Nat]
  BY DEF NewRequest, RequestStatus
<1>2. NoClaim \in ClaimRow /\ NoClaim.status = "none" /\ NoClaim.request = None
  BY DEF NoClaim, ClaimRow, ClaimStatus
<1>3. NewCall \in CallState /\ Targeted(NewCall)
  BY DEF NewCall, CallState, Stages, Retrievals, ClaimStatus, Targeted
<1>4. QED
  BY <1>1, <1>2, <1>3, NameAssumption
     DEF Init, TypeInv, TypeOK, CallState, ClaimRow, Exists

LEMMA RevokedRowFacts ==
  ASSUME TypeInv, NEW c \in Calls, NEW at \in Nat
  PROVE  /\ RevokedRow(c, at) \in ClaimRow
         /\ RevokedRow(c, at).status = "revoked"
         /\ RevokedRow(c, at).request = claim[c].request
         /\ RevokedRow(c, at).issuedAt = claim[c].issuedAt
         /\ RevokedRow(c, at).expiresAt = claim[c].expiresAt
<1>1. claim[c] \in ClaimRow
  BY CallFacts
<1>2. QED
  BY <1>1 DEF RevokedRow, ClaimRow, ClaimStatus

(* A step that writes no table keeps their types.                          *)
LEMMA TypeFromCalls ==
  ASSUME TypeInv, call' \in [Calls -> CallState], \A j \in Calls : Targeted(call'[j]),
         UNCHANGED <<tables, sweep>>, clock' \in Nat
  PROVE  TypeInv'
  BY DEF tables, TypeInv, TypeOK, CallState, Exists

LEMMA StepTypeInv == TypeInv /\ [Next]_vars => TypeInv'
<1> SUFFICES ASSUME TypeInv, [Next]_vars PROVE TypeInv'
  OBVIOUS
<1>clock. clock \in Nat
  BY CallFacts
<1>1. CASE Tick
  BY <1>1, <1>clock, CallFacts, TypeFromCalls DEF Tick
<1>2. ASSUME NEW r \in Requests, Create(r)
      PROVE  TypeInv'
  <2>1. PICK d \in Durations : request' = [request EXCEPT ![r] = PendingRequest(clock + d)]
    BY <1>2 DEF Create
  <2>2. PendingRequest(clock + d) \in [status : RequestStatus, expiresAt : Nat]
    BY <1>clock, TimeAssumption DEF PendingRequest, RequestStatus
  <2>3. request' \in [Requests -> [status : RequestStatus, expiresAt : Nat]]
    BY <2>1, <2>2 DEF TypeInv, TypeOK
  <2>4. audit' \subseteq [event : AuditEvents, subject : Requests \union Calls,
                          by : Calls \union Sweepers \union {None}]
    BY <1>2 DEF Create, Log, AuditEvents, TypeInv, TypeOK
  <2>5. QED
    BY <1>2, <2>3, <2>4 DEF Create, TypeInv, TypeOK, Exists
<1>3. ASSUME NEW k \in Calls, NEW r \in Requests, BeginApprove(k, r) \/ BeginDeny(k, r)
      PROVE  TypeInv'
  BY <1>3, <1>clock, BeginStep, TypeFromCalls DEF BeginApprove, BeginDeny
<1>4. ASSUME NEW k \in Calls, NEW accepted \in BOOLEAN, ValidatePIN(k, accepted)
      PROVE  TypeInv'
  <2>1. call[k].request \in Requests
    BY <1>4, CallFacts DEF ValidatePIN, Targeted
  <2>2. CASE Enter(k, "approve", None)
    BY <1>4, <1>clock, <2>1, <2>2, EnterStep, TypeFromCalls DEF ValidatePIN, Stages
  <2>3. CASE Done(k)
    BY <1>4, <1>clock, <2>3, DoneStep, TypeFromCalls DEF ValidatePIN
  <2>4. QED
    BY <1>4, <2>2, <2>3 DEF ValidatePIN
<1>5. ASSUME NEW k \in Calls, Approve(k)
      PROVE  TypeInv'
  <2> DEFINE r == call[k].request
             approvedAt == call[k].at
  <2>1. r \in Requests /\ approvedAt \in Nat
    BY <1>5, CallFacts DEF Approve, Targeted, CallState
  <2>2. call' \in [Calls -> CallState] /\ \A j \in Calls : Targeted(call'[j])
    BY <1>5, DoneStep DEF Approve
  <2>3. CASE UNCHANGED <<claim, consents, request, audit, outbox>>
    BY <1>5, <1>clock, <2>2, <2>3, TypeFromCalls DEF Approve, tables
  <2>4. CASE /\ claim' = [claim EXCEPT ![k] = IssuedClaim(r, approvedAt)]
             /\ consents' = consents \union {Consent(k, r)}
             /\ request' = DecidedAs(r, "approved_with_security_pin")
             /\ audit' = audit \union {Log("claim_request.approved", r, k)}
             /\ outbox' = outbox \union {Event("claim.approved", k, approvedAt, k)}
    <3>1. /\ IssuedClaim(r, approvedAt) \in ClaimRow
          /\ IssuedClaim(r, approvedAt).status = "active"
          /\ IssuedClaim(r, approvedAt).request = r
      BY <2>1 DEF IssuedClaim, ClaimRow, ClaimStatus, TypeInv, TypeOK
    <3>2. claim' \in [Calls -> ClaimRow]
      BY <2>4, <3>1, CallFacts
    <3>3. \A c \in Calls : claim'[c].status # "none" <=> claim'[c].request \in Requests
      BY <2>1, <2>4, <3>1 DEF TypeInv, TypeOK, Exists
    <3>4. request' \in [Requests -> [status : RequestStatus, expiresAt : Nat]]
      BY <2>1, <2>4, SMTT(30) DEF DecidedAs, RequestStatus, TypeInv, TypeOK
    <3>5. /\ consents' \subseteq [claim : Calls, request : Requests]
          /\ outbox' \subseteq [event : Events, claim : Calls, at : Nat,
                                by : Calls \union Sweepers]
          /\ audit' \subseteq [event : AuditEvents, subject : Requests \union Calls,
                               by : Calls \union Sweepers \union {None}]
      BY <2>1, <2>4 DEF Consent, Event, Log, Events, AuditEvents, TypeInv, TypeOK
    <3>6. QED
      BY <1>5, <2>2, <3>2, <3>3, <3>4, <3>5
         DEF Approve, TypeInv, TypeOK, CallState, ClaimRow, Exists
  <2>5. QED
    BY <1>5, <2>3, <2>4 DEF Approve
<1>6. ASSUME NEW k \in Calls, Deny(k)
      PROVE  TypeInv'
  <2> DEFINE r == call[k].request
  <2>1. r \in Requests
    BY <1>6, CallFacts DEF Deny, Targeted
  <2>2. call' \in [Calls -> CallState] /\ \A j \in Calls : Targeted(call'[j])
    BY <1>6, DoneStep DEF Deny
  <2>3. CASE UNCHANGED <<request, audit>>
    BY <1>6, <1>clock, <2>2, <2>3, TypeFromCalls DEF Deny, tables
  <2>4. CASE /\ request' = DecidedAs(r, "denied")
             /\ audit' = audit \union {Log("claim_request.denied", r, k)}
    <3>1. request' \in [Requests -> [status : RequestStatus, expiresAt : Nat]]
      BY <2>1, <2>4 DEF DecidedAs, RequestStatus, TypeInv, TypeOK
    <3>2. audit' \subseteq [event : AuditEvents, subject : Requests \union Calls,
                            by : Calls \union Sweepers \union {None}]
      BY <2>1, <2>4 DEF Log, AuditEvents, TypeInv, TypeOK
    <3>3. QED
      BY <1>6, <2>2, <3>1, <3>2 DEF Deny, TypeInv, TypeOK, CallState, Exists
  <2>5. QED
    BY <1>6, <2>3, <2>4 DEF Deny
<1>7. ASSUME NEW k \in Calls, NEW c \in Calls, BeginRevoke(k, c) \/ BeginShare(k, c)
      PROVE  TypeInv'
  <2>1. \/ Enter(k, "revoke", c) /\ "revoke" \in Stages
        \/ Enter(k, "share", c) /\ "share" \in Stages
    BY <1>7 DEF BeginRevoke, BeginShare, Stages
  <2>2. call' \in [Calls -> CallState] /\ \A j \in Calls : Targeted(call'[j])
    BY <2>1, EnterStep
  <2>3. QED
    BY <1>7, <1>clock, <2>2, TypeFromCalls DEF BeginRevoke, BeginShare
<1>8. ASSUME NEW k \in Calls, Revoke(k)
      PROVE  TypeInv'
  <2> DEFINE c == call[k].claim
             revokedAt == call[k].at
  <2>1. c \in Calls /\ revokedAt \in Nat
    BY <1>8, CallFacts DEF Revoke, Targeted, CallState
  <2>2. call' \in [Calls -> CallState] /\ \A j \in Calls : Targeted(call'[j])
    BY <1>8, DoneStep DEF Revoke
  <2>3. CASE UNCHANGED <<claim, audit, outbox>>
    BY <1>8, <1>clock, <2>2, <2>3, TypeFromCalls DEF Revoke, tables
  <2>4. CASE /\ ActiveAt(c, revokedAt)
             /\ claim' = [claim EXCEPT ![c] = RevokedRow(c, revokedAt)]
             /\ audit' = audit \union {Log("claim.revoked", c, k)}
             /\ outbox' = outbox \union {Event("claim.revoked", c, revokedAt, k)}
    <3>1. /\ RevokedRow(c, revokedAt) \in ClaimRow
          /\ RevokedRow(c, revokedAt).status = "revoked"
          /\ RevokedRow(c, revokedAt).request = claim[c].request
      BY <2>1, RevokedRowFacts
    <3>2. claim' \in [Calls -> ClaimRow]
      BY <2>4, <3>1, CallFacts
    <3>3. \A d \in Calls : claim'[d].status # "none" <=> claim'[d].request \in Requests
      BY <2>1, <2>4, <3>1 DEF ActiveAt, TypeInv, TypeOK, Exists
    <3>4. /\ outbox' \subseteq [event : Events, claim : Calls, at : Nat,
                                by : Calls \union Sweepers]
          /\ audit' \subseteq [event : AuditEvents, subject : Requests \union Calls,
                               by : Calls \union Sweepers \union {None}]
      BY <2>1, <2>4 DEF Event, Log, Events, AuditEvents, TypeInv, TypeOK
    <3>5. QED
      BY <1>8, <2>2, <3>2, <3>3, <3>4
         DEF Revoke, TypeInv, TypeOK, CallState, ClaimRow, Exists
  <2>5. QED
    BY <1>8, <2>3, <2>4 DEF Revoke
<1>9. ASSUME NEW s \in Sweepers, StartSweep(s) \/ LoseSweep(s)
      PROVE  TypeInv'
  <2>1. sweep' \in [Sweepers -> Nat]
    BY <1>9, <1>clock DEF StartSweep, LoseSweep, TypeInv, TypeOK
  <2>2. UNCHANGED <<clock, tables, call>>
    BY <1>9 DEF StartSweep, LoseSweep
  <2>3. QED
    BY <2>1, <2>2 DEF tables, TypeInv, TypeOK, Exists
<1>10. ASSUME NEW s \in Sweepers, ExpireDue(s)
       PROVE  TypeInv'
  <2> DEFINE due == {c \in Calls : Due(c, sweep[s])}
  <2>1. sweep[s] \in Nat
    BY DEF TypeInv, TypeOK
  <2>2. ASSUME NEW c \in Calls
        PROVE  /\ claim'[c] \in ClaimRow
               /\ claim'[c].status # "none" <=> claim'[c].request \in Requests
    <3>1. claim'[c] = IF c \in due THEN [claim[c] EXCEPT !.status = "expired"] ELSE claim[c]
      BY <1>10 DEF ExpireDue
    <3>2. claim[c] \in ClaimRow /\ (claim[c].status # "none" <=> claim[c].request \in Requests)
      BY CallFacts DEF TypeInv, TypeOK, Exists
    <3>3. CASE c \in due
      BY <3>1, <3>2, <3>3 DEF Due, ClaimRow, ClaimStatus
    <3>4. CASE c \notin due
      BY <3>1, <3>2, <3>4
    <3>5. QED
      BY <3>3, <3>4
  <2>3. claim' \in [Calls -> ClaimRow]
    BY <1>10, <2>2 DEF ExpireDue
  <2>4. outbox' \subseteq [event : Events, claim : Calls, at : Nat, by : Calls \union Sweepers]
    BY <1>10, <2>1 DEF ExpireDue, Event, Events, TypeInv, TypeOK
  <2>5. audit' \subseteq [event : AuditEvents, subject : Requests \union Calls,
                          by : Calls \union Sweepers \union {None}]
    BY <1>10 DEF ExpireDue, Log, AuditEvents, TypeInv, TypeOK
  <2>6. QED
    BY <1>10, <2>2, <2>3, <2>4, <2>5 DEF ExpireDue, TypeInv, TypeOK, ClaimRow, Exists
<1>11. ASSUME NEW k \in Calls, CreateExchangePIN(k)
       PROVE  TypeInv'
  <2> DEFINE c == call[k].claim
             createdAt == call[k].at
             pin == [pin |-> k, claim |-> c, createdAt |-> createdAt,
                     expiresAt |-> Earlier(createdAt + PinLifetime, claim[c].expiresAt)]
  <2>1. c \in Calls /\ createdAt \in Nat
    BY <1>11, CallFacts DEF CreateExchangePIN, Targeted, CallState
  <2>2. call' \in [Calls -> CallState] /\ \A j \in Calls : Targeted(call'[j])
    BY <1>11, DoneStep DEF CreateExchangePIN
  <2>3. pin \in [pin : Calls, claim : Calls, createdAt : Nat, expiresAt : Nat]
    BY <2>1, TimeAssumption, CallFacts DEF Earlier, ClaimRow
  <2>4. CASE UNCHANGED <<exchangePins, audit>>
    BY <1>11, <1>clock, <2>2, <2>4, TypeFromCalls DEF CreateExchangePIN, tables
  <2>5. CASE /\ exchangePins' = exchangePins \union {pin}
             /\ audit' = audit \union {Log("claim.exchange_pin_created", c, k)}
    <3>1. audit' \subseteq [event : AuditEvents, subject : Requests \union Calls,
                            by : Calls \union Sweepers \union {None}]
      BY <2>1, <2>5 DEF Log, AuditEvents, TypeInv, TypeOK
    <3>2. exchangePins' \subseteq [pin : Calls, claim : Calls, createdAt : Nat, expiresAt : Nat]
      BY <2>3, <2>5 DEF TypeInv, TypeOK
    <3>3. QED
      BY <1>11, <2>2, <3>1, <3>2
         DEF CreateExchangePIN, TypeInv, TypeOK, CallState, Exists
  <2>6. QED
    BY <1>11, <2>4, <2>5 DEF CreateExchangePIN
<1>12. ASSUME NEW k \in Calls, NEW c \in Calls, GetStatus(k, c) \/ List(k, c)
       PROVE  TypeInv'
  <2>1. PICK stage \in {"audit", "respond"}, via \in Retrievals :
             Snapshot(k, c, stage, via, ~ InForce(c))
    BY <1>12 DEF GetStatus, List, Retrievals
  <2>2. (~ InForce(c)) \in BOOLEAN
    OBVIOUS
  <2>3. call' \in [Calls -> CallState] /\ \A j \in Calls : Targeted(call'[j])
    BY <2>1, <2>2, SnapshotStep
  <2>4. QED
    BY <1>12, <1>clock, <2>3, TypeFromCalls DEF GetStatus, List
<1>13. ASSUME NEW k \in Calls, NEW p \in exchangePins, BeginResolve(k, p)
       PROVE  TypeInv'
  BY <1>13, <1>clock, ResolveStep, TypeFromCalls DEF BeginResolve
<1>14. ASSUME NEW k \in Calls, ResolveExchangePIN(k)
       PROVE  TypeInv'
  <2>1. call[k].claim \in Calls /\ call[k].late \in BOOLEAN
    BY <1>14, CallFacts DEF ResolveExchangePIN, Targeted, CallState
  <2>2. CASE Snapshot(k, call[k].claim, "audit", "exchange_pin", call[k].late)
    BY <1>14, <1>clock, <2>1, <2>2, SnapshotStep, TypeFromCalls
       DEF ResolveExchangePIN, Retrievals
  <2>3. CASE Done(k)
    BY <1>14, <1>clock, <2>3, DoneStep, TypeFromCalls DEF ResolveExchangePIN
  <2>4. QED
    BY <1>14, <2>2, <2>3 DEF ResolveExchangePIN
<1>15. ASSUME NEW k \in Calls, AuditRetrieval(k)
       PROVE  TypeInv'
  <2>1. call' \in [Calls -> CallState] /\ \A j \in Calls : Targeted(call'[j])
    BY <1>15, AuditStep
  <2>2. call[k].claim \in Calls
    BY <1>15, CallFacts DEF AuditRetrieval, Targeted
  <2>3. audit' \subseteq [event : AuditEvents, subject : Requests \union Calls,
                          by : Calls \union Sweepers \union {None}]
    BY <1>15, <2>2 DEF AuditRetrieval, Log, AuditEvents, TypeInv, TypeOK
  <2>4. QED
    BY <1>15, <2>1, <2>3 DEF AuditRetrieval, TypeInv, TypeOK, CallState, Exists
<1>16. ASSUME NEW k \in Calls, Respond(k)
       PROVE  TypeInv'
  BY <1>16, <1>clock, RespondStep, TypeFromCalls DEF Respond
<1>17. ASSUME NEW k \in Calls, LoseCall(k)
       PROVE  TypeInv'
  BY <1>17, <1>clock, DoneStep, TypeFromCalls DEF LoseCall
<1>18. CASE UNCHANGED vars
  BY <1>18, <1>clock, CallFacts, TypeFromCalls DEF vars
<1>19. QED
  BY <1>1, <1>2, <1>3, <1>4, <1>5, <1>6, <1>7, <1>8, <1>9, <1>10, <1>11, <1>12,
     <1>13, <1>14, <1>15, <1>16, <1>17, <1>18 DEF Next

LEMMA TypeInvariant == Spec => []TypeInv
  BY InitTypeInv, StepTypeInv, PTL DEF Spec

(* Every table and every call keeps its type in every behaviour.           *)
THEOREM TypeCorrect == Spec => []TypeOK
<1>1. TypeInv => TypeOK
  BY DEF TypeInv
<1>2. QED
  BY <1>1, TypeInvariant, PTL

(***************************************************************************)
(* A row of claims is inserted once, by a call that then is done; after    *)
(* that only its status and revokedAt change, and never back to active.    *)
(***************************************************************************)
Unissued == \A k \in Calls : call[k].stage # "done" => ~ Exists(k)

Persist ==
    \A c \in Calls : Exists(c) =>
        /\ claim'[c].status # "none"
        /\ claim'[c].status = "active" => claim[c].status = "active"
        /\ claim'[c].request = claim[c].request
        /\ claim'[c].issuedAt = claim[c].issuedAt
        /\ claim'[c].expiresAt = claim[c].expiresAt

(* What the steps do to claim: nothing, one insert, one revocation, or the *)
(* end of all that are due.                                                *)
Issues(k) ==
    /\ Approve(k)
    /\ claim[k].status = "none"
    /\ Open(call[k].request, call[k].at)
    /\ NoClaimFor(call[k].request)
    /\ claim' = [claim EXCEPT ![k] = IssuedClaim(call[k].request, call[k].at)]

Revokes(k) ==
    /\ Revoke(k)
    /\ ActiveAt(call[k].claim, call[k].at)
    /\ claim' = [claim EXCEPT ![call[k].claim] = RevokedRow(call[k].claim, call[k].at)]

LEMMA ClaimSteps ==
  ASSUME TypeInv, Unissued, [Next]_vars
  PROVE  \/ UNCHANGED claim
         \/ \E k \in Calls : Issues(k) \/ Revokes(k)
         \/ \E s \in Sweepers : ExpireDue(s)
<1>1. ASSUME NEW k \in Calls, Approve(k)
      PROVE  UNCHANGED claim \/ Issues(k)
  <2>1. claim[k].status = "none"
    BY <1>1 DEF Approve, Unissued, Exists
  <2>2. QED
    BY <1>1, <2>1 DEF Approve, Issues
<1>2. ASSUME NEW k \in Calls, Revoke(k)
      PROVE  UNCHANGED claim \/ Revokes(k)
  BY <1>2 DEF Revoke, Revokes
<1>3. QED
  BY <1>1, <1>2 DEF Next, vars, tables, Tick, Create, BeginApprove, BeginDeny,
     ValidatePIN, Deny, CreateExchangePIN, BeginRevoke, BeginShare, GetStatus, List,
     BeginResolve, ResolveExchangePIN, AuditRetrieval, Respond, LoseCall,
     StartSweep, LoseSweep

LEMMA PersistStep ==
  ASSUME TypeInv, Unissued, [Next]_vars
  PROVE  Persist
<1>1. CASE UNCHANGED claim
  BY <1>1 DEF Persist, Exists
<1>2. ASSUME NEW k \in Calls, Issues(k)
      PROVE  Persist
  BY <1>2, CallFacts DEF Issues, Persist, Exists
<1>3. ASSUME NEW k \in Calls, Revokes(k)
      PROVE  Persist
  <2> DEFINE c == call[k].claim
             row == RevokedRow(c, call[k].at)
  <2>1. c \in Calls /\ call[k].at \in Nat
    BY <1>3, CallFacts DEF Revokes, Revoke, Targeted, CallState
  <2>2. /\ row.status = "revoked" /\ row.request = claim[c].request
        /\ row.issuedAt = claim[c].issuedAt /\ row.expiresAt = claim[c].expiresAt
    BY <2>1, RevokedRowFacts
  <2>3. claim'[c] = row /\ \A d \in Calls : d # c => claim'[d] = claim[d]
    BY <1>3, <2>1, CallFacts DEF Revokes
  <2> HIDE DEF row, c
  <2>4. QED
    BY <2>2, <2>3 DEF Persist, Exists
<1>4. ASSUME NEW s \in Sweepers, ExpireDue(s)
      PROVE  Persist
  <2> SUFFICES ASSUME NEW c \in Calls, Exists(c)
               PROVE  /\ claim'[c].status # "none"
                      /\ claim'[c].status = "active" => claim[c].status = "active"
                      /\ claim'[c].request = claim[c].request
                      /\ claim'[c].issuedAt = claim[c].issuedAt
                      /\ claim'[c].expiresAt = claim[c].expiresAt
    BY DEF Persist
  <2>1. claim'[c] \in {[claim[c] EXCEPT !.status = "expired"], claim[c]}
    BY <1>4 DEF ExpireDue
  <2>2. QED
    BY <2>1, CallFacts DEF ClaimRow, Exists
<1>5. QED
  BY <1>1, <1>2, <1>3, <1>4, ClaimSteps

(***************************************************************************)
(* What a call in flight knows, given the rows of claims and the time.     *)
(* Its claim exists; a revocation or an exchange PIN is dated after the    *)
(* claim was issued; and what a late retrieval holds is past its end, so   *)
(* that no sanitizing clock can find it alive.  Details that were shown    *)
(* are those of a claim.                                                   *)
(***************************************************************************)
Knows(x, rows, now) ==
    /\ x.at <= now
    /\ x.stage \in {"revoke", "share", "resolve", "audit", "respond"}
          => rows[x.claim].status # "none"
    /\ x.stage \in {"revoke", "share"} => rows[x.claim].issuedAt <= x.at
    /\ x.stage = "resolve" /\ x.late
          => rows[x.claim].status # "active" \/ rows[x.claim].expiresAt <= x.at
    /\ x.stage \in {"audit", "respond"} /\ x.late /\ x.seen = "active"
          => x.seenExpiry <= now
    /\ x.shown => /\ x.stage = "done" /\ ~ x.late
                  /\ x.claim \in Calls /\ rows[x.claim].status # "none"

Lifetimes ==
    \A c \in Calls : Exists(c) =>
        claim[c].issuedAt <= clock /\ claim[c].issuedAt < claim[c].expiresAt

CallInv ==
    /\ TypeInv
    /\ Unissued
    /\ \A k \in Calls : Knows(call[k], claim, clock)
    /\ \A s \in Sweepers : sweep[s] <= clock
    /\ Lifetimes
    /\ ExchangePinWithinClaim

LEMMA InitCallInv == Init => CallInv
<1> SUFFICES ASSUME Init PROVE CallInv
  OBVIOUS
<1>1. TypeInv
  BY InitTypeInv
<1>2. \A c \in Calls : ~ Exists(c)
  BY DEF Init, Exists, NoClaim
<1>3. \A k \in Calls : Knows(call[k], claim, clock)
  BY DEF Init, NewCall, Knows
<1>4. QED
  BY <1>1, <1>2, <1>3 DEF Init, CallInv, Unissued, Lifetimes, ExchangePinWithinClaim

(* Time and the other calls do not take that knowledge away.               *)
LEMMA KnowsStill ==
  ASSUME TypeInv, TypeInv', Persist, clock <= clock',
         NEW x \in CallState, Targeted(x), Knows(x, claim, clock)
  PROVE  Knows(x, claim', clock')
<1>1. clock \in Nat /\ clock' \in Nat /\ x.at \in Nat /\ x.seenExpiry \in Nat
  BY CallFacts DEF TypeInv, TypeOK, CallState
<1>2. ASSUME x.stage \in {"revoke", "share", "resolve", "audit", "respond"} \/ x.shown
      PROVE  /\ x.claim \in Calls
             /\ claim'[x.claim].status # "none"
             /\ claim'[x.claim].status = "active" => claim[x.claim].status = "active"
             /\ claim'[x.claim].issuedAt = claim[x.claim].issuedAt
             /\ claim'[x.claim].expiresAt = claim[x.claim].expiresAt
  BY <1>2 DEF Targeted, Knows, Persist, Exists
<1>3. QED
  BY <1>1, <1>2 DEF Knows

LEMMA KnowsAll ==
  ASSUME CallInv, TypeInv', Persist, clock <= clock', NEW k \in Calls,
         Knows(call'[k], claim', clock'),
         \A j \in Calls : j # k => call'[j] = call[j]
  PROVE  \A j \in Calls : Knows(call'[j], claim', clock')
<1> SUFFICES ASSUME NEW j \in Calls, j # k
             PROVE  Knows(call[j], claim', clock')
  OBVIOUS
<1>1. call[j] \in CallState /\ Targeted(call[j]) /\ Knows(call[j], claim, clock)
  BY CallFacts DEF CallInv
<1>2. QED
  BY <1>1, KnowsStill DEF CallInv

LEMMA DoneKnows ==
  ASSUME NEW rows, NEW now \in Nat
  PROVE  Knows([NewCall EXCEPT !.stage = "done"], rows, now)
  BY DEF NewCall, Knows

(* A step that leaves claim alone keeps the rest of CallInv, too.          *)
LEMMA RestOfCallInv ==
  ASSUME CallInv, TypeInv', UNCHANGED <<claim, exchangePins>>, clock <= clock',
         \A s \in Sweepers : sweep'[s] <= clock',
         \A j \in Calls : Knows(call'[j], claim', clock'),
         \A j \in Calls : call[j].stage = "done" => call'[j].stage = "done"
  PROVE  CallInv'
<1>1. clock \in Nat /\ clock' \in Nat
  BY DEF CallInv, TypeInv, TypeOK
<1>2. Unissued'
  BY DEF CallInv, Unissued, Exists
<1>3. Lifetimes'
  <2> SUFFICES ASSUME NEW c \in Calls, Exists(c)
               PROVE  claim[c].issuedAt <= clock' /\ claim[c].issuedAt < claim[c].expiresAt
    BY DEF Lifetimes, Exists
  <2>1. claim[c].issuedAt \in Nat
    BY CallFacts DEF CallInv, ClaimRow
  <2>2. QED
    BY <1>1, <2>1 DEF CallInv, Lifetimes
<1>4. ExchangePinWithinClaim'
  BY DEF CallInv, ExchangePinWithinClaim, Exists
<1>5. QED
  BY <1>2, <1>3, <1>4 DEF CallInv

(* A step that ends claims, and issues none, keeps it too.                 *)
LEMMA RestWhenClaimsEnd ==
  ASSUME CallInv, TypeInv', Persist, UNCHANGED <<clock, exchangePins>>,
         \A s \in Sweepers : sweep'[s] <= clock',
         \A j \in Calls : Knows(call'[j], claim', clock'),
         \A j \in Calls : call[j].stage = "done" => call'[j].stage = "done",
         \A c \in Calls : claim'[c].status # "none" => Exists(c)
  PROVE  CallInv'
<1>1. Unissued'
  BY DEF CallInv, Unissued, Exists
<1>2. Lifetimes'
  BY DEF CallInv, Lifetimes, Exists, Persist
<1>3. ExchangePinWithinClaim'
  <2>1. \A p \in exchangePins : p.claim \in Calls
    BY DEF CallInv, TypeInv, TypeOK
  <2>2. QED
    BY <2>1 DEF CallInv, ExchangePinWithinClaim, Exists, Persist
<1>4. QED
  BY <1>1, <1>2, <1>3 DEF CallInv

LEMMA StepCallInv == CallInv /\ [Next]_vars => CallInv'
<1> SUFFICES ASSUME CallInv, [Next]_vars PROVE CallInv'
  OBVIOUS
<1>type. TypeInv /\ TypeInv'
  BY StepTypeInv DEF CallInv
<1>past. Persist
  BY PersistStep DEF CallInv
<1>clock. clock \in Nat /\ clock' \in Nat
  BY <1>type, CallFacts DEF TypeInv, TypeOK
<1>x. \A k \in Calls : call[k] \in CallState /\ Targeted(call[k]) /\ Knows(call[k], claim, clock)
  BY <1>type, CallFacts DEF CallInv
<1>s. \A s \in Sweepers : sweep[s] \in Nat /\ sweep[s] <= clock
  BY <1>type DEF TypeInv, TypeOK, CallInv
(* One call moves, claim, exchangePins, sweep and the clock do not.        *)
<1>moves. ASSUME NEW k \in Calls, call[k].stage # "done",
                 UNCHANGED <<clock, claim, exchangePins, sweep>>,
                 \A j \in Calls : j # k => call'[j] = call[j],
                 Knows(call'[k], claim, clock)
          PROVE  CallInv'
  <2>1. \A j \in Calls : Knows(call'[j], claim', clock')
    BY <1>moves, <1>x
  <2>2. QED
    BY <1>moves, <1>type, <1>clock, <1>s, <2>1, RestOfCallInv
<1>ends. ASSUME NEW k \in Calls, call[k].stage # "done", Done(k),
                UNCHANGED <<clock, claim, exchangePins, sweep>>
         PROVE  CallInv'
  BY <1>ends, <1>type, <1>clock, <1>moves, DoneStep, DoneKnows
<1>1. CASE Tick
  <2>1. \A j \in Calls : Knows(call'[j], claim', clock')
    BY <1>1, <1>type, <1>past, <1>clock, <1>x, KnowsStill DEF Tick
  <2>2. QED
    BY <1>1, <1>type, <1>clock, <1>s, <2>1, RestOfCallInv DEF Tick, tables
<1>2. ASSUME NEW r \in Requests, Create(r)
      PROVE  CallInv'
  BY <1>2, <1>type, <1>clock, <1>x, <1>s, RestOfCallInv DEF Create
<1>3. ASSUME NEW k \in Calls, NEW r \in Requests, BeginApprove(k, r) \/ BeginDeny(k, r)
      PROVE  CallInv'
  <2>1. Knows(call'[k], claim, clock)
    <3>1. /\ call'[k].stage \in {"pin", "deny"}
          /\ call'[k].at \in {call[k].at, clock}
          /\ call'[k].shown = call[k].shown
      BY <1>3, <1>type, BeginStep
    <3>2. call[k].at <= clock /\ ~ call[k].shown
      BY <1>3, <1>x DEF Knows, BeginApprove, BeginDeny
    <3>3. call'[k].at <= clock
      BY <1>clock, <3>1, <3>2
    <3>4. QED
      BY <3>1, <3>2, <3>3 DEF Knows
  <2>2. QED
    BY <1>3, <1>type, <2>1, <1>moves, BeginStep DEF BeginApprove, BeginDeny, tables
<1>4. ASSUME NEW k \in Calls, NEW accepted \in BOOLEAN, ValidatePIN(k, accepted)
      PROVE  CallInv'
  <2>1. CASE Enter(k, "approve", None)
    <3>1. /\ call'[k].stage = "approve" /\ call'[k].at = clock
          /\ call'[k].shown = call[k].shown
          /\ \A j \in Calls : j # k => call'[j] = call[j]
      <4>1. call[k].request \in Requests /\ "approve" \in Stages
        BY <1>4, <1>x DEF ValidatePIN, Targeted, Stages
      <4>2. QED
        BY <1>type, <2>1, <4>1, EnterStep
    <3>2. Knows(call'[k], claim, clock)
      <4>1. ~ call[k].shown
        BY <1>4, <1>x DEF Knows, ValidatePIN
      <4>2. QED
        BY <1>clock, <3>1, <4>1 DEF Knows
    <3>3. QED
      BY <1>4, <1>moves, <3>1, <3>2 DEF ValidatePIN, tables
  <2>2. CASE Done(k)
    BY <1>4, <2>2, <1>ends DEF ValidatePIN, tables
  <2>3. QED
    BY <1>4, <2>1, <2>2 DEF ValidatePIN
<1>5. ASSUME NEW k \in Calls, Approve(k)
      PROVE  CallInv'
  <2>1. CASE UNCHANGED claim
    BY <1>5, <2>1, <1>ends DEF Approve
  <2>2. CASE Issues(k)
    <3> DEFINE r == call[k].request
               row == IssuedClaim(r, call[k].at)
    <3>1. /\ r \in Requests /\ call[k].at \in Nat /\ call[k].at <= clock
          /\ request[r].expiresAt \in Nat
      BY <1>5, <1>type, <1>x DEF Approve, Targeted, CallState, Knows, TypeInv, TypeOK
    <3>2. /\ row.status = "active" /\ row.issuedAt = call[k].at
          /\ row.expiresAt = request[r].expiresAt /\ row.issuedAt < row.expiresAt
      BY <2>2, <3>1 DEF IssuedClaim, Issues, Open, Unexpired
    <3>3. claim'[k] = row /\ \A c \in Calls : c # k => claim'[c] = claim[c]
      BY <2>2, <1>type, CallFacts DEF Issues
    <3>4. /\ call'[k].stage = "done"
          /\ \A j \in Calls : j # k => call'[j] = call[j]
          /\ Knows(call'[k], claim', clock')
      <4>1. /\ call'[k] = [NewCall EXCEPT !.stage = "done"]
            /\ call'[k].stage = "done"
            /\ \A j \in Calls : j # k => call'[j] = call[j]
        BY <1>5, <1>type, DoneStep DEF Approve
      <4>2. Knows(call'[k], claim', clock')
        BY <1>clock, <4>1, DoneKnows
      <4>3. QED
        BY <4>1, <4>2
    <3>5. \A j \in Calls : Knows(call'[j], claim', clock')
      BY <1>5, <1>type, <1>past, <1>clock, <3>4, KnowsAll DEF Approve
    <3> HIDE DEF row, r
    <3>6. Unissued'
      BY <3>3, <3>4 DEF CallInv, Unissued, Exists
    <3>7. Lifetimes'
      BY <1>5, <3>1, <3>2, <3>3 DEF CallInv, Lifetimes, Exists, Approve
    <3>8. ExchangePinWithinClaim'
      <4>1. \A p \in exchangePins : p.claim \in Calls /\ p.claim # k
        BY <2>2, <1>type DEF CallInv, ExchangePinWithinClaim, Exists, TypeInv, TypeOK, Issues
      <4>2. QED
        BY <1>5, <3>3, <4>1 DEF CallInv, ExchangePinWithinClaim, Exists, Approve
    <3>9. QED
      BY <1>5, <1>type, <3>5, <3>6, <3>7, <3>8 DEF CallInv, Approve
  <2>3. QED
    BY <1>5, <2>1, <2>2 DEF Approve, CallInv, Issues, Unissued, Exists
<1>6. ASSUME NEW k \in Calls, Deny(k)
      PROVE  CallInv'
  BY <1>6, <1>ends DEF Deny
<1>7. ASSUME NEW k \in Calls, NEW c \in Calls, BeginRevoke(k, c) \/ BeginShare(k, c)
      PROVE  CallInv'
  <2>1. PICK stage \in {"revoke", "share"} : Enter(k, stage, c)
    BY <1>7 DEF BeginRevoke, BeginShare
  <2>2. stage \in Stages
    BY DEF Stages
  <2>3. /\ call'[k].stage = stage /\ call'[k].claim = c /\ call'[k].at = clock
        /\ call'[k].shown = call[k].shown
        /\ \A j \in Calls : j # k => call'[j] = call[j]
    BY <1>type, <2>1, <2>2, EnterStep
  <2>4. ~ call[k].shown /\ claim[c].status # "none"
    BY <1>7, <1>x DEF Knows, BeginRevoke, BeginShare, Exists
  <2>5. claim[c].issuedAt <= clock
    BY <2>4 DEF CallInv, Lifetimes, Exists
  <2>6. Knows(call'[k], claim, clock)
    BY <1>clock, <2>3, <2>4, <2>5 DEF Knows
  <2>7. QED
    BY <1>7, <1>moves, <2>3, <2>6 DEF BeginRevoke, BeginShare, tables
<1>8. ASSUME NEW k \in Calls, Revoke(k)
      PROVE  CallInv'
  <2>1. CASE UNCHANGED claim
    BY <1>8, <2>1, <1>ends DEF Revoke
  <2>2. CASE Revokes(k)
    <3>1. /\ call'[k] = [NewCall EXCEPT !.stage = "done"]
          /\ call'[k].stage = "done"
          /\ \A j \in Calls : j # k => call'[j] = call[j]
      BY <1>8, <1>type, DoneStep DEF Revoke
    <3>2. Knows(call'[k], claim', clock')
      BY <1>clock, <3>1, DoneKnows
    <3>3. \A j \in Calls : Knows(call'[j], claim', clock')
      BY <1>8, <1>type, <1>past, <1>clock, <3>1, <3>2, KnowsAll DEF Revoke
    <3>4. \A c \in Calls : claim'[c].status # "none" => Exists(c)
      <4>1. call[k].claim \in Calls
        BY <1>8, <1>x DEF Revoke, Targeted
      <4>2. claim[call[k].claim].status = "active"
        BY <2>2 DEF Revokes, ActiveAt
      <4>3. \A c \in Calls : c # call[k].claim => claim'[c] = claim[c]
        BY <2>2, <1>type, CallFacts DEF Revokes
      <4>4. QED
        BY <4>1, <4>2, <4>3 DEF Exists
    <3>5. QED
      BY <1>8, <1>type, <1>past, <1>s, <3>1, <3>2, <3>3, <3>4, RestWhenClaimsEnd DEF Revoke
  <2>3. QED
    BY <1>8, <2>1, <2>2 DEF Revoke, Revokes
<1>9. ASSUME NEW s \in Sweepers, StartSweep(s) \/ LoseSweep(s)
      PROVE  CallInv'
  <2>1. \A t \in Sweepers : sweep'[t] <= clock'
    BY <1>9, <1>type, <1>clock, <1>s DEF StartSweep, LoseSweep, TypeInv, TypeOK
  <2>2. QED
    BY <1>9, <1>type, <1>clock, <1>x, <2>1, RestOfCallInv DEF StartSweep, LoseSweep, tables
<1>10. ASSUME NEW s \in Sweepers, ExpireDue(s)
       PROVE  CallInv'
  <2>1. \A t \in Sweepers : sweep'[t] <= clock'
    BY <1>10, <1>type, <1>clock, <1>s DEF ExpireDue, TypeInv, TypeOK
  <2>2. \A c \in Calls : claim'[c].status # "none" => Exists(c)
    BY <1>10 DEF ExpireDue, Due, Exists
  <2>3. \A j \in Calls : Knows(call'[j], claim', clock')
    BY <1>10, <1>type, <1>past, <1>clock, <1>x, KnowsStill DEF ExpireDue
  <2>4. QED
    BY <1>10, <1>type, <1>past, <2>1, <2>2, <2>3, RestWhenClaimsEnd DEF ExpireDue
<1>11. ASSUME NEW k \in Calls, CreateExchangePIN(k)
       PROVE  CallInv'
  <2> DEFINE c == call[k].claim
             createdAt == call[k].at
             pin == [pin |-> k, claim |-> c, createdAt |-> createdAt,
                     expiresAt |-> Earlier(createdAt + PinLifetime, claim[c].expiresAt)]
  <2>1. CASE UNCHANGED exchangePins
    BY <1>11, <2>1, <1>ends DEF CreateExchangePIN
  <2>2. CASE ActiveAt(c, createdAt) /\ exchangePins' = exchangePins \union {pin}
    <3>1. /\ call'[k] = [NewCall EXCEPT !.stage = "done"]
          /\ call'[k].stage = "done"
          /\ \A j \in Calls : j # k => call'[j] = call[j]
      BY <1>11, <1>type, DoneStep DEF CreateExchangePIN
    <3>2. Knows(call'[k], claim', clock')
      BY <1>clock, <3>1, DoneKnows
    <3>3. \A j \in Calls : Knows(call'[j], claim', clock')
      BY <1>11, <1>type, <1>past, <1>clock, <3>1, <3>2, KnowsAll DEF CreateExchangePIN
    <3>4. c \in Calls /\ createdAt \in Nat /\ claim[c].expiresAt \in Nat
      BY <1>11, <1>type, <1>x, CallFacts DEF CreateExchangePIN, Targeted, CallState, ClaimRow
    <3>5. /\ Exists(c)
          /\ claim[c].issuedAt <= createdAt
          /\ createdAt < claim[c].expiresAt
      BY <1>11, <1>x, <2>2 DEF CreateExchangePIN, Knows, ActiveAt, Unexpired, Exists
    <3>6. /\ createdAt < pin.expiresAt
          /\ pin.expiresAt <= claim[c].expiresAt
          /\ pin.expiresAt <= createdAt + PinLifetime
      BY <3>4, <3>5, TimeAssumption DEF Earlier
    <3>7. ExchangePinWithinClaim'
      <4>1. UNCHANGED claim
        BY <1>11 DEF CreateExchangePIN
      <4>2. pin.claim = c /\ pin.createdAt = createdAt
        OBVIOUS
      <4> HIDE DEF pin, c, createdAt
      <4>3. QED
        BY <2>2, <3>5, <3>6, <4>1, <4>2 DEF CallInv, ExchangePinWithinClaim, Exists
    <3>8. Unissued'
      BY <1>11, <3>1, <3>2 DEF CallInv, Unissued, Exists, CreateExchangePIN
    <3>9. Lifetimes'
      BY <1>11 DEF CallInv, Lifetimes, Exists, CreateExchangePIN
    <3>10. QED
      BY <1>11, <1>type, <3>3, <3>7, <3>8, <3>9 DEF CallInv, CreateExchangePIN
  <2>3. QED
    BY <1>11, <2>1, <2>2 DEF CreateExchangePIN
<1>12. ASSUME NEW k \in Calls, NEW c \in Calls, GetStatus(k, c) \/ List(k, c)
       PROVE  CallInv'
  <2>1. PICK late \in BOOLEAN : late = ~ InForce(c)
    OBVIOUS
  <2>2. PICK stage \in {"audit", "respond"}, via \in Retrievals :
             Snapshot(k, c, stage, via, late)
    BY <1>12, <2>1 DEF GetStatus, List, Retrievals
  <2>3. /\ call'[k].stage = stage /\ call'[k].claim = c /\ call'[k].at = call[k].at
        /\ call'[k].seen = claim[c].status /\ call'[k].seenExpiry = claim[c].expiresAt
        /\ call'[k].shown = call[k].shown
        /\ call'[k].late <=> late
        /\ \A j \in Calls : j # k => call'[j] = call[j]
    BY <1>type, <2>2, SnapshotStep
  <2>4. call'[k].late => claim[c].status # "active" \/ ~ (claim[c].expiresAt > clock)
    BY <2>1, <2>3 DEF InForce, Unexpired
  <2>5. /\ call[k].at <= clock /\ ~ call[k].shown /\ claim[c].status # "none"
        /\ claim[c].expiresAt \in Nat
    BY <1>12, <1>type, <1>x, CallFacts DEF Knows, GetStatus, List, Exists, ClaimRow
  <2>6. Knows(call'[k], claim, clock)
    BY <1>clock, <2>3, <2>4, <2>5 DEF Knows
  <2>7. QED
    BY <1>12, <1>moves, <2>3, <2>6 DEF GetStatus, List, tables
<1>13. ASSUME NEW k \in Calls, NEW p \in exchangePins, BeginResolve(k, p)
       PROVE  CallInv'
  <2> DEFINE v == [call[k] EXCEPT !.stage = "resolve", !.claim = p.claim,
                     !.at = clock, !.seenExpiry = p.expiresAt,
                     !.late = ~ InForce(p.claim)]
  <2>1. call'[k] = v /\ \A j \in Calls : j # k => call'[j] = call[j]
    BY <1>13, <1>type, ResolveStep
  <2>2. v.stage = "resolve" /\ v.claim = p.claim /\ v.at = clock /\ v.shown = call[k].shown
    BY <1>x DEF CallState
  <2>3. v.late => claim[p.claim].status # "active" \/ ~ (claim[p.claim].expiresAt > clock)
    BY <1>x DEF CallState, InForce, Unexpired
  <2>4. p.claim \in Calls /\ claim[p.claim].status # "none" /\ claim[p.claim].expiresAt \in Nat
    BY <1>type, CallFacts DEF CallInv, ExchangePinWithinClaim, Exists, TypeInv, TypeOK, ClaimRow
  <2>5. ~ call[k].shown
    BY <1>13, <1>x DEF Knows, BeginResolve
  <2> HIDE DEF v
  <2>6. Knows(v, claim, clock)
    BY <1>clock, <2>2, <2>3, <2>4, <2>5 DEF Knows
  <2>7. QED
    BY <1>13, <1>moves, <2>1, <2>6 DEF BeginResolve, tables
<1>14. ASSUME NEW k \in Calls, ResolveExchangePIN(k)
       PROVE  CallInv'
  <2> DEFINE c == call[k].claim
  <2>1. CASE /\ ActiveAt(c, call[k].at)
             /\ Snapshot(k, c, "audit", "exchange_pin", call[k].late)
    <3>1. c \in Calls /\ call[k].late \in BOOLEAN
      BY <1>14, <1>x DEF ResolveExchangePIN, Targeted, CallState
    <3>2. "exchange_pin" \in Retrievals
      BY DEF Retrievals
    <3>3. /\ call'[k].stage = "audit" /\ call'[k].claim = c /\ call'[k].at = call[k].at
          /\ call'[k].shown = call[k].shown
          /\ call'[k].late <=> call[k].late
          /\ \A j \in Calls : j # k => call'[j] = call[j]
      BY <1>type, <2>1, <3>1, <3>2, SnapshotStep
    <3>4. ~ call[k].late
      <4>1. claim[c].expiresAt \in Nat /\ call[k].at \in Nat
        BY <1>type, <1>x, <3>1, CallFacts DEF ClaimRow, CallState
      <4>2. QED
        BY <1>14, <1>x, <2>1, <4>1 DEF ResolveExchangePIN, Knows, ActiveAt, Unexpired
    <3>5. /\ call[k].at <= clock /\ ~ call[k].shown /\ claim[c].status # "none"
      BY <1>14, <1>x DEF ResolveExchangePIN, Knows
    <3>6. Knows(call'[k], claim, clock)
      BY <3>3, <3>4, <3>5 DEF Knows
    <3>7. QED
      BY <1>14, <1>moves, <3>3, <3>6 DEF ResolveExchangePIN, tables
  <2>2. CASE Done(k)
    BY <1>14, <2>2, <1>ends DEF ResolveExchangePIN, tables
  <2>3. QED
    BY <1>14, <2>1, <2>2 DEF ResolveExchangePIN
<1>15. ASSUME NEW k \in Calls, AuditRetrieval(k)
       PROVE  CallInv'
  <2>1. /\ call'[k] = [call[k] EXCEPT !.stage = "respond"]
        /\ \A j \in Calls : j # k => call'[j] = call[j]
    BY <1>15, <1>type, AuditStep
  <2>2. Knows(call'[k], claim, clock)
    BY <1>15, <1>x, <2>1 DEF AuditRetrieval, Knows, CallState
  <2>3. QED
    BY <1>15, <1>moves, <2>1, <2>2 DEF AuditRetrieval
<1>16. ASSUME NEW k \in Calls, Respond(k)
       PROVE  CallInv'
  <2> DEFINE v == [NewCall EXCEPT !.stage = "done", !.via = call[k].via,
                     !.claim = call[k].claim, !.late = call[k].late,
                     !.shown = DetailsVisible(k)]
  <2>1. call'[k] = v /\ \A j \in Calls : j # k => call'[j] = call[j]
    BY <1>16, <1>type, RespondStep
  <2>2. v.stage = "done" /\ v.at = 0 /\ v.late = call[k].late /\ v.claim = call[k].claim
    BY DEF NewCall
  <2>3. v.shown => call[k].seen = "active" /\ call[k].seenExpiry > clock
    BY DEF NewCall, DetailsVisible
  <2>4. call[k].late /\ call[k].seen = "active" => call[k].seenExpiry <= clock
    BY <1>16, <1>x DEF Respond, Knows
  <2>5. /\ call[k].seenExpiry \in Nat
        /\ call[k].claim \in Calls /\ claim[call[k].claim].status # "none"
    BY <1>16, <1>x DEF CallState, Respond, Targeted, Knows
  <2> HIDE DEF v
  <2>6. Knows(v, claim, clock)
    BY <1>clock, <2>2, <2>3, <2>4, <2>5 DEF Knows
  <2>7. QED
    BY <1>16, <1>moves, <2>1, <2>6 DEF Respond, tables
<1>17. ASSUME NEW k \in Calls, LoseCall(k)
       PROVE  CallInv'
  BY <1>17, <1>ends DEF LoseCall, tables
<1>18. CASE UNCHANGED vars
  BY <1>18, <1>type, <1>clock, <1>x, <1>s, RestOfCallInv DEF vars, tables
<1>19. QED
  BY <1>1, <1>2, <1>3, <1>4, <1>5, <1>6, <1>7, <1>8, <1>9, <1>10, <1>11, <1>12,
     <1>13, <1>14, <1>15, <1>16, <1>17, <1>18 DEF Next

LEMMA CallInvariant == Spec => []CallInv
  BY InitCallInv, StepCallInv, PTL DEF Spec

(* Whatever the interleaving, an exchange PIN is made in the life of its   *)
(* claim and outlives neither the claim nor its own lifetime.              *)
THEOREM ExchangePinBounded == Spec => []ExchangePinWithinClaim
<1>1. CallInv => ExchangePinWithinClaim
  BY DEF CallInv
<1>2. QED
  BY <1>1, CallInvariant, PTL

(* No retrieval that began after a claim had ended shows its details.      *)
THEOREM DetailsProtected == Spec => []NoDetailsAfterEnd
<1>1. CallInv => NoDetailsAfterEnd
  BY DEF CallInv, Knows, NoDetailsAfterEnd
<1>2. QED
  BY <1>1, CallInvariant, PTL

(***************************************************************************)
(* The books: requests, claims, consents and the outbox.  Only five kinds  *)
(* of step write them.                                                     *)
(***************************************************************************)
Books == <<request, claim, consents, outbox>>

Issuing(k) ==
    LET r == call[k].request IN
    /\ Issues(k)
    /\ consents' = consents \union {Consent(k, r)}
    /\ request' = DecidedAs(r, "approved_with_security_pin")
    /\ outbox' = outbox \union {Event("claim.approved", k, call[k].at, k)}

Denying(k) ==
    LET r == call[k].request IN
    /\ Deny(k)
    /\ request[r].status = "pending_approval"
    /\ request' = DecidedAs(r, "denied")

Revoking(k) ==
    LET c == call[k].claim IN
    /\ Revokes(k)
    /\ outbox' = outbox \union {Event("claim.revoked", c, call[k].at, k)}

LEMMA BookSteps ==
  ASSUME TypeInv, Unissued, [Next]_vars
  PROVE  \/ UNCHANGED Books
         \/ \E r \in Requests : Create(r)
         \/ \E k \in Calls : Issuing(k) \/ Denying(k) \/ Revoking(k)
         \/ \E s \in Sweepers : ExpireDue(s)
<1>1. ASSUME NEW k \in Calls, Approve(k)
      PROVE  UNCHANGED Books \/ Issuing(k)
  <2>1. claim[k].status = "none"
    BY <1>1 DEF Approve, Unissued, Exists
  <2>2. QED
    BY <1>1, <2>1 DEF Approve, Issues, Issuing, Books
<1>2. ASSUME NEW k \in Calls, Deny(k)
      PROVE  UNCHANGED Books \/ Denying(k)
  BY <1>2 DEF Deny, Denying, Open, Books
<1>3. ASSUME NEW k \in Calls, Revoke(k)
      PROVE  UNCHANGED Books \/ Revoking(k)
  BY <1>3 DEF Revoke, Revokes, Revoking, Books
<1>4. QED
  BY <1>1, <1>2, <1>3, ZenonT(30) DEF Next, vars, tables, Books, Tick, BeginApprove, BeginDeny,
     ValidatePIN, CreateExchangePIN, BeginRevoke, BeginShare, GetStatus, List,
     BeginResolve, ResolveExchangePIN, AuditRetrieval, Respond, LoseCall,
     StartSweep, LoseSweep

(* What one insert, and what the end of claims, do to the rows of claims.  *)
LEMMA IssuedRow ==
  ASSUME TypeInv, NEW k \in Calls, Issues(k)
  PROVE  LET r == call[k].request IN
         /\ r \in Requests
         /\ request[r].status = "pending_approval"
         /\ claim[k].status = "none"
         /\ claim'[k].status = "active"
         /\ claim'[k].request = r
         /\ claim'[k].issuedAt = call[k].at
         /\ claim'[k].expiresAt = request[r].expiresAt
         /\ \A c \in Calls : c # k => claim'[c] = claim[c]
         /\ \A c \in Calls : claim[c].request # r
<1>1. call[k].request \in Requests
  BY CallFacts DEF Issues, Approve, Targeted
<1>2. claim'[k] = IssuedClaim(call[k].request, call[k].at)
      /\ \A c \in Calls : c # k => claim'[c] = claim[c]
  BY CallFacts DEF Issues
<1>3. QED
  BY <1>1, <1>2 DEF Issues, IssuedClaim, Open, NoClaimFor

LEMMA EndedRows ==
  ASSUME TypeInv, \/ \E k \in Calls : Revokes(k)
                  \/ \E s \in Sweepers : ExpireDue(s)
  PROVE  \A c \in Calls :
            /\ claim'[c].status # "none" <=> claim[c].status # "none"
            /\ claim'[c].request = claim[c].request
<1>1. ASSUME NEW k \in Calls, Revokes(k)
      PROVE  \A c \in Calls :
                /\ claim'[c].status # "none" <=> claim[c].status # "none"
                /\ claim'[c].request = claim[c].request
  <2> DEFINE c == call[k].claim
             row == RevokedRow(c, call[k].at)
  <2>1. c \in Calls /\ call[k].at \in Nat
    BY <1>1, CallFacts DEF Revokes, Revoke, Targeted, CallState
  <2>2. row.status = "revoked" /\ row.request = claim[c].request
    BY <2>1, RevokedRowFacts
  <2>3. claim'[c] = row /\ \A d \in Calls : d # c => claim'[d] = claim[d]
    BY <1>1, <2>1, CallFacts DEF Revokes
  <2>4. claim[c].status = "active"
    BY <1>1 DEF Revokes, ActiveAt
  <2> HIDE DEF row, c
  <2>5. QED
    BY <2>2, <2>3, <2>4
<1>2. ASSUME NEW s \in Sweepers, ExpireDue(s), NEW c \in Calls
      PROVE  /\ claim'[c].status # "none" <=> claim[c].status # "none"
             /\ claim'[c].request = claim[c].request
  <2>1. \/ claim'[c] = [claim[c] EXCEPT !.status = "expired"] /\ claim[c].status = "active"
        \/ claim'[c] = claim[c]
    BY <1>2 DEF ExpireDue, Due
  <2>2. QED
    BY <2>1, CallFacts DEF ClaimRow
<1>3. QED
  BY <1>1, <1>2

LEMMA DecidedRows ==
  ASSUME TypeInv, NEW r \in Requests, NEW status, request' = DecidedAs(r, status)
  PROVE  /\ request'[r].status = status
         /\ \A q \in Requests : q # r => request'[q] = request[q]
         /\ \A q \in Requests : request'[q].expiresAt = request[q].expiresAt
<1>1. request \in [Requests -> [status : RequestStatus, expiresAt : Nat]]
  BY DEF TypeInv, TypeOK
<1>2. QED
  BY <1>1 DEF DecidedAs

(***************************************************************************)
(* A claim is released exactly for the approved requests: Approve inserts  *)
(* only for a pending request that has no claim, and nothing undoes a      *)
(* decision.                                                               *)
(***************************************************************************)
LEMMA InitRelease == Init => ReleaseMatchesDecision
<1> SUFFICES ASSUME Init PROVE ReleaseMatchesDecision
  OBVIOUS
<1>1. \A c \in Calls : ~ Exists(c)
  BY DEF Init, Exists, NoClaim
<1>2. \A r \in Requests : request[r].status = "none"
  BY DEF Init, NewRequest
<1>3. consents = {}
  BY DEF Init
<1>4. QED
  BY <1>1, <1>2, <1>3 DEF ReleaseMatchesDecision

LEMMA StepRelease == CallInv /\ ReleaseMatchesDecision /\ [Next]_vars => ReleaseMatchesDecision'
<1> SUFFICES ASSUME CallInv, ReleaseMatchesDecision, [Next]_vars
             PROVE  ReleaseMatchesDecision'
  OBVIOUS
<1>type. TypeInv /\ TypeInv'
  BY StepTypeInv DEF CallInv
<1>in. /\ \A c \in Calls : Exists(c) <=> claim[c].request \in Requests
       /\ \A x \in consents : x.claim \in Calls /\ x.request \in Requests
  BY <1>type DEF TypeInv, TypeOK
<1>past. Persist
  BY PersistStep DEF CallInv
<1>1. CASE UNCHANGED Books
  BY <1>1 DEF Books, ReleaseMatchesDecision, Exists
(* A decision about a request that no claim is for.                        *)
<1>other. ASSUME NEW r \in Requests, request[r].status # "approved_with_security_pin",
                 request'[r].status # "approved_with_security_pin",
                 \A q \in Requests : q # r => request'[q] = request[q],
                 UNCHANGED <<claim, consents>>
          PROVE  ReleaseMatchesDecision'
  <2>1. \A c \in Calls : Exists(c) => claim[c].request # r /\ claim[c].request \in Requests
    BY <1>other, <1>in DEF ReleaseMatchesDecision
  <2>2. QED
    BY <1>other, <2>1 DEF ReleaseMatchesDecision, Exists
<1>2. ASSUME NEW r \in Requests, Create(r)
      PROVE  ReleaseMatchesDecision'
  <2>1. PICK d \in Durations : request' = [request EXCEPT ![r] = PendingRequest(clock + d)]
    BY <1>2 DEF Create
  <2>2. /\ request'[r].status = "pending_approval"
        /\ \A q \in Requests : q # r => request'[q] = request[q]
    BY <1>type, <2>1 DEF PendingRequest, TypeInv, TypeOK
  <2>3. QED
    BY <1>2, <1>other, <2>2 DEF Create
<1>3. ASSUME NEW k \in Calls, Denying(k)
      PROVE  ReleaseMatchesDecision'
  <2>1. call[k].request \in Requests
    BY <1>3, <1>type, CallFacts DEF Denying, Deny, Targeted
  <2>2. QED
    BY <1>3, <1>type, <1>other, <2>1, DecidedRows DEF Denying, Deny
<1>4. ASSUME NEW k \in Calls, Issuing(k)
      PROVE  ReleaseMatchesDecision'
  <2> DEFINE r == call[k].request
  <2>1. /\ r \in Requests /\ request[r].status = "pending_approval"
        /\ claim[k].status = "none"
        /\ claim'[k].status = "active" /\ claim'[k].request = r
        /\ claim'[k].expiresAt = request[r].expiresAt
        /\ \A c \in Calls : c # k => claim'[c] = claim[c]
        /\ \A c \in Calls : claim[c].request # r
    BY <1>4, <1>type, IssuedRow DEF Issuing
  <2>2. /\ request'[r].status = "approved_with_security_pin"
        /\ \A q \in Requests : q # r => request'[q] = request[q]
        /\ \A q \in Requests : request'[q].expiresAt = request[q].expiresAt
    BY <1>4, <1>type, <2>1, DecidedRows DEF Issuing
  <2>3. consents' = consents \union {Consent(k, r)} /\ Consent(k, r).claim = k
        /\ Consent(k, r).request = r
    BY <1>4 DEF Issuing, Consent
  <2> HIDE DEF r
  <2>4. \A c \in Calls : Exists(c)' =>
           /\ request'[claim'[c].request].status = "approved_with_security_pin"
           /\ request'[claim'[c].request].expiresAt = claim'[c].expiresAt
           /\ Consent(c, claim'[c].request) \in consents'
    <3> SUFFICES ASSUME NEW c \in Calls, Exists(c)'
                 PROVE  /\ request'[claim'[c].request].status = "approved_with_security_pin"
                        /\ request'[claim'[c].request].expiresAt = claim'[c].expiresAt
                        /\ Consent(c, claim'[c].request) \in consents'
      OBVIOUS
    <3>1. CASE c = k
      BY <2>1, <2>2, <2>3, <3>1
    <3>2. CASE c # k
      <4>1. claim'[c] = claim[c] /\ Exists(c) /\ claim[c].request \in Requests
        BY <1>in, <2>1, <3>2 DEF Exists
      <4>2. request'[claim[c].request] = request[claim[c].request]
        BY <2>1, <2>2, <4>1
      <4>3. QED
        BY <2>3, <4>1, <4>2 DEF ReleaseMatchesDecision
    <3>3. QED
      BY <3>1, <3>2
  <2>5. \A c, d \in Calls : Exists(c)' /\ claim'[c].request = claim'[d].request => c = d
    BY <2>1 DEF ReleaseMatchesDecision, Exists
  <2>6. \A x \in consents' : claim'[x.claim].request = x.request
    <3>1. \A x \in consents : claim[x.claim].request = x.request /\ x.claim # k
      BY <1>in, <2>1 DEF ReleaseMatchesDecision, Exists
    <3>2. QED
      BY <1>in, <2>1, <2>3, <3>1
  <2>7. \A q \in Requests : request'[q].status = "approved_with_security_pin"
           => \E c \in Calls : claim'[c].request = q
    <3> SUFFICES ASSUME NEW q \in Requests, q # r,
                        request'[q].status = "approved_with_security_pin"
                 PROVE  \E c \in Calls : claim'[c].request = q
      BY <2>1
    <3>1. PICK c \in Calls : claim[c].request = q
      BY <2>2 DEF ReleaseMatchesDecision
    <3>2. c # k
      BY <1>in, <2>1, <3>1 DEF Exists
    <3>3. QED
      BY <2>1, <3>1, <3>2
  <2>8. QED
    BY <2>4, <2>5, <2>6, <2>7 DEF ReleaseMatchesDecision, Exists
<1>5. ASSUME \/ \E k \in Calls : Revokes(k)
             \/ \E s \in Sweepers : ExpireDue(s),
             UNCHANGED <<request, consents>>
      PROVE  ReleaseMatchesDecision'
  <2>1. \A c \in Calls : /\ claim'[c].status # "none" <=> claim[c].status # "none"
                         /\ claim'[c].request = claim[c].request
    BY <1>5, <1>type, EndedRows
  <2>2. \A c \in Calls : Exists(c) => claim'[c].expiresAt = claim[c].expiresAt
    BY <1>past DEF Persist
  <2>3. QED
    BY <1>5, <1>in, <2>1, <2>2 DEF ReleaseMatchesDecision, Exists
<1>6. QED
  BY <1>type, <1>1, <1>2, <1>3, <1>4, <1>5, BookSteps
     DEF CallInv, Revoking, Revokes, Revoke, ExpireDue

LEMMA ReleaseInvariant == Spec => [](CallInv /\ ReleaseMatchesDecision)
  BY CallInvariant, InitRelease, StepRelease, PTL DEF Spec

(* However approvals and denials of one request race, a claim is released  *)
(* exactly for the requests the user approved, and once.                   *)
THEOREM ReleasedOnceApproved == Spec => []ReleaseMatchesDecision
  BY ReleaseInvariant, PTL

(***************************************************************************)
(* The outbox.  Told is OutboxMatchesStatus event by event.                *)
(***************************************************************************)
Announced(c, event) == \E e \in outbox : e.claim = c /\ e.event = event

Told ==
    /\ \A c \in Calls :
          /\ Announced(c, "claim.approved") <=> claim[c].status # "none"
          /\ Announced(c, "claim.revoked") <=> claim[c].status = "revoked"
          /\ Announced(c, "claim.expired") <=> claim[c].status = "expired"
    /\ \A e, f \in outbox : e.event = f.event /\ e.claim = f.claim => e = f

(* One new event, of a claim that had none of its kind.                    *)
LEMMA OneMoreEvent ==
  ASSUME TypeInv, Told, NEW c \in Calls, NEW event \in Events, NEW at, NEW by,
         outbox' = outbox \union {Event(event, c, at, by)},
         ~ Announced(c, event)
  PROVE  /\ \A d \in Calls, v \in Events :
               Announced(d, v)' <=> Announced(d, v) \/ (d = c /\ v = event)
         /\ \A e, f \in outbox' : e.event = f.event /\ e.claim = f.claim => e = f
<1> DEFINE new == Event(event, c, at, by)
<1>1. new.event = event /\ new.claim = c
  BY DEF Event
<1> HIDE DEF new
<1>2. outbox' = outbox \union {new}
  BY DEF new
<1>3. QED
  BY <1>1, <1>2 DEF Told, Announced

LEMMA InitTold == Init => Told /\ OutboxChronological
<1> SUFFICES ASSUME Init PROVE Told /\ OutboxChronological
  OBVIOUS
<1>1. \A c \in Calls : claim[c].status = "none"
  BY DEF Init, NoClaim
<1>2. QED
  BY <1>1 DEF Init, Told, OutboxChronological, Announced, Exists

LEMMA StepTold == CallInv /\ Told /\ [Next]_vars => Told'
<1> SUFFICES ASSUME CallInv, Told, [Next]_vars
             PROVE  Told'
  OBVIOUS
<1>type. TypeInv
  BY DEF CallInv
<1>x. \A k \in Calls : call[k] \in CallState /\ Targeted(call[k])
  BY <1>type, CallFacts
<1>events. Events = {"claim.approved", "claim.revoked", "claim.expired"}
  BY DEF Events
<1>1. CASE UNCHANGED <<claim, outbox>>
  BY <1>1 DEF Told, Announced
<1>2. ASSUME NEW k \in Calls, Issuing(k)
      PROVE  Told'
  <2>1. /\ claim[k].status = "none" /\ claim'[k].status = "active"
        /\ \A c \in Calls : c # k => claim'[c] = claim[c]
    BY <1>2, <1>type, IssuedRow DEF Issuing
  <2>2. ~ Announced(k, "claim.approved")
    BY <2>1 DEF Told
  <2>3. outbox' = outbox \union {Event("claim.approved", k, call[k].at, k)}
    BY <1>2 DEF Issuing
  <2>4. /\ \A d \in Calls, v \in Events :
               Announced(d, v)' <=> Announced(d, v) \/ (d = k /\ v = "claim.approved")
        /\ \A e, f \in outbox' : e.event = f.event /\ e.claim = f.claim => e = f
    BY <1>type, <1>events, <2>2, <2>3, OneMoreEvent
  <2>5. QED
    BY <1>events, <2>1, <2>4 DEF Told
<1>3. ASSUME NEW k \in Calls, Revoking(k)
      PROVE  Told'
  <2> DEFINE c == call[k].claim
             row == RevokedRow(c, call[k].at)
  <2>1. c \in Calls /\ call[k].at \in Nat
    BY <1>3, <1>x DEF Revoking, Revokes, Revoke, Targeted, CallState
  <2>2. claim[c].status = "active"
    BY <1>3 DEF Revoking, Revokes, ActiveAt
  <2>3. row.status = "revoked"
    BY <1>type, <2>1, RevokedRowFacts
  <2>4. claim'[c] = row /\ \A d \in Calls : d # c => claim'[d] = claim[d]
    BY <1>3, <1>type, <2>1, CallFacts DEF Revoking, Revokes
  <2>5. outbox' = outbox \union {Event("claim.revoked", c, call[k].at, k)}
    BY <1>3 DEF Revoking
  <2> HIDE DEF row, c
  <2>6. ~ Announced(c, "claim.revoked")
    BY <2>1, <2>2 DEF Told
  <2>7. /\ \A d \in Calls, v \in Events :
               Announced(d, v)' <=> Announced(d, v) \/ (d = c /\ v = "claim.revoked")
        /\ \A e, f \in outbox' : e.event = f.event /\ e.claim = f.claim => e = f
    BY <1>type, <1>events, <2>1, <2>5, <2>6, OneMoreEvent
  <2>8. QED
    BY <1>events, <2>1, <2>2, <2>3, <2>4, <2>7 DEF Told
<1>4. ASSUME NEW s \in Sweepers, ExpireDue(s)
      PROVE  Told'
  <2> DEFINE due == {c \in Calls : Due(c, sweep[s])}
             new(c) == Event("claim.expired", c, sweep[s], s)
  <2>1. \A c \in due : c \in Calls /\ claim[c].status = "active"
    BY DEF Due
  <2>2. \A c \in Calls : /\ c \in due => claim'[c].status = "expired"
                         /\ c \notin due => claim'[c] = claim[c]
    BY <1>4, <1>type, CallFacts DEF ExpireDue, ClaimRow
  <2>3. outbox' = outbox \union {new(c) : c \in due}
    BY <1>4 DEF ExpireDue
  <2>4. \A c \in due : new(c).event = "claim.expired" /\ new(c).claim = c
    BY DEF Event
  <2> HIDE DEF due, new
  <2>5. \A c \in Calls, v \in Events :
           Announced(c, v)' <=> Announced(c, v) \/ (c \in due /\ v = "claim.expired")
    BY <2>3, <2>4 DEF Announced
  <2>6. \A e \in outbox, c \in due : ~ (e.claim = c /\ e.event = "claim.expired")
    BY <2>1 DEF Told, Announced
  <2>7. \A e, f \in outbox' : e.event = f.event /\ e.claim = f.claim => e = f
    BY <2>3, <2>4, <2>6 DEF Told
  <2>8. QED
    BY <1>events, <2>1, <2>2, <2>5, <2>7 DEF Told
<1>5. QED
  BY <1>type, <1>1, <1>2, <1>3, <1>4, BookSteps
     DEF CallInv, Books, Create, Denying, Deny

(* The new event of a step is dated in the order of the claim's story.     *)
LEMMA StepChronological ==
  CallInv /\ Told /\ OutboxChronological /\ [Next]_vars => OutboxChronological'
<1> SUFFICES ASSUME CallInv, Told, OutboxChronological, [Next]_vars
             PROVE  OutboxChronological'
  OBVIOUS
<1>type. TypeInv /\ TypeInv'
  BY StepTypeInv DEF CallInv
<1>past. Persist
  BY PersistStep DEF CallInv
<1>lives. Lifetimes'
  BY StepCallInv DEF CallInv
<1>clock. clock \in Nat /\ clock' \in Nat /\ clock <= clock'
  <2>1. clock \in Nat /\ clock' \in Nat
    BY <1>type DEF TypeInv, TypeOK
  <2>2. clock' \in {clock, clock + 1}
    BY DEF Next, vars, Tick, Create, BeginApprove, BeginDeny, ValidatePIN, Approve, Deny,
       BeginRevoke, Revoke, BeginShare, CreateExchangePIN, GetStatus, List, BeginResolve,
       ResolveExchangePIN, AuditRetrieval, Respond, LoseCall, StartSweep, ExpireDue, LoseSweep
  <2>3. QED
    BY <2>1, <2>2
<1>x. \A k \in Calls : call[k] \in CallState /\ Targeted(call[k]) /\ Knows(call[k], claim, clock)
  BY <1>type, CallFacts DEF CallInv
(* An event already there stays in order.                                  *)
<1>old. \A e \in outbox :
          /\ e.at <= clock'
          /\ e.event = "claim.approved" => e.at = claim'[e.claim].issuedAt
          /\ e.event = "claim.revoked" =>
                /\ claim'[e.claim].issuedAt <= e.at
                /\ e.at < claim'[e.claim].expiresAt
          /\ e.event = "claim.expired" => e.at >= claim'[e.claim].expiresAt
  <2> SUFFICES ASSUME NEW e \in outbox
               PROVE  /\ e.at <= clock'
                      /\ e.event = "claim.approved" => e.at = claim'[e.claim].issuedAt
                      /\ e.event = "claim.revoked" =>
                            /\ claim'[e.claim].issuedAt <= e.at
                            /\ e.at < claim'[e.claim].expiresAt
                      /\ e.event = "claim.expired" => e.at >= claim'[e.claim].expiresAt
    OBVIOUS
  <2>1. e.claim \in Calls /\ e.event \in Events /\ e.at \in Nat
    BY <1>type DEF TypeInv, TypeOK
  <2>2. Exists(e.claim)
    BY <2>1 DEF Told, Announced, Events, Exists
  <2>3. /\ claim'[e.claim].issuedAt = claim[e.claim].issuedAt
        /\ claim'[e.claim].expiresAt = claim[e.claim].expiresAt
    BY <1>past, <2>1, <2>2 DEF Persist
  <2>4. QED
    BY <1>clock, <2>1, <2>3 DEF OutboxChronological
<1>1. CASE UNCHANGED outbox
  BY <1>1, <1>old, <1>lives DEF OutboxChronological, Lifetimes, Exists
<1>2. ASSUME NEW k \in Calls, Issuing(k)
      PROVE  OutboxChronological'
  <2>1. claim'[k].issuedAt = call[k].at
    BY <1>2, <1>type, IssuedRow DEF Issuing
  <2>2. call[k].at <= clock /\ call[k].at \in Nat
    BY <1>x DEF Knows, CallState
  <2> DEFINE new == Event("claim.approved", k, call[k].at, k)
  <2>3. new.event = "claim.approved" /\ new.claim = k /\ new.at = call[k].at
    BY DEF Event
  <2>4. outbox' = outbox \union {new}
    BY <1>2 DEF Issuing
  <2> HIDE DEF new
  <2>5. QED
    BY <1>old, <1>lives, <1>clock, <2>1, <2>2, <2>3, <2>4
       DEF OutboxChronological, Lifetimes, Exists
<1>3. ASSUME NEW k \in Calls, Revoking(k)
      PROVE  OutboxChronological'
  <2> DEFINE c == call[k].claim
             new == Event("claim.revoked", c, call[k].at, k)
  <2>1. c \in Calls /\ call[k].at \in Nat /\ call[k].at <= clock
    BY <1>3, <1>x DEF Revoking, Revokes, Revoke, Targeted, CallState, Knows
  <2>2. Exists(c) /\ claim[c].issuedAt <= call[k].at /\ call[k].at < claim[c].expiresAt
    <3>1. claim[c].expiresAt \in Nat
      BY <1>type, <2>1, CallFacts DEF ClaimRow
    <3>2. QED
      BY <1>3, <1>x, <2>1, <3>1
         DEF Revoking, Revokes, Revoke, Knows, ActiveAt, Unexpired, Exists
  <2>3. /\ claim'[c].issuedAt = claim[c].issuedAt
        /\ claim'[c].expiresAt = claim[c].expiresAt
    BY <1>past, <2>1, <2>2 DEF Persist
  <2>4. new.event = "claim.revoked" /\ new.claim = c /\ new.at = call[k].at
    BY DEF Event
  <2>5. outbox' = outbox \union {new}
    BY <1>3 DEF Revoking
  <2> HIDE DEF new, c
  <2>6. QED
    BY <1>old, <1>lives, <1>clock, <2>1, <2>2, <2>3, <2>4, <2>5
       DEF OutboxChronological, Lifetimes, Exists
<1>4. ASSUME NEW s \in Sweepers, ExpireDue(s)
      PROVE  OutboxChronological'
  <2> DEFINE due == {c \in Calls : Due(c, sweep[s])}
             new(c) == Event("claim.expired", c, sweep[s], s)
  <2>1. sweep[s] \in Nat /\ sweep[s] <= clock
    BY <1>type DEF TypeInv, TypeOK, CallInv
  <2>2. \A c \in due : /\ c \in Calls
                       /\ Exists(c)
                       /\ sweep[s] >= claim[c].expiresAt
    BY <1>type, <2>1, CallFacts DEF Due, Unexpired, Exists, ClaimRow
  <2>3. \A c \in due : sweep[s] >= claim'[c].expiresAt
    BY <1>past, <2>2 DEF Persist
  <2>4. \A c \in due : /\ new(c).event = "claim.expired" /\ new(c).claim = c
                       /\ new(c).at = sweep[s]
    BY DEF Event
  <2>5. outbox' = outbox \union {new(c) : c \in due}
    BY <1>4 DEF ExpireDue
  <2> HIDE DEF due, new
  <2>6. QED
    BY <1>old, <1>lives, <1>clock, <2>1, <2>3, <2>4, <2>5
       DEF OutboxChronological, Lifetimes, Exists
<1>5. QED
  BY <1>type, <1>1, <1>2, <1>3, <1>4, BookSteps
     DEF CallInv, Books, Create, Denying, Deny

LEMMA OutboxInvariant == Spec => [](CallInv /\ Told /\ OutboxChronological)
  BY CallInvariant, InitTold, StepTold, StepChronological, PTL DEF Spec

(* The outbox tells the story of every claim, and tells it once.           *)
THEOREM StoryTold == Spec => []OutboxMatchesStatus
<1>1. CallInv /\ Told => OutboxMatchesStatus
  <2> SUFFICES ASSUME CallInv, Told PROVE OutboxMatchesStatus
    OBVIOUS
  <2>1. ASSUME NEW c \in Calls
        PROVE  {e.event : e \in {x \in outbox : x.claim = c}} = StoryOf(claim[c].status)
    <3> DEFINE heard == {e.event : e \in {x \in outbox : x.claim = c}}
    <3>1. \A v : v \in heard <=> Announced(c, v)
      BY DEF Announced
    <3>2. \A v \in heard : v \in Events
      BY DEF CallInv, TypeInv, TypeOK
    <3>3. claim[c].status \in ClaimStatus
      BY CallFacts DEF CallInv, ClaimRow
    <3> HIDE DEF heard
    <3>4. heard = StoryOf(claim[c].status)
      BY <3>1, <3>2, <3>3 DEF Told, Events, ClaimStatus, StoryOf
    <3>5. QED
      BY <3>4 DEF heard
  <2>2. QED
    BY <2>1 DEF OutboxMatchesStatus, Told
<1>2. QED
  BY <1>1, OutboxInvariant, PTL

(* The times in the outbox are in the order of the story, although each is *)
(* read before the transaction that writes it.                             *)
THEOREM StoryInOrder == Spec => []OutboxChronological
  BY OutboxInvariant, PTL

(***************************************************************************)
(* Public retrievals are audited before they are answered; the rows of     *)
(* audit_logs stay.                                                        *)
(***************************************************************************)
Answered(x, k, log) ==
    x.stage \in {"respond", "done"} /\ x.claim # None /\ x.via # "list"
    => \E a \in log :
          /\ a.event \in {"claim.status_retrieved", "claim.exchange_pin_resolved"}
          /\ a.subject = x.claim
          /\ a.by = k

AuditInv == \A k \in Calls : Answered(call[k], k, audit)

LEMMA InitAuditInv == Init => AuditInv
  BY DEF Init, NewCall, AuditInv, Answered

LEMMA StepAuditInv == TypeInv /\ AuditInv /\ [Next]_vars => AuditInv'
<1> SUFFICES ASSUME TypeInv, AuditInv, [Next]_vars PROVE AuditInv'
  OBVIOUS
<1>x. \A k \in Calls : call[k] \in CallState /\ Targeted(call[k])
  BY CallFacts
<1>keep. ASSUME audit \subseteq audit', UNCHANGED call
         PROVE  AuditInv'
  BY <1>keep DEF AuditInv, Answered
<1>one. ASSUME NEW k \in Calls, audit \subseteq audit',
               Answered(call'[k], k, audit'),
               \A j \in Calls : j # k => call'[j] = call[j]
        PROVE  AuditInv'
  BY <1>one DEF AuditInv, Answered
<1>done. ASSUME NEW k \in Calls, audit \subseteq audit', Done(k)
         PROVE  AuditInv'
  <2>1. call'[k] = [NewCall EXCEPT !.stage = "done"]
        /\ \A j \in Calls : j # k => call'[j] = call[j]
    BY <1>done, DoneStep
  <2>2. Answered(call'[k], k, audit')
    BY <2>1 DEF Answered, NewCall
  <2>3. QED
    BY <1>done, <1>one, <2>1, <2>2
<1>1. ASSUME Tick \/ (\E r \in Requests : Create(r))
             \/ (\E s \in Sweepers : StartSweep(s) \/ ExpireDue(s) \/ LoseSweep(s))
             \/ UNCHANGED vars
      PROVE  AuditInv'
  BY <1>1, <1>keep DEF Tick, Create, StartSweep, ExpireDue, LoseSweep, vars, tables
<1>2. ASSUME NEW k \in Calls, NEW r \in Requests, BeginApprove(k, r) \/ BeginDeny(k, r)
      PROVE  AuditInv'
  <2>1. Answered(call'[k], k, audit')
    BY <1>2, BeginStep DEF Answered
  <2>2. QED
    BY <1>2, <1>one, <2>1, BeginStep DEF BeginApprove, BeginDeny, tables
<1>3. ASSUME NEW k \in Calls, NEW accepted \in BOOLEAN, ValidatePIN(k, accepted)
      PROVE  AuditInv'
  <2>1. CASE Enter(k, "approve", None)
    <3>1. call[k].request \in Requests /\ "approve" \in Stages
      BY <1>3, <1>x DEF ValidatePIN, Targeted, Stages
    <3>2. call'[k].stage = "approve" /\ \A j \in Calls : j # k => call'[j] = call[j]
      BY <2>1, <3>1, EnterStep
    <3>3. QED
      BY <1>3, <1>one, <3>2 DEF Answered, ValidatePIN, tables
  <2>2. CASE Done(k)
    BY <1>3, <2>2, <1>done DEF ValidatePIN, tables
  <2>3. QED
    BY <1>3, <2>1, <2>2 DEF ValidatePIN
<1>4. ASSUME NEW k \in Calls,
             Approve(k) \/ Deny(k) \/ Revoke(k) \/ CreateExchangePIN(k) \/ LoseCall(k)
      PROVE  AuditInv'
  BY <1>4, <1>done DEF Approve, Deny, Revoke, CreateExchangePIN, LoseCall, tables
<1>5. ASSUME NEW k \in Calls, NEW c \in Calls, BeginRevoke(k, c) \/ BeginShare(k, c)
      PROVE  AuditInv'
  <2>1. PICK stage \in {"revoke", "share"} : Enter(k, stage, c)
    BY <1>5 DEF BeginRevoke, BeginShare
  <2>2. stage \in Stages
    BY DEF Stages
  <2>3. call'[k].stage = stage /\ \A j \in Calls : j # k => call'[j] = call[j]
    BY <2>1, <2>2, EnterStep
  <2>4. QED
    BY <1>5, <1>one, <2>3 DEF Answered, BeginRevoke, BeginShare, tables
<1>6. ASSUME NEW k \in Calls, NEW c \in Calls, GetStatus(k, c) \/ List(k, c)
      PROVE  AuditInv'
  <2>1. PICK late \in BOOLEAN : late = ~ InForce(c)
    OBVIOUS
  <2>2. PICK stage \in {"audit", "respond"}, via \in Retrievals :
             /\ Snapshot(k, c, stage, via, late)
             /\ stage = "respond" => via = "list"
    BY <1>6, <2>1 DEF GetStatus, List, Retrievals
  <2>3. /\ call'[k].stage = stage /\ call'[k].via = via
        /\ \A j \in Calls : j # k => call'[j] = call[j]
    BY <2>2, SnapshotStep
  <2>4. QED
    BY <1>6, <1>one, <2>2, <2>3 DEF Answered, GetStatus, List, tables
<1>7. ASSUME NEW k \in Calls, NEW p \in exchangePins, BeginResolve(k, p)
      PROVE  AuditInv'
  <2> DEFINE v == [call[k] EXCEPT !.stage = "resolve", !.claim = p.claim,
                     !.at = clock, !.seenExpiry = p.expiresAt,
                     !.late = ~ InForce(p.claim)]
  <2>1. call'[k] = v /\ \A j \in Calls : j # k => call'[j] = call[j]
    BY <1>7, ResolveStep
  <2>2. v.stage = "resolve"
    BY <1>x DEF CallState
  <2> HIDE DEF v
  <2>3. QED
    BY <1>7, <1>one, <2>1, <2>2 DEF Answered, BeginResolve, tables
<1>8. ASSUME NEW k \in Calls, ResolveExchangePIN(k)
      PROVE  AuditInv'
  <2> DEFINE c == call[k].claim
  <2>1. CASE Snapshot(k, c, "audit", "exchange_pin", call[k].late)
    <3>1. c \in Calls /\ call[k].late \in BOOLEAN /\ "exchange_pin" \in Retrievals
      BY <1>8, <1>x DEF ResolveExchangePIN, Targeted, CallState, Retrievals
    <3>2. call'[k].stage = "audit" /\ \A j \in Calls : j # k => call'[j] = call[j]
      BY <2>1, <3>1, SnapshotStep
    <3>3. QED
      BY <1>8, <1>one, <3>2 DEF Answered, ResolveExchangePIN, tables
  <2>2. CASE Done(k)
    BY <1>8, <2>2, <1>done DEF ResolveExchangePIN, tables
  <2>3. QED
    BY <1>8, <2>1, <2>2 DEF ResolveExchangePIN
<1>9. ASSUME NEW k \in Calls, AuditRetrieval(k)
      PROVE  AuditInv'
  <2>1. /\ call'[k] = [call[k] EXCEPT !.stage = "respond"]
        /\ \A j \in Calls : j # k => call'[j] = call[j]
    BY <1>9, AuditStep
  <2>2. call'[k].claim = call[k].claim
    BY <1>x, <2>1 DEF CallState
  <2> DEFINE row == Log(IF call[k].via = "status"
                        THEN "claim.status_retrieved"
                        ELSE "claim.exchange_pin_resolved",
                        call[k].claim, k)
  <2>3. row \in audit' /\ audit \subseteq audit'
    BY <1>9 DEF AuditRetrieval
  <2>4. /\ row.event \in {"claim.status_retrieved", "claim.exchange_pin_resolved"}
        /\ row.subject = call[k].claim /\ row.by = k
    BY DEF Log
  <2> HIDE DEF row
  <2>5. Answered(call'[k], k, audit')
    BY <2>2, <2>3, <2>4 DEF Answered
  <2>6. QED
    BY <1>one, <2>1, <2>3, <2>5
<1>10. ASSUME NEW k \in Calls, Respond(k)
       PROVE  AuditInv'
  <2> DEFINE v == [NewCall EXCEPT !.stage = "done", !.via = call[k].via,
                     !.claim = call[k].claim, !.late = call[k].late,
                     !.shown = DetailsVisible(k)]
  <2>1. call'[k] = v /\ \A j \in Calls : j # k => call'[j] = call[j]
    BY <1>10, RespondStep
  <2>2. v.via = call[k].via /\ v.claim = call[k].claim
    BY DEF NewCall
  <2> HIDE DEF v
  <2>3. Answered(call[k], k, audit) /\ call[k].stage = "respond" /\ UNCHANGED audit
    BY <1>10 DEF AuditInv, Respond, tables
  <2>4. QED
    BY <1>one, <2>1, <2>2, <2>3 DEF Answered
<1>11. QED
  BY <1>1, <1>2, <1>3, <1>4, <1>5, <1>6, <1>7, <1>8, <1>9, <1>10 DEF Next

(* No public verification is answered without its audit row.               *)
THEOREM RetrievalsAudited == Spec => []VerificationAudited
<1>1. AuditInv => VerificationAudited
  BY DEF AuditInv, Answered, VerificationAudited
<1>2. QED
  BY <1>1, TypeInvariant, InitAuditInv, StepAuditInv, PTL DEF Spec

(***************************************************************************)
(* The refinement of ClaimContract.  An approved request has one claim, so *)
(* ClaimOf is that claim and the phase of the request is its status.       *)
(***************************************************************************)
BookInv == CallInv /\ ReleaseMatchesDecision /\ Told

Phase == [r \in Requests |->
            IF request[r].status = "approved_with_security_pin"
            THEN claim[ClaimOf(r)].status
            ELSE request[r].status]
Ends == [r \in Requests |-> request[r].expiresAt]
Heard == [r \in Requests |->
            {e.event : e \in {x \in outbox : claim[x.claim].request = r}}]

MapFacts ==
    /\ \A c \in Calls : Exists(c) =>
          /\ claim[c].request \in Requests
          /\ Phase[claim[c].request] = claim[c].status
          /\ Ends[claim[c].request] = claim[c].expiresAt
    /\ \A r \in Requests :
          /\ request[r].status # "approved_with_security_pin" => Phase[r] = request[r].status
          /\ request[r].status = "approved_with_security_pin" =>
                \E c \in Calls : Exists(c) /\ claim[c].request = r
          /\ Ends[r] = request[r].expiresAt
    /\ \A e \in outbox : e.claim \in Calls /\ Exists(e.claim)
    /\ \A r \in Requests : \A v :
          v \in Heard[r] <=> \E e \in outbox : claim[e.claim].request = r /\ e.event = v

LEMMA BookMaps == BookInv => MapFacts
<1> SUFFICES ASSUME BookInv PROVE MapFacts
  OBVIOUS
<1>in. \A c \in Calls : Exists(c) <=> claim[c].request \in Requests
  BY DEF BookInv, CallInv, TypeInv, TypeOK
<1>1. \A c \in Calls : Exists(c) =>
        /\ claim[c].request \in Requests
        /\ Phase[claim[c].request] = claim[c].status
        /\ Ends[claim[c].request] = claim[c].expiresAt
  <2> SUFFICES ASSUME NEW c \in Calls, Exists(c)
               PROVE  /\ claim[c].request \in Requests
                      /\ Phase[claim[c].request] = claim[c].status
                      /\ Ends[claim[c].request] = claim[c].expiresAt
    OBVIOUS
  <2>1. /\ claim[c].request \in Requests
        /\ request[claim[c].request].status = "approved_with_security_pin"
        /\ request[claim[c].request].expiresAt = claim[c].expiresAt
        /\ \A d \in Calls : claim[d].request = claim[c].request => d = c
    BY <1>in DEF BookInv, ReleaseMatchesDecision
  <2>2. ClaimOf(claim[c].request) = c
    BY <2>1 DEF ClaimOf
  <2>3. QED
    BY <2>1, <2>2 DEF Phase, Ends
<1>2. \A r \in Requests :
        /\ request[r].status # "approved_with_security_pin" => Phase[r] = request[r].status
        /\ request[r].status = "approved_with_security_pin" =>
              \E c \in Calls : Exists(c) /\ claim[c].request = r
        /\ Ends[r] = request[r].expiresAt
  BY <1>in DEF BookInv, ReleaseMatchesDecision, Phase, Ends
<1>3. \A e \in outbox : e.claim \in Calls /\ Exists(e.claim)
  <2> SUFFICES ASSUME NEW e \in outbox PROVE e.claim \in Calls /\ Exists(e.claim)
    OBVIOUS
  <2>1. e.claim \in Calls /\ e.event \in Events
    BY DEF BookInv, CallInv, TypeInv, TypeOK
  <2>2. QED
    BY <2>1 DEF BookInv, Told, Announced, Events, Exists
<1>4. \A r \in Requests : \A v :
        v \in Heard[r] <=> \E e \in outbox : claim[e.claim].request = r /\ e.event = v
  BY DEF Heard
<1>5. QED
  BY <1>1, <1>2, <1>3, <1>4 DEF MapFacts

LEMMA BookMapsNext == BookInv' => MapFacts'
  BY BookMaps, PTL

LEMMA InitContract == Init => Contract!Init
<1> SUFFICES ASSUME Init PROVE Contract!Init
  OBVIOUS
<1>1. \A r \in Requests : request[r].status = "none" /\ request[r].expiresAt = 0
  BY DEF Init, NewRequest
<1>2. outbox = {} /\ clock = 1
  BY DEF Init
<1>3. QED
  BY <1>1, <1>2 DEF Contract!Init

(* The steps of the contract, in terms of the mapping.                     *)
Moves(R, from, to) ==
    /\ \A r \in R : Phase[r] = from
    /\ Phase' = [q \in Requests |-> IF q \in R THEN to ELSE Phase[q]]
    /\ UNCHANGED clock

Tells(R, event) ==
    Heard' = [q \in Requests |-> IF q \in R THEN Heard[q] \union {event} ELSE Heard[q]]

(* Phases and stories of the requests, moved pointwise.                    *)
LEMMA Moved ==
  ASSUME NEW R, NEW from, NEW to, UNCHANGED clock,
         \A r \in R : Phase[r] = from,
         \A q \in Requests : Phase'[q] = IF q \in R THEN to ELSE Phase[q]
  PROVE  Moves(R, from, to)
  BY DEF Moves, Phase

LEMMA Retold ==
  ASSUME NEW R, NEW event,
         \A q \in Requests : \A v :
            v \in Heard'[q] <=> v \in Heard[q] \/ (q \in R /\ v = event)
  PROVE  Tells(R, event)
<1>1. \A q \in Requests :
        Heard'[q] = IF q \in R THEN Heard[q] \union {event} ELSE Heard[q]
  <2> SUFFICES ASSUME NEW q \in Requests
               PROVE  Heard'[q] = IF q \in R THEN Heard[q] \union {event} ELSE Heard[q]
    OBVIOUS
  <2>1. \A v : v \in Heard'[q] <=> v \in Heard[q] \/ (q \in R /\ v = event)
    OBVIOUS
  <2> DEFINE A == Heard'[q]
             B == Heard[q]
  <2>2. A = {e.event : e \in {x \in outbox' : claim'[x.claim].request = q}}
    BY DEF Heard
  <2>3. B = {e.event : e \in {x \in outbox : claim[x.claim].request = q}}
    BY DEF Heard
  <2>4. QED
    BY <2>1, <2>2, <2>3
<1>2. QED
  BY <1>1 DEF Tells, Heard

LEMMA StepContract ==
  BookInv /\ BookInv' /\ [Next]_vars => [Contract!Next]_(Contract!vars)
<1> SUFFICES ASSUME BookInv, BookInv', [Next]_vars
             PROVE  Contract!Next \/ UNCHANGED <<clock, Phase, Ends, Heard>>
  BY DEF Contract!vars, Phase, Ends, Heard
<1>type. TypeInv /\ Unissued /\ MapFacts /\ MapFacts'
  BY BookMaps, BookMapsNext DEF BookInv, CallInv
<1>past. Persist
  BY PersistStep DEF BookInv, CallInv
<1>1. CASE UNCHANGED Books
  <2>1. UNCHANGED <<Phase, Ends, Heard>>
    BY <1>1 DEF Books, Phase, Ends, Heard, ClaimOf
  <2>2. clock' = clock + 1 \/ clock' = clock
    BY DEF Next, vars, Tick, Create, BeginApprove, BeginDeny, ValidatePIN, Approve, Deny,
       BeginRevoke, Revoke, BeginShare, CreateExchangePIN, GetStatus, List, BeginResolve,
       ResolveExchangePIN, AuditRetrieval, Respond, LoseCall, StartSweep, ExpireDue, LoseSweep
  <2>3. CASE clock' = clock + 1
    BY <2>1, <2>3 DEF Contract!Next, Contract!TimePasses, Phase, Ends, Heard
  <2>4. QED
    BY <2>1, <2>2, <2>3
<1>2. ASSUME NEW r \in Requests, Create(r)
      PROVE  Contract!Next
  <2>1. PICK d \in Durations : request' = [request EXCEPT ![r] = PendingRequest(clock + d)]
    BY <1>2 DEF Create
  <2>2. /\ request'[r].status = "pending_approval"
        /\ request'[r].expiresAt = clock + d
        /\ \A q \in Requests : q # r => request'[q] = request[q]
    BY <1>type, <2>1 DEF PendingRequest, TypeInv, TypeOK
  <2>3. clock + d > clock
    BY <1>type, TimeAssumption DEF TypeInv, TypeOK
  <2>4. Phase[r] = "none" /\ Phase'[r] = "pending_approval"
    BY <1>2, <1>type, <2>2 DEF MapFacts, Create
  <2>5. \A q \in Requests : q # r => Phase'[q] = Phase[q]
    BY <1>2, <2>2 DEF Phase, Create, ClaimOf
  <2>6. Moves({r}, "none", "pending_approval")
    BY <1>2, <2>4, <2>5, Moved DEF Create
  <2>7. UNCHANGED Heard
    BY <1>2 DEF Heard, Create
  <2>8. Ends'[r] > clock
    BY <2>2, <2>3 DEF Ends
  <2>9. Ends' = [Ends EXCEPT ![r] = Ends'[r]]
    BY <2>2 DEF Ends
  <2>10. Contract!Ask(r)
    BY <2>6, <2>7, <2>8, <2>9 DEF Contract!Ask, Contract!Move, Moves, Phase, Ends, Heard
  <2>11. QED
    BY <2>10 DEF Contract!Next
<1>3. ASSUME NEW k \in Calls, Denying(k)
      PROVE  Contract!Next
  <2>0. PICK r \in Requests : r = call[k].request
    BY <1>3, <1>type, CallFacts DEF Denying, Deny, Targeted
  <2>1. r \in Requests /\ request[r].status = "pending_approval"
    BY <1>3, <2>0 DEF Denying
  <2>2. /\ request'[r].status = "denied"
        /\ \A q \in Requests : q # r => request'[q] = request[q]
        /\ \A q \in Requests : request'[q].expiresAt = request[q].expiresAt
    BY <1>3, <1>type, <2>0, <2>1, DecidedRows DEF Denying
  <2>3. UNCHANGED <<clock, claim, outbox>>
    BY <1>3 DEF Denying, Deny
  <2>4. Phase[r] = "pending_approval" /\ Phase'[r] = "denied"
    BY <1>type, <2>1, <2>2 DEF MapFacts
  <2>5. \A q \in Requests : q # r => Phase'[q] = Phase[q]
    BY <2>2, <2>3 DEF Phase, ClaimOf
  <2>6. Moves({r}, "pending_approval", "denied")
    BY <2>3, <2>4, <2>5, Moved
  <2>7. UNCHANGED <<Ends, Heard>>
    BY <2>2, <2>3 DEF Ends, Heard
  <2>8. Contract!Refuse(r)
    BY <2>6, <2>7 DEF Contract!Refuse, Contract!Move, Moves, Phase, Ends, Heard
  <2>9. QED
    BY <2>1, <2>8 DEF Contract!Next
<1>4. ASSUME NEW k \in Calls, Issuing(k)
      PROVE  Contract!Next
  <2> DEFINE new == Event("claim.approved", k, call[k].at, k)
  <2>0. PICK r \in Requests : r = call[k].request
    BY <1>4, <1>type, IssuedRow DEF Issuing
  <2>1. /\ r \in Requests /\ request[r].status = "pending_approval"
        /\ claim[k].status = "none"
        /\ claim'[k].status = "active" /\ claim'[k].request = r
        /\ \A c \in Calls : c # k => claim'[c] = claim[c]
    BY <1>4, <1>type, <2>0, IssuedRow DEF Issuing
  <2>2. /\ request'[r].status = "approved_with_security_pin"
        /\ \A q \in Requests : q # r => request'[q] = request[q]
        /\ \A q \in Requests : request'[q].expiresAt = request[q].expiresAt
    BY <1>4, <1>type, <2>0, <2>1, DecidedRows DEF Issuing
  <2>3. outbox' = outbox \union {new} /\ new.claim = k /\ new.event = "claim.approved"
    BY <1>4 DEF Issuing, Event
  <2>4. UNCHANGED clock
    BY <1>4 DEF Issuing, Issues, Approve
  <2> HIDE DEF new
  <2>5. Phase[r] = "pending_approval" /\ Phase'[r] = "active"
    BY <1>type, <2>1, <2>2 DEF MapFacts, Exists
  <2>6. \A q \in Requests : q # r => Phase'[q] = Phase[q]
    <3> SUFFICES ASSUME NEW q \in Requests, q # r PROVE Phase'[q] = Phase[q]
      OBVIOUS
    <3>1. CASE request[q].status = "approved_with_security_pin"
      <4>1. PICK c \in Calls : Exists(c) /\ claim[c].request = q
        BY <1>type, <3>1 DEF MapFacts
      <4>2. c # k /\ claim'[c] = claim[c]
        BY <2>1, <4>1 DEF Exists
      <4>3. QED
        BY <1>type, <4>1, <4>2 DEF MapFacts, Exists
    <3>2. CASE request[q].status # "approved_with_security_pin"
      BY <1>type, <2>2, <3>2 DEF MapFacts
    <3>3. QED
      BY <3>1, <3>2
  <2>7. Moves({r}, "pending_approval", "active")
    BY <2>4, <2>5, <2>6, Moved
  <2>8. \A e \in outbox : claim'[e.claim] = claim[e.claim]
    BY <1>type, <2>1 DEF MapFacts, Exists
  <2>9. Tells({r}, "claim.approved")
    <3>1. ASSUME NEW q \in Requests, NEW v
          PROVE  v \in Heard'[q] <=> v \in Heard[q] \/ (q \in {r} /\ v = "claim.approved")
      <4>1. v \in Heard'[q] <=> \E e \in outbox' : claim'[e.claim].request = q /\ e.event = v
        BY <1>type DEF MapFacts
      <4>2. v \in Heard[q] <=> \E e \in outbox : claim[e.claim].request = q /\ e.event = v
        BY <1>type DEF MapFacts
      <4>3. QED
        BY <2>1, <2>3, <2>8, <4>1, <4>2
    <3>2. QED
      BY <3>1, Retold
  <2>10. UNCHANGED Ends
    BY <2>2 DEF Ends
  <2>11. Contract!Grant(r)
    BY <2>7, <2>9, <2>10
       DEF Contract!Grant, Contract!Move, Contract!Tell, Moves, Tells, Phase, Ends, Heard
  <2>12. QED
    BY <2>1, <2>11 DEF Contract!Next
(* Claims that end, and the phases of their requests with them.            *)
<1>end. ASSUME NEW E \in SUBSET Calls, NEW to,
               \A c \in E : claim[c].status = "active" /\ claim'[c].status = to,
               \A c \in Calls : c \notin E => claim'[c].status = claim[c].status,
               \A c \in Calls : /\ claim'[c].status # "none" <=> claim[c].status # "none"
                                /\ claim'[c].request = claim[c].request,
               UNCHANGED <<clock, request>>
        PROVE  /\ Moves({claim[c].request : c \in E}, "active", to)
               /\ UNCHANGED Ends
  <2> DEFINE R == {claim[c].request : c \in E}
  <2>1. \A r \in R : Phase[r] = "active"
    BY <1>end, <1>type DEF MapFacts, Exists
  <2>2. \A q \in Requests : Phase'[q] = IF q \in R THEN to ELSE Phase[q]
    <3> SUFFICES ASSUME NEW q \in Requests
                 PROVE  Phase'[q] = IF q \in R THEN to ELSE Phase[q]
      OBVIOUS
    <3>1. CASE request[q].status = "approved_with_security_pin"
      <4>1. PICK c \in Calls : Exists(c) /\ claim[c].request = q
        BY <1>type, <3>1 DEF MapFacts
      <4>2. Phase[q] = claim[c].status /\ Phase'[q] = claim'[c].status
        BY <1>end, <1>type, <4>1 DEF MapFacts, Exists
      <4>3. q \in R => c \in E
        <5> SUFFICES ASSUME NEW d \in E, claim[d].request = q PROVE c \in E
          OBVIOUS
        <5>1. c = d
          BY <4>1 DEF BookInv, ReleaseMatchesDecision
        <5>2. QED
          BY <5>1
      <4>4. c \in E => q \in R
        BY <4>1
      <4>5. QED
        BY <1>end, <4>2, <4>3, <4>4
    <3>2. CASE request[q].status # "approved_with_security_pin"
      <4>1. q \notin R
        <5> SUFFICES ASSUME NEW c \in E, claim[c].request = q PROVE FALSE
          OBVIOUS
        <5>1. c \in Calls /\ Exists(c)
          BY <1>end DEF Exists
        <5>2. QED
          BY <3>2, <5>1 DEF BookInv, ReleaseMatchesDecision
      <4>2. Phase[q] = request[q].status /\ Phase'[q] = request'[q].status
        BY <1>end, <1>type, <3>2 DEF MapFacts
      <4>3. QED
        BY <1>end, <4>1, <4>2
    <3>3. QED
      BY <3>1, <3>2
  <2>3. UNCHANGED Ends
    BY <1>end DEF Ends
  <2> HIDE DEF R
  <2>4. Moves(R, "active", to)
    BY <1>end, <2>1, <2>2, Moved
  <2>5. QED
    BY <2>3, <2>4 DEF R
<1>5. ASSUME NEW k \in Calls, Revoking(k)
      PROVE  Contract!Next
  <2> DEFINE c == call[k].claim
             row == RevokedRow(c, call[k].at)
             new == Event("claim.revoked", c, call[k].at, k)
  <2>1. c \in Calls /\ call[k].at \in Nat
    BY <1>5, <1>type, CallFacts DEF Revoking, Revokes, Revoke, Targeted, CallState
  <2>2. claim[c].status = "active"
    BY <1>5 DEF Revoking, Revokes, ActiveAt
  <2>3. row.status = "revoked"
    BY <1>type, <2>1, RevokedRowFacts
  <2>4. claim'[c] = row /\ \A d \in Calls : d # c => claim'[d] = claim[d]
    BY <1>5, <1>type, <2>1, CallFacts DEF Revoking, Revokes
  <2>5. \A d \in Calls : /\ claim'[d].status # "none" <=> claim[d].status # "none"
                         /\ claim'[d].request = claim[d].request
    BY <1>5, <1>type, EndedRows DEF Revoking
  <2>6. outbox' = outbox \union {new} /\ new.claim = c /\ new.event = "claim.revoked"
    BY <1>5 DEF Revoking, Event
  <2>7. UNCHANGED <<clock, request>>
    BY <1>5 DEF Revoking, Revokes, Revoke
  <2>8. PICK r \in Requests : r = claim[c].request
    BY <1>type, <2>1, <2>2 DEF MapFacts, Exists
  <2> HIDE DEF row, new, c
  <2>9. Moves({r}, "active", "revoked") /\ UNCHANGED Ends
    <3> DEFINE E == {c}
    <3>1. {claim[d].request : d \in E} = {r}
      BY <2>8
    <3>2. /\ E \in SUBSET Calls
          /\ \A d \in E : claim[d].status = "active" /\ claim'[d].status = "revoked"
          /\ \A d \in Calls : d \notin E => claim'[d].status = claim[d].status
      BY <2>1, <2>2, <2>3, <2>4
    <3> HIDE DEF E
    <3>3. Moves({claim[d].request : d \in E}, "active", "revoked") /\ UNCHANGED Ends
      BY <1>end, <2>5, <2>7, <3>2
    <3>4. QED
      BY <3>1, <3>3
  <2>10. Tells({r}, "claim.revoked")
    <3>1. ASSUME NEW q \in Requests, NEW v
          PROVE  v \in Heard'[q] <=> v \in Heard[q] \/ (q \in {r} /\ v = "claim.revoked")
      <4>1. v \in Heard'[q] <=> \E e \in outbox' : claim'[e.claim].request = q /\ e.event = v
        BY <1>type DEF MapFacts
      <4>2. v \in Heard[q] <=> \E e \in outbox : claim[e.claim].request = q /\ e.event = v
        BY <1>type DEF MapFacts
      <4>3. \A e \in outbox : claim'[e.claim].request = claim[e.claim].request
        BY <1>type, <2>5 DEF MapFacts
      <4>4. QED
        BY <2>1, <2>5, <2>6, <2>8, <4>1, <4>2, <4>3
    <3>2. QED
      BY <3>1, Retold
  <2>11. Contract!Withdraw(r)
    BY <2>9, <2>10
       DEF Contract!Withdraw, Contract!Move, Contract!Tell, Moves, Tells, Phase, Ends, Heard
  <2>12. QED
    BY <2>11 DEF Contract!Next
<1>6. ASSUME NEW s \in Sweepers, ExpireDue(s)
      PROVE  Contract!Next
  <2> DEFINE due == {c \in Calls : Due(c, sweep[s])}
             new(c) == Event("claim.expired", c, sweep[s], s)
  <2>1. sweep[s] \in Nat /\ sweep[s] <= clock /\ clock \in Nat
    BY <1>type DEF TypeInv, TypeOK, BookInv, CallInv
  <2>2. \A c \in due : /\ c \in Calls /\ claim[c].status = "active"
                       /\ claim[c].expiresAt <= clock
    BY <1>type, <2>1, CallFacts DEF Due, Unexpired, ClaimRow
  <2>3. \A c \in Calls : /\ c \in due => claim'[c].status = "expired"
                         /\ c \notin due => claim'[c] = claim[c]
    BY <1>6, <1>type, CallFacts DEF ExpireDue, ClaimRow
  <2>4. \A c \in Calls : /\ claim'[c].status # "none" <=> claim[c].status # "none"
                         /\ claim'[c].request = claim[c].request
    BY <1>6, <1>type, EndedRows
  <2>5. outbox' = outbox \union {new(c) : c \in due}
    BY <1>6 DEF ExpireDue
  <2>6. \A c \in due : new(c).event = "claim.expired" /\ new(c).claim = c
    BY DEF Event
  <2>7. UNCHANGED <<clock, request>>
    BY <1>6 DEF ExpireDue
  <2>8. due \in SUBSET Calls
    OBVIOUS
  <2> HIDE DEF due, new
  <2>set. PICK R \in SUBSET Requests : R = {claim[c].request : c \in due}
    <3>1. \A c \in due : claim[c].request \in Requests
      BY <1>type, <2>2 DEF MapFacts, Exists
    <3> DEFINE asked == {claim[c].request : c \in due}
    <3>2. asked \in SUBSET Requests
      BY <3>1
    <3> HIDE DEF asked
    <3>3. \E R \in SUBSET Requests : R = asked
      BY <3>2
    <3>4. QED
      BY <3>3 DEF asked
  <2>9. \A r \in R : Ends[r] <= clock
    BY <1>type, <2>2, <2>set DEF MapFacts, Exists
  <2>10. Moves(R, "active", "expired") /\ UNCHANGED Ends
    BY <1>end, <2>2, <2>3, <2>4, <2>7, <2>8, <2>set
  <2>11. Tells(R, "claim.expired")
    <3>1. ASSUME NEW q \in Requests, NEW v
          PROVE  v \in Heard'[q] <=> v \in Heard[q] \/ (q \in R /\ v = "claim.expired")
      <4>1. v \in Heard'[q] <=> \E e \in outbox' : claim'[e.claim].request = q /\ e.event = v
        BY <1>type DEF MapFacts
      <4>2. v \in Heard[q] <=> \E e \in outbox : claim[e.claim].request = q /\ e.event = v
        BY <1>type DEF MapFacts
      <4>3. \A e \in outbox : claim'[e.claim].request = claim[e.claim].request
        BY <1>type, <2>4 DEF MapFacts
      <4>4. q \in R <=> \E c \in due : claim'[c].request = q
        BY <2>2, <2>4, <2>set
      <4>5. QED
        BY <2>2, <2>5, <2>6, <4>1, <4>2, <4>3, <4>4
    <3>2. QED
      BY <3>1, Retold
  <2>12. Contract!Lapse(R)
    BY <2>9, <2>10, <2>11
       DEF Contract!Lapse, Contract!Move, Contract!Tell, Moves, Tells, Phase, Ends, Heard
  <2>13. QED
    BY <2>12 DEF Contract!Next
<1>7. QED
  BY <1>type, <1>1, <1>2, <1>3, <1>4, <1>5, <1>6, BookSteps

(* Every transaction of the handlers is a step of the contract, or none.   *)
THEOREM HandlersImplementContract == Spec => ImplementsContract
<1>1. Spec => []BookInv
  BY ReleaseInvariant, OutboxInvariant, PTL DEF BookInv
<1>2. QED
  BY <1>1, InitContract, StepContract, PTL DEF Spec, ImplementsContract, Contract!Spec
=============================================================================
