--------------------------- MODULE ClaimLifecycle ---------------------------
(***************************************************************************)
(* One user's claim requests and the claims issued for them: the tables    *)
(* claim_requests, claims, consents, claim_exchange_pins,                  *)
(* webhook_deliveries (the outbox) and audit_logs, and every handler and   *)
(* command that reads or writes them (backend/internal/claimrequests and   *)
(* backend/internal/claims).                                               *)
(*                                                                         *)
(* A handler reads a clock, and often a row, before its transaction.  The  *)
(* transaction itself locks the row it decides on (FOR UPDATE, or the      *)
(* UPDATE ... WHERE of ExpireDue) and holds it to the commit, so each      *)
(* transaction is one step here, and the reads before it are others.       *)
(*                                                                         *)
(* As in PinLockout, a definition that differs by one slip from the one    *)
(* after it is a mutant, which no action uses.                             *)
(***************************************************************************)
EXTENDS Naturals

CONSTANTS
    Requests,      \* claim requests an organization may create
    Calls,         \* user and verifier requests to the API; each runs once
    Sweepers,      \* runs of the expireclaims command; each may be repeated
    Durations,     \* requested lifetimes
    PinLifetime,   \* lifetime of an exchange PIN (15 minutes in the code)
    MaxTime,       \* bound on the clock
    None           \* no request, no claim

ASSUME TimeAssumption ==
    /\ Durations \subseteq Nat \ {0}
    /\ PinLifetime \in Nat \ {0}
    /\ MaxTime \in Nat
ASSUME NameAssumption ==
    /\ None \notin Requests
    /\ None \notin Calls

VARIABLES
    clock,
    request,       \* claim_requests
    claim,         \* claims; the id of a claim is the call that issued it
    consents,      \* consents
    exchangePins,  \* claim_exchange_pins; a PIN is the call that made it
    outbox,        \* webhook_deliveries, as they are enqueued
    audit,         \* audit_logs
    call,          \* local state of each API call
    sweep          \* the time each running expireclaims has read, or 0

tables == <<request, claim, consents, exchangePins, outbox, audit>>
vars == <<clock, tables, call, sweep>>

RequestStatus == {"none", "pending_approval", "approved_with_security_pin", "denied"}
ClaimStatus == {"none", "active", "revoked", "expired"}
Stages == {"idle", "pin", "approve", "deny", "revoke", "share", "resolve",
           "audit", "respond", "done"}
Retrievals == {"status", "exchange_pin", "list"}

NewRequest == [status |-> "none", expiresAt |-> 0]
NoClaim == [status |-> "none", request |-> None, issuedAt |-> 0,
            expiresAt |-> 0, revokedAt |-> 0]
NewCall == [stage |-> "idle", request |-> None, claim |-> None, at |-> 0,
            via |-> "list", seen |-> "none", seenExpiry |-> 0,
            late |-> FALSE, shown |-> FALSE]

Exists(c) == claim[c].status # "none"

(* Not yet past its end: expires_at strictly after the time compared with. *)
UnexpiredAtItsEnd(row, now) == row.expiresAt >= now
Unexpired(row, now) == row.expiresAt > now

(* What the product calls an active claim.                                 *)
InForce(c) == claim[c].status = "active" /\ Unexpired(claim[c], clock)

Enter(k, stage, c) ==
    call' = [call EXCEPT ![k] = [@ EXCEPT !.stage = stage, !.claim = c, !.at = clock]]

(* The call ends; only what its response showed is remembered.             *)
Done(k) ==
    call' = [call EXCEPT ![k] = [NewCall EXCEPT !.stage = "done"]]

Event(event, c, at, by) == [event |-> event, claim |-> c, at |-> at, by |-> by]
Log(event, subject, by) == [event |-> event, subject |-> subject, by |-> by]

Init ==
    /\ clock = 1
    /\ request = [r \in Requests |-> NewRequest]
    /\ claim = [c \in Calls |-> NoClaim]
    /\ consents = {}
    /\ exchangePins = {}
    /\ outbox = {}
    /\ audit = {}
    /\ call = [k \in Calls |-> NewCall]
    /\ sweep = [s \in Sweepers |-> 0]

Tick ==
    /\ clock < MaxTime
    /\ clock' = clock + 1
    /\ UNCHANGED <<tables, call, sweep>>

(***************************************************************************)
(* claimrequests.Create: an organization asks; nothing is released.  A     *)
(* request that does not end after its creation is refused by the table.   *)
(***************************************************************************)
PendingRequest(expiresAt) == [status |-> "pending_approval", expiresAt |-> expiresAt]

Create(r) ==
    /\ request[r].status = "none"
    /\ \E d \in Durations :
          request' = [request EXCEPT ![r] = PendingRequest(clock + d)]
    /\ audit' = audit \union {Log("claim_request.created", r, None)}
    /\ UNCHANGED <<clock, claim, consents, exchangePins, outbox, call, sweep>>

(***************************************************************************)
(* claimrequests.Approve.  The request is read without a lock and must be  *)
(* open; then the Security PIN is validated (see PinLockout); then the     *)
(* time of approval is read; then the transaction locks the request and    *)
(* looks again.                                                            *)
(***************************************************************************)
OpenWhateverDecided(r, now) ==
    request[r].status # "none" /\ Unexpired(request[r], now)

Open(r, now) ==
    request[r].status = "pending_approval" /\ Unexpired(request[r], now)

BeginApprove(k, r) ==
    /\ call[k].stage = "idle"
    /\ Open(r, clock)
    /\ call' = [call EXCEPT ![k] = [@ EXCEPT !.stage = "pin", !.request = r]]
    /\ UNCHANGED <<clock, tables, sweep>>

ValidatePIN(k, accepted) ==
    /\ call[k].stage = "pin"
    /\ \/ /\ accepted
          /\ Enter(k, "approve", None)
       \/ /\ ~ accepted
          /\ Done(k)
    /\ UNCHANGED <<clock, tables, sweep>>

(* claims.claim_request_id is UNIQUE.                                      *)
NoClaimFor(r) == \A c \in Calls : claim[c].request # r

IssuedClaim(r, approvedAt) ==
    [status |-> "active", request |-> r, issuedAt |-> approvedAt,
     expiresAt |-> request[r].expiresAt, revokedAt |-> 0]

Consent(k, r) == [claim |-> k, request |-> r]

DecidedAs(r, status) == [request EXCEPT ![r].status = status]

Approve(k) ==
    LET r == call[k].request
        approvedAt == call[k].at
    IN
    /\ call[k].stage = "approve"
    /\ \/ /\ Open(r, approvedAt)
          /\ NoClaimFor(r)
          /\ claim' = [claim EXCEPT ![k] = IssuedClaim(r, approvedAt)]
          /\ consents' = consents \union {Consent(k, r)}
          /\ request' = DecidedAs(r, "approved_with_security_pin")
          /\ audit' = audit \union {Log("claim_request.approved", r, k)}
          /\ outbox' = outbox \union {Event("claim.approved", k, approvedAt, k)}
       \/ /\ ~ (Open(r, approvedAt) /\ NoClaimFor(r))
          /\ UNCHANGED <<claim, consents, request, audit, outbox>>
    /\ Done(k)
    /\ UNCHANGED <<clock, exchangePins, sweep>>

(***************************************************************************)
(* claimrequests.Deny: no Security PIN, no consent row, no outbox row.     *)
(* The time of the denial is read after the unlocked look and before the   *)
(* transaction.                                                            *)
(***************************************************************************)
BeginDeny(k, r) ==
    /\ call[k].stage = "idle"
    /\ Open(r, clock)
    /\ call' = [call EXCEPT ![k] = [@ EXCEPT !.stage = "deny", !.request = r, !.at = clock]]
    /\ UNCHANGED <<clock, tables, sweep>>

Deny(k) ==
    LET r == call[k].request IN
    /\ call[k].stage = "deny"
    /\ \E deniedAt \in call[k].at .. clock :
          \/ /\ Open(r, deniedAt)
             /\ request' = DecidedAs(r, "denied")
             /\ audit' = audit \union {Log("claim_request.denied", r, k)}
          \/ /\ ~ Open(r, deniedAt)
             /\ UNCHANGED <<request, audit>>
    /\ Done(k)
    /\ UNCHANGED <<clock, claim, consents, exchangePins, outbox, sweep>>

(***************************************************************************)
(* claims.Revoke: the time is read first; the claim is locked, must be     *)
(* active and must end after that time.                                    *)
(***************************************************************************)
BeginRevoke(k, c) ==
    /\ call[k].stage = "idle"
    /\ Exists(c)
    /\ Enter(k, "revoke", c)
    /\ UNCHANGED <<clock, tables, sweep>>

ActiveAtIgnoringStatus(c, now) == Exists(c) /\ Unexpired(claim[c], now)
ActiveAt(c, now) == claim[c].status = "active" /\ Unexpired(claim[c], now)

(* updateClaimRevoked.                                                     *)
RevokedRowWrongStatus(c, at) == [claim[c] EXCEPT !.status = "denied", !.revokedAt = at]
RevokedRow(c, at) == [claim[c] EXCEPT !.status = "revoked", !.revokedAt = at]

Revoke(k) ==
    LET c == call[k].claim
        revokedAt == call[k].at
    IN
    /\ call[k].stage = "revoke"
    /\ \/ /\ ActiveAt(c, revokedAt)
          /\ claim' = [claim EXCEPT ![c] = RevokedRow(c, revokedAt)]
          /\ audit' = audit \union {Log("claim.revoked", c, k)}
          /\ outbox' = outbox \union {Event("claim.revoked", c, revokedAt, k)}
       \/ /\ ~ ActiveAt(c, revokedAt)
          /\ UNCHANGED <<claim, audit, outbox>>
    /\ Done(k)
    /\ UNCHANGED <<clock, request, consents, exchangePins, sweep>>

(***************************************************************************)
(* claims.ExpireDue, the expireclaims command: the time is read, then one  *)
(* transaction ends every active claim that is due by then, with an audit  *)
(* row and an outbox row for each.                                         *)
(***************************************************************************)
StartSweepWithClockOfBoot(s) ==
    /\ sweep[s] = 0
    /\ sweep' = [sweep EXCEPT ![s] = 1]
    /\ UNCHANGED <<clock, tables, call>>

StartSweep(s) ==
    /\ sweep[s] = 0
    /\ sweep' = [sweep EXCEPT ![s] = clock]
    /\ UNCHANGED <<clock, tables, call>>

DueIgnoringStatus(c, now) == Exists(c) /\ ~ Unexpired(claim[c], now)
Due(c, now) == claim[c].status = "active" /\ ~ Unexpired(claim[c], now)

ExpireDue(s) ==
    LET due == {c \in Calls : Due(c, sweep[s])} IN
    /\ sweep[s] # 0
    /\ claim' = [c \in Calls |->
                    IF c \in due THEN [claim[c] EXCEPT !.status = "expired"]
                                 ELSE claim[c]]
    /\ audit' = audit \union {Log("claim.expired", c, s) : c \in due}
    /\ outbox' = outbox \union {Event("claim.expired", c, sweep[s], s) : c \in due}
    /\ sweep' = [sweep EXCEPT ![s] = 0]
    /\ UNCHANGED <<clock, request, consents, exchangePins, call>>

(* The command stops, or its transaction fails, before the commit.         *)
LoseSweep(s) ==
    /\ sweep[s] # 0
    /\ sweep' = [sweep EXCEPT ![s] = 0]
    /\ UNCHANGED <<clock, tables, call>>

(***************************************************************************)
(* claims.CreateExchangePIN: a PIN for an active claim that lasts          *)
(* PinLifetime but never past the claim.  The PIN is stored by its hash;   *)
(* two calls that draw the same PIN conflict on pin_hash and the later one *)
(* fails (LoseCall), so a PIN is named by the call that drew it.           *)
(***************************************************************************)
BeginShare(k, c) ==
    /\ call[k].stage = "idle"
    /\ Exists(c)
    /\ Enter(k, "share", c)
    /\ UNCHANGED <<clock, tables, sweep>>

EarlierForgotten(a, b) == a
Earlier(a, b) == IF a < b THEN a ELSE b

CreateExchangePIN(k) ==
    LET c == call[k].claim
        createdAt == call[k].at
    IN
    /\ call[k].stage = "share"
    /\ \/ /\ ActiveAt(c, createdAt)
          /\ exchangePins' = exchangePins \union
                {[pin |-> k, claim |-> c, createdAt |-> createdAt,
                  expiresAt |-> Earlier(createdAt + PinLifetime, claim[c].expiresAt)]}
          /\ audit' = audit \union {Log("claim.exchange_pin_created", c, k)}
       \/ /\ ~ ActiveAt(c, createdAt)
          /\ UNCHANGED <<exchangePins, audit>>
    /\ Done(k)
    /\ UNCHANGED <<clock, request, claim, consents, outbox, sweep>>

(***************************************************************************)
(* Retrievals.  A retrieval reads the claim without a lock, and sanitizes  *)
(* what it read with a clock it reads last, when it responds.  late        *)
(* records whether the claim had already ended when the retrieval began.   *)
(***************************************************************************)
Snapshot(k, c, stage, via, late) ==
    call' = [call EXCEPT ![k] =
        [@ EXCEPT !.stage = stage, !.claim = c, !.via = via, !.late = late,
                  !.seen = claim[c].status, !.seenExpiry = claim[c].expiresAt]]

(* claims.GetStatus: the public verification page.  Audited before it is   *)
(* answered.                                                               *)
GetStatusUnaudited(k, c) ==
    /\ call[k].stage = "idle"
    /\ Exists(c)
    /\ Snapshot(k, c, "respond", "status", ~ InForce(c))
    /\ UNCHANGED <<clock, tables, sweep>>

GetStatus(k, c) ==
    /\ call[k].stage = "idle"
    /\ Exists(c)
    /\ Snapshot(k, c, "audit", "status", ~ InForce(c))
    /\ UNCHANGED <<clock, tables, sweep>>

(* claims.GetForUser, ListForUser, ListForOrganization: not audited.       *)
List(k, c) ==
    /\ call[k].stage = "idle"
    /\ Exists(c)
    /\ Snapshot(k, c, "respond", "list", ~ InForce(c))
    /\ UNCHANGED <<clock, tables, sweep>>

(* claims.ResolveExchangePIN reads the clock first and the claim through   *)
(* the PIN after it; only a live PIN of an active claim is found.          *)
BeginResolve(k, p) ==
    /\ call[k].stage = "idle"
    /\ p \in exchangePins
    /\ call' = [call EXCEPT ![k] =
          [@ EXCEPT !.stage = "resolve", !.claim = p.claim, !.at = clock,
                    !.seenExpiry = p.expiresAt, !.late = ~ InForce(p.claim)]]
    /\ UNCHANGED <<clock, tables, sweep>>

ResolveExchangePIN(k) ==
    LET c == call[k].claim
        retrievedAt == call[k].at
        found == call[k].seenExpiry > retrievedAt /\ ActiveAt(c, retrievedAt)
    IN
    /\ call[k].stage = "resolve"
    /\ \/ found /\ Snapshot(k, c, "audit", "exchange_pin", call[k].late)
       \/ ~ found /\ Done(k)
    /\ UNCHANGED <<clock, tables, sweep>>

(* The transaction of a public retrieval commits its audit row.            *)
AuditRetrieval(k) ==
    /\ call[k].stage = "audit"
    /\ audit' = audit \union {Log(IF call[k].via = "status"
                                  THEN "claim.status_retrieved"
                                  ELSE "claim.exchange_pin_resolved",
                                  call[k].claim, k)}
    /\ call' = [call EXCEPT ![k].stage = "respond"]
    /\ UNCHANGED <<clock, request, claim, consents, exchangePins, outbox, sweep>>

(* claims.sanitizeClaim: proof details are in the response only if the     *)
(* status that was read is active and the claim is unexpired by now.       *)
DetailsVisibleByStatus(k) == call[k].seen = "active"
DetailsVisible(k) == call[k].seen = "active" /\ call[k].seenExpiry > clock

Respond(k) ==
    /\ call[k].stage = "respond"
    /\ call' = [call EXCEPT ![k] =
          [NewCall EXCEPT !.stage = "done", !.via = call[k].via,
                          !.claim = call[k].claim, !.late = call[k].late,
                          !.shown = DetailsVisible(k)]]
    /\ UNCHANGED <<clock, tables, sweep>>

(* The client goes away, the process stops, or a statement fails: what is  *)
(* not committed is rolled back.                                           *)
LoseCall(k) ==
    /\ call[k].stage \notin {"idle", "done"}
    /\ Done(k)
    /\ UNCHANGED <<clock, tables, sweep>>

Next ==
    \/ Tick
    \/ \E r \in Requests :
          \/ Create(r)
          \/ \E k \in Calls : BeginApprove(k, r) \/ BeginDeny(k, r)
    \/ \E k \in Calls :
          \/ \E accepted \in BOOLEAN : ValidatePIN(k, accepted)
          \/ Approve(k) \/ Deny(k) \/ Revoke(k) \/ CreateExchangePIN(k)
          \/ \E c \in Calls :
                BeginRevoke(k, c) \/ BeginShare(k, c) \/ GetStatus(k, c) \/ List(k, c)
          \/ \E p \in exchangePins : BeginResolve(k, p)
          \/ ResolveExchangePIN(k) \/ AuditRetrieval(k) \/ Respond(k) \/ LoseCall(k)
    \/ \E s \in Sweepers : StartSweep(s) \/ ExpireDue(s) \/ LoseSweep(s)

Spec == Init /\ [][Next]_vars

(* An operator who keeps running expireclaims: a run that can start does,  *)
(* and of endlessly many runs one is not lost.                             *)
SweepsContinue ==
    \A s \in Sweepers : WF_vars(StartSweep(s)) /\ SF_vars(ExpireDue(s))

FairSpec == Spec /\ SweepsContinue

(***************************************************************************)
(* PROPERTIES                                                              *)
(***************************************************************************)

Events == {"claim.approved", "claim.revoked", "claim.expired"}
AuditEvents == {"claim_request.created", "claim_request.approved",
                "claim_request.denied", "claim.revoked", "claim.expired",
                "claim.exchange_pin_created", "claim.status_retrieved",
                "claim.exchange_pin_resolved"}

(* The type of every table and of every call's local state: among others,  *)
(* a claim that exists belongs to a request, and a status is one of its    *)
(* own package's constants.                                                *)
TypeOK ==
    /\ clock \in Nat
    /\ request \in [Requests -> [status : RequestStatus, expiresAt : Nat]]
    /\ claim \in [Calls -> [status : ClaimStatus, request : Requests \union {None},
                            issuedAt : Nat, expiresAt : Nat, revokedAt : Nat]]
    /\ \A c \in Calls : Exists(c) <=> claim[c].request \in Requests
    /\ consents \subseteq [claim : Calls, request : Requests]
    /\ exchangePins \subseteq [pin : Calls, claim : Calls, createdAt : Nat, expiresAt : Nat]
    /\ outbox \subseteq [event : Events, claim : Calls, at : Nat, by : Calls \union Sweepers]
    /\ audit \subseteq [event : AuditEvents, subject : Requests \union Calls,
                        by : Calls \union Sweepers \union {None}]
    /\ call \in [Calls -> [stage : Stages, request : Requests \union {None},
                           claim : Calls \union {None}, at : Nat, via : Retrievals,
                           seen : ClaimStatus, seenExpiry : Nat,
                           late : BOOLEAN, shown : BOOLEAN]]
    /\ sweep \in [Sweepers -> Nat]

(* A claim is released exactly for the requests the user approved: an      *)
(* approved request has one claim, with the request's end and one consent; *)
(* any other has neither.  Approve and Deny of one request may be in       *)
(* flight together, several times over.                                    *)
ReleaseMatchesDecision ==
    /\ \A c \in Calls : Exists(c) =>
          /\ request[claim[c].request].status = "approved_with_security_pin"
          /\ request[claim[c].request].expiresAt = claim[c].expiresAt
          /\ Consent(c, claim[c].request) \in consents
    /\ \A c, d \in Calls : Exists(c) /\ claim[c].request = claim[d].request => c = d
    /\ \A x \in consents : claim[x.claim].request = x.request
    /\ \A r \in Requests : request[r].status = "approved_with_security_pin"
          => \E c \in Calls : claim[c].request = r

(* The outbox tells the story of every claim, once: what is queued for a   *)
(* claim is what its status says happened to it, with no event twice, even *)
(* when a revocation races an expiry run or two runs overlap.              *)
StoryOf(status) ==
    CASE status = "none"    -> {}
      [] status = "active"  -> {"claim.approved"}
      [] status = "revoked" -> {"claim.approved", "claim.revoked"}
      [] status = "expired" -> {"claim.approved", "claim.expired"}

OutboxMatchesStatus ==
    /\ \A c \in Calls :
          {e.event : e \in {x \in outbox : x.claim = c}} = StoryOf(claim[c].status)
    /\ \A e, f \in outbox : e.event = f.event /\ e.claim = f.claim => e = f

(* The times in the outbox are in the order of the story, although each is *)
(* read before the transaction that writes it: the worker sends events by  *)
(* that time.  A revocation is dated within the life of the claim, an      *)
(* expiry not before its end.                                              *)
OutboxChronological ==
    /\ \A c \in Calls : Exists(c) => claim[c].issuedAt < claim[c].expiresAt
    /\ \A e \in outbox :
          /\ e.at <= clock
          /\ e.event = "claim.approved" => e.at = claim[e.claim].issuedAt
          /\ e.event = "claim.revoked" =>
                /\ claim[e.claim].issuedAt <= e.at
                /\ e.at < claim[e.claim].expiresAt
          /\ e.event = "claim.expired" => e.at >= claim[e.claim].expiresAt

(* An exchange PIN is made in the life of a claim and never outlives it,   *)
(* nor its own PinLifetime.                                                *)
ExchangePinWithinClaim ==
    \A p \in exchangePins :
        /\ Exists(p.claim)
        /\ claim[p.claim].issuedAt <= p.createdAt
        /\ p.createdAt < p.expiresAt
        /\ p.expiresAt <= claim[p.claim].expiresAt
        /\ p.expiresAt <= p.createdAt + PinLifetime

(* "Expired or revoked claims must no longer expose truth details": no     *)
(* retrieval that began after a claim had ended shows its proof details,   *)
(* though the status column still says active until an expiry run.         *)
NoDetailsAfterEnd == \A k \in Calls : call[k].shown => ~ call[k].late

(* No public verification is answered without its audit row.               *)
VerificationAudited ==
    \A k \in Calls :
        call[k].stage = "done" /\ call[k].claim # None /\ call[k].via # "list"
        => \E a \in audit :
              /\ a.event \in {"claim.status_retrieved", "claim.exchange_pin_resolved"}
              /\ a.subject = call[k].claim
              /\ a.by = k

(* The handlers implement the contract: seen through this mapping every    *)
(* transaction is one of its steps, or none.                               *)
ClaimOf(r) == CHOOSE c \in Calls : claim[c].request = r

Contract == INSTANCE ClaimContract WITH
    phase <- [r \in Requests |->
                IF request[r].status = "approved_with_security_pin"
                THEN claim[ClaimOf(r)].status
                ELSE request[r].status],
    ends <- [r \in Requests |-> request[r].expiresAt],
    told <- [r \in Requests |->
                {e.event : e \in {x \in outbox : claim[x.claim].request = r}}]

ImplementsContract == Contract!Spec

(* A claim whose end has come does not stay active while expireclaims      *)
(* keeps being run, whatever calls and lost runs come between.             *)
DueClaimsEnd ==
    \A c \in Calls :
        claim[c].status = "active" /\ claim[c].expiresAt <= clock
        ~> claim[c].status \in {"revoked", "expired"}
=============================================================================
