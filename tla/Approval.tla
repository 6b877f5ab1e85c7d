------------------------------- MODULE Approval -------------------------------
(***************************************************************************)
(* Approving a claim request, end to end: the request and its claim        *)
(* (ClaimLifecycle) and the Security PIN that releases it (PinLockout),    *)
(* with the calls and the clock they share.  claimrequests.Approve looks   *)
(* at the request, runs a whole securitypin validation, with its three     *)
(* steps and its own transaction, and only then decides the request; in    *)
(* between the PIN may be replaced or locked, and the request denied,      *)
(* approved by another call, or at its end.                                *)
(*                                                                         *)
(* Here the two modules constrain each other: a PIN is validated only for  *)
(* an approval that has found its request open, and an approval goes on    *)
(* only with the answer of its own validation.  The rest of each module is *)
(* as it stands there.  As elsewhere, a definition that differs by one     *)
(* slip from the one after it is a mutant, which no action uses.           *)
(***************************************************************************)
EXTENDS Naturals, FiniteSets

CONSTANTS
    Calls, PINs, Malformed, NoPIN, MaxFailedAttempts, LockoutDuration,
    Requests, Sweepers, Durations, PinLifetime, MaxTime, None

(* What PinLockout and ClaimLifecycle assume of them.                      *)
ASSUME PinAssumption ==
    /\ MaxFailedAttempts \in Nat \ {0}
    /\ LockoutDuration \in Nat \ {0}
    /\ NoPIN \notin PINs /\ Malformed \notin PINs
ASSUME ClaimAssumption ==
    /\ MaxTime \in Nat
    /\ Durations \subseteq Nat \ {0}
    /\ PinLifetime \in Nat \ {0}
    /\ None \notin Requests /\ None \notin Calls

VARIABLES
    clock,
    pinHash, failedAttempts, lockedUntil,
    pinCall,         \* the part of a call that deals with the Security PIN
    pinAudit,        \* audit rows of the Security PIN
    wrongAnswers, lastWrongAt,
    request, claim, consents, exchangePins, outbox, audit,
    call,            \* the part of a call that deals with requests and claims
    sweep

Pin == INSTANCE PinLockout WITH call <- pinCall, audit <- pinAudit, Concurrent <- TRUE
Claims == INSTANCE ClaimLifecycle

pinVars == <<pinHash, failedAttempts, lockedUntil, pinCall, pinAudit,
             wrongAnswers, lastWrongAt>>
claimVars == <<request, claim, consents, exchangePins, outbox, audit, call, sweep>>
vars == <<clock, pinVars, claimVars>>

(* A call deals with one thing: an approval, the PIN itself, or a claim.   *)
Fresh(k) == call[k].stage = "idle" /\ pinCall[k].stage = "idle"

Init == Pin!Init /\ Claims!Init

Tick == Pin!Tick /\ Claims!Tick

(***************************************************************************)
(* claimrequests.Approve, in the order of its steps.                       *)
(***************************************************************************)
BeginApprove(k, r) ==
    /\ Fresh(k)
    /\ Claims!BeginApprove(k, r)
    /\ UNCHANGED pinVars

StartValidation(k, pin) ==
    /\ call[k].stage = "pin"
    /\ Pin!GetValidationState(k, pin)
    /\ UNCHANGED claimVars

Validate(k) ==
    /\ \/ Pin!Decide(k)
       \/ Pin!RecordValidationFailure(k)
       \/ Pin!RecordValidationSuccess(k)
    /\ UNCHANGED claimVars

(* The validation answers; any error of it ends the approval.              *)
AcceptedUnlessInvalid(k) == pinCall[k].answer # "invalid"
Accepted(k) == pinCall[k].answer = "ok"

EndValidation(k) ==
    /\ pinCall[k].stage = "done"
    /\ Claims!ValidatePIN(k, Accepted(k))
    /\ UNCHANGED pinVars

Approve(k) == Claims!Approve(k) /\ UNCHANGED pinVars

(***************************************************************************)
(* The calls that set or reset the PIN.                                    *)
(***************************************************************************)
ChangePIN(k) ==
    /\ \/ /\ Fresh(k)
          /\ \E pin \in PINs \union {Malformed} :
                \/ Pin!SetPIN(k, pin)
                \/ \E matches \in BOOLEAN : Pin!CheckPassword(k, pin, matches)
       \/ Pin!ResetPIN(k)
    /\ UNCHANGED claimVars

(***************************************************************************)
(* Everything else that is done to requests and claims.                    *)
(***************************************************************************)
DecideOtherwise(k) ==
    /\ \/ /\ Fresh(k)
          /\ \/ \E r \in Requests : Claims!BeginDeny(k, r)
             \/ \E c \in Calls :
                   \/ Claims!BeginRevoke(k, c) \/ Claims!BeginShare(k, c)
                   \/ Claims!GetStatus(k, c) \/ Claims!List(k, c)
             \/ \E p \in exchangePins : Claims!BeginResolve(k, p)
       \/ Claims!Deny(k)
       \/ Claims!Revoke(k)
       \/ Claims!CreateExchangePIN(k)
       \/ Claims!ResolveExchangePIN(k) \/ Claims!AuditRetrieval(k) \/ Claims!Respond(k)
    /\ UNCHANGED pinVars

CreateRequest(r) == Claims!Create(r) /\ UNCHANGED pinVars

Sweep(s) ==
    /\ Claims!StartSweep(s) \/ Claims!ExpireDue(s) \/ Claims!LoseSweep(s)
    /\ UNCHANGED pinVars

(* A call is lost with its validation, which then answers nothing, or      *)
(* after it.                                                               *)
LosePIN(k) == Pin!Lose(k) /\ UNCHANGED claimVars
LoseCall(k) ==
    /\ ~ Pin!InFlight(k)
    /\ Claims!LoseCall(k)
    /\ UNCHANGED pinVars

Next ==
    \/ Tick
    \/ \E k \in Calls :
          \/ \E r \in Requests : BeginApprove(k, r)
          \/ \E pin \in PINs \union {Malformed} : StartValidation(k, pin)
          \/ Validate(k) \/ EndValidation(k) \/ Approve(k)
          \/ ChangePIN(k) \/ DecideOtherwise(k) \/ LosePIN(k) \/ LoseCall(k)
    \/ \E r \in Requests : CreateRequest(r)
    \/ \E s \in Sweepers : Sweep(s)

Spec == Init /\ [][Next]_vars

(***************************************************************************)
(* PROPERTIES                                                              *)
(***************************************************************************)

(* "The Security PIN must be valid": every claim, and every approval that  *)
(* is past its PIN, rests on a validation of its own that is in the audit  *)
(* trail; what other calls do to the PIN or to the request in between      *)
(* neither lends one nor uses it twice.                                    *)
Released == {k \in Calls : Claims!Exists(k) \/ call[k].stage = "approve"}

ReleasedByOwnPIN ==
    /\ \A k \in Released : pinCall[k].answer = "ok"
    /\ Cardinality(Released) <= pinAudit["validation_succeeded"]

(* "No claim may be issued unless the user approved it, the Security PIN   *)
(* was successfully validated, the consent record was created": whoever    *)
(* has been shown the details of a claim, by a verification, an exchange   *)
(* PIN or a list, was shown those of a claim that the user's own PIN       *)
(* released, with a consent for a request that stands approved.            *)
DisclosedByConsent ==
    \A k \in Calls : call[k].shown =>
        LET c == call[k].claim IN
        /\ c \in Calls
        /\ pinCall[c].answer = "ok"
        /\ \E x \in consents :
              /\ x.claim = c
              /\ request[x.request].status = "approved_with_security_pin"
=============================================================================
