------------------------- MODULE ApprovalOutcome_proofs -------------------------
(***************************************************************************)
(* What is proved of the Security PIN and of claims on their own holds of  *)
(* approvals end to end, where the two constrain each other: the theorems  *)
(* of PinLockout_proofs and of ClaimLifecycle_proofs are instantiated with *)
(* the variables of Approval, whose behaviours are behaviours of both      *)
(* modules (PinImplemented, ClaimsImplemented).                            *)
(***************************************************************************)
EXTENDS Approval_proofs

PinFacts == INSTANCE PinLockout_proofs
                WITH call <- pinCall, audit <- pinAudit, Concurrent <- TRUE
ClaimFacts == INSTANCE ClaimLifecycle_proofs

(***************************************************************************)
(* Approval's instances and those of the proofs define the same formulas.  *)
(***************************************************************************)
LEMMA SamePinInit == Pin!Init <=> PinFacts!Init
  BY
     DEF Pin!Init, Pin!NewCall, Pin!NoLock, Pin!AuditEvents, PinFacts!Init,
         PinFacts!NewCall, PinFacts!NoLock, PinFacts!AuditEvents

LEMMA SamePinNext == [Pin!Next]_(Pin!vars) <=> [PinFacts!Next]_(PinFacts!vars)
  BY
     DEF Pin!vars, Pin!row, Pin!history, Pin!NoLock, Pin!NewCall,
         Pin!InFlight, Pin!MayStart, Pin!Finish, Pin!Count, Pin!IsLocked,
         Pin!Compare, Pin!NextFailed, Pin!NextLock, Pin!Tick,
         Pin!GetValidationState, Pin!Decide, Pin!RecordValidationFailure,
         Pin!ClearFailures, Pin!RecordValidationSuccess, Pin!SetPIN,
         Pin!CheckPassword, Pin!ResetPIN, Pin!Lose, Pin!Next, PinFacts!vars,
         PinFacts!row, PinFacts!history, PinFacts!NoLock, PinFacts!NewCall,
         PinFacts!InFlight, PinFacts!MayStart, PinFacts!Finish,
         PinFacts!Count, PinFacts!IsLocked, PinFacts!Compare,
         PinFacts!NextFailed, PinFacts!NextLock, PinFacts!Tick,
         PinFacts!GetValidationState, PinFacts!Decide,
         PinFacts!RecordValidationFailure, PinFacts!ClearFailures,
         PinFacts!RecordValidationSuccess, PinFacts!SetPIN,
         PinFacts!CheckPassword, PinFacts!ResetPIN, PinFacts!Lose,
         PinFacts!Next

LEMMA SameClaimsInit == Claims!Init <=> ClaimFacts!Init
  BY
     DEF Claims!Init, Claims!NewRequest, Claims!NoClaim, Claims!NewCall,
         ClaimFacts!Init, ClaimFacts!NewRequest, ClaimFacts!NoClaim,
         ClaimFacts!NewCall

LEMMA SameClaimsNext == [Claims!Next]_(Claims!vars) <=> [ClaimFacts!Next]_(ClaimFacts!vars)
  BY
     DEF Claims!vars, Claims!tables, Claims!NewCall, Claims!Exists,
         Claims!Unexpired, Claims!InForce, Claims!Enter, Claims!Done,
         Claims!Event, Claims!Log, Claims!Tick, Claims!PendingRequest,
         Claims!Create, Claims!Open, Claims!BeginApprove,
         Claims!ValidatePIN, Claims!NoClaimFor, Claims!IssuedClaim,
         Claims!Consent, Claims!DecidedAs, Claims!Approve, Claims!BeginDeny,
         Claims!Deny, Claims!BeginRevoke, Claims!ActiveAt,
         Claims!RevokedRow, Claims!Revoke, Claims!StartSweep, Claims!Due,
         Claims!ExpireDue, Claims!LoseSweep, Claims!BeginShare,
         Claims!Earlier, Claims!CreateExchangePIN, Claims!Snapshot,
         Claims!GetStatus, Claims!List, Claims!BeginResolve,
         Claims!ResolveExchangePIN, Claims!AuditRetrieval,
         Claims!DetailsVisible, Claims!Respond, Claims!LoseCall,
         Claims!Next, ClaimFacts!vars, ClaimFacts!tables,
         ClaimFacts!NewCall, ClaimFacts!Exists, ClaimFacts!Unexpired,
         ClaimFacts!InForce, ClaimFacts!Enter, ClaimFacts!Done,
         ClaimFacts!Event, ClaimFacts!Log, ClaimFacts!Tick,
         ClaimFacts!PendingRequest, ClaimFacts!Create, ClaimFacts!Open,
         ClaimFacts!BeginApprove, ClaimFacts!ValidatePIN,
         ClaimFacts!NoClaimFor, ClaimFacts!IssuedClaim, ClaimFacts!Consent,
         ClaimFacts!DecidedAs, ClaimFacts!Approve, ClaimFacts!BeginDeny,
         ClaimFacts!Deny, ClaimFacts!BeginRevoke, ClaimFacts!ActiveAt,
         ClaimFacts!RevokedRow, ClaimFacts!Revoke, ClaimFacts!StartSweep,
         ClaimFacts!Due, ClaimFacts!ExpireDue, ClaimFacts!LoseSweep,
         ClaimFacts!BeginShare, ClaimFacts!Earlier,
         ClaimFacts!CreateExchangePIN, ClaimFacts!Snapshot,
         ClaimFacts!GetStatus, ClaimFacts!List, ClaimFacts!BeginResolve,
         ClaimFacts!ResolveExchangePIN, ClaimFacts!AuditRetrieval,
         ClaimFacts!DetailsVisible, ClaimFacts!Respond, ClaimFacts!LoseCall,
         ClaimFacts!Next

LEMMA PinBehaviour == Spec => PinFacts!Spec
  BY PinImplemented, SamePinInit, SamePinNext, PTL DEF Pin!Spec, PinFacts!Spec

LEMMA ClaimsBehaviour == Spec => ClaimFacts!Spec
  BY ClaimsImplemented, SameClaimsInit, SameClaimsNext, PTL
     DEF Claims!Spec, ClaimFacts!Spec

LEMMA PinConstants ==
  /\ PinFacts!LimitAssumption
  /\ PinFacts!PinAssumption
  /\ PinFacts!ConcurrentAssumption
  BY PinAssumption, ClaimAssumption
     DEF PinFacts!LimitAssumption, PinFacts!PinAssumption, PinFacts!ConcurrentAssumption

LEMMA ClaimConstants == ClaimFacts!TimeAssumption /\ ClaimFacts!NameAssumption
  BY ClaimAssumption DEF ClaimFacts!TimeAssumption, ClaimFacts!NameAssumption

(* Whatever approvals, denials and resets run together, the Security PIN   *)
(* is locked exactly when the failures of the audit trail earned it, and   *)
(* for no longer than the lockout.                                         *)
THEOREM PinLockInApprovals == Spec => []Pin!LockIsEarned /\ []Pin!LockEndsInTime
<1>1. PinFacts!Spec => []PinFacts!LockIsEarned
  BY PinFacts!LockEarned, PinConstants
<1>2. PinFacts!Spec => []PinFacts!LockEndsInTime
  BY PinFacts!LockTimely, PinConstants
<1>3. PinFacts!LockIsEarned <=> Pin!LockIsEarned
  BY DEF Pin!LockIsEarned, PinFacts!LockIsEarned, Pin!NoLock, PinFacts!NoLock
<1>4. PinFacts!LockEndsInTime <=> Pin!LockEndsInTime
  BY DEF Pin!LockEndsInTime, PinFacts!LockEndsInTime
<1>5. QED
  BY <1>1, <1>2, <1>3, <1>4, PinBehaviour, PTL

(* Nothing an approval, a denial or a claim does lifts a lock that is in   *)
(* force: only a new PIN, or a validation that had read the row before.    *)
THEOREM LockHoldsInApprovals == Spec => Pin!LockLiftedOnlyByStaleOrNewPIN
<1>1. PinFacts!Spec => PinFacts!LockLiftedOnlyByStaleOrNewPIN
  BY PinFacts!LockLifted, PinConstants
<1>2. PinFacts!LockLiftedOnlyByStaleOrNewPIN <=> Pin!LockLiftedOnlyByStaleOrNewPIN
  BY PTL DEF Pin!LockLiftedOnlyByStaleOrNewPIN, PinFacts!LockLiftedOnlyByStaleOrNewPIN,
     Pin!vars, PinFacts!vars, Pin!row, PinFacts!row, Pin!history, PinFacts!history
<1>3. QED
  BY <1>1, <1>2, PinBehaviour, PTL

(* The books of requests, claims, consents, the outbox and the audit trail *)
(* stay true when every approval has to pass the Security PIN first.       *)
ClaimBooks ==
    /\ Claims!ReleaseMatchesDecision
    /\ Claims!OutboxMatchesStatus
    /\ Claims!OutboxChronological
    /\ Claims!ExchangePinWithinClaim
    /\ Claims!NoDetailsAfterEnd
    /\ Claims!VerificationAudited

THEOREM ClaimBooksInApprovals == Spec => []ClaimBooks
<1>1. ClaimFacts!Spec => /\ []ClaimFacts!ReleaseMatchesDecision
                        /\ []ClaimFacts!OutboxMatchesStatus
                        /\ []ClaimFacts!OutboxChronological
                        /\ []ClaimFacts!ExchangePinWithinClaim
                        /\ []ClaimFacts!NoDetailsAfterEnd
                        /\ []ClaimFacts!VerificationAudited
  BY ClaimFacts!ReleasedOnceApproved, ClaimFacts!StoryTold, ClaimFacts!StoryInOrder,
     ClaimFacts!ExchangePinBounded, ClaimFacts!DetailsProtected,
     ClaimFacts!RetrievalsAudited, ClaimConstants
<1>2. /\ ClaimFacts!ReleaseMatchesDecision /\ ClaimFacts!OutboxMatchesStatus
      /\ ClaimFacts!OutboxChronological /\ ClaimFacts!ExchangePinWithinClaim
      /\ ClaimFacts!NoDetailsAfterEnd /\ ClaimFacts!VerificationAudited
      => ClaimBooks
  BY
     DEF ClaimBooks, Claims!ReleaseMatchesDecision, Claims!OutboxMatchesStatus,
         Claims!StoryOf, Claims!OutboxChronological,
         Claims!ExchangePinWithinClaim, Claims!NoDetailsAfterEnd,
         Claims!VerificationAudited, Claims!Exists, Claims!Consent,
         ClaimFacts!ReleaseMatchesDecision, ClaimFacts!OutboxMatchesStatus,
         ClaimFacts!StoryOf, ClaimFacts!OutboxChronological,
         ClaimFacts!ExchangePinWithinClaim, ClaimFacts!NoDetailsAfterEnd,
         ClaimFacts!VerificationAudited, ClaimFacts!Exists,
         ClaimFacts!Consent
<1>3. QED
  BY <1>1, <1>2, ClaimsBehaviour, PTL

(* Approvals that have to pass the Security PIN keep the contract of the   *)
(* claims: seen through its mapping each of their steps is one of its      *)
(* steps, or none.                                                         *)
THEOREM ContractInApprovals == Spec => Claims!ImplementsContract
<1>1. ClaimFacts!Spec => ClaimFacts!ImplementsContract
  BY ClaimFacts!HandlersImplementContract, ClaimConstants
<1>2. ClaimFacts!ImplementsContract <=> Claims!ImplementsContract
  BY PTL
     DEF Claims!ImplementsContract, Claims!ClaimOf, Claims!Contract!Spec,
         Claims!Contract!Init, Claims!Contract!Next, Claims!Contract!vars,
         Claims!Contract!Move, Claims!Contract!Tell, Claims!Contract!Ask,
         Claims!Contract!Refuse, Claims!Contract!Grant,
         Claims!Contract!Withdraw, Claims!Contract!Lapse,
         Claims!Contract!TimePasses, ClaimFacts!ImplementsContract,
         ClaimFacts!ClaimOf, ClaimFacts!Contract!Spec,
         ClaimFacts!Contract!Init, ClaimFacts!Contract!Next,
         ClaimFacts!Contract!vars, ClaimFacts!Contract!Move,
         ClaimFacts!Contract!Tell, ClaimFacts!Contract!Ask,
         ClaimFacts!Contract!Refuse, ClaimFacts!Contract!Grant,
         ClaimFacts!Contract!Withdraw, ClaimFacts!Contract!Lapse,
         ClaimFacts!Contract!TimePasses
<1>3. QED
  BY <1>1, <1>2, ClaimsBehaviour, PTL

(* "No claim may be issued unless" it was approved with the PIN and has a  *)
(* consent, followed to the end: details that were shown to anybody are    *)
(* those of a claim released by the validation of its own approval.        *)
THEOREM DisclosureAuthorized == Spec => []DisclosedByConsent
<1>1. ClaimFacts!Spec => []ClaimFacts!CallInv
  BY ClaimFacts!CallInvariant, ClaimConstants
<1>2. ClaimFacts!CallInv /\ ClaimBooks /\ ReleasedByOwnPIN => DisclosedByConsent
  <2> SUFFICES ASSUME ClaimFacts!CallInv, ClaimBooks, ReleasedByOwnPIN,
                      NEW k \in Calls, call[k].shown,
                      NEW c, c = call[k].claim
               PROVE  /\ c \in Calls
                      /\ pinCall[c].answer = "ok"
                      /\ \E x \in consents :
                            /\ x.claim = c
                            /\ request[x.request].status = "approved_with_security_pin"
    BY DEF DisclosedByConsent
  <2>1. c \in Calls /\ Claims!Exists(c)
    BY DEF ClaimFacts!CallInv, ClaimFacts!Knows, Claims!Exists
  <2>2. pinCall[c].answer = "ok"
    BY <2>1 DEF ReleasedByOwnPIN, Released
  <2> DEFINE x == Claims!Consent(c, claim[c].request)
  <2>3. /\ x \in consents
        /\ request[claim[c].request].status = "approved_with_security_pin"
    BY <2>1 DEF ClaimBooks, Claims!ReleaseMatchesDecision
  <2>4. x.claim = c /\ x.request = claim[c].request
    BY DEF Claims!Consent
  <2>5. QED
    BY <2>1, <2>2, <2>3, <2>4
<1>3. QED
  BY <1>1, <1>2, ClaimsBehaviour, ClaimBooksInApprovals, OwnPINReleases, PTL
=============================================================================
