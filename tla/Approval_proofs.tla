--------------------------- MODULE Approval_proofs ---------------------------
(***************************************************************************)
(* Proofs about Approval, for every value of the constants: claims rest on *)
(* validations of their own, and theorems about the two modules apply.     *)
(***************************************************************************)
EXTENDS Approval, FiniteSetTheorems, TLAPS

(***************************************************************************)
(* What the steps of one module leave alone in the other: everything but   *)
(* the clock, which only Tick moves, and moves for both.                   *)
(***************************************************************************)
LEMMA PinUntouched == clock' = clock /\ UNCHANGED pinVars => UNCHANGED Pin!vars
  BY DEF pinVars, Pin!vars, Pin!row, Pin!history

LEMMA ClaimsUntouched == clock' = clock /\ UNCHANGED claimVars => UNCHANGED Claims!vars
  BY DEF claimVars, Claims!vars, Claims!tables

LEMMA CallKeepsTime ==
  ASSUME NEW k \in Calls,
         \/ \E accepted \in BOOLEAN : Claims!ValidatePIN(k, accepted)
         \/ \E r \in Requests : Claims!BeginApprove(k, r)
         \/ Claims!Approve(k) \/ Claims!LoseCall(k)
         \/ DecideOtherwise(k)
  PROVE  clock' = clock
  BY DEF DecideOtherwise, Claims!BeginApprove, Claims!BeginDeny, Claims!ValidatePIN,
         Claims!Approve, Claims!Deny, Claims!BeginRevoke, Claims!Revoke,
         Claims!BeginShare, Claims!CreateExchangePIN, Claims!GetStatus, Claims!List,
         Claims!BeginResolve, Claims!ResolveExchangePIN, Claims!AuditRetrieval,
         Claims!Respond, Claims!LoseCall

LEMMA OthersKeepTime ==
  ASSUME \/ \E r \in Requests : CreateRequest(r)
         \/ \E s \in Sweepers : Sweep(s)
  PROVE  clock' = clock
  BY DEF CreateRequest, Claims!Create, Sweep, Claims!StartSweep, Claims!ExpireDue,
         Claims!LoseSweep

LEMMA PinKeepsTime ==
  ASSUME NEW k \in Calls,
         \/ \E pin \in PINs \union {Malformed} : StartValidation(k, pin)
         \/ Validate(k) \/ ChangePIN(k) \/ LosePIN(k)
  PROVE  clock' = clock
  BY DEF StartValidation, Validate, ChangePIN, LosePIN, Pin!GetValidationState,
         Pin!Decide, Pin!RecordValidationFailure, Pin!RecordValidationSuccess,
         Pin!SetPIN, Pin!CheckPassword, Pin!ResetPIN, Pin!Lose

(***************************************************************************)
(* For the Security PIN every step is one of PinLockout, or none.          *)
(***************************************************************************)
LEMMA PinStep == [Next]_vars => [Pin!Next]_(Pin!vars)
<1> SUFFICES ASSUME [Next]_vars PROVE Pin!Next \/ UNCHANGED Pin!vars
  OBVIOUS
<1>1. CASE Tick
  BY <1>1 DEF Tick, Pin!Next
<1>2. ASSUME NEW k \in Calls, NEW r \in Requests, BeginApprove(k, r)
      PROVE  UNCHANGED Pin!vars
  BY <1>2, CallKeepsTime, PinUntouched DEF BeginApprove
<1>3. ASSUME NEW k \in Calls, NEW pin \in PINs \union {Malformed}, StartValidation(k, pin)
      PROVE  Pin!Next
  BY <1>3 DEF StartValidation, Pin!Next
<1>4. ASSUME NEW k \in Calls, Validate(k)
      PROVE  Pin!Next
  BY <1>4 DEF Validate, Pin!Next
<1>5. ASSUME NEW k \in Calls, EndValidation(k)
      PROVE  UNCHANGED Pin!vars
  <2>1. Accepted(k) \in BOOLEAN
    BY DEF Accepted
  <2>2. QED
    BY <1>5, <2>1, CallKeepsTime, PinUntouched DEF EndValidation
<1>6. ASSUME NEW k \in Calls, Approve(k)
      PROVE  UNCHANGED Pin!vars
  BY <1>6, CallKeepsTime, PinUntouched DEF Approve
<1>7. ASSUME NEW k \in Calls, ChangePIN(k)
      PROVE  Pin!Next
  BY <1>7 DEF ChangePIN, Pin!Next
<1>8. ASSUME NEW k \in Calls, DecideOtherwise(k)
      PROVE  UNCHANGED Pin!vars
  BY <1>8, CallKeepsTime, PinUntouched DEF DecideOtherwise
<1>9. ASSUME NEW k \in Calls, LosePIN(k)
      PROVE  Pin!Next
  BY <1>9 DEF LosePIN, Pin!Next
<1>10. ASSUME NEW k \in Calls, LoseCall(k)
       PROVE  UNCHANGED Pin!vars
  BY <1>10, CallKeepsTime, PinUntouched DEF LoseCall
<1>11. ASSUME NEW r \in Requests, CreateRequest(r)
       PROVE  UNCHANGED Pin!vars
  BY <1>11, OthersKeepTime, PinUntouched DEF CreateRequest
<1>12. ASSUME NEW s \in Sweepers, Sweep(s)
       PROVE  UNCHANGED Pin!vars
  BY <1>12, OthersKeepTime, PinUntouched DEF Sweep
<1>13. CASE UNCHANGED vars
  BY <1>13, PinUntouched DEF vars
<1>14. QED
  BY <1>1, <1>2, <1>3, <1>4, <1>5, <1>6, <1>7, <1>8, <1>9, <1>10, <1>11, <1>12, <1>13
     DEF Next

(* The composition takes steps of PinLockout or none of them, so theorems  *)
(* about PinLockout may be used of it.                                     *)
LEMMA PinImplemented == Spec => Pin!Spec
<1>1. Init => Pin!Init
  BY DEF Init
<1>2. QED
  BY <1>1, PinStep, PTL DEF Spec, Pin!Spec

(***************************************************************************)
(* For requests and claims every step is one of ClaimLifecycle, or none.   *)
(***************************************************************************)
LEMMA ClaimsStep == [Next]_vars => [Claims!Next]_(Claims!vars)
<1> SUFFICES ASSUME [Next]_vars PROVE Claims!Next \/ UNCHANGED Claims!vars
  OBVIOUS
<1>1. CASE Tick
  BY <1>1 DEF Tick, Claims!Next
<1>2. ASSUME NEW k \in Calls, NEW r \in Requests, BeginApprove(k, r)
      PROVE  Claims!Next
  BY <1>2 DEF BeginApprove, Claims!Next
<1>3. ASSUME NEW k \in Calls, NEW pin \in PINs \union {Malformed}, StartValidation(k, pin)
      PROVE  UNCHANGED Claims!vars
  BY <1>3, PinKeepsTime, ClaimsUntouched DEF StartValidation
<1>4. ASSUME NEW k \in Calls, Validate(k)
      PROVE  UNCHANGED Claims!vars
  BY <1>4, PinKeepsTime, ClaimsUntouched DEF Validate
<1>5. ASSUME NEW k \in Calls, EndValidation(k)
      PROVE  Claims!Next
  <2>1. Accepted(k) \in BOOLEAN
    BY DEF Accepted
  <2>2. QED
    BY <1>5, <2>1 DEF EndValidation, Claims!Next
<1>6. ASSUME NEW k \in Calls, Approve(k)
      PROVE  Claims!Next
  BY <1>6 DEF Approve, Claims!Next
<1>7. ASSUME NEW k \in Calls, ChangePIN(k)
      PROVE  UNCHANGED Claims!vars
  BY <1>7, PinKeepsTime, ClaimsUntouched DEF ChangePIN
<1>8. ASSUME NEW k \in Calls, DecideOtherwise(k)
      PROVE  Claims!Next
  BY <1>8 DEF DecideOtherwise, Claims!Next
<1>9. ASSUME NEW k \in Calls, LosePIN(k)
      PROVE  UNCHANGED Claims!vars
  BY <1>9, PinKeepsTime, ClaimsUntouched DEF LosePIN
<1>10. ASSUME NEW k \in Calls, LoseCall(k)
       PROVE  Claims!Next
  BY <1>10 DEF LoseCall, Claims!Next
<1>11. ASSUME NEW r \in Requests, CreateRequest(r)
       PROVE  Claims!Next
  BY <1>11 DEF CreateRequest, Claims!Next
<1>12. ASSUME NEW s \in Sweepers, Sweep(s)
       PROVE  Claims!Next
  BY <1>12 DEF Sweep, Claims!Next
<1>13. CASE UNCHANGED vars
  BY <1>13, ClaimsUntouched DEF vars
<1>14. QED
  BY <1>1, <1>2, <1>3, <1>4, <1>5, <1>6, <1>7, <1>8, <1>9, <1>10, <1>11, <1>12, <1>13
     DEF Next

(* So may those about ClaimLifecycle, which hold for any answer of a       *)
(* validation.                                                             *)
LEMMA ClaimsImplemented == Spec => Claims!Spec
<1>1. Init => Claims!Init
  BY DEF Init
<1>2. QED
  BY <1>1, ClaimsStep, PTL DEF Spec, Claims!Spec

(***************************************************************************)
(* A claim and the validation that released it.  The two local states of a *)
(* call move in turn: a validation runs only while its approval waits at   *)
(* the PIN, a reset only in a call that does nothing else, and any other   *)
(* call has no PIN at all (Coupled).  So the calls that are past a right   *)
(* PIN (Validated) are added to by one step only, which logs it.           *)
(***************************************************************************)
Shape ==
    /\ DOMAIN pinCall = Calls /\ DOMAIN call = Calls /\ DOMAIN claim = Calls
    /\ \A k \in Calls :
          /\ {"stage", "answer"} \subseteq DOMAIN pinCall[k]
          /\ "stage" \in DOMAIN call[k] /\ "status" \in DOMAIN claim[k]
    /\ "validation_succeeded" \in DOMAIN pinAudit

Other == {"deny", "revoke", "share", "resolve", "audit", "respond"}

Coupled(k) ==
    /\ pinCall[k].stage \in {"read", "wrong", "right"} => call[k].stage = "pin"
    /\ pinCall[k].stage = "resetting" => call[k].stage = "idle"
    /\ pinCall[k].answer = "ok" => pinCall[k].stage = "done"
    /\ call[k].stage \in Other => pinCall[k].stage = "idle"
    /\ call[k].stage = "approve" => pinCall[k].answer = "ok"
    /\ Claims!Exists(k) => call[k].stage = "done" /\ pinCall[k].answer = "ok"

Validated == {k \in Calls : call[k].stage # "idle" /\ pinCall[k].answer = "ok"}

OwnPINInv ==
    /\ Shape
    /\ \A k \in Calls : Coupled(k)
    /\ IsFiniteSet(Validated)
    /\ pinAudit["validation_succeeded"] \in Nat
    /\ Cardinality(Validated) <= pinAudit["validation_succeeded"]

(* A step that adds no validation, and takes no row from the audit trail.  *)
LEMMA NoneValidated ==
  ASSUME OwnPINInv, Shape', \A k \in Calls : Coupled(k)',
         pinAudit'["validation_succeeded"] = pinAudit["validation_succeeded"],
         Validated' \subseteq Validated
  PROVE  OwnPINInv'
<1>1. IsFiniteSet(Validated') /\ Cardinality(Validated') <= Cardinality(Validated)
      /\ Cardinality(Validated) \in Nat /\ Cardinality(Validated') \in Nat
  BY FS_Subset, FS_CardinalityType DEF OwnPINInv
<1>2. QED
  BY <1>1 DEF OwnPINInv

(***************************************************************************)
(* The steps of ClaimLifecycle, as the PIN sees them.                      *)
(***************************************************************************)
LEMMA CallDone ==
  ASSUME Shape, NEW k \in Calls, Claims!Done(k)
  PROVE  /\ DOMAIN call' = Calls /\ call'[k].stage = "done"
         /\ \A j \in Calls : "stage" \in DOMAIN call'[j] /\ (j # k => call'[j] = call[j])
  BY DEF Shape, Claims!Done, Claims!NewCall

LEMMA CallEnters ==
  ASSUME Shape, NEW k \in Calls, NEW stage, NEW c, Claims!Enter(k, stage, c)
  PROVE  /\ DOMAIN call' = Calls /\ call'[k].stage = stage
         /\ \A j \in Calls : "stage" \in DOMAIN call'[j] /\ (j # k => call'[j] = call[j])
  BY DEF Shape, Claims!Enter

LEMMA CallSnapshot ==
  ASSUME Shape, NEW k \in Calls, NEW c, NEW stage, NEW via, NEW late,
         Claims!Snapshot(k, c, stage, via, late)
  PROVE  /\ DOMAIN call' = Calls /\ call'[k].stage = stage
         /\ \A j \in Calls : "stage" \in DOMAIN call'[j] /\ (j # k => call'[j] = call[j])
  BY DEF Shape, Claims!Snapshot

LEMMA ClaimsKept ==
  ASSUME Shape,
         \/ UNCHANGED claim
         \/ \E c \in Calls : \E at : /\ Claims!Exists(c)
                                     /\ claim' = [claim EXCEPT ![c] = Claims!RevokedRow(c, at)]
         \/ \E s \in Sweepers : Claims!ExpireDue(s)
  PROVE  /\ DOMAIN claim' = Calls
         /\ \A c \in Calls : /\ "status" \in DOMAIN claim'[c]
                             /\ Claims!Exists(c)' <=> Claims!Exists(c)
<1>1. CASE UNCHANGED claim
  BY <1>1 DEF Shape, Claims!Exists
<1>2. ASSUME NEW c \in Calls, NEW at, Claims!Exists(c),
             claim' = [claim EXCEPT ![c] = Claims!RevokedRow(c, at)]
      PROVE  /\ DOMAIN claim' = Calls
             /\ \A d \in Calls : /\ "status" \in DOMAIN claim'[d]
                                 /\ Claims!Exists(d)' <=> Claims!Exists(d)
  BY <1>2 DEF Shape, Claims!Exists, Claims!RevokedRow
<1>3. ASSUME NEW s \in Sweepers, Claims!ExpireDue(s)
      PROVE  /\ DOMAIN claim' = Calls
             /\ \A d \in Calls : /\ "status" \in DOMAIN claim'[d]
                                 /\ Claims!Exists(d)' <=> Claims!Exists(d)
  BY <1>3 DEF Shape, Claims!Exists, Claims!ExpireDue, Claims!Due
<1>4. QED
  BY <1>1, <1>2, <1>3

LEMMA OthersEffect ==
  ASSUME Shape, NEW k \in Calls, DecideOtherwise(k)
  PROVE  /\ DOMAIN call' = Calls
         /\ \A j \in Calls : "stage" \in DOMAIN call'[j] /\ (j # k => call'[j] = call[j])
         /\ \/ Fresh(k) /\ call'[k].stage \in Other
            \/ call[k].stage \in Other /\ call'[k].stage \in Other \union {"done"}
         /\ DOMAIN claim' = Calls
         /\ \A c \in Calls : /\ "status" \in DOMAIN claim'[c]
                             /\ Claims!Exists(c)' <=> Claims!Exists(c)
<1> DEFINE Moved == /\ DOMAIN call' = Calls
                    /\ \A j \in Calls : "stage" \in DOMAIN call'[j] /\ (j # k => call'[j] = call[j])
           ClaimsSame == /\ DOMAIN claim' = Calls
                         /\ \A c \in Calls : /\ "status" \in DOMAIN claim'[c]
                                             /\ Claims!Exists(c)' <=> Claims!Exists(c)
<1>1. ASSUME NEW r \in Requests, Claims!BeginDeny(k, r)
      PROVE  Moved /\ ClaimsSame /\ call'[k].stage \in Other
  BY <1>1, ClaimsKept DEF Claims!BeginDeny, Claims!tables, Shape, Other
<1>2. ASSUME NEW c \in Calls, Claims!BeginRevoke(k, c) \/ Claims!BeginShare(k, c)
      PROVE  Moved /\ ClaimsSame /\ call'[k].stage \in Other
  BY <1>2, ClaimsKept, CallEnters DEF Claims!BeginRevoke, Claims!BeginShare, Claims!tables, Other
<1>3. ASSUME NEW c \in Calls, Claims!GetStatus(k, c) \/ Claims!List(k, c)
      PROVE  Moved /\ ClaimsSame /\ call'[k].stage \in Other
  BY <1>3, ClaimsKept, CallSnapshot DEF Claims!GetStatus, Claims!List, Claims!tables, Other
<1>4. ASSUME NEW p \in exchangePins, Claims!BeginResolve(k, p)
      PROVE  Moved /\ ClaimsSame /\ call'[k].stage \in Other
  BY <1>4, ClaimsKept DEF Claims!BeginResolve, Claims!tables, Shape, Other
<1>5. ASSUME Claims!Deny(k) \/ Claims!CreateExchangePIN(k)
      PROVE  Moved /\ ClaimsSame /\ call[k].stage \in Other /\ call'[k].stage = "done"
  BY <1>5, ClaimsKept, CallDone DEF Claims!Deny, Claims!CreateExchangePIN, Other
<1>6. ASSUME Claims!Revoke(k)
      PROVE  Moved /\ ClaimsSame /\ call[k].stage \in Other /\ call'[k].stage = "done"
  <2>1. Moved /\ call[k].stage \in Other /\ call'[k].stage = "done"
    BY <1>6, CallDone DEF Claims!Revoke, Other
  <2>2. ClaimsSame
    <3>1. CASE UNCHANGED claim
      BY <3>1, ClaimsKept
    <3>2. ASSUME NEW c, NEW at, Claims!ActiveAt(c, at),
                 claim' = [claim EXCEPT ![c] = Claims!RevokedRow(c, at)]
          PROVE  ClaimsSame
      <4>1. CASE c \in Calls
        BY <3>2, <4>1, ClaimsKept DEF Claims!ActiveAt, Claims!Exists
      <4>2. CASE c \notin Calls
        BY <3>2, <4>2 DEF Shape, Claims!Exists
      <4>3. QED
        BY <4>1, <4>2
    <3>3. QED
      BY <1>6, <3>1, <3>2 DEF Claims!Revoke
  <2>3. QED
    BY <2>1, <2>2
<1>7. ASSUME Claims!ResolveExchangePIN(k)
      PROVE  /\ Moved /\ ClaimsSame /\ call[k].stage \in Other
             /\ call'[k].stage \in Other \union {"done"}
  BY <1>7, ClaimsKept, CallSnapshot, CallDone
     DEF Claims!ResolveExchangePIN, Claims!tables, Other
<1>8. ASSUME Claims!AuditRetrieval(k) \/ Claims!Respond(k)
      PROVE  /\ Moved /\ ClaimsSame /\ call[k].stage \in Other
             /\ call'[k].stage \in Other \union {"done"}
  <2>1. CASE Claims!AuditRetrieval(k)
    <3>1. UNCHANGED claim /\ call[k].stage = "audit"
          /\ call' = [call EXCEPT ![k].stage = "respond"]
      BY <2>1 DEF Claims!AuditRetrieval
    <3>2. Moved /\ call'[k].stage = "respond"
      BY <3>1 DEF Shape
    <3>3. QED
      BY <3>1, <3>2, ClaimsKept DEF Other
  <2>2. CASE Claims!Respond(k)
    <3>1. UNCHANGED claim /\ call[k].stage = "respond"
      BY <2>2 DEF Claims!Respond, Claims!tables
    <3>2. Moved /\ call'[k].stage = "done"
      BY <2>2 DEF Claims!Respond, Claims!NewCall, Shape
    <3>3. QED
      BY <3>1, <3>2, ClaimsKept DEF Other
  <2>3. QED
    BY <1>8, <2>1, <2>2
<1>9. QED
  BY <1>1, <1>2, <1>3, <1>4, <1>5, <1>6, <1>7, <1>8 DEF DecideOtherwise

(***************************************************************************)
(* The steps of PinLockout, as the claims see them.                        *)
(***************************************************************************)
PinMoved(k, stages, answers) ==
    /\ DOMAIN pinCall' = Calls
    /\ \A j \in Calls : {"stage", "answer"} \subseteq DOMAIN pinCall'[j]
    /\ \A j \in Calls : j # k => pinCall'[j] = pinCall[j]
    /\ pinCall'[k].stage \in stages /\ pinCall'[k].answer \in answers

LEMMA PinFinish ==
  ASSUME Shape, NEW k \in Calls, NEW a, Pin!Finish(k, a)
  PROVE  PinMoved(k, {"done"}, {a})
  BY DEF Shape, Pin!Finish, Pin!NewCall, PinMoved

LEMMA PinCount ==
  ASSUME Shape, NEW event \in {"set", "reset", "validation_failed", "validation_succeeded"},
         Pin!Count(event)
  PROVE  /\ DOMAIN pinAudit' = DOMAIN pinAudit
         /\ pinAudit'["validation_succeeded"] =
               IF event = "validation_succeeded" THEN pinAudit["validation_succeeded"] + 1
                                                 ELSE pinAudit["validation_succeeded"]
  BY DEF Shape, Pin!Count

(* A step of PinLockout leaves requests, claims and their calls alone.     *)
LEMMA PinStepCoupled ==
  ASSUME OwnPINInv, NEW k \in Calls, UNCHANGED claimVars,
         NEW stages, NEW answers, PinMoved(k, stages, answers),
         DOMAIN pinAudit' = DOMAIN pinAudit, Coupled(k)'
  PROVE  Shape' /\ \A j \in Calls : Coupled(j)'
<1>1. Shape'
  BY DEF OwnPINInv, Shape, PinMoved, claimVars
<1>2. ASSUME NEW j \in Calls, j # k PROVE Coupled(j)'
  BY <1>2 DEF OwnPINInv, Coupled, PinMoved, claimVars, Claims!Exists
<1>3. QED
  BY <1>1, <1>2

LEMMA PinStepSame ==
  ASSUME OwnPINInv, NEW k \in Calls, UNCHANGED claimVars,
         NEW stages, NEW answers, PinMoved(k, stages, answers),
         DOMAIN pinAudit' = DOMAIN pinAudit, Coupled(k)',
         pinAudit'["validation_succeeded"] = pinAudit["validation_succeeded"],
         "ok" \notin answers \/ call[k].stage = "idle"
  PROVE  OwnPINInv'
<1>1. Shape' /\ \A j \in Calls : Coupled(j)'
  BY PinStepCoupled
<1>2. Validated' \subseteq Validated
  BY DEF Validated, PinMoved, claimVars
<1>3. QED
  BY <1>1, <1>2, NoneValidated

LEMMA OwnPINOfPin ==
  ASSUME OwnPINInv, NEW k \in Calls,
         \/ \E pin \in PINs \union {Malformed} : StartValidation(k, pin)
         \/ Validate(k) \/ ChangePIN(k) \/ LosePIN(k)
  PROVE  OwnPINInv'
<1>inv. Shape /\ Coupled(k)
  BY DEF OwnPINInv
<1>1. ASSUME NEW pin \in PINs \union {Malformed}, StartValidation(k, pin)
      PROVE  OwnPINInv'
  <2>1. /\ PinMoved(k, {"read"}, {pinCall[k].answer}) /\ pinCall[k].answer # "ok"
        /\ UNCHANGED claimVars /\ UNCHANGED pinAudit /\ call[k].stage = "pin"
    BY <1>1, <1>inv DEF StartValidation, Pin!GetValidationState, Pin!MayStart, PinMoved, Shape,
       Coupled
  <2>2. Coupled(k)'
    BY <1>inv, <2>1 DEF Coupled, PinMoved, claimVars, Claims!Exists, Other
  <2>3. QED
    BY <2>1, <2>2, PinStepSame
<1>2. ASSUME Pin!Decide(k), UNCHANGED claimVars
      PROVE  OwnPINInv'
  <2>1. /\ pinCall[k].stage = "read" /\ call[k].stage = "pin" /\ UNCHANGED pinAudit
        /\ pinCall[k].answer # "ok"
    BY <1>2, <1>inv DEF Pin!Decide, Coupled
  <2>2. CASE Pin!Finish(k, "not_set") \/ Pin!Finish(k, "locked")
    <3>1. PinMoved(k, {"done"}, {"not_set", "locked"})
      BY <1>inv, <2>2, PinFinish DEF PinMoved
    <3>2. Coupled(k)'
      BY <1>2, <1>inv, <2>1, <3>1 DEF Coupled, PinMoved, claimVars, Claims!Exists, Other
    <3>3. QED
      BY <1>2, <2>1, <3>1, <3>2, PinStepSame
  <2>3. CASE pinCall' = [pinCall EXCEPT ![k] =
                [@ EXCEPT !.now = clock,
                          !.stage = IF Pin!Compare(pinCall[k].seenHash, pinCall[k].pin)
                                    THEN "right" ELSE "wrong"]]
    <3>1. PinMoved(k, {"right", "wrong"}, {pinCall[k].answer})
      BY <1>inv, <2>3 DEF PinMoved, Shape
    <3>2. Coupled(k)'
      BY <1>2, <1>inv, <2>1, <3>1 DEF Coupled, PinMoved, claimVars, Claims!Exists, Other
    <3>3. QED
      BY <1>2, <2>1, <3>1, <3>2, PinStepSame
  <2>4. QED
    BY <1>2, <2>2, <2>3 DEF Pin!Decide
<1>3. ASSUME Pin!RecordValidationFailure(k), UNCHANGED claimVars
      PROVE  OwnPINInv'
  <2>1. /\ pinCall[k].stage = "wrong" /\ call[k].stage = "pin"
        /\ PinMoved(k, {"done"}, {"locked", "invalid"})
        /\ DOMAIN pinAudit' = DOMAIN pinAudit
        /\ pinAudit'["validation_succeeded"] = pinAudit["validation_succeeded"]
    BY <1>3, <1>inv, PinFinish, PinCount DEF Pin!RecordValidationFailure, Coupled, PinMoved
  <2>2. Coupled(k)'
    BY <1>3, <1>inv, <2>1 DEF Coupled, PinMoved, claimVars, Claims!Exists, Other
  <2>3. QED
    BY <1>3, <2>1, <2>2, PinStepSame
<1>4. ASSUME Pin!RecordValidationSuccess(k), UNCHANGED claimVars
      PROVE  OwnPINInv'
  <2>1. /\ pinCall[k].stage = "right" /\ call[k].stage = "pin"
        /\ PinMoved(k, {"done"}, {"ok"})
        /\ DOMAIN pinAudit' = DOMAIN pinAudit
        /\ pinAudit'["validation_succeeded"] = pinAudit["validation_succeeded"] + 1
    BY <1>4, <1>inv, PinFinish, PinCount DEF Pin!RecordValidationSuccess, Coupled, PinMoved
  <2>2. Coupled(k)'
    BY <1>4, <1>inv, <2>1 DEF Coupled, PinMoved, claimVars, Claims!Exists, Other
  <2>3. Shape' /\ \A j \in Calls : Coupled(j)'
    BY <1>4, <2>1, <2>2, PinStepCoupled
  <2>4. Validated' \subseteq Validated \union {k}
    BY <1>4, <2>1 DEF Validated, PinMoved, claimVars
  <2>5. IsFiniteSet(Validated') /\ Cardinality(Validated') <= Cardinality(Validated) + 1
    <3>1. /\ IsFiniteSet(Validated \union {k})
          /\ Cardinality(Validated \union {k}) <= Cardinality(Validated) + 1
          /\ Cardinality(Validated) \in Nat
          /\ Cardinality(Validated \union {k}) \in Nat
      <4>1. IsFiniteSet(Validated) /\ Cardinality(Validated) \in Nat
        BY FS_CardinalityType DEF OwnPINInv
      <4>2. /\ IsFiniteSet(Validated \union {k})
            /\ Cardinality(Validated \union {k}) =
                  IF k \in Validated THEN Cardinality(Validated) ELSE Cardinality(Validated) + 1
        BY <4>1, FS_AddElement
      <4>3. QED
        BY <4>1, <4>2
    <3>2. /\ IsFiniteSet(Validated')
          /\ Cardinality(Validated') <= Cardinality(Validated \union {k})
          /\ Cardinality(Validated') \in Nat
      BY <2>4, <3>1, FS_Subset, FS_CardinalityType
    <3>3. QED
      BY <3>1, <3>2
  <2>6. Cardinality(Validated') \in Nat /\ Cardinality(Validated) \in Nat
    BY <2>5, FS_CardinalityType DEF OwnPINInv
  <2>7. QED
    BY <2>1, <2>3, <2>5, <2>6 DEF OwnPINInv
<1>5. ASSUME call[k].stage = "idle", pinCall[k].stage \in {"idle", "resetting"},
             UNCHANGED claimVars,
             PinMoved(k, {"done"}, {"ok", "rejected", "lost"}),
             DOMAIN pinAudit' = DOMAIN pinAudit,
             pinAudit'["validation_succeeded"] = pinAudit["validation_succeeded"]
      PROVE  OwnPINInv'
  <2>1. Coupled(k)'
    BY <1>5, <1>inv DEF Coupled, PinMoved, claimVars, Claims!Exists, Other
  <2>2. QED
    BY <1>5, <2>1, PinStepSame
<1>6. CASE ChangePIN(k)
  <2>1. ASSUME Fresh(k), NEW pin \in PINs \union {Malformed}, Pin!SetPIN(k, pin)
        PROVE  OwnPINInv'
    <3>1. UNCHANGED claimVars
      BY <1>6 DEF ChangePIN
    <3>2. /\ PinMoved(k, {"done"}, {"ok", "rejected", "lost"})
          /\ DOMAIN pinAudit' = DOMAIN pinAudit
          /\ pinAudit'["validation_succeeded"] = pinAudit["validation_succeeded"]
      BY <1>inv, <2>1, PinFinish, PinCount DEF Pin!SetPIN, PinMoved
    <3>3. QED
      BY <1>5, <2>1, <3>1, <3>2 DEF Fresh
  <2>2. ASSUME Fresh(k), NEW pin \in PINs \union {Malformed}, NEW matches \in BOOLEAN,
               Pin!CheckPassword(k, pin, matches)
        PROVE  OwnPINInv'
    <3>1. UNCHANGED claimVars /\ UNCHANGED pinAudit
      BY <1>6, <2>2 DEF ChangePIN, Pin!CheckPassword
    <3>2. CASE Pin!Finish(k, "rejected")
      <4>1. PinMoved(k, {"done"}, {"ok", "rejected", "lost"})
        BY <1>inv, <3>2, PinFinish DEF PinMoved
      <4>2. QED
        BY <1>5, <2>2, <3>1, <4>1 DEF Fresh
    <3>3. CASE pinCall' = [pinCall EXCEPT ![k] = [@ EXCEPT !.stage = "resetting", !.pin = pin]]
      <4>1. PinMoved(k, {"resetting"}, {pinCall[k].answer})
        BY <1>inv, <3>3 DEF PinMoved, Shape
      <4>2. Coupled(k)'
        BY <1>inv, <2>2, <3>1, <4>1
           DEF Fresh, Coupled, PinMoved, claimVars, Claims!Exists, Other
      <4>3. QED
        BY <2>2, <3>1, <4>1, <4>2, PinStepSame DEF Fresh
    <3>4. QED
      BY <2>2, <3>2, <3>3 DEF Pin!CheckPassword
  <2>3. CASE Pin!ResetPIN(k)
    <3>1. /\ PinMoved(k, {"done"}, {"ok", "rejected", "lost"}) /\ UNCHANGED claimVars
          /\ pinCall[k].stage = "resetting" /\ call[k].stage = "idle"
          /\ DOMAIN pinAudit' = DOMAIN pinAudit
          /\ pinAudit'["validation_succeeded"] = pinAudit["validation_succeeded"]
      BY <1>6, <1>inv, <2>3, PinFinish, PinCount
         DEF ChangePIN, Pin!ResetPIN, PinMoved, Coupled
    <3>2. QED
      BY <1>5, <3>1
  <2>4. QED
    BY <1>6, <2>1, <2>2, <2>3 DEF ChangePIN
<1>7. CASE LosePIN(k)
  <2>1. /\ PinMoved(k, {"done"}, {"lost"}) /\ UNCHANGED claimVars /\ UNCHANGED pinAudit
        /\ pinCall[k].stage \notin {"idle", "done"}
    BY <1>7, <1>inv, PinFinish DEF LosePIN, Pin!Lose, Pin!InFlight
  <2>2. Coupled(k)'
    BY <1>inv, <2>1 DEF Coupled, PinMoved, claimVars, Claims!Exists, Other
  <2>3. QED
    BY <2>1, <2>2, PinStepSame
<1>8. QED
  BY <1>1, <1>2, <1>3, <1>4, <1>6, <1>7 DEF Validate

(***************************************************************************)
(* The steps of ClaimLifecycle, and of the composition.                    *)
(***************************************************************************)
LEMMA OwnPINOfClaims ==
  ASSUME OwnPINInv, NEW k \in Calls, UNCHANGED pinVars,
         DOMAIN call' = Calls, DOMAIN claim' = Calls,
         \A j \in Calls : "stage" \in DOMAIN call'[j] /\ (j # k => call'[j] = call[j]),
         \A c \in Calls : /\ "status" \in DOMAIN claim'[c]
                          /\ c # k => (Claims!Exists(c)' <=> Claims!Exists(c)),
         Coupled(k)',
         call[k].stage = "idle" => pinCall[k].answer # "ok"
  PROVE  OwnPINInv'
<1>1. Shape'
  BY DEF OwnPINInv, Shape, pinVars
<1>2. ASSUME NEW j \in Calls PROVE Coupled(j)'
  <2>1. CASE j # k
    <3>1. Coupled(j) /\ call'[j] = call[j] /\ pinCall' = pinCall
          /\ (Claims!Exists(j)' <=> Claims!Exists(j))
      BY <2>1 DEF OwnPINInv, pinVars
    <3>2. QED
      BY <3>1 DEF Coupled
  <2>2. CASE j = k
    BY <2>2
  <2>3. QED
    BY <2>1, <2>2
<1>3. Validated' \subseteq Validated
  BY DEF Validated, pinVars
<1>4. pinAudit'["validation_succeeded"] = pinAudit["validation_succeeded"]
  BY DEF pinVars
<1>5. QED
  BY <1>1, <1>2, <1>3, <1>4, NoneValidated

LEMMA StepOwnPIN == OwnPINInv /\ [Next]_vars => OwnPINInv'
<1> SUFFICES ASSUME OwnPINInv, [Next]_vars PROVE OwnPINInv'
  OBVIOUS
<1>inv. Shape /\ \A k \in Calls : Coupled(k)
  BY DEF OwnPINInv
<1>1. ASSUME UNCHANGED <<pinCall, pinAudit, call>>, DOMAIN claim' = Calls,
             \A c \in Calls : /\ "status" \in DOMAIN claim'[c]
                              /\ Claims!Exists(c)' <=> Claims!Exists(c)
      PROVE  OwnPINInv'
  <2>1. Shape'
    BY <1>1, <1>inv DEF Shape
  <2>2. ASSUME NEW k \in Calls PROVE Coupled(k)'
    <3>1. Coupled(k) /\ (Claims!Exists(k)' <=> Claims!Exists(k))
      BY <1>1, <1>inv
    <3>2. QED
      BY <1>1, <3>1 DEF Coupled
  <2>3. Validated' \subseteq Validated
    BY <1>1 DEF Validated
  <2>4. QED
    BY <1>1, <2>1, <2>2, <2>3, NoneValidated
<1>2. CASE Tick
  BY <1>1, <1>2, <1>inv, ClaimsKept DEF Tick, Pin!Tick, Claims!Tick, Claims!tables
<1>3. ASSUME NEW k \in Calls, NEW r \in Requests, BeginApprove(k, r)
      PROVE  OwnPINInv'
  <2>1. /\ DOMAIN call' = Calls /\ call'[k].stage = "pin"
        /\ \A j \in Calls : "stage" \in DOMAIN call'[j] /\ (j # k => call'[j] = call[j])
    BY <1>3, <1>inv DEF BeginApprove, Claims!BeginApprove, Shape
  <2>2. UNCHANGED claim /\ UNCHANGED pinVars /\ Fresh(k)
    BY <1>3 DEF BeginApprove, Claims!BeginApprove, Claims!tables
  <2>3. pinCall[k].answer # "ok" /\ Coupled(k)'
    BY <2>1, <2>2, <1>inv DEF Fresh, Coupled, pinVars, Claims!Exists, Other
  <2>4. QED
    BY <1>inv, <2>1, <2>2, <2>3, ClaimsKept, OwnPINOfClaims
<1>4. ASSUME NEW k \in Calls, EndValidation(k)
      PROVE  OwnPINInv'
  <2>1. /\ DOMAIN call' = Calls /\ call[k].stage = "pin"
        /\ \/ call'[k].stage = "approve" /\ pinCall[k].answer = "ok"
           \/ call'[k].stage = "done"
        /\ \A j \in Calls : "stage" \in DOMAIN call'[j] /\ (j # k => call'[j] = call[j])
    BY <1>4, <1>inv, CallEnters, CallDone DEF EndValidation, Claims!ValidatePIN, Accepted
  <2>2. UNCHANGED claim /\ UNCHANGED pinVars /\ pinCall[k].stage = "done"
    BY <1>4 DEF EndValidation, Claims!ValidatePIN, Claims!tables
  <2>3. Coupled(k)'
    BY <2>1, <2>2, <1>inv DEF Coupled, pinVars, Claims!Exists, Other
  <2>4. QED
    BY <1>inv, <2>1, <2>2, <2>3, ClaimsKept, OwnPINOfClaims
<1>5. ASSUME NEW k \in Calls, Approve(k)
      PROVE  OwnPINInv'
  <2>1. /\ DOMAIN call' = Calls /\ call[k].stage = "approve" /\ call'[k].stage = "done"
        /\ \A j \in Calls : "stage" \in DOMAIN call'[j] /\ (j # k => call'[j] = call[j])
        /\ UNCHANGED pinVars
    BY <1>5, <1>inv, CallDone DEF Approve, Claims!Approve
  <2>2. /\ DOMAIN claim' = Calls
        /\ \A c \in Calls : /\ "status" \in DOMAIN claim'[c]
                            /\ c # k => (Claims!Exists(c)' <=> Claims!Exists(c))
    BY <1>5, <1>inv DEF Approve, Claims!Approve, Claims!IssuedClaim, Claims!Exists, Shape
  <2>3. Coupled(k)'
    BY <2>1, <1>inv DEF Coupled, pinVars, Other
  <2>4. QED
    BY <2>1, <2>2, <2>3, OwnPINOfClaims
<1>6. ASSUME NEW k \in Calls, DecideOtherwise(k)
      PROVE  OwnPINInv'
  <2>1. UNCHANGED pinVars
    BY <1>6 DEF DecideOtherwise
  <2>2. pinCall[k].stage = "idle" /\ pinCall[k].answer # "ok" /\ ~ Claims!Exists(k)
    BY <1>6, <1>inv, OthersEffect DEF Fresh, Coupled, Other
  <2>3. Coupled(k)'
    BY <1>6, <1>inv, <2>1, <2>2, OthersEffect DEF Coupled, pinVars, Other
  <2>4. QED
    BY <1>6, <1>inv, <2>1, <2>2, <2>3, OthersEffect, OwnPINOfClaims
<1>7. ASSUME NEW k \in Calls, LoseCall(k)
      PROVE  OwnPINInv'
  <2>1. /\ DOMAIN call' = Calls /\ call[k].stage # "idle" /\ call'[k].stage = "done"
        /\ \A j \in Calls : "stage" \in DOMAIN call'[j] /\ (j # k => call'[j] = call[j])
        /\ UNCHANGED pinVars /\ UNCHANGED claim /\ pinCall[k].stage \in {"idle", "done"}
    BY <1>7, <1>inv, CallDone DEF LoseCall, Claims!LoseCall, Claims!tables, Pin!InFlight
  <2>2. Coupled(k)'
    BY <2>1, <1>inv DEF Coupled, pinVars, Claims!Exists, Other
  <2>3. QED
    BY <1>inv, <2>1, <2>2, ClaimsKept, OwnPINOfClaims
<1>8. ASSUME NEW r \in Requests, CreateRequest(r)
      PROVE  OwnPINInv'
  BY <1>1, <1>8, <1>inv, ClaimsKept DEF CreateRequest, Claims!Create, pinVars
<1>9. ASSUME NEW s \in Sweepers, Sweep(s)
      PROVE  OwnPINInv'
  <2>1. \/ UNCHANGED claim
        \/ Claims!ExpireDue(s)
    BY <1>9 DEF Sweep, Claims!StartSweep, Claims!LoseSweep, Claims!tables
  <2>2. UNCHANGED <<pinCall, pinAudit, call>>
    BY <1>9 DEF Sweep, Claims!StartSweep, Claims!LoseSweep, Claims!ExpireDue, pinVars
  <2>3. QED
    BY <1>1, <1>inv, <2>1, <2>2, ClaimsKept
<1>10. CASE UNCHANGED vars
  BY <1>1, <1>10, <1>inv, ClaimsKept DEF vars, pinVars, claimVars
<1>11. ASSUME NEW k \in Calls,
              \/ \E pin \in PINs \union {Malformed} : StartValidation(k, pin)
              \/ Validate(k) \/ ChangePIN(k) \/ LosePIN(k)
       PROVE  OwnPINInv'
  BY <1>11, OwnPINOfPin
<1>12. QED
  BY <1>2, <1>3, <1>4, <1>5, <1>6, <1>7, <1>8, <1>9, <1>10, <1>11 DEF Next

LEMMA InitOwnPIN == Init => OwnPINInv
<1> SUFFICES ASSUME Init PROVE OwnPINInv
  OBVIOUS
<1>1. Shape
  BY DEF Init, Pin!Init, Claims!Init, Shape, Pin!NewCall, Claims!NewCall, Claims!NoClaim,
     Pin!AuditEvents
<1>2. /\ \A k \in Calls : Coupled(k) /\ call[k].stage = "idle" /\ pinCall[k].answer = "none"
      /\ pinAudit["validation_succeeded"] = 0
  BY DEF Init, Pin!Init, Claims!Init, Coupled, Pin!NewCall, Claims!NewCall, Claims!NoClaim,
     Claims!Exists, Pin!AuditEvents, Other
<1>3. Validated = {}
  BY <1>2 DEF Validated
<1>4. QED
  BY <1>1, <1>2, <1>3, FS_EmptySet DEF OwnPINInv

(* Every claim, and every approval past its PIN, rests on a validation of  *)
(* its own, however PINs are replaced or locked and requests are decided   *)
(* in between.                                                             *)
THEOREM OwnPINReleases == Spec => []ReleasedByOwnPIN
<1>1. OwnPINInv => ReleasedByOwnPIN
  <2> SUFFICES ASSUME OwnPINInv PROVE ReleasedByOwnPIN
    OBVIOUS
  <2>1. Released \subseteq Validated /\ \A k \in Released : pinCall[k].answer = "ok"
    BY DEF Released, Validated, OwnPINInv, Coupled
  <2>2. IsFiniteSet(Released) /\ Cardinality(Released) <= Cardinality(Validated)
    BY <2>1, FS_Subset DEF OwnPINInv
  <2>3. Cardinality(Released) \in Nat /\ Cardinality(Validated) \in Nat
    BY <2>2, FS_CardinalityType DEF OwnPINInv
  <2>4. QED
    BY <2>1, <2>2, <2>3 DEF OwnPINInv, ReleasedByOwnPIN
<1>2. QED
  BY <1>1, InitOwnPIN, StepOwnPIN, PTL DEF Spec
=============================================================================
