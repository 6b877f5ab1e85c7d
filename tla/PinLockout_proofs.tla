-------------------------- MODULE PinLockout_proofs --------------------------
(***************************************************************************)
(* Proofs about PinLockout, for every set of calls, every limit and every  *)
(* lock duration.                                                          *)
(***************************************************************************)
EXTENDS PinLockout, TLAPS

USE DEF NoLock

(***************************************************************************)
(* Type correctness, one step per action.                                  *)
(***************************************************************************)
LEMMA NewCallType == \A a \in Answers : [NewCall EXCEPT !.stage = "done", !.answer = a] \in Call
  BY DEF NewCall, Call, Stages, Answers

LEMMA FinishType ==
  ASSUME call \in [Calls -> Call], NEW c \in Calls, NEW a \in Answers, Finish(c, a)
  PROVE  /\ call' \in [Calls -> Call]
         /\ call'[c] = [NewCall EXCEPT !.stage = "done", !.answer = a]
         /\ \A d \in Calls : d # c => call'[d] = call[d]
  BY NewCallType DEF Finish

(* A call that finishes is not resetting; the others are as they were.     *)
LEMMA FinishResetting ==
  ASSUME TypeOK, NEW c \in Calls, NEW a \in Answers, Finish(c, a)
  PROVE  \A d \in Calls : call'[d].stage = "resetting" => call'[d].pin \in PINs
  BY FinishType DEF TypeOK, NewCall

LEMMA InitType == Init => TypeOK
  BY LimitAssumption DEF Init, TypeOK, NewCall, Call, Stages, Answers

LEMMA StepType == TypeOK /\ [Next]_vars => TypeOK'
<1> SUFFICES ASSUME TypeOK, [Next]_vars PROVE TypeOK'
  OBVIOUS
<1> USE LimitAssumption DEF TypeOK
<1>1. CASE Tick
  BY <1>1 DEF Tick, row, history
<1>2. ASSUME NEW c \in Calls, NEW pin \in PINs \union {Malformed}, GetValidationState(c, pin)
      PROVE  TypeOK'
  <2>1. call' \in [Calls -> Call]
    <3>1. [call[c] EXCEPT !.stage = "read", !.pin = pin, !.seenHash = pinHash,
                          !.seenFailed = failedAttempts, !.seenLock = lockedUntil] \in Call
      BY DEF Call, Stages
    <3>2. QED
      BY <1>2, <3>1 DEF GetValidationState
  <2>2. \A d \in Calls : call'[d].stage = "resetting" => call'[d].pin \in PINs
    BY <1>2 DEF GetValidationState
  <2>3. QED
    BY <1>2, <2>1, <2>2 DEF GetValidationState, row, history
<1>3. ASSUME NEW c \in Calls, NEW pin \in PINs \union {Malformed}, SetPIN(c, pin)
      PROVE  TypeOK'
  <2>1. call' \in [Calls -> Call]
    BY <1>3, FinishType DEF SetPIN, Answers
  <2>resetting. \A d \in Calls : call'[d].stage = "resetting" => call'[d].pin \in PINs
    BY <1>3, FinishResetting DEF SetPIN, Answers
  <2>2. QED
    BY <1>3, <2>1, <2>resetting DEF SetPIN, ClearFailures, Count, AuditEvents, row, history
<1>4. ASSUME NEW c \in Calls, NEW pin \in PINs \union {Malformed}, NEW ok \in BOOLEAN,
             CheckPassword(c, pin, ok)
      PROVE  TypeOK'
  <2>1. CASE /\ pin \in PINs
             /\ call' = [call EXCEPT ![c] = [@ EXCEPT !.stage = "resetting", !.pin = pin]]
    <3>1. call' \in [Calls -> Call]
      <4>1. [call[c] EXCEPT !.stage = "resetting", !.pin = pin] \in Call
        BY <2>1 DEF Call, Stages
      <4>2. QED
        BY <2>1, <4>1
    <3>2. \A d \in Calls : call'[d].stage = "resetting" => call'[d].pin \in PINs
      BY <2>1 DEF Call
    <3>3. QED
      BY <1>4, <3>1, <3>2 DEF CheckPassword, row, history
  <2>2. CASE Finish(c, "rejected")
    <3>1. call' \in [Calls -> Call]
      BY <2>2, FinishType DEF Answers
    <3>2. \A d \in Calls : call'[d].stage = "resetting" => call'[d].pin \in PINs
      BY <2>2, FinishResetting DEF Answers
    <3>3. QED
      BY <1>4, <3>1, <3>2 DEF CheckPassword, row, history
  <2>3. QED
    BY <1>4, <2>1, <2>2 DEF CheckPassword
<1>5. ASSUME NEW c \in Calls, Decide(c)
      PROVE  TypeOK'
  <2>1. ASSUME NEW a \in Answers, Finish(c, a)
        PROVE  TypeOK'
    <3>1. call' \in [Calls -> Call]
      BY <2>1, FinishType
    <3>2. \A d \in Calls : call'[d].stage = "resetting" => call'[d].pin \in PINs
      BY <2>1, FinishResetting
    <3>3. QED
      BY <1>5, <3>1, <3>2 DEF Decide, row, history
  <2>2. ASSUME NEW stage \in {"right", "wrong"},
               call' = [call EXCEPT ![c] = [@ EXCEPT !.now = clock, !.stage = stage]]
        PROVE  TypeOK'
    <3>1. call' \in [Calls -> Call]
      <4>1. [call[c] EXCEPT !.now = clock, !.stage = stage] \in Call
        BY DEF Call, Stages
      <4>2. QED
        BY <2>2, <4>1
    <3>2. \A d \in Calls : call'[d].stage = "resetting" => call'[d].pin \in PINs
      BY <2>2 DEF Call
    <3>3. QED
      BY <1>5, <3>1, <3>2 DEF Decide, row, history
  <2>3. QED
    BY <1>5, <2>1, <2>2 DEF Decide, Answers
<1>6. ASSUME NEW c \in Calls, RecordValidationFailure(c)
      PROVE  TypeOK'
  <2>1. call' \in [Calls -> Call]
    BY <1>6, FinishType DEF RecordValidationFailure, Answers
  <2>2. /\ failedAttempts' \in Nat
        /\ lockedUntil' \in Nat
        /\ lastWrongAt' \in Nat
    BY <1>6 DEF RecordValidationFailure, NextFailed, NextLock, Call
  <2>resetting. \A d \in Calls : call'[d].stage = "resetting" => call'[d].pin \in PINs
    BY <1>6, FinishResetting DEF RecordValidationFailure, Answers
  <2>3. QED
    BY <1>6, <2>1, <2>2, <2>resetting DEF RecordValidationFailure, Count, AuditEvents
<1>7. ASSUME NEW c \in Calls, RecordValidationSuccess(c)
      PROVE  TypeOK'
  <2>1. call' \in [Calls -> Call]
    BY <1>7, FinishType DEF RecordValidationSuccess, Answers
  <2>resetting. \A d \in Calls : call'[d].stage = "resetting" => call'[d].pin \in PINs
    BY <1>7, FinishResetting DEF RecordValidationSuccess, Answers
  <2>2. QED
    BY <1>7, <2>1, <2>resetting DEF RecordValidationSuccess, ClearFailures, Count, AuditEvents
<1>8. ASSUME NEW c \in Calls, ResetPIN(c)
      PROVE  TypeOK'
  <2>1. call' \in [Calls -> Call]
    BY <1>8, FinishType DEF ResetPIN, Answers
  <2>2. pinHash' \in PINs
    BY <1>8 DEF ResetPIN
  <2>resetting. \A d \in Calls : call'[d].stage = "resetting" => call'[d].pin \in PINs
    BY <1>8, FinishResetting DEF ResetPIN, Answers
  <2>3. QED
    BY <1>8, <2>1, <2>2, <2>resetting DEF ResetPIN, ClearFailures, Count, AuditEvents
<1>9. ASSUME NEW c \in Calls, Lose(c)
      PROVE  TypeOK'
  <2>1. call' \in [Calls -> Call]
    BY <1>9, FinishType DEF Lose, Answers
  <2>resetting. \A d \in Calls : call'[d].stage = "resetting" => call'[d].pin \in PINs
    BY <1>9, FinishResetting DEF Lose, Answers
  <2>2. QED
    BY <1>9, <2>1, <2>resetting DEF Lose, row, history
<1>10. CASE UNCHANGED vars
  BY <1>10 DEF vars, row, history
<1>11. QED
  BY <1>1, <1>2, <1>3, <1>4, <1>5, <1>6, <1>7, <1>8, <1>9, <1>10 DEF Next

(* Every variable keeps its type in every behaviour.                       *)
THEOREM TypeCorrect == Spec => []TypeOK
  BY InitType, StepType, PTL DEF Spec

(***************************************************************************)
(* What a call in flight knows, however stale its snapshot is: it never    *)
(* counted more failures than the audit trail holds by now, it read the    *)
(* clock in the past, and it compares only under a lock that had ended.    *)
(***************************************************************************)
SnapshotOK ==
    \A c \in Calls :
        /\ call[c].seenFailed <= audit["validation_failed"]
        /\ call[c].now <= clock
        /\ call[c].stage \in {"wrong", "right"} => call[c].seenLock <= call[c].now

LockInv == TypeOK /\ SnapshotOK /\ LockIsEarned /\ LockEndsInTime

LEMMA InitLockInv == Init => LockInv
  BY InitType, LimitAssumption
     DEF Init, LockInv, SnapshotOK, LockIsEarned, LockEndsInTime, NewCall, AuditEvents

(* A finished call holds nothing, so it cannot break SnapshotOK.           *)
LEMMA FinishSnapshot ==
  ASSUME TypeOK, SnapshotOK, NEW c \in Calls, NEW a \in Answers, Finish(c, a),
         audit' \in [AuditEvents -> Nat], clock' = clock,
         audit'["validation_failed"] >= audit["validation_failed"]
  PROVE  SnapshotOK'
<1> SUFFICES ASSUME NEW d \in Calls
             PROVE  /\ call'[d].seenFailed <= audit'["validation_failed"]
                    /\ call'[d].now <= clock'
                    /\ call'[d].stage \in {"wrong", "right"}
                          => call'[d].seenLock <= call'[d].now
  BY DEF SnapshotOK
<1>1. CASE d = c
  <2>1. /\ call'[c].seenFailed = 0
        /\ call'[c].now = 0
        /\ call'[c].stage = "done"
    <3>1. call'[c] = [NewCall EXCEPT !.stage = "done", !.answer = a]
      BY FinishType DEF TypeOK
    <3>2. QED
      BY <3>1 DEF NewCall
  <2>2. audit'["validation_failed"] \in Nat /\ clock \in Nat
    BY DEF TypeOK, AuditEvents
  <2>3. QED
    BY <1>1, <2>1, <2>2
<1>2. CASE d # c
  <2>1. call'[d] = call[d]
    BY <1>2, FinishType DEF TypeOK
  <2>2. call[d].seenFailed \in Nat
    BY DEF TypeOK, Call
  <2>3. QED
    BY <2>1, <2>2 DEF SnapshotOK, TypeOK, AuditEvents
<1>3. QED
  BY <1>1, <1>2

LEMMA StepLockInv == LockInv /\ [Next]_vars => LockInv'
<1> SUFFICES ASSUME LockInv, [Next]_vars PROVE LockInv'
  OBVIOUS
<1>type. TypeOK'
  BY StepType DEF LockInv
<1> USE LimitAssumption, <1>type DEF LockInv
<1>row. ASSUME UNCHANGED <<clock, row, audit, history>>
        PROVE  LockIsEarned' /\ LockEndsInTime'
  BY <1>row DEF row, LockIsEarned, LockEndsInTime
<1>clear. ASSUME ClearFailures, UNCHANGED clock
          PROVE  LockIsEarned' /\ LockEndsInTime'
  BY <1>clear DEF ClearFailures, LockIsEarned, LockEndsInTime, TypeOK, AuditEvents
<1>1. CASE Tick
  <2>1. SnapshotOK'
    BY <1>1 DEF Tick, SnapshotOK, TypeOK, Call
  <2>2. QED
    BY <1>1, <2>1 DEF Tick, row, LockIsEarned, LockEndsInTime, TypeOK
<1>2. ASSUME NEW c \in Calls, NEW pin \in PINs \union {Malformed}, GetValidationState(c, pin)
      PROVE  LockInv'
  <2>1. SnapshotOK'
    BY <1>2 DEF GetValidationState, SnapshotOK, LockIsEarned, TypeOK, Call
  <2>2. QED
    BY <1>2, <1>row, <2>1 DEF GetValidationState
<1>3. ASSUME NEW c \in Calls, NEW pin \in PINs \union {Malformed}, SetPIN(c, pin)
      PROVE  LockInv'
  <2>1. SnapshotOK'
    BY <1>3, FinishSnapshot DEF SetPIN, Count, Answers, TypeOK, AuditEvents
  <2>2. QED
    BY <1>3, <2>1, <1>row, <1>clear DEF SetPIN
<1>4. ASSUME NEW c \in Calls, NEW pin \in PINs \union {Malformed}, NEW ok \in BOOLEAN,
             CheckPassword(c, pin, ok)
      PROVE  LockInv'
  <2>1. SnapshotOK'
    <3>1. CASE call' = [call EXCEPT ![c] = [@ EXCEPT !.stage = "resetting", !.pin = pin]]
      BY <1>4, <3>1 DEF CheckPassword, SnapshotOK, TypeOK, Call
    <3>2. CASE Finish(c, "rejected")
      BY <1>4, <3>2, FinishSnapshot DEF CheckPassword, Answers, TypeOK, AuditEvents
    <3>3. QED
      BY <1>4, <3>1, <3>2 DEF CheckPassword
  <2>2. QED
    BY <1>4, <1>row, <2>1 DEF CheckPassword
<1>5. ASSUME NEW c \in Calls, Decide(c)
      PROVE  LockInv'
  <2>1. ASSUME NEW a \in Answers, Finish(c, a)
        PROVE  SnapshotOK'
    BY <1>5, <2>1, FinishSnapshot DEF Decide, TypeOK, AuditEvents
  <2>2. ASSUME NEW stage \in {"right", "wrong"}, ~ IsLocked(call[c].seenLock, clock),
               call' = [call EXCEPT ![c] = [@ EXCEPT !.now = clock, !.stage = stage]]
        PROVE  SnapshotOK'
    BY <1>5, <2>2 DEF Decide, SnapshotOK, TypeOK, Call, IsLocked
  <2>3. SnapshotOK'
    BY <1>5, <2>1, <2>2 DEF Decide, Answers
  <2>4. QED
    BY <1>5, <1>row, <2>3 DEF Decide
<1>6. ASSUME NEW c \in Calls, RecordValidationFailure(c)
      PROVE  LockInv'
  <2>1. audit'["validation_failed"] = audit["validation_failed"] + 1
    BY <1>6 DEF RecordValidationFailure, Count, TypeOK, AuditEvents
  <2>2. SnapshotOK'
    BY <1>6, <2>1, FinishSnapshot DEF RecordValidationFailure, Answers, TypeOK, AuditEvents
  <2>3. /\ call[c].seenFailed \in Nat /\ call[c].now \in Nat
        /\ call[c].seenFailed <= audit["validation_failed"] /\ call[c].now <= clock
    BY DEF TypeOK, Call, SnapshotOK
  <2>4. LockIsEarned' /\ LockEndsInTime'
    BY <1>6, <2>1, <2>3 DEF RecordValidationFailure, NextFailed, NextLock,
       LockIsEarned, LockEndsInTime, TypeOK, AuditEvents
  <2>5. QED
    BY <2>2, <2>4
<1>7. ASSUME NEW c \in Calls, RecordValidationSuccess(c)
      PROVE  LockInv'
  <2>1. SnapshotOK'
    BY <1>7, FinishSnapshot DEF RecordValidationSuccess, Count, Answers, TypeOK, AuditEvents
  <2>2. QED
    BY <1>7, <2>1, <1>clear DEF RecordValidationSuccess
<1>8. ASSUME NEW c \in Calls, ResetPIN(c)
      PROVE  LockInv'
  <2>1. SnapshotOK'
    BY <1>8, FinishSnapshot DEF ResetPIN, Count, Answers, TypeOK, AuditEvents
  <2>2. QED
    BY <1>8, <2>1, <1>clear DEF ResetPIN
<1>9. ASSUME NEW c \in Calls, Lose(c)
      PROVE  LockInv'
  <2>1. SnapshotOK'
    BY <1>9, FinishSnapshot DEF Lose, Answers, TypeOK, AuditEvents
  <2>2. QED
    BY <1>9, <2>1, <1>row DEF Lose
<1>10. CASE UNCHANGED vars
  BY <1>10 DEF vars, row, history, SnapshotOK, LockIsEarned, LockEndsInTime
<1>11. QED
  BY <1>1, <1>2, <1>3, <1>4, <1>5, <1>6, <1>7, <1>8, <1>9, <1>10 DEF Next

LEMMA LockInvariant == Spec => []LockInv
  BY InitLockInv, StepLockInv, PTL DEF Spec

(* Whatever the interleaving, the row is locked exactly when its counter   *)
(* has reached the limit, and the counter is backed by audited failures.   *)
THEOREM LockEarned == Spec => []LockIsEarned
<1>1. LockInv => LockIsEarned
  BY DEF LockInv
<1>2. QED
  BY <1>1, LockInvariant, PTL

(* Whatever the interleaving, a lock ends within LockoutDuration of now.   *)
THEOREM LockTimely == Spec => []LockEndsInTime
<1>1. LockInv => LockEndsInTime
  BY DEF LockInv
<1>2. QED
  BY <1>1, LockInvariant, PTL

(***************************************************************************)
(* A lock in force is lifted by ClearFailures or overwritten by a failure. *)
(* SetPIN and ResetPIN leave their audit row; a validation that lifts a    *)
(* lock cannot have read it, because it found no lock in force at call.now *)
(* and the clock has only advanced since.                                  *)
(***************************************************************************)
LiftStep ==
    lockedUntil > clock /\ lockedUntil' < lockedUntil
    => \/ audit'["set"] > audit["set"]
       \/ audit'["reset"] > audit["reset"]
       \/ \E c \in Calls : /\ call[c].stage \in {"wrong", "right"}
                           /\ call'[c].stage = "done"
                           /\ call[c].seenLock # lockedUntil

LEMMA LiftedByStep == LockInv /\ [Next]_vars => [LiftStep]_vars
<1> SUFFICES ASSUME LockInv, Next, lockedUntil > clock, lockedUntil' < lockedUntil
             PROVE  \/ audit'["set"] > audit["set"]
                    \/ audit'["reset"] > audit["reset"]
                    \/ \E c \in Calls : /\ call[c].stage \in {"wrong", "right"}
                                        /\ call'[c].stage = "done"
                                        /\ call[c].seenLock # lockedUntil
  BY DEF LiftStep
<1>moved. lockedUntil' # lockedUntil
  BY DEF LockInv, TypeOK
<1>stale. ASSUME NEW c \in Calls, call[c].stage \in {"wrong", "right"},
                 NEW a \in Answers, Finish(c, a)
          PROVE  \E d \in Calls : /\ call[d].stage \in {"wrong", "right"}
                                 /\ call'[d].stage = "done"
                                 /\ call[d].seenLock # lockedUntil
  <2>1. call[c].seenLock <= call[c].now /\ call[c].now <= clock
    BY <1>stale DEF LockInv, SnapshotOK
  <2>2. call[c].seenLock # lockedUntil
    BY <2>1 DEF LockInv, TypeOK, Call
  <2>3. call'[c] = [NewCall EXCEPT !.stage = "done", !.answer = a]
    BY <1>stale, FinishType DEF LockInv, TypeOK
  <2>4. call'[c].stage = "done"
    BY <2>3 DEF NewCall
  <2>5. QED
    BY <1>stale, <2>2, <2>4
<1>1. CASE Tick
  BY <1>1, <1>moved DEF Tick, row
<1>2. ASSUME NEW c \in Calls, NEW pin \in PINs \union {Malformed},
             \/ GetValidationState(c, pin)
             \/ \E ok \in BOOLEAN : CheckPassword(c, pin, ok)
             \/ Decide(c)
             \/ Lose(c)
      PROVE  FALSE
  BY <1>2, <1>moved DEF GetValidationState, CheckPassword, Decide, Lose, row
<1>3. ASSUME NEW c \in Calls, NEW pin \in PINs \union {Malformed}, SetPIN(c, pin)
      PROVE  audit'["set"] > audit["set"]
  BY <1>3, <1>moved DEF SetPIN, Count, row, LockInv, TypeOK, AuditEvents
<1>4. ASSUME NEW c \in Calls, ResetPIN(c)
      PROVE  audit'["reset"] > audit["reset"]
  BY <1>4 DEF ResetPIN, Count, LockInv, TypeOK, AuditEvents
<1>5. ASSUME NEW c \in Calls, RecordValidationFailure(c)
      PROVE  \E d \in Calls : /\ call[d].stage \in {"wrong", "right"}
                             /\ call'[d].stage = "done"
                             /\ call[d].seenLock # lockedUntil
  BY <1>5, <1>stale DEF RecordValidationFailure, Answers
<1>6. ASSUME NEW c \in Calls, RecordValidationSuccess(c)
      PROVE  \E d \in Calls : /\ call[d].stage \in {"wrong", "right"}
                             /\ call'[d].stage = "done"
                             /\ call[d].seenLock # lockedUntil
  BY <1>6, <1>stale DEF RecordValidationSuccess, Answers
<1>7. QED
  BY <1>1, <1>2, <1>3, <1>4, <1>5, <1>6 DEF Next

(* A lock in force is lifted early only by a new PIN or by a validation    *)
(* that had read the row before that lock was written.                     *)
THEOREM LockLifted == Spec => LockLiftedOnlyByStaleOrNewPIN
<1>1. LockInv /\ [Next]_vars => [LiftStep]_vars
  BY LiftedByStep
<1>2. Spec => [][LiftStep]_vars
  BY <1>1, LockInvariant, PTL DEF Spec
<1>3. QED
  BY <1>2 DEF LockLiftedOnlyByStaleOrNewPIN, LiftStep

(***************************************************************************)
(* One call at a time.  The call in flight, if there is one, holds exactly *)
(* the row as it is, so the counter loses nothing.                         *)
(***************************************************************************)
SerialRow ==
    /\ clock >= 1
    /\ CounterExact
    /\ wrongAnswers >= MaxFailedAttempts => lockedUntil = lastWrongAt + LockoutDuration

SerialInv ==
    /\ LockInv
    /\ \A c, d \in Calls : InFlight(c) /\ InFlight(d) => c = d
    /\ \A c \in Calls :
          call[c].stage \in {"read", "wrong", "right"} =>
             /\ call[c].seenHash = pinHash
             /\ call[c].seenFailed = failedAttempts
             /\ call[c].seenLock = lockedUntil
    /\ \A c \in Calls :
          call[c].stage \in {"wrong", "right"} => call[c].now >= 1 /\ pinHash # NoPIN
    /\ SerialRow

LEMMA Alone ==
  ASSUME ~ Concurrent, SerialInv, NEW c \in Calls, InFlight(c) \/ MayStart(c)
  PROVE  \A d \in Calls : d # c => ~ InFlight(d)
  BY DEF SerialInv, MayStart

(* Once the only call has finished, no snapshot is left.                   *)
LEMMA Quiet ==
  ASSUME ~ Concurrent, SerialInv, NEW c \in Calls, InFlight(c) \/ MayStart(c),
         NEW a \in Answers, Finish(c, a)
  PROVE  \A d \in Calls : ~ InFlight(d)' /\ call'[d].stage \notin {"read", "wrong", "right"}
<1> SUFFICES ASSUME NEW d \in Calls
             PROVE  ~ InFlight(d)' /\ call'[d].stage \notin {"read", "wrong", "right"}
  OBVIOUS
<1>1. CASE d = c
  <2>1. call'[c] = [NewCall EXCEPT !.stage = "done", !.answer = a]
    BY FinishType DEF SerialInv, LockInv, TypeOK
  <2>2. call'[c].stage = "done"
    BY <2>1 DEF NewCall
  <2>3. QED
    BY <1>1, <2>2 DEF InFlight
<1>2. CASE d # c
  <2>1. call'[d] = call[d] /\ ~ InFlight(d)
    BY <1>2, FinishType, Alone DEF SerialInv, LockInv, TypeOK
  <2>2. QED
    BY <2>1 DEF InFlight
<1>3. QED
  BY <1>1, <1>2

LEMMA InitSerial == Init => SerialInv
  BY InitLockInv, LimitAssumption
     DEF Init, SerialInv, SerialRow, CounterExact, NewCall, InFlight

LEMMA StepSerial == ~ Concurrent /\ SerialInv /\ [Next]_vars => SerialInv'
<1> SUFFICES ASSUME ~ Concurrent, SerialInv, [Next]_vars PROVE SerialInv'
  OBVIOUS
<1>lock. LockInv'
  BY StepLockInv DEF SerialInv
<1> USE LimitAssumption, <1>lock
<1>row. ASSUME UNCHANGED <<clock, row, audit, history>> PROVE SerialRow'
  BY <1>row DEF row, history, SerialRow, SerialInv, CounterExact
<1>clear. ASSUME ClearFailures, UNCHANGED clock PROVE SerialRow'
  BY <1>clear DEF ClearFailures, SerialRow, SerialInv, CounterExact
<1>finish. ASSUME NEW c \in Calls, InFlight(c) \/ MayStart(c), NEW a \in Answers,
                  Finish(c, a), SerialRow'
           PROVE  SerialInv'
  BY <1>finish, Quiet DEF SerialInv, SerialRow
<1>1. CASE Tick
  BY <1>1 DEF Tick, row, history, SerialInv, SerialRow, CounterExact, InFlight,
     LockInv, TypeOK
<1>2. ASSUME NEW c \in Calls, NEW pin \in PINs \union {Malformed}, GetValidationState(c, pin)
      PROVE  SerialInv'
  <2>1. /\ call'[c].stage = "read"
        /\ call'[c].seenHash = pinHash
        /\ call'[c].seenFailed = failedAttempts
        /\ call'[c].seenLock = lockedUntil
    BY <1>2 DEF GetValidationState, SerialInv, LockInv, TypeOK, Call
  <2>2. \A d \in Calls : d # c => call'[d] = call[d] /\ ~ InFlight(d)
    BY <1>2, Alone DEF GetValidationState, SerialInv, LockInv, TypeOK
  <2>3. QED
    BY <1>2, <1>row, <2>1, <2>2 DEF GetValidationState, SerialInv, SerialRow, InFlight, row
<1>3. ASSUME NEW c \in Calls, NEW pin \in PINs \union {Malformed}, SetPIN(c, pin)
      PROVE  SerialInv'
  BY <1>3, <1>row, <1>clear, <1>finish DEF SetPIN, Answers
<1>4. ASSUME NEW c \in Calls, NEW pin \in PINs \union {Malformed}, NEW ok \in BOOLEAN,
             CheckPassword(c, pin, ok)
      PROVE  SerialInv'
  <2>1. CASE call' = [call EXCEPT ![c] = [@ EXCEPT !.stage = "resetting", !.pin = pin]]
    <3>1. call'[c].stage = "resetting"
      BY <2>1 DEF SerialInv, LockInv, TypeOK, Call
    <3>2. \A d \in Calls : d # c => call'[d] = call[d] /\ ~ InFlight(d)
      BY <1>4, <2>1, Alone DEF CheckPassword, SerialInv, LockInv, TypeOK
    <3>3. QED
      BY <1>4, <1>row, <3>1, <3>2 DEF CheckPassword, SerialInv, SerialRow, InFlight
  <2>2. CASE Finish(c, "rejected")
    BY <1>4, <2>2, <1>row, <1>finish DEF CheckPassword, Answers
  <2>3. QED
    BY <1>4, <2>1, <2>2 DEF CheckPassword
<1>5. ASSUME NEW c \in Calls, Decide(c)
      PROVE  SerialInv'
  <2>1. InFlight(c)
    BY <1>5 DEF Decide, InFlight
  <2>2. ASSUME NEW a \in Answers, Finish(c, a)
        PROVE  SerialInv'
    BY <1>5, <2>1, <2>2, <1>row, <1>finish DEF Decide
  <2>3. ASSUME NEW stage \in {"right", "wrong"}, call[c].seenHash # NoPIN,
               call' = [call EXCEPT ![c] = [@ EXCEPT !.now = clock, !.stage = stage]]
        PROVE  SerialInv'
    <3>1. /\ call'[c].stage = stage
          /\ call'[c].seenHash = call[c].seenHash
          /\ call'[c].seenFailed = call[c].seenFailed
          /\ call'[c].seenLock = call[c].seenLock
          /\ call'[c].now = clock
      BY <2>3 DEF SerialInv, LockInv, TypeOK, Call
    <3>2. \A d \in Calls : d # c => call'[d] = call[d] /\ ~ InFlight(d)
      BY <2>1, <2>3, Alone DEF SerialInv, LockInv, TypeOK
    <3>3. QED
      <4>1. \A d \in Calls :
              call'[d].stage \in {"read", "wrong", "right"} =>
                 /\ call'[d].seenHash = pinHash
                 /\ call'[d].seenFailed = failedAttempts
                 /\ call'[d].seenLock = lockedUntil
                 /\ call'[d].stage # "read" => call'[d].now = clock /\ pinHash # NoPIN
        BY <1>5, <2>3, <3>1, <3>2 DEF Decide, SerialInv, InFlight
      <4>2. \A d, e \in Calls : InFlight(d)' /\ InFlight(e)' => d = e
        BY <3>2 DEF InFlight
      <4>3. UNCHANGED <<clock, row, audit, history>>
        BY <1>5 DEF Decide
      <4>4. clock >= 1
        BY DEF SerialInv, SerialRow
      <4>5. QED
        BY <1>row, <4>1, <4>2, <4>3, <4>4 DEF SerialInv, row
  <2>4. QED
    BY <1>5, <2>2, <2>3 DEF Decide, Answers
<1>6. ASSUME NEW c \in Calls, RecordValidationFailure(c)
      PROVE  SerialInv'
  <2>1. SerialRow'
    BY <1>6 DEF RecordValidationFailure, SerialRow, SerialInv, CounterExact,
       NextFailed, NextLock, LockInv, TypeOK, Call
  <2>2. QED
    BY <1>6, <2>1, <1>finish DEF RecordValidationFailure, InFlight, Answers
<1>7. ASSUME NEW c \in Calls, RecordValidationSuccess(c)
      PROVE  SerialInv'
  BY <1>7, <1>clear, <1>finish DEF RecordValidationSuccess, InFlight, Answers
<1>8. ASSUME NEW c \in Calls, ResetPIN(c)
      PROVE  SerialInv'
  BY <1>8, <1>clear, <1>finish DEF ResetPIN, InFlight, Answers
<1>9. ASSUME NEW c \in Calls, Lose(c)
      PROVE  SerialInv'
  BY <1>9, <1>row, <1>finish DEF Lose, Answers
<1>10. CASE UNCHANGED vars
  BY <1>10 DEF vars, row, history, SerialInv, SerialRow, CounterExact, InFlight
<1>11. QED
  BY <1>1, <1>2, <1>3, <1>4, <1>5, <1>6, <1>7, <1>8, <1>9, <1>10 DEF Next

LEMMA SerialInvariant == ~ Concurrent /\ Spec => []SerialInv
<1>1. CASE Concurrent
  BY <1>1
<1>2. CASE ~ Concurrent
  <2>1. SerialInv /\ [Next]_vars => SerialInv'
    BY <1>2, StepSerial
  <2>2. QED
    BY <2>1, InitSerial, PTL DEF Spec
<1>3. QED
  BY <1>1, <1>2

(* Handled one at a time, no wrong PIN goes uncounted.                     *)
THEOREM SerialCounterExact == ~ Concurrent /\ Spec => []CounterExact
<1>1. SerialInv => CounterExact
  BY DEF SerialInv, SerialRow
<1>2. QED
  BY <1>1, SerialInvariant, PTL

(***************************************************************************)
(* The comparison of a PIN happens in Decide, which finds the snapshot's   *)
(* lock over.  Serially the snapshot is the row, and the row's lock is the *)
(* one the last wrong PIN earned.                                          *)
(***************************************************************************)
RuleStep ==
    \A c \in Calls :
       call[c].stage = "read" /\ call'[c].stage \in {"right", "wrong"}
       => \/ wrongAnswers < MaxFailedAttempts
          \/ clock >= lastWrongAt + LockoutDuration

LEMMA RuleByStep == SerialInv /\ [Next]_vars => [RuleStep]_vars
<1> SUFFICES ASSUME SerialInv, Next, NEW c \in Calls,
                    call[c].stage = "read", call'[c].stage \in {"right", "wrong"},
                    wrongAnswers >= MaxFailedAttempts
             PROVE  clock >= lastWrongAt + LockoutDuration
  BY LimitAssumption DEF RuleStep, SerialInv, LockInv, TypeOK
<1> USE LimitAssumption
<1>1. ASSUME NEW d \in Calls, Decide(d)
      PROVE  clock >= lastWrongAt + LockoutDuration
  <2>1. d = c
    BY <1>1, FinishType DEF Decide, Answers, SerialInv, LockInv, TypeOK
  <2>2. ASSUME NEW a \in Answers, Finish(c, a)
        PROVE  FALSE
    <3>1. call'[c] = [NewCall EXCEPT !.stage = "done", !.answer = a]
      BY <2>2, FinishType DEF SerialInv, LockInv, TypeOK
    <3>2. QED
      BY <3>1 DEF NewCall
  <2>3. ~ IsLocked(call[c].seenLock, clock)
    BY <1>1, <2>1, <2>2 DEF Decide, Answers
  <2>4. call[c].seenLock = lockedUntil /\ lockedUntil = lastWrongAt + LockoutDuration
    BY DEF SerialInv, SerialRow
  <2>5. QED
    BY <2>3, <2>4 DEF IsLocked, SerialInv, LockInv, TypeOK
<1>2. ASSUME NEW d \in Calls, NEW a \in Answers, Finish(d, a)
      PROVE  FALSE
  <2>1. call'[d] = [NewCall EXCEPT !.stage = "done", !.answer = a]
    BY <1>2, FinishType DEF SerialInv, LockInv, TypeOK
  <2>2. call'[d].stage = "done"
    BY <2>1 DEF NewCall
  <2>3. QED
    BY <1>2, <2>2, FinishType DEF SerialInv, LockInv, TypeOK
<1>3. ASSUME UNCHANGED call
      PROVE  FALSE
  BY <1>3
<1>4. ASSUME NEW d \in Calls, NEW pin \in PINs \union {Malformed},
             GetValidationState(d, pin) \/ \E ok \in BOOLEAN : CheckPassword(d, pin, ok)
      PROVE  FALSE
  <2>1. CASE GetValidationState(d, pin)
    BY <2>1 DEF GetValidationState, SerialInv, LockInv, TypeOK, Call
  <2>2. CASE call' = [call EXCEPT ![d] = [@ EXCEPT !.stage = "resetting", !.pin = pin]]
    BY <2>2 DEF SerialInv, LockInv, TypeOK, Call
  <2>3. QED
    BY <1>2, <1>4, <2>1, <2>2 DEF CheckPassword, Answers
<1>5. QED
  BY <1>1, <1>2, <1>3, <1>4 DEF Next, Tick, SetPIN, RecordValidationFailure,
     RecordValidationSuccess, ResetPIN, Lose, Answers

(* Handled one at a time, the lock rule of the specification holds: after  *)
(* the limit of wrong PINs none is compared for LockoutDuration.           *)
THEOREM SerialLockoutRule == ~ Concurrent /\ Spec => LockoutRule
<1>1. ~ Concurrent /\ Spec => [][RuleStep]_vars
  BY RuleByStep, SerialInvariant, PTL DEF Spec
<1>2. QED
  BY <1>1 DEF LockoutRule, RuleStep

(***************************************************************************)
(* The refinement.  Every step of PinLockout that does not write the row   *)
(* or the clock stutters in PinPolicy; a validation takes effect when it   *)
(* is recorded, at the instant call.now.                                   *)
(***************************************************************************)
LEMMA InitPolicy == Init => Policy!Init
  BY DEF Init, Policy!Init, Policy!Unlocked

LEMMA StepPolicy == LockInv /\ SerialInv /\ [Next]_vars => [Policy!Next]_(Policy!vars)
<1> SUFFICES ASSUME SerialInv, LockInv, [Next]_vars
             PROVE  Policy!Next \/ UNCHANGED <<clock, pinHash, failedAttempts, lockedUntil>>
  BY DEF Policy!vars
<1>clear. ASSUME ClearFailures, UNCHANGED clock, pinHash' \in PINs
          PROVE  Policy!Next
  BY <1>clear DEF ClearFailures, Policy!Next, Policy!NewPIN, Policy!Unlocked
<1>1. CASE Tick
  BY <1>1 DEF Tick, row, Policy!Next, Policy!TimePasses
<1>2. ASSUME NEW c \in Calls, NEW pin \in PINs \union {Malformed},
             \/ GetValidationState(c, pin)
             \/ \E ok \in BOOLEAN : CheckPassword(c, pin, ok)
             \/ Decide(c)
             \/ Lose(c)
      PROVE  UNCHANGED <<clock, pinHash, failedAttempts, lockedUntil>>
  BY <1>2 DEF GetValidationState, CheckPassword, Decide, Lose, row
<1>3. ASSUME NEW c \in Calls, NEW pin \in PINs \union {Malformed}, SetPIN(c, pin)
      PROVE  Policy!Next \/ UNCHANGED <<clock, pinHash, failedAttempts, lockedUntil>>
  BY <1>3, <1>clear DEF SetPIN, row
<1>4. ASSUME NEW c \in Calls, ResetPIN(c)
      PROVE  Policy!Next
  BY <1>4, <1>clear DEF ResetPIN, LockInv, TypeOK
<1>5. ASSUME NEW c \in Calls, call[c].stage \in {"wrong", "right"}
      PROVE  call[c].now \in 1 .. clock /\ Policy!MayCompareAt(call[c].now)
  BY <1>5 DEF SerialInv, SerialRow, LockInv, SnapshotOK, TypeOK, Call, Policy!MayCompareAt
<1>6. ASSUME NEW c \in Calls, RecordValidationFailure(c)
      PROVE  Policy!Next
  <2>1. Policy!Wrong(call[c].now)
    BY <1>5, <1>6, LimitAssumption DEF RecordValidationFailure, Policy!Wrong, Policy!Unlocked,
       NextFailed, NextLock, SerialInv
  <2>2. QED
    BY <1>5, <1>6, <2>1 DEF Policy!Next, RecordValidationFailure
<1>7. ASSUME NEW c \in Calls, RecordValidationSuccess(c)
      PROVE  Policy!Next
  <2>1. Policy!Right(call[c].now)
    BY <1>5, <1>7 DEF RecordValidationSuccess, ClearFailures, Policy!Right, Policy!Unlocked
  <2>2. QED
    BY <1>5, <1>7, <2>1 DEF Policy!Next, RecordValidationSuccess
<1>8. CASE UNCHANGED vars
  BY <1>8 DEF vars, row
<1>9. QED
  BY <1>1, <1>2, <1>3, <1>4, <1>6, <1>7, <1>8 DEF Next

(* Handled one at a time, a validation is as good as atomic.               *)
THEOREM SerialAtomic == ~ Concurrent /\ Spec => AtomicValidation
<1>1. SerialInv => LockInv
  BY DEF SerialInv
<1>2. QED
  BY <1>1, InitPolicy, StepPolicy, SerialInvariant, PTL DEF Spec, AtomicValidation, Policy!Spec
=============================================================================
