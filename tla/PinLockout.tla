----------------------------- MODULE PinLockout -----------------------------
(***************************************************************************)
(* The Security PIN of one user: the users row (hash, failed attempts,     *)
(* lock) and the handlers that read and write it                           *)
(* (backend/internal/securitypin).  A validation is not one transaction:   *)
(* it reads the row, releases it, compares the PIN with the hash it read   *)
(* (bcrypt, slow), and then writes back values computed from what it read. *)
(* Two validations of one user interleave freely between those steps.      *)
(*                                                                         *)
(* No statement of the package touches two users, so one row is enough.    *)
(*                                                                         *)
(* An operator that stands before another and differs from it by one slip  *)
(* (IsLockedOffByOne, ClearLockOnly, ...) is a mutant: no action uses it;  *)
(* put in the place of the other it makes a property fail.                 *)
(***************************************************************************)
EXTENDS Naturals

CONSTANTS
    Calls,           \* handler invocations; each one runs once
    PINs,            \* well-formed PINs (4-6 digits)
    Malformed,       \* any other text a client can send as a PIN
    NoPIN,           \* security_pin_hash IS NULL
    MaxFailedAttempts,
    LockoutDuration,
    MaxTime,         \* bound on the clock
    Concurrent       \* may two calls of the user be in flight at once?

ASSUME LimitAssumption ==
    /\ MaxFailedAttempts \in Nat \ {0}
    /\ LockoutDuration \in Nat \ {0}
    /\ MaxTime \in Nat
ASSUME PinAssumption == NoPIN \notin PINs /\ Malformed \notin PINs
ASSUME ConcurrentAssumption == Concurrent \in BOOLEAN

(***************************************************************************)
(* pin_locked_until is a nullable timestamp.  Time 0 stands for NULL: the  *)
(* clock starts at 1, so every real lock ends after it.                    *)
(***************************************************************************)
NoLock == 0

VARIABLES
    clock,
    pinHash,         \* security_pin_hash; a hash is named by its PIN
    failedAttempts,  \* pin_failed_attempts
    lockedUntil,     \* pin_locked_until
    call,            \* what each handler holds in its local variables
    audit,           \* how many audit_logs rows of each event type exist
    wrongAnswers,    \* history: wrong PINs recorded since the last clear
    lastWrongAt      \* history: when the latest of them was compared

history == <<wrongAnswers, lastWrongAt>>
row == <<pinHash, failedAttempts, lockedUntil>>
vars == <<clock, row, call, audit, history>>

Stages == {"idle", "read", "wrong", "right", "resetting", "done"}
Answers == {"none", "ok", "not_set", "locked", "invalid", "rejected", "lost"}
AuditEvents == {"set", "reset", "validation_failed", "validation_succeeded"}

Call == [stage    : Stages,
         answer   : Answers,
         pin      : PINs \union {Malformed, NoPIN},
         seenHash : PINs \union {NoPIN},
         seenFailed : Nat,
         seenLock : Nat,
         now      : Nat]

NewCall == [stage |-> "idle", answer |-> "none", pin |-> NoPIN,
            seenHash |-> NoPIN, seenFailed |-> 0, seenLock |-> NoLock,
            now |-> 0]

InFlight(c) == call[c].stage \notin {"idle", "done"}

(* A call may start: always, or only when the user has no other in flight. *)
MayStart(c) ==
    /\ call[c].stage = "idle"
    /\ Concurrent \/ \A d \in Calls : ~ InFlight(d)

(* The call answers; what it held in its locals is gone.                   *)
Finish(c, answer) ==
    call' = [call EXCEPT ![c] = [NewCall EXCEPT !.stage = "done", !.answer = answer]]

Count(event) == audit' = [audit EXCEPT ![event] = @ + 1]

(* securitypin.IsLocked: the lock ends strictly after now.                 *)
IsLockedOffByOne(until, now) == until # NoLock /\ until > now + 1
IsLocked(until, now) == until # NoLock /\ until > now

(* securitypin.Compare: a malformed PIN is simply a wrong one.             *)
Compare(hash, pin) == hash # NoPIN /\ pin \in PINs /\ pin = hash

(* securitypin.NextFailure: the count and the lock a failure writes.       *)
NextFailed(failed) == failed + 1
NextLockOffByOne(failed, now) ==
    IF failed >= MaxFailedAttempts THEN now + LockoutDuration ELSE NoLock
NextLockGrowing(failed, now) ==
    IF NextFailed(failed) >= MaxFailedAttempts
    THEN now + LockoutDuration * NextFailed(failed)
    ELSE NoLock
NextLock(failed, now) ==
    IF NextFailed(failed) >= MaxFailedAttempts
    THEN now + LockoutDuration
    ELSE NoLock

Init ==
    /\ clock = 1
    /\ pinHash = NoPIN
    /\ failedAttempts = 0
    /\ lockedUntil = NoLock
    /\ call = [c \in Calls |-> NewCall]
    /\ audit = [e \in AuditEvents |-> 0]
    /\ wrongAnswers = 0
    /\ lastWrongAt = 0

Tick ==
    /\ clock < MaxTime
    /\ clock' = clock + 1
    /\ UNCHANGED <<row, call, audit, history>>

(***************************************************************************)
(* ValidationService.Validate, step 1: the SELECT of GetValidationState.   *)
(***************************************************************************)
GetValidationState(c, pin) ==
    /\ MayStart(c)
    /\ call' = [call EXCEPT ![c] =
                   [@ EXCEPT !.stage = "read", !.pin = pin,
                             !.seenHash = pinHash,
                             !.seenFailed = failedAttempts,
                             !.seenLock = lockedUntil]]
    /\ UNCHANGED <<clock, row, audit, history>>

(***************************************************************************)
(* Step 2: everything is decided from the row as it was read and from a    *)
(* clock read after it.  A missing PIN or a lock ends the call here.       *)
(***************************************************************************)
Decide(c) ==
    LET s == call[c] IN
    /\ s.stage = "read"
    /\ \/ /\ s.seenHash = NoPIN
          /\ Finish(c, "not_set")
       \/ /\ s.seenHash # NoPIN
          /\ IsLocked(s.seenLock, clock)
          /\ Finish(c, "locked")
       \/ /\ s.seenHash # NoPIN
          /\ ~ IsLocked(s.seenLock, clock)
          /\ call' = [call EXCEPT ![c] =
                [@ EXCEPT !.now = clock,
                          !.stage = IF Compare(s.seenHash, s.pin)
                                    THEN "right" ELSE "wrong"]]
    /\ UNCHANGED <<clock, row, audit, history>>

(***************************************************************************)
(* Step 3, wrong PIN: one transaction writes the count and the lock        *)
(* computed from the snapshot, over whatever the row holds by now.         *)
(***************************************************************************)
RecordValidationFailure(c) ==
    LET s == call[c] IN
    /\ s.stage = "wrong"
    /\ failedAttempts' = NextFailed(s.seenFailed)
    /\ lockedUntil' = NextLock(s.seenFailed, s.now)
    /\ Count("validation_failed")
    /\ wrongAnswers' = wrongAnswers + 1
    /\ lastWrongAt' = s.now
    /\ Finish(c, IF lockedUntil' # NoLock THEN "locked" ELSE "invalid")
    /\ UNCHANGED <<clock, pinHash>>

ClearLockOnly ==
    /\ lockedUntil' = NoLock
    /\ wrongAnswers' = 0
    /\ lastWrongAt' = 0
    /\ UNCHANGED failedAttempts
ClearFailures ==
    /\ failedAttempts' = 0
    /\ lockedUntil' = NoLock
    /\ wrongAnswers' = 0
    /\ lastWrongAt' = 0

(* Step 3, right PIN.                                                      *)
RecordValidationSuccess(c) ==
    /\ call[c].stage = "right"
    /\ ClearFailures
    /\ Count("validation_succeeded")
    /\ Finish(c, "ok")
    /\ UNCHANGED <<clock, pinHash>>

(***************************************************************************)
(* SetupService.Setup: one transaction, whatever PIN the row holds.  Hash  *)
(* refuses a malformed PIN before anything is written.                     *)
(***************************************************************************)
SetPIN(c, pin) ==
    /\ MayStart(c)
    /\ \/ /\ pin \in PINs
          /\ pinHash' = pin
          /\ ClearFailures
          /\ Count("set")
          /\ Finish(c, "ok")
       \/ /\ pin \notin PINs
          /\ Finish(c, "rejected")
          /\ UNCHANGED <<row, audit, history>>
    /\ UNCHANGED clock

(***************************************************************************)
(* ResetService.Reset reads the password hash, compares the password, and  *)
(* only then writes the PIN in a transaction of its own.                   *)
(***************************************************************************)
CheckPasswordButNotPIN(c, pin, passwordMatches) ==
    /\ MayStart(c)
    /\ passwordMatches
    /\ call' = [call EXCEPT ![c] = [@ EXCEPT !.stage = "resetting", !.pin = pin]]
    /\ UNCHANGED <<clock, row, audit, history>>

CheckPassword(c, pin, passwordMatches) ==
    /\ MayStart(c)
    /\ \/ /\ pin \in PINs /\ passwordMatches
          /\ call' = [call EXCEPT ![c] = [@ EXCEPT !.stage = "resetting", !.pin = pin]]
       \/ /\ ~ (pin \in PINs /\ passwordMatches)
          /\ Finish(c, "rejected")
    /\ UNCHANGED <<clock, row, audit, history>>

ResetPIN(c) ==
    /\ call[c].stage = "resetting"
    /\ pinHash' = call[c].pin
    /\ ClearFailures
    /\ Count("reset")
    /\ Finish(c, "ok")
    /\ UNCHANGED clock

(***************************************************************************)
(* A call dies between its steps: the request context is cancelled, the    *)
(* process stops, or a statement fails and the deferred Rollback runs.     *)
(***************************************************************************)
Lose(c) ==
    /\ InFlight(c)
    /\ Finish(c, "lost")
    /\ UNCHANGED <<clock, row, audit, history>>

Next ==
    \/ Tick
    \/ \E c \in Calls :
          \/ \E pin \in PINs \union {Malformed} :
                \/ GetValidationState(c, pin)
                \/ SetPIN(c, pin)
                \/ \E ok \in BOOLEAN : CheckPassword(c, pin, ok)
          \/ Decide(c)
          \/ RecordValidationFailure(c)
          \/ RecordValidationSuccess(c)
          \/ ResetPIN(c)
          \/ Lose(c)

Spec == Init /\ [][Next]_vars

(***************************************************************************)
(* PROPERTIES                                                              *)
(***************************************************************************)

TypeOK ==
    /\ clock \in Nat
    /\ pinHash \in PINs \union {NoPIN}
    /\ failedAttempts \in Nat
    /\ lockedUntil \in Nat
    /\ call \in [Calls -> Call]
    /\ \A c \in Calls : call[c].stage = "resetting" => call[c].pin \in PINs
    /\ audit \in [AuditEvents -> Nat]
    /\ wrongAnswers \in Nat
    /\ lastWrongAt \in Nat

(* A lock is earned, however validations interleave: the row is locked     *)
(* exactly when its counter has reached the limit, and the counter never   *)
(* claims more failures than the audit trail holds.  The values written    *)
(* are computed from an old snapshot, so this is a fact about every        *)
(* interleaving of GetValidationState with RecordValidationFailure.        *)
LockIsEarned ==
    /\ lockedUntil # NoLock <=> failedAttempts >= MaxFailedAttempts
    /\ failedAttempts <= audit["validation_failed"]

(* No interleaving locks the user out for longer than LockoutDuration from *)
(* now, although the lock is computed from a clock read before the write.  *)
LockEndsInTime == lockedUntil <= clock + LockoutDuration

(* A lock that is in force is lifted early only by a new PIN, or by a      *)
(* validation that read the row before this lock was written to it.        *)
LockLiftedOnlyByStaleOrNewPIN ==
    [][ lockedUntil > clock /\ lockedUntil' < lockedUntil
        => \/ audit'["set"] > audit["set"]
           \/ audit'["reset"] > audit["reset"]
           \/ \E c \in Calls : /\ call[c].stage \in {"wrong", "right"}
                               /\ call'[c].stage = "done"
                               /\ call[c].seenLock # lockedUntil ]_vars

(* The lock rule of the consent specification: after MaxFailedAttempts     *)
(* wrong PINs no PIN is compared until LockoutDuration has passed since    *)
(* the last of them.                                                       *)
LockoutRule ==
    [][ \A c \in Calls :
          call[c].stage = "read" /\ call'[c].stage \in {"right", "wrong"}
          => \/ wrongAnswers < MaxFailedAttempts
             \/ clock >= lastWrongAt + LockoutDuration ]_vars

(* One call at a time, the row says exactly what happened: the counter is  *)
(* the number of wrong PINs since it was last cleared.                     *)
CounterExact == failedAttempts = wrongAnswers

(* Handled one at a time, validations behave as if each were atomic: the   *)
(* row follows the policy of PinPolicy.                                    *)
Policy == INSTANCE PinPolicy
AtomicValidation == Policy!Spec

=============================================================================
