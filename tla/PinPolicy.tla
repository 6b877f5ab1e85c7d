------------------------------ MODULE PinPolicy ------------------------------
(***************************************************************************)
(* What the Security PIN row promises, with no handlers: a PIN is compared *)
(* only while no lock is in force, every wrong one counts, and the limit   *)
(* locks the row.  An attempt takes effect at one instant but may have     *)
(* read the clock some time before it.                                     *)
(***************************************************************************)
EXTENDS Naturals

CONSTANTS PINs, NoPIN, MaxFailedAttempts, LockoutDuration

VARIABLES clock, pinHash, failedAttempts, lockedUntil

vars == <<clock, pinHash, failedAttempts, lockedUntil>>

Unlocked == 0

Init ==
    /\ clock = 1
    /\ pinHash = NoPIN
    /\ failedAttempts = 0
    /\ lockedUntil = Unlocked

MayCompareAt(now) == pinHash # NoPIN /\ lockedUntil <= now

Wrong(now) ==
    /\ MayCompareAt(now)
    /\ failedAttempts' = failedAttempts + 1
    /\ lockedUntil' = IF failedAttempts' >= MaxFailedAttempts
                      THEN now + LockoutDuration
                      ELSE Unlocked
    /\ UNCHANGED <<clock, pinHash>>

Right(now) ==
    /\ MayCompareAt(now)
    /\ failedAttempts' = 0
    /\ lockedUntil' = Unlocked
    /\ UNCHANGED <<clock, pinHash>>

NewPIN ==
    /\ pinHash' \in PINs
    /\ failedAttempts' = 0
    /\ lockedUntil' = Unlocked
    /\ UNCHANGED clock

TimePasses ==
    /\ clock' = clock + 1
    /\ UNCHANGED <<pinHash, failedAttempts, lockedUntil>>

Next ==
    \/ \E now \in 1 .. clock : Wrong(now) \/ Right(now)
    \/ NewPIN
    \/ TimePasses

Spec == Init /\ [][Next]_vars
=============================================================================
