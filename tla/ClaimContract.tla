---------------------------- MODULE ClaimContract ----------------------------
(***************************************************************************)
(* What Kladd promises about one user's claim requests, with no handlers,  *)
(* no calls in flight and no transactions: a request is decided once, an   *)
(* approved one is in force until it is withdrawn or has lapsed, it lapses *)
(* only when its end has come, and each change of a claim is announced     *)
(* once, in the step that makes it.                                        *)
(***************************************************************************)
EXTENDS Naturals

CONSTANT Requests

VARIABLES
    clock,
    phase,   \* of each request, and of the claim issued for it
    ends,    \* when it stops being in force
    told     \* what the requesting organization has been queued to hear

vars == <<clock, phase, ends, told>>

Init ==
    /\ clock = 1
    /\ phase = [r \in Requests |-> "none"]
    /\ ends = [r \in Requests |-> 0]
    /\ told = [r \in Requests |-> {}]

Move(R, from, to) ==
    /\ \A r \in R : phase[r] = from
    /\ phase' = [r \in Requests |-> IF r \in R THEN to ELSE phase[r]]
    /\ UNCHANGED clock

Tell(R, event) ==
    told' = [r \in Requests |-> IF r \in R THEN told[r] \union {event} ELSE told[r]]

Ask(r) ==
    /\ Move({r}, "none", "pending_approval")
    /\ ends'[r] > clock
    /\ ends' = [ends EXCEPT ![r] = ends'[r]]
    /\ UNCHANGED told

Refuse(r) ==
    /\ Move({r}, "pending_approval", "denied")
    /\ UNCHANGED <<ends, told>>

Grant(r) ==
    /\ Move({r}, "pending_approval", "active")
    /\ Tell({r}, "claim.approved")
    /\ UNCHANGED ends

Withdraw(r) ==
    /\ Move({r}, "active", "revoked")
    /\ Tell({r}, "claim.revoked")
    /\ UNCHANGED ends

Lapse(R) ==
    /\ \A r \in R : ends[r] <= clock
    /\ Move(R, "active", "expired")
    /\ Tell(R, "claim.expired")
    /\ UNCHANGED ends

TimePasses == clock' = clock + 1 /\ UNCHANGED <<phase, ends, told>>

Next ==
    \/ \E r \in Requests : Ask(r) \/ Refuse(r) \/ Grant(r) \/ Withdraw(r)
    \/ \E R \in SUBSET Requests : Lapse(R)
    \/ TimePasses

Spec == Init /\ [][Next]_vars
=============================================================================
