--------------------------- MODULE DeliveryContract ---------------------------
(***************************************************************************)
(* What the webhook outbox promises for each row, with no runs, batches    *)
(* or answers in flight.  A row is owed until an endpoint that has taken   *)
(* it in is known to have done so; every other attempt puts it off by the  *)
(* delay of the attempt, counted from when the run of the attempt began.   *)
(*                                                                         *)
(* When runs never overlap a row is touched only while it is owed and due. *)
(* When they may, a row can be sent and recorded again at any time, and    *)
(* its delay may be that of an earlier attempt: all that is left is that   *)
(* only a row with an active endpoint is sent, that none is called         *)
(* delivered that was not received, and that a delay is one of its own     *)
(* attempts'.                                                              *)
(***************************************************************************)
EXTENDS Naturals

CONSTANTS
    Deliveries,
    MaxAttempts,   \* attempts are told apart up to this one
    Delay,         \* of each attempt, 1 .. MaxAttempts
    RunTimeout,    \* the longest a run lasts
    Alone          \* whether runs never overlap

VARIABLES
    status, attempts, dueIn,   \* of each row
    reachable,                 \* rows of organizations with an endpoint
    received                   \* rows some endpoint has taken in

vars == <<status, attempts, dueIn, reachable, received>>

Init ==
    /\ status = [d \in Deliveries |-> "none"]
    /\ attempts = [d \in Deliveries |-> 0]
    /\ dueIn = [d \in Deliveries |-> 0]
    /\ reachable = {}
    /\ received = {}

OneMore(n) == IF n < MaxAttempts THEN n + 1 ELSE MaxAttempts
Less(n, m) == IF n > m THEN n - m ELSE 0

Owe(d) ==
    /\ status[d] = "none"
    /\ status' = [status EXCEPT ![d] = "pending"]
    /\ reachable \subseteq reachable' /\ reachable' \subseteq reachable \union {d}
    /\ UNCHANGED <<attempts, dueIn, received>>

(* Endpoints are added; none is taken away.                                *)
Connect ==
    /\ reachable \subseteq reachable'
    /\ \A d \in reachable' : status[d] # "none"
    /\ UNCHANGED <<status, attempts, dueIn, received>>

MayTry(d) ==
    /\ d \in reachable
    /\ Alone => status[d] = "pending" /\ dueIn[d] = 0

Receive(d) ==
    /\ MayTry(d)
    /\ received' = received \union {d}
    /\ UNCHANGED <<status, attempts, dueIn, reachable>>

Succeed(d) ==
    /\ MayTry(d)
    /\ d \in received
    /\ status' = [status EXCEPT ![d] = "delivered"]
    /\ attempts' = [attempts EXCEPT ![d] = OneMore(@)]
    /\ dueIn' = [dueIn EXCEPT ![d] = 0]
    /\ UNCHANGED <<reachable, received>>

PutOff(d, known, age) ==
    /\ MayTry(d)
    /\ Alone => known = attempts[d]
    /\ status' = [status EXCEPT ![d] = "pending"]
    /\ attempts' = [attempts EXCEPT ![d] = OneMore(@)]
    /\ dueIn' = [dueIn EXCEPT ![d] = Less(Delay[OneMore(known)], age)]
    /\ UNCHANGED <<reachable, received>>

TimePasses ==
    /\ dueIn' = [d \in Deliveries |-> Less(dueIn[d], 1)]
    /\ UNCHANGED <<status, attempts, reachable, received>>

Next ==
    \/ Connect
    \/ TimePasses
    \/ \E d \in Deliveries :
          \/ Owe(d) \/ Receive(d) \/ Succeed(d)
          \/ \E known \in 0 .. attempts[d], age \in 0 .. RunTimeout :
                PutOff(d, known, age)

Spec == Init /\ [][Next]_vars
=============================================================================
