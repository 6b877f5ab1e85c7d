--------------------------- MODULE WebhookDelivery ---------------------------
(***************************************************************************)
(* The webhook outbox after a claim event is enqueued, and the             *)
(* deliverwebhooks command that empties it (backend/internal/webhooks,     *)
(* backend/cmd/deliverwebhooks).  A run lists the due rows, then for each  *)
(* sends it, waits for the endpoint's answer and records the answer, each  *)
(* a statement of its own: nothing claims or locks a row between its       *)
(* listing and its record, and nothing stops two runs from overlapping.    *)
(*                                                                         *)
(* Only time differences matter, so a row holds the minutes until it is    *)
(* due and a run the minutes since it read the clock; no clock is bounded. *)
(* A definition that differs by one slip from the one after it is a        *)
(* mutant, which no action uses.                                           *)
(***************************************************************************)
EXTENDS Naturals, FiniteSets

CONSTANTS
    Deliveries,    \* rows, numbered in the order of created_at
    Orgs,          \* organizations
    NoOrg,         \* of a row that does not exist yet
    Healthy,       \* those whose endpoint does not refuse for ever
    Workers,       \* runs of the command that may overlap
    Limit,         \* rows one run takes (25 in the code)
    FirstRetry, SecondRetry, LaterRetry,   \* retryDelay (1, 5, 15 minutes)
    RunTimeout     \* minutes after which a run's context is cancelled

ASSUME DeliveryAssumption == Deliveries \subseteq Nat /\ IsFiniteSet(Deliveries)
ASSUME HealthyAssumption == Healthy \subseteq Orgs
ASSUME LimitAssumption == Limit \in Nat \ {0}
ASSUME DelayAssumption ==
    /\ RunTimeout \in Nat
    /\ FirstRetry \in Nat \ {0} /\ SecondRetry \in Nat /\ LaterRetry \in Nat
    /\ FirstRetry <= SecondRetry /\ SecondRetry <= LaterRetry

VARIABLES
    row,        \* webhook_deliveries
    endpoints,  \* organizations with an active webhook endpoint
    run,        \* local state of each run of the command
    received    \* deliveries some endpoint has taken in

vars == <<row, endpoints, run, received>>

(* retryDelay tells attempts apart only up to the third.                   *)
MaxAttempts == 3
OneMoreTwice(attempts) == attempts + 2
OneMore(attempts) == IF attempts < MaxAttempts THEN attempts + 1 ELSE MaxAttempts

retryDelayBackwards(attempts) ==
    CASE attempts <= 1 -> LaterRetry
      [] attempts = 2  -> SecondRetry
      [] attempts > 2  -> FirstRetry
retryDelay(attempts) ==
    CASE attempts <= 1 -> FirstRetry
      [] attempts = 2  -> SecondRetry
      [] attempts > 2  -> LaterRetry

Statuses == {"none", "pending", "delivered", "failed"}
NewRow == [status |-> "none", org |-> NoOrg, attempts |-> 0, dueIn |-> 0,
           deliveredAt |-> FALSE]
Idle == [stage |-> "idle", batch |-> {}, age |-> 0, ok |-> FALSE]

Init ==
    /\ row = [d \in Deliveries |-> NewRow]
    /\ endpoints = {}
    /\ run = [w \in Workers |-> Idle]
    /\ received = {}

Less(n, m) == IF n > m THEN n - m ELSE 0

(* A minute passes.  A run that has reached its timeout must end first.    *)
Tick ==
    /\ \A w \in Workers : run[w].stage # "idle" => run[w].age < RunTimeout
    /\ row' = [d \in Deliveries |-> [row[d] EXCEPT !.dueIn = Less(@, 1)]]
    /\ run' = [w \in Workers |->
                  IF run[w].stage = "idle" THEN run[w]
                  ELSE [run[w] EXCEPT !.age = @ + 1]]
    /\ UNCHANGED <<endpoints, received>>

(* EnqueueClaimEvent, inside the transaction that changes the claim; the   *)
(* row is due at once.  created_at was read before the transaction, so     *)
(* rows need not appear in its order.                                      *)
EnqueueClaimEvent(d, o) ==
    /\ row[d].status = "none"
    /\ row' = [row EXCEPT ![d] = [NewRow EXCEPT !.status = "pending", !.org = o]]
    /\ UNCHANGED <<endpoints, run, received>>

(* ConfigureEndpoint; configuring again changes only the URL.              *)
ConfigureEndpoint(o) ==
    /\ endpoints' = endpoints \union {o}
    /\ UNCHANGED <<row, run, received>>

(***************************************************************************)
(* DeliverPending: now is read and the due rows are listed, the oldest     *)
(* Limit of them, with the attempts each has so far.                       *)
(***************************************************************************)
IsDueWhenRetried(d) ==
    row[d].status \in {"pending", "delivered"} /\ row[d].org \in endpoints /\ row[d].dueIn = 0
IsDueAnyTime(d) == row[d].status = "pending" /\ row[d].org \in endpoints
IsDue(d) == row[d].status = "pending" /\ row[d].org \in endpoints /\ row[d].dueIn = 0

Oldest(D) == {d \in D : Cardinality({e \in D : e < d}) < Limit}

ListPendingDeliveries(w) ==
    LET due == Oldest({d \in Deliveries : IsDue(d)}) IN
    /\ run[w].stage = "idle"
    /\ due # {}
    /\ run' = [run EXCEPT ![w] =
                  [Idle EXCEPT !.stage = "send",
                               !.batch = {[id |-> d, attempts |-> row[d].attempts] : d \in due}]]
    /\ UNCHANGED <<row, endpoints, received>>

HeadOf(w) == CHOOSE b \in run[w].batch : \A x \in run[w].batch : b.id <= x.id

(* Send: the request may arrive or not, and if it does the answer may be a *)
(* success, a failure, or lost (10 s timeout).  Nothing is stored.         *)
Send(w, arrives, ok) ==
    /\ run[w].stage = "send"
    /\ ok => arrives
    /\ received' = IF arrives THEN received \union {HeadOf(w).id} ELSE received
    /\ run' = [run EXCEPT ![w].stage = "record", ![w].ok = ok]
    /\ UNCHANGED <<row, endpoints>>

(* RecordDeliveryAttempt: an UPDATE by id, whatever the row holds by now.  *)
(* The next attempt is counted from the time the run began and from the    *)
(* attempts it listed; attempts itself is incremented in place.            *)
DeliveredRow(r) ==
    [r EXCEPT !.status = "delivered", !.attempts = OneMore(@), !.dueIn = 0,
              !.deliveredAt = TRUE]
RetryRowAsFailed(r, attempts, age) ==
    [r EXCEPT !.status = "failed", !.attempts = OneMore(@), !.dueIn = 0]
RetryRowOfLastAttempt(r, attempts, age) ==
    [r EXCEPT !.status = "pending", !.attempts = OneMore(@),
              !.dueIn = Less(retryDelay(attempts), age)]
RetryRow(r, attempts, age) ==
    [r EXCEPT !.status = "pending", !.attempts = OneMore(@),
              !.dueIn = Less(retryDelay(attempts + 1), age)]

RecordAnySuccess(w) ==
    LET b == HeadOf(w)
        rest == run[w].batch \ {b}
    IN
    /\ run[w].stage = "record"
    /\ row' = [row EXCEPT ![b.id] = DeliveredRow(@)]
    /\ run' = [run EXCEPT ![w] =
                  IF rest = {} THEN Idle
                  ELSE [@ EXCEPT !.stage = "send", !.batch = rest, !.ok = FALSE]]
    /\ UNCHANGED <<endpoints, received>>
RecordDeliveryAttempt(w) ==
    LET b == HeadOf(w)
        rest == run[w].batch \ {b}
    IN
    /\ run[w].stage = "record"
    /\ row' = [row EXCEPT ![b.id] =
                  IF run[w].ok THEN DeliveredRow(@)
                               ELSE RetryRow(@, b.attempts, run[w].age)]
    /\ run' = [run EXCEPT ![w] =
                  IF rest = {} THEN Idle
                  ELSE [@ EXCEPT !.stage = "send", !.batch = rest, !.ok = FALSE]]
    /\ UNCHANGED <<endpoints, received>>

(* The process stops, its 60 s are over, or the UPDATE fails: the rest of  *)
(* the batch is left, and an answer that was not recorded is forgotten.    *)
CutOff(w) ==
    /\ run[w].stage # "idle"
    /\ run' = [run EXCEPT ![w] = Idle]
    /\ UNCHANGED <<row, endpoints, received>>

Next ==
    \/ Tick
    \/ \E o \in Orgs :
          \/ \E d \in Deliveries : EnqueueClaimEvent(d, o)
          \/ ConfigureEndpoint(o)
    \/ \E w \in Workers :
          \/ ListPendingDeliveries(w)
          \/ \E arrives, ok \in BOOLEAN : Send(w, arrives, ok)
          \/ RecordDeliveryAttempt(w)
          \/ CutOff(w)

Spec == Init /\ [][Next]_vars

(***************************************************************************)
(* The command is run again and again and from some time on its runs are   *)
(* not cut off; a healthy endpoint that is asked for ever answers success. *)
(***************************************************************************)
HealthyAnswer(d) ==
    \E w \in Workers :
        /\ run[w].stage = "send"
        /\ HeadOf(w).id = d
        /\ row[d].org \in Healthy
        /\ Send(w, TRUE, TRUE)

Fairness ==
    /\ WF_vars(Tick)
    /\ \A w \in Workers :
          /\ WF_vars(ListPendingDeliveries(w))
          /\ WF_vars(\E arrives, ok \in BOOLEAN : Send(w, arrives, ok))
          /\ WF_vars(RecordDeliveryAttempt(w))
    /\ \A d \in Deliveries : SF_vars(HealthyAnswer(d))
    /\ <>[][\A w \in Workers : ~ CutOff(w)]_vars

FairSpec == Spec /\ Fairness

(***************************************************************************)
(* PROPERTIES                                                              *)
(***************************************************************************)

TypeOK ==
    /\ row \in [Deliveries -> [status : Statuses, org : Orgs \union {NoOrg},
                               attempts : 0 .. MaxAttempts, dueIn : Nat,
                               deliveredAt : BOOLEAN]]
    /\ endpoints \subseteq Orgs
    /\ run \in [Workers -> [stage : {"idle", "send", "record"},
                            batch : SUBSET [id : Deliveries, attempts : 0 .. MaxAttempts],
                            age : 0 .. RunTimeout, ok : BOOLEAN]]
    /\ \A w \in Workers : run[w].stage = "idle" <=> run[w].batch = {}
    /\ received \subseteq Deliveries

(* A row is never marked delivered on hope: whatever runs overlap or are   *)
(* cut off, a delivered row has been received, so a delivery is lost only  *)
(* by being late.                                                          *)
DeliveredWasReceived ==
    \A d \in Deliveries :
        row[d].status = "delivered" \/ row[d].deliveredAt => d \in received

(* Retries back off and never stop: a pending row is due within the delay  *)
(* its attempts call for, although overlapping runs compute the delay from *)
(* attempts they read before other runs counted theirs.                    *)
BackoffBounded ==
    \A d \in Deliveries :
        IF row[d].attempts = 0 THEN row[d].dueIn = 0
        ELSE row[d].dueIn <= retryDelay(row[d].attempts)

(* "The command marks successful deliveries": a row some run recorded as   *)
(* delivered stays delivered.                                              *)
SuccessesStayMarked ==
    \A d \in Deliveries : row[d].deliveredAt => row[d].status = "delivered"

(* One run at a time sends a row only when it is pending and due, so a     *)
(* recorded success is never sent again and a failure not before its time. *)
SendsOnlyDue ==
    [][ \A w \in Workers :
          run[w].stage = "send" /\ run'[w].stage = "record"
          => LET d == HeadOf(w).id IN row[d].status = "pending" /\ row[d].dueIn = 0 ]_vars

(* The runs keep the contract: seen row by row, every step of a run is one *)
(* step of it, or none; when runs never overlap, of its strict form.       *)
Outbox == INSTANCE DeliveryContract WITH
    Alone <- \A v, w \in Workers : v = w,
    Delay <- [n \in 1 .. MaxAttempts |-> retryDelay(n)],
    status <- [d \in Deliveries |-> row[d].status],
    attempts <- [d \in Deliveries |-> row[d].attempts],
    dueIn <- [d \in Deliveries |-> row[d].dueIn],
    reachable <- {d \in Deliveries : row[d].status # "none" /\ row[d].org \in endpoints}

KeepsContract == Outbox!Spec

(* "The command sends already-signed safe payloads to active endpoints":   *)
(* what is pending for an active and healthy endpoint is delivered in the  *)
(* end, whatever other organizations' endpoints do.                        *)
HealthyOrgHears ==
    \A d \in Deliveries :
        row[d].status = "pending" /\ row[d].org \in Healthy \intersect endpoints
        ~> row[d].status = "delivered"
=============================================================================
