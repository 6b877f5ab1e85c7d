------------------------ MODULE WebhookDelivery_proofs ------------------------
(***************************************************************************)
(* Proofs about WebhookDelivery, for any rows, organizations and number of *)
(* overlapping runs, any limit, delays and timeout.                        *)
(***************************************************************************)
EXTENDS WebhookDelivery, FiniteSetTheorems, WellFoundedInduction, TLAPS

Attempts == 0 .. MaxAttempts
Ages == 0 .. RunTimeout
Row == [status : Statuses, org : Orgs \union {NoOrg}, attempts : Attempts,
        dueIn : Nat, deliveredAt : BOOLEAN]
Listed == [id : Deliveries, attempts : Attempts]
RunState == [stage : {"idle", "send", "record"}, batch : SUBSET Listed,
             age : Ages, ok : BOOLEAN]

LEMMA TypeFacts ==
  TypeOK => /\ row \in [Deliveries -> Row]
            /\ run \in [Workers -> RunState]
            /\ \A w \in Workers : run[w].stage = "idle" <=> run[w].batch = {}
            /\ endpoints \subseteq Orgs
            /\ received \subseteq Deliveries
  BY DEF TypeOK, Row, RunState, Listed, Attempts, Ages

LEMMA TypeFromFacts ==
  ASSUME row' \in [Deliveries -> Row], run' \in [Workers -> RunState],
         \A w \in Workers : run'[w].stage = "idle" <=> run'[w].batch = {},
         endpoints' \subseteq Orgs, received' \subseteq Deliveries
  PROVE  TypeOK'
  BY DEF TypeOK, Row, RunState, Listed, Attempts, Ages

LEMMA IdleType == 0 \in Ages /\ Idle \in RunState
<1>1. 0 \in Ages
  BY DelayAssumption DEF Ages
<1>2. QED
  BY <1>1 DEF Idle, RunState

(* A batch that is not empty has a first row.                              *)
LEMMA HeadListed ==
  ASSUME TypeOK, NEW w \in Workers, run[w].stage # "idle"
  PROVE  HeadOf(w) \in run[w].batch /\ HeadOf(w) \in Listed
<1> DEFINE ids == {b.id : b \in run[w].batch}
<1>1. run[w].batch # {} /\ run[w].batch \subseteq Listed
  BY TypeFacts DEF RunState
<1>2. ids # {} /\ ids \subseteq Nat
  BY <1>1, DeliveryAssumption DEF Listed
<1> HIDE DEF ids
<1>3. PICK m \in ids : \A n \in ids : ~ (<<n, m>> \in OpToRel(<, Nat))
  BY <1>2, NatLessThanWellFounded, WFMin, Zenon
<1>4. \A n \in ids : m <= n
  <2>1. \A n \in ids : n \in Nat /\ m \in Nat
    BY <1>2
  <2>2. \A n \in ids : ~ (n < m)
    BY <1>3, <2>1, Zenon DEF OpToRel
  <2>3. QED
    BY <2>1, <2>2
<1>5. PICK b \in run[w].batch : b.id = m
  BY <1>3 DEF ids
<1>6. \A x \in run[w].batch : b.id <= x.id
  BY <1>4, <1>5 DEF ids
<1>7. HeadOf(w) \in run[w].batch
  BY <1>5, <1>6 DEF HeadOf
<1>8. QED
  BY <1>1, <1>7

LEMMA InitType == Init => TypeOK
  BY DelayAssumption DEF Init, TypeOK, NewRow, Statuses, Idle, MaxAttempts

(* The rows a record leaves behind.                                        *)
LEMMA RecordedRows ==
  ASSUME NEW r \in Row, NEW attempts \in Attempts, NEW age \in Nat
  PROVE  /\ DeliveredRow(r) \in Row
         /\ DeliveredRow(r).status = "delivered"
         /\ DeliveredRow(r).attempts = OneMore(r.attempts)
         /\ DeliveredRow(r).dueIn = 0
         /\ RetryRow(r, attempts, age) \in Row
         /\ RetryRow(r, attempts, age).status = "pending"
         /\ RetryRow(r, attempts, age).attempts = OneMore(r.attempts)
         /\ RetryRow(r, attempts, age).dueIn = Less(retryDelay(attempts + 1), age)
         /\ RetryRow(r, attempts, age).deliveredAt = r.deliveredAt
<1>1. OneMore(r.attempts) \in Attempts
  BY DEF Row, OneMore, MaxAttempts, Attempts
<1>2. Less(retryDelay(attempts + 1), age) \in Nat
  <2>1. retryDelay(attempts + 1) \in Nat
    BY DelayAssumption DEF retryDelay, Attempts, MaxAttempts
  <2>2. QED
    BY <2>1 DEF Less
<1>3. /\ DeliveredRow(r) \in Row
      /\ DeliveredRow(r).status = "delivered"
      /\ DeliveredRow(r).attempts = OneMore(r.attempts)
      /\ DeliveredRow(r).dueIn = 0
  BY <1>1 DEF DeliveredRow, Row, Statuses
<1>4. /\ RetryRow(r, attempts, age) \in Row
      /\ RetryRow(r, attempts, age).status = "pending"
      /\ RetryRow(r, attempts, age).attempts = OneMore(r.attempts)
      /\ RetryRow(r, attempts, age).dueIn = Less(retryDelay(attempts + 1), age)
      /\ RetryRow(r, attempts, age).deliveredAt = r.deliveredAt
  BY <1>1, <1>2 DEF RetryRow, Row, Statuses
<1>5. QED
  BY <1>3, <1>4

(* What a record does to the rows and to its run.                          *)
LEMMA RecordStep ==
  ASSUME TypeOK, NEW w \in Workers, RecordDeliveryAttempt(w)
  PROVE  LET b == HeadOf(w)
             new == IF run[w].ok THEN DeliveredRow(row[b.id])
                    ELSE RetryRow(row[b.id], b.attempts, run[w].age)
         IN
         /\ b \in run[w].batch /\ b \in Listed
         /\ run[w].age \in Nat /\ row[b.id] \in Row
         /\ new \in Row
         /\ row'[b.id] = new
         /\ row' \in [Deliveries -> Row]
         /\ \A d \in Deliveries : d # b.id => row'[d] = row[d]
         /\ \A v \in Workers : v # w => run'[v] = run[v]
         /\ run'[w] \in RunState
         /\ run'[w].stage # "record"
         /\ run'[w].stage = "idle" <=> run'[w].batch = {}
         /\ run'[w].batch \subseteq run[w].batch \ {b}
         /\ run' \in [Workers -> RunState]
<1> DEFINE b == HeadOf(w)
           rest == run[w].batch \ {b}
           new == IF run[w].ok THEN DeliveredRow(row[b.id])
                  ELSE RetryRow(row[b.id], b.attempts, run[w].age)
           next == IF rest = {} THEN Idle
                   ELSE [run[w] EXCEPT !.stage = "send", !.batch = rest, !.ok = FALSE]
<1>1. b \in run[w].batch /\ b \in Listed
  BY HeadListed DEF RecordDeliveryAttempt
<1>2. run[w] \in RunState /\ run[w].age \in Nat /\ row[b.id] \in Row
      /\ b.attempts \in Attempts /\ b.id \in Deliveries
  BY <1>1, TypeFacts, DelayAssumption DEF RunState, Listed, Ages
<1>3. new \in Row
  BY <1>2, RecordedRows
<1>4. row' = [row EXCEPT ![b.id] = new] /\ run' = [run EXCEPT ![w] = next]
  BY TypeFacts DEF RecordDeliveryAttempt
<1>5. /\ next \in RunState /\ next.stage # "record" /\ next.batch \subseteq rest
      /\ next.stage = "idle" <=> next.batch = {}
  <2>1. CASE rest = {}
    <3>1. next = Idle
      BY <2>1
    <3>2. Idle \in RunState /\ Idle.stage = "idle" /\ Idle.batch = {}
      BY IdleType DEF Idle
    <3>3. QED
      BY <3>1, <3>2
  <2>2. CASE rest # {}
    <3> DEFINE more == [run[w] EXCEPT !.stage = "send", !.batch = rest, !.ok = FALSE]
    <3>1. rest \subseteq run[w].batch /\ rest \in SUBSET Listed
      BY <1>2 DEF RunState
    <3> HIDE DEF rest
    <3>2. more \in RunState /\ more.stage = "send" /\ more.batch = rest
      BY <1>2, <3>1 DEF RunState
    <3>3. next = more
      BY <2>2
    <3> HIDE DEF more
    <3>4. QED
      BY <2>2, <3>1, <3>2, <3>3
  <2>3. QED
    BY <2>1, <2>2
<1> HIDE DEF b, rest, new, next
<1>6. /\ row'[b.id] = new
      /\ row' \in [Deliveries -> Row]
      /\ \A d \in Deliveries : d # b.id => row'[d] = row[d]
      /\ \A v \in Workers : v # w => run'[v] = run[v]
      /\ run'[w] = next
      /\ run' \in [Workers -> RunState]
  BY <1>2, <1>3, <1>4, <1>5, TypeFacts
<1>7. QED
  BY <1>1, <1>2, <1>3, <1>5, <1>6 DEF b, new, rest

LEMMA SendStep ==
  ASSUME TypeOK, NEW w \in Workers, NEW arrives \in BOOLEAN, NEW ok \in BOOLEAN,
         Send(w, arrives, ok)
  PROVE  /\ run' \in [Workers -> RunState]
         /\ run'[w].stage = "record" /\ run'[w].batch = run[w].batch
         /\ run'[w].ok <=> ok
         /\ \A v \in Workers : v # w => run'[v] = run[v]
<1> DEFINE next == [run[w] EXCEPT !.stage = "record", !.ok = ok]
<1>1. next \in RunState /\ next.stage = "record" /\ next.batch = run[w].batch
  BY TypeFacts DEF RunState
<1>2. next.ok <=> ok
  BY TypeFacts DEF RunState
<1>3. run' = [run EXCEPT ![w] = next]
  BY TypeFacts DEF Send
<1> HIDE DEF next
<1>4. run'[w] = next
  BY <1>3, TypeFacts
<1>5. QED
  BY <1>1, <1>2, <1>3, <1>4, TypeFacts

LEMMA ListStep ==
  ASSUME TypeOK, NEW w \in Workers, ListPendingDeliveries(w)
  PROVE  LET due == Oldest({d \in Deliveries : IsDue(d)}) IN
         /\ due \subseteq Deliveries
         /\ \A d \in due : row[d].status = "pending" /\ row[d].dueIn = 0
         /\ run' \in [Workers -> RunState]
         /\ run'[w].stage = "send" /\ run'[w].batch # {}
         /\ run'[w].batch = {[id |-> d, attempts |-> row[d].attempts] : d \in due}
         /\ \A v \in Workers : v # w => run'[v] = run[v]
<1> DEFINE due == Oldest({d \in Deliveries : IsDue(d)})
           batch == {[id |-> d, attempts |-> row[d].attempts] : d \in due}
           next == [Idle EXCEPT !.stage = "send", !.batch = batch]
<1>1. /\ due \subseteq Deliveries
      /\ \A d \in due : row[d].status = "pending" /\ row[d].dueIn = 0
  BY DEF Oldest, IsDue
<1>2. due # {} /\ run' = [run EXCEPT ![w] = next]
  BY DEF ListPendingDeliveries
<1> HIDE DEF due
<1>3. batch \in SUBSET Listed /\ batch # {}
  <2>1. \A d \in due : d \in Deliveries /\ row[d].attempts \in Attempts
    BY <1>1, TypeFacts DEF Row
  <2>2. \A d \in due : [id |-> d, attempts |-> row[d].attempts] \in Listed
    BY <2>1 DEF Listed
  <2>3. QED
    BY <1>2, <2>2
<1> HIDE DEF batch
<1>4. next \in RunState /\ next.stage = "send" /\ next.batch = batch
  BY <1>3, IdleType DEF Idle, RunState
<1> HIDE DEF next
<1>5. /\ run'[w] = next /\ run' \in [Workers -> RunState]
      /\ \A v \in Workers : v # w => run'[v] = run[v]
  BY <1>2, <1>4, TypeFacts
<1>6. QED
  BY <1>1, <1>3, <1>4, <1>5 DEF due, batch

LEMMA TickStep ==
  ASSUME TypeOK, Tick
  PROVE  /\ \A d \in Deliveries :
               /\ row'[d].status = row[d].status
               /\ row'[d].attempts = row[d].attempts
               /\ row'[d].deliveredAt = row[d].deliveredAt
               /\ row'[d].dueIn = Less(row[d].dueIn, 1)
         /\ \A w \in Workers :
               /\ run'[w].stage = run[w].stage
               /\ run'[w].batch = run[w].batch
               /\ run'[w].ok = run[w].ok
         /\ row' \in [Deliveries -> Row] /\ run' \in [Workers -> RunState]
<1>1. ASSUME NEW d \in Deliveries
      PROVE  /\ row'[d] \in Row
             /\ row'[d].status = row[d].status
             /\ row'[d].attempts = row[d].attempts
             /\ row'[d].deliveredAt = row[d].deliveredAt
             /\ row'[d].dueIn = Less(row[d].dueIn, 1)
  <2>1. row[d] \in Row
    BY TypeFacts
  <2>2. Less(row[d].dueIn, 1) \in Nat
    BY <2>1 DEF Less, Row
  <2>3. row'[d] = [row[d] EXCEPT !.dueIn = Less(@, 1)]
    BY DEF Tick
  <2>4. QED
    BY <2>1, <2>2, <2>3 DEF Row
<1>2. ASSUME NEW w \in Workers
      PROVE  /\ run'[w] \in RunState
             /\ run'[w].stage = run[w].stage
             /\ run'[w].batch = run[w].batch
             /\ run'[w].ok = run[w].ok
  <2>1. run[w] \in RunState
    BY TypeFacts
  <2>2. CASE run[w].stage = "idle"
    BY <2>1, <2>2 DEF Tick
  <2>3. CASE run[w].stage # "idle"
    <3>1. run'[w] = [run[w] EXCEPT !.age = @ + 1] /\ run[w].age < RunTimeout
      BY <2>3 DEF Tick
    <3>2. run[w].age + 1 \in Ages
      BY <2>1, <3>1, DelayAssumption DEF RunState, Ages
    <3>3. QED
      BY <2>1, <3>1, <3>2 DEF RunState
  <2>4. QED
    BY <2>2, <2>3
<1>3. row' \in [Deliveries -> Row] /\ run' \in [Workers -> RunState]
  BY <1>1, <1>2 DEF Tick
<1>4. QED
  BY <1>1, <1>2, <1>3

LEMMA EnqueueStep ==
  ASSUME TypeOK, NEW d \in Deliveries, NEW o \in Orgs, EnqueueClaimEvent(d, o)
  PROVE  /\ row' \in [Deliveries -> Row]
         /\ row'[d].status = "pending" /\ row'[d].attempts = 0 /\ row'[d].dueIn = 0
         /\ ~ row'[d].deliveredAt
         /\ \A e \in Deliveries : e # d => row'[e] = row[e]
<1> DEFINE new == [NewRow EXCEPT !.status = "pending", !.org = o]
<1>1. /\ new \in Row /\ new.status = "pending" /\ new.attempts = 0 /\ new.dueIn = 0
      /\ ~ new.deliveredAt
  <2>1. "pending" \in Statuses /\ 0 \in Attempts
    BY DEF Statuses, Attempts, MaxAttempts
  <2>2. QED
    BY <2>1 DEF NewRow, Row
<1>2. row' = [row EXCEPT ![d] = new]
  BY DEF EnqueueClaimEvent
<1> HIDE DEF new
<1>3. /\ row'[d] = new /\ row' \in [Deliveries -> Row]
      /\ \A e \in Deliveries : e # d => row'[e] = row[e]
  BY <1>1, <1>2, TypeFacts
<1>4. QED
  BY <1>1, <1>3

LEMMA CutOffStep ==
  ASSUME TypeOK, NEW w \in Workers, CutOff(w)
  PROVE  /\ run' \in [Workers -> RunState]
         /\ run'[w].stage = "idle" /\ run'[w].batch = {}
         /\ \A v \in Workers : v # w => run'[v] = run[v]
<1>1. Idle \in RunState /\ Idle.stage = "idle" /\ Idle.batch = {}
  BY IdleType DEF Idle
<1>2. run' = [run EXCEPT ![w] = Idle]
  BY DEF CutOff
<1>3. QED
  BY <1>1, <1>2, TypeFacts

LEMMA StepType == TypeOK /\ [Next]_vars => TypeOK'
<1> SUFFICES ASSUME TypeOK, [Next]_vars PROVE TypeOK'
  OBVIOUS
<1>1. CASE Tick
  BY <1>1, TickStep, TypeFacts, TypeFromFacts DEF Tick
<1>2. ASSUME NEW d \in Deliveries, NEW o \in Orgs, EnqueueClaimEvent(d, o)
      PROVE  TypeOK'
  BY <1>2, EnqueueStep, TypeFacts, TypeFromFacts DEF EnqueueClaimEvent
<1>3. ASSUME NEW o \in Orgs, ConfigureEndpoint(o)
      PROVE  TypeOK'
  BY <1>3, TypeFacts, TypeFromFacts DEF ConfigureEndpoint
<1>4. ASSUME NEW w \in Workers, ListPendingDeliveries(w)
      PROVE  TypeOK'
  <2>1. /\ run' \in [Workers -> RunState]
        /\ run'[w].stage = "send" /\ run'[w].batch # {}
        /\ \A v \in Workers : v # w => run'[v] = run[v]
    BY <1>4, ListStep
  <2>2. QED
    BY <1>4, <2>1, TypeFacts, TypeFromFacts DEF ListPendingDeliveries
<1>5. ASSUME NEW w \in Workers, NEW arrives \in BOOLEAN, NEW ok \in BOOLEAN,
             Send(w, arrives, ok)
      PROVE  TypeOK'
  <2>1. received' \subseteq Deliveries
    <3>1. HeadOf(w).id \in Deliveries
      BY <1>5, HeadListed DEF Send, Listed
    <3>2. QED
      BY <1>5, <3>1, TypeFacts DEF Send
  <2>2. run[w].batch # {}
    BY <1>5, TypeFacts DEF Send
  <2>3. QED
    BY <1>5, <2>1, <2>2, SendStep, TypeFacts, TypeFromFacts DEF Send
<1>6. ASSUME NEW w \in Workers, RecordDeliveryAttempt(w)
      PROVE  TypeOK'
  <2>1. /\ row' \in [Deliveries -> Row]
        /\ run' \in [Workers -> RunState]
        /\ run'[w].stage = "idle" <=> run'[w].batch = {}
        /\ \A v \in Workers : v # w => run'[v] = run[v]
    BY <1>6, RecordStep
  <2>2. QED
    BY <1>6, <2>1, TypeFacts, TypeFromFacts DEF RecordDeliveryAttempt
<1>7. ASSUME NEW w \in Workers, CutOff(w)
      PROVE  TypeOK'
  BY <1>7, CutOffStep, TypeFacts, TypeFromFacts DEF CutOff
<1>8. CASE UNCHANGED vars
  BY <1>8, TypeFacts, TypeFromFacts DEF vars
<1>9. QED
  BY <1>1, <1>2, <1>3, <1>4, <1>5, <1>6, <1>7, <1>8 DEF Next

(* Rows, runs and endpoints keep their types in every behaviour.           *)
THEOREM TypeCorrect == Spec => []TypeOK
  BY InitType, StepType, PTL DEF Spec

(***************************************************************************)
(* However runs overlap.  A run that is about to record a success has had  *)
(* its row received; a listed row has at least the attempts that were      *)
(* listed, so the delay of a retry never exceeds the delay the row's own   *)
(* attempts call for.                                                      *)
(***************************************************************************)
AnswersReceived ==
    \A w \in Workers :
        run[w].stage = "record" /\ run[w].ok => HeadOf(w).id \in received

ListingsPast ==
    \A w \in Workers : \A b \in run[w].batch :
        row[b.id].status # "none" /\ b.attempts <= row[b.id].attempts

DeliveryInv ==
    /\ TypeOK
    /\ AnswersReceived
    /\ ListingsPast
    /\ DeliveredWasReceived
    /\ BackoffBounded

LEMMA InitDeliveryInv == Init => DeliveryInv
<1> SUFFICES ASSUME Init PROVE DeliveryInv
  OBVIOUS
<1>1. \A d \in Deliveries : /\ row[d].status = "none" /\ row[d].attempts = 0
                            /\ row[d].dueIn = 0 /\ ~ row[d].deliveredAt
  BY DEF Init, NewRow
<1>2. \A w \in Workers : run[w].stage = "idle" /\ run[w].batch = {}
  BY DEF Init, Idle
<1>3. QED
  BY InitType, <1>1, <1>2
     DEF DeliveryInv, AnswersReceived, ListingsPast, DeliveredWasReceived, BackoffBounded

LEMMA DelayGrows ==
  ASSUME NEW n \in Attempts, NEW m \in Attempts, n <= m, NEW age \in Nat
  PROVE  /\ OneMore(m) # 0
         /\ Less(retryDelay(n + 1), age) <= retryDelay(OneMore(m))
<1>1. /\ FirstRetry \in Nat /\ SecondRetry \in Nat /\ LaterRetry \in Nat
      /\ FirstRetry <= SecondRetry /\ SecondRetry <= LaterRetry
  BY DelayAssumption
<1>2. retryDelay(n + 1) \in Nat /\ retryDelay(n + 1) <= retryDelay(OneMore(m))
  BY <1>1 DEF retryDelay, OneMore, Attempts, MaxAttempts
<1>3. OneMore(m) # 0 /\ retryDelay(OneMore(m)) \in Nat
  BY <1>1 DEF OneMore, Attempts, MaxAttempts, retryDelay
<1>4. QED
  BY <1>2, <1>3 DEF Less

(* A run that does not move keeps what it knew of its first row.           *)
LEMMA OtherRun ==
  ASSUME NEW v \in Workers, run'[v] = run[v]
  PROVE  HeadOf(v)' = HeadOf(v)
  BY DEF HeadOf

LEMMA SameBatch ==
  ASSUME NEW v \in Workers, run'[v].batch = run[v].batch
  PROVE  HeadOf(v)' = HeadOf(v)
  BY DEF HeadOf

LEMMA StepDeliveryInv == DeliveryInv /\ [Next]_vars => DeliveryInv'
<1> SUFFICES ASSUME DeliveryInv, [Next]_vars PROVE DeliveryInv'
  OBVIOUS
<1>type. TypeOK /\ TypeOK'
  BY StepType DEF DeliveryInv
<1>rows. UNCHANGED row /\ received \subseteq received'
         => DeliveredWasReceived' /\ BackoffBounded'
  BY DEF DeliveryInv, DeliveredWasReceived, BackoffBounded
<1>1. CASE Tick
  <2>1. AnswersReceived'
    BY <1>1, <1>type, TickStep, SameBatch DEF DeliveryInv, AnswersReceived, Tick
  <2>2. ListingsPast'
    <3>1. \A w \in Workers : \A b \in run[w].batch : b.id \in Deliveries
      BY <1>type, TypeFacts DEF RunState, Listed
    <3>2. QED
      BY <1>1, <1>type, <3>1, TickStep DEF DeliveryInv, ListingsPast
  <2>3. DeliveredWasReceived'
    BY <1>1, <1>type, TickStep DEF DeliveryInv, DeliveredWasReceived, Tick
  <2>4. BackoffBounded'
    <3> SUFFICES ASSUME NEW d \in Deliveries
                 PROVE  IF row'[d].attempts = 0 THEN row'[d].dueIn = 0
                        ELSE row'[d].dueIn <= retryDelay(row'[d].attempts)
      BY DEF BackoffBounded
    <3>1. /\ row'[d].attempts = row[d].attempts
          /\ row'[d].dueIn = Less(row[d].dueIn, 1)
      BY <1>1, <1>type, TickStep
    <3>2. row[d].dueIn \in Nat /\ retryDelay(row[d].attempts) \in Nat
      BY <1>type, TypeFacts, DelayAssumption DEF Row, retryDelay, Attempts, MaxAttempts
    <3>3. Less(row[d].dueIn, 1) <= row[d].dueIn /\ Less(row[d].dueIn, 1) \in Nat
      BY <3>2 DEF Less
    <3>4. IF row[d].attempts = 0 THEN row[d].dueIn = 0
          ELSE row[d].dueIn <= retryDelay(row[d].attempts)
      BY DEF DeliveryInv, BackoffBounded
    <3>5. QED
      BY <3>1, <3>2, <3>3, <3>4
  <2>5. QED
    BY <1>type, <2>1, <2>2, <2>3, <2>4 DEF DeliveryInv
<1>2. ASSUME NEW d \in Deliveries, NEW o \in Orgs, EnqueueClaimEvent(d, o)
      PROVE  DeliveryInv'
  <2>1. AnswersReceived'
    BY <1>2, OtherRun DEF DeliveryInv, AnswersReceived, EnqueueClaimEvent
  <2>2. ListingsPast'
    <3>1. \A w \in Workers : \A b \in run[w].batch : b.id \in Deliveries /\ b.id # d
      <4>1. SUFFICES ASSUME NEW w \in Workers, NEW b \in run[w].batch
                     PROVE  b.id \in Deliveries /\ b.id # d
        OBVIOUS
      <4>2. b \in Listed
        BY <1>type, TypeFacts DEF RunState
      <4>3. b.id \in Deliveries
        BY <4>2 DEF Listed
      <4>4. b.id # d
        BY <1>2 DEF DeliveryInv, ListingsPast, EnqueueClaimEvent
      <4>5. QED
        BY <4>3, <4>4
    <3>2. QED
      BY <1>2, <1>type, <3>1, EnqueueStep DEF DeliveryInv, ListingsPast, EnqueueClaimEvent
  <2>3. DeliveredWasReceived' /\ BackoffBounded'
    BY <1>2, <1>type, EnqueueStep
       DEF DeliveryInv, DeliveredWasReceived, BackoffBounded, EnqueueClaimEvent
  <2>4. QED
    BY <1>type, <2>1, <2>2, <2>3 DEF DeliveryInv
<1>3. ASSUME UNCHANGED <<row, run, received>>
      PROVE  DeliveryInv'
  <2>1. AnswersReceived' /\ ListingsPast'
    BY <1>3, OtherRun DEF DeliveryInv, AnswersReceived, ListingsPast
  <2>2. QED
    BY <1>3, <1>type, <1>rows, <2>1 DEF DeliveryInv
<1>4. ASSUME NEW w \in Workers, ListPendingDeliveries(w)
      PROVE  DeliveryInv'
  <2> DEFINE due == Oldest({d \in Deliveries : IsDue(d)})
  <2>1. /\ due \subseteq Deliveries /\ \A d \in due : row[d].status = "pending"
        /\ run'[w].stage = "send"
        /\ run'[w].batch = {[id |-> d, attempts |-> row[d].attempts] : d \in due}
        /\ \A v \in Workers : v # w => run'[v] = run[v]
    BY <1>4, <1>type, ListStep
  <2> HIDE DEF due
  <2>2. UNCHANGED <<row, received>>
    BY <1>4 DEF ListPendingDeliveries
  <2>3. AnswersReceived'
    BY <2>1, <2>2, OtherRun DEF DeliveryInv, AnswersReceived
  <2>4. \A b \in run'[w].batch : row[b.id].status # "none" /\ b.attempts <= row[b.id].attempts
    <3>1. \A d \in due : row[d].attempts \in Nat
      BY <1>type, <2>1, TypeFacts DEF Row, Attempts
    <3>2. QED
      BY <2>1, <3>1
  <2>5. ListingsPast'
    BY <2>1, <2>2, <2>4 DEF DeliveryInv, ListingsPast
  <2>6. QED
    BY <1>type, <1>rows, <2>2, <2>3, <2>5 DEF DeliveryInv
<1>5. ASSUME NEW w \in Workers, NEW arrives \in BOOLEAN, NEW ok \in BOOLEAN,
             Send(w, arrives, ok)
      PROVE  DeliveryInv'
  <2>1. /\ run'[w].batch = run[w].batch /\ (run'[w].ok <=> ok)
        /\ \A v \in Workers : v # w => run'[v] = run[v]
    BY <1>5, <1>type, SendStep
  <2>2. /\ UNCHANGED row /\ received \subseteq received'
        /\ ok => HeadOf(w).id \in received'
    BY <1>5 DEF Send
  <2>3. \A v \in Workers : HeadOf(v)' = HeadOf(v)
    BY <2>1, SameBatch
  <2>4. AnswersReceived'
    <3> SUFFICES ASSUME NEW v \in Workers, run'[v].stage = "record", run'[v].ok
                 PROVE  (HeadOf(v)').id \in received'
      BY DEF AnswersReceived
    <3>1. CASE v = w
      BY <2>1, <2>2, <2>3, <3>1
    <3>2. CASE v # w
      BY <2>1, <2>2, <2>3, <3>2 DEF DeliveryInv, AnswersReceived
    <3>3. QED
      BY <3>1, <3>2
  <2>5. ListingsPast'
    BY <2>1, <2>2 DEF DeliveryInv, ListingsPast
  <2>6. QED
    BY <1>type, <1>rows, <2>2, <2>4, <2>5 DEF DeliveryInv
<1>6. ASSUME NEW w \in Workers, RecordDeliveryAttempt(w)
      PROVE  DeliveryInv'
  <2>0. PICK b \in Listed : b = HeadOf(w)
    BY <1>6, <1>type, HeadListed DEF RecordDeliveryAttempt
  <2>r. row[b.id] \in Row /\ run[w].age \in Nat /\ b.attempts \in Attempts
    BY <1>6, <1>type, <2>0, RecordStep DEF Listed
  <2>p. PICK r \in Row : r = row[b.id]
    BY <2>r
  <2>a. PICK again \in Row : again = RetryRow(r, b.attempts, run[w].age)
    BY <2>r, RecordedRows
  <2>1. /\ b \in run[w].batch
        /\ row'[b.id] = IF run[w].ok THEN DeliveredRow(r) ELSE again
        /\ \A d \in Deliveries : d # b.id => row'[d] = row[d]
        /\ \A v \in Workers : v # w => run'[v] = run[v]
        /\ run'[w].stage # "record"
        /\ run'[w].batch \subseteq run[w].batch
    BY <1>6, <1>type, <2>0, <2>p, <2>a, RecordStep
  <2>2. b.id \in Deliveries /\ b.attempts \in Attempts
    BY DEF Listed
  <2>3. /\ DeliveredRow(r).status = "delivered" /\ DeliveredRow(r).dueIn = 0
        /\ DeliveredRow(r).attempts = OneMore(r.attempts)
        /\ again.status = "pending" /\ again.attempts = OneMore(r.attempts)
        /\ again.dueIn = Less(retryDelay(b.attempts + 1), run[w].age)
        /\ again.deliveredAt = r.deliveredAt
    BY <2>r, <2>a, RecordedRows
  <2>4. UNCHANGED received
    BY <1>6 DEF RecordDeliveryAttempt
  <2>5. b.attempts <= r.attempts /\ r.attempts \in Attempts
    BY <2>1, <2>p DEF DeliveryInv, ListingsPast, Row
  <2>6. AnswersReceived'
    BY <2>1, <2>4, OtherRun DEF DeliveryInv, AnswersReceived
  <2>7. ListingsPast'
    <3>1. row'[b.id].status # "none" /\ row'[b.id].attempts = OneMore(r.attempts)
      BY <2>1, <2>3
    <3>2. \A v \in Workers : \A x \in run'[v].batch :
             /\ x \in Listed /\ x.id \in Deliveries /\ x.attempts \in Attempts
             /\ row[x.id].status # "none" /\ x.attempts <= row[x.id].attempts
      BY <1>type, <2>1, TypeFacts DEF DeliveryInv, ListingsPast, RunState, Listed
    <3>3. r.attempts <= OneMore(r.attempts)
      BY <2>5 DEF OneMore, Attempts, MaxAttempts
    <3>4. OneMore(r.attempts) \in Nat /\ r.attempts \in Nat
      BY <2>5 DEF OneMore, Attempts, MaxAttempts
    <3>5. \A x \in Listed : x.id = b.id /\ x.attempts <= r.attempts
                            => x.attempts <= OneMore(r.attempts)
      BY <3>3, <3>4 DEF Listed, Attempts
    <3>6. QED
      BY <2>1, <2>p, <3>1, <3>2, <3>5 DEF ListingsPast
  <2>8. DeliveredWasReceived'
    <3>1. run[w].ok => b.id \in received
      BY <1>6, <2>0 DEF RecordDeliveryAttempt, DeliveryInv, AnswersReceived
    <3>2. ~ run[w].ok => row'[b.id].status = "pending" /\ row'[b.id].deliveredAt = r.deliveredAt
      BY <2>1, <2>3
    <3>3. QED
      BY <2>1, <2>2, <2>4, <2>p, <3>1, <3>2 DEF DeliveryInv, DeliveredWasReceived
  <2>9. BackoffBounded'
    <3>1. OneMore(r.attempts) # 0 /\ again.dueIn <= retryDelay(OneMore(r.attempts))
      BY <2>r, <2>1, <2>2, <2>3, <2>5, DelayGrows
    <3>2. retryDelay(OneMore(r.attempts)) \in Nat
      BY <2>5, DelayAssumption DEF retryDelay, OneMore, Attempts, MaxAttempts
    <3>3. /\ row'[b.id].attempts = OneMore(r.attempts)
          /\ row'[b.id].dueIn <= retryDelay(OneMore(r.attempts))
      BY <2>1, <2>3, <3>1, <3>2
    <3>4. QED
      BY <2>1, <3>1, <3>3 DEF DeliveryInv, BackoffBounded
  <2>10. QED
    BY <1>type, <2>6, <2>7, <2>8, <2>9 DEF DeliveryInv
<1>7. ASSUME NEW w \in Workers, CutOff(w)
      PROVE  DeliveryInv'
  <2>1. /\ run'[w].stage = "idle" /\ run'[w].batch = {}
        /\ \A v \in Workers : v # w => run'[v] = run[v]
        /\ UNCHANGED <<row, received>>
    BY <1>7, <1>type, CutOffStep DEF CutOff
  <2>2. AnswersReceived' /\ ListingsPast'
    BY <2>1, OtherRun DEF DeliveryInv, AnswersReceived, ListingsPast
  <2>3. QED
    BY <1>type, <1>rows, <2>1, <2>2 DEF DeliveryInv
<1>8. QED
  BY <1>1, <1>2, <1>3, <1>4, <1>5, <1>6, <1>7 DEF Next, ConfigureEndpoint, vars

LEMMA DeliveryInvariant == Spec => []DeliveryInv
  BY InitDeliveryInv, StepDeliveryInv, PTL DEF Spec

(* However runs overlap or are cut off, no row is marked delivered that no *)
(* endpoint has received.                                                  *)
THEOREM NeverMarkedOnHope == Spec => []DeliveredWasReceived
<1>1. DeliveryInv => DeliveredWasReceived
  BY DEF DeliveryInv
<1>2. QED
  BY <1>1, DeliveryInvariant, PTL

(* However runs overlap, a retry is due within the delay its row's own     *)
(* attempts call for.                                                      *)
THEOREM RetriesInTime == Spec => []BackoffBounded
<1>1. DeliveryInv => BackoffBounded
  BY DEF DeliveryInv
<1>2. QED
  BY <1>1, DeliveryInvariant, PTL

(***************************************************************************)
(* One run at a time.  Nobody but the run itself moves the rows it has     *)
(* listed, so they stay pending and due until it records them, and as it   *)
(* lists a row once, no record finds a row already delivered.              *)
(***************************************************************************)
OneRun == \A v, w \in Workers : v = w

ListedDue ==
    \A w \in Workers : \A b \in run[w].batch :
        row[b.id].status = "pending" /\ row[b.id].dueIn = 0

ListedOnce ==
    \A w \in Workers : \A x, y \in run[w].batch : x.id = y.id => x = y

SerialInv ==
    /\ TypeOK
    /\ ListedDue
    /\ ListedOnce
    /\ SuccessesStayMarked

LEMMA InitSerialInv == Init => SerialInv
<1> SUFFICES ASSUME Init PROVE SerialInv
  OBVIOUS
<1>1. \A d \in Deliveries : ~ row[d].deliveredAt
  BY DEF Init, NewRow
<1>2. \A w \in Workers : run[w].batch = {}
  BY DEF Init, Idle
<1>3. QED
  BY InitType, <1>1, <1>2 DEF SerialInv, ListedDue, ListedOnce, SuccessesStayMarked

LEMMA StepSerialInv ==
  ASSUME OneRun, SerialInv, [Next]_vars
  PROVE  SerialInv'
<1>type. TypeOK /\ TypeOK'
  BY StepType DEF SerialInv
<1>listed. \A w \in Workers : \A b \in run[w].batch : b \in Listed /\ b.id \in Deliveries
  BY <1>type, TypeFacts DEF RunState, Listed
<1>1. CASE Tick
  <2>1. /\ \A d \in Deliveries : /\ row'[d].status = row[d].status
                                 /\ row'[d].deliveredAt = row[d].deliveredAt
                                 /\ row'[d].dueIn = Less(row[d].dueIn, 1)
        /\ \A w \in Workers : run'[w].batch = run[w].batch
    BY <1>1, <1>type, TickStep
  <2>2. Less(0, 1) = 0
    BY DEF Less
  <2>3. QED
    BY <1>type, <1>listed, <2>1, <2>2
       DEF SerialInv, ListedDue, ListedOnce, SuccessesStayMarked
<1>2. ASSUME NEW d \in Deliveries, NEW o \in Orgs, EnqueueClaimEvent(d, o)
      PROVE  SerialInv'
  <2>1. /\ run' = run /\ row[d].status = "none"
        /\ ~ row'[d].deliveredAt
        /\ \A e \in Deliveries : e # d => row'[e] = row[e]
    BY <1>2, <1>type, EnqueueStep DEF EnqueueClaimEvent
  <2>2. QED
    BY <1>type, <1>listed, <2>1 DEF SerialInv, ListedDue, ListedOnce, SuccessesStayMarked
<1>3. ASSUME UNCHANGED <<row, run>>
      PROVE  SerialInv'
  BY <1>3, <1>type DEF SerialInv, ListedDue, ListedOnce, SuccessesStayMarked
<1>4. ASSUME NEW w \in Workers, ListPendingDeliveries(w)
      PROVE  SerialInv'
  <2> DEFINE due == Oldest({d \in Deliveries : IsDue(d)})
  <2>1. /\ \A d \in due : row[d].status = "pending" /\ row[d].dueIn = 0
        /\ run'[w].batch = {[id |-> d, attempts |-> row[d].attempts] : d \in due}
        /\ \A v \in Workers : v # w => run'[v] = run[v]
    BY <1>4, <1>type, ListStep
  <2> HIDE DEF due
  <2>2. row' = row
    BY <1>4 DEF ListPendingDeliveries
  <2>3. /\ \A b \in run'[w].batch : row[b.id].status = "pending" /\ row[b.id].dueIn = 0
        /\ \A x, y \in run'[w].batch : x.id = y.id => x = y
    BY <2>1
  <2>4. QED
    BY <1>type, <2>1, <2>2, <2>3 DEF SerialInv, ListedDue, ListedOnce, SuccessesStayMarked
<1>5. ASSUME NEW w \in Workers, NEW arrives \in BOOLEAN, NEW ok \in BOOLEAN,
             Send(w, arrives, ok)
      PROVE  SerialInv'
  <2>1. row' = row /\ \A v \in Workers : run'[v].batch = run[v].batch
    BY <1>5, <1>type, SendStep DEF Send
  <2>2. QED
    BY <1>type, <2>1 DEF SerialInv, ListedDue, ListedOnce, SuccessesStayMarked
<1>6. ASSUME NEW w \in Workers, RecordDeliveryAttempt(w)
      PROVE  SerialInv'
  <2>0. PICK b \in Listed : b = HeadOf(w)
    BY <1>6, <1>type, HeadListed DEF RecordDeliveryAttempt
  <2>r. row[b.id] \in Row /\ run[w].age \in Nat /\ b.attempts \in Attempts
    BY <1>6, <1>type, <2>0, RecordStep DEF Listed
  <2>p. PICK r \in Row : r = row[b.id]
    BY <2>r
  <2>1. /\ b \in run[w].batch
        /\ row'[b.id] = IF run[w].ok THEN DeliveredRow(r)
                        ELSE RetryRow(r, b.attempts, run[w].age)
        /\ \A d \in Deliveries : d # b.id => row'[d] = row[d]
        /\ run'[w].batch \subseteq run[w].batch \ {b}
    BY <1>6, <1>type, <2>0, <2>p, RecordStep
  <2>2. /\ DeliveredRow(r).status = "delivered"
        /\ RetryRow(r, b.attempts, run[w].age).deliveredAt = r.deliveredAt
    BY <2>r, RecordedRows
  <2>3. ~ r.deliveredAt
    BY <1>listed, <2>p, <2>1 DEF SerialInv, ListedDue, SuccessesStayMarked
  <2>4. row'[b.id].deliveredAt => row'[b.id].status = "delivered"
    BY <2>1, <2>2, <2>3
  <2>5. \A x \in run'[w].batch : x \in run[w].batch /\ x.id # b.id /\ row'[x.id] = row[x.id]
    BY <1>listed, <2>1 DEF SerialInv, ListedOnce
  <2>6. \A v \in Workers : v = w
    BY DEF OneRun
  <2>7. ListedDue' /\ ListedOnce'
    BY <2>5, <2>6 DEF SerialInv, ListedDue, ListedOnce
  <2>8. SuccessesStayMarked'
    BY <2>1, <2>4 DEF SerialInv, SuccessesStayMarked
  <2>9. QED
    BY <1>type, <2>7, <2>8 DEF SerialInv
<1>7. ASSUME NEW w \in Workers, CutOff(w)
      PROVE  SerialInv'
  <2>1. /\ run'[w].batch = {} /\ row' = row
        /\ \A v \in Workers : v # w => run'[v] = run[v]
    BY <1>7, <1>type, CutOffStep DEF CutOff
  <2>2. QED
    BY <1>type, <2>1 DEF SerialInv, ListedDue, ListedOnce, SuccessesStayMarked
<1>8. QED
  BY <1>1, <1>2, <1>3, <1>4, <1>5, <1>6, <1>7 DEF Next, ConfigureEndpoint, vars

(* When runs never overlap, a recorded success stays recorded.             *)
THEOREM SerialSuccessesStay == ASSUME OneRun PROVE Spec => []SuccessesStayMarked
<1>1. SerialInv /\ [Next]_vars => SerialInv'
  BY StepSerialInv
<1>2. SerialInv => SuccessesStayMarked
  BY DEF SerialInv
<1>3. QED
  BY InitSerialInv, <1>1, <1>2, PTL DEF Spec

(* When runs never overlap, a request goes out only for a row that is      *)
(* pending and due.                                                        *)
THEOREM SerialSendsDue == ASSUME OneRun PROVE Spec => SendsOnlyDue
<1>1. SerialInv /\ [Next]_vars => SerialInv'
  BY StepSerialInv
<1> DEFINE Sound == \A w \in Workers :
                       run[w].stage = "send" /\ run'[w].stage = "record"
                       => LET d == HeadOf(w).id IN row[d].status = "pending" /\ row[d].dueIn = 0
<1>2. SerialInv => Sound
  <2> SUFFICES ASSUME SerialInv, NEW w \in Workers, run[w].stage = "send"
               PROVE  row[HeadOf(w).id].status = "pending" /\ row[HeadOf(w).id].dueIn = 0
    OBVIOUS
  <2>1. HeadOf(w) \in run[w].batch
    BY HeadListed DEF SerialInv
  <2>2. QED
    BY <2>1 DEF SerialInv, ListedDue
<1>3. SerialInv => [Sound]_vars
  BY <1>2
<1>4. QED
  BY InitSerialInv, <1>1, <1>3, PTL DEF Spec, SendsOnlyDue

(***************************************************************************)
(* The contract of the outbox.  What is listed belongs to an organization  *)
(* with an endpoint, for no step takes an endpoint away or gives a row to  *)
(* another organization; a row that does not exist has no attempts; and    *)
(* when runs never overlap a row has exactly the attempts that were listed.*)
(***************************************************************************)
ListedReachable ==
    \A w \in Workers : \A b \in run[w].batch : row[b.id].org \in endpoints

NoneUntried == \A d \in Deliveries : row[d].status = "none" => row[d].attempts = 0

ListedExactly ==
    \A w \in Workers : \A b \in run[w].batch : b.attempts = row[b.id].attempts

ContractInv ==
    /\ DeliveryInv
    /\ ListedReachable
    /\ NoneUntried
    /\ OneRun => SerialInv /\ ListedExactly

LEMMA InitContractInv == Init => ContractInv
<1> SUFFICES ASSUME Init PROVE ContractInv
  OBVIOUS
<1>1. \A d \in Deliveries : row[d].attempts = 0
  BY DEF Init, NewRow
<1>2. \A w \in Workers : run[w].batch = {}
  BY DEF Init, Idle
<1>3. QED
  BY <1>1, <1>2, InitDeliveryInv, InitSerialInv
     DEF ContractInv, ListedReachable, NoneUntried, ListedExactly

(* What a record keeps of its row, whichever way it goes.                  *)
LEMMA RecordedOrg ==
  ASSUME NEW r \in Row, NEW attempts \in Attempts, NEW age \in Nat
  PROVE  DeliveredRow(r).org = r.org /\ RetryRow(r, attempts, age).org = r.org
  BY DEF DeliveredRow, RetryRow, Row

LEMMA TickOrg ==
  ASSUME TypeOK, Tick, NEW d \in Deliveries
  PROVE  row'[d].org = row[d].org
<1>1. row[d] \in Row
  BY TypeFacts
<1>2. row'[d] = [row[d] EXCEPT !.dueIn = Less(@, 1)]
  BY DEF Tick
<1>3. QED
  BY <1>1, <1>2 DEF Row

(* A row that exists goes on existing, for the same organization, and no   *)
(* endpoint is taken away.                                                 *)
LEMMA OrgsStay ==
  ASSUME DeliveryInv, [Next]_vars
  PROVE  /\ endpoints \subseteq endpoints'
         /\ \A d \in Deliveries : row[d].status # "none"
               => row'[d].status # "none" /\ row'[d].org = row[d].org
<1>type. TypeOK
  BY DEF DeliveryInv
<1>1. CASE Tick
  BY <1>1, <1>type, TickStep, TickOrg DEF Tick
<1>2. ASSUME NEW d \in Deliveries, NEW o \in Orgs, EnqueueClaimEvent(d, o)
      PROVE  /\ endpoints \subseteq endpoints'
             /\ \A e \in Deliveries : row[e].status # "none"
                   => row'[e].status # "none" /\ row'[e].org = row[e].org
  BY <1>2, <1>type, EnqueueStep DEF EnqueueClaimEvent
<1>3. CASE row' = row /\ endpoints \subseteq endpoints'
  BY <1>3
<1>4. ASSUME NEW w \in Workers, RecordDeliveryAttempt(w)
      PROVE  /\ endpoints \subseteq endpoints'
             /\ \A e \in Deliveries : row[e].status # "none"
                   => row'[e].status # "none" /\ row'[e].org = row[e].org
  <2>0. PICK b \in Listed : b = HeadOf(w)
    BY <1>4, <1>type, HeadListed DEF RecordDeliveryAttempt
  <2>1. /\ row[b.id] \in Row /\ run[w].age \in Nat /\ b.attempts \in Attempts
        /\ row'[b.id] = IF run[w].ok THEN DeliveredRow(row[b.id])
                        ELSE RetryRow(row[b.id], b.attempts, run[w].age)
        /\ \A e \in Deliveries : e # b.id => row'[e] = row[e]
    BY <1>4, <1>type, <2>0, RecordStep DEF Listed
  <2>2. row'[b.id].status # "none" /\ row'[b.id].org = row[b.id].org
    BY <2>1, RecordedRows, RecordedOrg
  <2>3. endpoints' = endpoints
    BY <1>4 DEF RecordDeliveryAttempt
  <2>4. QED
    BY <2>1, <2>2, <2>3
<1>5. QED
  BY <1>1, <1>2, <1>3, <1>4
     DEF Next, ConfigureEndpoint, ListPendingDeliveries, Send, CutOff, vars
(* What a run has listed it had listed before, or it lists it now.         *)
LEMMA BatchOrigin ==
  ASSUME TypeOK, [Next]_vars, NEW w \in Workers, NEW b \in run'[w].batch
  PROVE  \/ b \in run[w].batch
         \/ /\ UNCHANGED <<row, endpoints>>
            /\ b \in Listed /\ IsDue(b.id) /\ b.attempts = row[b.id].attempts
<1>1. CASE Tick
  BY <1>1, TickStep
<1>2. CASE run' = run
  BY <1>2
<1>3. ASSUME NEW v \in Workers, ListPendingDeliveries(v)
      PROVE  \/ b \in run[w].batch
             \/ /\ UNCHANGED <<row, endpoints>>
                /\ b \in Listed /\ IsDue(b.id) /\ b.attempts = row[b.id].attempts
  <2> DEFINE due == Oldest({d \in Deliveries : IsDue(d)})
  <2>1. /\ run'[v].batch = {[id |-> d, attempts |-> row[d].attempts] : d \in due}
        /\ \A u \in Workers : u # v => run'[u] = run[u]
        /\ run' \in [Workers -> RunState]
    BY <1>3, ListStep
  <2>2. \A d \in due : d \in Deliveries /\ IsDue(d)
    BY DEF Oldest
  <2> HIDE DEF due
  <2>3. UNCHANGED <<row, endpoints>>
    BY <1>3 DEF ListPendingDeliveries
  <2>4. b \in Listed
    BY <2>1 DEF RunState
  <2>5. CASE w = v
    <3>1. PICK d \in due : b = [id |-> d, attempts |-> row[d].attempts]
      BY <2>1, <2>5
    <3>2. b.id = d /\ b.attempts = row[d].attempts
      BY <3>1
    <3>3. QED
      BY <2>2, <2>3, <2>4, <3>2
  <2>6. CASE w # v
    BY <2>1, <2>6
  <2>7. QED
    BY <2>5, <2>6
<1>4. ASSUME NEW v \in Workers, NEW arrives \in BOOLEAN, NEW ok \in BOOLEAN,
             Send(v, arrives, ok)
      PROVE  b \in run[w].batch
  BY <1>4, SendStep
<1>5. ASSUME NEW v \in Workers, RecordDeliveryAttempt(v)
      PROVE  b \in run[w].batch
  BY <1>5, RecordStep
<1>6. ASSUME NEW v \in Workers, CutOff(v)
      PROVE  b \in run[w].batch
  BY <1>6, CutOffStep
<1>7. QED
  BY <1>1, <1>2, <1>3, <1>4, <1>5, <1>6
     DEF Next, EnqueueClaimEvent, ConfigureEndpoint, vars

LEMMA StepListedReachable ==
  ASSUME DeliveryInv, ListedReachable, [Next]_vars
  PROVE  ListedReachable'
<1> SUFFICES ASSUME NEW w \in Workers, NEW b \in run'[w].batch
             PROVE  row'[b.id].org \in endpoints'
  BY DEF ListedReachable
<1>type. TypeOK
  BY DEF DeliveryInv
<1>1. CASE b \in run[w].batch
  <2>1. b.id \in Deliveries
    BY <1>1, <1>type, TypeFacts DEF RunState, Listed
  <2>2. row[b.id].status # "none" /\ row[b.id].org \in endpoints
    BY <1>1 DEF DeliveryInv, ListingsPast, ListedReachable
  <2>3. QED
    BY <2>1, <2>2, OrgsStay
<1>2. CASE b \notin run[w].batch
  BY <1>2, <1>type, BatchOrigin DEF IsDue
<1>3. QED
  BY <1>1, <1>2

LEMMA StepNoneUntried ==
  ASSUME DeliveryInv, NoneUntried, [Next]_vars
  PROVE  NoneUntried'
<1> SUFFICES ASSUME NEW d \in Deliveries, row'[d].status = "none"
             PROVE  row'[d].attempts = 0
  BY DEF NoneUntried
<1>type. TypeOK
  BY DEF DeliveryInv
<1>none. row[d].status = "none" /\ row[d].attempts = 0
  BY OrgsStay DEF NoneUntried
<1>1. CASE Tick
  BY <1>1, <1>type, <1>none, TickStep
<1>2. ASSUME NEW e \in Deliveries, NEW o \in Orgs, EnqueueClaimEvent(e, o)
      PROVE  row'[d].attempts = 0
  BY <1>2, <1>type, <1>none, EnqueueStep
<1>3. CASE row' = row
  BY <1>3, <1>none
<1>4. ASSUME NEW w \in Workers, RecordDeliveryAttempt(w)
      PROVE  row'[d].attempts = 0
  <2>1. /\ HeadOf(w) \in run[w].batch
        /\ \A e \in Deliveries : e # HeadOf(w).id => row'[e] = row[e]
    BY <1>4, <1>type, RecordStep
  <2>2. HeadOf(w).id # d
    BY <1>none, <2>1 DEF DeliveryInv, ListingsPast
  <2>3. QED
    BY <1>none, <2>1, <2>2
<1>5. QED
  BY <1>1, <1>2, <1>3, <1>4
     DEF Next, ConfigureEndpoint, ListPendingDeliveries, Send, CutOff, vars

LEMMA StepListedExactly ==
  ASSUME OneRun, DeliveryInv, SerialInv, ListedExactly, [Next]_vars
  PROVE  ListedExactly'
<1> SUFFICES ASSUME NEW w \in Workers, NEW b \in run'[w].batch
             PROVE  b.attempts = row'[b.id].attempts
  BY DEF ListedExactly
<1>type. TypeOK
  BY DEF DeliveryInv
<1>1. CASE b \notin run[w].batch
  BY <1>1, <1>type, BatchOrigin
<1>2. CASE b \in run[w].batch
  <2>1. b.id \in Deliveries /\ b.attempts = row[b.id].attempts
    BY <1>2, <1>type, TypeFacts DEF RunState, Listed, ListedExactly
  <2>2. CASE Tick
    BY <1>type, <2>1, <2>2, TickStep
  <2>3. ASSUME NEW e \in Deliveries, NEW o \in Orgs, EnqueueClaimEvent(e, o)
        PROVE  b.attempts = row'[b.id].attempts
    <3>1. b.id # e
      BY <1>2, <2>3 DEF DeliveryInv, ListingsPast, EnqueueClaimEvent
    <3>2. QED
      BY <1>type, <2>1, <2>3, <3>1, EnqueueStep
  <2>4. CASE row' = row
    BY <2>1, <2>4
  <2>5. ASSUME NEW v \in Workers, RecordDeliveryAttempt(v)
        PROVE  b.attempts = row'[b.id].attempts
    <3>1. /\ run'[v].batch \subseteq run[v].batch \ {HeadOf(v)}
          /\ HeadOf(v) \in run[v].batch
          /\ \A d \in Deliveries : d # HeadOf(v).id => row'[d] = row[d]
      BY <1>type, <2>5, RecordStep
    <3>2. v = w
      BY DEF OneRun
    <3>3. b.id # HeadOf(v).id
      BY <1>2, <3>1, <3>2 DEF SerialInv, ListedOnce
    <3>4. QED
      BY <2>1, <3>1, <3>3
  <2>6. QED
    BY <2>2, <2>3, <2>4, <2>5
       DEF Next, ConfigureEndpoint, ListPendingDeliveries, Send, CutOff, vars
<1>3. QED
  BY <1>1, <1>2

LEMMA StepContractInv == ContractInv /\ [Next]_vars => ContractInv'
<1> SUFFICES ASSUME ContractInv, [Next]_vars PROVE ContractInv'
  OBVIOUS
<1>1. DeliveryInv' /\ ListedReachable' /\ NoneUntried'
  BY StepDeliveryInv, StepListedReachable, StepNoneUntried DEF ContractInv
<1>2. OneRun => SerialInv' /\ ListedExactly'
  BY StepSerialInv, StepListedExactly DEF ContractInv
<1>3. OneRun <=> OneRun'
  BY DEF OneRun
<1>4. QED
  BY <1>1, <1>2, <1>3 DEF ContractInv
LEMMA InitKeepsContract == Init => Outbox!Init
<1> SUFFICES ASSUME Init PROVE Outbox!Init
  OBVIOUS
<1>1. \A d \in Deliveries : row[d].status = "none" /\ row[d].attempts = 0 /\ row[d].dueIn = 0
  BY DEF Init, NewRow
<1>2. QED
  BY <1>1 DEF Init, Outbox!Init

(* A listed row may be tried, as the contract has it.                      *)
LEMMA ListedMayTry ==
  ASSUME ContractInv, NEW w \in Workers, NEW b \in run[w].batch
  PROVE  /\ b.id \in Deliveries /\ row[b.id].status # "none"
         /\ Outbox!MayTry(b.id)
<1>1. b.id \in Deliveries /\ row[b.id].status # "none" /\ row[b.id].org \in endpoints
  BY TypeFacts DEF ContractInv, DeliveryInv, ListingsPast, ListedReachable, RunState, Listed
<1>2. OneRun => row[b.id].status = "pending" /\ row[b.id].dueIn = 0
  BY DEF ContractInv, SerialInv, ListedDue
<1>3. QED
  BY <1>1, <1>2 DEF Outbox!MayTry, OneRun

(* A record changes one row, as the contract sees it.                      *)
LEMMA SeenRecord ==
  ASSUME TypeOK, NEW d \in Deliveries, row' \in [Deliveries -> Row],
         row[d].status # "none", row'[d].status # "none", row'[d].org = row[d].org,
         \A e \in Deliveries : e # d => row'[e] = row[e],
         UNCHANGED <<endpoints, received>>,
         row'[d].attempts = OneMore(row[d].attempts)
  PROVE  /\ [e \in Deliveries |-> row'[e].status]
              = [[e \in Deliveries |-> row[e].status] EXCEPT ![d] = row'[d].status]
         /\ [e \in Deliveries |-> row'[e].attempts]
              = [[e \in Deliveries |-> row[e].attempts] EXCEPT ![d] = Outbox!OneMore(@)]
         /\ [e \in Deliveries |-> row'[e].dueIn]
              = [[e \in Deliveries |-> row[e].dueIn] EXCEPT ![d] = row'[d].dueIn]
         /\ {e \in Deliveries : row'[e].status # "none" /\ row'[e].org \in endpoints'}
              = {e \in Deliveries : row[e].status # "none" /\ row[e].org \in endpoints}
<1>1. Outbox!OneMore(row[d].attempts) = OneMore(row[d].attempts)
  BY DEF Outbox!OneMore, OneMore
<1>2. {e \in Deliveries : row'[e].status # "none" /\ row'[e].org \in endpoints'}
        = {e \in Deliveries : row[e].status # "none" /\ row[e].org \in endpoints}
  OBVIOUS
<1>3. QED
  BY <1>1, <1>2

LEMMA StepKeepsContract == ContractInv /\ [Next]_vars => [Outbox!Next]_(Outbox!vars)
<1> SUFFICES ASSUME ContractInv, [Next]_vars PROVE [Outbox!Next]_(Outbox!vars)
  OBVIOUS
<1>type. TypeOK
  BY DEF ContractInv, DeliveryInv
<1>same. UNCHANGED <<row, endpoints, received>> => UNCHANGED Outbox!vars
  BY DEF Outbox!vars
<1>1. CASE Tick
  <2>1. /\ \A d \in Deliveries : /\ row'[d].status = row[d].status
                                 /\ row'[d].attempts = row[d].attempts
                                 /\ row'[d].dueIn = Outbox!Less(row[d].dueIn, 1)
                                 /\ row'[d].org = row[d].org
        /\ UNCHANGED <<endpoints, received>>
    BY <1>1, <1>type, TickStep, TickOrg DEF Tick, Less, Outbox!Less
  <2>2. Outbox!TimePasses
    BY <2>1 DEF Outbox!TimePasses
  <2>3. QED
    BY <2>2 DEF Outbox!Next
<1>2. ASSUME NEW d \in Deliveries, NEW o \in Orgs, EnqueueClaimEvent(d, o)
      PROVE  Outbox!Next
  <2>1. /\ row[d].status = "none" /\ row[d].attempts = 0 /\ row[d].dueIn = 0
        /\ row'[d].status = "pending" /\ row'[d].attempts = 0 /\ row'[d].dueIn = 0
        /\ \A e \in Deliveries : e # d => row'[e] = row[e]
        /\ UNCHANGED <<endpoints, received>>
    BY <1>2, <1>type, EnqueueStep
       DEF EnqueueClaimEvent, ContractInv, NoneUntried, DeliveryInv, BackoffBounded
  <2>2. Outbox!Owe(d)
    BY <2>1 DEF Outbox!Owe
  <2>3. QED
    BY <2>2 DEF Outbox!Next
<1>3. ASSUME NEW o \in Orgs, ConfigureEndpoint(o)
      PROVE  Outbox!Next
  <2>1. Outbox!Connect
    BY <1>3 DEF ConfigureEndpoint, Outbox!Connect
  <2>2. QED
    BY <2>1 DEF Outbox!Next
<1>4. ASSUME NEW w \in Workers, NEW arrives \in BOOLEAN, NEW ok \in BOOLEAN,
             Send(w, arrives, ok)
      PROVE  [Outbox!Next]_(Outbox!vars)
  <2>1. CASE ~ arrives
    BY <1>4, <1>same, <2>1 DEF Send
  <2>2. CASE arrives
    <3>1. PICK b \in run[w].batch : b = HeadOf(w)
      BY <1>4, <1>type, HeadListed DEF Send
    <3>2. b.id \in Deliveries /\ Outbox!MayTry(b.id)
      BY <3>1, ListedMayTry
    <3>3. received' = received \union {b.id} /\ UNCHANGED <<row, endpoints>>
      BY <1>4, <2>2, <3>1 DEF Send
    <3>4. Outbox!Receive(b.id)
      BY <3>2, <3>3 DEF Outbox!Receive
    <3>5. QED
      BY <3>2, <3>4 DEF Outbox!Next
  <2>3. QED
    BY <2>1, <2>2
<1>5. ASSUME NEW w \in Workers, RecordDeliveryAttempt(w)
      PROVE  Outbox!Next
  <2>0. PICK b \in Listed : b = HeadOf(w)
    BY <1>5, <1>type, HeadListed DEF RecordDeliveryAttempt
  <2>1. /\ row[b.id] \in Row /\ run[w].age \in Nat
        /\ b \in run[w].batch /\ b.attempts \in Attempts
        /\ row' \in [Deliveries -> Row]
        /\ row'[b.id] = IF run[w].ok THEN DeliveredRow(row[b.id])
                        ELSE RetryRow(row[b.id], b.attempts, run[w].age)
        /\ \A e \in Deliveries : e # b.id => row'[e] = row[e]
    BY <1>5, <1>type, <2>0, RecordStep DEF Listed
  <2>2. b.id \in Deliveries /\ row[b.id].status # "none" /\ Outbox!MayTry(b.id)
    BY <2>1, ListedMayTry
  <2>3. UNCHANGED <<endpoints, received>>
    BY <1>5 DEF RecordDeliveryAttempt
  <2>4. CASE run[w].ok
    <3>1. row'[b.id] = DeliveredRow(row[b.id])
      BY <2>1, <2>4
    <3>2. /\ row'[b.id].status = "delivered" /\ row'[b.id].dueIn = 0
          /\ row'[b.id].attempts = OneMore(row[b.id].attempts)
          /\ row'[b.id].org = row[b.id].org
      BY <2>1, <3>1, RecordedRows, RecordedOrg
    <3>3. b.id \in received
      BY <1>5, <2>0, <2>4
         DEF RecordDeliveryAttempt, ContractInv, DeliveryInv, AnswersReceived
    <3>4. Outbox!Succeed(b.id)
      BY <1>type, <2>1, <2>2, <2>3, <3>2, <3>3, SeenRecord DEF Outbox!Succeed
    <3>5. QED
      BY <2>2, <3>4 DEF Outbox!Next
  <2>5. CASE ~ run[w].ok
    <3>r. PICK r \in Row : r = row[b.id]
      BY <2>1
    <3>t. PICK age \in Nat : age = run[w].age
      BY <2>1
    <3>a. PICK again \in Row : again = RetryRow(r, b.attempts, age)
      BY <2>1, RecordedRows
    <3>1. row'[b.id] = again
      BY <2>1, <2>5, <3>r, <3>t, <3>a
    <3>2. /\ row'[b.id].status = "pending"
          /\ row'[b.id].dueIn = Less(retryDelay(b.attempts + 1), age)
          /\ row'[b.id].attempts = OneMore(row[b.id].attempts)
      <4>1. b.attempts \in Attempts
        BY <2>1
      <4>2. /\ again.status = "pending" /\ again.attempts = OneMore(r.attempts)
            /\ again.dueIn = Less(retryDelay(b.attempts + 1), age)
        BY <3>a, <4>1, RecordedRows
      <4>3. QED
        BY <3>r, <3>1, <4>2
    <3>3. row'[b.id].org = row[b.id].org
      BY <2>1, <3>r, <3>a, <3>1, RecordedOrg
    <3>4. /\ Outbox!OneMore(b.attempts) \in 1 .. MaxAttempts
          /\ retryDelay(Outbox!OneMore(b.attempts)) = retryDelay(b.attempts + 1)
      BY <2>1 DEF Attempts, MaxAttempts, Outbox!OneMore, retryDelay
    <3>5. row'[b.id].dueIn
            = Outbox!Less([n \in 1 .. MaxAttempts |-> retryDelay(n)][Outbox!OneMore(b.attempts)], age)
      BY <3>2, <3>4 DEF Less, Outbox!Less
    <3>6. /\ b.attempts \in 0 .. row[b.id].attempts
          /\ OneRun => b.attempts = row[b.id].attempts
      BY <2>1 DEF ContractInv, DeliveryInv, ListingsPast, ListedExactly, Row, Attempts
    <3>7. age \in 0 .. RunTimeout
      BY <1>type, <3>t, TypeFacts DEF RunState, Ages
    <3>8. Outbox!PutOff(b.id, b.attempts, age)
      BY <1>type, <2>1, <2>2, <2>3, <3>2, <3>3, <3>5, <3>6, SeenRecord
         DEF Outbox!PutOff, OneRun
    <3>9. QED
      BY <2>2, <3>6, <3>7, <3>8 DEF Outbox!Next
  <2>6. QED
    BY <2>4, <2>5
<1>6. CASE UNCHANGED <<row, endpoints, received>>
  BY <1>6, <1>same
<1>7. QED
  BY <1>1, <1>2, <1>3, <1>4, <1>5, <1>6
     DEF Next, ListPendingDeliveries, CutOff, vars

(* Whatever runs overlap or are cut off, what they do to the outbox is     *)
(* what its contract allows: strictly, when they never overlap.            *)
THEOREM RunsKeepContract == Spec => KeepsContract
<1>1. ContractInv /\ [Next]_vars => ContractInv' /\ [Outbox!Next]_(Outbox!vars)
  BY StepContractInv, StepKeepsContract
<1>2. QED
  BY InitContractInv, InitKeepsContract, <1>1, PTL DEF Spec, KeepsContract, Outbox!Spec

(***************************************************************************)
(* The batch of a run: ORDER BY created_at LIMIT.                          *)
(***************************************************************************)
LEMMA LeastOf ==
  ASSUME NEW T \in SUBSET Nat, T # {}
  PROVE  \E m \in T : \A n \in T : m <= n
<1>1. PICK m \in T : \A n \in T : ~ (<<n, m>> \in OpToRel(<, Nat))
  BY NatLessThanWellFounded, WFMin, Zenon
<1>2. \A n \in T : n \in Nat /\ m \in Nat
  OBVIOUS
<1>3. \A n \in T : ~ (n < m)
  BY <1>1, <1>2, Zenon DEF OpToRel
<1>4. QED
  BY <1>2, <1>3

Below(D, d) == {e \in D : e < d}
Above(D, d) == {e \in D : e > d}

LEMMA GreatestOf ==
  ASSUME NEW D \in SUBSET Nat, IsFiniteSet(D), D # {}
  PROVE  \E m \in D : \A n \in D : n <= m
<1>1. \A d \in D : IsFiniteSet(Above(D, d)) /\ Cardinality(Above(D, d)) \in Nat
  BY FS_Subset, FS_CardinalityType DEF Above
<1> DEFINE counts == {Cardinality(Above(D, d)) : d \in D}
<1>2. counts \in SUBSET Nat /\ counts # {}
  BY <1>1
<1>3. PICK c \in counts : \A b \in counts : c <= b
  <2> HIDE DEF counts
  <2>1. QED
    BY <1>2, LeastOf
<1>4. PICK m \in D : \A d \in D : Cardinality(Above(D, m)) <= Cardinality(Above(D, d))
  BY <1>3
<1>5. ASSUME NEW n \in D, n > m PROVE FALSE
  <2>0. \A d \in D : d \in Nat
    OBVIOUS
  <2>1. Above(D, n) \in SUBSET Above(D, m) /\ n \in Above(D, m) /\ n \notin Above(D, n)
    <3>1. m \in Nat /\ n \in Nat /\ \A e \in D : e > n => e > m
      BY <1>5, <2>0
    <3>2. ~ (n > n)
      BY <3>1
    <3>3. \A e : e \in Above(D, n) => e \in Above(D, m)
      BY <3>1, Zenon DEF Above
    <3>4. n \in Above(D, m) /\ n \notin Above(D, n)
      BY <1>5, <3>2, Zenon DEF Above
    <3>5. QED
      BY <3>3, <3>4
  <2>2. Cardinality(Above(D, n)) <= Cardinality(Above(D, m))
        /\ Cardinality(Above(D, m)) # Cardinality(Above(D, n))
    BY <1>1, <2>1, FS_Subset
  <2>3. QED
    BY <1>1, <1>4, <2>2
<1>6. QED
  BY <1>5

(* A row is left out only if Limit rows, all of them older, are taken.     *)
LEMMA OldestFirst ==
  ASSUME NEW D \in SUBSET Nat, IsFiniteSet(D)
  PROVE  /\ Oldest(D) \subseteq D
         /\ IsFiniteSet(Oldest(D)) /\ Cardinality(Oldest(D)) <= Limit
         /\ \A d \in D : d \notin Oldest(D) =>
               /\ Cardinality(Oldest(D)) = Limit
               /\ \A e \in Oldest(D) : e < d
<1>1. \A d \in D : /\ Below(D, d) \in SUBSET D
                   /\ IsFiniteSet(Below(D, d)) /\ Cardinality(Below(D, d)) \in Nat
  BY FS_Subset, FS_CardinalityType DEF Below
<1>2. \A d : d \in Oldest(D) <=> d \in D /\ Cardinality(Below(D, d)) < Limit
  BY DEF Oldest, Below
<1>3. Oldest(D) \in SUBSET D /\ IsFiniteSet(Oldest(D)) /\ Cardinality(Oldest(D)) \in Nat
  <2>1. Oldest(D) \in SUBSET D
    BY <1>2
  <2>2. QED
    BY <2>1, FS_Subset, FS_CardinalityType
<1>int. Limit \in Nat /\ Limit > 0 /\ \A d \in D : d \in Nat
  BY LimitAssumption
<1>4. Cardinality(Oldest(D)) <= Limit
  <2>1. CASE Oldest(D) = {}
    BY <1>int, <2>1, FS_EmptySet
  <2>2. CASE Oldest(D) # {}
    <3>1. PICK m \in Oldest(D) : \A n \in Oldest(D) : n <= m
      BY <1>3, <2>2, GreatestOf
    <3>2. m \in D /\ Cardinality(Below(D, m)) < Limit
      BY <1>2, <3>1
    <3>3. Oldest(D) \ {m} \in SUBSET Below(D, m)
      <4>1. \A n \in Oldest(D) : n # m => n \in D /\ n < m
        BY <1>2, <1>int, <3>1, <3>2
      <4>2. QED
        BY <4>1 DEF Below
    <3>4. Cardinality(Oldest(D) \ {m}) = Cardinality(Oldest(D)) - 1
      BY <1>3, <3>1, FS_RemoveElement
    <3>5. Cardinality(Oldest(D) \ {m}) <= Cardinality(Below(D, m))
      BY <1>1, <3>2, <3>3, FS_Subset
    <3>6. QED
      BY <1>1, <1>3, <1>int, <3>2, <3>4, <3>5
  <2>3. QED
    BY <2>1, <2>2
<1>5. \A d, e \in D : e < d => Cardinality(Below(D, e)) <= Cardinality(Below(D, d))
  <2>1. \A d, e \in D : e < d => Below(D, e) \in SUBSET Below(D, d)
    <3>1. \A d, e, x \in D : x < e /\ e < d => x < d
      BY <1>int
    <3>2. QED
      BY <3>1, Zenon DEF Below
  <2>2. QED
    BY <1>1, <2>1, FS_Subset
<1>6. ASSUME NEW d \in D, d \notin Oldest(D)
      PROVE  Cardinality(Oldest(D)) = Limit /\ \A e \in Oldest(D) : e < d
  <2>1. PICK m \in D \ Oldest(D) : \A n \in D \ Oldest(D) : m <= n
    BY <1>6, LeastOf
  <2>m. m \in D /\ m \in Nat /\ ~ (Cardinality(Below(D, m)) < Limit)
    BY <1>2, <1>int, <2>1
  <2>2. ASSUME NEW e \in Oldest(D) PROVE e \in D /\ e < m
    <3>1. e \in D /\ e \in Nat /\ Cardinality(Below(D, e)) < Limit /\ e # m
      BY <1>2, <1>int, <2>1
    <3>2. ~ (m < e)
      <4>1. m < e => Cardinality(Below(D, m)) <= Cardinality(Below(D, e))
        BY <1>5, <2>m, <3>1
      <4>2. QED
        BY <1>1, <1>int, <2>m, <3>1, <4>1
    <3>3. QED
      BY <2>m, <3>1, <3>2
  <2>3. Below(D, m) = Oldest(D)
    <3>1. ASSUME NEW e \in D, e < m PROVE e \in Oldest(D)
      BY <1>int, <2>1, <2>m, <3>1
    <3>2. QED
      BY <2>2, <3>1 DEF Below
  <2>4. Cardinality(Oldest(D)) = Limit
    BY <1>3, <1>4, <1>int, <2>m, <2>3
  <2>5. m <= d
    BY <1>6, <2>1
  <2>6. ASSUME NEW e \in Oldest(D) PROVE e < d
    <3>1. e \in D /\ e < m
      BY <2>2
    <3>2. e \in Nat /\ d \in Nat /\ m \in Nat
      BY <1>int, <1>6, <2>m, <3>1
    <3>3. QED
      BY <2>5, <3>1, <3>2
  <2>7. QED
    BY <2>4, <2>6
<1>7. QED
  BY <1>3, <1>4, <1>6

Ids(batch) == {b.id : b \in batch}

(* A run that starts takes at most Limit rows, all of them due, and leaves *)
(* a due row for another run only if it is full of older ones.             *)
TakesOldest(w) ==
    LET ids == Ids(run'[w].batch) IN
    /\ ids # {} /\ Cardinality(ids) <= Limit
    /\ \A d \in ids : IsDue(d)
    /\ \A d \in Deliveries : IsDue(d) /\ d \notin ids =>
          Cardinality(ids) = Limit /\ \A e \in ids : e < d

LEMMA ListTakesOldest ==
  ASSUME TypeOK, NEW w \in Workers, ListPendingDeliveries(w)
  PROVE  TakesOldest(w)
<1> DEFINE due == {d \in Deliveries : IsDue(d)}
           batch == {[id |-> d, attempts |-> row[d].attempts] : d \in Oldest(due)}
<1>1. run'[w].batch = batch /\ Oldest(due) # {}
  <2>1. run \in [Workers -> RunState]
    BY TypeFacts
  <2> DEFINE new == [Idle EXCEPT !.stage = "send", !.batch = batch]
  <2>2. run' = [run EXCEPT ![w] = new] /\ Oldest(due) # {}
    BY DEF ListPendingDeliveries
  <2>3. new.batch = batch
    BY DEF Idle
  <2> HIDE DEF new
  <2>4. QED
    BY <2>1, <2>2, <2>3
<1>2. Ids(run'[w].batch) = Oldest(due)
  <2> HIDE DEF due
  <2>1. Ids(batch) = {[id |-> d, attempts |-> row[d].attempts].id : d \in Oldest(due)}
    BY Zenon DEF Ids
  <2>2. QED
    BY <1>1, <2>1
<1>3. due \in SUBSET Nat /\ IsFiniteSet(due)
  BY DeliveryAssumption, FS_Subset
<1>4. \A d \in due : d \in Deliveries /\ IsDue(d)
  OBVIOUS
<1>5. \A d \in Deliveries : IsDue(d) => d \in due
  OBVIOUS
<1> HIDE DEF due, batch
<1>6. /\ Oldest(due) \subseteq due /\ Cardinality(Oldest(due)) <= Limit
      /\ \A d \in due : d \notin Oldest(due) =>
            Cardinality(Oldest(due)) = Limit /\ \A e \in Oldest(due) : e < d
  BY <1>3, OldestFirst
<1> DEFINE ids == Oldest(due)
<1>7. ids # {} /\ Cardinality(ids) <= Limit /\ \A d \in ids : IsDue(d)
  BY <1>1, <1>4, <1>6
<1>8. \A d \in Deliveries : IsDue(d) /\ d \notin ids =>
         Cardinality(ids) = Limit /\ \A e \in ids : e < d
  BY <1>5, <1>6
<1> HIDE DEF ids
<1>9. ids = Ids(run'[w].batch)
  BY <1>2 DEF ids
<1>10. QED
  BY <1>7, <1>8, <1>9, Zenon DEF TakesOldest

(* However many runs overlap, one that starts leaves out a row that is due *)
(* only behind a full batch of older rows, and takes at most Limit.  Which *)
(* rows those are it does not choose: hence the starvation that the run    *)
(* webhook_starved finds.                                                  *)
THEOREM RunsTakeOldest ==
  Spec => [][\A w \in Workers : run[w].batch = {} /\ run'[w].batch # {} => TakesOldest(w)]_vars
<1>1. TypeOK /\ [Next]_vars
      => [\A w \in Workers : run[w].batch = {} /\ run'[w].batch # {} => TakesOldest(w)]_vars
  <2> SUFFICES ASSUME TypeOK, Next, NEW w \in Workers, run[w].batch = {}, run'[w].batch # {}
               PROVE  TakesOldest(w)
    OBVIOUS
  <2>1. run \in [Workers -> RunState] /\ run[w].stage = "idle"
    BY TypeFacts
  <2>2. ASSUME NEW v \in Workers, ListPendingDeliveries(v)
        PROVE  TakesOldest(w)
    <3>1. v = w
      BY <2>1, <2>2 DEF ListPendingDeliveries
    <3>2. QED
      BY <2>2, <3>1, ListTakesOldest
  <2>3. ASSUME NEW v \in Workers,
               CutOff(v) \/ RecordDeliveryAttempt(v)
               \/ \E arrives, ok \in BOOLEAN : Send(v, arrives, ok)
        PROVE  FALSE
    <3>1. v # w
      BY <2>1, <2>3, TypeFacts DEF CutOff, RecordDeliveryAttempt, Send, Idle
    <3>2. run'[w] = run[w]
      BY <2>1, <2>3, <3>1 DEF CutOff, RecordDeliveryAttempt, Send
    <3>3. QED
      BY <3>2
  <2>4. CASE Tick
    BY <2>1, <2>4 DEF Tick
  <2>5. QED
    BY <2>2, <2>3, <2>4 DEF Next, EnqueueClaimEvent, ConfigureEndpoint
<1>2. QED
  BY <1>1, TypeCorrect, PTL DEF Spec
=============================================================================
