--------------------------- MODULE Accounts_proofs ---------------------------
(***************************************************************************)
(* Proofs about Accounts, for any number of calls, names, e-mails and      *)
(* types.  Each of its tables is changed by a few steps only.  What a step *)
(* of a call may do to the rows that are there, and what a row that it     *)
(* adds is like, is said once (Effect); the invariants follow from that.   *)
(***************************************************************************)
EXTENDS Accounts, TLAPS

(***************************************************************************)
(* Types.                                                                  *)
(***************************************************************************)
Rows == [id : Calls \union {None}, email : Emails \union {None}, type : Types \union {None}]
LocalStates == [stage : Stages, account : Calls \union {None},
                name : Names \union {None}, type : Types \union {None}]

(* A call past its authentication, and a call that is signing in.          *)
Acting(k) == call[k].stage \in {"lookup", "create", "configure"}
SigningIn(k) == call[k].stage \in {"login", "answer"}

CallShape(k) ==
    /\ Acting(k) \/ SigningIn(k) => call[k].account # None
    /\ Acting(k) => call[k].name # None /\ call[k].type # None

TypeInv == TypeOK /\ \A k \in Calls : CallShape(k)

LEMMA UpsertedRow ==
  ASSUME TypeOK, NEW n \in Names, NEW k \in Calls, NEW t \in Types
  PROVE  /\ Upserted(n, k, t) \in [Names -> Rows]
         /\ Upserted(n, k, t)[n].id = IF Known(n) THEN organizations[n].id ELSE k
         /\ Upserted(n, k, t)[n].email = IF Known(n) THEN organizations[n].email ELSE None
         /\ Upserted(n, k, t)[n].type = t
         /\ \A m \in Names : m # n => Upserted(n, k, t)[m] = organizations[m]
<1>1. organizations \in [Names -> Rows] /\ organizations[n] \in Rows
  BY DEF TypeOK, Rows
<1>2. CASE Known(n)
  <2> DEFINE new == [organizations[n] EXCEPT !.type = t]
  <2>1. new \in Rows /\ new.id = organizations[n].id /\ new.email = organizations[n].email
        /\ new.type = t
    BY <1>1 DEF Rows
  <2>2. Upserted(n, k, t) = [organizations EXCEPT ![n] = new]
    BY <1>2 DEF Upserted
  <2> HIDE DEF new
  <2>3. QED
    BY <1>1, <1>2, <2>1, <2>2
<1>3. CASE ~ Known(n)
  <2> DEFINE new == [NoOrganization EXCEPT !.id = k, !.type = t]
  <2>1. new \in Rows /\ new.id = k /\ new.email = None /\ new.type = t
    BY DEF Rows, NoOrganization
  <2>2. Upserted(n, k, t) = [organizations EXCEPT ![n] = new]
    BY <1>3 DEF Upserted
  <2> HIDE DEF new
  <2>3. QED
    BY <1>1, <1>3, <2>1, <2>2
<1>4. QED
  BY <1>2, <1>3

LEMMA EndedCall ==
  ASSUME TypeOK, NEW k \in Calls, NEW account \in Calls \union {None},
         NEW n \in Names \union {None}, NEW t \in Types \union {None}, Ended(k, account, n, t)
  PROVE  /\ call' \in [Calls -> LocalStates]
         /\ call'[k].stage = "done" /\ call'[k].account = account
         /\ call'[k].name = n /\ call'[k].type = t
         /\ \A j \in Calls : j # k => call'[j] = call[j]
<1>1. call \in [Calls -> LocalStates]
  BY DEF TypeOK, LocalStates
<1> DEFINE new == [stage |-> "done", account |-> account, name |-> n, type |-> t]
<1>2. new \in LocalStates /\ new.stage = "done" /\ new.account = account /\ new.name = n
      /\ new.type = t
  BY DEF LocalStates, Stages
<1>3. call' = [call EXCEPT ![k] = new]
  BY DEF Ended
<1> HIDE DEF new
<1>4. QED
  BY <1>1, <1>2, <1>3

LEMMA MovedCall ==
  ASSUME TypeOK, NEW k \in Calls, NEW stage \in Stages, call' = [call EXCEPT ![k].stage = stage]
  PROVE  /\ call' \in [Calls -> LocalStates]
         /\ call'[k].stage = stage /\ call'[k].account = call[k].account
         /\ call'[k].name = call[k].name /\ call'[k].type = call[k].type
         /\ \A j \in Calls : j # k => call'[j] = call[j]
<1>1. call \in [Calls -> LocalStates] /\ call[k] \in LocalStates
  BY DEF TypeOK, LocalStates
<1> DEFINE new == [call[k] EXCEPT !.stage = stage]
<1>2. new \in LocalStates /\ new.stage = stage /\ new.account = call[k].account
      /\ new.name = call[k].name /\ new.type = call[k].type
  BY <1>1 DEF LocalStates
<1>3. call' = [call EXCEPT ![k] = new]
  OBVIOUS
<1> HIDE DEF new
<1>4. QED
  BY <1>1, <1>2, <1>3

LEMMA LogType ==
  ASSUME NEW event \in Events, NEW account \in Calls, NEW k \in Calls
  PROVE  /\ Log(event, account, k) \in [event : Events, account : Calls, by : Calls]
         /\ Log(event, account, k).event = event /\ Log(event, account, k).by = k
         /\ Log(event, account, k).account = account
  BY DEF Log

(***************************************************************************)
(* The steps, by the call that takes them.  An upsert is the same in each  *)
(* of the four places that make one.                                       *)
(***************************************************************************)
Act(k) ==
    \/ \E e \in Emails : CreateUser(k, e)
    \/ \E a \in Calls, matches \in BOOLEAN : FindCredentials(k, a, matches)
    \/ \E n \in Names, t \in Types :
          \/ \E e \in Emails : RegisterAccount(k, n, e, t)
          \/ IssueAPIKey(k, n, t)
          \/ CreateForUser(k, n, t)
          \/ ConfigureByCommand(k, n, t)
    \/ \E n \in Names, stage \in {"lookup", "configure"} : AuthenticateOrganization(k, n, stage)
    \/ RecordLogin(k) \/ AnswerLogin(k) \/ FindUser(k)
    \/ CreateForOrganization(k) \/ ConfigureOwnEndpoint(k) \/ LoseCall(k)

LEMMA NextIsAct == Next <=> \E k \in Calls : Act(k)
  BY DEF Next, Act

Upserts(k, account, n, t) ==
    \/ IssueAPIKey(k, n, t) /\ account = None
    \/ Create(k, account, n, t)
    \/ ConfigureEndpoint(k, account, n, t)

(* What call k does that upserts an organization or registers one, or      *)
(* neither.                                                                *)
LEMMA ActCases ==
  ASSUME TypeInv, NEW k \in Calls, Act(k)
  PROVE  \/ \E e \in Emails : CreateUser(k, e)
         \/ \E a \in Calls, matches \in BOOLEAN : FindCredentials(k, a, matches)
         \/ \E n \in Names, e \in Emails, t \in Types : RegisterAccount(k, n, e, t)
         \/ \E n \in Names, t \in Types : call[k].stage = "idle" /\ Upserts(k, None, n, t)
         \/ /\ call[k].stage \in {"create", "configure"}
            /\ call[k].account \in Calls /\ call[k].name \in Names /\ call[k].type \in Types
            /\ Upserts(k, call[k].account, call[k].name, call[k].type)
         \/ \E n \in Names, stage \in {"lookup", "configure"} :
               AuthenticateOrganization(k, n, stage)
         \/ RecordLogin(k) \/ AnswerLogin(k) \/ FindUser(k) \/ LoseCall(k)
<1>1. Acting(k) => call[k].account \in Calls /\ call[k].name \in Names /\ call[k].type \in Types
  <2>1. call[k] \in LocalStates /\ CallShape(k)
    BY DEF TypeInv, TypeOK, LocalStates
  <2>2. QED
    BY <2>1 DEF CallShape, LocalStates
<1>2. CASE CreateForOrganization(k) \/ ConfigureOwnEndpoint(k)
  BY <1>1, <1>2 DEF CreateForOrganization, ConfigureOwnEndpoint, Upserts, Acting
<1>3. ASSUME NEW n \in Names, NEW t \in Types,
             IssueAPIKey(k, n, t) \/ CreateForUser(k, n, t) \/ ConfigureByCommand(k, n, t)
      PROVE  call[k].stage = "idle" /\ Upserts(k, None, n, t)
  BY <1>3 DEF IssueAPIKey, CreateForUser, ConfigureByCommand, Upserts
<1>4. QED
  BY <1>2, <1>3 DEF Act

LEMMA UpsertEffect ==
  ASSUME TypeInv, NEW k \in Calls, NEW account \in Calls \union {None},
         NEW n \in Names, NEW t \in Types, Upserts(k, account, n, t)
  PROVE  /\ organizations' = Upserted(n, k, t) /\ organizations'[n].id \in Calls
         /\ Ended(k, account, n, t) /\ UNCHANGED <<users, sessions>>
         /\ \/ /\ apiKeys' = apiKeys \union {[by |-> k, organization |-> organizations'[n].id]}
               /\ UNCHANGED <<claimRequests, endpoints, audit>>
            \/ /\ claimRequests' =
                     claimRequests \union {[by |-> k, organization |-> organizations'[n].id]}
               /\ audit' = audit \union
                     {Log("claim_request.created", organizations'[n].id, k)}
               /\ UNCHANGED <<apiKeys, endpoints>>
            \/ /\ endpoints' = [endpoints EXCEPT ![organizations'[n].id] = k]
               /\ audit' = audit \union
                     {Log("webhook.endpoint_configured", organizations'[n].id, k)}
               /\ UNCHANGED <<apiKeys, claimRequests>>
<1>1. organizations' = Upserted(n, k, t) /\ Ended(k, account, n, t)
      /\ UNCHANGED <<users, sessions>>
  BY DEF Upserts, IssueAPIKey, Create, ConfigureEndpoint
<1>2. organizations'[n].id \in Calls
  <2>1. organizations[n].id \in Calls \union {None}
    BY DEF TypeInv, TypeOK
  <2>2. QED
    BY <1>1, <2>1, UpsertedRow DEF TypeInv, Known
<1>3. QED
  BY <1>1, <1>2 DEF Upserts, IssueAPIKey, Create, ConfigureEndpoint, RequestOf

(* The types, table by table.                                              *)
RowsTyped ==
    /\ organizations \in [Names -> Rows]
    /\ \A n \in Names :
          /\ organizations[n].id # None <=> organizations[n].type # None
          /\ organizations[n].email # None => organizations[n].id # None

TablesTyped ==
    /\ users \in [Emails -> Calls \union {None}]
    /\ apiKeys \subseteq [by : Calls, organization : Calls]
    /\ claimRequests \subseteq [by : Calls, organization : Calls]
    /\ endpoints \in [Calls -> Calls \union {None}]
    /\ audit \subseteq [event : Events, account : Calls, by : Calls]
    /\ sessions \subseteq [account : Calls, by : Calls]

CallsTyped == call \in [Calls -> LocalStates] /\ \A k \in Calls : CallShape(k)

LEMMA TypeInvParts == TypeInv <=> RowsTyped /\ TablesTyped /\ CallsTyped
  BY DEF TypeInv, TypeOK, RowsTyped, TablesTyped, CallsTyped, Rows, LocalStates, Known

LEMMA TypedNext == RowsTyped' /\ TablesTyped' /\ CallsTyped' => TypeInv'
  BY DEF TypeInv, TypeOK, RowsTyped, TablesTyped, CallsTyped, Rows, LocalStates, Known

LEMMA EndedTyped ==
  ASSUME TypeInv, NEW k \in Calls, NEW account \in Calls \union {None},
         NEW n \in Names \union {None}, NEW t \in Types \union {None}, Ended(k, account, n, t)
  PROVE  CallsTyped'
  BY EndedCall, TypeInvParts DEF TypeInv, CallsTyped, CallShape, Acting, SigningIn

LEMMA UpsertTyped ==
  ASSUME TypeInv, NEW k \in Calls, NEW account \in Calls \union {None},
         NEW n \in Names, NEW t \in Types, Upserts(k, account, n, t)
  PROVE  TypeInv'
<1>1. RowsTyped'
  <2>1. organizations \in [Names -> Rows] /\ TypeOK
    BY TypeInvParts DEF RowsTyped, TypeInv
  <2>2. t # None
    BY TypeAssumption, NameAssumption
  <2>3. organizations' \in [Names -> Rows] /\ organizations' = Upserted(n, k, t)
    <3>1. organizations' = Upserted(n, k, t)
      BY UpsertEffect
    <3>2. Upserted(n, k, t) \in [Names -> Rows]
      BY <2>1, UpsertedRow
    <3>3. QED
      BY <3>1, <3>2
  <2>4. ASSUME NEW m \in Names
        PROVE  /\ organizations'[m].id # None <=> organizations'[m].type # None
               /\ organizations'[m].email # None => organizations'[m].id # None
    <3>1. CASE m = n
      BY <2>1, <2>2, <2>3, <3>1, UpsertEffect, UpsertedRow, NameAssumption
    <3>2. CASE m # n
      <4>1. organizations'[m] = organizations[m]
        BY <2>1, <2>3, <3>2, UpsertedRow
      <4>2. QED
        BY <4>1, TypeInvParts DEF RowsTyped
    <3>3. QED
      BY <3>1, <3>2
  <2>5. QED
    BY <2>3, <2>4 DEF RowsTyped
<1>2. TablesTyped'
  <2> DEFINE o == organizations'[n].id
  <2>1. o \in Calls /\ "claim_request.created" \in Events
        /\ "webhook.endpoint_configured" \in Events
    BY UpsertEffect DEF Events
  <2>2. [by |-> k, organization |-> o] \in [by : Calls, organization : Calls]
    BY <2>1
  <2>3. /\ Log("claim_request.created", o, k) \in [event : Events, account : Calls, by : Calls]
        /\ Log("webhook.endpoint_configured", o, k)
              \in [event : Events, account : Calls, by : Calls]
    BY <2>1, LogType
  <2>4. TablesTyped /\ UNCHANGED <<users, sessions>>
    BY UpsertEffect, TypeInvParts
  <2>5. CASE /\ apiKeys' = apiKeys \union {[by |-> k, organization |-> o]}
             /\ UNCHANGED <<claimRequests, endpoints, audit>>
    BY <2>2, <2>4, <2>5 DEF TablesTyped
  <2>6. CASE /\ claimRequests' = claimRequests \union {[by |-> k, organization |-> o]}
             /\ audit' = audit \union {Log("claim_request.created", o, k)}
             /\ UNCHANGED <<apiKeys, endpoints>>
    BY <2>2, <2>3, <2>4, <2>6 DEF TablesTyped
  <2>7. CASE /\ endpoints' = [endpoints EXCEPT ![o] = k]
             /\ audit' = audit \union {Log("webhook.endpoint_configured", o, k)}
             /\ UNCHANGED <<apiKeys, claimRequests>>
    BY <2>1, <2>3, <2>4, <2>7 DEF TablesTyped
  <2>8. QED
    BY <2>5, <2>6, <2>7, UpsertEffect
<1>3. CallsTyped'
  BY UpsertEffect, EndedTyped
<1>4. QED
  BY <1>1, <1>2, <1>3, TypedNext

LEMMA StepType == TypeInv /\ [Next]_vars => TypeInv'
<1> SUFFICES ASSUME TypeInv, [Next]_vars PROVE TypeInv'
  OBVIOUS
<1>old. TypeOK /\ RowsTyped /\ TablesTyped /\ CallsTyped
  BY TypeInvParts DEF TypeInv
<1>1. ASSUME NEW k \in Calls, NEW e \in Emails, CreateUser(k, e)
      PROVE  TypeInv'
  <2>1. CallsTyped'
    BY <1>1, <1>old, EndedTyped DEF CreateUser, Done
  <2>2. TablesTyped'
    <3>1. Log("user.created", k, k) \in [event : Events, account : Calls, by : Calls]
      BY LogType DEF Events
    <3>2. QED
      BY <1>1, <1>old, <3>1 DEF CreateUser, TablesTyped
  <2>3. RowsTyped'
    BY <1>1, <1>old DEF CreateUser, RowsTyped
  <2>4. QED
    BY <2>1, <2>2, <2>3, TypedNext
<1>2. ASSUME NEW k \in Calls, NEW n \in Names, NEW e \in Emails, NEW t \in Types,
             RegisterAccount(k, n, e, t)
      PROVE  TypeInv'
  <2>1. CallsTyped'
    BY <1>2, <1>old, EndedTyped DEF RegisterAccount, Done
  <2>2. TablesTyped'
    <3>1. Log("organization.created", k, k) \in [event : Events, account : Calls, by : Calls]
      BY LogType DEF Events
    <3>2. QED
      BY <1>2, <1>old, <3>1 DEF RegisterAccount, TablesTyped
  <2>3. RowsTyped'
    <3> DEFINE new == [id |-> k, email |-> e, type |-> t]
    <3>1. new \in Rows /\ new.id = k /\ new.type = t /\ k # None /\ t # None
      BY NameAssumption DEF Rows
    <3>2. organizations' = organizations \/ organizations' = [organizations EXCEPT ![n] = new]
      BY <1>2 DEF RegisterAccount
    <3> HIDE DEF new
    <3>3. QED
      BY <1>old, <3>1, <3>2 DEF RowsTyped
  <2>4. QED
    BY <2>1, <2>2, <2>3, TypedNext
<1>3. ASSUME NEW k \in Calls, NEW a \in Calls, NEW matches \in BOOLEAN,
             FindCredentials(k, a, matches)
      PROVE  TypeInv'
  <2>1. CallsTyped'
    <3>1. CASE call' = [call EXCEPT ![k] = [@ EXCEPT !.stage = "login", !.account = a]]
      <4> DEFINE new == [call[k] EXCEPT !.stage = "login", !.account = a]
      <4>1. call[k] \in LocalStates /\ a # None
        BY <1>old, NameAssumption DEF CallsTyped
      <4>2. new \in LocalStates /\ new.stage = "login" /\ new.account = a
        BY <4>1 DEF LocalStates, Stages
      <4>3. call' = [call EXCEPT ![k] = new]
        BY <3>1
      <4> HIDE DEF new
      <4>4. QED
        BY <1>old, <4>1, <4>2, <4>3 DEF CallsTyped, CallShape, Acting, SigningIn
    <3>2. QED
      BY <1>3, <1>old, <3>1, EndedTyped DEF FindCredentials, Done
  <2>2. QED
    BY <1>3, <1>old, <2>1, TypedNext DEF FindCredentials, RowsTyped, TablesTyped
<1>4. ASSUME NEW k \in Calls, NEW n \in Names, NEW stage \in {"lookup", "configure"},
             AuthenticateOrganization(k, n, stage)
      PROVE  TypeInv'
  <2>1. CallsTyped'
    <3> DEFINE new == [stage |-> stage, account |-> organizations[n].id,
                       name |-> n, type |-> organizations[n].type]
    <3>1. organizations[n] \in Rows /\ organizations[n].id # None /\ organizations[n].type # None
      BY <1>4, <1>old DEF AuthenticateOrganization, RowsTyped, Known
    <3>2. /\ new \in LocalStates /\ new.account # None /\ new.name # None /\ new.type # None
          /\ new.stage = stage
      BY <3>1, NameAssumption DEF Rows, LocalStates, Stages
    <3>3. call' = [call EXCEPT ![k] = new]
      BY <1>4 DEF AuthenticateOrganization, TypeRead
    <3> HIDE DEF new
    <3>4. QED
      BY <1>old, <3>2, <3>3 DEF CallsTyped, CallShape, Acting, SigningIn
  <2>2. QED
    BY <1>4, <1>old, <2>1, TypedNext DEF AuthenticateOrganization, RowsTyped, TablesTyped
<1>5. ASSUME NEW k \in Calls, RecordLogin(k)
      PROVE  TypeInv'
  <2>1. CallsTyped' /\ call[k].account \in Calls
    <3>1. CallShape(k) /\ SigningIn(k) /\ call[k] \in LocalStates
      BY <1>5, <1>old DEF RecordLogin, CallsTyped, SigningIn
    <3>2. "answer" \in Stages /\ call' = [call EXCEPT ![k].stage = "answer"]
      BY <1>5 DEF RecordLogin, Stages
    <3>3. QED
      BY <1>old, <3>1, <3>2, MovedCall DEF CallsTyped, CallShape, Acting, SigningIn, LocalStates
  <2>2. Log(LoginEvent(call[k].account), call[k].account, k)
           \in [event : Events, account : Calls, by : Calls]
    <3>1. LoginEvent(call[k].account) \in Events
      BY DEF LoginEvent, Events
    <3>2. QED
      BY <2>1, <3>1, LogType
  <2>3. RowsTyped' /\ TablesTyped'
    BY <1>5, <1>old, <2>2 DEF RecordLogin, RowsTyped, TablesTyped
  <2>4. QED
    BY <2>1, <2>3, TypedNext
<1>6. ASSUME NEW k \in Calls, AnswerLogin(k)
      PROVE  TypeInv'
  <2>1. CallsTyped' /\ call[k].account \in Calls
    <3>1. CallShape(k) /\ SigningIn(k) /\ call[k] \in LocalStates
      BY <1>6, <1>old DEF AnswerLogin, CallsTyped, SigningIn
    <3>2. QED
      BY <1>6, <3>1, EndedTyped DEF AnswerLogin, Done, CallShape, LocalStates
  <2>2. RowsTyped' /\ TablesTyped'
    BY <1>6, <1>old, <2>1 DEF AnswerLogin, RowsTyped, TablesTyped
  <2>3. QED
    BY <2>1, <2>2, TypedNext
<1>7. ASSUME NEW k \in Calls, FindUser(k) \/ LoseCall(k)
      PROVE  TypeInv'
  <2>1. CallsTyped'
    <3>1. CASE call[k].stage = "lookup" /\ call' = [call EXCEPT ![k].stage = "create"]
      <4>1. CallShape(k) /\ Acting(k) /\ "create" \in Stages
        BY <1>old, <3>1 DEF CallsTyped, Acting, Stages
      <4>2. QED
        BY <1>old, <3>1, <4>1, MovedCall DEF CallsTyped, CallShape, Acting, SigningIn
    <3>2. QED
      BY <1>7, <3>1, EndedTyped DEF FindUser, LoseCall, Done
  <2>2. QED
    BY <1>7, <1>old, <2>1, TypedNext DEF FindUser, LoseCall, RowsTyped, TablesTyped
<1>8. CASE UNCHANGED vars
  BY <1>8, <1>old, TypedNext
     DEF vars, RowsTyped, TablesTyped, CallsTyped, CallShape, Acting, SigningIn
<1>9. QED
  <2>1. ASSUME NEW k \in Calls, Act(k) PROVE TypeInv'
    BY <2>1, ActCases, UpsertTyped, <1>1, <1>2, <1>3, <1>4, <1>5, <1>6, <1>7
  <2>2. QED
    BY <2>1, <1>8, NextIsAct

LEMMA InitType == Init => TypeInv
<1> SUFFICES ASSUME Init PROVE TypeInv
  OBVIOUS
<1>1. RowsTyped
  BY DEF Init, RowsTyped, Rows, NoOrganization
<1>2. TablesTyped
  BY DEF Init, TablesTyped
<1>3. CallsTyped
  BY DEF Init, CallsTyped, CallShape, Acting, SigningIn, LocalStates, NewCall, Stages
<1>4. QED
  BY <1>1, <1>2, <1>3, TypeInvParts

LEMMA TypeInvariant == Spec => []TypeInv
  BY InitType, StepType, PTL DEF Spec

(* Every table keeps its type: in particular a row of organizations has a  *)
(* type whoever made it, and no row without an id has credentials.         *)
THEOREM TypeCorrect == Spec => []TypeOK
<1>1. TypeInv => TypeOK
  BY DEF TypeInv
<1>2. QED
  BY <1>1, TypeInvariant, PTL

(***************************************************************************)
(* What a step of call k does to what is there, and what it may add: rows  *)
(* named after k by a call that then is done.                              *)
(***************************************************************************)
Kept(k) ==
    /\ call[k].stage # "done"
    /\ \A j \in Calls : j # k => call'[j] = call[j]
    /\ \A n \in Names : Known(n) =>
          /\ organizations'[n].id = organizations[n].id
          /\ organizations'[n].email = organizations[n].email
    /\ \A e \in Emails : users[e] # None => users'[e] = users[e]
    /\ audit \subseteq audit'

Added(k) ==
    /\ \A n \in Names : organizations'[n].id # organizations[n].id =>
          /\ organizations'[n].id = k
          /\ call'[k].stage = "done" /\ call'[k].name = n
    /\ \A e \in Emails : users'[e] # users[e] =>
          /\ users'[e] = k
          /\ call'[k].stage = "done" /\ call'[k].name = None
    /\ call'[k].stage = "done" /\ call'[k].name # None
       => organizations'[call'[k].name].id # None

(* What call k goes on with, it has just read, or held before.             *)
Held(k) ==
    /\ Acting(k)' =>
          \/ /\ Acting(k)
             /\ call'[k].account = call[k].account
             /\ call'[k].name = call[k].name /\ call'[k].type = call[k].type
          \/ /\ organizations[call'[k].name].id = call'[k].account
             /\ organizations[call'[k].name].type = call'[k].type
    /\ SigningIn(k)' =>
          \/ SigningIn(k) /\ call'[k].account = call[k].account
          \/ IsUser(call'[k].account) \/ IsOrganizationAccount(call'[k].account)

Effect(k) == Kept(k) /\ Added(k) /\ Held(k)

LEMMA UpsertAct ==
  ASSUME TypeInv, NEW k \in Calls, NEW account \in Calls \union {None},
         NEW n \in Names, NEW t \in Types, Upserts(k, account, n, t), call[k].stage # "done"
  PROVE  Effect(k)
<1>1. TypeOK /\ organizations' = Upserted(n, k, t) /\ Ended(k, account, n, t)
      /\ UNCHANGED users /\ audit \subseteq audit'
  BY UpsertEffect DEF TypeInv
<1>2. /\ organizations'[n].id = IF Known(n) THEN organizations[n].id ELSE k
      /\ organizations'[n].email = IF Known(n) THEN organizations[n].email ELSE None
      /\ \A m \in Names : m # n => organizations'[m] = organizations[m]
  BY <1>1, UpsertedRow
<1>3. /\ call'[k].stage = "done" /\ call'[k].name = n
      /\ \A j \in Calls : j # k => call'[j] = call[j]
  BY <1>1, EndedCall
<1>4. Kept(k)
  BY <1>1, <1>2, <1>3 DEF Kept
<1>5. Added(k)
  BY <1>1, <1>2, <1>3, NameAssumption DEF Added, Known
<1>6. Held(k)
  BY <1>3 DEF Held, Acting, SigningIn
<1>7. QED
  BY <1>4, <1>5, <1>6 DEF Effect

LEMMA OtherAct ==
  ASSUME TypeInv, NEW k \in Calls, UNCHANGED <<users, organizations>>, audit \subseteq audit',
         call[k].stage # "done",
         \A j \in Calls : j # k => call'[j] = call[j],
         call'[k].stage = "done" => call'[k].name = None,
         Held(k)
  PROVE  Effect(k)
  BY DEF Effect, Kept, Added

LEMMA EndAct ==
  ASSUME TypeInv, NEW k \in Calls, UNCHANGED <<users, organizations>>, audit \subseteq audit',
         call[k].stage # "done", Done(k)
  PROVE  Effect(k)
<1>1. /\ call'[k].stage = "done" /\ call'[k].name = None
      /\ \A j \in Calls : j # k => call'[j] = call[j]
  BY EndedCall DEF TypeInv, Done
<1>2. Held(k)
  BY <1>1 DEF Held, Acting, SigningIn
<1>3. QED
  BY <1>1, <1>2, OtherAct

LEMMA ActEffect ==
  ASSUME TypeInv, NEW k \in Calls, Act(k)
  PROVE  Effect(k)
<1>type. TypeOK
  BY DEF TypeInv
<1>1. ASSUME NEW e \in Emails, CreateUser(k, e)
      PROVE  Effect(k)
  <2>1. CASE users[e] # None
    BY <1>1, <2>1, EndAct DEF CreateUser
  <2>2. CASE users[e] = None /\ users' = [users EXCEPT ![e] = k]
    <3>1. /\ call'[k].stage = "done" /\ call'[k].name = None
          /\ \A j \in Calls : j # k => call'[j] = call[j]
      BY <1>1, <1>type, EndedCall DEF CreateUser, Done
    <3>2. Kept(k)
      BY <1>1, <1>type, <2>2, <3>1 DEF CreateUser, Kept, TypeOK
    <3>3. Added(k)
      BY <1>1, <1>type, <2>2, <3>1 DEF CreateUser, Added, TypeOK
    <3>4. Held(k)
      BY <3>1 DEF Held, Acting, SigningIn
    <3>5. QED
      BY <3>2, <3>3, <3>4 DEF Effect
  <2>3. QED
    BY <1>1, <2>1, <2>2 DEF CreateUser
<1>2. ASSUME NEW n \in Names, NEW e \in Emails, NEW t \in Types, RegisterAccount(k, n, e, t)
      PROVE  Effect(k)
  <2>1. CASE Taken(n, e)
    BY <1>2, <2>1, EndAct DEF RegisterAccount
  <2>2. CASE /\ ~ Taken(n, e) /\ Ended(k, None, n, t)
             /\ organizations' = [organizations EXCEPT ![n] = [id |-> k, email |-> e, type |-> t]]
    <3>1. /\ call'[k].stage = "done" /\ call'[k].name = n
          /\ \A j \in Calls : j # k => call'[j] = call[j]
      BY <1>type, <2>2, EndedCall
    <3>2. /\ ~ Known(n) /\ organizations'[n].id = k /\ k # None
          /\ \A m \in Names : m # n => organizations'[m] = organizations[m]
      BY <1>type, <2>2, NameAssumption DEF Taken, TypeOK
    <3>3. Kept(k)
      BY <1>2, <3>1, <3>2 DEF RegisterAccount, Kept
    <3>4. Added(k)
      BY <1>2, <3>1, <3>2 DEF RegisterAccount, Added
    <3>5. Held(k)
      BY <3>1 DEF Held, Acting, SigningIn
    <3>6. QED
      BY <3>3, <3>4, <3>5 DEF Effect
  <2>3. QED
    BY <1>2, <2>1, <2>2 DEF RegisterAccount
<1>3. ASSUME NEW a \in Calls, NEW matches \in BOOLEAN, FindCredentials(k, a, matches)
      PROVE  Effect(k)
  <2>1. CASE Done(k)
    BY <1>3, <2>1, EndAct DEF FindCredentials
  <2>2. CASE call' = [call EXCEPT ![k] = [@ EXCEPT !.stage = "login", !.account = a]]
    <3>1. /\ call'[k].stage = "login" /\ call'[k].account = a
          /\ \A j \in Calls : j # k => call'[j] = call[j]
      BY <1>type, <2>2 DEF TypeOK
    <3>2. Held(k)
      BY <1>3, <3>1 DEF FindCredentials, Held, Acting, SigningIn
    <3>3. QED
      BY <1>3, <3>1, <3>2, OtherAct DEF FindCredentials
  <2>3. QED
    BY <1>3, <2>1, <2>2 DEF FindCredentials
<1>4. ASSUME NEW n \in Names, NEW stage \in {"lookup", "configure"},
             AuthenticateOrganization(k, n, stage)
      PROVE  Effect(k)
  <2>1. /\ call'[k].stage = stage /\ call'[k].account = organizations[n].id
        /\ call'[k].name = n /\ call'[k].type = organizations[n].type
        /\ \A j \in Calls : j # k => call'[j] = call[j]
    BY <1>4, <1>type DEF AuthenticateOrganization, TypeRead, TypeOK
  <2>2. Held(k)
    BY <2>1 DEF Held, Acting, SigningIn
  <2>3. QED
    BY <1>4, <2>1, <2>2, OtherAct DEF AuthenticateOrganization
<1>5. CASE RecordLogin(k)
  <2>1. "answer" \in Stages
    BY DEF Stages
  <2>2. /\ call'[k].stage = "answer" /\ call'[k].account = call[k].account
        /\ \A j \in Calls : j # k => call'[j] = call[j]
    BY <1>5, <1>type, <2>1, MovedCall DEF RecordLogin
  <2>3. Held(k)
    BY <1>5, <2>2 DEF RecordLogin, Held, Acting, SigningIn
  <2>4. QED
    BY <1>5, <2>2, <2>3, OtherAct DEF RecordLogin
<1>6. CASE AnswerLogin(k)
  BY <1>6, EndAct DEF AnswerLogin
<1>7. CASE FindUser(k)
  <2>1. CASE Done(k)
    BY <1>7, <2>1, EndAct DEF FindUser
  <2>2. CASE call' = [call EXCEPT ![k].stage = "create"]
    <3>1. "create" \in Stages
      BY DEF Stages
    <3>2. /\ call'[k].stage = "create" /\ call'[k].account = call[k].account
          /\ call'[k].name = call[k].name /\ call'[k].type = call[k].type
          /\ \A j \in Calls : j # k => call'[j] = call[j]
      BY <1>type, <2>2, <3>1, MovedCall
    <3>3. Held(k)
      BY <1>7, <3>2 DEF FindUser, Held, Acting, SigningIn
    <3>4. QED
      BY <1>7, <3>2, <3>3, OtherAct DEF FindUser
  <2>3. QED
    BY <1>7, <2>1, <2>2 DEF FindUser
<1>8. CASE LoseCall(k)
  BY <1>8, EndAct DEF LoseCall
<1>9. ASSUME NEW account \in Calls \union {None}, NEW n \in Names, NEW t \in Types,
             Upserts(k, account, n, t), call[k].stage # "done"
      PROVE  Effect(k)
  BY <1>9, UpsertAct
<1>10. QED
  BY <1>1, <1>2, <1>3, <1>4, <1>5, <1>6, <1>7, <1>8, <1>9, ActCases

(* Neither an upsert nor a registration, and no race of them, takes a name *)
(* away from the organization that has it, or gives or takes the e-mail    *)
(* that signs it in.                                                       *)
THEOREM OwnersStay == Spec => OwnershipSettled
<1>1. TypeInv /\ [Next]_vars
      => [ \A n \in Names : Known(n) =>
              /\ organizations'[n].id = organizations[n].id
              /\ organizations'[n].email = organizations[n].email ]_vars
  BY NextIsAct, ActEffect DEF Effect, Kept
<1>2. QED
  BY <1>1, TypeInvariant, PTL DEF Spec, OwnershipSettled

(***************************************************************************)
(* Rows are named after calls that are done, so no later call makes a      *)
(* second one; a call that acts holds an organization that still has the   *)
(* name it read, as ownership is settled.                                  *)
(***************************************************************************)
NamesOwned ==
    /\ \A n \in Names : Known(n) =>
          call[organizations[n].id].stage = "done" /\ call[organizations[n].id].name = n
    /\ \A e \in Emails : users[e] # None =>
          call[users[e]].stage = "done" /\ call[users[e]].name = None
    /\ \A k \in Calls : call[k].stage = "done" /\ call[k].name # None => Known(call[k].name)

CallsOwn ==
    \A k \in Calls :
        /\ Acting(k) => organizations[call[k].name].id = call[k].account
        /\ SigningIn(k) => IsUser(call[k].account) \/ IsOrganizationAccount(call[k].account)

OwnInv == TypeInv /\ NamesOwned /\ CallsOwn

LEMMA FieldTypes ==
  ASSUME TypeInv
  PROVE  /\ \A k \in Calls :
               /\ call[k].account \in Calls \union {None}
               /\ call[k].name \in Names \union {None}
               /\ Acting(k) => call[k].account \in Calls /\ call[k].name \in Names
                               /\ call[k].type \in Types
               /\ SigningIn(k) => call[k].account \in Calls
         /\ \A n \in Names : Known(n) => organizations[n].id \in Calls
         /\ \A e \in Emails : users[e] # None => users[e] \in Calls
<1>1. \A k \in Calls : call[k] \in LocalStates /\ CallShape(k)
  BY DEF TypeInv, TypeOK, LocalStates
<1>2. \A n \in Names : organizations[n] \in Rows
  BY DEF TypeInv, TypeOK, Rows
<1>3. \A e \in Emails : users[e] \in Calls \union {None}
  BY DEF TypeInv, TypeOK
<1>4. QED
  BY <1>1, <1>2, <1>3 DEF LocalStates, Rows, CallShape, Known

(* Being an account is for ever.                                           *)
LEMMA AccountsStay ==
  ASSUME OwnInv, NEW k \in Calls, Effect(k), NEW a,
         IsUser(a) \/ IsOrganizationAccount(a), a # None
  PROVE  /\ (IsUser(a) \/ IsOrganizationAccount(a))'
         /\ IsUser(a)' <=> IsUser(a)
<1>1. IsUser(a) => IsUser(a)'
  BY DEF IsUser, Effect, Kept
<1>2. IsOrganizationAccount(a) => IsOrganizationAccount(a)'
  BY DEF IsOrganizationAccount, Effect, Kept, Known
<1>3. IsOrganizationAccount(a) => call[a].stage = "done"
  BY DEF IsOrganizationAccount, OwnInv, NamesOwned, Known
<1>4. IsUser(a)' => IsUser(a) \/ a = k
  BY DEF IsUser, Effect, Added
<1>5. call[k].stage # "done"
  BY DEF Effect, Kept
<1>6. QED
  BY <1>1, <1>2, <1>3, <1>4, <1>5

LEMMA StepNames ==
  ASSUME OwnInv, NEW k \in Calls, Effect(k), TypeInv'
  PROVE  NamesOwned'
<1>type. TypeInv
  BY DEF OwnInv
<1>1. ASSUME NEW n \in Names, Known(n)'
      PROVE  call'[organizations'[n].id].stage = "done" /\ call'[organizations'[n].id].name = n
  <2>1. CASE organizations'[n].id = organizations[n].id
    <3>1. organizations[n].id \in Calls /\ call[organizations[n].id].stage = "done"
          /\ call[organizations[n].id].name = n
      BY <1>1, <2>1, <1>type, FieldTypes DEF OwnInv, NamesOwned, Known
    <3>2. QED
      BY <2>1, <3>1 DEF Effect, Kept
  <2>2. CASE organizations'[n].id # organizations[n].id
    BY <2>2 DEF Effect, Added
  <2>3. QED
    BY <2>1, <2>2
<1>2. ASSUME NEW e \in Emails, users'[e] # None
      PROVE  call'[users'[e]].stage = "done" /\ call'[users'[e]].name = None
  <2>1. CASE users'[e] = users[e]
    <3>1. users[e] \in Calls /\ call[users[e]].stage = "done" /\ call[users[e]].name = None
      BY <1>2, <2>1, <1>type, FieldTypes DEF OwnInv, NamesOwned
    <3>2. QED
      BY <2>1, <3>1 DEF Effect, Kept
  <2>2. CASE users'[e] # users[e]
    BY <2>2 DEF Effect, Added
  <2>3. QED
    BY <2>1, <2>2
<1>3. ASSUME NEW j \in Calls, call'[j].stage = "done", call'[j].name # None
      PROVE  organizations'[call'[j].name].id # None
  <2>1. CASE j = k
    BY <1>3, <2>1 DEF Effect, Added
  <2>2. CASE j # k
    <3>1. call'[j] = call[j] /\ call[j].name \in Names /\ Known(call[j].name)
      BY <1>3, <2>2, <1>type, FieldTypes DEF Effect, Kept, OwnInv, NamesOwned
    <3>2. QED
      BY <3>1 DEF Effect, Kept, Known
  <2>3. QED
    BY <2>1, <2>2
<1>4. QED
  BY <1>1, <1>2, <1>3 DEF NamesOwned, Known

LEMMA StepCallsOwn ==
  ASSUME OwnInv, NEW k \in Calls, Effect(k), TypeInv'
  PROVE  CallsOwn'
<1>type. TypeInv
  BY DEF OwnInv
<1>1. \A a \in Calls : IsUser(a) \/ IsOrganizationAccount(a)
                       => (IsUser(a) \/ IsOrganizationAccount(a))'
  BY AccountsStay, NameAssumption
<1>2. \A n \in Names, a \in Calls : organizations[n].id = a => organizations'[n].id = a
  BY NameAssumption DEF Effect, Kept, Known
<1>fields. \A j \in Calls :
              /\ Acting(j)' => call'[j].account \in Calls /\ call'[j].name \in Names
              /\ SigningIn(j)' => call'[j].account \in Calls
  <2>1. \A j \in Calls : call'[j] \in LocalStates /\ CallShape(j)'
    BY DEF TypeInv, TypeOK, LocalStates
  <2>2. QED
    BY <2>1 DEF LocalStates, CallShape
<1>3. ASSUME NEW j \in Calls, j # k
      PROVE  /\ Acting(j)' => organizations'[call'[j].name].id = call'[j].account
             /\ SigningIn(j)' => (IsUser(call[j].account) \/ IsOrganizationAccount(call[j].account))'
  <2>1. call'[j] = call[j]
    BY <1>3 DEF Effect, Kept
  <2>2. QED
    BY <2>1, <1>1, <1>2, <1>type, FieldTypes DEF OwnInv, CallsOwn, Acting, SigningIn
<1>4. Acting(k)' => organizations'[call'[k].name].id = call'[k].account
  BY <1>2, <1>fields DEF Effect, Held, OwnInv, CallsOwn
<1>5. ASSUME SigningIn(k)'
      PROVE  (IsUser(call[k].account) \/ IsOrganizationAccount(call[k].account))'
  <2>1. IsUser(call'[k].account) \/ IsOrganizationAccount(call'[k].account)
    BY <1>5 DEF Effect, Held, OwnInv, CallsOwn
  <2>2. \/ \E e \in Emails : users[e] = call'[k].account
        \/ \E n \in Names : organizations[n].id = call'[k].account
                            /\ organizations[n].email # None
    BY <2>1 DEF IsUser, IsOrganizationAccount
  <2>3. \/ \E e \in Emails : users'[e] = call'[k].account
        \/ \E n \in Names : organizations'[n].id = call'[k].account
                            /\ organizations'[n].email # None
    BY <2>2, <1>5, <1>fields, NameAssumption DEF Effect, Kept, Known
  <2>4. QED
    BY <2>3 DEF IsUser, IsOrganizationAccount
<1>6. QED
  <2>1. ASSUME NEW j \in Calls, SigningIn(j)', j # k
        PROVE  (IsUser(call[j].account) \/ IsOrganizationAccount(call[j].account))'
    BY <2>1, <1>3
  <2>2. QED
    BY <2>1, <1>3, <1>4, <1>5 DEF CallsOwn

LEMMA OwnInvariantInit == Init => OwnInv
  BY InitType DEF Init, OwnInv, NamesOwned, CallsOwn, Known, Acting, SigningIn, NewCall,
     NoOrganization

LEMMA OwnInvariantStep == OwnInv /\ [Next]_vars => OwnInv'
<1> SUFFICES ASSUME OwnInv, [Next]_vars PROVE OwnInv'
  OBVIOUS
<1>type. TypeInv /\ TypeInv'
  BY StepType DEF OwnInv
<1>1. ASSUME NEW k \in Calls, Act(k)
      PROVE  OwnInv'
  BY <1>1, <1>type, ActEffect, StepNames, StepCallsOwn DEF OwnInv
<1>2. CASE UNCHANGED vars
  BY <1>2, <1>type DEF vars, OwnInv, NamesOwned, CallsOwn, Known, Acting, SigningIn,
     IsUser, IsOrganizationAccount
<1>3. QED
  BY <1>1, <1>2, NextIsAct

LEMMA OwnInvariant == Spec => []OwnInv
  BY OwnInvariantInit, OwnInvariantStep, PTL DEF Spec

(***************************************************************************)
(* Registrations.  Only they write their two events, and by a call that    *)
(* then is done: a row that an upsert made for another call has none.      *)
(***************************************************************************)
Registrations == {"organization.created", "user.created"}

RegisteredOnce ==
    \A row \in audit : row.event \in Registrations => call[row.by].stage = "done"

RegInv == OwnInv /\ AccountsAsRegistered /\ RegisteredOnce

LEMMA StepOnce ==
  ASSUME RegInv, NEW k \in Calls, Effect(k),
         \A row \in audit' \ audit :
             row.event \in Registrations => row.by = k /\ call'[k].stage = "done"
  PROVE  RegisteredOnce'
<1>1. \A row \in audit : row.by \in Calls
  BY DEF RegInv, OwnInv, TypeInv, TypeOK
<1>2. QED
  BY <1>1 DEF RegInv, RegisteredOnce, Effect, Kept

(* The tables are as before, but for rows of the audit trail that are not  *)
(* of a registration.                                                      *)
LEMMA StepUnregistered ==
  ASSUME RegInv, NEW k \in Calls, Effect(k), UNCHANGED users,
         \A n \in Names : organizations'[n].email = organizations[n].email,
         \A row \in audit' \ audit : row.event \notin Registrations
  PROVE  AccountsAsRegistered'
<1>1. \A n, m \in Names :
         organizations'[n].email # None /\ organizations'[n].email = organizations'[m].email
         => n = m
  BY DEF RegInv, AccountsAsRegistered
<1>2. ASSUME NEW a
      PROVE  /\ Log("organization.created", a, a) \in audit'
                <=> Log("organization.created", a, a) \in audit
             /\ Log("user.created", a, a) \in audit' <=> Log("user.created", a, a) \in audit
  BY DEF Effect, Kept, Log, Registrations
<1>3. ASSUME NEW n \in Names, Known(n)'
      PROVE  organizations'[n].email # None
             <=> Log("organization.created", organizations'[n].id, organizations'[n].id) \in audit'
  <2>1. CASE organizations'[n].id = organizations[n].id
    BY <1>2, <1>3, <2>1 DEF RegInv, AccountsAsRegistered, Known
  <2>2. CASE organizations'[n].id # organizations[n].id
    <3>1. organizations'[n].id = k /\ ~ Known(n)
      BY <2>2 DEF Effect, Added, Kept
    <3>2. organizations'[n].email = None
      BY <3>1 DEF RegInv, OwnInv, TypeInv, TypeOK
    <3>3. Log("organization.created", k, k) \notin audit
      BY DEF Effect, Kept, RegInv, RegisteredOnce, Log, Registrations
    <3>4. QED
      BY <1>2, <3>1, <3>2, <3>3
  <2>3. QED
    BY <2>1, <2>2
<1>4. \A e \in Emails : users'[e] # None => Log("user.created", users'[e], users'[e]) \in audit'
  BY <1>2 DEF RegInv, AccountsAsRegistered
<1>5. QED
  BY <1>1, <1>3, <1>4 DEF AccountsAsRegistered, Known

LEMMA StepReg == RegInv /\ [Next]_vars => RegInv'
<1> SUFFICES ASSUME RegInv, [Next]_vars PROVE AccountsAsRegistered' /\ RegisteredOnce'
  BY OwnInvariantStep DEF RegInv
<1>type. TypeInv /\ TypeOK
  BY DEF RegInv, OwnInv, TypeInv
<1>1. ASSUME NEW k \in Calls, Effect(k), NEW e \in Emails, CreateUser(k, e)
      PROVE  AccountsAsRegistered' /\ RegisteredOnce'
  <2>1. CASE users[e] = None
    <3>1. /\ users' = [users EXCEPT ![e] = k] /\ UNCHANGED organizations
          /\ audit' = audit \union {Log("user.created", k, k)}
          /\ call'[k].stage = "done"
      BY <1>1, <2>1, <1>type, EndedCall DEF CreateUser, Done
    <3>2. RegisteredOnce'
      BY <1>1, <3>1, StepOnce DEF Log
    <3>3. \A a : Log("organization.created", a, a) \in audit'
                 <=> Log("organization.created", a, a) \in audit
      BY <3>1 DEF Log
    <3>4. \A x \in Emails : users'[x] # None
             => Log("user.created", users'[x], users'[x]) \in audit'
      BY <3>1, <1>type DEF RegInv, AccountsAsRegistered, TypeOK
    <3>5. QED
      BY <3>1, <3>2, <3>3, <3>4 DEF RegInv, AccountsAsRegistered, Known
  <2>2. CASE users[e] # None
    <3>1. UNCHANGED <<users, organizations, audit>>
      BY <1>1, <2>2 DEF CreateUser
    <3>2. QED
      BY <1>1, <3>1, StepOnce, StepUnregistered
  <2>3. QED
    BY <2>1, <2>2
<1>2. ASSUME NEW k \in Calls, Effect(k),
             NEW n \in Names, NEW e \in Emails, NEW t \in Types, RegisterAccount(k, n, e, t)
      PROVE  AccountsAsRegistered' /\ RegisteredOnce'
  <2>1. CASE ~ Taken(n, e)
    <3>1. /\ organizations' = [organizations EXCEPT ![n] = [id |-> k, email |-> e, type |-> t]]
          /\ audit' = audit \union {Log("organization.created", k, k)}
          /\ UNCHANGED users /\ call'[k].stage = "done"
      BY <1>2, <2>1, <1>type, EndedCall DEF RegisterAccount
    <3>2. RegisteredOnce'
      BY <1>2, <3>1, StepOnce DEF Log
    <3>3. /\ organizations'[n].id = k /\ organizations'[n].email = e /\ e # None
          /\ \A m \in Names : m # n => organizations'[m] = organizations[m]
          /\ \A m \in Names : organizations[m].email # e
      BY <2>1, <3>1, <1>type, NameAssumption DEF Taken, TypeOK
    <3>4. \A m \in Names : organizations[m].id # None => organizations[m].id # k
      BY <1>2 DEF RegInv, OwnInv, NamesOwned, Known, Effect, Kept
    <3>5. \A a : a # k => (Log("organization.created", a, a) \in audit'
                           <=> Log("organization.created", a, a) \in audit)
      BY <3>1 DEF Log
    <3>6. \A x \in Emails : users'[x] # None
             => Log("user.created", users'[x], users'[x]) \in audit'
      BY <3>1 DEF RegInv, AccountsAsRegistered
    <3>7. \A m \in Names : Known(m)' =>
             (organizations'[m].email # None
              <=> Log("organization.created", organizations'[m].id, organizations'[m].id) \in audit')
      BY <3>1, <3>3, <3>4, <3>5 DEF RegInv, AccountsAsRegistered, Known
    <3>8. \A m, j \in Names :
             organizations'[m].email # None /\ organizations'[m].email = organizations'[j].email
             => m = j
      BY <3>3 DEF RegInv, AccountsAsRegistered
    <3>9. QED
      BY <3>2, <3>6, <3>7, <3>8 DEF AccountsAsRegistered
  <2>2. CASE Taken(n, e)
    <3>1. UNCHANGED <<users, organizations, audit>>
      BY <1>2, <2>2 DEF RegisterAccount
    <3>2. QED
      BY <1>2, <3>1, StepOnce, StepUnregistered
  <2>3. QED
    BY <2>1, <2>2
<1>3. ASSUME NEW k \in Calls, Effect(k), NEW account \in Calls \union {None},
             NEW n \in Names, NEW t \in Types, Upserts(k, account, n, t)
      PROVE  AccountsAsRegistered' /\ RegisteredOnce'
  <2>1. /\ UNCHANGED users /\ organizations' = Upserted(n, k, t)
        /\ \A row \in audit' \ audit : row.event \notin Registrations
    BY <1>3, <1>type, UpsertEffect DEF Log, Registrations
  <2>2. \A m \in Names : organizations'[m].email = organizations[m].email
    <3>1. /\ organizations'[n].email = IF Known(n) THEN organizations[n].email ELSE None
          /\ \A m \in Names : m # n => organizations'[m] = organizations[m]
      BY <2>1, <1>type, UpsertedRow
    <3>2. ~ Known(n) => organizations[n].email = None
      BY <1>type DEF TypeOK
    <3>3. QED
      BY <3>1, <3>2
  <2>3. QED
    BY <1>3, <2>1, <2>2, StepOnce, StepUnregistered
<1>4. ASSUME NEW k \in Calls, Effect(k), UNCHANGED <<users, organizations>>,
             \/ UNCHANGED audit
             \/ audit' = audit \union {Log(LoginEvent(call[k].account), call[k].account, k)}
      PROVE  AccountsAsRegistered' /\ RegisteredOnce'
  <2>1. \A row \in audit' \ audit : row.event \notin Registrations
    BY <1>4 DEF Log, LoginEvent, Registrations
  <2>2. QED
    BY <1>4, <2>1, StepOnce, StepUnregistered
<1>5. CASE UNCHANGED vars
  BY <1>5 DEF vars, RegInv, AccountsAsRegistered, RegisteredOnce, Known
<1>6. QED
  <2>1. ASSUME NEW k \in Calls, Act(k) PROVE AccountsAsRegistered' /\ RegisteredOnce'
    <3>1. Effect(k) /\ (call[k].account \in Calls \union {None})
      BY <2>1, <1>type, ActEffect, FieldTypes
    <3>2. CASE \/ \E a \in Calls, matches \in BOOLEAN : FindCredentials(k, a, matches)
               \/ \E n \in Names, stage \in {"lookup", "configure"} :
                     AuthenticateOrganization(k, n, stage)
               \/ RecordLogin(k) \/ AnswerLogin(k) \/ FindUser(k) \/ LoseCall(k)
      BY <3>1, <3>2, <1>4 DEF FindCredentials, AuthenticateOrganization, RecordLogin,
         AnswerLogin, FindUser, LoseCall
    <3>3. QED
      BY <2>1, <3>1, <3>2, <1>type, <1>1, <1>2, <1>3, ActCases
  <2>2. QED
    BY <2>1, <1>5, NextIsAct

(* However registrations and upserts of a name race, an e-mail has one     *)
(* account, and exactly the organizations that were registered have one.   *)
THEOREM RegisteredAccounts == Spec => []AccountsAsRegistered
<1>1. Init => RegInv
  BY OwnInvariantInit DEF Init, RegInv, AccountsAsRegistered, RegisteredOnce, Known, NoOrganization
<1>2. RegInv => AccountsAsRegistered
  BY DEF RegInv
<1>3. QED
  BY <1>1, <1>2, StepReg, PTL DEF Spec

(***************************************************************************)
(* What is written for a name.  A row is written by a call that upserts    *)
(* the name and then is done; call and name do not change any more.        *)
(***************************************************************************)
FiledBy(k, organization) ==
    call[k].stage = "done" /\ call[k].name # None /\ BelongsTo(k, organization)

AttributedInv ==
    /\ OwnInv
    /\ \A r \in claimRequests :
          /\ FiledBy(r.by, r.organization)
          /\ Log("claim_request.created", r.organization, r.by) \in audit
    /\ \A o \in Calls : endpoints[o] # None => FiledBy(endpoints[o], o)
    /\ \A key \in apiKeys : FiledBy(key.by, key.organization)

LEMMA FiledStill ==
  ASSUME OwnInv, NEW k \in Calls, Effect(k), NEW j \in Calls, NEW o, FiledBy(j, o)
  PROVE  FiledBy(j, o)'
<1>1. call'[j] = call[j]
  BY DEF Effect, Kept, FiledBy
<1>2. call[j].name \in Names /\ Known(call[j].name)
  BY FieldTypes DEF OwnInv, NamesOwned, FiledBy
<1>3. QED
  BY <1>1, <1>2 DEF Effect, Kept, FiledBy, BelongsTo

(* An upsert returns the id of the row that has the name, so what a call   *)
(* writes for the id belongs to the organization it acts for.              *)
LEMMA FiledNow ==
  ASSUME OwnInv, NEW k \in Calls, NEW account \in Calls \union {None},
         NEW n \in Names, NEW t \in Types, Upserts(k, account, n, t),
         account # None => organizations[n].id = account,
         NEW o \in Calls, o = organizations'[n].id
  PROVE  FiledBy(k, o)'
<1>1. TypeOK /\ organizations' = Upserted(n, k, t) /\ Ended(k, account, n, t) /\ n # None
  BY UpsertEffect, NameAssumption DEF OwnInv, TypeInv
<1>2. organizations'[n].id = IF Known(n) THEN organizations[n].id ELSE k
  BY <1>1, UpsertedRow
<1>3. call'[k].stage = "done" /\ call'[k].name = n /\ call'[k].account = account
  BY <1>1, EndedCall
<1>4. QED
  BY <1>1, <1>2, <1>3 DEF FiledBy, BelongsTo, Known

LEMMA UpsertAttributed ==
  ASSUME AttributedInv, OwnInv', NEW k \in Calls, Effect(k),
         NEW account \in Calls \union {None},
         NEW n \in Names, NEW t \in Types, Upserts(k, account, n, t),
         account # None => organizations[n].id = account
  PROVE  AttributedInv'
<1>type. TypeInv
  BY DEF AttributedInv, OwnInv
<1>o. PICK o \in Calls : o = organizations'[n].id
  BY <1>type, UpsertEffect
<1>1. FiledBy(k, o)' /\ OwnInv /\ TypeInv /\ audit \subseteq audit'
  BY <1>o, FiledNow DEF AttributedInv, OwnInv, Effect, Kept
<1>2. /\ \A r \in claimRequests : r.by \in Calls
      /\ \A x \in Calls : endpoints[x] \in Calls \union {None}
      /\ \A key \in apiKeys : key.by \in Calls
  BY <1>1 DEF TypeInv, TypeOK
<1>3. \A j \in Calls : \A x : FiledBy(j, x) => FiledBy(j, x)'
  BY <1>1, FiledStill
<1>4. ASSUME NEW r \in claimRequests'
      PROVE  /\ FiledBy(r.by, r.organization)'
             /\ Log("claim_request.created", r.organization, r.by) \in audit'
  <2>1. CASE r \in claimRequests
    BY <1>1, <1>2, <1>3, <2>1 DEF AttributedInv
  <2>2. CASE r \notin claimRequests
    <3>1. /\ r = [by |-> k, organization |-> o]
          /\ audit' = audit \union {Log("claim_request.created", o, k)}
      BY <1>1, <1>o, <1>4, <2>2, UpsertEffect
    <3>2. QED
      BY <1>1, <3>1
  <2>3. QED
    BY <2>1, <2>2
<1>5. ASSUME NEW x \in Calls, NEW j, endpoints'[x] = j, j # None
      PROVE  FiledBy(j, x)'
  <2>1. CASE endpoints[x] = j
    BY <1>2, <1>3, <1>5, <2>1 DEF AttributedInv
  <2>2. CASE endpoints[x] # j
    <3>1. UNCHANGED endpoints \/ endpoints' = [endpoints EXCEPT ![o] = k]
      BY <1>1, <1>o, UpsertEffect
    <3>2. x = o /\ j = k
      BY <1>1, <1>5, <2>2, <3>1 DEF TypeInv, TypeOK
    <3>3. QED
      BY <1>1, <3>2
  <2>3. QED
    BY <2>1, <2>2
<1>6. ASSUME NEW key \in apiKeys'
      PROVE  FiledBy(key.by, key.organization)'
  <2>1. CASE key \in apiKeys
    BY <1>2, <1>3, <2>1 DEF AttributedInv
  <2>2. CASE key \notin apiKeys
    <3>1. key = [by |-> k, organization |-> o]
      BY <1>1, <1>o, <1>6, <2>2, UpsertEffect
    <3>2. QED
      BY <1>1, <3>1
  <2>3. QED
    BY <2>1, <2>2
<1>7. \A x \in Calls : endpoints'[x] # None => FiledBy(endpoints[x], x)'
  BY <1>5 DEF FiledBy, BelongsTo
<1>8. QED
  BY <1>4, <1>6, <1>7 DEF AttributedInv

LEMMA OtherAttributed ==
  ASSUME AttributedInv, OwnInv', NEW k \in Calls, Effect(k),
         UNCHANGED <<claimRequests, endpoints, apiKeys>>
  PROVE  AttributedInv'
<1>1. OwnInv /\ TypeInv /\ audit \subseteq audit'
  BY DEF AttributedInv, OwnInv, Effect, Kept
<1>2. /\ \A r \in claimRequests : r.by \in Calls
      /\ \A x \in Calls : endpoints[x] \in Calls \union {None}
      /\ \A key \in apiKeys : key.by \in Calls
  BY <1>1 DEF TypeInv, TypeOK
<1>3. \A j \in Calls : \A x : FiledBy(j, x) => FiledBy(j, x)'
  BY <1>1, FiledStill
<1>4. ASSUME NEW r \in claimRequests'
      PROVE  /\ FiledBy(r.by, r.organization)'
             /\ Log("claim_request.created", r.organization, r.by) \in audit'
  BY <1>1, <1>2, <1>3 DEF AttributedInv
<1>5. ASSUME NEW x \in Calls, NEW j, endpoints'[x] = j, j # None
      PROVE  FiledBy(j, x)'
  BY <1>2, <1>3, <1>5 DEF AttributedInv
<1>6. ASSUME NEW key \in apiKeys'
      PROVE  FiledBy(key.by, key.organization)'
  BY <1>2, <1>3 DEF AttributedInv
<1>7. \A x \in Calls : endpoints'[x] # None => FiledBy(endpoints[x], x)'
  BY <1>5 DEF FiledBy, BelongsTo
<1>8. QED
  BY <1>4, <1>6, <1>7 DEF AttributedInv

LEMMA StepAttributed == AttributedInv /\ [Next]_vars => AttributedInv'
<1> SUFFICES ASSUME AttributedInv, [Next]_vars PROVE AttributedInv'
  OBVIOUS
<1>own. OwnInv /\ OwnInv' /\ TypeInv
  BY OwnInvariantStep DEF AttributedInv, OwnInv
<1>1. ASSUME NEW k \in Calls, Act(k)
      PROVE  AttributedInv'
  <2>1. Effect(k)
    BY <1>own, <1>1, ActEffect
  <2>2. ASSUME NEW n \in Names, NEW t \in Types, Upserts(k, None, n, t)
        PROVE  AttributedInv'
    BY <1>own, <2>1, <2>2, UpsertAttributed
  <2>3. CASE /\ call[k].stage \in {"create", "configure"}
             /\ call[k].account \in Calls /\ call[k].name \in Names /\ call[k].type \in Types
             /\ Upserts(k, call[k].account, call[k].name, call[k].type)
    <3>1. organizations[call[k].name].id = call[k].account
      BY <1>own, <2>3 DEF OwnInv, CallsOwn, Acting
    <3>2. QED
      BY <1>own, <2>1, <2>3, <3>1, UpsertAttributed
  <2>4. CASE UNCHANGED <<claimRequests, endpoints, apiKeys>>
    BY <1>own, <2>1, <2>4, OtherAttributed
  <2>5. QED
    BY <1>own, <1>1, <2>2, <2>3, <2>4, ActCases
       DEF CreateUser, FindCredentials, RegisterAccount, AuthenticateOrganization, RecordLogin,
           AnswerLogin, FindUser, LoseCall
<1>2. CASE UNCHANGED vars
  BY <1>2, <1>own DEF vars, AttributedInv, FiledBy, BelongsTo
<1>3. QED
  BY <1>1, <1>2, NextIsAct

(* Whatever is written for a name belongs to the organization that has it, *)
(* and to the very one that was authenticated a transaction before, with   *)
(* any other calls upserting the name in between.                          *)
THEOREM WritesAttributed == Spec => []AttributedToCaller
<1>1. Init => AttributedInv
  BY OwnInvariantInit DEF Init, AttributedInv
<1>2. AttributedInv => AttributedToCaller
  BY DEF AttributedInv, AttributedToCaller, FiledBy
<1>3. QED
  BY <1>1, <1>2, StepAttributed, PTL DEF Spec

(***************************************************************************)
(* Sessions.  A call that is to answer a login has logged it; which of the *)
(* two events that was stays clear, as no organization becomes a user.     *)
(***************************************************************************)
LoginLogged(a, k) ==
    /\ IsUser(a) \/ IsOrganizationAccount(a)
    /\ Log(LoginEvent(a), a, k) \in audit

SessionInv ==
    /\ OwnInv
    /\ \A s \in sessions : LoginLogged(s.account, s.by)
    /\ \A k \in Calls : call[k].stage = "answer" => LoginLogged(call[k].account, k)

LEMMA LoggedStill ==
  ASSUME OwnInv, NEW k \in Calls, Effect(k), NEW a \in Calls, NEW j, LoginLogged(a, j)
  PROVE  LoginLogged(a, j)'
<1>1. /\ (IsUser(a) \/ IsOrganizationAccount(a))'
      /\ IsUser(a)' <=> IsUser(a)
  BY AccountsStay, NameAssumption DEF LoginLogged
<1>2. LoginEvent(a)' = LoginEvent(a)
  BY <1>1 DEF LoginEvent
<1>3. QED
  BY <1>1, <1>2 DEF LoginLogged, Effect, Kept, Log

(* A step that starts no session and records no login.                     *)
LEMMA NoNewSession ==
  ASSUME SessionInv, OwnInv', NEW k \in Calls, Effect(k), UNCHANGED sessions,
         call'[k].stage # "answer"
  PROVE  SessionInv'
<1>1. OwnInv /\ TypeInv
  BY DEF SessionInv, OwnInv
<1>2. ASSUME NEW s \in sessions PROVE LoginLogged(s.account, s.by)'
  <2>1. s.account \in Calls /\ LoginLogged(s.account, s.by)
    BY <1>1 DEF SessionInv, TypeInv, TypeOK
  <2>2. QED
    BY <1>1, <2>1, LoggedStill
<1>3. ASSUME NEW j \in Calls, NEW a, call'[j].stage = "answer", call'[j].account = a
      PROVE  LoginLogged(a, j)'
  <2>1. call'[j] = call[j]
    BY <1>3 DEF Effect, Kept
  <2>2. a \in Calls /\ LoginLogged(a, j)
    BY <1>1, <1>3, <2>1, FieldTypes DEF SessionInv, SigningIn
  <2>3. QED
    BY <1>1, <2>2, LoggedStill
<1>4. QED
  BY <1>2, <1>3 DEF SessionInv, LoginLogged, LoginEvent, IsUser, IsOrganizationAccount

LEMMA StepSession == SessionInv /\ [Next]_vars => SessionInv'
<1> SUFFICES ASSUME SessionInv, [Next]_vars PROVE SessionInv'
  OBVIOUS
<1>own. OwnInv /\ OwnInv' /\ TypeInv /\ TypeOK
  BY OwnInvariantStep DEF SessionInv, OwnInv, TypeInv
<1>1. ASSUME NEW k \in Calls, Effect(k), RecordLogin(k)
      PROVE  SessionInv'
  <2>1. /\ call'[k].stage = "answer" /\ call'[k].account = call[k].account
        /\ \A j \in Calls : j # k => call'[j] = call[j]
    <3>1. "answer" \in Stages
      BY DEF Stages
    <3>2. QED
      BY <1>1, <1>own, <3>1, MovedCall DEF RecordLogin
  <2>2. PICK a \in Calls : a = call[k].account
    BY <1>1, <1>own, FieldTypes DEF RecordLogin, SigningIn
  <2>3. LoginLogged(a, k)'
    BY <1>1, <1>own, <2>2 DEF RecordLogin, LoginLogged, LoginEvent, IsUser,
       IsOrganizationAccount, OwnInv, CallsOwn, SigningIn
  <2>4. ASSUME NEW s \in sessions PROVE LoginLogged(s.account, s.by)'
    <3>1. s.account \in Calls /\ LoginLogged(s.account, s.by)
      BY <1>own DEF SessionInv, TypeOK
    <3>2. QED
      BY <1>1, <1>own, <3>1, LoggedStill
  <2>5. ASSUME NEW j \in Calls, NEW b, call'[j].stage = "answer", call'[j].account = b
        PROVE  LoginLogged(b, j)'
    <3>1. CASE j = k
      BY <2>1, <2>2, <2>3, <2>5, <3>1
    <3>2. CASE j # k
      <4>1. b \in Calls /\ LoginLogged(b, j)
        BY <1>own, <2>1, <2>5, <3>2, FieldTypes DEF SessionInv, SigningIn
      <4>2. QED
        BY <1>1, <1>own, <4>1, LoggedStill
    <3>3. QED
      BY <3>1, <3>2
  <2>6. UNCHANGED sessions
    BY <1>1 DEF RecordLogin
  <2>7. QED
    BY <1>own, <2>4, <2>5, <2>6
       DEF SessionInv, LoginLogged, LoginEvent, IsUser, IsOrganizationAccount
<1>2. ASSUME NEW k \in Calls, Effect(k), AnswerLogin(k)
      PROVE  SessionInv'
  <2>1. /\ call'[k].stage = "done"
        /\ \A j \in Calls : j # k => call'[j] = call[j]
    BY <1>2, <1>own, EndedCall DEF AnswerLogin, Done
  <2>2. LoginLogged(call[k].account, k) /\ call[k].account \in Calls
    BY <1>2, <1>own, FieldTypes DEF AnswerLogin, SessionInv, SigningIn
  <2>3. ASSUME NEW s \in sessions' PROVE LoginLogged(s.account, s.by)'
    <3>1. s.account \in Calls /\ LoginLogged(s.account, s.by)
      <4>1. CASE s \in sessions
        BY <1>own, <4>1 DEF SessionInv, TypeOK
      <4>2. CASE s = [account |-> call[k].account, by |-> k]
        BY <2>2, <4>2
      <4>3. QED
        BY <1>2, <2>3, <4>1, <4>2 DEF AnswerLogin
    <3>2. QED
      BY <1>2, <1>own, <3>1, LoggedStill
  <2>4. ASSUME NEW j \in Calls, NEW b, call'[j].stage = "answer", call'[j].account = b
        PROVE  LoginLogged(b, j)'
    <3>1. b \in Calls /\ LoginLogged(b, j)
      BY <1>own, <2>1, <2>4, FieldTypes DEF SessionInv, SigningIn
    <3>2. QED
      BY <1>2, <1>own, <3>1, LoggedStill
  <2>5. QED
    BY <1>own, <2>3, <2>4
       DEF SessionInv, LoginLogged, LoginEvent, IsUser, IsOrganizationAccount
<1>3. ASSUME NEW k \in Calls, Effect(k), UNCHANGED sessions, call'[k].stage # "answer"
      PROVE  SessionInv'
  BY <1>3, <1>own, NoNewSession
<1>4. ASSUME NEW k \in Calls, Act(k)
      PROVE  SessionInv'
  <2>1. Effect(k)
    BY <1>own, <1>4, ActEffect
  <2>2. ASSUME NEW account \in Calls \union {None}, NEW n \in Names, NEW t \in Types,
               Upserts(k, account, n, t)
        PROVE  SessionInv'
    BY <1>own, <1>3, <2>1, <2>2, UpsertEffect, EndedCall
  <2>3. CASE \/ \E e \in Emails : CreateUser(k, e)
             \/ \E n \in Names, e \in Emails, t \in Types : RegisterAccount(k, n, e, t)
             \/ LoseCall(k)
    BY <1>own, <1>3, <2>1, <2>3, EndedCall DEF CreateUser, RegisterAccount, LoseCall, Done
  <2>4. ASSUME NEW a \in Calls, NEW matches \in BOOLEAN, FindCredentials(k, a, matches)
        PROVE  SessionInv'
    <3>1. call'[k].stage \in {"login", "done"}
      <4>1. CASE Done(k)
        BY <1>own, <4>1, EndedCall DEF Done
      <4>2. CASE call' = [call EXCEPT ![k] = [@ EXCEPT !.stage = "login", !.account = a]]
        BY <1>own, <4>2 DEF TypeOK
      <4>3. QED
        BY <2>4, <4>1, <4>2 DEF FindCredentials
    <3>2. QED
      BY <1>3, <2>1, <2>4, <3>1 DEF FindCredentials
  <2>5. ASSUME NEW n \in Names, NEW stage \in {"lookup", "configure"},
               AuthenticateOrganization(k, n, stage)
        PROVE  SessionInv'
    <3>1. call'[k].stage = stage
      BY <1>own, <2>5 DEF AuthenticateOrganization, TypeOK
    <3>2. QED
      BY <1>3, <2>1, <2>5, <3>1 DEF AuthenticateOrganization
  <2>6. CASE FindUser(k)
    <3>1. call'[k].stage \in {"create", "done"}
      <4>1. CASE Done(k)
        BY <1>own, <4>1, EndedCall DEF Done
      <4>2. CASE call' = [call EXCEPT ![k].stage = "create"]
        BY <1>own, <4>2, MovedCall DEF Stages
      <4>3. QED
        BY <2>6, <4>1, <4>2 DEF FindUser
    <3>2. QED
      BY <1>3, <2>1, <2>6, <3>1 DEF FindUser
  <2>7. QED
    BY <1>own, <1>1, <1>2, <1>4, <2>1, <2>2, <2>3, <2>4, <2>5, <2>6, ActCases
<1>5. CASE UNCHANGED vars
  BY <1>5, <1>own
     DEF vars, SessionInv, LoginLogged, LoginEvent, IsUser, IsOrganizationAccount
<1>6. QED
  BY <1>4, <1>5, NextIsAct

(* No client holds a token whose login is not in the audit trail, though   *)
(* the token is signed before the trail is written.                        *)
THEOREM SessionsLogged == Spec => []SessionsAudited
<1>1. Init => SessionInv
  BY OwnInvariantInit DEF Init, SessionInv, NewCall
<1>2. SessionInv => SessionsAudited
  BY DEF SessionInv, SessionsAudited, LoginLogged
<1>3. QED
  BY <1>1, <1>2, StepSession, PTL DEF Spec

(***************************************************************************)
(* The type of an organization: who wrote it, or what it was when it was   *)
(* read, goes back to a call that was given it.                            *)
(***************************************************************************)
Given(n, t) ==
    \E k \in Calls : /\ call[k].stage = "done" /\ call[k].account = None
                     /\ call[k].name = n /\ call[k].type = t

GivenInv ==
    /\ OwnInv
    /\ \A n \in Names : Known(n) => Given(n, organizations[n].type)
    /\ \A k \in Calls : Acting(k) => Given(call[k].name, call[k].type)

LEMMA GivenStill ==
  ASSUME NEW k \in Calls, Effect(k), NEW n, NEW t, Given(n, t)
  PROVE  Given(n, t)'
  BY DEF Given, Effect, Kept

LEMMA StepGiven ==
  ASSUME GivenInv, OwnInv', NEW k \in Calls, Effect(k),
         \A n \in Names : \/ organizations'[n] = organizations[n]
                          \/ Given(n, organizations[n].type)'
  PROVE  GivenInv'
<1>1. OwnInv /\ TypeInv
  BY DEF GivenInv, OwnInv
<1>2. ASSUME NEW n \in Names, Known(n)', NEW t, t = organizations'[n].type
      PROVE  Given(n, t)'
  <2>1. CASE organizations'[n] = organizations[n]
    BY <1>2, <2>1, GivenStill DEF GivenInv, Known
  <2>2. CASE organizations'[n] # organizations[n]
    BY <1>2, <2>2 DEF Given
  <2>3. QED
    BY <2>1, <2>2
<1>3. ASSUME NEW j \in Calls, Acting(j)', NEW n, NEW t, n = call'[j].name, t = call'[j].type
      PROVE  Given(n, t)'
  <2>1. Given(n, t)
    <3>1. CASE j # k
      BY <1>3, <3>1 DEF GivenInv, Effect, Kept, Acting
    <3>2. CASE j = k
      <4>1. n \in Names /\ call'[k].account # None
        BY <1>3, <3>2, NameAssumption DEF OwnInv, TypeInv, TypeOK, CallShape
      <4>2. QED
        BY <1>3, <3>2, <4>1 DEF GivenInv, Effect, Held, Known
    <3>3. QED
      BY <3>1, <3>2
  <2>2. QED
    BY <2>1, GivenStill
<1>4. QED
  BY <1>2, <1>3 DEF GivenInv, Given

LEMMA StepGivenNext == GivenInv /\ [Next]_vars => GivenInv'
<1> SUFFICES ASSUME GivenInv, [Next]_vars PROVE GivenInv'
  OBVIOUS
<1>own. OwnInv /\ OwnInv' /\ TypeInv /\ TypeOK
  BY OwnInvariantStep DEF GivenInv, OwnInv, TypeInv
<1>1. ASSUME NEW k \in Calls, Effect(k), NEW account \in Calls \union {None},
             NEW n \in Names, NEW t \in Types, Upserts(k, account, n, t),
             account = None \/ Given(n, t)
      PROVE  GivenInv'
  <2>1. /\ organizations' = Upserted(n, k, t) /\ Ended(k, account, n, t)
    BY <1>1, <1>own, UpsertEffect
  <2>2. /\ organizations'[n].type = t
        /\ \A m \in Names : m # n => organizations'[m] = organizations[m]
    BY <1>own, <2>1, UpsertedRow
  <2>3. Given(n, t)'
    <3>1. CASE account = None
      BY <1>own, <2>1, <3>1, EndedCall DEF Given
    <3>2. CASE Given(n, t)
      BY <1>1, <3>2, GivenStill
    <3>3. QED
      BY <1>1, <3>1, <3>2
  <2>4. Given(n, organizations[n].type)'
    BY <2>2, <2>3 DEF Given
  <2>5. QED
    BY <1>1, <1>own, <2>2, <2>4, StepGiven
<1>2. ASSUME NEW k \in Calls, Effect(k), NEW n \in Names, NEW e \in Emails, NEW t \in Types,
             RegisterAccount(k, n, e, t)
      PROVE  GivenInv'
  <2>1. CASE UNCHANGED organizations
    BY <1>2, <1>own, <2>1, StepGiven
  <2>2. CASE /\ organizations' = [organizations EXCEPT ![n] = [id |-> k, email |-> e, type |-> t]]
             /\ Ended(k, None, n, t)
    <3>1. /\ organizations'[n].type = t
          /\ \A m \in Names : m # n => organizations'[m] = organizations[m]
      BY <1>own, <2>2 DEF TypeOK
    <3>2. Given(n, organizations[n].type)'
      BY <1>own, <2>2, <3>1, EndedCall DEF Given
    <3>3. QED
      BY <1>2, <1>own, <3>1, <3>2, StepGiven
  <2>3. QED
    BY <1>2, <2>1, <2>2 DEF RegisterAccount
<1>3. ASSUME NEW k \in Calls, Effect(k), UNCHANGED organizations
      PROVE  GivenInv'
  BY <1>3, <1>own, StepGiven
<1>4. ASSUME NEW k \in Calls, Act(k)
      PROVE  GivenInv'
  <2>1. Effect(k)
    BY <1>own, <1>4, ActEffect
  <2>2. CASE /\ call[k].stage \in {"create", "configure"}
             /\ call[k].account \in Calls /\ call[k].name \in Names /\ call[k].type \in Types
             /\ Upserts(k, call[k].account, call[k].name, call[k].type)
    <3>1. Given(call[k].name, call[k].type)
      BY <2>2 DEF GivenInv, Acting
    <3>2. QED
      BY <1>1, <2>1, <2>2, <3>1
  <2>3. ASSUME NEW n \in Names, NEW t \in Types, Upserts(k, None, n, t)
        PROVE  GivenInv'
    BY <1>1, <2>1, <2>3
  <2>4. QED
    BY <1>own, <1>2, <1>3, <1>4, <2>1, <2>2, <2>3, ActCases
       DEF CreateUser, FindCredentials, AuthenticateOrganization, RecordLogin, AnswerLogin,
           FindUser, LoseCall
<1>5. CASE UNCHANGED vars
  BY <1>5, <1>own DEF vars, GivenInv, Given, Known, Acting
<1>6. QED
  BY <1>4, <1>5, NextIsAct

(* However organizations write back a type they read before, a name has a  *)
(* type that some call gave it.                                            *)
THEOREM TypesGiven == Spec => []TypeWasGiven
<1>1. Init => GivenInv
  BY OwnInvariantInit DEF Init, GivenInv, Known, Acting, NewCall, NoOrganization
<1>2. GivenInv => TypeWasGiven
  BY DEF GivenInv, TypeWasGiven, Given
<1>3. QED
  BY <1>1, <1>2, StepGivenNext, PTL DEF Spec

(***************************************************************************)
(* The contract of organizations.  A call that acts was admitted when it   *)
(* authenticated, and no token or key is ever taken back.                  *)
(***************************************************************************)
CallersAdmitted == \A k \in Calls : Acting(k) => Authenticates(call[k].account)

ContractInv == SessionInv /\ AttributedInv /\ CallersAdmitted

LEMMA CredentialsGrow ==
  ASSUME TypeInv, NEW k \in Calls, Act(k)
  PROVE  apiKeys \subseteq apiKeys' /\ sessions \subseteq sessions'
<1>1. ASSUME NEW account \in Calls \union {None}, NEW n \in Names, NEW t \in Types,
             Upserts(k, account, n, t)
      PROVE  apiKeys \subseteq apiKeys' /\ sessions \subseteq sessions'
  BY <1>1, UpsertEffect
<1>2. QED
  BY <1>1, ActCases DEF CreateUser, FindCredentials, RegisterAccount, AuthenticateOrganization,
     RecordLogin, AnswerLogin, FindUser, LoseCall

(* A call that acts after a step of its own has authenticated in it, or    *)
(* acted before.                                                           *)
LEMMA ActsOn ==
  ASSUME TypeInv, NEW k \in Calls, Act(k), Acting(k)'
  PROVE  \/ Acting(k) /\ call'[k].account = call[k].account
         \/ Authenticates(call'[k].account)
<1>type. TypeOK
  BY DEF TypeInv
<1>1. ASSUME NEW account \in Calls \union {None}, NEW n \in Names \union {None},
             NEW t \in Types \union {None}, Ended(k, account, n, t)
      PROVE  FALSE
  BY <1>1, <1>type, EndedCall DEF Acting
<1>2. ~ Done(k)
  BY <1>1 DEF Done
<1>3. ASSUME NEW n \in Names, NEW e \in Emails, NEW t \in Types, RegisterAccount(k, n, e, t)
      PROVE  FALSE
  BY <1>1, <1>2, <1>3 DEF RegisterAccount
<1>4. ASSUME NEW a \in Calls, NEW matches \in BOOLEAN, FindCredentials(k, a, matches)
      PROVE  FALSE
  <2>1. call' = [call EXCEPT ![k] = [@ EXCEPT !.stage = "login", !.account = a]]
    BY <1>2, <1>4 DEF FindCredentials
  <2>2. call'[k].stage = "login"
    BY <1>type, <2>1 DEF TypeOK
  <2>3. QED
    BY <2>2 DEF Acting
<1>5. ~ RecordLogin(k)
  <2>1. RecordLogin(k) => call'[k].stage = "answer"
    BY <1>type, MovedCall DEF RecordLogin, Stages
  <2>2. QED
    BY <2>1 DEF Acting
<1>6. ASSUME NEW n \in Names, NEW stage \in {"lookup", "configure"},
             AuthenticateOrganization(k, n, stage)
      PROVE  Authenticates(call'[k].account)
  BY <1>6, <1>type DEF AuthenticateOrganization, TypeOK
<1>7. CASE FindUser(k)
  <2>1. call' = [call EXCEPT ![k].stage = "create"] /\ "create" \in Stages
    BY <1>2, <1>7 DEF FindUser, Stages
  <2>2. QED
    BY <1>7, <1>type, <2>1, MovedCall DEF FindUser, Acting
<1>8. ASSUME NEW account \in Calls \union {None}, NEW n \in Names, NEW t \in Types,
             Upserts(k, account, n, t)
      PROVE  FALSE
  BY <1>1, <1>8, UpsertEffect
<1>9. QED
  BY <1>2, <1>3, <1>4, <1>5, <1>6, <1>7, <1>8, ActCases DEF CreateUser, AnswerLogin, LoseCall

LEMMA StepContractInv == ContractInv /\ [Next]_vars => ContractInv'
<1> SUFFICES ASSUME ContractInv, [Next]_vars PROVE ContractInv'
  OBVIOUS
<1>1. TypeInv /\ SessionInv' /\ AttributedInv'
  BY StepSession, StepAttributed DEF ContractInv, SessionInv, OwnInv
<1>2. ASSUME NEW k \in Calls, Act(k), NEW j \in Calls, NEW a, Acting(j)', a = call'[j].account
      PROVE  Authenticates(a)'
  <2>1. \A o : Authenticates(o) => Authenticates(o)'
    BY <1>1, <1>2, CredentialsGrow DEF Authenticates
  <2>2. CASE j = k
    BY <1>1, <1>2, <2>1, <2>2, ActsOn DEF ContractInv, CallersAdmitted
  <2>3. CASE j # k
    <3>1. call'[j] = call[j]
      BY <1>1, <1>2, <2>3, ActEffect DEF Effect, Kept
    <3>2. QED
      BY <1>2, <2>1, <3>1 DEF ContractInv, CallersAdmitted, Acting
  <2>4. QED
    BY <2>2, <2>3
<1>3. CASE \E k \in Calls : Act(k)
  <2>1. CallersAdmitted'
    BY <1>2, <1>3 DEF CallersAdmitted, Authenticates
  <2>2. QED
    BY <1>1, <2>1 DEF ContractInv
<1>4. CASE UNCHANGED vars
  <2>1. CallersAdmitted'
    BY <1>4 DEF vars, ContractInv, CallersAdmitted, Acting, Authenticates
  <2>2. QED
    BY <1>1, <2>1 DEF ContractInv
<1>5. QED
  BY <1>3, <1>4, NextIsAct

(* Whoever holds a token or a key is an account, made by a call that is    *)
(* done.                                                                   *)
LEMMA CredentialsOfDone ==
  ASSUME ContractInv, NEW a, Authenticates(a)
  PROVE  a \in Calls /\ call[a].stage = "done"
<1>own. OwnInv /\ TypeInv /\ TypeOK
  BY DEF ContractInv, SessionInv, OwnInv, TypeInv
<1>1. ASSUME NEW s \in sessions, s.account = a
      PROVE  a \in Calls /\ call[a].stage = "done"
  <2>1. a \in Calls /\ (IsUser(a) \/ IsOrganizationAccount(a))
    BY <1>own, <1>1 DEF TypeOK, ContractInv, SessionInv, LoginLogged
  <2>2. QED
    BY <1>own, <2>1, NameAssumption
       DEF IsUser, IsOrganizationAccount, OwnInv, NamesOwned, Known
<1>2. ASSUME NEW key \in apiKeys, key.organization = a
      PROVE  a \in Calls /\ call[a].stage = "done"
  <2>1. key.by \in Calls /\ a \in Calls /\ FiledBy(key.by, a)
    BY <1>own, <1>2 DEF TypeOK, ContractInv, AttributedInv
  <2>2. a = organizations[call[key.by].name].id /\ Known(call[key.by].name)
        /\ call[key.by].name \in Names
    BY <1>own, <2>1, FieldTypes DEF FiledBy, BelongsTo, OwnInv, NamesOwned
  <2>3. QED
    BY <1>own, <2>1, <2>2 DEF OwnInv, NamesOwned
<1>3. QED
  BY <1>1, <1>2 DEF Authenticates

LEMMA AdmittedOld ==
  ASSUME ContractInv, NEW k \in Calls, Effect(k), NEW n \in Names,
         Known(n)', NEW o, organizations'[n].id = o, Authenticates(o)
  PROVE  o \in Admitted
<1>1. o \in Calls /\ o # k /\ o # None
  BY CredentialsOfDone, NameAssumption DEF Effect, Kept
<1>2. organizations[n].id = o
  BY <1>1 DEF Effect, Added
<1>3. QED
  BY <1>1, <1>2 DEF Admitted, Known

LEMMA AdmittedStill ==
  ASSUME NEW k \in Calls, Effect(k), Act(k), TypeInv
  PROVE  Admitted \subseteq Admitted'
<1>1. \A o : Authenticates(o) => Authenticates(o)'
  BY CredentialsGrow DEF Authenticates
<1>2. \A n \in Names : Known(n) => Known(n)' /\ organizations'[n].id = organizations[n].id
  BY DEF Effect, Kept, Known
<1>3. ASSUME NEW n \in Names, Known(n), Authenticates(organizations[n].id)
      PROVE  organizations[n].id \in Admitted'
  <2>1. Known(n)' /\ organizations'[n].id = organizations[n].id
        /\ Authenticates(organizations[n].id)'
    BY <1>1, <1>2, <1>3 DEF Authenticates
  <2>2. QED
    BY <2>1 DEF Admitted, Authenticates
<1>4. QED
  BY <1>3 DEF Admitted

LEMMA AdmittedSame ==
  ASSUME ContractInv, NEW k \in Calls, Effect(k), Act(k), UNCHANGED <<apiKeys, sessions>>
  PROVE  Admitted' = Admitted
<1>1. TypeInv
  BY DEF ContractInv, SessionInv, OwnInv
<1>2. ASSUME NEW o \in Admitted'
      PROVE  o \in Admitted
  <2>1. PICK n \in Names : /\ Known(n)' /\ organizations'[n].id = o
                           /\ Authenticates(organizations[n].id)'
    BY DEF Admitted
  <2>2. Authenticates(o)
    BY <2>1 DEF Authenticates
  <2>3. QED
    BY <2>1, <2>2, AdmittedOld
<1>3. QED
  BY <1>1, <1>2, AdmittedStill

LEMMA AdmittedByKey ==
  ASSUME ContractInv, NEW k \in Calls, Effect(k), Act(k), NEW n \in Names, NEW o \in Calls,
         o = organizations'[n].id, UNCHANGED sessions,
         apiKeys' = apiKeys \union {[by |-> k, organization |-> o]}
  PROVE  Admitted' = Admitted \union {o}
<1>1. TypeInv
  BY DEF ContractInv, SessionInv, OwnInv
<1>2. ASSUME NEW p \in Admitted', p # o
      PROVE  p \in Admitted
  <2>1. PICK m \in Names : /\ Known(m)' /\ organizations'[m].id = p
                           /\ Authenticates(organizations[m].id)'
    BY DEF Admitted
  <2>2. Authenticates(p)
    BY <1>2, <2>1 DEF Authenticates
  <2>3. QED
    BY <2>1, <2>2, AdmittedOld
<1>3. o \in Admitted'
  <2>1. \E key \in apiKeys' : key.organization = organizations'[n].id
    <3>1. [by |-> k, organization |-> o] \in apiKeys'
      OBVIOUS
    <3>2. [by |-> k, organization |-> o].organization = organizations'[n].id
      OBVIOUS
    <3>3. QED
      BY <3>1, <3>2
  <2>2. organizations'[n].id # None
    BY NameAssumption
  <2>3. Known(n)' /\ Authenticates(organizations[n].id)'
    BY <2>1, <2>2 DEF Known, Authenticates
  <2>4. QED
    BY <2>3 DEF Admitted
<1>4. QED
  BY <1>1, <1>2, <1>3, AdmittedStill

(* A token of an organization admits it; that of a user admits none, as    *)
(* no organization is named after the call that made a user.               *)
LEMMA AdmittedByLogin ==
  ASSUME ContractInv, NEW k \in Calls, Effect(k), AnswerLogin(k), Act(k)
  PROVE  \/ Admitted' = Admitted
         \/ \E n \in Names : /\ organizations[n].email # None
                             /\ Admitted' = Admitted \union {organizations[n].id}
<1>own. OwnInv /\ TypeInv
  BY DEF ContractInv, SessionInv, OwnInv
<1>1. PICK a \in Calls : a = call[k].account
  BY <1>own, FieldTypes DEF AnswerLogin, SigningIn
<1>2. IsUser(a) \/ IsOrganizationAccount(a)
  BY <1>1 DEF AnswerLogin, ContractInv, SessionInv, LoginLogged
<1>3. /\ sessions' = sessions \union {[account |-> a, by |-> k]}
      /\ UNCHANGED <<organizations, apiKeys>>
  BY <1>1 DEF AnswerLogin
<1>4. ASSUME NEW p \in Admitted', p # a
      PROVE  p \in Admitted
  <2>1. PICK m \in Names : /\ Known(m)' /\ organizations'[m].id = p
                           /\ Authenticates(organizations[m].id)'
    BY DEF Admitted
  <2>2. Authenticates(p)
    BY <1>3, <1>4, <2>1 DEF Authenticates
  <2>3. QED
    BY <2>1, <2>2, AdmittedOld
<1>5. CASE IsOrganizationAccount(a)
  <2>1. PICK n \in Names : organizations[n].id = a /\ organizations[n].email # None
    BY <1>5 DEF IsOrganizationAccount
  <2>2. a \in Admitted'
    <3>1. organizations'[n].id = a /\ a # None /\ \E s \in sessions' : s.account = a
      <4>1. [account |-> a, by |-> k] \in sessions' /\ [account |-> a, by |-> k].account = a
        BY <1>3
      <4>2. QED
        BY <1>3, <2>1, <4>1, NameAssumption
    <3>2. Known(n)' /\ organizations'[n].id = a /\ Authenticates(organizations[n].id)'
      BY <3>1 DEF Known, Authenticates
    <3>3. QED
      BY <3>2 DEF Admitted
  <2>3. Admitted' = Admitted \union {a}
    BY <1>own, <1>4, <2>2, AdmittedStill
  <2>4. QED
    BY <2>1, <2>3
<1>6. CASE IsUser(a)
  <2>1. \A n \in Names : organizations'[n].id # a
    BY <1>own, <1>3, <1>6, NameAssumption DEF IsUser, OwnInv, NamesOwned, Known
  <2>2. a \notin Admitted'
    BY <2>1 DEF Admitted
  <2>3. QED
    BY <1>own, <1>4, <2>2, AdmittedStill
<1>7. QED
  BY <1>2, <1>5, <1>6

(***************************************************************************)
(* What is filed, and the endpoints: as whom a row was written does not    *)
(* change, its call being done.                                            *)
(***************************************************************************)
LEMMA AsStill ==
  ASSUME NEW k \in Calls, Effect(k), NEW j \in Calls, NEW o, FiledBy(j, o)
  PROVE  As(j)' = As(j) /\ j # k
<1>1. call[j].stage = "done" /\ call[k].stage # "done"
  BY DEF FiledBy, Effect, Kept
<1>2. j # k /\ call'[j] = call[j]
  BY <1>1 DEF Effect, Kept
<1>3. QED
  BY <1>2 DEF As

Shown(r) == [by |-> r.by, organization |-> r.organization, as |-> As(r.by)]

LEMMA FiledShown == Filed = {Shown(r) : r \in claimRequests} /\ Filed' = {Shown(r)' : r \in claimRequests'}
  BY DEF Filed, Shown

LEMMA ShownStill ==
  ASSUME ContractInv, NEW k \in Calls, Effect(k), NEW r \in claimRequests
  PROVE  Shown(r)' = Shown(r) /\ r.by # k
<1>1. r.by \in Calls /\ FiledBy(r.by, r.organization)
  BY DEF ContractInv, AttributedInv, OwnInv, TypeInv, TypeOK
<1>2. As(r.by)' = As(r.by) /\ r.by # k
  BY <1>1, AsStill
<1>3. QED
  BY <1>2 DEF Shown

LEMMA FiledSame ==
  ASSUME ContractInv, NEW k \in Calls, Effect(k), UNCHANGED claimRequests
  PROVE  Filed' = Filed
  BY ShownStill, FiledShown

LEMMA FiledMore ==
  ASSUME ContractInv, NEW k \in Calls, Effect(k), NEW o,
         claimRequests' = claimRequests \union {[by |-> k, organization |-> o]}
  PROVE  /\ Filed' = Filed \union {[by |-> k, organization |-> o, as |-> call'[k].account]}
         /\ \A f \in Filed : f.by # k
<1> DEFINE new == [by |-> k, organization |-> o]
<1>1. Shown(new)' = [by |-> k, organization |-> o, as |-> call'[k].account]
  BY NameAssumption DEF Shown, As
<1>2. Filed' = {Shown(r)' : r \in claimRequests} \union {Shown(new)'}
  BY FiledShown
<1>3. {Shown(r)' : r \in claimRequests} = Filed
  BY ShownStill, FiledShown
<1>4. ASSUME NEW f \in Filed PROVE f.by # k
  <2>1. PICK r \in claimRequests : f = Shown(r)
    BY FiledShown
  <2>2. f.by = r.by
    BY <2>1 DEF Shown
  <2>3. QED
    BY <2>2, ShownStill
<1>5. QED
  BY <1>1, <1>2, <1>3, <1>4

LEMMA SettingSame ==
  ASSUME ContractInv, NEW k \in Calls, Effect(k), NEW x \in Calls, endpoints'[x] = endpoints[x]
  PROVE  As(endpoints[x])' = As(endpoints[x])
<1>1. CASE endpoints[x] = None
  BY <1>1 DEF As
<1>2. CASE endpoints[x] # None
  <2>1. PICK j \in Calls : j = endpoints[x] /\ FiledBy(j, x)
    BY <1>2 DEF ContractInv, AttributedInv, OwnInv, TypeInv, TypeOK
  <2>2. As(j)' = As(j)
    BY <2>1, AsStill
  <2>3. QED
    BY <2>1, <2>2 DEF As
<1>3. QED
  BY <1>1, <1>2

LEMMA SettingsSame ==
  ASSUME ContractInv, NEW k \in Calls, Effect(k), UNCHANGED endpoints
  PROVE  EndpointSetting' = EndpointSetting
  BY SettingSame DEF EndpointSetting

LEMMA SettingNew ==
  ASSUME ContractInv, NEW k \in Calls, Effect(k), NEW o \in Calls,
         endpoints' = [endpoints EXCEPT ![o] = k]
  PROVE  EndpointSetting' = [EndpointSetting EXCEPT ![o] = [by |-> k, as |-> call'[k].account]]
<1>1. endpoints \in [Calls -> Calls \union {None}]
  BY DEF ContractInv, AttributedInv, OwnInv, TypeInv, TypeOK
<1>2. endpoints'[o] = k /\ As(endpoints[o])' = call'[k].account
  BY <1>1, NameAssumption DEF As
<1>3. \A x \in Calls : x # o => endpoints'[x] = endpoints[x]
                                /\ As(endpoints[x])' = As(endpoints[x])
  BY <1>1, SettingSame
<1>4. QED
  BY <1>2, <1>3 DEF EndpointSetting

(***************************************************************************)
(* The steps of the contract.                                              *)
(***************************************************************************)

(* No name belongs to a call that is not done.                             *)
LEMMA IdIsNew ==
  ASSUME OwnInv, NEW k \in Calls, Effect(k)
  PROVE  \A m \in Names : Holder[m] # k
<1>1. \A m \in Names : organizations[m].id # k
  BY NameAssumption DEF OwnInv, NamesOwned, Known, Effect, Kept
<1>2. QED
  BY <1>1 DEF Holder

(* An upsert uses the name: it is the first to, or changes neither the     *)
(* owner nor the e-mail.                                                   *)
LEMMA UpsertUses ==
  ASSUME ContractInv, NEW k \in Calls, Effect(k), NEW account \in Calls \union {None},
         NEW n \in Names, NEW t \in Types, Upserts(k, account, n, t)
  PROVE  Promise!Use(n, k) /\ Holder'[n] = organizations'[n].id
<1>own. OwnInv /\ TypeInv /\ TypeOK
  BY DEF ContractInv, SessionInv, OwnInv, TypeInv
<1>1. organizations' = Upserted(n, k, t)
  BY <1>own, UpsertEffect
<1>2. /\ organizations'[n].id = IF Known(n) THEN organizations[n].id ELSE k
      /\ organizations'[n].email = IF Known(n) THEN organizations[n].email ELSE None
      /\ \A m \in Names : m # n => organizations'[m] = organizations[m]
  BY <1>own, <1>1, UpsertedRow
<1>3. Holder'[n] = organizations'[n].id
  BY DEF Holder
<1>4. SignsIn' = SignsIn
  <2>1. ~ Known(n) => organizations[n].email = None
    BY <1>own DEF TypeOK
  <2>2. \A m \in Names : organizations'[m].email = organizations[m].email
    BY <1>2, <2>1
  <2>3. QED
    BY <2>2 DEF SignsIn
<1>5. CASE Known(n)
  <2>1. \A m \in Names : organizations'[m].id = organizations[m].id
    BY <1>2, <1>5
  <2>2. Holder' = Holder /\ Holder[n] # None
    BY <1>5, <2>1 DEF Holder, Known
  <2>3. QED
    BY <1>3, <1>4, <2>2 DEF Promise!Use
<1>6. CASE ~ Known(n)
  <2>1. Holder' = [Holder EXCEPT ![n] = k]
    BY <1>2, <1>6 DEF Holder
  <2>2. Promise!Free(n, k)
    BY <1>own, <1>6, IdIsNew DEF Promise!Free, Holder, Known
  <2>3. QED
    BY <1>3, <1>4, <2>1, <2>2 DEF Promise!Use
<1>7. QED
  BY <1>5, <1>6

LEMMA UpsertKeepsPromise ==
  ASSUME ContractInv, NEW k \in Calls, Effect(k), Act(k), NEW account \in Calls \union {None},
         NEW n \in Names, NEW t \in Types, Upserts(k, account, n, t),
         account # None => account = organizations[n].id /\ Authenticates(account)
  PROVE  Promise!Next
<1>own. OwnInv /\ TypeInv /\ TypeOK
  BY DEF ContractInv, SessionInv, OwnInv, TypeInv
<1>o. PICK o \in Calls : o = organizations'[n].id
  BY <1>own, UpsertEffect
<1>1. Promise!Use(n, k) /\ Holder'[n] = o
  BY <1>o, UpsertUses
<1>2. UNCHANGED sessions /\ call'[k].account = account
  BY <1>own, UpsertEffect, EndedCall
<1>3. Promise!MayActAs(account, n)
  <2>1. CASE account = None
    BY <2>1 DEF Promise!MayActAs
  <2>2. CASE account # None
    <3>1. account = organizations[n].id /\ Authenticates(account) /\ Known(n)
      BY <2>2 DEF Known
    <3>2. account = Holder[n] /\ account \in Admitted
      BY <3>1 DEF Holder, Admitted
    <3>3. QED
      BY <3>2 DEF Promise!MayActAs
  <2>3. QED
    BY <2>1, <2>2
<1>4. CASE /\ apiKeys' = apiKeys \union {[by |-> k, organization |-> o]}
           /\ UNCHANGED <<claimRequests, endpoints, audit>>
  <2>1. Admitted' = Admitted \union {o}
    BY <1>o, <1>2, <1>4, AdmittedByKey
  <2>2. UNCHANGED <<Filed, EndpointSetting>>
    BY <1>4, FiledSame, SettingsSame
  <2>3. Promise!IssueKey(n, k)
    BY <1>1, <2>1, <2>2 DEF Promise!IssueKey
  <2>4. QED
    BY <2>3 DEF Promise!Next
<1>5. CASE /\ claimRequests' = claimRequests \union {[by |-> k, organization |-> o]}
           /\ UNCHANGED <<apiKeys, endpoints>>
  <2>1. UNCHANGED <<Admitted, EndpointSetting>>
    BY <1>2, <1>5, AdmittedSame, SettingsSame
  <2>2. /\ Filed' = Filed \union {[by |-> k, organization |-> o, as |-> account]}
        /\ \A f \in Filed : f.by # k
    BY <1>2, <1>5, FiledMore
  <2>3. Promise!File(n, k, account)
    BY <1>1, <1>3, <2>1, <2>2 DEF Promise!File
  <2>4. QED
    BY <2>3 DEF Promise!Next
<1>6. CASE /\ endpoints' = [endpoints EXCEPT ![o] = k]
           /\ UNCHANGED <<apiKeys, claimRequests>>
  <2>1. UNCHANGED <<Admitted, Filed>>
    BY <1>2, <1>6, AdmittedSame, FiledSame
  <2>2. EndpointSetting' = [EndpointSetting EXCEPT ![o] = [by |-> k, as |-> account]]
    BY <1>2, <1>6, SettingNew
  <2>3. Promise!SetEndpoint(n, k, account)
    BY <1>1, <1>3, <2>1, <2>2 DEF Promise!SetEndpoint
  <2>4. QED
    BY <2>3 DEF Promise!Next
<1>7. QED
  BY <1>own, <1>o, <1>4, <1>5, <1>6, UpsertEffect

LEMMA RegistrationKeepsPromise ==
  ASSUME ContractInv, NEW k \in Calls, Effect(k), Act(k),
         NEW n \in Names, NEW e \in Emails, NEW t \in Types, RegisterAccount(k, n, e, t),
         ~ Taken(n, e)
  PROVE  Promise!Next
<1>own. OwnInv /\ TypeInv /\ TypeOK
  BY DEF ContractInv, SessionInv, OwnInv, TypeInv
<1>1. /\ organizations' = [organizations EXCEPT ![n] = [id |-> k, email |-> e, type |-> t]]
      /\ UNCHANGED <<apiKeys, sessions, claimRequests, endpoints>>
  BY DEF RegisterAccount
<1>2. /\ organizations'[n].id = k /\ organizations'[n].email = e
      /\ \A m \in Names : m # n => organizations'[m] = organizations[m]
  BY <1>own, <1>1 DEF TypeOK
<1>3. /\ Holder' = [Holder EXCEPT ![n] = k]
      /\ SignsIn' = [SignsIn EXCEPT ![n] = e]
  BY <1>2 DEF Holder, SignsIn
<1>4. Promise!Free(n, k) /\ \A m \in Names : SignsIn[m] # e
  BY <1>own, IdIsNew DEF Promise!Free, Taken, Known, Holder, SignsIn
<1>5. UNCHANGED <<Admitted, Filed, EndpointSetting>>
  BY <1>1, AdmittedSame, FiledSame, SettingsSame
<1>6. Promise!Register(n, k, e)
  BY <1>3, <1>4, <1>5 DEF Promise!Register
<1>7. QED
  BY <1>6 DEF Promise!Next

LEMMA LoginKeepsPromise ==
  ASSUME ContractInv, NEW k \in Calls, Effect(k), Act(k), AnswerLogin(k)
  PROVE  [Promise!Next]_(Promise!vars)
<1>1. UNCHANGED <<Holder, SignsIn, Filed, EndpointSetting>>
  BY FiledSame, SettingsSame DEF AnswerLogin, Holder, SignsIn
<1>2. CASE Admitted' = Admitted
  BY <1>1, <1>2 DEF Promise!vars
<1>3. ASSUME NEW n \in Names, organizations[n].email # None,
             Admitted' = Admitted \union {organizations[n].id}
      PROVE  Promise!Next
  <2>1. Promise!SignIn(n)
    BY <1>1, <1>3 DEF Promise!SignIn, Holder, SignsIn
  <2>2. QED
    BY <2>1 DEF Promise!Next
<1>4. QED
  BY <1>2, <1>3, AdmittedByLogin

LEMMA StepKeepsPromise == ContractInv /\ [Next]_vars => [Promise!Next]_(Promise!vars)
<1> SUFFICES ASSUME ContractInv, [Next]_vars PROVE [Promise!Next]_(Promise!vars)
  OBVIOUS
<1>own. OwnInv /\ TypeInv
  BY DEF ContractInv, SessionInv, OwnInv
<1>1. ASSUME NEW k \in Calls, Effect(k), Act(k),
             UNCHANGED <<organizations, apiKeys, sessions, claimRequests, endpoints>>
      PROVE  UNCHANGED Promise!vars
  <2>1. UNCHANGED <<Holder, SignsIn>>
    BY <1>1 DEF Holder, SignsIn
  <2>2. UNCHANGED <<Admitted, Filed, EndpointSetting>>
    BY <1>1, AdmittedSame, FiledSame, SettingsSame
  <2>3. QED
    BY <2>1, <2>2 DEF Promise!vars
<1>2. ASSUME NEW k \in Calls, Act(k)
      PROVE  [Promise!Next]_(Promise!vars)
  <2>1. Effect(k)
    BY <1>own, <1>2, ActEffect
  <2>2. ASSUME NEW n \in Names, NEW e \in Emails, NEW t \in Types, RegisterAccount(k, n, e, t)
        PROVE  [Promise!Next]_(Promise!vars)
    <3>1. CASE ~ Taken(n, e)
      BY <1>2, <2>1, <2>2, <3>1, RegistrationKeepsPromise
    <3>2. CASE Taken(n, e)
      BY <1>1, <1>2, <2>1, <2>2, <3>2 DEF RegisterAccount
    <3>3. QED
      BY <3>1, <3>2
  <2>3. ASSUME NEW n \in Names, NEW t \in Types, Upserts(k, None, n, t)
        PROVE  Promise!Next
    BY <1>2, <2>1, <2>3, UpsertKeepsPromise
  <2>4. CASE /\ call[k].stage \in {"create", "configure"}
             /\ call[k].account \in Calls /\ call[k].name \in Names /\ call[k].type \in Types
             /\ Upserts(k, call[k].account, call[k].name, call[k].type)
    <3>1. organizations[call[k].name].id = call[k].account /\ Authenticates(call[k].account)
      BY <1>own, <2>4 DEF OwnInv, CallsOwn, Acting, ContractInv, CallersAdmitted
    <3>2. QED
      BY <1>2, <2>1, <2>4, <3>1, UpsertKeepsPromise
  <2>5. CASE AnswerLogin(k)
    BY <1>2, <2>1, <2>5, LoginKeepsPromise
  <2>6. CASE UNCHANGED <<organizations, apiKeys, sessions, claimRequests, endpoints>>
    BY <1>1, <1>2, <2>1, <2>6
  <2>7. QED
    BY <1>own, <1>2, <2>2, <2>3, <2>4, <2>5, <2>6, ActCases
       DEF CreateUser, FindCredentials, AuthenticateOrganization, RecordLogin, FindUser, LoseCall
<1>3. CASE UNCHANGED vars
  BY <1>3 DEF vars, Promise!vars, Holder, SignsIn, Admitted, Known, Authenticates, Filed, As,
     EndpointSetting
<1>4. QED
  BY <1>2, <1>3, NextIsAct

LEMMA InitKeepsPromise == Init => Promise!Init
<1> SUFFICES ASSUME Init PROVE Promise!Init
  OBVIOUS
<1>1. Holder = [n \in Names |-> None] /\ SignsIn = [n \in Names |-> None]
  BY DEF Init, Holder, SignsIn, NoOrganization
<1>2. Admitted = {} /\ Filed = {}
  BY DEF Init, Admitted, Filed, Known, NoOrganization
<1>3. EndpointSetting = [o \in Calls |-> [by |-> None, as |-> None]]
  BY DEF Init, EndpointSetting, As
<1>4. QED
  BY <1>1, <1>2, <1>3 DEF Promise!Init

(* The handlers implement the contract of organizations: whoever acts as   *)
(* an organization acts for the one that has the name and admitted them,   *)
(* as if authenticating and writing were one step.                         *)
THEOREM HandlersActWhenAdmitted == Spec => ActsWhenAdmitted
<1>1. Init => ContractInv
  <2>1. Init => OwnInv
    BY OwnInvariantInit
  <2>2. QED
    BY <2>1 DEF Init, ContractInv, SessionInv, AttributedInv, CallersAdmitted, Acting, NewCall
<1>2. ContractInv /\ [Next]_vars => ContractInv' /\ [Promise!Next]_(Promise!vars)
  BY StepContractInv, StepKeepsPromise
<1>3. QED
  BY <1>1, InitKeepsPromise, <1>2, PTL DEF Spec, ActsWhenAdmitted, Promise!Spec
=============================================================================
