------------------------------- MODULE Accounts -------------------------------
(***************************************************************************)
(* Who is who: user accounts (backend/internal/users, auth), organization  *)
(* accounts and API keys (backend/internal/orgauth, cmd/orgkey), and the   *)
(* upsert of an organization by its name that claimrequests.Create,        *)
(* webhooks.ConfigureEndpoint and orgauth.IssueAPIKey share.               *)
(*                                                                         *)
(* A request that an organization makes for itself is authenticated first: *)
(* its row is read, released, and what was read of it (name and type) is   *)
(* written back by the upsert of the transaction that follows.  In between *)
(* anybody may name that organization, with a type of their own.           *)
(*                                                                         *)
(* Every row is named by the call that inserted it.  As elsewhere, a       *)
(* definition that differs by one slip from the one after it is a mutant,  *)
(* which no action uses.                                                   *)
(***************************************************************************)
CONSTANTS
    Calls,         \* requests to the API and runs of a command; each runs once
    Names,         \* names of organizations
    Emails,
    Types,         \* values of organization_type
    DefaultType,   \* the type written when none is given
    None

ASSUME NameAssumption ==
    /\ None \notin Calls
    /\ None \notin Names
    /\ None \notin Emails
    /\ None \notin Types
ASSUME TypeAssumption == DefaultType \in Types

VARIABLES
    users,           \* users: the id of the account with an e-mail
    organizations,   \* organizations, by name
    apiKeys,         \* organization_api_keys
    claimRequests,   \* claim_requests
    endpoints,       \* organization_webhook_endpoints: who configured it last
    audit,           \* audit_logs
    sessions,        \* access tokens that clients hold
    call             \* local state of each call

vars == <<users, organizations, apiKeys, claimRequests, endpoints, audit, sessions, call>>

Stages == {"idle", "login", "answer", "lookup", "create", "configure", "done"}
Events == {"user.created", "user.login", "organization.created", "organization.login",
           "claim_request.created", "webhook.endpoint_configured"}

NoOrganization == [id |-> None, email |-> None, type |-> None]
NewCall == [stage |-> "idle", account |-> None, name |-> None, type |-> None]

Known(n) == organizations[n].id # None
IsUser(a) == \E e \in Emails : users[e] = a
IsOrganizationAccount(a) ==
    \E n \in Names : organizations[n].id = a /\ organizations[n].email # None

Log(event, account, k) == [event |-> event, account |-> account, by |-> k]

(* The call ends; account is the organization it acted for, name and type  *)
(* are what it upserted.                                                   *)
Ended(k, account, n, t) ==
    call' = [call EXCEPT ![k] =
                [stage |-> "done", account |-> account, name |-> n, type |-> t]]
Done(k) == Ended(k, None, None, None)

Init ==
    /\ users = [e \in Emails |-> None]
    /\ organizations = [n \in Names |-> NoOrganization]
    /\ apiKeys = {}
    /\ claimRequests = {}
    /\ endpoints = [o \in Calls |-> None]
    /\ audit = {}
    /\ sessions = {}
    /\ call = [k \in Calls |-> NewCall]

(***************************************************************************)
(* users.Create: one transaction; a second account for an e-mail violates  *)
(* its unique index.                                                       *)
(***************************************************************************)
CreateUser(k, e) ==
    /\ call[k].stage = "idle"
    /\ \/ /\ users[e] = None
          /\ users' = [users EXCEPT ![e] = k]
          /\ audit' = audit \union {Log("user.created", k, k)}
       \/ /\ users[e] # None
          /\ UNCHANGED <<users, audit>>
    /\ Done(k)
    /\ UNCHANGED <<organizations, apiKeys, claimRequests, endpoints, sessions>>

(***************************************************************************)
(* orgauth.RegisterAccount: one transaction.  Either unique index, that of *)
(* the e-mail or that of the name, refuses it, and a name is taken by any  *)
(* row that has it, account or not.                                        *)
(***************************************************************************)
TakenByName(n, e) == Known(n)
Taken(n, e) == Known(n) \/ \E m \in Names : organizations[m].email = e

RegisterAccount(k, n, e, t) ==
    /\ call[k].stage = "idle"
    /\ \/ /\ ~ Taken(n, e)
          /\ organizations' = [organizations EXCEPT ![n] = [id |-> k, email |-> e, type |-> t]]
          /\ audit' = audit \union {Log("organization.created", k, k)}
          /\ Ended(k, None, n, t)
       \/ /\ Taken(n, e)
          /\ Done(k)
          /\ UNCHANGED <<organizations, audit>>
    /\ UNCHANGED <<users, apiKeys, claimRequests, endpoints, sessions>>

(***************************************************************************)
(* Login, of users and of organizations alike: the credentials are read    *)
(* and compared and a token is signed (no state), then the audit row is    *)
(* committed, and only then is the token in an answer.                     *)
(***************************************************************************)
FindCredentials(k, a, passwordMatches) ==
    /\ call[k].stage = "idle"
    /\ IsUser(a) \/ IsOrganizationAccount(a)
    /\ \/ /\ passwordMatches
          /\ call' = [call EXCEPT ![k] = [@ EXCEPT !.stage = "login", !.account = a]]
       \/ /\ ~ passwordMatches
          /\ Done(k)
    /\ UNCHANGED <<users, organizations, apiKeys, claimRequests, endpoints, audit, sessions>>

LoginEvent(a) == IF IsUser(a) THEN "user.login" ELSE "organization.login"

RecordLoginBestEffort(k) ==
    /\ call[k].stage = "login"
    /\ audit' \in {audit, audit \union {Log(LoginEvent(call[k].account), call[k].account, k)}}
    /\ call' = [call EXCEPT ![k].stage = "answer"]
    /\ UNCHANGED <<users, organizations, apiKeys, claimRequests, endpoints, sessions>>

RecordLogin(k) ==
    /\ call[k].stage = "login"
    /\ audit' = audit \union {Log(LoginEvent(call[k].account), call[k].account, k)}
    /\ call' = [call EXCEPT ![k].stage = "answer"]
    /\ UNCHANGED <<users, organizations, apiKeys, claimRequests, endpoints, sessions>>

AnswerLogin(k) ==
    /\ call[k].stage = "answer"
    /\ sessions' = sessions \union {[account |-> call[k].account, by |-> k]}
    /\ Done(k)
    /\ UNCHANGED <<users, organizations, apiKeys, claimRequests, endpoints, audit>>

(***************************************************************************)
(* upsertOrganization, upsertEndpointOrganization: INSERT ... ON CONFLICT  *)
(* (name) DO UPDATE SET organization_type, RETURNING the row that is there *)
(* now.  It gives a new row no e-mail and no password.                     *)
(***************************************************************************)
UpsertedWithoutType(n, k, t) ==
    [organizations EXCEPT ![n] = IF Known(n) THEN [@ EXCEPT !.type = t]
                                             ELSE [NoOrganization EXCEPT !.id = k]]
UpsertedReplacing(n, k, t) ==
    [organizations EXCEPT ![n] = [id |-> k, email |-> None, type |-> t]]
Upserted(n, k, t) ==
    [organizations EXCEPT ![n] = IF Known(n) THEN [@ EXCEPT !.type = t]
                                             ELSE [NoOrganization EXCEPT !.id = k, !.type = t]]

(* orgauth.IssueAPIKey, the orgkey command: one transaction, no audit row. *)
IssueAPIKey(k, n, t) ==
    /\ call[k].stage = "idle"
    /\ organizations' = Upserted(n, k, t)
    /\ apiKeys' = apiKeys \union {[by |-> k, organization |-> organizations'[n].id]}
    /\ Ended(k, None, n, t)
    /\ UNCHANGED <<users, claimRequests, endpoints, audit, sessions>>

(***************************************************************************)
(* authenticateOrganizationRequest: by a token, whose organization is read *)
(* by id, or by an API key, which is joined to its organization.           *)
(***************************************************************************)
AuthenticatesByAnyKey(a) == apiKeys # {} \/ \E s \in sessions : s.account = a
Authenticates(a) ==
    \/ \E s \in sessions : s.account = a
    \/ \E key \in apiKeys : key.organization = a

TypeForgotten(n) == DefaultType
TypeRead(n) == organizations[n].type

AuthenticateOrganization(k, n, stage) ==
    /\ call[k].stage = "idle"
    /\ Known(n)
    /\ Authenticates(organizations[n].id)
    /\ call' = [call EXCEPT ![k] = [stage |-> stage, account |-> organizations[n].id,
                                    name |-> n, type |-> TypeRead(n)]]
    /\ UNCHANGED <<users, organizations, apiKeys, claimRequests, endpoints, audit, sessions>>

(* organizationClaimRequestsHandler looks the user up by e-mail.           *)
FindUser(k) ==
    /\ call[k].stage = "lookup"
    /\ \E e \in Emails :
          \/ /\ users[e] # None
             /\ call' = [call EXCEPT ![k].stage = "create"]
          \/ /\ users[e] = None
             /\ Done(k)
    /\ UNCHANGED <<users, organizations, apiKeys, claimRequests, endpoints, audit, sessions>>

(***************************************************************************)
(* claimrequests.Create: one transaction upserts the organization, inserts *)
(* the request for the id that the upsert returned, and logs it.           *)
(***************************************************************************)
RequestOfNewId(k, organization) == [by |-> k, organization |-> k]
RequestOf(k, organization) == [by |-> k, organization |-> organization]

Create(k, account, n, t) ==
    /\ organizations' = Upserted(n, k, t)
    /\ claimRequests' = claimRequests \union {RequestOf(k, organizations'[n].id)}
    /\ audit' = audit \union {Log("claim_request.created", organizations'[n].id, k)}
    /\ Ended(k, account, n, t)
    /\ UNCHANGED <<users, apiKeys, endpoints, sessions>>

CreateForOrganization(k) ==
    /\ call[k].stage = "create"
    /\ Create(k, call[k].account, call[k].name, call[k].type)

(* claimRequestsHandler: a signed-in user names an organization freely.    *)
CreateForUser(k, n, t) ==
    /\ call[k].stage = "idle"
    /\ \E s \in sessions : IsUser(s.account)
    /\ Create(k, None, n, t)

(***************************************************************************)
(* webhooks.ConfigureEndpoint: one transaction, from the organization's    *)
(* own settings or from the webhookendpoint command, which takes any name. *)
(***************************************************************************)
ConfigureEndpoint(k, account, n, t) ==
    /\ organizations' = Upserted(n, k, t)
    /\ endpoints' = [endpoints EXCEPT ![organizations'[n].id] = k]
    /\ audit' = audit \union
          {Log("webhook.endpoint_configured", organizations'[n].id, k)}
    /\ Ended(k, account, n, t)
    /\ UNCHANGED <<users, apiKeys, claimRequests, sessions>>

ConfigureOwnEndpoint(k) ==
    /\ call[k].stage = "configure"
    /\ ConfigureEndpoint(k, call[k].account, call[k].name, call[k].type)

ConfigureByCommand(k, n, t) ==
    /\ call[k].stage = "idle"
    /\ ConfigureEndpoint(k, None, n, t)

(* A call stops between two of its steps, or a statement of it fails.      *)
LoseCall(k) ==
    /\ call[k].stage \notin {"idle", "done"}
    /\ Done(k)
    /\ UNCHANGED <<users, organizations, apiKeys, claimRequests, endpoints, audit, sessions>>

Next ==
    \E k \in Calls :
        \/ \E e \in Emails : CreateUser(k, e)
        \/ \E a \in Calls, matches \in BOOLEAN : FindCredentials(k, a, matches)
        \/ \E n \in Names, t \in Types :
              \/ \E e \in Emails : RegisterAccount(k, n, e, t)
              \/ IssueAPIKey(k, n, t)
              \/ CreateForUser(k, n, t)
              \/ ConfigureByCommand(k, n, t)
        \/ \E n \in Names, stage \in {"lookup", "configure"} :
              AuthenticateOrganization(k, n, stage)
        \/ RecordLogin(k) \/ AnswerLogin(k) \/ FindUser(k)
        \/ CreateForOrganization(k) \/ ConfigureOwnEndpoint(k) \/ LoseCall(k)

Spec == Init /\ [][Next]_vars

(***************************************************************************)
(* PROPERTIES                                                              *)
(***************************************************************************)

(* The type of every table; a row of organizations is whole or absent, and *)
(* credentials are not given to no one.                                    *)
TypeOK ==
    /\ users \in [Emails -> Calls \union {None}]
    /\ organizations \in [Names -> [id : Calls \union {None}, email : Emails \union {None},
                                    type : Types \union {None}]]
    /\ \A n \in Names :
          /\ Known(n) <=> organizations[n].type # None
          /\ organizations[n].email # None => Known(n)
    /\ apiKeys \subseteq [by : Calls, organization : Calls]
    /\ claimRequests \subseteq [by : Calls, organization : Calls]
    /\ endpoints \in [Calls -> Calls \union {None}]
    /\ audit \subseteq [event : Events, account : Calls, by : Calls]
    /\ sessions \subseteq [account : Calls, by : Calls]
    /\ call \in [Calls -> [stage : Stages, account : Calls \union {None},
                           name : Names \union {None}, type : Types \union {None}]]

(* Who owns a name is settled by the first to use it: neither an upsert    *)
(* nor a registration gives a row that exists another id, takes away the   *)
(* e-mail it signs in with, or gives one to a row that was made by a       *)
(* request, an API key or an endpoint.                                     *)
OwnershipSettled ==
    [][ \A n \in Names : Known(n) =>
          /\ organizations'[n].id = organizations[n].id
          /\ organizations'[n].email = organizations[n].email ]_vars

(* One account an e-mail, and exactly the accounts that were registered    *)
(* can sign in, however registrations and upserts of one name race.        *)
AccountsAsRegistered ==
    /\ \A n, m \in Names :
          organizations[n].email # None /\ organizations[n].email = organizations[m].email
          => n = m
    /\ \A n \in Names : Known(n) =>
          (organizations[n].email # None
           <=> Log("organization.created", organizations[n].id, organizations[n].id) \in audit)
    /\ \A e \in Emails : users[e] # None => Log("user.created", users[e], users[e]) \in audit

(* Requests, endpoints and keys are written for a name, in a transaction   *)
(* after the one that authenticated; they still belong to the organization *)
(* that has the name, to the very one that authenticated, and the audit    *)
(* trail says so.                                                          *)
BelongsTo(k, organization) ==
    /\ organization = organizations[call[k].name].id
    /\ call[k].account \in {None, organization}

AttributedToCaller ==
    /\ \A r \in claimRequests :
          /\ BelongsTo(r.by, r.organization)
          /\ Log("claim_request.created", r.organization, r.by) \in audit
    /\ \A o \in Calls : endpoints[o] # None => BelongsTo(endpoints[o], o)
    /\ \A key \in apiKeys : BelongsTo(key.by, key.organization)

(* The token is signed before the login is logged, but no client holds one *)
(* whose login is not in the audit trail.                                  *)
SessionsAudited ==
    \A s \in sessions : Log(LoginEvent(s.account), s.account, s.by) \in audit

(* An organization's own requests write back the type they read, perhaps   *)
(* an old one, over a newer one; they never invent one: every type was     *)
(* given by a call that named the organization.                            *)
TypeWasGiven ==
    \A n \in Names : Known(n) =>
        \E k \in Calls : /\ call[k].stage = "done" /\ call[k].account = None
                         /\ call[k].name = n /\ call[k].type = organizations[n].type

(* The handlers implement AccountContract: between the transaction that    *)
(* authenticates an organization and the one that files its request or     *)
(* sets its endpoint, any other call may run, and still whoever acts as an *)
(* organization acts for the one that has the name and admitted them, as   *)
(* if both were one step.                                                  *)
Holder == [n \in Names |-> organizations[n].id]
SignsIn == [n \in Names |-> organizations[n].email]
Admitted ==
    {organizations[n].id : n \in {m \in Names : Known(m) /\ Authenticates(organizations[m].id)}}
As(k) == IF k = None THEN None ELSE call[k].account
Filed == {[by |-> r.by, organization |-> r.organization, as |-> As(r.by)] : r \in claimRequests}
EndpointSetting == [o \in Calls |-> [by |-> endpoints[o], as |-> As(endpoints[o])]]

Promise == INSTANCE AccountContract WITH
    Ids <- Calls, holder <- Holder, signsIn <- SignsIn, admitted <- Admitted,
    filed <- Filed, endpoint <- EndpointSetting

ActsWhenAdmitted == Promise!Spec
=============================================================================
