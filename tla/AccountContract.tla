--------------------------- MODULE AccountContract ---------------------------
(***************************************************************************)
(* What Kladd promises to organizations, with no calls in flight.  A name  *)
(* belongs for ever to the first who uses it, and signs in only if that    *)
(* was a registration.  Whoever files a request or sets an endpoint names  *)
(* an organization; whoever does so as that organization is admitted to it *)
(* in the very step that files or sets it.                                 *)
(***************************************************************************)
CONSTANTS
    Ids,      \* of organizations, and of what is filed
    Names,
    Emails,
    None

VARIABLES
    holder,     \* the organization that has a name
    signsIn,    \* the e-mail it signs in with
    admitted,   \* organizations that somebody holds a token or a key of
    filed,      \* claim requests: for whom, and as whom they were filed
    endpoint    \* of each organization: by whom, and as whom it was set

vars == <<holder, signsIn, admitted, filed, endpoint>>

Init ==
    /\ holder = [n \in Names |-> None]
    /\ signsIn = [n \in Names |-> None]
    /\ admitted = {}
    /\ filed = {}
    /\ endpoint = [o \in Ids |-> [by |-> None, as |-> None]]

Free(n, id) == holder[n] = None /\ \A m \in Names : holder[m] # id

Use(n, id) ==
    /\ \/ Free(n, id) /\ holder' = [holder EXCEPT ![n] = id]
       \/ holder[n] # None /\ UNCHANGED holder
    /\ UNCHANGED signsIn

Register(n, id, e) ==
    /\ Free(n, id)
    /\ \A m \in Names : signsIn[m] # e
    /\ holder' = [holder EXCEPT ![n] = id]
    /\ signsIn' = [signsIn EXCEPT ![n] = e]
    /\ UNCHANGED <<admitted, filed, endpoint>>

SignIn(n) ==
    /\ signsIn[n] # None
    /\ admitted' = admitted \union {holder[n]}
    /\ UNCHANGED <<holder, signsIn, filed, endpoint>>

IssueKey(n, id) ==
    /\ Use(n, id)
    /\ admitted' = admitted \union {holder'[n]}
    /\ UNCHANGED <<filed, endpoint>>

MayActAs(as, n) == as = None \/ (as = holder[n] /\ as \in admitted)

File(n, id, as) ==
    /\ MayActAs(as, n)
    /\ \A r \in filed : r.by # id
    /\ Use(n, id)
    /\ filed' = filed \union {[by |-> id, organization |-> holder'[n], as |-> as]}
    /\ UNCHANGED <<admitted, endpoint>>

SetEndpoint(n, id, as) ==
    /\ MayActAs(as, n)
    /\ Use(n, id)
    /\ endpoint' = [endpoint EXCEPT ![holder'[n]] = [by |-> id, as |-> as]]
    /\ UNCHANGED <<admitted, filed>>

Next ==
    \E n \in Names :
        \/ SignIn(n)
        \/ \E id \in Ids :
              \/ IssueKey(n, id)
              \/ \E e \in Emails : Register(n, id, e)
              \/ \E as \in Ids \union {None} : File(n, id, as) \/ SetEndpoint(n, id, as)

Spec == Init /\ [][Next]_vars
=============================================================================
