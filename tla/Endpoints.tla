------------------------------ MODULE Endpoints ------------------------------
(***************************************************************************)
(* The endpoints administrators define and the route table they are served *)
(* from: api.Service (backend/internal/api), called by the handlers of     *)
(* backend/internal/server.                                                *)
(*                                                                         *)
(* A definition is the database it works on, its shape, which stands for   *)
(* the method, the path and the operations and decides the routes, and     *)
(* whether it is enabled.  An action is one statement, one transaction or  *)
(* one critical section.  What an endpoint does once it is found is left   *)
(* out.                                                                    *)
(***************************************************************************)
EXTENDS Naturals, FiniteSets

CONSTANTS
    Id,             \* identities of endpoints
    Shape,
    RoutesOf(_),    \* the routes an endpoint of a shape serves
    Database,       \* identities of databases
    Name,           \* and their names
    Admin, Client,  \* concurrent requests to the dashboard's and the data API
    Changes,        \* what administrators may do
    Saved,          \* the definitions they may save
    None

Definition == [database : Database, shape : Shape, enabled : BOOLEAN]

ASSUME EndpointsAssumption ==
    /\ \A s \in Shape : RoutesOf(s) # {}
    /\ None \notin Id \cup Database \cup Name
    /\ Saved \subseteq Definition

VARIABLES
    endpoint,  \* the api_endpoints table
    name,      \* the databases table: the name of each database
    router,    \* the compiled route table, or None
    admin,     \* what each request to the dashboard is doing
    client,    \* the table each request to the data API has built, or None
    outdated,  \* history: why the route table may be older than the tables
    unseen     \* history: some route was stored after a check that could not
               \* see the other endpoint that serves it

vars == <<endpoint, name, router, admin, client, outdated, unseen>>

Exists(e) == endpoint[e] # None

\* List returns an endpoint with its routes and the name of its database.
Listed(e) == [name |-> name[endpoint[e].database], routes |-> RoutesOf(endpoint[e].shape)]

\* newRouter(List): the endpoints that are enabled.
Compiled ==
    [e \in Id |-> IF Exists(e) /\ endpoint[e].enabled THEN Listed(e) ELSE None]

NoRequest == [at |-> "idle", id |-> None, to |-> None, new |-> FALSE, fresh |-> FALSE]

Init ==
    /\ endpoint = [e \in Id |-> None]
    /\ name \in [Database -> Name] /\ \A c, d \in Database : name[c] = name[d] => c = d
    /\ router = None
    /\ admin = [a \in Admin |-> NoRequest]
    /\ client = [c \in Client |-> None]
    /\ outdated = FALSE /\ unseen = FALSE

AdminGo(a, r) == admin' = [admin EXCEPT ![a] = r]

\* A definition that has passed the check and is about to be stored.
Checked(e, d) == [at |-> "store", id |-> e, to |-> d, new |-> ~Exists(e), fresh |-> TRUE]

-----------------------------------------------------------------------------
(* Defining endpoints.                                                     *)

Conflicts(s, e) == Exists(e) /\ RoutesOf(s) \cap RoutesOf(endpoint[e].shape) # {}

\* Mutant of Check: only endpoints of the same method and path conflict.
CheckSamePath(a, e, d) ==
    /\ "define" \in Changes /\ admin[a].at = "idle" /\ name[d.database] # None
    /\ \A f \in Id \ {e} : Exists(f) => endpoint[f].shape # d.shape
    /\ AdminGo(a, Checked(e, d))
    /\ UNCHANGED <<endpoint, name, router, client, outdated, unseen>>

\* Create, of an endpoint that does not exist, or Update: the definition is
\* checked against the database and the other endpoints as they are now.
Check(a, e, d) ==
    /\ "define" \in Changes /\ admin[a].at = "idle" /\ name[d.database] # None
    /\ \A f \in Id \ {e} : ~Conflicts(d.shape, f)
    /\ AdminGo(a, Checked(e, d))
    /\ UNCHANGED <<endpoint, name, router, client, outdated, unseen>>

\* INSERT or UPDATE, under the unique index on method and path and the foreign
\* key to the database.  An endpoint deleted since cannot be updated.
Store(a) ==
    LET r == admin[a]
        others == Id \ {r.id}
    IN  /\ r.at = "store"
        /\ r.new <=> ~Exists(r.id)
        /\ name[r.to.database] # None
        /\ \A f \in others : Exists(f) => endpoint[f].shape # r.to.shape
        /\ endpoint' = [endpoint EXCEPT ![r.id] = r.to]
        /\ unseen' = (unseen \/ (~r.fresh /\ \E f \in others : Conflicts(r.to.shape, f)))
        /\ admin' = [b \in Admin |->
              IF b = a THEN [NoRequest EXCEPT !.at = "invalidate"]
              ELSE IF admin[b].at = "store" THEN [admin[b] EXCEPT !.fresh = FALSE]
              ELSE admin[b]]
        /\ UNCHANGED <<name, router, client, outdated>>

\* Mutant of Toggle: the change is left to the next invalidation.
ToggleKeepsRouter(a, e) ==
    /\ "toggle" \in Changes /\ admin[a].at = "idle" /\ Exists(e)
    /\ endpoint' = [endpoint EXCEPT ![e].enabled = ~@]
    /\ UNCHANGED <<name, router, admin, client, outdated, unseen>>

\* SetEnabled, to the other value.
Toggle(a, e) ==
    /\ "toggle" \in Changes /\ admin[a].at = "idle" /\ Exists(e)
    /\ endpoint' = [endpoint EXCEPT ![e].enabled = ~@]
    /\ AdminGo(a, [NoRequest EXCEPT !.at = "invalidate"])
    /\ UNCHANGED <<name, router, client, outdated, unseen>>

Without(gone) == [e \in Id |-> IF e \in gone THEN None ELSE endpoint[e]]

Delete(a, e) ==
    /\ "delete" \in Changes /\ admin[a].at = "idle" /\ Exists(e)
    /\ endpoint' = Without({e})
    /\ AdminGo(a, [NoRequest EXCEPT !.at = "invalidate"])
    /\ UNCHANGED <<name, router, client, outdated, unseen>>

Invalidate(a) ==
    /\ admin[a].at = "invalidate"
    /\ router' = None /\ outdated' = FALSE
    /\ AdminGo(a, NoRequest)
    /\ UNCHANGED <<endpoint, name, client, unseen>>

\* The statement is refused or fails, or the client leaves.
GiveUp(a) ==
    /\ admin[a].at = "store"
    /\ AdminGo(a, NoRequest)
    /\ UNCHANGED <<endpoint, name, router, client, outdated, unseen>>

-----------------------------------------------------------------------------
(* Databases.                                                              *)

\* The endpoints that go with a database: none unless it is deleted.
Orphans(d, n) == IF n # None THEN {} ELSE {e \in Id : Exists(e) /\ endpoint[e].database = d}

\* Create, Rename and Delete of the Manager know nothing of the route table.
SetName(d, n) ==
    /\ "database" \in Changes
    /\ n # None => \A c \in Database : name[c] # n
    /\ name[d] = None => \A a \in Admin : admin[a].at = "store" => admin[a].to.database # d
    /\ name' = [name EXCEPT ![d] = n]
    /\ endpoint' = Without(Orphans(d, n))
    /\ outdated' = (outdated \/ router # None)
    /\ UNCHANGED <<router, admin, client, unseen>>

-----------------------------------------------------------------------------
(* Serving a request.                                                      *)

\* Resolve works with the route table if there is one; without one getRouter
\* lists the endpoints.
Lookup(c) ==
    /\ client[c] = None /\ router = None
    /\ client' = [client EXCEPT ![c] = Compiled]
    /\ UNCHANGED <<endpoint, name, router, admin, outdated, unseen>>

\* The table that landed first is kept.
Install(c) ==
    /\ client[c] # None
    /\ IF router # None THEN UNCHANGED <<router, outdated>>
       ELSE router' = client[c] /\ outdated' = (client[c] # Compiled)
    /\ client' = [client EXCEPT ![c] = None]
    /\ UNCHANGED <<endpoint, name, admin, unseen>>

-----------------------------------------------------------------------------

Next ==
    \/ \E a \in Admin :
          \/ \E e \in Id : (\E d \in Saved : Check(a, e, d)) \/ Toggle(a, e) \/ Delete(a, e)
          \/ Store(a) \/ Invalidate(a) \/ GiveUp(a)
    \/ \E d \in Database, n \in Name \cup {None} : SetName(d, n)
    \/ \E c \in Client : Lookup(c) \/ Install(c)

Spec == Init /\ [][Next]_vars

-----------------------------------------------------------------------------
(* Properties.                                                             *)

\* The route table that is kept is what the tables say, once the requests that
\* change them are through: unless a request had listed the endpoints before
\* the last change and installed them after its invalidation, or a database
\* was renamed or deleted under the table.
RouterCurrent ==
    \/ router \in {None, Compiled}
    \/ outdated
    \/ \E a \in Admin : admin[a].at = "invalidate"

\* No two endpoints serve one route, although no index of the database can see
\* it: unless one was stored after the check of the other.
ConflictsOnlyUnseen ==
    unseen \/ \A e, f \in Id : e # f /\ Exists(e) => ~Conflicts(endpoint[e].shape, f)
=============================================================================
