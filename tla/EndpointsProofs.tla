--------------------------- MODULE EndpointsProofs ---------------------------
(***************************************************************************)
(* Endpoints: what the route table and the endpoints promise each other,   *)
(* for any number of endpoints, shapes, databases and concurrent requests. *)
(***************************************************************************)
EXTENDS Endpoints, TLAPS

-----------------------------------------------------------------------------
(* The inductive invariant.                                                *)

\* What a request is doing: a definition on its way to the table has an
\* identity and passed the check.
Request == [at : {"idle", "invalidate"}, id : {None}, to : {None},
            new : {FALSE}, fresh : {FALSE}]
           \cup [at : {"store"}, id : Id, to : Saved, new : BOOLEAN, fresh : BOOLEAN]

\* The route tables: what is served of each endpoint.
Table == [Id -> {None} \cup [name : Name \cup {None}, routes : {RoutesOf(s) : s \in Shape}]]

Typed ==
    /\ endpoint \in [Id -> Definition \cup {None}]
    /\ name \in [Database -> Name \cup {None}]
    /\ admin \in [Admin -> Request]
    /\ client \in [Client -> {None} \cup Table]
    /\ router \in {None} \cup Table
    /\ outdated \in BOOLEAN /\ unseen \in BOOLEAN

\* A definition that is about to be stored, and that nobody's store has made
\* stale since its check, conflicts with no other endpoint.
FreshClear ==
    \A a \in Admin : admin[a].at = "store" /\ admin[a].fresh =>
        \A f \in Id \ {admin[a].id} : ~Conflicts(admin[a].to.shape, f)

IInv == Typed /\ FreshClear /\ ConflictsOnlyUnseen

-----------------------------------------------------------------------------
(* Lemmas.                                                                 *)

\* Shapes decide conflicts, either way round.
LEMMA ConflictsBothWays ==
    ASSUME NEW e \in Id, NEW f \in Id, Exists(e), Exists(f)
    PROVE  Conflicts(endpoint[e].shape, f) <=> Conflicts(endpoint[f].shape, e)
BY DEF Conflicts

\* The endpoints a step leaves have the shapes they had: taking endpoints away,
\* or switching them, makes no conflict.
Fewer == \A e \in Id : Exists(e)' => Exists(e) /\ endpoint'[e].shape = endpoint[e].shape

\* Taking endpoints away or switching them keeps what is said of conflicts.
LEMMA FewerConflicts ==
    ASSUME Fewer
    PROVE  /\ \A s, f : f \in Id /\ Conflicts(s, f)' => Conflicts(s, f)
           /\ UNCHANGED unseen /\ ConflictsOnlyUnseen => ConflictsOnlyUnseen'
           /\ UNCHANGED admin /\ FreshClear => FreshClear'
<1>1. \A s, f : f \in Id /\ Conflicts(s, f)' => Conflicts(s, f)
  BY DEF Fewer, Conflicts, Exists
<1>2. UNCHANGED unseen /\ ConflictsOnlyUnseen => ConflictsOnlyUnseen'
  BY <1>1 DEF Fewer, ConflictsOnlyUnseen, Conflicts
<1>3. UNCHANGED admin /\ FreshClear => FreshClear'
  BY <1>1 DEF FreshClear, Conflicts, Fewer, Exists
<1>. QED
  BY <1>1, <1>2, <1>3

\* Deleting endpoints leaves fewer.
LEMMA WithoutFewer ==
    ASSUME NEW gone, endpoint' = Without(gone)
    PROVE  Fewer
BY DEF Without, Fewer, Exists

\* A list of the endpoints has the type of a route table.
LEMMA CompiledTable == Typed => Compiled \in Table
<1>. SUFFICES ASSUME Typed, NEW e \in Id, Exists(e) PROVE Listed(e) \in
                [name : Name \cup {None}, routes : {RoutesOf(s) : s \in Shape}]
  BY DEF Compiled, Table
<1>1. endpoint[e] \in Definition
  BY DEF Typed, Exists
<1>2. endpoint[e].database \in Database /\ endpoint[e].shape \in Shape
  BY <1>1 DEF Definition
<1>. QED
  BY <1>2 DEF Typed, Listed

\* The records of a request.
LEMMA Requests ==
    /\ NoRequest \in Request /\ [NoRequest EXCEPT !.at = "invalidate"] \in Request
    /\ NoRequest.at = "idle" /\ [NoRequest EXCEPT !.at = "invalidate"].at = "invalidate"
    /\ \A r \in Request : /\ r.at = "store" => r.id \in Id /\ r.to \in Saved /\ r.to \in Definition
                          /\ [r EXCEPT !.fresh = FALSE].at = r.at
                          /\ [r EXCEPT !.fresh = FALSE].fresh = FALSE
                          /\ r.at = "store" => [r EXCEPT !.fresh = FALSE] \in Request
BY EndpointsAssumption DEF NoRequest, Request

-----------------------------------------------------------------------------
(* Steps.                                                                  *)

\* Every step keeps the types.
LEMMA TypedStep == Typed /\ [Next]_vars => Typed'
<1>. SUFFICES ASSUME Typed, [Next]_vars PROVE Typed'
  OBVIOUS
<1>. USE EndpointsAssumption DEF Typed, AdminGo
<1>1. ASSUME NEW a \in Admin, NEW e \in Id, NEW d \in Saved, Check(a, e, d) PROVE Typed'
  <2>1. Checked(e, d) \in Request
    BY DEF Checked, Request
  <2>. QED
    BY <1>1, <2>1 DEF Check
<1>2. ASSUME NEW a \in Admin, Store(a) PROVE Typed'
  <2>1. admin[a].id \in Id /\ admin[a].to \in Definition
    BY <1>2, Requests DEF Store
  <2>2. admin' \in [Admin -> Request]
    <3>1. \A b \in Admin : admin[b].at = "store" => [admin[b] EXCEPT !.fresh = FALSE] \in Request
      BY Requests
    <3>. QED
      BY <1>2, <3>1, Requests DEF Store
  <2>3. endpoint' \in [Id -> Definition \cup {None}]
    BY <1>2, <2>1 DEF Store
  <2>4. unseen' \in BOOLEAN
    BY <1>2 DEF Store
  <2>. QED
    BY <1>2, <2>2, <2>3, <2>4 DEF Store
<1>3. ASSUME NEW a \in Admin, NEW e \in Id, Toggle(a, e) PROVE Typed'
  <2>1. endpoint[e] \in Definition
    BY <1>3 DEF Toggle, Exists
  <2>2. [endpoint[e] EXCEPT !.enabled = ~@] \in Definition
    BY <2>1 DEF Definition
  <2>3. /\ endpoint' \in [Id -> Definition \cup {None}]
        /\ admin' \in [Admin -> Request]
    BY <1>3, <2>2, Requests DEF Toggle
  <2>. QED
    BY <1>3, <2>3 DEF Toggle
<1>4. ASSUME NEW a \in Admin, NEW e \in Id, Delete(a, e) PROVE Typed'
  BY <1>4, Requests DEF Delete, Without
<1>5. ASSUME NEW a \in Admin, Invalidate(a) \/ GiveUp(a) PROVE Typed'
  <2>1. admin' \in [Admin -> Request]
    BY <1>5, Requests DEF Invalidate, GiveUp
  <2>2. UNCHANGED <<endpoint, name, client, unseen>> /\ outdated' \in BOOLEAN
    BY <1>5 DEF Invalidate, GiveUp
  <2>3. router' \in {None} \cup Table
    BY <1>5 DEF Invalidate, GiveUp
  <2>. QED
    BY <2>1, <2>2, <2>3
<1>6. ASSUME NEW d \in Database, NEW n \in Name \cup {None}, SetName(d, n) PROVE Typed'
  BY <1>6 DEF SetName, Without
<1>7. ASSUME NEW c \in Client, Lookup(c) PROVE Typed'
  BY <1>7, CompiledTable DEF Lookup
<1>8. ASSUME NEW c \in Client, Install(c) PROVE Typed'
  <2>1. client[c] \in Table
    BY <1>8 DEF Install
  <2>2. router' \in {None} \cup Table /\ outdated' \in BOOLEAN
    BY <1>8, <2>1 DEF Install
  <2>3. client' \in [Client -> {None} \cup Table]
    BY <1>8 DEF Install
  <2>. QED
    BY <1>8, <2>2, <2>3 DEF Install
<1>9. CASE UNCHANGED vars
  BY <1>9 DEF vars
<1>. HIDE DEF Typed
<1>. QED
  BY <1>1, <1>2, <1>3, <1>4, <1>5, <1>6, <1>7, <1>8, <1>9 DEF Next

\* A check makes its definition clear of the others; a store makes nobody's
\* definition clear, and ends those of the others.
LEMMA ClearStep == IInv /\ [Next]_vars => FreshClear' /\ ConflictsOnlyUnseen'
<1>. SUFFICES ASSUME IInv, [Next]_vars PROVE FreshClear' /\ ConflictsOnlyUnseen'
  OBVIOUS
<1>t. admin \in [Admin -> Request] /\ endpoint \in [Id -> Definition \cup {None}]
  BY DEF IInv, Typed
<1>i. FreshClear /\ ConflictsOnlyUnseen
  BY DEF IInv
\* A step after which a is not storing, and all others are as they were.
<1>g. ASSUME NEW a \in Admin, NEW r, AdminGo(a, r), r.at # "store", Fewer PROVE FreshClear'
  <2>1. \A b \in Admin : admin'[b].at = "store" => admin'[b] = admin[b]
    BY <1>g, <1>t DEF AdminGo
  <2>. QED
    BY <1>g, <1>i, <2>1, FewerConflicts DEF FreshClear
<1>s. endpoint' = endpoint => Fewer
  BY DEF Fewer, Exists
<1>1. ASSUME NEW a \in Admin, NEW e \in Id, NEW d \in Saved, Check(a, e, d)
      PROVE  FreshClear' /\ ConflictsOnlyUnseen'
  <2>1. admin' = [admin EXCEPT ![a] = Checked(e, d)] /\ UNCHANGED <<endpoint, unseen>>
    BY <1>1 DEF Check, AdminGo
  <2>2. ConflictsOnlyUnseen'
    BY <1>i, <1>s, <2>1, FewerConflicts
  <2>3. \A b \in Admin : admin'[b] = IF b = a THEN Checked(e, d) ELSE admin[b]
    BY <1>t, <2>1
  <2>4. ASSUME NEW b \in Admin, admin'[b].at = "store", admin'[b].fresh,
               NEW f \in Id \ {admin'[b].id}
        PROVE  ~Conflicts(admin'[b].to.shape, f)
    <3>1. CASE b = a
      BY <1>1, <2>3, <2>4, <3>1 DEF Check, Checked
    <3>2. CASE b # a
      BY <1>i, <2>3, <2>4, <3>2 DEF FreshClear
    <3>. QED
      BY <3>1, <3>2
  <2>5. FreshClear'
    BY <2>1, <2>4 DEF FreshClear, Conflicts, Exists
  <2>. QED
    BY <2>2, <2>5
<1>2. ASSUME NEW a \in Admin, Store(a) PROVE FreshClear' /\ ConflictsOnlyUnseen'
  <2>. DEFINE r == admin[a]
  <2>1. r \in Request /\ r.at = "store" /\ r.id \in Id
    BY <1>2, <1>t, Requests DEF Store
  <2>2. /\ endpoint' = [endpoint EXCEPT ![r.id] = r.to]
        /\ unseen' = (unseen \/ (~r.fresh /\ \E f \in Id \ {r.id} : Conflicts(r.to.shape, f)))
    BY <1>2 DEF Store
  <2>3. \A b \in Admin : admin'[b].at = "store" => admin'[b].fresh = FALSE
    BY <1>2, <1>t, Requests DEF Store
  <2>4. FreshClear'
    BY <2>3 DEF FreshClear
  <2>5. ~unseen' => \A f \in Id \ {r.id} : ~Conflicts(r.to.shape, f)
    BY <1>i, <2>1, <2>2 DEF FreshClear
  <2>6. /\ endpoint'[r.id] = r.to
        /\ \A f \in Id \ {r.id} : endpoint'[f] = endpoint[f]
    BY <1>t, <2>1, <2>2
  <2>7. ASSUME ~unseen', NEW e \in Id, NEW f \in Id, e # f, Exists(e)', Exists(f)'
        PROVE  RoutesOf(endpoint'[e].shape) \cap RoutesOf(endpoint'[f].shape) = {}
    <3>. HIDE DEF r
    <3>1. CASE e = r.id
      BY <2>5, <2>6, <2>7, <3>1 DEF Conflicts, Exists
    <3>2. CASE f = r.id
      BY <2>5, <2>6, <2>7, <3>2 DEF Conflicts, Exists
    <3>3. CASE e # r.id /\ f # r.id
      BY <1>i, <2>2, <2>6, <2>7, <3>3 DEF ConflictsOnlyUnseen, Conflicts, Exists
    <3>. QED
      BY <3>1, <3>2, <3>3
  <2>8. ConflictsOnlyUnseen'
    BY <2>7 DEF ConflictsOnlyUnseen, Conflicts
  <2>. QED
    BY <2>4, <2>8
<1>3. ASSUME NEW a \in Admin, NEW e \in Id, Toggle(a, e) PROVE FreshClear' /\ ConflictsOnlyUnseen'
  <2>1. endpoint[e] \in Definition
    BY <1>3, <1>t DEF Toggle, Exists
  <2>2. /\ endpoint'[e].shape = endpoint[e].shape
        /\ \A f \in Id \ {e} : endpoint'[f] = endpoint[f]
    BY <1>3, <1>t, <2>1 DEF Toggle, Definition
  <2>3. Fewer
    BY <1>3, <2>2 DEF Fewer, Toggle, Exists
  <2>. QED
    BY <1>3, <1>g, <1>i, <2>3, FewerConflicts, Requests DEF Toggle
<1>4. ASSUME NEW a \in Admin, NEW e \in Id, Delete(a, e) PROVE FreshClear' /\ ConflictsOnlyUnseen'
  BY <1>4, <1>g, <1>i, FewerConflicts, WithoutFewer, Requests DEF Delete
<1>5. ASSUME NEW a \in Admin, Invalidate(a) \/ GiveUp(a) PROVE FreshClear' /\ ConflictsOnlyUnseen'
  BY <1>5, <1>g, <1>i, <1>s, FewerConflicts, Requests DEF Invalidate, GiveUp
<1>6. ASSUME NEW d \in Database, NEW n \in Name \cup {None}, SetName(d, n)
      PROVE  FreshClear' /\ ConflictsOnlyUnseen'
  BY <1>6, <1>i, FewerConflicts, WithoutFewer DEF SetName
<1>7. ASSUME NEW c \in Client, Lookup(c) \/ Install(c) PROVE FreshClear' /\ ConflictsOnlyUnseen'
  BY <1>7, <1>i, <1>s, FewerConflicts DEF Lookup, Install
<1>8. CASE UNCHANGED vars
  BY <1>8, <1>i, <1>s, FewerConflicts DEF vars
<1>. QED
  BY <1>1, <1>2, <1>3, <1>4, <1>5, <1>6, <1>7, <1>8 DEF Next

-----------------------------------------------------------------------------
(* Theorems.                                                               *)

\* No endpoint is there at first, and no route table.
LEMMA Starts == Init => IInv /\ RouterCurrent
<1>1. Init => Typed
  BY Requests DEF Init, Typed
<1>2. Init => FreshClear
  BY Requests DEF Init, FreshClear
<1>3. Init => ConflictsOnlyUnseen /\ RouterCurrent
  BY DEF Init, ConflictsOnlyUnseen, Exists, RouterCurrent
<1>. QED
  BY <1>1, <1>2, <1>3 DEF IInv

(***************************************************************************)
(* No two endpoints serve one route, however many administrators save      *)
(* endpoints at once, unless one was stored between the check and the      *)
(* store of the other.                                                     *)
(***************************************************************************)
THEOREM NoHiddenConflict == Spec => []ConflictsOnlyUnseen
<1>1. Init => IInv
  BY Starts
<1>2. IInv /\ [Next]_vars => IInv'
  BY TypedStep, ClearStep DEF IInv
<1>3. IInv => ConflictsOnlyUnseen
  BY DEF IInv
<1>. QED
  BY <1>1, <1>2, <1>3, PTL DEF Spec

(***************************************************************************)
(* The route table kept is what the tables say once the requests that      *)
(* change them are through, however many requests build it at once, unless *)
(* a stale list was installed after the invalidation, or a database was    *)
(* renamed or deleted under the table.                                     *)
(***************************************************************************)
THEOREM RouterIsCurrent == Spec => []RouterCurrent
<1>1. Init => Typed /\ RouterCurrent
  BY Starts DEF IInv
<1>2. Typed /\ RouterCurrent /\ [Next]_vars => Typed' /\ RouterCurrent'
  <2>. SUFFICES ASSUME Typed, RouterCurrent, [Next]_vars PROVE RouterCurrent'
    BY TypedStep
  <2>. DEFINE Invalidating == \E a \in Admin : admin[a].at = "invalidate"
              Same == endpoint' = endpoint /\ name' = name
  <2>t. admin \in [Admin -> Request] /\ outdated \in BOOLEAN
    BY DEF Typed
  <2>c. Same => Compiled' = Compiled
    BY DEF Compiled, Listed, Exists
  <2>8. RouterCurrent <=> router \in {None, Compiled} \/ outdated \/ Invalidating
    BY DEF RouterCurrent
  <2>9. RouterCurrent' <=> router' \in {None, Compiled'} \/ outdated' \/ Invalidating'
    BY DEF RouterCurrent
  <2>k. ASSUME Same, UNCHANGED <<router, outdated>>, Invalidating => Invalidating'
        PROVE  RouterCurrent'
    <3>. HIDE DEF Invalidating
    <3>. QED
      BY <2>c, <2>k, <2>8, <2>9
  <2>1. ASSUME NEW a \in Admin, Store(a) \/ \E e \in Id : Toggle(a, e) \/ Delete(a, e)
        PROVE  RouterCurrent'
    <3>1. admin'[a].at = "invalidate"
      BY <2>1, <2>t, Requests DEF Store, Toggle, Delete, AdminGo
    <3>. QED
      BY <3>1 DEF RouterCurrent
  <2>2. ASSUME NEW a \in Admin, GiveUp(a) \/ \E e \in Id, d \in Saved : Check(a, e, d)
        PROVE  RouterCurrent'
    <3>1. Same /\ UNCHANGED <<router, outdated>> /\ (Invalidating => Invalidating')
      BY <2>2, <2>t DEF GiveUp, Check, AdminGo
    <3>. QED
      BY <2>k, <3>1
  <2>3. ASSUME NEW a \in Admin, Invalidate(a) PROVE RouterCurrent'
    BY <2>3 DEF Invalidate, RouterCurrent
  <2>4. ASSUME NEW d \in Database, NEW n \in Name \cup {None}, SetName(d, n)
        PROVE  RouterCurrent'
    BY <2>4, <2>t DEF SetName, RouterCurrent
  <2>5. ASSUME NEW c \in Client, Lookup(c) PROVE RouterCurrent'
    BY <2>5, <2>k DEF Lookup
  <2>6. ASSUME NEW c \in Client, Install(c) PROVE RouterCurrent'
    <3>1. Same /\ UNCHANGED admin
      BY <2>6 DEF Install
    <3>2. UNCHANGED <<router, outdated>> \/ router' = Compiled \/ outdated'
      BY <2>6 DEF Install
    <3>. QED
      BY <2>9, <2>c, <2>k, <3>1, <3>2
  <2>7. CASE UNCHANGED vars
    BY <2>7, <2>k DEF vars
  <2>. QED
    BY <2>1, <2>2, <2>3, <2>4, <2>5, <2>6, <2>7 DEF Next
<1>. QED
  BY <1>1, <1>2, PTL DEF Spec

=============================================================================
