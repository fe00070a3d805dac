---------------------------- MODULE ApiKeysProofs ----------------------------
(* Proofs about ApiKeys, for any keys, endpoints, requests and saved forms.  *)
EXTENDS ApiKeys, TLAPS

\* Values of the rows and of the requests, as far as the proofs need them.
Scopes == {{}} \cup {f.scopes : f \in Form}

Rows ==
    [status : {"unissued", "revoked"}]
    \cup [status : {"issued"}, scopes : Scopes, all : {f.all : f \in Form},
          expiry : {"past"} \cup {f.expiry : f \in Form},
          disabled : {f.disabled : f \in Form}, used : BOOLEAN]

Calls ==
    {Idle}
    \cup [stage : {"matched", "verified", "serving", "refused"},
          key : Key \cup {None}, endpoint : Endpoint, scope : Scope, scopes : Scopes]

TypeOK ==
    /\ key \in [Key -> Rows]
    /\ grants \in [Key -> SUBSET Endpoint]
    /\ asked \in [Key -> SUBSET Endpoint]
    /\ exists \in SUBSET Endpoint
    /\ request \in [Client -> Calls]
    /\ seen = [c \in Client |-> seen[c]]

\* A key that is not issued is granted nothing.
NoneUnissued == \A k \in Key : ~Issued(k) => grants[k] = {}

\* What holds of a request now has been seen of it.
FactsSeen == \A c \in Client : Facts(request[c]) \subseteq seen[c]

\* A request whose row has been read presented a key, and that key was usable
\* then if the scopes of the row allow the request.
VerifiedWasUsable ==
    \A c \in Client : request[c].stage = "verified" =>
        /\ request[c].key # None
        /\ request[c].scope \in request[c].scopes => "usable" \in seen[c]

IInv == TypeOK /\ GrantsAsSaved /\ NoneUnissued /\ FactsSeen /\ VerifiedWasUsable
        /\ AdmittedAsGranted

-----------------------------------------------------------------------------
(* Every step observes the requests.                                         *)

\* A move of a request, by which it is served, refused or goes on.
Move(c) == \/ Arrive(c) \/ Anonymous(c) \/ ReadRow(c) \/ ReadGrants(c)

\* A move changes the request of its client alone.
LEMMA Moves ==
    ASSUME NEW c \in Client, Move(c)
    PROVE  \E r : Go(c, r)
<1>1. CASE Arrive(c) BY <1>1 DEF Arrive
<1>2. CASE Anonymous(c) BY <1>2 DEF Anonymous, Refuse
<1>3. CASE ReadRow(c) BY <1>3 DEF ReadRow, Refuse, Decide
<1>4. CASE ReadGrants(c) BY <1>4 DEF ReadGrants, Refuse, Decide
<1> QED BY <1>1, <1>2, <1>3, <1>4 DEF Move

\* An administrator creates or updates a key by saving a form.
LEMMA Saves ==
    ASSUME NEW k \in Key, CreateAPIKey(k) \/ UpdateAPIKey(k)
    PROVE  \E f \in Form : \E u : Save(k, f, u)
BY DEF CreateAPIKey, UpdateAPIKey

\* No step escapes the histories.
LEMMA NextObserves == ASSUME Next PROVE Observe
<1>1. ASSUME NEW k \in Key, CreateAPIKey(k) \/ UpdateAPIKey(k) PROVE Observe
  BY <1>1, Saves DEF Save
<1>2. ASSUME NEW k \in Key, DeleteAPIKey(k) \/ Expire(k) PROVE Observe
  BY <1>2 DEF DeleteAPIKey, Expire
<1>3. ASSUME NEW e \in Endpoint, DeleteEndpoint(e) PROVE Observe
  BY <1>3 DEF DeleteEndpoint
<1>4. ASSUME NEW c \in Client, Move(c) PROVE Observe BY <1>4, Moves DEF Go
<1>5. ASSUME NEW c \in Client, Finish(c) PROVE Observe BY <1>5 DEF Finish
<1> QED BY <1>1, <1>2, <1>3, <1>4, <1>5 DEF Next, Move

\* What holds of a request after a step has then been seen of it, and what was
\* seen while the request was in progress still is.
LEMMA Observed ==
    ASSUME Observe, NEW c \in Client
    PROVE  /\ Facts(request[c])' \subseteq seen'[c]
           /\ request[c].stage # "idle" /\ request'[c].stage # "idle"
              => seen[c] \subseteq seen'[c]
BY DEF Observe, Facts

-----------------------------------------------------------------------------
(* Types.                                                                    *)

\* What has been seen is a function of the requests: Observe makes it one.
LEMMA SeenIsFunction == ASSUME Observe PROVE seen' = [c \in Client |-> seen'[c]]
BY DEF Observe

\* A save keeps the types.
LEMMA SaveType ==
    ASSUME TypeOK, NEW k \in Key, NEW f \in Form, NEW u \in BOOLEAN, Save(k, f, u)
    PROVE  TypeOK'
<1>1. key' \in [Key -> Rows]
  <2>1. [status |-> "issued", scopes |-> f.scopes, all |-> f.all, expiry |-> f.expiry,
         disabled |-> f.disabled, used |-> u] \in Rows
    BY DEF Rows, Scopes
  <2> QED BY <2>1 DEF TypeOK, Save
<1>2. grants' \in [Key -> SUBSET Endpoint] /\ asked' \in [Key -> SUBSET Endpoint]
  BY DEF TypeOK, Save, ReplaceKeyEndpoints
<1>3. seen' = [c \in Client |-> seen'[c]] BY SeenIsFunction DEF Save
<1> QED BY <1>1, <1>2, <1>3 DEF TypeOK, Save

\* So does a move to a typed request.
LEMMA GoType ==
    ASSUME TypeOK, NEW c \in Client, NEW r \in Calls, Go(c, r)
    PROVE  TypeOK'
BY SeenIsFunction DEF TypeOK, Go

\* A request that goes on is one of the same key, endpoint and scope.
LEMMA StageType ==
    ASSUME TypeOK, NEW c \in Client, request[c].stage \in {"matched", "verified"},
           NEW s \in {"verified", "serving", "refused"}
    PROVE  [request[c] EXCEPT !.stage = s] \in Calls
BY DEF TypeOK, Calls, Idle

\* A request may take on the scopes of a row.
LEMMA ScopesType ==
    ASSUME NEW r \in Calls, r.stage # "idle", NEW s \in Scopes
    PROVE  [r EXCEPT !.scopes = s] \in Calls
BY DEF Calls, Idle

\* The row of an issued key, and what time and a use make of it, are typed.
LEMMA UsedType ==
    ASSUME TypeOK, NEW k \in Key, Issued(k)
    PROVE  /\ key[k].used \in BOOLEAN
           /\ key[k].scopes \in Scopes
           /\ [key EXCEPT ![k].expiry = "past"] \in [Key -> Rows]
           /\ [key EXCEPT ![k].used = TRUE] \in [Key -> Rows]
<1>1. key[k] \in Rows /\ key[k].status = "issued" BY DEF TypeOK, Issued
<1>2. key[k].used \in BOOLEAN /\ key[k].scopes \in Scopes BY <1>1 DEF Rows
<1>3. [key[k] EXCEPT !.expiry = "past"] \in Rows BY <1>1 DEF Rows
<1>4. [key[k] EXCEPT !.used = TRUE] \in Rows BY <1>1 DEF Rows
<1>5. /\ [key EXCEPT ![k].expiry = "past"] = [key EXCEPT ![k] = [key[k] EXCEPT !.expiry = "past"]]
      /\ [key EXCEPT ![k].used = TRUE] = [key EXCEPT ![k] = [key[k] EXCEPT !.used = TRUE]]
  BY DEF TypeOK
<1>6. \A x \in Rows : [key EXCEPT ![k] = x] \in [Key -> Rows] BY DEF TypeOK
<1> QED BY <1>2, <1>3, <1>4, <1>5, <1>6

\* Every step keeps the types.
LEMMA TypeNext == ASSUME TypeOK, Next PROVE TypeOK'
<1>0. seen' = [c \in Client |-> seen'[c]] BY NextObserves, SeenIsFunction
<1>1. ASSUME NEW k \in Key, CreateAPIKey(k) PROVE TypeOK'
  BY <1>1, SaveType DEF CreateAPIKey
<1>2. ASSUME NEW k \in Key, UpdateAPIKey(k) PROVE TypeOK'
  <2>1. PICK f \in Form : Save(k, f, key[k].used) BY <1>2 DEF UpdateAPIKey
  <2>2. key[k].used \in BOOLEAN BY <1>2, UsedType DEF UpdateAPIKey
  <2> QED BY <2>1, <2>2, SaveType
<1>3. ASSUME NEW k \in Key, DeleteAPIKey(k) PROVE TypeOK'
  BY <1>0, <1>3 DEF DeleteAPIKey, TypeOK, Rows
<1>4. ASSUME NEW k \in Key, Expire(k) PROVE TypeOK'
  BY <1>0, <1>4, UsedType DEF Expire, TypeOK
<1>5. ASSUME NEW e \in Endpoint, DeleteEndpoint(e) PROVE TypeOK'
  BY <1>0, <1>5 DEF DeleteEndpoint, TypeOK
<1>6. ASSUME NEW c \in Client, Arrive(c) PROVE TypeOK'
  BY <1>6, GoType DEF Arrive, Calls, Scopes
<1>7. ASSUME NEW c \in Client, Anonymous(c) PROVE TypeOK'
  BY <1>7, GoType, StageType DEF Anonymous, Refuse
<1>8. ASSUME NEW c \in Client, ReadRow(c) PROVE TypeOK'
  <2>1. CASE Refuse(c) BY <1>8, <2>1, GoType, StageType DEF ReadRow, Refuse
  <2>2. CASE Go(c, [request[c] EXCEPT !.stage = "serving"])
    BY <1>8, <2>2, GoType, StageType DEF ReadRow
  <2>3. CASE RowUsable(request[c].key)
             /\ Go(c, [request[c] EXCEPT !.stage = "verified",
                                         !.scopes = key[request[c].key].scopes])
    <3>1. request[c].key \in Key /\ request[c].stage = "matched"
      BY <1>8 DEF ReadRow, TypeOK, Calls, Idle
    <3>2. key[request[c].key].scopes \in Scopes BY <2>3, <3>1, UsedType DEF RowUsable
    <3>3. [request[c] EXCEPT !.stage = "verified", !.scopes = key[request[c].key].scopes]
          \in Calls
      <4> DEFINE r == [request[c] EXCEPT !.stage = "verified"]
      <4>1. r \in Calls BY <3>1, StageType
      <4>2. r.stage # "idle" BY <3>1 DEF TypeOK, Calls, Idle
      <4> HIDE DEF r
      <4>3. [r EXCEPT !.scopes = key[request[c].key].scopes] \in Calls
        BY <3>2, <4>1, <4>2, ScopesType
      <4> QED BY <4>3 DEF r
    <3> QED BY <2>3, <3>3, GoType
  <2> QED BY <1>8, <2>1, <2>2, <2>3 DEF ReadRow, Decide
<1>9. ASSUME NEW c \in Client, ReadGrants(c) PROVE TypeOK'
  BY <1>9, GoType, StageType DEF ReadGrants, Decide, Refuse
<1>10. ASSUME NEW c \in Client, Finish(c) PROVE TypeOK'
  <2>1. key' \in [Key -> Rows]
    <3>1. CASE UNCHANGED key BY <3>1 DEF TypeOK
    <3>2. CASE ~UNCHANGED key
      <4>1. request[c].key \in Key BY <1>10, <3>2 DEF Finish, TypeOK, Calls, Idle
      <4> QED BY <1>10, <3>2, <4>1, UsedType DEF Finish
    <3> QED BY <3>1, <3>2
  <2> QED BY <1>0, <1>10, <2>1 DEF Finish, TypeOK, Calls
<1> QED BY <1>1, <1>2, <1>3, <1>4, <1>5, <1>6, <1>7, <1>8, <1>9, <1>10 DEF Next

-----------------------------------------------------------------------------
(* Grants.                                                                   *)

\* Every step keeps the grants at those of the last save.
LEMMA GrantsNext ==
    ASSUME TypeOK, GrantsAsSaved, NoneUnissued, Next
    PROVE  GrantsAsSaved' /\ NoneUnissued'
<1> USE DEF TypeOK, GrantsAsSaved, NoneUnissued, Issued
<1>1. ASSUME NEW k \in Key, NEW f \in Form, NEW u, Save(k, f, u)
      PROVE  GrantsAsSaved' /\ NoneUnissued'
  BY <1>1 DEF Save, ReplaceKeyEndpoints
<1>2. ASSUME NEW k \in Key, DeleteAPIKey(k) PROVE GrantsAsSaved' /\ NoneUnissued'
  BY <1>2 DEF DeleteAPIKey
<1>3. ASSUME NEW k \in Key, Expire(k) PROVE GrantsAsSaved' /\ NoneUnissued'
  <2>1. \A j \in Key : key'[j].status = key[j].status
    BY <1>3 DEF Expire, Rows
  <2> QED BY <1>3, <2>1 DEF Expire
<1>4. ASSUME NEW e \in Endpoint, DeleteEndpoint(e) PROVE GrantsAsSaved' /\ NoneUnissued'
  BY <1>4 DEF DeleteEndpoint
<1>5. ASSUME NEW c \in Client, NEW r, Go(c, r) PROVE GrantsAsSaved' /\ NoneUnissued'
  BY <1>5 DEF Go
<1>6. ASSUME NEW c \in Client, Finish(c) PROVE GrantsAsSaved' /\ NoneUnissued'
  <2>1. \A j \in Key : key'[j].status = key[j].status
    BY <1>6 DEF Finish, Rows
  <2> QED BY <1>6, <2>1 DEF Finish
<1> HIDE DEF TypeOK, GrantsAsSaved, NoneUnissued, Issued
<1> QED BY <1>1, <1>2, <1>3, <1>4, <1>5, <1>6, Saves, Moves DEF Next, Move

-----------------------------------------------------------------------------
(* Admission.                                                                *)

\* What VerifiedWasUsable and AdmittedAsGranted say of one request.
Backed(c) ==
    /\ request[c].stage = "verified" =>
         /\ request[c].key # None
         /\ request[c].scope \in request[c].scopes => "usable" \in seen[c]
    /\ request[c].stage = "serving" =>
         IF request[c].key = None THEN "public" \in seen[c]
         ELSE {"usable", "granted"} \subseteq seen[c]

\* The two properties say that every request is backed.
LEMMA AllBacked == (VerifiedWasUsable /\ AdmittedAsGranted) <=> \A c \in Client : Backed(c)
BY DEF VerifiedWasUsable, AdmittedAsGranted, Backed

\* A step that leaves a request as it is keeps what backs it.
LEMMA Undisturbed ==
    ASSUME NEW c \in Client, Backed(c), Observe, request'[c] = request[c]
    PROVE  Backed(c)'
<1>1. CASE request[c].stage \in {"verified", "serving"}
  <2>1. seen[c] \subseteq seen'[c] BY <1>1, Observed
  <2> QED BY <2>1 DEF Backed
<1> QED BY <1>1 DEF Backed

\* What was seen of the request of a key that is usable, or granted its endpoint.
LEMMA Seen ==
    ASSUME FactsSeen, NEW c \in Client, request[c].stage # "idle"
    PROVE  /\ request[c].key = None /\ request[c].endpoint \in Public => "public" \in seen[c]
           /\ request[c].key # None /\ Usable(request[c].key, request[c].scope)
              => "usable" \in seen[c]
           /\ request[c].key # None /\ Granted(request[c].key, request[c].endpoint)
              => "granted" \in seen[c]
BY DEF FactsSeen, Facts

\* The steps by which a request is admitted.
LEMMA DecideBacked ==
    ASSUME TypeOK, FactsSeen, NEW c \in Client, Observe,
           request[c].stage \in {"matched", "verified"}, request[c].key # None,
           NEW scopes, NEW all, NEW ids, Decide(c, scopes, all, ids),
           request[c].scope \in scopes => "usable" \in seen[c],
           (all \/ request[c].endpoint \in ids)
           => Granted(request[c].key, request[c].endpoint)
    PROVE  Backed(c)'
<1>1. request[c] \in Calls /\ request[c].stage # "idle" BY DEF TypeOK
<1>2. CASE Go(c, [request[c] EXCEPT !.stage = "serving"]) /\ request[c].scope \in scopes
           /\ (all \/ request[c].endpoint \in ids)
  <2>1. request'[c] = [request[c] EXCEPT !.stage = "serving"] BY <1>2 DEF Go, TypeOK
  <2>2. request'[c].stage = "serving" /\ request'[c].key = request[c].key
    BY <1>1, <2>1 DEF Calls, Idle
  <2>3. {"usable", "granted"} \subseteq seen[c] BY <1>1, <1>2, Seen
  <2>4. seen[c] \subseteq seen'[c] BY <1>1, <2>2, Observed
  <2> QED BY <2>2, <2>3, <2>4 DEF Backed
<1>3. CASE Refuse(c)
  <2>1. request'[c].stage = "refused"
    BY <1>1, <1>3 DEF Refuse, Go, TypeOK, Calls, Idle
  <2> QED BY <2>1 DEF Backed
<1> QED BY <1>2, <1>3 DEF Decide

\* A refused request needs no backing.
LEMMA RefuseBacked ==
    ASSUME TypeOK, NEW c \in Client, request[c].stage = "matched", Refuse(c)
    PROVE  Backed(c)'
<1>1. request'[c].stage = "refused" BY DEF Refuse, Go, TypeOK, Calls, Idle
<1> QED BY <1>1 DEF Backed

\* A request without a key is admitted to public endpoints only.
LEMMA AnonymousBacked ==
    ASSUME TypeOK, FactsSeen, NEW c \in Client, Observe, Anonymous(c)
    PROVE  Backed(c)'
<1>1. request[c].stage = "matched" /\ request[c].key = None BY DEF Anonymous
<1>2. CASE Refuse(c) BY <1>1, <1>2, RefuseBacked
<1>3. CASE Go(c, [request[c] EXCEPT !.stage = "serving"]) /\ request[c].endpoint \in Public
  <2>1. request'[c].stage = "serving" /\ request'[c].key = request[c].key
    BY <1>1, <1>3 DEF Go, TypeOK, Calls, Idle
  <2>2. "public" \in seen[c] BY <1>1, <1>3, Seen
  <2>3. seen[c] \subseteq seen'[c] BY <1>1, <2>1, Observed
  <2> QED BY <1>1, <2>1, <2>2, <2>3 DEF Backed
<1> QED BY <1>2, <1>3 DEF Anonymous

\* The row is read and either refuses, admits, or backs the wait for the grants.
LEMMA ReadRowBacked ==
    ASSUME TypeOK, FactsSeen, NEW c \in Client, Observe, ReadRow(c)
    PROVE  Backed(c)'
<1> DEFINE r == request[c]
<1>1. r.stage = "matched" /\ r.key # None /\ r \in Calls BY DEF ReadRow, TypeOK
<1>2. CASE Refuse(c) BY <1>1, <1>2, RefuseBacked
<1>3. ASSUME RowUsable(r.key), r.scope \in key[r.key].scopes PROVE "usable" \in seen[c]
  BY <1>1, <1>3, Seen DEF RowUsable, Usable
<1>4. CASE RowUsable(r.key) /\ key[r.key].all /\ Decide(c, key[r.key].scopes, TRUE, {})
  <2>1. Granted(r.key, r.endpoint) BY <1>4 DEF Granted, RowUsable
  <2> QED BY <1>1, <1>3, <1>4, <2>1, DecideBacked
<1>5. CASE RowUsable(r.key)
           /\ Go(c, [r EXCEPT !.stage = "verified", !.scopes = key[r.key].scopes])
  <2>1. request'[c] = [r EXCEPT !.stage = "verified", !.scopes = key[r.key].scopes]
    BY <1>5 DEF Go, TypeOK
  <2>2. request'[c].stage = "verified" /\ request'[c].key = r.key
        /\ request'[c].scope = r.scope /\ request'[c].scopes = key[r.key].scopes
    BY <1>1, <2>1 DEF Calls, Idle
  <2>3. seen[c] \subseteq seen'[c] BY <1>1, <2>2, Observed
  <2> QED BY <1>1, <1>3, <1>5, <2>2, <2>3 DEF Backed
<1> QED BY <1>2, <1>4, <1>5 DEF ReadRow

\* The grants are read later: the row was usable then, the grants count now.
LEMMA ReadGrantsBacked ==
    ASSUME TypeOK, NoneUnissued, FactsSeen, NEW c \in Client, Backed(c), Observe, ReadGrants(c)
    PROVE  Backed(c)'
<1> DEFINE r == request[c]
<1>1. r.stage = "verified" /\ r \in Calls BY DEF ReadGrants, TypeOK
<1>2. r.key \in Key /\ r.key # None /\ (r.scope \in r.scopes => "usable" \in seen[c])
  BY <1>1 DEF Backed, Calls, Idle
<1>3. r.endpoint \in grants[r.key] => Granted(r.key, r.endpoint)
  BY <1>2 DEF NoneUnissued, Granted
<1>4. Decide(c, r.scopes, FALSE, grants[r.key]) BY DEF ReadGrants
<1> QED BY <1>1, <1>2, <1>3, <1>4, DecideBacked

\* Every step keeps every request backed.
LEMMA AdmissionNext ==
    ASSUME TypeOK, NoneUnissued, FactsSeen, VerifiedWasUsable, AdmittedAsGranted, Next
    PROVE  FactsSeen' /\ VerifiedWasUsable' /\ AdmittedAsGranted'
<1>1. Observe BY NextObserves
<1>2. FactsSeen' BY <1>1, Observed DEF FactsSeen
<1>3. \A d \in Client : Backed(d) BY AllBacked
<1>4. SUFFICES ASSUME NEW d \in Client PROVE Backed(d)'
  BY <1>2 DEF VerifiedWasUsable, AdmittedAsGranted, Backed
<1>5. CASE request'[d] = request[d] BY <1>1, <1>3, <1>5, Undisturbed
<1>6. CASE Move(d)
  <2>1. CASE Arrive(d)
    <3>1. request'[d].stage = "matched" BY <2>1 DEF Arrive, Go, TypeOK
    <3> QED BY <3>1 DEF Backed
  <2> QED BY <1>1, <1>3, <1>6, <2>1, AnonymousBacked, ReadRowBacked, ReadGrantsBacked DEF Move
<1>7. CASE Finish(d)
  <2>1. request'[d].stage = "idle" BY <1>7 DEF Finish, TypeOK, Idle
  <2> QED BY <2>1 DEF Backed
<1>8. ASSUME NEW c \in Client, c # d, Move(c) \/ Finish(c) PROVE request'[d] = request[d]
  BY <1>8, Moves DEF Go, Finish, TypeOK
<1>9. ASSUME NEW k \in Key, CreateAPIKey(k) \/ UpdateAPIKey(k) PROVE request'[d] = request[d]
  BY <1>9, Saves DEF Save
<1>10. ASSUME NEW k \in Key, DeleteAPIKey(k) \/ Expire(k) PROVE request'[d] = request[d]
  BY <1>10 DEF DeleteAPIKey, Expire
<1>11. ASSUME NEW e \in Endpoint, DeleteEndpoint(e) PROVE request'[d] = request[d]
  BY <1>11 DEF DeleteEndpoint
<1> QED BY <1>5, <1>6, <1>7, <1>8, <1>9, <1>10, <1>11 DEF Next, Move

-----------------------------------------------------------------------------
(* The theorems.                                                             *)

\* IInv is inductive.
LEMMA Inductive ==
    /\ Init => IInv
    /\ IInv /\ [Next]_vars => IInv'
<1>1. ASSUME Init PROVE IInv
  <2>1. TypeOK BY <1>1 DEF Init, TypeOK, Rows, Calls
  <2>2. GrantsAsSaved /\ NoneUnissued BY <1>1 DEF Init, GrantsAsSaved, NoneUnissued
  <2>3. FactsSeen /\ VerifiedWasUsable /\ AdmittedAsGranted
    BY <1>1 DEF Init, Idle, Facts, FactsSeen, VerifiedWasUsable, AdmittedAsGranted
  <2> QED BY <2>1, <2>2, <2>3 DEF IInv
<1>2. ASSUME IInv, Next PROVE IInv'
  BY <1>2, TypeNext, GrantsNext, AdmissionNext DEF IInv
<1>3. ASSUME IInv, UNCHANGED vars PROVE IInv'
  BY <1>3 DEF vars, IInv, TypeOK, GrantsAsSaved, NoneUnissued, FactsSeen, Facts, Usable,
              Granted, Issued, VerifiedWasUsable, AdmittedAsGranted
<1> QED BY <1>1, <1>2, <1>3

\* IInv is an invariant.
LEMMA Invariant == Spec => []IInv
BY Inductive, PTL DEF Spec

\* Whatever is saved, however often, and whichever endpoints are deleted in
\* between, a key is granted exactly the endpoints of its last save that still
\* exist.
THEOREM GrantsOfTheLastSave == Spec => []GrantsAsSaved
BY Invariant, PTL DEF IInv

\* No request is served whose key was not, while the request was being checked,
\* usable at one moment and granted the endpoint at one moment, although the row
\* and the grants are read apart and keys change in between.
THEOREM NoneServedUnpermitted == Spec => []AdmittedAsGranted
BY Invariant, PTL DEF IInv
=============================================================================
