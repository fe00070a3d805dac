------------------------------ MODULE ApiKeys -------------------------------
(* API keys (auth/apikeys.go) and the requests to custom endpoints that      *)
(* present them (Server.handleGeneratedAPI). A key is a row of api_keys and, *)
(* unless it covers all endpoints, rows of api_key_endpoints. Writers change *)
(* both in one transaction; a request reads them one after the other, on the *)
(* read pool, and decides on what it read.                                   *)
(*                                                                           *)
(* The endpoints are modelled in Endpoints: here they exist until they are   *)
(* deleted, and a request may still be matched to one that has been, since   *)
(* routers are copies. Only whether an endpoint is public matters here, and  *)
(* that is fixed.                                                            *)
EXTENDS FiniteSets

CONSTANTS
    Key,        \* keys an administrator may issue
    Endpoint,   \* custom endpoints
    Public,     \* those of them that need no key
    Client,     \* requests in progress
    Form,       \* what administrators save: a record of the scopes, whether all
                \* endpoints are covered, the endpoints granted, the expiry
                \* ("never", "ahead" or "past") and whether the key is disabled
    None        \* instead of a key: the request presents none

Scope == {"read", "write"}

VARIABLES
    key,       \* the row of api_keys of each key that is issued and not revoked
    grants,    \* rows of api_key_endpoints: the endpoints granted to each key
    exists,    \* endpoints that have not been deleted
    asked,     \* the endpoints the last save of each key asked for
    request,   \* what each client is doing
    seen       \* what has held of the key and the endpoint of a request at some
               \* moment since it arrived

vars == <<key, grants, exists, asked, request, seen>>

Issued(k) == key[k].status = "issued"

Idle == [stage |-> "idle"]

Init ==
    /\ key = [k \in Key |-> [status |-> "unissued"]]
    /\ grants = [k \in Key |-> {}]
    /\ exists = Endpoint
    /\ asked = [k \in Key |-> {}]
    /\ request = [c \in Client |-> Idle]
    /\ seen = [c \in Client |-> {}]

-----------------------------------------------------------------------------
(* What a key's definition says of a request, in the current state. These    *)
(* are for the properties; the code decides with CanScope and CanEndpoint.   *)

Usable(k, scope) ==
    Issued(k) /\ ~key[k].disabled /\ key[k].expiry # "past" /\ scope \in key[k].scopes
Granted(k, e) == Issued(k) /\ (key[k].all \/ e \in grants[k])

Facts(r) ==
    IF r.stage = "idle" THEN {}
    ELSE IF r.key = None THEN IF r.endpoint \in Public THEN {"public"} ELSE {"refusable"}
    ELSE UNION {IF Usable(r.key, r.scope) THEN {"usable"} ELSE {"refusable"},
                IF Granted(r.key, r.endpoint) THEN {"granted"} ELSE {"refusable"}}

\* Requests in progress see every state of their key.
Observe == seen' = [c \in Client |->
    IF request'[c].stage = "idle" THEN {}
    ELSE (IF request[c].stage = "idle" THEN {} ELSE seen[c]) \cup Facts(request[c])'
                                    ]

-----------------------------------------------------------------------------
(* Administrators. CreateAPIKey and UpdateAPIKey each run one transaction;   *)
(* the foreign key rejects, and rolls back, one that grants an endpoint that *)
(* does not exist.                                                           *)

\* validate
Valid(f) == f.scopes # {} /\ (f.all \/ f.grants # {})

AddKeyEndpoints(k, f) ==  \* mutant: the old grants stay
    grants' = [grants EXCEPT ![k] = IF f.all THEN @ ELSE @ \cup f.grants]

ReplaceKeyEndpoints(k, f) ==
    grants' = [grants EXCEPT ![k] = IF f.all THEN {} ELSE f.grants]

Save(k, f, used) ==
    /\ Valid(f)
    /\ f.all \/ f.grants \subseteq exists
    /\ key' = [key EXCEPT ![k] = [status |-> "issued", scopes |-> f.scopes, all |-> f.all,
                                  expiry |-> f.expiry, disabled |-> f.disabled,
                                  used |-> used]]
    /\ ReplaceKeyEndpoints(k, f)
    /\ asked' = [asked EXCEPT ![k] = IF f.all THEN {} ELSE f.grants]
    /\ UNCHANGED <<exists, request>>
    /\ Observe

\* A new key is enabled and does not expire in the past.
CreateAPIKey(k) ==
    /\ key[k].status = "unissued"
    /\ \E f \in Form : f.expiry # "past" /\ ~f.disabled /\ Save(k, f, FALSE)

UpdateAPIKey(k) ==
    /\ Issued(k)
    /\ \E f \in Form : Save(k, f, key[k].used)

\* The grants go with the key.
DeleteAPIKey(k) ==
    /\ Issued(k)
    /\ key' = [key EXCEPT ![k] = [status |-> "revoked"]]
    /\ grants' = [grants EXCEPT ![k] = {}]
    /\ asked' = [asked EXCEPT ![k] = {}]
    /\ UNCHANGED <<exists, request>>
    /\ Observe

\* Time passes the expiry of a key.
Expire(k) ==
    /\ Issued(k) /\ key[k].expiry = "ahead"
    /\ key' = [key EXCEPT ![k].expiry = "past"]
    /\ UNCHANGED <<grants, exists, asked, request>>
    /\ Observe

\* The grants of a deleted endpoint go with it (ON DELETE CASCADE).
DeleteEndpoint(e) ==
    /\ e \in exists
    /\ exists' = exists \ {e}
    /\ grants' = [k \in Key |-> grants[k] \ {e}]
    /\ UNCHANGED <<key, asked, request>>
    /\ Observe

-----------------------------------------------------------------------------
(* Requests.                                                                 *)

Go(c, r) ==
    /\ request' = [request EXCEPT ![c] = r]
    /\ UNCHANGED <<key, grants, exists, asked>>
    /\ Observe

Refuse(c) == Go(c, [request[c] EXCEPT !.stage = "refused"])

\* A request has been matched to an endpoint.
Arrive(c) ==
    /\ request[c].stage = "idle"
    /\ \E k \in Key \cup {None}, e \in Endpoint, scope \in Scope :
          Go(c, [stage |-> "matched", key |-> k, endpoint |-> e, scope |-> scope,
                 scopes |-> {}])

\* authenticateAPIRequest, for a request without a key.
Anonymous(c) ==
    /\ request[c].stage = "matched" /\ request[c].key = None
    /\ IF request[c].endpoint \in Public
       THEN Go(c, [request[c] EXCEPT !.stage = "serving"])
       ELSE Refuse(c)

RowNotDisabled(k) ==  \* mutant: the expiry is not looked at
    Issued(k) /\ ~key[k].disabled
RowUsable(k) == Issued(k) /\ ~key[k].disabled /\ key[k].expiry # "past"

\* CanScope and CanEndpoint: the key must carry the scope the method needs and be
\* granted this endpoint.
Decide(c, scopes, all, ids) ==
    LET r == request[c] IN
    IF r.scope \in scopes /\ (all \/ r.endpoint \in ids)
    THEN Go(c, [r EXCEPT !.stage = "serving"])
    ELSE Refuse(c)

\* VerifyAPIKey: the row is read ...
ReadRow(c) ==
    LET r == request[c] IN
    /\ r.stage = "matched" /\ r.key # None
    /\ IF ~RowUsable(r.key) THEN Refuse(c)
       ELSE IF key[r.key].all THEN Decide(c, key[r.key].scopes, TRUE, {})
       ELSE Go(c, [r EXCEPT !.stage = "verified", !.scopes = key[r.key].scopes])

\* ... and then, unless it covers all endpoints, the grants (keyEndpointIDs).
ReadGrants(c) ==
    /\ request[c].stage = "verified"
    /\ Decide(c, request[c].scopes, FALSE, grants[request[c].key])

\* The endpoint is executed and the use of the key recorded (TouchAPIKey), or
\* it fails and nothing is.
Finish(c) ==
    /\ request[c].stage \in {"serving", "refused"}
    /\ request' = [request EXCEPT ![c] = Idle]
    /\ \/ UNCHANGED key
       \/ /\ request[c].stage = "serving" /\ request[c].key # None /\ Issued(request[c].key)
          /\ key' = [key EXCEPT ![request[c].key].used = TRUE]
    /\ UNCHANGED <<grants, exists, asked>>
    /\ Observe

Next ==
    \/ \E k \in Key : CreateAPIKey(k) \/ UpdateAPIKey(k) \/ DeleteAPIKey(k) \/ Expire(k)
    \/ \E e \in Endpoint : DeleteEndpoint(e)
    \/ \E c \in Client : \/ Arrive(c) \/ Anonymous(c) \/ ReadRow(c) \/ ReadGrants(c)
                         \/ Finish(c)

Spec == Init /\ [][Next]_vars

-----------------------------------------------------------------------------
(* Correctness.                                                              *)

\* After any sequence of saves, of keys that turn from all endpoints to some and
\* back, and of deleted endpoints, a key is granted what was last asked for it
\* and still exists: nothing is left from an earlier save and nothing was lost.
GrantsAsSaved == \A k \in Key : grants[k] = asked[k] \cap exists

\* A request is served only if, while it was being checked, its key was enabled,
\* unexpired and carried the scope, and was granted the endpoint: at some moment
\* each, since the row and the grants are read apart and a writer may come
\* between. A request without a key is served by public endpoints only.
AdmittedAsGranted ==
    \A c \in Client : request[c].stage = "serving" =>
        IF request[c].key = None
        THEN "public" \in seen[c]
        ELSE {"usable", "granted"} \subseteq seen[c]
=============================================================================
