------------------------------- MODULE MCApi --------------------------------
(* One run for the three checks of a call to a custom endpoint that have     *)
(* nothing in common but the call: its statement, when it was saved, and the *)
(* key and the quota of the caller. Each behaviour is one of one part; the   *)
(* others stay as they are.                                                  *)
EXTENDS RateLimiter, TLC

CONSTANTS Key, Endpoint, Public, Client, Form, Nested, Odd

VARIABLES
    part,                                            \* "quota", "keys" or "text"
    key, grants, exists, asked, request, seen,       \* of ApiKeys
    ch, split, count, strip, sqlite, odd, read       \* of SqlText

keyVars == <<key, grants, exists, asked, request, seen>>
textVars == <<ch, split, count, strip, sqlite, odd, read>>

Keys == INSTANCE ApiKeys
Text == INSTANCE SqlText

\* An endpoint's limit is tighter than its callers' limit.
TighterOnEndpoint == [i \in Own \cup Scoped |-> IF i \in Own THEN 2 ELSE 1]

\* Enabled keys of either width and lifetime, and the ways to retire one.
Forms ==
    [scopes : {{"read"}, {"read", "write"}}, all : {FALSE}, grants : SUBSET Endpoint,
     expiry : {"never", "ahead"}, disabled : {FALSE}]
    \cup [scopes : {{"read", "write"}}, all : {TRUE}, grants : {{}},
          expiry : {"ahead", "past"}, disabled : BOOLEAN]

ApiInit ==
    /\ part \in {"quota", "keys", "text"}
    /\ Init /\ Keys!Init /\ Text!Init
    /\ part # "text" => ch = "newline"

ApiNext ==
    /\ UNCHANGED part
    /\ \/ part = "quota" /\ Next /\ UNCHANGED <<keyVars, textVars>>
       \/ part = "keys" /\ Keys!Next /\ UNCHANGED <<vars, textVars>>
       \/ part = "text" /\ Text!Next /\ UNCHANGED <<vars, keyVars>>

ApiSpec == ApiInit /\ [][ApiNext]_<<part, vars, keyVars, textVars>>

\* See ApiKeys: the endpoints a key is granted are those last asked for it.
GrantsAsSaved == Keys!GrantsAsSaved

\* See ApiKeys: a request is served only as its key allowed while it was checked.
AdmittedAsGranted == Keys!AdmittedAsGranted

\* See SqlText: a script without odd forms is cut where SQLite ends its statements.
CutWhereStatementsEnd == Text!CutWhereStatementsEnd

\* See SqlText: in statements of such scripts, placeholders and named parameters are
\* found where SQLite has them, but for the kinds it names.
ParametersAsBound == Text!ParametersAsBound

Symmetry == Permutations(Client) \cup Permutations(Key) \cup Permutations(Request)
=============================================================================
