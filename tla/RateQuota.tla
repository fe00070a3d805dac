----------------------------- MODULE RateQuota ------------------------------
(* What a rate limiter promises about one set of callers: each identity has  *)
(* a quota that fills up again while time passes, a request is admitted when *)
(* a whole request's worth of quota is left, and nothing else touches it.    *)
(*                                                                           *)
(* Quota is counted in fractions of a request: one request costs Minute      *)
(* units, an identity allowed Cap[i] requests a minute starts with           *)
(* Cap[i] * Minute of them and regains Cap[i] a second.                      *)
EXTENDS Naturals

CONSTANTS
    Ident,     \* the identities that quotas are kept for
    Cap,       \* requests per minute, and burst, of each identity
    Minute     \* seconds in a minute, and units in the cost of a request

VARIABLE left  \* what is left of each identity's quota

Full(i) == Cap[i] * Minute
AtMost(full, n) == IF n <= full THEN n ELSE full

Init == left = [i \in Ident |-> Full(i)]

\* A second passes.
Refill == left' = [i \in Ident |-> AtMost(Full(i), left[i] + Cap[i])]

\* A request is admitted.
Take(i) ==
    /\ left[i] >= Minute
    /\ left' = [left EXCEPT ![i] = @ - Minute]

Next == Refill \/ \E i \in Ident : Take(i)

Spec == Init /\ [][Next]_left
=============================================================================
