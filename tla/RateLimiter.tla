---------------------------- MODULE RateLimiter -----------------------------
(* The in-memory rate limiter (middleware.RateLimiter) and the check a       *)
(* generated endpoint makes with it (Server.checkAPIRateLimit): token        *)
(* buckets that are refilled lazily, when their identity next asks, and a    *)
(* collector that discards the idle ones.                                    *)
(*                                                                           *)
(* Time is counted in seconds. The code keeps tokens as floating-point       *)
(* numbers; here they are counted in units of 1/Minute of a token, so that   *)
(* a refill of Cap[i] / 60 tokens a second is Cap[i] units. The limit of an  *)
(* identity is fixed: an administrator who changes a key's limit changes     *)
(* Cap between two behaviours, not within one.                               *)
EXTENDS Integers

CONSTANTS
    Own,       \* identities of a caller: an address or an API key
    Scoped,    \* identities of a caller on an endpoint that has its own limit
    Cap,       \* the capacity each identity is given: requests per minute
    Minute,    \* 60: seconds in a minute, and units in a token
    GcAfter,   \* seconds after which the collector discards a bucket: 10 minutes
    Request,   \* requests that may be in progress at once
    MaxTime,   \* bound: the clock stops here
    None

Ident == Own \cup Scoped

ASSUME CapAssumption == Cap \in [Ident -> Nat \ {0}]
ASSUME MinuteAssumption == Minute \in Nat \ {0}
ASSUME GcAssumption == GcAfter \in Nat /\ GcAfter >= Minute
ASSUME BoundAssumption == MaxTime \in Nat
ASSUME NoneAssumption == None \notin Ident /\ None \notin Nat

VARIABLES
    now,       \* the clock that time.Now reads
    tokens,    \* buckets: the units in the bucket of each identity, None without one
    lastSeen,  \* when the bucket was last refilled
    waiting,   \* the identity a request has still to be charged to, None if idle
    told,      \* when the last refused caller of an identity was told to retry, None
               \* once a request has been admitted since
    since,     \* an observer's window: when it was opened ...
    admitted   \* ... and the requests of each identity admitted since

vars == <<now, tokens, lastSeen, waiting, told, since, admitted>>
buckets == <<tokens, lastSeen>>
window == <<since, admitted>>

Full(i) == Cap[i] * Minute
Unbounded(full, n) == n  \* mutant: what flows into a full bucket is kept
AtMost(full, n) == IF n <= full THEN n ELSE full

\* What AllowN finds in the bucket once it has refilled it.
Refilled(i) ==
    IF tokens[i] = None
    THEN Full(i)
    ELSE AtMost(Full(i), tokens[i] + Cap[i] * (now - lastSeen[i]))

WaitRoundedDown(i) ==  \* mutant: the fraction of a second is cut off
    (Minute - Refilled(i)) \div Cap[i]

\* The seconds a refused caller is told to wait: the time the deficit takes to
\* flow in, rounded up, and the second AllowN adds.
Wait(i) == (Minute - Refilled(i) + Cap[i] - 1) \div Cap[i] + 1

Init ==
    /\ now = 0
    /\ tokens = [i \in Ident |-> None]
    /\ lastSeen = [i \in Ident |-> 0]
    /\ waiting = [r \in Request |-> None]
    /\ told = [i \in Ident |-> None]
    /\ since = 0
    /\ admitted = [i \in Ident |-> 0]

-----------------------------------------------------------------------------
(* AllowN: one critical section, in which the bucket is refilled and, when   *)
(* it holds a whole token, charged.                                          *)

NoRefill(i, left) ==  \* mutant: the time of the refill is not recorded
    /\ tokens' = [tokens EXCEPT ![i] = left]
    /\ lastSeen' = IF tokens[i] = None THEN [lastSeen EXCEPT ![i] = now] ELSE lastSeen

Store(i, left) ==
    /\ tokens' = [tokens EXCEPT ![i] = left]
    /\ lastSeen' = [lastSeen EXCEPT ![i] = now]

Allow(i) ==
    /\ Refilled(i) >= Minute
    /\ Store(i, Refilled(i) - Minute)
    /\ told' = [told EXCEPT ![i] = None]
    /\ admitted' = [admitted EXCEPT ![i] = @ + 1]

Deny(i) ==
    /\ Refilled(i) < Minute
    /\ Store(i, Refilled(i))
    /\ told' = [told EXCEPT ![i] = now + Wait(i)]
    /\ UNCHANGED admitted

-----------------------------------------------------------------------------
(* checkAPIRateLimit: the endpoint's limit first, then the caller's own, in  *)
(* two critical sections. A request that the second one refuses has still    *)
(* been charged to the first. The RateLimit middleware has only the second.  *)

ChargeEndpoint(r) ==
    /\ waiting[r] = None
    /\ \E i \in Own, e \in Scoped :
          \/ Allow(e) /\ waiting' = [waiting EXCEPT ![r] = i]
          \/ Deny(e) /\ UNCHANGED waiting
    /\ UNCHANGED <<now, since>>

ChargeCaller(r) ==
    /\ \E i \in IF waiting[r] = None THEN Own ELSE {waiting[r]} : Allow(i) \/ Deny(i)
    /\ waiting' = [waiting EXCEPT ![r] = None]
    /\ UNCHANGED <<now, since>>

-----------------------------------------------------------------------------
Unseen(i, t) ==  \* mutant: discards buckets that are not full again
    tokens[i] # None /\ t > lastSeen[i]

\* gc, with the time its ticker delivered, which is past when it gets the lock.
Idle(i, t) == tokens[i] # None /\ t - lastSeen[i] > GcAfter

Collect(t) ==
    /\ \E i \in Ident : Idle(i, t)
    /\ tokens' = [i \in Ident |-> IF Idle(i, t) THEN None ELSE tokens[i]]
    /\ lastSeen' = [i \in Ident |-> IF Idle(i, t) THEN 0 ELSE lastSeen[i]]
    /\ UNCHANGED <<now, waiting, told, window>>

Tick ==
    /\ now < MaxTime
    /\ now' = now + 1
    /\ UNCHANGED <<buckets, waiting, told, window>>

\* The observer opens a new window.
Watch ==
    /\ since' = now
    /\ admitted' = [i \in Ident |-> 0]
    /\ UNCHANGED <<now, buckets, waiting, told>>

Next ==
    \/ \E r \in Request : ChargeEndpoint(r) \/ ChargeCaller(r)
    \/ \E t \in 0..now : Collect(t)
    \/ Tick
    \/ Watch

Spec == Init /\ [][Next]_vars

-----------------------------------------------------------------------------
(* Correctness.                                                              *)

\* Types: no bucket holds more than its capacity, and none was refilled in the
\* future, so that the time elapsed since is never negative.
TypeOK ==
    /\ now \in Nat
    /\ tokens \in [Ident -> Nat \cup {None}]
    /\ lastSeen \in [Ident -> Nat]
    /\ waiting \in [Request -> Own \cup {None}]
    /\ told \in [Ident -> Nat \cup {None}]
    /\ since \in Nat /\ since <= now
    /\ admitted \in [Ident -> Nat]
    /\ \A i \in Ident : lastSeen[i] <= now /\ (tokens[i] # None => tokens[i] <= Full(i))

\* "A caller cannot burst twice at a window boundary": whenever one starts to
\* count, an identity is admitted at most a full bucket of requests and what
\* flows in while one counts; what is left in its bucket is part of that. The
\* collector, which forgets buckets, does not hand out a second burst.
NoDoubleBurst ==
    \A i \in Ident :
        admitted[i] * Minute + Refilled(i) <= Full(i) + Cap[i] * (now - since)

\* A caller told to retry after some seconds is admitted then by the bucket that
\* refused it, unless another request of the same identity took the token first;
\* refusals in between do not put it off, nor does the collector.
RetryHonoured ==
    \A i \in Ident : told[i] # None /\ now >= told[i] => Refilled(i) >= Minute

\* Lazy refills, the collector and the order in which requests reach the lock
\* make no difference: the limiter is a quota that fills up as time passes.
Quota == INSTANCE RateQuota WITH left <- [i \in Ident |-> Refilled(i)]
ImplementsQuota == Quota!Spec
=============================================================================
