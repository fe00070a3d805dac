----------------------------- MODULE ApiProofs ------------------------------
(* Proofs about the three checks of a call to a custom endpoint: of          *)
(* RateLimiter, for any identities, capacities and times; of SqlText, for    *)
(* texts of any length; and, with what ApiKeysProofs proves, of the          *)
(* specification that puts them side by side.                                *)
EXTENDS MCApi, TLAPS

USE DEF Full, AtMost

(***************************************************************************)
(* Rate limits.                                                            *)
(***************************************************************************)

(* Products.                                                                 *)

\* A product with a natural number grows with the other factor.
LEMMA TimesGrows ==
    ASSUME NEW c \in Nat, NEW m \in Nat, NEW n \in Nat, m <= n
    PROVE  c * m \in Nat /\ c * n \in Nat /\ c * m <= c * n
<1>1. n - m \in Nat OBVIOUS
<1>2. \A x, y \in Nat : x * y \in Nat OBVIOUS
<1>3. c * n = c * m + c * (n - m) OBVIOUS
<1> QED BY <1>1, <1>2, <1>3

\* A second more is a refill more.
LEMMA TimesNext ==
    ASSUME NEW c \in Nat, NEW m \in Int, NEW n \in Int
    PROVE  c * ((m + 1) - n) = c * (m - n) + c
OBVIOUS

\* Capacities are positive, and a full bucket pays for a request.
LEMMA Capacity ==
    ASSUME NEW i \in Ident
    PROVE  Cap[i] \in Nat /\ Cap[i] > 0 /\ Minute \in Nat /\ Minute > 0
           /\ Full(i) \in Nat /\ Full(i) >= Minute
<1>1. Cap[i] \in Nat /\ Cap[i] > 0 BY CapAssumption
<1>2. Minute \in Nat /\ Minute > 0 BY MinuteAssumption
<1>3. Minute * 1 <= Minute * Cap[i] /\ Minute * Cap[i] \in Nat BY <1>1, <1>2, TimesGrows
<1> QED BY <1>1, <1>2, <1>3

\* What a division rounded up, plus one, is good for: by then the missing part
\* of a request has flowed in.
LEMMA WaitLongEnough ==
    ASSUME NEW c \in Nat, c > 0, NEW d \in Nat, d > 0
    PROVE  /\ (d + c - 1) \div c + 1 \in Nat
           /\ c * ((d + c - 1) \div c + 1) >= d
<1> DEFINE q == (d + c - 1) \div c
<1>1. q \in Nat /\ (d + c - 1) % c \in 0..(c - 1) /\ d + c - 1 = c * q + ((d + c - 1) % c)
  OBVIOUS
<1> QED BY <1>1

-----------------------------------------------------------------------------
(* What each step does to the quota that is left.                            *)

\* A bucket is refilled up to what it holds at most.
LEMMA RefilledType ==
    ASSUME TypeOK, NEW i \in Ident
    PROVE  Refilled(i) \in Nat /\ Refilled(i) <= Full(i)
<1>1. Full(i) \in Nat BY Capacity
<1>2. CASE tokens[i] = None BY <1>1, <1>2 DEF Refilled
<1>3. CASE tokens[i] # None
  <2>1. tokens[i] \in Nat /\ now - lastSeen[i] \in Nat BY <1>3 DEF TypeOK
  <2>2. Cap[i] * (now - lastSeen[i]) \in Nat BY <2>1, Capacity, TimesGrows
  <2> QED BY <1>1, <1>3, <2>1, <2>2 DEF Refilled
<1> QED BY <1>2, <1>3

\* AllowN leaves in the bucket what it stored there.
LEMMA StoreLeaves ==
    ASSUME TypeOK, NEW i \in Ident, NEW n \in Nat, n <= Full(i), Store(i, n), now' = now,
           NEW j \in Ident
    PROVE  Refilled(j)' = IF j = i THEN n ELSE Refilled(j)
<1>1. CASE j # i BY <1>1 DEF Store, Refilled, TypeOK
<1>2. CASE j = i
  <2>1. tokens'[i] = n /\ lastSeen'[i] = now BY DEF Store, TypeOK
  <2>2. n # None BY NoneAssumption
  <2>3. now - now = 0 /\ Cap[i] * 0 = 0 BY Capacity DEF TypeOK
  <2>4. Cap[i] * (now' - lastSeen'[i]) = 0 BY <2>1, <2>3
  <2>5. Refilled(i)' = AtMost(Full(i), n + Cap[i] * (now' - lastSeen'[i]))
    BY <2>1, <2>2 DEF Refilled
  <2>6. Refilled(i)' = n BY <2>4, <2>5
  <2> QED BY <1>2, <2>6
<1> QED BY <1>1, <1>2

\* The collector discards only buckets that are full again.
LEMMA CollectLeaves ==
    ASSUME TypeOK, NEW t \in 0..now, Collect(t), NEW i \in Ident
    PROVE  Refilled(i)' = Refilled(i)
<1>1. CASE ~Idle(i, t) BY <1>1 DEF Collect, Refilled, TypeOK
<1>2. CASE Idle(i, t)
  <2>1. /\ tokens[i] \in Nat /\ lastSeen[i] \in Nat /\ now \in Nat
        /\ now - lastSeen[i] \in Nat /\ now - lastSeen[i] >= Minute
    BY <1>2, GcAssumption, MinuteAssumption DEF Idle, TypeOK
  <2>2. Cap[i] * (now - lastSeen[i]) \in Nat /\ Full(i) <= Cap[i] * (now - lastSeen[i])
    BY <2>1, Capacity, TimesGrows
  <2> DEFINE flown == Cap[i] * (now - lastSeen[i])
             full == Full(i)
  <2>3. Refilled(i) = AtMost(full, tokens[i] + flown) BY <1>2 DEF Refilled, Idle
  <2>4. full \in Nat /\ flown \in Nat /\ full <= flown BY <2>2, Capacity
  <2> HIDE DEF flown, full
  <2>5. tokens[i] + flown >= full BY <2>1, <2>4
  <2>6. Refilled(i) = full BY <2>1, <2>3, <2>4, <2>5
  <2>7. tokens'[i] = None BY <1>2 DEF Collect
  <2> QED BY <2>6, <2>7 DEF Refilled, full
<1> QED BY <1>1, <1>2

\* A second refills every bucket by its rate, up to its capacity.
LEMMA TickLeaves ==
    ASSUME TypeOK, Tick, NEW i \in Ident
    PROVE  Refilled(i)' = AtMost(Full(i), Refilled(i) + Cap[i])
<1>1. Cap[i] \in Nat /\ Full(i) \in Nat BY Capacity
<1>2. CASE tokens[i] = None BY <1>1, <1>2 DEF Tick, buckets, Refilled
<1>3. CASE tokens[i] # None
  <2>1. tokens[i] \in Nat /\ lastSeen[i] \in Nat /\ now \in Nat /\ now - lastSeen[i] \in Nat
    BY <1>3 DEF TypeOK
  <2> DEFINE flown == Cap[i] * (now - lastSeen[i])
  <2>2. flown \in Nat BY <1>1, <2>1, TimesGrows
  <2>3. Cap[i] * (now' - lastSeen[i]) = flown + Cap[i]
    <3> DEFINE last == lastSeen[i]
    <3>1. now \in Int /\ last \in Int BY <2>1
    <3> HIDE DEF last
    <3>2. Cap[i] * ((now + 1) - last) = Cap[i] * (now - last) + Cap[i]
      BY <1>1, <3>1, TimesNext
    <3> QED BY <1>3, <3>2 DEF Tick, last
  <2>4. Refilled(i)' = AtMost(Full(i), tokens[i] + (flown + Cap[i]))
    BY <1>3, <2>3 DEF Refilled, Tick, buckets
  <2>5. Refilled(i) = AtMost(Full(i), tokens[i] + flown)
    BY <1>3 DEF Refilled
  <2> HIDE DEF flown
  <2> QED BY <1>1, <2>1, <2>2, <2>4, <2>5
<1> QED BY <1>2, <1>3

\* A step stores a smaller or equal amount in one bucket, discards full ones,
\* lets a second pass, or leaves the buckets and the clock alone.
Charge(i) == (Allow(i) \/ Deny(i)) /\ UNCHANGED <<now, since>>

\* A step charges a client, collects idle buckets, or lets time pass.
LEMMA NextCases ==
    ASSUME TypeOK, [Next]_vars
    PROVE  \/ /\ \E i \in Ident : Charge(i)
              /\ waiting' \in [Request -> Own \cup {None}]
           \/ \E t \in 0..now : Collect(t)
           \/ Tick
           \/ Watch
           \/ UNCHANGED vars
<1>1. ASSUME NEW r \in Request, ChargeEndpoint(r)
      PROVE  (\E i \in Ident : Charge(i)) /\ waiting' \in [Request -> Own \cup {None}]
  BY <1>1 DEF ChargeEndpoint, Charge, TypeOK, Ident
<1>2. ASSUME NEW r \in Request, ChargeCaller(r)
      PROVE  (\E i \in Ident : Charge(i)) /\ waiting' \in [Request -> Own \cup {None}]
  <2>1. PICK i \in IF waiting[r] = None THEN Own ELSE {waiting[r]} : Allow(i) \/ Deny(i)
    BY <1>2 DEF ChargeCaller
  <2>2. i \in Ident BY <2>1 DEF TypeOK, Ident
  <2>3. waiting' \in [Request -> Own \cup {None}] BY <1>2 DEF ChargeCaller, TypeOK
  <2> QED BY <1>2, <2>1, <2>2, <2>3 DEF ChargeCaller, Charge
<1> QED BY <1>1, <1>2 DEF Next

-----------------------------------------------------------------------------
(* The inductive invariant: RetryHonoured is about a moment that is still to *)
(* come, so what makes it true is what will have flowed in by then.          *)

ToldEnough(i) ==
    told[i] # None /\ tokens[i] # None =>
        tokens[i] + Cap[i] * (told[i] - lastSeen[i]) >= Minute

IInv == TypeOK /\ NoDoubleBurst /\ \A i \in Ident : ToldEnough(i)

\* The wait that is answered is long enough for a token.
LEMMA WaitEnough ==
    ASSUME TypeOK, NEW i \in Ident, Deny(i)
    PROVE  Wait(i) \in Nat /\ Refilled(i) + Cap[i] * Wait(i) >= Minute
<1> DEFINE d == Minute - Refilled(i)
<1>1. Refilled(i) \in Nat /\ d \in Nat /\ d > 0 BY RefilledType, Capacity DEF Deny
<1>2. Cap[i] \in Nat /\ Cap[i] > 0 /\ Minute \in Nat BY Capacity
<1>3. Wait(i) = (d + Cap[i] - 1) \div Cap[i] + 1 BY DEF Wait
<1> HIDE DEF d
<1>4. Wait(i) \in Nat /\ Cap[i] * Wait(i) >= d BY <1>1, <1>2, <1>3, WaitLongEnough
<1>5. Cap[i] * Wait(i) \in Nat BY <1>2, <1>4, TimesGrows
<1> QED BY <1>1, <1>2, <1>4, <1>5 DEF d

\* No client has been seen at first.
LEMMA Initially == Init => IInv
<1> SUFFICES ASSUME Init PROVE IInv OBVIOUS
<1>1. TypeOK BY DEF Init, TypeOK
<1>2. NoDoubleBurst
  <2> SUFFICES ASSUME NEW i \in Ident
               PROVE  admitted[i] * Minute + Refilled(i) <= Full(i) + Cap[i] * (now - since)
    BY DEF NoDoubleBurst
  <2>1. 0 * Minute = 0 /\ Cap[i] * 0 = 0 /\ Full(i) \in Nat BY Capacity
  <2> QED BY <2>1 DEF Init, Refilled
<1>3. \A i \in Ident : ToldEnough(i) BY DEF Init, ToldEnough
<1> QED BY <1>1, <1>2, <1>3 DEF IInv

\* Every step keeps the types,
LEMMA TypeKept == TypeOK /\ [Next]_vars => TypeOK'
<1> SUFFICES ASSUME TypeOK, [Next]_vars PROVE TypeOK' OBVIOUS
<1>1. ASSUME NEW i \in Ident, Charge(i), waiting' \in [Request -> Own \cup {None}]
      PROVE  TypeOK'
  <2>1. Refilled(i) \in Nat /\ Refilled(i) <= Full(i) /\ Full(i) \in Nat
    BY RefilledType, Capacity
  <2>2. CASE Allow(i)
    <3>1. Refilled(i) - Minute \in Nat /\ Refilled(i) - Minute <= Full(i)
      BY <2>1, <2>2, Capacity DEF Allow
    <3> QED BY <1>1, <2>2, <3>1, NoneAssumption DEF Charge, Allow, Store, TypeOK
  <2>3. CASE Deny(i)
    <3>1. now + Wait(i) \in Nat BY <2>3, WaitEnough DEF TypeOK
    <3> QED BY <1>1, <2>1, <2>3, <3>1, NoneAssumption DEF Charge, Deny, Store, TypeOK
  <2> QED BY <1>1, <2>2, <2>3 DEF Charge
<1>2. ASSUME NEW t \in 0..now, Collect(t) PROVE TypeOK'
  BY <1>2 DEF Collect, window, TypeOK
<1>3. CASE Tick BY <1>3 DEF Tick, buckets, window, TypeOK
<1>4. CASE Watch BY <1>4 DEF Watch, buckets, TypeOK
<1>5. CASE UNCHANGED vars BY <1>5 DEF vars, TypeOK
<1> QED BY <1>1, <1>2, <1>3, <1>4, <1>5, NextCases

\* the bound on bursts,
LEMMA WindowKept == TypeOK /\ NoDoubleBurst /\ [Next]_vars => NoDoubleBurst'
<1> SUFFICES ASSUME TypeOK, NoDoubleBurst, [Next]_vars, NEW j \in Ident
             PROVE  (admitted[j] * Minute + Refilled(j) <= Full(j) + Cap[j] * (now - since))'
  BY DEF NoDoubleBurst
<1>1. /\ admitted[j] * Minute + Refilled(j) <= Full(j) + Cap[j] * (now - since)
      /\ admitted[j] \in Nat /\ Refilled(j) \in Nat /\ Refilled(j) <= Full(j)
      /\ now \in Nat /\ since \in Nat /\ now - since \in Nat
  BY RefilledType DEF NoDoubleBurst, TypeOK
<1>2. Cap[j] \in Nat /\ Minute \in Nat /\ Full(j) \in Nat BY Capacity
<1> DEFINE spent == admitted[j] * Minute
           flown == Cap[j] * (now - since)
<1>3. spent \in Nat /\ flown \in Nat BY <1>1, <1>2, TimesGrows
<1>4. ASSUME NEW i \in Ident, Charge(i)
      PROVE  (admitted[j] * Minute + Refilled(j) <= Full(j) + Cap[j] * (now - since))'
  <2>1. now' = now /\ since' = since BY <1>4 DEF Charge
  <2>2. CASE Allow(i)
    <3>1. /\ Refilled(i) \in Nat /\ Refilled(i) - Minute \in Nat
          /\ Refilled(i) - Minute <= Full(i)
      BY <2>2, RefilledType, Capacity DEF Allow
    <3>2. Refilled(j)' = IF j = i THEN Refilled(i) - Minute ELSE Refilled(j)
      BY <2>1, <2>2, <3>1, StoreLeaves DEF Allow
    <3>3. CASE j = i
      <4>1. admitted'[j] = admitted[j] + 1 BY <2>2, <3>3 DEF Allow, TypeOK
      <4>2. (admitted[j] + 1) * Minute = spent + Minute BY <1>1, <1>2
      <4> HIDE DEF spent, flown
      <4>3. spent + Minute + (Refilled(j) - Minute) <= Full(j) + flown
        BY <1>1, <1>2, <1>3 DEF spent, flown
      <4> QED BY <2>1, <3>2, <3>3, <4>1, <4>2, <4>3 DEF flown
    <3>4. CASE j # i
      <4>1. admitted'[j] = admitted[j] BY <2>2, <3>4 DEF Allow, TypeOK
      <4> QED BY <1>1, <2>1, <3>2, <3>4, <4>1
    <3> QED BY <3>3, <3>4
  <2>3. CASE Deny(i)
    <3>1. Refilled(j)' = Refilled(j)
      BY <2>1, <2>3, StoreLeaves, RefilledType DEF Deny
    <3> QED BY <1>1, <2>1, <2>3, <3>1 DEF Deny
  <2> QED BY <1>4, <2>2, <2>3 DEF Charge
<1>5. ASSUME NEW t \in 0..now, Collect(t)
      PROVE  (admitted[j] * Minute + Refilled(j) <= Full(j) + Cap[j] * (now - since))'
  <2>1. Refilled(j)' = Refilled(j) BY <1>5, CollectLeaves
  <2> QED BY <1>1, <1>5, <2>1 DEF Collect, window
<1>6. CASE Tick
  <2>1. Refilled(j)' = AtMost(Full(j), Refilled(j) + Cap[j]) BY <1>6, TickLeaves
  <2>2. Cap[j] * ((now + 1) - since) = flown + Cap[j] BY <1>1, <1>2, TimesNext
  <2>3. now' = now + 1 /\ since' = since /\ admitted' = admitted BY <1>6 DEF Tick, window
  <2>4. (Cap[j] * (now - since))' = flown + Cap[j] BY <2>2, <2>3
  <2>5. (admitted[j] * Minute)' = spent BY <2>3
  <2> HIDE DEF spent, flown
  <2>6. spent + Refilled(j) <= Full(j) + flown BY <1>1 DEF spent, flown
  <2>7. Refilled(j)' \in Nat /\ Refilled(j)' <= Refilled(j) + Cap[j]
    BY <1>1, <1>2, <2>1
  <2> QED BY <1>1, <1>2, <1>3, <2>4, <2>5, <2>6, <2>7
<1>7. CASE Watch
  <2>1. Refilled(j)' = Refilled(j) BY <1>7 DEF Watch, buckets, Refilled
  <2>2. now' - since' = 0 /\ admitted'[j] = 0 BY <1>1, <1>7 DEF Watch
  <2>3. Cap[j] * 0 = 0 /\ 0 * Minute = 0 BY <1>2
  <2> QED BY <1>1, <1>2, <2>1, <2>2, <2>3
<1>8. CASE UNCHANGED vars
  <2>1. Refilled(j)' = Refilled(j) BY <1>8 DEF vars, Refilled
  <2> QED BY <1>1, <1>8, <2>1 DEF vars
<1> QED BY <1>4, <1>5, <1>6, <1>7, <1>8, NextCases

\* and what clients were told.
LEMMA ToldKept ==
    TypeOK /\ (\A i \in Ident : ToldEnough(i)) /\ [Next]_vars
        => \A i \in Ident : ToldEnough(i)'
<1> SUFFICES ASSUME TypeOK, NEW j \in Ident, ToldEnough(j), [Next]_vars
             PROVE  ToldEnough(j)'
  OBVIOUS
<1>1. ASSUME NEW i \in Ident, Charge(i) PROVE ToldEnough(j)'
  <2>1. CASE j # i
    BY <1>1, <2>1 DEF Charge, Allow, Deny, Store, ToldEnough, TypeOK
  <2>2. CASE j = i /\ Allow(i)
    <3>1. told'[j] = None BY <2>2 DEF Allow, TypeOK
    <3> QED BY <3>1 DEF ToldEnough
  <2>3. CASE j = i /\ Deny(i)
    <3>1. /\ tokens'[j] = Refilled(j) /\ lastSeen'[j] = now /\ told'[j] = now + Wait(j)
      BY <2>3 DEF Deny, Store, TypeOK
    <3>2. Wait(j) \in Nat /\ Refilled(j) + Cap[j] * Wait(j) >= Minute
      BY <2>3, WaitEnough
    <3>3. told'[j] - lastSeen'[j] = Wait(j) BY <3>1, <3>2 DEF TypeOK
    <3> QED BY <3>1, <3>2, <3>3 DEF ToldEnough
  <2> QED BY <1>1, <2>1, <2>2, <2>3 DEF Charge
<1>2. ASSUME NEW t \in 0..now, Collect(t) PROVE ToldEnough(j)'
  <2>1. told' = told BY <1>2 DEF Collect
  <2>2. tokens'[j] = None \/ (tokens'[j] = tokens[j] /\ lastSeen'[j] = lastSeen[j])
    BY <1>2 DEF Collect
  <2> QED BY <2>1, <2>2 DEF ToldEnough
<1>3. CASE Tick BY <1>3 DEF Tick, buckets, ToldEnough
<1>4. CASE Watch BY <1>4 DEF Watch, buckets, ToldEnough
<1>5. CASE UNCHANGED vars BY <1>5 DEF vars, ToldEnough
<1> QED BY <1>1, <1>2, <1>3, <1>4, <1>5, NextCases

\* What will have flowed in by the time told is there when that time has come.
LEMMA HonouredThen ==
    TypeOK /\ (\A i \in Ident : ToldEnough(i)) => RetryHonoured
<1> SUFFICES ASSUME TypeOK, NEW i \in Ident, ToldEnough(i), told[i] # None, now >= told[i]
             PROVE  Refilled(i) >= Minute
  BY DEF RetryHonoured
<1>1. Full(i) \in Nat /\ Full(i) >= Minute /\ Cap[i] \in Nat /\ Minute \in Nat BY Capacity
<1>2. CASE tokens[i] = None BY <1>1, <1>2 DEF Refilled
<1>3. CASE tokens[i] # None
  <2>1. /\ tokens[i] \in Nat /\ now \in Nat /\ lastSeen[i] \in Nat /\ told[i] \in Nat
        /\ now - told[i] \in Nat
    BY <1>3 DEF TypeOK
  <2> DEFINE early == Cap[i] * (told[i] - lastSeen[i])
             late == Cap[i] * (now - lastSeen[i])
             rest == Cap[i] * (now - told[i])
  <2>2. rest \in Nat BY <1>1, <2>1, TimesGrows
  <2>3. early \in Int /\ late \in Int /\ late = early + rest BY <1>1, <2>1
  <2>4. tokens[i] + early >= Minute BY <1>3 DEF ToldEnough
  <2>5. Refilled(i) = AtMost(Full(i), tokens[i] + late) BY <1>3 DEF Refilled
  <2> HIDE DEF early, late, rest
  <2> QED BY <1>1, <2>1, <2>2, <2>3, <2>4, <2>5
<1> QED BY <1>2, <1>3

\* The invariant holds.
LEMMA Invariance == Spec => []IInv
<1>1. IInv /\ [Next]_vars => IInv' BY TypeKept, WindowKept, ToldKept DEF IInv
<1> QED BY Initially, <1>1, PTL DEF Spec

-----------------------------------------------------------------------------
(* The theorems.                                                             *)

\* No bucket is overdrawn or holds more than its capacity.
THEOREM TypeCorrect == Spec => []TypeOK
<1>1. IInv => TypeOK BY DEF IInv
<1> QED BY Invariance, <1>1, PTL

\* In any window of time an identity is admitted at most a full bucket of
\* requests and what flows in during the window (AllowN, gc).
THEOREM BurstBounded == Spec => []NoDoubleBurst
<1>1. IInv => NoDoubleBurst BY DEF IInv
<1> QED BY Invariance, <1>1, PTL

\* The time a refused caller is given is long enough (AllowN).
THEOREM RetryEnough == Spec => []RetryHonoured
<1>1. IInv => RetryHonoured BY HonouredThen DEF IInv
<1> QED BY Invariance, <1>1, PTL

\* Every step is one of the quota, or leaves it alone.
LEMMA StepRefines ==
    TypeOK /\ [Next]_vars => [Quota!Next]_([i \in Ident |-> Refilled(i)])
<1> DEFINE left == [i \in Ident |-> Refilled(i)]
<1> SUFFICES ASSUME TypeOK, [Next]_vars
             PROVE  Quota!Next \/ left' = left
  OBVIOUS
<1>1. ASSUME NEW i \in Ident, Charge(i) PROVE Quota!Next \/ left' = left
  <2>1. now' = now BY <1>1 DEF Charge
  <2>2. CASE Allow(i)
    <3>1. /\ Refilled(i) \in Nat /\ Refilled(i) >= Minute /\ Refilled(i) - Minute \in Nat
          /\ Refilled(i) - Minute <= Full(i)
      BY <2>2, RefilledType, Capacity DEF Allow
    <3>2. \A j \in Ident :
             Refilled(j)' = IF j = i THEN Refilled(i) - Minute ELSE Refilled(j)
      BY <2>1, <2>2, <3>1, StoreLeaves DEF Allow
    <3>3. left' = [left EXCEPT ![i] = @ - Minute] BY <3>2
    <3>4. Quota!Take(i) BY <3>1, <3>3 DEF Quota!Take
    <3> QED BY <3>4 DEF Quota!Next
  <2>3. CASE Deny(i)
    <3>1. \A j \in Ident : Refilled(j)' = Refilled(j)
      BY <2>1, <2>3, StoreLeaves, RefilledType DEF Deny
    <3> QED BY <3>1
  <2> QED BY <1>1, <2>2, <2>3 DEF Charge
<1>2. ASSUME NEW t \in 0..now, Collect(t) PROVE left' = left
  BY <1>2, CollectLeaves
<1>3. CASE Tick
  <2>1. \A j \in Ident : Refilled(j)' = AtMost(Full(j), Refilled(j) + Cap[j])
    BY <1>3, TickLeaves
  <2>2. Quota!Refill BY <2>1 DEF Quota!Refill, Quota!Full, Quota!AtMost
  <2> QED BY <2>2 DEF Quota!Next
<1>4. CASE Watch BY <1>4 DEF Watch, buckets, Refilled
<1>5. CASE UNCHANGED vars BY <1>5 DEF vars, Refilled
<1> QED BY <1>1, <1>2, <1>3, <1>4, <1>5, NextCases

\* The limiter implements a quota for each identity that fills up as time
\* passes and is spent by admitted requests only.
THEOREM Refinement == Spec => ImplementsQuota
<1>1. Init => Quota!Init BY DEF Init, Refilled, Quota!Init, Quota!Full
<1>2. IInv /\ [Next]_vars => [Quota!Next]_([i \in Ident |-> Refilled(i)])
  BY StepRefines DEF IInv
<1> QED BY Invariance, <1>1, <1>2, PTL DEF Spec, ImplementsQuota, Quota!Spec

(***************************************************************************)
(* SQL texts.                                                              *)
(***************************************************************************)

\* The scans of a scanner that knows these characters to open literals.
Scans(quotes) == [in : {"top", "line", "block"} \cup quotes, skip : BOOLEAN]

Splits == [scan : Scans(DOMAIN Text!Close), trigger : BOOLEAN, depth : {0, 1}, sql : BOOLEAN]
Statements == [scan : Scans(DOMAIN Text!Close),
               part : {"nothing", "head", "body", "done", "other"},
               cases : Nat, unlike : SUBSET DOMAIN Text!Unlike]

TextTypes ==
    /\ ch \in Text!Symbol \cup {Text!End}
    /\ split \in Splits
    /\ count \in Scans(Text!CountQuotes) /\ strip \in Scans(Text!StripQuotes)
    /\ sqlite \in Statements

\* The symbol to be consumed may stand where it stands, and is not misread.
Admissible ==
    /\ Text!MayFollow(sqlite, ch)
    /\ ch = "trigger" => Text!Sees(sqlite.scan)
    /\ Text!Sees(sqlite.scan) => ch # "spaced"
    /\ Text!Sees(sqlite.scan) /\ sqlite.part = "body" => ch \notin {"CASE", "end"}
    /\ Text!Sees(sqlite.scan) /\ sqlite.part \in {"head", "body"} => ch # "begin"

\* SplitStatements is where SQLite is, but for the * that opens a comment, which
\* it takes for a part of the comment.
SameScan ==
    IF sqlite.scan = Text!At("block", TRUE)
    THEN ch = "star" /\ split.scan = Text!At("block", FALSE)
    ELSE split.scan = sqlite.scan

\* It knows whether there is a statement, whether it is a trigger, and whether
\* it is in the body of one.
SameStatement ==
    /\ split.sql <=> sqlite.part # "nothing"
    /\ split.trigger <=> sqlite.part \in {"head", "body", "done"}
    /\ split.depth = IF sqlite.part = "body" THEN 1 ELSE 0
    /\ sqlite.cases > 0 => sqlite.part \in {"other", "head"}

\* The scans for parameters are where SQLite is, as long as the statement has no
\* literal that they do not know.
SameLiterals ==
    /\ sqlite.scan.in = "backtick" => "position" \in sqlite.unlike
    /\ sqlite.scan.in \in {"bracket", "backtick"} => "name" \in sqlite.unlike
    /\ "position" \notin sqlite.unlike => count = sqlite.scan
    /\ "name" \notin sqlite.unlike => strip = sqlite.scan

Joint == TextTypes /\ Admissible /\ SameScan /\ SameStatement /\ SameLiterals

\* Records of these shapes.
LEMMA Shapes ==
    /\ \A quotes : \A in \in {"top", "line", "block"} \cup quotes, skip \in BOOLEAN :
          Text!At(in, skip) \in Scans(quotes)
    /\ \A scan \in Scans(DOMAIN Text!Close), trigger \in BOOLEAN, depth \in {0, 1},
          sql \in BOOLEAN :
          [scan |-> scan, trigger |-> trigger, depth |-> depth, sql |-> sql] \in Splits
    /\ \A scan \in Scans(DOMAIN Text!Close),
          p \in {"nothing", "head", "body", "done", "other"}, cases \in Nat,
          unlike \in SUBSET DOMAIN Text!Unlike :
          [scan |-> scan, part |-> p, cases |-> cases, unlike |-> unlike] \in Statements
<1>1. \A quotes : \A in \in {"top", "line", "block"} \cup quotes, skip \in BOOLEAN :
         Text!At(in, skip) \in Scans(quotes)
  BY DEF Scans, Text!At
<1>2. \A scan \in Scans(DOMAIN Text!Close), trigger \in BOOLEAN, depth \in {0, 1},
         sql \in BOOLEAN :
         [scan |-> scan, trigger |-> trigger, depth |-> depth, sql |-> sql] \in Splits
  BY DEF Splits
<1>3. \A scan \in Scans(DOMAIN Text!Close),
         p \in {"nothing", "head", "body", "done", "other"}, cases \in Nat,
         unlike \in SUBSET DOMAIN Text!Unlike :
         [scan |-> scan, part |-> p, cases |-> cases, unlike |-> unlike] \in Statements
  BY DEF Statements
<1> QED BY <1>1, <1>2, <1>3

\* What becomes of a scan is one of these; the cases do not overlap.
LEMMA ScanTyped ==
    ASSUME NEW quotes \in SUBSET DOMAIN Text!Close, NEW s \in Scans(quotes), NEW next,
           NEW overlap \in BOOLEAN
    PROVE  Text!Scan(s, next, quotes, overlap) \in Scans(quotes)
<1> USE DEF Text!Sees, Text!Top
<1>1. s.in \in {"top", "line", "block"} \cup quotes /\ s.skip \in BOOLEAN BY DEF Scans
<1>2. "top" \notin quotes /\ "line" \notin quotes /\ "block" \notin quotes BY DEF Text!Close
<1>3. CASE s.skip BY <1>1, <1>3, Shapes DEF Text!Scan
<1>4. CASE ~s.skip /\ s.in = "line" BY <1>1, <1>2, <1>4, Shapes DEF Text!Scan
<1>5. CASE ~s.skip /\ s.in = "block" BY <1>1, <1>2, <1>5, Shapes DEF Text!Scan
<1>6. CASE ~s.skip /\ s.in \in quotes BY <1>1, <1>2, <1>6, Shapes DEF Text!Scan
<1>7. CASE Text!Sees(s) BY <1>1, <1>2, <1>7, Shapes DEF Text!Scan
<1> QED BY <1>1, <1>3, <1>4, <1>5, <1>6, <1>7

\* The scans after the next symbol.
SplitScan(next) == Text!Scan(split.scan, next, Text!SplitQuotes, TRUE)
SqliteScan(next) == Text!Scan(sqlite.scan, next, DOMAIN Text!Close, FALSE)

\* They keep their types,
LEMMA ScansTyped ==
    ASSUME TextTypes, NEW next
    PROVE  /\ SplitScan(next) \in Scans(DOMAIN Text!Close)
           /\ SqliteScan(next) \in Scans(DOMAIN Text!Close)
           /\ Text!CountStep(next) \in Scans(Text!CountQuotes)
           /\ Text!StripStep(next) \in Scans(Text!StripQuotes)
<1>1. /\ split.scan \in Scans(DOMAIN Text!Close) /\ sqlite.scan \in Scans(DOMAIN Text!Close)
      /\ count \in Scans(Text!CountQuotes) /\ strip \in Scans(Text!StripQuotes)
  BY DEF TextTypes, Splits, Statements
<1>2. /\ Text!SplitQuotes = DOMAIN Text!Close
      /\ Text!CountQuotes \subseteq DOMAIN Text!Close
      /\ Text!StripQuotes \subseteq DOMAIN Text!Close
  BY DEF Text!SplitQuotes, Text!CountQuotes, Text!StripQuotes, Text!Close
<1>3. \A quotes : Text!Top \in Scans(quotes) BY Shapes DEF Text!Top
<1> QED
  BY <1>1, <1>2, <1>3, ScanTyped DEF SplitScan, SqliteScan, Text!CountStep, Text!StripStep

\* and are what a step makes of them; the rest of a step by its fields.
LEMMA SplitFields ==
    ASSUME NEW next
    PROVE  /\ Text!SplitCuts =>
                Text!SplitStep(next) =
                  [scan |-> SplitScan(next), trigger |-> FALSE, depth |-> 0, sql |-> FALSE]
           /\ ~Text!SplitCuts =>
                Text!SplitStep(next) =
                  [scan |-> SplitScan(next), trigger |-> split.trigger \/ ch = "trigger",
                   depth |-> Text!Depth,
                   sql |-> split.sql \/ (Text!Sees(split.scan) /\ Text!Executable(next))]
BY DEF Text!SplitStep, SplitScan, Text!SplitFrom

\* White space, comments, and what is within a literal add nothing to the statement.
Adds(next) == Text!Sees(sqlite.scan) /\ Text!Executable(next)

\* The parameters that the symbol may make the code misread.
Misleads == {k \in DOMAIN Text!Unlike : ch \in Text!Unlike[k]}

\* The same for SQLite.
LEMMA SqliteFields ==
    ASSUME TextTypes, NEW next
    PROVE  /\ Text!SqliteEnds =>
                Text!SqliteStep(next) =
                  [scan |-> SqliteScan(next), part |-> "nothing", cases |-> 0, unlike |-> {}]
           /\ ~Text!SqliteEnds /\ ~Adds(next) =>
                Text!SqliteStep(next) =
                  [scan |-> SqliteScan(next), part |-> sqlite.part,
                   cases |-> sqlite.cases, unlike |-> sqlite.unlike]
           /\ ~Text!SqliteEnds /\ Adds(next) =>
                Text!SqliteStep(next) =
                  [scan |-> SqliteScan(next), part |-> Text!Part, cases |-> Text!Cases,
                   unlike |-> sqlite.unlike \cup Misleads]
<1>1. \A scan : [sqlite EXCEPT !.scan = scan] =
                   [scan |-> scan, part |-> sqlite.part, cases |-> sqlite.cases,
                    unlike |-> sqlite.unlike]
  <2>1. sqlite \in Statements BY DEF TextTypes
  <2> QED BY <2>1 DEF Statements
<1>2. Text!SqliteStep(next) =
         IF Text!SqliteEnds THEN Text!SqliteFrom(SqliteScan(next))
         ELSE IF ~Text!Sees(sqlite.scan) \/ ~Text!Executable(next)
         THEN [sqlite EXCEPT !.scan = SqliteScan(next)]
         ELSE [scan |-> SqliteScan(next), part |-> Text!Part, cases |-> Text!Cases,
               unlike |-> sqlite.unlike \cup Misleads]
  BY DEF Text!SqliteStep, SqliteScan, Misleads
<1> HIDE DEF SqliteScan
<1> QED BY <1>1, <1>2 DEF Text!SqliteFrom, Adds

\* A statement ends for both, or for neither.
LEMMA CutTogether ==
    ASSUME Joint
    PROVE  /\ Text!Sees(split.scan) <=> Text!Sees(sqlite.scan)
           /\ Text!SplitCuts <=> Text!SqliteEnds
BY DEF Joint, SameScan, SameStatement, Text!Sees, Text!At, Text!SplitCuts, Text!SqliteEnds

\* Where the words that matter may stand.
LEMMA Words ==
    ASSUME Joint, Text!Sees(sqlite.scan)
    PROVE  /\ ch = "trigger" => sqlite.part = "nothing"
           /\ ch = "BEGIN" => sqlite.part \in {"nothing", "head"} /\ sqlite.cases = 0
           /\ ch = "begin" => sqlite.part = "other"
           /\ ch = "CASE" => sqlite.part \in {"other", "head"}
           /\ ch = "END" => sqlite.cases > 0 \/ sqlite.part \in {"nothing", "body"}
           /\ ch = "end" => sqlite.part \in {"head", "other"}
           /\ ch # "spaced"
BY DEF Joint, Admissible, Text!MayFollow, Text!End, TextTypes, Statements

\* The next symbol may come next, and is none of the forms that are misread.
Fits(next) ==
    /\ next \in Text!Symbol \cup {Text!End}
    /\ Text!MayFollow(Text!SqliteStep(next), next)
    /\ Text!Misread(Text!SqliteStep(next), next) = {}

\* Types.
LEMMA TypesThen ==
    ASSUME Joint, NEW next
    PROVE  Text!SplitStep(next) \in Splits /\ Text!SqliteStep(next) \in Statements
<1>1. /\ split.trigger \in BOOLEAN /\ split.sql \in BOOLEAN /\ split.depth \in {0, 1}
      /\ sqlite.part \in {"nothing", "head", "body", "done", "other"}
      /\ sqlite.cases \in Nat /\ sqlite.unlike \subseteq DOMAIN Text!Unlike
  BY DEF Joint, TextTypes, Splits, Statements
<1>2. Text!Depth \in {0, 1}
  <2>1. Text!Sees(split.scan) /\ ch \in {"BEGIN", "begin"} => sqlite.part # "body"
    BY CutTogether, Words
  <2> QED BY <1>1, <2>1 DEF Joint, SameStatement, Text!Depth, Text!IsTriggerBody
<1>3. SplitScan(next) \in Scans(DOMAIN Text!Close) /\ SqliteScan(next) \in Scans(DOMAIN Text!Close)
  BY ScansTyped DEF Joint
<1>4. /\ Text!Part \in {"nothing", "head", "body", "done", "other"}
      /\ Text!Cases \in Nat
      /\ sqlite.unlike \cup Misleads \subseteq DOMAIN Text!Unlike
  BY <1>1 DEF Text!Part, Text!Cases, Misleads
<1>5. Text!SplitStep(next) \in Splits
  <2>1. CASE Text!SplitCuts BY <1>3, <2>1, Shapes, SplitFields
  <2>2. CASE ~Text!SplitCuts
    <3>1. (split.trigger \/ ch = "trigger") \in BOOLEAN
          /\ (split.sql \/ (Text!Sees(split.scan) /\ Text!Executable(next))) \in BOOLEAN
      OBVIOUS
    <3> QED BY <1>2, <1>3, <2>2, <3>1, Shapes, SplitFields
  <2> QED BY <2>1, <2>2
<1>6. Text!SqliteStep(next) \in Statements
  <2>1. CASE Text!SqliteEnds BY <1>3, <2>1, Shapes, SqliteFields DEF Joint
  <2>2. CASE ~Text!SqliteEnds /\ ~Adds(next)
    BY <1>1, <1>3, <2>2, Shapes, SqliteFields DEF Joint
  <2>3. CASE ~Text!SqliteEnds /\ Adds(next)
    BY <1>3, <1>4, <2>3, Shapes, SqliteFields DEF Joint
  <2> QED BY <2>1, <2>2, <2>3
<1> QED BY <1>5, <1>6

\* Where the scans are.
LEMMA ScanThen ==
    ASSUME Joint, NEW next, Fits(next)
    PROVE  IF SqliteScan(next) = Text!At("block", TRUE)
           THEN next = "star" /\ SplitScan(next) = Text!At("block", FALSE)
           ELSE SplitScan(next) = SqliteScan(next)
<1>1. sqlite.scan.in \in {"top", "line", "block"} \cup DOMAIN Text!Close
      /\ sqlite.scan.skip \in BOOLEAN
  BY DEF Joint, TextTypes, Statements, Scans
<1>2. Text!SplitQuotes = DOMAIN Text!Close BY DEF Text!SplitQuotes, Text!Close
<1>3. CASE sqlite.scan = Text!At("block", TRUE)
  <2>1. sqlite.scan.skip /\ sqlite.scan.in = "block" BY <1>3 DEF Text!At
  <2>2. SqliteScan(next) = Text!At("block", FALSE)
    BY <2>1 DEF SqliteScan, Text!Scan, Text!Sees
  <2>3. Text!SqliteStep(next).scan = SqliteScan(next) BY SqliteFields DEF Joint
  <2>4. next # "slash"
    BY <1>3, <2>2, <2>3 DEF Fits, Text!Misread, Text!At
  <2>5. SplitScan(next) = Text!At("block", FALSE)
    BY <1>3, <2>4, <1>2 DEF Joint, SameScan, SplitScan, Text!Scan, Text!At, Text!Close
  <2> QED BY <2>2, <2>5 DEF Text!At
<1>4. CASE sqlite.scan # Text!At("block", TRUE)
  <2>1. split.scan = sqlite.scan BY <1>4 DEF Joint, SameScan
  <2>2. CASE Text!Sees(sqlite.scan) /\ ch = "slash" /\ next = "star"
    BY <1>2, <2>1, <2>2 DEF SplitScan, SqliteScan, Text!Scan, Text!Sees, Text!At, Text!Close
  <2>3. CASE ~(Text!Sees(sqlite.scan) /\ ch = "slash" /\ next = "star")
    <3>1. SplitScan(next) = SqliteScan(next)
      BY <1>1, <1>2, <2>1, <2>3 DEF SplitScan, SqliteScan, Text!Scan, Text!Sees, Text!Close
    <3>2. SqliteScan(next) # Text!At("block", TRUE)
      BY <1>1, <1>4, <2>3 DEF SqliteScan, Text!Scan, Text!Sees, Text!At, Text!Top, Text!Close
    <3> QED BY <3>1, <3>2
  <2> QED BY <2>2, <2>3
<1> QED BY <1>3, <1>4

\* What is known of the statement.
LEMMA StatementThen ==
    ASSUME Joint, NEW next, Fits(next)
    PROVE  LET s == Text!SplitStep(next)
               t == Text!SqliteStep(next)
           IN  /\ s.sql <=> t.part # "nothing"
               /\ s.trigger <=> t.part \in {"head", "body", "done"}
               /\ s.depth = IF t.part = "body" THEN 1 ELSE 0
               /\ t.cases > 0 => t.part \in {"other", "head"}
<1>1. /\ split.trigger \in BOOLEAN /\ split.sql \in BOOLEAN /\ split.depth \in {0, 1}
      /\ sqlite.part \in {"nothing", "head", "body", "done", "other"}
      /\ sqlite.cases \in Nat
  BY DEF Joint, TextTypes, Splits, Statements
<1>2. CASE Text!SqliteEnds BY <1>2, CutTogether, SplitFields, SqliteFields DEF Joint
<1>3. CASE ~Text!SqliteEnds /\ ~Adds(next)
  <2>1. ch # "trigger" /\ Text!Depth = split.depth
    BY <1>1, <1>3, CutTogether
    DEF Joint, Admissible, Adds, Text!Depth, Text!Executable
  <2>2. ~(Text!Sees(split.scan) /\ Text!Executable(next)) BY <1>3, CutTogether DEF Adds
  <2> QED
    BY <1>1, <1>3, <2>1, <2>2, CutTogether, SplitFields, SqliteFields DEF Joint, SameStatement
<1>4. CASE ~Text!SqliteEnds /\ Adds(next)
  <2>1. Text!SplitStep(next) =
           [scan |-> SplitScan(next), trigger |-> split.trigger \/ ch = "trigger",
            depth |-> Text!Depth,
            sql |-> split.sql \/ (Text!Sees(split.scan) /\ Text!Executable(next))]
    BY <1>4, CutTogether, SplitFields
  <2>2. /\ Text!SplitStep(next).sql
              = (split.sql \/ (Text!Sees(split.scan) /\ Text!Executable(next)))
        /\ Text!SplitStep(next).trigger = (split.trigger \/ ch = "trigger")
        /\ Text!SplitStep(next).depth = Text!Depth
    <3>1. \A scan, trigger, depth, sql :
             LET s == [scan |-> scan, trigger |-> trigger, depth |-> depth, sql |-> sql]
             IN  s.sql = sql /\ s.trigger = trigger /\ s.depth = depth
      OBVIOUS
    <3> QED BY <2>1, <3>1
  <2>3. Text!Sees(split.scan) /\ Text!Executable(next) BY <1>4, CutTogether DEF Adds
  <2>4. Text!SqliteStep(next).part = Text!Part /\ Text!SqliteStep(next).cases = Text!Cases
    BY <1>4, SqliteFields DEF Joint
  <2>5. Text!Part # "nothing" BY <1>1 DEF Text!Part
  <2>6. (split.trigger \/ ch = "trigger") <=> Text!Part \in {"head", "body", "done"}
    BY <1>1, <1>4, Words DEF Joint, SameStatement, Adds, Text!Part
  <2>7. Text!Depth = IF Text!Part = "body" THEN 1 ELSE 0
    BY <1>1, <1>4, Words, CutTogether
    DEF Joint, SameStatement, Adds, Text!Part, Text!Depth, Text!IsTriggerBody
  <2>8. Text!Cases > 0 => Text!Part \in {"other", "head"}
    BY <1>1, <1>4, Words DEF Joint, SameStatement, Adds, Text!Part, Text!Cases
  <2> QED BY <2>2, <2>3, <2>4, <2>5, <2>6, <2>7, <2>8
<1> QED BY <1>2, <1>3, <1>4

\* What a statement has that is read otherwise is remembered until it ends.
LEMMA UnlikeGrows ==
    ASSUME Joint, NEW next, ~Text!SqliteEnds
    PROVE  /\ sqlite.unlike \subseteq Text!SqliteStep(next).unlike
           /\ Text!Sees(sqlite.scan) => Misleads \subseteq Text!SqliteStep(next).unlike
<1>1. CASE ~Adds(next)
  <2>1. Text!Sees(sqlite.scan) => Misleads = {}
    BY <1>1 DEF Adds, Text!Executable, Text!Unlike, Misleads
  <2> QED BY <1>1, <2>1, SqliteFields DEF Joint
<1>2. CASE Adds(next)
  <2>1. Text!SqliteStep(next).unlike = sqlite.unlike \cup Misleads
    BY <1>2, SqliteFields DEF Joint
  <2> QED BY <2>1
<1> QED BY <1>1, <1>2

\* The scans for parameters.
LEMMA LiteralsThen ==
    ASSUME Joint, NEW next
    PROVE  LET t == Text!SqliteStep(next)
           IN  /\ t.scan.in = "backtick" => "position" \in t.unlike
               /\ t.scan.in \in {"bracket", "backtick"} => "name" \in t.unlike
               /\ "position" \notin t.unlike => Text!CountStep(next) = t.scan
               /\ "name" \notin t.unlike => Text!StripStep(next) = t.scan
<1>1. sqlite.scan.in \in {"top", "line", "block"} \cup DOMAIN Text!Close
      /\ sqlite.scan.skip \in BOOLEAN
  BY DEF Joint, TextTypes, Statements, Scans
<1>2. Text!SqliteStep(next).scan = SqliteScan(next) BY SqliteFields DEF Joint
<1>3. CASE Text!SqliteEnds
  <2>1. SqliteScan(next) = sqlite.scan /\ sqlite.scan.in = "top"
    BY <1>3 DEF SqliteScan, Text!SqliteEnds, Text!Scan, Text!Sees, Text!Close
  <2>2. sqlite.scan = Text!Top
    BY <1>1, <1>3
    DEF Joint, TextTypes, Statements, Scans, Text!SqliteEnds, Text!Sees, Text!Top, Text!At
  <2>3. Text!CountStep(next) = Text!Top /\ Text!StripStep(next) = Text!Top
    BY <1>3, CutTogether DEF Text!CountStep, Text!StripStep
  <2> QED BY <1>2, <2>1, <2>2, <2>3
<1>4. CASE ~Text!SqliteEnds
  <2>1. /\ sqlite.unlike \subseteq Text!SqliteStep(next).unlike
        /\ Text!Sees(sqlite.scan) /\ ch = "backtick"
              => "position" \in Text!SqliteStep(next).unlike
        /\ Text!Sees(sqlite.scan) /\ ch \in {"bracket", "backtick"}
              => "name" \in Text!SqliteStep(next).unlike
    BY <1>4, UnlikeGrows DEF Text!Unlike, Misleads
  <2>2. /\ Text!CountStep(next) = Text!Scan(count, next, Text!CountQuotes, FALSE)
        /\ Text!StripStep(next) = Text!Scan(strip, next, Text!StripQuotes, FALSE)
    BY <1>4, CutTogether DEF Text!CountStep, Text!StripStep
  <2>3. SqliteScan(next).in \in {"bracket", "backtick"}
           => \/ SqliteScan(next).in = sqlite.scan.in
              \/ SqliteScan(next).in = ch /\ Text!Sees(sqlite.scan)
    BY <1>1 DEF SqliteScan, Text!Scan, Text!Sees, Text!At, Text!Top, Text!Close
  <2>4. ASSUME "position" \notin Text!SqliteStep(next).unlike
        PROVE  Text!CountStep(next) = SqliteScan(next)
    <3>1. count = sqlite.scan /\ sqlite.scan.in # "backtick"
          /\ (Text!Sees(sqlite.scan) => ch # "backtick")
      BY <2>1, <2>4 DEF Joint, SameLiterals
    <3> QED
      BY <1>1, <2>2, <3>1
      DEF SqliteScan, Text!Scan, Text!Sees, Text!CountQuotes, Text!Close
  <2>5. ASSUME "name" \notin Text!SqliteStep(next).unlike
        PROVE  Text!StripStep(next) = SqliteScan(next)
    <3>1. strip = sqlite.scan /\ sqlite.scan.in \notin {"bracket", "backtick"}
          /\ (Text!Sees(sqlite.scan) => ch \notin {"bracket", "backtick"})
      BY <1>1, <2>1, <2>5 DEF Joint, SameLiterals
    <3> QED
      BY <1>1, <2>2, <3>1
      DEF SqliteScan, Text!Scan, Text!Sees, Text!StripQuotes, Text!Close
  <2> QED BY <1>2, <2>1, <2>3, <2>4, <2>5 DEF Joint, SameLiterals
<1> QED BY <1>3, <1>4

\* What each made of the symbol.
LEMMA ReadAlike ==
    ASSUME Joint, NEW next
    PROVE  LET r == Text!Reading(next)
               unlike == Text!SqliteStep(next).unlike
           IN  /\ r.cut = r.ends
               /\ "position" \notin unlike => r.counted = r.bound
               /\ "name" \notin unlike => r.found = r.named
<1>1. Text!Reading(next).cut = Text!Reading(next).ends
  <2>1. split.sql <=> sqlite.part # "nothing" BY DEF Joint, SameStatement
  <2> QED BY <2>1, CutTogether DEF Text!Reading, Text!Ended
<1>2. CASE Text!SqliteEnds
  <2>1. ch = "semicolon" BY <1>2 DEF Text!SqliteEnds
  <2> QED BY <1>1, <2>1 DEF Text!Reading
<1>3. CASE ~Text!SqliteEnds
  <2> DEFINE unlike == Text!SqliteStep(next).unlike
  <2>1. /\ sqlite.unlike \subseteq unlike
        /\ Text!Sees(sqlite.scan) => Misleads \subseteq unlike
    BY <1>3, UnlikeGrows
  <2>2. /\ "position" \notin unlike => count = sqlite.scan
        /\ "name" \notin unlike => strip = sqlite.scan
    BY <2>1 DEF Joint, SameLiterals
  <2> HIDE DEF unlike
  <2>3. ASSUME "position" \notin unlike
        PROVE  Text!Reading(next).counted = Text!Reading(next).bound
    BY <2>1, <2>2, <2>3 DEF Text!Reading, Text!Unlike, Misleads
  <2>4. ASSUME "name" \notin unlike
        PROVE  Text!Reading(next).found = Text!Reading(next).named
    BY <2>1, <2>2, <2>4 DEF Text!Reading, Text!Unlike, Misleads
  <2> QED BY <1>1, <2>3, <2>4 DEF unlike
<1> QED BY <1>2, <1>3

\* As long as a text has none of the forms that are misread, the two agree on it.
Agreed == odd = {} => Joint

\* Then a symbol is read alike by all.
LEMMA ConsumeKeeps ==
    ASSUME Agreed, Text!Consume
    PROVE  Agreed' /\ CutWhereStatementsEnd' /\ ParametersAsBound'
<1>1. PICK next \in Text!Symbol \cup {Text!End} :
         /\ Text!MayFollow(Text!SqliteStep(next), next)
         /\ odd' = odd \cup Text!Misread(Text!SqliteStep(next), next)
         /\ ch' = next
         /\ split' = Text!SplitStep(next)
         /\ count' = Text!CountStep(next) /\ strip' = Text!StripStep(next)
         /\ sqlite' = Text!SqliteStep(next)
         /\ read' = Text!Reading(next)
  BY DEF Text!Consume
<1>2. read'.odd = odd BY <1>1 DEF Text!Reading
<1>3. CASE odd # {}
  BY <1>1, <1>2, <1>3
  DEF Agreed, CutWhereStatementsEnd, ParametersAsBound, Text!CutWhereStatementsEnd,
      Text!ParametersAsBound
<1>4. CASE odd = {}
  <2>1. Joint BY <1>4 DEF Agreed
  <2>2. CutWhereStatementsEnd' /\ ParametersAsBound'
    BY <1>1, <2>1, ReadAlike
    DEF CutWhereStatementsEnd, ParametersAsBound, Text!CutWhereStatementsEnd,
        Text!ParametersAsBound
  <2>3. ASSUME odd' = {} PROVE Joint'
    <3>1. Fits(next) BY <1>1, <2>3 DEF Fits
    <3>2. TextTypes'
      BY <1>1, <2>1, TypesThen, ScansTyped DEF Joint, TextTypes
    <3>3. Admissible'
      <4>1. /\ next = "trigger" => Text!Sees(sqlite'.scan)
            /\ Text!Sees(sqlite'.scan) => next # "spaced"
            /\ Text!Sees(sqlite'.scan) /\ sqlite'.part = "body" => next \notin {"CASE", "end"}
            /\ Text!Sees(sqlite'.scan) /\ sqlite'.part \in {"head", "body"} => next # "begin"
        BY <1>1, <3>1 DEF Fits, Text!Misread
      <4>2. Text!MayFollow(sqlite', ch') BY <1>1
      <4> QED BY <1>1, <4>1, <4>2 DEF Admissible, Text!MayFollow, Text!Sees
    <3>4. SameScan'
      <4>1. sqlite'.scan = SqliteScan(next) /\ split'.scan = SplitScan(next)
        BY <1>1, <2>1, SplitFields, SqliteFields DEF Joint
      <4> QED BY <1>1, <2>1, <3>1, <4>1, ScanThen DEF SameScan, Text!At
    <3>5. SameStatement'
      BY <1>1, <2>1, <3>1, StatementThen DEF SameStatement
    <3>6. SameLiterals'
      BY <1>1, <2>1, LiteralsThen DEF SameLiterals
    <3> QED BY <3>2, <3>3, <3>4, <3>5, <3>6 DEF Joint
  <2> QED BY <2>2, <2>3 DEF Agreed
<1> QED BY <1>3, <1>4

\* Before its first symbol nothing is known of a text.
AtStart ==
    /\ ch \in Text!Symbol /\ Text!MayFollow(Text!SqliteFrom(Text!Top), ch)
    /\ odd = {} => ch # "spaced"
    /\ split = Text!SplitFrom(Text!Top) /\ sqlite = Text!SqliteFrom(Text!Top)
    /\ count = Text!Top /\ strip = Text!Top

\* On that they agree.
LEMMA Fresh == AtStart => Agreed
<1> SUFFICES ASSUME AtStart, odd = {} PROVE Joint BY DEF Agreed
<1> USE DEF AtStart
<1>1. /\ sqlite.scan = Text!Top /\ split.scan = Text!Top /\ Text!Sees(Text!Top)
      /\ sqlite.part = "nothing" /\ sqlite.cases = 0 /\ sqlite.unlike = {}
      /\ ~split.trigger /\ ~split.sql /\ split.depth = 0
  BY DEF Text!SplitFrom, Text!SqliteFrom, Text!Sees, Text!Top, Text!At
<1>2. TextTypes
  <2>1. \A quotes : Text!Top \in Scans(quotes) BY Shapes DEF Text!Top
  <2>2. split \in Splits BY <2>1, Shapes DEF Text!SplitFrom
  <2>3. sqlite \in Statements BY <2>1, Shapes DEF Text!SqliteFrom
  <2> QED BY <2>1, <2>2, <2>3 DEF TextTypes
<1>3. Admissible BY <1>1 DEF Admissible
<1>4. SameScan BY <1>1 DEF SameScan, Text!Top, Text!At
<1>5. SameStatement BY <1>1 DEF SameStatement
<1>6. SameLiterals BY <1>1 DEF SameLiterals, Text!Top, Text!At
<1> QED BY <1>2, <1>3, <1>4, <1>5, <1>6 DEF Joint

\* The end of the text ends the statement for both.
LEMMA FinishKeeps ==
    ASSUME Agreed, Text!Finish
    PROVE  Agreed' /\ CutWhereStatementsEnd' /\ ParametersAsBound'
<1>1. Agreed'
  <2>1. ch' \in Text!Symbol /\ ch' # "spaced" BY DEF Text!Finish, Text!Symbol
  <2>2. Text!MayFollow(Text!SqliteFrom(Text!Top), "newline")
    BY DEF Text!MayFollow, Text!SqliteFrom, Text!End
  <2>3. AtStart'
    BY <2>1, <2>2
    DEF AtStart, Text!Finish, Text!MayFollow, Text!SplitFrom, Text!SqliteFrom, Text!Top, Text!At
  <2>4. (AtStart => Agreed)' BY Fresh, PTL
  <2> QED BY <2>3, <2>4
<1>2. odd = {} => (split.sql <=> sqlite.part # "nothing")
  BY DEF Agreed, Joint, SameStatement
<1>3. CutWhereStatementsEnd'
  BY <1>2 DEF Text!Finish, Text!Ended, Text!Nothing, CutWhereStatementsEnd,
              Text!CutWhereStatementsEnd
<1>4. ParametersAsBound'
  BY DEF Text!Finish, Text!Nothing, ParametersAsBound, Text!ParametersAsBound
<1> QED BY <1>1, <1>3, <1>4

\* What the two agree on, and so what they read.
LEMMA TextInvariance ==
    Text!Spec => [](Agreed /\ CutWhereStatementsEnd /\ ParametersAsBound)
<1> DEFINE Inv == Agreed /\ CutWhereStatementsEnd /\ ParametersAsBound
<1>1. Text!Init => Inv
  <2> SUFFICES ASSUME Text!Init PROVE Inv OBVIOUS
  <2>1. odd = {} => ch # "spaced"
    BY DEF Text!Init, Text!Misread, Text!SqliteFrom, Text!Sees, Text!Top, Text!At
  <2>2. Agreed BY <2>1, Fresh DEF Text!Init, AtStart
  <2> QED
    BY <2>2 DEF Text!Init, Text!Nothing, CutWhereStatementsEnd, ParametersAsBound,
                Text!CutWhereStatementsEnd, Text!ParametersAsBound
<1>2. Inv /\ [Text!Next]_Text!vars => Inv'
  <2> SUFFICES ASSUME Inv, [Text!Next]_Text!vars PROVE Inv' OBVIOUS
  <2>1. CASE Text!Consume BY <2>1, ConsumeKeeps
  <2>2. CASE Text!Finish BY <2>2, FinishKeeps
  <2>3. CASE UNCHANGED Text!vars
    BY <2>3
    DEF Text!vars, Agreed, Joint, TextTypes, Admissible, SameScan, SameStatement,
        SameLiterals, Text!MayFollow, Text!Sees, Text!At, CutWhereStatementsEnd,
        ParametersAsBound, Text!CutWhereStatementsEnd, Text!ParametersAsBound
  <2> QED BY <2>1, <2>2, <2>3 DEF Text!Next
<1> QED BY <1>1, <1>2, PTL DEF Text!Spec

(***************************************************************************)
(* The three checks side by side.                                          *)
(***************************************************************************)

\* Whatever the other two do, each check behaves as its module says, so that what
\* is proved of the modules holds of the three side by side.
LEMMA Composition == ApiSpec => Spec /\ Keys!Spec /\ Text!Spec
<1> DEFINE all == <<part, vars, keyVars, textVars>>
<1>1. ApiInit => Init /\ Keys!Init /\ Text!Init BY DEF ApiInit
<1>2. [ApiNext]_all => [Next]_vars BY DEF ApiNext
<1>3. [ApiNext]_all => [Keys!Next]_Keys!vars BY DEF ApiNext, keyVars, Keys!vars
<1>4. [ApiNext]_all => [Text!Next]_Text!vars BY DEF ApiNext, textVars, Text!vars
<1> QED BY <1>1, <1>2, <1>3, <1>4, PTL DEF ApiSpec, Spec, Keys!Spec, Text!Spec

\* In texts of any length, whatever odd forms they hold further on and however deep
\* their CASE expressions nest, statements are cut where SQLite ends them up to the
\* first form that the scanner is known to misread (SplitStatements).
THEOREM ScriptsCut == ApiSpec => []CutWhereStatementsEnd
BY Composition, TextInvariance, PTL

\* In such texts, the placeholders and the named parameters are found that SQLite
\* binds: in statements of any length without the names and the kinds of parameters
\* that validate.go does not know (CountPlaceholders, hasNamedParameters).
THEOREM ParametersFound == ApiSpec => []ParametersAsBound
BY Composition, TextInvariance, PTL

KeysProofs == INSTANCE ApiKeysProofs

\* ApiKeysProofs is about the same specification.
LEMMA SameKeys == Keys!Spec => KeysProofs!Spec
<1>1. Keys!Init => KeysProofs!Init
  BY DEF Keys!Init, KeysProofs!Init, Keys!Idle, KeysProofs!Idle
<1>2. Keys!Next => KeysProofs!Next
  BY Zenon
  DEF Keys!Next, KeysProofs!Next,
         Keys!Issued, KeysProofs!Issued, Keys!Idle, KeysProofs!Idle, Keys!Usable,
         KeysProofs!Usable, Keys!Granted, KeysProofs!Granted, Keys!Facts,
         KeysProofs!Facts, Keys!Observe, KeysProofs!Observe, Keys!Valid,
         KeysProofs!Valid, Keys!ReplaceKeyEndpoints, KeysProofs!ReplaceKeyEndpoints,
         Keys!Save, KeysProofs!Save, Keys!CreateAPIKey, KeysProofs!CreateAPIKey,
         Keys!UpdateAPIKey, KeysProofs!UpdateAPIKey, Keys!DeleteAPIKey,
         KeysProofs!DeleteAPIKey, Keys!Expire, KeysProofs!Expire,
         Keys!DeleteEndpoint, KeysProofs!DeleteEndpoint, Keys!Go, KeysProofs!Go,
         Keys!Refuse, KeysProofs!Refuse, Keys!Arrive, KeysProofs!Arrive,
         Keys!Anonymous, KeysProofs!Anonymous, Keys!RowUsable, KeysProofs!RowUsable,
         Keys!Decide, KeysProofs!Decide, Keys!ReadRow, KeysProofs!ReadRow,
         Keys!ReadGrants, KeysProofs!ReadGrants, Keys!Finish, KeysProofs!Finish,
         Keys!Scope, KeysProofs!Scope
<1>3. UNCHANGED Keys!vars => UNCHANGED KeysProofs!vars BY DEF Keys!vars, KeysProofs!vars
<1> QED BY <1>1, <1>2, <1>3, PTL DEF Keys!Spec, KeysProofs!Spec

\* A key is granted the endpoints of its last save that still exist, whatever else
\* calls do (UpdateAPIKey, replaceKeyEndpoints).
THEOREM KeysGranted == ApiSpec => []GrantsAsSaved
<1>1. KeysProofs!GrantsAsSaved => GrantsAsSaved
  BY DEF KeysProofs!GrantsAsSaved, GrantsAsSaved, Keys!GrantsAsSaved
<1> QED BY <1>1, Composition, SameKeys, KeysProofs!GrantsOfTheLastSave, PTL

\* No call is served whose key was not usable and granted the endpoint while it was
\* checked (VerifyAPIKey, keyEndpointIDs).
THEOREM OnlyAdmitted == ApiSpec => []AdmittedAsGranted
<1>1. KeysProofs!AdmittedAsGranted => AdmittedAsGranted
  BY DEF KeysProofs!AdmittedAsGranted, AdmittedAsGranted, Keys!AdmittedAsGranted
<1> QED BY <1>1, Composition, SameKeys, KeysProofs!NoneServedUnpermitted, PTL
=============================================================================
