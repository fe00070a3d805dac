------------------------- MODULE HandlePoolProofs -------------------------
(***************************************************************************)
(* Machine-checked proofs about HandlePool, for any finite sets of names   *)
(* and goroutines, any set of handles and any limit: the five invariants   *)
(* of the safety run hold in every reachable state.                        *)
(***************************************************************************)
EXTENDS HandlePool, FiniteSetTheorems, TLAPS

(***************************************************************************)
(* The inductive invariant holds at first: nothing is open and every       *)
(* goroutine is idle.                                                      *)
(***************************************************************************)
LEMMA IInvInit == Init => IInv
<1>. SUFFICES ASSUME Init PROVE IInv
  OBVIOUS
<1>. USE PoolAssumption DEF Init, Proc
<1>1. TypeOK
  BY DEF TypeOK, ClientPC, MaintainerPC
<1>2. Locals
  BY DEF Locals, ClientPC, MaintainerPC, ClosingPC
<1>3. OwnedStatus
  BY DEF OwnedStatus, CachedHandleUsable, Cached
<1>4. Disjoint
  BY SMTT(30) DEF Disjoint, ClosingPC
<1>. QED
  BY <1>1, <1>2, <1>3, <1>4 DEF IInv

(***************************************************************************)
(* Every step of every goroutine preserves it.                             *)
(***************************************************************************)
LEMMA IInvStep == IInv /\ [Next]_vars => IInv'
<1>. SUFFICES ASSUME IInv, [Next]_vars PROVE IInv'
  OBVIOUS
<1>. USE PoolAssumption DEF Proc, poolVars, procVars, closeVars, IInv, TypeOK,
       Locals, OwnedStatus, CachedHandleUsable, Cached, Disjoint,
       ClientPC, MaintainerPC, ClosingPC
<1>1. ASSUME NEW p \in Client, NEW n \in Name, GetLookup(p, n) PROVE IInv'
  BY <1>1 DEF GetLookup, Goto
<1>2. ASSUME NEW p \in Client, GetAcquire(p) PROVE IInv'
  BY <1>2 DEF GetAcquire, Goto
<1>3. ASSUME NEW p \in Client, GetStat(p) PROVE IInv'
  BY <1>3 DEF GetStat, Goto, Return
<1>4. ASSUME NEW p \in Client, OpenHandle(p) PROVE IInv'
  <2>1. TypeOK'
    BY <1>4 DEF OpenHandle, Fresh, Goto, Return
  <2>2. Locals'
    BY <1>4 DEF OpenHandle, Fresh, Goto, Return
  <2>3. OwnedStatus'
    BY <1>4 DEF OpenHandle, Fresh, Goto, Return
  <2>4. Disjoint'
    BY <1>4 DEF OpenHandle, Fresh, Goto, Return
  <2>. QED
    BY <2>1, <2>2, <2>3, <2>4
<1>5. ASSUME NEW p \in Client, PublishLost(p) PROVE IInv'
  BY <1>5 DEF PublishLost, Goto
<1>6. ASSUME NEW p \in Client, Publish(p) PROVE IInv'
  <2>1. TypeOK'
    <3>1. open' \in [Name -> Handle \cup {NoHandle}]
      <4>1. mine[p] \in Handle \cup {NoHandle}
        OBVIOUS
      <4>. DEFINE out  == IF Cardinality(Cached) >= MaxOpen THEN Idle ELSE {}
                  kept == [n \in Name |-> IF n \in out THEN NoHandle ELSE open[n]]
      <4>2. open' = [kept EXCEPT ![db[p]] = mine[p]]
        BY <1>6 DEF Publish
      <4>3. open \in [Name -> Handle \cup {NoHandle}]
        OBVIOUS
      <4>. HIDE DEF IInv, TypeOK, Locals, OwnedStatus, CachedHandleUsable, Disjoint, out
      <4>4. kept \in [Name -> Handle \cup {NoHandle}]
        BY <4>3
      <4>. HIDE DEF kept
      <4>. QED
        BY <4>1, <4>2, <4>4
    <3>2. evicted' \in SUBSET Handle
      BY <1>6 DEF Publish, Idle
    <3>3. refs' \in [Handle -> Nat]
      BY <1>6 DEF Publish
    <3>4. /\ pc' \in [Proc -> ClientPC \cup MaintainerPC]
          /\ mine' \in [Proc -> Handle \cup {NoHandle}]
          /\ got' \in [Proc -> Handle \cup {NoHandle}]
      BY <1>6 DEF Publish, Goto
    <3>5. UNCHANGED <<status, dbOf, server, sweep, job, db>>
      BY <1>6 DEF Publish
    <3>. QED
      BY <3>1, <3>2, <3>3, <3>4, <3>5
  <2>2. Locals'
    BY <1>6 DEF Publish, Idle, Goto
  <2>3. OwnedStatus'
    <3>1. mine[p] \in Handle /\ db[p] \in Name
      BY <1>6 DEF Publish
    <3>2. open'[db[p]] = mine[p]
      BY <1>6, <3>1 DEF Publish
    <3>3. \A n \in Name \ {db[p]} : open'[n] \in {open[n], NoHandle}
      BY <1>6 DEF Publish
    <3>4. CachedHandleUsable'
      BY <1>6, <3>1, <3>2, <3>3 DEF Publish
    <3>5. evicted' \subseteq evicted \cup {open[n] : n \in Cached}
      BY <1>6 DEF Publish, Idle
    <3>6. \A h \in (evicted \cup sweep)' : status'[h] # "closed"
      <4>1. status' = status /\ sweep' = sweep
        BY <1>6 DEF Publish
      <4>2. \A n \in Cached : status[open[n]] = "open"
        OBVIOUS
      <4>3. \A h \in evicted \cup sweep : status[h] # "closed"
        OBVIOUS
      <4>. HIDE DEF IInv, TypeOK, Locals, OwnedStatus, CachedHandleUsable, Cached, Disjoint
      <4>. QED
        BY <3>5, <4>1, <4>2, <4>3
    <3>7. \A q \in Client : mine'[q] # NoHandle =>
             status'[mine'[q]] = "open" /\ dbOf'[mine'[q]] = db'[q]
      BY <1>6 DEF Publish
    <3>8. \A q \in Maintainer :
             /\ pc'[q] \in {"drain", "wait", "mark"} => status'[got'[q]] = "open"
             /\ pc'[q] = "shut" => status'[got'[q]] = "closing"
      BY <1>6 DEF Publish, Goto
    <3>. QED
      BY <3>4, <3>6, <3>7, <3>8
  <2>4. Disjoint'
    <3>1. /\ mine[p] \in Handle /\ db[p] \in Name
          /\ mine' = [mine EXCEPT ![p] = NoHandle] /\ sweep' = sweep
          /\ \A q \in Maintainer : pc'[q] = pc[q] /\ got'[q] = got[q]
      BY <1>6 DEF Publish, Goto
    <3>2. /\ open'[db[p]] = mine[p]
          /\ \A n \in Name \ {db[p]} : open'[n] \in {open[n], NoHandle}
      BY <1>6 DEF Publish
    <3>. DEFINE out == IF Cardinality(Cached) >= MaxOpen THEN Idle ELSE {}
    <3>3. /\ out \subseteq Cached
          /\ evicted' = evicted \cup {open[n] : n \in out}
          /\ \A n \in out : open'[n] = (IF n = db[p] THEN mine[p] ELSE NoHandle)
      BY <1>6 DEF Publish, Idle
    <3>. HIDE DEF out
    <3>4. \A n, k \in Cached : open[n] = open[k] => n = k
      <4>1. \A n \in Cached : dbOf[open[n]] = n
        OBVIOUS
      <4>. HIDE DEF IInv, TypeOK, Locals, OwnedStatus, CachedHandleUsable, Cached, Disjoint
      <4>. QED
        BY <4>1
    <3>5. \A q, r \in Client : mine'[q] # NoHandle /\ mine'[q] = mine'[r] => q = r
      BY <3>1
    <3>6. \A q \in Client, n \in Name : mine'[q] # NoHandle => open'[n] # mine'[q]
      BY <3>1, <3>2
    <3>7. \A q, r \in Maintainer :
             pc'[q] \in ClosingPC /\ pc'[r] \in ClosingPC /\ got'[q] = got'[r] => q = r
      BY <3>1
    <3>8. \A q \in Maintainer : pc'[q] \in ClosingPC =>
             /\ \A n \in Name : open'[n] # got'[q]
             /\ \A r \in Client : mine'[r] # got'[q]
             /\ got'[q] \notin evicted' \cup sweep'
      BY <3>1, <3>2, <3>3
    <3>9. \A h \in evicted' \cup sweep' :
             /\ \A n \in Name : open'[n] # h
             /\ \A r \in Client : mine'[r] # h
      <4>. SUFFICES ASSUME NEW h \in evicted' \cup sweep'
                    PROVE  /\ \A n \in Name : open'[n] # h
                           /\ \A r \in Client : mine'[r] # h
        OBVIOUS
      <4>1. CASE h \in evicted \cup sweep
        BY <3>1, <3>2, <4>1
      <4>2. CASE \E n \in out : h = open[n]
        BY <3>1, <3>2, <3>3, <3>4, <4>2
      <4>. QED
        BY <3>1, <3>3, <4>1, <4>2
    <3>10. evicted' \cap sweep' = {}
      BY <3>1, <3>3
    <3>. QED
      BY <3>5, <3>6, <3>7, <3>8, <3>9, <3>10
  <2>. QED  BY <2>1, <2>2, <2>3, <2>4
<1>7. ASSUME NEW p \in Client, PublishFull(p) PROVE IInv'
  BY <1>7 DEF PublishFull, Idle, Goto
<1>8. ASSUME NEW p \in Client, Discard(p) PROVE IInv'
  BY <1>8 DEF Discard, Goto
<1>9. ASSUME NEW p \in Client, Overflow(p) PROVE IInv'
  BY <1>9 DEF Overflow, Return
<1>10. ASSUME NEW p \in Client, Adopt(p) PROVE IInv'
  BY <1>10 DEF Adopt, Goto, Return
<1>11. ASSUME NEW p \in Client, Release(p) PROVE IInv'
  BY <1>11 DEF Release, DropRef, Return
<1>12. ASSUME NEW p \in Client, ReadOnlyRelease(p) PROVE IInv'
  BY <1>12 DEF ReadOnlyRelease, DropRef, Goto
<1>14. ASSUME NEW p \in Client, ReadOnlyClose(p) PROVE IInv'
  BY <1>14 DEF ReadOnlyClose, Return
<1>15. ASSUME NEW m \in Maintainer, NEW n \in Name, Detach(m, n) PROVE IInv'
  BY <1>15 DEF Detach, Goto
<1>16. ASSUME NEW m \in Maintainer, DrainIdle(m) PROVE IInv'
  BY <1>16 DEF DrainIdle, Goto
<1>17. ASSUME NEW m \in Maintainer, DrainBusy(m) PROVE IInv'
  BY <1>17 DEF DrainBusy, Goto
<1>18. ASSUME NEW m \in Maintainer, WaitOver(m) PROVE IInv'
  BY <1>18 DEF WaitOver, Goto
<1>19. ASSUME NEW m \in Maintainer, WaitCancelled(m) PROVE IInv'
  BY <1>19 DEF WaitCancelled, Return
<1>20. ASSUME NEW m \in Maintainer, CloseMark(m) PROVE IInv'
  BY <1>20 DEF CloseMark, Goto
<1>21. ASSUME NEW m \in Maintainer, CloseShut(m) PROVE IInv'
  BY <1>21 DEF CloseShut, Goto
<1>22. ASSUME NEW m \in Maintainer, Maintain(m) PROVE IInv'
  BY <1>22 DEF Maintain, Return
<1>23. ASSUME NEW h \in Handle, EvictMark(h) PROVE IInv'
  BY <1>23 DEF EvictMark
<1>24. ASSUME NEW h \in Handle, EvictShut(h) PROVE IInv'
  BY <1>24 DEF EvictShut
<1>25. ASSUME ShutdownBegin PROVE IInv'
  BY <1>25 DEF ShutdownBegin
<1>13. ASSUME Stopped PROVE IInv'
  BY <1>13 DEF Stopped
<1>31. ASSUME NEW j \in Job, JobTick(j) \/ JobReturn(j) \/ JobGone(j) PROVE IInv'
  BY <1>31 DEF JobTick, JobReturn, JobGone
<1>26. ASSUME CloseBegin PROVE IInv'
  BY <1>26 DEF CloseBegin
<1>27. ASSUME NEW h \in Handle, SweepMark(h) PROVE IInv'
  BY <1>27 DEF SweepMark
<1>28. ASSUME NEW h \in Handle, SweepShut(h) PROVE IInv'
  BY <1>28 DEF SweepShut
<1>29. ASSUME CloseDone PROVE IInv'
  BY <1>29 DEF CloseDone
<1>30. CASE UNCHANGED vars
  BY <1>30 DEF vars
<1>. QED
  BY <1>1, <1>2, <1>3, <1>4, <1>5, <1>6, <1>7, <1>8, <1>9, <1>10, <1>11,
     <1>12, <1>13, <1>14, <1>15, <1>16, <1>17, <1>18, <1>19, <1>20, <1>21,
     <1>22, <1>23, <1>24, <1>25, <1>26, <1>27, <1>28, <1>29, <1>30, <1>31
  DEF Next, ClientStep, GetStep, MaintainerStep, CloseHandleStep, CloserStep

(***************************************************************************)
(* In every reachable state the pool is well typed, a handle has the       *)
(* status its owner expects, and it has one owner.                         *)
(***************************************************************************)
THEOREM Invariance == Spec => []IInv
<1>1. IInv /\ [Next]_vars => IInv'
  BY IInvStep
<1>. QED
  BY <1>1, IInvInit, PTL DEF Spec

(***************************************************************************)
(* Type correctness of the pool (Manager, Handle and goroutine locals).    *)
(***************************************************************************)
THEOREM TypeCorrect == Spec => []TypeOK
<1>1. IInv => TypeOK
  BY DEF IInv
<1>. QED
  BY <1>1, Invariance, PTL

(***************************************************************************)
(* Whatever is in m.open is open and filed under its own name.             *)
(***************************************************************************)
THEOREM CachedUsable == Spec => []CachedHandleUsable
<1>1. IInv => CachedHandleUsable
  BY DEF IInv, OwnedStatus
<1>. QED
  BY <1>1, Invariance, PTL

(***************************************************************************)
(* A handle is never owned twice, so it is closed at most once and only by *)
(* the goroutine that took it out of the map.                              *)
(***************************************************************************)
THEOREM OneOwner == Spec => []SingleOwner
<1>1. ASSUME IInv PROVE SingleOwner
  <2>. SUFFICES ASSUME NEW h \in Handle, NEW a \in Owners(h), NEW b \in Owners(h)
                PROVE  a = b
    BY DEF SingleOwner
  <2>. USE <1>1, PoolAssumption
       DEF IInv, TypeOK, Locals, OwnedStatus, CachedHandleUsable, Cached,
           Disjoint, Owners, Proc
  <2>1. CASE \E n \in Name : a = <<"map", n>> /\ open[n] = h
    BY <2>1
  <2>2. CASE \E p \in Client : a = <<"opener", p>> /\ mine[p] = h
    BY <2>2
  <2>3. CASE \E p \in Maintainer :
               a = <<"closer", p>> /\ pc[p] \in ClosingPC /\ got[p] = h
    BY <2>3
  <2>4. CASE a = <<"evictor", h>> /\ h \in evicted
    BY <2>4
  <2>5. CASE a = <<"shutdown", h>> /\ h \in sweep
    BY <2>5
  <2>. QED
    BY <2>1, <2>2, <2>3, <2>4, <2>5
<1>. QED
  BY <1>1, Invariance, PTL

-----------------------------------------------------------------------------
(* Reference counts.                                                       *)

\* A handle has finitely many holders.
LEMMA HoldersFinite == \A h \in Handle : IsFiniteSet(Holders(h))
<1>. TAKE h \in Handle
<1>1. Holders(h) \in SUBSET Proc
  BY DEF Holders, Proc
<1>. QED
  BY <1>1, PoolAssumption, FS_Subset

\* A request that acquires a handle becomes its holder.
LEMMA GainHolder ==
  ASSUME IInv, RefsMatchHolders, NEW p \in Client, NEW h \in Handle,
         pc[p] # "using", pc' = [pc EXCEPT ![p] = "using"],
         got'[p] = h, \A q \in Client \ {p} : got'[q] = got[q],
         refs' = [refs EXCEPT ![h] = @ + 1]
  PROVE  RefsMatchHolders'
<1>. USE DEF IInv, TypeOK, Proc
<1>1. Holders(h)' = Holders(h) \cup {p} /\ p \notin Holders(h)
  BY DEF Holders
<1>2. \A g \in Handle \ {h} : Holders(g)' = Holders(g)
  BY ZenonT(40) DEF Holders
<1>3. Cardinality(Holders(h)') = Cardinality(Holders(h)) + 1
  BY <1>1, HoldersFinite, FS_AddElement
<1>. QED
  BY <1>2, <1>3 DEF RefsMatchHolders

\* A request that releases its handle stops being a holder.
LEMMA LoseHolder ==
  ASSUME IInv, RefsMatchHolders, NEW p \in Client, NEW h \in Handle,
         pc[p] = "using", got[p] = h, pc'[p] # "using", DropRef(h),
         \A q \in Client \ {p} : pc'[q] = pc[q] /\ got'[q] = got[q]
  PROVE  RefsMatchHolders'
<1>. USE DEF IInv, TypeOK, Proc
<1>1. Holders(h)' = Holders(h) \ {p} /\ p \in Holders(h)
  BY DEF Holders
<1>2. \A g \in Handle \ {h} : Holders(g)' = Holders(g)
  BY DEF Holders
<1>3. Cardinality(Holders(h)') = Cardinality(Holders(h)) - 1
  <2>1. IsFiniteSet(Holders(h))
    BY HoldersFinite
  <2>2. Cardinality(Holders(h) \ {p}) = Cardinality(Holders(h)) - 1
    BY <1>1, <2>1, FS_RemoveElement
  <2>. QED
    BY <1>1, <2>2
<1>4. Cardinality(Holders(h)) > 0
  BY <1>1, HoldersFinite, FS_EmptySet, FS_CardinalityType
<1>. QED
  BY <1>2, <1>3, <1>4 DEF RefsMatchHolders, DropRef

\* A step that makes nobody a holder and nobody stop being one.
LEMMA KeepHolders ==
  ASSUME RefsMatchHolders, refs' = refs,
         \A q \in Client : (pc[q] = "using" \/ pc'[q] = "using") =>
                              pc'[q] = pc[q] /\ got'[q] = got[q]
  PROVE  RefsMatchHolders'
<1>1. \A h \in Handle : Holders(h)' = Holders(h)
  BY DEF Holders
<1>. QED
  BY <1>1 DEF RefsMatchHolders

\* No handle is held at first.
LEMMA RefsInit == Init => RefsMatchHolders
<1>. SUFFICES ASSUME Init, NEW h \in Handle PROVE refs[h] = Cardinality(Holders(h))
  BY DEF RefsMatchHolders
<1>1. Holders(h) = {}
  BY DEF Init, Holders, Proc
<1>. QED
  BY <1>1, FS_EmptySet DEF Init

\* Every step counts the holders that come and go.
LEMMA RefsStep == IInv /\ RefsMatchHolders /\ [Next]_vars => RefsMatchHolders'
<1>. SUFFICES ASSUME IInv, RefsMatchHolders, [Next]_vars PROVE RefsMatchHolders'
  OBVIOUS
<1>. USE PoolAssumption
     DEF IInv, TypeOK, Locals, Proc, poolVars, procVars, closeVars
<1>1. ASSUME NEW p \in Client, GetAcquire(p) PROVE RefsMatchHolders'
  <2>1. CASE status[got[p]] = "open"
    BY <1>1, <2>1, GainHolder DEF GetAcquire, Goto
  <2>2. CASE status[got[p]] # "open"
    BY <1>1, <2>2, KeepHolders DEF GetAcquire, Goto
  <2>. QED
    BY <2>1, <2>2
<1>2. ASSUME NEW p \in Client, Publish(p) PROVE RefsMatchHolders'
  BY <1>2, GainHolder DEF Publish, Goto
<1>3. ASSUME NEW p \in Client, Adopt(p) PROVE RefsMatchHolders'
  <2>1. CASE status[got[p]] = "open"
    BY <1>3, <2>1, GainHolder DEF Adopt, Goto
  <2>2. CASE status[got[p]] # "open"
    BY <1>3, <2>2, KeepHolders DEF Adopt, Return
  <2>. QED
    BY <2>1, <2>2
<1>4. ASSUME NEW p \in Client, Release(p) \/ ReadOnlyRelease(p)
      PROVE  RefsMatchHolders'
  BY <1>4, LoseHolder DEF Release, ReadOnlyRelease, Return, Goto
<1>5. ASSUME NEW p \in Client, OpenHandle(p) PROVE RefsMatchHolders'
  <2>1. CASE pc'[p] = "idle"
    BY <1>5, <2>1, KeepHolders DEF OpenHandle, Return, Goto
  <2>2. CASE pc'[p] # "idle"
    <3>1. PICK h \in Handle : Fresh(h) /\ refs' = [refs EXCEPT ![h] = 0]
      BY <1>5, <2>2 DEF OpenHandle, Return
    <3>2. \A g \in Handle : Holders(g)' = Holders(g)
      BY <1>5, <2>2 DEF OpenHandle, Return, Goto, Holders
    <3>3. Holders(h) = {}
      BY <3>1 DEF Fresh, Holders
    <3>. QED
      BY <3>1, <3>2, <3>3, FS_EmptySet DEF RefsMatchHolders
  <2>. QED
    BY <2>1, <2>2
<1>6. ASSUME NEW p \in Client, NEW n \in Name, GetLookup(p, n)
      PROVE  RefsMatchHolders'
  BY <1>6, KeepHolders DEF GetLookup, Goto
<1>7. ASSUME NEW p \in Client,
             \/ GetStat(p) \/ PublishLost(p) \/ PublishFull(p) \/ Discard(p)
             \/ Overflow(p) \/ ReadOnlyClose(p)
      PROVE  RefsMatchHolders'
  BY <1>7, KeepHolders
     DEF GetStat, PublishLost, PublishFull, Discard, Overflow, ReadOnlyClose,
         Goto, Return
<1>8. ASSUME NEW p \in Maintainer, MaintainerStep(p) PROVE RefsMatchHolders'
  BY <1>8, KeepHolders
     DEF MaintainerStep, Detach, CloseHandleStep, DrainIdle, DrainBusy,
         WaitOver, WaitCancelled, CloseMark, CloseShut, Maintain, Goto, Return,
         MaintainerPC
<1>9. ASSUME NEW h \in Handle, CloserStep(h) PROVE RefsMatchHolders'
  BY <1>9, KeepHolders DEF CloserStep, EvictMark, EvictShut, SweepMark, SweepShut
<1>10. CASE ShutdownBegin \/ Stopped \/ CloseBegin \/ CloseDone
  BY <1>10, KeepHolders DEF ShutdownBegin, Stopped, CloseBegin, CloseDone
<1>12. ASSUME NEW j \in Job, JobTick(j) \/ JobReturn(j) \/ JobGone(j)
      PROVE  RefsMatchHolders'
  BY <1>12, KeepHolders DEF JobTick, JobReturn, JobGone
<1>11. CASE UNCHANGED vars
  BY <1>11, KeepHolders DEF vars
<1>. QED
  BY <1>1, <1>2, <1>3, <1>4, <1>5, <1>6, <1>7, <1>8, <1>9, <1>10, <1>11, <1>12
  DEF Next, ClientStep, GetStep

(***************************************************************************)
(* The reference count of a handle is the number of requests that hold it, *)
(* whichever path through Get, reopen and OpenReadOnly they took.          *)
(***************************************************************************)
THEOREM RefsExact == Spec => []RefsMatchHolders
<1>1. IInv /\ IInv' /\ RefsMatchHolders /\ [Next]_vars => RefsMatchHolders'
  BY RefsStep
<1>. QED
  BY <1>1, RefsInit, Invariance, PTL DEF Spec

-----------------------------------------------------------------------------
(* The bound on the map.                                                   *)

\* Finitely many handles are cached.
LEMMA CachedFinite == IsFiniteSet(Cached) /\ IsFiniteSet(Cached')
<1>1. Cached \in SUBSET Name /\ Cached' \in SUBSET Name
  BY DEF Cached
<1>. QED
  BY <1>1, PoolAssumption, FS_Subset

\* Taking entries out of the map keeps its bound.
LEMMA CacheShrinks ==
  ASSUME CacheBounded, Cached' \subseteq Cached
  PROVE  CacheBounded'
<1>1. Cardinality(Cached') <= Cardinality(Cached)
  BY CachedFinite, FS_Subset
<1>. QED
  BY <1>1, CachedFinite, FS_CardinalityType, PoolAssumption DEF CacheBounded

\* The check that reopen repeats after the eviction leaves room for one more.
LEMMA PublishFits ==
  ASSUME IInv, CacheBounded, NEW p \in Client, Publish(p)
  PROVE  CacheBounded'
<1>. DEFINE out == IF Cardinality(Cached) >= MaxOpen THEN Idle ELSE {}
            rest == Cached \ out
<1>1. Cached' = rest \cup {db[p]}
  <2>1. db[p] \in Name /\ mine[p] # NoHandle
    BY DEF Publish, IInv, Locals
  <2>2. open' = [n \in Name |-> IF n = db[p] THEN mine[p]
                                ELSE IF n \in out THEN NoHandle ELSE open[n]]
    BY <2>1 DEF Publish
  <2>. QED
    BY <2>1, <2>2 DEF Cached
<1>2. IsFiniteSet(rest)
  BY CachedFinite, FS_Difference
<1>3. Cardinality(rest) < MaxOpen
  <2>1. CASE Cardinality(Cached) >= MaxOpen
    BY <2>1 DEF Publish
  <2>2. CASE ~(Cardinality(Cached) >= MaxOpen)
    <3>1. rest = Cached
      BY <2>2
    <3>. QED
      BY <2>2, <3>1, CachedFinite, FS_CardinalityType, PoolAssumption
  <2>. QED
    BY <2>1, <2>2
<1>4. Cardinality(Cached') <= Cardinality(rest) + 1
  BY <1>1, <1>2, FS_AddElement, FS_CardinalityType, SMTT(30)
<1>. QED
  BY <1>2, <1>3, <1>4, CachedFinite, FS_CardinalityType, PoolAssumption
  DEF CacheBounded

\* The map is empty at first.
LEMMA CacheInit == Init => CacheBounded
<1>1. Init => Cached = {}
  BY DEF Init, Cached
<1>. QED
  BY <1>1, FS_EmptySet, PoolAssumption DEF CacheBounded

\* Every step keeps the bound of the map.
LEMMA CacheStep == IInv /\ CacheBounded /\ [Next]_vars => CacheBounded'
<1>. SUFFICES ASSUME IInv, CacheBounded, [Next]_vars PROVE CacheBounded'
  OBVIOUS
<1>. USE DEF poolVars, Cached
<1>1. ASSUME NEW p \in Client, Publish(p) PROVE CacheBounded'
  BY <1>1, PublishFits
<1>2. ASSUME NEW p \in Client, PublishFull(p) PROVE CacheBounded'
  BY <1>2, CacheShrinks DEF PublishFull
<1>3. ASSUME NEW p \in Client, NEW n \in Name, GetLookup(p, n) PROVE CacheBounded'
  BY <1>3, CacheShrinks DEF GetLookup
<1>4. ASSUME NEW p \in Client,
             \/ GetAcquire(p) \/ GetStat(p) \/ OpenHandle(p) \/ PublishLost(p)
             \/ Discard(p) \/ Overflow(p) \/ Adopt(p) \/ Release(p)
             \/ ReadOnlyRelease(p) \/ ReadOnlyClose(p)
      PROVE  CacheBounded'
  BY <1>4, CacheShrinks
     DEF GetAcquire, GetStat, OpenHandle, PublishLost, Discard, Overflow, Adopt,
         Release, ReadOnlyRelease, ReadOnlyClose
<1>5. ASSUME NEW p \in Maintainer, NEW n \in Name, Detach(p, n) PROVE CacheBounded'
  BY <1>5, CacheShrinks DEF Detach, IInv, TypeOK
<1>6. ASSUME NEW p \in Maintainer,
             CloseHandleStep(p) \/ WaitCancelled(p) \/ Maintain(p)
      PROVE  CacheBounded'
  BY <1>6, CacheShrinks
     DEF CloseHandleStep, DrainIdle, DrainBusy, WaitOver, WaitCancelled,
         CloseMark, CloseShut, Maintain
<1>7. ASSUME NEW h \in Handle, CloserStep(h) PROVE CacheBounded'
  BY <1>7, CacheShrinks DEF CloserStep, EvictMark, EvictShut, SweepMark, SweepShut
<1>8. CASE ShutdownBegin \/ Stopped \/ CloseBegin \/ CloseDone
  BY <1>8, CacheShrinks DEF ShutdownBegin, Stopped, CloseBegin, CloseDone
<1>10. ASSUME NEW j \in Job, JobTick(j) \/ JobReturn(j) \/ JobGone(j)
      PROVE  CacheBounded'
  BY <1>10, CacheShrinks DEF JobTick, JobReturn, JobGone
<1>9. CASE UNCHANGED vars
  BY <1>9, CacheShrinks DEF vars
<1>. QED
  BY <1>1, <1>2, <1>3, <1>4, <1>5, <1>6, <1>7, <1>8, <1>9, <1>10
  DEF Next, ClientStep, GetStep, MaintainerStep

(***************************************************************************)
(* The map never holds more than maxOpen handles.                          *)
(***************************************************************************)
THEOREM Bounded == Spec => []CacheBounded
<1>1. IInv /\ CacheBounded /\ [Next]_vars => CacheBounded'
  BY CacheStep
<1>. QED
  BY <1>1, CacheInit, Invariance, PTL DEF Spec
=============================================================================
