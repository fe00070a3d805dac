----------------------------- MODULE HandlePool -----------------------------
(***************************************************************************)
(* The pool of open database handles kept by database.Manager              *)
(* (backend/internal/database/manager.go, handle.go, readonly.go).         *)
(*                                                                         *)
(* m.mu guards the map m.open; every handle has its own h.mu guarding its  *)
(* reference count and closed flag.  One action is one critical section    *)
(* of either mutex, or one file-system call made outside both, because     *)
(* that is the grain at which goroutines interleave.                       *)
(*                                                                         *)
(* A Client is a request goroutine that calls Manager.Get and later        *)
(* Release, or OpenReadOnly, which does both before it opens a connection  *)
(* of its own.  A Maintainer is a request that needs the file closed:      *)
(* Rename, Delete or ReplaceFile, which call closeHandle and then work on  *)
(* the file.  Goroutines of evicted handles and Manager.Close are modelled *)
(* by the sets of handles they still have to close.  The jobs of the       *)
(* scheduler matter here by the time their runs take: shutdown waits for   *)
(* them before it does anything else.                                      *)
(***************************************************************************)
EXTENDS Naturals, FiniteSets

CONSTANTS
    Name,       \* database names
    Client,     \* goroutines that call Get or OpenReadOnly
    Maintainer, \* goroutines that call closeHandle
    Job,        \* jobs of the scheduler, a goroutine each
    Handle,     \* identities of *Handle values; reused once nobody has one
    MaxOpen,    \* m.maxOpen
    ShutdownTimesOut, \* whether http.Shutdown may give up on requests
    NoHandle, NoName  \* the nil pointer and "no request"

Proc == Client \cup Maintainer

ASSUME PoolAssumption ==
    /\ IsFiniteSet(Name) /\ IsFiniteSet(Proc)
    /\ Client \cap Maintainer = {}
    /\ MaxOpen \in Nat \ {0}
    /\ ShutdownTimesOut \in BOOLEAN
    /\ NoHandle \notin Handle /\ NoName \notin Name

VARIABLES
    open,     \* m.open: name -> handle, NoHandle where there is no entry
    status,   \* "open" | "closing" (closed flag set, pools still open) | "closed"
    refs,     \* h.refs
    dbOf,     \* h.name
    evicted,  \* handles whose "go h.close()" has not finished
    server,   \* "up" | "stopping" | "draining" | "closing" | "closed"
    sweep,    \* handles Manager.Close still has to close
    job,      \* what the goroutine of each job does: "waiting" | "running" | "gone"
    pc,       \* where each goroutine is
    db,       \* the name its request is about
    mine,     \* the handle it opened itself and has not published
    got       \* the handle it read from the map, or holds

poolVars == <<open, status, refs, dbOf>>
procVars == <<pc, db, mine, got>>
closeVars == <<evicted, server, sweep, job>>
vars == <<poolVars, procVars, closeVars>>

ClientPC == {"idle", "acquire", "stat", "open", "publish", "discard",
             "overflow", "adopt", "using", "readOnly"}
MaintainerPC == {"idle", "drain", "wait", "mark", "shut", "maint"}

Cached == {n \in Name : open[n] # NoHandle}

\* The pools of a handle exist until close has shut both of them.
Live(h) == status[h] \in {"open", "closing"}

\* A *Handle value nobody can reach any more: the next openHandle may use it.
Fresh(h) ==
    /\ status[h] = "closed"
    /\ \A p \in Proc : mine[p] # h /\ got[p] # h

Init ==
    /\ open = [n \in Name |-> NoHandle]
    /\ status = [h \in Handle |-> "closed"]
    /\ refs = [h \in Handle |-> 0]
    /\ dbOf = [h \in Handle |-> NoName]
    /\ evicted = {} /\ server = "up" /\ sweep = {}
    /\ job = [j \in Job |-> "waiting"]
    /\ pc = [p \in Proc |-> "idle"]
    /\ db = [p \in Proc |-> NoName]
    /\ mine = [p \in Proc |-> NoHandle]
    /\ got = [p \in Proc |-> NoHandle]

\* The request returns to its caller, successfully or with an error.
Return(p) ==
    /\ pc' = [pc EXCEPT ![p] = "idle"]
    /\ db' = [db EXCEPT ![p] = NoName]
    /\ mine' = [mine EXCEPT ![p] = NoHandle]
    /\ got' = [got EXCEPT ![p] = NoHandle]

Goto(p, l) == pc' = [pc EXCEPT ![p] = l]

\* Requests stop arriving once the listener is closed, which is after the jobs
\* have stopped, but one that already runs may still use the manager: during the
\* drain, and after it as well when http.Server.Shutdown gave up waiting.
Serving == server \in {"up", "stopping", "draining"} \/ (ShutdownTimesOut /\ server = "closing")

-----------------------------------------------------------------------------
(* Manager.Get and reopen.                                                 *)

\* Get: look the name up under m.mu, then unlock before acquiring.
GetLookup(p, n) ==
    /\ pc[p] = "idle" /\ Serving
    /\ db' = [db EXCEPT ![p] = n]
    /\ got' = [got EXCEPT ![p] = open[n]]
    /\ Goto(p, IF open[n] # NoHandle THEN "acquire" ELSE "stat")
    /\ UNCHANGED <<poolVars, closeVars, mine>>

\* Get: h.acquire() outside m.mu; a closed handle sends it to reopen.
GetAcquire(p) ==
    /\ pc[p] = "acquire"
    /\ \/ /\ status[got[p]] = "open"
          /\ refs' = [refs EXCEPT ![got[p]] = @ + 1]
          /\ Goto(p, "using")
          /\ UNCHANGED got
       \/ /\ status[got[p]] # "open"
          /\ Goto(p, "open")
          /\ got' = [got EXCEPT ![p] = NoHandle]
          /\ UNCHANGED refs
    /\ UNCHANGED <<open, status, dbOf, closeVars, db, mine>>

\* Get: os.Stat finds the file or the request fails.
GetStat(p) ==
    /\ pc[p] = "stat"
    /\ \/ Goto(p, "open") /\ UNCHANGED <<db, mine, got>>
       \/ Return(p)
    /\ UNCHANGED <<poolVars, closeVars>>

\* reopen: openHandle opens both pools of a new handle, or fails.
OpenHandle(p) ==
    /\ pc[p] = "open"
    /\ \/ /\ \E h \in Handle :
               /\ Fresh(h)
               /\ status' = [status EXCEPT ![h] = "open"]
               /\ refs' = [refs EXCEPT ![h] = 0]
               /\ dbOf' = [dbOf EXCEPT ![h] = db[p]]
               /\ mine' = [mine EXCEPT ![p] = h]
          /\ Goto(p, "publish")
          /\ UNCHANGED <<db, got>>
       \/ Return(p) /\ UNCHANGED <<status, refs, dbOf>>
    /\ UNCHANGED <<open, closeVars>>

\* evictIdleLocked: the entries whose handle nobody references.
Idle == {n \in Cached : refs[open[n]] = 0}

\* reopen: another goroutine opened the database first; prefer its handle.
PublishLost(p) ==
    /\ pc[p] = "publish" /\ open[db[p]] # NoHandle
    /\ got' = [got EXCEPT ![p] = open[db[p]]]
    /\ Goto(p, "discard")
    /\ UNCHANGED <<poolVars, closeVars, db, mine>>

\* Mutant of Publish: the second length check, after the eviction, is missing.
PublishUnchecked(p) ==
    /\ pc[p] = "publish" /\ open[db[p]] = NoHandle
    /\ LET out == IF Cardinality(Cached) >= MaxOpen THEN Idle ELSE {}
       IN /\ open' = [n \in Name |-> IF n = db[p] THEN mine[p]
                                    ELSE IF n \in out THEN NoHandle
                                    ELSE open[n]]
          /\ evicted' = evicted \cup {open[n] : n \in out}
    /\ refs' = [refs EXCEPT ![mine[p]] = @ + 1]
    /\ got' = [got EXCEPT ![p] = mine[p]]
    /\ mine' = [mine EXCEPT ![p] = NoHandle]
    /\ Goto(p, "using")
    /\ UNCHANGED <<status, dbOf, server, sweep, job, db>>

\* reopen: there is room, or eviction makes room; publish and acquire.
Publish(p) ==
    /\ pc[p] = "publish" /\ open[db[p]] = NoHandle
    /\ LET full == Cardinality(Cached) >= MaxOpen
           out  == IF full THEN Idle ELSE {}
           kept == [n \in Name |-> IF n \in out THEN NoHandle ELSE open[n]]
       IN /\ full => Cardinality(Cached \ out) < MaxOpen
          /\ open' = [kept EXCEPT ![db[p]] = mine[p]]
          /\ evicted' = evicted \cup {open[n] : n \in out}
    /\ refs' = [refs EXCEPT ![mine[p]] = @ + 1]
    /\ got' = [got EXCEPT ![p] = mine[p]]
    /\ mine' = [mine EXCEPT ![p] = NoHandle]
    /\ Goto(p, "using")
    /\ UNCHANGED <<status, dbOf, server, sweep, job, db>>

\* reopen: every cached handle is in use; ErrTooManyOpen (after an eviction
\* that freed nothing, so the map is unchanged unless MaxOpen shrank).
PublishFull(p) ==
    /\ pc[p] = "publish" /\ open[db[p]] = NoHandle
    /\ Cardinality(Cached) >= MaxOpen
    /\ Cardinality(Cached \ Idle) >= MaxOpen
    /\ open' = [n \in Name |-> IF n \in Idle THEN NoHandle ELSE open[n]]
    /\ evicted' = evicted \cup {open[n] : n \in Idle}
    /\ Goto(p, "overflow")
    /\ UNCHANGED <<status, refs, dbOf, server, sweep, job, db, mine, got>>

\* reopen: close the handle that lost, then acquire the one in the map.
Discard(p) ==
    /\ pc[p] = "discard"
    /\ status' = [status EXCEPT ![mine[p]] = "closed"]
    /\ mine' = [mine EXCEPT ![p] = NoHandle]
    /\ Goto(p, "adopt")
    /\ UNCHANGED <<open, refs, dbOf, closeVars, db, got>>

\* reopen: close the handle there was no room for and fail.
Overflow(p) ==
    /\ pc[p] = "overflow"
    /\ status' = [status EXCEPT ![mine[p]] = "closed"]
    /\ Return(p)
    /\ UNCHANGED <<open, refs, dbOf, closeVars>>

\* Mutant of Adopt: the handle found in the map is returned unacquired.
AdoptUncounted(p) ==
    /\ pc[p] = "adopt"
    /\ Goto(p, "using")
    /\ UNCHANGED <<poolVars, closeVars, db, mine, got>>

\* reopen: existing.acquire(), which returns ErrClosed to the caller.
Adopt(p) ==
    /\ pc[p] = "adopt"
    /\ \/ /\ status[got[p]] = "open"
          /\ refs' = [refs EXCEPT ![got[p]] = @ + 1]
          /\ Goto(p, "using")
          /\ UNCHANGED <<db, mine, got>>
       \/ status[got[p]] # "open" /\ Return(p) /\ UNCHANGED refs
    /\ UNCHANGED <<open, status, dbOf, closeVars>>

DropRef(h) == refs' = [refs EXCEPT ![h] = IF @ > 0 THEN @ - 1 ELSE 0]

\* The request is done with the handle.
Release(p) ==
    /\ pc[p] = "using"
    /\ DropRef(got[p])
    /\ Return(p)
    /\ UNCHANGED <<open, status, dbOf, closeVars>>

-----------------------------------------------------------------------------
(* OpenReadOnly: release the handle at once, then open a connection of     *)
(* its own that the manager does not count.                                *)

\* Mutant of ReadOnlyRelease: a deferred second release, with no floor at 0.
ReadOnlyReleaseTwice(p) ==
    /\ pc[p] = "using"
    /\ refs' = [refs EXCEPT ![got[p]] = @ - 2]
    /\ got' = [got EXCEPT ![p] = NoHandle]
    /\ Goto(p, "readOnly")
    /\ UNCHANGED <<open, status, dbOf, closeVars, db, mine>>

ReadOnlyRelease(p) ==
    /\ pc[p] = "using"
    /\ DropRef(got[p])
    /\ got' = [got EXCEPT ![p] = NoHandle]
    /\ Goto(p, "readOnly")
    /\ UNCHANGED <<open, status, dbOf, closeVars, db, mine>>

\* The connection is opened, used and closed, or cannot be opened.
ReadOnlyClose(p) ==
    /\ pc[p] = "readOnly"
    /\ Return(p)
    /\ UNCHANGED <<poolVars, closeVars>>

-----------------------------------------------------------------------------
(* closeHandle, and the file work of Rename, Delete and ReplaceFile.       *)

\* Mutant of Detach: the entry stays in the map.
DetachKeepsEntry(p, n) ==
    /\ pc[p] = "idle" /\ Serving
    /\ db' = [db EXCEPT ![p] = n]
    /\ got' = [got EXCEPT ![p] = open[n]]
    /\ Goto(p, IF open[n] # NoHandle THEN "drain" ELSE "maint")
    /\ UNCHANGED <<poolVars, closeVars, mine>>

\* closeHandle: take the entry out of the map under m.mu.
Detach(p, n) ==
    /\ pc[p] = "idle" /\ Serving
    /\ db' = [db EXCEPT ![p] = n]
    /\ got' = [got EXCEPT ![p] = open[n]]
    /\ open' = [open EXCEPT ![n] = NoHandle]
    /\ Goto(p, IF open[n] # NoHandle THEN "drain" ELSE "maint")
    /\ UNCHANGED <<status, refs, dbOf, closeVars, mine>>

\* closeHandle: nobody uses the handle.
DrainIdle(p) ==
    /\ pc[p] = "drain" /\ refs[got[p]] = 0
    /\ Goto(p, "mark")
    /\ UNCHANGED <<poolVars, closeVars, db, mine, got>>

\* closeHandle: the handle is in use, so poll it every 25 ms.
DrainBusy(p) ==
    /\ pc[p] = "drain" /\ refs[got[p]] > 0
    /\ Goto(p, "wait")
    /\ UNCHANGED <<poolVars, closeVars, db, mine, got>>

\* Mutant of WaitOver: there is no deadline.
WaitOverIdle(p) ==
    /\ pc[p] = "wait" /\ refs[got[p]] = 0
    /\ Goto(p, "mark")
    /\ UNCHANGED <<poolVars, closeVars, db, mine, got>>

\* closeHandle: a poll finds the handle idle, or the ten-second deadline has
\* passed and it no longer matters whether the handle is in use.
WaitOver(p) ==
    /\ pc[p] = "wait"
    /\ Goto(p, "mark")
    /\ UNCHANGED <<poolVars, closeVars, db, mine, got>>

\* closeHandle: the request is cancelled while it waits.
WaitCancelled(p) ==
    /\ pc[p] = "wait"
    /\ Return(p)
    /\ UNCHANGED <<poolVars, closeVars>>

\* Handle.close: set the closed flag under h.mu, unless it is already set.
CloseMark(p) ==
    /\ pc[p] = "mark"
    /\ \/ /\ status[got[p]] = "open"
          /\ status' = [status EXCEPT ![got[p]] = "closing"]
          /\ Goto(p, "shut")
       \/ status[got[p]] # "open" /\ Goto(p, "maint") /\ UNCHANGED status
    /\ UNCHANGED <<open, refs, dbOf, closeVars, db, mine, got>>

\* Handle.close: checkpoint, then shut both pools.
CloseShut(p) ==
    /\ pc[p] = "shut"
    /\ status' = [status EXCEPT ![got[p]] = "closed"]
    /\ Goto(p, "maint")
    /\ UNCHANGED <<open, refs, dbOf, closeVars, db, mine, got>>

\* The rename, removal or replacement of the file; then the request returns.
Maintain(p) ==
    /\ pc[p] = "maint"
    /\ Return(p)
    /\ UNCHANGED <<poolVars, closeVars>>

-----------------------------------------------------------------------------
(* The goroutine evictIdleLocked starts for a handle, and Manager.Close.   *)

\* Mutant of EvictMark: the goroutine closes the handle only once it is idle.
EvictMarkIdle(h) ==
    /\ h \in evicted /\ status[h] = "open" /\ refs[h] = 0
    /\ status' = [status EXCEPT ![h] = "closing"]
    /\ UNCHANGED <<open, refs, dbOf, closeVars, procVars>>

EvictMark(h) ==
    /\ h \in evicted /\ status[h] = "open"
    /\ status' = [status EXCEPT ![h] = "closing"]
    /\ UNCHANGED <<open, refs, dbOf, closeVars, procVars>>

EvictShut(h) ==
    /\ h \in evicted /\ status[h] = "closing"
    /\ status' = [status EXCEPT ![h] = "closed"]
    /\ evicted' = evicted \ {h}
    /\ UNCHANGED <<open, refs, dbOf, server, sweep, job, procVars>>

\* runJob: the ticker fires, which select may prefer to a cancelled context.
JobTick(j) ==
    /\ server \in {"up", "stopping"} /\ job[j] = "waiting"
    /\ job' = [job EXCEPT ![j] = "running"]
    /\ UNCHANGED <<poolVars, procVars, evicted, server, sweep>>

\* execute: the run of the job ends, by itself or because its context is cancelled.
JobReturn(j) ==
    /\ job[j] = "running"
    /\ job' = [job EXCEPT ![j] = "waiting"]
    /\ UNCHANGED <<poolVars, procVars, evicted, server, sweep>>

\* runJob: the goroutine of the job sees that the context is cancelled.
JobGone(j) ==
    /\ server = "stopping" /\ job[j] = "waiting"
    /\ job' = [job EXCEPT ![j] = "gone"]
    /\ UNCHANGED <<poolVars, procVars, evicted, server, sweep>>

\* serve: the signal arrives and cancels the context of the jobs.
ShutdownBegin ==
    /\ server = "up"
    /\ server' = "stopping"
    /\ UNCHANGED <<poolVars, procVars, evicted, sweep, job>>

\* serve: scheduler.Stop has waited for every job, with no deadline; now the
\* listener closes and requests drain.
Stopped ==
    /\ server = "stopping" /\ \A j \in Job : job[j] = "gone"
    /\ server' = "draining"
    /\ UNCHANGED <<poolVars, procVars, evicted, sweep, job>>

\* Mutant of CloseBegin: the map is read but not emptied.
CloseBeginKeepsMap ==
    /\ server = "draining"
    /\ ShutdownTimesOut \/ \A p \in Proc : pc[p] = "idle"
    /\ server' = "closing"
    /\ sweep' = {open[n] : n \in Cached}
    /\ UNCHANGED <<poolVars, evicted, job, procVars>>

\* Mutant of CloseBegin: the drain has no grace period.
CloseBeginPatient ==
    /\ server = "draining"
    /\ \A p \in Proc : pc[p] = "idle"
    /\ server' = "closing"
    /\ sweep' = {open[n] : n \in Cached}
    /\ open' = [n \in Name |-> NoHandle]
    /\ UNCHANGED <<status, refs, dbOf, evicted, job, procVars>>

\* app.Close: after the drain, or after its grace period, empty the map.
CloseBegin ==
    /\ server = "draining"
    /\ ShutdownTimesOut \/ \A p \in Proc : pc[p] = "idle"
    /\ server' = "closing"
    /\ sweep' = {open[n] : n \in Cached}
    /\ open' = [n \in Name |-> NoHandle]
    /\ UNCHANGED <<status, refs, dbOf, evicted, job, procVars>>

SweepMark(h) ==
    /\ h \in sweep /\ status[h] = "open"
    /\ \A g \in sweep : status[g] # "closing"
    /\ status' = [status EXCEPT ![h] = "closing"]
    /\ UNCHANGED <<open, refs, dbOf, closeVars, procVars>>

SweepShut(h) ==
    /\ h \in sweep /\ status[h] = "closing"
    /\ status' = [status EXCEPT ![h] = "closed"]
    /\ sweep' = sweep \ {h}
    /\ UNCHANGED <<open, refs, dbOf, evicted, server, job, procVars>>

CloseDone ==
    /\ server = "closing" /\ sweep = {}
    /\ server' = "closed"
    /\ UNCHANGED <<poolVars, procVars, evicted, sweep, job>>

-----------------------------------------------------------------------------
GetStep(p) ==
    \/ GetAcquire(p) \/ GetStat(p) \/ OpenHandle(p)
    \/ PublishLost(p) \/ Publish(p) \/ PublishFull(p)
    \/ Discard(p) \/ Overflow(p) \/ Adopt(p)

ClientStep(p) ==
    \/ \E n \in Name : GetLookup(p, n)
    \/ GetStep(p) \/ Release(p)
    \/ ReadOnlyRelease(p) \/ ReadOnlyClose(p)

CloseHandleStep(p) ==
    DrainIdle(p) \/ DrainBusy(p) \/ WaitOver(p) \/ CloseMark(p) \/ CloseShut(p)

MaintainerStep(p) ==
    \/ \E n \in Name : Detach(p, n)
    \/ CloseHandleStep(p) \/ WaitCancelled(p) \/ Maintain(p)

CloserStep(h) == EvictMark(h) \/ EvictShut(h) \/ SweepMark(h) \/ SweepShut(h)

Next ==
    \/ \E p \in Client : ClientStep(p)
    \/ \E p \in Maintainer : MaintainerStep(p)
    \/ \E h \in Handle : CloserStep(h)
    \/ \E j \in Job : JobTick(j) \/ JobReturn(j) \/ JobGone(j)
    \/ ShutdownBegin \/ Stopped \/ CloseBegin \/ CloseDone

Spec == Init /\ [][Next]_vars

(***************************************************************************)
(* A goroutine that can run does run: the Go scheduler is fair to every    *)
(* goroutine, none of these steps waits for a channel, and the polling     *)
(* loop of closeHandle has a deadline.  A select that is entered again and *)
(* again with a cancelled context takes that branch in the end, because it *)
(* chooses at random: the goroutine of a job is strongly fair.  Nothing    *)
(* forces a client to release its handle or cancel its request, a request  *)
(* to arrive, a signal, or the run of a job to end.                        *)
(***************************************************************************)
Fairness ==
    /\ \A p \in Client : WF_vars(GetStep(p))
    /\ \A p \in Maintainer : WF_vars(CloseHandleStep(p))
    /\ \A h \in Handle : WF_vars(CloserStep(h))
    /\ \A j \in Job : SF_vars(JobGone(j))
    /\ WF_vars(Stopped) /\ WF_vars(CloseBegin) /\ WF_vars(CloseDone)

FairSpec == Spec /\ Fairness

-----------------------------------------------------------------------------
(* Properties.                                                             *)

TypeOK ==
    /\ open \in [Name -> Handle \cup {NoHandle}]
    /\ status \in [Handle -> {"open", "closing", "closed"}]
    /\ refs \in [Handle -> Nat]
    /\ dbOf \in [Handle -> Name \cup {NoName}]
    /\ evicted \in SUBSET Handle
    /\ server \in {"up", "stopping", "draining", "closing", "closed"}
    /\ sweep \in SUBSET Handle
    /\ job \in [Job -> {"waiting", "running", "gone"}]
    /\ pc \in [Proc -> ClientPC \cup MaintainerPC]
    /\ db \in [Proc -> Name \cup {NoName}]
    /\ mine \in [Proc -> Handle \cup {NoHandle}]
    /\ got \in [Proc -> Handle \cup {NoHandle}]

(***************************************************************************)
(* However opens, evictions and closes interleave, the map never holds     *)
(* more than maxOpen handles (the double check in reopen under m.mu).      *)
(***************************************************************************)
CacheBounded == Cardinality(Cached) <= MaxOpen

(***************************************************************************)
(* A handle found in the map belongs to the name it is filed under and has *)
(* not begun to close: every path that closes a published handle removes   *)
(* it from the map first.                                                  *)
(***************************************************************************)
CachedHandleUsable ==
    \A n \in Cached : status[open[n]] = "open" /\ dbOf[open[n]] = n

(***************************************************************************)
(* The reference count of a handle is the number of requests that hold it: *)
(* every successful Get is paired with one Release on every path,          *)
(* including those of OpenReadOnly and of a Get that lost the race to open.*)
(***************************************************************************)
Holders(h) == {p \in Client : pc[p] = "using" /\ got[p] = h}
RefsMatchHolders == \A h \in Handle : refs[h] = Cardinality(Holders(h))

(***************************************************************************)
(* A handle is the business of one goroutine at a time: it is in the map   *)
(* once, or with the request that opened it, or with the one goroutine     *)
(* that closes it.  So close never runs twice, and never on a handle that  *)
(* another Get can still find.                                             *)
(***************************************************************************)
ClosingPC == {"drain", "wait", "mark", "shut"}
Owners(h) ==
    {<<"map", n>> : n \in {n \in Name : open[n] = h}}
    \cup {<<"opener", p>> : p \in {p \in Client : mine[p] = h}}
    \cup {<<"closer", p>> : p \in {p \in Maintainer :
                                       pc[p] \in ClosingPC /\ got[p] = h}}
    \cup {<<"evictor", e>> : e \in {h} \cap evicted}
    \cup {<<"shutdown", e>> : e \in {h} \cap sweep}
SingleOwner ==
    \A h \in Handle : \A a, b \in Owners(h) : a = b

(***************************************************************************)
(* The inductive invariant behind the five above.  A goroutine's locals    *)
(* are set where it uses them; the status of a handle is the one its owner *)
(* expects; and no handle has two owners.                                  *)
(***************************************************************************)
Locals ==
    /\ \A p \in Client :
          /\ pc[p] \in ClientPC
          /\ pc[p] # "idle" => db[p] \in Name
          /\ pc[p] \in {"acquire", "discard", "adopt", "using"} => got[p] \in Handle
          /\ pc[p] \in {"publish", "discard", "overflow"} <=> mine[p] # NoHandle
    /\ \A p \in Maintainer :
          /\ pc[p] \in MaintainerPC
          /\ pc[p] \in ClosingPC => got[p] \in Handle
          /\ mine[p] = NoHandle

OwnedStatus ==
    /\ CachedHandleUsable
    /\ \A p \in Client : mine[p] # NoHandle =>
          status[mine[p]] = "open" /\ dbOf[mine[p]] = db[p]
    /\ \A p \in Maintainer :
          /\ pc[p] \in {"drain", "wait", "mark"} => status[got[p]] = "open"
          /\ pc[p] = "shut" => status[got[p]] = "closing"
    /\ \A h \in evicted \cup sweep : status[h] # "closed"

Disjoint ==
    /\ \A p, q \in Client : mine[p] # NoHandle /\ mine[p] = mine[q] => p = q
    /\ \A p \in Client, n \in Name : mine[p] # NoHandle => open[n] # mine[p]
    /\ \A p, q \in Maintainer :
          pc[p] \in ClosingPC /\ pc[q] \in ClosingPC /\ got[p] = got[q] => p = q
    /\ \A p \in Maintainer : pc[p] \in ClosingPC =>
          /\ \A n \in Name : open[n] # got[p]
          /\ \A q \in Client : mine[q] # got[p]
          /\ got[p] \notin evicted \cup sweep
    /\ \A h \in evicted \cup sweep :
          /\ \A n \in Name : open[n] # h
          /\ \A q \in Client : mine[q] # h
    /\ evicted \cap sweep = {}

IInv == TypeOK /\ Locals /\ OwnedStatus /\ Disjoint

(***************************************************************************)
(* closeHandle does not wait for ever on a client that keeps its handle:   *)
(* the deadline bounds the drain.                                          *)
(***************************************************************************)
DrainTerminates ==
    \A p \in Maintainer : pc[p] = "drain" ~> pc[p] \in {"maint", "idle"}

(***************************************************************************)
(* From the signal on, shutdown completes whatever requests still hold or  *)
(* keep asking for: but only if every run of a job ends.  The wait for the *)
(* jobs has no deadline, and shutdown_timeout counts from when it is over, *)
(* so a job that does not return holds the process for ever.               *)
(***************************************************************************)
ShutdownCompletes ==
    (\A j \in Job : []<>(job[j] # "running")) => (server = "stopping" ~> server = "closed")

(***************************************************************************)
(* An evicted handle is closed in the end, so eviction frees its pools.    *)
(***************************************************************************)
EvictedGetClosed ==
    \A h \in Handle : h \in evicted ~> status[h] = "closed"
=============================================================================
