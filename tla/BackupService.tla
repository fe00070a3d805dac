---------------------------- MODULE BackupService ----------------------------
(***************************************************************************)
(* Backups of user databases: Create, Restore, Delete, retention and the   *)
(* schedules of backup.Service (backend/internal/backup), run by requests  *)
(* of administrators and by the due-backups job of the scheduler.          *)
(*                                                                         *)
(* A backup is a row of the backups table and an artefact in storage, two  *)
(* stores with no common transaction.  One action is one metadata          *)
(* statement or one call to storage, to the snapshot or to ReplaceFile.    *)
(* A backup is identified by its start time, by which List orders: start   *)
(* times are assumed distinct.  ReplaceFile is DatabaseFiles' subject;     *)
(* here it installs the staged file or leaves the old one.                 *)
(***************************************************************************)
EXTENDS Naturals, FiniteSets

CONSTANTS
    Name,        \* databases
    Data,        \* contents of a database
    Admin,       \* requests of administrators
    Ticker,      \* the goroutine of the due-backups job
    Schedule,    \* identities of schedules
    Settings,    \* what an administrator may set a schedule to
    Ops,         \* what requests and the environment may do
    MaxBackups,  \* bound on the backups that are ever started
    MaxFaults,   \* bound on failing calls, damaged artefacts and crashes
    NoName, NoData, NoSetting, Damaged

\* A setting covers one database, or NoName for all; count and byAge are the
\* two limits of retention, 0 and FALSE for none.
Setting == [db : Name \cup {NoName}, count : Nat, byAge : BOOLEAN,
            enabled : BOOLEAN]

ASSUME BackupAssumption ==
    /\ Ticker \notin Admin
    /\ Settings \subseteq Setting
    /\ MaxBackups \in Nat /\ MaxFaults \in Nat
    /\ NoName \notin Name /\ NoData \notin Data /\ NoSetting \notin Settings
    /\ Damaged \notin Data \cup {NoData}

VARIABLES
    registered, \* the databases that exist
    data,       \* what the file of a database holds
    backup,     \* the backups table
    artefact,   \* the objects in storage
    schedule,   \* the backup_schedules table
    clock,      \* the start time of the latest backup
    pc, op, db, \* each goroutine: where it is, what it runs, for which database
    id, file,   \* the backup it takes, and its copy of a database
    src, sum,   \* the backup it restores or deletes, and the recorded checksum
    todo,       \* the backups it will delete
    sched, set, targets, \* the schedule it runs, as it was read, and the
                \* databases to come
    queue,      \* the job's schedules that are due
    cancelled,  \* the goroutines whose context is cancelled
    faults,     \* failing calls, damaged artefacts and crashes so far
    taken,      \* history: the content a backup's snapshot copied
    byHand,     \* history: the backups an administrator asked to delete
    cutOff      \* history: backups whose deletion broke off, whose creation died
                \* with the process, or whose closing UPDATE failed by itself

stores == <<registered, data, backup, artefact, schedule>>
history == <<taken, byHand, cutOff>>
creation == <<id, file>>
deletion == <<src, sum, todo>>
job == <<sched, set, targets, queue>>
locals == <<op, db, creation, deletion, job, cancelled>>
vars == <<stores, clock, pc, locals, faults, history>>

Proc == Admin \cup {Ticker}
Id == 1..MaxBackups
NoRow == [status |-> "none", db |-> NoName, sum |-> NoData]
NoSchedule == [set |-> NoSetting, due |-> FALSE]
Completed(n) == {i \in Id : backup[i].status = "completed" /\ backup[i].db = n}
\* An object of a name is in storage.
Stored(i) == artefact[i] # NoData

PC == {"idle", "find", "insert", "snapshot", "put", "complete", "fail",
       "fetch", "replace", "targets", "target", "retention", "retain",
       "unlink", "deleteRow", "record", "next"}

Init ==
    /\ registered = Name
    /\ data \in [Name -> Data]
    /\ backup = [i \in Id |-> NoRow]
    /\ artefact = [i \in Id |-> NoData]
    /\ schedule = [s \in Schedule |-> NoSchedule]
    /\ clock = 0
    /\ pc = [p \in Proc |-> "idle"] /\ op = [p \in Proc |-> "none"]
    /\ db = [p \in Proc |-> NoName]
    /\ id = [p \in Proc |-> 0] /\ file = [p \in Proc |-> NoData]
    /\ src = [p \in Proc |-> 0] /\ sum = [p \in Proc |-> NoData]
    /\ todo = [p \in Proc |-> {}]
    /\ sched = [p \in Proc |-> {}] /\ set = [p \in Proc |-> NoSetting]
    /\ targets = [p \in Proc |-> {}] /\ queue = [p \in Proc |-> {}]
    /\ cancelled = {}
    /\ faults = 0
    /\ taken = [i \in Id |-> NoData] /\ byHand = {} /\ cutOff = {}

-----------------------------------------------------------------------------
(* Steps of a goroutine, failures, and returns.                            *)

At(p, l) == pc[p] = l
Goto(p, l) == pc' = [pc EXCEPT ![p] = l]
Step(p, l) == Goto(p, l) /\ UNCHANGED locals
Creating(p) == pc[p] \in {"insert", "snapshot", "put", "complete", "fail"}

\* A statement or call of p succeeds; or it fails, because p's context has
\* been cancelled or by a fault of the metadata database or of storage.
Succeeds(p) == p \notin cancelled /\ UNCHANGED faults
Fault == faults < MaxFaults /\ faults' = faults + 1
Fails(p) == IF p \in cancelled THEN UNCHANGED faults ELSE Fault

\* p begins operation o for database n.
Start(p, l, o, n) ==
    /\ At(p, "idle")
    /\ Goto(p, l)
    /\ op' = [op EXCEPT ![p] = o]
    /\ db' = [db EXCEPT ![p] = n]
    /\ UNCHANGED <<creation, cancelled>>

ForgetBackup(p) ==
    /\ id' = [id EXCEPT ![p] = 0]
    /\ file' = [file EXCEPT ![p] = NoData]

\* The operation returns; the job goes on with the next schedule that is due.
Return(p) ==
    /\ Goto(p, IF queue[p] = {} THEN "idle" ELSE "next")
    /\ op' = [op EXCEPT ![p] = "none"] /\ db' = [db EXCEPT ![p] = NoName]
    /\ ForgetBackup(p)
    /\ src' = [src EXCEPT ![p] = 0] /\ sum' = [sum EXCEPT ![p] = NoData]
    /\ todo' = [todo EXCEPT ![p] = {}]
    /\ sched' = [sched EXCEPT ![p] = {}] /\ set' = [set EXCEPT ![p] = NoSetting]
    /\ targets' = [targets EXCEPT ![p] = {}]
    /\ cancelled' = cancelled \ {p}
    /\ UNCHANGED queue

CutOff(i) == cutOff' = cutOff \cup {i}

-----------------------------------------------------------------------------
(* Create.                                                                 *)

StartCreate(p, n) ==
    /\ "create" \in Ops
    /\ Start(p, "find", "create", n)
    /\ UNCHANGED <<deletion, job, stores, clock, faults, history>>

\* One backup of a run is over: p goes on at l.
NextInRun(p, l) ==
    /\ op[p] = "run"
    /\ Goto(p, l)
    /\ ForgetBackup(p)
    /\ UNCHANGED <<op, db, deletion, job, cancelled>>

\* Mutant of CreateFailed: a restore goes on without its safety snapshot.
CreateFailureIgnored(p) ==
    \/ NextInRun(p, "target")
    \/ op[p] = "restore" /\ Step(p, "fetch")
    \/ op[p] \notin {"run", "restore"} /\ Return(p)

\* Mutant of CreateFailed: a database that fails ends the run of its schedule
\* at once, and the job with it, the other schedules that are due unattended.
CreateFailureEndsTick(p) ==
    /\ Goto(p, "idle")
    /\ op' = [op EXCEPT ![p] = "none"] /\ db' = [db EXCEPT ![p] = NoName]
    /\ ForgetBackup(p)
    /\ sched' = [sched EXCEPT ![p] = {}] /\ set' = [set EXCEPT ![p] = NoSetting]
    /\ targets' = [targets EXCEPT ![p] = {}] /\ queue' = [queue EXCEPT ![p] = {}]
    /\ UNCHANGED <<deletion, cancelled>>

\* An error of Create ends a request, and one target of a schedule.
CreateFailed(p) ==
    \/ NextInRun(p, "target")
    \/ op[p] # "run" /\ Return(p)

\* What follows a backup that has completed.
CreateDone(p) ==
    \/ NextInRun(p, "retention")
    \/ op[p] = "restore" /\ Step(p, "fetch")
    \/ op[p] \notin {"run", "restore"} /\ Return(p)

\* mgr.Find, and the start time.  A read that fails ends Create, and at the
\* bound on backups it must.
Find(p) ==
    /\ At(p, "find")
    /\ \/ /\ db[p] \in registered /\ clock < MaxBackups
          /\ Succeeds(p)
          /\ clock' = clock + 1
          /\ Goto(p, "insert")
          /\ id' = [id EXCEPT ![p] = clock + 1]
          /\ UNCHANGED <<op, db, file, deletion, job, cancelled>>
       \/ /\ \/ (db[p] \notin registered \/ clock = MaxBackups) /\ UNCHANGED faults
             \/ Fails(p)
          /\ CreateFailed(p)
          /\ UNCHANGED clock
    /\ UNCHANGED <<stores, history>>

\* The rows that insertRecord refers to: the database and, in a run, the
\* schedule.
KeysExist(p) ==
    /\ db[p] \in registered
    /\ \A s \in sched[p] : schedule[s] # NoSchedule

\* insertRecord, which the foreign keys make fail when a row has gone.
Insert(p) ==
    /\ At(p, "insert")
    /\ \/ /\ KeysExist(p)
          /\ Succeeds(p)
          /\ backup' = [backup EXCEPT ![id[p]] =
                 [status |-> "pending", db |-> db[p], sum |-> NoData]]
          /\ Step(p, "snapshot")
       \/ /\ (~KeysExist(p) /\ UNCHANGED faults) \/ Fails(p)
          /\ CreateFailed(p)
          /\ UNCHANGED backup
    /\ UNCHANGED <<registered, data, artefact, schedule, clock, history>>

\* VACUUM INTO a temporary file: one read transaction on the database.
Snapshot(p) ==
    /\ At(p, "snapshot")
    /\ \/ /\ db[p] \in registered
          /\ Succeeds(p)
          /\ taken' = [taken EXCEPT ![id[p]] = data[db[p]]]
          /\ Goto(p, "put")
          /\ file' = [file EXCEPT ![p] = data[db[p]]]
          /\ UNCHANGED <<op, db, id, deletion, job, cancelled>>
       \/ /\ (db[p] \notin registered /\ UNCHANGED faults) \/ Fails(p)
          /\ Step(p, "fail")
          /\ UNCHANGED taken
    /\ UNCHANGED <<stores, clock, byHand, cutOff>>

Upload(p) == artefact' = [artefact EXCEPT ![id[p]] = file[p]]

\* Mutant of Put: the error of the upload is dropped.
PutUnchecked(p) ==
    /\ At(p, "put")
    /\ \/ Upload(p) /\ UNCHANGED faults
       \/ Fails(p) /\ UNCHANGED artefact
    /\ Step(p, "complete")
    /\ UNCHANGED <<registered, data, backup, schedule, clock, history>>

\* Mutant of Put: an upload that fails returns at once.
PutReturns(p) ==
    /\ At(p, "put")
    /\ \/ Upload(p) /\ Step(p, "complete") /\ UNCHANGED faults
       \/ Fails(p) /\ UNCHANGED artefact /\ CreateFailed(p)
    /\ UNCHANGED <<registered, data, backup, schedule, clock, history>>

\* provider.Put.  Local storage does not look at the context; Drive may have
\* kept an upload that it reports, or that the client takes, for failed.
Put(p) ==
    /\ At(p, "put")
    /\ \/ Upload(p) /\ Step(p, "complete") /\ UNCHANGED faults
       \/ Fails(p) /\ (Upload(p) \/ UNCHANGED artefact) /\ Step(p, "fail")
    /\ UNCHANGED <<registered, data, backup, schedule, clock, history>>

\* An UPDATE of the backup's row, which changes nothing once it is deleted.
Finish(p, status) ==
    backup' = IF backup[id[p]] = NoRow THEN backup
              ELSE [backup EXCEPT ![id[p]] =
                       [status |-> status, db |-> @.db, sum |-> file[p]]]

\* finishRecord runs on the request's own context, on success and on failure.
\* If it fails, which it always does once the request is cancelled, the row
\* stays pending, and Create returns an error all the same.
FinishFails(p) ==
    /\ Fails(p)
    /\ IF p \in cancelled THEN UNCHANGED cutOff ELSE CutOff(id[p])
    /\ UNCHANGED backup

FinishCompleted(p) ==
    /\ At(p, "complete")
    /\ \/ Succeeds(p) /\ Finish(p, "completed") /\ CreateDone(p) /\ UNCHANGED cutOff
       \/ FinishFails(p) /\ CreateFailed(p)
    /\ UNCHANGED <<registered, data, artefact, schedule, clock, taken, byHand>>

FinishFailed(p) ==
    /\ At(p, "fail")
    /\ \/ Succeeds(p) /\ Finish(p, "failed") /\ UNCHANGED cutOff
       \/ FinishFails(p)
    /\ CreateFailed(p)
    /\ UNCHANGED <<registered, data, artefact, schedule, clock, taken, byHand>>

CreateStep(p) ==
    \/ Find(p) \/ Insert(p) \/ Snapshot(p) \/ Put(p)
    \/ FinishCompleted(p) \/ FinishFailed(p)

-----------------------------------------------------------------------------
(* Restore.                                                                *)

\* Get and the check of the status; then Create runs for a safety snapshot.
StartRestore(p, i) ==
    /\ "restore" \in Ops
    /\ backup[i].status = "completed"
    /\ Start(p, "find", "restore", backup[i].db)
    /\ src' = [src EXCEPT ![p] = i]
    /\ sum' = [sum EXCEPT ![p] = backup[i].sum]
    /\ UNCHANGED <<todo, job, stores, clock, faults, history>>

\* Mutant of Fetch: the staged file is installed unchecked.
FetchUnchecked(p) ==
    /\ At(p, "fetch")
    /\ \/ /\ Succeeds(p) /\ Stored(src[p])
          /\ Goto(p, "replace")
          /\ file' = [file EXCEPT ![p] = artefact[src[p]]]
          /\ UNCHANGED <<op, db, id, deletion, job, cancelled>>
       \/ /\ (~Stored(src[p]) /\ UNCHANGED faults) \/ Fails(p)
          /\ Return(p)
    /\ UNCHANGED <<stores, clock, history>>

\* fetchToTemp, then the checksum and VerifySQLiteFile on the private copy.
Fetch(p) ==
    /\ At(p, "fetch")
    /\ \/ /\ Succeeds(p) /\ Stored(src[p]) /\ artefact[src[p]] = sum[p]
          /\ Goto(p, "replace")
          /\ file' = [file EXCEPT ![p] = artefact[src[p]]]
          /\ UNCHANGED <<op, db, id, deletion, job, cancelled>>
       \/ /\ (artefact[src[p]] # sum[p] /\ UNCHANGED faults) \/ Fails(p)
          /\ Return(p)
    /\ UNCHANGED <<stores, clock, history>>

\* mgr.ReplaceFile goes by the name; it does not look for the row.
Replace(p) ==
    /\ At(p, "replace")
    /\ \/ Succeeds(p) /\ data' = [data EXCEPT ![db[p]] = file[p]]
       \/ Fails(p) /\ UNCHANGED data
    /\ Return(p)
    /\ UNCHANGED <<registered, backup, artefact, schedule, clock, history>>

-----------------------------------------------------------------------------
(* Delete, by hand or by retention.                                        *)

StartDelete(p, i) ==
    /\ "delete" \in Ops
    /\ backup[i] # NoRow
    /\ Start(p, "retain", "delete", NoName)
    /\ todo' = [todo EXCEPT ![p] = {i}]
    /\ byHand' = byHand \cup {i}
    /\ UNCHANGED <<src, sum, job, stores, clock, faults, taken, cutOff>>

\* p takes the newest of the backups it will delete.
Take(p, i) ==
    /\ i \in todo[p] /\ \A j \in todo[p] : j <= i
    /\ todo' = [todo EXCEPT ![p] = @ \ {i}]
    /\ UNCHANGED <<op, db, creation, sum, job, cancelled>>

\* Mutant of DeleteGet: off by one in the list.
DeleteGetNext(p) ==
    /\ At(p, "retain")
    /\ \E i \in Id :
          /\ Take(p, i)
          /\ Goto(p, "unlink")
          /\ src' = [src EXCEPT ![p] = i + 1]
    /\ UNCHANGED <<stores, clock, faults, history>>

\* Get of the next backup to delete; one that is gone, or cannot be read, is
\* passed over.
DeleteGet(p) ==
    /\ At(p, "retain")
    /\ \E i \in Id :
          /\ Take(p, i)
          /\ \/ /\ Succeeds(p) /\ backup[i] # NoRow
                /\ Goto(p, "unlink")
                /\ src' = [src EXCEPT ![p] = i]
             \/ /\ (backup[i] = NoRow /\ UNCHANGED faults) \/ Fails(p)
                /\ UNCHANGED <<pc, src>>
    /\ UNCHANGED <<stores, clock, history>>

\* provider.Delete, whose failure is only logged.
DeleteUnlink(p) ==
    /\ At(p, "unlink")
    /\ \/ /\ artefact' = [artefact EXCEPT ![src[p]] = NoData]
          /\ UNCHANGED <<faults, cutOff>>
       \/ Fails(p) /\ UNCHANGED artefact /\ CutOff(src[p])
    /\ Step(p, "deleteRow")
    /\ UNCHANGED <<registered, data, backup, schedule, clock, taken, byHand>>

DeleteRow(p) ==
    /\ At(p, "deleteRow")
    /\ \/ /\ Succeeds(p)
          /\ backup' = [backup EXCEPT ![src[p]] = NoRow]
          /\ UNCHANGED cutOff
       \/ Fails(p) /\ UNCHANGED backup /\ CutOff(src[p])
    /\ Goto(p, "retain")
    /\ src' = [src EXCEPT ![p] = 0]
    /\ UNCHANGED <<op, db, creation, sum, todo, job, cancelled>>
    /\ UNCHANGED <<registered, data, artefact, schedule, clock, taken, byHand>>

\* Nothing is left to delete.
DeleteDone(p) ==
    /\ At(p, "retain") /\ todo[p] = {}
    /\ IF op[p] = "run" THEN Step(p, "target") ELSE Return(p)
    /\ UNCHANGED <<stores, clock, faults, history>>

DeleteStep(p) == DeleteGet(p) \/ DeleteUnlink(p) \/ DeleteRow(p) \/ DeleteDone(p)

-----------------------------------------------------------------------------
(* Schedules.                                                              *)

\* Nobody is running, or about to run, a schedule of this identity.
Unused(s) ==
    \A p \in Proc : s \notin sched[p] \cup {q[1] : q \in queue[p]}

\* UpdateSchedule, or CreateSchedule with an identity of its own: the next run
\* is one interval away.
SetSchedule(s, new) ==
    /\ "schedule" \in Ops
    /\ schedule[s] # NoSchedule \/ Unused(s)
    /\ new.db \in registered \cup {NoName}
    /\ schedule' = [schedule EXCEPT ![s] = [set |-> new, due |-> FALSE]]
    /\ UNCHANGED <<registered, data, backup, artefact, clock, pc, locals, faults, history>>

DropSchedule(s) ==
    /\ "schedule" \in Ops
    /\ schedule[s] # NoSchedule
    /\ schedule' = [schedule EXCEPT ![s] = NoSchedule]
    /\ UNCHANGED <<registered, data, backup, artefact, clock, pc, locals, faults, history>>

\* A request to run a schedule now, which reads it first.
StartRun(p, s) ==
    /\ "run" \in Ops
    /\ schedule[s] # NoSchedule
    /\ Start(p, "targets", "run", NoName)
    /\ sched' = [sched EXCEPT ![p] = {s}]
    /\ set' = [set EXCEPT ![p] = schedule[s].set]
    /\ UNCHANGED <<targets, queue, deletion, stores, clock, faults, history>>

\* DueSchedules, on a tick.
Due == {s \in Schedule : /\ schedule[s] # NoSchedule
                         /\ schedule[s].due /\ schedule[s].set.enabled}

ListDue ==
    /\ At(Ticker, "idle") /\ Due # {}
    /\ Goto(Ticker, "next")
    /\ queue' = [queue EXCEPT ![Ticker] = {<<s, schedule[s].set>> : s \in Due}]
    /\ UNCHANGED <<op, db, creation, deletion, sched, set, targets, cancelled>>
    /\ UNCHANGED <<stores, clock, faults, history>>

RunDue ==
    /\ At(Ticker, "next")
    /\ \E q \in queue[Ticker] :
          /\ sched' = [sched EXCEPT ![Ticker] = {q[1]}]
          /\ set' = [set EXCEPT ![Ticker] = q[2]]
          /\ queue' = [queue EXCEPT ![Ticker] = @ \ {q}]
    /\ Goto(Ticker, "targets")
    /\ op' = [op EXCEPT ![Ticker] = "run"]
    /\ UNCHANGED <<db, creation, deletion, targets, cancelled>>
    /\ UNCHANGED <<stores, clock, faults, history>>

\* Which databases to back up.  If that cannot be read, or the database is
\* gone, the run ends unrecorded.
Targets(p) ==
    /\ At(p, "targets")
    /\ LET n == set[p].db
       IN  \/ /\ Succeeds(p) /\ n \in registered \cup {NoName}
              /\ Goto(p, "target")
              /\ targets' = [targets EXCEPT ![p] = IF n = NoName THEN registered ELSE {n}]
              /\ UNCHANGED <<op, db, creation, deletion, sched, set, queue, cancelled>>
           \/ /\ (n \notin registered \cup {NoName} /\ UNCHANGED faults) \/ Fails(p)
              /\ Return(p)
    /\ UNCHANGED <<stores, clock, history>>

Target(p) ==
    /\ At(p, "target")
    /\ \/ \E n \in targets[p] :
             /\ Goto(p, "find")
             /\ db' = [db EXCEPT ![p] = n]
             /\ targets' = [targets EXCEPT ![p] = @ \ {n}]
             /\ UNCHANGED <<op, creation, deletion, sched, set, queue, cancelled>>
       \/ targets[p] = {} /\ Step(p, "record")
    /\ UNCHANGED <<stores, clock, faults, history>>

\* Mutant of Expired: the newest is not spared.
ExpiredAll(listed, policy, cutoff) ==
    {i \in listed :
        \/ policy.count > 0 /\ Cardinality({j \in listed : j > i}) >= policy.count
        \/ policy.byAge /\ i < cutoff}

\* What ApplyRetention deletes of the completed backups it has listed: all but
\* the first, which is the newest, that are beyond the count or too old.
Expired(listed, policy, cutoff) ==
    {i \in listed :
        LET newer == {j \in listed : j > i}
        IN  /\ newer # {}
            /\ \/ policy.count > 0 /\ Cardinality(newer) >= policy.count
               \/ policy.byAge /\ i < cutoff}

\* ApplyRetention lists once; an error is only logged.
Retention(p) ==
    /\ At(p, "retention")
    /\ \/ /\ Succeeds(p)
          /\ \E cutoff \in IF set[p].byAge THEN 0..clock ELSE {0} :
                todo' = [todo EXCEPT ![p] = Expired(Completed(db[p]), set[p], cutoff)]
          /\ Goto(p, "retain")
          /\ UNCHANGED <<op, db, creation, src, sum, job, cancelled>>
       \/ Fails(p) /\ Step(p, "target")
    /\ UNCHANGED <<stores, clock, history>>

\* recordScheduleRun: the next run is one interval away.
Record(p) ==
    /\ At(p, "record")
    /\ \/ /\ Succeeds(p)
          /\ schedule' = [s \in Schedule |->
                 IF s \in sched[p] /\ schedule[s] # NoSchedule
                 THEN [schedule[s] EXCEPT !.due = FALSE]
                 ELSE schedule[s]]
       \/ Fails(p) /\ UNCHANGED schedule
    /\ Return(p)
    /\ UNCHANGED <<registered, data, backup, artefact, clock, history>>

RunStep(p) == Targets(p) \/ Target(p) \/ Retention(p) \/ Record(p)

-----------------------------------------------------------------------------
(* Databases, time, and faults.                                            *)

\* Clients change a database.
Write(n, d) ==
    /\ "write" \in Ops /\ n \in registered /\ data[n] # d
    /\ data' = [data EXCEPT ![n] = d]
    /\ UNCHANGED <<registered, backup, artefact, schedule, clock, pc, locals, faults, history>>

\* Manager.Delete; the schedules of the database go with its row.
DropDatabase(n) ==
    /\ "drop" \in Ops /\ n \in registered
    /\ registered' = registered \ {n}
    /\ data' = [data EXCEPT ![n] = NoData]
    /\ schedule' = [s \in Schedule |->
           IF schedule[s] # NoSchedule /\ schedule[s].set.db = n
           THEN NoSchedule ELSE schedule[s]]
    /\ UNCHANGED <<backup, artefact, clock, pc, locals, faults, history>>

\* The time of a schedule's next run arrives.
FallDue(s) ==
    /\ schedule[s] # NoSchedule /\ ~schedule[s].due
    /\ schedule' = [schedule EXCEPT ![s].due = TRUE]
    /\ UNCHANGED <<registered, data, backup, artefact, clock, pc, locals, faults, history>>

\* A request is cut short: the client leaves or its 30 minutes are over.
Cancel(p) ==
    /\ "cancel" \in Ops
    /\ ~At(p, "idle") /\ p \notin cancelled
    /\ cancelled' = cancelled \cup {p}
    /\ UNCHANGED <<pc, op, db, creation, deletion, job>>
    /\ UNCHANGED <<stores, clock, faults, history>>

\* An artefact is damaged in storage.
Damage(i) ==
    /\ "damage" \in Ops /\ Fault
    /\ artefact[i] \in Data
    /\ artefact' = [artefact EXCEPT ![i] = Damaged]
    /\ UNCHANGED <<registered, data, backup, schedule, clock, pc, locals, history>>

\* The process dies and is started again.
Crash ==
    /\ "crash" \in Ops /\ Fault
    /\ \E p \in Proc : ~At(p, "idle")
    /\ pc' = [p \in Proc |-> "idle"] /\ op' = [p \in Proc |-> "none"]
    /\ db' = [p \in Proc |-> NoName]
    /\ id' = [p \in Proc |-> 0] /\ file' = [p \in Proc |-> NoData]
    /\ src' = [p \in Proc |-> 0] /\ sum' = [p \in Proc |-> NoData]
    /\ todo' = [p \in Proc |-> {}]
    /\ sched' = [p \in Proc |-> {}] /\ set' = [p \in Proc |-> NoSetting]
    /\ targets' = [p \in Proc |-> {}] /\ queue' = [p \in Proc |-> {}]
    /\ cancelled' = {}
    /\ cutOff' = cutOff \cup {i \in Id : \E p \in Proc :
                                 \/ Creating(p) /\ id[p] = i
                                 \/ At(p, "deleteRow") /\ src[p] = i}
    /\ UNCHANGED <<stores, clock, taken, byHand>>

-----------------------------------------------------------------------------

ProcStep(p) == CreateStep(p) \/ Fetch(p) \/ Replace(p) \/ DeleteStep(p) \/ RunStep(p)

Job == ListDue \/ RunDue \/ ProcStep(Ticker)

Request(p) ==
    \/ \E n \in Name : StartCreate(p, n)
    \/ \E i \in Id : StartRestore(p, i) \/ StartDelete(p, i)
    \/ \E s \in Schedule : StartRun(p, s)

Environment ==
    \/ \E s \in Schedule : DropSchedule(s) \/ FallDue(s) \/ \E new \in Settings : SetSchedule(s, new)
    \/ \E n \in Name : DropDatabase(n) \/ \E d \in Data : Write(n, d)
    \/ \E p \in Admin : Cancel(p)
    \/ \E i \in Id : Damage(i)
    \/ Crash

Next ==
    \/ Job
    \/ \E p \in Admin : Request(p) \/ ProcStep(p)
    \/ Environment

Spec == Init /\ [][Next]_vars

\* Goroutines run, and the ticker ticks; nobody has to ask for anything.
Fairness == WF_vars(Job) /\ \A p \in Admin : WF_vars(ProcStep(p))
FairSpec == Spec /\ Fairness

-----------------------------------------------------------------------------
(* Properties.                                                             *)

Row == [status : {"none", "pending", "completed", "failed"},
        db : Name \cup {NoName}, sum : Data \cup {NoData}]

TypeOK ==
    /\ registered \subseteq Name
    /\ data \in [Name -> Data \cup {NoData}]
    /\ backup \in [Id -> Row]
    /\ artefact \in [Id -> Data \cup {NoData, Damaged}]
    /\ schedule \in [Schedule -> [set : Settings, due : BOOLEAN] \cup {NoSchedule}]
    /\ clock \in 0..MaxBackups /\ faults \in 0..MaxFaults
    /\ pc \in [Proc -> PC]
    /\ op \in [Proc -> {"none", "create", "restore", "delete", "run"}]
    /\ db \in [Proc -> Name \cup {NoName}]
    /\ id \in [Proc -> Id \cup {0}] /\ src \in [Proc -> Id \cup {0}]
    /\ sum \in [Proc -> Data \cup {NoData}] /\ file \in [Proc -> Data \cup {NoData}]
    /\ todo \in [Proc -> SUBSET Id]
    /\ sched \in [Proc -> SUBSET Schedule] /\ set \in [Proc -> Settings \cup {NoSetting}]
    /\ targets \in [Proc -> SUBSET Name]
    /\ queue \in [Proc -> SUBSET (Schedule \X Settings)]
    /\ cancelled \subseteq Proc
    /\ taken \in [Id -> Data \cup {NoData}]
    /\ byHand \subseteq Id /\ cutOff \subseteq Id

\* The backups table and storage agree, though nothing commits them together:
\* a completed backup can be fetched unless somebody is about to delete its
\* row, and an object without a row stems from a backup deleted by hand while
\* it ran.  Only an operation that broke off leaves anything else behind.
StoreMatchesRows ==
    \A i \in Id :
        /\ backup[i].status = "completed" =>
              Stored(i) \/ i \in cutOff \/ \E p \in Proc : At(p, "deleteRow") /\ src[p] = i
        /\ Stored(i) => backup[i] # NoRow \/ i \in byHand \cup cutOff

\* A run of a schedule removes the artefact of backup i in this step.
RetentionUnlinks(p, i) ==
    /\ op[p] = "run" /\ At(p, "unlink") /\ src[p] = i
    /\ Stored(i) /\ artefact'[i] = NoData

\* A backup that a restore of n could use, or that an administrator has asked
\* to delete.
KeptOrByHand(n, j) == j \in byHand \/ (j \in Completed(n) /\ Stored(j))

\* Retention never takes a database's newest recovery point: whatever runs of
\* schedules overlap, a backup it deletes has a newer one that can be fetched,
\* or that an administrator asked to delete since.
RecoveryPointKept ==
    [][\A p \in Proc, i \in Id : RetentionUnlinks(p, i) =>
          \E j \in Id : j > i /\ KeptOrByHand(db[p], j)]_vars

\* A restore by p overwrites its database in this step.
Overwrites(p) ==
    /\ At(p, "replace") /\ pc'[p] # pc[p]
    /\ data'[db[p]] # data[db[p]]

\* No restore without a way back: when it overwrites the database, a backup
\* taken since the restore began can be fetched, in spite of retention running
\* meanwhile, unless an administrator asked to delete it.
RestoreLeavesWayBack ==
    [][\A p \in Proc : Overwrites(p) =>
          \E j \in Id : j >= id[p] /\ KeptOrByHand(db[p], j)]_vars

\* A restore installs the content the database had when the backup was taken,
\* and nothing that storage has damaged or mixed up since.
RestoredIsTheBackup ==
    [][\A p \in Proc : Overwrites(p) => data'[db[p]] = taken[src[p]]]_vars

\* No schedule stays due for ever: it is run and recorded, although a backup of
\* its own or of another schedule fails again and again, other schedules and
\* requests run meanwhile, and the process may crash.
DueRuns == \A s \in Schedule : []<>(s \notin Due)

\* The request that takes backup i is cancelled while it does.
CancelledWhileTaken(i) ==
    \E p \in Proc : Creating(p) /\ id[p] = i /\ p \in cancelled

\* A backup whose snapshot or upload fails is recorded as failed, and none stays
\* pending for ever, provided that its request is never cancelled while it runs,
\* that its closing UPDATE does not fail by itself and that the process
\* survives.  The first proviso is no detail: Create records the failure on the
\* context that has just been cancelled, so a client that leaves, or a backup
\* longer than its 30 minutes, leaves a row that says pending for good.
RecordsFinish ==
    \A i \in Id :
        []~CancelledWhileTaken(i) =>
            []<>(backup[i].status # "pending" \/ i \in cutOff)
=============================================================================
