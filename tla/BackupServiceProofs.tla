------------------------- MODULE BackupServiceProofs -------------------------
(***************************************************************************)
(* BackupService: retention spares the newest backup, and a restore leaves *)
(* a way back, for any number of databases, requests, schedules, backups   *)
(* and failing calls.                                                      *)
(***************************************************************************)
EXTENDS BackupService, TLAPS

-----------------------------------------------------------------------------
(* The inductive invariant.                                                *)

\* The locals a step uses have been set.
LocalsOK ==
    \A p \in Proc :
        /\ Creating(p) => id[p] \in 1..clock
        /\ pc[p] \in {"unlink", "deleteRow"} => src[p] \in Id
        /\ pc[p] \in {"put", "replace"} => file[p] \in Data
        /\ pc[p] = "retention" => op[p] = "run"

\* The file of a registered database has content.
ContentOK == \A n \in registered : data[n] \in Data

\* Two backups that are being taken are different ones; the rows of both are
\* unfinished; there is no row of a backup to come.
Apart ==
    /\ \A p, q \in Proc : Creating(p) /\ Creating(q) /\ id[p] = id[q] => p = q
    /\ \A p \in Proc : Creating(p) => backup[id[p]].status \in {"none", "pending"}
    /\ \A i \in Id : i > clock => backup[i] = NoRow

\* p is going to delete i.
Dooms(p, i) ==
    \/ pc[p] \in {"retain", "unlink", "deleteRow"} /\ i \in todo[p]
    \/ pc[p] \in {"unlink", "deleteRow"} /\ i = src[p]

\* What somebody is going to delete an administrator has asked to delete, or
\* was a completed backup of the database that is being run when it was chosen.
DoomedOK ==
    \A p \in Proc, i \in Id : Dooms(p, i) =>
        /\ op[p] \in {"run", "delete"}
        /\ op[p] = "delete" => i \in byHand
        /\ op[p] = "run" =>
              /\ backup[i] = NoRow \/ i \in Completed(db[p])
              /\ i <= clock /\ \A q \in Proc : Creating(q) => id[q] # i

\* While a backup is taken its row names its database, unless an administrator
\* has deleted it; once it is stored it stays stored.
RowOK ==
    \A p \in Proc :
        /\ pc[p] \in {"snapshot", "put", "complete"} =>
              \/ backup[id[p]] # NoRow /\ backup[id[p]].db = db[p]
              \/ id[p] \in byHand
        /\ At(p, "complete") => Stored(id[p]) \/ id[p] \in byHand

\* For every completed backup there is one at least as new that can be fetched
\* or was deleted by hand; for every one that a run is going to delete, a newer
\* one; for a restore, one since its beginning.
NewestKept ==
    /\ \A i \in Id : backup[i].status = "completed" =>
          \E j \in Id : j >= i /\ KeptOrByHand(backup[i].db, j)
    /\ \A p \in Proc, i \in Id : Dooms(p, i) /\ op[p] = "run" =>
          \E j \in Id : j > i /\ KeptOrByHand(db[p], j)
    /\ \A p \in Proc : pc[p] \in {"fetch", "replace"} =>
          \E j \in Id : j >= id[p] /\ KeptOrByHand(db[p], j)

\* What a backup uploads and what its row records is what its snapshot copied.
TakenOK ==
    /\ \A p \in Proc : pc[p] \in {"put", "complete"} =>
          file[p] = taken[id[p]] /\ file[p] \in Data
    /\ \A i \in Id : backup[i].status = "completed" =>
          backup[i].sum = taken[i] /\ backup[i].sum \in Data

\* The backup that is being restored was taken before the restore began, and
\* the file that is going to be installed has the recorded checksum.
RestoreOK ==
    \A p \in Proc :
        /\ pc[p] \in {"fetch", "replace"} => op[p] = "restore"
        /\ op[p] = "restore" =>
              /\ src[p] \in 1..clock /\ sum[p] = taken[src[p]] /\ sum[p] \in Data
              /\ \A q \in Proc : Creating(q) => id[q] # src[p]
        /\ At(p, "replace") => file[p] = sum[p]

\* A deletion of i has removed the artefact and not yet the row.
Unlinked(i) == \E p \in Proc : At(p, "deleteRow") /\ src[p] = i

\* The row of i says completed, or its last statement will.
Completing(i) ==
    \/ backup[i].status = "completed"
    \/ backup[i] # NoRow /\ \E p \in Proc : At(p, "complete") /\ id[p] = i

\* StoreMatchesRows, from the upload on and up to the end of a deletion.
StoresAgree ==
    /\ \A i \in Id :
          /\ Completing(i) => Stored(i) \/ i \in cutOff \/ Unlinked(i)
          /\ Stored(i) => backup[i] # NoRow \/ i \in byHand \cup cutOff
    /\ \A p \in Proc : At(p, "deleteRow") =>
          ~Stored(src[p]) \/ src[p] \in byHand \cup cutOff

-----------------------------------------------------------------------------
(* Types.                                                                  *)

\* TypeOK in three parts.
LocalTypes ==
    /\ pc \in [Proc -> PC]
    /\ op \in [Proc -> {"none", "create", "restore", "delete", "run"}]
    /\ db \in [Proc -> Name \cup {NoName}]
    /\ id \in [Proc -> Id \cup {0}] /\ src \in [Proc -> Id \cup {0}]
    /\ sum \in [Proc -> Data \cup {NoData}] /\ file \in [Proc -> Data \cup {NoData}]
    /\ todo \in [Proc -> SUBSET Id]
    /\ sched \in [Proc -> SUBSET Schedule] /\ set \in [Proc -> Settings \cup {NoSetting}]
    /\ targets \in [Proc -> SUBSET Name]
    /\ queue \in [Proc -> SUBSET (Schedule \X Settings)]
    /\ cancelled \subseteq Proc

StoreTypes ==
    /\ registered \subseteq Name
    /\ data \in [Name -> Data \cup {NoData}]
    /\ backup \in [Id -> Row]
    /\ artefact \in [Id -> Data \cup {NoData, Damaged}]
    /\ schedule \in [Schedule -> [set : Settings, due : BOOLEAN] \cup {NoSchedule}]

HistoryTypes ==
    /\ clock \in 0..MaxBackups /\ faults \in 0..MaxFaults
    /\ taken \in [Id -> Data \cup {NoData}]
    /\ byHand \subseteq Id /\ cutOff \subseteq Id

\* TypeOK is the conjunction of its three parts.
LEMMA Types == TypeOK <=> LocalTypes /\ StoreTypes /\ HistoryTypes
BY DEF TypeOK, LocalTypes, StoreTypes, HistoryTypes

\* Both kinds of goroutines are goroutines.
LEMMA Procs == Admin \subseteq Proc /\ Ticker \in Proc
BY DEF Proc

\* The types that the steps below use.
Shapes ==
    /\ pc \in [Proc -> PC] /\ db \in [Proc -> Name \cup {NoName}]
    /\ op \in [Proc -> {"none", "create", "restore", "delete", "run"}]
    /\ id \in [Proc -> Id \cup {0}] /\ src \in [Proc -> Id \cup {0}]
    /\ todo \in [Proc -> SUBSET Id]
    /\ file \in [Proc -> Data \cup {NoData}] /\ sum \in [Proc -> Data \cup {NoData}]
    /\ backup \in [Id -> Row] /\ artefact \in [Id -> Data \cup {NoData, Damaged}]
    /\ NoData \notin Data /\ Damaged # NoData
    /\ clock \in Nat /\ Id \subseteq Nat /\ 1..clock \subseteq Id

\* They follow from TypeOK.
LEMMA TypeShapes == TypeOK => Shapes
BY BackupAssumption DEF TypeOK, Shapes, Id

\* The ends of an operation keep the locals typed.
LEMMA ReturnTypes == ASSUME LocalTypes, NEW p \in Proc, Return(p) PROVE LocalTypes'
BY Procs DEF LocalTypes, Return, ForgetBackup, Goto, PC, Id

\* Going on in a run of backups keeps the local types,
LEMMA NextTypes == ASSUME LocalTypes, NEW p \in Proc, NEW l \in PC, NextInRun(p, l) PROVE
       LocalTypes'
BY Procs DEF LocalTypes, NextInRun, ForgetBackup, Goto, PC, Id, deletion, job

\* failing to create one,
LEMMA FailedTypes == ASSUME LocalTypes, NEW p \in Proc, CreateFailed(p) PROVE LocalTypes'
BY ReturnTypes, NextTypes DEF CreateFailed, PC

\* and having created one.
LEMMA DoneTypes == ASSUME LocalTypes, NEW p \in Proc, CreateDone(p) PROVE LocalTypes'
<1>1. ASSUME Step(p, "fetch") PROVE LocalTypes'
  BY <1>1 DEF LocalTypes, Step, Goto, PC, locals, creation, deletion, job
<1>. QED
  BY <1>1, ReturnTypes, NextTypes DEF CreateDone, PC

\* Every step keeps the locals typed,
LEMMA LocalTypesStep == TypeOK /\ [Next]_vars => LocalTypes'
<1>. SUFFICES ASSUME TypeOK, [Next]_vars PROVE LocalTypes'
  OBVIOUS
<1>l. LocalTypes
  BY Types
<1>s. registered \subseteq Name /\ data \in [Name -> Data \cup {NoData}] /\ backup \in [Id -> Row]
      /\ schedule \in [Schedule -> [set : Settings, due : BOOLEAN] \cup {NoSchedule}]
  BY Types DEF StoreTypes
<1>h. clock \in 0..MaxBackups
  BY Types DEF HistoryTypes
<1>. USE BackupAssumption, Procs DEF LocalTypes, At, Goto, Step, stores, history,
       creation, deletion, job, locals, PC, Id
<1>1. ASSUME NEW p \in Proc, Find(p) PROVE LocalTypes'
  <2>1. CASE CreateFailed(p)
    BY <1>1, <1>l, <2>1, FailedTypes
  <2>2. CASE ~CreateFailed(p)
    BY <1>1, <1>l, <1>h, <2>2 DEF Find
  <2>. QED
    BY <2>1, <2>2
<1>2. ASSUME NEW p \in Proc, Insert(p) PROVE LocalTypes'
  <2>1. CASE CreateFailed(p)
    BY <1>l, <2>1, FailedTypes
  <2>2. CASE ~CreateFailed(p)
    BY <1>2, <1>l, <2>2 DEF Insert
  <2>. QED
    BY <2>1, <2>2
<1>3. ASSUME NEW p \in Proc, Snapshot(p) PROVE LocalTypes'
  <2>1. CASE Step(p, "fail")
    BY <1>l, <2>1
  <2>2. CASE ~Step(p, "fail")
    <3>1. data[db[p]] \in Data \cup {NoData}
      BY <1>3, <1>s, <2>2 DEF Snapshot
    <3>. QED
      BY <1>3, <1>l, <2>2, <3>1, SMTT(30) DEF Snapshot
  <2>. QED
    BY <2>1, <2>2
<1>4. ASSUME NEW p \in Proc, Put(p) PROVE LocalTypes'
  BY <1>4, <1>l DEF Put, Upload
<1>5. ASSUME NEW p \in Proc, FinishCompleted(p) PROVE LocalTypes'
  BY <1>5, <1>l, FailedTypes, DoneTypes DEF FinishCompleted, FinishFails
<1>6. ASSUME NEW p \in Proc, FinishFailed(p) PROVE LocalTypes'
  BY <1>6, <1>l, FailedTypes DEF FinishFailed, FinishFails
<1>7. ASSUME NEW p \in Proc, Fetch(p) PROVE LocalTypes'
  <2>1. CASE Return(p)
    BY <1>l, <2>1, ReturnTypes
  <2>2. CASE ~Return(p)
    BY <1>7, <1>l, <2>2 DEF Fetch
  <2>. QED
    BY <2>1, <2>2
<1>8. ASSUME NEW p \in Proc, Replace(p) PROVE LocalTypes'
  BY <1>8, <1>l, ReturnTypes DEF Replace
<1>9. ASSUME NEW p \in Proc, DeleteGet(p) PROVE LocalTypes'
  BY <1>9, <1>l DEF DeleteGet, Take
<1>10. ASSUME NEW p \in Proc, DeleteUnlink(p) PROVE LocalTypes'
  BY <1>10, <1>l DEF DeleteUnlink, CutOff
<1>11. ASSUME NEW p \in Proc, DeleteRow(p) PROVE LocalTypes'
  BY <1>11, <1>l DEF DeleteRow, CutOff
<1>12. ASSUME NEW p \in Proc, DeleteDone(p) PROVE LocalTypes'
  <2>1. CASE Return(p)
    BY <1>l, <2>1, ReturnTypes
  <2>2. CASE ~Return(p)
    BY <1>12, <1>l, <2>2 DEF DeleteDone
  <2>. QED
    BY <2>1, <2>2
<1>13. ASSUME NEW p \in Proc, Targets(p) PROVE LocalTypes'
  <2>1. CASE Return(p)
    BY <1>13, <1>l, <2>1, ReturnTypes
  <2>2. CASE ~Return(p)
    <3>1. set[p].db = NoName \/ set[p].db \in Name
      BY <1>13, <1>s, <2>2 DEF Targets
    <3>. QED
      BY <1>13, <1>l, <1>s, <2>2, <3>1 DEF Targets
  <2>. QED
    BY <2>1, <2>2
<1>14. ASSUME NEW p \in Proc, Target(p) PROVE LocalTypes'
  BY <1>14, <1>l DEF Target
<1>15. ASSUME NEW p \in Proc, Retention(p) PROVE LocalTypes'
  <2>1. \A cutoff : Expired(Completed(db[p]), set[p], cutoff) \subseteq Id
    BY DEF Expired, Completed
  <2>. QED
    BY <1>15, <1>l, <2>1 DEF Retention
<1>16. ASSUME NEW p \in Proc, Record(p) PROVE LocalTypes'
  BY <1>16, <1>l, ReturnTypes DEF Record
<1>17. ASSUME NEW p \in Admin, NEW n \in Name, StartCreate(p, n) PROVE LocalTypes'
  BY <1>17, <1>l DEF StartCreate, Start
<1>18. ASSUME NEW p \in Admin, NEW i \in Id, StartRestore(p, i) PROVE LocalTypes'
  BY <1>18, <1>l, <1>s DEF StartRestore, Start, Row
<1>19. ASSUME NEW p \in Admin, NEW i \in Id, StartDelete(p, i) PROVE LocalTypes'
  BY <1>19, <1>l DEF StartDelete, Start
<1>20. ASSUME NEW p \in Admin, NEW s \in Schedule, StartRun(p, s) PROVE LocalTypes'
  BY <1>20, <1>l, <1>s DEF StartRun, Start, NoSchedule
<1>21. ASSUME ListDue PROVE LocalTypes'
  BY <1>21, <1>l, <1>s DEF ListDue, Due, NoSchedule
<1>22. ASSUME RunDue PROVE LocalTypes'
  BY <1>22, <1>l DEF RunDue
<1>23. ASSUME NEW s \in Schedule, NEW new \in Settings, SetSchedule(s, new) PROVE
       LocalTypes'
  BY <1>23, <1>l DEF SetSchedule
<1>24. ASSUME NEW s \in Schedule, DropSchedule(s) PROVE LocalTypes'
  BY <1>24, <1>l DEF DropSchedule
<1>25. ASSUME NEW s \in Schedule, FallDue(s) PROVE LocalTypes'
  BY <1>25, <1>l DEF FallDue
<1>26. ASSUME NEW n \in Name, NEW d \in Data, Write(n, d) PROVE LocalTypes'
  BY <1>26, <1>l DEF Write
<1>27. ASSUME NEW n \in Name, DropDatabase(n) PROVE LocalTypes'
  BY <1>27, <1>l DEF DropDatabase
<1>28. ASSUME NEW p \in Admin, Cancel(p) PROVE LocalTypes'
  BY <1>28, <1>l DEF Cancel
<1>29. ASSUME NEW i \in Id, Damage(i) PROVE LocalTypes'
  BY <1>29, <1>l DEF Damage
<1>30. ASSUME Crash PROVE LocalTypes'
  BY <1>30, <1>l DEF Crash
<1>31. CASE UNCHANGED vars
  BY <1>31, <1>l DEF vars
<1>. QED
  BY <1>1, <1>2, <1>3, <1>4, <1>5, <1>6, <1>7, <1>8, <1>9, <1>10, <1>11, <1>12, <1>13,
      <1>14, <1>15, <1>16, <1>17, <1>18, <1>19, <1>20, <1>21, <1>22, <1>23, <1>24, <1>25,
      <1>26, <1>27, <1>28, <1>29, <1>30, <1>31, Procs
  DEF Next, Job, Request, Environment, ProcStep, CreateStep, DeleteStep, RunStep

\* the stores,
LEMMA StoreTypesStep == TypeOK /\ [Next]_vars => StoreTypes'
<1>. SUFFICES ASSUME TypeOK, [Next]_vars PROVE StoreTypes'
  OBVIOUS
<1>s. StoreTypes
  BY Types
<1>l. /\ id \in [Proc -> Id \cup {0}] /\ db \in [Proc -> Name \cup {NoName}]
      /\ file \in [Proc -> Data \cup {NoData}]
  BY Types DEF LocalTypes
<1>. USE BackupAssumption DEF StoreTypes, Goto, stores, history
<1>1. ASSUME NEW p \in Proc, Insert(p) PROVE StoreTypes'
  BY <1>1, <1>s, <1>l DEF Insert, Row
<1>2. ASSUME NEW p \in Proc, Put(p) PROVE StoreTypes'
  BY <1>2, <1>s, <1>l DEF Put, Upload
<1>3. ASSUME NEW p \in Proc, FinishCompleted(p) \/ FinishFailed(p) PROVE StoreTypes'
  BY <1>3, <1>s, <1>l DEF FinishCompleted, FinishFailed, FinishFails, Finish, Row
<1>4. ASSUME NEW p \in Proc, Replace(p) PROVE StoreTypes'
  BY <1>4, <1>s, <1>l DEF Replace
<1>5. ASSUME NEW p \in Proc, DeleteUnlink(p) PROVE StoreTypes'
  BY <1>5, <1>s DEF DeleteUnlink
<1>6. ASSUME NEW p \in Proc, DeleteRow(p) PROVE StoreTypes'
  BY <1>6, <1>s DEF DeleteRow, Row, NoRow
<1>7. ASSUME NEW s \in Schedule, NEW new \in Settings, SetSchedule(s, new) PROVE StoreTypes'
  BY <1>7, <1>s DEF SetSchedule
<1>8. ASSUME NEW s \in Schedule, DropSchedule(s) PROVE StoreTypes'
  BY <1>8, <1>s DEF DropSchedule
<1>9. ASSUME NEW s \in Schedule, FallDue(s) PROVE StoreTypes'
  BY <1>9, <1>s DEF FallDue
<1>10. ASSUME NEW p \in Proc, Record(p) PROVE StoreTypes'
  <2>1. \A s \in Schedule : schedule[s] # NoSchedule =>
           [schedule[s] EXCEPT !.due = FALSE] \in [set : Settings, due : BOOLEAN]
    BY <1>s
  <2>2. schedule' \in [Schedule -> [set : Settings, due : BOOLEAN] \cup {NoSchedule}]
    BY <1>10, <1>s, <2>1 DEF Record
  <2>. QED
    BY <1>10, <1>s, <2>2 DEF Record
<1>11. ASSUME NEW n \in Name, NEW d \in Data, Write(n, d) PROVE StoreTypes'
  BY <1>11, <1>s DEF Write
<1>12. ASSUME NEW n \in Name, DropDatabase(n) PROVE StoreTypes'
  BY <1>12, <1>s DEF DropDatabase, NoSchedule
<1>13. ASSUME NEW i \in Id, Damage(i) PROVE StoreTypes'
  BY <1>13, <1>s DEF Damage
<1>14. ASSUME NEW p \in Proc, Find(p) \/ Snapshot(p) \/ Fetch(p) \/ DeleteGet(p) \/
       DeleteDone(p) \/ Targets(p) \/ Target(p) \/ Retention(p) PROVE StoreTypes'
  BY <1>14, <1>s DEF Find, Snapshot, Fetch, DeleteGet, DeleteDone, Targets, Target,
      Retention
<1>15. ASSUME NEW p \in Admin, Request(p) PROVE StoreTypes'
  BY <1>15, <1>s DEF Request, StartCreate, StartRestore, StartDelete, StartRun
<1>16. ASSUME ListDue \/ RunDue \/ Crash \/ \E p \in Admin : Cancel(p) PROVE StoreTypes'
  BY <1>16, <1>s DEF ListDue, RunDue, Crash, Cancel
<1>17. CASE UNCHANGED vars
  BY <1>17, <1>s DEF vars
<1>. QED
  BY <1>1, <1>2, <1>3, <1>4, <1>5, <1>6, <1>7, <1>8, <1>9, <1>10, <1>11, <1>12, <1>13,
      <1>14, <1>15, <1>16, <1>17, Procs
  DEF Next, Job, Request, Environment, ProcStep, CreateStep, DeleteStep, RunStep

\* and the counters and histories.
LEMMA HistoryTypesStep == TypeOK /\ LocalsOK /\ [Next]_vars => HistoryTypes'
<1>. SUFFICES ASSUME TypeOK, LocalsOK, [Next]_vars PROVE HistoryTypes'
  OBVIOUS
<1>h. HistoryTypes
  BY Types
<1>s. registered \subseteq Name /\ data \in [Name -> Data \cup {NoData}]
  BY Types DEF StoreTypes
<1>o. \A p \in Proc : /\ pc[p] \in {"complete", "fail"} => id[p] \in Id
                      /\ pc[p] \in {"unlink", "deleteRow"} => src[p] \in Id
  BY <1>h, BackupAssumption DEF LocalsOK, HistoryTypes, Creating, At, Id
<1>. USE BackupAssumption DEF HistoryTypes, At, Succeeds, Fails, Fault, stores, history
<1>1. ASSUME NEW p \in Proc, Find(p) PROVE HistoryTypes'
  BY <1>1, <1>h DEF Find
<1>2. ASSUME NEW p \in Proc, Snapshot(p) PROVE HistoryTypes'
  BY <1>2, <1>h, <1>s DEF Snapshot
<1>3. ASSUME NEW p \in Proc, FinishCompleted(p) \/ FinishFailed(p) PROVE HistoryTypes'
  <2>1. /\ UNCHANGED <<clock, taken, byHand>> /\ pc[p] \in {"complete", "fail"}
        /\ UNCHANGED cutOff \/ cutOff' = cutOff \cup {id[p]}
        /\ UNCHANGED faults \/ (faults < MaxFaults /\ faults' = faults + 1)
    BY <1>3 DEF FinishCompleted, FinishFailed, FinishFails, CutOff
  <2>2. id[p] \in Id
    BY <2>1, <1>o
  <2>. QED
    BY <2>1, <2>2, <1>h
<1>4. ASSUME NEW p \in Proc, DeleteUnlink(p) PROVE HistoryTypes'
  BY <1>4, <1>h, <1>o DEF DeleteUnlink, CutOff
<1>5. ASSUME NEW p \in Proc, DeleteRow(p) PROVE HistoryTypes'
  BY <1>5, <1>h, <1>o DEF DeleteRow, CutOff
<1>6. ASSUME NEW p \in Proc, Insert(p) \/ Put(p) \/ Fetch(p) \/ Replace(p) \/ DeleteGet(p)
       \/ DeleteDone(p) \/ Targets(p) \/ Target(p) \/ Retention(p) \/ Record(p) PROVE
       HistoryTypes'
  BY <1>6, <1>h DEF Insert, Put, Fetch, Replace, DeleteGet, DeleteDone, Targets, Target,
      Retention, Record
<1>7. ASSUME NEW p \in Admin, Request(p) PROVE HistoryTypes'
  BY <1>7, <1>h DEF Request, StartCreate, StartRestore, StartDelete, StartRun
<1>8. ASSUME ListDue \/ RunDue \/ \E p \in Admin : Cancel(p) PROVE HistoryTypes'
  BY <1>8, <1>h DEF ListDue, RunDue, Cancel
<1>9. ASSUME NEW s \in Schedule, DropSchedule(s) \/ FallDue(s) \/ \E new \in Settings :
       SetSchedule(s, new) PROVE HistoryTypes'
  BY <1>9, <1>h DEF DropSchedule, FallDue, SetSchedule
<1>10. ASSUME NEW n \in Name, DropDatabase(n) \/ \E d \in Data : Write(n, d) PROVE
       HistoryTypes'
  BY <1>10, <1>h DEF DropDatabase, Write
<1>11. ASSUME NEW i \in Id, Damage(i) PROVE HistoryTypes'
  BY <1>11, <1>h DEF Damage
<1>12. ASSUME Crash PROVE HistoryTypes'
  BY <1>12, <1>h DEF Crash
<1>13. CASE UNCHANGED vars
  BY <1>13, <1>h DEF vars
<1>. QED
  BY <1>1, <1>2, <1>3, <1>4, <1>5, <1>6, <1>7, <1>8, <1>9, <1>10, <1>11, <1>12, <1>13, Procs
  DEF Next, Job, Request, Environment, ProcStep, CreateStep, DeleteStep, RunStep

-----------------------------------------------------------------------------
(* What a goroutine works with.                                            *)

\* p is through with a Create, and no other goroutine has moved.
CreateEnded(p) ==
    /\ pc'[p] \in {"idle", "next", "target", "retention", "fetch"}
    /\ pc'[p] = "retention" => op'[p] = "run"
    /\ pc'[p] = "fetch" => id'[p] = id[p] /\ db'[p] = db[p]
    /\ \A q \in Proc \ {p} : /\ pc'[q] = pc[q] /\ op'[q] = op[q] /\ db'[q] = db[q]
                             /\ id'[q] = id[q] /\ file'[q] = file[q]
                             /\ src'[q] = src[q] /\ todo'[q] = todo[q]

\* Both ends of a create end it.
LEMMA CreateOver ==
    ASSUME LocalTypes, NEW p \in Proc, CreateFailed(p) \/ CreateDone(p)
    PROVE  CreateEnded(p)
BY DEF LocalTypes, CreateFailed, CreateDone, CreateEnded, Return, NextInRun, ForgetBackup,
       Step, Goto, locals, creation, deletion, job

\* FinishCompleted and FinishFailed touch one row, and keep what it is about.
LEMMA FinishOver ==
    ASSUME Shapes, LocalTypes, NEW p \in Proc, FinishCompleted(p) \/ FinishFailed(p)
    PROVE  /\ CreateEnded(p)
           /\ \A i \in Id : /\ i # id[p] => backup'[i] = backup[i]
                            /\ backup'[i].db = backup[i].db
                            /\ backup[i] = NoRow <=> backup'[i] = NoRow
           /\ UNCHANGED <<artefact, clock, byHand>>
<1>1. CreateEnded(p)
  BY CreateOver DEF FinishCompleted, FinishFailed, FinishFails
<1>2. Finish(p, "completed") \/ Finish(p, "failed") \/ UNCHANGED backup
  BY DEF FinishCompleted, FinishFailed, FinishFails
<1>3. UNCHANGED <<artefact, clock, byHand>>
  BY DEF FinishCompleted, FinishFailed, FinishFails
<1>. QED
  BY <1>1, <1>2, <1>3 DEF Finish, Shapes, Row, NoRow

\* A step sets the locals that the next one uses.
LEMMA LocalsStep == TypeOK /\ LocalsOK /\ ContentOK /\ [Next]_vars => LocalsOK'
<1>. SUFFICES ASSUME TypeOK, LocalsOK, ContentOK, [Next]_vars PROVE LocalsOK'
  OBVIOUS
<1>l. Shapes
  BY TypeShapes
<1>k. LocalsOK /\ ContentOK
  OBVIOUS
<1>t. LocalTypes
  BY Types
<1>. USE <1>l, <1>k DEF Shapes, LocalsOK, Creating, At, Goto, Step, locals, creation,
       deletion, job
<1>1. ASSUME NEW p \in Proc, Find(p) PROVE LocalsOK'
  <2>1. CASE CreateFailed(p)
    BY <1>1, <2>1, <1>t, CreateOver DEF Find, CreateEnded
  <2>2. CASE ~CreateFailed(p)
    BY <1>1, <2>2 DEF Find
  <2>. QED
    BY <2>1, <2>2
<1>2. ASSUME NEW p \in Proc, Insert(p) PROVE LocalsOK'
  BY <1>2 DEF Insert, KeysExist, CreateFailed, NextInRun, ForgetBackup, Return
<1>3. ASSUME NEW p \in Proc, Snapshot(p) PROVE LocalsOK'
  BY <1>3 DEF Snapshot, ContentOK
<1>4. ASSUME NEW p \in Proc, Put(p) PROVE LocalsOK'
  BY <1>4 DEF Put, Upload
<1>5. ASSUME NEW p \in Proc, FinishCompleted(p) PROVE LocalsOK'
  BY <1>5, <1>t, CreateOver DEF FinishCompleted, FinishFails, CreateEnded
<1>6. ASSUME NEW p \in Proc, FinishFailed(p) PROVE LocalsOK'
  BY <1>6, <1>t, CreateOver DEF FinishFailed, FinishFails, CreateEnded
<1>7. ASSUME NEW p \in Proc, Fetch(p) PROVE LocalsOK'
  BY <1>7 DEF Fetch, Stored, ForgetBackup, Return
<1>8. ASSUME NEW p \in Proc, Replace(p) PROVE LocalsOK'
  BY <1>8 DEF Replace, ForgetBackup, Return
<1>9. ASSUME NEW p \in Proc, DeleteGet(p) PROVE LocalsOK'
  BY <1>9 DEF DeleteGet, Take
<1>10. ASSUME NEW p \in Proc, DeleteUnlink(p) PROVE LocalsOK'
  BY <1>10 DEF DeleteUnlink, CutOff
<1>11. ASSUME NEW p \in Proc, DeleteRow(p) PROVE LocalsOK'
  BY <1>11 DEF DeleteRow, CutOff
<1>12. ASSUME NEW p \in Proc, DeleteDone(p) PROVE LocalsOK'
  BY <1>12 DEF DeleteDone, ForgetBackup, Return
<1>13. ASSUME NEW p \in Proc, Targets(p) PROVE LocalsOK'
  BY <1>13 DEF Targets, ForgetBackup, Return
<1>14. ASSUME NEW p \in Proc, Target(p) PROVE LocalsOK'
  BY <1>14 DEF Target
<1>15. ASSUME NEW p \in Proc, Retention(p) PROVE LocalsOK'
  BY <1>15 DEF Retention
<1>16. ASSUME NEW p \in Proc, Record(p) PROVE LocalsOK'
  BY <1>16 DEF Record, ForgetBackup, Return
<1>17. ASSUME NEW p \in Admin, Request(p) PROVE LocalsOK'
  BY <1>17, Procs DEF Request, StartCreate, StartRestore, StartDelete, StartRun, Start
<1>18. ASSUME ListDue \/ RunDue PROVE LocalsOK'
  BY <1>18, Procs DEF ListDue, RunDue
<1>19. ASSUME Environment PROVE LocalsOK'
  BY <1>19 DEF Environment, DropSchedule, FallDue, SetSchedule, DropDatabase, Write,
      Cancel, Damage, Crash
<1>20. CASE UNCHANGED vars
  BY <1>20 DEF vars
<1>. QED
  BY <1>1, <1>2, <1>3, <1>4, <1>5, <1>6, <1>7, <1>8, <1>9, <1>10, <1>11, <1>12, <1>13,
      <1>14, <1>15, <1>16, <1>17, <1>18, <1>19, <1>20, Procs
  DEF Next, Job, Request, Environment, ProcStep, CreateStep, DeleteStep, RunStep

\* Only a restore and the clients write content, a delete takes the row too.
LEMMA ContentStep == TypeOK /\ LocalsOK /\ ContentOK /\ [Next]_vars => ContentOK'
<1>. SUFFICES ASSUME TypeOK, LocalsOK, ContentOK, [Next]_vars PROVE ContentOK'
  OBVIOUS
<1>k. LocalsOK /\ ContentOK
  OBVIOUS
<1>s. registered \subseteq Name /\ data \in [Name -> Data \cup {NoData}]
  BY Types DEF StoreTypes
<1>. USE <1>k, <1>s DEF ContentOK, At, stores
<1>1. ASSUME NEW p \in Proc, Replace(p) PROVE ContentOK'
  <2>1. At(p, "replace") /\ UNCHANGED registered
    BY <1>1 DEF Replace
  <2>2. file[p] \in Data
    BY <2>1 DEF LocalsOK
  <2>3. UNCHANGED data \/ data' = [data EXCEPT ![db[p]] = file[p]]
    BY <1>1 DEF Replace
  <2>. QED
    BY <2>1, <2>2, <2>3
<1>2. ASSUME NEW p \in Proc, Find(p) \/ Insert(p) \/ Snapshot(p) \/ Put(p) \/
       FinishCompleted(p) \/ FinishFailed(p) \/ Fetch(p) \/ DeleteGet(p) \/
       DeleteUnlink(p) \/ DeleteRow(p) \/ DeleteDone(p) \/ Targets(p) \/ Target(p) \/
       Retention(p) \/ Record(p) PROVE ContentOK'
  BY <1>2 DEF Find, Insert, Snapshot, Put, FinishCompleted, FinishFailed, FinishFails, Fetch,
      DeleteGet, DeleteUnlink, DeleteRow, DeleteDone, Targets, Target, Retention, Record
<1>3. ASSUME NEW p \in Admin, Request(p) PROVE ContentOK'
  BY <1>3 DEF Request, StartCreate, StartRestore, StartDelete, StartRun
<1>4. ASSUME ListDue \/ RunDue PROVE ContentOK'
  BY <1>4 DEF ListDue, RunDue
<1>5. ASSUME Environment PROVE ContentOK'
  BY <1>5 DEF Environment, DropSchedule, FallDue, SetSchedule, DropDatabase, Write,
      Cancel, Damage, Crash
<1>6. CASE UNCHANGED vars
  BY <1>6 DEF vars
<1>. QED
  BY <1>1, <1>2, <1>3, <1>4, <1>5, <1>6, Procs
  DEF Next, Job, Request, Environment, ProcStep, CreateStep, DeleteStep, RunStep

-----------------------------------------------------------------------------
(* Who works on what.                                                      *)

\* A step that begins no backup and leaves rows and times alone.
LEMMA ApartKept ==
    ASSUME Apart, UNCHANGED <<backup, clock>>,
           \A q \in Proc : Creating(q)' => Creating(q) /\ id'[q] = id[q]
    PROVE  Apart'
BY DEF Apart

\* Start times only go up, so no two goroutines take the same backup.
LEMMA ApartStep == TypeOK /\ LocalsOK /\ Apart /\ [Next]_vars => Apart'
<1>. SUFFICES ASSUME TypeOK, LocalsOK, Apart, [Next]_vars PROVE Apart'
  OBVIOUS
<1>l. Shapes
  BY TypeShapes
<1>t. LocalTypes
  BY Types
<1>k. LocalsOK /\ Apart
  OBVIOUS
<1>. USE <1>l, <1>k DEF Shapes, Apart, Creating, LocalsOK, NoRow, At, Goto, Step, stores,
       history, locals, creation, deletion, job
<1>1. ASSUME NEW p \in Proc, Find(p) PROVE Apart'
  <2>1. CASE CreateFailed(p) /\ UNCHANGED clock
    BY <1>1, <2>1, <1>t, CreateOver, SMTT(30) DEF Find, CreateEnded
  <2>2. CASE ~(CreateFailed(p) /\ UNCHANGED clock)
    <3>1. /\ clock' = clock + 1 /\ clock + 1 \in Id /\ UNCHANGED <<stores, history, op, db, src, todo>>
          /\ id' = [id EXCEPT ![p] = clock + 1] /\ pc' = [pc EXCEPT ![p] = "insert"]
      BY <1>1, <2>2, BackupAssumption DEF Find, Id
    <3>2. backup[clock + 1] = NoRow
      BY <3>1
    <3>. QED
      BY <3>1, <3>2
  <2>. QED
    BY <2>1, <2>2
<1>2. ASSUME NEW p \in Proc, Insert(p) PROVE Apart'
  BY <1>2, <1>t, CreateOver, SMTT(30) DEF Insert, CreateEnded, Finish
<1>3. ASSUME NEW p \in Proc, Snapshot(p) PROVE Apart'
  BY <1>3 DEF Snapshot
<1>4. ASSUME NEW p \in Proc, Put(p) PROVE Apart'
  BY <1>4 DEF Put, Upload
<1>5. ASSUME NEW p \in Proc, FinishCompleted(p) PROVE Apart'
  BY <1>5, <1>t, FinishOver, SMTT(30) DEF FinishCompleted, FinishFails, CreateEnded
<1>6. ASSUME NEW p \in Proc, FinishFailed(p) PROVE Apart'
  BY <1>6, <1>t, FinishOver, SMTT(30) DEF FinishFailed, FinishFails, CreateEnded
<1>7. ASSUME NEW p \in Proc, Fetch(p) PROVE Apart'
  <2>1. \A q \in Proc : Creating(q)' => Creating(q) /\ id'[q] = id[q]
    BY <1>7 DEF Fetch, ForgetBackup, Return
  <2>2. UNCHANGED <<backup, clock>>
    BY <1>7 DEF Fetch
  <2>. QED
    BY ONLY <1>k, <2>1, <2>2, ApartKept
<1>8. ASSUME NEW p \in Proc, Replace(p) PROVE Apart'
  <2>1. \A q \in Proc : Creating(q)' => Creating(q) /\ id'[q] = id[q]
    BY <1>8 DEF Replace, ForgetBackup, Return
  <2>2. UNCHANGED <<backup, clock>>
    BY <1>8 DEF Replace
  <2>. QED
    BY ONLY <1>k, <2>1, <2>2, ApartKept
<1>9. ASSUME NEW p \in Proc, DeleteGet(p) PROVE Apart'
  BY <1>9 DEF DeleteGet, Take
<1>10. ASSUME NEW p \in Proc, DeleteUnlink(p) PROVE Apart'
  BY <1>10 DEF DeleteUnlink, CutOff
<1>11. ASSUME NEW p \in Proc, DeleteRow(p) PROVE Apart'
  BY <1>11 DEF DeleteRow, CutOff
<1>12. ASSUME NEW p \in Proc, DeleteDone(p) PROVE Apart'
  <2>1. \A q \in Proc : Creating(q)' => Creating(q) /\ id'[q] = id[q]
    BY <1>12 DEF DeleteDone, ForgetBackup, Return
  <2>2. UNCHANGED <<backup, clock>>
    BY <1>12 DEF DeleteDone
  <2>. QED
    BY ONLY <1>k, <2>1, <2>2, ApartKept
<1>13. ASSUME NEW p \in Proc, Targets(p) PROVE Apart'
  <2>1. \A q \in Proc : Creating(q)' => Creating(q) /\ id'[q] = id[q]
    BY <1>13 DEF Targets, ForgetBackup, Return
  <2>2. UNCHANGED <<backup, clock>>
    BY <1>13 DEF Targets
  <2>. QED
    BY ONLY <1>k, <2>1, <2>2, ApartKept
<1>14. ASSUME NEW p \in Proc, Target(p) PROVE Apart'
  BY <1>14 DEF Target
<1>15. ASSUME NEW p \in Proc, Retention(p) PROVE Apart'
  BY <1>15 DEF Retention, Expired, Completed
<1>16. ASSUME NEW p \in Proc, Record(p) PROVE Apart'
  <2>1. \A q \in Proc : Creating(q)' => Creating(q) /\ id'[q] = id[q]
    BY <1>16 DEF Record, ForgetBackup, Return
  <2>2. UNCHANGED <<backup, clock>>
    BY <1>16 DEF Record
  <2>. QED
    BY ONLY <1>k, <2>1, <2>2, ApartKept
<1>17. ASSUME NEW p \in Admin, Request(p) PROVE Apart'
  BY <1>17, Procs DEF Request, StartCreate, StartRestore, StartDelete, StartRun, Start
<1>18. ASSUME ListDue \/ RunDue PROVE Apart'
  BY <1>18, Procs DEF ListDue, RunDue
<1>19. ASSUME Environment PROVE Apart'
  BY <1>19 DEF Environment, DropSchedule, FallDue, SetSchedule, DropDatabase, Write,
      Cancel, Damage, Crash
<1>20. CASE UNCHANGED vars
  BY <1>20 DEF vars
<1>. QED
  BY <1>1, <1>2, <1>3, <1>4, <1>5, <1>6, <1>7, <1>8, <1>9, <1>10, <1>11, <1>12, <1>13,
      <1>14, <1>15, <1>16, <1>17, <1>18, <1>19, <1>20, Procs
  DEF Next, Job, Request, Environment, ProcStep, CreateStep, DeleteStep, RunStep

\* A step that dooms nothing new and leaves rows and times alone.
LEMMA DoomedKept ==
    ASSUME DoomedOK, UNCHANGED <<backup, clock, byHand>>,
           \A q \in Proc, j \in Id :
               Dooms(q, j)' => Dooms(q, j) /\ op'[q] = op[q] /\ db'[q] = db[q],
           \A q \in Proc : Creating(q)' => Creating(q) /\ id'[q] = id[q]
    PROVE  DoomedOK'
BY DEF DoomedOK, Completed

\* Retention and requests choose among rows that nobody is filling.
LEMMA DoomedStep == TypeOK /\ LocalsOK /\ Apart /\ DoomedOK /\ RowOK /\ [Next]_vars => DoomedOK'
<1>. SUFFICES ASSUME TypeOK, LocalsOK, Apart, DoomedOK, RowOK, [Next]_vars PROVE DoomedOK'
  OBVIOUS
<1>l. Shapes
  BY TypeShapes
<1>t. LocalTypes
  BY Types
<1>k. LocalsOK /\ Apart /\ DoomedOK /\ RowOK
  OBVIOUS
<1>. USE <1>l, <1>k DEF Shapes, DoomedOK, Apart, LocalsOK, Completed, NoRow, Dooms,
       Creating, At, Goto, Step, stores, history, locals, creation, deletion, job
<1>1. ASSUME NEW p \in Proc, Find(p) PROVE DoomedOK'
  <2>1. CASE CreateFailed(p) /\ UNCHANGED clock
    BY <1>1, <2>1, <1>t, CreateOver DEF Find, CreateEnded
  <2>2. CASE ~(CreateFailed(p) /\ UNCHANGED clock)
    <3>1. /\ clock' = clock + 1 /\ clock + 1 \in Id /\ UNCHANGED <<stores, history, op, db, src, todo>>
          /\ id' = [id EXCEPT ![p] = clock + 1] /\ pc' = [pc EXCEPT ![p] = "insert"]
      BY <1>1, <2>2, BackupAssumption DEF Find, Id
    <3>2. backup[clock + 1] = NoRow
      BY <3>1
    <3>. QED
      BY <3>1, <3>2
  <2>. QED
    BY <2>1, <2>2
<1>2. ASSUME NEW p \in Proc, Insert(p) PROVE DoomedOK'
  BY <1>2, <1>t, CreateOver DEF Insert, CreateEnded, Finish
<1>3. ASSUME NEW p \in Proc, Snapshot(p) PROVE DoomedOK'
  BY <1>3 DEF Snapshot
<1>4. ASSUME NEW p \in Proc, Put(p) PROVE DoomedOK'
  BY <1>4 DEF Put, Upload
<1>5. ASSUME NEW p \in Proc, FinishCompleted(p) PROVE DoomedOK'
  <2>1. pc[p] = "complete"
    BY <1>5 DEF FinishCompleted
  <2>2. /\ CreateEnded(p)
        /\ \A i \in Id : /\ i # id[p] => backup'[i] = backup[i]
                         /\ backup'[i].db = backup[i].db
                         /\ backup[i] = NoRow <=> backup'[i] = NoRow
        /\ UNCHANGED <<artefact, clock, byHand>>
    BY <1>5, <1>t, FinishOver
  <2>. QED
    BY <2>1, <2>2, SMTT(30) DEF CreateEnded
<1>6. ASSUME NEW p \in Proc, FinishFailed(p) PROVE DoomedOK'
  <2>1. pc[p] = "fail"
    BY <1>6 DEF FinishFailed
  <2>2. /\ CreateEnded(p)
        /\ \A i \in Id : /\ i # id[p] => backup'[i] = backup[i]
                         /\ backup'[i].db = backup[i].db
                         /\ backup[i] = NoRow <=> backup'[i] = NoRow
        /\ UNCHANGED <<artefact, clock, byHand>>
    BY <1>6, <1>t, FinishOver
  <2>. QED
    BY <2>1, <2>2, SMTT(30) DEF CreateEnded
<1>7. ASSUME NEW p \in Proc, Fetch(p) PROVE DoomedOK'
  <2>1. \A q \in Proc, j \in Id :
             Dooms(q, j)' => Dooms(q, j) /\ op'[q] = op[q] /\ db'[q] = db[q]
    BY <1>7 DEF Fetch, ForgetBackup, Return
  <2>2. \A q \in Proc : Creating(q)' => Creating(q) /\ id'[q] = id[q]
    BY <1>7 DEF Fetch, ForgetBackup, Return
  <2>3. UNCHANGED <<backup, clock, byHand>>
    BY <1>7 DEF Fetch
  <2>. QED
    BY ONLY <1>k, <2>1, <2>2, <2>3, DoomedKept
<1>8. ASSUME NEW p \in Proc, Replace(p) PROVE DoomedOK'
  <2>1. \A q \in Proc, j \in Id :
             Dooms(q, j)' => Dooms(q, j) /\ op'[q] = op[q] /\ db'[q] = db[q]
    BY <1>8 DEF Replace, ForgetBackup, Return
  <2>2. \A q \in Proc : Creating(q)' => Creating(q) /\ id'[q] = id[q]
    BY <1>8 DEF Replace, ForgetBackup, Return
  <2>3. UNCHANGED <<backup, clock, byHand>>
    BY <1>8 DEF Replace
  <2>. QED
    BY ONLY <1>k, <2>1, <2>2, <2>3, DoomedKept
<1>9. ASSUME NEW p \in Proc, DeleteGet(p) PROVE DoomedOK'
  <2>1. UNCHANGED <<backup, clock, byHand, op, db, id>>
    BY <1>9 DEF DeleteGet, Take
  <2>2. PICK i \in Id : /\ Take(p, i) /\ At(p, "retain")
                        /\ \/ UNCHANGED <<pc, src>>
                           \/ Goto(p, "unlink") /\ src' = [src EXCEPT ![p] = i]
    BY <1>9 DEF DeleteGet
  <2>3. \A q \in Proc, j \in Id : Dooms(q, j)' => Dooms(q, j)
    BY <2>1, <2>2 DEF Take
  <2>4. \A q \in Proc : Creating(q)' => Creating(q)
    BY <2>1, <2>2
  <2>. QED
    BY ONLY <1>k, <2>1, <2>3, <2>4, DoomedKept
<1>10. ASSUME NEW p \in Proc, DeleteUnlink(p) PROVE DoomedOK'
  BY <1>10 DEF DeleteUnlink, CutOff
<1>11. ASSUME NEW p \in Proc, DeleteRow(p) PROVE DoomedOK'
  BY <1>11 DEF DeleteRow, CutOff
<1>12. ASSUME NEW p \in Proc, DeleteDone(p) PROVE DoomedOK'
  <2>1. \A q \in Proc, j \in Id :
             Dooms(q, j)' => Dooms(q, j) /\ op'[q] = op[q] /\ db'[q] = db[q]
    BY <1>12 DEF DeleteDone, ForgetBackup, Return
  <2>2. \A q \in Proc : Creating(q)' => Creating(q) /\ id'[q] = id[q]
    BY <1>12 DEF DeleteDone, ForgetBackup, Return
  <2>3. UNCHANGED <<backup, clock, byHand>>
    BY <1>12 DEF DeleteDone
  <2>. QED
    BY ONLY <1>k, <2>1, <2>2, <2>3, DoomedKept
<1>13. ASSUME NEW p \in Proc, Targets(p) PROVE DoomedOK'
  <2>1. \A q \in Proc, j \in Id :
             Dooms(q, j)' => Dooms(q, j) /\ op'[q] = op[q] /\ db'[q] = db[q]
    BY <1>13 DEF Targets, ForgetBackup, Return
  <2>2. \A q \in Proc : Creating(q)' => Creating(q) /\ id'[q] = id[q]
    BY <1>13 DEF Targets, ForgetBackup, Return
  <2>3. UNCHANGED <<backup, clock, byHand>>
    BY <1>13 DEF Targets
  <2>. QED
    BY ONLY <1>k, <2>1, <2>2, <2>3, DoomedKept
<1>14. ASSUME NEW p \in Proc, Target(p) PROVE DoomedOK'
  BY <1>14 DEF Target
<1>15. ASSUME NEW p \in Proc, Retention(p) PROVE DoomedOK'
  <2>1. CASE Step(p, "target")
    <3>1. UNCHANGED <<backup, clock, byHand, op, db, id>>
      BY <1>15 DEF Retention
    <3>2. \A q \in Proc, j \in Id : Dooms(q, j)' => Dooms(q, j)
      BY <1>15, <2>1 DEF Retention
    <3>3. \A q \in Proc : Creating(q)' => Creating(q)
      BY <1>15, <2>1 DEF Retention
    <3>. QED
      BY ONLY <1>k, <3>1, <3>2, <3>3, DoomedKept
  <2>2. CASE ~Step(p, "target")
    <3>1. PICK cutoff : todo' = [todo EXCEPT ![p] = Expired(Completed(db[p]), set[p], cutoff)]
      BY <1>15, <2>2 DEF Retention
    <3>2. Expired(Completed(db[p]), set[p], cutoff) \subseteq Completed(db[p])
      BY DEF Expired
    <3>3. op[p] = "run" /\ At(p, "retention")
      BY <1>15 DEF Retention
    <3>. QED
      BY <1>15, <2>2, <3>1, <3>2, <3>3, SMTT(30) DEF Retention
  <2>. QED
    BY <2>1, <2>2
<1>16. ASSUME NEW p \in Proc, Record(p) PROVE DoomedOK'
  BY <1>16 DEF Record, ForgetBackup, Return
<1>17. ASSUME NEW p \in Admin, Request(p) PROVE DoomedOK'
  BY <1>17, Procs DEF Request, StartCreate, StartRestore, StartDelete, StartRun, Start
<1>18. ASSUME ListDue \/ RunDue PROVE DoomedOK'
  BY <1>18, Procs, SMTT(30) DEF ListDue, RunDue
<1>19. ASSUME Environment PROVE DoomedOK'
  BY <1>19 DEF Environment, DropSchedule, FallDue, SetSchedule, DropDatabase, Write,
      Cancel, Damage, Crash
<1>20. CASE UNCHANGED vars
  BY <1>20 DEF vars
<1>. QED
  BY <1>1, <1>2, <1>3, <1>4, <1>5, <1>6, <1>7, <1>8, <1>9, <1>10, <1>11, <1>12, <1>13, SMTT(30),
      <1>14, <1>15, <1>16, <1>17, <1>18, <1>19, <1>20, Procs
  DEF Next, Job, Request, Environment, ProcStep, CreateStep, DeleteStep, RunStep

\* Nobody but an administrator deletes a backup that is being taken.
LEMMA RowStep == TypeOK /\ LocalsOK /\ Apart /\ DoomedOK /\ RowOK /\ [Next]_vars => RowOK'
<1>. SUFFICES ASSUME TypeOK, LocalsOK, Apart, DoomedOK, RowOK, [Next]_vars PROVE RowOK'
  OBVIOUS
<1>l. Shapes
  BY TypeShapes
<1>t. LocalTypes
  BY Types
<1>k. LocalsOK /\ Apart /\ DoomedOK /\ RowOK
  OBVIOUS
<1>. USE <1>l, <1>k DEF Shapes, RowOK, DoomedOK, Apart, LocalsOK, NoRow, Dooms, Creating,
       Stored, Completed, At, Goto, Step, stores, history, locals, creation, deletion, job
<1>1. ASSUME NEW p \in Proc, Find(p) PROVE RowOK'
  BY <1>1 DEF Find, CreateFailed, NextInRun, ForgetBackup, Return
<1>2. ASSUME NEW p \in Proc, Insert(p) PROVE RowOK'
  BY <1>2, <1>t, CreateOver DEF Insert, CreateEnded, Finish
<1>3. ASSUME NEW p \in Proc, Snapshot(p) PROVE RowOK'
  BY <1>3 DEF Snapshot
<1>4. ASSUME NEW p \in Proc, Put(p) PROVE RowOK'
  <2>1. \A i \in Id : Stored(i) => Stored(i)'
    BY <1>4 DEF Put, Upload
  <2>2. Upload(p) => Stored(id[p])'
    BY <1>4 DEF Put, Upload
  <2>. QED
    BY <1>4, <2>1, <2>2 DEF Put
<1>5. ASSUME NEW p \in Proc, FinishCompleted(p) PROVE RowOK'
  BY <1>5, <1>t, FinishOver DEF FinishCompleted, FinishFails, CreateEnded
<1>6. ASSUME NEW p \in Proc, FinishFailed(p) PROVE RowOK'
  BY <1>6, <1>t, FinishOver DEF FinishFailed, FinishFails, CreateEnded
<1>7. ASSUME NEW p \in Proc, Fetch(p) PROVE RowOK'
  BY <1>7 DEF Fetch, ForgetBackup, Return
<1>8. ASSUME NEW p \in Proc, Replace(p) PROVE RowOK'
  BY <1>8 DEF Replace, ForgetBackup, Return
<1>9. ASSUME NEW p \in Proc, DeleteGet(p) PROVE RowOK'
  BY <1>9 DEF DeleteGet, Take
<1>10. ASSUME NEW p \in Proc, DeleteUnlink(p) PROVE RowOK'
  <2>1. \A i \in Id \ {src[p]} : artefact'[i] = artefact[i]
    BY <1>10 DEF DeleteUnlink
  <2>2. ASSUME NEW q \in Proc, At(q, "complete"), id[q] = src[p] PROVE id[q] \in byHand
    BY <1>10, <2>2 DEF DeleteUnlink
  <2>. QED
    BY <1>10, <2>1, <2>2 DEF DeleteUnlink
<1>11. ASSUME NEW p \in Proc, DeleteRow(p) PROVE RowOK'
  BY <1>11 DEF DeleteRow, CutOff
<1>12. ASSUME NEW p \in Proc, DeleteDone(p) PROVE RowOK'
  BY <1>12 DEF DeleteDone, ForgetBackup, Return
<1>13. ASSUME NEW p \in Proc, Targets(p) PROVE RowOK'
  BY <1>13 DEF Targets, ForgetBackup, Return
<1>14. ASSUME NEW p \in Proc, Target(p) PROVE RowOK'
  BY <1>14 DEF Target
<1>15. ASSUME NEW p \in Proc, Retention(p) PROVE RowOK'
  BY <1>15 DEF Retention, Expired, Completed
<1>16. ASSUME NEW p \in Proc, Record(p) PROVE RowOK'
  BY <1>16 DEF Record, ForgetBackup, Return
<1>17. ASSUME NEW p \in Admin, Request(p) PROVE RowOK'
  BY <1>17, Procs DEF Request, StartCreate, StartRestore, StartDelete, StartRun, Start
<1>18. ASSUME ListDue \/ RunDue PROVE RowOK'
  BY <1>18, Procs DEF ListDue, RunDue
<1>19. ASSUME Environment PROVE RowOK'
  <2>1. \A i \in Id : Stored(i) => Stored(i)'
    BY <1>19 DEF Environment, DropSchedule, FallDue, SetSchedule, DropDatabase, Write,
        Cancel, Damage, Crash
  <2>. QED
    BY <1>19, <2>1 DEF Environment, DropSchedule, FallDue, SetSchedule, DropDatabase,
        Write, Cancel, Damage, Crash
<1>20. CASE UNCHANGED vars
  BY <1>20 DEF vars
<1>. QED
  BY <1>1, <1>2, <1>3, <1>4, <1>5, <1>6, <1>7, <1>8, <1>9, <1>10, <1>11, <1>12, <1>13,
      <1>14, <1>15, <1>16, <1>17, <1>18, <1>19, <1>20, Procs
  DEF Next, Job, Request, Environment, ProcStep, CreateStep, DeleteStep, RunStep

-----------------------------------------------------------------------------
(* The newest backup.                                                      *)

\* What is completed after a step was so before, or has just been stored.
CompletedAgain ==
    \A i \in Id : backup'[i].status = "completed" =>
        \/ backup[i].status = "completed" /\ backup'[i].db = backup[i].db
        \/ KeptOrByHand(backup[i].db, i)'

\* FinishCompleted is the only step that completes a backup.
LEMMA NewlyCompleted == TypeOK /\ LocalsOK /\ Apart /\ DoomedOK /\ RowOK /\ [Next]_vars => CompletedAgain
<1>. SUFFICES ASSUME TypeOK, LocalsOK, Apart, DoomedOK, RowOK, [Next]_vars PROVE
       CompletedAgain
  OBVIOUS
<1>l. Shapes
  BY TypeShapes
<1>k. LocalsOK /\ Apart /\ DoomedOK /\ RowOK
  OBVIOUS
<1>. USE <1>l, <1>k DEF Shapes, CompletedAgain, RowOK, Apart, LocalsOK, NoRow, Creating,
       At, stores
<1>1. ASSUME NEW p \in Proc, Insert(p) PROVE CompletedAgain
  BY <1>1 DEF Insert
<1>2. ASSUME NEW p \in Proc, FinishCompleted(p) PROVE CompletedAgain
  <2>1. \A i \in Id \ {id[p]} : backup'[i] = backup[i]
    BY <1>2 DEF FinishCompleted, FinishFails, Finish
  <2>2. /\ pc[p] = "complete" /\ id[p] \in Id /\ UNCHANGED <<artefact, byHand>>
        /\ Stored(id[p]) \/ id[p] \in byHand
    BY <1>2 DEF FinishCompleted, FinishFails
  <2>3. ASSUME NEW i \in Id, i = id[p], backup'[i].status = "completed"
        PROVE  KeptOrByHand(backup[i].db, i)'
    BY <2>2, <2>3 DEF KeptOrByHand, Completed, Stored
  <2>. QED
    BY <2>1, <2>2, <2>3
<1>3. ASSUME NEW p \in Proc, FinishFailed(p) PROVE CompletedAgain
  BY <1>3 DEF FinishFailed, FinishFails, Finish
<1>4. ASSUME NEW p \in Proc, DeleteRow(p) PROVE CompletedAgain
  BY <1>4 DEF DeleteRow
<1>5. ASSUME NEW p \in Proc, Find(p) \/ Snapshot(p) \/ Put(p) \/ Fetch(p) \/ Replace(p) \/
       DeleteGet(p) \/ DeleteUnlink(p) \/ DeleteDone(p) \/ Targets(p) \/ Target(p) \/
       Retention(p) \/ Record(p) PROVE CompletedAgain
  BY <1>5 DEF Find, Snapshot, Put, Fetch, Replace, DeleteGet, DeleteUnlink, DeleteDone,
      Targets, Target, Retention, Record
<1>6. ASSUME NEW p \in Admin, Request(p) PROVE CompletedAgain
  BY <1>6 DEF Request, StartCreate, StartRestore, StartDelete, StartRun
<1>7. ASSUME ListDue \/ RunDue PROVE CompletedAgain
  BY <1>7 DEF ListDue, RunDue
<1>8. ASSUME Environment PROVE CompletedAgain
  BY <1>8 DEF Environment, DropSchedule, FallDue, SetSchedule, DropDatabase, Write,
      Cancel, Damage, Crash
<1>9. CASE UNCHANGED vars
  BY <1>9 DEF vars
<1>. QED
  BY <1>1, <1>2, <1>3, <1>4, <1>5, <1>6, <1>7, <1>8, <1>9, Procs
  DEF Next, Job, Request, Environment, ProcStep, CreateStep, DeleteStep, RunStep

\* A run dooms no more in a step than it did, or there is a newer completed one.
DoomedAgain ==
    \A p \in Proc, i \in Id : Dooms(p, i)' /\ op'[p] = "run" =>
        /\ db'[p] = db[p]
        /\ \/ Dooms(p, i) /\ op[p] = "run"
           \/ \E j \in Completed(db[p]) : j > i

\* Retention is the only step of a run that dooms backups, and spares the newest.
LEMMA NewlyDoomed == TypeOK /\ LocalsOK /\ Apart /\ DoomedOK /\ RowOK /\ [Next]_vars => DoomedAgain
<1>. SUFFICES ASSUME TypeOK, LocalsOK, Apart, DoomedOK, RowOK, [Next]_vars PROVE DoomedAgain
  OBVIOUS
<1>l. Shapes
  BY TypeShapes
<1>t. LocalTypes
  BY Types
<1>k. LocalsOK /\ Apart /\ DoomedOK /\ RowOK
  OBVIOUS
<1>. USE <1>l, <1>k DEF Shapes, DoomedAgain, LocalsOK, Dooms, At, Goto, Step, stores,
       history, locals, creation, deletion, job
<1>1. ASSUME NEW p \in Proc, Find(p) PROVE DoomedAgain
  BY <1>1, <1>t, CreateOver DEF Find, CreateEnded
<1>2. ASSUME NEW p \in Proc, Insert(p) PROVE DoomedAgain
  BY <1>2, <1>t, CreateOver DEF Insert, CreateEnded
<1>3. ASSUME NEW p \in Proc, Snapshot(p) PROVE DoomedAgain
  BY <1>3 DEF Snapshot
<1>4. ASSUME NEW p \in Proc, Put(p) PROVE DoomedAgain
  BY <1>4 DEF Put, Upload
<1>5. ASSUME NEW p \in Proc, FinishCompleted(p) PROVE DoomedAgain
  BY <1>5, <1>t, CreateOver DEF FinishCompleted, FinishFails, CreateEnded
<1>6. ASSUME NEW p \in Proc, FinishFailed(p) PROVE DoomedAgain
  BY <1>6, <1>t, CreateOver DEF FinishFailed, FinishFails, CreateEnded
<1>7. ASSUME NEW p \in Proc, Fetch(p) PROVE DoomedAgain
  BY <1>7 DEF Fetch, ForgetBackup, Return
<1>8. ASSUME NEW p \in Proc, Replace(p) PROVE DoomedAgain
  BY <1>8 DEF Replace, ForgetBackup, Return
<1>9. ASSUME NEW p \in Proc, DeleteGet(p) PROVE DoomedAgain
  <2>1. UNCHANGED <<op, db>>
    BY <1>9 DEF DeleteGet, Take
  <2>2. PICK i \in Id : /\ Take(p, i) /\ At(p, "retain")
                        /\ \/ UNCHANGED <<pc, src>>
                           \/ Goto(p, "unlink") /\ src' = [src EXCEPT ![p] = i]
    BY <1>9 DEF DeleteGet
  <2>3. \A q \in Proc, j \in Id : Dooms(q, j)' => Dooms(q, j)
    BY <2>1, <2>2 DEF Take
  <2>. QED
    BY <2>1, <2>3
<1>10. ASSUME NEW p \in Proc, DeleteUnlink(p) PROVE DoomedAgain
  BY <1>10 DEF DeleteUnlink, CutOff
<1>11. ASSUME NEW p \in Proc, DeleteRow(p) PROVE DoomedAgain
  BY <1>11 DEF DeleteRow, CutOff
<1>12. ASSUME NEW p \in Proc, DeleteDone(p) PROVE DoomedAgain
  BY <1>12 DEF DeleteDone, ForgetBackup, Return
<1>13. ASSUME NEW p \in Proc, Targets(p) PROVE DoomedAgain
  BY <1>13 DEF Targets, ForgetBackup, Return
<1>14. ASSUME NEW p \in Proc, Target(p) PROVE DoomedAgain
  BY <1>14 DEF Target
<1>15. ASSUME NEW p \in Proc, Retention(p) PROVE DoomedAgain
  <2>1. CASE Step(p, "target")
    BY <1>15, <2>1 DEF Retention
  <2>2. CASE ~Step(p, "target")
    <3>1. PICK cutoff : todo' = [todo EXCEPT ![p] = Expired(Completed(db[p]), set[p], cutoff)]
      BY <1>15, <2>2 DEF Retention
    <3>2. \A i \in Expired(Completed(db[p]), set[p], cutoff) : \E j \in Completed(db[p]) : j > i
      BY DEF Expired
    <3>. QED
      BY <1>15, <2>2, <3>1, <3>2 DEF Retention
  <2>. QED
    BY <2>1, <2>2
<1>16. ASSUME NEW p \in Proc, Record(p) PROVE DoomedAgain
  BY <1>16 DEF Record, ForgetBackup, Return
<1>17. ASSUME NEW p \in Admin, Request(p) PROVE DoomedAgain
  BY <1>17, Procs DEF Request, StartCreate, StartRestore, StartDelete, StartRun, Start
<1>18. ASSUME ListDue \/ RunDue PROVE DoomedAgain
  BY <1>18, Procs DEF ListDue, RunDue
<1>19. ASSUME Environment PROVE DoomedAgain
  BY <1>19 DEF Environment, DropSchedule, FallDue, SetSchedule, DropDatabase, Write,
      Cancel, Damage, Crash
<1>20. CASE UNCHANGED vars
  BY <1>20 DEF vars
<1>. QED
  BY <1>1, <1>2, <1>3, <1>4, <1>5, <1>6, <1>7, <1>8, <1>9, <1>10, <1>11, <1>12, <1>13,
      <1>14, <1>15, <1>16, <1>17, <1>18, <1>19, <1>20, Procs
  DEF Next, Job, Request, Environment, ProcStep, CreateStep, DeleteStep, RunStep

\* A restore that comes to fetch its backup has just stored a snapshot.
FetchingAgain ==
    \A p \in Proc : pc'[p] \in {"fetch", "replace"} =>
        \/ pc[p] \in {"fetch", "replace"} /\ id'[p] = id[p] /\ db'[p] = db[p]
        \/ id[p] \in Id /\ id'[p] = id[p] /\ KeptOrByHand(db[p], id[p])'

\* A restore fetches after its Create is over.
LEMMA NewlyFetching == TypeOK /\ LocalsOK /\ Apart /\ DoomedOK /\ RowOK /\ [Next]_vars => FetchingAgain
<1>. SUFFICES ASSUME TypeOK, LocalsOK, Apart, DoomedOK, RowOK, [Next]_vars PROVE
       FetchingAgain
  OBVIOUS
<1>l. Shapes
  BY TypeShapes
<1>t. LocalTypes
  BY Types
<1>k. LocalsOK /\ Apart /\ DoomedOK /\ RowOK
  OBVIOUS
<1>. USE <1>l, <1>k DEF Shapes, FetchingAgain, RowOK, LocalsOK, Creating, Stored, At,
       Goto, Step, stores, history, locals, creation, deletion, job
<1>1. ASSUME NEW p \in Proc, Find(p) PROVE FetchingAgain
  BY <1>1, <1>t, CreateOver DEF Find, CreateEnded, CreateFailed, NextInRun, ForgetBackup,
      Return
<1>2. ASSUME NEW p \in Proc, Insert(p) PROVE FetchingAgain
  BY <1>2, <1>t, CreateOver DEF Insert, CreateEnded, CreateFailed, NextInRun,
      ForgetBackup, Return
<1>3. ASSUME NEW p \in Proc, Snapshot(p) PROVE FetchingAgain
  BY <1>3 DEF Snapshot
<1>4. ASSUME NEW p \in Proc, Put(p) PROVE FetchingAgain
  BY <1>4 DEF Put, Upload
<1>5. ASSUME NEW p \in Proc, FinishCompleted(p) PROVE FetchingAgain
  <2>1. CASE CreateFailed(p)
    BY <1>5, <2>1, <1>t, CreateOver DEF CreateEnded, CreateFailed, NextInRun,
        ForgetBackup, Return
  <2>2. CASE ~CreateFailed(p)
    <3>1. CreateEnded(p) /\ pc[p] = "complete" /\ id[p] \in Id /\ UNCHANGED <<artefact, byHand>>
      BY <1>5, <1>t, CreateOver DEF FinishCompleted, FinishFails
    <3>2. backup[id[p]] # NoRow => backup'[id[p]].status = "completed" /\ backup'[id[p]].db = backup[id[p]].db
      BY <1>5, <2>2, <3>1 DEF FinishCompleted, FinishFails, Finish
    <3>3. pc'[p] = "fetch" => Stored(id[p])' \/ id[p] \in byHand
      BY <3>1 DEF CreateEnded
    <3>4. pc'[p] = "fetch" => KeptOrByHand(db[p], id[p])'
      BY <3>1, <3>2, <3>3 DEF CreateEnded, KeptOrByHand, Completed
    <3>. QED
      BY <3>1, <3>4 DEF CreateEnded
  <2>. QED
    BY <2>1, <2>2
<1>6. ASSUME NEW p \in Proc, FinishFailed(p) PROVE FetchingAgain
  BY <1>6, <1>t, CreateOver DEF FinishFailed, FinishFails, CreateEnded, CreateFailed, NextInRun,
      ForgetBackup, Return
<1>7. ASSUME NEW p \in Proc, Fetch(p) PROVE FetchingAgain
  BY <1>7 DEF Fetch, ForgetBackup, Return
<1>8. ASSUME NEW p \in Proc, Replace(p) PROVE FetchingAgain
  BY <1>8 DEF Replace, ForgetBackup, Return
<1>9. ASSUME NEW p \in Proc, DeleteGet(p) PROVE FetchingAgain
  BY <1>9 DEF DeleteGet, Take
<1>10. ASSUME NEW p \in Proc, DeleteUnlink(p) PROVE FetchingAgain
  BY <1>10 DEF DeleteUnlink, CutOff
<1>11. ASSUME NEW p \in Proc, DeleteRow(p) PROVE FetchingAgain
  BY <1>11 DEF DeleteRow, CutOff
<1>12. ASSUME NEW p \in Proc, DeleteDone(p) PROVE FetchingAgain
  BY <1>12 DEF DeleteDone, ForgetBackup, Return
<1>13. ASSUME NEW p \in Proc, Targets(p) PROVE FetchingAgain
  BY <1>13 DEF Targets, ForgetBackup, Return
<1>14. ASSUME NEW p \in Proc, Target(p) PROVE FetchingAgain
  BY <1>14 DEF Target
<1>15. ASSUME NEW p \in Proc, Retention(p) PROVE FetchingAgain
  BY <1>15 DEF Retention, Expired, Completed
<1>16. ASSUME NEW p \in Proc, Record(p) PROVE FetchingAgain
  BY <1>16 DEF Record, ForgetBackup, Return
<1>17. ASSUME NEW p \in Admin, Request(p) PROVE FetchingAgain
  BY <1>17, Procs DEF Request, StartCreate, StartRestore, StartDelete, StartRun, Start
<1>18. ASSUME ListDue \/ RunDue PROVE FetchingAgain
  BY <1>18, Procs DEF ListDue, RunDue
<1>19. ASSUME Environment PROVE FetchingAgain
  BY <1>19 DEF Environment, DropSchedule, FallDue, SetSchedule, DropDatabase, Write,
      Cancel, Damage, Crash
<1>20. CASE UNCHANGED vars
  BY <1>20 DEF vars
<1>. QED
  BY <1>1, <1>2, <1>3, <1>4, <1>5, <1>6, <1>7, <1>8, <1>9, <1>10, <1>11, <1>12, <1>13,
      <1>14, <1>15, <1>16, <1>17, <1>18, <1>19, <1>20, Procs
  DEF Next, Job, Request, Environment, ProcStep, CreateStep, DeleteStep, RunStep

\* What a database has to fall back on it keeps, or something newer.
LEMMA StillKept ==
    ASSUME TypeOK, LocalsOK, Apart, DoomedOK, RowOK,
           NewestKept, [Next]_vars, NEW n, NEW j \in Id, KeptOrByHand(n, j)
    PROVE  \E k \in Id : k >= j /\ KeptOrByHand(n, k)'
<1>l. Shapes
  BY TypeShapes
<1>k. LocalsOK /\ Apart /\ DoomedOK /\ RowOK /\ NewestKept
  OBVIOUS
<1>g. KeptOrByHand(n, j)
  OBVIOUS
<1>. DEFINE Kept == \E k \in Id : k >= j /\ KeptOrByHand(n, k)'
<1>. USE <1>l, <1>g DEF Shapes, At, Creating, stores, history
<1>e. Apart /\ LocalsOK
  BY <1>k
<1>1. ASSUME NEW p \in Proc, Insert(p) PROVE Kept
  BY <1>1, <1>e DEF KeptOrByHand, Completed, Stored, Apart, LocalsOK, NoRow, Insert
<1>2. ASSUME NEW p \in Proc, Put(p) PROVE Kept
  BY <1>2, <1>e DEF KeptOrByHand, Completed, Stored, Apart, LocalsOK, NoRow, Put, Upload
<1>3. ASSUME NEW p \in Proc, FinishCompleted(p) \/ FinishFailed(p) PROVE Kept
  BY <1>3, <1>e DEF KeptOrByHand, Completed, Stored, Apart, LocalsOK, NoRow,
      FinishCompleted, FinishFailed, FinishFails, Finish
<1>4. ASSUME NEW p \in Proc, DeleteUnlink(p) PROVE Kept
  <2>1. \A i \in Id \ {src[p]} : KeptOrByHand(n, i) => KeptOrByHand(n, i)'
    BY <1>4 DEF KeptOrByHand, Completed, Stored, DeleteUnlink
  <2>2. /\ UNCHANGED byHand /\ pc[p] \in {"unlink", "deleteRow"}
    BY <1>4 DEF DeleteUnlink
  <2>3. CASE j \in byHand \/ j # src[p]
    BY <2>1, <2>2, <2>3 DEF KeptOrByHand
  <2>4. CASE j \notin byHand /\ j = src[p]
    <3>1. Dooms(p, j)
      BY <2>2, <2>4 DEF Dooms
    <3>2. op[p] = "run" /\ (backup[j] = NoRow \/ j \in Completed(db[p]))
      BY <3>1, <2>4, <1>k DEF DoomedOK
    <3>3. n = db[p]
      BY <3>2, <2>4 DEF KeptOrByHand, Completed, NoRow
    <3>4. \E i \in Id : i > j /\ KeptOrByHand(n, i)
      BY <3>1, <3>2, <3>3, <1>k DEF NewestKept
    <3>. QED
      BY <2>1, <2>4, <3>4
  <2>. QED
    BY <2>3, <2>4
<1>5. ASSUME NEW p \in Proc, DeleteRow(p) PROVE Kept
  <2>1. \A i \in Id \ {src[p]} : KeptOrByHand(n, i) => KeptOrByHand(n, i)'
    BY <1>5 DEF KeptOrByHand, Completed, Stored, DeleteRow
  <2>2. /\ UNCHANGED byHand /\ pc[p] \in {"unlink", "deleteRow"}
    BY <1>5 DEF DeleteRow
  <2>3. CASE j \in byHand \/ j # src[p]
    BY <2>1, <2>2, <2>3 DEF KeptOrByHand
  <2>4. CASE j \notin byHand /\ j = src[p]
    <3>1. Dooms(p, j)
      BY <2>2, <2>4 DEF Dooms
    <3>2. op[p] = "run" /\ (backup[j] = NoRow \/ j \in Completed(db[p]))
      BY <3>1, <2>4, <1>k DEF DoomedOK
    <3>3. n = db[p]
      BY <3>2, <2>4 DEF KeptOrByHand, Completed, NoRow
    <3>4. \E i \in Id : i > j /\ KeptOrByHand(n, i)
      BY <3>1, <3>2, <3>3, <1>k DEF NewestKept
    <3>. QED
      BY <2>1, <2>4, <3>4
  <2>. QED
    BY <2>3, <2>4
<1>6. ASSUME NEW p \in Proc, Find(p) \/ Snapshot(p) \/ Fetch(p) \/ Replace(p) \/
       DeleteGet(p) \/ DeleteDone(p) \/ Targets(p) \/ Target(p) \/ Retention(p) \/
       Record(p) PROVE Kept
  BY <1>6 DEF KeptOrByHand, Completed, Stored, Find, Snapshot, Fetch, Replace, DeleteGet,
      DeleteDone, Targets, Target, Retention, Record
<1>7. ASSUME NEW p \in Admin, Request(p) PROVE Kept
  BY <1>7 DEF KeptOrByHand, Completed, Stored, Request, StartCreate, StartRestore,
      StartDelete, StartRun
<1>8. ASSUME ListDue \/ RunDue PROVE Kept
  BY <1>8 DEF KeptOrByHand, Completed, Stored, ListDue, RunDue
<1>9. ASSUME Environment PROVE Kept
  BY <1>9 DEF KeptOrByHand, Completed, Stored, Environment, DropSchedule, FallDue,
      SetSchedule, DropDatabase, Write, Cancel, Damage, Crash
<1>10. CASE UNCHANGED vars
  BY <1>10 DEF KeptOrByHand, Completed, Stored, vars
<1>. QED
  BY <1>1, <1>2, <1>3, <1>4, <1>5, <1>6, <1>7, <1>8, <1>9, <1>10, Procs
  DEF Next, Job, Request, Environment, ProcStep, CreateStep, DeleteStep, RunStep

\* So whoever relied on a backup can rely on it or on a newer one.
LEMMA NewestStep == TypeOK /\ LocalsOK /\ Apart /\ DoomedOK /\ RowOK /\ NewestKept /\ [Next]_vars => NewestKept'
<1>. SUFFICES ASSUME TypeOK, LocalsOK, Apart, DoomedOK, RowOK, NewestKept, [Next]_vars
       PROVE NewestKept'
  OBVIOUS
<1>i. Id \cup {0} \subseteq Nat
  BY BackupAssumption DEF Id
<1>j. id \in [Proc -> Id \cup {0}]
  BY Types DEF LocalTypes
<1>k. ASSUME NEW n, NEW j \in Id, KeptOrByHand(n, j)
      PROVE  \E k \in Id : k >= j /\ KeptOrByHand(n, k)'
  BY <1>k, StillKept
<1>1. ASSUME NEW i \in Id, backup'[i].status = "completed"
      PROVE  (\E j \in Id : j >= i /\ KeptOrByHand(backup[i].db, j))'
  <2>1. CASE KeptOrByHand(backup[i].db, i)'
    BY <2>1, <1>i
  <2>2. CASE backup[i].status = "completed" /\ backup'[i].db = backup[i].db
    <3>1. PICK n : n = backup[i].db
      OBVIOUS
    <3>2. PICK j \in Id : j >= i /\ KeptOrByHand(n, j)
      BY <2>2, <3>1 DEF NewestKept
    <3>3. PICK k \in Id : k >= j /\ KeptOrByHand(n, k)'
      BY <3>2, <1>k
    <3>4. KeptOrByHand(backup[i].db, k)'
      BY <3>3, <3>1, <2>2 DEF KeptOrByHand, Completed
    <3>. QED
      BY <3>2, <3>3, <3>4, <1>i
  <2>. QED
    BY <1>1, <2>1, <2>2, NewlyCompleted DEF CompletedAgain
<1>2. ASSUME NEW p \in Proc, NEW i \in Id, Dooms(p, i)', op'[p] = "run"
      PROVE  (\E j \in Id : j > i /\ KeptOrByHand(db[p], j))'
  <2>1. PICK n : n = db[p]
    OBVIOUS
  <2>2. db'[p] = n
    BY <1>2, <2>1, NewlyDoomed DEF DoomedAgain
  <2>3. PICK j \in Id : j > i /\ KeptOrByHand(n, j)
    <3>1. CASE Dooms(p, i) /\ op[p] = "run"
      BY <2>1, <3>1 DEF NewestKept
    <3>2. CASE \E j \in Completed(db[p]) : j > i
      <4>1. PICK h \in Completed(db[p]) : h > i
        BY <3>2
      <4>2. h \in Id /\ backup[h].status = "completed" /\ backup[h].db = n
        BY <4>1, <2>1 DEF Completed
      <4>3. PICK j \in Id : j >= h /\ KeptOrByHand(n, j)
        BY <4>2 DEF NewestKept
      <4>4. j > i
        BY <4>1, <4>2, <4>3, <1>i
      <4>. QED
        BY <4>3, <4>4
    <3>. QED
      BY <1>2, <3>1, <3>2, NewlyDoomed DEF DoomedAgain
  <2>4. PICK k \in Id : k >= j /\ KeptOrByHand(n, k)'
    BY <2>3, <1>k
  <2>5. KeptOrByHand(db[p], k)'
    BY <2>2, <2>4 DEF KeptOrByHand, Completed
  <2>. QED
    BY <2>3, <2>4, <2>5, <1>i
<1>3. ASSUME NEW p \in Proc, pc'[p] \in {"fetch", "replace"}
      PROVE  (\E j \in Id : j >= id[p] /\ KeptOrByHand(db[p], j))'
  <2>1. CASE id[p] \in Id /\ id'[p] = id[p] /\ KeptOrByHand(db[p], id[p])'
    <3>1. PICK k \in Id : k = id[p]
      BY <2>1
    <3>2. k >= id'[p] /\ KeptOrByHand(db[p], k)'
      BY <2>1, <3>1, <1>i DEF KeptOrByHand, Completed
    <3>. QED
      BY <3>2
  <2>2. CASE pc[p] \in {"fetch", "replace"} /\ id'[p] = id[p] /\ db'[p] = db[p]
    <3>1. PICK n : n = db[p]
      OBVIOUS
    <3>2. PICK j \in Id : j >= id[p] /\ KeptOrByHand(n, j)
      BY <2>2, <3>1 DEF NewestKept
    <3>3. PICK k \in Id : k >= j /\ KeptOrByHand(n, k)'
      BY <3>2, <1>k
    <3>4. KeptOrByHand(db[p], k)'
      BY <3>3, <3>1, <2>2 DEF KeptOrByHand, Completed
    <3>5. id[p] \in Id \cup {0}
      BY <1>j
    <3>6. id[p] \in Nat /\ j \in Nat /\ k \in Nat
      BY <3>5, <1>i
    <3>7. k >= id'[p]
      BY <2>2, <3>2, <3>3, <3>6
    <3>. QED
      BY <3>4, <3>7
  <2>. QED
    BY <1>3, <2>1, <2>2, NewlyFetching DEF FetchingAgain
<1>. QED
  BY <1>1, <1>2, <1>3 DEF NewestKept

-----------------------------------------------------------------------------
(* What is stored and what is restored.                                    *)

\* The end of a Create leaves what p restores alone, or ends the restore.
CreateLeaves(p) ==
    /\ \A q \in Proc \ {p} : sum'[q] = sum[q]
    /\ op'[p] = "restore" => op[p] = "restore" /\ src'[p] = src[p] /\ sum'[p] = sum[p]
    /\ pc'[p] = "fetch" => op'[p] = "restore"

\* Both ends of a create leave what a create leaves.
LEMMA CreateLeft ==
    ASSUME LocalTypes, NEW p \in Proc, CreateFailed(p) \/ CreateDone(p)
    PROVE  CreateLeaves(p)
BY DEF LocalTypes, CreateFailed, CreateDone, CreateLeaves, Return, NextInRun, ForgetBackup,
       Step, Goto, locals, creation, deletion, job

\* The snapshot of a backup is copied once, uploaded and recorded.
LEMMA TakenStep == TypeOK /\ LocalsOK /\ ContentOK /\ Apart /\ TakenOK /\ [Next]_vars => TakenOK'
<1>. SUFFICES ASSUME TypeOK, LocalsOK, ContentOK, Apart, TakenOK, [Next]_vars PROVE TakenOK'
  OBVIOUS
<1>l. Shapes
  BY TypeShapes
<1>t. LocalTypes
  BY Types
<1>h. taken \in [Id -> Data \cup {NoData}]
  BY Types DEF HistoryTypes
<1>k. LocalsOK /\ ContentOK /\ Apart /\ TakenOK
  OBVIOUS
<1>. USE <1>l, <1>k DEF Shapes, TakenOK, Apart, LocalsOK, ContentOK, NoRow, Creating,
       At, Goto, Step, stores, history, locals, creation, deletion, job
<1>1. ASSUME NEW p \in Proc, Find(p) PROVE TakenOK'
  BY <1>1 DEF Find, CreateFailed, NextInRun, ForgetBackup, Return
<1>2. ASSUME NEW p \in Proc, Insert(p) PROVE TakenOK'
  BY <1>2, <1>t, CreateOver DEF Insert, CreateEnded, Finish
<1>3. ASSUME NEW p \in Proc, Snapshot(p) PROVE TakenOK'
  <2>1. CASE Step(p, "fail")
    BY <1>3, <2>1 DEF Snapshot
  <2>2. CASE ~Step(p, "fail")
    <3>1. /\ taken' = [taken EXCEPT ![id[p]] = data[db[p]]]
          /\ file' = [file EXCEPT ![p] = data[db[p]]] /\ pc' = [pc EXCEPT ![p] = "put"]
          /\ At(p, "snapshot") /\ data[db[p]] \in Data /\ UNCHANGED <<backup, id>>
      BY <1>3, <2>2 DEF Snapshot
    <3>2. id[p] \in Id /\ taken \in [Id -> Data \cup {NoData}]
      BY <1>h, <3>1
    <3>3. taken'[id[p]] = data[db[p]] /\ \A i \in Id \ {id[p]} : taken'[i] = taken[i]
      BY <3>1, <3>2
    <3>4. \A q \in Proc \ {p} : Creating(q) => id[q] # id[p]
      BY <3>1
    <3>5. ASSUME NEW q \in Proc, pc'[q] \in {"put", "complete"}
          PROVE  file'[q] = taken'[id'[q]] /\ file'[q] \in Data
      <4>1. CASE q = p
        BY <3>1, <3>3, <4>1
      <4>2. CASE q # p
        <5>1. pc'[q] = pc[q] /\ file'[q] = file[q] /\ id'[q] = id[q]
          BY <3>1, <4>2
        <5>2. id[q] \in Id \ {id[p]} /\ file[q] = taken[id[q]] /\ file[q] \in Data
          BY <3>4, <3>5, <4>2, <5>1
        <5>. QED
          BY ONLY <3>3, <5>1, <5>2
      <4>. QED
        BY <4>1, <4>2
    <3>6. ASSUME NEW i \in Id, backup'[i].status = "completed"
          PROVE  backup'[i].sum = taken'[i] /\ backup'[i].sum \in Data
      <4>1. Creating(p) /\ backup'[i] = backup[i]
        BY <3>1
      <4>2. backup[id[p]].status # "completed"
        BY <4>1
      <4>3. taken'[i] = taken[i]
        BY <3>3, <3>6, <4>1, <4>2
      <4>. QED
        BY <3>6, <4>1, <4>3
    <3>. QED
      BY ONLY <3>5, <3>6 DEF TakenOK
  <2>. QED
    BY <2>1, <2>2
<1>4. ASSUME NEW p \in Proc, Put(p) PROVE TakenOK'
  BY <1>4 DEF Put, Upload
<1>5. ASSUME NEW p \in Proc, FinishCompleted(p) PROVE TakenOK'
  <2>1. CreateEnded(p) /\ \A i \in Id \ {id[p]} : backup'[i] = backup[i]
    BY <1>5, <1>t, FinishOver
  <2>2. At(p, "complete") /\ UNCHANGED taken
    BY <1>5 DEF FinishCompleted, FinishFails
  <2>3. \A q \in Proc : pc'[q] \in {"put", "complete"} =>
           pc'[q] = pc[q] /\ file'[q] = file[q] /\ id'[q] = id[q]
    BY <2>1 DEF CreateEnded
  <2>4. backup'[id[p]].status = "completed" => backup'[id[p]].sum = file[p]
    BY <1>5, <2>2 DEF FinishCompleted, FinishFails, Finish
  <2>5. id[p] \in Id /\ file[p] = taken[id[p]] /\ file[p] \in Data
    BY <2>2
  <2>6. ASSUME NEW i \in Id, backup'[i].status = "completed"
        PROVE  backup'[i].sum = taken[i] /\ backup'[i].sum \in Data
    BY <2>1, <2>4, <2>5, <2>6
  <2>. QED
    BY <2>2, <2>3, <2>6
<1>6. ASSUME NEW p \in Proc, FinishFailed(p) PROVE TakenOK'
  <2>1. CreateEnded(p) /\ \A i \in Id \ {id[p]} : backup'[i] = backup[i]
    BY <1>6, <1>t, FinishOver
  <2>2. At(p, "fail") /\ UNCHANGED taken
    BY <1>6 DEF FinishFailed, FinishFails
  <2>3. \A q \in Proc : pc'[q] \in {"put", "complete"} =>
           pc'[q] = pc[q] /\ file'[q] = file[q] /\ id'[q] = id[q]
    BY <2>1 DEF CreateEnded
  <2>4. backup'[id[p]].status # "completed"
    BY <1>6, <2>2 DEF FinishFailed, FinishFails, Finish
  <2>. QED
    BY <2>1, <2>2, <2>3, <2>4
<1>7. ASSUME NEW p \in Proc, Fetch(p) PROVE TakenOK'
  BY <1>7 DEF Fetch, ForgetBackup, Return
<1>8. ASSUME NEW p \in Proc, Replace(p) PROVE TakenOK'
  BY <1>8 DEF Replace, ForgetBackup, Return
<1>9. ASSUME NEW p \in Proc, DeleteGet(p) PROVE TakenOK'
  BY <1>9 DEF DeleteGet, Take
<1>10. ASSUME NEW p \in Proc, DeleteUnlink(p) PROVE TakenOK'
  BY <1>10 DEF DeleteUnlink, CutOff
<1>11. ASSUME NEW p \in Proc, DeleteRow(p) PROVE TakenOK'
  BY <1>11 DEF DeleteRow, CutOff
<1>12. ASSUME NEW p \in Proc, DeleteDone(p) PROVE TakenOK'
  BY <1>12 DEF DeleteDone, ForgetBackup, Return
<1>13. ASSUME NEW p \in Proc, Targets(p) PROVE TakenOK'
  <2>1. \A q \in Proc : pc'[q] \in {"put", "complete"} =>
           pc'[q] = pc[q] /\ file'[q] = file[q] /\ id'[q] = id[q]
    BY <1>13 DEF Targets, ForgetBackup, Return
  <2>2. UNCHANGED <<backup, taken>>
    BY <1>13 DEF Targets
  <2>. QED
    BY <2>1, <2>2
<1>14. ASSUME NEW p \in Proc, Target(p) PROVE TakenOK'
  BY <1>14 DEF Target
<1>15. ASSUME NEW p \in Proc, Retention(p) PROVE TakenOK'
  BY <1>15 DEF Retention
<1>16. ASSUME NEW p \in Proc, Record(p) PROVE TakenOK'
  BY <1>16 DEF Record, ForgetBackup, Return
<1>17. ASSUME NEW p \in Admin, Request(p) PROVE TakenOK'
  BY <1>17, Procs DEF Request, StartCreate, StartRestore, StartDelete, StartRun, Start
<1>18. ASSUME ListDue \/ RunDue PROVE TakenOK'
  BY <1>18, Procs DEF ListDue, RunDue
<1>19. ASSUME Environment PROVE TakenOK'
  BY <1>19 DEF Environment, DropSchedule, FallDue, SetSchedule, DropDatabase, Write,
      Cancel, Damage, Crash
<1>20. CASE UNCHANGED vars
  BY <1>20 DEF vars
<1>. QED
  BY <1>1, <1>2, <1>3, <1>4, <1>5, <1>6, <1>7, <1>8, <1>9, <1>10, <1>11, <1>12, <1>13,
      <1>14, <1>15, <1>16, <1>17, <1>18, <1>19, <1>20, Procs
  DEF Next, Job, Request, Environment, ProcStep, CreateStep, DeleteStep, RunStep

\* A step that starts no restore and gives a restore nothing new.
LEMMA RestoreKept ==
    ASSUME RestoreOK, UNCHANGED <<clock, taken>>,
           \A q \in Proc :
              /\ op'[q] = "restore" => op[q] = "restore" /\ src'[q] = src[q] /\ sum'[q] = sum[q]
              /\ pc'[q] \in {"fetch", "replace"} => op'[q] = "restore"
              /\ At(q, "replace")' => At(q, "replace") /\ file'[q] = file[q]
              /\ Creating(q)' => Creating(q) /\ id'[q] = id[q]
    PROVE  RestoreOK'
BY DEF RestoreOK, At

\* A restore reads a completed row, which no later backup changes.
LEMMA RestoreStep == TypeOK /\ LocalsOK /\ Apart /\ DoomedOK /\ TakenOK /\ RestoreOK /\ [Next]_vars => RestoreOK'
<1>. SUFFICES ASSUME TypeOK, LocalsOK, Apart, DoomedOK, TakenOK, RestoreOK, [Next]_vars PROVE RestoreOK'
  OBVIOUS
<1>l. Shapes
  BY TypeShapes
<1>t. LocalTypes
  BY Types
<1>h. taken \in [Id -> Data \cup {NoData}]
  BY Types DEF HistoryTypes
<1>k. LocalsOK /\ Apart /\ DoomedOK /\ TakenOK /\ RestoreOK
  OBVIOUS
<1>. USE <1>l, <1>k DEF Shapes, RestoreOK, TakenOK, DoomedOK, Dooms, Apart, LocalsOK, NoRow,
       Creating, At, Goto, Step, stores, history, locals, creation, deletion, job
<1>1. ASSUME NEW p \in Proc, Find(p) PROVE RestoreOK'
  <2>1. CASE CreateFailed(p) /\ UNCHANGED clock
    <3>1. CreateEnded(p) /\ CreateLeaves(p) /\ UNCHANGED <<clock, taken>>
      BY <1>1, <1>t, <2>1, CreateOver, CreateLeft DEF Find
    <3>2. pc'[p] # "replace" /\ (pc'[p] = "fetch" => op'[p] = "restore")
      BY <3>1 DEF CreateEnded, CreateLeaves
    <3>3. op'[p] = "restore" => op[p] = "restore" /\ src'[p] = src[p] /\ sum'[p] = sum[p]
      BY <3>1 DEF CreateLeaves
    <3>. QED
      BY ONLY <1>k, <3>1, <3>2, <3>3, RestoreKept DEF CreateEnded, CreateLeaves, Creating, At
  <2>2. CASE ~(CreateFailed(p) /\ UNCHANGED clock)
    <3>1. /\ clock' = clock + 1 /\ UNCHANGED <<taken, op, src, sum, file>>
          /\ id' = [id EXCEPT ![p] = clock + 1] /\ pc' = [pc EXCEPT ![p] = "insert"]
      BY <1>1, <2>2 DEF Find
    <3>2. \A q \in Proc : op[q] = "restore" => src[q] \in 1..clock /\ src[q] # clock + 1
      OBVIOUS
    <3>. QED
      BY <3>1, <3>2
  <2>. QED
    BY <2>1, <2>2
<1>2. ASSUME NEW p \in Proc, Insert(p) PROVE RestoreOK'
  <2>1. CASE CreateFailed(p)
    <3>1. CreateEnded(p) /\ CreateLeaves(p) /\ UNCHANGED <<clock, taken>>
      BY <1>2, <1>t, <2>1, CreateOver, CreateLeft DEF Insert
    <3>2. pc'[p] # "replace" /\ (pc'[p] = "fetch" => op'[p] = "restore")
      BY <3>1 DEF CreateEnded, CreateLeaves
    <3>3. op'[p] = "restore" => op[p] = "restore" /\ src'[p] = src[p] /\ sum'[p] = sum[p]
      BY <3>1 DEF CreateLeaves
    <3>. QED
      BY ONLY <1>k, <3>1, <3>2, <3>3, RestoreKept DEF CreateEnded, CreateLeaves, Creating, At
  <2>2. CASE ~CreateFailed(p)
    BY <1>2, <2>2 DEF Insert
  <2>. QED
    BY <2>1, <2>2
<1>3. ASSUME NEW p \in Proc, Snapshot(p) PROVE RestoreOK'
  <2>1. /\ At(p, "snapshot") /\ UNCHANGED <<clock, op, db, id, src, sum>>
        /\ pc' = [pc EXCEPT ![p] = pc'[p]] /\ pc'[p] \in {"put", "fail"}
        /\ \A q \in Proc \ {p} : file'[q] = file[q]
    BY <1>3 DEF Snapshot
  <2>2. \A i \in Id \ {id[p]} : taken'[i] = taken[i]
    BY <1>3, <1>h DEF Snapshot
  <2>3. \A q \in Proc : op[q] = "restore" => src[q] \in Id \ {id[p]}
    BY <2>1
  <2>. QED
    BY <2>1, <2>2, <2>3
<1>4. ASSUME NEW p \in Proc, Put(p) PROVE RestoreOK'
  BY <1>4 DEF Put, Upload
<1>5. ASSUME NEW p \in Proc, FinishCompleted(p) PROVE RestoreOK'
  <2>1. CreateEnded(p) /\ CreateLeaves(p) /\ UNCHANGED <<clock, taken>>
    BY <1>5, <1>t, CreateOver, CreateLeft DEF FinishCompleted, FinishFails
  <2>2. pc'[p] # "replace" /\ (pc'[p] = "fetch" => op'[p] = "restore")
    BY <2>1 DEF CreateEnded, CreateLeaves
  <2>3. op'[p] = "restore" => op[p] = "restore" /\ src'[p] = src[p] /\ sum'[p] = sum[p]
    BY <2>1 DEF CreateLeaves
  <2>. QED
    BY ONLY <1>k, <2>1, <2>2, <2>3, RestoreKept DEF CreateEnded, CreateLeaves, Creating, At
<1>6. ASSUME NEW p \in Proc, FinishFailed(p) PROVE RestoreOK'
  <2>1. CreateEnded(p) /\ CreateLeaves(p) /\ UNCHANGED <<clock, taken>>
    BY <1>6, <1>t, CreateOver, CreateLeft DEF FinishFailed, FinishFails
  <2>2. pc'[p] # "replace" /\ (pc'[p] = "fetch" => op'[p] = "restore")
    BY <2>1 DEF CreateEnded, CreateLeaves
  <2>3. op'[p] = "restore" => op[p] = "restore" /\ src'[p] = src[p] /\ sum'[p] = sum[p]
    BY <2>1 DEF CreateLeaves
  <2>. QED
    BY ONLY <1>k, <2>1, <2>2, <2>3, RestoreKept DEF CreateEnded, CreateLeaves, Creating, At
<1>7. ASSUME NEW p \in Proc, Fetch(p) PROVE RestoreOK'
  BY <1>7 DEF Fetch, ForgetBackup, Return
<1>8. ASSUME NEW p \in Proc, Replace(p) PROVE RestoreOK'
  BY <1>8 DEF Replace, ForgetBackup, Return
<1>9. ASSUME NEW p \in Proc, DeleteGet(p) PROVE RestoreOK'
  BY <1>9 DEF DeleteGet, Take
<1>10. ASSUME NEW p \in Proc, DeleteUnlink(p) PROVE RestoreOK'
  BY <1>10 DEF DeleteUnlink, CutOff
<1>11. ASSUME NEW p \in Proc, DeleteRow(p) PROVE RestoreOK'
  BY <1>11 DEF DeleteRow, CutOff
<1>12. ASSUME NEW p \in Proc, DeleteDone(p) PROVE RestoreOK'
  BY <1>12 DEF DeleteDone, ForgetBackup, Return
<1>13. ASSUME NEW p \in Proc, Targets(p) PROVE RestoreOK'
  BY <1>13 DEF Targets, ForgetBackup, Return
<1>14. ASSUME NEW p \in Proc, Target(p) PROVE RestoreOK'
  BY <1>14 DEF Target
<1>15. ASSUME NEW p \in Proc, Retention(p) PROVE RestoreOK'
  BY <1>15 DEF Retention
<1>16. ASSUME NEW p \in Proc, Record(p) PROVE RestoreOK'
  BY <1>16 DEF Record, ForgetBackup, Return
<1>17. ASSUME NEW p \in Admin, Request(p) PROVE RestoreOK'
  <2>1. ASSUME NEW i \in Id, StartRestore(p, i) PROVE RestoreOK'
    <3>c. backup[i].status = "completed"
      BY <2>1 DEF StartRestore
    <3>d. i \in 1..clock
      <4>1. ~(i > clock)
        BY <3>c
      <4>. QED
        BY <4>1, BackupAssumption DEF Id
    <3>1. /\ i \in 1..clock /\ backup[i].sum = taken[i] /\ backup[i].sum \in Data
          /\ \A q \in Proc : Creating(q) => id[q] # i
      BY <3>c, <3>d
    <3>2. /\ op' = [op EXCEPT ![p] = "restore"] /\ src' = [src EXCEPT ![p] = i]
          /\ sum' = [sum EXCEPT ![p] = backup[i].sum]
          /\ pc' = [pc EXCEPT ![p] = "find"] /\ UNCHANGED <<clock, taken, id, file>>
      BY <2>1 DEF StartRestore, Start
    <3>. QED
      BY <3>1, <3>2, Procs
  <2>2. ASSUME (\E n \in Name : StartCreate(p, n)) \/ (\E i \in Id : StartDelete(p, i))
              \/ (\E s \in Schedule : StartRun(p, s)) PROVE RestoreOK'
    BY <2>2, Procs DEF StartCreate, StartDelete, StartRun, Start
  <2>. QED
    BY <1>17, <2>1, <2>2 DEF Request
<1>18. ASSUME ListDue \/ RunDue PROVE RestoreOK'
  BY <1>18, Procs DEF ListDue, RunDue
<1>19. ASSUME Environment PROVE RestoreOK'
  BY <1>19 DEF Environment, DropSchedule, FallDue, SetSchedule, DropDatabase, Write,
      Cancel, Damage, Crash
<1>20. CASE UNCHANGED vars
  BY <1>20 DEF vars
<1>. QED
  BY <1>1, <1>2, <1>3, <1>4, <1>5, <1>6, <1>7, <1>8, <1>9, <1>10, <1>11, <1>12, <1>13,
      <1>14, <1>15, <1>16, <1>17, <1>18, <1>19, <1>20, Procs
  DEF Next, Job, Request, Environment, ProcStep, CreateStep, DeleteStep, RunStep

\* A step that leaves rows and artefacts alone, and uploads and deletes nothing.
LEMMA StoresKept ==
    ASSUME StoresAgree, UNCHANGED <<backup, artefact>>,
           byHand \subseteq byHand', cutOff \subseteq cutOff',
           \A q \in Proc :
              /\ At(q, "deleteRow") <=> At(q, "deleteRow")'
              /\ At(q, "deleteRow") => src'[q] = src[q]
              /\ At(q, "complete")' => At(q, "complete") /\ id'[q] = id[q]
    PROVE  StoresAgree'
BY DEF StoresAgree, Completing, Unlinked, Stored, At

\* No step leaves a row without its artefact or an artefact without its row
\* but by a creation or a deletion that breaks off.
LEMMA StoresStep == TypeOK /\ LocalsOK /\ Apart /\ DoomedOK /\ RowOK /\ StoresAgree /\ [Next]_vars => StoresAgree'
<1>. SUFFICES ASSUME TypeOK, LocalsOK, Apart, DoomedOK, RowOK, StoresAgree, [Next]_vars PROVE StoresAgree'
  OBVIOUS
<1>l. Shapes
  BY TypeShapes
<1>t. LocalTypes
  BY Types
<1>k. LocalsOK /\ Apart /\ DoomedOK /\ RowOK /\ StoresAgree
  OBVIOUS
<1>. USE <1>l, <1>k DEF Shapes, StoresAgree, Completing, Unlinked, Stored, RowOK, DoomedOK,
       Dooms, Apart, LocalsOK, NoRow, Creating, At, Goto, Step, stores, history, locals,
       creation, deletion, job
<1>1. ASSUME NEW p \in Proc, Find(p) PROVE StoresAgree'
  <2>1. CASE CreateFailed(p) /\ UNCHANGED clock
    <3>1. CreateEnded(p) /\ At(p, "find") /\ UNCHANGED <<backup, artefact, byHand, cutOff>>
      BY <1>1, <1>t, <2>1, CreateOver DEF Find
    <3>2. \A q \in Proc : /\ At(q, "deleteRow") <=> At(q, "deleteRow")'
                          /\ At(q, "deleteRow") => src'[q] = src[q]
                          /\ At(q, "complete")' => At(q, "complete") /\ id'[q] = id[q]
      BY <3>1 DEF CreateEnded
    <3>. HIDE DEF StoresAgree, At
    <3>. QED
      BY ONLY <1>k, <3>1, <3>2, StoresKept
  <2>2. CASE ~(CreateFailed(p) /\ UNCHANGED clock)
    <3>1. /\ At(p, "find") /\ UNCHANGED <<backup, artefact, byHand, cutOff, src>>
          /\ id' = [id EXCEPT ![p] = clock + 1] /\ pc' = [pc EXCEPT ![p] = "insert"]
      BY <1>1, <2>2 DEF Find
    <3>2. \A q \in Proc : /\ At(q, "deleteRow") <=> At(q, "deleteRow")'
                          /\ At(q, "complete")' => At(q, "complete") /\ id'[q] = id[q]
      BY <3>1
    <3>. HIDE DEF StoresAgree, At
    <3>. QED
      BY ONLY <1>k, <3>1, <3>2, StoresKept
  <2>. QED
    BY <2>1, <2>2
<1>2. ASSUME NEW p \in Proc, Insert(p) PROVE StoresAgree'
  <2>1. CASE CreateFailed(p) /\ UNCHANGED backup
    <3>1. CreateEnded(p) /\ At(p, "insert") /\ UNCHANGED <<backup, artefact, byHand, cutOff>>
      BY <1>2, <1>t, <2>1, CreateOver DEF Insert
    <3>2. \A q \in Proc : /\ At(q, "deleteRow") <=> At(q, "deleteRow")'
                          /\ At(q, "deleteRow") => src'[q] = src[q]
                          /\ At(q, "complete")' => At(q, "complete") /\ id'[q] = id[q]
      BY <3>1 DEF CreateEnded
    <3>. HIDE DEF StoresAgree, At
    <3>. QED
      BY ONLY <1>k, <3>1, <3>2, StoresKept
  <2>2. CASE ~(CreateFailed(p) /\ UNCHANGED backup)
    <3>1. /\ At(p, "insert") /\ UNCHANGED <<artefact, byHand, cutOff, src, id>>
          /\ pc' = [pc EXCEPT ![p] = "snapshot"]
          /\ \A i \in Id \ {id[p]} : backup'[i] = backup[i]
          /\ backup'[id[p]].status = "pending" /\ id[p] \in Id
      BY <1>2, <2>2 DEF Insert
    <3>2. \A q \in Proc : /\ At(q, "deleteRow") <=> At(q, "deleteRow")'
                          /\ At(q, "complete")' <=> At(q, "complete")
      BY <3>1
    <3>3. \A q \in Proc : At(q, "complete") => id[q] # id[p]
      BY <3>1
    <3>4. ASSUME NEW i \in Id PROVE Completing(i)' => Completing(i)
      <4>1. CASE i = id[p]
        BY ONLY <3>1, <3>2, <3>3, <4>1 DEF Completing, At
      <4>2. CASE i # id[p]
        BY ONLY <3>1, <3>2, <4>2 DEF Completing, At
      <4>. QED
        BY <4>1, <4>2
    <3>5. ASSUME NEW i \in Id PROVE
             /\ Completing(i)' => Stored(i) \/ i \in cutOff \/ Unlinked(i)'
             /\ Stored(i) => backup'[i] # NoRow \/ i \in byHand \cup cutOff
      <4>1. Unlinked(i)' <=> Unlinked(i)
        BY ONLY <3>1, <3>2 DEF Unlinked, At
      <4>2. backup'[i] = NoRow => backup[i] = NoRow
        BY <3>1
      <4>3. /\ Completing(i) => Stored(i) \/ i \in cutOff \/ Unlinked(i)
            /\ Stored(i) => backup[i] # NoRow \/ i \in byHand \cup cutOff
        BY ONLY <1>k DEF StoresAgree
      <4>. QED
        BY ONLY <3>4, <4>1, <4>2, <4>3
    <3>6. ASSUME NEW q \in Proc, At(q, "deleteRow")'
          PROVE  ~Stored(src[q]) \/ src[q] \in byHand \cup cutOff
      BY ONLY <1>k, <3>2, <3>6 DEF StoresAgree
    <3>. HIDE DEF Completing, Unlinked, Dooms, RowOK, DoomedOK, Apart, LocalsOK
    <3>. QED
      BY ONLY <3>1, <3>5, <3>6 DEF StoresAgree, Stored
  <2>. QED
    BY <2>1, <2>2
<1>3. ASSUME NEW p \in Proc, Snapshot(p) PROVE StoresAgree'
  BY <1>3 DEF Snapshot
<1>4. ASSUME NEW p \in Proc, Put(p) PROVE StoresAgree'
  <2>1. /\ At(p, "put") /\ UNCHANGED <<backup, cutOff, byHand, id, src>>
        /\ pc' = [pc EXCEPT ![p] = pc'[p]] /\ pc'[p] \in {"complete", "fail"}
        /\ \A i \in Id \ {id[p]} : artefact'[i] = artefact[i]
        /\ pc'[p] = "complete" => Stored(id[p])'
        /\ Stored(id[p]) => Stored(id[p])'
    BY <1>4 DEF Put, Upload
  <2>2. id[p] \in Id /\ (backup[id[p]] # NoRow \/ id[p] \in byHand)
    BY <2>1
  <2>3. \A q \in Proc : At(q, "deleteRow") /\ src[q] = id[p] => id[p] \in byHand
    BY <2>1
  <2>4. \A i \in Id : Unlinked(i)' <=> Unlinked(i)
    BY <2>1
  <2>5. ASSUME NEW i \in Id PROVE
           /\ Completing(i)' => Stored(i)' \/ i \in cutOff \/ Unlinked(i)'
           /\ Stored(i)' => backup[i] # NoRow \/ i \in byHand \cup cutOff
    <3>1. CASE i = id[p]
      BY <2>1, <2>2, <2>4, <3>1
    <3>2. CASE i # id[p]
      BY <2>1, <2>4, <3>2
    <3>. QED
      BY <3>1, <3>2
  <2>6. ASSUME NEW q \in Proc, At(q, "deleteRow")'
        PROVE  ~Stored(src[q])' \/ src[q] \in byHand \cup cutOff
    <3>1. At(q, "deleteRow")
      BY <2>1, <2>6
    <3>. QED
      BY <2>1, <2>3, <3>1
  <2>. QED
    BY <2>1, <2>5, <2>6
<1>5. ASSUME NEW p \in Proc, FinishCompleted(p) PROVE StoresAgree'
  <2>1. /\ CreateEnded(p) /\ UNCHANGED <<artefact, byHand>>
        /\ \A i \in Id : /\ i # id[p] => backup'[i] = backup[i]
                         /\ backup[i] = NoRow <=> backup'[i] = NoRow
    BY <1>5, <1>t, FinishOver
  <2>2. At(p, "complete") /\ cutOff \subseteq cutOff'
    BY <1>5 DEF FinishCompleted, FinishFails, CutOff
  <2>3. \A q \in Proc : /\ At(q, "deleteRow") <=> At(q, "deleteRow")'
                        /\ At(q, "deleteRow") => src'[q] = src[q]
                        /\ At(q, "complete")' => At(q, "complete") /\ id'[q] = id[q]
    BY <2>1, <2>2 DEF CreateEnded
  <2>4. backup'[id[p]].status = "completed" => Completing(id[p])
    BY <2>1, <2>2
  <2>5. \A i \in Id : Completing(i)' => Completing(i)
    BY <2>1, <2>2, <2>3, <2>4
  <2>6. \A i \in Id : Unlinked(i)' <=> Unlinked(i)
    BY <2>3
  <2>. QED
    BY <2>1, <2>2, <2>3, <2>5, <2>6
<1>6. ASSUME NEW p \in Proc, FinishFailed(p) PROVE StoresAgree'
  <2>1. /\ CreateEnded(p) /\ UNCHANGED <<artefact, byHand>>
        /\ \A i \in Id : /\ i # id[p] => backup'[i] = backup[i]
                         /\ backup[i] = NoRow <=> backup'[i] = NoRow
    BY <1>6, <1>t, FinishOver
  <2>2. At(p, "fail") /\ cutOff \subseteq cutOff'
    BY <1>6 DEF FinishFailed, FinishFails, CutOff
  <2>3. \A q \in Proc : /\ At(q, "deleteRow") <=> At(q, "deleteRow")'
                        /\ At(q, "deleteRow") => src'[q] = src[q]
                        /\ At(q, "complete")' => At(q, "complete") /\ id'[q] = id[q]
    BY <2>1, <2>2 DEF CreateEnded
  <2>4. backup'[id[p]].status # "completed"
    BY <1>6, <2>2 DEF FinishFailed, FinishFails, Finish
  <2>5. \A i \in Id : Completing(i)' => Completing(i)
    BY <2>1, <2>2, <2>3, <2>4
  <2>6. \A i \in Id : Unlinked(i)' <=> Unlinked(i)
    BY <2>3
  <2>. QED
    BY <2>1, <2>2, <2>3, <2>5, <2>6
<1>7. ASSUME NEW p \in Proc, Fetch(p) PROVE StoresAgree'
  <2>1. /\ UNCHANGED <<backup, artefact, byHand, cutOff>>
        /\ \A q \in Proc : /\ At(q, "deleteRow") <=> At(q, "deleteRow")'
                           /\ At(q, "deleteRow") => src'[q] = src[q]
                           /\ At(q, "complete")' => At(q, "complete") /\ id'[q] = id[q]
    BY <1>7 DEF Fetch, ForgetBackup, Return
  <2>. HIDE DEF StoresAgree, At
  <2>. QED
    BY ONLY <1>k, <2>1, StoresKept
<1>8. ASSUME NEW p \in Proc, Replace(p) PROVE StoresAgree'
  <2>1. /\ UNCHANGED <<backup, artefact, byHand, cutOff>>
        /\ \A q \in Proc : /\ At(q, "deleteRow") <=> At(q, "deleteRow")'
                           /\ At(q, "deleteRow") => src'[q] = src[q]
                           /\ At(q, "complete")' => At(q, "complete") /\ id'[q] = id[q]
    BY <1>8 DEF Replace, ForgetBackup, Return
  <2>. HIDE DEF StoresAgree, At
  <2>. QED
    BY ONLY <1>k, <2>1, StoresKept
<1>9. ASSUME NEW p \in Proc, DeleteGet(p) PROVE StoresAgree'
  BY <1>9 DEF DeleteGet, Take
<1>10. ASSUME NEW p \in Proc, DeleteUnlink(p) PROVE StoresAgree'
  <2>1. /\ At(p, "unlink") /\ UNCHANGED <<backup, byHand, id, src>>
        /\ pc' = [pc EXCEPT ![p] = "deleteRow"] /\ src[p] \in Id
        /\ \A i \in Id \ {src[p]} : artefact'[i] = artefact[i]
        /\ cutOff \subseteq cutOff'
        /\ ~Stored(src[p])' \/ (artefact' = artefact /\ src[p] \in cutOff')
    BY <1>10 DEF DeleteUnlink, CutOff
  <2>2. Unlinked(src[p])' /\ \A i \in Id : Unlinked(i) => Unlinked(i)'
    BY <2>1
  <2>3. ASSUME NEW i \in Id PROVE
           /\ Completing(i)' => Stored(i)' \/ i \in cutOff' \/ Unlinked(i)'
           /\ Stored(i)' => backup[i] # NoRow \/ i \in byHand \cup cutOff'
    <3>1. CASE i = src[p]
      BY <2>1, <2>2, <3>1
    <3>2. CASE i # src[p]
      BY <2>1, <2>2, <3>2
    <3>. QED
      BY <3>1, <3>2
  <2>4. ASSUME NEW q \in Proc, At(q, "deleteRow")'
        PROVE  ~Stored(src[q])' \/ src[q] \in byHand \cup cutOff'
    <3>1. CASE src[q] = src[p]
      BY <2>1, <3>1
    <3>2. CASE src[q] # src[p]
      <4>1. pc[q] = "deleteRow" /\ src[q] \in Id
        BY <2>1, <2>4, <3>2
      <4>2. artefact'[src[q]] = artefact[src[q]]
        BY ONLY <2>1, <3>2, <4>1
      <4>. QED
        BY <2>1, <4>1, <4>2
    <3>. QED
      BY <3>1, <3>2
  <2>. QED
    BY <2>1, <2>3, <2>4
<1>11. ASSUME NEW p \in Proc, DeleteRow(p) PROVE StoresAgree'
  BY <1>11 DEF DeleteRow, CutOff
<1>12. ASSUME NEW p \in Proc, DeleteDone(p) PROVE StoresAgree'
  <2>1. /\ UNCHANGED <<backup, artefact, byHand, cutOff>>
        /\ \A q \in Proc : /\ At(q, "deleteRow") <=> At(q, "deleteRow")'
                           /\ At(q, "deleteRow") => src'[q] = src[q]
                           /\ At(q, "complete")' => At(q, "complete") /\ id'[q] = id[q]
    BY <1>12 DEF DeleteDone, ForgetBackup, Return
  <2>. HIDE DEF StoresAgree, At
  <2>. QED
    BY ONLY <1>k, <2>1, StoresKept
<1>13. ASSUME NEW p \in Proc, Targets(p) PROVE StoresAgree'
  <2>1. /\ UNCHANGED <<backup, artefact, byHand, cutOff>>
        /\ \A q \in Proc : /\ At(q, "deleteRow") <=> At(q, "deleteRow")'
                           /\ At(q, "deleteRow") => src'[q] = src[q]
                           /\ At(q, "complete")' => At(q, "complete") /\ id'[q] = id[q]
    BY <1>13 DEF Targets, ForgetBackup, Return
  <2>. HIDE DEF StoresAgree, At
  <2>. QED
    BY ONLY <1>k, <2>1, StoresKept
<1>14. ASSUME NEW p \in Proc, Target(p) PROVE StoresAgree'
  BY <1>14 DEF Target
<1>15. ASSUME NEW p \in Proc, Retention(p) PROVE StoresAgree'
  BY <1>15 DEF Retention
<1>16. ASSUME NEW p \in Proc, Record(p) PROVE StoresAgree'
  <2>1. /\ UNCHANGED <<backup, artefact, byHand, cutOff>>
        /\ \A q \in Proc : /\ At(q, "deleteRow") <=> At(q, "deleteRow")'
                           /\ At(q, "deleteRow") => src'[q] = src[q]
                           /\ At(q, "complete")' => At(q, "complete") /\ id'[q] = id[q]
    BY <1>16 DEF Record, ForgetBackup, Return
  <2>. HIDE DEF StoresAgree, At
  <2>. QED
    BY ONLY <1>k, <2>1, StoresKept
<1>17. ASSUME NEW p \in Admin, Request(p) PROVE StoresAgree'
  <2>1. /\ UNCHANGED <<backup, artefact, cutOff>> /\ byHand \subseteq byHand'
        /\ At(p, "idle") /\ ~At(p, "deleteRow")' /\ ~At(p, "complete")'
        /\ \A q \in Proc \ {p} : pc'[q] = pc[q] /\ src'[q] = src[q] /\ id'[q] = id[q]
    BY <1>17, Procs DEF Request, StartCreate, StartRestore, StartDelete, StartRun, Start
  <2>. QED
    BY ONLY <1>k, <2>1, StoresKept DEF At
<1>18. ASSUME ListDue \/ RunDue PROVE StoresAgree'
  BY <1>18, Procs DEF ListDue, RunDue
<1>19. ASSUME Environment PROVE StoresAgree'
  BY <1>19 DEF Environment, DropSchedule, FallDue, SetSchedule, DropDatabase, Write,
      Cancel, Damage, Crash
<1>20. CASE UNCHANGED vars
  BY <1>20 DEF vars
<1>. QED
  BY <1>1, <1>2, <1>3, <1>4, <1>5, <1>6, <1>7, <1>8, <1>9, <1>10, <1>11, <1>12, <1>13,
      <1>14, <1>15, <1>16, <1>17, <1>18, <1>19, <1>20, Procs
  DEF Next, Job, Request, Environment, ProcStep, CreateStep, DeleteStep, RunStep

-----------------------------------------------------------------------------
(* The theorems.                                                           *)

\* The inductive invariant.
IInv == /\ TypeOK /\ LocalsOK /\ ContentOK /\ Apart
        /\ DoomedOK /\ RowOK /\ NewestKept
        /\ TakenOK /\ RestoreOK /\ StoresAgree

\* It holds at the start, and every step keeps it.
LEMMA IInvInit == Init => IInv
<1>. SUFFICES ASSUME Init PROVE IInv
  OBVIOUS
<1>1. TypeOK
  BY BackupAssumption DEF Init, TypeOK, PC, Row, NoRow
<1>2. LocalsOK /\ ContentOK
  BY DEF Init, LocalsOK, ContentOK, Creating
<1>3. Apart /\ DoomedOK /\ RowOK /\ NewestKept
  BY DEF Init, Apart, DoomedOK, Dooms, RowOK, NewestKept, Creating, NoRow, At
<1>4. TakenOK /\ RestoreOK /\ StoresAgree
  BY DEF Init, TakenOK, RestoreOK, StoresAgree, Completing, Stored, Creating, NoRow, At
<1>. QED
  BY <1>1, <1>2, <1>3, <1>4 DEF IInv

\* Every step of the service keeps the inductive invariant.
LEMMA IInvStep == IInv /\ [Next]_vars => IInv'
<1>. SUFFICES ASSUME IInv, [Next]_vars PROVE IInv'
  OBVIOUS
<1>1. TypeOK'
  <2>1. LocalTypes' /\ StoreTypes' /\ HistoryTypes'
    BY LocalTypesStep, StoreTypesStep, HistoryTypesStep DEF IInv
  <2>. QED
    BY <2>1 DEF TypeOK, LocalTypes, StoreTypes, HistoryTypes
<1>. QED
  BY <1>1, LocalsStep, ContentStep, ApartStep, DoomedStep, RowStep, NewestStep,
      TakenStep, RestoreStep, StoresStep DEF IInv

\* The step in which a restore overwrites a database is its Replace.
LEMMA OneReplaces ==
    ASSUME TypeOK, [Next]_vars, NEW p \in Proc, Overwrites(p)
    PROVE  data' = [data EXCEPT ![db[p]] = file[p]]
<1>l. pc \in [Proc -> PC]
  BY DEF TypeOK
<1>o. At(p, "replace") /\ pc'[p] # pc[p] /\ data' # data
  BY DEF Overwrites
<1>. USE <1>l, <1>o DEF At, Goto, Step, stores
<1>1. ASSUME NEW q \in Proc, Replace(q) PROVE data' = [data EXCEPT ![db[p]] = file[p]]
  <2>1. q = p
    BY <1>1 DEF Replace, Return
  <2>. QED
    BY <1>1, <2>1 DEF Replace
<1>2. ASSUME NEW q \in Proc, Find(q) \/ Insert(q) \/ Snapshot(q) \/ Put(q) \/
       FinishCompleted(q) \/ FinishFailed(q) \/ Fetch(q) \/ DeleteGet(q) \/
       DeleteUnlink(q) \/ DeleteRow(q) \/ DeleteDone(q) \/ Targets(q) \/ Target(q) \/
       Retention(q) \/ Record(q) PROVE data' = data
  BY <1>2 DEF Find, Insert, Snapshot, Put, FinishCompleted, FinishFailed, FinishFails, Fetch,
      DeleteGet, DeleteUnlink, DeleteRow, DeleteDone, Targets, Target, Retention, Record
<1>3. ASSUME NEW q \in Admin, Request(q) PROVE data' = data
  BY <1>3 DEF Request, StartCreate, StartRestore, StartDelete, StartRun
<1>4. ASSUME ListDue \/ RunDue PROVE data' = data
  BY <1>4 DEF ListDue, RunDue
<1>5. ASSUME Environment PROVE UNCHANGED pc \/ data' = data
  BY <1>5 DEF Environment, DropSchedule, FallDue, SetSchedule, DropDatabase, Write,
      Cancel, Damage, Crash
<1>6. CASE UNCHANGED vars
  BY <1>6 DEF vars
<1>. QED
  BY <1>1, <1>2, <1>3, <1>4, <1>5, <1>6, Procs
  DEF Next, Job, Request, Environment, ProcStep, CreateStep, DeleteStep, RunStep

\* The inductive invariant holds of every behaviour of the service.
THEOREM Invariance == Spec => []IInv
BY IInvInit, IInvStep, PTL DEF Spec

\* Type correctness: rows, artefacts and the locals of every goroutine.
THEOREM TypeCorrect == Spec => []TypeOK
<1>1. IInv => TypeOK
  BY DEF IInv
<1>. QED
  BY <1>1, Invariance, PTL

\* ApplyRetention never takes the newest recovery point of a database.
THEOREM NewestSpared == Spec => RecoveryPointKept
<1>1. IInv /\ [Next]_vars =>
        [\A p \in Proc, i \in Id : RetentionUnlinks(p, i) =>
            \E j \in Id : j > i /\ KeptOrByHand(db[p], j)]_vars
  <2>. SUFFICES ASSUME IInv, NEW p \in Proc, NEW i \in Id, RetentionUnlinks(p, i)
                PROVE  \E j \in Id : j > i /\ KeptOrByHand(db[p], j)
    OBVIOUS
  <2>1. Dooms(p, i) /\ op[p] = "run"
    BY DEF RetentionUnlinks, Dooms, At
  <2>. QED
    BY <2>1 DEF IInv, NewestKept
<1>. QED
  BY <1>1, Invariance, PTL DEF Spec, RecoveryPointKept

\* Restore never overwrites a database without a backup taken since it began.
THEOREM WayBackLeft == Spec => RestoreLeavesWayBack
<1>1. IInv /\ [Next]_vars =>
        [\A p \in Proc : Overwrites(p) =>
            \E j \in Id : j >= id[p] /\ KeptOrByHand(db[p], j)]_vars
  <2>. SUFFICES ASSUME IInv, NEW p \in Proc, Overwrites(p)
                PROVE  \E j \in Id : j >= id[p] /\ KeptOrByHand(db[p], j)
    OBVIOUS
  <2>1. pc[p] \in {"fetch", "replace"}
    BY DEF Overwrites, At
  <2>. QED
    BY <2>1 DEF IInv, NewestKept
<1>. QED
  BY <1>1, Invariance, PTL DEF Spec, RestoreLeavesWayBack

\* The backups table and storage agree, but for what an operation left that
\* broke off and what an administrator deleted under a running backup.
THEOREM StoresMatch == Spec => []StoreMatchesRows
<1>1. IInv => StoreMatchesRows
  BY DEF IInv, StoresAgree, Completing, Unlinked, StoreMatchesRows
<1>. QED
  BY <1>1, Invariance, PTL

\* Restore installs what the snapshot of the backup copied, whatever happened
\* to its artefact, its row and the database since.
THEOREM RestoredAsTaken == Spec => RestoredIsTheBackup
<1>1. IInv /\ [Next]_vars =>
        [\A p \in Proc : Overwrites(p) => data'[db[p]] = taken[src[p]]]_vars
  <2>. SUFFICES ASSUME IInv, [Next]_vars, NEW p \in Proc, Overwrites(p)
                PROVE  data'[db[p]] = taken[src[p]]
    OBVIOUS
  <2>1. file[p] = taken[src[p]]
    BY DEF IInv, RestoreOK, Overwrites, At
  <2>2. data' = [data EXCEPT ![db[p]] = file[p]]
    BY OneReplaces DEF IInv
  <2>3. db[p] \in DOMAIN data
    BY <2>2 DEF Overwrites
  <2>. QED
    BY <2>1, <2>2, <2>3
<1>. QED
  BY <1>1, Invariance, PTL DEF Spec, RestoredIsTheBackup
=============================================================================
