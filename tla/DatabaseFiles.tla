---------------------------- MODULE DatabaseFiles ----------------------------
(***************************************************************************)
(* The files and metadata rows behind user databases: Create, ImportFile,  *)
(* Rename, Delete and ReplaceFile of database.Manager                      *)
(* (backend/internal/database/manager.go).                                 *)
(*                                                                         *)
(* The databases table and the data directory are two stores with no       *)
(* common transaction.  Each operation is a goroutine of an administrator's*)
(* request; one action is one file-system call or one metadata statement.  *)
(* The metadata database has a single writer connection, which Rename      *)
(* holds from its UPDATE to its COMMIT.  A file is an inode, so that a     *)
(* copy that is being written follows its file when somebody renames it.   *)
(* closeHandle is HandlePool's subject; here it succeeds or is cancelled.  *)
(***************************************************************************)
EXTENDS Naturals

CONSTANTS
    Name,       \* database names
    Admin,      \* goroutines that run an operation of the manager
    Inode,      \* identities of files; reused once unlinked
    Data,       \* contents: what a create, an import or a restore brings
    Existing,   \* the databases registered when the server starts
    Ops,        \* the operations requests may ask for
    MaxFaults,  \* bound on failing file-system calls, failing statements and
                \* crashes together
    Cancels,    \* whether requests may be cancelled while they run
    Crashes,    \* whether a fault may be a crash of the process
    NoInode, NoData, NoName, Nobody

OneToOne(f) == \A x, y \in DOMAIN f : f[x] = f[y] => x = y

\* The databases that exist at first have a file and data of their own each.
ASSUME FilesAssumption ==
    /\ Existing \subseteq Name
    /\ Ops \subseteq {"create", "import", "rename", "delete", "replace"}
    /\ MaxFaults \in Nat /\ Cancels \in BOOLEAN /\ Crashes \in BOOLEAN
    /\ NoInode \notin Inode /\ NoData \notin Data
    /\ NoName \notin Name /\ Nobody \notin Admin
    /\ \E f \in [Existing -> Data] : OneToOne(f)
    /\ \E f \in [Existing -> Inode] : OneToOne(f)

VARIABLES
    row,      \* the databases table: the data a registered name stands for
    disk,     \* path -> inode
    content,  \* inode -> data; NoData for a file that is not whole
    writer,   \* who has the metadata writer connection across statements
    pc, db, to, data, fd,  \* locals of the requests
    setAside, \* ReplaceFile's hadOriginal
    faults,   \* calls and statements that failed, and crashes, so far
    cutOff    \* history: a crash, a Rename that was cancelled after its UPDATE
              \* or whose COMMIT failed, or a failing undo has cut an operation off

procVars == <<pc, db, to, data, fd, setAside>>
vars == <<row, disk, content, writer, procVars, faults, cutOff>>

\* name.db, name.db.restore-prev and name.db.restore-tmp
Main(n) == <<"main", n>>
Prev(n) == <<"prev", n>>
Tmp(n)  == <<"tmp", n>>
Path == {"main", "prev", "tmp"} \X Name

Exists(f) == disk[f] # NoInode
Registered == {n \in Name : row[n] # NoData}

PC == {"idle", "open", "init", "truncate", "write", "register", "remove",
       "update", "close", "move", "commit", "closeDropped", "unlink",
       "closeReplaced", "stage", "copy", "aside", "install", "undo", "clean",
       "finish"}

\* A data directory in step with the databases table.
Init ==
    /\ LET d == CHOOSE f \in [Existing -> Data] : OneToOne(f)
           i == CHOOSE f \in [Existing -> Inode] : OneToOne(f)
       IN  /\ row = [n \in Name |-> IF n \in Existing THEN d[n] ELSE NoData]
           /\ disk = [f \in Path |-> IF f[1] = "main" /\ f[2] \in Existing
                                     THEN i[f[2]] ELSE NoInode]
           /\ content = [j \in Inode |-> IF \E n \in Existing : i[n] = j
                                         THEN d[CHOOSE n \in Existing : i[n] = j]
                                         ELSE NoData]
    /\ writer = Nobody
    /\ pc = [p \in Admin |-> "idle"]
    /\ db = [p \in Admin |-> NoName] /\ to = [p \in Admin |-> NoName]
    /\ data = [p \in Admin |-> NoData] /\ fd = [p \in Admin |-> NoInode]
    /\ setAside = [p \in Admin |-> FALSE]
    /\ faults = 0 /\ cutOff = FALSE

-----------------------------------------------------------------------------
(* Steps of a request, files, and faults.                                  *)

\* A step of p's own ends no operation early.
Goto(p, l) == pc' = [pc EXCEPT ![p] = l] /\ UNCHANGED cutOff

Start(p, op, l, n, m, d) ==
    /\ pc[p] = "idle" /\ op \in Ops
    /\ Goto(p, l)
    /\ db' = [db EXCEPT ![p] = n]
    /\ to' = [to EXCEPT ![p] = m]
    /\ data' = [data EXCEPT ![p] = d]
    /\ UNCHANGED <<row, disk, content, writer, fd, setAside, faults>>

Continue(p, l) == Goto(p, l) /\ UNCHANGED <<db, to, data, fd, setAside>>

\* The request is over, and what it knew is gone.
End(p) ==
    /\ pc' = [pc EXCEPT ![p] = "idle"]
    /\ db' = [db EXCEPT ![p] = NoName] /\ to' = [to EXCEPT ![p] = NoName]
    /\ data' = [data EXCEPT ![p] = NoData] /\ fd' = [fd EXCEPT ![p] = NoInode]
    /\ setAside' = [setAside EXCEPT ![p] = FALSE]

\* The request returns, successfully or with an error.
Return(p) == End(p) /\ UNCHANGED cutOff

\* Install directory d; what an unlinked inode held is gone.
Disk(d, c) ==
    /\ disk' = d
    /\ content' = [i \in Inode |-> IF \E f \in Path : d[f] = i THEN c[i] ELSE NoData]

Unlink(f) == Disk([disk EXCEPT ![f] = NoInode], content)
Move(f, g) == Disk([disk EXCEPT ![f] = NoInode, ![g] = disk[f]], content)
SameFiles == UNCHANGED <<disk, content>>

\* An identity nobody uses; which one does not matter.
FreeInodes == {i \in Inode : (\A f \in Path : disk[f] # i) /\ \A p \in Admin : fd[p] # i}
FreeData == {d \in Data : /\ \A n \in Name : row[n] # d
                          /\ \A i \in Inode : content[i] # d
                          /\ \A p \in Admin : data[p] # d}
NewData == CHOOSE d \in FreeData : TRUE

\* Open f for writing: the file that is there, or a new one.
Opened(f) == IF Exists(f) THEN disk[f] ELSE CHOOSE i \in FreeInodes : TRUE
CanOpen(f) == Exists(f) \/ FreeInodes # {}

Fault == faults < MaxFaults /\ faults' = faults + 1
NoFault == UNCHANGED faults
Fails == Fault /\ SameFiles

\* A file-system call whose failure the code ignores or passes on unchanged.
Attempt(call) == (call /\ NoFault) \/ Fails

-----------------------------------------------------------------------------
(* Create and ImportFile.                                                  *)

\* Both refuse a name whose file exists; ImportFile also verifies its source.
Create(p, n) ==
    /\ ~Exists(Main(n)) /\ FreeData # {}
    /\ Start(p, "create", "open", n, NoName, NewData)

Import(p, n) ==
    /\ ~Exists(Main(n)) /\ FreeData # {}
    /\ Start(p, "import", "truncate", n, NoName, NewData)

\* openHandle opens the file, which creates it if it is still missing.
CreateOpen(p) ==
    /\ pc[p] = "open"
    /\ \/ /\ CanOpen(Main(db[p]))
          /\ LET f == Main(db[p])
                 i == Opened(f)
             IN  Disk([disk EXCEPT ![f] = i],
                      IF Exists(f) THEN content ELSE [content EXCEPT ![i] = data[p]])
          /\ Continue(p, "init") /\ NoFault
       \/ Fails /\ Return(p)
    /\ UNCHANGED <<row, writer>>

\* The PRAGMA that writes the header; on failure the file is removed, but a
\* failing close leaves it.
CreateInit(p) ==
    /\ pc[p] = "init"
    /\ \/ Continue(p, "register") /\ SameFiles /\ NoFault
       \/ /\ Fault \/ (Cancels /\ NoFault)
          /\ Continue(p, "remove") /\ SameFiles
       \/ Fails /\ Return(p)
    /\ UNCHANGED <<row, writer>>

\* copyFile, first half: O_TRUNC empties a file that appeared meanwhile.
ImportTruncate(p) ==
    /\ pc[p] = "truncate"
    /\ \/ /\ CanOpen(Main(db[p]))
          /\ LET f == Main(db[p])
                 i == Opened(f)
             IN  /\ Disk([disk EXCEPT ![f] = i], [content EXCEPT ![i] = NoData])
                 /\ fd' = [fd EXCEPT ![p] = i]
          /\ Goto(p, "write") /\ NoFault
          /\ UNCHANGED <<db, to, data, setAside>>
       \/ Fails /\ Return(p)
    /\ UNCHANGED <<row, writer>>

\* Put data[p] in the file p has open, wherever that file is by now.
WriteOpenFile(p) == Disk(disk, [content EXCEPT ![fd[p]] = data[p]])

\* Mutant of ImportWrite: the error of the copy is ignored.
ImportWriteUnchecked(p) ==
    /\ pc[p] = "write"
    /\ Attempt(WriteOpenFile(p))
    /\ Continue(p, "register")
    /\ UNCHANGED <<row, writer>>

\* copyFile, second half; a failing copy leaves what was written.
ImportWrite(p) ==
    /\ pc[p] = "write"
    /\ \/ WriteOpenFile(p) /\ Continue(p, "register") /\ NoFault
       \/ Fails /\ Return(p)
    /\ UNCHANGED <<row, writer>>

\* registerDatabase: the INSERT waits for the writer connection, and the name
\* is UNIQUE.
Register(p) ==
    /\ pc[p] = "register" /\ writer = Nobody
    /\ \/ /\ db[p] \notin Registered
          /\ row' = [row EXCEPT ![db[p]] = data[p]]
          /\ Return(p)
       \/ db[p] \in Registered /\ Continue(p, "remove") /\ UNCHANGED row
    /\ SameFiles /\ UNCHANGED <<writer, faults>>

\* No header or no row: os.Remove, whose own failure is ignored.
RemoveNew(p) ==
    /\ pc[p] = "remove"
    /\ Attempt(Unlink(Main(db[p])))
    /\ Return(p)
    /\ UNCHANGED <<row, writer>>

-----------------------------------------------------------------------------
(* Rename.                                                                 *)

\* The old file must exist and the new one must not.
Rename(p, n, m) ==
    /\ n # m /\ Exists(Main(n)) /\ ~Exists(Main(m))
    /\ Start(p, "rename", "update", n, m, NoData)

\* Mutant of RenameUpdate: the transaction ends before the file is moved.
RenameUpdateUnlocked(p) ==
    /\ pc[p] = "update" /\ writer = Nobody
    /\ IF db[p] \in Registered /\ to[p] \notin Registered
       THEN Continue(p, "close")
       ELSE Return(p)
    /\ SameFiles /\ UNCHANGED <<row, writer, faults>>

\* Mutant of RenameUpdate: an early return without the deferred Rollback.
RenameUpdateLeaks(p) ==
    /\ pc[p] = "update" /\ writer = Nobody
    /\ writer' = p
    /\ IF db[p] \in Registered /\ to[p] \notin Registered
       THEN Continue(p, "close")
       ELSE Return(p)
    /\ SameFiles /\ UNCHANGED <<row, faults>>

\* BEGIN and UPDATE.  No such row, or a row of the new name, ends the request;
\* the deferred Rollback gives the connection back.
RenameUpdate(p) ==
    /\ pc[p] = "update" /\ writer = Nobody
    /\ \/ /\ db[p] \in Registered /\ to[p] \notin Registered
          /\ writer' = p
          /\ Continue(p, "close")
       \/ /\ db[p] \notin Registered \/ to[p] \in Registered
          /\ Return(p)
          /\ UNCHANGED writer
    /\ SameFiles /\ UNCHANGED <<row, faults>>

\* The deferred Rollback, which does nothing once the transaction has ended.
Rollback(p) == writer' = IF writer = p THEN Nobody ELSE writer

\* database/sql rolls the transaction of a cancelled request back at once;
\* Rename learns of it when it commits.
TxCancelled(p) ==
    /\ Cancels /\ writer = p
    /\ writer' = Nobody
    /\ cutOff' = TRUE
    /\ SameFiles /\ UNCHANGED <<row, procVars, faults>>

\* closeHandle, while the transaction is open.
RenameClose(p) ==
    /\ pc[p] = "close"
    /\ \/ Continue(p, "move") /\ UNCHANGED writer
       \/ Cancels /\ Rollback(p) /\ Return(p)
    /\ SameFiles /\ UNCHANGED <<row, faults>>

\* os.Rename, which replaces whatever has the new name by now; a failure rolls
\* the UPDATE back.
RenameMove(p) ==
    /\ pc[p] = "move"
    /\ \/ /\ Exists(Main(db[p]))
          /\ Move(Main(db[p]), Main(to[p]))
          /\ Continue(p, "commit")
          /\ UNCHANGED <<writer, faults>>
       \/ /\ Fault \/ (~Exists(Main(db[p])) /\ NoFault)
          /\ Rollback(p)
          /\ SameFiles /\ Return(p)
    /\ UNCHANGED row

\* COMMIT.  It fails when the transaction has been rolled back, or by itself,
\* which rolls it back: the file has been moved by then, and stays where it is.
RenameCommit(p) ==
    /\ pc[p] = "commit"
    /\ \/ /\ writer = p /\ NoFault
          /\ row' = [row EXCEPT ![to[p]] = row[db[p]], ![db[p]] = NoData]
          /\ UNCHANGED cutOff
       \/ writer # p /\ NoFault /\ UNCHANGED <<row, cutOff>>
       \/ writer = p /\ Fault /\ cutOff' = TRUE /\ UNCHANGED row
    /\ Rollback(p) /\ End(p)
    /\ SameFiles

-----------------------------------------------------------------------------
(* Delete.                                                                 *)

\* DELETE FROM databases; the request goes on even when there was no row.
Delete(p, n) ==
    /\ pc[p] = "idle" /\ "delete" \in Ops /\ writer = Nobody
    /\ row' = [row EXCEPT ![n] = NoData]
    /\ db' = [db EXCEPT ![p] = n]
    /\ Goto(p, "closeDropped")
    /\ SameFiles /\ UNCHANGED <<writer, to, data, fd, setAside, faults>>

DeleteClose(p) ==
    /\ pc[p] = "closeDropped"
    /\ Continue(p, "unlink") \/ (Cancels /\ Return(p))
    /\ SameFiles /\ UNCHANGED <<row, writer, faults>>

\* os.Remove; the sidecars are abstracted.
DeleteUnlink(p) ==
    /\ pc[p] = "unlink"
    /\ Attempt(Unlink(Main(db[p])))
    /\ Return(p)
    /\ UNCHANGED <<row, writer>>

-----------------------------------------------------------------------------
(* ReplaceFile, as backup.Service.Restore calls it: for a database whose   *)
(* file it has just copied into a safety snapshot.                         *)

Replace(p, n) ==
    /\ n \in Registered /\ Exists(Main(n)) /\ FreeData # {}
    /\ Start(p, "replace", "closeReplaced", n, NoName, NewData)

ReplaceClose(p) ==
    /\ pc[p] = "closeReplaced"
    /\ Continue(p, "stage") \/ (Cancels /\ Return(p))
    /\ SameFiles /\ UNCHANGED <<row, writer, faults>>

\* copyFile to .restore-tmp, a name all restores of the database share.  The
\* removal of the staged file is deferred only once the copy has succeeded.
ReplaceStage(p) ==
    /\ pc[p] = "stage"
    /\ \/ /\ CanOpen(Tmp(db[p]))
          /\ LET f == Tmp(db[p])
                 i == Opened(f)
             IN  /\ Disk([disk EXCEPT ![f] = i], [content EXCEPT ![i] = NoData])
                 /\ fd' = [fd EXCEPT ![p] = i]
          /\ Goto(p, "copy") /\ NoFault
          /\ UNCHANGED <<db, to, data, setAside>>
       \/ Fails /\ Return(p)
    /\ UNCHANGED <<row, writer>>

ReplaceCopy(p) ==
    /\ pc[p] = "copy"
    /\ \/ WriteOpenFile(p) /\ Continue(p, "aside") /\ NoFault
       \/ Fails /\ Return(p)
    /\ UNCHANGED <<row, writer>>

\* Mutant of ReplaceAside: the current file is removed instead.
ReplaceAsideRemoves(p) ==
    /\ pc[p] = "aside"
    /\ Attempt(Unlink(Main(db[p])))
    /\ Continue(p, "install")
    /\ UNCHANGED <<row, writer>>

\* Set the current file aside as .restore-prev, if there is one.
ReplaceAside(p) ==
    /\ pc[p] = "aside"
    /\ LET f == Main(db[p])
       IN \/ /\ Exists(f) /\ Move(f, Prev(db[p])) /\ NoFault
             /\ Goto(p, "install")
             /\ setAside' = [setAside EXCEPT ![p] = TRUE]
             /\ UNCHANGED <<db, to, data, fd>>
          \/ ~Exists(f) /\ SameFiles /\ NoFault /\ Continue(p, "install")
          \/ Exists(f) /\ Fails /\ Continue(p, "finish")
    /\ UNCHANGED <<row, writer>>

\* Mutant of ReplaceInstall: a failure does not put the original back.
ReplaceInstallNoUndo(p) ==
    /\ pc[p] = "install"
    /\ LET n == db[p]
       IN \/ /\ Exists(Tmp(n)) /\ Move(Tmp(n), Main(n)) /\ NoFault
             /\ row' = [row EXCEPT ![n] = IF n \in Registered THEN data[p] ELSE NoData]
             /\ Continue(p, "clean")
          \/ /\ Fault \/ (~Exists(Tmp(n)) /\ NoFault)
             /\ Continue(p, "finish")
             /\ SameFiles /\ UNCHANGED row
    /\ UNCHANGED writer

\* Rename the staged file into place.  From here on the name stands for the
\* restored data.
ReplaceInstall(p) ==
    /\ pc[p] = "install"
    /\ LET n == db[p]
       IN \/ /\ Exists(Tmp(n)) /\ Move(Tmp(n), Main(n)) /\ NoFault
             /\ row' = [row EXCEPT ![n] = IF n \in Registered THEN data[p] ELSE NoData]
             /\ Continue(p, "clean")
          \/ /\ Fault \/ (~Exists(Tmp(n)) /\ NoFault)
             /\ Continue(p, IF setAside[p] THEN "undo" ELSE "finish")
             /\ SameFiles /\ UNCHANGED row
    /\ UNCHANGED writer

\* The staged file could not be installed: put the original back.  A failure of
\* that too is ignored.
ReplaceUndo(p) ==
    /\ pc[p] = "undo"
    /\ LET n == db[p]
       IN Attempt(IF Exists(Prev(n)) THEN Move(Prev(n), Main(n)) ELSE SameFiles)
    /\ pc' = [pc EXCEPT ![p] = "finish"]
    /\ cutOff' = (cutOff \/ faults' # faults)
    /\ UNCHANGED <<row, writer, db, to, data, fd, setAside>>

\* Discard the original, if this restore set it aside.
ReplaceClean(p) ==
    /\ pc[p] = "clean"
    /\ IF setAside[p] THEN Attempt(Unlink(Prev(db[p]))) ELSE SameFiles /\ NoFault
    /\ Continue(p, "finish")
    /\ UNCHANGED <<row, writer>>

\* The deferred os.Remove(staged).
ReplaceFinish(p) ==
    /\ pc[p] = "finish"
    /\ Attempt(Unlink(Tmp(db[p])))
    /\ Return(p)
    /\ UNCHANGED <<row, writer>>

-----------------------------------------------------------------------------
\* The INSERT of a row or the UPDATE of a Rename fails, or the request is
\* cancelled while it waits for the writer connection: Rename returns, Create and
\* ImportFile remove their file.
StatementFails(p) ==
    /\ Fault \/ (Cancels /\ NoFault)
    /\ \/ pc[p] = "register" /\ Continue(p, "remove")
       \/ pc[p] = "update" /\ Return(p)
    /\ SameFiles /\ UNCHANGED <<row, writer>>

\* The process dies and restarts: files and committed rows are all that stays.
Crash ==
    /\ Crashes /\ Fault /\ \E p \in Admin : pc[p] # "idle"
    /\ writer' = Nobody
    /\ pc' = [p \in Admin |-> "idle"]
    /\ db' = [p \in Admin |-> NoName] /\ to' = [p \in Admin |-> NoName]
    /\ data' = [p \in Admin |-> NoData] /\ fd' = [p \in Admin |-> NoInode]
    /\ setAside' = [p \in Admin |-> FALSE]
    /\ cutOff' = TRUE
    /\ SameFiles /\ UNCHANGED row

\* A step of a request that has begun.
Work(p) ==
    \/ CreateOpen(p) \/ CreateInit(p) \/ ImportTruncate(p) \/ ImportWrite(p)
    \/ Register(p) \/ RemoveNew(p)
    \/ RenameUpdate(p) \/ RenameClose(p) \/ RenameMove(p) \/ RenameCommit(p)
    \/ DeleteClose(p) \/ DeleteUnlink(p)
    \/ ReplaceClose(p) \/ ReplaceStage(p) \/ ReplaceCopy(p) \/ ReplaceAside(p)
    \/ ReplaceInstall(p) \/ ReplaceUndo(p) \/ ReplaceClean(p) \/ ReplaceFinish(p)

Arrive(p) ==
    \/ \E n \in Name : Create(p, n) \/ Import(p, n) \/ Delete(p, n) \/ Replace(p, n)
    \/ \E n, m \in Name : Rename(p, n, m)

Next ==
    \/ \E p \in Admin : Arrive(p) \/ Work(p) \/ TxCancelled(p) \/ StatementFails(p)
    \/ Crash

Spec == Init /\ [][Next]_vars

(***************************************************************************)
(* The goroutine of a request keeps running; nothing makes its client      *)
(* cancel it.  Fairness is strong because a statement waits for the writer *)
(* connection, which database/sql hands to one of the waiters every time   *)
(* it is returned.                                                         *)
(***************************************************************************)
FairSpec == Spec /\ \A p \in Admin : SF_vars(Work(p))

-----------------------------------------------------------------------------
(* Properties.                                                             *)

\* Rows, files and requests are well formed, and only a Rename between its
\* UPDATE and its COMMIT has the writer connection.
TypeOK ==
    /\ row \in [Name -> Data \cup {NoData}]
    /\ disk \in [Path -> Inode \cup {NoInode}]
    /\ content \in [Inode -> Data \cup {NoData}]
    /\ writer \in Admin \cup {Nobody}
    /\ \A p \in Admin : writer = p => pc[p] \in {"close", "move", "commit"}
    /\ pc \in [Admin -> PC]
    /\ db \in [Admin -> Name \cup {NoName}]
    /\ to \in [Admin -> Name \cup {NoName}]
    /\ data \in [Admin -> Data \cup {NoData}]
    /\ fd \in [Admin -> Inode \cup {NoInode}]
    /\ setAside \in [Admin -> BOOLEAN]
    /\ faults \in 0..MaxFaults
    /\ cutOff \in BOOLEAN

Quiet == \A p \in Admin : pc[p] = "idle"
Holds(f, d) == Exists(f) /\ content[disk[f]] = d

(***************************************************************************)
(* Between requests a registered name has its own data under its own file  *)
(* name, whichever call or statement of an earlier request failed, but for *)
(* one of each: the undo paths of Create, Rename and ReplaceFile keep the  *)
(* two stores in step.  A crash leaves them apart, and so does a Rename    *)
(* that does not commit once the file is moved, since nothing moves it     *)
(* back: because it was cancelled, or because its COMMIT failed; and an    *)
(* undo of ReplaceFile that fails in its turn.                             *)
(***************************************************************************)
RegisteredIntact == Quiet /\ ~cutOff => \A n \in Registered : Holds(Main(n), row[n])

(***************************************************************************)
(* A registered database is never backed by a file whose copy did not      *)
(* complete (ImportFile: "a bad upload never becomes a half-registered     *)
(* database").                                                             *)
(***************************************************************************)
NeverHalfRegistered ==
    ~cutOff => \A n \in Registered :
                   Exists(Main(n)) => content[disk[Main(n)]] # NoData

(***************************************************************************)
(* No step but Delete's removal of a file loses the data of a registered   *)
(* database, so no crash does: at every moment it is whole in some file,   *)
(* under its name, set aside by a restore, or at the new name of an        *)
(* interrupted rename.                                                     *)
(***************************************************************************)
Whole(n) == \E f \in Path : Holds(f, row[n])
DataSurvives ==
    [][\A n \in Registered : Whole(n) /\ n \in Registered'
           => Whole(n)' \/ \E p \in Admin : DeleteUnlink(p)]_vars

(***************************************************************************)
(* Every request returns: the metadata writer connection is given back on  *)
(* every path out of Rename, so nobody waits for it for ever.              *)
(***************************************************************************)
RequestsReturn == \A p \in Admin : pc[p] # "idle" ~> pc[p] = "idle"

(***************************************************************************)
(* The test of Rename says "Data must survive the rename"; the code does   *)
(* not keep that when a rename is cancelled.                               *)
(***************************************************************************)
RenameKeepsData == \A n \in Registered : Whole(n)
=============================================================================
