------------------------- MODULE DatabaseFilesProofs -------------------------
(***************************************************************************)
(* DatabaseFiles: a registered database keeps its own, whole file, for any *)
(* number of databases, requests, failing calls and cancellations, as long *)
(* as no two requests work on one name at once; and one fault, a crash     *)
(* included, loses no database's data, then or later.                      *)
(***************************************************************************)
EXTENDS DatabaseFiles, TLAPS

-----------------------------------------------------------------------------
(* The inductive invariant.                                                *)

Renaming(p) == pc[p] \in {"update", "close", "move", "commit"}

\* The names a request has been given.
Names(p) == {db[p], to[p]} \ {NoName}

(***************************************************************************)
(* No two requests work on one name at once.  Nothing in the manager sees  *)
(* to that: two creates or two restores of one name can do harm, which is  *)
(* why it is a hypothesis.  Renames may overlap as they like, since each   *)
(* holds the writer connection from its UPDATE to its COMMIT.              *)
(***************************************************************************)
Disjoint ==
    \A p, q \in Admin : \/ p = q
                        \/ Renaming(p) /\ Renaming(q)
                        \/ Names(p) \cap Names(q) = {}

\* No two paths are the same file.
Injective == \A f, g \in Path : Exists(f) /\ disk[f] = disk[g] => f = g

\* What a create, an import or a restore brings has not been let go of.
Bringing == {"open", "init", "truncate", "write", "register",
             "closeReplaced", "stage", "copy", "aside", "install"}

\* The locals a step uses have been set.
LocalsOK ==
    \A p \in Admin :
        /\ pc[p] = "idle" => db[p] = NoName
        /\ pc[p] # "idle" => db[p] \in Name
        /\ Renaming(p) => to[p] \in Name /\ to[p] # db[p]
        /\ ~Renaming(p) => to[p] = NoName
        /\ pc[p] \in Bringing => data[p] \in Data

\* While p creates, imports or deletes n there is no row; the row is inserted
\* once the file holds the new data.
Making(p, n) ==
    /\ pc[p] \in {"open", "init", "truncate", "write", "register", "remove",
                  "closeDropped", "unlink"} => n \notin Registered
    /\ pc[p] \in {"open", "truncate"} => ~Exists(Main(n))
    /\ pc[p] = "write" => Exists(Main(n)) /\ fd[p] = disk[Main(n)]
    /\ pc[p] \in {"init", "register"} => Holds(Main(n), data[p])

\* From its UPDATE to its COMMIT the rename from n to m has the writer
\* connection, the old row is there, and the new one is not.
Moving(p, n, m) ==
    /\ pc[p] \in {"close", "move", "commit"} =>
          writer = p /\ n \in Registered /\ m \notin Registered
    /\ pc[p] = "commit" => Holds(Main(m), row[n]) /\ ~Exists(Main(n))

\* A restore of n always has the original, or the replacement in its place.
Restoring(p, n) ==
    /\ pc[p] \in {"closeReplaced", "stage", "copy", "aside", "install", "undo",
                  "clean", "finish"} => n \in Registered
    /\ pc[p] = "copy" => Exists(Tmp(n)) /\ fd[p] = disk[Tmp(n)]
    /\ pc[p] \in {"aside", "install"} => Holds(Tmp(n), data[p])
    /\ pc[p] \in {"install", "undo"} =>
          Holds(Prev(n), row[n]) /\ ~Exists(Main(n)) /\ setAside[p]

InHand(p) == Making(p, db[p]) /\ Moving(p, db[p], to[p]) /\ Restoring(p, db[p])

\* p has the file of n under another name.
Away(p, n) == pc[p] \in {"commit", "install", "undo"} /\ db[p] = n

Backed(n) ==
    n \in Registered => Holds(Main(n), row[n]) \/ \E p \in Admin : Away(p, n)

\* Rows and files are in step, but for what a request has in hand.
InStep == ~cutOff => /\ \A p \in Admin : InHand(p)
                     /\ \A n \in Name : Backed(n)

IInv == TypeOK /\ LocalsOK /\ Injective /\ InStep

-----------------------------------------------------------------------------
(* Files.                                                                  *)

\* The three paths of a name are different, and different from another's.
LEMMA Paths ==
    /\ \A n \in Name : Main(n) \in Path /\ Prev(n) \in Path /\ Tmp(n) \in Path
    /\ \A n, m : /\ Main(n) # Prev(m) /\ Main(n) # Tmp(m) /\ Prev(n) # Tmp(m)
                 /\ Main(n) = Main(m) => n = m
                 /\ Prev(n) = Prev(m) => n = m
                 /\ Tmp(n) = Tmp(m) => n = m
BY DEF Path, Main, Prev, Tmp

\* A step leaves the file at f as it is.
Kept(f) == disk'[f] = disk[f] /\ (Exists(f) => content'[disk[f]] = content[disk[f]])

FileTypes ==
    /\ disk \in [Path -> Inode \cup {NoInode}]
    /\ content \in [Inode -> Data \cup {NoData}]

\* A file that is kept holds what it held.
LEMMA KeptHolds ==
    ASSUME NEW f, Kept(f)
    PROVE  /\ Exists(f)' <=> Exists(f)
           /\ \A d : Holds(f, d)' <=> Holds(f, d)
BY DEF Kept, Exists, Holds

\* os.Remove takes one file and no other.
LEMMA Unlinked ==
    ASSUME FileTypes, Injective, NEW f \in Path, Unlink(f)
    PROVE  /\ ~Exists(f)' /\ \A g \in Path \ {f} : Kept(g)
           /\ FileTypes' /\ Injective'
BY FilesAssumption DEF FileTypes, Injective, Unlink, Disk, Exists, Kept

\* os.Rename takes a file with what it holds to another path.
LEMMA Moved ==
    ASSUME FileTypes, Injective, NEW f \in Path, NEW g \in Path, f # g, Exists(f), Move(f, g)
    PROVE  /\ ~Exists(f)' /\ \A d : Holds(f, d) => Holds(g, d)'
           /\ \A h \in Path \ {f, g} : Kept(h)
           /\ FileTypes' /\ Injective'
<1>1. /\ disk' = [disk EXCEPT ![f] = NoInode, ![g] = disk[f]]
      /\ content' = [i \in Inode |-> IF \E h \in Path : disk'[h] = i THEN content[i] ELSE NoData]
  BY DEF Move, Disk
<1>2. /\ disk'[f] = NoInode /\ disk'[g] = disk[f]
      /\ \A h \in Path \ {f, g} : disk'[h] = disk[h]
  BY <1>1 DEF FileTypes
<1>3. \A h \in Path : Exists(h)' => content'[disk'[h]] = content[disk'[h]]
  BY <1>1, <1>2 DEF FileTypes, Exists
<1>4. FileTypes'
  BY <1>1, <1>2 DEF FileTypes
<1>5. Injective'
  BY <1>2, FilesAssumption DEF Injective, Exists
<1>. QED
  BY <1>2, <1>3, <1>4, <1>5 DEF Kept, Exists, Holds

\* Opening a file to write leaves the others alone, also when it is a new one.
LEMMA FileOpened ==
    ASSUME FileTypes, Injective, NEW f \in Path, CanOpen(f),
           NEW c \in [Inode -> Data \cup {NoData}],
           \A i \in Inode \ {Opened(f)} : c[i] = content[i],
           Disk([disk EXCEPT ![f] = Opened(f)], c)
    PROVE  /\ disk'[f] = Opened(f) /\ Exists(f)' /\ content'[disk'[f]] = c[Opened(f)]
           /\ \A g \in Path \ {f} : Kept(g)
           /\ FileTypes' /\ Injective'
<1>. DEFINE i == Opened(f)
<1>1. i \in Inode
  BY DEF FileTypes, Opened, CanOpen, Exists, FreeInodes
<1>2. \A g \in Path \ {f} : disk[g] # i
  BY FilesAssumption DEF FileTypes, Injective, Opened, CanOpen, Exists, FreeInodes
<1>. HIDE DEF i
<1>3. /\ disk' = [disk EXCEPT ![f] = i]
      /\ content' = [j \in Inode |-> IF \E h \in Path : disk'[h] = j THEN c[j] ELSE NoData]
  BY DEF Disk, i
<1>4. disk'[f] = i /\ \A h \in Path \ {f} : disk'[h] = disk[h]
  BY <1>3 DEF FileTypes
<1>5. Exists(f)'
  BY <1>1, <1>4, FilesAssumption DEF Exists
<1>6. content'[i] = c[i]
  BY <1>1, <1>3, <1>4
<1>7. \A g \in Path \ {f} : Kept(g)
  <2>. SUFFICES ASSUME NEW g \in Path \ {f}, Exists(g) PROVE content'[disk[g]] = content[disk[g]]
    BY <1>4 DEF Kept
  <2>1. disk[g] \in Inode /\ disk[g] # i /\ disk'[g] = disk[g]
    BY <1>2, <1>4 DEF FileTypes, Exists
  <2>2. c[disk[g]] = content[disk[g]]
    BY <2>1 DEF i
  <2>. QED
    BY <1>3, <2>1, <2>2
<1>8. FileTypes'
  BY <1>1, <1>3 DEF FileTypes
<1>9. Injective'
  BY <1>2, <1>4, <1>5 DEF Injective, Exists
<1>. QED
  BY <1>4, <1>5, <1>6, <1>7, <1>8, <1>9 DEF i

\* Writing to an open file touches no other path than the one it has by now.
LEMMA Written ==
    ASSUME FileTypes, Injective, NEW p, NEW f \in Path, Exists(f), fd[p] = disk[f],
           data[p] \in Data, WriteOpenFile(p)
    PROVE  /\ Exists(f)' /\ content'[disk'[f]] = data[p]
           /\ \A g \in Path \ {f} : Kept(g)
           /\ FileTypes' /\ Injective'
BY FilesAssumption DEF FileTypes, Injective, WriteOpenFile, Disk, Exists, Holds, Kept

-----------------------------------------------------------------------------
(* Types.                                                                  *)

\* TypeOK in four parts, with FileTypes.
LocalTypes ==
    /\ pc \in [Admin -> PC]
    /\ db \in [Admin -> Name \cup {NoName}]
    /\ to \in [Admin -> Name \cup {NoName}]
    /\ data \in [Admin -> Data \cup {NoData}]
    /\ fd \in [Admin -> Inode \cup {NoInode}]
    /\ setAside \in [Admin -> BOOLEAN]
    /\ cutOff \in BOOLEAN

StoreTypes ==
    /\ row \in [Name -> Data \cup {NoData}]
    /\ writer \in Admin \cup {Nobody}
    /\ faults \in 0..MaxFaults

WriterTypes == \A p \in Admin : writer = p => pc[p] \in {"close", "move", "commit"}

\* TypeOK is the conjunction of its parts.
LEMMA Types == TypeOK <=> LocalTypes /\ StoreTypes /\ FileTypes /\ WriterTypes
BY DEF TypeOK, LocalTypes, StoreTypes, FileTypes, WriterTypes

\* A request has a name when it works.
LEMMA LocalsStep == TypeOK /\ LocalsOK /\ [Next]_vars => LocalsOK'
<1>. SUFFICES ASSUME TypeOK, LocalsOK, [Next]_vars PROVE LocalsOK'
  OBVIOUS
<1>t. LocalTypes
  BY Types
<1>n. FreeData # {} => NewData \in Data
  BY DEF NewData, FreeData
<1>. USE <1>t, FilesAssumption DEF LocalTypes, LocalsOK, Renaming, Bringing, Goto, Continue,
       Return, End, Start, procVars
<1>1. ASSUME NEW p \in Admin, CreateOpen(p) PROVE LocalsOK'
  BY <1>1 DEF CreateOpen
<1>2. ASSUME NEW p \in Admin, CreateInit(p) PROVE LocalsOK'
  BY <1>2 DEF CreateInit
<1>3. ASSUME NEW p \in Admin, ImportTruncate(p) PROVE LocalsOK'
  BY <1>3 DEF ImportTruncate
<1>4. ASSUME NEW p \in Admin, ImportWrite(p) PROVE LocalsOK'
  BY <1>4 DEF ImportWrite
<1>5. ASSUME NEW p \in Admin, Register(p) PROVE LocalsOK'
  BY <1>5 DEF Register
<1>6. ASSUME NEW p \in Admin, RemoveNew(p) PROVE LocalsOK'
  BY <1>6 DEF RemoveNew
<1>7. ASSUME NEW p \in Admin, RenameUpdate(p) PROVE LocalsOK'
  BY <1>7 DEF RenameUpdate
<1>8. ASSUME NEW p \in Admin, RenameClose(p) PROVE LocalsOK'
  BY <1>8 DEF RenameClose
<1>9. ASSUME NEW p \in Admin, RenameMove(p) PROVE LocalsOK'
  BY <1>9 DEF RenameMove
<1>10. ASSUME NEW p \in Admin, RenameCommit(p) PROVE LocalsOK'
  BY <1>10 DEF RenameCommit
<1>11. ASSUME NEW p \in Admin, DeleteClose(p) PROVE LocalsOK'
  BY <1>11 DEF DeleteClose
<1>12. ASSUME NEW p \in Admin, DeleteUnlink(p) PROVE LocalsOK'
  BY <1>12 DEF DeleteUnlink
<1>13. ASSUME NEW p \in Admin, ReplaceClose(p) PROVE LocalsOK'
  BY <1>13 DEF ReplaceClose
<1>14. ASSUME NEW p \in Admin, ReplaceStage(p) PROVE LocalsOK'
  BY <1>14 DEF ReplaceStage
<1>15. ASSUME NEW p \in Admin, ReplaceCopy(p) PROVE LocalsOK'
  BY <1>15 DEF ReplaceCopy
<1>16. ASSUME NEW p \in Admin, ReplaceAside(p) PROVE LocalsOK'
  BY <1>16 DEF ReplaceAside
<1>17. ASSUME NEW p \in Admin, ReplaceInstall(p) PROVE LocalsOK'
  BY <1>17 DEF ReplaceInstall
<1>18. ASSUME NEW p \in Admin, ReplaceUndo(p) PROVE LocalsOK'
  BY <1>18 DEF ReplaceUndo
<1>19. ASSUME NEW p \in Admin, ReplaceClean(p) PROVE LocalsOK'
  BY <1>19 DEF ReplaceClean
<1>20. ASSUME NEW p \in Admin, ReplaceFinish(p) PROVE LocalsOK'
  BY <1>20 DEF ReplaceFinish
<1>21. ASSUME NEW p \in Admin, NEW n \in Name, Create(p, n) \/ Import(p, n) PROVE LocalsOK'
  BY <1>21, <1>n DEF Create, Import
<1>22. ASSUME NEW p \in Admin, NEW n \in Name, Delete(p, n) PROVE LocalsOK'
  BY <1>22 DEF Delete
<1>23. ASSUME NEW p \in Admin, NEW n \in Name, Replace(p, n) PROVE LocalsOK'
  BY <1>23, <1>n DEF Replace
<1>24. ASSUME NEW p \in Admin, NEW n \in Name, NEW m \in Name, Rename(p, n, m) PROVE LocalsOK'
  BY <1>24 DEF Rename
<1>25. ASSUME NEW p \in Admin, TxCancelled(p) \/ StatementFails(p) PROVE LocalsOK'
  BY <1>25 DEF TxCancelled, StatementFails
<1>26. ASSUME Crash PROVE LocalsOK'
  BY <1>26 DEF Crash
<1>27. CASE UNCHANGED vars
  BY <1>27 DEF vars
<1>. HIDE DEF LocalsOK
<1>. QED
  BY <1>1, <1>2, <1>3, <1>4, <1>5, <1>6, <1>7, <1>8, <1>9, <1>10, <1>11, <1>12,
     <1>13, <1>14, <1>15, <1>16, <1>17, <1>18, <1>19, <1>20, <1>21, <1>22, <1>23,
     <1>24, <1>25, <1>26, <1>27
  DEF Next, Arrive, Work

\* A request goes on, returns or starts with its locals typed.
LEMMA LocalsTyped ==
    ASSUME LocalTypes, NEW p \in Admin
    PROVE  /\ \A l \in PC : Goto(p, l) => pc' \in [Admin -> PC] /\ cutOff' \in BOOLEAN
           /\ \A l \in PC : Continue(p, l) => LocalTypes'
           /\ End(p) /\ cutOff' \in BOOLEAN => LocalTypes'
           /\ Return(p) => LocalTypes'
           /\ \A op, l, n, m, d :
                 /\ l \in PC /\ n \in Name /\ m \in Name \cup {NoName} /\ d \in Data \cup {NoData}
                 /\ Start(p, op, l, n, m, d)
                 => LocalTypes'
<1>1. \A l \in PC : Goto(p, l) => pc' \in [Admin -> PC] /\ cutOff' \in BOOLEAN
  BY DEF LocalTypes, Goto
<1>2. ASSUME NEW l \in PC, Continue(p, l) PROVE LocalTypes'
  BY <1>1, <1>2 DEF LocalTypes, Continue
<1>3. ASSUME End(p), cutOff' \in BOOLEAN PROVE LocalTypes'
  <2>1. pc' \in [Admin -> PC]
    BY <1>3 DEF LocalTypes, End, PC
  <2>. QED
    BY <1>3, <2>1 DEF LocalTypes, End
<1>5. Return(p) => End(p) /\ cutOff' \in BOOLEAN
  BY DEF Return, LocalTypes
<1>4. ASSUME NEW op, NEW l \in PC, NEW n \in Name, NEW m \in Name \cup {NoName},
             NEW d \in Data \cup {NoData}, Start(p, op, l, n, m, d)
      PROVE  LocalTypes'
  BY <1>1, <1>4 DEF LocalTypes, Start
<1>. QED
  BY <1>1, <1>2, <1>3, <1>4, <1>5

\* Every step keeps the locals typed,
LEMMA LocalTypesStep == TypeOK /\ LocalsOK /\ [Next]_vars => LocalTypes'
<1>. SUFFICES ASSUME TypeOK, LocalsOK, [Next]_vars PROVE LocalTypes'
  OBVIOUS
<1>t. LocalTypes
  BY Types
<1>b. \A p \in Admin : pc[p] # "idle" => /\ Main(db[p]) \in Path /\ Tmp(db[p]) \in Path
  BY Paths DEF LocalsOK
<1>n. FreeData # {} => NewData \in Data
  BY DEF NewData, FreeData
<1>l. /\ {"idle", "open", "init", "truncate", "write", "register", "remove"} \subseteq PC
      /\ {"update", "close", "move", "commit", "closeDropped", "unlink"} \subseteq PC
      /\ {"closeReplaced", "stage", "copy", "aside", "install", "undo"} \subseteq PC
      /\ {"clean", "finish"} \subseteq PC
  BY DEF PC
<1>. USE <1>t, <1>l
<1>1. ASSUME NEW p \in Admin, CreateOpen(p) PROVE LocalTypes'
  BY <1>1, LocalsTyped DEF CreateOpen
<1>2. ASSUME NEW p \in Admin, CreateInit(p) PROVE LocalTypes'
  BY <1>2, LocalsTyped DEF CreateInit
<1>3. ASSUME NEW p \in Admin, ImportTruncate(p) PROVE LocalTypes'
  <2>1. CASE Return(p)
    BY <2>1, LocalsTyped
  <2>2. CASE ~Return(p)
    <3>1. /\ fd' = [fd EXCEPT ![p] = Opened(Main(db[p]))] /\ CanOpen(Main(db[p]))
          /\ Goto(p, "write") /\ UNCHANGED <<db, to, data, setAside>>
      BY <1>3, <2>2 DEF ImportTruncate
    <3>2. Opened(Main(db[p])) \in Inode
      BY <1>3, <1>b, <3>1, Types DEF ImportTruncate, FileTypes, Opened, CanOpen, Exists, FreeInodes
    <3>3. fd' \in [Admin -> Inode \cup {NoInode}]
      BY <3>1, <3>2 DEF LocalTypes
    <3>. QED
      BY <3>1, <3>3, LocalsTyped DEF LocalTypes
  <2>. QED
    BY <2>1, <2>2
<1>4. ASSUME NEW p \in Admin, ImportWrite(p) PROVE LocalTypes'
  BY <1>4, LocalsTyped DEF ImportWrite
<1>5. ASSUME NEW p \in Admin, Register(p) PROVE LocalTypes'
  BY <1>5, LocalsTyped DEF Register
<1>6. ASSUME NEW p \in Admin, RemoveNew(p) PROVE LocalTypes'
  BY <1>6, LocalsTyped DEF RemoveNew
<1>7. ASSUME NEW p \in Admin, RenameUpdate(p) PROVE LocalTypes'
  BY <1>7, LocalsTyped DEF RenameUpdate
<1>8. ASSUME NEW p \in Admin, RenameClose(p) PROVE LocalTypes'
  BY <1>8, LocalsTyped DEF RenameClose
<1>9. ASSUME NEW p \in Admin, RenameMove(p) PROVE LocalTypes'
  BY <1>9, LocalsTyped DEF RenameMove
<1>10. ASSUME NEW p \in Admin, RenameCommit(p) PROVE LocalTypes'
  <2>1. End(p) /\ cutOff' \in BOOLEAN
    BY <1>10 DEF RenameCommit, LocalTypes
  <2>. QED
    BY <2>1, LocalsTyped
<1>11. ASSUME NEW p \in Admin, DeleteClose(p) PROVE LocalTypes'
  BY <1>11, LocalsTyped DEF DeleteClose
<1>12. ASSUME NEW p \in Admin, DeleteUnlink(p) PROVE LocalTypes'
  BY <1>12, LocalsTyped DEF DeleteUnlink
<1>13. ASSUME NEW p \in Admin, ReplaceClose(p) PROVE LocalTypes'
  BY <1>13, LocalsTyped DEF ReplaceClose
<1>14. ASSUME NEW p \in Admin, ReplaceStage(p) PROVE LocalTypes'
  <2>1. CASE Return(p)
    BY <2>1, LocalsTyped
  <2>2. CASE ~Return(p)
    <3>1. /\ fd' = [fd EXCEPT ![p] = Opened(Tmp(db[p]))] /\ CanOpen(Tmp(db[p]))
          /\ Goto(p, "copy") /\ UNCHANGED <<db, to, data, setAside>>
      BY <1>14, <2>2 DEF ReplaceStage
    <3>2. Opened(Tmp(db[p])) \in Inode
      BY <1>14, <1>b, <3>1, Types DEF ReplaceStage, FileTypes, Opened, CanOpen, Exists, FreeInodes
    <3>3. fd' \in [Admin -> Inode \cup {NoInode}]
      BY <3>1, <3>2 DEF LocalTypes
    <3>. QED
      BY <3>1, <3>3, LocalsTyped DEF LocalTypes
  <2>. QED
    BY <2>1, <2>2
<1>15. ASSUME NEW p \in Admin, ReplaceCopy(p) PROVE LocalTypes'
  BY <1>15, LocalsTyped DEF ReplaceCopy
<1>16. ASSUME NEW p \in Admin, ReplaceAside(p) PROVE LocalTypes'
  <2>1. CASE Continue(p, "install") \/ Continue(p, "finish")
    BY <2>1, LocalsTyped
  <2>2. CASE ~(Continue(p, "install") \/ Continue(p, "finish"))
    <3>1. /\ Goto(p, "install") /\ UNCHANGED <<db, to, data, fd>>
          /\ setAside' = [setAside EXCEPT ![p] = TRUE]
      BY <1>16, <2>2 DEF ReplaceAside
    <3>2. setAside' \in [Admin -> BOOLEAN]
      BY <3>1 DEF LocalTypes
    <3>. QED
      BY <3>1, <3>2, LocalsTyped DEF LocalTypes
  <2>. QED
    BY <2>1, <2>2
<1>17. ASSUME NEW p \in Admin, ReplaceInstall(p) PROVE LocalTypes'
  BY <1>17, LocalsTyped DEF ReplaceInstall
<1>18. ASSUME NEW p \in Admin, ReplaceUndo(p) PROVE LocalTypes'
  BY <1>18 DEF ReplaceUndo, LocalTypes, NoFault
<1>19. ASSUME NEW p \in Admin, ReplaceClean(p) PROVE LocalTypes'
  BY <1>19, LocalsTyped DEF ReplaceClean
<1>20. ASSUME NEW p \in Admin, ReplaceFinish(p) PROVE LocalTypes'
  BY <1>20, LocalsTyped DEF ReplaceFinish
<1>21. ASSUME NEW p \in Admin, NEW n \in Name, Create(p, n) \/ Import(p, n) PROVE LocalTypes'
  BY <1>21, <1>n, LocalsTyped DEF Create, Import
<1>22. ASSUME NEW p \in Admin, NEW n \in Name, Delete(p, n) PROVE LocalTypes'
  BY <1>22, LocalsTyped DEF Delete, LocalTypes
<1>23. ASSUME NEW p \in Admin, NEW n \in Name, Replace(p, n) PROVE LocalTypes'
  BY <1>23, <1>n, LocalsTyped DEF Replace
<1>24. ASSUME NEW p \in Admin, NEW n \in Name, NEW m \in Name, Rename(p, n, m) PROVE LocalTypes'
  BY <1>24, LocalsTyped DEF Rename
<1>25. ASSUME NEW p \in Admin, TxCancelled(p) \/ StatementFails(p) PROVE LocalTypes'
  <2>1. CASE TxCancelled(p)
    BY <2>1 DEF TxCancelled, LocalTypes, procVars
  <2>2. CASE StatementFails(p)
    BY <2>2, LocalsTyped DEF StatementFails
  <2>. QED
    BY <1>25, <2>1, <2>2
<1>26. ASSUME Crash PROVE LocalTypes'
  BY <1>26 DEF Crash, LocalTypes
<1>27. CASE UNCHANGED vars
  BY <1>27 DEF vars, procVars, LocalTypes
<1>. QED
  BY <1>1, <1>2, <1>3, <1>4, <1>5, <1>6, <1>7, <1>8, <1>9, <1>10, <1>11, <1>12,
     <1>13, <1>14, <1>15, <1>16, <1>17, <1>18, <1>19, <1>20, <1>21, <1>22, <1>23,
     <1>24, <1>25, <1>26, <1>27
  DEF Next, Arrive, Work

\* the rows and the writer connection,
LEMMA StoreTypesStep == TypeOK /\ LocalsOK /\ [Next]_vars => StoreTypes'
<1>. SUFFICES ASSUME TypeOK, LocalsOK, [Next]_vars PROVE StoreTypes'
  OBVIOUS
<1>t. LocalTypes /\ StoreTypes
  BY Types
<1>. USE <1>t, FilesAssumption DEF LocalTypes, StoreTypes, Start, Fault, NoFault, Fails, Attempt, Rollback
<1>1. ASSUME NEW p \in Admin, CreateOpen(p) PROVE StoreTypes'
  BY <1>1 DEF CreateOpen
<1>2. ASSUME NEW p \in Admin, CreateInit(p) PROVE StoreTypes'
  BY <1>2 DEF CreateInit
<1>3. ASSUME NEW p \in Admin, ImportTruncate(p) PROVE StoreTypes'
  BY <1>3 DEF ImportTruncate
<1>4. ASSUME NEW p \in Admin, ImportWrite(p) PROVE StoreTypes'
  BY <1>4 DEF ImportWrite
<1>5. ASSUME NEW p \in Admin, Register(p) PROVE StoreTypes'
  BY <1>5 DEF Register
<1>6. ASSUME NEW p \in Admin, RemoveNew(p) PROVE StoreTypes'
  BY <1>6 DEF RemoveNew
<1>7. ASSUME NEW p \in Admin, RenameUpdate(p) PROVE StoreTypes'
  BY <1>7 DEF RenameUpdate
<1>8. ASSUME NEW p \in Admin, RenameClose(p) PROVE StoreTypes'
  BY <1>8 DEF RenameClose
<1>9. ASSUME NEW p \in Admin, RenameMove(p) PROVE StoreTypes'
  BY <1>9 DEF RenameMove
<1>10. ASSUME NEW p \in Admin, RenameCommit(p) PROVE StoreTypes'
  <2>1. db[p] \in Name
    BY <1>10 DEF RenameCommit, LocalsOK
  <2>. QED
    BY <1>10, <2>1 DEF RenameCommit
<1>11. ASSUME NEW p \in Admin, DeleteClose(p) PROVE StoreTypes'
  BY <1>11 DEF DeleteClose
<1>12. ASSUME NEW p \in Admin, DeleteUnlink(p) PROVE StoreTypes'
  BY <1>12 DEF DeleteUnlink
<1>13. ASSUME NEW p \in Admin, ReplaceClose(p) PROVE StoreTypes'
  BY <1>13 DEF ReplaceClose
<1>14. ASSUME NEW p \in Admin, ReplaceStage(p) PROVE StoreTypes'
  BY <1>14 DEF ReplaceStage
<1>15. ASSUME NEW p \in Admin, ReplaceCopy(p) PROVE StoreTypes'
  BY <1>15 DEF ReplaceCopy
<1>16. ASSUME NEW p \in Admin, ReplaceAside(p) PROVE StoreTypes'
  BY <1>16 DEF ReplaceAside
<1>17. ASSUME NEW p \in Admin, ReplaceInstall(p) PROVE StoreTypes'
  BY <1>17 DEF ReplaceInstall
<1>18. ASSUME NEW p \in Admin, ReplaceUndo(p) PROVE StoreTypes'
  BY <1>18 DEF ReplaceUndo
<1>19. ASSUME NEW p \in Admin, ReplaceClean(p) PROVE StoreTypes'
  BY <1>19 DEF ReplaceClean
<1>20. ASSUME NEW p \in Admin, ReplaceFinish(p) PROVE StoreTypes'
  BY <1>20 DEF ReplaceFinish
<1>21. ASSUME NEW p \in Admin, NEW n \in Name, Create(p, n) \/ Import(p, n) PROVE StoreTypes'
  BY <1>21 DEF Create, Import
<1>22. ASSUME NEW p \in Admin, NEW n \in Name, Delete(p, n) PROVE StoreTypes'
  BY <1>22 DEF Delete
<1>23. ASSUME NEW p \in Admin, NEW n \in Name, Replace(p, n) PROVE StoreTypes'
  BY <1>23 DEF Replace
<1>24. ASSUME NEW p \in Admin, NEW n \in Name, NEW m \in Name, Rename(p, n, m) PROVE StoreTypes'
  BY <1>24 DEF Rename
<1>25. ASSUME NEW p \in Admin, TxCancelled(p) \/ StatementFails(p) PROVE StoreTypes'
  BY <1>25 DEF TxCancelled, StatementFails
<1>26. ASSUME Crash PROVE StoreTypes'
  BY <1>26 DEF Crash
<1>27. CASE UNCHANGED vars
  BY <1>27 DEF vars
<1>. HIDE DEF StoreTypes
<1>. QED
  BY <1>1, <1>2, <1>3, <1>4, <1>5, <1>6, <1>7, <1>8, <1>9, <1>10, <1>11, <1>12,
     <1>13, <1>14, <1>15, <1>16, <1>17, <1>18, <1>19, <1>20, <1>21, <1>22, <1>23,
     <1>24, <1>25, <1>26, <1>27
  DEF Next, Arrive, Work

\* A step of p changes nobody else's locals, and takes the connection from
\* nobody else.
SameLocals(q) ==
    /\ pc'[q] = pc[q] /\ db'[q] = db[q] /\ to'[q] = to[q]
    /\ data'[q] = data[q] /\ fd'[q] = fd[q] /\ setAside'[q] = setAside[q]
    /\ writer = q => writer' = q
OthersWait(p) == \A q \in Admin \ {p} : SameLocals(q)

\* A request steps alone.
LEMMA StepsAlone ==
    ASSUME TypeOK, NEW p \in Admin, Arrive(p) \/ Work(p) \/ StatementFails(p)
    PROVE  OthersWait(p)
<1>t. LocalTypes /\ StoreTypes
  BY Types
<1>. USE <1>t, FilesAssumption
     DEF LocalTypes, StoreTypes, OthersWait, SameLocals, Goto, Continue, Return, End, Start
<1>1. CASE CreateOpen(p)
  BY <1>1 DEF CreateOpen
<1>2. CASE CreateInit(p)
  BY <1>2 DEF CreateInit
<1>3. CASE ImportTruncate(p)
  BY <1>3 DEF ImportTruncate
<1>4. CASE ImportWrite(p)
  BY <1>4 DEF ImportWrite
<1>5. CASE Register(p)
  BY <1>5 DEF Register
<1>6. CASE RemoveNew(p)
  BY <1>6 DEF RemoveNew
<1>7. CASE RenameUpdate(p)
  BY <1>7 DEF RenameUpdate
<1>8. CASE RenameClose(p)
  BY <1>8 DEF RenameClose, Rollback
<1>9. CASE RenameMove(p)
  BY <1>9 DEF RenameMove, Rollback
<1>10. CASE RenameCommit(p)
  BY <1>10 DEF RenameCommit, Rollback
<1>11. CASE DeleteClose(p)
  BY <1>11 DEF DeleteClose
<1>12. CASE DeleteUnlink(p)
  BY <1>12 DEF DeleteUnlink
<1>13. CASE ReplaceClose(p)
  BY <1>13 DEF ReplaceClose
<1>14. CASE ReplaceStage(p)
  BY <1>14 DEF ReplaceStage
<1>15. CASE ReplaceCopy(p)
  BY <1>15 DEF ReplaceCopy
<1>16. CASE ReplaceAside(p)
  BY <1>16 DEF ReplaceAside
<1>17. CASE ReplaceInstall(p)
  BY <1>17 DEF ReplaceInstall
<1>18. CASE ReplaceUndo(p)
  BY <1>18 DEF ReplaceUndo
<1>19. CASE ReplaceClean(p)
  BY <1>19 DEF ReplaceClean
<1>20. CASE ReplaceFinish(p)
  BY <1>20 DEF ReplaceFinish
<1>21. ASSUME NEW n \in Name, Create(p, n) \/ Import(p, n) \/ Delete(p, n) \/ Replace(p, n)
       PROVE  OthersWait(p)
  BY <1>21 DEF Create, Import, Delete, Replace
<1>22. ASSUME NEW n \in Name, NEW m \in Name, Rename(p, n, m) PROVE OthersWait(p)
  BY <1>22 DEF Rename
<1>23. CASE StatementFails(p)
  BY <1>23 DEF StatementFails
<1>. HIDE DEF OthersWait
<1>. QED
  BY <1>1, <1>2, <1>3, <1>4, <1>5, <1>6, <1>7, <1>8, <1>9, <1>10, <1>11, <1>12,
     <1>13, <1>14, <1>15, <1>16, <1>17, <1>18, <1>19, <1>20, <1>21, <1>22, <1>23
  DEF Arrive, Work

\* and the writer connection with a Rename that has a transaction.
LEMMA WriterStep == TypeOK /\ [Next]_vars => WriterTypes'
<1>. SUFFICES ASSUME TypeOK, [Next]_vars PROVE WriterTypes'
  OBVIOUS
<1>. USE Types, FilesAssumption DEF LocalTypes, StoreTypes, WriterTypes
<1>1. ASSUME NEW p \in Admin, RenameUpdate(p) PROVE WriterTypes'
  BY <1>1 DEF RenameUpdate, Continue, Goto, Return, End
<1>2. ASSUME NEW p \in Admin, RenameClose(p) PROVE WriterTypes'
  BY <1>2 DEF RenameClose, Rollback, Continue, Goto, Return, End
<1>3. ASSUME NEW p \in Admin, RenameMove(p) PROVE WriterTypes'
  BY <1>3 DEF RenameMove, Rollback, Continue, Goto, Return, End
<1>4. ASSUME NEW p \in Admin, RenameCommit(p) PROVE WriterTypes'
  BY <1>4 DEF RenameCommit, Rollback, End
<1>5. ASSUME NEW p \in Admin, Work(p),
             ~(RenameUpdate(p) \/ RenameClose(p) \/ RenameMove(p) \/ RenameCommit(p))
      PROVE  WriterTypes'
  <2>1. pc[p] \notin {"close", "move", "commit"} /\ UNCHANGED writer
    BY <1>5 DEF Work, CreateOpen, CreateInit, ImportTruncate, ImportWrite, Register, RemoveNew,
         DeleteClose, DeleteUnlink, ReplaceClose, ReplaceStage, ReplaceCopy, ReplaceAside,
         ReplaceInstall, ReplaceUndo, ReplaceClean, ReplaceFinish
  <2>2. \A q \in Admin \ {p} : pc'[q] = pc[q]
    BY <1>5, StepsAlone DEF OthersWait, SameLocals
  <2>. QED
    BY <2>1, <2>2
<1>6. ASSUME NEW p \in Admin, Arrive(p) \/ StatementFails(p) PROVE WriterTypes'
  <2>1. pc[p] \notin {"close", "move", "commit"} /\ UNCHANGED writer
    BY <1>6 DEF Arrive, Create, Import, Delete, Replace, Rename, Start, StatementFails
  <2>2. \A q \in Admin \ {p} : pc'[q] = pc[q]
    BY <1>6, StepsAlone DEF OthersWait, SameLocals
  <2>. QED
    BY <2>1, <2>2
<1>7. ASSUME NEW p \in Admin, TxCancelled(p) PROVE WriterTypes'
  BY <1>7 DEF TxCancelled, procVars
<1>8. CASE Crash
  BY <1>8 DEF Crash
<1>9. CASE UNCHANGED vars
  BY <1>9 DEF vars, procVars
<1>. HIDE DEF WriterTypes
<1>. QED
  BY <1>1, <1>2, <1>3, <1>4, <1>5, <1>6, <1>7, <1>8, <1>9 DEF Next

\* The files are typed, and no two paths share one.
FilesOK == FileTypes /\ Injective

\* Every step keeps the files typed and apart.
LEMMA FilesStep == TypeOK /\ LocalsOK /\ Injective /\ [Next]_vars => FilesOK'
<1>. SUFFICES ASSUME TypeOK, LocalsOK, Injective, [Next]_vars PROVE FilesOK'
  OBVIOUS
<1>t. LocalTypes /\ FileTypes /\ Injective
  BY Types
<1>b. \A p \in Admin : pc[p] # "idle" =>
         Main(db[p]) \in Path /\ Prev(db[p]) \in Path /\ Tmp(db[p]) \in Path
  BY Paths DEF LocalsOK
<1>s. SameFiles => FilesOK'
  BY <1>t DEF SameFiles, FilesOK, FileTypes, Injective, Exists
<1>1. ASSUME NEW p \in Admin, CreateOpen(p) PROVE FilesOK'
  <2>1. Main(db[p]) \in Path
    BY <1>1, <1>b DEF CreateOpen
  <2>2. CASE SameFiles
    BY <2>2, <1>s
  <2>3. CASE ~SameFiles
    <3>. DEFINE f == Main(db[p])
                c == IF Exists(f) THEN content ELSE [content EXCEPT ![Opened(f)] = data[p]]
    <3>1. CanOpen(f) /\ Disk([disk EXCEPT ![f] = Opened(f)], c)
      BY <1>1, <2>3 DEF CreateOpen, Fails
    <3>2. c \in [Inode -> Data \cup {NoData}] /\ \A i \in Inode \ {Opened(f)} : c[i] = content[i]
      BY <1>t DEF FileTypes, LocalTypes
    <3>. HIDE DEF f, c
    <3>. QED
      BY <1>t, <2>1, <3>1, <3>2, FileOpened DEF FilesOK, f
  <2>. QED
    BY <2>2, <2>3
<1>2. ASSUME NEW p \in Admin, CreateInit(p) PROVE FilesOK'
  BY <1>2, <1>s DEF CreateInit, Fails
<1>3. ASSUME NEW p \in Admin, ImportTruncate(p) PROVE FilesOK'
  <2>1. Main(db[p]) \in Path
    BY <1>3, <1>b DEF ImportTruncate
  <2>2. CASE SameFiles
    BY <2>2, <1>s
  <2>3. CASE ~SameFiles
    <3>1. /\ CanOpen(Main(db[p]))
          /\ Disk([disk EXCEPT ![Main(db[p])] = Opened(Main(db[p]))],
                  [content EXCEPT ![Opened(Main(db[p]))] = NoData])
      BY <1>3, <2>3 DEF ImportTruncate, Fails
    <3>2. [content EXCEPT ![Opened(Main(db[p]))] = NoData] \in [Inode -> Data \cup {NoData}]
      BY <1>t DEF FileTypes
    <3>. QED
      BY <1>t, <2>1, <3>1, <3>2, FileOpened DEF FilesOK, FileTypes
  <2>. QED
    BY <2>2, <2>3
<1>4. ASSUME NEW p \in Admin, ImportWrite(p) PROVE FilesOK'
  <2>1. WriteOpenFile(p) \/ SameFiles
    BY <1>4 DEF ImportWrite, Fails
  <2>. QED
    BY <2>1, <1>t DEF SameFiles, FilesOK, WriteOpenFile, Disk, FileTypes, Injective, Exists, LocalTypes
<1>5. ASSUME NEW p \in Admin, Register(p) PROVE FilesOK'
  BY <1>5, <1>s DEF Register, Fails
<1>6. ASSUME NEW p \in Admin, RemoveNew(p) PROVE FilesOK'
  <2>1. Main(db[p]) \in Path
    BY <1>6, <1>b DEF RemoveNew
  <2>2. Unlink(Main(db[p])) \/ SameFiles
    BY <1>6 DEF RemoveNew, Attempt, Fails
  <2>. QED
    BY <1>t, <1>s, <2>1, <2>2, Unlinked DEF FilesOK
<1>7. ASSUME NEW p \in Admin, RenameUpdate(p) PROVE FilesOK'
  BY <1>7, <1>s DEF RenameUpdate, Fails
<1>8. ASSUME NEW p \in Admin, RenameClose(p) PROVE FilesOK'
  BY <1>8, <1>s DEF RenameClose, Fails
<1>9. ASSUME NEW p \in Admin, RenameMove(p) PROVE FilesOK'
  <2>1. Main(db[p]) \in Path /\ Main(to[p]) \in Path /\ Main(db[p]) # Main(to[p])
    BY <1>9, <1>b, Paths DEF RenameMove, LocalsOK, Renaming
  <2>2. SameFiles \/ (Exists(Main(db[p])) /\ Move(Main(db[p]), Main(to[p])))
    BY <1>9 DEF RenameMove, Attempt, Fails
  <2>. QED
    BY <1>t, <1>s, <2>1, <2>2, Moved DEF FilesOK
<1>10. ASSUME NEW p \in Admin, RenameCommit(p) PROVE FilesOK'
  BY <1>10, <1>s DEF RenameCommit, Fails
<1>11. ASSUME NEW p \in Admin, DeleteClose(p) PROVE FilesOK'
  BY <1>11, <1>s DEF DeleteClose, Fails
<1>12. ASSUME NEW p \in Admin, DeleteUnlink(p) PROVE FilesOK'
  <2>1. Main(db[p]) \in Path
    BY <1>12, <1>b DEF DeleteUnlink
  <2>2. Unlink(Main(db[p])) \/ SameFiles
    BY <1>12 DEF DeleteUnlink, Attempt, Fails
  <2>. QED
    BY <1>t, <1>s, <2>1, <2>2, Unlinked DEF FilesOK
<1>13. ASSUME NEW p \in Admin, ReplaceClose(p) PROVE FilesOK'
  BY <1>13, <1>s DEF ReplaceClose, Fails
<1>14. ASSUME NEW p \in Admin, ReplaceStage(p) PROVE FilesOK'
  <2>1. Tmp(db[p]) \in Path
    BY <1>14, <1>b DEF ReplaceStage
  <2>2. CASE SameFiles
    BY <2>2, <1>s
  <2>3. CASE ~SameFiles
    <3>1. /\ CanOpen(Tmp(db[p]))
          /\ Disk([disk EXCEPT ![Tmp(db[p])] = Opened(Tmp(db[p]))],
                  [content EXCEPT ![Opened(Tmp(db[p]))] = NoData])
      BY <1>14, <2>3 DEF ReplaceStage, Fails
    <3>2. [content EXCEPT ![Opened(Tmp(db[p]))] = NoData] \in [Inode -> Data \cup {NoData}]
      BY <1>t DEF FileTypes
    <3>. QED
      BY <1>t, <2>1, <3>1, <3>2, FileOpened DEF FilesOK, FileTypes
  <2>. QED
    BY <2>2, <2>3
<1>15. ASSUME NEW p \in Admin, ReplaceCopy(p) PROVE FilesOK'
  <2>1. WriteOpenFile(p) \/ SameFiles
    BY <1>15 DEF ReplaceCopy, Fails
  <2>. QED
    BY <2>1, <1>t DEF SameFiles, FilesOK, WriteOpenFile, Disk, FileTypes, Injective, Exists, LocalTypes
<1>16. ASSUME NEW p \in Admin, ReplaceAside(p) PROVE FilesOK'
  <2>1. Main(db[p]) \in Path /\ Prev(db[p]) \in Path /\ Main(db[p]) # Prev(db[p])
    BY <1>16, <1>b, Paths DEF ReplaceAside
  <2>2. SameFiles \/ (Exists(Main(db[p])) /\ Move(Main(db[p]), Prev(db[p])))
    BY <1>16 DEF ReplaceAside, Attempt, Fails
  <2>. QED
    BY <1>t, <1>s, <2>1, <2>2, Moved DEF FilesOK
<1>17. ASSUME NEW p \in Admin, ReplaceInstall(p) PROVE FilesOK'
  <2>1. Tmp(db[p]) \in Path /\ Main(db[p]) \in Path /\ Tmp(db[p]) # Main(db[p])
    BY <1>17, <1>b, Paths DEF ReplaceInstall
  <2>2. SameFiles \/ (Exists(Tmp(db[p])) /\ Move(Tmp(db[p]), Main(db[p])))
    BY <1>17 DEF ReplaceInstall, Attempt, Fails
  <2>. QED
    BY <1>t, <1>s, <2>1, <2>2, Moved DEF FilesOK
<1>18. ASSUME NEW p \in Admin, ReplaceUndo(p) PROVE FilesOK'
  <2>1. Prev(db[p]) \in Path /\ Main(db[p]) \in Path /\ Prev(db[p]) # Main(db[p])
    BY <1>18, <1>b, Paths DEF ReplaceUndo
  <2>2. SameFiles \/ (Exists(Prev(db[p])) /\ Move(Prev(db[p]), Main(db[p])))
    BY <1>18 DEF ReplaceUndo, Attempt, Fails
  <2>. QED
    BY <1>t, <1>s, <2>1, <2>2, Moved DEF FilesOK
<1>19. ASSUME NEW p \in Admin, ReplaceClean(p) PROVE FilesOK'
  <2>1. Prev(db[p]) \in Path
    BY <1>19, <1>b DEF ReplaceClean
  <2>2. Unlink(Prev(db[p])) \/ SameFiles
    BY <1>19 DEF ReplaceClean, Attempt, Fails
  <2>. QED
    BY <1>t, <1>s, <2>1, <2>2, Unlinked DEF FilesOK
<1>20. ASSUME NEW p \in Admin, ReplaceFinish(p) PROVE FilesOK'
  <2>1. Tmp(db[p]) \in Path
    BY <1>20, <1>b DEF ReplaceFinish
  <2>2. Unlink(Tmp(db[p])) \/ SameFiles
    BY <1>20 DEF ReplaceFinish, Attempt, Fails
  <2>. QED
    BY <1>t, <1>s, <2>1, <2>2, Unlinked DEF FilesOK
<1>21. ASSUME NEW p \in Admin, NEW n \in Name, Create(p, n) \/ Import(p, n) PROVE FilesOK'
  BY <1>21, <1>s DEF Create, Import, Start, SameFiles
<1>22. ASSUME NEW p \in Admin, NEW n \in Name, Delete(p, n) PROVE FilesOK'
  BY <1>22, <1>s DEF Delete
<1>23. ASSUME NEW p \in Admin, NEW n \in Name, Replace(p, n) PROVE FilesOK'
  BY <1>23, <1>s DEF Replace, Start, SameFiles
<1>24. ASSUME NEW p \in Admin, NEW n \in Name, NEW m \in Name, Rename(p, n, m) PROVE FilesOK'
  BY <1>24, <1>s DEF Rename, Start, SameFiles
<1>25. ASSUME NEW p \in Admin, TxCancelled(p) \/ StatementFails(p) PROVE FilesOK'
  BY <1>25, <1>s DEF TxCancelled, StatementFails
<1>26. ASSUME Crash PROVE FilesOK'
  BY <1>26, <1>s DEF Crash
<1>27. CASE UNCHANGED vars
  BY <1>27, <1>s DEF vars, SameFiles
<1>. QED
  BY <1>1, <1>2, <1>3, <1>4, <1>5, <1>6, <1>7, <1>8, <1>9, <1>10, <1>11, <1>12,
     <1>13, <1>14, <1>15, <1>16, <1>17, <1>18, <1>19, <1>20, <1>21, <1>22, <1>23,
     <1>24, <1>25, <1>26, <1>27
  DEF Next, Arrive, Work

-----------------------------------------------------------------------------
(* What a step leaves alone.                                               *)

\* A step leaves the row and the files of n as they are.
Leaves(n) == row'[n] = row[n] /\ Kept(Main(n)) /\ Kept(Prev(n)) /\ Kept(Tmp(n))

\* What a request has in hand stays as it is when its names are left alone.
LEMMA Unmoved ==
    ASSUME NEW q, SameLocals(q), InHand(q), Leaves(db[q]), Renaming(q) => Leaves(to[q])
    PROVE  InHand(q)'
<1>. USE DEF SameLocals
<1>1. /\ \A d : Holds(Main(db[q]), d)' <=> Holds(Main(db[q]), d)
      /\ \A d : Holds(Prev(db[q]), d)' <=> Holds(Prev(db[q]), d)
      /\ \A d : Holds(Tmp(db[q]), d)' <=> Holds(Tmp(db[q]), d)
      /\ Exists(Main(db[q]))' <=> Exists(Main(db[q]))
      /\ Exists(Prev(db[q]))' <=> Exists(Prev(db[q]))
      /\ Exists(Tmp(db[q]))' <=> Exists(Tmp(db[q]))
  BY KeptHolds DEF Leaves
<1>2. Renaming(q) => \A d : Holds(Main(to[q]), d)' <=> Holds(Main(to[q]), d)
  BY KeptHolds DEF Leaves
<1>3. /\ (db[q] \in Registered)' <=> db[q] \in Registered
      /\ Renaming(q) => ((to[q] \in Registered)' <=> to[q] \in Registered)
  BY DEF Registered, Leaves
<1>4. Making(q, db[q])'
  BY <1>1, <1>3 DEF InHand, Making, Leaves, Kept
<1>5. Moving(q, db[q], to[q])'
  BY <1>1, <1>2, <1>3 DEF InHand, Moving, Renaming, Leaves
<1>6. Restoring(q, db[q])'
  BY <1>1, <1>3 DEF InHand, Restoring, Leaves, Kept
<1>. QED
  BY <1>4, <1>5, <1>6 DEF InHand

\* Nobody else but a rename that waits for its transaction has a name of T.
Apart(p, T) ==
    \A q \in Admin \ {p} : pc[q] \notin {"idle", "update"} => Names(q) \cap T = {}

\* No fault or cancellation has cut an operation off, and no two requests work
\* on one name.
Orderly == IInv /\ Disjoint /\ ~cutOff

\* A request outside a rename, or with the writer connection, has its names to
\* itself.
LEMMA ToItself ==
    ASSUME Orderly, NEW p \in Admin, Renaming(p) => writer = p
    PROVE  Apart(p, Names(p))
BY DEF Orderly, IInv, InStep, InHand, Moving, Disjoint, Renaming, Apart

\* So what it has a row of is under its own name, unless it moved it itself.
LEMMA Here ==
    ASSUME Orderly, NEW p \in Admin, Renaming(p) => writer = p,
           NEW n \in Name, n \in Names(p), n \in Registered, ~Away(p, n)
    PROVE  Holds(Main(n), row[n])
<1>. SUFFICES ASSUME NEW q \in Admin, Away(q, n) PROVE FALSE
  BY DEF Orderly, IInv, InStep, Backed
<1>1. q # p /\ n \in Names(q) /\ pc[q] \notin {"idle", "update"}
  BY FilesAssumption DEF Away, Names
<1>. QED
  BY <1>1, ToItself DEF Apart

\* A step of p that leaves the names outside T alone needs only look at T.
LEMMA Frame ==
    ASSUME Orderly, NEW p \in Admin, OthersWait(p), NEW T \in SUBSET Name, Apart(p, T),
           \A n \in Name \ T : Leaves(n),
           InHand(p)', \A n \in Name : n \in T \/ Away(p, n) => Backed(n)'
    PROVE  InStep'
<1>1. ASSUME NEW q \in Admin \ {p} PROVE InHand(q)'
  <2>1. SameLocals(q) /\ InHand(q)
    BY DEF OthersWait, Orderly, IInv, InStep
  <2>2. CASE pc[q] \in {"idle", "update"}
    BY <2>1, <2>2 DEF SameLocals, InHand, Making, Moving, Restoring
  <2>3. CASE pc[q] \notin {"idle", "update"}
    <3>1. db[q] \in Name /\ (Renaming(q) => to[q] \in Name)
      BY <2>3 DEF Orderly, IInv, LocalsOK
    <3>2. db[q] \notin T /\ (Renaming(q) => to[q] \notin T)
      BY <2>3, <3>1, FilesAssumption DEF Apart, Names
    <3>. QED
      BY <2>1, <3>1, <3>2, Unmoved
  <2>. QED
    BY <2>2, <2>3
<1>2. ASSUME NEW n \in Name, n \notin T, ~Away(p, n) PROVE Backed(n)'
  <2>1. Leaves(n) /\ Backed(n)
    BY <1>2 DEF Orderly, IInv, InStep
  <2>2. (n \in Registered)' <=> n \in Registered
    BY <2>1 DEF Leaves, Registered
  <2>3. Holds(Main(n), row[n]) => Holds(Main(n), row[n])'
    BY <2>1, KeptHolds DEF Leaves
  <2>4. \A q \in Admin : Away(q, n) => Away(q, n)'
    BY <1>2 DEF OthersWait, SameLocals, Away
  <2>. QED
    BY <2>1, <2>2, <2>3, <2>4 DEF Backed
<1>. QED
  BY <1>1, <1>2 DEF InStep

\* A step that touches neither rows nor files.
LEMMA StoresKept ==
    ASSUME Orderly, NEW p \in Admin, OthersWait(p), SameFiles, UNCHANGED row,
           InHand(p)', \A n \in Name : Away(p, n) => Away(p, n)'
    PROVE  InStep'
<1>1. \A n \in Name : Leaves(n)
  BY DEF SameFiles, Leaves, Kept
<1>2. \A n \in Name : Away(p, n) => Backed(n)'
  BY DEF Backed
<1>. DEFINE T == {}
<1>3. /\ T \in SUBSET Name /\ Apart(p, T)
      /\ \A n \in Name \ T : Leaves(n)
      /\ \A n \in Name : n \in T \/ Away(p, n) => Backed(n)'
  BY <1>1, <1>2 DEF Apart
<1>. HIDE DEF T
<1>. QED
  BY <1>3, Frame

\* A step on the one name of p, outside a rename.
LEMMA OneName ==
    ASSUME Orderly, NEW p \in Admin, OthersWait(p), pc[p] # "idle", ~Renaming(p),
           NEW n, n = db[p],
           \A m \in Name \ {n} : row'[m] = row[m],
           \A g \in Path \ {Main(n), Prev(n), Tmp(n)} : Kept(g),
           InHand(p)', Backed(n)'
    PROVE  InStep'
<1>1. n \in Name /\ n \in Names(p)
  BY FilesAssumption DEF Orderly, IInv, LocalsOK, Names
<1>. DEFINE T == {n}
<1>2. T \in SUBSET Name /\ Apart(p, T)
  BY <1>1, ToItself DEF Apart
<1>3. \A m \in Name \ T : Leaves(m)
  BY Paths DEF Leaves
<1>4. \A m \in Name : m \in T \/ Away(p, m) => Backed(m)'
  BY DEF Away
<1>. HIDE DEF T
<1>. QED
  BY <1>2, <1>3, <1>4, Frame

-----------------------------------------------------------------------------
(* Each operation keeps rows and files in step.                            *)

\* A request that has returned, or waits for its transaction, has nothing in hand.
LEMMA EmptyHanded ==
    \A p : /\ pc[p] \in {"idle", "update"} => InHand(p)
           /\ pc'[p] \in {"idle", "update"} => InHand(p)'
BY DEF InHand, Making, Moving, Restoring

\* What a step at p starts from.
LEMMA AtHand ==
    ASSUME Orderly, NEW p \in Admin, pc[p] # "idle"
    PROVE  /\ LocalTypes /\ FileTypes /\ Injective /\ InHand(p)
           /\ db[p] \in Name /\ db[p] \in Names(p)
BY Types, FilesAssumption DEF Orderly, IInv, InStep, LocalsOK, Names

\* Create and ImportFile: the row is inserted when the file holds the data.
LEMMA CreateKeeps ==
    ASSUME Orderly, NEW p \in Admin,
           \/ CreateOpen(p) \/ CreateInit(p) \/ ImportTruncate(p) \/ ImportWrite(p)
           \/ Register(p) \/ RemoveNew(p)
    PROVE  InStep'
<1>o. OthersWait(p)
  BY StepsAlone DEF Orderly, IInv, Work
<1>a. /\ pc[p] \in {"open", "init", "truncate", "write", "register", "remove"}
      /\ ~Renaming(p) /\ \A m : ~Away(p, m)
  BY DEF CreateOpen, CreateInit, ImportTruncate, ImportWrite, Register, RemoveNew, Renaming, Away
<1>t. /\ LocalTypes /\ FileTypes /\ Injective /\ InHand(p) /\ db[p] \in Name
      /\ pc[p] # "remove" => data[p] \in Data
  BY <1>a, AtHand DEF Orderly, IInv, LocalsOK, Bringing
<1>. PICK n \in Name : n = db[p]
  BY <1>t
<1>. PICK d : d = data[p]
  OBVIOUS
<1>m. /\ n \notin Registered
      /\ pc[p] \in {"open", "truncate"} => ~Exists(Main(n))
      /\ pc[p] = "write" => Exists(Main(n)) /\ fd[p] = disk[Main(n)]
      /\ pc[p] \in {"init", "register"} => Holds(Main(n), d)
  BY <1>a, <1>t DEF InHand, Making
<1>e. pc'[p] = "idle" => InHand(p)'
  BY EmptyHanded
<1>r. UNCHANGED row => n \notin Registered' /\ Backed(n)'
  BY <1>m DEF Registered, Backed
<1>1. CASE CreateOpen(p)
  <2>1. CASE Fails /\ Return(p) /\ UNCHANGED row
    BY <1>o, <1>a, <1>t, <1>e, <2>1, StoresKept DEF Fails, Return, End, Goto, LocalTypes
  <2>2. CASE ~(Fails /\ Return(p) /\ UNCHANGED row)
    <3>. DEFINE f == Main(n)
                c == [content EXCEPT ![Opened(f)] = data[p]]
    <3>1. /\ CanOpen(f) /\ Disk([disk EXCEPT ![f] = Opened(f)], c)
          /\ Continue(p, "init") /\ UNCHANGED row
      BY <1>1, <1>m, <2>2 DEF CreateOpen
    <3>2. f \in Path /\ Opened(f) \in Inode
      BY <3>1, <1>t, Paths DEF Opened, CanOpen, FreeInodes, FileTypes, Exists
    <3>3. /\ c \in [Inode -> Data \cup {NoData}]
          /\ \A i \in Inode \ {Opened(f)} : c[i] = content[i]
          /\ c[Opened(f)] = d
      BY <3>2, <1>t DEF FileTypes, LocalTypes
    <3>4. Holds(Main(n), d)' /\ \A g \in Path \ {Main(n)} : Kept(g)
      <4>. HIDE DEF f, c
      <4>1. /\ disk'[f] = Opened(f) /\ Exists(f)' /\ content'[disk'[f]] = c[Opened(f)]
            /\ \A g \in Path \ {f} : Kept(g)
        BY <3>1, <3>2, <3>3, <1>t, FileOpened
      <4>. QED
        BY <4>1, <3>3 DEF Holds, f
    <3>5. pc'[p] = "init" /\ db'[p] = n /\ data'[p] = d
      BY <3>1, <1>t DEF Continue, Goto, LocalTypes
    <3>6. InHand(p)'
      BY <3>4, <3>5, <1>r, <3>1 DEF InHand, Making, Moving, Restoring
    <3>. QED
      BY <1>o, <1>a, <1>r, <3>1, <3>4, <3>6, OneName
  <2>. QED
    BY <2>1, <2>2
<1>2. CASE CreateInit(p)
  <2>1. /\ SameFiles /\ UNCHANGED row
        /\ pc'[p] = "idle" \/ (pc'[p] \in {"register", "remove"} /\ db'[p] = n /\ data'[p] = d)
    BY <1>2, <1>t DEF CreateInit, Continue, Return, End, Goto, Fails, LocalTypes
  <2>3. InHand(p)'
    BY <1>2, <1>e, <1>m, <1>r, <2>1
    DEF CreateInit, InHand, Making, Moving, Restoring, SameFiles, Holds, Exists
  <2>. QED
    BY <1>o, <1>a, <2>1, <2>3, StoresKept
<1>3. CASE ImportTruncate(p)
  <2>1. CASE Fails /\ Return(p) /\ UNCHANGED row
    BY <1>o, <1>a, <1>t, <1>e, <2>1, StoresKept DEF Fails, Return, End, Goto, LocalTypes
  <2>2. CASE ~(Fails /\ Return(p) /\ UNCHANGED row)
    <3>. DEFINE f == Main(n)
                c == [content EXCEPT ![Opened(f)] = NoData]
    <3>1. /\ CanOpen(f) /\ Disk([disk EXCEPT ![f] = Opened(f)], c)
          /\ fd' = [fd EXCEPT ![p] = Opened(f)]
          /\ Goto(p, "write") /\ UNCHANGED <<row, db>>
      BY <1>3, <2>2 DEF ImportTruncate
    <3>2. f \in Path
      BY <1>t, Paths
    <3>3. /\ c \in [Inode -> Data \cup {NoData}]
          /\ \A i \in Inode \ {Opened(f)} : c[i] = content[i]
      BY <1>t DEF FileTypes
    <3>4. disk'[Main(n)] = Opened(f) /\ Exists(Main(n))' /\ \A g \in Path \ {Main(n)} : Kept(g)
      <4>. HIDE DEF f, c
      <4>1. /\ disk'[f] = Opened(f) /\ Exists(f)'
            /\ \A g \in Path \ {f} : Kept(g)
        BY <3>1, <3>2, <3>3, <1>t, FileOpened
      <4>. QED
        BY <4>1 DEF f
    <3>5. pc'[p] = "write" /\ db'[p] = n /\ fd'[p] = Opened(f)
      BY <3>1, <1>t DEF Goto, LocalTypes
    <3>6. InHand(p)'
      BY <3>4, <3>5, <1>r, <3>1 DEF InHand, Making, Moving, Restoring
    <3>. QED
      BY <1>o, <1>a, <1>r, <3>1, <3>4, <3>6, OneName
  <2>. QED
    BY <2>1, <2>2
<1>4. CASE ImportWrite(p)
  <2>1. CASE Fails /\ Return(p) /\ UNCHANGED row
    BY <1>o, <1>a, <1>t, <1>e, <2>1, StoresKept DEF Fails, Return, End, Goto, LocalTypes
  <2>2. CASE ~(Fails /\ Return(p) /\ UNCHANGED row)
    <3>1. /\ pc[p] = "write" /\ WriteOpenFile(p) /\ Continue(p, "register") /\ UNCHANGED row
      BY <1>4, <2>2 DEF ImportWrite
    <3>2. Holds(Main(n), d)' /\ \A g \in Path \ {Main(n)} : Kept(g)
      BY <3>1, <1>m, <1>t, Paths, Written DEF Holds, Exists
    <3>3. pc'[p] = "register" /\ db'[p] = n /\ data'[p] = d
      BY <3>1, <1>t DEF Continue, Goto, LocalTypes
    <3>4. InHand(p)'
      BY <3>2, <3>3, <1>r, <3>1 DEF InHand, Making, Moving, Restoring
    <3>. QED
      BY <1>o, <1>a, <1>r, <3>1, <3>2, <3>4, OneName
  <2>. QED
    BY <2>1, <2>2
<1>5. CASE Register(p)
  <2>1. row' = [row EXCEPT ![n] = d] /\ Return(p) /\ SameFiles
    BY <1>5, <1>m DEF Register
  <2>2. row \in [Name -> Data \cup {NoData}]
    BY DEF Orderly, IInv, TypeOK
  <2>3. row'[n] = d /\ \A m \in Name \ {n} : row'[m] = row[m]
    BY <2>1, <2>2
  <2>4. Backed(n)'
    BY <1>5, <1>m, <2>1, <2>3 DEF Register, Backed, SameFiles, Holds, Exists
  <2>5. \A g \in Path \ {Main(n), Prev(n), Tmp(n)} : Kept(g)
    BY <2>1 DEF SameFiles, Kept
  <2>6. InHand(p)'
    BY <1>e, <1>t, <2>1 DEF Return, End, Goto, LocalTypes
  <2>. QED
    BY <1>o, <1>a, <2>3, <2>4, <2>5, <2>6, OneName
<1>6. CASE RemoveNew(p)
  <2>1. (Unlink(Main(n)) \/ SameFiles) /\ Return(p) /\ UNCHANGED row
    BY <1>6 DEF RemoveNew, Attempt, Fails
  <2>2. \A g \in Path \ {Main(n), Prev(n), Tmp(n)} : Kept(g)
    BY <2>1, <1>t, Paths, Unlinked DEF SameFiles, Kept
  <2>3. InHand(p)'
    BY <1>e, <1>t, <2>1 DEF Return, End, Goto, LocalTypes
  <2>. QED
    BY <1>o, <1>a, <1>r, <2>1, <2>2, <2>3, OneName
<1>. QED
  BY <1>1, <1>2, <1>3, <1>4, <1>5, <1>6

\* Delete: the file goes after the row.
LEMMA DeleteKeeps ==
    ASSUME Orderly, NEW p \in Admin, DeleteClose(p) \/ DeleteUnlink(p)
    PROVE  InStep'
<1>o. OthersWait(p)
  BY StepsAlone DEF Orderly, IInv, Work
<1>a. pc[p] \in {"closeDropped", "unlink"} /\ ~Renaming(p) /\ \A m : ~Away(p, m)
  BY DEF DeleteClose, DeleteUnlink, Renaming, Away
<1>t. LocalTypes /\ FileTypes /\ Injective /\ InHand(p) /\ db[p] \in Name
  BY <1>a, AtHand
<1>. PICK n \in Name : n = db[p]
  BY <1>t
<1>m. n \notin Registered
  BY <1>a, <1>t DEF InHand, Making
<1>1. CASE DeleteClose(p)
  <2>1. /\ SameFiles /\ UNCHANGED row
        /\ pc'[p] = "idle" \/ (pc'[p] = "unlink" /\ db'[p] = n)
    BY <1>1, <1>t DEF DeleteClose, Continue, Return, End, Goto, LocalTypes
  <2>2. InHand(p)'
    BY <1>m, <2>1 DEF InHand, Making, Moving, Restoring, Registered
  <2>. QED
    BY <1>o, <1>a, <2>1, <2>2, StoresKept
<1>2. CASE DeleteUnlink(p)
  <2>1. (Unlink(Main(n)) \/ SameFiles) /\ Return(p) /\ UNCHANGED row
    BY <1>2 DEF DeleteUnlink, Attempt, Fails
  <2>2. \A g \in Path \ {Main(n), Prev(n), Tmp(n)} : Kept(g)
    BY <2>1, <1>t, Paths, Unlinked DEF SameFiles, Kept
  <2>3. InHand(p)' /\ Backed(n)'
    BY <1>m, <1>t, <2>1, EmptyHanded DEF Return, End, Goto, LocalTypes, Backed, Registered
  <2>. QED
    BY <1>o, <1>a, <2>1, <2>2, <2>3, OneName
<1>. QED
  BY <1>1, <1>2

\* Rename: the file and the row go to the new name while p has the writer
\* connection.
LEMMA RenameKeeps ==
    ASSUME Orderly, NEW p \in Admin,
           RenameUpdate(p) \/ RenameClose(p) \/ RenameMove(p) \/ RenameCommit(p)
    PROVE  InStep'
<1>o. OthersWait(p)
  BY StepsAlone DEF Orderly, IInv, Work
<1>a. Renaming(p)
  BY DEF RenameUpdate, RenameClose, RenameMove, RenameCommit, Renaming
<1>t. /\ LocalTypes /\ FileTypes /\ Injective /\ InHand(p)
      /\ db[p] \in Name /\ to[p] \in Name /\ db[p] # to[p]
  BY <1>a, AtHand DEF Renaming, Orderly, IInv, LocalsOK
<1>. PICK n \in Name, m \in Name : n = db[p] /\ m = to[p]
  BY <1>t
<1>. DEFINE T == {n, m}
<1>p. /\ n # m /\ T \in SUBSET Name /\ T = Names(p)
      /\ row \in [Name -> Data \cup {NoData}]
      /\ \A k \in Name \ T : /\ Main(k) \in Path \ {Main(n), Main(m)}
                             /\ Prev(k) \in Path \ {Main(n), Main(m)}
                             /\ Tmp(k) \in Path \ {Main(n), Main(m)}
  BY <1>t, Paths, FilesAssumption DEF Names, Orderly, IInv, TypeOK
<1>m. /\ pc[p] \in {"close", "move", "commit"} =>
            writer = p /\ n \in Registered /\ m \notin Registered
      /\ pc[p] = "commit" => Holds(Main(m), row[n]) /\ ~Exists(Main(n))
  BY <1>t DEF InHand, Moving
<1>. HIDE DEF T
<1>1. CASE RenameUpdate(p)
  <2>1. /\ SameFiles /\ UNCHANGED row /\ \A k : ~Away(p, k)
        /\ \/ pc'[p] = "idle"
           \/ /\ pc'[p] = "close" /\ db'[p] = n /\ to'[p] = m
              /\ n \in Registered /\ m \notin Registered /\ writer' = p
    BY <1>1, <1>t DEF RenameUpdate, Continue, Return, End, Goto, LocalTypes, Away
  <2>2. InHand(p)'
    BY <2>1 DEF InHand, Making, Moving, Restoring, Registered
  <2>. QED
    BY <1>o, <2>1, <2>2, StoresKept
<1>2. CASE RenameClose(p)
  <2>1. /\ SameFiles /\ UNCHANGED row /\ \A k : ~Away(p, k)
        /\ \/ pc'[p] = "idle"
           \/ pc'[p] = "move" /\ db'[p] = n /\ to'[p] = m /\ writer' = writer
    BY <1>2, <1>t DEF RenameClose, Continue, Return, End, Goto, LocalTypes, Away
  <2>2. InHand(p)'
    BY <1>2, <1>m, <2>1 DEF RenameClose, InHand, Making, Moving, Restoring, Registered
  <2>. QED
    BY <1>o, <2>1, <2>2, StoresKept
<1>3. CASE RenameMove(p)
  <2>1. UNCHANGED row /\ pc[p] = "move" /\ \A k : ~Away(p, k)
    BY <1>3 DEF RenameMove, Away
  <2>2. CASE SameFiles /\ Return(p)
    <3>1. pc'[p] = "idle"
      BY <2>2, <1>t DEF Return, End, Goto, LocalTypes
    <3>. QED
      BY <1>o, <2>1, <2>2, <3>1, EmptyHanded, StoresKept
  <2>3. CASE ~(SameFiles /\ Return(p))
    <3>1. /\ Exists(Main(n)) /\ Move(Main(n), Main(m))
          /\ Continue(p, "commit") /\ UNCHANGED writer
      BY <1>3, <2>3 DEF RenameMove
    <3>2. Holds(Main(n), row[n])
      BY <1>m, <1>p, <2>1, Here DEF T
    <3>3. /\ Holds(Main(m), row[n])' /\ ~Exists(Main(n))'
          /\ \A g \in Path \ {Main(n), Main(m)} : Kept(g)
      <4>1. Main(n) \in Path /\ Main(m) \in Path /\ Main(n) # Main(m)
        BY <1>p, Paths
      <4>. PICK e : e = row[n]
        OBVIOUS
      <4>2. /\ Holds(Main(m), e)' /\ ~Exists(Main(n))'
            /\ \A g \in Path \ {Main(n), Main(m)} : Kept(g)
        BY <1>t, <3>1, <3>2, <4>1, Moved
      <4>. QED
        BY <2>1, <4>2 DEF Holds
    <3>4. pc'[p] = "commit" /\ db'[p] = n /\ to'[p] = m
      BY <3>1, <1>t DEF Continue, Goto, LocalTypes
    <3>5. InHand(p)'
      BY <1>m, <2>1, <3>1, <3>3, <3>4 DEF InHand, Making, Moving, Restoring, Registered
    <3>6. \A k \in Name \ T : Leaves(k)
      BY <1>p, <2>1, <3>3 DEF Leaves
    <3>7. \A k \in Name : k \in T \/ Away(p, k) => Backed(k)'
      BY <1>m, <2>1, <3>4 DEF T, Backed, Away, Registered
    <3>8. Apart(p, T)
      BY <1>m, <1>p, <2>1, ToItself
    <3>. QED
      BY <1>o, <1>p, <3>5, <3>6, <3>7, <3>8, Frame
  <2>. QED
    BY <2>2, <2>3
<1>4. CASE RenameCommit(p)
  <2>. SUFFICES ASSUME ~cutOff' PROVE InStep'
    BY DEF InStep
  <2>1. /\ pc[p] = "commit" /\ SameFiles /\ End(p)
        /\ row' = [row EXCEPT ![m] = row[n], ![n] = NoData]
    BY <1>4, <1>m DEF RenameCommit
  <2>2. row'[m] = row[n] /\ row'[n] = NoData /\ \A k \in Name \ T : row'[k] = row[k]
    BY <1>p, <2>1 DEF T
  <2>3. \A k \in Name \ T : Leaves(k)
    BY <2>1, <2>2 DEF Leaves, SameFiles, Kept
  <2>4. Backed(n)' /\ Backed(m)'
    BY <1>m, <2>1, <2>2 DEF Backed, Registered, SameFiles, Holds, Exists
  <2>5. \A k \in Name : k \in T \/ Away(p, k) => Backed(k)'
    BY <2>4 DEF T, Away
  <2>6. InHand(p)'
    BY <1>t, <2>1, EmptyHanded DEF End, LocalTypes
  <2>7. Apart(p, T)
    BY <1>m, <1>p, <2>1, ToItself
  <2>. QED
    BY <1>o, <1>p, <2>3, <2>5, <2>6, <2>7, Frame
<1>. QED
  BY <1>1, <1>2, <1>3, <1>4

\* ReplaceFile: the original is set aside, not removed, until the replacement is
\* in its place.
LEMMA ReplaceKeeps ==
    ASSUME Orderly, NEW p \in Admin,
           \/ ReplaceClose(p) \/ ReplaceStage(p) \/ ReplaceCopy(p) \/ ReplaceAside(p)
           \/ ReplaceInstall(p) \/ ReplaceUndo(p) \/ ReplaceClean(p) \/ ReplaceFinish(p)
    PROVE  InStep'
<1>o. OthersWait(p)
  BY StepsAlone DEF Orderly, IInv, Work
<1>a. /\ pc[p] \in {"closeReplaced", "stage", "copy", "aside", "install", "undo",
                    "clean", "finish"}
      /\ ~Renaming(p)
  BY DEF ReplaceClose, ReplaceStage, ReplaceCopy, ReplaceAside, ReplaceInstall, ReplaceUndo,
         ReplaceClean, ReplaceFinish, Renaming
<1>t. /\ LocalTypes /\ FileTypes /\ Injective /\ InHand(p)
      /\ db[p] \in Name /\ db[p] \in Names(p)
      /\ row \in [Name -> Data \cup {NoData}]
      /\ pc[p] \in {"closeReplaced", "stage", "copy", "aside", "install"} => data[p] \in Data
  BY <1>a, AtHand DEF Orderly, IInv, LocalsOK, Bringing, TypeOK
<1>. PICK d, e : d = data[p] /\ e = row[db[p]]
  OBVIOUS
<1>. PICK n \in Name : n = db[p] /\ e = row[n]
  BY <1>t
<1>. DEFINE Mine == {Main(n), Prev(n), Tmp(n)}
<1>p. /\ Main(n) \in Path /\ Prev(n) \in Path /\ Tmp(n) \in Path
      /\ Main(n) # Prev(n) /\ Main(n) # Tmp(n) /\ Prev(n) # Tmp(n)
  BY Paths
<1>m. /\ n \in Registered
      /\ pc[p] = "copy" => Exists(Tmp(n)) /\ fd[p] = disk[Tmp(n)]
      /\ pc[p] \in {"aside", "install"} => Holds(Tmp(n), d)
      /\ pc[p] \in {"install", "undo"} =>
            Holds(Prev(n), e) /\ ~Exists(Main(n)) /\ setAside[p]
  BY <1>a, <1>t DEF InHand, Restoring
<1>h. pc[p] \notin {"install", "undo"} => Holds(Main(n), e)
  BY <1>a, <1>t, <1>m, Here DEF Away
<1>r. UNCHANGED row => /\ n \in Registered' /\ row'[n] = e
                       /\ \A m \in Name \ {n} : row'[m] = row[m]
  BY <1>m DEF Registered
\* The file under the name is left alone, and so is the row.
<1>k. Kept(Main(n)) /\ UNCHANGED row /\ pc[p] \notin {"install", "undo"} => Backed(n)'
  BY <1>h, <1>r, KeptHolds DEF Backed, Holds
\* A step that ends in the state of the files it starts from.
<1>s. ASSUME SameFiles, UNCHANGED row, InHand(p)', \A m : Away(p, m) => Away(p, m)'
      PROVE  InStep'
  BY <1>o, <1>s, StoresKept
<1>n. ASSUME \A m \in Name \ {n} : row'[m] = row[m], \A g \in Path \ Mine : Kept(g),
             InHand(p)', Backed(n)'
      PROVE  InStep'
  BY <1>o, <1>a, <1>n, OneName
<1>l. ASSUME db' = db, data' = data, UNCHANGED row,
             pc'[p] \in {"stage", "clean", "finish"} \cup {"idle"}
      PROVE  InHand(p)'
  BY <1>l, <1>r DEF InHand, Making, Moving, Restoring
<1>e. Return(p) => pc'[p] = "idle" /\ InHand(p)'
  BY <1>t, EmptyHanded DEF Return, End, Goto, LocalTypes
<1>. HIDE DEF Mine
<1>1. CASE ReplaceClose(p)
  <2>1. SameFiles /\ UNCHANGED row /\ \A m : ~Away(p, m)
    BY <1>1 DEF ReplaceClose, Away
  <2>2. InHand(p)'
    BY <1>1, <1>e, <1>l, <1>t DEF ReplaceClose, Continue, Goto, LocalTypes
  <2>. QED
    BY <1>s, <2>1, <2>2
<1>2. CASE ReplaceStage(p)
  <2>1. UNCHANGED row /\ pc[p] = "stage" /\ \A m : ~Away(p, m)
    BY <1>2 DEF ReplaceStage, Away
  <2>2. CASE SameFiles /\ Return(p)
    BY <1>e, <1>s, <2>1, <2>2
  <2>3. CASE ~(SameFiles /\ Return(p))
    <3>. DEFINE f == Tmp(n)
                c == [content EXCEPT ![Opened(f)] = NoData]
    <3>1. /\ CanOpen(f) /\ Disk([disk EXCEPT ![f] = Opened(f)], c)
          /\ fd' = [fd EXCEPT ![p] = Opened(f)]
          /\ Goto(p, "copy") /\ UNCHANGED db
      BY <1>2, <2>3 DEF ReplaceStage, Fails
    <3>2. /\ c \in [Inode -> Data \cup {NoData}]
          /\ \A i \in Inode \ {Opened(f)} : c[i] = content[i]
      BY <1>t DEF FileTypes
    <3>3. disk'[f] = Opened(f) /\ Exists(Tmp(n))' /\ \A g \in Path \ {f} : Kept(g)
      <4>. HIDE DEF c
      <4>. QED
        BY <1>p, <1>t, <3>1, <3>2, FileOpened
    <3>4. pc'[p] = "copy" /\ db'[p] = n /\ fd'[p] = Opened(f)
      BY <3>1, <1>t DEF Goto, LocalTypes
    <3>5. InHand(p)'
      BY <1>r, <2>1, <3>3, <3>4 DEF InHand, Making, Moving, Restoring
    <3>6. Backed(n)' /\ \A g \in Path \ Mine : Kept(g)
      BY <1>k, <1>p, <2>1, <3>3 DEF Mine
    <3>. QED
      BY <1>n, <1>r, <2>1, <3>5, <3>6
  <2>. QED
    BY <2>2, <2>3
<1>3. CASE ReplaceCopy(p)
  <2>1. UNCHANGED row /\ pc[p] = "copy" /\ \A m : ~Away(p, m)
    BY <1>3 DEF ReplaceCopy, Away
  <2>2. CASE SameFiles /\ Return(p)
    BY <1>e, <1>s, <2>1, <2>2
  <2>3. CASE ~(SameFiles /\ Return(p))
    <3>1. WriteOpenFile(p) /\ Continue(p, "aside")
      BY <1>3, <2>3 DEF ReplaceCopy, Fails
    <3>2. Holds(Tmp(n), d)' /\ \A g \in Path \ {Tmp(n)} : Kept(g)
      BY <1>m, <1>p, <1>t, <2>1, <3>1, Written DEF Holds, Exists
    <3>3. pc'[p] = "aside" /\ db'[p] = n /\ data'[p] = d
      BY <3>1, <1>t DEF Continue, Goto, LocalTypes
    <3>4. InHand(p)'
      BY <1>r, <2>1, <3>2, <3>3 DEF InHand, Making, Moving, Restoring
    <3>5. Backed(n)' /\ \A g \in Path \ Mine : Kept(g)
      BY <1>k, <1>p, <2>1, <3>2 DEF Mine
    <3>. QED
      BY <1>n, <1>r, <2>1, <3>4, <3>5
  <2>. QED
    BY <2>2, <2>3
<1>4. CASE ReplaceAside(p)
  <2>1. UNCHANGED row /\ pc[p] = "aside" /\ \A m : ~Away(p, m)
    BY <1>4 DEF ReplaceAside, Away
  <2>2. CASE SameFiles /\ Continue(p, "finish")
    <3>1. InHand(p)'
      BY <1>l, <1>t, <2>1, <2>2 DEF Continue, Goto, LocalTypes
    <3>. QED
      BY <1>s, <2>1, <2>2, <3>1
  <2>3. CASE ~(SameFiles /\ Continue(p, "finish"))
    <3>1. /\ Exists(Main(n)) /\ Move(Main(n), Prev(n))
          /\ Goto(p, "install") /\ UNCHANGED <<db, data>>
          /\ setAside' = [setAside EXCEPT ![p] = TRUE]
      BY <1>4, <1>h, <2>3 DEF ReplaceAside, Fails, Holds
    <3>2. /\ Holds(Prev(n), e)' /\ ~Exists(Main(n))'
          /\ \A g \in Path \ {Main(n), Prev(n)} : Kept(g)
      BY <1>h, <1>p, <1>t, <2>1, <3>1, Moved
    <3>3. Holds(Tmp(n), d)'
      BY <1>m, <1>p, <2>1, <3>2, KeptHolds
    <3>4. pc'[p] = "install" /\ db'[p] = n /\ data'[p] = d /\ setAside'[p]
      BY <3>1, <1>t DEF Goto, LocalTypes
    <3>5. InHand(p)'
      BY <1>r, <2>1, <3>2, <3>3, <3>4 DEF InHand, Making, Moving, Restoring, Holds
    <3>6. Backed(n)' /\ \A g \in Path \ Mine : Kept(g)
      BY <3>2, <3>4 DEF Backed, Away, Mine
    <3>. QED
      BY <1>n, <1>r, <2>1, <3>5, <3>6
  <2>. QED
    BY <2>2, <2>3
<1>5. CASE ReplaceInstall(p)
  <2>1. pc[p] = "install"
    BY <1>5 DEF ReplaceInstall
  <2>2. CASE SameFiles /\ UNCHANGED row /\ Continue(p, "undo")
    <3>1. pc'[p] = "undo" /\ db'[p] = n /\ setAside'[p] = setAside[p]
      BY <1>t, <2>2 DEF Continue, Goto, LocalTypes
    <3>2. InHand(p)'
      BY <1>m, <1>r, <2>1, <2>2, <3>1
      DEF InHand, Making, Moving, Restoring, SameFiles, Holds, Exists
    <3>3. \A m : Away(p, m) => Away(p, m)'
      BY <3>1 DEF Away
    <3>. QED
      BY <1>s, <2>2, <3>2, <3>3
  <2>3. CASE ~(SameFiles /\ UNCHANGED row /\ Continue(p, "undo"))
    <3>1. /\ Exists(Tmp(n)) /\ Move(Tmp(n), Main(n)) /\ Continue(p, "clean")
          /\ row' = [row EXCEPT ![n] = d]
      BY <1>5, <1>m, <2>1, <2>3 DEF ReplaceInstall
    <3>2. Holds(Main(n), d)' /\ \A g \in Path \ {Main(n), Tmp(n)} : Kept(g)
      BY <1>m, <1>p, <1>t, <2>1, <3>1, Moved
    <3>3. row'[n] = d /\ d # NoData /\ \A m \in Name \ {n} : row'[m] = row[m]
      BY <1>t, <2>1, <3>1, FilesAssumption
    <3>4. pc'[p] = "clean" /\ db'[p] = n
      BY <3>1, <1>t DEF Continue, Goto, LocalTypes
    <3>5. InHand(p)'
      BY <3>3, <3>4 DEF InHand, Making, Moving, Restoring, Registered
    <3>6. Backed(n)' /\ \A g \in Path \ Mine : Kept(g)
      BY <3>2, <3>3 DEF Backed, Mine, Holds
    <3>. QED
      BY <1>n, <3>3, <3>5, <3>6
  <2>. QED
    BY <2>2, <2>3
<1>6. CASE ReplaceUndo(p)
  <2>1. UNCHANGED <<row, db, data>> /\ pc[p] = "undo" /\ pc' = [pc EXCEPT ![p] = "finish"]
    BY <1>6 DEF ReplaceUndo
  <2>2. CASE ~Move(Prev(n), Main(n))
    <3>1. cutOff'
      BY <1>6, <1>m, <2>1, <2>2 DEF ReplaceUndo, Attempt, Fails, Fault, Holds, Orderly, IInv, TypeOK
    <3>. QED
      BY <3>1 DEF InStep
  <2>3. CASE Move(Prev(n), Main(n))
    <3>1. Holds(Main(n), e)' /\ \A g \in Path \ {Prev(n), Main(n)} : Kept(g)
      BY <1>m, <1>p, <1>t, <2>1, <2>3, Moved DEF Holds
    <3>2. InHand(p)'
      BY <1>l, <1>t, <2>1 DEF LocalTypes
    <3>3. Backed(n)' /\ \A g \in Path \ Mine : Kept(g)
      BY <1>r, <2>1, <3>1 DEF Backed, Mine, Holds
    <3>. QED
      BY <1>n, <1>r, <2>1, <3>2, <3>3
  <2>. QED
    BY <2>2, <2>3
<1>7. CASE ReplaceClean(p)
  <2>1. /\ UNCHANGED row /\ pc[p] = "clean" /\ Continue(p, "finish")
        /\ Unlink(Prev(n)) \/ SameFiles
    BY <1>7 DEF ReplaceClean, Attempt, Fails
  <2>2. \A g \in Path \ {Prev(n)} : Kept(g)
    BY <1>p, <1>t, <2>1, Unlinked DEF SameFiles, Kept
  <2>3. InHand(p)'
    BY <1>l, <1>t, <2>1 DEF Continue, Goto, LocalTypes
  <2>4. Backed(n)' /\ \A g \in Path \ Mine : Kept(g)
    BY <1>k, <1>p, <2>1, <2>2 DEF Mine
  <2>. QED
    BY <1>n, <1>r, <2>1, <2>3, <2>4
<1>8. CASE ReplaceFinish(p)
  <2>1. /\ UNCHANGED row /\ pc[p] = "finish" /\ Return(p)
        /\ Unlink(Tmp(n)) \/ SameFiles
    BY <1>8 DEF ReplaceFinish, Attempt, Fails
  <2>2. \A g \in Path \ {Tmp(n)} : Kept(g)
    BY <1>p, <1>t, <2>1, Unlinked DEF SameFiles, Kept
  <2>3. Backed(n)' /\ \A g \in Path \ Mine : Kept(g)
    BY <1>k, <1>p, <2>1, <2>2 DEF Mine
  <2>. QED
    BY <1>e, <1>n, <1>r, <2>1, <2>3
<1>. QED
  BY <1>1, <1>2, <1>3, <1>4, <1>5, <1>6, <1>7, <1>8

\* A request that begins finds rows and files in step, and leaves them so; Delete
\* removes the row at once.
LEMMA ArriveKeeps ==
    ASSUME Orderly, Disjoint', LocalsOK', NEW p \in Admin, Arrive(p)
    PROVE  InStep'
<1>o. OthersWait(p)
  BY StepsAlone DEF Orderly, IInv
<1>a. pc[p] = "idle" /\ \A m : ~Away(p, m)
  BY DEF Arrive, Create, Import, Delete, Replace, Rename, Start, Away
<1>t. LocalTypes /\ row \in [Name -> Data \cup {NoData}] /\ \A q \in Admin : InHand(q)
  BY Types DEF Orderly, IInv, InStep, TypeOK
\* Nobody works on the name that p is given.
<1>d. ASSUME NEW n \in Name, db'[p] = n, pc'[p] \notin {"idle", "update", "close", "move", "commit"},
             NEW q \in Admin \ {p}, pc[q] # "idle"
      PROVE  n \notin Names(q)
  <2>1. Names(q)' = Names(q)
    BY <1>o DEF OthersWait, SameLocals, Names
  <2>2. n \in Names(p)' /\ ~Renaming(p)'
    BY <1>d, FilesAssumption DEF Names, Renaming
  <2>. QED
    BY <2>1, <2>2 DEF Disjoint
<1>1. ASSUME NEW n \in Name, Create(p, n) \/ Import(p, n) PROVE InStep'
  <2>1. /\ SameFiles /\ UNCHANGED row /\ ~Exists(Main(n)) /\ db'[p] = n
        /\ pc'[p] \in {"open", "truncate"}
    BY <1>1, <1>t DEF Create, Import, Start, Goto, SameFiles, LocalTypes
  <2>2. n \notin Registered
    <3>. SUFFICES ASSUME NEW q \in Admin, Away(q, n) PROVE FALSE
      BY <2>1 DEF Orderly, IInv, InStep, Backed, Holds
    <3>1. q # p /\ n \in Names(q) /\ pc[q] # "idle"
      BY <1>a, FilesAssumption DEF Away, Names
    <3>. QED
      BY <1>d, <2>1, <3>1
  <2>3. InHand(p)'
    BY <2>1, <2>2 DEF InHand, Making, Moving, Restoring, Registered, SameFiles, Exists
  <2>. QED
    BY <1>a, <1>o, <2>1, <2>3, StoresKept
<1>2. ASSUME NEW n \in Name, Delete(p, n) PROVE InStep'
  <2>1. /\ SameFiles /\ row' = [row EXCEPT ![n] = NoData]
        /\ pc'[p] = "closeDropped" /\ db'[p] = n
    BY <1>2, <1>t DEF Delete, Goto, LocalTypes
  <2>2. row'[n] = NoData /\ \A m \in Name \ {n} : row'[m] = row[m]
    BY <1>t, <2>1
  <2>3. InHand(p)' /\ Backed(n)'
    BY <2>1, <2>2 DEF InHand, Making, Moving, Restoring, Registered, Backed
  <2>. DEFINE T == {n}
  <2>4. Apart(p, T) /\ T \in SUBSET Name
    BY <1>d, <2>1 DEF Apart
  <2>5. \A m \in Name \ T : Leaves(m)
    BY <2>1, <2>2 DEF Leaves, SameFiles, Kept
  <2>6. \A m \in Name : m \in T \/ Away(p, m) => Backed(m)'
    BY <1>a, <2>3
  <2>. HIDE DEF T
  <2>. QED
    BY <1>o, <2>3, <2>4, <2>5, <2>6, Frame
<1>3. ASSUME NEW n \in Name, Replace(p, n) PROVE InStep'
  <2>1. /\ SameFiles /\ UNCHANGED row /\ n \in Registered
        /\ pc'[p] = "closeReplaced" /\ db'[p] = n
    BY <1>3, <1>t DEF Replace, Start, Goto, SameFiles, LocalTypes
  <2>2. InHand(p)'
    BY <2>1 DEF InHand, Making, Moving, Restoring, Registered
  <2>. QED
    BY <1>a, <1>o, <2>1, <2>2, StoresKept
<1>4. ASSUME NEW n \in Name, NEW m \in Name, Rename(p, n, m) PROVE InStep'
  <2>1. SameFiles /\ UNCHANGED row /\ pc'[p] = "update"
    BY <1>4, <1>t DEF Rename, Start, Goto, SameFiles, LocalTypes
  <2>. QED
    BY <1>a, <1>o, <2>1, EmptyHanded, StoresKept
<1>. QED
  BY <1>1, <1>2, <1>3, <1>4 DEF Arrive

\* The statement of a create, an import or a rename fails or is cancelled.
LEMMA CancelKeeps ==
    ASSUME Orderly, NEW p \in Admin, StatementFails(p)
    PROVE  InStep'
<1>o. OthersWait(p)
  BY StepsAlone DEF Orderly, IInv
<1>t. LocalTypes /\ InHand(p)
  BY AtHand DEF StatementFails
<1>1. /\ SameFiles /\ UNCHANGED row /\ \A m : ~Away(p, m)
      /\ pc'[p] = "idle" \/ (pc[p] = "register" /\ pc'[p] = "remove" /\ db'[p] = db[p])
  BY <1>t DEF StatementFails, Continue, Return, End, Goto, LocalTypes, Away
<1>2. InHand(p)'
  BY <1>t, <1>1 DEF InHand, Making, Moving, Restoring, Registered
<1>. QED
  BY <1>o, <1>1, <1>2, StoresKept

-----------------------------------------------------------------------------
(* Theorems.                                                               *)

\* A data directory in step with the databases table, one file to a name.
LEMMA Starts == Init => IInv /\ Disjoint
<1>. SUFFICES ASSUME Init PROVE IInv /\ Disjoint
  OBVIOUS
<1>. DEFINE d == CHOOSE f \in [Existing -> Data] : OneToOne(f)
            i == CHOOSE f \in [Existing -> Inode] : OneToOne(f)
<1>1. /\ d \in [Existing -> Data] /\ OneToOne(d)
      /\ i \in [Existing -> Inode] /\ OneToOne(i)
  BY FilesAssumption
<1>2. /\ row = [n \in Name |-> IF n \in Existing THEN d[n] ELSE NoData]
      /\ disk = [f \in Path |-> IF f[1] = "main" /\ f[2] \in Existing THEN i[f[2]] ELSE NoInode]
      /\ content = [j \in Inode |-> IF \E n \in Existing : i[n] = j
                                    THEN d[CHOOSE n \in Existing : i[n] = j] ELSE NoData]
  BY DEF Init
<1>. HIDE DEF d, i
<1>3. LocalTypes /\ StoreTypes
  <2>1. LocalTypes /\ writer = Nobody /\ faults = 0
    BY DEF Init, LocalTypes, PC
  <2>2. row \in [Name -> Data \cup {NoData}]
    BY <1>1, <1>2
  <2>. QED
    BY <2>1, <2>2, FilesAssumption DEF StoreTypes
<1>4. FileTypes /\ Injective
  <2>1. disk \in [Path -> Inode \cup {NoInode}]
    BY <1>1, <1>2
  <2>2. content \in [Inode -> Data \cup {NoData}]
    BY <1>1, <1>2
  <2>3. ASSUME NEW f \in Path, NEW g \in Path, Exists(f), disk[f] = disk[g] PROVE f = g
    <3>1. /\ f[1] = "main" /\ g[1] = "main" /\ f[2] \in Existing /\ g[2] \in Existing
          /\ i[f[2]] = i[g[2]]
      BY <1>1, <1>2, <2>3, FilesAssumption DEF Exists
    <3>. QED
      BY <1>1, <3>1 DEF OneToOne, Path
  <2>. QED
    BY <2>1, <2>2, <2>3 DEF FileTypes, Injective
<1>8. WriterTypes
  BY FilesAssumption DEF Init, WriterTypes
<1>5. LocalsOK /\ Disjoint
  BY DEF Init, LocalsOK, Disjoint, Names, Renaming, Bringing
<1>6. ASSUME NEW n \in Name, n \in Registered PROVE Holds(Main(n), row[n])
  <2>1. n \in Existing /\ row[n] = d[n]
    BY <1>2, <1>6 DEF Registered
  <2>2. disk[Main(n)] = i[n] /\ i[n] \in Inode
    BY <1>1, <1>2, <2>1 DEF Main, Path
  <2>3. content[i[n]] = d[n]
    BY <1>1, <1>2, <2>1, <2>2 DEF OneToOne
  <2>. QED
    BY <2>1, <2>2, <2>3, FilesAssumption DEF Holds, Exists
<1>7. InStep
  BY <1>6, EmptyHanded DEF Init, InStep, Backed
<1>. QED
  BY <1>3, <1>4, <1>5, <1>7, <1>8, Types DEF IInv

\* What holds of any requests: types, locals, and no two paths to one file.
Shape == TypeOK /\ LocalsOK /\ Injective

\* Every step keeps that.
LEMMA ShapeStep == Shape /\ [Next]_vars => Shape'
<1>. SUFFICES ASSUME Shape, [Next]_vars PROVE Shape'
  OBVIOUS
<1>1. LocalsOK' /\ LocalTypes' /\ StoreTypes' /\ WriterTypes' /\ FilesOK'
  BY LocalsStep, LocalTypesStep, StoreTypesStep, WriterStep, FilesStep DEF Shape
<1>. QED
  BY <1>1 DEF Shape, FilesOK, TypeOK, LocalTypes, StoreTypes, WriterTypes, FileTypes

\* Every step of the manager keeps rows and files in step, if no two requests
\* work on one name before it and after it.
LEMMA InStepKept == IInv /\ Disjoint /\ Disjoint' /\ [Next]_vars => IInv'
<1>. SUFFICES ASSUME IInv, Disjoint, Disjoint', [Next]_vars PROVE IInv'
  OBVIOUS
<1>1. Shape'
  BY ShapeStep DEF IInv, Shape
<1>2. InStep'
  <2>. SUFFICES ASSUME ~cutOff' PROVE InStep'
    BY DEF InStep
  <2>1. CASE UNCHANGED vars
    BY <2>1 DEF vars, procVars, IInv, InStep, InHand, Making, Moving, Restoring, Backed, Away,
                Registered, Holds, Exists
  <2>2. CASE Crash
    BY <2>2 DEF Crash
  <2>3. ASSUME NEW p \in Admin, TxCancelled(p) PROVE InStep'
    BY <2>3 DEF TxCancelled
  <2>4. ASSUME NEW p \in Admin, Arrive(p) \/ Work(p) \/ StatementFails(p) PROVE InStep'
    <3>1. CASE ~cutOff
      <4>1. Orderly
        BY <3>1 DEF Orderly
      <4>2. CASE Arrive(p)
        BY <1>1, <4>1, <4>2, ArriveKeeps DEF Shape
      <4>3. CASE StatementFails(p)
        BY <4>1, <4>3, CancelKeeps
      <4>4. CASE Work(p)
        BY <4>1, <4>4, CreateKeeps, RenameKeeps, DeleteKeeps, ReplaceKeeps DEF Work
      <4>. QED
        BY <2>4, <4>2, <4>3, <4>4
    <3>2. CASE cutOff
      BY <2>4, <3>2 DEF Arrive, Create, Import, Delete, Replace, Rename, Start, Work, CreateOpen,
         CreateInit, ImportTruncate, ImportWrite, Register, RemoveNew, RenameUpdate, RenameClose,
         RenameMove, RenameCommit, DeleteClose, DeleteUnlink, ReplaceClose, ReplaceStage,
         ReplaceCopy, ReplaceAside, ReplaceInstall, ReplaceUndo, ReplaceClean, ReplaceFinish,
         StatementFails, Continue, Return, End, Goto, Attempt, Fails
    <3>. QED
      BY <3>1, <3>2
  <2>. QED
    BY <2>1, <2>2, <2>3, <2>4 DEF Next
<1>. QED
  BY <1>1, <1>2 DEF Shape, IInv

\* What the invariant says of the databases table.
LEMMA Intact == IInv /\ Disjoint => RegisteredIntact /\ NeverHalfRegistered
<1>1. IInv => RegisteredIntact
  <2>. SUFFICES ASSUME IInv, Quiet, ~cutOff, NEW n \in Registered PROVE Holds(Main(n), row[n])
    BY DEF RegisteredIntact
  <2>1. n \in Name /\ \A p \in Admin : ~Away(p, n)
    BY DEF Registered, Quiet, Away
  <2>. QED
    BY <2>1 DEF IInv, InStep, Backed
<1>2. IInv /\ Disjoint => NeverHalfRegistered
  <2>. SUFFICES ASSUME IInv, Disjoint, ~cutOff, NEW n \in Registered, Exists(Main(n))
                PROVE  content[disk[Main(n)]] # NoData
    BY DEF NeverHalfRegistered
  <2>1. n \in Name /\ row[n] # NoData
    BY DEF Registered
  <2>2. \A p \in Admin : Away(p, n) => ~Exists(Main(n))
    BY DEF IInv, InStep, InHand, Moving, Restoring, Away
  <2>. QED
    BY <2>1, <2>2 DEF IInv, InStep, Backed, Holds
<1>. QED
  BY <1>1, <1>2

(***************************************************************************)
(* Every variable keeps its type, whatever requests run at once.           *)
(***************************************************************************)
THEOREM TypeCorrect == Spec => []TypeOK
<1>1. Init => Shape
  BY Starts DEF IInv, Shape
<1>2. Shape => TypeOK
  BY DEF Shape
<1>. QED
  BY <1>1, <1>2, ShapeStep, PTL DEF Spec

(***************************************************************************)
(* As long as no two requests work on one name at once, rows and files     *)
(* stay in step: between requests every registered name has its own data   *)
(* under its own file name, whichever calls and statements failed on the   *)
(* way, until the first of what RegisteredIntact excepts: a crash, a       *)
(* Rename that does not commit after the move, an undo that fails.         *)
(***************************************************************************)
THEOREM StoresInStep == Spec /\ []Disjoint => []RegisteredIntact
<1>1. Init => IInv
  BY Starts
<1>2. IInv /\ Disjoint => RegisteredIntact
  BY Intact
<1>. QED
  BY <1>1, <1>2, InStepKept, PTL DEF Spec

(***************************************************************************)
(* Under the same hypothesis no registered name ever has a file whose copy *)
(* did not complete.                                                       *)
(***************************************************************************)
THEOREM NeverHalf == Spec /\ []Disjoint => []NeverHalfRegistered
<1>1. Init => IInv
  BY Starts
<1>2. IInv /\ Disjoint => NeverHalfRegistered
  BY Intact
<1>. QED
  BY <1>1, <1>2, InStepKept, PTL DEF Spec

(***************************************************************************)
(* One administrator's requests come one after the other, so for one the   *)
(* hypothesis holds.                                                       *)
(***************************************************************************)
COROLLARY OneAdministrator ==
    ASSUME \A p, q \in Admin : p = q
    PROVE  Spec => [](RegisteredIntact /\ NeverHalfRegistered)
<1>1. Disjoint
  BY DEF Disjoint
<1>. QED
  BY <1>1, StoresInStep, NeverHalf, PTL

\* All that runs is renames.
OnlyRenames == \A p \in Admin : pc[p] = "idle" \/ Renaming(p)

\* It stays so, if nothing else can start.
LEMMA RenamesOnly ==
    ASSUME Ops \subseteq {"rename"}, Shape, OnlyRenames, [Next]_vars
    PROVE  OnlyRenames'
<1>t. LocalTypes
  BY Types DEF Shape
<1>. USE <1>t DEF LocalTypes, OnlyRenames, Renaming, Continue, Return, End, Goto
<1>1. ASSUME NEW p \in Admin, Arrive(p) PROVE OnlyRenames'
  BY <1>1 DEF Arrive, Create, Import, Delete, Replace, Rename, Start
<1>2. ASSUME NEW p \in Admin, Work(p)
      PROVE  RenameUpdate(p) \/ RenameClose(p) \/ RenameMove(p) \/ RenameCommit(p)
  BY <1>2 DEF Work, CreateOpen, CreateInit, ImportTruncate, ImportWrite, Register, RemoveNew,
              DeleteClose, DeleteUnlink, ReplaceClose, ReplaceStage, ReplaceCopy, ReplaceAside,
              ReplaceInstall, ReplaceUndo, ReplaceClean, ReplaceFinish
<1>3. ASSUME NEW p \in Admin, Work(p) PROVE OnlyRenames'
  BY <1>2, <1>3 DEF RenameUpdate, RenameClose, RenameMove, RenameCommit
<1>4. ASSUME NEW p \in Admin, TxCancelled(p) \/ StatementFails(p) PROVE OnlyRenames'
  BY <1>4 DEF TxCancelled, StatementFails, procVars
<1>5. CASE Crash
  BY <1>5 DEF Crash
<1>6. CASE UNCHANGED vars
  BY <1>6 DEF vars, procVars
<1>. HIDE DEF OnlyRenames
<1>. QED
  BY <1>1, <1>3, <1>4, <1>5, <1>6 DEF Next

(***************************************************************************)
(* Renames need no such hypothesis, however many run at once and whatever  *)
(* names they share: the writer connection keeps them apart.               *)
(***************************************************************************)
THEOREM RenamesInStep ==
    ASSUME Ops \subseteq {"rename"}
    PROVE  Spec => [](RegisteredIntact /\ NeverHalfRegistered)
<1>1. Init => IInv /\ OnlyRenames
  BY Starts DEF Init, OnlyRenames
<1>2. LocalsOK /\ OnlyRenames => Disjoint
  BY DEF LocalsOK, OnlyRenames, Disjoint, Names
<1>3. IInv /\ OnlyRenames /\ [Next]_vars => IInv' /\ OnlyRenames'
  <2>. SUFFICES ASSUME IInv, OnlyRenames, [Next]_vars PROVE IInv' /\ OnlyRenames'
    OBVIOUS
  <2>1. Shape' /\ OnlyRenames'
    BY ShapeStep, RenamesOnly DEF IInv, Shape
  <2>2. Disjoint /\ Disjoint'
    BY <1>2, <2>1 DEF IInv, Shape, LocalsOK, OnlyRenames, Disjoint, Names
  <2>. QED
    BY <2>1, <2>2, InStepKept
<1>4. IInv /\ OnlyRenames => RegisteredIntact /\ NeverHalfRegistered
  BY <1>2, Intact DEF IInv
<1>. QED
  BY <1>1, <1>3, <1>4, PTL DEF Spec

\* A crash, the cancellation of a transaction, a COMMIT that fails and an undo
\* that fails leave the stores as they find them.
LEMMA CutsShort ==
    ASSUME TypeOK, [Next]_vars, ~cutOff, cutOff'
    PROVE  UNCHANGED row /\ SameFiles
<1>1. ASSUME NEW p \in Admin, Arrive(p) \/ StatementFails(p) PROVE FALSE
  BY <1>1 DEF Arrive, Create, Import, Delete, Replace, Rename, Start, StatementFails,
              Continue, Return, End, Goto
<1>2. ASSUME NEW p \in Admin, Work(p) PROVE ReplaceUndo(p) \/ RenameCommit(p)
  BY <1>2 DEF Work, CreateOpen, CreateInit, ImportTruncate, ImportWrite, Register, RemoveNew,
     RenameUpdate, RenameClose, RenameMove, DeleteClose, DeleteUnlink, ReplaceClose,
     ReplaceStage, ReplaceCopy, ReplaceAside, ReplaceInstall, ReplaceClean, ReplaceFinish,
     Continue, Return, End, Goto
<1>3. ASSUME NEW p \in Admin, ReplaceUndo(p) PROVE UNCHANGED row /\ SameFiles
  BY <1>3 DEF ReplaceUndo, Attempt, Fails, NoFault, Fault, SameFiles
<1>7. ASSUME NEW p \in Admin, RenameCommit(p) PROVE UNCHANGED row /\ SameFiles
  BY <1>7 DEF RenameCommit
<1>4. ASSUME NEW p \in Admin, TxCancelled(p) PROVE UNCHANGED row /\ SameFiles
  BY <1>4 DEF TxCancelled
<1>5. CASE Crash
  BY <1>5 DEF Crash
<1>6. CASE UNCHANGED vars
  BY <1>6 DEF vars
<1>. QED
  BY <1>1, <1>2, <1>3, <1>4, <1>5, <1>6, <1>7 DEF Next

(***************************************************************************)
(* Under the hypothesis of StoresInStep, no step leaves a registered       *)
(* database without its data whole in some file: none before the first     *)
(* crash, cancellation of a rename, failing COMMIT of one or failing undo, *)
(* nor that step itself, whatever the requests were doing when it came.    *)
(***************************************************************************)
THEOREM DataKept ==
    Spec /\ []Disjoint => [][~cutOff => \A n \in Registered' : Whole(n)']_vars
<1>1. Init => IInv
  BY Starts
<1>2. IInv /\ ~cutOff => \A n \in Registered : Whole(n)
  <2>. SUFFICES ASSUME IInv, ~cutOff, NEW n \in Registered PROVE Whole(n)
    OBVIOUS
  <2>1. n \in Name
    BY DEF Registered
  <2>2. CASE Holds(Main(n), row[n])
    BY <2>1, <2>2, Paths DEF Whole
  <2>3. ASSUME NEW p \in Admin, Away(p, n) PROVE Whole(n)
    <3>1. CASE pc[p] = "commit"
      <4>1. to[p] \in Name /\ Holds(Main(to[p]), row[n])
        BY <2>3, <3>1 DEF IInv, LocalsOK, Renaming, InStep, InHand, Moving, Away
      <4>. QED
        BY <4>1, Paths DEF Whole
    <3>2. CASE pc[p] \in {"install", "undo"}
      BY <2>1, <2>3, <3>2, Paths DEF IInv, InStep, InHand, Restoring, Away, Whole
    <3>. QED
      BY <2>3, <3>1, <3>2 DEF Away
  <2>. QED
    BY <2>1, <2>2, <2>3 DEF IInv, InStep, Backed
<1>p. (IInv /\ ~cutOff => \A n \in Registered : Whole(n))'
  BY <1>2, PTL
<1>3. IInv /\ IInv' /\ [Next]_vars => (~cutOff => \A n \in Registered' : Whole(n)')
  <2>. SUFFICES ASSUME IInv, IInv', [Next]_vars, ~cutOff PROVE \A n \in Registered' : Whole(n)'
    OBVIOUS
  <2>1. CASE ~cutOff'
    BY <1>p, <2>1
  <2>2. CASE cutOff'
    <3>1. UNCHANGED <<row, disk, content>>
      BY <2>2, CutsShort DEF IInv, SameFiles
    <3>. QED
      BY <1>2, <3>1 DEF Registered, Whole, Holds, Exists
  <2>. QED
    BY <2>1, <2>2
<1>. QED
  BY <1>1, <1>3, InStepKept, PTL DEF Spec

-----------------------------------------------------------------------------
(* What a first fault leaves of the data: DataSurvives.                    *)

\* No two requests work on one name at once, renames included.
Exclusive == \A p, q \in Admin : p = q \/ Names(p) \cap Names(q) = {}

\* p has put its data at the name it creates or imports, and no row yet,
Filled == {"init", "register", "remove"}
\* or is about to.
Putting == Filled \cup {"write"}

\* p has data that nothing else has.
Bearing == Bringing \cup {"remove"}

\* What p has made of the name n it creates or imports.
Placing(p, n) ==
    /\ pc[p] \in {"open", "truncate"} => ~Exists(Main(n))
    /\ pc[p] = "write" => Exists(Main(n)) /\ fd[p] = disk[Main(n)] /\ content[fd[p]] = NoData
    /\ pc[p] \in Filled => Holds(Main(n), data[p])

\* How far p is with the rename of n to m, whether it still has its transaction or not.
Carrying(p, n, m) ==
    /\ pc[p] \in {"update", "close", "move"} => ~Exists(Main(m))
    /\ pc[p] \in {"close", "move", "commit"} => n \in Registered /\ m \notin Registered
    /\ pc[p] = "commit" =>
          /\ ~Exists(Main(n)) /\ ~Holds(Prev(n), row[n])
          /\ \A k \in Registered \ {n} : ~Holds(Main(m), row[k])

\* How far p is with a restore of n.
Swapping(p, n) ==
    /\ pc[p] \in {"closeReplaced", "stage", "copy", "aside", "install", "undo",
                  "clean", "finish"} => n \in Registered
    /\ pc[p] = "copy" => Exists(Tmp(n)) /\ fd[p] = disk[Tmp(n)] /\ content[fd[p]] = NoData
    /\ pc[p] \in {"aside", "install"} => Holds(Tmp(n), data[p])
    /\ pc[p] \in {"install", "undo"} => ~Exists(Main(n))
    /\ pc[p] = "clean" => ~Holds(Prev(n), row[n])

\* The data that p brings is nobody else's, and in no file but the one p put it in.
Fresh(p) ==
    pc[p] \in Bearing =>
        /\ data[p] \in Data
        /\ \A n \in Name : row[n] # data[p]
        /\ \A q \in Admin \ {p} : data[q] # data[p]
        /\ \A m \in Name : /\ ~Holds(Prev(m), data[p])
                           /\ Holds(Main(m), data[p]) => m = db[p] /\ pc[p] \in Filled
                           /\ Holds(Tmp(m), data[p]) => m = db[p] /\ pc[p] \in {"aside", "install"}

\* What is known of a request.
Underway(p) ==
    Placing(p, db[p]) /\ Carrying(p, db[p], to[p]) /\ Swapping(p, db[p]) /\ Fresh(p)

\* The data of n is no other name's, and in no file but its own, the one set
\* aside, and those of names without a row.
OwnPlaces(n) ==
    n \in Registered =>
        \A m \in Name : /\ ~Holds(Tmp(m), row[n])
                        /\ m # n => /\ row[m] # row[n] /\ ~Holds(Prev(m), row[n])
                                    /\ m \in Registered => ~Holds(Main(m), row[n])

\* Only a fault lets an original stay where a restore has set it aside; and beside
\* it the name then has no file but one that a create or an import has put there,
\* which it removes again when it finds the row.
Aside(n) ==
    n \in Registered /\ Holds(Prev(n), row[n]) =>
        /\ Exists(Main(n)) => \E q \in Admin : db[q] = n /\ pc[q] \in Putting
        /\ faults = 0 => \E q \in Admin : db[q] = n /\ pc[q] = "install"

\* What is known of a name's data.
Placed(n) == OwnPlaces(n) /\ Aside(n)

\* With Shape, inductive under Exclusive and one fault.
Safe == (\A p \in Admin : Underway(p)) /\ (\A n \in Name : Placed(n))

-----------------------------------------------------------------------------
\* The values a step of p may put in another place: its own, and those of the
\* files it moves.
Source(p, d) ==
    \/ d = data[p] /\ pc[p] \in Bearing
    \/ \E k \in Names(p) : \/ Holds(Prev(k), d) \/ Holds(Tmp(k), d)
                           \/ k \in Registered /\ Holds(Main(k), d)

Gains(p) ==
    \A m \in Name, d \in Data :
        /\ Holds(Main(m), d)' => Holds(Main(m), d) \/ Source(p, d)
        /\ Holds(Prev(m), d)' => Holds(Prev(m), d) \/ Source(p, d)
        /\ Holds(Tmp(m), d)' => Holds(Tmp(m), d) \/ Source(p, d)

\* The rows a step of p may write.
Rows(p) ==
    \A k \in Name : \/ row'[k] \in {row[k], NoData}
                    \/ row'[k] = data[p] /\ pc[p] \in Bearing
                    \/ \E j \in Name : j \in Names(p) /\ row'[k] = row[j] /\ row'[j] = NoData

\* The data of a name p does not work on is not among them,
LEMMA NotMine ==
    ASSUME Safe, NEW p \in Admin, Names(p) \subseteq Name, NEW n \in Registered, n \notin Names(p)
    PROVE  ~Source(p, row[n])
BY DEF Safe, Underway, Placed, OwnPlaces, Fresh, Source, Registered

\* nor is what another request brings.
LEMMA NotHis ==
    ASSUME Safe, NEW p \in Admin, Names(p) \subseteq Name, NEW q \in Admin \ {p},
           db[q] \notin Names(p), pc[q] \in Bearing
    PROVE  ~Source(p, data[q]) /\ data[q] \in Data
BY DEF Safe, Underway, Fresh, Source

\* The files of a name that is left alone.
LEMMA Left ==
    ASSUME NEW n, Leaves(n)
    PROVE  /\ row'[n] = row[n] /\ ((n \in Registered)' <=> n \in Registered)
           /\ \A d : /\ Holds(Main(n), d)' <=> Holds(Main(n), d)
                     /\ Holds(Prev(n), d)' <=> Holds(Prev(n), d)
                     /\ Holds(Tmp(n), d)' <=> Holds(Tmp(n), d)
           /\ Exists(Main(n))' <=> Exists(Main(n))
           /\ Exists(Tmp(n))' <=> Exists(Tmp(n))
           /\ Exists(Main(n)) => disk'[Main(n)] = disk[Main(n)]
                                   /\ content'[disk[Main(n)]] = content[disk[Main(n)]]
           /\ Exists(Tmp(n)) => disk'[Tmp(n)] = disk[Tmp(n)]
                                   /\ content'[disk[Tmp(n)]] = content[disk[Tmp(n)]]
<1>1. Kept(Main(n)) /\ Kept(Prev(n)) /\ Kept(Tmp(n)) /\ row'[n] = row[n]
  BY DEF Leaves
<1>2. (n \in Registered)' <=> n \in Registered
  BY <1>1 DEF Registered
<1>. QED
  BY <1>1, <1>2, KeptHolds DEF Kept

\* So what another request brings stays its own,
LEMMA FreshStays ==
    ASSUME Shape, Safe, NEW p \in Admin, NEW q \in Admin \ {p}, SameLocals(q), OthersWait(p),
           Names(p) \subseteq Name, Names(p) \cap Names(q) = {}, Rows(p), Gains(p),
           \/ data'[p] \in {data[p], NoData}
           \/ \A r \in Admin : data'[p] # data[r]
    PROVE  Fresh(q)'
<1>. SUFFICES ASSUME pc[q] \in Bearing
              PROVE  /\ data[q] \in Data
                     /\ \A n \in Name : row'[n] # data[q]
                     /\ \A r \in Admin \ {q} : data'[r] # data[q]
                     /\ \A m \in Name :
                           /\ ~Holds(Prev(m), data[q])'
                           /\ Holds(Main(m), data[q])' => m = db[q] /\ pc[q] \in Filled
                           /\ Holds(Tmp(m), data[q])' => m = db[q] /\ pc[q] \in {"aside", "install"}
  BY DEF Fresh, SameLocals, Holds, Exists
<1>1. db[q] \in Names(q)
  BY FilesAssumption DEF Shape, LocalsOK, Names, Bearing, Bringing
<1>2. ~Source(p, data[q]) /\ data[q] \in Data /\ Fresh(q)
  BY <1>1, NotHis DEF Safe, Underway
<1>3. \A n \in Name : row'[n] # data[q]
  BY <1>2, FilesAssumption DEF Fresh, Rows, Source
<1>4. \A r \in Admin \ {q} : data'[r] # data[q]
  BY <1>2, FilesAssumption DEF Fresh, OthersWait, SameLocals
<1>5. ASSUME NEW m \in Name
      PROVE  /\ Holds(Main(m), data[q])' => Holds(Main(m), data[q])
             /\ Holds(Prev(m), data[q])' => Holds(Prev(m), data[q])
             /\ Holds(Tmp(m), data[q])' => Holds(Tmp(m), data[q])
  <2>1. data'[q] = data[q]
    BY DEF SameLocals
  <2>. QED BY <1>2, <2>1 DEF Gains, Holds, Exists
<1>. QED
  BY <1>2, <1>3, <1>4, <1>5 DEF Fresh

\* what it has made of its names stays as it is,
LEMMA HandsStay ==
    ASSUME NEW q, NEW n, NEW m, SameLocals(q), Leaves(n), Renaming(q) => Leaves(m)
    PROVE  /\ Placing(q, n) => Placing(q, n)'
           /\ Swapping(q, n) => Swapping(q, n)'
           /\ Carrying(q, n, m) =>
                 /\ pc[q] \in {"update", "close", "move"} => ~Exists(Main(m))'
                 /\ pc[q] \in {"close", "move", "commit"} =>
                       (n \in Registered)' /\ ~(m \in Registered)'
                 /\ pc[q] = "commit" => ~Exists(Main(n))' /\ ~Holds(Prev(n), row[n])'
<1>1. /\ \A d : /\ Holds(Main(n), d)' <=> Holds(Main(n), d)
                /\ Holds(Tmp(n), d)' <=> Holds(Tmp(n), d)
      /\ Holds(Prev(n), row[n])' <=> Holds(Prev(n), row[n])
      /\ Exists(Main(n))' <=> Exists(Main(n))
      /\ (n \in Registered)' <=> n \in Registered
  BY Left DEF Leaves, Holds, Exists, Kept
<1>2. Renaming(q) => /\ Exists(Main(m))' <=> Exists(Main(m))
                     /\ (m \in Registered)' <=> m \in Registered
  BY Left
<1>3. Placing(q, n) => Placing(q, n)'
  BY <1>1, Left DEF Placing, SameLocals
<1>4. Swapping(q, n) => Swapping(q, n)'
  BY <1>1, Left DEF Swapping, SameLocals
<1>. QED
  BY <1>1, <1>2, <1>3, <1>4 DEF Carrying, Renaming

\* also that a file on the way to a new name is nobody else's,
LEMMA OnItsWay ==
    ASSUME Shape, Safe, NEW p \in Admin, NEW q \in Admin \ {p}, NEW n, NEW m,
           Names(p) \cap Names(q) = {}, Rows(p), n = db[q], m = to[q], pc[q] = "commit",
           Leaves(m), NEW k \in Registered', k # n
    PROVE  ~Holds(Main(m), row[k])'
<1>1. n \in Names(q) /\ m \in Names(q) /\ m \in Name /\ n \in Name
  BY FilesAssumption DEF Shape, LocalsOK, Renaming, Names
<1>2. k \in Name /\ row'[k] # NoData
  BY DEF Registered
<1>3. Holds(Main(m), row[k])' <=> Holds(Main(m), row'[k])
  BY Left DEF Leaves, Holds, Exists, Kept
<1>4. \A j \in Registered \ {n} : ~Holds(Main(m), row[j])
  BY DEF Safe, Underway, Carrying
<1>5. CASE row'[k] = row[k]
  BY <1>2, <1>3, <1>4, <1>5 DEF Registered
<1>6. ASSUME row'[k] = data[p], pc[p] \in Bearing, Holds(Main(m), row'[k]) PROVE FALSE
  <2>1. m = db[p]
    BY <1>1, <1>6 DEF Safe, Underway, Fresh
  <2>. QED
    BY <1>1, <2>1, FilesAssumption DEF Names
<1>7. ASSUME NEW j \in Name, j \in Names(p), row'[k] = row[j] PROVE ~Holds(Main(m), row'[k])
  <2>1. j \in Registered \ {n}
    BY <1>1, <1>2, <1>7 DEF Registered
  <2>. QED
    BY <1>4, <1>7, <2>1
<1>. QED
  BY <1>2, <1>3, <1>5, <1>6, <1>7 DEF Rows

\* and so all that is known of it.
LEMMA UnderwayStays ==
    ASSUME Shape, Safe, NEW p \in Admin, NEW q \in Admin \ {p}, OthersWait(p),
           Names(p) \subseteq Name, Names(p) \cap Names(q) = {}, Rows(p), Gains(p),
           \A n \in Names(q) : Leaves(n),
           \/ data'[p] \in {data[p], NoData}
           \/ \A r \in Admin : data'[p] # data[r]
    PROVE  Underway(q)'
<1>s. SameLocals(q) /\ Underway(q)
  BY DEF OthersWait, Safe
<1>f. Fresh(q)'
  BY <1>s, FreshStays
<1>0. CASE pc[q] = "idle"
  BY <1>0, <1>s, <1>f DEF SameLocals, Underway, Placing, Carrying, Swapping, Filled
<1>1. CASE pc[q] # "idle"
  <2>1. PICK n, m : n = db[q] /\ m = to[q]
    OBVIOUS
  <2>2. n \in Names(q) /\ Leaves(n) /\ (Renaming(q) => Leaves(m))
    BY <1>1, <2>1, FilesAssumption DEF Shape, LocalsOK, Names
  <2>3. Placing(q, n) /\ Carrying(q, n, m) /\ Swapping(q, n)
    BY <1>s, <2>1 DEF Underway
  <2>4. Placing(q, n)' /\ Swapping(q, n)'
    BY <1>s, <2>2, <2>3, HandsStay
  <2>5. pc[q] = "commit" => \A k \in Registered' \ {n} : ~Holds(Main(m), row[k])'
    BY <2>1, <2>2, OnItsWay DEF Renaming
  <2>6. Carrying(q, n, m)'
    BY <1>s, <2>2, <2>3, <2>5, HandsStay DEF Carrying, SameLocals
  <2>7. db'[q] = n /\ to'[q] = m
    BY <1>s, <2>1 DEF SameLocals
  <2>. QED
    BY <1>f, <2>4, <2>6, <2>7 DEF Underway
<1>. QED
  BY <1>0, <1>1

\* and what is known of the names a step does not work on.
LEMMA PlacedStays ==
    ASSUME Shape, Safe, NEW p \in Admin, OthersWait(p), NEW T \in SUBSET Name, Names(p) \subseteq T,
           \A k \in Name \ T : Leaves(k), Rows(p), Gains(p), faults' = 0 => faults = 0,
           \A k \in T, n \in Registered \ T :
               (k \in Registered)' /\ k \notin Registered => ~Holds(Main(k), row[n])',
           NEW n \in Name \ T
    PROVE  Placed(n)'
<1>1. Leaves(n) /\ Placed(n) /\ n \notin Names(p)
  BY DEF Safe
<1>2. row'[n] = row[n] /\ ((n \in Registered)' <=> n \in Registered)
  BY <1>1, Left
<1>3. OwnPlaces(n)'
  <2>. SUFFICES ASSUME n \in Registered, NEW m \in Name
                PROVE  /\ ~Holds(Tmp(m), row[n])'
                       /\ m # n => /\ row'[m] # row[n] /\ ~Holds(Prev(m), row[n])'
                                   /\ (m \in Registered)' => ~Holds(Main(m), row[n])'
    BY <1>2 DEF OwnPlaces
  <2>1. ~Source(p, row[n]) /\ row[n] \in Data /\ row[n] # NoData
    BY <1>1, NotMine DEF Registered, Shape, TypeOK
  <2>2. /\ Holds(Main(m), row[n])' => Holds(Main(m), row[n])
        /\ Holds(Prev(m), row[n])' => Holds(Prev(m), row[n])
        /\ Holds(Tmp(m), row[n])' => Holds(Tmp(m), row[n])
    BY <1>2, <2>1 DEF Gains, Holds, Exists
  <2>3. m # n => row'[m] # row[n]
    <3>1. \A k \in Name : k # n => row[k] # row[n]
      BY <1>1 DEF Placed, OwnPlaces
    <3>2. ~(row[n] = data[p] /\ pc[p] \in Bearing)
      BY <2>1 DEF Source
    <3>. QED
      BY <1>1, <2>1, <3>1, <3>2 DEF Rows
  <2>4. m # n /\ (m \in Registered)' => ~Holds(Main(m), row[n])'
    <3>1. CASE m \in Registered
      BY <1>1, <2>2, <3>1 DEF Placed, OwnPlaces
    <3>2. CASE m \notin Registered
      <4>1. CASE m \in T
        BY <3>2, <4>1
      <4>2. CASE m \notin T
        BY <3>2, <4>2, Left
      <4>. QED
        BY <4>1, <4>2
    <3>. QED
      BY <3>1, <3>2
  <2>. QED
    BY <1>1, <2>2, <2>3, <2>4 DEF Placed, OwnPlaces
<1>4. Aside(n)'
  <2>1. \A q \in Admin : db[q] = n => SameLocals(q)
    BY <1>1, FilesAssumption DEF OthersWait, Names
  <2>2. Holds(Prev(n), row[n])' <=> Holds(Prev(n), row[n])
    BY <1>1, <1>2, Left DEF Holds, Exists, Leaves, Kept
  <2>. QED
    BY <1>1, <1>2, <2>1, <2>2, Left DEF Placed, Aside, SameLocals
<1>. QED
  BY <1>3, <1>4 DEF Placed

\* So a step need only look at the names it works on.
LEMMA Elsewhere ==
    ASSUME Shape, Safe, NEW p \in Admin, OthersWait(p), NEW T \in SUBSET Name, Names(p) \subseteq T,
           \A q \in Admin \ {p} : Names(q) \cap T = {}, 
           \A k \in Name \ T : Leaves(k), Rows(p), Gains(p), faults' = 0 => faults = 0,
           \/ data'[p] \in {data[p], NoData}
           \/ \A r \in Admin : data'[p] # data[r],
           \A k \in T, n \in Registered \ T :
               (k \in Registered)' /\ k \notin Registered => ~Holds(Main(k), row[n])',
           Underway(p)', \A n \in T : Placed(n)'
    PROVE  Safe'
<1>1. ASSUME NEW q \in Admin \ {p} PROVE Underway(q)'
  <2>1. Names(q) \subseteq Name
    BY DEF Shape, TypeOK, Names
  <2>2. \A n \in Names(q) : Leaves(n)
    BY <2>1
  <2>. QED
    BY <2>2, UnderwayStays
<1>2. \A n \in Name \ T : Placed(n)'
  BY PlacedStays
<1>. QED
  BY <1>1, <1>2 DEF Safe

-----------------------------------------------------------------------------
\* No registered database that has its data in some file loses it.
Lasts == \A k \in Registered : Whole(k) /\ (k \in Registered)' => Whole(k)'

\* What holds before every step that is looked at.
Before == Shape /\ Safe /\ Exclusive

\* A request that has returned, or has only been asked for, has made nothing yet.
LEMMA NothingMade ==
    ASSUME NEW p, pc'[p] \in {"idle", "closeDropped", "unlink"}
    PROVE  Underway(p)'
BY DEF Underway, Placing, Carrying, Swapping, Fresh, Bearing, Bringing, Filled

\* Where a step leaves its own locals.
LEMMA Locals ==
    ASSUME LocalTypes, NEW p \in Admin
    PROVE  /\ \A l : Goto(p, l) => pc'[p] = l
           /\ \A l : Continue(p, l) => /\ pc'[p] = l /\ db'[p] = db[p] /\ to'[p] = to[p]
                                       /\ data'[p] = data[p] /\ fd'[p] = fd[p]
           /\ End(p) => pc'[p] = "idle" /\ data'[p] = NoData
           /\ Return(p) => End(p)
BY DEF LocalTypes, Goto, Continue, Return, End

\* What a step of p starts from.
LEMMA Hand ==
    ASSUME Before, NEW p \in Admin, pc[p] # "idle", NEW n, n = db[p]
    PROVE  /\ LocalTypes /\ FileTypes /\ Injective
           /\ n \in Name /\ n \in Names(p) /\ Names(p) \subseteq Name
           /\ ~Renaming(p) => Names(p) = {n}
           /\ \A q \in Admin \ {p} : Names(q) \cap Names(p) = {}
           /\ Underway(p) /\ (pc[p] \in Bringing => data[p] \in Data)
           /\ row \in [Name -> Data \cup {NoData}]
<1>1. LocalTypes /\ StoreTypes /\ FileTypes /\ Injective /\ Underway(p)
  BY Types DEF Before, Shape, Safe
<1>2. /\ n \in Name /\ (pc[p] \in Bringing => data[p] \in Data)
      /\ ~Renaming(p) => to[p] = NoName
  BY DEF Before, Shape, LocalsOK
<1>3. n \in Names(p) /\ Names(p) \subseteq Name /\ (~Renaming(p) => Names(p) = {n})
  BY <1>1, <1>2, FilesAssumption DEF Names, LocalTypes
<1>4. \A q \in Admin \ {p} : Names(q) \cap Names(p) = {}
  BY DEF Before, Exclusive
<1>. QED
  BY <1>1, <1>2, <1>3, <1>4 DEF StoreTypes

\* The data p brings stays where p put it.
LEMMA FreshHere ==
    ASSUME NEW p \in Admin, Fresh(p), pc[p] \in Bearing, pc'[p] \in Bearing, data'[p] = data[p],
           OthersWait(p), UNCHANGED row, NEW n, n = db[p], db'[p] = n,
           \A g \in Path \ {Main(n), Prev(n), Tmp(n)} : Kept(g),
           ~Holds(Prev(n), data[p])',
           Holds(Main(n), data[p])' => pc'[p] \in Filled,
           Holds(Tmp(n), data[p])' => pc'[p] \in {"aside", "install"}
    PROVE  Fresh(p)'
<1>. PICK d : d = data[p]
  OBVIOUS
<1>1. ASSUME NEW m \in Name, m # n
      PROVE  ~Holds(Prev(m), d)' /\ ~Holds(Main(m), d)' /\ ~Holds(Tmp(m), d)'
  <2>1. Kept(Main(m)) /\ Kept(Prev(m)) /\ Kept(Tmp(m))
    BY <1>1, Paths
  <2>. QED
    BY <1>1, <2>1, KeptHolds DEF Fresh
<1>2. ~Holds(Prev(n), d)' /\ (Holds(Main(n), d)' => pc'[p] \in Filled)
      /\ (Holds(Tmp(n), d)' => pc'[p] \in {"aside", "install"})
  BY DEF Holds, Exists
<1>3. data[p] \in Data /\ (\A k \in Name : row[k] # data[p]) /\ \A q \in Admin \ {p} : data[q] # data[p]
  BY DEF Fresh
<1>4. data'[p] \in Data /\ (\A k \in Name : row'[k] # data'[p])
      /\ \A q \in Admin \ {p} : data'[q] # data'[p]
  BY <1>3 DEF OthersWait, SameLocals
<1>5. \A m \in Name : /\ ~Holds(Prev(m), data[p])'
                      /\ Holds(Main(m), data[p])' => m = db'[p] /\ pc'[p] \in Filled
                      /\ Holds(Tmp(m), data[p])' => m = db'[p] /\ pc'[p] \in {"aside", "install"}
  BY <1>1, <1>2 DEF Holds, Exists
<1>. QED
  BY <1>4, <1>5 DEF Fresh

\* What is set aside under the name p works on is so with p's leave.
LEMMA OwnAside ==
    ASSUME Before, NEW p \in Admin, pc[p] # "idle", NEW n, n = db[p], n \in Registered,
           Holds(Prev(n), row[n])
    PROVE  /\ Exists(Main(n)) => pc[p] \in Putting
           /\ faults = 0 => pc[p] = "install"
<1>1. n \in Name /\ n \in Names(p) /\ \A q \in Admin \ {p} : Names(q) \cap Names(p) = {}
  BY Hand
<1>2. \A q \in Admin : db[q] = n => q = p
  BY <1>1, FilesAssumption DEF Names
<1>3. Aside(n)
  BY <1>1 DEF Before, Safe, Placed
<1>. QED
  BY <1>2, <1>3 DEF Aside

\* A step that leaves the rows alone, and all files but those of p's name.
LEMMA AtName ==
    ASSUME Before, NEW p \in Admin, OthersWait(p), pc[p] # "idle", ~Renaming(p), NEW n, n = db[p],
           UNCHANGED row, \A g \in Path \ {Main(n), Prev(n), Tmp(n)} : Kept(g),
           faults' = 0 => faults = 0, data'[p] \in {data[p], NoData},
           \A d \in Data :
               /\ Holds(Main(n), d)' => \/ Holds(Main(n), d) \/ Holds(Prev(n), d)
                                        \/ d = data[p] /\ pc[p] \in Bearing
               /\ Holds(Prev(n), d)' => Holds(Prev(n), d) \/ (n \in Registered /\ Holds(Main(n), d))
               /\ Holds(Tmp(n), d)' => Holds(Tmp(n), d) \/ (d = data[p] /\ pc[p] \in Bearing),
           Underway(p)', Aside(n)'
    PROVE  Safe'
<1>h. /\ n \in Name /\ n \in Names(p) /\ Names(p) = {n}
      /\ \A q \in Admin \ {p} : Names(q) \cap Names(p) = {}
      /\ row \in [Name -> Data \cup {NoData}]
  BY Hand
<1>. DEFINE T == {n}
<1>1. \A k \in Name \ T : Leaves(k)
  BY Paths DEF Leaves
<1>2. Rows(p)
  BY DEF Rows
<1>3. Gains(p)
  <2>. SUFFICES ASSUME NEW m \in Name, NEW d \in Data
                PROVE  /\ Holds(Main(m), d)' => Holds(Main(m), d) \/ Source(p, d)
                       /\ Holds(Prev(m), d)' => Holds(Prev(m), d) \/ Source(p, d)
                       /\ Holds(Tmp(m), d)' => Holds(Tmp(m), d) \/ Source(p, d)
    BY DEF Gains
  <2>1. CASE m = n
    BY <1>h, <2>1 DEF Source
  <2>2. CASE m # n
    BY <1>1, <2>2, Left
  <2>. QED
    BY <2>1, <2>2
<1>4. (n \in Registered)' <=> n \in Registered
  BY DEF Registered
<1>5. OwnPlaces(n)'
  <2>. SUFFICES ASSUME n \in Registered, NEW m \in Name
                PROVE  /\ ~Holds(Tmp(m), row[n])'
                       /\ m # n => /\ row'[m] # row[n] /\ ~Holds(Prev(m), row[n])'
                                   /\ (m \in Registered)' => ~Holds(Main(m), row[n])'
    BY <1>4 DEF OwnPlaces
  <2>1. OwnPlaces(n) /\ row[n] \in Data /\ row'[n] = row[n]
    BY <1>h DEF Before, Safe, Placed, Registered
  <2>2. CASE m # n
    BY <1>1, <2>1, <2>2, Left DEF OwnPlaces, Leaves, Holds, Exists, Kept
  <2>3. CASE m = n
    <3>1. ~(row[n] = data[p] /\ pc[p] \in Bearing)
      BY <1>h DEF Before, Safe, Underway, Fresh
    <3>2. ~Holds(Tmp(n), row[n])
      BY <1>h, <2>1 DEF OwnPlaces
    <3>3. PICK e : e = row[n]
      OBVIOUS
    <3>4. ~Holds(Tmp(n), e)'
      BY <2>1, <3>1, <3>2, <3>3
    <3>. QED
      BY <2>1, <2>3, <3>3, <3>4 DEF Holds, Exists
  <2>. QED
    BY <2>2, <2>3
<1>6. \A k \in T : Placed(k)'
  BY <1>5 DEF Placed
<1>7. \A k \in T, j \in Registered \ T :
         (k \in Registered)' /\ k \notin Registered => ~Holds(Main(k), row[j])'
  BY <1>4
<1>8. T \in SUBSET Name /\ Names(p) \subseteq T /\ \A q \in Admin \ {p} : Names(q) \cap T = {}
  BY <1>h
<1>. HIDE DEF T
<1>. QED
  BY <1>1, <1>2, <1>3, <1>6, <1>7, <1>8, Elsewhere DEF Before

\* Such a step loses no data, if it keeps what is under the name and set aside.
LEMMA LastsAtName ==
    ASSUME Before, NEW p \in Admin, pc[p] # "idle", NEW n, n = db[p],
           UNCHANGED row, \A g \in Path \ {Main(n), Prev(n), Tmp(n)} : Kept(g),
           \A k \in Registered :
               Holds(Main(n), row[k]) \/ Holds(Prev(n), row[k])
                   => Holds(Main(n), row[k])' \/ Holds(Prev(n), row[k])'
    PROVE  Lasts
<1>h. n \in Name
  BY Hand
<1>. SUFFICES ASSUME NEW k \in Registered, NEW f \in Path, Holds(f, row[k])
              PROVE  \E g \in Path : Holds(g, row[k])'
  BY DEF Lasts, Whole
<1>1. f # Tmp(n)
  BY <1>h DEF Before, Safe, Placed, OwnPlaces, Registered
<1>2. CASE f \in {Main(n), Prev(n)}
  BY <1>h, <1>2, Paths
<1>3. CASE f \notin {Main(n), Prev(n)}
  <2>1. Holds(f, row[k])'
    BY <1>1, <1>3 DEF Kept, Holds, Exists
  <2>. QED
    BY <2>1
<1>. QED
  BY <1>2, <1>3

\* A step that touches neither rows nor files.
LEMMA SameStores ==
    ASSUME Before, NEW p \in Admin, OthersWait(p), SameFiles, UNCHANGED row,
           faults' = 0 => faults = 0,
           \/ data'[p] \in {data[p], NoData}
           \/ \A r \in Admin : data'[p] # data[r],
           Underway(p)', \A n \in Name : n = db[p] => Aside(n)'
    PROVE  Safe' /\ Lasts
<1>1. Names(p) \subseteq Name /\ \A q \in Admin \ {p} : Names(q) \cap Names(p) = {}
  <2>1. LocalTypes
    BY Types DEF Before, Shape
  <2>2. Names(p) \subseteq Name
    BY <2>1 DEF LocalTypes, Names
  <2>3. \A q \in Admin \ {p} : Names(q) \cap Names(p) = {}
    BY DEF Before, Exclusive
  <2>. QED
    BY <2>2, <2>3
<1>2. \A n \in Name : Leaves(n)
  BY DEF SameFiles, Leaves, Kept
<1>3. Rows(p) /\ Gains(p)
  BY DEF Rows, Gains, SameFiles, Holds, Exists
<1>4. \A n \in Name : (n \in Registered)' <=> n \in Registered
  BY DEF Registered
<1>5. ASSUME NEW n \in Name PROVE OwnPlaces(n)'
  <2>1. OwnPlaces(n)
    BY DEF Before, Safe, Placed
  <2>. QED
    BY <2>1 DEF OwnPlaces, SameFiles, Holds, Exists, Registered
<1>6. ASSUME NEW n \in Name, n # db[p] PROVE Aside(n)'
  <2>1. Aside(n)
    BY DEF Before, Safe, Placed
  <2>2. \A q \in Admin : db[q] = n => SameLocals(q)
    BY <1>6 DEF OthersWait
  <2>. QED
    BY <2>1, <2>2 DEF Aside, SameLocals, SameFiles, Holds, Exists, Registered
<1>7. \A n \in Names(p) : Placed(n)'
  BY <1>1, <1>5, <1>6 DEF Placed
<1>8. Lasts
  BY DEF Lasts, Whole, SameFiles, Holds, Exists
<1>9. Safe'
  BY <1>1, <1>2, <1>3, <1>4, <1>7, Elsewhere DEF Before
<1>. QED
  BY <1>8, <1>9

\* What was set aside under p's name stays excused: there is no other file, or
\* p is still putting one there, or this step is the first fault.
LEMMA AsideThen ==
    ASSUME Before, NEW p \in Admin, pc[p] \notin {"idle", "install"}, NEW n, n = db[p],
           UNCHANGED row, faults' = faults \/ faults' = faults + 1, faults' <= 1,
           Holds(Prev(n), row[n])' => Holds(Prev(n), row[n]),
           \/ ~Exists(Main(n))'
           \/ pc'[p] \in Putting /\ db'[p] = n
           \/ faults' # faults
           \/ pc[p] \notin Putting /\ (Exists(Main(n))' => Exists(Main(n)))
    PROVE  Aside(n)'
<1>. SUFFICES ASSUME n \in Registered, Holds(Prev(n), row[n])
              PROVE  /\ Exists(Main(n))' => \E q \in Admin : db'[q] = n /\ pc'[q] \in Putting
                     /\ faults' = 0 => FALSE
  BY DEF Aside, Registered
<1>1. faults \in Nat
  BY FilesAssumption DEF Before, Shape, TypeOK
<1>2. (Exists(Main(n)) => pc[p] \in Putting) /\ faults # 0
  BY OwnAside
<1>. QED
  BY <1>1, <1>2

\* Opening a file to write, with what is in it then.
LEMMA Fills ==
    ASSUME FileTypes, Injective, NEW f \in Path, CanOpen(f), NEW v \in Data \cup {NoData},
           Disk([disk EXCEPT ![f] = Opened(f)], [content EXCEPT ![Opened(f)] = v])
    PROVE  /\ disk'[f] = Opened(f) /\ Exists(f)' /\ content'[disk'[f]] = v
           /\ \A g \in Path \ {f} : Kept(g)
<1>. DEFINE c == [content EXCEPT ![Opened(f)] = v]
<1>1. Opened(f) \in Inode
  BY DEF Opened, CanOpen, FreeInodes, FileTypes, Exists
<1>2. /\ c \in [Inode -> Data \cup {NoData}]
      /\ \A i \in Inode \ {Opened(f)} : c[i] = content[i]
      /\ c[Opened(f)] = v
  BY <1>1 DEF FileTypes
<1>. HIDE DEF c
<1>3. Disk([disk EXCEPT ![f] = Opened(f)], c)
  BY DEF c
<1>. QED
  BY <1>2, <1>3, FileOpened

\* A failed or finished step returns, and touches no file.
LEMMA ReturnsSafely ==
    ASSUME Before, NEW p \in Admin, pc[p] \notin {"idle", "install"}, OthersWait(p),
           SameFiles, UNCHANGED row, End(p),
           faults' = faults \/ faults' = faults + 1, faults' <= 1,
           faults' # faults \/ pc[p] \notin Putting
    PROVE  Safe' /\ Lasts
<1>. PICK n : n = db[p]
  OBVIOUS
<1>1. LocalTypes
  BY Hand
<1>2. pc'[p] = "idle" /\ data'[p] = NoData
  BY <1>1, Locals
<1>3. Aside(n)'
  BY AsideThen DEF SameFiles, Holds, Exists
<1>4. faults' = 0 => faults = 0
  BY FilesAssumption DEF Before, Shape, TypeOK
<1>. QED
  BY <1>2, <1>3, <1>4, NothingMade, SameStores

\* Create and ImportFile.
LEMMA CreateSafe ==
    ASSUME Before, NEW p \in Admin, faults' <= 1,
           \/ CreateOpen(p) \/ CreateInit(p) \/ ImportTruncate(p) \/ ImportWrite(p)
           \/ Register(p) \/ RemoveNew(p)
    PROVE  Safe' /\ Lasts
<1>o. OthersWait(p)
  BY StepsAlone DEF Before, Shape, Work
<1>a. /\ pc[p] \in {"open", "init", "truncate", "write", "register", "remove"} /\ ~Renaming(p)
      /\ faults' = faults \/ faults' = faults + 1
  BY DEF CreateOpen, CreateInit, ImportTruncate, ImportWrite, Register, RemoveNew, Renaming,
         Attempt, Fails, Fault, NoFault
<1>. PICK n, d : n = db[p] /\ d = data[p]
  OBVIOUS
<1>t. /\ LocalTypes /\ FileTypes /\ Injective /\ n \in Name /\ Names(p) = {n}
      /\ Names(p) \subseteq Name /\ \A q \in Admin \ {p} : Names(q) \cap Names(p) = {}
      /\ row \in [Name -> Data \cup {NoData}] /\ faults \in Nat
  BY <1>a, Hand, FilesAssumption DEF Before, Shape, TypeOK
<1>z. faults' = 0 => faults = 0
  BY <1>a, <1>t
<1>m. /\ pc[p] \in {"open", "truncate"} => ~Exists(Main(n))
      /\ pc[p] = "write" => Exists(Main(n)) /\ fd[p] = disk[Main(n)] /\ content[fd[p]] = NoData
      /\ pc[p] \in Filled => Holds(Main(n), d)
  BY <1>a, Hand DEF Underway, Placing
<1>f. Fresh(p) /\ pc[p] \in Bearing /\ d \in Data
  BY <1>a, Hand DEF Underway, Fresh, Bearing, Bringing
\* The data of p is in no file of another kind.
<1>g. ~Holds(Prev(n), d) /\ ~Holds(Tmp(n), d) /\ \A k \in Name : row[k] # d
  BY <1>a, <1>t, <1>f DEF Fresh
<1>p. /\ Main(n) \in Path /\ Prev(n) \in Path /\ Tmp(n) \in Path
      /\ Main(n) # Prev(n) /\ Main(n) # Tmp(n) /\ Prev(n) # Tmp(n)
  BY <1>t, Paths
\* Nor has the file that p is putting there the data of a row.
<1>e. \A k \in Registered : ~Holds(Main(n), row[k])
  BY <1>a, <1>m, <1>g DEF Registered, Holds, Filled
\* A step that touches no other file.
<1>n. ASSUME UNCHANGED row, \A g \in Path \ {Main(n)} : Kept(g), data'[p] \in {d, NoData},
             \A e \in Data : Holds(Main(n), e)' => Holds(Main(n), e) \/ e = d,
             \/ pc'[p] = "idle" /\ (faults' # faults \/ ~Exists(Main(n))')
             \/ /\ pc'[p] \in Putting /\ db'[p] = n /\ data'[p] = d
                /\ Placing(p, n)' /\ (Holds(Main(n), d)' => pc'[p] \in Filled)
      PROVE  Safe' /\ Lasts
  <2>1. /\ \A e : Holds(Prev(n), e)' <=> Holds(Prev(n), e)
        /\ \A e : Holds(Tmp(n), e)' <=> Holds(Tmp(n), e)
    BY <1>n, <1>p, KeptHolds
  <2>2. Holds(Prev(n), row[n])' => Holds(Prev(n), row[n])
    BY <1>n, <1>p DEF Holds, Exists, Kept
  <2>3. Aside(n)'
    BY <1>a, <1>n, <2>2, AsideThen
  <2>4. Underway(p)'
    <3>1. CASE pc'[p] = "idle"
      BY <3>1, NothingMade
    <3>2. CASE pc'[p] # "idle"
      <4>1. pc'[p] \in Putting /\ pc'[p] \in Bearing \cup {"write"} /\ db'[p] = n /\ data'[p] = d
        BY <1>n, <3>2 DEF Putting, Filled, Bearing, Bringing
      <4>2. ~Holds(Prev(n), data[p])' /\ ~Holds(Tmp(n), data[p])'
            /\ (Holds(Main(n), data[p])' => pc'[p] \in Filled)
        BY <1>g, <1>n, <2>1, <3>2, <4>1 DEF Holds, Exists
      <4>3. Fresh(p)'
        BY <1>f, <1>n, <1>o, <4>1, <4>2, FreshHere DEF Bearing, Bringing
      <4>. QED
        BY <1>n, <3>2, <4>1, <4>3 DEF Underway, Carrying, Swapping, Putting, Filled
    <3>. QED
      BY <3>1, <3>2
  <2>5. Safe'
    BY <1>a, <1>f, <1>n, <1>o, <1>z, <2>1, <2>3, <2>4, AtName
  <2>6. Lasts
    <3>1. \A k \in Registered : Holds(Prev(n), row[k]) => Holds(Prev(n), row[k])'
      BY <1>n, <1>p DEF Holds, Exists, Kept
    <3>. QED
      BY <1>a, <1>e, <1>n, <3>1, LastsAtName
  <2>. QED
    BY <2>5, <2>6
<1>r. ASSUME Fails, Return(p), UNCHANGED row PROVE Safe' /\ Lasts
  <2>1. SameFiles /\ faults' # faults
    BY <1>r, <1>t DEF Fails, Fault
  <2>. QED
    BY <1>a, <1>o, <1>r, <2>1, ReturnsSafely DEF Return
<1>1. CASE CreateOpen(p)
  <2>1. CASE ~(Fails /\ Return(p) /\ UNCHANGED row)
    <3>. DEFINE i == Opened(Main(n))
    <3>1. /\ CanOpen(Main(n))
          /\ Disk([disk EXCEPT ![Main(n)] = i], [content EXCEPT ![i] = d])
          /\ Continue(p, "init") /\ UNCHANGED row
      BY <1>1, <1>m, <2>1 DEF CreateOpen
    <3>2. /\ Exists(Main(n))' /\ content'[disk'[Main(n)]] = d
          /\ \A g \in Path \ {Main(n)} : Kept(g)
      BY <1>f, <1>p, <1>t, <3>1, Fills
    <3>3. pc'[p] = "init" /\ db'[p] = n /\ data'[p] = d
      BY <1>t, <3>1, Locals
    <3>4. /\ Placing(p, n)' /\ pc'[p] \in Putting /\ pc'[p] \in Filled
          /\ \A e \in Data : Holds(Main(n), e)' => e = d
      BY <3>2, <3>3 DEF Placing, Holds, Putting, Filled
    <3>. QED
      BY <1>n, <3>1, <3>2, <3>3, <3>4
  <2>. QED
    BY <1>1, <1>r, <2>1
<1>2. CASE CreateInit(p)
  <2>1. SameFiles /\ UNCHANGED row /\ \A g \in Path \ {Main(n)} : Kept(g)
    BY <1>2 DEF CreateInit, Fails, SameFiles, Kept
  <2>2. CASE Return(p)
    BY <1>2, <1>r, <1>t, <2>2, Locals DEF CreateInit
  <2>3. CASE ~Return(p)
    <3>1. pc'[p] \in {"register", "remove"} /\ db'[p] = n /\ data'[p] = d
      BY <1>2, <1>t, <2>3, Locals DEF CreateInit
    <3>2. Holds(Main(n), d)' /\ \A e \in Data : Holds(Main(n), e)' => e = d
      BY <1>2, <1>m, <2>1 DEF CreateInit, SameFiles, Holds, Exists, Filled
    <3>3. Placing(p, n)' /\ pc'[p] \in Putting /\ pc'[p] \in Filled
      BY <3>1, <3>2 DEF Placing, Putting, Filled, Holds
    <3>. QED
      BY <1>n, <2>1, <3>1, <3>2, <3>3
  <2>. QED
    BY <2>2, <2>3
<1>3. CASE ImportTruncate(p)
  <2>1. CASE ~(Fails /\ Return(p) /\ UNCHANGED row)
    <3>. DEFINE i == Opened(Main(n))
    <3>1. /\ CanOpen(Main(n))
          /\ Disk([disk EXCEPT ![Main(n)] = i], [content EXCEPT ![i] = NoData])
          /\ fd' = [fd EXCEPT ![p] = i]
          /\ Goto(p, "write") /\ UNCHANGED <<row, db, data>>
      BY <1>3, <2>1 DEF ImportTruncate
    <3>2. /\ disk'[Main(n)] = i /\ Exists(Main(n))' /\ content'[disk'[Main(n)]] = NoData
          /\ \A g \in Path \ {Main(n)} : Kept(g)
      BY <1>p, <1>t, <3>1, Fills
    <3>3. pc'[p] = "write" /\ db'[p] = n /\ data'[p] = d /\ fd'[p] = disk'[Main(n)]
      BY <1>t, <3>1, <3>2, Locals DEF LocalTypes
    <3>4. /\ Placing(p, n)' /\ pc'[p] \in Putting
          /\ \A e \in Data : ~Holds(Main(n), e)'
      BY <3>2, <3>3, FilesAssumption DEF Placing, Holds, Putting, Filled
    <3>. QED
      BY <1>f, <1>n, <3>1, <3>2, <3>3, <3>4 DEF Holds, Exists
  <2>. QED
    BY <1>3, <1>r, <2>1
<1>4. CASE ImportWrite(p)
  <2>1. CASE ~(Fails /\ Return(p) /\ UNCHANGED row)
    <3>1. pc[p] = "write" /\ WriteOpenFile(p) /\ Continue(p, "register") /\ UNCHANGED row
      BY <1>4, <2>1 DEF ImportWrite
    <3>2. /\ Exists(Main(n))' /\ content'[disk'[Main(n)]] = d
          /\ \A g \in Path \ {Main(n)} : Kept(g)
      BY <1>f, <1>m, <1>p, <1>t, <3>1, Written
    <3>3. pc'[p] = "register" /\ db'[p] = n /\ data'[p] = d
      BY <1>t, <3>1, Locals
    <3>4. /\ Placing(p, n)' /\ pc'[p] \in Putting /\ pc'[p] \in Filled
          /\ \A e \in Data : Holds(Main(n), e)' => e = d
      BY <3>2, <3>3 DEF Placing, Holds, Putting, Filled
    <3>. QED
      BY <1>n, <3>1, <3>2, <3>3, <3>4
  <2>. QED
    BY <1>4, <1>r, <2>1
<1>5. CASE Register(p)
  <2>0. SameFiles /\ UNCHANGED faults /\ Holds(Main(n), d) /\ \A g \in Path \ {Main(n)} : Kept(g)
    BY <1>5, <1>m DEF Register, SameFiles, Kept, Filled
  <2>1. CASE n \in Registered
    <3>1. UNCHANGED row /\ pc'[p] = "remove" /\ db'[p] = n /\ data'[p] = d
      BY <1>5, <1>t, <2>1, Locals DEF Register
    <3>2. /\ Placing(p, n)' /\ pc'[p] \in Putting /\ pc'[p] \in Filled
          /\ \A e \in Data : Holds(Main(n), e)' => e = d
      BY <2>0, <3>1 DEF Placing, Putting, Filled, SameFiles, Holds, Exists
    <3>. QED
      BY <1>n, <2>0, <3>1, <3>2
  <2>2. CASE n \notin Registered
    <3>. DEFINE T == {n}
    <3>1. row' = [row EXCEPT ![n] = d] /\ Return(p)
      BY <1>5, <2>2 DEF Register
    <3>2. row'[n] = d /\ \A k \in Name \ {n} : row'[k] = row[k]
      BY <1>t, <3>1
    <3>3. pc'[p] = "idle" /\ data'[p] = NoData /\ Underway(p)'
      BY <1>t, <3>1, Locals, NothingMade
    <3>4. (\A k \in Name \ T : Leaves(k)) /\ Rows(p) /\ Gains(p)
      BY <1>f, <2>0, <3>2 DEF Leaves, Rows, Gains, SameFiles, Kept, Holds, Exists
    <3>5. /\ \A m \in Name : ~Holds(Tmp(m), d)' /\ ~Holds(Prev(m), d)'
          /\ \A m \in Name \ {n} : ~Holds(Main(m), d)' /\ row'[m] # d
      <4>1. /\ \A m \in Name : ~Holds(Tmp(m), d) /\ ~Holds(Prev(m), d)
            /\ \A m \in Name \ {n} : ~Holds(Main(m), d)
        BY <1>5, <1>f DEF Fresh, Register
      <4>. QED
        BY <1>g, <2>0, <3>2, <4>1 DEF SameFiles, Holds, Exists
    <3>6. Placed(n)'
      <4>1. OwnPlaces(n)'
        <5>. SUFFICES ASSUME NEW m \in Name
                      PROVE  /\ ~Holds(Tmp(m), row[n])'
                             /\ m # n => /\ row'[m] # row'[n] /\ ~Holds(Prev(m), row[n])'
                                         /\ ~Holds(Main(m), row[n])'
          BY DEF OwnPlaces
        <5>. QED
          BY <3>2, <3>5 DEF Holds, Exists
      <4>2. ~Holds(Prev(n), row[n])'
        BY <1>t, <3>2, <3>5 DEF Holds, Exists
      <4>. QED
        BY <4>1, <4>2 DEF Placed, Aside
    <3>7. \A j \in Registered : ~Holds(Main(n), row[j])'
      BY <1>e, <2>0, <2>2, <3>2 DEF SameFiles, Holds, Exists, Registered
    <3>8. Lasts
      BY <2>0, <2>2, <3>2 DEF Lasts, Whole, SameFiles, Holds, Exists, Registered
    <3>9. Safe'
      BY <1>o, <1>t, <1>z, <3>3, <3>4, <3>6, <3>7, Elsewhere DEF Before
    <3>. QED
      BY <3>8, <3>9
  <2>. QED
    BY <2>1, <2>2
<1>6. CASE RemoveNew(p)
  <2>1. CASE ~(Fails /\ Return(p) /\ UNCHANGED row)
    <3>1. Unlink(Main(n)) /\ Return(p) /\ UNCHANGED row
      BY <1>6, <2>1 DEF RemoveNew, Attempt
    <3>2. ~Exists(Main(n))' /\ \A g \in Path \ {Main(n)} : Kept(g)
      BY <1>p, <1>t, <3>1, Unlinked
    <3>3. pc'[p] = "idle" /\ data'[p] = NoData
      BY <1>t, <3>1, Locals
    <3>. QED
      BY <1>n, <3>1, <3>2, <3>3 DEF Holds
  <2>. QED
    BY <1>6, <1>r, <2>1
<1>. QED
  BY <1>1, <1>2, <1>3, <1>4, <1>5, <1>6

\* Delete: its own removal of the file may take data with it, nothing else may.
LEMMA DeleteSafe ==
    ASSUME Before, NEW p \in Admin, faults' <= 1, DeleteClose(p) \/ DeleteUnlink(p)
    PROVE  Safe' /\ (Lasts \/ DeleteUnlink(p))
<1>o. OthersWait(p)
  BY StepsAlone DEF Before, Shape, Work
<1>a. /\ pc[p] \in {"closeDropped", "unlink"} /\ ~Renaming(p) /\ UNCHANGED row
      /\ faults' = faults \/ faults' = faults + 1
  BY DEF DeleteClose, DeleteUnlink, Renaming, Attempt, Fails, Fault, NoFault
<1>. PICK n : n = db[p]
  OBVIOUS
<1>t. /\ LocalTypes /\ FileTypes /\ Injective /\ n \in Name /\ faults \in Nat
  BY <1>a, Hand, FilesAssumption DEF Before, Shape, TypeOK
<1>r. ASSUME SameFiles, Return(p) PROVE Safe' /\ Lasts
  BY <1>a, <1>o, <1>r, ReturnsSafely DEF Putting, Filled, Return
<1>1. CASE DeleteClose(p)
  <2>1. CASE Continue(p, "unlink")
    <3>1. SameFiles /\ pc'[p] = "unlink" /\ data'[p] = data[p]
      BY <1>1, <1>t, <2>1, Locals DEF DeleteClose
    <3>2. Aside(n)'
      BY <1>a, <1>t, <3>1, AsideThen DEF SameFiles, Holds, Exists, Putting, Filled
    <3>3. faults' = 0 => faults = 0
      BY <1>a, <1>t
    <3>. QED
      BY <1>a, <1>o, <3>1, <3>2, <3>3, NothingMade, SameStores
  <2>. QED
    BY <1>1, <1>r, <2>1 DEF DeleteClose
<1>2. CASE DeleteUnlink(p)
  <2>1. CASE ~(SameFiles /\ Return(p))
    <3>1. Unlink(Main(n)) /\ Return(p)
      BY <1>2, <2>1 DEF DeleteUnlink, Attempt, Fails
    <3>p. /\ Main(n) \in Path /\ Main(n) # Prev(n) /\ Main(n) # Tmp(n)
          /\ Prev(n) \in Path /\ Tmp(n) \in Path
      BY <1>t, Paths
    <3>2. ~Exists(Main(n))' /\ \A g \in Path \ {Main(n)} : Kept(g)
      BY <1>t, <3>1, <3>p, Unlinked
    <3>3. pc'[p] = "idle" /\ data'[p] = NoData /\ Underway(p)'
      BY <1>t, <3>1, Locals, NothingMade
    <3>4. /\ \A e : Holds(Prev(n), e)' <=> Holds(Prev(n), e)
          /\ \A e : Holds(Tmp(n), e)' <=> Holds(Tmp(n), e)
          /\ \A e : ~Holds(Main(n), e)'
      BY <3>2, <3>p, KeptHolds DEF Holds
    <3>5. Holds(Prev(n), row[n])' => Holds(Prev(n), row[n])
      BY <1>a, <3>2, <3>p DEF Holds, Exists, Kept
    <3>6. Aside(n)'
      BY <1>a, <3>2, <3>5, AsideThen
    <3>7. faults' = 0 => faults = 0
      BY <1>a, <1>t
    <3>. QED
      BY <1>2, <1>a, <1>o, <3>2, <3>3, <3>4, <3>6, <3>7, AtName
  <2>. QED
    BY <1>r, <2>1
<1>. QED
  BY <1>1, <1>2

\* Rename, with its transaction or without.
LEMMA RenameSafe ==
    ASSUME Before, NEW p \in Admin, faults' <= 1,
           RenameUpdate(p) \/ RenameClose(p) \/ RenameMove(p) \/ RenameCommit(p)
    PROVE  Safe' /\ Lasts
<1>o. OthersWait(p)
  BY StepsAlone DEF Before, Shape, Work
<1>a. Renaming(p) /\ (faults' = faults \/ faults' = faults + 1)
  BY DEF RenameUpdate, RenameClose, RenameMove, RenameCommit, Renaming, Fault, NoFault
<1>. PICK n, m : n = db[p] /\ m = to[p]
  OBVIOUS
<1>i. pc[p] \notin {"idle", "install"} /\ pc[p] \notin Putting
  BY <1>a DEF Renaming, Putting, Filled
<1>t. /\ LocalTypes /\ FileTypes /\ Injective /\ faults \in Nat
      /\ Names(p) \subseteq Name /\ \A q \in Admin \ {p} : Names(q) \cap Names(p) = {}
      /\ row \in [Name -> Data \cup {NoData}]
  BY <1>i, Hand, FilesAssumption DEF Before, Shape, TypeOK
<1>n. /\ n \in Name /\ m \in Name /\ n # m
      /\ n \in Names(p) /\ m \in Names(p) /\ Names(p) = {n, m}
  BY <1>a, <1>i, FilesAssumption DEF Before, Shape, LocalsOK, Names
<1>c. Carrying(p, n, m)
  BY <1>i, Hand DEF Underway
<1>z. faults' = 0 => faults = 0
  BY <1>a, <1>t
<1>r. ASSUME SameFiles, UNCHANGED row, End(p) PROVE Safe' /\ Lasts
  BY <1>a, <1>i, <1>o, <1>r, ReturnsSafely
<1>s. ASSUME SameFiles, UNCHANGED row, Underway(p)', data'[p] = data[p] PROVE Safe' /\ Lasts
  <2>1. Aside(n)'
    BY <1>a, <1>i, <1>s, AsideThen DEF SameFiles, Holds, Exists
  <2>. QED
    BY <1>o, <1>s, <1>z, <2>1, SameStores
<1>p. /\ Main(n) \in Path /\ Main(m) \in Path /\ Main(n) # Main(m)
      /\ \A k \in Name : Prev(k) \in Path \ {Main(n), Main(m)} /\ Tmp(k) \in Path \ {Main(n), Main(m)}
      /\ \A k \in Name \ {n, m} : Main(k) \in Path \ {Main(n), Main(m)}
  BY <1>n, Paths
<1>1. CASE RenameUpdate(p)
  <2>1. CASE Return(p)
    BY <1>1, <1>r, <2>1 DEF RenameUpdate, Return
  <2>2. CASE ~Return(p)
    <3>1. /\ n \in Registered /\ m \notin Registered /\ SameFiles /\ UNCHANGED row
          /\ pc'[p] = "close" /\ db'[p] = n /\ to'[p] = m /\ data'[p] = data[p]
      BY <1>1, <1>t, <2>2, Locals DEF RenameUpdate
    <3>2. ~Exists(Main(m))
      BY <1>1, <1>c DEF RenameUpdate, Carrying
    <3>3. Underway(p)'
      BY <3>1, <3>2 DEF Underway, Placing, Carrying, Swapping, Fresh, Bearing, Bringing, Filled,
                        SameFiles, Exists, Registered
    <3>. QED
      BY <1>s, <3>1, <3>3
  <2>. QED
    BY <2>1, <2>2
<1>2. CASE RenameClose(p)
  <2>1. CASE Return(p)
    BY <1>2, <1>r, <2>1 DEF RenameClose, Return
  <2>2. CASE ~Return(p)
    <3>1. /\ SameFiles /\ UNCHANGED row
          /\ pc'[p] = "move" /\ db'[p] = n /\ to'[p] = m /\ data'[p] = data[p]
      BY <1>2, <1>t, <2>2, Locals DEF RenameClose
    <3>2. ~Exists(Main(m)) /\ n \in Registered /\ m \notin Registered
      BY <1>2, <1>c DEF RenameClose, Carrying
    <3>3. Underway(p)'
      BY <3>1, <3>2 DEF Underway, Placing, Carrying, Swapping, Fresh, Bearing, Bringing, Filled,
                        SameFiles, Exists, Registered
    <3>. QED
      BY <1>s, <3>1, <3>3
  <2>. QED
    BY <2>1, <2>2
<1>3. CASE RenameMove(p)
  <2>0. pc[p] = "move" /\ ~Exists(Main(m)) /\ n \in Registered /\ m \notin Registered /\ UNCHANGED row
    BY <1>3, <1>c DEF RenameMove, Carrying
  <2>1. CASE Return(p)
    BY <1>3, <1>r, <1>t, <2>1, Locals DEF RenameMove, Return
  <2>2. CASE ~Return(p)
    <3>1. /\ Exists(Main(n)) /\ Move(Main(n), Main(m)) /\ Continue(p, "commit") /\ UNCHANGED faults
      BY <1>3, <2>2 DEF RenameMove
    <3>2. /\ ~Exists(Main(n))' /\ (\A e : Holds(Main(n), e) => Holds(Main(m), e)')
          /\ \A f \in Path \ {Main(n), Main(m)} : Kept(f)
      BY <1>p, <1>t, <3>1, Moved
    <3>3. pc'[p] = "commit" /\ db'[p] = n /\ to'[p] = m /\ data'[p] = data[p]
      BY <1>t, <3>1, Locals
    <3>4. \A e : Holds(Main(m), e)' <=> Holds(Main(n), e)
      BY <3>1, <3>2 DEF Holds
    <3>5. /\ \A k \in Name : \A e : /\ Holds(Prev(k), e)' <=> Holds(Prev(k), e)
                                    /\ Holds(Tmp(k), e)' <=> Holds(Tmp(k), e)
          /\ \A k \in Name \ {n, m} : \A e : Holds(Main(k), e)' <=> Holds(Main(k), e)
          /\ \A e : ~Holds(Main(n), e)'
      BY <1>p, <3>2, KeptHolds DEF Holds
    <3>6. ~Holds(Prev(n), row[n])
      BY <1>i, <2>0, <3>1, OwnAside
    <3>7. \A k : (k \in Registered)' <=> k \in Registered
      BY <2>0 DEF Registered
    <3>8. Underway(p)'
      <4>1. ~Holds(Prev(n), row[n])'
        BY <1>n, <2>0, <3>5, <3>6 DEF Holds, Exists
      <4>2. ASSUME NEW k \in Registered' \ {n} PROVE ~Holds(Main(m), row[k])'
        <5>1. k \in Registered /\ k \in Name /\ k # n /\ OwnPlaces(k)
          BY <2>0, <4>2 DEF Registered, Before, Safe, Placed
        <5>2. ~Holds(Main(n), row[k])
          BY <1>n, <2>0, <5>1 DEF OwnPlaces
        <5>. QED
          BY <2>0, <3>4, <5>2 DEF Holds, Exists
      <4>3. Carrying(p, n, m)'
        BY <2>0, <3>2, <3>3, <3>7, <4>1, <4>2 DEF Carrying
      <4>. QED
        BY <3>3, <4>3 DEF Underway, Placing, Swapping, Fresh, Bearing, Bringing, Filled
    <3>9. Placed(n)' /\ Placed(m)'
      <4>1. Placed(m)'
        BY <2>0, <3>7 DEF Placed, OwnPlaces, Aside
      <4>2. OwnPlaces(n)'
        <5>. PICK e : e = row[n]
          OBVIOUS
        <5>. SUFFICES ASSUME NEW k \in Name
                      PROVE  /\ ~Holds(Tmp(k), e)'
                             /\ k # n => /\ row'[k] # e /\ ~Holds(Prev(k), e)'
                                         /\ k \in Registered => ~Holds(Main(k), e)'
          BY <2>0 DEF OwnPlaces, Registered, Holds, Exists
        <5>1. OwnPlaces(n)
          BY <1>n DEF Before, Safe, Placed
        <5>. QED
          BY <2>0, <3>5, <5>1 DEF OwnPlaces
      <4>3. ~Holds(Prev(n), row[n])'
        BY <1>n, <2>0, <3>5, <3>6 DEF Holds, Exists
      <4>. QED
        BY <4>1, <4>2, <4>3 DEF Placed, Aside
    <3>10. Rows(p) /\ \A k \in Name \ {n, m} : Leaves(k)
      BY <1>p, <2>0, <3>2 DEF Rows, Leaves
    <3>11. Gains(p)
      BY <1>n, <2>0, <3>4, <3>5 DEF Gains, Source
    <3>12. \A k \in Names(p) : ~((k \in Registered)' /\ k \notin Registered)
      BY <3>7
    <3>13. Safe'
      BY <1>n, <1>o, <1>t, <1>z, <3>3, <3>8, <3>9, <3>10, <3>11, <3>12, Elsewhere DEF Before
    <3>14. Lasts
      <4>. SUFFICES ASSUME NEW k \in Registered, NEW f \in Path, Holds(f, row[k])
                    PROVE  \E g \in Path : Holds(g, row[k])'
        BY <2>0 DEF Lasts, Whole
      <4>1. CASE f = Main(n)
        BY <1>p, <2>0, <3>2, <4>1 DEF Holds, Exists
      <4>2. CASE f \notin {Main(n), Main(m)}
        BY <2>0, <3>2, <4>2 DEF Kept, Holds, Exists
      <4>. QED
        BY <2>0, <4>1, <4>2 DEF Holds
    <3>. QED
      BY <3>13, <3>14
  <2>. QED
    BY <2>1, <2>2
<1>4. CASE RenameCommit(p)
  <2>0. /\ pc[p] = "commit" /\ n \in Registered /\ m \notin Registered
        /\ ~Exists(Main(n)) /\ ~Holds(Prev(n), row[n])
        /\ \A k \in Registered \ {n} : ~Holds(Main(m), row[k])
        /\ SameFiles /\ End(p)
    BY <1>4, <1>c DEF RenameCommit, Carrying
  <2>1. CASE UNCHANGED row
    BY <1>r, <2>0, <2>1
  <2>2. CASE ~UNCHANGED row
    <3>. PICK e : e = row[n]
      OBVIOUS
    <3>1. row'[m] = e /\ row'[n] = NoData /\ \A k \in Name \ {n, m} : row'[k] = row[k]
      BY <1>4, <1>n, <1>t, <2>2 DEF RenameCommit
    <3>2. \A f, d : Holds(f, d)' <=> Holds(f, d)
      BY <2>0 DEF SameFiles, Holds, Exists
    <3>3. pc'[p] = "idle" /\ data'[p] = NoData /\ Underway(p)'
      BY <1>t, <2>0, Locals, NothingMade
    <3>4. Rows(p) /\ Gains(p) /\ \A k \in Name \ {n, m} : Leaves(k)
      BY <1>n, <2>0, <3>1, <3>2 DEF Rows, Gains, Leaves, SameFiles, Kept
    <3>5. OwnPlaces(n) /\ e # NoData
      BY <1>n, <2>0 DEF Before, Safe, Placed, Registered
    <3>6. ASSUME NEW k \in Name
          PROVE  /\ ~Holds(Tmp(k), e) /\ ~Holds(Prev(k), e)
                 /\ k # m => row'[k] # e /\ (row'[k] # NoData => ~Holds(Main(k), e))
      <4>1. CASE k = n
        BY <2>0, <3>1, <3>5, <4>1 DEF OwnPlaces
      <4>2. CASE k # n
        BY <1>n, <2>0, <3>1, <3>5, <4>2 DEF OwnPlaces, Registered
      <4>. QED
        BY <4>1, <4>2
    <3>7. Placed(m)'
      <4>1. OwnPlaces(m)'
        <5>. SUFFICES ASSUME NEW k \in Name
                      PROVE  /\ ~Holds(Tmp(k), row[m])'
                             /\ k # m => /\ row'[k] # row'[m] /\ ~Holds(Prev(k), row[m])'
                                         /\ (k \in Registered)' => ~Holds(Main(k), row[m])'
          BY DEF OwnPlaces
        <5>1. /\ ~Holds(Tmp(k), e)' /\ ~Holds(Prev(k), e)'
              /\ k # m => row'[k] # e /\ (row'[k] # NoData => ~Holds(Main(k), e)')
          BY <3>2, <3>6
        <5>. QED
          BY <3>1, <5>1 DEF Holds, Exists, Registered
      <4>2. ~Holds(Prev(m), row[m])'
        <5>1. ~Holds(Prev(m), e)'
          BY <1>n, <3>2, <3>6
        <5>. QED
          BY <3>1, <5>1 DEF Holds, Exists
      <4>. QED
        BY <4>1, <4>2 DEF Placed, Aside
    <3>8. Placed(n)'
      BY <3>1 DEF Placed, OwnPlaces, Aside, Registered
    <3>9. ASSUME NEW j \in Registered \ {n, m} PROVE ~Holds(Main(m), row[j])'
      <4>1. row'[j] = row[j] /\ ~Holds(Main(m), row[j])
        BY <2>0, <3>1, <3>9 DEF Registered
      <4>. QED
        BY <2>0, <4>1 DEF SameFiles, Holds, Exists
    <3>10. ~(n \in Registered)'
      BY <3>1 DEF Registered
    <3>11. Safe'
      BY <1>n, <1>o, <1>t, <1>z, <3>3, <3>4, <3>7, <3>8, <3>9, <3>10, Elsewhere DEF Before
    <3>12. Lasts
      BY <1>n, <2>0, <3>1 DEF Lasts, Whole, SameFiles, Holds, Exists, Registered
    <3>. QED
      BY <3>11, <3>12
  <2>. QED
    BY <2>1, <2>2
<1>. QED
  BY <1>1, <1>2, <1>3, <1>4

\* ReplaceFile: what is under the name is set aside, and is not let go of before
\* the replacement is there.
LEMMA ReplaceSafe ==
    ASSUME Before, NEW p \in Admin, faults' <= 1,
           \/ ReplaceClose(p) \/ ReplaceStage(p) \/ ReplaceCopy(p) \/ ReplaceAside(p)
           \/ ReplaceInstall(p) \/ ReplaceUndo(p) \/ ReplaceClean(p) \/ ReplaceFinish(p)
    PROVE  Safe' /\ Lasts
<1>o. OthersWait(p)
  BY StepsAlone DEF Before, Shape, Work
<1>a. /\ pc[p] \in {"closeReplaced", "stage", "copy", "aside", "install", "undo", "clean", "finish"}
      /\ ~Renaming(p) /\ (faults' = faults \/ faults' = faults + 1)
  BY DEF ReplaceClose, ReplaceStage, ReplaceCopy, ReplaceAside, ReplaceInstall, ReplaceUndo,
         ReplaceClean, ReplaceFinish, Renaming, Attempt, Fails, Fault, NoFault
<1>. PICK n, d : n = db[p] /\ d = data[p]
  OBVIOUS
<1>i. pc[p] # "idle" /\ pc[p] \notin Putting
  BY <1>a DEF Putting, Filled
<1>t. /\ LocalTypes /\ FileTypes /\ Injective /\ n \in Name /\ Names(p) = {n} /\ faults \in Nat
      /\ Names(p) \subseteq Name /\ \A q \in Admin \ {p} : Names(q) \cap Names(p) = {}
      /\ row \in [Name -> Data \cup {NoData}]
  BY <1>a, Hand, FilesAssumption DEF Before, Shape, TypeOK
<1>z. faults' = 0 => faults = 0
  BY <1>a, <1>t
<1>m. /\ n \in Registered
      /\ pc[p] = "copy" => Exists(Tmp(n)) /\ fd[p] = disk[Tmp(n)] /\ content[fd[p]] = NoData
      /\ pc[p] \in {"aside", "install"} => Holds(Tmp(n), d)
      /\ pc[p] \in {"install", "undo"} => ~Exists(Main(n))
      /\ pc[p] = "clean" => ~Holds(Prev(n), row[n])
  BY <1>a, Hand DEF Underway, Swapping
<1>f. /\ Fresh(p)
      /\ pc[p] \in Bringing =>
            /\ pc[p] \in Bearing /\ d \in Data
            /\ ~Holds(Main(n), d) /\ ~Holds(Prev(n), d)
            /\ pc[p] \notin {"aside", "install"} => ~Holds(Tmp(n), d)
  BY <1>a, <1>t, Hand DEF Underway, Fresh, Bearing, Bringing, Filled
<1>p. /\ Main(n) \in Path /\ Prev(n) \in Path /\ Tmp(n) \in Path
      /\ Main(n) # Prev(n) /\ Main(n) # Tmp(n) /\ Prev(n) # Tmp(n)
  BY <1>t, Paths
<1>k. \A k \in Registered : ~Holds(Tmp(n), row[k]) /\ (Holds(Prev(n), row[k]) => k = n)
  BY <1>t DEF Before, Safe, Placed, OwnPlaces, Registered
<1>r. ASSUME SameFiles, UNCHANGED row, Return(p), pc[p] # "install" PROVE Safe' /\ Lasts
  BY <1>a, <1>i, <1>o, <1>r, ReturnsSafely DEF Return
\* A step that leaves the rows alone.
<1>n. ASSUME UNCHANGED row, \A g \in Path \ {Main(n), Prev(n), Tmp(n)} : Kept(g),
             data'[p] \in {d, NoData}, Underway(p)', Aside(n)',
             \A e \in Data :
                /\ Holds(Main(n), e)' => Holds(Main(n), e) \/ Holds(Prev(n), e)
                /\ Holds(Prev(n), e)' => Holds(Prev(n), e) \/ Holds(Main(n), e)
                /\ Holds(Tmp(n), e)' => Holds(Tmp(n), e) \/ (e = d /\ pc[p] \in Bearing),
             \A k \in Registered :
                Holds(Main(n), row[k]) \/ Holds(Prev(n), row[k])
                    => Holds(Main(n), row[k])' \/ Holds(Prev(n), row[k])'
      PROVE  Safe' /\ Lasts
  <2>1. Safe'
    BY <1>a, <1>i, <1>m, <1>n, <1>o, <1>z, AtName
  <2>2. Lasts
    BY <1>i, <1>n, LastsAtName
  <2>. QED
    BY <2>1, <2>2
\* A step that also leaves the other files of n alone.
<1>w. ASSUME UNCHANGED row, \A g \in Path \ {Tmp(n)} : Kept(g), pc[p] # "install",
              data'[p] \in {d, NoData}, Underway(p)',
              \A e \in Data : Holds(Tmp(n), e)' => Holds(Tmp(n), e) \/ (e = d /\ pc[p] \in Bearing)
       PROVE  Safe' /\ Lasts
  <2>1. /\ \A e : Holds(Main(n), e)' <=> Holds(Main(n), e)
        /\ \A e : Holds(Prev(n), e)' <=> Holds(Prev(n), e)
        /\ Exists(Main(n))' <=> Exists(Main(n))
    BY <1>w, <1>p, KeptHolds
  <2>2. \A k : /\ Holds(Main(n), row[k]) => Holds(Main(n), row[k])'
               /\ Holds(Prev(n), row[k])' <=> Holds(Prev(n), row[k])
    BY <1>w, <1>p DEF Holds, Exists, Kept
  <2>3. Aside(n)'
    BY <1>a, <1>i, <1>w, <2>1, <2>2, AsideThen
  <2>4. \A k : Holds(Prev(n), row[k]) => Holds(Prev(n), row[k])'
    BY <2>2
  <2>. QED
    BY <1>n, <1>w, <2>1, <2>2, <2>3, <2>4
\* How far p is afterwards.
<1>u. ASSUME UNCHANGED row, db'[p] = n, pc'[p] \in {"undo", "finish"},
             pc'[p] = "undo" => ~Exists(Main(n))'
      PROVE  Underway(p)'
  BY <1>m, <1>u DEF Underway, Placing, Carrying, Swapping, Fresh, Bearing, Bringing, Filled, Registered
<1>v. ASSUME UNCHANGED row, db'[p] = n, data'[p] = d, pc[p] \in Bringing,
             pc'[p] \in {"stage", "copy", "aside", "install"},
             \A g \in Path \ {Main(n), Prev(n), Tmp(n)} : Kept(g),
             ~Holds(Main(n), d)', ~Holds(Prev(n), d)',
             Holds(Tmp(n), d)' <=> pc'[p] \in {"aside", "install"},
             pc'[p] = "copy" => Exists(Tmp(n))' /\ fd'[p] = disk'[Tmp(n)] /\ content'[fd'[p]] = NoData,
             pc'[p] = "install" => ~Exists(Main(n))'
      PROVE  Underway(p)'
  <2>1. pc'[p] \in Bearing
    BY <1>v DEF Bearing, Bringing
  <2>2. /\ ~Holds(Prev(n), data[p])' /\ ~Holds(Main(n), data[p])'
        /\ Holds(Tmp(n), data[p])' => pc'[p] \in {"aside", "install"}
        /\ pc'[p] \in {"aside", "install"} => Holds(Tmp(n), data[p])'
    BY <1>v DEF Holds, Exists
  <2>3. Fresh(p)'
    BY <1>f, <1>o, <1>v, <2>1, <2>2, FreshHere
  <2>4. Swapping(p, n)'
    BY <1>m, <1>v, <2>2 DEF Swapping, Registered
  <2>. QED
    BY <1>v, <2>3, <2>4 DEF Underway, Placing, Carrying, Filled
<1>1. CASE ReplaceClose(p)
  <2>1. CASE Continue(p, "stage")
    <3>1. /\ SameFiles /\ UNCHANGED row /\ \A g \in Path : Kept(g)
          /\ pc[p] = "closeReplaced" /\ pc'[p] = "stage" /\ db'[p] = n /\ data'[p] = d
      BY <1>1, <1>t, <2>1, Locals DEF ReplaceClose, SameFiles, Kept
    <3>2. \A f, e : Holds(f, e)' <=> Holds(f, e)
      BY <3>1 DEF SameFiles, Holds, Exists
    <3>3. Underway(p)'
      BY <1>f, <1>v, <3>1, <3>2 DEF Bringing
    <3>. QED
      BY <1>w, <3>1, <3>2, <3>3
  <2>. QED
    BY <1>1, <1>r, <2>1 DEF ReplaceClose
<1>2. CASE ReplaceStage(p)
  <2>0. pc[p] = "stage" /\ UNCHANGED row
    BY <1>2 DEF ReplaceStage
  <2>1. CASE ~(SameFiles /\ Return(p))
    <3>. DEFINE i == Opened(Tmp(n))
    <3>1. /\ CanOpen(Tmp(n))
          /\ Disk([disk EXCEPT ![Tmp(n)] = i], [content EXCEPT ![i] = NoData])
          /\ fd' = [fd EXCEPT ![p] = i]
          /\ Goto(p, "copy") /\ UNCHANGED <<db, data>>
      BY <1>2, <2>1 DEF ReplaceStage, Fails
    <3>2. /\ disk'[Tmp(n)] = i /\ Exists(Tmp(n))' /\ content'[disk'[Tmp(n)]] = NoData
          /\ \A g \in Path \ {Tmp(n)} : Kept(g)
      BY <1>p, <1>t, <3>1, Fills
    <3>3. pc'[p] = "copy" /\ db'[p] = n /\ data'[p] = d /\ fd'[p] = disk'[Tmp(n)]
      BY <1>t, <3>1, <3>2, Locals DEF LocalTypes
    <3>4. /\ \A e \in Data : ~Holds(Tmp(n), e)'
          /\ ~Holds(Main(n), d)' /\ ~Holds(Prev(n), d)'
      BY <1>f, <1>p, <2>0, <3>2, KeptHolds, FilesAssumption DEF Holds, Bringing
    <3>5. Underway(p)'
      BY <1>f, <1>v, <2>0, <3>2, <3>3, <3>4 DEF Bringing
    <3>. QED
      BY <1>w, <2>0, <3>2, <3>3, <3>4, <3>5
  <2>. QED
    BY <1>r, <2>0, <2>1
<1>3. CASE ReplaceCopy(p)
  <2>0. pc[p] = "copy" /\ UNCHANGED row
    BY <1>3 DEF ReplaceCopy
  <2>1. CASE ~(SameFiles /\ Return(p))
    <3>1. WriteOpenFile(p) /\ Continue(p, "aside")
      BY <1>3, <2>1 DEF ReplaceCopy, Fails
    <3>2. /\ Exists(Tmp(n))' /\ content'[disk'[Tmp(n)]] = d
          /\ \A g \in Path \ {Tmp(n)} : Kept(g)
      BY <1>f, <1>m, <1>p, <1>t, <2>0, <3>1, Written DEF Bringing
    <3>3. pc'[p] = "aside" /\ db'[p] = n /\ data'[p] = d
      BY <1>t, <3>1, Locals
    <3>4. /\ \A e \in Data : Holds(Tmp(n), e)' => e = d
          /\ Holds(Tmp(n), d)' /\ ~Holds(Main(n), d)' /\ ~Holds(Prev(n), d)'
      BY <1>f, <1>p, <2>0, <3>2, KeptHolds DEF Holds, Bringing
    <3>5. Underway(p)'
      BY <1>v, <2>0, <3>2, <3>3, <3>4 DEF Bringing
    <3>. QED
      BY <1>f, <1>w, <2>0, <3>2, <3>3, <3>4, <3>5 DEF Bringing
  <2>. QED
    BY <1>r, <2>0, <2>1
<1>4. CASE ReplaceAside(p)
  <2>0. /\ pc[p] = "aside" /\ UNCHANGED row /\ Holds(Tmp(n), d)
        /\ ~Holds(Main(n), d) /\ ~Holds(Prev(n), d)
    BY <1>4, <1>f, <1>m DEF ReplaceAside, Bringing
  <2>1. CASE SameFiles
    <3>1. /\ db'[p] = n /\ data'[p] = d
          /\ pc'[p] = "finish" \/ (pc'[p] = "install" /\ ~Exists(Main(n)))
      <4>1. \/ Continue(p, "finish")
            \/ Continue(p, "install") /\ ~Exists(Main(n))
            \/ Exists(Main(n)) /\ Move(Main(n), Prev(n))
        BY <1>4 DEF ReplaceAside
      <4>2. ASSUME Exists(Main(n)), Move(Main(n), Prev(n)) PROVE FALSE
        BY <1>p, <1>t, <2>1, <4>2, Moved DEF SameFiles, Exists
      <4>. QED
        BY <1>t, <4>1, <4>2, Locals
    <3>2. /\ \A f, e : Holds(f, e)' <=> Holds(f, e)
          /\ Exists(Main(n))' <=> Exists(Main(n))
          /\ \A g \in Path : Kept(g)
      BY <2>1 DEF SameFiles, Holds, Exists, Kept
    <3>3. Underway(p)'
      BY <1>u, <1>v, <2>0, <3>1, <3>2 DEF Bringing
    <3>. QED
      BY <1>w, <2>0, <3>1, <3>2, <3>3
  <2>2. CASE ~SameFiles
    <3>1. /\ Exists(Main(n)) /\ Move(Main(n), Prev(n)) /\ UNCHANGED <<faults, db, data>>
          /\ Goto(p, "install")
      BY <1>4, <2>2 DEF ReplaceAside, Fails, NoFault
    <3>2. /\ ~Exists(Main(n))' /\ (\A e : Holds(Main(n), e) => Holds(Prev(n), e)')
          /\ \A f \in Path \ {Main(n), Prev(n)} : Kept(f)
      BY <1>p, <1>t, <3>1, Moved
    <3>3. pc'[p] = "install" /\ db'[p] = n /\ data'[p] = d
      BY <1>t, <3>1, Locals
    <3>4. /\ \A e : Holds(Prev(n), e)' <=> Holds(Main(n), e)
          /\ \A e : Holds(Tmp(n), e)' <=> Holds(Tmp(n), e)
          /\ \A e : ~Holds(Main(n), e)'
      BY <1>p, <3>1, <3>2, KeptHolds DEF Holds
    <3>5. Underway(p)'
      BY <1>v, <2>0, <3>2, <3>3, <3>4 DEF Bringing
    <3>6. Aside(n)'
      BY <3>2, <3>3 DEF Aside
    <3>7. ~Holds(Prev(n), row[n])
      BY <1>i, <1>m, <3>1, OwnAside
    <3>8. \A k \in Registered :
             Holds(Main(n), row[k]) \/ Holds(Prev(n), row[k])
                 => Holds(Main(n), row[k])' \/ Holds(Prev(n), row[k])'
      BY <1>k, <2>0, <3>2, <3>7 DEF Holds, Exists
    <3>. QED
      BY <1>n, <2>0, <3>2, <3>3, <3>4, <3>5, <3>6, <3>8
  <2>. QED
    BY <2>1, <2>2
<1>6. CASE ReplaceUndo(p)
  <2>0. /\ pc[p] = "undo" /\ UNCHANGED row /\ ~Exists(Main(n))
        /\ pc'[p] = "finish" /\ db'[p] = n /\ data'[p] = d
    BY <1>6, <1>m, <1>t DEF ReplaceUndo, LocalTypes
  <2>1. Underway(p)'
    BY <1>u, <2>0
  <2>2. CASE SameFiles
    <3>1. (\A f, e : Holds(f, e)' <=> Holds(f, e)) /\ \A g \in Path : Kept(g)
      BY <2>2 DEF SameFiles, Holds, Exists, Kept
    <3>. QED
      BY <1>w, <2>0, <2>1, <3>1
  <2>3. CASE ~SameFiles
    <3>1. Exists(Prev(n)) /\ Move(Prev(n), Main(n))
      BY <1>6, <2>3 DEF ReplaceUndo, Attempt, Fails
    <3>2. /\ ~Exists(Prev(n))' /\ (\A e : Holds(Prev(n), e) => Holds(Main(n), e)')
          /\ \A f \in Path \ {Prev(n), Main(n)} : Kept(f)
      BY <1>p, <1>t, <3>1, Moved
    <3>3. /\ \A e : Holds(Main(n), e)' <=> Holds(Prev(n), e)
          /\ \A e : Holds(Tmp(n), e)' <=> Holds(Tmp(n), e)
          /\ \A e : ~Holds(Prev(n), e)'
      BY <1>p, <3>1, <3>2, KeptHolds DEF Holds
    <3>4. Aside(n)'
      BY <3>2 DEF Aside, Holds
    <3>5. \A k \in Registered :
             Holds(Main(n), row[k]) \/ Holds(Prev(n), row[k])
                 => Holds(Main(n), row[k])' \/ Holds(Prev(n), row[k])'
      BY <2>0, <3>2 DEF Holds, Exists
    <3>. QED
      BY <1>n, <2>0, <2>1, <3>2, <3>3, <3>4, <3>5
  <2>. QED
    BY <2>2, <2>3
<1>7. CASE ReplaceClean(p)
  <2>0. /\ pc[p] = "clean" /\ UNCHANGED row /\ ~Holds(Prev(n), row[n])
        /\ pc'[p] = "finish" /\ db'[p] = n /\ data'[p] = d
    BY <1>7, <1>m, <1>t, Locals DEF ReplaceClean
  <2>1. Underway(p)'
    BY <1>u, <2>0
  <2>2. CASE SameFiles
    <3>1. (\A f, e : Holds(f, e)' <=> Holds(f, e)) /\ \A g \in Path : Kept(g)
      BY <2>2 DEF SameFiles, Holds, Exists, Kept
    <3>. QED
      BY <1>w, <2>0, <2>1, <3>1
  <2>3. CASE ~SameFiles
    <3>1. Unlink(Prev(n))
      BY <1>7, <2>3 DEF ReplaceClean, Attempt, Fails
    <3>2. ~Exists(Prev(n))' /\ \A g \in Path \ {Prev(n)} : Kept(g)
      BY <1>p, <1>t, <3>1, Unlinked
    <3>3. /\ \A e : Holds(Main(n), e)' <=> Holds(Main(n), e)
          /\ \A e : Holds(Tmp(n), e)' <=> Holds(Tmp(n), e)
          /\ \A e : ~Holds(Prev(n), e)'
      BY <1>p, <3>2, KeptHolds DEF Holds
    <3>4. Aside(n)'
      BY <3>2 DEF Aside, Holds
    <3>5. \A k \in Registered :
             Holds(Main(n), row[k]) \/ Holds(Prev(n), row[k])
                 => Holds(Main(n), row[k])' \/ Holds(Prev(n), row[k])'
      BY <1>k, <1>p, <2>0, <3>2 DEF Holds, Exists, Kept
    <3>. QED
      BY <1>n, <2>0, <2>1, <3>2, <3>3, <3>4, <3>5
  <2>. QED
    BY <2>2, <2>3
<1>8. CASE ReplaceFinish(p)
  <2>0. /\ pc[p] = "finish" /\ UNCHANGED row /\ Return(p)
        /\ pc'[p] = "idle" /\ data'[p] = NoData
    BY <1>8, <1>t, Locals DEF ReplaceFinish
  <2>1. CASE SameFiles
    BY <1>r, <2>0, <2>1
  <2>2. CASE ~SameFiles
    <3>1. Unlink(Tmp(n))
      BY <1>8, <2>2 DEF ReplaceFinish, Attempt, Fails
    <3>2. ~Exists(Tmp(n))' /\ \A g \in Path \ {Tmp(n)} : Kept(g)
      BY <1>p, <1>t, <3>1, Unlinked
    <3>. QED
      BY <1>w, <2>0, <3>2, NothingMade DEF Holds
  <2>. QED
    BY <2>1, <2>2
<1>5. CASE ReplaceInstall(p)
  <2>0. pc[p] = "install" /\ Exists(Tmp(n)) /\ Holds(Tmp(n), d) /\ ~Exists(Main(n))
    BY <1>5, <1>m DEF ReplaceInstall, Holds
  <2>1. CASE SameFiles /\ UNCHANGED row
    <3>1. /\ faults' # faults /\ db'[p] = n /\ data'[p] = d
          /\ pc'[p] \in {"undo", "finish"}
      <4>1. \/ Move(Tmp(n), Main(n))
            \/ Fault /\ Continue(p, IF setAside[p] THEN "undo" ELSE "finish")
        BY <1>5, <2>0 DEF ReplaceInstall
      <4>2. ~Move(Tmp(n), Main(n))
        BY <1>p, <1>t, <2>0, <2>1, Moved DEF SameFiles, Exists
      <4>. QED
        BY <1>t, <4>1, <4>2, Locals DEF Fault
    <3>2. /\ \A f, e : Holds(f, e)' <=> Holds(f, e)
          /\ Exists(Main(n))' <=> Exists(Main(n))
          /\ \A g \in Path : Kept(g)
      BY <2>1 DEF SameFiles, Holds, Exists, Kept
    <3>3. Underway(p)'
      BY <1>u, <2>0, <2>1, <3>1, <3>2
    <3>4. Aside(n)'
      <4>1. faults' # 0
        BY <1>a, <1>t, <3>1
      <4>. QED
        BY <2>0, <3>2, <4>1 DEF Aside
    <3>. QED
      BY <1>n, <2>0, <2>1, <3>1, <3>2, <3>3, <3>4
  <2>2. CASE ~(SameFiles /\ UNCHANGED row)
    <3>. DEFINE T == {n}
    <3>1. /\ Move(Tmp(n), Main(n)) /\ UNCHANGED faults
          /\ row' = [row EXCEPT ![n] = d] /\ Continue(p, "clean")
      <4>1. /\ Move(Tmp(n), Main(n)) /\ NoFault /\ Continue(p, "clean")
            /\ row' = [row EXCEPT ![n] = IF n \in Registered THEN d ELSE NoData]
        BY <1>5, <2>2 DEF ReplaceInstall, SameFiles
      <4>. QED
        BY <1>m, <4>1 DEF NoFault
    <3>2. row'[n] = d /\ \A k \in Name \ {n} : row'[k] = row[k]
      BY <1>t, <3>1
    <3>3. /\ ~Exists(Tmp(n))' /\ (\A e : Holds(Tmp(n), e) => Holds(Main(n), e)')
          /\ \A f \in Path \ {Tmp(n), Main(n)} : Kept(f)
      BY <1>p, <1>t, <2>0, <3>1, Moved
    <3>4. pc'[p] = "clean" /\ db'[p] = n /\ data'[p] = d
      BY <1>t, <3>1, Locals
    <3>5. /\ \A e : Holds(Main(n), e)' <=> Holds(Tmp(n), e)
          /\ \A e : Holds(Prev(n), e)' <=> Holds(Prev(n), e)
          /\ \A e : ~Holds(Tmp(n), e)'
      BY <1>p, <2>0, <3>3, KeptHolds DEF Holds
    <3>6. \A k \in Name \ T : Leaves(k)
      BY <1>t, <3>2, <3>3, Paths DEF Leaves
    <3>7. Rows(p)
      BY <1>f, <2>0, <3>2 DEF Rows, Bringing
    <3>8. Gains(p)
      <4>. SUFFICES ASSUME NEW m \in Name, NEW e \in Data
                    PROVE  /\ Holds(Main(m), e)' => Holds(Main(m), e) \/ Source(p, e)
                           /\ Holds(Prev(m), e)' => Holds(Prev(m), e) \/ Source(p, e)
                           /\ Holds(Tmp(m), e)' => Holds(Tmp(m), e) \/ Source(p, e)
        BY DEF Gains
      <4>1. CASE m = n
        BY <1>t, <3>5, <4>1 DEF Source
      <4>2. CASE m # n
        BY <3>6, <4>2, Left
      <4>. QED
        BY <4>1, <4>2
    \* Nobody else has the data that is now under the name.
    <3>9. /\ \A m \in Name : ~Holds(Tmp(m), d)' /\ ~Holds(Prev(m), d)'
          /\ \A m \in Name \ {n} : ~Holds(Main(m), d)' /\ row'[m] # d
      <4>1. \A m \in Name \ {n} : /\ ~Holds(Tmp(m), d) /\ ~Holds(Prev(m), d)
                                  /\ ~Holds(Main(m), d) /\ row[m] # d
        BY <1>f, <2>0 DEF Fresh, Bringing
      <4>2. \A m \in Name \ {n} : ~Holds(Tmp(m), d)' /\ ~Holds(Prev(m), d)' /\ ~Holds(Main(m), d)'
        BY <3>6, <4>1, Left
      <4>. QED
        BY <1>f, <2>0, <3>2, <3>5, <4>1, <4>2 DEF Bringing
    <3>10. ~Holds(Prev(n), row[n])'
      BY <1>t, <3>2, <3>9 DEF Holds, Exists
    <3>11. Placed(n)'
      <4>1. OwnPlaces(n)'
        <5>. SUFFICES ASSUME NEW m \in Name
                      PROVE  /\ ~Holds(Tmp(m), row[n])'
                             /\ m # n => /\ row'[m] # row'[n] /\ ~Holds(Prev(m), row[n])'
                                         /\ ~Holds(Main(m), row[n])'
          BY DEF OwnPlaces
        <5>. QED
          BY <3>2, <3>9 DEF Holds, Exists
      <4>. QED
        BY <3>10, <4>1 DEF Placed, Aside
    <3>12. (n \in Registered)'
      BY <1>f, <1>t, <2>0, <3>2, FilesAssumption DEF Registered, Bringing
    <3>13. Underway(p)'
      BY <3>4, <3>10, <3>12 DEF Underway, Placing, Carrying, Swapping, Fresh, Bearing, Bringing, Filled
    <3>14. Safe'
      BY <1>m, <1>o, <1>t, <1>z, <3>4, <3>6, <3>7, <3>8, <3>11, <3>13, Elsewhere DEF Before
    <3>15. Lasts
      <4>. SUFFICES ASSUME NEW k \in Registered, NEW f \in Path, Holds(f, row[k])
                    PROVE  \E g \in Path : Holds(g, row[k])'
        BY DEF Lasts, Whole
      <4>1. CASE k = n
        BY <1>p, <2>0, <3>2, <3>3, <4>1 DEF Holds, Exists
      <4>2. CASE k # n
        <5>1. f \notin {Main(n), Tmp(n)} /\ row'[k] = row[k]
          BY <1>k, <2>0, <3>2, <4>2 DEF Holds, Registered
        <5>2. Holds(f, row[k])'
          BY <3>3, <5>1 DEF Kept, Holds, Exists
        <5>. QED
          BY <5>2
      <4>. QED
        BY <4>1, <4>2
    <3>. QED
      BY <3>14, <3>15
  <2>. QED
    BY <2>1, <2>2
<1>. QED
  BY <1>1, <1>2, <1>3, <1>4, <1>5, <1>6, <1>7, <1>8

\* A request that begins has nothing yet; what it will bring is new.
LEMMA ArriveSafe ==
    ASSUME Before, Exclusive', NEW p \in Admin, Arrive(p)
    PROVE  Safe' /\ Lasts
<1>o. OthersWait(p)
  BY StepsAlone DEF Before, Shape
<1>a. pc[p] = "idle" /\ UNCHANGED faults
  BY DEF Arrive, Create, Import, Delete, Replace, Rename, Start
<1>t. /\ LocalTypes /\ FileTypes /\ row \in [Name -> Data \cup {NoData}]
      /\ db[p] = NoName /\ Names(p) = {}
  BY <1>a, Types DEF Before, Shape, LocalsOK, Renaming, Names, TypeOK
<1>n. ASSUME SameFiles, UNCHANGED row, Underway(p)',
             data'[p] = NoData \/ \A r \in Admin : data'[p] # data[r]
      PROVE  Safe' /\ Lasts
  BY <1>a, <1>n, <1>o, <1>t, FilesAssumption, SameStores
\* New data is in no row and in no file, and nobody else brings it.
<1>d. ASSUME FreeData # {}, NEW d, d = NewData
      PROVE  /\ d \in Data /\ (\A n \in Name : row[n] # d) /\ (\A r \in Admin : data[r] # d)
             /\ \A f \in Path : ~Holds(f, d)
  <2>1. d \in FreeData
    BY <1>d DEF NewData
  <2>. QED
    BY <1>t, <2>1 DEF FreeData, Holds, Exists, FileTypes
<1>f. ASSUME FreeData # {}, data'[p] = NewData, SameFiles, UNCHANGED row PROVE Fresh(p)'
  <2>. PICK d : d = NewData
    OBVIOUS
  <2>1. /\ d \in Data /\ (\A n \in Name : row'[n] # d) /\ (\A q \in Admin \ {p} : data'[q] # d)
        /\ \A f \in Path : ~Holds(f, d)'
    BY <1>d, <1>f, <1>o DEF OthersWait, SameLocals, SameFiles, Holds, Exists
  <2>2. data'[p] = d /\ \A m \in Name : Main(m) \in Path /\ Prev(m) \in Path /\ Tmp(m) \in Path
    BY <1>f, Paths
  <2>. QED
    BY <2>1, <2>2 DEF Fresh, Holds, Exists
<1>1. ASSUME NEW n \in Name, Create(p, n) \/ Import(p, n) PROVE Safe' /\ Lasts
  <2>1. /\ SameFiles /\ UNCHANGED row /\ ~Exists(Main(n)) /\ db'[p] = n /\ FreeData # {}
        /\ pc'[p] \in {"open", "truncate"} /\ data'[p] = NewData
    BY <1>1, <1>t DEF Create, Import, Start, Goto, SameFiles, LocalTypes
  <2>2. Underway(p)'
    BY <1>f, <2>1 DEF Underway, Placing, Carrying, Swapping, Filled, SameFiles, Exists
  <2>. QED
    BY <1>d, <1>n, <2>1, <2>2
<1>2. ASSUME NEW n \in Name, Delete(p, n) PROVE Safe' /\ Lasts
  <2>1. /\ SameFiles /\ row' = [row EXCEPT ![n] = NoData] /\ UNCHANGED data
        /\ pc'[p] = "closeDropped" /\ db'[p] = n
    BY <1>2, <1>t DEF Delete, Goto, LocalTypes
  <2>2. row'[n] = NoData /\ \A m \in Name \ {n} : row'[m] = row[m]
    BY <1>t, <2>1
  <2>. DEFINE T == {n}
  <2>3. \A q \in Admin \ {p} : Names(q) \cap T = {}
    <3>1. \A q \in Admin \ {p} : Names(q)' = Names(q)
      BY <1>o DEF OthersWait, SameLocals, Names
    <3>2. n \in Names(p)'
      BY <2>1, FilesAssumption DEF Names
    <3>. QED
      BY <3>1, <3>2 DEF Exclusive
  <2>4. (\A k \in Name \ T : Leaves(k)) /\ Rows(p) /\ Gains(p)
    BY <2>1, <2>2 DEF Leaves, Rows, Gains, SameFiles, Kept, Holds, Exists
  <2>5. (n \notin Registered)' /\ Placed(n)'
    BY <2>2 DEF Registered, Placed, OwnPlaces, Aside
  <2>6. Lasts
    BY <2>1, <2>2 DEF Lasts, Whole, SameFiles, Holds, Exists, Registered
  <2>7. /\ T \in SUBSET Name /\ Names(p) \subseteq T /\ \A k \in T : Placed(k)'
        /\ \A k \in T, j \in Registered \ T :
              (k \in Registered)' /\ k \notin Registered => ~Holds(Main(k), row[j])'
    BY <1>t, <2>5
  <2>. HIDE DEF T
  <2>8. Underway(p)'
    BY <2>1, NothingMade
  <2>9. Safe'
    BY <1>a, <1>o, <2>1, <2>3, <2>4, <2>7, <2>8, Elsewhere DEF Before
  <2>. QED
    BY <2>6, <2>9
<1>3. ASSUME NEW n \in Name, Replace(p, n) PROVE Safe' /\ Lasts
  <2>1. /\ SameFiles /\ UNCHANGED row /\ n \in Registered /\ db'[p] = n /\ FreeData # {}
        /\ pc'[p] = "closeReplaced" /\ data'[p] = NewData
    BY <1>3, <1>t DEF Replace, Start, Goto, SameFiles, LocalTypes
  <2>2. Underway(p)'
    BY <1>f, <2>1 DEF Underway, Placing, Carrying, Swapping, Filled, Registered
  <2>. QED
    BY <1>d, <1>n, <2>1, <2>2
<1>4. ASSUME NEW n \in Name, NEW m \in Name, Rename(p, n, m) PROVE Safe' /\ Lasts
  <2>1. /\ SameFiles /\ UNCHANGED row /\ ~Exists(Main(m)) /\ to'[p] = m
        /\ pc'[p] = "update" /\ data'[p] = NoData
    BY <1>4, <1>t DEF Rename, Start, Goto, SameFiles, LocalTypes
  <2>2. Underway(p)'
    BY <2>1 DEF Underway, Placing, Carrying, Swapping, Fresh, Bearing, Bringing, Filled,
                SameFiles, Exists
  <2>. QED
    BY <1>n, <2>1, <2>2
<1>. QED
  BY <1>1, <1>2, <1>3, <1>4 DEF Arrive

\* The statement of a create, an import or a rename fails or is cancelled.
LEMMA StatementFailsSafe ==
    ASSUME Before, NEW p \in Admin, StatementFails(p), faults' <= 1
    PROVE  Safe' /\ Lasts
<1>o. OthersWait(p)
  BY StepsAlone DEF Before, Shape
<1>. PICK n, d : n = db[p] /\ d = data[p]
  OBVIOUS
<1>a. /\ pc[p] \in {"register", "update"} /\ SameFiles /\ UNCHANGED row
      /\ faults' = faults \/ faults' = faults + 1
      /\ pc[p] = "update" => Return(p)
      /\ pc[p] = "register" => Continue(p, "remove")
  BY DEF StatementFails, Fault, NoFault
<1>t. LocalTypes /\ n \in Name /\ Underway(p)
  BY <1>a, Hand
<1>z. faults' = 0 => faults = 0
  BY <1>a, FilesAssumption DEF Before, Shape, TypeOK
<1>1. CASE pc[p] = "update"
  BY <1>1, <1>a, <1>o, ReturnsSafely DEF Putting, Filled, Return
<1>2. CASE pc[p] = "register"
  <2>1. pc'[p] = "remove" /\ db'[p] = n /\ data'[p] = d
    BY <1>2, <1>a, <1>t, Locals
  <2>2. \A f, e : Holds(f, e)' <=> Holds(f, e)
    BY <1>a DEF SameFiles, Holds, Exists
  <2>3. Placing(p, n)'
    BY <1>2, <1>t, <2>1, <2>2 DEF Underway, Placing, Filled, Holds, Exists
  <2>4. Fresh(p)'
    <3>1. Fresh(p) /\ pc[p] \in Bearing /\ pc[p] \in Filled
      BY <1>2, <1>t DEF Underway, Bearing, Bringing, Filled
    <3>2. /\ d \in Data /\ (\A k \in Name : row'[k] # d) /\ (\A q \in Admin \ {p} : data'[q] # d)
          /\ \A m \in Name : /\ ~Holds(Prev(m), d)'
                             /\ Holds(Main(m), d)' => m = n
                             /\ ~Holds(Tmp(m), d)'
      BY <1>2, <1>a, <1>o, <2>2, <3>1 DEF Fresh, OthersWait, SameLocals
    <3>. QED
      BY <2>1, <3>2 DEF Fresh, Filled, Holds, Exists
  <2>5. Underway(p)'
    BY <2>1, <2>3, <2>4 DEF Underway, Carrying, Swapping
  <2>6. Aside(n)'
    <3>1. Holds(Prev(n), row[n])' => Holds(Prev(n), row[n])
      BY <1>a DEF SameFiles, Holds, Exists
    <3>. QED
      BY <1>2, <1>a, <2>1, <3>1, AsideThen DEF Putting, Filled
  <2>. QED
    BY <1>a, <1>o, <1>z, <2>1, <2>5, <2>6, SameStores
<1>. QED
  BY <1>1, <1>2, <1>a

\* What is safe does not depend on who has the writer connection.
LEMMA Unaffected ==
    ASSUME Safe, UNCHANGED <<row, disk, content, procVars, faults>>
    PROVE  Safe' /\ Lasts
<1>1. (\A f, e : Holds(f, e)' <=> Holds(f, e)) /\ Registered' = Registered
  BY DEF Holds, Exists, Registered
<1>2. ASSUME NEW p \in Admin PROVE Underway(p)'
  <2>1. Placing(p, db[p]) /\ Carrying(p, db[p], to[p]) /\ Swapping(p, db[p]) /\ Fresh(p)
    BY DEF Safe, Underway
  <2>. QED
    BY <2>1 DEF Underway, Placing, Carrying, Swapping, Fresh, procVars, Holds, Exists, Registered
<1>3. ASSUME NEW n \in Name PROVE Placed(n)'
  <2>1. OwnPlaces(n) /\ Aside(n)
    BY DEF Safe, Placed
  <2>. QED
    BY <2>1 DEF Placed, OwnPlaces, Aside, procVars, Holds, Exists, Registered
<1>4. Lasts
  BY DEF Lasts, Whole, Holds, Exists
<1>. QED
  BY <1>2, <1>3, <1>4 DEF Safe

\* A first fault that is a crash finds every original that is set aside without
\* a file beside it.
LEMMA CrashSafe ==
    ASSUME Before, Crash, faults' <= 1
    PROVE  Safe' /\ Lasts
<1>1. faults = 0 /\ faults' = 1 /\ SameFiles /\ UNCHANGED row
  BY FilesAssumption DEF Crash, Fault, Before, Shape, TypeOK
<1>2. ASSUME NEW p \in Admin PROVE Underway(p)'
  BY <1>2, NothingMade DEF Crash
<1>3. ASSUME NEW n \in Name PROVE Placed(n)'
  <2>1. OwnPlaces(n)'
    BY <1>1 DEF Before, Safe, Placed, OwnPlaces, SameFiles, Holds, Exists, Registered
  <2>2. Aside(n)'
    <3>. SUFFICES ASSUME n \in Registered, Holds(Prev(n), row[n]) PROVE ~Exists(Main(n))
      BY <1>1 DEF Aside, SameFiles, Holds, Exists, Registered
    <3>1. PICK q \in Admin : db[q] = n /\ pc[q] = "install"
      BY <1>1 DEF Before, Safe, Placed, Aside
    <3>. QED
      BY <3>1 DEF Before, Safe, Underway, Swapping
  <2>. QED
    BY <2>1, <2>2 DEF Placed
<1>4. Lasts
  BY <1>1 DEF Lasts, Whole, SameFiles, Holds, Exists
<1>. QED
  BY <1>2, <1>3, <1>4 DEF Safe

\* Every step, if at most one fault has happened after it.
LEMMA SafeStep ==
    ASSUME Before, Exclusive', faults' <= 1, [Next]_vars
    PROVE  Safe' /\ (Lasts \/ \E p \in Admin : DeleteUnlink(p))
<1>1. CASE UNCHANGED vars
  BY <1>1, Unaffected DEF vars, Before
<1>2. CASE Crash
  BY <1>2, CrashSafe
<1>3. ASSUME NEW p \in Admin, TxCancelled(p) PROVE Safe' /\ Lasts
  BY <1>3, Unaffected DEF TxCancelled, SameFiles, Before
<1>4. ASSUME NEW p \in Admin, Arrive(p) PROVE Safe' /\ Lasts
  BY <1>4, ArriveSafe
<1>5. ASSUME NEW p \in Admin, StatementFails(p) PROVE Safe' /\ Lasts
  BY <1>5, StatementFailsSafe
<1>6. ASSUME NEW p \in Admin, Work(p)
      PROVE  Safe' /\ (Lasts \/ \E q \in Admin : DeleteUnlink(q))
  <2>1. CASE DeleteClose(p) \/ DeleteUnlink(p)
    BY <2>1, DeleteSafe
  <2>2. CASE ~(DeleteClose(p) \/ DeleteUnlink(p))
    BY <1>6, <2>2, CreateSafe, RenameSafe, ReplaceSafe DEF Work
  <2>. QED
    BY <2>1, <2>2
<1>. QED
  BY <1>1, <1>2, <1>3, <1>4, <1>5, <1>6 DEF Next

\* At first every registered database has its data in its own file only.
LEMMA SafeAtFirst == Init => Shape /\ Safe
<1>. SUFFICES ASSUME Init PROVE Shape /\ Safe
  OBVIOUS
<1>1. IInv /\ ~cutOff /\ \A p \in Admin : pc[p] = "idle"
  BY Starts DEF Init
<1>2. \A n \in Registered : Holds(Main(n), row[n])
  BY <1>1 DEF IInv, InStep, Backed, Away, Registered
<1>3. \A n \in Name : ~Exists(Prev(n)) /\ ~Exists(Tmp(n))
  BY Paths DEF Init, Exists, Prev, Tmp
<1>4. ASSUME NEW n \in Registered, NEW m \in Name, m # n PROVE row[m] # row[n]
  <2>. DEFINE d == CHOOSE f \in [Existing -> Data] : OneToOne(f)
  <2>1. d \in [Existing -> Data] /\ OneToOne(d)
    BY FilesAssumption
  <2>2. row = [k \in Name |-> IF k \in Existing THEN d[k] ELSE NoData]
    BY DEF Init
  <2>. HIDE DEF d
  <2>3. n \in Existing /\ row[n] = d[n] /\ row[n] # NoData
    BY <2>2 DEF Registered
  <2>. QED
    BY <1>4, <2>1, <2>2, <2>3 DEF OneToOne
<1>5. ASSUME NEW p \in Admin PROVE Underway(p)
  BY <1>1 DEF Underway, Placing, Carrying, Swapping, Fresh, Bearing, Bringing, Filled
<1>6. ASSUME NEW n \in Name PROVE Placed(n)
  BY <1>2, <1>3, <1>4 DEF Placed, OwnPlaces, Aside, Holds
<1>. QED
  BY <1>1, <1>5, <1>6 DEF IInv, Shape, Safe

(***************************************************************************)
(* With one failing call, or one crash, whenever it comes, and no two      *)
(* requests on one name at once, no step but Delete's removal of the file  *)
(* loses the data of a registered database: not what the requests after    *)
(* the fault do with what it left, either.                                 *)
(***************************************************************************)
THEOREM DataLasts == Spec /\ [](Exclusive /\ faults <= 1) => DataSurvives
<1>1. Shape /\ Safe /\ Exclusive /\ Exclusive' /\ (faults <= 1)' /\ [Next]_vars =>
          /\ Safe'
          /\ \A n \in Registered : Whole(n) /\ n \in Registered'
                 => Whole(n)' \/ \E p \in Admin : DeleteUnlink(p)
  <2>. SUFFICES ASSUME Shape, Safe, Exclusive, Exclusive', (faults <= 1)', [Next]_vars
                PROVE  /\ Safe'
                       /\ \A n \in Registered : Whole(n) /\ n \in Registered'
                              => Whole(n)' \/ \E p \in Admin : DeleteUnlink(p)
    OBVIOUS
  <2>1. Safe' /\ (Lasts \/ \E p \in Admin : DeleteUnlink(p))
    BY SafeStep DEF Before
  <2>. QED
    BY <2>1 DEF Lasts
<1>. QED
  BY <1>1, SafeAtFirst, ShapeStep, PTL DEF Spec, DataSurvives

(***************************************************************************)
(* So it is for one administrator, whose requests come one after the       *)
(* other, and a single fault.                                              *)
(***************************************************************************)
COROLLARY OneAdministratorDataLasts ==
    ASSUME \A p, q \in Admin : p = q, MaxFaults <= 1
    PROVE  Spec => DataSurvives
<1>1. Exclusive
  BY DEF Exclusive
<1>2. TypeOK => faults <= 1
  BY FilesAssumption DEF TypeOK
<1>. QED
  BY <1>1, <1>2, TypeCorrect, DataLasts, PTL
=============================================================================
