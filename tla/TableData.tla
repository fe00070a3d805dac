------------------------------ MODULE TableData ------------------------------
(***************************************************************************)
(* The rows and the columns of one user table, as the row browser, the     *)
(* schema editor, the SQL editor and the exports change and read them:     *)
(* rows.Service, tables.Service and query.Service of backend/internal.     *)
(*                                                                         *)
(* A row is the insertion that made it, and a column holds its values or a *)
(* text in their place; what the values are is left out.                   *)
(* The table declares an INTEGER PRIMARY KEY or no key; views and keys of  *)
(* text or of several columns are left out.                                *)
(* All writes go through the one writer connection of the database, and    *)
(* all reads through connections that see what is committed.  An action is *)
(* one statement or one transaction.                                       *)
(***************************************************************************)
EXTENDS Naturals, FiniteSets, FiniteSetsExt

CONSTANTS
    Request,    \* concurrent requests
    MaxId,      \* the rowids are 1..MaxId
    Column,
    PageSize,   \* rows an export asks for at a time
    MaxRows,    \* rows the server returns at most
    Limits,     \* limits that a client may give an export
    Scopes,     \* sets of operations: a behaviour uses those of one
    Inserts,    \* bound on the rows that a behaviour with a scope inserts
    None

ASSUME TableDataAssumption ==
    /\ MaxId \in Nat /\ \A s \in Scopes : Inserts[s] \in Nat /\ None \notin Nat
    /\ PageSize \in Nat \ {0} /\ MaxRows \in Nat \ {0} /\ Limits \subseteq Nat \ {0}

VARIABLES
    scope,      \* the operations of this behaviour
    keyed,      \* whether the table declares an INTEGER PRIMARY KEY
    table,      \* the table as the writer connection sees it
    committed,  \* the table as every other connection sees it
    open,       \* whether a script has left a transaction open on the writer
    request,    \* what each request is doing
    inserted,   \* rows inserted so far
    confirmed,  \* history: rows reported as stored
    asked,      \* history: rows that a request has deleted
    deleted     \* history: rows reported as deleted outside a script's transaction

vars == <<scope, keyed, table, committed, open, request, inserted, confirmed, asked, deleted>>
history == <<confirmed, asked, deleted>>

RowId == 1..MaxId
Row == 1..Inserts[scope]
\* What a CREATE INDEX or a CREATE TRIGGER has attached to a column, and a UNIQUE
\* constraint of the CREATE TABLE over a column and another.
Attachment == [kind : {"index", "trigger", "unique"}, on : Column]
\* A table that was dropped has no column.  The columns of texts hold their name
\* in the place of values.
Table == [columns : SUBSET Column, texts : SUBSET Column, attached : SUBSET Attachment,
          rows : [RowId -> Row \cup {None}]]
NoRows == [i \in RowId |-> None]

Taken(t) == {i \in RowId : t.rows[i] # None}
Rows(t) == {t.rows[i] : i \in Taken(t)}

Idle == [at |-> "idle"]

Init ==
    /\ scope \in Scopes /\ keyed \in BOOLEAN
    /\ \E columns \in {Column} \cup {Column \ {c} : c \in Column} :
       \E attached \in {{}} \cup {{[kind |-> "unique", on |-> c]} : c \in columns} :
          table = [columns |-> columns, texts |-> {}, attached |-> attached, rows |-> NoRows]
    /\ committed = table /\ open = FALSE
    /\ request = [r \in Request |-> Idle]
    /\ inserted = 0
    /\ confirmed = {} /\ asked = {} /\ deleted = {}

-----------------------------------------------------------------------------
(* Statements on the writer connection.                                    *)

\* A statement commits on its own, unless a transaction is open.
Write(t) ==
    /\ table' = t
    /\ committed' = IF open THEN committed ELSE t
    /\ UNCHANGED <<scope, keyed, open>>

Read == UNCHANGED <<scope, keyed, table, committed, open, inserted>>

\* Requests go on; what happens to the rows of the table is noted in those that
\* depend on it: the rows that are gone, the rows that get other rowids, and
\* whether rows come between others.
Note(gone, moved, displaced) ==
    [r \in Request |->
        CASE request[r].at = "shown"  -> [request[r] EXCEPT !.moved = @ \/ moved # {}]
          [] request[r].at = "stored" -> [request[r] EXCEPT !.touched = @ \/ request[r].row \in gone \cup moved]
          [] request[r].at = "export" -> [request[r] EXCEPT !.upset = @ \/ gone \cup moved # {}]
          [] request[r].at = "page"   -> [request[r] EXCEPT !.upset = @ \/ gone \cup moved # {} \/ displaced]
          [] OTHER -> request[r]]

At(r, step, op) == request[r].at = step /\ op \in scope
Go(r, q) == request' = [request EXCEPT ![r] = q]
Done(r) == Go(r, Idle)

\* SQLite gives a row without a key one more than the greatest rowid.
NextId(t) == IF Taken(t) = {} THEN 1 ELSE Max(Taken(t)) + 1

\* How many rows there are up to the rowid j.
Place(rows, j) == Cardinality({k \in 1..j : rows[k] # None})

\* The rows under the numbers 1, 2, ... in their order.
Numbered(rows) ==
    [i \in RowId |-> LET at == {j \in RowId : rows[j] # None /\ Place(rows, j) = i}
                     IN  IF at = {} THEN None ELSE rows[CHOOSE j \in at : TRUE]]

\* Mutant of Compacted: the table written anew does not declare the key.
CompactedAlways(rows) == Numbered(rows)

\* A table that declares no key loses its rowids when it is written anew.
Compacted(rows) == IF keyed THEN rows ELSE Numbered(rows)
Renumbered == IF keyed THEN {} ELSE Rows(table)

-----------------------------------------------------------------------------
(* Rows.                                                                   *)

\* Mutant of Insert: the row is looked up by the number of rows.
InsertCounted(r, id, key) ==
    LET new == inserted + 1
    IN  /\ At(r, "idle", "insert") /\ new \in Row /\ table.columns # {} /\ table.rows[id] = None
        /\ id = NextId(table) /\ key = id
        /\ Write([table EXCEPT !.rows[id] = new])
        /\ inserted' = new
        /\ request' = [Note({}, {}, FALSE) EXCEPT
              ![r] = [at |-> "stored", id |-> Cardinality(Taken(table)) + 1, row |-> new, touched |-> FALSE]]
        /\ UNCHANGED history

\* Insert: the row is stored under the key it was given, or under the next one,
\* also when the key was given as NULL.
Insert(r, id, key) ==
    LET new == inserted + 1
    IN  /\ At(r, "idle", "insert") /\ new \in Row /\ table.columns # {} /\ table.rows[id] = None
        /\ id = NextId(table) \/ (keyed /\ key = id)
        /\ key = None => keyed
        /\ Write([table EXCEPT !.rows[id] = new])
        /\ inserted' = new
        /\ request' = [Note({}, {}, id # NextId(table)) EXCEPT
              ![r] = [at |-> "stored", id |-> key, row |-> new, touched |-> FALSE]]
        /\ UNCHANGED history

\* What a request that has stored a row finds under its key.
Found(t, q) == IF q.id = None THEN None ELSE t.rows[q.id]

\* Mutant of ReadBack: the row is read back on the writer connection.
ReadBackFromWriter(r) ==
    /\ request[r].at = "stored"
    /\ confirmed' = confirmed \cup ({Found(table, request[r])} \cap {request[r].row})
    /\ Done(r) /\ Read /\ UNCHANGED <<asked, deleted>>

\* The end of Insert: the row is read back by its key.  The request is answered
\* with the row that is found, or fails if there is none; if Get fails, as it may
\* for a cancelled request, the request does so as well (GiveUp).
ReadBack(r) ==
    /\ request[r].at = "stored"
    /\ confirmed' = confirmed \cup ({Found(committed, request[r])} \cap {request[r].row})
    /\ Done(r) /\ Read /\ UNCHANGED <<asked, deleted>>

\* List, for the row browser.
Show(r) ==
    /\ At(r, "idle", "show") /\ committed.columns # {}
    /\ Go(r, [at |-> "shown", seen |-> committed.rows, moved |-> open])
    /\ Read /\ UNCHANGED history

\* Update of a row that was shown, which may give it another key.
Update(r, i, j) ==
    /\ request[r].at = "shown" /\ request[r].seen[i] # None /\ table.rows[i] # None
    /\ j # i => keyed /\ table.rows[j] = None
    /\ Write([table EXCEPT !.rows = [@ EXCEPT ![i] = None, ![j] = table.rows[i]]])
    /\ request' = [Note({}, {table.rows[k] : k \in {i} \ {j}}, FALSE) EXCEPT ![r] = Idle]
    /\ UNCHANGED <<inserted, confirmed, asked, deleted>>

\* Delete of a row that was shown, or DeleteMany, in a transaction of its own.
Delete(r, ids) ==
    LET gone == {table.rows[i] : i \in ids} \ {None}
    IN  /\ request[r].at = "shown" /\ ids # {} /\ \A i \in ids : request[r].seen[i] # None
        /\ gone # {} /\ (open => Cardinality(ids) = 1)
        /\ Write([table EXCEPT !.rows = [i \in RowId |-> IF i \in ids THEN None ELSE @[i]]])
        /\ request' = [Note(gone, {}, FALSE) EXCEPT ![r] = Idle]
        /\ asked' = asked \cup gone
        /\ deleted' = IF open THEN deleted ELSE deleted \cup gone
        /\ UNCHANGED <<inserted, confirmed>>

-----------------------------------------------------------------------------
(* Columns, indexes and triggers.                                          *)

Alter(t) == Write(t) /\ UNCHANGED <<request, inserted, confirmed, asked, deleted>>

AddColumn(c) ==
    /\ "schema" \in scope /\ c \notin table.columns /\ table.columns # {}
    /\ Alter([table EXCEPT !.columns = @ \cup {c}])

\* SQLite refuses to drop a column that something is attached to, or the last.
DropColumn(c) ==
    /\ "schema" \in scope /\ table.columns \ {c} # {} /\ c \in table.columns
    /\ \A a \in table.attached : a.on # c
    /\ Alter([table EXCEPT !.columns = @ \ {c}, !.texts = @ \ {c}])

Renamed(attached, from, to) == {[a EXCEPT !.on = IF @ = from THEN to ELSE @] : a \in attached}

RenameColumn(c, d) ==
    /\ "schema" \in scope /\ c \in table.columns /\ d \notin table.columns
    /\ Alter([table EXCEPT !.columns = (@ \ {c}) \cup {d}, !.attached = Renamed(@, c, d),
                           !.texts = IF c \in @ THEN (@ \ {c}) \cup {d} ELSE @])

CreateIndex(c) ==
    /\ "schema" \in scope /\ c \in table.columns
    /\ Alter([table EXCEPT !.attached = @ \cup {[kind |-> "index", on |-> c]}])

\* Triggers are created by the statements of a script.
CreateTrigger(c) ==
    /\ "schema" \in scope /\ c \in table.columns
    /\ Alter([table EXCEPT !.attached = @ \cup {[kind |-> "trigger", on |-> c]}])

DropIndex(c) ==
    /\ "schema" \in scope
    /\ Alter([table EXCEPT !.attached = @ \ {[kind |-> "index", on |-> c]}])

DropTrigger(c) ==
    /\ "schema" \in scope
    /\ Alter([table EXCEPT !.attached = @ \ {[kind |-> "trigger", on |-> c]}])

\* CreateTable, under the name of a table that was dropped.
CreateTable(c) ==
    /\ "drop" \in scope /\ table.columns = {}
    /\ Alter([columns |-> {c}, texts |-> {}, attached |-> {}, rows |-> NoRows])

DropTable ==
    /\ "drop" \in scope /\ table.columns # {}
    /\ Write([columns |-> {}, texts |-> {}, attached |-> {}, rows |-> NoRows])
    /\ request' = Note(Rows(table), {}, FALSE)
    /\ asked' = asked \cup Rows(table)
    /\ deleted' = IF open THEN deleted ELSE deleted \cup Rows(table)
    /\ UNCHANGED <<inserted, confirmed>>

\* ModifyColumn reads the table before it has the writer connection: first the
\* columns, then what is attached to them.
ReadColumns(r, c, d) ==
    /\ At(r, "idle", "modify") /\ c \in committed.columns
    /\ d # c => d \notin committed.columns
    /\ Go(r, [at |-> "columns", columns |-> committed.columns, from |-> c, to |-> d])
    /\ Read /\ UNCHANGED history

ReadAttached(r) ==
    /\ request[r].at = "columns"
    /\ Go(r, [at |-> "rebuild", columns |-> request[r].columns, from |-> request[r].from,
              to |-> request[r].to, attached |-> committed.attached])
    /\ Read /\ UNCHANGED history

\* Mutant of Recreated: indexes over a column that is gone as well.
RecreatedAll(q, columns) == q.attached

\* The statements that are run again: an index over a column that is gone is
\* left out, and a constraint over several columns is not part of a column's
\* definition.
Recreated(q, columns) == {a \in q.attached : a.kind = "trigger" \/ (a.kind = "index" /\ a.on \in columns)}

\* Mutant of Texts: the rows are read under the new names.
TextsOfNewNames(q, columns) == {k \in columns : k \notin table.columns \/ k \in table.texts}

\* INSERT ... SELECT names the columns that were read in double quotes: SQLite
\* takes a name that is no longer a column's for a text, which it copies into
\* every row.
Texts(q, columns) ==
    {k \in columns : LET source == IF k = q.to THEN q.from ELSE k
                     IN  source \notin table.columns \/ source \in table.texts}

\* rebuildTable: one transaction, on the writer connection, that makes a table
\* of the columns that were read, copies the rows into it and puts it in the
\* place of the old one.  BEGIN fails inside a transaction, and the copy if the
\* table is gone; if a constraint refuses what is copied, GiveUp is its end.
Rebuild(r) ==
    LET q == request[r]
        columns == (q.columns \ {q.from}) \cup {q.to}
    IN  /\ q.at = "rebuild" /\ ~open
        /\ table.columns # {}
        /\ Write([columns |-> columns, texts |-> Texts(q, columns),
                  attached |-> Recreated(q, columns), rows |-> Compacted(table.rows)])
        /\ request' = [Note({}, Renumbered, FALSE) EXCEPT ![r] = Idle]
        /\ UNCHANGED <<inserted, confirmed, asked, deleted>>

\* The request fails, the transaction with it, or the client leaves: a row that
\* was stored stays.
GiveUp(r) ==
    /\ request[r].at \in {"stored", "shown", "columns", "rebuild"}
    /\ Done(r) /\ Read /\ UNCHANGED history

\* VACUUM may number the rows of a table without a key anew.
Vacuum ==
    /\ "vacuum" \in scope /\ ~open
    /\ \E rows \in {table.rows, Compacted(table.rows)} : Write([table EXCEPT !.rows = rows])
    /\ request' = Note({}, Renumbered, FALSE)
    /\ UNCHANGED <<inserted, confirmed, asked, deleted>>

-----------------------------------------------------------------------------
(* Scripts of the SQL editor.                                              *)

\* A script that fails, times out or ends between BEGIN and COMMIT returns the
\* connection to the pool with its transaction.
LeaveOpen ==
    /\ "script" \in scope /\ ~open
    /\ open' = TRUE
    /\ UNCHANGED <<scope, keyed, table, committed, request, inserted, confirmed, asked, deleted>>

\* Rows that have other rowids in the open transaction.
Moved == {committed.rows[i] : i \in {k \in Taken(committed) : table.rows[k] # committed.rows[k]}}

\* A later script runs COMMIT.
CommitOpen ==
    /\ open /\ open' = FALSE
    /\ committed' = table
    /\ request' = Note(Rows(committed) \ Rows(table), Moved, TRUE)
    /\ UNCHANGED <<scope, keyed, table, inserted, confirmed, asked, deleted>>

\* A later script runs ROLLBACK, the connection is closed, or the process stops.
RollBack ==
    /\ open /\ open' = FALSE
    /\ table' = committed
    /\ request' = Note(Rows(table) \ Rows(committed), {}, FALSE)
    /\ UNCHANGED <<scope, keyed, committed, inserted, confirmed, asked, deleted>>

-----------------------------------------------------------------------------
(* Exports.                                                                *)

StartExport(r, limit) ==
    /\ At(r, "idle", "export") /\ committed.columns # {}
    /\ Go(r, [at |-> "export", limit |-> limit, offset |-> 0, got |-> {}, count |-> 0, total |-> 0,
              must |-> Rows(committed), upset |-> FALSE, broken |-> FALSE])
    /\ Read /\ UNCHANGED history

\* The rows of a page: at most what is asked for, which is what the limit still
\* allows, and at most what the server returns.
Page(q) ==
    LET size == Min({PageSize, q.limit - q.count, MaxRows})
        page == {j \in Taken(committed) : Place(committed.rows, j) \in (q.offset + 1)..(q.offset + size)}
    IN  {committed.rows[j] : j \in page}

\* Mutant of HasMore: off by one.
HasMoreOffByOne(q) == q.offset + Cardinality(Page(q)) + 1 < q.total

HasMore(q) == q.offset + Cardinality(Page(q)) < q.total

\* List counts the rows,
CountRows(r) ==
    /\ request[r].at = "export"
    /\ Go(r, [request[r] EXCEPT !.at = "page", !.total = Cardinality(Taken(committed))])
    /\ Read /\ UNCHANGED history

\* and then reads a page of them.  The export goes on to the next page, unless
\* this one is empty, there are no more rows or the limit is reached.
ExportPage(r) ==
    LET q == request[r]
        page == Page(q)
        next == page # {} /\ HasMore(q) /\ q.count + Cardinality(page) < q.limit
    IN  /\ q.at = "page"
        /\ Go(r, [q EXCEPT !.got = @ \cup page,
                           !.count = @ + Cardinality(page),
                           !.offset = @ + PageSize,
                           !.at = IF next THEN "export" ELSE "exported"])
        /\ Read /\ UNCHANGED history

\* List fails: what has been sent is all there is, and a JSON export is closed
\* as any other.
ExportBreaks(r) ==
    /\ request[r].at \in {"export", "page"}
    /\ Go(r, [request[r] EXCEPT !.at = "exported", !.broken = TRUE])
    /\ Read /\ UNCHANGED history

Exported(r) ==
    /\ request[r].at = "exported"
    /\ Done(r) /\ Read /\ UNCHANGED history

-----------------------------------------------------------------------------

Next ==
    \/ \E r \in Request :
          \/ \E id \in RowId : \E key \in {id, None} : Insert(r, id, key)
          \/ ReadBack(r) \/ Show(r)
          \/ \E i, j \in RowId : Update(r, i, j)
          \/ \E ids \in SUBSET RowId : Delete(r, ids)
          \/ \E c, d \in Column : ReadColumns(r, c, d)
          \/ ReadAttached(r) \/ Rebuild(r) \/ GiveUp(r)
          \/ \E limit \in Limits : StartExport(r, limit)
          \/ CountRows(r) \/ ExportPage(r) \/ ExportBreaks(r) \/ Exported(r)
    \/ \E c \in Column :
          \/ AddColumn(c) \/ DropColumn(c) \/ (\E d \in Column : RenameColumn(c, d))
          \/ CreateIndex(c) \/ CreateTrigger(c) \/ DropIndex(c) \/ DropTrigger(c)
          \/ CreateTable(c)
    \/ DropTable
    \/ Vacuum \/ LeaveOpen \/ CommitOpen \/ RollBack

Spec == Init /\ [][Next]_vars

-----------------------------------------------------------------------------
(* Properties.                                                             *)

\* The table and the requests are well formed, a row is in one place, an index
\* or a constraint is on a column that exists, and what readers see is what the writer sees
\* unless a transaction is open.
TypeOK ==
    /\ table \in Table /\ committed \in Table
    /\ \A t \in {table, committed} :
          /\ Cardinality(Rows(t)) = Cardinality(Taken(t))
          /\ \A a \in t.attached : a.kind # "trigger" => a.on \in t.columns
    /\ ~open => table = committed
    /\ \A r \in Request : request[r].at \in
          {"idle", "stored", "shown", "columns", "rebuild", "export", "page", "exported"}
    /\ confirmed \cup asked \subseteq Row /\ deleted \subseteq Row

\* A request changes or deletes, under the key it was shown, the row that it
\* was shown: unless that row is gone and its rowid has been given to another,
\* its key was changed, the rows of a table without a key were numbered anew, or a
\* script had left a transaction open when it was shown.
ShownIdsStillName ==
    \A r \in Request : request[r].at = "shown" =>
        \A i \in RowId : LET q == request[r] IN
            (q.seen[i] # None /\ table.rows[i] # None) =>
                \/ table.rows[i] = q.seen[i]
                \/ q.moved
                \/ q.seen[i] \notin Rows(table)

\* What was reported is durable: a row reported as stored is committed, even if
\* a script had left a transaction open, and a row reported as deleted is gone,
\* if none had.
AnswersDurable == confirmed \ asked \subseteq Rows(committed) /\ deleted \cap Rows(committed) = {}

\* Changing a column keeps the rows, the values of the columns, the triggers and
\* the indexes of the table that were there when it was read, except the indexes
\* on the column, if it gets another name.  A column that was added or got its
\* name since then is lost with its values, and one that was dropped or lost its
\* name comes back holding a text: the request rebuilds the table that it read.
RebuildKeeps ==
    [][\A r \in Request : request[r].at = "rebuild" /\ table' # table /\ request'[r].at = "idle" =>
          LET q == request[r] IN
          /\ Rows(table') = Rows(table)
          /\ \A k \in table.columns \cap q.columns :
                LET name == IF k = q.from THEN q.to ELSE k
                IN  name \in table'.columns /\ (name \in table'.texts => k \in table.texts)
          /\ \A a \in table.attached \cap q.attached : a.kind # "unique" =>
                \/ a \in table'.attached
                \/ a.on \notin q.columns
                \/ (a.kind = "index" /\ a.on = q.from /\ q.to # q.from)]_vars

\* An insertion whose row is read back is confirmed: unless its key was given as
\* NULL, the row was deleted or moved before, or a script had left a transaction
\* open.  Nothing like that can be said of an insertion whose read fails, which
\* is reported as failed though its row stays.
InsertsConfirmed ==
    [][\A r \in Request : ReadBack(r) =>
          LET q == request[r] IN
          q.row \in confirmed' \/ q.id = None \/ q.touched \/ open]_vars

\* An export holds every row that was there when it started, if it was not cut
\* at its limit, no List failed, and the server returns as many rows as an export
\* asks for: unless a row was deleted or moved meanwhile, or inserted among the
\* others between the count and the page of one List.  An export that is cut, or
\* broken off, looks like any other, and one that asks for more rows than
\* max_query_rows leaves rows out on every page.
ExportComplete ==
    \A r \in Request : LET q == request[r] IN
        q.at = "exported" =>
            \/ q.must \subseteq q.got
            \/ q.count >= q.limit \/ q.broken \/ MaxRows < PageSize
            \/ q.upset

\* "Indexes SQLite generated for UNIQUE or PRIMARY KEY constraints come back with
\* the new definition": also those of constraints over several columns.
ConstraintsComeBack ==
    [][\A a \in table.attached : a.kind = "unique" /\ a.on \in table'.columns => a \in table'.attached]_vars
=============================================================================
