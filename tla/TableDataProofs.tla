--------------------------- MODULE TableDataProofs ----------------------------
(***************************************************************************)
(* TableData: what the requests on a table were shown, told and sent stays *)
(* true of its rows, for any number of requests, rows, columns and scopes. *)
(***************************************************************************)
EXTENDS TableData, FiniteSetTheorems, TLAPS

-----------------------------------------------------------------------------
(* The inductive invariant.                                                *)

Contents == [RowId -> Row \cup {None}]

\* What a request is doing.
Exports == [at : {"export", "page", "exported"}, limit : Nat, offset : Nat, got : SUBSET Row,
            count : Nat, total : Nat, must : SUBSET Row, upset : BOOLEAN, broken : BOOLEAN]

Work == [at : {"idle"}]
        \cup [at : {"stored"}, id : RowId \cup {None}, row : Row, touched : BOOLEAN]
        \cup [at : {"shown"}, seen : Contents, moved : BOOLEAN]
        \cup [at : {"columns"}, columns : SUBSET Column, from : Column, to : Column]
        \cup [at : {"rebuild"}, columns : SUBSET Column, from : Column, to : Column,
              attached : SUBSET Attachment]
        \cup Exports

Typed ==
    /\ scope \in Scopes /\ keyed \in BOOLEAN /\ open \in BOOLEAN
    /\ table \in Table /\ committed \in Table
    /\ request \in [Request -> Work]
    /\ inserted \in 0..Inserts[scope]
    /\ confirmed \in SUBSET Row /\ asked \in SUBSET Row /\ deleted \in SUBSET Row

\* A row is in one place, an index or a constraint is on a column that exists,
\* and a table that was dropped is empty.
OnePlace(rows) == \A i, j \in RowId : rows[i] # None /\ rows[i] = rows[j] => i = j
Sane(t) ==
    /\ OnePlace(t.rows)
    /\ \A a \in t.attached : a.kind # "trigger" => a.on \in t.columns
    /\ t.columns = {} => Rows(t) = {}

\* Rows are numbered as they are inserted: the next one is new to the tables, to
\* what was shown and to what was deleted.
Known ==
    /\ \A row \in Rows(table) \cup Rows(committed) \cup deleted : row <= inserted
    /\ \A r \in Request : request[r].at = "shown" =>
          \A i \in RowId : request[r].seen[i] # None => request[r].seen[i] <= inserted

\* The two sides of an open transaction: what only readers see was deleted, what
\* was confirmed is there for readers, and what was reported as deleted is not
\* there for anyone.
Held ==
    /\ ~open => table = committed
    /\ Rows(committed) \ asked \subseteq Rows(table)
    /\ confirmed \ asked \subseteq Rows(committed)
    /\ deleted \cap (Rows(table) \cup Rows(committed)) = {}

\* What a request was shown, against a side of the transaction.
Names(t, q) ==
    q.at = "shown" => \A i \in RowId : q.seen[i] # None =>
        t.rows[i] = q.seen[i] \/ q.moved \/ q.seen[i] \notin Rows(t)

Named == \A r \in Request : Names(table, request[r]) /\ Names(committed, request[r])

\* A row that was inserted and not touched since is under its key, for the
\* writer, and for readers if they see it.
Lasts(q) ==
    (q.at = "stored" /\ q.id # None /\ ~q.touched) =>
        /\ table.rows[q.id] = q.row
        /\ q.row \in Rows(committed) => committed.rows[q.id] = q.row

Lasting == \A r \in Request : Lasts(request[r])

\* A column gets a name that none of the columns that were read has.
NewName(q) == q.at \in {"columns", "rebuild"} => q.to = q.from \/ q.to \notin q.columns
NewNames == \A r \in Request : NewName(request[r])

\* An export that goes on has not reached its limit.  One that nothing upset, cut
\* or broke off has fetched every row it must hold, or has it ahead: and, while it
\* reads a page, among the rows it counted.
Ahead(row, q) ==
    \E j \in RowId : /\ committed.rows[j] = row
                     /\ q.offset < Place(committed.rows, j)
                     /\ q.at = "page" => Place(committed.rows, j) <= q.total

Whole(q) == q.at \in {"export", "page", "exported"} /\ ~q.upset /\ ~q.broken /\ q.count < q.limit

Fetches(q) ==
    /\ q.at \in {"export", "page"} => q.count < q.limit
    /\ Whole(q) => \A row \in q.must \ q.got : q.at # "exported" /\ Ahead(row, q)

Fetched == \A r \in Request : Fetches(request[r])

IInv ==
    /\ Typed
    /\ Sane(table) /\ Sane(committed)
    /\ Known /\ Held /\ Named /\ Lasting /\ NewNames

\* Every step keeps it, and, where a page is as long as it is asked for, keeps what
\* the exports have ahead.
Keeps == IInv' /\ (PageSize <= MaxRows /\ Fetched => Fetched')

-----------------------------------------------------------------------------
(* Places.                                                                 *)

\* The rows up to a rowid are counted, and at most as many as there are rowids.
LEMMA PlaceType ==
    ASSUME NEW rows, NEW j \in RowId
    PROVE  /\ IsFiniteSet({k \in 1..j : rows[k] # None})
           /\ Place(rows, j) \in 0..j
<1>1. j \in Nat /\ 1 \in Int /\ j \in Int /\ j >= 1
  BY TableDataAssumption DEF RowId
<1>2. IsFiniteSet(1..j) /\ Cardinality(1..j) = j
  BY <1>1, FS_Interval
<1>. DEFINE P == {k \in 1..j : rows[k] # None}
<1>3. P \in SUBSET (1..j)
  OBVIOUS
<1>. HIDE DEF P
<1>4. IsFiniteSet(P) /\ Cardinality(P) <= j
  BY <1>2, <1>3, FS_Subset
<1>5. Cardinality(P) \in Nat
  BY <1>4, FS_CardinalityType
<1>. QED
  BY <1>1, <1>4, <1>5 DEF P, Place

\* Contents that have a row wherever others have one place it no earlier, and a
\* row at the rowid itself is counted.
LEMMA PlaceGrows ==
    ASSUME NEW rows, NEW more, NEW i \in RowId, NEW j \in RowId, i <= j,
           \A k \in RowId : k <= i /\ rows[k] # None => more[k] # None
    PROVE  /\ Place(rows, i) <= Place(more, j)
           /\ i < j /\ more[j] # None => Place(rows, i) < Place(more, j)
           /\ rows[i] # None => 1 <= Place(rows, i)
<1>. DEFINE P == {k \in 1..i : rows[k] # None}
            Q == {k \in 1..j : more[k] # None}
<1>1. i \in Nat /\ j \in Nat /\ i >= 1 /\ j <= MaxId /\ MaxId \in Nat
  BY TableDataAssumption DEF RowId
<1>2. P \in SUBSET Q
  BY <1>1 DEF RowId
<1>3. i < j /\ more[j] # None => j \in Q /\ j \notin P
  BY <1>1
<1>4. IsFiniteSet(P) /\ IsFiniteSet(Q)
  BY PlaceType
<1>5. rows[i] # None => i \in P
  BY <1>1
<1>6. Place(rows, i) = Cardinality(P) /\ Place(more, j) = Cardinality(Q)
  BY DEF Place
<1>. HIDE DEF P, Q
<1>7. Cardinality(P) <= Cardinality(Q) /\ (Cardinality(P) = Cardinality(Q) => P = Q)
  BY <1>2, <1>4, FS_Subset
<1>8. Cardinality(P) \in Nat /\ Cardinality(Q) \in Nat
  BY <1>4, FS_CardinalityType
<1>9. Cardinality(P) # 0 \/ P = {}
  BY <1>4, FS_EmptySet
<1>10. i < j /\ more[j] # None => Cardinality(P) < Cardinality(Q)
  BY <1>3, <1>7, <1>8
<1>11. rows[i] # None => 1 <= Cardinality(P)
  BY <1>5, <1>8, <1>9
<1>. QED
  BY <1>6, <1>7, <1>10, <1>11

\* Rows have different places.
LEMMA OwnPlace ==
    ASSUME NEW rows, NEW i \in RowId, NEW j \in RowId,
           rows[i] # None, rows[j] # None, Place(rows, i) = Place(rows, j)
    PROVE  i = j
<1>1. i \in Int /\ j \in Int
  BY TableDataAssumption DEF RowId
<1>2. Place(rows, i) \in 0..i /\ Place(rows, j) \in 0..j
  BY PlaceType
<1>3. ASSUME NEW k \in RowId, NEW l \in RowId, rows[l] # None, k < l
      PROVE  Place(rows, k) < Place(rows, l)
  <2>1. k <= l
    BY <1>3, TableDataAssumption DEF RowId
  <2>. QED
    BY <1>3, <2>1, PlaceGrows
<1>. QED
  BY <1>1, <1>2, <1>3

\* Numbering the rows anew keeps them, each in one place.
LEMMA NumberedKeeps ==
    ASSUME NEW V, NEW rows \in [RowId -> V \cup {None}], OnePlace(rows)
    PROVE  /\ Numbered(rows) \in [RowId -> V \cup {None}]
           /\ OnePlace(Numbered(rows))
           /\ \A i \in RowId : Numbered(rows)[i] # None => \E j \in RowId : rows[j] = Numbered(rows)[i]
           /\ \A j \in RowId : rows[j] # None => \E i \in RowId : Numbered(rows)[i] = rows[j]
<1>. DEFINE n == Numbered(rows)
            Under(i, j) == rows[j] # None /\ Place(rows, j) = i
<1>1. ASSUME NEW i \in RowId, n[i] # None
      PROVE  \E j \in RowId : Under(i, j) /\ n[i] = rows[j]
  <2>. DEFINE at == {j \in RowId : rows[j] # None /\ Place(rows, j) = i}
  <2>1. n[i] = IF at = {} THEN None ELSE rows[CHOOSE j \in at : TRUE]
    BY DEF Numbered
  <2>2. at # {}
    BY <1>1, <2>1
  <2>3. (CHOOSE j \in at : TRUE) \in at
    BY <2>2
  <2>. QED
    BY <2>1, <2>2, <2>3
<1>2. \A i \in RowId : n[i] \in V \cup {None}
  BY DEF Numbered
<1>3. n \in [RowId -> V \cup {None}]
  BY <1>2 DEF Numbered
<1>4. ASSUME NEW j \in RowId, rows[j] # None
      PROVE  Place(rows, j) \in RowId /\ n[Place(rows, j)] = rows[j]
  <2>1. Place(rows, j) \in RowId
    <3>1. j \in Int /\ 1 <= j /\ j <= MaxId /\ MaxId \in Int
      BY TableDataAssumption DEF RowId
    <3>2. Place(rows, j) \in 0..j
      BY PlaceType
    <3>3. 1 <= Place(rows, j)
      BY <1>4, <3>1, PlaceGrows
    <3>. QED
      BY <3>1, <3>2, <3>3 DEF RowId
  <2>2. {k \in RowId : rows[k] # None /\ Place(rows, k) = Place(rows, j)} = {j}
    BY <1>4, OwnPlace
  <2>. QED
    BY <2>1, <2>2 DEF Numbered
<1>5. OnePlace(n)
  <2>. SUFFICES ASSUME NEW i \in RowId, NEW k \in RowId, n[i] # None, n[i] = n[k] PROVE i = k
    BY DEF OnePlace
  <2>1. PICK j \in RowId : Under(i, j) /\ n[i] = rows[j]
    BY <1>1
  <2>2. PICK m \in RowId : Under(k, m) /\ n[k] = rows[m]
    BY <1>1
  <2>. QED
    BY <2>1, <2>2 DEF OnePlace
<1>. HIDE DEF n
<1>. QED
  BY <1>1, <1>3, <1>4, <1>5 DEF n

\* A place is at most the number of rows, and the last row has that place: there
\* is a last row.
LEMMA Counted ==
    ASSUME NEW t, NEW j \in RowId
    PROVE  /\ Cardinality(Taken(t)) \in Nat
           /\ Place(t.rows, j) <= Cardinality(Taken(t))
<1>. DEFINE P == {k \in 1..j : t.rows[k] # None}
<1>1. MaxId \in Int /\ 1 \in Int /\ j <= MaxId /\ j \in Int
  BY TableDataAssumption DEF RowId
<1>2. IsFiniteSet(RowId)
  BY <1>1, FS_Interval DEF RowId
<1>3. Taken(t) \in SUBSET RowId /\ P \in SUBSET Taken(t)
  BY <1>1 DEF Taken, RowId
<1>4. IsFiniteSet(Taken(t))
  BY <1>2, <1>3, FS_Subset
<1>5. Place(t.rows, j) = Cardinality(P)
  BY DEF Place
<1>. HIDE DEF P
<1>6. Cardinality(P) <= Cardinality(Taken(t)) /\ Cardinality(Taken(t)) \in Nat
  BY <1>3, <1>4, FS_Subset, FS_CardinalityType
<1>. QED
  BY <1>5, <1>6

\* There is a row at every place up to the number of rows.
LEMMA EveryPlace ==
    ASSUME NEW t
    PROVE  /\ Cardinality(Taken(t)) \in Nat /\ (Taken(t) # {} => Cardinality(Taken(t)) # 0)
           /\ \A j \in Taken(t) : Place(t.rows, j) \in 1..Cardinality(Taken(t))
           /\ \A place \in 1..Cardinality(Taken(t)) : \E j \in Taken(t) : Place(t.rows, j) = place
<1>. DEFINE T == Taken(t)
            n == Cardinality(T)
            f == [j \in T |-> Place(t.rows, j)]
<1>1. T \in SUBSET RowId /\ \A j \in T : t.rows[j] # None
  BY DEF Taken
<1>2. MaxId \in Int /\ 1 \in Int
  BY TableDataAssumption
<1>3. IsFiniteSet(RowId)
  BY <1>2, FS_Interval DEF RowId
<1>4. IsFiniteSet(T)
  BY <1>1, <1>3, FS_Subset
<1>5. n \in Nat /\ (T # {} => n # 0)
  BY <1>4, FS_CardinalityType, FS_EmptySet
<1>6. IsFiniteSet(1..n) /\ Cardinality(1..n) = n
  BY <1>5, FS_Interval
<1>7. ASSUME NEW j \in T PROVE Place(t.rows, j) \in 1..n
  <2>1. j \in RowId /\ j \in Int /\ j <= j /\ t.rows[j] # None
    BY <1>1, <1>2 DEF RowId
  <2>2. Place(t.rows, j) \in 0..j
    BY <2>1, PlaceType
  <2>3. 1 <= Place(t.rows, j)
    BY <2>1, PlaceGrows
  <2>4. Place(t.rows, j) <= n
    BY <2>1, Counted
  <2>. QED
    BY <1>5, <2>1, <2>2, <2>3, <2>4
<1>8. f \in [T -> 1..n]
  BY <1>7
<1>9. \A i, j \in T : f[i] = f[j] => i = j
  BY <1>1, OwnPlace
<1>10. f \in Injection(T, 1..n)
  BY <1>8, <1>9 DEF Injection, IsInjective
<1>. HIDE DEF f
<1>11. f \in Surjection(T, 1..n)
  BY <1>4, <1>6, <1>10, FS_Injection
<1>12. \A place \in 1..n : \E j \in T : f[j] = place
  BY <1>11 DEF Surjection
<1>. QED
  BY <1>5, <1>7, <1>12 DEF f

\* The last row is there, and no row comes after it.
LEMMA LastRow ==
    ASSUME NEW t, Taken(t) # {}
    PROVE  Max(Taken(t)) \in RowId /\ \A j \in Taken(t) : j <= Max(Taken(t))
<1>. DEFINE T == Taken(t)
            n == Cardinality(T)
<1>1. T \in SUBSET RowId /\ \A j \in T : t.rows[j] # None
  BY DEF Taken
<1>2. MaxId \in Int /\ 1 \in Int
  BY TableDataAssumption
<1>3. n \in Nat /\ n # 0 /\ \A j \in T : Place(t.rows, j) \in 1..n
  BY EveryPlace
<1>4. PICK j \in T : Place(t.rows, j) = n
  BY <1>3, EveryPlace
<1>5. ASSUME NEW k \in T PROVE k <= j
  <2>1. k \in RowId /\ j \in RowId /\ k \in Int /\ j \in Int /\ t.rows[k] # None
    BY <1>1, <1>2 DEF RowId
  <2>2. Place(t.rows, k) \in 1..n
    BY <1>3
  <2>3. CASE j < k
    <3>1. j <= k
      BY <2>1, <2>3
    <3>2. Place(t.rows, j) < Place(t.rows, k)
      BY <2>1, <2>3, <3>1, PlaceGrows
    <3>. QED
      BY <1>3, <1>4, <2>2, <3>2
  <2>. QED
    BY <2>1, <2>3
<1>6. \A y \in T : j >= y
  BY <1>1, <1>2, <1>5 DEF RowId
<1>7. \E x \in T : \A y \in T : x >= y
  BY <1>6
<1>8. Max(T) \in T /\ \A y \in T : Max(T) >= y
  BY <1>7 DEF Max
<1>. QED
  BY <1>1, <1>2, <1>8 DEF RowId

-----------------------------------------------------------------------------
(* How a step treats the rows and the requests.                            *)

\* The rows of a table are what its rowids hold.
LEMMA RowsOf ==
    ASSUME NEW t, NEW row
    PROVE  row \in Rows(t) <=> row # None /\ \E i \in RowId : t.rows[i] = row
BY DEF Rows, Taken

\* A request goes on, and what it depends on is noted: `gone` and `moved` are
\* rows, and `between` says whether rows come between others.
Follows(r, gone, moved, between) ==
    LET q == request[r]
        n == request'[r]
    IN  /\ n.at = q.at
        /\ q.at = "shown" => n.seen = q.seen /\ (~n.moved => ~q.moved /\ moved = {})
        /\ q.at = "stored" => /\ n.id = q.id /\ n.row = q.row
                              /\ ~n.touched => ~q.touched /\ q.row \notin gone \cup moved
        /\ q.at \in {"columns", "rebuild"} => n = q
        /\ q.at \in {"export", "page", "exported"} =>
              /\ n.offset = q.offset /\ n.got = q.got /\ n.total = q.total /\ n.must = q.must
              /\ n.limit = q.limit /\ n.count = q.count /\ n.broken = q.broken
              /\ ~n.upset => /\ ~q.upset
                             /\ q.at # "exported" => gone \cup moved = {}
                             /\ q.at = "page" => ~between

\* A request that has just inserted a row.
JustStored(q) ==
    /\ q.at = "stored" /\ q.row = inserted' /\ inserted' > inserted
    /\ q.id # None => q.id \in RowId /\ table'.rows[q.id] = q.row

\* A statement on the writer connection: the rows in `gone` leave the table, those
\* in `moved` may be anywhere, the others stay, and at most a new one comes.
Rewrites(gone, moved, between) ==
    /\ \A i \in RowId : table.rows[i] \notin {None} \cup gone \cup moved => table'.rows[i] = table.rows[i]
    /\ \A row \in Rows(table') : row \in Rows(table) \ gone \/ (row = inserted' /\ inserted' > inserted)
    /\ Rows(table) \ gone \subseteq Rows(table')
    /\ gone \cup moved = {} /\ ~between =>
          \A i, j \in RowId : table'.rows[i] # None /\ table.rows[i] = None /\ table.rows[j] # None => j < i
    /\ gone \subseteq Rows(table)
    /\ open' = open /\ committed' = IF open THEN committed ELSE table'
    /\ inserted' \in {inserted, inserted + 1}
    /\ confirmed' = confirmed /\ asked' = asked \cup gone
    /\ deleted \subseteq deleted' /\ deleted' \subseteq deleted \cup gone
    /\ open => deleted' = deleted
    /\ \A r \in Request : Follows(r, gone, moved, between) \/ request'[r] = Idle \/ JustStored(request'[r])

\* What the types say of a request by what it is at.
LEMMA Kinds ==
    ASSUME Typed, NEW r \in Request
    PROVE  LET q == request[r] IN
           /\ q.at \in {"idle", "stored", "shown", "columns", "rebuild", "export", "page", "exported"}
           /\ q.at = "stored" => q \in [at : {"stored"}, id : RowId \cup {None}, row : Row, touched : BOOLEAN]
           /\ q.at = "shown" => q \in [at : {"shown"}, seen : Contents, moved : BOOLEAN]
           /\ q.at = "columns" => q \in [at : {"columns"}, columns : SUBSET Column, from : Column, to : Column]
           /\ q.at = "rebuild" => q \in [at : {"rebuild"}, columns : SUBSET Column, from : Column,
                                         to : Column, attached : SUBSET Attachment]
           /\ q.at \in {"export", "page", "exported"} => q \in Exports
<1>1. request[r] \in Work
  BY DEF Typed
<1>. QED
  BY <1>1 DEF Work, Exports

\* Rows are insertions, of which none is None.
LEMMA Numbers ==
    ASSUME Typed
    PROVE  /\ Inserts[scope] \in Nat /\ None \notin Nat /\ Row \subseteq Nat /\ inserted \in Nat
           /\ None \notin Row /\ None \notin RowId
BY TableDataAssumption DEF Typed, Row, RowId

\* A request that goes on is of the type it had.
LEMMA NoteFollows ==
    ASSUME Typed, NEW r \in Request, NEW gone, NEW moved, NEW between \in BOOLEAN,
           request'[r] = Note(gone, moved, between)[r]
    PROVE  request'[r] \in Work /\ Follows(r, gone, moved, between)
<1>. DEFINE q == request[r]
            n == request'[r]
<1>1. CASE q.at = "shown"
  <2>1. n = [q EXCEPT !.moved = @ \/ moved # {}]
    BY <1>1 DEF Note
  <2>2. q \in [at : {"shown"}, seen : Contents, moved : BOOLEAN]
    BY <1>1, Kinds
  <2>. QED
    BY <1>1, <2>1, <2>2 DEF Follows, Work
<1>2. CASE q.at = "stored"
  <2>1. n = [q EXCEPT !.touched = @ \/ q.row \in gone \cup moved]
    BY <1>2 DEF Note
  <2>2. q \in [at : {"stored"}, id : RowId \cup {None}, row : Row, touched : BOOLEAN]
    BY <1>2, Kinds
  <2>. QED
    BY <1>2, <2>1, <2>2 DEF Follows, Work
<1>3. CASE q.at \in {"export", "page"}
  <2>. DEFINE up == q.upset \/ gone \cup moved # {} \/ (q.at = "page" /\ between)
  <2>1. q \in Exports
    BY <1>3, Kinds
  <2>2. n = [q EXCEPT !.upset = up]
    BY <1>3, <2>1 DEF Note, Exports
  <2>3. up \in BOOLEAN
    BY <2>1 DEF Exports
  <2>4. n \in Exports /\ n.upset = up
        /\ n.at = q.at /\ n.offset = q.offset /\ n.got = q.got /\ n.total = q.total /\ n.must = q.must
        /\ n.limit = q.limit /\ n.count = q.count /\ n.broken = q.broken
    BY <2>1, <2>2, <2>3 DEF Exports
  <2>. QED
    BY <1>3, <2>4 DEF Follows, Work
<1>4. CASE q.at \notin {"shown", "stored", "export", "page"}
  <2>1. n = q
    BY <1>4 DEF Note
  <2>2. q \in Work
    BY DEF Typed
  <2>. QED
    BY <1>4, <2>1, <2>2 DEF Follows
<1>. QED
  BY <1>1, <1>2, <1>3, <1>4

-----------------------------------------------------------------------------
(* What a statement keeps.                                                 *)

\* Both sides of a transaction after a statement: the readers' is the writer's,
\* or stays as it was.
LEMMA KnownKept ==
    ASSUME Typed, Typed', Known, NEW gone, NEW moved, NEW between, Rewrites(gone, moved, between)
    PROVE  Known'
<1>1. inserted \in Nat /\ inserted' \in Nat /\ inserted <= inserted'
  BY Numbers DEF Rewrites
<1>2. Rows(table) \subseteq Nat /\ Rows(committed) \subseteq Nat /\ deleted \subseteq Nat
  BY Numbers, RowsOf DEF Typed, Table
<1>3. \A row \in Rows(table) \cup Rows(committed) \cup deleted : row \in Nat /\ row <= inserted
  BY <1>2 DEF Known
<1>4. \A row \in Rows(table') : row <= inserted'
  BY <1>1, <1>3 DEF Rewrites
<1>5. \A row \in Rows(committed') \cup deleted' : row <= inserted'
  BY <1>1, <1>3, <1>4 DEF Rewrites
<1>6. ASSUME NEW r \in Request, request'[r].at = "shown", NEW i \in RowId, request'[r].seen[i] # None
      PROVE  request'[r].seen[i] <= inserted'
  <2>1. request[r].at = "shown" /\ request'[r].seen = request[r].seen
    BY <1>6 DEF Rewrites, Follows, JustStored, Idle
  <2>2. request[r].seen[i] \in Nat
    BY <1>6, <2>1, Kinds, Numbers DEF Contents
  <2>. QED
    BY <1>1, <1>6, <2>1, <2>2 DEF Known
<1>. QED
  BY <1>4, <1>5, <1>6 DEF Known

\* Both sides go on to agree on what was deleted, confirmed and reported.
LEMMA HeldKept ==
    ASSUME Typed, Known, Held, NEW gone, NEW moved, NEW between, Rewrites(gone, moved, between)
    PROVE  Held'
<1>1. inserted \in Nat /\ deleted \subseteq Nat /\ Rows(table) \subseteq Nat
  BY Numbers, RowsOf DEF Typed, Table
<1>2. \A row \in deleted \cup Rows(table) : row # inserted' \/ ~(inserted' > inserted)
  BY <1>1 DEF Known, Rewrites
<1>3. \A row \in Rows(table') : row \in Rows(table) \ gone \/ row \notin deleted \cup Rows(table)
  BY <1>2 DEF Rewrites
<1>4. deleted' \subseteq deleted \cup gone /\ gone \subseteq Rows(table)
  BY DEF Rewrites
<1>5. deleted \cap Rows(table) = {} /\ deleted \cap Rows(committed) = {}
      /\ Rows(committed) \ asked \subseteq Rows(table) /\ confirmed \ asked \subseteq Rows(committed)
  BY DEF Held
<1>6. Rows(table) \ gone \subseteq Rows(table') /\ asked' = asked \cup gone /\ confirmed' = confirmed
  BY DEF Rewrites
<1>7. deleted' \cap Rows(table') = {}
  BY <1>3, <1>4, <1>5
<1>8. CASE open
  <2>1. committed' = committed /\ deleted' = deleted /\ open'
    BY <1>8 DEF Rewrites
  <2>2. Rows(committed) \ asked' \subseteq Rows(table')
    BY <1>5, <1>6
  <2>. QED
    BY <1>5, <1>6, <1>7, <2>1, <2>2 DEF Held
<1>9. CASE ~open
  <2>1. committed' = table' /\ table = committed
    BY <1>9 DEF Rewrites, Held
  <2>. QED
    BY <1>5, <1>6, <1>7, <2>1 DEF Held
<1>. QED
  BY <1>8, <1>9

\* What a request was shown still names a row that stayed where it was.
LEMMA NamedKept ==
    ASSUME Typed, Known, Named, NEW gone, NEW moved, NEW between, Rewrites(gone, moved, between)
    PROVE  Named'
<1>. SUFFICES ASSUME NEW r \in Request, request'[r].at = "shown",
                     NEW i \in RowId, request'[r].seen[i] # None, ~request'[r].moved
              PROVE  /\ table'.rows[i] = request'[r].seen[i] \/ request'[r].seen[i] \notin Rows(table')
                     /\ committed'.rows[i] = request'[r].seen[i] \/ request'[r].seen[i] \notin Rows(committed')
  BY DEF Named, Names
<1>. DEFINE row == request[r].seen[i]
<1>1. /\ request[r].at = "shown" /\ request'[r].seen = request[r].seen
      /\ ~request[r].moved /\ moved = {}
  BY DEF Rewrites, Follows, JustStored, Idle
<1>2. row \in Nat /\ row <= inserted /\ inserted \in Nat
  BY <1>1, Kinds, Numbers DEF Known, Contents
<1>3. table.rows[i] = row \/ row \notin Rows(table)
  BY <1>1 DEF Named, Names
<1>4. committed.rows[i] = row \/ row \notin Rows(committed)
  BY <1>1 DEF Named, Names
<1>5. row \in Rows(table') => row \in Rows(table) \ gone
  BY <1>2 DEF Rewrites
<1>6. table'.rows[i] = row \/ row \notin Rows(table')
  BY <1>1, <1>3, <1>5 DEF Rewrites
<1>. QED
  BY <1>1, <1>4, <1>6 DEF Rewrites

\* A row that was inserted stays under its key until it is touched.
LEMMA LastingKept ==
    ASSUME Typed, Known, Lasting, NEW gone, NEW moved, NEW between, Rewrites(gone, moved, between)
    PROVE  Lasting'
<1>. SUFFICES ASSUME NEW r \in Request, request'[r].at = "stored",
                     request'[r].id # None, ~request'[r].touched
              PROVE  LET q == request'[r] IN
                     /\ table'.rows[q.id] = q.row
                     /\ q.row \in Rows(committed') => committed'.rows[q.id] = q.row
  BY DEF Lasting, Lasts
<1>1. CASE JustStored(request'[r])
  <2>1. inserted' \notin Rows(committed)
    BY <1>1, Numbers DEF JustStored, Known, Rewrites
  <2>. QED
    BY <1>1, <2>1 DEF JustStored, Rewrites
<1>2. CASE Follows(r, gone, moved, between)
  <2>1. request[r].at = "stored" /\ request'[r].id = request[r].id /\ request'[r].row = request[r].row
        /\ ~request[r].touched /\ request[r].row \notin gone \cup moved
    BY <1>2 DEF Follows
  <2>2. request[r].id \in RowId /\ request[r].row # None
    BY <2>1, Kinds, Numbers
  <2>3. table.rows[request[r].id] = request[r].row
    BY <2>1, <2>2 DEF Lasting, Lasts
  <2>4. request[r].row \in Rows(committed) => committed.rows[request[r].id] = request[r].row
    BY <2>1, <2>2 DEF Lasting, Lasts
  <2>5. table'.rows[request[r].id] = request[r].row
    BY <2>1, <2>2, <2>3 DEF Rewrites
  <2>. QED
    BY <2>1, <2>4, <2>5 DEF Rewrites
<1>. QED
  BY <1>1, <1>2 DEF Rewrites, Idle

\* Rows that stay where they are stay ahead of an export, and in a page among
\* those that were counted, if no row comes between.
LEMMA StillAhead ==
    ASSUME NEW rows, NEW more, NEW j \in RowId, rows[j] # None,
           \A i \in RowId : rows[i] # None => more[i] = rows[i]
    PROVE  /\ Place(rows, j) <= Place(more, j)
           /\ (\A i, k \in RowId : more[i] # None /\ rows[i] = None /\ rows[k] # None => k < i)
                 => Place(more, j) = Place(rows, j)
<1>1. j \in Int /\ j <= j /\ j <= MaxId /\ MaxId \in Int
  BY TableDataAssumption DEF RowId
<1>2. Place(rows, j) <= Place(more, j)
  BY <1>1, PlaceGrows
<1>3. ASSUME \A i, k \in RowId : more[i] # None /\ rows[i] = None /\ rows[k] # None => k < i
      PROVE  Place(more, j) = Place(rows, j)
  <2>1. ASSUME NEW k \in 1..j PROVE more[k] # None <=> rows[k] # None
    <3>1. k \in RowId /\ k \in Int /\ ~(j < k)
      BY <1>1 DEF RowId
    <3>. QED
      BY <1>3, <3>1
  <2>2. {k \in 1..j : more[k] # None} = {k \in 1..j : rows[k] # None}
    BY <2>1
  <2>. QED
    BY <2>2 DEF Place
<1>. QED
  BY <1>2, <1>3

\* A name that is new to the columns that were read stays so.
LEMMA NewNamesKept ==
    ASSUME NewNames, NEW gone, NEW moved, NEW between, Rewrites(gone, moved, between)
    PROVE  NewNames'
<1>. SUFFICES ASSUME NEW r \in Request, request'[r].at \in {"columns", "rebuild"}
              PROVE  NewName(request[r])'
  BY DEF NewNames, NewName
<1>1. request'[r] = request[r]
  BY DEF Rewrites, Follows, JustStored, Idle
<1>. QED
  BY <1>1 DEF NewNames, NewName

\* What an export has not fetched stays ahead of it.
LEMMA FetchedKept ==
    ASSUME Typed, Held, Fetched, NEW gone, NEW moved, NEW between, Rewrites(gone, moved, between)
    PROVE  Fetched'
<1>. SUFFICES ASSUME NEW r \in Request, request'[r].at \in {"export", "page", "exported"}
              PROVE  Fetches(request[r])'
  BY DEF Fetched, Fetches, Whole
<1>. DEFINE q == request[r]
            n == request'[r]
<1>1. /\ n.at = q.at /\ n.offset = q.offset /\ n.got = q.got /\ n.total = q.total /\ n.must = q.must
      /\ n.limit = q.limit /\ n.count = q.count /\ n.broken = q.broken
      /\ ~n.upset => /\ ~q.upset
                     /\ q.at # "exported" => gone \cup moved = {}
                     /\ q.at = "page" => ~between
  BY DEF Rewrites, Follows, JustStored, Idle
<1>2. Fetches(q)
  BY DEF Fetched
<1>3. ASSUME Whole(n), NEW row \in n.must \ n.got
      PROVE  n.at # "exported" /\ Ahead(row, request[r])'
  <2>0. /\ ~q.upset /\ (q.at # "exported" => gone \cup moved = {}) /\ (q.at = "page" => ~between)
        /\ q.at \in {"export", "page", "exported"}
    BY <1>1, <1>3 DEF Whole
  <2>1. q.at # "exported" /\ Ahead(row, q)
    BY <1>1, <1>2, <1>3, <2>0 DEF Fetches, Whole
  <2>2. PICK j \in RowId : /\ committed.rows[j] = row
                           /\ q.offset < Place(committed.rows, j)
                           /\ q.at = "page" => Place(committed.rows, j) <= q.total
    BY <2>1 DEF Ahead
  <2>3. q.offset \in Nat /\ q.total \in Nat /\ row # None
    BY <1>1, <1>3, <2>0, Kinds, Numbers DEF Exports
  <2>4. committed'.rows[j] = row
    BY <2>0, <2>1, <2>2, <2>3 DEF Rewrites, Held
  <2>5. Place(committed.rows, j) \in 0..j /\ Place(committed'.rows, j) \in 0..j
    BY PlaceType
  <2>6. CASE open
    BY <1>1, <2>1, <2>2, <2>6 DEF Rewrites, Ahead
  <2>7. CASE ~open
    <3>1. \A i \in RowId : committed.rows[i] # None => committed'.rows[i] = committed.rows[i]
      BY <2>0, <2>1, <2>7 DEF Rewrites, Held
    <3>2. Place(committed.rows, j) <= Place(committed'.rows, j)
      BY <2>2, <2>3, <3>1, StillAhead
    <3>3. q.at = "page" => \A i, k \in RowId :
              committed'.rows[i] # None /\ committed.rows[i] = None /\ committed.rows[k] # None => k < i
      BY <2>0, <2>1, <2>7 DEF Rewrites, Held
    <3>4. q.at = "page" => Place(committed'.rows, j) = Place(committed.rows, j)
      BY <2>2, <2>3, <3>1, <3>3, StillAhead
    <3>5. n.offset < Place(committed'.rows, j)
      BY <1>1, <2>2, <2>3, <2>5, <3>2
    <3>. QED
      BY <1>1, <2>1, <2>2, <2>4, <3>4, <3>5 DEF Ahead
  <2>. QED
    BY <2>6, <2>7
<1>4. n.at \in {"export", "page"} => n.count < n.limit
  BY <1>1, <1>2 DEF Fetches
<1>. QED
  BY <1>3, <1>4 DEF Fetches, Whole

\* A statement keeps the invariant.
LEMMA Rewritten ==
    ASSUME IInv, Typed', Sane(table'), NEW gone, NEW moved, NEW between, Rewrites(gone, moved, between)
    PROVE  Keeps
<1>1. Sane(committed')
  BY DEF IInv, Rewrites
<1>. QED
  BY <1>1, KnownKept, HeldKept, NamedKept, LastingKept, NewNamesKept, FetchedKept DEF IInv, Keeps

\* The variables that a step may change, one by one.
LEMMA TypedAfter ==
    ASSUME Typed, UNCHANGED <<scope, keyed>>, open' \in BOOLEAN, table' \in Table, committed' \in Table,
           request' \in [Request -> Work], inserted' \in 0..Inserts[scope],
           confirmed' \in SUBSET Row, asked' \in SUBSET Row, deleted' \in SUBSET Row
    PROVE  Typed'
BY DEF Typed, Work, Exports, Contents, Table, Row

\* A statement leaves everything typed whose table and requests are.
LEMMA WriteTyped ==
    ASSUME Typed, NEW t \in Table, Write(t), request' \in [Request -> Work], inserted' \in 0..Inserts[scope],
           confirmed' \in SUBSET Row, asked' \in SUBSET Row, deleted' \in SUBSET Row
    PROVE  Typed'
<1>1. UNCHANGED <<scope, keyed>> /\ open' \in BOOLEAN /\ table' \in Table /\ committed' \in Table
  BY DEF Write, Typed
<1>. QED
  BY <1>1, TypedAfter

\* Requests that go on, all of them,
LEMMA Noted ==
    ASSUME Typed, NEW gone, NEW moved, NEW between \in BOOLEAN, request' = Note(gone, moved, between)
    PROVE  request' \in [Request -> Work] /\ \A r \in Request : Follows(r, gone, moved, between)
<1>1. \A r \in Request : request'[r] \in Work /\ Follows(r, gone, moved, between)
  BY NoteFollows
<1>. QED
  BY <1>1 DEF Note

\* all but the one that acts,
LEMMA NotedBut ==
    ASSUME Typed, NEW gone, NEW moved, NEW between \in BOOLEAN, NEW r \in Request, NEW q \in Work,
           request' = [Note(gone, moved, between) EXCEPT ![r] = q]
    PROVE  /\ request' \in [Request -> Work] /\ request'[r] = q
           /\ \A s \in Request \ {r} : Follows(s, gone, moved, between)
<1>1. request'[r] = q /\ \A s \in Request \ {r} : request'[s] = Note(gone, moved, between)[s]
  BY DEF Note
<1>2. \A s \in Request \ {r} : request'[s] \in Work /\ Follows(s, gone, moved, between)
  BY <1>1, NoteFollows
<1>3. request' \in [Request -> Work]
  BY <1>1, <1>2 DEF Note
<1>. QED
  BY <1>1, <1>2, <1>3

\* and those of which nothing is noted.
LEMMA Unnoted ==
    ASSUME UNCHANGED request, NEW r \in Request
    PROVE  Follows(r, {}, {}, FALSE)
BY DEF Follows

\* Being idle is work of a request.
LEMMA IdleWork == Idle \in Work
BY DEF Idle, Work

-----------------------------------------------------------------------------
(* Statements that change the rows.                                        *)

\* The rows of a table to which one was added.
LEMMA RowsAdded ==
    ASSUME NEW t, NEW u, NEW id \in RowId, t.rows[id] = None, u.rows[id] # None,
           \A i \in RowId \ {id} : u.rows[i] = t.rows[i]
    PROVE  Rows(u) = Rows(t) \cup {u.rows[id]}
BY DEF Rows, Taken

\* A row that gets another rowid is still there.
LEMMA RowsMoved ==
    ASSUME NEW t, NEW u, NEW i \in RowId, NEW j \in RowId, t.rows[i] # None,
           j # i => t.rows[j] = None /\ u.rows[i] = None,
           u.rows[j] = t.rows[i], \A k \in RowId \ {i, j} : u.rows[k] = t.rows[k]
    PROVE  Rows(u) = Rows(t)
<1>1. CASE i = j
  BY <1>1 DEF Rows, Taken
<1>2. CASE i # j
  BY <1>2 DEF Rows, Taken
<1>. QED
  BY <1>1, <1>2

\* Insert: the row is new, and at the end unless it has been given another rowid.
LEMMA InsertStep ==
    ASSUME IInv, NEW r \in Request, NEW id \in RowId, NEW key \in {id, None}, Insert(r, id, key)
    PROVE  Keeps
<1>. DEFINE new == inserted + 1
            t == [table EXCEPT !.rows[id] = new]
            q == [at |-> "stored", id |-> key, row |-> new, touched |-> FALSE]
<1>. USE DEF IInv
<1>1. /\ new \in Row /\ table.columns # {} /\ table.rows[id] = None
      /\ Write(t) /\ inserted' = new /\ UNCHANGED history
      /\ request' = [Note({}, {}, id # NextId(table)) EXCEPT ![r] = q]
  BY DEF Insert
<1>2. /\ inserted \in Nat /\ new \in Nat /\ new > inserted /\ new # None
      /\ new \in 0..Inserts[scope] /\ Inserts[scope] \in Nat
  BY <1>1, Numbers DEF Row
<1>3. table \in Table /\ t \in Table /\ t.rows = [table.rows EXCEPT ![id] = new]
      /\ t.columns = table.columns /\ t.attached = table.attached
  BY <1>1 DEF Typed, Table
<1>4. table.rows \in [RowId -> Row \cup {None}] /\ t.rows[id] = new
      /\ \A i \in RowId \ {id} : t.rows[i] = table.rows[i]
  BY <1>3 DEF Table
<1>5. new \notin Rows(table)
  BY <1>2 DEF Known
<1>6. q \in Work
  BY <1>1, Numbers DEF Work
<1>7. /\ request' \in [Request -> Work] /\ request'[r] = q
      /\ \A s \in Request \ {r} : Follows(s, {}, {}, id # NextId(table))
  BY <1>1, <1>6, NotedBut
<1>8. table' = t /\ open' = open /\ committed' = IF open THEN committed ELSE table'
  BY <1>1 DEF Write
<1>9. Sane(t)
  <2>1. OnePlace(t.rows)
    BY <1>1, <1>4, <1>5, RowsOf DEF Sane, OnePlace
  <2>. QED
    BY <1>1, <1>3, <2>1 DEF Sane
<1>10. Typed'
  BY <1>1, <1>2, <1>3, <1>7, WriteTyped DEF Typed, history
<1>11. JustStored(request'[r])
  BY <1>1, <1>2, <1>4, <1>7, <1>8 DEF JustStored
<1>12. Rewrites({}, {}, id # NextId(table))
  <2>1. \A i \in RowId : table.rows[i] # None => t.rows[i] = table.rows[i]
    BY <1>1, <1>4
  <2>2. Rows(t) = Rows(table) \cup {new}
    <3>. HIDE DEF t, new, IInv
    <3>. QED
      BY <1>1, <1>2, <1>4, RowsAdded
  <2>3. ASSUME id = NextId(table), NEW i \in RowId, NEW j \in RowId,
               t.rows[i] # None, table.rows[i] = None, table.rows[j] # None
        PROVE  j < i
    <3>1. i = id /\ j \in Taken(table)
      BY <1>4, <2>3 DEF Taken
    <3>2. id = Max(Taken(table)) + 1
      BY <2>3, <3>1 DEF NextId
    <3>3. Max(Taken(table)) \in Int /\ j \in Int /\ j <= Max(Taken(table))
      BY <3>1, LastRow, TableDataAssumption DEF RowId
    <3>. QED
      BY <3>1, <3>2, <3>3
  <2>4. \A s \in Request : Follows(s, {}, {}, id # NextId(table)) \/ JustStored(request'[s])
    BY <1>7, <1>11
  <2>5. asked' = asked /\ confirmed' = confirmed /\ deleted' = deleted
    BY <1>1 DEF history
  <2>6. \A row \in Rows(table') : row \in Rows(table) \ {} \/ (row = inserted' /\ inserted' > inserted)
    BY <1>1, <1>2, <1>8, <2>2
  <2>7. inserted' \in {inserted, inserted + 1} /\ Rows(table) \ {} \subseteq Rows(table')
    BY <1>1, <1>8, <2>2
  <2>. HIDE DEF t, new, q, IInv
  <2>. QED
    BY <1>8, <2>1, <2>3, <2>4, <2>5, <2>6, <2>7 DEF Rewrites
<1>. QED
  BY <1>8, <1>9, <1>10, <1>12, Rewritten

\* Update: one row at most is at another rowid.
LEMMA UpdateStep ==
    ASSUME IInv, NEW r \in Request, NEW i \in RowId, NEW j \in RowId, Update(r, i, j)
    PROVE  Keeps
<1>. DEFINE old == table.rows
            rows == [old EXCEPT ![i] = None, ![j] = old[i]]
            t == [table EXCEPT !.rows = rows]
            moved == {old[k] : k \in {i} \ {j}}
<1>. USE DEF IInv
<1>1. /\ old[i] # None /\ (j # i => old[j] = None) /\ Write(t)
      /\ request' = [Note({}, moved, FALSE) EXCEPT ![r] = Idle]
      /\ UNCHANGED <<inserted, confirmed, asked, deleted>>
  <2>1. t = [table EXCEPT !.rows = [@ EXCEPT ![i] = None, ![j] = table.rows[i]]]
    BY DEF Typed, Table
  <2>. QED
    BY <2>1 DEF Update
<1>2. table \in Table /\ old \in Contents
  BY DEF Typed, Table, Contents
<1>3. rows[j] = old[i] /\ (j # i => rows[i] = None) /\ \A k \in RowId \ {i, j} : rows[k] = old[k]
  BY <1>2 DEF Contents
<1>4. t \in Table /\ t.rows = rows /\ t.columns = table.columns /\ t.attached = table.attached
  BY <1>2 DEF Table, Contents
<1>5. request' \in [Request -> Work] /\ request'[r] = Idle
      /\ \A s \in Request \ {r} : Follows(s, {}, moved, FALSE)
  BY <1>1, IdleWork, NotedBut
<1>6. table' = t /\ open' = open /\ committed' = IF open THEN committed ELSE table'
  BY <1>1 DEF Write
<1>7. Rows(t) = Rows(table)
  <2>. HIDE DEF t, rows, IInv
  <2>. QED
    BY <1>1, <1>3, <1>4, RowsMoved
<1>8. Sane(t)
  <2>1. OnePlace(rows)
    BY <1>1, <1>3 DEF Sane, OnePlace
  <2>. QED
    BY <1>4, <1>7, <2>1 DEF Sane
<1>9. Typed'
  BY <1>1, <1>4, <1>5, WriteTyped DEF Typed
<1>10. Rewrites({}, moved, FALSE)
  <2>1. \A k \in RowId : old[k] \notin {None} \cup moved => rows[k] = old[k]
    BY <1>1, <1>3
  <2>2. moved = {} => rows = old
    BY <1>2 DEF Contents
  <2>3. \A s \in Request : Follows(s, {}, moved, FALSE) \/ request'[s] = Idle
    BY <1>5
  <2>. HIDE DEF t, rows, moved, IInv
  <2>. QED
    BY <1>1, <1>4, <1>6, <1>7, <2>1, <2>2, <2>3 DEF Rewrites
<1>. QED
  BY <1>6, <1>8, <1>9, <1>10, Rewritten

\* Rows that are deleted leave the others where they are.
LEMMA RowsLeft ==
    ASSUME NEW t, NEW u, NEW gone,
           \A i \in RowId : u.rows[i] = IF t.rows[i] \in gone THEN None ELSE t.rows[i]
    PROVE  Rows(u) = Rows(t) \ gone /\ (OnePlace(t.rows) => OnePlace(u.rows))
BY DEF Rows, Taken, OnePlace

\* A statement that takes rows away, and does nothing else.
LEMMA RemoveStep ==
    ASSUME IInv, NEW t \in Table, Write(t), Sane(t), NEW gone \in SUBSET Rows(table),
           \A i \in RowId : t.rows[i] = IF table.rows[i] \in gone THEN None ELSE table.rows[i],
           request' \in [Request -> Work],
           \A r \in Request : Follows(r, gone, {}, FALSE) \/ request'[r] = Idle,
           asked' = asked \cup gone, deleted' = IF open THEN deleted ELSE deleted \cup gone,
           UNCHANGED <<inserted, confirmed>>
    PROVE  Keeps
<1>1. Rows(t) = Rows(table) \ gone
  BY RowsLeft
<1>2. table' = t /\ open' = open /\ committed' = IF open THEN committed ELSE table'
  BY DEF Write
<1>3. gone \in SUBSET Row /\ Typed
  BY RowsOf DEF IInv, Typed, Table
<1>4. inserted' \in 0..Inserts[scope] /\ confirmed' \in SUBSET Row /\ asked' \in SUBSET Row
      /\ deleted' \in SUBSET Row
  BY <1>3 DEF Typed
<1>5. Typed'
  BY <1>3, <1>4, WriteTyped
<1>6. Rewrites(gone, {}, FALSE)
  <2>1. \A i \in RowId : table.rows[i] \notin {None} \cup gone => t.rows[i] = table.rows[i]
    OBVIOUS
  <2>2. \A i \in RowId : t.rows[i] # None => table.rows[i] # None
    OBVIOUS
  <2>3. \A row \in Rows(table') : row \in Rows(table) \ gone
    BY <1>1, <1>2
  <2>4. Rows(table) \ gone \subseteq Rows(table') /\ gone \subseteq Rows(table)
    BY <1>1, <1>2
  <2>5. deleted \subseteq deleted' /\ deleted' \subseteq deleted \cup gone /\ (open => deleted' = deleted)
    OBVIOUS
  <2>6. inserted' \in {inserted, inserted + 1} /\ confirmed' = confirmed
    OBVIOUS
  <2>. QED
    BY <1>2, <2>1, <2>2, <2>3, <2>4, <2>5, <2>6 DEF Rewrites
<1>. QED
  BY <1>2, <1>5, <1>6, Rewritten

\* Delete and DeleteMany: the rows under the rowids are gone, and only they.
LEMMA DeleteStep ==
    ASSUME IInv, NEW r \in Request, NEW ids \in SUBSET RowId, Delete(r, ids)
    PROVE  Keeps
<1>. DEFINE gone == {table.rows[i] : i \in ids} \ {None}
            rows == [i \in RowId |-> IF i \in ids THEN None ELSE table.rows[i]]
            t == [table EXCEPT !.rows = rows]
<1>1. table \in Table /\ Typed
  BY DEF IInv, Typed
<1>2. /\ Write(t)
      /\ request' = [Note(gone, {}, FALSE) EXCEPT ![r] = Idle]
      /\ asked' = asked \cup gone
      /\ deleted' = IF open THEN deleted ELSE deleted \cup gone
      /\ UNCHANGED <<inserted, confirmed>>
  <2>1. t = [table EXCEPT !.rows = [i \in RowId |-> IF i \in ids THEN None ELSE @[i]]]
    BY <1>1 DEF Table
  <2>. QED
    BY <2>1 DEF Delete
<1>3. t \in Table /\ t.rows = rows /\ t.columns = table.columns /\ t.attached = table.attached
  BY <1>1 DEF Table
<1>4. gone \in SUBSET Rows(table)
  BY RowsOf
<1>5. \A i \in RowId : t.rows[i] = IF table.rows[i] \in gone THEN None ELSE table.rows[i]
  BY <1>3 DEF IInv, Sane, OnePlace
<1>6. request' \in [Request -> Work] /\ request'[r] = Idle
      /\ \A s \in Request \ {r} : Follows(s, gone, {}, FALSE)
  BY <1>1, <1>2, IdleWork, NotedBut
<1>. HIDE DEF t, gone, rows
<1>7. Sane(t)
  <2>1. Sane(table)
    BY DEF IInv
  <2>2. Rows(t) = Rows(table) \ gone /\ (OnePlace(table.rows) => OnePlace(t.rows))
    BY <1>5, RowsLeft
  <2>. QED
    BY <1>3, <2>1, <2>2 DEF Sane
<1>. QED
  BY <1>2, <1>3, <1>4, <1>5, <1>6, <1>7, RemoveStep

\* DropTable: all rows are gone.
LEMMA DropTableStep ==
    ASSUME IInv, DropTable
    PROVE  Keeps
<1>. DEFINE t == [columns |-> {}, texts |-> {}, attached |-> {}, rows |-> NoRows]
            gone == Rows(table)
<1>1. Typed
  BY DEF IInv
<1>2. /\ Write(t) /\ request' = Note(gone, {}, FALSE) /\ asked' = asked \cup gone
      /\ deleted' = IF open THEN deleted ELSE deleted \cup gone
      /\ UNCHANGED <<inserted, confirmed>>
  BY DEF DropTable
<1>3. t \in Table /\ Sane(t)
  BY DEF Table, NoRows, Sane, OnePlace, Rows, Taken
<1>4. \A i \in RowId : t.rows[i] = IF table.rows[i] \in gone THEN None ELSE table.rows[i]
  BY DEF NoRows, Rows, Taken
<1>5. request' \in [Request -> Work] /\ \A s \in Request : Follows(s, gone, {}, FALSE)
  BY <1>1, <1>2, Noted
<1>. HIDE DEF t
<1>. QED
  BY <1>2, <1>3, <1>4, <1>5, RemoveStep

\* Changing the columns, or what is attached to them, leaves the rows alone.
LEMMA AlterStep ==
    ASSUME IInv, NEW t \in Table, Alter(t), Sane(t), t.rows = table.rows
    PROVE  Keeps
<1>1. \A r \in Request : Follows(r, {}, {}, FALSE)
  BY Unnoted DEF Alter
<1>2. \A i \in RowId : t.rows[i] = IF table.rows[i] \in {} THEN None ELSE table.rows[i]
  OBVIOUS
<1>3. /\ Write(t) /\ request' \in [Request -> Work] /\ {} \in SUBSET Rows(table)
      /\ asked' = asked \cup {} /\ deleted' = (IF open THEN deleted ELSE deleted \cup {})
      /\ UNCHANGED <<inserted, confirmed>>
  BY DEF Alter, IInv, Typed
<1>. QED
  BY <1>1, <1>2, <1>3, RemoveStep

-----------------------------------------------------------------------------
(* Statements that write the table anew, or change its columns.            *)

\* Writing the rows of a table anew keeps them, and their rowids if it declares
\* its key.
LEMMA Recopied ==
    ASSUME IInv, NEW t \in Table, t.rows \in {table.rows, Compacted(table.rows)}
    PROVE  OnePlace(t.rows) /\ Rows(t) = Rows(table) /\ (keyed => t.rows = table.rows)
<1>. DEFINE new == Numbered(table.rows)
<1>1. OnePlace(table.rows) /\ table.rows \in [RowId -> Row \cup {None}]
  BY DEF IInv, Sane, Typed, Table
<1>2. /\ OnePlace(new)
      /\ \A i \in RowId : new[i] # None => \E j \in RowId : table.rows[j] = new[i]
      /\ \A j \in RowId : table.rows[j] # None => \E i \in RowId : new[i] = table.rows[j]
  BY <1>1, NumberedKeeps
<1>. HIDE DEF new
<1>3. CASE t.rows = table.rows
  BY <1>1, <1>3 DEF Rows, Taken
<1>4. CASE t.rows = new /\ ~keyed
  BY <1>2, <1>4 DEF Rows, Taken
<1>. QED
  BY <1>3, <1>4 DEF Compacted, new

\* A table that was written anew is one.
LEMMA CompactedContents ==
    ASSUME IInv
    PROVE  Compacted(table.rows) \in [RowId -> Row \cup {None}]
<1>1. OnePlace(table.rows) /\ table.rows \in [RowId -> Row \cup {None}]
  BY DEF IInv, Sane, Typed, Table
<1>. QED
  BY <1>1, NumberedKeeps DEF Compacted

\* A statement that writes the rows of the table anew.
LEMMA RecopyStep ==
    ASSUME IInv, NEW t \in Table, Write(t), Sane(t), t.rows \in {table.rows, Compacted(table.rows)},
           request' \in [Request -> Work],
           \A r \in Request : Follows(r, {}, Renumbered, FALSE) \/ request'[r] = Idle,
           UNCHANGED <<inserted, confirmed, asked, deleted>>
    PROVE  Keeps
<1>1. Rows(t) = Rows(table) /\ (keyed => t.rows = table.rows)
  BY Recopied
<1>2. table' = t /\ open' = open /\ committed' = IF open THEN committed ELSE table'
  BY DEF Write
<1>3. Typed'
  BY WriteTyped DEF IInv, Typed
<1>4. \A i \in RowId : table.rows[i] # None => table.rows[i] \in Rows(table)
  BY DEF Rows, Taken
<1>5. \A i \in RowId : t.rows[i] # None => t.rows[i] \in Rows(table)
  BY <1>1 DEF Rows, Taken
<1>6. Rewrites({}, Renumbered, FALSE)
  <2>1. \A i \in RowId : table.rows[i] \notin {None} \cup {} \cup Renumbered => t.rows[i] = table.rows[i]
    BY <1>1, <1>4 DEF Renumbered
  <2>2. {} \cup Renumbered = {} =>
          \A i, j \in RowId : t.rows[i] # None /\ table.rows[i] = None /\ table.rows[j] # None => j < i
    BY <1>1, <1>5 DEF Renumbered
  <2>. QED
    BY <1>1, <1>2, <2>1, <2>2 DEF Rewrites
<1>. QED
  BY <1>2, <1>3, <1>6, Rewritten

\* ModifyColumn, at its end: rebuildTable.
LEMMA RebuildStep ==
    ASSUME IInv, NEW r \in Request, Rebuild(r)
    PROVE  Keeps
<1>. DEFINE q == request[r]
            columns == (q.columns \ {q.from}) \cup {q.to}
            t == [columns |-> columns, texts |-> Texts(q, columns),
                  attached |-> Recreated(q, columns), rows |-> Compacted(table.rows)]
<1>1. Typed /\ Sane(table)
  BY DEF IInv
<1>2. /\ q.at = "rebuild" /\ ~open /\ Write(t)
      /\ request' = [Note({}, Renumbered, FALSE) EXCEPT ![r] = Idle]
      /\ UNCHANGED <<inserted, confirmed, asked, deleted>>
  BY DEF Rebuild
<1>3. q \in [at : {"rebuild"}, columns : SUBSET Column, from : Column, to : Column,
             attached : SUBSET Attachment]
  BY <1>1, <1>2, Kinds
<1>4. /\ columns \in SUBSET Column /\ columns # {}
      /\ Texts(q, columns) \in SUBSET Column /\ Recreated(q, columns) \in SUBSET Attachment
  BY <1>3 DEF Recreated, Texts
<1>5. t \in Table
  BY <1>4, CompactedContents DEF Table
<1>6. \A a \in Recreated(q, columns) : a.kind # "trigger" => a.on \in columns
  BY DEF Recreated
<1>7. t.columns = columns /\ t.attached = Recreated(q, columns) /\ t.rows = Compacted(table.rows)
  OBVIOUS
<1>8. request' \in [Request -> Work] /\ request'[r] = Idle
      /\ \A s \in Request \ {r} : Follows(s, {}, Renumbered, FALSE)
  BY <1>1, <1>2, IdleWork, NotedBut
<1>. HIDE DEF t, columns, q
<1>9. Sane(t)
  BY <1>4, <1>5, <1>6, <1>7, Recopied DEF Sane
<1>. QED
  BY <1>2, <1>5, <1>7, <1>8, <1>9, RecopyStep

\* Vacuum: at worst, all rows are numbered anew.
LEMMA VacuumStep ==
    ASSUME IInv, Vacuum
    PROVE  Keeps
<1>1. PICK rows \in {table.rows, Compacted(table.rows)} : Write([table EXCEPT !.rows = rows])
  BY DEF Vacuum
<1>. DEFINE t == [table EXCEPT !.rows = rows]
<1>2. Typed /\ Sane(table)
  BY DEF IInv
<1>3. table \in Table /\ rows \in [RowId -> Row \cup {None}]
  BY <1>2, CompactedContents DEF Typed, Table
<1>4. t \in Table /\ t.rows = rows /\ t.columns = table.columns /\ t.attached = table.attached
  BY <1>3 DEF Table
<1>5. request' \in [Request -> Work] /\ \A s \in Request : Follows(s, {}, Renumbered, FALSE)
  BY <1>2, Noted DEF Vacuum
<1>6. Sane(t)
  <2>. HIDE DEF t
  <2>1. OnePlace(t.rows) /\ Rows(t) = Rows(table)
    BY <1>4, Recopied
  <2>. QED
    BY <1>2, <1>4, <2>1 DEF Sane
<1>. QED
  BY <1>1, <1>4, <1>5, <1>6, RecopyStep DEF Vacuum

\* Each change of the columns leaves a table that makes sense.
LEMMA ColumnStep ==
    ASSUME IInv, NEW c \in Column,
           \/ AddColumn(c) \/ DropColumn(c) \/ (\E d \in Column : RenameColumn(c, d))
           \/ CreateIndex(c) \/ CreateTrigger(c) \/ DropIndex(c) \/ DropTrigger(c)
           \/ CreateTable(c)
    PROVE  Keeps
<1>1. table \in Table /\ Sane(table)
  BY DEF IInv, Typed
<1>. SUFFICES \E t \in Table : Alter(t) /\ Sane(t) /\ t.rows = table.rows
  BY AlterStep
\* The columns and what is attached may change, as long as they fit.
<1>2. ASSUME NEW columns \in SUBSET Column, NEW texts \in SUBSET Column, NEW attached \in SUBSET Attachment,
             columns # {}, \A a \in attached : a.kind # "trigger" => a.on \in columns,
             Alter([table EXCEPT !.columns = columns, !.attached = attached, !.texts = texts])
      PROVE  \E t \in Table : Alter(t) /\ Sane(t) /\ t.rows = table.rows
  <2>. DEFINE t == [table EXCEPT !.columns = columns, !.attached = attached, !.texts = texts]
  <2>1. t \in Table /\ t.rows = table.rows /\ t.columns = columns /\ t.attached = attached
    BY <1>1 DEF Table
  <2>2. Alter(t)
    BY <1>2
  <2>. HIDE DEF t
  <2>3. Sane(t)
    BY <1>1, <1>2, <2>1 DEF Sane
  <2>. QED
    BY <2>1, <2>2, <2>3
<1>3. ASSUME AddColumn(c) PROVE \E t \in Table : Alter(t) /\ Sane(t) /\ t.rows = table.rows
  <2>1. [table EXCEPT !.columns = @ \cup {c}]
           = [table EXCEPT !.columns = table.columns \cup {c}, !.attached = table.attached,
                           !.texts = table.texts]
    BY <1>1 DEF Table
  <2>2. /\ table.columns \cup {c} \in SUBSET Column /\ table.attached \in SUBSET Attachment
        /\ table.texts \in SUBSET Column
    BY <1>1 DEF Table
  <2>3. \A a \in table.attached : a.kind # "trigger" => a.on \in table.columns \cup {c}
    BY <1>1 DEF Sane
  <2>4. Alter([table EXCEPT !.columns = table.columns \cup {c}, !.attached = table.attached,
                           !.texts = table.texts])
    BY <1>3, <2>1 DEF AddColumn
  <2>5. table.columns \cup {c} # {}
    OBVIOUS
  <2>. QED
    BY <1>2, <2>2, <2>3, <2>4, <2>5
<1>4. ASSUME DropColumn(c) PROVE \E t \in Table : Alter(t) /\ Sane(t) /\ t.rows = table.rows
  <2>1. [table EXCEPT !.columns = @ \ {c}, !.texts = @ \ {c}]
           = [table EXCEPT !.columns = table.columns \ {c}, !.attached = table.attached,
                           !.texts = table.texts \ {c}]
    BY <1>1 DEF Table
  <2>2. /\ table.columns \ {c} \in SUBSET Column /\ table.attached \in SUBSET Attachment
        /\ table.texts \ {c} \in SUBSET Column
    BY <1>1 DEF Table
  <2>3. \A a \in table.attached : a.kind # "trigger" => a.on \in table.columns \ {c}
    BY <1>1, <1>4 DEF Sane, DropColumn
  <2>. QED
    BY <1>2, <1>4, <2>1, <2>2, <2>3 DEF DropColumn
<1>5. ASSUME NEW d \in Column, RenameColumn(c, d)
      PROVE  \E t \in Table : Alter(t) /\ Sane(t) /\ t.rows = table.rows
  <2>. DEFINE columns == (table.columns \ {c}) \cup {d}
              attached == Renamed(table.attached, c, d)
              texts == IF c \in table.texts THEN (table.texts \ {c}) \cup {d} ELSE table.texts
  <2>1. /\ table.attached \in SUBSET Attachment /\ columns \in SUBSET Column /\ columns # {}
        /\ texts \in SUBSET Column
    BY <1>1 DEF Table
  <2>2. [table EXCEPT !.columns = (@ \ {c}) \cup {d}, !.attached = Renamed(@, c, d),
                      !.texts = IF c \in @ THEN (@ \ {c}) \cup {d} ELSE @]
           = [table EXCEPT !.columns = columns, !.attached = attached, !.texts = texts]
    BY <1>1 DEF Table
  <2>3. ASSUME NEW a \in table.attached
        PROVE  LET b == [a EXCEPT !.on = IF @ = c THEN d ELSE @]
               IN  b \in Attachment /\ b.kind = a.kind /\ b.on = (IF a.on = c THEN d ELSE a.on)
    BY <2>1, <2>3 DEF Attachment
  <2>4. attached \in SUBSET Attachment
    BY <2>3 DEF Renamed
  <2>5. \A a \in attached : a.kind # "trigger" => a.on \in columns
    BY <1>1, <2>3 DEF Renamed, Sane
  <2>. HIDE DEF columns, attached, texts
  <2>6. Alter([table EXCEPT !.columns = columns, !.attached = attached, !.texts = texts])
    BY <1>5, <2>2 DEF RenameColumn
  <2>. QED
    BY <1>2, <2>1, <2>4, <2>5, <2>6
<1>6. ASSUME NEW kind \in {"index", "trigger"}, c \in table.columns,
             Alter([table EXCEPT !.attached = @ \cup {[kind |-> kind, on |-> c]}])
      PROVE  \E t \in Table : Alter(t) /\ Sane(t) /\ t.rows = table.rows
  <2>. DEFINE attached == table.attached \cup {[kind |-> kind, on |-> c]}
  <2>1. [table EXCEPT !.attached = @ \cup {[kind |-> kind, on |-> c]}]
           = [table EXCEPT !.columns = table.columns, !.attached = attached, !.texts = table.texts]
    BY <1>1 DEF Table
  <2>2. table.columns \in SUBSET Column /\ attached \in SUBSET Attachment /\ table.texts \in SUBSET Column
    BY <1>1 DEF Table, Attachment
  <2>3. \A a \in attached : a.kind # "trigger" => a.on \in table.columns
    BY <1>1, <1>6 DEF Sane
  <2>. HIDE DEF attached
  <2>. QED
    BY <1>2, <1>6, <2>1, <2>2, <2>3
<1>7. ASSUME NEW gone, Alter([table EXCEPT !.attached = @ \ gone])
      PROVE  \E t \in Table : Alter(t) /\ Sane(t) /\ t.rows = table.rows
  <2>. DEFINE t == [table EXCEPT !.attached = @ \ gone]
  <2>1. t \in Table /\ t.rows = table.rows /\ t.columns = table.columns
        /\ t.attached = table.attached \ gone
    BY <1>1 DEF Table
  <2>2. Alter(t)
    BY <1>7
  <2>. HIDE DEF t
  <2>3. Rows(t) = Rows(table)
    BY <2>1 DEF Rows, Taken
  <2>4. Sane(t)
    BY <1>1, <2>1, <2>3 DEF Sane
  <2>. QED
    BY <2>1, <2>2, <2>4
<1>8. ASSUME CreateTable(c) PROVE \E t \in Table : Alter(t) /\ Sane(t) /\ t.rows = table.rows
  <2>. DEFINE t == [columns |-> {c}, texts |-> {}, attached |-> {}, rows |-> NoRows]
  <2>1. Rows(table) = {} /\ Alter(t)
    BY <1>1, <1>8 DEF CreateTable, Sane
  <2>2. table.rows = NoRows
    BY <1>1, <2>1 DEF Rows, Taken, NoRows, Table
  <2>3. t \in Table /\ Sane(t)
    BY DEF Table, NoRows, Sane, OnePlace, Rows, Taken
  <2>. QED
    BY <2>1, <2>2, <2>3
<1>9. CASE CreateIndex(c)
  BY <1>6, <1>9 DEF CreateIndex
<1>10. CASE CreateTrigger(c)
  BY <1>6, <1>10 DEF CreateTrigger
<1>11. CASE DropIndex(c)
  BY <1>7, <1>11 DEF DropIndex
<1>12. CASE DropTrigger(c)
  BY <1>7, <1>12 DEF DropTrigger
<1>. QED
  BY <1>3, <1>4, <1>5, <1>8, <1>9, <1>10, <1>11, <1>12

-----------------------------------------------------------------------------
(* Steps that read.                                                        *)

\* A request goes on to q, and the tables stay.
LEMMA ReadStep ==
    ASSUME IInv, Read, NEW r \in Request, NEW q \in Work, Go(r, q),
           confirmed' \in SUBSET (confirmed \cup (Row \cap Rows(committed))),
           UNCHANGED <<asked, deleted>>,
           q.at = "shown" => \A i \in RowId : q.seen[i] # None => q.seen[i] <= inserted,
           Names(table, q), Names(committed, q), Lasts(q), NewName(q),
           PageSize <= MaxRows /\ Fetched => Fetches(q)
    PROVE  Keeps
<1>. USE DEF IInv
<1>1. UNCHANGED <<scope, keyed, table, committed, open, inserted>>
  BY DEF Read
<1>2. request' \in [Request -> Work] /\ request'[r] = q /\ \A s \in Request \ {r} : request'[s] = request[s]
  BY DEF Go, Typed
<1>3. Typed'
  BY <1>1, <1>2, TypedAfter DEF Typed
<1>4. Known'
  BY <1>1, <1>2 DEF Known
<1>5. Held'
  BY <1>1 DEF Held
<1>6. Named'
  BY <1>1, <1>2 DEF Named, Names
<1>7. Lasting'
  BY <1>1, <1>2 DEF Lasting, Lasts
<1>8. PageSize <= MaxRows /\ Fetched => Fetched'
  BY <1>1, <1>2 DEF Fetched, Fetches, Whole, Ahead
<1>9. NewNames'
  BY <1>2 DEF NewNames, NewName
<1>. QED
  BY <1>1, <1>3, <1>4, <1>5, <1>6, <1>7, <1>8, <1>9 DEF Keeps

\* A request that becomes idle, or that changes columns, has nothing to keep.
LEMMA NothingToKeep ==
    ASSUME NEW q, q.at \in {"idle", "columns", "rebuild"}
    PROVE  Names(table, q) /\ Names(committed, q) /\ Lasts(q) /\ Fetches(q)
BY DEF Names, Lasts, Fetches, Whole

\* The end of Insert: what is confirmed was found on the readers' side.
LEMMA ReadBackStep ==
    ASSUME IInv, NEW r \in Request, ReadBack(r)
    PROVE  Keeps
<1>1. Typed /\ request[r].at = "stored"
  BY DEF IInv, ReadBack
<1>2. request[r].id \in RowId \cup {None} /\ request[r].row \in Row /\ None \notin Row
  BY <1>1, Kinds, Numbers
<1>3. Found(committed, request[r]) = request[r].row => request[r].row \in Rows(committed)
  BY <1>2, RowsOf DEF Found
<1>4. confirmed' \in SUBSET (confirmed \cup (Row \cap Rows(committed)))
  BY <1>2, <1>3 DEF ReadBack
<1>5. Read /\ Go(r, Idle) /\ UNCHANGED <<asked, deleted>> /\ Idle.at = "idle" /\ NewName(Idle)
  BY DEF ReadBack, Done, Idle, NewName
<1>. QED
  BY <1>4, <1>5, IdleWork, NothingToKeep, ReadStep

\* List: both sides are one, unless a transaction is open.
LEMMA ShowStep ==
    ASSUME IInv, NEW r \in Request, Show(r)
    PROVE  Keeps
<1>. DEFINE q == [at |-> "shown", seen |-> committed.rows, moved |-> open]
<1>1. Typed
  BY DEF IInv
<1>2. q \in Work
  BY <1>1 DEF Typed, Table, Work, Contents
<1>3. \A i \in RowId : committed.rows[i] # None => committed.rows[i] <= inserted
  BY RowsOf DEF IInv, Known
<1>4. Read /\ Go(r, q) /\ UNCHANGED history
  BY DEF Show
<1>5. Names(table, q) /\ Names(committed, q)
  BY DEF Names, IInv, Held
<1>6. Lasts(q) /\ Fetches(q) /\ NewName(q)
  BY DEF Lasts, Fetches, Whole, NewName
<1>7. q.at = "shown" => \A i \in RowId : q.seen[i] # None => q.seen[i] <= inserted
  BY <1>3
<1>. HIDE DEF q
<1>. QED
  BY <1>2, <1>4, <1>5, <1>6, <1>7, ReadStep DEF history

\* Steps after which a request has nothing to keep.
LEMMA PlainStep ==
    ASSUME IInv, NEW r \in Request,
           \/ \E c, d \in Column : ReadColumns(r, c, d)
           \/ ReadAttached(r) \/ GiveUp(r) \/ Exported(r)
    PROVE  Keeps
<1>1. Typed
  BY DEF IInv
<1>. SUFFICES ASSUME NEW q \in Work, q.at \in {"idle", "columns", "rebuild"}, NewName(q), Go(r, q),
                     Read, UNCHANGED history
              PROVE  Keeps
  <2>1. ASSUME NEW c \in Column, NEW d \in Column, ReadColumns(r, c, d)
        PROVE  \E q \in Work : q.at \in {"idle", "columns", "rebuild"} /\ NewName(q) /\ Go(r, q)
    <3>. DEFINE q == [at |-> "columns", columns |-> committed.columns, from |-> c, to |-> d]
    <3>1. q \in Work
      BY <1>1 DEF Typed, Table, Work
    <3>2. NewName(q)
      BY <2>1 DEF ReadColumns, NewName
    <3>. QED
      BY <2>1, <3>1, <3>2 DEF ReadColumns
  <2>2. ASSUME ReadAttached(r)
        PROVE  \E q \in Work : q.at \in {"idle", "columns", "rebuild"} /\ NewName(q) /\ Go(r, q)
    <3>. DEFINE q == [at |-> "rebuild", columns |-> request[r].columns, from |-> request[r].from,
                      to |-> request[r].to, attached |-> committed.attached]
    <3>1. request[r] \in [at : {"columns"}, columns : SUBSET Column, from : Column, to : Column]
      BY <1>1, <2>2, Kinds DEF ReadAttached
    <3>2. q \in Work
      BY <1>1, <3>1 DEF Typed, Table, Work
    <3>3. NewName(q)
      BY <2>2 DEF ReadAttached, IInv, NewNames, NewName
    <3>. QED
      BY <2>2, <3>2, <3>3 DEF ReadAttached
  <2>3. Idle \in Work /\ Idle.at = "idle" /\ NewName(Idle)
    BY IdleWork DEF Idle, NewName
  <2>. QED
    BY <2>1, <2>2, <2>3 DEF ReadColumns, ReadAttached, GiveUp, Exported, Done
<1>2. confirmed' \in SUBSET (confirmed \cup (Row \cap Rows(committed)))
  BY DEF history
<1>. QED
  BY <1>2, NothingToKeep, ReadStep DEF history

\* Exports: all rows are ahead of a new export,
LEMMA StartExportStep ==
    ASSUME IInv, NEW r \in Request, NEW limit \in Limits, StartExport(r, limit)
    PROVE  Keeps
<1>. DEFINE q == [at |-> "export", limit |-> limit, offset |-> 0, got |-> {}, count |-> 0, total |-> 0,
                  must |-> Rows(committed), upset |-> FALSE, broken |-> FALSE]
<1>1. Typed
  BY DEF IInv
<1>2. Rows(committed) \subseteq Row
  BY <1>1, RowsOf DEF Typed, Table
<1>3. q \in Work /\ 0 < limit
  BY <1>2, TableDataAssumption DEF Work, Exports
<1>4. Read /\ Go(r, q) /\ UNCHANGED history
  BY DEF StartExport
<1>5. ASSUME NEW row \in Rows(committed) PROVE Ahead(row, q)
  <2>1. PICK j \in RowId : committed.rows[j] = row /\ row # None
    BY <1>5, RowsOf
  <2>2. Place(committed.rows, j) \in 0..j
    BY PlaceType
  <2>3. j \in Int /\ j <= j /\ \A k \in RowId : k <= j /\ committed.rows[k] # None => committed.rows[k] # None
    BY TableDataAssumption DEF RowId
  <2>4. 1 <= Place(committed.rows, j)
    BY <2>1, <2>3, PlaceGrows
  <2>5. q.offset = 0 /\ q.at # "page"
    OBVIOUS
  <2>. HIDE DEF q
  <2>6. 0 < Place(committed.rows, j)
    BY <2>2, <2>4
  <2>. QED
    BY <2>1, <2>5, <2>6 DEF Ahead
<1>6. Fetches(q)
  BY <1>3, <1>5 DEF Fetches
<1>7. Names(table, q) /\ Names(committed, q) /\ Lasts(q) /\ NewName(q) /\ q.at # "shown"
  BY DEF Names, Lasts, NewName
<1>. HIDE DEF q
<1>. QED
  BY <1>3, <1>4, <1>6, <1>7, ReadStep DEF history

\* those ahead are among the rows that are counted,
LEMMA CountRowsStep ==
    ASSUME IInv, NEW r \in Request, CountRows(r)
    PROVE  Keeps
<1>. DEFINE q == request[r]
            n == [q EXCEPT !.at = "page", !.total = Cardinality(Taken(committed))]
<1>1. Typed /\ q.at = "export" /\ (Fetched => Fetches(q))
  BY DEF IInv, CountRows, Fetched
<1>2. q \in Exports
  BY <1>1, Kinds
<1>3. 1 \in RowId \/ Taken(committed) = {}
  BY TableDataAssumption DEF RowId, Taken
<1>4. Cardinality(Taken(committed)) \in Nat
  BY <1>3, Counted, FS_EmptySet
<1>5. n \in Exports
      /\ n.at = "page" /\ n.offset = q.offset /\ n.got = q.got /\ n.must = q.must /\ n.upset = q.upset
      /\ n.limit = q.limit /\ n.count = q.count /\ n.broken = q.broken
      /\ n.total = Cardinality(Taken(committed))
  BY <1>2, <1>4 DEF Exports
<1>6. Read /\ Go(r, n) /\ UNCHANGED history
  BY DEF CountRows
<1>. HIDE DEF n, q
<1>7. n \in Work
  BY <1>5 DEF Work
<1>8. ASSUME NEW row, Ahead(row, q) PROVE Ahead(row, n)
  <2>1. PICK j \in RowId : committed.rows[j] = row /\ q.offset < Place(committed.rows, j)
    BY <1>8 DEF Ahead
  <2>2. Place(committed.rows, j) <= Cardinality(Taken(committed))
    BY Counted
  <2>. QED
    BY <1>5, <2>1, <2>2 DEF Ahead
<1>9. Fetched => Fetches(n)
  BY <1>1, <1>5, <1>8 DEF Fetches, Whole
<1>10. Names(table, n) /\ Names(committed, n) /\ Lasts(n) /\ NewName(n) /\ n.at # "shown"
  BY <1>5 DEF Names, Lasts, NewName
<1>. QED
  BY <1>6, <1>7, <1>9, <1>10, ReadStep DEF history

\* The export that breaks off need not hold anything.
LEMMA ExportBreaksStep ==
    ASSUME IInv, NEW r \in Request, ExportBreaks(r)
    PROVE  Keeps
<1>. DEFINE q == request[r]
            n == [q EXCEPT !.at = "exported", !.broken = TRUE]
<1>1. Typed /\ q.at \in {"export", "page"}
  BY DEF IInv, ExportBreaks
<1>2. q \in Exports
  BY <1>1, Kinds
<1>3. n \in Exports /\ n.at = "exported" /\ n.broken
  BY <1>2 DEF Exports
<1>4. Read /\ Go(r, n) /\ UNCHANGED history
  BY DEF ExportBreaks
<1>. HIDE DEF n, q
<1>5. n \in Work
  BY <1>3 DEF Work
<1>6. Names(table, n) /\ Names(committed, n) /\ Lasts(n) /\ NewName(n) /\ Fetches(n) /\ n.at # "shown"
  BY <1>3 DEF Names, Lasts, NewName, Fetches, Whole
<1>. QED
  BY <1>4, <1>5, <1>6, ReadStep DEF history

\* and a page that is not the last the limit allows holds all of those that are not
\* ahead of the next one.  It is not longer than it was asked for: if there are rows
\* ahead that were counted, there is a next one.
LEMMA PageBound ==
    ASSUME NEW q \in Exports, OnePlace(committed.rows), PageSize <= MaxRows, q.count < q.limit
    PROVE  LET size == Min({PageSize, q.limit - q.count, MaxRows}) IN
           /\ size \in 1..PageSize /\ size <= q.limit - q.count
           /\ size = PageSize \/ size = q.limit - q.count
           /\ Cardinality(Page(q)) \in Nat /\ Cardinality(Page(q)) <= size
           /\ \A j \in RowId : /\ committed.rows[j] # None /\ q.offset < Place(committed.rows, j)
                               /\ committed.rows[j] \notin Page(q)
                               => q.offset + size < Place(committed.rows, j)
           /\ (\E j \in RowId : committed.rows[j] # None /\ q.offset + size < Place(committed.rows, j))
                 => Cardinality(Page(q)) = size
<1>. DEFINE size == Min({PageSize, q.limit - q.count, MaxRows})
            places == (q.offset + 1)..(q.offset + size)
            page == {j \in Taken(committed) : Place(committed.rows, j) \in places}
            f == [j \in page |-> Place(committed.rows, j)]
            g == [j \in page |-> committed.rows[j]]
<1>1. /\ PageSize \in Nat \ {0} /\ MaxRows \in Nat \ {0} /\ MaxId \in Int /\ q.offset \in Nat
      /\ q.limit - q.count \in Nat \ {0}
  BY TableDataAssumption DEF Exports
<1>2. /\ size \in 1..PageSize /\ size <= q.limit - q.count
      /\ size = PageSize \/ size = q.limit - q.count
  <2>. DEFINE sizes == {PageSize, q.limit - q.count, MaxRows}
  <2>1. \E x \in sizes : \A y \in sizes : x =< y
    BY <1>1
  <2>2. size \in sizes /\ \A y \in sizes : size =< y
    BY <2>1 DEF Min
  <2>. HIDE DEF size
  <2>. QED
    BY <1>1, <2>2
<1>3. Page(q) = {committed.rows[j] : j \in page}
  BY DEF Page
<1>. HIDE DEF size
<1>4. IsFiniteSet(places) /\ Cardinality(places) = size
  <2>. DEFINE a == q.offset + 1
              b == q.offset + size
  <2>1. a \in Int /\ b \in Int /\ a <= b /\ b - a + 1 = size
    BY <1>1, <1>2
  <2>. HIDE DEF a, b
  <2>2. IsFiniteSet(a..b) /\ Cardinality(a..b) = IF a > b THEN 0 ELSE b - a + 1
    BY <2>1, FS_Interval
  <2>3. ~(a > b)
    BY <2>1
  <2>4. IsFiniteSet(a..b) /\ Cardinality(a..b) = size
    BY <2>1, <2>2, <2>3
  <2>. QED
    BY <2>4 DEF a, b
<1>5. page \in SUBSET RowId /\ \A j \in page : committed.rows[j] # None
  BY DEF Taken
<1>6. f \in Injection(page, places)
  BY <1>5, OwnPlace DEF Injection, IsInjective
<1>7. g \in Surjection(page, Page(q))
  BY <1>3 DEF Surjection
<1>8. ASSUME NEW j \in RowId, committed.rows[j] # None, q.offset < Place(committed.rows, j),
             committed.rows[j] \notin Page(q)
      PROVE  q.offset + size < Place(committed.rows, j)
  <2>1. j \notin page /\ j \in Taken(committed)
    BY <1>3, <1>8 DEF Taken
  <2>2. Place(committed.rows, j) \in 0..j
    BY PlaceType
  <2>. QED
    BY <1>1, <1>2, <1>8, <2>1, <2>2
\* A page before the last row is full.
<1>14. ASSUME NEW k \in RowId, committed.rows[k] # None, q.offset + size < Place(committed.rows, k)
      PROVE  f \in Surjection(page, places) /\ g \in Injection(page, Page(q))
  <2>1. k \in Taken(committed) /\ Taken(committed) \subseteq RowId
    BY <1>14 DEF Taken
  <2>2. Place(committed.rows, k) \in 1..Cardinality(Taken(committed)) /\ Cardinality(Taken(committed)) \in Nat
    BY <2>1, EveryPlace
  <2>3. ASSUME NEW place \in places PROVE \E j \in page : f[j] = place
    <3>1. place \in 1..Cardinality(Taken(committed))
      BY <1>1, <1>2, <1>14, <2>2
    <3>2. PICK j \in Taken(committed) : Place(committed.rows, j) = place
      BY <3>1, EveryPlace
    <3>. QED
      BY <3>2
  <2>4. f \in [page -> places]
    OBVIOUS
  <2>5. f \in Surjection(page, places)
    BY <2>3, <2>4 DEF Surjection
  <2>6. \A i, j \in page : g[i] = g[j] => i = j
    BY <1>5 DEF OnePlace
  <2>7. g \in Injection(page, Page(q))
    BY <1>3, <2>6 DEF Injection, IsInjective
  <2>. QED
    BY <2>5, <2>7
<1>. HIDE DEF f, g, page, places
<1>9. IsFiniteSet(page) /\ Cardinality(page) <= size
  BY <1>4, <1>6, FS_Injection
<1>10. IsFiniteSet(Page(q)) /\ Cardinality(Page(q)) <= Cardinality(page)
  BY <1>7, <1>9, FS_Surjection
<1>11. Cardinality(Page(q)) \in Nat /\ Cardinality(page) \in Nat
  BY <1>9, <1>10, FS_CardinalityType
<1>12. Cardinality(Page(q)) <= size
  BY <1>2, <1>9, <1>10, <1>11
<1>13. ASSUME NEW k \in RowId, committed.rows[k] # None, q.offset + size < Place(committed.rows, k)
       PROVE  Cardinality(Page(q)) = size
  <2>1. size <= Cardinality(page)
    BY <1>4, <1>9, <1>13, <1>14, FS_Surjection
  <2>2. Cardinality(Page(q)) = Cardinality(page)
    BY <1>7, <1>9, <1>13, <1>14, FS_Surjection
  <2>. QED
    BY <1>2, <1>11, <1>12, <2>1, <2>2
<1>. QED
  BY <1>2, <1>8, <1>11, <1>12, <1>13 DEF size

\* What an export is, after a page.
Paged(q, n, at, got, count, offset) ==
    /\ n \in Exports /\ n.at = at /\ n.offset = offset /\ n.got = got /\ n.count = count
    /\ n.must = q.must /\ n.upset = q.upset /\ n.limit = q.limit /\ n.broken = q.broken

LEMMA NextPage ==
    ASSUME NEW q \in Exports, NEW at \in {"export", "page", "exported"}, NEW got \in SUBSET Row,
           NEW count \in Nat, NEW offset \in Nat
    PROVE  Paged(q, [q EXCEPT !.got = got, !.count = count, !.offset = offset, !.at = at],
                 at, got, count, offset)
BY DEF Exports, Paged

\* ExportPage: after the page there is nothing left, the limit is reached, or there
\* is a next page.
LEMMA ExportPageStep ==
    ASSUME IInv, NEW r \in Request, ExportPage(r)
    PROVE  Keeps
<1>. DEFINE q == request[r]
            page == Page(q)
            length == Cardinality(page)
            next == page # {} /\ HasMore(q) /\ q.count + length < q.limit
            n == [q EXCEPT !.got = @ \cup page, !.count = @ + length, !.offset = @ + PageSize,
                           !.at = IF next THEN "export" ELSE "exported"]
<1>1. Typed /\ q.at = "page" /\ (Fetched => Fetches(q)) /\ OnePlace(committed.rows)
  BY DEF IInv, ExportPage, Fetched, Sane
<1>2. q \in Exports
  BY <1>1, Kinds
<1>3. PageSize \in Nat /\ page \subseteq Row /\ length \in Nat
  <2>1. page \subseteq Rows(committed)
    BY DEF Page, Rows
  <2>2. Rows(committed) \subseteq Row
    BY <1>1, RowsOf DEF Typed, Table
  <2>3. IsFiniteSet(Row)
    <3>1. Inserts[scope] \in Int /\ 1 \in Int
      BY <1>1, Numbers
    <3>. QED
      BY <3>1, FS_Interval DEF Row
  <2>4. IsFiniteSet(page)
    BY <2>1, <2>2, <2>3, FS_Subset
  <2>. QED
    BY <2>1, <2>2, <2>4, FS_CardinalityType, TableDataAssumption
<1>4. /\ n \in Exports
      /\ n.at = IF next THEN "export" ELSE "exported"
      /\ n.offset = q.offset + PageSize /\ n.got = q.got \cup page /\ n.count = q.count + length
      /\ n.must = q.must /\ n.upset = q.upset /\ n.limit = q.limit /\ n.broken = q.broken
  <2>. DEFINE at == IF next THEN "export" ELSE "exported"
              got == q.got \cup page
              count == q.count + length
              offset == q.offset + PageSize
              m == [q EXCEPT !.got = got, !.count = count, !.offset = offset, !.at = at]
  <2>1. at \in {"export", "page", "exported"} /\ got \in SUBSET Row /\ offset \in Nat /\ count \in Nat
    BY <1>2, <1>3 DEF Exports
  <2>2. n = m
    BY <1>2 DEF Exports
  <2>. HIDE DEF at, got, count, offset, n, q, page, length, next
  <2>3. Paged(q, m, at, got, count, offset)
    BY <1>2, <2>1, NextPage
  <2>. HIDE DEF m
  <2>. QED
    BY <2>2, <2>3 DEF Paged, at, got, count, offset
<1>5. Read /\ Go(r, n) /\ UNCHANGED history
  BY DEF ExportPage
<1>6. next => n.count < n.limit
  BY <1>4
<1>. HIDE DEF n, q, page, length
<1>7. n \in Work
  BY <1>4 DEF Work
<1>8. ASSUME PageSize <= MaxRows, Fetched, Whole(n), NEW row \in n.must \ n.got
      PROVE  n.at # "exported" /\ Ahead(row, n)
  <2>. DEFINE size == Min({PageSize, q.limit - q.count, MaxRows})
  <2>0. q.count < q.limit /\ ~q.upset /\ ~q.broken
    BY <1>1, <1>4, <1>8 DEF Fetches, Whole
  <2>1. Ahead(row, q)
    BY <1>1, <1>4, <1>8, <2>0 DEF Fetches, Whole
  <2>2. PICK j \in RowId : /\ committed.rows[j] = row /\ q.offset < Place(committed.rows, j)
                           /\ Place(committed.rows, j) <= q.total
    BY <1>1, <2>1 DEF Ahead
  <2>3. /\ row # None /\ row \notin Page(q)
        /\ q.offset \in Nat /\ q.total \in Nat /\ q.count \in Nat /\ q.limit \in Nat
    BY <1>1, <1>2, <1>4, <1>8, Numbers DEF Exports, page
  <2>4. /\ size \in 1..PageSize
        /\ size = PageSize \/ size = q.limit - q.count
        /\ q.offset + size < Place(committed.rows, j)
    BY <1>1, <1>2, <1>8, <2>0, <2>2, <2>3, PageBound
  <2>5. length = size
    BY <1>1, <1>2, <1>8, <2>0, <2>2, <2>3, <2>4, PageBound DEF length, page
  <2>. HIDE DEF size
  <2>6. q.count + length < q.limit
    BY <1>4, <1>8 DEF Whole
  <2>7. size = PageSize
    BY <2>3, <2>4, <2>5, <2>6
  <2>8. page # {}
    <3>1. length # 0
      BY <1>3, <2>4, <2>5
    <3>. QED
      BY <3>1, FS_EmptySet DEF length
  <2>9. Place(committed.rows, j) \in 0..j /\ j \in Nat
    <3>1. j \in Nat
      BY TableDataAssumption DEF RowId
    <3>2. Place(committed.rows, j) \in 0..j
      BY PlaceType
    <3>. QED
      BY <3>1, <3>2
  <2>10. HasMore(q)
    <3>1. Place(committed.rows, j) \in Nat
      BY <2>9
    <3>. HIDE DEF Place
    <3>. QED
      BY <1>3, <2>2, <2>3, <2>4, <2>5, <2>7, <3>1 DEF HasMore, length, page
  <2>. QED
    BY <1>4, <2>2, <2>4, <2>6, <2>7, <2>8, <2>10 DEF Ahead
<1>9. PageSize <= MaxRows /\ Fetched => Fetches(n)
  <2>1. n.at \in {"export", "page"} => n.count < n.limit
    BY <1>4, <1>6
  <2>. QED
    BY <1>8, <2>1 DEF Fetches
<1>10. Names(table, n) /\ Names(committed, n) /\ Lasts(n) /\ NewName(n) /\ n.at # "shown"
  BY <1>4 DEF Names, Lasts, NewName
<1>. QED
  BY <1>5, <1>7, <1>9, <1>10, ReadStep DEF history


-----------------------------------------------------------------------------
(* Transactions that are left open, and the step as a whole.               *)

\* The two sides part as they are.
LEMMA LeaveOpenStep ==
    ASSUME IInv, LeaveOpen
    PROVE  Keeps
<1>. USE DEF IInv
<1>1. open' = TRUE /\ UNCHANGED <<scope, keyed, table, committed, request, inserted, confirmed, asked, deleted>>
  BY DEF LeaveOpen
<1>2. Typed'
  BY <1>1, TypedAfter DEF Typed
<1>3. Known' /\ Held'
  BY <1>1 DEF Known, Held
<1>4. Named' /\ Lasting' /\ NewNames'
  BY <1>1 DEF Named, Names, Lasting, Lasts, NewNames, NewName
<1>5. Fetched => Fetched'
  BY <1>1 DEF Fetched, Fetches, Whole, Ahead
<1>. QED
  BY <1>1, <1>2, <1>3, <1>4, <1>5 DEF Keeps

\* Readers see the writer's side: whose rows may come between others.
LEMMA CommitOpenStep ==
    ASSUME IInv, CommitOpen
    PROVE  Keeps
<1>. DEFINE gone == Rows(committed) \ Rows(table)
<1>. USE DEF IInv
<1>1. /\ open /\ open' = FALSE /\ table' = table /\ committed' = table
      /\ UNCHANGED <<scope, keyed, inserted, confirmed, asked, deleted>>
  BY DEF CommitOpen
<1>2. request' \in [Request -> Work] /\ \A r \in Request : Follows(r, gone, Moved, TRUE)
  BY Noted DEF CommitOpen
<1>3. Typed'
  BY <1>1, <1>2, TypedAfter DEF Typed
<1>4. Known'
  BY <1>1, <1>2 DEF Known, Follows
<1>5. Held'
  BY <1>1 DEF Held
<1>6. Named'
  BY <1>1, <1>2 DEF Named, Names, Follows
<1>7. Lasting' /\ NewNames'
  BY <1>1, <1>2 DEF Lasting, Lasts, NewNames, NewName, Follows
<1>8. ASSUME Fetched PROVE Fetched'
  <2>. SUFFICES ASSUME NEW r \in Request, request'[r].at \in {"export", "page", "exported"}
                PROVE  Fetches(request[r])'
    BY DEF Fetched, Fetches, Whole
  <2>. DEFINE q == request[r]
              n == request'[r]
  <2>1. /\ n.at = q.at /\ n.offset = q.offset /\ n.got = q.got /\ n.total = q.total /\ n.must = q.must
        /\ n.limit = q.limit /\ n.count = q.count /\ n.broken = q.broken
        /\ ~n.upset => /\ ~q.upset
                       /\ q.at # "exported" => gone \cup Moved = {}
                       /\ q.at # "page"
    BY <1>2 DEF Follows
  <2>2. Fetches(q)
    BY <1>8 DEF Fetched
  <2>3. ASSUME Whole(n), NEW row \in n.must \ n.got
        PROVE  n.at # "exported" /\ Ahead(row, request[r])'
    <3>0. /\ ~q.upset /\ (q.at # "exported" => gone \cup Moved = {}) /\ q.at # "page"
          /\ q.at \in {"export", "page", "exported"}
      BY <2>1, <2>3 DEF Whole
    <3>1. q.at # "exported" /\ Ahead(row, q)
      BY <2>1, <2>2, <2>3, <3>0 DEF Fetches, Whole
    <3>2. PICK j \in RowId : committed.rows[j] = row /\ q.offset < Place(committed.rows, j)
      BY <3>1 DEF Ahead
    <3>3. q.offset \in Nat /\ row # None
      BY <2>1, <2>3, <3>0, Kinds, Numbers DEF Exports
    <3>4. \A i \in RowId : committed.rows[i] # None => table.rows[i] = committed.rows[i]
      BY <3>0, <3>1 DEF Moved, Taken
    <3>5. Place(committed.rows, j) <= Place(table.rows, j)
      BY <3>2, <3>3, <3>4, StillAhead
    <3>6. Place(committed.rows, j) \in 0..j /\ Place(table.rows, j) \in 0..j
      BY PlaceType
    <3>7. q.offset < Place(table.rows, j)
      BY <3>2, <3>3, <3>5, <3>6
    <3>. QED
      BY <1>1, <2>1, <3>0, <3>1, <3>2, <3>3, <3>4, <3>7 DEF Ahead
  <2>4. n.at \in {"export", "page"} => n.count < n.limit
    BY <2>1, <2>2 DEF Fetches
  <2>. QED
    BY <2>3, <2>4 DEF Fetches, Whole
<1>. QED
  BY <1>1, <1>3, <1>4, <1>5, <1>6, <1>7, <1>8 DEF Keeps

\* The writer sees the readers' side: what it has not, is gone.
LEMMA RollBackStep ==
    ASSUME IInv, RollBack
    PROVE  Keeps
<1>. DEFINE gone == Rows(table) \ Rows(committed)
<1>. USE DEF IInv
<1>1. /\ open /\ open' = FALSE /\ table' = committed /\ committed' = committed
      /\ UNCHANGED <<scope, keyed, inserted, confirmed, asked, deleted>>
  BY DEF RollBack
<1>2. request' \in [Request -> Work] /\ \A r \in Request : Follows(r, gone, {}, FALSE)
  BY Noted DEF RollBack
<1>3. Typed'
  BY <1>1, <1>2, TypedAfter DEF Typed
<1>4. Known'
  BY <1>1, <1>2 DEF Known, Follows
<1>5. Held'
  BY <1>1 DEF Held
<1>6. Named'
  BY <1>1, <1>2 DEF Named, Names, Follows
<1>7. ASSUME NEW r \in Request, request'[r].at = "stored", request'[r].id # None, ~request'[r].touched
      PROVE  committed.rows[request'[r].id] = request'[r].row
  <2>. DEFINE q == request[r]
  <2>1. q.at = "stored" /\ request'[r].id = q.id /\ request'[r].row = q.row /\ ~q.touched /\ q.row \notin gone
    BY <1>2, <1>7 DEF Follows
  <2>2. q.id \in RowId /\ q.row # None
    BY <1>7, <2>1, Kinds, Numbers
  <2>3. table.rows[q.id] = q.row /\ (q.row \in Rows(committed) => committed.rows[q.id] = q.row)
    <3>1. Lasts(q)
      BY DEF Lasting
    <3>2. q.id # None
      BY <1>7, <2>1
    <3>. QED
      BY <2>1, <3>1, <3>2 DEF Lasts
  <2>4. q.row \in Rows(table)
    BY <2>2, <2>3, RowsOf
  <2>. QED
    BY <2>1, <2>3, <2>4
<1>8. Lasting' /\ NewNames'
  BY <1>1, <1>2, <1>7 DEF Lasting, Lasts, NewNames, NewName, Follows
<1>9. Fetched => Fetched'
  BY <1>1, <1>2 DEF Fetched, Fetches, Whole, Ahead, Follows
<1>. QED
  BY <1>1, <1>3, <1>4, <1>5, <1>6, <1>8, <1>9 DEF Keeps

\* A step of something else.
LEMMA Stutter ==
    ASSUME IInv, UNCHANGED vars
    PROVE  Keeps
<1>. USE DEF IInv, vars
<1>1. Typed'
  BY TypedAfter DEF Typed
<1>2. Known' /\ Held'
  BY DEF Known, Held
<1>3. Named' /\ Lasting' /\ NewNames'
  BY DEF Named, Names, Lasting, Lasts, NewNames, NewName
<1>4. Fetched => Fetched'
  BY DEF Fetched, Fetches, Whole, Ahead
<1>. QED
  BY <1>1, <1>2, <1>3, <1>4 DEF Keeps

\* Every step keeps the invariant.
LEMMA Steps ==
    ASSUME IInv, [Next]_vars
    PROVE  Keeps
<1>1. ASSUME NEW r \in Request,
             \/ \E id \in RowId : \E key \in {id, None} : Insert(r, id, key)
             \/ ReadBack(r) \/ Show(r)
             \/ \E i, j \in RowId : Update(r, i, j)
             \/ \E ids \in SUBSET RowId : Delete(r, ids)
      PROVE  Keeps
  BY <1>1, InsertStep, ReadBackStep, ShowStep, UpdateStep, DeleteStep
<1>2. ASSUME NEW r \in Request,
             \/ \E c, d \in Column : ReadColumns(r, c, d)
             \/ ReadAttached(r) \/ Rebuild(r) \/ GiveUp(r)
             \/ \E limit \in Limits : StartExport(r, limit)
             \/ CountRows(r) \/ ExportPage(r) \/ ExportBreaks(r) \/ Exported(r)
      PROVE  Keeps
  BY <1>2, PlainStep, RebuildStep, StartExportStep, CountRowsStep, ExportPageStep, ExportBreaksStep
<1>3. ASSUME DropTable \/ Vacuum \/ LeaveOpen \/ CommitOpen \/ RollBack
      PROVE  Keeps
  BY <1>3, DropTableStep, VacuumStep, LeaveOpenStep, CommitOpenStep, RollBackStep
<1>. QED
  BY <1>1, <1>2, <1>3, ColumnStep, Stutter DEF Next

\* The table is empty, and nothing was asked.
LEMMA Starts == Init => IInv /\ Fetched
<1>. SUFFICES ASSUME Init PROVE IInv /\ Fetched
  OBVIOUS
<1>1. scope \in Scopes /\ keyed \in BOOLEAN /\ committed = table /\ open = FALSE
      /\ request = [r \in Request |-> Idle] /\ inserted = 0
      /\ confirmed = {} /\ asked = {} /\ deleted = {}
  BY DEF Init
<1>2. PICK columns \in {Column} \cup {Column \ {c} : c \in Column} :
           \E attached \in {{}} \cup {{[kind |-> "unique", on |-> c]} : c \in columns} :
              table = [columns |-> columns, texts |-> {}, attached |-> attached, rows |-> NoRows]
  BY DEF Init
<1>3. PICK attached \in {{}} \cup {{[kind |-> "unique", on |-> c]} : c \in columns} :
           table = [columns |-> columns, texts |-> {}, attached |-> attached, rows |-> NoRows]
  BY <1>2
<1>4. /\ columns \in SUBSET Column /\ attached \in SUBSET Attachment
      /\ \A a \in attached : a.on \in columns
  BY DEF Attachment
<1>5. table \in Table /\ table.rows = NoRows
      /\ \A a \in table.attached : a.on \in table.columns
  BY <1>3, <1>4 DEF Table, NoRows
<1>6. Rows(table) = {} /\ Sane(table)
  BY <1>5 DEF Sane, OnePlace, Rows, Taken, NoRows
<1>7. Inserts[scope] \in Nat
  BY <1>1, TableDataAssumption
<1>8. Typed
  <2>1. request \in [Request -> Work]
    BY <1>1, IdleWork
  <2>2. inserted \in 0..Inserts[scope]
    BY <1>1, <1>7
  <2>. QED
    BY <1>1, <1>5, <2>1, <2>2 DEF Typed
<1>9. Known /\ Held
  BY <1>1, <1>6 DEF Known, Held, Idle
<1>10. Named /\ Lasting /\ NewNames /\ Fetched
  BY <1>1 DEF Named, Names, Lasting, Lasts, NewNames, NewName, Fetched, Fetches, Whole, Idle
<1>. QED
  BY <1>1, <1>6, <1>8, <1>9, <1>10 DEF IInv

\* The invariant holds.
LEMMA Inductive == Spec => []IInv
<1>1. Init => IInv
  BY Starts
<1>2. IInv /\ [Next]_vars => IInv'
  BY Steps DEF Keeps
<1>. QED
  BY <1>1, <1>2, PTL DEF Spec

-----------------------------------------------------------------------------
(* What the invariant says of a state, and of a step.                      *)

\* Rows that are in one place each are as many as the rowids they take.
LEMMA AsMany ==
    ASSUME NEW t, OnePlace(t.rows)
    PROVE  Cardinality(Rows(t)) = Cardinality(Taken(t))
<1>. DEFINE f == [i \in Taken(t) |-> t.rows[i]]
<1>1. MaxId \in Int /\ 1 \in Int
  BY TableDataAssumption
<1>2. IsFiniteSet(RowId)
  BY <1>1, FS_Interval DEF RowId
<1>3. Taken(t) \in SUBSET RowId /\ \A i \in Taken(t) : t.rows[i] # None
  BY DEF Taken
<1>4. IsFiniteSet(Taken(t))
  BY <1>2, <1>3, FS_Subset
<1>5. f \in Surjection(Taken(t), Rows(t))
  BY DEF Surjection, Rows
<1>6. f \in Injection(Taken(t), Rows(t))
  BY <1>3 DEF Injection, IsInjective, OnePlace, Rows
<1>. HIDE DEF f
<1>. QED
  BY <1>4, <1>5, <1>6, FS_Surjection

\* Nobody but itself ends what a request is at.
LEMMA NoteKeepsAt ==
    ASSUME Typed, NEW r \in Request, NEW gone, NEW moved, NEW between
    PROVE  Note(gone, moved, between)[r].at = request[r].at
BY Kinds DEF Note

\* What ends a change of a column.
LEMMA Ends ==
    ASSUME Typed, [Next]_vars, NEW r \in Request, request[r].at = "rebuild",
           request'[r].at # request[r].at
    PROVE  Rebuild(r) \/ GiveUp(r)
<1>. DEFINE Same == request'[r].at = request[r].at
<1>1. ASSUME NEW s \in Request, NEW q, request' = [request EXCEPT ![s] = q], s # r PROVE Same
  BY <1>1 DEF Typed
<1>2. ASSUME NEW s \in Request, NEW q, NEW gone, NEW moved, NEW between,
             request' = [Note(gone, moved, between) EXCEPT ![s] = q], s # r PROVE Same
  <2>1. request'[r] = Note(gone, moved, between)[r]
    BY <1>2 DEF Note
  <2>. QED
    BY <2>1, NoteKeepsAt
<1>3. ASSUME NEW gone, NEW moved, NEW between, request' = Note(gone, moved, between) PROVE Same
  BY <1>3, NoteKeepsAt
<1>4. ASSUME request' = request PROVE Same
  BY <1>4
<1>. HIDE DEF Same
<1>5. ASSUME NEW s \in Request, NEW id \in RowId, NEW key \in {id, None}, Insert(s, id, key) PROVE Same
  BY <1>2, <1>5 DEF Insert, At
<1>6. ASSUME NEW s \in Request, NEW i \in RowId, NEW j \in RowId, Update(s, i, j) PROVE Same
  BY <1>2, <1>6 DEF Update
<1>7. ASSUME NEW s \in Request, NEW ids \in SUBSET RowId, Delete(s, ids) PROVE Same
  BY <1>2, <1>7 DEF Delete
<1>8. ASSUME NEW s \in Request, s # r, Rebuild(s) PROVE Same
  BY <1>2, <1>8 DEF Rebuild
<1>9. ASSUME NEW s \in Request, ReadBack(s) \/ (s # r /\ GiveUp(s)) PROVE Same
  BY <1>1, <1>9 DEF ReadBack, GiveUp, Done, Go
<1>10. ASSUME NEW s \in Request, Show(s) \/ (\E c, d \in Column : ReadColumns(s, c, d)) 
              \/ (\E limit \in Limits : StartExport(s, limit))
       PROVE  Same
  BY <1>1, <1>10 DEF Show, ReadColumns, StartExport, At, Go
<1>11. ASSUME NEW s \in Request,
              ReadAttached(s) \/ CountRows(s) \/ ExportPage(s) \/ ExportBreaks(s) \/ Exported(s)
       PROVE  Same
  BY <1>1, <1>11 DEF ReadAttached, CountRows, ExportPage, ExportBreaks, Exported, Done, Go
<1>12. ASSUME NEW c \in Column,
              \/ AddColumn(c) \/ DropColumn(c) \/ (\E d \in Column : RenameColumn(c, d))
              \/ CreateIndex(c) \/ CreateTrigger(c) \/ DropIndex(c) \/ DropTrigger(c)
              \/ CreateTable(c)
       PROVE  Same
  BY <1>4, <1>12 DEF AddColumn, DropColumn, RenameColumn, CreateIndex, CreateTrigger, DropIndex, DropTrigger,
                     CreateTable, Alter
<1>13. ASSUME DropTable \/ Vacuum \/ CommitOpen \/ RollBack PROVE Same
  BY <1>3, <1>13 DEF DropTable, Vacuum, CommitOpen, RollBack
<1>14. ASSUME LeaveOpen \/ UNCHANGED vars PROVE Same
  BY <1>4, <1>14 DEF LeaveOpen, vars
<1>. QED
  BY <1>5, <1>6, <1>7, <1>8, <1>9, <1>10, <1>11, <1>12, <1>13, <1>14 DEF Next, Same

\* The types, as the runs check them.
LEMMA TypesHold == IInv => TypeOK
<1>. SUFFICES ASSUME IInv PROVE TypeOK
  OBVIOUS
<1>1. Typed /\ Sane(table) /\ Sane(committed) /\ (~open => table = committed)
  BY DEF IInv, Held
<1>2. \A t \in {table, committed} :
         /\ Cardinality(Rows(t)) = Cardinality(Taken(t))
         /\ \A a \in t.attached : a.kind # "trigger" => a.on \in t.columns
  BY <1>1, AsMany DEF Sane
<1>3. \A r \in Request : request[r].at \in
         {"idle", "stored", "shown", "columns", "rebuild", "export", "page", "exported"}
  BY <1>1, Kinds
<1>. QED
  BY <1>1, <1>2, <1>3 DEF TypeOK, Typed

-----------------------------------------------------------------------------
(* Theorems.                                                               *)

\* The variables keep their types: a row is in one place on either side of an open
\* transaction, whatever writes the table anew, and an index is on a column that
\* exists.
THEOREM TypeCorrect == Spec => []TypeOK
BY Inductive, TypesHold, PTL

\* A row that was shown is changed or deleted under the rowid it was shown under,
\* and no other in its place: however many requests, scripts and rebuilds come
\* between, unless its rowid was given away.
THEOREM ShownNames == Spec => []ShownIdsStillName
<1>1. IInv => ShownIdsStillName
  BY DEF IInv, Named, Names, ShownIdsStillName
<1>. QED
  BY <1>1, Inductive, PTL

\* What was answered is durable: no roll back of a script's transaction takes back
\* a row that was reported as stored, or brings back one that was reported as
\* deleted outside of it.
THEOREM AnswersHold == Spec => []AnswersDurable
<1>1. IInv => AnswersDurable
  BY DEF IInv, Held, AnswersDurable
<1>. QED
  BY <1>1, Inductive, PTL

\* An export of any length holds every row that was there when it started, unless
\* one was deleted or moved, or came between a count and its page: if it was not cut
\* at its limit or broken off, and the server returns pages as long as exports ask
\* for.
THEOREM ExportsComplete == Spec => []ExportComplete
<1>. DEFINE Inv == IInv /\ (PageSize <= MaxRows => Fetched)
<1>1. Init => Inv
  BY Starts
<1>2. Inv /\ [Next]_vars => Inv'
  BY Steps DEF Keeps
<1>3. Inv => ExportComplete
  <2>1. PageSize <= MaxRows \/ MaxRows < PageSize
    BY TableDataAssumption
  <2>2. IInv => \A r \in Request : request[r].at = "exported" =>
           request[r].count \in Nat /\ request[r].limit \in Nat
    <3>1. IInv => \A r \in Request : request[r].at = "exported" => request[r] \in Exports
      BY Kinds DEF IInv
    <3>. QED
      BY <3>1 DEF Exports
  <2>. QED
    BY <2>1, <2>2 DEF Fetched, Fetches, Whole, ExportComplete
<1>. QED
  BY <1>1, <1>2, <1>3, PTL DEF Spec

\* Changing a column keeps the rows, the values of the columns that are there and
\* were there when it read them, and what is attached to those, whatever was done
\* to the table in between.
THEOREM RebuildsKeep == Spec => RebuildKeeps
<1>. DEFINE Kept(q) ==
          /\ Rows(table') = Rows(table)
          /\ \A k \in table.columns \cap q.columns :
                LET name == IF k = q.from THEN q.to ELSE k
                IN  name \in table'.columns /\ (name \in table'.texts => k \in table.texts)
          /\ \A a \in table.attached \cap q.attached : a.kind # "unique" =>
                \/ a \in table'.attached
                \/ a.on \notin q.columns
                \/ (a.kind = "index" /\ a.on = q.from /\ q.to # q.from)
            A == \A r \in Request :
                    request[r].at = "rebuild" /\ table' # table /\ request'[r].at = "idle" => Kept(request[r])
<1>1. IInv /\ [Next]_vars => A
  <2>. SUFFICES ASSUME IInv, [Next]_vars, NEW r \in Request,
                       request[r].at = "rebuild", table' # table, request'[r].at = "idle"
                PROVE  Kept(request[r])
    BY Zenon
  <2>. DEFINE q == request[r]
              columns == (q.columns \ {q.from}) \cup {q.to}
  <2>1. Typed
    BY DEF IInv
  <2>2. Rebuild(r)
    BY <2>1, Ends DEF GiveUp, Read
  <2>3. table' = [columns |-> columns, texts |-> Texts(q, columns),
                  attached |-> Recreated(q, columns), rows |-> Compacted(table.rows)]
    BY <2>2 DEF Rebuild, Write
  <2>4. table' \in Table
    <3>1. Typed'
      BY Steps DEF Keeps, IInv
    <3>2. scope' = scope
      BY <2>2 DEF Rebuild, Write
    <3>. QED
      BY <3>1, <3>2 DEF Typed, Table, Row
  <2>5. table'.rows = Compacted(table.rows) /\ table'.columns = columns
        /\ table'.texts = Texts(q, columns) /\ table'.attached = Recreated(q, columns)
    BY <2>3
  <2>6. \E t \in Table : t = table'
    BY <2>4
  <2>7. Rows(table') = Rows(table)
    BY <2>5, <2>6, Recopied
  <2>8. \A a \in table.attached \cap q.attached : a.kind \in {"index", "trigger", "unique"}
    BY <2>1 DEF Typed, Table, Attachment
  <2>9. \A a \in table.attached \cap q.attached : a.kind # "unique" =>
           \/ a \in Recreated(q, columns)
           \/ a.on \notin q.columns
           \/ (a.kind = "index" /\ a.on = q.from /\ q.to # q.from)
    BY <2>8 DEF Recreated
  <2>10. q.to = q.from \/ q.to \notin q.columns
    BY DEF IInv, NewNames, NewName
  <2>11. ASSUME NEW k \in table.columns \cap q.columns
         PROVE  LET name == IF k = q.from THEN q.to ELSE k
                IN  name \in columns /\ (name \in Texts(q, columns) => k \in table.texts)
    <3>. DEFINE name == IF k = q.from THEN q.to ELSE k
    <3>1. name \in columns
      OBVIOUS
    <3>2. (IF name = q.to THEN q.from ELSE name) = k
      BY <2>10
    <3>. QED
      BY <3>1, <3>2 DEF Texts
  <2>. QED
    BY <2>5, <2>7, <2>9, <2>11
<1>. QED
  BY <1>1, Inductive, PTL DEF Spec, RebuildKeeps

\* An insertion whose row is read back is confirmed, unless its key was given as
\* NULL, the row was deleted or moved before, or a transaction was left open.
THEOREM InsertsAreConfirmed == Spec => InsertsConfirmed
<1>1. IInv =>
         \A r \in Request : ReadBack(r) =>
            LET q == request[r] IN
            q.row \in confirmed' \/ q.id = None \/ q.touched \/ open
  <2>. SUFFICES ASSUME IInv, NEW r \in Request, ReadBack(r),
                       request[r].id # None, ~request[r].touched, ~open
                PROVE  request[r].row \in confirmed'
    OBVIOUS
  <2>1. request[r].at = "stored"
    BY DEF ReadBack
  <2>2. committed.rows[request[r].id] = request[r].row
    BY <2>1 DEF IInv, Held, Lasting, Lasts
  <2>. QED
    BY <2>2 DEF ReadBack, Found
<1>. QED
  BY <1>1, Inductive, PTL DEF Spec, InsertsConfirmed

=============================================================================
