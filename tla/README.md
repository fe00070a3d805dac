# Litebase: TLA+ models, checks and proofs

Litebase is a Go server that manages many SQLite databases behind an HTTP API:
a dashboard and SQL editor, custom API endpoints, users and sessions, backups
and schedules. This directory models the parts of it whose correctness depends
on order: goroutines that interleave, calls that fail halfway, requests that are
cancelled, and a process that dies between two steps. Source paths below are
relative to `src/backend/internal/` unless they start with `src/`.

## 1. Inventory

| Component | State it keeps | Operations | What is hard | What makes it correct |
|---|---|---|---|---|
| Handle pool (`database/manager.go`, `handle.go`, `readonly.go`) | `m.open`: name to handle; per handle a reference count and a closed flag | `Get`, `Release`, `OpenReadOnly`, eviction, `closeHandle`, `Close` | two mutexes taken one after the other, eviction goroutines, a drain with a deadline | bounded map, exact counts, one owner per handle, drains end |
| Database files and registry (`database/manager.go`) | table `databases`; the files of the data directory | `Create`, `ImportFile`, `Rename`, `Delete`, `ReplaceFile` | two stores without a common transaction; failing calls, cancellation, crashes, concurrent requests | every registered name has its own data; no step but a delete loses data |
| Backups (`backup/service.go`, `crypto.go`) | backup rows, remote objects, temporary files | create, run, restore, delete, open | cancelled runs, safety snapshots, encryption framing | no backup is reported complete that cannot be restored |
| Schedules and retention (`backup/schedule.go`) | schedule rows with `next_run_at` | create, update, due, run, record, retain | two runs overlap; retention deletes by a list it read before; retention against renames | retention keeps the newest; a due schedule runs |
| Job scheduler (`scheduler/scheduler.go`) | jobs, tickers, a wait group | `Start`, `Stop`, run | panics, stop during a run | `Stop` returns after running jobs, a failing job runs again |
| Users and sessions (`auth/`) | users, sessions | login, password change, role change, delete, purge | check-then-act on the last owner, login against revocation, two statements for one change | a session fits its user's present password; a disabled user is signed out; an owner remains |
| API keys (`auth/apikeys.go`) | key rows, grants of endpoints | issue, save, revoke, verify | a key is read by two statements; grants are replaced, and go with endpoints | a call is served only as its key allows; grants are those last saved |
| Custom endpoints (`api/`) | endpoint rows; a cached router | create, update, enable, delete, resolve | the cache is rebuilt outside its lock; conflicts are checked before the insert | a request is served by current routes; routes do not conflict |
| Rate limiter (`middleware/ratelimit.go`) | a bucket per identity | `AllowN`, gc | lazy refill, removal of idle buckets, two limits per request | never more than the burst plus the refill; the wait it names is enough |
| Table changes (`tables/`) | user schema | create, alter, `ModifyColumn` rebuild | columns read before the connection is taken | no column or row is lost by a rebuild |
| SQL editor (`query/`) | none; the pooled connection | split, classify, execute | `BEGIN` without `COMMIT` on a shared connection; scanning SQL without parsing it | splitting agrees with SQLite; what is answered is committed |
| Rows (`rows/`) | none; rowids shown to clients | list, insert, update, delete, export | rowids that are reused or change, a read back on another connection, paging over rows that change | an id names the row it was shown for; a confirmed row is stored; an export is complete |
| Server and middleware (`server/`, `middleware/`) | none shared but the limiter | routing, decoding, checks | | |
| Storage (`storage/`) | a directory or a Drive folder | put, get, list, delete | network | |
| Configuration, logging, responses, dashboard | | | | |

Interactions. Every handler that touches a user database calls `Manager.Get` (or
`OpenReadOnly`), works on the pools of the handle and calls `Release`.
`Rename`, `Delete` and `ReplaceFile` call `closeHandle` first. `backup.Restore`
calls `ReplaceFile` after a safety snapshot; the scheduler starts schedule runs
and the purge of sessions as goroutines. On a signal `serve`
(`src/backend/cmd/litebase/build.go:179`) stops the scheduler, which waits for
every job to return, drains HTTP requests for a grace period and then
`Manager.Close` runs.

`PROJECT.json` lists the hazards with their lines, those that no property
covers yet with the reason.

## 2. Modules

### HandlePool

Models `database.Manager`'s map of open handles. Each client is a goroutine in
`Get` or `OpenReadOnly`; each maintainer is one in `closeHandle` followed by its
file work; eviction goroutines and `Manager.Close` are the sets `evicted` and
`sweep` of handles they still have to close. The jobs of the scheduler are
goroutines that run now and then until their context is cancelled; what they do
is left to other modules.

| State | Code |
|---|---|
| `open` | `m.open` (`NoHandle`: no entry) |
| `status`, `refs`, `dbOf` | `h.closed` and whether the pools are shut, `h.refs`, `h.name` |
| `evicted`, `sweep` | `go h.close()` not finished; `handles` of `Manager.Close` |
| `server` | up; stopping the scheduler after the signal; draining; inside `Close`; closed |
| `job` | whether the goroutine of a job waits for its ticker, runs the job or has returned |
| `pc`, `db`, `mine`, `got` | the goroutine's position, `name`, the `h` that `reopen` opened, the handle found or held |

An action is one critical section of `m.mu` or `h.mu`, or one call made outside
both; that is the grain of the real interleavings. In particular `Get` is
`GetLookup` (under `m.mu`) followed by `GetAcquire` (under `h.mu`), `reopen` is
`OpenHandle`, then one of `PublishLost`, `Publish`, `PublishFull`, then
`Discard`, `Overflow` or `Adopt`; and `closeHandle` is `Detach`, a drain, then
`CloseMark` and `CloseShut`. A shutdown is `ShutdownBegin`, `Stopped` once every
job is gone, `CloseBegin` after the drain or its grace period, and the sweep.
Eviction reads the counts of all handles in one
step: a client holds one handle at a time, so reading them one after the other
allows no other outcome. Handle identities are reused once no
goroutine can reach them. The two pools inside a handle open and shut together;
SQLite itself is not modelled.

### DatabaseFiles

Models the operations that change the `databases` table and the data directory.
Each administrator runs one operation at a time; an action is one file-system
call or one metadata statement.

| State | Code |
|---|---|
| `row` | the `databases` table; a row's value is the data the name stands for, a ghost that lets properties say "its own data" |
| `disk`, `content` | directory entries `name.db`, `.restore-prev`, `.restore-tmp` to inodes, and the inodes' data; `NoData` is a file that is not whole |
| `writer` | who holds the single metadata writer connection across statements (`Rename`, from `BEGIN` to `COMMIT`) |
| `pc`, `db`, `to`, `data`, `fd`, `setAside` | locals; `fd` is the inode a copy is writing to |
| `faults`, `cutOff` | how many calls have failed or crashes happened (bounded by `MaxFaults`); whether a crash, a rename that does not commit after its move (because it was cancelled or because its `COMMIT` failed), or an undo of `ReplaceFile` that fails in its turn, has cut an operation off |

A file is an inode, so a copy keeps writing to its file when another request
renames it, and an open of an existing path truncates or reuses that file. A
failing call is a disjunct of the action that makes it. `TxCancelled` is what
`database/sql` does when the context of a transaction is cancelled: it rolls
back and frees the connection at once, while `Rename` goes on. `RenameCommit` has
three outcomes: it commits, it finds its transaction rolled back, or it fails by
itself; in the last two the file has moved and the row has not. `StatementFails` is
an `INSERT` or `UPDATE` that fails, or is cancelled while it waits. `closeHandle` is
HandlePool's subject: here it succeeds or is cancelled. `Replace` starts a
restore the way `backup.Restore` does, for a registered database with a file.
WAL sidecars are not modelled yet.

### HandlePoolProofs, DatabaseFilesProofs

The theorems about HandlePool and about DatabaseFiles (section 4).

### BackupService

Models `backup.Service`: `Create`, `Restore`, `Delete`, retention and the
schedules, run by requests of administrators and by the due-backups job.

| State | Code |
|---|---|
| `registered`, `data` | the databases that exist and what their files hold |
| `backup`, `artefact` | the `backups` table and the objects in storage, both by backup |
| `schedule` | `backup_schedules`: the settings, and whether `next_run_at` has passed |
| `pc`, `op`, `db` | a goroutine's position, the operation it serves, `databaseName` |
| `id`, `file` | the record `Create` is making, and the temporary copy of a database |
| `src`, `sum`, `todo` | the record `Restore` or `Delete` works on, its checksum as read, the rest of the list |
| `sched`, `set`, `targets`, `queue` | the schedule of a run and its settings as read, the databases to come, the due schedules to come |
| `cancelled`, `faults` | whose context is cancelled; failing calls, damaged objects and crashes, bounded by `MaxFaults` |
| `taken`, `byHand`, `cutOff` | histories: what a snapshot copied, what an administrator asked to delete, which backups an operation broke off on |

An action is one metadata statement or one call to the snapshot, to storage or
to `ReplaceFile`; its failure is a disjunct. The calls nest as in the code:
`Restore` runs the steps of `Create` for its safety snapshot, a run of a
schedule goes through `Create`, retention and its deletes once per database, and
`CreateFailed` and `CreateDone` say where the caller goes on. Values are read
when the code reads them and kept: the settings of a schedule by `DueSchedules`,
the list of `ApplyRetention` once, the record of a restore before its snapshot.
`FinishFails` is the closing `UPDATE` of `Create` that fails: by a fault, or because
the request has been cancelled, when it always fails.

Left out: encryption, the listing, the length of intervals (the next run may
arrive at any time after it was set), what triggered a backup, which provider
stores it, and the `LIMIT 500` of `List`. Assumed: start times are distinct, so a
backup is its start time; names are not changed and a deleted database is not
created again; `ReplaceFile` is atomic, which is DatabaseFiles' subject.

### BackupServiceProofs

The theorems about BackupService (section 4).

### Accounts

Models `auth.Service`'s users and sessions with the handlers and the middleware
that call it. Each request runs one handler; an action is one statement or
transaction.

| State | Code |
|---|---|
| `account`, `session` | the `users` and `sessions` tables; a session also carries the password it was opened with and whether the account had changed before its row was inserted (`late`) |
| `request` | the next statement of a handler and what it has read: the session, the account's role or password, the enabled owners it counted |
| `unrevoked` | history: disabled accounts whose sessions a failure has kept |

`Update` and `Revoke` are the two statements of `UpdateUser`; `Find` and `Count`
are its checks before them, without a transaction. Hashing and tokens are
abstracted to a password being right, addresses and names are left out, and of
the permissions only the owner's to manage users.

### Endpoints

Models the definitions of custom endpoints and the compiled route table.

| State | Code |
|---|---|
| `endpoint`, `name` | the `api_endpoints` and `databases` tables |
| `router` | `s.router`, or `None` after an invalidation |
| `admin`, `client` | a definition that has passed its check and is to be stored, a change that has to invalidate; the table a request has built and not installed |
| `outdated`, `unseen` | histories: the table was installed late or a database has changed under it; a definition was stored after a check that could not see its rival |

A *shape* stands for method, path and operations, and `RoutesOf` for the routes
it serves: two shapes may share a route although the unique index on method and
path allows both. The databases' names change without the route table's knowing,
as the Manager's operations do.

### EndpointsProofs

The theorems about Endpoints (section 4).

### ApiKeys

Models keys, their grants and the requests that present them, up to the
decision; `key` and `grants` are the two tables, `request` is what a call to an
endpoint is doing and has read, and `asked` and `seen` are histories: what was
last saved for a key, and what has held of it since a request arrived.
`VerifyAPIKey` is two actions, `ReadRow` and `ReadGrants`, because it is two
statements on the read pool; `CreateAPIKey` and `UpdateAPIKey` are one
transaction each, which the foreign key may refuse.

### RateLimiter and RateQuota

RateLimiter models the token buckets of one limiter. Time is in seconds and a
token is `Minute` units, so that an identity of capacity `Cap[i]` regains `Cap[i]`
units a second and nothing is rounded; the code's `float64` is exact enough for
quotas of whole requests. `tokens` and `lastSeen` are a bucket's fields
(`None`: no bucket), `now` the clock, `waiting` a request between the two
critical sections of `checkAPIRateLimit`; `told`, `since` and `admitted` belong
to an observer who starts to count at any moment. `Collect` is a tick of `gc`,
with the time the ticker delivered. The capacity of an identity does not change.

RateQuota is the abstract specification: a quota per identity that a second
refills, up to its capacity, and a request takes from. RateLimiter implements it
with `left` mapped to what `AllowN` would find in the bucket now (`Refilled`):
lazy refills and the removal of idle buckets are stutters. `ImplementsQuota` is
checked in the run `api` and proved (section 4).

### SqlText

Models the three scanners that read SQL without parsing it: `SplitStatements`,
`CountPlaceholders` and `stripLiterals` with `hasNamedParameters`, side by side with
SQLite's own lexer, which is modelled from its documentation of tokens. A text is
consumed symbol by symbol, a symbol being a character that matters or a whole word;
a behaviour is one text, of any length. `MayFollow` keeps to texts that SQLite
accepts as far as words like `BEGIN`, `CASE` and `END` are concerned: as keywords
where the grammar has them (`CASE` also in the head of a trigger), and as names
wherever a statement has begun (`begin`, `end`), since SQLite falls back to an
identifier. Parameters come in the kinds that somebody treats apart: `?`, a `?NNN`
out of turn, a name after `:`, `@` or `$`, a name that begins with a digit, and a
`$` within a name.

| State | Code |
|---|---|
| `split`, `count`, `strip` | the flags of the three loops, `beginDepth`, and whether the statement so far mentions `CREATE TRIGGER` and holds any SQL |
| `sqlite` | where SQLite's lexer is, which part of a statement it is in, how many `CASE` are open, and which parameters, by position or by name, `validate.go` may misread after what it met (`unlike`) |
| `odd` | the forms met so far that `SplitStatements` misreads |
| `read` | what each made of the last symbol |

`Odd` says which of the five forms that `SplitStatements` misreads are admitted:
`/*/`, a mention of `CREATE TRIGGER` in a literal or comment, the words with other
white space, `CASE ... END` in the body of a trigger, and `BEGIN` as a name in a
trigger or `END` as one in its body. The properties speak of a text up to the first
of them. The passing run admits none, `sqltext_case` one, and the proofs all.

### TableData

Models what happens to the rows and the schema of one table when requests of row
access, schema changes, the SQL editor and exports meet.

| State | Code |
|---|---|
| `table`, `committed` | the table as the writer connection and as the readers see it: they differ while a script's transaction is open (`open`) |
| `request` | what a request has read and does next: a row's id, the columns and attachments a rebuild has read, the limit and the pages of an export |
| `confirmed`, ... | histories the properties need |

A table is its rows under their rowids, its columns, and what is attached to it:
indexes, triggers and constraints over several columns. `Recreated` is what
`rebuildTable` puts back. The copy of a rebuild names the columns it has read in
double quotes, and SQLite takes a double-quoted name that no column has for a text
(`database/sqlite.go:49` leaves that as it is): `Texts` are the columns that hold
such a text instead of values. `ReadBack` is the read after an insertion that
answers, and `GiveUp` the one that fails; `Page` is what `List` returns of what an
export asks for, and `ExportBreaks` a `List` that fails between two pages. The scopes of a run choose which operations meet; all
pairs that can disturb each other are among them. Tables have an
`INTEGER PRIMARY KEY` or none: views, composite and text keys, renaming a table,
filters and sorting are left out. It is assumed that the driver returns a
connection to the pool with its transaction still open, which
`database/sql` does.

### TableDataProofs

The theorems about TableData (section 4).

### AccountsProofs, ApiKeysProofs, ApiProofs

The theorems about Accounts, about ApiKeys, and about RateLimiter, SqlText and
their composition in MCApi (section 4).

### MCDatabaseFiles, MCBackupService, MCAccounts, MCEndpoints, MCTableData, MCApi

Symmetry sets for TLC and the values of constants that a configuration cannot
write. Goroutines and sessions are interchangeable, and names are when none is
registered at the start; inodes and contents of DatabaseFiles are not, because
fresh ones are chosen with `CHOOSE`. Runs of liveness use none. MCApi puts the
three checks of a call to a custom endpoint into one run: each of its behaviours
is one of RateLimiter, of ApiKeys or of SqlText.

## 3. Runs

| Run | Instance | What it shows |
|---|---|---|
| `pool` | 2 names, 2 clients, 1 maintainer, 2 handles, `MaxOpen` 1, 1 job, shutdown may give up | the five safety invariants; drains and evictions end, and so does a shutdown if the runs of the job do |
| `files_faults` | 2 names, 1 administrator, all operations, cancellation, 1 failing call, statement or `COMMIT`, or a crash | types; rows and files agree; data is only lost by a delete; no torn file is registered |
| `files_renames` | 3 names, 2 of them registered, 2 concurrent renames, 2 failing calls or statements, cancellation | rows and files agree; every request returns |
| `files_rename` | 3 names, 2 renames, cancellation | *refuted*: "Data must survive the rename" |
| `backups_stores` | 1 database, 2 contents, 3 backups, 1 administrator and the job, a schedule that keeps one backup and none that is too old, 1 fault | types; the table and storage agree; retention and a restore leave something to go back to; a restore installs what the backup was taken from |
| `backups_schedules` | 2 databases, 2 schedules of one database each, 1 backup, creates, due runs, changed schedules, dropped databases, cancellation, 1 failing call or crash | a backup does not stay pending unless its request is cancelled; no schedule stays due, whatever the other does |
| `accounts` | 2 users, 2 sessions, 2 passwords, 2 requests, restarts | a session fits its user's password, a disabled user is signed out, the last owner is only lost to a request that saw another; each unless named overlaps happened |
| `endpoints` | 2 endpoints of 3 shapes, 1 database of 2 names, 2 administrators, 2 clients | the route table in use says what the tables say; no two endpoints serve one route; each unless named overlaps happened |
| `tabledata` | 2 requests in 9 scopes, 3 rowids, 2 columns, pages of 1 row, exports of 2 or 3 | shown ids, confirmed rows, exports and rebuilds |
| `tabledata_constraints` | the same, columns only | *refuted*: constraints over several columns "come back with the new definition" |
| `api` | quotas: 2 identities, one of them an endpoint's, minutes of 3 seconds, 9 seconds, 2 requests; keys: 1 key, 2 endpoints, 2 requests; texts: any length, two `CASE` open at a time, no odd forms | the limiter's bound, its `Retry-After` and that it implements RateQuota; grants and decisions; scripts and parameters as SQLite reads them |
| `sqltext_case` | texts with `CASE ... END` in triggers | *refuted*: scripts with semicolons in trigger bodies are not broken |

Bounds. `MaxOpen` 1 with two names makes every second open meet the limit, evict
or fail; two clients are enough to race for one name, to race an eviction and to
lose to another opener, and two handles for one of them to be evicted, drained
or private while the other is cached. The proofs hold for every size. In
DatabaseFiles two names are a source and a target; the third of `files_renames`
lets two renames compete for one target. One fault per behaviour is what the
undo paths are written for, and all that `DataSurvives` can bear: after a crash
between the two renames of a restore the data is only in the set-aside file, and
a second fault, on later requests for the same name, can bury it.
`files_renames` allows two; the proofs that rows and files are in step allow any
number of failing calls, and those of `DataSurvives` one (section 4). Six inodes
and four contents cover both names' files, set-aside and staged copies. In
BackupService three backups are the fewest for which retention that keeps one
has something to delete while a restore takes its safety snapshot, and one
administrator against the job gives every pair of operations the properties are
about; two contents tell a database from its backup. Backups are counted from
the start, so the bound also limits how long a behaviour may create them: at the
bound `Find` fails, as an unreadable table makes it fail. `backups_schedules`
needs two schedules with databases of their own, so that one can fail while the
other is due: with its single backup every run but one fails in `Find`, again and
again, and none of the failing ones may keep the other schedule due. Runs that an
administrator starts are left to `backups_stores`, and `backups_schedules` has one
content, since its properties look at none. In `accounts` two of everything give each operation a rival on the same account and one on another.
In `endpoints` two shapes that overlap and one that does not are what the
conflict check tells apart. In `tabledata` three rowids let an export lose, gain
and keep a row, and two columns are one that is edited and one that is carried
along; a limit of 2 cuts an export of three rows, one of 3 does not. In `api`, nine seconds are three of the shortened minutes, more than the
four seconds after which the collector takes a bucket, and the texts have no
bound: the scanners' states are finite. Deadlock is not checked: a server with
no request to serve, or one that has shut down, rightly stops.

Fairness. In HandlePool a goroutine that can take a step takes it (weak
fairness): Go schedules every runnable goroutine, none of the steps waits on
another goroutine except the drain, and that polls with a ten-second deadline
(`WaitOver` is enabled whether or not the handle is in use). A job whose context is
cancelled returns in the end (strong fairness of `JobGone`): `select` chooses at
random between a ticker that fires and a context that is cancelled. Clients are *not*
required to release, requests need not arrive, no signal need be sent, and the run of
a job need not end. So `DrainTerminates` holds against clients that never finish,
and `ShutdownCompletes` on one condition, which it states: the runs of every job
end. `scheduler.Stop` waits for them (`wg.Wait`, `scheduler/scheduler.go:125`)
without a deadline, before the drain begins, so that a job that does not heed its
context holds the shutdown for ever. Against clients the shutdown needs no condition:
`http.Server.Shutdown` gives up after its grace period (`ShutdownTimesOut`).
In DatabaseFiles fairness of a request's
steps is strong, because a statement waits for the writer connection, which
`database/sql` hands to a waiter each time it is returned; cancellation is
never forced. In BackupService the job and every request under way take their
steps (weak fairness: no step waits for another goroutine), the ticker ticks
(`scheduler.go` runs the job at each), and nobody has to ask for anything, fail
or cancel.

### Where the code and its comments disagree

Three of these have a run that refutes what the code says of itself
(`files_rename`, `tabledata_constraints`, `sqltext_case`). The others were met while modelling; each is a behaviour of the
models, and the properties that pass are stated around it.

* **Eviction against `Get`** (`manager.go:144`, `:199`). `Get` unlocks `m.mu`
  before it acquires the handle; `evictIdleLocked` checks the count and starts
  `close` later. A client can acquire in between and its handle is closed under
  it. What does hold, and is proved: a handle *in the map* is never closing, and
  the count itself is exact.
* **Maintenance with the file open** (`manager.go:207`). Once `closeHandle`
  has emptied the map entry nothing keeps the next `Get` from opening the file
  again, before or during the rename, removal or replacement; and connections of
  `OpenReadOnly` are not counted at all. A request that keeps its handle past the
  deadline loses it, which the drain intends.
* **Two creates of one name** (`manager.go:259`). Both find no file; the second
  `INSERT` is refused and the clean-up removes the file, which is the winner's.
  `ImportFile` has the same clean-up.
* **Cancelled rename** (`manager.go:338-370`). See `TxCancelled` above: the file
  moves although the row does not. Alone this leaves a registered name without
  its file (the "unreachable file" of the comment); with a second rename to the
  same target it overwrites a registered database's file.
* **Rename whose `COMMIT` fails** (`manager.go:370`). The file has been moved, the
  row keeps the old name, and nothing moves the file back.
* **Shutdown behind a job** (`src/backend/cmd/litebase/build.go:204`). `Stop` has no
  deadline; `ShutdownTimeout` covers only the drain of requests after it.
* **Cancelled backup** (`backup/service.go:160-167`). The failure is recorded on the
  request's own context. If that has been cancelled, or its 30 minutes have
  passed, the `UPDATE` fails as well and the row says pending for good.
  `RecordsFinish` is about the other backups.
* **Overlapping restores** (`manager.go:501-507`) share `.restore-tmp` and
  `.restore-prev`; the one that fails removes or restores what belongs to the
  other, and the database ends without a file.
* **Retention against a delete** (`backup/schedule.go:356`). `ApplyRetention`
  lists the backups once and spares the newest of them. If an administrator
  deletes that one while the older ones are being removed, none is left, against
  `src/README.md:148` ("never removes the last remaining backup"), the comment
  at `schedule.go:319` and the hint in the dashboard (`Backups.tsx:497`). What
  does hold, and is proved: whatever runs overlap, retention itself only deletes
  a backup when a newer one is there or was deleted by hand.
  (`schedule.go:318` says only scheduled and manual backups are considered; the
  code considers safety snapshots too, and so does the model.)

* **Two owners at once** (`auth/users.go:258`). `UpdateUser` and `DeleteUser`
  count the enabled owners in one statement and change the account in a later
  one, so two owners who demote, disable or delete each other are both let
  through, and nobody is left who can manage users, against the comment at
  `users.go:255`. `LastOwnerGuarded` says what does hold.
* **Late route table** (`api/store.go:316`). `getRouter` lists the endpoints
  outside its lock and installs what it built whenever no table is there, also
  after a change has invalidated the older one; the change takes effect only
  with the next one, although the table is "rebuilt whenever a definition
  changes" (`store.go:33`). Renaming or deleting a database invalidates nothing.
* **Key read in halves** (`auth/apikeys.go:223`). A key that is being widened
  from some endpoints to all of them is read as one that covers neither, and the
  request is refused. The other direction is safe: what is served was allowed at
  some moment of the request, half by half (`AdmittedAsGranted`).
* **Constraints over several columns** (`tables/rebuild.go:97`, `:165`).
  `rebuildTable` writes the new table from its columns, so a `UNIQUE (a, b)`,
  whose index has no SQL, is dropped, against the comment.
* **Stored rows reported as failed** (`rows/service.go:435-445`). `Insert` reads the
  row back, and what that read returns is the answer: if it fails, because the
  request was cancelled or the key has changed, the stored row is reported as failed.
  So is one whose key was given as `NULL`: it got a rowid, and is not found under its
  key. `InsertsConfirmed` is about reads that succeed.
* **Rebuild from a stale reading** (`tables/rebuild.go:35`, `:138-150`). A column that
  was added since the rebuild read the table is lost. One that was renamed or dropped
  comes back under its old name, with that name as a text in every row, because it
  is selected in double quotes; the values under the new name are lost.
  `RebuildKeeps` is about the columns that were there both times.
* **Exports that leave rows out** (`server/handlers_rows.go:189-198`, `:238-243`,
  `rows/service.go:106`). An export asks for pages of 1000 rows and advances by as
  many, but `List` returns no more than `max_query_rows` (5000 unless configured;
  any positive number is accepted): below 1000 the rows between are skipped. It stops
  at its limit (100000 unless asked otherwise), and when a `List` fails after the
  first page; either way the file ends as if it were complete, JSON with its `]`.
  `ExportComplete` excepts these.
* **`CASE` and names in a trigger** (`query/split.go:119-128`). The `END` of an
  expression is taken for the end of the body, and the next semicolon cuts the
  trigger; so is a column named `end`, and one named `begin` makes the body last too
  long. `SplitStatements` also misses `CREATE TRIGGER` written with more than one
  space, takes a mention of it in a comment for one, and reads `/*/` as a whole
  comment.
* **Parameters that are not found** (`api/validate.go:103`, `:177`).
  `CountPlaceholders` ignores markers in "string literals, quoted identifiers or
  comments" but does not know backticks, in which SQLite quotes identifiers, too, and
  counts each `?NNN` although SQLite binds as many as the largest number;
  `stripLiterals` knows neither backticks nor brackets. `hasNamedParameters` wants a
  letter or an underscore after the marker, so it overlooks `:1`, `@1` and `$1`, and
  takes the `$` within a name for one. `ParametersAsBound` leaves statements with
  these out.

Two consequences the model shows besides: a `closeHandle`
cancelled while it drains (`manager.go:222`) leaves a handle nobody will close,
and a delete of a name that is *not* registered still removes its file
(`manager.go:388`), which after an interrupted rename is another row's data;
`DataSurvives` exempts exactly that step.

## 4. Proofs

`HandlePoolProofs` proves, for any finite sets of names and goroutines, any set
of handles and any `MaxOpen` greater than zero (`PoolAssumption`):

* `TypeCorrect`: `Spec => []TypeOK`
* `CachedUsable`: `Spec => []CachedHandleUsable`
* `OneOwner`: `Spec => []SingleOwner`
* `RefsExact`: `Spec => []RefsMatchHolders`
* `Bounded`: `Spec => []CacheBounded`

The argument. `CachedHandleUsable` is not inductive: that a published handle is
open needs that its opener had it open, that no eviction, drain or shutdown
still works on it, and that a fresh identity is one that nobody has. `IInv`
adds these: `Locals` (a goroutine's `mine` and `got` are handles where it uses
them), `OwnedStatus` (a private handle is open and belongs to its opener's name,
a draining one is open, one being shut is closing, an evicted one is not closed
yet) and `Disjoint` (map, openers, maintainers, `evicted` and `sweep` share no
handle). `IInvInit` and `IInvStep` show it inductive, with one step per action;
`Invariance` concludes. `SingleOwner` follows from `Disjoint`.

The count of a handle equals the cardinality of the set of clients that hold it,
so `RefsStep` needs the three lemmas on how that set changes: `GainHolder`,
`LoseHolder`, `KeepHolders`, over `HoldersFinite`. The bound needs that eviction
only removes entries (`CacheShrinks`) and that publishing adds one to a map
that has room (`PublishFits`).

`BackupServiceProofs` proves, for any sets of databases, contents, requests,
schedules and settings and any bounds on backups and faults
(`BackupAssumption`):

* `TypeCorrect`: `Spec => []TypeOK`
* `NewestSpared`: `Spec => RecoveryPointKept`
* `WayBackLeft`: `Spec => RestoreLeavesWayBack`
* `StoresMatch`: `Spec => []StoreMatchesRows`
* `RestoredAsTaken`: `Spec => RestoredIsTheBackup`

The argument. The second and the third are properties of a step whose reason lies many steps back:
the list a run made of the backups, or the safety snapshot of a restore. The
invariant `NewestKept` carries that reason along. It says that a completed
backup has one at least as new *kept* for its database (completed and stored,
or asked for by an administrator's delete, `KeptOrByHand`), that each backup a
run is going to delete has a newer one kept, and that a restore past its
snapshot has one kept that is at least as new as the snapshot. It is stable by
the lemma `StillKept`: if a backup is kept, then after any step it or a newer
one is. The only step that could break it is a run that unlinks the backup in
question, and that backup then is doomed, so it has a newer one kept. That
needs, and `IInv` adds: `Apart` (backups under way are different and unfinished,
so a finished row is not finished again), `DoomedOK` (what a run is going to
delete is a completed backup of its database, or already gone), `RowOK` (a
backup under way keeps its row, and once stored stays stored, unless deleted by
hand), and the shapes of locals and data (`LocalsOK`, `ContentOK`). `NewlyCompleted`,
`NewlyDoomed` and `NewlyFetching` say where new obligations of `NewestKept` come
from. `NewestSpared` and `WayBackLeft` follow from its last two conjuncts.

`RestoredAsTaken` needs what lies between a snapshot and a restore. `TakenOK` says
that the copy a create uploads and the checksum its row records are what its
snapshot took, which `Apart` protects from other creates; `RestoreOK` that the
backup being restored was begun before the restore's own snapshot and is
finished, so that nobody writes its row again, and that the file to be installed
has the recorded checksum. `StoresMatch` is inductive in the form `StoresAgree`,
which looks at a backup from its upload on (`Completing`) until the end of a
deletion (`Unlinked`): in between, the object and the row are one statement
apart, and the invariant names whose statement it is.

`DatabaseFilesProofs` proves, for any sets of names, files, contents and
administrators and any number of failing calls, statements and `COMMIT`s (`FilesAssumption`), with
`Disjoint` saying that no two requests work on one name at once, unless all of
them rename:

* `TypeCorrect`: `Spec => []TypeOK`
* `StoresInStep`: `Spec /\ []Disjoint => []RegisteredIntact`
* `NeverHalf`: `Spec /\ []Disjoint => []NeverHalfRegistered`
* `OneAdministrator`: one administrator needs no `Disjoint`
* `RenamesInStep`: nor do renames, however many compete for the same names
* `DataKept`: `Spec /\ []Disjoint => [][~cutOff => \A n \in Registered' : Whole(n)']_vars`

The hypothesis is the manager's, not the proof's: it has no lock over a name, and
two creates or two restores of one name do harm (see above), so that the
conclusion is false without it. `OneAdministrator` and `RenamesInStep` are two
ways in which it is met, the second because the writer connection is held from
the `UPDATE` of a rename to its `COMMIT`.

The argument. `RegisteredIntact` speaks of the moments between requests; the
invariant `InStep` says what holds within them. `Making`, `Moving` and `Restoring`
give, step by step, what a request has made of its name: that there is no row
until the file holds the data, that the old row is there while the file moves,
that a restore has the original aside or the replacement in place. `Backed` says
that a registered name has its data in its file unless a request is `Away` with
it. `Injective` (no two paths are one file) is what keeps a copy from writing
into another database. A step touches the paths of the names it works on and no
other (`Frame`), so with `Disjoint` other requests keep what they have in hand
(`OneName`, `Here`), and each operation has one lemma (`CreateKeeps`,
`DeleteKeeps`, `RenameKeeps`, `ReplaceKeeps`). `InStep` says nothing once `cutOff`
is set, which a crash does, a rename that does not commit after its move and an undo
that fails. `DataKept` goes one step further, to the state the first of them leaves: the data of every registered name is whole
somewhere.

What the requests after that do with what it left is the subject of `DataSurvives`,
which has theorems of its own, with `Exclusive` saying that no two requests,
renames included, work on one name at once:

* `DataLasts`: `Spec /\ [](Exclusive /\ faults <= 1) => DataSurvives`
* `OneAdministratorDataLasts`: one administrator and `MaxFaults <= 1` need no
  hypothesis; the run `files_faults` is such an instance

Requests and transactions may be cancelled any number of times; the one fault may
be a failing call or a crash, at any point, with any number of requests under way.
Both hypotheses are needed. A second fault can bury an original that is only in
the set-aside file: after a crash between the two renames of a restore, a create
of the same name whose removal of its file fails leaves that file under the name,
and the next restore sets it aside over the original. Of two creates of one name
the loser removes the winner's file.

The invariant `Safe` says nothing of the rows and files being in step, and so
holds after the fault too. `Placed` is about names: the data of a registered name
is in no staged file, no other row, and no file of another registered name
(`OwnPlaces`), and an original that is set aside outside a restore's install, which
takes a fault, has no file beside it but one that a create is putting there and
will remove (`Aside`). `Underway` is about requests: the data they bring is new and
only where they put it (`Fresh`), and how far they are with a create (`Placing`), a
rename with its transaction or without (`Carrying`) and a restore (`Swapping`).
`Elsewhere` is the frame: a step moves data only from the names it works on
(`Gains`, `Rows`), so it need only look at those. Each operation has its lemma
(`CreateSafe`, `DeleteSafe`, `RenameSafe`, `ReplaceSafe`, `ArriveSafe`), which also
shows that its steps lose no data (`Lasts`), except `DeleteUnlink`. `CrashSafe` is
where the count of faults matters: the first finds every original that is set aside
with nothing under its name.

`ApiProofs` proves of the limiter, for any identities, capacities, length of the minute
and collector that waits at least a minute (`GcAssumption`; the code waits ten):

* `TypeCorrect`: `Spec => []TypeOK`
* `BurstBounded`: `Spec => []NoDoubleBurst`
* `RetryEnough`: `Spec => []RetryHonoured`
* `Refinement`: `Spec => ImplementsQuota`

The argument. All four are about `Refilled(i)`, what `AllowN` would find in a
bucket: charging takes one request from it (`StoreLeaves`), time adds `Cap[i]` up to the
capacity (`TickLeaves`), and the collector leaves it alone (`CollectLeaves`), because a bucket idle for more
than `GcAfter >= Minute` seconds is full again. `NoDoubleBurst` is inductive on
that: what was admitted and what is left never exceed a full bucket and what has
flowed in. For `RetryHonoured` the invariant `ToldEnough` relates the time a
caller was told to the amount still missing, and the rounding of the wait is a
lemma on division. `Refinement` maps every action to `Refill`, `Take` or a
stutter.

`ApiKeysProofs` proves, for any keys, endpoints, requests and saved forms:

* `GrantsOfTheLastSave`: `Spec => []GrantsAsSaved`
* `NoneServedUnpermitted`: `Spec => []AdmittedAsGranted`

The argument. `GrantsAsSaved` is inductive once grants are typed: a save replaces
both sides, and the deletion of an endpoint takes it from both. `AdmittedAsGranted`
is not: a request is admitted by grants that are read after the row. `IInv` adds
that what holds of a request now has been seen of it (`FactsSeen`), that a request
whose row has been read was usable then if the scopes it read allow it
(`VerifiedWasUsable`), and that a key that is not issued has no grants
(`NoneUnissued`), so that grants found later are those of an issued key.

`ApiProofs` proves of the scanners, for texts of any length, any odd forms in them and
any nesting of `CASE`:

* `ScriptsCut`: `ApiSpec => []CutWhereStatementsEnd`
* `ParametersFound`: `ApiSpec => []ParametersAsBound`

The argument. As long as a text has none of the odd forms (`Agreed`), `Joint` says
where the scanners of the code are when SQLite's lexer is somewhere. `SameScan`:
`SplitStatements` is at the same place, except that it takes the `*` which opens a
comment for the comment's first character, and SQLite does not. `SameStatement`: it
knows whether there is a statement, and its `beginDepth` is 1 in the body of a
trigger and 0 elsewhere, although it counts words and SQLite parses; that is true
because a `CASE` that is open is in no body, and because a `BEGIN` or an `END` that is a
name is in no place where it counts (`Admissible`). `SameLiterals`: the scans for
parameters are where SQLite is until the statement has a literal they do not know,
and `sqlite.unlike` remembers those. `ConsumeKeeps` and `FinishKeeps` show that each
symbol keeps `Agreed`, one lemma for each part, and that what it becomes is the same
for both (`ReadAlike`).

By the lemma `Composition` each behaviour of the run `api` is one of the limiter, one
of the keys and one of the scanners, so that the theorems hold of the whole, as
`ScriptsCut` and `ParametersFound` say and

* `KeysGranted`: `ApiSpec => []GrantsAsSaved`
* `OnlyAdmitted`: `ApiSpec => []AdmittedAsGranted`

which bring over the two of `ApiKeysProofs`.

`AccountsProofs` proves, for any users, sessions, requests, passwords and changes
(`AccountsAssumption`):

* `PasswordFits`: `Spec => []SessionFitsPassword`
* `DisabledOut`: `Spec => []DisabledSignedOut`
* `OwnerGuarded`: `Spec => LastOwnerGuarded`

The argument. `Effect` lists the ten things a step can do to the two tables, and
`NextEffect` shows that there are no others; types, passwords and origins of
sessions are then a case each. `IInv` adds the foreign key (`Owned`), without
which a session could outlive its account and meet another one, and what a
request knows at each statement (`Known`), the last part of which is that whoever
is about to take away an owner has counted two. `SessionFitsPassword` is then
inductive: a change of a password takes the sessions along in one transaction,
and a sign-in that comes after it is late by definition. For `DisabledSignedOut`,
`NewlyDisabled` shows that who disables an account is about to revoke, and
`ExcusedKept` that the excuse ends with the sessions. `LastOwner` is a
contradiction of cardinalities: if all the owners there were are the one that
goes, the request counted one.

`EndpointsProofs` proves, for any endpoints, shapes, databases, names,
administrators and clients (`EndpointsAssumption`):

* `NoHiddenConflict`: `Spec => []ConflictsOnlyUnseen`
* `RouterIsCurrent`: `Spec => []RouterCurrent`

The argument. That no two endpoints conflict is not inductive: what is about to
be stored has passed a check some steps back. `FreshClear` carries the check
along: a definition nobody's store has made stale still conflicts with no other
endpoint, since deleting and switching endpoints only takes routes away
(`FewerConflicts`). `RouterCurrent` is inductive with the types: every change of
the tables leaves its administrator about to invalidate, except a database's
change of name, which the property excuses.

`TableDataProofs` proves, for any requests, rowids, columns, scopes and numbers of
rows (`TableDataAssumption`):

* `TypeCorrect`: `Spec => []TypeOK`
* `ShownNames`: `Spec => []ShownIdsStillName`
* `AnswersHold`: `Spec => []AnswersDurable`
* `RebuildsKeep`: `Spec => RebuildKeeps`
* `InsertsAreConfirmed`: `Spec => InsertsConfirmed`
* `ExportsComplete`: `Spec => []ExportComplete`

The argument. Each of these meets the same two difficulties: rows get other
rowids, and the writer and the readers see two versions of the table while a
script's transaction is open. `Rewrites` answers the first: it says of any statement
which rows leave, which may be anywhere, that the others stay, and that at most a
new one comes. `Rewritten` shows that what is described so keeps the invariant, and
each statement is shown to be so described. For those that number the rows anew
this is `NumberedKeeps`, which rests on lemmas about places: rows have different
places (`OwnPlace`), and places grow with the rows before them (`PlaceGrows`). For
`Insert` it is `LastRow`: the next rowid is behind all others.

The second is met by an invariant that speaks of both versions. `Held` says that
what only readers see was deleted, and that what was confirmed or reported as
deleted is so for both; `Named`, that a rowid shown to a client fits both;
`Lasting`, that an untouched row is under its key for the writer, and for readers
if they see it. Committing and rolling back then replace one version by one of
which the same is known. `Known` (rows are numbered as they come) keeps a new row
apart from all that was shown or deleted. `Fetched`, for the exports, says that a
row they still owe is ahead of the offset and among the rows counted; `Exports` that
an export below its limit asks for whole pages; `PageBound` that such a page takes all
places up to the next offset, if the server returns as many rows. For the rebuild
`NewNames` says that a column gets a name none of the columns read has, so that
different columns keep different names, and `EveryPlace` that none of the rows is
lost in numbering them anew.

Only model-checked: all liveness (fairness and `ENABLED` are out of the prover's
reach).

## 5. Plan

What section 2 describes is done. What is left, in this order:

1. **BackupService composed** with the files: renames and reused names under a
   restore or retention; and DatabaseFiles with WAL sidecars, which a restore or
   a crash may leave next to another file.
2. **HandlePool composed** with the files: `Get` checks that a file exists and
   opens it later, and so creates an empty one after a delete (`manager.go:152`).
3. **Cancellation of a job**: what a due backup leaves when the shutdown cancels it.
4. **Pure algorithms**: route ordering and matching, the conversion of
   parameters, the framing of encrypted backups.

## 6. Not modelled

The dashboard, configuration, logging, HTTP encoding, static files, settings, the
SQL text of filters and of schema statements, introspection for display,
migrations, identifier syntax and value conversion, and the transport to local or
Drive storage: they are sequential, keep no shared state or are input and output
only. Of the scheduler HandlePool has the goroutines and the wait of `Stop`,
BackupService and Accounts what the jobs do.
