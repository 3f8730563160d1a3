# ctlstore, specified in TLA+

ctlstore distributes a slowly changing relational data set to every host of a
fleet. Writers send mutations to the *executive*, which writes them to a central
MySQL database (ctldb) and records every statement in a ledger table. On each
host a *reflector* tails the ledger and replays it into a SQLite file, the LDB,
which readers on the host query directly. A *supervisor* archives an LDB from
which new hosts bootstrap, and a *changelog* file tells other processes of the
host which rows changed.

This directory holds the TLA+ modules that model the program, the TLC
configurations that check them and the TLAPS proofs about them. `PROJECT.json`
maps every definition to the lines it stands for.

## Inventory

| Component | State | Operations | Talks to |
|---|---|---|---|
| Executive (`pkg/executive`, `pkg/ctldb`, `pkg/sqlgen`) | ctldb: family tables, `ctlstore_dml_ledger`, `mutators`, `locks` | Mutate, CreateTable, AddFields, ClearTable, RegisterWriter, SetWriterCookie, family and limit requests | MySQL; one goroutine per HTTP request |
| Writer rate limiter (`db_limiter.go`, `pkg/limits`) | `writer_usage`, `max_writer_rates`, cached limits | `allowed` inside Mutate, refresh, deletion of old usage, limit requests | MySQL, in Mutate's transaction |
| Table sizer (`table_sizer.go`) | cached sizes and limits | refresh each minute, `tableOK` | MySQL; called by `allowed` |
| Reflector (`pkg/reflector`, `pkg/ldbwriter`) | LDB file with its sequence tracker, source buffer and cursor, open SQLite transaction | block query, apply, commit, abort, restart | reads the committed ledger; writes the LDB; callbacks |
| Change capture (`ldb_callback_writer.go`, `pkg/sqlite`) | change buffer filled by the pre-update hook | add, pop, callbacks | between LDB writer and changelog |
| Changelog (`changelog_callback.go`, `pkg/changelog`, `pkg/logwriter`, `pkg/event`) | file, its rotation, entry numbers; reader position, channel, previous number | number and write an entry, rotate; open, read, wait, `Next` | reflector process writes, other processes read; fsnotify |
| Reflector control and supervisor (`reflector_ctl.go`, `pkg/supervisor`) | running flag, snapshot uploads | start, stop, close, snapshot, checkpoint, upload | channels between goroutines; S3 |
| Bootstrap (`reflector.go`, `download.go`) | LDB file, temporary file | boot, download attempts, rename, start with a new LDB | S3, the supervisor's archive |
| LDB reader (`ldb_reader.go`, `ldb.go`, `rows.go`) | global reader, primary key cache, prepared statements, a read-write lock | Reader, GetRowByKey, GetRowsByKeyPrefix, Ping, GetLastSequence, Close | LDB file; goroutines share one reader |
| Website (`website/src`, `docs/service-worker.js`) | service worker registration, tabs; browser history | register, unregister, check, reload; links, redirect | browser, HTTP; react-router |
| HTTP endpoint, sidecar, heartbeat, ledger monitor, global statistics | small, per component | see PROJECT.json | executive, LDB reader |

Hard behaviours: the executive's requests interleave between any two round trips
and fail after any of them, while `AUTO_INCREMENT` hands out sequences at the
INSERT and shows them at the commit; control requests (CreateTable, AddFields,
ClearTable) run DDL on another connection than the transaction that logs it and
take no ledger lock; the reflector may die anywhere inside a ledger transaction
that spans several of its own queries; the changelog is deleted under its readers;
the supervisor coordinates five kinds of goroutines through unbuffered channels
with timeouts; a host may die while it downloads its LDB; goroutines that share a
reader give up its lock to fill a cache and go on with what they read before; the
tabs of a browser share one service worker. The list of hazards in `PROJECT.json` gives each at its line with
the properties aimed at it, and says where a property exempts or assumes away the
hazard's own case.

What makes the system correct:

* **executive**: the rows of a mutation are contiguous among mutations, bracketed,
  and appear in sequence order; a compared cookie is still the writer's at commit;
* **pipeline**: the LDB is always what a prefix of the ledger, cut between
  transactions, produces; it never goes back; it catches up; then it equals ctldb;
* **limiter**: what a writer mutates in a period stays within its limit, and it is
  charged for exactly that;
* **supervisor**: nobody writes the file that is being archived; the reflector always runs
  again; shutdown ends;
* **changelog**: an iterator that lost an entry says so, and it catches up;
* **change feed**: a client's copy of a row that is out of date is about to be dropped;
* **bootstrap**: what is at LDBPath is never part of a download; a host comes up once
  there is a snapshot;
* **reader**: locks come in pairs, caches are never lost or read too early, calls return;
* **website**: notices are true, no reload loop, links lead where they say.

## Modules

| Module | Models |
|---|---|
| `Ledger` | statements, databases, the effect of a statement, ledger rows |
| `Executive` | `dbExecutive`: handlers with their open transactions, ledger lock, cookies |
| `Reflector` | `sqlDmlSource`, `shovel`, `SqlLdbWriter`, `Reflector.Start` |
| `Ctlstore` | `Executive` and `Reflector` composed; the pipeline's properties; the refinement mapping |
| `ReplicatedStore` | abstract specification: a log of transactions and a copy that takes them in one by one |
| `MCExecutive`, `MCCtlstore` | symmetry for TLC |
| `Supervisor` | `ReflectorCtl` and `supervisor` |
| `Limiter` | `dbLimiter.checkWriterRates` and its surroundings |
| `Bootstrap` | `ReflectorFromConfig`, `bootstrapLDB`, `S3Downloader`; extends `Supervisor` |
| `Changelog` | `ChangelogCallback`, `SizedLogWriter`, `fileChangelog`, `Iterator` |
| `ChangeFeed` | pre-update hook, `CallbackWriter`, `ChangelogCallback`, a client; extends `Reflector` |
| `LdbReader` | `Reader` and `LDBReader` |
| `ServiceWorker` | `serviceWorker.js`, `index.js`, the worker in `docs/` |
| `Router` | `App.js`, `Nav`, `GettingStarted` |
| `LedgerProofs` | lemmas about databases, `Replay`, `OrderBySeq` and `MaxSeq` |
| `CtlstoreProofs` | theorems about the executive and the pipeline |
| `BootstrapProofs` | theorems about `Supervisor` and `Bootstrap` |
| `LimiterProofs`, `ChangelogProofs`, `ChangeFeedProofs`, `LdbReaderProofs` | theorems about the module each is named after |
| `WebsiteProofs` | theorems about `ServiceWorker` and `Router` |

Definitions whose names end in a description of a mistake, each marked "Mutant",
stand directly before the definition they distort; nothing uses them in the
specifications. They show that the properties depend on the code.

### Ledger and Executive

A statement, SQL text in the code, is a record with what decides whether the text
runs and what it changes: kind, table, key, value and the columns it names. A
table exists when it has columns. `ledger` is the set of committed rows; the field
`txn` names the ctldb transaction of a row and exists for the properties only.

Each handler of `Executive` has a record `req[h]`: where it is, the statements it
has still to log, the ledger rows and table rows its open transaction has written.
`MutateStart` is everything up to `BeginTx` (the columns of the tables are read
here and used later, as in the code), `MutateLock` the UPDATE of `locks` and of
`mutators`, `MutateAppend` one execution and its ledger INSERT, `MutateCommit` the
commit. Control requests are `ControlExec` (the DDL on a connection of its own),
`ControlLog`, `ControlCommit`; AddFields repeats them for each field. `Rollback`
may end any request after any step. What MySQL does is modelled from how the code
uses it and marked external in the map: row locks until the end of the
transaction, DELETE and ALTER that wait for transactions that wrote to the table.

### Reflector and Ctlstore

`shovel` holds one instance of source, shovel and writer: cursor, buffer, last
sequence, open SQLite transaction with the LDB as it sees it. `ShovelStart` is the
factory in `ReflectorFromConfig`, `SourceQuery` a block SELECT, `ApplyInTx` and
`ApplyAndCommit` the two ways through `ApplyDMLStatement`, `ShovelAbort` every error
return that the ledger itself causes, `ShovelFail` the other errors and
`ProcessRestart` a new process, which reads `max(seq)` again. `Ctlstore` lets the
two interleave over `ledger`. `ReplicatedStore` is implemented under the mapping:
log = statements of the committed transactions in sequence order without markers,
delivered = transactions up to the LDB's tracker, copy = the LDB.

### Supervisor, Limiter, Changelog

`Supervisor`: `sup` is the supervisor's program counter, `ctl` the lifecycle
goroutine's, `refl` the reflector's; a send on an unbuffered channel and its receipt
are one step. The timeout of a stop may be chosen although the reflector has just ended,
and the result of a stop may be lost when the context is cancelled: both are selects with
two ready branches. An upload reads the file for as long as it is in `uploads` and turns
dirty when the reflector writes or a later VACUUM rewrites the file.

`Limiter`: SELECT, INSERT or UPDATE, comparison and the end of Mutate are steps of
their own; the row written is locked from the second to the last. Periods are
numbered; `AdjustAmount` rounds halves to even as `math.RoundToEven` does, and is applied
twice, to a minute when a limit is stored and to the limiter's period when limits are
refreshed. Its quotient is exact where the code divides in float64: the two differ only for
a quotient within a rounding error of a half. `Writers` are registered ones, so the check
that a writer exists always succeeds.

`Changelog`: `hist` gives every change its number, `files` keeps the contents of
every file that ever was at the path (a reader may have a removed one open), lines
are indexes of `hist`. The reader's states follow `fileChangelog.read`; after an error of
the watcher it first reads what is left of the file (`changelog.go:206-210`), state
"flush". A line counts 1 towards the size and is written and read whole; the newline, which
`WriteLine` does not count either, is left out, so a file of bytes may be one longer than
the size it is rotated at.

### Bootstrap

One host with its disk: `tmp` and `path` are the two files, `host` the step of
`ReflectorFromConfig`, and the process may die in every one. When it is up on the
supervisor's host the steps of `Supervisor` follow, so its uploads are the objects
that the next process finds; on another host (`isSupervisor` is false) the snapshot
comes from elsewhere (`Publish`). All that a process held is reset by its death
(`ProcessGone`). A host that starts with a new LDB has no file until SQLite makes it on
the first connection (`Initialize`). An archive uploaded while the file was written is
"mixed", and so is what is downloaded from it.

### ChangeFeed

The reflector of `Reflector` with `captured`, the buffer the hook fills, and
`changes`, what the callback is announcing. `Apply` is a successful
`CallbackWriter.ApplyDMLStatement`; `ApplyFails` a delegate that fails once the hook
has fired: the buffer belongs to the process, not to the shovel, and keeps the rows.
The ledger grows by whole transactions with gaps. The client copies rows, calls
`Iterator.Next`, drops the announced copy or on ErrOutOfSync all. Two history variables name the
copies the code cannot keep honest: those read between a statement of a ledger
transaction and its COMMIT (`early`), and those whose announcement failed or died with
the process (`lost`). `CacheHonest` says that there is no third kind. The log is
one sequence here; files and rotation are in `Changelog`.

### LdbReader

A goroutine's call is a program counter; a step lasts from one lock operation or query
to the next, a write section is one step since nobody else can be inside. `rlock` is
the set of readers. A table's primary key is `"zero"` or `"key"`: what the code
distinguishes. `raced` is the history of tables created between the two looks that
`getPrimaryKey` takes; only for those may an empty key be cached. Such a key stays:
`GetRowByKey` returns ErrTableHasNoPrimaryKey before it executes a statement whose
failure would clear it (`ldb_reader.go:178`, against the comment at 169-172). `LookFails`
is every other error return under the read lock, those for bad names of families and
tables included.

### ServiceWorker and Router

`kind` says of each build whether `index.js` calls `register()`, calls `unregister()` as
in the repository, or is another application. The registration `reg`, its workers and
which tabs they control follow the browser as the script uses it; the worker claims
tabs on activation (`docs/service-worker.js:26`). Each tab has the position of its
script, its `ready` promise, and whether its handlers are set.

In `Router` a path is a sequence of segments, each compared as the routes spell it;
react-router ignores case, which no path of the model depends on. The routes of `App` are no alternatives of
a Switch, those of `GettingStarted` are; the Redirect replaces the entry of the history.
The highlighted tab of the sidebar is left out: it compares `window.location.pathname`,
which under a HashRouter never holds the route. So are the page view reports, which
run once when the bundle loads.

## Runs

| Run | Specification | Bounds | Shows |
|---|---|---|---|
| `executive` | `ExecSpec` | 2 handlers, 3 requests, batches up to 2, 2 fields, 2 cookies, 1 writer, table, key, value | `BodiesDisjoint`, `BodiesBracketed`, `MutationsInOrder`, `CookieStaysCompared` for any mix of requests and failures |
| `quiet` | `QuietFairSpec` | 2 handlers, 3 requests, 2 fields, blocks of 3, 1 fault | the LDB is a whole-transaction prefix, equal to ctldb when caught up; it catches up; the pipeline implements `ReplicatedStore` |
| `clear_order` | `ClearSpec` | no faults | violated: finding 1 |
| `crash_loop` | `ClearInsideFairSpec` | no faults | violated: finding 2 |
| `supervisor` | `HostFairSpec` | 2 destinations, 2 attempts | `LdbComplete`, `HostComesUp`, `FlagMatches`, `SnapshotUndisturbed`, `ReflectorResumes`, `ShutsDown` |
| `limiter` | `SerialSpec` | 2 handlers, 2 writers, 4 requests, 3 periods | `WithinQuota`, `UsageIsAdmitted` |
| `changelog` | `FairSpec` | files of 2, channel of 1, 7 entries, 1 failure, 1 new shovel | `NoSilentLossByShovel`, `IteratorCatchesUp` |
| `change_feed` | `FairSpec` | 1 table, key and value, 3 transactions of up to 2 statements, gaps of 1, blocks of 3, 1 fault | `CacheHonest`, `StaleHeals` |
| `early_event` | `Spec` | no faults | violated: finding 3 |
| `ldb_reader` | `FairSpec` | 2 goroutines, 1 table | `LockHeld`, `CacheMade`, `KeysHonest`, `CachesKept`, `CallsReturn` |
| `service_worker` | `FairSpec` | 2 tabs, 3 builds | `UpdateNoticeTrue`, `OfflineNoticeTrue`, `ReloadsEnd`, `OtherAppShown` |
| `router` | `RouterSpec` | history of 3 | `NoTrap`, `LinksLead`, `Settles` |

Why the bounds are enough. Two handlers give every pairwise order of round trips,
and more handlers only repeat it because the ledger lock admits one mutation; the
theorems settle the executive for any number. A batch of 2 is the smallest with
markers; its body of 4 rows does not fit into a block of 3, so a block boundary
falls inside a transaction. Three requests are a table, and two that meet. Two
fields let AddFields succeed after CreateTable. Clients compare any cookie or none
in `executive`; in the pipeline runs they compare none (`Checks = {NoCheck}`), since
the reflector never sees a cookie. One fault is enough for a restart at any point, and the shovel's own aborts on gaps come on top.
Seven entries in files of two let the reader lose one file, two files and none, and
a failure can hit any of the writes and reads.
In `limiter` a limit of 4 rows in 45 s is 5.33 a minute, stored as 5, and 2.5 in the
period of 30 s, the tie that rounds to 2, below the default of 3. The supervisor needs no bound, and two attempts are one that is
retried and one that is not. In `change_feed` three transactions create a table, put a
row and change it; a row is there or not, so one value tells a stale copy from a good
one. Two goroutines meet in every pair of lock operations of `LdbReader`, and one table
is where they do. Three builds allow every order of registering, unregistering and
foreign builds, two tabs that one acts while the other waits. A history of three has an
entry before and one behind the current.

`CHECK_DEADLOCK FALSE` stands in the runs whose systems stop for want of further
requests: the executive and pipeline runs (`MaxRequests`), the changelog runs
(`MaxEntries`, before any file exists) and the change feed's (`MaxTxns`). A host is
always started again, `Limiter` always has housekeeping to do, calls of the reader, visits
and clicks never run out; deadlock is checked there.

### Disciplines

Some properties need more than the code enforces. The specification of the run says
what: `QuietSpec` assumes that a control request runs while no other request does and
does not fail once its DDL ran; `AloneSpec` is the first half of that, `CompleteSpec`
the second; `SerialSpec` of the limiter assumes one Mutate at a time per writer.

Two more isolate what a single ClearTable beside a Mutate does, so that the
counterexamples of `clear_order` and `crash_loop` are the findings and nothing else. Both
let only ClearTable run beside other requests (`OnlyClearBeside`) and let no control
request fail after its DDL. `ClearSpec` also assumes that rows appear in the order of
their sequences, `ClearInsideFairSpec` that no sequence is missing inside a committed body.
What is left to differ is, in the first, the order of the DELETE and its sequence and, in
the second, a row that commits from inside a body that is still open.

Of the pipeline's safety properties only `Converged` needs all of `QuietSpec`; the others,
and the refinement, need `AloneSpec`, as the theorems state. `CompleteSpec` is no help to
them: under it TLC violates each, since a control row still commits inside a mutation or
behind the reflector.

Without the disciplines the properties fail. The runs `clear_order` and `crash_loop` show
that; further configurations, which are kept beside the runs and end in a counterexample
each, show the rest:

| Configuration | Module | Violated | Why |
|---|---|---|---|
| `MCLateRow.cfg` | `MCCtlstore` | `NoRowBehindReader` | a control request inserts its ledger row without the ledger lock, and it appears behind a reflector that has read past it (the comment at `db_executive.go:368-371` rules that out) |
| `MCLostDDL.cfg` | `MCCtlstore` | `Converged` | a control request fails between DDL and commit: ctldb has changed, the ledger has no trace |
| `MCLimiterRace.cfg` | `Limiter` | `WithinQuota` | two Mutates of one writer read the same usage; with batches of different sizes both pass and one charge is lost (with equal sizes the second UPDATE affects no row and is refused) |
| `MCTwoUploads.cfg` | `Supervisor` | `ArchivesWhole` | a failed upload starts the reflector while the other upload reads the file |
| `MCChangelogRestart.cfg` | `Changelog` | `NoSilentLoss` | entry numbers start from 1 with every shovel, so entries lost across a restart can go unnoticed; among those of one shovel they cannot (`changelog`) |

### Fairness

* `Ctlstore`: weak fairness of the shovel's steps. `Reflector.Start` restarts the
  shovel whatever its error was, and the shovel's loop polls. Nothing is assumed of
  the executive; faults are bounded, not fair.
* `Supervisor`: weak fairness of the lifecycle loop, the supervisor's steps, the
  uploads (they end, with success or an error) and the reflector's look at its
  context, each a goroutine that is not blocked by another. Strong fairness of `Quit`:
  Go's select picks among ready branches at random, so a context that is done is
  taken in the end. Timeouts and the signal are not fair.
* `Changelog`: weak fairness of writer, reader and client, strong fairness of
  `Created`, a branch of a select again. No fairness of changes, failures, restarts.
* `Bootstrap`: that of `Supervisor`; weak fairness of `Boot`, since whatever runs the
  process starts it again; strong fairness of `GetObject`, `Copy` and `Rename`: a process
  may die in them any number of times, but not every time for ever.
* `ChangeFeed`: weak fairness of the shovel as in `Ctlstore`, of the callback, which runs
  in the same goroutine, and of a client that keeps calling `Next`.
* `LdbReader`: strong fairness of every goroutine inside a call: a `Lock` that waits is
  not enabled while others read, and `sync.RWMutex` admits no new reader before it.
* `ServiceWorker`: scripts run on, and a worker that may be activated is. Visits,
  deployments, installation and the network are not fair.
* `Router`: a Redirect that is rendered takes effect.

## Proofs

Everything below holds for every value of the constants: any number of handlers, writers,
tables, keys, values, goroutines, destinations, any block and batch size, any bound on
failures. The assumptions are the named ones of the modules: markers for "nothing" differ
from values, bounds are numbers, sizes that the code divides or compares by are not zero,
the keys a ClearTable can hit are finitely many (`ChangeFeedAssumption`). TLC evaluates
them in every run. Each inductive invariant was checked by TLC before it was proved.

| Theorem | States | Under |
|---|---|---|
| `ExecTypeCorrect`, `ExecBodiesDisjoint`, `ExecBodiesBracketed` | `ExecTypeOK`, `BodiesDisjoint`, `BodiesBracketed` | `ExecSpec` |
| `ExecMutationsInOrder`, `ExecCookieCompared` | `MutationsInOrder`, `CookieStaysCompared` | `ExecSpec` |
| `PipelineTypeCorrect`, `TrackerOnlyAdvances` | `TypeOK`, `TrackerAdvances` | `Spec` |
| `LdbReplaysLedger`, `TransactionsWhole`, `WriterNeverRefusesOrder`, `RowsAppearAhead` | `LdbIsLedgerPrefix`, `NoTornTransaction`, `NoInvariantViolation`, `NoRowBehindReader` | `AloneSpec` |
| `PipelineImplementsStore` | `ImplementsStore` (the refinement) | `AloneSpec` |
| `LdbConverges` | `Converged` | `QuietSpec` |
| `HostTypeCorrect`, `FlagIsRight`, `NoWriteUnderSnapshot`, `NoPartialLdb` | `HostTypeOK`, `FlagMatches`, `SnapshotUndisturbed`, `LdbComplete` | `HostSpec` |
| `OneArchiveWhole` | `ArchivesWhole` | `HostSpec`, one destination |
| `UsageBounded` | `LimiterTypeOK` | `Spec` |
| `QuotaKept`, `UsageExact` | `WithinQuota`, `UsageIsAdmitted` | `SerialSpec` |
| `LogTypeCorrect`, `LossIsNoticed` | `TypeOK`, `NoSilentLossByShovel` | `Spec` |
| `FeedTypeCorrect`, `CopiesAreHonest` | `FeedTypeOK`, `CacheHonest` | `Spec` |
| `TypeCorrect`, `LockDiscipline`, `NoNilCache`, `KeysAreHonest`, `CachesAreKept` | `TypeOK`, `LockHeld`, `CacheMade`, `KeysHonest`, `CachesKept` | `Spec` |
| `WebsiteType`, `UpdateNoticeIsTrue`, `OfflineNoticeIsTrue` | `TypeOK`, `UpdateNoticeTrue`, `OfflineNoticeTrue` | `Spec` |
| `RouterType`, `BackIsFree`, `LinksLeadThere`, `OnePageShown` | `RouterTypeOK`, `NoTrap`, `LinksLead`, `OnePage` | `RouterSpec` |

`AloneSpec`, `QuietSpec` and `SerialSpec` are hypotheses the code does not enforce (see Disciplines); the
configurations listed there show that the theorems are false without them. The hypothesis
of one destination is needed as well (`MCTwoUploads.cfg`).

### Ledger

`Replay`, `OrderBySeq` and the reflector's block SELECT are folds over sets of rows. What
they compute is shown by well-founded induction on finite sets: if a claim fails for some
set of rows, `WFMin` (here `SmallestRows`) gives a smallest one, which has a last row, and
the claim holds for the set without it. That needs no induction theorem with an operator
as parameter: the set of counterexamples is an ordinary set. `FoldFnUnique` and
`FoldFnExists` show so that the recursive function inside `MapThenFoldSet` exists and that a
fold unfolds at the last row (`FoldUnfold`); from it follow that a row above all others is
executed last (`ReplayNext`), that `OrderBySeq` lists a set in order (`OrderByLists`), and
what a prefix and a tail of such a list are. `ReplayOnTop` cuts the replay of a ledger in
two: the rows above a sequence act on what the rows below it produce, and do so as the
sequence of their statements without markers, executed from left to right.

### Executive

`BodiesDisjoint` is not inductive: that a commit adds no overlapping body needs that the
committing handler's rows all lie above every committed mutation row
(`OpenMutationAbove`), which holds at its first INSERT because all rows handed out are
below `nextSeq` (`SeqsTaken`), and stays true because no other mutation can commit
meanwhile: only the holder of the lock appends (`LockHeld`). `RightKinds` separates the
rows of control requests, which do interleave, from those of mutations. `BodyIInv` adds
that sequences differ and that an open transaction has exactly the shape its position
prescribes: a BEGIN first, statements up to here, COMMIT still to come, which a commit
turns into `BodiesBracketed`.

### Pipeline

`AloneIInv` adds to the executive's invariant:

* transactions are contiguous in the ledger, and an open one lies above it;
* `ShovelFollows`: the buffer is the list of ledger rows between the last applied sequence and
  the cursor, a transaction is open exactly while the last applied sequence lies inside one,
  and both the LDB and the open view are replays of the ledger up to their sequence.

`QuietIInv` adds `DbFollows` to `AloneIInv`: ctldb is the replay of its ledger, but for the
statement a control request has executed and not logged, and a mutation's own view is the
replay of ledger and open rows. Without it `Converged` has nothing to compare the LDB with. A
control request that fails after its DDL breaks `DbFollows` for good and nothing else: the
LDB follows the ledger, which never saw the statement.

The executive can break `ShovelFollows` only by a row below a cursor, which is
`NoRowBehindReader`; the shovel can break it only by applying something other than the next
row (`HeadIsNext`).

The refinement needs one fact more, `OneTxn`: what the writer has applied and not committed
is of a single transaction, the one after the last the LDB has. `NextOfTxn` then says that
the row whose application commits completes exactly that transaction, and with
`ReplayOnTop` the LDB changes by its statements: `ReflectorDelivers`, a Deliver of the
store. A commit on ctldb puts a transaction above all others, which appends to the log and
moves no position of it (`LogGrows`): a Commit. Every other step leaves log, position and
copy alone. That the numbering of transactions is one to one is a counting argument
(`RankTells`, `TxnAtIs`). Type correctness and the monotone tracker hold without any
discipline and are proved so.

### Host

`InStep` ties the three program counters together: on both sides of a snapshot the reflector
is stopped, otherwise it runs, and it is in between only while Stop waits. `UploadsCounted`
(at most one current upload for a destination, and none for one that is counted as done)
carries `NoWriteUnderSnapshot` past the uploads that a timeout has left behind.
`HostIInv` adds that a file about to be renamed is whole, and that a host that is not up has
nothing running.

### Limiter, changelog, reader

For the limiter, `AdjustAmount` is shown to be the nearest whole number of rows; in every
interleaving recorded usage stays within a configured limit (`Checked`), and
with one Mutate at a time per writer the usage a handler saw is the usage at its update.
For the changelog, `Numbered` says that the numbers of one shovel go up by one along the
history, wherever the lines ended up; `Lines` that every file, also a removed one, holds lines
of that history. For the reader, `Sound` says what a call knows of the shared caches while it
has given up the read lock to get the write lock and taken it again: a cache once found is
not unmade, a key once looked up is that of its table.

### Change feed

`CopiesCovered`: a copy that differs from what the writer sees is going to be dropped, because
its row is being announced, stands unread in the log, or is in one of the two sets that
record why it can be missed (`early`, `lost`). While a ledger transaction is open that is not enough: the row under
announcement may be rolled back, so a copy that differs from the committed LDB must already
be in the log. `CapturedCovers` shows that the pre-update hook reports every row a statement
changes, a ClearTable's included.

### Website

`NoticeIInv`. A notice speaks of workers that other tabs, new builds and the browser replace
or remove, so it is kept true by how the workers are ordered: `WorkersOrdered` says that
the waiting worker is newer than the active one and the installing one newer than both.
`AnnouncedKept` says what a tab's notice implies while its handlers stand (a page whose
registration was removed is no longer hooked), `Controlled` that the controller of a page is
the active worker or one of a removed registration, `ScriptOver` that handlers and notices
come only after the page's script ran.

`RouterIInv` is the type of the history with `NoTrap`, which is inductive: an entry is pushed
only from a page where no redirect is pending, and a redirect replaces its entry by one that
does not redirect. `LinksLead` and `OnePage` hold of every path; what is shown is the case
analysis over the routes (`LinksOfPage`), which needs that appending a slash or a segment gives a longer path.

### Only model-checked

* Liveness (`CatchesUp`, `ReflectorResumes`, `ShutsDown`, `HostComesUp`, `IteratorCatchesUp`,
  `StaleHeals`, `CallsReturn`, `ReloadsEnd`, `OtherAppShown`, `Settles`): fairness and ENABLED
  are out of the prover's reach.

Every invariant and action property of a passing run is proved.

## Findings

Each has a run whose counterexample shows it.

1. `clear_order`: ClearTable deletes on ctldb before it takes its sequence; a Mutate that
   runs in between has the lower sequence, survives in ctldb and is erased in every LDB.
   In the trace a table is created, a ClearTable deletes, a Mutate commits seq 2 and the
   clear is logged as seq 3.
2. `crash_loop`: a ClearTable's row that falls into an open body and commits first moves the
   LDB's tracker past BEGIN; every new shovel then fails at COMMIT. In the trace the clear
   is seq 5 inside a body of 2 to 6, and the reflector refuses 6 for ever.
3. `early_event`: rows changed inside a ledger transaction are announced before COMMIT;
   a client that reads at once keeps the old row. The note in
   `ldb_writer_with_changelog.go:28-30` takes the statement for committed.

## Not modelled

Text and layout: SQL quoting, names, types, JSON, gzip, metrics, logging, the prose and
markup of the website. Partial lines of the changelog. The file: snapshot destination.
The Rows iterator, which holds a SQLite cursor and no lock.

Components left out, and why:

* table sizer: answers from a copy of sizes and limits that is up to a minute old; table
  growth, which no other modelled state decides, makes every answer possible;
* HTTP endpoint, sidecar, heartbeat: request parsing or clients of modelled operations;
* ledger monitor, global statistics: one loop each around a clock and an external service;
* command line tools, examples, names and scanning: no state of their own.

## Plan

Done: all modules above; the proofs of the executive, the pipeline, the host, the
limiter, the changelog, the change feed, the reader and the website, and for the pipeline the
split of the discipline into what each property needs of it.

Left: the table sizer, if table growth is ever modelled, and the liveness properties as
theorems, if the prover gains fairness.
