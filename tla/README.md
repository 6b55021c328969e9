# A verification of the Zcash blockchain indexer

The indexer (`src/src`, C++) copies the Zcash chain from a `zcashd` node into
PostgreSQL.  It runs for months, is restarted at will, and must continue where
it stopped.  This directory holds TLA+ models of the parts in which threads,
crashes and partial failures meet, the TLC runs that check them on small
instances, and proofs, checked by TLAPS, of what holds for every instance.

## 1. The system

| Component | Source | State | Operations |
|---|---|---|---|
| Synchroniser | `sync/syncer.*` | `isSyncing`, `latestBlockCount`, `latestBlockSynced`, three loop flags, `http_client_mutex`, `cs_sync` | `StartSyncLoop`, `ShouldSyncWallet`, `Sync`, `SyncUnfinishedCheckpoints`, `SyncOnRange`, `SyncOnChunk`, `DownloadBlocks*`, `Load*Count*`, the two monitor loops, `Stop` |
| Worker pool | `threading/thread_pool.*` | `active_task` (`atomic<uint8_t>`), a mutex and condition variable, an `io_service` with its `work`, the threads created so far | `SubmitTask`, `TaskCompleted`, `RefreshThreadPool`, `End` |
| Checkpoints and batch store | `database/database.*` | tables `checkpoints` and `blocks` | `CreateCheckpointIfNonExistent`, `GetCheckpoint`, `UpdateChunkCheckpoint`, `GetUnfinishedCheckpoints`, `BatchStoreBlocks`, `GetSyncedBlockCountFromDB` |
| Connection pool | `database/database.*` | a queue of connections, a mutex and condition variable, `is_connected` | `Connect`, `GetConnection`, `ReleaseConnection` (by `ManagedConnection`), `EmptyConnectionPool`, `ExecuteRead` |
| Block conversion and storage | `chain_resource.*`, `database/database.cpp` | four tables; one PostgreSQL transaction per block | `DataToOrmStorageMap`, `TransparentInputs`, `TransparentOutputs`, `StoreOrmStorageMap`, `BatchInsertStatements` |
| Monitors | `sync/syncer.cpp`, `database/database.cpp` | tables `peerinfo`, `chain_info` | `InvokePeersListRefreshLoop`, `InvokeChainInfoRefreshLoop`, `StorePeers`, `StoreChainInfo` |
| Lifecycle | `init.cpp`, `controllers/*` | three `std::thread`s, `is_database_setup` | start-up, `CreateTables`, joining, `Shutdown` |
| RPC client | `http/*` | none after construction | forwards JSON-RPC calls |
| Helpers | `utils/*`, `identifier.*` | none | base64, a retry helper nobody calls, table names |

How they interact:

* One **sync thread** wakes up every six hours.  `Sync` first resumes every
  checkpoint whose chunk is unfinished, then lays chunks of
  `maxBlocksToIndexSize` heights over the chain.  For each chunk it writes a
  checkpoint row, downloads the blocks (under `http_client_mutex`), and hands
  them to the **worker pool** as one task.  `SubmitTask` blocks it when
  `MAX_HARDWARE_THREADS` tasks are in flight.
* A **worker** stores the blocks of its batch one PostgreSQL transaction at a
  time and now and then, in a transaction of its own, moves the mark
  (`last_checkpoint`) of the chunk.  At the end it calls `TaskCompleted`.
* Between the two parts of a sync, and at its end, the sync thread calls
  `RefreshThreadPool`, which is meant to wait for all tasks and then rebuilds
  the workers.
* Every database call borrows a connection from the **connection pool**;
  `GetSyncedBlockCountFromDB` borrows a second one under the first.  The pool
  has five connections for each core, and a broken one is never replaced.
* The **main thread** opens the connections, creates the tables, starts the sync
  thread and the two **monitors**, and joins them.  A monitor holds
  `http_client_mutex` over its RPC *and* over its database work.
* The process may die anywhere: it is killed, an exception leaves a thread, or
  `exit(1)` is called.  Only PostgreSQL survives.

What is hard here: the counter races with fast tasks; a wakeup may be lost; the
pool is stopped, reset and refilled while threads are inside it; a mark is
written after, and apart from, the blocks it vouches for; a mark is a position
in a batch and not a height; batches of the same chunk come from two code
paths; chunks are laid anew over a chain of another length; connections leak
away.  `PROJECT.json` lists every such hazard at its line with the properties
aimed at it.

What makes each component correct, in one line each:

* *worker pool*: the counter counts, the limit holds, nothing is in flight when
  the workers are rebuilt, every task completes and every submitter returns;
* *synchroniser and checkpoints*: resuming at the marks loses no block, no two
  batches write one row, a mark never moves back, a sync that has ended has tried
  the whole chain;
* *connection pool*: a connection has one owner, nobody sleeps beside a free
  connection, operations end;
* *block storage*: a block is there entirely or not at all, and storing it again
  changes nothing;
* *the threads together*: who waits for a connection, the mutex or room holds
  nothing that the one he waits for needs; the monitors do not stop the sync;
* *monitors, lifecycle*: the tables exist before a thread uses them, the peers
  in the table are those of one answer, `Stop` stops the loop it speaks of.

## 2. The modules

| Module | What it is |
|---|---|
| `TaskPool` | abstract: what users of the worker pool rely on |
| `ThreadPool` | the pool, statement by statement; implements `TaskPool` |
| `ThreadPoolProofs` | theorems about `ThreadPool` |
| `Syncer` | the sync thread, its batches and the rows in PostgreSQL; uses the pool as `TaskPool` allows |
| `SyncerProofs` | theorems about `Syncer` |
| `SyncerChunkProofs` | theorems about its chunks and marks, and the two interfaces it keeps to |
| `SyncerEndProofs` | theorems about what a sync leaves behind, and that it is never stuck |
| `ConnectionBudget` | abstract: what users of the connection pool rely on |
| `ConnectionPool` | the pool of database connections; implements `ConnectionBudget` |
| `ConnectionPoolProofs` | theorems about `ConnectionPool` |
| `BlockLedger` | abstract: a block is stored, or given up on |
| `BlockStore` | the storage of one block: conversion, four tables, one transaction; implements `BlockLedger` |
| `BlockStoreProofs` | theorems about `BlockStore` |
| `Monitors` | the two monitor loops, `StorePeers`, `StoreChainInfo`, `http_client_mutex` |
| `Indexer` | the whole program: `Monitors` with the main thread, the sync thread, the workers, `Stop`, and the end and restart of the process; uses connections as `ConnectionBudget` allows |
| `IndexerProofs` | theorems about `Indexer` |
| `Base64` | `base64Encode` and the decoding that undoes it, as functions |
| `Base64Proofs` | theorems about `Base64` |
| `MC...` | instances of the above for TLC |

**ThreadPool.** `pc` is the owner (sync) thread's place in `SubmitTask` or
`RefreshThreadPool`; one step per statement another thread can observe.
`place[t]` says whether task `t` is nowhere, queued, or on a worker;
`thread[w]` whether a worker thread is unborn, live or exited.  `cs_task_mutex`
is `locked`; `TaskCompleted` takes and releases it in one step.  The condition
variable is the pc value `"wait"`, left by `TaskCompleted` (notify) or
`SpuriousWakeup`.  `active_task` is computed modulo 256.  boost::asio is
external: a handler queue, `stop`, `reset`, and `run()`, which returns when the
service is stopped or out of work (`Dispatch`, `Exit`).  An idle thread need not
notice a stop before the reset; then it lives on.  `End` is `Syncer::Stop` on
another thread, allowed by `Stoppable`.  `init.cpp` itself reaches `Stop` only
after joining threads that do not end, so `Stoppable = FALSE` is the program as
it is started today and `Stoppable = TRUE` is the class as its interface allows
it to be used.

**Syncer.** `blocks`, `placeholderRow` and `checkpoints` are the database and
survive `Restart`; the rest is the process.  `pc` and `path` locate the sync
thread: it wakes (`StartSync`), resumes (`LoadUnfinishedCheckpoints`,
`ResumeCheckpoint`, `AllResumed`), refreshes, counts (`ChoosePath`), and goes
through segments (`NextSegment`, `DownloadBlock`, `SubmitBatch`).  A batch in
`tasks` carries what the lambda captured and goes through `BatchStoreBlocks`:
`ReadCheckpoint`, then `StoreBlock` or `SkipBlock` for each block, with
`MarkCheckpoint` as a separate step so that the process can die between the
block and the mark.  `leftover` says that the INSERT of a checkpoint has left its
statement prepared on a connection, as every conflict does: with a libpqxx that
refuses to prepare a name twice, a later INSERT on that connection fails.  Which
connection it gets is not modelled, so from then on any INSERT may fail, until
the process ends.  The ten-second rule is a free choice at every block; the
end of the chunk always marks.

**ConnectionPool.** Every section under `cs_connection_pool` is one step.  A
thread is idle, about to get, waiting, woken, or using; `want` counts the
connections its operation has still to get.  `Nested` threads may take two.

**BlockStore.** A worker takes a block, inserts table after table in the order
of the `std::map`, and commits; it aborts on a conflict or a failure.  All rows
of the tables become visible at `Commit`.

**Monitors and Indexer.**  Here the subject is who waits for whom, so each
thread is only its place (`pc`) between the moments at which it takes or gives
back something shared: a connection (`free`, `out`), `http_client_mutex`, room
in the worker pool (`queued` and the workers' places make `active_task`).  The
connections are those of `ConnectionBudget`, which `ConnectionPool` is shown to
implement: any of them is as good as another.  A monitor reads its flag
(`BeginTurn`), locks, calls zcashd, stores, and unlocks at the end of the scope,
also after an exception.  `StorePeers` commits its `TRUNCATE` and uses the
transaction again: depending on the release of libpqxx the next statement
throws, or runs by itself, so `InsertPeer` adds one visible row or ends the
inserting.  The main thread goes through `Connect`, `CreateTables` (one
connection and one transaction per table), and the three `std::thread`s, and is
then in the join for good; `JoinReturns` is the condition under which it would
go on to `Shutdown`.  What follows the join is not an action, because
`ShutdownNotReached` holds.  The sync thread has a `stage` of `Sync` and, within
it, a place; the decisions of `Sync` are free choices here and determined in
`Syncer`.  `Stop` is `Syncer::Stop` on another thread: it clears two of the
three flags and stops the service.  `Restart` ends the process at any step,
which also stands for every exception nobody catches and for `exit(1)`; the
tables remain.

**BlockLedger** is where `Syncer` and `BlockStore` meet: for the first a block
is a height that a batch stores in one step, for the second it is rows of four
tables; both are shown to store one block at a time, once and for good, and to
give up only on blocks that are not there.

**Base64.**  A character is its place in the alphabet.  `Encode` gives each
character of the result as a function of its position, which is what the two
loops compute; `Decode` is the reference.

Abstractions worth knowing:

* A block is its height; the chain grows and is not reorganised, and the node
  never reports a smaller height.  Blocks of which `Block(Json)` throws, the
  genesis block and the tip, are not `Downloadable`.
* `Syncer` takes whatever fails in storing a block as the fault `"store"`.
  `BlockStore` shows which blocks always fail.  So the runs and statements
  "without failing calls" speak of chains of blocks that can be stored.
* The stack of unfinished checkpoints is a set: the query has no `ORDER BY`.
  asio's queue is taken from in any order.
* `missed` in `Syncer` and `BlockStore` is a history variable: the program only
  logs these heights.
* The position counter of an untracked batch starts at the segment's start
  instead of `InvalidHeight`; nothing reads it.
* `Base64` takes the length of a text as it is; the code narrows it to `int`,
  which matters from 2^31 bytes on, far above any `Authorization` header.
* `TaskPool` allows the end of the process (`Vanish`), which takes the pool and its
  tasks along: `Syncer`, which models that end, needs it.
* A `pqxx` statement that fails between a commit and the answer is a failure.
  A GetCheckpoint or UpdateChunkCheckpoint that throws leaves the worker and
  ends the process: `Restart`.  So does the pointer thrown at `syncer.cpp:301`.
* Lines 183 and 188 of `syncer.cpp` are comments without comment signs; they are
  read as the comments they were meant to be.

## 3. The runs

| Run | Instance | Checks |
|---|---|---|
| `pool_safety` | 3 tasks, limit 2, 6 threads: two rebuilds, `Stop` at any time | `TypeOK`, `CountExact`, `CapacityRespected`, `RebuildIsQuiet` |
| `pool_live` | 3 tasks, limit 2, 4 threads, nobody else stops the pool, fair | `QuiescentRefresh`, `JoinNeverReturns`, `PoolSpec` (implements `TaskPool`), `SubmittedTaskCompletes`, `SubmitReturns` |
| `sync_faults` | heights 0..4, chunks of 2, 2 workers, all faults, restarts, fair | `TypeOK`, `OneWriterPerCheckpoint`, `NoBlockSkipped`, `FinishedMeansTried`, `ChunksDisjoint`, `SyncCoversChain`, `SyncSettles` |
| `sync_nofaults` | heights 0..6, chunks of 3, no faults but restarts and what `leftover` makes fail | `ResumeLosesNothing`, `CheckpointNeverRegresses`, `PoolSpec` (uses the pool as `TaskPool` allows), `LedgerSpec` (implements `BlockLedger`) |
| `conn_pool` | 3 connections, 3 threads, 1 nested, 1 reader, failures, fair | `TypeOK`, `NoSharedConnection`, `NoLostWakeup`, `HangMeansExhausted`, `OperationsDrain`, `BudgetSpec` (implements `ConnectionBudget`) |
| `block_store` | 3 blocks, 2 workers, failures, restarts | `TypeOK`, `BlockIsAtomic`, `StoredBlockNeverChanges`, `LedgerSpec` (implements `BlockLedger`) |
| `indexer` | 2 workers, 5 connections, two possible peer lists, failures, `Stop`, restarts | `TypeOK`, `TablesBeforeThreads`, `PeersOfOneAnswer`, `NoHoldAndWait`, `WaitMeansLoss`, `ShutdownNotReached` |
| `indexer_live` | 1 worker, 4 connections, failures, `Stop`, restarts, fair | `SyncGetsClient`, `TurnsEnd`, `SubmitReturns`, `StopEndsPeers` |

Bounds, and why they are enough.  *Pool*: more tasks than the limit makes the
owner wait; two rebuilds let a thread of the first generation survive into the
third.  A run with one rebuild less (`pool_live`) keeps liveness cheap.
*Syncer*: the chain grows during the run, so chunks are laid over chains of
different lengths; with 5 heights and chunks of 2 there are three chunks, one of
them short, and more chunks than workers.  With chunks of 3 a mark has a place
strictly inside the chunk.  The growth of the chain to `MaxHeight` is the only
bounded quantity.  *Connections*: three connections for a thread that nests and
two that do not: everyone can be made to wait, and with one connection lost
everyone still goes on.  *Blocks*: one and two outputs, and a block that spends.
*Indexer*: the connections are the fewest of which `WaitMeansLoss` speaks
(`SizesSuffice`), one for each worker and three more, so that every one of them
is needed; a real machine has more.  Two disjoint answers of zcashd, one with two peers, are
enough to mix them up.  In `indexer_live` the answer is always empty: the rows
are not what waits for anything.  With one worker the pool is full after one
submission.

Fairness.  `FairSpec` of `ThreadPool`: the operating system runs every thread
(weak fairness of the owner's steps inside a call, of a task being taken, of an
idle thread noticing the stop); a worker at `cs_task_mutex` gets it if the owner
releases it again and again (strong fairness of `TaskCompleted`: spurious
wakeups may retake the mutex for ever).  Nothing forces the owner to call, nor
a waiter to wake without a notification.  `FairSpec` of `Syncer`: weak fairness
of the sync thread inside `Sync` and of each batch; the chain need not grow, the
six-hour sleep need not end, the process need not die.  `FairSpec` of
`ConnectionPool`: weak fairness of every thread inside an operation.  The mutex
and the condition variable are not assumed fair, which is why `OperationsDrain`
speaks of the time after threads have stopped beginning operations.  `FairSpec`
of `Indexer`: every sleep ends, RPCs and statements answer or fail, and a thread
that waits for the mutex, a connection or room gets it if it is there again and
again (strong fairness of each thread's steps): whoever has the mutex sleeps six
or twenty-four hours after each turn, so the waiter need not win a race for ever.
`TaskCompleted` is strongly fair by itself because a batch is finite.  Nothing
forces the main thread, `Stop` or `Restart`.  The liveness properties make an
exception for a pool that can no longer serve a waiting thread: no connection is
left (`Left = 0`), or the last one is held by the count that waits for its second
(`Left <= 1`).

Deadlock checking is off where the system may really stop: the pool whose owner
is in `join_all` for ever, and the connection pool that has run dry.
`block_store` has it on.

### Where the code departs from what it says of itself

Each is a run in which TLC finds a counterexample, and a finding in
`PROJECT.json` with the line that is contradicted.

| Run | Property | What happens |
|---|---|---|
| `pool_join` | `RefreshReturns` | a refresh that finds a task in flight joins threads inside `io_service::run`, which end only after the stop that comes next: the sync thread never returns |
| `sync_mark` | `MarkWithinChunk` | the last chunk of a sync is short; a later sync reuses its row for a longer segment, marks beyond its recorded end, and the next resume reserves a negative size |
| `block_outputs` | `OutputsStoredOnce` | the rows of a table are inserted once per row: n outputs leave n copies each |
| `block_missed` | `NothingMissed` | a block with a spending transaction cannot be converted and is missed |

More departures are visible in the models without a run of their own.
`AddMissedBlock` is given a position instead of a height by
`DownloadBlocksFromHeights` (`syncer.cpp:274`), so its log line is wrong for a
resumed chunk.  `GetSyncedBlockCountFromDB` returns 0 on every path, so every sync starts at
height 0 (`SyncedBlockCountFromDB`).  A short chunk starts with default Blocks,
and `isValid` holds for them, so a row without content is stored
(`StorePlaceholder`).  `EmptyConnectionPool`, which "closes each connection and
clears the pool" (`database.h:52`), removes one connection and leaves the rest in
use (`ConnectionBudget!Fill`).  A chunk of one height is born with
`last_checkpoint = chunk_end_height` and reads as finished before it was tried,
which is why `FinishedMeansTried` speaks of chunks of two heights or more.
`Stop`, which "stops all ongoing Syncer operations" (`syncer.h:158`), leaves the
chain-info loop running, and the Controller joins its threads before it calls
`Stop`, so the statements behind the join are dead code (`ShutdownNotReached`).
A `Stop` on another thread can leave the sync thread in `SubmitTask` for ever,
with the service stopped (the exception in `SubmitReturns`).

Two of these findings are also theorems for every size.  A block that spends, or
has two transactions, is never stored (`OnlyCoinbaseBlocksStored`), and the
outputs of a stored block are each there as often as the block has outputs
(`OutputsStoredOften`).  A third has a bound: a mark passes the recorded end
of its chunk, but never reaches the next chunk (`MarksStayInTheirSlots`).  And
the fourth is final: `JoiningIsTheEnd`.

Some of this explains properties that hold.  `NoBlockSkipped`, `ChunksDisjoint`,
`ResumeLosesNothing` and `SyncCoversChain` lean on `GetSyncedBlockCountFromDB`
being 0: chunks always start at multiples of the chunk size.  With the
commented-out return (`HighestStoredBlock`, a mutant of the runs) chunks overlap,
and a sync that ends has not tried what lies below the highest stored block.  And
`JoinNeverReturns` is the reason why a rebuild never meets a running task.

## 4. The proofs

All theorems hold for every value of the constants that satisfies the
assumptions in the modules: a limit from 0 to 255 (`PoolAssumption`), a chunk
size of at least 1, any capacity (`SyncerAssumption`), a mark for "no row" that
is not a row (`NoRowAssumption`), at least one thread that takes connections
and finitely many of both (`ConnectionPoolAssumption`), blocks and workers
as `BlockStoreAssumption` says, and any number of workers and connections in
`Indexer`.  A limit of 0 is that of a machine with two cores, and two theorems
say what the program does there: `SubmitTask` never returns
(`NoRoomAtLimitZero`), and no block is ever stored (`NoRoomNoBlocks`).  Only
`WaitMeansLoss` asks for a worker, and a connection for each worker and three
more (`SizesSuffice`); `SizesOfMachine` says on which machines
`thread_pool.cpp:5` and `init.cpp:27` provide that: from three cores on, unless
the number of cores less two is a multiple of 256.  With two cores there is no
worker, and with one, or an unknown number, there are 255 or 254 workers and
fewer connections than workers.

**ThreadPool** (`ThreadPoolProofs`).  `PoolInv` is inductive whoever stops the
pool.  `CountExact` alone is not: it needs that the mutex is held exactly from
the test to the increment (`MutexInv`), so that no `TaskCompleted` comes in
between; that the task being submitted is not in flight yet (`ArgInv`); that the
room found by the test is still there at the increment (`CountInv`), which also
keeps the `uint8_t` from wrapping; that a worker has one task and is alive while
it has it (`WorkerInv`); and that a rebuild is reached with nothing in flight or
after all threads ended (`QuietInv`).  From it: `TypeCorrect`, `CountIsExact`,
`CapacityIsRespected`, `RebuildIsAlwaysQuiet`.  In a pool that only its owner
stops, `OwnedInv` adds that the service runs outside a rebuild and that someone
lives if the limit is not 0; from it `RefreshIsQuiescent`, `JoinIsForever` and
`JoiningIsTheEnd` (no step leaves the join), and `TasksHaveHelp`: a task in
flight is run by somebody, or can be taken by an idle thread, also while the
owner joins.  `PoolImplementsTaskPool`: every step of `ThreadPool` is a step of
`TaskPool` or leaves it unchanged.

**Syncer** (`SyncerProofs`).  `SyncInv` carries `NoBlockSkipped` through a
segment and a batch: what the sync thread has passed is downloaded or given up
on (`SegmentInv`), what a batch does not hold is accounted for and its index
never runs ahead of its blocks (`BatchInv`), and so the position that becomes
the mark has nothing untried below it.  `WriterInv` says which checkpoints may
still be written, the ones in flight, the one being downloaded and the ones on
the stack, all different; `PhaseInv` says that the refreshes leave nothing in
flight.  From it: `TypeCorrect`, `NoBlockIsSkipped`, `OneWriter`, with every fault
and every crash.

**Chunks and marks** (`SyncerChunkProofs`).  More invariants, each inductive
beside `SyncInv`.  `LastTried`: the height of a mark beyond the start of its chunk
was tried itself, so a chunk whose mark is at its end was tried to the end
(`FinishedIsTried`).  `AlignInv`: every chunk starts at a multiple of the chunk
size and every segment but the last of a range is full, so chunks of different
syncs coincide or are disjoint; here the proof uses that
`GetSyncedBlockCountFromDB` returns 0.  `SlotInv`: marks, batches and the segment
stay within the chunk size of their chunk's start, so a mark that passes the
recorded end still lies below the next chunk (`MarksStayInTheirSlots`,
`ChunksAreDisjoint`).  `LoneInv`: a batch without a checkpoint, that of a short
chain, is alone in flight.  With it `BatchesShareNoBlock`: no block is in two
batches at once, which `BlockStore` assumes of its workers (`Take`).  `CleanInv`,
under the assumption that no call fails but an INSERT after a conflict: nobody
looks beyond the tip (`TipInv`), a segment lacks only the genesis block and the
tip (`CleanSegment`), so positions and heights of a batch differ by at most one
(`CleanBatch`) and a mark moves over stored heights only (`CleanRows`).  From it
`ResumingLosesNothing` and `MarksOnlyAdvance`, with the process dying at any step.
`SyncImplementsLedger` and `SyncKeepsToThePool` map every step of `Syncer` to one
of `BlockLedger` and of `TaskPool`; for the latter the batches are counted by
their keys, which `OneWriterPerCheckpoint` makes a bijection (`OneKeyEach`).

**The end of a sync** (`SyncerEndProofs`).  `CoverInv` says of a sync that lays
chunks that every height it has passed is in hand (in the segment or in a
batch) or accounted for; no step loses one, because a batch gives up a height
only by storing or missing it (`HandKept`) and a segment is passed only when all
of it was looked at (`PassedMoves`).  At the end nothing is in hand: what was
passed, the whole chain, was tried (`SyncCoversTheChain`), and stored if no call
fails (`SyncStoresTheChain`, by `CleanCoverInv`).  The other half of this module is
the safety below `SyncSettles`.  `Rank` counts what a batch has left to do:
nothing raises it and each of its own steps lowers it (`EveryBatchRunsDown`).
A batch in flight can always take a step (`BatchCanStep`, which takes the least
height of the batch from `WellFoundedInduction`), so `Sync`, `SubmitTask` and the
batches never all wait for each other (`SyncIsNeverStuck`): the join that is never
left is the only place where a sync may stop, and by then every batch has run
down.

**ConnectionPool** (`ConnectionPoolProofs`).  `PoolInv` says what a thread holds
at each place (`HeldInv`), that the queue and the threads hold only opened
connections (`OpenedInv`), what holds while `Connect` runs (`ConnectInv`), and
`NoSharedConnection` and `NoLostWakeup`, which are inductive with it: a notify
leaves one more woken thread, or nobody waited.  `OnlyNestingHangs` counts: when
everybody inside an operation waits, the queue is empty and each thread that
holds a connection is one that nests and holds one, and what they hold is all
that is left.  `PoolNeverGrows` and `ExhaustedForGood`: nothing reopens what
broke, so that state is never left.  `PoolImplementsBudget` reads `free` as the
length of the queue and `out` as how many a thread holds.

**BlockStore** (`BlockStoreProofs`).  `StoreInv`: no two workers have a
transaction open on rows of one block (`OneOpen`), the rows of an open
transaction are not in the tables yet (`OpenIsNew`), only blocks that can be
converted are stored (`StoredConvertible`), and `BlockIsAtomic`.  From it
`StoredForGood`, and `StoreImplementsLedger`: a commit is the ledger's `Store`.
`ContentInv` adds what the tables can hold: only a block with at most one
transaction gets beyond the statements on `transactions` (`AtMostOneTx`), and each
output of a stored block has as many copies as the block has outputs
(`CopiesOfOutputs`).  From it `OnlyCoinbaseBlocksStored`, `OutputsStoredOften` and
`OnceMeansOneOutput`.

**Indexer** (`IndexerProofs`).  `IndexerInv` says where a thread may be in each
stage (`PlaceInv`, `StageInv`), that it holds exactly the connections its place
says (`HeldInv`) and the mutex exactly between its lock and its unlock
(`MutexInv`), that nothing runs before the tables are there (`StartInv`,
`TablesInv`), that the peers in the table and the ones still to insert are of
one answer (`PeerInv`), and that nobody clears the flag of the chain-info loop
(`RunInv`).  Free and held connections are counted as one set of pairs, so
together they never exceed what `Connect` opened (`BudgetInv`).  From it
`TypeCorrect`, `TablesComeFirst`, `PeersAreOfOneAnswer`, `ShutdownIsNotReached`,
`NobodyHoldsAndWaits`; and `WaitingMeansLoss`: if none was lost and one thread
waits, the others hold fewer than there are, because each worker holds at most
one, the sync thread at most two, the monitors one in all under the mutex, and
the one that waits has one still to come.

Three more facts say that this program, with one mutex, a pool of connections and
a pool of workers, has no circle of threads that wait for each other.
`NobodyIsStuck`: whenever a thread waits for the mutex, for a connection or for
room, another one has work in hand and waits for nobody, unless at most one
connection is left or `Stop` has let every worker off.  `ConnectionsOnlyDwindle`:
connections never come back but by a restart.  `CountIsStuck` and `SubmitIsStuck`:
whoever meets one of the two exceptions waits until the process ends, so the
liveness properties cannot do without them.

**Base64** (`Base64Proofs`).  `DecodeInvertsEncode`: for every text, whatever its
bytes and its length, the encoding decodes to the text.  The masks and shifts of
a group lose no bit (`GroupInverts`); the position of a character determines its
group (`EncodedChar`); the bytes behind the end are 0, so that what `"="` stands
for is nothing (`DecodedBits`); and the number of `"="` tells the length
(`EncodedLength`).

Every safety property, action property and refinement that a passing run checks
is also a theorem.  Only model-checked: the liveness properties
(`SubmittedTaskCompletes`, `SubmitReturns`, `SyncSettles`, `OperationsDrain`,
`SyncGetsClient`, `TurnsEnd`, `StopEndsPeers`), because the provers do no reasoning
about fairness and ENABLED.  The safety they rest on is proved: that
somebody can always go (`TasksHaveHelp`, `SyncIsNeverStuck`, `NobodyIsStuck`,
`OnlyNestingHangs`), that batches run down (`EveryBatchRunsDown`), and that the
exceptions they name are final (`ExhaustedForGood`, `ConnectionsOnlyDwindle`).

The composition is by interface: that `Syncer` and `ThreadPool`, `Indexer` and
`ConnectionPool`, `Syncer` and `BlockStore` meet at one abstract specification is
proved on both sides, and what `BlockStore` assumes of its callers is a theorem of
`Syncer` (`BatchesShareNoBlock`).  The product of the two detailed models is neither
checked nor proved.

## 5. Not modelled, and what comes next

Not modelled because there is nothing to check: the forwarding of RPCs to the
library (its failures are alternatives of the calling actions), the table names,
formatting of rows, logging.  The retry helper (`utils/retry_utils.hpp`) is
included by no source file and would not compile.  The values in the rows
(totals, senders, the lookup of spent outputs) are not modelled: every path to
them stands behind the exception of `chain_resource.cpp:73`.  The race between
`Stop` and the replacement of the `work` object is left out.  The depth of the
recursion in `LoadTotalBlockCountFromChain` is not bounded by the code and not
modelled.

Next:

1. The worker pool under `Stop` and the replacement of the `work` object, once the
   ownership of that pointer is settled in the code.
2. A chain that is reorganised: `chain_resource` and `syncer` have no code for it,
   so there is nothing to model before there is.
