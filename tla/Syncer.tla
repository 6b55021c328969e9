------------------------------- MODULE Syncer -------------------------------
(***************************************************************************)
(* The sync thread of src/src/sync/syncer.cpp, the batches it hands to the *)
(* worker pool (Database::BatchStoreBlocks) and the rows both keep in      *)
(* PostgreSQL: the stored blocks and the checkpoint of every chunk.        *)
(*                                                                         *)
(* A process may end at any statement: it is killed, an exception leaves a *)
(* thread (std::terminate), or exit(1) is called.  The database survives   *)
(* and the next process resumes from the checkpoints.                      *)
(*                                                                         *)
(* The worker pool is used as TaskPool promises.  A block is identified by *)
(* its height: the chain grows and is not reorganised.                     *)
(***************************************************************************)
EXTENDS Integers, FiniteSets, FiniteSetsExt

CONSTANTS
    MaxHeight,   \* the highest block of the chain (a bound)
    ChunkSize,   \* maxBlocksToIndexSize
    Capacity,    \* MAX_HARDWARE_THREADS of the pool
    Faults,      \* which calls may fail and be survived
    NoRow        \* the checkpoint row does not exist

ASSUME SyncerAssumption ==
    /\ MaxHeight \in Nat
    /\ ChunkSize \in Nat \ {0}
    /\ Capacity \in Nat
    /\ Faults \subseteq {"rpc", "store", "db"}

Heights == 0..MaxHeight

(* UINT64_MAX in the code: no height of the chain reaches it.              *)
InvalidHeight == MaxHeight + 1

Row == [end : Heights, last : Heights]

ASSUME NoRowAssumption == NoRow \notin Row

VARIABLES
    tip,                \* the height zcashd reports (environment)
    blocks,             \* heights with a row in the blocks table
    placeholderRow,     \* the blocks table has the row of a default Block
    checkpoints,        \* the checkpoints table, by chunk_start_height
    missed,             \* heights given up on and not stored (history)
    pc,                 \* where the sync thread is
    path,               \* which part of Sync it is in
    isSyncing,
    latestBlockCount,
    latestBlockSynced,
    leftover,           \* a connection has insert_checkpoint prepared
    unfinished,         \* the stack SyncUnfinishedCheckpoints works off
    seg,                \* the segment being downloaded
    tasks               \* the batches submitted to the pool

durable  == <<blocks, placeholderRow, checkpoints, missed>>
counts   == <<isSyncing, latestBlockCount, latestBlockSynced>>
process  == <<counts, leftover>>
vars == <<tip, durable, pc, path, process, unfinished, seg, tasks>>

(* What SyncOnRange and SyncOnChunk keep of a segment: the checkpoint it   *)
(* belongs to, its first height, its last, the next height to download,    *)
(* the blocks downloaded, and the default Blocks in front of them.         *)
Segment(key, first, end, placeholders) ==
    [key |-> key, start |-> first, end |-> end, next |-> first,
     chunk |-> {}, placeholders |-> placeholders]

NoSegment == Segment(InvalidHeight, 0, 0, 0)

Init ==
    /\ tip \in Heights
    /\ blocks = {}
    /\ placeholderRow = FALSE
    /\ checkpoints = [h \in Heights |-> NoRow]
    /\ missed = {}
    /\ pc = "sleep"
    /\ path = "begin"
    /\ isSyncing = FALSE
    /\ latestBlockCount = 0
    /\ latestBlockSynced = 0
    /\ leftover = FALSE
    /\ unfinished = {}
    /\ seg = NoSegment
    /\ tasks = {}

-----------------------------------------------------------------------------
(* zcashd and the two queries of the counts.                               *)
ChainGrows ==
    /\ tip < MaxHeight
    /\ tip' = tip + 1
    /\ UNCHANGED <<durable, pc, path, process, unfinished, seg, tasks>>

(* The constructor of Block throws for a block whose JSON has no           *)
(* previousblockhash (the genesis block) or no nextblockhash (the tip).    *)
Downloadable(h) == 0 < h /\ h < tip

HighestStoredBlock == Max(blocks \cup {0})  \* the return commented out there

(* GetSyncedBlockCountFromDB returns 0 on every path.                      *)
SyncedBlockCountFromDB == 0

LoadCounts ==
    /\ latestBlockCount' = tip
    /\ latestBlockSynced' = SyncedBlockCountFromDB

-----------------------------------------------------------------------------
ShouldSyncWallet ==
    /\ ~isSyncing
    /\ LoadCounts
    /\ latestBlockSynced' < latestBlockCount'

(* StartSyncLoop wakes up and calls Sync: its first statements.            *)
StartSync ==
    /\ pc = "sleep"
    /\ ShouldSyncWallet
    /\ isSyncing' = TRUE
    /\ path' = "begin"
    /\ pc' = IF tasks = {} THEN "recover" ELSE "refresh"
    /\ UNCHANGED <<tip, durable, leftover, unfinished, seg, tasks>>

RefreshWithoutJoin ==  \* the workers are rebuilt under running batches
    /\ pc = "refresh"
    /\ pc' = "rebuild"
    /\ UNCHANGED <<tip, durable, path, process, unfinished, seg, tasks>>

(* RefreshThreadPool, called at three places of Sync.                      *)
RefreshThreadPool ==
    /\ pc = "refresh"
    /\ pc' = IF tasks = {} THEN "rebuild" ELSE "joining"
    /\ UNCHANGED <<tip, durable, path, process, unfinished, seg, tasks>>

RefreshReturns ==
    /\ pc = "rebuild"
    /\ pc' = CASE path = "begin"  -> "recover"
               [] path = "resume" -> "count"
               [] OTHER           -> "sleep"
    /\ isSyncing' = (pc' # "sleep")
    /\ UNCHANGED <<tip, durable, path, latestBlockCount, latestBlockSynced,
                   leftover, unfinished, seg, tasks>>

(* GetUnfinishedCheckpoints.                                               *)
UnfinishedCheckpoints ==
    {k \in Heights :
        /\ checkpoints[k] # NoRow
        /\ checkpoints[k].end # checkpoints[k].last}

LoadUnfinishedCheckpoints ==
    /\ pc = "recover"
    /\ unfinished' = UnfinishedCheckpoints
    /\ IF unfinished' = {}
         THEN pc' = "count" /\ UNCHANGED path
         ELSE pc' = "resume" /\ path' = "resume"
    /\ UNCHANGED <<tip, durable, process, seg, tasks>>

-----------------------------------------------------------------------------
(* The process ends and the next one starts: the database is all that is   *)
(* left.                                                                   *)
LoseVolatileState ==
    /\ pc' = "sleep"
    /\ path' = "begin"
    /\ isSyncing' = FALSE
    /\ latestBlockCount' = 0
    /\ latestBlockSynced' = 0
    /\ leftover' = FALSE
    /\ unfinished' = {}
    /\ seg' = NoSegment
    /\ tasks' = {}

Restart ==
    /\ LoseVolatileState
    /\ UNCHANGED <<tip, durable>>

-----------------------------------------------------------------------------
(* SyncUnfinishedCheckpoints: the next checkpoint of the stack (the query  *)
(* has no ORDER BY), and the first branch of SyncOnRange.                  *)
ResumeAfterMark(k) ==  \* the block at the mark is taken for stored
    /\ pc = "resume"
    /\ k \in unfinished
    /\ unfinished' = unfinished \ {k}
    /\ checkpoints[k].last <= checkpoints[k].end
    /\ seg' = Segment(k, checkpoints[k].last + 1, checkpoints[k].end, 0)
    /\ pc' = "download"
    /\ UNCHANGED <<tip, durable, path, process, tasks>>

ResumeCheckpoint(k) ==
    /\ pc = "resume"
    /\ k \in unfinished
    /\ unfinished' = unfinished \ {k}
    /\ checkpoints[k].last <= checkpoints[k].end
    /\ seg' = Segment(k, checkpoints[k].last, checkpoints[k].end, 0)
    /\ pc' = "download"
    /\ UNCHANGED <<tip, durable, path, process, tasks>>

(* reserve(end - last) of a checkpoint whose mark is past its end: the     *)
(* uint64_t difference wraps, length_error leaves Sync and the thread.     *)
ResumePastEnd(k) ==
    /\ pc = "resume"
    /\ k \in unfinished
    /\ checkpoints[k].last > checkpoints[k].end
    /\ LoseVolatileState
    /\ UNCHANGED <<tip, durable>>

AllResumed ==
    /\ pc = "resume"
    /\ unfinished = {}
    /\ pc' = "refresh"
    /\ UNCHANGED <<tip, durable, path, process, unfinished, seg, tasks>>

-----------------------------------------------------------------------------
(* The counts are loaded again and Sync picks its path: nothing to do, a   *)
(* range of chunks from the first missing height, or one short chunk.      *)
(* SyncOnChunk starts with as many default Blocks as it has heights.       *)
NothingNew ==
    /\ isSyncing' = FALSE
    /\ pc' = "sleep"
    /\ UNCHANGED <<path, seg>>

RangePath(first) ==
    /\ path' = "range"
    /\ pc' = "segment"
    /\ seg' = Segment(InvalidHeight, first, first, 0)
    /\ UNCHANGED isSyncing

ChunkPath(first, last) ==
    /\ path' = "chunk"
    /\ pc' = "download"
    /\ seg' = Segment(InvalidHeight, first, last, last - first + 1)
    /\ UNCHANGED isSyncing

ChoosePath ==
    /\ pc = "count"
    /\ LoadCounts
    /\ LET new == latestBlockCount' - latestBlockSynced'
       IN  IF new = 0 THEN NothingNew
           ELSE IF new >= ChunkSize
             THEN RangePath(IF latestBlockSynced' = 0
                              THEN 0 ELSE latestBlockSynced' + 1)
             ELSE ChunkPath(latestBlockSynced' + 1, latestBlockCount')
    /\ UNCHANGED <<tip, durable, leftover, unfinished, tasks>>

GetNextSegmentIndexOffByOne(chunkEndpoint, segmentStart) ==
    IF chunkEndpoint - segmentStart + 1 >= ChunkSize
      THEN segmentStart + ChunkSize
      ELSE chunkEndpoint

GetNextSegmentIndex(chunkEndpoint, segmentStart) ==
    IF chunkEndpoint - segmentStart + 1 >= ChunkSize
      THEN segmentStart + ChunkSize - 1
      ELSE chunkEndpoint

CreateCheckpointUpsert(first, end) ==  \* an existing row is written anew
    /\ checkpoints' =
          [checkpoints EXCEPT ![first] = [end |-> end, last |-> first]]
    /\ UNCHANGED leftover

(* The INSERT of a row.  A conflict with an existing row, and any failure, *)
(* is logged and ignored, and leaves the statement prepared on that        *)
(* connection: with a libpqxx that refuses to prepare a name twice, an     *)
(* INSERT that gets the same connection again fails too.                   *)
CreateCheckpointIfNonExistent(first, end) ==
    \/ /\ checkpoints[first] = NoRow
       /\ checkpoints' =
             [checkpoints EXCEPT ![first] = [end |-> end, last |-> first]]
       /\ UNCHANGED leftover
    \/ /\ checkpoints[first] # NoRow \/ leftover \/ "db" \in Faults
       /\ leftover' = TRUE
       /\ UNCHANGED checkpoints

(* The head of the loop of SyncOnRange.                                    *)
NextSegment ==
    /\ pc = "segment"
    /\ LET first == seg.start
           end   == GetNextSegmentIndex(latestBlockCount, first)
       IN  IF first <= latestBlockCount
             THEN /\ pc' = "download"
                  /\ seg' = Segment(first, first, end, 0)
                  /\ CreateCheckpointIfNonExistent(first, end)
             ELSE /\ pc' = "refresh"
                  /\ UNCHANGED <<seg, checkpoints, leftover>>
    /\ UNCHANGED <<tip, blocks, placeholderRow, missed, path, counts,
                   unfinished, tasks>>

-----------------------------------------------------------------------------
(* One turn of the loop of DownloadBlocks and DownloadBlocksFromHeights.   *)
(* A height that cannot be downloaded is absent from the batch.            *)
(* AddMissedBlock only logs: of a resumed chunk it is given the position,  *)
(* not the height.                                                         *)
DownloadBlock ==
    /\ pc = "download"
    /\ seg.next <= seg.end
    /\ \/ /\ Downloadable(seg.next)
          /\ seg' = [seg EXCEPT !.next = @ + 1, !.chunk = @ \cup {seg.next}]
          /\ UNCHANGED missed
       \/ /\ ~Downloadable(seg.next) \/ "rpc" \in Faults
          /\ seg' = [seg EXCEPT !.next = @ + 1]
          /\ missed' = missed \cup ({seg.next} \ blocks)
    /\ UNCHANGED <<tip, blocks, placeholderRow, checkpoints, pc, path,
                   process, unfinished, tasks>>

(* What the lambda passed to SubmitTask captures.                          *)
BatchOf(s) ==
    [key |-> s.key, end |-> s.end, idx |-> s.start, chunk |-> s.chunk,
     placeholders |-> s.placeholders, tracked |-> FALSE, at |-> "read"]

SubmitBatchOverlapping ==  \* the next segment starts at the end of this one
    /\ pc = "download"
    /\ seg.next > seg.end
    /\ Cardinality(tasks) < Capacity
    /\ tasks' = tasks \cup {BatchOf(seg)}
    /\ pc' = CASE path = "resume" -> "resume"
               [] path = "range"  -> "segment"
               [] path = "chunk"  -> "refresh"
    /\ seg' = IF path = "range" THEN Segment(InvalidHeight, seg.end, 0, 0)
                                ELSE NoSegment
    /\ UNCHANGED <<tip, durable, path, process, unfinished>>

(* SubmitTask returns, and the sync thread goes on with the next           *)
(* checkpoint, the next segment, or the refresh after the only chunk.      *)
SubmitBatch ==
    /\ pc = "download"
    /\ seg.next > seg.end
    /\ Cardinality(tasks) < Capacity
    /\ tasks' = tasks \cup {BatchOf(seg)}
    /\ pc' = CASE path = "resume" -> "resume"
               [] path = "range"  -> "segment"
               [] path = "chunk"  -> "refresh"
    /\ seg' = IF path = "range" THEN Segment(InvalidHeight, seg.end + 1, 0, 0)
                                ELSE NoSegment
    /\ UNCHANGED <<tip, durable, path, process, unfinished>>

-----------------------------------------------------------------------------
(* BatchStoreBlocks on a worker, one batch t of the pool.                  *)
Becomes(t, u) == tasks' = (tasks \ {t}) \cup {u}

(* GetCheckpoint(trueRangeStartHeight): no row for InvalidHeight.          *)
ReadCheckpoint(t) ==
    /\ t.at = "read"
    /\ Becomes(t, [t EXCEPT !.at = "store",
                            !.tracked = /\ t.key # InvalidHeight
                                        /\ checkpoints[t.key] # NoRow])
    /\ UNCHANGED <<tip, durable, pc, path, process, unfinished, seg>>

(* A default Block in front of the batch: isValid holds for every Block,   *)
(* so it is stored, with hash "" and height 0, the first time.             *)
StorePlaceholder(t) ==
    /\ t.at = "store"
    /\ t.placeholders > 0
    /\ \/ placeholderRow' = TRUE
       \/ "store" \in Faults /\ UNCHANGED placeholderRow
    /\ Becomes(t, [t EXCEPT !.placeholders = @ - 1])
    /\ UNCHANGED <<tip, blocks, checkpoints, missed, pc, path,
                   process, unfinished, seg>>

(* h is the next block of batch t; the default Blocks come first.          *)
IsNext(t, h) ==
    /\ t.placeholders = 0
    /\ h \in t.chunk
    /\ \A x \in t.chunk : h <= x

(* The batch goes on to the next block.                                    *)
PassBlock(t, h) ==
    Becomes(t, [t EXCEPT !.at = "store", !.idx = @ + 1, !.chunk = @ \ {h}])

StoreBatchAtOnce(t, h) ==  \* one transaction for all blocks of the batch
    /\ t.at = "store"
    /\ IsNext(t, h)
    /\ h \notin blocks
    /\ blocks' = blocks \cup t.chunk
    /\ missed' = missed \ t.chunk
    /\ Becomes(t, [t EXCEPT !.idx = t.end, !.chunk = {}])
    /\ UNCHANGED <<tip, placeholderRow, checkpoints, pc, path,
                   process, unfinished, seg>>

(* The transaction of block h commits.  The checkpoint of a tracked batch  *)
(* is updated at the end of the chunk or after ten seconds, which may have *)
(* passed at any block.                                                    *)
StoreBlock(t, h) ==
    /\ t.at = "store"
    /\ IsNext(t, h)
    /\ h \notin blocks
    /\ blocks' = blocks \cup {h}
    /\ missed' = missed \ {h}
    /\ \/ t.tracked /\ Becomes(t, [t EXCEPT !.at = "mark"])
       \/ ~(t.tracked /\ t.idx = t.end) /\ PassBlock(t, h)
    /\ UNCHANGED <<tip, placeholderRow, checkpoints, pc, path,
                   process, unfinished, seg>>

(* The transaction fails and the batch goes on: the hash is in the table   *)
(* already, or "Missed block".                                             *)
SkipBlock(t, h) ==
    /\ t.at = "store"
    /\ IsNext(t, h)
    /\ h \in blocks \/ "store" \in Faults
    /\ missed' = missed \cup ({h} \ blocks)
    /\ PassBlock(t, h)
    /\ UNCHANGED <<tip, blocks, placeholderRow, checkpoints, pc, path,
                   process, unfinished, seg>>

MarkWholeChunk(t, h) ==  \* any update declares the chunk finished
    /\ t.at = "mark"
    /\ IsNext(t, h)
    /\ checkpoints' = [checkpoints EXCEPT ![t.key].last = t.end]
    /\ PassBlock(t, h)
    /\ UNCHANGED <<tip, blocks, placeholderRow, missed, pc, path,
                   process, unfinished, seg>>

(* UpdateChunkCheckpoint after block h, in a transaction of its own.       *)
MarkCheckpoint(t, h) ==
    /\ t.at = "mark"
    /\ IsNext(t, h)
    /\ checkpoints' = [checkpoints EXCEPT ![t.key].last = t.idx]
    /\ PassBlock(t, h)
    /\ UNCHANGED <<tip, blocks, placeholderRow, missed, pc, path,
                   process, unfinished, seg>>

TaskCompleted(t) ==
    /\ t.at = "store"
    /\ t.placeholders = 0
    /\ t.chunk = {}
    /\ tasks' = tasks \ {t}
    /\ UNCHANGED <<tip, durable, pc, path, process, unfinished, seg>>

-----------------------------------------------------------------------------
SyncStep ==
    \/ RefreshThreadPool
    \/ RefreshReturns
    \/ LoadUnfinishedCheckpoints
    \/ \E k \in Heights : ResumeCheckpoint(k) \/ ResumePastEnd(k)
    \/ AllResumed
    \/ ChoosePath
    \/ NextSegment
    \/ DownloadBlock
    \/ SubmitBatch

WorkerStep(t) ==
    \/ ReadCheckpoint(t)
    \/ StorePlaceholder(t)
    \/ \E h \in t.chunk :
          StoreBlock(t, h) \/ SkipBlock(t, h) \/ MarkCheckpoint(t, h)
    \/ TaskCompleted(t)

Next ==
    \/ ChainGrows
    \/ StartSync
    \/ SyncStep
    \/ \E t \in tasks : WorkerStep(t)
    \/ Restart

Spec == Init /\ [][Next]_vars

(* The sync thread runs until it sleeps, and the workers run their         *)
(* batches.  The chain need not grow, and the process need not end.        *)
FairSpec ==
    /\ Spec
    /\ WF_vars(SyncStep)
    /\ \A k \in Heights \cup {InvalidHeight} :
          WF_vars(\E t \in tasks : t.key = k /\ WorkerStep(t))

-----------------------------------------------------------------------------
SegmentType ==
    [key : 0..InvalidHeight, start : 0..InvalidHeight, end : Heights,
     next : 0..InvalidHeight, chunk : SUBSET Heights, placeholders : Nat]

BatchType ==
    [key : 0..InvalidHeight, end : Heights, idx : 0..InvalidHeight,
     chunk : SUBSET Heights, placeholders : Nat, tracked : BOOLEAN,
     at : {"read", "store", "mark"}]

(* Every variable holds a value of its type.                               *)
TypeOK ==
    /\ tip \in Heights
    /\ blocks \subseteq Heights
    /\ placeholderRow \in BOOLEAN
    /\ checkpoints \in [Heights -> Row \cup {NoRow}]
    /\ missed \subseteq Heights \ blocks
    /\ pc \in {"sleep", "refresh", "rebuild", "joining", "recover", "resume",
               "count", "segment", "download"}
    /\ path \in {"begin", "resume", "range", "chunk"}
    /\ isSyncing \in BOOLEAN
    /\ latestBlockCount \in Heights
    /\ latestBlockSynced \in Heights
    /\ leftover \in BOOLEAN
    /\ unfinished \subseteq Heights
    /\ seg \in SegmentType
    /\ tasks \subseteq BatchType

(* No two batches in flight write the same checkpoint row: the resumed     *)
(* batches of a chunk and its batch in the range never overlap in time.    *)
OneWriterPerCheckpoint ==
    \A t, u \in tasks : t.key = u.key => t = u

(* The heights from the start of a chunk up to its mark were all stored,   *)
(* or given up on with a "missed block": a batch that is resumed, counted  *)
(* by position or stored out of step never moves a mark over a height      *)
(* nobody tried.                                                           *)
NoBlockSkipped ==
    \A k \in Heights :
        checkpoints[k] # NoRow =>
            \A h \in k..(checkpoints[k].last - 1) : h \in blocks \cup missed

(* A chunk that reads as finished is not resumed, so every height of it    *)
(* was stored or given up on, whatever its mark went through.  A chunk of  *)
(* one height is the exception: its row is born with last = end, and after *)
(* a crash only the next sync of the whole range comes back to it.         *)
FinishedMeansTried ==
    \A k \in Heights \ UnfinishedCheckpoints :
        checkpoints[k] # NoRow /\ k < checkpoints[k].end =>
            \A h \in k..checkpoints[k].end : h \in blocks \cup missed

(* Without failing calls a mark is a promise: whenever the process ends,   *)
(* resuming at the marks finds every block below them in the database, but *)
(* the genesis block, which is never downloaded.                           *)
ResumeLosesNothing ==
    \A k \in Heights :
        checkpoints[k] # NoRow =>
            \A h \in k..(checkpoints[k].last - 1) : h \in blocks \cup {0}

(* The chunks of two checkpoints have no height in common, although every  *)
(* sync lays its chunks anew over a longer chain, and even a mark that     *)
(* passes the end of its chunk stays below the next one.                   *)
ChunksDisjoint ==
    \A j, k \in Heights :
        /\ checkpoints[j] # NoRow
        /\ checkpoints[k] # NoRow
        /\ j < k
        => checkpoints[j].end < k /\ checkpoints[j].last < k

(* A sync that has returned left nothing in flight, and if it went through *)
(* the chain then all of it: every height up to the one zcashd reported    *)
(* was stored or given up on, over chunks that were resumed, begun by a    *)
(* process that died, or finished by an earlier sync.                      *)
SyncCoversChain ==
    pc = "sleep" =>
        /\ tasks = {} /\ ~isSyncing
        /\ path \in {"range", "chunk"} =>
              \A h \in 1..latestBlockCount : h \in blocks \cup missed

(* Without failing calls a mark never moves back, however often a chunk is *)
(* resumed and laid out again.                                             *)
CheckpointNeverRegresses ==
    [][\A k \in Heights :
          checkpoints[k] # NoRow => checkpoints'[k].last >= checkpoints[k].last
      ]_vars

(* The use of the pool keeps to what TaskPool offers: no submission beyond *)
(* the capacity or during a refresh.                                       *)
PoolPhase ==
    CASE pc = "joining" -> "joining"
      [] pc = "rebuild" -> "refreshing"
      [] OTHER          -> "open"

Pool == INSTANCE TaskPool WITH
            Task    <- Heights \cup {InvalidHeight},
            pending <- {t.key : t \in tasks},
            phase   <- PoolPhase

PoolSpec == Pool!Spec

(* The blocks change only as BlockStore, which implements BlockLedger,     *)
(* changes them: one at a time, for good, whatever batch it comes with.    *)
Ledger == INSTANCE BlockLedger WITH
              Block  <- Heights,
              stored <- blocks

LedgerSpec == Ledger!Spec

(* A sync that has started comes to an end, or to the join it never leaves *)
(* with every batch completed, or the process ends.                        *)
SyncSettles ==
    isSyncing ~> (~isSyncing \/ (pc = "joining" /\ tasks = {}))

-----------------------------------------------------------------------------
(* What comments of the code say of it, and its behaviours contradict.     *)

(* "Synchronization occurs in fixed ranges" of which "the actual portion   *)
(* left" is synchronized (syncer.h): the mark of a checkpoint lies within  *)
(* its chunk, so that the portion left is never of negative size.          *)
MarkWithinChunk ==
    \A k \in Heights :
        checkpoints[k] # NoRow => checkpoints[k].last \in k..checkpoints[k].end
=============================================================================
