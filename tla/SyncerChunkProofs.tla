-------------------------- MODULE SyncerChunkProofs --------------------------
(***************************************************************************)
(* More theorems of Syncer: the chunks and their marks, and the two        *)
(* interfaces a sync implements, to the worker pool and to the stored      *)
(* blocks.  They build on SyncInv of SyncerProofs.                         *)
(***************************************************************************)
EXTENDS SyncerProofs, FiniteSetTheorems

-----------------------------------------------------------------------------
(* What no step takes back, and who writes a checkpoint.                   *)

(* A height stays accounted for.                                           *)
LEMMA AccountedGrows ==
    ASSUME [Next]_vars
    PROVE  /\ blocks \subseteq blocks'
           /\ Accounted \subseteq Accounted'
BY DEF Next, vars, durable, Accounted, ChainGrows, StartSync, SyncStep,
       WorkerStep, Restart, RefreshThreadPool, RefreshReturns,
       LoadUnfinishedCheckpoints, ResumeCheckpoint, ResumePastEnd, AllResumed,
       ChoosePath, NextSegment, DownloadBlock, SubmitBatch, ReadCheckpoint,
       StorePlaceholder, StoreBlock, SkipBlock, MarkCheckpoint, TaskCompleted

(* Only the head of a segment and a mark write a checkpoint.               *)
LEMMA WritersOfCheckpoints ==
    ASSUME [Next]_vars
    PROVE  \/ UNCHANGED checkpoints
           \/ NextSegment
           \/ \E t \in tasks : \E h \in t.chunk : MarkCheckpoint(t, h)
BY DEF Next, vars, durable, ChainGrows, StartSync, SyncStep, WorkerStep,
       Restart, RefreshThreadPool, RefreshReturns, LoadUnfinishedCheckpoints,
       ResumeCheckpoint, ResumePastEnd, AllResumed, ChoosePath, DownloadBlock,
       SubmitBatch, ReadCheckpoint, StorePlaceholder, StoreBlock, SkipBlock,
       TaskCompleted

(* NextSegment inserts a row at its first height, or none.                 *)
LEMMA RowOfSegment ==
    ASSUME SyncInv, NextSegment, checkpoints' # checkpoints
    PROVE  /\ pc = "segment" /\ seg.start \in Heights
           /\ seg.start <= latestBlockCount
           /\ checkpoints' = [checkpoints EXCEPT ![seg.start] =
                 [end  |-> GetNextSegmentIndex(latestBlockCount, seg.start),
                  last |-> seg.start]]
BY SyncerAssumption
   DEF NextSegment, CreateCheckpointIfNonExistent, SyncInv, TypeOK,
       SegmentType, Heights, InvalidHeight

(* MarkCheckpoint moves one mark, to a height up to the one just stored.   *)
LEMMA MarkMoves ==
    ASSUME SyncInv, NEW t \in tasks, NEW h \in t.chunk, MarkCheckpoint(t, h)
    PROVE  /\ t \in BatchType /\ BatchOK(t)
           /\ t.key \in Heights /\ HasRow(t.key) /\ h \in blocks
           /\ t.idx \in Heights /\ t.idx <= h /\ h <= t.end
           /\ \A x \in t.chunk : h <= x
           /\ checkpoints' \in [Heights -> Row \cup {NoRow}]
           /\ checkpoints'[t.key].end = checkpoints[t.key].end
           /\ checkpoints'[t.key].last = t.idx
           /\ \A k \in Heights \ {t.key} : checkpoints'[k] = checkpoints[k]
<1>1. t.at = "mark" /\ IsNext(t, h)
      /\ checkpoints' = [checkpoints EXCEPT ![t.key].last = t.idx]
  BY DEF MarkCheckpoint
<1>2. t \in BatchType /\ h \in Heights /\ BatchOK(t)
  BY DEF SyncInv, TypeOK, BatchType, BatchInv
<1>3. /\ t.key \in Heights /\ HasRow(t.key) /\ h \in blocks
      /\ t.idx <= h /\ h <= t.end
  BY <1>1, <1>2 DEF BatchOK
<1>4. t.idx \in Heights
  BY <1>2, <1>3, SyncerAssumption DEF BatchType, Heights, InvalidHeight
<1>5. checkpoints[t.key] \in Row
  BY <1>3 DEF SyncInv, TypeOK, HasRow
<1> QED
  BY <1>1, <1>2, <1>3, <1>4, <1>5 DEF SyncInv, TypeOK, Row, IsNext

(* A worker changes one batch: its chunk loses heights that are accounted  *)
(* for, stored ones when storing does not fail, and its index moves by one *)
(* at most.  The sync thread is left where it is.                          *)
BatchMoves(t, u) ==
    /\ Becomes(t, u)
    /\ u.key = t.key /\ u.end = t.end
    /\ u.idx \in {t.idx, t.idx + 1}
    /\ u.chunk \subseteq t.chunk
    /\ \A h \in t.chunk \ u.chunk :
          /\ h \in Accounted'
          /\ "store" \notin Faults => h \in blocks'
    /\ UNCHANGED <<pc, path, seg, latestBlockCount>>

(* Every step of a worker but the last is such a move.                     *)
LEMMA WorkerMoves ==
    ASSUME SyncInv, NEW t \in tasks, WorkerStep(t), ~TaskCompleted(t)
    PROVE  \E u : BatchMoves(t, u)
<1>1. t \in BatchType
  BY DEF SyncInv, TypeOK
<1>2. CASE ReadCheckpoint(t)
  <2>1. PICK u : u = [t EXCEPT !.at = "store",
                               !.tracked = /\ t.key # InvalidHeight
                                           /\ checkpoints[t.key] # NoRow]
    OBVIOUS
  <2>2. /\ u.key = t.key /\ u.end = t.end /\ u.idx = t.idx
        /\ u.chunk = t.chunk
    BY <1>1, <2>1 DEF BatchType
  <2> QED
    BY <1>2, <2>1, <2>2 DEF ReadCheckpoint, BatchMoves, process, counts
<1>3. CASE StorePlaceholder(t)
  <2>1. PICK u : u = [t EXCEPT !.placeholders = @ - 1]
    OBVIOUS
  <2>2. /\ u.key = t.key /\ u.end = t.end /\ u.idx = t.idx
        /\ u.chunk = t.chunk
    BY <1>1, <2>1 DEF BatchType
  <2> QED
    BY <1>3, <2>1, <2>2 DEF StorePlaceholder, BatchMoves, process, counts
<1>4. ASSUME NEW h \in t.chunk, PassBlock(t, h), h \in Accounted',
             "store" \notin Faults => h \in blocks',
             UNCHANGED <<pc, path, seg, latestBlockCount>>
      PROVE  \E u : BatchMoves(t, u)
  <2>1. PICK u : u = [t EXCEPT !.at = "store", !.idx = @ + 1,
                               !.chunk = @ \ {h}]
    OBVIOUS
  <2>2. /\ u.key = t.key /\ u.end = t.end /\ u.idx = t.idx + 1
        /\ u.chunk = t.chunk \ {h}
    BY <1>1, <2>1 DEF BatchType
  <2> QED
    BY <1>4, <2>1, <2>2 DEF PassBlock, BatchMoves
<1>5. ASSUME NEW h \in t.chunk, StoreBlock(t, h)
      PROVE  \E u : BatchMoves(t, u)
  <2>1. h \in blocks' /\ UNCHANGED <<pc, path, seg, latestBlockCount>>
    BY <1>5 DEF StoreBlock, process, counts
  <2>2. CASE PassBlock(t, h)
    BY <1>4, <2>1, <2>2 DEF Accounted
  <2>3. CASE Becomes(t, [t EXCEPT !.at = "mark"])
    <3>1. PICK u : u = [t EXCEPT !.at = "mark"]
      OBVIOUS
    <3>2. /\ u.key = t.key /\ u.end = t.end /\ u.idx = t.idx
          /\ u.chunk = t.chunk
      BY <1>1, <3>1 DEF BatchType
    <3> QED
      BY <2>1, <2>3, <3>1, <3>2 DEF BatchMoves
  <2> QED
    BY <1>5, <2>2, <2>3 DEF StoreBlock
<1>6. ASSUME NEW h \in t.chunk, SkipBlock(t, h)
      PROVE  \E u : BatchMoves(t, u)
  BY <1>4, <1>6 DEF SkipBlock, Accounted, process, counts
<1>7. ASSUME NEW h \in t.chunk, MarkCheckpoint(t, h)
      PROVE  \E u : BatchMoves(t, u)
  <2>1. h \in blocks /\ blocks' = blocks
    BY <1>7, MarkMoves DEF MarkCheckpoint
  <2> QED
    BY <1>4, <1>7, <2>1 DEF MarkCheckpoint, Accounted, process, counts
<1> QED
  BY <1>2, <1>3, <1>5, <1>6, <1>7 DEF WorkerStep

(* The batches in flight, over any step: some are gone, one was added, or  *)
(* one moved.                                                              *)
LEMMA TasksMove ==
    ASSUME SyncInv, [Next]_vars
    PROVE  \/ tasks' \subseteq tasks
           \/ SubmitBatch
           \/ \E t \in tasks : \E u : BatchMoves(t, u)
<1>1. CASE \E t \in tasks : WorkerStep(t)
  BY <1>1, WorkerMoves DEF TaskCompleted
<1>2. CASE ~(\E t \in tasks : WorkerStep(t)) /\ ~SubmitBatch
  BY <1>2
     DEF Next, vars, ChainGrows, StartSync, SyncStep, Restart,
         LoseVolatileState, RefreshThreadPool, RefreshReturns,
         LoadUnfinishedCheckpoints, ResumeCheckpoint, ResumePastEnd,
         AllResumed, ChoosePath, NextSegment, DownloadBlock
<1> QED
  BY <1>1, <1>2

(* DownloadBlock leaves the segment as it is but for the height it tried.  *)
LEMMA SegmentDownloads ==
    ASSUME SyncInv, DownloadBlock
    PROVE  /\ pc = "download" /\ seg.next <= seg.end /\ seg.next \in Heights
           /\ seg.end \in Heights /\ seg.start \in 0..seg.next
           /\ seg'.key = seg.key /\ seg'.start = seg.start
           /\ seg'.end = seg.end /\ seg'.next = seg.next + 1
           /\ UNCHANGED <<blocks, tip, latestBlockCount, path, pc>>
<1>1. /\ pc = "download" /\ seg.next <= seg.end
      /\ UNCHANGED <<blocks, tip, latestBlockCount, path, pc>>
  BY DEF DownloadBlock, process, counts
<1>2. seg \in SegmentType
  BY DEF SyncInv, TypeOK
<1>3. /\ seg.next \in Heights /\ seg.end \in Heights
      /\ seg.start \in 0..seg.next
  BY <1>1, <1>2, SyncerAssumption
     DEF SyncInv, SegmentInv, SegmentType, Heights, InvalidHeight
<1>4. \/ seg' = [seg EXCEPT !.next = @ + 1, !.chunk = @ \cup {seg.next}]
      \/ seg' = [seg EXCEPT !.next = @ + 1]
  BY DEF DownloadBlock
<1> QED  BY <1>1, <1>2, <1>3, <1>4 DEF SegmentType

(* What SubmitBatch puts in flight: the segment, as it was downloaded.     *)
LEMMA SegmentSubmitted ==
    ASSUME SyncInv, SubmitBatch
    PROVE  \E b : /\ tasks' = tasks \cup {b}
                  /\ b.key = seg.key /\ b.end = seg.end
                  /\ b.idx = seg.start /\ b.chunk = seg.chunk
<1>1. PICK b : b = BatchOf(seg)
  OBVIOUS
<1>2. /\ b.key = seg.key /\ b.end = seg.end
      /\ b.idx = seg.start /\ b.chunk = seg.chunk
  BY <1>1 DEF BatchOf
<1>3. tasks' = tasks \cup {b}
  BY <1>1 DEF SubmitBatch
<1> QED
  BY <1>2, <1>3

-----------------------------------------------------------------------------
(* The height of a mark beyond the start of its chunk was tried itself.    *)
LastTried ==
    \A k \in Heights :
        HasRow(k) /\ k < checkpoints[k].last =>
            checkpoints[k].last \in Accounted

(* A mark moves to a height that was just stored, or passed before it.     *)
LEMMA LastTriedNext ==
    ASSUME SyncInv, LastTried, [Next]_vars
    PROVE  LastTried'
<1> SUFFICES ASSUME NEW k \in Heights, HasRow(k)', k < checkpoints'[k].last
             PROVE  checkpoints'[k].last \in Accounted'
  BY DEF LastTried
<1>1. CASE checkpoints'[k] = checkpoints[k]
  BY <1>1, AccountedGrows DEF LastTried, HasRow
<1>2. CASE NextSegment /\ checkpoints'[k] # checkpoints[k]
  <2>1. k = seg.start /\ checkpoints'[k].last = seg.start
    BY <1>2, RowOfSegment DEF SyncInv, TypeOK
  <2> QED  BY <2>1 DEF Heights
<1>3. ASSUME NEW t \in tasks, NEW h \in t.chunk, MarkCheckpoint(t, h),
             checkpoints'[k] # checkpoints[k]
      PROVE  checkpoints'[k].last \in Accounted'
  <2>1. k = t.key /\ checkpoints'[k].last = t.idx
    BY <1>3, MarkMoves
  <2>2. CASE t.idx = h
    BY <1>3, <2>1, <2>2, MarkMoves, AccountedGrows DEF Accounted
  <2>3. CASE t.idx # h
    <3>1. t.idx \notin t.chunk
      BY <1>3, <2>3, MarkMoves DEF BatchType, Heights
    <3>2. t.idx \in t.key..t.end
      BY <1>3, <2>1, MarkMoves DEF BatchType, Heights
    <3> QED  BY <1>3, <2>1, <3>1, <3>2, MarkMoves, AccountedGrows DEF BatchOK
  <2> QED  BY <2>2, <2>3
<1> QED  BY <1>1, <1>2, <1>3, WritersOfCheckpoints

(* A chunk of several heights that reads as finished was tried to its end, *)
(* whichever calls failed and wherever the process ended.                  *)
THEOREM FinishedIsTried == Spec => []FinishedMeansTried
<1>1. Init => LastTried
  BY DEF Init, LastTried, HasRow
<1>2. SyncInv /\ LastTried => FinishedMeansTried
  <2> SUFFICES ASSUME SyncInv, LastTried,
                      NEW k \in Heights \ UnfinishedCheckpoints,
                      checkpoints[k] # NoRow, k < checkpoints[k].end,
                      NEW h \in k..checkpoints[k].end
               PROVE  h \in Accounted
    BY DEF FinishedMeansTried, Accounted
  <2>1. /\ checkpoints[k].last = checkpoints[k].end
        /\ checkpoints[k].last \in Heights
    BY DEF UnfinishedCheckpoints, SyncInv, TypeOK, Row
  <2>2. checkpoints[k].last \in Accounted
    BY <2>1 DEF LastTried, HasRow
  <2>3. \A x \in k..(checkpoints[k].last - 1) : x \in Accounted
    BY DEF SyncInv, NoBlockSkipped, Accounted
  <2> QED  BY <2>1, <2>2, <2>3 DEF Heights
<1>3. SyncInv /\ LastTried /\ [Next]_vars => LastTried'
  BY LastTriedNext
<1> QED  BY <1>1, <1>2, <1>3, SyncInvariant, PTL DEF Spec

-----------------------------------------------------------------------------
(* Chunks start at multiples of the chunk size, because every range does   *)
(* start at 0, and all but the last of a range are full.                   *)
Aligned(h) == \E i \in Nat : h = i * ChunkSize

(* No chunk is longer than the chunk size.                                 *)
RowsAligned ==
    \A k \in Heights :
        HasRow(k) => Aligned(k) /\ checkpoints[k].end < k + ChunkSize

(* A segment of a range is a full chunk, or it ends where the range does.  *)
SegmentAligned ==
    /\ pc = "segment" => Aligned(seg.start) \/ seg.start > latestBlockCount
    /\ pc = "download" /\ path = "range" =>
          /\ Aligned(seg.key)
          /\ \/ seg.end + 1 = seg.key + ChunkSize
             \/ seg.end = latestBlockCount

AlignInv == RowsAligned /\ SegmentAligned

(* The next chunk starts a chunk size further, and no chunk starts between.*)
LEMMA NextAligned ==
    ASSUME NEW h, Aligned(h)
    PROVE  h \in Nat /\ Aligned(h + ChunkSize)
<1>1. PICK i \in Nat : h = i * ChunkSize
  BY DEF Aligned
<1>2. h + ChunkSize = (i + 1) * ChunkSize
  BY <1>1, SyncerAssumption
<1>3. i + 1 \in Nat /\ h \in Nat
  BY <1>1, SyncerAssumption
<1> QED  BY <1>2, <1>3 DEF Aligned

(* Chunk starts are at least a chunk size apart.                           *)
LEMMA AlignedApart ==
    ASSUME NEW j, NEW k, Aligned(j), Aligned(k), j < k
    PROVE  j + ChunkSize <= k
<1>1. PICK a \in Nat : j = a * ChunkSize
  BY DEF Aligned
<1>2. PICK b \in Nat : k = b * ChunkSize
  BY DEF Aligned
<1>3. a < b
  <2> SUFFICES ASSUME b <= a PROVE FALSE
    OBVIOUS
  <2>1. PICK d \in Nat : a = b + d
    <3>1. a - b \in Nat /\ a = b + (a - b)
      OBVIOUS
    <3> QED  BY <3>1
  <2>2. a * ChunkSize = b * ChunkSize + d * ChunkSize
    BY <2>1, SyncerAssumption
  <2>3. d * ChunkSize >= 0
    BY <2>1, SyncerAssumption
  <2> QED  BY <1>1, <1>2, <2>2, <2>3, SyncerAssumption
<1>4. PICK d \in Nat : b = a + 1 + d
  <2>1. b - a - 1 \in Nat /\ b = a + 1 + (b - a - 1)
    BY <1>3
  <2> QED  BY <2>1
<1>5. b * ChunkSize = a * ChunkSize + ChunkSize + d * ChunkSize
  BY <1>4, SyncerAssumption
<1>6. d * ChunkSize >= 0 /\ a * ChunkSize \in Nat
  BY SyncerAssumption
<1> QED  BY <1>1, <1>2, <1>5, <1>6, SyncerAssumption

(* The end of the segment NextSegment builds at an aligned height.         *)
LEMMA EndOfChunk ==
    ASSUME NEW e \in Nat, NEW s \in 0..e
    PROVE  LET end == GetNextSegmentIndex(e, s)
           IN  /\ end < s + ChunkSize
               /\ end + 1 = s + ChunkSize \/ end = e
BY SyncerAssumption DEF GetNextSegmentIndex

(* A row is inserted for the segment that is about to be downloaded.       *)
LEMMA RowsAlignedNext ==
    ASSUME SyncInv, AlignInv, [Next]_vars
    PROVE  RowsAligned'
<1> SUFFICES ASSUME NEW k \in Heights, HasRow(k)'
             PROVE  Aligned(k) /\ checkpoints'[k].end < k + ChunkSize
  BY DEF RowsAligned, Aligned
<1>1. CASE checkpoints'[k] = checkpoints[k]
  BY <1>1 DEF AlignInv, RowsAligned, HasRow
<1>2. CASE NextSegment /\ checkpoints'[k] # checkpoints[k]
  <2> DEFINE end == GetNextSegmentIndex(latestBlockCount, seg.start)
  <2>1. /\ k = seg.start /\ checkpoints'[k].end = end
        /\ pc = "segment" /\ k <= latestBlockCount
    BY <1>2, RowOfSegment DEF SyncInv, TypeOK
  <2>2. latestBlockCount \in Nat /\ seg.start \in 0..latestBlockCount
    BY <2>1 DEF SyncInv, TypeOK, Heights
  <2>3. end < seg.start + ChunkSize
    BY <2>2, EndOfChunk
  <2> QED  BY <2>1, <2>2, <2>3 DEF AlignInv, SegmentAligned
<1>3. ASSUME NEW t \in tasks, NEW h \in t.chunk, MarkCheckpoint(t, h),
             checkpoints'[k] # checkpoints[k]
      PROVE  Aligned(k) /\ checkpoints'[k].end < k + ChunkSize
  BY <1>3, MarkMoves DEF AlignInv, RowsAligned
<1> QED  BY <1>1, <1>2, <1>3, WritersOfCheckpoints

(* The next segment of a range starts where a full chunk ended.            *)
LEMMA SegmentAlignedNext ==
    ASSUME SyncInv, AlignInv, [Next]_vars
    PROVE  SegmentAligned'
<1>1. CASE ChoosePath
  <2>1. Aligned(0)
    BY SyncerAssumption DEF Aligned
  <2>2. \/ pc' = "sleep"
        \/ pc' = "segment" /\ seg'.start = 0
        \/ pc' = "download" /\ path' = "chunk"
    BY <1>1 DEF ChoosePath, LoadCounts, SyncedBlockCountFromDB, NothingNew,
                RangePath, ChunkPath, Segment
  <2> QED  BY <2>1, <2>2 DEF SegmentAligned, Aligned
<1>2. CASE NextSegment
  <2>1. UNCHANGED <<latestBlockCount, path>> /\ pc = "segment"
    BY <1>2 DEF NextSegment, process, counts
  <2>2. CASE seg.start <= latestBlockCount
    <3> DEFINE end == GetNextSegmentIndex(latestBlockCount, seg.start)
    <3>1. seg'.key = seg.start /\ seg'.end = end /\ pc' = "download"
      BY <1>2, <2>2 DEF NextSegment, Segment
    <3>2. latestBlockCount \in Nat /\ seg.start \in 0..latestBlockCount
      BY <2>2 DEF SyncInv, TypeOK, SegmentType, Heights, InvalidHeight
    <3>3. end + 1 = seg.start + ChunkSize \/ end = latestBlockCount
      BY <3>2, EndOfChunk
    <3>4. Aligned(seg.start)
      BY <2>1, <2>2, <3>2 DEF AlignInv, SegmentAligned
    <3> QED  BY <2>1, <3>1, <3>3, <3>4 DEF SegmentAligned, Aligned
  <2>3. CASE ~(seg.start <= latestBlockCount)
    BY <1>2, <2>3 DEF NextSegment, SegmentAligned
  <2> QED  BY <2>2, <2>3
<1>3. CASE SubmitBatch
  <2>1. UNCHANGED <<latestBlockCount, path>> /\ pc = "download"
    BY <1>3 DEF SubmitBatch, process, counts
  <2>2. CASE path = "range"
    <3>1. pc' = "segment" /\ seg'.start = seg.end + 1
      BY <1>3, <2>2 DEF SubmitBatch, Segment
    <3>2. CASE seg.end + 1 = seg.key + ChunkSize
      BY <2>1, <2>2, <3>1, <3>2, NextAligned
         DEF AlignInv, SegmentAligned, Aligned
    <3>3. CASE seg.end = latestBlockCount
      BY <2>1, <3>1, <3>3 DEF SegmentAligned, SyncInv, TypeOK, Heights
    <3> QED  BY <2>1, <2>2, <3>2, <3>3 DEF AlignInv, SegmentAligned
  <2>3. CASE path # "range"
    BY <1>3, <2>1, <2>3
       DEF SubmitBatch, SegmentAligned, SyncInv, PhaseInv
  <2> QED  BY <2>2, <2>3
<1>4. CASE DownloadBlock
  <2>1. /\ UNCHANGED <<latestBlockCount, path, pc>> /\ pc = "download"
        /\ seg'.key = seg.key /\ seg'.end = seg.end
    BY <1>4 DEF DownloadBlock, process, counts, SyncInv, TypeOK, SegmentType
  <2> QED  BY <2>1 DEF AlignInv, SegmentAligned, Aligned
<1>5. ASSUME NEW k \in Heights, ResumeCheckpoint(k)
      PROVE  SegmentAligned'
  BY <1>5 DEF ResumeCheckpoint, SegmentAligned, SyncInv, PhaseInv
<1>6. CASE UNCHANGED <<seg, pc, path, latestBlockCount>>
  BY <1>6 DEF AlignInv, SegmentAligned, Aligned
<1>7. CASE pc' \notin {"segment", "download"}
  BY <1>7 DEF SegmentAligned
<1> QED
  BY <1>1, <1>2, <1>3, <1>4, <1>5, <1>6, <1>7
     DEF Next, vars, durable, process, counts, ChainGrows, StartSync, SyncStep,
         WorkerStep, Restart, LoseVolatileState, RefreshThreadPool,
         RefreshReturns, LoadUnfinishedCheckpoints, ResumePastEnd, AllResumed,
         ReadCheckpoint, StorePlaceholder, StoreBlock, SkipBlock,
         MarkCheckpoint, TaskCompleted

-----------------------------------------------------------------------------
(* The slot of a checkpoint is the ChunkSize heights from its start.  The  *)
(* marks, the batches and the segment being downloaded stay in the slots.  *)
SlotInv ==
    /\ \A k \in Heights :
          HasRow(k) => /\ k <= checkpoints[k].last
                       /\ checkpoints[k].last < k + ChunkSize
    /\ \A t \in tasks :
          t.key \in Heights => t.key <= t.idx /\ t.end < t.key + ChunkSize
    /\ pc = "download" /\ seg.key \in Heights =>
          seg.key <= seg.start /\ seg.end < seg.key + ChunkSize

(* A mark is the position of a block that lies in the batch.               *)
LEMMA MarksInSlots ==
    ASSUME SyncInv, AlignInv, SlotInv, [Next]_vars,
           NEW k \in Heights, HasRow(k)'
    PROVE  /\ k <= checkpoints'[k].last
           /\ checkpoints'[k].last < k + ChunkSize
<1>1. CASE checkpoints'[k] = checkpoints[k]
  BY <1>1 DEF SlotInv, HasRow
<1>2. CASE NextSegment /\ checkpoints'[k] # checkpoints[k]
  <2>1. k = seg.start /\ checkpoints'[k].last = seg.start
    BY <1>2, RowOfSegment DEF SyncInv, TypeOK
  <2> QED
    BY <2>1, SyncerAssumption DEF Heights
<1>3. ASSUME NEW t \in tasks, NEW h \in t.chunk, MarkCheckpoint(t, h),
             checkpoints'[k] # checkpoints[k]
      PROVE  /\ k <= checkpoints'[k].last
             /\ checkpoints'[k].last < k + ChunkSize
  <2>1. /\ k = t.key /\ checkpoints'[k].last = t.idx
        /\ t.idx <= h /\ h <= t.end
        /\ t.idx \in Nat /\ h \in Nat /\ t.end \in Nat
    BY <1>3, MarkMoves DEF BatchType, Heights
  <2>2. t.key <= t.idx /\ t.end < t.key + ChunkSize
    BY <2>1 DEF SlotInv
  <2> QED
    BY <2>1, <2>2, SyncerAssumption DEF Heights
<1> QED
  BY <1>1, <1>2, <1>3, WritersOfCheckpoints

(* A segment gets its bounds from the row or from GetNextSegmentIndex, and *)
(* downloading changes neither.                                            *)
LEMMA SegmentInSlot ==
    ASSUME SyncInv, AlignInv, SlotInv, [Next]_vars,
           pc' = "download", seg'.key \in Heights
    PROVE  seg'.key <= seg'.start /\ seg'.end < seg'.key + ChunkSize
<1>1. CASE UNCHANGED <<pc, seg>>
  BY <1>1 DEF SlotInv
<1>2. CASE DownloadBlock
  <2>1. /\ pc = "download" /\ seg'.key = seg.key
        /\ seg'.start = seg.start /\ seg'.end = seg.end
    BY <1>2, SegmentDownloads
  <2> QED
    BY <2>1 DEF SlotInv
<1>3. CASE ChoosePath
  <2>1. seg'.key = InvalidHeight
    BY <1>3 DEF ChoosePath, NothingNew, RangePath, ChunkPath, Segment
  <2> QED
    BY <2>1, SyncerAssumption DEF InvalidHeight, Heights
<1>4. CASE NextSegment
  <2> DEFINE end == GetNextSegmentIndex(latestBlockCount, seg.start)
  <2>1. /\ seg'.key = seg.start /\ seg'.start = seg.start /\ seg'.end = end
        /\ seg.start <= latestBlockCount
    BY <1>4 DEF NextSegment, Segment
  <2>2. latestBlockCount \in Nat /\ seg.start \in 0..latestBlockCount
    BY <2>1 DEF SyncInv, TypeOK, SegmentType, Heights, InvalidHeight
  <2>3. end < seg.start + ChunkSize
    BY <2>2, EndOfChunk
  <2> QED
    BY <2>1, <2>2, <2>3
<1>5. ASSUME NEW k \in Heights, ResumeCheckpoint(k)
      PROVE  seg'.key <= seg'.start /\ seg'.end < seg'.key + ChunkSize
  <2>1. /\ HasRow(k) /\ seg'.key = k /\ seg'.start = checkpoints[k].last
        /\ seg'.end = checkpoints[k].end
    BY <1>5 DEF ResumeCheckpoint, Segment, SyncInv, WriterInv
  <2> QED
    BY <2>1 DEF SlotInv, AlignInv, RowsAligned
<1>6. CASE SubmitBatch
  BY <1>6 DEF SubmitBatch, SyncInv, PhaseInv
<1> QED
  BY <1>1, <1>2, <1>3, <1>4, <1>5, <1>6
     DEF Next, vars, ChainGrows, StartSync, SyncStep, WorkerStep, Restart,
         LoseVolatileState, RefreshThreadPool, RefreshReturns,
         LoadUnfinishedCheckpoints, ResumePastEnd, AllResumed,
         ReadCheckpoint, StorePlaceholder, StoreBlock, SkipBlock,
         MarkCheckpoint, TaskCompleted

(* A batch keeps the bounds of its segment.                                *)
LEMMA BatchesInSlots ==
    ASSUME SyncInv, SlotInv, [Next]_vars,
           NEW b \in tasks', b.key \in Heights
    PROVE  b.key <= b.idx /\ b.end < b.key + ChunkSize
<1>1. CASE b \in tasks
  BY <1>1 DEF SlotInv
<1>2. CASE SubmitBatch /\ b \notin tasks
  <2>1. /\ b.key = seg.key /\ b.end = seg.end /\ b.idx = seg.start
        /\ pc = "download"
    BY <1>2, SegmentSubmitted DEF SubmitBatch
  <2> QED
    BY <2>1 DEF SlotInv
<1>3. ASSUME NEW t \in tasks, NEW u, BatchMoves(t, u), b \notin tasks
      PROVE  b.key <= b.idx /\ b.end < b.key + ChunkSize
  <2>1. /\ b.key = t.key /\ b.end = t.end
        /\ b.idx \in {t.idx, t.idx + 1}
    BY <1>3 DEF BatchMoves, Becomes
  <2>2. t.idx \in Nat /\ t.key \in Nat
    BY DEF SyncInv, TypeOK, BatchType
  <2>3. t.key <= t.idx /\ t.end < t.key + ChunkSize
    BY <2>1 DEF SlotInv
  <2> QED
    BY <2>1, <2>2, <2>3
<1> QED
  BY <1>1, <1>2, <1>3, TasksMove

(* What holds of chunks and marks, whatever fails.                         *)
THEOREM ChunkInvariant == Spec => [](AlignInv /\ SlotInv)
<1>1. Init => AlignInv /\ SlotInv
  BY DEF Init, AlignInv, RowsAligned, SegmentAligned, SlotInv, HasRow
<1>2. SyncInv /\ AlignInv /\ SlotInv /\ [Next]_vars => (AlignInv /\ SlotInv)'
  <2> SUFFICES ASSUME SyncInv, AlignInv, SlotInv, [Next]_vars
               PROVE  (AlignInv /\ SlotInv)'
    OBVIOUS
  <2>1. AlignInv'
    BY RowsAlignedNext, SegmentAlignedNext DEF AlignInv
  <2>2. SlotInv'
    BY MarksInSlots, SegmentInSlot, BatchesInSlots DEF SlotInv
  <2> QED
    BY <2>1, <2>2
<1> QED  BY <1>1, <1>2, SyncInvariant, PTL DEF Spec

(* How far MarkWithinChunk is from the truth: a mark may pass the recorded *)
(* end of its chunk, but never by more than a longer chain would have made *)
(* the chunk longer, and it never falls before the start.                  *)
MarkInSlot ==
    \A k \in Heights :
        HasRow(k) => checkpoints[k].last \in k..(k + ChunkSize - 1)

(* UpdateChunkCheckpoint never writes a height of another chunk.           *)
THEOREM MarksStayInTheirSlots == Spec => []MarkInSlot
<1>1. SyncInv /\ SlotInv => MarkInSlot
  <2> SUFFICES ASSUME SyncInv, SlotInv, NEW k \in Heights, HasRow(k)
               PROVE  checkpoints[k].last \in k..(k + ChunkSize - 1)
    BY DEF MarkInSlot
  <2>1. checkpoints[k].last \in Nat
    BY DEF SyncInv, TypeOK, HasRow, Row, Heights
  <2> QED
    BY <2>1, SyncerAssumption DEF SlotInv, Heights
<1> QED  BY <1>1, SyncInvariant, ChunkInvariant, PTL

(* No two chunks have a height in common, over any growth of the chain,    *)
(* and no mark reaches the next chunk.                                     *)
THEOREM ChunksAreDisjoint == Spec => []ChunksDisjoint
<1>1. SyncInv /\ AlignInv /\ SlotInv => ChunksDisjoint
  <2> SUFFICES ASSUME SyncInv, AlignInv, SlotInv,
                      NEW j \in Heights, NEW k \in Heights,
                      HasRow(j), HasRow(k), j < k
               PROVE  checkpoints[j].end < k /\ checkpoints[j].last < k
    BY DEF ChunksDisjoint, HasRow
  <2>1. j + ChunkSize <= k
    BY AlignedApart DEF AlignInv, RowsAligned
  <2>2. /\ checkpoints[j].end \in Nat /\ checkpoints[j].last \in Nat
        /\ checkpoints[j].end < j + ChunkSize
        /\ checkpoints[j].last < j + ChunkSize
    BY DEF AlignInv, RowsAligned, SlotInv, SyncInv, TypeOK, HasRow, Row,
           Heights
  <2> QED  BY <2>1, <2>2, SyncerAssumption DEF Heights
<1> QED  BY <1>1, SyncInvariant, ChunkInvariant, PTL

-----------------------------------------------------------------------------
(* The batches in flight are of chunks, or there is only the batch of the  *)
(* short chunk, and no other is submitted beside it.                       *)
LoneInv ==
    /\ pc = "download" =>
          IF path = "chunk" THEN seg.key \notin Heights ELSE Aligned(seg.key)
    /\ \A t \in tasks : t.key \in Heights => Aligned(t.key)
    /\ \A t \in tasks :
          t.key \notin Heights =>
              path = "chunk" /\ pc \in {"refresh", "joining"} /\ tasks = {t}

(* The segment is of a chunk in the range and in a checkpoint.             *)
LEMMA SegmentKeyNext ==
    ASSUME SyncInv, AlignInv, LoneInv, [Next]_vars, pc' = "download"
    PROVE  IF path' = "chunk" THEN seg'.key \notin Heights
                              ELSE Aligned(seg'.key)
<1>1. CASE UNCHANGED <<pc, path, seg>>
  BY <1>1 DEF LoneInv
<1>2. CASE DownloadBlock
  BY <1>2, SegmentDownloads DEF LoneInv
<1>3. CASE ChoosePath
  <2>1. pc' = "download" => path' = "chunk" /\ seg'.key = InvalidHeight
    BY <1>3 DEF ChoosePath, NothingNew, RangePath, ChunkPath, Segment
  <2> QED
    BY <2>1, SyncerAssumption DEF InvalidHeight, Heights
<1>4. CASE NextSegment
  <2>1. /\ seg'.key = seg.start /\ seg.start <= latestBlockCount
        /\ path' = path /\ pc = "segment"
    BY <1>4 DEF NextSegment, Segment
  <2>2. path = "range" /\ Aligned(seg.start)
    <3>1. latestBlockCount \in Int /\ seg.start \in Int
      BY SyncerAssumption
         DEF SyncInv, TypeOK, SegmentType, Heights, InvalidHeight
    <3> QED
      BY <2>1, <3>1 DEF SyncInv, PhaseInv, AlignInv, SegmentAligned
  <2> QED
    BY <2>1, <2>2
<1>5. ASSUME NEW k \in Heights, ResumeCheckpoint(k)
      PROVE  path' = "resume" /\ Aligned(seg'.key)
  <2>1. /\ HasRow(k) /\ seg'.key = k /\ path' = path /\ pc = "resume"
    BY <1>5 DEF ResumeCheckpoint, Segment, SyncInv, WriterInv
  <2> QED
    BY <2>1 DEF AlignInv, RowsAligned, SyncInv, PhaseInv
<1>6. CASE SubmitBatch
  BY <1>6 DEF SubmitBatch, SyncInv, PhaseInv
<1> QED
  BY <1>1, <1>2, <1>3, <1>4, <1>5, <1>6
     DEF Next, vars, ChainGrows, StartSync, SyncStep, WorkerStep, Restart,
         LoseVolatileState, RefreshThreadPool, RefreshReturns,
         LoadUnfinishedCheckpoints, ResumePastEnd, AllResumed,
         ReadCheckpoint, StorePlaceholder, StoreBlock, SkipBlock,
         MarkCheckpoint, TaskCompleted

(* While the batch of the short chunk is in flight, the sync thread waits  *)
(* for it.                                                                 *)
LEMMA SyncWaitsForShortChunk ==
    ASSUME SyncInv, LoneInv, [Next]_vars, ~LoseVolatileState,
           NEW t \in tasks, t.key \notin Heights
    PROVE  /\ path' = "chunk" /\ pc' \in {"refresh", "joining"}
           /\ ~SubmitBatch
<1>1. path = "chunk" /\ pc \in {"refresh", "joining"} /\ tasks = {t}
  BY DEF LoneInv
<1> QED
  BY <1>1
     DEF Next, vars, ChainGrows, StartSync, SyncStep, WorkerStep, Restart,
         RefreshThreadPool, RefreshReturns, LoadUnfinishedCheckpoints,
         ResumeCheckpoint, ResumePastEnd, AllResumed, ChoosePath, NextSegment,
         DownloadBlock, SubmitBatch, ReadCheckpoint, StorePlaceholder,
         StoreBlock, SkipBlock, MarkCheckpoint, TaskCompleted

(* The batches stay of chunks, or the one of the short chunk stays alone.  *)
LEMMA LoneNext ==
    ASSUME SyncInv, AlignInv, LoneInv, [Next]_vars
    PROVE  LoneInv'
<1>1. CASE LoseVolatileState
  BY <1>1 DEF LoseVolatileState, LoneInv
<1>2. ASSUME ~LoseVolatileState, NEW b \in tasks'
      PROVE  IF b.key \in Heights THEN Aligned(b.key)
             ELSE path' = "chunk" /\ pc' \in {"refresh", "joining"}
                    /\ tasks' = {b}
  <2>1. CASE SubmitBatch
    <3>1. PICK c : /\ tasks' = tasks \cup {c}
                   /\ c.key = seg.key
      BY <2>1, SegmentSubmitted
    <3>2. /\ pc = "download" /\ path' = path
          /\ path = "chunk" => pc' = "refresh"
      BY <2>1 DEF SubmitBatch
    <3>3. \A t \in tasks : t.key \in Heights
      BY <3>2 DEF LoneInv
    <3>4. path = "chunk" => tasks = {}
      BY <3>2 DEF SyncInv, PhaseInv
    <3>5. path # "chunk" => seg.key \in Heights
      BY <3>2, SyncerAssumption
         DEF SyncInv, PhaseInv, WriterInv, TypeOK, SegmentType, Heights,
             InvalidHeight
    <3> QED
      BY <1>2, <3>1, <3>2, <3>3, <3>4, <3>5 DEF LoneInv
  <2>2. CASE ~SubmitBatch /\ b \in tasks
    <3>1. CASE b.key \in Heights
      BY <2>2, <3>1 DEF LoneInv
    <3>2. CASE b.key \notin Heights
      <4>1. tasks = {b}
        BY <2>2, <3>2 DEF LoneInv
      <4>2. path' = "chunk" /\ pc' \in {"refresh", "joining"}
        BY <1>2, <2>2, <3>2, SyncWaitsForShortChunk
      <4>3. tasks' = {b}
        <5>1. tasks' \subseteq tasks \/ \E t \in tasks : \E u : BatchMoves(t, u)
          BY <2>2, TasksMove
        <5>2. ASSUME NEW t \in tasks, NEW u, BatchMoves(t, u)
              PROVE  tasks' = {b}
          <6>1. tasks' = (tasks \ {t}) \cup {u} /\ t = b
            BY <4>1, <5>2 DEF BatchMoves, Becomes
          <6> QED  BY <1>2, <4>1, <6>1
        <5> QED  BY <1>2, <4>1, <5>1, <5>2
      <4> QED  BY <3>2, <4>2, <4>3
    <3> QED  BY <3>1, <3>2
  <2>3. CASE ~SubmitBatch /\ b \notin tasks
    <3>0. PICK t \in tasks : \E u : BatchMoves(t, u)
      BY <1>2, <2>3, TasksMove
    <3>1. PICK u : BatchMoves(t, u)
      BY <3>0
    <3>2. b = u /\ b.key = t.key /\ tasks' = (tasks \ {t}) \cup {u}
      BY <1>2, <2>3, <3>1 DEF BatchMoves, Becomes
    <3>3. CASE b.key \in Heights
      BY <3>2, <3>3 DEF LoneInv
    <3>4. CASE b.key \notin Heights
      <4>1. tasks' = {b}
        BY <3>2, <3>4 DEF LoneInv
      <4>2. path' = "chunk" /\ pc' \in {"refresh", "joining"}
        BY <1>2, <3>2, <3>4, SyncWaitsForShortChunk
      <4> QED  BY <3>4, <4>1, <4>2
    <3> QED  BY <3>3, <3>4
  <2> QED
    BY <2>1, <2>2, <2>3
<1> QED
  BY <1>1, <1>2, SegmentKeyNext DEF LoneInv

(* No block is in two batches at the same time.  BlockStore relies on it:  *)
(* two workers never have a transaction open for the same block.           *)
BatchesDisjoint ==
    \A t, u \in tasks : t # u => t.chunk \cap u.chunk = {}

(* The chunks of a sync and those of the checkpoints it resumes lie in     *)
(* slots of their own, and the short chunk is downloaded after both.       *)
THEOREM BatchesShareNoBlock == Spec => []BatchesDisjoint
<1>1. Init => LoneInv
  BY DEF Init, LoneInv
<1>2. SyncInv /\ SlotInv /\ LoneInv => BatchesDisjoint
  <2> SUFFICES ASSUME SyncInv, SlotInv, LoneInv,
                      NEW t \in tasks, NEW u \in tasks, t # u,
                      NEW x \in t.chunk, x \in u.chunk
               PROVE  FALSE
    BY DEF BatchesDisjoint
  <2>1. t.key \in Heights /\ u.key \in Heights /\ t.key # u.key
    BY DEF LoneInv, SyncInv, WriterInv, OneWriterPerCheckpoint
  <2>2. \A v \in {t, u} :
           /\ Aligned(v.key) /\ v.key \in Int
           /\ v.idx \in Int /\ v.end \in Int /\ x \in Int
           /\ v.key <= v.idx /\ v.idx <= x
           /\ x <= v.end /\ v.end < v.key + ChunkSize
    BY <2>1, SyncerAssumption
       DEF LoneInv, SyncInv, BatchInv, BatchOK, SlotInv, TypeOK, BatchType,
           Heights, InvalidHeight
  <2>3. CASE t.key < u.key
    BY <2>2, <2>3, AlignedApart, SyncerAssumption
  <2>4. CASE u.key < t.key
    BY <2>2, <2>4, AlignedApart, SyncerAssumption
  <2> QED
    BY <2>1, <2>2, <2>3, <2>4
<1> QED
  BY <1>1, <1>2, LoneNext, SyncInvariant, ChunkInvariant, PTL DEF Spec

-----------------------------------------------------------------------------
(* No sync looks beyond the height zcashd reported.                        *)
TipInv ==
    /\ latestBlockCount <= tip
    /\ \A k \in Heights : HasRow(k) => checkpoints[k].end <= tip
    /\ pc = "download" => seg.end <= tip

(* The counts are read from a chain that only grows.                       *)
LEMMA TipNext ==
    ASSUME SyncInv, TipInv, [Next]_vars
    PROVE  TipInv'
<1>1. tip <= tip' /\ tip \in Nat /\ tip' \in Nat
  <2>1. UNCHANGED tip \/ tip' = tip + 1
    BY DEF Next, vars, ChainGrows, StartSync, SyncStep, WorkerStep, Restart,
           RefreshThreadPool, RefreshReturns, LoadUnfinishedCheckpoints,
           ResumeCheckpoint, ResumePastEnd, AllResumed, ChoosePath,
           NextSegment, DownloadBlock, SubmitBatch, ReadCheckpoint,
           StorePlaceholder, StoreBlock, SkipBlock, MarkCheckpoint,
           TaskCompleted
  <2> QED  BY <2>1 DEF SyncInv, TypeOK, Heights
<1>2. latestBlockCount' <= tip'
  <2>1. \/ UNCHANGED latestBlockCount
        \/ latestBlockCount' = tip
        \/ latestBlockCount' = 0
    BY DEF Next, vars, process, counts, ChainGrows, StartSync,
           ShouldSyncWallet,
         SyncStep,
         WorkerStep, Restart, LoseVolatileState, RefreshThreadPool,
         RefreshReturns, LoadUnfinishedCheckpoints, ResumeCheckpoint,
         ResumePastEnd, AllResumed, ChoosePath, LoadCounts, NextSegment,
         DownloadBlock, SubmitBatch, ReadCheckpoint, StorePlaceholder,
         StoreBlock, SkipBlock, MarkCheckpoint, TaskCompleted
  <2> QED  BY <1>1, <2>1 DEF TipInv, SyncInv, TypeOK, Heights
<1>3. ASSUME NEW k \in Heights, HasRow(k)'
      PROVE  checkpoints'[k].end <= tip'
  <2>1. CASE checkpoints'[k] = checkpoints[k]
    BY <1>1, <1>3, <2>1
       DEF TipInv, HasRow, SyncInv, TypeOK, Row, Heights
  <2>2. CASE NextSegment /\ checkpoints'[k] # checkpoints[k]
    <3>1. /\ checkpoints'[k].end
                = GetNextSegmentIndex(latestBlockCount, seg.start)
          /\ latestBlockCount \in Nat /\ seg.start \in 0..latestBlockCount
      <4>1. /\ checkpoints \in [Heights -> Row \cup {NoRow}]
            /\ latestBlockCount \in Nat
        BY DEF SyncInv, TypeOK, Heights
      <4>2. k = seg.start
        BY <2>2, <4>1, RowOfSegment
      <4>3. checkpoints' # checkpoints
        BY <2>2
      <4>4. /\ seg.start \in Heights /\ seg.start <= latestBlockCount
            /\ checkpoints' = [checkpoints EXCEPT ![seg.start] =
                 [end  |-> GetNextSegmentIndex(latestBlockCount, seg.start),
                  last |-> seg.start]]
        BY <2>2, <4>3, RowOfSegment
      <4> QED  BY <4>1, <4>2, <4>4 DEF Heights
    <3> QED  BY <1>1, <3>1, SegmentEnd DEF TipInv
  <2>3. ASSUME NEW t \in tasks, NEW h \in t.chunk, MarkCheckpoint(t, h),
               checkpoints'[k] # checkpoints[k]
        PROVE  checkpoints'[k].end <= tip'
    BY <1>1, <2>3, MarkMoves
       DEF TipInv, HasRow, SyncInv, TypeOK, Row, Heights
  <2> QED  BY <2>1, <2>2, <2>3, WritersOfCheckpoints
<1>4. pc' = "download" => seg'.end <= tip'
  <2>1. CASE UNCHANGED <<pc, seg>>
    BY <1>1, <2>1 DEF TipInv, SyncInv, TypeOK, SegmentType, Heights
  <2>2. CASE DownloadBlock
    <3>1. pc = "download" /\ seg'.end = seg.end /\ seg.end \in Nat
      BY <2>2, SegmentDownloads DEF Heights
    <3> QED  BY <1>1, <3>1 DEF TipInv
  <2>3. CASE ChoosePath
    BY <1>1, <2>3
       DEF ChoosePath, LoadCounts, NothingNew, RangePath, ChunkPath, Segment
  <2>4. CASE NextSegment /\ pc' = "download"
    <3>1. /\ seg'.end = GetNextSegmentIndex(latestBlockCount, seg.start)
          /\ latestBlockCount \in Nat /\ seg.start \in 0..latestBlockCount
      BY <2>4 DEF NextSegment, Segment, SyncInv, TypeOK, SegmentType, Heights,
                  InvalidHeight
    <3> QED  BY <1>1, <3>1, SegmentEnd DEF TipInv
  <2>5. ASSUME NEW k \in Heights, ResumeCheckpoint(k)
        PROVE  seg'.end <= tip'
    <3>1. HasRow(k) /\ seg'.end = checkpoints[k].end
      BY <2>5 DEF ResumeCheckpoint, Segment, SyncInv, WriterInv
    <3> QED
      BY <1>1, <3>1 DEF TipInv, SyncInv, TypeOK, HasRow, Row, Heights
  <2>6. CASE SubmitBatch
    BY <2>6 DEF SubmitBatch, SyncInv, PhaseInv
  <2>7. CASE pc' # "download"
    BY <2>7
  <2> QED
    BY <2>1, <2>2, <2>3, <2>4, <2>5, <2>6, <2>7
       DEF Next, vars, ChainGrows, StartSync, SyncStep, WorkerStep, Restart,
           LoseVolatileState, RefreshThreadPool, RefreshReturns,
           LoadUnfinishedCheckpoints, ResumePastEnd, AllResumed,
           ReadCheckpoint, StorePlaceholder, StoreBlock, SkipBlock,
           MarkCheckpoint, TaskCompleted
<1> QED  BY <1>2, <1>3, <1>4 DEF TipInv

-----------------------------------------------------------------------------
(* When no call fails.  In a chunk only the genesis block and the block at *)
(* its end, when that is the tip, are not downloaded.                      *)
CleanRows ==
    \A k \in Heights :
        HasRow(k) =>
            /\ k <= checkpoints[k].last
            /\ \A h \in k..(checkpoints[k].last - 1) : h \in blocks \cup {0}
            /\ k < checkpoints[k].last => checkpoints[k].last \in blocks

(* Below seg.next a segment lacks only heights that are not downloaded.    *)
CleanSegment ==
    pc = "download" =>
        /\ 0 \notin seg.chunk
        /\ \A x \in (seg.start + 1)..(seg.next - 1) :
              x = seg.end \/ x \in seg.chunk
        /\ seg.key \in Heights =>
              /\ seg.key <= seg.start
              /\ \A h \in seg.key..(seg.next - 1) :
                    h = seg.end \/ h \in seg.chunk \cup blocks \cup {0}

(* The index of a batch is at most one behind its next block.              *)
CleanBatch(t) ==
    /\ 0 \notin t.chunk
    /\ \A x \in (t.idx + 1)..(t.end - 1) : x \in t.chunk
    /\ t.key \in Heights =>
          /\ t.key <= t.idx
          /\ \A h \in t.key..t.end :
                h = t.end \/ h \in t.chunk \cup blocks \cup {0}
    /\ t.at = "mark" => checkpoints[t.key].last <= t.idx

CleanBatches == \A t \in tasks : CleanBatch(t)

CleanInv == TipInv /\ CleanRows /\ CleanSegment /\ CleanBatches

(* A mark moves over heights that were stored one after the other.         *)
LEMMA CleanRowsNext ==
    ASSUME SyncInv, CleanInv, [Next]_vars
    PROVE  CleanRows'
<1> SUFFICES ASSUME NEW k \in Heights, HasRow(k)'
             PROVE  /\ k <= checkpoints'[k].last
                    /\ \A h \in k..(checkpoints'[k].last - 1) :
                          h \in blocks' \cup {0}
                    /\ k < checkpoints'[k].last =>
                          checkpoints'[k].last \in blocks'
  BY DEF CleanRows
<1>1. CASE checkpoints'[k] = checkpoints[k]
  BY <1>1, AccountedGrows DEF CleanInv, CleanRows, HasRow
<1>2. CASE NextSegment /\ checkpoints'[k] # checkpoints[k]
  <2>1. k = seg.start /\ checkpoints'[k].last = seg.start
    BY <1>2, RowOfSegment DEF SyncInv, TypeOK
  <2> QED  BY <2>1 DEF Heights
<1>3. ASSUME NEW t \in tasks, NEW h \in t.chunk, MarkCheckpoint(t, h),
             checkpoints'[k] # checkpoints[k]
      PROVE  /\ k <= checkpoints'[k].last
             /\ \A x \in k..(checkpoints'[k].last - 1) : x \in blocks' \cup {0}
             /\ k < checkpoints'[k].last => checkpoints'[k].last \in blocks'
  <2>1. k = t.key /\ checkpoints'[k].last = t.idx
    BY <1>3, MarkMoves
  <2>2. CleanBatch(t)
    BY DEF CleanInv, CleanBatches
  <2>3. /\ t.idx \in Nat /\ h \in Nat /\ t.end \in Nat /\ t.idx <= h
        /\ h <= t.end /\ h \in blocks
        /\ \A x \in t.chunk : h <= x
    BY <1>3, MarkMoves DEF BatchType, Heights
  <2>4. ASSUME NEW x \in k..t.idx, x # h
        PROVE  x \in blocks \cup {0}
    <3>1. x \in Nat /\ x < h /\ x \in k..t.end /\ x # t.end
      BY <2>3, <2>4 DEF Heights
    <3>2. x \notin t.chunk
      BY <2>3, <3>1
    <3> QED  BY <2>1, <2>2, <3>1, <3>2 DEF CleanBatch
  <2>5. k <= t.idx
    BY <2>1, <2>2 DEF CleanBatch
  <2>6. k < t.idx => t.idx \in blocks
    BY <2>3, <2>4, <2>5 DEF Heights
  <2>7. \A x \in k..(t.idx - 1) : x \in blocks \cup {0}
    BY <2>3, <2>4 DEF Heights
  <2> QED  BY <2>1, <2>5, <2>6, <2>7, AccountedGrows
<1> QED  BY <1>1, <1>2, <1>3, WritersOfCheckpoints

(* Without failing calls every height between genesis and the tip is       *)
(* downloaded when it is tried.                                            *)
LEMMA CleanSegmentNext ==
    ASSUME Faults = {}, SyncInv, CleanInv, [Next]_vars
    PROVE  CleanSegment'
<1>1. CASE UNCHANGED <<pc, seg>>
  BY <1>1, AccountedGrows DEF CleanInv, CleanSegment
<1>2. CASE DownloadBlock
  <2> DEFINE n == seg.next
  <2>1. /\ pc = "download" /\ n <= seg.end /\ n \in Nat /\ seg.end \in Nat
        /\ seg.start \in Nat /\ seg.start <= n
        /\ seg'.key = seg.key /\ seg'.start = seg.start
        /\ seg'.end = seg.end /\ seg'.next = n + 1
        /\ UNCHANGED <<blocks, tip>>
    BY <1>2, SegmentDownloads DEF Heights
  <2>2. \/ n # 0 /\ seg'.chunk = seg.chunk \cup {n}
        \/ (n = 0 \/ n = seg.end) /\ seg'.chunk = seg.chunk
    <3>1. CASE Downloadable(n) /\ seg' = [seg EXCEPT !.next = @ + 1,
                                                     !.chunk = @ \cup {n}]
      BY <3>1 DEF Downloadable, SyncInv, TypeOK, SegmentType
    <3>2. CASE ~Downloadable(n) /\ seg' = [seg EXCEPT !.next = @ + 1]
      <4>1. seg.end <= tip /\ tip \in Nat
        BY <2>1 DEF CleanInv, TipInv, SyncInv, TypeOK, Heights
      <4>2. n = 0 \/ n = seg.end
        BY <2>1, <3>2, <4>1 DEF Downloadable
      <4> QED  BY <3>2, <4>2 DEF SyncInv, TypeOK, SegmentType
    <3> QED  BY <1>2, <3>1, <3>2 DEF DownloadBlock
  <2>3. /\ 0 \notin seg.chunk
        /\ \A x \in (seg.start + 1)..(n - 1) : x = seg.end \/ x \in seg.chunk
        /\ seg.key \in Heights =>
              /\ seg.key <= seg.start
              /\ \A h \in seg.key..(n - 1) :
                    h = seg.end \/ h \in seg.chunk \cup blocks \cup {0}
    BY <2>1 DEF CleanInv, CleanSegment
  <2>4. 0 \notin seg'.chunk
    BY <2>2, <2>3
  <2> HIDE DEF n
  <2>5. \A x \in (seg'.start + 1)..(seg'.next - 1) :
           x = seg'.end \/ x \in seg'.chunk
    BY <2>1, <2>2, <2>3
  <2>6. seg.key \in Heights =>
           \A h \in seg'.key..(seg'.next - 1) :
              h = seg'.end \/ h \in seg'.chunk \cup blocks' \cup {0}
    BY <2>1, <2>2, <2>3 DEF Heights
  <2> QED  BY <2>1, <2>3, <2>4, <2>5, <2>6 DEF CleanSegment
<1>3. CASE ChoosePath
  <2>1. CASE pc' = "download"
    <3>1. seg' = Segment(InvalidHeight, 1, latestBlockCount',
                         latestBlockCount')
      BY <1>3, <2>1
         DEF ChoosePath, LoadCounts, SyncedBlockCountFromDB, NothingNew,
             RangePath, ChunkPath, SyncInv, TypeOK, Heights
    <3>2. InvalidHeight \notin Heights
      BY SyncerAssumption DEF InvalidHeight, Heights
    <3> QED  BY <3>1, <3>2 DEF CleanSegment, Segment
  <2> QED  BY <2>1 DEF CleanSegment
<1>4. CASE NextSegment
  <2>1. CASE pc' = "download"
    <3>1. /\ seg'.key = seg.start /\ seg'.start = seg.start
          /\ seg'.next = seg.start /\ seg'.chunk = {} /\ seg.start \in Nat
      BY <1>4, <2>1 DEF NextSegment, Segment, SyncInv, TypeOK, SegmentType,
                        InvalidHeight
    <3> QED  BY <3>1 DEF CleanSegment
  <2> QED  BY <2>1 DEF CleanSegment
<1>5. ASSUME NEW k \in Heights, ResumeCheckpoint(k)
      PROVE  CleanSegment'
  <2>1. /\ HasRow(k) /\ UNCHANGED blocks
        /\ seg'.key = k /\ seg'.start = checkpoints[k].last
        /\ seg'.next = checkpoints[k].last /\ seg'.chunk = {}
        /\ checkpoints[k].last \in Nat
    BY <1>5 DEF ResumeCheckpoint, Segment, SyncInv, WriterInv, TypeOK, HasRow,
                Row, Heights, durable
  <2> QED  BY <2>1 DEF CleanSegment, CleanInv, CleanRows
<1>6. CASE pc' # "download"
  BY <1>6 DEF CleanSegment
<1>7. CASE SubmitBatch
  BY <1>7 DEF SubmitBatch, SyncInv, PhaseInv, CleanSegment
<1> QED
  BY <1>1, <1>2, <1>3, <1>4, <1>5, <1>6, <1>7
     DEF Next, vars, ChainGrows, StartSync, SyncStep, WorkerStep, Restart,
         LoseVolatileState, RefreshThreadPool, RefreshReturns,
         LoadUnfinishedCheckpoints, ResumePastEnd, AllResumed, ReadCheckpoint,
         StorePlaceholder, StoreBlock, SkipBlock, MarkCheckpoint, TaskCompleted

(* A batch of the pool becomes another of its chunk, is completed, or is   *)
(* the segment that was downloaded.                                        *)
LEMMA CleanBatchKept ==
    ASSUME SyncInv, CleanInv, [Next]_vars, NEW t \in tasks,
           t.at # "mark" \/ checkpoints'[t.key] = checkpoints[t.key]
    PROVE  CleanBatch(t)'
BY AccountedGrows DEF CleanInv, CleanBatches, CleanBatch

(* The next block of a batch is passed: it is stored.                      *)
LEMMA CleanBatchPassed ==
    ASSUME SyncInv, CleanInv, [Next]_vars, NEW t \in tasks, NEW h \in t.chunk,
           IsNext(t, h), h \in blocks',
           NEW u,
           u = [t EXCEPT !.at = "store", !.idx = @ + 1, !.chunk = @ \ {h}]
    PROVE  CleanBatch(u)'
<1>1. /\ t \in BatchType /\ BatchOK(t) /\ CleanBatch(t)
  BY DEF SyncInv, TypeOK, BatchInv, CleanInv, CleanBatches
<1>2. /\ u.key = t.key /\ u.end = t.end /\ u.at = "store"
      /\ u.idx = t.idx + 1 /\ u.chunk = t.chunk \ {h}
      /\ t.idx \in Nat /\ t.end \in Nat /\ h \in Nat
      /\ t.key \in 0..InvalidHeight
  BY <1>1 DEF BatchType, Heights, InvalidHeight
<1>3. \A x \in (u.idx + 1)..(u.end - 1) : x \in u.chunk
  <2> SUFFICES ASSUME NEW x \in (u.idx + 1)..(u.end - 1)
               PROVE  x \in t.chunk /\ x # h
    BY <1>2
  <2>1. t.idx + 1 \in t.chunk /\ x \in t.chunk
    BY <1>1, <1>2 DEF CleanBatch
  <2> QED  BY <1>2, <2>1 DEF IsNext
<1>4. u.key \in Heights =>
          /\ u.key <= u.idx
          /\ \A x \in u.key..u.end :
                x = u.end \/ x \in u.chunk \cup blocks' \cup {0}
  BY <1>1, <1>2, AccountedGrows DEF CleanBatch, Heights
<1> QED  BY <1>1, <1>2, <1>3, <1>4 DEF CleanBatch

(* The index of a batch keeps step with the height of its next block.      *)
LEMMA CleanBatchesNext ==
    ASSUME Faults = {}, SyncInv, CleanInv, [Next]_vars
    PROVE  CleanBatches'
<1>1. ASSUME NEW t \in tasks, NEW h \in t.chunk, MarkCheckpoint(t, h)
      PROVE  CleanBatches'
  <2> DEFINE u == [t EXCEPT !.at = "store", !.idx = @ + 1, !.chunk = @ \ {h}]
  <2>1. tasks' = (tasks \ {t}) \cup {u} /\ IsNext(t, h)
    BY <1>1 DEF MarkCheckpoint, PassBlock, Becomes
  <2>2. CleanBatch(u)'
    <3>1. h \in blocks'
      BY <1>1, MarkMoves, AccountedGrows
    <3> HIDE DEF u
    <3> QED  BY <2>1, <3>1, CleanBatchPassed DEF u
  <2>3. ASSUME NEW v \in tasks \ {t} PROVE CleanBatch(v)'
    <3>1. v.key # t.key
      BY DEF SyncInv, WriterInv, OneWriterPerCheckpoint
    <3>2. v.at = "mark" => v.key \in Heights
      BY DEF SyncInv, BatchInv, BatchOK
    <3>3. v.at = "mark" => checkpoints'[v.key] = checkpoints[v.key]
      BY <1>1, <3>1, <3>2, MarkMoves
    <3> QED  BY <3>3, CleanBatchKept
  <2> HIDE DEF u
  <2> QED  BY <2>1, <2>2, <2>3 DEF CleanBatches
<1>2. ASSUME ~\E t \in tasks : \E h \in t.chunk : MarkCheckpoint(t, h),
             NEW v \in tasks
      PROVE  CleanBatch(v)'
  <2>1. CASE UNCHANGED checkpoints
    BY <2>1, CleanBatchKept
  <2>2. CASE NextSegment /\ checkpoints' # checkpoints
    <3>1. v.at = "mark" => v.key \in Heights /\ HasRow(v.key)
      BY DEF SyncInv, BatchInv, BatchOK
    <3>2. checkpoints[seg.start] = NoRow
      BY <2>2 DEF NextSegment, CreateCheckpointIfNonExistent
    <3>3. v.at = "mark" => checkpoints'[v.key] = checkpoints[v.key]
      BY <2>2, <3>1, <3>2, RowOfSegment DEF SyncInv, TypeOK, HasRow
    <3> QED  BY <3>3, CleanBatchKept
  <2> QED  BY <1>2, <2>1, <2>2, WritersOfCheckpoints
<1>3. ASSUME ~\E t \in tasks : \E h \in t.chunk : MarkCheckpoint(t, h),
             tasks' \subseteq tasks
      PROVE  CleanBatches'
  BY <1>2, <1>3 DEF CleanBatches
<1>4. ASSUME ~\E t \in tasks : \E h \in t.chunk : MarkCheckpoint(t, h),
             NEW t \in tasks, NEW u, Becomes(t, u), CleanBatch(u)'
      PROVE  CleanBatches'
  BY <1>2, <1>4 DEF CleanBatches, Becomes
<1>5. CASE SubmitBatch
  <2>1. PICK b : b = BatchOf(seg)
    OBVIOUS
  <2>2. /\ tasks' = tasks \cup {b} /\ pc = "download" /\ seg.next > seg.end
        /\ UNCHANGED <<blocks, checkpoints>>
    BY <1>5, <2>1 DEF SubmitBatch, durable
  <2>3. /\ b.key = seg.key /\ b.end = seg.end /\ b.idx = seg.start
        /\ b.chunk = seg.chunk /\ b.at = "read"
        /\ seg.next = seg.end + 1 /\ seg.end \in Nat /\ seg.start \in Nat
    <3>1. seg \in SegmentType /\ seg.next <= seg.end + 1
      BY <2>2 DEF SyncInv, TypeOK, SegmentInv
    <3> QED
      BY <2>1, <2>2, <3>1 DEF BatchOf, SegmentType, Heights, InvalidHeight
  <2>4. CleanBatch(b)'
    BY <2>2, <2>3 DEF CleanBatch, CleanInv, CleanSegment
  <2>5. \A v \in tasks : CleanBatch(v)'
    BY <2>2, CleanBatchKept
  <2> QED  BY <2>2, <2>4, <2>5 DEF CleanBatches
<1>6. ASSUME ~\E t \in tasks : \E h \in t.chunk : MarkCheckpoint(t, h),
             NEW t \in tasks, WorkerStep(t)
      PROVE  CleanBatches'
  <2>1. t \in BatchType /\ CleanBatch(t) /\ BatchOK(t)
    BY DEF SyncInv, TypeOK, BatchInv, CleanInv, CleanBatches
  <2>2. CASE TaskCompleted(t)
    BY <1>3, <1>6, <2>2 DEF TaskCompleted
  <2>3. CASE ReadCheckpoint(t)
    <3>1. PICK u : u = [t EXCEPT !.at = "store",
                                 !.tracked = /\ t.key # InvalidHeight
                                             /\ checkpoints[t.key] # NoRow]
      OBVIOUS
    <3>2. Becomes(t, u)
      BY <2>3, <3>1 DEF ReadCheckpoint
    <3>3. /\ u.key = t.key /\ u.end = t.end /\ u.idx = t.idx
          /\ u.chunk = t.chunk /\ u.at = "store"
      BY <2>1, <3>1 DEF BatchType
    <3>4. CleanBatch(u)'
      BY <1>2, <1>6, <3>3 DEF CleanBatch
    <3> QED  BY <1>4, <1>6, <3>2, <3>4
  <2>4. CASE StorePlaceholder(t)
    <3>1. PICK u : u = [t EXCEPT !.placeholders = @ - 1]
      OBVIOUS
    <3>2. Becomes(t, u) /\ t.at = "store"
      BY <2>4, <3>1 DEF StorePlaceholder
    <3>3. /\ u.key = t.key /\ u.end = t.end /\ u.idx = t.idx
          /\ u.chunk = t.chunk /\ u.at = "store"
      BY <2>1, <3>1, <3>2 DEF BatchType
    <3>4. CleanBatch(u)'
      BY <1>2, <1>6, <3>3 DEF CleanBatch
    <3> QED  BY <1>4, <1>6, <3>2, <3>4
  <2>5. ASSUME NEW h \in t.chunk, PassBlock(t, h), IsNext(t, h), h \in blocks'
        PROVE  CleanBatches'
    <3> DEFINE u == [t EXCEPT !.at = "store", !.idx = @ + 1,
                              !.chunk = @ \ {h}]
    <3>1. Becomes(t, u)
      BY <2>5 DEF PassBlock
    <3>2. CleanBatch(u)'
      BY <2>5, CleanBatchPassed
    <3> HIDE DEF u
    <3> QED  BY <1>4, <1>6, <3>1, <3>2
  <2>6. ASSUME NEW h \in t.chunk, SkipBlock(t, h) PROVE CleanBatches'
    BY <2>5, <2>6 DEF SkipBlock
  <2>7. ASSUME NEW h \in t.chunk, StoreBlock(t, h) PROVE CleanBatches'
    <3>1. IsNext(t, h) /\ h \notin blocks /\ h \in blocks'
          /\ UNCHANGED checkpoints
      BY <2>7 DEF StoreBlock
    <3>2. CASE PassBlock(t, h)
      BY <2>5, <3>1, <3>2
    <3>3. CASE t.tracked /\ Becomes(t, [t EXCEPT !.at = "mark"])
      <4> DEFINE u == [t EXCEPT !.at = "mark"]
                 last == checkpoints[t.key].last
      <4>1. /\ u.key = t.key /\ u.end = t.end /\ u.idx = t.idx
            /\ u.chunk = t.chunk /\ u.at = "mark"
        BY <2>1 DEF BatchType
      <4>2. /\ t.key \in Heights /\ HasRow(t.key) /\ h <= t.end
            /\ t.idx \in Nat /\ t.end \in Nat /\ h \in Nat /\ last \in Nat
            /\ t.idx <= h
        BY <2>1, <3>3
           DEF BatchOK, BatchType, Heights, InvalidHeight, SyncInv, TypeOK,
               HasRow, Row
      <4>3. h <= t.idx + 1
        BY <2>1, <3>1, <4>2 DEF CleanBatch, IsNext
      <4>4. t.key <= t.idx /\ h # 0
        BY <2>1, <4>2 DEF CleanBatch
      <4>5. last <= t.idx
        <5>1. h \notin t.key..(last - 1)
          BY <3>1, <4>2, <4>4 DEF CleanInv, CleanRows
        <5>2. t.key < last => h # last
          BY <3>1, <4>2 DEF CleanInv, CleanRows
        <5> QED  BY <4>2, <4>3, <4>4, <5>1, <5>2 DEF Heights
      <4> HIDE DEF u
      <4>6. CleanBatch(u)'
        BY <1>2, <1>6, <3>1, <4>1, <4>5 DEF CleanBatch
      <4> QED  BY <1>4, <1>6, <3>3, <4>6 DEF u
    <3> QED  BY <2>7, <3>2, <3>3 DEF StoreBlock
  <2> QED
    BY <1>6, <2>2, <2>3, <2>4, <2>6, <2>7 DEF WorkerStep
<1>7. CASE /\ ~\E t \in tasks : \E h \in t.chunk : MarkCheckpoint(t, h)
           /\ tasks' \subseteq tasks
  BY <1>3, <1>7
<1> QED
  BY <1>1, <1>5, <1>6, <1>7
     DEF Next, vars, ChainGrows, StartSync, SyncStep, Restart,
         LoseVolatileState, RefreshThreadPool, RefreshReturns,
         LoadUnfinishedCheckpoints, ResumeCheckpoint, ResumePastEnd,
         AllResumed, ChoosePath, NextSegment, DownloadBlock

(* What holds of rows, segment and batches when no call fails.             *)
THEOREM CleanInvariant ==
    ASSUME Faults = {}
    PROVE  Spec => []CleanInv
<1>1. Init => CleanInv
  BY SyncerAssumption
     DEF Init, CleanInv, TipInv, CleanRows, CleanSegment, CleanBatches, HasRow,
         Heights
<1>2. SyncInv /\ CleanInv /\ [Next]_vars => CleanInv'
  <2> SUFFICES ASSUME SyncInv, CleanInv, [Next]_vars PROVE CleanInv'
    OBVIOUS
  <2>1. TipInv'
    BY TipNext DEF CleanInv
  <2> QED
    BY <2>1, CleanRowsNext, CleanSegmentNext, CleanBatchesNext DEF CleanInv
<1> QED  BY <1>1, <1>2, SyncInvariant, PTL DEF Spec

(* Without failing calls, every block below a mark but the genesis block   *)
(* is in the database, however often the process ended.                    *)
THEOREM ResumingLosesNothing ==
    ASSUME Faults = {}
    PROVE  Spec => []ResumeLosesNothing
<1>1. CleanInv => ResumeLosesNothing
  BY DEF CleanInv, CleanRows, ResumeLosesNothing, HasRow
<1> QED  BY <1>1, CleanInvariant, PTL

(* Without failing calls no mark moves back.                               *)
THEOREM MarksOnlyAdvance ==
    ASSUME Faults = {}
    PROVE  Spec => CheckpointNeverRegresses
<1> DEFINE A == \A k \in Heights :
          checkpoints[k] # NoRow => checkpoints'[k].last >= checkpoints[k].last
<1>1. SyncInv /\ CleanInv /\ [Next]_vars => [A]_vars
  <2> SUFFICES ASSUME SyncInv, CleanInv, [Next]_vars,
                      NEW k \in Heights, HasRow(k)
               PROVE  checkpoints'[k].last >= checkpoints[k].last
    BY DEF HasRow
  <2>1. checkpoints[k].last \in Nat
    BY DEF SyncInv, TypeOK, HasRow, Row, Heights
  <2>2. CASE checkpoints'[k] = checkpoints[k]
    BY <2>1, <2>2
  <2>3. CASE NextSegment /\ checkpoints'[k] # checkpoints[k]
    <3>1. checkpoints[seg.start] = NoRow
      BY <2>3 DEF NextSegment, CreateCheckpointIfNonExistent
    <3> QED  BY <2>3, <3>1, RowOfSegment DEF SyncInv, TypeOK, HasRow
  <2>4. ASSUME NEW t \in tasks, NEW h \in t.chunk, MarkCheckpoint(t, h),
               checkpoints'[k] # checkpoints[k]
        PROVE  checkpoints'[k].last >= checkpoints[k].last
    <3>1. k = t.key /\ checkpoints'[k].last = t.idx /\ t.idx \in Nat
      BY <2>4, MarkMoves DEF Heights
    <3>2. checkpoints[t.key].last <= t.idx
      BY <2>4 DEF MarkCheckpoint, CleanInv, CleanBatches, CleanBatch
    <3> QED  BY <2>1, <3>1, <3>2
  <2> QED  BY <2>2, <2>3, <2>4, WritersOfCheckpoints
<1> QED
  BY <1>1, SyncInvariant, CleanInvariant, PTL
     DEF Spec, CheckpointNeverRegresses

-----------------------------------------------------------------------------
(* Syncer implements BlockLedger: a batch stores one block, or a block is  *)
(* given up on, and nothing else touches either set.                       *)
LEMMA LedgerStep ==
    ASSUME SyncInv, [Next]_vars
    PROVE  [Ledger!Next]_(Ledger!vars)
<1> USE DEF Ledger!Next, Ledger!Store, Ledger!Miss, Ledger!vars
<1>1. CASE DownloadBlock
  <2>1. seg.next \in Heights
    BY <1>1, SyncerAssumption
       DEF DownloadBlock, SyncInv, TypeOK, SegmentType, Heights, InvalidHeight
  <2>2. missed \subseteq Heights \ blocks
    BY DEF SyncInv, TypeOK
  <2>3. /\ blocks' = blocks
        /\ missed' = missed \/ missed' = missed \cup ({seg.next} \ blocks)
    BY <1>1 DEF DownloadBlock
  <2> QED  BY <2>1, <2>2, <2>3
<1>2. ASSUME NEW t \in tasks, NEW h \in t.chunk, StoreBlock(t, h)
      PROVE  [Ledger!Next]_(Ledger!vars)
  <2>1. h \in Heights
    BY DEF SyncInv, TypeOK, BatchType
  <2> QED  BY <1>2, <2>1 DEF StoreBlock
<1>3. ASSUME NEW t \in tasks, NEW h \in t.chunk, SkipBlock(t, h)
      PROVE  [Ledger!Next]_(Ledger!vars)
  <2>1. h \in Heights
    BY DEF SyncInv, TypeOK, BatchType
  <2>2. /\ blocks' = blocks
        /\ missed' = missed \cup ({h} \ blocks)
    BY <1>3 DEF SkipBlock
  <2> QED  BY <2>1, <2>2
<1>4. ASSUME ~DownloadBlock,
             ~\E t \in tasks : \E h \in t.chunk :
                  StoreBlock(t, h) \/ SkipBlock(t, h)
      PROVE  UNCHANGED <<blocks, missed>>
  BY <1>4
     DEF Next, vars, durable, ChainGrows, StartSync, SyncStep, WorkerStep,
         Restart, RefreshThreadPool, RefreshReturns, LoadUnfinishedCheckpoints,
         ResumeCheckpoint, ResumePastEnd, AllResumed, ChoosePath, NextSegment,
         SubmitBatch, ReadCheckpoint, StorePlaceholder, MarkCheckpoint,
         TaskCompleted
<1> QED  BY <1>1, <1>2, <1>3, <1>4

(* Blocks change in a sync only as BlockStore, which implements the same   *)
(* ledger, changes them.                                                   *)
THEOREM SyncImplementsLedger == Spec => LedgerSpec
<1>1. Init => Ledger!Init
  BY DEF Init, Ledger!Init
<1>2. SyncInv /\ [Next]_vars => [Ledger!Next]_(Ledger!vars)
  BY LedgerStep
<1> QED
  BY <1>1, <1>2, SyncInvariant, PTL DEF Spec, LedgerSpec, Ledger!Spec

-----------------------------------------------------------------------------
(* The keys of the batches in flight: no two batches share one, so there   *)
(* are as many as there are batches.                                       *)
Pending == {t.key : t \in tasks}

(* Hence the pool's room may be counted in batches or in keys.             *)
LEMMA OneKeyEach ==
    ASSUME SyncInv
    PROVE  Cardinality(Pending) = Cardinality(tasks)
<1>1. Pending \subseteq 0..InvalidHeight
  BY DEF Pending, SyncInv, TypeOK, BatchType
<1>2. IsFiniteSet(Pending)
  <2>1. InvalidHeight \in Int
    BY SyncerAssumption DEF InvalidHeight
  <2>2. IsFiniteSet(0..InvalidHeight)
    BY <2>1, FS_Interval
  <2> QED  BY <1>1, <2>2, FS_Subset
<1> DEFINE f == [k \in Pending |-> CHOOSE t \in tasks : t.key = k]
<1>3. \A k \in Pending : f[k] \in tasks /\ f[k].key = k
  BY DEF Pending
<1>4. \A t \in tasks : t.key \in Pending /\ f[t.key] = t
  BY <1>3 DEF Pending, SyncInv, WriterInv, OneWriterPerCheckpoint
<1> HIDE DEF f
<1>5. f \in Bijection(Pending, tasks)
  <2>1. f \in [Pending -> tasks]
    BY <1>3 DEF f
  <2>2. \A j, k \in Pending : f[j] = f[k] => j = k
    BY <1>3
  <2>3. \A t \in tasks : \E k \in Pending : f[k] = t
    BY <1>4
  <2> QED
    BY <2>1, <2>2, <2>3 DEF Bijection, Injection, Surjection, IsInjective
<1> QED  BY <1>2, <1>5, FS_Bijection DEF ExistsBijection

(* Syncer keeps to what TaskPool offers.                                   *)
LEMMA PoolStep ==
    ASSUME SyncInv, [Next]_vars
    PROVE  [Pool!Next]_(Pool!vars)
<1> DEFINE Goal == [Pool!Next]_(Pool!vars)
<1>k. \A t \in tasks : t.key \in Heights \cup {InvalidHeight}
  BY SyncerAssumption DEF SyncInv, TypeOK, BatchType, Heights, InvalidHeight
<1>s. ASSUME Pending' = Pending, PoolPhase' = PoolPhase
      PROVE  Goal
  BY <1>s DEF Pool!vars, Pending
<1>v. ASSUME LoseVolatileState PROVE Goal
  <2>1. Pending' = {} /\ PoolPhase' = "open"
    BY <1>v DEF LoseVolatileState, PoolPhase, Pending
  <2> QED  BY <2>1 DEF Pool!Next, Pool!Vanish, Pending
<1>1. CASE SubmitBatch
  <2>1. PICK b : b = BatchOf(seg)
    OBVIOUS
  <2>2. /\ tasks' = tasks \cup {b} /\ b.key = seg.key
        /\ pc = "download" /\ pc' \in {"resume", "segment", "refresh"}
        /\ Cardinality(tasks) < Capacity
    BY <1>1, <2>1 DEF SubmitBatch, BatchOf, SyncInv, PhaseInv
  <2>k. PICK k : k = seg.key
    OBVIOUS
  <2>3. k \in Heights \cup {InvalidHeight}
    BY <2>k, SyncerAssumption
       DEF SyncInv, TypeOK, SegmentType, Heights, InvalidHeight
  <2>4. \A t \in tasks : t.key # k
    <3>1. \A t \in tasks : t.key \in 0..InvalidHeight
      BY DEF SyncInv, TypeOK, BatchType
    <3> QED
      BY <2>2, <2>3, <2>k, <3>1
         DEF SyncInv, WriterInv, PhaseInv, Heights, InvalidHeight
  <2>5. Pending' = Pending \cup {k} /\ k \notin Pending
    BY <2>2, <2>4, <2>k DEF Pending
  <2>6. PoolPhase = "open" /\ PoolPhase' = "open"
    BY <2>2 DEF PoolPhase
  <2>7. Cardinality(Pending) < Capacity
    BY <2>2, OneKeyEach
  <2>8. Pool!Submit(k)
    <3>1. /\ k \notin {t.key : t \in tasks}
          /\ {t.key : t \in tasks}' = {t.key : t \in tasks} \cup {k}
      BY <2>5 DEF Pending
    <3>2. Pool!Cardinality({t.key : t \in tasks}) < Capacity
      <4>1. \A S : Pool!Cardinality(S) = Cardinality(S)
        BY Zenon DEF Pool!Cardinality, Cardinality
      <4>2. Pool!Cardinality(Pending) < Capacity
        BY <2>7, <4>1
      <4> QED  BY <4>2, Zenon DEF Pending
    <3> QED  BY <2>6, <3>1, <3>2 DEF Pool!Submit
  <2> QED  BY <2>3, <2>8 DEF Pool!Next
<1>2. CASE RefreshThreadPool
  <2>1. /\ PoolPhase = "open" /\ Pending' = Pending
        /\ tasks = {} => PoolPhase' = "refreshing" /\ Pending = {}
        /\ tasks # {} => PoolPhase' = "joining" /\ Pending # {}
    BY <1>2 DEF RefreshThreadPool, PoolPhase, Pending
  <2> QED
    BY <2>1 DEF Pool!Next, Pool!BeginRefresh, Pool!BlockInJoin, Pending
<1>3. CASE RefreshReturns
  <2>1. /\ PoolPhase = "refreshing" /\ PoolPhase' = "open"
        /\ Pending' = Pending
    BY <1>3 DEF RefreshReturns, PoolPhase, Pending
  <2> QED  BY <2>1 DEF Pool!Next, Pool!EndRefresh, Pending
<1>4. ASSUME NEW t \in tasks, NEW u, Becomes(t, u), u.key = t.key, pc' = pc
      PROVE  Goal
  <2>1. Pending' = Pending
    BY <1>4 DEF Becomes, Pending
  <2> QED  BY <1>4, <1>s, <2>1 DEF PoolPhase
<1>5. ASSUME NEW t \in tasks, WorkerStep(t) PROVE Goal
  <2>0. t \in BatchType
    BY DEF SyncInv, TypeOK
  <2>1. CASE ReadCheckpoint(t)
    <3>1. PICK u : u = [t EXCEPT !.at = "store",
                                 !.tracked = /\ t.key # InvalidHeight
                                             /\ checkpoints[t.key] # NoRow]
      OBVIOUS
    <3>2. Becomes(t, u) /\ pc' = pc
      BY <2>1, <3>1 DEF ReadCheckpoint
    <3>3. u.key = t.key
      BY <2>0, <3>1 DEF BatchType
    <3> QED  BY <1>4, <3>2, <3>3
  <2>2. CASE StorePlaceholder(t)
    <3>1. PICK u : u = [t EXCEPT !.placeholders = @ - 1]
      OBVIOUS
    <3>2. Becomes(t, u) /\ pc' = pc
      BY <2>2, <3>1 DEF StorePlaceholder
    <3>3. u.key = t.key
      BY <2>0, <3>1 DEF BatchType
    <3> QED  BY <1>4, <3>2, <3>3
  <2>3. ASSUME NEW h \in t.chunk, PassBlock(t, h), pc' = pc PROVE Goal
    <3>1. PICK u : u = [t EXCEPT !.at = "store", !.idx = @ + 1,
                                 !.chunk = @ \ {h}]
      OBVIOUS
    <3>2. Becomes(t, u) /\ u.key = t.key
      BY <2>0, <2>3, <3>1 DEF PassBlock, BatchType
    <3> QED  BY <1>4, <2>3, <3>2
  <2>4. ASSUME NEW h \in t.chunk, StoreBlock(t, h) PROVE Goal
    <3>1. PICK u : u = [t EXCEPT !.at = "mark"]
      OBVIOUS
    <3>2. pc' = pc /\ (Becomes(t, u) \/ PassBlock(t, h))
      BY <2>4, <3>1 DEF StoreBlock
    <3>3. u.key = t.key
      BY <2>0, <3>1 DEF BatchType
    <3> QED  BY <1>4, <2>3, <3>2, <3>3
  <2>5. ASSUME NEW h \in t.chunk, SkipBlock(t, h) \/ MarkCheckpoint(t, h)
        PROVE  Goal
    BY <2>3, <2>5 DEF SkipBlock, MarkCheckpoint
  <2>6. CASE TaskCompleted(t)
    <3>1. Pending' = Pending \ {t.key} /\ t.key \in Pending
      BY <2>6 DEF TaskCompleted, Pending, SyncInv, WriterInv,
                  OneWriterPerCheckpoint
    <3>2. PoolPhase' = PoolPhase
      BY <2>6 DEF TaskCompleted, PoolPhase
    <3>3. Pool!Complete(t.key)
      BY <3>1, <3>2 DEF Pool!Complete, Pending
    <3> QED  BY <1>k, <3>3 DEF Pool!Next
  <2> QED  BY <1>5, <2>1, <2>2, <2>4, <2>5, <2>6 DEF WorkerStep
<1>6. ASSUME \/ UNCHANGED vars
             \/ ChainGrows \/ StartSync \/ LoadUnfinishedCheckpoints
             \/ \E k \in Heights : ResumeCheckpoint(k)
             \/ AllResumed \/ ChoosePath \/ NextSegment \/ DownloadBlock
      PROVE  Goal
  <2>1. tasks' = tasks /\ PoolPhase' = PoolPhase
    BY <1>6
       DEF vars, ChainGrows, StartSync, LoadUnfinishedCheckpoints,
           ResumeCheckpoint, AllResumed, ChoosePath, NothingNew, RangePath,
           ChunkPath, NextSegment, DownloadBlock, PoolPhase
  <2> QED  BY <1>s, <2>1 DEF Pending
<1> QED
  BY <1>v, <1>1, <1>2, <1>3, <1>5, <1>6
     DEF Next, SyncStep, Restart, ResumePastEnd

(* The use the sync thread makes of the pool is within what TaskPool       *)
(* offers, and so within what ThreadPool implements.                       *)
THEOREM SyncKeepsToThePool == Spec => PoolSpec
<1>1. Init => Pool!Init
  BY DEF Init, Pool!Init, PoolPhase
<1>2. SyncInv /\ [Next]_vars => [Pool!Next]_(Pool!vars)
  BY PoolStep
<1> QED
  BY <1>1, <1>2, SyncInvariant, PTL DEF Spec, PoolSpec, Pool!Spec
=============================================================================
