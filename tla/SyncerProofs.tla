---------------------------- MODULE SyncerProofs ----------------------------
(***************************************************************************)
(* Theorems of Syncer, for every chain length, chunk size, pool capacity   *)
(* and set of failing calls.                                               *)
(***************************************************************************)
EXTENDS Syncer, TLAPS

HasRow(k) == checkpoints[k] # NoRow

(* The heights that were stored or given up on.                            *)
Accounted == blocks \cup missed

(* What is in flight while the sync thread is where it is.                 *)
PhaseInv ==
    /\ pc \in {"sleep", "recover", "rebuild", "count"} => tasks = {}
    /\ pc = "sleep" => ~isSyncing
    /\ pc = "resume" => path = "resume"
    /\ pc = "segment" => path = "range"
    /\ pc = "download" => path \in {"resume", "range", "chunk"}
    /\ pc = "download" /\ path = "chunk" => tasks = {}
    /\ pc = "refresh" /\ path = "begin" => tasks = {}

(* A batch holds blocks from its index to its end.  Every other height of  *)
(* its chunk is accounted for.  It updates a checkpoint that exists, after *)
(* it stored its next block.                                               *)
BatchOK(t) ==
    /\ \A x \in t.chunk : t.idx <= x /\ x <= t.end
    /\ t.key \in Heights =>
          \A h \in t.key..t.end : h \in t.chunk \cup Accounted
    /\ t.tracked => t.key \in Heights /\ HasRow(t.key)
    /\ t.at = "mark" => /\ t.tracked
                        /\ t.chunk # {}
                        /\ \A h \in t.chunk : IsNext(t, h) => h \in blocks

BatchInv == \A t \in tasks : BatchOK(t)

(* The segment being downloaded, up to the next height.                    *)
SegmentInv ==
    pc = "download" =>
        /\ seg.start <= seg.next /\ seg.next <= seg.end + 1
        /\ \A x \in seg.chunk : seg.start <= x /\ x < seg.next
        /\ seg.key \in Heights =>
              \A h \in seg.key..(seg.next - 1) : h \in seg.chunk \cup Accounted

(* Whose checkpoint may still be written: the ones in flight, the one      *)
(* being downloaded, the ones left on the stack.                           *)
WriterInv ==
    /\ OneWriterPerCheckpoint
    /\ \A k \in unfinished : HasRow(k)
    /\ pc = "resume" => \A t \in tasks : t.key \notin unfinished
    /\ pc = "download" /\ path = "resume" =>
          /\ seg.key \in Heights \ unfinished
          /\ \A t \in tasks : t.key # seg.key /\ t.key \notin unfinished
    /\ pc = "segment" => \A t \in tasks : t.key < seg.start
    /\ pc = "download" /\ path = "range" =>
          /\ seg.key <= seg.end
          /\ \A t \in tasks : t.key < seg.key

SyncInv ==
    /\ TypeOK
    /\ PhaseInv
    /\ NoBlockSkipped
    /\ BatchInv
    /\ SegmentInv
    /\ WriterInv

-----------------------------------------------------------------------------
(* The end of a segment lies between its start and the end of the range.   *)
LEMMA SegmentEnd ==
    ASSUME NEW e \in Nat, NEW s \in 0..e
    PROVE  GetNextSegmentIndex(e, s) \in s..e
  BY SyncerAssumption DEF GetNextSegmentIndex

(* What is known of a batch stays known when heights only become accounted *)
(* for and checkpoints are not deleted.                                    *)
LEMMA BatchStable ==
    ASSUME NEW t, BatchOK(t),
           blocks \subseteq blocks',
           Accounted \subseteq Accounted',
           \A k \in Heights : HasRow(k) => HasRow(k)'
    PROVE  BatchOK(t)'
  BY DEF BatchOK

(* The rows and the batches are not touched.                               *)
LEMMA FrameBatches ==
    ASSUME NoBlockSkipped, BatchInv, UNCHANGED <<durable, tasks>>
    PROVE  NoBlockSkipped' /\ BatchInv'
<1>1. /\ blocks' = blocks
      /\ Accounted' = Accounted
      /\ \A k \in Heights : HasRow(k)' = HasRow(k)
  BY DEF durable, Accounted, HasRow
<1>2. NoBlockSkipped'
  BY DEF NoBlockSkipped, durable
<1>3. BatchInv'
  BY <1>1, BatchStable DEF BatchInv
<1> QED
  BY <1>2, <1>3

(* The counts start at a height, and no segment is one.                    *)
LEMMA ZeroIsAHeight == 0 \in Heights
  BY SyncerAssumption DEF Heights

LEMMA NoSegmentType == NoSegment \in SegmentType
  BY SyncerAssumption
     DEF NoSegment, Segment, SegmentType, Heights, InvalidHeight

LEMMA SyncInvInit == Init => SyncInv
<1> SUFFICES ASSUME Init PROVE SyncInv
    OBVIOUS
<1> USE DEF Init
<1>1. TypeOK
  <2>1. checkpoints \in [Heights -> Row \cup {NoRow}]
    OBVIOUS
  <2> QED
    BY <2>1, ZeroIsAHeight, NoSegmentType DEF TypeOK
<1>2. PhaseInv /\ NoBlockSkipped /\ BatchInv /\ SegmentInv
  BY DEF PhaseInv, NoBlockSkipped, BatchInv, SegmentInv
<1>3. WriterInv
  BY DEF WriterInv, OneWriterPerCheckpoint
<1> QED
  BY <1>1, <1>2, <1>3 DEF SyncInv

-----------------------------------------------------------------------------
(* The steps of the sync thread between two segments.                      *)
LEMMA LoseVolatileStateStep ==
    ASSUME SyncInv, LoseVolatileState, UNCHANGED <<tip, durable>>
    PROVE  SyncInv'
<1> USE DEF LoseVolatileState, SyncInv
<1>1. TypeOK'
  <2>1. /\ pc' = "sleep" /\ path' = "begin" /\ isSyncing' \in BOOLEAN
        /\ latestBlockCount' \in Heights /\ latestBlockSynced' \in Heights
        /\ unfinished' \subseteq Heights
        /\ seg' \in SegmentType
        /\ tasks' \subseteq BatchType
    BY ZeroIsAHeight, NoSegmentType
  <2>2. UNCHANGED <<tip, blocks, placeholderRow, checkpoints, missed>>
    BY DEF durable
  <2> QED
    BY <2>1, <2>2 DEF TypeOK
<1>2. PhaseInv' /\ BatchInv' /\ SegmentInv'
  BY DEF PhaseInv, BatchInv, SegmentInv
<1>3. NoBlockSkipped'
  BY DEF NoBlockSkipped, durable
<1>4. WriterInv'
  BY DEF WriterInv, OneWriterPerCheckpoint
<1> QED
  BY <1>1, <1>2, <1>3, <1>4

LEMMA ChainGrowsStep ==
    ASSUME SyncInv, ChainGrows
    PROVE  SyncInv'
<1> USE DEF ChainGrows, SyncInv
<1>1. TypeOK'
  BY SyncerAssumption DEF TypeOK, Heights, durable, process, counts
<1>2. PhaseInv' /\ SegmentInv' /\ WriterInv'
  BY DEF PhaseInv, SegmentInv, WriterInv, OneWriterPerCheckpoint, durable,
         process, counts, Accounted, HasRow
<1> QED
  BY <1>1, <1>2, FrameBatches

LEMMA StartSyncStep ==
    ASSUME SyncInv, StartSync
    PROVE  SyncInv'
<1> USE DEF StartSync, ShouldSyncWallet, SyncInv
<1>1. TypeOK'
  BY SyncerAssumption
     DEF TypeOK, LoadCounts, SyncedBlockCountFromDB, Heights, durable
<1>2. PhaseInv'
  BY DEF PhaseInv
<1>3. SegmentInv' /\ WriterInv'
  BY DEF SegmentInv, WriterInv, OneWriterPerCheckpoint, durable, HasRow
<1> QED
  BY <1>1, <1>2, <1>3, FrameBatches

LEMMA RefreshSteps ==
    ASSUME SyncInv, RefreshThreadPool \/ RefreshReturns \/ AllResumed
    PROVE  SyncInv'
<1> USE DEF RefreshThreadPool, RefreshReturns, AllResumed, SyncInv
<1>1. UNCHANGED <<durable, tasks, seg, unfinished, tip, path>>
  OBVIOUS
<1>2. TypeOK'
  BY DEF TypeOK, durable, process, counts
<1>3. PhaseInv'
  BY DEF PhaseInv, process, counts
<1>4. SegmentInv' /\ WriterInv'
  BY DEF SegmentInv, WriterInv, OneWriterPerCheckpoint, durable, HasRow
<1> QED
  BY <1>1, <1>2, <1>3, <1>4, FrameBatches

LEMMA LoadUnfinishedCheckpointsStep ==
    ASSUME SyncInv, LoadUnfinishedCheckpoints
    PROVE  SyncInv'
<1> USE DEF LoadUnfinishedCheckpoints, SyncInv
<1>1. tasks = {}
  BY DEF PhaseInv
<1>2. TypeOK'
  BY DEF TypeOK, UnfinishedCheckpoints, durable, process, counts
<1>3. PhaseInv'
  BY <1>1 DEF PhaseInv
<1>4. SegmentInv'
  BY DEF SegmentInv
<1>5. WriterInv'
  BY <1>1 DEF WriterInv, OneWriterPerCheckpoint, UnfinishedCheckpoints,
              durable, HasRow
<1> QED
  BY <1>2, <1>3, <1>4, <1>5, FrameBatches

LEMMA ChoosePathStep ==
    ASSUME SyncInv, ChoosePath
    PROVE  SyncInv'
<1> USE DEF ChoosePath, SyncInv
<1> USE DEF LoadCounts, SyncedBlockCountFromDB
<1>1. tasks = {} /\ tasks' = {}
  BY DEF PhaseInv
<1>2. latestBlockCount' \in Heights /\ latestBlockSynced' = 0
  BY DEF TypeOK
<1>3. \/ NothingNew
      \/ RangePath(0)
      \/ latestBlockCount' # 0 /\ ChunkPath(1, latestBlockCount')
  BY <1>2
<1>4. TypeOK'
  <2>1. seg' \in SegmentType
    BY <1>2, <1>3, SyncerAssumption
       DEF NothingNew, RangePath, ChunkPath, Segment, SegmentType, Heights,
           InvalidHeight, TypeOK
  <2>2. /\ pc' \in {"sleep", "segment", "download"}
        /\ path' \in {"begin", "resume", "range", "chunk"}
        /\ isSyncing' \in BOOLEAN
    BY <1>3 DEF NothingNew, RangePath, ChunkPath, TypeOK
  <2> QED
    BY <1>2, <2>1, <2>2, SyncerAssumption DEF TypeOK, durable, Heights
<1>5. PhaseInv'
  BY <1>1, <1>3 DEF PhaseInv, NothingNew, RangePath, ChunkPath
<1>6. SegmentInv'
  <2>1. CASE NothingNew \/ RangePath(0)
    BY <2>1 DEF SegmentInv, NothingNew, RangePath
  <2>2. CASE latestBlockCount' # 0 /\ ChunkPath(1, latestBlockCount')
    <3>1. /\ seg'.start = 1 /\ seg'.next = 1 /\ seg'.chunk = {}
          /\ seg'.end = latestBlockCount' /\ seg'.key = InvalidHeight
      BY <2>2 DEF ChunkPath, Segment
    <3>2. InvalidHeight \notin Heights /\ latestBlockCount' \in Nat
      BY <1>2, SyncerAssumption DEF InvalidHeight, Heights
    <3> QED
      BY <3>1, <3>2 DEF SegmentInv
  <2> QED
    BY <1>3, <2>1, <2>2
<1>7. WriterInv'
  BY <1>1, <1>3
     DEF WriterInv, OneWriterPerCheckpoint, NothingNew, RangePath, ChunkPath,
         HasRow, durable
<1> QED
  BY <1>4, <1>5, <1>6, <1>7, FrameBatches

-----------------------------------------------------------------------------
(* The steps of the sync thread that build a segment.                      *)
LEMMA ResumeCheckpointStep ==
    ASSUME SyncInv, NEW k \in Heights, ResumeCheckpoint(k)
    PROVE  SyncInv'
<1> USE DEF ResumeCheckpoint, SyncInv
<1>1. checkpoints[k] \in Row /\ HasRow(k)
  BY DEF WriterInv, HasRow, TypeOK
<1>2. /\ seg'.key = k /\ seg'.start = checkpoints[k].last
      /\ seg'.next = checkpoints[k].last /\ seg'.end = checkpoints[k].end
      /\ seg'.chunk = {} /\ seg' \in SegmentType
  BY <1>1, SyncerAssumption
     DEF Segment, SegmentType, Row, Heights, InvalidHeight
<1>3. TypeOK'
  BY <1>2 DEF TypeOK, durable, process, counts
<1>4. PhaseInv'
  BY DEF PhaseInv
<1>5. SegmentInv'
  <2>1. \A h \in k..(checkpoints[k].last - 1) : h \in Accounted
    BY <1>1 DEF NoBlockSkipped, HasRow, Accounted
  <2>2. Accounted' = Accounted
    BY DEF Accounted, durable
  <2>3. seg'.start <= seg'.next /\ seg'.next <= seg'.end + 1
    BY <1>1, <1>2 DEF Row, Heights
  <2> QED
    BY <1>2, <2>1, <2>2, <2>3 DEF SegmentInv
<1>6. WriterInv'
  BY <1>2 DEF WriterInv, OneWriterPerCheckpoint, PhaseInv, HasRow, durable
<1> QED
  BY <1>3, <1>4, <1>5, <1>6, FrameBatches

LEMMA NextSegmentStep ==
    ASSUME SyncInv, NextSegment
    PROVE  SyncInv'
<1> USE DEF SyncInv
<1> DEFINE first == seg.start
           end   == GetNextSegmentIndex(latestBlockCount, first)
<1>1. /\ pc = "segment" /\ path = "range"
      /\ UNCHANGED <<tip, blocks, placeholderRow, missed, path, counts,
                     unfinished, tasks>>
  BY DEF NextSegment, PhaseInv
<1>2. CASE ~(first <= latestBlockCount)
  <2>1. pc' = "refresh" /\ UNCHANGED <<seg, checkpoints, leftover>>
    BY <1>2 DEF NextSegment
  <2>2. TypeOK' /\ PhaseInv'
    BY <1>1, <2>1 DEF TypeOK, PhaseInv, counts
  <2>3. SegmentInv' /\ WriterInv'
    BY <1>1, <2>1 DEF SegmentInv, WriterInv, OneWriterPerCheckpoint, HasRow
  <2> QED
    BY <1>1, <2>1, <2>2, <2>3, FrameBatches DEF durable
<1>3. CASE first <= latestBlockCount
  <2>1. first \in Heights /\ latestBlockCount \in Nat /\ end \in Heights
        /\ first <= end
    <3>1. /\ first \in 0..latestBlockCount /\ latestBlockCount \in Nat
          /\ latestBlockCount <= MaxHeight
      BY <1>3 DEF TypeOK, SegmentType, Heights
    <3>2. end \in first..latestBlockCount
      BY <3>1, SegmentEnd
    <3> QED
      BY <3>1, <3>2, SyncerAssumption DEF Heights
  <2>2. /\ pc' = "download"
        /\ seg' = Segment(first, first, end, 0)
        /\ \/ /\ checkpoints[first] = NoRow
              /\ checkpoints' = [checkpoints EXCEPT
                    ![first] = [end |-> end, last |-> first]]
           \/ UNCHANGED checkpoints
        /\ leftover' \in BOOLEAN
    BY <1>3 DEF NextSegment, CreateCheckpointIfNonExistent, TypeOK
  <2>3. /\ seg'.key = first /\ seg'.start = first /\ seg'.next = first
        /\ seg'.end = end /\ seg'.chunk = {} /\ seg' \in SegmentType
    BY <2>1, <2>2, SyncerAssumption
       DEF Segment, SegmentType, Heights, InvalidHeight
  <2>4. checkpoints' \in [Heights -> Row \cup {NoRow}]
    <3>1. [end |-> end, last |-> first] \in Row
      BY <2>1 DEF Row
    <3> QED
      BY <2>2, <3>1 DEF TypeOK
  <2>5. TypeOK'
    BY <1>1, <2>2, <2>3, <2>4 DEF TypeOK, counts
  <2>6. \A j \in Heights : HasRow(j) => HasRow(j)'
    <3>1. [end |-> end, last |-> first] # NoRow
      BY <2>1, NoRowAssumption DEF Row
    <3> QED
      BY <2>2, <3>1 DEF HasRow, TypeOK
  <2>7. PhaseInv'
    BY <1>1, <2>2 DEF PhaseInv
  <2>8. NoBlockSkipped'
    <3> SUFFICES ASSUME NEW j \in Heights, checkpoints'[j] # NoRow,
                        NEW h \in j..(checkpoints'[j].last - 1)
                 PROVE  h \in (blocks \cup missed)'
        BY DEF NoBlockSkipped
    <3>1. CASE checkpoints'[j] = checkpoints[j]
      BY <1>1, <3>1 DEF NoBlockSkipped
    <3>2. CASE checkpoints'[j] # checkpoints[j]
      <4>1. j = first /\ checkpoints'[j] = [end |-> end, last |-> first]
        BY <2>2, <3>2 DEF TypeOK
      <4> QED
        BY <2>1, <4>1 DEF Heights
    <3> QED
      BY <3>1, <3>2
  <2>9. BatchInv'
    BY <1>1, <2>6, BatchStable DEF BatchInv, Accounted
  <2>10. SegmentInv'
    BY <2>1, <2>3 DEF SegmentInv, Heights
  <2>11. WriterInv'
    BY <1>1, <2>1, <2>2, <2>3, <2>6
       DEF WriterInv, OneWriterPerCheckpoint, TypeOK
  <2> QED
    BY <2>5, <2>7, <2>8, <2>9, <2>10, <2>11
<1> QED
  BY <1>2, <1>3

LEMMA DownloadBlockStep ==
    ASSUME SyncInv, DownloadBlock
    PROVE  SyncInv'
<1> USE DEF SyncInv
<1> DEFINE n == seg.next
<1>1. /\ pc = "download" /\ n <= seg.end
      /\ UNCHANGED <<tip, blocks, placeholderRow, checkpoints, pc, path,
                     process, unfinished, tasks>>
  BY DEF DownloadBlock
<1>2. /\ seg \in SegmentType /\ n \in Heights /\ seg.end \in Heights
  <2>1. seg \in SegmentType
    BY DEF TypeOK
  <2> QED
    BY <1>1, <2>1, SyncerAssumption DEF SegmentType, Heights, InvalidHeight
<1>3. /\ seg'.key = seg.key /\ seg'.start = seg.start
      /\ seg'.end = seg.end /\ seg'.next = n + 1
      /\ \/ seg'.chunk = seg.chunk \cup {n} /\ missed' = missed
         \/ seg'.chunk = seg.chunk /\ missed' = missed \cup ({n} \ blocks)
      /\ seg' \in SegmentType
  <2>1. n + 1 \in 0..InvalidHeight
    BY <1>2, SyncerAssumption DEF Heights, InvalidHeight
  <2>2. CASE /\ seg' = [seg EXCEPT !.next = @ + 1, !.chunk = @ \cup {n}]
             /\ missed' = missed
    BY <1>2, <2>1, <2>2 DEF SegmentType
  <2>3. CASE /\ seg' = [seg EXCEPT !.next = @ + 1]
             /\ missed' = missed \cup ({n} \ blocks)
    BY <1>2, <2>1, <2>3 DEF SegmentType
  <2> QED
    BY <2>2, <2>3 DEF DownloadBlock
<1>4. TypeOK'
  BY <1>1, <1>2, <1>3 DEF TypeOK, process, counts
<1>5. Accounted \subseteq Accounted'
  BY <1>1, <1>3 DEF Accounted
<1>6. PhaseInv' /\ WriterInv'
  BY <1>1, <1>3 DEF PhaseInv, WriterInv, OneWriterPerCheckpoint, HasRow, process,
                    counts
<1>7. NoBlockSkipped'
  BY <1>1, <1>3 DEF NoBlockSkipped
<1>8. BatchInv'
  BY <1>1, <1>5, BatchStable DEF BatchInv, HasRow
<1>9. SegmentInv'
  <2>1. n \in seg'.chunk \cup Accounted'
    BY <1>1, <1>3 DEF Accounted
  <2>2. /\ \A x \in seg.chunk : seg.start <= x /\ x < n
        /\ seg.key \in Heights =>
              \A h \in seg.key..(n - 1) : h \in seg.chunk \cup Accounted
    BY <1>1 DEF SegmentInv
  <2>3. seg.start <= n
    BY <1>1 DEF SegmentInv
  <2>4. \A x \in seg'.chunk : seg'.start <= x /\ x < seg'.next
    BY <1>2, <1>3, <2>2, <2>3 DEF SegmentType, Heights
  <2>5. seg'.key \in Heights =>
          \A h \in seg'.key..(seg'.next - 1) : h \in seg'.chunk \cup Accounted'
    BY <1>2, <1>3, <1>5, <2>1, <2>2 DEF Heights
  <2>6. seg'.start <= seg'.next /\ seg'.next <= seg'.end + 1
    BY <1>1, <1>2, <1>3, <2>3 DEF Heights, SegmentType, InvalidHeight
  <2> QED
    BY <2>4, <2>5, <2>6 DEF SegmentInv
<1> QED
  BY <1>4, <1>6, <1>7, <1>8, <1>9

LEMMA SubmitBatchStep ==
    ASSUME SyncInv, SubmitBatch
    PROVE  SyncInv'
<1> USE DEF SyncInv
<1>0. PICK b : b = BatchOf(seg)
  OBVIOUS
<1>1. /\ pc = "download" /\ seg.next > seg.end
      /\ tasks' = tasks \cup {b}
      /\ UNCHANGED <<tip, durable, path, process, unfinished>>
  BY <1>0 DEF SubmitBatch
<1>2. seg \in SegmentType
  BY DEF TypeOK
<1>3. /\ b.key = seg.key /\ b.end = seg.end /\ b.idx = seg.start
      /\ b.chunk = seg.chunk /\ b.tracked = FALSE /\ b.at = "read"
      /\ b \in BatchType
  BY <1>0, <1>2 DEF BatchOf, SegmentType, BatchType
<1>4. /\ path \in {"resume", "range", "chunk"}
      /\ path = "resume" => pc' = "resume" /\ seg' = NoSegment
      /\ path = "range" => /\ pc' = "segment"
                          /\ seg' = Segment(InvalidHeight, seg.end + 1, 0, 0)
      /\ path = "chunk" => pc' = "refresh" /\ seg' = NoSegment
  BY <1>1 DEF SubmitBatch, PhaseInv
<1>5. seg' \in SegmentType
  <2>1. Segment(InvalidHeight, seg.end + 1, 0, 0) \in SegmentType
    BY <1>2, SyncerAssumption DEF Segment, SegmentType, Heights, InvalidHeight
  <2> QED
    BY <1>4, <2>1, NoSegmentType
<1>6. TypeOK'
  BY <1>1, <1>3, <1>4, <1>5 DEF TypeOK, durable, process, counts
<1>7. PhaseInv' /\ SegmentInv'
  BY <1>1, <1>4 DEF PhaseInv, SegmentInv
<1>8. UNCHANGED <<blocks, missed, checkpoints>>
  BY <1>1 DEF durable
<1>9. NoBlockSkipped'
  BY <1>8 DEF NoBlockSkipped
<1>10. BatchInv'
  <2>1. BatchOK(b)
    <3>1. \A x \in b.chunk : b.idx <= x /\ x <= b.end
      BY <1>1, <1>2, <1>3 DEF SegmentInv, SegmentType, Heights
    <3>2. b.key \in Heights =>
            \A h \in b.key..b.end : h \in b.chunk \cup Accounted
      BY <1>1, <1>2, <1>3
         DEF SegmentInv, SegmentType, Heights, InvalidHeight
    <3> QED
      BY <1>3, <3>1, <3>2 DEF BatchOK
  <2>2. BatchOK(b)'
    BY <1>8, <2>1, BatchStable DEF Accounted, HasRow
  <2>3. \A t \in tasks : BatchOK(t)'
    BY <1>8, BatchStable DEF BatchInv, Accounted, HasRow
  <2> QED
    BY <1>1, <2>2, <2>3 DEF BatchInv
<1>11. WriterInv'
  <2>1. \A t \in tasks : t.key # b.key
    <3>1. \A t \in tasks : t.key \in 0..InvalidHeight
      BY DEF TypeOK, BatchType
    <3> QED
      BY <1>1, <1>2, <1>3, <1>4, <3>1
         DEF WriterInv, PhaseInv, SegmentType, InvalidHeight
  <2>2. OneWriterPerCheckpoint'
    BY <1>1, <2>1 DEF WriterInv, OneWriterPerCheckpoint
  <2>3. \A k \in unfinished' : HasRow(k)'
    BY <1>1, <1>8 DEF WriterInv, HasRow
  <2>4. CASE path = "resume"
    BY <1>1, <1>3, <1>4, <2>2, <2>3, <2>4 DEF WriterInv
  <2>5. CASE path = "range"
    <3>1. seg.key <= seg.end /\ \A t \in tasks : t.key < seg.key
      BY <1>1, <2>5 DEF WriterInv
    <3>2. seg'.start = seg.end + 1
      BY <1>4, <2>5 DEF Segment
    <3>3. \A t \in tasks' : t.key < seg'.start
      BY <1>1, <1>2, <1>3, <3>1, <3>2
         DEF TypeOK, BatchType, SegmentType, Heights, InvalidHeight
    <3> QED
      BY <1>1, <1>4, <2>2, <2>3, <2>5, <3>3 DEF WriterInv
  <2>6. CASE path = "chunk"
    BY <1>1, <1>4, <2>2, <2>3, <2>6 DEF WriterInv
  <2> QED
    BY <1>4, <2>4, <2>5, <2>6
<1> QED
  BY <1>6, <1>7, <1>9, <1>10, <1>11

-----------------------------------------------------------------------------
(* The steps of the workers.                                               *)

(* A batch t that becomes u, a batch of the same chunk, is all that        *)
(* changes of what is in flight.                                           *)
LEMMA ReplaceBatch ==
    ASSUME SyncInv, NEW t \in tasks, NEW u \in BatchType,
           u.key = t.key, Becomes(t, u), BatchOK(u)',
           UNCHANGED <<tip, pc, path, process, unfinished, seg>>,
           blocks \subseteq blocks', Accounted \subseteq Accounted',
           \A k \in Heights : HasRow(k) => HasRow(k)'
    PROVE  /\ tasks' \subseteq BatchType
           /\ PhaseInv' /\ BatchInv' /\ SegmentInv' /\ WriterInv'
<1> USE DEF SyncInv
<1>1. tasks' = (tasks \ {t}) \cup {u}
  BY DEF Becomes
<1>2. tasks' \subseteq BatchType
  BY <1>1 DEF TypeOK
<1>3. PhaseInv'
  BY <1>1 DEF PhaseInv, process, counts
<1>4. BatchInv'
  <2>1. \A v \in tasks : BatchOK(v)'
    BY BatchStable DEF BatchInv
  <2> QED
    BY <1>1, <2>1 DEF BatchInv
<1>5. SegmentInv'
  BY DEF SegmentInv
<1>6. WriterInv'
  <2>1. OneWriterPerCheckpoint'
    BY <1>1 DEF WriterInv, OneWriterPerCheckpoint
  <2>2. \A k \in unfinished' : HasRow(k)'
    BY DEF WriterInv, TypeOK
  <2> QED
    BY <1>1, <2>1, <2>2 DEF WriterInv
<1> QED
  BY <1>2, <1>3, <1>4, <1>5, <1>6

LEMMA ReadCheckpointStep ==
    ASSUME SyncInv, NEW t \in tasks, ReadCheckpoint(t)
    PROVE  SyncInv'
<1> USE DEF SyncInv
<1> DEFINE u == [t EXCEPT !.at = "store",
                         !.tracked = /\ t.key # InvalidHeight
                                     /\ checkpoints[t.key] # NoRow]
<1>1. /\ Becomes(t, u)
      /\ UNCHANGED <<tip, durable, pc, path, process, unfinished, seg>>
  BY DEF ReadCheckpoint
<1>2. t \in BatchType
  BY DEF TypeOK
<1>3. /\ u \in BatchType /\ u.key = t.key /\ u.end = t.end /\ u.idx = t.idx
      /\ u.chunk = t.chunk /\ u.at = "store"
      /\ u.tracked => t.key # InvalidHeight /\ checkpoints[t.key] # NoRow
  BY <1>2 DEF BatchType
<1>4. UNCHANGED <<blocks, missed, checkpoints, placeholderRow>>
  BY <1>1 DEF durable
<1>5. BatchOK(u)'
  <2>1. BatchOK(u)
    <3>1. u.tracked => u.key \in Heights /\ HasRow(u.key)
      BY <1>2, <1>3, SyncerAssumption
         DEF BatchType, InvalidHeight, Heights, HasRow
    <3>2. BatchOK(t)
      BY DEF BatchInv
    <3> QED
      BY <1>3, <3>1, <3>2 DEF BatchOK
  <2> QED
    BY <1>4, <2>1, BatchStable DEF Accounted, HasRow
<1>6. /\ tasks' \subseteq BatchType
      /\ PhaseInv' /\ BatchInv' /\ SegmentInv' /\ WriterInv'
  BY <1>1, <1>3, <1>4, <1>5, ReplaceBatch DEF Accounted, HasRow
<1>7. TypeOK' /\ NoBlockSkipped'
  BY <1>1, <1>4, <1>6 DEF TypeOK, NoBlockSkipped, process, counts
<1> QED
  BY <1>6, <1>7

LEMMA StorePlaceholderStep ==
    ASSUME SyncInv, NEW t \in tasks, StorePlaceholder(t)
    PROVE  SyncInv'
<1> USE DEF SyncInv
<1> DEFINE u == [t EXCEPT !.placeholders = @ - 1]
<1>1. /\ t.at = "store" /\ t.placeholders > 0
      /\ placeholderRow' \in BOOLEAN
      /\ Becomes(t, u)
      /\ UNCHANGED <<tip, blocks, checkpoints, missed, pc, path, process,
                     unfinished, seg>>
  BY DEF StorePlaceholder, TypeOK
<1>2. t \in BatchType
  BY DEF TypeOK
<1>3. /\ u \in BatchType /\ u.key = t.key /\ u.end = t.end /\ u.idx = t.idx
      /\ u.chunk = t.chunk /\ u.at = "store" /\ u.tracked = t.tracked
  BY <1>1, <1>2 DEF BatchType
<1>4. BatchOK(u)'
  <2>1. BatchOK(u)
    BY <1>3 DEF BatchOK, BatchInv
  <2> QED
    BY <1>1, <2>1, BatchStable DEF Accounted, HasRow
<1>5. /\ tasks' \subseteq BatchType
      /\ PhaseInv' /\ BatchInv' /\ SegmentInv' /\ WriterInv'
  BY <1>1, <1>3, <1>4, ReplaceBatch DEF Accounted, HasRow
<1>6. TypeOK' /\ NoBlockSkipped'
  BY <1>1, <1>5 DEF TypeOK, NoBlockSkipped, process, counts
<1> QED
  BY <1>5, <1>6

(* What PassBlock makes of a batch whose next block is accounted for.      *)
LEMMA PassedBatch ==
    ASSUME SyncInv, NEW t \in tasks, NEW h \in t.chunk, IsNext(t, h),
           h \in Accounted', Accounted \subseteq Accounted',
           blocks \subseteq blocks',
           \A k \in Heights : HasRow(k) => HasRow(k)',
           NEW u,
           u = [t EXCEPT !.at = "store", !.idx = @ + 1, !.chunk = @ \ {h}]
    PROVE  u \in BatchType /\ u.key = t.key /\ BatchOK(u)'
<1> USE DEF SyncInv
<1>1. t \in BatchType /\ BatchOK(t) /\ BatchOK(t)'
  BY BatchStable DEF TypeOK, BatchInv
<1>2. h \in Heights /\ t.idx <= h
  BY <1>1 DEF BatchType, BatchOK
<1>3. t.idx + 1 \in 0..InvalidHeight
  BY <1>1, <1>2, SyncerAssumption DEF BatchType, Heights, InvalidHeight
<1>4. /\ u \in BatchType /\ u.key = t.key /\ u.end = t.end
      /\ u.idx = t.idx + 1 /\ u.chunk = t.chunk \ {h}
      /\ u.at = "store" /\ u.tracked = t.tracked
  BY <1>1, <1>3 DEF BatchType
<1>5. \A x \in u.chunk : u.idx <= x /\ x <= u.end
  <2> SUFFICES ASSUME NEW x \in u.chunk PROVE u.idx <= x /\ x <= u.end
      OBVIOUS
  <2>1. h <= x /\ x # h /\ x \in t.chunk
    BY <1>4 DEF IsNext
  <2>2. x \in Heights /\ x <= t.end /\ t.idx \in Nat
    BY <1>1, <2>1 DEF BatchType, BatchOK, InvalidHeight
  <2> QED
    BY <1>2, <1>4, <2>1, <2>2 DEF Heights
<1>6. BatchOK(u)'
  BY <1>1, <1>4, <1>5 DEF BatchOK
<1> QED
  BY <1>4, <1>6

LEMMA StoreBlockStep ==
    ASSUME SyncInv, NEW t \in tasks, NEW h \in t.chunk, StoreBlock(t, h)
    PROVE  SyncInv'
<1> USE DEF SyncInv
<1>1. /\ t.at = "store" /\ IsNext(t, h)
      /\ blocks' = blocks \cup {h} /\ missed' = missed \ {h}
      /\ UNCHANGED <<tip, placeholderRow, checkpoints, pc, path, process,
                     unfinished, seg>>
  BY DEF StoreBlock
<1>2. t \in BatchType /\ h \in Heights
  BY DEF TypeOK, BatchType
<1>3. /\ h \in Accounted' /\ Accounted \subseteq Accounted'
      /\ blocks \subseteq blocks'
      /\ \A k \in Heights : HasRow(k) => HasRow(k)'
  BY <1>1 DEF Accounted, HasRow
<1>4. /\ tasks' \subseteq BatchType
      /\ PhaseInv' /\ BatchInv' /\ SegmentInv' /\ WriterInv'
  <2>1. CASE t.tracked /\ Becomes(t, [t EXCEPT !.at = "mark"])
    <3> DEFINE u == [t EXCEPT !.at = "mark"]
    <3>1. /\ u \in BatchType /\ u.key = t.key /\ u.end = t.end
          /\ u.idx = t.idx /\ u.chunk = t.chunk /\ u.at = "mark"
          /\ u.tracked /\ u.placeholders = t.placeholders
      BY <1>2, <2>1 DEF BatchType
    <3>2. \A x \in u.chunk : IsNext(u, x) => x = h
      BY <1>1, <1>2, <3>1 DEF IsNext, BatchType, Heights
    <3>3. BatchOK(t)'
      BY <1>3, BatchStable DEF BatchInv
    <3>4. BatchOK(u)'
      BY <1>1, <2>1, <3>1, <3>2, <3>3 DEF BatchOK
    <3> QED
      BY <1>1, <1>3, <2>1, <3>1, <3>4, ReplaceBatch
  <2>2. CASE PassBlock(t, h)
    <3> DEFINE u == [t EXCEPT !.at = "store", !.idx = @ + 1,
                             !.chunk = @ \ {h}]
    <3>1. Becomes(t, u)
      BY <2>2 DEF PassBlock
    <3>2. u \in BatchType /\ u.key = t.key /\ BatchOK(u)'
      BY <1>1, <1>3, PassedBatch
    <3> QED
      BY <1>1, <1>3, <3>1, <3>2, ReplaceBatch
  <2> QED
    BY <2>1, <2>2 DEF StoreBlock
<1>5. TypeOK'
  BY <1>1, <1>2, <1>4 DEF TypeOK, process, counts
<1>6. NoBlockSkipped'
  BY <1>1 DEF NoBlockSkipped
<1> QED
  BY <1>4, <1>5, <1>6

LEMMA SkipBlockStep ==
    ASSUME SyncInv, NEW t \in tasks, NEW h \in t.chunk, SkipBlock(t, h)
    PROVE  SyncInv'
<1> USE DEF SyncInv
<1> DEFINE u == [t EXCEPT !.at = "store", !.idx = @ + 1, !.chunk = @ \ {h}]
<1>1. /\ IsNext(t, h)
      /\ missed' = missed \cup ({h} \ blocks)
      /\ Becomes(t, u)
      /\ UNCHANGED <<tip, blocks, placeholderRow, checkpoints, pc, path,
                     process, unfinished, seg>>
  BY DEF SkipBlock, PassBlock
<1>2. t \in BatchType /\ h \in Heights
  BY DEF TypeOK, BatchType
<1>3. /\ h \in Accounted' /\ Accounted \subseteq Accounted'
      /\ blocks \subseteq blocks'
      /\ \A k \in Heights : HasRow(k) => HasRow(k)'
  BY <1>1 DEF Accounted, HasRow
<1>4. u \in BatchType /\ u.key = t.key /\ BatchOK(u)'
  BY <1>1, <1>3, PassedBatch
<1>5. /\ tasks' \subseteq BatchType
      /\ PhaseInv' /\ BatchInv' /\ SegmentInv' /\ WriterInv'
  BY <1>1, <1>3, <1>4, ReplaceBatch
<1>6. TypeOK' /\ NoBlockSkipped'
  BY <1>1, <1>2, <1>5 DEF TypeOK, NoBlockSkipped, process, counts
<1> QED
  BY <1>5, <1>6

LEMMA MarkCheckpointStep ==
    ASSUME SyncInv, NEW t \in tasks, NEW h \in t.chunk, MarkCheckpoint(t, h)
    PROVE  SyncInv'
<1> USE DEF SyncInv
<1> DEFINE u == [t EXCEPT !.at = "store", !.idx = @ + 1, !.chunk = @ \ {h}]
<1>1. /\ t.at = "mark" /\ IsNext(t, h)
      /\ checkpoints' = [checkpoints EXCEPT ![t.key].last = t.idx]
      /\ Becomes(t, u)
      /\ UNCHANGED <<tip, blocks, placeholderRow, missed, pc, path, process,
                     unfinished, seg>>
  BY DEF MarkCheckpoint, PassBlock
<1>2. /\ t \in BatchType /\ h \in Heights /\ BatchOK(t)
  BY DEF TypeOK, BatchType, BatchInv
<1>3. /\ t.key \in Heights /\ HasRow(t.key) /\ h \in blocks
      /\ t.idx <= h /\ h <= t.end
  BY <1>1, <1>2 DEF BatchOK
<1>4. t.idx \in Heights
  BY <1>2, <1>3, SyncerAssumption DEF BatchType, Heights, InvalidHeight
<1>5. checkpoints[t.key] \in Row
  BY <1>3 DEF TypeOK, HasRow
<1>6. /\ checkpoints'[t.key] \in Row /\ checkpoints'[t.key].last = t.idx
      /\ \A k \in Heights \ {t.key} : checkpoints'[k] = checkpoints[k]
      /\ checkpoints' \in [Heights -> Row \cup {NoRow}]
  BY <1>1, <1>3, <1>4, <1>5 DEF TypeOK, Row
<1>7. /\ h \in Accounted' /\ Accounted \subseteq Accounted'
      /\ blocks \subseteq blocks'
      /\ \A k \in Heights : HasRow(k) => HasRow(k)'
  BY <1>1, <1>3, <1>6, NoRowAssumption DEF Accounted, HasRow
<1>8. u \in BatchType /\ u.key = t.key /\ BatchOK(u)'
  BY <1>1, <1>7, PassedBatch
<1>9. /\ tasks' \subseteq BatchType
      /\ PhaseInv' /\ BatchInv' /\ SegmentInv' /\ WriterInv'
  BY <1>1, <1>7, <1>8, ReplaceBatch
<1>10. TypeOK'
  BY <1>1, <1>6, <1>9 DEF TypeOK, process, counts
<1>11. NoBlockSkipped'
  <2> SUFFICES ASSUME NEW k \in Heights, checkpoints'[k] # NoRow,
                      NEW x \in k..(checkpoints'[k].last - 1)
               PROVE  x \in blocks \cup missed
      BY <1>1 DEF NoBlockSkipped
  <2>1. CASE k # t.key
    BY <1>6, <2>1 DEF NoBlockSkipped
  <2>2. CASE k = t.key
    <3>1. x \in t.key..t.end /\ x < t.idx
      BY <1>2, <1>3, <1>4, <1>6, <2>2 DEF Heights, BatchType
    <3>2. x \notin t.chunk
      BY <1>2, <1>4, <3>1 DEF BatchOK, BatchType, Heights
    <3> QED
      BY <1>2, <1>3, <3>1, <3>2 DEF BatchOK, Accounted
  <2> QED
    BY <2>1, <2>2
<1> QED
  BY <1>9, <1>10, <1>11

LEMMA TaskCompletedStep ==
    ASSUME SyncInv, NEW t \in tasks, TaskCompleted(t)
    PROVE  SyncInv'
<1> USE DEF SyncInv, TaskCompleted
<1>1. TypeOK' /\ PhaseInv'
  BY DEF TypeOK, PhaseInv, durable, process, counts
<1>2. UNCHANGED <<blocks, missed, checkpoints>>
  BY DEF durable
<1>3. NoBlockSkipped' /\ SegmentInv'
  BY <1>2 DEF NoBlockSkipped, SegmentInv, Accounted
<1>4. BatchInv'
  BY <1>2, BatchStable DEF BatchInv, Accounted, HasRow
<1>5. WriterInv'
  BY <1>2 DEF WriterInv, OneWriterPerCheckpoint, HasRow
<1> QED
  BY <1>1, <1>3, <1>4, <1>5

-----------------------------------------------------------------------------
LEMMA SyncInvNext == SyncInv /\ [Next]_vars => SyncInv'
<1> SUFFICES ASSUME SyncInv, [Next]_vars PROVE SyncInv'
    OBVIOUS
<1>1. CASE ChainGrows \/ StartSync \/ Restart
  BY <1>1, ChainGrowsStep, StartSyncStep, LoseVolatileStateStep DEF Restart
<1>2. CASE SyncStep
  <2>1. CASE \E k \in Heights : ResumePastEnd(k)
    BY <2>1, LoseVolatileStateStep DEF ResumePastEnd
  <2>2. CASE RefreshThreadPool \/ RefreshReturns \/ AllResumed
    BY <2>2, RefreshSteps
  <2>3. CASE LoadUnfinishedCheckpoints \/ ChoosePath \/ NextSegment
    BY <2>3, LoadUnfinishedCheckpointsStep, ChoosePathStep, NextSegmentStep
  <2>4. CASE \E k \in Heights : ResumeCheckpoint(k)
    BY <2>4, ResumeCheckpointStep
  <2>5. CASE DownloadBlock \/ SubmitBatch
    BY <2>5, DownloadBlockStep, SubmitBatchStep
  <2> QED
    BY <1>2, <2>1, <2>2, <2>3, <2>4, <2>5 DEF SyncStep
<1>3. CASE \E t \in tasks : WorkerStep(t)
  BY <1>3, ReadCheckpointStep, StorePlaceholderStep, StoreBlockStep,
     SkipBlockStep, MarkCheckpointStep, TaskCompletedStep DEF WorkerStep
<1>4. CASE UNCHANGED vars
  <2>1. /\ UNCHANGED <<tip, durable, pc, path, process, unfinished, seg,
                       tasks>>
        /\ UNCHANGED <<blocks, placeholderRow, checkpoints, missed>>
    BY <1>4 DEF vars, durable
  <2>2. TypeOK' /\ PhaseInv' /\ SegmentInv' /\ WriterInv'
    BY <2>1 DEF SyncInv, TypeOK, PhaseInv, SegmentInv, WriterInv,
                OneWriterPerCheckpoint, Accounted, HasRow, process, counts
  <2> QED
    BY <2>1, <2>2, FrameBatches DEF SyncInv
<1> QED
  BY <1>1, <1>2, <1>3, <1>4 DEF Next

(* The invariant the theorems below are read off.                          *)
THEOREM SyncInvariant == Spec => []SyncInv
<1> QED
  BY SyncInvInit, SyncInvNext, PTL DEF Spec

(* Type correctness: no batch counts past the chain, and no failed height  *)
(* is also a stored one.                                                   *)
THEOREM TypeCorrect == Spec => []TypeOK
<1>1. SyncInv => TypeOK
  BY DEF SyncInv
<1> QED
  BY <1>1, SyncInvariant, PTL

(* Whatever calls fail and wherever the process ends, a mark never passes  *)
(* a height of its chunk that was neither stored nor given up on.          *)
THEOREM NoBlockIsSkipped == Spec => []NoBlockSkipped
<1>1. SyncInv => NoBlockSkipped
  BY DEF SyncInv
<1> QED
  BY <1>1, SyncInvariant, PTL

(* The refreshes between the resumed batches and the range, and between    *)
(* two syncs, keep two batches from writing one checkpoint.                *)
THEOREM OneWriter == Spec => []OneWriterPerCheckpoint
<1>1. SyncInv => OneWriterPerCheckpoint
  BY DEF SyncInv, WriterInv
<1> QED
  BY <1>1, SyncInvariant, PTL
=============================================================================
