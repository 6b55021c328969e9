--------------------------- MODULE SyncerEndProofs ---------------------------
(***************************************************************************)
(* Theorems of Syncer about the end of a sync: what it leaves behind when  *)
(* it has returned, the safety that SyncSettles rests on (nobody is stuck, *)
(* and every batch runs down), and the sync of a pool without room.  They  *)
(* build on SyncInv of SyncerProofs and on how batches move                *)
(* (SyncerChunkProofs).                                                    *)
(***************************************************************************)
EXTENDS SyncerChunkProofs, WellFoundedInduction

(* A height that is downloaded and still to be stored.                     *)
InHand(h) ==
    \/ \E t \in tasks : h \in t.chunk
    \/ pc = "download" /\ h \in seg.chunk

(* The heights below are downloaded or given up on.                        *)
Passed ==
    CASE pc = "segment"  -> seg.start
      [] pc = "download" -> seg.next
      [] OTHER           -> latestBlockCount + 1

(* The sync goes through the chain, in chunks or in the one short chunk.   *)
Laying == path \in {"range", "chunk"}

(* Which part of Sync it is in, before it has chosen, and where the short  *)
(* chunk ends.                                                             *)
PathInv ==
    /\ pc \in {"recover", "resume", "count"} => ~Laying
    /\ pc = "download" /\ path = "chunk" => seg.end = latestBlockCount

(* No height the sync thread has passed is lost.                           *)
CoverInv ==
    Laying => \A h \in 1..latestBlockCount :
                 h < Passed => InHand(h) \/ h \in Accounted

(* Without failing calls, it is stored or about to be: but for the tip.    *)
CleanCoverInv ==
    Laying => \A h \in 1..(latestBlockCount - 1) :
                 h < Passed => InHand(h) \/ h \in blocks

-----------------------------------------------------------------------------
(* The path is chosen when the counts are loaded, and kept to the end.     *)
LEMMA PathNext ==
    ASSUME SyncInv, PathInv, [Next]_vars
    PROVE  PathInv'
<1>1. CASE ChoosePath
  BY <1>1 DEF ChoosePath, NothingNew, RangePath, ChunkPath, PathInv, Laying,
              LoadCounts, SyncedBlockCountFromDB, Segment
<1>2. CASE DownloadBlock
  BY <1>2, SegmentDownloads DEF PathInv
<1>3. CASE NextSegment \/ SubmitBatch
  BY <1>3 DEF NextSegment, SubmitBatch, PathInv, Laying, SyncInv, PhaseInv
<1>4. CASE \E k \in Heights : ResumeCheckpoint(k)
  BY <1>4 DEF ResumeCheckpoint, PathInv, Laying
<1>5. CASE \/ UNCHANGED <<pc, path, seg, latestBlockCount>>
           \/ LoseVolatileState \/ StartSync
  BY <1>5 DEF PathInv, Laying, LoseVolatileState, StartSync
<1>6. CASE \/ RefreshThreadPool \/ RefreshReturns
           \/ LoadUnfinishedCheckpoints \/ AllResumed
  BY <1>6 DEF RefreshThreadPool, RefreshReturns, LoadUnfinishedCheckpoints,
              AllResumed, PathInv, Laying
<1> QED
  BY <1>1, <1>2, <1>3, <1>4, <1>5, <1>6
     DEF Next, vars, process, counts, ChainGrows, SyncStep, WorkerStep,
         Restart,
         ResumePastEnd, ReadCheckpoint, StorePlaceholder, StoreBlock,
         SkipBlock, MarkCheckpoint, TaskCompleted

(* Unless the process ends, what is in hand stays there until it was       *)
(* tried, or, when storing does not fail, stored.                          *)
LEMMA HandKept ==
    ASSUME SyncInv, [Next]_vars, ~LoseVolatileState, NEW h, InHand(h)
    PROVE  /\ InHand(h)' \/ h \in Accounted'
           /\ "store" \notin Faults => (InHand(h)' \/ h \in blocks')
<1>1. CASE pc = "download" /\ h \in seg.chunk
  <2>1. CASE UNCHANGED <<pc, seg>>
    BY <1>1, <2>1 DEF InHand
  <2>2. CASE DownloadBlock
    <3>1. pc' = "download"
      BY <2>2, SegmentDownloads
    <3>2. seg.chunk \subseteq seg'.chunk
      <4>1. seg \in SegmentType
        BY DEF SyncInv, TypeOK
      <4> QED
        BY <2>2, <4>1 DEF DownloadBlock, SegmentType
    <3> QED
      BY <1>1, <3>1, <3>2 DEF InHand
  <2>3. CASE SubmitBatch
    BY <1>1, <2>3, SegmentSubmitted DEF InHand
  <2> QED
    BY <1>1, <2>1, <2>2, <2>3
       DEF Next, vars, ChainGrows, StartSync, SyncStep, WorkerStep, Restart,
           RefreshThreadPool, RefreshReturns, LoadUnfinishedCheckpoints,
           ResumeCheckpoint, ResumePastEnd, AllResumed, ChoosePath,
           NextSegment, ReadCheckpoint, StorePlaceholder, StoreBlock,
           SkipBlock, MarkCheckpoint, TaskCompleted
<1>2. ASSUME NEW t \in tasks, h \in t.chunk
      PROVE  /\ InHand(h)' \/ h \in Accounted'
             /\ "store" \notin Faults => (InHand(h)' \/ h \in blocks')
  <2>1. CASE t \in tasks'
    BY <1>2, <2>1 DEF InHand
  <2>2. ASSUME NEW s \in tasks, NEW u, BatchMoves(s, u), t \notin tasks'
        PROVE  /\ InHand(h)' \/ h \in Accounted'
               /\ "store" \notin Faults => (InHand(h)' \/ h \in blocks')
    <3>1. t = s /\ u \in tasks'
      BY <2>2 DEF BatchMoves, Becomes
    <3> QED
      BY <1>2, <2>2, <3>1 DEF BatchMoves, InHand
  <2>3. ASSUME NEW s \in tasks, TaskCompleted(s), t \notin tasks'
        PROVE  FALSE
    BY <1>2, <2>3 DEF TaskCompleted
  <2>4. CASE \E s \in tasks : WorkerStep(s)
    BY <2>1, <2>2, <2>3, <2>4, WorkerMoves
  <2>5. CASE ~\E s \in tasks : WorkerStep(s)
    <3>1. tasks \subseteq tasks'
      BY <2>5
         DEF Next, vars, ChainGrows, StartSync, SyncStep, Restart,
             RefreshThreadPool, RefreshReturns, LoadUnfinishedCheckpoints,
             ResumeCheckpoint, ResumePastEnd, AllResumed, ChoosePath,
             NextSegment, DownloadBlock, SubmitBatch
    <3> QED
      BY <2>1, <3>1
  <2> QED
    BY <2>4, <2>5
<1> QED
  BY <1>1, <1>2 DEF InHand

(* While the sync goes on laying chunks, a height comes to be passed only  *)
(* by being downloaded or given up on.                                     *)
LEMMA PassedMoves ==
    ASSUME SyncInv, PathInv, [Next]_vars, ~ChoosePath, Laying',
           NEW h \in 1..latestBlockCount', h < Passed'
    PROVE  /\ Laying /\ h \in 1..latestBlockCount
           /\ latestBlockCount' = latestBlockCount /\ ~LoseVolatileState
           /\ h < Passed \/ (DownloadBlock /\ h = seg.next)
<1>0. latestBlockCount \in Nat /\ latestBlockCount' \in Nat
  BY SyncInvNext DEF SyncInv, TypeOK, Heights
<1>1. CASE DownloadBlock
  <2>1. /\ Passed = seg.next /\ Passed' = seg.next + 1
        /\ seg.next \in Nat
        /\ UNCHANGED <<latestBlockCount, path>> /\ pc' = "download"
    BY <1>1, SegmentDownloads DEF Passed, Heights
  <2> QED
    BY <1>0, <1>1, <2>1 DEF Laying, LoseVolatileState
<1>2. CASE NextSegment
  <2>1. /\ UNCHANGED <<latestBlockCount, path>> /\ pc = "segment"
        /\ pc' \in {"download", "refresh"}
    BY <1>2 DEF NextSegment, process, counts
  <2>2. Passed = seg.start /\ seg.start \in Nat
    BY <2>1 DEF Passed, SyncInv, TypeOK, SegmentType
  <2>3. CASE pc' = "download"
    <3>1. Passed' = seg.start
      BY <1>2, <2>3 DEF NextSegment, Segment, Passed
    <3> QED
      BY <1>0, <2>1, <2>2, <2>3, <3>1 DEF Laying, LoseVolatileState
  <2>4. CASE pc' = "refresh"
    <3>1. ~(seg.start <= latestBlockCount)
      BY <1>2, <2>4 DEF NextSegment
    <3> QED
      BY <1>0, <2>1, <2>2, <2>4, <3>1 DEF Laying, LoseVolatileState
  <2> QED
    BY <2>1, <2>3, <2>4
<1>3. CASE SubmitBatch
  <2>1. /\ UNCHANGED <<latestBlockCount, path>> /\ pc = "download"
        /\ pc' \in {"resume", "segment", "refresh"}
    BY <1>3 DEF SubmitBatch, process, counts, SyncInv, PhaseInv
  <2>2. /\ Passed = seg.next /\ seg.next = seg.end + 1 /\ seg.end \in Nat
    BY <1>3, <2>1
       DEF SubmitBatch, Passed, SyncInv, TypeOK, SegmentInv, SegmentType,
           Heights, InvalidHeight
  <2>3. CASE path = "range"
    <3>1. Passed' = seg.end + 1
      BY <1>3, <2>3 DEF SubmitBatch, Segment, Passed
    <3> QED
      BY <1>0, <2>1, <2>2, <3>1 DEF Laying, LoseVolatileState
  <2>4. CASE path = "chunk"
    <3>1. Passed' = latestBlockCount + 1 /\ seg.end = latestBlockCount
      BY <1>3, <2>1, <2>4 DEF SubmitBatch, Passed, PathInv
    <3> QED
      BY <1>0, <2>1, <2>2, <3>1 DEF Laying, LoseVolatileState
  <2> QED
    BY <2>1, <2>3, <2>4 DEF Laying
<1>4. CASE UNCHANGED <<pc, path, seg, latestBlockCount>> /\ Laying
  <2>1. ~LoseVolatileState
    BY <1>4 DEF LoseVolatileState, Laying
  <2> QED
    BY <1>4, <2>1 DEF Passed, Laying
<1>5. CASE RefreshThreadPool \/ RefreshReturns
  <2>1. UNCHANGED <<path, latestBlockCount>> /\ pc \in {"refresh", "rebuild"}
    BY <1>5 DEF RefreshThreadPool, RefreshReturns, process, counts
  <2>2. ~LoseVolatileState
    BY <2>1 DEF LoseVolatileState, Laying
  <2>3. Passed = latestBlockCount + 1
    BY <2>1 DEF Passed
  <2> QED
    BY <1>0, <2>1, <2>2, <2>3 DEF Laying
<1>6. CASE \/ LoseVolatileState \/ StartSync \/ LoadUnfinishedCheckpoints
           \/ AllResumed \/ \E k \in Heights : ResumeCheckpoint(k)
  BY <1>6 DEF LoseVolatileState, StartSync, LoadUnfinishedCheckpoints,
              AllResumed, ResumeCheckpoint, PathInv, Laying
<1> QED
  BY <1>1, <1>2, <1>3, <1>4, <1>5, <1>6
     DEF Next, vars, process, counts, Laying, ChainGrows, SyncStep, WorkerStep,
         Restart, ResumePastEnd, ReadCheckpoint, StorePlaceholder, StoreBlock,
         SkipBlock, MarkCheckpoint, TaskCompleted

(* A range starts at 0 and the short chunk at 1: nothing is passed yet.    *)
LEMMA NothingPassed ==
    ASSUME SyncInv, PathInv, ChoosePath, Laying'
    PROVE  Passed' \in {0, 1}
BY DEF ChoosePath, LoadCounts, SyncedBlockCountFromDB, NothingNew, RangePath,
       ChunkPath, Segment, Passed, PathInv, Laying

(* The sync thread passes a height when it has downloaded it or given it   *)
(* up, and then it is in hand until a worker has tried it.                 *)
LEMMA CoverNext ==
    ASSUME SyncInv, PathInv, CoverInv, [Next]_vars
    PROVE  CoverInv'
<1> SUFFICES ASSUME Laying', NEW h \in 1..latestBlockCount', h < Passed'
             PROVE  InHand(h)' \/ h \in Accounted'
    BY DEF CoverInv
<1>1. CASE ChoosePath
  <2>1. latestBlockCount' \in Nat
    BY SyncInvNext DEF SyncInv, TypeOK, Heights
  <2> QED
    BY <1>1, <2>1, NothingPassed
<1>2. CASE ~ChoosePath /\ h < Passed
  <2>1. /\ Laying /\ h \in 1..latestBlockCount /\ ~LoseVolatileState
    BY <1>2, PassedMoves
  <2>2. InHand(h) \/ h \in Accounted
    BY <1>2, <2>1 DEF CoverInv
  <2> QED
    BY <2>1, <2>2, HandKept, AccountedGrows
<1>3. CASE DownloadBlock /\ h = seg.next
  <2>1. pc' = "download"
    BY <1>3, SegmentDownloads
  <2>2. seg \in SegmentType
    BY DEF SyncInv, TypeOK
  <2>3. h \in seg'.chunk \/ h \in Accounted'
    BY <1>3, <2>2 DEF DownloadBlock, SegmentType, Accounted
  <2> QED
    BY <2>1, <2>3 DEF InHand
<1> QED
  BY <1>1, <1>2, <1>3, PassedMoves

(* The same without failures, where trying is storing.                     *)
LEMMA CleanCoverNext ==
    ASSUME Faults = {}, SyncInv, PathInv, TipInv, CleanCoverInv, [Next]_vars
    PROVE  CleanCoverInv'
<1> SUFFICES ASSUME Laying', NEW h \in 1..(latestBlockCount' - 1), h < Passed'
             PROVE  InHand(h)' \/ h \in blocks'
    BY DEF CleanCoverInv
<1>0. latestBlockCount' \in Nat /\ h \in 1..latestBlockCount'
  <2>1. PICK n \in Nat : n = latestBlockCount'
    BY SyncInvNext DEF SyncInv, TypeOK, Heights
  <2>2. h \in 1..(n - 1)
    BY <2>1
  <2>3. h \in 1..n
    BY <2>2
  <2> QED
    BY <2>1, <2>3
<1>1. CASE ChoosePath
  BY <1>0, <1>1, NothingPassed
<1>2. CASE ~ChoosePath /\ h < Passed
  <2>1. /\ Laying /\ latestBlockCount' = latestBlockCount
        /\ ~LoseVolatileState
    BY <1>0, <1>2, PassedMoves
  <2>2. InHand(h) \/ h \in blocks
    BY <1>2, <2>1 DEF CleanCoverInv
  <2> QED
    BY <2>1, <2>2, HandKept, AccountedGrows
<1>3. CASE DownloadBlock /\ h = seg.next
  <2>1. pc' = "download" /\ latestBlockCount' = latestBlockCount
    BY <1>3, SegmentDownloads
  <2>2. Downloadable(h)
    <3>1. tip \in Nat /\ latestBlockCount <= tip
      BY DEF TipInv, SyncInv, TypeOK, Heights
    <3> QED
      BY <1>0, <2>1, <3>1 DEF Downloadable
  <2>3. seg \in SegmentType
    BY DEF SyncInv, TypeOK
  <2>4. h \in seg'.chunk
    BY <1>3, <2>2, <2>3 DEF DownloadBlock, SegmentType
  <2> QED
    BY <2>1, <2>4 DEF InHand
<1> QED
  BY <1>0, <1>1, <1>2, <1>3, PassedMoves

-----------------------------------------------------------------------------
(* Whichever calls fail, a sync that has returned from its range, or from  *)
(* its one chunk, has tried every height up to the count it began with,    *)
(* and nothing of it is in flight.                                         *)
THEOREM SyncCoversTheChain == Spec => []SyncCoversChain
<1>1. Init => PathInv /\ CoverInv
  BY DEF Init, PathInv, CoverInv, Laying
<1>2. SyncInv /\ (PathInv /\ CoverInv) /\ [Next]_vars => (PathInv /\ CoverInv)'
  BY PathNext, CoverNext
<1>3. SyncInv /\ CoverInv => SyncCoversChain
  <2> SUFFICES ASSUME SyncInv, CoverInv, pc = "sleep"
               PROVE  /\ tasks = {} /\ ~isSyncing
                      /\ Laying =>
                            \A h \in 1..latestBlockCount : h \in Accounted
    BY DEF SyncCoversChain, Laying, Accounted
  <2>1. tasks = {} /\ ~isSyncing
    BY DEF SyncInv, PhaseInv
  <2>2. (\A h : ~InHand(h)) /\ Passed = latestBlockCount + 1
    BY <2>1 DEF InHand, Passed
  <2>3. latestBlockCount \in Nat
    BY DEF SyncInv, TypeOK, Heights
  <2> QED
    BY <2>1, <2>2, <2>3 DEF CoverInv
<1> QED
  BY <1>1, <1>2, <1>3, SyncInvariant, PTL DEF Spec

(* When no call fails, what it has tried is in the database: every block   *)
(* below the tip it saw, but the genesis block.                            *)
SyncStoresChain ==
    pc = "sleep" /\ Laying => 1..(latestBlockCount - 1) \subseteq blocks

(* DownloadBlocks and BatchStoreBlocks leave out no height but those that  *)
(* cannot be downloaded.                                                   *)
THEOREM SyncStoresTheChain ==
    ASSUME Faults = {}
    PROVE  Spec => []SyncStoresChain
<1>1. Init => PathInv /\ CleanCoverInv
  BY DEF Init, PathInv, CleanCoverInv, Laying
<1>2. /\ SyncInv /\ CleanInv /\ (PathInv /\ CleanCoverInv)
      /\ [Next]_vars
      => (PathInv /\ CleanCoverInv)'
  BY PathNext, CleanCoverNext DEF CleanInv
<1>3. SyncInv /\ CleanCoverInv => SyncStoresChain
  <2> SUFFICES ASSUME SyncInv, CleanCoverInv, pc = "sleep", Laying,
                      NEW h \in 1..(latestBlockCount - 1)
               PROVE  h \in blocks
    BY DEF SyncStoresChain
  <2>1. (\A g : ~InHand(g)) /\ Passed = latestBlockCount + 1
    BY DEF InHand, Passed, SyncInv, PhaseInv
  <2>2. latestBlockCount \in Nat
    BY DEF SyncInv, TypeOK, Heights
  <2> QED
    BY <2>1, <2>2 DEF CleanCoverInv
<1> QED
  BY <1>1, <1>2, <1>3, SyncInvariant, CleanInvariant, PTL DEF Spec

-----------------------------------------------------------------------------
(* What SyncSettles rests on, apart from fairness.  A batch in flight can  *)
(* always take a step, and each of its steps leaves it less to do.         *)

(* A batch is about to read its checkpoint row, to store a default Block,  *)
(* to store, skip or mark its next block, or it is at its end.             *)
CanStep(t) ==
    \/ t.at = "read"
    \/ t.at = "store" /\ t.placeholders > 0
    \/ t.at = "store" /\ t.placeholders = 0 /\ t.chunk = {}
    \/ \E h \in t.chunk : IsNext(t, h)

(* The default Blocks come first: none is left when a mark is written.     *)
MarkInv == \A t \in tasks : t.at = "mark" => t.placeholders = 0

(* How much a batch still has to do: a block takes two steps at most.      *)
Rank(t) ==
    3 * Cardinality(t.chunk) + t.placeholders
        + (CASE t.at = "read" -> 2 [] t.at = "store" -> 1 [] OTHER -> 0)

(* Every set of naturals that is not empty has a least member.             *)
LEMMA LeastOne ==
    ASSUME NEW T \in SUBSET Nat, T # {}
    PROVE  \E x \in T : \A y \in T : x <= y
<1>1. PICK x \in T : \A y \in T : <<y, x>> \notin OpToRel(<, Nat)
  BY NatLessThanWellFounded, WFMin, Zenon
<1>2. ASSUME NEW y \in T PROVE x <= y
  <2>1. ~(y < x)
    <3>1. <<y, x>> \in Nat \X Nat
      OBVIOUS
    <3>2. <<y, x>>[1] = y /\ <<y, x>>[2] = x
      OBVIOUS
    <3> QED
      BY <1>1, <3>1, <3>2, Zenon DEF OpToRel
  <2> QED
    BY <2>1
<1> QED
  BY <1>2

(* A chunk is finite, so a rank is a natural number.                       *)
LEMMA RankIsNat ==
    ASSUME SyncInv, NEW t \in BatchType
    PROVE  /\ IsFiniteSet(t.chunk) /\ Cardinality(t.chunk) \in Nat
           /\ Rank(t) \in Nat
<1>1. IsFiniteSet(t.chunk)
  <2>1. 0 \in Int /\ MaxHeight \in Int
    BY SyncerAssumption
  <2>2. IsFiniteSet(0..MaxHeight)
    BY <2>1, FS_Interval
  <2>3. t.chunk \subseteq 0..MaxHeight
    BY DEF BatchType, Heights
  <2> QED
    BY <2>2, <2>3, FS_Subset
<1>2. Cardinality(t.chunk) \in Nat
  BY <1>1, FS_CardinalityType
<1> QED
  BY <1>1, <1>2 DEF Rank, BatchType

(* No batch waits for anything.                                            *)
LEMMA BatchCanStep ==
    ASSUME SyncInv, MarkInv, NEW t \in tasks
    PROVE  CanStep(t)
<1>1. t \in BatchType /\ BatchOK(t)
  BY DEF SyncInv, TypeOK, BatchInv
<1>2. CASE t.chunk # {} /\ t.placeholders = 0
  <2>1. t.chunk \subseteq Nat
    BY <1>1 DEF BatchType, Heights
  <2>2. PICK h \in t.chunk : \A y \in t.chunk : h <= y
    BY <1>2, <2>1, LeastOne
  <2> QED
    BY <1>2, <2>2 DEF CanStep, IsNext
<1>3. CASE t.at # "mark" /\ (t.chunk = {} \/ t.placeholders > 0)
  BY <1>1, <1>3 DEF CanStep, BatchType
<1>4. CASE t.at = "mark"
  BY <1>2, <1>1, <1>4 DEF MarkInv, BatchOK
<1> QED
  BY <1>1, <1>2, <1>3, <1>4 DEF BatchType

(* Removing the next block from a batch that is not reading lowers its     *)
(* rank, whatever the batch does next.                                     *)
LEMMA PassingLowersRank ==
    ASSUME SyncInv, NEW t \in BatchType, t.at # "read", NEW h \in t.chunk,
           NEW u \in BatchType, u.chunk = t.chunk \ {h},
           u.placeholders = t.placeholders, u.at = "store"
    PROVE  Rank(u) < Rank(t)
<1>1. /\ IsFiniteSet(t.chunk)
      /\ Cardinality(t.chunk) \in Nat /\ Cardinality(u.chunk) \in Nat
  BY RankIsNat
<1>2. Cardinality(u.chunk) = Cardinality(t.chunk) - 1
  BY <1>1, FS_RemoveElement
<1> QED
  BY <1>1, <1>2 DEF Rank, BatchType

(* A step of a worker ends the batch or lowers its rank.                   *)
LEMMA WorkerRunsDown ==
    ASSUME SyncInv, NEW t \in tasks, WorkerStep(t), ~TaskCompleted(t)
    PROVE  \E u : /\ Becomes(t, u) /\ u.key = t.key
                  /\ u.at = "mark" => u.placeholders = 0
                  /\ Rank(u) < Rank(t)
<1> DEFINE Goal(u) == /\ Becomes(t, u) /\ u.key = t.key
                      /\ u.at = "mark" => u.placeholders = 0
                      /\ Rank(u) < Rank(t)
<1>1. t \in BatchType /\ Cardinality(t.chunk) \in Nat
  BY RankIsNat DEF SyncInv, TypeOK
<1>2. CASE ReadCheckpoint(t)
  <2>1. PICK u : u = [t EXCEPT !.at = "store",
                               !.tracked = /\ t.key # InvalidHeight
                                           /\ checkpoints[t.key] # NoRow]
    OBVIOUS
  <2>2. /\ u.key = t.key /\ u.chunk = t.chunk /\ u.at = "store"
        /\ u.placeholders = t.placeholders
    BY <1>1, <2>1 DEF BatchType
  <2>3. Becomes(t, u) /\ t.at = "read"
    BY <1>2, <2>1 DEF ReadCheckpoint
  <2>4. Rank(u) < Rank(t)
    BY <1>1, <2>2, <2>3 DEF Rank, BatchType
  <2> QED
    BY <2>2, <2>3, <2>4
<1>3. CASE StorePlaceholder(t)
  <2>1. PICK u : u = [t EXCEPT !.placeholders = @ - 1]
    OBVIOUS
  <2>2. Becomes(t, u) /\ t.at = "store" /\ t.placeholders > 0
    BY <1>3, <2>1 DEF StorePlaceholder
  <2>3. /\ u.key = t.key /\ u.chunk = t.chunk /\ u.at = "store"
        /\ u.placeholders = t.placeholders - 1
    BY <1>1, <2>1, <2>2 DEF BatchType
  <2>4. Rank(u) < Rank(t)
    BY <1>1, <2>2, <2>3 DEF Rank, BatchType
  <2> QED
    BY <2>2, <2>3, <2>4
<1>4. ASSUME NEW h \in t.chunk, PassBlock(t, h), t.at # "read"
      PROVE  \E u : Goal(u)
  <2>1. PICK u : u = [t EXCEPT !.at = "store", !.idx = @ + 1,
                               !.chunk = @ \ {h}]
    OBVIOUS
  <2>2. /\ u.key = t.key /\ u.chunk = t.chunk \ {h} /\ u.at = "store"
        /\ u.placeholders = t.placeholders
    BY <1>1, <2>1 DEF BatchType
  <2>3. Becomes(t, u)
    BY <1>4, <2>1 DEF PassBlock
  <2>4. u \in tasks'
    BY <2>3 DEF Becomes
  <2>5. u \in BatchType
    BY <2>4, SyncInvNext DEF SyncInv, TypeOK, Next
  <2>6. Rank(u) < Rank(t)
    BY <1>1, <1>4, <2>2, <2>5, PassingLowersRank
  <2> QED
    BY <2>2, <2>3, <2>6
<1>5. ASSUME NEW h \in t.chunk, StoreBlock(t, h)
      PROVE  \E u : Goal(u)
  <2>1. t.at = "store" /\ t.placeholders = 0
    BY <1>5 DEF StoreBlock, IsNext
  <2>2. CASE PassBlock(t, h)
    BY <1>4, <2>1, <2>2
  <2>3. CASE Becomes(t, [t EXCEPT !.at = "mark"])
    <3>1. PICK u : u = [t EXCEPT !.at = "mark"]
      OBVIOUS
    <3>2. /\ u.key = t.key /\ u.chunk = t.chunk /\ u.at = "mark"
          /\ u.placeholders = t.placeholders
      BY <1>1, <3>1 DEF BatchType
    <3>3. Rank(u) < Rank(t)
      BY <1>1, <2>1, <3>2 DEF Rank, BatchType
    <3> QED
      BY <2>1, <2>3, <3>1, <3>2, <3>3
  <2> QED
    BY <1>5, <2>2, <2>3 DEF StoreBlock
<1>6. ASSUME NEW h \in t.chunk, SkipBlock(t, h) \/ MarkCheckpoint(t, h)
      PROVE  \E u : Goal(u)
  BY <1>4, <1>6 DEF SkipBlock, MarkCheckpoint
<1> QED
  BY <1>2, <1>3, <1>5, <1>6 DEF WorkerStep

(* What a step does to a batch it does not leave alone.                    *)
LEMMA BatchRunsDown ==
    ASSUME SyncInv, [Next]_vars, ~LoseVolatileState,
           NEW t \in tasks, t \notin tasks'
    PROVE  \/ TaskCompleted(t)
           \/ \E u \in tasks' : u.key = t.key /\ Rank(u) < Rank(t)
<1>1. CASE \E s \in tasks : WorkerStep(s)
  <2>1. PICK s \in tasks : WorkerStep(s)
    BY <1>1
  <2>2. CASE TaskCompleted(s)
    BY <2>2 DEF TaskCompleted
  <2>3. CASE ~TaskCompleted(s)
    <3>1. PICK u : Becomes(s, u) /\ u.key = s.key /\ Rank(u) < Rank(s)
      BY <2>1, <2>3, WorkerRunsDown
    <3>2. u \in tasks' /\ t = s
      BY <3>1 DEF Becomes
    <3> QED
      BY <3>1, <3>2
  <2> QED
    BY <2>2, <2>3
<1>2. CASE ~\E s \in tasks : WorkerStep(s)
  BY <1>2
     DEF Next, vars, ChainGrows, StartSync, SyncStep, Restart,
         RefreshThreadPool, RefreshReturns, LoadUnfinishedCheckpoints,
         ResumeCheckpoint, ResumePastEnd, AllResumed, ChoosePath,
         NextSegment, DownloadBlock, SubmitBatch
<1> QED
  BY <1>1, <1>2

(* A batch that is about to mark its checkpoint stays one until it did.    *)
LEMMA MarkNext ==
    ASSUME SyncInv, MarkInv, [Next]_vars
    PROVE  MarkInv'
<1>1. CASE \E t \in tasks : WorkerStep(t) /\ ~TaskCompleted(t)
  <2>1. PICK t \in tasks : WorkerStep(t) /\ ~TaskCompleted(t)
    BY <1>1
  <2>2. PICK u : Becomes(t, u) /\ (u.at = "mark" => u.placeholders = 0)
    BY <2>1, WorkerRunsDown
  <2> QED
    BY <2>2 DEF Becomes, MarkInv
<1>2. CASE SubmitBatch
  <2>1. PICK b : b = BatchOf(seg)
    OBVIOUS
  <2>2. b.at = "read" /\ tasks' = tasks \cup {b}
    BY <1>2, <2>1 DEF SubmitBatch, BatchOf
  <2> QED
    BY <2>2 DEF MarkInv
<1>3. CASE tasks' \subseteq tasks
  BY <1>3 DEF MarkInv
<1> QED
  BY <1>1, <1>2, <1>3
     DEF Next, vars, ChainGrows, StartSync, SyncStep, WorkerStep, Restart,
         LoseVolatileState, RefreshThreadPool, RefreshReturns,
         LoadUnfinishedCheckpoints, ResumeCheckpoint, ResumePastEnd,
         AllResumed, ChoosePath, NextSegment, DownloadBlock, TaskCompleted

(* Every step that takes a batch from the pool completes it or puts back a *)
(* batch of the same chunk with less to do, unless the process ends.       *)
BatchesRunDown ==
    [][~LoseVolatileState =>
          \A t \in tasks \ tasks' :
              \/ TaskCompleted(t)
              \/ \E u \in tasks' : /\ u.key = t.key
                                   /\ Rank(t) \in Nat /\ Rank(u) \in Nat
                                   /\ Rank(u) < Rank(t)]_vars

(* BatchStoreBlocks goes through its blocks once: no step of it, and none  *)
(* of another thread, gives a batch more to do.                            *)
THEOREM EveryBatchRunsDown == Spec => BatchesRunDown
<1> DEFINE A == ~LoseVolatileState =>
          \A t \in tasks \ tasks' :
              \/ TaskCompleted(t)
              \/ \E u \in tasks' : /\ u.key = t.key
                                   /\ Rank(t) \in Nat /\ Rank(u) \in Nat
                                   /\ Rank(u) < Rank(t)
<1>1. SyncInv /\ [Next]_vars => A
  <2> SUFFICES ASSUME SyncInv, [Next]_vars, ~LoseVolatileState,
                      NEW t \in tasks \ tasks', ~TaskCompleted(t)
               PROVE  \E u \in tasks' : /\ u.key = t.key
                                        /\ Rank(t) \in Nat /\ Rank(u) \in Nat
                                        /\ Rank(u) < Rank(t)
    OBVIOUS
  <2>1. PICK u \in tasks' : u.key = t.key /\ Rank(u) < Rank(t)
    BY BatchRunsDown
  <2>2. t \in BatchType /\ u \in BatchType
    BY SyncInvNext DEF SyncInv, TypeOK
  <2> QED
    BY <2>1, <2>2, RankIsNat
<1> QED
  BY <1>1, SyncInvariant, PTL DEF Spec, BatchesRunDown

(* The sync thread waits only in the join, or for room in the pool.        *)
SyncCanStep ==
    /\ pc \notin {"sleep", "joining"}
    /\ pc = "download" => \/ seg.next <= seg.end
                          \/ Cardinality(tasks) < Capacity

(* A sync that has begun goes on, or a batch it waits for does, or it is   *)
(* in the join that is never left with every batch completed: what         *)
(* SyncSettles needs besides the fairness of the threads.                  *)
SyncNeverStuck ==
    isSyncing =>
        \/ SyncCanStep
        \/ tasks # {} /\ \A t \in tasks : CanStep(t)
        \/ pc = "joining" /\ tasks = {}

(* Sync, SubmitTask and the batches never all wait for each other, on a    *)
(* machine with at least one worker.                                       *)
THEOREM SyncIsNeverStuck ==
    ASSUME Capacity > 0
    PROVE  Spec => []SyncNeverStuck
<1>1. Init => MarkInv
  BY DEF Init, MarkInv
<1>2. SyncInv /\ MarkInv /\ [Next]_vars => MarkInv'
  BY MarkNext
<1>3. SyncInv /\ MarkInv => SyncNeverStuck
  <2> SUFFICES ASSUME SyncInv, MarkInv, isSyncing, ~SyncCanStep,
                      ~(pc = "joining" /\ tasks = {})
               PROVE  tasks # {} /\ \A t \in tasks : CanStep(t)
    BY DEF SyncNeverStuck
  <2>1. tasks # {}
    <3>1. pc # "sleep"
      BY DEF SyncInv, PhaseInv
    <3>2. pc = "joining" \/ Cardinality(tasks) # 0
      BY <3>1, SyncerAssumption DEF SyncCanStep
    <3> QED
      BY <3>2, FS_EmptySet
  <2> QED
    BY <2>1, BatchCanStep
<1> QED
  BY <1>1, <1>2, <1>3, SyncInvariant, PTL DEF Spec

-----------------------------------------------------------------------------
(* A pool without room (two cores, see thread_pool.cpp): no batch is ever  *)
(* submitted, so the indexer runs and stores nothing.                      *)
THEOREM NoRoomNoBlocks ==
    ASSUME Capacity = 0
    PROVE  Spec => [](tasks = {} /\ blocks = {} /\ ~placeholderRow)
<1> DEFINE Empty == tasks = {} /\ blocks = {} /\ ~placeholderRow
<1>1. Init => Empty
  BY DEF Init
<1>2. ASSUME Empty, [Next]_vars
      PROVE  Empty'
  <2>1. ~SubmitBatch
    <3>1. Cardinality(tasks) = 0
      BY <1>2, FS_EmptySet
    <3> QED
      BY <3>1 DEF SubmitBatch
  <2>2. ~\E t \in tasks : WorkerStep(t)
    BY <1>2
  <2> QED
    BY <1>2, <2>1, <2>2
       DEF Next, vars, durable, ChainGrows, StartSync, SyncStep, Restart,
           LoseVolatileState, RefreshThreadPool, RefreshReturns,
           LoadUnfinishedCheckpoints, ResumeCheckpoint, ResumePastEnd,
           AllResumed, ChoosePath, NextSegment, DownloadBlock
<1>3. Empty /\ [Next]_vars => Empty'
  BY <1>2
<1> QED
  BY <1>1, <1>3, PTL DEF Spec
=============================================================================
