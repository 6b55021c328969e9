--------------------------- MODULE IndexerProofs ---------------------------
(* Theorems about Indexer.                                                 *)
EXTENDS Indexer, FiniteSetTheorems, TLAPS

(* The sizes WaitMeansLoss asks for are those of every machine with at     *)
(* least three cores, unless their number less two is a multiple of 256.   *)
(* With two there is no worker; with one or an unknown number there are    *)
(* 255 or 254 of them and fewer connections (thread_pool.cpp, init.cpp).   *)
THEOREM SizesOfMachine ==
    ASSUME NEW cores \in Nat
    PROVE  /\ SizesSuffice(MaxHardwareThreads(cores), PoolSizeFor(cores))
                <=> cores >= 3 /\ cores % 256 # 2
           /\ MaxHardwareThreads(2) = 0
           /\ cores \in {0, 1} =>
                 PoolSizeFor(cores) < MaxHardwareThreads(cores)
<1>1. /\ MaxHardwareThreads(0) = 254
      /\ MaxHardwareThreads(1) = 255
      /\ MaxHardwareThreads(2) = 0
  BY DEF MaxHardwareThreads
<1>2. CASE cores < 3
  <2>1. cores = 0 \/ cores = 1 \/ cores = 2
    BY <1>2
  <2> QED  BY <1>1, <2>1 DEF SizesSuffice, PoolSizeFor
<1>3. CASE cores >= 3
  <2>1. /\ MaxHardwareThreads(cores) \in 0..255
        /\ MaxHardwareThreads(cores) <= cores - 2
        /\ MaxHardwareThreads(cores) = 0 <=> cores % 256 = 2
    BY <1>3 DEF MaxHardwareThreads
  <2> QED  BY <1>3, <2>1, <1>1 DEF SizesSuffice, PoolSizeFor
<1> QED  BY <1>2, <1>3
-----------------------------------------------------------------------------
(* The inductive invariant, one part for each thing the threads share.     *)

(* Where each thread can be.                                               *)
PlaceInv ==
    /\ pc \in [Thread -> {"off", "connect", "start", "join", "loop", "ended",
                          "lock", "rpc", "retry", "get", "get2", "use",
                          "insert", "release", "unlock", "submit", "refresh",
                          "joining", "idle", "batch"}]
    /\ pc["main"] \in {"connect", "get", "use", "release", "start", "join"}
    /\ pc["sync"] \in {"off", "loop", "ended", "lock", "rpc", "retry", "get",
                       "get2", "use", "submit", "refresh", "joining"}
    /\ \A m \in Monitor :
          pc[m] \in {"off", "loop", "ended", "lock", "rpc", "get", "use",
                    "insert", "release", "unlock"}
    /\ \A w \in Worker : pc[w] \in {"idle", "batch", "get", "use"}

(* How many connections a thread has, by its place.                        *)
Holds(t) ==
    CASE t = "sync" /\ pc[t] = "get2"                -> {1}
      [] t = "sync" /\ pc[t] = "use"                 -> 0..2
      [] t # "sync" /\ pc[t] \in {"use", "insert", "release"} -> {1}
      [] OTHER                                       -> {0}

HeldInv ==
    /\ out \in [Thread -> 0..2]
    /\ \A t \in Thread : out[t] \in Holds(t)

(* Who is inside a scope of http_client_mutex, by its place.               *)
Inside(t) ==
    \/ t = "sync" /\ pc[t] = "rpc"
    \/ t \in Monitor /\ pc[t] \in {"rpc", "get", "use", "insert", "release",
                                   "unlock"}

MutexInv ==
    /\ http_client_mutex \in Thread \cup {Nobody}
    /\ \A t \in Thread : Inside(t) <=> http_client_mutex = t

(* Before the main thread has the tables, nobody else runs.                *)
StartInv ==
    /\ queued \in 0..Cardinality(Worker)
    /\ pc["sync"] = "off" => queued = 0 /\ \A w \in Worker : pc[w] = "idle"
    /\ pc["main"] \notin {"start", "join"} =>
          \A t \in {"sync"} \cup Monitor : pc[t] = "off"
    /\ pc["main"] # "join" => pc["chain"] = "off"
    /\ pc["main"] # "connect" => filled

TablesInv ==
    /\ tables \subseteq Tables
    /\ created \in 0..Len(CreationOrder)
    /\ \A i \in 1..created : CreationOrder[i] \in tables
    /\ pc["main"] \in {"connect", "get", "use"} => created < Len(CreationOrder)
    /\ pc["main"] \in {"start", "join"} => created = Len(CreationOrder)

PeerInv ==
    /\ peer_info \in Answers \cup {NullAnswer}
    /\ pc["peers"] = "insert" => peer_info \in Answers /\ peerinfo \subseteq peer_info
    /\ PeersOfOneAnswer

(* Nobody clears the flag of the chain-info loop.                          *)
RunInv ==
    /\ run \in [Monitor -> BOOLEAN]
    /\ run["chain"]
    /\ pc["chain"] # "ended"

OtherTypes ==
    /\ filled \in BOOLEAN
    /\ stage \in {"should", "query", "resume", "again", "range", "chunk",
                  "first", "second", "last"}
    /\ run_syncing \in BOOLEAN
    /\ stopped \in BOOLEAN

(* The stages in which the sync thread is at a place.                      *)
StageInv ==
    /\ pc["sync"] \in {"get", "use"} =>
          stage \in {"should", "query", "resume", "again", "range"}
    /\ pc["sync"] \in {"get2", "retry"} => stage \in {"should", "again"}
    /\ pc["sync"] \in {"lock", "rpc"} =>
          stage \in {"should", "resume", "again", "range", "chunk"}
    /\ pc["sync"] = "submit" => stage \in {"resume", "range", "chunk"}
    /\ pc["sync"] \in {"refresh", "joining"} =>
          stage \in {"first", "second", "last"}

(* No connection is made up.  This is where TypeOK's bound of free comes   *)
(* from.                                                                   *)
BudgetInv ==
    /\ free \in Nat
    /\ Left <= PoolSize

SharedInv ==
    /\ PlaceInv
    /\ HeldInv
    /\ MutexInv
    /\ StartInv
    /\ TablesInv
    /\ PeerInv
    /\ RunInv
    /\ StageInv
    /\ OtherTypes

IndexerInv == SharedInv /\ BudgetInv
-----------------------------------------------------------------------------
(* What the steps of ConnectionBudget do to the number of connections.     *)
LEMMA HeldFinite ==
    /\ IsFiniteSet(Held)
    /\ Cardinality(Held) \in Nat
<1> DEFINE slots == 1..2
<1>1. IsFiniteSet(Thread)
  <2>1. /\ IsFiniteSet({"main"}) /\ IsFiniteSet({"sync"})
        /\ IsFiniteSet({"peers"}) /\ IsFiniteSet({"chain"})
    BY FS_Singleton
  <2>2. IsFiniteSet(({"main"} \cup {"sync"}) \cup ({"peers"} \cup {"chain"}))
    BY <2>1, FS_Union
  <2>3. IsFiniteSet(Worker)
    BY MonitorsAssumption DEF MonitorsAssumption
  <2>4. Thread = (({"main"} \cup {"sync"}) \cup ({"peers"} \cup {"chain"}))
                    \cup Worker
    BY DEF Thread, Monitor
  <2> QED  BY <2>2, <2>3, <2>4, FS_Union
<1>2. IsFiniteSet(Thread \X slots)
  <2>1. IsFiniteSet(slots)
    <3>1. slots = {1} \cup {2}
      OBVIOUS
    <3> HIDE DEF slots
    <3> QED  BY <3>1, FS_Singleton, FS_Union
  <2> HIDE DEF slots
  <2> QED  BY <1>1, <2>1, FS_Product
<1>3. Held \in SUBSET (Thread \X (1..2))
  BY DEF Held
<1> QED  BY <1>2, <1>3, FS_Subset, FS_CardinalityType

(* Who takes a connection has one more.                                    *)
LEMMA OneMoreHeld ==
    ASSUME NEW t \in Thread, out \in [Thread -> 0..2], out[t] < 2,
           out' = [out EXCEPT ![t] = @ + 1]
    PROVE  Cardinality(Held') = Cardinality(Held) + 1
<1> DEFINE h == <<t, out[t] + 1>>
<1>1. h \notin Held
  BY DEF Held
<1>2. Held' = Held \cup {h}
  BY DEF Held
<1> HIDE DEF h
<1> QED  BY <1>1, <1>2, HeldFinite, FS_AddElement

(* Who releases a connection has one less.                                 *)
LEMMA OneLessHeld ==
    ASSUME NEW t \in Thread, out \in [Thread -> 0..2], out[t] > 0,
           out' = [out EXCEPT ![t] = @ - 1]
    PROVE  Cardinality(Held') = Cardinality(Held) - 1
<1> DEFINE h == <<t, out[t]>>
<1>1. h \in Held
  BY DEF Held
<1>2. Held' = Held \ {h}
  BY DEF Held
<1> HIDE DEF h
<1> QED  BY <1>1, <1>2, HeldFinite, FS_RemoveElement

(* No step of ConnectionBudget makes a connection up.                      *)
LEMMA BudgetKept ==
    ASSUME BudgetInv, NEW t \in Thread, out \in [Thread -> 0..2],
           \/ Budget!Take(t)
           \/ Budget!Return(t)
           \/ Budget!Lose(t)
           \/ Budget!Drop
           \/ UNCHANGED budget
    PROVE  BudgetInv'
<1> USE HeldFinite, MonitorsAssumption DEF BudgetInv, Left, MonitorsAssumption
<1>1. CASE Budget!Take(t)
  <2>1. Cardinality(Held') = Cardinality(Held) + 1
    BY <1>1, OneMoreHeld DEF Budget!Take
  <2> QED  BY <1>1, <2>1 DEF Budget!Take
<1>2. CASE Budget!Return(t)
  <2>1. Cardinality(Held') = Cardinality(Held) - 1
    BY <1>2, OneLessHeld DEF Budget!Return
  <2> QED  BY <1>2, <2>1 DEF Budget!Return
<1>3. CASE Budget!Lose(t)
  <2>1. Cardinality(Held') = Cardinality(Held) - 1
    BY <1>3, OneLessHeld DEF Budget!Lose
  <2> QED  BY <1>3, <2>1 DEF Budget!Lose
<1>4. CASE Budget!Drop
  <2>1. Held' = Held
    BY <1>4 DEF Budget!Drop, Held
  <2> QED  BY <1>4, <2>1 DEF Budget!Drop
<1>5. CASE UNCHANGED budget
  <2>1. Held' = Held
    BY <1>5 DEF budget, Held
  <2> QED  BY <1>5, <2>1 DEF budget
<1> QED  BY <1>1, <1>2, <1>3, <1>4, <1>5

-----------------------------------------------------------------------------
(* The steps of each thread preserve the invariant.                        *)
LEMMA TablesListed ==
    /\ Len(CreationOrder) = 7
    /\ Tables = {CreationOrder[i] : i \in 1..7}
BY DEF Tables, CreationOrder, ToSet

(* A step of a monitor does.                                               *)
LEMMA MonitorKeepsInv ==
    ASSUME IndexerInv, NEW m \in Monitor, MonitorStep(m), OthersStay
    PROVE  IndexerInv'
<1> USE MonitorsAssumption
    DEF MonitorsAssumption, Monitor, Thread, OthersStay, syncVars, budget, Goto,
        Lock, Unlock, GetConnection, ReleaseConnection,
        Budget!Take, Budget!Drop, Budget!Return, Budget!Lose,
        SharedInv, PlaceInv, HeldInv, Holds, MutexInv, Inside, StartInv,
        TablesInv, PeerInv, PeersOfOneAnswer, RunInv, StageInv, OtherTypes
<1>1. SharedInv
  BY DEF IndexerInv
<1>2. ASSUME BeginTurn(m) PROVE SharedInv'
  BY <1>1, <1>2 DEF BeginTurn
<1>3. ASSUME LockClient(m) PROVE SharedInv'
  BY <1>1, <1>3 DEF LockClient
<1>4. ASSUME m = "peers", GetPeerInfo PROVE SharedInv'
  BY <1>1, <1>4 DEF GetPeerInfo
<1>5. ASSUME m = "chain", GetBlockchainInfo PROVE SharedInv'
  BY <1>1, <1>5 DEF GetBlockchainInfo
<1>6. ASSUME StoreGetsConnection(m) PROVE SharedInv'
  BY <1>1, <1>6 DEF StoreGetsConnection
<1>7. ASSUME m = "peers", TruncatePeers PROVE SharedInv'
  BY <1>1, <1>7 DEF TruncatePeers
<1>8. ASSUME m = "peers", InsertPeer PROVE SharedInv'
  BY <1>1, <1>8 DEF InsertPeer
<1>9. ASSUME m = "chain", InsertChainInfo PROVE SharedInv'
  BY <1>1, <1>9 DEF InsertChainInfo
<1>10. ASSUME StoreReturns(m) PROVE SharedInv'
  BY <1>1, <1>10 DEF StoreReturns
<1>11. ASSUME EndTurn(m) PROVE SharedInv'
  BY <1>1, <1>11 DEF EndTurn
<1>12. \/ Budget!Take(m) \/ Budget!Drop \/ Budget!Return(m) \/ Budget!Lose(m)
       \/ UNCHANGED budget
  BY DEF MonitorStep, BeginTurn, LockClient, GetPeerInfo, GetBlockchainInfo,
         StoreGetsConnection, TruncatePeers, InsertPeer, InsertChainInfo,
         StoreReturns, EndTurn
<1>13. BudgetInv'
  BY <1>1, <1>12, BudgetKept DEF IndexerInv
<1> QED
  BY <1>2, <1>3, <1>4, <1>5, <1>6, <1>7, <1>8, <1>9, <1>10, <1>11, <1>13
     DEF MonitorStep, IndexerInv

(* A step of a worker does.                                                *)
LEMMA WorkerKeepsInv ==
    ASSUME IndexerInv, NEW w \in Worker, WorkerStep(w)
    PROVE  IndexerInv'
<1> USE MonitorsAssumption
    DEF MonitorsAssumption, Monitor, Thread, syncVars, peers, budget, Goto,
        GetConnection, ReleaseConnection,
        Budget!Take, Budget!Drop, Budget!Return, Budget!Lose,
        SharedInv, PlaceInv, HeldInv, Holds, MutexInv, Inside, StartInv,
        TablesInv, PeerInv, PeersOfOneAnswer, RunInv, StageInv, OtherTypes
<1>1. SharedInv /\ Cardinality(Worker) \in Nat
  BY FS_CardinalityType DEF IndexerInv
<1>2. ASSUME TakeTask(w) PROVE SharedInv'
  BY <1>1, <1>2 DEF TakeTask
<1>3. ASSUME BeginStatement(w) PROVE SharedInv'
  BY <1>1, <1>3 DEF BeginStatement
<1>4. ASSUME WorkerGetsConnection(w) PROVE SharedInv'
  BY <1>1, <1>4 DEF WorkerGetsConnection
<1>5. ASSUME WorkerReleasesConnection(w) PROVE SharedInv'
  BY <1>1, <1>5 DEF WorkerReleasesConnection
<1>6. ASSUME TaskCompleted(w) PROVE SharedInv'
  BY <1>1, <1>6 DEF TaskCompleted
<1>7. \/ Budget!Take(w) \/ Budget!Drop \/ Budget!Return(w) \/ Budget!Lose(w)
      \/ UNCHANGED budget
  BY DEF WorkerStep, TakeTask, BeginStatement, WorkerGetsConnection,
         WorkerReleasesConnection, TaskCompleted
<1>8. BudgetInv'
  BY <1>1, <1>7, BudgetKept DEF IndexerInv
<1> QED  BY <1>2, <1>3, <1>4, <1>5, <1>6, <1>8 DEF WorkerStep, IndexerInv

(* The counter is at least the number of queued tasks.                     *)
LEMMA QueuedAreActive ==
    ASSUME queued \in Nat
    PROVE  active_task \in Nat /\ queued <= active_task
<1> DEFINE busy == {w \in Worker : pc[w] \in {"batch", "get", "use"}}
<1>1. busy \in SUBSET Worker /\ IsFiniteSet(Worker)
  BY MonitorsAssumption DEF MonitorsAssumption
<1>2. Cardinality(busy) \in Nat
  <2> HIDE DEF busy
  <2> QED  BY <1>1, FS_Subset, FS_CardinalityType
<1> QED  BY <1>2 DEF active_task

(* A step of the sync thread does.                                         *)
LEMMA SyncKeepsInv ==
    ASSUME IndexerInv, SyncStep
    PROVE  IndexerInv'
<1> USE MonitorsAssumption
    DEF MonitorsAssumption, Monitor, Thread, syncVars, peers, budget, Goto,
        SyncGoes, Lock, Unlock, GetConnection, ReleaseConnection,
        Budget!Take, Budget!Drop, Budget!Return, Budget!Lose,
        SharedInv, PlaceInv, HeldInv, Holds, MutexInv, Inside, StartInv,
        TablesInv, PeerInv, PeersOfOneAnswer, RunInv, StageInv, OtherTypes
<1>1. /\ SharedInv
      /\ Cardinality(Worker) \in Nat
      /\ active_task \in Nat /\ queued <= active_task
  BY FS_CardinalityType, QueuedAreActive DEF IndexerInv
<1>2. ASSUME StartSyncLoop PROVE SharedInv'
  BY <1>1, <1>2 DEF StartSyncLoop
<1>3. ASSUME SyncLocksClient PROVE SharedInv'
  BY <1>1, <1>3 DEF SyncLocksClient
<1>4. ASSUME SyncCalls PROVE SharedInv'
  BY <1>1, <1>4 DEF SyncCalls
<1>5. ASSUME RetryCount PROVE SharedInv'
  BY <1>1, <1>5 DEF RetryCount
<1>6. ASSUME SyncGetsConnection PROVE SharedInv'
  BY <1>1, <1>6 DEF SyncGetsConnection
<1>7. ASSUME SyncGetsSecondConnection PROVE SharedInv'
  BY <1>1, <1>7 DEF SyncGetsSecondConnection
<1>8. ASSUME SyncReleasesConnection PROVE SharedInv'
  BY <1>1, <1>8 DEF SyncReleasesConnection
<1>9. ASSUME SyncDecides PROVE SharedInv'
  <2>1. \/ SyncGoes("loop", "should")
        \/ \E s \in {"query", "resume", "range"} : SyncGoes("get", s)
        \/ SyncGoes("refresh", "first")
        \/ \E s \in {"again", "chunk", "resume", "range"} :
              SyncGoes("lock", s)
    BY <1>1, <1>9 DEF SyncDecides
  <2>2. /\ pc["sync"] = "use" /\ out["sync"] = 0
        /\ UNCHANGED <<http_client_mutex, budget, run, peers, tables, created,
                       run_syncing, queued, stopped>>
    BY <1>9 DEF SyncDecides
  <2> QED  BY <1>1, <2>1, <2>2
<1>10. ASSUME SubmitTask PROVE SharedInv'
  BY <1>1, <1>10 DEF SubmitTask
<1>11. ASSUME RefreshThreadPool PROVE SharedInv'
  <2>1. \/ SyncGoes("get", "query")
        \/ SyncGoes("lock", "again")
        \/ SyncGoes("loop", "should")
    BY <1>1, <1>11 DEF RefreshThreadPool
  <2>2. /\ pc["sync"] \in {"refresh", "joining"}
        /\ UNCHANGED <<http_client_mutex, budget, run, peers, tables, created,
                       run_syncing, queued>>
    BY <1>11 DEF RefreshThreadPool
  <2>3. stopped' \in BOOLEAN
    BY <1>11, Zenon DEF RefreshThreadPool
  <2> QED  BY <1>1, <2>1, <2>2, <2>3
<1>12. ASSUME JoinWorkers PROVE SharedInv'
  BY <1>1, <1>12 DEF JoinWorkers
<1>13. \/ Budget!Take("sync") \/ Budget!Drop \/ Budget!Return("sync")
       \/ Budget!Lose("sync") \/ UNCHANGED budget
  BY DEF SyncStep, StartSyncLoop, SyncLocksClient, SyncCalls, RetryCount,
         SyncGetsConnection, SyncGetsSecondConnection, SyncReleasesConnection,
         SyncDecides, SubmitTask, RefreshThreadPool, JoinWorkers
<1>14. BudgetInv'
  BY <1>1, <1>13, BudgetKept DEF IndexerInv
<1> QED
  BY <1>2, <1>3, <1>4, <1>5, <1>6, <1>7, <1>8, <1>9, <1>10, <1>11, <1>12,
     <1>14
     DEF SyncStep, IndexerInv

(* Nobody holds a connection before Connect has returned.                  *)
LEMMA NoneHeld ==
    ASSUME out = [t \in Thread |-> 0]
    PROVE  Cardinality(Held) = 0
<1>1. Held = {}
  BY DEF Held
<1> QED  BY <1>1, FS_EmptySet

(* A step of the main thread does.                                         *)
LEMMA MainKeepsInv ==
    ASSUME IndexerInv, MainStep
    PROVE  IndexerInv'
<1> USE MonitorsAssumption
    DEF MonitorsAssumption, Monitor, Thread, syncVars, peers, budget, Goto,
        ReleaseConnection,
        Budget!Open, Budget!Fill, Budget!Take, Budget!Return, Budget!Lose,
        SharedInv, PlaceInv, HeldInv, Holds, MutexInv, Inside, StartInv,
        TablesInv, PeerInv, PeersOfOneAnswer, RunInv, StageInv, OtherTypes
<1>1. SharedInv
  BY DEF IndexerInv
<1>2. CASE OpenConnection \/ ConnectReturns
  <2>1. pc["main"] = "connect" /\ UNCHANGED out
    BY <1>2 DEF OpenConnection, ConnectReturns
  <2>2. out = [t \in Thread |-> 0]
    BY <1>1, <2>1
  <2>3. Cardinality(Held) = 0 /\ Cardinality(Held') = 0
    <3>1. Held' = Held
      BY <2>1 DEF Held
    <3> QED  BY <2>2, <3>1, NoneHeld
  <2>4. BudgetInv'
    BY <1>2, <2>3 DEF OpenConnection, ConnectReturns, IndexerInv, BudgetInv, Left
  <2>5. filled' \in BOOLEAN
    BY <1>1, <1>2, Zenon DEF OpenConnection, ConnectReturns
  <2>6. SharedInv'
    BY <1>1, <1>2, <2>1, <2>5, TablesListed DEF OpenConnection, ConnectReturns
  <2> QED  BY <2>4, <2>6 DEF IndexerInv
<1>3. ASSUME SetupGetsConnection PROVE SharedInv'
  BY <1>1, <1>3 DEF SetupGetsConnection
<1>4. ASSUME CreateTable PROVE SharedInv'
  <2>1. created + 1 \in 1..7 /\ CreationOrder[created + 1] \in Tables
    BY <1>1, <1>4, TablesListed DEF CreateTable
  <2> QED  BY <1>1, <1>4, <2>1, TablesListed DEF CreateTable
<1>5. ASSUME SetupReleasesConnection PROVE SharedInv'
  <2>1. filled' = filled /\ (pc["main"] # "connect" => filled)
    BY <1>1, <1>5 DEF SetupReleasesConnection
  <2>2. pc'["main"] \in {"start", "get"} /\ filled'
    BY <1>1, <1>5, <2>1 DEF SetupReleasesConnection
  <2>3. StartInv'
    BY <1>1, <1>5, <2>2 DEF SetupReleasesConnection
  <2>4. PlaceInv' /\ MutexInv'
    <3>1. PlaceInv'
      BY <1>1, <1>5 DEF SetupReleasesConnection
    <3>2. MutexInv'
      BY <1>1, <1>5 DEF SetupReleasesConnection
    <3> QED  BY <3>1, <3>2
  <2>5. HeldInv'
    <3>1. /\ out' = [out EXCEPT !["main"] = @ - 1]
          /\ pc["main"] = "release" /\ out["main"] = 1
      BY <1>1, <1>5 DEF SetupReleasesConnection
    <3>2. /\ out' \in [Thread -> 0..2] /\ out'["main"] = 0
          /\ \A t \in Thread \ {"main"} : out'[t] = out[t]
      BY <1>1, <3>1
    <3>3. \A t \in Thread \ {"main"} : pc'[t] = pc[t]
      BY <1>1, <1>5 DEF SetupReleasesConnection
    <3> QED  BY <1>1, <2>2, <3>2, <3>3
  <2>6. PeerInv' /\ RunInv' /\ StageInv'
    BY <1>1, <1>5 DEF SetupReleasesConnection
  <2>7. OtherTypes'
    BY <1>1, <1>5, <2>1, Zenon DEF SetupReleasesConnection
  <2>8. TablesInv'
    BY <1>1, <1>5, TablesListed DEF SetupReleasesConnection
  <2> QED  BY <2>3, <2>4, <2>5, <2>6, <2>7, <2>8
<1>6. ASSUME StartThread PROVE SharedInv'
  <2>1. /\ pc["main"] = "start"
        /\ UNCHANGED <<http_client_mutex, budget, run, peers, tables, created,
                       syncVars>>
    BY <1>6 DEF StartThread
  <2>2. \/ pc["sync"] = "off" /\ pc' = [pc EXCEPT !["sync"] = "loop"]
        \/ pc["peers"] = "off" /\ pc' = [pc EXCEPT !["peers"] = "loop"]
        \/ pc' = [pc EXCEPT !["chain"] = "loop", !["main"] = "join"]
    BY <1>6 DEF StartThread
  <2> QED  BY <1>1, <2>1, <2>2, TablesListed
<1>7. CASE ~(OpenConnection \/ ConnectReturns)
  <2>1. \/ Budget!Take("main") \/ Budget!Return("main") \/ Budget!Lose("main")
        \/ UNCHANGED budget
    BY <1>7 DEF MainStep, SetupGetsConnection, CreateTable,
                SetupReleasesConnection, StartThread
  <2>2. BudgetInv'
    BY <1>1, <2>1, BudgetKept DEF IndexerInv
  <2> QED  BY <1>3, <1>4, <1>5, <1>6, <1>7, <2>2 DEF MainStep, IndexerInv
<1> QED  BY <1>2, <1>7

(* Stop does.                                                              *)
LEMMA StopKeepsInv ==
    ASSUME IndexerInv, Stop
    PROVE  IndexerInv'
<1>1. SharedInv
  BY DEF IndexerInv
<1>2. run_syncing' \in BOOLEAN /\ stopped' \in BOOLEAN
  BY Zenon DEF Stop
<1>3. run' \in [Monitor -> BOOLEAN] /\ run'["chain"]
  <2>1. FALSE \in BOOLEAN
    BY Zenon
  <2> QED  BY <1>1, <2>1 DEF SharedInv, RunInv, Stop, Monitor
<1>4. SharedInv'
  BY <1>1, <1>2, <1>3
     DEF Stop, budget, peers, SharedInv, PlaceInv, HeldInv, Holds, MutexInv,
         Inside, StartInv, TablesInv, PeerInv, PeersOfOneAnswer, RunInv,
         StageInv, OtherTypes
<1>5. BudgetInv'
  <2>1. "main" \in Thread /\ UNCHANGED budget
    BY DEF Stop, Thread
  <2> QED  BY <1>1, <2>1, BudgetKept DEF IndexerInv, SharedInv, HeldInv
<1> QED  BY <1>4, <1>5 DEF IndexerInv

(* A process that starts, for the first time or again.                     *)
Started ==
    /\ pc = [t \in Thread |-> CASE t = "main"   -> "connect"
                               [] t \in Worker -> "idle"
                               [] OTHER        -> "off"]
    /\ http_client_mutex = Nobody
    /\ filled = FALSE
    /\ free = 0
    /\ out = [t \in Thread |-> 0]
    /\ run = [m \in Monitor |-> TRUE]
    /\ peer_info = NullAnswer
    /\ PeersOfOneAnswer
    /\ tables \subseteq Tables
    /\ created = 0
    /\ stage = "should"
    /\ run_syncing = TRUE
    /\ queued = 0
    /\ stopped = FALSE

(* It holds when a process starts, whatever an earlier one left.           *)
LEMMA StartKeepsInv == Started => IndexerInv
<1> SUFFICES ASSUME Started PROVE IndexerInv
  OBVIOUS
<1> USE MonitorsAssumption DEF MonitorsAssumption, Monitor, Thread
<1>1. \A w \in Worker : w \notin {"main", "sync", "peers", "chain"}
  OBVIOUS
<1>2. /\ PlaceInv
      /\ pc["main"] = "connect" /\ \A w \in Worker : pc[w] = "idle"
      /\ \A t \in {"sync"} \cup Monitor : pc[t] = "off"
  BY <1>1 DEF Started, PlaceInv
<1>3. HeldInv /\ MutexInv
  BY <1>1, <1>2 DEF Started, HeldInv, Holds, MutexInv, Inside, PlaceInv
<1>4. StartInv
  BY <1>2, FS_CardinalityType DEF Started, StartInv
<1>5. TablesInv
  BY <1>2, TablesListed DEF Started, TablesInv
<1>6. PeerInv /\ StageInv
  BY <1>2 DEF Started, PeerInv, StageInv
<1>7. RunInv
  <2>1. TRUE \in BOOLEAN
    BY Zenon
  <2> QED  BY <1>2, <2>1 DEF Started, RunInv
<1>8. OtherTypes
  <2>1. filled \in BOOLEAN /\ run_syncing \in BOOLEAN /\ stopped \in BOOLEAN
    BY Zenon DEF Started
  <2> QED  BY <2>1 DEF Started, OtherTypes
<1>9. BudgetInv
  BY NoneHeld DEF Started, BudgetInv, Left
<1> QED
  BY <1>2, <1>3, <1>4, <1>5, <1>6, <1>7, <1>8, <1>9 DEF IndexerInv, SharedInv

(* So a restart keeps it.                                                  *)
LEMMA RestartKeepsInv == IndexerInv /\ Restart => IndexerInv'
<1>1. ASSUME IndexerInv, Restart PROVE Started'
  BY <1>1 DEF IndexerInv, SharedInv, PeerInv, TablesInv, PeersOfOneAnswer,
              Started, Restart
<1> QED  BY <1>1, StartKeepsInv, PTL

(* The invariant holds in every state, whatever fails, stops or restarts,  *)
(* for every number of workers and of connections, none included.          *)
THEOREM IndexerInvariant == Spec => []IndexerInv
<1>1. Init => IndexerInv
  BY StartKeepsInv
     DEF Init, MonitorsInit, Budget!Init, Started, PeersOfOneAnswer
<1>2. IndexerInv /\ [Next]_vars => IndexerInv'
  <2> SUFFICES ASSUME IndexerInv, [Next]_vars PROVE IndexerInv'
    OBVIOUS
  <2>1. CASE MainStep
    BY <2>1, MainKeepsInv
  <2>2. CASE SyncStep
    BY <2>2, SyncKeepsInv
  <2>3. ASSUME NEW m \in Monitor, MonitorStep(m), OthersStay
        PROVE  IndexerInv'
    BY <2>3, MonitorKeepsInv
  <2>4. ASSUME NEW w \in Worker, WorkerStep(w) PROVE IndexerInv'
    BY <2>4, WorkerKeepsInv
  <2>5. CASE Stop
    BY <2>5, StopKeepsInv
  <2>6. CASE Restart
    BY <2>6, RestartKeepsInv
  <2>7. CASE UNCHANGED vars
    BY <2>7
       DEF vars, monitorVars, budget, syncVars, IndexerInv, SharedInv,
           PlaceInv, HeldInv, Holds, MutexInv, Inside, StartInv, TablesInv,
           PeerInv, PeersOfOneAnswer, RunInv, StageInv, OtherTypes,
           BudgetInv, Left, Held
  <2> QED  BY <2>1, <2>2, <2>3, <2>4, <2>5, <2>6, <2>7 DEF Next
<1> QED  BY <1>1, <1>2, PTL DEF Spec

-----------------------------------------------------------------------------
(* Every variable holds a value of its type; in particular the pool never  *)
(* has more connections than Connect opens.                                *)
THEOREM TypeCorrect == Spec => []TypeOK
<1>1. IndexerInv => TypeOK
  <2> SUFFICES ASSUME IndexerInv PROVE TypeOK
    OBVIOUS
  <2>1. SharedInv
    BY DEF IndexerInv
  <2>2. free \in 0..PoolSize
    BY HeldFinite, MonitorsAssumption
       DEF IndexerInv, BudgetInv, Left, MonitorsAssumption
  <2>3. peerinfo \subseteq UNION Answers
    BY <2>1 DEF SharedInv, PeerInv, PeersOfOneAnswer
  <2> QED
    BY <2>1, <2>2, <2>3
       DEF TypeOK, SharedInv, PlaceInv, HeldInv, MutexInv, StartInv, TablesInv,
           PeerInv, RunInv, OtherTypes
<1> QED  BY <1>1, IndexerInvariant, PTL

(* No thread uses a table before CreateTables, of this process or of an    *)
(* earlier one, has made all of them.                                      *)
THEOREM TablesComeFirst == Spec => []TablesBeforeThreads
<1>1. IndexerInv => TablesBeforeThreads
  BY TablesListed
     DEF IndexerInv, SharedInv, PlaceInv, StartInv, TablesInv,
         TablesBeforeThreads
<1> QED  BY <1>1, IndexerInvariant, PTL

(* StorePeers never mixes two answers of zcashd.                           *)
THEOREM PeersAreOfOneAnswer == Spec => []PeersOfOneAnswer
<1>1. IndexerInv => PeersOfOneAnswer
  BY DEF IndexerInv, SharedInv, PeerInv
<1> QED  BY <1>1, IndexerInvariant, PTL

(* The statements of InitApp behind the join are never reached.            *)
THEOREM ShutdownIsNotReached == Spec => []ShutdownNotReached
<1>1. IndexerInv => ShutdownNotReached
  BY DEF IndexerInv, SharedInv, RunInv, ShutdownNotReached, JoinReturns,
         Monitor
<1> QED  BY <1>1, IndexerInvariant, PTL

(* Who sleeps, joins, or waits for the mutex or for room has neither a     *)
(* connection nor the mutex.                                               *)
THEOREM NobodyHoldsAndWaits == Spec => []NoHoldAndWait
<1>1. IndexerInv => NoHoldAndWait
  BY DEF IndexerInv, SharedInv, PlaceInv, HeldInv, Holds, MutexInv, Inside,
         NoHoldAndWait, Monitor
<1> QED  BY <1>1, IndexerInvariant, PTL

-----------------------------------------------------------------------------
(* The most connections that can be in use: one for each worker, two for   *)
(* the count, and one for the monitor that has the mutex.                  *)
Full ==
    (((Worker \X {1}) \cup {<<"sync", 1>>}) \cup {<<"sync", 2>>})
        \cup {<<http_client_mutex, 1>>}

(* Adding a member makes a set larger by at most one.                      *)
LEMMA OneMoreMember ==
    ASSUME NEW S, NEW x, IsFiniteSet(S), NEW n \in Nat, Cardinality(S) <= n
    PROVE  IsFiniteSet(S \cup {x}) /\ Cardinality(S \cup {x}) <= n + 1
<1>1. Cardinality(S) \in Nat
  BY FS_CardinalityType
<1>2. IsFiniteSet(S \cup {x})
  BY FS_AddElement
<1>3. \/ Cardinality(S \cup {x}) = Cardinality(S)
      \/ Cardinality(S \cup {x}) = Cardinality(S) + 1
  BY FS_AddElement
<1> QED  BY <1>1, <1>2, <1>3

(* They are no more than one for each worker and three.                   *)
LEMMA FullSize ==
    /\ IsFiniteSet(Full)
    /\ Cardinality(Full) <= Cardinality(Worker) + 3
<1> DEFINE one == {1}
           A == Worker \X one
           first == <<"sync", 1>>
           second == <<"sync", 2>>
           third == <<http_client_mutex, 1>>
           n == Cardinality(Worker)
           B == A \cup {first}
           C == B \cup {second}
<1>1. IsFiniteSet(Worker) /\ Cardinality(Worker) \in Nat
  BY MonitorsAssumption, FS_CardinalityType DEF MonitorsAssumption
<1>2. IsFiniteSet(one) /\ Cardinality(one) = 1
  BY FS_Singleton
<1>3. IsFiniteSet(A) /\ Cardinality(A) = Cardinality(Worker)
  <2> HIDE DEF one
  <2>1. IsFiniteSet(A) /\ Cardinality(A) = Cardinality(Worker) * Cardinality(one)
    BY <1>1, <1>2, FS_Product
  <2> QED  BY <1>1, <1>2, <2>1
<1>4. IsFiniteSet(B) /\ Cardinality(B) <= n + 1
  <2>1. n \in Nat /\ Cardinality(A) <= n /\ IsFiniteSet(A)
    BY <1>1, <1>3
  <2> HIDE DEF A, first, n
  <2> QED  BY <2>1, OneMoreMember
<1>5. IsFiniteSet(C) /\ Cardinality(C) <= n + 2
  <2>1. n + 1 \in Nat /\ n + 1 + 1 = n + 2
    BY <1>1
  <2> HIDE DEF B, second, n
  <2> QED  BY <1>4, <2>1, OneMoreMember
<1>6. /\ IsFiniteSet(C \cup {third})
      /\ Cardinality(C \cup {third})
            <= n + 3
  <2>1. n + 2 \in Nat /\ n + 2 + 1 = n + 3
    BY <1>1
  <2> HIDE DEF C, third, n
  <2> QED  BY <1>5, <2>1, OneMoreMember
<1> QED  BY <1>6 DEF Full

(* A thread that waits leaves one of them unused.                          *)
LEMMA WaiterLeavesOne ==
    ASSUME SharedInv, NEW t \in Thread, pc[t] \in {"get", "get2"}
    PROVE  Cardinality(Held) <= Cardinality(Worker) + 2
<1> USE MonitorsAssumption DEF MonitorsAssumption, Monitor, Thread
<1> DEFINE x == IF t = "sync" THEN <<"sync", 2>> ELSE <<t, 1>>
<1>1. IsFiniteSet(Worker) /\ Cardinality(Worker) \in Nat
  BY FS_CardinalityType
<1>2. CASE pc["main"] \notin {"start", "join"}
  <2> DEFINE main == <<"main", 1>>
             only == {main}
  <2>1. Held \in SUBSET only
    BY <1>2 DEF SharedInv, PlaceInv, HeldInv, Holds, StartInv, Held
  <2>2. Cardinality(Held) <= 1
    <3>1. IsFiniteSet(only) /\ Cardinality(only) = 1
      <4> HIDE DEF main
      <4> QED  BY FS_Singleton
    <3> HIDE DEF only
    <3> QED  BY <2>1, <3>1, FS_Subset
  <2> QED  BY <1>1, <2>2, HeldFinite
<1>3. CASE pc["main"] \in {"start", "join"}
  <2>1. x \in Full
    BY <1>3 DEF Full, SharedInv, PlaceInv, MutexInv, Inside
  <2>2. Held \subseteq Full
    BY <1>3 DEF Full, SharedInv, PlaceInv, HeldInv, Holds, MutexInv, Inside,
                Held
  <2>3. x \notin Held
    BY DEF SharedInv, PlaceInv, HeldInv, Holds, Held
  <2>4. /\ IsFiniteSet(Full \ {x})
        /\ Cardinality(Full \ {x}) = Cardinality(Full) - 1
    <3> HIDE DEF x
    <3> QED  BY <2>1, FullSize, FS_RemoveElement
  <2>5. Held \in SUBSET (Full \ {x})
    BY <2>2, <2>3
  <2>6. Cardinality(Held) <= Cardinality(Full \ {x})
    <3> HIDE DEF x
    <3> QED  BY <2>4, <2>5, FS_Subset
  <2>7. Cardinality(Full) \in Nat
    BY FullSize, FS_CardinalityType
  <2> HIDE DEF x
  <2> QED  BY <1>1, <2>4, <2>6, <2>7, FullSize, HeldFinite
<1> QED  BY <1>2, <1>3

(* With one connection for each worker and three more, nobody waits for a  *)
(* connection unless some are gone.                                        *)
THEOREM WaitingMeansLoss == Spec => []WaitMeansLoss
<1>1. IndexerInv => WaitMeansLoss
  <2> SUFFICES ASSUME IndexerInv, free = 0,
                      SizesSuffice(Cardinality(Worker), PoolSize),
                      NEW t \in Thread, pc[t] \in {"get", "get2"}
               PROVE  Left < PoolSize
    BY DEF WaitMeansLoss
  <2>1. Cardinality(Held) <= Cardinality(Worker) + 2
    BY WaiterLeavesOne DEF IndexerInv
  <2>2. Cardinality(Worker) \in Nat /\ PoolSize \in Nat
    BY MonitorsAssumption, FS_CardinalityType DEF MonitorsAssumption
  <2> QED  BY <2>1, <2>2, HeldFinite DEF Left, SizesSuffice
<1> QED  BY <1>1, IndexerInvariant, PTL

-----------------------------------------------------------------------------
(* Who waits for whom.  The liveness properties of the runs rest on three  *)
(* facts: somebody can always go, unless one of the exceptions they name   *)
(* has happened; no step undoes an exception; and an exception really is   *)
(* the end of whoever it names.                                            *)

(* The thread waits for the mutex, for a connection, or for room.          *)
Waits(t) ==
    \/ pc[t] = "lock" /\ http_client_mutex # Nobody
    \/ pc[t] \in {"get", "get2"} /\ free = 0
    \/ pc[t] = "submit" /\ active_task >= Cardinality(Worker)

(* The thread has work in hand that waits for nobody, which is more than   *)
(* being asleep between two turns.                                         *)
CanGo(t) ==
    \/ pc[t] \in {"rpc", "use", "insert", "release", "unlock", "batch"}
    \/ pc[t] \in {"get", "get2"} /\ filled /\ free > 0
    \/ t \in Worker /\ pc[t] = "idle" /\ queued > 0 /\ ~stopped

(* Stop has let every worker off, or there has never been one.             *)
Abandoned == \A w \in Worker : stopped /\ pc[w] = "idle"

NobodyStuck ==
    \A t \in Thread : Waits(t) =>
        \/ \E u \in Thread : CanGo(u)
        \/ Left <= 1
        \/ pc[t] = "submit" /\ Abandoned

(* When the pool is empty and two connections are left, somebody is using  *)
(* one: the count that waits for its second one has only the first.        *)
LEMMA TwoLeftOneInUse ==
    ASSUME SharedInv, free = 0, ~(Left <= 1)
    PROVE  \E t \in Thread : pc[t] \in {"use", "insert", "release"}
<1> DEFINE first == <<"sync", 1>>
           only  == {first}
<1> SUFFICES ASSUME \A t \in Thread : pc[t] \notin {"use", "insert", "release"}
             PROVE  FALSE
  OBVIOUS
<1>1. Held \in SUBSET only
  BY DEF Held, SharedInv, HeldInv, Holds
<1>2. IsFiniteSet(only) /\ Cardinality(only) = 1
  <2> HIDE DEF first
  <2> QED  BY FS_Singleton
<1>3. Cardinality(Held) <= 1
  <2> HIDE DEF only
  <2> QED  BY <1>1, <1>2, FS_Subset
<1> QED  BY <1>3, HeldFinite DEF Left

(* When there are as many tasks as workers, a worker has one or is free to *)
(* take one.                                                               *)
LEMMA FullPoolHasWorker ==
    ASSUME SharedInv, active_task >= Cardinality(Worker), ~Abandoned
    PROVE  \E w \in Worker :
              pc[w] # "idle" \/ (queued > 0 /\ ~stopped)
<1> DEFINE busy == {w \in Worker : pc[w] \in {"batch", "get", "use"}}
<1>1. PICK w \in Worker : ~(stopped /\ pc[w] = "idle")
  BY DEF Abandoned
<1>2. IsFiniteSet(Worker) /\ Cardinality(Worker) \in Nat
  BY MonitorsAssumption, FS_CardinalityType DEF MonitorsAssumption
<1>3. Cardinality(Worker) > 0
  BY <1>1, <1>2, FS_EmptySet
<1>4. CASE pc[w] # "idle"
  BY <1>4
<1>5. CASE ~stopped /\ queued > 0
  BY <1>1, <1>5
<1>6. CASE ~stopped /\ ~(queued > 0)
  <2>1. queued = 0
    BY <1>2, <1>6 DEF SharedInv, StartInv
  <2>2. Cardinality(busy) >= 1
    <3>1. Cardinality(busy) = active_task /\ active_task \in Nat
      <4>1. busy \in SUBSET Worker
        OBVIOUS
      <4>2. Cardinality(busy) \in Nat
        <5> HIDE DEF busy
        <5> QED  BY <4>1, <1>2, FS_Subset, FS_CardinalityType
      <4>3. active_task = queued + Cardinality(busy)
        BY DEF active_task
      <4> HIDE DEF busy
      <4> QED  BY <2>1, <4>2, <4>3
    <3> HIDE DEF busy
    <3> QED  BY <1>2, <1>3, <3>1
  <2>3. busy # {}
    <3> HIDE DEF busy
    <3> QED  BY <2>2, FS_EmptySet
  <2> QED  BY <2>3
<1> QED  BY <1>1, <1>4, <1>5, <1>6

(* Whenever a thread waits for the mutex, for a connection or for room,    *)
(* another one has work in hand and waits for nobody, unless at most one   *)
(* connection is left or Stop has abandoned the tasks.  So neither the     *)
(* order in which a sync, the monitors and the workers take what they      *)
(* share, nor the monitors' habit to keep the mutex while they wait for a  *)
(* connection, can stop them all.                                          *)
THEOREM NobodyIsStuck == Spec => []NobodyStuck
<1>1. IndexerInv => NobodyStuck
  <2> SUFFICES ASSUME IndexerInv, NEW t \in Thread, Waits(t), ~(Left <= 1),
                      ~(pc[t] = "submit" /\ Abandoned)
               PROVE  \E u \in Thread : CanGo(u)
    BY DEF NobodyStuck
  <2>1. SharedInv /\ free \in Nat
    BY DEF IndexerInv, BudgetInv
  <2>2. ASSUME free = 0 PROVE \E u \in Thread : CanGo(u)
    BY <2>1, <2>2, TwoLeftOneInUse DEF CanGo
  <2>3. ASSUME NEW u \in Thread, u # "main", pc[u] = "get"
        PROVE  \E v \in Thread : CanGo(v)
    <3>1. CASE free = 0
      BY <2>2, <3>1
    <3>2. CASE free # 0
      <4>1. filled
        BY <2>1, <2>3, MonitorsAssumption
           DEF SharedInv, StartInv, PlaceInv, Thread, Monitor,
               MonitorsAssumption
      <4> QED  BY <2>1, <2>3, <3>2, <4>1 DEF CanGo
    <3> QED  BY <3>1, <3>2
  <2>4. CASE pc[t] = "lock" /\ http_client_mutex # Nobody
    <3>1. PICK h \in Thread : http_client_mutex = h
      BY <2>1, <2>4 DEF SharedInv, MutexInv
    <3>2. Inside(h)
      BY <2>1, <3>1 DEF SharedInv, MutexInv
    <3> QED
      BY <2>3, <3>2, MonitorsAssumption
         DEF Inside, CanGo, Monitor, MonitorsAssumption
  <2>5. CASE pc[t] \in {"get", "get2"} /\ free = 0
    BY <2>2, <2>5
  <2>6. CASE pc[t] = "submit" /\ active_task >= Cardinality(Worker)
    <3>1. ~Abandoned
      BY <2>6
    <3>2. PICK w \in Worker : pc[w] # "idle" \/ (queued > 0 /\ ~stopped)
      BY <2>1, <2>6, <3>1, FullPoolHasWorker
    <3>3. /\ w \in Thread /\ w # "main"
          /\ pc[w] \in {"idle", "batch", "get", "use"}
      BY <2>1, MonitorsAssumption
         DEF SharedInv, PlaceInv, Thread, MonitorsAssumption
    <3> QED  BY <2>3, <3>2, <3>3 DEF CanGo
  <2> QED  BY <2>4, <2>5, <2>6 DEF Waits
<1> QED  BY <1>1, IndexerInvariant, PTL

-----------------------------------------------------------------------------
(* A step of a monitor or of a worker moves this thread only.              *)
LEMMA MonitorMoves ==
    ASSUME PlaceInv, NEW m \in Monitor, MonitorStep(m)
    PROVE  /\ \A t \in Thread \ {m} : pc'[t] = pc[t]
           /\ pc'["sync"] = pc["sync"]
           /\ filled' = filled
<1> "sync" \in Thread \ {m}
  BY DEF Thread, Monitor
<1>1. (\E place : Goto(m, place)) \/ UNCHANGED pc
  BY DEF MonitorStep, BeginTurn, LockClient, GetPeerInfo, GetBlockchainInfo,
         StoreGetsConnection, TruncatePeers, InsertPeer, InsertChainInfo,
         StoreReturns, EndTurn, GetConnection, ReleaseConnection, Lock, Unlock,
         Monitor
<1>2. filled' = filled
  BY DEF MonitorStep, BeginTurn, LockClient, GetPeerInfo, GetBlockchainInfo,
         StoreGetsConnection, TruncatePeers, InsertPeer, InsertChainInfo,
         StoreReturns, EndTurn, GetConnection, ReleaseConnection,
         Budget!Take, Budget!Drop, Budget!Return, Budget!Lose, budget
<1> QED  BY <1>1, <1>2 DEF Goto, PlaceInv

(* The same of a worker.                                                   *)
LEMMA WorkerMoves ==
    ASSUME PlaceInv, NEW w \in Worker, WorkerStep(w)
    PROVE  /\ \A t \in Thread \ {w} : pc'[t] = pc[t]
           /\ pc'["sync"] = pc["sync"]
           /\ filled' = filled
<1> "sync" \in Thread \ {w}
  BY MonitorsAssumption DEF MonitorsAssumption, Thread
<1>1. \E place : Goto(w, place)
  BY DEF WorkerStep, TakeTask, BeginStatement, WorkerGetsConnection,
         WorkerReleasesConnection, TaskCompleted, GetConnection,
         ReleaseConnection
<1>2. filled' = filled
  BY DEF WorkerStep, TakeTask, BeginStatement, WorkerGetsConnection,
         WorkerReleasesConnection, TaskCompleted, GetConnection,
         ReleaseConnection, Budget!Take, Budget!Drop, Budget!Return,
         Budget!Lose, budget
<1> QED  BY <1>1, <1>2 DEF Goto, PlaceInv

(* What a step of ConnectionBudget leaves.                                 *)
LEMMA BudgetMoves ==
    ASSUME BudgetInv, NEW t \in Thread, out \in [Thread -> 0..2],
           \/ Budget!Take(t)
           \/ Budget!Return(t)
           \/ Budget!Lose(t)
           \/ Budget!Drop
           \/ UNCHANGED budget
    PROVE  Left' <= Left
<1> USE HeldFinite DEF BudgetInv, Left
<1>1. CASE Budget!Take(t)
  <2>1. Cardinality(Held') = Cardinality(Held) + 1
    BY <1>1, OneMoreHeld DEF Budget!Take
  <2> QED  BY <1>1, <2>1 DEF Budget!Take
<1>2. CASE Budget!Return(t)
  <2>1. Cardinality(Held') = Cardinality(Held) - 1
    BY <1>2, OneLessHeld DEF Budget!Return
  <2> QED  BY <1>2, <2>1 DEF Budget!Return
<1>3. CASE Budget!Lose(t)
  <2>1. Cardinality(Held') = Cardinality(Held) - 1
    BY <1>3, OneLessHeld DEF Budget!Lose
  <2> QED  BY <1>3, <2>1 DEF Budget!Lose
<1>4. CASE Budget!Drop
  <2>1. Held' = Held
    BY <1>4 DEF Budget!Drop, Held
  <2> QED  BY <1>4, <2>1 DEF Budget!Drop
<1>5. CASE UNCHANGED budget
  <2>1. Held' = Held
    BY <1>5 DEF budget, Held
  <2> QED  BY <1>5, <2>1 DEF budget
<1> QED  BY <1>1, <1>2, <1>3, <1>4, <1>5

(* Every step uses the connections as ConnectionBudget allows: Connect     *)
(* opens them, a thread takes, returns or loses one, or a restart begins   *)
(* anew.                                                                   *)
LEMMA BudgetSteps ==
    ASSUME [Next]_vars
    PROVE  \/ Restart
           \/ ~filled
           \/ \E t \in Thread :
                 \/ Budget!Take(t)
                 \/ Budget!Return(t)
                 \/ Budget!Lose(t)
                 \/ Budget!Drop
                 \/ UNCHANGED budget
<1>1. /\ "main" \in Thread /\ "sync" \in Thread
      /\ Monitor \subseteq Thread /\ Worker \subseteq Thread
  BY DEF Thread
<1>2. CASE MainStep
  <2>1. \/ ~filled
        \/ Budget!Take("main") \/ Budget!Return("main") \/ Budget!Lose("main")
        \/ UNCHANGED budget
    BY <1>2
       DEF MainStep, OpenConnection, ConnectReturns, SetupGetsConnection,
           CreateTable, SetupReleasesConnection, StartThread,
           ReleaseConnection, Budget!Open, Budget!Fill
  <2> QED  BY <1>1, <2>1
<1>3. CASE SyncStep
  <2>1. \/ Budget!Take("sync") \/ Budget!Drop \/ Budget!Return("sync")
        \/ Budget!Lose("sync") \/ UNCHANGED budget
    BY <1>3
       DEF SyncStep, StartSyncLoop, SyncLocksClient, SyncCalls, RetryCount,
           SyncGetsConnection, SyncGetsSecondConnection,
           SyncReleasesConnection, SyncDecides, SubmitTask,
           RefreshThreadPool, JoinWorkers, GetConnection,
           ReleaseConnection, syncVars
  <2> QED  BY <1>1, <2>1
<1>4. ASSUME NEW m \in Monitor, MonitorStep(m)
      PROVE  \/ Budget!Take(m) \/ Budget!Drop \/ Budget!Return(m)
             \/ Budget!Lose(m) \/ UNCHANGED budget
  BY <1>4
     DEF MonitorStep, BeginTurn, LockClient, GetPeerInfo, GetBlockchainInfo,
         StoreGetsConnection, TruncatePeers, InsertPeer, InsertChainInfo,
         StoreReturns, EndTurn, GetConnection, ReleaseConnection
<1>5. ASSUME NEW w \in Worker, WorkerStep(w)
      PROVE  \/ Budget!Take(w) \/ Budget!Drop \/ Budget!Return(w)
             \/ Budget!Lose(w) \/ UNCHANGED budget
  BY <1>5
     DEF WorkerStep, TakeTask, BeginStatement, WorkerGetsConnection,
         WorkerReleasesConnection, TaskCompleted, GetConnection,
         ReleaseConnection
<1>6. Stop \/ UNCHANGED vars => UNCHANGED budget
  BY DEF Stop, vars, monitorVars
<1> QED  BY <1>1, <1>2, <1>3, <1>4, <1>5, <1>6 DEF Next

(* Within the life of a process connections only get fewer: the exception  *)
(* Left <= 1 of the liveness properties, once it holds, is never undone    *)
(* but by a restart.                                                       *)
ConnectionsDwindle == [][filled /\ filled' => Left' <= Left]_vars

(* No thread opens a connection after Connect has returned.                *)
THEOREM ConnectionsOnlyDwindle == Spec => ConnectionsDwindle
<1>1. ASSUME IndexerInv, [Next]_vars, filled, filled' PROVE Left' <= Left
  <2>1. ~Restart
    BY <1>1 DEF Restart
  <2>2. BudgetInv /\ out \in [Thread -> 0..2]
    BY <1>1 DEF IndexerInv, SharedInv, HeldInv
  <2> QED  BY <1>1, <2>1, <2>2, BudgetSteps, BudgetMoves
<1> QED  BY <1>1, IndexerInvariant, PTL DEF Spec, ConnectionsDwindle

-----------------------------------------------------------------------------
(* The count has the last connection and waits for another one.            *)
CountAlone == pc["sync"] = "get2" /\ Left <= 1

(* Then it waits for itself for ever, and only a restart ends that.        *)
CountWaitsForItself ==
    [][CountAlone => CountAlone' \/ pc'["main"] = "connect"]_vars

(* The connections left are counted.                                       *)
LEMMA LeftIsNumber == IndexerInv => Left \in Int
BY HeldFinite DEF IndexerInv, BudgetInv, Left

(* The connection is the count's: the pool is empty, nobody else has one.  *)
LEMMA CountHasTheLast ==
    ASSUME IndexerInv, CountAlone
    PROVE  free = 0 /\ \A t \in Thread \ {"sync"} : out[t] = 0
<1> DEFINE first == <<"sync", 1>>
<1>1. SharedInv /\ free \in Nat /\ "sync" \in Thread
  BY DEF IndexerInv, BudgetInv, Thread
<1>2. first \in Held
  BY <1>1 DEF CountAlone, SharedInv, HeldInv, Holds, Held
<1>3. Cardinality(Held) >= 1
  <2> HIDE DEF first
  <2> QED  BY <1>2, HeldFinite, FS_EmptySet
<1>4. free = 0 /\ Cardinality(Held) = 1
  BY <1>1, <1>3, HeldFinite DEF CountAlone, Left
<1>5. ASSUME NEW t \in Thread \ {"sync"}, out[t] # 0 PROVE FALSE
  <2> DEFINE other == <<t, 1>>
  <2>1. other \in Held /\ other # first
    BY <1>1, <1>5 DEF SharedInv, HeldInv, Held
  <2> HIDE DEF other, first
  <2>2. /\ IsFiniteSet(Held \ {first})
        /\ Cardinality(Held \ {first}) = 0
    BY <1>2, <1>4, HeldFinite, FS_RemoveElement
  <2>3. Held \ {first} = {}
    BY <2>2, FS_EmptySet
  <2> QED  BY <2>1, <2>3
<1> QED  BY <1>4, <1>5

(* GetSyncedBlockCountFromDB asks for a second connection with the first   *)
(* in its hands.  If it is the last one of the process it never gets it:   *)
(* the exception of the liveness properties is a real one.                 *)
THEOREM CountIsStuck == Spec => CountWaitsForItself
<1>1. ASSUME IndexerInv, IndexerInv', [Next]_vars, CountAlone
      PROVE  CountAlone' \/ pc'["main"] = "connect"
  <2>1. SharedInv /\ SharedInv'
    BY <1>1 DEF IndexerInv
  <2>2. free = 0 /\ \A t \in Thread \ {"sync"} : out[t] = 0
    BY <1>1, CountHasTheLast
  <2>3. pc["sync"] = "get2" /\ pc["main"] \in {"start", "join"} /\ filled
    BY <1>1, <2>1 DEF CountAlone, SharedInv, PlaceInv, StartInv
  <2>4. CASE Restart
    BY <2>4, MonitorsAssumption DEF Restart, Thread, MonitorsAssumption
  <2>5. ASSUME ~Restart PROVE pc'["sync"] = "get2" /\ filled'
    <3>1. CASE MainStep
      BY <3>1, <2>1, <2>3
         DEF MainStep, OpenConnection, ConnectReturns, SetupGetsConnection,
             CreateTable, SetupReleasesConnection, StartThread, SharedInv,
             PlaceInv, budget, Thread, Monitor
    <3>2. CASE SyncStep
      BY <3>2, <2>2, <2>3
         DEF SyncStep, StartSyncLoop, SyncLocksClient, SyncCalls, RetryCount,
             SyncGetsConnection, SyncGetsSecondConnection,
             SyncReleasesConnection, SyncDecides, SubmitTask,
             RefreshThreadPool, JoinWorkers, GetConnection,
             Budget!Take, Budget!Drop
    <3>3. ASSUME NEW m \in Monitor, MonitorStep(m)
          PROVE  pc'["sync"] = "get2" /\ filled'
      BY <3>3, <2>1, <2>3, MonitorMoves DEF SharedInv, PlaceInv
    <3>4. ASSUME NEW w \in Worker, WorkerStep(w)
          PROVE  pc'["sync"] = "get2" /\ filled'
      BY <3>4, <2>1, <2>3, WorkerMoves DEF SharedInv, PlaceInv
    <3>5. CASE Stop
      BY <3>5, <2>3 DEF Stop, budget
    <3>6. CASE UNCHANGED vars
      BY <3>6, <2>3 DEF vars, monitorVars, budget
    <3> QED  BY <1>1, <2>5, <3>1, <3>2, <3>3, <3>4, <3>5, <3>6 DEF Next
  <2>6. ASSUME ~Restart PROVE Left' <= Left
    <3>1. BudgetInv /\ out \in [Thread -> 0..2]
      BY <1>1, <2>1 DEF IndexerInv, SharedInv, HeldInv
    <3> QED  BY <1>1, <2>3, <2>6, <3>1, BudgetSteps, BudgetMoves
  <2>7. Left \in Int
    BY <1>1, LeftIsNumber
  <2>8. Left' \in Int
    <3>1. IndexerInv' => (Left \in Int)'
      BY LeftIsNumber, PTL
    <3> QED  BY <1>1, <3>1
  <2> QED  BY <1>1, <2>4, <2>5, <2>6, <2>7, <2>8 DEF CountAlone
<1> QED  BY <1>1, IndexerInvariant, PTL DEF Spec, CountWaitsForItself

-----------------------------------------------------------------------------
(* The sync thread waits for room, and Stop has let every worker off.      *)
SubmitAlone ==
    pc["sync"] = "submit" /\ active_task >= Cardinality(Worker) /\ Abandoned

(* Then it waits for ever, and only a restart ends that.                   *)
SubmitIsLost ==
    [][SubmitAlone => SubmitAlone' \/ pc'["main"] = "connect"]_vars

(* A worker that Stop has let off takes no task, and SubmitTask, which     *)
(* does not look at Stop's flag, waits for one of them to end.             *)
THEOREM SubmitIsStuck == Spec => SubmitIsLost
<1>1. ASSUME IndexerInv, [Next]_vars, SubmitAlone
      PROVE  SubmitAlone' \/ pc'["main"] = "connect"
  <2>1. SharedInv
    BY <1>1 DEF IndexerInv
  <2>2. pc["sync"] = "submit" /\ pc["main"] \in {"start", "join"}
    BY <1>1, <2>1 DEF SubmitAlone, SharedInv, PlaceInv, StartInv
  <2>3. \A w \in Worker : stopped /\ pc[w] = "idle"
    BY <1>1 DEF SubmitAlone, Abandoned
  <2>4. CASE Restart
    BY <2>4, MonitorsAssumption DEF Restart, Thread, MonitorsAssumption
  <2>5. ASSUME ~Restart
        PROVE  /\ pc'["sync"] = "submit"
               /\ UNCHANGED queued
               /\ \A w \in Worker : pc'[w] = pc[w] /\ stopped'
    <3>1. CASE MainStep
      BY <3>1, <2>1, <2>2, <2>3, MonitorsAssumption
         DEF MainStep, OpenConnection, ConnectReturns, SetupGetsConnection,
             CreateTable, SetupReleasesConnection, StartThread, SharedInv,
             PlaceInv, syncVars, Thread, Monitor, MonitorsAssumption
    <3>2. CASE SyncStep
      <4>1. active_task \in Nat /\ Cardinality(Worker) \in Nat
        BY <2>1, QueuedAreActive, MonitorsAssumption, FS_CardinalityType
           DEF SharedInv, StartInv, MonitorsAssumption
      <4> QED
        BY <3>2, <1>1, <2>2, <4>1
           DEF SyncStep, StartSyncLoop, SyncLocksClient, SyncCalls, RetryCount,
               SyncGetsConnection, SyncGetsSecondConnection,
               SyncReleasesConnection, SyncDecides, SubmitTask,
               RefreshThreadPool, JoinWorkers, SubmitAlone
    <3>3. ASSUME NEW m \in Monitor, MonitorStep(m), OthersStay
          PROVE  /\ pc'["sync"] = "submit"
                 /\ UNCHANGED queued
                 /\ \A w \in Worker : pc'[w] = pc[w] /\ stopped'
      <4>1. \A w \in Worker : w # m /\ w \in Thread
        BY MonitorsAssumption DEF MonitorsAssumption, Thread
      <4> QED
        BY <3>3, <2>1, <2>2, <2>3, <4>1, MonitorMoves
           DEF SharedInv, PlaceInv, OthersStay, syncVars
    <3>4. ASSUME NEW w \in Worker, WorkerStep(w) PROVE FALSE
      BY <3>4, <2>3
         DEF WorkerStep, TakeTask, BeginStatement, WorkerGetsConnection,
             WorkerReleasesConnection, TaskCompleted
    <3>5. CASE Stop
      BY <3>5, <2>2 DEF Stop
    <3>6. CASE UNCHANGED vars
      BY <3>6, <2>2, <2>3 DEF vars, monitorVars, syncVars
    <3> QED  BY <1>1, <2>5, <3>1, <3>2, <3>3, <3>4, <3>5, <3>6 DEF Next
  <2>6. ASSUME ~Restart PROVE active_task' = active_task
    BY <2>5, <2>6 DEF active_task
  <2> QED  BY <1>1, <2>3, <2>4, <2>5, <2>6 DEF SubmitAlone, Abandoned
<1> QED  BY <1>1, IndexerInvariant, PTL DEF Spec, SubmitIsLost
=============================================================================
