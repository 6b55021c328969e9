------------------------------ MODULE Indexer ------------------------------
(***************************************************************************)
(* The whole program: init.cpp and the Controller on the main thread, the  *)
(* sync thread, the two monitors, the workers, and what they share: the    *)
(* connections, http_client_mutex, the worker pool and the tables.         *)
(*                                                                         *)
(* Who waits for whom is the subject, so of a sync only the order remains  *)
(* in which it takes and gives back what is shared; Syncer says what it    *)
(* does with the blocks.  The connections are used as ConnectionBudget     *)
(* promises, and a task in the pool is a number: the tasks in flight are   *)
(* those that are queued and those on a worker.                            *)
(*                                                                         *)
(* Stage of the sync thread, and the places it goes through in each:       *)
(*   should, again    lock rpc (retry) get get2 use   both counts          *)
(*   query            get use                     unfinished checkpoints   *)
(*   resume, range    get use lock rpc submit     one segment              *)
(*   chunk            lock rpc submit             one segment, untracked   *)
(*   first, second, last   refresh (joining)      RefreshThreadPool        *)
(***************************************************************************)
EXTENDS Monitors, SequencesExt

CONSTANT Stoppable   \* may another thread call Syncer::Stop?

(* The tables, in the order of CreateTables.                               *)
CreationOrder ==
    <<"blocks", "transactions", "transparent_inputs", "transparent_outputs",
      "peerinfo", "checkpoints", "chain_info">>

Tables == ToSet(CreationOrder)

(* How many workers and connections a machine with so many cores has: the  *)
(* first number is kept in a uint8_t, and 0 cores means "not known".       *)
MaxHardwareThreads(cores) == (cores + (256 - 2)) % 256
PoolSizeFor(cores) == cores * 5

(* A worker, and a connection for each of them and three more.             *)
SizesSuffice(threads, connections) ==
    /\ threads \in 1..255
    /\ connections >= threads + 3

ASSUME IndexerAssumption == Stoppable \in BOOLEAN

VARIABLES
    tables,        \* those that exist
    created,       \* how many CreateTables has gone through
    stage,         \* of the sync thread
    run_syncing,
    queued,        \* tasks waiting in the io_service
    stopped        \* the io_service is stopped

syncVars == <<stage, run_syncing, queued, stopped>>
vars     == <<monitorVars, tables, created, syncVars>>

(* What a step of the main thread, of the sync thread or of a worker       *)
(* leaves to the monitors.                                                 *)
peers == <<peer_info, peerinfo>>

Init ==
    /\ MonitorsInit
    /\ tables = {}
    /\ created = 0
    /\ stage = "should"
    /\ run_syncing = TRUE
    /\ queued = 0
    /\ stopped = FALSE

(* ThreadPool's counter, by which it admits tasks.                         *)
active_task ==
    queued + Cardinality({w \in Worker : pc[w] \in {"batch", "get", "use"}})

-----------------------------------------------------------------------------
(* InitApp on the main thread: Connect opens the connections.  After a     *)
(* failure it returns with those opened so far, less one.                  *)
OpenConnection ==
    /\ pc["main"] = "connect"
    /\ Budget!Open
    /\ UNCHANGED <<pc, http_client_mutex, run, peers, tables, created,
                   syncVars>>

ConnectReturns ==
    /\ pc["main"] = "connect"
    /\ \/ free = PoolSize /\ Budget!Fill(free)
       \/ /\ Failures
          /\ free < PoolSize
          /\ Budget!Fill(IF free = 0 THEN 0 ELSE free - 1)
    /\ Goto("main", "get")
    /\ UNCHANGED <<http_client_mutex, run, peers, tables, created, syncVars>>

(* CreateTables: one table after the other, each in a transaction on a     *)
(* connection of its own.  Any exception here ends the process.            *)
SetupGetsConnection ==
    /\ pc["main"] = "get"
    /\ Budget!Take("main")
    /\ Goto("main", "use")
    /\ UNCHANGED <<http_client_mutex, run, peers, tables, created, syncVars>>

ExistingTableEndsSetup ==  \* taken for a database that is set up
    /\ pc["main"] = "use"
    /\ tables' = tables \cup {CreationOrder[created + 1]}
    /\ created' = IF CreationOrder[created + 1] \in tables
                    THEN Len(CreationOrder) ELSE created + 1
    /\ Goto("main", "release")
    /\ UNCHANGED <<http_client_mutex, budget, run, peers, syncVars>>

(* ExecuteTableCreationQuery: "Table already exists. Skipping creation."   *)
CreateTable ==
    /\ pc["main"] = "use"
    /\ tables' = tables \cup {CreationOrder[created + 1]}
    /\ created' = created + 1
    /\ Goto("main", "release")
    /\ UNCHANGED <<http_client_mutex, budget, run, peers, syncVars>>

SetupReleasesConnection ==
    /\ pc["main"] = "release"
    /\ ReleaseConnection("main",
          IF created = Len(CreationOrder) THEN "start" ELSE "get")
    /\ UNCHANGED <<http_client_mutex, run, peers, tables, created, syncVars>>

(* StartSyncLoop, StartMonitoringPeers, StartMonitoringChainInfo of the    *)
(* Controller, in this order; then the main thread joins all three.        *)
StartThread ==
    /\ pc["main"] = "start"
    /\ pc' = CASE pc["sync"] = "off"  -> [pc EXCEPT !["sync"] = "loop"]
               [] pc["sync"] # "off" /\ pc["peers"] = "off"
                                      -> [pc EXCEPT !["peers"] = "loop"]
               [] OTHER               -> [pc EXCEPT !["chain"] = "loop",
                                                    !["main"] = "join"]
    /\ UNCHANGED <<http_client_mutex, budget, run, peers, tables, created,
                   syncVars>>

MainStep ==
    \/ OpenConnection
    \/ ConnectReturns
    \/ SetupGetsConnection
    \/ CreateTable
    \/ SetupReleasesConnection
    \/ StartThread

(* What JoinJoinableSyncingOperations waits for, before Shutdown.          *)
JoinReturns ==
    /\ pc["main"] = "join"
    /\ \A t \in {"sync"} \cup Monitor : pc[t] = "ended"

-----------------------------------------------------------------------------
(* The sync thread.                                                        *)
SyncGoes(place, newStage) ==
    /\ Goto("sync", place)
    /\ stage' = newStage

StartSyncLoop ==
    /\ pc["sync"] = "loop"
    /\ SyncGoes(IF run_syncing THEN "lock" ELSE "ended", "should")
    /\ UNCHANGED <<http_client_mutex, budget, run, peers, tables, created,
                   run_syncing, queued, stopped>>

SyncLocksClient ==
    /\ pc["sync"] = "lock"
    /\ Lock("sync", "rpc")
    /\ UNCHANGED <<budget, run, peers, tables, created, syncVars>>

RetryInsideGuard ==  \* the retry is made before the guard's scope ends
    /\ pc["sync"] = "rpc"
    /\ \/ Unlock("sync", IF stage \in {"should", "again"} THEN "get"
                                                          ELSE "submit")
       \/ /\ stage \in {"should", "again"}
          /\ Goto("sync", "retry")
          /\ UNCHANGED http_client_mutex
    /\ UNCHANGED <<budget, run, peers, tables, created, syncVars>>

(* LoadTotalBlockCountFromChain, whose guard is gone when the handler      *)
(* decides to try again because zcashd is starting, and DownloadBlocks and *)
(* DownloadBlocksFromHeights, which survive what goes wrong with a block.  *)
SyncCalls ==
    /\ pc["sync"] = "rpc"
    /\ \/ Unlock("sync", IF stage \in {"should", "again"} THEN "get"
                                                          ELSE "submit")
       \/ stage \in {"should", "again"} /\ Unlock("sync", "retry")
    /\ UNCHANGED <<budget, run, peers, tables, created, syncVars>>

(* After ten seconds it calls itself.                                      *)
RetryCount ==
    /\ pc["sync"] = "retry"
    /\ Goto("sync", "lock")
    /\ UNCHANGED <<http_client_mutex, budget, run, peers, tables, created,
                   syncVars>>

(* GetSyncedBlockCountFromDB needs a second connection.  An exception of   *)
(* the first, of GetUnfinishedCheckpoints or of GetCheckpoint ends the     *)
(* process; CreateCheckpointIfNonExistent survives it.                     *)
SyncGetsConnection ==
    /\ pc["sync"] = "get"
    /\ \/ /\ stage \in {"should", "again"}
          /\ Budget!Take("sync")
          /\ Goto("sync", "get2")
       \/ /\ stage \in {"query", "resume"}
          /\ Budget!Take("sync")
          /\ Goto("sync", "use")
       \/ /\ stage = "range"
          /\ GetConnection("sync", "use", "lock")
    /\ UNCHANGED <<http_client_mutex, run, peers, tables, created, syncVars>>

(* Whatever happens to the second connection, the count is 0.              *)
SyncGetsSecondConnection ==
    /\ pc["sync"] = "get2"
    /\ GetConnection("sync", "use", "use")
    /\ UNCHANGED <<http_client_mutex, run, peers, tables, created, syncVars>>

ConnectionKeptOverDownload ==  \* it lives as long as the segment
    /\ pc["sync"] = "use"
    /\ IF stage \in {"resume", "range"}
         THEN Goto("sync", "lock") /\ UNCHANGED budget
         ELSE out["sync"] > 0 /\ ReleaseConnection("sync", "use")
    /\ UNCHANGED <<http_client_mutex, run, peers, tables, created, syncVars>>

SyncReleasesConnection ==
    /\ pc["sync"] = "use"
    /\ out["sync"] > 0
    /\ ReleaseConnection("sync", "use")
    /\ UNCHANGED <<http_client_mutex, run, peers, tables, created, syncVars>>

(* What Sync does with what it read: there is nothing new, there are       *)
(* unfinished checkpoints or none, and a range or a chunk to download.     *)
SyncDecides ==
    /\ pc["sync"] = "use"
    /\ out["sync"] = 0
    /\ CASE stage = "should" ->
              \/ SyncGoes("loop", "should")
              \/ IF active_task = 0 THEN SyncGoes("get", "query")
                                    ELSE SyncGoes("refresh", "first")
         [] stage = "query" ->
              SyncGoes("get", "resume") \/ SyncGoes("lock", "again")
         [] stage = "again" ->
              \/ SyncGoes("loop", "should")
              \/ SyncGoes("get", "range")
              \/ SyncGoes("lock", "chunk")
         [] stage \in {"resume", "range"} -> SyncGoes("lock", stage)
    /\ UNCHANGED <<http_client_mutex, budget, run, peers, tables, created,
                   run_syncing, queued, stopped>>

SubmitTaskPastLimit ==  \* one task more than the limit
    /\ pc["sync"] = "submit"
    /\ active_task <= Cardinality(Worker)
    /\ queued' = queued + 1
    /\ \/ stage \in {"resume", "range"} /\ SyncGoes("get", stage)
       \/ SyncGoes("refresh", IF stage = "resume" THEN "second" ELSE "last")
    /\ UNCHANGED <<http_client_mutex, budget, run, peers, tables, created,
                   run_syncing, stopped>>

SubmitTaskBelowLimit ==  \* one task less than the limit
    /\ pc["sync"] = "submit"
    /\ active_task + 1 < Cardinality(Worker)
    /\ queued' = queued + 1
    /\ \/ stage \in {"resume", "range"} /\ SyncGoes("get", stage)
       \/ SyncGoes("refresh", IF stage = "resume" THEN "second" ELSE "last")
    /\ UNCHANGED <<http_client_mutex, budget, run, peers, tables, created,
                   run_syncing, stopped>>

(* SubmitTask waits for room; then there is another segment, or none.      *)
SubmitTask ==
    /\ pc["sync"] = "submit"
    /\ active_task < Cardinality(Worker)
    /\ queued' = queued + 1
    /\ \/ stage \in {"resume", "range"} /\ SyncGoes("get", stage)
       \/ SyncGoes("refresh", IF stage = "resume" THEN "second" ELSE "last")
    /\ UNCHANGED <<http_client_mutex, budget, run, peers, tables, created,
                   run_syncing, stopped>>

(* RefreshThreadPool.  The workers it joins return when the service was    *)
(* stopped, each at the end of its task; what is queued outlives them.     *)
RefreshThreadPool ==
    /\ \/ pc["sync"] = "refresh" /\ active_task = 0
       \/ /\ pc["sync"] = "joining"
          /\ stopped
          /\ \A w \in Worker : pc[w] = "idle"
    /\ stopped' = FALSE
    /\ CASE stage = "first"  -> SyncGoes("get", "query")
         [] stage = "second" -> SyncGoes("lock", "again")
         [] stage = "last"   -> SyncGoes("loop", "should")
    /\ UNCHANGED <<http_client_mutex, budget, run, peers, tables, created,
                   run_syncing, queued>>

JoinWorkers ==
    /\ pc["sync"] = "refresh"
    /\ active_task > 0
    /\ Goto("sync", "joining")
    /\ UNCHANGED <<http_client_mutex, budget, run, peers, tables, created,
                   syncVars>>

SyncStep ==
    \/ StartSyncLoop
    \/ SyncLocksClient
    \/ SyncCalls
    \/ RetryCount
    \/ SyncGetsConnection
    \/ SyncGetsSecondConnection
    \/ SyncReleasesConnection
    \/ SyncDecides
    \/ SubmitTask
    \/ RefreshThreadPool
    \/ JoinWorkers

-----------------------------------------------------------------------------
(* A worker inside io_service::run takes a task: a call of                 *)
(* BatchStoreBlocks, which uses one connection after another.              *)
TakeTask(w) ==
    /\ pc[w] = "idle"
    /\ queued > 0
    /\ ~stopped
    /\ queued' = queued - 1
    /\ Goto(w, "batch")
    /\ UNCHANGED <<http_client_mutex, budget, run, peers, tables, created,
                   stage, run_syncing, stopped>>

BeginStatement(w) ==
    /\ pc[w] = "batch"
    /\ Goto(w, "get")
    /\ UNCHANGED <<http_client_mutex, budget, run, peers, tables, created,
                   syncVars>>

(* Without a connection a block is missed and the batch goes on; an        *)
(* exception of GetCheckpoint or UpdateChunkCheckpoint ends the process.   *)
WorkerGetsConnection(w) ==
    /\ pc[w] = "get"
    /\ GetConnection(w, "use", "batch")
    /\ UNCHANGED <<http_client_mutex, run, peers, tables, created, syncVars>>

NestedLookup(w) ==  \* outputs are looked up inside the block's transaction
    /\ pc[w] = "use"
    /\ IF out[w] = 1
         THEN \/ ReleaseConnection(w, "batch")
              \/ Goto(w, "get") /\ UNCHANGED budget
         ELSE ReleaseConnection(w, "use")
    /\ UNCHANGED <<http_client_mutex, run, peers, tables, created, syncVars>>

WorkerReleasesConnection(w) ==
    /\ pc[w] = "use"
    /\ ReleaseConnection(w, "batch")
    /\ UNCHANGED <<http_client_mutex, run, peers, tables, created, syncVars>>

TaskCompleted(w) ==
    /\ pc[w] = "batch"
    /\ Goto(w, "idle")
    /\ UNCHANGED <<http_client_mutex, budget, run, peers, tables, created,
                   syncVars>>

WorkerStep(w) ==
    \/ TakeTask(w)
    \/ BeginStatement(w)
    \/ WorkerGetsConnection(w)
    \/ WorkerReleasesConnection(w)
    \/ TaskCompleted(w)

-----------------------------------------------------------------------------
(* Syncer::Stop, through Controller::Shutdown on another thread.           *)
Stop ==
    /\ Stoppable
    /\ pc["main"] = "join"
    /\ run' = [run EXCEPT !["peers"] = FALSE]
    /\ run_syncing' = FALSE
    /\ stopped' = TRUE
    /\ UNCHANGED <<pc, http_client_mutex, budget, peers, tables, created,
                   stage, queued>>

(* The process ends, by an exception, exit(1) or from outside, and another *)
(* one starts: the tables are all that is left.                            *)
Restart ==
    /\ pc' = [t \in Thread |-> CASE t = "main"   -> "connect"
                                 [] t \in Worker -> "idle"
                                 [] OTHER        -> "off"]
    /\ http_client_mutex' = Nobody
    /\ filled' = FALSE
    /\ free' = 0
    /\ out' = [t \in Thread |-> 0]
    /\ run' = [m \in Monitor |-> TRUE]
    /\ peer_info' = NullAnswer
    /\ created' = 0
    /\ stage' = "should"
    /\ run_syncing' = TRUE
    /\ queued' = 0
    /\ stopped' = FALSE
    /\ UNCHANGED <<peerinfo, tables>>

OthersStay == UNCHANGED <<tables, created, syncVars>>

Next ==
    \/ MainStep
    \/ SyncStep
    \/ \E m \in Monitor : MonitorStep(m) /\ OthersStay
    \/ \E w \in Worker : WorkerStep(w)
    \/ Stop
    \/ Restart

Spec == Init /\ [][Next]_vars

(* Every thread runs and every sleep ends.  A thread that waits for the    *)
(* mutex, for a connection or for room gets it if it is there again and    *)
(* again: those that have it sleep for hours or come to the end of their   *)
(* work.  A batch is finite: it is not for ever between two statements.    *)
Fairness ==
    /\ SF_vars(SyncStep)
    /\ \A m \in Monitor : SF_vars(MonitorStep(m) /\ OthersStay)
    /\ \A w \in Worker : SF_vars(WorkerStep(w)) /\ SF_vars(TaskCompleted(w))

FairSpec == Spec /\ Fairness

-----------------------------------------------------------------------------
(* Every variable holds a value of its type.                               *)
TypeOK ==
    /\ pc \in [Thread -> {"off", "connect", "start", "join", "loop", "ended",
                          "lock", "rpc", "retry", "get", "get2", "use",
                          "insert", "release", "unlock", "submit", "refresh",
                          "joining", "idle", "batch"}]
    /\ http_client_mutex \in Thread \cup {Nobody}
    /\ filled \in BOOLEAN
    /\ free \in 0..PoolSize
    /\ out \in [Thread -> 0..2]
    /\ run \in [Monitor -> BOOLEAN]
    /\ peer_info \in Answers \cup {NullAnswer}
    /\ peerinfo \subseteq UNION Answers
    /\ tables \subseteq Tables
    /\ created \in 0..Len(CreationOrder)
    /\ stage \in {"should", "query", "resume", "again", "range", "chunk",
                  "first", "second", "last"}
    /\ run_syncing \in BOOLEAN
    /\ queued \in 0..Cardinality(Worker)
    /\ stopped \in BOOLEAN

(* Whatever runs finds its tables: a set-up that was cut short at any      *)
(* table is completed by the next process before a thread starts.          *)
TablesBeforeThreads ==
    \A t \in {"sync"} \cup Monitor : pc[t] # "off" => tables = Tables

(* The rows of peerinfo come from one answer of zcashd, although they are  *)
(* deleted and inserted one by one, by processes that may end in between.  *)
PeersOfOneAnswer ==
    peerinfo = {} \/ \E a \in Answers : peerinfo \subseteq a

(* Nobody sleeps, joins, or waits for the mutex or for room in the pool    *)
(* with a connection or the mutex in its hands.  So whoever waits for the  *)
(* mutex waits for a monitor, whoever waits for a connection waits for a   *)
(* statement, and never the other way round.                               *)
NoHoldAndWait ==
    \A t \in Thread :
        pc[t] \in {"off", "start", "join", "loop", "ended", "lock", "retry",
                   "submit", "refresh", "joining", "idle", "batch"}
            => out[t] = 0 /\ http_client_mutex # t

(* The connections in use, one by one, and those left in the program.      *)
Held == {h \in Thread \X (1..2) : h[2] <= out[h[1]]}
Left == free + Cardinality(Held)

(* With a connection for each worker and three more, no thread waits       *)
(* for a connection unless some were never opened or were lost: two are    *)
(* for the count, and http_client_mutex lets only one monitor ask.         *)
WaitMeansLoss ==
    SizesSuffice(Cardinality(Worker), PoolSize) /\ free = 0 =>
        \A t \in Thread : pc[t] \in {"get", "get2"} => Left < PoolSize

(* The Controller joins its threads before it stops them, and the one      *)
(* without a stopped flag never ends: its Shutdown is not reached, however *)
(* often the loops fail and whoever else calls Stop.                       *)
ShutdownNotReached == ~JoinReturns

(* A download or a count gets http_client_mutex although both monitors     *)
(* keep it while they wait for a connection, if one is left.               *)
SyncGetsClient ==
    pc["sync"] = "lock" ~> (pc["sync"] # "lock" \/ Left = 0)

(* Every turn of a monitor ends, however the sync thread and the workers   *)
(* compete with it, unless the count may be waiting for itself.            *)
TurnsEnd ==
    \A m \in Monitor :
        pc[m] = "lock" ~> (pc[m] \in {"loop", "off"} \/ Left <= 1)

(* A submission returns: the batches in front of it get their connections  *)
(* and end.  Only Stop leaves it waiting, with the service stopped.        *)
SubmitReturns ==
    pc["sync"] = "submit" ~> (pc["sync"] # "submit" \/ stopped \/ Left <= 1)

(* "will cause the peer monitoring loop to exit on its next iteration"     *)
(* (syncer.h): after Stop it ends.                                         *)
StopEndsPeers ==
    ~run["peers"] ~> (pc["peers"] \in {"ended", "off"} \/ Left <= 1)
=============================================================================
