------------------------------ MODULE Monitors ------------------------------
(***************************************************************************)
(* The two loops of src/src/sync/syncer.cpp that copy the peer list and    *)
(* the state of the chain from zcashd into PostgreSQL, with StorePeers and *)
(* StoreChainInfo of src/src/database/database.cpp, and the two things     *)
(* they share with the rest of the program: http_client_mutex, held around *)
(* every RPC, and the connections of the database.                         *)
(*                                                                         *)
(* The connections are used as ConnectionBudget promises.  Indexer adds    *)
(* the other threads.                                                      *)
(***************************************************************************)
EXTENDS Integers, FiniteSets

CONSTANTS
    Worker,     \* the threads of the worker pool, MAX_HARDWARE_THREADS many
    PoolSize,   \* how many connections Connect tries to open
    Answers,    \* the peer lists zcashd may answer, sets of peers
    NullAnswer, \* a JSON null
    Nobody,     \* the owner of a mutex that is not held
    Failures    \* may calls fail, and connections break?

Monitor == {"peers", "chain"}
Thread  == {"main", "sync"} \cup Monitor \cup Worker

ASSUME MonitorsAssumption ==
    /\ IsFiniteSet(Worker)
    /\ Worker \cap ({"main", "sync"} \cup Monitor) = {}
    /\ PoolSize \in Nat
    /\ \A a \in Answers : IsFiniteSet(a)
    /\ NullAnswer \notin Answers
    /\ Nobody \notin Thread
    /\ Failures \in BOOLEAN

VARIABLES
    pc,                 \* where each thread is
    http_client_mutex,  \* its owner
    filled,             \* Connect has returned
    free,               \* connections in the pool
    out,                \* connections each thread holds
    run,                \* run_peer_monitoring, run_chain_info_monitoring
    peer_info,          \* what getpeerinfo answered, until the turn ends
    peerinfo            \* the rows of the table of that name

budget      == <<filled, free, out>>
monitorVars == <<pc, http_client_mutex, budget, run, peer_info, peerinfo>>

Budget == INSTANCE ConnectionBudget WITH
              Client  <- Thread,
              MaxHeld <- 2

MonitorsInit ==
    /\ pc = [t \in Thread |-> CASE t = "main"   -> "connect"
                               [] t \in Worker -> "idle"
                               [] OTHER        -> "off"]
    /\ http_client_mutex = Nobody
    /\ Budget!Init
    /\ run = [m \in Monitor |-> TRUE]
    /\ peer_info = NullAnswer
    /\ peerinfo = {}

-----------------------------------------------------------------------------
(* Steps of a thread that all of them take.                                *)
Goto(t, place) == pc' = [pc EXCEPT ![t] = place]

(* A lock_guard of http_client_mutex begins, or its scope ends.            *)
Lock(t, place) ==
    /\ http_client_mutex = Nobody
    /\ http_client_mutex' = t
    /\ Goto(t, place)

Unlock(t, place) ==
    /\ http_client_mutex' = Nobody
    /\ Goto(t, place)

(* The constructor of ManagedConnection waits for a connection.  The one   *)
(* it gets may be closed: then it throws.                                  *)
GetConnection(t, place, handler) ==
    \/ Budget!Take(t) /\ Goto(t, place)
    \/ Failures /\ Budget!Drop /\ Goto(t, handler)

(* Its destructor.  A connection that broke in use is not put back.        *)
ReleaseConnection(t, place) ==
    /\ Budget!Return(t) \/ (Failures /\ Budget!Lose(t))
    /\ Goto(t, place)

-----------------------------------------------------------------------------
BeginTurnAlways(m) ==  \* the flag is never read
    /\ pc[m] = "loop"
    /\ Goto(m, "lock")
    /\ UNCHANGED <<http_client_mutex, budget, run, peer_info, peerinfo>>

(* InvokePeersListRefreshLoop and InvokeChainInfoRefreshLoop: the flag is  *)
(* read when the thread starts and after each sleep.                       *)
BeginTurn(m) ==
    /\ pc[m] = "loop"
    /\ Goto(m, IF run[m] THEN "lock" ELSE "ended")
    /\ UNCHANGED <<http_client_mutex, budget, run, peer_info, peerinfo>>

LockClient(m) ==
    /\ pc[m] = "lock"
    /\ Lock(m, "rpc")
    /\ UNCHANGED <<budget, run, peer_info, peerinfo>>

(* getpeerinfo.  StorePeers takes a connection whatever the answer is.     *)
GetPeerInfo ==
    /\ pc["peers"] = "rpc"
    /\ \/ peer_info' \in Answers \cup {NullAnswer} /\ Goto("peers", "get")
       \/ Failures /\ Goto("peers", "unlock") /\ UNCHANGED peer_info
    /\ UNCHANGED <<http_client_mutex, budget, run, peerinfo>>

(* getblockchaininfo.  StoreChainInfo returns at once if the answer or its *)
(* value pools are null.                                                   *)
GetBlockchainInfo ==
    /\ pc["chain"] = "rpc"
    /\ \/ Goto("chain", "get")
       \/ Goto("chain", "unlock")
    /\ UNCHANGED <<http_client_mutex, budget, run, peer_info, peerinfo>>

GuardNotScoped(m) ==  \* an exception leaves the mutex locked
    /\ pc[m] = "get"
    /\ GetConnection(m, "use", "loop")
    /\ UNCHANGED <<http_client_mutex, run, peer_info, peerinfo>>

(* The constructor of the ManagedConnection in StorePeers or               *)
(* StoreChainInfo: what it throws reaches the handler of the loop.         *)
StoreGetsConnection(m) ==
    /\ pc[m] = "get"
    /\ GetConnection(m, "use", "unlock")
    /\ UNCHANGED <<http_client_mutex, run, peer_info, peerinfo>>

-----------------------------------------------------------------------------
TruncateSkipped ==  \* the new rows are added to the old ones
    /\ pc["peers"] = "use"
    /\ Goto("peers", IF peer_info = NullAnswer THEN "release" ELSE "insert")
    /\ UNCHANGED <<http_client_mutex, budget, run, peer_info, peerinfo>>

(* StorePeers: TRUNCATE is committed by itself, and only for an answer     *)
(* that is not null.                                                       *)
TruncatePeers ==
    /\ pc["peers"] = "use"
    /\ \/ /\ peer_info # NullAnswer
          /\ peerinfo' = {}
          /\ Goto("peers", "insert")
       \/ /\ peer_info = NullAnswer \/ Failures
          /\ Goto("peers", "release")
          /\ UNCHANGED peerinfo
    /\ UNCHANGED <<http_client_mutex, budget, run, peer_info>>

(* The transaction is used again after its commit.  Depending on the       *)
(* release of libpqxx the statement throws, and the table stays as it is,  *)
(* or runs outside a transaction, so that each row is there at once.       *)
InsertPeer ==
    /\ pc["peers"] = "insert"
    /\ \/ \E p \in peer_info \ peerinfo :
             peerinfo' = peerinfo \cup {p} /\ UNCHANGED pc
       \/ Goto("peers", "release") /\ UNCHANGED peerinfo
    /\ UNCHANGED <<http_client_mutex, budget, run, peer_info>>

(* StoreChainInfo: one row is added, or the statement fails.  Nothing else *)
(* reads the table.                                                        *)
InsertChainInfo ==
    /\ pc["chain"] = "use"
    /\ Goto("chain", "release")
    /\ UNCHANGED <<http_client_mutex, budget, run, peer_info, peerinfo>>

StoreReturns(m) ==
    /\ pc[m] = "release"
    /\ ReleaseConnection(m, "unlock")
    /\ UNCHANGED <<http_client_mutex, run, peer_info, peerinfo>>

ExceptionEndsLoop(m) ==  \* no handler inside the loop
    /\ pc[m] = "unlock"
    /\ \E place \in {"loop", "ended"} : Unlock(m, place)
    /\ peer_info' = IF m = "peers" THEN NullAnswer ELSE peer_info
    /\ UNCHANGED <<budget, run, peerinfo>>

(* The scope of the guard ends, after an exception as well: the handler    *)
(* logs it and the loop goes on to its sleep.                              *)
EndTurn(m) ==
    /\ pc[m] = "unlock"
    /\ Unlock(m, "loop")
    /\ peer_info' = IF m = "peers" THEN NullAnswer ELSE peer_info
    /\ UNCHANGED <<budget, run, peerinfo>>

MonitorStep(m) ==
    \/ BeginTurn(m)
    \/ LockClient(m)
    \/ m = "peers" /\ (GetPeerInfo \/ TruncatePeers \/ InsertPeer)
    \/ m = "chain" /\ (GetBlockchainInfo \/ InsertChainInfo)
    \/ StoreGetsConnection(m)
    \/ StoreReturns(m)
    \/ EndTurn(m)
=============================================================================
