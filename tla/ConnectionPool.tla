--------------------------- MODULE ConnectionPool ---------------------------
(***************************************************************************)
(* The pool of PostgreSQL connections in src/src/database/database.{h,cpp}: *)
(* a queue behind a mutex with a condition variable.  Connect fills it     *)
(* once at start-up; then every thread of the program takes connections    *)
(* through ManagedConnection, whose constructor calls GetConnection and    *)
(* whose destructor calls ReleaseConnection.                               *)
(*                                                                         *)
(* A section under the mutex is one step: the threads meet nowhere else.   *)
(* A connection may break at any time.  Nothing reopens one.               *)
(***************************************************************************)
EXTENDS Integers, FiniteSets, SequencesExt

CONSTANTS
    Conn,       \* the connections Connect tries to open (poolSize of them)
    Client,     \* the threads that use the database
    Nested,     \* the threads that call GetSyncedBlockCountFromDB
    Readers,    \* the threads that call ExecuteRead
    Failures    \* may opening fail, and connections break?

ASSUME ConnectionPoolAssumption ==
    /\ IsFiniteSet(Conn)
    /\ IsFiniteSet(Client)
    /\ Client # {}
    /\ Nested \subseteq Client
    /\ Readers \subseteq Client
    /\ Failures \in BOOLEAN

VARIABLES
    phase,            \* of the program: connecting, up, or undefined
    is_connected,
    opened,           \* the connections that were opened
    broken,           \* those for which is_open() is now false
    connection_pool,  \* the queue
    pc,               \* where each thread is
    want,             \* connections its operation has still to get
    held              \* connections it owns

vars ==
    <<phase, is_connected, opened, broken, connection_pool, pc, want, held>>

Init ==
    /\ phase = "connecting"
    /\ is_connected = FALSE
    /\ opened = {}
    /\ broken = {}
    /\ connection_pool = <<>>
    /\ pc = [c \in Client |-> "idle"]
    /\ want = [c \in Client |-> 0]
    /\ held = [c \in Client |-> {}]

Pooled  == ToSet(connection_pool)
Waiting == {c \in Client : pc[c] = "wait"}
Woken   == {c \in Client : pc[c] = "woken"}

-----------------------------------------------------------------------------
(* Connect, on the main thread before any other thread starts.             *)
OpenConnection(x) ==
    /\ phase = "connecting"
    /\ x \notin opened
    /\ opened' = opened \cup {x}
    /\ connection_pool' = Append(connection_pool, x)
    /\ UNCHANGED <<phase, is_connected, broken, pc, want, held>>

ConnectSucceeds ==
    /\ phase = "connecting"
    /\ opened = Conn
    /\ is_connected' = TRUE
    /\ phase' = "up"
    /\ UNCHANGED <<opened, broken, connection_pool, pc, want, held>>

(* It removes one connection, if there is one.                             *)
EmptyConnectionPool ==
    connection_pool' = IF connection_pool # <<>> THEN Tail(connection_pool)
                                                 ELSE <<>>

(* The exception of a connection is caught, and the program goes on.       *)
ConnectFails ==
    /\ Failures
    /\ phase = "connecting"
    /\ opened # Conn
    /\ is_connected' = FALSE
    /\ EmptyConnectionPool
    /\ phase' = "up"
    /\ UNCHANGED <<opened, broken, pc, want, held>>

(* The server or the network closes a connection in use or in the pool.    *)
Break(x) ==
    /\ Failures
    /\ x \in Pooled \cup UNION {held[c] : c \in Client}
    /\ broken' = broken \cup {x}
    /\ x \notin broken
    /\ UNCHANGED <<phase, is_connected, opened, connection_pool, pc, want, held>>

-----------------------------------------------------------------------------
(* A database operation starts.  All use one connection, but for           *)
(* GetSyncedBlockCountFromDB, which takes a second one under the first.    *)
Begin(c) ==
    /\ phase = "up"
    /\ pc[c] = "idle"
    /\ \E n \in IF c \in Nested THEN {1, 2} ELSE {1} :
          want' = [want EXCEPT ![c] = n]
    /\ pc' = [pc EXCEPT ![c] = "get"]
    /\ UNCHANGED <<phase, is_connected, opened, broken, connection_pool, held>>

(* The predicate of cv_connection_pool.wait, and what follows it.          *)
WaitForConnection(c) ==
    /\ pc[c] \in {"get", "woken"}
    /\ connection_pool = <<>>
    /\ pc' = [pc EXCEPT ![c] = "wait"]
    /\ UNCHANGED <<phase, is_connected, opened, broken, connection_pool, want,
                   held>>

GetConnectionPeeks(c) ==  \* the front of the queue is not popped
    /\ pc[c] \in {"get", "woken"}
    /\ connection_pool # <<>>
    /\ Head(connection_pool) \notin broken
    /\ held' = [held EXCEPT ![c] = @ \cup {Head(connection_pool)}]
    /\ want' = [want EXCEPT ![c] = @ - 1]
    /\ pc' = [pc EXCEPT ![c] = IF want[c] = 1 THEN "use" ELSE "get"]
    /\ UNCHANGED <<phase, is_connected, opened, broken, connection_pool>>

GetConnection(c) ==
    /\ pc[c] \in {"get", "woken"}
    /\ connection_pool # <<>>
    /\ Head(connection_pool) \notin broken
    /\ connection_pool' = Tail(connection_pool)
    /\ held' = [held EXCEPT ![c] = @ \cup {Head(connection_pool)}]
    /\ want' = [want EXCEPT ![c] = @ - 1]
    /\ pc' = [pc EXCEPT ![c] = IF want[c] = 1 THEN "use" ELSE "get"]
    /\ UNCHANGED <<phase, is_connected, opened, broken>>

GetBrokenConnectionCounts(c) ==  \* the next one is tried, this one counted
    /\ pc[c] \in {"get", "woken"}
    /\ connection_pool # <<>>
    /\ Head(connection_pool) \in broken
    /\ connection_pool' = Tail(connection_pool)
    /\ want' = [want EXCEPT ![c] = @ - 1]
    /\ pc' = [pc EXCEPT ![c] = "get"]
    /\ UNCHANGED <<phase, is_connected, opened, broken, held>>

GetBrokenConnectionLeaks(c) ==  \* the exception skips the outer release
    /\ pc[c] \in {"get", "woken"}
    /\ connection_pool # <<>>
    /\ Head(connection_pool) \in broken
    /\ connection_pool' = Tail(connection_pool)
    /\ want' = [want EXCEPT ![c] = 0]
    /\ pc' = [pc EXCEPT ![c] = "idle"]
    /\ UNCHANGED <<phase, is_connected, opened, broken, held>>

(* The connection popped is not open: it is dropped and GetConnection      *)
(* throws.  The operation ends and releases what it holds.                 *)
GetBrokenConnection(c) ==
    /\ pc[c] \in {"get", "woken"}
    /\ connection_pool # <<>>
    /\ Head(connection_pool) \in broken
    /\ connection_pool' = Tail(connection_pool)
    /\ want' = [want EXCEPT ![c] = 0]
    /\ pc' = [pc EXCEPT ![c] = IF held[c] = {} THEN "idle" ELSE "use"]
    /\ UNCHANGED <<phase, is_connected, opened, broken, held>>

SpuriousWakeup(c) ==
    /\ pc[c] = "wait"
    /\ pc' = [pc EXCEPT ![c] = "woken"]
    /\ UNCHANGED <<phase, is_connected, opened, broken, connection_pool, want,
                   held>>

(* The operation is over when its last connection is released.             *)
AfterRelease(c, x) == IF held[c] = {x} THEN "idle" ELSE "use"

NotifyIfEmpty(c, x) ==  \* one wakeup for a burst of releases
    IF Waiting = {} \/ connection_pool # <<>>
      THEN pc' = [pc EXCEPT ![c] = AfterRelease(c, x)]
      ELSE \E w \in Waiting :
              pc' = [pc EXCEPT ![c] = AfterRelease(c, x), ![w] = "woken"]

NotifyNobody(c, x) ==  \* without notify_one
    pc' = [pc EXCEPT ![c] = AfterRelease(c, x)]

(* notify_one wakes one of the threads that wait, if there is one.         *)
NotifyOne(c, x) ==
    IF Waiting = {}
      THEN pc' = [pc EXCEPT ![c] = AfterRelease(c, x)]
      ELSE \E w \in Waiting :
              pc' = [pc EXCEPT ![c] = AfterRelease(c, x), ![w] = "woken"]

ReleaseConnection(c, x) ==
    /\ pc[c] = "use"
    /\ x \in held[c]
    /\ held' = [held EXCEPT ![c] = @ \ {x}]
    /\ IF x \in broken
         THEN /\ pc' = [pc EXCEPT ![c] = AfterRelease(c, x)]
              /\ UNCHANGED connection_pool
         ELSE /\ connection_pool' = Append(connection_pool, x)
              /\ NotifyOne(c, x)
    /\ UNCHANGED <<phase, is_connected, opened, broken, want>>

(* ExecuteRead takes the front of the queue without asking whether there   *)
(* is one, reads under the mutex, and lets the connection go out of scope. *)
ExecuteRead(c) ==
    /\ c \in Readers
    /\ phase = "up"
    /\ pc[c] = "idle"
    /\ IF connection_pool # <<>>
         THEN connection_pool' = Tail(connection_pool) /\ UNCHANGED phase
         ELSE phase' = "undefined" /\ UNCHANGED connection_pool
    /\ UNCHANGED <<is_connected, opened, broken, pc, want, held>>

-----------------------------------------------------------------------------
ConnectStep ==
    \/ \E x \in Conn : OpenConnection(x)
    \/ ConnectSucceeds
    \/ ConnectFails

ClientStep(c) ==
    \/ WaitForConnection(c)
    \/ GetConnection(c)
    \/ GetBrokenConnection(c)
    \/ \E x \in held[c] : ReleaseConnection(c, x)

Next ==
    \/ ConnectStep
    \/ /\ phase # "undefined"
       /\ \/ \E x \in Conn : Break(x)
          \/ \E c \in Client :
                \/ Begin(c)
                \/ ClientStep(c)
                \/ SpuriousWakeup(c)
                \/ ExecuteRead(c)

Spec == Init /\ [][Next]_vars

(* Every thread inside an operation goes on.  Nothing makes a thread start *)
(* one, and neither the mutex nor the condition variable is fair.          *)
FairSpec == Spec /\ \A c \in Client : WF_vars(ClientStep(c))

-----------------------------------------------------------------------------
(* Every variable holds a value of its type.                               *)
TypeOK ==
    /\ phase \in {"connecting", "up", "undefined"}
    /\ is_connected \in BOOLEAN
    /\ opened \subseteq Conn
    /\ broken \subseteq opened
    /\ connection_pool \in Seq(Conn)
    /\ pc \in [Client -> {"idle", "get", "wait", "woken", "use"}]
    /\ want \in [Client -> 0..2]
    /\ held \in [Client -> SUBSET Conn]

(* A connection is owned once: by one place of the queue or by one thread. *)
(* pqxx connections must not be used by two threads.                       *)
NoSharedConnection ==
    /\ IsInjective(connection_pool)
    /\ \A c \in Client :
          /\ held[c] \cap Pooled = {}
          /\ \A d \in Client \ {c} : held[c] \cap held[d] = {}

(* No thread sleeps beside a connection it could have: while any thread    *)
(* waits, every connection of the queue has a thread that was woken for it *)
(* and has yet to look.                                                    *)
NoLostWakeup ==
    Waiting # {} => Len(connection_pool) <= Cardinality(Woken)

Exhausted ==
    Cardinality(Pooled \cup UNION {held[c] : c \in Client})
        <= Cardinality(Nested)

(* All threads that are inside an operation wait only if no more           *)
(* connections are left in the program than there are threads that may     *)
(* hold one while they wait for a second.                                  *)
HangMeansExhausted ==
    Waiting # {} /\ (\A c \in Client : pc[c] \in {"idle", "wait"})
        => Exhausted

(* When the threads start no more operations, all those begun come to an   *)
(* end, however the wakeups and the barging went before, or the            *)
(* connections that are left do not suffice for the threads that nest.     *)
OperationsDrain ==
    <>[][~\E c \in Client : Begin(c)]_vars
        => <>[](\/ \A c \in Client : pc[c] = "idle"
                \/ Exhausted
                \/ phase = "undefined")

(* The pool is what its users take it for: a number of connections, none   *)
(* of them made from nothing or handed out twice.                          *)
Budget == INSTANCE ConnectionBudget WITH
              PoolSize <- Cardinality(Conn),
              MaxHeld  <- 2,
              filled   <- phase # "connecting",
              free     <- Len(connection_pool),
              out      <- [c \in Client |-> Cardinality(held[c])]

BudgetSpec == Budget!Spec
=============================================================================
