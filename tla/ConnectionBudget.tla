-------------------------- MODULE ConnectionBudget --------------------------
(***************************************************************************)
(* What the threads of the indexer may rely on when they use the pool of   *)
(* database connections (Database::GetConnection, ReleaseConnection): a    *)
(* number of connections is opened once; then a thread takes one that is   *)
(* free and gives it back, and a connection that breaks is gone for the    *)
(* life of the process.  Which connection it is does not matter.           *)
(*                                                                         *)
(* ConnectionPool implements this specification, and Indexer is written    *)
(* against it.                                                             *)
(***************************************************************************)
EXTENDS Integers

CONSTANTS
    Client,     \* the threads that use the database
    PoolSize,   \* how many connections Connect tries to open
    MaxHeld     \* how many a thread ever holds

VARIABLES
    filled,     \* Connect has returned
    free,       \* connections in the pool
    out         \* connections each thread holds

vars == <<filled, free, out>>

Init ==
    /\ filled = FALSE
    /\ free = 0
    /\ out = [c \in Client |-> 0]

(* Connect: a connection is opened, and at last the pool is open to all,   *)
(* after a failure with one connection less.                               *)
Open ==
    /\ ~filled
    /\ free < PoolSize
    /\ free' = free + 1
    /\ UNCHANGED <<filled, out>>

Fill(n) ==
    /\ ~filled
    /\ n \in {free, free - 1} \cap Nat
    /\ filled' = TRUE
    /\ free' = n
    /\ UNCHANGED out

Take(c) ==
    /\ filled
    /\ free > 0
    /\ out[c] < MaxHeld
    /\ free' = free - 1
    /\ out' = [out EXCEPT ![c] = @ + 1]
    /\ UNCHANGED filled

Return(c) ==
    /\ out[c] > 0
    /\ free' = free + 1
    /\ out' = [out EXCEPT ![c] = @ - 1]
    /\ UNCHANGED filled

(* A connection that broke in use is not put back.                         *)
Lose(c) ==
    /\ out[c] > 0
    /\ out' = [out EXCEPT ![c] = @ - 1]
    /\ UNCHANGED <<filled, free>>

(* A connection that broke in the pool is dropped by whoever takes it.     *)
Drop ==
    /\ filled
    /\ free > 0
    /\ free' = free - 1
    /\ UNCHANGED <<filled, out>>

Next ==
    \/ Open
    \/ \E n \in {free, free - 1} : Fill(n)
    \/ \E c \in Client : Take(c) \/ Return(c) \/ Lose(c)
    \/ Drop

Spec == Init /\ [][Next]_vars
=============================================================================
