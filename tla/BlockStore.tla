----------------------------- MODULE BlockStore -----------------------------
(***************************************************************************)
(* How a worker stores one block: Block::DataToOrmStorageMap turns it into *)
(* rows of four tables, and Database::StoreOrmStorageMap inserts them in   *)
(* one PostgreSQL transaction, table by table.  BlockLedger is what Syncer *)
(* knows of all this: the block is stored, or missed.                      *)
(*                                                                         *)
(* Two batches never hold the same block at the same time (the theorem     *)
(* BatchesShareNoBlock of SyncerChunkProofs), but a block may come again   *)
(* in a later batch.                                                       *)
(***************************************************************************)
EXTENDS Integers, FiniteSets, Functions

CONSTANTS
    Block,       \* blocks of the chain
    Tx,          \* their transactions
    TxsOf,       \* the transactions of each block
    Spending,    \* the transactions that are not coinbase transactions
    Outputs,     \* how many transparent outputs each transaction has
    Worker,      \* the threads that run BatchStoreBlocks
    NoBlock,     \* a worker has no transaction open
    Failures     \* may a statement fail for a reason outside the program?

ASSUME BlockStoreAssumption ==
    /\ TxsOf \in [Block -> SUBSET Tx]
    /\ \A b \in Block : IsFiniteSet(TxsOf[b])
    /\ \A b, c \in Block : b # c => TxsOf[b] \cap TxsOf[c] = {}
    /\ Spending \subseteq Tx
    /\ Outputs \in [Tx -> Nat]
    /\ NoBlock \notin Block
    /\ Failures \in BOOLEAN

VARIABLES
    blocks,               \* the hashes in the table of that name
    transactions,         \* its tx_ids
    transparent_inputs,   \* its tx_ids
    transparent_outputs,  \* the copies of each (tx_id, output_index)
    open,                 \* the block whose transaction a worker has open
    at,                   \* the table it comes to next
    missed                \* blocks given up on and not stored (history)

tables == <<blocks, transactions, transparent_inputs, transparent_outputs>>
vars   == <<tables, open, at, missed>>

(* std::map iterates over the table names in this order.                   *)
Tables == {"blocks", "transactions", "transparent_inputs",
           "transparent_outputs", "commit"}
NextTable ==
    [blocks              |-> "transactions",
     transactions        |-> "transparent_inputs",
     transparent_inputs  |-> "transparent_outputs",
     transparent_outputs |-> "commit"]

OutputRow == UNION {{t} \X (0..(Outputs[t] - 1)) : t \in Tx}

(* TransparentOutputs: one row per entry of vout.                          *)
OutputRows(b) == {r \in OutputRow : r[1] \in TxsOf[b]}

(* The rows of block b with a primary key, per table.  The one input of a  *)
(* coinbase transaction is a row whose key is the transaction's id.        *)
KeyedRows(b, table) == IF table = "blocks" THEN {b} ELSE TxsOf[b]

Committed(table) ==
    CASE table = "blocks"             -> blocks
      [] table = "transactions"       -> transactions
      [] table = "transparent_inputs" -> transparent_inputs

Init ==
    /\ blocks = {}
    /\ transactions = {}
    /\ transparent_inputs = {}
    /\ transparent_outputs = [r \in OutputRow |-> 0]
    /\ open = [w \in Worker |-> NoBlock]
    /\ at = [w \in Worker |-> "blocks"]
    /\ missed = {}

-----------------------------------------------------------------------------
(* DataToOrmStorageMap looks up the inputs of every transaction that is    *)
(* not a coinbase transaction as tx["vin"]["txid"].  "vin" is an array, so *)
(* the JSON library throws.                                                *)
Convertible(b) == TxsOf[b] \cap Spending = {}

Take(w, b) ==
    /\ open[w] = NoBlock
    /\ \A v \in Worker : open[v] # b
    /\ Convertible(b)
    /\ open' = [open EXCEPT ![w] = b]
    /\ at' = [at EXCEPT ![w] = "blocks"]
    /\ UNCHANGED <<tables, missed>>

(* "Missed block": the exception is logged and the batch goes on.          *)
MissInconvertible(b) ==
    /\ ~Convertible(b)
    /\ missed' = missed \cup {b}
    /\ UNCHANGED <<tables, open, at>>

-----------------------------------------------------------------------------
ConflictIgnored(b, table) == FALSE  \* ON CONFLICT DO NOTHING

(* StoreOrmStorageMap runs, for every row of a table, a statement that     *)
(* inserts all rows of that table.  A primary key rejects what is there    *)
(* already, and rejects the second statement.                              *)
Conflict(b, table) ==
    \/ KeyedRows(b, table) \cap Committed(table) # {}
    \/ Cardinality(KeyedRows(b, table)) > 1

InsertKeyedAutocommit(w) ==  \* each statement is a transaction of its own
    /\ open[w] # NoBlock
    /\ at[w] \in {"blocks", "transactions", "transparent_inputs"}
    /\ ~Conflict(open[w], at[w])
    /\ at' = [at EXCEPT ![w] = NextTable[@]]
    /\ blocks' = blocks \cup (IF at[w] = "blocks" THEN {open[w]} ELSE {})
    /\ UNCHANGED <<transactions, transparent_inputs, transparent_outputs, open,
                   missed>>

InsertKeyed(w) ==
    /\ open[w] # NoBlock
    /\ at[w] \in {"blocks", "transactions", "transparent_inputs"}
    /\ ~Conflict(open[w], at[w])
    /\ at' = [at EXCEPT ![w] = NextTable[@]]
    /\ UNCHANGED <<tables, open, missed>>

(* transparent_outputs has no primary key.                                 *)
InsertOutputs(w) ==
    /\ open[w] # NoBlock
    /\ at[w] = "transparent_outputs"
    /\ at' = [at EXCEPT ![w] = NextTable[@]]
    /\ UNCHANGED <<tables, open, missed>>

AbortMissesStored(w) ==  \* a block that is stored already counts as missed
    /\ open[w] # NoBlock
    /\ \/ Failures
       \/ /\ at[w] \in {"blocks", "transactions", "transparent_inputs"}
          /\ Conflict(open[w], at[w])
    /\ missed' = missed \cup {open[w]}
    /\ open' = [open EXCEPT ![w] = NoBlock]
    /\ at' = [at EXCEPT ![w] = "blocks"]
    /\ UNCHANGED tables

(* A statement fails, the transaction is rolled back: "Missed block".      *)
Abort(w) ==
    /\ open[w] # NoBlock
    /\ \/ Failures
       \/ /\ at[w] \in {"blocks", "transactions", "transparent_inputs"}
          /\ Conflict(open[w], at[w])
    /\ missed' = missed \cup ({open[w]} \ blocks)
    /\ open' = [open EXCEPT ![w] = NoBlock]
    /\ at' = [at EXCEPT ![w] = "blocks"]
    /\ UNCHANGED tables

(* All rows become visible at once, the output rows once per statement.    *)
Commit(w) ==
    /\ open[w] # NoBlock
    /\ at[w] = "commit"
    /\ blocks' = blocks \cup {open[w]}
    /\ transactions' = transactions \cup TxsOf[open[w]]
    /\ transparent_inputs' = transparent_inputs \cup TxsOf[open[w]]
    /\ LET rows == OutputRows(open[w])
       IN  transparent_outputs' =
             [r \in OutputRow |->
                 transparent_outputs[r] + IF r \in rows THEN Cardinality(rows)
                                                        ELSE 0]
    /\ missed' = missed \ {open[w]}
    /\ open' = [open EXCEPT ![w] = NoBlock]
    /\ at' = [at EXCEPT ![w] = "blocks"]

(* The process ends: PostgreSQL rolls the open transactions back.          *)
Restart ==
    /\ open' = [w \in Worker |-> NoBlock]
    /\ at' = [w \in Worker |-> "blocks"]
    /\ UNCHANGED <<tables, missed>>

WorkerStep(w) ==
    \/ \E b \in Block : Take(w, b)
    \/ InsertKeyed(w)
    \/ InsertOutputs(w)
    \/ Abort(w)
    \/ Commit(w)

Next ==
    \/ \E w \in Worker : WorkerStep(w)
    \/ \E b \in Block : MissInconvertible(b)
    \/ Restart

Spec == Init /\ [][Next]_vars

-----------------------------------------------------------------------------
(* Every variable holds a value of its type.                               *)
TypeOK ==
    /\ blocks \subseteq Block
    /\ transactions \subseteq Tx
    /\ transparent_inputs \subseteq Tx
    /\ transparent_outputs \in [OutputRow -> Nat]
    /\ open \in [Worker -> Block \cup {NoBlock}]
    /\ at \in [Worker -> Tables]
    /\ missed \subseteq Block \ blocks

(* "batch insert transaction is atomic" (BatchStoreBlocks): whatever fails *)
(* or crashes, the tables hold all rows of a block or none.                *)
BlockIsAtomic ==
    \A b \in Block :
        IF b \in blocks
          THEN /\ TxsOf[b] \subseteq transactions \cap transparent_inputs
               /\ \A r \in OutputRows(b) : transparent_outputs[r] > 0
          ELSE /\ TxsOf[b] \cap (transactions \cup transparent_inputs) = {}
               /\ \A r \in OutputRows(b) : transparent_outputs[r] = 0

(* A resumed batch brings blocks that are stored already: it adds nothing  *)
(* to their rows, also in the table without a primary key.                 *)
StoredBlockNeverChanges ==
    [][\A b \in blocks :
          /\ b \in blocks'
          /\ \A r \in OutputRows(b) :
                transparent_outputs'[r] = transparent_outputs[r]]_vars

(* To the rest of the program a block is one thing that is stored once,    *)
(* for good, or missed: the rows, statements and rollbacks do not show.    *)
Ledger == INSTANCE BlockLedger WITH stored <- blocks

LedgerSpec == Ledger!Spec

(* "Obtain orm storage map and batch inserts for the entire block"         *)
(* (BatchStoreBlocks): each output of a stored block is one row.           *)
OutputsStoredOnce == \A r \in OutputRow : transparent_outputs[r] <= 1

(* "Find the vout referenced in this vin to get the value and add to the   *)
(* total public input" (TransparentInputs): when nothing outside fails, a  *)
(* block whose transactions spend outputs is not given up on.              *)
NothingMissed == missed = {}
=============================================================================
