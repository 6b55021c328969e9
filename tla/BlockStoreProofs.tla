-------------------------- MODULE BlockStoreProofs --------------------------
(* Theorems about BlockStore.                                              *)
EXTENDS BlockStore, FiniteSetTheorems, TLAPS

(* No two workers have a transaction open for the same block.              *)
OneOpen ==
    \A v, w \in Worker : v # w /\ open[v] # NoBlock => open[v] # open[w]

(* Past the table of blocks, whose primary key is the hash, the block is   *)
(* known not to be stored.                                                 *)
OpenIsNew ==
    \A w \in Worker : open[w] # NoBlock /\ at[w] # "blocks" => open[w] \notin blocks

(* Only what can be converted is opened, and so stored.                    *)
StoredConvertible ==
    /\ \A b \in blocks : Convertible(b)
    /\ \A w \in Worker : open[w] # NoBlock => Convertible(open[w])

StoreInv ==
    /\ TypeOK
    /\ OneOpen
    /\ OpenIsNew
    /\ StoredConvertible
    /\ BlockIsAtomic

-----------------------------------------------------------------------------
(* A block has finitely many output rows.                                  *)
LEMMA RowsFinite ==
    ASSUME NEW b \in Block
    PROVE  IsFiniteSet(OutputRows(b)) /\ Cardinality(OutputRows(b)) \in Nat
<1> DEFINE Row(t) == {t} \X (0..(Outputs[t] - 1))
           Rows == {Row(t) : t \in TxsOf[b]}
<1>1. TxsOf[b] \subseteq Tx /\ IsFiniteSet(TxsOf[b])
  BY BlockStoreAssumption DEF BlockStoreAssumption
<1>2. \A t \in TxsOf[b] : IsFiniteSet(Row(t))
  <2> SUFFICES ASSUME NEW t \in TxsOf[b] PROVE IsFiniteSet(Row(t))
    OBVIOUS
  <2> DEFINE one == {t}
             indexes == 0..(Outputs[t] - 1)
  <2>1. IsFiniteSet(one)
    BY FS_Singleton
  <2>2. Outputs[t] - 1 \in Int
    BY <1>1, BlockStoreAssumption DEF BlockStoreAssumption
  <2>3. IsFiniteSet(indexes)
    BY <2>2, FS_Interval
  <2> HIDE DEF one, indexes
  <2>4. IsFiniteSet(one \X indexes)
    BY <2>1, <2>3, FS_Product
  <2> QED  BY <2>4 DEF one, indexes
<1>3. IsFiniteSet(Rows)
  <2> DEFINE f == [t \in TxsOf[b] |-> Row(t)]
  <2>1. f \in Surjection(TxsOf[b], Rows)
    <3> HIDE DEF Row
    <3> QED  BY DEF Surjection
  <2> HIDE DEF f, Rows
  <2> QED  BY <1>1, <2>1, FS_Surjection
<1>4. IsFiniteSet(UNION Rows)
  <2>1. \A S \in Rows : IsFiniteSet(S)
    BY <1>2
  <2> HIDE DEF Rows
  <2> QED  BY <1>3, <2>1, FS_UNION
<1>5. OutputRows(b) \subseteq UNION Rows
  BY DEF OutputRows, OutputRow
<1> HIDE DEF Rows
<1> QED  BY <1>4, <1>5, FS_Subset, FS_CardinalityType

(* The rows of two blocks have nothing in common.                          *)
LEMMA RowsDisjoint ==
    ASSUME NEW b \in Block, NEW c \in Block, b # c
    PROVE  /\ TxsOf[b] \cap TxsOf[c] = {}
           /\ OutputRows(b) \cap OutputRows(c) = {}
BY BlockStoreAssumption DEF BlockStoreAssumption, OutputRows

(* A worker commits a block that was not stored, and all of its rows.      *)
LEMMA CommitStores ==
    ASSUME StoreInv, NEW w \in Worker, Commit(w)
    PROVE  /\ open[w] \in Block \ blocks
           /\ TypeOK'
           /\ BlockIsAtomic'
           /\ \A b \in blocks : \A r \in OutputRows(b) :
                 transparent_outputs'[r] = transparent_outputs[r]
<1> DEFINE b == open[w]
           rows == OutputRows(b)
<1>1. b \in Block /\ b \notin blocks
  BY DEF Commit, StoreInv, TypeOK, OpenIsNew
<1>2. Cardinality(rows) \in Nat /\ IsFiniteSet(rows)
  BY <1>1, RowsFinite
<1>3. transparent_outputs' =
        [r \in OutputRow |->
            transparent_outputs[r] + IF r \in rows THEN Cardinality(rows)
                                                   ELSE 0]
  BY DEF Commit
<1>4. \A r \in OutputRow \ rows : transparent_outputs'[r] = transparent_outputs[r]
  <2> HIDE DEF rows
  <2> QED  BY <1>3 DEF StoreInv, TypeOK
<1>5. \A r \in rows : transparent_outputs'[r] > 0
  <2>1. rows # {} => Cardinality(rows) # 0
    <3> HIDE DEF rows
    <3> QED  BY <1>2, FS_EmptySet
  <2>2. rows \subseteq OutputRow
    BY DEF OutputRows
  <2> HIDE DEF rows
  <2> QED  BY <1>2, <1>3, <2>1, <2>2 DEF StoreInv, TypeOK
<1>6. TypeOK'
  <2>1. transparent_outputs' \in [OutputRow -> Nat]
    <3> HIDE DEF rows
    <3> QED  BY <1>2, <1>3 DEF StoreInv, TypeOK
  <2>2. TxsOf[b] \subseteq Tx
    BY <1>1, BlockStoreAssumption DEF BlockStoreAssumption
  <2>3. /\ open' \in [Worker -> Block \cup {NoBlock}]
        /\ at' \in [Worker -> Tables]
    BY DEF Commit, StoreInv, TypeOK, Tables
  <2> QED
    BY <1>1, <2>1, <2>2, <2>3 DEF Commit, StoreInv, TypeOK
<1>7. ASSUME NEW c \in Block, c # b
      PROVE  /\ c \in blocks' <=> c \in blocks
             /\ TxsOf[c] \cap transactions' = TxsOf[c] \cap transactions
             /\ TxsOf[c] \cap transparent_inputs'
                    = TxsOf[c] \cap transparent_inputs
             /\ \A r \in OutputRows(c) :
                   transparent_outputs'[r] = transparent_outputs[r]
  <2>1. /\ TxsOf[c] \cap TxsOf[b] = {}
        /\ OutputRows(c) \cap rows = {}
    BY <1>1, <1>7, RowsDisjoint
  <2>2. OutputRows(c) \subseteq OutputRow
    BY DEF OutputRows
  <2>3. \A r \in OutputRows(c) : transparent_outputs'[r] = transparent_outputs[r]
    BY <1>4, <2>1, <2>2
  <2> QED  BY <1>7, <2>1, <2>3 DEF Commit
<1>8. BlockIsAtomic'
  <2> SUFFICES ASSUME NEW c \in Block
               PROVE  IF c \in blocks'
          THEN /\ TxsOf[c] \subseteq transactions' \cap transparent_inputs'
               /\ \A r \in OutputRows(c) : transparent_outputs'[r] > 0
          ELSE /\ TxsOf[c] \cap (transactions' \cup transparent_inputs') = {}
               /\ \A r \in OutputRows(c) : transparent_outputs'[r] = 0
    BY DEF BlockIsAtomic, OutputRows
  <2>1. CASE c = b
    BY <1>5, <2>1 DEF Commit
  <2>2. CASE c # b
    BY <1>7, <2>2 DEF StoreInv, BlockIsAtomic
  <2> QED  BY <2>1, <2>2
<1>9. \A c \in blocks : \A r \in OutputRows(c) :
         transparent_outputs'[r] = transparent_outputs[r]
  BY <1>1, <1>7 DEF StoreInv, TypeOK
<1> QED  BY <1>1, <1>6, <1>8, <1>9

(* Every step preserves the invariant.                                     *)
LEMMA StepKeepsInv == StoreInv /\ [Next]_vars => StoreInv'
<1> SUFFICES ASSUME StoreInv, [Next]_vars PROVE StoreInv'
  OBVIOUS
<1> USE BlockStoreAssumption DEF BlockStoreAssumption
<1>1. ASSUME NEW w \in Worker, Commit(w)
      PROVE  StoreInv'
  <2>1. OneOpen' /\ OpenIsNew' /\ StoredConvertible'
    BY <1>1
       DEF StoreInv, TypeOK, Commit, OneOpen, OpenIsNew, StoredConvertible,
           Convertible
  <2> QED  BY <1>1, <2>1, CommitStores DEF StoreInv
<1>2. ASSUME UNCHANGED tables,
             TypeOK', OneOpen', OpenIsNew', StoredConvertible'
      PROVE  StoreInv'
  BY <1>2 DEF StoreInv, tables, BlockIsAtomic, OutputRows
<1>3. ASSUME NEW w \in Worker, NEW b \in Block, Take(w, b)
      PROVE  StoreInv'
  BY <1>2, <1>3
     DEF StoreInv, TypeOK, Tables, Take, tables, OneOpen, OpenIsNew,
         StoredConvertible, Convertible
<1>4. ASSUME NEW w \in Worker, InsertKeyed(w)
      PROVE  StoreInv'
  <2>1. at[w] = "blocks" => open[w] \notin blocks
    BY <1>4 DEF InsertKeyed, Conflict, KeyedRows, Committed
  <2> QED
    BY <1>2, <1>4, <2>1
       DEF StoreInv, TypeOK, Tables, InsertKeyed, NextTable, tables, OneOpen,
           OpenIsNew, StoredConvertible, Convertible
<1>5. ASSUME NEW w \in Worker, InsertOutputs(w)
      PROVE  StoreInv'
  BY <1>2, <1>5
     DEF StoreInv, TypeOK, Tables, InsertOutputs, NextTable, tables, OneOpen,
         OpenIsNew, StoredConvertible, Convertible
<1>6. ASSUME NEW w \in Worker, Abort(w)
      PROVE  StoreInv'
  BY <1>2, <1>6
     DEF StoreInv, TypeOK, Tables, Abort, tables, OneOpen, OpenIsNew,
         StoredConvertible, Convertible
<1>7. ASSUME NEW b \in Block, MissInconvertible(b)
      PROVE  StoreInv'
  <2>1. b \notin blocks
    BY <1>7 DEF MissInconvertible, StoreInv, StoredConvertible
  <2> QED
    BY <1>2, <1>7, <2>1
       DEF StoreInv, TypeOK, MissInconvertible, tables, OneOpen, OpenIsNew,
           StoredConvertible, Convertible
<1>8. CASE Restart
  BY <1>2, <1>8
     DEF StoreInv, TypeOK, Tables, Restart, tables, OneOpen, OpenIsNew,
         StoredConvertible, Convertible
<1>9. CASE UNCHANGED vars
  BY <1>2, <1>9
     DEF StoreInv, TypeOK, vars, tables, OneOpen, OpenIsNew,
         StoredConvertible, Convertible
<1> QED
  BY <1>1, <1>3, <1>4, <1>5, <1>6, <1>7, <1>8, <1>9 DEF Next, WorkerStep

(* Whatever fails or crashes: the invariant of the store.                  *)
THEOREM StoreInvariant == Spec => []StoreInv
<1>1. Init => StoreInv
  <2> SUFFICES ASSUME Init PROVE StoreInv
    OBVIOUS
  <2> USE DEF Init
  <2>1. TypeOK /\ OneOpen /\ OpenIsNew /\ StoredConvertible
    BY DEF TypeOK, Tables, OneOpen, OpenIsNew, StoredConvertible
  <2>2. BlockIsAtomic
    BY DEF BlockIsAtomic, OutputRows
  <2> QED  BY <2>1, <2>2 DEF StoreInv
<1> QED  BY <1>1, StepKeepsInv, PTL DEF Spec

-----------------------------------------------------------------------------
(* Every variable holds a value of its type; a block that was given up on  *)
(* and stored later is not listed as missed.                               *)
THEOREM TypeCorrect == Spec => []TypeOK
<1>1. StoreInv => TypeOK
  BY DEF StoreInv
<1> QED  BY <1>1, StoreInvariant, PTL

(* The tables hold all rows of a block or none.                            *)
THEOREM AllRowsOrNone == Spec => []BlockIsAtomic
<1>1. StoreInv => BlockIsAtomic
  BY DEF StoreInv
<1> QED  BY <1>1, StoreInvariant, PTL

(* A step that is not a commit leaves the tables alone.                    *)
LEMMA OnlyCommitWrites ==
    [Next]_vars => UNCHANGED tables \/ \E w \in Worker : Commit(w)
BY DEF Next, vars, WorkerStep, Take, InsertKeyed, InsertOutputs, Abort,
       MissInconvertible, Restart

(* A batch that comes again changes no row of a stored block, although the *)
(* table of outputs has no primary key.                                    *)
THEOREM StoredForGood == Spec => StoredBlockNeverChanges
<1> DEFINE A == \A b \in blocks :
                  /\ b \in blocks'
                  /\ \A r \in OutputRows(b) :
                        transparent_outputs'[r] = transparent_outputs[r]
<1>1. StoreInv /\ [Next]_vars => [A]_vars
  <2> SUFFICES ASSUME StoreInv, [Next]_vars PROVE A
    OBVIOUS
  <2>1. CASE UNCHANGED tables
    BY <2>1 DEF tables
  <2>2. ASSUME NEW w \in Worker, Commit(w) PROVE A
    <3>1. blocks \subseteq blocks'
      BY <2>2 DEF Commit
    <3> QED  BY <2>2, <3>1, CommitStores
  <2> QED  BY <2>1, <2>2, OnlyCommitWrites
<1> QED  BY <1>1, StoreInvariant, PTL DEF Spec, StoredBlockNeverChanges

(* The rows, statements and rollbacks implement the ledger that Syncer     *)
(* uses: a block is stored once and for good, or missed.                   *)
THEOREM StoreImplementsLedger == Spec => LedgerSpec
<1>1. Init => Ledger!Init
  BY DEF Init, Ledger!Init
<1>2. StoreInv /\ [Next]_vars => [Ledger!Next]_(Ledger!vars)
  <2> SUFFICES ASSUME StoreInv, [Next]_vars
               PROVE  Ledger!Next \/ UNCHANGED <<blocks, missed>>
    BY DEF Ledger!vars
  <2> USE DEF Ledger!Next, Ledger!Store, Ledger!Miss
  <2>1. ASSUME NEW w \in Worker, Commit(w) PROVE Ledger!Next
    <3>1. open[w] \in Block \ blocks
      BY <2>1, CommitStores
    <3> QED  BY <2>1, <3>1 DEF Commit
  <2>2. ASSUME NEW w \in Worker, Abort(w)
        PROVE  Ledger!Next \/ UNCHANGED <<blocks, missed>>
    BY <2>2 DEF Abort, tables, StoreInv, TypeOK
  <2>3. ASSUME NEW b \in Block, MissInconvertible(b) PROVE Ledger!Next
    BY <2>3 DEF MissInconvertible, tables, StoreInv, StoredConvertible
  <2> QED
    BY <2>1, <2>2, <2>3
       DEF Next, vars, tables, WorkerStep, Take, InsertKeyed, InsertOutputs,
           Restart
<1> QED  BY <1>1, <1>2, StoreInvariant, PTL DEF Spec, LedgerSpec, Ledger!Spec
-----------------------------------------------------------------------------
(* What the two findings about the store say for every chain.              *)

(* Of the transactions of a block the statements take at most one: each is *)
(* inserted once for every row of its table, and its key rejects the       *)
(* second time.                                                            *)
AtMostOneTx ==
    /\ \A b \in blocks : Cardinality(TxsOf[b]) <= 1
    /\ \A w \in Worker :
          open[w] # NoBlock /\ at[w] \notin {"blocks", "transactions"}
              => Cardinality(TxsOf[open[w]]) <= 1

(* Every output row of a stored block is there once for every output, and  *)
(* there are no others.                                                    *)
CopiesOfOutputs ==
    /\ \A b \in blocks : \A r \in OutputRows(b) :
          transparent_outputs[r] = Cardinality(OutputRows(b))
    /\ \A r \in OutputRow :
          (\A b \in blocks : r \notin OutputRows(b))
              => transparent_outputs[r] = 0

ContentInv == StoreInv /\ AtMostOneTx /\ CopiesOfOutputs

(* No step makes more of a block or of its outputs.                        *)
LEMMA StepKeepsContent == ContentInv /\ [Next]_vars => ContentInv'
<1> SUFFICES ASSUME ContentInv, [Next]_vars PROVE ContentInv'
  OBVIOUS
<1> USE BlockStoreAssumption DEF BlockStoreAssumption
<1>1. StoreInv /\ StoreInv'
  BY StepKeepsInv DEF ContentInv
<1>2. CopiesOfOutputs'
  <2>1. CASE UNCHANGED tables
    BY <2>1 DEF tables, ContentInv, CopiesOfOutputs, OutputRows
  <2>2. ASSUME NEW w \in Worker, Commit(w) PROVE CopiesOfOutputs'
    <3> DEFINE rows == OutputRows(open[w])
    <3>1. /\ open[w] \in Block \ blocks
          /\ blocks' = blocks \cup {open[w]}
          /\ \A b \in blocks : \A r \in OutputRows(b) :
                transparent_outputs'[r] = transparent_outputs[r]
      BY <1>1, <2>2, CommitStores DEF Commit
    <3>2. \A r \in rows : transparent_outputs'[r] = Cardinality(rows)
      <4>1. \A r \in rows : r \in OutputRow /\ transparent_outputs[r] = 0
        BY <1>1, <3>1 DEF StoreInv, BlockIsAtomic, OutputRows
      <4>2. transparent_outputs' =
              [r \in OutputRow |->
                  transparent_outputs[r] + IF r \in rows
                                             THEN Cardinality(rows) ELSE 0]
        BY <2>2 DEF Commit
      <4>3. Cardinality(rows) \in Nat
        BY <3>1, RowsFinite
      <4> HIDE DEF rows
      <4> QED  BY <4>1, <4>2, <4>3
    <3>3. \A b \in blocks : \A r \in OutputRows(b) :
             transparent_outputs'[r] = Cardinality(OutputRows(b))
      BY <3>1 DEF ContentInv, CopiesOfOutputs
    <3>4. ASSUME NEW r \in OutputRow, \A b \in blocks' : r \notin OutputRows(b)
          PROVE  transparent_outputs'[r] = 0
      <4>1. r \notin rows /\ \A b \in blocks : r \notin OutputRows(b)
        BY <3>1, <3>4
      <4>2. transparent_outputs'[r] = transparent_outputs[r] + 0
        <5> HIDE DEF rows
        <5> QED  BY <2>2, <4>1 DEF Commit, rows
      <4> QED  BY <4>1, <4>2 DEF ContentInv, CopiesOfOutputs
    <3>5. \A b \in blocks' : \A r \in OutputRows(b) :
             transparent_outputs'[r] = Cardinality(OutputRows(b))
      BY <3>1, <3>2, <3>3
    <3> QED  BY <3>4, <3>5 DEF CopiesOfOutputs, OutputRows
  <2> QED  BY <2>1, <2>2, OnlyCommitWrites
<1>3. AtMostOneTx'
  <2> USE DEF ContentInv, AtMostOneTx, StoreInv, TypeOK, Tables
  <2>1. ASSUME NEW w \in Worker, Commit(w) PROVE AtMostOneTx'
    BY <1>1, <2>1 DEF Commit
  <2>2. ASSUME NEW w \in Worker, InsertKeyed(w) PROVE AtMostOneTx'
    <3>1. CASE at[w] = "blocks"
      BY <1>1, <2>2, <3>1 DEF InsertKeyed, NextTable, tables
    <3>2. CASE at[w] # "blocks"
      <4>1. KeyedRows(open[w], at[w]) = TxsOf[open[w]]
        BY <3>2 DEF KeyedRows
      <4>2. IsFiniteSet(TxsOf[open[w]])
        BY <1>1, <2>2 DEF InsertKeyed
      <4>3. Cardinality(TxsOf[open[w]]) \in Nat
        BY <4>2, FS_CardinalityType
      <4>4. Cardinality(TxsOf[open[w]]) <= 1
        BY <2>2, <4>1, <4>3 DEF InsertKeyed, Conflict
      <4> QED  BY <1>1, <2>2, <4>4 DEF InsertKeyed, tables
    <3> QED  BY <3>1, <3>2
  <2>3. ASSUME NEW w \in Worker, InsertOutputs(w) PROVE AtMostOneTx'
    BY <1>1, <2>3 DEF InsertOutputs, tables
  <2>4. ASSUME NEW w \in Worker, NEW b \in Block, Take(w, b)
        PROVE  AtMostOneTx'
    BY <1>1, <2>4 DEF Take, tables
  <2>5. ASSUME NEW w \in Worker, Abort(w) PROVE AtMostOneTx'
    BY <1>1, <2>5 DEF Abort, tables
  <2>6. CASE Restart
    BY <1>1, <2>6 DEF Restart, tables
  <2>7. ASSUME NEW b \in Block, MissInconvertible(b) PROVE AtMostOneTx'
    BY <1>1, <2>7 DEF MissInconvertible, tables
  <2>8. CASE UNCHANGED vars
    BY <1>1, <2>8 DEF vars, tables
  <2> QED
    BY <2>1, <2>2, <2>3, <2>4, <2>5, <2>6, <2>7, <2>8 DEF Next, WorkerStep
<1> QED  BY <1>1, <1>2, <1>3 DEF ContentInv

(* The two facts hold of every state.                                      *)
THEOREM ContentInvariant == Spec => []ContentInv
<1>1. Init => AtMostOneTx /\ CopiesOfOutputs
  BY DEF Init, AtMostOneTx, CopiesOfOutputs
<1>2. StoreInv /\ AtMostOneTx /\ CopiesOfOutputs => ContentInv
  BY DEF ContentInv
<1>3. ContentInv => AtMostOneTx /\ CopiesOfOutputs
  BY DEF ContentInv
<1> QED  BY <1>1, <1>2, <1>3, StepKeepsContent, StoreInvariant, PTL DEF Spec

(* The only blocks the program ever stores have one transaction at most,   *)
(* and none that spends: all others are missed, in every batch.            *)
StoredAreCoinbaseOnly ==
    \A b \in Block :
        TxsOf[b] \cap Spending # {} \/ Cardinality(TxsOf[b]) > 1
            => b \notin blocks

(* DataToOrmStorageMap throws for every transaction that spends, and       *)
(* StoreOrmStorageMap fails on the second of two transactions.             *)
THEOREM OnlyCoinbaseBlocksStored == Spec => []StoredAreCoinbaseOnly
<1>1. ContentInv => StoredAreCoinbaseOnly
  <2> SUFFICES ASSUME ContentInv, NEW b \in blocks
               PROVE  /\ b \in Block
                      /\ TxsOf[b] \cap Spending = {}
                      /\ ~(Cardinality(TxsOf[b]) > 1)
    BY DEF StoredAreCoinbaseOnly
  <2>1. b \in Block /\ TxsOf[b] \cap Spending = {}
    BY DEF ContentInv, StoreInv, TypeOK, StoredConvertible, Convertible
  <2>2. Cardinality(TxsOf[b]) \in Nat
    BY <2>1, BlockStoreAssumption, FS_CardinalityType
       DEF BlockStoreAssumption
  <2> QED  BY <2>1, <2>2 DEF ContentInv, AtMostOneTx
<1> QED  BY <1>1, ContentInvariant, PTL

(* StoreOrmStorageMap inserts every output of a block as often as the      *)
(* block has outputs, whatever fails and however often the block comes.    *)
THEOREM OutputsStoredOften == Spec => []CopiesOfOutputs
<1>1. ContentInv => CopiesOfOutputs
  BY DEF ContentInv
<1> QED  BY <1>1, ContentInvariant, PTL

(* So each output of a stored block is one row only while no stored block  *)
(* has two.                                                                *)
THEOREM OnceMeansOneOutput ==
    Spec => [](OutputsStoredOnce <=>
                 \A b \in blocks : Cardinality(OutputRows(b)) <= 1)
<1>1. ContentInv => (OutputsStoredOnce <=>
                        \A b \in blocks : Cardinality(OutputRows(b)) <= 1)
  <2> SUFFICES ASSUME ContentInv
               PROVE  OutputsStoredOnce <=>
                        \A b \in blocks : Cardinality(OutputRows(b)) <= 1
    OBVIOUS
  <2> USE DEF OutputsStoredOnce, ContentInv, StoreInv, TypeOK
  <2>1. ASSUME OutputsStoredOnce, NEW b \in blocks
        PROVE  Cardinality(OutputRows(b)) <= 1
    <3>1. CASE OutputRows(b) = {}
      <4>1. Cardinality(OutputRows(b)) = 0
        BY <3>1, FS_EmptySet
      <4> QED  BY <4>1
    <3>2. CASE OutputRows(b) # {}
      <4>1. PICK r \in OutputRow : r \in OutputRows(b)
        BY <3>2 DEF OutputRows
      <4>2. transparent_outputs[r] = Cardinality(OutputRows(b))
        BY <4>1 DEF CopiesOfOutputs
      <4>3. transparent_outputs[r] <= 1
        BY <2>1, <4>1
      <4> QED  BY <4>2, <4>3
    <3> QED  BY <3>1, <3>2
  <2>2. ASSUME \A b \in blocks : Cardinality(OutputRows(b)) <= 1
        PROVE  OutputsStoredOnce
    <3> SUFFICES ASSUME NEW r \in OutputRow
                 PROVE  transparent_outputs[r] <= 1
      OBVIOUS
    <3>1. CASE \E b \in blocks : r \in OutputRows(b)
      BY <2>2, <3>1 DEF CopiesOfOutputs
    <3>2. CASE \A b \in blocks : r \notin OutputRows(b)
      BY <3>2 DEF CopiesOfOutputs
    <3> QED  BY <3>1, <3>2
  <2> QED  BY <2>1, <2>2
<1> QED  BY <1>1, ContentInvariant, PTL
=============================================================================
