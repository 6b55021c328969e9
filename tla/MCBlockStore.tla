---------------------------- MODULE MCBlockStore ----------------------------
(* BlockStore on three blocks: one and two outputs in the coinbase, and a  *)
(* block that also holds a transaction that spends.                        *)
EXTENDS BlockStore, TLC

CONSTANTS b1, b2, b3, c1, c2, c3, t3, v, w

Blocks    == {b1, b2, b3}
Txs       == {c1, c2, c3, t3}
ChainTxs  == b1 :> {c1} @@ b2 :> {c2} @@ b3 :> {c3, t3}
Spenders  == {t3}
OutCounts == c1 :> 1 @@ c2 :> 2 @@ c3 :> 1 @@ t3 :> 1
Threads   == {v, w}
=============================================================================
