---------------------------- MODULE BlockLedger ----------------------------
(***************************************************************************)
(* What BatchStoreBlocks promises of a block: at one moment it becomes     *)
(* stored, for good, or it is given up on ("Missed block") and may still   *)
(* be stored by a later batch.  Blocks are stored one at a time.           *)
(*                                                                         *)
(* BlockStore, where a block is rows of four tables, and Syncer, where it  *)
(* is a height in a batch, both implement this specification: it is the    *)
(* interface at which the two models meet.                                 *)
(***************************************************************************)
CONSTANT Block

VARIABLES
    stored,
    missed   \* given up on and not stored

vars == <<stored, missed>>

Init ==
    /\ stored = {}
    /\ missed = {}

Store(b) ==
    /\ b \notin stored
    /\ stored' = stored \cup {b}
    /\ missed' = missed \ {b}

Miss(b) ==
    /\ b \notin stored
    /\ missed' = missed \cup {b}
    /\ UNCHANGED stored

Next == \E b \in Block : Store(b) \/ Miss(b)

Spec == Init /\ [][Next]_vars
=============================================================================
