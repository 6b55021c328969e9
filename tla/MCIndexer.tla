----------------------------- MODULE MCIndexer -----------------------------
(* Indexer with few workers.                                               *)
EXTENDS Indexer

CONSTANTS w1, w2, p1, p2, p3

OneWorker  == {w1}
TwoWorkers == {w1, w2}
Peers      == {{p1, p2}, {p3}}
NoPeers    == {{}}
=============================================================================
