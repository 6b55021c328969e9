-------------------------- MODULE MCConnectionPool --------------------------
(* ConnectionPool with a sync thread s and two workers.                    *)
EXTENDS ConnectionPool

CONSTANTS x1, x2, x3, s, v, w

ThreeConns == {x1, x2, x3}
Threads    == {s, v, w}
SyncThread == {s}
OneReader  == {v}
=============================================================================
