------------------------------ MODULE MCSyncer ------------------------------
(* Syncer on a short chain.                                                *)
EXTENDS Syncer

NoFaults  == {}
AllFaults == {"rpc", "store", "db"}
=============================================================================
