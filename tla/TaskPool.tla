------------------------------ MODULE TaskPool ------------------------------
(***************************************************************************)
(* What the rest of the indexer may rely on when it uses ThreadPool        *)
(* (src/src/threading): one owner thread submits tasks and refreshes the   *)
(* pool, worker threads complete the tasks.  At most Capacity tasks are    *)
(* in flight, a submission waits for room, and a refresh rebuilds the      *)
(* workers only when nothing is in flight.  A refresh that finds a task in *)
(* flight joins worker threads that never return: the owner stays in       *)
(* "joining" while the tasks still complete.                               *)
(*                                                                         *)
(* ThreadPool implements this specification, and Syncer is written         *)
(* against it.                                                             *)
(***************************************************************************)
EXTENDS Naturals, FiniteSets

CONSTANTS
    Task,       \* the tasks the owner may submit
    Capacity    \* how many tasks may be in flight at once

VARIABLES
    pending,    \* the tasks submitted and not yet completed
    phase       \* what the owner thread is doing with the pool

vars == <<pending, phase>>

Phase == {"open", "refreshing", "joining"}

Init ==
    /\ pending = {}
    /\ phase = "open"

(* SubmitTask returns: the task is in flight. *)
Submit(t) ==
    /\ phase = "open"
    /\ t \notin pending
    /\ Cardinality(pending) < Capacity
    /\ pending' = pending \cup {t}
    /\ UNCHANGED phase

(* A worker has run the task to its end and called TaskCompleted. *)
Complete(t) ==
    /\ t \in pending
    /\ pending' = pending \ {t}
    /\ UNCHANGED phase

(* RefreshThreadPool with nothing in flight: the workers are rebuilt. *)
BeginRefresh ==
    /\ phase = "open"
    /\ pending = {}
    /\ phase' = "refreshing"
    /\ UNCHANGED pending

EndRefresh ==
    /\ phase = "refreshing"
    /\ phase' = "open"
    /\ UNCHANGED pending

(* RefreshThreadPool with a task in flight: the owner is in join_all. *)
BlockInJoin ==
    /\ phase = "open"
    /\ pending # {}
    /\ phase' = "joining"
    /\ UNCHANGED pending

(* The process ends and takes its pool with it: only Syncer, which models  *)
(* that end, takes this step.                                              *)
Vanish ==
    /\ pending' = {}
    /\ phase' = "open"

Next ==
    \/ \E t \in Task : Submit(t) \/ Complete(t)
    \/ BeginRefresh
    \/ EndRefresh
    \/ BlockInJoin
    \/ Vanish

Spec == Init /\ [][Next]_vars
=============================================================================
