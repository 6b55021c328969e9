-------------------------- MODULE ThreadPoolProofs --------------------------
(***************************************************************************)
(* Theorems of ThreadPool, for every set of tasks and threads and every    *)
(* limit from 0 to 255.                                                    *)
(***************************************************************************)
EXTENDS ThreadPool, FiniteSetTheorems, TLAPS

(* The mutex is held exactly between the test of the counter and the end   *)
(* of SubmitTask.                                                          *)
MutexInv == locked <=> pc \in {"check", "post", "count"}

(* The task being submitted is not in flight before it is posted.          *)
ArgInv ==
    /\ pc \in SubmitSteps => arg \in Task
    /\ pc \in SubmitSteps \ {"count"} => place[arg] = Nowhere

(* The counter counts, there is room once the test was passed, and there   *)
(* is none while the submitter waits.                                      *)
CountInv ==
    /\ IsFiniteSet(InFlight)
    /\ CountExact
    /\ active_task <= MaxHardwareThreads
    /\ pc \in {"post", "count"} => active_task < MaxHardwareThreads
    /\ pc = "wait" => active_task = MaxHardwareThreads

(* A worker runs one task, and a worker with a task is alive.              *)
WorkerInv ==
    /\ \A t, u \in Task :
          place[t] \in Worker /\ place[t] = place[u] => t = u
    /\ \A t \in Task : place[t] \in Worker => thread[place[t]] = "live"

(* A rebuild was reached with nothing in flight or after every thread had  *)
(* ended.                                                                  *)
QuietInv == pc \in {"stop", "restart"} => InFlight = {} \/ Live = {}

PoolInv == TypeOK /\ MutexInv /\ ArgInv /\ CountInv /\ WorkerInv /\ QuietInv

-----------------------------------------------------------------------------
(* uint8_t arithmetic: away from its ends, adding 255 subtracts one.       *)
LEMMA Uint8Arithmetic ==
    ASSUME NEW n \in 0..255
    PROVE  /\ n < 255 => Uint8(n + 1) = n + 1
           /\ n > 0 => Uint8(n + 255) = n - 1
  BY DEF Uint8

(* Moving task t to place p adds it to, or removes it from, InFlight.      *)
LEMMA MoveTask ==
    ASSUME TypeOK, NEW t \in Task, NEW p \in Worker \cup {Queue, Nowhere},
           place' = [place EXCEPT ![t] = p]
    PROVE  InFlight' = IF p = Nowhere THEN InFlight \ {t}
                                      ELSE InFlight \cup {t}
  BY DEF InFlight, TypeOK

(* Nothing that is part of PoolInv changes when no variable does.          *)
LEMMA PoolInvStutter == PoolInv /\ UNCHANGED vars => PoolInv'
  BY DEF PoolInv, TypeOK, MutexInv, ArgInv, CountInv, WorkerInv, QuietInv,
         CountExact, InFlight, Live, vars

LEMMA PoolInvInit == Init => PoolInv
<1> SUFFICES ASSUME Init PROVE PoolInv
    OBVIOUS
<1>1. TypeOK
  <2>1. thread \in [Worker -> {"unborn", "live", "exited"}]
    BY DEF Init
  <2>2. pc \in Steps /\ active_task \in 0..255
    BY DEF Init, Steps
  <2>3. /\ arg \in Task \cup {Nowhere}
        /\ place \in [Task -> Worker \cup {Queue, Nowhere}]
    BY DEF Init
  <2>4. locked \in BOOLEAN /\ work \in BOOLEAN /\ stopped \in BOOLEAN
    BY DEF Init
  <2> QED
    BY <2>1, <2>2, <2>3, <2>4, Zenon DEF TypeOK
<1>2. InFlight = {}
  BY DEF Init, InFlight
<1>3. CountInv
  BY <1>2, FS_EmptySet, PoolAssumption DEF Init, CountInv, CountExact
<1>4. MutexInv /\ ArgInv /\ WorkerInv /\ QuietInv
  BY PoolAssumption
     DEF Init, MutexInv, ArgInv, WorkerInv, QuietInv, SubmitSteps
<1> QED
  BY <1>1, <1>3, <1>4 DEF PoolInv

(* A step that leaves the tasks, their counter and the threads alone       *)
(* leaves the part of the invariant about them alone.                      *)
LEMMA FrameWorkers ==
    ASSUME WorkerInv, UNCHANGED <<place, thread>>
    PROVE  WorkerInv'
  BY DEF WorkerInv

LEMMA FrameTasks ==
    ASSUME UNCHANGED place
    PROVE  InFlight' = InFlight
  BY DEF InFlight

-----------------------------------------------------------------------------
LEMMA SubmitTaskStep ==
    ASSUME PoolInv, NEW t \in Task, SubmitTask(t)
    PROVE  PoolInv'
<1> USE DEF PoolInv, SubmitTask
<1>1. TypeOK'
  BY DEF TypeOK, Steps, SubmitSteps
<1>2. MutexInv' /\ ArgInv' /\ QuietInv'
  BY DEF MutexInv, ArgInv, QuietInv, SubmitSteps, InFlight
<1>3. CountInv'
  BY FrameTasks DEF CountInv, CountExact
<1>4. WorkerInv'
  BY FrameWorkers
<1> QED
  BY <1>1, <1>2, <1>3, <1>4

LEMMA CheckCapacityStep ==
    ASSUME PoolInv, CheckCapacity
    PROVE  PoolInv'
<1> USE DEF PoolInv, CheckCapacity
<1>1. TypeOK'
  BY DEF TypeOK, Steps, SubmitSteps
<1>2. MutexInv' /\ ArgInv' /\ QuietInv'
  BY DEF MutexInv, ArgInv, QuietInv, SubmitSteps
<1>3. CountInv'
  BY FrameTasks, PoolAssumption DEF CountInv, CountExact, TypeOK
<1>4. WorkerInv'
  BY FrameWorkers
<1> QED
  BY <1>1, <1>2, <1>3, <1>4

LEMMA WakeupStep ==
    ASSUME PoolInv, SpuriousWakeup \/ Reacquire
    PROVE  PoolInv'
<1> USE DEF PoolInv, SpuriousWakeup, Reacquire
<1>1. TypeOK'
  <2>1. pc' \in {"woken", "check"} /\ locked' \in BOOLEAN
    BY DEF TypeOK
  <2>2. pc' \in Steps
    BY <2>1 DEF Steps, SubmitSteps
  <2> QED
    BY <2>1, <2>2 DEF TypeOK
<1>2. MutexInv' /\ ArgInv' /\ QuietInv'
  BY DEF MutexInv, ArgInv, QuietInv, SubmitSteps
<1>3. CountInv'
  BY FrameTasks DEF CountInv, CountExact
<1>4. WorkerInv'
  BY FrameWorkers
<1> QED
  BY <1>1, <1>2, <1>3, <1>4

LEMMA PostTaskStep ==
    ASSUME PoolInv, PostTask
    PROVE  PoolInv'
<1> USE DEF PoolInv, PostTask
<1>1. arg \in Task /\ place[arg] = Nowhere
  BY DEF ArgInv, SubmitSteps
<1>2. TypeOK'
  BY <1>1 DEF TypeOK, Steps, SubmitSteps
<1>3. MutexInv' /\ ArgInv' /\ QuietInv'
  BY <1>1 DEF MutexInv, ArgInv, QuietInv, SubmitSteps
<1>4. InFlight' = InFlight \cup {arg}
  BY <1>1, MoveTask, PoolAssumption
<1>5. arg \notin InFlight
  BY <1>1 DEF InFlight
<1>6. CountInv'
  <2>1. /\ IsFiniteSet(InFlight')
        /\ Cardinality(InFlight') = Cardinality(InFlight) + 1
    BY <1>4, <1>5, FS_AddElement DEF CountInv
  <2>2. active_task = Cardinality(InFlight)
    BY DEF CountInv, CountExact, TypeOK
  <2>3. CountExact'
    BY <2>1, <2>2 DEF CountExact
  <2> QED
    BY <2>1, <2>3 DEF CountInv
<1>7. WorkerInv'
  BY <1>1, PoolAssumption DEF WorkerInv, TypeOK
<1> QED
  BY <1>2, <1>3, <1>6, <1>7

LEMMA CountTaskStep ==
    ASSUME PoolInv, CountTask
    PROVE  PoolInv'
<1> USE DEF PoolInv, CountTask
<1>1. active_task' = active_task + 1
  BY Uint8Arithmetic, PoolAssumption DEF TypeOK, CountInv
<1>2. TypeOK'
  <2>1. active_task' \in 0..255
    BY <1>1, PoolAssumption DEF TypeOK, CountInv
  <2> QED
    BY <2>1 DEF TypeOK, Steps
<1>3. MutexInv' /\ ArgInv' /\ QuietInv'
  BY DEF MutexInv, ArgInv, QuietInv, SubmitSteps
<1>4. CountInv'
  <2>1. Cardinality(InFlight) \in Nat
    BY FS_CardinalityType DEF CountInv
  <2> QED
    BY <1>1, <2>1, FrameTasks, PoolAssumption
       DEF CountInv, CountExact, TypeOK
<1>5. WorkerInv'
  BY FrameWorkers
<1> QED
  BY <1>2, <1>3, <1>4, <1>5

-----------------------------------------------------------------------------
LEMMA DispatchStep ==
    ASSUME PoolInv, NEW w \in Worker, NEW t \in Task, Dispatch(w, t)
    PROVE  PoolInv'
<1> USE DEF PoolInv, Dispatch
<1>1. TypeOK'
  BY DEF TypeOK
<1>2. t \in InFlight /\ Live # {}
  BY PoolAssumption DEF InFlight, Live, Idle
<1>3. InFlight' = InFlight
  BY <1>2, MoveTask, PoolAssumption DEF InFlight
<1>4. MutexInv' /\ QuietInv'
  BY <1>2 DEF MutexInv, QuietInv, Live
<1>5. ArgInv'
  BY PoolAssumption DEF ArgInv, SubmitSteps, TypeOK
<1>6. CountInv'
  BY <1>3 DEF CountInv, CountExact
<1>7. WorkerInv'
  BY PoolAssumption DEF WorkerInv, TypeOK, Idle
<1> QED
  BY <1>1, <1>4, <1>5, <1>6, <1>7

LEMMA TaskCompletedStep ==
    ASSUME PoolInv, NEW w \in Worker, TaskCompleted(w)
    PROVE  PoolInv'
<1> USE DEF PoolInv
<1>1. PICK t \in Task : /\ place[t] = w
                        /\ ~locked
                        /\ active_task' = Uint8(active_task + 255)
                        /\ place' = [place EXCEPT ![t] = Nowhere]
                        /\ pc' = IF pc = "wait" THEN "woken" ELSE pc
                        /\ UNCHANGED <<arg, locked, thread, work, stopped>>
  BY DEF TaskCompleted
<1>2. pc \notin {"check", "post", "count"}
  BY <1>1 DEF MutexInv
<1>3. t \in InFlight
  BY <1>1, PoolAssumption DEF InFlight
<1>4. InFlight' = InFlight \ {t}
  BY <1>1, MoveTask
<1>5. /\ IsFiniteSet(InFlight')
      /\ Cardinality(InFlight') = Cardinality(InFlight) - 1
      /\ Cardinality(InFlight) \in Nat \ {0}
  BY <1>3, <1>4, FS_RemoveElement, FS_CardinalityType, FS_EmptySet
     DEF CountInv
<1>6. active_task' = active_task - 1
  BY <1>1, <1>2, <1>5, Uint8Arithmetic DEF TypeOK, CountInv, CountExact
<1>7. TypeOK'
  <2>1. active_task' \in 0..255
    BY <1>2, <1>5, <1>6 DEF TypeOK, CountInv, CountExact
  <2> QED
    BY <1>1, <2>1 DEF TypeOK, Steps, SubmitSteps
<1>8. MutexInv' /\ QuietInv'
  BY <1>1, <1>2, <1>4 DEF MutexInv, QuietInv, Live
<1>9. ArgInv'
  BY <1>1, <1>2 DEF ArgInv, SubmitSteps, TypeOK
<1>10. CountInv'
  <2>1. pc' \notin {"post", "count", "wait"}
    BY <1>1, <1>2
  <2>2. active_task = Cardinality(InFlight)
    BY <1>2 DEF CountInv, CountExact, TypeOK
  <2>3. CountExact'
    BY <1>5, <1>6, <2>1, <2>2 DEF CountExact
  <2>4. active_task' <= MaxHardwareThreads
    BY <1>6, PoolAssumption DEF CountInv, TypeOK
  <2> QED
    BY <1>5, <2>1, <2>3, <2>4 DEF CountInv
<1>11. WorkerInv'
  BY <1>1, PoolAssumption DEF WorkerInv, TypeOK
<1> QED
  BY <1>7, <1>8, <1>9, <1>10, <1>11

LEMMA ExitStep ==
    ASSUME PoolInv, NEW w \in Worker, Exit(w)
    PROVE  PoolInv'
<1> USE DEF PoolInv, Exit
<1>1. TypeOK'
  BY DEF TypeOK
<1>2. MutexInv' /\ ArgInv'
  BY DEF MutexInv, ArgInv
<1>3. CountInv'
  BY FrameTasks DEF CountInv, CountExact
<1>4. WorkerInv'
  BY DEF WorkerInv, Idle, TypeOK
<1>5. QuietInv'
  BY FrameTasks DEF QuietInv, Live, TypeOK
<1> QED
  BY <1>1, <1>2, <1>3, <1>4, <1>5

-----------------------------------------------------------------------------
LEMMA RefreshThreadPoolStep ==
    ASSUME PoolInv, RefreshThreadPool
    PROVE  PoolInv'
<1> USE DEF PoolInv, RefreshThreadPool
<1>1. TypeOK'
  BY DEF TypeOK, Steps, RebuildSteps
<1>2. MutexInv' /\ ArgInv'
  BY DEF MutexInv, ArgInv, SubmitSteps
<1>3. CountInv'
  BY FrameTasks DEF CountInv, CountExact
<1>4. WorkerInv'
  BY FrameWorkers
<1>5. QuietInv'
  <2>1. active_task = 0 => InFlight = {}
    BY FS_EmptySet DEF CountInv, CountExact
  <2> QED
    BY <2>1, FrameTasks DEF QuietInv, TypeOK
<1> QED
  BY <1>1, <1>2, <1>3, <1>4, <1>5

LEMMA RefreshStepStep ==
    ASSUME PoolInv, RefreshStep
    PROVE  PoolInv'
<1> USE DEF PoolInv
<1>1. CASE JoinAll
  <2> USE <1>1 DEF JoinAll
  <2>1. TypeOK' /\ MutexInv' /\ ArgInv'
    BY DEF TypeOK, Steps, RebuildSteps, MutexInv, ArgInv, SubmitSteps
  <2>2. CountInv' /\ WorkerInv' /\ QuietInv'
    BY FrameTasks, FrameWorkers DEF CountInv, CountExact, QuietInv, Live
  <2> QED
    BY <2>1, <2>2
<1>2. CASE StopService
  <2> USE <1>2 DEF StopService
  <2>1. TypeOK' /\ MutexInv' /\ ArgInv'
    BY DEF TypeOK, Steps, RebuildSteps, MutexInv, ArgInv, SubmitSteps
  <2>2. CountInv' /\ WorkerInv' /\ QuietInv'
    BY FrameTasks, FrameWorkers DEF CountInv, CountExact, QuietInv, Live
  <2> QED
    BY <2>1, <2>2
<1>3. CASE InitNewWork
  <2> USE <1>3 DEF InitNewWork
  <2>1. TypeOK' /\ MutexInv' /\ ArgInv'
    BY DEF TypeOK, Steps, RebuildSteps, MutexInv, ArgInv, SubmitSteps
  <2>2. CountInv' /\ WorkerInv' /\ QuietInv'
    BY FrameTasks, FrameWorkers DEF CountInv, CountExact, QuietInv, Live
  <2> QED
    BY <2>1, <2>2
<1>4. CASE SpawnWorkers
  <2> USE <1>4 DEF SpawnWorkers
  <2>1. PICK W \in SUBSET Unborn :
          thread' = [w \in Worker |-> IF w \in W THEN "live" ELSE thread[w]]
    BY DEF NewWorkers
  <2>2. TypeOK' /\ MutexInv' /\ ArgInv'
    BY <2>1 DEF TypeOK, Steps, RebuildSteps, MutexInv, ArgInv, SubmitSteps
  <2>3. CountInv' /\ QuietInv'
    BY FrameTasks DEF CountInv, CountExact, QuietInv
  <2>4. WorkerInv'
    BY <2>1 DEF WorkerInv
  <2> QED
    BY <2>2, <2>3, <2>4
<1> QED
  BY <1>1, <1>2, <1>3, <1>4 DEF RefreshStep

LEMMA EndStep ==
    ASSUME PoolInv, End
    PROVE  PoolInv'
<1> USE DEF PoolInv, End
<1>1. TypeOK' /\ MutexInv' /\ ArgInv'
  BY DEF TypeOK, MutexInv, ArgInv
<1>2. CountInv' /\ WorkerInv' /\ QuietInv'
  BY FrameTasks, FrameWorkers DEF CountInv, CountExact, QuietInv, Live
<1> QED
  BY <1>1, <1>2

LEMMA PoolInvNext == PoolInv /\ [Next]_vars => PoolInv'
<1> SUFFICES ASSUME PoolInv, [Next]_vars PROVE PoolInv'
    OBVIOUS
<1>1. CASE OwnerNext
  BY <1>1, SubmitTaskStep, CheckCapacityStep, WakeupStep, PostTaskStep,
     CountTaskStep, RefreshThreadPoolStep, RefreshStepStep
     DEF OwnerNext, SubmitStep
<1>2. CASE \E w \in Worker : WorkerNext(w)
  BY <1>2, DispatchStep, TaskCompletedStep, ExitStep DEF WorkerNext
<1>3. CASE End
  BY <1>3, EndStep
<1>4. CASE UNCHANGED vars
  BY <1>4, PoolInvStutter
<1> QED
  BY <1>1, <1>2, <1>3, <1>4 DEF Next

(* The invariant the theorems below are read off.                          *)
THEOREM PoolInvariant == Spec => []PoolInv
<1> QED
  BY PoolInvInit, PoolInvNext, PTL DEF Spec

(* Type correctness: in particular the uint8_t counter stays in its range. *)
THEOREM TypeCorrect == Spec => []TypeOK
<1>1. PoolInv => TypeOK
  BY DEF PoolInv
<1> QED
  BY <1>1, PoolInvariant, PTL

(* active_task counts the tasks in flight, whatever the order in which a   *)
(* submission and a completion reach the mutex.                            *)
THEOREM CountIsExact == Spec => []CountExact
<1>1. PoolInv => CountExact
  BY DEF PoolInv, CountInv
<1> QED
  BY <1>1, PoolInvariant, PTL

(* SubmitTask never exceeds MAX_HARDWARE_THREADS tasks in flight.          *)
THEOREM CapacityIsRespected == Spec => []CapacityRespected
<1>1. PoolInv => CapacityRespected
  <2> SUFFICES ASSUME PoolInv PROVE CapacityRespected
      OBVIOUS
  <2> USE DEF PoolInv
  <2>1. Cardinality(InFlight) \in Nat
    BY FS_CardinalityType DEF CountInv
  <2>2. CASE pc = "count"
    BY <2>1, <2>2, PoolAssumption
       DEF CapacityRespected, CountInv, CountExact, TypeOK
  <2>3. CASE pc # "count"
    BY <2>1, <2>3, PoolAssumption
       DEF CapacityRespected, CountInv, CountExact, TypeOK
  <2> QED
    BY <2>2, <2>3
<1> QED
  BY <1>1, PoolInvariant, PTL

(* A rebuild never happens under a running task, not even when the pool is *)
(* stopped from another thread.                                            *)
THEOREM RebuildIsAlwaysQuiet == Spec => []RebuildIsQuiet
<1>1. PoolInv => RebuildIsQuiet
  BY PoolAssumption
     DEF PoolInv, QuietInv, WorkerInv, RebuildIsQuiet, Running, InFlight, Live
<1> QED
  BY <1>1, PoolInvariant, PTL

-----------------------------------------------------------------------------
(* What holds as long as only the owner thread stops the service: it is    *)
(* stopped inside a refresh alone, somebody is always there to run tasks   *)
(* (unless the limit is 0 and no task gets in), a join is entered with a   *)
(* task in flight, and a refresh that goes on has none.                    *)
OwnedInv ==
    /\ stopped \/ ~work => pc = "restart"
    /\ pc \notin {"restart", "spawn"} => Live # {} \/ MaxHardwareThreads = 0
    /\ pc = "joining" => MaxHardwareThreads > 0
    /\ pc \in RebuildSteps => InFlight = {}

LEMMA OwnedInvInit == Init => OwnedInv
<1> SUFFICES ASSUME Init PROVE OwnedInv
    OBVIOUS
<1>1. PICK W \in SUBSET Worker :
        /\ IsFiniteSet(W)
        /\ Cardinality(W) = MaxHardwareThreads
        /\ thread = [w \in Worker |-> IF w \in W THEN "live" ELSE "unborn"]
  BY DEF Init
<1>2. W # {} \/ MaxHardwareThreads = 0
  BY <1>1, FS_EmptySet
<1>3. Live # {} \/ MaxHardwareThreads = 0
  BY <1>1, <1>2 DEF Live
<1> QED
  BY <1>3 DEF OwnedInv, Init, RebuildSteps

LEMMA OwnedInvNext ==
    ASSUME ~Stoppable, PoolInv, OwnedInv, [Next]_vars
    PROVE  OwnedInv'
<1> USE DEF OwnedInv
<1>1. CASE \E t \in Task : SubmitTask(t)
  BY <1>1 DEF SubmitTask, RebuildSteps, Live
<1>2. CASE \/ SpuriousWakeup \/ CheckCapacity \/ Reacquire
           \/ PostTask \/ CountTask
  BY <1>2 DEF SpuriousWakeup, CheckCapacity, Reacquire, PostTask, CountTask,
              RebuildSteps, Live
<1>3. CASE RefreshThreadPool
  <2>1. active_task = 0 => InFlight = {}
    BY <1>3, FS_EmptySet DEF PoolInv, CountInv, CountExact, RefreshThreadPool
  <2>2. active_task > 0 => MaxHardwareThreads > 0
    BY PoolAssumption DEF PoolInv, CountInv, TypeOK
  <2> QED
    BY <1>3, <2>1, <2>2, FrameTasks
       DEF RefreshThreadPool, RebuildSteps, Live, PoolInv, TypeOK
<1>4. CASE JoinAll
  BY <1>4, PoolAssumption DEF JoinAll
<1>5. CASE StopService \/ InitNewWork
  BY <1>5, FrameTasks DEF StopService, InitNewWork, RebuildSteps, Live
<1>6. CASE SpawnWorkers
  <2>1. PICK W \in SUBSET Unborn :
          /\ IsFiniteSet(W)
          /\ Cardinality(W) = MaxHardwareThreads
          /\ thread' = [w \in Worker |-> IF w \in W THEN "live" ELSE thread[w]]
    BY <1>6 DEF SpawnWorkers, NewWorkers
  <2>2. W # {} \/ MaxHardwareThreads = 0
    BY <2>1, FS_EmptySet
  <2>3. Live' # {} \/ MaxHardwareThreads = 0
    BY <2>1, <2>2 DEF Live, Unborn
  <2> QED
    BY <1>6, <2>3 DEF SpawnWorkers, RebuildSteps
<1>7. CASE \E w \in Worker, t \in Task : Dispatch(w, t)
  BY <1>7, PoolAssumption DEF Dispatch, Live, InFlight, RebuildSteps
<1>8. CASE \E w \in Worker : TaskCompleted(w)
  <2>1. PICK t \in Task : /\ place[t] \in Worker
                          /\ pc' = IF pc = "wait" THEN "woken" ELSE pc
                          /\ UNCHANGED <<thread, work, stopped>>
    BY <1>8 DEF TaskCompleted
  <2>2. InFlight # {}
    BY <2>1, PoolAssumption DEF InFlight
  <2> QED
    BY <2>1, <2>2 DEF Live, RebuildSteps
<1>9. CASE \E w \in Worker : Exit(w)
  <2>1. PICK w \in Worker : Exit(w)
    BY <1>9
  <2>2. pc = "restart"
    BY <2>1 DEF Exit
  <2> QED
    BY <2>1, <2>2, FrameTasks DEF Exit, RebuildSteps
<1>10. CASE End
  BY <1>10 DEF End
<1>11. CASE UNCHANGED vars
  BY <1>11 DEF vars, Live, InFlight
<1> QED
  BY <1>1, <1>2, <1>3, <1>4, <1>5, <1>6, <1>7, <1>8, <1>9, <1>10, <1>11
     DEF Next, OwnerNext, SubmitStep, RefreshStep, WorkerNext

(* The invariant of a pool that no other thread stops.                     *)
THEOREM OwnedInvariant == ~Stoppable => (Spec => [](PoolInv /\ OwnedInv))
<1> SUFFICES ASSUME ~Stoppable PROVE Spec => [](PoolInv /\ OwnedInv)
    OBVIOUS
<1>1. Init => PoolInv /\ OwnedInv
  BY PoolInvInit, OwnedInvInit
<1>2. PoolInv /\ OwnedInv /\ [Next]_vars => (PoolInv /\ OwnedInv)'
  BY PoolInvNext, OwnedInvNext
<1> QED
  BY <1>1, <1>2, PTL DEF Spec

(* A refresh that stops the service leaves no handler behind in its queue. *)
THEOREM RefreshIsQuiescent == ~Stoppable => (Spec => []QuiescentRefresh)
<1> SUFFICES ASSUME ~Stoppable PROVE Spec => []QuiescentRefresh
    OBVIOUS
<1>1. PoolInv /\ OwnedInv => QuiescentRefresh
  BY DEF OwnedInv, QuiescentRefresh
<1> QED
  BY <1>1, OwnedInvariant, PTL

(* The join of a refresh that found a task in flight never returns.        *)
THEOREM JoinIsForever == ~Stoppable => (Spec => []JoinNeverReturns)
<1> SUFFICES ASSUME ~Stoppable PROVE Spec => []JoinNeverReturns
    OBVIOUS
<1>1. PoolInv /\ OwnedInv => JoinNeverReturns
  BY PoolAssumption DEF OwnedInv, JoinNeverReturns
<1> QED
  BY <1>1, OwnedInvariant, PTL

(* RefreshThreadPool promises a rebuilt pool, and once it is in join_all   *)
(* no step of any thread lets it go on: what the run pool_join finds on a  *)
(* small pool holds for every number of tasks and threads.                 *)
THEOREM JoiningIsTheEnd ==
    ~Stoppable => (Spec => [][pc = "joining" => pc' = "joining"]_vars)
<1> SUFFICES ASSUME ~Stoppable
             PROVE  Spec => [][pc = "joining" => pc' = "joining"]_vars
    OBVIOUS
<1>1. ASSUME PoolInv /\ OwnedInv, [Next]_vars, pc = "joining"
      PROVE  pc' = "joining"
  <2>1. Live # {}
    BY <1>1, PoolAssumption DEF OwnedInv
  <2>2. CASE OwnerNext
    BY <1>1, <2>1, <2>2
       DEF OwnerNext, SubmitTask, SpuriousWakeup, SubmitStep, CheckCapacity,
           Reacquire, PostTask, CountTask, RefreshThreadPool, RefreshStep,
           JoinAll, StopService, InitNewWork, SpawnWorkers
  <2>3. CASE \E w \in Worker : WorkerNext(w)
    BY <1>1, <2>3 DEF WorkerNext, Dispatch, TaskCompleted, Exit
  <2>4. CASE End
    BY <1>1, <2>4 DEF End
  <2>5. CASE UNCHANGED vars
    BY <1>1, <2>5 DEF vars
  <2> QED
    BY <1>1, <2>2, <2>3, <2>4, <2>5 DEF Next
<1>2. (PoolInv /\ OwnedInv) /\ [Next]_vars
        => [pc = "joining" => pc' = "joining"]_vars
  BY <1>1
<1> QED
  BY <1>2, OwnedInvariant, PTL DEF Spec

(* The safety half of SubmittedTaskCompletes: a task in flight is never    *)
(* alone.  Somebody runs a task, or the service is not stopped and an idle *)
(* thread is there to take one: also beside a join, and however often the  *)
(* workers were rebuilt.                                                   *)
HelpIsThere ==
    InFlight # {} =>
        \/ Running # {}
        \/ Queued # {} /\ ~stopped /\ \E w \in Worker : Idle(w)

(* Unless another thread calls Stop, every task in flight can be helped.   *)
THEOREM TasksHaveHelp == ~Stoppable => (Spec => []HelpIsThere)
<1> SUFFICES ASSUME ~Stoppable PROVE Spec => []HelpIsThere
    OBVIOUS
<1>1. ASSUME PoolInv, OwnedInv, InFlight # {}, Running = {}
      PROVE  Queued # {} /\ ~stopped /\ \E w \in Worker : Idle(w)
  <2>1. Queued # {}
    BY <1>1 DEF InFlight, Queued, Running, PoolInv, TypeOK
  <2>2. pc \notin RebuildSteps
    BY <1>1 DEF OwnedInv
  <2>3. ~stopped
    BY <1>1, <2>2 DEF OwnedInv, RebuildSteps
  <2>4. MaxHardwareThreads # 0
    <3>1. Cardinality(InFlight) \in Nat \ {0}
      BY <1>1, FS_EmptySet, FS_CardinalityType DEF PoolInv, CountInv
    <3> QED
      BY <1>1, <3>1, PoolAssumption DEF PoolInv, CountInv, CountExact, TypeOK
  <2>5. PICK w \in Worker : thread[w] = "live"
    BY <1>1, <2>2, <2>4 DEF OwnedInv, RebuildSteps, Live
  <2>6. Idle(w)
    BY <1>1, <2>5 DEF Idle, Running
  <2> QED
    BY <2>1, <2>3, <2>6
<1>2. PoolInv /\ OwnedInv => HelpIsThere
  BY <1>1 DEF HelpIsThere
<1> QED
  BY <1>2, OwnedInvariant, PTL

(* With a limit of 0 (hardware_concurrency() - 2 on two cores) the pool    *)
(* accepts nothing: no task is ever in flight, and a SubmitTask that was   *)
(* called never returns, whoever stops the pool.                           *)
THEOREM NoRoomAtLimitZero ==
    MaxHardwareThreads = 0
      => (Spec => /\ [](InFlight = {})
                  /\ [][(pc \in SubmitSteps) => pc' \in SubmitSteps]_vars)
<1> SUFFICES ASSUME MaxHardwareThreads = 0
             PROVE  Spec =>
                      /\ [](InFlight = {})
                      /\ [][(pc \in SubmitSteps) => pc' \in SubmitSteps]_vars
    OBVIOUS
<1>1. PoolInv => InFlight = {} /\ pc # "count"
  <2> SUFFICES ASSUME PoolInv PROVE InFlight = {} /\ pc # "count"
      OBVIOUS
  <2>1. active_task = 0 /\ pc # "count"
    BY DEF PoolInv, CountInv, TypeOK
  <2>2. IsFiniteSet(InFlight) /\ Cardinality(InFlight) = 0
    BY <2>1 DEF PoolInv, CountInv, CountExact
  <2> QED
    BY <2>1, <2>2, FS_EmptySet
<1>2. ASSUME PoolInv, [Next]_vars, pc \in SubmitSteps
      PROVE  pc' \in SubmitSteps
  <2>1. pc # "count" /\ pc \notin RebuildSteps \cup {"ready", "joining"}
    BY <1>1, <1>2 DEF SubmitSteps, RebuildSteps
  <2>2. CASE OwnerNext
    BY <1>2, <2>1, <2>2
       DEF OwnerNext, SubmitTask, SpuriousWakeup, SubmitStep, CheckCapacity,
           Reacquire, PostTask, CountTask, RefreshThreadPool, RefreshStep,
           JoinAll, StopService, InitNewWork, SpawnWorkers, SubmitSteps,
           RebuildSteps
  <2>3. CASE \E w \in Worker : WorkerNext(w)
    BY <1>2, <2>3 DEF WorkerNext, Dispatch, TaskCompleted, Exit, SubmitSteps
  <2>4. CASE End
    BY <1>2, <2>4 DEF End
  <2>5. CASE UNCHANGED vars
    BY <1>2, <2>5 DEF vars
  <2> QED
    BY <1>2, <2>2, <2>3, <2>4, <2>5 DEF Next
<1>3. PoolInv => InFlight = {}
  BY <1>1
<1>4. PoolInv /\ [Next]_vars
        => [(pc \in SubmitSteps) => pc' \in SubmitSteps]_vars
  BY <1>2
<1> QED
  BY <1>3, <1>4, PoolInvariant, PTL DEF Spec

-----------------------------------------------------------------------------
(* Steps of the pool, seen as steps of TaskPool.                           *)
LEMMA PoolInitRefines == Init => Pool!Init
  BY DEF Init, Pool!Init, InFlight, OwnerPhase, RebuildSteps

LEMMA PoolStepRefines ==
    ASSUME ~Stoppable, PoolInv, OwnedInv, [Next]_vars
    PROVE  [Pool!Next]_(Pool!vars)
<1> USE DEF OwnerPhase, RebuildSteps
<1>1. CASE \E t \in Task : SubmitTask(t)
  BY <1>1, FrameTasks DEF SubmitTask, Pool!vars
<1>2. CASE SpuriousWakeup \/ CheckCapacity \/ Reacquire \/ CountTask
  BY <1>2, FrameTasks
     DEF SpuriousWakeup, CheckCapacity, Reacquire, CountTask, Pool!vars
<1>3. CASE PostTask
  <2>1. arg \in Task /\ arg \notin InFlight
    BY <1>3 DEF PostTask, PoolInv, ArgInv, SubmitSteps, InFlight
  <2>2. InFlight' = InFlight \cup {arg}
    BY <1>3, <2>1, MoveTask, PoolAssumption DEF PostTask, PoolInv
  <2>3. Cardinality(InFlight) < MaxHardwareThreads
    <3>1. active_task < MaxHardwareThreads
      BY <1>3 DEF PostTask, PoolInv, CountInv
    <3>2. active_task = Cardinality(InFlight)
      BY <1>3 DEF PostTask, PoolInv, CountInv, CountExact, TypeOK
    <3> QED
      BY <3>1, <3>2
  <2>4. OwnerPhase = "open" /\ OwnerPhase' = "open"
    BY <1>3 DEF PostTask
  <2>5. Pool!Cardinality(InFlight) = Cardinality(InFlight)
    BY Zenon DEF Pool!Cardinality, Cardinality
  <2>6. Pool!Submit(arg)
    BY <2>1, <2>2, <2>3, <2>4, <2>5 DEF Pool!Submit
  <2> QED
    BY <2>1, <2>6 DEF Pool!Next
<1>4. CASE RefreshThreadPool
  <2>1. InFlight' = InFlight
    BY <1>4, FrameTasks DEF RefreshThreadPool
  <2>2. active_task > 0 <=> InFlight # {}
    <3>1. IsFiniteSet(InFlight) /\ active_task = Cardinality(InFlight)
      BY <1>4 DEF RefreshThreadPool, PoolInv, CountInv, CountExact, TypeOK
    <3> QED
      BY <3>1, FS_EmptySet DEF PoolInv, TypeOK
  <2>3. Pool!BeginRefresh \/ Pool!BlockInJoin
    BY <1>4, <2>1, <2>2
       DEF RefreshThreadPool, Pool!BeginRefresh, Pool!BlockInJoin
  <2> QED
    BY <2>3 DEF Pool!Next
<1>5. CASE JoinAll
  BY <1>5, PoolAssumption DEF JoinAll, OwnedInv
<1>6. CASE StopService \/ InitNewWork
  BY <1>6, FrameTasks DEF StopService, InitNewWork, Pool!vars
<1>7. CASE SpawnWorkers
  <2>1. Pool!EndRefresh
    BY <1>7, FrameTasks DEF SpawnWorkers, Pool!EndRefresh
  <2> QED
    BY <2>1 DEF Pool!Next
<1>8. CASE \E w \in Worker, t \in Task : Dispatch(w, t)
  <2>1. PICK w \in Worker, t \in Task : Dispatch(w, t)
    BY <1>8
  <2>2. InFlight' = InFlight
    BY <2>1, MoveTask, PoolAssumption DEF Dispatch, PoolInv, InFlight
  <2> QED
    BY <2>1, <2>2 DEF Dispatch, Pool!vars
<1>9. CASE \E w \in Worker : TaskCompleted(w)
  <2>1. PICK t \in Task : /\ place[t] \in Worker
                          /\ place' = [place EXCEPT ![t] = Nowhere]
                          /\ pc' = IF pc = "wait" THEN "woken" ELSE pc
    BY <1>9 DEF TaskCompleted
  <2>2. t \in InFlight /\ InFlight' = InFlight \ {t}
    BY <2>1, MoveTask, PoolAssumption DEF InFlight, PoolInv
  <2>3. Pool!Complete(t)
    BY <2>1, <2>2 DEF Pool!Complete
  <2> QED
    BY <2>3 DEF Pool!Next
<1>10. CASE \E w \in Worker : Exit(w)
  BY <1>10, FrameTasks DEF Exit, Pool!vars
<1>11. CASE End
  BY <1>11 DEF End
<1>12. CASE UNCHANGED vars
  BY <1>12, FrameTasks DEF vars, Pool!vars
<1> QED
  BY <1>1, <1>2, <1>3, <1>4, <1>5, <1>6, <1>7, <1>8, <1>9, <1>10, <1>11, <1>12
     DEF Next, OwnerNext, SubmitStep, RefreshStep, WorkerNext

(* The pool implements TaskPool: what Syncer is written against.           *)
THEOREM PoolImplementsTaskPool == ~Stoppable => (Spec => PoolSpec)
<1> SUFFICES ASSUME ~Stoppable PROVE Spec => PoolSpec
    OBVIOUS
<1>1. PoolInv /\ OwnedInv /\ [Next]_vars => [Pool!Next]_(Pool!vars)
  BY PoolStepRefines
<1> QED
  BY <1>1, PoolInitRefines, OwnedInvariant, PTL DEF Spec, PoolSpec, Pool!Spec
=============================================================================
