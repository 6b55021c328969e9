----------------------------- MODULE ThreadPool -----------------------------
(***************************************************************************)
(* The worker pool of src/src/threading/thread_pool.{h,cpp}: an            *)
(* io_service run by boost threads, a counter of the tasks in flight       *)
(* (active_task, an atomic<uint8_t>), and a mutex with a condition         *)
(* variable that holds submissions back while the counter is at its limit. *)
(*                                                                         *)
(* One owner thread (the sync thread) calls SubmitTask and                 *)
(* RefreshThreadPool, one step of `pc` per statement that other threads    *)
(* can observe.  Workers take handlers from the io_service, run them, and  *)
(* call TaskCompleted.  boost::asio is modelled by what this code uses of  *)
(* it: a handler queue, stop/reset, and run(), which returns when the      *)
(* service is stopped or out of work.                                      *)
(***************************************************************************)
EXTENDS Integers, FiniteSets

CONSTANTS
    Task,                 \* the tasks the owner may submit
    Worker,               \* every thread the pool may ever create (a bound)
    MaxHardwareThreads,   \* MAX_HARDWARE_THREADS
    Queue,                \* the place of a task in the io_service's queue
    Nowhere,              \* the place of a task not in flight
    Stoppable             \* may Syncer::Stop be called while the pool is used?

(* hardware_concurrency() - 2 in a uint8_t: on a machine of two cores it   *)
(* is 0.                                                                   *)
ASSUME PoolAssumption ==
    /\ MaxHardwareThreads \in 0..255
    /\ Queue \notin Worker
    /\ Nowhere \notin Worker
    /\ Queue # Nowhere
    /\ Nowhere \notin Task
    /\ Stoppable \in BOOLEAN

VARIABLES
    pc,           \* where the owner thread is
    arg,          \* the task SubmitTask was called with
    locked,       \* the owner holds cs_task_mutex
    active_task,  \* the counter, a uint8_t
    place,        \* where each task is: nowhere, queued, or on a worker
    thread,       \* the life of each worker thread
    work,         \* the io_service::work object exists
    stopped       \* io_service.stopped()

vars == <<pc, arg, locked, active_task, place, thread, work, stopped>>

Uint8(n) == n % 256       \* every result of ++ and -- on active_task

SubmitSteps  == {"check", "wait", "woken", "post", "count"}
RebuildSteps == {"stop", "restart", "spawn"}
Steps == {"ready", "joining"} \cup SubmitSteps \cup RebuildSteps

Unborn  == {w \in Worker : thread[w] = "unborn"}
Live    == {w \in Worker : thread[w] = "live"}
Idle(w) == thread[w] = "live" /\ \A t \in Task : place[t] # w

Queued   == {t \in Task : place[t] = Queue}
Running  == {t \in Task : place[t] \in Worker}
InFlight == {t \in Task : place[t] # Nowhere}

-----------------------------------------------------------------------------
(* The constructor: work exists and MAX_HARDWARE_THREADS threads run.      *)
Init ==
    /\ pc = "ready"
    /\ arg = Nowhere
    /\ locked = FALSE
    /\ active_task = 0
    /\ place = [t \in Task |-> Nowhere]
    /\ \E W \in SUBSET Worker :
          /\ IsFiniteSet(W)
          /\ Cardinality(W) = MaxHardwareThreads
          /\ thread = [w \in Worker |-> IF w \in W THEN "live" ELSE "unborn"]
    /\ work = TRUE
    /\ stopped = FALSE

-----------------------------------------------------------------------------
(* SubmitTask, on the owner thread.  Nobody else holds the mutex between   *)
(* two steps: TaskCompleted takes and releases it within one step.         *)
SubmitTask(t) ==
    /\ pc = "ready"
    /\ ~locked
    /\ t \notin InFlight
    /\ arg' = t
    /\ locked' = TRUE
    /\ pc' = "check"
    /\ UNCHANGED <<active_task, place, thread, work, stopped>>

CheckCapacityOffByOne ==  \* the limit itself is let through
    /\ pc = "check"
    /\ IF active_task <= MaxHardwareThreads
         THEN pc' = "post" /\ UNCHANGED locked
         ELSE pc' = "wait" /\ locked' = FALSE
    /\ UNCHANGED <<arg, active_task, place, thread, work, stopped>>

(* The predicate of cv_task.wait: go on, or release the mutex and wait.    *)
CheckCapacity ==
    /\ pc = "check"
    /\ IF active_task < MaxHardwareThreads
         THEN pc' = "post" /\ UNCHANGED locked
         ELSE pc' = "wait" /\ locked' = FALSE
    /\ UNCHANGED <<arg, active_task, place, thread, work, stopped>>

(* A condition variable may wake without a notification.                   *)
SpuriousWakeup ==
    /\ pc = "wait"
    /\ pc' = "woken"
    /\ UNCHANGED <<arg, locked, active_task, place, thread, work, stopped>>

Reacquire ==
    /\ pc = "woken"
    /\ ~locked
    /\ locked' = TRUE
    /\ pc' = "check"
    /\ UNCHANGED <<arg, active_task, place, thread, work, stopped>>

PostTask ==
    /\ pc = "post"
    /\ place' = [place EXCEPT ![arg] = Queue]
    /\ pc' = "count"
    /\ UNCHANGED <<arg, locked, active_task, thread, work, stopped>>

(* ++active_task, and the mutex is released on return.                     *)
CountTask ==
    /\ pc = "count"
    /\ active_task' = Uint8(active_task + 1)
    /\ locked' = FALSE
    /\ arg' = Nowhere
    /\ pc' = "ready"
    /\ UNCHANGED <<place, thread, work, stopped>>

-----------------------------------------------------------------------------
(* A worker in io_service::run takes a handler of the queue.  asio is      *)
(* first in, first out; any order is allowed here.                         *)
Dispatch(w, t) ==
    /\ Idle(w)
    /\ ~stopped
    /\ place[t] = Queue
    /\ place' = [place EXCEPT ![t] = w]
    /\ UNCHANGED <<pc, arg, locked, active_task, thread, work, stopped>>

TaskCompletedSigned(w) ==  \* without cs_task_mutex, on a signed counter
    \E t \in Task :
        /\ place[t] = w
        /\ active_task' = active_task - 1
        /\ place' = [place EXCEPT ![t] = Nowhere]
        /\ pc' = IF pc = "wait" THEN "woken" ELSE pc
        /\ UNCHANGED <<arg, locked, thread, work, stopped>>

TaskCompletedUnlocked(w) ==  \* without cs_task_mutex
    \E t \in Task :
        /\ place[t] = w
        /\ active_task' = Uint8(active_task + 255)
        /\ place' = [place EXCEPT ![t] = Nowhere]
        /\ pc' = IF pc = "wait" THEN "woken" ELSE pc
        /\ UNCHANGED <<arg, locked, thread, work, stopped>>

TaskCompletedSilent(w) ==  \* without notify_one
    \E t \in Task :
        /\ place[t] = w
        /\ ~locked
        /\ active_task' = Uint8(active_task + 255)
        /\ place' = [place EXCEPT ![t] = Nowhere]
        /\ UNCHANGED <<pc, arg, locked, thread, work, stopped>>

(* The end of every task: decrement under the mutex (255 is -1 in a        *)
(* uint8_t) and notify the owner, the only thread that waits on cv_task.   *)
TaskCompleted(w) ==
    \E t \in Task :
        /\ place[t] = w
        /\ ~locked
        /\ active_task' = Uint8(active_task + 255)
        /\ place' = [place EXCEPT ![t] = Nowhere]
        /\ pc' = IF pc = "wait" THEN "woken" ELSE pc
        /\ UNCHANGED <<arg, locked, thread, work, stopped>>

(* io_service::run returns and the thread ends.  An idle thread need not   *)
(* notice a stop before the service is reset: it then lives on.            *)
Exit(w) ==
    /\ Idle(w)
    /\ stopped \/ (~work /\ InFlight = {})
    /\ thread' = [thread EXCEPT ![w] = "exited"]
    /\ UNCHANGED <<pc, arg, locked, active_task, place, work, stopped>>

-----------------------------------------------------------------------------
(* RefreshThreadPool, on the owner thread.  The bound on Worker is here:   *)
(* a refresh starts only if the threads it creates are left.               *)
NewWorkers ==
    {W \in SUBSET Unborn :
        IsFiniteSet(W) /\ Cardinality(W) = MaxHardwareThreads}

RefreshWithoutJoin ==  \* the test of active_task dropped
    /\ pc = "ready"
    /\ NewWorkers # {}
    /\ pc' = "stop"
    /\ UNCHANGED <<arg, locked, active_task, place, thread, work, stopped>>

RefreshStopsBeforeJoin ==  \* End comes first: queued tasks are lost
    /\ pc = "ready"
    /\ NewWorkers # {}
    /\ IF active_task > 0
         THEN pc' = "joining" /\ work' = FALSE /\ stopped' = TRUE
         ELSE pc' = "stop" /\ UNCHANGED <<work, stopped>>
    /\ UNCHANGED <<arg, locked, active_task, place, thread>>

(* The counter is read without the mutex.                                  *)
RefreshThreadPool ==
    /\ pc = "ready"
    /\ NewWorkers # {}
    /\ pc' = IF active_task > 0 THEN "joining" ELSE "stop"
    /\ UNCHANGED <<arg, locked, active_task, place, thread, work, stopped>>

(* join_all returns once every thread ever created has ended.              *)
JoinAll ==
    /\ pc = "joining"
    /\ Live = {}
    /\ pc' = "stop"
    /\ UNCHANGED <<arg, locked, active_task, place, thread, work, stopped>>

(* if (!io_service.stopped()) End();                                       *)
StopService ==
    /\ pc = "stop"
    /\ IF stopped
         THEN UNCHANGED <<work, stopped>>
         ELSE work' = FALSE /\ stopped' = TRUE
    /\ pc' = "restart"
    /\ UNCHANGED <<arg, locked, active_task, place, thread>>

InitNewWorkNoReset ==  \* the service stays stopped
    /\ pc = "restart"
    /\ work' = TRUE
    /\ pc' = "spawn"
    /\ UNCHANGED <<arg, locked, active_task, place, thread, stopped>>

(* io_service.reset() and a new work object.                               *)
InitNewWork ==
    /\ pc = "restart"
    /\ stopped' = FALSE
    /\ work' = TRUE
    /\ pc' = "spawn"
    /\ UNCHANGED <<arg, locked, active_task, place, thread>>

(* The create_thread loop.                                                 *)
SpawnWorkers ==
    /\ pc = "spawn"
    /\ \E W \in NewWorkers :
          thread' = [w \in Worker |-> IF w \in W THEN "live" ELSE thread[w]]
    /\ pc' = "ready"
    /\ UNCHANGED <<arg, locked, active_task, place, work, stopped>>

(* Syncer::Stop, called by Controller::Shutdown on the main thread.  Its   *)
(* overlap with the two statements that replace `work` is a data race on   *)
(* the pointer and is left out.                                            *)
End ==
    /\ Stoppable
    /\ ~stopped
    /\ pc \notin {"stop", "restart"}
    /\ work' = FALSE
    /\ stopped' = TRUE
    /\ UNCHANGED <<pc, arg, locked, active_task, place, thread>>

-----------------------------------------------------------------------------
SubmitStep  == CheckCapacity \/ Reacquire \/ PostTask \/ CountTask
RefreshStep == JoinAll \/ StopService \/ InitNewWork \/ SpawnWorkers

OwnerNext ==
    \/ \E t \in Task : SubmitTask(t)
    \/ SpuriousWakeup
    \/ SubmitStep
    \/ RefreshThreadPool
    \/ RefreshStep

WorkerNext(w) ==
    \/ \E t \in Task : Dispatch(w, t)
    \/ TaskCompleted(w)
    \/ Exit(w)

Next ==
    \/ OwnerNext
    \/ \E w \in Worker : WorkerNext(w)
    \/ End

Spec == Init /\ [][Next]_vars

(* The operating system runs every thread, a queued handler is taken by    *)
(* some idle thread, and a task body ends.  A worker at cs_task_mutex gets *)
(* it if the owner releases it again and again (strong fairness: spurious  *)
(* wakeups may retake the mutex forever).  Nothing forces the owner to     *)
(* submit or refresh, nor a waiter to wake without a notification.         *)
Fairness ==
    /\ WF_vars(SubmitStep)
    /\ WF_vars(RefreshStep)
    /\ \A t \in Task : WF_vars(\E w \in Worker : Dispatch(w, t))
    /\ \A w \in Worker : SF_vars(TaskCompleted(w)) /\ WF_vars(Exit(w))

FairSpec == Spec /\ Fairness

-----------------------------------------------------------------------------
(* Every variable holds a value of its type.                               *)
TypeOK ==
    /\ pc \in Steps
    /\ arg \in Task \cup {Nowhere}
    /\ locked \in BOOLEAN
    /\ active_task \in 0..255
    /\ place \in [Task -> Worker \cup {Queue, Nowhere}]
    /\ thread \in [Worker -> {"unborn", "live", "exited"}]
    /\ work \in BOOLEAN
    /\ stopped \in BOOLEAN

(* The counter says how many tasks are in flight, less the one posted but  *)
(* not yet counted.  A task that runs to its end before SubmitTask has     *)
(* counted it must not take the uint8_t below zero.                        *)
CountExact ==
    active_task + (IF pc = "count" THEN 1 ELSE 0) = Cardinality(InFlight)

(* No more than MAX_HARDWARE_THREADS tasks are ever in flight, and a       *)
(* submission waits only while there are that many: a completion that      *)
(* makes room never leaves the submitter asleep.                           *)
CapacityRespected ==
    /\ Cardinality(InFlight) <= MaxHardwareThreads
    /\ pc = "wait" => Cardinality(InFlight) = MaxHardwareThreads

(* No worker is inside a task while RefreshThreadPool stops the service,   *)
(* resets it and creates threads, also when the pool was stopped by        *)
(* another thread.                                                         *)
RebuildIsQuiet == pc \in {"stop", "restart"} => Running = {}

(* Unless another thread stops the pool, a refresh that gets as far as     *)
(* stopping the service finds no task in flight at all: no handler is left *)
(* in the queue of a stopped service.                                      *)
QuiescentRefresh == pc \in RebuildSteps => InFlight = {}

(* Unless another thread stops the pool, join_all is never left: a thread  *)
(* it waits for is always alive.                                           *)
JoinNeverReturns == pc = "joining" => Live # {}

(* The pool seen from outside: a task is pending from the moment it is     *)
(* posted, and the owner's phase is read off its program counter.          *)
OwnerPhase ==
    CASE pc = "joining"       -> "joining"
      [] pc \in RebuildSteps -> "refreshing"
      [] OTHER                -> "open"

Pool == INSTANCE TaskPool WITH
            Capacity <- MaxHardwareThreads,
            pending  <- InFlight,
            phase    <- OwnerPhase

(* The pool is a TaskPool, as long as no other thread stops it.            *)
PoolSpec == Pool!Spec

(* A task whose submission was counted is eventually completed.            *)
SubmittedTaskCompletes == \A t \in Task : t \in InFlight ~> t \notin InFlight

(* SubmitTask returns: the owner waiting at the limit is woken by a        *)
(* completion and finds room.                                              *)
SubmitReturns == pc \in SubmitSteps ~> pc = "ready"

(* RefreshThreadPool returns once it is called, as "allow all work to      *)
(* complete before ending the sync" (syncer.cpp) takes for granted.        *)
RefreshReturns == pc \in RebuildSteps \cup {"joining"} ~> pc = "ready"
=============================================================================
