---------------------------- MODULE SleepingPool ----------------------------
(***************************************************************************)
(* TaskSystemParallelThreadPoolSleeping of part_b/tasksys.cpp: a pool of   *)
(* worker threads that share a deque of ready launches (ready_queue) under *)
(* queue_mutex, sleep on queue_cv when it is empty, and wake the thread    *)
(* that called sync() through completed_cv.                                *)
(*                                                                         *)
(* Everything between taking queue_mutex and releasing it is one step; a   *)
(* thread holds the mutex across steps only between finding its wait       *)
(* predicate false and falling asleep (condition_variable::wait is         *)
(* "unlock and sleep" at once, but testing the predicate comes before).    *)
(* One application thread makes all the calls, as in tests/tests.h.        *)
(*                                                                         *)
(* The iterator task_iter that a worker keeps while it runs its task is    *)
(* the absolute slot of the deque it points to, and erasing through it     *)
(* does what libstdc++ does to the slots (EraseAt).                        *)
(***************************************************************************)
EXTENDS Integers, Sequences, FiniteSets, SequencesExt

CONSTANTS
    Worker,       \* the pool's threads
    MaxLaunches,  \* bound: how many launches the application makes
    TaskCounts,   \* the values num_total_tasks may take
    Main,         \* the application's thread, as an owner of the mutex
    NoOne         \* no owner

ASSUME WorkerAssumption ==
    /\ IsFiniteSet(Worker) /\ Worker # {}
    /\ Main \notin Worker /\ NoOne \notin Worker /\ Main # NoOne
ASSUME MaxLaunchesAssumption == MaxLaunches \in Nat
ASSUME TaskCountsAssumption == TaskCounts \subseteq Nat

LaunchId == 0 .. MaxLaunches - 1

VARIABLES
    \* launch_id_map: one TaskLaunch for every id below next_launch_id
    next_launch_id,
    total_tasks, curr_task_id, num_completed_tasks, num_depends, successors,
    deps,                  \* the argument of runAsyncWithDeps (history)
    completed_launch_ids,
    \* ready_queue: its elements, and the slot that holds the first of them
    ready_queue, queue_start,
    \* synchronisation
    queue_mutex, terminate,
    \* control: each thread's place, and the locals of a worker with a task
    pc, job, main_pc

launchVars == <<next_launch_id, total_tasks, curr_task_id, num_completed_tasks,
                num_depends, successors, deps, completed_launch_ids>>
queueVars == <<ready_queue, queue_start>>
syncVars == <<queue_mutex, terminate>>
vars == <<launchVars, queueVars, syncVars, pc, job, main_pc>>

NoJob == [task |-> 0, cur_task_id |-> 0, task_iter |-> 0]

Launched == 0 .. next_launch_id - 1

Init ==
    /\ next_launch_id = 0
    /\ total_tasks = [l \in LaunchId |-> 0]
    /\ curr_task_id = [l \in LaunchId |-> 0]
    /\ num_completed_tasks = [l \in LaunchId |-> 0]
    /\ num_depends = [l \in LaunchId |-> 0]
    /\ successors = [l \in LaunchId |-> {}]
    /\ deps = [l \in LaunchId |-> {}]
    /\ completed_launch_ids = {}
    /\ ready_queue = <<>>
    /\ queue_start = 0
    /\ queue_mutex = NoOne
    /\ terminate = FALSE
    /\ pc = [w \in Worker |-> "loop"]
    /\ job = [w \in Worker |-> NoJob]
    /\ main_pc = "app"

(* notify_all on queue_cv and on completed_cv: a woken thread goes back    *)
(* for the mutex.                                                          *)
\* Faulty variant: the notification is forgotten.
NobodyWakes == pc

AfterWake == [w \in Worker |-> IF pc[w] = "asleep" THEN "lock" ELSE pc[w]]

-----------------------------------------------------------------------------
(* A worker thread.                                                        *)

Goto(w, from, to) == pc[w] = from /\ pc' = [pc EXCEPT ![w] = to]

WaitOver == terminate \/ ready_queue # <<>>

\* Faulty variant: one task too many.
ClaimableOneMore(l) == curr_task_id[l] <= total_tasks[l]

Claimable(l) == curr_task_id[l] < total_tasks[l]

(* while (!terminate)                                                      *)
TestLoop(w) ==
    /\ Goto(w, "loop", IF terminate THEN "exited" ELSE "lock")
    /\ UNCHANGED <<launchVars, queueVars, syncVars, job, main_pc>>

(* queue_cv.wait: the predicate is false ...                               *)
BeginWait(w) ==
    /\ queue_mutex = NoOne
    /\ ~WaitOver
    /\ Goto(w, "lock", "blocking")
    /\ queue_mutex' = w
    /\ UNCHANGED <<launchVars, queueVars, terminate, job, main_pc>>

(* ... so the thread releases the mutex and sleeps.                        *)
Sleep(w) ==
    /\ Goto(w, "blocking", "asleep")
    /\ queue_mutex' = NoOne
    /\ UNCHANGED <<launchVars, queueVars, terminate, job, main_pc>>

SpuriousWake(w) ==
    /\ Goto(w, "asleep", "lock")
    /\ UNCHANGED <<launchVars, queueVars, syncVars, job, main_pc>>

(* find_if returns the first launch with a task left, and the worker takes *)
(* that task and keeps the iterator.                                       *)
ClaimTask(w) ==
    /\ queue_mutex = NoOne
    /\ ~terminate
    /\ Goto(w, "lock", "running")
    /\ \E i \in 1 .. Len(ready_queue) :
          LET l == ready_queue[i] IN
          /\ Claimable(l)
          /\ \A j \in 1 .. i - 1 : ~Claimable(ready_queue[j])
          /\ job' = [job EXCEPT ![w] = [task |-> l,
                                        cur_task_id |-> curr_task_id[l],
                                        task_iter |-> queue_start + i - 1]]
          /\ curr_task_id' = [curr_task_id EXCEPT ![l] = @ + 1]
    /\ UNCHANGED <<next_launch_id, total_tasks, num_completed_tasks, num_depends,
                   successors, deps, completed_launch_ids, queueVars, syncVars, main_pc>>

(* Nothing to take, or the pool is shutting down: around the loop again.   *)
FindNothing(w) ==
    /\ queue_mutex = NoOne
    /\ WaitOver
    /\ terminate \/ \A i \in 1 .. Len(ready_queue) : ~Claimable(ready_queue[i])
    /\ Goto(w, "lock", "loop")
    /\ UNCHANGED <<launchVars, queueVars, syncVars, job, main_pc>>

(* runTask returns.                                                        *)
RunTask(w) ==
    /\ Goto(w, "running", "relock")
    /\ UNCHANGED <<launchVars, queueVars, syncVars, job, main_pc>>

\* Faulty variant: the last task was claimed, but perhaps not completed.
LastTaskClaimed(l) == curr_task_id[l] = total_tasks[l]

LastTask(l) == num_completed_tasks[l] + 1 = total_tasks[l]

(* The task was not the last of its launch.                                *)
CompleteTask(w) ==
    LET l == job[w].task IN
    /\ queue_mutex = NoOne
    /\ Goto(w, "relock", "unlocked")
    /\ ~LastTask(l)
    /\ num_completed_tasks' = [num_completed_tasks EXCEPT ![l] = @ + 1]
    /\ job' = [job EXCEPT ![w] = NoJob]
    /\ UNCHANGED <<next_launch_id, total_tasks, curr_task_id, num_depends, successors,
                   deps, completed_launch_ids, queueVars, syncVars, main_pc>>

(* deque::erase at a slot of a non-empty deque, as libstdc++ moves the     *)
(* elements: from the front when the slot lies in the first half, else     *)
(* from the back.  A stale iterator may point before the first slot (the   *)
(* move then overwrites the first element) or past the last one (nothing   *)
(* moves and the last element goes).                                       *)
ErasedIndex(slot) ==
    LET i == slot - queue_start IN
    IF i < 0 THEN 1 ELSE IF i >= Len(ready_queue) THEN Len(ready_queue) ELSE i + 1

StartAfterErase(slot) ==
    LET i == slot - queue_start IN
    IF 0 <= i /\ i < Len(ready_queue) \div 2 THEN queue_start + 1 ELSE queue_start

EraseAt(slot) == RemoveAt(ready_queue, ErasedIndex(slot))

(* The successors whose last missing dependency is l.                      *)
Unlocked(l) == {s \in successors[l] : num_depends[s] = 1}

\* Faulty variant: every later launch is decremented.
DependsAfterAll(l) == [s \in LaunchId |-> IF s > l THEN num_depends[s] - 1 ELSE num_depends[s]]

DependsAfter(l) ==
    [s \in LaunchId |-> IF s \in successors[l] THEN num_depends[s] - 1 ELSE num_depends[s]]

InLaunchOrder(s) == \A i, j \in 1 .. Len(s) : i < j => s[i] < s[j]

(* The last task of the launch is done: the launch leaves the queue and    *)
(* the launches it unlocks enter it, in the order they were made.          *)
CompleteLaunch(w) ==
    LET l == job[w].task IN
    /\ queue_mutex = NoOne
    /\ Goto(w, "relock", "unlocked")
    /\ LastTask(l)
    /\ num_completed_tasks' = [num_completed_tasks EXCEPT ![l] = @ + 1]
    /\ completed_launch_ids' = completed_launch_ids \cup {l}
    /\ num_depends' = DependsAfter(l)
    /\ \E unlocked \in [1 .. Cardinality(Unlocked(l)) -> Unlocked(l)] :
          /\ InLaunchOrder(unlocked)
          /\ ready_queue' = EraseAt(job[w].task_iter) \o unlocked
    /\ queue_start' = StartAfterErase(job[w].task_iter)
    /\ job' = [job EXCEPT ![w] = NoJob]
    /\ UNCHANGED <<next_launch_id, total_tasks, curr_task_id, successors, deps,
                   syncVars, main_pc>>

(* should_notify_sync = ready_queue.empty(), read after the unlock.  The   *)
(* two loads of empty() may straddle another thread's critical section:    *)
(* the read is then as if at a moment in between, or a false "empty",      *)
(* which is no more than a spurious wake-up of the thread in sync().       *)
ReadEmpty(w) ==
    /\ Goto(w, "unlocked", IF ready_queue = <<>> THEN "notify" ELSE "loop")
    /\ UNCHANGED <<launchVars, queueVars, syncVars, job, main_pc>>

(* completed_cv.notify_all()                                               *)
NotifySync(w) ==
    /\ Goto(w, "notify", "loop")
    /\ main_pc' = IF main_pc = "sync_asleep" THEN "sync" ELSE main_pc
    /\ UNCHANGED <<launchVars, queueVars, syncVars, job>>

-----------------------------------------------------------------------------
(* The application's thread.                                               *)

MainGoto(from, to) == main_pc = from /\ main_pc' = to

\* Faulty variants: complete launches are waited for too; dependencies ignored.
AllDeps(D) == D
NoDeps(D) == {}

MissingDeps(D) == D \ completed_launch_ids

(* The critical section of runAsyncWithDeps for the next id: dependencies  *)
(* that are complete already are filtered out.  A duplicate in the vector  *)
(* deps counts twice both in num_depends and in successors, which comes to *)
(* the same, so D is a set.                                                *)
AddLaunch(n, D) ==
    LET l == next_launch_id
        pending == MissingDeps(D)
    IN
    /\ l < MaxLaunches
    /\ queue_mutex = NoOne
    /\ next_launch_id' = l + 1
    /\ total_tasks' = [total_tasks EXCEPT ![l] = n]
    /\ deps' = [deps EXCEPT ![l] = D]
    /\ num_depends' = [num_depends EXCEPT ![l] = Cardinality(pending)]
    /\ successors' = [d \in LaunchId |-> IF d \in pending
                                         THEN successors[d] \cup {l} ELSE successors[d]]
    /\ ready_queue' = IF pending = {} THEN Append(ready_queue, l) ELSE ready_queue
    /\ UNCHANGED <<curr_task_id, num_completed_tasks, completed_launch_ids, queue_start,
                   syncVars, pc, job>>

RunAsyncWithDeps(n, D) == MainGoto("app", "notify_workers") /\ AddLaunch(n, D)

(* run() is runAsyncWithDeps without dependencies, then sync().            *)
Run(n) == MainGoto("app", "run_notify_workers") /\ AddLaunch(n, {})

(* queue_cv.notify_all() after the unlock, then return or go on to sync(). *)
NotifyWorkers ==
    /\ \/ MainGoto("notify_workers", "app")
       \/ MainGoto("run_notify_workers", "sync")
    /\ pc' = AfterWake
    /\ UNCHANGED <<launchVars, queueVars, syncVars, job>>

Sync ==
    /\ MainGoto("app", "sync")
    /\ UNCHANGED <<launchVars, queueVars, syncVars, pc, job>>

\* Faulty variant: every task has been handed out.
NothingToClaim == \A i \in 1 .. Len(ready_queue) : ~Claimable(ready_queue[i])

SyncOver == ready_queue = <<>>

SyncReturn ==
    /\ queue_mutex = NoOne
    /\ SyncOver
    /\ MainGoto("sync", "app")
    /\ UNCHANGED <<launchVars, queueVars, syncVars, pc, job>>

\* Faulty variant: the predicate is tested without holding the mutex on.
SyncBeginWaitUnlocked ==
    /\ queue_mutex = NoOne
    /\ ~SyncOver
    /\ MainGoto("sync", "sync_blocking")
    /\ UNCHANGED <<launchVars, queueVars, syncVars, pc, job>>

SyncBeginWait ==
    /\ queue_mutex = NoOne
    /\ ~SyncOver
    /\ MainGoto("sync", "sync_blocking")
    /\ queue_mutex' = Main
    /\ UNCHANGED <<launchVars, queueVars, terminate, pc, job>>

SyncSleep ==
    /\ MainGoto("sync_blocking", "sync_asleep")
    /\ queue_mutex' = NoOne
    /\ UNCHANGED <<launchVars, queueVars, terminate, pc, job>>

SyncSpuriousWake ==
    /\ MainGoto("sync_asleep", "sync")
    /\ UNCHANGED <<launchVars, queueVars, syncVars, pc, job>>

(* The destructor: terminate is set and queue_cv notified without the      *)
(* mutex; then every thread is joined.                                     *)
Destroy ==
    /\ MainGoto("app", "destroy_notify")
    /\ terminate' = TRUE
    /\ UNCHANGED <<launchVars, queueVars, queue_mutex, pc, job>>

DestroyNotify ==
    /\ MainGoto("destroy_notify", "join")
    /\ pc' = AfterWake
    /\ UNCHANGED <<launchVars, queueVars, syncVars, job>>

Join ==
    /\ \A w \in Worker : pc[w] = "exited"
    /\ MainGoto("join", "destroyed")
    /\ UNCHANGED <<launchVars, queueVars, syncVars, pc, job>>

-----------------------------------------------------------------------------

LockQueue(w) == BeginWait(w) \/ ClaimTask(w) \/ FindNothing(w)
Relock(w) == CompleteTask(w) \/ CompleteLaunch(w)
Step(w) == TestLoop(w) \/ Sleep(w) \/ RunTask(w) \/ ReadEmpty(w) \/ NotifySync(w)

SyncLock == SyncReturn \/ SyncBeginWait
MainStep == NotifyWorkers \/ SyncSleep \/ DestroyNotify \/ Join

Call ==
    \/ \E n \in TaskCounts, D \in SUBSET Launched : RunAsyncWithDeps(n, D)
    \/ \E n \in TaskCounts : Run(n)
    \/ Sync
    \/ Destroy

Next ==
    \/ \E w \in Worker : LockQueue(w) \/ Relock(w) \/ Step(w) \/ SpuriousWake(w)
    \/ SyncLock \/ MainStep \/ SyncSpuriousWake \/ Call

(* Threads are scheduled and tasks return (weak fairness); a thread that   *)
(* keeps asking for queue_mutex gets it (strong fairness: other threads    *)
(* take and release it in between).  Spurious wake-ups and the calls of    *)
(* the application need never happen.                                      *)
Fairness ==
    /\ \A w \in Worker : WF_vars(Step(w)) /\ SF_vars(LockQueue(w)) /\ SF_vars(Relock(w))
    /\ WF_vars(MainStep) /\ SF_vars(SyncLock)

SafeSpec == Init /\ [][Next]_vars
Spec == SafeSpec /\ Fairness

-----------------------------------------------------------------------------
(* Properties.                                                             *)

WorkerPC == {"loop", "lock", "blocking", "asleep", "running", "relock",
             "unlocked", "notify", "exited"}
MainPC == {"app", "notify_workers", "run_notify_workers", "sync", "sync_blocking",
           "sync_asleep", "destroy_notify", "join", "destroyed"}

TypeOK ==
    /\ next_launch_id \in 0 .. MaxLaunches
    /\ total_tasks \in [LaunchId -> TaskCounts \cup {0}]
    /\ curr_task_id \in [LaunchId -> Nat]
    /\ num_completed_tasks \in [LaunchId -> Nat]
    /\ num_depends \in [LaunchId -> Nat]
    /\ successors \in [LaunchId -> SUBSET LaunchId]
    /\ deps \in [LaunchId -> SUBSET LaunchId]
    /\ completed_launch_ids \subseteq LaunchId
    /\ ready_queue \in Seq(LaunchId)
    /\ queue_start \in Nat
    /\ queue_mutex \in Worker \cup {Main, NoOne}
    /\ terminate \in BOOLEAN
    /\ pc \in [Worker -> WorkerPC]
    /\ job \in [Worker -> [task : LaunchId \cup {0}, cur_task_id : Nat, task_iter : Nat]]
    /\ main_pc \in MainPC

InFlight == {w \in Worker : pc[w] \in {"running", "relock"}}

AllTasksDone(l) == num_completed_tasks[l] = total_tasks[l]

(* itasksys.h:49-52: while a task runs, every task of every launch that    *)
(* its launch depends on has completed (counted under the mutex).          *)
DependenciesDone ==
    \A w \in InFlight : \A d \in deps[job[w].task] : AllTasksDone(d)

(* itasksys.h:15-16 and "complete exactly once": two workers never hold    *)
(* the same task of a launch, and a task id stays below the total.         *)
NoTaskTwice ==
    \A w \in InFlight :
        /\ job[w].cur_task_id < total_tasks[job[w].task]
        /\ \A v \in InFlight \ {w} : \/ job[v].task # job[w].task
                                    \/ job[v].cur_task_id # job[w].cur_task_id

(* A launch is counted complete only when no worker is still inside a task *)
(* of it: completions cannot run ahead of runTask's returns.               *)
CompletedAreQuiet ==
    \A l \in completed_launch_ids :
        /\ curr_task_id[l] = total_tasks[l]
        /\ \A w \in InFlight : job[w].task # l

(* itasksys.h:64-67 with the predicate the code waits on: when sync finds  *)
(* ready_queue empty and returns, every launch made so far is complete -   *)
(* the launches that still wait for dependencies included, although they   *)
(* are not in the queue.                                                   *)
SyncReturnsComplete ==
    [][main_pc = "sync" /\ main_pc' = "app" => Launched \subseteq completed_launch_ids]_vars

(* The mutex is held across steps only by a thread about to sleep.         *)
MutexHeldByBlocking ==
    /\ \A w \in Worker : queue_mutex = w <=> pc[w] = "blocking"
    /\ queue_mutex = Main <=> main_pc = "sync_blocking"

(* No wake-up for work is lost: while a task can be claimed and the pool   *)
(* is open, some worker is awake or the launching thread is about to       *)
(* notify - although completing a launch notifies nobody on queue_cv.      *)
WorkKeepsAWorkerAwake ==
    (~terminate /\ \E i \in 1 .. Len(ready_queue) : Claimable(ready_queue[i])) =>
        \/ main_pc \in {"notify_workers", "run_notify_workers"}
        \/ \E w \in Worker : pc[w] \notin {"asleep", "blocking", "exited"}

(* No wake-up of sync is lost: while its thread sleeps on an empty queue,  *)
(* a worker is still on its way to notify completed_cv, although both the  *)
(* test of the queue and the notification happen outside the mutex.        *)
SleepingSyncIsNotified ==
    (main_pc = "sync_asleep" /\ ready_queue = <<>>) =>
        \E w \in Worker : pc[w] \in {"unlocked", "notify"}

(* Liveness, itasksys.h:64-67: sync returns.                               *)
SyncReturns == main_pc = "sync" ~> main_pc = "app"

(* tasksys.cpp:221, "Wait for all threads to finish": the destructor       *)
(* returns.                                                                *)
DestructorReturns == main_pc = "join" ~> main_pc = "destroyed"

-----------------------------------------------------------------------------
(* What the pool implements.  A task is running while a worker is inside   *)
(* its runTask, and has finished once claimed and no longer running.       *)

StartedTasks == UNION {{l} \X (0 .. curr_task_id[l] - 1) : l \in Launched}

RunningTasks ==
    {<<job[w].task, job[w].cur_task_id>> : w \in {v \in Worker : pc[v] = "running"}}

Caller ==
    IF terminate THEN "gone"
    ELSE IF main_pc \in {"sync", "sync_blocking", "sync_asleep"} THEN "sync" ELSE "app"

Contract == INSTANCE TaskSystem WITH
    launched <- Launched, num_total_tasks <- total_tasks, deps <- deps,
    running <- RunningTasks, finished <- StartedTasks \ RunningTasks, caller <- Caller

ImplementsContract == Contract!Spec
ImplementsSafely == Contract!SafeSpec

-----------------------------------------------------------------------------
(* The inductive invariant behind the theorems of SleepingPoolProofs: how  *)
(* the counters of the launches, their dependencies, the queue and the     *)
(* workers' places fit together.                                           *)

InFlightOf(l) == {w \in InFlight : job[w].task = l}

(* Launches not made yet are blank, and dependencies point backwards.      *)
LaunchesOK ==
    /\ completed_launch_ids \subseteq Launched
    /\ \A l \in LaunchId :
          /\ deps[l] \subseteq 0 .. l - 1
          /\ l \notin Launched => total_tasks[l] = 0 /\ deps[l] = {}

(* Every task claimed is completed or in the hands of one worker.          *)
CountsOK ==
    \A l \in LaunchId :
        /\ Cardinality(InFlightOf(l)) + num_completed_tasks[l] = curr_task_id[l]
        /\ curr_task_id[l] <= total_tasks[l]
        /\ l \in completed_launch_ids => AllTasksDone(l)

(* num_depends and successors count the dependencies not complete yet.     *)
DependsOK ==
    /\ \A l \in LaunchId : num_depends[l] = Cardinality(deps[l] \ completed_launch_ids)
    /\ \A d \in LaunchId \ completed_launch_ids :
          successors[d] = {l \in LaunchId : d \in deps[l]}

(* tasksys.h:172: the launches that ready_queue is meant to hold.          *)
Executable == {l \in Launched : num_depends[l] = 0} \ completed_launch_ids

(* Whatever erase removes, only launches without missing dependencies are  *)
(* in the queue or being run, and the queue has as many elements as there  *)
(* are executable launches - so it is empty when none is left.             *)
QueueOK ==
    /\ \A i \in 1 .. Len(ready_queue) :
          ready_queue[i] \in Launched /\ num_depends[ready_queue[i]] = 0
    /\ \A w \in InFlight : job[w].task \in Launched /\ num_depends[job[w].task] = 0
    /\ \A l \in completed_launch_ids : num_depends[l] = 0
    /\ Len(ready_queue) = Cardinality(Executable)

(* The tasks in flight are distinct and were handed out by curr_task_id.   *)
JobsOK ==
    \A w \in InFlight :
        /\ job[w].cur_task_id < curr_task_id[job[w].task]
        /\ \A v \in InFlight \ {w} : \/ job[v].task # job[w].task
                                    \/ job[v].cur_task_id # job[w].cur_task_id

(* A thread about to sleep still sees what made it wait, since it holds    *)
(* the mutex; workers leave only when the pool shuts down.                 *)
WaitersOK ==
    /\ MutexHeldByBlocking
    /\ \A w \in Worker : pc[w] = "blocking" => ready_queue = <<>>
    /\ main_pc = "sync_blocking" => ready_queue # <<>>
    /\ \A w \in Worker : pc[w] = "exited" => terminate
    /\ terminate <=> main_pc \in {"destroy_notify", "join", "destroyed"}

IInv == TypeOK /\ LaunchesOK /\ CountsOK /\ DependsOK /\ QueueOK /\ JobsOK
        /\ WaitersOK /\ WorkKeepsAWorkerAwake /\ SleepingSyncIsNotified
=============================================================================
