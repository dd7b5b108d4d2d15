------------------------------ MODULE BulkPool ------------------------------
(***************************************************************************)
(* TaskSystemParallelThreadPoolSleeping of part_b/tasksys_orange.cpp.      *)
(* Bulk launches wait in a vector until their dependencies are finished    *)
(* and then move to the ready vector, both under qmtx; a worker draws a    *)
(* bulk from it at random.  The flag done, under cmtx, says that every     *)
(* bulk is finished: the workers sleep on sleeping_cv while it is set,     *)
(* sync() on waiting_cv until it is.                                       *)
(*                                                                         *)
(* bulk_mtx is only held within a step, and qmtx as well except while a    *)
(* bulk is being finished.  cmtx is held by a worker from setting done to  *)
(* falling asleep; next_id, num_bulk_done and terminate change meanwhile,  *)
(* since it does not protect them.  Bulks are                              *)
(* drawn and searched for without regard to their order, so the vectors    *)
(* are sets, and CheckWaiting's erasing of finished dependencies comes to  *)
(* comparing deps with finished_bulk.                                      *)
(***************************************************************************)
EXTENDS Integers, FiniteSets

CONSTANTS
    Worker,       \* the threads of thread_pool
    MaxLaunches,  \* bound: how many launches the application makes
    TaskCounts,   \* the values num_total_tasks may take
    Wrapped,      \* the values next_task_id may have after passing INT_MAX
    NoOne         \* no owner of cmtx

ASSUME WorkerAssumption == IsFiniteSet(Worker) /\ Worker # {} /\ NoOne \notin Worker
ASSUME MaxLaunchesAssumption == MaxLaunches \in Nat
ASSUME TaskCountsAssumption == TaskCounts \subseteq Nat
ASSUME WrappedAssumption == Wrapped \subseteq Int /\ \A i \in Wrapped : i < 0

LaunchId == 0 .. MaxLaunches - 1

VARIABLES
    next_id, num_total_tasks, next_task_id, num_tasks_done,
    deps,                                  \* the argument of runAsyncWithDeps
    waiting, ready, finished_bulk, num_bulk_done,
    done, terminate, cmtx,
    pc, my_bulk, my_id,                    \* each worker's place and locals
    main_pc, call                          \* the application's place, and the call that
                                           \* decides where it goes on

bulkVars == <<next_id, num_total_tasks, next_task_id, num_tasks_done, deps>>
queueVars == <<waiting, ready, finished_bulk, num_bulk_done>>
flagVars == <<done, terminate, cmtx>>
localVars == <<my_bulk, my_id>>
mainVars == <<main_pc, call>>
vars == <<bulkVars, queueVars, flagVars, pc, localVars, mainVars>>

Launched == 0 .. next_id - 1

Init ==
    /\ next_id = 0
    /\ num_total_tasks = [b \in LaunchId |-> 0]
    /\ next_task_id = [b \in LaunchId |-> 0]
    /\ num_tasks_done = [b \in LaunchId |-> 0]
    /\ deps = [b \in LaunchId |-> {}]
    /\ waiting = {} /\ ready = {} /\ finished_bulk = {}
    /\ num_bulk_done = 0
    /\ done = TRUE /\ terminate = FALSE /\ cmtx = NoOne
    /\ pc = [w \in Worker |-> "loop"]
    /\ my_bulk = [w \in Worker |-> 0]
    /\ my_id = [w \in Worker |-> 0]
    /\ main_pc = "app" /\ call = "sync"

\* Faulty variant: bulks whose dependencies are missing do not count.
NothingReady == ready = {}

AllBulksDone == next_id = num_bulk_done

\* Faulty variant: the notification is forgotten.
NobodyWakes == pc

(* sleeping_cv.notify_all(): a woken worker goes back for cmtx.            *)
AfterWake == [w \in Worker |-> IF pc[w] = "asleep" THEN "check" ELSE pc[w]]

\* Faulty variant: the notification is forgotten.
MainSleepsOn == main_pc

(* waiting_cv.notify_one(): only the application's thread waits on it.     *)
MainAfterWake == IF main_pc = "sync_asleep" THEN "sync_woken" ELSE main_pc

-----------------------------------------------------------------------------
(* A worker (ThreadFunc).                                                  *)

Goto(w, from, to) == pc[w] = from /\ pc' = [pc EXCEPT ![w] = to]

(* while (!terminate)                                                      *)
TestLoop(w) ==
    /\ Goto(w, "loop", IF terminate THEN "exited" ELSE "check")
    /\ UNCHANGED <<bulkVars, queueVars, flagVars, localVars, mainVars>>

(* Under cmtx: leave, ...                                                  *)
Leave(w) ==
    /\ cmtx = NoOne
    /\ terminate
    /\ Goto(w, "check", "exited")
    /\ UNCHANGED <<bulkVars, queueVars, flagVars, localVars, mainVars>>

(* ... or look for work since some bulk is not finished, ...               *)
SeeWork(w) ==
    /\ cmtx = NoOne
    /\ ~terminate /\ ~AllBulksDone
    /\ Goto(w, "check", "fetch")
    /\ done' = FALSE
    /\ UNCHANGED <<bulkVars, queueVars, terminate, cmtx, localVars, mainVars>>

(* ... or set done, wake the thread in sync() ...                          *)
SetDone(w) ==
    /\ cmtx = NoOne
    /\ ~terminate /\ AllBulksDone
    /\ Goto(w, "check", "blocking")
    /\ done' = TRUE
    /\ cmtx' = w
    /\ main_pc' = MainAfterWake
    /\ UNCHANGED <<bulkVars, queueVars, terminate, localVars, call>>

(* ... and sleep.                                                          *)
Sleep(w) ==
    /\ Goto(w, "blocking", "asleep")
    /\ cmtx' = NoOne
    /\ UNCHANGED <<bulkVars, queueVars, done, terminate, localVars, mainVars>>

SpuriousWake(w) ==
    /\ Goto(w, "asleep", "check")
    /\ UNCHANGED <<bulkVars, queueVars, flagVars, localVars, mainVars>>

(* Only a worker that is finishing a bulk holds qmtx between two steps.    *)
QmtxFree == \A v \in Worker : pc[v] # "remove"

\* Faulty variant: one finished dependency is enough.
SomeDepFinished == {b \in waiting : deps[b] \cap finished_bulk # {}}

Unblocked == {b \in waiting : deps[b] \subseteq finished_bulk}

(* CheckWaiting() moves bulks only when none is ready.                     *)
Moved == IF ready = {} THEN Unblocked ELSE {}

\* Faulty variant: one task too many.
TaskLeftOneMore(b) == next_task_id[b] <= num_total_tasks[b]

TaskLeft(b) == next_task_id[b] < num_total_tasks[b]

(* next_task_id++ goes on after the last task, as long as the bulk is      *)
(* ready.  All values from num_total_tasks on are alike, so it stays there *)
(* - until it overflows, if Wrapped is not empty.                          *)
NextTaskIds(b) == IF TaskLeft(b) THEN {next_task_id[b] + 1} ELSE {next_task_id[b]} \cup Wrapped

(* Under qmtx: take a task of a bulk drawn at random, ...                  *)
Claim(w, b) ==
    /\ QmtxFree
    /\ Goto(w, "fetch", "running")
    /\ b \in ready \cup Moved
    /\ TaskLeft(b)
    /\ my_bulk' = [my_bulk EXCEPT ![w] = b]
    /\ my_id' = [my_id EXCEPT ![w] = next_task_id[b]]
    /\ \E i \in NextTaskIds(b) : next_task_id' = [next_task_id EXCEPT ![b] = i]
    /\ ready' = ready \cup Moved
    /\ waiting' = waiting \ Moved
    /\ UNCHANGED <<next_id, num_total_tasks, num_tasks_done, deps, finished_bulk,
                   num_bulk_done, flagVars, mainVars>>

(* ... or find all its tasks handed out, ...                               *)
DrawInVain(w) ==
    /\ QmtxFree
    /\ Goto(w, "fetch", "loop")
    /\ \E b \in ready \cup Moved :
          /\ ~TaskLeft(b)
          /\ \E i \in NextTaskIds(b) : next_task_id' = [next_task_id EXCEPT ![b] = i]
    /\ ready' = ready \cup Moved
    /\ waiting' = waiting \ Moved
    /\ UNCHANGED <<next_id, num_total_tasks, num_tasks_done, deps, finished_bulk,
                   num_bulk_done, flagVars, localVars, mainVars>>

(* ... or find nothing ready.                                              *)
FindNothing(w) ==
    /\ QmtxFree
    /\ Goto(w, "fetch", "loop")
    /\ ready \cup Moved = {}
    /\ UNCHANGED <<bulkVars, queueVars, flagVars, localVars, mainVars>>

(* runTask returns.                                                        *)
RunTask(w) ==
    /\ Goto(w, "running", "count")
    /\ UNCHANGED <<bulkVars, queueVars, flagVars, localVars, mainVars>>

(* my_bulk and my_id are set anew before they are used again.              *)
ForgetTask(w) ==
    /\ my_bulk' = [my_bulk EXCEPT ![w] = 0]
    /\ my_id' = [my_id EXCEPT ![w] = 0]

(* num_done = ++num_tasks_done, under bulk_mtx.                            *)
CountTask(w) ==
    LET b == my_bulk[w]
        num_done == num_tasks_done[b] + 1
        last == num_done = num_total_tasks[b]
    IN
    /\ Goto(w, "count", IF last THEN "finish" ELSE "loop")
    /\ num_tasks_done' = [num_tasks_done EXCEPT ![b] = num_done]
    /\ IF last THEN UNCHANGED localVars ELSE ForgetTask(w)
    /\ UNCHANGED <<next_id, num_total_tasks, next_task_id, deps, queueVars, flagVars, mainVars>>

(* The last task of the bulk: num_bulk_done++ under qmtx, ...              *)
CountBulk(w) ==
    /\ QmtxFree
    /\ Goto(w, "finish", "remove")
    /\ num_bulk_done' = num_bulk_done + 1
    /\ UNCHANGED <<bulkVars, waiting, ready, finished_bulk, flagVars, localVars, mainVars>>

(* ... then the bulk leaves the ready vector, and the sleepers are woken.  *)
RemoveBulk(w) ==
    /\ pc[w] = "remove"
    /\ pc' = [AfterWake EXCEPT ![w] = "loop"]
    /\ ready' = ready \ {my_bulk[w]}
    /\ finished_bulk' = finished_bulk \cup {my_bulk[w]}
    /\ ForgetTask(w)
    /\ UNCHANGED <<bulkVars, waiting, num_bulk_done, flagVars, mainVars>>

-----------------------------------------------------------------------------
(* The application's thread.                                               *)

MainGoto(from, to) == main_pc = from /\ main_pc' = to

(* runAsyncWithDeps: next_id++ without a mutex, ...                        *)
NewBulk(n, D, c) ==
    /\ next_id < MaxLaunches
    /\ MainGoto("app", "push")
    /\ call' = c
    /\ next_id' = next_id + 1
    /\ num_total_tasks' = [num_total_tasks EXCEPT ![next_id] = n]
    /\ deps' = [deps EXCEPT ![next_id] = D]
    /\ UNCHANGED <<next_task_id, num_tasks_done, queueVars, flagVars, pc, localVars>>

(* ... the new bulk enters a vector under qmtx, ...                        *)
Push ==
    LET b == next_id - 1 IN
    /\ QmtxFree
    /\ MainGoto("push", "clear")
    /\ ready' = IF deps[b] = {} THEN ready \cup {b} ELSE ready
    /\ waiting' = IF deps[b] = {} THEN waiting ELSE waiting \cup {b}
    /\ UNCHANGED <<bulkVars, finished_bulk, num_bulk_done, flagVars, pc, localVars, call>>

(* ... done = false under cmtx, ...                                        *)
ClearDone ==
    /\ cmtx = NoOne
    /\ MainGoto("clear", "notify")
    /\ done' = FALSE
    /\ UNCHANGED <<bulkVars, queueVars, terminate, cmtx, pc, localVars, call>>

(* ... and wake the workers; run() goes on to sync().                      *)
NotifyWorkers ==
    /\ MainGoto("notify", IF call = "run" THEN "sync" ELSE "app")
    /\ call' = "sync"
    /\ pc' = AfterWake
    /\ UNCHANGED <<bulkVars, queueVars, flagVars, localVars>>

CallSync(c) ==
    /\ MainGoto("app", "sync")
    /\ call' = c
    /\ UNCHANGED <<bulkVars, queueVars, flagVars, pc, localVars>>

(* Both sync() and the destructor, which begins with a sync().             *)
AfterSync == IF call = "destroy" THEN "terminate" ELSE "app"

SyncReturn ==
    /\ cmtx = NoOne
    /\ done
    /\ MainGoto("sync", AfterSync)
    /\ UNCHANGED <<bulkVars, queueVars, flagVars, pc, localVars, call>>

SyncSleep ==
    /\ cmtx = NoOne
    /\ ~done
    /\ MainGoto("sync", "sync_asleep")
    /\ UNCHANGED <<bulkVars, queueVars, flagVars, pc, localVars, call>>

SyncSpuriousWake ==
    /\ MainGoto("sync_asleep", "sync_woken")
    /\ UNCHANGED <<bulkVars, queueVars, flagVars, pc, localVars, call>>

(* Woken in sync(): return when all is done ...                            *)
WokenReturn ==
    /\ cmtx = NoOne
    /\ AllBulksDone
    /\ MainGoto("sync_woken", AfterSync)
    /\ done' = TRUE
    /\ UNCHANGED <<bulkVars, queueVars, terminate, cmtx, pc, localVars, call>>

(* ... else wake the workers and sleep again.                              *)
WokenSleep ==
    /\ cmtx = NoOne
    /\ ~AllBulksDone
    /\ MainGoto("sync_woken", "sync_asleep")
    /\ done' = FALSE
    /\ pc' = AfterWake
    /\ UNCHANGED <<bulkVars, queueVars, terminate, cmtx, localVars, call>>

(* The rest of the destructor.                                             *)
Terminate ==
    /\ MainGoto("terminate", "wake")
    /\ terminate' = TRUE
    /\ UNCHANGED <<bulkVars, queueVars, done, cmtx, pc, localVars, call>>

FinalWake ==
    /\ cmtx = NoOne
    /\ MainGoto("wake", "join")
    /\ done' = FALSE
    /\ pc' = AfterWake
    /\ UNCHANGED <<bulkVars, queueVars, terminate, cmtx, localVars, call>>

Join ==
    /\ \A w \in Worker : pc[w] = "exited"
    /\ MainGoto("join", "destroyed")
    /\ UNCHANGED <<bulkVars, queueVars, flagVars, pc, localVars, call>>

-----------------------------------------------------------------------------

Step(w) ==
    \/ TestLoop(w) \/ Leave(w) \/ SeeWork(w) \/ SetDone(w) \/ Sleep(w)
    \/ DrawInVain(w) \/ FindNothing(w) \/ \E b \in LaunchId : Claim(w, b)
    \/ RunTask(w) \/ CountTask(w) \/ CountBulk(w) \/ RemoveBulk(w)

MainStep ==
    \/ Push \/ ClearDone \/ NotifyWorkers
    \/ SyncReturn \/ SyncSleep \/ WokenReturn \/ WokenSleep
    \/ Terminate \/ FinalWake \/ Join

Call ==
    \/ \E n \in TaskCounts, D \in SUBSET Launched : NewBulk(n, D, "async")
    \/ \E n \in TaskCounts : NewBulk(n, {}, "run")
    \/ CallSync("sync") \/ CallSync("destroy")

Next ==
    \/ \E w \in Worker : Step(w) \/ SpuriousWake(w)
    \/ MainStep \/ SyncSpuriousWake \/ Call

(* Threads are scheduled, tasks return, a thread that keeps asking for a   *)
(* mutex gets it, and rand() does not draw in vain for ever when there is  *)
(* a task to draw.                                                         *)
Fairness ==
    /\ \A w \in Worker : SF_vars(Step(w)) /\ SF_vars(\E b \in LaunchId : Claim(w, b))
    /\ SF_vars(MainStep)

SafeSpec == Init /\ [][Next]_vars
Spec == SafeSpec /\ Fairness

-----------------------------------------------------------------------------
(* Properties.                                                             *)

TypeOK ==
    /\ next_id \in 0 .. MaxLaunches
    /\ num_total_tasks \in [LaunchId -> TaskCounts \cup {0}]
    /\ next_task_id \in [LaunchId -> Int]
    /\ num_tasks_done \in [LaunchId -> Nat]
    /\ \A b \in LaunchId : num_tasks_done[b] <= num_total_tasks[b]
    /\ deps \in [LaunchId -> SUBSET LaunchId]
    /\ waiting \subseteq LaunchId /\ ready \subseteq LaunchId /\ finished_bulk \subseteq LaunchId
    /\ num_bulk_done \in 0 .. MaxLaunches
    /\ done \in BOOLEAN /\ terminate \in BOOLEAN /\ cmtx \in Worker \cup {NoOne}
    /\ pc \in [Worker -> {"loop", "check", "blocking", "asleep", "fetch", "running",
                          "count", "finish", "remove", "exited"}]
    /\ my_bulk \in [Worker -> LaunchId \cup {0}]
    /\ my_id \in [Worker -> Int]
    /\ main_pc \in {"app", "push", "clear", "notify", "sync", "sync_asleep", "sync_woken",
                    "terminate", "wake", "join", "destroyed"}
    /\ call \in {"async", "run", "sync", "destroy"}

InFlight == {w \in Worker : pc[w] \in {"running", "count"}}

(* itasksys.h:15-16: the tasks in flight have different ids in range, and  *)
(* none is run again, for all that the counter goes on past the last task. *)
NoTaskTwice ==
    \A w \in InFlight :
        /\ my_id[w] \in 0 .. num_total_tasks[my_bulk[w]] - 1
        /\ my_id[w] < next_task_id[my_bulk[w]]
        /\ \A v \in InFlight \ {w} : my_bulk[v] = my_bulk[w] => my_id[v] # my_id[w]

AllTasksReturned == \A b \in Launched : num_tasks_done[b] = num_total_tasks[b]

(* done may be set while the application launches a bulk, and must not be  *)
(* believed then; whenever the application can look at it, it is true only *)
(* if every bulk launched is finished - though next_id, num_bulk_done and  *)
(* done are never read or written together.                                *)
DoneIsHonest ==
    done /\ main_pc \notin {"push", "clear"} => next_id = num_bulk_done /\ AllTasksReturned

(* Whoever sleeps is woken: while sync() sleeps, or a bulk is unfinished   *)
(* and its launch announced, some worker is awake.                         *)
SomeoneAwake ==
    (main_pc = "sync_asleep" \/ (num_bulk_done # next_id /\ main_pc \in {"app", "sync"})) =>
        \E w \in Worker : pc[w] \notin {"blocking", "asleep", "exited"}

(* Liveness: once begun, the destructor's sync() returns and every thread  *)
(* is joined.                                                              *)
DestructorReturns == call = "destroy" ~> main_pc = "destroyed"

-----------------------------------------------------------------------------
(* What the pool implements; the destructor begins with a sync of its own. *)

RunningTasks == {<<my_bulk[w], my_id[w]>> : w \in {v \in Worker : pc[v] = "running"}}

StartedTasks == UNION {{b} \X (0 .. next_task_id[b] - 1) : b \in Launched}

Caller == IF terminate THEN "gone"
          ELSE IF main_pc \in {"sync", "sync_asleep", "sync_woken"} THEN "sync" ELSE "app"

Contract == INSTANCE TaskSystem WITH
    launched <- Launched, running <- RunningTasks, finished <- StartedTasks \ RunningTasks,
    caller <- Caller

(* The safety half of the contract of itasksys.h: no task starts before    *)
(* all tasks of the launches its own depends on have returned, although    *)
(* the waiting vector is looked at only now and then (49-52); sync()       *)
(* returns only when every task of every launch has (64-67).               *)
ImplementsSafely == Contract!SafeSpec
=============================================================================
