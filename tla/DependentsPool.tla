--------------------------- MODULE DependentsPool ---------------------------
(***************************************************************************)
(* What two variants of the part B pool share, tasksys_new.cpp and the     *)
(* older "tasksys copy.cpp": a queue of single tasks, and for every launch *)
(* the number of its dependencies, the launches that depend on it and the  *)
(* number of its tasks not done.  A launch registers with all of its       *)
(* dependencies; the worker that finishes the last task of a launch counts *)
(* down its dependents.  Names are those of tasksys_new.                   *)
(*                                                                         *)
(* queueMutex is held across steps only by a worker between finding        *)
(* nothing to do and falling asleep, allDoneMutex only by the thread in    *)
(* sync() in the same place.  A dependency is a launch already made, so    *)
(* groups.find always succeeds and pendingDependents stays empty.          *)
(***************************************************************************)
EXTENDS Integers, Sequences, FiniteSets, SequencesExt

CONSTANTS
    Worker,       \* the pool's threads
    MaxLaunches,  \* bound: how many launches the application makes
    TaskCounts    \* the values num_total_tasks may take

ASSUME WorkerAssumption == IsFiniteSet(Worker) /\ Worker # {}
ASSUME MaxLaunchesAssumption == MaxLaunches \in Nat
ASSUME TaskCountsAssumption == TaskCounts \subseteq Nat

LaunchId == 1 .. MaxLaunches

VARIABLES
    nextId, numTotalTasks, tasksRemaining, remainingDeps, dependents,
    readyTasks, pendingLaunches, stop,
    deps, finished,   \* history: the argument of each launch, the tasks that returned
    pc, task, mainPc  \* each worker's place and its task, the application's place

groupVars == <<nextId, numTotalTasks, deps>>
countVars == <<tasksRemaining, remainingDeps, pendingLaunches>>
poolVars == <<groupVars, countVars, dependents, readyTasks, stop, finished, pc, task, mainPc>>

Launched == 1 .. nextId - 1
NoTask == <<0, 0>>

PoolInit ==
    /\ nextId = 1
    /\ numTotalTasks = [l \in LaunchId |-> 0]
    /\ tasksRemaining = [l \in LaunchId |-> 0]
    /\ remainingDeps = [l \in LaunchId |-> 0]
    /\ dependents = [l \in LaunchId |-> <<>>]
    /\ readyTasks = <<>>
    /\ pendingLaunches = 0
    /\ stop = FALSE
    /\ deps = [l \in LaunchId |-> {}]
    /\ finished = {}
    /\ pc = [w \in Worker |-> "loop"]
    /\ task = [w \in Worker |-> NoTask]
    /\ mainPc = "app"

QueueMutexFree == \A w \in Worker : pc[w] # "blocking"
AllDoneMutexFree == mainPc # "sync_blocking"

TasksOf(l, n) == [i \in 1 .. n |-> <<l, i - 1>>]

(* notify_all() on the queue's condition, given the other changes of pc.   *)
Woken(places) == [w \in Worker |-> IF places[w] = "asleep" THEN "lock" ELSE places[w]]

-----------------------------------------------------------------------------
(* A worker, up to the end of its task.                                    *)

Goto(w, from, to) == pc[w] = from /\ pc' = [pc EXCEPT ![w] = to]

(* while (!stop)                                                           *)
TestLoop(w) ==
    /\ Goto(w, "loop", IF stop THEN "exited" ELSE "lock")
    /\ UNCHANGED <<groupVars, countVars, dependents, readyTasks, stop, finished, task, mainPc>>

(* The predicate of the wait is false ...                                  *)
BeginWait(w) ==
    /\ QueueMutexFree
    /\ ~stop /\ readyTasks = <<>>
    /\ Goto(w, "lock", "blocking")
    /\ UNCHANGED <<groupVars, countVars, dependents, readyTasks, stop, finished, task, mainPc>>

(* ... so the worker sleeps.                                               *)
Sleep(w) ==
    /\ Goto(w, "blocking", "asleep")
    /\ UNCHANGED <<groupVars, countVars, dependents, readyTasks, stop, finished, task, mainPc>>

SpuriousWake(w) ==
    /\ Goto(w, "asleep", "lock")
    /\ UNCHANGED <<groupVars, countVars, dependents, readyTasks, stop, finished, task, mainPc>>

\* Faulty variant: front() without pop().
FrontKept == readyTasks

FrontPopped == Tail(readyTasks)

TakeTask(w) ==
    /\ QueueMutexFree
    /\ ~stop /\ readyTasks # <<>>
    /\ Goto(w, "lock", "running")
    /\ task' = [task EXCEPT ![w] = Head(readyTasks)]
    /\ readyTasks' = FrontPopped
    /\ UNCHANGED <<groupVars, countVars, dependents, stop, finished, mainPc>>

(* The pool is shutting down.                                              *)
Leave(w, to) ==
    /\ QueueMutexFree
    /\ stop
    /\ Goto(w, "lock", to)
    /\ UNCHANGED <<groupVars, countVars, dependents, readyTasks, stop, finished, task, mainPc>>

(* runTask returns.                                                        *)
RunTask(w) ==
    /\ Goto(w, "running", "count")
    /\ finished' = finished \cup {task[w]}
    /\ UNCHANGED <<groupVars, countVars, dependents, readyTasks, stop, task, mainPc>>

-----------------------------------------------------------------------------
(* The bookkeeping after a task, under queueMutex.                         *)

\* Faulty variant: off by one.
LastButOneTask(l) == tasksRemaining[l] = 2 \/ numTotalTasks[l] = 1

LastTask(l) == tasksRemaining[l] = 1

\* Faulty variant: every launch made later is counted down.
CountDownLaterOnes(l) ==
    [c \in LaunchId |-> IF c > l /\ c < nextId THEN remainingDeps[c] - 1 ELSE remainingDeps[c]]

CountDown(l) ==
    [c \in LaunchId |-> IF Contains(dependents[l], c) THEN remainingDeps[c] - 1
                                                      ELSE remainingDeps[c]]

(* The dependents of l that waited for nothing else, in order.             *)
Unlocked(l) ==
    LET s == dependents[l] IN
    FlattenSeq([i \in DOMAIN s |-> IF remainingDeps[s[i]] = 1 THEN <<s[i]>> ELSE <<>>])

\* Faulty variant: the last pending launch is never noticed.
NoneLeft == FALSE

AllDone == pendingLaunches = 1

(* The task was not the last of its launch.                                *)
CountTask(w) ==
    LET l == task[w][1] IN
    /\ QueueMutexFree
    /\ Goto(w, "count", "loop")
    /\ ~LastTask(l)
    /\ tasksRemaining' = [tasksRemaining EXCEPT ![l] = @ - 1]
    /\ task' = [task EXCEPT ![w] = NoTask]
    /\ UNCHANGED <<groupVars, remainingDeps, pendingLaunches, dependents, readyTasks, stop,
                   finished, mainPc>>

(* It was: the part of the bookkeeping that both variants have.            *)
CountLaunch(w) ==
    LET l == task[w][1] IN
    /\ QueueMutexFree
    /\ pc[w] = "count"
    /\ LastTask(l)
    /\ tasksRemaining' = [tasksRemaining EXCEPT ![l] = @ - 1]
    /\ remainingDeps' = CountDown(l)
    /\ pendingLaunches' = pendingLaunches - 1
    /\ task' = [task EXCEPT ![w] = NoTask]
    /\ UNCHANGED <<groupVars, dependents, stop, finished, mainPc>>

(* allDoneCond.notify_all()                                                *)
NotifyDone(w) ==
    /\ Goto(w, "notify", "loop")
    /\ mainPc' = IF mainPc = "sync_asleep" THEN "sync" ELSE mainPc
    /\ UNCHANGED <<groupVars, countVars, dependents, readyTasks, stop, finished, task>>

-----------------------------------------------------------------------------
(* The application's thread.                                               *)

MainGoto(from, to) == mainPc = from /\ mainPc' = to

(* runAsyncWithDeps except for the notification.  A dependency counts even *)
(* if it is complete.  One that is given twice counts twice and is         *)
(* registered twice, so D is a set.                                        *)
AddLaunch(n, D) ==
    LET id == nextId IN
    /\ id <= MaxLaunches
    /\ QueueMutexFree
    /\ nextId' = id + 1
    /\ numTotalTasks' = [numTotalTasks EXCEPT ![id] = n]
    /\ deps' = [deps EXCEPT ![id] = D]
    /\ tasksRemaining' = [tasksRemaining EXCEPT ![id] = n]
    /\ remainingDeps' = [remainingDeps EXCEPT ![id] = Cardinality(D)]
    /\ pendingLaunches' = pendingLaunches + 1
    /\ dependents' = [d \in LaunchId |-> IF d \in D THEN Append(dependents[d], id)
                                                    ELSE dependents[d]]
    /\ readyTasks' = IF D = {} THEN readyTasks \o TasksOf(id, n) ELSE readyTasks
    /\ UNCHANGED <<stop, finished, task>>

Sync ==
    /\ MainGoto("app", "sync")
    /\ UNCHANGED <<groupVars, countVars, dependents, readyTasks, stop, finished, pc, task>>

(* run() has made its launch and goes on to sync().                        *)
RunSync ==
    /\ MainGoto("run", "sync")
    /\ UNCHANGED <<groupVars, countVars, dependents, readyTasks, stop, finished, pc, task>>

SyncReturn ==
    /\ pendingLaunches = 0
    /\ MainGoto("sync", "app")
    /\ UNCHANGED <<groupVars, countVars, dependents, readyTasks, stop, finished, pc, task>>

SyncBeginWait ==
    /\ pendingLaunches # 0
    /\ MainGoto("sync", "sync_blocking")
    /\ UNCHANGED <<groupVars, countVars, dependents, readyTasks, stop, finished, pc, task>>

SyncSleep ==
    /\ MainGoto("sync_blocking", "sync_asleep")
    /\ UNCHANGED <<groupVars, countVars, dependents, readyTasks, stop, finished, pc, task>>

SyncSpuriousWake ==
    /\ MainGoto("sync_asleep", "sync")
    /\ UNCHANGED <<groupVars, countVars, dependents, readyTasks, stop, finished, pc, task>>

(* The destructor sets the flag and notifies without the mutex, then joins.*)
Destroy ==
    /\ MainGoto("app", "destroy_notify")
    /\ stop' = TRUE
    /\ UNCHANGED <<groupVars, countVars, dependents, readyTasks, finished, pc, task>>

DestroyNotify ==
    /\ MainGoto("destroy_notify", "join")
    /\ pc' = Woken(pc)
    /\ UNCHANGED <<groupVars, countVars, dependents, readyTasks, stop, finished, task>>

Join ==
    /\ \A w \in Worker : pc[w] = "exited"
    /\ MainGoto("join", "destroyed")
    /\ UNCHANGED <<groupVars, countVars, dependents, readyTasks, stop, finished, pc, task>>

InSync == RunSync \/ SyncReturn \/ SyncBeginWait \/ SyncSleep
InDestructor == DestroyNotify \/ Join

-----------------------------------------------------------------------------
(* Properties.                                                             *)

(* No wake-up for work is lost: while the open pool has a task to give,    *)
(* some worker is awake, although a launch may be enqueued with no         *)
(* notification (when the queue was not empty) and a worker that takes a   *)
(* task wakes nobody.                                                      *)
WorkKeepsAWorkerAwake ==
    (~stop /\ readyTasks # <<>>) =>
        \E w \in Worker : pc[w] \notin {"asleep", "blocking", "exited"}

(* A launch that will never be counted as complete, as it has no task that *)
(* could be its last, or was given a dependency that had completed already *)
(* and waits for more completions than there will be.                      *)
Stranded ==
    \E l \in Launched :
        \/ numTotalTasks[l] = 0
        \/ remainingDeps[l] > Cardinality({d \in deps[l] : tasksRemaining[d] > 0})

(* itasksys.h:64-67: sync returns.                                         *)
SyncReturns == mainPc = "sync" ~> mainPc = "app"

RunningTasks == {task[w] : w \in {v \in Worker : pc[v] = "running"}}

Caller ==
    IF stop THEN "gone"
    ELSE IF mainPc \in {"sync", "sync_blocking", "sync_asleep"} THEN "sync"
    ELSE "app"

Contract == INSTANCE TaskSystem WITH
    launched <- Launched, num_total_tasks <- numTotalTasks, running <- RunningTasks,
    caller <- Caller

(* The contract's safety: a task runs once and after all of its launch's   *)
(* dependencies, and sync does not return before every task has.           *)
ImplementsSafely == Contract!SafeSpec

WorkerPC == {"loop", "lock", "blocking", "asleep", "running", "count", "enqueue", "notify",
             "exited"}

PoolTypeOK ==
    /\ nextId \in 1 .. MaxLaunches + 1
    /\ numTotalTasks \in [LaunchId -> TaskCounts \cup {0}]
    /\ tasksRemaining \in [LaunchId -> Nat]
    /\ remainingDeps \in [LaunchId -> Nat]
    /\ dependents \in [LaunchId -> Seq(LaunchId)]
    /\ deps \in [LaunchId -> SUBSET LaunchId]
    /\ readyTasks \in Seq(LaunchId \X Nat)
    /\ pendingLaunches \in 0 .. MaxLaunches
    /\ stop \in BOOLEAN
    /\ finished \subseteq LaunchId \X Nat
    /\ pc \in [Worker -> WorkerPC]
    /\ task \in [Worker -> (LaunchId \X Nat) \cup {NoTask}]
    /\ mainPc \in {"app", "run", "sync", "sync_blocking", "sync_asleep", "destroy_notify",
                   "join", "destroyed"}
=============================================================================
