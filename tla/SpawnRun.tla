------------------------------ MODULE SpawnRun ------------------------------
(***************************************************************************)
(* TaskSystemParallelSpawn of part_a/tasksys.cpp: every call of run()      *)
(* creates the threads, which take task numbers from an atomic counter     *)
(* until it passes num_total_tasks, and joins them.  The counter is a      *)
(* std::atomic<int>, so fetch_add wraps around at INT_MAX.                 *)
(***************************************************************************)
EXTENDS Integers, FiniteSets

CONSTANTS
    NumThreads,  \* num_threads
    MaxRuns,     \* bound: how many times the application calls run()
    TaskCounts,  \* the values num_total_tasks may take
    IntMax       \* INT_MAX

ASSUME NumThreadsAssumption == NumThreads \in Nat \ {0}
ASSUME MaxRunsAssumption == MaxRuns \in Nat
ASSUME IntMaxAssumption == IntMax \in Nat
ASSUME TaskCountsAssumption == TaskCounts \subseteq 0 .. IntMax

Worker == 0 .. NumThreads - 1
RunId == 1 .. MaxRuns

VARIABLES
    next_task,              \* the counter of the current call
    pc, task_id,            \* each thread's place and its task
    runs, num_total_tasks,  \* history: the calls of run() and their argument
    finished,               \* history: the tasks <<run, id>> whose runTask returned
    main_pc                 \* the application's thread

vars == <<next_task, pc, task_id, runs, num_total_tasks, finished, main_pc>>

Total == num_total_tasks[runs]

Init ==
    /\ next_task = 0
    /\ pc = [w \in Worker |-> "none"]
    /\ task_id = [w \in Worker |-> 0]
    /\ runs = 0
    /\ num_total_tasks = [r \in RunId |-> 0]
    /\ finished = {}
    /\ main_pc = "app"

CallRun(n) ==
    /\ main_pc = "app"
    /\ runs < MaxRuns
    /\ main_pc' = "called"
    /\ runs' = runs + 1
    /\ num_total_tasks' = [num_total_tasks EXCEPT ![runs + 1] = n]
    /\ UNCHANGED <<next_task, pc, task_id, finished>>

(* A counter and a vector of threads of its own for each call.             *)
StartRun ==
    /\ main_pc = "called"
    /\ main_pc' = "spawn"
    /\ next_task' = 0
    /\ pc' = [w \in Worker |-> "none"]
    /\ UNCHANGED <<task_id, runs, num_total_tasks, finished>>

(* The threads run from the moment they are created.                       *)
SpawnThread(w) ==
    /\ main_pc = "spawn"
    /\ pc[w] = "none"
    /\ \A v \in 0 .. w - 1 : pc[v] # "none"
    /\ pc' = [pc EXCEPT ![w] = "fetch"]
    /\ main_pc' = IF w = NumThreads - 1 THEN "join" ELSE "spawn"
    /\ UNCHANGED <<next_task, task_id, runs, num_total_tasks, finished>>

\* Faulty variant: the test lets one task too many through.
OutOfTasksOffByOne == next_task > Total

OutOfTasks == next_task >= Total

\* Faulty variant: a load and a store, where another thread may come between.
AddLost(w) ==
    IF \E v \in Worker : v # w /\ pc[v] = "fetch" THEN next_task ELSE next_task + 1

FetchAdd(w) == IF next_task = IntMax THEN -IntMax - 1 ELSE next_task + 1

FetchTask(w) ==
    /\ pc[w] = "fetch"
    /\ ~OutOfTasks
    /\ pc' = [pc EXCEPT ![w] = "running"]
    /\ task_id' = [task_id EXCEPT ![w] = next_task]
    /\ next_task' = FetchAdd(w)
    /\ UNCHANGED <<runs, num_total_tasks, finished, main_pc>>

Exit(w) ==
    /\ pc[w] = "fetch"
    /\ OutOfTasks
    /\ pc' = [pc EXCEPT ![w] = "exited"]
    /\ next_task' = FetchAdd(w)
    /\ UNCHANGED <<task_id, runs, num_total_tasks, finished, main_pc>>

ReturnTask(w) ==
    /\ pc[w] = "running"
    /\ pc' = [pc EXCEPT ![w] = "fetch"]
    /\ finished' = finished \cup {<<runs, task_id[w]>>}
    /\ UNCHANGED <<next_task, task_id, runs, num_total_tasks, main_pc>>

\* Faulty variant: only the last thread is joined.
LastExited == pc[NumThreads - 1] = "exited"

Joinable == \A w \in Worker : pc[w] = "exited"

Join ==
    /\ main_pc = "join"
    /\ Joinable
    /\ main_pc' = "app"
    /\ UNCHANGED <<next_task, pc, task_id, runs, num_total_tasks, finished>>

Destroy ==
    /\ main_pc = "app"
    /\ main_pc' = "gone"
    /\ UNCHANGED <<next_task, pc, task_id, runs, num_total_tasks, finished>>

Step(w) == FetchTask(w) \/ Exit(w) \/ ReturnTask(w)

SpawnSome == \E w \in Worker : SpawnThread(w)

MainStep == StartRun \/ SpawnSome \/ Join

Next ==
    \/ \E w \in Worker : Step(w)
    \/ MainStep \/ Destroy \/ \E n \in TaskCounts : CallRun(n)

(* Every thread is scheduled and every task returns.                       *)
Fairness == WF_vars(MainStep) /\ \A w \in Worker : WF_vars(Step(w))

SafeSpec == Init /\ [][Next]_vars
Spec == SafeSpec /\ Fairness

-----------------------------------------------------------------------------

TypeOK ==
    /\ next_task \in Int
    /\ pc \in [Worker -> {"none", "fetch", "running", "exited"}]
    /\ task_id \in [Worker -> Int]
    /\ runs \in 0 .. MaxRuns
    /\ num_total_tasks \in [RunId -> TaskCounts \cup {0}]
    /\ finished \subseteq RunId \X Int
    /\ main_pc \in {"app", "called", "spawn", "join", "gone"}

Running == {w \in Worker : pc[w] = "running"}
Exited == {w \in Worker : pc[w] = "exited"}

(* Every thread overshoots num_total_tasks once, so the counter needs room *)
(* for all but the last of them.                                           *)
RoomToCount == \A n \in TaskCounts : n + NumThreads - 1 <= IntMax

(* itasksys.h:15-16: a task is between 0 and num_total_tasks-1.            *)
TaskIdsInRange == \A w \in Running : task_id[w] \in 0 .. Total - 1

(* No two threads take the same task, and none takes one that is done.     *)
NoTaskTwice ==
    \A w \in Running :
        /\ <<runs, task_id[w]>> \notin finished
        /\ \A v \in Running : task_id[v] = task_id[w] => v = w

(* itasksys.h:36-39: run() returns only when every task of it has.         *)
RunReturnsComplete ==
    [][main_pc = "join" /\ main_pc' = "app" =>
          {runs} \X (0 .. Total - 1) \subseteq finished]_vars

(* What NoTaskTwice and RunReturnsComplete rest on: until every thread has *)
(* exited the counter is past num_total_tasks by no more than the threads  *)
(* that have, and what it has handed out is running or finished.           *)
Busy == main_pc \in {"spawn", "join"}

CounterOK ==
    Busy /\ Exited # Worker =>
        /\ next_task \in Nat
        /\ next_task <= Total + Cardinality(Exited)
        /\ \A w \in Running : task_id[w] < next_task
        /\ \A f \in finished : f[1] = runs => f[2] < next_task

HandedOut ==
    Busy =>
        \A i \in 0 .. Total - 1 : (i < next_task \/ Exited # {}) =>
            <<runs, i>> \in finished \/ \E w \in Running : task_id[w] = i

PlacesOK ==
    /\ ~Busy => \A w \in Worker : pc[w] \in {"none", "exited"}
    /\ Busy \/ main_pc = "called" => runs \in RunId /\ Total \in TaskCounts
    /\ main_pc = "join" => \A w \in Worker : pc[w] # "none"
    /\ Busy /\ Exited # {} /\ Exited # Worker => next_task >= Total
    /\ \A f \in finished : f[1] <= runs /\ (main_pc = "called" => f[1] < runs)

IInv ==
    /\ TypeOK /\ PlacesOK /\ CounterOK /\ HandedOut
    /\ Busy => TaskIdsInRange /\ NoTaskTwice

RunningTasks == {<<runs, task_id[w]>> : w \in Running}

Caller ==
    CASE main_pc \in {"app", "called"} -> "app"
      [] Busy -> "sync"
      [] OTHER -> "gone"

(* The contract of the task system.                                        *)
Contract == INSTANCE TaskSystem WITH
    LaunchId <- RunId,
    launched <- 1 .. runs, deps <- [r \in RunId |-> {}],
    running <- RunningTasks,
    caller <- Caller

ImplementsSafely == Contract!SafeSpec
ImplementsContract == Contract!Spec
=============================================================================
