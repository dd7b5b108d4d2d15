------------------------------- MODULE RunPool -------------------------------
(***************************************************************************)
(* What the two thread pools of part_a share: the Runtime of               *)
(* part_a/tasksys.h - a queue of task numbers, the count of completed      *)
(* tasks and the launch they belong to - and the workers' inner loop.      *)
(* SpinningPool and RunSleepingPool add the rest of each pool.             *)
(*                                                                         *)
(* The queue is used under m_queue_mutex, each operation being one         *)
(* critical section; m_total_tasks and m_runnable are read outside it.     *)
(* A launch is known by its number: m_runnable is the number of the run()  *)
(* whose IRunnable it points to.                                           *)
(***************************************************************************)
EXTENDS Integers, Sequences, FiniteSets

CONSTANTS
    NumThreads,  \* num_threads
    MaxRuns,     \* bound: how many times the application calls run()
    TaskCounts   \* the values num_total_tasks may take

ASSUME NumThreadsAssumption == NumThreads \in Nat \ {0}
ASSUME MaxRunsAssumption == MaxRuns \in Nat
ASSUME TaskCountsAssumption == TaskCounts \subseteq Nat

Worker == 0 .. NumThreads - 1
RunId == 1 .. MaxRuns

VARIABLES
    m_jobs, m_total_tasks, m_complete_tasks, m_runnable,  \* the Runtime
    m_done,
    runs, num_total_tasks,  \* history: the calls of run() and their argument
    finished,               \* history: the tasks <<run, id>> whose runTask returned
    pc, job, call,          \* each worker's place, the task it popped, and the
                            \* arguments it passed to runTask
    main_pc

runtimeVars == <<m_jobs, m_total_tasks, m_complete_tasks, m_runnable>>
callVars == <<runs, num_total_tasks>>
poolVars == <<runtimeVars, m_done, callVars, finished, pc, job, call, main_pc>>

NoCall == [run |-> 0, task_id |-> 0, total |-> 0]

(* m_total_tasks and m_runnable are not initialised; any value will do.    *)
PoolInit ==
    /\ m_jobs = <<>>
    /\ m_total_tasks \in TaskCounts \cup {0}
    /\ m_complete_tasks = 0
    /\ m_runnable = 0
    /\ m_done = FALSE
    /\ runs = 0
    /\ num_total_tasks = [r \in RunId |-> 0]
    /\ finished = {}
    /\ pc = [w \in Worker |-> "loop"]
    /\ job = [w \in Worker |-> 0]
    /\ call = [w \in Worker |-> NoCall]
    /\ main_pc = "app"

is_all_complete == m_complete_tasks >= m_total_tasks

-----------------------------------------------------------------------------
(* The inner loop of a worker; "after" is where it goes on when it ends.   *)

Goto(w, from, to) == pc[w] = from /\ pc' = [pc EXCEPT ![w] = to]

(* while (not m_runtime.empty())                                           *)
TestEmpty(w, after) ==
    /\ Goto(w, "empty", IF m_jobs = <<>> THEN after ELSE "pop")
    /\ UNCHANGED <<runtimeVars, m_done, callVars, finished, job, call, main_pc>>

\* Faulty variant: without "if (job == -1) break".
PopMinusOne(w, after) ==
    /\ m_jobs = <<>>
    /\ Goto(w, "pop", "call")
    /\ job' = [job EXCEPT ![w] = -1]
    /\ UNCHANGED <<runtimeVars, m_done, callVars, finished, call, main_pc>>

(* pop() returns -1 when another worker took the last job in between.      *)
PopNothing(w, after) ==
    /\ m_jobs = <<>>
    /\ Goto(w, "pop", after)
    /\ UNCHANGED <<runtimeVars, m_done, callVars, finished, job, call, main_pc>>

PopJob(w) ==
    /\ m_jobs # <<>>
    /\ Goto(w, "pop", "call")
    /\ job' = [job EXCEPT ![w] = Head(m_jobs)]
    /\ m_jobs' = Tail(m_jobs)
    /\ UNCHANGED <<m_total_tasks, m_complete_tasks, m_runnable, m_done, callVars, finished,
                   call, main_pc>>

(* Runtime::run reads m_runnable and m_total_tasks without the mutex.      *)
CallTask(w) ==
    /\ Goto(w, "call", "running")
    /\ call' = [call EXCEPT ![w] = [run |-> m_runnable, task_id |-> job[w],
                                    total |-> m_total_tasks]]
    /\ UNCHANGED <<runtimeVars, m_done, callVars, finished, job, main_pc>>

(* runTask returns.                                                        *)
ReturnTask(w) ==
    /\ Goto(w, "running", "complete")
    /\ finished' = finished \cup {<<call[w].run, call[w].task_id>>}
    /\ call' = [call EXCEPT ![w] = NoCall]
    /\ job' = [job EXCEPT ![w] = 0]
    /\ UNCHANGED <<runtimeVars, m_done, callVars, main_pc>>

\* Faulty variant: a plain int, whose increment is lost when two race.
IncrementLost ==
    IF \E v, w \in Worker : v # w /\ pc[v] = "complete" /\ pc[w] = "complete"
    THEN m_complete_tasks ELSE m_complete_tasks + 1

Increment == m_complete_tasks + 1

AddComplete(w, after) ==
    /\ Goto(w, "complete", after)
    /\ m_complete_tasks' = Increment
    /\ UNCHANGED <<m_jobs, m_total_tasks, m_runnable, m_done, callVars, finished, job, call,
                   main_pc>>

-----------------------------------------------------------------------------
(* The application's thread.                                               *)

MainGoto(from, to) == main_pc = from /\ main_pc' = to

CallRun(n) ==
    /\ runs < MaxRuns
    /\ MainGoto("app", "add_job")
    /\ runs' = runs + 1
    /\ num_total_tasks' = [num_total_tasks EXCEPT ![runs + 1] = n]
    /\ UNCHANGED <<runtimeVars, m_done, finished, pc, job, call>>

\* Faulty variant: add_job forgets m_complete_tasks = 0.
CountKept == m_complete_tasks

CountReset == 0

AddJob ==
    /\ MainGoto("add_job", "wait")
    /\ m_complete_tasks' = CountReset
    /\ m_jobs' = m_jobs \o [i \in 1 .. num_total_tasks[runs] |-> i - 1]
    /\ m_total_tasks' = num_total_tasks[runs]
    /\ m_runnable' = runs
    /\ UNCHANGED <<m_done, callVars, finished, pc, job, call>>

(* The destructor: m_done, then join.                                      *)
Destroy ==
    /\ MainGoto("app", "join")
    /\ m_done' = TRUE
    /\ UNCHANGED <<runtimeVars, callVars, finished, pc, job, call>>

Join ==
    /\ \A w \in Worker : pc[w] = "exited"
    /\ MainGoto("join", "destroyed")
    /\ UNCHANGED <<runtimeVars, m_done, callVars, finished, pc, job, call>>

-----------------------------------------------------------------------------
(* Properties.                                                             *)

InFlight == {w \in Worker : pc[w] \in {"call", "running", "complete"}}

(* Between two calls of run() nothing of the last one lingers: no job in   *)
(* the queue, no worker between pop() and add_complete().  So resetting    *)
(* m_complete_tasks loses no completion of an earlier launch and none of   *)
(* an earlier launch is counted for the next.                              *)
QuietBetweenRuns ==
    main_pc \in {"app", "add_job"} => m_jobs = <<>> /\ InFlight = {}

(* m_runnable and m_total_tasks, read after pop() has released the mutex,  *)
(* are still those of the launch the job came from.                        *)
CallsOwnLaunch ==
    \A w \in Worker : pc[w] = "running" =>
        /\ call[w].run = runs
        /\ call[w].total = num_total_tasks[runs]
        /\ call[w].task_id \in 0 .. num_total_tasks[runs] - 1

(* The count of completed tasks never runs ahead: it is what is missing    *)
(* from the queue and from the workers' hands.                             *)
CountsAddUp ==
    main_pc \in {"wait", "blocking", "asleep"} =>
        Len(m_jobs) + Cardinality(InFlight) + m_complete_tasks = m_total_tasks

(* Liveness: the destructor joins every thread.                                      *)
DestructorReturns == main_pc = "join" ~> main_pc = "destroyed"

RunningTasks == {<<call[w].run, call[w].task_id>> : w \in {v \in Worker : pc[v] = "running"}}

Caller ==
    IF m_done THEN "gone" ELSE IF main_pc \in {"app", "add_job"} THEN "app" ELSE "sync"

Contract == INSTANCE TaskSystem WITH
    LaunchId <- RunId,
    launched <- 1 .. runs, deps <- [r \in RunId |-> {}], running <- RunningTasks,
    caller <- Caller

(* The contract of itasksys.h, for launches nothing depends on: run() runs *)
(* every task once and returns only when all have returned (36-39) ...     *)
ImplementsSafely == Contract!SafeSpec

(* ... which happens eventually.                                           *)
ImplementsContract == Contract!Spec
=============================================================================
