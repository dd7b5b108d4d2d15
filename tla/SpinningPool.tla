---------------------------- MODULE SpinningPool ----------------------------
(***************************************************************************)
(* TaskSystemParallelThreadPoolSpinning of part_a/tasksys.cpp: workers and *)
(* the thread in run() spin, and nobody ever sleeps.                       *)
(***************************************************************************)
EXTENDS RunPool

vars == poolVars

Init == PoolInit

\* Faulty variant: m_done is tested only before the first round.
TestDoneOnce(w) ==
    /\ Goto(w, "loop", IF m_done /\ runs = 0 THEN "exited" ELSE "empty")
    /\ UNCHANGED <<runtimeVars, m_done, callVars, finished, job, call, main_pc>>

(* while (not m_done)                                                      *)
TestDone(w) ==
    /\ Goto(w, "loop", IF m_done THEN "exited" ELSE "empty")
    /\ UNCHANGED <<runtimeVars, m_done, callVars, finished, job, call, main_pc>>

Step(w) ==
    \/ TestDone(w) \/ TestEmpty(w, "loop") \/ PopNothing(w, "loop") \/ PopJob(w)
    \/ CallTask(w) \/ ReturnTask(w) \/ AddComplete(w, "empty")

\* Faulty variant: run() waits for the queue to drain only.
QueueDrained == m_jobs = <<>>

RunOver == is_all_complete

(* while (not m_runtime.is_all_complete());                                *)
ReturnRun ==
    /\ RunOver
    /\ MainGoto("wait", "app")
    /\ UNCHANGED <<runtimeVars, m_done, callVars, finished, pc, job, call>>

MainStep == AddJob \/ ReturnRun \/ Join

Next ==
    \/ \E w \in Worker : Step(w)
    \/ MainStep \/ Destroy \/ \E n \in TaskCounts : CallRun(n)

(* Every thread is scheduled and every task returns.                       *)
Fairness == WF_vars(MainStep) /\ \A w \in Worker : WF_vars(Step(w))

SafeSpec == Init /\ [][Next]_vars
Spec == SafeSpec /\ Fairness

TypeOK ==
    /\ m_jobs \in Seq(Nat)
    /\ m_total_tasks \in TaskCounts \cup {0}
    /\ m_complete_tasks \in Nat
    /\ m_runnable \in 0 .. MaxRuns
    /\ m_done \in BOOLEAN
    /\ runs \in 0 .. MaxRuns
    /\ num_total_tasks \in [RunId -> TaskCounts \cup {0}]
    /\ finished \subseteq RunId \X Nat
    /\ pc \in [Worker -> {"loop", "empty", "pop", "call", "running", "complete", "exited"}]
    /\ job \in [Worker -> Nat]
    /\ call \in [Worker -> [run : 0 .. MaxRuns, task_id : Nat, total : Nat]]
    /\ main_pc \in {"app", "add_job", "wait", "join", "destroyed"}
=============================================================================
