--------------------------- MODULE RunSleepingPool ---------------------------
(***************************************************************************)
(* TaskSystemParallelThreadPoolSleeping of part_a/tasksys.cpp: the thread  *)
(* in run() sleeps on m_completed_cv; the workers spin, and each time      *)
(* around notify it when all tasks are complete - without taking           *)
(* m_completed_mutex, so a notification may be lost and the next one has   *)
(* to make up for it.  Only run() takes that mutex, so it is not a         *)
(* variable.  A task of a microsecond or less makes the threads whose      *)
(* number is above 2 give way (m_max_threads).                             *)
(***************************************************************************)
EXTENDS RunPool

VARIABLE m_max_threads

vars == <<poolVars, m_max_threads>>

Init == PoolInit /\ m_max_threads = NumThreads

\* Faulty variant: the thread number is tested before m_done.
LeaveBelowLimit(w) ==
    /\ m_done
    /\ w <= m_max_threads
    /\ Goto(w, "loop", "exited")
    /\ UNCHANGED <<runtimeVars, m_done, callVars, finished, job, call, main_pc, m_max_threads>>

(* while (not m_done); a thread above the limit yields and tests again.    *)
Leave(w) ==
    /\ m_done
    /\ Goto(w, "loop", "exited")
    /\ UNCHANGED <<runtimeVars, m_done, callVars, finished, job, call, main_pc, m_max_threads>>

Enter(w) ==
    /\ ~m_done
    /\ w <= m_max_threads
    /\ Goto(w, "loop", "empty")
    /\ UNCHANGED <<runtimeVars, m_done, callVars, finished, job, call, main_pc, m_max_threads>>

Work(w) ==
    /\ \/ TestEmpty(w, "check") \/ PopNothing(w, "check") \/ PopJob(w)
       \/ CallTask(w) \/ ReturnTask(w) \/ AddComplete(w, "timed")
    /\ UNCHANGED m_max_threads

(* The task may have been too light.                                       *)
Time(w) ==
    /\ Goto(w, "timed", "empty")
    /\ m_max_threads' \in {m_max_threads, 2}
    /\ UNCHANGED <<runtimeVars, m_done, callVars, finished, job, call, main_pc>>

\* Faulty variant: ">" where is_all_complete has ">=".
NotifyBeyond == m_complete_tasks > m_total_tasks

MustNotify == is_all_complete

(* if (m_runtime.is_all_complete()) m_completed_cv.notify_all();           *)
CheckComplete(w) ==
    /\ Goto(w, "check", IF MustNotify THEN "notify" ELSE "loop")
    /\ UNCHANGED <<runtimeVars, m_done, callVars, finished, job, call, main_pc, m_max_threads>>

Notify(w) ==
    /\ Goto(w, "notify", "loop")
    /\ main_pc' = IF main_pc = "asleep" THEN "wait" ELSE main_pc
    /\ UNCHANGED <<runtimeVars, m_done, callVars, finished, job, call, m_max_threads>>

Step(w) == Leave(w) \/ Enter(w) \/ Work(w) \/ Time(w) \/ CheckComplete(w) \/ Notify(w)

-----------------------------------------------------------------------------

\* Faulty variant: run() waits for the queue to drain only.
QueueDrained == m_jobs = <<>>

RunOver == is_all_complete

(* m_completed_cv.wait with is_all_complete as its predicate.              *)
ReturnRun ==
    /\ RunOver
    /\ MainGoto("wait", "app")
    /\ UNCHANGED <<runtimeVars, m_done, callVars, finished, pc, job, call, m_max_threads>>

BeginWait ==
    /\ ~RunOver
    /\ MainGoto("wait", "blocking")
    /\ UNCHANGED <<runtimeVars, m_done, callVars, finished, pc, job, call, m_max_threads>>

Sleep ==
    /\ MainGoto("blocking", "asleep")
    /\ UNCHANGED <<runtimeVars, m_done, callVars, finished, pc, job, call, m_max_threads>>

SpuriousWake ==
    /\ MainGoto("asleep", "wait")
    /\ UNCHANGED <<runtimeVars, m_done, callVars, finished, pc, job, call, m_max_threads>>

MainStep ==
    \/ (AddJob \/ Join) /\ UNCHANGED m_max_threads
    \/ ReturnRun \/ BeginWait \/ Sleep

Next ==
    \/ \E w \in Worker : Step(w)
    \/ MainStep \/ SpuriousWake
    \/ (Destroy \/ \E n \in TaskCounts : CallRun(n)) /\ UNCHANGED m_max_threads

(* Every thread is scheduled and every task returns; nothing obliges a     *)
(* spurious wake-up.                                                       *)
Fairness == WF_vars(MainStep) /\ \A w \in Worker : WF_vars(Step(w))

SafeSpec == Init /\ [][Next]_vars
Spec == SafeSpec /\ Fairness
=============================================================================
