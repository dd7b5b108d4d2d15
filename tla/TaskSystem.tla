----------------------------- MODULE TaskSystem -----------------------------
(***************************************************************************)
(* What an ITaskSystem promises to the program that uses it: the contract  *)
(* written in part_b/itasksys.h, over the tasks of the bulk launches only. *)
(* A launch is an identifier with a number of tasks and the launches it    *)
(* depends on; its tasks start and finish one by one, in any order and     *)
(* with any number of them running at once.                                *)
(***************************************************************************)
EXTENDS Integers

CONSTANTS
    LaunchId,    \* the identifiers a launch may be given
    TaskCounts   \* the values num_total_tasks may take

ASSUME TaskCountsAssumption == TaskCounts \subseteq Nat

VARIABLES
    launched,         \* the launches made so far
    num_total_tasks,  \* launch -> the number of its tasks
    deps,             \* launch -> the launches it was told to wait for
    running,          \* the tasks <<launch, task_id>> inside runTask
    finished,         \* the tasks whose runTask returned
    caller            \* where the application is: "app", in "sync", or "gone"
                      \* (it has begun to destroy the task system)

vars == <<launched, num_total_tasks, deps, running, finished, caller>>

-----------------------------------------------------------------------------

Tasks(l) == {l} \X (0 .. num_total_tasks[l] - 1)

Done(l) == Tasks(l) \subseteq finished

\* Faulty variant: a launch waits for all the others.
CanStartAlone(t) ==
    /\ t[1] \in launched
    /\ t \in Tasks(t[1])
    /\ t \notin running \cup finished
    /\ \A d \in launched \ {t[1]} : Done(d)

CanStart(t) ==
    /\ t[1] \in launched
    /\ t \in Tasks(t[1])
    /\ t \notin running \cup finished
    /\ \A d \in deps[t[1]] : Done(d)

Init ==
    /\ launched = {}
    /\ num_total_tasks = [l \in LaunchId |-> 0]
    /\ deps = [l \in LaunchId |-> {}]
    /\ running = {}
    /\ finished = {}
    /\ caller = "app"

(* runAsyncWithDeps: returns at once; the tasks start whenever.            *)
Launch(l, n, D) ==
    /\ caller = "app"
    /\ l \notin launched
    /\ launched' = launched \cup {l}
    /\ num_total_tasks' = [num_total_tasks EXCEPT ![l] = n]
    /\ deps' = [deps EXCEPT ![l] = D]
    /\ UNCHANGED <<running, finished, caller>>

(* No task starts before every task of every dependency has finished.      *)
Start(t) ==
    /\ caller # "gone"
    /\ CanStart(t)
    /\ running' = running \cup {t}
    /\ UNCHANGED <<launched, num_total_tasks, deps, finished, caller>>

Finish(t) ==
    /\ t \in running
    /\ running' = running \ {t}
    /\ finished' = finished \cup {t}
    /\ UNCHANGED <<launched, num_total_tasks, deps, caller>>

CallSync ==
    /\ caller = "app"
    /\ caller' = "sync"
    /\ UNCHANGED <<launched, num_total_tasks, deps, running, finished>>

\* Faulty variant: sync returns when no task is running.
ReturnSyncIdle ==
    /\ caller = "sync"
    /\ running = {}
    /\ caller' = "app"
    /\ UNCHANGED <<launched, num_total_tasks, deps, running, finished>>

(* sync blocks until all tasks of every prior launch are done.             *)
ReturnSync ==
    /\ caller = "sync"
    /\ \A l \in launched : Done(l)
    /\ caller' = "app"
    /\ UNCHANGED <<launched, num_total_tasks, deps, running, finished>>

Destroy ==
    /\ caller = "app"
    /\ caller' = "gone"
    /\ UNCHANGED <<launched, num_total_tasks, deps, running, finished>>

StartSome == \E l \in launched : \E t \in Tasks(l) : Start(t)
FinishSome == \E t \in running : Finish(t)
LaunchSome ==
    \E l \in LaunchId, n \in TaskCounts, D \in SUBSET launched : Launch(l, n, D)

Next == LaunchSome \/ StartSome \/ FinishSome \/ CallSync \/ ReturnSync \/ Destroy

(* Tasks return, the system keeps starting what may start, and a sync with *)
(* nothing left to wait for returns.  Nothing obliges the application to   *)
(* make any call.                                                          *)
Fairness == WF_vars(StartSome) /\ WF_vars(FinishSome) /\ WF_vars(ReturnSync)

SafeSpec == Init /\ [][Next]_vars
Spec == SafeSpec /\ Fairness

-----------------------------------------------------------------------------

TypeOK ==
    /\ launched \subseteq LaunchId
    /\ num_total_tasks \in [LaunchId -> TaskCounts \cup {0}]
    /\ deps \in [LaunchId -> SUBSET LaunchId]
    /\ running \subseteq LaunchId \X Nat
    /\ finished \subseteq LaunchId \X Nat
    /\ caller \in {"app", "sync", "gone"}
=============================================================================
