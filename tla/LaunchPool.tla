----------------------------- MODULE LaunchPool -----------------------------
(***************************************************************************)
(* TaskSystemParallelThreadPoolSleeping of "part_b/tasksys copy.cpp", an   *)
(* older snapshot of the part B pool.  A worker that completes a launch    *)
(* enqueues what this unlocks in the same critical section, always         *)
(* notifies the workers, and notifies sync() without m_completed_mutex:    *)
(* a thread that has just found launches pending may miss it.              *)
(*                                                                         *)
(* The state is DependentsPool's under other names; tasksRemaining is      *)
(* num_total_tasks - completed_tasks.                                      *)
(***************************************************************************)
EXTENDS DependentsPool

VARIABLE missedDone  \* history: the last notification came between sync's test and its sleep

vars == <<poolVars, missedDone>>
Init == PoolInit /\ missedDone = FALSE

-----------------------------------------------------------------------------

\* Faulty variant: the notification is forgotten.
NobodyWoken(places) == places

NotifyAll(places) == Woken(places)

(* move_ready_tasks_to_queue and the count of pending launches.  The legacy *)
(* branch on m_dependents is never taken: see DependentsPool.              *)
CompleteLaunch(w) ==
    LET children == Unlocked(task[w][1])
        next == IF AllDone THEN "notify" ELSE "loop"
    IN
    /\ CountLaunch(w)
    /\ readyTasks' = readyTasks \o
         FlattenSeq([i \in DOMAIN children |-> TasksOf(children[i], numTotalTasks[children[i]])])
    /\ pc' = NotifyAll([pc EXCEPT ![w] = next])
    /\ UNCHANGED missedDone

(* m_completed_cv.notify_all(), at any moment.  If sync() is about to      *)
(* sleep it is missed, which matters when no other is to come: everything  *)
(* is done and no other worker is about to notify.                         *)
NotifySync(w) ==
    /\ NotifyDone(w)
    /\ missedDone' = /\ ~AllDoneMutexFree
                     /\ pendingLaunches = 0
                     /\ \A v \in Worker \ {w} : pc[v] # "notify"

(* runAsyncWithDeps; run() makes a launch and goes on to sync().           *)
Launch(n, D, to) ==
    /\ MainGoto("app", to)
    /\ AddLaunch(n, D)
    /\ pc' = IF D = {} THEN NotifyAll(pc) ELSE pc
    /\ UNCHANGED missedDone

RunAsyncWithDeps(n, D) == Launch(n, D, "app")
Run(n) == Launch(n, {}, "run")

-----------------------------------------------------------------------------

(* The loop of worker_thread_function; when the pool is shutting down a    *)
(* worker without a task goes around once more.                            *)
Step(w) == (TestLoop(w) \/ Sleep(w) \/ RunTask(w)) /\ UNCHANGED missedDone

LockQueue(w) ==
    \/ (BeginWait(w) \/ TakeTask(w) \/ Leave(w, "loop") \/ CountTask(w)) /\ UNCHANGED missedDone
    \/ CompleteLaunch(w)

MainStep ==
    \/ (SyncBeginWait \/ SyncReturn) /\ missedDone' = FALSE
    \/ (RunSync \/ SyncSleep \/ InDestructor) /\ UNCHANGED missedDone

Next ==
    \/ \E w \in Worker : Step(w) \/ LockQueue(w) \/ NotifySync(w)
    \/ MainStep
    \/ (Sync \/ SyncSpuriousWake \/ Destroy \/ \E w \in Worker : SpuriousWake(w))
       /\ UNCHANGED missedDone
    \/ \E n \in TaskCounts : Run(n) \/ \E D \in SUBSET Launched : RunAsyncWithDeps(n, D)

(* As in GroupPool.                                                        *)
Fairness ==
    /\ \A w \in Worker : WF_vars(Step(w)) /\ WF_vars(NotifySync(w)) /\ SF_vars(LockQueue(w))
    /\ WF_vars(MainStep)

Spec == Init /\ [][Next]_vars /\ Fairness

-----------------------------------------------------------------------------

(* sync returns unless a launch is stranded or its own notification was    *)
(* missed, and the destructor does if no worker is about to sleep when it  *)
(* notifies them: nothing else makes them hang.                            *)
CallsReturnUnlessLost ==
    /\ mainPc = "sync" ~> (mainPc = "app" \/ Stranded \/ missedDone)
    /\ (mainPc = "destroy_notify" /\ QueueMutexFree) ~> mainPc = "destroyed"
=============================================================================
