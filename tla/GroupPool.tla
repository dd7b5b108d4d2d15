------------------------------ MODULE GroupPool ------------------------------
(***************************************************************************)
(* TaskSystemParallelThreadPoolSleeping of part_b/tasksys_new.cpp.  A      *)
(* worker that completes a group enqueues the groups this unlocks in a     *)
(* critical section of its own, notifies the workers only when the queue   *)
(* was empty, and notifies sync() under allDoneMutex.                      *)
(***************************************************************************)
EXTENDS DependentsPool

VARIABLES
    toEnqueue,     \* worker -> the groups it has unlocked
    notifyAllDone  \* worker -> it has completed the last pending group

localVars == <<toEnqueue, notifyAllDone>>
vars == <<poolVars, localVars>>

Init ==
    /\ PoolInit
    /\ toEnqueue = [w \in Worker |-> <<>>]
    /\ notifyAllDone = [w \in Worker |-> FALSE]

\* Faulty variant: the test is the wrong way round.
NotifyIfNotEmpty(places) == IF readyTasks # <<>> THEN Woken(places) ELSE places

(* if (wasEmpty) queueCond.notify_all()                                    *)
NotifyIfEmpty(places) == IF readyTasks = <<>> THEN Woken(places) ELSE places

CompleteGroup(w) ==
    LET l == task[w][1] IN
    /\ CountLaunch(w)
    /\ Goto(w, "count", IF Unlocked(l) # <<>> THEN "enqueue"
                        ELSE IF AllDone THEN "notify" ELSE "loop")
    /\ toEnqueue' = [toEnqueue EXCEPT ![w] = Unlocked(l)]
    /\ notifyAllDone' = [notifyAllDone EXCEPT ![w] = AllDone]
    /\ UNCHANGED readyTasks

EnqueueUnlocked(w) ==
    LET groups == toEnqueue[w]
        next == IF notifyAllDone[w] THEN "notify" ELSE "loop"
    IN
    /\ QueueMutexFree
    /\ pc[w] = "enqueue"
    /\ pc' = NotifyIfEmpty([pc EXCEPT ![w] = next])
    /\ readyTasks' = readyTasks \o
         FlattenSeq([i \in DOMAIN groups |-> TasksOf(groups[i], numTotalTasks[groups[i]])])
    /\ toEnqueue' = [toEnqueue EXCEPT ![w] = <<>>]
    /\ UNCHANGED <<groupVars, countVars, dependents, stop, finished, task, mainPc, notifyAllDone>>

\* Faulty variant: without allDoneMutex.
NotifyUnlocked(w) ==
    /\ NotifyDone(w)
    /\ notifyAllDone' = [notifyAllDone EXCEPT ![w] = FALSE]
    /\ UNCHANGED toEnqueue

NotifySync(w) ==
    /\ AllDoneMutexFree
    /\ NotifyDone(w)
    /\ notifyAllDone' = [notifyAllDone EXCEPT ![w] = FALSE]
    /\ UNCHANGED toEnqueue

(* run() makes a launch and goes on to sync().                             *)
Launch(n, D, from, to) ==
    /\ MainGoto(from, to)
    /\ AddLaunch(n, D)
    /\ pc' = IF D = {} THEN NotifyIfEmpty(pc) ELSE pc
    /\ UNCHANGED localVars

RunAsyncWithDeps(n, D) == Launch(n, D, "app", "app")
Run(n) == Launch(n, {}, "app", "run")

-----------------------------------------------------------------------------

Step(w) == (TestLoop(w) \/ Sleep(w) \/ RunTask(w)) /\ UNCHANGED localVars

LockQueue(w) ==
    \/ (BeginWait(w) \/ TakeTask(w) \/ Leave(w, "exited")) /\ UNCHANGED localVars
    \/ CountTask(w) /\ UNCHANGED localVars
    \/ CompleteGroup(w) \/ EnqueueUnlocked(w)

MainStep == (InSync \/ InDestructor) /\ UNCHANGED localVars

Next ==
    \/ \E w \in Worker : Step(w) \/ LockQueue(w) \/ NotifySync(w)
    \/ MainStep
    \/ (Sync \/ SyncSpuriousWake \/ Destroy \/ \E w \in Worker : SpuriousWake(w)) /\ UNCHANGED localVars
    \/ \E n \in TaskCounts : Run(n) \/ \E D \in SUBSET Launched : RunAsyncWithDeps(n, D)

(* Threads are scheduled and tasks return; a thread that keeps asking for  *)
(* a mutex that others take and release gets it.                           *)
Fairness ==
    /\ \A w \in Worker : WF_vars(Step(w)) /\ SF_vars(LockQueue(w)) /\ SF_vars(NotifySync(w))
    /\ WF_vars(MainStep)

SafeSpec == Init /\ [][Next]_vars
Spec == SafeSpec /\ Fairness

-----------------------------------------------------------------------------

TypeOK ==
    /\ PoolTypeOK
    /\ toEnqueue \in [Worker -> Seq(LaunchId)]
    /\ notifyAllDone \in [Worker -> BOOLEAN]

(* The notification of sync(), sent after queueMutex is released, is not   *)
(* lost: while its thread sleeps and no launch is pending, a worker is on  *)
(* its way to wake it.                                                     *)
SleepingSyncIsNotified ==
    (mainPc = "sync_asleep" /\ pendingLaunches = 0) =>
        \E w \in Worker : notifyAllDone[w]

(* sync returns unless a launch is stranded, and the destructor does if no *)
(* worker is about to sleep when it notifies them: nothing else makes them *)
(* hang.                                                                   *)
CallsReturnUnlessLost ==
    /\ mainPc = "sync" ~> (mainPc = "app" \/ Stranded)
    /\ (mainPc = "destroy_notify" /\ QueueMutexFree) ~> mainPc = "destroyed"
=============================================================================
