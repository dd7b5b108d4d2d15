------------------------ MODULE RunSleepingPoolProofs ------------------------
(***************************************************************************)
(* Theorems about the part A pool whose run() sleeps.                      *)
(***************************************************************************)
EXTENDS RunSleepingPool, RunPoolProofs

LEMMA RunSleepingStep ==
    ASSUME PoolInv, [Next]_vars
    PROVE  PoolInv'
<1>1. ASSUME NEW w \in Worker, Step(w)
      PROVE  PoolInv'
  <2> USE DEF Places, Busy
  <2>1. CASE Leave(w) \/ Enter(w)
    BY <2>1, Idle DEF Leave, Enter, Goto
  <2>2. CASE TestEmpty(w, "check")
    BY <2>2, Idle DEF TestEmpty, Goto
  <2>3. CASE PopNothing(w, "check")
    BY <2>3, Idle DEF PopNothing, Goto
  <2>4. CASE AddComplete(w, "timed")
    BY <2>4, PoolAddComplete
  <2>5. CASE Time(w)
    BY <2>5, Idle DEF Time, Goto
  <2>6. CASE CheckComplete(w)
    BY <2>6, Idle DEF CheckComplete, Goto
  <2>7. CASE Notify(w)
    <3>1. /\ pc[w] \notin Busy
          /\ InFlight' = InFlight
      BY <2>7 DEF Notify, Goto, InFlight, PoolInv, RuntimeType
    <3> QED
      BY <2>7, <3>1 DEF Notify, Goto, PoolInv, RuntimeType, CurrentRun, runtimeVars, callVars, Waiting
  <2> QED
    BY <1>1, <2>1, <2>2, <2>3, <2>4, <2>5, <2>6, <2>7, PoolPopJob, PoolCallTask, PoolReturnTask
       DEF Step, Work
<1>2. CASE ReturnRun
  BY <1>2, PoolReturnRun DEF ReturnRun, RunOver
<1>3. CASE BeginWait \/ Sleep \/ SpuriousWake \/ Join \/ Destroy
  BY <1>3, PoolMainMoves DEF BeginWait, Sleep, SpuriousWake, Join, Destroy, MainGoto, Waiting
<1>4. CASE UNCHANGED vars
  BY <1>4, PoolStutters DEF vars
<1> QED
  BY <1>1, <1>2, <1>3, <1>4, PoolAddJob, PoolCallRun DEF Next, MainStep

(* part_a/tasksys.h:56-90: the same for the pool whose run() sleeps: the   *)
(* tasks not counted as complete are in the queue or in a worker's hands.  *)
THEOREM RunSleepingInvariant == SafeSpec => []PoolInv
<1>1. Init => PoolInv
  BY PoolStarts DEF Init
<1>2. PoolInv /\ [Next]_vars => PoolInv'
  BY RunSleepingStep
<1> QED
  BY <1>1, <1>2, PTL DEF SafeSpec

(* part_a/tasksys.h:56-64: when a run() resets the Runtime nothing of the  *)
(* last one is left in the queue or in the hands of a worker, whatever     *)
(* notifications were lost.                                                *)
THEOREM RunSleepingQuiet == SafeSpec => []QuietBetweenRuns
BY RunSleepingInvariant, PoolProperties, PTL

(* part_a/tasksys.h:84-90: the count of completed tasks is what is missing *)
(* from the queue and from the workers' hands.                             *)
THEOREM RunSleepingCounts == SafeSpec => []CountsAddUp
BY RunSleepingInvariant, PoolProperties, PTL
-----------------------------------------------------------------------------
(* The same for the tasks themselves: RunInv.                              *)

RoundStep(w) ==
    \/ Leave(w) \/ Enter(w) \/ Time(w) \/ CheckComplete(w) \/ Notify(w)
    \/ TestEmpty(w, "check") \/ PopNothing(w, "check") \/ AddComplete(w, "timed")

(* A worker between two tasks moves none, and wakes run() at most.         *)
LEMMA RoundFrame ==
    ASSUME PoolInv, NEW w \in Worker, RoundStep(w)
    PROVE  /\ RunFrame /\ UNCHANGED <<call, m_done>> /\ Caller' = Caller
           /\ \A v \in Worker : pc'[v] = "running" <=> pc[v] = "running"
<1> USE DEF PoolInv, RuntimeType, Goto, RunFrame, runtimeVars, callVars, Caller
<1>1. CASE Leave(w) \/ Enter(w)
  <2>1. CASE Leave(w)
    BY <2>1 DEF Leave
  <2>2. CASE Enter(w)
    BY <2>2 DEF Enter
  <2> QED
    BY <1>1, <2>1, <2>2
<1>2. CASE Time(w)
  BY <1>2 DEF Time
<1>3. CASE CheckComplete(w)
  BY <1>3 DEF CheckComplete
<1>4. CASE Notify(w)
  BY <1>4 DEF Notify, Waiting
<1>5. CASE TestEmpty(w, "check")
  BY <1>5 DEF TestEmpty
<1>6. CASE PopNothing(w, "check")
  BY <1>6 DEF PopNothing
<1>7. CASE AddComplete(w, "timed")
  BY <1>7 DEF AddComplete
<1> QED
  BY <1>1, <1>2, <1>3, <1>4, <1>5, <1>6, <1>7 DEF RoundStep

(* The thread in run() goes to sleep or wakes, or the destructor ends.     *)
LEMMA RestFrame ==
    ASSUME PoolInv, RunInv, BeginWait \/ Sleep \/ SpuriousWake \/ Join \/ UNCHANGED vars
    PROVE  RunFrame /\ UNCHANGED <<pc, call, m_done>> /\ Caller' = Caller
BY DEF BeginWait, Sleep, SpuriousWake, Join, MainGoto, vars, poolVars, RunFrame, runtimeVars,
   callVars, Waiting, Caller, RunInv

LEMMA RunSleepingRunStep ==
    ASSUME PoolInv, RunInv, [Next]_vars
    PROVE  RunInv'
<1>1. ASSUME NEW w \in Worker, Step(w)
      PROVE  RunInv'
  BY <1>1, RoundFrame, RunFrameKeeps, RunPopJob, RunReturnTask, RunCallTask
     DEF Step, Work, RoundStep
<1>2. CASE ReturnRun
  BY <1>2, RunReturnRun DEF ReturnRun, RunOver
<1>3. CASE BeginWait \/ Sleep \/ SpuriousWake \/ Join \/ UNCHANGED vars
  BY <1>3, RestFrame, RunFrameKeeps
<1> QED
  BY <1>1, <1>2, <1>3, RunAddJob, RunCallRun, RunDestroy DEF Next, MainStep

(* The queue always holds the last tasks of the launch in order, and the   *)
(* others are each in one worker's hands or have returned.                 *)
THEOREM RunSleepingTasks == SafeSpec => []RunInv
<1>1. Init => RunInv
  BY RunStarts DEF Init
<1>2. PoolInv /\ RunInv /\ [Next]_vars => RunInv'
  BY RunSleepingRunStep
<1> QED
  BY <1>1, <1>2, RunSleepingInvariant, PTL DEF SafeSpec

(* itasksys.h:36-39: run() runs every task once and returns only when all  *)
(* have returned, whatever woke it and whatever notification it missed.    *)
THEOREM RunSleepingImplementsSafely == SafeSpec => ImplementsSafely
<1>1. Init => Contract!Init
  BY PoolInitRefines DEF Init
<1>2. ASSUME PoolInv, RunInv, [Next]_vars
      PROVE  [Contract!Next]_Contract!vars
  <2>1. ASSUME NEW w \in Worker, RoundStep(w)
        PROVE  UNCHANGED Contract!vars
    BY <1>2, <2>1, RoundFrame, RunInvisible DEF RunFrame
  <2>2. ASSUME NEW w \in Worker, Step(w)
        PROVE  [Contract!Next]_Contract!vars
    BY <1>2, <2>1, <2>2, PopJobInvisible, CallTaskRefines, ReturnTaskRefines
       DEF Step, Work, RoundStep, Contract!Next
  <2>3. CASE ReturnRun
    BY <1>2, <2>3, ReturnRunRefines DEF ReturnRun, RunOver, Contract!Next
  <2>4. CASE BeginWait \/ Sleep \/ SpuriousWake \/ Join \/ UNCHANGED vars
    BY <1>2, <2>4, RestFrame, RunInvisible DEF RunFrame
  <2> QED
    BY <1>2, <2>2, <2>3, <2>4, CallRunRefines, AddJobRefines, DestroyRefines
       DEF Next, MainStep, Contract!Next
<1> QED
  BY <1>1, <1>2, RunSleepingInvariant, RunSleepingTasks, PTL
     DEF SafeSpec, ImplementsSafely, Contract!SafeSpec
=============================================================================
