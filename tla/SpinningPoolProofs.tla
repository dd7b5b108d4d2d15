------------------------- MODULE SpinningPoolProofs -------------------------
(***************************************************************************)
(* Theorems about the part A pool whose threads spin.                      *)
(***************************************************************************)
EXTENDS SpinningPool, RunPoolProofs

LEMMA SpinningStep ==
    ASSUME PoolInv, [Next]_vars
    PROVE  PoolInv'
<1>1. ASSUME NEW w \in Worker, Step(w)
      PROVE  PoolInv'
  <2> USE DEF Places, Busy
  <2>1. CASE TestDone(w)
    BY <2>1, Idle DEF TestDone, Goto
  <2>2. CASE TestEmpty(w, "loop")
    BY <2>2, Idle DEF TestEmpty, Goto
  <2>3. CASE PopNothing(w, "loop")
    BY <2>3, Idle DEF PopNothing, Goto
  <2>4. CASE AddComplete(w, "empty")
    BY <2>4, PoolAddComplete
  <2> QED
    BY <1>1, <2>1, <2>2, <2>3, <2>4, PoolPopJob, PoolCallTask, PoolReturnTask DEF Step
<1>2. CASE ReturnRun
  BY <1>2, PoolReturnRun DEF ReturnRun, RunOver
<1>3. CASE Join
  BY <1>3, PoolMainMoves DEF Join, MainGoto, Waiting
<1>4. CASE Destroy
  BY <1>4, PoolMainMoves DEF Destroy, MainGoto, Waiting
<1>5. CASE UNCHANGED vars
  BY <1>5, PoolStutters DEF vars
<1> QED
  BY <1>1, <1>2, <1>3, <1>4, <1>5, PoolAddJob, PoolCallRun DEF Next, MainStep

(* part_a/tasksys.h:56-90: the tasks not counted as complete are in the    *)
(* queue or in a worker's hands, and all belong to the current run().      *)
THEOREM SpinningInvariant == SafeSpec => []PoolInv
<1>1. Init => PoolInv
  BY PoolStarts DEF Init
<1>2. PoolInv /\ [Next]_vars => PoolInv'
  BY SpinningStep
<1> QED
  BY <1>1, <1>2, PTL DEF SafeSpec

(* part_a/tasksys.h:56-64: when a run() resets the Runtime nothing of the  *)
(* last one is left in the queue or in the hands of a worker.              *)
THEOREM SpinningQuiet == SafeSpec => []QuietBetweenRuns
BY SpinningInvariant, PoolProperties, PTL

(* part_a/tasksys.h:66-69: the unlocked reads of m_runnable and            *)
(* m_total_tasks give those of the launch the job was popped for.          *)
THEOREM SpinningOwnLaunch == SafeSpec => []CallsOwnLaunch
BY SpinningInvariant, PoolProperties, PTL

(* part_a/tasksys.h:84-90: the count of completed tasks is what is missing *)
(* from the queue and from the workers' hands.                             *)
THEOREM SpinningCounts == SafeSpec => []CountsAddUp
BY SpinningInvariant, PoolProperties, PTL
-----------------------------------------------------------------------------
(* The same for the tasks themselves: RunInv.                              *)

RoundStep(w) ==
    TestDone(w) \/ TestEmpty(w, "loop") \/ PopNothing(w, "loop") \/ AddComplete(w, "empty")

(* A worker between two tasks moves none.                                  *)
LEMMA RoundFrame ==
    ASSUME PoolInv, NEW w \in Worker, RoundStep(w)
    PROVE  /\ RunFrame /\ UNCHANGED <<call, m_done>> /\ Caller' = Caller
           /\ \A v \in Worker : pc'[v] = "running" <=> pc[v] = "running"
<1> USE DEF PoolInv, RuntimeType, Goto, RunFrame, runtimeVars, callVars, Caller
<1>1. CASE TestDone(w)
  BY <1>1 DEF TestDone
<1>2. CASE TestEmpty(w, "loop")
  BY <1>2 DEF TestEmpty
<1>3. CASE PopNothing(w, "loop")
  BY <1>3 DEF PopNothing
<1>4. CASE AddComplete(w, "empty")
  BY <1>4 DEF AddComplete
<1> QED
  BY <1>1, <1>2, <1>3, <1>4 DEF RoundStep

LEMMA JoinFrame ==
    ASSUME PoolInv, RunInv, Join \/ UNCHANGED vars
    PROVE  RunFrame /\ UNCHANGED <<pc, call, m_done>> /\ Caller' = Caller
BY DEF Join, MainGoto, vars, poolVars, RunFrame, runtimeVars, callVars, Waiting, Caller, RunInv

LEMMA SpinningRunStep ==
    ASSUME PoolInv, RunInv, [Next]_vars
    PROVE  RunInv'
<1>1. ASSUME NEW w \in Worker, Step(w)
      PROVE  RunInv'
  BY <1>1, RoundFrame, RunFrameKeeps, RunPopJob, RunReturnTask, RunCallTask DEF Step, RoundStep
<1>2. CASE ReturnRun
  BY <1>2, RunReturnRun DEF ReturnRun, RunOver
<1>3. CASE Join \/ UNCHANGED vars
  BY <1>3, JoinFrame, RunFrameKeeps
<1> QED
  BY <1>1, <1>2, <1>3, RunAddJob, RunCallRun, RunDestroy DEF Next, MainStep

(* The queue always holds the last tasks of the launch in order, and the   *)
(* others are each in one worker's hands or have returned.                 *)
THEOREM SpinningTasks == SafeSpec => []RunInv
<1>1. Init => RunInv
  BY RunStarts DEF Init
<1>2. PoolInv /\ RunInv /\ [Next]_vars => RunInv'
  BY SpinningRunStep
<1> QED
  BY <1>1, <1>2, SpinningInvariant, PTL DEF SafeSpec

(* itasksys.h:36-39: run() runs every task once and returns only when all  *)
(* have returned, although nothing but a count tells it so.                *)
THEOREM SpinningImplementsSafely == SafeSpec => ImplementsSafely
<1>1. Init => Contract!Init
  BY PoolInitRefines DEF Init
<1>2. ASSUME PoolInv, RunInv, [Next]_vars
      PROVE  [Contract!Next]_Contract!vars
  <2>1. ASSUME NEW w \in Worker, RoundStep(w)
        PROVE  UNCHANGED Contract!vars
    BY <1>2, <2>1, RoundFrame, RunInvisible DEF RunFrame
  <2>2. ASSUME NEW w \in Worker, Step(w)
        PROVE  [Contract!Next]_Contract!vars
    BY <1>2, <2>1, <2>2, PopJobInvisible, CallTaskRefines, ReturnTaskRefines
       DEF Step, RoundStep, Contract!Next
  <2>3. CASE ReturnRun
    BY <1>2, <2>3, ReturnRunRefines DEF ReturnRun, RunOver, Contract!Next
  <2>4. CASE Join \/ UNCHANGED vars
    BY <1>2, <2>4, JoinFrame, RunInvisible DEF RunFrame
  <2> QED
    BY <1>2, <2>2, <2>3, <2>4, CallRunRefines, AddJobRefines, DestroyRefines
       DEF Next, MainStep, Contract!Next
<1> QED
  BY <1>1, <1>2, SpinningInvariant, SpinningTasks, PTL
     DEF SafeSpec, ImplementsSafely, Contract!SafeSpec
-----------------------------------------------------------------------------

LEMMA SpinningTypeStep ==
    ASSUME PoolInv, RunInv, TypeOK, [Next]_vars
    PROVE  TypeOK'
<1> USE DEF TypeOK, Goto, MainGoto, runtimeVars, callVars
<1>1. ASSUME NEW w \in Worker, Step(w)
      PROVE  TypeOK'
  <2>1. CASE TestDone(w) \/ TestEmpty(w, "loop") \/ PopNothing(w, "loop")
    BY <2>1 DEF TestDone, TestEmpty, PopNothing
  <2>2. CASE PopJob(w)
    <3>1. Head(m_jobs) \in Nat /\ Tail(m_jobs) \in Seq(Nat)
      BY <2>2 DEF PopJob
    <3> QED
      BY <2>2, <3>1 DEF PopJob
  <2>3. CASE CallTask(w)
    <3>1. [run |-> m_runnable, task_id |-> job[w], total |-> m_total_tasks]
             \in [run : 0 .. MaxRuns, task_id : Nat, total : Nat]
      BY TaskCountsAssumption
    <3> QED
      BY <2>3, <3>1 DEF CallTask
  <2>4. CASE ReturnTask(w)
    <3>1. <<call[w].run, call[w].task_id>> \in RunId \X Nat
      BY <2>4, OwnTask DEF ReturnTask
    <3>2. NoCall \in [run : 0 .. MaxRuns, task_id : Nat, total : Nat]
      BY MaxRunsAssumption DEF NoCall
    <3> QED
      BY <2>4, <3>1, <3>2 DEF ReturnTask
  <2>5. CASE AddComplete(w, "empty")
    BY <2>5 DEF AddComplete, Increment
  <2> QED
    BY <1>1, <2>1, <2>2, <2>3, <2>4, <2>5 DEF Step
<1>2. CASE ReturnRun \/ Join \/ Destroy
  BY <1>2 DEF ReturnRun, Join, Destroy
<1>3. CASE AddJob
  <2>1. runs \in RunId /\ num_total_tasks[runs] \in TaskCounts \cup {0}
    BY <1>3 DEF PoolInv, AddJob
  <2>2. m_jobs' \in Seq(Nat)
    BY <1>3, PoolAddJob DEF PoolInv, RuntimeType
  <2> QED
    BY <1>3, <2>1, <2>2 DEF AddJob, CountReset, RunId
<1>4. ASSUME NEW n \in TaskCounts, CallRun(n)
      PROVE  TypeOK'
  BY <1>4, MaxRunsAssumption DEF CallRun, RunId
<1>5. CASE UNCHANGED vars
  BY <1>5 DEF vars, poolVars
<1> QED
  BY <1>1, <1>2, <1>3, <1>4, <1>5 DEF Next, MainStep

(* part_a/tasksys.h: the Runtime always holds a count, a number of tasks   *)
(* and a run() that was given it.                                          *)
THEOREM SpinningTypes == SafeSpec => []TypeOK
<1>1. Init => TypeOK
  <2> SUFFICES ASSUME Init PROVE TypeOK
    OBVIOUS
  <2>1. 0 \in 0 .. MaxRuns
    BY MaxRunsAssumption
  <2>2. NoCall \in [run : 0 .. MaxRuns, task_id : Nat, total : Nat]
    BY <2>1 DEF NoCall
  <2>3. m_jobs \in Seq(Nat) /\ m_complete_tasks \in Nat
    BY DEF Init, PoolInit
  <2>4. call \in [Worker -> [run : 0 .. MaxRuns, task_id : Nat, total : Nat]]
    BY <2>2 DEF Init, PoolInit
  <2>5. num_total_tasks \in [RunId -> TaskCounts \cup {0}] /\ finished \subseteq RunId \X Nat
    BY DEF Init, PoolInit
  <2>6. pc \in [Worker -> {"loop", "empty", "pop", "call", "running", "complete", "exited"}]
        /\ job \in [Worker -> Nat]
    BY DEF Init, PoolInit
  <2> QED
    BY <2>1, <2>3, <2>4, <2>5, <2>6 DEF Init, PoolInit, TypeOK
<1>2. PoolInv /\ RunInv /\ TypeOK /\ [Next]_vars => TypeOK'
  BY SpinningTypeStep
<1> QED
  BY <1>1, <1>2, SpinningInvariant, SpinningTasks, PTL DEF SafeSpec
=============================================================================
