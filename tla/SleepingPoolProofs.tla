------------------------- MODULE SleepingPoolProofs -------------------------
EXTENDS SleepingPool, FiniteSetTheorems, SequenceTheorems, WellFoundedInduction, TLAPS

LEMMA RemoveAtProperties ==
    ASSUME NEW S, NEW s \in Seq(S), NEW k \in 1 .. Len(s)
    PROVE  /\ RemoveAt(s, k) \in Seq(S)
           /\ Len(RemoveAt(s, k)) = Len(s) - 1
           /\ \A i \in 1 .. Len(s) - 1 :
                 RemoveAt(s, k)[i] = IF i < k THEN s[i] ELSE s[i + 1]
<1> DEFINE a == SubSeq(s, 1, k - 1)
           b == SubSeq(s, k + 1, Len(s))
<1>1. a \in Seq(S) /\ Len(a) = k - 1 /\ \A i \in 1 .. k - 1 : a[i] = s[i]
  BY SubSeqProperties
<1>2. b \in Seq(S) /\ Len(b) = Len(s) - k /\ \A i \in 1 .. Len(s) - k : b[i] = s[k + i]
  BY SubSeqProperties
<1>3. RemoveAt(s, k) = a \o b
  BY DEF RemoveAt
<1> HIDE DEF a, b
<1>4. /\ a \o b \in Seq(S) /\ Len(a \o b) = Len(a) + Len(b)
      /\ \A i \in 1 .. Len(a) + Len(b) :
            (a \o b)[i] = IF i <= Len(a) THEN a[i] ELSE b[i - Len(a)]
  BY <1>1, <1>2, ConcatProperties
<1> QED
  BY <1>1, <1>2, <1>3, <1>4

-----------------------------------------------------------------------------
(* Most steps leave the launches, the queue and the tasks in flight alone; *)
(* the other ones are those that the counting arguments are about.         *)

Quiet == UNCHANGED <<launchVars, queueVars, job>> /\ InFlight' = InFlight

LEMMA StepCases ==
    ASSUME TypeOK, [Next]_vars
    PROVE  \/ Quiet
           \/ \E w \in Worker : ClaimTask(w) \/ CompleteTask(w) \/ CompleteLaunch(w)
           \/ \E n \in TaskCounts, D \in SUBSET Launched : AddLaunch(n, D)
<1> USE DEF Quiet, InFlight, TypeOK
<1>1. CASE UNCHANGED vars
  BY <1>1 DEF vars, queueVars
<1>2. CASE \E w \in Worker : LockQueue(w) \/ Relock(w) \/ Step(w) \/ SpuriousWake(w)
  <2> PICK w \in Worker : LockQueue(w) \/ Relock(w) \/ Step(w) \/ SpuriousWake(w)
    BY <1>2
  <2>1. CASE BeginWait(w) \/ FindNothing(w) \/ Step(w) \/ SpuriousWake(w)
    BY <2>1 DEF BeginWait, FindNothing, Step, TestLoop, Sleep, RunTask, ReadEmpty,
                NotifySync, SpuriousWake, Goto
  <2> QED
    BY <2>1 DEF LockQueue, Relock
<1>3. CASE SyncLock \/ MainStep \/ SyncSpuriousWake
  BY <1>3 DEF SyncLock, SyncReturn, SyncBeginWait, SyncOver, MainStep, NotifyWorkers, SyncSleep,
              DestroyNotify, Join, SyncSpuriousWake, AfterWake
<1>4. CASE Call
  BY <1>4 DEF Call, RunAsyncWithDeps, Run, Sync, Destroy
<1> QED
  BY <1>1, <1>2, <1>3, <1>4 DEF Next

-----------------------------------------------------------------------------
(* Finite sets, and what is known of a task in flight.                     *)

LEMMA FiniteSubsets ==
    ASSUME NEW S \in SUBSET LaunchId
    PROVE  IsFiniteSet(S) /\ Cardinality(S) \in Nat
<1>1. IsFiniteSet(LaunchId)
  BY MaxLaunchesAssumption, FS_Interval DEF LaunchId
<1> QED
  BY <1>1, FS_Subset, FS_CardinalityType

LEMMA FiniteInFlight ==
    ASSUME NEW l
    PROVE  IsFiniteSet(InFlightOf(l)) /\ Cardinality(InFlightOf(l)) \in Nat
<1>1. InFlightOf(l) \subseteq Worker
  BY DEF InFlightOf, InFlight
<1> QED
  BY <1>1, WorkerAssumption, FS_Subset, FS_CardinalityType

LEMMA LaunchedType == TypeOK => Launched \in SUBSET LaunchId
BY MaxLaunchesAssumption DEF TypeOK, Launched, LaunchId

LEMMA LaunchTypes ==
    ASSUME TypeOK, NEW l \in LaunchId
    PROVE  /\ total_tasks[l] \in Nat /\ curr_task_id[l] \in Nat
           /\ num_completed_tasks[l] \in Nat /\ num_depends[l] \in Nat
           /\ successors[l] \in SUBSET LaunchId /\ deps[l] \in SUBSET LaunchId
<1>1. total_tasks[l] \in TaskCounts \cup {0}
  BY DEF TypeOK
<1>2. total_tasks[l] \in Nat
  <2>1. CASE total_tasks[l] \in TaskCounts
    BY <2>1, TaskCountsAssumption
  <2>2. CASE total_tasks[l] \in {0}
    BY <2>2
  <2> QED
    BY <1>1, <2>1, <2>2
<1>3. /\ curr_task_id[l] \in Nat
      /\ num_completed_tasks[l] \in Nat /\ num_depends[l] \in Nat
  BY DEF TypeOK
<1>4. successors[l] \in SUBSET LaunchId /\ deps[l] \in SUBSET LaunchId
  BY DEF TypeOK
<1> QED
  BY <1>2, <1>3, <1>4

(* The launch of a task in flight is executable: not complete, and one of  *)
(* those the queue still has an element for.                               *)
LEMMA InFlightExecutable ==
    ASSUME TypeOK, CountsOK, QueueOK, NEW w \in InFlight
    PROVE  /\ job[w].task \in LaunchId
           /\ job[w].task \in Executable
           /\ num_completed_tasks[job[w].task] < total_tasks[job[w].task]
           /\ Len(ready_queue) >= 1
<1> DEFINE l == job[w].task
<1>1. l \in Launched /\ l \in LaunchId /\ num_depends[l] = 0
  BY LaunchedType DEF QueueOK
<1>2. Cardinality(InFlightOf(l)) >= 1
  <2>1. w \in InFlightOf(l)
    BY DEF InFlightOf
  <2>2. Cardinality(InFlightOf(l)) # 0
    BY <2>1, FiniteInFlight, FS_EmptySet
  <2> QED
    BY <2>2, FiniteInFlight
<1>3. num_completed_tasks[l] < total_tasks[l]
  <2>1. Cardinality(InFlightOf(l)) + num_completed_tasks[l] = curr_task_id[l]
        /\ curr_task_id[l] <= total_tasks[l]
    BY <1>1 DEF CountsOK
  <2> QED
    BY <1>1, <1>2, <2>1, FiniteInFlight, LaunchTypes
<1>4. l \in Executable
  BY <1>1, <1>3, LaunchTypes DEF CountsOK, AllTasksDone, Executable
<1>5. Len(ready_queue) >= 1
  <2>1. Executable \in SUBSET LaunchId
    BY LaunchedType DEF Executable
  <2>2. Cardinality(Executable) # 0
    BY <1>4, <2>1, FiniteSubsets, FS_EmptySet
  <2> QED
    BY <2>1, <2>2, FiniteSubsets DEF QueueOK
<1> QED
  BY <1>1, <1>3, <1>4, <1>5

(* erase takes one element away and keeps the others, wherever it points.  *)
LEMMA EraseKeepsElements ==
    ASSUME TypeOK, Len(ready_queue) >= 1, NEW slot \in Int
    PROVE  /\ EraseAt(slot) \in Seq(LaunchId)
           /\ Len(EraseAt(slot)) = Len(ready_queue) - 1
           /\ \A i \in 1 .. Len(EraseAt(slot)) :
                 \E j \in 1 .. Len(ready_queue) : EraseAt(slot)[i] = ready_queue[j]
<1>1. ready_queue \in Seq(LaunchId) /\ Len(ready_queue) \in Nat /\ queue_start \in Nat
  BY DEF TypeOK
<1>2. ErasedIndex(slot) \in 1 .. Len(ready_queue)
  BY <1>1 DEF ErasedIndex
<1> DEFINE k == ErasedIndex(slot)
<1>3. /\ EraseAt(slot) \in Seq(LaunchId)
      /\ Len(EraseAt(slot)) = Len(ready_queue) - 1
      /\ \A i \in 1 .. Len(ready_queue) - 1 :
            EraseAt(slot)[i] = IF i < k THEN ready_queue[i] ELSE ready_queue[i + 1]
  BY <1>1, <1>2, RemoveAtProperties DEF EraseAt
<1>4. ASSUME NEW i \in 1 .. Len(ready_queue) - 1
      PROVE  \E j \in 1 .. Len(ready_queue) : EraseAt(slot)[i] = ready_queue[j]
  BY <1>1, <1>3, <1>4
<1> QED
  BY <1>3, <1>4

-----------------------------------------------------------------------------
(* Each part of the inductive invariant is kept by every step.             *)

LEMMA LaunchesStep ==
    ASSUME IInv, [Next]_vars
    PROVE  LaunchesOK'
<1> USE DEF IInv
<1>1. CASE Quiet
  BY <1>1 DEF Quiet, launchVars, LaunchesOK, Launched
<1>2. ASSUME NEW w \in Worker, ClaimTask(w) \/ CompleteTask(w)
      PROVE  LaunchesOK'
  BY <1>2 DEF ClaimTask, CompleteTask, LaunchesOK, Launched
<1>3. ASSUME NEW w \in Worker, CompleteLaunch(w)
      PROVE  LaunchesOK'
  <2>1. w \in InFlight
    BY <1>3 DEF CompleteLaunch, Goto, InFlight
  <2>2. job[w].task \in Launched
    BY <2>1, InFlightExecutable DEF Executable
  <2> QED
    BY <1>3, <2>2 DEF CompleteLaunch, LaunchesOK, Launched
<1>4. ASSUME NEW n \in TaskCounts, NEW D \in SUBSET Launched, AddLaunch(n, D)
      PROVE  LaunchesOK'
  <2> DEFINE new == next_launch_id
  <2>1. new \in LaunchId /\ next_launch_id' = new + 1 /\ new \in Nat
    BY <1>4, MaxLaunchesAssumption DEF AddLaunch, LaunchId, TypeOK
  <2>2. Launched' = Launched \cup {new}
    BY <2>1 DEF Launched
  <2>3. completed_launch_ids' \subseteq Launched'
    BY <1>4, <2>2 DEF AddLaunch, LaunchesOK
  <2>4. ASSUME NEW l \in LaunchId
        PROVE  /\ deps'[l] \subseteq 0 .. l - 1
               /\ l \notin Launched' => total_tasks'[l] = 0 /\ deps'[l] = {}
    <3>1. CASE l = new
      <4>1. deps'[l] = D
        BY <1>4, <2>1, <3>1 DEF AddLaunch, TypeOK
      <4> QED
        BY <2>2, <3>1, <4>1 DEF Launched
    <3>2. CASE l # new
      <4>1. deps'[l] = deps[l] /\ total_tasks'[l] = total_tasks[l]
        BY <1>4, <2>1, <3>2 DEF AddLaunch, TypeOK
      <4> QED
        BY <2>2, <3>2, <4>1 DEF LaunchesOK
    <3> QED
      BY <3>1, <3>2
  <2> QED
    BY <2>3, <2>4 DEF LaunchesOK
<1> QED
  BY <1>1, <1>2, <1>3, <1>4, StepCases

LEMMA CountsStep ==
    ASSUME IInv, [Next]_vars
    PROVE  CountsOK'
<1> USE DEF IInv
<1>1. CASE Quiet
  BY <1>1 DEF Quiet, launchVars, CountsOK, InFlightOf, AllTasksDone
<1>2. ASSUME NEW w \in Worker, ClaimTask(w)
      PROVE  CountsOK'
  <2>1. PICK i \in 1 .. Len(ready_queue) :
           /\ Claimable(ready_queue[i])
           /\ job' = [job EXCEPT ![w] = [task |-> ready_queue[i],
                                         cur_task_id |-> curr_task_id[ready_queue[i]],
                                         task_iter |-> queue_start + i - 1]]
           /\ curr_task_id' = [curr_task_id EXCEPT ![ready_queue[i]] = @ + 1]
    BY <1>2 DEF ClaimTask
  <2> DEFINE c == ready_queue[i]
  <2>2. c \in LaunchId
    BY <2>1 DEF TypeOK
  <2>3. pc[w] = "lock" /\ pc' = [pc EXCEPT ![w] = "running"]
        /\ UNCHANGED <<total_tasks, num_completed_tasks, completed_launch_ids>>
    BY <1>2 DEF ClaimTask, Goto
  <2>4. InFlight' = InFlight \cup {w} /\ w \notin InFlight
    BY <2>3 DEF InFlight, TypeOK
  <2> HIDE DEF c
  <2>5. ASSUME NEW l \in LaunchId
        PROVE  /\ Cardinality(InFlightOf(l)') + num_completed_tasks'[l] = curr_task_id'[l]
               /\ curr_task_id'[l] <= total_tasks'[l]
               /\ l \in completed_launch_ids' => AllTasksDone(l)'
    <3> USE LaunchTypes, FiniteInFlight
    <3>1. CASE l = c
      <4>1. InFlightOf(l)' = InFlightOf(l) \cup {w} /\ w \notin InFlightOf(l)
        BY <2>1, <2>4, <3>1 DEF InFlightOf, TypeOK, c, InFlight
      <4>2. Cardinality(InFlightOf(l)') = Cardinality(InFlightOf(l)) + 1
        BY <4>1, FS_AddElement
      <4>3. curr_task_id'[l] = curr_task_id[l] + 1 /\ curr_task_id[l] < total_tasks[l]
        BY <2>1, <2>2, <3>1 DEF TypeOK, c, Claimable
      <4>4. num_completed_tasks'[l] = num_completed_tasks[l] /\ total_tasks'[l] = total_tasks[l]
        BY <2>3
      <4>5. /\ Cardinality(InFlightOf(l)) + num_completed_tasks[l] = curr_task_id[l]
            /\ l \in completed_launch_ids => AllTasksDone(l)
        BY DEF CountsOK
      <4>6. l \notin completed_launch_ids
        BY <4>3, <4>5 DEF AllTasksDone, TypeOK
      <4>7. curr_task_id'[l] <= total_tasks'[l]
        BY <4>3, <4>4
      <4>8. Cardinality(InFlightOf(l)') + num_completed_tasks'[l] = curr_task_id'[l]
        BY <4>2, <4>3, <4>4, <4>5
      <4>9. l \notin completed_launch_ids'
        BY <2>3, <4>6
      <4> QED
        BY <4>7, <4>8, <4>9
    <3>2. CASE l # c
      <4>1. InFlightOf(l)' = InFlightOf(l)
        BY <2>1, <2>4, <3>2 DEF InFlightOf, TypeOK, c, InFlight
      <4>2. curr_task_id'[l] = curr_task_id[l]
        BY <2>1, <2>2, <3>2 DEF TypeOK, c
      <4> QED
        BY <2>3, <4>1, <4>2 DEF CountsOK, AllTasksDone
    <3> QED
      BY <3>1, <3>2
  <2> QED
    BY <2>5 DEF CountsOK
<1>3. ASSUME NEW w \in Worker, CompleteTask(w) \/ CompleteLaunch(w)
      PROVE  CountsOK'
  <2> DEFINE c == job[w].task
  <2>1. /\ pc[w] = "relock" /\ pc' = [pc EXCEPT ![w] = "unlocked"]
        /\ job' = [job EXCEPT ![w] = NoJob]
        /\ num_completed_tasks' = [num_completed_tasks EXCEPT ![c] = @ + 1]
        /\ UNCHANGED <<total_tasks, curr_task_id>>
    BY <1>3 DEF CompleteTask, CompleteLaunch, Goto
  <2>2. \/ completed_launch_ids' = completed_launch_ids
        \/ /\ completed_launch_ids' = completed_launch_ids \cup {c}
           /\ num_completed_tasks[c] + 1 = total_tasks[c]
    BY <1>3 DEF CompleteTask, CompleteLaunch, LastTask
  <2>3. InFlight' = InFlight \ {w} /\ w \in InFlight
    BY <2>1 DEF InFlight, TypeOK
  <2>4. c \in LaunchId /\ c \notin completed_launch_ids
    BY <2>3, InFlightExecutable DEF Executable
  <2> HIDE DEF c
  <2>5. ASSUME NEW l \in LaunchId
        PROVE  /\ Cardinality(InFlightOf(l)') + num_completed_tasks'[l] = curr_task_id'[l]
               /\ curr_task_id'[l] <= total_tasks'[l]
               /\ l \in completed_launch_ids' => AllTasksDone(l)'
    <3> USE LaunchTypes, FiniteInFlight
    <3>1. CASE l = c
      <4>1. InFlightOf(l)' = InFlightOf(l) \ {w} /\ w \in InFlightOf(l)
        BY <2>1, <2>3, <3>1 DEF InFlightOf, TypeOK, c, InFlight
      <4>2. Cardinality(InFlightOf(l)') = Cardinality(InFlightOf(l)) - 1
        BY <4>1, FS_RemoveElement
      <4>3. num_completed_tasks'[l] = num_completed_tasks[l] + 1
        BY <2>1, <2>4, <3>1 DEF TypeOK
      <4> QED
        BY <2>1, <2>2, <2>4, <3>1, <4>2, <4>3 DEF CountsOK, AllTasksDone
    <3>2. CASE l # c
      <4>1. InFlightOf(l)' = InFlightOf(l)
        BY <2>1, <2>3, <3>2 DEF InFlightOf, TypeOK, c, InFlight
      <4>2. num_completed_tasks'[l] = num_completed_tasks[l]
        BY <2>1, <2>4, <3>2 DEF TypeOK
      <4> QED
        BY <2>1, <2>2, <3>2, <4>1, <4>2 DEF CountsOK, AllTasksDone
    <3> QED
      BY <3>1, <3>2
  <2> QED
    BY <2>5 DEF CountsOK
<1>4. ASSUME NEW n \in TaskCounts, NEW D \in SUBSET Launched, AddLaunch(n, D)
      PROVE  CountsOK'
  <2> DEFINE new == next_launch_id
  <2>1. /\ new \in LaunchId /\ total_tasks' = [total_tasks EXCEPT ![new] = n]
        /\ UNCHANGED <<curr_task_id, num_completed_tasks, completed_launch_ids, pc, job>>
    BY <1>4, MaxLaunchesAssumption DEF AddLaunch, LaunchId, TypeOK
  <2>2. total_tasks[new] = 0 /\ new \notin completed_launch_ids
    BY <2>1 DEF LaunchesOK, Launched, TypeOK
  <2>3. curr_task_id[new] <= 0
    BY <2>1, <2>2 DEF CountsOK
  <2>4. n \in Nat
    BY TaskCountsAssumption
  <2>5. ASSUME NEW l \in LaunchId
        PROVE  /\ InFlightOf(l)' = InFlightOf(l)
               /\ curr_task_id[l] <= total_tasks'[l]
               /\ l \in completed_launch_ids => total_tasks'[l] = total_tasks[l]
    <3>1. InFlightOf(l)' = InFlightOf(l)
      BY <2>1 DEF InFlightOf, InFlight
    <3>2. CASE l = new
      <4>1. total_tasks'[l] = n
        BY <2>1, <3>2 DEF TypeOK
      <4> QED
        BY <2>2, <2>3, <2>4, <3>1, <3>2, <4>1, LaunchTypes
    <3>3. CASE l # new
      <4>1. total_tasks'[l] = total_tasks[l]
        BY <2>1, <3>3 DEF TypeOK
      <4> QED
        BY <3>1, <4>1 DEF CountsOK
    <3> QED
      BY <3>2, <3>3
  <2> QED
    BY <2>1, <2>5 DEF CountsOK, AllTasksDone
<1> QED
  BY <1>1, <1>2, <1>3, <1>4, StepCases

LEMMA DependsStep ==
    ASSUME IInv, [Next]_vars
    PROVE  DependsOK'
<1> USE DEF IInv
<1>1. CASE Quiet
  BY <1>1 DEF Quiet, launchVars, DependsOK
<1>2. ASSUME NEW w \in Worker, ClaimTask(w) \/ CompleteTask(w)
      PROVE  DependsOK'
  BY <1>2 DEF ClaimTask, CompleteTask, DependsOK
<1>3. ASSUME NEW w \in Worker, CompleteLaunch(w)
      PROVE  DependsOK'
  <2> DEFINE c == job[w].task
  <2>1. w \in InFlight
    BY <1>3 DEF CompleteLaunch, Goto, InFlight
  <2>2. c \in LaunchId /\ c \notin completed_launch_ids
    BY <2>1, InFlightExecutable DEF Executable
  <2>3. /\ completed_launch_ids' = completed_launch_ids \cup {c}
        /\ num_depends' = [s \in LaunchId |-> IF s \in successors[c]
                                               THEN num_depends[s] - 1 ELSE num_depends[s]]
        /\ UNCHANGED <<successors, deps>>
    BY <1>3 DEF CompleteLaunch, DependsAfter
  <2> HIDE DEF c
  <2>4. successors[c] = {l \in LaunchId : c \in deps[l]}
    BY <2>2 DEF DependsOK
  <2>5. ASSUME NEW l \in LaunchId
        PROVE  num_depends'[l] = Cardinality(deps'[l] \ completed_launch_ids')
    <3> DEFINE missing == deps[l] \ completed_launch_ids
    <3>1. deps'[l] \ completed_launch_ids' = missing \ {c}
      BY <2>3
    <3>2. missing \in SUBSET LaunchId /\ num_depends[l] = Cardinality(missing)
      BY LaunchTypes DEF DependsOK
    <3>3. CASE c \in deps[l]
      <4>1. Cardinality(missing \ {c}) = Cardinality(missing) - 1
        BY <2>2, <3>2, <3>3, FiniteSubsets, FS_RemoveElement
      <4> QED
        BY <2>3, <2>4, <3>1, <3>2, <3>3, <4>1
    <3>4. CASE c \notin deps[l]
      <4>1. missing \ {c} = missing
        BY <3>4
      <4> QED
        BY <2>3, <2>4, <3>1, <3>2, <3>4, <4>1
    <3> QED
      BY <3>3, <3>4
  <2>6. ASSUME NEW d \in LaunchId \ completed_launch_ids'
        PROVE  successors'[d] = {l \in LaunchId : d \in deps'[l]}
    BY <2>3 DEF DependsOK
  <2> QED
    BY <2>5, <2>6 DEF DependsOK
<1>4. ASSUME NEW n \in TaskCounts, NEW D \in SUBSET Launched, AddLaunch(n, D)
      PROVE  DependsOK'
  <2> DEFINE new == next_launch_id
             pending == MissingDeps(D)
  <2>1. /\ new \in LaunchId
        /\ deps' = [deps EXCEPT ![new] = D]
        /\ num_depends' = [num_depends EXCEPT ![new] = Cardinality(pending)]
        /\ successors' = [d \in LaunchId |-> IF d \in pending
                                              THEN successors[d] \cup {new}
                                              ELSE successors[d]]
        /\ UNCHANGED completed_launch_ids
    BY <1>4, MaxLaunchesAssumption DEF AddLaunch, LaunchId, TypeOK
  <2>2. deps[new] = {}
    BY <2>1 DEF LaunchesOK, Launched, TypeOK
  <2>3. ASSUME NEW l \in LaunchId
        PROVE  num_depends'[l] = Cardinality(deps'[l] \ completed_launch_ids')
    <3>1. CASE l = new
      BY <2>1, <3>1 DEF TypeOK, MissingDeps
    <3>2. CASE l # new
      BY <2>1, <3>2 DEF TypeOK, DependsOK
    <3> QED
      BY <3>1, <3>2
  <2>4. ASSUME NEW d \in LaunchId \ completed_launch_ids'
        PROVE  successors'[d] = {l \in LaunchId : d \in deps'[l]}
    <3>1. successors[d] = {l \in LaunchId : d \in deps[l]}
      BY <2>1, <2>4 DEF DependsOK
    <3>2. ASSUME NEW l \in LaunchId
          PROVE  d \in deps'[l] <=> d \in deps[l] \/ (l = new /\ d \in D)
      BY <2>1, <2>2 DEF TypeOK
    <3> QED
      BY <2>1, <2>4, <3>1, <3>2 DEF MissingDeps
  <2> QED
    BY <2>3, <2>4 DEF DependsOK
<1> QED
  BY <1>1, <1>2, <1>3, <1>4, StepCases

(* What a launch that needs nothing more loses when c completes: nothing.  *)
LEMMA ReadyStaysReady ==
    ASSUME TypeOK, DependsOK, NEW c \in LaunchId \ completed_launch_ids,
           NEW l \in LaunchId, num_depends[l] = 0
    PROVE  l \notin successors[c]
<1> DEFINE missing == deps[l] \ completed_launch_ids
<1>1. missing \in SUBSET LaunchId /\ Cardinality(missing) = 0
  BY LaunchTypes DEF DependsOK
<1>2. missing = {}
  BY <1>1, FiniteSubsets, FS_EmptySet
<1> QED
  BY <1>2 DEF DependsOK

LEMMA QueueStep ==
    ASSUME IInv, [Next]_vars
    PROVE  QueueOK'
<1> USE DEF IInv
<1>1. CASE Quiet
  BY <1>1 DEF Quiet, launchVars, queueVars, QueueOK, Executable, Launched
<1>2. ASSUME NEW w \in Worker, ClaimTask(w)
      PROVE  QueueOK'
  <2>1. PICK i \in 1 .. Len(ready_queue) :
           job' = [job EXCEPT ![w] = [task |-> ready_queue[i],
                                      cur_task_id |-> curr_task_id[ready_queue[i]],
                                      task_iter |-> queue_start + i - 1]]
    BY <1>2 DEF ClaimTask
  <2>2. /\ pc' = [pc EXCEPT ![w] = "running"]
        /\ UNCHANGED <<next_launch_id, ready_queue, num_depends, completed_launch_ids>>
    BY <1>2 DEF ClaimTask, Goto, queueVars
  <2>3. ASSUME NEW v \in InFlight'
        PROVE  job'[v].task \in Launched /\ num_depends[job'[v].task] = 0
    <3>1. CASE v = w
      <4>1. job'[v].task = ready_queue[i]
        BY <2>1, <3>1 DEF TypeOK
      <4> QED
        BY <4>1 DEF QueueOK
    <3>2. CASE v # w
      <4>1. job'[v] = job[v] /\ v \in InFlight
        BY <2>1, <2>2, <2>3, <3>2 DEF TypeOK, InFlight
      <4> QED
        BY <4>1 DEF QueueOK
    <3> QED
      BY <3>1, <3>2
  <2> QED
    BY <2>2, <2>3 DEF QueueOK, Executable, Launched
<1>3. ASSUME NEW w \in Worker, CompleteTask(w)
      PROVE  QueueOK'
  <2>1. /\ pc' = [pc EXCEPT ![w] = "unlocked"]
        /\ job' = [job EXCEPT ![w] = NoJob]
        /\ UNCHANGED <<next_launch_id, ready_queue, num_depends, completed_launch_ids>>
    BY <1>3 DEF CompleteTask, Goto, queueVars
  <2>2. ASSUME NEW v \in InFlight'
        PROVE  v \in InFlight /\ job'[v] = job[v]
    BY <2>1 DEF InFlight, TypeOK
  <2> QED
    BY <2>1, <2>2 DEF QueueOK, Executable, Launched
<1>4. ASSUME NEW w \in Worker, CompleteLaunch(w)
      PROVE  QueueOK'
  <2> DEFINE c == job[w].task
             erased == EraseAt(job[w].task_iter)
  <2>1. w \in InFlight /\ job[w].task_iter \in Int
    BY <1>4 DEF CompleteLaunch, Goto, InFlight, TypeOK
  <2>2. c \in LaunchId /\ c \in Executable /\ Len(ready_queue) >= 1
    BY <2>1, InFlightExecutable
  <2>3. PICK unlocked \in [1 .. Cardinality(Unlocked(c)) -> Unlocked(c)] :
           ready_queue' = erased \o unlocked
    BY <1>4 DEF CompleteLaunch
  <2>4. /\ pc' = [pc EXCEPT ![w] = "unlocked"]
        /\ job' = [job EXCEPT ![w] = NoJob]
        /\ completed_launch_ids' = completed_launch_ids \cup {c}
        /\ num_depends' = [s \in LaunchId |-> IF s \in successors[c]
                                               THEN num_depends[s] - 1 ELSE num_depends[s]]
        /\ UNCHANGED next_launch_id
    BY <1>4 DEF CompleteLaunch, Goto, DependsAfter
  <2>5. /\ erased \in Seq(LaunchId)
        /\ Len(erased) = Len(ready_queue) - 1
        /\ \A i \in 1 .. Len(erased) :
              \E j \in 1 .. Len(ready_queue) : erased[i] = ready_queue[j]
    BY <2>1, <2>2, EraseKeepsElements
  <2> HIDE DEF c, erased
  <2>6. c \in LaunchId \ completed_launch_ids
    BY <2>2 DEF Executable
  <2>7. ASSUME NEW l \in Launched, num_depends[l] = 0
        PROVE  num_depends'[l] = 0 /\ l \notin successors[c]
    BY <2>4, <2>6, <2>7, ReadyStaysReady, LaunchedType
  <2>8. ASSUME NEW l \in Unlocked(c)
        PROVE  l \in Launched /\ num_depends'[l] = 0 /\ num_depends[l] = 1
    <3>1. l \in successors[c] /\ num_depends[l] = 1 /\ l \in LaunchId
      BY <2>6, LaunchTypes DEF Unlocked
    <3>2. l \in Launched
      BY <2>6, <3>1 DEF DependsOK, LaunchesOK
    <3> QED
      BY <2>4, <3>1, <3>2
  <2>9. Unlocked(c) \in SUBSET LaunchId /\ Cardinality(Unlocked(c)) \in Nat
    BY <2>6, LaunchTypes, FiniteSubsets DEF Unlocked
  <2>10. unlocked \in Seq(LaunchId) /\ Len(unlocked) = Cardinality(Unlocked(c))
    BY <2>9
  <2>11. /\ Len(ready_queue') = Len(erased) + Len(unlocked)
         /\ \A i \in 1 .. Len(ready_queue') :
               ready_queue'[i] = IF i <= Len(erased) THEN erased[i]
                                 ELSE unlocked[i - Len(erased)]
    <3>1. /\ Len(erased \o unlocked) = Len(erased) + Len(unlocked)
          /\ \A i \in 1 .. Len(erased) + Len(unlocked) : (erased \o unlocked)[i] =
                IF i <= Len(erased) THEN erased[i] ELSE unlocked[i - Len(erased)]
      BY <2>5, <2>10, ConcatProperties
    <3> QED
      BY <2>3, <3>1
  <2>12. ASSUME NEW i \in 1 .. Len(ready_queue')
         PROVE  ready_queue'[i] \in Launched /\ num_depends'[ready_queue'[i]] = 0
    <3>1. CASE i <= Len(erased)
      <4>1. PICK j \in 1 .. Len(ready_queue) : ready_queue'[i] = ready_queue[j]
        <5>1. i \in 1 .. Len(erased)
          BY <2>5, <3>1
        <5>2. ready_queue'[i] = erased[i]
          BY <2>11, <3>1
        <5> QED
          BY <2>5, <5>1, <5>2
      <4> QED
        BY <2>7, <4>1 DEF QueueOK
    <3>2. CASE ~(i <= Len(erased))
      <4>1. i - Len(erased) \in 1 .. Len(unlocked)
        BY <2>5, <2>10, <2>11, <3>2
      <4>2. ready_queue'[i] \in Unlocked(c)
        BY <2>3, <2>10, <2>11, <3>2, <4>1
      <4> QED
        BY <2>8, <4>2
    <3> QED
      BY <3>1, <3>2
  <2>13. ASSUME NEW v \in InFlight'
         PROVE  job'[v].task \in Launched /\ num_depends'[job'[v].task] = 0
    <3>1. v \in InFlight /\ job'[v] = job[v]
      BY <2>4 DEF InFlight, TypeOK
    <3> QED
      BY <2>7, <3>1 DEF QueueOK
  <2>14. ASSUME NEW l \in completed_launch_ids'
         PROVE  num_depends'[l] = 0
    BY <2>2, <2>4, <2>7 DEF QueueOK, Executable, LaunchesOK
  <2>15. Executable' = (Executable \ {c}) \cup Unlocked(c)
    <3>1. ASSUME NEW l \in Executable'
          PROVE  l \in (Executable \ {c}) \cup Unlocked(c)
      <4>1. l \in Launched /\ l \in LaunchId /\ num_depends'[l] = 0
            /\ l \notin completed_launch_ids /\ l # c
        BY <2>4, LaunchedType DEF Executable, Launched
      <4>2. CASE l \in successors[c]
        BY <2>4, <4>1, <4>2, LaunchTypes DEF Unlocked
      <4>3. CASE l \notin successors[c]
        BY <2>4, <4>1, <4>3 DEF Executable
      <4> QED
        BY <4>2, <4>3
    <3>2. ASSUME NEW l \in Executable \ {c}
          PROVE  l \in Executable'
      BY <2>4, <2>7 DEF Executable, Launched
    <3>3. ASSUME NEW l \in Unlocked(c)
          PROVE  l \in Executable'
      <4>1. l \notin completed_launch_ids'
        BY <2>4, <2>8, <2>2 DEF QueueOK, Executable
      <4> QED
        BY <2>4, <2>8, <4>1 DEF Executable, Launched
    <3> QED
      BY <3>1, <3>2, <3>3
  <2>16. Cardinality(Executable') = Cardinality(Executable) - 1 + Cardinality(Unlocked(c))
    <3>1. IsFiniteSet(Executable) /\ Executable \in SUBSET LaunchId
      BY LaunchedType, FiniteSubsets DEF Executable
    <3>2. /\ IsFiniteSet(Executable \ {c})
          /\ Cardinality(Executable \ {c}) = Cardinality(Executable) - 1
      BY <2>2, <3>1, FS_RemoveElement
    <3>3. (Executable \ {c}) \cap Unlocked(c) = {}
      BY <2>8 DEF Executable
    <3>4. IsFiniteSet(Unlocked(c))
      BY <2>9, FiniteSubsets
    <3>5. Cardinality({}) = 0
      BY FS_EmptySet
    <3>6. Cardinality((Executable \ {c}) \cup Unlocked(c))
             = Cardinality(Executable \ {c}) + Cardinality(Unlocked(c)) - Cardinality({})
      BY <3>2, <3>3, <3>4, FS_Union
    <3>7. Cardinality(Executable) \in Nat
      BY <3>1, FiniteSubsets
    <3> QED
      BY <2>9, <2>15, <3>2, <3>5, <3>6, <3>7
  <2>17. Len(ready_queue') = Cardinality(Executable')
    <3>1. Len(ready_queue) = Cardinality(Executable) /\ Len(ready_queue) \in Nat
      BY DEF QueueOK, TypeOK
    <3> QED
      BY <2>5, <2>9, <2>10, <2>11, <2>16, <3>1
  <2>18. Launched' = Launched
    BY <2>4 DEF Launched
  <2> QED
    BY <2>12, <2>13, <2>14, <2>17, <2>18 DEF QueueOK
<1>5. ASSUME NEW n \in TaskCounts, NEW D \in SUBSET Launched, AddLaunch(n, D)
      PROVE  QueueOK'
  <2> DEFINE new == next_launch_id
             pending == MissingDeps(D)
  <2>1. /\ new \in LaunchId /\ next_launch_id' = new + 1 /\ new \in Nat
        /\ num_depends' = [num_depends EXCEPT ![new] = Cardinality(pending)]
        /\ ready_queue' = IF pending = {} THEN Append(ready_queue, new) ELSE ready_queue
        /\ UNCHANGED <<completed_launch_ids, pc, job>>
    BY <1>5, MaxLaunchesAssumption DEF AddLaunch, LaunchId, TypeOK
  <2>2. Launched' = Launched \cup {new} /\ new \notin Launched
    BY <2>1 DEF Launched
  <2>3. new \notin completed_launch_ids
    BY <2>2 DEF LaunchesOK
  <2>4. \A l \in Launched : num_depends'[l] = num_depends[l]
    BY <2>1, <2>2 DEF TypeOK
  <2>5. num_depends'[new] = Cardinality(pending)
    BY <2>1 DEF TypeOK
  <2>6. pending \in SUBSET LaunchId /\ IsFiniteSet(pending)
    BY LaunchedType, FiniteSubsets DEF MissingDeps
  <2>7. Executable \in SUBSET LaunchId /\ IsFiniteSet(Executable) /\ new \notin Executable
    BY <2>2, LaunchedType, FiniteSubsets DEF Executable
  <2>8. InFlight' = InFlight
    BY <2>1 DEF InFlight
  <2> HIDE DEF new, pending
  <2>9. CASE pending = {}
    <3>1. num_depends'[new] = 0
      BY <2>5, <2>9, FS_EmptySet
    <3>2. Executable' = Executable \cup {new}
      BY <2>1, <2>2, <2>3, <2>4, <3>1 DEF Executable
    <3>3. Cardinality(Executable') = Cardinality(Executable) + 1
      BY <2>7, <3>2, FS_AddElement
    <3>4. /\ Len(ready_queue') = Len(ready_queue) + 1
          /\ \A i \in 1 .. Len(ready_queue') :
                ready_queue'[i] = IF i <= Len(ready_queue) THEN ready_queue[i] ELSE new
      BY <2>1, <2>9, AppendProperties DEF TypeOK
    <3>5. ASSUME NEW i \in 1 .. Len(ready_queue')
          PROVE  ready_queue'[i] \in Launched' /\ num_depends'[ready_queue'[i]] = 0
      <4>1. CASE i <= Len(ready_queue)
        BY <2>2, <2>4, <3>4, <4>1 DEF QueueOK, TypeOK
      <4>2. CASE ~(i <= Len(ready_queue))
        BY <2>2, <3>1, <3>4, <4>2
      <4> QED
        BY <4>1, <4>2
    <3> QED
      BY <2>1, <2>2, <2>4, <2>8, <3>3, <3>4, <3>5 DEF QueueOK, LaunchesOK
  <2>10. CASE pending # {}
    <3>1. num_depends'[new] # 0
      BY <2>5, <2>6, <2>10, FS_EmptySet
    <3>2. Executable' = Executable
      BY <2>1, <2>2, <2>4, <3>1 DEF Executable
    <3> QED
      BY <2>1, <2>2, <2>4, <2>8, <2>10, <3>2 DEF QueueOK, LaunchesOK
  <2> QED
    BY <2>9, <2>10
<1> QED
  BY <1>1, <1>2, <1>3, <1>4, <1>5, StepCases

LEMMA JobsStep ==
    ASSUME IInv, [Next]_vars
    PROVE  JobsOK'
<1> USE DEF IInv
<1>1. CASE Quiet
  BY <1>1 DEF Quiet, launchVars, JobsOK
<1>2. ASSUME NEW w \in Worker, ClaimTask(w)
      PROVE  JobsOK'
  <2>1. PICK i \in 1 .. Len(ready_queue) :
           /\ job' = [job EXCEPT ![w] = [task |-> ready_queue[i],
                                         cur_task_id |-> curr_task_id[ready_queue[i]],
                                         task_iter |-> queue_start + i - 1]]
           /\ curr_task_id' = [curr_task_id EXCEPT ![ready_queue[i]] = @ + 1]
    BY <1>2 DEF ClaimTask
  <2> DEFINE c == ready_queue[i]
  <2>2. c \in LaunchId /\ curr_task_id[c] \in Nat
    <3>1. ready_queue \in Seq(LaunchId) /\ curr_task_id \in [LaunchId -> Nat]
      BY DEF TypeOK
    <3>2. c \in LaunchId
      BY <3>1, ElementOfSeq
    <3> QED
      BY <3>1, <3>2
  <2>3. InFlight' = InFlight \cup {w} /\ w \notin InFlight
    <3>1. pc[w] = "lock" /\ pc' = [pc EXCEPT ![w] = "running"]
      BY <1>2 DEF ClaimTask, Goto
    <3> QED
      BY <3>1 DEF InFlight, TypeOK
  <2>4. job'[w].task = c /\ job'[w].cur_task_id = curr_task_id[c]
        /\ curr_task_id'[c] = curr_task_id[c] + 1
    BY <2>1, <2>2 DEF TypeOK
  <2>5. ASSUME NEW v \in InFlight
        PROVE  /\ job'[v] = job[v] /\ v # w
               /\ job[v].cur_task_id < curr_task_id'[job[v].task]
               /\ job[v].task = c => job[v].cur_task_id < curr_task_id[c]
    <3>1. job[v].task \in LaunchId /\ job[v].cur_task_id \in Nat
          /\ curr_task_id[job[v].task] \in Nat
      BY InFlightExecutable DEF TypeOK, InFlight
    <3>2. job[v].cur_task_id < curr_task_id[job[v].task]
      BY DEF JobsOK
    <3>3. job'[v] = job[v] /\ v # w
      BY <2>1, <2>3 DEF TypeOK
    <3> QED
      <4>1. CASE job[v].task = c
        BY <2>2, <2>4, <3>1, <3>2, <3>3, <4>1
      <4>2. CASE job[v].task # c
        <5>1. curr_task_id'[job[v].task] = curr_task_id[job[v].task]
          BY <2>1, <2>2, <3>1, <4>2 DEF TypeOK
        <5> QED
          BY <3>2, <3>3, <4>2, <5>1
      <4> QED
        BY <4>1, <4>2
  <2> HIDE DEF c
  <2>6. ASSUME NEW v \in InFlight'
        PROVE  /\ job'[v].cur_task_id < curr_task_id'[job'[v].task]
               /\ \A u \in InFlight' \ {v} : \/ job'[u].task # job'[v].task
                                            \/ job'[u].cur_task_id # job'[v].cur_task_id
    <3>1. CASE v = w
      BY <2>2, <2>3, <2>4, <2>5, <3>1
    <3>2. CASE v # w
      BY <2>2, <2>3, <2>4, <2>5, <3>2 DEF JobsOK
    <3> QED
      BY <3>1, <3>2
  <2> QED
    BY <2>6 DEF JobsOK
<1>3. ASSUME NEW w \in Worker, CompleteTask(w) \/ CompleteLaunch(w)
      PROVE  JobsOK'
  <2>1. /\ pc' = [pc EXCEPT ![w] = "unlocked"]
        /\ job' = [job EXCEPT ![w] = NoJob]
        /\ UNCHANGED curr_task_id
    BY <1>3 DEF CompleteTask, CompleteLaunch, Goto
  <2>2. ASSUME NEW v \in InFlight'
        PROVE  v \in InFlight /\ job'[v] = job[v]
    BY <2>1 DEF InFlight, TypeOK
  <2> QED
    BY <2>1, <2>2 DEF JobsOK
<1>4. ASSUME NEW n \in TaskCounts, NEW D \in SUBSET Launched, AddLaunch(n, D)
      PROVE  JobsOK'
  BY <1>4 DEF AddLaunch, JobsOK, InFlight
<1> QED
  BY <1>1, <1>2, <1>3, <1>4, StepCases

LEMMA TypeStep ==
    ASSUME IInv, [Next]_vars
    PROVE  TypeOK'
<1> USE DEF IInv
<1>1. CASE UNCHANGED vars
  BY <1>1 DEF vars, launchVars, queueVars, syncVars, TypeOK
<1>2. ASSUME NEW w \in Worker, LockQueue(w) \/ Relock(w) \/ Step(w) \/ SpuriousWake(w)
      PROVE  TypeOK'
  <2>1. CASE BeginWait(w) \/ FindNothing(w) \/ SpuriousWake(w)
    BY <2>1 DEF BeginWait, FindNothing, SpuriousWake, Goto, launchVars, queueVars,
                syncVars, TypeOK, WorkerPC
  <2>2. CASE Step(w)
    BY <2>2 DEF Step, TestLoop, Sleep, RunTask, ReadEmpty, NotifySync, Goto, launchVars,
                queueVars, syncVars, TypeOK, WorkerPC, MainPC
  <2>3. CASE ClaimTask(w)
    <3>1. PICK i \in 1 .. Len(ready_queue) :
             /\ job' = [job EXCEPT ![w] = [task |-> ready_queue[i],
                                           cur_task_id |-> curr_task_id[ready_queue[i]],
                                           task_iter |-> queue_start + i - 1]]
             /\ curr_task_id' = [curr_task_id EXCEPT ![ready_queue[i]] = @ + 1]
      BY <2>3 DEF ClaimTask
    <3>2. ready_queue[i] \in LaunchId /\ curr_task_id[ready_queue[i]] \in Nat
          /\ queue_start + i - 1 \in Nat
      BY DEF TypeOK
    <3>3. curr_task_id' \in [LaunchId -> Nat]
      <4> DEFINE c == ready_queue[i]
      <4>1. c \in LaunchId /\ curr_task_id[c] + 1 \in Nat
            /\ curr_task_id' = [curr_task_id EXCEPT ![c] = @ + 1]
        BY <3>1, <3>2
      <4> HIDE DEF c
      <4> QED
        BY <4>1 DEF TypeOK
    <3>4. job' \in [Worker -> [task : LaunchId \cup {0}, cur_task_id : Nat, task_iter : Nat]]
      <4> DEFINE r == [task |-> ready_queue[i], cur_task_id |-> curr_task_id[ready_queue[i]],
                       task_iter |-> queue_start + i - 1]
      <4>1. r \in [task : LaunchId \cup {0}, cur_task_id : Nat, task_iter : Nat]
        BY <3>2
      <4>2. job' = [job EXCEPT ![w] = r]
        BY <3>1
      <4> HIDE DEF r
      <4> QED
        BY <4>1, <4>2 DEF TypeOK
    <3> QED
      BY <2>3, <3>3, <3>4 DEF ClaimTask, Goto, queueVars, syncVars, TypeOK, WorkerPC
  <2>4. CASE CompleteTask(w) \/ CompleteLaunch(w)
    <3> DEFINE c == job[w].task
    <3>1. w \in InFlight
      BY <2>4 DEF CompleteTask, CompleteLaunch, Goto, InFlight
    <3>2. c \in LaunchId \ completed_launch_ids /\ c \in LaunchId
          /\ Len(ready_queue) >= 1
      BY <3>1, InFlightExecutable DEF Executable
    <3>3. num_completed_tasks' \in [LaunchId -> Nat]
      <4>1. num_completed_tasks' = [num_completed_tasks EXCEPT ![c] = @ + 1]
        BY <2>4 DEF CompleteTask, CompleteLaunch
      <4>2. num_completed_tasks \in [LaunchId -> Nat]
        BY DEF TypeOK
      <4>3. num_completed_tasks[c] + 1 \in Nat
        BY <3>2, <4>2
      <4> QED
        BY <4>1, <4>2, <4>3
    <3>4. job' \in [Worker -> [task : LaunchId \cup {0}, cur_task_id : Nat, task_iter : Nat]]
      <4>1. NoJob \in [task : LaunchId \cup {0}, cur_task_id : Nat, task_iter : Nat]
        BY DEF NoJob
      <4>2. job' = [job EXCEPT ![w] = NoJob]
        BY <2>4 DEF CompleteTask, CompleteLaunch
      <4> QED
        BY <4>1, <4>2 DEF TypeOK
    <3>5. pc' \in [Worker -> WorkerPC]
      BY <2>4 DEF CompleteTask, CompleteLaunch, Goto, TypeOK, WorkerPC
    <3>6. CASE CompleteTask(w)
      BY <3>3, <3>4, <3>5, <3>6 DEF CompleteTask, queueVars, syncVars, TypeOK
    <3>7. CASE CompleteLaunch(w)
      <4>1. PICK unlocked \in [1 .. Cardinality(Unlocked(c)) -> Unlocked(c)] :
               ready_queue' = EraseAt(job[w].task_iter) \o unlocked
        BY <3>7 DEF CompleteLaunch
      <4>2. Unlocked(c) \in SUBSET LaunchId
        BY <3>2, LaunchTypes DEF Unlocked
      <4>3. unlocked \in Seq(LaunchId)
        BY <4>2, FiniteSubsets
      <4>4. EraseAt(job[w].task_iter) \in Seq(LaunchId)
        <5>1. job[w].task_iter \in Int
          BY DEF TypeOK
        <5> QED
          BY <3>2, <5>1, EraseKeepsElements
      <4>5. ready_queue' \in Seq(LaunchId)
        BY <4>1, <4>3, <4>4
      <4>6. ASSUME NEW l \in LaunchId
            PROVE  (IF l \in successors[c] THEN num_depends[l] - 1 ELSE num_depends[l]) \in Nat
        <5>1. CASE num_depends[l] = 0
          BY <3>2, <5>1, ReadyStaysReady
        <5>2. CASE num_depends[l] # 0
          BY <5>2, LaunchTypes
        <5> QED
          BY <5>1, <5>2
      <4>7. num_depends' \in [LaunchId -> Nat]
        BY <3>7, <4>6 DEF CompleteLaunch, DependsAfter
      <4>8. queue_start' \in Nat
        BY <3>7 DEF CompleteLaunch, StartAfterErase, TypeOK
      <4>9. completed_launch_ids' \subseteq LaunchId
        BY <3>2, <3>7 DEF CompleteLaunch, TypeOK
      <4> QED
        BY <3>3, <3>4, <3>5, <3>7, <4>5, <4>7, <4>8, <4>9
        DEF CompleteLaunch, syncVars, TypeOK
    <3> QED
      BY <2>4, <3>6, <3>7
  <2> QED
    BY <1>2, <2>1, <2>2, <2>3, <2>4 DEF LockQueue, Relock
<1>3. CASE SyncLock \/ MainStep \/ SyncSpuriousWake
  BY <1>3 DEF SyncLock, SyncReturn, SyncBeginWait, SyncOver, MainStep, NotifyWorkers, SyncSleep,
              DestroyNotify, Join, SyncSpuriousWake, AfterWake, MainGoto, launchVars,
              queueVars, syncVars, TypeOK, WorkerPC, MainPC
<1>4. CASE Sync \/ Destroy
  BY <1>4 DEF Sync, Destroy, MainGoto, launchVars, queueVars, syncVars, TypeOK, MainPC
<1>5. ASSUME NEW n \in TaskCounts, NEW D \in SUBSET Launched, AddLaunch(n, D),
             main_pc' \in MainPC
      PROVE  TypeOK'
  <2> DEFINE new == next_launch_id
             pending == MissingDeps(D)
  <2>1. new \in LaunchId /\ new + 1 \in 0 .. MaxLaunches
    BY <1>5, MaxLaunchesAssumption DEF AddLaunch, LaunchId, TypeOK
  <2>2. D \in SUBSET LaunchId /\ Cardinality(pending) \in Nat
    BY LaunchedType, FiniteSubsets DEF MissingDeps
  <2>3. ready_queue' \in Seq(LaunchId)
    BY <1>5, <2>1 DEF AddLaunch, TypeOK
  <2>4. successors' \in [LaunchId -> SUBSET LaunchId]
    BY <1>5, <2>1 DEF AddLaunch, TypeOK
  <2>5. /\ next_launch_id' \in 0 .. MaxLaunches
        /\ total_tasks' \in [LaunchId -> TaskCounts \cup {0}]
        /\ num_depends' \in [LaunchId -> Nat]
        /\ deps' \in [LaunchId -> SUBSET LaunchId]
    BY <1>5, <2>1, <2>2 DEF AddLaunch, TypeOK
  <2> QED
    BY <1>5, <2>3, <2>4, <2>5 DEF AddLaunch, syncVars, TypeOK
<1>6. CASE Call
  <2>1. ASSUME NEW n \in TaskCounts, NEW D \in SUBSET Launched,
               RunAsyncWithDeps(n, D) \/ Run(n)
        PROVE  TypeOK'
    BY <2>1, <1>5 DEF RunAsyncWithDeps, Run, MainGoto, MainPC
  <2> QED
    BY <1>4, <1>6, <2>1 DEF Call
<1> QED
  BY <1>1, <1>2, <1>3, <1>6 DEF Next

LEMMA WaitersStep ==
    ASSUME IInv, [Next]_vars
    PROVE  WaitersOK'
<1> USE WorkerAssumption DEF IInv, WaitersOK, MutexHeldByBlocking, TypeOK
<1>1. CASE UNCHANGED vars
  BY <1>1 DEF vars, queueVars, syncVars
<1>2. ASSUME NEW w \in Worker, LockQueue(w) \/ Relock(w) \/ Step(w) \/ SpuriousWake(w)
      PROVE  WaitersOK'
  <2>1. CASE BeginWait(w)
    BY <2>1 DEF BeginWait, Goto, WaitOver, queueVars
  <2>2. CASE ClaimTask(w) \/ FindNothing(w)
    <3>1. /\ pc[w] = "lock"
          /\ pc' = [pc EXCEPT ![w] = "running"] \/ pc' = [pc EXCEPT ![w] = "loop"]
          /\ UNCHANGED <<ready_queue, queue_mutex, terminate, main_pc>>
      BY <2>2 DEF ClaimTask, FindNothing, Goto, queueVars, syncVars
    <3> QED
      BY <3>1
  <2>3. CASE CompleteTask(w) \/ CompleteLaunch(w)
    <3>1. CASE CompleteTask(w)
      BY <3>1 DEF CompleteTask, Goto, queueVars, syncVars
    <3>2. CASE CompleteLaunch(w)
      BY <3>2 DEF CompleteLaunch, Goto, queueVars, syncVars
    <3> QED
      BY <2>3, <3>1, <3>2
  <2>4. CASE Sleep(w)
    BY <2>4 DEF Sleep, Goto, queueVars, syncVars
  <2>5. CASE TestLoop(w)
    BY <2>5 DEF TestLoop, Goto, queueVars, syncVars
  <2>7. CASE RunTask(w) \/ ReadEmpty(w) \/ SpuriousWake(w)
    <3>1. /\ pc[w] # "blocking"
          /\ \E to \in {"relock", "notify", "loop", "lock"} : pc' = [pc EXCEPT ![w] = to]
          /\ UNCHANGED <<ready_queue, queue_mutex, terminate, main_pc>>
      BY <2>7 DEF RunTask, ReadEmpty, SpuriousWake, Goto, queueVars, syncVars
    <3> QED
      BY <3>1
  <2>6. CASE NotifySync(w)
    BY <2>6 DEF NotifySync, Goto, queueVars, syncVars
  <2> QED
    BY <1>2, <2>1, <2>2, <2>3, <2>4, <2>5, <2>6, <2>7 DEF LockQueue, Relock, Step
<1>3. CASE SyncLock \/ SyncSleep \/ SyncSpuriousWake
  BY <1>3 DEF SyncLock, SyncReturn, SyncBeginWait, SyncOver, SyncSleep, SyncSpuriousWake, MainGoto,
              queueVars, syncVars
<1>4. CASE NotifyWorkers \/ DestroyNotify \/ Join
  <2>1. /\ \A w \in Worker : pc'[w] = "blocking" <=> pc[w] = "blocking"
        /\ \A w \in Worker : pc'[w] = "exited" <=> pc[w] = "exited"
    BY <1>4 DEF NotifyWorkers, DestroyNotify, Join, AfterWake
  <2>2. /\ UNCHANGED <<ready_queue, queue_mutex, terminate>>
        /\ \/ main_pc \in {"notify_workers", "run_notify_workers"} /\ main_pc' \in {"app", "sync"}
           \/ main_pc \in {"destroy_notify", "join"} /\ main_pc' \in {"join", "destroyed"}
    BY <1>4 DEF NotifyWorkers, DestroyNotify, Join, MainGoto, queueVars, syncVars
  <2> QED
    BY <2>1, <2>2
<1>5. CASE Call
  <2>1. CASE Sync \/ Destroy
    BY <2>1 DEF Sync, Destroy, MainGoto, queueVars, syncVars
  <2>2. ASSUME NEW n \in TaskCounts, NEW D \in SUBSET Launched,
               RunAsyncWithDeps(n, D) \/ Run(n)
        PROVE  WaitersOK'
    <3>1. /\ queue_mutex = NoOne /\ UNCHANGED <<queue_mutex, terminate, pc>>
          /\ main_pc = "app" /\ main_pc' \in {"notify_workers", "run_notify_workers"}
      BY <2>2 DEF RunAsyncWithDeps, Run, AddLaunch, MainGoto, syncVars
    <3> QED
      BY <3>1
  <2> QED
    BY <1>5, <2>1, <2>2 DEF Call
<1> QED
  BY <1>1, <1>2, <1>3, <1>4, <1>5 DEF Next, MainStep

LEMMA SleepingSyncStep ==
    ASSUME IInv, [Next]_vars
    PROVE  SleepingSyncIsNotified'
<1> USE DEF IInv, WaitersOK, SleepingSyncIsNotified, TypeOK
<1>1. CASE UNCHANGED vars
  BY <1>1 DEF vars, queueVars
<1>2. ASSUME NEW w \in Worker, LockQueue(w) \/ Relock(w) \/ Step(w) \/ SpuriousWake(w)
      PROVE  SleepingSyncIsNotified'
  <2>1. CASE NotifySync(w)
    BY <2>1 DEF NotifySync
  <2>2. CASE CompleteTask(w) \/ CompleteLaunch(w)
    BY <2>2 DEF CompleteTask, CompleteLaunch, Goto
  <2>3. CASE BeginWait(w) \/ ClaimTask(w) \/ FindNothing(w)
    BY <2>3 DEF BeginWait, ClaimTask, FindNothing, Goto, queueVars
  <2>4. CASE TestLoop(w) \/ Sleep(w) \/ RunTask(w) \/ ReadEmpty(w) \/ SpuriousWake(w)
    BY <2>4 DEF TestLoop, Sleep, RunTask, ReadEmpty, SpuriousWake, Goto, queueVars
  <2> QED
    BY <1>2, <2>1, <2>2, <2>3, <2>4 DEF LockQueue, Relock, Step
<1>3. CASE SyncLock \/ MainStep \/ SyncSpuriousWake \/ Call
  BY <1>3 DEF SyncLock, SyncReturn, SyncBeginWait, SyncOver, MainStep, NotifyWorkers, SyncSleep,
              DestroyNotify, Join, SyncSpuriousWake, Call, RunAsyncWithDeps, Run, Sync,
              Destroy, MainGoto, queueVars
<1> QED
  BY <1>1, <1>2, <1>3 DEF Next

LEMMA WorkStep ==
    ASSUME IInv, [Next]_vars
    PROVE  WorkKeepsAWorkerAwake'
<1> DEFINE Work == \E i \in 1 .. Len(ready_queue) : Claimable(ready_queue[i])
           Awake(w) == pc[w] \notin {"asleep", "blocking", "exited"}
<1> USE DEF IInv, WaitersOK, TypeOK
<1>1. CASE UNCHANGED vars
  BY <1>1 DEF vars, queueVars, launchVars, syncVars, WorkKeepsAWorkerAwake, Claimable
<1>2. ASSUME NEW w \in Worker, Awake(w)'
      PROVE  WorkKeepsAWorkerAwake'
  BY <1>2 DEF WorkKeepsAWorkerAwake
<1>3. ASSUME terminate'
      PROVE  WorkKeepsAWorkerAwake'
  BY <1>3 DEF WorkKeepsAWorkerAwake
<1>4. ASSUME NEW w \in Worker, LockQueue(w) \/ Relock(w) \/ Step(w) \/ SpuriousWake(w)
      PROVE  WorkKeepsAWorkerAwake'
  <2>1. CASE BeginWait(w)
    BY <2>1 DEF BeginWait, WaitOver, queueVars, WorkKeepsAWorkerAwake
  <2>2. CASE ClaimTask(w) \/ FindNothing(w)
    BY <1>2, <2>2 DEF ClaimTask, FindNothing, Goto
  <2>3. CASE CompleteTask(w) \/ CompleteLaunch(w)
    BY <1>2, <2>3 DEF CompleteTask, CompleteLaunch, Goto
  <2>4. CASE Sleep(w)
    BY <2>4 DEF Sleep, Goto, queueVars, WorkKeepsAWorkerAwake
  <2>5. CASE TestLoop(w)
    BY <1>2, <1>3, <2>5 DEF TestLoop, Goto, syncVars
  <2>6. CASE RunTask(w) \/ ReadEmpty(w) \/ SpuriousWake(w) \/ NotifySync(w)
    BY <1>2, <2>6 DEF RunTask, ReadEmpty, SpuriousWake, NotifySync, Goto
  <2> QED
    BY <1>4, <2>1, <2>2, <2>3, <2>4, <2>5, <2>6 DEF LockQueue, Relock, Step
<1>5. CASE SyncLock \/ SyncSleep \/ SyncSpuriousWake \/ Sync
  BY <1>5 DEF SyncLock, SyncReturn, SyncBeginWait, SyncOver, SyncSleep, SyncSpuriousWake, Sync,
              MainGoto, launchVars, queueVars, syncVars, WorkKeepsAWorkerAwake, Claimable
<1>6. CASE DestroyNotify \/ Join \/ Destroy
  BY <1>3, <1>6 DEF DestroyNotify, Join, Destroy, MainGoto, syncVars
<1>7. ASSUME NEW n \in TaskCounts, NEW D \in SUBSET Launched,
             RunAsyncWithDeps(n, D) \/ Run(n)
      PROVE  WorkKeepsAWorkerAwake'
  BY <1>7 DEF RunAsyncWithDeps, Run, MainGoto, WorkKeepsAWorkerAwake
<1>8. CASE NotifyWorkers
  <2> SUFFICES ASSUME ~terminate', Work'
               PROVE  \E w \in Worker : Awake(w)'
    BY DEF WorkKeepsAWorkerAwake
  <2>1. ready_queue # <<>> /\ ~terminate
    BY <1>8 DEF NotifyWorkers, queueVars, syncVars
  <2>2. PICK w \in Worker : TRUE
    BY WorkerAssumption
  <2>3. pc[w] # "blocking" /\ pc[w] # "exited"
    BY <2>1
  <2>4. Awake(w)'
    BY <1>8, <2>3 DEF NotifyWorkers, AfterWake
  <2> QED
    BY <2>4
<1> QED
  BY <1>1, <1>4, <1>5, <1>6, <1>7, <1>8 DEF Next, MainStep, Call

LEMMA InitIInv == Init => IInv
<1> SUFFICES ASSUME Init PROVE IInv
  OBVIOUS
<1> USE MaxLaunchesAssumption, WorkerAssumption DEF Init
<1>1. NoJob \in [task : LaunchId \cup {0}, cur_task_id : Nat, task_iter : Nat]
  BY DEF NoJob
<1>2. TypeOK
  <2>1. job \in [Worker -> [task : LaunchId \cup {0}, cur_task_id : Nat, task_iter : Nat]]
    BY <1>1
  <2>2. total_tasks \in [LaunchId -> TaskCounts \cup {0}]
    OBVIOUS
  <2>3. /\ next_launch_id \in 0 .. MaxLaunches
        /\ curr_task_id \in [LaunchId -> Nat]
        /\ num_completed_tasks \in [LaunchId -> Nat]
        /\ num_depends \in [LaunchId -> Nat]
        /\ queue_start \in Nat
    OBVIOUS
  <2>4. /\ successors \in [LaunchId -> SUBSET LaunchId]
        /\ deps \in [LaunchId -> SUBSET LaunchId]
        /\ completed_launch_ids \subseteq LaunchId
        /\ ready_queue \in Seq(LaunchId)
    OBVIOUS
  <2>5. /\ queue_mutex \in Worker \cup {Main, NoOne}
        /\ terminate \in BOOLEAN
        /\ pc \in [Worker -> WorkerPC]
        /\ main_pc \in MainPC
    BY DEF WorkerPC, MainPC
  <2> QED
    BY <2>1, <2>2, <2>3, <2>4, <2>5 DEF TypeOK
<1>3. InFlight = {} /\ Launched = {}
  BY DEF InFlight, Launched
<1>4. LaunchesOK
  BY <1>3 DEF LaunchesOK
<1>5. CountsOK
  <2>1. \A l \in LaunchId : InFlightOf(l) = {}
    BY <1>3 DEF InFlightOf
  <2> QED
    <3>1. ASSUME NEW l \in LaunchId
          PROVE  /\ Cardinality(InFlightOf(l)) = 0 /\ num_completed_tasks[l] = 0
                 /\ curr_task_id[l] = 0 /\ total_tasks[l] = 0
      BY <2>1, FS_EmptySet
    <3> QED
      BY <3>1 DEF CountsOK
<1>6. DependsOK
  BY FS_EmptySet DEF DependsOK
<1>7. QueueOK
  BY <1>3, FS_EmptySet DEF QueueOK, Executable
<1>8. JobsOK
  BY <1>3 DEF JobsOK
<1>9. WaitersOK
  BY DEF WaitersOK, MutexHeldByBlocking
<1>10. WorkKeepsAWorkerAwake /\ SleepingSyncIsNotified
  BY DEF WorkKeepsAWorkerAwake, SleepingSyncIsNotified
<1> QED
  BY <1>2, <1>4, <1>5, <1>6, <1>7, <1>8, <1>9, <1>10 DEF IInv

(* The inductive invariant holds throughout, for any number of workers,    *)
(* launches and tasks, whatever the stale iterators of line 170 erase.     *)
THEOREM PoolInvariant == SafeSpec => []IInv
<1>1. IInv /\ [Next]_vars => IInv'
  BY TypeStep, LaunchesStep, CountsStep, DependsStep, QueueStep, JobsStep, WaitersStep,
     WorkStep, SleepingSyncStep DEF IInv
<1> QED
  BY InitIInv, <1>1, PTL DEF SafeSpec

-----------------------------------------------------------------------------
(* What follows from it.                                                   *)

(* Every variable keeps its type; in particular no counter goes below 0.   *)
THEOREM TypeCorrect == SafeSpec => []TypeOK
<1>1. IInv => TypeOK
  BY DEF IInv
<1> QED
  BY <1>1, PoolInvariant, PTL

(* runAsyncWithDeps: no task is inside runTask while a launch that its own *)
(* launch depends on has a task left to complete (itasksys.h:49-52).       *)
THEOREM DependenciesRespected == SafeSpec => []DependenciesDone
<1>1. ASSUME IInv PROVE DependenciesDone
  <2> USE <1>1 DEF IInv
  <2> SUFFICES ASSUME NEW w \in InFlight, NEW d \in deps[job[w].task]
               PROVE  AllTasksDone(d)
    BY DEF DependenciesDone
  <2> DEFINE l == job[w].task
             missing == deps[l] \ completed_launch_ids
  <2>1. l \in LaunchId /\ num_depends[l] = 0
    BY InFlightExecutable DEF QueueOK
  <2>2. missing \in SUBSET LaunchId /\ Cardinality(missing) = 0
    BY <2>1, LaunchTypes DEF DependsOK
  <2>3. missing = {}
    BY <2>2, FiniteSubsets, FS_EmptySet
  <2> QED
    BY <2>1, <2>3, LaunchTypes DEF CountsOK
<1> QED
  BY <1>1, PoolInvariant, PTL

(* No task of a launch is handed to two workers, and none beyond the last. *)
THEOREM TasksOnce == SafeSpec => []NoTaskTwice
<1>1. ASSUME IInv PROVE NoTaskTwice
  <2> USE <1>1 DEF IInv
  <2> SUFFICES ASSUME NEW w \in InFlight
               PROVE  job[w].cur_task_id < total_tasks[job[w].task]
    BY DEF NoTaskTwice, JobsOK
  <2>1. job[w].task \in LaunchId /\ job[w].cur_task_id \in Nat
    BY InFlightExecutable DEF TypeOK, InFlight
  <2>2. job[w].cur_task_id < curr_task_id[job[w].task]
    BY DEF JobsOK
  <2>3. curr_task_id[job[w].task] <= total_tasks[job[w].task]
    BY <2>1 DEF CountsOK
  <2> QED
    BY <2>1, <2>2, <2>3, LaunchTypes
<1> QED
  BY <1>1, PoolInvariant, PTL

(* A launch in completed_launch_ids has handed out all its tasks and no    *)
(* worker is still inside one of them.                                     *)
THEOREM CompletedQuiet == SafeSpec => []CompletedAreQuiet
<1>1. ASSUME IInv PROVE CompletedAreQuiet
  <2> USE <1>1 DEF IInv
  <2> SUFFICES ASSUME NEW l \in completed_launch_ids
               PROVE  /\ curr_task_id[l] = total_tasks[l]
                      /\ \A w \in InFlight : job[w].task # l
    BY DEF CompletedAreQuiet
  <2>1. l \in LaunchId
    BY DEF TypeOK
  <2>2. \A w \in InFlight : job[w].task # l
    BY InFlightExecutable DEF Executable
  <2>3. InFlightOf(l) = {}
    BY <2>2 DEF InFlightOf
  <2>4. Cardinality(InFlightOf(l)) = 0
    BY <2>3, FS_EmptySet
  <2>5. curr_task_id[l] = total_tasks[l]
    BY <2>1, <2>4, LaunchTypes DEF CountsOK, AllTasksDone
  <2> QED
    BY <2>2, <2>5
<1> QED
  BY <1>1, PoolInvariant, PTL

(* tasksys.cpp:147-188: no wake-up for work is lost, although a worker    *)
(* that makes launches executable notifies no other.                      *)
THEOREM WorkersWoken == SafeSpec => []WorkKeepsAWorkerAwake
<1>1. IInv => WorkKeepsAWorkerAwake
  BY DEF IInv
<1> QED
  BY <1>1, PoolInvariant, PTL

(* tasksys.cpp:181-188, 286: nor is the one of sync(), although the queue  *)
(* is read after the unlock.                                               *)
THEOREM SyncNotified == SafeSpec => []SleepingSyncIsNotified
<1>1. IInv => SleepingSyncIsNotified
  BY DEF IInv
<1> QED
  BY <1>1, PoolInvariant, PTL

(* The predicate sync waits on: with nothing executable, nothing is left.  *)
(* The least incomplete launch depends on complete launches only, so it    *)
(* would be executable.                                                    *)
LEMMA EmptyQueueMeansDone ==
    ASSUME IInv, ready_queue = <<>>
    PROVE  Launched \subseteq completed_launch_ids
<1> USE DEF IInv
<1>1. Executable = {}
  <2>1. Cardinality(Executable) = 0
    BY DEF QueueOK
  <2>2. Executable \in SUBSET LaunchId
    BY LaunchedType DEF Executable
  <2> QED
    BY <2>1, <2>2, FiniteSubsets, FS_EmptySet
<1> SUFFICES ASSUME Launched \ completed_launch_ids # {}
             PROVE  FALSE
  OBVIOUS
<1>2. Launched \ completed_launch_ids \subseteq Nat
  BY DEF Launched
<1>3. PICK m \in Launched \ completed_launch_ids :
         \A l \in Launched \ completed_launch_ids : ~(l < m)
  <2>1. IsWellFoundedOn(OpToRel(<, Nat), Nat)
    BY NatLessThanWellFounded
  <2>2. PICK m \in Launched \ completed_launch_ids :
           \A l \in Launched \ completed_launch_ids : <<l, m>> \notin OpToRel(<, Nat)
    BY <1>2, <2>1, WFMin
  <2> QED
    BY <1>2, <2>2 DEF OpToRel
<1>4. m \in Nat /\ m \in LaunchId
  BY <1>2, LaunchedType
<1>5. deps[m] \subseteq completed_launch_ids
  <2>1. ASSUME NEW d \in deps[m]
        PROVE  d \in Launched /\ d < m
    BY <1>4 DEF LaunchesOK, Launched, TypeOK
  <2> QED
    BY <1>3, <2>1
<1>6. num_depends[m] = 0
  BY <1>4, <1>5, FS_EmptySet DEF DependsOK
<1>7. m \in Executable
  BY <1>6 DEF Executable
<1> QED
  BY <1>1, <1>7

(* sync returns only when every launch made before it has completed.       *)
THEOREM SyncSound == SafeSpec => SyncReturnsComplete
<1>1. ASSUME IInv, [Next]_vars, main_pc = "sync", main_pc' = "app"
      PROVE  Launched \subseteq completed_launch_ids
  <2>1. ready_queue = <<>>
    <3>1. CASE \E w \in Worker : LockQueue(w) \/ Relock(w) \/ Step(w) \/ SpuriousWake(w)
      BY <1>1, <3>1 DEF LockQueue, BeginWait, ClaimTask, FindNothing, Relock, CompleteTask,
                        CompleteLaunch, Step, TestLoop, Sleep, RunTask, ReadEmpty,
                        NotifySync, SpuriousWake
    <3> QED
      BY <1>1, <3>1 DEF Next, vars, SyncLock, SyncReturn, SyncBeginWait, SyncOver, MainStep,
                        NotifyWorkers, SyncSleep, DestroyNotify, Join, SyncSpuriousWake,
                        Call, RunAsyncWithDeps, Run, Sync, Destroy, MainGoto
  <2> QED
    BY <1>1, <2>1, EmptyQueueMeansDone
<1>2. IInv /\ [Next]_vars =>
         [main_pc = "sync" /\ main_pc' = "app" => Launched \subseteq completed_launch_ids]_vars
  BY <1>1
<1> QED
  BY <1>2, PoolInvariant, PTL DEF SafeSpec, SyncReturnsComplete

-----------------------------------------------------------------------------
(* The pool implements the contract of itasksys.h: under the mapping of    *)
(* SleepingPool!Contract, claiming a task is starting it, the return of    *)
(* runTask finishes it, and every other step of a worker is invisible.     *)

LEMMA StartedMembers ==
    ASSUME NEW t
    PROVE  t \in StartedTasks <=>
              \E l \in Launched : \E i \in 0 .. curr_task_id[l] - 1 : t = <<l, i>>
BY DEF StartedTasks

LEMMA RunningMembers ==
    ASSUME NEW t
    PROVE  t \in RunningTasks <=>
              \E w \in Worker : pc[w] = "running" /\ t = <<job[w].task, job[w].cur_task_id>>
BY DEF RunningTasks

(* Every running task was started, and is below the count of its launch.   *)
LEMMA RunningAreStarted ==
    ASSUME IInv
    PROVE  RunningTasks \subseteq StartedTasks
<1> USE DEF IInv
<1> SUFFICES ASSUME NEW w \in Worker, pc[w] = "running"
             PROVE  <<job[w].task, job[w].cur_task_id>> \in StartedTasks
  BY DEF RunningTasks
<1>1. w \in InFlight
  BY DEF InFlight
<1>2. job[w].task \in Launched /\ job[w].task \in LaunchId
      /\ job[w].cur_task_id \in Nat
  BY <1>1, InFlightExecutable DEF QueueOK, TypeOK
<1>3. job[w].cur_task_id \in 0 .. curr_task_id[job[w].task] - 1
  BY <1>1, <1>2, LaunchTypes DEF JobsOK
<1> QED
  BY <1>2, <1>3, StartedMembers

(* A launch that the pool counts complete is done in the contract.         *)
LEMMA CompletedAreDone ==
    ASSUME IInv, NEW d \in completed_launch_ids
    PROVE  Contract!Done(d)
<1> USE DEF IInv
<1>1. d \in LaunchId /\ d \in Launched
  BY DEF TypeOK, LaunchesOK
<1>2. \A w \in InFlight : job[w].task # d
  BY InFlightExecutable DEF Executable
<1>3. InFlightOf(d) = {}
  BY <1>2 DEF InFlightOf
<1>4. Cardinality(InFlightOf(d)) = 0
  BY <1>3, FS_EmptySet
<1>5. curr_task_id[d] = total_tasks[d]
  BY <1>1, <1>4, LaunchTypes DEF CountsOK, AllTasksDone
<1> SUFFICES ASSUME NEW i \in 0 .. total_tasks[d] - 1
             PROVE  <<d, i>> \in StartedTasks \ RunningTasks
  BY DEF Contract!Done, Contract!Tasks
<1>6. <<d, i>> \in StartedTasks
  BY <1>1, <1>5, StartedMembers
<1>7. <<d, i>> \notin RunningTasks
  BY <1>2, RunningMembers DEF InFlight
<1> QED
  BY <1>6, <1>7

LEMMA InitRefines == Init => Contract!Init
<1> SUFFICES ASSUME Init PROVE Contract!Init
  OBVIOUS
<1>1. Launched = {} /\ RunningTasks = {}
  BY DEF Init, Launched, RunningTasks
<1>2. StartedTasks = {}
  BY <1>1 DEF StartedTasks
<1>3. Caller = "app"
  BY DEF Init, Caller
<1> QED
  BY <1>1, <1>2, <1>3 DEF Init, Contract!Init

-----------------------------------------------------------------------------
(* One lemma for each step the contract sees.                              *)

LEMMA ClaimRefines ==
    ASSUME IInv, NEW w \in Worker, ClaimTask(w)
    PROVE  Contract!StartSome
<1> USE DEF IInv
<1>1. PICK i \in 1 .. Len(ready_queue) :
         /\ Claimable(ready_queue[i])
         /\ job' = [job EXCEPT ![w] = [task |-> ready_queue[i],
                                       cur_task_id |-> curr_task_id[ready_queue[i]],
                                       task_iter |-> queue_start + i - 1]]
         /\ curr_task_id' = [curr_task_id EXCEPT ![ready_queue[i]] = @ + 1]
  BY DEF ClaimTask
<1> DEFINE l == ready_queue[i]
           t == <<l, curr_task_id[l]>>
<1>2. l \in LaunchId /\ l \in Launched /\ num_depends[l] = 0
      /\ curr_task_id[l] \in Nat /\ total_tasks[l] \in Nat
  <2>1. l \in LaunchId
    BY DEF TypeOK
  <2>2. l \in Launched /\ num_depends[l] = 0
    BY DEF QueueOK
  <2> QED
    BY <2>1, <2>2, LaunchTypes
<1>3. /\ pc[w] = "lock" /\ pc' = [pc EXCEPT ![w] = "running"]
      /\ UNCHANGED <<next_launch_id, total_tasks, deps, terminate, main_pc>>
      /\ ~terminate
  BY DEF ClaimTask, Goto, syncVars
<1>4. /\ job'[w].task = l /\ job'[w].cur_task_id = curr_task_id[l]
      /\ curr_task_id'[l] = curr_task_id[l] + 1
      /\ \A k \in LaunchId \ {l} : curr_task_id'[k] = curr_task_id[k]
      /\ \A v \in Worker \ {w} : job'[v] = job[v]
  BY <1>1, <1>2 DEF TypeOK
<1> HIDE DEF l
<1>5. Launched' = Launched /\ Launched \in SUBSET LaunchId
  BY <1>3, LaunchedType DEF Launched
<1>6. StartedTasks' = StartedTasks \cup {t}
  <2>1. ASSUME NEW k \in Launched
        PROVE  0 .. curr_task_id'[k] - 1 =
                  IF k = l THEN (0 .. curr_task_id[l] - 1) \cup {curr_task_id[l]}
                  ELSE 0 .. curr_task_id[k] - 1
    <3>1. CASE k = l
      BY <1>2, <1>4, <3>1
    <3>2. CASE k # l
      BY <1>4, <1>5, <3>2
    <3> QED
      BY <3>1, <3>2
  <2>2. ASSUME NEW s \in StartedTasks' PROVE s \in StartedTasks \cup {t}
    <3>1. PICK k \in Launched : \E j \in 0 .. curr_task_id'[k] - 1 : s = <<k, j>>
      BY <1>5 DEF StartedTasks
    <3> QED
      BY <2>1, <3>1, StartedMembers
  <2>3. ASSUME NEW s \in StartedTasks \cup {t} PROVE s \in StartedTasks'
    <3>1. PICK k \in Launched : \E j \in 0 .. curr_task_id'[k] - 1 : s = <<k, j>>
      <4>1. CASE s = t
        <5>1. curr_task_id[l] \in 0 .. curr_task_id'[l] - 1
          BY <1>2, <2>1
        <5> QED
          BY <1>2, <4>1, <5>1
      <4>2. CASE s \in StartedTasks
        BY <2>1, <4>2, StartedMembers
      <4> QED
        BY <4>1, <4>2
    <3> QED
      BY <1>5, <3>1 DEF StartedTasks
  <2> QED
    BY <2>2, <2>3
<1>7. t \notin StartedTasks
  BY <1>2, StartedMembers
<1>8. RunningTasks' = RunningTasks \cup {t}
  <2>1. \A v \in Worker : pc'[v] = "running" <=> (pc[v] = "running" \/ v = w)
    BY <1>3 DEF TypeOK
  <2>2. ASSUME NEW v \in Worker \ {w}
        PROVE  job'[v] = job[v]
    BY <1>4
  <2>3. <<job'[w].task, job'[w].cur_task_id>> = t
    <3>1. job'[w].task = l /\ job'[w].cur_task_id = curr_task_id[l]
      BY <1>4
    <3> QED
      BY <3>1
  <2>4. ASSUME NEW s
        PROVE  s \in RunningTasks' <=> s \in RunningTasks \cup {t}
    <3>1. s \in RunningTasks' <=>
             \E v \in Worker : pc'[v] = "running" /\ s = <<job'[v].task, job'[v].cur_task_id>>
      BY DEF RunningTasks
    <3> QED
      BY <1>3, <2>1, <2>2, <2>3, <3>1, RunningMembers
  <2> QED
    BY <2>4
<1>9. RunningTasks \subseteq StartedTasks
  BY RunningAreStarted
<1>10. \A d \in deps[l] : Contract!Done(d)
  <2>1. deps[l] \ completed_launch_ids \in SUBSET LaunchId
        /\ Cardinality(deps[l] \ completed_launch_ids) = 0
    BY <1>2, LaunchTypes DEF DependsOK
  <2>2. deps[l] \subseteq completed_launch_ids
    BY <2>1, FiniteSubsets, FS_EmptySet
  <2> QED
    BY <2>2, CompletedAreDone
<1>11. t \in Contract!Tasks(l) /\ t[1] = l
  BY <1>1, <1>2 DEF Contract!Tasks, Claimable, l
<1>12. Contract!CanStart(t)
  BY <1>2, <1>7, <1>9, <1>10, <1>11 DEF Contract!CanStart
<1>13. Caller # "gone" /\ Caller' = Caller
  BY <1>3 DEF Caller
<1>14. (StartedTasks \ RunningTasks)' = StartedTasks \ RunningTasks
  BY <1>6, <1>7, <1>8, <1>9
<1>15. Contract!Start(t)
  BY <1>3, <1>5, <1>8, <1>12, <1>13, <1>14 DEF Contract!Start
<1> QED
  BY <1>2, <1>11, <1>15 DEF Contract!StartSome

LEMMA RunTaskRefines ==
    ASSUME IInv, NEW w \in Worker, RunTask(w)
    PROVE  Contract!FinishSome
<1> USE DEF IInv
<1> DEFINE t == <<job[w].task, job[w].cur_task_id>>
<1>1. /\ pc[w] = "running" /\ pc' = [pc EXCEPT ![w] = "relock"]
      /\ UNCHANGED <<next_launch_id, total_tasks, curr_task_id, deps, terminate, job, main_pc>>
  BY DEF RunTask, Goto, launchVars, syncVars
<1>2. t \in RunningTasks
  BY <1>1, RunningMembers
<1>3. RunningTasks' = RunningTasks \ {t}
  <2>1. ASSUME NEW v \in Worker, v # w, pc[v] = "running"
        PROVE  <<job[v].task, job[v].cur_task_id>> # t
    BY <1>1, <2>1 DEF JobsOK, InFlight
  <2>2. \A v \in Worker : pc'[v] = "running" <=> (pc[v] = "running" /\ v # w)
    BY <1>1 DEF TypeOK
  <2>3. RunningTasks' = {<<job[v].task, job[v].cur_task_id>> :
                            v \in {u \in Worker : pc'[u] = "running"}}
    BY <1>1 DEF RunningTasks
  <2> QED
    BY <2>1, <2>2, <2>3 DEF RunningTasks
<1>4. StartedTasks' = StartedTasks /\ Launched' = Launched /\ Caller' = Caller
  BY <1>1 DEF StartedTasks, Launched, Caller
<1>5. (StartedTasks \ RunningTasks)' = (StartedTasks \ RunningTasks) \cup {t}
  BY <1>2, <1>3, <1>4, RunningAreStarted
<1>6. Contract!Finish(t)
  BY <1>1, <1>2, <1>3, <1>4, <1>5 DEF Contract!Finish
<1> QED
  BY <1>2, <1>6 DEF Contract!FinishSome

LEMMA AddLaunchRefines ==
    ASSUME IInv, NEW n \in TaskCounts, NEW D \in SUBSET Launched, AddLaunch(n, D),
           main_pc = "app", main_pc' \in {"notify_workers", "run_notify_workers"}
    PROVE  Contract!LaunchSome
<1> USE DEF IInv
<1> DEFINE new == next_launch_id
<1>1. /\ new \in LaunchId /\ new \in Nat /\ next_launch_id' = new + 1
      /\ total_tasks' = [total_tasks EXCEPT ![new] = n]
      /\ deps' = [deps EXCEPT ![new] = D]
      /\ UNCHANGED <<curr_task_id, terminate, pc, job>>
  BY MaxLaunchesAssumption DEF AddLaunch, LaunchId, TypeOK, syncVars
<1>2. Launched' = Launched \cup {new} /\ new \notin Launched
  BY <1>1 DEF Launched
<1>3. curr_task_id[new] = 0
  <2>1. curr_task_id[new] <= total_tasks[new] /\ total_tasks[new] = 0
    BY <1>1, <1>2 DEF CountsOK, LaunchesOK
  <2> QED
    BY <1>1, <2>1, LaunchTypes
<1>4. StartedTasks' = StartedTasks
  <2>1. 0 .. curr_task_id[new] - 1 = {}
    BY <1>3
  <2>2. {new} \X (0 .. curr_task_id[new] - 1) = {}
    BY <2>1
  <2>3. StartedTasks' = UNION {{l} \X (0 .. curr_task_id[l] - 1) : l \in Launched \cup {new}}
    BY <1>1, <1>2 DEF StartedTasks
  <2> QED
    BY <2>2, <2>3 DEF StartedTasks
<1>5. RunningTasks' = RunningTasks
  BY <1>1 DEF RunningTasks
<1>6. Caller = "app" /\ Caller' = "app"
  BY <1>1 DEF Caller, WaitersOK
<1>7. Contract!Launch(new, n, D)
  BY <1>1, <1>2, <1>4, <1>5, <1>6 DEF Contract!Launch
<1> QED
  BY <1>1, <1>7 DEF Contract!LaunchSome

LEMMA SyncReturnRefines ==
    ASSUME IInv, SyncReturn
    PROVE  Contract!ReturnSync
<1>1. Launched \subseteq completed_launch_ids
  BY EmptyQueueMeansDone DEF SyncReturn, SyncOver
<1>2. \A l \in Launched : Contract!Done(l)
  BY <1>1, CompletedAreDone
<1>3. /\ main_pc = "sync" /\ main_pc' = "app" /\ ~terminate
      /\ UNCHANGED <<next_launch_id, total_tasks, curr_task_id, deps, terminate, pc, job>>
  BY DEF SyncReturn, MainGoto, launchVars, syncVars, IInv, WaitersOK
<1> QED
  BY <1>2, <1>3 DEF Contract!ReturnSync, Caller, Launched, StartedTasks, RunningTasks

-----------------------------------------------------------------------------

(* A step that claims, starts, finishes and launches nothing, and leaves   *)
(* the application where it was, is not seen by the contract.              *)
LEMMA Invisible ==
    ASSUME UNCHANGED <<next_launch_id, total_tasks, curr_task_id, deps>>,
           RunningTasks' = RunningTasks, Caller' = Caller
    PROVE  UNCHANGED Contract!vars
BY DEF Contract!vars, Launched, StartedTasks

LEMMA WorkerStepRefines ==
    ASSUME IInv, NEW w \in Worker, LockQueue(w) \/ Relock(w) \/ Step(w) \/ SpuriousWake(w)
    PROVE  [Contract!Next]_Contract!vars
<1> USE DEF IInv, TypeOK
<1>1. CASE ClaimTask(w)
  BY <1>1, ClaimRefines DEF Contract!Next
<1>2. CASE RunTask(w)
  BY <1>2, RunTaskRefines DEF Contract!Next
<1>3. CASE CompleteTask(w) \/ CompleteLaunch(w)
  <2>1. /\ pc[w] = "relock" /\ pc' = [pc EXCEPT ![w] = "unlocked"]
        /\ job' = [job EXCEPT ![w] = NoJob]
        /\ UNCHANGED <<next_launch_id, total_tasks, curr_task_id, deps, terminate, main_pc>>
    BY <1>3 DEF CompleteTask, CompleteLaunch, Goto, syncVars
  <2>2. RunningTasks' = RunningTasks
    BY <2>1 DEF RunningTasks
  <2> QED
    BY <2>1, <2>2, Invisible DEF Caller
<1>4. CASE NotifySync(w)
  <2>1. /\ pc[w] = "notify" /\ pc' = [pc EXCEPT ![w] = "loop"]
        /\ UNCHANGED <<next_launch_id, total_tasks, curr_task_id, deps, terminate, job>>
        /\ main_pc' = IF main_pc = "sync_asleep" THEN "sync" ELSE main_pc
    BY <1>4 DEF NotifySync, Goto, launchVars, syncVars
  <2>2. RunningTasks' = RunningTasks /\ Caller' = Caller
    BY <2>1 DEF RunningTasks, Caller
  <2> QED
    BY <2>1, <2>2, Invisible
<1>5. CASE BeginWait(w) \/ FindNothing(w) \/ TestLoop(w) \/ Sleep(w) \/ ReadEmpty(w)
           \/ SpuriousWake(w)
  <2>1. /\ pc[w] # "running"
        /\ \E to \in WorkerPC \ {"running"} : pc' = [pc EXCEPT ![w] = to]
        /\ UNCHANGED <<next_launch_id, total_tasks, curr_task_id, deps, terminate, job, main_pc>>
    BY <1>5 DEF BeginWait, FindNothing, TestLoop, Sleep, ReadEmpty, SpuriousWake, Goto,
                launchVars, syncVars, WorkerPC
  <2>2. RunningTasks' = RunningTasks
    BY <2>1 DEF RunningTasks
  <2> QED
    BY <2>1, <2>2, Invisible DEF Caller
<1> QED
  BY <1>1, <1>2, <1>3, <1>4, <1>5 DEF LockQueue, Relock, Step

LEMMA MainStepRefines ==
    ASSUME IInv, SyncLock \/ MainStep \/ SyncSpuriousWake \/ Call
    PROVE  [Contract!Next]_Contract!vars
<1> USE DEF IInv, TypeOK, WaitersOK
<1>1. CASE SyncReturn
  BY <1>1, SyncReturnRefines DEF Contract!Next
<1>2. CASE SyncBeginWait \/ SyncSleep \/ SyncSpuriousWake
  <2>1. UNCHANGED <<next_launch_id, total_tasks, curr_task_id, deps, terminate, pc, job>>
        /\ {main_pc, main_pc'} \subseteq {"sync", "sync_blocking", "sync_asleep"}
    BY <1>2 DEF SyncBeginWait, SyncSleep, SyncSpuriousWake, MainGoto, launchVars, syncVars
  <2> QED
    BY <2>1, Invisible DEF RunningTasks, Caller
<1>3. CASE NotifyWorkers
  <2>1. /\ UNCHANGED <<next_launch_id, total_tasks, curr_task_id, deps, terminate, job>>
        /\ pc' = AfterWake
        /\ \/ main_pc = "notify_workers" /\ main_pc' = "app"
           \/ main_pc = "run_notify_workers" /\ main_pc' = "sync"
    BY <1>3 DEF NotifyWorkers, MainGoto, launchVars, syncVars
  <2>2. RunningTasks' = RunningTasks
    BY <2>1 DEF RunningTasks, AfterWake
  <2>3. CASE main_pc' = "app"
    BY <2>1, <2>2, <2>3, Invisible DEF Caller
  <2>4. CASE main_pc' = "sync"
    <3>1. Caller = "app" /\ Caller' = "sync"
      BY <2>1, <2>4 DEF Caller
    <3> QED
      BY <2>1, <2>2, <3>1 DEF Contract!Next, Contract!CallSync, Launched, StartedTasks
  <2> QED
    BY <2>1, <2>3, <2>4
<1>4. CASE DestroyNotify \/ Join
  <2>1. /\ UNCHANGED <<next_launch_id, total_tasks, curr_task_id, deps, terminate, job>>
        /\ pc' = AfterWake \/ pc' = pc
        /\ terminate
    BY <1>4 DEF DestroyNotify, Join, MainGoto, launchVars, syncVars
  <2>2. RunningTasks' = RunningTasks /\ Caller' = Caller
    BY <2>1 DEF RunningTasks, AfterWake, Caller
  <2> QED
    BY <2>1, <2>2, Invisible
<1>5. CASE Sync \/ Destroy
  <2>1. /\ UNCHANGED <<next_launch_id, total_tasks, curr_task_id, deps, pc, job>>
        /\ Caller = "app"
        /\ Caller' \in {"sync", "gone"}
    BY <1>5 DEF Sync, Destroy, MainGoto, launchVars, syncVars, Caller
  <2>2. RunningTasks' = RunningTasks
    BY <2>1 DEF RunningTasks
  <2> QED
    BY <2>1, <2>2 DEF Contract!Next, Contract!CallSync, Contract!Destroy, Launched, StartedTasks
<1>6. ASSUME NEW n \in TaskCounts, NEW D \in SUBSET Launched,
             RunAsyncWithDeps(n, D) \/ Run(n)
      PROVE  Contract!LaunchSome
  BY <1>6, AddLaunchRefines DEF RunAsyncWithDeps, Run, MainGoto
<1> QED
  BY <1>1, <1>2, <1>3, <1>4, <1>5, <1>6 DEF SyncLock, MainStep, Call, Contract!Next

(* Every behaviour of the pool is one that itasksys.h allows: tasks start  *)
(* after their dependencies, run once, and sync returns after all of them. *)
THEOREM PoolImplementsContract == SafeSpec => ImplementsSafely
<1>1. ASSUME IInv, [Next]_vars
      PROVE  [Contract!Next]_Contract!vars
  <2>1. CASE UNCHANGED vars
    BY <2>1 DEF vars, launchVars, syncVars, Contract!vars, Launched, StartedTasks,
                RunningTasks, Caller
  <2> QED
    BY <1>1, <2>1, WorkerStepRefines, MainStepRefines DEF Next
<1> QED
  BY <1>1, InitRefines, PoolInvariant, PTL DEF SafeSpec, ImplementsSafely, Contract!SafeSpec
=============================================================================
