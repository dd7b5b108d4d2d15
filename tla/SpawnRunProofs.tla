--------------------------- MODULE SpawnRunProofs ---------------------------
(***************************************************************************)
(* Proofs about SpawnRun, for every number of threads and of tasks that    *)
(* leaves the counter the room it needs (RoomToCount).                     *)
(***************************************************************************)
EXTENDS SpawnRun, FiniteSetTheorems, TLAPS

(* Between the threads that have exited and all of them there is room for  *)
(* each that has not.                                                      *)
LEMMA ExitedCount ==
    ASSUME NEW E \in SUBSET Worker, NEW w \in Worker \ E
    PROVE  /\ Cardinality(E) \in Nat
           /\ Cardinality(E) <= NumThreads - 1
           /\ Cardinality(E \cup {w}) = Cardinality(E) + 1
           /\ E \cup {w} # Worker => Cardinality(E) <= NumThreads - 2
<1>1. IsFiniteSet(Worker) /\ Cardinality(Worker) = NumThreads
    <2>1. 0 \in Int /\ NumThreads - 1 \in Int /\ ~(0 > NumThreads - 1)
        BY NumThreadsAssumption
    <2>2. IsFiniteSet(0 .. NumThreads - 1)
              /\ Cardinality(0 .. NumThreads - 1) = NumThreads - 1 - 0 + 1
        BY <2>1, FS_Interval
    <2> QED
        BY <2>2, NumThreadsAssumption DEF Worker
<1>2. ASSUME NEW S \in SUBSET Worker, NEW v \in Worker \ S
      PROVE  /\ IsFiniteSet(S) /\ Cardinality(S) \in Nat
             /\ Cardinality(S \cup {v}) = Cardinality(S) + 1
             /\ Cardinality(S) <= NumThreads - 1
    <2>1. IsFiniteSet(S)
        BY <1>1, FS_Subset
    <2>2. Cardinality(S \cup {v}) = Cardinality(S) + 1
        BY <2>1, FS_AddElement
    <2>3. Cardinality(S \cup {v}) <= NumThreads
        BY <1>1, FS_Subset
    <2>4. Cardinality(S) \in Nat
        BY <2>1, FS_CardinalityType
    <2> QED
        BY <2>1, <2>2, <2>3, <2>4, NumThreadsAssumption
<1>3. ASSUME E \cup {w} # Worker
      PROVE  Cardinality(E) <= NumThreads - 2
    <2>1. PICK v \in Worker : v \notin E \cup {w}
        BY <1>3
    <2>2. Cardinality(E \cup {w}) <= NumThreads - 1
        BY <1>2, <2>1
    <2> QED
        BY <1>2, <2>2, NumThreadsAssumption
<1> QED
    BY <1>2, <1>3

(* num_total_tasks is an int.                                              *)
LEMMA TotalType ==
    ASSUME IInv, Busy \/ main_pc = "called"
    PROVE  runs \in RunId /\ Total \in TaskCounts /\ Total \in Nat /\ Total <= IntMax
<1>1. runs \in RunId /\ Total \in TaskCounts
    BY DEF IInv, PlacesOK
<1>2. \A n \in TaskCounts : n \in Nat /\ n <= IntMax
    BY TaskCountsAssumption, IntMaxAssumption
<1> QED
    BY <1>1, <1>2

(* A thread that has not exited leaves fetch_add room for one more.        *)
LEMMA NoWrap ==
    ASSUME RoomToCount, IInv, NEW w \in Worker, pc[w] = "fetch"
    PROVE  /\ Busy /\ Exited # Worker /\ runs \in RunId
           /\ Total \in Nat /\ next_task \in Nat
           /\ Cardinality(Exited) \in Nat
           /\ next_task <= Total + Cardinality(Exited)
           /\ Cardinality(Exited \cup {w}) = Cardinality(Exited) + 1
           /\ next_task < Total \/ Exited \cup {w} # Worker => FetchAdd(w) = next_task + 1
<1>1. Busy
    BY DEF IInv, PlacesOK
<1>2. w \in Worker \ Exited /\ Exited \in SUBSET Worker
    BY DEF Exited
<1>3. runs \in RunId /\ Total \in TaskCounts /\ Total \in Nat /\ Total <= IntMax
    BY <1>1, TotalType
<1>4. Total + NumThreads - 1 <= IntMax
    BY <1>3 DEF RoomToCount
<1>5. next_task \in Nat /\ next_task <= Total + Cardinality(Exited)
    BY <1>1, <1>2 DEF IInv, CounterOK
<1>6. /\ Cardinality(Exited) \in Nat
      /\ Cardinality(Exited) <= NumThreads - 1
      /\ Cardinality(Exited \cup {w}) = Cardinality(Exited) + 1
      /\ Exited \cup {w} # Worker => Cardinality(Exited) <= NumThreads - 2
    BY <1>2, ExitedCount
<1>7. ASSUME next_task < Total \/ Exited \cup {w} # Worker
      PROVE  FetchAdd(w) = next_task + 1
    <2>1. next_task < IntMax
        BY <1>3, <1>4, <1>5, <1>6, <1>7, NumThreadsAssumption, IntMaxAssumption
    <2> QED
        BY <2>1, <1>5, IntMaxAssumption DEF FetchAdd
<1> QED
    BY <1>1, <1>2, <1>3, <1>5, <1>6, <1>7

-----------------------------------------------------------------------------
(* One lemma per action.                                                   *)

LEMMA FetchTaskStep ==
    ASSUME RoomToCount, IInv, NEW w \in Worker, FetchTask(w)
    PROVE  IInv'
<1> USE DEF FetchTask
<1>1. /\ Busy /\ Exited # Worker /\ runs \in RunId
      /\ Total \in Nat /\ next_task \in Nat /\ next_task < Total
      /\ Cardinality(Exited) \in Nat
      /\ next_task' = next_task + 1
    <2>1. /\ Busy /\ Exited # Worker /\ runs \in RunId
          /\ Total \in Nat /\ next_task \in Nat /\ Cardinality(Exited) \in Nat
          /\ next_task < Total => FetchAdd(w) = next_task + 1
        BY NoWrap
    <2>2. next_task < Total
        BY <2>1 DEF OutOfTasks
    <2> QED
        BY <2>1, <2>2
<1>2. Exited' = Exited /\ Total' = Total /\ Busy' = Busy /\ Running' = Running \cup {w}
          /\ w \notin Running /\ \A v \in Running : task_id'[v] = task_id[v]
    BY DEF IInv, TypeOK, Exited, Running, Total, Busy
<1>3. task_id'[w] = next_task
    BY DEF IInv, TypeOK
<1>4. TypeOK'
    BY <1>1 DEF IInv, TypeOK
<1>5. PlacesOK'
    BY <1>1, <1>2 DEF IInv, PlacesOK, TypeOK
<1>6. CounterOK'
    BY <1>1, <1>2, <1>3 DEF IInv, CounterOK, TypeOK, Running
<1>7. HandedOut'
    BY <1>1, <1>2, <1>3 DEF IInv, HandedOut
<1>8. TaskIdsInRange'
    BY <1>1, <1>2, <1>3 DEF IInv, TaskIdsInRange
<1>9. NoTaskTwice'
    BY <1>1, <1>2, <1>3 DEF IInv, NoTaskTwice, CounterOK
<1> QED
    BY <1>4, <1>5, <1>6, <1>7, <1>8, <1>9 DEF IInv

LEMMA ExitStep ==
    ASSUME RoomToCount, IInv, NEW w \in Worker, Exit(w)
    PROVE  IInv'
<1> USE DEF Exit
<1>1. /\ Busy /\ Exited # Worker /\ runs \in RunId
      /\ Total \in Nat /\ next_task \in Nat /\ next_task >= Total
      /\ Cardinality(Exited) \in Nat
      /\ next_task <= Total + Cardinality(Exited)
      /\ Cardinality(Exited \cup {w}) = Cardinality(Exited) + 1
      /\ Exited \cup {w} # Worker => next_task' = next_task + 1
    BY NoWrap DEF OutOfTasks
<1>2. Exited' = Exited \cup {w} /\ Total' = Total /\ Busy' = Busy /\ Running' = Running
    BY DEF IInv, TypeOK, Exited, Running, Total, Busy
<1>3. next_task' \in Int
    BY <1>1, IntMaxAssumption DEF FetchAdd
<1>4. TypeOK'
    BY <1>3 DEF IInv, TypeOK
<1>5. PlacesOK'
    BY <1>1, <1>2 DEF IInv, PlacesOK, TypeOK
<1>6. CounterOK'
    BY <1>1, <1>2 DEF IInv, CounterOK, TypeOK, Running
<1>7. HandedOut'
    BY <1>1, <1>2 DEF IInv, HandedOut
<1>8. TaskIdsInRange' /\ NoTaskTwice'
    BY <1>1, <1>2 DEF IInv, TaskIdsInRange, NoTaskTwice
<1> QED
    BY <1>4, <1>5, <1>6, <1>7, <1>8 DEF IInv

LEMMA ReturnTaskStep ==
    ASSUME IInv, NEW w \in Worker, ReturnTask(w)
    PROVE  IInv'
<1> USE DEF ReturnTask
<1>1. Busy /\ runs \in RunId /\ Total \in Nat
    BY TotalType DEF IInv, PlacesOK
<1>2. Exited' = Exited /\ Total' = Total /\ Busy' = Busy /\ Running' = Running \ {w}
          /\ w \in Running /\ Exited # Worker
    BY DEF IInv, TypeOK, Exited, Running, Total, Busy
<1>3. task_id[w] \in Int /\ task_id[w] < next_task
    BY <1>1, <1>2 DEF IInv, TypeOK, CounterOK
<1>4. TypeOK'
    BY <1>1, <1>3 DEF IInv, TypeOK
<1>5. PlacesOK'
    BY <1>1, <1>2 DEF IInv, PlacesOK, TypeOK, Busy, RunId
<1>6. CounterOK'
    BY <1>1, <1>2, <1>3 DEF IInv, CounterOK
<1>7. HandedOut'
    BY <1>1, <1>2 DEF IInv, HandedOut
<1>8. TaskIdsInRange' /\ NoTaskTwice'
    BY <1>1, <1>2 DEF IInv, TaskIdsInRange, NoTaskTwice
<1> QED
    BY <1>4, <1>5, <1>6, <1>7, <1>8 DEF IInv

LEMMA SpawnThreadStep ==
    ASSUME IInv, NEW w \in Worker, SpawnThread(w)
    PROVE  IInv'
<1> USE DEF SpawnThread
<1>1. /\ Exited' = Exited /\ Total' = Total /\ Running' = Running /\ Busy /\ Busy'
      /\ Exited # Worker
    BY DEF IInv, TypeOK, Exited, Running, Total, Busy
<1>2. TypeOK'
    BY DEF IInv, TypeOK
<1>3. PlacesOK'
    BY <1>1, NumThreadsAssumption DEF IInv, PlacesOK, TypeOK, Worker
<1>4. CounterOK' /\ HandedOut' /\ TaskIdsInRange' /\ NoTaskTwice'
    BY <1>1 DEF IInv, CounterOK, HandedOut, TaskIdsInRange, NoTaskTwice
<1> QED
    BY <1>2, <1>3, <1>4 DEF IInv

LEMMA StartRunStep ==
    ASSUME IInv, StartRun
    PROVE  IInv'
<1> USE DEF StartRun
<1>1. Total' = Total /\ Total \in Nat /\ runs \in RunId /\ Total \in TaskCounts
    BY TotalType DEF Total
<1>2. Exited' = {} /\ Running' = {} /\ Busy'
    BY DEF Exited, Running, Busy
<1>3. TypeOK'
    BY DEF IInv, TypeOK
<1>4. \A f \in finished : f[1] # runs
    BY <1>1 DEF IInv, PlacesOK, TypeOK, RunId
<1>5. PlacesOK'
    BY <1>1, <1>2 DEF IInv, PlacesOK
<1>6. CounterOK'
    <2>1. Cardinality({}) = 0
        BY FS_EmptySet
    <2> QED
        BY <1>1, <1>2, <1>4, <2>1 DEF CounterOK
<1>7. HandedOut' /\ TaskIdsInRange' /\ NoTaskTwice'
    BY <1>1, <1>2 DEF HandedOut, TaskIdsInRange, NoTaskTwice
<1> QED
    BY <1>3, <1>5, <1>6, <1>7 DEF IInv

LEMMA CallRunStep ==
    ASSUME IInv, NEW n \in TaskCounts, CallRun(n)
    PROVE  IInv'
<1> USE DEF CallRun
<1>1. runs \in Nat /\ runs + 1 \in RunId
    BY MaxRunsAssumption DEF IInv, TypeOK, RunId
<1>2. TypeOK'
    BY <1>1, MaxRunsAssumption DEF IInv, TypeOK, RunId
<1>3. Total' = n
    BY <1>1 DEF Total, IInv, TypeOK
<1>4. PlacesOK'
    BY <1>1, <1>3 DEF IInv, PlacesOK, Busy, Exited, TypeOK, RunId
<1>5. ~Busy'
    BY DEF Busy
<1> QED
    BY <1>2, <1>4, <1>5 DEF IInv, CounterOK, HandedOut

LEMMA QuietStep ==
    ASSUME IInv, Join \/ Destroy \/ UNCHANGED vars
    PROVE  IInv'
<1>1. CASE Join \/ Destroy
    BY <1>1 DEF Join, Joinable, Destroy, IInv, TypeOK, PlacesOK, CounterOK, HandedOut, Busy
<1>2. CASE UNCHANGED vars
    BY <1>2 DEF vars, IInv, TypeOK, PlacesOK, CounterOK, HandedOut, TaskIdsInRange,
                NoTaskTwice, Busy, Exited, Running, Total
<1> QED
    BY <1>1, <1>2

-----------------------------------------------------------------------------

(* The invariant of SpawnRun: the counter never wraps while a thread can   *)
(* still read it.                                                          *)
THEOREM SpawnInvariant ==
    ASSUME RoomToCount
    PROVE  SafeSpec => []IInv
<1>1. Init => IInv
    BY MaxRunsAssumption
       DEF Init, IInv, TypeOK, PlacesOK, CounterOK, HandedOut, Busy, Exited
<1>2. IInv /\ [Next]_vars => IInv'
    BY FetchTaskStep, ExitStep, ReturnTaskStep, SpawnThreadStep, StartRunStep, CallRunStep,
       QuietStep DEF Next, Step, MainStep, SpawnSome
<1> QED
    BY <1>1, <1>2, PTL DEF SafeSpec

(* itasksys.h:15-16: with room for the threads' overshoot above            *)
(* num_total_tasks, every task_id is between 0 and num_total_tasks-1.      *)
THEOREM SpawnTaskIds ==
    ASSUME RoomToCount
    PROVE  SafeSpec => []TaskIdsInRange
<1>1. IInv => TaskIdsInRange
    BY DEF IInv, PlacesOK, TaskIdsInRange, Running
<1> QED
    BY <1>1, SpawnInvariant, PTL

(* With that room, no task runs twice.                                     *)
THEOREM SpawnOnce ==
    ASSUME RoomToCount
    PROVE  SafeSpec => []NoTaskTwice
<1>1. IInv => NoTaskTwice
    BY DEF IInv, PlacesOK, NoTaskTwice, Running
<1> QED
    BY <1>1, SpawnInvariant, PTL

(* itasksys.h:36-39: with that room, run() returns only when all is done.  *)
THEOREM SpawnRunSound ==
    ASSUME RoomToCount
    PROVE  SafeSpec => RunReturnsComplete
<1>1. IInv /\ [Next]_vars => [main_pc = "join" /\ main_pc' = "app" =>
                                {runs} \X (0 .. Total - 1) \subseteq finished]_vars
    <2> SUFFICES ASSUME IInv, Join
                 PROVE  {runs} \X (0 .. Total - 1) \subseteq finished
        BY DEF Next, Step, FetchTask, Exit, ReturnTask, MainStep, StartRun, SpawnSome,
               SpawnThread, Destroy, CallRun, vars
    <2>1. Running = {} /\ Exited = Worker /\ Worker # {} /\ Busy
        BY NumThreadsAssumption DEF Join, Joinable, Running, Exited, Busy, Worker
    <2> QED
        BY <2>1 DEF IInv, HandedOut
<1> QED
    BY <1>1, SpawnInvariant, PTL DEF SafeSpec, RunReturnsComplete
-----------------------------------------------------------------------------
(* SpawnRun keeps the safety of the contract.                              *)

AllReturned(r) == {r} \X (0 .. num_total_tasks[r] - 1) \subseteq finished

(* What run() has returned from is done, and stays so.                     *)
EarlierRunsDone ==
    \A r \in 1 .. runs : r # runs \/ main_pc \in {"app", "gone"} => AllReturned(r)

(* When every thread has exited, every task has returned.                  *)
LEMMA JoinReturned ==
    ASSUME IInv, Join
    PROVE  AllReturned(runs)
<1>1. Running = {} /\ Exited = Worker /\ Worker # {} /\ Busy
    BY NumThreadsAssumption DEF Join, Joinable, Running, Exited, Busy, Worker
<1> QED
    BY <1>1 DEF IInv, HandedOut, AllReturned, Total

LEMMA EarlierRunsDoneStep ==
    ASSUME IInv, EarlierRunsDone, [Next]_vars
    PROVE  EarlierRunsDone'
<1> USE DEF EarlierRunsDone
<1>1. CASE UNCHANGED <<runs, num_total_tasks>> /\ finished \subseteq finished'
                /\ (main_pc' \in {"app", "gone"} => main_pc \in {"app", "gone"})
    <2>1. \A r \in 1 .. runs : AllReturned(r) => AllReturned(r)'
        BY <1>1 DEF AllReturned
    <2> QED
        BY <1>1, <2>1
<1>2. CASE Join
    <2>1. \A r \in 1 .. runs : AllReturned(r)
        BY <1>2, JoinReturned
    <2>2. UNCHANGED <<runs, num_total_tasks, finished>>
        BY <1>2 DEF Join
    <2>3. \A r \in 1 .. runs : AllReturned(r)'
        BY <2>1, <2>2 DEF AllReturned
    <2> QED
        BY <2>2, <2>3
<1>3. ASSUME NEW n \in TaskCounts, CallRun(n)
      PROVE  EarlierRunsDone'
    <2>1. /\ main_pc = "app" /\ main_pc' = "called" /\ runs \in Nat /\ runs' = runs + 1
          /\ finished' = finished
          /\ num_total_tasks' = [num_total_tasks EXCEPT ![runs + 1] = n]
        BY <1>3 DEF CallRun, IInv, TypeOK
    <2>2. ASSUME NEW r \in 1 .. runs', r # runs'
          PROVE  AllReturned(r)'
        <3>1. r \in 1 .. runs /\ r # runs + 1 /\ r \in RunId
            BY <2>1, <2>2, MaxRunsAssumption DEF RunId, IInv, TypeOK
        <3>2. AllReturned(r)
            BY <2>1, <3>1
        <3>3. num_total_tasks'[r] = num_total_tasks[r]
            BY <2>1, <3>1 DEF IInv, TypeOK
        <3> QED
            BY <2>1, <3>2, <3>3 DEF AllReturned
    <2> QED
        BY <2>1, <2>2
<1>4. CASE Destroy
    BY <1>1, <1>4 DEF Destroy
<1>5. CASE UNCHANGED vars
    BY <1>1, <1>5 DEF vars
<1>6. CASE StartRun \/ SpawnSome
    BY <1>1, <1>6 DEF StartRun, SpawnSome, SpawnThread
<1>7. ASSUME NEW w \in Worker, Step(w)
      PROVE  EarlierRunsDone'
    BY <1>1, <1>7 DEF Step, FetchTask, Exit, ReturnTask
<1> QED
    BY <1>2, <1>3, <1>4, <1>5, <1>6, <1>7 DEF Next, MainStep

-----------------------------------------------------------------------------

LEMMA RunningMembers ==
    ASSUME NEW t
    PROVE  t \in RunningTasks <=>
              \E w \in Worker : pc[w] = "running" /\ t = <<runs, task_id[w]>>
BY DEF RunningTasks, Running

LEMMA FetchTaskRefines ==
    ASSUME RoomToCount, IInv, EarlierRunsDone, NEW w \in Worker, FetchTask(w)
    PROVE  Contract!StartSome
<1> DEFINE t == <<runs, next_task>>
<1>1. /\ Busy /\ Exited # Worker /\ runs \in RunId /\ runs \in 1 .. runs
      /\ Total \in Nat /\ next_task \in Nat /\ next_task < Total
    <2>1. /\ Busy /\ Exited # Worker /\ runs \in RunId
          /\ Total \in Nat /\ next_task \in Nat
        BY NoWrap DEF FetchTask
    <2>2. next_task < Total
        BY <2>1 DEF FetchTask, OutOfTasks
    <2> QED
        BY <2>1, <2>2 DEF RunId
<1>2. /\ pc[w] = "fetch" /\ pc' = [pc EXCEPT ![w] = "running"]
      /\ task_id' = [task_id EXCEPT ![w] = next_task]
      /\ UNCHANGED <<runs, num_total_tasks, finished, main_pc>>
    BY DEF FetchTask
<1>3. t \notin RunningTasks /\ t \notin finished
    <2>1. \A v \in Running : task_id[v] < next_task /\ task_id[v] \in Int
        BY <1>1 DEF IInv, CounterOK, TypeOK, Running
    <2>2. t \notin finished
        BY <1>1 DEF IInv, CounterOK
    <2> QED
        BY <1>1, <2>1, <2>2 DEF RunningTasks
<1>4. RunningTasks' = RunningTasks \cup {t}
    <2>1. Running' = Running \cup {w} /\ task_id'[w] = next_task /\ w \notin Running
              /\ \A v \in Running : task_id'[v] = task_id[v]
        BY <1>2 DEF IInv, TypeOK, Running
    <2> QED
        BY <1>2, <2>1 DEF RunningTasks
<1>5. t \in Contract!Tasks(runs)
    BY <1>1 DEF Contract!Tasks, Total
<1>6. Contract!CanStart(t)
    BY <1>1, <1>3, <1>5 DEF Contract!CanStart
<1>7. Caller # "gone" /\ Caller' = Caller
    BY <1>1, <1>2 DEF Caller, Busy
<1>8. Contract!Start(t)
    BY <1>2, <1>4, <1>6, <1>7 DEF Contract!Start
<1> QED
    BY <1>1, <1>5, <1>8 DEF Contract!StartSome

LEMMA ReturnTaskRefines ==
    ASSUME IInv, NEW w \in Worker, ReturnTask(w)
    PROVE  Contract!FinishSome
<1> DEFINE t == <<runs, task_id[w]>>
<1>1. /\ pc[w] = "running" /\ pc' = [pc EXCEPT ![w] = "fetch"]
      /\ finished' = finished \cup {t}
      /\ UNCHANGED <<task_id, runs, num_total_tasks, main_pc>>
    BY DEF ReturnTask
<1>2. t \in RunningTasks /\ w \in Running /\ Busy
    BY <1>1, RunningMembers DEF Running, IInv, PlacesOK
<1>3. RunningTasks' = RunningTasks \ {t}
    <2>1. Running' = Running \ {w}
        BY <1>1 DEF IInv, TypeOK, Running
    <2>2. \A v \in Running : task_id[v] = task_id[w] => v = w
        BY <1>2 DEF IInv, NoTaskTwice
    <2> QED
        BY <1>1, <2>1, <2>2 DEF RunningTasks
<1>4. Caller' = Caller
    BY <1>1 DEF Caller, Busy
<1>5. Contract!Finish(t)
    BY <1>1, <1>2, <1>3, <1>4 DEF Contract!Finish
<1> QED
    BY <1>2, <1>5 DEF Contract!FinishSome

LEMMA CallRunRefines ==
    ASSUME IInv, NEW n \in TaskCounts, CallRun(n)
    PROVE  Contract!LaunchSome
<1>1. /\ runs \in Nat /\ runs < MaxRuns /\ runs' = runs + 1
      /\ num_total_tasks' = [num_total_tasks EXCEPT ![runs + 1] = n]
      /\ main_pc = "app" /\ main_pc' = "called"
      /\ UNCHANGED <<finished, pc, task_id>>
    BY DEF CallRun, IInv, TypeOK
<1>2. runs + 1 \in RunId /\ runs + 1 \notin 1 .. runs /\ 1 .. runs' = (1 .. runs) \cup {runs + 1}
    BY <1>1, MaxRunsAssumption DEF RunId
<1>3. RunningTasks' = RunningTasks
    <2>1. Running = {} /\ Running' = {}
        BY <1>1 DEF Running, IInv, PlacesOK, Busy
    <2> QED
        BY <2>1 DEF RunningTasks
<1>4. Caller = "app" /\ Caller' = "app"
    BY <1>1 DEF Caller, Busy
<1>5. [r \in RunId |-> {}] = [[r \in RunId |-> {}] EXCEPT ![runs + 1] = {}]
    OBVIOUS
<1>6. Contract!Launch(runs + 1, n, {})
    BY <1>1, <1>2, <1>3, <1>4, <1>5 DEF Contract!Launch
<1> QED
    BY <1>2, <1>6 DEF Contract!LaunchSome

LEMMA MainRefines ==
    ASSUME IInv, EarlierRunsDone, MainStep \/ Destroy
    PROVE  [Contract!Next]_Contract!vars
<1>1. CASE StartRun
    <2>1. /\ main_pc = "called" /\ main_pc' = "spawn"
          /\ UNCHANGED <<runs, num_total_tasks, finished>>
        BY <1>1 DEF StartRun
    <2>2. RunningTasks = {} /\ RunningTasks' = {}
        BY <1>1 DEF StartRun, RunningTasks, Running, IInv, PlacesOK, Busy
    <2>3. Caller = "app" /\ Caller' = "sync"
        BY <2>1 DEF Caller, Busy
    <2> QED
        BY <2>1, <2>2, <2>3 DEF Contract!Next, Contract!CallSync
<1>2. CASE SpawnSome
    <2>1. UNCHANGED <<runs, num_total_tasks, finished, task_id>>
        BY <1>2 DEF SpawnSome, SpawnThread
    <2>2. Running' = Running
        BY <1>2 DEF SpawnSome, SpawnThread, Running, IInv, TypeOK
    <2>3. Caller' = Caller
        BY <1>2 DEF SpawnSome, SpawnThread, Caller, Busy
    <2> QED
        BY <2>1, <2>2, <2>3 DEF Contract!vars, RunningTasks
<1>3. CASE Join
    <2>1. /\ main_pc = "join" /\ main_pc' = "app"
          /\ UNCHANGED <<runs, num_total_tasks, finished, pc, task_id>>
        BY <1>3 DEF Join
    <2>2. \A r \in 1 .. runs : AllReturned(r)
        BY <1>3, JoinReturned DEF EarlierRunsDone
    <2>3. \A r \in 1 .. runs : Contract!Done(r)
        BY <2>2 DEF AllReturned, Contract!Done, Contract!Tasks
    <2>4. Caller = "sync" /\ Caller' = "app"
        BY <2>1 DEF Caller, Busy
    <2>5. RunningTasks' = RunningTasks
        BY <2>1 DEF RunningTasks, Running
    <2> QED
        BY <2>1, <2>3, <2>4, <2>5 DEF Contract!Next, Contract!ReturnSync
<1>4. CASE Destroy
    <2>1. /\ main_pc = "app" /\ main_pc' = "gone"
          /\ UNCHANGED <<runs, num_total_tasks, finished, pc, task_id>>
        BY <1>4 DEF Destroy
    <2>2. Caller = "app" /\ Caller' = "gone"
        BY <2>1 DEF Caller, Busy
    <2>3. RunningTasks' = RunningTasks
        BY <2>1 DEF RunningTasks, Running
    <2> QED
        BY <2>1, <2>2, <2>3 DEF Contract!Next, Contract!Destroy
<1> QED
    BY <1>1, <1>2, <1>3, <1>4 DEF MainStep

(* itasksys.h:36-39, with that room: run() runs every task once and        *)
(* returns only when all have returned, although the threads share nothing *)
(* but a counter.                                                          *)
THEOREM SpawnImplementsSafely ==
    ASSUME RoomToCount
    PROVE  SafeSpec => ImplementsSafely
<1>1. Init => Contract!Init /\ EarlierRunsDone
    <2> SUFFICES ASSUME Init PROVE Contract!Init /\ EarlierRunsDone
        OBVIOUS
    <2>1. RunningTasks = {} /\ Caller = "app" /\ 1 .. runs = {}
        BY DEF Init, RunningTasks, Running, Caller, Busy
    <2> QED
        BY <2>1 DEF Init, Contract!Init, EarlierRunsDone
<1>2. IInv /\ EarlierRunsDone /\ [Next]_vars => EarlierRunsDone'
    BY EarlierRunsDoneStep
<1>3. ASSUME IInv, EarlierRunsDone, [Next]_vars
      PROVE  [Contract!Next]_Contract!vars
    <2>1. ASSUME NEW w \in Worker, Exit(w)
          PROVE  UNCHANGED Contract!vars
        <3>1. UNCHANGED <<task_id, runs, num_total_tasks, finished, main_pc>>
            BY <2>1 DEF Exit
        <3>2. Running' = Running
            BY <1>3, <2>1 DEF Exit, Running, IInv, TypeOK
        <3> QED
            BY <3>1, <3>2 DEF Contract!vars, RunningTasks, Caller, Busy
    <2>2. CASE UNCHANGED vars
        BY <2>2 DEF vars, Contract!vars, RunningTasks, Running, Caller, Busy
    <2>3. ASSUME NEW w \in Worker, Step(w)
          PROVE  [Contract!Next]_Contract!vars
        BY <1>3, <2>1, <2>3, FetchTaskRefines, ReturnTaskRefines DEF Step, Contract!Next
    <2> QED
        BY <1>3, <2>2, <2>3, MainRefines, CallRunRefines DEF Next, Contract!Next
<1> QED
    BY <1>1, <1>2, <1>3, SpawnInvariant, PTL
       DEF SafeSpec, ImplementsSafely, Contract!SafeSpec
=============================================================================
