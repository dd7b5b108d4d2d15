-------------------------- MODULE TaskSystemProofs --------------------------
(***************************************************************************)
(* Proofs about the contract: it is type correct and no graph of launches  *)
(* deadlocks it.  Then the strict tests: a task system that keeps the      *)
(* contract passes them, and the flags they rest on are never raced for.   *)
(***************************************************************************)
EXTENDS StrictDependencyTest, FiniteSetTheorems, TLAPS

(* Launches are complete records from the step that makes them: they       *)
(* depend on earlier launches only, and only their own tasks run.          *)
LaunchedOnly ==
    /\ \A l \in launched : deps[l] \subseteq launched
    /\ \A t \in running \cup finished : t[1] \in launched

(* The guard of Start is never undone: a launch that has begun has no      *)
(* dependency that is not done, whatever has been launched since.          *)
DependenciesClosed ==
    \A t \in running \cup finished : \A d \in deps[t[1]] : Done(d)

TInv == TypeOK /\ LaunchedOnly /\ DependenciesClosed

(* The tasks of a launch are pairs of the launch and a task number.        *)
LEMMA TaskShape ==
    ASSUME TypeOK, NEW l \in LaunchId
    PROVE  Tasks(l) \subseteq {l} \X Nat
<1>1. num_total_tasks[l] \in TaskCounts \cup {0}
    BY DEF TypeOK
<1>2. \A n \in TaskCounts \cup {0} : n \in Nat
    BY TaskCountsAssumption
<1>3. num_total_tasks[l] \in Nat
    BY <1>1, <1>2
<1> QED
    BY <1>3 DEF Tasks

(* A launch that is done stays done: the number of its tasks is fixed when *)
(* it is launched and no finished task is forgotten.                       *)
LEMMA DoneStaysDone ==
    ASSUME TInv, [Next]_vars, NEW l \in launched, Done(l)
    PROVE  l \in launched' /\ Done(l)'
<1>1. num_total_tasks'[l] = num_total_tasks[l] /\ finished \subseteq finished'
          /\ launched \subseteq launched'
    BY DEF TInv, TypeOK, Next, LaunchSome, Launch, StartSome, Start, FinishSome, Finish,
           CallSync, ReturnSync, Destroy, vars
<1> QED
    BY <1>1 DEF Done, Tasks

LEMMA ContractStep ==
    ASSUME TInv, [Next]_vars
    PROVE  TInv'
<1>1. ASSUME NEW l \in LaunchId, NEW n \in TaskCounts, NEW D \in SUBSET launched,
             Launch(l, n, D)
      PROVE  TInv'
    <2>1. TypeOK'
        BY <1>1 DEF Launch, TInv, TypeOK
    <2>2. LaunchedOnly'
        BY <1>1 DEF Launch, TInv, TypeOK, LaunchedOnly
    <2>3. \A t \in running \cup finished : deps'[t[1]] = deps[t[1]]
        BY <1>1 DEF Launch, TInv, TypeOK, LaunchedOnly
    <2>4. ASSUME NEW t \in running \cup finished, NEW d \in deps[t[1]]
          PROVE  Done(d)'
        BY <2>4, DoneStaysDone DEF TInv, LaunchedOnly, DependenciesClosed
    <2>5. DependenciesClosed'
        BY <1>1, <2>3, <2>4 DEF DependenciesClosed, Launch
    <2> QED
        BY <2>1, <2>2, <2>5 DEF TInv
<1>2. ASSUME NEW l \in launched, NEW t \in Tasks(l), Start(t)
      PROVE  TInv'
    <2>1. t[1] = l /\ t \in LaunchId \X Nat
        BY <1>2, TaskShape DEF TInv, TypeOK
    <2>2. TypeOK'
        BY <1>2, <2>1 DEF Start, TInv, TypeOK
    <2>3. LaunchedOnly'
        BY <1>2, <2>1 DEF Start, TInv, LaunchedOnly
    <2>4. \A s \in (running \cup finished)' : \A d \in deps[s[1]] : Done(d)
        BY <1>2 DEF Start, CanStart, TInv, DependenciesClosed
    <2>5. DependenciesClosed'
        BY <1>2, <2>4 DEF DependenciesClosed, Start, Done, Tasks
    <2> QED
        BY <2>2, <2>3, <2>5 DEF TInv
<1>3. ASSUME NEW t \in running, Finish(t)
      PROVE  TInv'
    <2>1. TypeOK'
        BY <1>3 DEF Finish, TInv, TypeOK
    <2>2. LaunchedOnly'
        BY <1>3 DEF Finish, TInv, LaunchedOnly
    <2>3. (running \cup finished)' = running \cup finished /\ deps' = deps
        BY <1>3 DEF Finish
    <2>4. ASSUME NEW s \in running \cup finished, NEW d \in deps[s[1]]
          PROVE  Done(d)'
        BY <2>4, DoneStaysDone DEF TInv, LaunchedOnly, DependenciesClosed
    <2>5. DependenciesClosed'
        BY <2>3, <2>4 DEF DependenciesClosed
    <2> QED
        BY <2>1, <2>2, <2>5 DEF TInv
<1>4. CASE CallSync \/ ReturnSync \/ Destroy \/ UNCHANGED vars
    BY <1>4 DEF CallSync, ReturnSync, Destroy, vars, TInv, TypeOK, LaunchedOnly,
                DependenciesClosed, Done, Tasks
<1> QED
    BY <1>1, <1>2, <1>3, <1>4 DEF Next, LaunchSome, StartSome, FinishSome

(* The invariant of the contract.                                          *)
THEOREM ContractInvariant == SafeSpec => []TInv
<1>1. Init => TInv
    BY DEF Init, TInv, TypeOK, LaunchedOnly, DependenciesClosed
<1>2. TInv /\ [Next]_vars => TInv'
    BY ContractStep
<1> QED
    BY <1>1, <1>2, PTL DEF SafeSpec

(* Type correctness of the contract.                                       *)
THEOREM ContractTypes == SafeSpec => []TypeOK
BY ContractInvariant, PTL DEF TInv

-----------------------------------------------------------------------------
(* No graph of launches deadlocks the contract.                            *)

(* Dependencies are launches made before: they have no cycle, nor anything *)
(* else from which no launch is first.                                     *)
NoCycle == \A S \in SUBSET launched : S = {} \/ \E l \in S : deps[l] \cap S = {}

LEMMA NoCycleStep ==
    ASSUME TInv, NoCycle, [Next]_vars
    PROVE  NoCycle'
<1>1. ASSUME NEW l \in LaunchId, NEW n \in TaskCounts, NEW D \in SUBSET launched,
             Launch(l, n, D)
      PROVE  NoCycle'
    <2>1. launched' = launched \cup {l} /\ l \notin launched /\ deps'[l] = D
              /\ \A m \in launched : deps'[m] = deps[m] /\ deps[m] \subseteq launched
        BY <1>1 DEF Launch, TInv, TypeOK, LaunchedOnly
    <2> SUFFICES ASSUME NEW S \in SUBSET launched', S # {}
                 PROVE  \E m \in S : deps'[m] \cap S = {}
        BY DEF NoCycle
    <2>2. CASE S \ {l} = {}
        BY <2>1, <2>2
    <2>3. CASE S \ {l} # {}
        <3>1. S \ {l} \in SUBSET launched
            BY <2>1
        <3>2. PICK m \in S \ {l} : deps[m] \cap (S \ {l}) = {}
            BY <2>3, <3>1 DEF NoCycle
        <3> QED
            BY <2>1, <3>1, <3>2
    <2> QED
        BY <2>2, <2>3
<1>2. CASE UNCHANGED <<launched, deps>>
    BY <1>2 DEF NoCycle
<1> QED
    BY <1>1, <1>2 DEF Next, LaunchSome, StartSome, Start, FinishSome, Finish, CallSync,
       ReturnSync, Destroy, vars

(* What keeps sync() waiting is running or may start.                      *)
NeverStuck ==
    (\E l \in launched : ~Done(l)) =>
        running # {} \/ \E l \in launched : \E t \in Tasks(l) : CanStart(t)

(* itasksys.h:49-52 and 64-67: launches wait for launches and sync for all *)
(* of them, and yet, for any number of launches and any dependencies, as   *)
(* long as one is not done a task is running or may start.                 *)
THEOREM ContractNeverStuck == SafeSpec => []NeverStuck
<1>1. Init => NoCycle
    BY DEF Init, NoCycle
<1>2. TInv /\ NoCycle /\ [Next]_vars => NoCycle'
    BY NoCycleStep
<1>3. ASSUME TInv, NoCycle
      PROVE  NeverStuck
    <2> SUFFICES ASSUME \E l \in launched : ~Done(l), running = {}
                 PROVE  \E l \in launched : \E t \in Tasks(l) : CanStart(t)
        BY DEF NeverStuck
    <2> DEFINE S == {l \in launched : ~Done(l)}
    <2>1. PICK l \in S : deps[l] \cap S = {}
        BY <1>3 DEF NoCycle
    <2>2. \A d \in deps[l] : Done(d)
        BY <1>3, <2>1 DEF TInv, LaunchedOnly
    <2>3. PICK t \in Tasks(l) : t \notin finished
        BY <2>1 DEF Done
    <2>4. t[1] = l
        BY <2>3 DEF Tasks
    <2>5. CanStart(t)
        BY <2>1, <2>2, <2>3, <2>4 DEF CanStart
    <2> QED
        BY <2>1, <2>5
<1> QED
    BY <1>1, <1>2, <1>3, ContractInvariant, PTL DEF SafeSpec

-----------------------------------------------------------------------------
(* The strict tests, whose steps are steps of the contract or stutters.    *)

(* Every task that has begun is where runTask is, and of the right launch. *)
BegunOK ==
    /\ running \cap finished = {}
    /\ \A t \in running \cup finished : t \in Tasks(t[1])
    /\ looking \subseteq running /\ marking \subseteq running \ looking

(* The tasks of a launch that have counted themselves as ended.            *)
Ended(l) == {t \in finished \cup marking : t[1] = l}

CountersOK ==
    /\ tasks_started \in [LaunchId -> Nat]
    /\ tasks_ended \in [LaunchId -> Nat]
    /\ \A l \in LaunchId : tasks_ended[l] = Cardinality(Ended(l))
    /\ \A t \in running \cup finished : tasks_started[t[1]] > 0

(* The first task of a launch has seen its dependencies done, or is about  *)
(* to; the last one has said so, or is about to.                           *)
FlagsOK ==
    /\ satisfied \in [LaunchId -> BOOLEAN]
    /\ done_flag \in [LaunchId -> BOOLEAN]
    /\ \A l \in LaunchId :
          tasks_started[l] > 0 => satisfied[l] \/ \E t \in looking : t[1] = l
    /\ \A t \in marking : tasks_ended[t[1]] = num_total_tasks[t[1]]
    /\ \A l \in launched :
          tasks_ended[l] = num_total_tasks[l] => done_flag[l] \/ \E t \in marking : t[1] = l

VerdictOK ==
    /\ caller = "sync" \/ passed # "none" => launched = LaunchId
    /\ TestPasses

TestInv == TInv /\ BegunOK /\ CountersOK /\ FlagsOK /\ VerdictOK

LEMMA TaskNumbers ==
    ASSUME NEW n \in Nat
    PROVE  IsFiniteSet(0 .. n - 1) /\ Cardinality(0 .. n - 1) = n
<1>1. 0 \in Int /\ n - 1 \in Int
    OBVIOUS
<1>2. /\ IsFiniteSet(0 .. n - 1)
      /\ Cardinality(0 .. n - 1) = IF 0 > n - 1 THEN 0 ELSE n - 1 - 0 + 1
    BY <1>1, FS_Interval, Zenon
<1> QED
    BY <1>2

LEMMA TasksCardinality ==
    ASSUME TInv, NEW l \in LaunchId
    PROVE  /\ num_total_tasks[l] \in Nat
           /\ IsFiniteSet(Tasks(l)) /\ Cardinality(Tasks(l)) = num_total_tasks[l]
<1>1. num_total_tasks[l] \in Nat
    <2>1. num_total_tasks[l] \in TaskCounts \cup {0}
        BY DEF TInv, TypeOK
    <2>2. \A n \in TaskCounts \cup {0} : n \in Nat
        BY TaskCountsAssumption
    <2> QED
        BY <2>1, <2>2
<1> DEFINE ids == 0 .. num_total_tasks[l] - 1
<1>2. IsFiniteSet(ids) /\ Cardinality(ids) = num_total_tasks[l]
    BY <1>1, TaskNumbers
<1>3. IsFiniteSet({l}) /\ Cardinality({l}) = 1
    BY FS_Singleton
<1>4. Tasks(l) = {l} \X ids
    BY DEF Tasks
<1> HIDE DEF ids
<1>5. IsFiniteSet({l} \X ids) /\ Cardinality({l} \X ids) = 1 * Cardinality(ids)
    BY <1>2, <1>3, FS_Product
<1> QED
    BY <1>1, <1>2, <1>4, <1>5

LEMMA EndedFinite ==
    ASSUME TInv, BegunOK, NEW l \in LaunchId
    PROVE  Ended(l) \subseteq Tasks(l) /\ IsFiniteSet(Ended(l)) /\ Cardinality(Ended(l)) \in Nat
<1>1. Ended(l) \subseteq Tasks(l)
    BY DEF Ended, BegunOK
<1>2. IsFiniteSet(Ended(l))
    BY <1>1, TasksCardinality, FS_Subset
<1> QED
    BY <1>1, <1>2, FS_CardinalityType

(* When as many have ended as there are, all have.                         *)
LEMMA AllEnded ==
    ASSUME TestInv, NEW l \in LaunchId, tasks_ended[l] = num_total_tasks[l]
    PROVE  Tasks(l) \subseteq finished \cup marking
<1> USE DEF TestInv
<1>1. Cardinality(Ended(l)) = Cardinality(Tasks(l))
    BY TasksCardinality DEF CountersOK
<1>2. Ended(l) = Tasks(l)
    BY <1>1, EndedFinite, TasksCardinality, FS_Subset
<1> QED
    BY <1>2 DEF Ended

(* A launch that is done in the contract has its flag set.                 *)
LEMMA DoneIsFlagged ==
    ASSUME TestInv, NEW l \in launched, Done(l)
    PROVE  done_flag[l]
<1> USE DEF TestInv
<1>1. l \in LaunchId
    BY DEF TInv, TypeOK
<1>2. Tasks(l) \subseteq Ended(l)
    BY <1>1, TaskShape DEF Done, Ended, TInv
<1>3. Ended(l) = Tasks(l)
    BY <1>1, <1>2, EndedFinite
<1>4. tasks_ended[l] = num_total_tasks[l]
    BY <1>1, <1>3, TasksCardinality DEF CountersOK
<1>5. \A t \in marking : t[1] # l
    BY DEF Done, BegunOK
<1> QED
    BY <1>4, <1>5 DEF FlagsOK

LEMMA NextLaunch ==
    ASSUME TInv, launched # LaunchId
    PROVE  Cardinality(launched) \in LaunchId
<1>1. launched \in SUBSET LaunchId /\ IsFiniteSet(LaunchId)
    BY LaunchIdAssumption DEF TInv, TypeOK
<1>2. IsFiniteSet(launched) /\ Cardinality(launched) <= Cardinality(LaunchId)
      /\ Cardinality(launched) # Cardinality(LaunchId)
    BY <1>1, FS_Subset
<1>3. Cardinality(launched) \in Nat /\ Cardinality(LaunchId) \in Nat
    BY <1>1, <1>2, FS_CardinalityType
<1> QED
    BY <1>2, <1>3, LaunchIdAssumption

(* The tests keep to the contract: each of their steps is one of its own   *)
(* or is not seen by it.                                                   *)
LEMMA TestKeepsContract ==
    ASSUME TInv, [TestNext]_allVars
    PROVE  [Next]_vars
<1>1. CASE LaunchNext
    BY <1>1, NextLaunch DEF LaunchNext, Next, LaunchSome
<1>2. CASE SyncAll \/ Report \/ Delete
    BY <1>2 DEF SyncAll, Report, Delete, Next
<1>3. CASE EnterSome
    BY <1>3 DEF EnterSome, Enter, Next, StartSome
<1>4. CASE AdvanceSome
    BY <1>4 DEF AdvanceSome, DepsMet, Leave, Mark, Next, FinishSome
<1>5. CASE UNCHANGED allVars
    BY <1>5 DEF allVars
<1> QED
    BY <1>1, <1>2, <1>3, <1>4, <1>5 DEF TestNext, TestThread

(* Now every action of the test keeps the rest of the invariant.           *)

TestRest == BegunOK /\ CountersOK /\ FlagsOK /\ VerdictOK

LEMMA LaunchStep ==
    ASSUME TestInv, LaunchNext
    PROVE  TestRest'
<1> USE DEF TestInv
<1>1. PICK l \in LaunchId, k \in TaskCounts, D \in SUBSET launched : Launch(l, k, D)
    BY NextLaunch DEF LaunchNext
<1>2. /\ l \notin launched /\ launched' = launched \cup {l} /\ caller = "app" /\ caller' = "app"
      /\ num_total_tasks' = [num_total_tasks EXCEPT ![l] = k]
      /\ passed = "none" /\ k # 0
      /\ UNCHANGED <<running, finished, testVars>>
    BY <1>1, TestTaskCountsAssumption DEF Launch, LaunchNext, VerdictOK
<1> USE DEF testVars
<1>3. \A t \in running \cup finished : t[1] \in launched /\ t[1] # l
    BY <1>2 DEF TInv, LaunchedOnly
<1>4. \A m \in launched : m \in LaunchId /\ num_total_tasks'[m] = num_total_tasks[m]
    BY <1>2 DEF TInv, TypeOK
<1>5. BegunOK'
    <2>1. \A t \in running \cup finished : Tasks(t[1])' = Tasks(t[1])
        BY <1>3, <1>4 DEF Tasks
    <2> QED
        BY <1>2, <2>1 DEF BegunOK
<1>6. CountersOK'
    BY <1>2 DEF CountersOK, Ended
<1>7. num_total_tasks'[l] # 0 /\ tasks_ended[l] = 0
    <2>1. Ended(l) = {}
        BY <1>3 DEF Ended, BegunOK
    <2>2. Cardinality(Ended(l)) = 0
        BY <2>1, FS_EmptySet
    <2> QED
        BY <1>2, <2>2 DEF CountersOK, TInv, TypeOK
<1>8. FlagsOK'
    <2>1. \A t \in marking : t[1] \in launched
        BY <1>3 DEF BegunOK
    <2> QED
        BY <1>2, <1>4, <1>7, <2>1 DEF FlagsOK
<1>9. VerdictOK'
    BY <1>2 DEF VerdictOK, TestPasses
<1> QED
    BY <1>5, <1>6, <1>8, <1>9 DEF TestRest

LEMMA SyncStep ==
    ASSUME TestInv, SyncAll \/ Delete \/ UNCHANGED allVars
    PROVE  TestRest'
<1>1. UNCHANGED <<launched, num_total_tasks, running, finished, testVars>>
    BY DEF SyncAll, Delete, CallSync, Destroy, allVars, vars
<1>2. caller' = "sync" => launched = LaunchId
    BY DEF SyncAll, Delete, CallSync, Destroy, allVars, vars, TestInv, VerdictOK
<1> QED
    BY <1>1, <1>2 DEF TestInv, TestRest, BegunOK, Tasks, CountersOK, Ended, FlagsOK, VerdictOK,
                      TestPasses, testVars

LEMMA ReportStep ==
    ASSUME TestInv, Report
    PROVE  TestRest'
<1> USE DEF TestInv
<1>1. /\ caller = "sync" /\ caller' = "app"
      /\ \A l \in launched : Done(l)
      /\ passed' = IF done_flag[NumLaunches - 1] THEN "yes" ELSE "no"
      /\ UNCHANGED <<launched, num_total_tasks, running, finished, tasks_started, tasks_ended,
                     satisfied, done_flag, looking, marking>>
    BY DEF Report, ReturnSync
<1>2. launched = LaunchId /\ \A l \in LaunchId : done_flag[l]
    BY <1>1, DoneIsFlagged DEF VerdictOK
<1>3. NumLaunches - 1 \in LaunchId
    <2>1. Cardinality(LaunchId) \in Nat /\ Cardinality(LaunchId) # 0
        BY LaunchIdAssumption, FS_CardinalityType, FS_EmptySet
    <2> QED
        BY <2>1, LaunchIdAssumption DEF NumLaunches
<1> QED
    BY <1>1, <1>2, <1>3 DEF TestRest, BegunOK, Tasks, CountersOK, Ended, FlagsOK, VerdictOK,
                            TestPasses

LEMMA EnterStep ==
    ASSUME TestInv, NEW l \in launched, NEW t \in Tasks(l), Enter(t)
    PROVE  TestRest'
<1> USE DEF TestInv
<1>1. l \in LaunchId /\ t[1] = l
    BY TaskShape DEF TInv, TypeOK
<1>2. /\ t \notin running \cup finished
      /\ running' = running \cup {t}
      /\ tasks_started' = [tasks_started EXCEPT ![l] = @ + 1]
      /\ looking' = IF tasks_started[l] = 0 THEN looking \cup {t} ELSE looking
      /\ UNCHANGED <<launched, num_total_tasks, finished, caller, tasks_ended, satisfied,
                     done_flag, marking, passed>>
    BY <1>1 DEF Enter, Start, CanStart
<1>3. BegunOK'
    BY <1>1, <1>2 DEF BegunOK, Tasks
<1>4. CountersOK'
    <2>1. /\ tasks_started' \in [LaunchId -> Nat]
          /\ tasks_started'[l] > 0
          /\ \A m \in LaunchId : tasks_started'[m] >= tasks_started[m]
        BY <1>1, <1>2 DEF CountersOK
    <2>2. \A s \in running \cup finished : s[1] \in LaunchId
        BY DEF TInv, LaunchedOnly, TypeOK
    <2>3. \A s \in running' \cup finished' : tasks_started'[s[1]] > 0
        BY <1>1, <1>2, <2>1, <2>2 DEF CountersOK
    <2> QED
        BY <1>2, <2>1, <2>3 DEF CountersOK, Ended
<1>5. FlagsOK'
    <2>1. \A m \in LaunchId \ {l} : tasks_started'[m] = tasks_started[m]
        BY <1>2 DEF CountersOK
    <2>2. tasks_started[l] = 0 \/ tasks_started[l] > 0
        BY <1>1 DEF CountersOK
    <2>3. satisfied[l] \/ \E s \in looking' : s[1] = l
        BY <1>1, <1>2, <2>2 DEF FlagsOK
    <2> QED
        BY <1>2, <2>1, <2>3 DEF FlagsOK
<1>6. VerdictOK'
    BY <1>2 DEF VerdictOK, TestPasses
<1> QED
    BY <1>3, <1>4, <1>5, <1>6 DEF TestRest

LEMMA DepsMetStep ==
    ASSUME TestInv, NEW t \in running, DepsMet(t)
    PROVE  TestRest'
<1> USE DEF TestInv
<1>1. t[1] \in LaunchId /\ deps[t[1]] \subseteq launched
    BY DEF TInv, LaunchedOnly, TypeOK
<1>2. \A d \in deps[t[1]] : done_flag[d]
    BY <1>1, DoneIsFlagged DEF TInv, DependenciesClosed
<1>3. /\ looking' = looking \ {t} /\ t \in looking
      /\ satisfied' = [satisfied EXCEPT ![t[1]] = TRUE]
      /\ UNCHANGED <<vars, tasks_started, tasks_ended, done_flag, marking, passed>>
    <2>1. (\A d \in deps[t[1]] : done_flag[d]) = TRUE
        BY <1>2
    <2> QED
        BY <2>1 DEF DepsMet
<1>4. BegunOK' /\ CountersOK' /\ VerdictOK'
    BY <1>3 DEF BegunOK, Tasks, CountersOK, Ended, VerdictOK, TestPasses, vars
<1>5. FlagsOK'
    <2>1. /\ satisfied' \in [LaunchId -> BOOLEAN] /\ satisfied'[t[1]]
          /\ \A m \in LaunchId \ {t[1]} : satisfied'[m] = satisfied[m]
        BY <1>1, <1>3 DEF FlagsOK
    <2> QED
        BY <1>3, <2>1 DEF FlagsOK, vars
<1> QED
    BY <1>4, <1>5 DEF TestRest

(* A task that leaves is counted as ended for the first time.              *)
LEMMA LeaveCounts ==
    ASSUME TestInv, NEW t \in running, t \notin marking,
           tasks_ended' = [tasks_ended EXCEPT ![t[1]] = @ + 1],
           (finished \cup marking)' = finished \cup marking \cup {t}
    PROVE  /\ tasks_ended' \in [LaunchId -> Nat]
           /\ \A l \in LaunchId : tasks_ended'[l] = Cardinality(Ended(l)')
           /\ \A s \in marking : s[1] # t[1]
           /\ t[1] \in LaunchId /\ tasks_ended[t[1]] \in Nat
           /\ tasks_ended'[t[1]] = tasks_ended[t[1]] + 1
           /\ \A l \in LaunchId \ {t[1]} : tasks_ended'[l] = tasks_ended[l]
<1> USE DEF TestInv
<1>1. t[1] \in LaunchId /\ t \in Tasks(t[1])
    BY DEF TInv, LaunchedOnly, TypeOK, BegunOK
<1>2. PICK k \in LaunchId : k = t[1]
    BY <1>1
<1>3. Ended(k)' = Ended(k) \cup {t} /\ t \notin Ended(k)
    BY <1>2 DEF Ended, BegunOK
<1>4. Cardinality(Ended(k)') = Cardinality(Ended(k)) + 1
    BY <1>3, EndedFinite, FS_AddElement
<1>5. /\ tasks_ended'[k] = tasks_ended[k] + 1 /\ tasks_ended[k] \in Nat
      /\ \A l \in LaunchId \ {k} : tasks_ended'[l] = tasks_ended[l]
    BY <1>2 DEF CountersOK
<1>6. ASSUME NEW l \in LaunchId PROVE tasks_ended'[l] = Cardinality(Ended(l)')
    <2>1. CASE l = k
        BY <1>4, <1>5, <2>1 DEF CountersOK
    <2>2. CASE l # k
        <3>1. Ended(l)' = Ended(l)
            BY <1>2, <2>2 DEF Ended
        <3> QED
            BY <1>5, <2>2, <3>1 DEF CountersOK
    <2> QED
        BY <2>1, <2>2
<1>7. \A s \in marking : s[1] # t[1]
    <2> SUFFICES ASSUME NEW s \in marking, s[1] = t[1] PROVE FALSE
        OBVIOUS
    <2>1. tasks_ended[t[1]] = num_total_tasks[t[1]]
        BY DEF FlagsOK
    <2>2. t \in finished \cup marking
        BY <1>1, <2>1, AllEnded
    <2> QED
        BY <2>2 DEF BegunOK
<1>8. tasks_ended' \in [LaunchId -> Nat]
    BY <1>1 DEF CountersOK
<1> QED
    BY <1>1, <1>2, <1>5, <1>6, <1>7, <1>8

LEMMA LeaveStep ==
    ASSUME TestInv, NEW t \in running, Leave(t)
    PROVE  TestRest'
<1> USE DEF TestInv
<1>1. /\ t \notin looking \cup marking /\ t \notin finished
      /\ tasks_ended' = [tasks_ended EXCEPT ![t[1]] = @ + 1]
      /\ UNCHANGED <<launched, num_total_tasks, deps, caller, tasks_started, satisfied, done_flag,
                     looking, passed>>
    BY DEF Leave, Finish, BegunOK, vars
<1>2. VerdictOK'
    BY <1>1 DEF VerdictOK, TestPasses
<1>3. CASE LastEnded(t[1])
    <2>1. marking' = marking \cup {t} /\ UNCHANGED <<running, finished>>
        BY <1>3 DEF Leave, vars
    <2>2. (finished \cup marking)' = finished \cup marking \cup {t}
        BY <2>1
    <2>3. BegunOK'
        BY <1>1, <2>1 DEF BegunOK, Tasks
    <2>4. CountersOK'
        BY <1>1, <2>1, <2>2, LeaveCounts DEF CountersOK
    <2>5. /\ tasks_ended'[t[1]] = num_total_tasks[t[1]]
          /\ \A s \in marking : s[1] \in LaunchId \ {t[1]}
        BY <1>1, <1>3, <2>2, LeaveCounts DEF LastEnded, BegunOK, TInv, LaunchedOnly, TypeOK
    <2>6. \A l \in launched : l \in LaunchId
        BY DEF TInv, TypeOK
    <2>7. FlagsOK'
        BY <1>1, <2>1, <2>2, <2>5, <2>6, LeaveCounts DEF FlagsOK
    <2> QED
        BY <1>2, <2>3, <2>4, <2>7 DEF TestRest
<1>4. CASE ~LastEnded(t[1])
    <2>1. running' = running \ {t} /\ finished' = finished \cup {t} /\ UNCHANGED marking
        BY <1>4 DEF Leave, Finish
    <2>2. (finished \cup marking)' = finished \cup marking \cup {t}
        BY <2>1
    <2>3. BegunOK'
        BY <1>1, <2>1 DEF BegunOK, Tasks
    <2>4. CountersOK'
        BY <1>1, <2>1, <2>2, LeaveCounts DEF CountersOK
    <2>5. /\ tasks_ended'[t[1]] # num_total_tasks[t[1]]
          /\ \A s \in marking : s[1] \in LaunchId \ {t[1]}
        BY <1>1, <1>4, <2>2, LeaveCounts DEF LastEnded, BegunOK, TInv, LaunchedOnly, TypeOK
    <2>6. \A l \in launched : l \in LaunchId
        BY DEF TInv, TypeOK
    <2>7. FlagsOK'
        BY <1>1, <2>1, <2>2, <2>5, <2>6, LeaveCounts DEF FlagsOK
    <2> QED
        BY <1>2, <2>3, <2>4, <2>7 DEF TestRest
<1> QED
    BY <1>3, <1>4

LEMMA MarkStep ==
    ASSUME TestInv, NEW t \in running, Mark(t)
    PROVE  TestRest'
<1> USE DEF TestInv
<1>1. /\ t \in marking /\ marking' = marking \ {t}
      /\ running' = running \ {t} /\ finished' = finished \cup {t}
      /\ done_flag' = [done_flag EXCEPT ![t[1]] = satisfied[t[1]]]
      /\ UNCHANGED <<launched, num_total_tasks, deps, caller, tasks_started, tasks_ended,
                     satisfied, looking, passed>>
    BY DEF Mark, Finish
<1>2. t[1] \in LaunchId /\ t \in Tasks(t[1])
    BY DEF TInv, LaunchedOnly, TypeOK, BegunOK
(* All tasks of its launch have ended, the one that looked at the flags    *)
(* among them.                                                             *)
<1>3. satisfied[t[1]]
    <2>1. Tasks(t[1]) \subseteq finished \cup marking
        BY <1>1, <1>2, AllEnded DEF FlagsOK
    <2>2. \A s \in looking : s[1] # t[1]
        BY <2>1 DEF BegunOK
    <2> QED
        BY <1>2, <2>2 DEF FlagsOK, CountersOK
<1>4. /\ done_flag' \in [LaunchId -> BOOLEAN] /\ done_flag'[t[1]]
      /\ \A l \in LaunchId \ {t[1]} : done_flag'[l] = done_flag[l]
    BY <1>1, <1>2, <1>3 DEF FlagsOK
<1>5. BegunOK'
    BY <1>1 DEF BegunOK, Tasks
<1>6. CountersOK'
    <2>1. \A l : Ended(l)' = Ended(l)
        BY <1>1 DEF Ended
    <2> QED
        BY <1>1, <2>1 DEF CountersOK
<1>7. FlagsOK'
    <2>1. \A l \in launched : l \in LaunchId
        BY DEF TInv, TypeOK
    <2> QED
        BY <1>1, <1>4, <2>1 DEF FlagsOK
<1>8. VerdictOK'
    BY <1>1, <1>4 DEF VerdictOK, TestPasses
<1> QED
    BY <1>5, <1>6, <1>7, <1>8 DEF TestRest

LEMMA TestInitial == TestInit => TestInv
<1> SUFFICES ASSUME TestInit PROVE TestInv
    OBVIOUS
<1> USE DEF TestInit, Init
<1>1. TInv
    BY DEF TInv, TypeOK, LaunchedOnly, DependenciesClosed
<1>2. BegunOK
    BY DEF BegunOK
<1>3. CountersOK
    <2>1. \A l : Ended(l) = {}
        BY DEF Ended
    <2> QED
        BY <2>1, FS_EmptySet DEF CountersOK
<1>4. FlagsOK /\ VerdictOK
    BY DEF FlagsOK, VerdictOK, TestPasses
<1> QED
    BY <1>1, <1>2, <1>3, <1>4 DEF TestInv

(* What the flags of the strict tests say, in every state of a test.       *)
THEOREM TestInvariant == TestSafeSpec => []TestInv
<1>1. TestInv /\ [TestNext]_allVars => TestInv'
    <2> SUFFICES ASSUME TestInv, [TestNext]_allVars PROVE TestInv'
        OBVIOUS
    <2>1. TInv'
        BY TestKeepsContract, ContractStep DEF TestInv
    <2>2. TestRest'
        BY LaunchStep, SyncStep, ReportStep, EnterStep, DepsMetStep, LeaveStep, MarkStep
           DEF TestNext, TestThread, EnterSome, AdvanceSome
    <2> QED
        BY <2>1, <2>2 DEF TestInv, TestRest
<1> QED
    BY <1>1, TestInitial, PTL DEF TestSafeSpec

(* tests.h:446-490, 1285-1393: whatever the graph, a task system that      *)
(* keeps the contract passes the strict tests, and every flag is set.      *)
THEOREM ContractPassesTests == TestSafeSpec => []TestPasses
<1>1. TestInv => TestPasses
    BY DEF TestInv, VerdictOK
<1> QED
    BY <1>1, TestInvariant, PTL

-----------------------------------------------------------------------------
(* The plain bools of the strict tests are never raced for.                *)

(* One task of a launch looks at the flags and one sets its own, and the   *)
(* test's thread goes on when every launch is done.                        *)
TouchedOnce ==
    /\ \A t, u \in looking : t[1] = u[1] => t = u
    /\ \A t, u \in marking : t[1] = u[1] => t = u
    /\ passed # "none" => \A l \in launched : Done(l)

(* A verdict is given once every launch is done, and none is made after.   *)
LEMMA DoneWhenReported ==
    ASSUME TestInv, TouchedOnce, [TestNext]_allVars, passed' # "none"
    PROVE  \A l \in launched' : Done(l)'
<1>1. [Next]_vars
    BY TestKeepsContract DEF TestInv
<1>2. launched' = launched
    BY DEF TestInv, VerdictOK, TestNext, TestThread, LaunchNext, testVars, SyncAll, CallSync,
           Report, ReturnSync, Delete, Destroy, EnterSome, Enter, Start, AdvanceSome, DepsMet,
           Leave, Mark, Finish, allVars, vars
<1>3. \A l \in launched : Done(l)
    <2>1. CASE Report
        BY <2>1 DEF Report, ReturnSync
    <2>2. CASE ~Report
        <3>1. passed # "none"
            BY <2>2 DEF TestNext, TestThread, LaunchNext, testVars, SyncAll, Delete, EnterSome,
                        Enter, AdvanceSome, DepsMet, Leave, Mark, allVars
        <3> QED
            BY <3>1 DEF TouchedOnce
    <2> QED
        BY <2>1, <2>2
<1> QED
    BY <1>1, <1>2, <1>3, DoneStaysDone DEF TestInv

LEMMA TouchedOnceStep ==
    ASSUME TestInv, TouchedOnce, [TestNext]_allVars
    PROVE  TouchedOnce'
<1> USE DEF TestInv
<1>1. ASSUME NEW l \in launched, NEW t \in Tasks(l), Enter(t)
      PROVE  TouchedOnce'
    <2>1. /\ marking' = marking
          /\ looking' = IF tasks_started[t[1]] = 0 THEN looking \cup {t} ELSE looking
        BY <1>1 DEF Enter
    <2>2. tasks_started[t[1]] = 0 => \A u \in looking : u[1] # t[1]
        BY DEF BegunOK, CountersOK
    <2> QED
        BY <2>1, <2>2, DoneWhenReported DEF TouchedOnce
<1>2. ASSUME NEW t \in running, DepsMet(t) \/ Mark(t)
      PROVE  TouchedOnce'
    <2>1. looking' \subseteq looking /\ marking' \subseteq marking
        BY <1>2 DEF DepsMet, Mark
    <2> QED
        BY <2>1, DoneWhenReported DEF TouchedOnce
<1>3. ASSUME NEW t \in running, Leave(t)
      PROVE  TouchedOnce'
    <2>1. /\ t \notin marking /\ looking' = looking /\ marking' \subseteq marking \cup {t}
          /\ tasks_ended' = [tasks_ended EXCEPT ![t[1]] = @ + 1]
        BY <1>3 DEF Leave
    <2>2. (finished \cup marking)' = finished \cup marking \cup {t}
        BY <1>3 DEF Leave, Finish, vars
    <2>3. \A s \in marking : s[1] # t[1]
        BY <2>1, <2>2, LeaveCounts
    <2> QED
        BY <2>1, <2>3, DoneWhenReported DEF TouchedOnce
<1>4. CASE TestThread \/ UNCHANGED allVars
    <2>1. looking' = looking /\ marking' = marking
        BY <1>4 DEF TestThread, LaunchNext, SyncAll, Report, Delete, testVars, allVars
    <2> QED
        BY <2>1, DoneWhenReported DEF TouchedOnce
<1> QED
    BY <1>1, <1>2, <1>3, <1>4 DEF TestNext, EnterSome, AdvanceSome

(* The task that looks keeps its launch from being done, and a launch some *)
(* task of which looks has begun: its dependencies are done.               *)
LEMMA TouchesApart ==
    ASSUME TestInv, TouchedOnce
    PROVE  FlagsNeverRace
<1> USE DEF TestInv
<1>1. \A t \in looking, u \in marking : t[1] # u[1]
    <2> SUFFICES ASSUME NEW t \in looking, NEW u \in marking, t[1] = u[1]
                 PROVE  FALSE
        OBVIOUS
    <2>1. t[1] \in LaunchId /\ t \in Tasks(t[1]) /\ t \notin finished \cup marking
        BY DEF TInv, LaunchedOnly, TypeOK, BegunOK
    <2>2. tasks_ended[t[1]] = num_total_tasks[t[1]]
        BY DEF FlagsOK
    <2> QED
        BY <2>1, <2>2, AllEnded
<1>2. \A u \in looking \cup marking : u \in Tasks(u[1]) /\ u \notin finished /\ u[1] \in launched
    BY DEF BegunOK, TInv, LaunchedOnly
<1>3. \A t \in looking, u \in marking : u[1] \notin deps[t[1]]
    BY <1>2 DEF TInv, DependenciesClosed, BegunOK, Done
<1>4. passed # "none" => looking \cup marking = {}
    BY <1>2 DEF TouchedOnce, Done
<1> QED
    BY <1>1, <1>3, <1>4 DEF FlagsNeverRace, TouchedOnce

(* tests.h:459-480: in a task system that keeps the contract no read or    *)
(* write of the plain bools of the strict tests races with another, for    *)
(* any number of launches and tasks and any graph, although no lock guards *)
(* them.                                                                   *)
THEOREM TestFlagsNeverRace == TestSafeSpec => []FlagsNeverRace
<1>1. TestInit => TouchedOnce
    BY DEF TestInit, TouchedOnce
<1>2. TestInv /\ TouchedOnce /\ [TestNext]_allVars => TouchedOnce'
    BY TouchedOnceStep
<1>3. TestInv /\ TouchedOnce => FlagsNeverRace
    BY TouchesApart
<1> QED
    BY <1>1, <1>2, <1>3, TestInvariant, PTL DEF TestSafeSpec
=============================================================================
