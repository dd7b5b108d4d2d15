------------------------ MODULE StrictDependencyTest ------------------------
(***************************************************************************)
(* The strict dependency tests of tests/tests.h, run against the contract: *)
(* every launch is a StrictDependencyTask, whose first task to begin looks *)
(* at the flags of the launches it depends on and whose last task to end   *)
(* sets its own.  The test launches a random acyclic graph, syncs, and     *)
(* reports the flag of the last launch.                                    *)
(***************************************************************************)
EXTENDS TaskSystem, FiniteSets

ASSUME LaunchIdAssumption ==
    /\ IsFiniteSet(LaunchId) /\ LaunchId # {}
    /\ LaunchId = 0 .. Cardinality(LaunchId) - 1
ASSUME TestTaskCountsAssumption == 0 \notin TaskCounts  \* (rand() % 15) + 1

NumLaunches == Cardinality(LaunchId)

VARIABLES
    tasks_started, tasks_ended, satisfied, done_flag,  \* per launch; done_flag is *out_flag_
    looking, marking,  \* the tasks about to look at the flags, and to set their own
    passed             \* the test's result: "none" until sync() has returned

testVars == <<tasks_started, tasks_ended, satisfied, done_flag, looking, marking, passed>>
allVars == <<vars, testVars>>

TestInit ==
    /\ Init
    /\ tasks_started = [l \in LaunchId |-> 0]
    /\ tasks_ended = [l \in LaunchId |-> 0]
    /\ satisfied = [l \in LaunchId |-> FALSE]
    /\ done_flag = [l \in LaunchId |-> FALSE]
    /\ looking = {} /\ marking = {}
    /\ passed = "none"

-----------------------------------------------------------------------------
(* runTask, for task t of launch t[1].                                     *)

(* entry_id = tasks_started_++                                             *)
Enter(t) ==
    /\ Start(t)
    /\ tasks_started' = [tasks_started EXCEPT ![t[1]] = @ + 1]
    /\ looking' = IF tasks_started[t[1]] = 0 THEN looking \cup {t} ELSE looking
    /\ UNCHANGED <<tasks_ended, satisfied, done_flag, marking, passed>>

(* if (entry_id == 0) satisfied_ = depsMet()                               *)
DepsMet(t) ==
    /\ t \in looking
    /\ looking' = looking \ {t}
    /\ satisfied' = [satisfied EXCEPT ![t[1]] = \A d \in deps[t[1]] : done_flag[d]]
    /\ UNCHANGED <<vars, tasks_started, tasks_ended, done_flag, marking, passed>>

\* Faulty variant: off by one, the last task but one takes itself for the last.
LastEndedEarly(l) == tasks_ended[l] + 2 >= num_total_tasks[l]

LastEnded(l) == tasks_ended[l] + 1 = num_total_tasks[l]

(* After doWork: exit_id = ++tasks_ended_, and return unless it is the last. *)
Leave(t) ==
    /\ t \in running \ (looking \cup marking)
    /\ tasks_ended' = [tasks_ended EXCEPT ![t[1]] = @ + 1]
    /\ IF LastEnded(t[1])
       THEN marking' = marking \cup {t} /\ UNCHANGED vars
       ELSE UNCHANGED marking /\ Finish(t)
    /\ UNCHANGED <<tasks_started, satisfied, done_flag, looking, passed>>

(* *out_flag_ = satisfied_                                                 *)
Mark(t) ==
    /\ t \in marking
    /\ marking' = marking \ {t}
    /\ done_flag' = [done_flag EXCEPT ![t[1]] = satisfied[t[1]]]
    /\ Finish(t)
    /\ UNCHANGED <<tasks_started, tasks_ended, satisfied, looking, passed>>

-----------------------------------------------------------------------------
(* The test's thread.                                                      *)

(* An edge of the graph goes from a lower index to a higher one.           *)
LaunchNext ==
    /\ launched # LaunchId
    /\ \E k \in TaskCounts, D \in SUBSET launched : Launch(Cardinality(launched), k, D)
    /\ UNCHANGED testVars

SyncAll ==
    /\ launched = LaunchId
    /\ passed = "none"
    /\ CallSync
    /\ UNCHANGED testVars

Report ==
    /\ ReturnSync
    /\ passed' = IF done_flag[NumLaunches - 1] THEN "yes" ELSE "no"
    /\ UNCHANGED <<tasks_started, tasks_ended, satisfied, done_flag, looking, marking>>

(* The harness deletes the task system after the test.                     *)
Delete ==
    /\ passed # "none"
    /\ Destroy
    /\ UNCHANGED testVars

TestThread == LaunchNext \/ SyncAll \/ Report \/ Delete

EnterSome == \E l \in launched : \E t \in Tasks(l) : Enter(t)
AdvanceSome == \E t \in running : DepsMet(t) \/ Leave(t) \/ Mark(t)

TestNext == TestThread \/ EnterSome \/ AdvanceSome

(* The test's thread and the tasks run; the rest is the contract's own.    *)
TestSafeSpec == TestInit /\ [][TestNext]_allVars
TestSpec ==
    /\ TestSafeSpec
    /\ WF_allVars(TestThread) /\ WF_allVars(EnterSome) /\ WF_allVars(AdvanceSome)

-----------------------------------------------------------------------------

(* The verdict of the test is right: a task system that keeps the contract *)
(* passes it, whatever the graph, although the flags are plain bools that  *)
(* the tasks read and write without a lock - and every launch's flag is    *)
(* set, not only the one the test looks at.                                *)
TestPasses ==
    passed # "none" => passed = "yes" /\ \A l \in LaunchId : done_flag[l]

(* tests.h:459-480: satisfied_ and the flags are plain bools, which the    *)
(* first task of a launch and its last, the first tasks of the launches    *)
(* that depend on it and the test's thread read and write without a lock.  *)
(* No two of them are ever at one of these bools together, so no read or   *)
(* write races: of a launch at most one task is at satisfied_ and at its   *)
(* own flag, none looks at a flag that is being set, and none is at any    *)
(* once sync() has returned and the test reads and deletes them.           *)
FlagsNeverRace ==
    LET touching == looking \cup marking IN
    /\ \A t, u \in touching : t[1] = u[1] => t = u
    /\ \A t \in looking, u \in marking : u[1] \notin deps[t[1]]
    /\ passed # "none" => touching = {}

(* Every graph of launches runs to its end: no dependencies deadlock the   *)
(* contract's sync (itasksys.h:64-67).                                     *)
TestEnds == <>(caller = "gone")
=============================================================================
