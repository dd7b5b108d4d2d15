---------------------------- MODULE RunPoolProofs ----------------------------
(***************************************************************************)
(* The invariant of the two part A pools and the lemmas that the actions   *)
(* they share preserve it.  SpinningPoolProofs and RunSleepingPoolProofs   *)
(* do the rest.                                                            *)
(***************************************************************************)
EXTENDS RunPool, FiniteSetTheorems, TLAPS

Places == {"loop", "empty", "pop", "call", "running", "complete", "timed", "check", "notify",
           "exited"}
Busy == {"call", "running", "complete"}
Waiting == {"wait", "blocking", "asleep"}

RuntimeType ==
    /\ m_jobs \in Seq(Nat)
    /\ m_total_tasks \in Nat
    /\ m_complete_tasks \in Nat
    /\ runs \in Nat
    /\ num_total_tasks \in [RunId -> Nat]
    /\ pc \in [Worker -> Places]
    /\ job \in [Worker -> Nat]

(* The launch in the Runtime is that of the current run(), and what is not *)
(* counted as complete is in the queue or in the hands of a worker.        *)
CurrentRun ==
    /\ runs \in RunId
    /\ m_runnable = runs
    /\ m_total_tasks = num_total_tasks[runs]
    /\ Len(m_jobs) + Cardinality(InFlight) + m_complete_tasks = m_total_tasks
    /\ \A i \in 1 .. Len(m_jobs) : m_jobs[i] < m_total_tasks
    /\ \A w \in Worker : pc[w] = "call" => job[w] < m_total_tasks
    /\ \A w \in Worker : pc[w] = "running" =>
          /\ call[w].run = runs
          /\ call[w].total = m_total_tasks
          /\ call[w].task_id = job[w]
          /\ job[w] < m_total_tasks

PoolInv ==
    /\ RuntimeType
    /\ call \in [Worker -> [run : Nat, task_id : Nat, total : Nat]]
    /\ IF main_pc \in Waiting THEN CurrentRun ELSE m_jobs = <<>> /\ InFlight = {}
    /\ main_pc = "add_job" => runs \in RunId

-----------------------------------------------------------------------------

LEMMA InFlightFinite == IsFiniteSet(InFlight) /\ Cardinality(InFlight) \in Nat
<1>1. IsFiniteSet(Worker)
  BY NumThreadsAssumption, FS_Interval DEF Worker
<1> QED
  BY <1>1, FS_Subset, FS_CardinalityType DEF InFlight

(* A worker that is not at a task moves to another such place, ...         *)
LEMMA Idle ==
    ASSUME PoolInv, NEW w \in Worker, NEW to \in Places \ Busy, pc[w] \notin Busy,
           pc' = [pc EXCEPT ![w] = to],
           UNCHANGED <<runtimeVars, callVars, job, call, main_pc>>
    PROVE  PoolInv'
<1>1. InFlight' = InFlight
  BY DEF InFlight, Busy, PoolInv, RuntimeType
<1> QED
  BY <1>1 DEF PoolInv, RuntimeType, CurrentRun, runtimeVars, callVars, Busy

(* ... and one that is goes on.                                            *)
LEMMA PoolPopJob ==
    ASSUME PoolInv, NEW w \in Worker, PopJob(w)
    PROVE  PoolInv'
<1> USE DEF PoolInv, RuntimeType
<1>1. CurrentRun /\ main_pc \in Waiting
  BY DEF PopJob
<1>2. /\ w \notin InFlight
      /\ InFlight' = InFlight \cup {w}
  BY DEF PopJob, Goto, InFlight, Places
<1>3. Cardinality(InFlight') = Cardinality(InFlight) + 1
  BY <1>2, InFlightFinite, FS_AddElement
<1>4. /\ Len(m_jobs') = Len(m_jobs) - 1 /\ m_jobs' \in Seq(Nat)
      /\ \A i \in 1 .. Len(m_jobs') : m_jobs'[i] = m_jobs[i + 1]
      /\ Head(m_jobs) = m_jobs[1] /\ Len(m_jobs) \in Nat \ {0} /\ Head(m_jobs) \in Nat
  BY DEF PopJob
<1>5. RuntimeType'
  BY <1>4 DEF PopJob, Goto, callVars, Places
<1>6. CurrentRun'
  <2>1. UNCHANGED <<runs, m_runnable, m_total_tasks, num_total_tasks, m_complete_tasks, call>>
    BY DEF PopJob, callVars
  <2>2. Len(m_jobs') + Cardinality(InFlight') + m_complete_tasks' = m_total_tasks'
    BY <1>1, <1>3, <1>4, <2>1, InFlightFinite DEF CurrentRun
  <2>3. \A i \in 1 .. Len(m_jobs') : m_jobs'[i] < m_total_tasks'
    <3>1. \A i \in 1 .. Len(m_jobs) : m_jobs[i] < m_total_tasks
      BY <1>1 DEF CurrentRun
    <3>2. ASSUME NEW i \in 1 .. Len(m_jobs')
          PROVE  m_jobs'[i] < m_total_tasks
      <4>1. i + 1 \in 1 .. Len(m_jobs)
        BY <1>4
      <4> QED
        BY <1>4, <3>1, <4>1
    <3> QED
      BY <2>1, <3>2
  <2>4. \A v \in Worker : pc'[v] = "call" => job'[v] < m_total_tasks'
    <3>1. Head(m_jobs) < m_total_tasks
      BY <1>1, <1>4 DEF CurrentRun
    <3>2. ASSUME NEW v \in Worker, pc'[v] = "call"
          PROVE  job'[v] < m_total_tasks
      <4>1. CASE v = w
        BY <3>1, <4>1 DEF PopJob
      <4>2. CASE v # w
        BY <1>1, <3>2, <4>2 DEF CurrentRun, PopJob, Goto
      <4> QED
        BY <4>1, <4>2
    <3> QED
      BY <2>1, <3>2
  <2>5. \A v \in Worker : pc'[v] = "running" => pc[v] = "running" /\ job'[v] = job[v]
    BY DEF PopJob, Goto
  <2> QED
    BY <1>1, <2>1, <2>2, <2>3, <2>4, <2>5 DEF CurrentRun
<1>7. UNCHANGED <<call, main_pc, runs>>
  BY DEF PopJob, callVars
<1> QED
  BY <1>1, <1>5, <1>6, <1>7

LEMMA PoolCallTask ==
    ASSUME PoolInv, NEW w \in Worker, CallTask(w)
    PROVE  PoolInv'
<1> USE DEF PoolInv, RuntimeType, CallTask, Goto, runtimeVars, callVars
<1>1. CurrentRun /\ main_pc \in Waiting
  BY DEF InFlight
<1>2. InFlight' = InFlight
  BY DEF InFlight, Places
<1>3. RuntimeType'
  BY DEF Places
<1>4. call' \in [Worker -> [run : Nat, task_id : Nat, total : Nat]]
  BY <1>1 DEF CurrentRun
<1>5. CurrentRun'
  BY <1>1, <1>2 DEF CurrentRun
<1> QED
  BY <1>1, <1>3, <1>4, <1>5

LEMMA PoolReturnTask ==
    ASSUME PoolInv, NEW w \in Worker, ReturnTask(w)
    PROVE  PoolInv'
<1> USE DEF PoolInv, RuntimeType, ReturnTask, Goto, runtimeVars, callVars
<1>1. CurrentRun /\ main_pc \in Waiting
  BY DEF InFlight
<1>2. InFlight' = InFlight
  BY DEF InFlight, Places
<1>3. RuntimeType'
  BY DEF Places
<1>4. call' \in [Worker -> [run : Nat, task_id : Nat, total : Nat]]
  BY DEF NoCall
<1>5. CurrentRun'
  BY <1>1, <1>2 DEF CurrentRun
<1> QED
  BY <1>1, <1>3, <1>4, <1>5

LEMMA PoolAddComplete ==
    ASSUME PoolInv, NEW w \in Worker, NEW to \in Places \ Busy, AddComplete(w, to)
    PROVE  PoolInv'
<1> USE DEF PoolInv, RuntimeType, AddComplete, Increment, Goto, callVars
<1>1. CurrentRun /\ main_pc \in Waiting
  BY DEF InFlight
<1>2. /\ w \in InFlight
      /\ InFlight' = InFlight \ {w}
  BY DEF InFlight, Busy
<1>3. Cardinality(InFlight') = Cardinality(InFlight) - 1
  BY <1>2, InFlightFinite, FS_RemoveElement
<1>4. RuntimeType'
  BY DEF Places
<1>5. CurrentRun'
  BY <1>1, <1>3, InFlightFinite DEF CurrentRun, Busy
<1> QED
  BY <1>1, <1>4, <1>5

-----------------------------------------------------------------------------

LEMMA PoolCallRun ==
    ASSUME PoolInv, NEW n \in TaskCounts, CallRun(n)
    PROVE  PoolInv'
<1>1. runs + 1 \in RunId /\ n \in Nat
  BY MaxRunsAssumption, TaskCountsAssumption DEF PoolInv, RuntimeType, CallRun, RunId
<1>2. InFlight' = InFlight
  BY DEF InFlight, CallRun
<1> QED
  BY <1>1, <1>2 DEF PoolInv, RuntimeType, CallRun, MainGoto, runtimeVars, Waiting, RunId

LEMMA PoolAddJob ==
    ASSUME PoolInv, AddJob
    PROVE  PoolInv'
<1> DEFINE n == num_total_tasks[runs]
<1>1. m_jobs = <<>> /\ InFlight = {} /\ runs \in RunId /\ n \in Nat
  BY DEF PoolInv, RuntimeType, AddJob, MainGoto, Waiting
<1>2. InFlight' = {} /\ Cardinality(InFlight') = 0
  BY <1>1, FS_EmptySet DEF InFlight, AddJob
<1>3. /\ m_jobs' = [i \in 1 .. n |-> i - 1]
      /\ m_jobs' \in Seq(Nat) /\ Len(m_jobs') = n
      /\ \A i \in 1 .. n : m_jobs'[i] < n
  <2>1. m_jobs' = <<>> \o [i \in 1 .. n |-> i - 1]
    BY <1>1 DEF AddJob
  <2>2. [i \in 1 .. n |-> i - 1] \in Seq(Nat) /\ Len([i \in 1 .. n |-> i - 1]) = n
    BY <1>1
  <2>3. m_jobs' = [i \in 1 .. n |-> i - 1]
    BY <2>1, <2>2
  <2> QED
    BY <1>1, <2>2, <2>3
<1>4. \A w \in Worker : pc'[w] \notin Busy
  BY <1>2 DEF InFlight, Busy
<1>5. RuntimeType'
  BY <1>1, <1>3 DEF PoolInv, RuntimeType, AddJob, callVars, CountReset
<1>6. CurrentRun'
  BY <1>1, <1>2, <1>3, <1>4 DEF CurrentRun, AddJob, callVars, CountReset, Busy
<1> QED
  BY <1>5, <1>6 DEF PoolInv, AddJob, MainGoto, Waiting

(* run() returns when every task is counted: nothing is left in the queue  *)
(* or in the hands of a worker.                                            *)
LEMMA PoolReturnRun ==
    ASSUME PoolInv, is_all_complete, MainGoto("wait", "app"),
           UNCHANGED <<runtimeVars, callVars, pc, job, call>>
    PROVE  PoolInv'
<1>1. CurrentRun
  BY DEF PoolInv, MainGoto, Waiting
<1>2. Len(m_jobs) = 0 /\ Cardinality(InFlight) = 0
  <2>1. Len(m_jobs) \in Nat
    BY DEF PoolInv, RuntimeType
  <2> QED
    BY <1>1, <2>1, InFlightFinite DEF CurrentRun, is_all_complete, PoolInv, RuntimeType
<1>3. m_jobs = <<>> /\ InFlight = {}
  BY <1>2, InFlightFinite, FS_EmptySet DEF PoolInv, RuntimeType
<1>4. InFlight' = InFlight
  BY DEF InFlight
<1> QED
  BY <1>3, <1>4 DEF PoolInv, RuntimeType, MainGoto, runtimeVars, callVars, Waiting

(* The thread in run() sleeps or wakes, or the pool is destroyed.          *)
LEMMA PoolMainMoves ==
    ASSUME PoolInv, UNCHANGED <<runtimeVars, callVars, pc, job, call>>,
           main_pc \in Waiting <=> main_pc' \in Waiting, main_pc' # "add_job"
    PROVE  PoolInv'
<1>1. InFlight' = InFlight
  BY DEF InFlight
<1> QED
  BY <1>1 DEF PoolInv, RuntimeType, CurrentRun, runtimeVars, callVars

LEMMA PoolStutters ==
    ASSUME PoolInv, UNCHANGED poolVars
    PROVE  PoolInv'
<1>1. InFlight' = InFlight
  BY DEF InFlight, poolVars
<1> QED
  BY <1>1 DEF PoolInv, RuntimeType, CurrentRun, poolVars, runtimeVars, callVars

LEMMA PoolStarts == PoolInit => PoolInv
<1> SUFFICES ASSUME PoolInit PROVE PoolInv
  OBVIOUS
<1>1. InFlight = {}
  BY DEF PoolInit, InFlight
<1> QED
  BY <1>1, TaskCountsAssumption
     DEF PoolInv, PoolInit, RuntimeType, Waiting, Places, RunId, NoCall

-----------------------------------------------------------------------------

(* What the invariant gives: the properties of the two pools.              *)
LEMMA PoolProperties ==
    ASSUME PoolInv
    PROVE  QuietBetweenRuns /\ CallsOwnLaunch /\ CountsAddUp
<1>1. QuietBetweenRuns /\ CountsAddUp
  BY DEF PoolInv, QuietBetweenRuns, CountsAddUp, CurrentRun, Waiting
<1>2. ASSUME NEW w \in Worker, pc[w] = "running"
      PROVE  /\ call[w].run = runs
             /\ call[w].total = num_total_tasks[runs]
             /\ call[w].task_id \in 0 .. num_total_tasks[runs] - 1
  <2>1. CurrentRun
    BY <1>2 DEF PoolInv, InFlight
  <2> QED
    BY <1>2, <2>1 DEF CurrentRun, PoolInv, RuntimeType
<1> QED
  BY <1>1, <1>2 DEF CallsOwnLaunch
-----------------------------------------------------------------------------
(* Which tasks are where.  The queue always holds the last tasks of the    *)
(* launch, in order, so the number of those popped says which they are.    *)

Held == {w \in Worker : pc[w] \in {"call", "running"}}
Popped == m_total_tasks - Len(m_jobs)
AllReturned(r) == {r} \X (0 .. num_total_tasks[r] - 1) \subseteq finished

JobsOK ==
    /\ \A i \in 1 .. Len(m_jobs) : m_jobs[i] = Popped + i - 1
    /\ \A w \in Held :
          /\ job[w] < Popped /\ <<runs, job[w]>> \notin finished
          /\ \A v \in Held \ {w} : job[v] # job[w]
    /\ \A i \in 0 .. Popped - 1 : <<runs, i>> \in finished \/ \E w \in Held : job[w] = i
    /\ \A f \in finished : f[1] = runs => f[2] < Popped

RunInv ==
    /\ finished \subseteq RunId \X Nat
    /\ main_pc \in Waiting => JobsOK
    /\ \A f \in finished : f[1] \in 1 .. runs /\ (main_pc = "add_job" => f[1] # runs)
    /\ \A r \in 1 .. runs : r # runs \/ main_pc \notin Waiting \cup {"add_job"} => AllReturned(r)
    /\ m_done <=> main_pc \in {"join", "destroyed"}

(* Steps that move no task and leave run() where it is.                    *)
RunFrame ==
    /\ UNCHANGED <<m_jobs, m_total_tasks, callVars, finished, m_done>>
    /\ \A w \in Worker : /\ pc'[w] \in {"call", "running"} <=> pc[w] \in {"call", "running"}
                         /\ pc[w] \in {"call", "running"} => job'[w] = job[w]
    /\ main_pc' \in Waiting <=> main_pc \in Waiting
    /\ main_pc' = "add_job" <=> main_pc = "add_job"
    /\ main_pc' \in {"join", "destroyed"} <=> main_pc \in {"join", "destroyed"}

LEMMA RunFrameKeeps ==
    ASSUME RunInv, RunFrame
    PROVE  RunInv'
<1>1. Held' = Held /\ \A w \in Held : job'[w] = job[w]
  BY DEF RunFrame, Held
<1>2. UNCHANGED <<m_jobs, m_total_tasks, runs, num_total_tasks, finished, m_done>>
  BY DEF RunFrame, callVars
<1>3. JobsOK => JobsOK'
  <2>1. Popped' = Popped
    BY <1>2 DEF Popped
  <2> QED
    BY <1>1, <1>2, <2>1 DEF JobsOK
<1>4. \A r \in 1 .. runs : AllReturned(r) => AllReturned(r)'
  BY <1>2 DEF AllReturned
<1> QED
  BY <1>2, <1>3, <1>4 DEF RunInv, RunFrame

LEMMA RunPopJob ==
    ASSUME PoolInv, RunInv, NEW w \in Worker, PopJob(w)
    PROVE  RunInv'
<1> USE DEF PoolInv, RuntimeType, RunInv
<1>1. /\ pc[w] = "pop" /\ pc' = [pc EXCEPT ![w] = "call"]
      /\ m_jobs # <<>> /\ m_jobs' = Tail(m_jobs)
      /\ job' = [job EXCEPT ![w] = Head(m_jobs)]
      /\ UNCHANGED <<m_total_tasks, m_done, runs, num_total_tasks, finished, main_pc>>
  BY DEF PopJob, Goto, callVars
<1>2. JobsOK /\ main_pc \in Waiting
  BY <1>1
<1>3. /\ Len(m_jobs') = Len(m_jobs) - 1 /\ Len(m_jobs) \in Nat \ {0}
      /\ \A i \in 1 .. Len(m_jobs') : m_jobs'[i] = m_jobs[i + 1]
      /\ Head(m_jobs) = m_jobs[1]
  BY <1>1
<1>4. Popped \in Int /\ Popped' = Popped + 1 /\ Head(m_jobs) = Popped
  BY <1>1, <1>2, <1>3 DEF Popped, JobsOK
<1>5. Held' = Held \cup {w} /\ w \notin Held /\ job'[w] = Popped
      /\ \A v \in Held : job'[v] = job[v] /\ job[v] \in Nat
  BY <1>1, <1>4 DEF Held
<1>6. JobsOK'
  <2>1. ASSUME NEW i \in 1 .. Len(m_jobs')
        PROVE  m_jobs'[i] = Popped' + i - 1
    BY <1>2, <1>3, <1>4 DEF JobsOK
  <2>2. ASSUME NEW v \in Held'
        PROVE  /\ job'[v] < Popped' /\ <<runs, job'[v]>> \notin finished
               /\ \A u \in Held' \ {v} : job'[u] # job'[v]
    <3>0. \A u \in Held : job[u] < Popped
      BY <1>2 DEF JobsOK
    <3>1. \A u \in Held : job[u] < Popped' /\ job[u] # Popped
      BY <1>4, <1>5, <3>0
    <3>2. <<runs, Popped>> \notin finished
      BY <1>2, <1>4 DEF JobsOK
    <3>3. CASE v = w
      <4>1. job'[v] = Popped /\ Popped < Popped'
        BY <1>4, <1>5, <3>3
      <4>2. \A u \in Held' \ {v} : u \in Held /\ job'[u] = job[u]
        BY <1>5, <3>3
      <4> QED
        BY <3>1, <3>2, <4>1, <4>2
    <3>4. CASE v \in Held
      <4>1. job'[v] = job[v] /\ job[v] < Popped' /\ job[v] # Popped
        BY <1>5, <3>1, <3>4
      <4>2. <<runs, job[v]>> \notin finished /\ \A u \in Held \ {v} : job[u] # job[v]
        BY <1>2, <3>4 DEF JobsOK
      <4>3. \A u \in Held' \ {v} : u = w \/ (u \in Held \ {v} /\ job'[u] = job[u])
        BY <1>5
      <4> QED
        BY <1>5, <4>1, <4>2, <4>3
    <3> QED
      BY <1>5, <3>3, <3>4
  <2>3. ASSUME NEW i \in 0 .. Popped' - 1
        PROVE  <<runs, i>> \in finished \/ \E v \in Held' : job'[v] = i
    <3>1. CASE i = Popped
      BY <1>5, <3>1
    <3>2. CASE i # Popped
      <4>1. i \in 0 .. Popped - 1
        BY <1>4, <3>2
      <4> QED
        BY <1>2, <1>5, <4>1 DEF JobsOK
    <3> QED
      BY <3>1, <3>2
  <2>4. \A f \in finished : f[1] = runs => f[2] < Popped'
    BY <1>2, <1>4 DEF JobsOK
  <2> QED
    BY <1>1, <2>1, <2>2, <2>3, <2>4 DEF JobsOK
<1>7. \A r \in 1 .. runs : AllReturned(r)' <=> AllReturned(r)
  BY <1>1 DEF AllReturned
<1> QED
  BY <1>1, <1>6, <1>7

LEMMA RunCallTask ==
    ASSUME PoolInv, RunInv, NEW w \in Worker, CallTask(w)
    PROVE  RunInv'
<1>1. RunFrame
  BY DEF RunFrame, CallTask, Goto, runtimeVars, callVars, PoolInv, RuntimeType
<1> QED
  BY <1>1, RunFrameKeeps

(* A worker inside runTask is in its launch's.                             *)
LEMMA OwnTask ==
    ASSUME PoolInv, RunInv, NEW w \in Worker, pc[w] \in {"call", "running"}
    PROVE  /\ CurrentRun /\ JobsOK /\ main_pc \in Waiting /\ w \in Held /\ runs \in RunId
           /\ job[w] \in Nat /\ job[w] < num_total_tasks[runs] /\ num_total_tasks[runs] \in Nat
           /\ pc[w] = "running" => call[w].run = runs /\ call[w].task_id = job[w]
<1>1. w \in InFlight /\ w \in Held
  BY DEF InFlight, Held
<1>2. CurrentRun /\ main_pc \in Waiting
  BY <1>1 DEF PoolInv
<1> QED
  BY <1>1, <1>2 DEF PoolInv, RunInv, CurrentRun, RuntimeType

LEMMA RunReturnTask ==
    ASSUME PoolInv, RunInv, NEW w \in Worker, ReturnTask(w)
    PROVE  RunInv'
<1> USE DEF PoolInv, RuntimeType, RunInv
<1> DEFINE t == <<runs, job[w]>>
<1>1. /\ pc[w] = "running" /\ pc' = [pc EXCEPT ![w] = "complete"]
      /\ job' = [job EXCEPT ![w] = 0]
      /\ UNCHANGED <<m_jobs, m_total_tasks, m_done, runs, num_total_tasks, main_pc>>
  BY DEF ReturnTask, Goto, callVars, runtimeVars
<1>2. /\ JobsOK /\ main_pc \in Waiting /\ w \in Held
      /\ runs \in RunId /\ runs \in 1 .. runs /\ job[w] \in Nat
  BY <1>1, OwnTask DEF RunId
<1>3. finished' = finished \cup {t}
  BY <1>1, OwnTask DEF ReturnTask
<1>4. Held' = Held \ {w} /\ \A v \in Held' : job'[v] = job[v]
  BY <1>1 DEF Held
<1>5. Popped' = Popped
  BY <1>1 DEF Popped
<1>6. JobsOK'
  <2>1. \A v \in Held' : v \in Held /\ job[v] # job[w]
    BY <1>2, <1>4 DEF JobsOK
  <2>2. \A v \in Held' :
           /\ job'[v] < Popped' /\ <<runs', job'[v]>> \notin finished'
           /\ \A u \in Held' \ {v} : job'[u] # job'[v]
    BY <1>1, <1>2, <1>3, <1>4, <1>5, <2>1 DEF JobsOK
  <2>3. ASSUME NEW i \in 0 .. Popped - 1
        PROVE  <<runs, i>> \in finished' \/ \E v \in Held' : job'[v] = i
    BY <1>2, <1>3, <1>4 DEF JobsOK
  <2>4. \A f \in finished' : f[1] = runs => f[2] < Popped
    BY <1>2, <1>3 DEF JobsOK
  <2>5. \A i \in 1 .. Len(m_jobs) : m_jobs[i] = Popped + i - 1
    BY <1>2 DEF JobsOK
  <2> QED
    BY <1>1, <1>5, <2>2, <2>3, <2>4, <2>5 DEF JobsOK
<1>7. \A r \in 1 .. runs : AllReturned(r) => AllReturned(r)'
  BY <1>1, <1>3 DEF AllReturned
<1>8. /\ finished' \subseteq RunId \X Nat
      /\ \A f \in finished' : f[1] \in 1 .. runs
  BY <1>2, <1>3
<1>9. main_pc # "add_job"
  BY <1>2 DEF Waiting
<1> QED
  BY <1>1, <1>2, <1>6, <1>7, <1>8, <1>9

LEMMA RunCallRun ==
    ASSUME PoolInv, RunInv, NEW n \in TaskCounts, CallRun(n)
    PROVE  RunInv'
<1> USE DEF PoolInv, RuntimeType, RunInv
<1>1. /\ main_pc = "app" /\ main_pc' = "add_job" /\ runs \in Nat /\ runs' = runs + 1
      /\ num_total_tasks' = [num_total_tasks EXCEPT ![runs + 1] = n]
      /\ UNCHANGED <<finished, m_done>>
  BY DEF CallRun, MainGoto
<1>2. ASSUME NEW r \in 1 .. runs', r # runs'
      PROVE  AllReturned(r)'
  <2>1. r \in 1 .. runs /\ r # runs + 1
    BY <1>1, <1>2
  <2>2. AllReturned(r)
    BY <1>1, <2>1 DEF Waiting
  <2>3. num_total_tasks'[r] = num_total_tasks[r]
    <3>1. r \in RunId
      BY <1>1, <2>1, MaxRunsAssumption DEF CallRun, RunId
    <3> QED
      BY <1>1, <2>1, <3>1
  <2> QED
    BY <1>1, <2>2, <2>3 DEF AllReturned
<1>3. \A f \in finished : f[1] \in 1 .. runs' /\ f[1] # runs'
  BY <1>1
<1> QED
  BY <1>1, <1>2, <1>3 DEF Waiting

LEMMA RunAddJob ==
    ASSUME PoolInv, RunInv, AddJob
    PROVE  RunInv'
<1> USE DEF PoolInv, RuntimeType, RunInv
<1> DEFINE n == num_total_tasks[runs]
<1>1. /\ main_pc = "add_job" /\ main_pc' = "wait"
      /\ m_jobs' = m_jobs \o [i \in 1 .. n |-> i - 1]
      /\ m_total_tasks' = n
      /\ UNCHANGED <<m_done, runs, num_total_tasks, finished, pc, job>>
  BY DEF AddJob, MainGoto, callVars
<1>2. m_jobs = <<>> /\ InFlight = {} /\ runs \in RunId /\ n \in Nat
  BY <1>1 DEF Waiting
<1>3. Len(m_jobs') = n /\ \A i \in 1 .. n : m_jobs'[i] = i - 1
  <2>1. m_jobs' = <<>> \o [i \in 1 .. n |-> i - 1]
    BY <1>1, <1>2
  <2>2. [i \in 1 .. n |-> i - 1] \in Seq(Nat) /\ Len([i \in 1 .. n |-> i - 1]) = n
    BY <1>2
  <2>3. m_jobs' = [i \in 1 .. n |-> i - 1]
    BY <2>1, <2>2
  <2> QED
    BY <1>2, <2>2, <2>3
<1>4. Popped' = 0 /\ Held' = {}
  <2>1. \A w \in Worker : pc[w] \notin {"call", "running"}
    BY <1>2 DEF InFlight
  <2> QED
    BY <1>1, <1>2, <1>3, <2>1 DEF Popped, Held
<1>5. \A f \in finished : f[1] # runs
  BY <1>1
<1>6. JobsOK'
  <2>1. \A i \in 1 .. Len(m_jobs') : m_jobs'[i] = Popped' + i - 1
    BY <1>2, <1>3, <1>4
  <2>2. 0 .. Popped' - 1 = {}
    BY <1>4
  <2> QED
    BY <1>1, <1>4, <1>5, <2>1, <2>2 DEF JobsOK
<1>7. \A r \in 1 .. runs : AllReturned(r)' <=> AllReturned(r)
  BY <1>1 DEF AllReturned
<1> QED
  BY <1>1, <1>6, <1>7 DEF Waiting

(* When every task is counted complete, every one has returned.            *)
LEMMA CompleteMeansReturned ==
    ASSUME PoolInv, RunInv, is_all_complete, main_pc \in Waiting
    PROVE  \A r \in 1 .. runs : AllReturned(r)
<1> USE DEF PoolInv, RuntimeType, RunInv
<1>1. CurrentRun /\ JobsOK
  OBVIOUS
<1>2. Len(m_jobs) = 0 /\ Cardinality(InFlight) = 0
  <2>1. Len(m_jobs) \in Nat
    OBVIOUS
  <2> QED
    BY <1>1, <2>1, InFlightFinite DEF CurrentRun, is_all_complete
<1>3. InFlight = {}
  BY <1>2, InFlightFinite, FS_EmptySet
<1>4. Held = {} /\ Popped = num_total_tasks[runs] /\ num_total_tasks[runs] \in Nat
  BY <1>1, <1>2, <1>3 DEF Held, InFlight, Popped, CurrentRun
<1>5. \A i \in 0 .. num_total_tasks[runs] - 1 : <<runs, i>> \in finished
  BY <1>1, <1>4 DEF JobsOK
<1>6. AllReturned(runs)
  BY <1>5 DEF AllReturned
<1> QED
  BY <1>6

LEMMA RunReturnRun ==
    ASSUME PoolInv, RunInv, is_all_complete, MainGoto("wait", "app"),
           UNCHANGED <<runtimeVars, m_done, callVars, finished>>
    PROVE  RunInv'
<1>1. \A r \in 1 .. runs : AllReturned(r)
  BY CompleteMeansReturned DEF MainGoto, Waiting
<1>2. UNCHANGED <<runs, num_total_tasks, finished, m_done>>
  BY DEF callVars
<1>3. \A r \in 1 .. runs : AllReturned(r)'
  BY <1>1, <1>2 DEF AllReturned
<1> QED
  BY <1>2, <1>3 DEF RunInv, MainGoto, Waiting

LEMMA RunDestroy ==
    ASSUME RunInv, Destroy
    PROVE  RunInv'
<1>1. UNCHANGED <<runs, num_total_tasks, finished>> /\ m_done'
      /\ main_pc = "app" /\ main_pc' = "join"
  BY DEF Destroy, MainGoto, callVars
<1>2. \A r \in 1 .. runs : AllReturned(r)
  BY <1>1 DEF RunInv, Waiting
<1>3. \A r \in 1 .. runs : AllReturned(r)'
  BY <1>1, <1>2 DEF AllReturned
<1> QED
  BY <1>1, <1>3 DEF RunInv, Waiting

LEMMA RunStarts == PoolInit => RunInv
BY DEF PoolInit, RunInv, Waiting

-----------------------------------------------------------------------------
(* The pools keep the contract's safety: calling runTask starts a task,    *)
(* its return finishes it, run() is a launch followed by a sync.           *)

LEMMA RunningMembers ==
    ASSUME NEW t
    PROVE  t \in RunningTasks <=>
              \E w \in Worker : pc[w] = "running" /\ t = <<call[w].run, call[w].task_id>>
BY DEF RunningTasks

(* A step that starts, finishes and launches nothing is not seen.          *)
LEMMA RunInvisible ==
    ASSUME UNCHANGED <<callVars, finished, m_done>>,
           \A w \in Worker : /\ pc'[w] = "running" <=> pc[w] = "running"
                             /\ pc[w] = "running" => call'[w] = call[w]
    PROVE  RunningTasks' = RunningTasks /\ (Caller' = Caller => UNCHANGED Contract!vars)
<1>1. ASSUME NEW t PROVE t \in RunningTasks' <=> t \in RunningTasks
  <2>1. t \in RunningTasks' <=>
           \E w \in Worker : pc'[w] = "running" /\ t = <<call'[w].run, call'[w].task_id>>
    BY DEF RunningTasks
  <2> QED
    BY <2>1, RunningMembers
<1>2. RunningTasks' = RunningTasks
  BY <1>1
<1> QED
  BY <1>2 DEF Contract!vars, callVars

LEMMA PopJobInvisible ==
    ASSUME PoolInv, NEW w \in Worker, PopJob(w)
    PROVE  UNCHANGED Contract!vars
<1>1. UNCHANGED <<callVars, finished, m_done, call, main_pc>>
  BY DEF PopJob
<1>2. \A v \in Worker : pc'[v] = "running" <=> pc[v] = "running"
  BY DEF PopJob, Goto, PoolInv, RuntimeType
<1>3. Caller' = Caller
  BY <1>1 DEF Caller
<1> QED
  BY <1>1, <1>2, <1>3, RunInvisible

LEMMA CallTaskRefines ==
    ASSUME PoolInv, RunInv, NEW w \in Worker, CallTask(w)
    PROVE  Contract!StartSome
<1> USE DEF PoolInv, RuntimeType
<1> DEFINE t == <<runs, job[w]>>
<1>1. /\ pc[w] = "call" /\ pc' = [pc EXCEPT ![w] = "running"]
      /\ call' = [call EXCEPT ![w] = [run |-> m_runnable, task_id |-> job[w], total |-> m_total_tasks]]
      /\ UNCHANGED <<runs, num_total_tasks, finished, m_done, main_pc>>
  BY DEF CallTask, Goto, callVars
<1>2. /\ CurrentRun /\ JobsOK /\ main_pc \in Waiting /\ w \in Held /\ runs \in 1 .. runs
      /\ job[w] \in 0 .. num_total_tasks[runs] - 1
  BY <1>1, OwnTask DEF RunId
<1>3. call'[w].run = runs /\ call'[w].task_id = job[w] /\ pc'[w] = "running"
      /\ \A v \in Worker \ {w} : pc'[v] = pc[v] /\ call'[v] = call[v]
  BY <1>1, <1>2 DEF CurrentRun
<1>4. t \notin RunningTasks
  <2> SUFFICES ASSUME NEW v \in Worker, pc[v] = "running", t = <<call[v].run, call[v].task_id>>
               PROVE  FALSE
    BY RunningMembers
  <2>1. call[v].task_id = job[v] /\ v \in Held /\ v # w
    BY <1>1, OwnTask
  <2> QED
    BY <1>2, <2>1 DEF JobsOK
<1>5. t \notin finished
  BY <1>2 DEF JobsOK
<1>6. RunningTasks' = RunningTasks \cup {t}
  <2>1. ASSUME NEW s PROVE s \in RunningTasks' <=> s \in RunningTasks \cup {t}
    <3>1. s \in RunningTasks' <=>
             \E v \in Worker : pc'[v] = "running" /\ s = <<call'[v].run, call'[v].task_id>>
      BY DEF RunningTasks
    <3> QED
      BY <1>1, <1>3, <3>1, RunningMembers
  <2> QED
    BY <2>1
<1>7. t \in Contract!Tasks(runs)
  BY <1>2 DEF Contract!Tasks
<1>8. Contract!CanStart(t)
  BY <1>2, <1>4, <1>5, <1>7, OwnTask, <1>1 DEF Contract!CanStart
<1>9. Caller # "gone" /\ Caller' = Caller
  BY <1>1, <1>2 DEF Caller, RunInv, Waiting
<1>10. Contract!Start(t)
  BY <1>1, <1>6, <1>8, <1>9 DEF Contract!Start
<1> QED
  BY <1>2, <1>7, <1>10 DEF Contract!StartSome

LEMMA ReturnTaskRefines ==
    ASSUME PoolInv, RunInv, NEW w \in Worker, ReturnTask(w)
    PROVE  Contract!FinishSome
<1> USE DEF PoolInv, RuntimeType
<1> DEFINE t == <<call[w].run, call[w].task_id>>
<1>1. /\ pc[w] = "running" /\ pc' = [pc EXCEPT ![w] = "complete"]
      /\ finished' = finished \cup {t}
      /\ call' = [call EXCEPT ![w] = NoCall]
      /\ UNCHANGED <<runs, num_total_tasks, m_done, main_pc>>
  BY DEF ReturnTask, Goto, callVars
<1>2. t \in RunningTasks
  BY <1>1, RunningMembers
<1>3. RunningTasks' = RunningTasks \ {t}
  <2>1. ASSUME NEW v \in Worker, v # w, pc[v] = "running"
        PROVE  <<call[v].run, call[v].task_id>> # t
    <3>1. call[v].task_id = job[v] /\ call[w].task_id = job[w] /\ v \in Held /\ w \in Held /\ JobsOK
      BY <1>1, <2>1, OwnTask
    <3> QED
      BY <2>1, <3>1 DEF JobsOK
  <2>2. \A v \in Worker : /\ pc'[v] = "running" <=> (pc[v] = "running" /\ v # w)
                          /\ v # w => call'[v] = call[v]
    BY <1>1
  <2>3. ASSUME NEW s PROVE s \in RunningTasks' <=> s \in RunningTasks \ {t}
    <3>1. s \in RunningTasks' <=>
             \E v \in Worker : pc'[v] = "running" /\ s = <<call'[v].run, call'[v].task_id>>
      BY DEF RunningTasks
    <3>2. s \in RunningTasks \ {t} <=> s \in RunningTasks /\ s # t
      OBVIOUS
    <3>3. ASSUME NEW v \in Worker, pc'[v] = "running", s = <<call'[v].run, call'[v].task_id>>
          PROVE  s \in RunningTasks /\ s # t
      <4>1. v # w /\ pc[v] = "running" /\ s = <<call[v].run, call[v].task_id>>
        BY <2>2, <3>3
      <4> QED
        BY <2>1, <4>1, RunningMembers
    <3>4. ASSUME NEW v \in Worker, pc[v] = "running", s = <<call[v].run, call[v].task_id>>, s # t
          PROVE  s \in RunningTasks'
      <4>1. v # w
        BY <3>4
      <4>2. pc'[v] = "running" /\ s = <<call'[v].run, call'[v].task_id>>
        BY <2>2, <3>4, <4>1
      <4> QED
        BY <3>1, <4>2
    <3> HIDE DEF t
    <3>5. s \in RunningTasks /\ s # t => s \in RunningTasks'
      BY <3>4, RunningMembers
    <3>6. s \in RunningTasks' => s \in RunningTasks /\ s # t
      BY <3>1, <3>3
    <3> QED
      BY <3>2, <3>5, <3>6
  <2> QED
    BY <2>3
<1>4. Caller' = Caller
  BY <1>1 DEF Caller
<1>5. Contract!Finish(t)
  BY <1>1, <1>2, <1>3, <1>4 DEF Contract!Finish
<1> QED
  BY <1>2, <1>5 DEF Contract!FinishSome

LEMMA CallRunRefines ==
    ASSUME PoolInv, RunInv, NEW n \in TaskCounts, CallRun(n)
    PROVE  Contract!LaunchSome
<1> USE DEF PoolInv, RuntimeType
<1>1. /\ runs \in Nat /\ runs < MaxRuns /\ runs' = runs + 1
      /\ num_total_tasks' = [num_total_tasks EXCEPT ![runs + 1] = n]
      /\ main_pc = "app" /\ main_pc' = "add_job"
      /\ UNCHANGED <<m_done, finished, pc, call>>
  BY DEF CallRun, MainGoto
<1>2. runs + 1 \in RunId /\ runs + 1 \notin 1 .. runs /\ 1 .. runs' = (1 .. runs) \cup {runs + 1}
  BY <1>1, MaxRunsAssumption DEF RunId
<1>3. RunningTasks' = RunningTasks
  BY <1>1 DEF RunningTasks
<1>4. Caller = "app" /\ Caller' = "app"
  BY <1>1 DEF Caller, RunInv
<1>5. [r \in RunId |-> {}] = [[r \in RunId |-> {}] EXCEPT ![runs + 1] = {}]
  OBVIOUS
<1>6. Contract!Launch(runs + 1, n, {})
  BY <1>1, <1>2, <1>3, <1>4, <1>5 DEF Contract!Launch
<1>7. {} \in SUBSET (1 .. runs)
  OBVIOUS
<1> QED
  BY <1>2, <1>6, <1>7 DEF Contract!LaunchSome

LEMMA AddJobRefines ==
    ASSUME PoolInv, RunInv, AddJob
    PROVE  Contract!CallSync
<1>1. /\ main_pc = "add_job" /\ main_pc' = "wait"
      /\ UNCHANGED <<runs, num_total_tasks, m_done, finished, pc, call>>
  BY DEF AddJob, MainGoto, callVars
<1>2. Caller = "app" /\ Caller' = "sync"
  BY <1>1 DEF Caller, RunInv
<1>3. RunningTasks' = RunningTasks
  BY <1>1 DEF RunningTasks
<1> QED
  BY <1>1, <1>2, <1>3 DEF Contract!CallSync

LEMMA ReturnRunRefines ==
    ASSUME PoolInv, RunInv, is_all_complete, MainGoto("wait", "app"),
           UNCHANGED <<runtimeVars, m_done, callVars, finished, pc, call>>
    PROVE  Contract!ReturnSync
<1>1. \A r \in 1 .. runs : AllReturned(r)
  BY CompleteMeansReturned DEF MainGoto, Waiting
<1>2. \A r \in 1 .. runs : Contract!Done(r)
  BY <1>1 DEF AllReturned, Contract!Done, Contract!Tasks
<1>3. Caller = "sync" /\ Caller' = "app"
  BY DEF Caller, RunInv, MainGoto
<1>4. RunningTasks' = RunningTasks
  BY DEF RunningTasks
<1> QED
  BY <1>2, <1>3, <1>4 DEF Contract!ReturnSync, callVars

LEMMA DestroyRefines ==
    ASSUME RunInv, Destroy
    PROVE  Contract!Destroy
<1>1. /\ main_pc = "app" /\ m_done'
      /\ UNCHANGED <<runs, num_total_tasks, finished, pc, call>>
  BY DEF Destroy, MainGoto, callVars
<1>2. Caller = "app" /\ Caller' = "gone"
  BY <1>1 DEF Caller, RunInv
<1>3. RunningTasks' = RunningTasks
  BY <1>1 DEF RunningTasks
<1> QED
  BY <1>1, <1>2, <1>3 DEF Contract!Destroy

LEMMA PoolInitRefines == PoolInit => Contract!Init
<1> SUFFICES ASSUME PoolInit PROVE Contract!Init
  OBVIOUS
<1>1. RunningTasks = {} /\ Caller = "app" /\ 1 .. runs = {}
  BY DEF PoolInit, RunningTasks, Caller
<1> QED
  BY <1>1 DEF PoolInit, Contract!Init
=============================================================================
