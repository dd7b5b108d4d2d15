# Verification of the task systems

The repository implements *task systems*: an application makes *bulk launches* of
`num_total_tasks` independent tasks, possibly with dependencies on earlier launches, and a
pool of threads runs them. This directory holds TLA+ modules of these systems, TLC
configurations that check them on small instances, and proofs that TLAPS checks for every
number of threads, launches and tasks.

## 1. Inventory

### Components

| Component | Source | State | Operations | Modelled by |
|---|---|---|---|---|
| Interface | `part_{a,b}/itasksys.h` | none; it states what `run`, `runAsyncWithDeps`, `sync` and `runTask` promise | `run`, `runAsyncWithDeps`, `sync`, destruction | `TaskSystem` |
| Part B sleeping pool | `part_b/tasksys.{h,cpp}` | `launch_id_map`, `ready_queue`, `completed_launch_ids`, `next_launch_id`, `terminate`, `queue_mutex`, two condition variables, the threads | worker loop, `run`, `runAsyncWithDeps`, `sync`, destructor | `SleepingPool` |
| Part A spinning pool | `part_a/tasksys.{h,cpp}` | `Runtime` (queue of task numbers, total, count of completed, runnable), `m_done`, the threads | worker loop, `run`, destructor | `RunPool` + `SpinningPool` |
| Part A sleeping pool | same | the same, `m_completed_cv`, `m_max_threads` | the same | `RunPool` + `RunSleepingPool` |
| Part A always-spawn | same | per call: an atomic counter and the threads | `run` | `SpawnRun` |
| Serial systems | both parts | none | loops on the calling thread | - |
| Bulk-task pool variant | `part_b/tasksys_orange.{h,cpp}` | waiting and ready vectors, `finished_bulk`, `done`, `next_id`, three kinds of mutex, two condition variables | worker loop, `CheckWaiting`, `runAsyncWithDeps`, `sync`, destructor | `BulkPool` |
| Task-group pool variant | `part_b/tasksys_new.{h,cpp}` | `groups` with their counts and dependents, `readyTasks`, `pendingLaunches`, `stop`, two mutexes and condition variables | worker loop, `enqueueGroupTasksLocked`, `run`, `runAsyncWithDeps`, `sync`, destructor | `DependentsPool` + `GroupPool` |
| Older snapshot | `part_b/tasksys copy.cpp` | the same under other names | the same, `move_ready_tasks_to_queue` | `DependentsPool` + `LaunchPool` |
| Tests | `tests/tests.h`, `tests/main*.cpp` | workload arrays; flags of the strict dependency tests | partition of elements over tasks, dependency graphs | `StrictDependencyTest` (the strict tests) |
| Tutorial | `tutorial/tutorial.cpp` | a counter and a flag under a mutex | two demonstrations | - |
| Harness, clock, images | `tests/run_test_harness.py`, `common/` | none that matters | input and output | - |

### How they interact

The application (a test) has one thread that makes all the calls. It hands launches to the
pool under a mutex, the workers take tasks and run `runTask` outside every lock, and both
sides sleep on condition variables. A completed launch makes launches that depend on it
ready. `sync()` (or `run()`) waits until all is done. The destructor stops and joins the
workers.

### What is hard, and what makes it correct

* **Part B pool.** State read under `queue_mutex` is used after it was released (the deque
  iterator `task_iter`, the test of `ready_queue.empty()`); notifications are sent outside
  the mutex; a launch may complete while another that depends on it is being added; `sync()`
  waits for an empty queue although launches may be waiting outside it. It is correct when
  dependencies are respected, every task runs once, `sync()` returns and only when
  everything is complete, no wake-up is lost, and the destructor returns.
* **Part A pools.** `m_runnable`, `m_total_tasks` and the count are used outside the mutex,
  and reset from one `run()` to the next; `m_completed_cv` is notified without its mutex;
  threads may be switched off. They are correct when a call runs its own tasks, all of them
  and once, and `run()` returns only then, and always.
* **Always-spawn.** An `int` counter that every thread overshoots. It is correct when every
  task id is in range.
* **Bulk-task variant.** The flag `done` stands for `next_id == num_bulk_done`, two counts that
  change under no mutex or under another one; workers and `sync()` sleep on opposite values of
  it. It is correct when `done` can be believed, nobody sleeps for good, and a bulk leaves the
  waiting vector only after its dependencies.
* **Task-group variant and older snapshot.** A launch registers with its dependencies and is
  counted down by whichever worker ends one of them; launches are then in no queue for a
  while (`toEnqueue`). The count of pending launches changes under one mutex and is waited for
  under another, and the two variants notify with and without it; workers are notified only
  when the queue was empty, or always. They are correct when dependencies hold, no wake-up is
  lost, and calls return.
* **Tests.** The flags of the strict tests are plain `bool`s without a lock, so their verdict
  rests on the order the task system guarantees: it is right when a correct system passes, and
  no two threads are at one flag together.
* **Interface.** The promises must be consistent: every dependency graph can be run.

`PROJECT.json` lists each hazard with its line and the properties about it.

## 2. Modules

| Module | Role |
|---|---|
| `TaskSystem` | the abstract specification: launches, tasks that start and finish, `sync`, destruction, and the fairness an application relies on |
| `SleepingPool` | part B pool; `Contract` is its refinement mapping to `TaskSystem` |
| `RunPool` | what both part A pools share: `Runtime`, the inner worker loop, `run`'s `add_job`, the destructor, the properties and the mapping to `TaskSystem` |
| `SpinningPool`, `RunSleepingPool` | the two pools built from `RunPool` |
| `BulkPool` | the bulk-task variant of the part B pool, mapped to `TaskSystem` too |
| `SpawnRun` | the always-spawn system, likewise |
| `DependentsPool` | what the two other variants of the part B pool share: the counts and dependents of launches, the queue of tasks, most of the workers' loop, `sync`, the destructor |
| `GroupPool`, `LaunchPool` | the task-group variant and the older snapshot, built from it |
| `StrictDependencyTest` | the strict dependency tests, composed with `TaskSystem`: each launch of the contract runs the test's tasks |
| `MCSleepingPool` | constants, symmetry and constraint for TLC |
| `TaskSystemProofs`, `SleepingPoolProofs`, `BulkPoolProofs`, `GroupPoolProofs`, `RunPoolProofs`, `SpinningPoolProofs`, `RunSleepingPoolProofs`, `SpawnRunProofs` | theorems |

### SleepingPool

*State.* The fields of `TaskLaunch` are functions of the launch id; `launch_id_map` holds the
ids below `next_launch_id`. `ready_queue` is a sequence of ids, and `queue_start` is the
absolute deque slot of its first element, so that an iterator is a slot number. `job[w]` has
the locals of worker `w`: launch, task id and iterator. `pc[w]` and `main_pc` are places in
the code: `asleep` is inside `queue_cv.wait`, `blocking` is between a false predicate and the
sleep, with the mutex held. `deps` is a history of the argument of each launch.

*Actions.* A critical section is one action: `ClaimTask`, `FindNothing` and `BeginWait` are
the outcomes of the first (tasksys.cpp:146-163), `CompleteTask` and `CompleteLaunch` of the
second (167-180), `AddLaunch` is that of `runAsyncWithDeps` (246-271), `SyncReturn` and
`SyncBeginWait` that of `sync`. What happens outside the mutex is an action of its own:
`TestLoop`, `RunTask`, `ReadEmpty`, `NotifySync`, `NotifyWorkers`, `Destroy`, `DestroyNotify`,
`Join`. Any sleeping thread may wake spuriously.

*The iterator.* `ready_queue.erase(task_iter)` uses an iterator obtained before the unlock.
After another erase it is invalid in C++; the model gives it the behaviour of libstdc++ on a
deque within one node: elements move from the nearer end, so the iterator's slot may hold
another launch or lie outside the queue (`ErasedIndex`, `StartAfterErase`). What goes beyond
that - a slot past the end crashing in some library, or a deque that spans several 64-element
nodes - is not modelled.

*Assumptions.* One application thread (as in `tests/`). Dependencies are launches already made;
a duplicate counts twice on both sides in the code, so `deps` is a set. `queue_mutex` is
eventually acquired by a thread that keeps trying. Ids, `int` in the code, do not overflow
within `MaxLaunches`. `empty()` after the unlock is an atomic read: a torn one could only
report a false "empty", which is a spurious wake-up of `sync`.

### BulkPool

*State.* A `TaskBulk` is a row of functions of the launch id. `waiting` and `ready` are sets,
since the code draws from `ready` at random and searches both; `finished_bulk`,
`num_bulk_done`, `next_id`, `done` and `terminate` are the code's. `cmtx` has an owner while a
worker goes to sleep; `qmtx` is held between two steps only while a bulk is being finished
(`QmtxFree`), because `num_bulk_done` changes before the vectors do and is read under `cmtx`.

*Actions.* `Leave`, `SeeWork` and `SetDone` are the outcomes of a worker's section under
`cmtx` (tasksys_orange.cpp:229-248), `Claim`, `DrawInVain` and `FindNothing` those of the
section under `qmtx`, `CheckWaiting` included. `NewBulk`, `Push`, `ClearDone` and
`NotifyWorkers` are `runAsyncWithDeps`, `Terminate`, `FinalWake` and `Join` the destructor
after its `sync()`. `done` is left set or cleared exactly where the code does so.

*Assumptions.* As above; `next_task_id`, which workers go on incrementing while a bulk's last
tasks run, is kept at the total, as every value from there on has the same effect, unless
`Wrapped` gives it the values after an overflow. The run has `Wrapped = {}`: no task lasts
for 2^31 draws. A launch has at least one task: one without stays in `ready` for good, as
in part B's pool.

### DependentsPool, GroupPool, LaunchPool

*State.* A `TaskGroup` (`TaskLaunch`) is a row of functions of the launch id; `readyTasks` is the
sequence of tasks, a task being a launch and a number. `queueMutex` is held between two steps
only by a worker that has found nothing and is about to sleep (`blocking`), `allDoneMutex` only
by the application in the same place (`sync_blocking`). `toEnqueue` and `notifyAllDone` are the
locals of the same names. `deps`, `finished` and, in `LaunchPool`, `missedDone` - the last
notification, with nothing pending, came between the test and the sleep of `sync()` - are history.

*Actions.* `TakeTask`, `BeginWait` and `Leave` are the outcomes of the worker's first critical
section, `CountTask` and `CompleteGroup` (`CompleteLaunch`) those of the second; a group's worker
enqueues what it unlocked in a third, `EnqueueUnlocked`. `NotifySync` needs `allDoneMutex` in
`GroupPool` and nothing in `LaunchPool`. `Launch` is `runAsyncWithDeps` with its notification;
`run()` is `Run` and then `sync()`.

*Assumptions.* As for `SleepingPool`. Since dependencies are launches already made, they are
always found, so that `pendingDependents` (`m_dependents`) stays empty and the branches on it are
dead. `are_dependencies_satisfied` is never called. `tasksys copy.h` is not the header of
`tasksys copy.cpp` but of yet another version, so the state is read off the .cpp.

### StrictDependencyTest

Each operation of a `StrictDependencyTask` is an action that carries the step of `TaskSystem` it
belongs to: `Enter` is `Start`, the return after the last read or write of the flags is
`Finish`. `looking` and `marking` hold the tasks that are between the atomic counter and the
plain flag, so that another task may run there. `LaunchNext` makes the graph, any edges from
earlier launches to later ones in place of random ones. `doWork` is left out: it reads and
writes nothing that another task does.

### RunPool, SpinningPool, RunSleepingPool

`m_runnable` is the number of the `run()` whose tasks it points to, so that a stale read
shows. Each method of `Runtime` is one action, since each is one critical section or one
atomic operation; the unlocked reads of `Runtime::run` are the action `CallTask`. `m_jobs`
holds task numbers. Both pools use the actions of `RunPool` and add their loop heads
(`TestDone`; `Leave`, `Enter`, `Time`), the notification and the wait of `run()`. The measured
duration of a task is a choice in `Time`. `m_total_tasks` is uninitialised before the first
`run()`: any value of `TaskCounts` or 0.

### SpawnRun

`FetchAdd` is `fetch_add` on a `std::atomic<int>` with `IntMax` in the place of `INT_MAX`,
wrapping to `-IntMax - 1`. Threads run from the moment they are created (`SpawnThread`), while
others are still being created.

### TaskSystem

The steps an application can tell apart. `run()` is `Launch`, `CallSync`, `ReturnSync`. Its
fairness says that tasks return, that what may start eventually starts, and that a `sync`
with nothing left returns; nothing obliges the application to make a call.

## 3. Checks

`tlc -config <cfg> <module>`, module and configuration as in `PROJECT.json`.

| Run | Bounds | Shows |
|---|---|---|
| `strict_dependency` | 3 launches of 1-2 tasks, any dependencies | the strict tests pass on every system that keeps the contract; no read or write of their unlocked flags races with another; no graph deadlocks `sync` |
| `sleeping_pool_safety` | 3 workers, 3 launches, 1-2 tasks, any dependencies | the safety properties, the inductive invariant and the refinement's safety |
| `sleeping_pool_liveness` | 2 workers, 2 launches, 1-2 tasks | the whole contract is implemented, its liveness included: what may start starts and `sync` returns |
| `sleeping_pool_stranded` | 2 workers, 4 independent launches of 1 task | **violation**: the wrong launch is erased and `sync` hangs |
| `sleeping_pool_shutdown` | 1 worker, 1 launch | **violation**: the destructor hangs |
| `spinning_pool` | 3 threads, 2 runs of 0-2 tasks | the part A properties, safety and liveness, and the contract |
| `run_sleeping_pool` | 4 threads, 2 runs of 0 or 2 tasks | the same for the pool that sleeps; the fourth thread has number 3, above the limit of 2 that `m_max_threads` may fall to |
| `bulk_pool` | 2 workers, 3 launches of 2 tasks, any dependencies | `done` is honest, no wake-up is lost, dependencies hold, `sync` is never early, the destructor (with its `sync`) returns, the contract's safety |
| `spawn` | 3 threads, 2 runs of 0, 1, 3 or 5 tasks, `IntMax` = 7 | all of the always-spawn system, with 5 + 3 - 1 = `IntMax` at the boundary |
| `group_pool` | 2 workers, 3 launches of 0 or 2 tasks, any dependencies | no wake-up is lost, the contract's safety; calls return unless a launch is stranded or the shutdown's notification missed |
| `launch_pool` | the same | the same, unless `sync`'s notification is missed |
| `group_pool_stranded` | 2 workers, 2 launches of 1 task | **violation**: a completed dependency is waited for and `sync` hangs |

*Why the bounds are enough.* Two tasks of one launch and a third worker give every race
between claiming, completing and looking for work; three launches give a chain, a fork and a
join of dependencies, and a dependency completing before, during and after registration. The
stale iterator needs two workers and four launches to hurt - one erase must move the slots
while the other worker runs, and the queue must be long enough for the slot to matter - hence
`sleeping_pool_stranded`. That `ready_queue` holds exactly the executable launches is thus not
true of the code and is not among the properties; its length is right all the same, and the
proofs take the safety properties that rest on it beyond any bound. Liveness uses smaller instances: it
adds no interaction but the waits, which two workers and the caller exhaust.
In `bulk_pool` three launches are needed, as a waiting bulk can only be moved too early when it
depends on another that waits; two tasks each give one that is not the last and one that is.
`sync()` has no liveness property of its own there: the destructor may be called in every
state `sync()` may, and begins with it.
In `group_pool` and `launch_pool` three launches give a chain, a fork and a join, two tasks a
worker that is not the last of its launch, and no task the launch that can never complete.
`CallsReturnUnlessLost` names each known reason for a hang: a launch that is `Stranded` (it has
no task, or had a dependency that was complete when it was made), for `LaunchPool` a
notification missed by `sync()`, and a worker between its test and its sleep when the
destructor notifies. The run shows that there is no other.
`MaxLaunches` and `MaxRuns` bound the calls of the application and nothing else. Deadlock is
not checked (`CHECK_DEADLOCK FALSE`), since a destroyed system and an application that makes
no further call have really stopped.

*Fairness.* Weak fairness of each thread's steps: the operating system schedules every thread
and every `runTask` returns. In `SleepingPool` strong fairness for the actions that take
`queue_mutex`, which is disabled again and again while others hold it: a thread that keeps
asking gets it. `GroupPool` has the same for both its mutexes (`LockQueue`, `NotifySync`),
`LaunchPool` for the one workers contend for. `BulkPool` has it for both its mutexes, and strong
fairness of `Claim`: `rand()` does not miss a bulk with tasks left for ever. Part A needs no
strong fairness, as no thread holds a mutex across steps. `StrictDependencyTest` assumes that
the test's thread goes on, that what may start eventually does, and that tasks go on: the
contract's own fairness, spread over the test's steps. No fairness for spurious wake-ups or the
application's calls to a pool. Liveness of the part B pool is checked where launches have tasks
and the iterator cannot be stale (two launches); the first violation run shows that it fails
otherwise, and a launch without tasks makes `sync` hang at once. The shutdown hang is a
behaviour with all that fairness.

Each property of a passing run has a variant of a mapped definition (`\* Faulty variant`
in the modules) that breaks it; `PROJECT.json` pairs them under `mutants`.

## 4. Findings

1. *Stale iterator* (tasksys.cpp:170). A launch is erased through an iterator found before
   `runTask`. With two workers and independent launches a complete launch stays in
   `ready_queue` and an executable one is lost; `sync()` never returns. The comment at
   tasksys.cpp:149 suspects it. The theorems show that this is the whole damage: tasks still
   run once, dependencies are respected and `sync()` never returns early, because the queue's
   *length* stays right (`QueueOK`).
2. *Lost wake-up in the destructor* (tasksys.cpp:218-219).
3. *A completed dependency strands a group* (tasksys_new.cpp:93). The new group counts all its
   dependencies as missing, also those whose last task has returned and which look at their
   dependents no more. `sync()` then hangs; two launches are enough. The older snapshot does
   the same (`tasksys copy.cpp`:201).

Also found, without a run of their own:

* A launch of no tasks is never removed from part B's queue (tasksys.cpp:150, 266), and
  `sync()` hangs; likewise in all three variants.
* Always-spawn: the counter overflows (part_a/tasksys.cpp:81) when
  `num_total_tasks + num_threads - 1 > INT_MAX`, and a task gets a negative id.
* `tasksys copy.cpp`:330 notifies without the mutex `sync()` waits with, which may miss it.
* The destructors of the task-group variant and of the older snapshot lose a worker in the same
  way as finding 2.
* The strict diamond test (tests.h:1286, 1313) calls its graph a diamond but makes `c` depend on
  `b`: the two sides never run side by side.
* The strict graph test looks only at the flag of the last launch (tests.h:1390); `TestPasses`
  shows that all of them are set when the contract is kept.

## 5. Proofs

All theorems are about every value of the constants, assuming only the ASSUMEs of the modules
(finite nonempty set of workers, natural bounds and counts) and, in two modules, a condition
that keeps an `int` from overflowing. For every one of the systems the theorem that says most is
the refinement: each step is a step of `TaskSystem` or a stutter, so tasks start after their
dependencies, run once, and `sync()` or `run()` returns after all of them.

* **TaskSystemProofs.** `ContractInvariant`, `ContractTypes`.
  `ContractNeverStuck`: as long as a launch is not done, a task is running or may start. Its
  invariant `NoCycle` says that a nonempty set of launches has one that depends on none of the
  set; a new launch keeps it, since nothing depends on it yet. `ContractPassesTests` is about
  the strict tests over the contract (`TestSafeSpec`): the verdict rests on `TestInv`, which ties
  the counters to the tasks begun and ended, and says that a launch that is done has set its
  flag: the last task of a launch sets it before it returns, so the first task of a dependent,
  which begins later, finds it set although no lock orders the two. `TestFlagsNeverRace`: no two
  of the tasks and the test's thread are ever at the same plain `bool`. With `TestInv` it needs
  `TouchedOnce`: of each launch one task looks and one marks, and a verdict comes when all is
  done. A task of a launch looks only after its dependencies are done, so none of theirs marks;
  its own launch has not ended, so none of that marks either.
* **SleepingPoolProofs.** `PoolInvariant`: `SafeSpec => []IInv`. The properties are not
  inductive alone. `IInv` adds: a count (`CountsOK`) that equates tasks handed out with tasks
  completed plus workers in flight - without it completing a launch says nothing of its other
  tasks; `DependsOK`, which ties `num_depends` and `successors` to the dependencies not yet
  complete; `QueueOK`, which despite the stale iterator keeps the queue's length equal to the
  number of executable launches, and everything in it executable; and `WaitersOK`, that a
  thread about to sleep holds the mutex and still sees the reason. `EmptyQueueMeansDone` is
  the heart of `SyncSound`: with no executable launch, the least incomplete launch would have
  only complete dependencies, so there is none. One lemma per action, one step per conjunct.
  From it follow `TypeCorrect`, `DependenciesRespected`, `TasksOnce`, `CompletedQuiet`,
  `WorkersWoken`, `SyncNotified`, `SyncSound` and the refinement `PoolImplementsContract`
  (claiming is `Start`, the return of `runTask` is `Finish`, `AddLaunch` is `Launch`).
* **BulkPoolProofs.** All under `Wrapped = {}`: no bulk is drawn 2^31 times. `BulkInvariant`:
  `SafeSpec => []IInv`. `CountsOK` equates, for each bulk, the tasks handed out with those counted
  and those in workers' hands. `PlacesOK` keeps a bulk in one place at a time, and lets one into
  `ready` only after its dependencies are in `finished_bulk`; `InFlightOK` keeps a bulk in `ready`
  while a worker has a task of it, and gives no task to two. `FinishingOK` and `CountedOK` are about
  the two steps of finishing, in which `num_bulk_done` already counts the bulk and the vectors
  do not yet say so. `FlagOK` says when `done` can be believed, and `SleepOK` who is awake when
  it is not set. From it follow `BulkTypeOK`, `BulkNoTaskTwice`, `BulkDoneIsHonest`,
  `BulkSomeoneAwake` and the refinement `BulkImplementsSafely`.
* **GroupPoolProofs.** Two invariants, and a third on top of both.
  - `WakeInvariant`: `WorkersOK` adds to the property that a worker about to sleep still sees an
    empty queue, which holds as it has the mutex and nothing is enqueued without; `SyncOK`
    extends it to a thread about to sleep in `sync()`. With a queue that was not empty nobody is
    notified, and need not be, since then some worker is awake already. `GroupPoolWorkers` and
    `GroupPoolSync` follow.
  - `GroupPoolInvariant`: `LaunchesOK` makes `dependents` the inverse of `deps`, without
    repetition; `DepsOK` says that a launch waits for at least its undone dependencies - at
    least, since it may be stranded; `CountsOK` equates the tasks remaining with those not
    returned plus those returned and not counted; `PlacesOK` has each task in one place at a time
    and only once its launch waits for nothing and is in no worker's `toEnqueue`; `UnlockedOK` has
    each unlocked launch in the hands of one worker, so that none is enqueued twice;
    `PendingOK` says what `pendingLaunches` counts. `GroupPoolTypes` and the refinement
    `GroupPoolImplementsSafely` follow. `FlattenSeq`, which the model enqueues with, is a
    recursive function of the library: what it returns is proved by least counterexample
    (`FlattenExists`, `FlattenIs`, `FlattenDistinct`).
  - `GroupPoolNeverStuck`: while `sync()` sleeps and no launch is stranded, some worker is awake.
    Safety says that nothing is done too early; this says that nothing is forgotten. `Placed`:
    the tasks of a launch that waits for nothing wait in the queue, run or have returned, or it
    is in some `toEnqueue`; `LocalsOK`: its owner is still about to enqueue it. If all slept, the
    least pending launch would have no undone dependency, so wait for nothing, so have all its
    tasks returned and counted - and not be pending. No run checks this one as a property.
* **RunPoolProofs, SpinningPoolProofs, RunSleepingPoolProofs.** `PoolInv` is proved once for the
  actions both part A pools share, one lemma each, and then for either pool. It equates the
  launch's tasks with those in the queue, in the hands of a worker and counted as complete, and
  says that all of them belong to the current `run()`; hence when the count reaches the total
  nothing is left, and the next `run()` resets a `Runtime` nobody uses. From it follow
  `SpinningQuiet`, `SpinningOwnLaunch`, `SpinningCounts`, `RunSleepingQuiet` and
  `RunSleepingCounts`. The refinement needs to know which tasks are left, and not only how many:
  `RunInv` (`SpinningTasks`, `RunSleepingTasks`) says that the queue always holds the last tasks
  of the launch in order, so that those popped are the first ones, and that each of these is in
  one worker's hands or has returned. `SpinningImplementsSafely` and
  `RunSleepingImplementsSafely` follow, and `SpinningTypes`. No notification matters to them.
* **SpawnRunProofs.** Under `RoomToCount` - the largest `num_total_tasks` plus the threads less
  one fits in an `int` - `SpawnInvariant`, `SpawnTaskIds`, `SpawnOnce`, `SpawnRunSound` and the
  refinement `SpawnImplementsSafely`. The invariant bounds the counter by the total plus the
  number of threads that have exited, until all have; the `spawn` run is on the boundary of that
  condition. The refinement adds `EarlierRunsDone`: nothing of a `run()` is left when the next
  begins.

*Only model-checked.* Liveness everywhere, that is `CallsReturnUnlessLost`, `DestructorReturns`,
`TestEnds` and the fairness part of `ImplementsContract`: TLAPS reasons about neither `ENABLED` nor
leads-to under fairness here. `LaunchPool`: it shares all but its completion and notifications
with `GroupPool`, for which the theorems are, but its own steps are not proved. The
violations are counterexamples, which only TLC gives.

## 6. Not modelled

The serial systems (a loop), the unused copy of `Runtime` in part_b/tasksys.h, `tasksys copy.h`
(the header of a version that is not in the repository), the tutorial (two demonstrations of a
mutex and of a condition variable), the numerical workloads of the tests, the test
harness, clock and image writer (input and output), timing and performance, exceptions (no
`runTask` throws and no allocation fails), several application threads.

## 7. Plan

The modules were written in this order: the contract and the part B pool, the part A pools and
always-spawn, the bulk-task variant, the task-group variant and the older snapshot, the strict
tests; proofs follow each. What is left, in order of worth:

1. `LaunchPool`: `WorkKeepsAWorkerAwake` and the refinement, with the lemmas of `GroupPoolProofs`
   that are about `DependentsPool` only.
2. What `GroupPoolNeverStuck` says, for the part B pool with its queue intact and for `BulkPool`.
3. `BulkPool` with a wrapped `next_task_id`, and the liveness half of its contract.
4. `TaskPartition`: the arithmetic that divides elements among tasks in tests.h, with proofs
   that every element is in exactly one task.
5. The tutorial's counter and condition variable.
