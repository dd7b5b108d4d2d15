--------------------------- MODULE BulkPoolProofs ---------------------------
(***************************************************************************)
(* Theorems about BulkPool: its types, that no task runs twice, that done  *)
(* can be believed, that no wake-up is lost, and that it keeps the         *)
(* contract's safety.  All are about next_task_id before it overflows.     *)
(***************************************************************************)
EXTENDS BulkPool, FiniteSetTheorems, TLAPS

(* The workers with a task of bulk b.                                      *)
With(b) == {w \in InFlight : my_bulk[w] = b}

(* A task handed out has returned and been counted, or a worker has it.    *)
CountsOK ==
    /\ next_task_id \in [LaunchId -> Nat]
    /\ \A b \in LaunchId :
          /\ next_task_id[b] = num_tasks_done[b] + Cardinality(With(b))
          /\ next_task_id[b] <= num_total_tasks[b]
    /\ \A b \in LaunchId \ Launched : num_total_tasks[b] = 0

Pushing == IF main_pc = "push" THEN {next_id - 1} ELSE {}

(* A bulk is in one place at a time, in none before it is pushed; only one *)
(* that is or was ready has begun, and what it depends on is finished.     *)
PlacesOK ==
    /\ main_pc = "push" => next_id > 0
    /\ waiting \cup ready \cup finished_bulk \subseteq Launched \ Pushing
    /\ waiting \cap (ready \cup finished_bulk) = {}
    /\ ready \cap finished_bulk = {}
    /\ \A b \in LaunchId : next_task_id[b] > 0 => b \in ready \cup finished_bulk
    /\ \A b \in ready \cup finished_bulk : deps[b] \subseteq finished_bulk
    /\ \A b \in finished_bulk : num_tasks_done[b] = num_total_tasks[b]

InFlightOK ==
    \A w \in InFlight :
        /\ my_bulk[w] \in ready
        /\ my_id[w] \in 0 .. next_task_id[my_bulk[w]] - 1
        /\ \A v \in InFlight \ {w} : my_bulk[v] = my_bulk[w] => my_id[v] # my_id[w]

(* The worker whose task was the last of a bulk is the only one to finish  *)
(* that bulk, and holds qmtx from counting it to removing it.              *)
Finishing == {w \in Worker : pc[w] \in {"finish", "remove"}}

FinishingOK ==
    \A w \in Finishing :
        /\ my_bulk[w] \in ready
        /\ num_tasks_done[my_bulk[w]] = num_total_tasks[my_bulk[w]]
        /\ \A v \in Finishing \ {w} :
              my_bulk[v] # my_bulk[w] /\ (pc[w] = "remove" => pc[v] # "remove")

(* The bulks that num_bulk_done counts.                                    *)
Counted == finished_bulk \cup {my_bulk[w] : w \in {v \in Worker : pc[v] = "remove"}}

CountedOK == num_bulk_done = Cardinality(Counted)

WorkOK == CountsOK /\ PlacesOK /\ InFlightOK /\ FinishingOK /\ CountedOK

(* done is set, and sync() left, only when every bulk is counted, and then *)
(* no count changes until the next launch.                                 *)
FlagOK ==
    /\ done /\ main_pc \notin {"push", "clear"} => AllBulksDone
    /\ main_pc \in {"terminate", "wake", "join", "destroyed"} => AllBulksDone

Awake(w) == pc[w] \notin {"blocking", "asleep", "exited"}

(* Who is about to sleep has cmtx, so done is still set.  While it is not, *)
(* a worker is awake, except when the application is about to wake all.    *)
SleepOK ==
    /\ \A w \in Worker : pc[w] = "blocking" => cmtx = w /\ done
    /\ \A w \in Worker : pc[w] = "exited" => terminate
    /\ terminate <=> main_pc \in {"wake", "join", "destroyed"}
    /\ main_pc = "sync_asleep" => ~done
    /\ (~done /\ main_pc \notin {"notify", "wake", "join", "destroyed"}) =>
          \E w \in Worker : Awake(w)

IInv == TypeOK /\ WorkOK /\ FlagOK /\ SleepOK

-----------------------------------------------------------------------------

LEMMA BulkTypes ==
    ASSUME TypeOK
    PROVE  /\ next_id \in Nat
           /\ Launched \subseteq LaunchId
           /\ num_total_tasks \in [LaunchId -> Nat]
           /\ LaunchId \subseteq Nat
           /\ IsFiniteSet(Launched) /\ Cardinality(Launched) = next_id
<1>1. num_total_tasks \in [LaunchId -> Nat]
  <2>1. TaskCounts \cup {0} \subseteq Nat
    BY TaskCountsAssumption
  <2> QED
    BY <2>1 DEF TypeOK
<1>2. next_id \in Nat /\ next_id - 1 \in Int
  BY DEF TypeOK
<1>3. IsFiniteSet(Launched) /\ Cardinality(Launched) = next_id
  BY <1>2, FS_Interval DEF Launched
<1> QED
  BY <1>1, <1>2, <1>3, MaxLaunchesAssumption DEF TypeOK, Launched, LaunchId

LEMMA WithFinite ==
    ASSUME NEW b
    PROVE  IsFiniteSet(With(b)) /\ Cardinality(With(b)) \in Nat
BY WorkerAssumption, FS_Subset, FS_CardinalityType DEF With, InFlight

(* With all its tasks counted, a bulk has none in a worker's hands or left *)
(* to hand out.                                                            *)
LEMMA NobodyWithDone ==
    ASSUME IInv, NEW b \in LaunchId, num_tasks_done[b] = num_total_tasks[b]
    PROVE  /\ next_task_id[b] = num_total_tasks[b]
           /\ \A w \in InFlight : my_bulk[w] # b
<1>1. Cardinality(With(b)) = 0 /\ next_task_id[b] = num_total_tasks[b]
  BY BulkTypes, WithFinite DEF IInv, WorkOK, CountsOK, TypeOK
<1>2. With(b) = {}
  BY <1>1, WithFinite, FS_EmptySet
<1> QED
  BY <1>1, <1>2 DEF With

LEMMA CountedLaunched ==
    ASSUME IInv
    PROVE  /\ Counted \subseteq Launched
           /\ IsFiniteSet(Counted)
           /\ \A b \in Counted : num_tasks_done[b] = num_total_tasks[b]
<1>1. /\ Counted \subseteq Launched
      /\ \A b \in Counted : num_tasks_done[b] = num_total_tasks[b]
  BY DEF IInv, WorkOK, PlacesOK, FinishingOK, Finishing, Counted
<1> QED
  BY <1>1, BulkTypes, FS_Subset DEF IInv

(* What done stands for: when the two counts are equal, every bulk is      *)
(* counted and all its tasks have returned.                                *)
LEMMA AllCounted ==
    ASSUME IInv, AllBulksDone
    PROVE  Counted = Launched /\ AllTasksReturned
<1>1. IsFiniteSet(Launched) /\ Cardinality(Launched) = next_id
  BY BulkTypes DEF IInv
<1>2. Cardinality(Counted) = next_id
  BY DEF IInv, WorkOK, CountedOK, AllBulksDone
<1>3. Counted = Launched
  BY <1>1, <1>2, CountedLaunched, FS_Subset
<1> QED
  BY <1>3, CountedLaunched DEF AllTasksReturned

-----------------------------------------------------------------------------
(* Steps that move no bulk and no task.                                    *)

MovesNothing ==
    /\ UNCHANGED <<bulkVars, queueVars, localVars>>
    /\ InFlight' = InFlight
    /\ \A w \in Worker : /\ pc'[w] = "finish" <=> pc[w] = "finish"
                         /\ pc'[w] = "remove" <=> pc[w] = "remove"
    /\ main_pc' = "push" <=> main_pc = "push"

LEMMA WorkFrame ==
    ASSUME WorkOK, MovesNothing
    PROVE  WorkOK'
<1> USE DEF WorkOK, MovesNothing, bulkVars, queueVars, localVars
<1>1. Finishing' = Finishing
  BY DEF Finishing
<1>2. Counted' = Counted
  BY DEF Counted
<1>3. CountsOK'
  <2>1. \A b \in LaunchId : With(b)' = With(b)
    BY DEF With
  <2> QED
    BY <2>1 DEF CountsOK, Launched
<1>4. PlacesOK'
  BY DEF PlacesOK, Launched, Pushing
<1>5. InFlightOK'
  BY DEF InFlightOK
<1>6. FinishingOK'
  BY <1>1 DEF FinishingOK, Finishing
<1>7. CountedOK'
  BY <1>2 DEF CountedOK
<1> QED
  BY <1>3, <1>4, <1>5, <1>6, <1>7

LEMMA BegunNotWaiting ==
    ASSUME IInv, NEW b \in LaunchId, b \notin ready \cup finished_bulk
    PROVE  next_task_id[b] = 0
BY DEF IInv, WorkOK, PlacesOK, CountsOK

-----------------------------------------------------------------------------
(* One lemma for every step that does.  First CheckWaiting, part of both   *)
(* draws.                                                                  *)

LEMMA MoveBulks ==
    ASSUME IInv, ready' = ready \cup Moved, waiting' = waiting \ Moved,
           UNCHANGED <<next_id, deps, num_total_tasks, num_tasks_done, finished_bulk, main_pc>>,
           \A b \in LaunchId : next_task_id'[b] > 0 => next_task_id[b] > 0 \/ b \in ready'
    PROVE  PlacesOK'
<1> USE DEF IInv, WorkOK
<1>1. Moved \subseteq waiting /\ \A b \in Moved : deps[b] \subseteq finished_bulk
  BY DEF Moved, Unblocked
<1>2. Launched' = Launched /\ Pushing' = Pushing
  BY DEF Launched, Pushing
<1> QED
  BY <1>1, <1>2 DEF PlacesOK

LEMMA ClaimWork ==
    ASSUME IInv, Wrapped = {}, NEW w \in Worker, NEW b \in LaunchId, Claim(w, b)
    PROVE  WorkOK'
<1> USE DEF IInv, WorkOK
<1>1. /\ pc[w] = "fetch" /\ pc' = [pc EXCEPT ![w] = "running"] /\ QmtxFree
      /\ next_task_id' = [next_task_id EXCEPT ![b] = @ + 1]
      /\ my_bulk' = [my_bulk EXCEPT ![w] = b]
      /\ my_id' = [my_id EXCEPT ![w] = next_task_id[b]]
      /\ ready' = ready \cup Moved /\ waiting' = waiting \ Moved
      /\ b \in ready' /\ next_task_id[b] < num_total_tasks[b]
      /\ UNCHANGED <<next_id, deps, num_total_tasks, num_tasks_done, finished_bulk,
                     num_bulk_done, main_pc>>
  BY DEF Claim, Goto, NextTaskIds, TaskLeft, mainVars
<1>2. /\ next_task_id[b] \in Nat /\ next_task_id'[b] = next_task_id[b] + 1
      /\ my_bulk'[w] = b /\ my_id'[w] = next_task_id[b] /\ pc'[w] = "running"
      /\ \A c \in LaunchId \ {b} : next_task_id'[c] = next_task_id[c]
      /\ \A v \in Worker \ {w} : pc'[v] = pc[v] /\ my_bulk'[v] = my_bulk[v] /\ my_id'[v] = my_id[v]
  BY <1>1 DEF CountsOK, TypeOK
<1>3. w \notin InFlight /\ InFlight' = InFlight \cup {w}
  BY <1>1, <1>2 DEF InFlight
<1>4. PlacesOK'
  BY <1>1, <1>2, MoveBulks
<1>5. CountsOK'
  <2>1. With(b)' = With(b) \cup {w} /\ w \notin With(b)
    BY <1>2, <1>3 DEF With, InFlight
  <2>2. Cardinality(With(b)') = Cardinality(With(b)) + 1
    BY <2>1, WithFinite, FS_AddElement
  <2>3. \A c \in LaunchId \ {b} : With(c)' = With(c)
    BY <1>2, <1>3 DEF With, InFlight
  <2>4. next_task_id' \in [LaunchId -> Nat]
    BY <1>1 DEF CountsOK
  <2>5. ASSUME NEW c \in LaunchId
        PROVE  /\ next_task_id'[c] = num_tasks_done'[c] + Cardinality(With(c)')
               /\ next_task_id'[c] <= num_total_tasks'[c]
    <3>1. CASE c = b
      BY <1>1, <1>2, <2>2, <3>1, WithFinite, BulkTypes DEF CountsOK, TypeOK
    <3>2. CASE c # b
      BY <1>1, <1>2, <2>3, <3>2 DEF CountsOK
    <3> QED
      BY <3>1, <3>2
  <2> QED
    BY <1>1, <2>4, <2>5 DEF CountsOK, Launched
<1>6. InFlightOK'
  <2>1. ASSUME NEW v \in InFlight
        PROVE  /\ v # w /\ v \in Worker
               /\ my_bulk[v] \in ready' /\ my_bulk[v] \in LaunchId
               /\ my_id[v] \in 0 .. next_task_id'[my_bulk[v]] - 1
               /\ my_bulk[v] = b => my_id[v] # next_task_id[b]
    <3>1. my_bulk[v] \in ready /\ my_bulk[v] \in LaunchId
          /\ my_id[v] \in 0 .. next_task_id[my_bulk[v]] - 1
      BY DEF InFlightOK, TypeOK
    <3>2. next_task_id[my_bulk[v]] \in Nat
      BY <3>1 DEF CountsOK
    <3> QED
      BY <1>1, <1>2, <1>3, <3>1, <3>2 DEF InFlight
  <2>2. next_task_id[b] \in 0 .. next_task_id'[b] - 1
    BY <1>2
  <2> QED
    BY <1>1, <1>2, <1>3, <2>1, <2>2 DEF InFlightOK
<1>7. \A v \in Worker : /\ pc'[v] = "finish" <=> pc[v] = "finish"
                        /\ pc'[v] = "remove" <=> pc[v] = "remove"
  BY <1>1, <1>2
<1>8. FinishingOK'
  <2>1. Finishing' = Finishing /\ w \notin Finishing
    BY <1>1, <1>7 DEF Finishing
  <2> QED
    BY <1>1, <1>2, <1>7, <2>1 DEF FinishingOK, Finishing
<1>9. CountedOK'
  <2>1. Counted' = Counted
    BY <1>1, <1>2, <1>7 DEF Counted
  <2> QED
    BY <1>1, <2>1 DEF CountedOK
<1> QED
  BY <1>4, <1>5, <1>6, <1>8, <1>9

LEMMA DrawInVainWork ==
    ASSUME IInv, Wrapped = {}, NEW w \in Worker, DrawInVain(w)
    PROVE  WorkOK'
<1> USE DEF IInv, WorkOK
<1>1. /\ pc[w] = "fetch" /\ pc' = [pc EXCEPT ![w] = "loop"]
      /\ ready' = ready \cup Moved /\ waiting' = waiting \ Moved
      /\ UNCHANGED <<next_id, deps, num_total_tasks, num_tasks_done, finished_bulk,
                     num_bulk_done, my_bulk, my_id, main_pc>>
  BY DEF DrawInVain, Goto, localVars, mainVars
<1>2. next_task_id' = next_task_id
  BY DEF DrawInVain, NextTaskIds, CountsOK
<1>3. \A v \in Worker : /\ pc'[v] = "finish" <=> pc[v] = "finish"
                        /\ pc'[v] = "remove" <=> pc[v] = "remove"
                        /\ pc'[v] \in {"running", "count"} <=> pc[v] \in {"running", "count"}
  BY <1>1 DEF TypeOK
<1>4. InFlight' = InFlight /\ Finishing' = Finishing
  BY <1>3 DEF InFlight, Finishing
<1>5. CountsOK'
  <2>1. \A b \in LaunchId : With(b)' = With(b)
    BY <1>1, <1>4 DEF With
  <2> QED
    BY <1>1, <1>2, <2>1 DEF CountsOK, Launched
<1>6. PlacesOK'
  BY <1>1, <1>2, MoveBulks
<1>7. InFlightOK'
  BY <1>1, <1>2, <1>4 DEF InFlightOK
<1>8. FinishingOK'
  BY <1>1, <1>3, <1>4 DEF FinishingOK, Finishing
<1>9. CountedOK'
  <2>1. Counted' = Counted
    BY <1>1, <1>3 DEF Counted
  <2> QED
    BY <1>1, <2>1 DEF CountedOK
<1> QED
  BY <1>5, <1>6, <1>7, <1>8, <1>9

LEMMA CountTaskWork ==
    ASSUME IInv, NEW w \in Worker, CountTask(w)
    PROVE  WorkOK'
<1> USE DEF IInv, WorkOK
<1>0. PICK b \in LaunchId : b = my_bulk[w]
  BY DEF CountTask, Goto, InFlight, InFlightOK, TypeOK
<1>1. w \in InFlight /\ b \in ready
  BY <1>0 DEF CountTask, Goto, InFlight, InFlightOK
<1>2. /\ pc[w] = "count"
      /\ num_tasks_done' = [num_tasks_done EXCEPT ![b] = @ + 1]
      /\ UNCHANGED <<next_id, deps, num_total_tasks, next_task_id, waiting, ready, finished_bulk,
                     num_bulk_done, main_pc>>
      /\ \A v \in Worker \ {w} : pc'[v] = pc[v] /\ my_bulk'[v] = my_bulk[v] /\ my_id'[v] = my_id[v]
      /\ \/ /\ num_tasks_done[b] + 1 = num_total_tasks[b]
            /\ pc'[w] = "finish" /\ my_bulk'[w] = b
         \/ pc'[w] = "loop"
  BY <1>0 DEF CountTask, Goto, ForgetTask, queueVars, mainVars, localVars, TypeOK
<1>3. InFlight' = InFlight \ {w}
  BY <1>2 DEF InFlight
<1>4. /\ num_tasks_done'[b] = num_tasks_done[b] + 1 /\ num_tasks_done[b] \in Nat
      /\ \A c \in LaunchId \ {b} : num_tasks_done'[c] = num_tasks_done[c]
  BY <1>1, <1>2 DEF TypeOK
<1>5. With(b)' = With(b) \ {w} /\ w \in With(b)
  BY <1>0, <1>1, <1>2, <1>3 DEF With, InFlight
<1>6. Cardinality(With(b)') = Cardinality(With(b)) - 1
  BY <1>5, WithFinite, FS_RemoveElement
<1>7. CountsOK'
  <2>1. \A c \in LaunchId \ {b} : With(c)' = With(c)
    BY <1>0, <1>2, <1>3 DEF With, InFlight
  <2>2. ASSUME NEW c \in LaunchId
        PROVE  next_task_id'[c] = num_tasks_done'[c] + Cardinality(With(c)')
    <3>1. CASE c = b
      BY <1>1, <1>2, <1>4, <1>6, <3>1, WithFinite DEF CountsOK
    <3>2. CASE c # b
      BY <1>2, <1>4, <2>1, <3>2 DEF CountsOK
    <3> QED
      BY <3>1, <3>2
  <2> QED
    BY <1>2, <2>2 DEF CountsOK, Launched
(* It was in a worker's hands, so not all tasks of b were counted.         *)
<1>8. num_tasks_done[b] # num_total_tasks[b]
  BY <1>0, <1>1, NobodyWithDone
<1>9. PlacesOK'
  <2>1. b \notin finished_bulk
    BY <1>1 DEF PlacesOK
  <2>2. Launched' = Launched /\ Pushing' = Pushing
    BY <1>2 DEF Launched, Pushing
  <2>3. finished_bulk \subseteq LaunchId
    BY DEF TypeOK
  <2> QED
    BY <1>2, <1>4, <2>1, <2>2, <2>3 DEF PlacesOK
<1>10. InFlightOK'
  BY <1>2, <1>3 DEF InFlightOK, InFlight
<1>11. \A v \in Finishing : v # w /\ my_bulk[v] # b
  BY <1>2, <1>8 DEF FinishingOK, Finishing
<1>12. FinishingOK'
  <2>1. ASSUME NEW v \in Finishing
        PROVE  /\ v \in Worker /\ v # w /\ pc'[v] = pc[v] /\ my_bulk'[v] = my_bulk[v]
               /\ my_bulk[v] \in ready'
               /\ num_tasks_done'[my_bulk[v]] = num_total_tasks'[my_bulk[v]]
               /\ \A u \in Finishing \ {v} :
                     my_bulk[u] # my_bulk[v] /\ (pc[v] = "remove" => pc[u] # "remove")
    <3>1. my_bulk[v] \in LaunchId \ {b}
      BY <1>11 DEF FinishingOK, TypeOK
    <3> QED
      BY <1>2, <1>4, <1>11, <3>1 DEF FinishingOK, Finishing
  <2>2. CASE pc'[w] = "loop"
    <3>1. Finishing' = Finishing
      BY <1>2, <2>2 DEF Finishing
    <3> QED
      BY <2>1, <3>1 DEF FinishingOK
  <2>3. CASE /\ num_tasks_done[b] + 1 = num_total_tasks[b]
             /\ pc'[w] = "finish" /\ my_bulk'[w] = b
    <3>1. Finishing' = Finishing \cup {w}
      BY <1>2, <2>3 DEF Finishing
    <3> QED
      BY <1>1, <1>2, <1>4, <1>11, <2>1, <2>3, <3>1 DEF FinishingOK
  <2> QED
    BY <1>2, <2>2, <2>3
<1>13. CountedOK'
  <2>1. {v \in Worker : pc'[v] = "remove"} = {v \in Worker : pc[v] = "remove"}
    BY <1>2
  <2>2. Counted' = Counted
    BY <1>2, <2>1 DEF Counted
  <2> QED
    BY <1>2, <2>2 DEF CountedOK
<1> QED
  BY <1>7, <1>9, <1>10, <1>12, <1>13

LEMMA CountBulkWork ==
    ASSUME IInv, NEW w \in Worker, CountBulk(w)
    PROVE  WorkOK'
<1> USE DEF IInv, WorkOK
<1>0. PICK b \in LaunchId : b = my_bulk[w]
  BY DEF CountBulk, Goto, Finishing, FinishingOK, TypeOK
<1>1. /\ pc[w] = "finish" /\ pc' = [pc EXCEPT ![w] = "remove"]
      /\ \A v \in Worker : pc[v] # "remove"
      /\ num_bulk_done' = num_bulk_done + 1
      /\ UNCHANGED <<next_id, deps, num_total_tasks, next_task_id, num_tasks_done, waiting, ready,
                     finished_bulk, my_bulk, my_id, main_pc>>
  BY DEF CountBulk, Goto, QmtxFree, bulkVars, localVars, mainVars
<1>2. pc'[w] = "remove" /\ \A v \in Worker \ {w} : pc'[v] = pc[v]
  BY <1>1 DEF TypeOK
<1>3. InFlight' = InFlight /\ Finishing' = Finishing /\ w \in Finishing
  BY <1>1, <1>2 DEF InFlight, Finishing
<1>4. CountsOK'
  <2>1. \A c \in LaunchId : With(c)' = With(c)
    BY <1>1, <1>3 DEF With
  <2> QED
    BY <1>1, <2>1 DEF CountsOK, Launched
<1>5. PlacesOK'
  BY <1>1 DEF PlacesOK, Launched, Pushing
<1>6. InFlightOK'
  BY <1>1, <1>3 DEF InFlightOK
<1>7. FinishingOK'
  BY <1>1, <1>2, <1>3 DEF FinishingOK, Finishing
<1>8. CountedOK'
  <2>1. Counted = finished_bulk
    BY <1>1 DEF Counted
  <2>2. {v \in Worker : pc'[v] = "remove"} = {w}
    BY <1>1, <1>2
  <2>3. Counted' = Counted \cup {b}
    BY <1>0, <1>1, <2>1, <2>2 DEF Counted
  <2>4. b \notin Counted
    BY <1>0, <1>3, <2>1 DEF FinishingOK, PlacesOK
  <2>5. Cardinality(Counted') = Cardinality(Counted) + 1
    BY <2>3, <2>4, CountedLaunched, FS_AddElement
  <2> QED
    BY <1>1, <2>5 DEF CountedOK
<1> QED
  BY <1>4, <1>5, <1>6, <1>7, <1>8

LEMMA RemoveBulkWork ==
    ASSUME IInv, NEW w \in Worker, RemoveBulk(w)
    PROVE  WorkOK'
<1> USE DEF IInv, WorkOK
<1>0. PICK b \in LaunchId : b = my_bulk[w]
  BY DEF RemoveBulk, Finishing, FinishingOK, TypeOK
<1>1. /\ pc[w] = "remove" /\ w \in Finishing
      /\ ready' = ready \ {b} /\ finished_bulk' = finished_bulk \cup {b}
      /\ UNCHANGED <<next_id, deps, num_total_tasks, next_task_id, num_tasks_done, waiting,
                     num_bulk_done, main_pc>>
  BY <1>0 DEF RemoveBulk, bulkVars, mainVars, Finishing
<1>2. /\ pc'[w] = "loop"
      /\ \A v \in Worker \ {w} :
            /\ pc'[v] = IF pc[v] = "asleep" THEN "check" ELSE pc[v]
            /\ my_bulk'[v] = my_bulk[v] /\ my_id'[v] = my_id[v]
  BY DEF RemoveBulk, AfterWake, ForgetTask, TypeOK
<1>3. b \in ready /\ num_tasks_done[b] = num_total_tasks[b]
  BY <1>0, <1>1 DEF FinishingOK
<1>4. \A v \in InFlight : v # w /\ my_bulk[v] # b
  BY <1>1, <1>3, NobodyWithDone DEF InFlight
<1>5. InFlight' = InFlight
  BY <1>1, <1>2 DEF InFlight
<1>6. \A v \in Worker \ {w} : pc[v] # "remove" /\ (v \in Finishing => my_bulk[v] # b)
  BY <1>0, <1>1 DEF FinishingOK, Finishing
<1>7. Finishing' = Finishing \ {w}
  BY <1>1, <1>2 DEF Finishing
<1>8. CountsOK'
  <2>1. \A c \in LaunchId : With(c)' = With(c)
    BY <1>2, <1>4, <1>5 DEF With, InFlight
  <2> QED
    BY <1>1, <2>1 DEF CountsOK, Launched
<1>9. PlacesOK'
  BY <1>1, <1>3 DEF PlacesOK, Launched, Pushing
<1>10. InFlightOK'
  BY <1>1, <1>2, <1>4, <1>5 DEF InFlightOK, InFlight
<1>11. FinishingOK'
  BY <1>1, <1>2, <1>6, <1>7 DEF FinishingOK, Finishing
<1>12. CountedOK'
  <2>1. {v \in Worker : pc[v] = "remove"} = {w} /\ {v \in Worker : pc'[v] = "remove"} = {}
    BY <1>1, <1>2, <1>6
  <2>2. Counted' = Counted
    BY <1>0, <1>1, <2>1 DEF Counted
  <2> QED
    BY <1>1, <2>2 DEF CountedOK
<1> QED
  BY <1>8, <1>9, <1>10, <1>11, <1>12

LEMMA NewBulkWork ==
    ASSUME IInv, NEW n \in TaskCounts, NEW D \in SUBSET Launched, NEW c, NewBulk(n, D, c)
    PROVE  WorkOK'
<1> USE DEF IInv, WorkOK
<1>1. /\ next_id \in LaunchId /\ next_id \in Nat /\ next_id \notin Launched
      /\ next_id' = next_id + 1
      /\ num_total_tasks' = [num_total_tasks EXCEPT ![next_id] = n]
      /\ deps' = [deps EXCEPT ![next_id] = D]
      /\ main_pc = "app" /\ main_pc' = "push"
      /\ UNCHANGED <<next_task_id, num_tasks_done, waiting, ready, finished_bulk,
                     num_bulk_done, pc, my_bulk, my_id>>
  BY MaxLaunchesAssumption
     DEF NewBulk, MainGoto, LaunchId, Launched, TypeOK, queueVars, localVars
<1>2. /\ \A b \in Launched : num_total_tasks'[b] = num_total_tasks[b] /\ deps'[b] = deps[b]
      /\ num_total_tasks[next_id] = 0 /\ num_total_tasks'[next_id] = n /\ n \in Nat
      /\ \A b \in LaunchId \ {next_id} : num_total_tasks'[b] = num_total_tasks[b]
  <2>1. Launched \subseteq LaunchId \ {next_id} /\ n \in Nat
    BY <1>1, BulkTypes, TaskCountsAssumption
  <2> QED
    BY <1>1, <2>1 DEF TypeOK, CountsOK
<1>3. InFlight' = InFlight /\ Finishing' = Finishing /\ Counted' = Counted
  BY <1>1 DEF InFlight, Finishing, Counted
<1>4. Launched' \ Pushing' = Launched /\ Launched \subseteq Launched'
  BY <1>1 DEF Launched, Pushing
<1>5. ready \cup finished_bulk \subseteq Launched
  BY DEF PlacesOK
<1>6. CountsOK'
  <2>1. \A b \in LaunchId : With(b)' = With(b)
    BY <1>1, <1>3 DEF With
  <2>2. next_task_id[next_id] = 0
    BY <1>1, <1>5, BegunNotWaiting
  <2>3. \A b \in LaunchId : next_task_id'[b] <= num_total_tasks'[b]
    BY <1>1, <1>2, <2>2 DEF CountsOK
  <2>4. \A b \in LaunchId \ Launched' : num_total_tasks'[b] = 0
    BY <1>1, <1>2, <1>4 DEF CountsOK, Launched
  <2> QED
    BY <1>1, <2>1, <2>3, <2>4 DEF CountsOK
<1>7. PlacesOK'
  BY <1>1, <1>2, <1>4, <1>5 DEF PlacesOK
<1>8. InFlightOK'
  BY <1>1, <1>3 DEF InFlightOK
<1>9. FinishingOK'
  BY <1>1, <1>2, <1>3, <1>5 DEF FinishingOK
<1>10. CountedOK'
  BY <1>1, <1>3 DEF CountedOK
<1> QED
  BY <1>6, <1>7, <1>8, <1>9, <1>10

LEMMA PushWork ==
    ASSUME IInv, Push
    PROVE  WorkOK'
<1> USE DEF IInv, WorkOK
<1> DEFINE b == next_id - 1
<1>1. /\ main_pc = "push" /\ main_pc' = "clear"
      /\ b \in Launched /\ b \notin waiting \cup ready \cup finished_bulk
      /\ UNCHANGED <<next_id, deps, num_total_tasks, next_task_id, num_tasks_done, finished_bulk,
                     num_bulk_done, pc, my_bulk, my_id>>
      /\ \/ deps[b] = {} /\ ready' = ready \cup {b} /\ waiting' = waiting
         \/ ready' = ready /\ waiting' = waiting \cup {b}
  BY DEF Push, MainGoto, PlacesOK, Pushing, Launched, TypeOK, bulkVars, localVars
<1>2. InFlight' = InFlight /\ Finishing' = Finishing /\ Counted' = Counted /\ Launched' = Launched
  BY <1>1 DEF InFlight, Finishing, Counted, Launched
<1>3. ready \subseteq ready'
  BY <1>1
<1>4. CountsOK'
  <2>1. \A c \in LaunchId : With(c)' = With(c)
    BY <1>1, <1>2 DEF With
  <2> QED
    BY <1>1, <1>2, <2>1 DEF CountsOK
<1>5. PlacesOK'
  BY <1>1, <1>2 DEF PlacesOK, Pushing
<1>6. InFlightOK'
  BY <1>1, <1>2, <1>3 DEF InFlightOK
<1>7. FinishingOK'
  BY <1>1, <1>2, <1>3 DEF FinishingOK
<1>8. CountedOK'
  BY <1>1, <1>2 DEF CountedOK
<1> QED
  BY <1>4, <1>5, <1>6, <1>7, <1>8

-----------------------------------------------------------------------------
(* The invariant, part by part, for every step.                            *)

LEMMA WorkStep ==
    ASSUME IInv, Wrapped = {}, [Next]_vars
    PROVE  WorkOK'
<1>w. WorkOK
  BY DEF IInv
<1>0. pc \in [Worker -> {"loop", "check", "blocking", "asleep", "fetch", "running",
                         "count", "finish", "remove", "exited"}]
  BY DEF IInv, TypeOK
<1>1. ASSUME NEW w \in Worker, Step(w) \/ SpuriousWake(w)
      PROVE  WorkOK'
  <2>1. CASE \E b \in LaunchId : Claim(w, b)
    BY <2>1, ClaimWork
  <2>2. CASE DrawInVain(w)
    BY <2>2, DrawInVainWork
  <2>3. CASE CountTask(w)
    BY <2>3, CountTaskWork
  <2>4. CASE CountBulk(w)
    BY <2>4, CountBulkWork
  <2>5. CASE RemoveBulk(w)
    BY <2>5, RemoveBulkWork
  <2>6. CASE \/ TestLoop(w) \/ Leave(w) \/ SeeWork(w) \/ SetDone(w) \/ Sleep(w)
             \/ FindNothing(w) \/ RunTask(w) \/ SpuriousWake(w)
    <3>1. UNCHANGED <<bulkVars, queueVars, localVars>>
      BY <2>6 DEF TestLoop, Leave, SeeWork, SetDone, Sleep, FindNothing, RunTask, SpuriousWake
    <3>2. main_pc' = "push" <=> main_pc = "push"
      BY <2>6 DEF TestLoop, Leave, SeeWork, SetDone, Sleep, FindNothing, RunTask, SpuriousWake,
                  MainAfterWake, mainVars
    <3>3. \E from, to : /\ pc[w] = from /\ pc' = [pc EXCEPT ![w] = to]
                        /\ from \notin {"finish", "remove"} /\ to \notin {"finish", "remove"}
                        /\ from \in {"running", "count"} <=> to \in {"running", "count"}
      BY <2>6 DEF TestLoop, Leave, SeeWork, SetDone, Sleep, FindNothing, RunTask, SpuriousWake,
                  Goto
    <3>4. /\ InFlight' = InFlight
          /\ \A v \in Worker : /\ pc'[v] = "finish" <=> pc[v] = "finish"
                               /\ pc'[v] = "remove" <=> pc[v] = "remove"
      BY <1>0, <3>3 DEF InFlight
    <3>5. MovesNothing
      BY <3>1, <3>2, <3>4 DEF MovesNothing
    <3> QED
      BY <1>w, <3>5, WorkFrame
  <2> QED
    BY <1>1, <2>1, <2>2, <2>3, <2>4, <2>5, <2>6 DEF Step
<1>2. CASE Call
  <2>1. CASE CallSync("sync") \/ CallSync("destroy")
    BY <1>w, <1>0, <2>1, WorkFrame DEF CallSync, MainGoto, InFlight, MovesNothing
  <2>2. CASE \E n \in TaskCounts, D \in SUBSET Launched : NewBulk(n, D, "async")
    BY <2>2, NewBulkWork
  <2>3. CASE \E n \in TaskCounts : NewBulk(n, {}, "run")
    BY <2>3, NewBulkWork
  <2> QED
    BY <1>2, <2>1, <2>2, <2>3 DEF Call
<1>3. CASE MainStep \/ SyncSpuriousWake \/ UNCHANGED vars
  <2>1. CASE Push
    BY <2>1, PushWork
  <2>2. CASE \/ ClearDone \/ NotifyWorkers \/ SyncReturn \/ SyncSleep \/ WokenReturn \/ WokenSleep
             \/ Terminate \/ FinalWake \/ Join \/ SyncSpuriousWake \/ UNCHANGED vars
    <3>1. UNCHANGED <<bulkVars, queueVars, localVars>>
      BY <2>2 DEF ClearDone, NotifyWorkers, SyncReturn, SyncSleep, WokenReturn, WokenSleep,
                  Terminate, FinalWake, Join, SyncSpuriousWake, vars
    <3>2. main_pc' = "push" <=> main_pc = "push"
      BY <2>2 DEF ClearDone, NotifyWorkers, SyncReturn, SyncSleep, WokenReturn, WokenSleep,
                  Terminate, FinalWake, Join, SyncSpuriousWake, vars, MainGoto, AfterSync, mainVars
    <3>3. pc' = pc \/ pc' = AfterWake
      BY <2>2 DEF ClearDone, NotifyWorkers, SyncReturn, SyncSleep, WokenReturn, WokenSleep,
                  Terminate, FinalWake, Join, SyncSpuriousWake, vars
    <3>4. /\ InFlight' = InFlight
          /\ \A v \in Worker : /\ pc'[v] = "finish" <=> pc[v] = "finish"
                               /\ pc'[v] = "remove" <=> pc[v] = "remove"
      BY <1>0, <3>3 DEF InFlight, AfterWake
    <3>5. MovesNothing
      BY <3>1, <3>2, <3>4 DEF MovesNothing
    <3> QED
      BY <1>w, <3>5, WorkFrame
  <2> QED
    BY <1>3, <2>1, <2>2 DEF MainStep
<1> QED
  BY <1>1, <1>2, <1>3 DEF Next
(* The counts stay in range because the bulks they count are launched.     *)
Counters ==
    /\ next_id \in 0 .. MaxLaunches
    /\ num_total_tasks \in [LaunchId -> Nat]
    /\ num_tasks_done \in [LaunchId -> Nat]

CountersInRange ==
    /\ \A b \in LaunchId : num_tasks_done[b] <= num_total_tasks[b]
    /\ num_bulk_done \in 0 .. MaxLaunches

LEMMA CountRange == WorkOK /\ Counters => CountersInRange
<1> SUFFICES ASSUME WorkOK, Counters PROVE CountersInRange
  OBVIOUS
<1> USE DEF WorkOK, Counters
<1>1. \A b \in LaunchId : num_tasks_done[b] <= num_total_tasks[b]
  BY WithFinite DEF CountsOK
<1>2. Counted \subseteq Launched
  BY DEF Counted, FinishingOK, Finishing, PlacesOK
<1>3. IsFiniteSet(Launched) /\ Cardinality(Launched) = next_id
  BY FS_Interval DEF Launched
<1>4. Cardinality(Counted) \in Nat /\ Cardinality(Counted) <= next_id
  BY <1>2, <1>3, FS_Subset, FS_CardinalityType
<1> QED
  BY <1>1, <1>4, MaxLaunchesAssumption DEF CountedOK, CountersInRange

LEMMA WorkingOn ==
    ASSUME IInv, NEW w \in Worker, pc[w] \in {"running", "count", "finish", "remove"}
    PROVE  my_bulk[w] \in LaunchId
BY DEF IInv, WorkOK, InFlightOK, FinishingOK, InFlight, Finishing, TypeOK

LEMMA TypeStep ==
    ASSUME IInv, Wrapped = {}, [Next]_vars
    PROVE  TypeOK'
<1> USE DEF IInv
<1>1. WorkOK'
  BY WorkStep
<1>2. Counters
  BY BulkTypes DEF Counters, TypeOK
<1>3. Counters'
  <2>1. CASE UNCHANGED <<next_id, num_total_tasks, num_tasks_done>>
    BY <1>2, <2>1 DEF Counters
  <2>2. ASSUME NEW w \in Worker, CountTask(w)
        PROVE  Counters'
    <3>1. PICK b \in LaunchId : b = my_bulk[w]
      BY <2>2, WorkingOn DEF CountTask, Goto
    <3>2. /\ UNCHANGED <<next_id, num_total_tasks>>
          /\ num_tasks_done' = [num_tasks_done EXCEPT ![b] = @ + 1]
      BY <2>2, <3>1 DEF CountTask
    <3> QED
      BY <1>2, <3>2 DEF Counters
  <2>3. ASSUME NEW n \in TaskCounts, NEW D, NEW c, NewBulk(n, D, c)
        PROVE  Counters'
    <3>1. /\ next_id < MaxLaunches /\ next_id' = next_id + 1
          /\ num_total_tasks' = [num_total_tasks EXCEPT ![next_id] = n] /\ n \in Nat
          /\ UNCHANGED num_tasks_done
      BY <2>3, TaskCountsAssumption DEF NewBulk
    <3>2. next_id' \in 0 .. MaxLaunches
      BY <1>2, <3>1, MaxLaunchesAssumption DEF Counters
    <3>3. num_total_tasks' \in [LaunchId -> Nat]
      BY <1>2, <3>1 DEF Counters
    <3> QED
      BY <1>2, <3>1, <3>2, <3>3 DEF Counters
  <2>4. \/ UNCHANGED <<next_id, num_total_tasks, num_tasks_done>>
        \/ \E w \in Worker : CountTask(w)
        \/ \E n \in TaskCounts, D \in SUBSET Launched, c \in {"async", "run"} : NewBulk(n, D, c)
    BY DEF Next, vars, bulkVars, Step, TestLoop, Leave, SeeWork, SetDone, Sleep, DrawInVain,
           FindNothing, Claim, RunTask, CountBulk, RemoveBulk, SpuriousWake, MainStep, Push,
           ClearDone, NotifyWorkers, SyncReturn, SyncSleep, WokenReturn, WokenSleep, Terminate,
           FinalWake, Join, SyncSpuriousWake, Call, CallSync
  <2> QED
    BY <2>1, <2>2, <2>3, <2>4
<1>4. CountersInRange'
  BY <1>1, <1>3, CountRange, PTL
<1> USE <1>3, <1>4 DEF Counters, CountersInRange, bulkVars, queueVars, flagVars, localVars, mainVars
<1>5. ASSUME NEW w \in Worker, Step(w) \/ SpuriousWake(w)
      PROVE  TypeOK'
  <2> USE DEF TypeOK, Goto
  <2>1. CASE \/ TestLoop(w) \/ Leave(w) \/ SeeWork(w) \/ Sleep(w)
             \/ FindNothing(w) \/ RunTask(w) \/ SpuriousWake(w)
    <3>1. /\ UNCHANGED <<bulkVars, queueVars, terminate, localVars, mainVars>>
          /\ done' \in BOOLEAN /\ cmtx' \in Worker \cup {NoOne}
      BY <2>1 DEF TestLoop, Leave, SeeWork, Sleep, FindNothing, RunTask, SpuriousWake
    <3>2. \E to \in {"exited", "check", "fetch", "asleep", "loop", "count"} :
             pc' = [pc EXCEPT ![w] = to]
      BY <2>1 DEF TestLoop, Leave, SeeWork, Sleep, FindNothing, RunTask, SpuriousWake
    <3> QED
      BY <3>1, <3>2
  <2>2. CASE SetDone(w)
    BY <2>2 DEF SetDone, MainAfterWake
  <2>3. CASE DrawInVain(w)
    BY <2>3 DEF DrawInVain, Moved, Unblocked, NextTaskIds
  <2>4. ASSUME NEW b \in LaunchId, Claim(w, b)
        PROVE  TypeOK'
    BY <2>4 DEF Claim, Moved, Unblocked, NextTaskIds
  <2>5. CASE CountTask(w)
    BY <2>5 DEF CountTask, ForgetTask
  <2>6. CASE CountBulk(w)
    BY <2>6 DEF CountBulk
  <2>7. CASE RemoveBulk(w)
    <3>1. my_bulk[w] \in LaunchId
      BY <2>7, WorkingOn DEF RemoveBulk
    <3> QED
      BY <2>7, <3>1 DEF RemoveBulk, AfterWake, ForgetTask
  <2> QED
    BY <1>5, <2>1, <2>2, <2>3, <2>4, <2>5, <2>6, <2>7 DEF Step
<1>6. CASE MainStep \/ SyncSpuriousWake \/ UNCHANGED vars
  <2>1. CASE Push
    <3>1. next_id - 1 \in LaunchId
      <4>1. next_id \in 0 .. MaxLaunches /\ next_id > 0
        BY <2>1 DEF Push, MainGoto, WorkOK, PlacesOK, TypeOK
      <4> QED
        BY <4>1, MaxLaunchesAssumption DEF LaunchId
    <3> QED
      BY <2>1, <3>1 DEF Push, MainGoto, TypeOK
  <2>2. CASE \/ ClearDone \/ NotifyWorkers \/ WokenSleep \/ FinalWake
    BY <2>2 DEF ClearDone, NotifyWorkers, WokenSleep, FinalWake, MainGoto, AfterWake, TypeOK
  <2>3. CASE \/ SyncReturn \/ SyncSleep \/ WokenReturn \/ Terminate \/ Join
             \/ SyncSpuriousWake \/ UNCHANGED vars
    BY <2>3 DEF SyncReturn, SyncSleep, WokenReturn, Terminate, Join, SyncSpuriousWake, vars,
                MainGoto, AfterSync, TypeOK
  <2> QED
    BY <1>6, <2>1, <2>2, <2>3 DEF MainStep
<1>7. CASE Call
  <2>1. CASE CallSync("sync") \/ CallSync("destroy")
    BY <2>1 DEF CallSync, MainGoto, TypeOK
  <2>2. ASSUME NEW n \in TaskCounts, NEW D \in SUBSET Launched, NEW c \in {"async", "run"},
               NewBulk(n, D, c)
        PROVE  TypeOK'
    <3>1. D \in SUBSET LaunchId
      BY BulkTypes
    <3> QED
      BY <2>2, <3>1 DEF NewBulk, MainGoto, TypeOK
  <2> QED
    BY <1>7, <2>1, <2>2 DEF Call
<1> QED
  BY <1>5, <1>6, <1>7 DEF Next

(* A worker can only count a bulk when the two counts differ.              *)
LEMMA CountBulkUnfinished ==
    ASSUME IInv, NEW w \in Worker, CountBulk(w)
    PROVE  ~AllBulksDone
<1>1. pc[w] = "finish" /\ w \in Finishing /\ \A v \in Worker : pc[v] # "remove"
  BY DEF CountBulk, Goto, QmtxFree, Finishing
<1>2. my_bulk[w] \in Launched /\ my_bulk[w] \notin finished_bulk
  BY <1>1 DEF IInv, WorkOK, FinishingOK, PlacesOK
<1>3. Counted = finished_bulk
  BY <1>1 DEF Counted
<1> QED
  BY <1>2, <1>3, AllCounted

LEMMA FlagStep ==
    ASSUME IInv, [Next]_vars
    PROVE  FlagOK'
<1> USE DEF IInv, FlagOK, AllBulksDone, bulkVars, queueVars, flagVars, mainVars, Goto, MainGoto
<1>1. ASSUME NEW w \in Worker, Step(w) \/ SpuriousWake(w)
      PROVE  FlagOK'
  <2>1. CASE CountBulk(w)
    <3>1. ~(done /\ main_pc \notin {"push", "clear"}) /\ main_pc \notin {"terminate", "wake", "join", "destroyed"}
      BY <2>1, CountBulkUnfinished
    <3> QED
      BY <2>1, <3>1 DEF CountBulk
  <2>2. CASE SetDone(w)
    BY <2>2 DEF SetDone, MainAfterWake
  <2>3. CASE \/ TestLoop(w) \/ Leave(w) \/ SeeWork(w) \/ Sleep(w) \/ FindNothing(w) \/ RunTask(w)
             \/ SpuriousWake(w) \/ DrawInVain(w) \/ (\E b \in LaunchId : Claim(w, b))
             \/ CountTask(w) \/ RemoveBulk(w)
    <3>1. UNCHANGED <<next_id, num_bulk_done, main_pc>> /\ (done' => done)
      BY <2>3 DEF TestLoop, Leave, SeeWork, Sleep, FindNothing, RunTask, SpuriousWake, DrawInVain,
                  Claim, CountTask, RemoveBulk
    <3> QED
      BY <3>1
  <2> QED
    BY <1>1, <2>1, <2>2, <2>3 DEF Step
<1>2. CASE MainStep \/ SyncSpuriousWake \/ UNCHANGED vars
  BY <1>2 DEF MainStep, Push, ClearDone, NotifyWorkers, SyncReturn, SyncSleep, WokenReturn,
              WokenSleep, Terminate, FinalWake, Join, SyncSpuriousWake, vars, AfterSync
<1>3. CASE Call
  BY <1>3 DEF Call, CallSync, NewBulk
<1> QED
  BY <1>1, <1>2, <1>3 DEF Next

LEMMA SleepStep ==
    ASSUME IInv, [Next]_vars
    PROVE  SleepOK'
<1> USE DEF IInv, SleepOK, Awake, bulkVars, queueVars, flagVars, mainVars, Goto, MainGoto
<1>0. /\ pc \in [Worker -> {"loop", "check", "blocking", "asleep", "fetch", "running",
                            "count", "finish", "remove", "exited"}]
      /\ done \in BOOLEAN /\ terminate \in BOOLEAN /\ NoOne \notin Worker
      /\ Worker # {}
  BY WorkerAssumption DEF TypeOK
(* A step of a worker that leaves it awake, as it was, or gone for good.   *)
<1>1. ASSUME NEW w \in Worker, Step(w) \/ SpuriousWake(w)
      PROVE  SleepOK'
  <2>1. CASE \/ SeeWork(w) \/ SpuriousWake(w) \/ FindNothing(w) \/ RunTask(w) \/ DrawInVain(w)
             \/ (\E b \in LaunchId : Claim(w, b)) \/ CountTask(w) \/ CountBulk(w) \/ RemoveBulk(w)
    <3>1. UNCHANGED <<terminate, cmtx, main_pc>>
      BY <2>1 DEF SeeWork, SpuriousWake, FindNothing, RunTask, DrawInVain, Claim, CountTask,
                  CountBulk, RemoveBulk
    <3>2. done' = done \/ (cmtx = NoOne /\ done' = FALSE)
      BY <2>1 DEF SeeWork, SpuriousWake, FindNothing, RunTask, DrawInVain, Claim, CountTask,
                  CountBulk, RemoveBulk
    <3>3. \E to \in {"fetch", "check", "loop", "running", "count", "finish", "remove"} :
             pc' = [pc EXCEPT ![w] = to] \/ pc' = [AfterWake EXCEPT ![w] = to]
      BY <2>1 DEF SeeWork, SpuriousWake, FindNothing, RunTask, DrawInVain, Claim, CountTask,
                  CountBulk, RemoveBulk
    <3>4. /\ Awake(w)'
          /\ \A v \in Worker : /\ pc'[v] = "blocking" => pc[v] = "blocking"
                               /\ pc'[v] = "exited" => pc[v] = "exited"
      BY <1>0, <3>3 DEF AfterWake
    <3> QED
      BY <1>0, <3>1, <3>2, <3>4
  <2>2. CASE TestLoop(w) \/ Leave(w)
    BY <1>0, <2>2 DEF TestLoop, Leave
  <2>3. CASE SetDone(w)
    BY <1>0, <2>3 DEF SetDone, MainAfterWake
  <2>4. CASE Sleep(w)
    BY <1>0, <2>4 DEF Sleep
  <2> QED
    BY <1>1, <2>1, <2>2, <2>3, <2>4 DEF Step
<1>2. CASE MainStep \/ SyncSpuriousWake \/ UNCHANGED vars
  <2>1. CASE NotifyWorkers \/ WokenSleep \/ FinalWake
    <3>1. ASSUME ~done', ~terminate
          PROVE  \E w \in Worker : Awake(w)'
      <4>1. \A w \in Worker : pc[w] # "blocking" /\ pc[w] # "exited"
        BY <1>0, <2>1, <3>1 DEF NotifyWorkers, WokenSleep, FinalWake
      <4>2. \A w \in Worker : Awake(w)'
        BY <1>0, <2>1, <4>1 DEF NotifyWorkers, WokenSleep, FinalWake, AfterWake
      <4> QED
        BY <1>0, <4>2
    <3> QED
      BY <1>0, <2>1, <3>1 DEF NotifyWorkers, WokenSleep, FinalWake, AfterWake
  <2>2. CASE \/ Push \/ ClearDone \/ SyncReturn \/ SyncSleep \/ WokenReturn \/ Terminate \/ Join
             \/ SyncSpuriousWake \/ UNCHANGED vars
    BY <1>0, <2>2 DEF Push, ClearDone, SyncReturn, SyncSleep, WokenReturn, Terminate, Join,
                      SyncSpuriousWake, vars, AfterSync
  <2> QED
    BY <1>2, <2>1, <2>2 DEF MainStep
<1>3. CASE Call
  BY <1>0, <1>3 DEF Call, CallSync, NewBulk
<1> QED
  BY <1>1, <1>2, <1>3 DEF Next

LEMMA InitIInv == Init => IInv
<1> SUFFICES ASSUME Init PROVE IInv
  OBVIOUS
<1> USE DEF Init
<1>1. InFlight = {} /\ Finishing = {} /\ Launched = {} /\ Counted = {}
  BY DEF InFlight, Finishing, Launched, Counted
<1>2. TypeOK
  <2>1. next_id \in 0 .. MaxLaunches /\ num_bulk_done \in 0 .. MaxLaunches
    BY MaxLaunchesAssumption
  <2>2. /\ num_total_tasks \in [LaunchId -> TaskCounts \cup {0}]
        /\ num_tasks_done \in [LaunchId -> Nat] /\ next_task_id \in [LaunchId -> Int]
        /\ \A b \in LaunchId : num_tasks_done[b] <= num_total_tasks[b]
        /\ deps \in [LaunchId -> SUBSET LaunchId]
    OBVIOUS
  <2>3. /\ my_bulk \in [Worker -> LaunchId \cup {0}] /\ my_id \in [Worker -> Int]
        /\ pc \in [Worker -> {"loop", "check", "blocking", "asleep", "fetch", "running",
                              "count", "finish", "remove", "exited"}]
    OBVIOUS
  <2> QED
    BY <2>1, <2>2, <2>3 DEF TypeOK
<1>3. CountsOK
  <2>1. \A b \in LaunchId : Cardinality(With(b)) = 0
    BY <1>1, FS_EmptySet DEF With
  <2> QED
    BY <1>1, <2>1 DEF CountsOK
<1>4. PlacesOK /\ InFlightOK /\ FinishingOK
  BY <1>1 DEF PlacesOK, Pushing, InFlightOK, FinishingOK
<1>5. CountedOK
  BY <1>1, FS_EmptySet DEF CountedOK
<1>6. FlagOK /\ SleepOK
  BY DEF FlagOK, AllBulksDone, SleepOK
<1> QED
  BY <1>2, <1>3, <1>4, <1>5, <1>6 DEF IInv, WorkOK

(* tasksys_orange.cpp:229-272: the inductive invariant of the bulk-task    *)
(* pool, for any number of workers, launches and tasks.                    *)
THEOREM BulkInvariant ==
    ASSUME Wrapped = {}
    PROVE  SafeSpec => []IInv
<1>1. IInv /\ [Next]_vars => IInv'
  BY WorkStep, TypeStep, FlagStep, SleepStep DEF IInv
<1> QED
  BY <1>1, InitIInv, PTL DEF SafeSpec

(* BulkPool's variables keep their types: tasksys_orange.cpp never counts  *)
(* more tasks of a bulk, or more bulks, than there are.                    *)
THEOREM BulkTypeOK ==
    ASSUME Wrapped = {}
    PROVE  SafeSpec => []TypeOK
<1>1. IInv => TypeOK
  BY DEF IInv
<1> QED
  BY <1>1, BulkInvariant, PTL

(* itasksys.h:15-16: ThreadFunc (tasksys_orange.cpp) gives each task of a  *)
(* bulk, in range, to one worker only.                                     *)
THEOREM BulkNoTaskTwice ==
    ASSUME Wrapped = {}
    PROVE  SafeSpec => []NoTaskTwice
<1>1. IInv => NoTaskTwice
  <2> SUFFICES ASSUME IInv, NEW w \in InFlight PROVE
        /\ my_id[w] \in 0 .. num_total_tasks[my_bulk[w]] - 1
        /\ my_id[w] < next_task_id[my_bulk[w]]
        /\ \A v \in InFlight \ {w} : my_bulk[v] = my_bulk[w] => my_id[v] # my_id[w]
    BY DEF NoTaskTwice
  <2>1. /\ my_bulk[w] \in LaunchId
        /\ my_id[w] \in 0 .. next_task_id[my_bulk[w]] - 1
        /\ \A v \in InFlight \ {w} : my_bulk[v] = my_bulk[w] => my_id[v] # my_id[w]
    BY DEF IInv, WorkOK, InFlightOK, TypeOK
  <2>2. /\ next_task_id[my_bulk[w]] \in Nat /\ num_total_tasks[my_bulk[w]] \in Nat
        /\ next_task_id[my_bulk[w]] <= num_total_tasks[my_bulk[w]]
    BY <2>1, BulkTypes DEF IInv, WorkOK, CountsOK
  <2> QED
    BY <2>1, <2>2
<1> QED
  BY <1>1, BulkInvariant, PTL

(* Whenever the application can look at done it may believe it: all bulks  *)
(* are finished and all their tasks have returned.                         *)
THEOREM BulkDoneIsHonest ==
    ASSUME Wrapped = {}
    PROVE  SafeSpec => []DoneIsHonest
<1>1. IInv => DoneIsHonest
  BY AllCounted DEF IInv, FlagOK, AllBulksDone, DoneIsHonest
<1> QED
  BY <1>1, BulkInvariant, PTL

(* sleeping_cv and waiting_cv lose no wake-up: while sync() sleeps, or an  *)
(* announced bulk is unfinished, some worker is awake.                     *)
THEOREM BulkSomeoneAwake ==
    ASSUME Wrapped = {}
    PROVE  SafeSpec => []SomeoneAwake
<1>1. IInv => SomeoneAwake
  <2>1. ASSUME IInv, main_pc = "sync_asleep" \/ (num_bulk_done # next_id /\ main_pc \in {"app", "sync"})
        PROVE  \E w \in Worker : Awake(w)
    BY <2>1 DEF IInv, FlagOK, AllBulksDone, SleepOK
  <2> QED
    BY <2>1 DEF SomeoneAwake, Awake
<1> QED
  BY <1>1, BulkInvariant, PTL

-----------------------------------------------------------------------------
(* The pool keeps the contract's safety.                                   *)

LEMMA StartedMembers ==
    ASSUME NEW t
    PROVE  t \in StartedTasks <=>
              \E l \in Launched : \E i \in 0 .. next_task_id[l] - 1 : t = <<l, i>>
BY DEF StartedTasks

LEMMA RunningMembers ==
    ASSUME NEW t
    PROVE  t \in RunningTasks <=>
              \E w \in Worker : pc[w] = "running" /\ t = <<my_bulk[w], my_id[w]>>
BY DEF RunningTasks

LEMMA RunningAreStarted ==
    ASSUME IInv
    PROVE  RunningTasks \subseteq StartedTasks
<1> SUFFICES ASSUME NEW w \in Worker, pc[w] = "running"
             PROVE  <<my_bulk[w], my_id[w]>> \in StartedTasks
  BY DEF RunningTasks
<1>1. my_bulk[w] \in ready /\ my_id[w] \in 0 .. next_task_id[my_bulk[w]] - 1
  BY DEF IInv, WorkOK, InFlightOK, InFlight
<1>2. my_bulk[w] \in Launched
  BY <1>1 DEF IInv, WorkOK, PlacesOK
<1> QED
  BY <1>1, <1>2, StartedMembers

(* A bulk all of whose tasks are counted is done in the contract.          *)
LEMMA ReturnedAreDone ==
    ASSUME IInv, NEW d \in Launched, num_tasks_done[d] = num_total_tasks[d]
    PROVE  Contract!Done(d)
<1>1. d \in LaunchId
  BY BulkTypes DEF IInv
<1>2. next_task_id[d] = num_total_tasks[d] /\ \A w \in InFlight : my_bulk[w] # d
  BY <1>1, NobodyWithDone
<1> SUFFICES ASSUME NEW i \in 0 .. num_total_tasks[d] - 1
             PROVE  <<d, i>> \in StartedTasks \ RunningTasks
  BY DEF Contract!Done, Contract!Tasks
<1>3. <<d, i>> \in StartedTasks
  BY <1>2, StartedMembers
<1>4. <<d, i>> \notin RunningTasks
  BY <1>2, RunningMembers DEF InFlight
<1> QED
  BY <1>3, <1>4

LEMMA BulkInitRefines == Init => Contract!Init
<1> SUFFICES ASSUME Init PROVE Contract!Init
  OBVIOUS
<1>1. Launched = {} /\ RunningTasks = {} /\ Caller = "app"
  BY DEF Init, Launched, RunningTasks, Caller
<1>2. StartedTasks = {}
  BY <1>1 DEF StartedTasks
<1> QED
  BY <1>1, <1>2 DEF Init, Contract!Init

(* A worker that can draw a bulk finds one unfinished, so the destructor   *)
(* is not past its sync().                                                 *)
LEMMA DrawnIsUnfinished ==
    ASSUME IInv, QmtxFree, NEW b \in ready \cup Moved
    PROVE  ~terminate /\ b \in Launched /\ deps[b] \subseteq finished_bulk
<1> USE DEF IInv, WorkOK
<1>1. b \in Launched /\ b \notin finished_bulk /\ deps[b] \subseteq finished_bulk
  BY DEF PlacesOK, Moved, Unblocked
<1>2. Counted = finished_bulk
  BY DEF Counted, QmtxFree
<1>3. ~AllBulksDone
  BY <1>1, <1>2, AllCounted
<1> QED
  BY <1>1, <1>3 DEF FlagOK, SleepOK, TypeOK

LEMMA ClaimRefines ==
    ASSUME IInv, Wrapped = {}, NEW w \in Worker, NEW b \in LaunchId, Claim(w, b)
    PROVE  Contract!StartSome
<1> USE DEF IInv
<1> DEFINE i == next_task_id[b]
           t == <<b, i>>
<1>1. /\ pc[w] = "fetch" /\ pc' = [pc EXCEPT ![w] = "running"] /\ QmtxFree
      /\ next_task_id' = [next_task_id EXCEPT ![b] = @ + 1]
      /\ my_bulk' = [my_bulk EXCEPT ![w] = b]
      /\ my_id' = [my_id EXCEPT ![w] = i]
      /\ b \in ready \cup Moved /\ i < num_total_tasks[b]
      /\ UNCHANGED <<next_id, deps, num_total_tasks, terminate, main_pc>>
  BY DEF Claim, Goto, NextTaskIds, TaskLeft, flagVars, mainVars
<1>2. ~terminate /\ b \in Launched /\ deps[b] \subseteq finished_bulk
  BY <1>1, DrawnIsUnfinished
<1>3. i \in Nat /\ num_total_tasks[b] \in Nat /\ Launched \subseteq LaunchId
  BY BulkTypes DEF WorkOK, CountsOK
<1>4. /\ next_task_id'[b] = i + 1
      /\ \A k \in LaunchId \ {b} : next_task_id'[k] = next_task_id[k]
      /\ my_bulk'[w] = b /\ my_id'[w] = i
      /\ \A v \in Worker \ {w} : my_bulk'[v] = my_bulk[v] /\ my_id'[v] = my_id[v]
      /\ \A v \in Worker : pc'[v] = "running" <=> (pc[v] = "running" \/ v = w)
  BY <1>1, <1>3 DEF TypeOK, WorkOK, CountsOK
<1> HIDE DEF i
<1>5. Launched' = Launched
  BY <1>1 DEF Launched
<1>6. StartedTasks' = StartedTasks \cup {t}
  <2>1. 0 .. next_task_id'[b] - 1 = (0 .. i - 1) \cup {i}
    BY <1>3, <1>4
  <2>2. ASSUME NEW s
        PROVE  s \in StartedTasks' <=> s \in StartedTasks \cup {t}
    <3>1. s \in StartedTasks' <=>
             \E k \in Launched : \E j \in 0 .. next_task_id'[k] - 1 : s = <<k, j>>
      BY <1>5 DEF StartedTasks
    <3>2. \A k \in Launched \ {b} : next_task_id'[k] = next_task_id[k]
      BY <1>3, <1>4
    <3>3. (\E j \in 0 .. next_task_id'[b] - 1 : s = <<b, j>>) <=>
             (\E j \in 0 .. i - 1 : s = <<b, j>>) \/ s = t
      BY <2>1
    <3> QED
      BY <1>2, <3>1, <3>2, <3>3, StartedMembers DEF i
  <2> QED
    BY <2>2
<1>7. t \notin StartedTasks
  BY <1>3, StartedMembers DEF i
<1>8. RunningTasks' = RunningTasks \cup {t}
  <2>1. ASSUME NEW s
        PROVE  s \in RunningTasks' <=> s \in RunningTasks \cup {t}
    <3>1. s \in RunningTasks' <=>
             \E v \in Worker : pc'[v] = "running" /\ s = <<my_bulk'[v], my_id'[v]>>
      BY DEF RunningTasks
    <3> QED
      BY <1>1, <1>4, <3>1, RunningMembers
  <2> QED
    BY <2>1
<1>9. RunningTasks \subseteq StartedTasks
  BY RunningAreStarted
<1>10. \A d \in deps[b] : Contract!Done(d)
  BY <1>2, ReturnedAreDone DEF WorkOK, PlacesOK
<1>11. t \in Contract!Tasks(b) /\ t[1] = b
  BY <1>1, <1>3 DEF Contract!Tasks
<1>12. Contract!CanStart(t)
  BY <1>2, <1>7, <1>9, <1>10, <1>11 DEF Contract!CanStart
<1>13. Caller # "gone" /\ Caller' = Caller
  BY <1>1, <1>2 DEF Caller
<1>14. (StartedTasks \ RunningTasks)' = StartedTasks \ RunningTasks
  BY <1>6, <1>7, <1>8, <1>9
<1>15. Contract!Start(t)
  BY <1>1, <1>5, <1>8, <1>12, <1>13, <1>14 DEF Contract!Start
<1> QED
  BY <1>2, <1>11, <1>15 DEF Contract!StartSome

LEMMA RunTaskRefines ==
    ASSUME IInv, NEW w \in Worker, RunTask(w)
    PROVE  Contract!FinishSome
<1> USE DEF IInv
<1> DEFINE t == <<my_bulk[w], my_id[w]>>
<1>1. /\ pc[w] = "running" /\ pc' = [pc EXCEPT ![w] = "count"]
      /\ UNCHANGED <<next_id, num_total_tasks, next_task_id, deps, terminate, my_bulk, my_id,
                     main_pc>>
  BY DEF RunTask, Goto, bulkVars, localVars, flagVars, mainVars
<1>2. t \in RunningTasks
  BY <1>1, RunningMembers
<1>3. RunningTasks' = RunningTasks \ {t}
  <2>1. ASSUME NEW v \in Worker, v # w, pc[v] = "running"
        PROVE  <<my_bulk[v], my_id[v]>> # t
    BY <1>1, <2>1 DEF WorkOK, InFlightOK, InFlight
  <2>2. \A v \in Worker : pc'[v] = "running" <=> (pc[v] = "running" /\ v # w)
    BY <1>1 DEF TypeOK
  <2>3. RunningTasks' = {<<my_bulk[v], my_id[v]>> : v \in {u \in Worker : pc'[u] = "running"}}
    BY <1>1 DEF RunningTasks
  <2> QED
    BY <2>1, <2>2, <2>3 DEF RunningTasks
<1>4. StartedTasks' = StartedTasks /\ Launched' = Launched /\ Caller' = Caller
  BY <1>1 DEF StartedTasks, Launched, Caller
<1>5. (StartedTasks \ RunningTasks)' = (StartedTasks \ RunningTasks) \cup {t}
  BY <1>2, <1>3, <1>4, RunningAreStarted
<1>6. Contract!Finish(t)
  BY <1>1, <1>2, <1>3, <1>4, <1>5 DEF Contract!Finish
<1> QED
  BY <1>2, <1>6 DEF Contract!FinishSome

LEMMA NewBulkRefines ==
    ASSUME IInv, NEW n \in TaskCounts, NEW D \in SUBSET Launched, NEW c, NewBulk(n, D, c)
    PROVE  Contract!LaunchSome
<1> USE DEF IInv
<1>1. /\ next_id \in LaunchId /\ next_id \in Nat /\ next_id' = next_id + 1
      /\ num_total_tasks' = [num_total_tasks EXCEPT ![next_id] = n]
      /\ deps' = [deps EXCEPT ![next_id] = D]
      /\ main_pc = "app" /\ main_pc' = "push"
      /\ UNCHANGED <<next_task_id, terminate, pc, my_bulk, my_id>>
  BY MaxLaunchesAssumption DEF NewBulk, MainGoto, LaunchId, TypeOK, flagVars, localVars
<1>2. Launched' = Launched \cup {next_id} /\ next_id \notin Launched
  BY <1>1 DEF Launched
<1>3. next_task_id[next_id] = 0
  BY <1>1, <1>2, BegunNotWaiting DEF WorkOK, PlacesOK
<1>4. StartedTasks' = StartedTasks
  <2>1. {next_id} \X (0 .. next_task_id[next_id] - 1) = {}
    BY <1>3
  <2>2. StartedTasks' = UNION {{l} \X (0 .. next_task_id[l] - 1) : l \in Launched \cup {next_id}}
    BY <1>1, <1>2 DEF StartedTasks
  <2> QED
    BY <2>1, <2>2 DEF StartedTasks
<1>5. RunningTasks' = RunningTasks
  BY <1>1 DEF RunningTasks
<1>6. Caller = "app" /\ Caller' = "app"
  BY <1>1 DEF Caller, SleepOK
<1>7. Contract!Launch(next_id, n, D)
  BY <1>1, <1>2, <1>4, <1>5, <1>6 DEF Contract!Launch
<1> QED
  BY <1>1, <1>7 DEF Contract!LaunchSome

LEMMA LeaveSyncRefines ==
    ASSUME IInv, SyncReturn \/ WokenReturn
    PROVE  Contract!ReturnSync
<1>1. AllBulksDone
  BY DEF SyncReturn, WokenReturn, MainGoto, IInv, FlagOK
<1>2. \A l \in Launched : Contract!Done(l)
  BY <1>1, AllCounted, ReturnedAreDone DEF AllTasksReturned
<1>3. /\ main_pc \in {"sync", "sync_woken"} /\ main_pc' \in {"app", "terminate"} /\ ~terminate
      /\ UNCHANGED <<next_id, num_total_tasks, next_task_id, deps, terminate, pc, my_bulk, my_id>>
  BY DEF SyncReturn, WokenReturn, MainGoto, AfterSync, bulkVars, flagVars, localVars, IInv, SleepOK
<1> QED
  BY <1>2, <1>3 DEF Contract!ReturnSync, Caller, Launched, StartedTasks, RunningTasks

(* A step that claims, finishes and launches nothing, and leaves the       *)
(* application where it was, is not seen by the contract.                  *)
LEMMA Invisible ==
    ASSUME UNCHANGED <<next_id, num_total_tasks, next_task_id, deps>>,
           \A v \in Worker : /\ pc'[v] = "running" <=> pc[v] = "running"
                             /\ pc[v] = "running" => my_bulk'[v] = my_bulk[v] /\ my_id'[v] = my_id[v]
    PROVE  /\ UNCHANGED <<Launched, StartedTasks, RunningTasks>>
           /\ Caller' = Caller => UNCHANGED Contract!vars
<1>1. Launched' = Launched /\ StartedTasks' = StartedTasks
  BY DEF Launched, StartedTasks
<1>2. ASSUME NEW s
      PROVE  s \in RunningTasks' <=> s \in RunningTasks
  <2>1. s \in RunningTasks' <=>
           \E v \in Worker : pc'[v] = "running" /\ s = <<my_bulk'[v], my_id'[v]>>
    BY DEF RunningTasks
  <2> QED
    BY <2>1, RunningMembers
<1>3. RunningTasks' = RunningTasks
  BY <1>2
<1> QED
  BY <1>1, <1>3 DEF Contract!vars

LEMMA WorkerStepRefines ==
    ASSUME IInv, Wrapped = {}, NEW w \in Worker, Step(w) \/ SpuriousWake(w)
    PROVE  [Contract!Next]_Contract!vars
<1> USE DEF IInv, TypeOK, bulkVars, flagVars, localVars, mainVars, Goto
<1>1. CASE \E b \in LaunchId : Claim(w, b)
  BY <1>1, ClaimRefines DEF Contract!Next
<1>2. CASE RunTask(w)
  BY <1>2, RunTaskRefines DEF Contract!Next
<1>3. CASE CountTask(w) \/ RemoveBulk(w)
  <2>1. /\ pc[w] # "running" /\ pc'[w] # "running"
        /\ \A v \in Worker \ {w} : /\ pc'[v] = "running" <=> pc[v] = "running"
                                   /\ my_bulk'[v] = my_bulk[v] /\ my_id'[v] = my_id[v]
    <3>1. CASE CountTask(w)
      BY <3>1 DEF CountTask, ForgetTask
    <3>2. CASE RemoveBulk(w)
      BY <3>2 DEF RemoveBulk, ForgetTask, AfterWake
    <3> QED
      BY <1>3, <3>1, <3>2
  <2>2. UNCHANGED <<next_id, num_total_tasks, next_task_id, deps, terminate, main_pc>>
    BY <1>3 DEF CountTask, RemoveBulk
  <2> QED
    BY <2>1, <2>2, Invisible DEF Caller
<1>4. CASE \/ TestLoop(w) \/ Leave(w) \/ SeeWork(w) \/ SetDone(w) \/ Sleep(w) \/ SpuriousWake(w)
           \/ DrawInVain(w) \/ FindNothing(w) \/ CountBulk(w)
  <2>1. /\ pc[w] # "running"
        /\ \E to \in {"exited", "check", "fetch", "blocking", "asleep", "loop", "remove"} :
              pc' = [pc EXCEPT ![w] = to]
    BY <1>4 DEF TestLoop, Leave, SeeWork, SetDone, Sleep, SpuriousWake, DrawInVain, FindNothing,
                CountBulk
  <2>2. UNCHANGED <<next_id, num_total_tasks, deps, my_bulk, my_id, terminate>>
    BY <1>4 DEF TestLoop, Leave, SeeWork, SetDone, Sleep, SpuriousWake, DrawInVain, FindNothing,
                CountBulk
  <2>3. next_task_id' = next_task_id
    BY <1>4 DEF TestLoop, Leave, SeeWork, SetDone, Sleep, SpuriousWake, DrawInVain, FindNothing,
                CountBulk, NextTaskIds, WorkOK, CountsOK
  <2>4. main_pc' \in {main_pc, MainAfterWake}
    BY <1>4 DEF TestLoop, Leave, SeeWork, SetDone, Sleep, SpuriousWake, DrawInVain, FindNothing,
                CountBulk
  <2>5. Caller' = Caller
    BY <2>2, <2>4 DEF Caller, MainAfterWake
  <2> QED
    BY <2>1, <2>2, <2>3, <2>5, Invisible
<1> QED
  BY <1>1, <1>2, <1>3, <1>4 DEF Step

LEMMA MainStepRefines ==
    ASSUME IInv, MainStep \/ SyncSpuriousWake \/ Call
    PROVE  [Contract!Next]_Contract!vars
<1> USE DEF IInv, TypeOK, SleepOK, bulkVars, flagVars, localVars, mainVars, MainGoto
<1>1. CASE SyncReturn \/ WokenReturn
  BY <1>1, LeaveSyncRefines DEF Contract!Next
<1>2. CASE \/ Push \/ ClearDone \/ SyncSleep \/ SyncSpuriousWake \/ WokenSleep \/ FinalWake \/ Join
  <2>1. UNCHANGED <<next_id, num_total_tasks, next_task_id, deps, terminate, my_bulk, my_id>>
    BY <1>2 DEF Push, ClearDone, SyncSleep, SyncSpuriousWake, WokenSleep, FinalWake, Join
  <2>2. pc' \in {pc, AfterWake}
    BY <1>2 DEF Push, ClearDone, SyncSleep, SyncSpuriousWake, WokenSleep, FinalWake, Join
  <2>3. Caller' = Caller
    BY <1>2 DEF Push, ClearDone, SyncSleep, SyncSpuriousWake, WokenSleep, FinalWake, Join, Caller
  <2> QED
    BY <2>1, <2>2, <2>3, Invisible DEF AfterWake
<1>3. CASE NotifyWorkers \/ CallSync("sync") \/ CallSync("destroy") \/ Terminate
  <2>1. UNCHANGED <<next_id, num_total_tasks, next_task_id, deps, my_bulk, my_id>>
    BY <1>3 DEF NotifyWorkers, CallSync, Terminate
  <2>2. pc' \in {pc, AfterWake}
    BY <1>3 DEF NotifyWorkers, CallSync, Terminate
  <2>3. Caller = "app" /\ Caller' \in {"app", "sync", "gone"}
    BY <1>3 DEF NotifyWorkers, CallSync, Terminate, Caller
  <2>4. UNCHANGED <<Launched, StartedTasks, RunningTasks>>
    BY <2>1, <2>2, Invisible DEF AfterWake
  <2>5. Caller' = "app" => UNCHANGED Contract!vars
    BY <2>1, <2>3, <2>4 DEF Contract!vars
  <2> QED
    BY <2>1, <2>3, <2>4, <2>5 DEF Contract!Next, Contract!CallSync, Contract!Destroy
<1>4. ASSUME NEW n \in TaskCounts, NEW D \in SUBSET Launched, NEW c, NewBulk(n, D, c)
      PROVE  [Contract!Next]_Contract!vars
  BY <1>4, NewBulkRefines DEF Contract!Next
<1> QED
  BY <1>1, <1>2, <1>3, <1>4 DEF MainStep, Call

(* itasksys.h:49-52 and 64-67: however late CheckWaiting looks at the      *)
(* waiting vector, no task starts before all tasks of the launches its own *)
(* depends on have returned, none runs twice, and sync() returns only when *)
(* every task of every launch has.                                         *)
THEOREM BulkImplementsSafely ==
    ASSUME Wrapped = {}
    PROVE  SafeSpec => ImplementsSafely
<1>1. ASSUME IInv, [Next]_vars
      PROVE  [Contract!Next]_Contract!vars
  <2>1. CASE UNCHANGED vars
    BY <2>1 DEF vars, bulkVars, flagVars, localVars, mainVars, Contract!vars, Launched,
                StartedTasks, RunningTasks, Caller
  <2> QED
    BY <1>1, <2>1, WorkerStepRefines, MainStepRefines DEF Next
<1> QED
  BY <1>1, BulkInitRefines, BulkInvariant, PTL DEF SafeSpec, ImplementsSafely, Contract!SafeSpec
=============================================================================
