--------------------------- MODULE GroupPoolProofs ---------------------------
(***************************************************************************)
(* Theorems about GroupPool: no wake-up is lost, neither of the workers    *)
(* for tasks in the queue nor of sync() for the end of the last launch;    *)
(* its types; and that it keeps the contract's safety.                     *)
(***************************************************************************)
EXTENDS GroupPool, FiniteSetTheorems, SequenceTheorems, WellFoundedInduction, TLAPS

(* Sequences without repetition, and FlattenSeq of such sequences.         *)

LEMMA ConcatDistinct ==
    ASSUME NEW S, NEW a \in Seq(S), NEW b \in Seq(S), IsInjective(a), IsInjective(b),
           \A x : ~(Contains(a, x) /\ Contains(b, x))
    PROVE  /\ a \o b \in Seq(S) /\ IsInjective(a \o b)
           /\ \A x : Contains(a \o b, x) <=> Contains(a, x) \/ Contains(b, x)
<1>1. /\ a \o b \in Seq(S) /\ Len(a \o b) = Len(a) + Len(b)
      /\ \A i \in 1 .. Len(a) + Len(b) :
            (a \o b)[i] = IF i <= Len(a) THEN a[i] ELSE b[i - Len(a)]
  BY ConcatProperties
<1>2. /\ Len(a) \in Nat /\ DOMAIN a = 1 .. Len(a)
      /\ Len(b) \in Nat /\ DOMAIN b = 1 .. Len(b)
      /\ DOMAIN (a \o b) = 1 .. Len(a) + Len(b)
  BY <1>1, LenProperties
<1> DEFINE c == a \o b
<1> HIDE DEF c
<1>3. ASSUME NEW i \in 1 .. Len(c), NEW j \in 1 .. Len(c), c[i] = c[j]
      PROVE  i = j
  <2>1. CASE i <= Len(a) /\ j <= Len(a)
    BY <1>1, <1>2, <1>3, <2>1 DEF IsInjective, c
  <2>2. CASE i > Len(a) /\ j > Len(a)
    <3>1. i - Len(a) \in 1 .. Len(b) /\ j - Len(a) \in 1 .. Len(b)
      BY <1>1, <1>2, <2>2 DEF c
    <3>2. b[i - Len(a)] = b[j - Len(a)]
      BY <1>1, <1>2, <1>3, <2>2 DEF c
    <3> QED
      BY <1>1, <1>2, <3>1, <3>2 DEF IsInjective, c
  <2>3. ASSUME NEW k \in 1 .. Len(c), NEW m \in 1 .. Len(c), k <= Len(a), m > Len(a), c[k] = c[m]
        PROVE  FALSE
    <3>1. c[k] = a[k] /\ k \in 1 .. Len(a)
      BY <1>1, <1>2, <2>3 DEF c
    <3>2. c[m] = b[m - Len(a)] /\ m - Len(a) \in 1 .. Len(b)
      BY <1>1, <1>2, <2>3 DEF c
    <3> QED
      BY <2>3, <3>1, <3>2 DEF Contains
  <2> QED
    BY <1>1, <1>2, <1>3, <2>1, <2>2, <2>3 DEF c
<1>4. ASSUME NEW x PROVE Contains(c, x) <=> Contains(a, x) \/ Contains(b, x)
  <2>1. ASSUME NEW i \in 1 .. Len(a) PROVE c[i] = a[i] /\ i \in 1 .. Len(c)
    BY <1>1, <1>2 DEF c
  <2>2. ASSUME NEW i \in 1 .. Len(b) PROVE c[i + Len(a)] = b[i] /\ i + Len(a) \in 1 .. Len(c)
    BY <1>1, <1>2 DEF c
  <2>3. ASSUME NEW i \in 1 .. Len(c) PROVE Contains(a, c[i]) \/ Contains(b, c[i])
    <3>1. CASE i <= Len(a)
      BY <1>1, <1>2, <3>1 DEF c, Contains
    <3>2. CASE i > Len(a)
      <4>1. c[i] = b[i - Len(a)] /\ i - Len(a) \in 1 .. Len(b)
        BY <1>1, <1>2, <3>2 DEF c
      <4> QED
        BY <4>1 DEF Contains
    <3> QED
      BY <1>1, <1>2, <3>1, <3>2 DEF c
  <2>4. ASSUME Contains(c, x) PROVE Contains(a, x) \/ Contains(b, x)
    <3>1. PICK i \in 1 .. Len(c) : c[i] = x
      BY <2>4 DEF Contains
    <3> QED
      BY <2>3, <3>1
  <2>5. ASSUME Contains(a, x) PROVE Contains(c, x)
    <3>1. PICK i \in 1 .. Len(a) : a[i] = x
      BY <2>5 DEF Contains
    <3>2. c[i] = x /\ i \in 1 .. Len(c)
      BY <2>1, <3>1
    <3> QED
      BY <3>2 DEF Contains
  <2>6. ASSUME Contains(b, x) PROVE Contains(c, x)
    <3>1. PICK i \in 1 .. Len(b) : b[i] = x
      BY <2>6 DEF Contains
    <3>2. c[i + Len(a)] = x /\ i + Len(a) \in 1 .. Len(c)
      BY <2>2, <3>1
    <3> QED
      BY <3>2 DEF Contains
  <2> QED
    BY <2>4, <2>5, <2>6
<1>5. DOMAIN c = 1 .. Len(c) /\ c \in Seq(S)
  BY <1>1, <1>2 DEF c
<1>6. IsInjective(c)
  BY <1>3, <1>5 DEF IsInjective
<1> QED
  BY <1>4, <1>5, <1>6 DEF c

LEMMA LeastNat ==
    ASSUME NEW T \in SUBSET Nat, T # {}
    PROVE  \E n \in T : \A m \in T : n <= m
<1>1. IsWellFoundedOn(OpToRel(<, Nat), Nat)
  BY NatLessThanWellFounded
<1>2. PICK n \in T : \A m \in T : <<m, n>> \notin OpToRel(<, Nat)
  BY <1>1, WFMin
<1>3. ASSUME NEW m \in T PROVE n <= m
  <2>1. n \in Nat /\ m \in Nat
    OBVIOUS
  <2>2. m < n => <<m, n>> \in OpToRel(<, Nat)
    BY <2>1 DEF OpToRel
  <2>3. ~(m < n)
    BY <1>2, <2>2, Zenon
  <2> QED
    BY <2>1, <2>3
<1> QED
  BY <1>3

LEMMA AppendDistinct ==
    ASSUME NEW S, NEW s \in Seq(S), NEW e \in S, IsInjective(s), ~Contains(s, e)
    PROVE  /\ Append(s, e) \in Seq(S) /\ IsInjective(Append(s, e))
           /\ \A x : Contains(Append(s, e), x) <=> Contains(s, x) \/ x = e
<1>1. <<e>> \in Seq(S) /\ Len(<<e>>) = 1 /\ <<e>>[1] = e
  OBVIOUS
<1>2. IsInjective(<<e>>) /\ \A x : Contains(<<e>>, x) <=> x = e
  BY <1>1 DEF IsInjective, Contains
<1>3. \A x : ~(Contains(s, x) /\ Contains(<<e>>, x))
  BY <1>2
<1> DEFINE u == <<e>>
<1>4. Append(s, e) = s \o u
  BY AppendIsConcat
<1> HIDE DEF u
<1>5. /\ s \o u \in Seq(S) /\ IsInjective(s \o u)
      /\ \A x : Contains(s \o u, x) <=> Contains(s, x) \/ Contains(u, x)
  BY <1>1, <1>2, <1>3, ConcatDistinct DEF u
<1> QED
  BY <1>2, <1>4, <1>5 DEF u

LEMMA TailDistinct ==
    ASSUME NEW S, NEW s \in Seq(S), s # <<>>, IsInjective(s)
    PROVE  /\ Head(s) \in S /\ Contains(s, Head(s))
           /\ Tail(s) \in Seq(S) /\ IsInjective(Tail(s))
           /\ \A x : Contains(Tail(s), x) <=> Contains(s, x) /\ x # Head(s)
<1>1. /\ Head(s) \in S /\ Tail(s) \in Seq(S) /\ Len(Tail(s)) = Len(s) - 1
      /\ \A i \in 1 .. Len(Tail(s)) : Tail(s)[i] = s[i + 1]
  BY HeadTailProperties
<1>2. Len(s) \in Nat \ {0} /\ DOMAIN s = 1 .. Len(s) /\ DOMAIN Tail(s) = 1 .. Len(s) - 1
  BY <1>1, LenProperties, EmptySeq
<1>3. Head(s) = s[1]
  BY <1>2
<1> DEFINE t == Tail(s)
<1> HIDE DEF t
<1>4. ASSUME NEW i \in 1 .. Len(s) - 1
      PROVE  t[i] = s[i + 1] /\ i + 1 \in 1 .. Len(s) /\ i + 1 # 1
  BY <1>1, <1>2 DEF t
<1>5. IsInjective(t)
  BY <1>2, <1>4 DEF IsInjective, t
<1>6. ASSUME NEW x, Contains(t, x) PROVE Contains(s, x) /\ x # s[1]
  <2>1. PICK i \in 1 .. Len(s) - 1 : t[i] = x
    BY <1>1, <1>6 DEF Contains, t
  <2>2. x = s[i + 1] /\ 1 \in 1 .. Len(s)
    BY <1>2, <1>4, <2>1
  <2> QED
    BY <1>2, <1>4, <2>2 DEF Contains, IsInjective
<1>7. Contains(s, Head(s))
  BY <1>2, <1>3 DEF Contains
<1>8. ASSUME NEW x, Contains(s, x), x # s[1] PROVE Contains(t, x)
  <2>1. PICK i \in 1 .. Len(s) : s[i] = x
    BY <1>8 DEF Contains
  <2>2. i - 1 \in 1 .. Len(s) - 1 /\ i - 1 + 1 = i
    BY <1>2, <1>8, <2>1
  <2>3. t[i - 1] = x
    BY <1>4, <2>1, <2>2
  <2> QED
    BY <1>1, <1>2, <2>2, <2>3 DEF Contains, t
<1> QED
  BY <1>1, <1>3, <1>5, <1>6, <1>7, <1>8 DEF t

(* f is the recursive function of FlattenSeq, up to n.                     *)
Flattens(f, s, n) ==
    f = [i \in 1 .. n |-> IF i = 1 THEN s[i] ELSE f[i - 1] \o s[i]]

LEMMA FlattenExists ==
    ASSUME NEW s, NEW k \in Nat
    PROVE  \E f : Flattens(f, s, k)
<1> DEFINE Bad == {n \in Nat : ~\E f : Flattens(f, s, n)}
<1> SUFFICES ASSUME Bad # {} PROVE FALSE
  OBVIOUS
<1>1. PICK n \in Bad : \A m \in Bad : n <= m
  BY LeastNat
<1>2. n \in Nat /\ ~\E f : Flattens(f, s, n)
  OBVIOUS
<1>3. \E f : Flattens(f, s, 0)
  <2> DEFINE e == [i \in 1 .. 0 |-> 0]
  <2>1. Flattens(e, s, 0)
    BY DEF Flattens
  <2> QED
    BY <2>1
<1>4. n # 0 /\ n - 1 \in Nat /\ ~(n <= n - 1)
  BY <1>2, <1>3
<1>5. n - 1 \notin Bad
  BY <1>1, <1>4
<1>6. PICK f : Flattens(f, s, n - 1)
  BY <1>4, <1>5
<1> DEFINE g == [i \in 1 .. n |-> IF i < n THEN f[i] ELSE IF i = 1 THEN s[i] ELSE f[i - 1] \o s[i]]
<1>7. ASSUME NEW i \in 1 .. n
      PROVE  g[i] = IF i = 1 THEN s[i] ELSE g[i - 1] \o s[i]
  <2>1. CASE i < n
    <3>1. i \in 1 .. n - 1
      BY <1>2, <2>1
    <3>2. f[i] = IF i = 1 THEN s[i] ELSE f[i - 1] \o s[i]
      <4> HIDE DEF g
      <4> QED
        BY <1>6, <3>1 DEF Flattens
    <3>3. i # 1 => i - 1 \in 1 .. n /\ i - 1 < n
      BY <1>2, <2>1
    <3> QED
      BY <2>1, <3>2, <3>3
  <2>2. CASE i = n
    BY <1>2, <2>2
  <2> QED
    BY <1>2, <2>1, <2>2
<1>8. g = [i \in 1 .. n |-> g[i]]
  OBVIOUS
<1> HIDE DEF g
<1>9. Flattens(g, s, n)
  BY <1>7, <1>8 DEF Flattens
<1> QED
  BY <1>2, <1>9

LEMMA FlattenIs ==
    ASSUME NEW S, NEW s \in Seq(S), Len(s) # 0
    PROVE  \E f : Flattens(f, s, Len(s)) /\ FlattenSeq(s) = f[Len(s)]
<1>0. \E f : Flattens(f, s, Len(s))
  BY FlattenExists, LenProperties
<1>1. \E f : f = [i \in 1 .. Len(s) |-> IF i = 1 THEN s[i] ELSE f[i - 1] \o s[i]]
  BY <1>0 DEF Flattens
<1> DEFINE flatten[i \in 1 .. Len(s)] == IF i = 1 THEN s[i] ELSE flatten[i - 1] \o s[i]
<1>2. FlattenSeq(s) = flatten[Len(s)]
  BY DEF FlattenSeq
<1>3. Flattens(flatten, s, Len(s))
  BY <1>1 DEF Flattens
<1> QED
  BY <1>2, <1>3

(* Flattening disjoint sequences without repetition makes another one of   *)
(* their elements.                                                         *)
LEMMA FlattenDistinct ==
    ASSUME NEW S, NEW s \in Seq(Seq(S)),
           \A i \in DOMAIN s : IsInjective(s[i]),
           \A i, j \in DOMAIN s : i # j => \A x : ~(Contains(s[i], x) /\ Contains(s[j], x))
    PROVE  /\ FlattenSeq(s) \in Seq(S) /\ IsInjective(FlattenSeq(s))
           /\ \A x : Contains(FlattenSeq(s), x) <=> \E i \in DOMAIN s : Contains(s[i], x)
<1>0. Len(s) \in Nat /\ DOMAIN s = 1 .. Len(s)
  BY LenProperties
<1>1. CASE Len(s) = 0
  <2>1. s = <<>> /\ FlattenSeq(s) = <<>>
    BY <1>1, EmptySeq DEF FlattenSeq
  <2>2. <<>> \in Seq(S) /\ IsInjective(<<>>)
    BY DEF IsInjective
  <2>3. \A x : ~Contains(<<>>, x)
    BY DEF Contains
  <2>4. DOMAIN s = {}
    BY <1>0, <1>1
  <2>5. FlattenSeq(s) \in Seq(S) /\ IsInjective(FlattenSeq(s)) /\ \A x : ~Contains(FlattenSeq(s), x)
    BY <2>1, <2>2, <2>3
  <2> QED
    BY <2>4, <2>5
<1>2. CASE Len(s) # 0
  <2>1. PICK f : Flattens(f, s, Len(s)) /\ FlattenSeq(s) = f[Len(s)]
    BY <1>2, FlattenIs
  <2> DEFINE Good(n) == /\ f[n] \in Seq(S) /\ IsInjective(f[n])
                        /\ \A x : Contains(f[n], x) <=> \E i \in 1 .. n : Contains(s[i], x)
             Bad == {n \in 1 .. Len(s) : ~Good(n)}
  <2>2. ASSUME NEW n \in 1 .. Len(s)
        PROVE  f[n] = IF n = 1 THEN s[n] ELSE f[n - 1] \o s[n]
    BY <2>1 DEF Flattens
  <2>3. Good(1)
    BY <1>0, <1>2, <2>2
  <2>4. ASSUME NEW n \in 1 .. Len(s), n # 1, Good(n - 1)
        PROVE  Good(n)
    <3>0. n \in DOMAIN s
      BY <1>0
    <3>1. n \in DOMAIN s /\ s[n] \in Seq(S) /\ IsInjective(s[n])
      BY <1>0, <3>0
    <3>2. /\ f[n - 1] \in Seq(S) /\ IsInjective(f[n - 1])
          /\ \A x : Contains(f[n - 1], x) <=> \E i \in 1 .. n - 1 : Contains(s[i], x)
      BY <2>4
    <3>3. \A i \in 1 .. n - 1 : i \in DOMAIN s /\ i # n /\ i \in 1 .. n
      BY <1>0
    <3>4. \A x : ~(Contains(f[n - 1], x) /\ Contains(s[n], x))
      <4> TAKE x
      <4> SUFFICES ASSUME Contains(f[n - 1], x), Contains(s[n], x) PROVE FALSE
        OBVIOUS
      <4>1. PICK i \in 1 .. n - 1 : Contains(s[i], x)
        BY <3>2
      <4> QED
        BY <3>1, <3>3, <4>1
    <3>5. f[n] = f[n - 1] \o s[n]
      BY <2>2, <2>4
    <3>6. /\ f[n] \in Seq(S) /\ IsInjective(f[n])
          /\ \A x : Contains(f[n], x) <=> Contains(f[n - 1], x) \/ Contains(s[n], x)
      BY <3>1, <3>2, <3>4, <3>5, ConcatDistinct
    <3>7. ASSUME NEW x, NEW i \in 1 .. n, Contains(s[i], x) PROVE Contains(f[n], x)
      <4>1. i = n \/ i \in 1 .. n - 1
        BY <1>0
      <4> QED
        BY <3>2, <3>6, <3>7, <4>1
    <3>8. ASSUME NEW x, Contains(f[n], x) PROVE \E i \in 1 .. n : Contains(s[i], x)
      <4>1. CASE Contains(f[n - 1], x)
        BY <3>2, <3>3, <4>1
      <4>2. CASE Contains(s[n], x)
        <5>1. n \in 1 .. n
          BY <1>0
        <5> QED
          BY <4>2, <5>1
      <4> QED
        BY <3>6, <3>8, <4>1, <4>2
    <3> QED
      BY <3>6, <3>7, <3>8
  <2> HIDE DEF Good
  <2>5. Bad = {}
    <3> SUFFICES ASSUME Bad # {} PROVE FALSE
      OBVIOUS
    <3>0. Bad \in SUBSET Nat
      BY <1>0
    <3>1. PICK n \in Bad : \A m \in Bad : n <= m
      BY <3>0, LeastNat
    <3>2. n \in 1 .. Len(s) /\ n # 1
      BY <2>3
    <3>3. n - 1 \in 1 .. Len(s) /\ ~(n <= n - 1)
      BY <1>0, <3>2
    <3>4. Good(n - 1)
      BY <3>1, <3>3
    <3> QED
      BY <2>4, <3>2, <3>4
  <2>6. Good(Len(s))
    BY <1>0, <1>2, <2>5
  <2> QED
    BY <1>0, <2>1, <2>6 DEF Good
<1> QED
  BY <1>1, <1>2

-----------------------------------------------------------------------------

(* A worker about to sleep holds queueMutex, so nothing is enqueued before *)
(* it does; workers leave only when the pool shuts down.                   *)
WorkersOK ==
    /\ pc \in [Worker -> WorkerPC]
    /\ \A w \in Worker : pc[w] = "blocking" => readyTasks = <<>>
    /\ \A w \in Worker : pc[w] = "exited" => stop
    /\ WorkKeepsAWorkerAwake

(* A thread about to sleep in sync(), which holds allDoneMutex, is         *)
(* notified as well as one that sleeps.                                    *)
SyncOK ==
    /\ pendingLaunches \in Int
    /\ notifyAllDone \in [Worker -> BOOLEAN]
    /\ (mainPc \in {"sync_blocking", "sync_asleep"} /\ pendingLaunches = 0) =>
          \E w \in Worker : notifyAllDone[w]

WakeInv == WorkersOK /\ SyncOK

-----------------------------------------------------------------------------

(* A worker that moves to a place where it is awake keeps WorkersOK, if    *)
(* tasks are added only while no worker is about to sleep.                 *)
LEMMA MoveAwake ==
    ASSUME WorkersOK, NEW w \in Worker, NEW to \in WorkerPC,
           to \notin {"asleep", "blocking", "exited"},
           pc' = [pc EXCEPT ![w] = to],
           readyTasks' = readyTasks \/ QueueMutexFree,
           stop' = stop
    PROVE  WorkersOK'
BY DEF WorkersOK, WorkKeepsAWorkerAwake, QueueMutexFree, WorkerPC

(* After notify_all every worker that has not left is awake, or about to   *)
(* sleep.                                                                  *)
LEMMA WokenAwake ==
    ASSUME WorkersOK, QueueMutexFree, NEW p \in [Worker -> WorkerPC],
           \A v \in Worker : p[v] = pc[v] \/ p[v] \notin {"asleep", "blocking", "exited"},
           pc' = Woken(p), stop' = stop
    PROVE  WorkersOK'
<1>1. pc' \in [Worker -> WorkerPC]
  BY DEF Woken, WorkerPC
<1>2. \A v \in Worker : pc'[v] # "blocking" /\ (pc'[v] = "exited" => stop')
  BY DEF Woken, WorkersOK, QueueMutexFree
<1>3. PICK v \in Worker : TRUE
  BY WorkerAssumption
<1>4. ~stop => pc'[v] \notin {"asleep", "blocking", "exited"}
  BY <1>2 DEF Woken
<1> QED
  BY <1>1, <1>2, <1>4 DEF WorkersOK, WorkKeepsAWorkerAwake

LEMMA EnqueueAwake ==
    ASSUME WorkersOK, QueueMutexFree, NEW p \in [Worker -> WorkerPC],
           \A v \in Worker : p[v] = pc[v] \/ p[v] \notin {"asleep", "blocking", "exited"},
           pc' = NotifyIfEmpty(p), stop' = stop
    PROVE  WorkersOK'
<1>1. CASE readyTasks = <<>>
  BY <1>1, WokenAwake DEF NotifyIfEmpty
<1>2. CASE readyTasks # <<>>
  <2>1. pc' = p
    BY <1>2 DEF NotifyIfEmpty
  <2>2. \A v \in Worker : p[v] # "blocking" /\ (p[v] = "exited" => stop)
    BY DEF WorkersOK, QueueMutexFree
  <2>3. ~stop => \E v \in Worker : p[v] \notin {"asleep", "blocking", "exited"}
    BY <1>2 DEF WorkersOK, WorkKeepsAWorkerAwake
  <2> QED
    BY <2>1, <2>2, <2>3 DEF WorkersOK, WorkKeepsAWorkerAwake
<1> QED
  BY <1>1, <1>2

-----------------------------------------------------------------------------

LEMMA WorkersStep ==
    ASSUME WorkersOK, [Next]_vars
    PROVE  WorkersOK'
<1> USE DEF WorkerPC
<1>1. ASSUME NEW w \in Worker, Step(w)
      PROVE  WorkersOK'
  <2>1. CASE TestLoop(w)
    BY <2>1 DEF TestLoop, Goto, WorkersOK, WorkKeepsAWorkerAwake
  <2>2. CASE Sleep(w)
    BY <2>2 DEF Sleep, Goto, WorkersOK, WorkKeepsAWorkerAwake
  <2>3. CASE RunTask(w)
    BY <2>3, MoveAwake DEF RunTask, Goto
  <2> QED
    BY <1>1, <2>1, <2>2, <2>3 DEF Step
<1>2. ASSUME NEW w \in Worker, LockQueue(w)
      PROVE  WorkersOK'
  <2>1. CASE BeginWait(w)
    BY <2>1 DEF BeginWait, Goto, WorkersOK, WorkKeepsAWorkerAwake
  <2>2. CASE TakeTask(w)
    BY <2>2, MoveAwake DEF TakeTask, Goto
  <2>3. CASE Leave(w, "exited")
    BY <2>3 DEF Leave, Goto, WorkersOK, WorkKeepsAWorkerAwake
  <2>4. CASE CountTask(w)
    BY <2>4, MoveAwake DEF CountTask, Goto
  <2>5. CASE CompleteGroup(w)
    <3>1. PICK to \in {"enqueue", "notify", "loop"} : pc' = [pc EXCEPT ![w] = to]
      BY <2>5 DEF CompleteGroup, Goto
    <3> QED
      BY <2>5, <3>1, MoveAwake DEF CompleteGroup, CountLaunch
  <2>6. CASE EnqueueUnlocked(w)
    <3> DEFINE p == [pc EXCEPT ![w] = IF notifyAllDone[w] THEN "notify" ELSE "loop"]
    <3>1. p \in [Worker -> WorkerPC]
      BY DEF WorkersOK
    <3>2. \A v \in Worker : p[v] = pc[v] \/ p[v] \notin {"asleep", "blocking", "exited"}
      BY DEF WorkersOK
    <3>3. pc' = NotifyIfEmpty(p) /\ QueueMutexFree /\ stop' = stop
      BY <2>6 DEF EnqueueUnlocked
    <3> QED
      BY <3>1, <3>2, <3>3, EnqueueAwake
  <2> QED
    BY <1>2, <2>1, <2>2, <2>3, <2>4, <2>5, <2>6 DEF LockQueue
<1>3. ASSUME NEW w \in Worker, NotifySync(w)
      PROVE  WorkersOK'
  BY <1>3, MoveAwake DEF NotifySync, NotifyDone, Goto
<1>4. ASSUME NEW w \in Worker, SpuriousWake(w)
      PROVE  WorkersOK'
  BY <1>4, MoveAwake DEF SpuriousWake, Goto
<1>5. CASE DestroyNotify
  BY <1>5 DEF DestroyNotify, Woken, WorkersOK, WorkKeepsAWorkerAwake
<1>6. ASSUME NEW n, NEW D, NEW to, Launch(n, D, "app", to)
      PROVE  WorkersOK'
  <2>1. QueueMutexFree /\ stop' = stop
    BY <1>6 DEF Launch, AddLaunch
  <2>2. CASE D = {}
    BY <1>6, <2>1, <2>2, EnqueueAwake DEF Launch, WorkersOK
  <2>3. CASE D # {}
    BY <1>6, <2>3 DEF Launch, AddLaunch, WorkersOK, WorkKeepsAWorkerAwake
  <2> QED
    BY <2>2, <2>3
<1>7. CASE UNCHANGED <<pc, readyTasks>> /\ (stop' = stop \/ stop')
  BY <1>7 DEF WorkersOK, WorkKeepsAWorkerAwake
<1>8. CASE RunSync \/ Sync \/ SyncReturn \/ SyncBeginWait \/ SyncSleep \/ SyncSpuriousWake
           \/ Destroy \/ Join \/ UNCHANGED vars
  BY <1>7, <1>8 DEF RunSync, Sync, SyncReturn, SyncBeginWait, SyncSleep, SyncSpuriousWake,
                    Destroy, Join, vars, poolVars
<1> QED
  BY <1>1, <1>2, <1>3, <1>4, <1>5, <1>6, <1>8
     DEF Next, MainStep, InSync, InDestructor, RunAsyncWithDeps, Run

LEMMA SyncStep ==
    ASSUME SyncOK, [Next]_vars
    PROVE  SyncOK'
<1> USE DEF SyncOK, countVars, localVars
<1>1. ASSUME NEW w \in Worker, CompleteGroup(w)
      PROVE  SyncOK'
  <2>1. /\ notifyAllDone' = [notifyAllDone EXCEPT ![w] = (pendingLaunches = 1)]
        /\ pendingLaunches' = pendingLaunches - 1
    BY <1>1 DEF CompleteGroup, CountLaunch, AllDone
  <2>2. pendingLaunches' = 0 => pendingLaunches = 1
    BY <2>1
  <2>3. notifyAllDone'[w] = (pendingLaunches = 1)
    BY <2>1, Zenon
  <2>4. pendingLaunches' \in Int
    BY <2>1
  <2>5. notifyAllDone' \in [Worker -> BOOLEAN]
    BY <2>1, Zenon
  <2> QED
    BY <2>2, <2>3, <2>4, <2>5
<1>2. ASSUME NEW w \in Worker, NotifySync(w)
      PROVE  SyncOK'
  BY <1>2 DEF NotifySync, NotifyDone, AllDoneMutexFree, countVars
<1>3. ASSUME NEW n, NEW D, NEW to \in {"app", "run"}, Launch(n, D, "app", to)
      PROVE  SyncOK'
  BY <1>3 DEF Launch, AddLaunch, MainGoto, localVars
<1>4. CASE /\ SyncBeginWait \/ SyncSleep
           /\ UNCHANGED localVars
  BY <1>4 DEF SyncBeginWait, SyncSleep, MainGoto
<1>5. CASE /\ RunSync \/ Sync \/ SyncReturn \/ SyncSpuriousWake \/ Destroy \/ DestroyNotify \/ Join
           /\ UNCHANGED localVars
  BY <1>5 DEF RunSync, Sync, SyncReturn, SyncSpuriousWake, Destroy, DestroyNotify, Join, MainGoto
<1>6. ASSUME NEW w \in Worker, EnqueueUnlocked(w)
      PROVE  SyncOK'
  BY <1>6 DEF EnqueueUnlocked
<1>7. ASSUME NEW w \in Worker, CountTask(w), UNCHANGED localVars
      PROVE  SyncOK'
  BY <1>7 DEF CountTask
<1>8. ASSUME NEW w \in Worker, UNCHANGED localVars,
             Step(w) \/ SpuriousWake(w) \/ BeginWait(w) \/ TakeTask(w) \/ Leave(w, "exited")
      PROVE  SyncOK'
  BY <1>8 DEF Step, TestLoop, Sleep, RunTask, SpuriousWake, BeginWait, TakeTask, Leave
<1>9. CASE UNCHANGED vars
  BY <1>9 DEF vars, poolVars
<1> QED
  BY <1>1, <1>2, <1>3, <1>4, <1>5, <1>6, <1>7, <1>8, <1>9
     DEF Next, LockQueue, MainStep, InSync, InDestructor, RunAsyncWithDeps, Run, Step

-----------------------------------------------------------------------------

(* The conjunction of both, in every reachable state.                      *)
THEOREM WakeInvariant == SafeSpec => []WakeInv
<1>1. Init => WakeInv
  <2> SUFFICES ASSUME Init PROVE WakeInv
    OBVIOUS
  <2>1. WorkersOK
    BY DEF Init, PoolInit, WorkersOK, WorkKeepsAWorkerAwake, WorkerPC
  <2>2. SyncOK
    BY DEF Init, PoolInit, SyncOK
  <2> QED
    BY <2>1, <2>2 DEF WakeInv
<1>2. WakeInv /\ [Next]_vars => WakeInv'
  BY WorkersStep, SyncStep DEF WakeInv
<1> QED
  BY <1>1, <1>2, PTL DEF SafeSpec

(* tasksys_new.cpp:25-29: while the open pool has a task to give, some     *)
(* worker is awake, although the workers are only notified when the queue  *)
(* was empty.                                                              *)
THEOREM GroupPoolWorkers == SafeSpec => []WorkKeepsAWorkerAwake
<1>1. WakeInv => WorkKeepsAWorkerAwake
  BY DEF WakeInv, WorkersOK
<1> QED
  BY <1>1, WakeInvariant, PTL

(* tasksys_new.cpp:77-80: while the thread in sync() sleeps and no launch  *)
(* is pending, a worker is on its way to wake it, although the count       *)
(* reaches zero under another mutex.                                       *)
THEOREM GroupPoolSync == SafeSpec => []SleepingSyncIsNotified
<1>1. WakeInv => SleepingSyncIsNotified
  BY DEF WakeInv, SyncOK, SleepingSyncIsNotified
<1> QED
  BY <1>1, WakeInvariant, PTL
-----------------------------------------------------------------------------
(* The inductive invariant of the launches and their tasks.                *)

Returned(l) == {t \in finished : t[1] = l}
Counting(l) == {w \in Worker : pc[w] = "count" /\ task[w][1] = l}

(* tasksRemaining counts a task down some time after it has returned.      *)
CountsOK ==
    \A l \in LaunchId :
        tasksRemaining[l] = numTotalTasks[l] - Cardinality(Returned(l)) + Cardinality(Counting(l))

LaunchesOK ==
    \A l \in LaunchId :
        /\ deps[l] \subseteq Launched
        /\ l \notin Launched => numTotalTasks[l] = 0 /\ deps[l] = {}
        /\ IsInjective(dependents[l])
        /\ \A c \in LaunchId : Contains(dependents[l], c) <=> l \in deps[c]

Undone(l) == {d \in deps[l] : tasksRemaining[d] > 0}

(* A launch may wait for too many completions, never for too few.          *)
DepsOK == \A l \in LaunchId : remainingDeps[l] >= Cardinality(Undone(l))

(* A task that may be, or has been, in the queue.                          *)
Released(t) ==
    /\ t[1] \in Launched
    /\ t[2] \in 0 .. numTotalTasks[t[1]] - 1
    /\ remainingDeps[t[1]] = 0
    /\ \A w \in Worker : ~Contains(toEnqueue[w], t[1])

Holding == {w \in Worker : pc[w] \in {"running", "count"}}

(* A task is in one place at a time.                                       *)
PlacesOK ==
    /\ IsInjective(readyTasks)
    /\ \A t \in LaunchId \X Nat : Contains(readyTasks, t) => Released(t) /\ t \notin finished
    /\ \A t \in finished : Released(t)
    /\ \A w \in Holding :
          /\ Released(task[w])
          /\ ~Contains(readyTasks, task[w])
          /\ task[w] \in finished <=> pc[w] = "count"
          /\ \A v \in Holding \ {w} : task[v] # task[w]

(* A launch is unlocked once, by one worker.                               *)
UnlockedOK ==
    \A w \in Worker :
        /\ IsInjective(toEnqueue[w])
        /\ \A c \in LaunchId : Contains(toEnqueue[w], c) =>
              /\ c \in Launched /\ remainingDeps[c] = 0
              /\ \A v \in Worker \ {w} : ~Contains(toEnqueue[v], c)

Pending == {l \in Launched : numTotalTasks[l] = 0 \/ tasksRemaining[l] > 0}
PendingOK == pendingLaunches = Cardinality(Pending)

WorkOK == LaunchesOK /\ CountsOK /\ DepsOK /\ PlacesOK /\ UnlockedOK /\ PendingOK

MainOK == stop <=> mainPc \in {"destroy_notify", "join", "destroyed"}

IInv == TypeOK /\ WorkOK /\ MainOK

-----------------------------------------------------------------------------

LEMMA GroupTypes ==
    ASSUME TypeOK
    PROVE  /\ nextId \in Nat /\ Launched \subseteq LaunchId
           /\ LaunchId \subseteq Nat \ {0} /\ IsFiniteSet(LaunchId)
           /\ Cardinality(LaunchId) = MaxLaunches
           /\ numTotalTasks \in [LaunchId -> Nat]
<1>1. TaskCounts \cup {0} \subseteq Nat
  BY TaskCountsAssumption
<1>2. IsFiniteSet(LaunchId) /\ Cardinality(LaunchId) = MaxLaunches
  BY MaxLaunchesAssumption, FS_Interval DEF LaunchId
<1> QED
  BY <1>1, <1>2, MaxLaunchesAssumption DEF TypeOK, PoolTypeOK, Launched, LaunchId

LEMMA CountingFinite ==
    ASSUME NEW l
    PROVE  IsFiniteSet(Counting(l)) /\ Cardinality(Counting(l)) \in Nat
BY WorkerAssumption, FS_Subset, FS_CardinalityType DEF Counting

LEMMA UndoneFinite ==
    ASSUME TypeOK, NEW l \in LaunchId
    PROVE  IsFiniteSet(Undone(l)) /\ Cardinality(Undone(l)) \in Nat
<1>1. Undone(l) \in SUBSET LaunchId
  BY DEF Undone, TypeOK, PoolTypeOK
<1> QED
  BY <1>1, GroupTypes, FS_Subset, FS_CardinalityType

LEMMA PendingFinite ==
    ASSUME TypeOK
    PROVE  IsFiniteSet(Pending) /\ Cardinality(Pending) \in 0 .. MaxLaunches
<1>1. Pending \in SUBSET LaunchId
  BY GroupTypes DEF Pending
<1> QED
  BY <1>1, GroupTypes, FS_Subset, FS_CardinalityType, MaxLaunchesAssumption

TasksIn(l) == {l} \X (0 .. numTotalTasks[l] - 1)

LEMMA TaskNumbers ==
    ASSUME NEW n \in Nat
    PROVE  IsFiniteSet(0 .. n - 1) /\ Cardinality(0 .. n - 1) = n
<1>1. 0 \in Int /\ n - 1 \in Int
  OBVIOUS
<1>2. /\ IsFiniteSet(0 .. n - 1)
      /\ Cardinality(0 .. n - 1) = IF 0 > n - 1 THEN 0 ELSE n - 1 - 0 + 1
  BY <1>1, FS_Interval, Zenon
<1> QED
  BY <1>2

LEMMA TasksInFinite ==
    ASSUME NEW l, numTotalTasks[l] \in Nat
    PROVE  IsFiniteSet(TasksIn(l)) /\ Cardinality(TasksIn(l)) = numTotalTasks[l]
<1> DEFINE n == numTotalTasks[l]
           I == 0 .. n - 1
<1>1. n \in Nat
  OBVIOUS
<1>2. IsFiniteSet(I) /\ Cardinality(I) = n
  BY <1>1, TaskNumbers
<1>3. IsFiniteSet({l}) /\ Cardinality({l}) = 1
  BY FS_Singleton
<1>4. TasksIn(l) = {l} \X I
  BY DEF TasksIn
<1> HIDE DEF I, n
<1>5. IsFiniteSet({l} \X I) /\ Cardinality({l} \X I) = n
  BY <1>1, <1>2, <1>3, FS_Product
<1> QED
  BY <1>4, <1>5 DEF n

LEMMA ReturnedBounds ==
    ASSUME TypeOK, PlacesOK, NEW l \in LaunchId
    PROVE  /\ IsFiniteSet(Returned(l)) /\ Cardinality(Returned(l)) \in 0 .. numTotalTasks[l]
           /\ Cardinality(Returned(l)) = numTotalTasks[l] => TasksIn(l) \subseteq finished
<1>1. numTotalTasks[l] \in Nat
  BY GroupTypes
<1>2. IsFiniteSet(TasksIn(l)) /\ Cardinality(TasksIn(l)) = numTotalTasks[l]
  BY <1>1, TasksInFinite
<1>3. Returned(l) \in SUBSET TasksIn(l)
  <2> SUFFICES ASSUME NEW t \in finished, t[1] = l PROVE t \in TasksIn(l)
    BY DEF Returned
  <2>1. t \in LaunchId \X Nat
    BY DEF TypeOK, PoolTypeOK
  <2>2. t[2] \in 0 .. numTotalTasks[l] - 1
    BY DEF PlacesOK, Released
  <2> QED
    BY <2>1, <2>2 DEF TasksIn
<1>4. /\ IsFiniteSet(Returned(l)) /\ Cardinality(Returned(l)) \in Nat
      /\ Cardinality(Returned(l)) <= numTotalTasks[l]
      /\ Cardinality(Returned(l)) = numTotalTasks[l] => Returned(l) = TasksIn(l)
  BY <1>2, <1>3, FS_Subset, FS_CardinalityType
<1> QED
  BY <1>1, <1>4 DEF Returned

(* A task in a worker's hands is one of a launch.                          *)
LEMMA HeldTask ==
    ASSUME TypeOK, PlacesOK, NEW w \in Holding
    PROVE  /\ w \in Worker /\ task[w] \in LaunchId \X Nat
           /\ task[w][1] \in LaunchId /\ task[w][1] \in Launched
           /\ numTotalTasks[task[w][1]] > 0
           /\ task[w] = <<task[w][1], task[w][2]>>
<1>1. w \in Worker /\ Released(task[w])
  BY DEF PlacesOK, Holding
<1>2. task[w][1] \in Launched /\ task[w][1] \in LaunchId /\ task[w][1] # 0
      /\ numTotalTasks[task[w][1]] \in Nat
      /\ task[w][2] \in 0 .. numTotalTasks[task[w][1]] - 1
  BY <1>1, GroupTypes DEF Released
<1>3. task[w] # NoTask
  BY <1>2 DEF NoTask
<1>4. task[w] \in LaunchId \X Nat
  BY <1>1, <1>3 DEF TypeOK, PoolTypeOK
<1> QED
  BY <1>1, <1>2, <1>4

(* A launch with no task remaining has seen all of them return.            *)
LEMMA NoneRemaining ==
    ASSUME IInv, NEW l \in LaunchId, ~(tasksRemaining[l] > 0)
    PROVE  TasksIn(l) \subseteq finished
<1> USE DEF IInv, WorkOK
<1>1. tasksRemaining[l] = 0
  BY DEF TypeOK, PoolTypeOK
<1>2. Cardinality(Returned(l)) = numTotalTasks[l]
  BY <1>1, CountingFinite, ReturnedBounds, GroupTypes DEF CountsOK
<1> QED
  BY <1>2, ReturnedBounds

-----------------------------------------------------------------------------
(* Steps that move no task.                                                *)

MovesNothing ==
    /\ UNCHANGED <<groupVars, countVars, dependents, readyTasks, finished, task, toEnqueue>>
    /\ \A w \in Worker : /\ pc'[w] = "running" <=> pc[w] = "running"
                         /\ pc'[w] = "count" <=> pc[w] = "count"

LEMMA WorkFrame ==
    ASSUME WorkOK, MovesNothing
    PROVE  WorkOK'
<1> USE DEF WorkOK, MovesNothing, groupVars, countVars
<1>1. Holding' = Holding /\ Launched' = Launched
  BY DEF Holding, Launched
<1>2. CountsOK'
  <2>1. \A l \in LaunchId : Counting(l)' = Counting(l) /\ Returned(l)' = Returned(l)
    BY DEF Counting, Returned
  <2> QED
    BY <2>1 DEF CountsOK
<1>3. LaunchesOK'
  BY <1>1 DEF LaunchesOK
<1>4. DepsOK'
  BY DEF DepsOK, Undone
<1>5. PlacesOK'
  BY <1>1 DEF PlacesOK, Released, Holding
<1>6. UnlockedOK'
  BY <1>1 DEF UnlockedOK
<1>7. PendingOK'
  BY <1>1 DEF PendingOK, Pending
<1> QED
  BY <1>2, <1>3, <1>4, <1>5, <1>6, <1>7

-----------------------------------------------------------------------------
(* One lemma for every step that does.                                     *)

LEMMA TakeWork ==
    ASSUME IInv, NEW w \in Worker, TakeTask(w), UNCHANGED localVars
    PROVE  WorkOK'
<1> USE DEF IInv, WorkOK
<1>1. /\ pc[w] = "lock" /\ pc' = [pc EXCEPT ![w] = "running"]
      /\ readyTasks # <<>> /\ readyTasks' = Tail(readyTasks)
      /\ task' = [task EXCEPT ![w] = Head(readyTasks)]
      /\ UNCHANGED <<nextId, numTotalTasks, deps, tasksRemaining, remainingDeps, pendingLaunches,
                     dependents, finished, toEnqueue>>
  BY DEF TakeTask, Goto, FrontPopped, groupVars, countVars, localVars
<1>2. /\ pc'[w] = "running" /\ task'[w] = Head(readyTasks)
      /\ \A v \in Worker \ {w} : pc'[v] = pc[v] /\ task'[v] = task[v]
  BY <1>1 DEF TypeOK, PoolTypeOK
<1>3. Launched' = Launched /\ Holding' = Holding \cup {w} /\ w \notin Holding
  BY <1>1, <1>2 DEF Launched, Holding
<1>4. CountsOK'
  <2>1. \A l \in LaunchId : Counting(l)' = Counting(l) /\ Returned(l)' = Returned(l)
    BY <1>1, <1>2 DEF Counting, Returned
  <2> QED
    BY <1>1, <2>1 DEF CountsOK
<1>5. LaunchesOK' /\ DepsOK' /\ UnlockedOK'
  BY <1>1, <1>3 DEF LaunchesOK, DepsOK, Undone, UnlockedOK
<1>6. PendingOK'
  BY <1>1, <1>3 DEF PendingOK, Pending
<1>7. PlacesOK'
  <2> DEFINE t == Head(readyTasks)
  <2>1. readyTasks \in Seq(LaunchId \X Nat) /\ IsInjective(readyTasks)
    BY DEF TypeOK, PoolTypeOK, PlacesOK
  <2>2. /\ t \in LaunchId \X Nat /\ Contains(readyTasks, t)
        /\ IsInjective(Tail(readyTasks))
        /\ \A x : Contains(Tail(readyTasks), x) => Contains(readyTasks, x) /\ x # t
    BY <1>1, <2>1, TailDistinct
  <2>3. \A x : Released(x)' <=> Released(x)
    BY <1>1, <1>3 DEF Released
  <2>4. Released(t) /\ t \notin finished
    BY <2>2 DEF PlacesOK
  <2>5. \A v \in Holding : task[v] # t
    BY <2>2 DEF PlacesOK
  <2> HIDE DEF t
  <2>6. task'[w] = t
    BY <1>2 DEF t
  <2>7. ASSUME NEW v \in Holding'
        PROVE  /\ Released(task'[v]) /\ ~Contains(readyTasks', task'[v])
               /\ task'[v] \in finished' <=> pc'[v] = "count"
               /\ \A u \in Holding' \ {v} : task'[u] # task'[v]
    <3>1. CASE v = w
      BY <1>1, <1>2, <1>3, <2>2, <2>3, <2>4, <2>5, <2>6, <3>1 DEF Holding
    <3>2. CASE v # w
      <4>1. v \in Holding /\ v \in Worker /\ task'[v] = task[v] /\ pc'[v] = pc[v]
        BY <1>2, <1>3, <3>2 DEF Holding
      <4>2. \A u \in Holding \ {w} : task'[u] = task[u]
        BY <1>2 DEF Holding
      <4> QED
        BY <1>1, <1>3, <2>2, <2>3, <2>5, <2>6, <4>1, <4>2 DEF PlacesOK
    <3> QED
      BY <3>1, <3>2
  <2>8. /\ IsInjective(readyTasks')
        /\ \A x \in LaunchId \X Nat :
              Contains(readyTasks', x) => Released(x)' /\ x \notin finished'
        /\ \A x \in finished' : Released(x)'
    BY <1>1, <2>2, <2>3 DEF PlacesOK
  <2>9. \A v \in Holding' : Released(task[v])'
    BY <1>1, <1>3, <2>7 DEF Released
  <2> QED
    BY <2>7, <2>8, <2>9 DEF PlacesOK
<1> QED
  BY <1>4, <1>5, <1>6, <1>7

LEMMA RunWork ==
    ASSUME IInv, NEW w \in Worker, RunTask(w), UNCHANGED localVars
    PROVE  WorkOK'
<1> USE DEF IInv, WorkOK
<1>1. /\ pc[w] = "running" /\ pc' = [pc EXCEPT ![w] = "count"]
      /\ finished' = finished \cup {task[w]}
      /\ UNCHANGED <<nextId, numTotalTasks, deps, tasksRemaining, remainingDeps, pendingLaunches,
                     dependents, readyTasks, task, toEnqueue>>
  BY DEF RunTask, Goto, groupVars, countVars, localVars
<1>2. pc'[w] = "count" /\ \A v \in Worker \ {w} : pc'[v] = pc[v]
  BY <1>1 DEF TypeOK, PoolTypeOK
<1>3. Launched' = Launched /\ Holding' = Holding /\ w \in Holding
  BY <1>1, <1>2 DEF Launched, Holding
<1>4. task[w] \notin finished /\ Released(task[w])
  BY <1>1, <1>3 DEF PlacesOK
<1>5. CountsOK'
  <2> SUFFICES ASSUME NEW l \in LaunchId
               PROVE  tasksRemaining[l] = numTotalTasks[l] - Cardinality(Returned(l)')
                                             + Cardinality(Counting(l)')
    BY <1>1 DEF CountsOK
  <2>1. CASE task[w][1] = l
    <3>1. Returned(l)' = Returned(l) \cup {task[w]} /\ task[w] \notin Returned(l)
      BY <1>1, <1>4, <2>1 DEF Returned
    <3>2. Counting(l)' = Counting(l) \cup {w} /\ w \notin Counting(l)
      BY <1>1, <1>2, <2>1 DEF Counting
    <3>3. Cardinality(Returned(l)') = Cardinality(Returned(l)) + 1
      BY <3>1, ReturnedBounds, FS_AddElement
    <3>4. Cardinality(Counting(l)') = Cardinality(Counting(l)) + 1
      BY <3>2, CountingFinite, FS_AddElement
    <3>5. Cardinality(Returned(l)) \in Nat /\ numTotalTasks[l] \in Nat
      BY ReturnedBounds, GroupTypes
    <3> QED
      BY <3>3, <3>4, <3>5, CountingFinite DEF CountsOK
  <2>2. CASE task[w][1] # l
    <3>1. Returned(l)' = Returned(l)
      BY <1>1, <2>2 DEF Returned
    <3>2. Counting(l)' = Counting(l)
      BY <1>1, <1>2, <2>2 DEF Counting
    <3> QED
      BY <3>1, <3>2 DEF CountsOK
  <2> QED
    BY <2>1, <2>2
<1>6. LaunchesOK' /\ DepsOK' /\ UnlockedOK'
  BY <1>1, <1>3 DEF LaunchesOK, DepsOK, Undone, UnlockedOK
<1>7. PendingOK'
  BY <1>1, <1>3 DEF PendingOK, Pending
<1>8. PlacesOK'
  <2>1. \A x : Released(x)' <=> Released(x)
    BY <1>1, <1>3 DEF Released
  <2>2. \A v \in Holding \ {w} : task[v] # task[w] /\ pc'[v] = pc[v]
    BY <1>2, <1>3 DEF PlacesOK, Holding
  <2> QED
    BY <1>1, <1>2, <1>3, <1>4, <2>1, <2>2 DEF PlacesOK
<1> QED
  BY <1>5, <1>6, <1>7, <1>8

(* What the two ways to count a task down have in common.                  *)
Counts(w, l) ==
    /\ pc[w] = "count" /\ pc'[w] \notin {"running", "count"}
    /\ l = task[w][1]
    /\ tasksRemaining' = [tasksRemaining EXCEPT ![l] = @ - 1]
    /\ \A v \in Worker \ {w} : pc'[v] = pc[v] /\ task'[v] = task[v]
    /\ UNCHANGED <<nextId, numTotalTasks, deps, dependents, readyTasks, finished>>

LEMMA CountsDown ==
    ASSUME IInv, NEW w \in Worker, NEW l, Counts(w, l)
    PROVE  /\ CountsOK'
           /\ w \in Holding /\ Holding' = Holding \ {w} /\ Launched' = Launched
           /\ l \in LaunchId /\ l \in Launched /\ numTotalTasks[l] > 0
           /\ tasksRemaining[l] \in Nat \ {0} /\ tasksRemaining'[l] = tasksRemaining[l] - 1
           /\ \A m \in LaunchId \ {l} : tasksRemaining'[m] = tasksRemaining[m]
<1> USE DEF IInv, WorkOK, Counts
<1>1. w \in Holding /\ Holding' = Holding \ {w} /\ Launched' = Launched
  BY DEF Holding, Launched
<1>2. l \in LaunchId /\ l \in Launched /\ numTotalTasks[l] > 0
  BY <1>1, HeldTask
<1>3. /\ tasksRemaining'[l] = tasksRemaining[l] - 1
      /\ \A m \in LaunchId \ {l} : tasksRemaining'[m] = tasksRemaining[m]
  BY <1>2 DEF TypeOK, PoolTypeOK
<1>4. Counting(l)' = Counting(l) \ {w} /\ w \in Counting(l)
  BY DEF Counting
<1>5. Cardinality(Counting(l)') = Cardinality(Counting(l)) - 1
  <2> DEFINE C == Counting(l)
  <2>1. IsFiniteSet(C) /\ Cardinality(C) \in Nat
    BY CountingFinite
  <2> HIDE DEF C
  <2>2. Cardinality(C \ {w}) = IF w \in C THEN Cardinality(C) - 1 ELSE Cardinality(C)
    BY <2>1, FS_RemoveElement
  <2> QED
    BY <1>4, <2>2 DEF C
<1>6. Counting(l) # {}
  BY <1>4
<1>7. Cardinality(Counting(l)) \in Nat \ {0}
  BY <1>6, CountingFinite, FS_EmptySet
<1>8. tasksRemaining[l] \in Nat \ {0}
  BY <1>2, <1>7, ReturnedBounds, GroupTypes DEF CountsOK
<1>9. CountsOK'
  <2>1. \A m \in LaunchId : Returned(m)' = Returned(m)
    BY DEF Returned
  <2>2. \A m \in LaunchId \ {l} : Counting(m)' = Counting(m)
    BY DEF Counting
  <2> SUFFICES ASSUME NEW m \in LaunchId
               PROVE  tasksRemaining'[m] = numTotalTasks[m] - Cardinality(Returned(m))
                                              + Cardinality(Counting(m)')
    BY <2>1 DEF CountsOK
  <2>3. CASE m = l
    BY <1>2, <1>3, <1>5, <1>7, <2>3, ReturnedBounds, GroupTypes DEF CountsOK
  <2>4. CASE m # l
    BY <1>3, <2>2, <2>4 DEF CountsOK
  <2> QED
    BY <2>3, <2>4
<1> QED
  BY <1>1, <1>2, <1>3, <1>8, <1>9

LEMMA CountTaskWork ==
    ASSUME IInv, NEW w \in Worker, CountTask(w), UNCHANGED localVars
    PROVE  WorkOK'
<1> USE DEF IInv, WorkOK
<1>0. PICK l : l = task[w][1]
  OBVIOUS
<1>1. /\ Counts(w, l) /\ tasksRemaining[l] # 1
      /\ UNCHANGED <<remainingDeps, pendingLaunches, toEnqueue>>
  BY <1>0 DEF CountTask, Counts, Goto, LastTask, groupVars, localVars, TypeOK, PoolTypeOK
<1>2. /\ CountsOK' /\ Holding' = Holding \ {w} /\ Launched' = Launched /\ l \in LaunchId
      /\ \A m \in LaunchId : tasksRemaining[m] > 0 <=> tasksRemaining'[m] > 0
  <2>1. /\ CountsOK' /\ Holding' = Holding \ {w} /\ Launched' = Launched /\ l \in LaunchId
        /\ tasksRemaining[l] \in Nat \ {0} /\ tasksRemaining'[l] = tasksRemaining[l] - 1
        /\ \A m \in LaunchId \ {l} : tasksRemaining'[m] = tasksRemaining[m]
    BY <1>1, CountsDown
  <2> QED
    BY <1>1, <2>1
<1>3. UNCHANGED <<nextId, numTotalTasks, deps, dependents, readyTasks, finished>>
      /\ \A v \in Worker \ {w} : pc'[v] = pc[v] /\ task'[v] = task[v]
  BY <1>1 DEF Counts
<1>4. LaunchesOK' /\ UnlockedOK'
  BY <1>1, <1>2, <1>3 DEF LaunchesOK, UnlockedOK
<1>5. DepsOK'
  <2>1. \A m \in LaunchId : Undone(m)' = Undone(m)
    BY <1>2, <1>3 DEF Undone, TypeOK, PoolTypeOK
  <2> QED
    BY <1>1, <2>1 DEF DepsOK
<1>6. PendingOK'
  <2>1. Pending' = Pending
    BY <1>2, <1>3, GroupTypes DEF Pending
  <2> QED
    BY <1>1, <2>1 DEF PendingOK
<1>7. PlacesOK'
  <2>1. \A x : Released(x)' <=> Released(x)
    BY <1>1, <1>2, <1>3 DEF Released
  <2>2. \A v \in Holding' : v \in Holding /\ task'[v] = task[v] /\ pc'[v] = pc[v]
    BY <1>2, <1>3 DEF Holding
  <2> QED
    BY <1>2, <1>3, <2>1, <2>2 DEF PlacesOK
<1> QED
  BY <1>2, <1>4, <1>5, <1>6, <1>7

(* What a worker unlocks waited for this launch only, once.                *)
LEMMA UnlockedLaunches ==
    ASSUME TypeOK, LaunchesOK, NEW l \in LaunchId
    PROVE  /\ Unlocked(l) \in Seq(LaunchId) /\ IsInjective(Unlocked(l))
           /\ \A c : Contains(Unlocked(l), c) =>
                 c \in LaunchId /\ l \in deps[c] /\ remainingDeps[c] = 1
           /\ \A c \in LaunchId :
                 l \in deps[c] /\ remainingDeps[c] = 1 => Contains(Unlocked(l), c)
<1> DEFINE s == dependents[l]
           u == [i \in DOMAIN s |-> IF remainingDeps[s[i]] = 1 THEN <<s[i]>> ELSE <<>>]
<1>1. Unlocked(l) = FlattenSeq(u)
  BY DEF Unlocked
<1>2. s \in Seq(LaunchId) /\ IsInjective(s)
  BY DEF TypeOK, PoolTypeOK, LaunchesOK
<1>3. Len(s) \in Nat /\ DOMAIN s = 1 .. Len(s) /\ \A i \in DOMAIN s : s[i] \in LaunchId
  BY <1>2, LenProperties, ElementOfSeq
<1>4. \A i \in DOMAIN s : Contains(s, s[i])
  BY <1>3 DEF Contains
<1>5. \A i \in DOMAIN s : l \in deps[s[i]]
  BY <1>3, <1>4 DEF LaunchesOK
<1> HIDE DEF s
<1>6. ASSUME NEW i \in DOMAIN s
      PROVE  /\ u[i] \in Seq(LaunchId) /\ IsInjective(u[i])
             /\ \A x : Contains(u[i], x) <=> x = s[i] /\ remainingDeps[s[i]] = 1
  <2>1. CASE remainingDeps[s[i]] = 1
    <3>1. u[i] = <<s[i]>> /\ u[i] \in Seq(LaunchId)
      BY <1>3, <2>1
    <3>2. Len(u[i]) = 1 /\ DOMAIN u[i] = {1} /\ u[i][1] = s[i]
      BY <3>1
    <3> HIDE DEF u
    <3> QED
      BY <2>1, <3>1, <3>2 DEF IsInjective, Contains
  <2>2. CASE remainingDeps[s[i]] # 1
    <3>1. u[i] = <<>> /\ u[i] \in Seq(LaunchId)
      BY <1>3, <2>2
    <3>2. Len(u[i]) = 0 /\ DOMAIN u[i] = {}
      BY <3>1
    <3> HIDE DEF u
    <3> QED
      BY <2>2, <3>1, <3>2 DEF IsInjective, Contains
  <2> QED
    BY <2>1, <2>2
<1>7. DOMAIN u = DOMAIN s
  OBVIOUS
<1> HIDE DEF u
<1>8. u \in Seq(Seq(LaunchId))
  <2>1. u = [i \in 1 .. Len(s) |-> u[i]]
    BY <1>3 DEF u
  <2> QED
    BY <1>3, <1>6, <2>1
<1>9. \A i, j \in DOMAIN u : i # j => \A x : ~(Contains(u[i], x) /\ Contains(u[j], x))
  BY <1>2, <1>6, <1>7 DEF IsInjective
<1>10. /\ FlattenSeq(u) \in Seq(LaunchId) /\ IsInjective(FlattenSeq(u))
       /\ \A x : Contains(FlattenSeq(u), x) <=> \E i \in DOMAIN u : Contains(u[i], x)
  BY <1>6, <1>7, <1>8, <1>9, FlattenDistinct
<1>11. ASSUME NEW c, Contains(FlattenSeq(u), c)
       PROVE  c \in LaunchId /\ l \in deps[c] /\ remainingDeps[c] = 1
  <2>1. PICK i \in DOMAIN s : Contains(u[i], c)
    BY <1>7, <1>10, <1>11
  <2>2. c = s[i] /\ remainingDeps[s[i]] = 1
    BY <1>6, <2>1
  <2>3. s[i] \in LaunchId /\ l \in deps[s[i]]
    BY <1>3, <1>5
  <2> QED
    BY <2>2, <2>3, Zenon
<1>12. ASSUME NEW c \in LaunchId, l \in deps[c], remainingDeps[c] = 1
       PROVE  Contains(FlattenSeq(u), c)
  <2>1. Contains(s, c)
    BY <1>12 DEF LaunchesOK, s
  <2>2. PICK i \in DOMAIN s : s[i] = c
    BY <1>3, <2>1 DEF Contains
  <2>3. Contains(u[i], c)
    BY <1>6, <1>12, <2>2
  <2> QED
    BY <1>7, <1>10, <2>3
<1> QED
  BY <1>1, <1>10, <1>11, <1>12

(* A launch that waits for one with a task remaining waits for something.  *)
LEMMA WaitsForUndone ==
    ASSUME IInv, NEW l \in LaunchId, NEW c \in LaunchId, l \in deps[c], tasksRemaining[l] > 0
    PROVE  Cardinality(Undone(c)) \in Nat \ {0} /\ remainingDeps[c] > 0
<1>1. Undone(c) # {}
  BY DEF Undone
<1>2. Cardinality(Undone(c)) \in Nat \ {0}
  BY <1>1, UndoneFinite, FS_EmptySet DEF IInv
<1> QED
  BY <1>2 DEF IInv, WorkOK, DepsOK, TypeOK, PoolTypeOK

LEMMA CountDownTypes ==
    ASSUME IInv, NEW l \in LaunchId, tasksRemaining[l] > 0
    PROVE  /\ CountDown(l) \in [LaunchId -> Nat]
           /\ \A c \in LaunchId :
                 CountDown(l)[c] = IF l \in deps[c] THEN remainingDeps[c] - 1 ELSE remainingDeps[c]
<1>1. \A c \in LaunchId : Contains(dependents[l], c) <=> l \in deps[c]
  BY DEF IInv, WorkOK, LaunchesOK
<1>2. \A c \in LaunchId :
         CountDown(l)[c] = IF l \in deps[c] THEN remainingDeps[c] - 1 ELSE remainingDeps[c]
  BY <1>1 DEF CountDown
<1>3. \A c \in LaunchId : remainingDeps[c] \in Nat /\ (l \in deps[c] => remainingDeps[c] > 0)
  BY WaitsForUndone DEF IInv, TypeOK, PoolTypeOK
<1>4. \A c \in LaunchId : CountDown(l)[c] \in Nat
  BY <1>2, <1>3
<1> QED
  BY <1>2, <1>4 DEF CountDown

LEMMA CompleteGroupWork ==
    ASSUME IInv, NEW w \in Worker, CompleteGroup(w)
    PROVE  WorkOK'
<1> USE DEF IInv, WorkOK
<1>0. PICK l : l = task[w][1]
  OBVIOUS
<1>1. /\ Counts(w, l) /\ tasksRemaining[l] = 1
      /\ remainingDeps' = CountDown(l)
      /\ pendingLaunches' = pendingLaunches - 1
      /\ toEnqueue' = [toEnqueue EXCEPT ![w] = Unlocked(l)]
  <2>1. \E to \in {"enqueue", "notify", "loop"} : pc' = [pc EXCEPT ![w] = to]
    BY DEF CompleteGroup, Goto
  <2> QED
    BY <1>0, <2>1 DEF CompleteGroup, CountLaunch, Counts, LastTask, groupVars, TypeOK, PoolTypeOK
<1>2. /\ CountsOK' /\ w \in Holding /\ Holding' = Holding \ {w} /\ Launched' = Launched
      /\ l \in LaunchId /\ l \in Launched /\ numTotalTasks[l] > 0 /\ tasksRemaining'[l] = 0
      /\ \A m \in LaunchId \ {l} : tasksRemaining'[m] = tasksRemaining[m]
  <2>1. /\ CountsOK' /\ w \in Holding /\ Holding' = Holding \ {w} /\ Launched' = Launched
        /\ l \in LaunchId /\ l \in Launched /\ numTotalTasks[l] > 0
        /\ tasksRemaining'[l] = tasksRemaining[l] - 1
        /\ \A m \in LaunchId \ {l} : tasksRemaining'[m] = tasksRemaining[m]
    BY <1>1, CountsDown
  <2> QED
    BY <1>1, <2>1
<1>3. UNCHANGED <<nextId, numTotalTasks, deps, dependents, readyTasks, finished>>
      /\ \A v \in Worker \ {w} : pc'[v] = pc[v] /\ task'[v] = task[v]
  BY <1>1 DEF Counts
<1>4. \A c \in LaunchId :
         remainingDeps'[c] = IF l \in deps[c] THEN remainingDeps[c] - 1 ELSE remainingDeps[c]
  BY <1>1, <1>2, CountDownTypes
<1>5. /\ toEnqueue'[w] = Unlocked(l)
      /\ \A v \in Worker \ {w} : toEnqueue'[v] = toEnqueue[v]
  BY <1>1 DEF TypeOK
<1>6. \A c \in LaunchId : remainingDeps[c] = 0 => remainingDeps'[c] = 0 /\ ~Contains(toEnqueue'[w], c)
  BY <1>1, <1>2, <1>4, <1>5, WaitsForUndone, UnlockedLaunches
<1>7. LaunchesOK'
  BY <1>2, <1>3 DEF LaunchesOK
<1>8. DepsOK'
  <2> SUFFICES ASSUME NEW c \in LaunchId
               PROVE  remainingDeps'[c] >= Cardinality(Undone(c)')
    BY DEF DepsOK
  <2>1. Undone(c)' = Undone(c) \ {l}
    BY <1>2, <1>3 DEF Undone, TypeOK, PoolTypeOK
  <2>2. remainingDeps[c] >= Cardinality(Undone(c)) /\ remainingDeps[c] \in Nat
    BY DEF DepsOK, TypeOK, PoolTypeOK
  <2>3. CASE l \in deps[c]
    <3>1. l \in Undone(c)
      BY <1>1, <2>3 DEF Undone
    <3>2. Cardinality(Undone(c)') = Cardinality(Undone(c)) - 1
      <4> DEFINE U == Undone(c)
      <4>1. IsFiniteSet(U)
        BY UndoneFinite
      <4> HIDE DEF U
      <4>2. Cardinality(U \ {l}) = IF l \in U THEN Cardinality(U) - 1 ELSE Cardinality(U)
        BY <4>1, FS_RemoveElement
      <4> QED
        BY <2>1, <3>1, <4>2 DEF U
    <3> QED
      BY <1>4, <2>2, <2>3, <3>2, UndoneFinite
  <2>4. CASE l \notin deps[c]
    <3>1. Undone(c)' = Undone(c)
      BY <2>1, <2>4 DEF Undone
    <3> QED
      BY <1>4, <2>2, <2>4, <3>1
  <2> QED
    BY <2>3, <2>4
<1>9. PlacesOK'
  <2>1. ASSUME NEW x, Released(x) PROVE Released(x)'
    <3>1. x[1] \in LaunchId /\ remainingDeps[x[1]] = 0
      BY <2>1, GroupTypes DEF Released
    <3> QED
      BY <1>2, <1>3, <1>5, <1>6, <2>1, <3>1 DEF Released
  <2>2. \A v \in Holding' : v \in Holding /\ task'[v] = task[v] /\ pc'[v] = pc[v]
    BY <1>2, <1>3 DEF Holding
  <2> QED
    BY <1>2, <1>3, <2>1, <2>2 DEF PlacesOK
<1>10. UnlockedOK'
  <2>1. /\ IsInjective(toEnqueue'[w])
        /\ \A c \in LaunchId : Contains(toEnqueue'[w], c) =>
              c \in Launched /\ remainingDeps[c] = 1 /\ remainingDeps'[c] = 0
    <3>1. \A c \in LaunchId : l \in deps[c] => c \in Launched
      BY DEF LaunchesOK
    <3> QED
      BY <1>2, <1>4, <1>5, <3>1, UnlockedLaunches
  <2>2. ASSUME NEW v \in Worker \ {w}
        PROVE  /\ IsInjective(toEnqueue'[v])
               /\ \A c \in LaunchId : Contains(toEnqueue'[v], c) =>
                     /\ c \in Launched /\ remainingDeps[c] = 0 /\ remainingDeps'[c] = 0
                     /\ \A u \in Worker \ {w, v} : ~Contains(toEnqueue'[u], c)
    BY <1>5, <1>6 DEF UnlockedOK
  <2> SUFFICES ASSUME NEW v \in Worker
               PROVE  /\ IsInjective(toEnqueue'[v])
                      /\ \A c \in LaunchId : Contains(toEnqueue'[v], c) =>
                            /\ c \in Launched' /\ remainingDeps'[c] = 0
                            /\ \A u \in Worker \ {v} : ~Contains(toEnqueue'[u], c)
    BY DEF UnlockedOK
  <2> QED
    BY <1>2, <2>1, <2>2
<1>11. PendingOK'
  <2>1. Pending' = Pending \ {l} /\ l \in Pending
    BY <1>1, <1>2, <1>3, GroupTypes DEF Pending
  <2>2. Cardinality(Pending') = Cardinality(Pending) - 1
    <3> DEFINE P == Pending
    <3>1. IsFiniteSet(P)
      BY PendingFinite
    <3> HIDE DEF P
    <3>2. Cardinality(P \ {l}) = IF l \in P THEN Cardinality(P) - 1 ELSE Cardinality(P)
      BY <3>1, FS_RemoveElement
    <3> QED
      BY <2>1, <3>2 DEF P
  <2> QED
    BY <1>1, <2>2 DEF PendingOK
<1> QED
  BY <1>2, <1>7, <1>8, <1>9, <1>10, <1>11

(* The tasks of a launch, in the queue's order.                            *)
LEMMA TasksOfLaunch ==
    ASSUME NEW l \in LaunchId, NEW n \in Nat
    PROVE  /\ TasksOf(l, n) \in Seq(LaunchId \X Nat) /\ IsInjective(TasksOf(l, n))
           /\ \A t : Contains(TasksOf(l, n), t) => t \in LaunchId \X Nat /\ t[1] = l /\ t[2] \in 0 .. n - 1
           /\ \A i \in 0 .. n - 1 : Contains(TasksOf(l, n), <<l, i>>)
<1> DEFINE s == TasksOf(l, n)
<1>1. s = [i \in 1 .. n |-> <<l, i - 1>>]
  BY DEF TasksOf
<1>2. \A i \in 1 .. n : i - 1 \in Nat /\ i - 1 \in 0 .. n - 1
  OBVIOUS
<1>3. s \in Seq(LaunchId \X Nat)
  BY <1>1, <1>2
<1>4. Len(s) = n /\ DOMAIN s = 1 .. n
  BY <1>1
<1>5. \A i \in 1 .. n : s[i] = <<l, i - 1>>
  BY <1>1
<1> HIDE DEF s
<1>6. IsInjective(s)
  BY <1>4, <1>5 DEF IsInjective
<1>7. ASSUME NEW t, Contains(s, t)
      PROVE  t \in LaunchId \X Nat /\ t[1] = l /\ t[2] \in 0 .. n - 1
  <2>1. PICK i \in 1 .. n : s[i] = t
    BY <1>4, <1>7 DEF Contains
  <2>2. t = <<l, i - 1>> /\ i - 1 \in Nat /\ i - 1 \in 0 .. n - 1
    BY <1>2, <1>5, <2>1
  <2> QED
    BY <2>2
<1>8. ASSUME NEW i \in 0 .. n - 1
      PROVE  Contains(s, <<l, i>>)
  <2>1. i + 1 \in 1 .. n /\ s[i + 1] = <<l, i + 1 - 1>> /\ i + 1 - 1 = i
    BY <1>5
  <2> QED
    BY <1>4, <2>1 DEF Contains
<1> QED
  BY <1>3, <1>6, <1>7, <1>8 DEF s

(* Appending tasks that were nowhere yet.                                  *)
LEMMA EnqueueDistinct ==
    ASSUME IInv, NEW q \in Seq(LaunchId \X Nat), IsInjective(q),
           \A t \in LaunchId \X Nat : Contains(q, t) => ~Released(t)
    PROVE  /\ readyTasks \o q \in Seq(LaunchId \X Nat) /\ IsInjective(readyTasks \o q)
           /\ \A t : Contains(readyTasks \o q, t) <=> Contains(readyTasks, t) \/ Contains(q, t)
<1>1. readyTasks \in Seq(LaunchId \X Nat) /\ IsInjective(readyTasks)
  BY DEF IInv, WorkOK, TypeOK, PoolTypeOK, PlacesOK
<1>2. \A x : ~(Contains(readyTasks, x) /\ Contains(q, x))
  <2> SUFFICES ASSUME NEW x, Contains(readyTasks, x), Contains(q, x) PROVE FALSE
    OBVIOUS
  <2>1. x \in LaunchId \X Nat
    <3>1. PICK i \in 1 .. Len(q) : q[i] = x
      BY DEF Contains
    <3> QED
      BY <3>1, ElementOfSeq
  <2> QED
    BY <2>1 DEF IInv, WorkOK, PlacesOK
<1> QED
  BY <1>1, <1>2, ConcatDistinct

(* The places after it.                                                    *)
LEMMA EnqueuePlaces ==
    ASSUME IInv, NEW q \in Seq(LaunchId \X Nat), IsInjective(q),
           \A t \in LaunchId \X Nat : Contains(q, t) => ~Released(t) /\ Released(t)',
           \A t \in LaunchId \X Nat : Released(t) => Released(t)',
           readyTasks' = readyTasks \o q, finished' = finished, task' = task,
           \A v \in Worker : /\ pc'[v] = "running" <=> pc[v] = "running"
                             /\ pc'[v] = "count" <=> pc[v] = "count"
    PROVE  PlacesOK'
<1> USE DEF IInv, WorkOK
<1>1. /\ IsInjective(readyTasks')
      /\ \A t : Contains(readyTasks', t) <=> Contains(readyTasks, t) \/ Contains(q, t)
  BY EnqueueDistinct
<1>2. Holding' = Holding
  BY DEF Holding
<1>3. \A t \in finished : t \in LaunchId \X Nat /\ Released(t)
  BY DEF TypeOK, PoolTypeOK, PlacesOK
<1>4. \A v \in Holding : task[v] \in LaunchId \X Nat /\ Released(task[v])
  BY HeldTask DEF PlacesOK
<1>5. \A v \in Holding : Released(task[v])'
  <2> TAKE v \in Holding
  <2>1. PICK t \in LaunchId \X Nat : t = task[v]
    BY <1>4
  <2>2. Released(t)'
    BY <1>4, <2>1
  <2> QED
    BY <2>1, <2>2 DEF Released
<1>6. \A t \in LaunchId \X Nat : Contains(readyTasks', t) => Released(t)' /\ t \notin finished
  BY <1>1, <1>3 DEF PlacesOK
<1>7. \A v \in Holding : ~Contains(readyTasks', task[v])
  BY <1>1, <1>4 DEF PlacesOK
<1>8. \A v \in Holding : pc'[v] = "count" <=> pc[v] = "count"
  BY DEF Holding
<1> QED
  BY <1>1, <1>2, <1>3, <1>5, <1>6, <1>7, <1>8 DEF PlacesOK

(* What a worker that has unlocked launches appends to the queue: their    *)
(* tasks, and nothing else.                                                *)
TasksToEnqueue(w) ==
    LET g == toEnqueue[w] IN
    FlattenSeq([i \in DOMAIN g |-> TasksOf(g[i], numTotalTasks[g[i]])])

LEMMA EnqueuedTasks ==
    ASSUME IInv, NEW w \in Worker
    PROVE  LET q == TasksToEnqueue(w) IN
           /\ q \in Seq(LaunchId \X Nat) /\ IsInjective(q)
           /\ \A t : Contains(q, t) =>
                 t[1] \in LaunchId /\ Contains(toEnqueue[w], t[1]) /\ t[2] \in 0 .. numTotalTasks[t[1]] - 1
           /\ \A l \in LaunchId : Contains(toEnqueue[w], l) =>
                 \A k \in 0 .. numTotalTasks[l] - 1 : Contains(q, <<l, k>>)
<1> USE DEF IInv, WorkOK
<1> DEFINE g == toEnqueue[w]
           ts == [i \in DOMAIN g |-> TasksOf(g[i], numTotalTasks[g[i]])]
           q == FlattenSeq(ts)
<1>1. TasksToEnqueue(w) = q
  BY DEF TasksToEnqueue
<1>2. g \in Seq(LaunchId) /\ IsInjective(g)
  BY DEF TypeOK, UnlockedOK
<1>3. Len(g) \in Nat /\ DOMAIN g = 1 .. Len(g) /\ \A i \in DOMAIN g : g[i] \in LaunchId
  BY <1>2, LenProperties, ElementOfSeq
<1>4. \A i \in DOMAIN g : Contains(g, g[i])
  BY <1>3 DEF Contains
<1> HIDE DEF g
<1>5. ASSUME NEW i \in DOMAIN g
      PROVE  /\ ts[i] \in Seq(LaunchId \X Nat) /\ IsInjective(ts[i])
             /\ \A t : Contains(ts[i], t) =>
                   t \in LaunchId \X Nat /\ t[1] = g[i] /\ t[2] \in 0 .. numTotalTasks[g[i]] - 1
             /\ \A k \in 0 .. numTotalTasks[g[i]] - 1 : Contains(ts[i], <<g[i], k>>)
  BY <1>3, TasksOfLaunch, GroupTypes
<1>6. DOMAIN ts = DOMAIN g /\ ts = [i \in 1 .. Len(g) |-> ts[i]]
  BY <1>3
<1> HIDE DEF ts
<1>7. ts \in Seq(Seq(LaunchId \X Nat))
  BY <1>3, <1>5, <1>6
<1>8. \A i, j \in DOMAIN ts : i # j => \A x : ~(Contains(ts[i], x) /\ Contains(ts[j], x))
  <2> SUFFICES ASSUME NEW i \in DOMAIN g, NEW j \in DOMAIN g, NEW x,
                      Contains(ts[i], x), Contains(ts[j], x)
               PROVE  i = j
    BY <1>6
  <2>1. x[1] = g[i] /\ x[1] = g[j]
    BY <1>5
  <2> QED
    BY <1>2, <2>1 DEF IsInjective
<1>9. /\ q \in Seq(LaunchId \X Nat) /\ IsInjective(q)
      /\ \A x : Contains(q, x) <=> \E i \in DOMAIN ts : Contains(ts[i], x)
  BY <1>5, <1>6, <1>7, <1>8, FlattenDistinct
<1> HIDE DEF q
<1>10. ASSUME NEW t, Contains(q, t)
       PROVE  t[1] \in LaunchId /\ Contains(g, t[1]) /\ t[2] \in 0 .. numTotalTasks[t[1]] - 1
  <2>1. PICK i \in DOMAIN g : Contains(ts[i], t)
    BY <1>6, <1>9, <1>10
  <2>2. t[1] = g[i] /\ t[2] \in 0 .. numTotalTasks[g[i]] - 1
    BY <1>5, <2>1
  <2> QED
    BY <1>3, <1>4, <2>2
<1>11. ASSUME NEW l \in LaunchId, Contains(g, l), NEW k \in 0 .. numTotalTasks[l] - 1
       PROVE  Contains(q, <<l, k>>)
  <2>1. PICK i \in DOMAIN g : g[i] = l
    BY <1>3, <1>11 DEF Contains
  <2>2. Contains(ts[i], <<l, k>>)
    BY <1>5, <2>1
  <2> QED
    BY <1>6, <1>9, <2>1, <2>2
<1> QED
  BY <1>1, <1>9, <1>10, <1>11 DEF g

LEMMA EnqueueWork ==
    ASSUME IInv, NEW w \in Worker, EnqueueUnlocked(w)
    PROVE  WorkOK' /\ readyTasks' \in Seq(LaunchId \X Nat)
<1> USE DEF IInv, WorkOK
<1> DEFINE q == TasksToEnqueue(w)
<1>1. /\ readyTasks' = readyTasks \o q
      /\ toEnqueue' = [toEnqueue EXCEPT ![w] = <<>>]
      /\ UNCHANGED <<nextId, numTotalTasks, deps, tasksRemaining, remainingDeps, pendingLaunches,
                     dependents, finished, task>>
  BY DEF EnqueueUnlocked, groupVars, countVars, TasksToEnqueue
<1>2. \A v \in Worker : /\ pc'[v] = "running" <=> pc[v] = "running"
                        /\ pc'[v] = "count" <=> pc[v] = "count"
  <2> DEFINE p == [pc EXCEPT ![w] = IF notifyAllDone[w] THEN "notify" ELSE "loop"]
  <2>1. pc[w] = "enqueue" /\ pc' = NotifyIfEmpty(p)
    BY DEF EnqueueUnlocked
  <2>2. \A v \in Worker : /\ p[v] = "running" <=> pc[v] = "running"
                          /\ p[v] = "count" <=> pc[v] = "count"
    BY <2>1 DEF TypeOK, PoolTypeOK
  <2> HIDE DEF p
  <2> QED
    BY <2>1, <2>2 DEF NotifyIfEmpty, Woken
<1>3. /\ q \in Seq(LaunchId \X Nat) /\ IsInjective(q)
      /\ \A t : Contains(q, t) =>
            t[1] \in LaunchId /\ Contains(toEnqueue[w], t[1]) /\ t[2] \in 0 .. numTotalTasks[t[1]] - 1
  BY EnqueuedTasks
<1> HIDE DEF q
<1>4. /\ toEnqueue'[w] = <<>>
      /\ \A v \in Worker \ {w} : toEnqueue'[v] = toEnqueue[v]
      /\ \A c : ~Contains(toEnqueue'[w], c)
  <2>1. \A c : ~Contains(<<>>, c)
    BY DEF Contains
  <2> QED
    BY <1>1, <2>1 DEF TypeOK
<1>5. Launched' = Launched /\ numTotalTasks' = numTotalTasks /\ remainingDeps' = remainingDeps
  BY <1>1 DEF Launched
<1>6. ASSUME NEW t, Released(t) PROVE Released(t)'
  <2>1. \A v \in Worker : ~Contains(toEnqueue'[v], t[1])
    BY <1>4, <1>6 DEF Released
  <2> QED
    BY <1>5, <1>6, <2>1 DEF Released
<1>7. ASSUME NEW t \in LaunchId \X Nat, Contains(q, t)
       PROVE  ~Released(t) /\ Released(t)'
  <2>1. t[1] \in LaunchId /\ Contains(toEnqueue[w], t[1]) /\ t[2] \in 0 .. numTotalTasks[t[1]] - 1
    BY <1>3, <1>7
  <2>2. /\ t[1] \in Launched /\ remainingDeps[t[1]] = 0
        /\ \A v \in Worker \ {w} : ~Contains(toEnqueue[v], t[1])
    BY <2>1 DEF UnlockedOK
  <2>3. \A v \in Worker : ~Contains(toEnqueue'[v], t[1])
    BY <1>4, <2>2
  <2> QED
    BY <1>5, <2>1, <2>2, <2>3 DEF Released
<1>8. PlacesOK'
  BY <1>1, <1>2, <1>3, <1>6, <1>7, EnqueuePlaces
<1>9. CountsOK'
  <2>1. \A l \in LaunchId : Counting(l)' = Counting(l) /\ Returned(l)' = Returned(l)
    BY <1>1, <1>2 DEF Counting, Returned
  <2> QED
    BY <1>1, <2>1 DEF CountsOK
<1>10. LaunchesOK' /\ DepsOK' /\ PendingOK'
  BY <1>1, <1>5 DEF LaunchesOK, DepsOK, Undone, PendingOK, Pending
<1>11. UnlockedOK'
  <2>1. IsInjective(toEnqueue'[w])
    BY <1>4 DEF IsInjective
  <2>2. \A v \in Worker : IsInjective(toEnqueue'[v])
    BY <1>4, <2>1 DEF UnlockedOK
  <2>3. ASSUME NEW v \in Worker, NEW c \in LaunchId, Contains(toEnqueue'[v], c)
        PROVE  v # w /\ Contains(toEnqueue[v], c)
    BY <1>4, <2>3
  <2>4. ASSUME NEW v \in Worker, NEW c \in LaunchId, Contains(toEnqueue'[v], c)
        PROVE  /\ c \in Launched /\ remainingDeps[c] = 0
               /\ \A u \in Worker \ {v} : ~Contains(toEnqueue'[u], c)
    BY <2>3, <2>4 DEF UnlockedOK
  <2> QED
    BY <1>5, <2>2, <2>4 DEF UnlockedOK
<1>12. readyTasks' \in Seq(LaunchId \X Nat)
  BY <1>1, <1>3, <1>7, EnqueueDistinct
<1> QED
  BY <1>8, <1>9, <1>10, <1>11, <1>12

LEMMA LaunchWork ==
    ASSUME IInv, NEW n \in TaskCounts, NEW D \in SUBSET Launched, NEW to,
           Launch(n, D, "app", to)
    PROVE  /\ WorkOK' /\ readyTasks' \in Seq(LaunchId \X Nat)
           /\ dependents' \in [LaunchId -> Seq(LaunchId)]
           /\ remainingDeps' \in [LaunchId -> Nat]
<1> USE DEF IInv, WorkOK
<1>0. PICK id : id = nextId
  OBVIOUS
<1>1. /\ id <= MaxLaunches /\ nextId' = id + 1
      /\ numTotalTasks' = [numTotalTasks EXCEPT ![id] = n]
      /\ deps' = [deps EXCEPT ![id] = D]
      /\ tasksRemaining' = [tasksRemaining EXCEPT ![id] = n]
      /\ remainingDeps' = [remainingDeps EXCEPT ![id] = Cardinality(D)]
      /\ pendingLaunches' = pendingLaunches + 1
      /\ dependents' = [d \in LaunchId |-> IF d \in D THEN Append(dependents[d], id)
                                                      ELSE dependents[d]]
      /\ readyTasks' = IF D = {} THEN readyTasks \o TasksOf(id, n) ELSE readyTasks
      /\ finished' = finished /\ task' = task /\ toEnqueue' = toEnqueue
  BY <1>0 DEF Launch, AddLaunch, localVars
<1>2. \A v \in Worker : /\ pc'[v] = "running" <=> pc[v] = "running"
                        /\ pc'[v] = "count" <=> pc[v] = "count"
  BY DEF Launch, NotifyIfEmpty, Woken, TypeOK, PoolTypeOK
<1>3. id \in LaunchId /\ id \notin Launched /\ Launched' = Launched \cup {id} /\ n \in Nat
  <2>1. id \in Nat /\ id >= 1 /\ n \in Nat
    BY <1>0, MaxLaunchesAssumption, TaskCountsAssumption DEF TypeOK, PoolTypeOK
  <2>2. Launched = 1 .. id - 1 /\ Launched' = 1 .. id
    BY <1>0, <1>1, <2>1 DEF Launched
  <2> QED
    BY <1>1, <2>1, <2>2, MaxLaunchesAssumption DEF LaunchId
<1>4. /\ numTotalTasks'[id] = n /\ deps'[id] = D /\ tasksRemaining'[id] = n
      /\ remainingDeps'[id] = Cardinality(D)
      /\ \A l \in LaunchId \ {id} :
            /\ numTotalTasks'[l] = numTotalTasks[l] /\ deps'[l] = deps[l]
            /\ tasksRemaining'[l] = tasksRemaining[l] /\ remainingDeps'[l] = remainingDeps[l]
  BY <1>1, <1>3 DEF TypeOK, PoolTypeOK
<1>5. D \subseteq LaunchId /\ Launched \subseteq LaunchId \ {id}
  BY <1>3, GroupTypes
<1>6. IsFiniteSet(D) /\ Cardinality(D) \in Nat
  BY <1>5, GroupTypes, FS_Subset, FS_CardinalityType
<1>7. \A l \in LaunchId : id \notin deps[l] /\ deps[id] = {} /\ numTotalTasks[id] = 0
  BY <1>3 DEF LaunchesOK
<1>8. ASSUME NEW l \in LaunchId
      PROVE  /\ dependents'[l] \in Seq(LaunchId) /\ IsInjective(dependents'[l])
             /\ \A c \in LaunchId : Contains(dependents'[l], c) <=> l \in deps'[c]
  <2>1. dependents[l] \in Seq(LaunchId) /\ IsInjective(dependents[l])
        /\ ~Contains(dependents[l], id)
    BY <1>3, <1>7 DEF TypeOK, PoolTypeOK, LaunchesOK
  <2>2. CASE l \in D
    <3>1. dependents'[l] = Append(dependents[l], id)
      BY <1>1, <2>2
    <3>2. /\ Append(dependents[l], id) \in Seq(LaunchId) /\ IsInjective(Append(dependents[l], id))
          /\ \A c : Contains(Append(dependents[l], id), c) <=> Contains(dependents[l], c) \/ c = id
      BY <1>3, <2>1, AppendDistinct
    <3> QED
      BY <1>3, <1>4, <2>2, <3>1, <3>2 DEF LaunchesOK
  <2>3. CASE l \notin D
    <3>1. dependents'[l] = dependents[l]
      BY <1>1, <2>3
    <3> QED
      BY <1>3, <1>4, <2>1, <2>3, <3>1 DEF LaunchesOK
  <2> QED
    BY <2>2, <2>3
<1>9. LaunchesOK'
  BY <1>3, <1>4, <1>8 DEF LaunchesOK
<1>10. \A t \in finished : t[1] # id
  BY <1>3 DEF PlacesOK, Released
<1>11. \A v \in Holding : task[v][1] # id
  BY <1>3, HeldTask
<1>12. CountsOK'
  <2>1. \A l \in LaunchId : Counting(l)' = Counting(l) /\ Returned(l)' = Returned(l)
    BY <1>1, <1>2 DEF Counting, Returned
  <2>2. Counting(id) = {} /\ Returned(id) = {}
    BY <1>10, <1>11 DEF Counting, Returned, Holding
  <2>3. Cardinality(Counting(id)) = 0 /\ Cardinality(Returned(id)) = 0
    BY <2>2, FS_EmptySet
  <2> SUFFICES ASSUME NEW l \in LaunchId
               PROVE  tasksRemaining'[l] = numTotalTasks'[l] - Cardinality(Returned(l))
                                              + Cardinality(Counting(l))
    BY <2>1 DEF CountsOK
  <2>4. CASE l = id
    BY <1>3, <1>4, <2>3, <2>4
  <2>5. CASE l # id
    BY <1>4, <2>5 DEF CountsOK
  <2> QED
    BY <2>4, <2>5
<1>13. DepsOK'
  <2>1. Undone(id)' \in SUBSET D
    BY <1>4 DEF Undone
  <2>2. Cardinality(Undone(id)') <= Cardinality(D)
    BY <1>6, <2>1, FS_Subset
  <2>3. ASSUME NEW l \in LaunchId \ {id}
        PROVE  Undone(l)' = Undone(l)
    <3>1. deps[l] \subseteq LaunchId \ {id}
      BY <1>5 DEF LaunchesOK
    <3> QED
      BY <1>4, <3>1 DEF Undone
  <2>4. remainingDeps'[id] >= Cardinality(Undone(id)')
    BY <1>4, <2>2, <1>6, <2>1, FS_Subset, FS_CardinalityType
  <2>5. \A l \in LaunchId \ {id} : remainingDeps'[l] >= Cardinality(Undone(l)')
    BY <1>4, <2>3 DEF DepsOK
  <2> QED
    BY <2>4, <2>5 DEF DepsOK
<1>14. PendingOK'
  <2>1. Pending' = Pending \cup {id} /\ id \notin Pending
    BY <1>3, <1>4, <1>5 DEF Pending
  <2>2. Cardinality(Pending') = Cardinality(Pending) + 1
    BY <2>1, PendingFinite, FS_AddElement
  <2> QED
    BY <1>1, <2>2 DEF PendingOK
<1>15. \A v \in Worker : \A c \in LaunchId : Contains(toEnqueue[v], c) => c # id
  BY <1>3 DEF UnlockedOK
<1>16. UnlockedOK'
  BY <1>1, <1>3, <1>4, <1>15 DEF UnlockedOK
<1>17. ASSUME NEW t, Released(t) PROVE Released(t)'
  <2>1. t[1] \in LaunchId \ {id}
    BY <1>5, <1>17 DEF Released
  <2> QED
    BY <1>1, <1>3, <1>4, <1>17, <2>1 DEF Released
<1>18. PICK q \in Seq(LaunchId \X Nat) :
          /\ readyTasks' = readyTasks \o q /\ IsInjective(q)
          /\ \A t : Contains(q, t) => t[1] = id /\ t[2] \in 0 .. n - 1 /\ D = {}
  <2>1. CASE D = {}
    BY <1>1, <1>3, <2>1, TasksOfLaunch
  <2>2. CASE D # {}
    <3>1. <<>> \in Seq(LaunchId \X Nat) /\ IsInjective(<<>>) /\ \A t : ~Contains(<<>>, t)
      BY DEF IsInjective, Contains
    <3>2. readyTasks' = readyTasks \o <<>>
      BY <1>1, <2>2, ConcatEmptySeq DEF TypeOK, PoolTypeOK
    <3> QED
      BY <3>1, <3>2
  <2> QED
    BY <2>1, <2>2
<1>19. ASSUME NEW t \in LaunchId \X Nat, Contains(q, t)
       PROVE  ~Released(t) /\ Released(t)'
  <2>1. t[1] = id /\ t[2] \in 0 .. n - 1 /\ D = {}
    BY <1>18, <1>19
  <2>2. remainingDeps'[id] = 0
    BY <1>4, <2>1, FS_EmptySet
  <2> QED
    BY <1>1, <1>3, <1>4, <1>15, <2>1, <2>2 DEF Released
<1>20. PlacesOK' /\ readyTasks' \in Seq(LaunchId \X Nat)
  BY <1>1, <1>2, <1>17, <1>18, <1>19, EnqueuePlaces, EnqueueDistinct
<1>21. dependents' \in [LaunchId -> Seq(LaunchId)] /\ remainingDeps' \in [LaunchId -> Nat]
  BY <1>1, <1>3, <1>6, <1>8 DEF TypeOK, PoolTypeOK
<1> QED
  BY <1>9, <1>12, <1>13, <1>14, <1>16, <1>20, <1>21

LEMMA WorkStep ==
    ASSUME IInv, [Next]_vars
    PROVE  WorkOK'
<1> USE DEF IInv
<1>1. ASSUME NEW w \in Worker, Step(w)
      PROVE  WorkOK'
  <2>1. CASE TestLoop(w) \/ Sleep(w)
    <3>1. MovesNothing
      BY <1>1, <2>1 DEF Step, TestLoop, Sleep, Goto, MovesNothing, localVars, TypeOK, PoolTypeOK
    <3> QED
      BY <3>1, WorkFrame
  <2>2. CASE RunTask(w)
    BY <1>1, <2>2, RunWork DEF Step
  <2> QED
    BY <1>1, <2>1, <2>2 DEF Step
<1>2. ASSUME NEW w \in Worker, LockQueue(w)
      PROVE  WorkOK'
  <2>1. CASE (BeginWait(w) \/ Leave(w, "exited")) /\ UNCHANGED localVars
    <3>1. MovesNothing
      BY <2>1 DEF BeginWait, Leave, Goto, MovesNothing, localVars, TypeOK, PoolTypeOK
    <3> QED
      BY <3>1, WorkFrame
  <2> QED
    BY <1>2, <2>1, TakeWork, CountTaskWork, CompleteGroupWork, EnqueueWork DEF LockQueue
<1>3. ASSUME NEW w \in Worker, NotifySync(w) \/ (SpuriousWake(w) /\ UNCHANGED localVars)
      PROVE  WorkOK'
  <2>1. MovesNothing
    BY <1>3 DEF NotifySync, NotifyDone, SpuriousWake, Goto, MovesNothing, localVars, TypeOK, PoolTypeOK
  <2> QED
    BY <2>1, WorkFrame
<1>4. CASE MainStep \/ ((Sync \/ SyncSpuriousWake \/ Destroy) /\ UNCHANGED localVars)
  <2>1. MovesNothing
    BY <1>4 DEF MainStep, InSync, InDestructor, RunSync, SyncReturn, SyncBeginWait, SyncSleep,
                DestroyNotify, Join, Sync, SyncSpuriousWake, Destroy, Woken, MovesNothing,
                localVars, TypeOK, PoolTypeOK
  <2> QED
    BY <2>1, WorkFrame
<1>5. ASSUME NEW n \in TaskCounts, Run(n) \/ \E D \in SUBSET Launched : RunAsyncWithDeps(n, D)
      PROVE  WorkOK'
  BY <1>5, LaunchWork DEF Run, RunAsyncWithDeps
<1>6. CASE UNCHANGED vars
  <2>1. MovesNothing
    BY <1>6 DEF vars, poolVars, localVars, MovesNothing
  <2> QED
    BY <2>1, WorkFrame
<1> QED
  BY <1>1, <1>2, <1>3, <1>4, <1>5, <1>6 DEF Next

LEMMA MainStepOK ==
    ASSUME MainOK, [Next]_vars
    PROVE  MainOK'
<1>1. ASSUME NEW w \in Worker, Step(w) \/ LockQueue(w) \/ NotifySync(w) \/ SpuriousWake(w)
      PROVE  MainOK'
  BY <1>1 DEF Step, TestLoop, Sleep, RunTask, LockQueue, BeginWait, TakeTask, Leave, CountTask,
              CompleteGroup, CountLaunch, EnqueueUnlocked, NotifySync, NotifyDone, SpuriousWake,
              MainOK
<1>2. CASE MainStep \/ Sync \/ SyncSpuriousWake \/ Destroy
  BY <1>2 DEF MainStep, InSync, InDestructor, RunSync, SyncReturn, SyncBeginWait, SyncSleep,
              DestroyNotify, Join, Sync, SyncSpuriousWake, Destroy, MainGoto, MainOK
<1>3. ASSUME NEW n, NEW D, NEW to \in {"app", "run"}, Launch(n, D, "app", to)
      PROVE  MainOK'
  BY <1>3 DEF Launch, AddLaunch, MainGoto, MainOK
<1>4. CASE UNCHANGED vars
  BY <1>4 DEF vars, poolVars, MainOK
<1> QED
  BY <1>1, <1>2, <1>3, <1>4 DEF Next, Run, RunAsyncWithDeps

-----------------------------------------------------------------------------

(* The types of what the steps of the queue do not touch.                  *)
LEMMA TypeFrame ==
    ASSUME TypeOK, UNCHANGED <<groupVars, countVars, dependents, readyTasks, finished, task>>,
           UNCHANGED toEnqueue, stop' \in BOOLEAN, pc' \in [Worker -> WorkerPC],
           notifyAllDone' \in [Worker -> BOOLEAN],
           mainPc' \in {"app", "run", "sync", "sync_blocking", "sync_asleep", "destroy_notify",
                        "join", "destroyed"}
    PROVE  TypeOK'
BY DEF TypeOK, PoolTypeOK, groupVars, countVars

NextIdInRange == nextId \in 1 .. MaxLaunches + 1
PendingInRange == pendingLaunches \in 0 .. MaxLaunches

LEMMA PendingRange == PendingOK /\ NextIdInRange => PendingInRange
<1> SUFFICES ASSUME PendingOK, NextIdInRange PROVE PendingInRange
  OBVIOUS
<1> USE DEF NextIdInRange, PendingInRange
<1>1. Pending \in SUBSET LaunchId
  BY MaxLaunchesAssumption DEF Pending, Launched, LaunchId
<1>2. IsFiniteSet(LaunchId) /\ Cardinality(LaunchId) = MaxLaunches
  BY MaxLaunchesAssumption, FS_Interval DEF LaunchId
<1> QED
  BY <1>1, <1>2, FS_Subset, FS_CardinalityType, MaxLaunchesAssumption DEF PendingOK

LEMMA TypeStep ==
    ASSUME IInv, [Next]_vars
    PROVE  TypeOK'
<1> USE DEF IInv
<1>0. PendingOK' /\ (nextId' \in 1 .. MaxLaunches + 1 => pendingLaunches' \in 0 .. MaxLaunches)
  <2>1. PendingOK' /\ NextIdInRange' => PendingInRange'
    BY PendingRange, PTL
  <2>2. PendingOK'
    BY WorkStep DEF WorkOK
  <2> QED
    BY <2>1, <2>2 DEF NextIdInRange, PendingInRange
<1>1. ASSUME NEW w \in Worker, Step(w)
      PROVE  TypeOK'
  <2>1. CASE TestLoop(w) \/ Sleep(w)
    BY <1>1, <2>1 DEF Step, TestLoop, Sleep, Goto, groupVars, countVars, localVars, TypeOK,
                      PoolTypeOK, WorkerPC
  <2>2. CASE RunTask(w)
    <3>1. /\ pc' = [pc EXCEPT ![w] = "count"] /\ finished' = finished \cup {task[w]}
          /\ UNCHANGED <<groupVars, countVars, dependents, readyTasks, stop, task, mainPc, localVars>>
      BY <1>1, <2>2 DEF Step, RunTask, Goto
    <3>2. task[w] \in LaunchId \X Nat
      BY <2>2, HeldTask DEF RunTask, Goto, Holding, WorkOK
    <3> QED
      BY <3>1, <3>2 DEF groupVars, countVars, localVars, TypeOK, PoolTypeOK, WorkerPC
  <2> QED
    BY <1>1, <2>1, <2>2 DEF Step
<1>2. ASSUME NEW w \in Worker, LockQueue(w)
      PROVE  TypeOK'
  <2>1. CASE (BeginWait(w) \/ Leave(w, "exited")) /\ UNCHANGED localVars
    BY <2>1 DEF BeginWait, Leave, Goto, groupVars, countVars, localVars, TypeOK, PoolTypeOK, WorkerPC
  <2>2. CASE TakeTask(w) /\ UNCHANGED localVars
    <3>1. Head(readyTasks) \in LaunchId \X Nat /\ Tail(readyTasks) \in Seq(LaunchId \X Nat)
      BY <2>2, HeadTailProperties DEF TakeTask, TypeOK, PoolTypeOK
    <3>2. /\ pc' = [pc EXCEPT ![w] = "running"] /\ task' = [task EXCEPT ![w] = Head(readyTasks)]
          /\ readyTasks' = Tail(readyTasks)
          /\ UNCHANGED <<groupVars, countVars, dependents, stop, finished, mainPc, localVars>>
      BY <2>2 DEF TakeTask, Goto, FrontPopped
    <3> QED
      BY <3>1, <3>2 DEF groupVars, countVars, localVars, TypeOK, PoolTypeOK, WorkerPC
  <2>3. CASE CountTask(w) /\ UNCHANGED localVars
    <3>0. PICK l : l = task[w][1]
      OBVIOUS
    <3>1. Counts(w, l)
      BY <2>3, <3>0 DEF CountTask, Counts, Goto, LastTask, groupVars, TypeOK, PoolTypeOK
    <3>2. l \in LaunchId /\ tasksRemaining[l] \in Nat \ {0}
      BY <3>1, CountsDown
    <3>3. tasksRemaining' = [tasksRemaining EXCEPT ![l] = @ - 1] /\ tasksRemaining[l] - 1 \in Nat
      BY <3>1, <3>2 DEF Counts
    <3>4. tasksRemaining' \in [LaunchId -> Nat]
      BY <3>3 DEF TypeOK, PoolTypeOK
    <3>5. /\ pc' = [pc EXCEPT ![w] = "loop"] /\ task' = [task EXCEPT ![w] = NoTask]
          /\ UNCHANGED <<groupVars, remainingDeps, pendingLaunches, dependents, readyTasks, stop,
                         finished, mainPc, localVars>>
      BY <2>3 DEF CountTask, Goto
    <3> QED
      BY <3>4, <3>5 DEF groupVars, localVars, TypeOK, PoolTypeOK, WorkerPC
  <2>4. CASE CompleteGroup(w)
    <3>0. PICK l : l = task[w][1]
      OBVIOUS
    <3>1. PICK to \in {"enqueue", "notify", "loop"} : pc' = [pc EXCEPT ![w] = to]
      BY <2>4 DEF CompleteGroup, Goto
    <3>2. Counts(w, l) /\ tasksRemaining[l] = 1
      BY <2>4, <3>0, <3>1 DEF CompleteGroup, CountLaunch, Counts, LastTask, groupVars, TypeOK, PoolTypeOK
    <3>3. l \in LaunchId
      BY <3>2, CountsDown
    <3>4. tasksRemaining' \in [LaunchId -> Nat]
      BY <3>2, <3>3 DEF Counts, TypeOK, PoolTypeOK
    <3>5. CountDown(l) \in [LaunchId -> Nat] /\ Unlocked(l) \in Seq(LaunchId)
      BY <3>2, <3>3, CountDownTypes, UnlockedLaunches DEF WorkOK
    <3>6. /\ remainingDeps' = CountDown(l) /\ task' = [task EXCEPT ![w] = NoTask]
          /\ toEnqueue' = [toEnqueue EXCEPT ![w] = Unlocked(l)]
          /\ notifyAllDone' = [notifyAllDone EXCEPT ![w] = (pendingLaunches = 1)]
          /\ UNCHANGED <<groupVars, dependents, stop, finished, mainPc, readyTasks>>
      BY <2>4, <3>0 DEF CompleteGroup, CountLaunch, AllDone
    <3>7. notifyAllDone' \in [Worker -> BOOLEAN]
      BY <3>6, Zenon DEF TypeOK
    <3> QED
      BY <1>0, <3>1, <3>4, <3>5, <3>6, <3>7 DEF groupVars, TypeOK, PoolTypeOK, WorkerPC
  <2>5. CASE EnqueueUnlocked(w)
    <3>1. readyTasks' \in Seq(LaunchId \X Nat)
      BY <2>5, EnqueueWork
    <3>2. pc' \in [Worker -> WorkerPC]
      BY <2>5 DEF EnqueueUnlocked, NotifyIfEmpty, Woken, WorkerPC, TypeOK, PoolTypeOK
    <3>3. /\ toEnqueue' = [toEnqueue EXCEPT ![w] = <<>>]
          /\ UNCHANGED <<groupVars, countVars, dependents, stop, finished, task, mainPc, notifyAllDone>>
      BY <2>5 DEF EnqueueUnlocked
    <3>4. toEnqueue' \in [Worker -> Seq(LaunchId)]
      BY <3>3 DEF TypeOK
    <3>5. notifyAllDone' \in [Worker -> BOOLEAN]
      BY <3>3 DEF TypeOK
    <3>6. PoolTypeOK'
      BY <3>1, <3>2, <3>3 DEF groupVars, countVars, TypeOK, PoolTypeOK
    <3> QED
      BY <3>4, <3>5, <3>6 DEF TypeOK
  <2> QED
    BY <1>2, <2>1, <2>2, <2>3, <2>4, <2>5 DEF LockQueue
<1>3. ASSUME NEW w \in Worker, NotifySync(w) \/ (SpuriousWake(w) /\ UNCHANGED localVars)
      PROVE  TypeOK'
  BY <1>3 DEF NotifySync, NotifyDone, SpuriousWake, Goto, groupVars, countVars, localVars, TypeOK,
              PoolTypeOK, WorkerPC
<1>4. CASE MainStep \/ ((Sync \/ SyncSpuriousWake \/ Destroy) /\ UNCHANGED localVars)
  BY <1>4, TypeFrame
     DEF MainStep, InSync, InDestructor, RunSync, SyncReturn, SyncBeginWait, SyncSleep,
         DestroyNotify, Join, Sync, SyncSpuriousWake, Destroy, MainGoto, Woken, WorkerPC,
         localVars, TypeOK, PoolTypeOK
<1>5. ASSUME NEW n \in TaskCounts, NEW D \in SUBSET Launched, NEW to \in {"app", "run"},
             Launch(n, D, "app", to)
      PROVE  TypeOK'
  <2>1. /\ readyTasks' \in Seq(LaunchId \X Nat)
        /\ dependents' \in [LaunchId -> Seq(LaunchId)]
        /\ remainingDeps' \in [LaunchId -> Nat]
    BY <1>5, LaunchWork
  <2>2. /\ nextId <= MaxLaunches /\ nextId' = nextId + 1
        /\ numTotalTasks' = [numTotalTasks EXCEPT ![nextId] = n]
        /\ deps' = [deps EXCEPT ![nextId] = D]
        /\ tasksRemaining' = [tasksRemaining EXCEPT ![nextId] = n]
        /\ mainPc' = to
        /\ UNCHANGED <<stop, finished, task, localVars>>
    BY <1>5 DEF Launch, AddLaunch, MainGoto
  <2>3. pc' \in [Worker -> WorkerPC]
    BY <1>5 DEF Launch, NotifyIfEmpty, Woken, WorkerPC, TypeOK, PoolTypeOK
  <2>4. nextId' \in 1 .. MaxLaunches + 1
    BY <2>2, MaxLaunchesAssumption DEF TypeOK, PoolTypeOK
  <2>5. numTotalTasks' \in [LaunchId -> TaskCounts \cup {0}] /\ tasksRemaining' \in [LaunchId -> Nat]
    BY <2>2, TaskCountsAssumption DEF TypeOK, PoolTypeOK
  <2>6. deps' \in [LaunchId -> SUBSET LaunchId]
    BY <2>2, GroupTypes DEF TypeOK, PoolTypeOK
  <2> QED
    BY <1>0, <2>1, <2>2, <2>3, <2>4, <2>5, <2>6 DEF localVars, TypeOK, PoolTypeOK
<1>6. CASE UNCHANGED vars
  BY <1>6 DEF vars, poolVars, groupVars, countVars, localVars, TypeOK, PoolTypeOK
<1>7. CASE \E n \in TaskCounts : Run(n) \/ \E D \in SUBSET Launched : RunAsyncWithDeps(n, D)
  BY <1>5, <1>7 DEF Run, RunAsyncWithDeps
<1> QED
  BY <1>1, <1>2, <1>3, <1>4, <1>6, <1>7 DEF Next

LEMMA InitIInv == Init => IInv
<1> SUFFICES ASSUME Init PROVE IInv
  OBVIOUS
<1> USE DEF Init, PoolInit
<1>1. Launched = {} /\ Holding = {} /\ Pending = {}
  BY DEF Launched, Holding, Pending
<1>2. IsInjective(<<>>) /\ \A x : ~Contains(<<>>, x)
  BY DEF IsInjective, Contains
<1>3. TypeOK
  <2>1. /\ nextId \in 1 .. MaxLaunches + 1 /\ pendingLaunches \in 0 .. MaxLaunches
        /\ numTotalTasks \in [LaunchId -> TaskCounts \cup {0}]
        /\ tasksRemaining \in [LaunchId -> Nat] /\ remainingDeps \in [LaunchId -> Nat]
    BY MaxLaunchesAssumption
  <2>2. /\ dependents \in [LaunchId -> Seq(LaunchId)] /\ deps \in [LaunchId -> SUBSET LaunchId]
        /\ readyTasks \in Seq(LaunchId \X Nat) /\ finished \subseteq LaunchId \X Nat
        /\ toEnqueue \in [Worker -> Seq(LaunchId)]
    OBVIOUS
  <2>3. pc \in [Worker -> WorkerPC] /\ task \in [Worker -> (LaunchId \X Nat) \cup {NoTask}]
    BY DEF WorkerPC
  <2> QED
    BY <2>1, <2>2, <2>3 DEF TypeOK, PoolTypeOK
<1>4. LaunchesOK
  BY <1>1, <1>2 DEF LaunchesOK
<1>5. CountsOK
  <2>1. \A l \in LaunchId : Counting(l) = {} /\ Returned(l) = {}
    BY DEF Counting, Returned
  <2>2. ASSUME NEW l \in LaunchId
        PROVE  /\ Cardinality(Counting(l)) = 0 /\ Cardinality(Returned(l)) = 0
               /\ tasksRemaining[l] = 0 /\ numTotalTasks[l] = 0
    BY <2>1, FS_EmptySet
  <2> QED
    BY <2>2 DEF CountsOK
<1>6. DepsOK
  <2>1. ASSUME NEW l \in LaunchId
        PROVE  Cardinality(Undone(l)) = 0 /\ remainingDeps[l] = 0
    <3>1. Undone(l) = {}
      BY DEF Undone
    <3> QED
      BY <3>1, FS_EmptySet
  <2> QED
    BY <2>1 DEF DepsOK
<1>7. PlacesOK /\ UnlockedOK
  BY <1>1, <1>2 DEF PlacesOK, UnlockedOK
<1>8. PendingOK /\ MainOK
  BY <1>1, FS_EmptySet DEF PendingOK, MainOK
<1> QED
  BY <1>3, <1>4, <1>5, <1>6, <1>7, <1>8 DEF IInv, WorkOK

(* The inductive invariant, for any number of workers, launches and tasks. *)
THEOREM GroupPoolInvariant == SafeSpec => []IInv
<1>1. IInv /\ [Next]_vars => IInv'
  BY TypeStep, WorkStep, MainStepOK DEF IInv
<1> QED
  BY InitIInv, <1>1, PTL DEF SafeSpec

(* Every variable keeps its type; in particular tasksRemaining,            *)
(* remainingDeps and pendingLaunches never go below 0.                     *)
THEOREM GroupPoolTypes == SafeSpec => []TypeOK
<1>1. IInv => TypeOK
  BY DEF IInv
<1> QED
  BY <1>1, GroupPoolInvariant, PTL

-----------------------------------------------------------------------------
(* The pool keeps the contract's safety: taking a task is starting it, the *)
(* return of runTask finishes it, and no other step of a worker is seen.   *)

LEMMA RunningMembers ==
    ASSUME NEW t
    PROVE  t \in RunningTasks <=> \E w \in Worker : pc[w] = "running" /\ t = task[w]
BY DEF RunningTasks

LEMMA TasksInContract == ASSUME NEW l PROVE Contract!Tasks(l) = TasksIn(l)
BY DEF Contract!Tasks, TasksIn

(* A launch whose tasks may be in the queue waits for nothing.             *)
LEMMA ReleasedMayStart ==
    ASSUME IInv, NEW t, Released(t), NEW d \in deps[t[1]]
    PROVE  Contract!Done(d)
<1> USE DEF IInv, WorkOK
<1>1. t[1] \in LaunchId /\ remainingDeps[t[1]] = 0
  BY GroupTypes DEF Released
<1>2. d \in LaunchId
  BY <1>1 DEF TypeOK, PoolTypeOK
<1>3. ~(tasksRemaining[d] > 0)
  BY <1>1, <1>2, WaitsForUndone
<1> QED
  BY <1>2, <1>3, NoneRemaining, TasksInContract DEF Contract!Done

LEMMA GroupInitRefines == Init => Contract!Init
<1> SUFFICES ASSUME Init PROVE Contract!Init
  OBVIOUS
<1>1. Launched = {} /\ RunningTasks = {} /\ Caller = "app"
  BY DEF Init, PoolInit, Launched, RunningTasks, Caller
<1> QED
  BY <1>1 DEF Init, PoolInit, Contract!Init

LEMMA TakeRefines ==
    ASSUME IInv, NEW w \in Worker, TakeTask(w)
    PROVE  Contract!StartSome
<1> USE DEF IInv, WorkOK
<1>1. /\ pc[w] = "lock" /\ pc' = [pc EXCEPT ![w] = "running"]
      /\ ~stop /\ readyTasks # <<>>
      /\ task' = [task EXCEPT ![w] = Head(readyTasks)]
      /\ UNCHANGED <<nextId, numTotalTasks, deps, finished, stop, mainPc>>
  BY DEF TakeTask, Goto, groupVars
<1>2. PICK t \in LaunchId \X Nat : t = Head(readyTasks) /\ Contains(readyTasks, t)
  BY <1>1, TailDistinct DEF TypeOK, PoolTypeOK, PlacesOK
<1>3. Released(t) /\ t \notin finished
  BY <1>2 DEF PlacesOK
<1>4. t \notin RunningTasks
  BY <1>2, RunningMembers DEF PlacesOK, Holding
<1>5. RunningTasks' = RunningTasks \cup {t}
  <2>1. /\ pc'[w] = "running" /\ task'[w] = t
        /\ \A v \in Worker \ {w} : pc'[v] = pc[v] /\ task'[v] = task[v]
    BY <1>1, <1>2 DEF TypeOK, PoolTypeOK
  <2>2. ASSUME NEW s
        PROVE  s \in RunningTasks' <=> s \in RunningTasks \cup {t}
    <3>1. s \in RunningTasks' <=> \E v \in Worker : pc'[v] = "running" /\ s = task'[v]
      BY DEF RunningTasks
    <3> QED
      BY <1>1, <2>1, <3>1, RunningMembers
  <2> QED
    BY <2>2
<1>6. t[1] \in Launched /\ t \in Contract!Tasks(t[1])
  BY <1>3 DEF Released, Contract!Tasks
<1>7. Contract!CanStart(t)
  BY <1>3, <1>4, <1>6, ReleasedMayStart DEF Contract!CanStart
<1>8. Launched' = Launched /\ Caller' = Caller /\ Caller # "gone"
  BY <1>1 DEF Launched, Caller
<1>9. Contract!Start(t)
  BY <1>1, <1>5, <1>7, <1>8 DEF Contract!Start
<1> QED
  BY <1>6, <1>9 DEF Contract!StartSome

LEMMA RunRefines ==
    ASSUME IInv, NEW w \in Worker, RunTask(w)
    PROVE  Contract!FinishSome
<1> USE DEF IInv, WorkOK
<1>1. /\ pc[w] = "running" /\ pc' = [pc EXCEPT ![w] = "count"]
      /\ finished' = finished \cup {task[w]}
      /\ UNCHANGED <<nextId, numTotalTasks, deps, task, stop, mainPc>>
  BY DEF RunTask, Goto, groupVars
<1>2. task[w] \in RunningTasks
  BY <1>1, RunningMembers
<1>3. RunningTasks' = RunningTasks \ {task[w]}
  <2>1. ASSUME NEW v \in Worker, v # w, pc[v] = "running"
        PROVE  task[v] # task[w]
    BY <1>1, <2>1 DEF PlacesOK, Holding
  <2>2. \A v \in Worker : pc'[v] = "running" <=> (pc[v] = "running" /\ v # w)
    BY <1>1 DEF TypeOK, PoolTypeOK
  <2>3. RunningTasks' = {task[v] : v \in {u \in Worker : pc'[u] = "running"}}
    BY <1>1 DEF RunningTasks
  <2> QED
    BY <2>1, <2>2, <2>3 DEF RunningTasks
<1>4. Launched' = Launched /\ Caller' = Caller
  BY <1>1 DEF Launched, Caller
<1>5. Contract!Finish(task[w])
  BY <1>1, <1>2, <1>3, <1>4 DEF Contract!Finish
<1> QED
  BY <1>2, <1>5 DEF Contract!FinishSome

LEMMA LaunchRefines ==
    ASSUME IInv, NEW n \in TaskCounts, NEW D \in SUBSET Launched, NEW to \in {"app", "run"},
           Launch(n, D, "app", to)
    PROVE  Contract!LaunchSome
<1> USE DEF IInv
<1>1. /\ nextId \in LaunchId /\ nextId \in Nat /\ nextId' = nextId + 1
      /\ numTotalTasks' = [numTotalTasks EXCEPT ![nextId] = n]
      /\ deps' = [deps EXCEPT ![nextId] = D]
      /\ mainPc = "app" /\ mainPc' = to
      /\ UNCHANGED <<finished, task, stop>>
  BY MaxLaunchesAssumption DEF Launch, AddLaunch, MainGoto, LaunchId, TypeOK, PoolTypeOK
<1>2. Launched' = Launched \cup {nextId} /\ nextId \notin Launched
  BY <1>1 DEF Launched, TypeOK, PoolTypeOK
<1>3. RunningTasks' = RunningTasks
  <2>1. \A v \in Worker : pc'[v] = "running" <=> pc[v] = "running"
    BY DEF Launch, NotifyIfEmpty, Woken
  <2> QED
    BY <1>1, <2>1 DEF RunningTasks
<1>4. Caller = "app" /\ Caller' = "app"
  BY <1>1 DEF Caller, MainOK
<1>5. Contract!Launch(nextId, n, D)
  BY <1>1, <1>2, <1>3, <1>4 DEF Contract!Launch
<1> QED
  BY <1>1, <1>5 DEF Contract!LaunchSome

LEMMA SyncReturnRefines ==
    ASSUME IInv, SyncReturn
    PROVE  Contract!ReturnSync
<1> USE DEF IInv, WorkOK
<1>1. /\ pendingLaunches = 0 /\ mainPc = "sync" /\ mainPc' = "app"
      /\ UNCHANGED <<nextId, numTotalTasks, deps, stop, finished, pc, task>>
  BY DEF SyncReturn, MainGoto, groupVars
<1>2. Pending = {}
  BY <1>1, PendingFinite, FS_EmptySet DEF PendingOK
<1>3. ASSUME NEW l \in Launched PROVE Contract!Done(l)
  <2>1. l \in LaunchId /\ ~(tasksRemaining[l] > 0)
    BY <1>2, GroupTypes DEF Pending
  <2> QED
    BY <2>1, NoneRemaining, TasksInContract DEF Contract!Done
<1>4. ~stop
  BY <1>1 DEF MainOK
<1> QED
  BY <1>1, <1>3, <1>4 DEF Contract!ReturnSync, Caller, Launched, RunningTasks

(* A step that takes, finishes and launches nothing, and leaves the        *)
(* application where it was, is not seen by the contract.                  *)
LEMMA Invisible ==
    ASSUME UNCHANGED <<nextId, numTotalTasks, deps, finished>>,
           \A v \in Worker : /\ pc'[v] = "running" <=> pc[v] = "running"
                             /\ pc[v] = "running" => task'[v] = task[v]
    PROVE  /\ UNCHANGED <<Launched, RunningTasks>>
           /\ Caller' = Caller => UNCHANGED Contract!vars
<1>1. ASSUME NEW s
      PROVE  s \in RunningTasks' <=> s \in RunningTasks
  <2>1. s \in RunningTasks' <=> \E v \in Worker : pc'[v] = "running" /\ s = task'[v]
    BY DEF RunningTasks
  <2> QED
    BY <2>1, RunningMembers
<1>2. RunningTasks' = RunningTasks /\ Launched' = Launched
  BY <1>1 DEF Launched
<1> QED
  BY <1>2 DEF Contract!vars

LEMMA WorkerRefines ==
    ASSUME IInv, NEW w \in Worker,
           Step(w) \/ LockQueue(w) \/ NotifySync(w) \/ SpuriousWake(w)
    PROVE  [Contract!Next]_Contract!vars
<1> USE DEF IInv, groupVars
<1>1. CASE TakeTask(w)
  BY <1>1, TakeRefines DEF Contract!Next
<1>2. CASE RunTask(w)
  BY <1>2, RunRefines DEF Contract!Next
<1>3. CASE CountTask(w) \/ CompleteGroup(w)
  <2>1. \E to \in {"enqueue", "notify", "loop"} : pc' = [pc EXCEPT ![w] = to]
    BY <1>3 DEF CountTask, CompleteGroup, Goto
  <2>2. pc[w] = "count" /\ task' = [task EXCEPT ![w] = NoTask]
        /\ UNCHANGED <<nextId, numTotalTasks, deps, finished, stop, mainPc>>
    BY <1>3 DEF CountTask, CompleteGroup, CountLaunch, Goto
  <2>3. \A v \in Worker : /\ pc'[v] = "running" <=> pc[v] = "running"
                          /\ pc[v] = "running" => task'[v] = task[v]
    BY <2>1, <2>2 DEF TypeOK, PoolTypeOK
  <2> QED
    BY <2>2, <2>3, Invisible DEF Caller
<1>4. CASE EnqueueUnlocked(w)
  <2>1. \A v \in Worker : pc'[v] = "running" <=> pc[v] = "running"
    <3> DEFINE p == [pc EXCEPT ![w] = IF notifyAllDone[w] THEN "notify" ELSE "loop"]
    <3>1. pc[w] = "enqueue" /\ pc' = NotifyIfEmpty(p)
      BY <1>4 DEF EnqueueUnlocked
    <3>2. \A v \in Worker : p[v] = "running" <=> pc[v] = "running"
      BY <3>1 DEF TypeOK, PoolTypeOK
    <3> HIDE DEF p
    <3> QED
      BY <3>1, <3>2 DEF NotifyIfEmpty, Woken
  <2> QED
    BY <1>4, <2>1, Invisible DEF EnqueueUnlocked, Caller
<1>5. CASE \/ TestLoop(w) \/ Sleep(w) \/ BeginWait(w) \/ Leave(w, "exited") \/ NotifySync(w)
           \/ SpuriousWake(w)
  <2>1. /\ pc[w] # "running"
        /\ \E to \in {"exited", "lock", "asleep", "blocking", "loop"} : pc' = [pc EXCEPT ![w] = to]
    BY <1>5 DEF TestLoop, Sleep, BeginWait, Leave, NotifySync, NotifyDone, SpuriousWake, Goto
  <2>2. UNCHANGED <<nextId, numTotalTasks, deps, finished, task, stop>>
    BY <1>5 DEF TestLoop, Sleep, BeginWait, Leave, NotifySync, NotifyDone, SpuriousWake
  <2>3. mainPc' \in {mainPc, IF mainPc = "sync_asleep" THEN "sync" ELSE mainPc}
    BY <1>5 DEF TestLoop, Sleep, BeginWait, Leave, NotifySync, NotifyDone, SpuriousWake
  <2>4. \A v \in Worker : pc'[v] = "running" <=> pc[v] = "running"
    BY <2>1 DEF TypeOK, PoolTypeOK
  <2>5. Caller' = Caller
    BY <2>2, <2>3 DEF Caller
  <2> QED
    BY <2>2, <2>4, <2>5, Invisible
<1> QED
  BY <1>1, <1>2, <1>3, <1>4, <1>5 DEF Step, LockQueue

LEMMA ApplicationRefines ==
    ASSUME IInv, MainStep \/ Sync \/ SyncSpuriousWake \/ Destroy
    PROVE  [Contract!Next]_Contract!vars
<1> USE DEF IInv, groupVars, MainGoto
<1>1. CASE SyncReturn
  BY <1>1, SyncReturnRefines DEF Contract!Next
<1>2. CASE SyncBeginWait \/ SyncSleep \/ SyncSpuriousWake \/ DestroyNotify \/ Join
  <2>1. UNCHANGED <<nextId, numTotalTasks, deps, finished, task, stop>>
    BY <1>2 DEF SyncBeginWait, SyncSleep, SyncSpuriousWake, DestroyNotify, Join
  <2>2. \A v \in Worker : pc'[v] = "running" <=> pc[v] = "running"
    BY <1>2 DEF SyncBeginWait, SyncSleep, SyncSpuriousWake, DestroyNotify, Join, Woken
  <2>3. Caller' = Caller
    BY <1>2 DEF SyncBeginWait, SyncSleep, SyncSpuriousWake, DestroyNotify, Join, Caller, MainOK
  <2> QED
    BY <2>1, <2>2, <2>3, Invisible
<1>3. CASE Sync \/ RunSync
  <2>1. Caller = "app" /\ Caller' = "sync"
    BY <1>3 DEF Sync, RunSync, Caller, MainOK
  <2>2. UNCHANGED <<nextId, numTotalTasks, deps, finished, task, pc>>
    BY <1>3 DEF Sync, RunSync
  <2> QED
    BY <2>1, <2>2, Invisible DEF Contract!Next, Contract!CallSync
<1>4. CASE Destroy
  <2>1. Caller = "app" /\ Caller' = "gone"
    BY <1>4 DEF Destroy, Caller, MainOK
  <2>2. UNCHANGED <<nextId, numTotalTasks, deps, finished, task, pc>>
    BY <1>4 DEF Destroy
  <2> QED
    BY <2>1, <2>2, Invisible DEF Contract!Next, Contract!Destroy
<1> QED
  BY <1>1, <1>2, <1>3, <1>4 DEF MainStep, InSync, InDestructor

(* itasksys.h:49-52 and 64-67: no task starts before all tasks of the      *)
(* launches its own depends on have returned, although a dependency is     *)
(* counted down by whichever worker completes it; none runs twice; and     *)
(* sync() returns only when every task of every launch has.                *)
THEOREM GroupPoolImplementsSafely == SafeSpec => ImplementsSafely
<1>1. ASSUME IInv, [Next]_vars
      PROVE  [Contract!Next]_Contract!vars
  <2>1. CASE UNCHANGED vars
    BY <2>1 DEF vars, poolVars, groupVars, Contract!vars, Launched, RunningTasks, Caller
  <2>2. CASE \E n \in TaskCounts : Run(n) \/ \E D \in SUBSET Launched : RunAsyncWithDeps(n, D)
    <3>1. {} \in SUBSET Launched
      OBVIOUS
    <3> QED
      BY <1>1, <2>2, <3>1, LaunchRefines DEF Run, RunAsyncWithDeps, Contract!Next
  <2> QED
    BY <1>1, <2>1, <2>2, WorkerRefines, ApplicationRefines DEF Next
<1> QED
  BY <1>1, GroupInitRefines, GroupPoolInvariant, PTL
     DEF SafeSpec, ImplementsSafely, Contract!SafeSpec

-----------------------------------------------------------------------------
(* That sync() never sleeps alone.                                         *)

(* A task that has left its launch: it waits in the queue, runs, or has    *)
(* returned.                                                               *)
GivenOut(t) ==
    \/ t \in finished
    \/ Contains(readyTasks, t)
    \/ \E w \in Worker : pc[w] = "running" /\ task[w] = t

AllGivenOut(l) == \A i \in 0 .. numTotalTasks[l] - 1 : GivenOut(<<l, i>>)

(* A launch that waits for nothing is not forgotten.                       *)
Placed ==
    \A l \in Launched : remainingDeps[l] = 0 =>
        (\E w \in Worker : Contains(toEnqueue[w], l)) \/ AllGivenOut(l)

Earlier == \A l \in LaunchId : \A d \in deps[l] : d < l

(* What a worker has in its local variables is still to be acted upon.     *)
LocalsOK ==
    \A w \in Worker : /\ toEnqueue[w] # <<>> => pc[w] = "enqueue"
                      /\ notifyAllDone[w] => pc[w] \in {"enqueue", "notify"}

ProgressInv == Placed /\ Earlier /\ LocalsOK

(* Unless a launch is stranded, the pool works while sync() sleeps.        *)
SyncNeverSleepsAlone ==
    (mainPc = "sync_asleep" /\ ~Stranded) =>
        \E w \in Worker : pc[w] \notin {"asleep", "blocking", "exited"}

-----------------------------------------------------------------------------

(* A task that has been given out stays so.                                *)
LEMMA GivenOutFrame ==
    ASSUME finished' = finished, task' = task,
           \A t : Contains(readyTasks, t) => Contains(readyTasks', t),
           \A v \in Worker : pc[v] = "running" => pc'[v] = "running"
    PROVE  \A t : GivenOut(t) => GivenOut(t)'
BY DEF GivenOut

LEMMA TakeGivesOut ==
    ASSUME IInv, NEW w \in Worker, TakeTask(w)
    PROVE  \A t : GivenOut(t) => GivenOut(t)'
<1>1. /\ pc[w] = "lock" /\ pc'[w] = "running" /\ task'[w] = Head(readyTasks)
      /\ readyTasks # <<>> /\ readyTasks' = Tail(readyTasks) /\ finished' = finished
      /\ \A v \in Worker \ {w} : pc'[v] = pc[v] /\ task'[v] = task[v]
  BY DEF TakeTask, Goto, FrontPopped, IInv, TypeOK, PoolTypeOK
<1>2. readyTasks \in Seq(LaunchId \X Nat) /\ IsInjective(readyTasks)
  BY DEF IInv, WorkOK, TypeOK, PoolTypeOK, PlacesOK
<1>3. \A t : Contains(readyTasks, t) => t = Head(readyTasks) \/ Contains(Tail(readyTasks), t)
  BY <1>1, <1>2, TailDistinct
<1>4. ASSUME NEW v \in Worker, pc[v] = "running"
      PROVE  pc'[v] = "running" /\ task'[v] = task[v]
  BY <1>1, <1>4
<1> QED
  BY <1>1, <1>3, <1>4 DEF GivenOut

LEMMA RunGivesOut ==
    ASSUME IInv, NEW w \in Worker, RunTask(w)
    PROVE  \A t : GivenOut(t) => GivenOut(t)'
<1>1. /\ finished' = finished \cup {task[w]} /\ task' = task /\ readyTasks' = readyTasks
      /\ \A v \in Worker \ {w} : pc'[v] = pc[v]
  BY DEF RunTask, Goto, IInv, TypeOK, PoolTypeOK
<1> QED
  BY <1>1 DEF GivenOut

LEMMA CountGivesOut ==
    ASSUME IInv, NEW w \in Worker, CountTask(w) \/ CompleteGroup(w)
    PROVE  \A t : GivenOut(t) => GivenOut(t)'
<1>1. /\ pc[w] = "count" /\ finished' = finished /\ readyTasks' = readyTasks
      /\ \A v \in Worker \ {w} : pc'[v] = pc[v] /\ task'[v] = task[v]
  BY DEF CountTask, CompleteGroup, CountLaunch, Goto, IInv, TypeOK, PoolTypeOK
<1>2. ASSUME NEW v \in Worker, pc[v] = "running"
      PROVE  pc'[v] = "running" /\ task'[v] = task[v]
  BY <1>1, <1>2
<1> QED
  BY <1>1, <1>2 DEF GivenOut

LEMMA EnqueueGivesOut ==
    ASSUME IInv, NEW w \in Worker, EnqueueUnlocked(w)
    PROVE  /\ \A t : GivenOut(t) => GivenOut(t)'
           /\ \A l \in LaunchId : Contains(toEnqueue[w], l) => AllGivenOut(l)'
<1> DEFINE q == TasksToEnqueue(w)
           p == [pc EXCEPT ![w] = IF notifyAllDone[w] THEN "notify" ELSE "loop"]
<1>1. /\ readyTasks' = readyTasks \o q /\ pc[w] = "enqueue" /\ pc' = NotifyIfEmpty(p)
      /\ UNCHANGED <<finished, task, numTotalTasks>>
  BY DEF EnqueueUnlocked, groupVars, TasksToEnqueue
<1>2. /\ q \in Seq(LaunchId \X Nat) /\ IsInjective(q)
      /\ \A t : Contains(q, t) =>
            t[1] \in LaunchId /\ Contains(toEnqueue[w], t[1]) /\ t[2] \in 0 .. numTotalTasks[t[1]] - 1
      /\ \A l \in LaunchId : Contains(toEnqueue[w], l) =>
            \A k \in 0 .. numTotalTasks[l] - 1 : Contains(q, <<l, k>>)
  BY EnqueuedTasks
<1> HIDE DEF q
<1>3. \A t \in LaunchId \X Nat : Contains(q, t) => ~Released(t)
  BY <1>2 DEF Released
<1>4. \A t : Contains(readyTasks', t) <=> Contains(readyTasks, t) \/ Contains(q, t)
  BY <1>1, <1>2, <1>3, EnqueueDistinct
<1>5. \A v \in Worker : pc[v] = "running" => pc'[v] = "running"
  <2>1. \A v \in Worker : pc[v] = "running" => p[v] = "running"
    BY <1>1 DEF IInv, TypeOK, PoolTypeOK
  <2> HIDE DEF p
  <2> QED
    BY <1>1, <2>1 DEF NotifyIfEmpty, Woken
<1>6. ASSUME NEW l \in LaunchId, Contains(toEnqueue[w], l)
      PROVE  AllGivenOut(l)'
  <2>1. \A k \in 0 .. numTotalTasks'[l] - 1 : Contains(readyTasks', <<l, k>>)
    BY <1>1, <1>2, <1>4, <1>6
  <2> QED
    BY <2>1 DEF AllGivenOut, GivenOut
<1>7. \A t : GivenOut(t) => GivenOut(t)'
  BY <1>1, <1>4, <1>5, GivenOutFrame
<1> QED
  BY <1>6, <1>7

(* The step after which launch l is given out, or is still in a worker's   *)
(* list.                                                                   *)
LEMMA PlacedFrame ==
    ASSUME Placed, UNCHANGED <<nextId, numTotalTasks, remainingDeps, toEnqueue>>,
           \A t : GivenOut(t) => GivenOut(t)'
    PROVE  Placed'
<1>1. Launched' = Launched
  BY DEF Launched
<1>2. \A l \in Launched : AllGivenOut(l) => AllGivenOut(l)'
  BY DEF AllGivenOut
<1> QED
  BY <1>1, <1>2 DEF Placed

LEMMA EnqueuePlaced ==
    ASSUME IInv, Placed, NEW w \in Worker, EnqueueUnlocked(w)
    PROVE  Placed'
<1>1. /\ toEnqueue' = [toEnqueue EXCEPT ![w] = <<>>]
      /\ UNCHANGED <<nextId, numTotalTasks, remainingDeps>>
  BY DEF EnqueueUnlocked, groupVars, countVars
<1>2. Launched' = Launched /\ Launched \subseteq LaunchId
  BY <1>1, GroupTypes DEF Launched, IInv
<1>3. \A v \in Worker \ {w} : toEnqueue'[v] = toEnqueue[v]
  BY <1>1 DEF IInv, TypeOK
<1>4. \A t : GivenOut(t) => GivenOut(t)'
  BY EnqueueGivesOut
<1>5. \A l \in Launched : AllGivenOut(l) => AllGivenOut(l)'
  BY <1>1, <1>4 DEF AllGivenOut
<1>6. \A l \in Launched : Contains(toEnqueue[w], l) => AllGivenOut(l)'
  BY <1>2, EnqueueGivesOut
<1> SUFFICES ASSUME NEW l \in Launched, remainingDeps[l] = 0
             PROVE  (\E v \in Worker : Contains(toEnqueue'[v], l)) \/ AllGivenOut(l)'
  BY <1>1, <1>2 DEF Placed
<1>7. CASE AllGivenOut(l)
  BY <1>5, <1>7
<1>8. ASSUME NEW v \in Worker, Contains(toEnqueue[v], l)
      PROVE  (\E u \in Worker : Contains(toEnqueue'[u], l)) \/ AllGivenOut(l)'
  BY <1>3, <1>6, <1>8
<1> QED
  BY <1>7, <1>8 DEF Placed

LEMMA CompletePlaced ==
    ASSUME IInv, ProgressInv, NEW w \in Worker, CompleteGroup(w)
    PROVE  Placed'
<1> USE DEF IInv, WorkOK
<1>0. PICK l : l = task[w][1]
  OBVIOUS
<1>1. /\ Counts(w, l) /\ tasksRemaining[l] = 1 /\ pc[w] = "count"
      /\ remainingDeps' = CountDown(l)
      /\ toEnqueue' = [toEnqueue EXCEPT ![w] = Unlocked(l)]
      /\ UNCHANGED <<nextId, numTotalTasks>>
  <2>1. \E to \in {"enqueue", "notify", "loop"} : pc' = [pc EXCEPT ![w] = to]
    BY DEF CompleteGroup, Goto
  <2> QED
    BY <1>0, <2>1 DEF CompleteGroup, CountLaunch, Counts, LastTask, groupVars, TypeOK, PoolTypeOK
<1>2. l \in LaunchId
  BY <1>1, CountsDown
<1>3. \A c \in LaunchId :
         remainingDeps'[c] = IF l \in deps[c] THEN remainingDeps[c] - 1 ELSE remainingDeps[c]
  BY <1>1, <1>2, CountDownTypes
<1>4. /\ toEnqueue'[w] = Unlocked(l)
      /\ \A v \in Worker \ {w} : toEnqueue'[v] = toEnqueue[v]
  BY <1>1 DEF TypeOK
<1>5. \A c \in LaunchId : l \in deps[c] /\ remainingDeps[c] = 1 => Contains(toEnqueue'[w], c)
  BY <1>1, <1>2, <1>4, UnlockedLaunches
<1>6. toEnqueue[w] = <<>>
  BY <1>1 DEF ProgressInv, LocalsOK
<1>7. \A c : ~Contains(toEnqueue[w], c)
  BY <1>6 DEF Contains
<1>8. Launched' = Launched /\ Launched \subseteq LaunchId
  BY <1>1, GroupTypes DEF Launched
<1>9. \A t : GivenOut(t) => GivenOut(t)'
  BY CountGivesOut
<1>10. \A c \in Launched : AllGivenOut(c) => AllGivenOut(c)'
  BY <1>1, <1>9 DEF AllGivenOut
<1> SUFFICES ASSUME NEW c \in Launched, remainingDeps'[c] = 0
             PROVE  (\E v \in Worker : Contains(toEnqueue'[v], c)) \/ AllGivenOut(c)'
  BY <1>8 DEF Placed
<1>11. CASE remainingDeps[c] = 0
  <2>1. (\E v \in Worker \ {w} : Contains(toEnqueue[v], c)) \/ AllGivenOut(c)
    BY <1>7, <1>11 DEF ProgressInv, Placed
  <2> QED
    BY <1>4, <1>10, <2>1
<1>12. CASE remainingDeps[c] # 0
  <2>1. l \in deps[c] /\ remainingDeps[c] = 1
    BY <1>3, <1>8, <1>12 DEF TypeOK, PoolTypeOK
  <2> QED
    BY <1>5, <1>8, <2>1
<1> QED
  BY <1>11, <1>12

LEMMA LaunchPlaced ==
    ASSUME IInv, ProgressInv, NEW n \in TaskCounts, NEW D \in SUBSET Launched, NEW to,
           Launch(n, D, "app", to)
    PROVE  Placed' /\ Earlier'
<1> USE DEF IInv, WorkOK
<1>0. PICK id : id = nextId
  OBVIOUS
<1>1. /\ id <= MaxLaunches /\ nextId' = id + 1
      /\ numTotalTasks' = [numTotalTasks EXCEPT ![id] = n]
      /\ deps' = [deps EXCEPT ![id] = D]
      /\ remainingDeps' = [remainingDeps EXCEPT ![id] = Cardinality(D)]
      /\ readyTasks' = IF D = {} THEN readyTasks \o TasksOf(id, n) ELSE readyTasks
      /\ finished' = finished /\ task' = task /\ toEnqueue' = toEnqueue
  BY <1>0 DEF Launch, AddLaunch, localVars
<1>2. \A v \in Worker : pc[v] = "running" => pc'[v] = "running"
  BY DEF Launch, NotifyIfEmpty, Woken, TypeOK, PoolTypeOK
<1>3. /\ id \in LaunchId /\ id \notin Launched /\ Launched' = Launched \cup {id} /\ n \in Nat
      /\ \A d \in Launched : d < id
  <2>1. id \in Nat /\ id >= 1 /\ n \in Nat
    BY <1>0, MaxLaunchesAssumption, TaskCountsAssumption DEF TypeOK, PoolTypeOK
  <2>2. Launched = 1 .. id - 1 /\ Launched' = 1 .. id
    BY <1>0, <1>1, <2>1 DEF Launched
  <2> QED
    BY <1>1, <2>1, <2>2, MaxLaunchesAssumption DEF LaunchId
<1>4. /\ numTotalTasks'[id] = n /\ deps'[id] = D /\ remainingDeps'[id] = Cardinality(D)
      /\ \A l \in LaunchId \ {id} :
            /\ numTotalTasks'[l] = numTotalTasks[l] /\ deps'[l] = deps[l]
            /\ remainingDeps'[l] = remainingDeps[l]
  BY <1>1, <1>3 DEF TypeOK, PoolTypeOK
<1>5. Launched \subseteq LaunchId \ {id}
  BY <1>3, GroupTypes
<1>6. Earlier'
  BY <1>3, <1>4 DEF ProgressInv, Earlier
<1>7. CASE D = {}
  <2>1. /\ TasksOf(id, n) \in Seq(LaunchId \X Nat) /\ IsInjective(TasksOf(id, n))
        /\ \A t : Contains(TasksOf(id, n), t) => t[1] = id
        /\ \A i \in 0 .. n - 1 : Contains(TasksOf(id, n), <<id, i>>)
    BY <1>3, TasksOfLaunch
  <2>2. \A t \in LaunchId \X Nat : Contains(TasksOf(id, n), t) => ~Released(t)
    BY <1>3, <2>1 DEF Released
  <2>3. \A t : Contains(readyTasks', t) <=> Contains(readyTasks, t) \/ Contains(TasksOf(id, n), t)
    <3> DEFINE q == TasksOf(id, n)
    <3>1. readyTasks' = readyTasks \o q /\ q \in Seq(LaunchId \X Nat) /\ IsInjective(q)
          /\ \A t \in LaunchId \X Nat : Contains(q, t) => ~Released(t)
      BY <1>1, <1>7, <2>1, <2>2
    <3> HIDE DEF q
    <3>2. \A t : Contains(readyTasks', t) <=> Contains(readyTasks, t) \/ Contains(q, t)
      BY <3>1, EnqueueDistinct
    <3> QED
      BY <3>2 DEF q
  <2>4. \A i \in 0 .. n - 1 : Contains(readyTasks', <<id, i>>)
    BY <2>1, <2>3
  <2>5. AllGivenOut(id)'
    BY <1>4, <2>4 DEF AllGivenOut, GivenOut
  <2>6. \A t : GivenOut(t) => GivenOut(t)'
    BY <1>1, <1>2, <2>3, GivenOutFrame
  <2>7. \A l \in Launched : AllGivenOut(l) => AllGivenOut(l)'
    BY <1>4, <1>5, <2>6 DEF AllGivenOut
  <2>8. Placed'
    BY <1>1, <1>3, <1>4, <1>5, <2>5, <2>7 DEF ProgressInv, Placed
  <2> QED
    BY <1>6, <2>8
<1>8. CASE D # {}
  <2>1. \A t : GivenOut(t) => GivenOut(t)'
    BY <1>1, <1>2, <1>8, GivenOutFrame
  <2>2. \A l \in Launched : AllGivenOut(l) => AllGivenOut(l)'
    BY <1>4, <1>5, <2>1 DEF AllGivenOut
  <2>3. remainingDeps'[id] # 0
    <3>1. IsFiniteSet(D)
      BY <1>5, GroupTypes, FS_Subset
    <3> QED
      BY <1>4, <1>8, <3>1, FS_EmptySet
  <2>4. Placed'
    BY <1>1, <1>3, <1>4, <1>5, <2>2, <2>3 DEF ProgressInv, Placed
  <2> QED
    BY <1>6, <2>4
<1> QED
  BY <1>7, <1>8

LEMMA NothingPlaced ==
    ASSUME ProgressInv, MovesNothing
    PROVE  Placed'
<1>1. \A t : GivenOut(t) => GivenOut(t)'
  BY GivenOutFrame DEF MovesNothing, groupVars, countVars
<1>2. UNCHANGED <<nextId, numTotalTasks, remainingDeps, toEnqueue>>
  BY DEF MovesNothing, groupVars, countVars
<1> QED
  BY <1>1, <1>2, PlacedFrame DEF ProgressInv

LEMMA PlacedStep ==
    ASSUME IInv, ProgressInv, [Next]_vars
    PROVE  Placed'
<1> USE DEF IInv
<1>1. ASSUME NEW w \in Worker, Step(w)
      PROVE  Placed'
  <2>1. CASE TestLoop(w) \/ Sleep(w)
    <3>1. MovesNothing
      BY <1>1, <2>1 DEF Step, TestLoop, Sleep, Goto, MovesNothing, localVars, TypeOK, PoolTypeOK
    <3> QED
      BY <3>1, NothingPlaced
  <2>2. CASE RunTask(w)
    <3>1. UNCHANGED <<nextId, numTotalTasks, remainingDeps, toEnqueue>>
      BY <1>1, <2>2 DEF Step, RunTask, groupVars, countVars, localVars
    <3> QED
      BY <2>2, <3>1, RunGivesOut, PlacedFrame DEF ProgressInv
  <2> QED
    BY <1>1, <2>1, <2>2 DEF Step
<1>2. ASSUME NEW w \in Worker, LockQueue(w)
      PROVE  Placed'
  <2>1. CASE (BeginWait(w) \/ Leave(w, "exited")) /\ UNCHANGED localVars
    <3>1. MovesNothing
      BY <2>1 DEF BeginWait, Leave, Goto, MovesNothing, localVars, TypeOK, PoolTypeOK
    <3> QED
      BY <3>1, NothingPlaced
  <2>2. CASE TakeTask(w) /\ UNCHANGED localVars
    <3>1. UNCHANGED <<nextId, numTotalTasks, remainingDeps, toEnqueue>>
      BY <2>2 DEF TakeTask, groupVars, countVars, localVars
    <3> QED
      BY <2>2, <3>1, TakeGivesOut, PlacedFrame DEF ProgressInv
  <2>3. CASE CountTask(w) /\ UNCHANGED localVars
    <3>1. UNCHANGED <<nextId, numTotalTasks, remainingDeps, toEnqueue>>
      BY <2>3 DEF CountTask, groupVars, localVars
    <3> QED
      BY <2>3, <3>1, CountGivesOut, PlacedFrame DEF ProgressInv
  <2> QED
    BY <1>2, <2>1, <2>2, <2>3, CompletePlaced, EnqueuePlaced DEF LockQueue, ProgressInv
<1>3. ASSUME NEW w \in Worker, NotifySync(w) \/ (SpuriousWake(w) /\ UNCHANGED localVars)
      PROVE  Placed'
  <2>1. MovesNothing
    BY <1>3 DEF NotifySync, NotifyDone, SpuriousWake, Goto, MovesNothing, localVars, TypeOK, PoolTypeOK
  <2> QED
    BY <2>1, NothingPlaced
<1>4. CASE MainStep \/ ((Sync \/ SyncSpuriousWake \/ Destroy) /\ UNCHANGED localVars)
  <2>1. MovesNothing
    BY <1>4 DEF MainStep, InSync, InDestructor, RunSync, SyncReturn, SyncBeginWait, SyncSleep,
                DestroyNotify, Join, Sync, SyncSpuriousWake, Destroy, Woken, MovesNothing,
                localVars, TypeOK, PoolTypeOK
  <2> QED
    BY <2>1, NothingPlaced
<1>5. ASSUME NEW n \in TaskCounts, Run(n) \/ \E D \in SUBSET Launched : RunAsyncWithDeps(n, D)
      PROVE  Placed'
  BY <1>5, LaunchPlaced DEF Run, RunAsyncWithDeps
<1>6. CASE UNCHANGED vars
  <2>1. MovesNothing
    BY <1>6 DEF vars, poolVars, localVars, MovesNothing
  <2> QED
    BY <2>1, NothingPlaced
<1> QED
  BY <1>1, <1>2, <1>3, <1>4, <1>5, <1>6 DEF Next

LEMMA EarlierStep ==
    ASSUME IInv, ProgressInv, [Next]_vars
    PROVE  Earlier'
<1>1. CASE UNCHANGED deps
  BY <1>1 DEF ProgressInv, Earlier
<1>2. ASSUME NEW w \in Worker, Step(w) \/ LockQueue(w) \/ NotifySync(w) \/ SpuriousWake(w)
      PROVE  UNCHANGED deps
  BY <1>2 DEF Step, TestLoop, Sleep, RunTask, LockQueue, BeginWait, TakeTask, Leave, CountTask,
              CompleteGroup, CountLaunch, EnqueueUnlocked, NotifySync, NotifyDone, SpuriousWake,
              groupVars
<1>3. CASE MainStep \/ Sync \/ SyncSpuriousWake \/ Destroy
  <2>1. UNCHANGED deps
    BY <1>3 DEF MainStep, InSync, InDestructor, RunSync, SyncReturn, SyncBeginWait, SyncSleep,
                DestroyNotify, Join, Sync, SyncSpuriousWake, Destroy, groupVars
  <2> QED
    BY <1>1, <2>1
<1>4. ASSUME NEW n \in TaskCounts, Run(n) \/ \E D \in SUBSET Launched : RunAsyncWithDeps(n, D)
      PROVE  Earlier'
  BY <1>4, LaunchPlaced DEF Run, RunAsyncWithDeps
<1>5. UNCHANGED vars => UNCHANGED deps
  BY DEF vars, poolVars, groupVars
<1> QED
  BY <1>1, <1>2, <1>3, <1>4, <1>5 DEF Next

(* A worker's place changes while its local variables stay.                *)
LEMMA LocalsFrame ==
    ASSUME LocalsOK, UNCHANGED localVars,
           \A v \in Worker : pc[v] \in {"enqueue", "notify"} => pc'[v] = pc[v]
    PROVE  LocalsOK'
BY DEF LocalsOK, localVars

LEMMA LocalsStep ==
    ASSUME IInv, ProgressInv, [Next]_vars
    PROVE  LocalsOK'
<1> USE DEF IInv, ProgressInv
<1>1. ASSUME NEW w \in Worker, CompleteGroup(w)
      PROVE  LocalsOK'
  <2>1. PICK u : u = Unlocked(task[w][1])
    OBVIOUS
  <2>2. /\ pc' = [pc EXCEPT ![w] = IF u # <<>> THEN "enqueue" ELSE IF AllDone THEN "notify" ELSE "loop"]
        /\ toEnqueue' = [toEnqueue EXCEPT ![w] = u]
        /\ notifyAllDone' = [notifyAllDone EXCEPT ![w] = AllDone]
    BY <1>1, <2>1 DEF CompleteGroup, Goto
  <2>3. /\ toEnqueue'[w] = u /\ notifyAllDone'[w] = AllDone
        /\ pc'[w] = IF u # <<>> THEN "enqueue" ELSE IF AllDone THEN "notify" ELSE "loop"
        /\ \A v \in Worker \ {w} : /\ pc'[v] = pc[v] /\ toEnqueue'[v] = toEnqueue[v]
                                   /\ notifyAllDone'[v] = notifyAllDone[v]
    BY <2>2, Zenon DEF TypeOK, PoolTypeOK
  <2>4. ASSUME NEW v \in Worker
        PROVE  /\ toEnqueue'[v] # <<>> => pc'[v] = "enqueue"
               /\ notifyAllDone'[v] => pc'[v] \in {"enqueue", "notify"}
    <3>1. CASE v = w
      BY <2>3, <3>1
    <3>2. CASE v # w
      BY <2>3, <3>2 DEF LocalsOK
    <3> QED
      BY <3>1, <3>2
  <2> QED
    BY <2>4 DEF LocalsOK
<1>2. ASSUME NEW w \in Worker, EnqueueUnlocked(w)
      PROVE  LocalsOK'
  <2> DEFINE p == [pc EXCEPT ![w] = IF notifyAllDone[w] THEN "notify" ELSE "loop"]
  <2>1. /\ pc[w] = "enqueue" /\ pc' = NotifyIfEmpty(p)
        /\ toEnqueue' = [toEnqueue EXCEPT ![w] = <<>>] /\ notifyAllDone' = notifyAllDone
    BY <1>2 DEF EnqueueUnlocked
  <2>2. /\ p[w] = IF notifyAllDone[w] THEN "notify" ELSE "loop"
        /\ \A v \in Worker \ {w} : p[v] = pc[v] /\ toEnqueue'[v] = toEnqueue[v]
        /\ toEnqueue'[w] = <<>>
    BY <2>1 DEF TypeOK, PoolTypeOK
  <2> HIDE DEF p
  <2>3. \A v \in Worker : p[v] \in {"enqueue", "notify"} => pc'[v] = p[v]
    BY <2>1 DEF NotifyIfEmpty, Woken
  <2> QED
    BY <2>1, <2>2, <2>3 DEF LocalsOK
<1>3. ASSUME NEW w \in Worker, NotifySync(w)
      PROVE  LocalsOK'
  <2>1. /\ pc[w] = "notify" /\ pc' = [pc EXCEPT ![w] = "loop"]
        /\ notifyAllDone' = [notifyAllDone EXCEPT ![w] = FALSE] /\ toEnqueue' = toEnqueue
    BY <1>3 DEF NotifySync, NotifyDone, Goto
  <2>2. /\ pc'[w] = "loop" /\ ~notifyAllDone'[w] /\ toEnqueue[w] = <<>>
        /\ \A v \in Worker \ {w} : pc'[v] = pc[v] /\ notifyAllDone'[v] = notifyAllDone[v]
    BY <2>1 DEF TypeOK, PoolTypeOK, LocalsOK
  <2> QED
    BY <2>1, <2>2 DEF LocalsOK
<1>4. ASSUME NEW w \in Worker, UNCHANGED localVars,
             Step(w) \/ SpuriousWake(w) \/ BeginWait(w) \/ TakeTask(w) \/ Leave(w, "exited") \/ CountTask(w)
      PROVE  LocalsOK'
  <2>1. \A v \in Worker : pc[v] \in {"enqueue", "notify"} => pc'[v] = pc[v]
    BY <1>4 DEF Step, TestLoop, Sleep, RunTask, SpuriousWake, BeginWait, TakeTask, Leave, CountTask,
                Goto, TypeOK, PoolTypeOK
  <2> QED
    BY <1>4, <2>1, LocalsFrame
<1>5. CASE MainStep \/ ((Sync \/ SyncSpuriousWake \/ Destroy) /\ UNCHANGED localVars) \/ UNCHANGED vars
  <2>1. \A v \in Worker : pc[v] \in {"enqueue", "notify"} => pc'[v] = pc[v]
    BY <1>5 DEF MainStep, InSync, InDestructor, RunSync, SyncReturn, SyncBeginWait, SyncSleep,
                DestroyNotify, Join, Sync, SyncSpuriousWake, Destroy, Woken, vars, poolVars
  <2>2. UNCHANGED localVars
    BY <1>5 DEF MainStep, vars
  <2> QED
    BY <2>1, <2>2, LocalsFrame
<1>6. ASSUME NEW n, NEW D, NEW to, Launch(n, D, "app", to)
      PROVE  LocalsOK'
  <2>1. \A v \in Worker : pc[v] \in {"enqueue", "notify"} => pc'[v] = pc[v]
    BY <1>6 DEF Launch, NotifyIfEmpty, Woken
  <2> QED
    BY <1>6, <2>1, LocalsFrame DEF Launch
<1> QED
  BY <1>1, <1>2, <1>3, <1>4, <1>5, <1>6
     DEF Next, Step, LockQueue, Run, RunAsyncWithDeps

LEMMA GroupProgress == SafeSpec => []ProgressInv
<1>1. Init => ProgressInv
  <2> SUFFICES ASSUME Init PROVE ProgressInv
    OBVIOUS
  <2>1. Launched = {}
    BY DEF Init, PoolInit, Launched
  <2>2. Earlier /\ LocalsOK
    BY DEF Init, PoolInit, Earlier, LocalsOK
  <2> QED
    BY <2>1, <2>2 DEF ProgressInv, Placed
<1>2. IInv /\ ProgressInv /\ [Next]_vars => ProgressInv'
  BY PlacedStep, EarlierStep, LocalsStep DEF ProgressInv
<1> QED
  BY <1>1, <1>2, GroupPoolInvariant, PTL DEF SafeSpec

-----------------------------------------------------------------------------

(* If no task waits or runs, a launch given out has no task remaining.     *)
LEMMA GivenOutIsDone ==
    ASSUME IInv, NEW l \in LaunchId, AllGivenOut(l), readyTasks = <<>>, Holding = {}
    PROVE  tasksRemaining[l] = 0
<1> USE DEF IInv, WorkOK
<1>1. \A t : ~Contains(readyTasks, t)
  BY DEF Contains
<1>2. \A i \in 0 .. numTotalTasks[l] - 1 : <<l, i>> \in finished
  BY <1>1 DEF AllGivenOut, GivenOut, Holding
<1>3. TasksIn(l) \in SUBSET Returned(l)
  BY <1>2 DEF TasksIn, Returned
<1>4. Counting(l) = {}
  BY DEF Counting, Holding
<1>5. Cardinality(Counting(l)) = 0
  BY <1>4, FS_EmptySet
<1>6. IsFiniteSet(Returned(l)) /\ Cardinality(Returned(l)) \in 0 .. numTotalTasks[l]
  BY ReturnedBounds
<1>7. Cardinality(TasksIn(l)) = numTotalTasks[l] /\ numTotalTasks[l] \in Nat
  BY TasksInFinite, GroupTypes
<1>8. Cardinality(TasksIn(l)) <= Cardinality(Returned(l))
  BY <1>3, <1>6, FS_Subset
<1>9. Cardinality(Returned(l)) = numTotalTasks[l]
  BY <1>6, <1>7, <1>8
<1>10. tasksRemaining[l] = numTotalTasks[l] - Cardinality(Returned(l)) + Cardinality(Counting(l))
  BY DEF CountsOK
<1> QED
  BY <1>5, <1>7, <1>9, <1>10

LEMMA ProgressWhileAsleep ==
    ASSUME IInv, WakeInv, ProgressInv
    PROVE  SyncNeverSleepsAlone
<1> SUFFICES ASSUME mainPc = "sync_asleep", ~Stranded,
                    \A w \in Worker : pc[w] \in {"asleep", "blocking", "exited"}
             PROVE  FALSE
  BY DEF SyncNeverSleepsAlone
<1> USE DEF IInv, WorkOK
<1>1. readyTasks = <<>>
  BY DEF MainOK, WakeInv, WorkersOK, WorkKeepsAWorkerAwake
<1>2. Holding = {} /\ \A w \in Worker : toEnqueue[w] = <<>> /\ ~notifyAllDone[w]
  BY DEF Holding, ProgressInv, LocalsOK
<1>3. pendingLaunches # 0
  BY <1>2 DEF WakeInv, SyncOK
<1>4. Pending # {} /\ Pending \in SUBSET Nat
  BY <1>3, FS_EmptySet, GroupTypes DEF PendingOK, Pending
<1>5. PICK l \in Pending : \A m \in Pending : l <= m
  BY <1>4, LeastNat
<1>6. l \in Launched /\ l \in LaunchId
  BY GroupTypes DEF Pending
<1>7. numTotalTasks[l] # 0 /\ ~(remainingDeps[l] > Cardinality(Undone(l)))
  BY <1>6 DEF Stranded, Undone
<1>8. tasksRemaining[l] > 0
  BY <1>7 DEF Pending
<1>9. Undone(l) = {}
  <2> SUFFICES ASSUME NEW d \in deps[l], tasksRemaining[d] > 0 PROVE FALSE
    BY DEF Undone
  <2>1. d \in Launched /\ d < l
    BY <1>6 DEF LaunchesOK, ProgressInv, Earlier
  <2>2. d \in Pending /\ d \in Nat /\ l \in Nat
    BY <1>4, <2>1 DEF Pending
  <2> QED
    BY <1>5, <2>1, <2>2
<1>10. Cardinality(Undone(l)) = 0
  BY <1>9, FS_EmptySet
<1>11. remainingDeps[l] = 0
  BY <1>6, <1>7, <1>10 DEF TypeOK, PoolTypeOK
<1>12. \A c : ~Contains(<<>>, c)
  BY DEF Contains
<1>13. \A w \in Worker : ~Contains(toEnqueue[w], l)
  BY <1>2, <1>12
<1>14. AllGivenOut(l)
  BY <1>6, <1>11, <1>13 DEF ProgressInv, Placed
<1> QED
  BY <1>1, <1>2, <1>6, <1>8, <1>14, GivenOutIsDone

(* tasksys_new.cpp:77-80 and itasksys.h:64-67: while the thread in sync()  *)
(* sleeps and no launch is stranded, some worker is awake, so there is     *)
(* always a step that leads on to its return.                              *)
THEOREM GroupPoolNeverStuck == SafeSpec => []SyncNeverSleepsAlone
<1>1. IInv /\ WakeInv /\ ProgressInv => SyncNeverSleepsAlone
  BY ProgressWhileAsleep
<1> QED
  BY <1>1, GroupPoolInvariant, WakeInvariant, GroupProgress, PTL
=============================================================================
