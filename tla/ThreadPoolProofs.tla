-------------------------- MODULE ThreadPoolProofs --------------------------
(***************************************************************************)
(* Theorems about ThreadPool, for any finite number of workers and any     *)
(* tasks: no wakeup is lost, the destructor leaves nothing behind, and the *)
(* pool implements TaskQueue.                                              *)
(***************************************************************************)
EXTENDS ThreadPool, FiniteSetTheorems, TLAPS

USE WorkersAssumption, TasksAssumption, NoneAssumption

-----------------------------------------------------------------------------
(* The queue as a sequence.                                                *)

LEMMA SameTasks == ASSUME UNCHANGED tasks PROVE \A k : Queued(k)' <=> Queued(k)
BY DEF Queued

\* what Commit does to the queue
LEMMA AppendTask ==
    ASSUME TypeOK, NEW k \in Tasks, tasks' = Append(tasks, k)
    PROVE  /\ tasks' \in Seq(Tasks) /\ tasks' # <<>>
           /\ Len(tasks') = Len(tasks) + 1
           /\ \A j : Queued(j)' <=> Queued(j) \/ j = k
           /\ DOMAIN tasks' = DOMAIN tasks \cup {Len(tasks) + 1}
           /\ \A i \in DOMAIN tasks : tasks'[i] = tasks[i]
           /\ tasks'[Len(tasks) + 1] = k
<1>1. tasks \in Seq(Tasks)
    BY DEF TypeOK
<1>2. /\ Len(tasks) \in Nat /\ DOMAIN tasks = 1 .. Len(tasks)
      /\ Len(tasks') = Len(tasks) + 1
      /\ DOMAIN tasks' = 1 .. Len(tasks) + 1
      /\ \A i \in 1 .. Len(tasks) : tasks'[i] = tasks[i]
      /\ tasks'[Len(tasks) + 1] = k
      /\ tasks' \in Seq(Tasks) /\ tasks' # <<>>
    BY <1>1
<1> QED
    BY <1>2 DEF Queued

\* what Pop does to the queue
LEMMA TakeTask ==
    ASSUME TypeOK, Tracked, tasks # <<>>, tasks' = Tail(tasks)
    PROVE  /\ tasks' \in Seq(Tasks)
           /\ Head(tasks) \in Tasks /\ Queued(Head(tasks))
           /\ Len(tasks') = Len(tasks) - 1 /\ Len(tasks) \in Nat
           /\ \A j : Queued(j)' <=> Queued(j) /\ j # Head(tasks)
           /\ \A i, j \in DOMAIN tasks' : tasks'[i] = tasks'[j] => i = j
<1>1. tasks \in Seq(Tasks)
    BY DEF TypeOK
<1>2. /\ Len(tasks) \in Nat /\ Len(tasks) > 0 /\ DOMAIN tasks = 1 .. Len(tasks)
      /\ Head(tasks) = tasks[1] /\ Head(tasks) \in Tasks
      /\ tasks' \in Seq(Tasks)
      /\ Len(tasks') = Len(tasks) - 1
      /\ DOMAIN tasks' = 1 .. Len(tasks) - 1
      /\ \A i \in 1 .. Len(tasks) - 1 : tasks'[i] = tasks[i + 1]
    BY <1>1
<1>3. \A i, j \in 1 .. Len(tasks) : tasks[i] = tasks[j] => i = j
    BY <1>2 DEF Tracked
<1>4. \A i \in 1 .. Len(tasks) - 1 : i + 1 \in 1 .. Len(tasks) /\ i + 1 # 1
    BY <1>2
<1>5. \A j : Queued(j)' => Queued(j) /\ j # Head(tasks)
    BY <1>2, <1>3, <1>4 DEF Queued
<1>6. ASSUME NEW j, Queued(j), j # Head(tasks) PROVE Queued(j)'
  <2>1. PICK i \in 1 .. Len(tasks) : tasks[i] = j
    BY <1>2, <1>6 DEF Queued
  <2>2. i - 1 \in 1 .. Len(tasks) - 1 /\ i = (i - 1) + 1
    BY <1>2, <1>6, <2>1
  <2> QED
    BY <1>2, <2>1, <2>2 DEF Queued
<1>7. \A i, j \in 1 .. Len(tasks) - 1 : tasks'[i] = tasks'[j] => i = j
    BY <1>2, <1>3, <1>4
<1>8. Queued(Head(tasks))
    BY <1>2 DEF Queued
<1> QED
    BY <1>2, <1>5, <1>6, <1>7, <1>8

-----------------------------------------------------------------------------
(* Type correctness, and the predicate that stays true.                    *)

Typed == TypeOK /\ Predicate

LEMMA InitTyped == Init => Typed
<1> SUFFICES ASSUME Init PROVE Typed
    OBVIOUS
<1> USE DEF Init
<1>1. /\ \A w \in Workers : pc[w] = "test" /\ task[w] = None
      /\ pc[Owner] = "run"
    OBVIOUS
<1>2. pc \in [Workers \cup {Owner} -> WorkerPcs \cup OwnerPcs]
    BY DEF WorkerPcs, OwnerPcs
<1>3. tasks \in Seq(Tasks) /\ future \in [Tasks -> Futures] /\ task \in [Workers -> Tasks \cup {None}]
    BY DEF Futures
<1>4. \A w \in Workers : w # None
    OBVIOUS
<1>5. TypeOK
    BY <1>1, <1>2, <1>3, <1>4 DEF TypeOK, WorkerPcs, OwnerPcs, Locked
<1> QED
    BY <1>1, <1>5 DEF Typed, Predicate

LEMMA StepTyped == Typed /\ Tracked /\ [Next]_vars => Typed'
<1> SUFFICES ASSUME Typed, Tracked, [Next]_vars PROVE Typed'
    OBVIOUS
<1> USE DEF Typed, TypeOK, Predicate, WorkerPcs, OwnerPcs, Futures, Locked
<1>1. ASSUME NEW p \in Workers \cup {Owner}, NEW k \in Tasks, Commit(p, k) PROVE Typed'
  <2> USE <1>1 DEF Commit
  <2>1. tasks' \in Seq(Tasks) /\ future' \in [Tasks -> Futures]
    BY AppendTask
  <2>2. UNCHANGED pc \/ \E w \in Workers : pc[w] = "waiting" /\ pc' = [pc EXCEPT ![w] = "lock"]
    BY DEF Waiting
  <2> QED
    BY <2>1, <2>2
<1>2. ASSUME NEW w \in Workers, WorkerStep(w) \/ Wake(w) PROVE Typed'
  <2>1. CASE Test(w)
    BY <2>1 DEF Test
  <2>2. CASE Lock(w)
    BY <2>2 DEF Lock
  <2>3. CASE Pred(w)
    BY <2>3 DEF Pred
  <2>4. CASE Block(w)
    BY <2>4 DEF Block
  <2>5. CASE Quit(w)
    BY <2>5 DEF Quit
  <2>6. CASE Pop(w)
    <3>1. Head(tasks) \in Tasks /\ tasks' \in Seq(Tasks)
        BY <2>6, TakeTask DEF Pop
    <3> QED
        BY <2>6, <3>1 DEF Pop
  <2>7. CASE Finish(w)
    BY <2>7 DEF Finish
  <2>8. CASE Wake(w)
    BY <2>8 DEF Wake
  <2> QED
    BY <1>2, <2>1, <2>2, <2>3, <2>4, <2>5, <2>6, <2>7, <2>8 DEF WorkerStep
<1>3. CASE Stop
    BY <1>3 DEF Stop
<1>4. CASE NotifyAll
    BY <1>4 DEF NotifyAll, Waiting
<1>5. CASE Join
    BY <1>5 DEF Join
<1>6. CASE UNCHANGED vars
    BY <1>6 DEF vars
<1> QED
    BY <1>1, <1>2, <1>3, <1>4, <1>5, <1>6 DEF Next, Destroy

-----------------------------------------------------------------------------
(* Where a pending task is.                                                *)

LEMMA InitTracked == Init => Tracked
BY DEF Init, Tracked, Queued

LEMMA StepTracked == Typed /\ Tracked /\ [Next]_vars => Tracked'
<1> SUFFICES ASSUME Typed, Tracked, [Next]_vars PROVE Tracked'
    OBVIOUS
<1> USE DEF Typed
<1>1. ASSUME NEW p \in Workers \cup {Owner}, NEW k \in Tasks, Commit(p, k) PROVE Tracked'
  <2> USE <1>1 DEF Commit
  <2>1. /\ \A j : Queued(j)' <=> Queued(j) \/ j = k
        /\ \A j \in Tasks : future'[j] = IF j = k THEN "pending" ELSE future[j]
        /\ task' = task
    BY AppendTask DEF TypeOK
  <2>2. ~Queued(k) /\ \A w \in Workers : task[w] # k
    BY DEF Tracked
  <2>3. \A i, j \in DOMAIN tasks' : tasks'[i] = tasks'[j] => i = j
    BY <2>2, AppendTask DEF Tracked, Queued
  <2> QED
    BY <2>1, <2>2, <2>3 DEF Tracked
<1>2. ASSUME NEW w \in Workers, Pop(w) PROVE Tracked'
  <2> USE <1>2 DEF Pop
  <2> DEFINE h == Head(tasks)
  <2>1. tasks # <<>>
    BY DEF Predicate
  <2>2. /\ h \in Tasks /\ Queued(h)
        /\ \A j : Queued(j)' <=> Queued(j) /\ j # h
        /\ \A i, j \in DOMAIN tasks' : tasks'[i] = tasks'[j] => i = j
    BY <2>1, TakeTask
  <2>3. /\ \A u \in Workers : task'[u] = IF u = w THEN h ELSE task[u]
        /\ future' = future /\ task[w] = None
    BY DEF TypeOK
  <2> HIDE DEF h, Pop
  <2> QED
    BY <2>2, <2>3 DEF Tracked
<1>3. ASSUME NEW w \in Workers, Finish(w) PROVE Tracked'
  <2> USE <1>3 DEF Finish
  <2>1. /\ \A u \in Workers : task'[u] = IF u = w THEN None ELSE task[u]
        /\ task[w] \in Tasks
        /\ \A j \in Tasks : future'[j] = IF j = task[w] THEN "ready" ELSE future[j]
        /\ \A j : Queued(j)' <=> Queued(j)
        /\ tasks' = tasks
    BY SameTasks DEF TypeOK
  <2> QED
    BY <2>1 DEF Tracked
<1>4. CASE Join
  <2>1. /\ \A j : ~Queued(j)'
        /\ \A j \in Tasks : future'[j] = IF Queued(j) THEN "broken" ELSE future[j]
        /\ \A w \in Workers : task[w] = None /\ task'[w] = None
        /\ DOMAIN tasks' = {}
    BY <1>4 DEF Join, Queued, TypeOK
  <2>2. \A k \in Tasks : future'[k] # "pending"
    BY <2>1 DEF Tracked, TypeOK
  <2> QED
    BY <2>1, <2>2 DEF Tracked
<1>5. CASE UNCHANGED <<tasks, task, future>>
    BY <1>5, SameTasks DEF Tracked
<1> QED
    BY <1>1, <1>2, <1>3, <1>4, <1>5 DEF Next, Destroy, WorkerStep, Test, Lock, Pred, Block,
       Quit, Wake, Stop, NotifyAll, vars

LEMMA Always == Spec => [](Typed /\ Tracked)
BY InitTyped, StepTyped, InitTracked, StepTracked, PTL DEF Spec

\* Every variable has its type, and cv_mtx_ belongs to the one worker that is
\* between its lock and its unlock (TypeOK).
THEOREM TypeCorrect == Spec => []TypeOK
<1>1. Typed => TypeOK
    BY DEF Typed
<1> QED
    BY <1>1, Always, PTL

-----------------------------------------------------------------------------
(* Wakeups.                                                                *)

LEMMA ComingFinite == IsFiniteSet(Coming) /\ Cardinality(Coming) \in Nat
BY FS_Subset, FS_CardinalityType DEF Coming

\* a step that brings one worker more, and a step that takes one away
LEMMA OneMore ==
    ASSUME NEW w, w \notin Coming, Coming' = Coming \cup {w}
    PROVE  Cardinality(Coming') = Cardinality(Coming) + 1
BY ComingFinite, FS_AddElement

LEMMA OneLess ==
    ASSUME NEW w, w \in Coming, Coming' = Coming \ {w}
    PROVE  Cardinality(Coming') = Cardinality(Coming) - 1
BY ComingFinite, FS_RemoveElement

LEMMA StepWakeups == Typed /\ Tracked /\ WakeupsSuffice /\ [Next]_vars => WakeupsSuffice'
<1> SUFFICES ASSUME Typed, Tracked, WakeupsSuffice, [Next]_vars, ~stop', Waiting' # {}
             PROVE  Len(tasks') <= Cardinality(Coming')
    BY DEF WakeupsSuffice
<1> USE ComingFinite DEF Typed
<1>1. Len(tasks) \in Nat
    BY DEF TypeOK
<1>2. ASSUME NEW p \in Workers \cup {Owner}, NEW k \in Tasks, Commit(p, k)
      PROVE  Len(tasks') <= Cardinality(Coming')
  <2> USE <1>2 DEF Commit
  <2>1. Waiting # {}
    BY DEF Waiting
  <2>2. PICK w \in Waiting : pc' = [pc EXCEPT ![w] = "lock"]
    BY <2>1
  <2>3. w \notin Coming /\ Coming' = Coming \cup {w}
    <3>1. /\ w \in Workers /\ pc[w] = "waiting"
          /\ \A u \in Workers : pc'[u] = IF u = w THEN "lock" ELSE pc[u]
        BY <2>2 DEF Waiting, TypeOK
    <3> QED
        BY <3>1 DEF Coming
  <2>4. Len(tasks') = Len(tasks) + 1 /\ ~stop
    BY AppendTask
  <2>5. Cardinality(Coming') = Cardinality(Coming) + 1
    BY <2>3, OneMore
  <2>6. Len(tasks) <= Cardinality(Coming)
    BY <2>1, <2>4 DEF WakeupsSuffice
  <2> QED
    BY <1>1, <2>4, <2>5, <2>6
<1>3. ASSUME NEW w \in Workers, Pop(w) PROVE Len(tasks') <= Cardinality(Coming')
  <2> USE <1>3 DEF Pop
  <2>1. w \in Coming /\ Coming' = Coming \ {w} /\ Waiting' = Waiting
    <3>1. \A u \in Workers : pc'[u] = IF u = w THEN "run" ELSE pc[u]
        BY DEF TypeOK
    <3> QED
        BY <3>1 DEF Coming, Waiting
  <2>2. Len(tasks') = Len(tasks) - 1 /\ ~stop
    BY TakeTask DEF Predicate
  <2>3. Cardinality(Coming') = Cardinality(Coming) - 1
    BY <2>1, OneLess
  <2>4. Len(tasks) <= Cardinality(Coming)
    BY <2>1, <2>2 DEF WakeupsSuffice
  <2> QED
    BY <1>1, <2>2, <2>3, <2>4
<1>4. ASSUME NEW w \in Workers, Block(w) PROVE Len(tasks') <= Cardinality(Coming')
  <2>1. tasks' = <<>>
    BY <1>4 DEF Block, Predicate
  <2>2. Coming' = Coming
    BY <1>4 DEF Block, Coming, TypeOK
  <2> QED
    BY <2>1, <2>2
<1>5. ASSUME NEW w \in Workers, Wake(w) \/ Finish(w)
      PROVE  Len(tasks') <= Cardinality(Coming')
  <2>1. w \notin Coming /\ Coming' = Coming \cup {w} /\ Waiting' \subseteq Waiting
    <3>1. /\ \A u \in Workers : u # w => pc'[u] = pc[u]
          /\ pc[w] \in {"waiting", "run"} /\ pc'[w] \in {"lock", "test"}
        BY <1>5 DEF Wake, Finish, TypeOK
    <3> QED
        BY <3>1 DEF Coming, Waiting
  <2>2. UNCHANGED <<tasks, stop>> /\ Waiting # {}
    BY <1>5, <2>1 DEF Wake, Finish
  <2>3. Cardinality(Coming') = Cardinality(Coming) + 1
    BY <2>1, OneMore
  <2>4. Len(tasks) <= Cardinality(Coming)
    BY <2>2 DEF WakeupsSuffice
  <2> QED
    BY <1>1, <2>2, <2>3, <2>4
<1>6. ASSUME NEW w \in Workers, Test(w) \/ Lock(w) \/ Pred(w)
      PROVE  Len(tasks') <= Cardinality(Coming')
  <2>1. UNCHANGED <<tasks, stop>> /\ ~stop
    BY <1>6 DEF Test, Lock, Pred
  <2>2. CASE Coming' = Coming /\ Waiting' = Waiting
    BY <2>1, <2>2 DEF WakeupsSuffice
  <2>3. CASE Pred(w) /\ tasks = <<>>
    <3>1. Coming' = Coming \ {w} /\ w \in Coming
        BY <2>1, <2>3 DEF Pred, Coming, TypeOK
    <3>2. Cardinality(Coming') \in Nat
        BY <3>1, FS_RemoveElement, FS_CardinalityType
    <3> QED
        BY <2>1, <2>3, <3>2
  <2> QED
    BY <1>6, <2>1, <2>2, <2>3 DEF Test, Lock, Pred, Coming, Waiting, TypeOK
<1>7. ASSUME Stop \/ Destroy \/ \E w \in Workers : Quit(w) PROVE FALSE
    BY <1>7 DEF Stop, Destroy, NotifyAll, Join, Quit, TypeOK
<1>8. CASE UNCHANGED vars
    BY <1>8 DEF vars, WakeupsSuffice, Waiting, Coming
<1> QED
    BY <1>2, <1>3, <1>4, <1>5, <1>6, <1>7, <1>8 DEF Next, WorkerStep

\* While a worker waits and the pool is not being destroyed, there are as many
\* workers on their way to the queue as tasks in it (WakeupsSuffice).
THEOREM NoLostWakeup == Spec => []WakeupsSuffice
<1>1. Init => WakeupsSuffice
    BY DEF Init, WakeupsSuffice, Waiting
<1> QED
    BY <1>1, StepWakeups, Always, PTL DEF Spec

-----------------------------------------------------------------------------
(* The destructor.                                                         *)

\* When the destructor has returned, no worker runs and no future is pending
\* (DestructorSettles).
THEOREM Settles == Spec => []DestructorSettles
<1>1. Init => DestructorSettles
    BY DEF Init, DestructorSettles
<1>2. Typed /\ Tracked /\ DestructorSettles /\ [Next]_vars => DestructorSettles'
  <2> SUFFICES ASSUME Typed, Tracked, DestructorSettles, [Next]_vars,
                      pc'[Owner] = "destroyed"
               PROVE  /\ \A w \in Workers : pc'[w] = "done"
                      /\ \A k \in Tasks : future'[k] # "pending"
    BY DEF DestructorSettles
  <2>1. CASE Join
    <3>1. /\ \A j \in Tasks : future'[j] = IF Queued(j) THEN "broken" ELSE future[j]
          /\ \A w \in Workers : task[w] = None /\ pc'[w] = "done"
        BY <2>1 DEF Join, Typed, TypeOK
    <3> QED
        BY <3>1 DEF Tracked
  <2>2. CASE ~Join
    <3>1. pc[Owner] = "destroyed"
        BY <2>2 DEF Next, WorkerStep, Destroy, Commit, Test, Lock, Pred, Block, Quit, Pop,
           Finish, Wake, Stop, NotifyAll, vars, Waiting, Typed, TypeOK
    <3>2. \A p \in Workers \cup {Owner} : pc[p] \in {"done", "destroyed"}
        BY <3>1 DEF DestructorSettles
    <3>3. UNCHANGED vars
        BY <2>2, <3>1, <3>2 DEF Next, WorkerStep, Destroy, Commit, Test, Lock, Pred, Block,
           Quit, Pop, Finish, Wake, Stop, NotifyAll
    <3> QED
        BY <3>1, <3>3 DEF vars, DestructorSettles
  <2> QED
    BY <2>1, <2>2
<1> QED
    BY <1>1, <1>2, Always, PTL DEF Spec

-----------------------------------------------------------------------------
(* The refinement of TaskQueue.                                            *)

\* the abstract state after a step that changes none of what it is made of
LEMMA SameStatus ==
    ASSUME UNCHANGED <<tasks, future, stop>>
    PROVE  UNCHANGED Queue!vars
<1>1. \A k : Status(k)' = Status(k)
    BY SameTasks DEF Status
<1> QED
    BY <1>1 DEF Queue!vars

LEMMA StepQueue == Typed /\ Tracked /\ [Next]_vars => [Queue!Next]_Queue!vars
<1> SUFFICES ASSUME Typed, Tracked, [Next]_vars PROVE [Queue!Next]_Queue!vars
    OBVIOUS
<1> USE DEF Typed
<1> DEFINE S  == [k \in Tasks |-> Status(k)]
<1> DEFINE S2 == [k \in Tasks |-> Status(k)']
<1>0. \A k \in Tasks : future[k] \in {"none", "pending", "ready", "broken"}
    BY DEF TypeOK, Futures
<1>1. ASSUME NEW p \in Workers \cup {Owner}, NEW k \in Tasks, Commit(p, k)
      PROVE  Queue!Submit(k)
  <2> USE <1>1 DEF Commit
  <2>1. /\ \A j : Queued(j)' <=> Queued(j) \/ j = k
        /\ \A j \in Tasks : future'[j] = IF j = k THEN "pending" ELSE future[j]
    BY AppendTask DEF TypeOK
  <2>2. \A j \in Tasks : Status(j)' = IF j = k THEN "queued" ELSE Status(j)
    BY <2>1 DEF Status
  <2>3. Status(k) = "new"
    BY DEF Status
  <2>4. S2 = [S EXCEPT ![k] = "queued"]
    BY <2>2
  <2> QED
    BY <2>3, <2>4 DEF Queue!Submit
<1>2. ASSUME NEW w \in Workers, Pop(w) PROVE \E k \in Tasks : Queue!Begin(k)
  <2> USE <1>2 DEF Pop
  <2> DEFINE h == Head(tasks)
  <2>1. tasks # <<>> /\ ~stop
    BY DEF Predicate
  <2>2. /\ h \in Tasks /\ Queued(h)
        /\ \A j : Queued(j)' <=> Queued(j) /\ j # h
    BY <2>1, TakeTask
  <2>3. future[h] = "pending" /\ future' = future
    BY <2>2 DEF Tracked
  <2> HIDE DEF h
  <2>4. \A j \in Tasks : Status(j)' = IF j = h THEN "running" ELSE Status(j)
    BY <2>2, <2>3 DEF Status
  <2>5. S2 = [S EXCEPT ![h] = "running"]
    BY <2>4
  <2>6. h = Head(tasks)
    BY DEF h
  <2> QED
    BY <2>1, <2>2, <2>5, <2>6 DEF Queue!Begin
<1>3. ASSUME NEW w \in Workers, Finish(w) PROVE \E k \in Tasks : Queue!End(k)
  <2> USE <1>3 DEF Finish
  <2>1. /\ task[w] \in Tasks
        /\ \A j \in Tasks : future'[j] = IF j = task[w] THEN "ready" ELSE future[j]
        /\ \A j : Queued(j)' <=> Queued(j)
    BY SameTasks DEF TypeOK
  <2>2. future[task[w]] = "pending" /\ ~Queued(task[w])
    BY <2>1 DEF Tracked
  <2>3. \A j \in Tasks : Status(j)' = IF j = task[w] THEN "ended" ELSE Status(j)
    BY <2>1 DEF Status
  <2>4. Status(task[w]) = "running"
    BY <2>2 DEF Status
  <2>5. S2 = [S EXCEPT ![task[w]] = "ended"]
    BY <2>3
  <2> QED
    BY <2>1, <2>4, <2>5 DEF Queue!End
<1>4. CASE Stop
  <2>1. ~stop /\ stop'
    BY <1>4 DEF Stop, TypeOK
  <2>2. \A k : Status(k)' = Status(k)
    BY <1>4, SameTasks DEF Stop, Status
  <2> QED
    BY <1>4, <2>1, <2>2 DEF Stop, Queue!Next, Queue!Close
<1>5. CASE Join
  <2>1. /\ \A j : ~Queued(j)'
        /\ \A j \in Tasks : future'[j] = IF Queued(j) THEN "broken" ELSE future[j]
        /\ \A w \in Workers : task[w] = None
    BY <1>5 DEF Join, Queued, TypeOK
  <2>2. \A j \in Tasks : future[j] = "pending" => Queued(j)
    BY <2>1 DEF Tracked
  <2>3. \A j \in Tasks : /\ Status(j) # "running"
                         /\ Status(j)' = IF Status(j) = "queued" THEN "broken" ELSE Status(j)
    <3>1. \A j \in Tasks : Queued(j) => future[j] = "pending"
        BY DEF Tracked
    <3> QED
        BY <1>0, <2>1, <2>2, <3>1 DEF Status
  <2>4. stop /\ stop' = stop /\ tasks' = <<>>
    BY <1>5 DEF Join, TypeOK
  <2> QED
    BY <2>3, <2>4 DEF Queue!Next, Queue!Break
<1>6. CASE UNCHANGED <<tasks, future, stop>>
    BY <1>6, SameStatus
<1> QED
    BY <1>1, <1>2, <1>3, <1>4, <1>5, <1>6 DEF Next, Destroy, WorkerStep, Test, Lock, Pred,
       Block, Quit, Wake, NotifyAll, vars, Queue!Next

\* Tasks begin in the order of their commits, once, while the pool is open, and
\* are broken if they never began: the pool implements TaskQueue.
THEOREM Implements == Spec => ImplementsQueue
<1>1. Init => Queue!Init
  <2> SUFFICES ASSUME Init PROVE Queue!Init
    OBVIOUS
  <2>1. \A k \in Tasks : Status(k) = "new"
    BY DEF Init, Status
  <2> QED
    BY <2>1 DEF Init, Queue!Init
<1> QED
    BY <1>1, StepQueue, Always, PTL DEF Spec, ImplementsQueue, Queue!Spec
=============================================================================
