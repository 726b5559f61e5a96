----------------------------- MODULE ThreadPool -----------------------------
(***************************************************************************)
(* The pool as it runs: worker threads that wait on a condition variable,  *)
(* commit from the owner's thread and from inside running tasks (a sub     *)
(* reactor's loop commits from its own task), and the destructor, which    *)
(* sets stop_ without the mutex, notifies all and joins.                   *)
(*                                                                         *)
(* A step is one read or write of what other threads may change: a locked  *)
(* section is one step unless an atomic is read inside it.  A blocked      *)
(* lock is a disabled step; wait may return at any time.                   *)
(***************************************************************************)
EXTENDS Naturals, Sequences, FiniteSets

CONSTANTS
    Workers,    \* threads of the pool
    Owner,      \* the thread that owns the pool and destroys it
    Tasks,      \* closures that may be committed
    Endless,    \* tasks that never return, as the loops of sub reactors
    None        \* no owner of the mutex, no task

ASSUME WorkersAssumption == IsFiniteSet(Workers) /\ Owner \notin Workers
ASSUME TasksAssumption == Endless \subseteq Tasks
ASSUME NoneAssumption == None \notin Workers \cup Tasks \cup {Owner}

VARIABLES
    stop,       \* stop_
    tasks,      \* tasks_
    cv_mtx,     \* the owner of cv_mtx_, or None
    pc,         \* pc[p]: where thread p is
    task,       \* task[w]: the task worker w has taken and runs, or None
    future,     \* future[k]: the shared state behind k's future
    late        \* history: workers the destructor's notify_all came too early for

vars == <<stop, tasks, cv_mtx, pc, task, future, late>>

WorkerPcs == {"test", "lock", "pred", "block", "waiting", "check", "run", "done"}
OwnerPcs  == {"run", "notify", "join", "destroyed"}
Futures   == {"none", "pending", "ready", "broken"}

Waiting == {w \in Workers : pc[w] = "waiting"}

Init ==
    /\ stop = FALSE
    /\ tasks = <<>>
    /\ cv_mtx = None
    /\ pc = [p \in Workers \cup {Owner} |-> IF p = Owner THEN "run" ELSE "test"]
    /\ task = [w \in Workers |-> None]
    /\ future = [k \in Tasks |-> "none"]
    /\ late = {}

-----------------------------------------------------------------------------
(* commit, called by the owner and by running tasks.                       *)

\* a bug: a notification for an empty queue only, enough for one worker
CommitToEmpty(p, k) ==
    /\ pc[p] = "run" /\ future[k] = "none"
    /\ cv_mtx = None
    /\ tasks' = Append(tasks, k)
    /\ future' = [future EXCEPT ![k] = "pending"]
    /\ IF Waiting = {} \/ tasks # <<>>
       THEN UNCHANGED pc
       ELSE \E w \in Waiting : pc' = [pc EXCEPT ![w] = "lock"]
    /\ UNCHANGED <<stop, cv_mtx, task, late>>

\* a bug: the queue is changed without the mutex
CommitUnlocked(p, k) ==
    /\ pc[p] = "run" /\ future[k] = "none"
    /\ tasks' = Append(tasks, k)
    /\ future' = [future EXCEPT ![k] = "pending"]
    /\ IF Waiting = {}
       THEN UNCHANGED pc
       ELSE \E w \in Waiting : pc' = [pc EXCEPT ![w] = "lock"]
    /\ UNCHANGED <<stop, cv_mtx, task, late>>

\* the locked section: the task is queued and notify_one wakes a waiting worker
Commit(p, k) ==
    /\ pc[p] = "run" /\ future[k] = "none"
    /\ cv_mtx = None
    /\ tasks' = Append(tasks, k)
    /\ future' = [future EXCEPT ![k] = "pending"]
    /\ IF Waiting = {}
       THEN UNCHANGED pc
       ELSE \E w \in Waiting : pc' = [pc EXCEPT ![w] = "lock"]
    /\ UNCHANGED <<stop, cv_mtx, task, late>>

-----------------------------------------------------------------------------
(* A worker.                                                               *)

\* while (!stop_)
Test(w) ==
    /\ pc[w] = "test"
    /\ pc' = [pc EXCEPT ![w] = IF stop THEN "done" ELSE "lock"]
    /\ UNCHANGED <<stop, tasks, cv_mtx, task, future, late>>

\* unique_lock, and wait's own lock once it is woken
Lock(w) ==
    /\ pc[w] = "lock"
    /\ cv_mtx = None
    /\ cv_mtx' = w
    /\ pc' = [pc EXCEPT ![w] = "pred"]
    /\ UNCHANGED <<stop, tasks, task, future, late>>

\* wait's predicate
Pred(w) ==
    /\ pc[w] = "pred"
    /\ pc' = [pc EXCEPT ![w] = IF stop \/ tasks # <<>> THEN "check" ELSE "block"]
    /\ UNCHANGED <<stop, tasks, cv_mtx, task, future, late>>

\* a bug: waiting without giving the mutex back
BlockLocked(w) ==
    /\ pc[w] = "block"
    /\ pc' = [pc EXCEPT ![w] = "waiting"]
    /\ UNCHANGED <<stop, tasks, cv_mtx, task, future, late>>

\* wait gives the mutex back and blocks, in one
Block(w) ==
    /\ pc[w] = "block"
    /\ cv_mtx' = None
    /\ pc' = [pc EXCEPT ![w] = "waiting"]
    /\ UNCHANGED <<stop, tasks, task, future, late>>

\* wait returns without having been notified
Wake(w) ==
    /\ pc[w] = "waiting"
    /\ pc' = [pc EXCEPT ![w] = "lock"]
    /\ UNCHANGED <<stop, tasks, cv_mtx, task, future, late>>

\* stop_ is read once more: leave with tasks still queued ...
Quit(w) ==
    /\ pc[w] = "check" /\ stop
    /\ cv_mtx' = None
    /\ pc' = [pc EXCEPT ![w] = "done"]
    /\ UNCHANGED <<stop, tasks, task, future, late>>

\* a bug: the task is read and left in the queue
PopFront(w) ==
    /\ pc[w] = "check" /\ ~stop
    /\ task' = [task EXCEPT ![w] = Head(tasks)]
    /\ cv_mtx' = None
    /\ pc' = [pc EXCEPT ![w] = "run"]
    /\ UNCHANGED <<stop, tasks, future, late>>

\* ... or take the first one
Pop(w) ==
    /\ pc[w] = "check" /\ ~stop
    /\ task' = [task EXCEPT ![w] = Head(tasks)]
    /\ tasks' = Tail(tasks)
    /\ cv_mtx' = None
    /\ pc' = [pc EXCEPT ![w] = "run"]
    /\ UNCHANGED <<stop, future, late>>

\* task() returns; an exception is kept in the future like a result
Finish(w) ==
    /\ pc[w] = "run" /\ task[w] \notin Endless
    /\ future' = [future EXCEPT ![task[w]] = "ready"]
    /\ task' = [task EXCEPT ![w] = None]
    /\ pc' = [pc EXCEPT ![w] = "test"]
    /\ UNCHANGED <<stop, tasks, cv_mtx, late>>

WorkerStep(w) == \/ Test(w) \/ Lock(w) \/ Pred(w) \/ Block(w)
                 \/ Quit(w) \/ Pop(w) \/ Finish(w)

-----------------------------------------------------------------------------
(* The destructor.                                                         *)

\* stop_.store(true), without the mutex
Stop ==
    /\ pc[Owner] = "run"
    /\ stop' = TRUE
    /\ pc' = [pc EXCEPT ![Owner] = "notify"]
    /\ UNCHANGED <<tasks, cv_mtx, task, future, late>>

\* a bug: only one worker is told
NotifyOne ==
    /\ pc[Owner] = "notify"
    /\ late' = {w \in Workers : pc[w] = "block"}
    /\ IF Waiting = {}
       THEN pc' = [pc EXCEPT ![Owner] = "join"]
       ELSE \E w \in Waiting : pc' = [pc EXCEPT ![Owner] = "join", ![w] = "lock"]
    /\ UNCHANGED <<stop, tasks, cv_mtx, task, future>>

\* notify_all does nothing for a worker that has found stop_ unset and has
\* still to block
NotifyAll ==
    /\ pc[Owner] = "notify"
    /\ late' = {w \in Workers : pc[w] = "block"}
    /\ pc' = [p \in Workers \cup {Owner} |->
                IF p = Owner THEN "join" ELSE IF p \in Waiting THEN "lock" ELSE pc[p]]
    /\ UNCHANGED <<stop, tasks, cv_mtx, task, future>>

Queued(k) == \E i \in DOMAIN tasks : tasks[i] = k

\* a bug: the threads are detached
Detach ==
    /\ pc[Owner] = "join"
    /\ tasks' = <<>>
    /\ future' = [k \in Tasks |-> IF Queued(k) THEN "broken" ELSE future[k]]
    /\ pc' = [pc EXCEPT ![Owner] = "destroyed"]
    /\ UNCHANGED <<stop, cv_mtx, task, late>>

\* every worker has been joined; the members go, and with tasks_ the packaged
\* tasks in it, which breaks their promises
Join ==
    /\ pc[Owner] = "join"
    /\ \A w \in Workers : pc[w] = "done"
    /\ tasks' = <<>>
    /\ future' = [k \in Tasks |-> IF Queued(k) THEN "broken" ELSE future[k]]
    /\ pc' = [pc EXCEPT ![Owner] = "destroyed"]
    /\ UNCHANGED <<stop, cv_mtx, task, late>>

Destroy == NotifyAll \/ Join

Next == \/ \E p \in Workers \cup {Owner}, k \in Tasks : Commit(p, k)
        \/ \E w \in Workers : WorkerStep(w) \/ Wake(w)
        \/ Stop \/ Destroy

Spec == Init /\ [][Next]_vars

\* threads that can run do; tasks are committed and the pool is destroyed, or
\* not, and wait need not return unless notified
FairSpec == Spec /\ WF_vars(Destroy) /\ \A w \in Workers : WF_vars(WorkerStep(w))

-----------------------------------------------------------------------------
\* the places of a worker that owns the mutex, and of one that will look at
\* the queue before it waits
Locked == {"pred", "block", "check"}
Coming == {w \in Workers : pc[w] \in {"test", "lock", "pred", "check"}}

(* Type correctness, with the mutex and the task a place in the code has.  *)
TypeOK ==
    /\ stop \in BOOLEAN
    /\ tasks \in Seq(Tasks)
    /\ cv_mtx \in Workers \cup {None}
    /\ pc \in [Workers \cup {Owner} -> WorkerPcs \cup OwnerPcs]
    /\ pc[Owner] \in OwnerPcs /\ (pc[Owner] # "run" <=> stop)
    /\ task \in [Workers -> Tasks \cup {None}]
    /\ future \in [Tasks -> Futures]
    /\ late \subseteq Workers
    /\ \A w \in Workers : /\ pc[w] \in WorkerPcs
                          /\ cv_mtx = w <=> pc[w] \in Locked
                          /\ task[w] # None <=> pc[w] = "run"

\* wait's predicate keeps being what it was found to be until the mutex is
\* given back
Predicate ==
    \A w \in Workers : /\ pc[w] = "block" => tasks = <<>>
                       /\ pc[w] = "check" => stop \/ tasks # <<>>

\* a task that is pending is in one place: in the queue once, or with a worker
Tracked ==
    /\ \A i, j \in DOMAIN tasks : tasks[i] = tasks[j] => i = j
    /\ \A k \in Tasks : Queued(k) => future[k] = "pending"
    /\ \A k \in Tasks, w \in Workers :
          task[w] = k => future[k] = "pending" /\ ~Queued(k)
    /\ \A w, u \in Workers : task[w] = task[u] /\ task[w] # None => w = u
    /\ \A k \in Tasks : future[k] = "pending" => Queued(k) \/ \E w \in Workers : task[w] = k

(* No wakeup is lost: while a worker waits, there are at least as many     *)
(* workers on their way to the queue as tasks in it.  One notification per *)
(* commit is enough only because the predicate is evaluated and wait       *)
(* entered under the mutex commit takes (ThreadPool.cpp:29, ThreadPool.h:30). *)
WakeupsSuffice ==
    ~stop /\ Waiting # {} => Len(tasks) <= Cardinality(Coming)

(* The destructor leaves nothing behind: when it returns, no thread of the *)
(* pool is running and no future waits for ever, although workers quit     *)
(* with tasks queued and tasks commit while it joins (ThreadPool.cpp:12,32). *)
DestructorSettles ==
    pc[Owner] = "destroyed" =>
       /\ \A w \in Workers : pc[w] = "done"
       /\ \A k \in Tasks : future[k] # "pending"

(* Tasks begin once, in the order of their commits, while the pool is open, *)
(* and are broken if they never began (TaskQueue).                         *)
Status(k) == CASE future[k] = "none" -> "new"
               [] future[k] = "ready" -> "ended"
               [] future[k] = "broken" -> "broken"
               [] OTHER -> IF Queued(k) THEN "queued" ELSE "running"

Queue == INSTANCE TaskQueue WITH pending <- tasks, open <- ~stop,
                                 status <- [k \in Tasks |-> Status(k)]
ImplementsQueue == Queue!Spec

(* A committed task is started unless the pool is being destroyed, as long *)
(* as the tasks that never return leave a worker free (ThreadPool.cpp:29). *)
Started ==
    Cardinality(Endless) < Cardinality(Workers) =>
       \A k \in Tasks : Queued(k) ~> (~Queued(k) \/ stop)

(* The destructor returns, unless a worker had found stop_ unset and not   *)
(* yet blocked when notify_all was called, or runs a task without end      *)
(* (ThreadPool.cpp:13).                                                    *)
JoinReturns ==
    pc[Owner] = "join" ~> \/ pc[Owner] = "destroyed"
                          \/ late # {}
                          \/ \E w \in Workers : task[w] \in Endless
=============================================================================
