----------------------------- MODULE TaskQueue -----------------------------
(***************************************************************************)
(* What the thread pool owes those who commit tasks to it, without its     *)
(* threads, mutex and condition variable: tasks begin in the order they    *)
(* are committed, each at most once, and while the pool is open; when it   *)
(* is gone, none is running and those that never began have been broken.   *)
(*                                                                         *)
(* ThreadPool implements this specification (ThreadPool!Queue), and the    *)
(* reactor's tasks are such a queue's (Reactor!UsesQueue).                 *)
(***************************************************************************)
EXTENDS Sequences

CONSTANT Tasks

VARIABLES pending,   \* committed tasks that have not begun, oldest first
          status,    \* status[k]: what has become of task k
          open       \* whether tasks may still begin

vars == <<pending, status, open>>

Statuses == {"new", "queued", "running", "ended", "broken"}

TypeOK == /\ pending \in Seq(Tasks)
          /\ status \in [Tasks -> Statuses]
          /\ open \in BOOLEAN

Init == /\ pending = <<>>
        /\ status = [k \in Tasks |-> "new"]
        /\ open = TRUE

Submit(k) ==
    /\ status[k] = "new"
    /\ pending' = Append(pending, k)
    /\ status' = [status EXCEPT ![k] = "queued"]
    /\ UNCHANGED open

Begin(k) ==
    /\ open
    /\ pending # <<>> /\ k = Head(pending)
    /\ pending' = Tail(pending)
    /\ status' = [status EXCEPT ![k] = "running"]
    /\ UNCHANGED open

End(k) ==
    /\ status[k] = "running"
    /\ status' = [status EXCEPT ![k] = "ended"]
    /\ UNCHANGED <<pending, open>>

Close == open /\ open' = FALSE /\ UNCHANGED <<pending, status>>

\* the pool is destroyed: what is still queued will never begin
Break ==
    /\ ~open
    /\ \A k \in Tasks : status[k] # "running"
    /\ pending' = <<>>
    /\ status' = [k \in Tasks |-> IF status[k] = "queued" THEN "broken" ELSE status[k]]
    /\ UNCHANGED open

Next == \/ \E k \in Tasks : Submit(k) \/ Begin(k) \/ End(k)
        \/ Close \/ Break

Spec == Init /\ [][Next]_vars
=============================================================================
