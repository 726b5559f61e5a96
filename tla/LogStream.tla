----------------------------- MODULE LogStream -----------------------------
(***************************************************************************)
(* What the logger owes those who log, without its queue's mutex, its      *)
(* worker thread and the calls that change its file: messages come out in  *)
(* the order they were accepted, each once, and one is lost or comes out   *)
(* twice only while the file is not in place.                              *)
(*                                                                         *)
(* AsyncLog implements this specification (AsyncLog!Stream).               *)
(***************************************************************************)
EXTENDS Naturals, Sequences

CONSTANT Messages

VARIABLES pending,   \* accepted messages that are not out, oldest first
          output,    \* the messages in the files
          steady     \* whether the file is in place

vars == <<pending, output, steady>>

Init == pending = <<>> /\ output = <<>> /\ steady = TRUE

Accept(m) ==
    /\ pending' = Append(pending, m)
    /\ UNCHANGED <<output, steady>>

Write ==
    /\ pending # <<>>
    /\ pending' = Tail(pending)
    /\ \E n \in IF steady THEN {1} ELSE 0 .. 2 :
          output' = output \o [i \in 1 .. n |-> Head(pending)]
    /\ steady' \in BOOLEAN

ChangeFile == steady' = ~steady /\ UNCHANGED <<pending, output>>

Next == (\E m \in Messages : Accept(m)) \/ Write \/ ChangeFile

Spec == Init /\ [][Next]_vars
=============================================================================
