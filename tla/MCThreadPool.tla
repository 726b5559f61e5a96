---------------------------- MODULE MCThreadPool ----------------------------
(***************************************************************************)
(* A small instance of ThreadPool for TLC: one task never returns, like a  *)
(* sub reactor's loop, and any running task may commit any other.          *)
(***************************************************************************)
EXTENDS ThreadPool

CONSTANTS w1, w2, w3, k1, k2, k3, k4

MCWorkers == {w1, w2, w3}
MCTasks   == {k1, k2, k3, k4}
MCEndless == {k1}
=============================================================================
