----------------------------- MODULE MCListener -----------------------------
(***************************************************************************)
(* Four clients  and a backlog of two; with none, one or two sub reactors  *)
(* and any number of inherited descriptors, the limit is met at every call *)
(* that makes one, and by clients after it.                                *)
(***************************************************************************)
EXTENDS Listener, TLC

MCSubNums == {0, 1, 2}
Symmetry == Permutations(Clients)
=============================================================================
