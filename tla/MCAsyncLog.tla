---------------------------- MODULE MCAsyncLog ----------------------------
(***************************************************************************)
(* Two threads that log three messages at different levels.                *)
(***************************************************************************)
EXTENDS AsyncLog

CONSTANTS p1, p2, m1, m2, m3

MCProducers == {p1, p2}
MCMessages  == {m1, m2, m3}
MCLevel     == [m \in MCMessages |-> IF m = m1 THEN 0 ELSE IF m = m2 THEN 1 ELSE 3]
=============================================================================
