----------------------------- MODULE MCWebbench -----------------------------
(* Webbench with two children of up to three requests each. *)
EXTENDS Webbench

MCClients == 2
MCMaxTries == 3
=============================================================================
