----------------------------- MODULE MCReactor -----------------------------
(***************************************************************************)
(* Small instances of Reactor for TLC.                                     *)
(***************************************************************************)
EXTENDS ReactorInv, TLC

CONSTANTS c1, c2, c3, t1, t2, t3

MCFds1 == {5}
MCFds2 == {5, 6}

\* The threads of the pool are alike, and so are the clients.
Symmetry == Permutations(Conns) \cup Permutations(Threads)

\* The same, without TLC's SYMMETRY, which temporal properties rule out: a run
\* and its mirror image satisfy the same formulas, so let the first client be
\* the first to connect and the first thread the one that takes the loop.
NoMirrorImage ==
    /\ client[c2] = "off" /\ client'[c2] # "off" => client[c1] # "off"
    /\ pc[t2] = "idle" /\ pc'[t2] = "poll" => pc[t1] = "poll"

\* No resets: all they add to what a FIN does is the crash of SIGPIPE.
NoReset == \A c \in Conns : peer'[c] # "rst"
=============================================================================
