---------------------------- MODULE ConnService ----------------------------
(***************************************************************************)
(* What the reactor owes each client connection, without threads, epoll or *)
(* queues.  A Connection object is opened on a file descriptor no other    *)
(* open connection has, its event handler is started once, and only after  *)
(* that is it closed, which gives the descriptor back.                     *)
(*                                                                         *)
(* Reactor implements this specification (Reactor!Service).                *)
(***************************************************************************)
CONSTANTS Conns,   \* Connection objects, one per accepted client
          Fds,     \* descriptors the kernel can hand out
          None     \* no descriptor

VARIABLES phase,   \* phase[c]: how far c has come
          socket   \* socket[c]: the descriptor c owns, or None

vars == <<phase, socket>>

Phases == {"new", "open", "serving", "closed"}

TypeOK == /\ phase \in [Conns -> Phases]
          /\ socket \in [Conns -> Fds \cup {None}]

Init == /\ phase = [c \in Conns |-> "new"]
        /\ socket = [c \in Conns |-> None]

\* accept4 returns f and a Connection is built on it
Open(c, f) ==
    /\ phase[c] = "new"
    /\ \A d \in Conns : socket[d] # f
    /\ phase' = [phase EXCEPT ![c] = "open"]
    /\ socket' = [socket EXCEPT ![c] = f]

\* a pool thread starts HandleEvent for c
Serve(c) ==
    /\ phase[c] = "open"
    /\ phase' = [phase EXCEPT ![c] = "serving"]
    /\ UNCHANGED socket

\* the last owner lets c go: the object is destroyed and its socket closed
Close(c) ==
    /\ phase[c] = "serving"
    /\ phase' = [phase EXCEPT ![c] = "closed"]
    /\ socket' = [socket EXCEPT ![c] = None]

Next == \E c \in Conns : (\E f \in Fds : Open(c, f)) \/ Serve(c) \/ Close(c)

Spec == Init /\ [][Next]_vars
=============================================================================
