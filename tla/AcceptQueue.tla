---------------------------- MODULE AcceptQueue ----------------------------
(***************************************************************************)
(* What a server's accept loop owes the clients that connect to it, with   *)
(* the kernel's backlog as a set: when the loop sleeps, an event is due    *)
(* for those who wait, unless the process was short of descriptors.        *)
(*                                                                         *)
(* Listener, which has the system calls, and Reactor, which has the other  *)
(* threads, both implement this specification (Accepting).                 *)
(***************************************************************************)
CONSTANTS Clients,
          Fds,       \* descriptors
          None       \* no descriptor

VARIABLES loop,      \* "away" before it listens in its loop, "wait", "accept"
          event,     \* whether epoll has the listening socket to report
          waiting,   \* clients connected and not accepted
          socket,    \* socket[c]: the descriptor c was accepted on, or None
          spare,     \* whether the process has a descriptor left
          short      \* the loop left clients for want of a descriptor

vars == <<loop, event, waiting, socket, short>>

TypeOK == /\ loop \in {"away", "wait", "accept"}
          /\ event \in BOOLEAN /\ spare \in BOOLEAN /\ short \in BOOLEAN
          /\ waiting \subseteq Clients
          /\ socket \in [Clients -> Fds \cup {None}]

Init == /\ loop = "away" /\ event = FALSE /\ short = FALSE
        /\ waiting = {} /\ socket = [c \in Clients |-> None]

Come(c) ==
    /\ c \notin waiting /\ socket[c] = None
    /\ waiting' = waiting \cup {c}
    /\ event' = (loop # "away")
    /\ short' = FALSE
    /\ UNCHANGED <<loop, socket>>

\* the server enters its loop; whoever came before that is not forgotten
Begin ==
    /\ loop = "away" /\ loop' = "wait"
    /\ event' \in BOOLEAN /\ (waiting # {} => event')
    /\ UNCHANGED <<waiting, socket, short>>

\* an event is reported once, and need not be if nobody waits any more
Wake ==
    /\ loop = "wait" /\ event
    /\ event' = FALSE
    /\ loop' = "accept" \/ (loop' = "wait" /\ waiting = {})
    /\ UNCHANGED <<waiting, socket, short>>

Take(c, f) ==
    /\ loop = "accept" /\ spare
    /\ c \in waiting /\ \A d \in Clients : socket[d] # f
    /\ waiting' = waiting \ {c}
    /\ socket' = [socket EXCEPT ![c] = f]
    /\ UNCHANGED <<loop, event, short>>

\* the loop goes back to sleep when all are taken, or no descriptor is left
Stop ==
    /\ loop = "accept" /\ loop' = "wait"
    /\ \/ waiting = {} /\ UNCHANGED short
       \/ ~spare /\ short' \in BOOLEAN /\ (event \/ short')
    /\ UNCHANGED <<event, waiting, socket>>

Leave(c) ==
    /\ socket[c] # None
    /\ socket' = [socket EXCEPT ![c] = None]
    /\ UNCHANGED <<loop, event, waiting, short>>

\* the process ends, and with it all it had
End ==
    /\ loop' = "away" /\ event' = FALSE /\ short' = FALSE
    /\ waiting' = {} /\ socket' = [c \in Clients |-> None]

Next == \/ Begin \/ Wake \/ Stop \/ End
        \/ \E c \in Clients : Come(c) \/ Leave(c) \/ \E f \in Fds : Take(c, f)

Spec == Init /\ [][Next]_vars
=============================================================================
