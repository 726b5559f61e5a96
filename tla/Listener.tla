------------------------------ MODULE Listener ------------------------------
(***************************************************************************)
(* How a server comes to listen, and goes on accepting: the constructor of *)
(* ReactorMainServer with its Accepter, socket, channel and epolls, Start, *)
(* and the main loop, step by step, while clients connect, others hold the *)
(* port, and the process dies and is started again.                        *)
(***************************************************************************)
EXTENDS Integers, Sequences, FiniteSets

CONSTANTS Clients,
          MaxFd,      \* the process's highest descriptor
          SubNums,    \* numbers of sub reactors a server may be given
          ListenMax,  \* LISTEN_MAX, the size of the backlog
          None        \* no descriptor

ASSUME MaxFdAssumption == MaxFd \in Nat
ASSUME SubNumsAssumption == SubNums \subseteq Nat
ASSUME ListenMaxAssumption == ListenMax \in Nat \ {0}
ASSUME NoneAssumption == None \notin Int

VARIABLES
    pc,         \* where the main thread is, or "dead"
    subs,       \* sub_server_num
    inherited,  \* descriptors the process is started with
    epolls,     \* those of the main epoll and the sub reactors'
    socket,     \* the Accepter's socket
    item,       \* its channel's events, as epoll has them; {} before it is added
    ready,      \* whether epoll has it in its ready list
    backlog,    \* clients the kernel has connected and nobody accepted
    fd,         \* each accepted client's descriptor
    port,       \* who else holds the told port: "free", "timewait", "rival"
    held,       \* history: what port was when Bind was called
    exhausted   \* history: accept4 met EMFILE and nobody has connected since

clients == <<backlog, fd, exhausted>>
given   == <<subs, inherited>>
vars    == <<pc, given, epolls, socket, item, ready, clients, port, held>>

Starting == {"Epoll", "Socket", "Bind", "Listen", "SetNonBlocking", "SetReuseAddr", "EnableRead",
             "EnableET", "UpdateChannel", "ReactorSubServer"}
Looping  == {"wait", "accept"}

Fds  == 0 .. MaxFd
Used == inherited \cup epolls \cup {socket.fd} \cup {fd[c] : c \in Clients}
Full == Fds \subseteq Used

\* the kernel gives out the lowest free descriptor
Lowest(d) == d \in Fds \ Used /\ \A e \in Fds \ Used : d <= e

Unset(d) == [fd |-> d, bound |-> "no", listens |-> FALSE, nonblock |-> FALSE, reuse |-> FALSE]

Accepted == {c \in Clients : fd[c] # None}
Pending  == {backlog[i] : i \in DOMAIN backlog}

-----------------------------------------------------------------------------
(* Start-up, in the order of the code.                                     *)

\* what the process held goes with it; what the server closed is in TIME_WAIT
Exit ==
    /\ pc' = "dead"
    /\ epolls' = {} /\ socket' = Unset(None) /\ item' = {} /\ ready' = FALSE
    /\ backlog' = <<>> /\ fd' = [c \in Clients |-> None] /\ exhausted' = FALSE
    /\ port' \in {port} \cup {p \in {"timewait"} : port = "free" /\ Accepted # {}}
    /\ UNCHANGED <<given, held>>

\* epoll_create1 of the main loop or of a sub reactor's; without a descriptor
\* its exception leaves main
MakeEpoll ==
    \/ Full /\ Exit
    \/ \E d \in Fds :
          /\ Lowest(d)
          /\ epolls' = epolls \cup {d}
          /\ pc' = IF pc = "Epoll" THEN "Socket" ELSE pc
          /\ UNCHANGED <<given, socket, item, ready, clients, port, held>>

MainEpoll == pc = "Epoll" /\ MakeEpoll
SubEpoll  == pc = "ReactorSubServer" /\ Cardinality(epolls) <= subs /\ MakeEpoll

\* the steps that change the socket and nothing else
Configure(at, next, new) ==
    /\ pc = at /\ pc' = next
    /\ socket' = IF socket.fd = None THEN socket ELSE new
    /\ UNCHANGED <<given, epolls, item, ready, clients, port>>

\* a bug: the socket is not bound
MakeSocketUnbound ==
    /\ pc = "Socket" /\ pc' = "Listen"
    /\ \/ Full /\ socket' = Unset(None)
       \/ \E d \in Fds : Lowest(d) /\ socket' = Unset(d)
    /\ UNCHANGED <<given, epolls, item, ready, clients, port, held>>

\* a Socket without a descriptor is only logged
MakeSocket ==
    /\ pc = "Socket" /\ pc' = "Bind"
    /\ \/ Full /\ socket' = Unset(None)
       \/ \E d \in Fds : Lowest(d) /\ socket' = Unset(d)
    /\ UNCHANGED <<given, epolls, item, ready, clients, port, held>>

\* what bind returns is not looked at; sockets in TIME_WAIT give way to one with
\* SO_REUSEADDR
Bind ==
    /\ held' = port
    /\ Configure("Bind", "Listen",
          IF port = "free" \/ (port = "timewait" /\ socket.reuse)
          THEN [socket EXCEPT !.bound = "told"] ELSE socket)

\* listen gives an unbound socket a port that nobody was told
Listen ==
    /\ Configure("Listen", "SetNonBlocking",
          [socket EXCEPT !.listens = TRUE, !.bound = IF @ = "no" THEN "other" ELSE @])
    /\ UNCHANGED held

SetNonBlocking == /\ Configure("SetNonBlocking", "SetReuseAddr",
                        [socket EXCEPT !.nonblock = TRUE])
                  /\ UNCHANGED held

SetReuseAddr == /\ Configure("SetReuseAddr", "EnableRead", [socket EXCEPT !.reuse = TRUE])
                /\ UNCHANGED held

\* the channel's events, and EPOLL_CTL_ADD or MOD, which looks whether the
\* socket is readable now; a bad descriptor's exception leaves main
UpdateChannel(at, more, next) ==
    /\ pc = at
    /\ \/ socket.fd = None /\ Exit
       \/ /\ socket.fd # None
          /\ item' = item \cup more
          /\ ready' = (ready \/ backlog # <<>>)
          /\ pc' = next
          /\ UNCHANGED <<given, epolls, socket, clients, port, held>>

EnableRead == UpdateChannel("EnableRead", {"in"}, "EnableET")
EnableET   == UpdateChannel("EnableET", {"et"}, "UpdateChannel")
AddToLoop  == UpdateChannel("UpdateChannel", {}, "ReactorSubServer")

SetUpChannel == EnableRead \/ EnableET \/ AddToLoop

\* Start, when every sub reactor is there
Start ==
    /\ pc = "ReactorSubServer" /\ Cardinality(epolls) > subs
    /\ pc' = "wait"
    /\ UNCHANGED <<given, epolls, socket, item, ready, clients, port, held>>

-----------------------------------------------------------------------------
(* The main loop.                                                          *)

\* epoll_wait returns what is still readable; an edge is reported once
Wait ==
    /\ pc = "wait" /\ ready
    /\ pc' = IF backlog = <<>> THEN "wait" ELSE "accept"
    /\ ready' = (backlog # <<>> /\ "et" \notin item)
    /\ UNCHANGED <<given, epolls, socket, item, clients, port, held>>

\* a bug: one client for one event
AcceptOnce ==
    /\ pc = "accept" /\ backlog # <<>> /\ subs > 0 /\ pc' = "wait"
    /\ \E d \in Fds : Lowest(d) /\ fd' = [fd EXCEPT ![Head(backlog)] = d]
    /\ backlog' = Tail(backlog)
    /\ UNCHANGED <<given, epolls, socket, item, ready, exhausted, port, held>>

\* a bug: what accept4 returned is not looked at
AcceptUnchecked ==
    /\ pc = "accept" /\ backlog # <<>> /\ subs > 0
    /\ \/ Full /\ fd' = [fd EXCEPT ![Head(backlog)] = -1]
       \/ \E d \in Fds : Lowest(d) /\ fd' = [fd EXCEPT ![Head(backlog)] = d]
    /\ backlog' = Tail(backlog)
    /\ UNCHANGED <<pc, given, epolls, socket, item, ready, exhausted, port, held>>

\* one turn of the accept loop, which hands the client to a sub reactor
Accept ==
    /\ pc = "accept" /\ backlog # <<>> /\ subs > 0
    /\ \E d \in Fds : Lowest(d) /\ fd' = [fd EXCEPT ![Head(backlog)] = d]
    /\ backlog' = Tail(backlog)
    /\ UNCHANGED <<pc, given, epolls, socket, item, ready, exhausted, port, held>>

\* Hash divides by the number of sub reactors
AcceptDivides == pc = "accept" /\ backlog # <<>> /\ ~Full /\ subs = 0 /\ Exit

\* EAGAIN, which only a non-blocking socket gives; or EMFILE
AcceptEnds ==
    /\ pc = "accept" /\ pc' = "wait"
    /\ \/ backlog = <<>> /\ socket.nonblock /\ UNCHANGED exhausted
       \/ backlog # <<>> /\ Full /\ exhausted' = TRUE
    /\ UNCHANGED <<given, epolls, socket, item, ready, backlog, fd, port, held>>

-----------------------------------------------------------------------------
(* The others.                                                             *)

Connect(c) ==
    /\ socket.listens /\ socket.bound = "told"
    /\ c \notin Pending \cup Accepted /\ Len(backlog) < ListenMax
    /\ backlog' = Append(backlog, c)
    /\ ready' = (ready \/ "in" \in item)
    /\ exhausted' = FALSE
    /\ UNCHANGED <<pc, given, epolls, socket, item, fd, port, held>>

\* a sub reactor closes the Connection; who closes first is left in TIME_WAIT
Close(c) ==
    /\ c \in Accepted
    /\ fd' = [fd EXCEPT ![c] = None]
    /\ port' \in {port} \cup {p \in {"timewait"} : port = "free"}
    /\ UNCHANGED <<pc, given, epolls, socket, item, ready, backlog, exhausted, held>>

\* TIME_WAIT runs out; another process takes the port, and leaves it
PortChanges ==
    /\ \/ port = "timewait" /\ port' = "free"
       \/ port = "free" /\ socket.bound # "told" /\ port' = "rival"
       \/ port = "rival" /\ port' = "free"
    /\ UNCHANGED <<pc, given, epolls, socket, item, ready, clients, held>>

Killed == pc # "dead" /\ Exit

Restart ==
    /\ pc = "dead" /\ pc' = "Epoll"
    /\ UNCHANGED <<given, epolls, socket, item, ready, clients, port, held>>

MainStep == \/ MainEpoll \/ MakeSocket \/ Bind \/ Listen \/ SetNonBlocking \/ SetReuseAddr
            \/ SetUpChannel \/ SubEpoll \/ Start
            \/ Wait \/ Accept \/ AcceptDivides \/ AcceptEnds

Init ==
    /\ pc = "Epoll"
    /\ subs \in SubNums
    /\ inherited \in {0 .. n : n \in -1 .. MaxFd}
    /\ epolls = {} /\ socket = Unset(None) /\ item = {} /\ ready = FALSE
    /\ backlog = <<>> /\ fd = [c \in Clients |-> None] /\ exhausted = FALSE
    /\ port \in {"free", "timewait", "rival"} /\ held = "free"

Next == \/ MainStep \/ PortChanges \/ Killed \/ Restart
        \/ \E c \in Clients : Connect(c) \/ Close(c)

Spec == Init /\ [][Next]_vars

-----------------------------------------------------------------------------
(* Type correctness.                                                       *)
TypeOK ==
    /\ pc \in Starting \cup Looping \cup {"dead"}
    /\ subs \in SubNums /\ inherited \subseteq Fds /\ epolls \subseteq Fds
    /\ socket \in [fd : Fds \cup {None}, bound : {"no", "told", "other"},
                   listens : BOOLEAN, nonblock : BOOLEAN, reuse : BOOLEAN]
    /\ item \subseteq {"in", "et"} /\ ready \in BOOLEAN
    /\ backlog \in Seq(Clients) /\ Len(backlog) <= ListenMax
    /\ fd \in [Clients -> Fds \cup {None}]
    /\ port \in {"free", "timewait", "rival"} /\ held \in {"free", "timewait", "rival"}
    /\ exhausted \in BOOLEAN

(* The main loop never waits with a client in the backlog that no event    *)
(* will report, whenever the client came: before the socket was in epoll,  *)
(* between its registration and its change to edges, during the accept     *)
(* loop or after it; unless accept4 met the descriptor limit, and nobody   *)
(* has connected since (Accepter.cpp:22-25,34,46).                         *)
StrandedOnlyAtLimit == pc = "wait" /\ backlog # <<>> => ready \/ exhausted

(* Started, bound, asleep or accepting, at the limit or killed, the main   *)
(* loop takes clients as AcceptQueue has it; so an edge that is reported   *)
(* once is enough (Accepter.cpp:22-25,34).                                 *)
Accepting == INSTANCE AcceptQueue WITH loop    <- IF pc \in Looping THEN pc ELSE "away",
                                       event   <- pc \in Looping /\ ready,
                                       waiting <- Pending,
                                       socket  <- fd,
                                       spare   <- ~Full,
                                       short   <- exhausted
ImplementsAccepting == Accepting!Spec

(* A server that has come to its loop has a non-blocking socket that       *)
(* listens, and on the port it was told exactly if nobody else held that   *)
(* when it asked: a failed Bind stops nothing, and TIME_WAIT is enough for *)
(* one (Accepter.cpp:17-20, Socket.cpp:46).                                *)
ListensUnlessHeld ==
    pc \in Looping => /\ socket.listens /\ socket.nonblock
                      /\ socket.bound = "told" <=> held = "free"

(* A server started again while its port is in TIME_WAIT listens on it,    *)
(* as SetReuseAddr is there for (Socket.h:37); it does not                 *)
(* (Accepter.cpp:20).                                                      *)
ReusesTimeWait == pc \in Looping /\ held = "timewait" => socket.bound = "told"
=============================================================================
