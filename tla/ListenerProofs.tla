--------------------------- MODULE ListenerProofs ---------------------------
(***************************************************************************)
(* Theorems about Listener, for any number of clients, descriptors and sub *)
(* reactors: which clients are never left in the backlog, and what a       *)
(* server in its loop listens on.                                          *)
(***************************************************************************)
EXTENDS Listener, TLAPS, SequenceTheorems

USE MaxFdAssumption, SubNumsAssumption, ListenMaxAssumption, NoneAssumption

Registered == {"EnableET", "UpdateChannel", "ReactorSubServer"} \cup Looping
Configured == {"SetReuseAddr", "EnableRead"} \cup Registered

\* a client in the backlog of a registered socket is known to epoll or to the loop
Noticed ==
    /\ pc \in Registered => "in" \in item
    /\ "in" \in item /\ backlog # <<>> => ready \/ exhausted \/ pc = "accept"

\* what the calls that came before have made of the socket
Set ==
    /\ pc \in {"dead", "Epoll", "Socket"} => socket = Unset(None)
    /\ pc = "Bind" => socket = Unset(socket.fd)
    /\ pc = "Listen" => socket.bound \in {"no", "told"}
    /\ socket.fd # None /\ pc \in {"SetNonBlocking"} \cup Configured =>
          (socket.bound = "told" <=> held = "free")
    /\ socket.fd # None /\ pc = "Listen" => (socket.bound = "told" <=> held = "free")
    /\ socket.fd # None /\ pc \in {"SetNonBlocking"} \cup Configured => socket.listens
    /\ socket.fd # None /\ pc \in Configured => socket.nonblock
    /\ pc \in Registered => socket.fd # None

Safe == TypeOK /\ Noticed /\ Set

LEMMA InitSafe == Init => Safe
<1> SUFFICES ASSUME Init PROVE Safe
    OBVIOUS
<1> USE DEF Init
<1>1. inherited \subseteq Fds
    BY DEF Fds
<1>2. backlog \in Seq(Clients) /\ Len(backlog) = 0
    OBVIOUS
<1>3. socket \in [fd : Fds \cup {None}, bound : {"no", "told", "other"},
                  listens : BOOLEAN, nonblock : BOOLEAN, reuse : BOOLEAN]
    BY DEF Unset
<1>4. fd \in [Clients -> Fds \cup {None}]
    OBVIOUS
<1>5. Len(backlog) <= ListenMax
    BY <1>2
<1>6. TypeOK
    BY <1>1, <1>2, <1>3, <1>4, <1>5, Zenon DEF TypeOK, Starting
<1>7. Noticed /\ Set
    BY DEF Noticed, Set, Configured, Registered, Looping
<1> QED
    BY <1>6, <1>7 DEF Safe

LEMMA ExitSafe ==
    ASSUME Safe, Exit
    PROVE  Safe'
<1> USE DEF Exit, Safe, given
<1>1. backlog' \in Seq(Clients) /\ Len(backlog') <= ListenMax
    OBVIOUS
<1>2. socket' \in [fd : Fds \cup {None}, bound : {"no", "told", "other"},
                   listens : BOOLEAN, nonblock : BOOLEAN, reuse : BOOLEAN]
    BY DEF Unset
<1>3. fd' \in [Clients -> Fds \cup {None}]
    OBVIOUS
<1>4. port' \in {"free", "timewait", "rival"}
    BY DEF TypeOK
<1>5. TypeOK'
    BY <1>1, <1>2, <1>3, <1>4 DEF TypeOK, Starting, Looping
<1>6. Noticed' /\ Set'
    BY DEF Noticed, Set, Configured, Registered, Looping, Unset
<1> QED
    BY <1>5, <1>6

LEMMA LowestIs == \A d : Lowest(d) => d \in Fds
BY DEF Lowest

LEMMA MakeEpollSafe ==
    ASSUME Safe, MainEpoll \/ SubEpoll
    PROVE  Safe'
<1> USE DEF Safe
<1>1. CASE Exit
    BY <1>1, ExitSafe
<1>2. CASE \E d \in Fds :
          /\ Lowest(d)
          /\ epolls' = epolls \cup {d}
          /\ pc' = IF pc = "Epoll" THEN "Socket" ELSE pc
          /\ UNCHANGED <<given, socket, item, ready, clients, port, held>>
  <2>1. /\ epolls' \subseteq Fds
        /\ (pc = "Epoll" /\ pc' = "Socket") \/ (pc = "ReactorSubServer" /\ pc' = pc)
        /\ UNCHANGED <<subs, inherited, socket, item, ready, backlog, fd, exhausted, port, held>>
    BY <1>2 DEF MainEpoll, SubEpoll, TypeOK, given, clients
  <2>2. TypeOK'
    BY <2>1 DEF TypeOK, Starting
  <2>3. Noticed' /\ Set'
    BY <2>1 DEF Noticed, Set, Configured, Registered, Looping
  <2> QED
    BY <2>2, <2>3
<1> QED
    BY <1>1, <1>2 DEF MainEpoll, SubEpoll, MakeEpoll

SocketType == [fd : Fds \cup {None}, bound : {"no", "told", "other"},
               listens : BOOLEAN, nonblock : BOOLEAN, reuse : BOOLEAN]

\* a step of the main thread that changes the socket
LEMMA SocketSafe ==
    ASSUME Safe, MakeSocket \/ Bind \/ Listen \/ SetNonBlocking \/ SetReuseAddr
    PROVE  Safe'
<1> USE DEF Safe
<1>1. /\ UNCHANGED <<subs, inherited, epolls, item, ready, backlog, fd, exhausted, port>>
      /\ pc \in {"Socket", "Bind", "Listen", "SetNonBlocking", "SetReuseAddr"}
      /\ pc' \in Starting /\ pc' \notin Registered /\ pc' # "dead" /\ pc' # "accept"
      /\ held' \in {held, port}
    BY DEF MakeSocket, Bind, Listen, SetNonBlocking, SetReuseAddr, Configure, given, clients,
           Starting, Registered, Looping
<1>2. socket \in SocketType
    BY DEF TypeOK, SocketType
<1>3. CASE MakeSocket
  <2>1. PICK d \in Fds \cup {None} : socket' = Unset(d)
    BY <1>3 DEF MakeSocket
  <2>2. socket' \in SocketType /\ socket' = Unset(socket'.fd) /\ pc' = "Bind"
    BY <1>3, <2>1 DEF MakeSocket, Unset, SocketType
  <2>3. Set'
    BY <2>2 DEF Set, Configured, Registered, Looping
  <2> QED
    BY <1>1, <2>2, <2>3 DEF TypeOK, Noticed, SocketType
<1>4. CASE Bind
  <2>1. socket = Unset(socket.fd) /\ ~socket.reuse /\ socket.bound = "no"
    <3>1. socket = Unset(socket.fd)
        BY <1>4 DEF Bind, Configure, Set
    <3> QED
        BY <3>1 DEF Unset
  <2>2. socket' = IF socket.fd # None /\ port = "free" THEN [socket EXCEPT !.bound = "told"]
                  ELSE socket
    BY <1>4, <2>1 DEF Bind, Configure
  <2>3. socket' \in SocketType /\ socket'.fd = socket.fd
    BY <1>2, <2>2 DEF SocketType
  <2>4. /\ socket'.bound \in {"no", "told"}
        /\ socket.fd # None => (socket'.bound = "told" <=> port = "free")
    BY <1>2, <2>1, <2>2 DEF SocketType
  <2>5. Set'
    BY <1>4, <2>3, <2>4 DEF Set, Bind, Configure, Configured, Registered, Looping
  <2> QED
    BY <1>1, <2>3, <2>5 DEF TypeOK, Noticed, SocketType
<1>5. CASE Listen
  <2>1. socket' = IF socket.fd = None THEN socket
                  ELSE [socket EXCEPT !.listens = TRUE,
                          !.bound = IF @ = "no" THEN "other" ELSE @]
    BY <1>5 DEF Listen, Configure
  <2>2. socket.bound \in {"no", "told"} /\ pc' = "SetNonBlocking" /\ held' = held
        /\ (socket.fd # None => (socket.bound = "told" <=> held = "free"))
    BY <1>5 DEF Listen, Configure, Set
  <2>3. socket' \in SocketType /\ socket'.fd = socket.fd
    BY <1>2, <2>1 DEF SocketType
  <2>4. socket.fd # None => /\ socket'.listens
                            /\ socket'.bound = "told" <=> socket.bound = "told"
    BY <1>2, <2>1, <2>2 DEF SocketType
  <2>5. Set'
    BY <2>2, <2>3, <2>4 DEF Set, Configured, Registered, Looping
  <2> QED
    BY <1>1, <2>3, <2>5 DEF TypeOK, Noticed, SocketType
<1>6. CASE SetNonBlocking \/ SetReuseAddr
  <2>1. \/ /\ pc = "SetNonBlocking" /\ pc' = "SetReuseAddr"
           /\ socket' = IF socket.fd = None THEN socket ELSE [socket EXCEPT !.nonblock = TRUE]
        \/ /\ pc = "SetReuseAddr" /\ pc' = "EnableRead"
           /\ socket' = IF socket.fd = None THEN socket ELSE [socket EXCEPT !.reuse = TRUE]
    BY <1>6 DEF SetNonBlocking, SetReuseAddr, Configure
  <2>2. held' = held
    BY <1>6 DEF SetNonBlocking, SetReuseAddr
  <2>3. /\ socket' \in SocketType /\ socket'.fd = socket.fd
        /\ socket'.bound = socket.bound /\ socket'.listens = socket.listens
        /\ socket.fd # None => socket'.nonblock = (pc = "SetNonBlocking" \/ socket.nonblock)
    BY <1>2, <2>1 DEF SocketType
  <2>4. Set'
    BY <2>1, <2>2, <2>3 DEF Set, Configured, Registered, Looping
  <2> QED
    BY <1>1, <2>3, <2>4 DEF TypeOK, Noticed, SocketType
<1> QED
    BY <1>3, <1>4, <1>5, <1>6

LEMMA ChannelSafe ==
    ASSUME Safe, SetUpChannel
    PROVE  Safe'
<1> USE DEF Safe
<1>1. CASE Exit
    BY <1>1, ExitSafe
<1>2. CASE ~Exit
  <2>1. /\ pc \in {"EnableRead", "EnableET", "UpdateChannel"} /\ socket.fd # None
        /\ pc' \in {"EnableET", "UpdateChannel", "ReactorSubServer"}
        /\ UNCHANGED <<subs, inherited, epolls, socket, backlog, fd, exhausted, port, held>>
        /\ ready' = (ready \/ backlog # <<>>)
    BY <1>2 DEF SetUpChannel, EnableRead, EnableET, AddToLoop, UpdateChannel, given, clients
  <2>2. item' \subseteq {"in", "et"} /\ "in" \in item'
    BY <1>2 DEF SetUpChannel, EnableRead, EnableET, AddToLoop, UpdateChannel, TypeOK, Noticed, Registered
  <2>3. ready' \in BOOLEAN
    BY <2>1, Zenon
  <2>4. backlog # <<>> => ready'
    BY <2>1, Zenon
  <2>5. TypeOK'
    BY <2>1, <2>2, <2>3 DEF TypeOK, Starting
  <2>6. Noticed'
    BY <2>1, <2>2, <2>4 DEF Noticed
  <2>7. Set'
    BY <2>1 DEF Set, Configured, Registered, Looping
  <2> QED
    BY <2>5, <2>6, <2>7
<1> QED
    BY <1>1, <1>2

LEMMA LoopSafe ==
    ASSUME Safe, Start \/ Wait \/ Accept \/ AcceptEnds
    PROVE  Safe'
<1> USE DEF Safe
<1>1. /\ pc \in {"ReactorSubServer", "wait", "accept"} /\ pc' \in Looping
      /\ UNCHANGED <<subs, inherited, epolls, socket, item, port, held>>
    BY DEF Start, Wait, Accept, AcceptEnds, given, Looping
<1>2. "in" \in item
    BY <1>1 DEF Noticed, Registered, Looping
<1>3. Set'
    BY <1>1 DEF Set, Configured, Registered, Looping
<1>4. CASE Start
    BY <1>1, <1>2, <1>3, <1>4 DEF Start, clients, TypeOK, Noticed
<1>5. CASE Wait
  <2>1. /\ ready' = (backlog # <<>> /\ "et" \notin item)
        /\ pc' = IF backlog = <<>> THEN "wait" ELSE "accept"
        /\ UNCHANGED <<backlog, fd, exhausted>>
    BY <1>5 DEF Wait, clients
  <2>2. ready' \in BOOLEAN
    BY <2>1, Zenon
  <2> QED
    BY <1>1, <1>2, <1>3, <2>1, <2>2 DEF TypeOK, Noticed
<1>6. CASE Accept
  <2>1. PICK d \in Fds : fd' = [fd EXCEPT ![Head(backlog)] = d]
    BY <1>6 DEF Accept
  <2>2. /\ pc' = "accept" /\ backlog # <<>> /\ backlog' = Tail(backlog)
        /\ UNCHANGED <<ready, exhausted>>
    BY <1>6 DEF Accept
  <2>3. backlog' \in Seq(Clients) /\ Len(backlog') <= ListenMax
    <3>1. backlog \in Seq(Clients) /\ Len(backlog) <= ListenMax
        BY DEF TypeOK
    <3> QED
        BY <2>2, <3>1
  <2>4. fd' \in [Clients -> Fds \cup {None}]
    BY <2>1 DEF TypeOK
  <2> QED
    BY <1>1, <1>2, <1>3, <2>2, <2>3, <2>4 DEF TypeOK, Noticed
<1>7. CASE AcceptEnds
  <2>1. /\ pc' = "wait" /\ UNCHANGED <<ready, backlog, fd>>
        /\ \/ backlog = <<>> /\ UNCHANGED exhausted
           \/ exhausted' = TRUE
    BY <1>7 DEF AcceptEnds
  <2> QED
    BY <1>1, <1>2, <1>3, <2>1 DEF TypeOK, Noticed
<1> QED
    BY <1>4, <1>5, <1>6, <1>7

LEMMA OthersSafe ==
    ASSUME Safe, \/ PortChanges \/ Restart
                 \/ \E c \in Clients : Connect(c) \/ Close(c)
    PROVE  Safe'
<1> USE DEF Safe
<1>1. CASE PortChanges
  <2>1. /\ port' \in {"free", "rival"}
        /\ UNCHANGED <<pc, subs, inherited, epolls, socket, item, ready, backlog, fd, exhausted, held>>
    BY <1>1 DEF PortChanges, given, clients
  <2> QED
    BY <2>1 DEF TypeOK, Noticed, Set
<1>2. CASE Restart
  <2>1. /\ pc = "dead" /\ pc' = "Epoll"
        /\ UNCHANGED <<subs, inherited, epolls, socket, item, ready, backlog, fd, exhausted, port, held>>
    BY <1>2 DEF Restart, given, clients
  <2> QED
    BY <2>1 DEF TypeOK, Noticed, Set, Starting, Configured, Registered, Looping
<1>3. ASSUME NEW c \in Clients, Connect(c) PROVE Safe'
  <2>1. /\ ready' = (ready \/ "in" \in item) /\ exhausted' = FALSE
        /\ backlog' = Append(backlog, c) /\ Len(backlog) < ListenMax
        /\ UNCHANGED <<pc, subs, inherited, epolls, socket, item, fd, port, held>>
    BY <1>3 DEF Connect, given
  <2>2. backlog' \in Seq(Clients) /\ Len(backlog') <= ListenMax
    <3>1. backlog \in Seq(Clients)
        BY DEF TypeOK
    <3> QED
        BY <2>1, <3>1
  <2>3. ready' \in BOOLEAN /\ ("in" \in item => ready')
    BY <2>1, Zenon
  <2>4. exhausted' \in BOOLEAN
    BY <2>1, Zenon
  <2>5. TypeOK'
    BY <2>1, <2>2, <2>3, <2>4 DEF TypeOK
  <2>6. Noticed'
    BY <2>1, <2>3 DEF Noticed
  <2>7. Set'
    BY <2>1 DEF Set
  <2> QED
    BY <2>5, <2>6, <2>7
<1>4. ASSUME NEW c \in Clients, Close(c) PROVE Safe'
  <2>1. /\ fd' \in [Clients -> Fds \cup {None}] /\ port' \in {port, "timewait"}
        /\ UNCHANGED <<pc, subs, inherited, epolls, socket, item, ready, backlog, exhausted, held>>
    BY <1>4 DEF Close, given, TypeOK
  <2> QED
    BY <2>1 DEF TypeOK, Noticed, Set
<1> QED
    BY <1>1, <1>2, <1>3, <1>4

LEMMA StepSafe == Safe /\ [Next]_vars => Safe'
<1> SUFFICES ASSUME Safe, [Next]_vars PROVE Safe'
    OBVIOUS
<1>1. CASE UNCHANGED vars
    BY <1>1 DEF vars, given, clients, Safe, TypeOK, Noticed, Set
<1>2. CASE MainStep
    BY <1>2, MakeEpollSafe, SocketSafe, ChannelSafe, LoopSafe, ExitSafe DEF MainStep, AcceptDivides
<1> QED
    BY <1>1, <1>2, OthersSafe, ExitSafe DEF Next, Killed

LEMMA AlwaysSafe == Spec => []Safe
BY InitSafe, StepSafe, PTL DEF Spec

-----------------------------------------------------------------------------

\* The Accepter's state has its type (TypeOK).
THEOREM TypeCorrect == Spec => []TypeOK
<1>1. Safe => TypeOK
    BY DEF Safe
<1> QED
    BY <1>1, AlwaysSafe, PTL

\* No client is left in the backlog without an event to come, but at the descriptor
\* limit (StrandedOnlyAtLimit).
THEOREM NobodyStranded == Spec => []StrandedOnlyAtLimit
<1>1. Safe => StrandedOnlyAtLimit
    BY DEF Safe, Noticed, StrandedOnlyAtLimit, Registered, Looping
<1> QED
    BY <1>1, AlwaysSafe, PTL

\* A server in its loop listens on the told port exactly if that was free
\* (ListensUnlessHeld).
THEOREM Listens == Spec => []ListensUnlessHeld
<1>1. Safe => ListensUnlessHeld
    BY DEF Safe, Set, ListensUnlessHeld, Configured, Registered, Looping
<1> QED
    BY <1>1, AlwaysSafe, PTL
-----------------------------------------------------------------------------
(* The main loop takes clients as AcceptQueue has it.                      *)

\* a client is once in the backlog, and not accepted as long; by the time the loop
\* begins, epoll reports edges; and nobody has been short of descriptors before it
Queued ==
    /\ \A i, k \in DOMAIN backlog : backlog[i] = backlog[k] => i = k
    /\ \A i \in DOMAIN backlog : fd[backlog[i]] = None
    /\ pc \in {"UpdateChannel", "ReactorSubServer"} \cup Looping => "et" \in item
    /\ pc \notin Looping => ~exhausted

LEMMA InitQueued == Init => Queued
BY DEF Init, Queued, Looping

\* a step that takes nobody into the backlog and nobody out of it
LEMMA QueuedFrame ==
    ASSUME Safe, Queued, UNCHANGED <<backlog, fd>>, "et" \in item => "et" \in item',
           pc' \in {"UpdateChannel", "ReactorSubServer"} \cup Looping =>
              pc \in {"UpdateChannel", "ReactorSubServer"} \cup Looping \/ "et" \in item',
           \/ UNCHANGED exhausted /\ (pc' \notin Looping => pc \notin Looping)
           \/ pc' \in Looping
    PROVE  Queued'
BY DEF Queued

\* who is in the backlog when a client comes, and when one is accepted
LEMMA PendingAppend ==
    ASSUME NEW s \in Seq(Clients), NEW c \in Clients
    PROVE  /\ Append(s, c) \in Seq(Clients) /\ DOMAIN Append(s, c) = DOMAIN s \cup {Len(s) + 1}
           /\ \A i \in DOMAIN s : Append(s, c)[i] = s[i]
           /\ Append(s, c)[Len(s) + 1] = c
           /\ {Append(s, c)[i] : i \in DOMAIN Append(s, c)} = {s[i] : i \in DOMAIN s} \cup {c}
<1>1. /\ Append(s, c) \in Seq(Clients) /\ DOMAIN Append(s, c) = DOMAIN s \cup {Len(s) + 1}
      /\ \A i \in DOMAIN s : Append(s, c)[i] = s[i]
      /\ Append(s, c)[Len(s) + 1] = c
    OBVIOUS
<1> QED
    BY <1>1

LEMMA PendingTail ==
    ASSUME NEW s \in Seq(Clients), s # <<>>,
           \A i, k \in DOMAIN s : s[i] = s[k] => i = k
    PROVE  /\ Head(s) \in Clients /\ Head(s) = s[1] /\ 1 \in DOMAIN s
           /\ \A i \in DOMAIN Tail(s) : Tail(s)[i] = s[i + 1] /\ i + 1 \in DOMAIN s /\ i + 1 # 1
           /\ {Tail(s)[i] : i \in DOMAIN Tail(s)} = {s[i] : i \in DOMAIN s} \ {Head(s)}
<1>1. /\ Head(s) \in Clients /\ Head(s) = s[1] /\ 1 \in DOMAIN s
      /\ \A i \in DOMAIN Tail(s) : Tail(s)[i] = s[i + 1] /\ i + 1 \in DOMAIN s /\ i + 1 # 1
      /\ \A k \in DOMAIN s : k # 1 => k - 1 \in DOMAIN Tail(s) /\ s[k] = Tail(s)[k - 1]
    OBVIOUS
<1>2. ASSUME NEW x
      PROVE  (\E i \in DOMAIN Tail(s) : x = Tail(s)[i])
                <=> (\E k \in DOMAIN s : x = s[k]) /\ x # Head(s)
  <2>1. ASSUME NEW i \in DOMAIN Tail(s), x = Tail(s)[i]
        PROVE  (\E k \in DOMAIN s : x = s[k]) /\ x # Head(s)
    BY <1>1, <2>1
  <2>2. ASSUME NEW k \in DOMAIN s, x = s[k], x # Head(s)
        PROVE  \E i \in DOMAIN Tail(s) : x = Tail(s)[i]
    BY <1>1, <2>2
  <2> QED
    BY <2>1, <2>2
<1> QED
    BY <1>1, <1>2

LEMMA StepQueued == Safe /\ Queued /\ [Next]_vars => Queued'
<1> SUFFICES ASSUME Safe, Queued, [Next]_vars PROVE Queued'
    OBVIOUS
<1>0. backlog \in Seq(Clients) /\ fd \in [Clients -> Fds \cup {None}]
    BY DEF Safe, TypeOK
<1>1. CASE UNCHANGED vars
    BY <1>1 DEF vars, clients, given, Queued
<1>2. CASE Exit
    BY <1>2 DEF Exit, Queued, Looping
<1>3. CASE ~Exit /\ (MainEpoll \/ SubEpoll \/ MakeSocket \/ Bind \/ Listen \/ SetNonBlocking
                     \/ SetReuseAddr \/ Restart \/ PortChanges)
  <2>1. /\ UNCHANGED <<backlog, fd, exhausted, item>>
        /\ pc' # pc => pc' \notin {"UpdateChannel", "ReactorSubServer"} \cup Looping
        /\ pc' # pc => pc \notin Looping
    BY <1>3 DEF MainEpoll, SubEpoll, MakeEpoll, MakeSocket, Bind, Listen, SetNonBlocking,
                SetReuseAddr, Configure, Restart, PortChanges, clients, Looping
  <2> QED
    BY <2>1, QueuedFrame
<1>4. CASE ~Exit /\ SetUpChannel
  <2>1. /\ UNCHANGED <<backlog, fd, exhausted>> /\ pc \notin Looping
        /\ "et" \in item => "et" \in item'
        /\ pc \in {"EnableET", "UpdateChannel"} => "et" \in item' \/ pc = "UpdateChannel"
        /\ pc = "EnableRead" => pc' = "EnableET"
        /\ pc \in {"EnableRead", "EnableET", "UpdateChannel"}
    BY <1>4 DEF SetUpChannel, EnableRead, EnableET, AddToLoop, UpdateChannel, clients, Looping
  <2> QED
    BY <2>1, QueuedFrame DEF Looping
<1>5. CASE Start \/ Wait \/ AcceptEnds
  <2>1. /\ UNCHANGED <<backlog, fd, item>> /\ pc' \in Looping
        /\ pc \in {"ReactorSubServer"} \cup Looping
    BY <1>5 DEF Start, Wait, AcceptEnds, clients, Looping
  <2> QED
    BY <2>1, QueuedFrame
<1>6. CASE Accept
  <2>1. /\ backlog # <<>> /\ backlog' = Tail(backlog)
        /\ \A c \in Clients : c # Head(backlog) => fd'[c] = fd[c]
        /\ UNCHANGED <<pc, item, exhausted>>
    BY <1>0, <1>6 DEF Accept
  <2>2. \A i, k \in DOMAIN backlog : backlog[i] = backlog[k] => i = k
    BY DEF Queued
  <2>3. /\ Head(backlog) = backlog[1] /\ 1 \in DOMAIN backlog
        /\ \A i \in DOMAIN backlog' : /\ backlog'[i] = backlog[i + 1]
                                      /\ i + 1 \in DOMAIN backlog /\ i + 1 # 1
    BY <1>0, <2>1, <2>2, PendingTail
  <2>4. DOMAIN backlog' \subseteq Int /\ \A i \in DOMAIN backlog : backlog[i] \in Clients
    BY <1>0, <2>1
  <2>5. \A i, k \in DOMAIN backlog' : backlog'[i] = backlog'[k] => i = k
    <3> TAKE i, k \in DOMAIN backlog'
    <3>1. backlog'[i] = backlog'[k] => i + 1 = k + 1
        BY <2>2, <2>3
    <3> QED
        BY <2>4, <3>1
  <2>6. ASSUME NEW i \in DOMAIN backlog' PROVE fd'[backlog'[i]] = None
    <3>1. backlog'[i] # Head(backlog) /\ backlog'[i] \in Clients
        BY <2>2, <2>3, <2>4
    <3> QED
        BY <2>1, <2>3, <3>1 DEF Queued
  <2> QED
    BY <2>1, <2>5, <2>6 DEF Queued
<1>7. ASSUME NEW c \in Clients, Connect(c) PROVE Queued'
  <2>1. /\ backlog' = Append(backlog, c) /\ exhausted' = FALSE
        /\ \A i \in DOMAIN backlog : backlog[i] # c
        /\ fd[c] = None /\ UNCHANGED <<pc, fd, item>>
    BY <1>7 DEF Connect, Pending, Accepted
  <2>2. /\ DOMAIN backlog' = DOMAIN backlog \cup {Len(backlog) + 1}
        /\ \A i \in DOMAIN backlog : backlog'[i] = backlog[i]
        /\ backlog'[Len(backlog) + 1] = c
    BY <1>0, <2>1, PendingAppend
  <2> QED
    BY <2>1, <2>2 DEF Queued
<1>8. ASSUME NEW c \in Clients, Close(c) PROVE Queued'
  <2>1. /\ fd' = [fd EXCEPT ![c] = None] /\ UNCHANGED <<pc, backlog, item, exhausted>>
    BY <1>8 DEF Close
  <2>2. \A i \in DOMAIN backlog : backlog[i] \in Clients
    BY <1>0
  <2> QED
    BY <1>0, <2>1, <2>2 DEF Queued
<1> QED
    BY <1>1, <1>2, <1>3, <1>4, <1>5, <1>6, <1>7, <1>8 DEF Next, MainStep, AcceptDivides, Killed

\* before the loop, AcceptQueue sees of the server who is in the backlog
LEMMA Unheard ==
    ASSUME pc \notin Looping, pc' \notin Looping, UNCHANGED clients
    PROVE  UNCHANGED Accepting!vars
<1>1. (pc \in Looping /\ ready)' = (pc \in Looping /\ ready)
    BY Zenon
<1>2. Pending' = Pending
    BY DEF clients, Pending
<1> QED
    BY <1>1, <1>2 DEF Accepting!vars, clients

LEMMA ExitAccepting ==
    ASSUME Exit
    PROVE  Accepting!End
<1>1. pc' \notin Looping /\ (pc \in Looping /\ ready)' = FALSE
    BY DEF Exit, Looping
<1>2. Pending' = {}
    BY DEF Exit, Pending
<1> QED
    BY <1>1, <1>2 DEF Exit, Accepting!End

LEMMA StepAccepting ==
    ASSUME Safe, Queued, [Next]_vars
    PROVE  [Accepting!Next]_Accepting!vars
<1> DEFINE event == pc \in Looping /\ ready
<1>0. /\ backlog \in Seq(Clients) /\ fd \in [Clients -> Fds \cup {None}]
      /\ ready \in BOOLEAN /\ exhausted \in BOOLEAN
      /\ backlog = <<>> => Pending = {}
    BY DEF Safe, TypeOK, Pending
<1>1. CASE UNCHANGED vars
  <2>1. event' = event /\ Pending' = Pending /\ UNCHANGED <<pc, fd, exhausted>>
    BY <1>1 DEF vars, clients, Pending
  <2> QED
    BY <2>1 DEF Accepting!vars
<1>2. CASE Exit
    BY <1>2, ExitAccepting DEF Accepting!Next
<1>3. CASE ~Exit /\ (MainEpoll \/ SubEpoll \/ MakeSocket \/ Bind \/ Listen \/ SetNonBlocking
                     \/ SetReuseAddr \/ Restart \/ SetUpChannel)
  <2>1. pc \notin Looping /\ pc' \notin Looping /\ UNCHANGED clients
    BY <1>3 DEF MainEpoll, SubEpoll, MakeEpoll, MakeSocket, Bind, Listen, SetNonBlocking,
                SetReuseAddr, Configure, Restart, SetUpChannel, EnableRead, EnableET, AddToLoop,
                UpdateChannel, Looping
  <2> QED
    BY <2>1, Unheard
<1>4. CASE Start
  <2>1. /\ pc = "ReactorSubServer" /\ pc' = "wait"
        /\ UNCHANGED <<ready, backlog, fd, exhausted>>
    BY <1>4 DEF Start, clients
  <2>2. backlog # <<>> => ready
    BY <2>1 DEF Safe, Noticed, Queued, Registered, Looping
  <2>3. event' \in BOOLEAN /\ Pending' = Pending /\ (Pending # {} => event')
    BY <1>0, <2>1, <2>2 DEF Pending, Looping
  <2>4. Accepting!Begin
    BY <2>1, <2>3 DEF Accepting!Begin, Looping
  <2> QED
    BY <2>4 DEF Accepting!Next
<1>5. CASE Wait
  <2>1. /\ pc = "wait" /\ ready /\ pc' = IF backlog = <<>> THEN "wait" ELSE "accept"
        /\ ready' = (backlog # <<>> /\ "et" \notin item) /\ UNCHANGED <<backlog, fd, exhausted>>
    BY <1>5 DEF Wait, clients
  <2>2. event /\ event' = FALSE /\ Pending' = Pending
    BY <2>1 DEF Queued, Looping, Pending
  <2>3. Accepting!Wake
    BY <1>0, <2>1, <2>2 DEF Accepting!Wake, Looping
  <2> QED
    BY <2>3 DEF Accepting!Next
<1>6. CASE Accept
  <2>1. PICK d \in Fds : Lowest(d) /\ fd' = [fd EXCEPT ![Head(backlog)] = d]
    BY <1>6 DEF Accept
  <2>2. /\ pc = "accept" /\ backlog # <<>> /\ backlog' = Tail(backlog)
        /\ UNCHANGED <<pc, ready, exhausted>>
    BY <1>6 DEF Accept
  <2>3. /\ Head(backlog) \in Clients /\ Head(backlog) \in Pending
        /\ Pending' = Pending \ {Head(backlog)}
    <3>1. \A i, k \in DOMAIN backlog : backlog[i] = backlog[k] => i = k
        BY DEF Queued
    <3>2. /\ Head(backlog) \in Clients /\ Head(backlog) = backlog[1] /\ 1 \in DOMAIN backlog
          /\ {Tail(backlog)[i] : i \in DOMAIN Tail(backlog)}
                = {backlog[i] : i \in DOMAIN backlog} \ {Head(backlog)}
        BY <1>0, <2>2, <3>1, PendingTail
    <3> QED
        BY <2>2, <3>2 DEF Pending
  <2>4. ~Full /\ \A c \in Clients : fd[c] # d
    BY <2>1 DEF Lowest, Full, Used
  <2>5. event' = event
    BY <2>2
  <2>6. Accepting!Take(Head(backlog), d)
    BY <2>1, <2>2, <2>3, <2>4, <2>5 DEF Accepting!Take, Looping
  <2> QED
    BY <2>1, <2>3, <2>6 DEF Accepting!Next
<1>7. CASE AcceptEnds
  <2>1. /\ pc = "accept" /\ pc' = "wait" /\ UNCHANGED <<ready, backlog, fd>>
        /\ \/ backlog = <<>> /\ UNCHANGED exhausted
           \/ Full /\ exhausted' = TRUE
    BY <1>7 DEF AcceptEnds
  <2>2. event' = event /\ Pending' = Pending
    BY <2>1 DEF Looping, Pending
  <2>3. Accepting!Stop
    BY <1>0, <2>1, <2>2 DEF Accepting!Stop, Looping
  <2> QED
    BY <2>3 DEF Accepting!Next
<1>8. ASSUME NEW c \in Clients, Connect(c)
      PROVE  [Accepting!Next]_Accepting!vars
  <2>1. /\ c \notin Pending /\ fd[c] = None /\ backlog' = Append(backlog, c)
        /\ ready' = (ready \/ "in" \in item) /\ exhausted' = FALSE /\ UNCHANGED <<pc, fd>>
    BY <1>8 DEF Connect, Accepted
  <2>2. Pending' = Pending \cup {c}
    BY <1>0, <2>1, PendingAppend DEF Pending
  <2>3. pc \in Looping => "in" \in item
    BY DEF Safe, Noticed, Registered
  <2>4. event' = (pc \in Looping)
    <3>1. CASE pc \in Looping
      <4>1. event' = TRUE /\ (pc \in Looping) = TRUE
        BY <2>1, <2>3, <3>1
      <4> QED
        BY <4>1
    <3>2. CASE pc \notin Looping
        BY <2>1, <3>2
    <3> QED
        BY <3>1, <3>2
  <2>5. (pc \in Looping) = ((IF pc \in Looping THEN pc ELSE "away") # "away")
    BY DEF Looping
  <2>6. Accepting!Come(c)
    BY <2>1, <2>2, <2>4, <2>5 DEF Accepting!Come
  <2> QED
    BY <2>6 DEF Accepting!Next
<1>9. ASSUME NEW c \in Clients, Close(c)
      PROVE  [Accepting!Next]_Accepting!vars
  <2>1. /\ fd[c] # None /\ fd' = [fd EXCEPT ![c] = None]
        /\ UNCHANGED <<pc, ready, backlog, exhausted>>
    BY <1>9 DEF Close, Accepted
  <2>2. event' = event /\ Pending' = Pending
    BY <2>1 DEF Pending
  <2>3. Accepting!Leave(c)
    BY <2>1, <2>2 DEF Accepting!Leave
  <2> QED
    BY <2>3 DEF Accepting!Next
<1>10. CASE PortChanges
  <2>1. event' = event /\ Pending' = Pending /\ UNCHANGED <<pc, fd, exhausted>>
    BY <1>10 DEF PortChanges, clients, Pending
  <2> QED
    BY <2>1 DEF Accepting!vars
<1> QED
    BY <1>1, <1>2, <1>3, <1>4, <1>5, <1>6, <1>7, <1>8, <1>9, <1>10
    DEF Next, MainStep, AcceptDivides, Killed

\* The main loop, from the constructor's calls to the descriptor limit and through
\* restarts, takes clients as AcceptQueue promises (ImplementsAccepting).
THEOREM Implements == Spec => ImplementsAccepting
<1>1. Init => Accepting!Init
  <2> SUFFICES ASSUME Init PROVE Accepting!Init
    OBVIOUS
  <2>1. pc \notin Looping /\ (pc \in Looping /\ ready) = FALSE /\ Pending = {}
    BY DEF Init, Looping, Pending
  <2> QED
    BY <2>1 DEF Init, Accepting!Init
<1> QED
    BY <1>1, InitSafe, StepSafe, InitQueued, StepQueued, StepAccepting, PTL
    DEF Spec, ImplementsAccepting, Accepting!Spec

=============================================================================
