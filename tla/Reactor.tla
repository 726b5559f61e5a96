------------------------------ MODULE Reactor ------------------------------
(***************************************************************************)
(* The server as it runs: the main thread accepts clients and builds a     *)
(* Connection for each; every sub reactor's loop runs as a task that never *)
(* ends on a thread of the pool, polls its own epoll instance and commits  *)
(* one task per ready channel, a raw pointer, back to the same pool; the   *)
(* thread that takes such a task receives the request, answers and closes. *)
(*                                                                         *)
(* A step is one system call, one locked section, or one access to memory  *)
(* another thread may be writing.  TCP is what the two ends see of it:     *)
(* chunks sent and received, a FIN, a reset.  A reference count is the set *)
(* of its holders, and the object dies in the step that empties it.        *)
(***************************************************************************)
EXTENDS Integers, Sequences, FiniteSets

CONSTANTS
    Conns,          \* clients, and the Connection object of each
    Fds,            \* descriptors left for connections (RLIMIT_NOFILE)
    SubNum,         \* ReactorMainServer's sub_server_num
    Threads,        \* threads of the pool (hardware_concurrency)
    MaxSend,        \* bound: chunks a client sends
    CallbackThrows, \* whether the message callback may throw
    None            \* no connection, no descriptor, no job, no owner

Subs == 0 .. SubNum - 1

ASSUME SubNumAssumption == SubNum \in Nat \ {0}
ASSUME MaxSendAssumption == MaxSend \in Nat
ASSUME FdsAssumption == Fds \subseteq Nat
ASSUME ThrowsAssumption == CallbackThrows \in BOOLEAN
ASSUME ThreadsAssumption == {"main", "map", None} \cap Threads = {}
ASSUME PoolAssumption == IsFiniteSet(Threads)
ASSUME NamesAssumption == /\ Conns \cap Subs = {}
                          /\ None \notin Conns \cup Fds \cup Subs
                          /\ None # "main"

VARIABLES
    committed,       \* sub reactor loops Start has committed
    mainPc,          \* where the main thread is
    mainConn,        \* the Connection the main thread is building, or None
    edge,            \* "new": an edge of the listening socket, not yet reported
    client,          \* client[c]: "off", "pending" in the backlog, "accepted"
    sent,            \* sent[c]: chunks the client has sent
    got,             \* got[c]: chunks recv has returned
    peer,            \* peer[c]: "open", "fin" (sent a FIN), "rst" (then reset)
    fd,              \* fd[c]: the socket the Connection owns, or None
    slot,            \* slot[c]: its callbacks and weak_this: unset, torn, set
    interest,        \* interest[c]: its epoll item's events, {} if none
    ready_events,    \* ready_events[c]: what the last epoll_wait stored
    refs,            \* refs[c]: the shared_ptr holders; {} when not alive
    connections_map, \* connections_map[f]: the Connection kept for f, or None
    mutex,           \* owner of the map's mutex_, or None
    tasks,           \* the pool's queue
    pc,              \* pc[t]: where pool thread t is
    job,             \* job[t]: the loop or the channel t works on, or None
    active,          \* active[t]: polled channels loop t has still to commit
    process,         \* "up" or "crashed"
    overtaken,       \* history: handled before the main thread had built them
    threw            \* history: the message callback threw for these

mainVars == <<committed, mainPc, mainConn, edge>>
netVars  == <<client, sent, got, peer>>
objVars  == <<fd, slot, interest, ready_events, refs>>
mapVars  == <<connections_map, mutex>>
poolVars == <<tasks, pc, job, active>>
history  == <<overtaken, threw>>
vars == <<mainVars, netVars, objVars, mapVars, poolVars, process, history>>

Holders   == Threads \cup {"main", "map"}
Slots     == {"read", "weak", "message", "close"}
Assigned  == [Slots -> {"unset", "torn", "set"}]
Events    == {"IN", "PRI", "ET", "ONESHOT", "HUP", "ERR"}
Building  == {"register"} \cup Slots \cup {"lock", "insert"}
MainPcs   == {"start", "wait", "accept", "leave"} \cup Building
Serving   == {"handle", "recv", "message", "reply", "closing"}
Owning    == {"reply", "lock", "erase", "release"}
WorkerPcs == {"idle", "poll"} \cup Serving \cup Owning

-----------------------------------------------------------------------------
(* What the operations below share.                                        *)

\* a registration that keeps reporting the channel while it is being handled
ConnEventsWithoutOneShot == {"IN", "PRI", "ET"}

\* what a Connection asks of epoll
ConnEvents == {"IN", "PRI", "ET", "ONESHOT"}

\* EPOLLONESHOT: once reported, an item keeps no event it could report
Disarm(events) == IF "ONESHOT" \in events THEN events \ {"IN", "PRI"} ELSE events

Armed(c) == interest[c] \cap {"IN", "PRI"} # {}

\* what the kernel finds on the socket: unread data, end of file, a reset
SocketState(c) ==
    (IF got[c] < sent[c] \/ peer[c] # "open" THEN {"IN"} ELSE {})
        \cup (IF peer[c] = "rst" THEN {"HUP", "ERR"} ELSE {})

Hash(f) == f % SubNum

\* the channels epoll_wait reports to loop s
Reported(s) == {c \in Conns : Armed(c) /\ Hash(fd[c]) = s /\ SocketState(c) # {}}

\* what a thread sees of a member that is assigned without synchronisation:
\* a half-swapped std::function can also have its manager and no invoker
Observed(c, s) ==
    IF slot[c][s] # "torn"
    THEN {slot[c][s]}
    ELSE {"unset", "set"} \cup (IF s = "weak" THEN {} ELSE {"crash"})

\* h's shared_ptr goes; the last one destroys the Connection, whose Socket
\* closes the descriptor, which takes it out of epoll
Drop(c, h) ==
    /\ refs' = [refs EXCEPT ![c] = @ \ {h}]
    /\ IF refs[c] \subseteq {h}
       THEN /\ fd' = [fd EXCEPT ![c] = None]
            /\ interest' = [interest EXCEPT ![c] = {}]
       ELSE UNCHANGED <<fd, interest>>

\* a dead process takes no step
MainAt(s) == process = "up" /\ mainPc = s
At(t, s)  == process = "up" /\ pc[t] = s

Crash == /\ process' = "crashed"
         /\ UNCHANGED <<mainVars, netVars, objVars, mapVars, poolVars, history>>

-----------------------------------------------------------------------------
(* The clients.                                                            *)

\* the handshake completes: c enters the backlog, an edge for epoll
Connect(c) ==
    /\ process = "up" /\ client[c] = "off"
    /\ client' = [client EXCEPT ![c] = "pending"]
    /\ edge' = "new"
    /\ UNCHANGED <<committed, mainPc, mainConn, sent, got, peer, objVars,
                   mapVars, poolVars, process, history>>

Send(c) ==
    /\ process = "up" /\ client[c] # "off"
    /\ peer[c] = "open"
    /\ sent[c] < MaxSend
    /\ sent' = [sent EXCEPT ![c] = @ + 1]
    /\ UNCHANGED <<mainVars, client, got, peer, objVars, mapVars, poolVars,
                   process, history>>

\* FIN; a plain reset does the same to recv and to the first send after it
PeerClose(c) ==
    /\ process = "up" /\ client[c] # "off"
    /\ peer[c] = "open"
    /\ peer' = [peer EXCEPT ![c] = "fin"]
    /\ UNCHANGED <<mainVars, client, sent, got, objVars, mapVars, poolVars,
                   process, history>>

\* a reset after the FIN: the next send raises SIGPIPE
PeerReset(c) ==
    /\ process = "up" /\ peer[c] = "fin"
    /\ peer' = [peer EXCEPT ![c] = "rst"]
    /\ UNCHANGED <<mainVars, client, sent, got, objVars, mapVars, poolVars,
                   process, history>>

ClientStep(c) == Connect(c) \/ Send(c) \/ PeerClose(c) \/ PeerReset(c)

-----------------------------------------------------------------------------
(* The main thread.                                                        *)

\* a bug: the last loop is never committed
StartSubButLast ==
    /\ MainAt("start")
    /\ committed' = committed + 1
    /\ tasks' = IF committed + 1 = SubNum THEN tasks ELSE Append(tasks, committed)
    /\ mainPc' = IF committed + 1 = SubNum THEN "wait" ELSE "start"
    /\ UNCHANGED <<mainConn, edge, netVars, objVars, mapVars, pc, job, active,
                   process, history>>

\* Start commits the loop of the next sub reactor; after the last it waits
StartSub ==
    /\ MainAt("start")
    /\ committed' = committed + 1
    /\ tasks' = Append(tasks, committed)
    /\ mainPc' = IF committed + 1 = SubNum THEN "wait" ELSE "start"
    /\ UNCHANGED <<mainConn, edge, netVars, objVars, mapVars, pc, job, active,
                   process, history>>

\* epoll_wait reports the listening socket, which is registered with EPOLLET
AcceptWake ==
    /\ MainAt("wait")
    /\ edge = "new"
    /\ edge' = "none"
    /\ mainPc' = "accept"
    /\ UNCHANGED <<committed, mainConn, netVars, objVars, mapVars, poolVars,
                   process, history>>

Free(f) == \A c \in Conns : fd[c] # f

\* accept4, which returns the lowest free descriptor, and the Connection's
\* socket_, address_ and channel_ members
Accept(c, f) ==
    /\ MainAt("accept")
    /\ client[c] = "pending"
    /\ Free(f) /\ \A g \in Fds : Free(g) => f <= g
    /\ client' = [client EXCEPT ![c] = "accepted"]
    /\ fd' = [fd EXCEPT ![c] = f]
    /\ refs' = [refs EXCEPT ![c] = {"main"}]
    /\ mainConn' = c
    /\ mainPc' = "register"
    /\ UNCHANGED <<committed, edge, sent, got, peer, slot, interest, ready_events,
                   mapVars, poolVars, process, history>>

\* EAGAIN or EMFILE ends the accept loop
AcceptStops ==
    /\ MainAt("accept")
    /\ (\A c \in Conns : client[c] # "pending") \/ (\A f \in Fds : ~Free(f))
    /\ mainPc' = "wait"
    /\ UNCHANGED <<committed, mainConn, edge, netVars, objVars, mapVars, poolVars,
                   process, history>>

\* channel_->Reset adds the socket to epoll: from here on it can be reported
Register ==
    /\ MainAt("register")
    /\ interest' = [interest EXCEPT ![mainConn] = ConnEvents]
    /\ mainPc' = "read"
    /\ UNCHANGED <<committed, mainConn, edge, netVars, fd, slot, ready_events, refs,
                   mapVars, poolVars, process, history>>

\* epoll_ctl fails (ENOSPC, ENOMEM): nothing catches it on the main thread
RegisterFails == MainAt("register") /\ Crash

AfterSlot == [read |-> "weak", weak |-> "message", message |-> "close",
              close |-> "lock"]

\* SetReadCallback, then make_shared's weak_this, SetMessageCallback and
\* SetCloseCallback: two steps each, for no lock orders them with a reader
AssignSlot ==
    /\ process = "up" /\ mainPc \in Slots
    /\ IF slot[mainConn][mainPc] = "unset"
       THEN /\ slot' = [slot EXCEPT ![mainConn] = [@ EXCEPT ![mainPc] = "torn"]]
            /\ UNCHANGED mainPc
       ELSE /\ slot' = [slot EXCEPT ![mainConn] = [@ EXCEPT ![mainPc] = "set"]]
            /\ mainPc' = AfterSlot[mainPc]
    /\ UNCHANGED <<committed, mainConn, edge, netVars, fd, interest, ready_events,
                   refs, mapVars, poolVars, process, history>>

LockForInsert ==
    /\ MainAt("lock")
    /\ mutex = None
    /\ mutex' = "main"
    /\ mainPc' = "insert"
    /\ UNCHANGED <<committed, mainConn, edge, netVars, objVars, connections_map,
                   poolVars, process, history>>

\* a bug: the map holds a raw pointer
InsertPointer ==
    /\ MainAt("insert")
    /\ LET c == mainConn IN
          connections_map' = [connections_map EXCEPT ![fd[c]] = IF @ = None THEN c ELSE @]
    /\ mutex' = None
    /\ mainPc' = "leave"
    /\ UNCHANGED <<committed, mainConn, edge, netVars, objVars, poolVars, process,
                   history>>

\* connections_map_.insert, which changes nothing if the key is taken
Insert ==
    /\ MainAt("insert")
    /\ LET c == mainConn IN
          IF connections_map[fd[c]] = None
          THEN /\ connections_map' = [connections_map EXCEPT ![fd[c]] = c]
               /\ refs' = [refs EXCEPT ![c] = @ \cup {"map"}]
          ELSE UNCHANGED <<connections_map, refs>>
    /\ mutex' = None
    /\ mainPc' = "leave"
    /\ UNCHANGED <<committed, mainConn, edge, netVars, fd, slot, interest,
                   ready_events, poolVars, process, history>>

\* a bug: one connection per edge, as with a level-triggered listening socket
LeaveToWait ==
    /\ MainAt("leave")
    /\ Drop(mainConn, "main")
    /\ mainConn' = None
    /\ mainPc' = "wait"
    /\ UNCHANGED <<committed, edge, netVars, slot, ready_events, mapVars, poolVars,
                   process, history>>

\* ReactorSubServer::AcceptConnection returns; the accept loop goes on
Leave ==
    /\ MainAt("leave")
    /\ Drop(mainConn, "main")
    /\ mainConn' = None
    /\ mainPc' = "accept"
    /\ UNCHANGED <<committed, edge, netVars, slot, ready_events, mapVars, poolVars,
                   process, history>>

MainStep == \/ StartSub \/ AcceptWake \/ AcceptStops
            \/ \E c \in Conns, f \in Fds : Accept(c, f)
            \/ Register \/ RegisterFails \/ AssignSlot
            \/ LockForInsert \/ Insert \/ Leave

-----------------------------------------------------------------------------
(* A thread of the pool.                                                   *)

Idle(t) == /\ pc' = [pc EXCEPT ![t] = "idle"]
           /\ job' = [job EXCEPT ![t] = None]

\* a worker pops the first task and calls it
Take(t) ==
    /\ At(t, "idle")
    /\ tasks # <<>>
    /\ tasks' = Tail(tasks)
    /\ job' = [job EXCEPT ![t] = Head(tasks)]
    /\ pc' = [pc EXCEPT ![t] = IF Head(tasks) \in Subs THEN "poll" ELSE "handle"]
    /\ overtaken' = IF Head(tasks) = mainConn THEN overtaken \cup {mainConn} ELSE overtaken
    /\ UNCHANGED <<mainVars, netVars, objVars, mapVars, active, process, threw>>

\* epoll_wait of a sub reactor's loop, and SetReadyEvents for all it reports
Poll(t) ==
    /\ At(t, "poll")
    /\ active[t] = {}
    /\ LET R == Reported(job[t]) IN
          /\ R # {}
          /\ active' = [active EXCEPT ![t] = R]
          /\ ready_events' = [c \in Conns |-> IF c \in R THEN SocketState(c)
                                                         ELSE ready_events[c]]
          /\ interest' = [c \in Conns |-> IF c \in R THEN Disarm(interest[c])
                                                     ELSE interest[c]]
    /\ UNCHANGED <<mainVars, netVars, fd, slot, refs, mapVars, tasks, pc, job,
                   process, history>>

\* a bug: a channel is committed again on the next turn
CommitAgain(t) ==
    /\ At(t, "poll")
    /\ \E c \in active[t] : tasks' = Append(tasks, c)
    /\ UNCHANGED <<mainVars, netVars, objVars, mapVars, pc, job, active, process, history>>

\* one turn of the loop over the active channels
Commit(t) ==
    /\ At(t, "poll")
    /\ \E c \in active[t] : /\ tasks' = Append(tasks, c)
                            /\ active' = [active EXCEPT ![t] = @ \ {c}]
    /\ UNCHANGED <<mainVars, netVars, objVars, mapVars, pc, job, process, history>>

\* HandleEvent: a Connection's channel has only a read callback, and an event
\* that finds it unset is dropped
Handle(t) ==
    /\ At(t, "handle")
    /\ LET c == job[t] IN
          \/ /\ "IN" \notin ready_events[c] \/ "unset" \in Observed(c, "read")
             /\ Idle(t)
             /\ UNCHANGED process
          \/ /\ "IN" \in ready_events[c] /\ "set" \in Observed(c, "read")
             /\ pc' = [pc EXCEPT ![t] = "recv"]
             /\ UNCHANGED <<job, process>>
          \/ /\ "IN" \in ready_events[c] /\ "crash" \in Observed(c, "read")
             /\ process' = "crashed"
             /\ UNCHANGED <<pc, job>>
    /\ UNCHANGED <<mainVars, netVars, objVars, mapVars, tasks, active, history>>

\* a bug: an empty socket is taken for one more chunk
RecvPastEnd(t) ==
    /\ At(t, "recv")
    /\ got' = [got EXCEPT ![job[t]] = @ + 1]
    /\ UNCHANGED <<mainVars, client, sent, peer, objVars, mapVars, poolVars, process,
                   history>>

\* one recv of RecvMessage's loop: a chunk is appended and the loop goes on;
\* end of file or an error closes; EAGAIN hands over what has been received
Recv(t) ==
    /\ At(t, "recv")
    /\ LET c == job[t] IN
          IF got[c] < sent[c]
          THEN got' = [got EXCEPT ![c] = @ + 1] /\ UNCHANGED pc
          ELSE /\ pc' = [pc EXCEPT ![t] = IF peer[c] = "open" THEN "message" ELSE "closing"]
               /\ UNCHANGED got
    /\ UNCHANGED <<mainVars, client, sent, peer, objVars, mapVars, tasks, job, active,
                   process, history>>

\* message_callback_(shared_from_this(), ...): an unset weak_this or callback
\* throws, and the task's packaged_task keeps the exception to itself
CallMessage(t) ==
    /\ At(t, "message")
    /\ LET c == job[t]
           weak == Observed(c, "weak")
           message == Observed(c, "message")
       IN \/ /\ "unset" \in weak \cup message
             /\ Idle(t)
             /\ UNCHANGED <<refs, process>>
          \/ /\ "set" \in weak /\ "set" \in message
             /\ refs' = [refs EXCEPT ![c] = @ \cup {t}]
             /\ pc' = [pc EXCEPT ![t] = "reply"]
             /\ UNCHANGED <<job, process>>
          \/ /\ "set" \in weak /\ "crash" \in message
             /\ process' = "crashed"
             /\ UNCHANGED <<pc, job, refs>>
    /\ UNCHANGED <<mainVars, netVars, fd, slot, interest, ready_events, mapVars,
                   tasks, active, history>>

\* the server's callback: it sends and SendMessage comes to its close callback,
\* or it throws, or the send raises SIGPIPE
Reply(t) ==
    /\ At(t, "reply")
    /\ \/ /\ pc' = [pc EXCEPT ![t] = "closing"]
          /\ UNCHANGED <<fd, interest, refs, job, process, threw>>
       \/ /\ CallbackThrows
          /\ threw' = threw \cup {job[t]}
          /\ Drop(job[t], t)
          /\ Idle(t)
          /\ UNCHANGED process
       \/ /\ peer[job[t]] = "rst"
          /\ process' = "crashed"
          /\ UNCHANGED <<fd, interest, refs, pc, job, threw>>
    /\ UNCHANGED <<mainVars, netVars, slot, ready_events, mapVars, tasks, active,
                   overtaken>>

\* close_callback_(shared_from_this()) and its RemvoeFromEpoll; an exception
\* goes the way of CallMessage's, and the caller's share, if any, with it
CallClose(t) ==
    /\ At(t, "closing")
    /\ LET c == job[t]
           weak == Observed(c, "weak")
           close == Observed(c, "close")
       IN \/ /\ "unset" \in weak \cup close \/ interest[c] = {}
             /\ Drop(c, t)
             /\ Idle(t)
             /\ UNCHANGED process
          \/ /\ "set" \in weak /\ "set" \in close /\ interest[c] # {}
             /\ refs' = [refs EXCEPT ![c] = @ \cup {t}]
             /\ interest' = [interest EXCEPT ![c] = {}]
             /\ pc' = [pc EXCEPT ![t] = "lock"]
             /\ UNCHANGED <<fd, job, process>>
          \/ /\ "set" \in weak /\ "crash" \in close
             /\ process' = "crashed"
             /\ UNCHANGED <<fd, interest, refs, pc, job>>
    /\ UNCHANGED <<mainVars, netVars, slot, ready_events, mapVars, tasks, active,
                   history>>

LockMap(t) ==
    /\ At(t, "lock")
    /\ mutex = None
    /\ mutex' = t
    /\ pc' = [pc EXCEPT ![t] = "erase"]
    /\ UNCHANGED <<mainVars, netVars, objVars, connections_map, tasks, job, active,
                   process, history>>

\* a bug: the callback locks and unlocks and forgets the entry
EraseNothing(t) ==
    /\ At(t, "erase")
    /\ mutex' = None
    /\ pc' = [pc EXCEPT ![t] = "release"]
    /\ UNCHANGED <<mainVars, netVars, objVars, connections_map, tasks, job, active,
                   process, history>>

\* a bug: the lock is never given back
EraseKeepingLock(t) ==
    /\ At(t, "erase")
    /\ LET f == fd[job[t]]
           entry == connections_map[f]
       IN /\ IF entry = None THEN UNCHANGED <<refs, fd, interest>> ELSE Drop(entry, "map")
          /\ connections_map' = [connections_map EXCEPT ![f] = None]
    /\ pc' = [pc EXCEPT ![t] = "release"]
    /\ UNCHANGED <<mainVars, netVars, slot, ready_events, mutex, tasks, job, active,
                   process, history>>

\* connections_map_.erase(connection->GetFd()), whatever is stored there
Erase(t) ==
    /\ At(t, "erase")
    /\ LET f == fd[job[t]]
           entry == connections_map[f]
       IN /\ IF entry = None THEN UNCHANGED <<refs, fd, interest>> ELSE Drop(entry, "map")
          /\ connections_map' = [connections_map EXCEPT ![f] = None]
    /\ mutex' = None
    /\ pc' = [pc EXCEPT ![t] = "release"]
    /\ UNCHANGED <<mainVars, netVars, slot, ready_events, tasks, job, active, process,
                   history>>

\* the callbacks return and the task's last share goes
Release(t) ==
    /\ At(t, "release")
    /\ Drop(job[t], t)
    /\ Idle(t)
    /\ UNCHANGED <<mainVars, netVars, slot, ready_events, mapVars, tasks, active,
                   process, history>>

WorkerStep(t) == \/ Take(t) \/ Poll(t) \/ Commit(t) \/ Handle(t)
                 \/ Recv(t) \/ CallMessage(t) \/ Reply(t)
                 \/ CallClose(t) \/ LockMap(t) \/ Erase(t) \/ Release(t)

-----------------------------------------------------------------------------

Bare == [s \in Slots |-> "unset"]

Init ==
    /\ committed = 0 /\ mainPc = "start" /\ mainConn = None /\ edge = "none"
    /\ client = [c \in Conns |-> "off"]
    /\ sent = [c \in Conns |-> 0]
    /\ got = [c \in Conns |-> 0]
    /\ peer = [c \in Conns |-> "open"]
    /\ fd = [c \in Conns |-> None]
    /\ slot = [c \in Conns |-> Bare]
    /\ interest = [c \in Conns |-> {}]
    /\ ready_events = [c \in Conns |-> {}]
    /\ refs = [c \in Conns |-> {}]
    /\ connections_map = [f \in Fds |-> None]
    /\ mutex = None
    /\ tasks = <<>>
    /\ pc = [t \in Threads |-> "idle"]
    /\ job = [t \in Threads |-> None]
    /\ active = [t \in Threads |-> {}]
    /\ process = "up"
    /\ overtaken = {}
    /\ threw = {}

Next == \/ \E c \in Conns : ClientStep(c)
        \/ MainStep
        \/ \E t \in Threads : WorkerStep(t)

Spec == Init /\ [][Next]_vars

\* The operating system runs every thread that can go on; nothing makes a
\* client act.
FairSpec == /\ Spec
            /\ WF_vars(MainStep)
            /\ \A t \in Threads : WF_vars(WorkerStep(t))

-----------------------------------------------------------------------------
(* Type correctness, with what a thread's pc says of its job.              *)
MainTyped == /\ committed \in 0 .. SubNum
             /\ mainPc \in MainPcs
             /\ mainConn \in Conns \cup {None}
             /\ edge \in {"none", "new"}
             /\ mainPc = "start" => committed < SubNum

NetTyped == /\ client \in [Conns -> {"off", "pending", "accepted"}]
            /\ sent \in [Conns -> 0 .. MaxSend]
            /\ got \in [Conns -> 0 .. MaxSend]
            /\ peer \in [Conns -> {"open", "fin", "rst"}]

ObjTyped == /\ fd \in [Conns -> Fds \cup {None}]
            /\ slot \in [Conns -> Assigned]
            /\ interest \in [Conns -> SUBSET Events]
            /\ ready_events \in [Conns -> SUBSET Events]
            /\ refs \in [Conns -> SUBSET Holders]

MapTyped == /\ connections_map \in [Fds -> Conns \cup {None}]
            /\ mutex \in Threads \cup {"main", None}

PoolTyped == /\ tasks \in Seq(Conns \cup Subs)
             /\ pc \in [Threads -> WorkerPcs]
             /\ job \in [Threads -> Conns \cup Subs \cup {None}]
             /\ active \in [Threads -> SUBSET Conns]

HistoryTyped == process \in {"up", "crashed"} /\ overtaken \subseteq Conns /\ threw \subseteq Conns

\* what a thread's place in the code needs it to hold
InPlace == /\ mainPc \in Building \cup {"leave"} <=> mainConn \in Conns
           /\ \A t \in Threads :
                 CASE pc[t] = "idle" -> job[t] = None
                   [] pc[t] = "poll" -> job[t] \in Subs
                   [] OTHER -> job[t] \in Conns

TypeOK == /\ MainTyped /\ NetTyped /\ ObjTyped /\ MapTyped /\ PoolTyped
          /\ HistoryTyped /\ InPlace

-----------------------------------------------------------------------------
(* The ways a pointer to c's channel is on its way to a thread.            *)

InEpoll(c)    == interest[c] # {}
InBatch(c, t) == c \in active[t]
InQueue(c)    == \E i \in DOMAIN tasks : tasks[i] = c
HandledBy(c, t) == job[t] = c

QueuedOnce(c) == \A i, k \in DOMAIN tasks : tasks[i] = c /\ tasks[k] = c => i = k

\* the kernel, a loop or the queue still holds an event that will reach c
Undelivered(c) == \/ c = mainConn /\ mainPc = "register"
                  \/ Armed(c)
                  \/ \E t \in Threads : InBatch(c, t)
                  \/ InQueue(c)

\* the main thread has built c and nothing will touch it again
Quiescent(c) == /\ client[c] = "accepted"
                /\ c # mainConn
                /\ ~Undelivered(c)
                /\ \A t \in Threads : ~HandledBy(c, t)

(* Epoll, the loops, the queue and the tasks hold raw pointers to channels *)
(* whose owner is a shared_ptr elsewhere: none of them outlives its        *)
(* Connection (Epoll.cpp:32, EventLoop.cpp:24, ReactorMainServer.cpp:33).  *)
NoUseAfterFree ==
    \A c \in Conns :
       \/ InEpoll(c)
       \/ \E t \in Threads : InBatch(c, t) \/ HandledBy(c, t)
       \/ InQueue(c)
       => refs[c] # {}

(* An event reaches one thread once: a channel is never in two of epoll's  *)
(* armed set, the batches, the queue and the threads' hands, so two        *)
(* threads never run one Connection's callbacks (Connection.cpp:23).       *)
OneShotDelivery ==
    /\ \A c \in Conns : QueuedOnce(c) /\ ~(InQueue(c) /\ Armed(c))
    /\ \A c \in Conns, t \in Threads :
          /\ InBatch(c, t) => ~Armed(c) /\ ~InQueue(c)
          /\ HandledBy(c, t) => ~Armed(c) /\ ~InQueue(c)
    /\ \A c \in Conns, t, u \in Threads :
          /\ InBatch(c, t) => ~HandledBy(c, u) /\ (InBatch(c, u) => u = t)
          /\ HandledBy(c, t) /\ HandledBy(c, u) => u = t

(* insert never meets an entry under its key: it would be dropped without  *)
(* a sign and the new Connection with it (ReactorMainServer.cpp:30).       *)
InsertFindsFree == mainPc = "insert" => connections_map[fd[mainConn]] = None

(* A live Connection owns a descriptor nobody else has, and the map's      *)
(* entry for a descriptor is the live Connection that owns it, although    *)
(* descriptors are reused as soon as they are closed; so insert finds its  *)
(* key free (Socket.cpp:54, ReactorMainServer.cpp:30,37).                  *)
FdOwnership ==
    /\ \A c \in Conns : refs[c] # {} =>
          /\ fd[c] \in Fds
          /\ \A d \in Conns \ {c} : refs[d] # {} => fd[d] # fd[c]
    /\ \A f \in Fds : connections_map[f] # None =>
          LET c == connections_map[f] IN fd[c] = f /\ "map" \in refs[c]
    /\ InsertFindsFree

(* EPOLL_CTL_DEL finds the channel registered; if not, RemoveChannel would *)
(* throw in the middle of closing (Epoll.cpp:49).                          *)
DelFindsRegistration ==
    \A t \in Threads : pc[t] = "closing" => InEpoll(job[t])

(* A Connection whose event has been handled is destroyed and its socket   *)
(* closed, unless a thread took the event before the main thread had done  *)
(* building it, or the message callback threw (ReactorMainServer.cpp:33).  *)
ReleasedUnlessOvertaken ==
    \A c \in Conns : Quiescent(c) => refs[c] = {} \/ c \in overtaken \cup threw

(* The reactor opens, serves once and closes each Connection in that       *)
(* order, and no two open ones share a descriptor (ConnService).           *)
Phase(c) == CASE client[c] # "accepted" -> "new"
              [] client[c] = "accepted" /\ refs[c] = {} -> "closed"
              [] client[c] = "accepted" /\ refs[c] # {} /\ Undelivered(c) -> "open"
              [] OTHER -> "serving"

Service == INSTANCE ConnService WITH phase <- [c \in Conns |-> Phase(c)],
                                     socket <- fd
ImplementsService == Service!Spec

(* However long the building of a Connection takes, and whatever closes    *)
(* meanwhile, the main loop takes clients as AcceptQueue has it, which is  *)
(* what Listener's does call by call: the edge of the listening socket is  *)
(* enough, and nobody is left in the backlog but for want of a descriptor  *)
(* (Accepter.cpp:34-58).                                                   *)
MainLoop == CASE mainPc = "start" -> "away"
              [] mainPc = "wait"  -> "wait"
              [] OTHER            -> "accept"
Waiting  == {c \in Conns : client[c] = "pending"}
EventDue == mainPc # "start" /\ edge = "new"
LeftShort == mainPc = "wait" /\ edge = "none" /\ Waiting # {}

Accepting == INSTANCE AcceptQueue WITH Clients <- Conns,
                                       loop    <- MainLoop,
                                       event   <- EventDue,
                                       waiting <- Waiting,
                                       socket  <- fd,
                                       spare   <- \E f \in Fds : Free(f),
                                       short   <- LeftShort
ImplementsAccepting == Accepting!Spec

(* To the pool the loops and the events of the channels are tasks that it  *)
(* promises to begin once each and in order (TaskQueue); the reactor keeps *)
(* its own side: it commits no task again, not while it is queued or runs  *)
(* nor after it has ended, and a loop never ends (ReactorMainServer.cpp:43,*)
(* EventLoop.cpp:25).                                                      *)
Ahead(k) == IF k \in Subs THEN k >= committed
                          ELSE client[k] # "accepted" \/ Undelivered(k)

TaskStatus(k) == IF InQueue(k) THEN "queued"
                 ELSE IF \E t \in Threads : job[t] = k THEN "running"
                 ELSE IF Ahead(k) THEN "new" ELSE "ended"

Queue == INSTANCE TaskQueue WITH Tasks <- Conns \cup Subs, pending <- tasks,
                                 status <- [k \in Conns \cup Subs |-> TaskStatus(k)],
                                 open <- TRUE
UsesQueue == Queue!Spec /\ [][\A s \in Subs : ~Queue!End(s)]_vars

(* Every loop takes a thread of the pool for ever, so a pool with no more  *)
(* threads than sub reactors never handles an event: the server accepts    *)
(* clients and answers none (ReactorMainServer.cpp:43, ThreadPool.h:18).   *)
PoolStarvation ==
    Cardinality(Threads) <= SubNum => \A t \in Threads : pc[t] \in {"idle", "poll"}

(* A Connection the main thread has built and no thread has overtaken is   *)
(* handled once its client sends or closes, and destroyed.                 *)
Served ==
    \A c \in Conns :
       (c # mainConn /\ Armed(c) /\ SocketState(c) # {})
          ~> (refs[c] = {} \/ c \in threw \/ process = "crashed")

(* A client in the backlog is accepted, given descriptors for all, though  *)
(* the edge-triggered listening socket reports each arrival only once      *)
(* (Accepter.cpp:23,34).                                                   *)
AcceptedEventually ==
    \A c \in Conns : client[c] = "pending" ~> (client[c] = "accepted" \/ process = "crashed")

(* Channel.h:30: a Channel is added to epoll only once, so once closed it  *)
(* is to die: a Connection taken out of epoll and out of all hands is not  *)
(* alive.                                                                  *)
DeadAfterClose ==
    \A c \in Conns : Quiescent(c) /\ ~InEpoll(c) => refs[c] = {}

(* Channel.h:43: HandleEvent handles the events in ready_events_: a thread *)
(* that is given a readable channel does not return without reading it.    *)
EventHandled ==
    [][\A t \in Threads : pc[t] = "handle" /\ "IN" \in ready_events[job[t]]
                              => pc'[t] # "idle"]_vars
=============================================================================
