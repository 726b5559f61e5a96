--------------------------- MODULE ReactorProofs ---------------------------
(***************************************************************************)
(* Theorems about Reactor, for every number of clients, descriptors, sub   *)
(* reactors and threads.                                                   *)
(***************************************************************************)
EXTENDS ReactorInv, TLAPS

USE SubNumAssumption, MaxSendAssumption, FdsAssumption, ThrowsAssumption,
    ThreadsAssumption, NamesAssumption

\* what the kernel reports, and what is left to report, are sets of events
LEMMA EventsTyped ==
    /\ ConnEvents \subseteq Events
    /\ \A e \in SUBSET Events : Disarm(e) \in SUBSET Events
    /\ \A c \in Conns : SocketState(c) \in SUBSET Events
BY DEF ConnEvents, Events, Disarm, SocketState

LEMMA SlotsTyped ==
    /\ Bare \in Assigned
    /\ \A r \in Assigned, s \in Slots, v \in {"torn", "set"} :
          [r EXCEPT ![s] = v] \in Assigned
BY DEF Bare, Assigned

LEMMA HoldersTyped == /\ {"main", "map"} \subseteq Holders
                      /\ Threads \subseteq Holders
BY DEF Holders

LEMMA InitTyped == Init => TypeOK
<1> SUFFICES ASSUME Init PROVE TypeOK
    OBVIOUS
<1> USE DEF Init
<1>1. "start" \in MainPcs /\ "start" \notin Building \cup {"leave"} /\ "idle" \in WorkerPcs
    BY DEF MainPcs, Building, WorkerPcs, Slots
<1>2. MainTyped
  <2>1. committed \in 0 .. SubNum /\ committed < SubNum
    OBVIOUS
  <2> QED
    BY <1>1, <2>1 DEF MainTyped
<1>3. NetTyped
    BY DEF NetTyped
<1>4. ObjTyped
    BY SlotsTyped DEF ObjTyped
<1>5. MapTyped /\ HistoryTyped
    BY DEF MapTyped, HistoryTyped
<1>6. PoolTyped
    BY <1>1 DEF PoolTyped
<1>7. InPlace
    BY <1>1 DEF InPlace
<1> QED
    BY <1>2, <1>3, <1>4, <1>5, <1>6, <1>7 DEF TypeOK

\* what a step leaves alone keeps its types
LEMMA Frame ==
    ASSUME TypeOK
    PROVE  /\ UNCHANGED mainVars => MainTyped'
           /\ UNCHANGED netVars => NetTyped'
           /\ UNCHANGED objVars => ObjTyped'
           /\ UNCHANGED mapVars => MapTyped'
           /\ UNCHANGED poolVars => PoolTyped'
           /\ UNCHANGED <<process, history>> => HistoryTyped'
           /\ UNCHANGED <<mainPc, mainConn, pc, job>> => InPlace'
<1> USE DEF TypeOK
<1>1. UNCHANGED mainVars => MainTyped'
    BY DEF mainVars, MainTyped
<1>2. UNCHANGED netVars => NetTyped'
    BY DEF netVars, NetTyped
<1>3. UNCHANGED objVars => ObjTyped'
    BY DEF objVars, ObjTyped
<1>4. UNCHANGED mapVars => MapTyped'
    BY DEF mapVars, MapTyped
<1>5. UNCHANGED poolVars => PoolTyped'
    BY DEF poolVars, PoolTyped
<1>6. UNCHANGED <<process, history>> => HistoryTyped'
    BY DEF history, HistoryTyped
<1>7. UNCHANGED <<mainPc, mainConn, pc, job>> => InPlace'
    BY DEF InPlace
<1> QED
    BY <1>1, <1>2, <1>3, <1>4, <1>5, <1>6, <1>7

LEMMA DropTyped ==
    ASSUME ObjTyped, NEW c \in Conns, NEW h, Drop(c, h), UNCHANGED <<slot, ready_events>>
    PROVE  ObjTyped'
BY DEF ObjTyped, Drop

LEMMA StepTyped == TypeOK /\ [Next]_vars => TypeOK'
<1> SUFFICES ASSUME TypeOK, [Next]_vars PROVE TypeOK'
    OBVIOUS
<1> USE Frame DEF TypeOK, MainAt, At
<1>1. CASE UNCHANGED vars
    BY <1>1 DEF vars, mainVars, poolVars
<1>2. ASSUME NEW c \in Conns, ClientStep(c) PROVE TypeOK'
    <2>1. CASE Connect(c)
        BY <2>1 DEF Connect, MainTyped, NetTyped, poolVars
    <2>2. CASE Send(c)
        BY <2>2 DEF Send, NetTyped, poolVars, mainVars
    <2>3. CASE PeerClose(c) \/ PeerReset(c)
        BY <2>3 DEF PeerClose, PeerReset, NetTyped, poolVars, mainVars
    <2> QED
        BY <1>2, <2>1, <2>2, <2>3 DEF ClientStep
<1> USE DEF MainPcs, Building, MainTyped, InPlace
<1>3. CASE StartSub
  <2> USE <1>3 DEF StartSub
  <2>1. PoolTyped'
    BY DEF PoolTyped, Subs
  <2>2. MainTyped'
    OBVIOUS
  <2>3. InPlace' /\ HistoryTyped'
    BY DEF PoolTyped, HistoryTyped, history, Slots
  <2> QED
    BY <2>1, <2>2, <2>3
<1>4. CASE AcceptWake \/ AcceptStops
    BY <1>4 DEF AcceptWake, AcceptStops, poolVars, Slots
<1>5. ASSUME NEW c \in Conns, NEW f \in Fds, Accept(c, f) PROVE TypeOK'
    BY <1>5, HoldersTyped DEF Accept, NetTyped, ObjTyped, poolVars
<1>6. CASE Register
    BY <1>6, EventsTyped DEF Register, Slots, ObjTyped, poolVars
<1>7. CASE RegisterFails
    BY <1>7 DEF RegisterFails, Crash, HistoryTyped, poolVars, mainVars, history
<1>8. CASE AssignSlot
  <2> USE <1>8 DEF AssignSlot
  <2>1. mainConn \in Conns
    BY DEF Slots
  <2>2. ObjTyped'
    <3>1. slot[mainConn] \in Assigned
        BY <2>1 DEF ObjTyped
    <3>2. \A v \in {"torn", "set"} : [slot[mainConn] EXCEPT ![mainPc] = v] \in Assigned
        BY <3>1, SlotsTyped
    <3>3. PICK v \in {"torn", "set"} :
              slot' = [slot EXCEPT ![mainConn] = [slot[mainConn] EXCEPT ![mainPc] = v]]
        OBVIOUS
    <3>4. slot' \in [Conns -> Assigned]
        BY <2>1, <3>2, <3>3 DEF ObjTyped
    <3> QED
        BY <3>4 DEF ObjTyped
  <2>3. mainPc' \in Building
    BY DEF AfterSlot, Slots
  <2>4. MainTyped' /\ InPlace'
    <3>1. mainPc' # "start"
        BY <2>3 DEF Slots
    <3>2. MainTyped'
        BY <2>3, <3>1
    <3>3. InPlace'
        BY <2>1, <2>3 DEF poolVars
    <3> QED
        BY <3>2, <3>3
  <2> QED
    BY <2>2, <2>4 DEF poolVars
<1>9. CASE LockForInsert
    BY <1>9 DEF LockForInsert, MapTyped, poolVars
<1>10. CASE Insert
    BY <1>10, HoldersTyped DEF Insert, MapTyped, ObjTyped, poolVars
<1>11. CASE Leave
    BY <1>11, DropTyped DEF Leave, poolVars, Slots
<1>12. ASSUME NEW t \in Threads, WorkerStep(t) PROVE TypeOK'
    <2> USE DEF WorkerPcs, Serving, Owning, Idle, mainVars, PoolTyped
    <2>1. CASE Take(t)
        BY <2>1 DEF Take, HistoryTyped
    <2>2. CASE Poll(t)
        BY <2>2, EventsTyped DEF Poll, Reported, ObjTyped
    <2>3. CASE Commit(t)
        BY <2>3 DEF Commit
    <2>4. CASE Handle(t)
        BY <2>4 DEF Handle, HistoryTyped, history
    <2>5. CASE Recv(t)
      <3> USE <2>5 DEF Recv
      <3>1. job[t] \in Conns
        BY DEF At
      <3>2. NetTyped'
        <4>1. got[job[t]] \in 0 .. MaxSend /\ sent[job[t]] \in 0 .. MaxSend
            BY <3>1 DEF NetTyped
        <4>2. got[job[t]] < sent[job[t]] => got[job[t]] + 1 \in 0 .. MaxSend
            BY <4>1
        <4> QED
          <5>1. CASE got[job[t]] < sent[job[t]]
            <6>1. got' = [got EXCEPT ![job[t]] = got[job[t]] + 1]
                BY <5>1
            <6>2. got' \in [Conns -> 0 .. MaxSend]
                BY <3>1, <4>2, <5>1, <6>1 DEF NetTyped
            <6> QED
                BY <6>2 DEF NetTyped
          <5>2. CASE ~(got[job[t]] < sent[job[t]])
            BY <5>2 DEF NetTyped
          <5> QED
            BY <5>1, <5>2
      <3>3. PoolTyped' /\ InPlace'
        BY <3>1
      <3> QED
        BY <3>2, <3>3
    <2>6. CASE CallMessage(t)
        BY <2>6, HoldersTyped DEF CallMessage, ObjTyped, HistoryTyped, history
    <2>7. CASE Reply(t)
      <3> USE <2>7 DEF Reply
      <3>1. job[t] \in Conns
        BY DEF At
      <3>2. ObjTyped'
        BY <3>1, DropTyped DEF objVars
      <3>3. PoolTyped' /\ InPlace'
        BY <3>1
      <3>4. HistoryTyped'
        BY <3>1 DEF HistoryTyped
      <3> QED
        BY <3>2, <3>3, <3>4
    <2>8. CASE CallClose(t)
      <3> USE <2>8 DEF CallClose
      <3>1. job[t] \in Conns
        BY DEF At
      <3>2. ObjTyped'
        <4>1. CASE Drop(job[t], t)
            BY <3>1, <4>1, DropTyped
        <4>2. CASE UNCHANGED <<fd, interest, refs>>
            BY <4>2 DEF ObjTyped
        <4>3. ASSUME refs' = [refs EXCEPT ![job[t]] = @ \cup {t}],
                     interest' = [interest EXCEPT ![job[t]] = {}], fd' = fd
              PROVE  ObjTyped'
            BY <3>1, <4>3, HoldersTyped DEF ObjTyped
        <4> QED
            BY <4>1, <4>2, <4>3
      <3>3. PoolTyped' /\ InPlace'
        BY <3>1
      <3>4. HistoryTyped'
        BY DEF HistoryTyped, history
      <3> QED
        BY <3>2, <3>3, <3>4
    <2>9. CASE LockMap(t)
        BY <2>9 DEF LockMap, MapTyped
    <2>10. CASE Erase(t)
      <3> USE <2>10 DEF Erase
      <3>1. MapTyped'
        BY DEF MapTyped
      <3>2. ObjTyped'
        <4> DEFINE entry == connections_map[fd[job[t]]]
        <4>1. CASE entry = None
            BY <4>1 DEF ObjTyped
        <4>2. CASE entry # None
            <5>1. Drop(entry, "map") /\ UNCHANGED <<slot, ready_events>>
                BY <4>2
            <5>2. CASE entry \in Conns
                BY <5>1, <5>2, DropTyped
            <5>3. CASE entry \notin Conns
              <6>1. refs' = refs /\ fd' = fd /\ interest' = interest
                BY <5>1, <5>3 DEF Drop, ObjTyped
              <6> QED
                BY <5>1, <6>1 DEF ObjTyped
            <5> QED
                BY <5>2, <5>3
        <4> QED
            BY <4>1, <4>2
      <3>3. PoolTyped' /\ InPlace'
        OBVIOUS
      <3> QED
        BY <3>1, <3>2, <3>3
    <2>11. CASE Release(t)
        BY <2>11 DEF Release, Drop, ObjTyped
    <2> QED
        BY <1>12, <2>1, <2>2, <2>3, <2>4, <2>5, <2>6, <2>7, <2>8, <2>9, <2>10, <2>11
           DEF WorkerStep
<1> QED
    BY <1>1, <1>2, <1>3, <1>4, <1>5, <1>6, <1>7, <1>8, <1>9, <1>10, <1>11, <1>12
       DEF Next, MainStep
\* Reactor's variables have their types in every reachable state, and every
\* thread holds what its place in the code needs (TypeOK).
THEOREM TypeCorrect == Spec => []TypeOK
<1> QED
    BY InitTyped, StepTyped, PTL DEF Spec

-----------------------------------------------------------------------------
(* The queue, the epoll items and who holds what: facts about one step.    *)

LEMMA EventFacts ==
    /\ ConnEvents \cap {"IN", "PRI"} # {}
    /\ Disarm(ConnEvents) \cap {"IN", "PRI"} = {}
    /\ ConnEvents # {} /\ Disarm(ConnEvents) # {}
BY DEF ConnEvents, Disarm

\* in a state of the invariant a channel is armed just when it has all its events
LEMMA ArmedIff == Registered => \A c \in Conns : Armed(c) <=> interest[c] = ConnEvents
BY EventFacts DEF Registered, Armed

LEMMA SameQueue ==
    ASSUME UNCHANGED tasks
    PROVE  \A c : (InQueue(c)' <=> InQueue(c)) /\ (QueuedOnce(c)' <=> QueuedOnce(c))
BY DEF InQueue, QueuedOnce

LEMMA TakeQueue ==
    ASSUME TypeOK, tasks # <<>>, tasks' = Tail(tasks)
    PROVE  /\ Head(tasks) \in Conns \cup Subs
           /\ InQueue(Head(tasks))
           /\ \A c : InQueue(c)' => InQueue(c)
           /\ \A c : InQueue(c) => InQueue(c)' \/ c = Head(tasks)
           /\ \A c : QueuedOnce(c) => QueuedOnce(c)'
           /\ \A c : c = Head(tasks) /\ QueuedOnce(c) => ~InQueue(c)'
<1>1. tasks \in Seq(Conns \cup Subs)
    BY DEF TypeOK, PoolTyped
<1>2. /\ Len(tasks) \in Nat /\ Len(tasks) > 0 /\ DOMAIN tasks = 1 .. Len(tasks)
      /\ Head(tasks) = tasks[1]
      /\ DOMAIN tasks' = 1 .. Len(tasks) - 1
      /\ \A i \in 1 .. Len(tasks) - 1 : tasks'[i] = tasks[i + 1]
    BY <1>1
<1>3. Head(tasks) \in Conns \cup Subs
    BY <1>1, <1>2
<1>4. InQueue(Head(tasks))
    BY <1>2 DEF InQueue
<1>5. \A i \in 1 .. Len(tasks) - 1 : i + 1 \in 1 .. Len(tasks) /\ i + 1 # 1
    BY <1>2
<1>6. \A c : InQueue(c)' => InQueue(c)
    BY <1>2, <1>5 DEF InQueue
<1>7. ASSUME NEW c, InQueue(c) PROVE InQueue(c)' \/ c = Head(tasks)
  <2>1. PICK i \in 1 .. Len(tasks) : tasks[i] = c
    BY <1>2, <1>7 DEF InQueue
  <2>2. CASE i # 1
    <3>1. i - 1 \in 1 .. Len(tasks) - 1 /\ i = (i - 1) + 1
        BY <1>2, <2>2
    <3> QED
        BY <1>2, <2>1, <3>1 DEF InQueue
  <2> QED
    BY <1>2, <2>1, <2>2
<1>8. \A c : QueuedOnce(c) => QueuedOnce(c)'
    BY <1>2, <1>5 DEF QueuedOnce
<1>9. ASSUME NEW c, c = Head(tasks), QueuedOnce(c), InQueue(c)' PROVE FALSE
  <2>1. PICK i \in 1 .. Len(tasks) - 1 : tasks'[i] = c
    BY <1>2, <1>9 DEF InQueue
  <2>2. tasks[i + 1] = c /\ tasks[1] = c /\ 1 \in 1 .. Len(tasks)
    BY <1>2, <1>9, <2>1
  <2> QED
    BY <1>2, <1>5, <1>9, <2>2 DEF QueuedOnce
<1> QED
    BY <1>3, <1>4, <1>6, <1>7, <1>8, <1>9

LEMMA CommitQueue ==
    ASSUME TypeOK, NEW d \in Conns \cup Subs, tasks' = Append(tasks, d)
    PROVE  /\ \A c : InQueue(c)' <=> InQueue(c) \/ c = d
           /\ \A c : QueuedOnce(c) /\ ~(c = d /\ InQueue(c)) => QueuedOnce(c)'
<1>1. tasks \in Seq(Conns \cup Subs)
    BY DEF TypeOK, PoolTyped
<1>2. /\ Len(tasks) \in Nat /\ DOMAIN tasks = 1 .. Len(tasks)
      /\ DOMAIN tasks' = 1 .. Len(tasks) + 1
      /\ \A i \in 1 .. Len(tasks) : tasks'[i] = tasks[i]
      /\ tasks'[Len(tasks) + 1] = d
    BY <1>1
<1> QED
    BY <1>2 DEF InQueue, QueuedOnce

-----------------------------------------------------------------------------
(* Ownership and delivery.                                                 *)

LEMMA InitSafe == Init => Safe
<1> SUFFICES ASSUME Init PROVE Safe
    OBVIOUS
<1>1. TypeOK
    BY InitTyped
<1> USE DEF Init
<1>2. "start" \notin Building /\ "idle" \notin Serving \cup Owning
    BY DEF Building, Slots, Serving, Owning
<1>3. \A c : ~InQueue(c) /\ QueuedOnce(c)
    BY DEF InQueue, QueuedOnce
<1>4. \A c \in Conns : ~Armed(c) /\ \A t \in Threads : ~InBatch(c, t) /\ ~HandledBy(c, t)
    BY DEF Armed, InBatch, HandledBy
<1>5. Owned
    BY <1>2 DEF Owned
<1>6. Mapped
    BY <1>2 DEF Mapped
<1>7. OneShotDelivery
    BY <1>3, <1>4 DEF OneShotDelivery
<1>8. Registered
    BY <1>2, <1>3, <1>4 DEF Registered, InFlight
<1>9. Alive
    BY <1>2, <1>3, <1>4 DEF Alive, InFlight
<1> QED
    BY <1>1, <1>5, <1>6, <1>7, <1>8, <1>9 DEF Safe

\* each part survives a step that leaves its variables alone
LEMMA SafeFrame ==
    ASSUME Safe
    PROVE  /\ UNCHANGED <<refs, mainConn, client, fd, interest, job, pc>> => Owned'
           /\ UNCHANGED <<refs, connections_map, fd, mainPc, mainConn>> => Mapped'
           /\ UNCHANGED <<interest, active, tasks, job>> => OneShotDelivery'
           /\ UNCHANGED <<interest, mainPc, mainConn, active, tasks, job, pc>>
                 => Registered'
           /\ UNCHANGED <<interest, refs, mainPc, mainConn, active, tasks, job, pc>>
                 => Alive'
<1> USE DEF Safe, InBatch, HandledBy, Armed, InFlight, Kept
<1>1. UNCHANGED <<refs, mainConn, client, fd, interest, job, pc>> => Owned'
    BY DEF Owned
<1>2. UNCHANGED <<refs, connections_map, fd, mainPc, mainConn>> => Mapped'
    BY DEF Mapped
<1>3. UNCHANGED <<interest, active, tasks, job>> => OneShotDelivery'
    BY SameQueue DEF OneShotDelivery
<1>4. UNCHANGED <<interest, mainPc, mainConn, active, tasks, job, pc>> => Registered'
    BY SameQueue DEF Registered
<1>5. UNCHANGED <<interest, refs, mainPc, mainConn, active, tasks, job, pc>> => Alive'
    BY SameQueue DEF Alive
<1> QED
    BY <1>1, <1>2, <1>3, <1>4, <1>5

\* what the clients do
LEMMA ClientSafe ==
    ASSUME Safe, TypeOK', NEW c \in Conns, ClientStep(c)
    PROVE  Safe'
<1> USE SafeFrame DEF Safe, objVars, mapVars, poolVars, mainVars
<1>1. CASE Connect(c)
  <2>1. Owned'
    BY <1>1 DEF Connect, Owned, TypeOK, NetTyped, HandledBy
  <2> QED
    BY <1>1, <2>1 DEF Connect
<1>2. CASE Send(c) \/ PeerClose(c) \/ PeerReset(c)
    BY <1>2 DEF Send, PeerClose, PeerReset
<1> QED
    BY <1>1, <1>2 DEF ClientStep

\* whoever works on a channel is in HandleEvent or in what it calls
LEMMA HandlerPlace ==
    ASSUME TypeOK, NEW t \in Threads, job[t] \in Conns
    PROVE  pc[t] \in Serving \cup Owning
<1>1. pc[t] \in WorkerPcs /\ job[t] # None /\ job[t] \notin Subs
    BY DEF TypeOK, PoolTyped
<1> QED
    BY <1>1 DEF TypeOK, InPlace, WorkerPcs

LEMMA HandlerJob ==
    ASSUME TypeOK, NEW t \in Threads, pc[t] \in Serving \cup Owning
    PROVE  job[t] \in Conns
<1>1. pc[t] # "idle" /\ pc[t] # "poll"
    BY DEF Serving, Owning
<1> QED
    BY <1>1 DEF TypeOK, InPlace

\* a Connection that is not alive is nowhere
LEMMA DeadIsNowhere ==
    ASSUME Safe, NEW c \in Conns, refs[c] = {}
    PROVE  /\ ~InEpoll(c) /\ ~Armed(c) /\ ~InFlight(c)
           /\ \A t \in Threads : ~HandledBy(c, t)
<1> USE DEF Safe
<1>1. interest[c] = {} /\ c # mainConn /\ "map" \notin refs[c]
    BY DEF Owned
<1>2. ~InEpoll(c) /\ ~Armed(c)
    BY <1>1 DEF InEpoll, Armed
<1>3. ~InFlight(c)
    BY <1>1 DEF Alive, Kept
<1>4. ASSUME NEW t \in Threads, HandledBy(c, t) PROVE FALSE
  <2>1. pc[t] \in Serving \cup Owning /\ job[t] = c
    BY <1>4, HandlerPlace DEF HandledBy
  <2> QED
    BY <1>1, <2>1 DEF Alive, Kept, Owned
<1> QED
    BY <1>2, <1>3, <1>4

\* the main thread builds a Connection nobody has seen before
LEMMA MainSafe ==
    ASSUME Safe, TypeOK', MainStep
    PROVE  Safe'
<1> USE SafeFrame DEF Safe, MainAt, netVars, objVars, mapVars, poolVars
<1>0. /\ mainPc \in Building \cup {"leave"} => mainConn \in Conns
      /\ mainPc \notin Building \cup {"leave"} => mainConn \notin Conns
    BY DEF TypeOK, InPlace
<1>1. CASE StartSub
  <2> USE <1>1 DEF StartSub
  <2>1. committed \in Subs /\ committed \notin Conns
    BY DEF Subs, TypeOK, MainTyped
  <2>2. \A c \in Conns : (InQueue(c)' <=> InQueue(c)) /\ (QueuedOnce(c) => QueuedOnce(c)')
    BY <2>1, CommitQueue
  <2>3. mainPc \notin Building /\ mainPc' \notin Building
    BY DEF Building, Slots
  <2>4. Owned' /\ Mapped'
    BY <2>3 DEF Owned, Mapped, HandledBy
  <2>5. OneShotDelivery'
    BY <2>2 DEF OneShotDelivery, InBatch, HandledBy, Armed
  <2>6. Registered' /\ Alive'
    BY <2>2, <2>3 DEF Registered, Alive, InFlight, InBatch, HandledBy, Armed, Kept, Building
  <2> QED
    BY <2>4, <2>5, <2>6
<1>2. CASE AcceptWake \/ AcceptStops
  <2> USE <1>2 DEF AcceptWake, AcceptStops
  <2>1. mainPc \notin Building /\ mainPc' \notin Building
    BY DEF Building, Slots
  <2>2. Mapped' /\ Registered' /\ Alive'
    BY <2>1, SameQueue
       DEF Mapped, Registered, Alive, InFlight, InBatch, HandledBy, Armed, Kept, Building
  <2> QED
    BY <2>2
<1>3. ASSUME NEW c \in Conns, NEW f \in Fds, Accept(c, f) PROVE Safe'
  <2> USE <1>3 DEF Accept
  <2>1. /\ refs[c] = {} /\ interest[c] = {} /\ fd[c] = None
        /\ \A d \in Conns : "main" \notin refs[d]
        /\ mainConn \notin Conns
    BY <1>0 DEF Owned, Building, Slots
  <2>2. ~InFlight(c) /\ \A t \in Threads : ~HandledBy(c, t)
    BY <2>1, DeadIsNowhere
  <2>3. Owned'
    BY <2>1, <2>2 DEF Owned, Free, HandledBy, TypeOK, NetTyped, ObjTyped
  <2>4. Mapped'
    BY <2>1 DEF Mapped, TypeOK, ObjTyped, MapTyped, Building
  <2>5. Registered'
    BY <2>1, <2>2, SameQueue DEF Registered, InFlight, InBatch, HandledBy, Building
  <2>6. Alive'
    <3>1. \A d \in Conns : Kept(d) => Kept(d)' /\ d # c
        BY <2>1 DEF Kept, TypeOK, ObjTyped
    <3> QED
        BY <2>2, <3>1, SameQueue, HandlerJob
           DEF Alive, InFlight, InBatch, HandledBy, Armed
  <2> QED
    BY <2>3, <2>4, <2>5, <2>6
<1>4. CASE Register
  <2> USE <1>4 DEF Register
  <2>1. /\ mainConn \in Conns /\ interest[mainConn] = {} /\ refs[mainConn] # {}
        /\ mainPc \in Building /\ mainPc' \in Building /\ mainPc' # "register"
        /\ ~InFlight(mainConn) /\ \A t \in Threads : ~HandledBy(mainConn, t)
    BY <1>0 DEF Registered, Owned, Building, Slots
  <2>2. interest' = [interest EXCEPT ![mainConn] = ConnEvents]
    OBVIOUS
  <2>3. Owned' /\ Mapped'
    BY <2>1 DEF Owned, Mapped, HandledBy, TypeOK, ObjTyped
  <2>4. OneShotDelivery'
    BY <2>1, SameQueue DEF OneShotDelivery, InFlight, InBatch, HandledBy, Armed, TypeOK, ObjTyped
  <2>5. Registered'
    BY <2>1, EventFacts, SameQueue DEF Registered, InFlight, InBatch, HandledBy, TypeOK, ObjTyped
  <2>6. Alive'
    BY <2>1, SameQueue DEF Alive, InFlight, InBatch, Armed, Kept, TypeOK, ObjTyped
  <2> QED
    BY <2>3, <2>4, <2>5, <2>6
<1>5. CASE RegisterFails
    BY <1>5 DEF RegisterFails, Crash, mainVars
<1>6. CASE AssignSlot \/ LockForInsert
  <2> USE <1>6 DEF AssignSlot, LockForInsert
  <2>1. mainPc \in Building /\ mainPc' \in Building /\ mainPc' # "register"
    BY DEF Building, Slots, AfterSlot
  <2>2. Mapped' /\ Registered' /\ Alive'
    BY <2>1, SameQueue
       DEF Mapped, Registered, Alive, InFlight, InBatch, HandledBy, Armed, Kept
  <2> QED
    BY <2>2
<1>7. CASE Insert
  <2> DEFINE c == mainConn
  <2> USE <1>7 DEF Insert
  <2>1. /\ c \in Conns /\ refs[c] # {} /\ "map" \notin refs[c]
        /\ mainPc \in Building /\ mainPc' \notin Building
    BY <1>0 DEF Owned, Mapped, Building, Slots
  <2>2. fd[c] \in Fds /\ connections_map[fd[c]] = None
    <3>1. fd[c] \in Fds
        BY <2>1 DEF Owned
    <3>2. ASSUME NEW e \in Conns, connections_map[fd[c]] = e PROVE FALSE
        <4>1. fd[e] = fd[c] /\ "map" \in refs[e]
            BY <3>1, <3>2 DEF Mapped
        <4> QED
            BY <2>1, <4>1 DEF Owned
    <3> QED
        BY <3>1, <3>2 DEF TypeOK, MapTyped
  <2>3. /\ refs' = [refs EXCEPT ![c] = refs[c] \cup {"map"}]
        /\ connections_map' = [connections_map EXCEPT ![fd[c]] = c]
    BY <2>2
  <2>4. \A d \in Conns : refs'[d] = IF d = c THEN refs[d] \cup {"map"} ELSE refs[d]
    BY <2>3 DEF TypeOK, ObjTyped
  <2>5. Owned'
    <3>1. UNCHANGED <<fd, mainConn, client, interest, job, pc>> /\ "map" \notin Threads
        OBVIOUS
    <3>2. \A d \in Conns : \A h : h \in refs'[d] => h \in refs[d] \/ h = "map"
        BY <2>4
    <3>3. \A d \in Conns : refs[d] \subseteq refs'[d] /\ (refs'[d] # {} => refs[d] # {})
        BY <2>1, <2>4
    <3>4. \A t \in Threads : pc[t] \in Owning => job[t] \in Conns
        BY HandlerJob
    <3> QED
        BY <3>1, <3>2, <3>3, <3>4 DEF Owned, HandledBy
  <2>6. Mapped'
    <3>1. \A f \in Fds : connections_map'[f] = IF f = fd[c] THEN c ELSE connections_map[f]
        BY <2>3 DEF TypeOK, MapTyped
    <3>2. ASSUME NEW d \in Conns, "map" \in refs'[d] PROVE connections_map'[fd'[d]] = d
        <4>1. CASE d # c
            <5>1. "map" \in refs[d] /\ fd[d] \in Fds /\ fd[d] # fd[c]
                BY <2>1, <2>4, <3>2, <4>1 DEF Owned
            <5> QED
                BY <3>1, <5>1 DEF Mapped
        <4> QED
            BY <2>2, <3>1, <4>1
    <3>3. ASSUME NEW d \in Conns, NEW f \in Fds, connections_map'[f] = d
          PROVE  fd'[d] = f /\ "map" \in refs'[d]
        <4>1. CASE f = fd[c]
            BY <2>1, <2>2, <2>4, <3>1, <3>3, <4>1
        <4>2. CASE f # fd[c]
            BY <2>4, <3>1, <3>3, <4>2 DEF Mapped
        <4> QED
            BY <4>1, <4>2
    <3> QED
        BY <2>1, <3>2, <3>3 DEF Mapped
  <2>7. Registered'
    BY SameQueue DEF Registered, InFlight, InBatch, HandledBy
  <2>8. \A d \in Conns : Kept(d) => Kept(d)'
    BY <2>4 DEF Kept
  <2>9. Alive'
    BY <2>8, SameQueue, HandlerJob DEF Alive, InFlight, InBatch, HandledBy, Armed
  <2> QED
    BY <2>5, <2>6, <2>7, <2>9
<1>8. CASE Leave
  <2> DEFINE c == mainConn
  <2> USE <1>8 DEF Leave
  <2>1. c \in Conns /\ mainPc \notin Building /\ mainPc' \notin Building
    BY <1>0 DEF Building, Slots
  <2>2. /\ mainConn' = None /\ None \notin Conns
        /\ \A d \in Conns : refs'[d] = refs[d] \ {"main"}
        /\ refs[c] \subseteq {"main"} <=> refs'[c] = {}
        /\ \A d \in Conns : refs'[d] = {} /\ refs[d] # {} => d = c
        /\ \A d \in Conns \ {c} : fd'[d] = fd[d] /\ interest'[d] = interest[d]
        /\ IF refs'[c] = {} THEN fd'[c] = None /\ interest'[c] = {}
                            ELSE fd'[c] = fd[c] /\ interest'[c] = interest[c]
    BY <2>1 DEF Drop, Owned, TypeOK, ObjTyped
  <2>3. refs'[c] = {} => ~Armed(c) /\ ~InFlight(c) /\ \A t \in Threads : ~HandledBy(c, t)
    <3> SUFFICES ASSUME refs[c] \subseteq {"main"}
                 PROVE  ~Armed(c) /\ ~InFlight(c) /\ \A t \in Threads : ~HandledBy(c, t)
        BY <2>2
    <3>1. ~Kept(c)
        BY <2>1 DEF Kept
    <3>2. ASSUME NEW t \in Threads, HandledBy(c, t) PROVE FALSE
        <4>1. job[t] = c /\ pc[t] \in Serving \cup Owning
            BY <2>1, <3>2, HandlerPlace DEF HandledBy
        <4>2. t # "main"
            OBVIOUS
        <4> QED
            BY <3>1, <4>1, <4>2 DEF Alive, Owned
    <3> QED
        BY <2>1, <3>1, <3>2 DEF Alive
  <2>4. Owned'
    BY <2>1, <2>2, <2>3, HandlerJob DEF Owned, HandledBy
  <2>5. Mapped'
    BY <2>1, <2>2 DEF Mapped, Owned
  <2>6. OneShotDelivery'
    BY <2>2, SameQueue DEF OneShotDelivery, InBatch, HandledBy, Armed
  <2>7. Registered'
    BY <2>1, <2>2, <2>3, SameQueue, HandlerJob
       DEF Registered, InFlight, InBatch, HandledBy, Serving, Owning, Building
  <2>8. Alive'
    BY <2>1, <2>2, SameQueue, HandlerJob DEF Alive, InFlight, InBatch, Armed, Kept
  <2> QED
    BY <2>4, <2>5, <2>6, <2>7, <2>8
<1> QED
    BY <1>1, <1>2, <1>3, <1>4, <1>5, <1>6, <1>7, <1>8 DEF MainStep

\* what a thread finds when it works on a channel
LEMMA AtWork ==
    ASSUME Safe, NEW t \in Threads, job[t] \in Conns
    PROVE  /\ refs[job[t]] # {}
           /\ ~Armed(job[t]) /\ ~InFlight(job[t])
           /\ \A u \in Threads : HandledBy(job[t], u) => u = t
<1>1. HandledBy(job[t], t)
    BY DEF HandledBy
<1> QED
    BY <1>1, DeadIsNowhere DEF Safe, OneShotDelivery, InFlight

\* a thread that is done with its channel gives its share back, if it has one
LEMMA ReturnSafe ==
    ASSUME Safe, TypeOK', NEW t \in Threads, job[t] \in Conns, Idle(t),
           \/ Drop(job[t], t)
           \/ UNCHANGED <<refs, fd, interest>> /\ pc[t] \notin Owning \cup {"closing"},
           UNCHANGED <<mainPc, mainConn, client, connections_map, tasks, active>>
    PROVE  Safe'
<1> DEFINE c == job[t]
<1> USE DEF Safe, Idle
<1>1. /\ refs[c] # {} /\ ~Armed(c) /\ ~InFlight(c)
      /\ \A u \in Threads : HandledBy(c, u) => u = t
    BY AtWork
<1>2. /\ \A u \in Threads : job'[u] = IF u = t THEN None ELSE job[u]
      /\ \A u \in Threads : pc'[u] = IF u = t THEN "idle" ELSE pc[u]
      /\ "idle" \notin Serving \cup Owning
    BY DEF TypeOK, PoolTyped, Serving, Owning
<1>3. \A d \in Conns : refs'[d] = refs[d] \ {t}
  <2>1. \A d \in Conns \ {c} : t \notin refs[d]
    BY DEF Owned, HandledBy
  <2>2. CASE Drop(c, t)
    BY <2>1, <2>2 DEF Drop, TypeOK, ObjTyped
  <2>3. CASE UNCHANGED refs /\ pc[t] \notin Owning \cup {"closing"}
    BY <2>1, <2>3 DEF Owned
  <2> QED
    BY <2>2, <2>3
<1>4. /\ \A d \in Conns : refs'[d] = {} /\ refs[d] # {} => d = c
      /\ \A d \in Conns \ {c} : fd'[d] = fd[d] /\ interest'[d] = interest[d]
      /\ IF refs'[c] = {} THEN fd'[c] = None /\ interest'[c] = {}
                          ELSE fd'[c] = fd[c] /\ interest'[c] = interest[c]
  <2>1. CASE Drop(c, t)
    <3>1. refs'[c] = {} <=> refs[c] \subseteq {t}
        BY <1>3
    <3> QED
        BY <1>3, <2>1, <3>1 DEF Drop, Owned, HandledBy, TypeOK, ObjTyped
  <2>2. CASE UNCHANGED <<refs, fd, interest>>
    BY <1>1, <2>2
  <2> QED
    BY <2>1, <2>2
<1>5. t # "main" /\ t # "map" /\ None \notin Conns
    OBVIOUS
<1>6. Owned'
  <2>1. \A d \in Conns : \A h : h \in refs'[d] <=> h \in refs[d] /\ h # t
    BY <1>3
  <2>2. \A u \in Threads : pc'[u] \in Owning => u # t /\ job[u] \in Conns
    BY <1>2, HandlerJob
  <2>3. \A d \in Conns : \A h : h \in refs'[d] /\ h \in Threads =>
           HandledBy(d, h)' /\ pc'[h] \in Owning \cup {"closing"}
    BY <1>2, <2>1 DEF Owned, HandledBy
  <2>4. \A u \in Threads : pc'[u] \in Owning => u \in refs'[job'[u]]
    BY <1>2, <2>1, <2>2 DEF Owned
  <2>5. \A d \in Conns : refs'[d] # {} => refs[d] # {} /\ fd'[d] = fd[d]
    BY <1>3, <1>4
  <2>6. \A d \in Conns : refs'[d] = {} => fd'[d] = None /\ interest'[d] = {}
    BY <1>4 DEF Owned
  <2>7. \A d \in Conns :
           /\ "main" \in refs'[d] => d = mainConn'
           /\ d = mainConn' => "main" \in refs'[d] /\ client'[d] = "accepted"
           /\ client'[d] # "accepted" => refs'[d] = {}
    BY <1>3, <1>5, <2>1 DEF Owned
  <2> QED
    BY <2>3, <2>4, <2>5, <2>6, <2>7 DEF Owned
<1>7. Mapped'
  <2>1. \A d \in Conns : "map" \in refs'[d] <=> "map" \in refs[d]
    BY <1>3, <1>5
  <2>2. \A d \in Conns : "map" \in refs[d] => fd'[d] = fd[d]
    BY <1>4, <2>1
  <2> QED
    BY <1>1, <2>1, <2>2 DEF Mapped, TypeOK, InPlace
<1>8. \A d \in Conns : Armed(d)' => Armed(d)
    BY <1>4 DEF Armed
<1>9. \A d \in Conns, u \in Threads : HandledBy(d, u)' => HandledBy(d, u) /\ u # t
    BY <1>2, <1>5 DEF HandledBy
<1>10. \A d \in Conns : (InFlight(d)' <=> InFlight(d)) /\ (Kept(d)' <=> Kept(d))
    BY <1>3, <1>5, SameQueue DEF InFlight, InBatch, Kept
<1>11. \A u \in Threads : pc'[u] \in Serving =>
          pc[u] \in Serving /\ job'[u] = job[u] /\ job[u] \in Conns \ {c}
    BY <1>1, <1>2, HandlerJob DEF HandledBy
<1>12. OneShotDelivery'
    BY <1>8, <1>9, SameQueue DEF OneShotDelivery, InBatch
<1>13. Registered'
  <2>1. \A d \in Conns : InFlight(d)' => interest'[d] # {}
    BY <1>1, <1>4, <1>10 DEF Registered
  <2>2. \A u \in Threads : pc'[u] \in Serving => interest'[job'[u]] # {}
    BY <1>4, <1>11 DEF Registered
  <2>3. mainPc' = "register" => mainConn \in Conns /\ mainConn # c
    BY DEF Registered, HandledBy, TypeOK, InPlace, Building
  <2>4. mainPc' = "register" => /\ interest'[mainConn'] = {}
                                /\ ~InFlight(mainConn)'
                                /\ \A u \in Threads : ~HandledBy(mainConn, u)'
    <3> SUFFICES ASSUME mainPc' = "register"
                 PROVE  /\ interest'[mainConn'] = {}
                        /\ ~InFlight(mainConn)'
                        /\ \A u \in Threads : ~HandledBy(mainConn, u)'
        OBVIOUS
    <3>1. interest'[mainConn'] = {}
        BY <1>4, <2>3 DEF Registered
    <3>2. ~InFlight(mainConn)'
        BY SameQueue DEF Registered, InFlight, InBatch
    <3>3. \A u \in Threads : ~HandledBy(mainConn, u)'
        BY <1>2, <2>3 DEF Registered, HandledBy
    <3> QED
        BY <3>1, <3>2, <3>3
  <2>5. \A d \in Conns : interest'[d] \in {{}, ConnEvents, Disarm(ConnEvents)}
    BY <1>4 DEF Registered
  <2> QED
    BY <2>1, <2>2, <2>4, <2>5 DEF Registered
<1>14. Alive'
    BY <1>8, <1>10, <1>11 DEF Alive
<1> QED
    BY <1>6, <1>7, <1>12, <1>13, <1>14

\* a thread that only moves on within its work on one channel
LEMMA MoveSafe ==
    ASSUME Safe, TypeOK', NEW t \in Threads, NEW q, job[t] \in Conns,
           pc' = [pc EXCEPT ![t] = q],
           q \in Serving => pc[t] \in Serving,
           q \in Owning => t \in refs[job[t]],
           t \in refs[job[t]] => q \in Owning \cup {"closing"},
           UNCHANGED <<mainPc, mainConn, client, refs, fd, interest, connections_map,
                       tasks, active, job>>
    PROVE  Safe'
<1> USE SafeFrame DEF Safe
<1>1. \A u \in Threads : pc'[u] = IF u = t THEN q ELSE pc[u]
    BY DEF TypeOK, PoolTyped
<1>2. \A c \in Conns : (InFlight(c)' <=> InFlight(c)) /\ (Kept(c)' <=> Kept(c))
                       /\ (Armed(c)' <=> Armed(c))
    BY SameQueue DEF InFlight, InBatch, Kept, Armed
<1>3. \A u \in Threads : pc'[u] \in Serving => pc[u] \in Serving /\ job[u] \in Conns
    BY <1>1, HandlerJob
<1>4. Owned'
    BY <1>1 DEF Owned, HandledBy
<1>5. Registered'
    BY <1>1, <1>3, SameQueue DEF Registered, InFlight, InBatch, HandledBy
<1>6. Alive'
    BY <1>2, <1>3 DEF Alive
<1> QED
    BY <1>4, <1>5, <1>6

LEMMA TakeSafe ==
    ASSUME Safe, TypeOK', NEW t \in Threads, Take(t)
    PROVE  Safe'
<1> DEFINE j == Head(tasks)
<1> USE SafeFrame DEF Safe, Take, At, mainVars, netVars, objVars, mapVars
<1>1. /\ j \in Conns \cup Subs /\ InQueue(j)
      /\ \A c : InQueue(c)' => InQueue(c)
      /\ \A c : QueuedOnce(c) => QueuedOnce(c)'
      /\ \A c : c = j /\ QueuedOnce(c) => ~InQueue(c)'
    BY TakeQueue
<1>2. /\ job[t] = None /\ None \notin Conns
      /\ \A u \in Threads : job'[u] = IF u = t THEN j ELSE job[u]
      /\ \A u \in Threads : pc'[u] = IF u # t THEN pc[u]
                                     ELSE IF j \in Subs THEN "poll" ELSE "handle"
      /\ {"poll", "handle", "idle"} \cap Owning = {} /\ {"poll", "idle"} \cap Serving = {}
    BY DEF TypeOK, PoolTyped, InPlace, Owning, Serving
<1>3. \A c \in Conns, u \in Threads : HandledBy(c, u)' <=> IF u = t THEN c = j ELSE HandledBy(c, u)
    BY <1>2 DEF HandledBy
<1>4. \A c \in Conns : /\ Armed(c)' <=> Armed(c)
                       /\ Kept(c)' <=> Kept(c)
                       /\ InFlight(c)' => InFlight(c)
                       /\ \A u \in Threads : InBatch(c, u)' <=> InBatch(c, u)
    BY <1>1 DEF Armed, Kept, InFlight, InBatch
<1>5. j \in Conns => InFlight(j)
    BY <1>1 DEF InFlight
<1>6. Owned'
    BY <1>2, HandlerJob DEF Owned, HandledBy
<1>7. OneShotDelivery'
  <2>1. ASSUME NEW c \in Conns PROVE QueuedOnce(c)' /\ ~(InQueue(c)' /\ Armed(c)')
    BY <1>1, <1>4 DEF OneShotDelivery
  <2>2. ASSUME NEW c \in Conns, NEW u \in Threads
        PROVE  /\ InBatch(c, u)' => ~Armed(c)' /\ ~InQueue(c)'
               /\ HandledBy(c, u)' => ~Armed(c)' /\ ~InQueue(c)'
    BY <1>1, <1>3, <1>4 DEF OneShotDelivery
  <2>3. ASSUME NEW c \in Conns, NEW u \in Threads, NEW v \in Threads
        PROVE  /\ InBatch(c, u)' => ~HandledBy(c, v)' /\ (InBatch(c, v)' => v = u)
               /\ HandledBy(c, u)' /\ HandledBy(c, v)' => v = u
    BY <1>1, <1>3, <1>4 DEF OneShotDelivery
  <2> QED
    BY <2>1, <2>2, <2>3 DEF OneShotDelivery
<1>8. Registered'
  <2>1. \A c \in Conns : InFlight(c)' => interest'[c] # {}
    BY <1>4 DEF Registered
  <2>2. \A u \in Threads : pc'[u] \in Serving => interest'[job'[u]] # {}
    BY <1>1, <1>2, <1>5, HandlerJob DEF Registered
  <2>3. mainPc = "register" => mainConn \in Conns
    BY DEF TypeOK, InPlace, Building
  <2>4. mainPc = "register" => ~InFlight(mainConn)' /\ mainConn # j
    BY <1>1, <1>5, <2>3 DEF Registered, InFlight, InBatch
  <2>5. mainPc = "register" => \A u \in Threads : ~HandledBy(mainConn, u)'
    BY <1>2, <2>3, <2>4 DEF Registered, HandledBy
  <2> QED
    BY <2>1, <2>2, <2>4, <2>5 DEF Registered
<1>9. Alive'
    BY <1>1, <1>2, <1>4, <1>5, HandlerJob DEF Alive
<1> QED
    BY <1>6, <1>7, <1>8, <1>9

LEMMA PollSafe ==
    ASSUME Safe, TypeOK', NEW t \in Threads, Poll(t)
    PROVE  Safe'
<1> DEFINE R == Reported(job[t])
<1> USE SafeFrame DEF Safe, Poll, mainVars, netVars, mapVars
<1>1. \A c \in R : c \in Conns /\ Armed(c) /\ interest[c] = ConnEvents
    BY ArmedIff DEF Reported
<1>2. \A c \in Conns : interest'[c] = IF c \in R THEN Disarm(ConnEvents) ELSE interest[c]
    BY <1>1
<1>3. \A c \in Conns : Armed(c)' <=> Armed(c) /\ c \notin R
    BY <1>2, EventFacts DEF Armed
<1>4. /\ active[t] = {}
      /\ \A u \in Threads : active'[u] = IF u = t THEN R ELSE active[u]
    BY DEF TypeOK, PoolTyped
<1>5. \A c \in Conns, u \in Threads :
         /\ InBatch(c, u)' <=> IF u = t THEN c \in R ELSE InBatch(c, u)
         /\ HandledBy(c, u)' <=> HandledBy(c, u)
    BY <1>4 DEF InBatch, HandledBy
<1>6. \A c \in Conns : /\ InFlight(c)' => InFlight(c) \/ c \in R
                       /\ Kept(c)' <=> Kept(c)
    BY <1>5, SameQueue DEF InFlight, Kept
<1>7. Owned'
  <2>1. \A c \in R : interest[c] # {} /\ refs[c] # {}
    BY <1>1, EventFacts DEF Owned
  <2> QED
    BY <1>2, <2>1 DEF Owned, HandledBy
<1>8. OneShotDelivery'
    BY <1>1, <1>3, <1>5, SameQueue DEF OneShotDelivery
<1>9. Registered'
  <2>1. \A c \in Conns : interest'[c] \in {{}, ConnEvents, Disarm(ConnEvents)}
    BY <1>2 DEF Registered
  <2>2. \A c \in Conns : InFlight(c)' => interest'[c] # {}
    BY <1>2, <1>6, EventFacts DEF Registered
  <2>3. \A u \in Threads : pc'[u] \in Serving => interest'[job'[u]] # {}
    BY <1>2, EventFacts, HandlerJob DEF Registered
  <2>4. mainPc = "register" => mainConn \in Conns /\ mainConn \notin R
    BY <1>1, EventFacts DEF TypeOK, InPlace, Building, Registered
  <2>5. mainPc = "register" => ~InFlight(mainConn)'
    BY <1>4, <2>4, SameQueue DEF Registered, InFlight, InBatch
  <2> QED
    BY <1>2, <2>1, <2>2, <2>3, <2>4, <2>5 DEF Registered, HandledBy
<1>10. Alive'
    BY <1>1, <1>3, <1>6, HandlerJob DEF Alive
<1> QED
    BY <1>7, <1>8, <1>9, <1>10

LEMMA CommitSafe ==
    ASSUME Safe, TypeOK', NEW t \in Threads, Commit(t)
    PROVE  Safe'
<1> USE SafeFrame DEF Safe, Commit, mainVars, netVars, objVars, mapVars
<1>1. PICK c \in active[t] : /\ tasks' = Append(tasks, c)
                             /\ active' = [active EXCEPT ![t] = @ \ {c}]
    OBVIOUS
<1>2. c \in Conns /\ InBatch(c, t)
    BY <1>1 DEF TypeOK, PoolTyped, InBatch
<1>3. /\ \A d : InQueue(d)' <=> InQueue(d) \/ d = c
      /\ \A d : QueuedOnce(d) /\ ~(d = c /\ InQueue(d)) => QueuedOnce(d)'
    BY <1>1, <1>2, CommitQueue
<1>4. \A d \in Conns, u \in Threads :
         /\ InBatch(d, u)' <=> InBatch(d, u) /\ ~(u = t /\ d = c)
         /\ HandledBy(d, u)' <=> HandledBy(d, u)
    BY <1>1 DEF InBatch, HandledBy, TypeOK, PoolTyped
<1>5. \A d \in Conns : /\ InFlight(d)' => InFlight(d)
                       /\ Kept(d)' <=> Kept(d)
                       /\ Armed(d)' <=> Armed(d)
    BY <1>2, <1>3, <1>4 DEF InFlight, Kept, Armed
<1>6. OneShotDelivery'
  <2>1. /\ ~Armed(c) /\ ~InQueue(c)
        /\ \A u \in Threads : ~HandledBy(c, u) /\ (InBatch(c, u) => u = t)
    BY <1>2 DEF OneShotDelivery
  <2>2. ASSUME NEW d \in Conns PROVE QueuedOnce(d)' /\ ~(InQueue(d)' /\ Armed(d)')
    BY <1>3, <1>5, <2>1 DEF OneShotDelivery
  <2>3. ASSUME NEW d \in Conns, NEW u \in Threads
        PROVE  /\ InBatch(d, u)' => ~Armed(d)' /\ ~InQueue(d)'
               /\ HandledBy(d, u)' => ~Armed(d)' /\ ~InQueue(d)'
    BY <1>3, <1>4, <1>5, <2>1 DEF OneShotDelivery
  <2>4. ASSUME NEW d \in Conns, NEW u \in Threads, NEW v \in Threads
        PROVE  /\ InBatch(d, u)' => ~HandledBy(d, v)' /\ (InBatch(d, v)' => v = u)
               /\ HandledBy(d, u)' /\ HandledBy(d, v)' => v = u
    <3>1. /\ InBatch(d, u) => ~HandledBy(d, v) /\ (InBatch(d, v) => v = u)
          /\ HandledBy(d, u) /\ HandledBy(d, v) => v = u
        BY DEF OneShotDelivery
    <3>2. /\ InBatch(d, u)' => InBatch(d, u)
          /\ InBatch(d, v)' => InBatch(d, v)
          /\ HandledBy(d, u)' => HandledBy(d, u)
          /\ HandledBy(d, v)' => HandledBy(d, v)
        BY <1>4
    <3> QED
        BY <3>1, <3>2
  <2> QED
    BY <2>2, <2>3, <2>4 DEF OneShotDelivery
<1>7. Registered'
  <2>1. mainPc = "register" => mainConn \in Conns
    BY DEF TypeOK, InPlace, Building
  <2>2. mainPc = "register" => ~InFlight(mainConn)'
    BY <1>2, <1>3, <1>4, <2>1 DEF Registered, InFlight, InBatch
  <2> QED
    BY <1>5, <2>2 DEF Registered, HandledBy
<1>8. Alive'
    BY <1>5, HandlerJob DEF Alive
<1> QED
    BY <1>6, <1>7, <1>8

\* a thread starts closing its channel: out of epoll, a share of its own
LEMMA CloseSafe ==
    ASSUME Safe, TypeOK', NEW t \in Threads, job[t] \in Conns,
           pc[t] = "closing", pc' = [pc EXCEPT ![t] = "lock"],
           refs' = [refs EXCEPT ![job[t]] = @ \cup {t}],
           interest' = [interest EXCEPT ![job[t]] = {}],
           UNCHANGED <<mainPc, mainConn, client, fd, connections_map, tasks, active, job>>
    PROVE  Safe'
<1> DEFINE c == job[t]
<1> USE DEF Safe
<1>1. /\ refs[c] # {} /\ ~Armed(c) /\ ~InFlight(c)
      /\ \A u \in Threads : HandledBy(c, u) => u = t
    BY AtWork
<1>2. /\ \A d \in Conns : refs'[d] = IF d = c THEN refs[d] \cup {t} ELSE refs[d]
      /\ \A d \in Conns : interest'[d] = IF d = c THEN {} ELSE interest[d]
      /\ \A u \in Threads : pc'[u] = IF u = t THEN "lock" ELSE pc[u]
      /\ "lock" \in Owning /\ "lock" \notin Serving
      /\ t # "main" /\ t # "map"
    BY DEF TypeOK, ObjTyped, PoolTyped, Serving, Owning
<1>3. \A d \in Conns : /\ InFlight(d)' <=> InFlight(d)
                       /\ Kept(d)' <=> Kept(d)
                       /\ Armed(d)' => Armed(d)
    BY <1>2, SameQueue DEF InFlight, InBatch, Kept, Armed
<1>4. \A u \in Threads : pc'[u] \in Serving =>
          pc[u] \in Serving /\ job[u] \in Conns \ {c}
    BY <1>1, <1>2, HandlerJob DEF HandledBy
<1>5. Owned'
  <2>1. \A d \in Conns : \A h : h \in refs'[d] => h \in refs[d] \/ (h = t /\ d = c)
    BY <1>2
  <2>2. \A d \in Conns : (refs'[d] = {} <=> refs[d] = {}) /\ refs[d] \subseteq refs'[d]
    BY <1>1, <1>2
  <2>3. \A u \in Threads : pc'[u] \in Owning => u \in refs'[job[u]]
    <3>1. t \in refs'[c]
        BY <1>2
    <3> QED
        BY <1>2, <2>2, <3>1, HandlerJob DEF Owned
  <2> QED
    BY <1>2, <2>1, <2>2, <2>3 DEF Owned, HandledBy
<1>6. Mapped'
    BY <1>2 DEF Mapped, TypeOK, InPlace
<1>7. OneShotDelivery'
    BY <1>3, SameQueue DEF OneShotDelivery, InBatch, HandledBy
<1>8. Registered'
  <2>1. \A d \in Conns : InFlight(d)' => interest'[d] # {}
    BY <1>1, <1>2, <1>3 DEF Registered
  <2>2. \A u \in Threads : pc'[u] \in Serving => interest'[job'[u]] # {}
    BY <1>2, <1>4 DEF Registered
  <2>3. mainPc' = "register" => /\ interest'[mainConn'] = {}
                                /\ ~InFlight(mainConn)'
                                /\ \A u \in Threads : ~HandledBy(mainConn, u)'
    <3> SUFFICES ASSUME mainPc' = "register"
                 PROVE  /\ interest'[mainConn'] = {}
                        /\ ~InFlight(mainConn)'
                        /\ \A u \in Threads : ~HandledBy(mainConn, u)'
        OBVIOUS
    <3>1. mainConn \in Conns /\ mainConn # c
        BY DEF Registered, HandledBy, TypeOK, InPlace, Building
    <3>2. interest'[mainConn'] = {}
        BY <1>2, <3>1 DEF Registered
    <3>3. ~InFlight(mainConn)'
        BY SameQueue DEF Registered, InFlight, InBatch
    <3>4. \A u \in Threads : ~HandledBy(mainConn, u)'
        BY DEF Registered, HandledBy
    <3> QED
        BY <3>2, <3>3, <3>4
  <2>4. \A d \in Conns : interest'[d] \in {{}, ConnEvents, Disarm(ConnEvents)}
    BY <1>2 DEF Registered
  <2> QED
    BY <2>1, <2>2, <2>3, <2>4 DEF Registered
<1>9. Alive'
    BY <1>3, <1>4 DEF Alive
<1> QED
    BY <1>5, <1>6, <1>7, <1>8, <1>9

\* the map's entry for the thread's descriptor can only be the thread's channel
LEMMA OwnEntry ==
    ASSUME Safe, NEW t \in Threads, job[t] \in Conns
    PROVE  /\ fd[job[t]] \in Fds
           /\ connections_map[fd[job[t]]] \in {job[t], None}
           /\ connections_map[fd[job[t]]] = None <=> "map" \notin refs[job[t]]
<1> DEFINE c == job[t]
<1> USE DEF Safe
<1>1. refs[c] # {} /\ fd[c] \in Fds
    BY AtWork DEF Owned
<1>2. ASSUME NEW e \in Conns, connections_map[fd[c]] = e PROVE e = c /\ "map" \in refs[c]
  <2>1. \A f \in Fds : connections_map[f] = e => fd[e] = f /\ "map" \in refs[e]
    BY DEF Mapped
  <2>2. fd[e] = fd[c] /\ "map" \in refs[e]
    BY <1>1, <1>2, <2>1
  <2> QED
    BY <1>1, <2>2 DEF Owned
<1>3. connections_map[fd[c]] \in Conns \cup {None} /\ None \notin Conns
    BY <1>1 DEF TypeOK, MapTyped
<1> QED
    BY <1>1, <1>2, <1>3 DEF Mapped

\* a thread hands the messages to the callback, with a share of its own
LEMMA ShareSafe ==
    ASSUME Safe, TypeOK', NEW t \in Threads, job[t] \in Conns,
           pc[t] = "message", pc' = [pc EXCEPT ![t] = "reply"],
           refs' = [refs EXCEPT ![job[t]] = @ \cup {t}],
           UNCHANGED <<mainPc, mainConn, client, fd, interest, connections_map,
                       tasks, active, job>>
    PROVE  Safe'
<1> DEFINE c == job[t]
<1> USE DEF Safe
<1>1. refs[c] # {} /\ t # "main" /\ t # "map"
    BY AtWork
<1>2. /\ \A d \in Conns : refs'[d] = IF d = c THEN refs[d] \cup {t} ELSE refs[d]
      /\ \A u \in Threads : pc'[u] = IF u = t THEN "reply" ELSE pc[u]
      /\ "reply" \in Owning /\ {"reply", "message"} \subseteq Serving
    BY DEF TypeOK, ObjTyped, PoolTyped, Serving, Owning
<1>3. \A d \in Conns : /\ InFlight(d)' <=> InFlight(d)
                       /\ Kept(d)' <=> Kept(d)
                       /\ Armed(d)' <=> Armed(d)
    BY <1>1, <1>2, SameQueue DEF InFlight, InBatch, Kept, Armed
<1>4. \A u \in Threads : pc'[u] \in Serving => pc[u] \in Serving /\ job[u] \in Conns
    BY <1>2, HandlerJob
<1>5. Owned'
  <2>1. \A d \in Conns : \A h : h \in refs'[d] => h \in refs[d] \/ (h = t /\ d = c)
    BY <1>2
  <2>2. \A d \in Conns : (refs'[d] = {} <=> refs[d] = {}) /\ refs[d] \subseteq refs'[d]
    BY <1>1, <1>2
  <2>3. \A u \in Threads : pc'[u] \in Owning => u \in refs'[job[u]]
    <3>1. t \in refs'[c]
        BY <1>2
    <3> QED
        BY <1>2, <2>2, <3>1, HandlerJob DEF Owned
  <2> QED
    BY <1>1, <1>2, <2>1, <2>2, <2>3 DEF Owned, HandledBy
<1>6. Mapped'
    BY <1>1, <1>2 DEF Mapped, TypeOK, InPlace
<1>7. OneShotDelivery' /\ Registered'
  <2>1. OneShotDelivery'
    BY SafeFrame
  <2>2. Registered'
    BY <1>4, SameQueue DEF Registered, InFlight, InBatch, HandledBy
  <2> QED
    BY <2>1, <2>2
<1>8. Alive'
    BY <1>3, <1>4 DEF Alive
<1> QED
    BY <1>5, <1>6, <1>7, <1>8

\* a thread takes its own channel, and no other, out of the map
LEMMA EraseSafe ==
    ASSUME Safe, TypeOK', NEW t \in Threads, Erase(t)
    PROVE  Safe'
<1> DEFINE c == job[t]
<1> USE DEF Safe
<1>1. /\ c \in Conns /\ pc[t] = "erase"
      /\ UNCHANGED <<mainPc, mainConn, client, tasks, active, job>>
    BY HandlerJob DEF Erase, At, Owning, mainVars, netVars
<1>2. /\ refs[c] # {} /\ ~Armed(c) /\ ~InFlight(c)
      /\ \A u \in Threads : HandledBy(c, u) => u = t
    BY <1>1, AtWork
<1>3. /\ fd[c] \in Fds
      /\ connections_map[fd[c]] \in {c, None}
      /\ connections_map[fd[c]] = None <=> "map" \notin refs[c]
    BY <1>1, OwnEntry
<1>4. t \in refs[c] /\ t # "map" /\ t # "main" /\ None \notin Conns
    BY <1>1 DEF Owned, Owning
<1>5. /\ \A d \in Conns : refs'[d] = IF d = c THEN refs[d] \ {"map"} ELSE refs[d]
      /\ UNCHANGED <<fd, interest>>
      /\ connections_map' = [connections_map EXCEPT ![fd[c]] = None]
  <2>1. CASE connections_map[fd[c]] = None
    BY <1>3, <2>1 DEF Erase
  <2>2. CASE connections_map[fd[c]] = c
    <3>1. Drop(c, "map") /\ ~(refs[c] \subseteq {"map"})
        BY <1>1, <1>4, <2>2 DEF Erase
    <3> QED
        BY <1>1, <2>2, <3>1 DEF Erase, Drop, TypeOK, ObjTyped
  <2> QED
    BY <1>3, <2>1, <2>2
<1>6. /\ \A f \in Fds : connections_map'[f] = IF f = fd[c] THEN None ELSE connections_map[f]
      /\ \A u \in Threads : pc'[u] = IF u = t THEN "release" ELSE pc[u]
      /\ {"erase", "release"} \subseteq Owning /\ {"erase", "release"} \cap Serving = {}
    BY <1>3, <1>5 DEF Erase, TypeOK, MapTyped, PoolTyped, Owning, Serving
<1>7. \A d \in Conns : /\ InFlight(d)' <=> InFlight(d)
                       /\ Armed(d)' <=> Armed(d)
                       /\ d # c /\ Kept(d) => Kept(d)'
    BY <1>1, <1>5, SameQueue DEF InFlight, InBatch, Armed, Kept
<1>8. \A u \in Threads : pc'[u] \in Serving => pc[u] \in Serving /\ job[u] \in Conns \ {c}
    BY <1>2, <1>6, HandlerJob DEF HandledBy
<1>9. Owned'
  <2>1. \A d \in Conns : \A h : h \in refs'[d] <=> h \in refs[d] /\ ~(h = "map" /\ d = c)
    BY <1>5
  <2>2. \A d \in Conns : refs'[d] = {} <=> refs[d] = {}
    BY <1>4, <2>1
  <2>3. \A u \in Threads : pc'[u] \in Owning => pc[u] \in Owning /\ job[u] \in Conns /\ u # "map"
    BY <1>1, <1>6, HandlerJob
  <2>4. \A u \in Threads : pc'[u] \in Owning => u \in refs'[job[u]]
    BY <2>1, <2>3 DEF Owned
  <2>5. \A d \in Conns, u \in Threads :
            u \in refs'[d] => HandledBy(d, u) /\ pc'[u] \in Owning \cup {"closing"}
    BY <1>6, <2>1 DEF Owned
  <2> QED
    BY <1>1, <1>5, <2>1, <2>2, <2>4, <2>5 DEF Owned, HandledBy
<1>10. Mapped'
  <2>1. ASSUME NEW d \in Conns, "map" \in refs'[d] PROVE connections_map'[fd'[d]] = d
    <3>1. d # c /\ "map" \in refs[d]
        BY <1>5, <2>1
    <3>2. fd[d] \in Fds /\ fd[d] # fd[c]
        BY <1>1, <1>2, <3>1 DEF Owned
    <3> QED
        BY <1>5, <1>6, <3>1, <3>2 DEF Mapped
  <2>2. ASSUME NEW d \in Conns, NEW f \in Fds, connections_map'[f] = d
        PROVE  fd'[d] = f /\ "map" \in refs'[d]
    <3>1. f # fd[c] /\ connections_map[f] = d
        BY <1>4, <1>6, <2>2
    <3>2. fd[d] = f /\ "map" \in refs[d]
        BY <3>1 DEF Mapped
    <3> QED
        BY <1>5, <3>1, <3>2
  <2>3. mainPc' \in Building => "map" \notin refs'[mainConn']
    BY <1>1, <1>5 DEF Mapped, TypeOK, InPlace
  <2> QED
    BY <2>1, <2>2, <2>3 DEF Mapped
<1>11. OneShotDelivery'
    BY <1>1, <1>5, SafeFrame
<1>12. Registered'
    BY <1>1, <1>5, <1>8, SameQueue DEF Registered, InFlight, InBatch, HandledBy
<1>13. Alive'
    BY <1>1, <1>2, <1>7, <1>8 DEF Alive
<1> QED
    BY <1>9, <1>10, <1>11, <1>12, <1>13

\* a step that only ends the process
LEMMA CrashSafe ==
    ASSUME Safe, TypeOK',
           UNCHANGED <<mainPc, mainConn, client, fd, interest, refs, connections_map,
                       tasks, active, pc, job>>
    PROVE  Safe'
BY SafeFrame DEF Safe

LEMMA WorkerSafe ==
    ASSUME Safe, TypeOK', NEW t \in Threads, WorkerStep(t)
    PROVE  Safe'
<1> USE DEF mainVars, netVars, objVars, mapVars, At
<1>1. pc[t] \in Serving \cup Owning => job[t] \in Conns
    BY HandlerJob DEF Safe
<1>2. /\ \A u \in Threads : u \in refs[job[u]] /\ job[u] \in Conns =>
             pc[u] \in Owning \cup {"closing"}
      /\ pc[t] \in Owning => t \in refs[job[t]]
    BY DEF Safe, Owned
<1>3. CASE Take(t) \/ Poll(t) \/ Commit(t)
    BY <1>3, TakeSafe, PollSafe, CommitSafe
<1>4. CASE Handle(t)
  <2> USE <1>4 DEF Handle, Serving, Owning
  <2>1. job[t] \in Conns /\ pc[t] = "handle"
    BY <1>1
  <2>2. CASE Idle(t)
    BY <2>1, <2>2, ReturnSafe
  <2>3. CASE pc' = [pc EXCEPT ![t] = "recv"] /\ UNCHANGED job
    BY <1>2, <2>1, <2>3, MoveSafe
  <2>4. CASE UNCHANGED <<pc, job>>
    BY <2>4, CrashSafe
  <2> QED
    BY <2>2, <2>3, <2>4
<1>5. CASE Recv(t)
  <2> USE <1>5 DEF Recv, Serving, Owning
  <2>1. job[t] \in Conns /\ pc[t] = "recv"
    BY <1>1
  <2>2. CASE UNCHANGED pc
    BY <2>2, CrashSafe
  <2>3. ASSUME NEW q \in {"message", "closing"}, pc' = [pc EXCEPT ![t] = q] PROVE Safe'
    BY <1>2, <2>1, <2>3, MoveSafe
  <2> QED
    BY <2>2, <2>3
<1>6. CASE CallMessage(t)
  <2> USE <1>6 DEF CallMessage, Serving, Owning
  <2>1. job[t] \in Conns /\ pc[t] = "message"
    BY <1>1
  <2>2. CASE Idle(t) /\ UNCHANGED refs
    BY <2>1, <2>2, ReturnSafe
  <2>3. CASE /\ refs' = [refs EXCEPT ![job[t]] = @ \cup {t}]
             /\ pc' = [pc EXCEPT ![t] = "reply"]
             /\ UNCHANGED job
    BY <2>1, <2>3, ShareSafe
  <2>4. CASE UNCHANGED <<pc, job, refs>>
    BY <2>4, CrashSafe
  <2> QED
    BY <2>2, <2>3, <2>4
<1>7. CASE Reply(t)
  <2> USE <1>7 DEF Reply, Serving, Owning
  <2>1. job[t] \in Conns /\ pc[t] = "reply"
    BY <1>1
  <2>2. CASE pc' = [pc EXCEPT ![t] = "closing"] /\ UNCHANGED <<fd, interest, refs, job>>
    BY <1>2, <2>1, <2>2, MoveSafe
  <2>3. CASE Drop(job[t], t) /\ Idle(t)
    BY <2>1, <2>3, ReturnSafe
  <2>4. CASE UNCHANGED <<fd, interest, refs, pc, job>>
    BY <2>4, CrashSafe
  <2> QED
    BY <2>2, <2>3, <2>4
<1>8. CASE CallClose(t)
  <2> USE <1>8 DEF CallClose, Serving, Owning
  <2>1. job[t] \in Conns /\ pc[t] = "closing"
    BY <1>1
  <2>2. CASE Drop(job[t], t) /\ Idle(t)
    BY <2>1, <2>2, ReturnSafe
  <2>3. CASE /\ refs' = [refs EXCEPT ![job[t]] = @ \cup {t}]
             /\ interest' = [interest EXCEPT ![job[t]] = {}]
             /\ pc' = [pc EXCEPT ![t] = "lock"]
             /\ UNCHANGED <<fd, job>>
    BY <2>1, <2>3, CloseSafe
  <2>4. CASE UNCHANGED <<fd, interest, refs, pc, job>>
    BY <2>4, CrashSafe
  <2> QED
    BY <2>2, <2>3, <2>4
<1>9. CASE LockMap(t)
  <2> USE <1>9 DEF LockMap, Serving, Owning
  <2>1. job[t] \in Conns /\ pc[t] = "lock"
    BY <1>1
  <2>2. pc' = [pc EXCEPT ![t] = "erase"]
    OBVIOUS
  <2> QED
    BY <1>2, <2>1, <2>2, MoveSafe
<1>10. CASE Erase(t)
    BY <1>10, EraseSafe
<1>11. CASE Release(t)
  <2> USE <1>11 DEF Release, Serving, Owning
  <2>1. job[t] \in Conns /\ Drop(job[t], t) /\ Idle(t)
    BY <1>1
  <2> QED
    BY <2>1, ReturnSafe
<1> QED
    BY <1>3, <1>4, <1>5, <1>6, <1>7, <1>8, <1>9, <1>10, <1>11 DEF WorkerStep

LEMMA StepSafe == Safe /\ [Next]_vars => Safe'
<1> SUFFICES ASSUME Safe, [Next]_vars PROVE Safe'
    OBVIOUS
<1>1. TypeOK'
    BY StepTyped DEF Safe
<1>2. CASE UNCHANGED vars
    BY <1>1, <1>2, CrashSafe DEF vars, mainVars, netVars, objVars, mapVars, poolVars
<1>3. CASE Next
    BY <1>1, <1>3, ClientSafe, MainSafe, WorkerSafe DEF Next
<1> QED
    BY <1>2, <1>3

LEMMA AlwaysSafe == Spec => []Safe
<1> QED
    BY InitSafe, StepSafe, PTL DEF Spec

\* No raw pointer to a channel outlives its Connection (NoUseAfterFree).
THEOREM PointersAlive == Spec => []NoUseAfterFree
<1>1. Safe => NoUseAfterFree
    BY DeadIsNowhere DEF NoUseAfterFree, InFlight
<1> QED
    BY <1>1, AlwaysSafe, PTL

\* A channel's event is with one holder at a time (OneShotDelivery).
THEOREM DeliveredOnce == Spec => []OneShotDelivery
<1>1. Safe => OneShotDelivery
    BY DEF Safe
<1> QED
    BY <1>1, AlwaysSafe, PTL

LEMMA KeysFree == Safe => InsertFindsFree
<1> SUFFICES ASSUME Safe, mainPc = "insert" PROVE connections_map[fd[mainConn]] = None
    BY DEF InsertFindsFree
<1>1. mainConn \in Conns /\ "map" \notin refs[mainConn] /\ refs[mainConn] # {}
    BY DEF Safe, TypeOK, InPlace, Building, Mapped, Owned
<1>2. fd[mainConn] \in Fds
    BY <1>1 DEF Safe, Owned
<1>3. ASSUME NEW e \in Conns, connections_map[fd[mainConn]] = e PROVE FALSE
  <2>1. fd[e] = fd[mainConn] /\ "map" \in refs[e]
    BY <1>2, <1>3 DEF Safe, Mapped
  <2> QED
    BY <1>1, <2>1 DEF Safe, Owned
<1> QED
    BY <1>2, <1>3 DEF Safe, TypeOK, MapTyped

\* Live Connections own different descriptors, the map's entry for one is its
\* owner, and insert always finds its key free (FdOwnership).
THEOREM DescriptorsOwned == Spec => []FdOwnership
<1>1. Safe => FdOwnership
  <2> SUFFICES ASSUME Safe PROVE FdOwnership
    OBVIOUS
  <2>1. \A f \in Fds : connections_map[f] # None => connections_map[f] \in Conns
    BY DEF Safe, TypeOK, MapTyped
  <2> QED
    BY <2>1, KeysFree DEF Safe, Owned, Mapped, FdOwnership
<1> QED
    BY <1>1, AlwaysSafe, PTL

\* A handler that starts closing finds its channel registered in epoll
\* (DelFindsRegistration).
THEOREM RegisteredAtClose == Spec => []DelFindsRegistration
<1>1. Safe => DelFindsRegistration
    BY DEF Safe, Registered, Serving, DelFindsRegistration, InEpoll
<1> QED
    BY <1>1, AlwaysSafe, PTL
=============================================================================
