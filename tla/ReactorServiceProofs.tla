------------------------ MODULE ReactorServiceProofs ------------------------
(***************************************************************************)
(* What becomes of a Connection, for every value of the constants: it ends *)
(* with its handler unless it was overtaken or its callback threw, the     *)
(* reactor implements ConnService, and it starves its pool of threads.     *)
(***************************************************************************)
EXTENDS ReactorProofs, FiniteSetTheorems

USE SubNumAssumption, MaxSendAssumption, FdsAssumption, ThrowsAssumption,
    ThreadsAssumption, NamesAssumption

LEMMA InitFinished == Init => Finished
<1> SUFFICES ASSUME Init PROVE Finished
    OBVIOUS
<1> USE DEF Init
<1>1. \A c : ~InQueue(c)
    BY DEF InQueue
<1>2. Built
    BY DEF Built
<1>3. Readable
    BY <1>1 DEF Readable, InFlight, InBatch
<1>4. Noted
    BY DEF Noted
<1>5. Ends
    BY DEF Ends
<1> QED
    BY <1>2, <1>3, <1>4, <1>5 DEF Finished

\* each part survives a step that leaves its variables alone
LEMMA FinishedFrame ==
    ASSUME Finished
    PROVE  /\ UNCHANGED <<client, mainConn, mainPc, slot>> => Built'
           /\ UNCHANGED <<active, tasks, pc, job, ready_events>> => Readable'
           /\ UNCHANGED <<job, mainConn>> /\ overtaken \subseteq overtaken' => Noted'
           /\ UNCHANGED <<refs, mainConn, mainPc, interest, active, tasks, job, pc,
                          overtaken, threw>> => Ends'
<1> USE DEF Finished
<1>1. UNCHANGED <<client, mainConn, mainPc, slot>> => Built'
    BY DEF Built
<1>2. UNCHANGED <<active, tasks, pc, job, ready_events>> => Readable'
    BY SameQueue DEF Readable, InFlight, InBatch
<1>3. UNCHANGED <<job, mainConn>> /\ overtaken \subseteq overtaken' => Noted'
    BY DEF Noted, HandledBy
<1>4. UNCHANGED <<refs, mainConn, mainPc, interest, active, tasks, job, pc,
                  overtaken, threw>> => Ends'
    BY SameQueue DEF Ends, HandledBy, Undelivered, InBatch, Armed
<1> QED
    BY <1>1, <1>2, <1>3, <1>4

LEMMA ClientFinished ==
    ASSUME Finished, NEW c \in Conns, ClientStep(c)
    PROVE  Finished'
<1> USE FinishedFrame DEF Finished, objVars, mapVars, poolVars, mainVars, history
<1>1. CASE Connect(c)
  <2>1. Built'
    BY <1>1 DEF Connect, Built
  <2> QED
    BY <1>1, <2>1 DEF Connect
<1>2. CASE Send(c) \/ PeerClose(c) \/ PeerReset(c)
    BY <1>2 DEF Send, PeerClose, PeerReset
<1> QED
    BY <1>1, <1>2 DEF ClientStep

\* the main thread loses no event and takes no share from anybody
LEMMA MainEnds ==
    ASSUME Ends, UNCHANGED <<pc, job, overtaken, threw>>,
           \A c \in Conns : Undelivered(c) => Undelivered(c)',
           \A c \in Conns : refs'[c] # {} => refs[c] # {} \/ Undelivered(c)',
           \A t \in Threads : pc[t] = "release" =>
               job[t] \in overtaken \/ "map" \notin refs'[job[t]]
    PROVE  Ends'
BY DEF Ends, HandledBy

LEMMA MainFinished ==
    ASSUME Safe, Safe', Finished, MainStep
    PROVE  Finished'
<1> USE FinishedFrame DEF Finished, MainAt, netVars, objVars, mapVars, poolVars, history
<1>0. /\ mainPc \in Building \cup {"leave"} => mainConn \in Conns
      /\ mainPc \notin Building \cup {"leave"} => mainConn \notin Conns
      /\ \A t \in Threads : pc[t] = "release" => job[t] \in Conns
    BY HandlerJob DEF Safe, TypeOK, InPlace, Owning
<1>1. CASE StartSub
  <2> USE <1>1 DEF StartSub
  <2>1. committed \in Subs /\ committed \notin Conns
    BY DEF Subs, Safe, TypeOK, MainTyped
  <2>2. \A c \in Conns : InQueue(c)' <=> InQueue(c)
    BY <2>1, CommitQueue DEF Safe
  <2>3. mainConn \notin Conns
    BY <1>0 DEF Building, Slots
  <2>4. Built' /\ Readable' /\ Noted'
    BY <2>2, <2>3 DEF Built, Readable, Noted, InFlight, InBatch
  <2>5. \A c \in Conns : Undelivered(c) => Undelivered(c)'
    BY <2>2, <2>3 DEF Undelivered, Armed, InBatch
  <2>6. Ends'
    BY <2>5, MainEnds DEF Ends
  <2> QED
    BY <2>4, <2>6
<1>2. CASE AcceptWake \/ AcceptStops
  <2> USE <1>2 DEF AcceptWake, AcceptStops
  <2>1. mainConn \notin Conns
    BY <1>0 DEF Building, Slots
  <2>2. Built' /\ Readable' /\ Noted'
    BY <2>1 DEF Built
  <2>3. \A c \in Conns : Undelivered(c) => Undelivered(c)'
    BY <2>1, SameQueue DEF Undelivered, Armed, InBatch
  <2>4. Ends'
    BY <2>3, MainEnds DEF Ends
  <2> QED
    BY <2>2, <2>4
<1>3. ASSUME NEW c \in Conns, NEW f \in Fds, Accept(c, f) PROVE Finished'
  <2> USE <1>3 DEF Accept
  <2>1. mainConn \notin Conns /\ refs[c] = {}
    BY <1>0 DEF Building, Slots, Safe, Owned
  <2>2. \A t \in Threads : ~HandledBy(c, t)
    BY <2>1, DeadIsNowhere
  <2>3. \A d \in Conns : /\ client'[d] = IF d = c THEN "accepted" ELSE client[d]
                         /\ refs'[d] = IF d = c THEN {"main"} ELSE refs[d]
    BY DEF Safe, TypeOK, NetTyped, ObjTyped
  <2>4. Built'
    BY <2>1, <2>3 DEF Built, SetAt
  <2>5. Readable' /\ Noted'
    BY <2>2 DEF Noted, HandledBy
  <2>6. \A d \in Conns : Undelivered(d) => Undelivered(d)'
    BY <2>1, SameQueue DEF Undelivered, Armed, InBatch
  <2>7. Undelivered(c)'
    BY DEF Undelivered
  <2>8. \A t \in Threads : pc[t] = "release" =>
            job[t] \in overtaken \/ "map" \notin refs'[job[t]]
    BY <1>0, <2>3 DEF Ends
  <2>9. Ends'
    BY <2>3, <2>6, <2>7, <2>8, MainEnds
  <2> QED
    BY <2>4, <2>5, <2>9
<1>4. CASE Register
  <2> USE <1>4 DEF Register
  <2>1. mainConn \in Conns
    BY <1>0 DEF Building
  <2>2. \A d \in Conns : interest'[d] = IF d = mainConn THEN ConnEvents ELSE interest[d]
    BY <2>1 DEF Safe, TypeOK, ObjTyped
  <2>3. Built' /\ Readable' /\ Noted'
    BY DEF Built, SetAt
  <2>4. \A d \in Conns : Undelivered(d) => Undelivered(d)'
    BY <2>1, <2>2, EventFacts, SameQueue DEF Undelivered, Armed, InBatch
  <2>5. Ends'
    BY <2>4, MainEnds DEF Ends
  <2> QED
    BY <2>3, <2>5
<1>5. CASE RegisterFails
    BY <1>5 DEF RegisterFails, Crash, mainVars
<1>6. CASE AssignSlot
  <2> USE <1>6 DEF AssignSlot
  <2>1. mainConn \in Conns /\ slot[mainConn] \in Assigned
    BY <1>0 DEF Building, Safe, TypeOK, ObjTyped
  <2>2. /\ \A d \in Conns \ {mainConn} : slot'[d] = slot[d]
        /\ \A s \in Slots \ {mainPc} : slot'[mainConn][s] = slot[mainConn][s]
    BY <2>1 DEF Safe, TypeOK, ObjTyped, Assigned
  <2>3. \/ mainPc' = mainPc
        \/ /\ mainPc' = AfterSlot[mainPc] /\ slot'[mainConn][mainPc] = "set"
           /\ SetAt[mainPc'] = SetAt[mainPc] \cup {mainPc}
    BY <2>1 DEF Safe, TypeOK, ObjTyped, Assigned, SetAt, AfterSlot, Slots
  <2>4. mainPc \notin SetAt[mainPc]
    BY DEF SetAt, Slots
  <2>5. Built'
    BY <2>1, <2>2, <2>3, <2>4 DEF Built
  <2>6. Readable' /\ Noted'
    OBVIOUS
  <2>7. mainPc # "register"
    BY DEF Slots
  <2>8. \A d \in Conns : Undelivered(d) => Undelivered(d)'
    BY <2>7, SameQueue DEF Undelivered, Armed, InBatch
  <2>9. Ends'
    BY <2>8, MainEnds DEF Ends
  <2> QED
    BY <2>5, <2>6, <2>9
<1>7. CASE LockForInsert
  <2> USE <1>7 DEF LockForInsert
  <2>1. Built' /\ Readable' /\ Noted'
    BY DEF Built, SetAt
  <2>2. \A d \in Conns : Undelivered(d) => Undelivered(d)'
    BY SameQueue DEF Undelivered, Armed, InBatch
  <2>3. Ends'
    BY <2>2, MainEnds DEF Ends
  <2> QED
    BY <2>1, <2>3
<1>8. CASE Insert
  <2> USE <1>8 DEF Insert
  <2>1. mainConn \in Conns /\ refs[mainConn] # {}
    BY <1>0 DEF Building, Safe, Owned
  <2>2. Built' /\ Readable' /\ Noted'
    BY DEF Built, SetAt
  <2>3. \A d \in Conns : Undelivered(d) => Undelivered(d)'
    BY SameQueue DEF Undelivered, Armed, InBatch
  <2>4. \A d \in Conns : refs'[d] = refs[d] \/ d = mainConn
    BY <2>1 DEF Safe, TypeOK, ObjTyped
  <2>5. \A t \in Threads : pc[t] = "release" =>
            job[t] \in overtaken \/ "map" \notin refs'[job[t]]
    BY <1>0, <2>1, <2>4 DEF Ends, Noted, HandledBy
  <2>6. Ends'
    BY <2>1, <2>3, <2>4, <2>5, MainEnds
  <2> QED
    BY <2>2, <2>6
<1>9. CASE Leave
  <2> DEFINE c == mainConn
  <2> USE <1>9 DEF Leave
  <2>1. c \in Conns /\ None \notin Conns
    BY <1>0
  <2>2. /\ \A d \in Conns : refs'[d] \subseteq refs[d]
        /\ \A d \in Conns : refs'[d] # {} => interest'[d] = interest[d]
        /\ \A d \in Conns \ {c} : interest'[d] = interest[d]
        /\ refs'[c] = {} => "map" \notin refs[c]
    BY <2>1 DEF Drop, Safe, TypeOK, ObjTyped
  <2>3. Built'
    BY <2>1 DEF Built, SetAt
  <2>4. Readable' /\ Noted'
    BY <2>1 DEF Noted
  <2>5. refs'[c] = {} => ~Armed(c)
    BY <2>1, <2>2 DEF Safe, Alive, Kept, Building, Slots
  <2>6. \A d \in Conns : Undelivered(d) => Undelivered(d)'
    BY <2>2, <2>5, SameQueue DEF Undelivered, Armed, InBatch
  <2>7. \A t \in Threads : pc[t] = "release" =>
            job[t] \in overtaken \/ "map" \notin refs'[job[t]]
    BY <1>0, <2>2 DEF Ends
  <2>8. Ends'
    BY <2>2, <2>6, <2>7, MainEnds
  <2> QED
    BY <2>3, <2>4, <2>8
<1> QED
    BY <1>1, <1>2, <1>3, <1>4, <1>5, <1>6, <1>7, <1>8, <1>9 DEF MainStep

\* a thread goes on within its work on one channel
LEMMA MoveFinished ==
    ASSUME Safe, Finished, NEW t \in Threads, NEW q \in WorkerPcs \ {"handle"},
           job[t] \in Conns,
           pc' = [pc EXCEPT ![t] = q],
           q = "release" => "map" \notin refs'[job[t]],
           \A c \in Conns : refs'[c] \subseteq refs[c] \cup {t} /\ (refs[c] = {} => refs'[c] = {}),
           \A c \in Conns : Armed(c) => Armed(c)',
           UNCHANGED <<client, mainConn, mainPc, slot, active, tasks, job, ready_events,
                       overtaken, threw>>
    PROVE  Finished'
<1> USE FinishedFrame DEF Finished
<1>1. \A u \in Threads : pc'[u] = IF u = t THEN q ELSE pc[u]
    BY DEF Safe, TypeOK, PoolTyped
<1>2. Readable'
    BY <1>1, SameQueue DEF Readable, InFlight, InBatch
<1>3. \A c \in Conns : Undelivered(c) => Undelivered(c)'
    BY SameQueue DEF Undelivered, InBatch
<1>4. \A u \in Threads : pc'[u] = "release" => job[u] \in overtaken \/ "map" \notin refs'[job[u]]
  <2>1. \A u \in Threads : pc[u] = "release" => job[u] \in Conns
    BY HandlerJob DEF Safe, Owning
  <2> QED
    BY <1>1, <2>1 DEF Ends
<1>5. Ends'
    BY <1>3, <1>4 DEF Ends, HandledBy
<1> QED
    BY <1>2, <1>5

\* a thread is done with its channel, which is dead, overtaken or threw
LEMMA ReturnFinished ==
    ASSUME Safe, Finished, NEW t \in Threads, job[t] \in Conns, Idle(t),
           refs'[job[t]] = {} \/ job[t] \in overtaken' \cup threw',
           \A c \in Conns : refs'[c] \subseteq refs[c],
           \A c \in Conns : Armed(c) => Armed(c)',
           overtaken' = overtaken, threw \subseteq threw',
           UNCHANGED <<client, mainConn, mainPc, slot, active, tasks, ready_events>>
    PROVE  Finished'
<1> DEFINE c == job[t]
<1> USE FinishedFrame DEF Finished, Idle
<1>1. /\ \A u \in Threads : pc'[u] = IF u = t THEN "idle" ELSE pc[u]
      /\ \A u \in Threads : job'[u] = IF u = t THEN None ELSE job[u]
      /\ None \notin Conns
    BY DEF Safe, TypeOK, PoolTyped
<1>2. Readable'
    BY <1>1, SameQueue DEF Readable, InFlight, InBatch
<1>3. Noted'
    BY <1>1 DEF Noted, HandledBy
<1>4. \A d \in Conns : Undelivered(d) => Undelivered(d)'
    BY SameQueue DEF Undelivered, InBatch
<1>5. \A d \in Conns, u \in Threads : HandledBy(d, u) => d = c \/ HandledBy(d, u)'
    BY <1>1 DEF HandledBy
<1>6. \A u \in Threads : pc'[u] = "release" =>
          job'[u] \in overtaken' \/ "map" \notin refs'[job'[u]]
  <2>1. \A u \in Threads : pc[u] = "release" => job[u] \in Conns
    BY HandlerJob DEF Safe, Owning
  <2> QED
    BY <1>1, <2>1 DEF Ends
<1>7. \A d \in Conns : refs'[d] # {} =>
          \/ d \in overtaken' \cup threw'
          \/ Undelivered(d)'
          \/ \E u \in Threads : HandledBy(d, u)'
    BY <1>4, <1>5 DEF Ends
<1>8. Ends'
    BY <1>6, <1>7 DEF Ends
<1> QED
    BY <1>2, <1>3, <1>8

\* who still finds a member unset has overtaken the main thread
LEMMA UnsetOvertakes ==
    ASSUME Safe, Finished, NEW t \in Threads, job[t] \in Conns, NEW s \in Slots,
           "unset" \in Observed(job[t], s)
    PROVE  job[t] \in overtaken
<1>1. slot[job[t]][s] # "set"
    BY DEF Observed
<1>2. client[job[t]] = "accepted"
    BY AtWork DEF Safe, Owned
<1>3. job[t] = mainConn
    BY <1>1, <1>2 DEF Finished, Built
<1> QED
    BY <1>3 DEF Finished, Noted, HandledBy

\* the thread's last share is the Connection's, or it was overtaken
LEMMA LastShare ==
    ASSUME Safe, Finished, NEW t \in Threads, pc[t] = "release"
    PROVE  refs[job[t]] \subseteq {t} \/ job[t] \in overtaken
<1> DEFINE c == job[t]
<1>1. c \in Conns
    BY HandlerJob DEF Safe, Owning
<1>2. "map" \notin refs[c] \/ c \in overtaken
    BY DEF Finished, Ends
<1>3. "main" \in refs[c] => c \in overtaken
    BY <1>1 DEF Safe, Owned, Finished, Noted, HandledBy
<1>4. \A u \in Threads : u \in refs[c] => u = t
    BY <1>1, AtWork DEF Safe, Owned
<1>5. refs[c] \subseteq Threads \cup {"main", "map"}
    BY <1>1 DEF Safe, TypeOK, ObjTyped, Holders
<1> QED
    BY <1>2, <1>3, <1>4, <1>5

\* what Drop does to the others: nothing
LEMMA DropOnly ==
    ASSUME TypeOK, NEW c \in Conns, NEW h, Drop(c, h)
    PROVE  /\ refs'[c] = refs[c] \ {h}
           /\ \A d \in Conns \ {c} : refs'[d] = refs[d] /\ interest'[d] = interest[d]
           /\ ~Armed(c) => \A d \in Conns : Armed(d) => Armed(d)'
BY DEF Drop, TypeOK, ObjTyped, Armed

LEMMA TakeFinished ==
    ASSUME Safe, Safe', Finished, NEW t \in Threads, Take(t)
    PROVE  Finished'
<1> DEFINE j == Head(tasks)
<1> USE FinishedFrame DEF Finished, Take, At, mainVars, netVars, objVars, mapVars
<1>1. /\ j \in Conns \cup Subs /\ InQueue(j)
      /\ \A c : InQueue(c)' => InQueue(c)
      /\ \A c : InQueue(c) => InQueue(c)' \/ c = j
    BY TakeQueue DEF Safe
<1>2. /\ job[t] = None
      /\ \A u \in Threads : job'[u] = IF u = t THEN j ELSE job[u]
      /\ \A u \in Threads : pc'[u] = IF u # t THEN pc[u]
                                     ELSE IF j \in Subs THEN "poll" ELSE "handle"
      /\ None \notin Conns
    BY DEF Safe, TypeOK, PoolTyped, InPlace
<1>3. Readable'
  <2>1. j \in Conns => "IN" \in ready_events[j]
    BY <1>1 DEF Readable, InFlight
  <2>2. \A c \in Conns : InFlight(c)' => InFlight(c)
    BY <1>1 DEF InFlight, InBatch
  <2>3. \A u \in Threads : pc'[u] = "handle" => "IN" \in ready_events[job'[u]]
    BY <1>1, <1>2, <2>1 DEF Readable
  <2> QED
    BY <2>2, <2>3 DEF Readable
<1>4. Noted'
    BY <1>2 DEF Noted, HandledBy
<1>5. \A c \in Conns : Undelivered(c) => Undelivered(c)' \/ c = j
    BY <1>1 DEF Undelivered, Armed, InBatch
<1>6. \A c \in Conns, u \in Threads : HandledBy(c, u) => HandledBy(c, u)'
    BY <1>2 DEF HandledBy
<1>8. \A c \in Conns : refs'[c] # {} =>
          \/ c \in overtaken' \cup threw'
          \/ Undelivered(c)'
          \/ \E u \in Threads : HandledBy(c, u)'
  <2> SUFFICES ASSUME NEW c \in Conns, refs[c] # {}, c \notin overtaken \cup threw,
                      ~Undelivered(c)'
               PROVE  \E u \in Threads : HandledBy(c, u)'
    OBVIOUS
  <2>1. CASE c = j
    BY <1>2, <2>1 DEF HandledBy
  <2>2. CASE c # j
    BY <1>5, <1>6, <2>2 DEF Ends
  <2> QED
    BY <2>1, <2>2
<1>9. \A u \in Threads : pc'[u] = "release" =>
          job'[u] \in overtaken' \/ "map" \notin refs'[job'[u]]
    BY <1>2 DEF Ends
<1> QED
    BY <1>3, <1>4, <1>8, <1>9 DEF Ends

LEMMA PollFinished ==
    ASSUME Safe, Finished, NEW t \in Threads, Poll(t)
    PROVE  Finished'
<1> DEFINE R == Reported(job[t])
<1> USE FinishedFrame DEF Finished, Poll, mainVars, netVars, mapVars, history
<1>1. \A c \in R : c \in Conns /\ Armed(c) /\ "IN" \in SocketState(c)
    BY DEF Reported, SocketState
<1>2. /\ active[t] = {}
      /\ \A u \in Threads : active'[u] = IF u = t THEN R ELSE active[u]
    BY DEF Safe, TypeOK, PoolTyped
<1>3. \A c \in Conns :
         /\ ready_events'[c] = IF c \in R THEN SocketState(c) ELSE ready_events[c]
         /\ interest'[c] = IF c \in R THEN Disarm(interest[c]) ELSE interest[c]
    OBVIOUS
<1>4. \A c \in Conns : /\ c \in R => InBatch(c, t)'
                       /\ InFlight(c)' => InFlight(c) \/ c \in R
                       /\ \A u \in Threads : InBatch(c, u) => InBatch(c, u)'
    BY <1>2, SameQueue DEF InFlight, InBatch
<1>5. Readable'
  <2>1. \A c \in Conns : InFlight(c)' => "IN" \in ready_events'[c]
    BY <1>1, <1>3, <1>4 DEF Readable
  <2>2. \A u \in Threads : pc[u] = "handle" => job[u] \in Conns \ R
    BY <1>1, HandlerJob, AtWork DEF Safe, Serving
  <2> QED
    BY <1>3, <2>1, <2>2 DEF Readable
<1>6. \A c \in Conns : Undelivered(c) => Undelivered(c)'
    BY <1>3, <1>4, SameQueue DEF Undelivered, Armed
<1>7. Ends'
    BY <1>6 DEF Ends, HandledBy
<1> QED
    BY <1>5, <1>7

LEMMA CommitFinished ==
    ASSUME Safe, Finished, NEW t \in Threads, Commit(t)
    PROVE  Finished'
<1> USE FinishedFrame DEF Finished, Commit, mainVars, netVars, objVars, mapVars, history
<1>1. PICK c \in active[t] : /\ tasks' = Append(tasks, c)
                             /\ active' = [active EXCEPT ![t] = @ \ {c}]
    OBVIOUS
<1>2. c \in Conns /\ InFlight(c)
    BY <1>1 DEF Safe, TypeOK, PoolTyped, InFlight, InBatch
<1>3. \A d : InQueue(d)' <=> InQueue(d) \/ d = c
    BY <1>1, <1>2, CommitQueue DEF Safe
<1>4. \A d \in Conns, u \in Threads : InBatch(d, u)' <=> InBatch(d, u) /\ ~(u = t /\ d = c)
    BY <1>1 DEF InBatch, Safe, TypeOK, PoolTyped
<1>5. \A d \in Conns : InFlight(d)' => InFlight(d)
    BY <1>2, <1>3, <1>4 DEF InFlight
<1>6. Readable'
    BY <1>5 DEF Readable
<1>7. \A d \in Conns : Undelivered(d) => Undelivered(d)'
    BY <1>3, <1>4 DEF Undelivered, Armed
<1>8. Ends'
    BY <1>7 DEF Ends, HandledBy
<1> QED
    BY <1>6, <1>8

LEMMA WorkerFinished ==
    ASSUME Safe, Safe', Finished, NEW t \in Threads, WorkerStep(t)
    PROVE  Finished'
<1> USE FinishedFrame DEF Finished, mainVars, netVars, objVars, mapVars, history, At
<1>1. /\ pc[t] \in Serving \cup Owning => job[t] \in Conns /\ ~Armed(job[t]) /\ refs[job[t]] # {}
      /\ {"message", "closing", "recv", "reply", "lock", "erase", "release"}
             \subseteq WorkerPcs \ {"handle"}
    BY HandlerJob, AtWork DEF Safe, WorkerPcs, Serving, Owning
<1>2. CASE Take(t) \/ Poll(t) \/ Commit(t)
    BY <1>2, TakeFinished, PollFinished, CommitFinished
<1>3. CASE Handle(t)
  <2> USE <1>3 DEF Handle, Serving
  <2>1. job[t] \in Conns /\ pc[t] = "handle" /\ "IN" \in ready_events[job[t]]
    BY <1>1 DEF Readable
  <2>2. CASE Idle(t) /\ "unset" \in Observed(job[t], "read")
    <3>1. job[t] \in overtaken
        BY <2>1, <2>2, UnsetOvertakes DEF Slots
    <3> QED
        BY <2>1, <2>2, <3>1, ReturnFinished DEF Armed
  <2>3. CASE pc' = [pc EXCEPT ![t] = "recv"] /\ UNCHANGED job
    BY <1>1, <2>1, <2>3, MoveFinished DEF Armed
  <2>4. CASE UNCHANGED <<pc, job>>
    BY <2>4
  <2> QED
    BY <2>1, <2>2, <2>3, <2>4
<1>4. CASE Recv(t)
  <2> USE <1>4 DEF Recv, Serving
  <2>1. job[t] \in Conns /\ pc[t] = "recv"
    BY <1>1
  <2>2. CASE UNCHANGED pc
    BY <2>2
  <2>3. ASSUME NEW q \in {"message", "closing"}, pc' = [pc EXCEPT ![t] = q] PROVE Finished'
    BY <1>1, <2>1, <2>3, MoveFinished DEF Armed
  <2> QED
    BY <2>2, <2>3
<1>5. CASE CallMessage(t)
  <2> USE <1>5 DEF CallMessage, Serving
  <2>1. job[t] \in Conns /\ pc[t] = "message" /\ refs[job[t]] # {}
    BY <1>1
  <2>2. CASE /\ Idle(t) /\ UNCHANGED refs
             /\ "unset" \in Observed(job[t], "weak") \cup Observed(job[t], "message")
    <3>1. job[t] \in overtaken
        BY <2>1, <2>2, UnsetOvertakes DEF Slots
    <3> QED
        BY <2>1, <2>2, <3>1, ReturnFinished DEF Armed
  <2>3. CASE /\ refs' = [refs EXCEPT ![job[t]] = @ \cup {t}]
             /\ pc' = [pc EXCEPT ![t] = "reply"]
             /\ UNCHANGED job
    <3>1. \A c \in Conns : refs'[c] \subseteq refs[c] \cup {t} /\ (refs[c] = {} => refs'[c] = {})
        BY <2>1, <2>3 DEF Safe, TypeOK, ObjTyped
    <3> QED
        BY <1>1, <2>1, <2>3, <3>1, MoveFinished DEF Armed
  <2>4. CASE UNCHANGED <<pc, job, refs>>
    BY <2>4
  <2> QED
    BY <2>2, <2>3, <2>4
<1>6. CASE Reply(t)
  <2> USE <1>6 DEF Reply, Owning
  <2>1. job[t] \in Conns /\ pc[t] = "reply" /\ ~Armed(job[t])
    BY <1>1
  <2>2. CASE pc' = [pc EXCEPT ![t] = "closing"] /\ UNCHANGED <<fd, interest, refs, job, threw>>
    BY <1>1, <2>1, <2>2, MoveFinished DEF Armed
  <2>3. CASE Drop(job[t], t) /\ Idle(t) /\ threw' = threw \cup {job[t]}
    <3>1. /\ \A c \in Conns : refs'[c] \subseteq refs[c]
          /\ \A c \in Conns : Armed(c) => Armed(c)'
        BY <2>1, <2>3, DropOnly DEF Safe
    <3> QED
        BY <2>1, <2>3, <3>1, ReturnFinished
  <2>4. CASE UNCHANGED <<fd, interest, refs, pc, job, threw>>
    BY <2>4
  <2> QED
    BY <2>2, <2>3, <2>4
<1>7. CASE CallClose(t)
  <2> USE <1>7 DEF CallClose, Serving
  <2>1. job[t] \in Conns /\ pc[t] = "closing" /\ ~Armed(job[t]) /\ refs[job[t]] # {}
    BY <1>1
  <2>2. interest[job[t]] # {}
    BY <2>1 DEF Safe, Registered
  <2>3. CASE /\ Drop(job[t], t) /\ Idle(t)
             /\ "unset" \in Observed(job[t], "weak") \cup Observed(job[t], "close")
    <3>1. job[t] \in overtaken
        BY <2>1, <2>3, UnsetOvertakes DEF Slots
    <3>2. /\ \A c \in Conns : refs'[c] \subseteq refs[c]
          /\ \A c \in Conns : Armed(c) => Armed(c)'
        BY <2>1, <2>3, DropOnly DEF Safe
    <3> QED
        BY <2>1, <2>3, <3>1, <3>2, ReturnFinished
  <2>4. CASE /\ refs' = [refs EXCEPT ![job[t]] = @ \cup {t}]
             /\ interest' = [interest EXCEPT ![job[t]] = {}]
             /\ pc' = [pc EXCEPT ![t] = "lock"]
             /\ UNCHANGED <<fd, job>>
    <3>1. /\ \A c \in Conns : refs'[c] \subseteq refs[c] \cup {t} /\ (refs[c] = {} => refs'[c] = {})
          /\ \A c \in Conns : Armed(c) => Armed(c)'
        BY <2>1, <2>4 DEF Safe, TypeOK, ObjTyped, Armed
    <3> QED
        BY <1>1, <2>1, <2>4, <3>1, MoveFinished
  <2>5. CASE UNCHANGED <<fd, interest, refs, pc, job>>
    BY <2>5
  <2> QED
    BY <2>2, <2>3, <2>4, <2>5
<1>8. CASE LockMap(t)
  <2> USE <1>8 DEF LockMap, Owning
  <2>1. job[t] \in Conns /\ pc[t] = "lock"
    BY <1>1
  <2>2. pc' = [pc EXCEPT ![t] = "erase"]
    OBVIOUS
  <2> QED
    BY <1>1, <2>1, <2>2, MoveFinished DEF Armed
<1>9. CASE Erase(t)
  <2> USE <1>9 DEF Erase, Owning
  <2>1. /\ job[t] \in Conns /\ pc[t] = "erase" /\ ~Armed(job[t]) /\ refs[job[t]] # {}
        /\ pc' = [pc EXCEPT ![t] = "release"]
    BY <1>1
  <2>2. /\ connections_map[fd[job[t]]] \in {job[t], None}
        /\ connections_map[fd[job[t]]] = None <=> "map" \notin refs[job[t]]
        /\ None \notin Conns
    BY <2>1, OwnEntry
  <2>3. /\ "map" \notin refs'[job[t]]
        /\ \A c \in Conns : refs'[c] \subseteq refs[c]
        /\ \A c \in Conns : Armed(c) => Armed(c)'
    <3>1. CASE connections_map[fd[job[t]]] = None
        BY <2>2, <3>1 DEF Armed
    <3>2. CASE connections_map[fd[job[t]]] = job[t]
        <4>1. Drop(job[t], "map")
            BY <2>1, <2>2, <3>2
        <4> QED
            BY <2>1, <4>1, DropOnly DEF Safe
    <3> QED
        BY <2>2, <3>1, <3>2
  <2> QED
    BY <1>1, <2>1, <2>3, MoveFinished
<1>10. CASE Release(t)
  <2> USE <1>10 DEF Release, Owning
  <2>1. job[t] \in Conns /\ pc[t] = "release" /\ ~Armed(job[t])
    BY <1>1
  <2>2. /\ refs'[job[t]] = refs[job[t]] \ {t}
        /\ \A c \in Conns : refs'[c] \subseteq refs[c]
        /\ \A c \in Conns : Armed(c) => Armed(c)'
    BY <2>1, DropOnly DEF Safe
  <2>3. refs'[job[t]] = {} \/ job[t] \in overtaken
    BY <2>1, <2>2, LastShare
  <2> QED
    BY <2>1, <2>2, <2>3, ReturnFinished
<1> QED
    BY <1>2, <1>3, <1>4, <1>5, <1>6, <1>7, <1>8, <1>9, <1>10 DEF WorkerStep

LEMMA StepInductive == Inductive /\ [Next]_vars => Inductive'
<1> SUFFICES ASSUME Inductive, [Next]_vars PROVE Inductive'
    OBVIOUS
<1> USE DEF Inductive
<1>1. Safe'
    BY StepSafe
<1>2. CASE UNCHANGED vars
    BY <1>1, <1>2, FinishedFrame
       DEF Finished, vars, mainVars, netVars, objVars, mapVars, poolVars, history
<1>3. CASE Next
    BY <1>1, <1>3, ClientFinished, MainFinished, WorkerFinished DEF Next
<1> QED
    BY <1>2, <1>3, <1>1

LEMMA AlwaysInductive == Spec => []Inductive
<1>1. Init => Inductive
    BY InitSafe, InitFinished DEF Inductive
<1> QED
    BY <1>1, StepInductive, PTL DEF Spec

\* A Connection whose event has been handled is destroyed, unless a thread
\* overtook the main thread or the callback threw (ReleasedUnlessOvertaken).
THEOREM Released == Spec => []ReleasedUnlessOvertaken
<1>1. Inductive => ReleasedUnlessOvertaken
    BY DEF Inductive, Finished, Ends, ReleasedUnlessOvertaken, Quiescent
<1> QED
    BY <1>1, AlwaysInductive, PTL

-----------------------------------------------------------------------------
(* The reactor implements ConnService.                                     *)

LEMMA PhaseIs ==
    \A c \in Conns :
       /\ client[c] # "accepted" => Phase(c) = "new"
       /\ client[c] = "accepted" /\ refs[c] = {} => Phase(c) = "closed"
       /\ client[c] = "accepted" /\ refs[c] # {} /\ Undelivered(c) => Phase(c) = "open"
       /\ client[c] = "accepted" /\ refs[c] # {} /\ ~Undelivered(c) => Phase(c) = "serving"
BY DEF Phase

LEMMA PhaseIsNext ==
    \A c \in Conns :
       /\ client'[c] # "accepted" => Phase(c)' = "new"
       /\ client'[c] = "accepted" /\ refs'[c] = {} => Phase(c)' = "closed"
       /\ client'[c] = "accepted" /\ refs'[c] # {} /\ Undelivered(c)' => Phase(c)' = "open"
       /\ client'[c] = "accepted" /\ refs'[c] # {} /\ ~Undelivered(c)' => Phase(c)' = "serving"
BY DEF Phase

LEMMA InitService == Init => Service!Init
<1> SUFFICES ASSUME Init PROVE Service!Init
    OBVIOUS
<1>1. \A c \in Conns : Phase(c) = "new"
    BY PhaseIs DEF Init
<1> QED
    BY <1>1 DEF Init, Service!Init

\* nothing a client of the service could see
LEMMA Unseen ==
    ASSUME UNCHANGED fd,
           \A c \in Conns : client'[c] = "accepted" <=> client[c] = "accepted",
           \A c \in Conns : refs'[c] = {} <=> refs[c] = {},
           \A c \in Conns : refs[c] # {} => (Undelivered(c)' <=> Undelivered(c))
    PROVE  UNCHANGED Service!vars
<1>1. \A c \in Conns : Phase(c)' = Phase(c)
    BY PhaseIs, PhaseIsNext
<1> QED
    BY <1>1 DEF Service!vars

\* a share is given back: the last one closes the connection
LEMMA DropService ==
    ASSUME TypeOK, NEW c \in Conns, NEW h, Drop(c, h), client[c] = "accepted", refs[c] # {},
           refs[c] \subseteq {h} => ~Undelivered(c),
           UNCHANGED client,
           \A d \in Conns : refs'[d] # {} => (Undelivered(d)' <=> Undelivered(d))
    PROVE  Service!Next \/ UNCHANGED Service!vars
<1>1. /\ refs'[c] = refs[c] \ {h}
      /\ \A d \in Conns \ {c} : refs'[d] = refs[d]
    BY DropOnly
<1>2. \A d \in Conns \ {c} : Phase(d)' = Phase(d)
    BY <1>1, PhaseIs, PhaseIsNext
<1>3. CASE refs[c] \subseteq {h}
  <2>1. Phase(c) = "serving" /\ Phase(c)' = "closed"
    BY <1>1, <1>3, PhaseIs, PhaseIsNext
  <2>2. fd' = [fd EXCEPT ![c] = None]
    BY <1>3 DEF Drop
  <2>3. Service!Close(c)
    BY <1>2, <2>1, <2>2 DEF Service!Close
  <2> QED
    BY <2>3 DEF Service!Next
<1>4. CASE ~(refs[c] \subseteq {h})
  <2>1. UNCHANGED fd /\ refs'[c] # {}
    BY <1>1, <1>4 DEF Drop
  <2> QED
    BY <1>1, <2>1, Unseen
<1> QED
    BY <1>3, <1>4

LEMMA MainService ==
    ASSUME Safe, MainStep
    PROVE  Service!Next \/ UNCHANGED Service!vars
<1> USE DEF MainAt, netVars, objVars, mapVars, poolVars
<1>0. /\ mainPc \in Building \cup {"leave"} => mainConn \in Conns
      /\ mainPc \notin Building \cup {"leave"} => mainConn \notin Conns
    BY DEF Safe, TypeOK, InPlace
<1>1. CASE StartSub
  <2> USE <1>1 DEF StartSub
  <2>1. committed \in Subs /\ committed \notin Conns /\ mainConn \notin Conns
    BY <1>0 DEF Subs, Building, Slots, Safe, TypeOK, MainTyped
  <2>2. \A c \in Conns : InQueue(c)' <=> InQueue(c)
    BY <2>1, CommitQueue DEF Safe
  <2>3. \A c \in Conns : Undelivered(c)' <=> Undelivered(c)
    BY <2>1, <2>2 DEF Undelivered, Armed, InBatch
  <2> QED
    BY <2>3, Unseen
<1>2. CASE AcceptWake \/ AcceptStops
  <2> USE <1>2 DEF AcceptWake, AcceptStops
  <2>1. mainConn \notin Conns
    BY <1>0 DEF Building, Slots
  <2>2. \A c \in Conns : Undelivered(c)' <=> Undelivered(c)
    BY <2>1, SameQueue DEF Undelivered, Armed, InBatch
  <2> QED
    BY <2>2, Unseen
<1>3. ASSUME NEW c \in Conns, NEW f \in Fds, Accept(c, f) PROVE Service!Next
  <2> USE <1>3 DEF Accept
  <2>1. mainConn \notin Conns
    BY <1>0 DEF Building, Slots
  <2>2. \A d \in Conns : /\ client'[d] = IF d = c THEN "accepted" ELSE client[d]
                         /\ refs'[d] = IF d = c THEN {"main"} ELSE refs[d]
    BY DEF Safe, TypeOK, NetTyped, ObjTyped
  <2>3. \A d \in Conns \ {c} : Undelivered(d)' <=> Undelivered(d)
    BY <2>1, SameQueue DEF Undelivered, Armed, InBatch
  <2>4. Undelivered(c)'
    BY DEF Undelivered
  <2>5. /\ Phase(c) = "new" /\ Phase(c)' = "open"
        /\ \A d \in Conns \ {c} : Phase(d)' = Phase(d)
    BY <2>2, <2>3, <2>4, PhaseIs, PhaseIsNext
  <2>6. Service!Open(c, f)
    BY <2>5 DEF Service!Open, Free
  <2> QED
    BY <2>6 DEF Service!Next
<1>4. CASE Register
  <2> USE <1>4 DEF Register
  <2>1. mainConn \in Conns
    BY <1>0 DEF Building
  <2>2. \A d \in Conns : interest'[d] = IF d = mainConn THEN ConnEvents ELSE interest[d]
    BY <2>1 DEF Safe, TypeOK, ObjTyped
  <2>3. \A d \in Conns : Undelivered(d)' <=> Undelivered(d)
    BY <2>1, <2>2, EventFacts, SameQueue DEF Undelivered, Armed, InBatch
  <2> QED
    BY <2>3, Unseen
<1>5. CASE RegisterFails
  <2> USE <1>5 DEF RegisterFails, Crash, mainVars
  <2>1. \A d \in Conns : Undelivered(d)' <=> Undelivered(d)
    BY SameQueue DEF Undelivered, Armed, InBatch
  <2> QED
    BY <2>1, Unseen
<1>6. CASE AssignSlot \/ LockForInsert
  <2> USE <1>6 DEF AssignSlot, LockForInsert
  <2>1. mainPc # "register" /\ mainPc' # "register"
    BY DEF Slots, AfterSlot
  <2>2. \A d \in Conns : Undelivered(d)' <=> Undelivered(d)
    BY <2>1, SameQueue DEF Undelivered, Armed, InBatch
  <2> QED
    BY <2>2, Unseen
<1>7. CASE Insert
  <2> USE <1>7 DEF Insert
  <2>1. mainConn \in Conns /\ refs[mainConn] # {}
    BY <1>0 DEF Building, Safe, Owned
  <2>2. \A d \in Conns : refs'[d] = {} <=> refs[d] = {}
    BY <2>1 DEF Safe, TypeOK, ObjTyped
  <2>3. \A d \in Conns : Undelivered(d)' <=> Undelivered(d)
    BY SameQueue DEF Undelivered, Armed, InBatch
  <2> QED
    BY <2>2, <2>3, Unseen
<1>8. CASE Leave
  <2> DEFINE c == mainConn
  <2> USE <1>8 DEF Leave
  <2>1. c \in Conns /\ refs[c] # {} /\ client[c] = "accepted" /\ Drop(c, "main")
    BY <1>0 DEF Safe, Owned
  <2>2. /\ \A d \in Conns \ {c} : interest'[d] = interest[d]
        /\ refs'[c] # {} => interest'[c] = interest[c]
    <3>1. interest \in [Conns -> SUBSET Events] /\ refs'[c] = refs[c] \ {"main"}
        BY <2>1, DropOnly DEF Safe, TypeOK, ObjTyped
    <3>2. CASE refs[c] \subseteq {"main"}
        BY <2>1, <3>1, <3>2 DEF Drop
    <3>3. CASE ~(refs[c] \subseteq {"main"})
        BY <2>1, <3>3 DEF Drop
    <3> QED
        BY <3>2, <3>3
  <2>3. \A d \in Conns : refs'[d] # {} => (Undelivered(d)' <=> Undelivered(d))
    BY <2>2, SameQueue DEF Undelivered, Armed, InBatch
  <2>4. refs[c] \subseteq {"main"} => ~Undelivered(c)
    <3>1. ~(mainPc \in Building) /\ mainPc # "register"
        BY DEF Building, Slots
    <3>2. refs[c] \subseteq {"main"} => ~Kept(c)
        BY <3>1 DEF Kept
    <3> QED
        BY <2>1, <3>1, <3>2 DEF Safe, Alive, InFlight, Undelivered
  <2> QED
    BY <2>1, <2>3, <2>4, DropService DEF Safe
<1> QED
    BY <1>1, <1>2, <1>3, <1>4, <1>5, <1>6, <1>7, <1>8 DEF MainStep

\* a thread that works on a channel and closes nothing
LEMMA WorkUnseen ==
    ASSUME UNCHANGED <<fd, client, mainConn, mainPc, active, tasks>>,
           \A c \in Conns : refs'[c] = {} <=> refs[c] = {},
           \A c \in Conns : Armed(c)' <=> Armed(c)
    PROVE  UNCHANGED Service!vars
<1>1. \A c \in Conns : Undelivered(c)' <=> Undelivered(c)
    BY SameQueue DEF Undelivered, InBatch
<1> QED
    BY <1>1, Unseen

\* a thread gives a share in its channel's Connection back
LEMMA WorkDrop ==
    ASSUME Safe, NEW t \in Threads, job[t] \in Conns, Drop(job[t], t),
           UNCHANGED <<client, mainConn, mainPc, active, tasks>>
    PROVE  Service!Next \/ UNCHANGED Service!vars
<1> DEFINE c == job[t]
<1>1. /\ refs[c] # {} /\ ~Armed(c) /\ ~InFlight(c) /\ HandledBy(c, t)
    BY AtWork DEF HandledBy
<1>2. client[c] = "accepted" /\ ~Undelivered(c)
    BY <1>1 DEF Safe, Owned, Undelivered, InFlight, Registered
<1>3. \A d \in Conns : Armed(d)' <=> Armed(d)
    BY <1>1, DropOnly DEF Safe, Drop, TypeOK, ObjTyped, Armed
<1>4. \A d \in Conns : Undelivered(d)' <=> Undelivered(d)
    BY <1>3, SameQueue DEF Undelivered, InBatch
<1> QED
    BY <1>1, <1>2, <1>4, DropService DEF Safe

LEMMA TakeService ==
    ASSUME Safe, Safe', NEW t \in Threads, Take(t)
    PROVE  Service!Next \/ UNCHANGED Service!vars
<1> DEFINE j == Head(tasks)
<1> USE DEF Take, mainVars, netVars, objVars, mapVars
<1>1. /\ j \in Conns \cup Subs /\ InQueue(j)
      /\ \A c : InQueue(c)' => InQueue(c)
      /\ \A c : InQueue(c) => InQueue(c)' \/ c = j
      /\ \A c : c = j /\ QueuedOnce(c) => ~InQueue(c)'
    BY TakeQueue DEF Safe
<1>2. \A c \in Conns : c # j => (Undelivered(c)' <=> Undelivered(c))
    BY <1>1 DEF Undelivered, Armed, InBatch
<1>3. CASE j \notin Conns
    BY <1>2, <1>3, Unseen
<1>4. ASSUME NEW c \in Conns, c = j PROVE Service!Next
  <2>1. /\ InQueue(c) /\ InFlight(c) /\ ~InQueue(c)' /\ ~Armed(c)
        /\ \A u \in Threads : ~InBatch(c, u)
    BY <1>1, <1>4 DEF Safe, OneShotDelivery, InFlight
  <2>2. refs[c] # {} /\ client[c] = "accepted"
    BY <2>1, DeadIsNowhere DEF Safe, Owned
  <2>3. Undelivered(c)
    BY <2>1 DEF Undelivered
  <2>4. ~Undelivered(c)'
    BY <2>1 DEF Undelivered, Armed, InBatch, Safe, Registered
  <2>5. /\ Phase(c) = "open" /\ Phase(c)' = "serving"
        /\ \A d \in Conns \ {c} : Phase(d)' = Phase(d)
    BY <1>2, <1>4, <2>2, <2>3, <2>4, PhaseIs, PhaseIsNext
  <2>6. Service!Serve(c)
    BY <2>5 DEF Service!Serve
  <2> QED
    BY <2>6 DEF Service!Next
<1> QED
    BY <1>3, <1>4

LEMMA LoopService ==
    ASSUME Safe, NEW t \in Threads, Poll(t) \/ Commit(t)
    PROVE  UNCHANGED Service!vars
<1> USE DEF mainVars, netVars, objVars, mapVars
<1>1. CASE Poll(t)
  <2> DEFINE R == Reported(job[t])
  <2> USE <1>1 DEF Poll
  <2>1. \A c \in R : c \in Conns /\ Armed(c) /\ interest[c] = ConnEvents
    BY ArmedIff DEF Reported, Safe
  <2>2. /\ active[t] = {}
        /\ \A u \in Threads : active'[u] = IF u = t THEN R ELSE active[u]
    BY DEF Safe, TypeOK, PoolTyped
  <2>3. \A c \in Conns : Undelivered(c)' <=> Undelivered(c)
    <3>1. \A c \in Conns : c \notin R => (Armed(c)' <=> Armed(c))
        BY DEF Armed
    <3>2. \A c \in R : InBatch(c, t)'
        BY <2>2 DEF InBatch
    <3>3. \A c \in Conns, u \in Threads : c \notin R => (InBatch(c, u)' <=> InBatch(c, u))
        BY <2>2 DEF InBatch
    <3> QED
        BY <2>1, <3>1, <3>2, <3>3, SameQueue DEF Undelivered
  <2> QED
    BY <2>3, Unseen
<1>2. CASE Commit(t)
  <2> USE <1>2 DEF Commit
  <2>1. PICK c \in active[t] : /\ tasks' = Append(tasks, c)
                               /\ active' = [active EXCEPT ![t] = @ \ {c}]
    OBVIOUS
  <2>2. c \in Conns /\ InBatch(c, t)
    BY <2>1 DEF Safe, TypeOK, PoolTyped, InBatch
  <2>3. \A d : InQueue(d)' <=> InQueue(d) \/ d = c
    BY <2>1, <2>2, CommitQueue DEF Safe
  <2>4. \A d \in Conns, u \in Threads : InBatch(d, u)' <=> InBatch(d, u) /\ ~(u = t /\ d = c)
    BY <2>1 DEF InBatch, Safe, TypeOK, PoolTyped
  <2>5. \A d \in Conns : Undelivered(d)' <=> Undelivered(d)
    BY <2>2, <2>3, <2>4 DEF Undelivered, Armed
  <2> QED
    BY <2>5, Unseen
<1> QED
    BY <1>1, <1>2

LEMMA WorkerService ==
    ASSUME Safe, Safe', NEW t \in Threads, WorkerStep(t)
    PROVE  Service!Next \/ UNCHANGED Service!vars
<1> USE DEF mainVars, netVars, objVars, mapVars, At
<1>1. pc[t] \in Serving \cup Owning =>
          job[t] \in Conns /\ ~Armed(job[t]) /\ refs[job[t]] # {}
    BY HandlerJob, AtWork DEF Safe
<1>2. CASE Take(t) \/ Poll(t) \/ Commit(t)
    BY <1>2, TakeService, LoopService
<1>3. CASE Handle(t) \/ Recv(t) \/ LockMap(t)
    BY <1>3, WorkUnseen DEF Handle, Recv, LockMap, Armed
<1>4. CASE CallMessage(t)
  <2> USE <1>4 DEF CallMessage, Serving
  <2>1. job[t] \in Conns /\ refs[job[t]] # {}
    BY <1>1
  <2>2. \A c \in Conns : refs'[c] = {} <=> refs[c] = {}
    BY <2>1 DEF Safe, TypeOK, ObjTyped
  <2> QED
    BY <2>2, WorkUnseen DEF Armed
<1>5. CASE Reply(t)
  <2> USE <1>5 DEF Reply, Owning
  <2>1. CASE UNCHANGED <<fd, interest, refs>>
    BY <2>1, WorkUnseen DEF Armed
  <2>2. CASE Drop(job[t], t)
    BY <1>1, <2>2, WorkDrop
  <2> QED
    BY <2>1, <2>2
<1>6. CASE CallClose(t)
  <2> USE <1>6 DEF CallClose, Serving
  <2>1. job[t] \in Conns /\ refs[job[t]] # {} /\ ~Armed(job[t])
    BY <1>1
  <2>2. CASE Drop(job[t], t)
    BY <2>1, <2>2, WorkDrop
  <2>3. CASE /\ refs' = [refs EXCEPT ![job[t]] = @ \cup {t}]
             /\ interest' = [interest EXCEPT ![job[t]] = {}]
             /\ UNCHANGED fd
    <3>1. \A c \in Conns : refs'[c] = {} <=> refs[c] = {}
        BY <2>1, <2>3 DEF Safe, TypeOK, ObjTyped
    <3>2. \A c \in Conns : interest'[c] = IF c = job[t] THEN {} ELSE interest[c]
        BY <2>3 DEF Safe, TypeOK, ObjTyped
    <3>3. \A c \in Conns : Armed(c)' <=> Armed(c)
        BY <2>1, <3>2 DEF Armed
    <3> QED
        BY <2>3, <3>1, <3>3, WorkUnseen
  <2>4. CASE UNCHANGED <<fd, interest, refs>>
    BY <2>4, WorkUnseen DEF Armed
  <2> QED
    BY <2>2, <2>3, <2>4
<1>7. CASE Erase(t)
  <2> USE <1>7 DEF Erase, Owning
  <2>1. job[t] \in Conns /\ refs[job[t]] # {} /\ t \in refs[job[t]] /\ t # "map"
    BY <1>1 DEF Safe, Owned
  <2>2. connections_map[fd[job[t]]] \in {job[t], None} /\ None \notin Conns
    BY <2>1, OwnEntry
  <2>3. CASE connections_map[fd[job[t]]] = None
    BY <2>3, WorkUnseen DEF Armed
  <2>4. CASE connections_map[fd[job[t]]] = job[t]
    <3>1. Drop(job[t], "map") /\ ~(refs[job[t]] \subseteq {"map"})
        BY <2>1, <2>2, <2>4
    <3>2. UNCHANGED <<fd, interest>>
        BY <3>1 DEF Drop
    <3>3. \A c \in Conns : refs'[c] = {} <=> refs[c] = {}
        BY <2>1, <3>1, DropOnly DEF Safe
    <3> QED
        BY <3>2, <3>3, WorkUnseen DEF Armed
  <2> QED
    BY <2>2, <2>3, <2>4
<1>8. CASE Release(t)
    BY <1>1, <1>8, WorkDrop DEF Release, Owning
<1> QED
    BY <1>2, <1>3, <1>4, <1>5, <1>6, <1>7, <1>8 DEF WorkerStep

LEMMA ClientService ==
    ASSUME Safe, NEW c \in Conns, ClientStep(c)
    PROVE  UNCHANGED Service!vars
<1> USE DEF ClientStep, Connect, Send, PeerClose, PeerReset, objVars, mapVars, poolVars, mainVars
<1>1. \A d \in Conns : client'[d] = "accepted" <=> client[d] = "accepted"
    BY DEF Safe, TypeOK, NetTyped
<1>2. \A d \in Conns : Undelivered(d)' <=> Undelivered(d)
    BY SameQueue DEF Undelivered, Armed, InBatch
<1> QED
    BY <1>1, <1>2, Unseen

LEMMA StepService == Safe /\ Safe' /\ [Next]_vars => [Service!Next]_Service!vars
<1> SUFFICES ASSUME Safe, Safe', [Next]_vars PROVE Service!Next \/ UNCHANGED Service!vars
    OBVIOUS
<1>1. CASE UNCHANGED vars
    BY <1>1, WorkUnseen DEF vars, mainVars, netVars, objVars, poolVars, Armed
<1>2. CASE Next
    BY <1>2, ClientService, MainService, WorkerService DEF Next
<1> QED
    BY <1>1, <1>2

\* The reactor implements ConnService: every Connection opens on a descriptor
\* of its own, is served once and closes after that (ImplementsService).
THEOREM Implements == Spec => ImplementsService
<1> QED
    BY InitService, StepService, AlwaysSafe, PTL DEF Spec, ImplementsService, Service!Spec

-----------------------------------------------------------------------------
(* The pool and the loops that live in it: with no more threads than sub   *)
(* reactors, for any number of either, no event is ever handled.           *)

LEMMA InitLoops == Init => Loops
BY DEF Init, Loops, Subs

\* before the last loop is committed there is no event to queue
LEMMA NothingEarly ==
    ASSUME Safe, Loops, mainPc = "start", NEW c \in Conns
    PROVE  ~InFlight(c) /\ \A t \in Threads : ~HandledBy(c, t)
BY DeadIsNowhere DEF Safe, Owned, Loops

\* a step that adds no task and ends no loop
LEMMA LoopsFrame ==
    ASSUME Loops, mainPc' = "start" => mainPc = "start", mainPc # "start" => mainPc' # "start",
           mainPc = "start" => mainPc' = "start",
           UNCHANGED <<committed, tasks>>,
           mainPc' = "start" => \A c \in Conns : client[c] # "accepted" => client'[c] # "accepted",
           \A s \in Subs, t \in Threads : job[t] = s => job'[t] = s
    PROVE  Loops'
<1>1. \A s \in Subs : InQueue(s)' <=> InQueue(s)
    BY SameQueue
<1> QED
    BY <1>1 DEF Loops

LEMMA MainLoops ==
    ASSUME Safe, Loops, MainStep
    PROVE  Loops'
<1> USE DEF MainAt, netVars, objVars, mapVars, poolVars
<1>1. CASE StartSub
  <2> USE <1>1 DEF StartSub
  <2>1. committed \in Subs /\ committed + 1 \in Nat /\ committed + 1 <= SubNum
    BY DEF Subs, Safe, TypeOK, MainTyped
  <2>2. \A d : InQueue(d)' <=> InQueue(d) \/ d = committed
    BY <2>1, CommitQueue DEF Safe
  <2>3. \A s \in Subs : s < committed' => InQueue(s)' \/ \E t \in Threads : job'[t] = s
    <3>1. \A s \in Subs : s < committed' => s < committed \/ s = committed
        BY <2>1 DEF Subs
    <3> QED
        BY <2>2, <3>1 DEF Loops
  <2>4. \A k \in DOMAIN tasks' : tasks'[k] \notin Conns
    <3>1. \A c \in Conns : ~InQueue(c)'
        BY <2>1, <2>2, NothingEarly DEF InFlight
    <3> QED
        BY <3>1 DEF InQueue
  <2>5. mainPc' # "start" => committed' = SubNum
    OBVIOUS
  <2>6. mainPc' = "start" => \A c \in Conns : client'[c] # "accepted"
    BY DEF Loops
  <2> QED
    BY <2>3, <2>4, <2>5, <2>6 DEF Loops
<1>2. CASE mainPc # "start"
  <2>1. UNCHANGED <<committed, tasks, job>> /\ mainPc' # "start"
    BY <1>2, <1>1 DEF MainStep, StartSub, AcceptWake, AcceptStops, Accept, Register,
       RegisterFails, Crash, AssignSlot, LockForInsert, Insert, Leave, mainVars, AfterSlot, Slots
  <2> QED
    BY <1>2, <2>1, LoopsFrame
<1>3. CASE mainPc = "start" /\ ~StartSub
    BY <1>3 DEF MainStep, AcceptWake, AcceptStops, Accept, Register,
       RegisterFails, AssignSlot, LockForInsert, Insert, Leave, Slots
<1> QED
    BY <1>1, <1>2, <1>3

LEMMA WorkerLoops ==
    ASSUME Safe, Loops, NEW t \in Threads, WorkerStep(t)
    PROVE  Loops'
<1> USE DEF At, mainVars, netVars, objVars, mapVars
<1>1. CASE Take(t)
  <2> DEFINE j == Head(tasks)
  <2> USE <1>1 DEF Take
  <2>1. \A c : InQueue(c) => InQueue(c)' \/ c = j
    BY TakeQueue DEF Safe
  <2>2. /\ job[t] = None /\ None \notin Subs
        /\ \A u \in Threads : job'[u] = IF u = t THEN j ELSE job[u]
    BY DEF Safe, TypeOK, PoolTyped, InPlace
  <2>3. \A s \in Subs : s < committed => InQueue(s)' \/ \E u \in Threads : job'[u] = s
    BY <2>1, <2>2 DEF Loops
  <2>4. \A i, k \in DOMAIN tasks' : tasks'[i] \in Subs /\ tasks'[k] \in Conns => i < k
    <3>1. tasks \in Seq(Conns \cup Subs)
        BY DEF Safe, TypeOK, PoolTyped
    <3>2. /\ Len(tasks) \in Nat /\ DOMAIN tasks = 1 .. Len(tasks)
          /\ DOMAIN tasks' = 1 .. Len(tasks) - 1
          /\ \A i \in 1 .. Len(tasks) - 1 : tasks'[i] = tasks[i + 1]
        BY <3>1
    <3>3. \A i \in 1 .. Len(tasks) - 1 : i + 1 \in DOMAIN tasks
        BY <3>2
    <3> QED
        BY <3>2, <3>3 DEF Loops
  <2> QED
    BY <2>3, <2>4 DEF Loops
<1>2. CASE Commit(t)
  <2> USE <1>2 DEF Commit
  <2>1. PICK c \in active[t] : tasks' = Append(tasks, c)
    OBVIOUS
  <2>2. c \in Conns /\ c \notin Subs /\ InFlight(c)
    BY <2>1 DEF Safe, TypeOK, PoolTyped, InFlight, InBatch
  <2>3. mainPc # "start"
    BY <2>2, NothingEarly
  <2>4. \A d : InQueue(d)' <=> InQueue(d) \/ d = c
    BY <2>1, <2>2, CommitQueue DEF Safe
  <2>5. \A i, k \in DOMAIN tasks' : tasks'[i] \in Subs /\ tasks'[k] \in Conns => i < k
    <3>1. tasks \in Seq(Conns \cup Subs)
        BY DEF Safe, TypeOK, PoolTyped
    <3>2. /\ Len(tasks) \in Nat /\ DOMAIN tasks = 1 .. Len(tasks)
          /\ DOMAIN tasks' = 1 .. Len(tasks) + 1
          /\ \A i \in 1 .. Len(tasks) : tasks'[i] = tasks[i]
          /\ tasks'[Len(tasks) + 1] = c
        BY <2>1, <3>1
    <3> QED
        BY <2>2, <3>2 DEF Loops
  <2> QED
    BY <2>3, <2>4, <2>5 DEF Loops
<1>3. CASE Poll(t)
    BY <1>3, LoopsFrame DEF Poll
<1>4. CASE \/ Handle(t) \/ Recv(t) \/ CallMessage(t) \/ Reply(t) \/ CallClose(t)
           \/ LockMap(t) \/ Erase(t) \/ Release(t)
  <2>1. UNCHANGED <<committed, tasks, mainPc, client>> /\ pc[t] \in Serving \cup Owning
    BY <1>4 DEF Handle, Recv, CallMessage, Reply, CallClose, LockMap, Erase, Release,
                Serving, Owning
  <2>2. job[t] \notin Subs
    BY <2>1, HandlerJob DEF Safe
  <2>3. job' = job \/ job' = [job EXCEPT ![t] = None]
    BY <1>4 DEF Handle, Recv, CallMessage, Reply, CallClose, LockMap, Erase, Release, Idle
  <2>4. \A s \in Subs, u \in Threads : job[u] = s => job'[u] = s
    BY <2>2, <2>3 DEF Safe, TypeOK, PoolTyped
  <2> QED
    BY <2>1, <2>4, LoopsFrame
<1> QED
    BY <1>1, <1>2, <1>3, <1>4 DEF WorkerStep

LEMMA StepLoops == Safe /\ Loops /\ [Next]_vars => Loops'
<1> SUFFICES ASSUME Safe, Loops, [Next]_vars PROVE Loops'
    OBVIOUS
<1>1. CASE UNCHANGED vars
    BY <1>1, LoopsFrame DEF vars, mainVars, netVars, poolVars
<1>2. ASSUME NEW c \in Conns, ClientStep(c) PROVE Loops'
  <2>1. UNCHANGED <<committed, mainPc, tasks, job>>
    BY <1>2 DEF ClientStep, Connect, Send, PeerClose, PeerReset, mainVars, poolVars
  <2>2. \A d \in Conns : client[d] # "accepted" => client'[d] # "accepted"
    BY <1>2 DEF ClientStep, Connect, Send, PeerClose, PeerReset, Safe, TypeOK, NetTyped
  <2> QED
    BY <2>1, <2>2, LoopsFrame
<1> QED
    BY <1>1, <1>2, MainLoops, WorkerLoops DEF Next

\* a thread that finds an event first in the queue is one more than the loops
LEMMA ThreadToSpare ==
    ASSUME Safe, Loops, NEW t \in Threads, job[t] = None, tasks # <<>>, Head(tasks) \in Conns
    PROVE  Cardinality(Threads) > SubNum
<1>1. /\ tasks \in Seq(Conns \cup Subs)
      /\ 1 \in DOMAIN tasks /\ tasks[1] \in Conns
      /\ \A i \in DOMAIN tasks : i >= 1 /\ i \in Nat
  <2>1. tasks \in Seq(Conns \cup Subs)
    BY DEF Safe, TypeOK, PoolTyped
  <2> QED
    BY <2>1
<1>2. \A s \in Subs : ~InQueue(s)
    BY <1>1 DEF Loops, InQueue
<1>3. InFlight(Head(tasks))
    BY TakeQueue, <1>1 DEF InFlight, InQueue
<1>4. mainPc # "start" /\ committed = SubNum
    BY <1>3, NothingEarly DEF Loops
<1>5. \A s \in Subs : \E u \in Threads \ {t} : job[u] = s
    BY <1>2, <1>4 DEF Loops, Subs
<1> DEFINE f == [s \in Subs |-> CHOOSE u \in Threads \ {t} : job[u] = s]
<1>6. \A s \in Subs : f[s] \in Threads \ {t} /\ job[f[s]] = s
    BY <1>5
<1>7. f \in Injection(Subs, Threads \ {t})
    BY <1>6 DEF Injection, IsInjective
<1>8. /\ IsFiniteSet(Threads \ {t})
      /\ Cardinality(Threads \ {t}) = Cardinality(Threads) - 1
      /\ Cardinality(Threads) \in Nat
    BY PoolAssumption, FS_RemoveElement, FS_CardinalityType
<1>9. Cardinality(Subs) <= Cardinality(Threads \ {t})
    BY <1>7, <1>8, FS_Injection
<1>10. Cardinality(Subs) = SubNum
    BY FS_Interval DEF Subs
<1> QED
    BY <1>8, <1>9, <1>10

\* With no more threads than sub reactors no thread is ever anything but idle
\* or polling: no event is handled (PoolStarvation).
THEOREM Starves == Spec => []PoolStarvation
<1>1. Init => PoolStarvation
    BY DEF Init, PoolStarvation
<1>2. Safe /\ Loops /\ PoolStarvation /\ [Next]_vars => PoolStarvation'
  <2> SUFFICES ASSUME Safe, Loops, Cardinality(Threads) <= SubNum, [Next]_vars,
                      \A t \in Threads : pc[t] \in {"idle", "poll"},
                      NEW u \in Threads
               PROVE  pc'[u] \in {"idle", "poll"}
    BY DEF PoolStarvation
  <2>1. CASE UNCHANGED pc
    BY <2>1
  <2>2. ASSUME NEW t \in Threads, WorkerStep(t) PROVE pc'[u] \in {"idle", "poll"}
    <3>1. Take(t) \/ Poll(t) \/ Commit(t)
        BY <2>2 DEF WorkerStep, Handle, Recv, CallMessage, Reply, CallClose, LockMap,
                    Erase, Release, At
    <3>2. CASE Take(t)
        <4>1. Cardinality(Threads) \in Nat /\ SubNum \in Nat
            BY PoolAssumption, FS_CardinalityType
        <4>2. job[t] = None
            BY <3>2 DEF Take, At, Safe, TypeOK, InPlace
        <4>3. Head(tasks) \in Conns \cup Subs /\ tasks # <<>>
            BY <3>2, TakeQueue DEF Take, Safe
        <4>4. Head(tasks) \in Subs
            BY <4>1, <4>2, <4>3, ThreadToSpare
        <4>5. pc' = [pc EXCEPT ![t] = "poll"]
            BY <3>2, <4>4 DEF Take
        <4> QED
            BY <4>5 DEF Safe, TypeOK, PoolTyped
    <3> QED
        BY <2>1, <3>1, <3>2 DEF Poll, Commit
  <2>3. UNCHANGED pc \/ \E t \in Threads : WorkerStep(t)
    BY DEF Next, ClientStep, Connect, Send, PeerClose, PeerReset, MainStep, StartSub,
       AcceptWake, AcceptStops, Accept, Register, RegisterFails, Crash, AssignSlot,
       LockForInsert, Insert, Leave, vars, poolVars
  <2> QED
    BY <2>1, <2>2, <2>3
<1> QED
    BY <1>1, <1>2, InitLoops, StepLoops, AlwaysSafe, PTL DEF Spec

-----------------------------------------------------------------------------
(* The reactor's side of the pool's promise: its loops and its events are  *)
(* tasks of TaskQueue, none committed twice.                               *)

InHand(k) == \E t \in Threads : job[t] = k

LEMMA StatusIs ==
    \A k : /\ InQueue(k) => TaskStatus(k) = "queued"
           /\ ~InQueue(k) /\ InHand(k) => TaskStatus(k) = "running"
           /\ ~InQueue(k) /\ ~InHand(k) /\ Ahead(k) => TaskStatus(k) = "new"
           /\ ~InQueue(k) /\ ~InHand(k) /\ ~Ahead(k) => TaskStatus(k) = "ended"
BY DEF TaskStatus, InHand

LEMMA StatusIsNext ==
    \A k : /\ InQueue(k)' => TaskStatus(k)' = "queued"
           /\ ~InQueue(k)' /\ InHand(k)' => TaskStatus(k)' = "running"
           /\ ~InQueue(k)' /\ ~InHand(k)' /\ Ahead(k)' => TaskStatus(k)' = "new"
           /\ ~InQueue(k)' /\ ~InHand(k)' /\ ~Ahead(k)' => TaskStatus(k)' = "ended"
BY DEF TaskStatus, InHand

\* what has not changed of a task
SameTask(k) == /\ InQueue(k)' <=> InQueue(k)
               /\ InHand(k)' <=> InHand(k)
               /\ ~InQueue(k) /\ ~InHand(k) => (Ahead(k)' <=> Ahead(k))

LEMMA SameStatus ==
    ASSUME NEW k, SameTask(k)
    PROVE  TaskStatus(k)' = TaskStatus(k)
BY StatusIs, StatusIsNext DEF SameTask

\* a step that the pool has no part in
LEMMA NoTask ==
    ASSUME UNCHANGED tasks, \A k \in Conns \cup Subs : SameTask(k)
    PROVE  UNCHANGED Queue!vars
<1>1. \A k \in Conns \cup Subs : TaskStatus(k)' = TaskStatus(k)
    BY SameStatus
<1>2. [k \in Conns \cup Subs |-> TaskStatus(k)]' = [k \in Conns \cup Subs |-> TaskStatus(k)]
    BY <1>1
<1> QED
    BY <1>2 DEF Queue!vars

\* in particular one that leaves queue, threads and events as they were
LEMMA NoEvent ==
    ASSUME UNCHANGED <<tasks, job, active, committed>>,
           \A c \in Conns : /\ client'[c] = "accepted" <=> client[c] = "accepted"
                            /\ Armed(c)' <=> Armed(c)
                            /\ (c = mainConn /\ mainPc = "register")'
                                  <=> (c = mainConn /\ mainPc = "register")
    PROVE  UNCHANGED Queue!vars
<1>1. \A c \in Conns : Undelivered(c)' <=> Undelivered(c)
    BY SameQueue DEF Undelivered, InBatch
<1>2. \A k \in Conns \cup Subs : SameTask(k)
    BY <1>1, SameQueue DEF SameTask, Ahead, InHand
<1> QED
    BY <1>2, NoTask

\* the step of the pool on one task, when the others are as they were
LEMMA OneTask ==
    ASSUME NEW k \in Conns \cup Subs, NEW st, TaskStatus(k)' = st,
           \A j \in (Conns \cup Subs) \ {k} : SameTask(j)
    PROVE  [j \in Conns \cup Subs |-> TaskStatus(j)]'
              = [[j \in Conns \cup Subs |-> TaskStatus(j)] EXCEPT ![k] = st]
<1>1. \A j \in (Conns \cup Subs) \ {k} : TaskStatus(j)' = TaskStatus(j)
    BY SameStatus
<1> QED
    BY <1>1

LEMMA InitQueue == Init => Queue!Init
<1> SUFFICES ASSUME Init PROVE Queue!Init
    OBVIOUS
<1>1. \A k \in Conns \cup Subs : ~InQueue(k) /\ ~InHand(k) /\ Ahead(k)
    BY DEF Init, InQueue, InHand, Ahead, Subs
<1>2. \A k \in Conns \cup Subs : TaskStatus(k) = "new"
    BY <1>1, StatusIs
<1> QED
    BY <1>2 DEF Init, Queue!Init

LEMMA InitLoopTasks == Init => LoopTasks
BY DEF Init, LoopTasks, QueuedOnce, InQueue

LEMMA ClientQueue ==
    ASSUME Safe, NEW c \in Conns, ClientStep(c)
    PROVE  UNCHANGED Queue!vars
<1> USE DEF ClientStep, Connect, Send, PeerClose, PeerReset, objVars, mapVars, poolVars, mainVars
<1>1. \A d \in Conns : client'[d] = "accepted" <=> client[d] = "accepted"
    BY DEF Safe, TypeOK, NetTyped
<1> QED
    BY <1>1, NoEvent DEF Armed

LEMMA StartQueue ==
    ASSUME Safe, LoopTasks, StartSub
    PROVE  Queue!Next
<1> USE DEF StartSub, MainAt, netVars, objVars, mapVars
<1>1. /\ committed \in Subs /\ mainConn \notin Conns /\ mainPc' # "register"
      /\ committed' = committed + 1
    BY DEF Subs, Building, Slots, Safe, TypeOK, MainTyped, InPlace
<1>2. PICK s \in Subs : s = committed
    BY <1>1
<1>3. \A d : InQueue(d)' <=> InQueue(d) \/ d = s
    BY <1>2, CommitQueue DEF Safe
<1>4. ~InQueue(s) /\ ~InHand(s) /\ Ahead(s)
    BY <1>2 DEF LoopTasks, InHand, Ahead, Subs
<1>5. \A d \in (Conns \cup Subs) \ {s} : SameTask(d)
  <2>1. \A d \in Conns : Undelivered(d)' <=> Undelivered(d)
    BY <1>1, <1>2, <1>3 DEF Undelivered, Armed, InBatch
  <2>2. \A d \in Subs \ {s} : d >= committed' <=> d >= committed
    BY <1>1, <1>2 DEF Subs
  <2> QED
    BY <1>3, <2>1, <2>2 DEF SameTask, InHand, Ahead
<1>6. TaskStatus(s) = "new" /\ TaskStatus(s)' = "queued"
    BY <1>3, <1>4, StatusIs, StatusIsNext
<1>7. [j \in Conns \cup Subs |-> TaskStatus(j)]'
         = [[j \in Conns \cup Subs |-> TaskStatus(j)] EXCEPT ![s] = "queued"]
    BY <1>5, <1>6, OneTask
<1>8. Queue!Submit(s)
    BY <1>2, <1>6, <1>7 DEF Queue!Submit
<1> QED
    BY <1>8 DEF Queue!Next

LEMMA MainQueue ==
    ASSUME Safe, LoopTasks, MainStep
    PROVE  Queue!Next \/ UNCHANGED Queue!vars
<1> USE DEF MainAt, netVars, objVars, mapVars, poolVars
<1>0. /\ mainPc \in Building \cup {"leave"} => mainConn \in Conns
      /\ mainPc \notin Building \cup {"leave"} => mainConn \notin Conns
    BY DEF Safe, TypeOK, InPlace
<1>1. CASE StartSub
    BY <1>1, StartQueue
<1>2. CASE AcceptWake \/ AcceptStops
  <2>1. mainPc # "register" /\ mainPc' # "register"
    BY <1>2 DEF AcceptWake, AcceptStops
  <2> QED
    BY <1>2, <2>1, NoEvent DEF AcceptWake, AcceptStops, Armed
<1>3. ASSUME NEW c \in Conns, NEW f \in Fds, Accept(c, f) PROVE UNCHANGED Queue!vars
  <2> USE <1>3 DEF Accept
  <2>1. mainConn \notin Conns
    BY <1>0 DEF Building, Slots
  <2>2. \A d \in Conns : client'[d] = IF d = c THEN "accepted" ELSE client[d]
    BY DEF Safe, TypeOK, NetTyped
  <2>3. \A d \in Conns \ {c} : Undelivered(d)' <=> Undelivered(d)
    BY <2>1, SameQueue DEF Undelivered, Armed, InBatch
  <2>4. Undelivered(c)'
    BY DEF Undelivered
  <2>5. \A k \in Conns \cup Subs : Ahead(k)' <=> Ahead(k)
    BY <2>2, <2>3, <2>4 DEF Ahead
  <2>6. \A k \in Conns \cup Subs : SameTask(k)
    BY <2>5, SameQueue DEF SameTask, InHand
  <2> QED
    BY <2>6, NoTask
<1>4. CASE Register
  <2> USE <1>4 DEF Register
  <2>1. mainConn \in Conns
    BY <1>0 DEF Building
  <2>2. \A d \in Conns : interest'[d] = IF d = mainConn THEN ConnEvents ELSE interest[d]
    BY <2>1 DEF Safe, TypeOK, ObjTyped
  <2>3. \A d \in Conns : Undelivered(d)' <=> Undelivered(d)
    BY <2>1, <2>2, EventFacts, SameQueue DEF Undelivered, Armed, InBatch
  <2>4. \A k \in Conns \cup Subs : SameTask(k)
    BY <2>3, SameQueue DEF SameTask, InHand, Ahead
  <2> QED
    BY <2>4, NoTask
<1>5. CASE RegisterFails
    BY <1>5, NoEvent DEF RegisterFails, Crash, mainVars, Armed
<1>6. CASE AssignSlot \/ LockForInsert \/ Insert
  <2>1. mainPc # "register" /\ mainPc' # "register"
    BY <1>6 DEF AssignSlot, LockForInsert, Insert, Slots, AfterSlot
  <2> QED
    BY <1>6, <2>1, NoEvent DEF AssignSlot, LockForInsert, Insert, Armed
<1>7. CASE Leave
  <2> USE <1>7 DEF Leave
  <2>1. mainConn \in Conns /\ Drop(mainConn, "main")
    BY <1>0
  <2>2. refs[mainConn] \subseteq {"main"} => ~Armed(mainConn)
    <3>1. ~(mainPc \in Building)
        BY DEF Building, Slots
    <3> QED
        BY <2>1, <3>1 DEF Safe, Alive, Kept
  <2>3. \A d \in Conns : Armed(d)' <=> Armed(d)
    BY <2>1, <2>2 DEF Safe, TypeOK, ObjTyped, Drop, Armed
  <2> QED
    BY <2>3, NoEvent
<1> QED
    BY <1>1, <1>2, <1>3, <1>4, <1>5, <1>6, <1>7 DEF MainStep

\* a thread takes the first task
LEMMA TakeAsBegin ==
    ASSUME Safe, LoopTasks, NEW t \in Threads, Take(t)
    PROVE  Queue!Next
<1> USE DEF Take, At, mainVars, netVars, objVars, mapVars
<1>1. PICK j \in Conns \cup Subs : j = Head(tasks)
    BY TakeQueue DEF Safe
<1>2. /\ InQueue(j) /\ ~InQueue(j)'
      /\ \A k : k # j => (InQueue(k)' <=> InQueue(k))
    BY <1>1, TakeQueue DEF Safe, OneShotDelivery, LoopTasks
<1>3. /\ job[t] = None /\ None \notin Conns \cup Subs
      /\ \A u \in Threads : job'[u] = IF u = t THEN j ELSE job[u]
    BY <1>1 DEF Safe, TypeOK, PoolTyped, InPlace
<1>4. InHand(j)' /\ \A k \in (Conns \cup Subs) \ {j} : InHand(k)' <=> InHand(k)
    BY <1>3 DEF InHand
<1>5. \A c \in Conns \ {j} : Undelivered(c)' <=> Undelivered(c)
    BY <1>2 DEF Undelivered, Armed, InBatch
<1>6. \A k \in (Conns \cup Subs) \ {j} : SameTask(k)
    BY <1>2, <1>4, <1>5 DEF SameTask, Ahead
<1>7. TaskStatus(j)' = "running"
    BY <1>2, <1>4, StatusIsNext
<1>8. [k \in Conns \cup Subs |-> TaskStatus(k)]'
         = [[k \in Conns \cup Subs |-> TaskStatus(k)] EXCEPT ![j] = "running"]
    BY <1>6, <1>7, OneTask
<1>9. Queue!Begin(j)
    BY <1>1, <1>8 DEF Queue!Begin
<1> QED
    BY <1>9 DEF Queue!Next

\* a loop commits a channel
LEMMA CommitAsSubmit ==
    ASSUME Safe, NEW t \in Threads, Commit(t)
    PROVE  Queue!Next
<1> USE DEF Commit, At, mainVars, netVars, objVars, mapVars
<1>1. PICK c \in active[t] : /\ tasks' = Append(tasks, c)
                             /\ active' = [active EXCEPT ![t] = @ \ {c}]
    OBVIOUS
<1>2. c \in Conns /\ c \notin Subs /\ InBatch(c, t)
    BY <1>1 DEF Safe, TypeOK, PoolTyped, InBatch
<1>3. \A d : InQueue(d)' <=> InQueue(d) \/ d = c
    BY <1>1, <1>2, CommitQueue DEF Safe
<1>4. \A d \in Conns, u \in Threads : InBatch(d, u)' <=> InBatch(d, u) /\ ~(u = t /\ d = c)
    BY <1>1 DEF InBatch, Safe, TypeOK, PoolTyped
<1>5. \A d \in Conns \ {c} : Undelivered(d)' <=> Undelivered(d)
    BY <1>3, <1>4 DEF Undelivered, Armed
<1>6. \A k \in (Conns \cup Subs) \ {c} : SameTask(k)
    BY <1>3, <1>5 DEF SameTask, InHand, Ahead
<1>7. ~InQueue(c) /\ ~InHand(c) /\ Ahead(c)
    BY <1>2 DEF Safe, OneShotDelivery, HandledBy, InHand, Ahead, Undelivered
<1>8. TaskStatus(c) = "new" /\ TaskStatus(c)' = "queued"
    BY <1>3, <1>7, StatusIs, StatusIsNext
<1>9. [k \in Conns \cup Subs |-> TaskStatus(k)]'
         = [[k \in Conns \cup Subs |-> TaskStatus(k)] EXCEPT ![c] = "queued"]
    BY <1>2, <1>6, <1>8, OneTask
<1>10. Queue!Submit(c)
    BY <1>1, <1>2, <1>8, <1>9 DEF Queue!Submit
<1> QED
    BY <1>2, <1>10 DEF Queue!Next

LEMMA PollQueue ==
    ASSUME Safe, NEW t \in Threads, Poll(t)
    PROVE  UNCHANGED Queue!vars
<1> DEFINE R == Reported(job[t])
<1> USE DEF Poll, mainVars, netVars, mapVars
<1>1. \A c \in R : c \in Conns /\ Armed(c)
    BY DEF Reported
<1>2. /\ active[t] = {}
      /\ \A u \in Threads : active'[u] = IF u = t THEN R ELSE active[u]
    BY DEF Safe, TypeOK, PoolTyped
<1>3. \A c \in Conns : Undelivered(c)' <=> Undelivered(c)
  <2>1. \A c \in Conns : c \notin R => (Armed(c)' <=> Armed(c))
    BY DEF Armed
  <2>2. \A c \in R : InBatch(c, t)'
    BY <1>2 DEF InBatch
  <2>3. \A c \in Conns, u \in Threads : c \notin R => (InBatch(c, u)' <=> InBatch(c, u))
    BY <1>2 DEF InBatch
  <2> QED
    BY <1>1, <2>1, <2>2, <2>3, SameQueue DEF Undelivered
<1>4. \A k \in Conns \cup Subs : SameTask(k)
    BY <1>3, SameQueue DEF SameTask, InHand, Ahead
<1> QED
    BY <1>4, NoTask

\* what a thread does with the channel it has taken: it never arms it again
LEMMA NeverRearmed ==
    ASSUME Safe, NEW t \in Threads,
           \/ Handle(t) \/ Recv(t) \/ CallMessage(t) \/ Reply(t) \/ CallClose(t)
           \/ LockMap(t) \/ Erase(t) \/ Release(t)
    PROVE  /\ job[t] \in Conns
           /\ UNCHANGED <<tasks, active, committed, client, mainConn, mainPc>>
           /\ job' = job \/ job' = [job EXCEPT ![t] = None]
           /\ \A c \in Conns : Armed(c)' <=> Armed(c)
<1> USE DEF mainVars, netVars, objVars, mapVars, Idle
<1>1. /\ UNCHANGED <<tasks, active, committed, client, mainConn, mainPc>>
      /\ job' = job \/ job' = [job EXCEPT ![t] = None]
      /\ pc[t] \in Serving \cup Owning
    BY DEF Handle, Recv, CallMessage, Reply, CallClose, LockMap, Erase, Release, Serving,
           Owning, At
<1>2. job[t] \in Conns /\ ~Armed(job[t])
    BY <1>1, HandlerJob, AtWork DEF Safe
<1>3. \/ interest' = interest \/ interest' = [interest EXCEPT ![job[t]] = {}]
  <2>1. CASE Erase(t)
    <3>1. connections_map[fd[job[t]]] \in {job[t], None} /\ None \notin Conns
        <4>1. t \in refs[job[t]] /\ t # "map"
            BY <2>1 DEF Erase, At, Owning, Safe, Owned
        <4> QED
            BY <1>2, <2>1, <4>1, OwnEntry DEF Erase, At
    <3> QED
        BY <2>1, <3>1 DEF Erase, Drop
  <2>2. CASE ~Erase(t)
    BY <2>2 DEF Handle, Recv, CallMessage, Reply, CallClose, LockMap, Release, Drop
  <2> QED
    BY <2>1, <2>2
<1>4. \A c \in Conns : Armed(c)' <=> Armed(c)
    BY <1>2, <1>3 DEF Safe, TypeOK, ObjTyped, Armed
<1> QED
    BY <1>1, <1>2, <1>4

\* when it is done with it, the task has ended
LEMMA ReturnAsEnd ==
    ASSUME Safe, NEW t \in Threads,
           \/ Handle(t) \/ Recv(t) \/ CallMessage(t) \/ Reply(t) \/ CallClose(t)
           \/ LockMap(t) \/ Erase(t) \/ Release(t)
    PROVE  Queue!Next \/ UNCHANGED Queue!vars
<1>1. PICK c \in Conns : c = job[t]
    BY NeverRearmed
<1>2. /\ UNCHANGED <<tasks, active, committed, client, mainConn, mainPc>>
      /\ job' = job \/ job' = [job EXCEPT ![t] = None]
      /\ \A d \in Conns : Armed(d)' <=> Armed(d)
    BY NeverRearmed
<1>3. CASE job' = job
    BY <1>2, <1>3, NoEvent
<1>4. CASE job' = [job EXCEPT ![t] = None]
  <2>1. \A d \in Conns : Undelivered(d)' <=> Undelivered(d)
    BY <1>2, SameQueue DEF Undelivered, InBatch
  <2>2. /\ refs[c] # {} /\ ~Armed(c) /\ ~InFlight(c) /\ HandledBy(c, t)
        /\ \A u \in Threads : HandledBy(c, u) => u = t
    BY <1>1, AtWork DEF HandledBy
  <2>3. client[c] = "accepted" /\ ~Undelivered(c) /\ ~InQueue(c)
    BY <2>2 DEF Safe, Owned, Undelivered, InFlight, Registered
  <2>4. \A u \in Threads : job'[u] = IF u = t THEN None ELSE job[u]
    BY <1>4 DEF Safe, TypeOK, PoolTyped
  <2>5. /\ InHand(c) /\ ~InHand(c)'
        /\ \A k \in (Conns \cup Subs) \ {c} : InHand(k)' <=> InHand(k)
    BY <1>1, <2>2, <2>4 DEF InHand, HandledBy
  <2>6. \A k \in (Conns \cup Subs) \ {c} : SameTask(k)
    BY <1>2, <2>1, <2>5, SameQueue DEF SameTask, Ahead
  <2>7. ~InQueue(c)' /\ ~Ahead(c)'
    BY <1>2, <2>1, <2>3, SameQueue DEF Ahead
  <2>8. TaskStatus(c) = "running" /\ TaskStatus(c)' = "ended"
    BY <2>3, <2>5, <2>7, StatusIs, StatusIsNext
  <2>9. [k \in Conns \cup Subs |-> TaskStatus(k)]'
           = [[k \in Conns \cup Subs |-> TaskStatus(k)] EXCEPT ![c] = "ended"]
    BY <2>6, <2>8, OneTask
  <2>10. Queue!End(c)
    BY <1>2, <2>8, <2>9 DEF Queue!End
  <2> QED
    BY <2>10 DEF Queue!Next
<1> QED
    BY <1>2, <1>3, <1>4

\* a loop that a thread has begun it goes on with
LEMMA LoopsStay ==
    ASSUME Safe, [Next]_vars, NEW s \in Subs, NEW t \in Threads, job[t] = s
    PROVE  job'[t] = s
<1>1. CASE UNCHANGED job
    BY <1>1
<1>2. ASSUME NEW u \in Threads, WorkerStep(u) PROVE job'[t] = s
  <2>1. CASE Take(u)
    <3>1. job[u] = None /\ None \notin Subs
        BY <2>1 DEF Take, At, Safe, TypeOK, InPlace
    <3> QED
        BY <2>1, <3>1 DEF Take, Safe, TypeOK, PoolTyped
  <2>2. CASE Poll(u) \/ Commit(u)
    BY <1>1, <2>2 DEF Poll, Commit
  <2>3. CASE \/ Handle(u) \/ Recv(u) \/ CallMessage(u) \/ Reply(u) \/ CallClose(u)
             \/ LockMap(u) \/ Erase(u) \/ Release(u)
    <3>1. job[u] \in Conns /\ (job' = job \/ job' = [job EXCEPT ![u] = None])
        BY <2>3, NeverRearmed
    <3> QED
        BY <3>1 DEF Safe, TypeOK, PoolTyped
  <2> QED
    BY <1>2, <2>1, <2>2, <2>3 DEF WorkerStep
<1>3. UNCHANGED job \/ \E u \in Threads : WorkerStep(u)
    BY DEF Next, ClientStep, Connect, Send, PeerClose, PeerReset, MainStep, StartSub,
       AcceptWake, AcceptStops, Accept, Register, RegisterFails, Crash, AssignSlot,
       LockForInsert, Insert, Leave, vars, poolVars
<1> QED
    BY <1>1, <1>2, <1>3

\* a step that commits and begins no loop
LEMMA LoopTasksFrame ==
    ASSUME LoopTasks, UNCHANGED committed,
           \A s \in Subs : /\ InQueue(s)' => InQueue(s)
                           /\ QueuedOnce(s) => QueuedOnce(s)'
                           /\ \A t \in Threads : job'[t] = s => job[t] = s
    PROVE  LoopTasks'
BY DEF LoopTasks

LEMMA StepLoopTasks == Safe /\ LoopTasks /\ [Next]_vars => LoopTasks'
<1> SUFFICES ASSUME Safe, LoopTasks, [Next]_vars PROVE LoopTasks'
    OBVIOUS
<1>1. CASE StartSub
  <2> USE <1>1 DEF StartSub, MainAt
  <2>1. committed \in Subs /\ committed' = committed + 1 /\ UNCHANGED job
    BY DEF Subs, Safe, TypeOK, MainTyped
  <2>2. /\ \A d : InQueue(d)' <=> InQueue(d) \/ d = committed
        /\ \A d : QueuedOnce(d) /\ ~(d = committed /\ InQueue(d)) => QueuedOnce(d)'
    BY <2>1, CommitQueue DEF Safe
  <2>3. ~InQueue(committed) /\ \A t \in Threads : job[t] # committed
    BY <2>1 DEF LoopTasks, Subs
  <2>4. \A s \in Subs : s < committed \/ s = committed => s < committed'
    BY <2>1 DEF Subs
  <2> QED
    BY <2>1, <2>2, <2>3, <2>4 DEF LoopTasks
<1>2. ASSUME NEW t \in Threads, Take(t) PROVE LoopTasks'
  <2> USE <1>2 DEF Take, mainVars
  <2>1. /\ \A c : InQueue(c)' => InQueue(c)
        /\ \A c : QueuedOnce(c) => QueuedOnce(c)'
        /\ \A c : c = Head(tasks) /\ QueuedOnce(c) => ~InQueue(c)'
        /\ InQueue(Head(tasks))
    BY TakeQueue DEF Safe
  <2>2. \A u \in Threads : job'[u] = IF u = t THEN Head(tasks) ELSE job[u]
    BY DEF Safe, TypeOK, PoolTyped
  <2> QED
    BY <2>1, <2>2 DEF LoopTasks
<1>3. ASSUME NEW t \in Threads, Commit(t) PROVE LoopTasks'
  <2> USE <1>3 DEF Commit, mainVars
  <2>1. PICK c \in active[t] : tasks' = Append(tasks, c)
    OBVIOUS
  <2>2. c \in Conns /\ c \notin Subs
    BY <2>1 DEF Safe, TypeOK, PoolTyped
  <2>3. /\ \A d : InQueue(d)' <=> InQueue(d) \/ d = c
        /\ \A d : QueuedOnce(d) /\ ~(d = c /\ InQueue(d)) => QueuedOnce(d)'
    BY <2>1, <2>2, CommitQueue DEF Safe
  <2> QED
    BY <2>2, <2>3, LoopTasksFrame
<1>4. ASSUME NEW t \in Threads,
             \/ Handle(t) \/ Recv(t) \/ CallMessage(t) \/ Reply(t) \/ CallClose(t)
             \/ LockMap(t) \/ Erase(t) \/ Release(t)
      PROVE  LoopTasks'
  <2>1. /\ UNCHANGED <<tasks, committed>>
        /\ job' = job \/ job' = [job EXCEPT ![t] = None]
    BY <1>4, NeverRearmed
  <2>2. \A s \in Subs, u \in Threads : job'[u] = s => job[u] = s
    BY <2>1 DEF Safe, TypeOK, PoolTyped
  <2> QED
    BY <2>1, <2>2, SameQueue, LoopTasksFrame
<1>5. CASE UNCHANGED <<tasks, job, committed>>
    BY <1>5, SameQueue, LoopTasksFrame
<1>6. \/ StartSub \/ UNCHANGED <<tasks, job, committed>>
      \/ \E t \in Threads : WorkerStep(t)
    BY DEF Next, ClientStep, Connect, Send, PeerClose, PeerReset, MainStep,
       AcceptWake, AcceptStops, Accept, Register, RegisterFails, Crash, AssignSlot,
       LockForInsert, Insert, Leave, vars, mainVars, poolVars
<1>7. ASSUME NEW t \in Threads, WorkerStep(t) PROVE LoopTasks'
    BY <1>2, <1>3, <1>4, <1>5, <1>7 DEF WorkerStep, Poll, mainVars
<1> QED
    BY <1>1, <1>5, <1>6, <1>7

LEMMA StepQueue ==
    Safe /\ LoopTasks /\ [Next]_vars => [Queue!Next]_Queue!vars
<1> SUFFICES ASSUME Safe, LoopTasks, [Next]_vars PROVE Queue!Next \/ UNCHANGED Queue!vars
    OBVIOUS
<1>1. CASE UNCHANGED vars
    BY <1>1, NoEvent DEF vars, mainVars, netVars, objVars, poolVars, Armed
<1>2. ASSUME NEW t \in Threads, WorkerStep(t) PROVE Queue!Next \/ UNCHANGED Queue!vars
    BY <1>2, TakeAsBegin, CommitAsSubmit, PollQueue, ReturnAsEnd DEF WorkerStep
<1> QED
    BY <1>1, <1>2, ClientQueue, MainQueue DEF Next

LEMMA StepNoEnd ==
    Safe /\ [Next]_vars => [\A s \in Subs : ~Queue!End(s)]_vars
<1> SUFFICES ASSUME Safe, [Next]_vars, NEW s \in Subs, Queue!End(s) PROVE FALSE
    OBVIOUS
<1>1. TaskStatus(s) = "running" /\ TaskStatus(s)' = "ended"
    BY DEF Queue!End
<1>2. InHand(s)
    BY <1>1, StatusIs
<1>3. InHand(s)'
    BY <1>2, LoopsStay DEF InHand
<1> QED
    BY <1>1, <1>3, StatusIsNext

\* The reactor keeps its side of what it relies on the pool for: no loop and no
\* event is committed twice, ever, and a loop never ends (UsesQueue).
THEOREM UsesPool == Spec => UsesQueue
<1> QED
    BY InitQueue, InitLoopTasks, StepLoopTasks, StepQueue, StepNoEnd, AlwaysSafe, PTL
    DEF Spec, UsesQueue, Queue!Spec

-----------------------------------------------------------------------------
(* The main loop takes clients as AcceptQueue has it.                      *)

LEMMA InitHeard == Init => Heard
BY DEF Init, Heard, Waiting

LEMMA StepHeard == Heard /\ [Next]_vars => Heard'
<1> SUFFICES ASSUME Heard, [Next]_vars PROVE Heard'
    OBVIOUS
<1>1. CASE UNCHANGED <<client, edge>> /\ (mainPc' = "start" => mainPc = "start")
    BY <1>1 DEF Heard, Waiting
<1>2. CASE edge' = "new"
    BY <1>2 DEF Heard
<1>3. CASE mainPc' # "start"
    BY <1>3 DEF Heard
<1>4. CASE UNCHANGED vars
    BY <1>1, <1>4 DEF vars, mainVars, netVars
<1>5. ASSUME NEW c \in Conns, ClientStep(c) PROVE Heard'
    BY <1>1, <1>2, <1>5 DEF ClientStep, Connect, Send, PeerClose, PeerReset, mainVars
<1>6. CASE MainStep
    BY <1>1, <1>3, <1>6 DEF MainStep, StartSub, AcceptWake, AcceptStops, Accept, Register,
       RegisterFails, Crash, AssignSlot, LockForInsert, Insert, Leave, MainAt, mainVars, netVars,
       Slots, AfterSlot
<1>7. ASSUME NEW t \in Threads, WorkerStep(t) PROVE Heard'
    BY <1>1, <1>7 DEF WorkerStep, Take, Poll, Commit, Handle, Recv, CallMessage, Reply,
       CallClose, LockMap, Erase, Release, mainVars, netVars
<1> QED
    BY <1>4, <1>5, <1>6, <1>7 DEF Next

LEMMA LoopIs ==
    /\ mainPc = "start" => MainLoop = "away"
    /\ mainPc = "wait" => MainLoop = "wait"
    /\ mainPc \notin {"start", "wait"} => MainLoop = "accept"
BY DEF MainLoop

LEMMA LoopIsNext ==
    /\ mainPc' = "start" => MainLoop' = "away"
    /\ mainPc' = "wait" => MainLoop' = "wait"
    /\ mainPc' \notin {"start", "wait"} => MainLoop' = "accept"
BY DEF MainLoop

\* while the clients stay what they are, a descriptor goes only with its Connection
LEMMA OneSocket ==
    ASSUME Safe, Safe', [Next]_vars, UNCHANGED client
    PROVE  \/ UNCHANGED fd
           \/ \E c \in Conns : fd[c] # None /\ fd' = [fd EXCEPT ![c] = None]
<1>0. fd \in [Conns -> Fds \cup {None}]
    BY DEF Safe, TypeOK, ObjTyped
<1>1. \A c \in Conns : Phase(c) = "new" <=> Phase(c)' = "new"
    BY PhaseIs, PhaseIsNext
<1>2. ASSUME NEW c \in Conns, NEW f \in Fds, Service!Open(c, f)
      PROVE  FALSE
  <2>1. Phase(c) = "new" /\ Phase(c)' = "open"
    BY <1>2 DEF Service!Open
  <2> QED
    BY <1>1, <2>1
<1>3. ASSUME NEW c \in Conns, Service!Serve(c) \/ Service!Close(c)
      PROVE  UNCHANGED fd \/ fd' = [fd EXCEPT ![c] = None]
    BY <1>3 DEF Service!Serve, Service!Close
<1>4. \/ UNCHANGED fd
      \/ \E c \in Conns : fd' = [fd EXCEPT ![c] = None]
    BY <1>2, <1>3, StepService DEF Service!Next, Service!vars
<1> QED
    BY <1>0, <1>4

\* a step in which nobody comes, nobody is taken and the loop stays where it is
LEMMA SameAccepting ==
    ASSUME Safe, Safe', [Next]_vars, UNCHANGED <<client, edge>>,
           mainPc' = mainPc \/ (mainPc \notin {"start", "wait"} /\ mainPc' \notin {"start", "wait"})
    PROVE  [Accepting!Next]_Accepting!vars
<1>1. MainLoop' = MainLoop /\ Waiting' = Waiting
    BY LoopIs, LoopIsNext DEF Waiting
<1>2. EventDue' = EventDue /\ LeftShort' = LeftShort
    BY <1>1 DEF EventDue, LeftShort
<1>3. CASE UNCHANGED fd
    BY <1>1, <1>2, <1>3 DEF Accepting!vars
<1>4. ASSUME NEW c \in Conns, fd[c] # None, fd' = [fd EXCEPT ![c] = None]
      PROVE  Accepting!Leave(c)
    BY <1>1, <1>2, <1>4 DEF Accepting!Leave
<1> QED
    BY <1>3, <1>4, OneSocket DEF Accepting!Next

LEMMA ComesAccepting ==
    ASSUME Safe, NEW c \in Conns, Connect(c)
    PROVE  Accepting!Come(c)
<1>1. /\ client[c] = "off" /\ client' = [client EXCEPT ![c] = "pending"] /\ edge' = "new"
      /\ UNCHANGED <<mainPc, fd>>
    BY DEF Connect, objVars
<1>2. c \notin Waiting /\ Waiting' = Waiting \cup {c}
    BY <1>1 DEF Waiting, Safe, TypeOK, NetTyped
<1>3. fd[c] = None
    BY <1>1 DEF Safe, Owned
<1>4. MainLoop' = MainLoop /\ LeftShort' = FALSE
    BY <1>1 DEF MainLoop, LeftShort
<1>5. EventDue' = (MainLoop # "away")
    BY <1>1, LoopIs DEF EventDue
<1> QED
    BY <1>1, <1>2, <1>3, <1>4, <1>5 DEF Accepting!Come

LEMMA BeginAccepting ==
    ASSUME Safe, Heard, StartSub, mainPc' # mainPc
    PROVE  Accepting!Begin
<1>1. mainPc = "start" /\ mainPc' = "wait" /\ UNCHANGED <<edge, client, fd>>
    BY DEF StartSub, MainAt, netVars, objVars
<1>2. MainLoop = "away" /\ MainLoop' = "wait" /\ Waiting' = Waiting
    BY <1>1, LoopIs, LoopIsNext DEF Waiting
<1>3. EventDue' \in BOOLEAN /\ (Waiting # {} => EventDue')
    BY <1>1, <1>2 DEF EventDue, Heard
<1>4. LeftShort' = LeftShort
    BY <1>1, <1>2 DEF LeftShort, Heard
<1> QED
    BY <1>1, <1>2, <1>3, <1>4 DEF Accepting!Begin

LEMMA WakeAccepting ==
    ASSUME AcceptWake
    PROVE  Accepting!Wake
<1>1. mainPc = "wait" /\ mainPc' = "accept" /\ edge = "new" /\ edge' = "none"
      /\ UNCHANGED <<client, fd>>
    BY DEF AcceptWake, MainAt, netVars, objVars
<1>2. MainLoop = "wait" /\ MainLoop' = "accept" /\ Waiting' = Waiting
    BY <1>1, LoopIs, LoopIsNext DEF Waiting
<1>3. EventDue /\ EventDue' = FALSE /\ LeftShort' = LeftShort
    BY <1>1 DEF EventDue, LeftShort
<1> QED
    BY <1>1, <1>2, <1>3 DEF Accepting!Wake

LEMMA TakeAccepting ==
    ASSUME Safe, NEW c \in Conns, NEW f \in Fds, Accept(c, f)
    PROVE  Accepting!Take(c, f)
<1>1. /\ mainPc = "accept" /\ mainPc' = "register" /\ client[c] = "pending" /\ Free(f)
      /\ client' = [client EXCEPT ![c] = "accepted"] /\ fd' = [fd EXCEPT ![c] = f]
      /\ UNCHANGED edge
    BY DEF Accept, MainAt
<1>2. MainLoop = "accept" /\ MainLoop' = "accept"
    BY <1>1, LoopIs, LoopIsNext
<1>3. c \in Waiting /\ Waiting' = Waiting \ {c}
    BY <1>1 DEF Waiting, Safe, TypeOK, NetTyped
<1>4. EventDue' = EventDue /\ LeftShort' = LeftShort
    BY <1>1 DEF EventDue, LeftShort
<1>5. \A d \in Conns : fd[d] # f
    BY <1>1 DEF Free
<1> QED
    BY <1>1, <1>2, <1>3, <1>4, <1>5 DEF Accepting!Take

LEMMA StopAccepting ==
    ASSUME Safe, AcceptStops
    PROVE  Accepting!Stop
<1>1. /\ mainPc = "accept" /\ mainPc' = "wait" /\ UNCHANGED <<edge, client, fd>>
      /\ Waiting = {} \/ \A f \in Fds : ~Free(f)
      /\ edge \in {"none", "new"}
    BY DEF AcceptStops, MainAt, netVars, objVars, Waiting, Safe, TypeOK, MainTyped
<1>2. MainLoop = "accept" /\ MainLoop' = "wait" /\ Waiting' = Waiting
    BY <1>1, LoopIs, LoopIsNext DEF Waiting
<1>3. EventDue' = EventDue /\ LeftShort' \in BOOLEAN
    BY <1>1 DEF EventDue, LeftShort
<1>4. Waiting = {} => LeftShort' = LeftShort
    BY <1>1, <1>2 DEF LeftShort
<1>5. Waiting # {} => EventDue \/ LeftShort'
    BY <1>1, <1>2 DEF EventDue, LeftShort
<1> QED
    BY <1>1, <1>2, <1>3, <1>4, <1>5 DEF Accepting!Stop

LEMMA StepAccepting ==
    ASSUME Safe, Safe', Heard, [Next]_vars
    PROVE  [Accepting!Next]_Accepting!vars
<1>1. CASE UNCHANGED vars
    BY <1>1, SameAccepting DEF vars, mainVars, netVars
<1>2. ASSUME NEW c \in Conns, Connect(c) PROVE Accepting!Next
    BY <1>2, ComesAccepting DEF Accepting!Next
<1>3. ASSUME NEW c \in Conns, Send(c) \/ PeerClose(c) \/ PeerReset(c)
      PROVE  [Accepting!Next]_Accepting!vars
    BY <1>3, SameAccepting DEF Send, PeerClose, PeerReset, mainVars
<1>4. CASE StartSub
    BY <1>4, BeginAccepting, SameAccepting DEF StartSub, netVars, Accepting!Next
<1>5. CASE AcceptWake \/ AcceptStops \/ \E c \in Conns, f \in Fds : Accept(c, f)
    BY <1>5, WakeAccepting, StopAccepting, TakeAccepting DEF Accepting!Next
<1>6. CASE Register \/ RegisterFails \/ AssignSlot \/ LockForInsert \/ Insert \/ Leave
  <2>1. UNCHANGED <<client, edge>>
    BY <1>6 DEF Register, RegisterFails, Crash, AssignSlot, LockForInsert, Insert, Leave,
                mainVars, netVars
  <2>2. \/ mainPc' = mainPc
        \/ mainPc \notin {"start", "wait"} /\ mainPc' \notin {"start", "wait"}
    BY <1>6 DEF Register, RegisterFails, Crash, AssignSlot, LockForInsert, Insert, Leave,
                mainVars, MainAt, Slots, AfterSlot
  <2> QED
    BY <2>1, <2>2, SameAccepting
<1>7. ASSUME NEW t \in Threads, WorkerStep(t)
      PROVE  [Accepting!Next]_Accepting!vars
  <2>1. UNCHANGED <<client, edge, mainPc>>
    BY <1>7 DEF WorkerStep, Take, Poll, Commit, Handle, Recv, CallMessage, Reply, CallClose,
                LockMap, Erase, Release, mainVars, netVars
  <2> QED
    BY <2>1, SameAccepting
<1> QED
    BY <1>1, <1>2, <1>3, <1>4, <1>5, <1>6, <1>7 DEF Next, ClientStep, MainStep

\* With the threads that build, serve and close Connections between its calls, the
\* main loop takes clients as AcceptQueue promises: an edge is due for whoever waits
\* while it sleeps, but for want of a descriptor (ImplementsAccepting).
THEOREM AcceptsAll == Spec => ImplementsAccepting
<1>1. Init => Accepting!Init
  <2> SUFFICES ASSUME Init PROVE Accepting!Init
    OBVIOUS
  <2>1. MainLoop = "away" /\ EventDue = FALSE /\ LeftShort = FALSE /\ Waiting = {}
    BY LoopIs DEF Init, EventDue, LeftShort, Waiting
  <2> QED
    BY <2>1 DEF Init, Accepting!Init
<1> QED
    BY <1>1, InitHeard, StepHeard, StepAccepting, AlwaysSafe, PTL
    DEF Spec, ImplementsAccepting, Accepting!Spec

=============================================================================
