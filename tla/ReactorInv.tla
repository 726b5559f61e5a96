----------------------------- MODULE ReactorInv -----------------------------
(***************************************************************************)
(* The inductive invariant of Reactor: what is true of every reachable     *)
(* state and is preserved by every step, in parts named for what they say. *)
(* ReactorProofs proves it; MCReactor lets TLC check it.                   *)
(***************************************************************************)
EXTENDS Reactor

InFlight(c) == \/ \E t \in Threads : InBatch(c, t)
               \/ InQueue(c)

\* who holds a Connection, and that a dead one has let everything go
Owned ==
    /\ \A c \in Conns :
          /\ "main" \in refs[c] => c = mainConn
          /\ c = mainConn => "main" \in refs[c] /\ client[c] = "accepted"
          /\ client[c] # "accepted" => refs[c] = {}
          /\ refs[c] = {} => fd[c] = None /\ interest[c] = {}
          /\ refs[c] # {} => fd[c] \in Fds
    /\ \A c, d \in Conns : refs[c] # {} /\ refs[d] # {} /\ fd[c] = fd[d] => c = d
    /\ \A c \in Conns, t \in Threads :
          t \in refs[c] => HandledBy(c, t) /\ pc[t] \in Owning \cup {"closing"}
    /\ \A t \in Threads : pc[t] \in Owning => t \in refs[job[t]]

\* the map's share in a Connection is the map's entry for its descriptor
Mapped ==
    /\ \A c \in Conns : "map" \in refs[c] => connections_map[fd[c]] = c
    /\ \A c \in Conns, f \in Fds :
          connections_map[f] = c => fd[c] = f /\ "map" \in refs[c]
    /\ mainPc \in Building => "map" \notin refs[mainConn]

\* a channel under construction is nowhere yet; one that is somewhere is
\* registered, and only ever armed or disarmed by its one shot
Registered ==
    /\ \A c \in Conns : interest[c] \in {{}, ConnEvents, Disarm(ConnEvents)}
    /\ mainPc = "register" => /\ interest[mainConn] = {}
                              /\ ~InFlight(mainConn)
                              /\ \A t \in Threads : ~HandledBy(mainConn, t)
    /\ \A c \in Conns : InFlight(c) => interest[c] # {}
    /\ \A t \in Threads : pc[t] \in Serving => interest[job[t]] # {}

\* until its handler closes it, the map or the main thread's construction
\* keeps c alive
Kept(c) == \/ "map" \in refs[c]
           \/ c = mainConn /\ mainPc \in Building

Alive ==
    /\ \A c \in Conns : Armed(c) \/ InFlight(c) => Kept(c)
    /\ \A t \in Threads : pc[t] \in Serving => Kept(job[t])

\* the first five parts, which the safety properties follow from
Safe == TypeOK /\ Owned /\ Mapped /\ OneShotDelivery /\ Registered /\ Alive

\* the members the main thread has set when it is at a place of the building
SetAt == [register |-> {}, read |-> {}, weak |-> {"read"},
          message |-> {"read", "weak"}, close |-> Slots \ {"close"},
          lock |-> Slots, insert |-> Slots, leave |-> Slots]

\* a Connection that is not under construction is built
Built == \A c \in Conns : client[c] = "accepted" =>
            \A s \in Slots : \/ slot[c][s] = "set"
                             \/ c = mainConn /\ s \notin SetAt[mainPc]

\* what is on its way to a handler is to be read
Readable ==
    /\ \A c \in Conns : InFlight(c) => "IN" \in ready_events[c]
    /\ \A t \in Threads : pc[t] = "handle" => "IN" \in ready_events[job[t]]

\* the Connection under construction is only ever handled by overtaking
Noted == \A t \in Threads : HandledBy(mainConn, t) /\ mainConn \in Conns =>
            mainConn \in overtaken

\* a live Connection waits for its event, is being handled, or leaked in one
\* of the two known ways; its handler ends with the map's share gone
Ends ==
    /\ \A c \in Conns : refs[c] # {} =>
          \/ c \in overtaken \cup threw
          \/ Undelivered(c)
          \/ \E t \in Threads : HandledBy(c, t)
    /\ \A t \in Threads : pc[t] = "release" =>
          job[t] \in overtaken \/ "map" \notin refs[job[t]]

\* what is handled and was not overtaken is built, and ends with its handler
Finished == Built /\ Readable /\ Noted /\ Ends

Inductive == Safe /\ Finished

\* each loop is one task, committed once
LoopTasks ==
    \A s \in Subs :
       /\ QueuedOnce(s)
       /\ InQueue(s) => s < committed /\ \A t \in Threads : job[t] # s
       /\ \A t \in Threads : job[t] = s => s < committed

\* a client that came before the main thread waits is reported when it does
Heard == mainPc = "start" /\ Waiting # {} => edge = "new"

\* the loops are first in the queue, and a thread never gives one back
Loops ==
    /\ mainPc # "start" => committed = SubNum
    /\ mainPc = "start" => \A c \in Conns : client[c] # "accepted"
    /\ \A i, k \in DOMAIN tasks : tasks[i] \in Subs /\ tasks[k] \in Conns => i < k
    /\ \A s \in Subs : s < committed => InQueue(s) \/ \E t \in Threads : job[t] = s
=============================================================================
