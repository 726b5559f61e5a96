--------------------------- MODULE AsyncLogProofs ---------------------------
(***************************************************************************)
(* Theorems about AsyncLog, for any threads and any messages: the worker   *)
(* does not sleep on work, the destructor drains the queue, and the logger *)
(* implements LogStream.                                                   *)
(***************************************************************************)
EXTENDS AsyncLog, TLAPS

USE LevelAssumption, NoneAssumption

-----------------------------------------------------------------------------
(* Sequences of messages.                                                  *)

LEMMA AppendElements ==
    ASSUME NEW q \in Seq(Messages), NEW m \in Messages
    PROVE  /\ Append(q, m) \in Seq(Messages) /\ Append(q, m) # <<>>
           /\ Len(q) \in Nat /\ Len(Append(q, m)) = Len(q) + 1
           /\ q = <<>> => Len(q) = 0
           /\ Elements(Append(q, m)) = Elements(q) \cup {m}
<1>1. /\ Len(q) \in Nat /\ DOMAIN q = 1 .. Len(q)
      /\ DOMAIN Append(q, m) = 1 .. Len(q) + 1
      /\ \A i \in 1 .. Len(q) : Append(q, m)[i] = q[i]
      /\ Append(q, m)[Len(q) + 1] = m
    OBVIOUS
<1>2. Elements(Append(q, m)) = Elements(q) \cup {m}
    BY <1>1 DEF Elements
<1> QED
    BY <1>2

LEMMA TailElements ==
    ASSUME NEW q \in Seq(Messages), q # <<>>
    PROVE  /\ Head(q) \in Messages /\ Head(q) \in Elements(q)
           /\ Tail(q) \in Seq(Messages)
           /\ Elements(Tail(q)) \subseteq Elements(q)
<1>1. /\ Len(q) \in Nat /\ Len(q) > 0 /\ DOMAIN q = 1 .. Len(q) /\ Head(q) = q[1]
      /\ DOMAIN Tail(q) = 1 .. Len(q) - 1
      /\ \A i \in 1 .. Len(q) - 1 : Tail(q)[i] = q[i + 1] /\ i + 1 \in 1 .. Len(q)
      /\ Head(q) \in Messages /\ Tail(q) \in Seq(Messages)
    OBVIOUS
<1> QED
    BY <1>1 DEF Elements

LEMMA NoElements == Elements(<<>>) = {}
BY DEF Elements

\* the message in hand is the first of those that are not out
LEMMA InHand ==
    ASSUME NEW q \in Seq(Messages), NEW m \in Messages
    PROVE  /\ <<m>> \o q \in Seq(Messages) /\ <<m>> \o q # <<>>
           /\ Head(<<m>> \o q) = m /\ Tail(<<m>> \o q) = q
<1>1. <<m>> \in Seq(Messages)
    OBVIOUS
<1> QED
    BY <1>1

LEMMA Refill ==
    ASSUME NEW q \in Seq(Messages), q # <<>>
    PROVE  <<Head(q)>> \o Tail(q) = q
OBVIOUS

LEMMA AppendInHand ==
    ASSUME NEW q \in Seq(Messages), NEW m \in Messages, NEW n \in Messages
    PROVE  <<m>> \o Append(q, n) = Append(<<m>> \o q, n)
OBVIOUS

-----------------------------------------------------------------------------
(* The inductive invariant.                                                *)

Safe == TypeOK /\ NoSleepOnWork /\ Exiting /\ Once

LEMMA InitSafe == Init => Safe
<1> SUFFICES ASSUME Init PROVE Safe
    OBVIOUS
<1> USE DEF Init
<1>1. Elements(queue_) = {}
    BY NoElements
<1>2. TypeOK
  <2>1. queue_ \in Seq(Messages) /\ written \in Seq(Messages)
    OBVIOUS
  <2>2. making \in [Producers -> Messages \cup {None}]
    OBVIOUS
  <2>3. min_log_level_ \in 0 .. 4
    OBVIOUS
  <2>4. msg \in Messages \cup {None} /\ (msg # None <=> worker \in Holding)
    BY DEF Holding
  <2> QED
    BY <2>1, <2>2, <2>3, <2>4, Zenon DEF TypeOK
<1>3. NoSleepOnWork /\ Exiting
    BY <1>1 DEF NoSleepOnWork, Exiting
<1>4. Once
    BY <1>1 DEF Once, Pushed
<1> QED
    BY <1>2, <1>3, <1>4 DEF Safe

\* Once survives as long as nothing is pushed or made
LEMMA OnceFrame ==
    ASSUME TypeOK, Once, UNCHANGED <<making, unlogged>>, Pushed' \subseteq Pushed \cup {None}
    PROVE  Once'
<1>1. None \notin unlogged
    BY DEF TypeOK
<1>2. (unlogged \cap Pushed = {})'
    BY <1>1 DEF Once
<1>3. ASSUME NEW p \in Producers, making[p] # None PROVE making[p] \notin unlogged \cup Pushed'
    BY <1>3 DEF Once
<1> QED
    BY <1>2, <1>3, Zenon DEF Once

LEMMA LogMessageSafe ==
    ASSUME Safe, NEW p \in Producers, NEW m \in Messages, LogMessage(p, m)
    PROVE  Safe'
<1> USE DEF Safe
<1>1. /\ UNCHANGED <<queue_, min_log_level_, fileVars, exitVars, workVars>>
      /\ m \in unlogged /\ unlogged' = unlogged \ {m} /\ making[p] = None
      /\ making' \in {making, [making EXCEPT ![p] = m]}
    BY DEF LogMessage
<1>2. making \in [Producers -> Messages \cup {None}] /\ unlogged \subseteq Messages
    BY DEF TypeOK
<1>3. /\ \A q \in Producers : making'[q] = making[q] \/ (q = p /\ making'[q] = m)
      /\ making' \in [Producers -> Messages \cup {None}]
    BY <1>1, <1>2
<1>4. TypeOK'
    BY <1>1, <1>3 DEF TypeOK, fileVars, exitVars, workVars
<1>5. NoSleepOnWork' /\ Exiting' /\ Pushed' = Pushed
    BY <1>1 DEF NoSleepOnWork, Exiting, exitVars, workVars, Pushed
<1>6. Once'
  <2>1. m \notin Pushed /\ \A q \in Producers : making[q] # m
    BY <1>1, <1>2 DEF Once
  <2>2. (unlogged \cap Pushed = {})'
    BY <1>1, <1>5 DEF Once
  <2>3. (\A q \in Producers : making[q] # None => making[q] \notin unlogged \cup Pushed)'
    BY <1>1, <1>3, <1>5, <2>1 DEF Once
  <2>4. (\A q, r \in Producers : making[q] = making[r] /\ making[q] # None => q = r)'
    BY <1>3, <2>1 DEF Once
  <2> QED
    BY <2>2, <2>3, <2>4 DEF Once
<1> QED
    BY <1>4, <1>5, <1>6

LEMMA PushSafe ==
    ASSUME Safe, NEW p \in Producers, push(p)
    PROVE  Safe'
<1> USE DEF Safe
<1> DEFINE m == making[p]
<1>1. /\ queue_ \in Seq(Messages) /\ m \in Messages
      /\ making \in [Producers -> Messages \cup {None}]
    BY DEF TypeOK, push
<1>2. /\ queue_' = Append(queue_, m) /\ making' = [making EXCEPT ![p] = None]
      /\ worker' = IF worker = "waiting" /\ Len(queue_') = 1 THEN "pop" ELSE worker
      /\ UNCHANGED <<min_log_level_, unlogged, fileVars, exitVars, msg, written, crashed>>
    BY DEF push
<1>3. /\ queue_' \in Seq(Messages) /\ Len(queue_') = Len(queue_) + 1
      /\ queue_ = <<>> => Len(queue_) = 0
      /\ Elements(queue_') = Elements(queue_) \cup {m}
    BY <1>1, <1>2, AppendElements
<1>4. /\ \A q \in Producers : making'[q] = IF q = p THEN None ELSE making[q]
      /\ making' \in [Producers -> Messages \cup {None}]
    BY <1>1, <1>2
<1> HIDE DEF m
<1>5. worker' # "waiting" /\ (worker' = worker \/ (worker = "waiting" /\ worker' = "pop"))
  <2>1. worker = "waiting" => Len(queue_') = 1
    BY <1>3 DEF NoSleepOnWork
  <2> QED
    BY <1>2, <2>1
<1>6. TypeOK'
    BY <1>2, <1>3, <1>4, <1>5 DEF TypeOK, fileVars, exitVars, Holding
<1>7. NoSleepOnWork'
    BY <1>5 DEF NoSleepOnWork
<1>8. m \notin Pushed /\ m \notin unlogged /\ Pushed' = Pushed \cup {m} /\ m \notin owed
  <2>1. m \notin Pushed /\ m \notin unlogged
    BY <1>1 DEF Once, m
  <2> QED
    BY <1>2, <1>3, <2>1 DEF Pushed, exitVars
<1>9. Exiting'
    BY <1>2, <1>3, <1>5, <1>8 DEF Exiting, exitVars
<1>10. Once'
  <2>1. (unlogged \cap Pushed = {})'
    BY <1>2, <1>8 DEF Once
  <2>2. \A q \in Producers : making[q] = m => q = p
    BY <1>1 DEF Once, m
  <2>3. (\A q \in Producers : making[q] # None => making[q] \notin unlogged \cup Pushed)'
    BY <1>2, <1>4, <1>8, <2>2 DEF Once
  <2>4. (\A q, r \in Producers : making[q] = making[r] /\ making[q] # None => q = r)'
    BY <1>4 DEF Once
  <2> QED
    BY <2>1, <2>3, <2>4 DEF Once
<1> QED
    BY <1>6, <1>7, <1>9, <1>10

LEMMA PopSafe == ASSUME Safe, pop PROVE Safe'
<1> USE DEF Safe
<1>1. /\ worker = "pop" /\ queue_ \in Seq(Messages) /\ msg = None
      /\ UNCHANGED <<logVars, fileVars, exitVars, written, crashed>>
    BY DEF TypeOK, pop, Holding
<1>2. CASE queue_ = <<>>
  <2>1. /\ worker' = IF is_shutdown_ THEN "done" ELSE "waiting"
        /\ UNCHANGED <<msg, queue_>>
    BY <1>2 DEF pop
  <2>2. TypeOK'
    BY <1>1, <2>1 DEF TypeOK, logVars, fileVars, exitVars, Holding
  <2>3. NoSleepOnWork' /\ Exiting'
    BY <1>1, <1>2, <2>1, NoElements DEF NoSleepOnWork, Exiting, exitVars
  <2>4. Pushed' = Pushed
    BY <1>1, <2>1 DEF Pushed, exitVars
  <2> QED
    BY <1>1, <2>2, <2>3, <2>4, OnceFrame DEF logVars
<1>3. CASE queue_ # <<>>
  <2>1. worker' = "write" /\ msg' = Head(queue_) /\ queue_' = Tail(queue_)
    BY <1>3 DEF pop
  <2>2. /\ msg' \in Messages /\ msg' \in Elements(queue_)
        /\ queue_' \in Seq(Messages) /\ Elements(queue_') \subseteq Elements(queue_)
    BY <1>1, <1>3, <2>1, TailElements
  <2>3. TypeOK'
    BY <1>1, <2>1, <2>2 DEF TypeOK, logVars, fileVars, exitVars, Holding
  <2>4. NoSleepOnWork' /\ Exiting'
    BY <1>1, <2>1 DEF NoSleepOnWork, Exiting, exitVars
  <2>5. Pushed' \subseteq Pushed
    BY <1>1, <2>2 DEF Pushed, exitVars
  <2> QED
    BY <1>1, <2>3, <2>4, <2>5, OnceFrame DEF logVars
<1> QED
    BY <1>2, <1>3

\* the worker's other steps
LEMMA WriteSafe == ASSUME Safe, Wake \/ WriteBegins \/ WriteEnds \/ Crash PROVE Safe'
<1> USE DEF Safe
<1>1. /\ UNCHANGED <<queue_, logVars, log_file_, exitVars>>
      /\ \/ worker \in {"waiting", "writing"} /\ worker' = "pop"
         \/ worker \in {"write", "writing"} /\ worker' = "writing"
      /\ msg' = IF worker' = "pop" THEN None ELSE msg
      /\ torn' \in BOOLEAN /\ crashed' \in BOOLEAN
    BY DEF Wake, WriteBegins, WriteEnds, Crash, TypeOK, fileVars, Holding
<1>2. written' \in Seq(Messages)
  <2>1. CASE WriteEnds
    <3>1. msg \in Messages /\ written \in Seq(Messages)
        BY <2>1 DEF WriteEnds, TypeOK, Holding
    <3>2. PICK n \in IF torn THEN 0 .. 2 ELSE IF log_file_ = "open" THEN {1} ELSE {0} :
             written' = written \o [i \in 1 .. n |-> msg]
        BY <2>1, Zenon DEF WriteEnds
    <3>3. n \in Nat
        BY <3>2
    <3>4. [i \in 1 .. n |-> msg] \in Seq(Messages)
        BY <3>1, <3>3
    <3> QED
        BY <3>1, <3>2, <3>4
  <2>2. CASE ~WriteEnds
    BY <2>2 DEF Wake, WriteBegins, Crash, TypeOK
  <2> QED
    BY <2>1, <2>2
<1>3. TypeOK'
    BY <1>1, <1>2 DEF TypeOK, logVars, exitVars, Holding
<1>4. NoSleepOnWork' /\ Exiting'
    BY <1>1 DEF NoSleepOnWork, Exiting, exitVars
<1>5. Pushed' \subseteq Pushed \cup {None}
    BY <1>1 DEF Pushed, exitVars
<1> QED
    BY <1>1, <1>3, <1>4, <1>5, OnceFrame DEF logVars

\* the main thread's
LEMMA MainSafe ==
    ASSUME Safe, (\E level \in 0 .. 4 : SetMinLogLevel(level)) \/ CloseFile \/ OpenFile
                     \/ shutdown \/ Join
    PROVE  Safe'
<1> USE DEF Safe
<1>1. CASE \E level \in 0 .. 4 : SetMinLogLevel(level)
  <2>1. TypeOK'
    BY <1>1 DEF SetMinLogLevel, TypeOK, fileVars, exitVars, workVars
  <2>2. NoSleepOnWork' /\ Exiting'
    BY <1>1 DEF SetMinLogLevel, NoSleepOnWork, Exiting, exitVars, workVars
  <2>3. Pushed' = Pushed /\ UNCHANGED <<making, unlogged>>
    BY <1>1 DEF SetMinLogLevel, Pushed, exitVars, workVars
  <2> QED
    BY <2>1, <2>2, <2>3, OnceFrame
<1>2. CASE CloseFile \/ OpenFile \/ Join
  <2>1. /\ UNCHANGED <<queue_, logVars, is_shutdown_, owed, workVars>>
        /\ log_file_' \in {"open", "closed", "failed"} /\ torn' \in BOOLEAN
        /\ \/ main \in {"run", "open"} /\ main' \in {"run", "open"}
           \/ main = "join" /\ worker = "done" /\ main' = "destroyed"
    BY <1>2 DEF CloseFile, OpenFile, Join, TypeOK, fileVars
  <2>2. TypeOK'
    BY <2>1 DEF TypeOK, logVars, workVars
  <2>3. NoSleepOnWork' /\ Exiting'
    BY <2>1 DEF NoSleepOnWork, Exiting, workVars
  <2>4. Pushed' = Pushed
    BY <2>1 DEF Pushed, workVars
  <2> QED
    BY <2>1, <2>2, <2>3, <2>4, OnceFrame DEF logVars
<1>3. CASE shutdown
  <2>1. /\ UNCHANGED <<queue_, logVars, fileVars, msg, written, crashed>>
        /\ main = "run" /\ main' = "join" /\ is_shutdown_' = TRUE
        /\ owed' = (Elements(queue_) \cup {msg}) \ {None}
        /\ worker' = IF worker = "waiting" THEN "pop" ELSE worker
    BY <1>3 DEF shutdown
  <2>2. worker' # "waiting" /\ worker # "done" /\ worker' # "done"
    BY <2>1 DEF Exiting
  <2>3. queue_ \in Seq(Messages) /\ msg \in Messages \cup {None}
    BY DEF TypeOK
  <2>4. owed' \subseteq Messages
    BY <2>1, <2>3 DEF Elements
  <2>5. TypeOK'
    BY <2>1, <2>4 DEF TypeOK, logVars, fileVars, Holding
  <2>6. NoSleepOnWork' /\ Exiting'
    BY <2>1, <2>2 DEF NoSleepOnWork, Exiting
  <2>7. Pushed' \subseteq Pushed
    BY <2>1 DEF Pushed
  <2> QED
    BY <2>1, <2>5, <2>6, <2>7, OnceFrame DEF logVars
<1> QED
    BY <1>1, <1>2, <1>3

LEMMA StepSafe == Safe /\ [Next]_vars => Safe'
<1> SUFFICES ASSUME Safe, [Next]_vars PROVE Safe'
    OBVIOUS
<1>1. CASE UNCHANGED vars
  <2>1. TypeOK' /\ NoSleepOnWork' /\ Exiting'
    BY <1>1 DEF Safe, vars, TypeOK, NoSleepOnWork, Exiting
  <2>2. Once'
    BY <1>1 DEF Safe, vars, Once, Pushed
  <2> QED
    BY <2>1, <2>2 DEF Safe
<1> QED
    BY <1>1, LogMessageSafe, PushSafe, PopSafe, WriteSafe, MainSafe DEF Next, WorkerStep

LEMMA AlwaysSafe == Spec => []Safe
BY InitSafe, StepSafe, PTL DEF Spec

-----------------------------------------------------------------------------

\* Every variable of the logger has its type (TypeOK).
THEOREM TypeCorrect == Spec => []TypeOK
<1>1. Safe => TypeOK
    BY DEF Safe
<1> QED
    BY <1>1, AlwaysSafe, PTL

\* The worker sleeps only on an empty queue of an open logger (NoSleepOnWork).
THEOREM WorkerAwake == Spec => []NoSleepOnWork
<1>1. Safe => NoSleepOnWork
    BY DEF Safe
<1> QED
    BY <1>1, AlwaysSafe, PTL

\* The destructor returns with everything taken that was pushed before it
\* shut the queue down (DrainedAtExit).
THEOREM Drained == Spec => []DrainedAtExit
<1>1. Safe => DrainedAtExit
  <2> SUFFICES ASSUME Safe, main = "destroyed"
               PROVE  owed \cap (Elements(queue_) \cup {msg}) = {}
    BY DEF DrainedAtExit
  <2>1. worker = "done" /\ owed \cap Elements(queue_) = {}
    BY DEF Safe, Exiting
  <2>2. msg = None /\ owed \subseteq Messages
    BY <2>1 DEF Safe, TypeOK, Holding
  <2> QED
    BY <2>1, <2>2
<1> QED
    BY <1>1, AlwaysSafe, PTL

-----------------------------------------------------------------------------
(* The refinement of LogStream.                                            *)

Pending == IF msg = None THEN queue_ ELSE <<msg>> \o queue_
Steady  == log_file_ = "open" /\ ~torn

LEMMA StepStream == Safe /\ [Next]_vars => [Stream!Next]_Stream!vars
<1> SUFFICES ASSUME Safe, [Next]_vars PROVE [Stream!Next]_Stream!vars
    OBVIOUS
<1> USE DEF Stream!vars, Stream!Next
<1>1. /\ queue_ \in Seq(Messages) /\ msg \in Messages \cup {None}
      /\ msg # None <=> worker \in Holding
    BY DEF Safe, TypeOK
<1>2. ASSUME NEW p \in Producers, push(p) PROVE Stream!Next
  <2>1. /\ making[p] \in Messages /\ queue_' = Append(queue_, making[p])
        /\ UNCHANGED <<written, msg, log_file_, torn>>
    BY <1>2 DEF push, Safe, TypeOK, fileVars
  <2>2. Pending' = Append(Pending, making[p])
    BY <1>1, <2>1, AppendInHand DEF Pending
  <2> QED
    BY <2>1, <2>2 DEF Stream!Accept, Pending, Steady
<1>3. ASSUME NEW p \in Producers, NEW m \in Messages, LogMessage(p, m)
      PROVE  UNCHANGED Stream!vars
    BY <1>3 DEF LogMessage, fileVars, workVars
<1>4. CASE pop
  <2>1. msg = None /\ UNCHANGED <<written, log_file_, torn>>
    BY <1>1, <1>4 DEF pop, Holding, fileVars
  <2>2. CASE queue_ = <<>>
    BY <1>4, <2>1, <2>2 DEF pop
  <2>3. CASE queue_ # <<>>
    <3>1. /\ msg' = Head(queue_) /\ queue_' = Tail(queue_) /\ msg' \in Messages
          /\ <<Head(queue_)>> \o Tail(queue_) = queue_
        BY <1>1, <1>4, <2>3, TailElements, Refill DEF pop
    <3>2. Pending' = Pending
        BY <2>1, <3>1 DEF Pending
    <3> QED
        BY <2>1, <3>2 DEF Pending
  <2> QED
    BY <2>2, <2>3
<1>5. CASE WriteEnds
  <2>1. msg \in Messages /\ msg' = None /\ UNCHANGED <<queue_, log_file_>>
    BY <1>1, <1>5 DEF WriteEnds, Holding
  <2>2. Pending # <<>> /\ Head(Pending) = msg /\ Pending' = Tail(Pending)
    BY <1>1, <2>1, InHand DEF Pending
  <2>3. Steady' \in BOOLEAN
    BY DEF Steady
  <2>4. PICK n \in 0 .. 2 : /\ Steady => n = 1
                            /\ written' = written \o [i \in 1 .. n |-> msg]
    BY <1>5 DEF WriteEnds, Steady
  <2>5. n \in IF Steady THEN {1} ELSE 0 .. 2
    BY <2>4
  <2>6. written' = written \o [i \in 1 .. n |-> Head(Pending)]
    BY <2>2, <2>4
  <2> QED
    BY <2>2, <2>3, <2>5, <2>6 DEF Stream!Write, Pending, Steady
<1>6. CASE Wake \/ WriteBegins \/ Crash \/ shutdown \/ Join
           \/ \E level \in 0 .. 4 : SetMinLogLevel(level)
    BY <1>6 DEF Wake, WriteBegins, Crash, shutdown, Join, SetMinLogLevel, fileVars, workVars
<1>7. CASE CloseFile \/ OpenFile
  <2>1. UNCHANGED <<queue_, msg, written>>
    BY <1>7 DEF CloseFile, OpenFile, workVars
  <2>2. Steady \in BOOLEAN /\ Steady' \in BOOLEAN
    BY DEF Steady
  <2> QED
    BY <2>1, <2>2 DEF Stream!ChangeFile, Steady
<1>8. CASE UNCHANGED vars
    BY <1>8 DEF vars
<1> QED
    BY <1>2, <1>3, <1>4, <1>5, <1>6, <1>7, <1>8 DEF Next, WorkerStep

\* The logger with its threads, its queue and its file is a stream that loses
\* or doubles messages only while the file is not in place (ImplementsStream).
THEOREM Implements == Spec => ImplementsStream
<1>1. Init => Stream!Init
    BY DEF Init, Stream!Init
<1> QED
    BY <1>1, StepStream, AlwaysSafe, PTL DEF Spec, ImplementsStream, Stream!Spec
=============================================================================
