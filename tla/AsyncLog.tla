------------------------------ MODULE AsyncLog ------------------------------
(***************************************************************************)
(* The logger: threads that log push to a queue, one worker pops and       *)
(* writes to the file, and the main thread changes the file or the level   *)
(* while they do, and destroys the logger at exit.                         *)
(*                                                                         *)
(* Every section under the queue's mutex is one step, for nothing it reads *)
(* changes without the mutex; the mutex is free between steps.  The file   *)
(* is nobody's: SetOutputFile closes and opens the stream the worker may   *)
(* be writing to, a data race.                                             *)
(***************************************************************************)
EXTENDS Naturals, Sequences

CONSTANTS Producers,  \* threads that log
          Messages,   \* what they log, each once
          Level,      \* Level[m]: the level message m is logged at
          None        \* no message

ASSUME LevelAssumption == Level \in [Messages -> 0 .. 3]
ASSUME NoneAssumption == None \notin Messages

VARIABLES
    queue_, is_shutdown_, min_log_level_,
    log_file_,  \* "open", "closed" between close and open, "failed" after open
    torn,       \* whether the file was closed or opened under the worker's write
    worker,     \* the worker's place
    msg,        \* the message the worker holds, or None
    main,       \* the main thread's place
    making,     \* making[p]: the message p makes to push it, or None
    unlogged,   \* history: messages that have not been logged
    written,    \* the messages in the files
    owed,       \* history: messages that had been pushed at shutdown
    crashed     \* whether the race on the file has ended the process

vars == <<queue_, is_shutdown_, min_log_level_, log_file_, torn, worker, msg,
          main, making, unlogged, written, owed, crashed>>

logVars  == <<min_log_level_, making, unlogged>>
fileVars == <<log_file_, torn>>
exitVars == <<main, is_shutdown_, owed>>
workVars == <<worker, msg, written, crashed>>

Elements(s) == {s[i] : i \in DOMAIN s}

Init ==
    /\ queue_ = <<>> /\ is_shutdown_ = FALSE
    /\ min_log_level_ = 0
    /\ log_file_ = "open" /\ torn = FALSE
    /\ worker = "pop" /\ msg = None
    /\ main = "run"
    /\ making = [p \in Producers |-> None]
    /\ unlogged = Messages
    /\ written = <<>> /\ owed = {}
    /\ crashed = FALSE

-----------------------------------------------------------------------------
(* The threads that log.  They do not once the logger is gone.             *)

\* LogMessage: the level is read, and the text is made
LogMessage(p, m) ==
    /\ main # "destroyed" /\ making[p] = None /\ m \in unlogged
    /\ unlogged' = unlogged \ {m}
    /\ making' = IF Level[m] < min_log_level_ THEN making ELSE [making EXCEPT ![p] = m]
    /\ UNCHANGED <<queue_, min_log_level_, fileVars, exitVars, workVars>>

\* a bug: the size is read before the message is pushed
PushUnnoticed(p) ==
    /\ main # "destroyed" /\ making[p] # None
    /\ queue_' = Append(queue_, making[p])
    /\ making' = [making EXCEPT ![p] = None]
    /\ worker' = IF worker = "waiting" /\ Len(queue_) = 1 THEN "pop" ELSE worker
    /\ UNCHANGED <<min_log_level_, unlogged, fileVars, exitVars, msg, written, crashed>>

\* push: the worker is notified by the message that makes the size 1
push(p) ==
    /\ main # "destroyed" /\ making[p] # None
    /\ queue_' = Append(queue_, making[p])
    /\ making' = [making EXCEPT ![p] = None]
    /\ worker' = IF worker = "waiting" /\ Len(queue_') = 1 THEN "pop" ELSE worker
    /\ UNCHANGED <<min_log_level_, unlogged, fileVars, exitVars, msg, written, crashed>>

-----------------------------------------------------------------------------
(* The worker.                                                             *)

\* a bug: a logger that is shut down has nothing to write
PopShutdown ==
    /\ worker = "pop"
    /\ worker' = IF is_shutdown_ THEN "done" ELSE IF queue_ # <<>> THEN "write" ELSE "waiting"
    /\ IF queue_ # <<>> /\ ~is_shutdown_
       THEN msg' = Head(queue_) /\ queue_' = Tail(queue_)
       ELSE UNCHANGED <<msg, queue_>>
    /\ UNCHANGED <<logVars, fileVars, exitVars, written, crashed>>

\* a bug: at the end there is a message too
PopNothing ==
    /\ worker = "pop"
    /\ worker' = IF queue_ # <<>> \/ is_shutdown_ THEN "write" ELSE "waiting"
    /\ IF queue_ # <<>>
       THEN msg' = Head(queue_) /\ queue_' = Tail(queue_)
       ELSE UNCHANGED <<msg, queue_>>
    /\ UNCHANGED <<logVars, fileVars, exitVars, written, crashed>>

\* a bug: the newest message is taken
PopLast ==
    /\ worker = "pop"
    /\ worker' = IF queue_ # <<>> THEN "write" ELSE IF is_shutdown_ THEN "done" ELSE "waiting"
    /\ IF queue_ # <<>>
       THEN /\ msg' = queue_[Len(queue_)]
            /\ queue_' = SubSeq(queue_, 1, Len(queue_) - 1)
       ELSE UNCHANGED <<msg, queue_>>
    /\ UNCHANGED <<logVars, fileVars, exitVars, written, crashed>>

\* pop: the oldest message, false at the end, or wait
pop ==
    /\ worker = "pop"
    /\ worker' = IF queue_ # <<>> THEN "write" ELSE IF is_shutdown_ THEN "done" ELSE "waiting"
    /\ IF queue_ # <<>>
       THEN msg' = Head(queue_) /\ queue_' = Tail(queue_)
       ELSE UNCHANGED <<msg, queue_>>
    /\ UNCHANGED <<logVars, fileVars, exitVars, written, crashed>>

\* wait returns without having been notified
Wake ==
    /\ worker = "waiting"
    /\ worker' = "pop"
    /\ UNCHANGED <<queue_, logVars, fileVars, exitVars, msg, written, crashed>>

WriteBegins ==
    /\ worker = "write"
    /\ worker' = "writing"
    /\ UNCHANGED <<queue_, logVars, fileVars, exitVars, msg, written, crashed>>

\* << and endl return: the message is in the file if that is open; if it was
\* closed or opened meanwhile, the stream's buffer has been written by neither,
\* one or both of the threads, or the process died
WriteEnds ==
    /\ worker = "writing"
    /\ \E n \in IF torn THEN 0 .. 2 ELSE IF log_file_ = "open" THEN {1} ELSE {0} :
          written' = written \o [i \in 1 .. n |-> msg]
    /\ worker' = "pop" /\ msg' = None
    /\ torn' = FALSE
    /\ UNCHANGED <<queue_, logVars, log_file_, exitVars, crashed>>

Crash ==
    /\ worker = "writing" /\ torn
    /\ crashed' = TRUE
    /\ UNCHANGED <<queue_, logVars, fileVars, exitVars, worker, msg, written>>

WorkerStep == pop \/ WriteBegins \/ WriteEnds

-----------------------------------------------------------------------------
(* The main thread.                                                        *)

SetMinLogLevel(level) ==
    /\ main = "run"
    /\ min_log_level_' = level
    /\ UNCHANGED <<queue_, making, unlogged, fileVars, exitVars, workVars>>

\* SetOutputFile: close ...
CloseFile ==
    /\ main = "run"
    /\ main' = "open"
    /\ log_file_' = "closed" /\ torn' = (worker = "writing")
    /\ UNCHANGED <<queue_, logVars, is_shutdown_, owed, workVars>>

\* ... and open, which clears the stream's state, or fails and throws
OpenFile ==
    /\ main = "open"
    /\ main' = "run"
    /\ log_file_' \in {"open", "failed"} /\ torn' = (worker = "writing")
    /\ UNCHANGED <<queue_, logVars, is_shutdown_, owed, workVars>>

\* a bug: the worker is not told
ShutdownQuietly ==
    /\ main = "run"
    /\ main' = "join"
    /\ is_shutdown_' = TRUE
    /\ owed' = (Elements(queue_) \cup {msg}) \ {None}
    /\ UNCHANGED <<queue_, logVars, fileVars, workVars>>

\* ~Log: shutdown ...
shutdown ==
    /\ main = "run"
    /\ main' = "join"
    /\ is_shutdown_' = TRUE
    /\ owed' = (Elements(queue_) \cup {msg}) \ {None}
    /\ worker' = IF worker = "waiting" THEN "pop" ELSE worker
    /\ UNCHANGED <<queue_, logVars, fileVars, msg, written, crashed>>

\* ... and join, before the file and the queue go
Join ==
    /\ main = "join" /\ worker = "done"
    /\ main' = "destroyed"
    /\ UNCHANGED <<queue_, logVars, fileVars, is_shutdown_, owed, workVars>>

Next ==
    /\ ~crashed
    /\ \/ \E p \in Producers : push(p) \/ \E m \in Messages : LogMessage(p, m)
       \/ WorkerStep \/ Wake \/ Crash
       \/ \E level \in 0 .. 4 : SetMinLogLevel(level)
       \/ CloseFile \/ OpenFile \/ shutdown \/ Join

Spec == Init /\ [][Next]_vars

\* the worker and the destructor run when they can
FairSpec == Spec /\ WF_vars(~crashed /\ WorkerStep) /\ WF_vars(~crashed /\ Join)

-----------------------------------------------------------------------------
Holding == {"write", "writing"}

(* Type correctness, with the places at which the worker holds a message.  *)
TypeOK ==
    /\ queue_ \in Seq(Messages)
    /\ is_shutdown_ \in BOOLEAN /\ torn \in BOOLEAN /\ crashed \in BOOLEAN
    /\ min_log_level_ \in 0 .. 4
    /\ log_file_ \in {"open", "closed", "failed"}
    /\ worker \in {"pop", "waiting", "write", "writing", "done"}
    /\ msg \in Messages \cup {None} /\ (msg # None <=> worker \in Holding)
    /\ main \in {"run", "open", "join", "destroyed"}
    /\ making \in [Producers -> Messages \cup {None}]
    /\ unlogged \subseteq Messages
    /\ written \in Seq(Messages)
    /\ owed \subseteq Messages

(* The worker never sleeps on a message or on the shutdown, although only  *)
(* the push that makes the size 1 notifies it (Log.h:45,62).               *)
NoSleepOnWork == worker = "waiting" => queue_ = <<>> /\ ~is_shutdown_

(* When the destructor has returned, the worker has taken every message    *)
(* that had been pushed before the shutdown (Log.h:52,86).                 *)
DrainedAtExit == main = "destroyed" => owed \cap (Elements(queue_) \cup {msg}) = {}

(* Messages come out once, in the order they were pushed; one is lost only *)
(* if the file is not open, and lost or written twice only if it is closed *)
(* or opened under the write (LogStream; Log.h:133,163).                   *)
Stream == INSTANCE LogStream WITH
              pending <- IF msg = None THEN queue_ ELSE <<msg>> \o queue_,
              output  <- written,
              steady  <- log_file_ = "open" /\ ~torn
ImplementsStream == Stream!Spec

\* the places of the shutdown; once the worker is done, what it owed is out
Exiting == /\ is_shutdown_ <=> main \in {"join", "destroyed"}
           /\ worker = "done" => is_shutdown_
           /\ main = "destroyed" => worker = "done"
           /\ worker = "done" => owed \cap Elements(queue_) = {}
           /\ ~is_shutdown_ => owed = {}

\* a message is unlogged, then made by one thread, then pushed
Pushed == Elements(queue_) \cup {msg} \cup owed

Once == /\ unlogged \cap Pushed = {}
        /\ \A p \in Producers : making[p] # None => making[p] \notin unlogged \cup Pushed
        /\ \A p, q \in Producers : making[p] = making[q] /\ making[p] # None => p = q

(* A message that has been pushed is taken, unless it was pushed after the *)
(* shutdown or the process died (Log.h:162).                               *)
TakenEventually ==
    \A m \in Messages :
        m \in Elements(queue_) ~> m \notin Elements(queue_) \/ worker = "done" \/ crashed

(* The destructor returns, unless the process dies first (Log.h:86).       *)
ExitReturns == main = "join" ~> main = "destroyed" \/ crashed
=============================================================================
