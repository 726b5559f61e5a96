------------------------------ MODULE Webbench ------------------------------
(***************************************************************************)
(* webbench, the client that the server is measured with: a parent that    *)
(* tries the server, forks one child per client and adds up what they      *)
(* report through a pipe, and the children, whose requests are cut off by  *)
(* an alarm.  The server may refuse, reset or never answer a request.      *)
(***************************************************************************)
EXTENDS Integers, Sequences, FiniteSets, Functions

CONSTANTS Clients,   \* how many children, clients of the option -c
          MaxTries   \* bound: requests a child ends before its alarm

ASSUME ClientsAssumption == Clients \in Nat \ {0}
ASSUME MaxTriesAssumption == MaxTries \in Nat

VARIABLES
    force,    \* the option: replies are not read
    parent,   \* where the parent is, the children it still waits for, its sums
    pipe,     \* reports written and not read
    at,       \* where each child is; "unborn", "gone" with a report, or "dead"
    alarm,    \* its timer: "unset", "set", "fired", which is timerexpired
    count,    \* its speed and failed
    whole,    \* history: its requests that were carried through
    refused   \* history: those that failed, other than by the alarm

child == <<at, alarm, count, whole, refused>>
vars  == <<force, parent, pipe, child>>

Children == 1 .. Clients
Alive    == {k \in Children : at[k] \notin {"unborn", "gone", "dead"}}

-----------------------------------------------------------------------------
(* A child: benchcore, and its report.                                     *)

Goes(k, from, to) == at[k] = from /\ at' = [at EXCEPT ![k] = to]

\* failed++, and the next try
Fails(k) ==
    /\ count' = [count EXCEPT ![k].failed = @ + 1]
    /\ refused' = [refused EXCEPT ![k] = @ + 1]

Only == UNCHANGED <<force, parent, pipe, alarm>>

\* after its second of sleep
SetAlarm(k) ==
    /\ Goes(k, "sleep", "top")
    /\ alarm' = [alarm EXCEPT ![k] = "set"]
    /\ UNCHANGED <<force, parent, pipe, count, whole, refused>>

\* a bug: there may be no failure to take back
TopUnchecked(k) ==
    /\ \/ /\ alarm[k] = "fired" /\ Goes(k, "top", "report")
          /\ count' = [count EXCEPT ![k].failed = @ - 1]
       \/ /\ alarm[k] # "fired" /\ Goes(k, "top", "connect")
          /\ count[k].speed + refused[k] < MaxTries
          /\ UNCHANGED count
    /\ UNCHANGED <<whole, refused>> /\ Only

\* a bug: the request that the alarm ended counts as failed
TopUncorrected(k) ==
    /\ \/ alarm[k] = "fired" /\ Goes(k, "top", "report")
       \/ /\ alarm[k] # "fired" /\ Goes(k, "top", "connect")
          /\ count[k].speed + refused[k] < MaxTries
    /\ UNCHANGED <<count, whole, refused>> /\ Only

\* the alarm is taken to have made one request fail, if any did
Top(k) ==
    /\ \/ /\ alarm[k] = "fired" /\ Goes(k, "top", "report")
          /\ count' = [count EXCEPT ![k].failed = IF @ > 0 THEN @ - 1 ELSE @]
       \/ /\ alarm[k] # "fired" /\ Goes(k, "top", "connect")
          /\ count[k].speed + refused[k] < MaxTries
          /\ UNCHANGED count
    /\ UNCHANGED <<whole, refused>> /\ Only

Connect(k) ==
    /\ \/ Goes(k, "connect", "write") /\ UNCHANGED <<count, refused>>
       \/ Goes(k, "connect", "top") /\ Fails(k)
    /\ UNCHANGED whole /\ Only

\* write, and the shutdown of HTTP/0.9
Write(k) ==
    /\ \/ /\ Goes(k, "write", IF force THEN "close" ELSE "check")
          /\ UNCHANGED <<count, refused>>
       \/ Goes(k, "write", "top") /\ Fails(k)
    /\ UNCHANGED whole /\ Only

\* the check before each read
Check(k) ==
    /\ Goes(k, "check", IF alarm[k] = "fired" THEN "cut" ELSE "read")
    /\ UNCHANGED <<count, whole, refused>> /\ Only

\* some of the reply, its end, or an error
Read(k) ==
    /\ \/ Goes(k, "read", "check") /\ UNCHANGED <<count, refused>>
       \/ Goes(k, "read", "close") /\ UNCHANGED <<count, refused>>
       \/ Goes(k, "read", "top") /\ Fails(k)
    /\ UNCHANGED whole /\ Only

Close(k) ==
    /\ at[k] \in {"close", "cut"} /\ at' = [at EXCEPT ![k] = "top"]
    /\ \/ /\ count' = [count EXCEPT ![k].speed = @ + 1]
          /\ whole' = [whole EXCEPT ![k] = IF at[k] = "close" THEN @ + 1 ELSE @]
          /\ UNCHANGED refused
       \/ Fails(k) /\ UNCHANGED whole
    /\ Only

\* the handler sets timerexpired; a call the child is blocked in fails with
\* EINTR, but not one it is about to make
Alarm(k) ==
    /\ alarm[k] = "set" /\ k \in Alive
    /\ alarm' = [alarm EXCEPT ![k] = "fired"]
    /\ \/ UNCHANGED <<at, count>>
       \/ /\ at[k] \in {"connect", "read"} /\ at' = [at EXCEPT ![k] = "top"]
          /\ count' = [count EXCEPT ![k].failed = @ + 1]
    /\ UNCHANGED <<force, parent, pipe, whole, refused>>

\* one write of a line, also when the parent has left: the children have the
\* pipe's reading end open too
Report(k) ==
    /\ Goes(k, "report", "gone")
    /\ pipe' = Append(pipe, count[k])
    /\ UNCHANGED <<force, parent, alarm, count, whole, refused>>

\* killed, or without sigaction or fdopen
Die(k) ==
    /\ k \in Alive /\ at' = [at EXCEPT ![k] = "dead"]
    /\ UNCHANGED <<force, parent, pipe, alarm, count, whole, refused>>

-----------------------------------------------------------------------------
(* The parent: bench.                                                      *)

\* one connection to see that the server is there, and the pipe
Probe ==
    /\ parent.at = "probe"
    /\ parent' \in {[parent EXCEPT !.at = "fork"], [parent EXCEPT !.at = "failed"]}
    /\ UNCHANGED <<force, pipe, child>>

\* the next child; without it, or without fdopen after the last, the parent
\* leaves, and the others go on
Fork ==
    /\ parent.at = "fork"
    /\ \E k \in Children :
          /\ at[k] = "unborn" /\ \A j \in 1 .. k - 1 : at[j] # "unborn"
          /\ \/ /\ at' = [at EXCEPT ![k] = "sleep"]
                /\ \E p \in IF k = Clients THEN {"collect", "failed"} ELSE {"fork"} :
                      parent' = [parent EXCEPT !.at = p]
             \/ UNCHANGED at /\ parent' = [parent EXCEPT !.at = "failed"]
    /\ UNCHANGED <<force, pipe, alarm, count, whole, refused>>

Ends(left) == IF left = 0 THEN "done" ELSE "collect"

\* a bug: clients-- == 0
CollectOneMore ==
    /\ parent.at = "collect" /\ pipe # <<>>
    /\ parent' = [at |-> Ends(parent.left), left |-> parent.left - 1,
                  speed |-> parent.speed + Head(pipe).speed,
                  failed |-> parent.failed + Head(pipe).failed]
    /\ pipe' = Tail(pipe)
    /\ UNCHANGED <<force, child>>

\* a bug: the sum is the last child's
CollectLast ==
    /\ parent.at = "collect" /\ pipe # <<>>
    /\ parent' = [at |-> Ends(parent.left - 1), left |-> parent.left - 1,
                  speed |-> Head(pipe).speed, failed |-> Head(pipe).failed]
    /\ pipe' = Tail(pipe)
    /\ UNCHANGED <<force, child>>

\* a report, or waiting for one: the parent has the pipe's other end open too,
\* and so never reads its end
Collect ==
    /\ parent.at = "collect" /\ pipe # <<>>
    /\ parent' = [at |-> Ends(parent.left - 1), left |-> parent.left - 1,
                  speed |-> parent.speed + Head(pipe).speed,
                  failed |-> parent.failed + Head(pipe).failed]
    /\ pipe' = Tail(pipe)
    /\ UNCHANGED <<force, child>>

-----------------------------------------------------------------------------
Init ==
    /\ force \in BOOLEAN
    /\ parent = [at |-> "probe", left |-> Clients, speed |-> 0, failed |-> 0]
    /\ pipe = <<>>
    /\ at = [k \in Children |-> "unborn"] /\ alarm = [k \in Children |-> "unset"]
    /\ count = [k \in Children |-> [speed |-> 0, failed |-> 0]]
    /\ whole = [k \in Children |-> 0] /\ refused = [k \in Children |-> 0]

ParentStep == Probe \/ Fork \/ Collect

Own(k) == \/ SetAlarm(k) \/ Top(k) \/ Connect(k) \/ Write(k) \/ Check(k) \/ Close(k)
          \/ Report(k)

Next == \/ ParentStep
        \/ \E k \in Children : Own(k) \/ Read(k) \/ Alarm(k) \/ Die(k)

\* every process runs, and every timer runs out; only a read may last for ever
Fairness == /\ WF_vars(ParentStep)
            /\ \A k \in Children : WF_vars(Own(k)) /\ WF_vars(Alarm(k))

Spec == Init /\ [][Next]_vars /\ Fairness

-----------------------------------------------------------------------------
Gone == {k \in Children : at[k] = "gone"}

Sum(f, S) == SumFunctionOnSet(f, S)

Speeds(r)   == [i \in DOMAIN r |-> r[i].speed]
Failures(r) == [i \in DOMAIN r |-> r[i].failed]

(* Type correctness; no count is below zero.                               *)
TypeOK ==
    /\ force \in BOOLEAN
    /\ parent \in [at : {"probe", "fork", "collect", "done", "failed"},
                   left : 0 .. Clients, speed : Nat, failed : Nat]
    /\ \A i \in DOMAIN pipe : pipe[i] \in [speed : Nat, failed : Nat]
    /\ Len(pipe) <= Clients
    /\ at \in [Children -> {"unborn", "sleep", "top", "connect", "write", "check", "read",
                            "close", "cut", "report", "gone", "dead"}]
    /\ alarm \in [Children -> {"unset", "set", "fired"}]
    /\ count \in [Children -> [speed : Nat, failed : Nat]]
    /\ whole \in [Children -> Nat] /\ refused \in [Children -> Nat]

(* What a child reports is off by at most one page and one failure: a      *)
(* request that the alarm interrupted is not counted as failed, one that   *)
(* it cut off between two reads is counted as a page, and when it          *)
(* interrupted none, a failure of the server's is taken back in its stead  *)
(* (webbench.c:417-420, 434, 450).                                         *)
Corrected ==
    \A k \in Gone :
       LET less == IF refused[k] > 0 THEN refused[k] - 1 ELSE 0
       IN  \/ count[k] = [speed |-> whole[k], failed |-> refused[k]]
           \/ count[k] \in [speed : {whole[k], whole[k] + 1}, failed : {less}]

(* The parent's sums, and what lies in the pipe, are those of the children *)
(* that have reported, each once, in whatever order, while it forks, adds  *)
(* up or has left; and when it is done, all of them have                   *)
(* (webbench.c:341-360, 375-385).                                          *)
Totals ==
    /\ parent.left = Clients - (Cardinality(Gone) - Len(pipe))
    /\ parent.at = "done" => Gone = Children
    /\ parent.speed + Sum(Speeds(pipe), DOMAIN pipe) = Sum(Speeds(count), Gone)
    /\ parent.failed + Sum(Failures(pipe), DOMAIN pipe) = Sum(Failures(count), Gone)

(* A benchmark ends, however the server answers, unless a child dies, or   *)
(* one's alarm falls between its check and a read that nobody answers      *)
(* (webbench.c:375-379, 434-435).                                          *)
Finishes ==
    parent.at = "collect" ~>
       \/ parent.at = "done"
       \/ \E k \in Children : at[k] = "dead" \/ (at[k] = "read" /\ alarm[k] = "fired")
=============================================================================
