---------------------------- MODULE HttpExchange ----------------------------
(***************************************************************************)
(* A Connection with the message callback of HttpServer or of EchoServer:  *)
(* what recv found in the socket is parsed as it is, and the reply is what *)
(* the client will see of it.                                              *)
(***************************************************************************)
EXTENDS ConnectionIO, HttpContext

CONSTANT Prefix   \* bytes EchoServer puts before what it echoes

ASSUME PrefixAssumption == Prefix \in Nat \ {0}
ASSUME BoundsAssumption == MaxSent <= MaxBytes
ASSUME FitAssumption ==
    6 \in ReplySizes /\ \A n \in 0 .. MaxBytes : Prefix + n \in ReplySizes

VARIABLE server   \* which server the client is connected to

exchangeVars == <<ioVars, vars, server>>

\* the lines of the response to a request, of which RequestFile knows one body
GetAsString(status) ==
    <<status, "Connection: close", "Content-Length", "Content-Type", "empty line",
      "hello world">>

\* the HttpContext as it is constructed
Fresh == /\ cur' = 0 /\ start' = 0 /\ colon' = 0
         /\ state' = "START" /\ padded' = FALSE
         /\ seen' = {} /\ last' = <<0, 0>>
         /\ url' = "none" /\ method' = "INVALID"
         /\ length' = None /\ body' = None
         /\ reply' = None /\ form' = "start"

\* the Buffer a callback is given is recv_buffer_
Receive ==
    /\ Recv
    /\ end' = IF place' = "callback" THEN size ELSE end
    /\ UNCHANGED <<parserVars, requestVars, reply, form, server>>

\* a step of the parser, and then of the callback's choice of a status
Parse ==
    /\ place = "callback" /\ server = "HttpServer"
    /\ Next
    /\ UNCHANGED <<ioVars, server>>

\* SendMessage; the request and its parser are not looked at again
Answer ==
    /\ server = "HttpServer"
    /\ reply \in {"k200K", "k400BadRequest"}
    /\ Respond(Len(GetAsString(reply)))
    /\ Fresh /\ end' = 0
    /\ UNCHANGED server

Fail ==
    /\ server = "HttpServer"
    /\ reply = "exception"
    /\ Throw
    /\ UNCHANGED <<vars, server>>

Echo ==
    /\ server = "EchoServer"
    /\ Respond(Prefix + end)
    /\ end' = 0
    /\ UNCHANGED <<parserVars, requestVars, reply, form, server>>

Pass == Passes /\ UNCHANGED <<vars, server>>

ExchangeInit == /\ IOInit
                /\ Init /\ end = 0
                /\ server \in {"HttpServer", "EchoServer"}

ExchangeNext == Pass \/ Receive \/ Parse \/ Answer \/ Fail \/ Echo

ExchangeSpec == ExchangeInit /\ [][ExchangeNext]_exchangeVars

-----------------------------------------------------------------------------
(* Type correctness of the whole, and that a callback is at work on the    *)
(* Buffer that RecvMessage filled (Connection.cpp:30).                     *)
ExchangeTypeOK == /\ IOTypeOK /\ TypeOK
                  /\ server \in {"HttpServer", "EchoServer"}
                  /\ place = "callback" => end = size
=============================================================================
