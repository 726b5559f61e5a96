---------------------------- MODULE ConnectionIO ----------------------------
(***************************************************************************)
(* One Connection and its client, from the client's first byte to the      *)
(* close: RecvMessage's loop, the message callback, SendMessage's loop and *)
(* the end of the socket, over TCP.                                        *)
(*                                                                         *)
(* A byte the client sends is counted, a byte of the reply is its place in *)
(* the Buffer given to SendMessage.  The callback is any that makes one    *)
(* reply or throws; what the two servers' callbacks do is in HttpExchange. *)
(***************************************************************************)
EXTENDS Integers, Sequences

CONSTANTS MaxSent,     \* bound: bytes a client sends
          RecvMax,     \* TCP_SERVER_MAX_RECV
          SndBuf,      \* bytes of a reply the two sockets hold for the client
          ReplySizes   \* how long a callback's reply may be

ASSUME RecvMaxAssumption == RecvMax \in Nat \ {0}
ASSUME SndBufAssumption == SndBuf \in Nat \ {0}
ASSUME MaxSentAssumption == MaxSent \in Nat
ASSUME ReplySizesAssumption == ReplySizes \subseteq Nat \ {0}

VARIABLES
    place,    \* where the server is with this Connection
    sent,     \* bytes the client has sent
    unread,   \* bytes in the server's socket
    size,     \* bytes in recv_buffer_
    peer,     \* "open", "fin", "reset", "broken" (reset after its FIN)
    data,     \* bytes of the reply before SendMessage's pointer
    left,     \* and from it on
    stream,   \* what has been sent to the client, in order
    taken,    \* bytes of it the client has taken
    ending,   \* what the client finds after it: "none" yet, "fin", "reset"
    late      \* history: the client sent when RecvMessage had returned

toServer == <<sent, unread, peer>>
toClient == <<stream, taken, ending>>
ioVars   == <<place, toServer, size, data, left, toClient, late>>

Receiving == {"poll", "recv"}
Places == Receiving \cup {"callback", "send", "closing", "closed", "threw", "crashed"}

\* while the callback computes it asks nothing of the socket, so what the client
\* does meanwhile is left until it is done
Watched == place # "callback"

\* what the server's kernel had not passed on goes with a reset
Cut == stream' \in {SubSeq(stream, 1, k) : k \in taken .. Len(stream)}

-----------------------------------------------------------------------------
(* The client; EchoClient is one that sends once, takes once and closes.   *)

\* n bytes arrive; a closed socket answers them with a reset.  Bound: MaxSent,
\* and one byte that comes too late
Arrive(n) ==
    /\ Watched /\ place # "crashed" /\ peer = "open" /\ ending # "reset"
    /\ sent + n <= MaxSent
    /\ place \in Receiving \/ (~late /\ n = 1)
    /\ sent' = sent + n
    /\ late' = (place \notin Receiving)
    /\ IF place = "closed"
       THEN ending' = "reset" /\ Cut /\ UNCHANGED unread
       ELSE unread' = unread + n /\ UNCHANGED <<stream, ending>>
    /\ UNCHANGED <<place, size, peer, data, left, taken>>

\* the client ends its side, or resets; after a FIN a reset is a broken pipe
Leaves(how) ==
    /\ Watched
    /\ \/ peer = "open" /\ how \in {"fin", "reset"}
       \/ peer = "fin" /\ how = "broken"
    /\ peer' = how
    /\ UNCHANGED <<place, sent, unread, size, data, left, toClient, late>>

Takes ==
    /\ Watched
    /\ taken' \in taken + 1 .. Len(stream)
    /\ UNCHANGED <<place, toServer, size, data, left, stream, ending, late>>

ClientActs == \/ \E n \in 1 .. MaxSent : Arrive(n)
              \/ \E how \in {"fin", "reset", "broken"} : Leaves(how)
              \/ Takes

-----------------------------------------------------------------------------
(* The server.                                                             *)

\* the event reaches the read callback, which makes a new recv_buffer_
Event ==
    /\ place = "poll"
    /\ unread > 0 \/ peer # "open"
    /\ place' = "recv"
    /\ UNCHANGED <<toServer, size, data, left, toClient, late>>

\* a bug: one recv is taken to have received everything
RecvOnce ==
    /\ place = "recv"
    /\ IF unread > 0
       THEN LET n == IF unread < RecvMax THEN unread ELSE RecvMax IN
               /\ unread' = unread - n
               /\ size' = size + n
               /\ place' = "callback"
       ELSE /\ place' = IF peer = "open" THEN "callback" ELSE "closing"
            /\ UNCHANGED <<unread, size>>
    /\ UNCHANGED <<sent, peer, data, left, toClient, late>>

\* a bug: the whole array is appended, whatever recv returned
RecvWholeArray ==
    /\ place = "recv"
    /\ IF unread > 0
       THEN LET n == IF unread < RecvMax THEN unread ELSE RecvMax IN
               /\ unread' = unread - n
               /\ size' = size + RecvMax
               /\ UNCHANGED place
       ELSE /\ place' = IF peer = "open" THEN "callback" ELSE "closing"
            /\ UNCHANGED <<unread, size>>
    /\ UNCHANGED <<sent, peer, data, left, toClient, late>>

\* one recv of RecvMessage: what it returns is appended and the loop goes on;
\* EAGAIN is the end of the message, end of file and errors the end of all
Recv ==
    /\ place = "recv"
    /\ IF unread > 0
       THEN LET n == IF unread < RecvMax THEN unread ELSE RecvMax IN
               /\ unread' = unread - n
               /\ size' = size + n
               /\ UNCHANGED place
       ELSE /\ place' = IF peer = "open" THEN "callback" ELSE "closing"
            /\ UNCHANGED <<unread, size>>
    /\ UNCHANGED <<sent, peer, data, left, toClient, late>>

\* the callback calls SendMessage with a Buffer of n bytes
Respond(n) ==
    /\ place = "callback"
    /\ place' = "send"
    /\ left' = n
    /\ UNCHANGED <<toServer, size, data, toClient, late>>

\* the callback throws, and nothing closes the Connection any more
Throw ==
    /\ place = "callback"
    /\ place' = "threw"
    /\ UNCHANGED <<toServer, size, data, left, toClient, late>>

Room == SndBuf - (Len(stream) - taken)

\* a bug: the length is not what is left of the Buffer
SendPast(n) ==
    /\ place = "send" /\ left > 0 /\ peer \in {"open", "fin"}
    /\ n <= Room
    /\ stream' = stream \o [i \in 1 .. n |-> data + i]
    /\ data' = data + n
    /\ left' = left - n
    /\ UNCHANGED <<place, toServer, size, taken, ending, late>>

\* one send of SendMessage, which may take a part of what is left
Send(n) ==
    /\ place = "send" /\ left > 0 /\ peer \in {"open", "fin"}
    /\ n <= left /\ n <= Room
    /\ stream' = stream \o [i \in 1 .. n |-> data + i]
    /\ data' = data + n
    /\ left' = left - n
    /\ UNCHANGED <<place, toServer, size, taken, ending, late>>

\* a bug: one send is taken to have sent everything
SendOnce ==
    /\ place = "send"
    /\ \/ data > 0 \/ left = 0
       \/ peer \in {"open", "fin"} /\ Room = 0
       \/ peer = "reset"
    /\ place' = "closing"
    /\ UNCHANGED <<toServer, size, data, left, toClient, late>>

\* the loop ends: nothing is left, EAGAIN, or an error
SendEnds ==
    /\ place = "send"
    /\ \/ left = 0
       \/ peer \in {"open", "fin"} /\ Room = 0
       \/ peer = "reset"
    /\ place' = "closing"
    /\ UNCHANGED <<toServer, size, data, left, toClient, late>>

\* a broken pipe raises SIGPIPE, which nothing handles
SendBreaks ==
    /\ place = "send" /\ left > 0 /\ peer = "broken"
    /\ place' = "crashed"
    /\ UNCHANGED <<toServer, size, data, left, toClient, late>>

\* close_callback_ and what follows it: the socket is closed, and a socket with
\* unread bytes is closed by a reset
CloseSocket ==
    /\ place = "closing"
    /\ place' = "closed"
    /\ IF unread > 0
       THEN ending' = "reset" /\ Cut
       ELSE ending' = "fin" /\ UNCHANGED stream
    /\ UNCHANGED <<toServer, size, data, left, taken, late>>

\* the steps the callback and its Buffer have no part in
Passes == \/ ClientActs \/ Event \/ SendEnds \/ SendBreaks \/ CloseSocket
          \/ \E n \in 1 .. SndBuf : Send(n)

CallsBack == Throw \/ \E n \in ReplySizes : Respond(n)

IOInit == /\ place = "poll"
          /\ sent = 0 /\ unread = 0 /\ size = 0 /\ peer = "open"
          /\ data = 0 /\ left = 0
          /\ stream = <<>> /\ taken = 0 /\ ending = "none"
          /\ late = FALSE

IOSpec == IOInit /\ [][Passes \/ Recv \/ CallsBack]_ioVars

-----------------------------------------------------------------------------
(* Type correctness.                                                       *)
IOTypeOK ==
    /\ place \in Places
    /\ sent \in 0 .. MaxSent /\ unread \in 0 .. sent /\ size \in Nat
    /\ peer \in {"open", "fin", "reset", "broken"}
    /\ data \in Nat /\ left \in Nat
    /\ stream \in Seq(Nat) /\ taken \in 0 .. Len(stream)
    /\ ending \in {"none", "fin", "reset"}
    /\ late \in BOOLEAN

(* The callback is given every byte the client had sent when the socket    *)
(* ran dry, and no other: the rest of a request that is still under way is *)
(* not waited for, but no part of what was there stays behind              *)
(* (Connection.cpp:77,83).                                                 *)
HandsOverAll == place = "callback" => size = sent /\ size > 0 /\ ~late

(* The client takes the bytes of one reply, each once and in order, however*)
(* the sends divided it; and a server that closed on a client that was     *)
(* still there has sent all of it, unless it is longer than the two sockets*)
(* hold (Connection.cpp:53,59,66).                                         *)
WholeReply ==
    /\ \A i \in DOMAIN stream : stream[i] = i
    /\ place \in {"closing", "closed"} /\ peer = "open" =>
          /\ data + left > 0
          /\ data + left <= SndBuf => left = 0

(* A reset, which may take the reply from the client, is only for clients  *)
(* that sent more when the socket had run dry: all others find a FIN       *)
(* behind the whole of what was sent (Connection.cpp:83,69).               *)
ResetOnlyLate ==
    /\ ending = "reset" => late
    /\ ending = "fin" => Len(stream) = data
=============================================================================
