------------------------- MODULE HttpExchangeProofs -------------------------
(***************************************************************************)
(* Theorems about ConnectionIO and HttpExchange, for any number of bytes,  *)
(* any sizes of the buffers and any replies: what RecvMessage hands over,  *)
(* what the client gets of a reply, and that both servers are instances.   *)
(***************************************************************************)
EXTENDS HttpExchange, HttpContextProofs, SequenceTheorems

USE RecvMaxAssumption, SndBufAssumption, MaxSentAssumption, ReplySizesAssumption

-----------------------------------------------------------------------------
(* The invariant of ConnectionIO.                                          *)

\* nothing is answered before the callback, and what came too late is marked
Phases ==
    /\ place \in Receiving => size + unread = sent /\ ~late
    /\ place = "poll" => size = 0
    /\ place = "recv" /\ peer = "open" => sent > 0
    /\ place \in Receiving \cup {"callback"} => data = 0 /\ left = 0 /\ stream = <<>>
    /\ place = "send" => data + left > 0
    /\ place \in {"callback", "send", "closing"} /\ unread > 0 => late
    /\ place # "closed" => ending = "none"
    /\ ending # "reset" => Len(stream) = data

IOSafe == IOTypeOK /\ HandsOverAll /\ WholeReply /\ ResetOnlyLate /\ Phases

LEMMA IOInitSafe == IOInit => IOSafe
<1> SUFFICES ASSUME IOInit PROVE IOSafe
    OBVIOUS
<1> USE DEF IOInit
<1>1. stream \in Seq(Nat) /\ Len(stream) = 0
    OBVIOUS
<1>2. IOTypeOK
  <2>1. sent \in 0 .. MaxSent /\ unread \in 0 .. sent /\ taken \in 0 .. Len(stream)
    BY <1>1
  <2> QED
    BY <1>1, <2>1 DEF IOTypeOK, Places, Receiving
<1>3. HandsOverAll /\ WholeReply /\ ResetOnlyLate /\ Phases
    BY <1>1 DEF HandsOverAll, WholeReply, ResetOnlyLate, Phases, Receiving
<1> QED
    BY <1>2, <1>3 DEF IOSafe

\* what is left of the stream when it is cut
LEMMA CutIs ==
    ASSUME IOTypeOK, Cut
    PROVE  /\ stream' \in Seq(Nat) /\ taken \in 0 .. Len(stream')
           /\ \A i \in DOMAIN stream' : i \in DOMAIN stream /\ stream'[i] = stream[i]
<1>1. PICK k \in taken .. Len(stream) : stream' = SubSeq(stream, 1, k)
    BY DEF Cut
<1>2. stream \in Seq(Nat) /\ Len(stream) \in Nat /\ taken \in Nat /\ k \in 0 .. Len(stream)
    BY DEF IOTypeOK
<1>3. /\ stream' \in Seq(Nat) /\ Len(stream') = k
      /\ \A i \in 1 .. k : stream'[i] = stream[i]
    BY <1>1, <1>2, SubSeqProperties
<1> QED
    BY <1>2, <1>3

\* the client, one lemma for what it can do
LEMMA ArriveSafe ==
    ASSUME IOSafe, NEW n \in Nat \ {0}, Arrive(n)
    PROVE  IOSafe'
<1> USE DEF IOSafe
<1>1. /\ place # "callback" /\ peer = "open" /\ ending # "reset" /\ sent + n <= MaxSent
      /\ sent' = sent + n /\ late' = (place \notin Receiving)
      /\ UNCHANGED <<place, size, peer, data, left, taken>>
    BY DEF Arrive, Watched
<1>2. /\ sent \in Nat /\ unread \in 0 .. sent /\ size \in Nat /\ n \in Nat /\ n > 0
      /\ data \in Nat /\ left \in Nat /\ taken \in Nat /\ Len(stream) \in Nat
    BY DEF IOTypeOK
<1>3. CASE place = "closed" /\ ending' = "reset" /\ Cut /\ unread' = unread
  <2>1. /\ stream' \in Seq(Nat) /\ taken \in 0 .. Len(stream')
        /\ \A i \in DOMAIN stream' : i \in DOMAIN stream /\ stream'[i] = stream[i]
    BY <1>3, CutIs
  <2>2. place \notin Receiving
    BY <1>3 DEF Receiving
  <2>3. sent' \in 0 .. MaxSent /\ unread' \in 0 .. sent'
    BY <1>1, <1>2, <1>3
  <2>4. IOTypeOK'
    BY <1>1, <1>3, <2>1, <2>2, <2>3 DEF IOTypeOK
  <2>5. HandsOverAll' /\ ResetOnlyLate'
    BY <1>1, <1>3, <2>2 DEF HandsOverAll, ResetOnlyLate
  <2>6. WholeReply'
    BY <1>1, <2>1 DEF WholeReply
  <2>7. Phases'
    BY <1>1, <1>3, <2>2 DEF Phases, Receiving
  <2> QED
    BY <2>4, <2>5, <2>6, <2>7
<1>4. CASE place # "closed" /\ unread' = unread + n /\ UNCHANGED <<stream, ending>>
  <2>1. sent' \in 0 .. MaxSent /\ unread' \in 0 .. sent'
    BY <1>1, <1>2, <1>4
  <2>2. IOTypeOK'
    BY <1>1, <1>4, <2>1 DEF IOTypeOK
  <2>3. HandsOverAll' /\ WholeReply'
    BY <1>1, <1>4 DEF HandsOverAll, WholeReply
  <2>4. ending = "none"
    BY <1>4 DEF Phases
  <2>5. ResetOnlyLate'
    BY <1>4, <2>4 DEF ResetOnlyLate
  <2>6. Phases'
    <3>0. place \in Receiving => ~late'
        BY <1>1, Zenon
    <3>1. place \in Receiving => size + unread' = sent'
      <4>1. place \in Receiving => size + unread = sent
        BY DEF Phases
      <4> QED
        BY <1>1, <1>2, <1>4, <4>1
    <3>2. place = "recv" => sent' > 0
        BY <1>1, <1>2
    <3>3. place \notin Receiving => late'
        BY <1>1
    <3> QED
        BY <1>1, <1>4, <3>0, <3>1, <3>2, <3>3 DEF Phases, Receiving
  <2> QED
    BY <2>2, <2>3, <2>5, <2>6
<1> QED
    BY <1>3, <1>4 DEF Arrive

LEMMA ClientSafe ==
    ASSUME IOSafe, ClientActs
    PROVE  IOSafe'
<1> USE DEF IOSafe
<1>1. ASSUME NEW how, Leaves(how) PROVE IOSafe'
  <2>1. /\ peer' = how /\ how \in {"fin", "reset", "broken"} /\ place # "callback"
        /\ UNCHANGED <<place, sent, unread, size, data, left, stream, taken, ending, late>>
    BY <1>1 DEF Leaves, toClient, Watched
  <2>2. IOTypeOK'
    BY <2>1 DEF IOTypeOK
  <2>3. HandsOverAll' /\ WholeReply' /\ ResetOnlyLate' /\ Phases'
    BY <2>1 DEF HandsOverAll, WholeReply, ResetOnlyLate, Phases
  <2> QED
    BY <2>2, <2>3
<1>2. CASE Takes
  <2>1. /\ taken' \in taken + 1 .. Len(stream)
        /\ UNCHANGED <<place, sent, unread, size, peer, data, left, stream, ending, late>>
    BY <1>2 DEF Takes, toServer
  <2>2. taken' \in 0 .. Len(stream)
    BY <2>1 DEF IOTypeOK
  <2>3. IOTypeOK'
    BY <2>1, <2>2 DEF IOTypeOK
  <2>4. HandsOverAll' /\ WholeReply' /\ ResetOnlyLate' /\ Phases'
    BY <2>1 DEF HandsOverAll, WholeReply, ResetOnlyLate, Phases
  <2> QED
    BY <2>3, <2>4
<1> QED
    BY <1>1, <1>2, ArriveSafe DEF ClientActs

LEMMA EventSafe ==
    ASSUME IOSafe, Event
    PROVE  IOSafe'
<1> USE DEF IOSafe
<1>1. /\ place = "poll" /\ place' = "recv" /\ (unread > 0 \/ peer # "open")
      /\ UNCHANGED <<sent, unread, size, peer, data, left, stream, taken, ending, late>>
    BY DEF Event, toServer, toClient
<1>2. sent \in Nat /\ unread \in 0 .. sent
    BY DEF IOTypeOK
<1>3. unread > 0 => sent > 0
    BY <1>2
<1>4. IOTypeOK'
    BY <1>1 DEF IOTypeOK, Places, Receiving
<1>5. HandsOverAll' /\ WholeReply' /\ ResetOnlyLate'
    BY <1>1 DEF HandsOverAll, WholeReply, ResetOnlyLate
<1>6. Phases'
    BY <1>1, <1>3 DEF Phases, Receiving
<1> QED
    BY <1>4, <1>5, <1>6

LEMMA RecvSafe ==
    ASSUME IOSafe, Recv
    PROVE  IOSafe'
<1> USE DEF IOSafe
<1>1. /\ place = "recv"
      /\ UNCHANGED <<sent, peer, data, left, stream, taken, ending, late>>
    BY DEF Recv, toClient
<1>2. /\ sent \in Nat /\ unread \in 0 .. sent /\ size \in Nat
      /\ size + unread = sent /\ ~late /\ data = 0 /\ left = 0 /\ stream = <<>>
      /\ ending = "none" /\ (peer = "open" => sent > 0)
    BY <1>1 DEF IOTypeOK, Phases, Receiving
<1>3. CASE unread > 0
  <2>1. PICK n \in Nat : n <= unread /\ unread' = unread - n /\ size' = size + n /\ place' = place
    <3> DEFINE n == IF unread < RecvMax THEN unread ELSE RecvMax
    <3>1. n \in Nat /\ n <= unread
        BY <1>2
    <3>2. unread' = unread - n /\ size' = size + n /\ place' = place
        BY <1>3 DEF Recv
    <3> HIDE DEF n
    <3> QED
        BY <3>1, <3>2
  <2>2. unread' \in 0 .. sent /\ size' \in Nat /\ size' + unread' = sent
    BY <1>2, <2>1
  <2>3. IOTypeOK'
    BY <1>1, <2>1, <2>2 DEF IOTypeOK
  <2>4. HandsOverAll' /\ WholeReply' /\ ResetOnlyLate'
    BY <1>1, <2>1 DEF HandsOverAll, WholeReply, ResetOnlyLate
  <2>5. Phases'
    BY <1>1, <1>2, <2>1, <2>2 DEF Phases, Receiving
  <2> QED
    BY <2>3, <2>4, <2>5
<1>4. CASE ~(unread > 0)
  <2>1. /\ place' = IF peer = "open" THEN "callback" ELSE "closing"
        /\ UNCHANGED <<unread, size>>
    BY <1>4 DEF Recv
  <2>2. unread = 0 /\ size = sent
    BY <1>2, <1>4
  <2>3. IOTypeOK'
    BY <1>1, <2>1 DEF IOTypeOK, Places, Receiving
  <2>4. HandsOverAll' /\ ResetOnlyLate'
    BY <1>1, <1>2, <2>1, <2>2 DEF HandsOverAll, ResetOnlyLate
  <2>5. WholeReply'
    BY <1>1, <1>2, <2>1 DEF WholeReply
  <2>6. Phases'
    BY <1>1, <1>2, <2>1, <2>2 DEF Phases, Receiving
  <2> QED
    BY <2>3, <2>4, <2>5, <2>6
<1> QED
    BY <1>3, <1>4

LEMMA CallbackSafe ==
    ASSUME IOSafe, CallsBack
    PROVE  IOSafe'
<1> USE DEF IOSafe
<1>1. /\ place = "callback"
      /\ UNCHANGED <<sent, unread, size, peer, data, stream, taken, ending, late>>
      /\ \/ place' = "threw" /\ left' = left
         \/ place' = "send" /\ left' \in Nat \ {0}
    BY DEF CallsBack, Throw, Respond, toServer, toClient
<1>2. data = 0 /\ left = 0 /\ stream = <<>> /\ ending = "none" /\ (unread > 0 => late)
    BY <1>1 DEF Phases
<1>3. IOTypeOK'
    BY <1>1 DEF IOTypeOK, Places, Receiving
<1>4. HandsOverAll' /\ WholeReply' /\ ResetOnlyLate'
    BY <1>1, <1>2 DEF HandsOverAll, WholeReply, ResetOnlyLate
<1>5. Phases'
    BY <1>1, <1>2 DEF Phases, Receiving
<1> QED
    BY <1>3, <1>4, <1>5

LEMMA SendSafe ==
    ASSUME IOSafe, NEW n \in Nat \ {0}, Send(n)
    PROVE  IOSafe'
<1> USE DEF IOSafe
<1>1. /\ place = "send" /\ n <= left
      /\ stream' = stream \o [i \in 1 .. n |-> data + i]
      /\ data' = data + n /\ left' = left - n
      /\ UNCHANGED <<place, sent, unread, size, peer, taken, ending, late>>
    BY DEF Send, toServer
<1>2. /\ data \in Nat /\ left \in Nat /\ stream \in Seq(Nat) /\ taken \in 0 .. Len(stream)
      /\ ending = "none" /\ Len(stream) = data /\ (unread > 0 => late)
    BY <1>1 DEF IOTypeOK, Phases
<1>3. /\ stream' \in Seq(Nat) /\ Len(stream') = data + n
      /\ \A i \in 1 .. data + n : stream'[i] = IF i <= data THEN stream[i] ELSE i
  <2> DEFINE t == [i \in 1 .. n |-> data + i]
  <2>1. t \in Seq(Nat) /\ Len(t) = n
    BY <1>2
  <2>2. \A i \in 1 .. n : t[i] = data + i
    OBVIOUS
  <2> HIDE DEF t
  <2>3. /\ stream \o t \in Seq(Nat) /\ Len(stream \o t) = data + n
        /\ \A i \in 1 .. data + n :
              (stream \o t)[i] = IF i <= data THEN stream[i] ELSE t[i - data]
    BY <1>2, <2>1, ConcatProperties
  <2>4. \A i \in 1 .. data + n : ~(i <= data) => i - data \in 1 .. n /\ data + (i - data) = i
    BY <1>2
  <2>5. stream' = stream \o t
    BY <1>1 DEF t
  <2> QED
    BY <2>2, <2>3, <2>4, <2>5
<1>4. IOTypeOK'
  <2>1. taken' \in 0 .. Len(stream') /\ data' \in Nat /\ left' \in Nat
    BY <1>1, <1>2, <1>3
  <2> QED
    BY <1>1, <1>3, <2>1 DEF IOTypeOK
<1>5. HandsOverAll' /\ ResetOnlyLate'
    BY <1>1, <1>2 DEF HandsOverAll, ResetOnlyLate
<1>6. WholeReply'
  <2>1. \A i \in 1 .. data : stream[i] = i
    BY <1>2 DEF WholeReply
  <2>2. \A i \in 1 .. data + n : stream'[i] = i
    BY <1>2, <1>3, <2>1
  <2> QED
    BY <1>1, <1>3, <2>2 DEF WholeReply
<1>7. Phases'
  <2>1. data' + left' > 0 /\ Len(stream') = data'
    BY <1>1, <1>2, <1>3
  <2> QED
    BY <1>1, <1>2, <2>1 DEF Phases, Receiving
<1> QED
    BY <1>4, <1>5, <1>6, <1>7

\* SendMessage gives up on a client that is there only with the sockets full
LEMMA SendEndsSafe ==
    ASSUME IOSafe, SendEnds \/ SendBreaks
    PROVE  IOSafe'
<1> USE DEF IOSafe
<1>1. /\ place = "send" /\ place' \in {"closing", "crashed"}
      /\ UNCHANGED <<sent, unread, size, peer, data, left, stream, taken, ending, late>>
      /\ place' = "closing" /\ peer = "open" => left = 0 \/ Room = 0
    BY DEF SendEnds, SendBreaks, toServer, toClient
<1>2. /\ data \in Nat /\ left \in Nat /\ taken \in 0 .. Len(stream) /\ data + left > 0
      /\ ending = "none" /\ Len(stream) = data /\ (unread > 0 => late)
    BY <1>1 DEF IOTypeOK, Phases
<1>3. Room = 0 /\ data + left <= SndBuf => left = 0
    BY <1>2 DEF Room
<1>4. IOTypeOK'
    BY <1>1 DEF IOTypeOK, Places
<1>5. HandsOverAll' /\ ResetOnlyLate'
    BY <1>1 DEF HandsOverAll, ResetOnlyLate
<1>6. WholeReply'
    BY <1>1, <1>2, <1>3 DEF WholeReply
<1>7. Phases'
    BY <1>1, <1>2 DEF Phases, Receiving
<1> QED
    BY <1>4, <1>5, <1>6, <1>7

LEMMA CloseSafe ==
    ASSUME IOSafe, CloseSocket
    PROVE  IOSafe'
<1> USE DEF IOSafe
<1>1. /\ place = "closing" /\ place' = "closed"
      /\ UNCHANGED <<sent, unread, size, peer, data, left, taken, late>>
      /\ \/ unread > 0 /\ ending' = "reset" /\ Cut
         \/ ending' = "fin" /\ stream' = stream
    BY DEF CloseSocket, toServer
<1>2. Len(stream) = data /\ (unread > 0 => late)
    BY <1>1 DEF Phases
<1>3. /\ stream' \in Seq(Nat) /\ taken \in 0 .. Len(stream')
      /\ \A i \in DOMAIN stream' : i \in DOMAIN stream /\ stream'[i] = stream[i]
    BY <1>1, CutIs DEF IOTypeOK
<1>4. IOTypeOK'
    BY <1>1, <1>3 DEF IOTypeOK, Places
<1>5. HandsOverAll' /\ ResetOnlyLate'
    BY <1>1, <1>2 DEF HandsOverAll, ResetOnlyLate
<1>6. WholeReply'
    BY <1>1, <1>3 DEF WholeReply
<1>7. Phases'
    BY <1>1, <1>2 DEF Phases, Receiving
<1> QED
    BY <1>4, <1>5, <1>6, <1>7

LEMMA IOStepSafe == IOSafe /\ [Passes \/ Recv \/ CallsBack]_ioVars => IOSafe'
<1> SUFFICES ASSUME IOSafe, [Passes \/ Recv \/ CallsBack]_ioVars PROVE IOSafe'
    OBVIOUS
<1>1. CASE UNCHANGED ioVars
    BY <1>1 DEF ioVars, toServer, toClient, IOSafe, IOTypeOK, HandsOverAll, WholeReply,
                ResetOnlyLate, Phases
<1>2. CASE Passes
    BY <1>2, ClientSafe, EventSafe, SendEndsSafe, CloseSafe, SendSafe DEF Passes
<1> QED
    BY <1>1, <1>2, RecvSafe, CallbackSafe

LEMMA AlwaysIOSafe == IOSpec => []IOSafe
BY IOInitSafe, IOStepSafe, PTL DEF IOSpec

\* Every counter of the buffers and the stream stays in its range, whatever callback
\* the Connection has, however long what it answers (IOTypeOK).
THEOREM IOTypeCorrect == IOSpec => []IOTypeOK
<1>1. IOSafe => IOTypeOK
    BY DEF IOSafe
<1> QED
    BY <1>1, AlwaysIOSafe, PTL

\* When RecvMessage returns to call the callback it has taken all that the client had
\* sent before recv met EAGAIN, and nothing else (HandsOverAll; Connection.cpp:72-96).
THEOREM HandsOver == IOSpec => []HandsOverAll
<1>1. IOSafe => HandsOverAll
    BY DEF IOSafe
<1> QED
    BY <1>1, AlwaysIOSafe, PTL

\* The client gets a prefix of one reply, each byte once and in order, and all that the
\* buffers hold of it when the server closes (WholeReply; Connection.cpp:48-67).
THEOREM RepliesWhole == IOSpec => []WholeReply
<1>1. IOSafe => WholeReply
    BY DEF IOSafe
<1> QED
    BY <1>1, AlwaysIOSafe, PTL

\* The server's close is a reset only for a client that sent after RecvMessage had
\* returned (ResetOnlyLate; Connection.cpp:69-96).
THEOREM ResetsLate == IOSpec => []ResetOnlyLate
<1>1. IOSafe => ResetOnlyLate
    BY DEF IOSafe
<1> QED
    BY <1>1, AlwaysIOSafe, PTL

-----------------------------------------------------------------------------
(* The two servers.                                                        *)

USE MaxBytesAssumption, PrefixAssumption, BoundsAssumption, FitAssumption

\* a parser has not begun before the callback, and EchoServer has none
Unused == place \in Receiving \/ server = "EchoServer" => Init

ParserSafe == Safe /\ Matched /\ Answers /\ AnsweredWhole

ExchangeSafe == IOSafe /\ ParserSafe /\ Unused

LEMMA InitParser == Init => ParserSafe
BY InitSafe, InitMatched, InitAnswered DEF ParserSafe

LEMMA NextInitParser == Init' => ParserSafe'
BY InitParser, PTL

LEMMA StepParser == ParserSafe /\ [Next]_vars => ParserSafe'
BY StepSafe, StepMatched, StepAnswered DEF ParserSafe

LEMMA ExchangeInitSafe == ExchangeInit => ExchangeSafe
BY IOInitSafe, InitParser DEF ExchangeInit, ExchangeSafe, Unused

\* a step of either server is a step of a Connection with some callback
LEMMA StepIsIO ==
    ASSUME ExchangeSafe, [ExchangeNext]_exchangeVars
    PROVE  [Passes \/ Recv \/ CallsBack]_ioVars
<1>1. CASE UNCHANGED exchangeVars \/ Pass \/ Receive \/ Parse
    BY <1>1 DEF exchangeVars, Pass, Receive, Parse
<1>2. CASE Answer
  <2>1. Len(GetAsString(reply)) = 6
    BY DEF GetAsString
  <2>2. Respond(6)
    BY <1>2, <2>1 DEF Answer
  <2> QED
    BY <2>2 DEF CallsBack
<1>3. CASE Fail
    BY <1>3 DEF Fail, CallsBack
<1>4. CASE Echo
  <2>1. end \in 0 .. MaxBytes
    BY DEF ExchangeSafe, ParserSafe, Safe, TypeOK
  <2>2. Prefix + end \in ReplySizes /\ Respond(Prefix + end)
    BY <1>4, <2>1 DEF Echo
  <2> QED
    BY <2>2 DEF CallsBack
<1> QED
    BY <1>1, <1>2, <1>3, <1>4 DEF ExchangeNext

\* a parser is left as it is, makes a step of its own, or begins again
LEMMA StepIsParser ==
    ASSUME ExchangeSafe, [ExchangeNext]_exchangeVars
    PROVE  ([Next]_vars \/ Init') /\ Unused'
<1> USE DEF ExchangeSafe, Unused
<1>1. CASE UNCHANGED exchangeVars
  <2>1. UNCHANGED <<vars, place, server>>
    BY <1>1 DEF exchangeVars, ioVars
  <2>2. Init => Init'
    BY <2>1 DEF vars, parserVars, requestVars, Init
  <2> QED
    BY <2>1, <2>2
<1>2. CASE Pass
  <2>1. UNCHANGED <<vars, server>> /\ (place' \in Receiving => place \in Receiving)
    BY <1>2 DEF Pass, Passes, ClientActs, Arrive, Leaves, Takes, Event, SendEnds, SendBreaks,
                CloseSocket, Send, Receiving
  <2>2. Init => Init'
    BY <2>1 DEF vars, parserVars, requestVars, Init
  <2> QED
    BY <2>1, <2>2
<1>3. CASE Receive
  <2>1. place \in Receiving /\ Init
    BY <1>3 DEF Receive, Recv, Receiving
  <2>2. UNCHANGED <<parserVars, requestVars, reply, form, server>>
    BY <1>3 DEF Receive
  <2>3. (size' = size /\ size \in 0 .. MaxBytes) \/ place' # "callback"
    <3>1. place' = "callback" => size' = size /\ unread = 0
        BY <1>3 DEF Receive, Recv, IOSafe, IOTypeOK
    <3>2. size + unread = sent /\ sent \in 0 .. MaxSent /\ size \in Nat /\ unread \in Nat
        BY <2>1, <1>3 DEF Receive, Recv, IOSafe, IOTypeOK, Phases
    <3> QED
        BY <3>1, <3>2
  <2>4. end' \in 0 .. MaxBytes
    BY <1>3, <2>1, <2>3 DEF Receive, Init
  <2> QED
    BY <2>1, <2>2, <2>4 DEF Init, parserVars, requestVars
<1>4. CASE Parse
    BY <1>4 DEF Parse, ioVars, Receiving
<1>5. CASE Answer
    BY <1>5 DEF Answer, Fresh, Init
<1>6. CASE Fail
    BY <1>6 DEF Fail, Throw, Receiving
<1>7. CASE Echo
    BY <1>7 DEF Echo, Init, parserVars, requestVars
<1> QED
    BY <1>1, <1>2, <1>3, <1>4, <1>5, <1>6, <1>7 DEF ExchangeNext

LEMMA ExchangeStepSafe == ExchangeSafe /\ [ExchangeNext]_exchangeVars => ExchangeSafe'
<1> SUFFICES ASSUME ExchangeSafe, [ExchangeNext]_exchangeVars PROVE ExchangeSafe'
    OBVIOUS
<1>1. IOSafe'
    BY StepIsIO, IOStepSafe DEF ExchangeSafe
<1>2. ParserSafe'
    BY StepIsParser, StepParser, NextInitParser DEF ExchangeSafe
<1> QED
    BY <1>1, <1>2, StepIsParser DEF ExchangeSafe

LEMMA AlwaysExchangeSafe == ExchangeSpec => []ExchangeSafe
BY ExchangeInitSafe, ExchangeStepSafe, PTL DEF ExchangeSpec

\* Every variable of a Connection, its client, its server's callback and the parser
\* has its type, and the callback works on what was received (ExchangeTypeOK).
THEOREM ExchangeTypeCorrect == ExchangeSpec => []ExchangeTypeOK
<1> DEFINE Handed == /\ server \in {"HttpServer", "EchoServer"}
                     /\ place = "callback" => end = size
<1>1. ExchangeInit => Handed
    BY DEF ExchangeInit, IOInit
<1>2. Handed /\ [ExchangeNext]_exchangeVars => Handed'
  <2> SUFFICES ASSUME Handed, [ExchangeNext]_exchangeVars PROVE Handed'
    OBVIOUS
  <2>1. CASE UNCHANGED exchangeVars
    BY <2>1 DEF exchangeVars, ioVars, vars, toServer
  <2>2. CASE Pass
    <3>1. UNCHANGED <<server, end>>
        BY <2>2 DEF Pass, vars
    <3>2. size' = size /\ (place' = "callback" => place = "callback")
        BY <2>2 DEF Pass, Passes, ClientActs, Arrive, Leaves, Takes, Event, Send, SendEnds,
                    SendBreaks, CloseSocket
    <3> QED
        BY <3>1, <3>2
  <2>3. CASE Receive
    BY <2>3 DEF Receive, Recv
  <2>4. CASE Parse
    <3>1. end' = end
        BY <2>4 DEF Parse, Next, Read, SetPart, SetHeaders, EndHeaders, SetBody, Reply
    <3> QED
        BY <2>4, <3>1 DEF Parse, ioVars
  <2>5. CASE Answer \/ Fail \/ Echo
    BY <2>5 DEF Answer, Fail, Echo, Respond, Throw
  <2> QED
    BY <2>1, <2>2, <2>3, <2>4, <2>5 DEF ExchangeNext
<1>3. ExchangeSafe /\ Handed => ExchangeTypeOK
    BY DEF ExchangeSafe, IOSafe, ParserSafe, Safe, ExchangeTypeOK
<1> QED
    BY <1>1, <1>2, <1>3, AlwaysExchangeSafe, PTL DEF ExchangeSpec

\* HttpServer and EchoServer are instances of a Connection with some callback
\* (IOSpec), so what holds of any callback holds of theirs.
THEOREM BothServe == ExchangeSpec => IOSpec
<1>1. ExchangeInit => IOInit
    BY DEF ExchangeInit
<1>2. ExchangeSafe /\ [ExchangeNext]_exchangeVars => [Passes \/ Recv \/ CallsBack]_ioVars
    BY StepIsIO
<1> QED
    BY <1>1, <1>2, AlwaysExchangeSafe, PTL DEF ExchangeSpec, IOSpec

\* Whatever came of a request before the socket ran dry, HttpServer reads it inside
\* its buffer, answers 200 only to a whole head, and refuses no client
\* (TypeOK, RangesInBuffer, AnsweredWhole, CompleteBody, ClientUnderstood).
THEOREM ParsedAsReceived ==
    ExchangeSpec => [](TypeOK /\ RangesInBuffer /\ AnsweredWhole /\ CompleteBody
                       /\ ClientUnderstood)
<1>1. ExchangeSafe => TypeOK /\ RangesInBuffer /\ AnsweredWhole /\ CompleteBody
                     /\ ClientUnderstood
    BY MatchedUnderstood DEF ExchangeSafe, ParserSafe, Safe
<1> QED
    BY <1>1, AlwaysExchangeSafe, PTL

\* In an exchange, too, each part begins after the end of the one before it
\* (PartsInOrder).
THEOREM OrderKept == ExchangeSpec => PartsInOrder
<1>1. ExchangeSafe /\ [ExchangeNext]_exchangeVars =>
         [last' \notin {last, <<0, 0>>} => last'[1] >= last[2]]_vars
  <2> SUFFICES ASSUME ExchangeSafe, [ExchangeNext]_exchangeVars
               PROVE  last' \notin {last, <<0, 0>>} => last'[1] >= last[2]
    OBVIOUS
  <2>1. CASE [Next]_vars
    BY <2>1, StepSafe DEF ExchangeSafe, ParserSafe
  <2>2. CASE Init'
    BY <2>2 DEF Init
  <2> QED
    BY <2>1, <2>2, StepIsParser
<1> QED
    BY <1>1, AlwaysExchangeSafe, PTL DEF ExchangeSpec, PartsInOrder
=============================================================================
