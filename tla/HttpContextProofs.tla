------------------------- MODULE HttpContextProofs -------------------------
(***************************************************************************)
(* Theorems about HttpContext, for buffers of any size: what the parser    *)
(* copies lies in the buffer and in order, and what it calls complete is.  *)
(***************************************************************************)
EXTENDS HttpContext, TLAPS

USE MaxBytesAssumption, LengthsAssumption, NoneAssumption

\* where a state that reads a byte at a time can go
Edges ==
    [START |-> {"METHOD"}, METHOD |-> {"BEFORE_URL"}, BEFORE_URL |-> {"IN_URL"},
     IN_URL |-> {"BEFORE_URL_PARAM_KEY", "BEFORE_PROTOCOL"},
     BEFORE_URL_PARAM_KEY |-> {"URL_PARAM_KEY"},
     URL_PARAM_KEY |-> {"BEFORE_URL_PARAM_VALUE"},
     BEFORE_URL_PARAM_VALUE |-> {"URL_PARAM_VALUE"},
     URL_PARAM_VALUE |-> {"BEFORE_URL_PARAM_KEY", "BEFORE_PROTOCOL"},
     BEFORE_PROTOCOL |-> {"PROTOCOL"}, PROTOCOL |-> {"BEFORE_VERSION"},
     BEFORE_VERSION |-> {"VERSION"}, VERSION |-> {"WHEN_CR"},
     HEADER_KEY |-> {"HEADER_VALUE"}, HEADER_VALUE |-> {"WHEN_CR"},
     WHEN_CR |-> {"CR_LF"}, CR_LF |-> {"CR_LF_CR", "HEADER_KEY"}]

LEMMA EdgesAre ==
    ASSUME NEW s \in DOMAIN Edges, NEW ch
    PROVE  To(s, ch) \in Edges[s] \cup {s, "kINVALID"}
<1>1. CASE s \in HeaderStates
    BY <1>1 DEF Edges, To, HeaderState, HeaderStates
<1>2. CASE s \in {"START", "METHOD", "BEFORE_URL", "IN_URL", "BEFORE_URL_PARAM_KEY", "URL_PARAM_KEY"}
    BY <1>2 DEF Edges, To, LineState, HeaderStates
<1>3. CASE s \in {"BEFORE_URL_PARAM_VALUE", "URL_PARAM_VALUE", "BEFORE_PROTOCOL", "PROTOCOL",
                  "BEFORE_VERSION", "VERSION"}
    BY <1>3 DEF Edges, To, LineState, HeaderStates
<1> QED
    BY <1>1, <1>2, <1>3 DEF Edges, HeaderStates

LEMMA Reading ==
    ASSUME state \in States, Parsing, state \notin {"CR_LF_CR", "BODY"}
    PROVE  state \in DOMAIN Edges
BY DEF States, Parsing, Edges

LEMMA FollowTyped == \A ch : Follow(ch) => form' \in Forms
BY DEF Follow, Forms

Safe == TypeOK /\ RangesInBuffer /\ Cursors /\ Passed /\ CompleteBody

LEMMA InitSafe == Init => Safe
<1> SUFFICES ASSUME Init PROVE Safe
    OBVIOUS
<1> USE DEF Init
<1>1. form \in Forms
  <2>1. <<"start", {"upper"}, "method">> \in Grammar
    BY DEF Grammar, MethodAndURL
  <2> QED
    BY <2>1 DEF Forms
<1>2. state \in States /\ After[state] = {}
    BY DEF States, After
<1>3. TypeOK
  <2>1. end \in 0 .. MaxBytes /\ cur \in 0 .. end /\ start \in 0 .. end /\ colon \in 0 .. end
    OBVIOUS
  <2>2. last \in Nat \X Nat
    OBVIOUS
  <2> QED
    BY <1>1, <1>2, <2>1, <2>2, Zenon DEF TypeOK
<1>4. RangesInBuffer /\ Cursors /\ CompleteBody
    BY DEF RangesInBuffer, Cursors, CompleteBody, Part
<1> QED
    BY <1>2, <1>3, <1>4 DEF Safe, Passed

-----------------------------------------------------------------------------
(* One lemma for each way a byte is read.                                  *)

LEMMA ReadSafe ==
    ASSUME Safe, NEW ch, Read(ch)
    PROVE  Safe'
<1> USE DEF Safe, Read, NextByte, requestVars
<1> DEFINE s == To(state, ch)
<1>1. /\ state \in DOMAIN Edges /\ state' = s
      /\ s \in Edges[state] \cup {state, "kINVALID"}
      /\ s \in {state, "kINVALID"} \/ state \notin DOMAIN Part \cup {"HEADER_VALUE"}
    BY Reading, EdgesAre DEF TypeOK
<1>2. /\ cur \in Nat /\ end \in Nat /\ start \in Nat /\ colon \in Nat
      /\ cur + 1 <= end /\ cur' = cur + 1 /\ start <= cur /\ colon <= end
      /\ start' = start \/ (start' = cur + 1 /\ state' = "CR_LF")
      /\ state \in {"URL_PARAM_KEY", "HEADER_KEY"} /\ state' # state => colon' = cur
      /\ ~(state \in {"URL_PARAM_KEY", "HEADER_KEY"} /\ state' # state) => colon' = colon
    BY <1>1 DEF TypeOK, Parsing, Cursors
<1>p. padded' \in BOOLEAN
  <2>1. padded' = (start < cur) \/ padded' = padded
    BY Zenon
  <2>2. padded \in BOOLEAN
    BY DEF TypeOK
  <2>3. (start < cur) \in BOOLEAN
    OBVIOUS
  <2> QED
    BY <2>1, <2>2, <2>3, Zenon
<1> HIDE DEF s, Read
<1>u. UNCHANGED <<end, seen, last, url, method, length, body, reply>> /\ form' \in Forms
    BY FollowTyped DEF Read
<1>3. state' \in States
    BY <1>1 DEF Edges, States
<1>4. TypeOK'
    BY <1>2, <1>3, <1>p, <1>u DEF TypeOK
<1>5. RangesInBuffer'
  <2>1. state' \in DOMAIN Part \cup {"URL_PARAM_KEY", "HEADER_KEY", "HEADER_VALUE"} =>
           start' = start
    BY <1>2 DEF Part
  <2>2. state' \in {"BEFORE_URL_PARAM_VALUE", "URL_PARAM_VALUE", "HEADER_VALUE"} =>
           start' < colon' /\ colon' < cur'
    <3>1. CASE state' = state
        BY <1>2, <2>1, <3>1 DEF RangesInBuffer
    <3>2. CASE state' # state /\ state' = "BEFORE_URL_PARAM_VALUE"
      <4>1. state = "URL_PARAM_KEY"
        BY <1>1, <3>2 DEF Edges
      <4> QED
        BY <1>2, <3>2, <4>1 DEF Cursors, RangesInBuffer
    <3>3. CASE state' # state /\ state' = "URL_PARAM_VALUE"
      <4>1. state = "BEFORE_URL_PARAM_VALUE"
        BY <1>1, <3>3 DEF Edges
      <4> QED
        BY <1>2, <3>3, <4>1 DEF RangesInBuffer
    <3>4. CASE state' # state /\ state' = "HEADER_VALUE"
      <4>1. state = "HEADER_KEY"
        BY <1>1, <3>4 DEF Edges
      <4> QED
        BY <1>2, <3>4, <4>1 DEF RangesInBuffer
    <3> QED
        BY <3>1, <3>2, <3>3, <3>4
  <2>3. state' = "URL_PARAM_VALUE" => colon' + 1 < cur'
    <3>1. state' = "URL_PARAM_VALUE" =>
             state \in {"BEFORE_URL_PARAM_VALUE", "URL_PARAM_VALUE"}
        BY <1>1 DEF Edges
    <3> QED
        BY <1>2, <3>1 DEF RangesInBuffer
  <2>4. last'[1] <= last'[2] /\ last'[2] <= cur'
    <3>1. last[1] \in Nat /\ last[2] \in Nat /\ last[1] <= last[2] /\ last[2] <= cur
        BY DEF TypeOK, RangesInBuffer
    <3> QED
        BY <1>2, <1>u, <3>1
  <2>5. body = None
    BY <1>1 DEF Cursors, Edges
  <2> QED
    BY <1>2, <1>u, <2>1, <2>2, <2>3, <2>4, <2>5 DEF RangesInBuffer
<1>6. Cursors'
  <2>1. body = None /\ state' # "BODY"
    BY <1>1 DEF Cursors, Edges
  <2>2. last[2] \in Nat /\ last[2] <= start
    BY DEF TypeOK, Cursors
  <2> QED
    BY <1>2, <1>u, <2>1, <2>2 DEF Cursors
<1>7. Passed'
  <2>1. After[state'] \subseteq After[state]
    <3>1. CASE state' = state
        BY <3>1
    <3>2. CASE state' = "kINVALID"
        BY <3>2 DEF After, States
    <3>3. CASE state \notin DOMAIN Part /\ state' \in Edges[state]
      <4>1. state \in {"START", "BEFORE_URL", "BEFORE_URL_PARAM_KEY", "URL_PARAM_KEY",
                       "BEFORE_URL_PARAM_VALUE", "BEFORE_PROTOCOL", "BEFORE_VERSION"}
                     \cup HeaderStates
        BY <1>1, <3>3 DEF Edges, Part, HeaderStates
      <4> QED
        BY <3>3, <4>1 DEF After, States, Edges, HeaderStates
    <3> QED
        BY <1>1, <3>1, <3>2, <3>3
  <2> QED
    BY <1>u, <2>1 DEF Passed
<1>8. CompleteBody'
  <2>1. state' \notin {"BODY", "COMPLETE"}
    BY <1>1 DEF Edges
  <2> QED
    BY <2>1 DEF CompleteBody
<1> QED
    BY <1>4, <1>5, <1>6, <1>7, <1>8

LEMMA SetPartSafe ==
    ASSUME Safe, NEW ch, SetPart(ch)
    PROVE  Safe' /\ last'[1] >= last[2]
<1> USE DEF Safe
<1>1. /\ state \in DOMAIN Part /\ state \in DOMAIN Edges
      /\ state' \in Edges[state]
    <2>1. state \in DOMAIN Part /\ state' = To(state, ch) /\ state' \notin {state, "kINVALID"}
        BY DEF SetPart, NextByte
    <2>2. state \in DOMAIN Edges
        BY <2>1 DEF Part, Edges
    <2> QED
        BY <2>1, <2>2, EdgesAre
<1>2. /\ cur \in Nat /\ end \in Nat /\ start \in Nat /\ colon \in Nat
      /\ cur + 1 <= end /\ start < cur /\ colon <= end
      /\ cur' = cur + 1 /\ start' = cur + 1 /\ last' = <<start, cur>>
      /\ UNCHANGED <<end, colon, padded, length, body, reply>>
    BY DEF TypeOK, RangesInBuffer, SetPart, NextByte, Parsing
<1>3. state' \in {"BEFORE_URL", "BEFORE_URL_PARAM_KEY", "BEFORE_PROTOCOL", "BEFORE_VERSION",
                  "WHEN_CR"}
    BY <1>1 DEF Edges, Part
<1>4. seen' = seen \cup {Part[state]} /\ form' \in Forms
    BY FollowTyped DEF SetPart
<1>5. method' \in {"INVALID", "GET", "POST"} /\ url' \in {"none", "padded", "/", "/index.html", "else"}
    BY DEF SetPart, TypeOK
<1>6. Part[state] \in RequestLine \cup {"params"}
    BY <1>1 DEF Part, RequestLine
<1>7. TypeOK'
    BY <1>2, <1>3, <1>4, <1>5, <1>6 DEF TypeOK, States
<1>8. body = None /\ last[2] <= start /\ last[2] \in Nat
    BY <1>1 DEF Cursors, Part, TypeOK
<1>9. RangesInBuffer' /\ Cursors' /\ CompleteBody'
    BY <1>2, <1>3, <1>8 DEF RangesInBuffer, Cursors, CompleteBody, Part
<1>10. After[state'] \subseteq After[state] \cup {Part[state]}
    BY <1>1 DEF After, States, Edges, Part, RequestLine
<1> QED
    BY <1>2, <1>4, <1>7, <1>8, <1>9, <1>10 DEF Passed

LEMMA SetHeadersSafe ==
    ASSUME Safe, SetHeaders
    PROVE  Safe' /\ (last' # last => last'[1] >= last[2])
<1> USE DEF Safe
<1>1. /\ state = "HEADER_VALUE" /\ state \in States
      /\ UNCHANGED <<end, colon, padded, seen, url, method, body>>
      /\ form' \in Forms
    BY FollowTyped DEF SetHeaders, TypeOK
<1>2. /\ cur \in Nat /\ end \in Nat /\ start \in Nat /\ colon \in Nat
      /\ cur + 1 <= end /\ start < cur /\ colon <= end /\ start < colon /\ colon < cur
      /\ last[1] \in Nat /\ last[2] \in Nat /\ last[1] <= last[2] /\ last[2] <= start
    BY <1>1 DEF TypeOK, RangesInBuffer, SetHeaders, Parsing, Cursors
<1>3. body = None
    BY <1>1 DEF Cursors
<1>4. CASE reply' = "exception" /\ UNCHANGED <<cur, start, state, last, length>>
  <2>1. TypeOK'
    <3>1. reply' \in Replies \cup {None}
        BY <1>4 DEF Replies
    <3> QED
        BY <1>1, <1>4, <3>1, Zenon DEF TypeOK
  <2>2. RangesInBuffer' /\ Cursors' /\ CompleteBody' /\ Passed'
    BY <1>1, <1>4 DEF RangesInBuffer, Cursors, CompleteBody, Passed
  <2> QED
    BY <1>4, <2>1, <2>2
<1>5. CASE /\ NextByte("WHEN_CR") /\ last' = <<start, cur>> /\ start' = cur + 1
           /\ length' \in {length} \cup Lengths /\ reply' = reply
  <2> USE DEF NextByte
  <2>1. TypeOK'
    BY <1>1, <1>2, <1>5 DEF TypeOK, States
  <2>2. RangesInBuffer' /\ Cursors' /\ CompleteBody'
    BY <1>1, <1>2, <1>3, <1>5 DEF RangesInBuffer, Cursors, CompleteBody, Part
  <2>3. Passed'
    BY <1>1, <1>5 DEF Passed, After, States
  <2> QED
    BY <1>2, <1>5, <2>1, <2>2, <2>3
<1> QED
    BY <1>4, <1>5 DEF SetHeaders

LEMMA EndHeadersSafe ==
    ASSUME Safe, NEW ch, EndHeaders(ch)
    PROVE  Safe'
<1> USE DEF Safe
<1>1. /\ state = "CR_LF_CR"
      /\ UNCHANGED <<end, colon, padded, seen, last, url, method, length, body, reply>>
      /\ form' \in Forms /\ cur' = cur + 1 /\ reply = None
    BY FollowTyped DEF EndHeaders, requestVars, NextByte, Parsing
<1>2. /\ cur \in Nat /\ end \in Nat /\ start \in Nat /\ colon \in Nat
      /\ cur + 1 <= end /\ start <= cur
      /\ last[1] \in Nat /\ last[2] \in Nat /\ last[1] <= last[2] /\ last[2] <= start
      /\ start' \in {start, cur + 1}
    BY <1>1 DEF TypeOK, RangesInBuffer, EndHeaders, Parsing, Cursors
<1>3. body = None
    BY <1>1 DEF Cursors
<1>4. \/ state' = "kINVALID"
      \/ state' = "COMPLETE" /\ length # None /\ length <= 0 /\ start' = cur + 1
      \/ state' = "BODY" /\ (length # None => ~(length <= 0)) /\ start' = cur + 1
    BY DEF EndHeaders, NextByte
<1>5. length # None => length \in Int
    BY DEF TypeOK
<1>6. TypeOK'
    BY <1>1, <1>2, <1>4 DEF TypeOK, States
<1>7. RangesInBuffer' /\ Cursors' /\ CompleteBody'
    BY <1>1, <1>2, <1>3, <1>4, <1>5 DEF RangesInBuffer, Cursors, CompleteBody, Part
<1>8. Passed'
    BY <1>1, <1>4 DEF Passed, After, States
<1> QED
    BY <1>6, <1>7, <1>8

LEMMA SetBodySafe ==
    ASSUME Safe, NEW ch, SetBody(ch)
    PROVE  Safe'
<1> USE DEF Safe
<1>1. /\ state = "BODY"
      /\ UNCHANGED <<end, start, colon, padded, seen, last, url, method, length, reply>>
      /\ form' \in Forms /\ cur' = cur + 1 /\ reply = None
      /\ body' = <<start, start + (end - cur)>>
    BY FollowTyped DEF SetBody, NextByte, Parsing
<1>2. /\ cur \in Nat /\ end \in Nat /\ start \in Nat /\ colon \in Nat
      /\ cur + 1 <= end /\ start <= cur
      /\ last[1] \in Nat /\ last[2] \in Nat /\ last[1] <= last[2] /\ last[2] <= start
      /\ body' # None
    BY <1>1 DEF TypeOK, RangesInBuffer, SetBody, Parsing, Cursors
<1>3. \/ state' = "COMPLETE" /\ length # None /\ end - cur >= length
      \/ state' = "BODY" /\ (length # None => ~(end - cur >= length))
    BY DEF SetBody, NextByte
<1>4. length # None => length \in Int /\ length > 0
    BY <1>1 DEF TypeOK, Cursors
<1>5. body # None /\ length # None => end - start < length
    BY <1>1 DEF Cursors
<1>6. body = None => cur = start
    BY <1>1 DEF Cursors
<1>7. start + (end - cur) \in 0 .. end /\ start < start + (end - cur)
    BY <1>2
<1>8. TypeOK'
    BY <1>1, <1>2, <1>3, <1>7 DEF TypeOK, States
<1>9. RangesInBuffer'
    BY <1>1, <1>2, <1>3, <1>7 DEF RangesInBuffer, Part
<1>10. Cursors'
    BY <1>1, <1>2, <1>3, <1>4, <1>5, <1>6 DEF Cursors
<1>11. CompleteBody'
  <2>1. state' = "COMPLETE" => body = None
    BY <1>2, <1>3, <1>4, <1>5
  <2> QED
    BY <1>1, <1>2, <1>3, <1>4, <1>6, <2>1 DEF CompleteBody
<1>12. Passed'
    BY <1>1, <1>3 DEF Passed, After, States
<1> QED
    BY <1>8, <1>9, <1>10, <1>11, <1>12

LEMMA SafeFrame ==
    ASSUME Safe, UNCHANGED <<end, parserVars, requestVars, form>>,
           reply' \in Replies \cup {None}, reply' = reply \/ ~Parsing
    PROVE  Safe'
<1> USE DEF Safe, parserVars, requestVars
<1>1. TypeOK'
    BY DEF TypeOK
<1>2. RangesInBuffer' /\ Passed'
    BY DEF RangesInBuffer, Passed
<1>3. state = "BODY" /\ reply' # None => cur = end
    BY DEF TypeOK, Cursors, Parsing
<1>4. Cursors'
    BY <1>3 DEF Cursors
<1>5. state = "BODY" /\ body # None /\ reply' # None => body = <<start, start + 1>>
    BY <1>3 DEF TypeOK, RangesInBuffer, Cursors
<1>6. CompleteBody'
    BY <1>5 DEF CompleteBody
<1> QED
    BY <1>1, <1>2, <1>4, <1>6

LEMMA StepSafe == Safe /\ [Next]_vars => Safe' /\ (last' # last => last'[1] >= last[2])
<1> SUFFICES ASSUME Safe, [Next]_vars PROVE Safe' /\ (last' # last => last'[1] >= last[2])
    OBVIOUS
<1>1. ASSUME NEW ch \in Chars, Read(ch) \/ EndHeaders(ch) \/ SetBody(ch)
      PROVE  Safe' /\ last' = last
    BY <1>1, ReadSafe, EndHeadersSafe, SetBodySafe DEF Read, EndHeaders, SetBody, requestVars
<1>2. CASE Reply
    BY <1>2, SafeFrame DEF Reply, requestVars, Replies
<1>3. CASE UNCHANGED vars
    BY <1>3, SafeFrame DEF vars, requestVars, Safe, TypeOK
<1> QED
    BY <1>1, <1>2, <1>3, SetPartSafe, SetHeadersSafe DEF Next

LEMMA AlwaysSafe == Spec => []Safe
BY InitSafe, StepSafe, PTL DEF Spec

-----------------------------------------------------------------------------

\* The parser's cursors stay in the buffer (TypeOK).
THEOREM TypeCorrect == Spec => []TypeOK
<1>1. Safe => TypeOK
    BY DEF Safe
<1> QED
    BY <1>1, AlwaysSafe, PTL

\* No text is copied from outside the buffer or from a range that ends before
\* it begins (RangesInBuffer).
THEOREM InBuffer == Spec => []RangesInBuffer
<1>1. Safe => RangesInBuffer
    BY DEF Safe
<1> QED
    BY <1>1, AlwaysSafe, PTL

\* Each part begins after the end of the one before it (PartsInOrder).
THEOREM InOrder == Spec => PartsInOrder
<1>1. Safe /\ [Next]_vars => [last' \notin {last, <<0, 0>>} => last'[1] >= last[2]]_vars
    BY StepSafe
<1> QED
    BY <1>1, AlwaysSafe, PTL DEF Spec, PartsInOrder

\* A COMPLETE request has a Content-Length and the whole of its body
\* (CompleteBody).
THEOREM BodyThere == Spec => []CompleteBody
<1>1. Safe => CompleteBody
    BY DEF Safe
<1> QED
    BY <1>1, AlwaysSafe, PTL

LEMMA InitAnswered == Init => AnsweredWhole
BY DEF Init, AnsweredWhole, Replies

LEMMA StepAnswered == Safe /\ AnsweredWhole /\ [Next]_vars => AnsweredWhole'
<1> SUFFICES ASSUME Safe, AnsweredWhole, [Next]_vars, reply' = "k200K"
             PROVE  RequestLine \subseteq seen' /\ state' \in {"BODY", "COMPLETE"}
    BY DEF AnsweredWhole
<1>1. CASE Reply
  <2>1. state \in {"BODY", "COMPLETE"} /\ UNCHANGED <<seen, state>>
    BY <1>1 DEF Reply, GetCompleteRequest, parserVars, requestVars
  <2>2. RequestLine \subseteq seen
    BY <2>1 DEF Safe, Passed, After, States
  <2> QED
    BY <2>1, <2>2
<1>2. CASE ~Reply
  <2>1. reply' = reply \/ reply' = "exception"
    BY <1>2 DEF Next, Read, SetPart, SetHeaders, EndHeaders, SetBody, vars
  <2>2. reply # None
    BY <2>1 DEF Replies
  <2>3. UNCHANGED vars
    BY <1>2, <2>2 DEF Next, Read, SetPart, SetHeaders, EndHeaders, SetBody, Parsing
  <2> QED
    BY <2>3 DEF vars, parserVars, requestVars, AnsweredWhole
<1> QED
    BY <1>1, <1>2

\* Nothing but a whole head is answered 200 (AnsweredWhole).
THEOREM Answered == Spec => []AnsweredWhole
BY InitAnswered, StepAnswered, AlwaysSafe, PTL DEF Spec

-----------------------------------------------------------------------------
(* What a client's request makes of the parser.                            *)

\* the state the parser is in at each place of a request
Match ==
    {<<"start", "START">>, <<"method", "METHOD">>, <<"target", "BEFORE_URL">>,
     <<"absolute", "kINVALID">>, <<"unfinished", "kINVALID">>, <<"url", "IN_URL">>,
     <<"key", "BEFORE_URL_PARAM_KEY">>, <<"key=", "URL_PARAM_KEY">>,
     <<"value", "BEFORE_URL_PARAM_VALUE">>, <<"value&", "URL_PARAM_VALUE">>,
     <<"protocol", "BEFORE_PROTOCOL">>, <<"protocol/", "PROTOCOL">>,
     <<"version", "BEFORE_VERSION">>, <<"version.", "VERSION">>, <<"LF", "WHEN_CR">>,
     <<"line", "CR_LF">>, <<"name", "HEADER_KEY">>, <<"sp", "HEADER_VALUE">>,
     <<"text", "HEADER_VALUE">>, <<"text.", "HEADER_VALUE">>, <<"last", "CR_LF_CR">>,
     <<"sent", "BODY">>, <<"sent", "COMPLETE">>, <<"LF0.9", "IN_URL">>,
     <<"LF0.9", "URL_PARAM_KEY">>, <<"LF0.9", "URL_PARAM_VALUE">>, <<"LF0.9", "kINVALID">>,
     <<"sent0.9", "IN_URL">>, <<"sent0.9", "URL_PARAM_KEY">>,
     <<"sent0.9", "URL_PARAM_VALUE">>, <<"sent0.9", "kINVALID">>}

Matched ==
    form # "stray" =>
       /\ <<form, state>> \in Match /\ ~padded /\ url # "padded"
       /\ form \in {"start", "target", "protocol"} => start = cur
       /\ form = "sp" => colon + 1 = cur
       /\ form = "text" => colon + 2 = cur
       /\ form = "text." => colon + 2 < cur

LEMMA FollowIs ==
    ASSUME NEW ch, Follow(ch), form' # "stray"
    PROVE  \E g \in Grammar : g[1] = form /\ ch \in g[2] /\ form' = g[3]
<1> DEFINE G == {g \in Grammar : g[1] = form /\ ch \in g[2]}
<1>1. form' = (CHOOSE g \in G : TRUE)[3] /\ G # {}
    BY DEF Follow
<1>2. (CHOOSE g \in G : TRUE) \in G
    BY <1>1
<1> QED
    BY <1>1, <1>2

\* the grammar and the parser's table agree
LEMMA GrammarTo ==
    ASSUME NEW g \in Grammar, NEW ch \in g[2], NEW s \in DOMAIN Edges, <<g[1], s>> \in Match
    PROVE  /\ <<g[3], To(s, ch)>> \in Match
           /\ g[3] # "start"
           /\ g[3] \in {"target", "protocol"} => s \in DOMAIN Part /\ To(s, ch) # s
           /\ g[3] = "sp" => s = "HEADER_KEY"
           /\ g[3] = "text" => g[1] = "sp"
           /\ g[3] = "text." => g[1] \in {"text", "text."}
<1>1. CASE g \in MethodAndURL
    BY <1>1 DEF MethodAndURL, Visible, Match, To, LineState, HeaderStates, CRLF, Part
<1>2. CASE g \in EndOfURL
  <2>1. CASE s = "IN_URL"
    BY <1>2, <2>1 DEF EndOfURL, Match, To, LineState, HeaderStates, CRLF, Part
  <2>2. CASE s \in {"BEFORE_URL_PARAM_KEY", "URL_PARAM_KEY"}
    BY <1>2, <2>2 DEF EndOfURL, Match, To, LineState, HeaderStates, CRLF, Part
  <2>3. CASE s \in {"BEFORE_URL_PARAM_VALUE", "URL_PARAM_VALUE"}
    BY <1>2, <2>3 DEF EndOfURL, Match, To, LineState, HeaderStates, CRLF, Part
  <2> QED
    BY <1>2, <2>1, <2>2, <2>3 DEF EndOfURL, Match, Edges
<1>3. CASE g \in Headers
  <2>1. CASE s \in {"BEFORE_PROTOCOL", "PROTOCOL", "BEFORE_VERSION", "VERSION"}
    BY <1>3, <2>1 DEF Headers, Match, To, LineState, HeaderStates, CRLF, Part
  <2>2. CASE s \in HeaderStates
    BY <1>3, <2>2 DEF Headers, Visible, Match, To, HeaderState, HeaderStates, CRLF, Part
  <2> QED
    BY <1>3, <2>1, <2>2 DEF Headers, Match, Edges, HeaderStates
<1> QED
    BY <1>1, <1>2, <1>3 DEF Grammar

\* where a request's places end
LEMMA GrammarEnds ==
    ASSUME NEW g \in Grammar
    PROVE  /\ g[1] # "stray" /\ g[1] # "sent"
           /\ g[1] = "last" => g[2] = {"LF"} /\ g[3] = "sent"
           /\ g[1] \in {"sp", "text", "text."} /\ "CR" \in g[2] => g[1] = "text." /\ g[3] = "LF"
<1>1. CASE g \in MethodAndURL
    BY <1>1 DEF MethodAndURL
<1>2. CASE g \in EndOfURL
    BY <1>2 DEF EndOfURL
<1>3. CASE g \in Headers
    BY <1>3 DEF Headers, Visible, CRLF
<1> QED
    BY <1>1, <1>2, <1>3 DEF Grammar

LEMMA FollowTo ==
    ASSUME NEW ch, Follow(ch), form' # "stray", state \in DOMAIN Edges,
           <<form, state>> \in Match
    PROVE  /\ <<form', To(state, ch)>> \in Match
           /\ form' # "start"
           /\ form' \in {"target", "protocol"} => state \in DOMAIN Part /\ To(state, ch) # state
           /\ form' = "sp" => state = "HEADER_KEY"
           /\ form' = "text" => form = "sp"
           /\ form' = "text." => form \in {"text", "text."}
<1>1. PICK g \in Grammar : g[1] = form /\ ch \in g[2] /\ form' = g[3]
    BY FollowIs
<1> QED
    BY <1>1, GrammarTo

LEMMA ReadMatched ==
    ASSUME Safe, Matched, NEW ch, Read(ch), form' # "stray"
    PROVE  Matched'
<1>1. form # "stray"
    BY FollowIs, GrammarEnds DEF Read
<1>2. state \in DOMAIN Edges
    BY Reading DEF Read, Safe, TypeOK
<1>3. <<form, state>> \in Match /\ ~padded /\ url # "padded"
    BY <1>1 DEF Matched
<1>4. /\ <<form', To(state, ch)>> \in Match
      /\ form' # "start"
      /\ form' \in {"target", "protocol"} => state \in DOMAIN Part /\ To(state, ch) # state
      /\ form' = "sp" => state = "HEADER_KEY"
      /\ form' = "text" => form = "sp"
      /\ form' = "text." => form \in {"text", "text."}
    BY <1>1, <1>2, <1>3, FollowTo DEF Read
<1>5. form' \in {"target", "protocol"} => To(state, ch) # "kINVALID"
    BY <1>4 DEF Match
<1>6. form' \notin {"start", "target", "protocol"}
    BY <1>4, <1>5 DEF Read
<1>7. ~padded'
  <2>1. state \in {"START", "BEFORE_URL", "BEFORE_PROTOCOL"} => start = cur
    BY <1>1, <1>3 DEF Matched, Match
  <2>2. padded' = (start < cur) \/ padded' = padded
    BY Zenon DEF Read
  <2>3. state \notin {"START", "BEFORE_URL", "BEFORE_PROTOCOL"} => padded' = padded
    BY Zenon DEF Read
  <2>4. start = cur => ~(start < cur)
    BY DEF Safe, TypeOK
  <2> QED
    BY <1>3, <2>1, <2>2, <2>3, <2>4, Zenon
<1>8. cur \in Nat /\ colon \in Nat /\ cur' = cur + 1 /\ state' = To(state, ch)
    BY DEF Read, NextByte, Safe, TypeOK
<1>9. form' = "sp" => colon' = cur
    BY <1>4 DEF Read, Match
<1>10. form' \in {"text", "text."} => colon' = colon
    BY <1>3, <1>4 DEF Read, Match
<1>11. url' # "padded" /\ <<form', state'>> \in Match
    BY <1>3, <1>4, <1>8 DEF Read, requestVars
<1>12. form' = "sp" => colon' + 1 = cur'
    BY <1>8, <1>9
<1>13. form' = "text" => colon' + 2 = cur'
    <2>1. form' = "text" => colon + 1 = cur
        BY <1>4 DEF Matched
    <2> QED
        BY <1>8, <1>10, <2>1
<1>14. form' = "text." => colon' + 2 < cur'
    <2>1. form' = "text." => colon + 2 = cur \/ colon + 2 < cur
        BY <1>4 DEF Matched
    <2> QED
        BY <1>8, <1>10, <2>1
<1> QED
    BY <1>6, <1>7, <1>11, <1>12, <1>13, <1>14, Zenon DEF Matched

LEMMA SetPartMatched ==
    ASSUME Safe, Matched, NEW ch, SetPart(ch), form' # "stray"
    PROVE  Matched'
<1>1. form # "stray"
    BY FollowIs, GrammarEnds DEF SetPart
<1>2. state \in DOMAIN Part /\ state \in DOMAIN Edges
    BY DEF SetPart, Part, Edges
<1>3. <<form, state>> \in Match /\ ~padded /\ url # "padded"
    BY <1>1 DEF Matched
<1>4. <<form', To(state, ch)>> \in Match
      /\ (form' = "sp" => state = "HEADER_KEY")
      /\ (form' = "text" => form = "sp")
      /\ (form' = "text." => form \in {"text", "text."})
    BY <1>1, <1>2, <1>3, FollowTo DEF SetPart
<1>5. form' \notin {"sp", "text", "text."}
    BY <1>2, <1>3, <1>4 DEF Match, Part
<1>6. url' # "padded"
    BY <1>3 DEF SetPart
<1>7. start' = cur' /\ state' = To(state, ch) /\ padded' = padded
    BY DEF SetPart, NextByte
<1> QED
    BY <1>3, <1>4, <1>5, <1>6, <1>7, Zenon DEF Matched

LEMMA SetHeadersMatched ==
    ASSUME Safe, Matched, SetHeaders, form' # "stray"
    PROVE  Matched' /\ reply' = reply
<1>1. form = "text." /\ form' = "LF"
    <2>1. PICK g \in Grammar : g[1] = form /\ "CR" \in g[2] /\ form' = g[3]
        BY FollowIs DEF SetHeaders
    <2>2. form # "stray"
        BY <2>1, GrammarEnds
    <2>3. <<form, "HEADER_VALUE">> \in Match
        BY <2>2 DEF Matched, SetHeaders
    <2>4. form \in {"sp", "text", "text."}
        BY <2>3 DEF Match
    <2> QED
        BY <2>1, <2>4, GrammarEnds
<1>2. colon + 2 < cur /\ ~padded /\ url # "padded" /\ colon \in Nat /\ cur \in Nat
    BY <1>1 DEF Matched, Safe, TypeOK
<1>3. ~(colon + 2 > cur)
    BY <1>2
<1>4. state' = "WHEN_CR" /\ reply' = reply /\ UNCHANGED <<padded, url>>
    BY <1>3 DEF SetHeaders, NextByte
<1>5. <<form', state'>> \in Match
    BY <1>1, <1>4 DEF Match
<1> QED
    BY <1>1, <1>2, <1>4, <1>5, Zenon DEF Matched

LEMMA RestMatched ==
    ASSUME Safe, Matched, NEW ch, EndHeaders(ch) \/ SetBody(ch), form' # "stray"
    PROVE  Matched'
<1>1. PICK g \in Grammar : g[1] = form /\ ch \in g[2] /\ form' = g[3]
    BY FollowIs DEF EndHeaders, SetBody
<1>2. form # "stray"
    BY <1>1, GrammarEnds
<1>3. <<form, state>> \in Match /\ ~padded /\ url # "padded"
    BY <1>2 DEF Matched
<1>4. state = "CR_LF_CR" => form = "last"
    BY <1>3 DEF Match
<1>5. state = "BODY" => form = "sent"
    BY <1>3 DEF Match
<1>6. state = "CR_LF_CR" \/ state = "BODY"
    BY DEF EndHeaders, SetBody
<1>7. form' = "sent" /\ (state = "CR_LF_CR" => ch = "LF")
    BY <1>1, <1>4, <1>5, <1>6, GrammarEnds
<1>8. state' \in {"BODY", "COMPLETE"} /\ UNCHANGED <<padded, url>>
    BY <1>6, <1>7 DEF EndHeaders, SetBody, NextByte, requestVars
<1>9. <<form', state'>> \in Match
    BY <1>7, <1>8 DEF Match
<1> QED
    BY <1>3, <1>7, <1>8, <1>9, Zenon DEF Matched

LEMMA MatchedFrame ==
    ASSUME Matched, UNCHANGED <<cur, start, colon, state, padded, url, form>>
    PROVE  Matched'
BY DEF Matched

\* how the parser has taken a request so far
LEMMA MatchIs ==
    ASSUME Matched, form # "stray"
    PROVE  /\ form \notin {"LF0.9", "sent0.9"} =>
                 (state = "kINVALID" <=> form \in {"absolute", "unfinished"})
           /\ ~padded /\ url # "padded"
           /\ form = "sent" <=> state \in {"BODY", "COMPLETE"}
<1>1. <<form, state>> \in Match /\ ~padded /\ url # "padded"
    BY DEF Matched
<1>2. form \notin {"LF0.9", "sent0.9"} =>
         (state = "kINVALID" <=> form \in {"absolute", "unfinished"})
    BY <1>1 DEF Match
<1>3. form = "sent" <=> state \in {"BODY", "COMPLETE"}
    BY <1>1 DEF Match
<1> QED
    BY <1>1, <1>2, <1>3

Answers ==
    form # "stray" /\ reply # None =>
       /\ reply # "exception"
       /\ reply = "k200K" <=> /\ form = "sent" /\ method = "GET"
                              /\ url \in {"/", "/index.html"}

LEMMA InitMatched == Init => Matched /\ Answers
<1>1. <<"start", "START">> \in Match
    BY DEF Match
<1> QED
    BY <1>1, Zenon DEF Init, Matched, Answers

LEMMA StepMatched == Safe /\ Matched /\ Answers /\ [Next]_vars => Matched' /\ Answers'
<1> SUFFICES ASSUME Safe, Matched, Answers, [Next]_vars PROVE Matched' /\ Answers'
    OBVIOUS
<1>1. ASSUME NEW ch, Read(ch) \/ SetPart(ch) \/ EndHeaders(ch) \/ SetBody(ch)
      PROVE  Matched' /\ Answers'
  <2>1. Matched'
    BY <1>1, ReadMatched, SetPartMatched, RestMatched DEF Matched
  <2>2. reply' = None
    BY <1>1 DEF Read, SetPart, EndHeaders, SetBody, Parsing
  <2> QED
    BY <2>1, <2>2 DEF Answers
<1>2. CASE SetHeaders
  <2>1. form' = "stray" \/ (Matched' /\ reply' = None)
    BY <1>2, SetHeadersMatched DEF SetHeaders, Parsing
  <2> QED
    BY <2>1 DEF Matched, Answers
<1>3. CASE Reply
  <2>1. Matched'
    BY <1>3, MatchedFrame DEF Reply, parserVars, requestVars
  <2>2. form # "stray" => (form = "sent" <=> GetCompleteRequest)
    BY MatchIs DEF GetCompleteRequest
  <2>3. UNCHANGED <<form, method, url>>
    BY <1>3 DEF Reply, requestVars
  <2>4. reply' = IF GetCompleteRequest /\ method = "GET" /\ url \in {"/", "/index.html"}
                 THEN "k200K" ELSE "k400BadRequest"
    BY <1>3 DEF Reply
  <2>5. Answers'
    BY <2>2, <2>3, <2>4 DEF Answers
  <2> QED
    BY <2>1, <2>5
<1>4. CASE UNCHANGED vars
    BY <1>4, MatchedFrame DEF vars, parserVars, requestVars, Answers
<1> QED
    BY <1>1, <1>2, <1>3, <1>4 DEF Next

LEMMA MatchedUnderstood == Safe /\ Matched /\ Answers => ClientUnderstood
<1> SUFFICES ASSUME Matched, Answers, form # "stray" PROVE ClientUnderstood
    BY DEF ClientUnderstood
<1>1. reply # "exception"
    BY DEF Answers, Replies
<1> QED
    BY <1>1, MatchIs DEF ClientUnderstood, Answers

\* Of a client's requests, however much of one has come and whatever its URL,
\* only those for a proxy or with an unfinished parameter are refused, and no
\* other than the whole of one for the index is answered 200 (ClientUnderstood).
THEOREM Understood == Spec => []ClientUnderstood
BY InitMatched, StepMatched, MatchedUnderstood, AlwaysSafe, PTL DEF Spec
=============================================================================
