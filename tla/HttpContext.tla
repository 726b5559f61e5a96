---------------------------- MODULE HttpContext ----------------------------
(***************************************************************************)
(* One request as HttpServer's message callback treats it: HttpContext     *)
(* parses the buffer the connection received, however much of the request  *)
(* that is, and the callback answers 200 or 400.                           *)
(*                                                                         *)
(* The parser reads each byte once and tells bytes apart by kind only, so  *)
(* a byte's kind is chosen when it is read.  Texts are spans of the        *)
(* buffer: <<from, to>> are the bytes std::string(from, to) copies.  What  *)
(* a text says is chosen too where the code asks: is the method GET, is    *)
(* the URL the index, is a header Content-Length and which number is it.   *)
(***************************************************************************)
EXTENDS Integers

CONSTANTS MaxBytes,  \* bound: bytes in the buffer
          Lengths,   \* values of atoi on a Content-Length
          None       \* not set

ASSUME MaxBytesAssumption == MaxBytes \in Nat
ASSUME LengthsAssumption == Lengths \subseteq Int /\ 0 \in Lengths

\* how the callback ends
Replies == {"k200K", "k400BadRequest", "exception"}

ASSUME NoneAssumption == None \notin Int \cup (Int \X Int) \cup Replies

VARIABLES
    end,      \* the size of the buffer
    cur,      \* the byte to read
    start,    \* where the text being read begins
    colon,    \* the middle of a parameter or a header
    state,    \* state_
    padded,   \* whether the text being read begins with what was skipped
    seen,     \* the parts of the request line that have been set
    last,     \* the span of the last part that was set
    url,      \* what the URL says
    method,   \* what the method says
    length,   \* what the header Content-Length says, or None
    body,     \* the span of the body, or None
    reply,    \* the status answered, "exception", or None
    form      \* history: how far the bytes read follow a request of the client

parserVars  == <<cur, start, colon, state, padded>>
requestVars == <<seen, last, url, method, length, body>>
vars == <<end, parserVars, requestVars, reply, form>>

CRLF  == {"CR", "LF"}
Chars == CRLF \cup {"blank", "upper", "digit", "other", "/", "?", "=", "&", ".", ":"}

States == {"kINVALID", "START", "METHOD", "BEFORE_URL", "IN_URL", "BEFORE_URL_PARAM_KEY",
           "URL_PARAM_KEY", "BEFORE_URL_PARAM_VALUE", "URL_PARAM_VALUE", "BEFORE_PROTOCOL",
           "PROTOCOL", "BEFORE_VERSION", "VERSION", "HEADER_KEY", "HEADER_VALUE", "WHEN_CR",
           "CR_LF", "CR_LF_CR", "BODY", "COMPLETE"}

\* the parts of the request line, by the state that ends with each
Part == [METHOD |-> "method", IN_URL |-> "url", URL_PARAM_VALUE |-> "params",
         PROTOCOL |-> "protocol", VERSION |-> "version"]

RequestLine == {"method", "url", "protocol", "version"}

-----------------------------------------------------------------------------
(* The client whose requests the repository shows, webbench: HTTP/1.x and, *)
(* without version and headers, HTTP/0.9; to the server or to it as a      *)
(* proxy; with whatever the user's URL has after the host, but no white    *)
(* space.                                                                  *)

Visible == Chars \ (CRLF \cup {"blank"})

\* how a request of the client goes on: place, bytes that may come, next place.
\* Method and URL; "absolute" is a URL sent to a proxy
MethodAndURL ==
    {<<"start", {"upper"}, "method">>, <<"method", {"upper"}, "method">>,
     <<"method", {"blank"}, "target">>,
     <<"target", {"/"}, "url">>, <<"target", Visible \ {"/"}, "absolute">>,
     <<"url", Visible \ {"?"}, "url">>, <<"url", {"?"}, "key">>,
     <<"key", Visible, "key=">>, <<"key=", Visible \ {"="}, "key=">>,
     <<"key=", {"="}, "value">>, <<"value", Visible, "value&">>,
     <<"value&", Visible \ {"&"}, "value&">>, <<"value&", {"&"}, "key">>}

\* what comes after the URL; one may end before a parameter's value does begin
EndOfURL ==
    {<<"url", {"blank"}, "protocol">>, <<"value&", {"blank"}, "protocol">>,
     <<"key", {"blank"}, "unfinished">>, <<"key=", {"blank"}, "unfinished">>,
     <<"value", {"blank"}, "unfinished">>,
     <<"url", {"CR"}, "LF0.9">>, <<"key", {"CR"}, "LF0.9">>, <<"key=", {"CR"}, "LF0.9">>,
     <<"value", {"CR"}, "LF0.9">>, <<"value&", {"CR"}, "LF0.9">>,
     <<"LF0.9", {"LF"}, "sent0.9">>}

Headers ==
    {<<"protocol", {"upper"}, "protocol/">>, <<"protocol/", {"upper"}, "protocol/">>,
     <<"protocol/", {"/"}, "version">>, <<"version", {"digit"}, "version.">>,
     <<"version.", {"digit", "."}, "version.">>, <<"version.", {"CR"}, "LF">>,
     <<"LF", {"LF"}, "line">>, <<"line", {"upper"}, "name">>,
     <<"name", {"upper", "other"}, "name">>, <<"name", {":"}, "sp">>,
     <<"sp", {"blank"}, "text">>, <<"text", Visible, "text.">>,
     <<"text.", Chars \ CRLF, "text.">>, <<"text.", {"CR"}, "LF">>,
     <<"line", {"CR"}, "last">>, <<"last", {"LF"}, "sent">>}

Grammar == MethodAndURL \cup EndOfURL \cup Headers

Forms == {g[1] : g \in Grammar} \cup {g[3] : g \in Grammar} \cup {"stray"}

Follow(ch) ==
    LET G == {g \in Grammar : g[1] = form /\ ch \in g[2]} IN
       form' = IF G = {} THEN "stray" ELSE (CHOOSE g \in G : TRUE)[3]

-----------------------------------------------------------------------------
(* The parser.                                                             *)

\* the state after ch is read in state s, on the request line
LineState(s, ch) ==
    CASE s = "START" -> IF ch \in CRLF \cup {"blank"} THEN s
                        ELSE IF ch = "upper" THEN "METHOD" ELSE "kINVALID"
      [] s = "METHOD" -> IF ch = "upper" THEN s
                         ELSE IF ch = "blank" THEN "BEFORE_URL" ELSE "kINVALID"
      [] s = "BEFORE_URL" -> IF ch = "/" THEN "IN_URL"
                             ELSE IF ch = "blank" THEN s ELSE "kINVALID"
      [] s = "IN_URL" -> IF ch = "?" THEN "BEFORE_URL_PARAM_KEY"
                         ELSE IF ch = "blank" THEN "BEFORE_PROTOCOL" ELSE s
      [] s = "BEFORE_URL_PARAM_KEY" ->
            IF ch \in CRLF \cup {"blank"} THEN "kINVALID" ELSE "URL_PARAM_KEY"
      [] s = "URL_PARAM_KEY" -> IF ch = "=" THEN "BEFORE_URL_PARAM_VALUE"
                                ELSE IF ch = "blank" THEN "kINVALID" ELSE s
      [] s = "BEFORE_URL_PARAM_VALUE" ->
            IF ch \in CRLF \cup {"blank"} THEN "kINVALID" ELSE "URL_PARAM_VALUE"
      [] s = "URL_PARAM_VALUE" -> IF ch = "&" THEN "BEFORE_URL_PARAM_KEY"
                                  ELSE IF ch = "blank" THEN "BEFORE_PROTOCOL" ELSE s
      [] s = "BEFORE_PROTOCOL" -> IF ch = "blank" THEN s ELSE "PROTOCOL"
      [] s = "PROTOCOL" -> IF ch = "/" THEN "BEFORE_VERSION" ELSE s
      [] s = "BEFORE_VERSION" -> IF ch = "digit" THEN "VERSION" ELSE "kINVALID"
      [] s = "VERSION" -> IF ch = "CR" THEN "WHEN_CR"
                          ELSE IF ch \in {"digit", "."} THEN s ELSE "kINVALID"

\* a bug: a line after the request line cannot be empty
HeaderStateNoEnd(s, ch) ==
    CASE s = "HEADER_KEY" -> IF ch = ":" THEN "HEADER_VALUE" ELSE s
      [] s = "HEADER_VALUE" -> IF ch = "CR" THEN "WHEN_CR" ELSE s
      [] s = "WHEN_CR" -> IF ch = "LF" THEN "CR_LF" ELSE "kINVALID"
      [] s = "CR_LF" -> IF ch = "blank" THEN "kINVALID" ELSE "HEADER_KEY"

\* and in the headers
HeaderState(s, ch) ==
    CASE s = "HEADER_KEY" -> IF ch = ":" THEN "HEADER_VALUE" ELSE s
      [] s = "HEADER_VALUE" -> IF ch = "CR" THEN "WHEN_CR" ELSE s
      [] s = "WHEN_CR" -> IF ch = "LF" THEN "CR_LF" ELSE "kINVALID"
      [] s = "CR_LF" -> IF ch = "CR" THEN "CR_LF_CR"
                        ELSE IF ch = "blank" THEN "kINVALID" ELSE "HEADER_KEY"

HeaderStates == {"HEADER_KEY", "HEADER_VALUE", "WHEN_CR", "CR_LF"}

To(s, ch) == IF s \in HeaderStates THEN HeaderState(s, ch) ELSE LineState(s, ch)

Init ==
    /\ end \in 0 .. MaxBytes
    /\ cur = 0 /\ start = 0 /\ colon = 0
    /\ state = "START"
    /\ padded = FALSE
    /\ seen = {} /\ last = <<0, 0>>
    /\ url = "none" /\ method = "INVALID"
    /\ length = None /\ body = None
    /\ reply = None
    /\ form = "start"

\* a bug: off by one at the end
ParsingPastEnd == reply = None /\ state \notin {"kINVALID", "COMPLETE"} /\ cur <= end

\* the loop's condition
Parsing == reply = None /\ state \notin {"kINVALID", "COMPLETE"} /\ cur < end

NextByte(s) == state' = s /\ cur' = cur + 1

\* ch ends no text; it may be the '=' or ':' in the middle of one, the first
\* byte of a text that started earlier, or the end of a line
Read(ch) ==
    /\ Parsing /\ state \notin {"CR_LF_CR", "BODY"}
    /\ LET s == To(state, ch) IN
          /\ s \in {state, "kINVALID"} \/ state \notin DOMAIN Part \cup {"HEADER_VALUE"}
          /\ NextByte(s)
          /\ colon' = IF state \in {"URL_PARAM_KEY", "HEADER_KEY"} /\ s # state
                      THEN cur ELSE colon
          /\ padded' = IF state \in {"START", "BEFORE_URL", "BEFORE_PROTOCOL"} /\ s # state
                       THEN start < cur ELSE padded
          /\ start' = IF s = "CR_LF" THEN cur + 1 ELSE start
    /\ Follow(ch)
    /\ UNCHANGED <<end, requestVars, reply>>

\* a bug: start is not moved past the part
SetPartAgain(ch) ==
    /\ Parsing /\ state \in DOMAIN Part
    /\ LET s == To(state, ch) IN s \notin {state, "kINVALID"} /\ NextByte(s)
    /\ seen' = seen \cup {Part[state]}
    /\ last' = <<start, cur>>
    /\ method' \in IF state # "METHOD" THEN {method}
                   ELSE IF padded THEN {"INVALID"} ELSE {"INVALID", "GET", "POST"}
    /\ url' \in IF state # "IN_URL" THEN {url}
                ELSE IF padded THEN {"padded"}
                ELSE IF cur = start + 1 THEN {"/"} ELSE {"/index.html", "else"}
    /\ Follow(ch)
    /\ UNCHANGED <<end, start, colon, padded, length, body, reply>>

\* ch ends a part of the request line, which is copied from start; what START
\* and the BEFORE states skipped is in it, for they leave start where it was
SetPart(ch) ==
    /\ Parsing /\ state \in DOMAIN Part
    /\ LET s == To(state, ch) IN s \notin {state, "kINVALID"} /\ NextByte(s)
    /\ seen' = seen \cup {Part[state]}
    /\ last' = <<start, cur>>
    /\ method' \in IF state # "METHOD" THEN {method}
                   ELSE IF padded THEN {"INVALID"} ELSE {"INVALID", "GET", "POST"}
    /\ url' \in IF state # "IN_URL" THEN {url}
                ELSE IF padded THEN {"padded"}
                ELSE IF cur = start + 1 THEN {"/"} ELSE {"/index.html", "else"}
    /\ start' = cur + 1
    /\ Follow(ch)
    /\ UNCHANGED <<end, colon, padded, length, body, reply>>

\* CR ends a header, whose value is copied from two bytes after the colon: with
\* nothing after it std::string is given a range of length -1, which throws
SetHeaders ==
    /\ Parsing /\ state = "HEADER_VALUE"
    /\ IF colon + 2 > cur
       THEN reply' = "exception" /\ UNCHANGED <<cur, start, state, last, length>>
       ELSE /\ NextByte("WHEN_CR")
            /\ last' = <<start, cur>>
            /\ start' = cur + 1
            /\ length' \in {length} \cup IF colon + 2 = cur THEN {0} ELSE Lengths
            /\ UNCHANGED reply
    /\ Follow("CR")
    /\ UNCHANGED <<end, colon, padded, seen, url, method, body>>

\* the blank line's LF: is there a body
EndHeaders(ch) ==
    /\ Parsing /\ state = "CR_LF_CR"
    /\ IF ch # "LF"
       THEN NextByte("kINVALID") /\ UNCHANGED start
       ELSE /\ NextByte(IF length # None /\ length <= 0 THEN "COMPLETE" ELSE "BODY")
            /\ start' = cur + 1
    /\ Follow(ch)
    /\ UNCHANGED <<end, colon, padded, requestVars, reply>>

\* a bug: the number of bytes is taken from the wrong end
SetBodyPastEnd(ch) ==
    /\ Parsing /\ state = "BODY"
    /\ body' = <<start, cur + (end - start)>>
    /\ NextByte(IF length # None /\ end - cur >= length THEN "COMPLETE" ELSE "BODY")
    /\ Follow(ch)
    /\ UNCHANGED <<end, start, colon, padded, seen, last, url, method, length, reply>>

\* a bug: the body is complete as soon as there is one
SetBodyEarly(ch) ==
    /\ Parsing /\ state = "BODY"
    /\ body' = <<start, start + (end - cur)>>
    /\ NextByte("COMPLETE")
    /\ Follow(ch)
    /\ UNCHANGED <<end, start, colon, padded, seen, last, url, method, length, reply>>

\* the rest of the buffer is the body; unless that completes the request, the
\* loop goes on with what is left after one more byte
SetBody(ch) ==
    /\ Parsing /\ state = "BODY"
    /\ body' = <<start, start + (end - cur)>>
    /\ NextByte(IF length # None /\ end - cur >= length THEN "COMPLETE" ELSE "BODY")
    /\ Follow(ch)
    /\ UNCHANGED <<end, start, colon, padded, seen, last, url, method, length, reply>>

\* a bug: every request that is not invalid counts as complete
NotInvalid == state # "kINVALID"

GetCompleteRequest == state \in {"COMPLETE", "BODY"}

\* the callback: 400 unless the request is complete and Repaly knows it
Reply ==
    /\ reply = None /\ ~Parsing
    /\ reply' = IF GetCompleteRequest /\ method = "GET" /\ url \in {"/", "/index.html"}
                THEN "k200K" ELSE "k400BadRequest"
    /\ UNCHANGED <<end, parserVars, requestVars, form>>

Next == \/ \E ch \in Chars : Read(ch) \/ SetPart(ch) \/ EndHeaders(ch) \/ SetBody(ch)
        \/ SetHeaders \/ Reply

Spec == Init /\ [][Next]_vars

-----------------------------------------------------------------------------
(* Type correctness.                                                       *)
TypeOK ==
    /\ end \in 0 .. MaxBytes /\ cur \in 0 .. end
    /\ start \in 0 .. end /\ colon \in 0 .. end
    /\ state \in States
    /\ padded \in BOOLEAN
    /\ seen \subseteq RequestLine \cup {"params"}
    /\ last \in Nat \X Nat
    /\ url \in {"none", "padded", "/", "/index.html", "else"}
    /\ method \in {"INVALID", "GET", "POST"}
    /\ length \in Lengths \cup {None}
    /\ body \in (Nat \X Nat) \cup {None}
    /\ reply \in Replies \cup {None}
    /\ form \in Forms

(* Every text is copied from inside the buffer: start, colon and cur keep  *)
(* their order in the states that copy with them, and neither a part nor   *)
(* the body is a range that ends before it begins or after the buffer      *)
(* (HttpContext.cpp:44,114,182,240).                                       *)
RangesInBuffer ==
    /\ state \in DOMAIN Part \cup {"URL_PARAM_KEY", "HEADER_KEY", "HEADER_VALUE"} =>
          start < cur
    /\ state \in {"BEFORE_URL_PARAM_VALUE", "URL_PARAM_VALUE", "HEADER_VALUE"} =>
          start < colon /\ colon < cur
    /\ state = "URL_PARAM_VALUE" => colon + 1 < cur
    /\ last[1] <= last[2] /\ last[2] <= cur
    /\ body # None => body[1] = start /\ body[1] < body[2] /\ body[2] <= end

(* Parts are set in the order of their bytes and share none, until a new   *)
(* parser begins (HttpContext.cpp:46,184).                                 *)
PartsInOrder == [][last' \notin {last, <<0, 0>>} => last'[1] >= last[2]]_vars

(* Only a request whose head has been read to its blank line, every part   *)
(* of the request line set, is answered 200, however much of it was there  *)
(* when the socket ran dry (HttpServer.cpp:58, HttpContext.cpp:264).       *)
AnsweredWhole ==
    reply = "k200K" => RequestLine \subseteq seen /\ state \in {"BODY", "COMPLETE"}

(* A request with a Content-Length is COMPLETE only with all of its body,  *)
(* of which nothing is then missing; a body that does not complete it is   *)
(* set again for each of its bytes, and ends as its first one              *)
(* (HttpContext.cpp:218,239,242).                                          *)
CompleteBody ==
    /\ state = "COMPLETE" =>
          /\ length # None
          /\ length > 0 => body = <<start, end>> /\ end - start >= length
    /\ state = "BODY" /\ body # None /\ reply # None => body = <<start, start + 1>>

(* Of the requests webbench sends, as far as they have come, the parser    *)
(* refuses those with a URL for a proxy or one that ends before the value  *)
(* of a parameter, and of HTTP/1.x no other.  It throws on none, their     *)
(* texts have nothing in front of them, and only their blank line ends a   *)
(* head.  One is answered 200 if it is an HTTP/1.x request that is there   *)
(* to its blank line and asks for the index by GET, and 400 if not,        *)
(* however little of it is missing, and whatever it asks for by HTTP/0.9   *)
(* (HttpContext.cpp:28, webbench.c:221-290, HttpServer.cpp:58).            *)
ClientUnderstood ==
    form # "stray" =>
       /\ form \notin {"LF0.9", "sent0.9"} =>
             (state = "kINVALID" <=> form \in {"absolute", "unfinished"})
       /\ reply # "exception"
       /\ ~padded /\ url # "padded"
       /\ form = "sent" <=> state \in {"BODY", "COMPLETE"}
       /\ reply # None => (reply = "k200K" <=> /\ form = "sent" /\ method = "GET"
                                               /\ url \in {"/", "/index.html"})

\* start and cur: nothing that was set reaches past start, and the body is all
\* that is behind it until a byte of it has been passed
Cursors ==
    /\ last[2] <= start /\ start <= cur
    /\ body # None => state \in {"BODY", "COMPLETE"}
    /\ state = "BODY" => /\ body = None => cur = start
                         /\ body # None => body[2] = start + (end - cur) + 1
                         /\ reply # None => cur = end
                         /\ length # None => length > 0
                         /\ body # None /\ length # None => end - start < length

\* the parts of the request line a state comes after
After == [s \in States |->
    CASE s \in {"kINVALID", "START", "METHOD"} -> {}
      [] s \in {"BEFORE_URL", "IN_URL"} -> {"method"}
      [] s \in {"BEFORE_PROTOCOL", "PROTOCOL", "BEFORE_URL_PARAM_KEY", "URL_PARAM_KEY",
                "BEFORE_URL_PARAM_VALUE", "URL_PARAM_VALUE"} -> {"method", "url"}
      [] s \in {"BEFORE_VERSION", "VERSION"} -> {"method", "url", "protocol"}
      [] OTHER -> RequestLine]

Passed == After[state] \subseteq seen

=============================================================================
