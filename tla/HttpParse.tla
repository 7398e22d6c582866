------------------------------ MODULE HttpParse ------------------------------
(* http::HttpRequestParse (v3/http/httpprase.cpp), the incremental parser that *)
(* Server::DispatchConnection calls, through HttpHandler::ParseRequest, each   *)
(* time more of a request has been read into the connection's buffer.          *)
(*                                                                             *)
(* The buffer is a sequence of units: "CR", "LF", any other character "x", and *)
(* the texts of whole lines that the parser tells apart, each of which counts  *)
(* as one unit.  Positions count from 1; check, start and read are the code's  *)
(* check_index, start_line and read_index, plus one where they name a place.   *)
EXTENDS Integers, Sequences, FiniteSets, SequencesExt

CONSTANT Streams  \* what a client may send: all it has to say, in one sequence

RequestLines == {"GET", "POST"}  \* "GET / HTTP/1.1", "POST / HTTP/1.1"
LengthLines == {"len0", "len1", "len2", "lenNeg"}
Units == {"CR", "LF", "x", "hdr"} \cup RequestLines \cup LengthLines

\* atoi of a Content-Length line's value.
Value == [len0 |-> 0, len1 |-> 1, len2 |-> 2, lenNeg |-> -1]

ASSUME StreamsAssumption == Streams \subseteq Seq(Units)

VARIABLES
  stream,  \* what the client says
  read,    \* how much of it is in the buffer: _read_index
  p        \* the parser's part of the Connection object

vars == <<stream, read, p>>

Buffer == SubSeq(stream, 1, read)

\* The parser never looks beyond what was read, and keeps a line's start behind
\* the place it has checked.
TypeOK ==
  /\ stream \in Streams
  /\ read \in 0..Len(stream)
  /\ p \in [state : {"REQUESTLINE", "HEADER", "BODY"}, check : Nat, start : Nat,
            code : {"NO_REQUEST", "GET_REQUEST", "BAD_REQUEST"},
            method : RequestLines \cup {"none"}, length : Int, body : Seq(Units)]
  /\ 1 <= p.start /\ p.start <= p.check /\ p.check <= read + 1

Init ==
  /\ stream \in Streams
  /\ read = 0
  /\ p = [state |-> "REQUESTLINE", check |-> 1, start |-> 1, code |-> "NO_REQUEST",
          method |-> "none", length |-> 0, body |-> <<>>]

------------------------------------------------------------------------------
Smallest(S) == CHOOSE i \in S : \A j \in S : i <= j

\* Mutant: a CR that is the last unit read so far is taken for a bad line.
ParseLineImpatient(buf, check) ==
  LET crs == {i \in check..Len(buf) : buf[i] = "CR"}
      i == Smallest(crs)
  IN IF crs = {} THEN [status |-> "MORE", check |-> Len(buf) + 1]
     ELSE IF i < Len(buf) /\ buf[i + 1] = "LF" THEN [status |-> "OK", check |-> i + 2]
     ELSE [status |-> "BAD", check |-> i]

\* Mutant: the unit behind the last one read is taken for an LF.
ParseLineOverreads(buf, check) ==
  LET crs == {i \in check..Len(buf) : buf[i] = "CR"}
      i == Smallest(crs)
  IN IF crs = {} THEN [status |-> "MORE", check |-> Len(buf) + 1]
     ELSE IF i = Len(buf) \/ buf[i + 1] = "LF" THEN [status |-> "OK", check |-> i + 2]
     ELSE [status |-> "BAD", check |-> i]

\* parse_line: on to the next CR.  (The CR LF that ends a line is overwritten by
\* two NULs, which end its text; both lie before the next line's start.)
ParseLine(buf, check) ==
  LET crs == {i \in check..Len(buf) : buf[i] = "CR"}
      i == Smallest(crs)
  IN IF crs = {} THEN [status |-> "MORE", check |-> Len(buf) + 1]
     ELSE IF i = Len(buf) THEN [status |-> "MORE", check |-> i]
     ELSE IF buf[i + 1] = "LF" THEN [status |-> "OK", check |-> i + 2]
     ELSE [status |-> "BAD", check |-> i]

\* parse_requestline.
ParseRequestLine(text, q) ==
  IF \E m \in RequestLines : text = <<m>>
  THEN [q EXCEPT !.method = text[1], !.length = 0, !.body = <<>>, !.state = "HEADER"]
  ELSE [q EXCEPT !.code = "BAD_REQUEST"]

\* Mutant: a body is read whenever its length is given, whatever the method.
BodyFollowsAny(q) == q.length > 0

BodyFollows(q) == q.method = "POST" /\ q.length > 0

\* A Content-Length line: the last one counts.
TakeLength(n, q) == IF n < 0 THEN [q EXCEPT !.length = n, !.code = "BAD_REQUEST"]
                    ELSE [q EXCEPT !.length = n]

\* parse_headers; lines without a colon and unknown keys are passed over.
ParseHeaders(text, q) ==
  IF text = <<>>
  THEN IF BodyFollows(q) THEN [q EXCEPT !.state = "BODY"]
       ELSE [q EXCEPT !.code = "GET_REQUEST"]
  ELSE IF text[1] \in LengthLines THEN TakeLength(Value[text[1]], q)
  ELSE q

\* Mutant: off by one, waits for a unit more.
HasBodyAndMore(buf, q) == Len(buf) + 1 - q.start > q.length

HasBody(buf, q) == Len(buf) + 1 - q.start >= q.length

\* parse_body.
ParseBody(buf, q) ==
  IF HasBody(buf, q)
  THEN [q EXCEPT !.code = "GET_REQUEST",
                 !.body = SubSeq(buf, q.start, q.start + q.length - 1)]
  ELSE q

\* A turn of parse_content's loop: the line that ends behind check is passed.  One
\* that is found in the body moves the start of the body behind it.
PassLine(buf, q) ==
  LET line == ParseLine(buf, q.check)
      text == SubSeq(buf, q.start, line.check - 3)
      next == [q EXCEPT !.check = line.check, !.start = line.check]
  IN CASE q.state = "REQUESTLINE" -> ParseRequestLine(text, next)
       [] q.state = "HEADER" -> ParseHeaders(text, next)
       [] q.state = "BODY" -> ParseBody(buf, next)

\* The loop has another turn after this one.
GoesOn(buf, q) ==
  /\ ParseLine(buf, q.check).status = "OK"
  /\ q.state # "BODY"
  /\ PassLine(buf, q).code = "NO_REQUEST"

\* The parser after each turn that is not the last; there are fewer than units.
Turns(buf, q) ==
  LET turn[k \in 0..Len(buf)] ==
        IF k = 0 THEN q
        ELSE LET last == turn[k - 1]
             IN IF GoesOn(buf, last) THEN PassLine(buf, last) ELSE last
  IN turn

\* The last turn, which returns, and the end behind the loop.
LastTurn(buf, q) ==
  LET line == ParseLine(buf, q.check)
      seen == [q EXCEPT !.check = line.check]
  IN IF line.status = "OK" THEN PassLine(buf, q)
     ELSE IF q.state = "BODY" THEN ParseBody(buf, seen)
     ELSE IF line.status = "MORE" THEN seen
     ELSE [seen EXCEPT !.code = "BAD_REQUEST"]

\* parse_content: lines as long as there are any.
ParseContent(buf, q) == LastTurn(buf, Turns(buf, q)[Len(buf)])

\* More of the stream arrives, cut anywhere, and is parsed.
Receive ==
  /\ p.code = "NO_REQUEST"
  /\ \E n \in (read + 1)..Len(stream) :
       /\ read' = n
       /\ p' = ParseContent(SubSeq(stream, 1, n), p)
  /\ UNCHANGED stream

Next == Receive

Spec == Init /\ [][Next]_vars

------------------------------------------------------------------------------
(* What an HTTP request is, independently of how it is parsed.                 *)

LineEnds(s) == {i \in 1..(Len(s) - 1) : s[i] = "CR" /\ s[i + 1] = "LF"}

\* Where the empty line of s begins.
HeadEnds(s) == {i \in LineEnds(s) : i - 2 \in LineEnds(s)}
HasHead(s) == HeadEnds(s) # {}
HeadEnd(s) == Smallest(HeadEnds(s))

FirstLine(s) == SubSeq(s, 1, Smallest(LineEnds(s)) - 1)

\* The units of s before its empty line, or all of them.
HeadOf(s) == IF HasHead(s) THEN SubSeq(s, 1, HeadEnd(s) + 1) ELSE s

\* The places of Content-Length lines in the head of s.
LengthPlaces(s) ==
  {i \in 3..Len(HeadOf(s)) : s[i] \in LengthLines /\ i - 2 \in LineEnds(s)}

\* s can not be the beginning of a request.
Malformed(s) ==
  LET h == HeadOf(s) IN
  \/ \E i \in 1..(Len(h) - 1) : h[i] = "CR" /\ h[i + 1] # "LF"
  \/ LineEnds(s) # {} /\ \A m \in RequestLines : FirstLine(s) # <<m>>
  \/ \E i \in LengthPlaces(s) : s[i] = "lenNeg" /\ \E j \in LineEnds(h) : j > i

\* How many units of body the head announces.
BodyLength(s) ==
  IF FirstLine(s) # <<"POST">> \/ LengthPlaces(s) = {} THEN 0
  ELSE Value[s[CHOOSE i \in LengthPlaces(s) : \A j \in LengthPlaces(s) : j <= i]]

Complete(s) == HasHead(s) /\ Len(s) >= HeadEnd(s) + 1 + BodyLength(s)

Body(s) == SubSeq(s, HeadEnd(s) + 2, HeadEnd(s) + 1 + BodyLength(s))

\* The body of s has no line end.  The parser looks for lines there, too, and forgets what
\* lies before the end of one (WaitsOnlyForMore fails then).
PlainBody(s) == HasHead(s) => \A i \in LineEnds(s) : i <= HeadEnd(s)

------------------------------------------------------------------------------
\* A request is accepted only when it is all there, and with the body it has,
\* wherever the stream was cut.
AcceptedIsComplete ==
  p.code = "GET_REQUEST" => /\ ~Malformed(Buffer)
                            /\ Complete(Buffer)
                            /\ p.body = Body(Buffer)

\* ... and it is refused only when it can not become one.
RefusedIsMalformed == p.code = "BAD_REQUEST" => Malformed(Buffer)

\* The parser asks for more only when the client still owes something: else both
\* sides wait for each other.  (README.md:100: requests of GET and POST are handled.)
WaitsOnlyForMore ==
  read > 0 /\ p.code = "NO_REQUEST" => ~Complete(Buffer) /\ ~Malformed(Buffer)
==============================================================================
