--------------------------- MODULE HttpParseProofs ---------------------------
(* The request parser, for streams of any length cut anywhere into any number   *)
(* of reads.                                                                    *)
EXTENDS HttpParse, SequenceTheorems, WellFoundedInduction, TLAPS

Below == {e \in Nat \X Nat : e[1] < e[2]}

LEMMA LeastExists ==
  ASSUME NEW S \in SUBSET Nat, S # {}
  PROVE  \E x \in S : \A y \in S : x <= y
<1>1. OpToRel(<, Nat) = Below
  BY SMT DEF OpToRel, Below
<1>2. IsWellFoundedOn(Below, Nat)
  BY <1>1, NatLessThanWellFounded, Zenon
<1>3. \E x \in S : \A y \in S : ~(<<y, x>> \in Below)
  BY <1>2, WFMin
<1>4. PICK x \in S : \A y \in S : ~(<<y, x>> \in Below)
  BY <1>3
<1>5. ASSUME NEW y \in S PROVE x <= y
  <2>1. <<y, x>> \in Nat \X Nat /\ <<y, x>>[1] = y /\ <<y, x>>[2] = x
    OBVIOUS
  <2>2. ~(y < x)
    BY <1>4, <2>1 DEF Below
  <2> QED
    BY <2>2
<1> QED
  BY <1>5

LEMMA SmallestIs ==
  ASSUME NEW S \in SUBSET Nat, S # {}
  PROVE  Smallest(S) \in S /\ \A j \in S : Smallest(S) <= j
BY LeastExists DEF Smallest

------------------------------------------------------------------------------
(* The loop of parse_content.                                                  *)

ParserType ==
  [state : {"REQUESTLINE", "HEADER", "BODY"}, check : Nat, start : Nat,
   code : {"NO_REQUEST", "GET_REQUEST", "BAD_REQUEST"},
   method : RequestLines \cup {"none"}, length : Int, body : Seq(Units)]

Turn(buf, last) == IF GoesOn(buf, last) THEN PassLine(buf, last) ELSE last

AreTurns(buf, q, m, f) == f = [k \in 0..m |-> IF k = 0 THEN q ELSE Turn(buf, f[k - 1])]

\* The recursive definition of Turns has a solution.
LEMMA TurnsExist ==
  ASSUME NEW buf, NEW q, NEW n \in Nat
  PROVE  \E f : AreTurns(buf, q, n, f)
<1> DEFINE S == {m \in Nat : ~ \E f : AreTurns(buf, q, m, f)}
<1>1. SUFFICES ASSUME S # {} PROVE FALSE
  OBVIOUS
<1>2. PICK m \in S : \A k \in S : m <= k
  BY <1>1, LeastExists
<1>3. CASE m = 0
  <2> DEFINE f == [k \in 0..0 |-> q]
  <2>1. f = [k \in 0..0 |-> IF k = 0 THEN q ELSE Turn(buf, f[k - 1])]
    OBVIOUS
  <2> QED
    BY <1>3, <2>1 DEF AreTurns
<1>4. CASE m # 0
  <2>1. m - 1 \in Nat /\ m - 1 \notin S
    BY <1>2, <1>4
  <2>2. PICK g : AreTurns(buf, q, m - 1, g)
    BY <2>1
  <2>3. \A k \in 0..(m - 1) : g[k] = IF k = 0 THEN q ELSE Turn(buf, g[k - 1])
    BY <2>2 DEF AreTurns
  <2> DEFINE f == [k \in 0..m |-> IF k = 0 THEN q ELSE Turn(buf, g[k - 1])]
  <2>4. \A k \in 0..(m - 1) : f[k] = g[k]
    BY <1>2, <2>3
  <2> HIDE DEF f
  <2>5. ASSUME NEW k \in 0..m, k # 0 PROVE f[k - 1] = g[k - 1]
    BY <1>2, <2>4, <2>5
  <2>6. f = [k \in 0..m |-> IF k = 0 THEN q ELSE Turn(buf, f[k - 1])]
    BY <2>5 DEF f
  <2> QED
    BY <1>2, <2>6 DEF AreTurns
<1> QED
  BY <1>3, <1>4

LEMMA TurnsUnfold ==
  ASSUME NEW buf \in Seq(Units), NEW q
  PROVE  /\ Turns(buf, q)[0] = q
         /\ \A k \in 1..Len(buf) : Turns(buf, q)[k] = Turn(buf, Turns(buf, q)[k - 1])
<1> DEFINE A(f) == AreTurns(buf, q, Len(buf), f)
<1>1. \E g : A(g)
  <2>1. Len(buf) \in Nat
    OBVIOUS
  <2> QED
    BY <2>1, TurnsExist
<1>2. Turns(buf, q) = CHOOSE f : A(f)
  BY DEF Turns, Turn, AreTurns
<1>3. A(Turns(buf, q))
  BY <1>1, <1>2, Zenon
<1> QED
  BY <1>3 DEF AreTurns

------------------------------------------------------------------------------
(* What parse_line finds.                                                      *)

LineFound(buf, check, line) ==
  /\ line.check \in Nat /\ check <= line.check /\ line.check <= Len(buf) + 1
  /\ \/ /\ line.status = "OK"
        /\ check + 2 <= line.check
        /\ buf[line.check - 2] = "CR" /\ buf[line.check - 1] = "LF"
        /\ \A j \in check..(line.check - 3) : buf[j] # "CR"
     \/ /\ line.status = "MORE"
        /\ Len(buf) <= line.check
        /\ \A j \in check..(line.check - 1) : buf[j] # "CR"
     \/ /\ line.status = "BAD"
        /\ line.check < Len(buf)
        /\ buf[line.check] = "CR" /\ buf[line.check + 1] # "LF"
        /\ \A j \in check..(line.check - 1) : buf[j] # "CR"

LEMMA LineIsFound ==
  ASSUME NEW buf \in Seq(Units), NEW check \in Nat, 1 <= check, check <= Len(buf) + 1
  PROVE  LineFound(buf, check, ParseLine(buf, check))
<1> DEFINE crs == {i \in check..Len(buf) : buf[i] = "CR"}
           i == Smallest(crs)
<1>1. Len(buf) \in Nat
  OBVIOUS
<1>2. CASE crs = {}
  <2>1. ParseLine(buf, check) = [status |-> "MORE", check |-> Len(buf) + 1]
    BY <1>2 DEF ParseLine
  <2>2. \A j \in check..Len(buf) : buf[j] # "CR"
    BY <1>2
  <2> QED
    BY <1>1, <2>1, <2>2 DEF LineFound
<1>3. CASE crs # {}
  <2>1. i \in crs /\ \A j \in crs : i <= j
    <3>1. crs \in SUBSET Nat
      BY <1>1
    <3> HIDE DEF crs
    <3> QED
      BY <1>3, <3>1, SmallestIs
  <2>2. ParseLine(buf, check) =
          IF i = Len(buf) THEN [status |-> "MORE", check |-> i]
          ELSE IF buf[i + 1] = "LF" THEN [status |-> "OK", check |-> i + 2]
          ELSE [status |-> "BAD", check |-> i]
    BY <1>3 DEF ParseLine
  <2> HIDE DEF i
  <2>3. /\ i \in Nat /\ check <= i /\ i <= Len(buf) /\ buf[i] = "CR"
        /\ \A j \in check..(i - 1) : buf[j] # "CR"
    BY <1>1, <2>1
  <2> HIDE DEF crs
  <2>4. CASE i = Len(buf)
    BY <1>1, <2>2, <2>3, <2>4 DEF LineFound
  <2>5. CASE i # Len(buf) /\ buf[i + 1] = "LF"
    BY <1>1, <2>2, <2>3, <2>5 DEF LineFound
  <2>6. CASE i # Len(buf) /\ buf[i + 1] # "LF"
    BY <1>1, <2>2, <2>3, <2>6 DEF LineFound
  <2> QED
    BY <2>4, <2>5, <2>6
<1> QED
  BY <1>2, <1>3

\* A parser in its domain, with its indices in order, for a buffer of n units.
Fits(q, n) ==
  /\ q \in ParserType
  /\ 1 <= q.start /\ q.start <= q.check /\ q.check <= n + 1

LEMMA BodyFits ==
  ASSUME NEW buf \in Seq(Units), NEW q, Fits(q, Len(buf))
  PROVE  /\ Fits(ParseBody(buf, q), Len(buf))
         /\ ParseBody(buf, q) = IF HasBody(buf, q)
              THEN [q EXCEPT !.code = "GET_REQUEST",
                             !.body = SubSeq(buf, q.start, q.start + q.length - 1)]
              ELSE q
<1>1. q \in ParserType /\ q.start \in Nat /\ q.length \in Int
  BY DEF Fits, ParserType
<1>2. ASSUME HasBody(buf, q)
      PROVE  SubSeq(buf, q.start, q.start + q.length - 1) \in Seq(Units)
  <2>1. q.start + q.length - 1 <= Len(buf)
    BY <1>1, <1>2 DEF HasBody
  <2> QED
    BY <1>1, <2>1, SubSeqProperties DEF Fits
<1> QED
  BY <1>1, <1>2 DEF ParseBody, Fits, ParserType

LEMMA LineFits ==
  ASSUME NEW buf \in Seq(Units), NEW q, Fits(q, Len(buf)),
         ParseLine(buf, q.check).status = "OK"
  PROVE  /\ Fits(PassLine(buf, q), Len(buf))
         /\ q.state # "BODY" =>
              /\ PassLine(buf, q).check = ParseLine(buf, q.check).check
              /\ PassLine(buf, q).start = ParseLine(buf, q.check).check
         /\ q.check + 2 <= ParseLine(buf, q.check).check
<1> DEFINE line == ParseLine(buf, q.check)
           text == SubSeq(buf, q.start, line.check - 3)
           next == [q EXCEPT !.check = line.check, !.start = line.check]
<1>1. q \in ParserType /\ q.check \in Nat /\ 1 <= q.check /\ q.check <= Len(buf) + 1
  BY DEF Fits, ParserType
<1>2. LineFound(buf, q.check, line) /\ q.check + 2 <= line.check
  BY <1>1, LineIsFound DEF LineFound
<1> HIDE DEF line
<1>3. line.check \in Nat /\ 1 <= line.check /\ line.check <= Len(buf) + 1
  BY <1>1, <1>2 DEF LineFound
<1>4. Fits(next, Len(buf)) /\ next.check = line.check /\ next.start = line.check
  <2>1. next \in ParserType
    BY <1>1, <1>3 DEF ParserType
  <2>2. next.check = line.check /\ next.start = line.check
    BY <1>1 DEF ParserType
  <2> QED
    BY <1>3, <2>1, <2>2 DEF Fits
<1>5. text \in Seq(Units)
  BY <1>1, <1>3, SubSeqProperties DEF Fits, ParserType
<1> HIDE DEF next, text
<1>6. /\ q.state = "REQUESTLINE" => PassLine(buf, q) = ParseRequestLine(text, next)
      /\ q.state = "HEADER" => PassLine(buf, q) = ParseHeaders(text, next)
      /\ q.state = "BODY" => PassLine(buf, q) = ParseBody(buf, next)
  BY DEF PassLine, line, text, next
<1>7. CASE q.state = "REQUESTLINE"
  <2>1. CASE \E m \in RequestLines : text = <<m>>
    <3>1. text[1] \in RequestLines
      BY <2>1
    <3>2. <<>> \in Seq(Units)
      OBVIOUS
    <3>3. PassLine(buf, q) = [next EXCEPT !.method = text[1], !.length = 0,
                                          !.body = <<>>, !.state = "HEADER"]
      BY <1>6, <1>7, <2>1 DEF ParseRequestLine
    <3>4. next \in ParserType
      BY <1>4 DEF Fits
    <3>5. PassLine(buf, q) \in ParserType
      <4> DEFINE r == PassLine(buf, q)
      <4>1. r = [state |-> "HEADER", check |-> next.check, start |-> next.start,
                 code |-> next.code, method |-> text[1], length |-> 0, body |-> <<>>]
        BY <3>3, <3>4 DEF ParserType
      <4>2. /\ next.check \in Nat /\ next.start \in Nat
            /\ next.code \in {"NO_REQUEST", "GET_REQUEST", "BAD_REQUEST"}
        BY <3>4 DEF ParserType
      <4> HIDE DEF r
      <4>3. r \in ParserType
        BY <3>1, <3>2, <4>1, <4>2 DEF ParserType
      <4> QED
        BY <4>3 DEF r
    <3>6. PassLine(buf, q).check = next.check /\ PassLine(buf, q).start = next.start
      BY <3>3, <3>4 DEF ParserType
    <3> QED
      BY <1>2, <1>4, <3>5, <3>6 DEF Fits, line
  <2>2. CASE ~ \E m \in RequestLines : text = <<m>>
    BY <1>2, <1>4, <1>6, <1>7, <2>2 DEF ParseRequestLine, Fits, ParserType, line
  <2> QED
    BY <2>1, <2>2
<1>8. CASE q.state = "HEADER"
  <2>1. text # <<>> /\ text[1] \in LengthLines => Value[text[1]] \in Int
    BY DEF Value, LengthLines
  <2> QED
    BY <1>2, <1>4, <1>6, <1>8, <2>1 DEF ParseHeaders, TakeLength, Fits, ParserType, line
<1>9. CASE q.state = "BODY"
  BY <1>2, <1>4, <1>6, <1>9, BodyFits DEF line
<1> QED
  BY <1>1, <1>7, <1>8, <1>9 DEF ParserType

------------------------------------------------------------------------------
(* What the parser knows of the lines it has passed.  It is said of the whole   *)
(* stream s, of which the parser has seen a beginning only: so it stays true    *)
(* when more is read.                                                           *)

\* The Content-Length lines of s that begin before place e.
LengthsBefore(s, e) == {i \in 3..(e - 1) : s[i] \in LengthLines /\ i - 2 \in LineEnds(s)}

\* n is the length that the last of them announces, or 0.
Announced(s, e, n) ==
  \/ LengthsBefore(s, e) = {} /\ n = 0
  \/ \E i \in LengthsBefore(s, e) : /\ n = Value[s[i]]
                                    /\ \A j \in LengthsBefore(s, e) : j <= i

\* The request line and perhaps more lines have been passed.
Passed(s, q) ==
  /\ q.start - 2 \in LineEnds(s)
  /\ \A i \in 1..(q.start - 1) : s[i] = "CR" => i \in LineEnds(s)
  /\ 2 \in LineEnds(s)
  /\ q.method \in RequestLines /\ s[1] = q.method
  /\ Announced(s, q.start, q.length)
  /\ \A i \in LengthsBefore(s, q.start) : s[i] # "lenNeg"

\* The empty line is still to come, and no line ends between start and check.
InHead(s, q) ==
  /\ q.code = "NO_REQUEST" /\ q.body = <<>>
  /\ \/ q.state = "REQUESTLINE" /\ q.start = 1
     \/ q.state = "HEADER" /\ Passed(s, q)
  /\ \A i \in HeadEnds(s) : q.start <= i
  /\ \A i \in q.start..(q.check - 1) : s[i] # "CR"

\* The last line passed is the empty line.
HeadPassed(s, q) ==
  /\ Passed(s, q)
  /\ q.start - 2 \in HeadEnds(s)
  /\ \A i \in HeadEnds(s) : q.start - 2 <= i

InBody(s, q) ==
  /\ q.code = "NO_REQUEST" /\ q.state = "BODY" /\ q.body = <<>>
  /\ HeadPassed(s, q) /\ BodyFollows(q)

Going(s, q) == InHead(s, q) \/ InBody(s, q)

\* A request without a body has been taken.
TakenBare(s, q) ==
  /\ q.code = "GET_REQUEST" /\ q.body = <<>>
  /\ HeadPassed(s, q) /\ ~BodyFollows(q)

\* The first n units of s, as the buffer has them.
LEMMA BufferUnits ==
  ASSUME NEW s \in Seq(Units), NEW n \in 0..Len(s)
  PROVE  LET b == SubSeq(s, 1, n)
         IN /\ b \in Seq(Units) /\ Len(b) = n
            /\ \A i \in 1..n : b[i] = s[i]
            /\ LineEnds(b) = {i \in LineEnds(s) : i < n}
            /\ HeadEnds(b) = {i \in HeadEnds(s) : i < n}
<1> DEFINE b == SubSeq(s, 1, n)
<1>1. b \in Seq(Units) /\ Len(b) = n /\ \A i \in 1..n : b[i] = s[i]
  BY SubSeqProperties
<1> HIDE DEF b
<1>2. LineEnds(b) = {i \in LineEnds(s) : i < n}
  BY <1>1 DEF LineEnds
<1>3. \A i \in LineEnds(s) : i \in Int
  BY DEF LineEnds
<1>4. HeadEnds(b) = {i \in HeadEnds(s) : i < n}
  BY <1>2, <1>3 DEF HeadEnds
<1> QED
  BY <1>1, <1>2, <1>4 DEF b

\* Where a line ends there is a CR, and an LF behind it.
LEMMA LineEndUnits ==
  ASSUME NEW s \in Seq(Units), NEW i \in LineEnds(s)
  PROVE  /\ i \in Nat /\ 1 <= i /\ i + 1 <= Len(s)
         /\ s[i] = "CR" /\ s[i + 1] = "LF" /\ s[i + 1] # "CR"
BY DEF LineEnds

\* Passing a header line that is not empty.
LEMMA NextHeaderLine ==
  ASSUME NEW s \in Seq(Units), NEW q, NEW e \in Nat,
         q.start \in Nat, q.state = "HEADER", Passed(s, q),
         \A i \in HeadEnds(s) : q.start <= i,
         q.start < e - 2, e - 2 \in LineEnds(s),
         \A i \in q.start..(e - 3) : s[i] # "CR"
  PROVE  /\ \A i \in 1..(e - 1) : s[i] = "CR" => i \in LineEnds(s)
         /\ \A i \in HeadEnds(s) : e <= i
         /\ LengthsBefore(s, e) = LengthsBefore(s, q.start) \cup
              (IF s[q.start] \in LengthLines THEN {q.start} ELSE {})
         /\ 4 <= q.start
<1>1. q.start - 2 \in LineEnds(s) /\ 2 \in LineEnds(s)
  BY DEF Passed
<1>2. /\ s[q.start - 2] = "CR" /\ s[q.start - 1] = "LF" /\ 3 <= q.start
      /\ s[e - 2] = "CR" /\ s[e - 1] = "LF" /\ s[2] = "CR" /\ s[3] = "LF"
  BY <1>1, LineEndUnits
<1>3. s[1] # "CR"
  BY DEF Passed, RequestLines
<1>4. 4 <= q.start
  BY <1>1, <1>2, <1>3
<1>5. \A i \in 1..(e - 1) : s[i] = "CR" => i < q.start - 1 \/ i = e - 2
  BY <1>2, <1>4
<1>6. \A i \in 1..(e - 1) : s[i] = "CR" => i \in LineEnds(s)
  BY <1>4, <1>5 DEF Passed
<1>7. ASSUME NEW i \in HeadEnds(s), i < e PROVE FALSE
  <2>1. i \in LineEnds(s) /\ i - 2 \in LineEnds(s) /\ q.start <= i
    BY DEF HeadEnds
  <2>2. i \in Nat /\ s[i] = "CR" /\ s[i - 2] = "CR"
    BY <2>1, LineEndUnits
  <2>3. i = e - 2
    BY <1>4, <1>5, <1>7, <2>1, <2>2
  <2>4. e - 4 < q.start
    BY <2>2, <2>3
  <2>5. e - 4 = q.start - 1
    BY <1>4, <2>4
  <2> QED
    BY <1>2, <2>2, <2>3, <2>5
<1>8. ASSUME NEW i \in LineEnds(s), i + 2 \in q.start..(e - 1) PROVE i + 2 = q.start
  <2>1. i \in Nat /\ 1 <= i /\ s[i] = "CR"
    BY LineEndUnits
  <2>2. i < q.start - 1
    BY <1>4, <1>5, <1>8, <2>1
  <2> QED
    BY <1>2, <1>4, <1>8, <2>1, <2>2
<1>9. ASSUME NEW i \in q.start..(e - 1) PROVE i \in LengthsBefore(s, e) <=> i = q.start /\ s[i] \in LengthLines
  BY <1>1, <1>4, <1>8 DEF LengthsBefore
<1>10. ASSUME NEW i \in Int, i < q.start PROVE i \in LengthsBefore(s, e) <=> i \in LengthsBefore(s, q.start)
  BY <1>10 DEF LengthsBefore
<1>11. LengthsBefore(s, e) \subseteq 3..(e - 1) /\ LengthsBefore(s, q.start) \subseteq 3..(q.start - 1)
  BY DEF LengthsBefore
<1>12. LengthsBefore(s, e) = LengthsBefore(s, q.start) \cup
         (IF s[q.start] \in LengthLines THEN {q.start} ELSE {})
  BY <1>4, <1>9, <1>10, <1>11
<1>13. \A i \in HeadEnds(s) : e <= i
  BY <1>7, LineEndUnits DEF HeadEnds
<1> QED
  BY <1>4, <1>6, <1>12, <1>13

\* The head of a buffer that holds a line end at i, and no empty line before it,
\* goes on at least to there.
LEMMA HeadReaches ==
  ASSUME NEW b \in Seq(Units), NEW i \in 1..(Len(b) - 1),
         \A j \in HeadEnds(b) : i <= j
  PROVE  /\ HeadOf(b) \in Seq(Units)
         /\ i + 1 <= Len(HeadOf(b)) /\ Len(HeadOf(b)) <= Len(b)
         /\ \A j \in 1..Len(HeadOf(b)) : HeadOf(b)[j] = b[j]
<1>1. CASE HasHead(b)
  <2>1. HeadEnds(b) \in SUBSET Nat
    BY DEF HeadEnds, LineEnds
  <2>2. HeadEnd(b) \in HeadEnds(b)
    BY <1>1, <2>1, SmallestIs DEF HasHead, HeadEnd
  <2>3. HeadEnd(b) \in Nat /\ 1 <= HeadEnd(b) /\ HeadEnd(b) + 1 <= Len(b) /\ i <= HeadEnd(b)
    BY <2>2, LineEndUnits DEF HeadEnds
  <2>4. HeadOf(b) = SubSeq(b, 1, HeadEnd(b) + 1)
    BY <1>1 DEF HeadOf
  <2> QED
    BY <2>3, <2>4, SubSeqProperties
<1>2. CASE ~HasHead(b)
  BY <1>2 DEF HeadOf
<1> QED
  BY <1>1, <1>2

\* A line that ends in the buffer.
LEMMA LineInStream ==
  ASSUME NEW s \in Seq(Units), NEW n \in 0..Len(s), NEW q, Fits(q, n), InHead(s, q),
         ParseLine(SubSeq(s, 1, n), q.check).status = "OK"
  PROVE  LET e == ParseLine(SubSeq(s, 1, n), q.check).check
         IN /\ e \in Nat /\ q.start <= e - 2 /\ e <= n + 1
            /\ e - 2 \in LineEnds(s) /\ e - 2 \in LineEnds(SubSeq(s, 1, n))
            /\ \A i \in q.start..(e - 3) : s[i] # "CR"
<1> DEFINE b == SubSeq(s, 1, n)
           line == ParseLine(b, q.check)
<1>1. /\ b \in Seq(Units) /\ Len(b) = n /\ \A i \in 1..n : b[i] = s[i]
      /\ LineEnds(b) = {i \in LineEnds(s) : i < n}
  BY BufferUnits
<1>2. q.check \in Nat /\ q.start \in Nat /\ 1 <= q.start /\ q.start <= q.check /\ q.check <= n + 1
  BY DEF Fits, ParserType
<1>3. LineFound(b, q.check, line) /\ line.status = "OK"
  <2>1. line.status = "OK"
    OBVIOUS
  <2>2. q.check \in Nat /\ 1 <= q.check /\ q.check <= Len(b) + 1 /\ b \in Seq(Units)
    BY <1>1, <1>2
  <2> HIDE DEF b
  <2> QED
    BY <2>1, <2>2, LineIsFound
<1> HIDE DEF line, b
<1>4. /\ line.check \in Nat /\ q.check + 2 <= line.check /\ line.check <= n + 1
      /\ b[line.check - 2] = "CR" /\ b[line.check - 1] = "LF"
      /\ \A j \in q.check..(line.check - 3) : b[j] # "CR"
  BY <1>1, <1>3 DEF LineFound
<1>5. line.check - 2 \in LineEnds(b)
  <2>1. line.check - 2 \in 1..(Len(b) - 1) /\ line.check - 2 + 1 = line.check - 1
    BY <1>1, <1>2, <1>4
  <2> QED
    BY <1>4, <2>1 DEF LineEnds
<1>6. ASSUME NEW i \in q.start..(line.check - 3) PROVE s[i] # "CR"
  <2>1. i < q.check => s[i] # "CR"
    BY <1>2, <1>4 DEF InHead
  <2>2. i \in 1..n
    BY <1>2, <1>4
  <2>3. ~(i < q.check) => b[i] # "CR"
    BY <1>2, <1>4
  <2> QED
    BY <1>1, <2>1, <2>2, <2>3
<1> QED
  BY <1>1, <1>2, <1>4, <1>5, <1>6 DEF line, b

LEMMA RequestLinePassed ==
  ASSUME NEW s \in Seq(Units), NEW n \in 0..Len(s), NEW q, Fits(q, n), InHead(s, q),
         q.state = "REQUESTLINE",
         ParseLine(SubSeq(s, 1, n), q.check).status = "OK"
  PROVE  LET b == SubSeq(s, 1, n)
             r == PassLine(b, q)
         IN InHead(s, r) \/ (r.code = "BAD_REQUEST" /\ Malformed(b))
<1> DEFINE b == SubSeq(s, 1, n)
           r == PassLine(b, q)
           e == ParseLine(b, q.check).check
           text == SubSeq(b, q.start, e - 3)
           next == [q EXCEPT !.check = e, !.start = e]
<1> SUFFICES InHead(s, r) \/ (r.code = "BAD_REQUEST" /\ Malformed(b))
  OBVIOUS
<1>1. /\ b \in Seq(Units) /\ Len(b) = n /\ \A i \in 1..n : b[i] = s[i]
      /\ LineEnds(b) = {i \in LineEnds(s) : i < n}
  BY BufferUnits
<1>2. q \in ParserType /\ q.start = 1 /\ q.code = "NO_REQUEST"
  BY DEF Fits, ParserType, InHead, Passed
<1>3. /\ e \in Nat /\ q.start <= e - 2 /\ e <= n + 1
      /\ e - 2 \in LineEnds(s) /\ e - 2 \in LineEnds(b)
      /\ \A i \in q.start..(e - 3) : s[i] # "CR"
  BY LineInStream
<1>4. r = ParseRequestLine(text, next)
  BY DEF PassLine
<1> HIDE DEF e, b
<1>5. next \in ParserType /\ next.check = e /\ next.start = e /\ next.code = "NO_REQUEST"
  <2>1. next \in ParserType
    BY <1>2, <1>3 DEF ParserType
  <2> QED
    BY <1>2, <2>1 DEF ParserType
<1> HIDE DEF r, next
<1>6. text = SubSeq(b, 1, e - 3) /\ Len(text) = e - 3
      /\ \A i \in 1..(e - 3) : text[i] = s[i]
  BY <1>1, <1>2, <1>3, SubSeqProperties
<1>7. s[e - 2] = "CR" /\ s[e - 1] = "LF"
  BY <1>3, LineEndUnits
<1> HIDE DEF text
<1>8. CASE \E m \in RequestLines : text = <<m>>
  <2>1. PICK m \in RequestLines : text = <<m>>
    BY <1>8
  <2>2. e = 4 /\ s[1] = m
    <3>1. Len(text) = 1 /\ text[1] = m
      BY <2>1
    <3> QED
      BY <1>3, <1>6, <3>1
  <2>3. r = [next EXCEPT !.method = text[1], !.length = 0, !.body = <<>>, !.state = "HEADER"]
    BY <1>4, <1>8 DEF ParseRequestLine
  <2>4. /\ r.start = 4 /\ r.check = 4 /\ r.code = "NO_REQUEST" /\ r.state = "HEADER"
        /\ r.method = m /\ r.length = 0 /\ r.body = <<>>
    BY <1>5, <2>1, <2>2, <2>3 DEF ParserType
  <2>5. m # "CR" /\ s[2] = "CR" /\ s[3] = "LF" /\ 2 \in LineEnds(s)
    BY <1>3, <1>7, <2>2 DEF RequestLines
  <2>6. LengthsBefore(s, 4) = {}
    BY <2>5 DEF LengthsBefore, LengthLines
  <2>7. ASSUME NEW i \in HeadEnds(s) PROVE 4 <= i
    <3>1. i \in LineEnds(s) /\ i - 2 \in LineEnds(s)
      BY DEF HeadEnds
    <3>2. i \in Nat /\ i - 2 \in Nat /\ 1 <= i - 2 /\ s[i] = "CR"
      BY <3>1, LineEndUnits
    <3> QED
      BY <2>5, <3>2
  <2>8. Passed(s, r)
    BY <2>1, <2>2, <2>4, <2>5, <2>6 DEF Passed, Announced
  <2> QED
    BY <2>4, <2>7, <2>8 DEF InHead
<1>9. CASE ~ \E m \in RequestLines : text = <<m>>
  <2>1. r.code = "BAD_REQUEST"
    BY <1>4, <1>5, <1>9 DEF ParseRequestLine, ParserType
  <2>2. Smallest(LineEnds(b)) = e - 2
    <3>1. LineEnds(b) \in SUBSET Nat
      BY DEF LineEnds
    <3>2. Smallest(LineEnds(b)) \in LineEnds(b) /\ Smallest(LineEnds(b)) <= e - 2
      BY <1>3, <3>1, SmallestIs
    <3>3. Smallest(LineEnds(b)) \in LineEnds(s)
      BY <1>1, <3>2
    <3>4. s[Smallest(LineEnds(b))] = "CR" /\ Smallest(LineEnds(b)) \in Nat /\ 1 <= Smallest(LineEnds(b))
      BY <3>3, LineEndUnits
    <3> QED
      BY <1>2, <1>3, <3>2, <3>4
  <2>3. FirstLine(b) = text
    BY <1>3, <1>6, <2>2 DEF FirstLine
  <2>4. Malformed(b)
    BY <1>3, <1>9, <2>3 DEF Malformed
  <2> QED
    BY <2>1, <2>4
<1> QED
  BY <1>8, <1>9

\* What has been passed is told by these fields alone.
LEMMA PassedKept ==
  ASSUME NEW s, NEW q, NEW r, Passed(s, q), r.start = q.start, r.method = q.method,
         r.length = q.length
  PROVE  /\ Passed(s, r)
         /\ HeadPassed(s, q) => HeadPassed(s, r)
         /\ BodyFollows(r) <=> BodyFollows(q)
BY DEF Passed, HeadPassed, BodyFollows

LEMMA EmptyLinePassed ==
  ASSUME NEW s \in Seq(Units), NEW q, NEW e, q.start \in Nat, e = q.start + 2,
         q.start \in LineEnds(s), Passed(s, q), \A i \in HeadEnds(s) : q.start <= i,
         NEW r, r.start = e, r.method = q.method, r.length = q.length
  PROVE  HeadPassed(s, r)
<1>1. s[q.start] = "CR" /\ s[q.start + 1] = "LF"
  BY LineEndUnits
<1>2. LengthsBefore(s, e) = LengthsBefore(s, q.start)
  <2>1. s[q.start] \notin LengthLines /\ s[q.start + 1] \notin LengthLines
    BY <1>1 DEF LengthLines
  <2>2. \A i \in 3..(e - 1) : i \in 3..(q.start - 1) \/ i = q.start \/ i = q.start + 1
    OBVIOUS
  <2>3. \A i \in 3..(q.start - 1) : i \in 3..(e - 1)
    OBVIOUS
  <2> QED
    BY <2>1, <2>2, <2>3 DEF LengthsBefore
<1>3. \A i \in 1..(e - 1) : s[i] = "CR" => i \in LineEnds(s)
  BY <1>1 DEF Passed
<1>4. r.start - 2 = q.start
  OBVIOUS
<1>5. Announced(s, r.start, r.length) /\ \A i \in LengthsBefore(s, r.start) : s[i] # "lenNeg"
  BY <1>2 DEF Passed, Announced
<1>6. Passed(s, r)
  BY <1>3, <1>4, <1>5 DEF Passed
<1>7. q.start \in HeadEnds(s)
  BY DEF Passed, HeadEnds
<1> QED
  BY <1>4, <1>6, <1>7 DEF HeadPassed

LEMMA HeaderLinePassed ==
  ASSUME NEW s \in Seq(Units), NEW n \in 0..Len(s), NEW q, Fits(q, n), InHead(s, q),
         q.state = "HEADER",
         ParseLine(SubSeq(s, 1, n), q.check).status = "OK"
  PROVE  LET b == SubSeq(s, 1, n)
             r == PassLine(b, q)
         IN \/ Going(s, r)
            \/ TakenBare(s, r)
            \/ r.code = "BAD_REQUEST" /\ Malformed(b)
<1> DEFINE b == SubSeq(s, 1, n)
           r == PassLine(b, q)
           e == ParseLine(b, q.check).check
           text == SubSeq(b, q.start, e - 3)
           next == [q EXCEPT !.check = e, !.start = e]
<1> SUFFICES \/ Going(s, r)
             \/ TakenBare(s, r)
             \/ r.code = "BAD_REQUEST" /\ Malformed(b)
  OBVIOUS
<1>1. /\ b \in Seq(Units) /\ Len(b) = n /\ \A i \in 1..n : b[i] = s[i]
      /\ LineEnds(b) = {i \in LineEnds(s) : i < n}
      /\ HeadEnds(b) = {i \in HeadEnds(s) : i < n}
  BY BufferUnits
<1>2. /\ q \in ParserType /\ q.start \in Nat /\ 1 <= q.start /\ q.code = "NO_REQUEST"
      /\ Passed(s, q) /\ q.body = <<>> /\ \A i \in HeadEnds(s) : q.start <= i
  BY DEF Fits, ParserType, InHead
<1>3. /\ e \in Nat /\ q.start <= e - 2 /\ e <= n + 1
      /\ e - 2 \in LineEnds(s) /\ e - 2 \in LineEnds(b)
      /\ \A i \in q.start..(e - 3) : s[i] # "CR"
  BY LineInStream
<1>4. r = ParseHeaders(text, next)
  BY DEF PassLine
<1> HIDE DEF e, b
<1>5. /\ next \in ParserType /\ next.check = e /\ next.start = e /\ next.code = "NO_REQUEST"
      /\ next.method = q.method /\ next.length = q.length /\ next.body = q.body
      /\ next.state = "HEADER"
  <2>1. next \in ParserType
    BY <1>2, <1>3 DEF ParserType
  <2> QED
    BY <1>2, <2>1 DEF ParserType
<1> HIDE DEF r, next
<1>6. CASE e - 2 = q.start
  <2>1. text = <<>>
    BY <1>1, <1>3, <1>6, SubSeqProperties
  <2>2. HeadPassed(s, next)
    BY <1>2, <1>3, <1>5, <1>6, EmptyLinePassed
  <2>3. CASE BodyFollows(next)
    <3>1. r = [next EXCEPT !.state = "BODY"]
      BY <1>4, <2>1, <2>3 DEF ParseHeaders
    <3>2. /\ r.start = next.start /\ r.method = next.method /\ r.length = next.length
          /\ r.body = next.body /\ r.code = "NO_REQUEST" /\ r.state = "BODY"
      BY <1>5, <3>1 DEF ParserType
    <3> QED
      BY <1>2, <1>5, <2>2, <2>3, <3>2, PassedKept DEF HeadPassed, Going, InBody
  <2>4. CASE ~BodyFollows(next)
    <3>1. r = [next EXCEPT !.code = "GET_REQUEST"]
      BY <1>4, <2>1, <2>4 DEF ParseHeaders
    <3>2. /\ r.start = next.start /\ r.method = next.method /\ r.length = next.length
          /\ r.body = next.body /\ r.code = "GET_REQUEST"
      BY <1>5, <3>1 DEF ParserType
    <3> QED
      BY <1>2, <1>5, <2>2, <2>4, <3>2, PassedKept DEF HeadPassed, TakenBare
  <2> QED
    BY <2>3, <2>4
<1>7. CASE e - 2 # q.start
  <2>1. q.start < e - 2
    BY <1>2, <1>3, <1>7
  <2>2. /\ \A i \in 1..(e - 1) : s[i] = "CR" => i \in LineEnds(s)
        /\ \A i \in HeadEnds(s) : e <= i
        /\ LengthsBefore(s, e) = LengthsBefore(s, q.start) \cup
             (IF s[q.start] \in LengthLines THEN {q.start} ELSE {})
        /\ 4 <= q.start
    BY <1>2, <1>3, <2>1, NextHeaderLine
  <2>3. text # <<>> /\ text[1] = s[q.start]
    <3>1. Len(text) = e - 2 - q.start /\ text[1] = b[q.start]
      BY <1>1, <1>2, <1>3, <2>1, SubSeqProperties
    <3>2. q.start \in 1..n /\ Len(text) # 0
      BY <1>2, <1>3, <2>1, <3>1
    <3>3. b[q.start] = s[q.start]
      BY <1>1, <3>2
    <3> HIDE DEF text
    <3> QED
      BY <3>1, <3>2, <3>3
  <2>4. \A i \in LengthsBefore(s, q.start) : i <= q.start
    BY <1>2 DEF LengthsBefore
  <2>5. ASSUME NEW x, x.start = e, x.check = e, x.code = "NO_REQUEST", x.state = "HEADER",
               x.method = q.method, x.body = q.body,
               IF s[q.start] \in LengthLines THEN x.length = Value[s[q.start]] /\ s[q.start] # "lenNeg"
                                             ELSE x.length = q.length
        PROVE  Going(s, x)
    <3>1. Announced(s, x.start, x.length) /\ \A i \in LengthsBefore(s, x.start) : s[i] # "lenNeg"
      <4>1. CASE s[q.start] \in LengthLines
        BY <1>2, <2>2, <2>4, <2>5, <4>1 DEF Announced, Passed
      <4>2. CASE s[q.start] \notin LengthLines
        BY <1>2, <2>2, <2>5, <4>2 DEF Announced, Passed
      <4> QED
        BY <4>1, <4>2
    <3>2. Passed(s, x)
      BY <1>2, <1>3, <2>2, <2>5, <3>1 DEF Passed
    <3> QED
      BY <1>2, <1>3, <2>2, <2>5, <3>2 DEF Going, InHead
  <2>6. CASE s[q.start] \notin LengthLines
    <3>1. r = next
      BY <1>4, <2>3, <2>6 DEF ParseHeaders
    <3> QED
      BY <1>5, <2>5, <2>6, <3>1
  <2>7. CASE s[q.start] \in LengthLines /\ s[q.start] # "lenNeg"
    <3>1. Value[s[q.start]] \in Int /\ ~(Value[s[q.start]] < 0)
      BY <2>7 DEF Value, LengthLines
    <3>2. r = [next EXCEPT !.length = Value[s[q.start]]]
      BY <1>4, <2>3, <2>7, <3>1 DEF ParseHeaders, TakeLength
    <3>3. /\ r.start = e /\ r.check = e /\ r.code = "NO_REQUEST" /\ r.state = "HEADER"
          /\ r.method = q.method /\ r.body = q.body /\ r.length = Value[s[q.start]]
      BY <1>5, <3>2 DEF ParserType
    <3> QED
      BY <2>5, <2>7, <3>3
  <2>8. CASE s[q.start] = "lenNeg"
    <3>1. s[q.start] \in LengthLines /\ Value[s[q.start]] < 0
      BY <2>8 DEF Value, LengthLines
    <3>2. r = [next EXCEPT !.length = Value[s[q.start]], !.code = "BAD_REQUEST"]
      BY <1>4, <2>3, <3>1 DEF ParseHeaders, TakeLength
    <3>3. r.code = "BAD_REQUEST"
      BY <1>5, <3>2 DEF ParserType
    <3>4. e - 2 \in 1..(Len(b) - 1) /\ \A j \in HeadEnds(b) : e - 2 <= j
      <4>1. e - 2 \in 1..(Len(b) - 1)
        BY <1>3 DEF LineEnds
      <4>2. \A j \in HeadEnds(s) : j \in Nat
        BY DEF HeadEnds, LineEnds
      <4> QED
        BY <1>1, <1>3, <2>2, <4>1, <4>2
    <3>5. /\ HeadOf(b) \in Seq(Units)
          /\ e - 1 <= Len(HeadOf(b)) /\ Len(HeadOf(b)) <= n
          /\ \A j \in 1..Len(HeadOf(b)) : HeadOf(b)[j] = b[j]
      <4>1. /\ HeadOf(b) \in Seq(Units)
            /\ (e - 2) + 1 <= Len(HeadOf(b)) /\ Len(HeadOf(b)) <= Len(b)
            /\ \A j \in 1..Len(HeadOf(b)) : HeadOf(b)[j] = b[j]
        BY <1>1, <3>4, HeadReaches
      <4> QED
        BY <1>1, <1>3, <4>1
    <3>6. q.start \in LengthPlaces(b) /\ b[q.start] = "lenNeg"
      <4>1. q.start \in 3..Len(HeadOf(b)) /\ q.start \in 1..n
        BY <1>1, <1>2, <1>3, <2>1, <2>2, <3>5
      <4>2. q.start - 2 \in LineEnds(b)
        BY <1>1, <1>2, <1>3, <2>1 DEF Passed
      <4> QED
        BY <1>1, <2>8, <3>1, <4>1, <4>2 DEF LengthPlaces
    <3>7. e - 2 \in LineEnds(HeadOf(b))
      <4>1. b[e - 2] = "CR" /\ b[e - 2 + 1] = "LF"
        BY <1>3 DEF LineEnds
      <4>2. e - 2 \in 1..(Len(HeadOf(b)) - 1) /\ e - 2 + 1 \in 1..Len(HeadOf(b))
        BY <1>2, <1>3, <3>4, <3>5
      <4> QED
        BY <3>5, <4>1, <4>2 DEF LineEnds
    <3>8. Malformed(b)
      BY <2>1, <3>6, <3>7 DEF Malformed
    <3> QED
      BY <3>3, <3>8
  <2> QED
    BY <2>6, <2>7, <2>8
<1> QED
  BY <1>6, <1>7

------------------------------------------------------------------------------
(* The whole of parse_content.                                                 *)

LEMMA LinePassed ==
  ASSUME NEW s \in Seq(Units), NEW n \in 0..Len(s), NEW q, Fits(q, n), InHead(s, q),
         ParseLine(SubSeq(s, 1, n), q.check).status = "OK"
  PROVE  LET b == SubSeq(s, 1, n)
             r == PassLine(b, q)
         IN \/ Going(s, r)
            \/ TakenBare(s, r)
            \/ r.code = "BAD_REQUEST" /\ Malformed(b)
<1>1. q.state \in {"REQUESTLINE", "HEADER"}
  BY DEF InHead
<1> QED
  BY <1>1, RequestLinePassed, HeaderLinePassed DEF Going

LEMMA TurnByTurn ==
  ASSUME NEW s \in Seq(Units), NEW n \in 0..Len(s), NEW q
  PROVE  LET b == SubSeq(s, 1, n)
             t == Turns(b, q)
         IN t[0] = q /\ \A k \in 1..n : t[k] = Turn(b, t[k - 1])
<1> DEFINE b == SubSeq(s, 1, n)
<1>1. b \in Seq(Units) /\ Len(b) = n
  BY BufferUnits
<1> SUFFICES /\ Turns(b, q)[0] = q
             /\ \A k \in 1..n : Turns(b, q)[k] = Turn(b, Turns(b, q)[k - 1])
  OBVIOUS
<1> HIDE DEF b
<1> QED
  BY <1>1, TurnsUnfold

LEMMA TurnsFit ==
  ASSUME NEW s \in Seq(Units), NEW n \in 0..Len(s), NEW q, Fits(q, n)
  PROVE  LET b == SubSeq(s, 1, n)
         IN \A k \in 0..n : /\ Fits(Turns(b, q)[k], n)
                            /\ GoesOn(b, Turns(b, q)[k]) => 2 * k + 1 <= Turns(b, q)[k].check
<1> DEFINE b == SubSeq(s, 1, n)
           t == Turns(b, q)
           Good(k) == Fits(t[k], n) /\ (GoesOn(b, t[k]) => 2 * k + 1 <= t[k].check)
           S == {k \in 0..n : ~Good(k)}
<1>1. b \in Seq(Units) /\ Len(b) = n
  BY BufferUnits
<1> SUFFICES ASSUME S # {} PROVE FALSE
  OBVIOUS
<1>2. t[0] = q /\ \A k \in 1..n : t[k] = Turn(b, t[k - 1])
  BY TurnByTurn
<1> HIDE DEF b, t
<1>3. PICK k \in S : \A j \in S : k <= j
  <2>1. S \in SUBSET Nat
    OBVIOUS
  <2> HIDE DEF S
  <2> QED
    BY <2>1, LeastExists
<1>4. k # 0
  <2>1. Good(0)
    BY <1>2 DEF Fits, ParserType
  <2> QED
    BY <1>3, <2>1
<1>5. k - 1 \in 0..n /\ Good(k - 1) /\ t[k] = Turn(b, t[k - 1])
  BY <1>2, <1>3, <1>4
<1>6. CASE GoesOn(b, t[k - 1])
  <2>1. t[k] = PassLine(b, t[k - 1])
    BY <1>5, <1>6 DEF Turn
  <2>2. /\ Fits(t[k], n)
        /\ t[k].check = ParseLine(b, t[k - 1].check).check
        /\ t[k - 1].check + 2 <= ParseLine(b, t[k - 1].check).check
    BY <1>1, <1>5, <1>6, <2>1, LineFits DEF GoesOn
  <2>3. t[k - 1].check \in Nat /\ t[k].check \in Nat /\ 2 * (k - 1) + 1 <= t[k - 1].check
    BY <1>5, <1>6, <2>2 DEF Fits, ParserType
  <2>4. 2 * k + 1 <= t[k].check
    BY <1>3, <2>2, <2>3
  <2> QED
    BY <1>3, <2>2, <2>4
<1>7. CASE ~GoesOn(b, t[k - 1])
  BY <1>3, <1>5, <1>7 DEF Turn
<1> QED
  BY <1>6, <1>7

\* Every line is two units long at least: the last turn is among the turns.
LEMMA TurnsEnd ==
  ASSUME NEW s \in Seq(Units), NEW n \in 1..Len(s), NEW q, Fits(q, n)
  PROVE  LET b == SubSeq(s, 1, n)
         IN Fits(Turns(b, q)[n], n) /\ ~GoesOn(b, Turns(b, q)[n])
<1> DEFINE b == SubSeq(s, 1, n)
           r == Turns(b, q)[n]
<1>1. b \in Seq(Units) /\ Len(b) = n
  BY BufferUnits
<1>2. Fits(r, n) /\ (GoesOn(b, r) => 2 * n + 1 <= r.check)
  BY TurnsFit
<1> HIDE DEF b, r
<1>3. r.check \in Nat /\ r.check <= n + 1
  BY <1>2 DEF Fits, ParserType
<1>4. ~GoesOn(b, r)
  BY <1>2, <1>3
<1> QED
  BY <1>2, <1>4 DEF b, r

LEMMA TurnsGo ==
  ASSUME NEW s \in Seq(Units), NEW n \in 1..Len(s), NEW q, Fits(q, n), Going(s, q)
  PROVE  Going(s, Turns(SubSeq(s, 1, n), q)[n])
<1> DEFINE b == SubSeq(s, 1, n)
           t == Turns(b, q)
           S == {k \in 0..n : ~Going(s, t[k])}
<1>1. b \in Seq(Units) /\ Len(b) = n
  BY BufferUnits
<1> SUFFICES ASSUME S # {} PROVE FALSE
  OBVIOUS
<1>2. t[0] = q /\ \A k \in 1..n : t[k] = Turn(b, t[k - 1])
  BY TurnByTurn
<1>3. \A k \in 0..n : Fits(t[k], n)
  BY TurnsFit
<1> HIDE DEF t
<1>4. PICK k \in S : \A j \in S : k <= j
  <2>1. S \in SUBSET Nat
    OBVIOUS
  <2> HIDE DEF S
  <2> QED
    BY <2>1, LeastExists
<1>5. k # 0
  BY <1>2, <1>4
<1>6. /\ k - 1 \in 0..n /\ Going(s, t[k - 1]) /\ Fits(t[k - 1], n)
      /\ t[k] = Turn(b, t[k - 1])
  BY <1>2, <1>3, <1>4, <1>5
<1>7. GoesOn(b, t[k - 1])
  BY <1>4, <1>6 DEF Turn
<1>8. t[k] = PassLine(b, t[k - 1])
  BY <1>6, <1>7 DEF Turn
<1>9. InHead(s, t[k - 1])
  BY <1>6, <1>7 DEF GoesOn, Going, InBody
<1>10. t[k].code = "NO_REQUEST" /\ ParseLine(b, t[k - 1].check).status = "OK"
  BY <1>7, <1>8 DEF GoesOn
<1>11. Going(s, t[k])
  BY <1>6, <1>8, <1>9, <1>10, LinePassed DEF TakenBare
<1> QED
  BY <1>4, <1>11

\* In the body the loop returns at once.
LEMMA NoTurnsInBody ==
  ASSUME NEW s \in Seq(Units), NEW n \in 1..Len(s), NEW q, q.state = "BODY"
  PROVE  Turns(SubSeq(s, 1, n), q)[n] = q
<1> DEFINE b == SubSeq(s, 1, n)
           t == Turns(b, q)
           S == {k \in 0..n : t[k] # q}
<1>1. b \in Seq(Units) /\ Len(b) = n
  BY BufferUnits
<1> SUFFICES ASSUME S # {} PROVE FALSE
  OBVIOUS
<1>2. t[0] = q /\ \A k \in 1..n : t[k] = Turn(b, t[k - 1])
  BY TurnByTurn
<1> HIDE DEF t, b
<1>3. PICK k \in S : \A j \in S : k <= j
  <2>1. S \in SUBSET Nat
    OBVIOUS
  <2> HIDE DEF S
  <2> QED
    BY <2>1, LeastExists
<1>4. k # 0
  BY <1>2, <1>3
<1>5. k - 1 \in 0..n /\ t[k - 1] = q /\ t[k] = Turn(b, t[k - 1])
  BY <1>2, <1>3, <1>4
<1> QED
  BY <1>3, <1>5 DEF Turn, GoesOn

LEMMA CheckMoved ==
  ASSUME NEW buf \in Seq(Units), NEW q, Fits(q, Len(buf))
  PROVE  LET line == ParseLine(buf, q.check)
             seen == [q EXCEPT !.check = line.check]
         IN /\ LineFound(buf, q.check, line)
            /\ Fits(seen, Len(buf)) /\ seen.check = line.check
            /\ seen.state = q.state /\ seen.start = q.start /\ seen.code = q.code
            /\ seen.method = q.method /\ seen.length = q.length /\ seen.body = q.body
<1> DEFINE line == ParseLine(buf, q.check)
           seen == [q EXCEPT !.check = line.check]
<1>1. /\ q \in ParserType /\ q.check \in Nat /\ q.start \in Nat
      /\ 1 <= q.start /\ q.start <= q.check /\ q.check <= Len(buf) + 1
  BY DEF Fits, ParserType
<1>2. LineFound(buf, q.check, line)
  BY <1>1, LineIsFound
<1> HIDE DEF line
<1>3. line.check \in Nat /\ q.check <= line.check /\ line.check <= Len(buf) + 1
  BY <1>2 DEF LineFound
<1>4. seen \in ParserType /\ seen.check = line.check
  BY <1>1, <1>3 DEF ParserType
<1>5. /\ seen.state = q.state /\ seen.start = q.start /\ seen.code = q.code
      /\ seen.method = q.method /\ seen.length = q.length /\ seen.body = q.body
  BY <1>1 DEF ParserType
<1>6. Fits(seen, Len(buf))
  BY <1>1, <1>3, <1>4, <1>5 DEF Fits
<1> QED
  BY <1>2, <1>4, <1>5, <1>6 DEF line

LEMMA LastFits ==
  ASSUME NEW buf \in Seq(Units), NEW q, Fits(q, Len(buf))
  PROVE  Fits(LastTurn(buf, q), Len(buf))
<1> DEFINE line == ParseLine(buf, q.check)
           seen == [q EXCEPT !.check = line.check]
<1>1. Fits(seen, Len(buf))
  BY CheckMoved
<1>2. LastTurn(buf, q) = IF line.status = "OK" THEN PassLine(buf, q)
                         ELSE IF q.state = "BODY" THEN ParseBody(buf, seen)
                         ELSE IF line.status = "MORE" THEN seen
                         ELSE [seen EXCEPT !.code = "BAD_REQUEST"]
  BY DEF LastTurn
<1>3. line.status = "OK" => Fits(PassLine(buf, q), Len(buf))
  BY LineFits
<1> HIDE DEF line, seen
<1>4. Fits(ParseBody(buf, seen), Len(buf))
  BY <1>1, BodyFits
<1>5. Fits([seen EXCEPT !.code = "BAD_REQUEST"], Len(buf))
  BY <1>1 DEF Fits, ParserType
<1> QED
  BY <1>1, <1>2, <1>3, <1>4, <1>5

\* A CR without an LF, before the empty line.
LEMMA BrokenLineIsMalformed ==
  ASSUME NEW b \in Seq(Units), NEW i \in 1..(Len(b) - 1),
         b[i] = "CR", b[i + 1] # "LF", \A j \in HeadEnds(b) : i <= j
  PROVE  Malformed(b)
<1> DEFINE h == HeadOf(b)
<1>1. /\ h \in Seq(Units) /\ i + 1 <= Len(h) /\ Len(h) <= Len(b)
      /\ \A j \in 1..Len(h) : h[j] = b[j]
  BY HeadReaches
<1> HIDE DEF h
<1>2. i \in 1..(Len(h) - 1) /\ i + 1 \in 1..Len(h) /\ i \in 1..Len(h)
  BY <1>1
<1>3. h[i] = "CR" /\ h[i + 1] # "LF"
  BY <1>1, <1>2
<1> QED
  BY <1>2, <1>3 DEF Malformed, h

LEMMA LastInHead ==
  ASSUME NEW s \in Seq(Units), NEW n \in 1..Len(s), NEW q, Fits(q, n), InHead(s, q),
         ~GoesOn(SubSeq(s, 1, n), q)
  PROVE  LET b == SubSeq(s, 1, n)
             r == LastTurn(b, q)
         IN \/ InHead(s, r) /\ n <= r.check
            \/ TakenBare(s, r)
            \/ r.code = "BAD_REQUEST" /\ Malformed(b)
<1> DEFINE b == SubSeq(s, 1, n)
           r == LastTurn(b, q)
           line == ParseLine(b, q.check)
           seen == [q EXCEPT !.check = line.check]
<1> SUFFICES \/ InHead(s, r) /\ n <= r.check
             \/ TakenBare(s, r)
             \/ r.code = "BAD_REQUEST" /\ Malformed(b)
  OBVIOUS
<1>1. /\ b \in Seq(Units) /\ Len(b) = n /\ \A i \in 1..n : b[i] = s[i]
      /\ HeadEnds(b) = {i \in HeadEnds(s) : i < n}
  BY BufferUnits
<1>2. /\ LineFound(b, q.check, line)
      /\ Fits(seen, n) /\ seen.check = line.check
      /\ seen.state = q.state /\ seen.start = q.start /\ seen.code = q.code
      /\ seen.method = q.method /\ seen.length = q.length /\ seen.body = q.body
  <2> HIDE DEF b
  <2> QED
    BY <1>1, CheckMoved
<1>3. line.status = "OK" =>
        \/ Going(s, PassLine(b, q))
        \/ TakenBare(s, PassLine(b, q))
        \/ PassLine(b, q).code = "BAD_REQUEST" /\ Malformed(b)
  BY LinePassed
<1>4. r = IF line.status = "OK" THEN PassLine(b, q)
          ELSE IF q.state = "BODY" THEN ParseBody(b, seen)
          ELSE IF line.status = "MORE" THEN seen
          ELSE [seen EXCEPT !.code = "BAD_REQUEST"]
  BY DEF LastTurn
<1>5. GoesOn(b, q) <=> /\ line.status = "OK" /\ q.state # "BODY"
                       /\ PassLine(b, q).code = "NO_REQUEST"
  BY DEF GoesOn
<1>6. /\ q.start \in Nat /\ q.check \in Nat /\ 1 <= q.start /\ q.start <= q.check
      /\ q.state # "BODY"
  BY DEF Fits, ParserType, InHead
<1> HIDE DEF b, r, line, seen
<1>7. CASE line.status = "OK"
  BY <1>3, <1>4, <1>5, <1>6, <1>7 DEF b, Going, InHead, InBody
<1>8. CASE line.status # "OK"
  <2>1. /\ line.check \in Nat /\ q.check <= line.check /\ line.check <= n + 1
        /\ \A j \in q.check..(line.check - 1) : b[j] # "CR"
    BY <1>1, <1>2, <1>8 DEF LineFound
  <2>2. ASSUME NEW j \in q.start..(line.check - 1) PROVE s[j] # "CR"
    <3>1. j < q.check => s[j] # "CR"
      BY <1>6 DEF InHead
    <3>2. j \in 1..n
      BY <1>6, <2>1
    <3> QED
      BY <1>1, <1>6, <2>1, <3>1, <3>2
  <2>3. CASE line.status = "MORE"
    <3>1. r = seen /\ n <= line.check
      BY <1>1, <1>2, <1>4, <1>6, <1>8, <2>3 DEF LineFound
    <3>2. q.state = "HEADER" => Passed(s, seen)
      BY <1>2, PassedKept DEF InHead
    <3>3. InHead(s, seen)
      BY <1>2, <2>2, <3>2 DEF InHead
    <3> QED
      BY <1>2, <3>1, <3>3
  <2>4. CASE line.status # "MORE"
    <3>1. line.check < n /\ b[line.check] = "CR" /\ b[line.check + 1] # "LF"
      BY <1>1, <1>2, <1>8, <2>4 DEF LineFound
    <3>2. r.code = "BAD_REQUEST"
      BY <1>2, <1>4, <1>6, <1>8, <2>4 DEF Fits, ParserType
    <3>3. ASSUME NEW j \in HeadEnds(b) PROVE line.check <= j
      <4>1. j \in HeadEnds(s) /\ j < n
        BY <1>1
      <4>2. j \in Nat /\ s[j] = "CR" /\ q.start <= j
        BY <4>1, LineEndUnits DEF HeadEnds, InHead
      <4> QED
        BY <1>6, <2>1, <2>2, <4>2
    <3>4. line.check \in 1..(Len(b) - 1)
      BY <1>1, <1>6, <2>1, <3>1
    <3> QED
      BY <1>1, <3>1, <3>2, <3>3, <3>4, BrokenLineIsMalformed
  <2> QED
    BY <2>3, <2>4
<1> QED
  BY <1>7, <1>8

\* In the body nothing is refused, even when a line is found there.
LEMMA LastInAnyBody ==
  ASSUME NEW buf \in Seq(Units), NEW q, Fits(q, Len(buf)), q.state = "BODY",
         q.code = "NO_REQUEST"
  PROVE  LastTurn(buf, q).code # "BAD_REQUEST" /\ LastTurn(buf, q).state = "BODY"
<1> DEFINE line == ParseLine(buf, q.check)
           seen == [q EXCEPT !.check = line.check]
           next == [q EXCEPT !.check = line.check, !.start = line.check]
<1>1. /\ seen.state = "BODY" /\ seen.code = "NO_REQUEST" /\ seen \in ParserType
  BY CheckMoved DEF Fits
<1>2. next \in ParserType /\ next.state = "BODY" /\ next.code = "NO_REQUEST"
  <2>1. line.check \in Nat
    BY CheckMoved DEF LineFound
  <2> HIDE DEF line
  <2>2. next \in ParserType
    BY <2>1 DEF Fits, ParserType
  <2> QED
    BY <2>2 DEF Fits, ParserType
<1>3. LastTurn(buf, q) = IF line.status = "OK" THEN ParseBody(buf, next)
                                               ELSE ParseBody(buf, seen)
  BY DEF LastTurn, PassLine
<1> HIDE DEF line, seen, next
<1>4. ASSUME NEW x \in ParserType, x.state = "BODY", x.code = "NO_REQUEST"
      PROVE  ParseBody(buf, x).code # "BAD_REQUEST" /\ ParseBody(buf, x).state = "BODY"
  BY <1>4 DEF ParseBody, ParserType
<1> QED
  BY <1>1, <1>2, <1>3, <1>4

\* A request has been taken from buffer b with its body.
TakenWithBody(s, b, q) ==
  /\ q.code = "GET_REQUEST"
  /\ HeadPassed(s, q) /\ BodyFollows(q)
  /\ HasBody(b, q)
  /\ q.body = SubSeq(b, q.start, q.start + q.length - 1)

\* In a plain body no line is found.
LEMMA LastInBody ==
  ASSUME NEW s \in Seq(Units), NEW n \in 1..Len(s), NEW q, Fits(q, n), InBody(s, q),
         PlainBody(s)
  PROVE  LET b == SubSeq(s, 1, n)
             r == LastTurn(b, q)
         IN \/ InBody(s, r) /\ ~HasBody(b, r)
            \/ TakenWithBody(s, b, r)
<1> DEFINE b == SubSeq(s, 1, n)
           r == LastTurn(b, q)
           line == ParseLine(b, q.check)
           seen == [q EXCEPT !.check = line.check]
<1> SUFFICES \/ InBody(s, r) /\ ~HasBody(b, r)
             \/ TakenWithBody(s, b, r)
  OBVIOUS
<1>1. /\ b \in Seq(Units) /\ Len(b) = n /\ \A i \in 1..n : b[i] = s[i]
  BY BufferUnits
<1>2. /\ LineFound(b, q.check, line)
      /\ Fits(seen, n) /\ seen.check = line.check
      /\ seen.state = q.state /\ seen.start = q.start /\ seen.code = q.code
      /\ seen.method = q.method /\ seen.length = q.length /\ seen.body = q.body
  <2> HIDE DEF b
  <2> QED
    BY <1>1, CheckMoved
<1>3. line.status # "OK" => r = ParseBody(b, seen)
  BY DEF LastTurn, InBody
<1> HIDE DEF b, r, line, seen
<1>4. q.start \in Nat /\ q.check \in Nat /\ 1 <= q.start /\ q.start <= q.check
  BY DEF Fits, ParserType
<1>5. q.start - 2 \in HeadEnds(s) /\ HeadEnds(s) \in SUBSET Nat
  BY DEF InBody, HeadPassed, HeadEnds, LineEnds
<1>6. line.status # "OK"
  <2> SUFFICES ASSUME line.status = "OK" PROVE FALSE
    OBVIOUS
  <2>1. /\ line.check \in Nat /\ q.check + 2 <= line.check /\ line.check <= n + 1
        /\ b[line.check - 2] = "CR" /\ b[line.check - 1] = "LF"
    BY <1>1, <1>2 DEF LineFound
  <2>2. s[line.check - 2] = "CR" /\ s[line.check - 2 + 1] = "LF"
    BY <1>1, <1>4, <2>1
  <2>3. line.check - 2 \in LineEnds(s)
    BY <1>4, <2>1, <2>2 DEF LineEnds
  <2>4. HeadEnd(s) <= q.start - 2 /\ HasHead(s) /\ HeadEnd(s) \in Nat
    BY <1>5, SmallestIs DEF HeadEnd, HasHead
  <2>5. line.check - 2 <= HeadEnd(s)
    BY <2>3, <2>4 DEF PlainBody
  <2> QED
    BY <1>4, <2>1, <2>4, <2>5
<1>7. Fits(seen, Len(b)) /\ seen \in ParserType
  BY <1>1, <1>2 DEF Fits
<1>8. r = IF HasBody(b, seen)
            THEN [seen EXCEPT !.code = "GET_REQUEST",
                              !.body = SubSeq(b, seen.start, seen.start + seen.length - 1)]
            ELSE seen
  BY <1>1, <1>3, <1>6, <1>7, BodyFits
<1>9. HeadPassed(s, seen) /\ BodyFollows(seen)
  BY <1>2, PassedKept DEF InBody, HeadPassed
<1>10. CASE HasBody(b, seen)
  <2>1. r = [seen EXCEPT !.code = "GET_REQUEST",
                         !.body = SubSeq(b, seen.start, seen.start + seen.length - 1)]
    BY <1>8, <1>10
  <2>2. /\ r.start = seen.start /\ r.method = seen.method /\ r.length = seen.length
        /\ r.code = "GET_REQUEST" /\ r.body = SubSeq(b, seen.start, seen.start + seen.length - 1)
    BY <1>7, <2>1 DEF ParserType
  <2>3. HeadPassed(s, r) /\ BodyFollows(r)
    BY <1>9, <2>2, PassedKept DEF HeadPassed
  <2>4. HasBody(b, r)
    BY <1>10, <2>2 DEF HasBody
  <2> QED
    BY <2>2, <2>3, <2>4 DEF TakenWithBody
<1>11. CASE ~HasBody(b, seen)
  BY <1>2, <1>8, <1>9, <1>11 DEF InBody
<1> QED
  BY <1>10, <1>11

------------------------------------------------------------------------------
(* What parse_content leaves.                                                  *)

\* Of any stream.
LEMMA ContentParsed ==
  ASSUME NEW s \in Seq(Units), NEW n \in 1..Len(s), NEW q, Fits(q, n),
         q.code = "NO_REQUEST", q.state = "BODY" \/ InHead(s, q)
  PROVE  LET b == SubSeq(s, 1, n)
             r == ParseContent(b, q)
         IN /\ Fits(r, n)
            /\ r.code = "NO_REQUEST" => r.state = "BODY" \/ InHead(s, r)
            /\ r.code = "BAD_REQUEST" => Malformed(b)
<1> DEFINE b == SubSeq(s, 1, n)
           t == Turns(b, q)[n]
           r == ParseContent(b, q)
<1>1. b \in Seq(Units) /\ Len(b) = n
  BY BufferUnits
<1>2. r = LastTurn(b, t)
  <2> HIDE DEF b
  <2> QED
    BY <1>1 DEF ParseContent
<1>3. Fits(t, n) /\ ~GoesOn(b, t)
  BY TurnsEnd
<1>4. InHead(s, q) => Going(s, t)
  BY TurnsGo DEF Going
<1>5. q.state = "BODY" => t = q
  BY NoTurnsInBody
<1>6. InHead(s, t) \/ (t.state = "BODY" /\ t.code = "NO_REQUEST")
  BY <1>4, <1>5 DEF Going, InBody
<1> HIDE DEF t, r
<1>7. Fits(r, n)
  <2> HIDE DEF b
  <2> QED
    BY <1>1, <1>2, <1>3, LastFits
<1>8. CASE InHead(s, t)
  <2>1. \/ InHead(s, r) /\ n <= r.check
        \/ TakenBare(s, r)
        \/ r.code = "BAD_REQUEST" /\ Malformed(b)
    BY <1>2, <1>3, <1>8, LastInHead
  <2> HIDE DEF b
  <2>2. /\ r.code = "NO_REQUEST" => r.state = "BODY" \/ InHead(s, r)
        /\ r.code = "BAD_REQUEST" => Malformed(b)
    BY <2>1 DEF InHead, TakenBare
  <2> QED
    BY <1>7, <2>2 DEF b, r
<1>9. CASE t.state = "BODY" /\ t.code = "NO_REQUEST"
  <2> HIDE DEF b
  <2>1. r.code # "BAD_REQUEST" /\ r.state = "BODY"
    BY <1>1, <1>2, <1>3, <1>9, LastInAnyBody
  <2> QED
    BY <1>7, <2>1 DEF b, r
<1> QED
  BY <1>6, <1>8, <1>9

\* Of a stream whose body is plain.
Outcome(s, b, q) ==
  \/ InHead(s, q) /\ Len(b) <= q.check
  \/ InBody(s, q) /\ ~HasBody(b, q)
  \/ TakenBare(s, q)
  \/ TakenWithBody(s, b, q)
  \/ q.code = "BAD_REQUEST" /\ Malformed(b)

LEMMA PlainContentParsed ==
  ASSUME NEW s \in Seq(Units), NEW n \in 1..Len(s), NEW q, Fits(q, n), Going(s, q),
         PlainBody(s)
  PROVE  Outcome(s, SubSeq(s, 1, n), ParseContent(SubSeq(s, 1, n), q))
<1> DEFINE b == SubSeq(s, 1, n)
           t == Turns(b, q)[n]
           r == ParseContent(b, q)
<1>1. b \in Seq(Units) /\ Len(b) = n
  BY BufferUnits
<1>2. r = LastTurn(b, t)
  <2> HIDE DEF b
  <2> QED
    BY <1>1 DEF ParseContent
<1>3. Fits(t, n) /\ ~GoesOn(b, t) /\ Going(s, t)
  BY TurnsEnd, TurnsGo
<1> HIDE DEF t
<1>4. InHead(s, t) => \/ InHead(s, r) /\ n <= r.check
                      \/ TakenBare(s, r)
                      \/ r.code = "BAD_REQUEST" /\ Malformed(b)
  BY <1>2, <1>3, LastInHead
<1>5. InBody(s, t) => \/ InBody(s, r) /\ ~HasBody(b, r)
                      \/ TakenWithBody(s, b, r)
  BY <1>2, <1>3, LastInBody
<1> HIDE DEF b, r
<1>6. Outcome(s, b, r)
  BY <1>1, <1>3, <1>4, <1>5 DEF Outcome, Going
<1> QED
  BY <1>6 DEF b, r

------------------------------------------------------------------------------
(* What that means for the request in the buffer.                              *)

LEMMA FirstLineKnown ==
  ASSUME NEW s \in Seq(Units), NEW n \in 1..Len(s), NEW q, Passed(s, q), q.start \in Nat,
         q.start <= n + 1
  PROVE  /\ 4 <= q.start
         /\ FirstLine(SubSeq(s, 1, n)) = <<q.method>>
<1> DEFINE b == SubSeq(s, 1, n)
<1>1. /\ b \in Seq(Units) /\ Len(b) = n /\ \A i \in 1..n : b[i] = s[i]
      /\ LineEnds(b) = {i \in LineEnds(s) : i < n}
  BY BufferUnits
<1> HIDE DEF b
<1>2. q.start - 2 \in LineEnds(s) /\ 2 \in LineEnds(s) /\ s[1] = q.method /\ s[1] # "CR"
  BY DEF Passed, RequestLines
<1>3. /\ s[q.start - 2] = "CR" /\ s[q.start - 1] = "LF" /\ 1 <= q.start - 2
      /\ s[2] = "CR" /\ s[3] = "LF"
  BY <1>2, LineEndUnits
<1>4. 4 <= q.start
  BY <1>2, <1>3
<1>5. 2 \in LineEnds(b)
  BY <1>1, <1>2, <1>4
<1>6. Smallest(LineEnds(b)) \in LineEnds(b) /\ Smallest(LineEnds(b)) <= 2
  <2>1. LineEnds(b) \in SUBSET Nat
    BY DEF LineEnds
  <2> QED
    BY <1>5, <2>1, SmallestIs
<1>7. Smallest(LineEnds(b)) = 2
  <2>1. Smallest(LineEnds(b)) \in LineEnds(s)
    BY <1>1, <1>6
  <2>2. /\ Smallest(LineEnds(b)) \in Nat /\ 1 <= Smallest(LineEnds(b))
        /\ s[Smallest(LineEnds(b))] = "CR"
    BY <2>1, LineEndUnits
  <2> QED
    BY <1>2, <1>6, <2>2
<1>8. FirstLine(b) = SubSeq(b, 1, 1)
  BY <1>7 DEF FirstLine
<1>9. SubSeq(b, 1, 1) = <<b[1]>>
  <2>1. b[1] \in Units
    BY <1>1
  <2>2. <<b[1]>> \in Seq(Units) /\ Len(<<b[1]>>) = 1 /\ <<b[1]>>[1] = b[1]
    BY <2>1
  <2>3. /\ SubSeq(b, 1, 1) \in Seq(Units) /\ Len(SubSeq(b, 1, 1)) = 1
        /\ SubSeq(b, 1, 1)[1] = b[1]
    BY <1>1, <2>1, SubSeqProperties
  <2> DEFINE t == SubSeq(b, 1, 1)
             u == <<b[1]>>
  <2>4. /\ t \in Seq(Units) /\ u \in Seq(Units) /\ Len(t) = Len(u)
        /\ \A i \in 1..Len(t) : t[i] = u[i]
    BY <2>2, <2>3
  <2> HIDE DEF t, u
  <2>5. t = u
    BY <2>4, SeqEqual
  <2> QED
    BY <2>5 DEF t, u
<1> QED
  BY <1>1, <1>2, <1>4, <1>8, <1>9 DEF b

LEMMA HeadKnown ==
  ASSUME NEW s \in Seq(Units), NEW n \in 1..Len(s), NEW q, HeadPassed(s, q), q.start \in Nat,
         q.start <= n + 1
  PROVE  LET b == SubSeq(s, 1, n)
         IN /\ HasHead(b) /\ HeadEnd(b) = q.start - 2
            /\ HeadOf(b) \in Seq(Units) /\ Len(HeadOf(b)) = q.start - 1
            /\ \A i \in 1..(q.start - 1) : HeadOf(b)[i] = s[i]
            /\ LengthPlaces(b) = LengthsBefore(s, q.start)
<1> DEFINE b == SubSeq(s, 1, n)
<1>1. /\ b \in Seq(Units) /\ Len(b) = n /\ \A i \in 1..n : b[i] = s[i]
      /\ LineEnds(b) = {i \in LineEnds(s) : i < n}
      /\ HeadEnds(b) = {i \in HeadEnds(s) : i < n}
  BY BufferUnits
<1>2. 4 <= q.start
  BY FirstLineKnown DEF HeadPassed
<1> HIDE DEF b
<1>3. q.start - 2 \in HeadEnds(b) /\ HeadEnds(b) \in SUBSET Nat
  <2>1. q.start - 2 \in HeadEnds(b)
    BY <1>1, <1>2 DEF HeadPassed
  <2>2. HeadEnds(b) \in SUBSET Nat
    BY DEF HeadEnds, LineEnds
  <2> QED
    BY <2>1, <2>2
<1>4. HasHead(b) /\ HeadEnd(b) \in HeadEnds(b) /\ HeadEnd(b) <= q.start - 2
  BY <1>3, SmallestIs DEF HasHead, HeadEnd
<1>5. HeadEnd(b) = q.start - 2
  BY <1>1, <1>2, <1>3, <1>4 DEF HeadPassed
<1>6. HeadOf(b) = SubSeq(b, 1, q.start - 1)
  BY <1>2, <1>4, <1>5 DEF HeadOf
<1>7. /\ HeadOf(b) \in Seq(Units) /\ Len(HeadOf(b)) = q.start - 1
      /\ \A i \in 1..(q.start - 1) : HeadOf(b)[i] = s[i]
  BY <1>1, <1>2, <1>6, SubSeqProperties
<1>8. ASSUME NEW i \in 3..(q.start - 1)
      PROVE  b[i] = s[i] /\ (i - 2 \in LineEnds(b) <=> i - 2 \in LineEnds(s))
  BY <1>1, <1>2
<1>9. LengthPlaces(b) = LengthsBefore(s, q.start)
  BY <1>7, <1>8 DEF LengthPlaces, LengthsBefore
<1> QED
  BY <1>4, <1>5, <1>7, <1>9 DEF b

LEMMA HeadWellFormed ==
  ASSUME NEW s \in Seq(Units), NEW n \in 1..Len(s), NEW q, HeadPassed(s, q), q.start \in Nat,
         q.start <= n + 1
  PROVE  ~Malformed(SubSeq(s, 1, n))
<1> DEFINE b == SubSeq(s, 1, n)
           h == HeadOf(b)
<1>1. /\ b \in Seq(Units) /\ \A i \in 1..n : b[i] = s[i]
  BY BufferUnits
<1>2. /\ h \in Seq(Units) /\ Len(h) = q.start - 1
      /\ \A i \in 1..(q.start - 1) : h[i] = s[i]
      /\ LengthPlaces(b) = LengthsBefore(s, q.start)
  BY HeadKnown
<1>3. FirstLine(b) = <<q.method>> /\ q.method \in RequestLines
  BY FirstLineKnown DEF HeadPassed, Passed
<1> HIDE DEF b, h
<1>4. ASSUME NEW i \in 1..(Len(h) - 1), h[i] = "CR" PROVE h[i + 1] = "LF"
  <2>1. i \in 1..(q.start - 1) /\ i + 1 \in 1..(q.start - 1)
    BY <1>2
  <2>2. i \in LineEnds(s)
    BY <1>2, <1>4, <2>1 DEF HeadPassed, Passed
  <2> QED
    BY <1>2, <2>1, <2>2, LineEndUnits
<1>5. ASSUME NEW i \in LengthPlaces(b) PROVE b[i] # "lenNeg"
  <2>1. i \in LengthsBefore(s, q.start) /\ i \in 1..n
    BY <1>2 DEF LengthsBefore
  <2> QED
    BY <1>1, <2>1 DEF HeadPassed, Passed
<1>6. ~Malformed(b)
  BY <1>3, <1>4, <1>5 DEF Malformed, h
<1> QED
  BY <1>6 DEF b

LEMMA LengthKnown ==
  ASSUME NEW s \in Seq(Units), NEW n \in 1..Len(s), NEW q, HeadPassed(s, q), q.start \in Nat,
         q.start <= n + 1, q.length \in Int
  PROVE  BodyLength(SubSeq(s, 1, n)) = IF BodyFollows(q) THEN q.length ELSE 0
<1> DEFINE b == SubSeq(s, 1, n)
<1>1. /\ b \in Seq(Units) /\ \A i \in 1..n : b[i] = s[i]
  BY BufferUnits
<1>2. LengthPlaces(b) = LengthsBefore(s, q.start) /\ FirstLine(b) = <<q.method>>
  BY HeadKnown, FirstLineKnown DEF HeadPassed
<1> HIDE DEF b
<1>3. LengthPlaces(b) \in SUBSET (1..n)
  BY <1>2 DEF LengthsBefore
<1>4. CASE LengthPlaces(b) = {}
  <2>1. q.length = 0
    BY <1>2, <1>4 DEF HeadPassed, Passed, Announced
  <2>2. BodyLength(b) = 0
    BY <1>4 DEF BodyLength
  <2> QED
    BY <2>1, <2>2 DEF BodyFollows, b
<1>5. CASE LengthPlaces(b) # {}
  <2>1. PICK i \in LengthPlaces(b) : q.length = Value[s[i]] /\ \A j \in LengthPlaces(b) : j <= i
    BY <1>2, <1>5 DEF HeadPassed, Passed, Announced
  <2>2. \A k \in LengthPlaces(b) : (\A j \in LengthPlaces(b) : j <= k) => k = i
    BY <1>3, <2>1
  <2>3. (CHOOSE k \in LengthPlaces(b) : \A j \in LengthPlaces(b) : j <= k) = i
    BY <2>1, <2>2
  <2>4. b[i] = s[i]
    BY <1>1, <1>3
  <2>5. BodyLength(b) = IF q.method # "POST" THEN 0 ELSE q.length
    <3>1. q.method # "POST" <=> <<q.method>> # <<"POST">>
      OBVIOUS
    <3>2. BodyLength(b) = IF FirstLine(b) # <<"POST">> THEN 0 ELSE Value[b[i]]
      <4> DEFINE k == CHOOSE k \in LengthPlaces(b) : \A j \in LengthPlaces(b) : j <= k
      <4>1. BodyLength(b) = IF FirstLine(b) # <<"POST">> \/ LengthPlaces(b) = {}
                            THEN 0 ELSE Value[b[k]]
        BY DEF BodyLength
      <4>2. k = i
        BY <2>3
      <4> HIDE DEF k
      <4> QED
        BY <1>5, <4>1, <4>2
    <3> QED
      BY <1>2, <2>1, <2>4, <3>1, <3>2
  <2>6. q.length >= 0
    <3>1. s[i] \in LengthLines /\ s[i] # "lenNeg"
      BY <1>2 DEF HeadPassed, Passed, LengthsBefore
    <3>2. Value[s[i]] >= 0
      BY <3>1 DEF LengthLines, Value
    <3> QED
      BY <2>1, <3>2
  <2> QED
    BY <2>5, <2>6 DEF BodyFollows, b
<1> QED
  BY <1>4, <1>5

LEMMA TakenIsComplete ==
  ASSUME NEW s \in Seq(Units), NEW n \in 1..Len(s), NEW q, Fits(q, n),
         TakenBare(s, q) \/ TakenWithBody(s, SubSeq(s, 1, n), q)
  PROVE  LET b == SubSeq(s, 1, n)
         IN ~Malformed(b) /\ Complete(b) /\ q.body = Body(b)
<1> DEFINE b == SubSeq(s, 1, n)
<1>1. b \in Seq(Units) /\ Len(b) = n
  BY BufferUnits
<1>2. /\ HeadPassed(s, q) /\ q.start \in Nat /\ 1 <= q.start /\ q.start <= n + 1
      /\ q.length \in Int
  BY DEF TakenBare, TakenWithBody, Fits, ParserType
<1>3. /\ ~Malformed(b) /\ HasHead(b) /\ HeadEnd(b) = q.start - 2
      /\ BodyLength(b) = IF BodyFollows(q) THEN q.length ELSE 0
  BY <1>2, HeadWellFormed, HeadKnown, LengthKnown
<1> SUFFICES Complete(b) /\ q.body = Body(b)
  BY <1>3
<1>4. CASE TakenBare(s, q)
  <2> HIDE DEF b
  <2>1. BodyLength(b) = 0 /\ q.body = <<>>
    BY <1>3, <1>4 DEF TakenBare
  <2>2. Body(b) = SubSeq(b, q.start, q.start - 1)
    BY <1>2, <1>3, <2>1 DEF Body
  <2>3. SubSeq(b, q.start, q.start - 1) = <<>>
    BY <1>1, <1>2, SubSeqProperties
  <2>4. HeadEnd(b) + 1 + BodyLength(b) = q.start - 1
    <3>1. HeadEnd(b) = q.start - 2
      BY <1>3
    <3> QED
      BY <1>2, <2>1, <3>1
  <2>5. Len(b) >= HeadEnd(b) + 1 + BodyLength(b)
    BY <1>1, <1>2, <2>4
  <2> QED
    BY <1>3, <2>1, <2>2, <2>3, <2>5 DEF Complete
<1>5. CASE TakenWithBody(s, b, q)
  <2> HIDE DEF b
  <2>1. BodyLength(b) = q.length /\ q.body = SubSeq(b, q.start, q.start + q.length - 1)
    BY <1>3, <1>5 DEF TakenWithBody
  <2>2. HeadEnd(b) + 2 = q.start /\ HeadEnd(b) + 1 + BodyLength(b) = q.start + q.length - 1
    <3>1. HeadEnd(b) = q.start - 2 /\ BodyLength(b) = q.length
      BY <1>3, <2>1
    <3> QED
      BY <1>2, <3>1
  <2>3. n + 1 - q.start >= q.length
    BY <1>1, <1>5 DEF TakenWithBody, HasBody
  <2>4. Len(b) >= HeadEnd(b) + 1 + BodyLength(b)
    BY <1>1, <1>2, <2>2, <2>3
  <2>5. Body(b) = SubSeq(b, q.start, q.start + q.length - 1)
    BY <2>2 DEF Body
  <2> QED
    BY <1>3, <2>1, <2>4, <2>5 DEF Complete
<1> QED
  BY <1>4, <1>5

LEMMA HeadIsAwaited ==
  ASSUME NEW s \in Seq(Units), NEW n \in 1..Len(s), NEW q, Fits(q, n), InHead(s, q),
         n <= q.check
  PROVE  ~Complete(SubSeq(s, 1, n)) /\ ~Malformed(SubSeq(s, 1, n))
<1> DEFINE b == SubSeq(s, 1, n)
<1>1. /\ b \in Seq(Units) /\ Len(b) = n /\ \A i \in 1..n : b[i] = s[i]
      /\ LineEnds(b) = {i \in LineEnds(s) : i < n}
      /\ HeadEnds(b) = {i \in HeadEnds(s) : i < n}
  BY BufferUnits
<1>2. q.start \in Nat /\ q.check \in Nat /\ 1 <= q.start /\ q.start <= q.check /\ q.check <= n + 1
  BY DEF Fits, ParserType
<1>3. q.state = "HEADER" => 4 <= q.start /\ FirstLine(b) = <<q.method>> /\ q.method \in RequestLines
  BY <1>2, FirstLineKnown DEF InHead, Passed
<1> HIDE DEF b
<1>4. ASSUME NEW i \in LineEnds(b) PROVE i \in Nat /\ 1 <= i /\ i < q.start
  <2>1. i \in LineEnds(s) /\ i < n
    BY <1>1
  <2>2. i \in Nat /\ 1 <= i /\ s[i] = "CR"
    BY <2>1, LineEndUnits
  <2>3. ~(i \in q.start..(q.check - 1))
    BY <2>2 DEF InHead
  <2> QED
    BY <1>2, <2>1, <2>2, <2>3
<1>5. HeadEnds(b) = {}
  <2> SUFFICES ASSUME NEW i \in HeadEnds(b) PROVE FALSE
    OBVIOUS
  <2>1. i \in LineEnds(b) /\ q.start <= i
    BY <1>1 DEF HeadEnds, InHead
  <2> QED
    BY <1>2, <1>4, <2>1
<1>6. ~HasHead(b) /\ HeadOf(b) = b
  BY <1>5 DEF HasHead, HeadOf
<1>7. ASSUME NEW i \in 1..(Len(b) - 1), b[i] = "CR" PROVE b[i + 1] = "LF"
  <2>1. s[i] = "CR" /\ i \in 1..n /\ i + 1 \in 1..n
    BY <1>1, <1>7
  <2>2. i < q.start
    BY <1>1, <1>2, <2>1 DEF InHead
  <2>3. Passed(s, q)
    BY <1>2, <2>1, <2>2 DEF InHead
  <2>4. i \in LineEnds(s)
    BY <1>2, <2>1, <2>2, <2>3 DEF Passed
  <2> QED
    BY <1>1, <2>1, <2>4, LineEndUnits
<1>8. LineEnds(b) # {} => \E m \in RequestLines : FirstLine(b) = <<m>>
  BY <1>2, <1>3, <1>4 DEF InHead
<1>9. ASSUME NEW i \in LengthPlaces(b), b[i] = "lenNeg", NEW j \in LineEnds(HeadOf(b)), j > i
      PROVE  FALSE
  <2>1. i \in 3..n /\ s[i] \in LengthLines /\ i - 2 \in LineEnds(b) /\ s[i] = "lenNeg"
    BY <1>1, <1>6, <1>9 DEF LengthPlaces
  <2>2. i < q.start
    <3>1. j \in LineEnds(b)
      BY <1>6
    <3>2. j \in Nat /\ j < q.start
      BY <1>4, <3>1
    <3> QED
      BY <1>2, <1>9, <2>1, <3>2
  <2>3. i \in LengthsBefore(s, q.start)
    BY <1>1, <1>2, <2>1, <2>2 DEF LengthsBefore
  <2>4. Passed(s, q)
    BY <2>1, <2>2 DEF InHead
  <2> QED
    BY <2>1, <2>3, <2>4 DEF Passed
<1>10. ~Malformed(b)
  BY <1>6, <1>7, <1>8, <1>9 DEF Malformed
<1>11. ~Complete(b)
  BY <1>6 DEF Complete
<1> QED
  BY <1>10, <1>11 DEF b

LEMMA BodyIsAwaited ==
  ASSUME NEW s \in Seq(Units), NEW n \in 1..Len(s), NEW q, Fits(q, n), InBody(s, q),
         ~HasBody(SubSeq(s, 1, n), q)
  PROVE  ~Complete(SubSeq(s, 1, n)) /\ ~Malformed(SubSeq(s, 1, n))
<1> DEFINE b == SubSeq(s, 1, n)
<1>1. Len(b) = n
  BY BufferUnits
<1>2. /\ HeadPassed(s, q) /\ q.start \in Nat /\ 1 <= q.start /\ q.start <= n + 1
      /\ q.length \in Int /\ BodyFollows(q)
  BY DEF InBody, Fits, ParserType
<1>3. ~Malformed(b) /\ HeadEnd(b) = q.start - 2 /\ BodyLength(b) = q.length
  BY <1>2, HeadWellFormed, HeadKnown, LengthKnown
<1>4. ~(n + 1 - q.start >= q.length)
  BY <1>1 DEF HasBody
<1> HIDE DEF b
<1>5. HeadEnd(b) + 1 + BodyLength(b) = q.start - 1 + q.length
  <2>1. HeadEnd(b) = q.start - 2 /\ BodyLength(b) = q.length
    BY <1>3
  <2> QED
    BY <1>2, <2>1
<1>6. ~(Len(b) >= HeadEnd(b) + 1 + BodyLength(b))
  BY <1>1, <1>2, <1>4, <1>5
<1> QED
  BY <1>3, <1>6 DEF Complete, b

------------------------------------------------------------------------------
(* The theorems.                                                               *)

\* Of every stream: parse_content's indices and, in the head, what it has passed.
Parsing ==
  /\ TypeOK
  /\ p.code = "NO_REQUEST" => p.state = "BODY" \/ InHead(stream, p)
  /\ RefusedIsMalformed

LEMMA InitialParser ==
  ASSUME Init
  PROVE  Fits(p, 0) /\ stream \in Seq(Units) /\ read = 0 /\ InHead(stream, p)
<1>1. stream \in Seq(Units)
  BY StreamsAssumption DEF Init
<1>2. p = [state |-> "REQUESTLINE", check |-> 1, start |-> 1, code |-> "NO_REQUEST",
           method |-> "none", length |-> 0, body |-> <<>>]
  BY DEF Init
<1>3. Fits(p, 0)
  BY <1>2 DEF Fits, ParserType
<1>4. \A i \in HeadEnds(stream) : 1 <= i
  BY LineEndUnits, <1>1 DEF HeadEnds
<1> QED
  BY <1>1, <1>2, <1>3, <1>4 DEF Init, InHead

LEMMA FitsMore ==
  ASSUME NEW q, NEW m \in Nat, NEW n \in Nat, m <= n, Fits(q, m)
  PROVE  Fits(q, n)
BY DEF Fits, ParserType

LEMMA TypeIsFit ==
  TypeOK <=> stream \in Streams /\ read \in 0..Len(stream) /\ Fits(p, read)
BY DEF TypeOK, Fits, ParserType

LEMMA ParsingStep ==
  ASSUME Parsing, [Next]_vars
  PROVE  Parsing'
<1>1. CASE UNCHANGED vars
  BY <1>1 DEF Parsing, vars, TypeOK, RefusedIsMalformed, Buffer
<1>2. CASE Receive
  <2>1. PICK n \in (read + 1)..Len(stream) :
          read' = n /\ p' = ParseContent(SubSeq(stream, 1, n), p)
    BY <1>2 DEF Receive
  <2>2. stream' = stream /\ p.code = "NO_REQUEST"
    BY <1>2 DEF Receive
  <2>3. /\ stream \in Seq(Units) /\ stream \in Streams /\ n \in 1..Len(stream)
        /\ Fits(p, n)
    BY TypeIsFit, FitsMore, StreamsAssumption DEF Parsing
  <2>4. /\ Fits(p', n)
        /\ p'.code = "NO_REQUEST" => p'.state = "BODY" \/ InHead(stream, p')
        /\ p'.code = "BAD_REQUEST" => Malformed(SubSeq(stream, 1, n))
    BY <2>1, <2>2, <2>3, ContentParsed DEF Parsing
  <2>5. TypeOK'
    BY <2>1, <2>2, <2>3, <2>4 DEF TypeOK, Fits, ParserType
  <2> QED
    BY <2>1, <2>2, <2>4, <2>5 DEF Parsing, RefusedIsMalformed, Buffer
<1> QED
  BY <1>1, <1>2 DEF Next

LEMMA AlwaysParsing == Spec => []Parsing
<1>1. Init => Parsing
  <2> SUFFICES ASSUME Init PROVE Parsing
    OBVIOUS
  <2>1. p.code = "NO_REQUEST" /\ stream \in Streams
    BY DEF Init
  <2>2. TypeOK
    BY <2>1, InitialParser, TypeIsFit
  <2> QED
    BY <2>1, <2>2, InitialParser DEF Parsing, RefusedIsMalformed
<1> QED
  BY <1>1, ParsingStep, PTL DEF Spec

\* parse_content never looks behind what was read, nor before the line it is in,
\* wherever recv cuts the stream.
THEOREM TypeCorrect == Spec => []TypeOK
BY AlwaysParsing, PTL DEF Parsing

\* A request is refused only if it can not become one, for every stream.
THEOREM RefusalsAreJust == Spec => []RefusedIsMalformed
BY AlwaysParsing, PTL DEF Parsing

\* Of streams whose bodies are plain.
PlainStreams == \A s \in Streams : PlainBody(s)

Known == \/ read = 0 /\ InHead(stream, p)
         \/ read > 0 /\ Outcome(stream, Buffer, p)

LEMMA KnownStep ==
  ASSUME PlainStreams, Parsing, Known, [Next]_vars
  PROVE  Known'
<1>1. CASE UNCHANGED vars
  BY <1>1 DEF Known, vars, Buffer
<1>2. CASE Receive
  <2>1. PICK n \in (read + 1)..Len(stream) :
          read' = n /\ p' = ParseContent(SubSeq(stream, 1, n), p)
    BY <1>2 DEF Receive
  <2>2. stream' = stream /\ p.code = "NO_REQUEST"
    BY <1>2 DEF Receive
  <2>3. /\ stream \in Seq(Units) /\ stream \in Streams /\ n \in 1..Len(stream)
        /\ Fits(p, n) /\ n > 0
    BY TypeIsFit, FitsMore, StreamsAssumption DEF Parsing
  <2>4. Going(stream, p)
    BY <2>2 DEF Known, Outcome, Going, TakenBare, TakenWithBody
  <2>5. Outcome(stream, SubSeq(stream, 1, n), p')
    BY <2>1, <2>3, <2>4, PlainContentParsed DEF PlainStreams
  <2> QED
    BY <2>1, <2>2, <2>3, <2>5 DEF Known, Buffer
<1> QED
  BY <1>1, <1>2 DEF Next

LEMMA AlwaysKnown ==
  ASSUME PlainStreams
  PROVE  Spec => []Known
<1>1. Init => Known
  BY InitialParser DEF Known
<1>2. Parsing /\ Known /\ [Next]_vars => Known'
  BY KnownStep
<1> QED
  BY <1>1, <1>2, AlwaysParsing, PTL DEF Spec

LEMMA KnownImplies ==
  ASSUME Parsing, Known
  PROVE  AcceptedIsComplete /\ WaitsOnlyForMore
<1>1. /\ stream \in Seq(Units) /\ read \in 0..Len(stream) /\ Fits(p, read)
      /\ Buffer = SubSeq(stream, 1, read)
  BY TypeIsFit, StreamsAssumption DEF Parsing, Buffer
<1>2. CASE read = 0
  BY <1>2 DEF Known, AcceptedIsComplete, WaitsOnlyForMore, InHead
<1>3. CASE read > 0
  <2>1. Outcome(stream, Buffer, p) /\ read \in 1..Len(stream) /\ Len(Buffer) = read
    BY <1>1, <1>3, BufferUnits DEF Known
  <2>2. CASE InHead(stream, p) /\ Len(Buffer) <= p.check
    <3>1. ~Complete(Buffer) /\ ~Malformed(Buffer) /\ p.code = "NO_REQUEST"
      BY <1>1, <2>1, <2>2, HeadIsAwaited DEF InHead
    <3> QED
      BY <3>1 DEF AcceptedIsComplete, WaitsOnlyForMore
  <2>3. CASE InBody(stream, p) /\ ~HasBody(Buffer, p)
    <3>1. ~Complete(Buffer) /\ ~Malformed(Buffer) /\ p.code = "NO_REQUEST"
      BY <1>1, <2>1, <2>3, BodyIsAwaited DEF InBody
    <3> QED
      BY <3>1 DEF AcceptedIsComplete, WaitsOnlyForMore
  <2>4. CASE TakenBare(stream, p) \/ TakenWithBody(stream, Buffer, p)
    <3>1. /\ ~Malformed(Buffer) /\ Complete(Buffer) /\ p.body = Body(Buffer)
          /\ p.code = "GET_REQUEST"
      BY <1>1, <2>1, <2>4, TakenIsComplete DEF TakenBare, TakenWithBody
    <3> QED
      BY <3>1 DEF AcceptedIsComplete, WaitsOnlyForMore
  <2>5. CASE p.code = "BAD_REQUEST"
    BY <2>5 DEF AcceptedIsComplete, WaitsOnlyForMore
  <2> QED
    BY <2>1, <2>2, <2>3, <2>4, <2>5 DEF Outcome
<1> QED
  BY <1>1, <1>2, <1>3

\* A request is accepted only when it is all there, with its own body: for heads
\* of any length and any bodies without line ends, cut anywhere.
THEOREM AcceptsWholeRequests ==
  ASSUME PlainStreams
  PROVE  Spec => []AcceptedIsComplete
BY AlwaysParsing, AlwaysKnown, KnownImplies, PTL

\* For the same streams: the parser never asks for more of a request that is there
\* or can not become one, so that server and client do not wait for each other.
THEOREM WaitsAreJust ==
  ASSUME PlainStreams
  PROVE  Spec => []WaitsOnlyForMore
BY AlwaysParsing, AlwaysKnown, KnownImplies, PTL

==============================================================================
