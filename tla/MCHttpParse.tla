----------------------------- MODULE MCHttpParse -----------------------------
(* Streams for HttpParse: heads of up to two header lines, at most one of their *)
(* line ends damaged, and bodies of up to two units.                            *)
EXTENDS HttpParse

CRLF == <<"CR", "LF">>
Damaged == {<<"CR">>, <<"LF">>}
HeaderLines == {"len1", "len2", "lenNeg", "hdr"}

\* A head from its lines, with the i-th line end replaced by e.
RECURSIVE Ended(_, _, _)
Ended(lines, i, e) ==
  IF lines = <<>> THEN <<>>
  ELSE lines[1] \o (IF i = 1 THEN e ELSE CRLF) \o Ended(Tail(lines), i - 1, e)

HeadLines == {<<r>> \o h \o <<(<<>>)>> :
                r \in {<<"GET">>, <<"POST">>, <<"x">>},
                h \in UNION {[1..n -> {<<l>> : l \in HeaderLines}] : n \in 0..2}}
GoodHeads == {Ended(ls, 0, CRLF) : ls \in HeadLines}
BadHeads == UNION {{Ended(ls, i, e) : i \in 1..Len(ls), e \in Damaged} : ls \in HeadLines}

Bodies(n) == UNION {[1..k -> {"x", "CR", "LF"}] : k \in 0..n}
PlainBodies(n) == {b \in Bodies(n) : LineEnds(b) = {}}

MCStreams == {h \o b : h \in GoodHeads, b \in PlainBodies(2)}
               \cup {h \o b : h \in BadHeads, b \in {<<>>}}
ASSUME MCStreamsArePlain == \A s \in MCStreams : PlainBody(s)

\* Bodies of the two units that the head announces, line ends among them.
MCAnyStreams == {Ended(<<(<<"POST">>), <<"len2">>, <<>>>>, 0, CRLF) \o b :
                   b \in [1..2 -> {"x", "CR", "LF"}]}
==============================================================================
