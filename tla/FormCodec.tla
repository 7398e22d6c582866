------------------------------ MODULE FormCodec ------------------------------
(* The texts of a login, from the form in the browser to the page that answers *)
(* it: HexValue, UrlDecode, ParseFormBody and HtmlEscape of                    *)
(* v3/logic/page_service.cpp, between what a browser does to the same texts    *)
(* (Submitted, Displayed).                                                     *)
(*                                                                             *)
(* A text is a sequence of characters; the blank and the quotation mark are    *)
(* called by name, which the provers read more easily.  The names of the two   *)
(* fields and the entities of HTML count as one character each.                *)
EXTENDS Integers, Sequences, FiniteSets
Seqs == INSTANCE SequencesExt
Sets == INSTANCE FiniteSetsExt

\* The characters that have a meaning on the way, and their ASCII codes.
Special == {"space", "quote", "%", "&", "'", "+", "<", "=", ">"}
Code ==
  [c \in Special |->
     CASE c = "space" -> 32 [] c = "quote" -> 34 [] c = "%" -> 37
       [] c = "&" -> 38 [] c = "'"  -> 39 [] c = "+" -> 43
       [] c = "<" -> 60 [] c = "="  -> 61 [] c = ">" -> 62]

\* The digits of these codes, and a letter that is none.
Digits ==
  [d \in {"2", "3", "5", "6", "7", "B", "C", "D", "E"} |->
     CASE d = "2" -> 2 [] d = "3" -> 3 [] d = "5" -> 5
       [] d = "6" -> 6 [] d = "7" -> 7 [] d = "B" -> 11
       [] d = "C" -> 12 [] d = "D" -> 13 [] d = "E" -> 14]
Characters == DOMAIN Code \cup DOMAIN Digits \cup {"0", "x"}

------------------------------------------------------------------------------
(* The browser: index.html's form, encoded as application/                     *)
(* x-www-form-urlencoded.                                                      *)

Digit(n) == IF n = 0 THEN "0" ELSE CHOOSE d \in DOMAIN Digits : Digits[d] = n

EncodedCharacter(c) ==
  IF c = "space" THEN <<"+">>
  ELSE IF c \in DOMAIN Code THEN <<"%", Digit(Code[c] \div 16), Digit(Code[c] % 16)>>
  ELSE <<c>>

Encoded(text) == Seqs!FlattenSeq([i \in DOMAIN text |-> EncodedCharacter(text[i])])

Submitted(typed) == <<"username", "=">> \o Encoded(typed.user)
                      \o <<"&", "password", "=">> \o Encoded(typed.password)

------------------------------------------------------------------------------
(* The server takes the form apart.                                            *)

HexValue(c) == IF c \in DOMAIN Digits THEN Digits[c] ELSE IF c = "0" THEN 0 ELSE -1

\* Mutant: off by one, an escape that ends the text is not seen.
IsEscapeBeforeEnd(s, i) ==
  s[i] = "%" /\ i + 2 < Len(s) /\ HexValue(s[i + 1]) >= 0 /\ HexValue(s[i + 2]) >= 0

\* A percent sign with two hexadecimal digits behind it; any other is kept.
IsEscape(s, i) ==
  s[i] = "%" /\ i + 2 <= Len(s) /\ HexValue(s[i + 1]) >= 0 /\ HexValue(s[i + 2]) >= 0

\* The character of a code; "byte" stands for those that no text here has.
Character(n) == IF \E c \in DOMAIN Code : Code[c] = n
                THEN CHOOSE c \in DOMAIN Code : Code[c] = n ELSE "byte"

\* One pass from left to right: what an escape gives is not looked at again.
UrlDecode(s) ==
  LET from[i \in 1..(Len(s) + 1)] ==
        IF i > Len(s) THEN <<>>
        ELSE IF IsEscape(s, i)
        THEN <<Character(16 * HexValue(s[i + 1]) + HexValue(s[i + 2]))>> \o from[i + 3]
        ELSE <<IF s[i] = "+" THEN "space" ELSE s[i]>> \o from[i + 1]
  IN from[1]

\* Where a separator c of s is, and the end of s.
Ends(s, c) == {i \in DOMAIN s : s[i] = c} \cup {Len(s) + 1}

\* The pair that ends at place e of a form.
PairBefore(body, e) ==
  SubSeq(body, Sets!Max({0} \cup {i \in Ends(body, "&") : i < e}) + 1, e - 1)

\* Key and value are decoded after they have been parted.
Key(pair) == UrlDecode(SubSeq(pair, 1, Sets!Min(Ends(pair, "=")) - 1))
Value(pair) == UrlDecode(SubSeq(pair, Sets!Min(Ends(pair, "=")) + 1, Len(pair)))

\* What the form has for a key: the last value counts, and no value is an empty
\* one.
Field(body, key) ==
  LET places == {e \in Ends(body, "&") : Key(PairBefore(body, e)) = <<key>>}
  IN IF places = {} THEN <<>> ELSE Value(PairBefore(body, Sets!Max(places)))

------------------------------------------------------------------------------
(* The server writes a text into a page, and the browser reads it.             *)

Entity ==
  [c \in {"&", "<", ">", "quote", "'"} |->
     CASE c = "&" -> "&amp;" [] c = "<" -> "&lt;" [] c = ">" -> "&gt;"
       [] c = "quote" -> "&quot;" [] c = "'" -> "&#39;"]

HtmlEscape(text) ==
  [i \in DOMAIN text |->
     IF text[i] \in DOMAIN Entity THEN Entity[text[i]] ELSE text[i]]

\* A bare & or < begins an entity or a tag: the text behind it is not shown.
Displayed(html) ==
  [i \in DOMAIN html |->
     IF \E c \in DOMAIN Entity : Entity[c] = html[i]
     THEN CHOOSE c \in DOMAIN Entity : Entity[c] = html[i]
     ELSE IF html[i] \in {"&", "<"} THEN "markup" ELSE html[i]]
==============================================================================
