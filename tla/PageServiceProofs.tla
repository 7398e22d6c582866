--------------------------- MODULE PageServiceProofs ---------------------------
(* PageService for any site, any sizes and any number of changes: the response *)
(* is whole and the file closed, whichever way BuildResponseData returns; and  *)
(* for texts of any length: the form's coding and the page's are undone.       *)
EXTENDS PageService, SequenceTheorems, WellFoundedInduction, TLAPS

\* A file is open only while it is read, and a change of the site can be one of the
\* open file only then.
FileInv ==
  /\ opened # None => pc = "read"
  /\ follows # None => pc = "read"

\* A descriptor is left open by no way out, and the site's changes open none.
THEOREM FilesAreClosed == Spec => []NoFileLeft
<1>1. Init => FileInv
  BY DEF Init, FileInv
<1>2. FileInv /\ [Next]_vars => FileInv'
  <2> SUFFICES ASSUME FileInv, [Next]_vars PROVE FileInv'
    OBVIOUS
  <2>1. CASE Resolve
    BY <2>1 DEF FileInv, Resolve, RefuseMethod, RefuseForm, PostLogin, PostElsewhere,
                GetErrorPage, GetFile, Resolved, siteVars
  <2>2. CASE BuildInline \/ StatFails \/ OpenFails
    BY <2>2 DEF FileInv, BuildInline, StatFails, OpenFails, Respond
  <2>3. CASE Stat \/ Open
    BY <2>3 DEF FileInv, Stat, Open, siteVars
  <2>4. CASE Read
    BY <2>4 DEF FileInv, Read, siteVars
  <2>5. CASE ReadFails \/ ReadEnds
    BY <2>5 DEF FileInv, ReadFails, ReadEnds, CloseFile
  <2>6. ASSUME NEW p \in DOMAIN Site, Replace(p) \/ Remove(p) PROVE FileInv'
    BY <2>6 DEF FileInv, Replace, Remove, SiteChanges
  <2>7. ASSUME NEW p \in DOMAIN Site, Rewrite(p) PROVE FileInv'
    BY <2>7, SiteAssumption DEF FileInv, Rewrite, SiteChanges
  <2>8. CASE UNCHANGED vars
    BY <2>8 DEF FileInv, vars, siteVars
  <2> QED
    BY <2>1, <2>2, <2>3, <2>4, <2>5, <2>6, <2>7, <2>8 DEF Next, Build
<1>3. FileInv => NoFileLeft
  BY DEF FileInv, NoFileLeft
<1> QED
  BY <1>1, <1>2, <1>3, PTL DEF Spec

\* No response promises more than it has, though the file may shrink, vanish or be
\* replaced between any two system calls.
THEOREM ResponsesAreWhole == Spec => []ResponseIsWhole
<1>1. Init => ResponseIsWhole
  BY DEF Init, ResponseIsWhole
<1>2. ResponseIsWhole /\ [Next]_vars => ResponseIsWhole'
  <2> SUFFICES ASSUME ResponseIsWhole, [Next]_vars PROVE ResponseIsWhole'
    OBVIOUS
  <2>1. CASE Resolve
    BY <2>1 DEF ResponseIsWhole, Resolve, RefuseMethod, RefuseForm, PostLogin,
                PostElsewhere, GetErrorPage, GetFile, Resolved
  <2>2. CASE BuildInline \/ StatFails \/ OpenFails \/ ReadFails
    BY <2>2 DEF ResponseIsWhole, BuildInline, StatFails, OpenFails, ReadFails, Respond,
                Simple
  <2>3. CASE Stat \/ Open \/ Read
    BY <2>3 DEF ResponseIsWhole, Stat, Open, Read
  <2>4. CASE ReadEnds
    BY <2>4 DEF ResponseIsWhole, ReadEnds, HasWhole, Respond, Simple
  <2>5. ASSUME NEW p \in DOMAIN Site, Replace(p) \/ Remove(p) \/ Rewrite(p)
        PROVE  ResponseIsWhole'
    BY <2>5 DEF ResponseIsWhole, Replace, Remove, Rewrite, SiteChanges
  <2>6. CASE UNCHANGED vars
    BY <2>6 DEF ResponseIsWhole, vars
  <2> QED
    BY <2>1, <2>2, <2>3, <2>4, <2>5, <2>6 DEF Next, Build
<1> QED
  BY <1>1, <1>2, PTL DEF Spec

------------------------------------------------------------------------------
(* What is typed is kept.  First the tables.                                   *)

\* What an encoded text, and a field of the form, may consist of.
Harmless == Characters \ {"&", "="}

LEMMA CodesOf == DOMAIN Code = Special
BY DEF Code

LEMMA DigitsAre ==
  /\ DOMAIN Digits = {"2", "3", "5", "6", "7", "B", "C", "D", "E"}
  /\ Digits["2"] = 2 /\ Digits["3"] = 3 /\ Digits["5"] = 5
  /\ Digits["6"] = 6 /\ Digits["7"] = 7 /\ Digits["B"] = 11
  /\ Digits["C"] = 12 /\ Digits["D"] = 13 /\ Digits["E"] = 14
BY DEF Digits

\* Digit and HexValue undo each other on the digits that codes have.
LEMMA DigitHasValue ==
  ASSUME NEW n \in {0, 2, 3, 5, 6, 7, 11, 12, 13, 14}
  PROVE  /\ HexValue(Digit(n)) = n
         /\ Digit(n) \in DOMAIN Digits \cup {"0"}
<1>1. CASE n = 0
  BY <1>1, DigitsAre DEF Digit, HexValue
<1>2. CASE n # 0
  <2>1. \E d \in DOMAIN Digits : Digits[d] = n
    BY <1>2, DigitsAre
  <2>2. Digit(n) \in DOMAIN Digits /\ Digits[Digit(n)] = n
    BY <1>2, <2>1 DEF Digit
  <2> QED
    BY <2>2 DEF HexValue
<1> QED
  BY <1>1, <1>2

LEMMA CodeHasDigits ==
  ASSUME NEW c \in Special
  PROVE  /\ Code[c] \in Nat
         /\ Code[c] \div 16 \in {2, 3} /\ Code[c] % 16 \in {0, 2, 5, 6, 7, 11, 12, 13, 14}
         /\ 16 * (Code[c] \div 16) + (Code[c] % 16) = Code[c]
<1> DEFINE Numbers == {32, 34, 37, 38, 39, 43, 60, 61, 62}
<1>1. Code[c] \in Numbers
  BY DEF Code, Special
<1>2. \A n \in Numbers : /\ n \in Nat
                         /\ n \div 16 \in {2, 3} /\ n % 16 \in {0, 2, 5, 6, 7, 11, 12, 13, 14}
                         /\ 16 * (n \div 16) + (n % 16) = n
  OBVIOUS
<1> QED
  BY <1>1, <1>2

LEMMA CharacterOfCode ==
  ASSUME NEW c \in Special
  PROVE  Character(Code[c]) = c
<1>1. \A d \in DOMAIN Code : Code[d] = Code[c] => d = c
  BY CodesOf DEF Code, Special
<1>2. c \in DOMAIN Code
  BY CodesOf
<1>3. (CHOOSE d \in DOMAIN Code : Code[d] = Code[c]) = c
  BY <1>1, <1>2
<1> QED
  BY <1>2, <1>3 DEF Character

LEMMA EncodedIsHarmless ==
  ASSUME NEW c \in Characters
  PROVE  EncodedCharacter(c) \in Seq(Harmless)
<1>0. DOMAIN Digits \cup {"0", "+", "%"} \subseteq Harmless
  <2>1. DOMAIN Digits = {"2", "3", "5", "6", "7", "B", "C", "D", "E"}
    BY DEF Digits
  <2>2. DOMAIN Digits \cup {"0", "+", "%"} \subseteq Characters
    BY CodesOf DEF Characters, Special
  <2>3. \A d \in DOMAIN Digits \cup {"0", "+", "%"} : d # "&" /\ d # "="
    BY <2>1
  <2> QED
    BY <2>2, <2>3 DEF Harmless
<1>1. CASE c = "space"
  <2>1. EncodedCharacter(c) = <<"+">>
    BY <1>1 DEF EncodedCharacter
  <2>2. "+" \in Harmless
    BY <1>0
  <2> QED
    BY <2>1, <2>2
<1>2. CASE c # "space" /\ c \in Special
  <2>1. /\ Digit(Code[c] \div 16) \in DOMAIN Digits \cup {"0"}
        /\ Digit(Code[c] % 16) \in DOMAIN Digits \cup {"0"}
    BY <1>2, CodeHasDigits, DigitHasValue
  <2>2. EncodedCharacter(c) = <<"%", Digit(Code[c] \div 16), Digit(Code[c] % 16)>>
    BY <1>2, CodesOf DEF EncodedCharacter
  <2> QED
    BY <1>0, <2>1, <2>2
<1>3. CASE c \notin Special
  <2>1. c \in Harmless /\ c # "space"
    BY <1>3 DEF Harmless, Special
  <2>2. EncodedCharacter(c) = <<c>>
    BY <1>3, <2>1, CodesOf DEF EncodedCharacter
  <2> QED
    BY <2>1, <2>2
<1> QED
  BY <1>1, <1>2, <1>3

------------------------------------------------------------------------------
(* The recursive functions have values.                                        *)

Below == {e \in Nat \X Nat : e[1] < e[2]}

LEMMA LeastExists ==
  ASSUME NEW S \in SUBSET Nat, S # {}
  PROVE  \E x \in S : \A y \in S : x <= y
<1>1. OpToRel(<, Nat) = Below
  BY SMT DEF OpToRel, Below
<1>2. IsWellFoundedOn(Below, Nat)
  BY <1>1, NatLessThanWellFounded, Zenon
<1>3. \E x \in S : \A y \in S : ~(<<y, x>> \in Below)
  BY <1>2, WFMin
<1>4. PICK x \in S : \A y \in S : ~(<<y, x>> \in Below)
  BY <1>3
<1>5. ASSUME NEW y \in S PROVE x <= y
  <2>1. <<y, x>> \in Nat \X Nat /\ <<y, x>>[1] = y /\ <<y, x>>[2] = x
    OBVIOUS
  <2>2. ~(y < x)
    BY <1>4, <2>1 DEF Below
  <2> QED
    BY <2>2
<1> QED
  BY <1>5

AreJoins(seqs, n, f) ==
  f = [i \in 1..n |-> IF i = 1 THEN seqs[i] ELSE f[i - 1] \o seqs[i]]

LEMMA JoinsExist ==
  ASSUME NEW seqs, NEW n \in Nat
  PROVE  \E f : AreJoins(seqs, n, f)
<1> DEFINE S == {m \in Nat : ~ \E f : AreJoins(seqs, m, f)}
<1> SUFFICES ASSUME S # {} PROVE FALSE
  OBVIOUS
<1>1. PICK m \in S : \A k \in S : m <= k
  BY LeastExists
<1>2. CASE m = 0
  <2> DEFINE f == [i \in 1..0 |-> <<>>]
  <2>1. f = [i \in 1..0 |-> IF i = 1 THEN seqs[i] ELSE f[i - 1] \o seqs[i]]
    OBVIOUS
  <2> QED
    BY <1>1, <1>2, <2>1 DEF AreJoins
<1>3. CASE m # 0
  <2>1. m - 1 \in Nat /\ m - 1 \notin S
    BY <1>1, <1>3
  <2>2. PICK g : AreJoins(seqs, m - 1, g)
    BY <2>1
  <2>3. \A i \in 1..(m - 1) : g[i] = IF i = 1 THEN seqs[i] ELSE g[i - 1] \o seqs[i]
    BY <2>2 DEF AreJoins
  <2> DEFINE f == [i \in 1..m |-> IF i = 1 THEN seqs[i] ELSE g[i - 1] \o seqs[i]]
  <2>4. \A i \in 1..(m - 1) : f[i] = g[i]
    BY <1>1, <2>3
  <2> HIDE DEF f
  <2>5. ASSUME NEW i \in 1..m, i # 1 PROVE f[i - 1] = g[i - 1]
    BY <1>1, <2>4, <2>5
  <2>6. f = [i \in 1..m |-> IF i = 1 THEN seqs[i] ELSE f[i - 1] \o seqs[i]]
    BY <2>5 DEF f
  <2> QED
    BY <1>1, <2>6 DEF AreJoins
<1> QED
  BY <1>2, <1>3

\* What FlattenSeq returns is got by joining one sequence after the other.
LEMMA FlattenIs ==
  ASSUME NEW S, NEW seqs \in Seq(Seq(S))
  PROVE  \E to \in [0..Len(seqs) -> Seq(S)] :
           /\ to[0] = <<>>
           /\ \A i \in 1..Len(seqs) : to[i] = to[i - 1] \o seqs[i]
           /\ Seqs!FlattenSeq(seqs) = to[Len(seqs)]
<1> DEFINE n == Len(seqs)
<1>0. n \in Nat /\ \A i \in 1..n : seqs[i] \in Seq(S)
  OBVIOUS
<1>1. CASE n = 0
  <2> DEFINE to == [i \in 0..0 |-> <<>>]
  <2>1. Seqs!FlattenSeq(seqs) = <<>>
    BY <1>1 DEF Seqs!FlattenSeq
  <2>2. <<>> \in Seq(S)
    OBVIOUS
  <2>3. to \in [0..n -> Seq(S)] /\ to[0] = <<>> /\ to[n] = <<>>
    BY <1>1, <2>2
  <2>4. \A i \in 1..n : FALSE
    BY <1>1
  <2> HIDE DEF to
  <2> QED
    BY <2>1, <2>3, <2>4
<1>2. CASE n # 0
  <2> DEFINE flatten == CHOOSE f : AreJoins(seqs, n, f)
             to == [i \in 0..n |-> IF i = 0 THEN <<>> ELSE flatten[i]]
  <2>1. Seqs!FlattenSeq(seqs) = flatten[n]
    BY <1>2 DEF Seqs!FlattenSeq, AreJoins
  <2>2. AreJoins(seqs, n, flatten)
    <3>1. \E f : AreJoins(seqs, n, f)
      BY <1>0, JoinsExist
    <3> QED
      BY <3>1, Zenon
  <2> HIDE DEF flatten
  <2>3. \A i \in 1..n : flatten[i] = IF i = 1 THEN seqs[i] ELSE flatten[i - 1] \o seqs[i]
    BY <2>2 DEF AreJoins
  <2>4. /\ to[0] = <<>>
        /\ \A i \in 1..n : to[i] = flatten[i]
    BY <1>0
  <2>5. DOMAIN to = 0..n /\ to = [i \in 0..n |-> to[i]]
    OBVIOUS
  <2> HIDE DEF to
  <2>6. ASSUME NEW i \in 1..n PROVE to[i] = to[i - 1] \o seqs[i]
    <3>1. CASE i = 1
      <4>1. seqs[i] \in Seq(S) /\ to[i] = seqs[i] /\ to[i - 1] = <<>>
        BY <1>0, <2>3, <2>4, <3>1
      <4>2. <<>> \o seqs[i] = seqs[i]
        BY <4>1
      <4> QED
        BY <4>1, <4>2
    <3>2. CASE i # 1
      <4>1. i \in 1..n /\ i - 1 \in 1..n
        BY <1>0, <3>2
      <4>2. flatten[i] = flatten[i - 1] \o seqs[i]
        BY <2>3, <3>2
      <4> QED
        BY <2>4, <4>1, <4>2
    <3> QED
      BY <3>1, <3>2
  <2>7. ASSUME NEW i \in 0..n PROVE to[i] \in Seq(S)
    <3> DEFINE Bad == {m \in 0..n : to[m] \notin Seq(S)}
    <3> SUFFICES ASSUME Bad # {} PROVE FALSE
      OBVIOUS
    <3>1. PICK m \in Bad : \A k \in Bad : m <= k
      <4>1. Bad \in SUBSET Nat
        OBVIOUS
      <4> HIDE DEF Bad
      <4> QED
        BY <4>1, LeastExists
    <3>2. m # 0
      <4>1. to[0] \in Seq(S)
        BY <2>4
      <4> QED
        BY <3>1, <4>1
    <3>3. m - 1 \in 0..n /\ to[m - 1] \in Seq(S) /\ m \in 1..n
      BY <1>0, <3>1, <3>2
    <3>4. to[m] = to[m - 1] \o seqs[m] /\ seqs[m] \in Seq(S)
      BY <1>0, <2>6, <3>3
    <3>5. to[m] \in Seq(S)
      <4>1. \A u, v \in Seq(S) : u \o v \in Seq(S)
        OBVIOUS
      <4> QED
        BY <3>3, <3>4, <4>1
    <3> QED
      BY <3>1, <3>5
  <2>8. to \in [0..n -> Seq(S)]
    BY <2>5, <2>7
  <2>9. Seqs!FlattenSeq(seqs) = to[n]
    BY <1>0, <1>2, <2>1, <2>4
  <2> QED
    BY <2>4, <2>6, <2>8, <2>9
<1> QED
  BY <1>1, <1>2

\* What UrlDecode's loop returns from place i on, if f is what it returns further on.
Rest(s, f, i) ==
  IF i > Len(s) THEN <<>>
  ELSE IF IsEscape(s, i)
  THEN <<Character(16 * HexValue(s[i + 1]) + HexValue(s[i + 2]))>> \o f[i + 3]
  ELSE <<IF s[i] = "+" THEN "space" ELSE s[i]>> \o f[i + 1]

AreRests(s, m, f) == f = [i \in m..(Len(s) + 1) |-> Rest(s, f, i)]

LEMMA RestsExist ==
  ASSUME NEW S, NEW s \in Seq(S)
  PROVE  \E f : AreRests(s, 1, f)
<1> DEFINE n == Len(s)
           Bad == {m \in 0..n : ~ \E f : AreRests(s, n + 1 - m, f)}
<1>0. n \in Nat
  OBVIOUS
<1>1. Bad = {} => \E f : AreRests(s, 1, f)
  <2>1. n + 1 - n = 1 /\ n \in 0..n
    BY <1>0
  <2> QED
    BY <2>1
<1> SUFFICES ASSUME Bad # {} PROVE FALSE
  BY <1>1
<1>2. PICK m \in Bad : \A k \in Bad : m <= k
  <2>1. Bad \in SUBSET Nat
    OBVIOUS
  <2> HIDE DEF Bad
  <2> QED
    BY <2>1, LeastExists
<1> DEFINE p == n + 1 - m
<1>3. p \in Int /\ p <= n + 1 /\ 1 <= p /\ m \in 0..n
  BY <1>0, <1>2
<1>4. ~ \E f : AreRests(s, p, f)
  BY <1>2
<1>5. CASE m = 0
  <2> DEFINE f == [i \in p..(n + 1) |-> <<>>]
  <2>1. \A i \in p..(n + 1) : i > n
    BY <1>0, <1>5
  <2>2. \A i \in p..(n + 1) : Rest(s, f, i) = <<>>
    BY <2>1 DEF Rest
  <2>3. f = [i \in p..(n + 1) |-> Rest(s, f, i)]
    BY <2>2
  <2> QED
    BY <1>4, <2>3 DEF AreRests
<1>6. CASE m # 0
  <2>1. m - 1 \in 0..n /\ n + 1 - (m - 1) = p + 1
    BY <1>0, <1>3, <1>6
  <2>2. PICK g : AreRests(s, p + 1, g)
    <3> HIDE DEF Bad, p
    <3>1. m - 1 \notin Bad
      BY <1>2, <1>3, <2>1
    <3>2. \E g : AreRests(s, n + 1 - (m - 1), g)
      BY <2>1, <3>1 DEF Bad
    <3> QED
      BY <2>1, <3>2
  <2>3. \A i \in (p + 1)..(n + 1) : g[i] = Rest(s, g, i)
    BY <2>2 DEF AreRests
  <2> HIDE DEF p
  <2> DEFINE f == [i \in p..(n + 1) |-> Rest(s, g, i)]
  <2>4. \A i \in (p + 1)..(n + 1) : f[i] = g[i]
    BY <1>0, <1>3, <2>3
  <2> HIDE DEF f
  <2>5. ASSUME NEW i \in p..(n + 1) PROVE Rest(s, f, i) = Rest(s, g, i)
    <3>1. CASE i > n
      BY <3>1 DEF Rest
    <3>2. CASE i <= n /\ IsEscape(s, i)
      <4>1. i + 3 \in (p + 1)..(n + 1)
        BY <1>0, <1>3, <3>2 DEF IsEscape
      <4>2. f[i + 3] = g[i + 3]
        BY <2>4, <4>1
      <4> QED
        BY <3>2, <4>2 DEF Rest
    <3>3. CASE i <= n /\ ~IsEscape(s, i)
      <4>1. i + 1 \in (p + 1)..(n + 1)
        BY <1>0, <1>3, <3>3
      <4>2. f[i + 1] = g[i + 1]
        BY <2>4, <4>1
      <4> QED
        BY <3>3, <4>2 DEF Rest
    <3> QED
      BY <1>0, <1>3, <3>1, <3>2, <3>3
  <2>6. f = [i \in p..(n + 1) |-> Rest(s, f, i)]
    BY <2>5 DEF f
  <2> QED
    BY <1>4, <2>6 DEF AreRests
<1> QED
  BY <1>5, <1>6

LEMMA DecodingIs ==
  ASSUME NEW S, NEW s \in Seq(S)
  PROVE  \E from : /\ UrlDecode(s) = from[1]
                   /\ \A i \in 1..(Len(s) + 1) : from[i] = Rest(s, from, i)
<1> DEFINE from == CHOOSE f : AreRests(s, 1, f)
<1>1. UrlDecode(s) = from[1]
  BY DEF UrlDecode, AreRests, Rest
<1>2. AreRests(s, 1, from)
  <2>1. \E f : AreRests(s, 1, f)
    BY RestsExist
  <2> QED
    BY <2>1, Zenon
<1> HIDE DEF from
<1>3. \A i \in 1..(Len(s) + 1) : from[i] = Rest(s, from, i)
  BY <1>2 DEF AreRests
<1> QED
  BY <1>1, <1>3

------------------------------------------------------------------------------
(* The server's decoding undoes the browser's encoding.                        *)

LEMMA JoinedIs ==
  ASSUME NEW S, NEW u \in Seq(S), NEW v \in Seq(S)
  PROVE  /\ Len(u) \in Nat /\ Len(v) \in Nat
         /\ Len(u \o v) = Len(u) + Len(v)
         /\ \A j \in 1..Len(u) : (u \o v)[j] = u[j]
         /\ \A j \in 1..Len(v) : (u \o v)[Len(u) + j] = v[j]
OBVIOUS

\* Where the code of each character of a text begins and ends, and what it is.
EncodedAt(text, place) ==
  /\ place \in [0..Len(text) -> Nat]
  /\ place[0] = 0 /\ place[Len(text)] = Len(Encoded(text))
  /\ \A i \in 1..Len(text) :
       LET code == EncodedCharacter(text[i]) IN
       /\ place[i] = place[i - 1] + Len(code) /\ place[i] <= Len(Encoded(text))
       /\ \A j \in 1..Len(code) : Encoded(text)[place[i - 1] + j] = code[j]

LEMMA EncodingIs ==
  ASSUME NEW text \in Seq(Characters)
  PROVE  Encoded(text) \in Seq(Harmless) /\ \E place : EncodedAt(text, place)
<1> DEFINE n == Len(text)
           codes == [i \in DOMAIN text |-> EncodedCharacter(text[i])]
<1>0. n \in Nat /\ DOMAIN text = 1..n /\ \A i \in 1..n : text[i] \in Characters
  OBVIOUS
<1>1. /\ codes \in Seq(Seq(Harmless)) /\ Len(codes) = n
      /\ \A i \in 1..n : codes[i] = EncodedCharacter(text[i])
  <2>1. \A i \in 1..n : EncodedCharacter(text[i]) \in Seq(Harmless)
    BY <1>0, EncodedIsHarmless
  <2>2. codes = [i \in 1..n |-> EncodedCharacter(text[i])]
    BY <1>0
  <2> QED
    BY <1>0, <2>1, <2>2
<1>2. Encoded(text) = Seqs!FlattenSeq(codes)
  BY DEF Encoded
<1> HIDE DEF codes
<1>3. PICK to \in [0..n -> Seq(Harmless)] :
        /\ to[0] = <<>>
        /\ \A i \in 1..n : to[i] = to[i - 1] \o codes[i]
        /\ Encoded(text) = to[n]
  <2>1. codes \in Seq(Seq(Harmless))
    BY <1>1
  <2>2. \E to \in [0..Len(codes) -> Seq(Harmless)] :
          /\ to[0] = <<>>
          /\ \A i \in 1..Len(codes) : to[i] = to[i - 1] \o codes[i]
          /\ Seqs!FlattenSeq(codes) = to[Len(codes)]
    BY <2>1, FlattenIs
  <2>3. Len(codes) = n
    BY <1>1
  <2> HIDE DEF n
  <2> QED
    BY <1>2, <2>2, <2>3
<1>4. \A i \in 0..n : to[i] \in Seq(Harmless) /\ Len(to[i]) \in Nat
  OBVIOUS
<1>5. ASSUME NEW i \in 1..n
      PROVE  /\ Len(codes[i]) \in Nat
             /\ Len(to[i]) = Len(to[i - 1]) + Len(codes[i])
             /\ \A j \in 1..Len(to[i - 1]) : to[i][j] = to[i - 1][j]
             /\ \A j \in 1..Len(codes[i]) : to[i][Len(to[i - 1]) + j] = codes[i][j]
  <2>1. codes[i] \in Seq(Harmless) /\ to[i - 1] \in Seq(Harmless)
    BY <1>0, <1>1, <1>4
  <2>2. to[i] = to[i - 1] \o codes[i]
    BY <1>3
  <2> DEFINE u == to[i - 1]
             v == codes[i]
  <2>3. u \in Seq(Harmless) /\ v \in Seq(Harmless) /\ to[i] = u \o v
    BY <2>1, <2>2
  <2> HIDE DEF u, v
  <2>4. /\ Len(v) \in Nat /\ Len(to[i]) = Len(u) + Len(v)
        /\ \A j \in 1..Len(u) : to[i][j] = u[j]
        /\ \A j \in 1..Len(v) : to[i][Len(u) + j] = v[j]
    BY <2>3, JoinedIs
  <2> QED
    BY <2>4 DEF u, v
\* What has been joined is the beginning of the whole.
<1>6. ASSUME NEW i \in 0..n, NEW m \in i..n
      PROVE  /\ Len(to[i]) <= Len(to[m])
             /\ \A j \in 1..Len(to[i]) : to[m][j] = to[i][j]
  <2> DEFINE Begins(k) == /\ Len(to[i]) <= Len(to[k])
                          /\ \A j \in 1..Len(to[i]) : to[k][j] = to[i][j]
             Bad == {k \in i..n : ~Begins(k)}
  <2> SUFFICES ASSUME Bad # {} PROVE FALSE
    OBVIOUS
  <2>1. PICK k \in Bad : \A l \in Bad : k <= l
    <3>1. Bad \in SUBSET Nat
      BY <1>0
    <3> HIDE DEF Bad
    <3> QED
      BY <3>1, LeastExists
  <2>2. k \in i..n /\ ~Begins(k)
    OBVIOUS
  <2>3. k # i
    BY <1>4, <2>2
  <2>4. k - 1 \in i..n /\ k \in 1..n /\ k - 1 \in 0..n
    BY <1>0, <2>2, <2>3
  <2>5. Begins(k - 1)
    <3> HIDE DEF Begins
    <3>1. ~(k <= k - 1)
      BY <2>4
    <3> QED
      BY <2>1, <2>4, <3>1
  <2>6. /\ Len(to[k]) = Len(to[k - 1]) + Len(codes[k]) /\ Len(codes[k]) \in Nat
        /\ \A j \in 1..Len(to[k - 1]) : to[k][j] = to[k - 1][j]
    BY <1>5, <2>4
  <2>7. Len(to[i]) \in Nat /\ Len(to[k - 1]) \in Nat
    BY <1>4, <2>4
  <2>8. Begins(k)
    <3>1. Len(to[i]) <= Len(to[k - 1]) /\ Len(to[i]) <= Len(to[k])
      <4>1. Len(to[i]) <= Len(to[k - 1])
        BY <2>5
      <4>2. \A a, b, c, d \in Nat : a <= b /\ d = b + c => a <= d
        OBVIOUS
      <4>3. Len(to[k]) \in Nat
        BY <1>4, <2>4
      <4> HIDE DEF Begins, Bad
      <4> QED
        BY <2>6, <2>7, <4>1, <4>2, <4>3
    <3>2. ASSUME NEW j \in 1..Len(to[i]) PROVE to[k][j] = to[i][j]
      <4>1. j \in 1..Len(to[k - 1])
        BY <2>7, <3>1
      <4> QED
        BY <2>5, <2>6, <4>1
    <3> QED
      BY <3>1, <3>2
  <2> QED
    BY <2>2, <2>8
<1> DEFINE place == [i \in 0..n |-> Len(to[i])]
<1>7. /\ place \in [0..n -> Nat] /\ place[0] = 0 /\ place[n] = Len(Encoded(text))
      /\ \A i \in 0..n : place[i] = Len(to[i])
  BY <1>0, <1>3, <1>4
<1> HIDE DEF place
<1>8. ASSUME NEW i \in 1..n
      PROVE  LET code == EncodedCharacter(text[i]) IN
             /\ place[i] = place[i - 1] + Len(code) /\ place[i] <= Len(Encoded(text))
             /\ \A j \in 1..Len(code) : Encoded(text)[place[i - 1] + j] = code[j]
  <2>0. i \in 0..n /\ i - 1 \in 0..n /\ n \in i..n
    BY <1>0
  <2>1. /\ i \in 0..n /\ i - 1 \in 0..n /\ n \in i..n
        /\ codes[i] = EncodedCharacter(text[i])
        /\ place[i] = Len(to[i]) /\ place[i - 1] = Len(to[i - 1])
        /\ place[i] \in Nat /\ place[i - 1] \in Nat
    <3> HIDE DEF n
    <3> QED
      BY <1>1, <1>7, <2>0
  <2>2. /\ place[i] = place[i - 1] + Len(codes[i]) /\ Len(codes[i]) \in Nat
        /\ \A j \in 1..Len(codes[i]) : to[i][place[i - 1] + j] = codes[i][j]
    BY <1>5, <2>1
  <2>3. /\ place[i] <= Len(to[n])
        /\ \A j \in 1..place[i] : to[n][j] = to[i][j]
    BY <1>6, <2>1
  <2>4. \A j \in 1..Len(codes[i]) : place[i - 1] + j \in 1..place[i]
    BY <2>1, <2>2
  <2> QED
    BY <1>3, <2>1, <2>2, <2>3, <2>4
<1>9. EncodedAt(text, place)
  BY <1>7, <1>8 DEF EncodedAt
<1>10. Encoded(text) \in Seq(Harmless)
  BY <1>0, <1>3, <1>4
<1> QED
  BY <1>9, <1>10

\* A character's code is decoded to it.
LEMMA CodeDecoded ==
  ASSUME NEW s \in Seq(Harmless), NEW c \in Characters, NEW i \in Nat, NEW f,
         i + Len(EncodedCharacter(c)) <= Len(s),
         \A j \in 1..Len(EncodedCharacter(c)) : s[i + j] = EncodedCharacter(c)[j]
  PROVE  Rest(s, f, i + 1) = <<c>> \o f[i + Len(EncodedCharacter(c)) + 1]
<1>0. Len(s) \in Nat
  OBVIOUS
<1>1. CASE c = "space"
  <2>1. EncodedCharacter(c) = <<"+">>
    BY <1>1 DEF EncodedCharacter
  <2>2. s[i + 1] = "+" /\ i + 1 <= Len(s)
    BY <2>1
  <2>3. ~IsEscape(s, i + 1)
    BY <2>2 DEF IsEscape
  <2>4. Len(EncodedCharacter(c)) = 1 /\ i + 1 + 1 = i + Len(EncodedCharacter(c)) + 1
    BY <2>1
  <2>5. Rest(s, f, i + 1) = <<"space">> \o f[i + 1 + 1]
    BY <1>0, <2>2, <2>3 DEF Rest
  <2> QED
    BY <1>1, <2>4, <2>5
<1>2. CASE c # "space" /\ c \in Special
  <2> DEFINE a == Code[c] \div 16
             b == Code[c] % 16
  <2>1. EncodedCharacter(c) = <<"%", Digit(a), Digit(b)>>
    BY <1>2, CodesOf DEF EncodedCharacter
  <2>2. /\ a \in {2, 3} /\ b \in {0, 2, 5, 6, 7, 11, 12, 13, 14}
        /\ 16 * a + b = Code[c]
    BY <1>2, CodeHasDigits
  <2> HIDE DEF a, b
  <2>3. /\ s[i + 1] = "%" /\ s[i + 1 + 1] = Digit(a) /\ s[i + 1 + 2] = Digit(b)
        /\ i + 3 <= Len(s)
    BY <2>1
  <2>4. HexValue(Digit(a)) = a /\ HexValue(Digit(b)) = b
    BY <2>2, DigitHasValue
  <2>5. IsEscape(s, i + 1)
    BY <1>0, <2>2, <2>3, <2>4 DEF IsEscape
  <2>6. Rest(s, f, i + 1) = <<Character(16 * a + b)>> \o f[i + 1 + 3]
    BY <1>0, <2>3, <2>4, <2>5 DEF Rest
  <2>7. Character(16 * a + b) = c
    BY <1>2, <2>2, CharacterOfCode
  <2>8. i + Len(EncodedCharacter(c)) + 1 = i + 1 + 3
    BY <2>1
  <2> QED
    BY <2>6, <2>7, <2>8
<1>3. CASE c \notin Special
  <2>0. c # "space" /\ c # "%" /\ c # "+"
    BY <1>3 DEF Special
  <2>1. EncodedCharacter(c) = <<c>>
    BY <1>3, <2>0, CodesOf DEF EncodedCharacter
  <2>2. s[i + 1] = c /\ i + 1 <= Len(s)
    BY <2>1
  <2>3. ~IsEscape(s, i + 1)
    BY <2>0, <2>2 DEF IsEscape
  <2> QED
    BY <1>0, <2>0, <2>1, <2>2, <2>3 DEF Rest
<1> QED
  BY <1>1, <1>2, <1>3

LEMMA BehindOne ==
  ASSUME NEW S, NEW s \in Seq(S), NEW i \in 1..Len(s)
  PROVE  <<s[i]>> \o SubSeq(s, i + 1, Len(s)) = SubSeq(s, i, Len(s))
OBVIOUS

\* Whatever is typed comes out of the decoding as it was.
LEMMA RoundTrip ==
  ASSUME NEW text \in Seq(Characters)
  PROVE  UrlDecode(Encoded(text)) = text
<1> DEFINE n == Len(text)
           e == Encoded(text)
<1>0. n \in Nat /\ e \in Seq(Harmless) /\ \A i \in 1..n : text[i] \in Characters
  BY EncodingIs
<1>1. PICK place : EncodedAt(text, place)
  BY EncodingIs
<1>2. PICK from : /\ UrlDecode(e) = from[1]
                  /\ \A i \in 1..(Len(e) + 1) : from[i] = Rest(e, from, i)
  BY <1>0, DecodingIs
<1>3. Len(e) \in Nat
  BY <1>0
<1>4. /\ place[0] = 0 /\ place[n] = Len(e) /\ \A k \in 0..n : place[k] \in Nat
      /\ \A i \in 1..n : /\ place[i] = place[i - 1] + Len(EncodedCharacter(text[i]))
                         /\ place[i] <= Len(e)
                         /\ \A j \in 1..Len(EncodedCharacter(text[i])) :
                              e[place[i - 1] + j] = EncodedCharacter(text[i])[j]
  BY <1>1 DEF EncodedAt
<1> HIDE DEF e
<1> DEFINE Good(m) == from[place[n - m] + 1] = SubSeq(text, n - m + 1, n)
           Bad == {m \in 0..n : ~Good(m)}
<1>5. Bad = {}
  <2> SUFFICES ASSUME Bad # {} PROVE FALSE
    OBVIOUS
  <2>1. PICK m \in Bad : \A l \in Bad : m <= l
    <3>1. Bad \in SUBSET Nat
      OBVIOUS
    <3> HIDE DEF Bad
    <3> QED
      BY <3>1, LeastExists
  <2>2. m \in 0..n /\ ~Good(m)
    OBVIOUS
  <2>3. CASE m = 0
    <3>1. place[n - m] + 1 = Len(e) + 1 /\ n - m = n
      BY <1>0, <1>4, <2>3
    <3>2. from[Len(e) + 1] = <<>>
      <4>1. Len(e) + 1 \in 1..(Len(e) + 1) /\ Len(e) + 1 > Len(e)
        BY <1>3
      <4>2. Rest(e, from, Len(e) + 1) = <<>>
        BY <4>1 DEF Rest
      <4> QED
        BY <1>2, <4>1, <4>2
    <3>3. SubSeq(text, n + 1, n) = <<>>
      BY <1>0
    <3> QED
      BY <2>2, <3>1, <3>2, <3>3
  <2>4. CASE m # 0
    <3> DEFINE k == n - m
               code == EncodedCharacter(text[k + 1])
    <3>1. m - 1 \in 0..n /\ k \in 0..n /\ k + 1 \in 1..n /\ n - (m - 1) = k + 1
      <4>1. n \in Nat /\ m \in 0..n /\ m # 0
        BY <1>0, <2>2, <2>4
      <4> HIDE DEF n, Good
      <4> QED
        BY <4>1
    <3>2. Good(m - 1)
      <4> HIDE DEF Good
      <4>1. ~(m <= m - 1)
        BY <2>2
      <4> QED
        BY <2>1, <3>1, <4>1
    <3>3. from[place[k + 1] + 1] = SubSeq(text, k + 1 + 1, n)
      BY <3>1, <3>2
    <3>4. k + 1 - 1 = k
      BY <3>1
    <3>5. /\ place[k + 1] = place[k] + Len(code) /\ place[k + 1] <= Len(e)
          /\ \A j \in 1..Len(code) : e[place[k] + j] = code[j]
          /\ place[k] \in Nat /\ place[k + 1] \in Nat
      <4> HIDE DEF k
      <4> DEFINE l == k + 1
      <4>1. l \in 1..n /\ l \in 0..n /\ l - 1 = k /\ k \in 0..n
        BY <1>0, <3>1, <3>4
      <4> HIDE DEF l
      <4>2. /\ place[l] = place[l - 1] + Len(EncodedCharacter(text[l]))
            /\ place[l] <= Len(e)
            /\ \A j \in 1..Len(EncodedCharacter(text[l])) :
                 e[place[l - 1] + j] = EncodedCharacter(text[l])[j]
            /\ place[l] \in Nat /\ place[k] \in Nat
        BY <1>4, <4>1
      <4>3. l = k + 1
        BY DEF l
      <4> QED
        BY <4>1, <4>2, <4>3
    <3> HIDE DEF k
    <3>6. Rest(e, from, place[k] + 1) = <<text[k + 1]>> \o from[place[k] + Len(code) + 1]
      BY <1>0, <3>1, <3>5, CodeDecoded
    <3>7. place[k] + 1 \in 1..(Len(e) + 1)
      <4>1. text[k + 1] \in Characters
        BY <1>0, <3>1
      <4>2. Len(code) \in Nat
        BY <4>1, EncodedIsHarmless
      <4>3. /\ place[k + 1] = place[k] + Len(code) /\ place[k + 1] <= Len(e)
            /\ place[k] \in Nat
        BY <3>5
      <4> HIDE DEF code
      <4>4. place[k] + Len(code) <= Len(e)
        BY <4>3
      <4>5. \A a, b, l \in Nat : a + b <= l => a + 1 \in 1..(l + 1)
        OBVIOUS
      <4> QED
        BY <1>3, <4>2, <4>3, <4>4, <4>5
    <3>8. from[place[k] + 1] = <<text[k + 1]>> \o SubSeq(text, k + 1 + 1, n)
      BY <1>2, <3>3, <3>5, <3>6, <3>7
    <3>9. from[place[k] + 1] = SubSeq(text, k + 1, n)
      BY <3>1, <3>8, BehindOne
    <3> QED
      BY <2>2, <3>9 DEF k
  <2> QED
    BY <2>3, <2>4
<1>6. n \in 0..n /\ n - n = 0 /\ place[0] + 1 = 1 /\ 0 + 1 = 1
  BY <1>0, <1>4
<1>7. from[1] = SubSeq(text, 1, n)
  <2>1. Good(n)
    BY <1>5, <1>6
  <2> QED
    BY <1>6, <2>1
<1>8. SubSeq(text, 1, n) = text
  OBVIOUS
<1> QED
  BY <1>2, <1>7, <1>8 DEF e

------------------------------------------------------------------------------
(* The server takes the form apart as the browser has put it together.         *)

LEMMA MinIs ==
  ASSUME NEW S, NEW x \in S, \A y \in S : x \in Int /\ y \in Int /\ x <= y
  PROVE  Sets!Min(S) = x
<1>1. \A z \in S : (\A y \in S : z <= y) => z = x
  OBVIOUS
<1>2. (CHOOSE z \in S : \A y \in S : z <= y) = x
  BY <1>1
<1> QED
  BY <1>2 DEF Sets!Min

LEMMA MaxIs ==
  ASSUME NEW S, NEW x \in S, \A y \in S : x \in Int /\ y \in Int /\ x >= y
  PROVE  Sets!Max(S) = x
<1>1. \A z \in S : (\A y \in S : z >= y) => z = x
  OBVIOUS
<1>2. (CHOOSE z \in S : \A y \in S : z >= y) = x
  BY <1>1
<1> QED
  BY <1>2 DEF Sets!Max

LEMMA PartIs ==
  ASSUME NEW S, NEW s \in Seq(S), NEW t \in Seq(S), NEW i \in Nat, i >= 1,
         i + Len(t) - 1 <= Len(s),
         \A k \in 1..Len(t) : t[k] = s[i + k - 1]
  PROVE  SubSeq(s, i, i + Len(t) - 1) = t
OBVIOUS

Names == {"username", "password"}
Texture == Characters \cup Names

\* One pair of the form.
LEMMA PairIs ==
  ASSUME NEW name \in Names, NEW e \in Seq(Harmless),
         NEW pair, pair = <<name, "=">> \o e
  PROVE  Key(pair) = <<name>> /\ Value(pair) = UrlDecode(e)
<1> DEFINE head == <<name, "=">>
           n == Len(e)
<1>0. /\ name \in Texture /\ name # "=" /\ name # "%" /\ name # "+"
      /\ "=" \in Texture /\ Harmless \subseteq Texture
      /\ \A c \in Harmless : c # "="
  BY DEF Names, Texture, Harmless, Characters, Special, Code
<1>1. head \in Seq(Texture) /\ e \in Seq(Texture) /\ Len(head) = 2 /\ n \in Nat
  BY <1>0
<1>2. /\ pair \in Seq(Texture) /\ Len(pair) = n + 2
      /\ pair[1] = name /\ pair[2] = "=" /\ \A j \in 1..n : pair[2 + j] = e[j]
  <2>1. head[1] = name /\ head[2] = "="
    OBVIOUS
  <2> HIDE DEF head
  <2>2. /\ Len(head \o e) = Len(head) + Len(e)
        /\ \A j \in 1..Len(head) : (head \o e)[j] = head[j]
        /\ \A j \in 1..Len(e) : (head \o e)[Len(head) + j] = e[j]
    <3>1. head \in Seq(Texture) /\ e \in Seq(Texture)
      BY <1>1
    <3> QED
      BY <3>1, JoinedIs
  <2>3. head \o e \in Seq(Texture) /\ pair = head \o e
    BY <1>1 DEF head
  <2>4. 1 \in 1..Len(head) /\ 2 \in 1..Len(head) /\ 2 + n = n + 2
    BY <1>1
  <2> QED
    BY <1>1, <2>1, <2>2, <2>3, <2>4
<1> HIDE DEF head, n
<1>3. Sets!Min(Ends(pair, "=")) = 2
  <2>1. Ends(pair, "=") = {i \in 1..(n + 2) : pair[i] = "="} \cup {n + 3}
    BY <1>1, <1>2 DEF Ends
  <2>2. 2 \in Ends(pair, "=")
    <3>1. 2 \in 1..(n + 2)
      BY <1>1
    <3> QED
      BY <1>2, <2>1, <3>1
  <2>3. ASSUME NEW y \in Ends(pair, "=") PROVE 2 \in Int /\ y \in Int /\ 2 <= y
    <3>1. CASE y = n + 3
      BY <1>1, <3>1
    <3>2. CASE y \in 1..(n + 2) /\ pair[y] = "="
      <4>1. y # 1
        BY <1>0, <1>2, <3>2
      <4> QED
        BY <3>2, <4>1
    <3> QED
      BY <2>1, <3>1, <3>2
  <2> QED
    BY <2>2, <2>3, MinIs
<1>4. SubSeq(pair, 1, 1) = <<name>>
  <2> DEFINE s == <<name>>
  <2>1. s \in Seq(Texture) /\ Len(s) = 1 /\ s[1] = name
    BY <1>0
  <2> HIDE DEF s
  <2>2. 1 + Len(s) - 1 = 1 /\ 1 + Len(s) - 1 <= Len(pair)
    BY <1>1, <1>2, <2>1
  <2>3. \A k \in 1..Len(s) : s[k] = pair[1 + k - 1]
    BY <1>2, <2>1
  <2>4. SubSeq(pair, 1, 1 + Len(s) - 1) = s
    BY <1>2, <2>1, <2>2, <2>3, PartIs
  <2> QED
    BY <2>2, <2>4 DEF s
<1>5. SubSeq(pair, 3, n + 2) = e
  <2>1. 3 + Len(e) - 1 = n + 2 /\ 3 + Len(e) - 1 <= Len(pair)
    BY <1>1, <1>2 DEF n
  <2>2. ASSUME NEW k \in 1..Len(e) PROVE e[k] = pair[3 + k - 1]
    <3>1. 3 + k - 1 = 2 + k /\ k \in 1..n
      BY <1>1 DEF n
    <3> QED
      BY <1>2, <3>1
  <2>3. SubSeq(pair, 3, 3 + Len(e) - 1) = e
    BY <1>1, <1>2, <2>1, <2>2, PartIs
  <2> QED
    BY <2>1, <2>3
<1>6. UrlDecode(<<name>>) = <<name>>
  <2> DEFINE s == <<name>>
  <2>1. s \in Seq(Texture) /\ Len(s) = 1 /\ s[1] = name
    BY <1>0
  <2> HIDE DEF s
  <2>2. PICK from : /\ UrlDecode(s) = from[1]
                    /\ \A i \in 1..(Len(s) + 1) : from[i] = Rest(s, from, i)
    BY <2>1, DecodingIs
  <2>3. ~IsEscape(s, 1)
    BY <1>0, <2>1 DEF IsEscape
  <2>4. from[1] = <<name>> \o from[2]
    BY <1>0, <2>1, <2>2, <2>3 DEF Rest
  <2>5. from[2] = <<>>
    BY <2>1, <2>2 DEF Rest
  <2>6. <<name>> \o <<>> = <<name>>
    OBVIOUS
  <2> QED
    BY <2>2, <2>4, <2>5, <2>6 DEF s
<1>7. Sets!Min(Ends(pair, "=")) - 1 = 1 /\ Sets!Min(Ends(pair, "=")) + 1 = 3
  BY <1>3
<1>8. Key(pair) = UrlDecode(SubSeq(pair, 1, 1))
  BY <1>7 DEF Key
<1>9. Value(pair) = UrlDecode(SubSeq(pair, 3, n + 2))
  BY <1>2, <1>7 DEF Value
<1> QED
  BY <1>4, <1>5, <1>6, <1>8, <1>9

\* The whole form.
LEMMA FormIs ==
  ASSUME NEW typed, typed.user \in Seq(Characters), typed.password \in Seq(Characters)
  PROVE  /\ Field(Submitted(typed), "username") = typed.user
         /\ Field(Submitted(typed), "password") = typed.password
<1> DEFINE e1 == Encoded(typed.user)
           e2 == Encoded(typed.password)
           a == Len(e1)
           b == Len(e2)
           h1 == <<"username", "=">>
           h2 == <<"&", "password", "=">>
           u1 == h1 \o e1
           u2 == u1 \o h2
           body == u2 \o e2
           p2 == <<"password", "=">> \o e2
<1>0. /\ Harmless \subseteq Texture /\ {"username", "password", "&", "="} \subseteq Texture
      /\ \A c \in Harmless : c # "&"
  BY DEF Names, Texture, Harmless, Characters, Special, Code
<1>1. /\ e1 \in Seq(Harmless) /\ e2 \in Seq(Harmless)
      /\ UrlDecode(e1) = typed.user /\ UrlDecode(e2) = typed.password
  BY EncodingIs, RoundTrip
<1>2. body = Submitted(typed)
  BY DEF Submitted
<1> HIDE DEF e1, e2
<1>3. /\ e1 \in Seq(Texture) /\ e2 \in Seq(Texture) /\ a \in Nat /\ b \in Nat
      /\ h1 \in Seq(Texture) /\ Len(h1) = 2 /\ h1[1] = "username" /\ h1[2] = "="
      /\ h2 \in Seq(Texture) /\ Len(h2) = 3
      /\ h2[1] = "&" /\ h2[2] = "password" /\ h2[3] = "="
  BY <1>0, <1>1
<1> HIDE DEF h1, h2, a, b
<1>4. /\ u1 \in Seq(Texture) /\ Len(u1) = a + 2
      /\ u1[1] = "username" /\ u1[2] = "=" /\ \A j \in 1..a : u1[2 + j] = e1[j]
  <2>1. /\ Len(u1) = Len(h1) + Len(e1)
        /\ \A j \in 1..Len(h1) : u1[j] = h1[j]
        /\ \A j \in 1..Len(e1) : u1[Len(h1) + j] = e1[j]
    <3>1. h1 \in Seq(Texture) /\ e1 \in Seq(Texture)
      BY <1>3
    <3> QED
      BY <3>1, JoinedIs
  <2>2. u1 \in Seq(Texture)
    BY <1>3
  <2> QED
    BY <1>3, <2>1, <2>2 DEF a
<1>5. /\ u2 \in Seq(Texture) /\ Len(u2) = a + 5
      /\ u2[a + 3] = "&" /\ u2[a + 4] = "password" /\ u2[a + 5] = "="
      /\ \A j \in 1..(a + 2) : u2[j] = u1[j]
  <2> HIDE DEF u1
  <2>1. /\ Len(u2) = Len(u1) + Len(h2)
        /\ \A j \in 1..Len(u1) : u2[j] = u1[j]
        /\ \A j \in 1..Len(h2) : u2[Len(u1) + j] = h2[j]
    <3>1. u1 \in Seq(Texture) /\ h2 \in Seq(Texture)
      BY <1>3, <1>4
    <3> QED
      BY <3>1, JoinedIs
  <2>2. u2 \in Seq(Texture)
    BY <1>3, <1>4
  <2>3. u2[a + 2 + 1] = "&" /\ u2[a + 2 + 2] = "password" /\ u2[a + 2 + 3] = "="
    BY <1>3, <1>4, <2>1
  <2> QED
    BY <1>3, <1>4, <2>1, <2>2, <2>3
<1>6. /\ body \in Seq(Texture) /\ Len(body) = a + b + 5
      /\ \A j \in 1..(a + 5) : body[j] = u2[j]
      /\ \A j \in 1..b : body[a + 5 + j] = e2[j]
  <2> HIDE DEF u2
  <2>1. /\ Len(body) = Len(u2) + Len(e2)
        /\ \A j \in 1..Len(u2) : body[j] = u2[j]
        /\ \A j \in 1..Len(e2) : body[Len(u2) + j] = e2[j]
    <3>1. u2 \in Seq(Texture) /\ e2 \in Seq(Texture)
      BY <1>3, <1>5
    <3> QED
      BY <3>1, JoinedIs
  <2>2. body \in Seq(Texture)
    BY <1>3, <1>5
  <2> QED
    BY <1>3, <1>5, <2>1, <2>2 DEF b
<1> HIDE DEF u1, u2, body
<1>7. Ends(body, "&") = {a + 3, a + b + 6}
  <2>1. DOMAIN body = 1..(a + b + 5) /\ Len(body) + 1 = a + b + 6
    BY <1>3, <1>6
  <2>2. body[a + 3] = "&" /\ a + 3 \in 1..(a + b + 5)
    BY <1>3, <1>5, <1>6
  <2>3. ASSUME NEW i \in 1..(a + b + 5), i # a + 3 PROVE body[i] # "&"
    <3>1. CASE i \in {1, 2}
      BY <1>3, <1>4, <1>5, <1>6, <3>1
    <3>2. CASE i \in {a + 4, a + 5}
      BY <1>3, <1>5, <1>6, <3>2
    <3>3. CASE i \in 3..(a + 2)
      <4>1. PICK j \in 1..a : i = 2 + j
        <5>1. i - 2 \in 1..a /\ i = 2 + (i - 2)
          BY <1>3, <3>3
        <5> QED
          BY <5>1
      <4>2. e1[j] \in Harmless
        BY <1>1, <4>1 DEF a
      <4> QED
        BY <1>0, <1>3, <1>4, <1>5, <1>6, <3>3, <4>1, <4>2
    <3>4. CASE i \in (a + 6)..(a + b + 5)
      <4>1. PICK j \in 1..b : i = a + 5 + j
        <5>1. i - a - 5 \in 1..b /\ i = a + 5 + (i - a - 5)
          BY <1>3, <3>4
        <5> QED
          BY <5>1
      <4>2. e2[j] \in Harmless
        BY <1>1, <4>1 DEF b
      <4> QED
        BY <1>0, <1>6, <4>1, <4>2
    <3> QED
      BY <1>3, <2>3, <3>1, <3>2, <3>3, <3>4
  <2> QED
    BY <2>1, <2>2, <2>3 DEF Ends
<1>8. PairBefore(body, a + 3) = u1
  <2> DEFINE before == {0} \cup {i \in Ends(body, "&") : i < a + 3}
  <2>1. ASSUME NEW i \in Ends(body, "&") PROVE ~(i < a + 3)
    <3>1. i = a + 3 \/ i = a + b + 6
      BY <1>7
    <3> QED
      BY <1>3, <3>1
  <2>2. before = {0}
    BY <2>1
  <2> HIDE DEF before
  <2>5. Sets!Max(before) = 0
    <3>1. 0 \in before /\ \A y \in before : 0 \in Int /\ y \in Int /\ 0 >= y
      BY <2>2
    <3> QED
      BY <3>1, MaxIs
  <2>6. Sets!Max(before) + 1 = 1
    BY <2>5
  <2>7. PairBefore(body, a + 3) = SubSeq(body, Sets!Max(before) + 1, (a + 3) - 1)
    BY DEF PairBefore, before
  <2>3. SubSeq(body, 1, 1 + Len(u1) - 1) = u1
    <3>1. 1 + Len(u1) - 1 <= Len(body)
      BY <1>3, <1>4, <1>6
    <3>2. \A k \in 1..Len(u1) : u1[k] = body[1 + k - 1]
      BY <1>3, <1>4, <1>5, <1>6
    <3> QED
      BY <1>4, <1>6, <3>1, <3>2, PartIs
  <2>4. (a + 3) - 1 = 1 + Len(u1) - 1
    BY <1>3, <1>4
  <2>8. PairBefore(body, a + 3) = SubSeq(body, 1, 1 + Len(u1) - 1)
    BY <2>4, <2>6, <2>7
  <2> QED
    BY <2>3, <2>8
<1>9. PairBefore(body, a + b + 6) = p2
  <2> DEFINE h3 == <<"password", "=">>
  <2>0. h3 \in Seq(Texture) /\ Len(h3) = 2 /\ h3[1] = "password" /\ h3[2] = "="
    BY <1>0
  <2> HIDE DEF h3
  <2>1. p2 = h3 \o e2
    BY DEF h3
  <2>2. /\ p2 \in Seq(Texture) /\ Len(p2) = b + 2 /\ p2[1] = "password" /\ p2[2] = "="
        /\ \A j \in 1..b : p2[2 + j] = e2[j]
    <3>1. /\ Len(h3 \o e2) = Len(h3) + Len(e2)
          /\ \A j \in 1..Len(h3) : (h3 \o e2)[j] = h3[j]
          /\ \A j \in 1..Len(e2) : (h3 \o e2)[Len(h3) + j] = e2[j]
      <4>1. h3 \in Seq(Texture) /\ e2 \in Seq(Texture)
        BY <1>3, <2>0
      <4> QED
        BY <4>1, JoinedIs
    <3>2. h3 \o e2 \in Seq(Texture)
      BY <1>3, <2>0
    <3> QED
      BY <1>3, <2>0, <2>1, <3>1, <3>2 DEF b
  <2> HIDE DEF p2
  <2> DEFINE before == {0} \cup {i \in Ends(body, "&") : i < a + b + 6}
  <2>3. before = {0, a + 3}
    <3>1. a + 3 < a + b + 6 /\ ~(a + b + 6 < a + b + 6)
      BY <1>3
    <3> QED
      BY <1>7, <3>1
  <2> HIDE DEF before
  <2>4. Sets!Max(before) = a + 3
    <3>1. a + 3 \in before
      BY <2>3
    <3>2. \A y \in before : a + 3 \in Int /\ y \in Int /\ a + 3 >= y
      BY <1>3, <2>3
    <3> QED
      BY <3>1, <3>2, MaxIs
  <2>7. PairBefore(body, a + b + 6) = SubSeq(body, Sets!Max(before) + 1, (a + b + 6) - 1)
    BY DEF PairBefore, before
  <2>5. SubSeq(body, a + 4, a + 4 + Len(p2) - 1) = p2
    <3>1. a + 4 + Len(p2) - 1 <= Len(body) /\ a + 4 \in Nat /\ a + 4 >= 1
      BY <1>3, <1>6, <2>2
    <3>2. ASSUME NEW k \in 1..Len(p2) PROVE p2[k] = body[a + 4 + k - 1]
      <4>1. CASE k = 1
        BY <1>3, <1>5, <1>6, <2>2, <4>1
      <4>2. CASE k = 2
        BY <1>3, <1>5, <1>6, <2>2, <4>2
      <4>3. CASE k \in 3..(b + 2)
        <5>1. PICK j \in 1..b : k = 2 + j
          <6>1. k - 2 \in 1..b /\ k = 2 + (k - 2)
            BY <1>3, <4>3
          <6> QED
            BY <6>1
        <5>2. a + 4 + k - 1 = a + 5 + j
          BY <1>3, <5>1
        <5>3. body[a + 5 + j] = e2[j] /\ p2[2 + j] = e2[j]
          BY <1>6, <2>2, <5>1
        <5> QED
          BY <5>1, <5>2, <5>3
      <4> QED
        BY <1>3, <2>2, <4>1, <4>2, <4>3
    <3>3. body \in Seq(Texture) /\ p2 \in Seq(Texture)
      BY <1>6, <2>2
    <3> DEFINE i == a + 4
    <3>4. i \in Nat /\ i >= 1 /\ i + Len(p2) - 1 <= Len(body)
      BY <3>1
    <3>5. \A k \in 1..Len(p2) : p2[k] = body[i + k - 1]
      BY <3>2
    <3> HIDE DEF i
    <3>6. SubSeq(body, i, i + Len(p2) - 1) = p2
      BY <3>3, <3>4, <3>5, PartIs
    <3> QED
      BY <3>6 DEF i
  <2>6. (a + b + 6) - 1 = a + 4 + Len(p2) - 1 /\ Sets!Max(before) + 1 = a + 4
    BY <1>3, <2>2, <2>4
  <2>8. PairBefore(body, a + b + 6) = SubSeq(body, a + 4, a + 4 + Len(p2) - 1)
    BY <2>6, <2>7
  <2> QED
    BY <2>5, <2>8
<1>10. /\ Key(u1) = <<"username">> /\ Value(u1) = typed.user
       /\ Key(p2) = <<"password">> /\ Value(p2) = typed.password
  <2>1. Key(u1) = <<"username">> /\ Value(u1) = UrlDecode(e1)
    <3>1. "username" \in Names /\ u1 = <<"username", "=">> \o e1
      BY DEF Names, u1, h1
    <3> QED
      BY <1>1, <3>1, PairIs
  <2>2. Key(p2) = <<"password">> /\ Value(p2) = UrlDecode(e2)
    <3>1. "password" \in Names
      BY DEF Names
    <3> QED
      BY <1>1, <3>1, PairIs
  <2> QED
    BY <1>1, <2>1, <2>2
<1> HIDE DEF p2
<1>11. <<"username">> # <<"password">>
  OBVIOUS
<1>12. a + 3 # a + b + 6 /\ a + 3 \in Int /\ a + b + 6 \in Int
  BY <1>3
<1>13. Field(body, "username") = typed.user
  <2> DEFINE places == {e \in Ends(body, "&") : Key(PairBefore(body, e)) = <<"username">>}
  <2>1. places = {a + 3}
    BY <1>7, <1>8, <1>9, <1>10, <1>11
  <2>2. Field(body, "username") =
          IF places = {} THEN <<>> ELSE Value(PairBefore(body, Sets!Max(places)))
    BY DEF Field
  <2> HIDE DEF places
  <2>3. Sets!Max(places) = a + 3
    <3>1. a + 3 \in places /\ \A y \in places : a + 3 \in Int /\ y \in Int /\ a + 3 >= y
      BY <1>12, <2>1
    <3> QED
      BY <3>1, MaxIs
  <2>4. places # {}
    BY <2>1
  <2> QED
    BY <1>8, <1>10, <2>2, <2>3, <2>4
<1>14. Field(body, "password") = typed.password
  <2> DEFINE places == {e \in Ends(body, "&") : Key(PairBefore(body, e)) = <<"password">>}
  <2>1. places = {a + b + 6}
    BY <1>7, <1>8, <1>9, <1>10, <1>11
  <2>2. Field(body, "password") =
          IF places = {} THEN <<>> ELSE Value(PairBefore(body, Sets!Max(places)))
    BY DEF Field
  <2> HIDE DEF places
  <2>3. Sets!Max(places) = a + b + 6
    <3>1. a + b + 6 \in places /\ \A y \in places : a + b + 6 \in Int /\ y \in Int /\ a + b + 6 >= y
      BY <1>12, <2>1
    <3> QED
      BY <3>1, MaxIs
  <2>4. places # {}
    BY <2>1
  <2> QED
    BY <1>9, <1>10, <2>2, <2>3, <2>4
<1> QED
  BY <1>2, <1>13, <1>14

\* A form that nothing was typed into.
LEMMA EmptyFormIs ==
  ASSUME NEW key
  PROVE  Field(<<>>, key) = <<>>
<1> DEFINE body == <<>>
<1>1. body \in Seq(Texture) /\ Len(body) = 0 /\ DOMAIN body = {}
  OBVIOUS
<1> HIDE DEF body
<1>2. UrlDecode(body) = <<>>
  <2>1. PICK from : /\ UrlDecode(body) = from[1]
                    /\ \A i \in 1..(Len(body) + 1) : from[i] = Rest(body, from, i)
    BY <1>1, DecodingIs
  <2>2. 1 \in 1..(Len(body) + 1) /\ 1 > Len(body)
    BY <1>1
  <2> QED
    BY <2>1, <2>2 DEF Rest
<1>3. \A i, j \in Int : j < i => SubSeq(body, i, j) = <<>>
  OBVIOUS
<1>4. Ends(body, "&") = {1} /\ Ends(body, "=") = {1}
  BY <1>1 DEF Ends
<1>5. Key(PairBefore(body, 1)) = <<>>
  <2> DEFINE before == {0} \cup {i \in Ends(body, "&") : i < 1}
  <2>1. before = {0}
    BY <1>4
  <2>2. PairBefore(body, 1) = SubSeq(body, Sets!Max(before) + 1, 1 - 1)
    BY DEF PairBefore, before
  <2> HIDE DEF before
  <2>3. Sets!Max(before) = 0
    <3>1. 0 \in before /\ \A y \in before : 0 \in Int /\ y \in Int /\ 0 >= y
      BY <2>1
    <3> QED
      BY <3>1, MaxIs
  <2>4. PairBefore(body, 1) = body
    <3>1. Sets!Max(before) + 1 = 1 /\ 1 - 1 = 0
      BY <2>3
    <3> QED
      BY <1>3, <2>2, <3>1 DEF body
  <2> DEFINE ends == Ends(body, "=")
  <2>5. Key(body) = UrlDecode(SubSeq(body, 1, Sets!Min(ends) - 1))
    BY DEF Key, ends
  <2>6. Sets!Min(ends) = 1
    <3> HIDE DEF ends
    <3>1. ends = {1}
      BY <1>4 DEF ends
    <3>2. 1 \in ends /\ \A y \in ends : 1 \in Int /\ y \in Int /\ 1 <= y
      BY <3>1
    <3> QED
      BY <3>2, MinIs
  <2> HIDE DEF ends
  <2>7. Sets!Min(ends) - 1 = 0
    BY <2>6
  <2>8. SubSeq(body, 1, 0) = body
    BY <1>3 DEF body
  <2> QED
    BY <1>2, <2>4, <2>5, <2>7, <2>8
<1> DEFINE places == {e \in Ends(body, "&") : Key(PairBefore(body, e)) = <<key>>}
<1>6. places = {}
  <2>1. <<>> # <<key>>
    OBVIOUS
  <2> QED
    BY <1>4, <1>5, <2>1
<1>7. Field(body, key) = IF places = {} THEN <<>> ELSE Value(PairBefore(body, Sets!Max(places)))
  BY DEF Field
<1> HIDE DEF places
<1> QED
  BY <1>6, <1>7 DEF body

------------------------------------------------------------------------------
(* The page shows what was written into it.                                    *)

LEMMA EntitiesAre ==
  /\ DOMAIN Entity = {"&", "<", ">", "quote", "'"}
  /\ \A c, d \in DOMAIN Entity : Entity[c] = Entity[d] => c = d
  /\ \A c \in DOMAIN Entity : Entity[c] \notin Characters
<1>1. /\ DOMAIN Entity = {"&", "<", ">", "quote", "'"}
      /\ Entity["&"] = "&amp;" /\ Entity["<"] = "&lt;" /\ Entity[">"] = "&gt;"
      /\ Entity["quote"] = "&quot;" /\ Entity["'"] = "&#39;"
  BY DEF Entity
<1>2. /\ "&amp;" \notin Characters /\ "&lt;" \notin Characters /\ "&gt;" \notin Characters
      /\ "&quot;" \notin Characters /\ "&#39;" \notin Characters
  BY CodesOf, DigitsAre DEF Characters, Special
<1> QED
  BY <1>1, <1>2

LEMMA DisplayedIs ==
  ASSUME NEW text \in Seq(Characters)
  PROVE  Displayed(HtmlEscape(text)) = text
<1> DEFINE html == HtmlEscape(text)
           shown == Displayed(html)
<1>1. DOMAIN html = DOMAIN text /\ DOMAIN shown = DOMAIN text
  BY DEF HtmlEscape, Displayed
<1>2. ASSUME NEW i \in DOMAIN text PROVE shown[i] = text[i]
  <2>1. html[i] = IF text[i] \in DOMAIN Entity THEN Entity[text[i]] ELSE text[i]
    BY DEF HtmlEscape
  <2>2. text[i] \in Characters
    OBVIOUS
  <2> HIDE DEF html
  <2>3. shown[i] = IF \E c \in DOMAIN Entity : Entity[c] = html[i]
                   THEN CHOOSE c \in DOMAIN Entity : Entity[c] = html[i]
                   ELSE IF html[i] \in {"&", "<"} THEN "markup" ELSE html[i]
    BY <1>1 DEF Displayed
  <2> HIDE DEF shown
  <2>4. CASE text[i] \in DOMAIN Entity
    <3>1. \A c \in DOMAIN Entity : Entity[c] = html[i] <=> c = text[i]
      BY <2>1, <2>4, EntitiesAre
    <3>2. (CHOOSE c \in DOMAIN Entity : Entity[c] = html[i]) = text[i]
      BY <2>4, <3>1
    <3> QED
      BY <2>3, <2>4, <3>1, <3>2
  <2>5. CASE text[i] \notin DOMAIN Entity
    <3>1. html[i] = text[i]
      BY <2>1, <2>5
    <3>2. ~ \E c \in DOMAIN Entity : Entity[c] = html[i]
      BY <2>2, <3>1, EntitiesAre
    <3>3. html[i] \notin {"&", "<"}
      BY <2>5, <3>1, EntitiesAre
    <3> QED
      BY <2>3, <3>1, <3>2, <3>3
  <2> QED
    BY <2>4, <2>5
<1>3. shown = [i \in DOMAIN text |-> shown[i]]
  BY <1>1 DEF Displayed
<1>4. text = [i \in DOMAIN text |-> text[i]]
  OBVIOUS
<1> HIDE DEF shown
<1> QED
  BY <1>2, <1>3, <1>4 DEF shown

------------------------------------------------------------------------------
\* From the typing to the answer: the store is asked about what was typed, the page
\* that answers is one in memory and shows the name, and the response carries it.
\* (The site changes while a GET is answered, so a page that has no file is never
\* taken for one that has.)
TypedInv ==
  /\ request \in Requests
  /\ request.method # "GET" => site = Site
  /\ pc = "resolve" => asked = None
  /\ asked # None =>
       /\ request.method # "GET"
       /\ pc \in {"stat", "done"}
       /\ asked = request.typed
       /\ page.file = None
       /\ Displayed(page.user) = request.typed.user
       /\ pc = "done" => response.user = page.user

\* What PostLogin gives to the account store.
LEMMA LoginIsTyped ==
  ASSUME NEW r \in Requests, r.method = "POST", Cut(r.url) = "/login"
  PROVE  LET body == IF r.typed = NotTyped THEN <<>> ELSE Submitted(r.typed)
         IN  /\ [user |-> Field(body, "username"),
                 password |-> Field(body, "password")] = r.typed
             /\ r.typed.user \in Seq(Characters)
<1>1. r.typed = NotTyped \/ r.typed \in [user : Texts, password : Texts]
  BY DEF Requests
<1>2. CASE r.typed = NotTyped
  <2>1. <<>> \in Seq(Characters)
    OBVIOUS
  <2> QED
    BY <1>2, <2>1, EmptyFormIs DEF NotTyped
<1>3. CASE r.typed # NotTyped
  <2>1. /\ r.typed = [user |-> r.typed.user, password |-> r.typed.password]
        /\ r.typed.user \in Seq(Characters) /\ r.typed.password \in Seq(Characters)
    BY <1>1, <1>3, SiteAssumption
  <2>2. /\ Field(Submitted(r.typed), "username") = r.typed.user
        /\ Field(Submitted(r.typed), "password") = r.typed.password
    BY <2>1, FormIs
  <2> QED
    BY <1>3, <2>1, <2>2
<1> QED
  BY <1>2, <1>3

\* What is typed into the login form is what the account store is asked about, and
\* the answer shows the name as it was typed, for texts of any length and with any
\* of the characters that mean something to a form or to a page.
THEOREM TypedStays == Spec => []TypedIsKept
<1>1. Init => TypedInv
  BY DEF Init, TypedInv
<1>2. TypedInv /\ [Next]_vars => TypedInv'
  <2> SUFFICES ASSUME TypedInv, [Next]_vars PROVE TypedInv'
    OBVIOUS
  <2> USE DEF TypedInv
  <2>1. CASE RefuseMethod \/ RefuseForm \/ PostElsewhere \/ GetErrorPage \/ GetFile
    BY <2>1 DEF RefuseMethod, RefuseForm, PostElsewhere, GetErrorPage, GetFile, Resolved,
                siteVars
  <2>2. CASE PostLogin
    <3> DEFINE body == IF request.typed = NotTyped THEN <<>> ELSE Submitted(request.typed)
               login == [user |-> Field(body, "username"), password |-> Field(body, "password")]
    <3>1. PICK status : /\ page' = LoginPage(status, login.user)
                        /\ asked' = login
                        /\ pc' = "stat"
                        /\ UNCHANGED <<site, request>>
      BY <2>2 DEF PostLogin, Resolved, siteVars
    <3>2. /\ pc = "resolve" /\ request.method = "POST" /\ Cut(request.url) = "/login"
      BY <2>2 DEF PostLogin, Target
    <3>3. login = request.typed /\ request.typed.user \in Seq(Characters)
      BY <3>2, LoginIsTyped
    <3> HIDE DEF login
    <3>4. page'.file = None /\ page'.user = HtmlEscape(request.typed.user)
      BY <3>1, <3>3 DEF LoginPage, InlinePage
    <3>5. Displayed(page'.user) = request.typed.user
      BY <3>3, <3>4, DisplayedIs
    <3> QED
      BY <3>1, <3>2, <3>3, <3>4, <3>5
  <2>3. CASE BuildInline
    BY <2>3 DEF BuildInline, Respond, Simple
  <2>4. CASE Stat \/ StatFails
    BY <2>4, SiteAssumption DEF Stat, StatFails, siteVars, Respond
  <2>5. CASE Open \/ OpenFails \/ Read \/ ReadFails \/ ReadEnds
    BY <2>5 DEF Open, OpenFails, Read, ReadFails, ReadEnds, siteVars, Respond
  <2>6. ASSUME NEW p \in DOMAIN Site, Replace(p) \/ Remove(p) \/ Rewrite(p)
        PROVE  TypedInv'
    BY <2>6 DEF Replace, Remove, Rewrite, SiteChanges
  <2>7. CASE UNCHANGED vars
    BY <2>7 DEF vars, siteVars
  <2> QED
    BY <2>1, <2>2, <2>3, <2>4, <2>5, <2>6, <2>7 DEF Next, Resolve, Build
<1>3. TypedInv => TypedIsKept
  BY DEF TypedInv, TypedIsKept
<1> QED
  BY <1>1, <1>2, <1>3, PTL DEF Spec
==============================================================================
