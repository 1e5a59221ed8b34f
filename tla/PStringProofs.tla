--------------------------- MODULE PStringProofs ---------------------------
(***************************************************************************)
(* The buffer of the document is never read or written beyond its ends,    *)
(* for documents of any length: what InBounds, GivesUpLate, LenIsText and  *)
(* SomethingToShow say of PString.                                         *)
(***************************************************************************)
EXTENDS PString, SequenceTheorems, TLAPS

Writing == {"write", "format", "chomp", "strip"}
Compressing == {"loop", "again", "run", "newlines", "copy", "terminate"}

FormatTypeOK ==
    piece \in Seq(Chars) /\ converts \in BOOLEAN /\ room \in Nat /\ dest \in {"doc", "buffer"}

\* While text is appended: the only terminator is at len, and the first
\* character stops pstring_chomp(), unless the footer is all there is.
WInv ==
    /\ size = 0 => len = 0 /\ pc \in {"write", "format"}
    /\ size > 0 =>
         /\ len > 0 /\ size = len + 1
         /\ buf[len] = NUL
         /\ \A i \in 0..(len - 1) : buf[i] \in Chars
         /\ buf[0] \in Letters \/ (len = 1 /\ pc = "chomp")
    /\ pc = "format" =>
         /\ len = 0 /\ piece # <<>> => piece[1] \in Letters
         /\ dest = "buffer" => piece # <<>>
    /\ pc \in {"chomp", "strip"} => buf[len - 1] = NL

\* pstring_chomp(): what it has passed is removable.
SInv ==
    /\ len > 1
    /\ p \in 0..(len - 1)
    /\ p + removable = len - 1
    /\ \A i \in (p + 1)..(len - 1) : buf[i] \in Removable

\* What pstring_chomp() leaves ends in one newline.
EndInv ==
    /\ len > 0 /\ len < size
    /\ buf[len] = NUL
    /\ from <= len - 1 => buf[len - 1] = NL
    /\ from <= len - 2 => buf[len - 2] \notin Removable
    /\ \A i \in from..(len - 1) : buf[i] \in Chars
    /\ from = 0 => buf[0] \in Letters \/ len = 1

\* pstring_compress(): what it has kept and what it has counted are together no
\* more than what it has passed, and it stops short of the last newline.
CInv ==
    /\ EndInv
    /\ from <= to /\ to <= len
    /\ from + blanks + count <= to
    /\ from = 0 => to = 0
    /\ \A i \in 0..(from - 1) : buf[i] \in Chars
    /\ to = len => pc \in {"loop", "terminate"} /\ (len = 1 \/ from > 1)
    /\ pc = "terminate" => to = len
    /\ pc = "run" =>
         /\ from <= start /\ start <= to
         /\ to - start <= count
         /\ \A i \in start..(to - 1) : buf[i] = wide_indent_char
    /\ pc = "newlines" =>
         /\ to <= len - 2
         /\ buf[to] = NL \/ from + blanks + count + 1 <= to

IInv ==
    /\ PStringTypeOK
    /\ pc \in Writing => from = 0 /\ WInv
    /\ pc = "strip" => SInv
    /\ pc = "compress" => from = 0 /\ EndInv
    /\ pc \in Compressing => CInv
    /\ SomethingToShow
    /\ GivesUpLate

-----------------------------------------------------------------------------
\* The kinds of character exclude one another.
LEMMA KindsDiffer ==
    /\ NL # NUL /\ wide_indent_char # NUL /\ NL # wide_indent_char
    /\ NUL \notin Chars
    /\ \A c \in Letters : c \notin Removable /\ c # NL /\ c # wide_indent_char
    /\ NL \in Chars /\ Removable \subseteq Chars /\ Letters \subseteq Chars
BY LettersAssumption DEF NL, wide_indent_char, NUL, Chars, Removable

\* The pieces that are appended are strings.
LEMMA PiecesAreStrings == Pieces \subseteq Seq(Chars)
BY BoundsAssumption, SeqDef DEF Pieces

LEMMA SpacesAreStrings ==
    ASSUME NEW n \in Nat
    PROVE  Spaces(n) \in Seq(Chars) /\ Len(Spaces(n)) = n
<1>1. Spaces(n) \in [1..n -> Chars]
  BY KindsDiffer DEF Spaces, Removable
<1>. QED  BY <1>1, SeqDef, LenProperties

\* What an append leaves: the old text, the new text, one terminator.
LEMMA ExtendKeeps ==
    ASSUME PStringTypeOK, WInv, NEW src \in Seq(Chars), src # <<>>,
           Extend(src, len + Len(src))
    PROVE  /\ len' \in Nat /\ len' > 0 /\ size' = len' + 1 /\ size' \in Nat /\ size' > 0
           /\ buf' \in [0..(size' - 1) -> Chars \cup {NUL}]
           /\ buf'[len'] = NUL
           /\ \A i \in 0..(len' - 1) : buf'[i] \in Chars
           /\ buf'[len' - 1] = src[Len(src)]
           /\ buf'[0] = IF len = 0 THEN src[1] ELSE buf[0]
<1> DEFINE n == Len(src)
<1>1. n \in Nat /\ n > 0 /\ (\A i \in 1..n : src[i] \in Chars)
  BY EmptySeq, LenProperties, ElementOfSeq
<1>2. len \in Nat /\ len' = len + n /\ size' = len + n + 1
  BY <1>1 DEF Extend, PStringTypeOK
<1>3. \A i \in 0..(len - 1) : buf[i] \in Chars
  BY <1>2 DEF WInv, PStringTypeOK
<1>4. buf' = [i \in 0..(len + n) |-> IF i < len THEN buf[i]
                                    ELSE IF i < len + n THEN src[i - len + 1] ELSE NUL]
  BY DEF Extend
<1>5. ASSUME NEW i \in 0..(len + n - 1)
      PROVE  buf'[i] \in Chars
  <2>1. CASE i < len
    <3>1. i \in 0..(len - 1) /\ i \in 0..(len + n)
      BY <1>1, <1>2, <2>1
    <3>. QED  BY <1>3, <1>4, <2>1, <3>1
  <2>2. CASE ~(i < len)
    <3>1. i - len + 1 \in 1..n /\ i \in 0..(len + n) /\ i < len + n
      BY <1>1, <1>2, <2>2
    <3>. QED  BY <1>1, <1>4, <2>2, <3>1
  <2>. QED  BY <2>1, <2>2
<1>6. buf'[len'] = NUL
  <2>1. len + n \in 0..(len + n) /\ ~(len + n < len) /\ ~(len + n < len + n)
    BY <1>1, <1>2
  <2>. QED  BY <1>2, <1>4, <2>1
<1>7. buf' \in [0..(size' - 1) -> Chars \cup {NUL}]
  <2>1. \A i \in 0..(len + n) : buf'[i] \in Chars \cup {NUL}
    BY <1>1, <1>2, <1>5, <1>6
  <2>2. 0..(size' - 1) = 0..(len + n)
    BY <1>1, <1>2
  <2>. QED  BY <1>4, <2>1, <2>2
<1>8. buf'[len' - 1] = src[n]
  <2>1. /\ len' - 1 \in 0..(len + n) /\ ~(len' - 1 < len) /\ len' - 1 < len + n
        /\ len' - 1 - len + 1 = n
    BY <1>1, <1>2
  <2>. QED  BY <1>4, <2>1
<1>9. buf'[0] = IF len = 0 THEN src[1] ELSE buf[0]
  <2>1. 0 \in 0..(len + n) /\ 0 < len + n /\ (len = 0 => 0 - len + 1 = 1) /\ (len # 0 => 0 < len)
    BY <1>1, <1>2
  <2>. QED  BY <1>4, <2>1
<1>10. \A i \in 0..(len' - 1) : buf'[i] \in Chars
  BY <1>2, <1>5
<1>11. len' \in Nat /\ len' > 0 /\ size' = len' + 1 /\ size' \in Nat /\ size' > 0
  BY <1>1, <1>2
<1>. QED  BY <1>6, <1>7, <1>8, <1>9, <1>10, <1>11

-----------------------------------------------------------------------------
LEMMA InitIInv == Init => IInv
<1> SUFFICES ASSUME Init PROVE IInv
  OBVIOUS
<1>1. <<>> \in Seq(Chars)
  BY EmptySeq
<1>2. buf \in [0..(size - 1) -> Chars \cup {NUL}]
  BY DEF Init
<1>3. PStringTypeOK
  BY <1>1, <1>2 DEF Init, PStringTypeOK
<1>4. WInv
  BY DEF Init, WInv
<1>. QED
  BY <1>3, <1>4 DEF Init, IInv, Compressing, SomethingToShow, GivesUpLate

\* An append to the document while it is written, src being what is appended.
LEMMA AppendKeeps ==
    ASSUME IInv, pc \in {"write", "format"}, pc' = "write",
           NEW src \in Seq(Chars), len = 0 /\ src # <<>> => src[1] \in Letters,
           wappendn(src), UNCHANGED <<dflt, chomp, compress, before>>,
           FormatTypeOK'
    PROVE  IInv'
<1>1. PStringTypeOK /\ WInv /\ from = 0
  BY DEF IInv, Writing
<1>2. CASE src = <<>>
  <2>1. UNCHANGED docVars
    BY <1>2 DEF wappendn
  <2>2. PStringTypeOK' /\ WInv'
    BY <1>1, <2>1 DEF PStringTypeOK, FormatTypeOK, WInv, docVars, chomp, compress
  <2>. QED
    BY <1>1, <2>2 DEF IInv, Writing, Compressing, SomethingToShow, GivesUpLate, compress
<1>3. CASE src # <<>>
  <2>1. Extend(src, len + Len(src))
    BY <1>3 DEF wappendn
  <2>2. /\ len' \in Nat /\ len' > 0 /\ size' = len' + 1
        /\ buf' \in [0..(size' - 1) -> Chars \cup {NUL}]
        /\ buf'[len'] = NUL
        /\ \A i \in 0..(len' - 1) : buf'[i] \in Chars
        /\ buf'[0] = IF len = 0 THEN src[1] ELSE buf[0]
    BY <1>1, <1>3, <2>1, ExtendKeeps
  <2>3. PStringTypeOK'
    <3>1. size' \in Nat
      BY <2>2
    <3>2. p' \in Int /\ removable' \in Nat /\ dflt' \in BOOLEAN
      BY <1>1 DEF PStringTypeOK, chomp
    <3>3. to' \in Nat /\ from' \in Nat /\ start' \in Nat /\ count' \in Nat /\ blanks' \in Nat
      BY <1>1 DEF PStringTypeOK, compress
    <3>. QED  BY <2>2, <3>1, <3>2, <3>3 DEF PStringTypeOK, FormatTypeOK
  <2>4. buf'[0] \in Letters
    BY <1>1, <1>3, <2>2 DEF WInv, PStringTypeOK
  <2>5. WInv'
    <3>1. size' # 0
      BY <2>2
    <3>. QED  BY <2>2, <2>4, <3>1 DEF WInv
  <2>. QED
    BY <1>1, <2>3, <2>5 DEF IInv, Writing, Compressing, SomethingToShow, GivesUpLate, compress
<1>. QED  BY <1>2, <1>3

LEMMA FormatKeeps ==
    ASSUME IInv, pc = "write", NEW src \in Seq(Chars), NEW ok \in BOOLEAN,
           NEW d \in {"doc", "buffer"}, len = 0 /\ src # <<>> => src[1] \in Letters,
           d = "buffer" => src # <<>>,
           Format(src, ok, d), UNCHANGED <<dflt, docVars, chomp, compress, before>>
    PROVE  IInv'
<1>1. PStringTypeOK /\ WInv /\ from = 0
  BY DEF IInv, Writing
<1>2. PStringTypeOK'
  BY <1>1, BoundsAssumption DEF PStringTypeOK, Format, docVars, chomp, compress
<1>3. WInv'
  BY <1>1 DEF WInv, Format, docVars
<1>. QED
  BY <1>1, <1>2, <1>3 DEF IInv, Writing, Compressing, SomethingToShow, GivesUpLate, compress, Format

\* The calls that write the document.
LEMMA WritingKeeps ==
    ASSUME IInv, wappend \/ wappendf \/ add_indent \/ wappendva
    PROVE  IInv'
<1>1. PStringTypeOK
  BY DEF IInv
<1>2. FormatTypeOK
  BY <1>1 DEF PStringTypeOK, FormatTypeOK
<1>3. CASE wappend
  <2>1. PICK src \in Pieces : Fits(src) /\ wappendn(src)
    BY <1>3 DEF wappend
  <2>2. src \in Seq(Chars) /\ (len = 0 /\ src # <<>> => src[1] \in Letters)
    BY <2>1, PiecesAreStrings DEF Fits
  <2>3. FormatTypeOK'
    BY <1>2, <1>3 DEF wappend, format, FormatTypeOK
  <2>4. pc = "write" /\ pc' = "write" /\ UNCHANGED <<dflt, chomp, compress, before>>
    BY <1>3 DEF wappend
  <2>. QED  BY <2>1, <2>2, <2>3, <2>4, AppendKeeps
<1>4. CASE wappendf
  <2>1. PICK src \in Pieces, ok \in BOOLEAN : Fits(src) /\ Format(src, ok, "doc")
    BY <1>4 DEF wappendf
  <2>2. src \in Seq(Chars) /\ (len = 0 /\ src # <<>> => src[1] \in Letters)
    BY <2>1, PiecesAreStrings DEF Fits
  <2>3. pc = "write" /\ UNCHANGED <<dflt, docVars, chomp, compress, before>>
    BY <1>4 DEF wappendf
  <2>. QED  BY <2>1, <2>2, <2>3, FormatKeeps
<1>5. CASE add_indent
  <2>1. PICK n \in 1..MaxPiece : Format(Spaces(n), TRUE, IF dflt THEN "doc" ELSE "buffer")
    BY <1>5 DEF add_indent
  <2>2. n \in Nat
    BY <2>1, BoundsAssumption
  <2>3. Spaces(n) \in Seq(Chars) /\ Spaces(n) # <<>>
    <3>1. Spaces(n) \in Seq(Chars) /\ Len(Spaces(n)) = n /\ n # 0
      BY <2>1, <2>2, SpacesAreStrings
    <3>. QED  BY <3>1, EmptySeq
  <2>4. pc = "write" /\ len > 0 /\ UNCHANGED <<dflt, docVars, chomp, compress, before>>
    BY <1>5 DEF add_indent
  <2>5. (IF dflt THEN "doc" ELSE "buffer") \in {"doc", "buffer"}
    OBVIOUS
  <2>6. ~(len = 0)
    BY <1>1, <2>4 DEF PStringTypeOK
  <2>. QED  BY <2>1, <2>3, <2>4, <2>5, <2>6, FormatKeeps
<1>6. CASE wappendva
  <2>1. /\ pc = "format" /\ UNCHANGED <<dflt, chomp, compress, before>>
        /\ (len = 0 /\ piece # <<>> => piece[1] \in Letters)
        /\ dest = "buffer" => piece # <<>>
        /\ WInv /\ from = 0
    BY <1>6 DEF wappendva, IInv, WInv, Writing
  <2>2. piece \in Seq(Chars)
    BY <1>2 DEF FormatTypeOK
  <2>3. CASE Formatted
    <3>1. pc' = "write" /\ Idle
      BY <1>6, <2>3 DEF wappendva
    <3>2. wappendn(piece)
      <4>1. wappendn(piece) \/ (pappend(piece) /\ piece # <<>>)
        BY <1>2, <1>6, <2>1, <2>3 DEF wappendva, FormatTypeOK
      <4>2. ASSUME pappend(piece), piece # <<>>
            PROVE  wappendn(piece)
        <5>1. Len(piece) \in Nat /\ len \in Nat
          BY <1>1, <2>2, LenProperties DEF PStringTypeOK
        <5>2. len + (Len(piece) + 1) - 1 = len + Len(piece)
          BY <5>1
        <5>3. Extend(piece, len + Len(piece))
          BY <4>2, <5>2 DEF pappend
        <5>. QED  BY <4>2, <5>3 DEF wappendn
      <4>. QED  BY <4>1, <4>2
    <3>3. FormatTypeOK'
      BY <3>1, EmptySeq DEF Idle, FormatTypeOK
    <3>. QED  BY <2>1, <2>2, <3>1, <3>2, <3>3, AppendKeeps
  <2>4. CASE ~Formatted
    <3>1. /\ pc' = IF room < Memory THEN "format" ELSE "died"
          /\ room' = IF room < Memory THEN room + 1 ELSE room
          /\ UNCHANGED <<docVars, piece, converts, dest>>
      BY <1>6, <2>4 DEF wappendva
    <3>2. PStringTypeOK'
      BY <1>1, <2>1, <3>1, BoundsAssumption DEF PStringTypeOK, docVars, chomp, compress
    <3>3. WInv' \/ pc' = "died"
      BY <2>1, <3>1 DEF WInv, docVars
    <3>4. GivesUpLate'
      <4>1. room \in Nat /\ Len(piece) \in Nat
        BY <1>2, LenProperties DEF FormatTypeOK
      <4>. QED  BY <2>4, <3>1, <4>1, BoundsAssumption DEF GivesUpLate, Formatted
    <3>. QED
      BY <2>1, <3>1, <3>2, <3>3, <3>4 DEF IInv, Writing, Compressing, SomethingToShow, compress
  <2>. QED  BY <2>3, <2>4
<1>. QED  BY <1>3, <1>4, <1>5, <1>6

\* The footer, and pstring_chomp().
LEMMA ChompKeeps ==
    ASSUME IInv, master_footer \/ pstring_chomp \/ Strip \/ Chop
    PROVE  IInv'
<1>1. PStringTypeOK
  BY DEF IInv
<1>2. len \in Nat /\ size \in Nat /\ buf \in [0..(size - 1) -> Chars \cup {NUL}]
  BY <1>1 DEF PStringTypeOK
<1>3. CASE master_footer
  <2>1. /\ pc = "write" /\ pc' = "chomp" /\ wappendn(<<NL>>)
        /\ UNCHANGED <<dflt, format, chomp, compress, before>> /\ from = 0 /\ WInv
    BY <1>3 DEF master_footer, IInv, Writing
  <2>2. <<NL>> \in Seq(Chars) /\ <<NL>> # <<>> /\ Len(<<NL>>) = 1 /\ <<NL>>[1] = NL
    BY KindsDiffer
  <2>3. Extend(<<NL>>, len + Len(<<NL>>))
    BY <2>1, <2>2 DEF wappendn
  <2>4. /\ len' \in Nat /\ len' > 0 /\ size' = len' + 1
        /\ buf' \in [0..(size' - 1) -> Chars \cup {NUL}]
        /\ buf'[len'] = NUL
        /\ \A i \in 0..(len' - 1) : buf'[i] \in Chars
        /\ buf'[len' - 1] = NL
        /\ buf'[0] = IF len = 0 THEN NL ELSE buf[0]
    BY <1>1, <2>1, <2>2, <2>3, ExtendKeeps
  <2>5. len = 0 => len' = 1
    BY <2>2, <2>3 DEF Extend
  <2>6. size' \in Nat /\ size' > 0
    BY <1>1, <2>1, <2>2, <2>3, ExtendKeeps
  <2>7. PStringTypeOK'
    BY <1>1, <2>1, <2>4, <2>6 DEF PStringTypeOK, format, chomp, compress
  <2>8. buf'[0] \in Letters \/ len' = 1
    BY <1>2, <2>1, <2>4, <2>5 DEF WInv
  <2>9. WInv'
    <3>1. size' # 0
      BY <2>6
    <3>. QED  BY <2>1, <2>4, <2>8, <3>1 DEF WInv
  <2>. QED
    BY <2>1, <2>7, <2>9 DEF IInv, Writing, Compressing, SomethingToShow, GivesUpLate, compress
<1>4. CASE pstring_chomp
  <2>1. /\ pc = "chomp" /\ UNCHANGED <<dflt, docVars, format, compress, before>>
        /\ from = 0 /\ WInv
    BY <1>4 DEF pstring_chomp, IInv, Writing
  <2>2. /\ size > 0 /\ len > 0 /\ size = len + 1 /\ buf[len] = NUL
        /\ \A i \in 0..(len - 1) : buf[i] \in Chars
        /\ buf[0] \in Letters \/ len = 1
        /\ buf[len - 1] = NL
    BY <1>2, <2>1 DEF WInv
  <2>3. PStringTypeOK'
    BY <1>1, <1>4, <2>1 DEF PStringTypeOK, pstring_chomp, NextStage, docVars, format, chomp, compress
  <2>4. CASE len < 2
    <3>1. len = 1
      BY <1>2, <2>2, <2>4
    <3>2. EndInv'
      BY <2>1, <2>2, <3>1 DEF EndInv, docVars, compress
    <3>3. pc' \in {"compress", "done"} /\ from' = 0
      BY <1>4, <2>1, <2>4 DEF pstring_chomp, NextStage, compress
    <3>4. SomethingToShow'
      <4>1. buf' = buf /\ size' = size /\ 1 \in DOMAIN buf /\ buf[1] = NUL /\ buf[0] # NUL
        BY <1>2, <2>1, <2>2, <3>1, KindsDiffer DEF docVars
      <4>. QED  BY <2>2, <4>1 DEF SomethingToShow
    <3>. QED  BY <2>3, <3>2, <3>3, <3>4 DEF IInv, Writing, Compressing, GivesUpLate
  <2>5. CASE ~(len < 2)
    <3>1. pc' = "strip" /\ p' = len - 1 /\ removable' = 0
      BY <1>4, <2>5 DEF pstring_chomp
    <3>2. len > 1 /\ len - 1 \in 0..(len - 1) /\ (len - 1) + 0 = len - 1 /\ len # 1 /\ len # 0
      BY <1>2, <2>5
    <3>3. SInv'
      BY <1>2, <2>1, <3>1, <3>2 DEF SInv, docVars
    <3>4. WInv'
      BY <2>1, <2>2, <3>1, <3>2 DEF WInv, docVars
    <3>. QED
      BY <2>1, <2>3, <3>1, <3>3, <3>4 DEF IInv, Writing, Compressing, SomethingToShow, GivesUpLate, compress
  <2>. QED  BY <2>4, <2>5
<1>5. ASSUME pc = "strip"
      PROVE  /\ from = 0 /\ SInv /\ WInv
             /\ size > 0 /\ size = len + 1 /\ buf[len] = NUL /\ len > 1
             /\ \A i \in 0..(len - 1) : buf[i] \in Chars
             /\ buf[0] \in Letters /\ buf[len - 1] = NL
             /\ p \in 0..(len - 1) /\ p + removable = len - 1 /\ removable \in Nat
  BY <1>1, <1>2, <1>5 DEF IInv, Writing, SInv, WInv, PStringTypeOK
<1>6. CASE Strip
  <2>1. /\ pc = "strip" /\ pc' = pc /\ buf[p] \in Removable /\ p' = p - 1
        /\ removable' = removable + 1 /\ UNCHANGED <<dflt, docVars, format, compress, before>>
    BY <1>6 DEF Strip
  <2>2. p # 0
    BY <1>5, <2>1, KindsDiffer
  <2>3. PStringTypeOK'
    BY <1>1, <1>5, <2>1 DEF PStringTypeOK, docVars, format, compress
  <2>4. SInv'
    <3>1. \A i \in p..(len - 1) : buf[i] \in Removable
      BY <1>2, <1>5, <2>1 DEF SInv
    <3>. QED  BY <1>2, <1>5, <2>1, <2>2, <3>1 DEF SInv, docVars
  <2>5. WInv'
    BY <1>5, <2>1 DEF WInv, docVars
  <2>. QED
    BY <1>5, <2>1, <2>3, <2>4, <2>5
       DEF IInv, Writing, Compressing, SomethingToShow, GivesUpLate, compress
<1>7. CASE Chop
  <2>1. /\ pc = "strip" /\ buf[p] \notin Removable /\ pc' \in {"compress", "done"}
        /\ UNCHANGED <<dflt, size, format, chomp, compress, before>>
    BY <1>7 DEF Chop, NextStage
  <2>2. removable > 0 /\ p < len - 1
    <3>1. p # len - 1
      BY <1>5, <2>1 DEF Removable
    <3>. QED  BY <1>2, <1>5, <2>1, <3>1
  <2>3. /\ len' \in Nat /\ len' > 1 /\ len' < size /\ len' - 2 = p
        /\ buf' \in [0..(size - 1) -> Chars \cup {NUL}]
        /\ buf'[len'] = NUL /\ buf'[len' - 1] = NL /\ buf'[p] = buf[p] /\ buf'[0] = buf[0]
        /\ \A i \in 0..(len' - 1) : buf'[i] \in Chars
    <3>1. CASE removable > 1
      <4>1. /\ len' = len - (removable - 1)
            /\ buf' = [buf EXCEPT ![len - (removable - 1) - 1] = NL, ![len - (removable - 1)] = NUL]
        BY <1>7, <3>1 DEF Chop
      <4>2. /\ len' \in Nat /\ len' > 1 /\ len' < size /\ len' - 2 = p /\ len' < len
            /\ len' \in 0..(size - 1) /\ len' - 1 \in 0..(size - 1) /\ p \in 0..(size - 1)
            /\ 0 \in 0..(size - 1)
            /\ p # len' /\ p # len' - 1 /\ 0 # len' /\ 0 # len' - 1 /\ len' # len' - 1
            /\ \A i \in 0..(len' - 1) : i \in 0..(size - 1) /\ i # len' /\ i \in 0..(len - 1)
        BY <1>2, <1>5, <2>1, <2>2, <3>1, <4>1
      <4>3. buf' = [buf EXCEPT ![len' - 1] = NL, ![len'] = NUL]
        BY <4>1
      <4>4. buf' \in [0..(size - 1) -> Chars \cup {NUL}]
        BY <1>2, <4>2, <4>3, KindsDiffer
      <4>5. ASSUME NEW i \in 0..(size - 1)
            PROVE  buf'[i] = IF i = len' THEN NUL ELSE IF i = len' - 1 THEN NL ELSE buf[i]
        BY <1>2, <4>3
      <4>6. buf'[len'] = NUL /\ buf'[len' - 1] = NL /\ buf'[p] = buf[p] /\ buf'[0] = buf[0]
        BY <4>2, <4>5
      <4>7. ASSUME NEW i \in 0..(len' - 1)
            PROVE  buf'[i] \in Chars
        <5>1. i \in 0..(size - 1) /\ i # len' /\ i \in 0..(len - 1)
          BY <4>2
        <5>. QED  BY <1>5, <2>1, <4>5, <5>1, KindsDiffer
      <4>. QED  BY <4>2, <4>4, <4>6, <4>7
    <3>2. CASE ~(removable > 1)
      <4>1. UNCHANGED <<buf, len>>
        BY <1>7, <3>2 DEF Chop
      <4>2. removable = 1
        BY <1>5, <2>1, <2>2, <3>2
      <4>. QED  BY <1>2, <1>5, <2>1, <4>1, <4>2
    <3>. QED  BY <3>1, <3>2
  <2>4. PStringTypeOK'
    BY <1>1, <2>1, <2>3 DEF PStringTypeOK, format, chomp, compress
  <2>5. EndInv'
    <3>1. from' = 0 /\ size' = size
      BY <1>5, <2>1 DEF compress
    <3>2. buf'[len' - 2] \notin Removable
      BY <2>1, <2>3
    <3>3. len' > 0
      BY <2>3
    <3>. QED  BY <1>5, <2>1, <2>3, <3>1, <3>2, <3>3 DEF EndInv
  <2>6. SomethingToShow'
    <3>1. size > 0 /\ len' \in DOMAIN buf' /\ buf'[0] # NUL
      BY <1>2, <1>5, <2>1, <2>3, KindsDiffer
    <3>. QED  BY <2>1, <2>3, <3>1 DEF SomethingToShow
  <2>. QED
    BY <1>5, <2>1, <2>4, <2>5, <2>6 DEF IInv, Writing, Compressing, GivesUpLate, compress
<1>. QED  BY <1>3, <1>4, <1>6, <1>7

\* The steps of pstring_compress() that only move its positions.
LEMMA MovesKeep ==
    ASSUME IInv,
           Loop \/ SkipBlank \/ StartRun \/ SkipRun \/ EndRun \/ SkipNewline \/ EndNewlines
    PROVE  IInv'
<1>1. /\ PStringTypeOK
      /\ len \in Nat /\ to \in Nat /\ from \in Nat /\ start \in Nat /\ count \in Nat /\ blanks \in Nat
  BY DEF IInv, PStringTypeOK
<1>2. pc \in Compressing /\ CInv
  BY DEF IInv, Compressing, During, Loop, SkipBlank, StartRun, SkipRun, EndRun, SkipNewline,
         EndNewlines
<1>3. /\ UNCHANGED <<dflt, buf, len, size, from, format, chomp, before>>
      /\ pc' \in Compressing
  BY <1>2 DEF Compressing, During, compress, Loop, SkipBlank, StartRun, SkipRun, EndRun, SkipNewline,
         EndNewlines
<1>4. EndInv /\ EndInv'
  BY <1>2, <1>3 DEF CInv, EndInv
<1>5. /\ from <= to /\ to <= len /\ from + blanks + count <= to /\ (from = 0 => to = 0)
      /\ \A i \in 0..(from - 1) : buf[i] \in Chars
      /\ to = len => pc \in {"loop", "terminate"} /\ (len = 1 \/ from > 1)
      /\ len > 0 /\ buf[len] = NUL
      /\ from <= len - 1 => buf[len - 1] = NL
      /\ from <= len - 2 => buf[len - 2] \notin Removable
      /\ \A i \in from..(len - 1) : buf[i] \in Chars
      /\ from = 0 => buf[0] \in Letters \/ len = 1
  BY <1>2 DEF CInv, EndInv
<1>6. SUFFICES /\ to' \in Nat /\ start' \in Nat /\ count' \in Nat /\ blanks' \in Nat
               /\ CInv'
  BY <1>1, <1>3 DEF IInv, PStringTypeOK, Writing, Compressing, SomethingToShow, GivesUpLate,
                    format, chomp
<1>7. CASE Loop
  <2>1. pc = "loop" /\ UNCHANGED compress /\ pc' = IF buf[to] = NUL THEN "terminate" ELSE "again"
    BY <1>7 DEF Loop, During
  <2>2. to < len => buf[to] # NUL
    <3>1. to < len => to \in from..(len - 1)
      BY <1>1, <1>5
    <3>. QED  BY <1>5, <3>1, KindsDiffer
  <2>3. buf[to] = NUL <=> to = len
    BY <1>1, <1>5, <2>2
  <2>. QED  BY <1>1, <1>3, <1>4, <1>5, <2>1, <2>3 DEF CInv, compress
<1>8. CASE SkipBlank
  <2>1. /\ pc = "again" /\ pc' = pc /\ to' = to + 1 /\ blanks' = blanks + 1
        /\ UNCHANGED <<start, count>> /\ buf[to] = NL /\ buf[to + 1] = NL
    BY <1>8 DEF SkipBlank, During
  <2>2. to < len /\ to + 1 # len
    BY <1>1, <1>5, <2>1, KindsDiffer
  <2>3. from # 0
    BY <1>1, <1>5, <2>1, <2>2, KindsDiffer
  <2>. QED  BY <1>1, <1>3, <1>4, <1>5, <2>1, <2>2, <2>3 DEF CInv
<1>9. CASE StartRun
  <2>1. /\ pc = "again" /\ pc' = "run" /\ start' = to /\ UNCHANGED <<to, count, blanks>>
    BY <1>9 DEF StartRun, During
  <2>. QED  BY <1>1, <1>3, <1>4, <1>5, <2>1 DEF CInv
<1>10. CASE SkipRun
  <2>1. /\ pc = "run" /\ pc' = pc /\ to' = to + 1 /\ count' = count + 1
        /\ UNCHANGED <<start, blanks>> /\ buf[to] = wide_indent_char
    BY <1>10 DEF SkipRun, During
  <2>2. /\ from <= start /\ start <= to /\ to - start <= count
        /\ \A i \in start..(to - 1) : buf[i] = wide_indent_char
    BY <1>2, <2>1 DEF CInv
  <2>3. to < len /\ to + 1 # len
    BY <1>1, <1>5, <2>1, KindsDiffer
  <2>4. from # 0
    BY <1>1, <1>5, <2>1, <2>3, KindsDiffer
  <2>5. \A i \in start..to : buf[i] = wide_indent_char
    BY <1>1, <2>1, <2>2
  <2>. QED  BY <1>1, <1>3, <1>4, <1>5, <2>1, <2>2, <2>3, <2>4, <2>5, SMTT(30) DEF CInv
<1>11. CASE EndRun
  <2>1. /\ pc = "run" /\ UNCHANGED <<start, blanks>> /\ buf[to] # wide_indent_char
    BY <1>11 DEF EndRun, During
  <2>2. /\ from <= start /\ start <= to /\ to - start <= count
        /\ \A i \in start..(to - 1) : buf[i] = wide_indent_char
    BY <1>2, <2>1 DEF CInv
  <2>3. to < len
    BY <1>1, <1>5, <2>1
  <2>4. CASE to = start
    <3>1. pc' = "copy" /\ UNCHANGED <<to, count>>
      BY <1>11, <2>4 DEF EndRun
    <3>. QED  BY <1>1, <1>3, <1>4, <1>5, <2>1, <2>3, <3>1 DEF CInv
  <2>5. CASE to # start /\ buf[to] = NL /\ to # start + 1
    <3>1. pc' = "newlines" /\ UNCHANGED <<to, count>>
      BY <1>11, <2>5 DEF EndRun
    <3>2. to - 1 \in start..(to - 1) /\ from <= len - 2
      BY <1>1, <2>2, <2>3, <2>5
    <3>3. to # len - 1
      BY <1>1, <1>5, <2>2, <3>2 DEF Removable
    <3>4. to <= len - 2
      BY <1>1, <2>3, <3>3
    <3>. QED  BY <1>1, <1>3, <1>4, <1>5, <2>1, <2>3, <2>5, <3>1, <3>4 DEF CInv
  <2>6. CASE to # start /\ ~(buf[to] = NL /\ to # start + 1)
    <3>1. pc' = "copy" /\ to' = start /\ count' = 0
      BY <1>11, <2>6 DEF EndRun
    <3>2. from + blanks + 0 <= start /\ start < len /\ start <= len /\ start # len
      BY <1>1, <1>5, <2>2, <2>3
    <3>3. from = 0 => start = 0
      BY <1>1, <1>5, <2>2
    <3>. QED  BY <1>1, <1>3, <1>4, <1>5, <2>1, <2>2, <3>1, <3>2, <3>3 DEF CInv
  <2>. QED  BY <2>4, <2>5, <2>6
<1>12. CASE SkipNewline
  <2>1. /\ pc = "newlines" /\ pc' = pc /\ to' = to + 1 /\ UNCHANGED <<start, count, blanks>>
        /\ buf[to] = NL /\ to <= len - 2
    BY <1>2, <1>12 DEF SkipNewline, During, CInv
  <2>2. to # len - 2
    BY <1>1, <1>5, <2>1 DEF Removable
  <2>3. from # 0
    BY <1>1, <1>5, <2>1, KindsDiffer
  <2>. QED  BY <1>1, <1>3, <1>4, <1>5, <2>1, <2>2, <2>3 DEF CInv
<1>13. CASE EndNewlines
  <2>1. /\ pc = "newlines" /\ UNCHANGED <<to, start, count>> /\ buf[to] # NL /\ to <= len - 2
        /\ from + blanks + count + 1 <= to
        /\ pc' = IF buf[to] = wide_indent_char THEN "again" ELSE "copy"
        /\ blanks' = IF buf[to] = wide_indent_char THEN blanks ELSE blanks + 1
    BY <1>2, <1>13 DEF EndNewlines, During, CInv
  <2>. QED  BY <1>1, <1>3, <1>4, <1>5, <2>1, SMTT(30) DEF CInv
<1>. QED  BY <1>7, <1>8, <1>9, <1>10, <1>11, <1>12, <1>13

\* The steps of pstring_compress() that write to the buffer, and its start.
LEMMA CompressKeeps ==
    ASSUME IInv, pstring_compress \/ Copy \/ Terminate
    PROVE  IInv'
<1>1. /\ PStringTypeOK
      /\ len \in Nat /\ to \in Nat /\ from \in Nat /\ start \in Nat /\ count \in Nat /\ blanks \in Nat
      /\ size \in Nat /\ buf \in [0..(size - 1) -> Chars \cup {NUL}]
  BY DEF IInv, PStringTypeOK
<1>2. CASE pstring_compress
  <2>1. /\ pc = "compress" /\ pc' = "loop" /\ UNCHANGED <<dflt, docVars, format, chomp>>
        /\ to' = 0 /\ from' = 0 /\ start' = 0 /\ count' = 0 /\ blanks' = 0
        /\ from = 0 /\ EndInv
    BY <1>2 DEF pstring_compress, IInv
  <2>2. PStringTypeOK'
    BY <1>1, <2>1 DEF PStringTypeOK, docVars, format, chomp
  <2>3. CInv'
    BY <1>1, <2>1 DEF CInv, EndInv, docVars
  <2>. QED  BY <2>1, <2>2, <2>3 DEF IInv, Writing, Compressing, SomethingToShow, GivesUpLate
<1>3. ASSUME pc \in Compressing
      PROVE  /\ CInv
             /\ from <= to /\ to <= len /\ from + blanks + count <= to /\ (from = 0 => to = 0)
             /\ \A i \in 0..(from - 1) : buf[i] \in Chars
             /\ to = len => pc \in {"loop", "terminate"} /\ (len = 1 \/ from > 1)
             /\ len > 0 /\ len < size /\ buf[len] = NUL
             /\ from <= len - 1 => buf[len - 1] = NL
             /\ from <= len - 2 => buf[len - 2] \notin Removable
             /\ \A i \in from..(len - 1) : buf[i] \in Chars
  BY <1>3 DEF IInv, CInv, EndInv
<1>4. CASE Copy
  <2>1. /\ pc = "copy" /\ pc' = "loop" /\ buf' = [buf EXCEPT ![from] = buf[to]]
        /\ from' = from + 1 /\ to' = to + 1 /\ UNCHANGED <<start, count, blanks>>
        /\ UNCHANGED <<dflt, len, size, format, chomp, before>>
    BY <1>4 DEF Copy, During
  <2>2. pc \in Compressing
    BY <2>1 DEF Compressing
  <2>3. to < len /\ from \in 0..(size - 1) /\ to \in 0..(size - 1) /\ to \in from..(len - 1)
    BY <1>1, <1>3, <2>1, <2>2
  <2>4. buf[to] \in Chars
    BY <1>3, <2>2, <2>3
  <2>5. /\ buf' \in [0..(size - 1) -> Chars \cup {NUL}]
        /\ \A i \in 0..(size - 1) : buf'[i] = IF i = from THEN buf[to] ELSE buf[i]
    BY <1>1, <2>1, <2>3, <2>4
  <2>6. PStringTypeOK'
    BY <1>1, <2>1, <2>5 DEF PStringTypeOK, format, chomp
  <2>7. ASSUME NEW i \in 0..len
        PROVE  i # from => buf'[i] = buf[i]
    BY <1>1, <1>3, <2>2, <2>5
  <2>8. \A i \in 0..from : buf'[i] \in Chars
    BY <1>1, <1>3, <2>2, <2>3, <2>4, <2>5
  <2>9. EndInv'
    <3>1. buf'[len] = NUL
      BY <1>1, <1>3, <2>2, <2>3, <2>7
    <3>2. from + 1 <= len - 1 => buf'[len - 1] = NL
      BY <1>1, <1>3, <2>2, <2>3, <2>7
    <3>3. from + 1 <= len - 2 => buf'[len - 2] \notin Removable
      BY <1>1, <1>3, <2>2, <2>3, <2>7
    <3>4. \A i \in (from + 1)..(len - 1) : buf'[i] \in Chars
      BY <1>1, <1>3, <2>2, <2>3, <2>7
    <3>5. len > 0 /\ len < size /\ from + 1 # 0
      BY <1>1, <1>3, <2>2
    <3>. QED  BY <2>1, <3>1, <3>2, <3>3, <3>4, <3>5 DEF EndInv
  <2>10. /\ from + 1 <= to + 1 /\ to + 1 <= len /\ (from + 1) + blanks + count <= to + 1
         /\ from + 1 # 0 /\ (from + 1) - 1 = from
         /\ to + 1 = len => len = 1 \/ from + 1 > 1
    BY <1>1, <1>3, <2>2, <2>3
  <2>11. CInv'
    BY <2>1, <2>8, <2>9, <2>10 DEF CInv
  <2>. QED  BY <2>1, <2>6, <2>11 DEF IInv, Writing, Compressing, SomethingToShow, GivesUpLate
<1>5. CASE Terminate
  <2> DEFINE n == len - (blanks + count)
  <2>1. /\ pc = "terminate" /\ pc' = "done" /\ UNCHANGED <<dflt, format, chomp, compress, before>>
    BY <1>5 DEF Terminate
  <2>2. pc \in Compressing
    BY <2>1 DEF Compressing
  <2>3. to = len
    BY <1>3, <2>1, <2>2 DEF CInv
  <2>4. /\ from <= n /\ n <= len /\ n \in Nat /\ from > 0 /\ (blanks > 0 \/ count > 0 => from > 1)
        /\ from \in 0..(size - 1) /\ 0 \in 0..(size - 1) /\ from # 0
    BY <1>1, <1>3, <2>2, <2>3
  <2>5. buf[0] # NUL
    <3>1. 0 \in 0..(from - 1)
      BY <1>1, <2>4
    <3>. QED  BY <1>3, <2>2, <3>1, KindsDiffer
  <2>6. CASE blanks > 0 \/ count > 0
    <3>1. /\ buf' = [i \in 0..(n - 1) |-> IF i \in {from, n - 1} THEN NUL ELSE buf[i]]
          /\ len' = n /\ size' = n
      BY <1>5, <2>6 DEF Terminate
    <3>2. \A i \in 0..(n - 1) : i \in 0..(size - 1)
      BY <1>1, <1>3, <2>2, <2>4
    <3>3. buf' \in [0..(size' - 1) -> Chars \cup {NUL}]
      BY <1>1, <3>1, <3>2
    <3>4. 0 \in 0..(n - 1) /\ n - 1 \in 0..(n - 1) /\ 0 # n - 1 /\ n > 0
      BY <1>1, <2>4, <2>6
    <3>5. buf'[0] # NUL /\ buf'[n - 1] = NUL /\ n - 1 \in DOMAIN buf'
      BY <2>4, <2>5, <3>1, <3>4
    <3>6. PStringTypeOK'
      BY <1>1, <2>1, <2>4, <3>1, <3>3 DEF PStringTypeOK, format, chomp, compress
    <3>7. SomethingToShow'
      BY <3>1, <3>4, <3>5 DEF SomethingToShow
    <3>. QED  BY <2>1, <3>6, <3>7 DEF IInv, Writing, Compressing, GivesUpLate
  <2>7. CASE ~(blanks > 0 \/ count > 0)
    <3>1. buf' = [buf EXCEPT ![from] = NUL] /\ UNCHANGED <<len, size>>
      BY <1>5, <2>7 DEF Terminate
    <3>2. buf' \in [0..(size - 1) -> Chars \cup {NUL}]
      BY <1>1, <3>1
    <3>3. buf'[0] # NUL /\ buf'[from] = NUL /\ from \in DOMAIN buf' /\ size > 0
      BY <1>1, <1>3, <2>2, <2>4, <2>5, <3>1
    <3>4. PStringTypeOK'
      BY <1>1, <2>1, <3>1, <3>2 DEF PStringTypeOK, format, chomp, compress
    <3>5. SomethingToShow'
      BY <3>1, <3>3 DEF SomethingToShow
    <3>. QED  BY <2>1, <3>4, <3>5 DEF IInv, Writing, Compressing, GivesUpLate
  <2>. QED  BY <2>6, <2>7
<1>. QED  BY <1>2, <1>4, <1>5

LEMMA StutterKeeps ==
    ASSUME IInv, UNCHANGED vars
    PROVE  IInv'
<1>. USE DEF vars, docVars, format, chomp, compress
<1>1. PStringTypeOK'
  BY DEF IInv, PStringTypeOK
<1>2. pc' = pc /\ from' = from
  OBVIOUS
<1>3. (WInv => WInv') /\ (EndInv => EndInv')
  BY DEF WInv, EndInv
<1>4. SInv => SInv'
  BY DEF SInv
<1>5. CInv => CInv'
  BY <1>3 DEF CInv
<1>6. SomethingToShow' /\ GivesUpLate'
  BY DEF IInv, SomethingToShow, GivesUpLate
<1>. QED  BY <1>1, <1>2, <1>3, <1>4, <1>5, <1>6 DEF IInv, Writing, Compressing

-----------------------------------------------------------------------------
\* The inductive invariant holds throughout.
THEOREM Invariance == Spec => []IInv
<1>1. IInv /\ [Next]_vars => IInv'
  <2> SUFFICES ASSUME IInv, [Next]_vars PROVE IInv'
    OBVIOUS
  <2>1. CASE wappend \/ wappendf \/ add_indent \/ wappendva
    BY <2>1, WritingKeeps
  <2>2. CASE master_footer \/ pstring_chomp \/ Strip \/ Chop
    BY <2>2, ChompKeeps
  <2>3. CASE Loop \/ SkipBlank \/ StartRun \/ SkipRun \/ EndRun \/ SkipNewline \/ EndNewlines
    BY <2>3, MovesKeep
  <2>4. CASE pstring_compress \/ Copy \/ Terminate
    BY <2>4, CompressKeeps
  <2>5. CASE Ended \/ UNCHANGED vars
    BY <2>5, StutterKeeps DEF Ended
  <2>. QED  BY <2>1, <2>2, <2>3, <2>4, <2>5 DEF Next
<1>. QED  BY <1>1, InitIInv, PTL DEF Spec

(***************************************************************************)
(* pstring_chomp() and pstring_compress() never leave the buffer, however  *)
(* long the document is, and pstring_compress() never counts a character   *)
(* that it keeps, so realloc() leaves room for all that it keeps.          *)
(***************************************************************************)
THEOREM StaysInBounds == Spec => []InBounds
<1>1. IInv => InBounds
  <2> SUFFICES ASSUME IInv PROVE InBounds
    OBVIOUS
  <2>1. /\ len \in Nat /\ to \in Nat
        /\ from \in Nat /\ blanks \in Nat /\ count \in Nat
    BY DEF IInv, PStringTypeOK
  <2>2. pc = "strip" => p \in 0..(len - 1)
    BY DEF IInv, SInv
  <2>3. ASSUME pc \in {"loop", "again", "run", "newlines", "copy"}
        PROVE  to <= len /\ len < size /\ from <= to /\ (to = len => pc = "loop")
    BY <2>3 DEF IInv, Compressing, CInv, EndInv
  <2>4. ASSUME pc = "terminate" PROVE RoomForKept
    <3>1. CInv /\ to = len
      BY <2>4 DEF IInv, Compressing, CInv
    <3>. QED  BY <2>1, <2>4, <3>1 DEF CInv, EndInv, RoomForKept
  <2>. QED  BY <2>1, <2>2, <2>3, <2>4 DEF InBounds
<1>. QED  BY <1>1, Invariance, PTL

\* wappendva() gives up only what cannot be converted or has no room in memory,
\* whatever its first guess was.
THEOREM NotTooSoon == Spec => []GivesUpLate
<1>1. IInv => GivesUpLate
  BY DEF IInv
<1>. QED  BY <1>1, Invariance, PTL

\* len is the length of the text as long as text is appended.
THEOREM LenIsLength == Spec => []LenIsText
<1>1. IInv => LenIsText
  <2> SUFFICES ASSUME IInv, pc \in Writing, size > 0
               PROVE  size = len + 1 /\ \A i \in 0..len : buf[i] = NUL <=> i = len
    BY DEF LenIsText, Writing
  <2>1. /\ size = len + 1 /\ buf[len] = NUL /\ len \in Nat
        /\ \A i \in 0..(len - 1) : buf[i] \in Chars
    BY DEF IInv, WInv, PStringTypeOK
  <2>2. ASSUME NEW i \in 0..len, i # len
        PROVE  buf[i] # NUL
    BY <2>1, <2>2, KindsDiffer
  <2>. QED  BY <2>1, <2>2
<1>. QED  BY <1>1, Invariance, PTL

\* What is put out is a string and not empty.
THEOREM AlwaysSomething == Spec => []SomethingToShow
<1>1. IInv => SomethingToShow
  BY DEF IInv
<1>. QED  BY <1>1, Invariance, PTL

=============================================================================
