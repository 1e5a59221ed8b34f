---------------------------- MODULE CallerProofs ----------------------------
(***************************************************************************)
(* The document writer keeps its promises to every caller that nests its   *)
(* calls: for every set of names, every indent_amount and every depth.     *)
(***************************************************************************)
EXTENDS Caller, SequenceTheorems, TLAPS

(***************************************************************************)
(* What Append and Butlast do to a sequence, position by position.         *)
(***************************************************************************)
LEMMA AppendFacts ==
    ASSUME NEW S, NEW s \in Seq(S), NEW e \in S
    PROVE  /\ Append(s, e) \in Seq(S)
           /\ Len(Append(s, e)) = Len(s) + 1
           /\ \A i \in 1..Len(s) : Append(s, e)[i] = s[i]
           /\ Append(s, e)[Len(s) + 1] = e
  BY AppendProperties

\* The elements of a sequence without its last one.
LEMMA ButlastFacts ==
    ASSUME NEW S, NEW s \in Seq(S), Len(s) > 0
    PROVE  /\ Butlast(s) \in Seq(S)
           /\ Len(Butlast(s)) = Len(s) - 1
           /\ \A i \in 1..(Len(s) - 1) : Butlast(s)[i] = s[i]
  <1>1. /\ Len(s) \in Nat \ {0}
        /\ Len(s) - 1 \in Int
        /\ \A i \in 1..(Len(s) - 1) : s[i] \in S
    BY LenProperties, ElementOfSeq
  <1>2. /\ SubSeq(s, 1, Len(s) - 1) \in Seq(S)
        /\ Len(SubSeq(s, 1, Len(s) - 1)) = (IF 1 <= Len(s) - 1 THEN Len(s) - 1 - 1 + 1 ELSE 0)
        /\ \A i \in 1..(Len(s) - 1 - 1 + 1) : SubSeq(s, 1, Len(s) - 1)[i] = s[1 + i - 1]
    BY <1>1, SubSeqProperties
  <1> DEFINE t == SubSeq(s, 1, Len(s) - 1)
  <1>3. t \in Seq(S) /\ Len(t) = Len(s) - 1
    <2> HIDE DEF t
    <2>1. t \in Seq(S)
      BY <1>2 DEF t
    <2>2. Len(t) = (IF 1 <= Len(s) - 1 THEN Len(s) - 1 - 1 + 1 ELSE 0)
      BY <1>2 DEF t
    <2>3. \A n \in Nat \ {0} : (IF 1 <= n - 1 THEN n - 1 - 1 + 1 ELSE 0) = n - 1
      OBVIOUS
    <2>4. Len(t) = Len(s) - 1
      BY <1>1, <2>2, <2>3
    <2> QED BY <2>1, <2>4
  <1>4. \A i \in 1..(Len(s) - 1) : t[i] = s[i]
    <2> HIDE DEF t
    <2>1. \A i \in 1..(Len(s) - 1 - 1 + 1) : t[i] = s[1 + i - 1]
      BY <1>2 DEF t
    <2> QED BY <1>1, <2>1
  <1> QED BY <1>3, <1>4 DEF Butlast

(***************************************************************************)
(* Every open bracket is one, and Level is the innermost one's.            *)
(***************************************************************************)
LEMMA LevelFacts ==
    ASSUME OutputTypeOK
    PROVE  /\ open \in Seq(OpenBracket) /\ Len(open) \in Nat
           /\ \A i \in 1..Len(open) : open[i] \in OpenBracket /\ open[i].level \in Nat
           /\ Level \in Nat
           /\ open = <<>> <=> Len(open) = 0
           /\ open # <<>> => /\ Len(open) \in 1..Len(open)
                             /\ Level = open[Len(open)].level
                             /\ Within = open[Len(open)].kind
           /\ open = <<>> => Level = 0 /\ Within = "root"
  <1>1. open \in Seq(OpenBracket)
    BY DEF OutputTypeOK
  <1>2. Len(open) \in Nat /\ (open = <<>> <=> Len(open) = 0)
    BY <1>1, LenProperties, EmptySeq
  <1>3. \A i \in 1..Len(open) : open[i] \in OpenBracket
    BY <1>1, ElementOfSeq
  <1>4. \A i \in 1..Len(open) : open[i].level \in Nat
    BY <1>3 DEF OpenBracket
  <1> QED BY <1>1, <1>2, <1>3, <1>4 DEF Level, Within, Innermost

(***************************************************************************)
(* Opening a bracket: the nesting discipline is kept and the reader sees   *)
(* one level more, unless the bracket is an object it does not see.        *)
(***************************************************************************)
LEMMA PushFacts ==
    ASSUME OutputTypeOK, Nested,
           NEW kind \in {"section", "container", "object"},
           NEW name \in Names \cup {HEAD},
           (kind = "object") <=> (Within = "container"),
           Push(kind, name), output_format' = output_format
    PROVE  /\ open' \in Seq(OpenBracket)
           /\ Len(open') = Len(open) + 1
           /\ \A i \in 1..Len(open) : open'[i] = open[i]
           /\ open'[Len(open) + 1] =
                [kind |-> kind, name |-> name, level |-> Level + Weight(output_format, kind)]
           /\ Level \in Nat
           /\ Level' = Level + Weight(output_format, kind)
           /\ Within' = kind
           /\ Nested'
  <1> DEFINE b == [kind |-> kind, name |-> name, level |-> Level + Weight(output_format, kind)]
  <1>1. open \in Seq(OpenBracket) /\ Len(open) \in Nat
    BY LevelFacts
  <1>2. Level \in Nat
    BY LevelFacts
  <1>3. b \in OpenBracket
    BY <1>2 DEF OpenBracket, Weight
  <1>4. open' = Append(open, b)
    BY DEF Push, Weight
  <1>5. /\ open' \in Seq(OpenBracket)
        /\ Len(open') = Len(open) + 1
        /\ \A i \in 1..Len(open) : open'[i] = open[i]
        /\ open'[Len(open) + 1] = b
    BY <1>1, <1>3, <1>4, AppendFacts
  <1>6. Level' = Level + Weight(output_format, kind) /\ Within' = kind
    <2>1. open' # <<>>
      BY <1>1, <1>5, EmptySeq
    <2> QED BY <1>1, <1>5, <2>1 DEF Level, Within, Innermost
  <1>7. Nested'
    <2>1. ASSUME NEW i \in 1..Len(open')
          PROVE  /\ (open'[i].kind = "object") <=> (i > 1 /\ open'[i - 1].kind = "container")
                 /\ open'[i].level =
                      (IF i = 1 THEN 0 ELSE open'[i - 1].level)
                        + Weight(output_format, open'[i].kind)
      <3>1. CASE i \in 1..Len(open)
        <4>1. open'[i] = open[i] /\ (i > 1 => open'[i - 1] = open[i - 1])
          BY <1>1, <1>5, <3>1
        <4> QED BY <3>1, <4>1 DEF Nested
      <3>2. CASE i = Len(open) + 1
        <4>1. open'[i] = b /\ b.kind = kind /\ b.level = Level + Weight(output_format, kind)
          BY <1>5, <3>2
        <4>2. CASE open = <<>>
          BY <3>2, <4>1, <4>2, <1>2, LevelFacts
        <4>3. CASE open # <<>>
          <5>1. i > 1 /\ open'[i - 1] = open[Len(open)]
            BY <1>1, <1>5, <3>2, <4>3, LevelFacts
          <5>2. Level = open[Len(open)].level /\ Within = open[Len(open)].kind
            BY <4>3, LevelFacts
          <5> QED BY <5>1, <5>2, <4>1
        <4> QED BY <4>2, <4>3
      <3> QED BY <1>1, <1>5, <3>1, <3>2
    <2>2. ASSUME NEW i \in 1..Len(open'), NEW j \in 1..Len(open'), i < j
          PROVE  open'[i].level + Weight(output_format, open'[j].kind) <= open'[j].level
      <3>1. i \in 1..Len(open) /\ open'[i] = open[i] /\ open[i].level \in Nat
        BY <1>1, <1>5, <2>2, LevelFacts
      <3>2. CASE j \in 1..Len(open)
        BY <3>1, <3>2, <1>5, <2>2 DEF Nested
      <3>3. CASE j = Len(open) + 1
        <4>1. open'[j].kind = kind /\ open'[j].level = Level + Weight(output_format, kind)
          BY <1>5, <3>3
        <4>2. open[i].level <= Level
          <5>1. open # <<>> /\ Len(open) \in 1..Len(open)
            BY <3>1, LevelFacts
          <5>2. CASE i = Len(open)
            BY <5>1, <5>2, <1>2, LevelFacts
          <5>3. CASE i < Len(open)
            <6>1. open[i].level + Weight(output_format, open[Len(open)].kind) <= open[Len(open)].level
              BY <3>1, <5>1, <5>3 DEF Nested
            <6> QED BY <6>1, <5>1, <3>1, <1>2, LevelFacts DEF Weight
          <5> QED BY <5>2, <5>3, <3>1, <1>1
        <4> QED BY <4>1, <4>2, <3>1, <1>2 DEF Weight
      <3> QED BY <1>1, <1>5, <3>2, <3>3
    <2> QED BY <2>1, <2>2 DEF Nested
  <1> QED BY <1>2, <1>5, <1>6, <1>7

(***************************************************************************)
(* Closing the innermost bracket.                                          *)
(***************************************************************************)
LEMMA PopFacts ==
    ASSUME OutputTypeOK, Nested, Within # "root",
           Pop, output_format' = output_format
    PROVE  /\ open' \in Seq(OpenBracket)
           /\ Len(open) \in Nat \ {0}
           /\ Len(open') = Len(open) - 1
           /\ \A i \in 1..Len(open') : open'[i] = open[i]
           /\ Level \in Nat /\ Level' \in Nat
           /\ Level' = Level - Weight(output_format, Within)
           /\ (Within = "object") <=> (Within' = "container")
           /\ Nested'
  <1>1. open \in Seq(OpenBracket) /\ Len(open) \in Nat \ {0} /\ open # <<>>
    BY LevelFacts
  <1>2. /\ open' \in Seq(OpenBracket)
        /\ Len(open') = Len(open) - 1
        /\ \A i \in 1..Len(open') : open'[i] = open[i]
    BY <1>1, ButlastFacts DEF Pop
  <1>3. \A i \in 1..Len(open) : open[i].level \in Nat /\ open[i] \in OpenBracket
    BY LevelFacts
  <1>4. Level = open[Len(open)].level /\ Within = open[Len(open)].kind
    BY <1>1, LevelFacts
  <1>5. /\ Level \in Nat /\ Level' \in Nat
        /\ Level' = Level - Weight(output_format, Within)
        /\ (Within = "object") <=> (Within' = "container")
    <2>1. CASE Len(open) = 1
      <3>1. open' = <<>>
        BY <2>1, <1>2, EmptySeq
      <3>2. Level' = 0 /\ Within' = "root"
        BY <3>1 DEF Level, Within
      <3> QED BY <2>1, <3>2, <1>1, <1>3, <1>4 DEF Nested, Weight
    <2>2. CASE Len(open) > 1
      <3>1. Len(open') \in 1..Len(open) /\ open' # <<>> /\ Len(open) - 1 \in 1..Len(open)
        BY <2>2, <1>1, <1>2
      <3>2. Level' = open[Len(open) - 1].level /\ Within' = open[Len(open) - 1].kind
        BY <3>1, <1>2 DEF Level, Within, Innermost
      <3> QED BY <2>2, <3>1, <3>2, <1>1, <1>3, <1>4 DEF Nested, Weight
    <2>3. Len(open) = 1 \/ Len(open) > 1
      <3>1. \A n \in Nat \ {0} : n = 1 \/ n > 1
        OBVIOUS
      <3> QED BY <1>1, <3>1, Zenon
    <2> QED BY <2>1, <2>2, <2>3
  <1>6. Nested'
    <2>1. \A i \in 1..Len(open') : i \in 1..Len(open) /\ (i > 1 => i - 1 \in 1..Len(open'))
      BY <1>1, <1>2
    <2>2. \A i \in 1..Len(open') : i > 1 => open'[i - 1] = open[i - 1]
      BY <1>2, <2>1
    <2>4. ASSUME NEW i \in 1..Len(open')
          PROVE  /\ (open'[i].kind = "object") <=> (i > 1 /\ open'[i - 1].kind = "container")
                 /\ open'[i].level =
                      (IF i = 1 THEN 0 ELSE open'[i - 1].level)
                        + Weight(output_format, open'[i].kind)
      <3>1. i \in 1..Len(open) /\ open'[i] = open[i]
        BY <1>2, <2>1
      <3>2. i > 1 => open'[i - 1] = open[i - 1]
        BY <2>2
      <3>3. /\ (open[i].kind = "object") <=> (i > 1 /\ open[i - 1].kind = "container")
            /\ open[i].level =
                 (IF i = 1 THEN 0 ELSE open[i - 1].level) + Weight(output_format, open[i].kind)
        BY <3>1 DEF Nested
      <3>4. i = 1 \/ i > 1
        BY <1>1, <3>1
      <3> QED BY <3>1, <3>2, <3>3, <3>4
    <2>5. ASSUME NEW i \in 1..Len(open'), NEW j \in 1..Len(open'), i < j
          PROVE  open'[i].level + Weight(output_format, open'[j].kind) <= open'[j].level
      BY <1>2, <2>1, <2>5 DEF Nested
    <2> QED BY <1>2, <2>4, <2>5 DEF Nested
  <1> QED BY <1>1, <1>2, <1>5, <1>6

-----------------------------------------------------------------------------
(***************************************************************************)
(* The tables of the element state machine.  Opening a bracket or writing  *)
(* an entry indents the line by the depth of its surroundings; JSON puts a *)
(* comma before it exactly when it is not the first in its bracket.        *)
(***************************************************************************)
LEMMA Advance ==
    ASSUME IInv, status = "open",
           NEW new \in Members \cup {"OBJECT_OPEN"},
           new = "OBJECT_OPEN" => output_format = "JSON",
           (new = "OBJECT_OPEN") <=> (Within = "container"),
           change_element(new)
    PROVE  /\ Survives(new)
           /\ indent' = (IF output_format = "CRUMB" THEN 0 ELSE IndentAmount * Depth)
           /\ output_format = "JSON" => (JsonBeside(current_element, new) <=> ~JustOpened)
  <1>1. current_element \in Elements \cup {"NONE"} /\ output_format \in Formats
    BY DEF IInv, OutputTypeOK
  <1>2. Placed
    BY DEF IInv
  <1>3. Level \in Nat /\ Depth \in Nat /\ IndentAmount \in Nat
    BY LevelFacts, IndentAssumption DEF IInv, Depth
  <1>4. output_format # "CRUMB" => indent = IndentAmount * (IF JustOpened THEN Depth - 1 ELSE Depth)
    BY DEF IInv, IndentFollowsNesting
  <1>5. output_format = "CRUMB" => indent = 0
    BY DEF IInv
  <1>6. Reached(output_format, current_element, new)
    BY <1>1, <1>2 DEF Formats, Placed, Reached, First, Beside, Inside, Outside, Quiet,
         Elements, Members, Openers, Closers, TextBeside, TextInside, JsonBeside, JsonInside,
         XmlBeside, XmlInside
  <1>7. Shift(output_format, current_element, new) =
          (IF JustOpened /\ output_format # "CRUMB" THEN IndentAmount ELSE 0)
    BY <1>1, <1>2 DEF Formats, Placed, Shift, Inside, Outside, JustOpened,
         Elements, Members, Openers, Closers, TextInside, TextOutside, JsonInside, JsonOutside,
         XmlInside, XmlOutside
  <1>8. output_format = "JSON" => (JsonBeside(current_element, new) <=> ~JustOpened)
    BY <1>1, <1>2 DEF Placed, JustOpened, JsonBeside, Elements, Members, Openers, Closers
  <1>9. indent' = (IF output_format = "CRUMB" THEN 0 ELSE IndentAmount * Depth)
    <2>1. indent' = indent + Shift(output_format, current_element, new)
      BY DEF change_element
    <2>2. IndentAmount * (Depth - 1) + IndentAmount = IndentAmount * Depth
      BY <1>3
    <2> QED BY <2>1, <2>2, <1>3, <1>4, <1>5, <1>7
  <1>10. indent' >= 0
    <2>1. IndentAmount * Depth \in Nat
      BY <1>3
    <2> QED BY <1>9, <2>1
  <1> QED BY <1>6, <1>8, <1>9, <1>10 DEF Survives, change_element

(***************************************************************************)
(* Closing a bracket indents the line by the depth of that bracket, and    *)
(* never takes the indent below zero.                                      *)
(***************************************************************************)
LEMMA Retreat ==
    ASSUME IInv, status = "open",
           NEW new \in Closers,
           new = "OBJECT_CLOSE" => output_format = "JSON" /\ Within \in {"object", "root"},
           new = "SECTION_CLOSE" => Within = "section",
           new = "CONTAINER_CLOSE" => Within = "container",
           change_element(new)
    PROVE  /\ Survives(new)
           /\ indent' = (IF output_format = "CRUMB" THEN 0 ELSE IndentAmount * (Depth - 1))
           /\ output_format = "JSON" => ~JsonBeside(current_element, new)
  <1>1. current_element \in Elements \cup {"NONE"} /\ output_format \in Formats
    BY DEF IInv, OutputTypeOK
  <1>2. Placed /\ Nested
    BY DEF IInv
  <1>3. Level \in Nat /\ Depth \in Nat /\ IndentAmount \in Nat
    BY LevelFacts, IndentAssumption DEF IInv, Depth
  <1>4. output_format # "CRUMB" => Depth >= 1
    <2>1. CASE Within = "root"
      BY <2>1, <1>3 DEF Depth, Structured, Closers
    <2>2. CASE Within # "root"
      <3>1. /\ Len(open) \in 1..Len(open) /\ Len(open) \in Nat
            /\ open[Len(open)].kind = Within /\ open[Len(open)].level = Level
        BY <2>2, LevelFacts DEF IInv
      <3>2. Level = (IF Len(open) = 1 THEN 0 ELSE open[Len(open) - 1].level)
                       + Weight(output_format, Within)
        BY <3>1, <1>2 DEF Nested
      <3>3. (IF Len(open) = 1 THEN 0 ELSE open[Len(open) - 1].level) \in Nat
        <4>1. Len(open) # 1 => Len(open) - 1 \in 1..Len(open)
          <5>1. \A n \in Nat : n \in 1..n /\ n # 1 => n - 1 \in 1..n
            OBVIOUS
          <5> QED BY <3>1, <5>1
        <4>2. \A i \in 1..Len(open) : open[i].level \in Nat
          BY LevelFacts DEF IInv
        <4> QED BY <4>1, <4>2
      <3>4. Weight(output_format, Within) = 1
        BY <2>2 DEF Weight, Closers
      <3> QED BY <3>2, <3>3, <3>4, <1>3 DEF Depth
    <2> QED BY <2>1, <2>2
  <1>5. output_format # "CRUMB" => indent = IndentAmount * (IF JustOpened THEN Depth - 1 ELSE Depth)
    BY DEF IInv, IndentFollowsNesting
  <1>6. output_format = "CRUMB" => indent = 0
    BY DEF IInv
  <1>7. Within # "root" => open # <<>>
    BY DEF Within
  <1>8. Reached(output_format, current_element, new)
    BY <1>1, <1>2, <1>7 DEF Formats, Placed, Reached, First, Beside, Inside, Outside, Quiet,
         Elements, Members, Openers, Closers, TextQuiet, TextOutside, JsonQuiet, JsonOutside,
         XmlBeside, XmlOutside
  <1>9. Shift(output_format, current_element, new) =
          (IF JustOpened \/ output_format = "CRUMB" THEN 0 ELSE -IndentAmount)
    BY <1>1, <1>2, <1>7 DEF Formats, Placed, Shift, Inside, Outside, JustOpened,
         Elements, Members, Openers, Closers, TextInside, TextOutside, JsonInside, JsonOutside,
         XmlInside, XmlOutside
  <1>10. output_format = "JSON" => ~JsonBeside(current_element, new)
    BY DEF JsonBeside, Members, Closers
  <1>11. indent' = (IF output_format = "CRUMB" THEN 0 ELSE IndentAmount * (Depth - 1))
    <2>1. indent' = indent + Shift(output_format, current_element, new)
      BY DEF change_element
    <2>2. IndentAmount * Depth + (-IndentAmount) = IndentAmount * (Depth - 1)
      BY <1>3
    <2> QED BY <2>1, <2>2, <1>3, <1>5, <1>6, <1>9
  <1>12. indent' >= 0
    <2>1. output_format # "CRUMB" => IndentAmount * (Depth - 1) \in Nat
      BY <1>3, <1>4
    <2> QED BY <1>11, <2>1
  <1> QED BY <1>8, <1>10, <1>11, <1>12 DEF Survives, change_element

-----------------------------------------------------------------------------
(***************************************************************************)
(* The reader accepts every opening bracket, entry and closing bracket.    *)
(***************************************************************************)
LEMMA Innermosts ==
    ASSUME IInv, status = "open"
    PROVE  /\ output_format = "JSON" =>
                /\ Len(doc.stack) > 0
                /\ Innermost(doc.stack) = Bracket("JSON", Within)
           /\ output_format = "XML" =>
                /\ Len(doc.stack) > 0
                /\ Within # "object" => Innermost(doc.stack) = Within
  <1>1. Mirrored /\ OutputTypeOK
    BY DEF IInv
  <1>2. /\ Len(open) \in Nat /\ Level \in Nat
        /\ open = <<>> => Len(open) = 0 /\ Level = 0 /\ Within = "root"
        /\ open # <<>> => /\ Len(open) \in 1..Len(open)
                          /\ Level = open[Len(open)].level
                          /\ Within = open[Len(open)].kind
    BY <1>1, LevelFacts
  <1>3. CASE output_format = "JSON"
    <2>1. /\ Len(doc.stack) = Len(open) + 1 /\ doc.stack[1] = "brace"
          /\ \A i \in 1..Len(open) : doc.stack[i + 1] = Bracket("JSON", open[i].kind)
      BY <1>1, <1>3 DEF Mirrored
    <2>2. doc.stack[Len(open) + 1] = Bracket("JSON", Within)
      <3>0. Len(open) = 0 => Len(open) + 1 = 1
        OBVIOUS
      <3>1. CASE open = <<>>
        <4>1. Len(open) = 0 /\ Within = "root" /\ doc.stack[1] = "brace"
          BY <1>2, <2>1, <3>1
        <4>2. Len(open) + 1 = 1
          BY <4>1, <3>0, Zenon
        <4>3. Bracket("JSON", "root") = "brace"
          BY DEF Bracket
        <4> QED BY <4>1, <4>2, <4>3
      <3>2. CASE open # <<>>
        <4>1. Len(open) \in 1..Len(open) /\ Within = open[Len(open)].kind
          BY <1>2, <3>2
        <4> QED BY <2>1, <4>1
      <3> QED BY <3>1, <3>2
    <2>3. Len(doc.stack) > 0
      <3>1. Len(open) \in Nat /\ Len(doc.stack) = Len(open) + 1
        BY <1>2, <2>1
      <3> QED BY <3>1
    <2> QED BY <1>3, <2>1, <2>2, <2>3 DEF Innermost
  <1>4. CASE output_format = "XML"
    <2>1. /\ Len(doc.stack) = Level + 1 /\ doc.stack[1] = "root"
          /\ \A i \in 1..Len(open) :
               open[i].kind # "object" => doc.stack[open[i].level + 1] = open[i].kind
      BY <1>1, <1>4 DEF Mirrored
    <2>2. Within # "object" => doc.stack[Level + 1] = Within
      <3>1. CASE open = <<>>
        BY <1>2, <2>1, <3>1
      <3>2. CASE open # <<>>
        BY <1>2, <2>1, <3>2
      <3> QED BY <3>1, <3>2
    <2> QED BY <1>2, <1>4, <2>1, <2>2 DEF Innermost
  <1> QED BY <1>3, <1>4

\* The reader accepts an opening bracket wherever a caller may open one.
LEMMA OpenDoc ==
    ASSUME IInv, status = "open", Structured,
           NEW new \in Openers, NEW kind \in {"section", "container", "object"},
           kind = "object" => output_format = "JSON",
           (kind = "object") <=> (Within = "container"),
           output_format = "JSON" => (JsonBeside(current_element, new) <=> ~JustOpened)
    PROVE  Opened(new, kind) =
             [stack |-> Append(doc.stack, Bracket(output_format, kind)), at |-> "first"]
  <1>1. Mirrored /\ OutputTypeOK
    BY DEF IInv
  <1>2. /\ Separated(new).stack = doc.stack
        /\ output_format = "JSON" => Separated(new).at \in {"first", "comma"}
        /\ output_format = "XML" => Separated(new).at \in {"first", "next"}
    BY <1>1 DEF Separated, ReadComma, Mirrored, OutputTypeOK
  <1>3. Ready(output_format, Separated(new), kind)
    <2>1. CASE output_format = "JSON"
      BY <1>2, <2>1, Innermosts DEF Ready, Bracket
    <2>2. CASE output_format = "XML"
      BY <1>2, <2>2, Innermosts DEF Ready
    <2> QED BY <2>1, <2>2 DEF Structured
  <1> QED BY <1>2, <1>3 DEF Opened, ReadOpen

\* The reader accepts an entry wherever a caller may write one.
LEMMA EntryDoc ==
    ASSUME IInv, status = "open", Structured,
           Within \in {"section", "object"},
           output_format = "JSON" => (JsonBeside(current_element, "ENTRY") <=> ~JustOpened)
    PROVE  ReadEntry(output_format, Separated("ENTRY")) = [doc EXCEPT !.at = "next"]
  <1>1. Mirrored /\ OutputTypeOK
    BY DEF IInv
  <1>2. /\ Separated("ENTRY").stack = doc.stack
        /\ [Separated("ENTRY") EXCEPT !.at = "next"] = [doc EXCEPT !.at = "next"]
        /\ output_format = "JSON" => Separated("ENTRY").at \in {"first", "comma"}
        /\ output_format = "XML" => Separated("ENTRY").at \in {"first", "next"}
    BY <1>1 DEF Separated, ReadComma, Mirrored, OutputTypeOK
  <1>3. Ready(output_format, Separated("ENTRY"), "entry")
    <2>1. CASE output_format = "JSON"
      BY <1>2, <2>1, Innermosts DEF Ready, Bracket
    <2>2. CASE output_format = "XML"
      BY <1>2, <2>2, Innermosts DEF Ready
    <2> QED BY <2>1, <2>2 DEF Structured
  <1> QED BY <1>2, <1>3 DEF ReadEntry

\* The reader accepts the bracket that closes the innermost one.
LEMMA CloseDoc ==
    ASSUME IInv, status = "open", Structured,
           NEW new \in Closers,
           Within = "object" => output_format = "JSON",
           output_format = "JSON" => ~JsonBeside(current_element, new)
    PROVE  Closed(new, Within) =
             [stack |-> Butlast(doc.stack),
              at |-> IF Len(doc.stack) = 1 THEN "done" ELSE "next"]
  <1>1. Mirrored /\ OutputTypeOK
    BY DEF IInv
  <1>2. Separated(new) = doc
    BY DEF Separated
  <1>3. doc.at \in {"first", "next"}
    BY <1>1 DEF Mirrored, Structured
  <1>4. Len(doc.stack) > 0 /\ Innermost(doc.stack) = Bracket(output_format, Within)
    BY Innermosts DEF Structured, Bracket
  <1> QED BY <1>2, <1>3, <1>4 DEF Closed, ReadClose

-----------------------------------------------------------------------------
(***************************************************************************)
(* The reader's brackets stay those of the caller: when both open one, and *)
(* when both close the innermost one.                                      *)
(***************************************************************************)
Token == Kinds \cup {"brace", "square"}

(***************************************************************************)
(* In a document that does not show objects no bracket has a level above   *)
(* the innermost one's.                                                    *)
(***************************************************************************)
LEMMA LevelsBelow ==
    ASSUME OutputTypeOK, Nested
    PROVE  \A i \in 1..Len(open) : open[i].level \in 0..Level
  <1> SUFFICES ASSUME NEW i \in 1..Len(open) PROVE open[i].level \in 0..Level
    OBVIOUS
  <1>1. /\ Level = open[Len(open)].level /\ Len(open) \in 1..Len(open)
        /\ open[i].level \in Nat /\ Level \in Nat /\ Len(open) \in Nat
    BY LevelFacts
  <1>2. CASE i = Len(open)
    BY <1>1, <1>2
  <1>3. CASE i < Len(open)
    <2>1. open[i].level + Weight(output_format, open[Len(open)].kind) <= open[Len(open)].level
      BY <1>1, <1>3 DEF Nested
    <2>2. Weight(output_format, open[Len(open)].kind) \in Nat
      BY DEF Weight
    <2> QED BY <1>1, <2>1, <2>2
  <1> QED BY <1>1, <1>2, <1>3

\* Opening keeps the reader's brackets those of the caller.
LEMMA MirrorOpen ==
    ASSUME IInv, status = "open", Structured,
           NEW kind \in {"section", "container", "object"},
           NEW name \in Names \cup {HEAD},
           kind = "object" => output_format = "JSON",
           (kind = "object") <=> (Within = "container"),
           Push(kind, name), output_format' = output_format,
           current_element' \in Openers,
           Len(doc'.stack) = Len(doc.stack) + 1,
           \A i \in 1..Len(doc.stack) : doc'.stack[i] = doc.stack[i],
           doc'.stack[Len(doc.stack) + 1] = Bracket(output_format, kind),
           doc'.at = "first"
    PROVE  Mirrored'
  <1>1. OutputTypeOK /\ Nested /\ Mirrored
    BY DEF IInv
  <1>2. /\ Len(open') = Len(open) + 1
        /\ \A i \in 1..Len(open) : open'[i] = open[i]
        /\ open'[Len(open) + 1] =
             [kind |-> kind, name |-> name, level |-> Level + Weight(output_format, kind)]
        /\ Level \in Nat
        /\ Level' = Level + Weight(output_format, kind)
    BY <1>1, PushFacts
  <1>3. Len(open) \in Nat
    BY <1>1, LevelFacts
  <1>4. open'[Len(open) + 1].kind = kind
        /\ open'[Len(open) + 1].level = Level + Weight(output_format, kind)
    BY <1>2
  <1>5. ASSUME output_format = "JSON" PROVE Mirrored'
    <2>1. /\ Len(doc.stack) = Len(open) + 1 /\ doc.stack[1] = "brace"
          /\ \A i \in 1..Len(open) : doc.stack[i + 1] = Bracket(output_format, open[i].kind)
      BY <1>1, <1>5 DEF Mirrored
    <2>2. doc'.stack[Len(open) + 2] = Bracket(output_format, open'[Len(open) + 1].kind)
      BY <1>3, <1>4, <1>5, <2>1
    <2>3. \A i \in 1..(Len(open) + 1) : doc'.stack[i] = doc.stack[i]
      BY <2>1
    <2>4. /\ doc'.stack[1] = "brace"
          /\ \A i \in 1..(Len(open) + 1) : doc'.stack[i + 1] = Bracket(output_format, open'[i].kind)
      <3>1. doc'.stack[1] = "brace"
        BY <1>3, <2>1, <2>3
      <3>2. ASSUME NEW i \in 1..(Len(open) + 1)
            PROVE  doc'.stack[i + 1] = Bracket(output_format, open'[i].kind)
        <4>1. CASE i \in 1..Len(open)
          <5>1. i + 1 \in 1..(Len(open) + 1)
            BY <1>3, <4>1
          <5>2. doc'.stack[i + 1] = doc.stack[i + 1]
            BY <2>3, <5>1
          <5>3. doc.stack[i + 1] = Bracket(output_format, open[i].kind)
            BY <2>1, <4>1
          <5>4. open'[i] = open[i]
            BY <1>2, <4>1
          <5> QED BY <5>2, <5>3, <5>4
        <4>2. CASE i = Len(open) + 1
          BY <1>3, <2>2, <4>2
        <4> QED BY <1>3, <4>1, <4>2
      <3> QED BY <3>1, <3>2
    <2>5. JustOpened'
      BY DEF JustOpened
    <2> QED BY <1>2, <1>5, <2>1, <2>4, <2>5 DEF Mirrored
  <1>6. ASSUME output_format = "XML" PROVE Mirrored'
    <2>1. /\ Len(doc.stack) = Level + 1 /\ doc.stack[1] = "root"
          /\ \A i \in 1..Len(open) :
               open[i].kind # "object" => doc.stack[open[i].level + 1] = open[i].kind
      BY <1>1, <1>6 DEF Mirrored
    <2>2. Weight(output_format, kind) = 1 /\ Bracket(output_format, kind) = kind
      BY <1>6 DEF Weight, Bracket
    <2>3. \A i \in 1..(Level + 1) : doc'.stack[i] = doc.stack[i]
      BY <2>1
    <2>4. open'[Len(open) + 1].level = Level + 1
      BY <1>4, <2>2
    <2>5. doc'.stack[Level + 2] = open'[Len(open) + 1].kind
      BY <1>2, <1>4, <2>1, <2>2
    <2>6. \A i \in 1..Len(open) : open[i].level \in 0..Level
      BY <1>1, LevelsBelow
    <2>7. /\ doc'.stack[1] = "root"
          /\ \A i \in 1..(Len(open) + 1) :
               open'[i].kind # "object" => doc'.stack[open'[i].level + 1] = open'[i].kind
      <3>1. doc'.stack[1] = "root"
        BY <1>2, <2>1, <2>3
      <3>2. ASSUME NEW i \in 1..(Len(open) + 1), open'[i].kind # "object"
            PROVE  doc'.stack[open'[i].level + 1] = open'[i].kind
        <4>1. CASE i \in 1..Len(open)
          <5>1. open'[i] = open[i] /\ open[i].level + 1 \in 1..(Level + 1)
            BY <1>2, <1>3, <2>6, <4>1
          <5>2. doc.stack[open[i].level + 1] = open[i].kind
            BY <2>1, <3>2, <4>1, <5>1
          <5> QED BY <2>3, <5>1, <5>2
        <4>2. CASE i = Len(open) + 1
          BY <1>2, <2>4, <2>5, <4>2
        <4> QED BY <1>3, <4>1, <4>2
      <3> QED BY <3>1, <3>2
    <2>8. Len(doc'.stack) = Level' + 1
      BY <1>2, <2>1, <2>2
    <2> QED BY <1>2, <1>6, <2>7, <2>8 DEF Mirrored
  <1> QED BY <1>5, <1>6 DEF Structured

\* Closing keeps the reader's brackets those of the caller.
LEMMA MirrorClose ==
    ASSUME IInv, status = "open", Structured,
           Within # "root", Within = "object" => output_format = "JSON",
           Pop, output_format' = output_format,
           current_element' \in Closers,
           Len(doc'.stack) = Len(doc.stack) - 1,
           \A i \in 1..(Len(doc.stack) - 1) : doc'.stack[i] = doc.stack[i],
           doc'.at = (IF Len(doc.stack) = 1 THEN "done" ELSE "next")
    PROVE  Mirrored'
  <1>1. OutputTypeOK /\ Nested /\ Mirrored
    BY DEF IInv
  <1>2. /\ Len(open) \in Nat \ {0}
        /\ Len(open') = Len(open) - 1
        /\ \A i \in 1..Len(open') : open'[i] = open[i]
        /\ Level \in Nat /\ Level' \in Nat
        /\ Level' = Level - Weight(output_format, Within)
    BY <1>1, PopFacts
  <1>3. \A i \in 1..Len(open) : open[i].level \in Nat
    BY <1>1, LevelFacts
  <1>4. ASSUME output_format = "JSON" PROVE Mirrored'
    <2>1. /\ Len(doc.stack) = Len(open) + 1 /\ doc.stack[1] = "brace"
          /\ \A i \in 1..Len(open) : doc.stack[i + 1] = Bracket(output_format, open[i].kind)
      BY <1>1, <1>4 DEF Mirrored
    <2>2. \A i \in 1..Len(open') : i \in 1..Len(open) /\ i + 1 \in 1..(Len(doc.stack) - 1)
      BY <1>2, <2>1
    <2>3. \A i \in 1..Len(open') : doc'.stack[i + 1] = Bracket(output_format, open'[i].kind)
      BY <1>2, <2>1, <2>2
    <2>4. Len(doc'.stack) = Len(open') + 1 /\ doc'.stack[1] = "brace" /\ doc'.at = "next"
      BY <1>2, <2>1
    <2>5. ~JustOpened'
      BY DEF JustOpened, Closers, Openers
    <2> QED BY <1>4, <2>3, <2>4, <2>5 DEF Mirrored
  <1>5. ASSUME output_format = "XML" PROVE Mirrored'
    <2>1. /\ Len(doc.stack) = Level + 1 /\ doc.stack[1] = "root"
          /\ \A i \in 1..Len(open) :
               open[i].kind # "object" => doc.stack[open[i].level + 1] = open[i].kind
      BY <1>1, <1>5 DEF Mirrored
    <2>2. Weight(output_format, Within) = 1
      BY <1>5 DEF Weight
    <2>3. ASSUME NEW i \in 1..Len(open') PROVE open[i].level + 1 <= Level
      <3>1. /\ Level = open[Len(open)].level /\ Within = open[Len(open)].kind
            /\ Len(open) \in 1..Len(open)
        BY <1>1, <1>2, LevelFacts
      <3>2. i \in 1..Len(open) /\ i < Len(open)
        BY <1>2
      <3> QED BY <1>1, <2>2, <3>1, <3>2 DEF Nested
    <2>4. ASSUME NEW i \in 1..Len(open'), open'[i].kind # "object"
          PROVE  doc'.stack[open'[i].level + 1] = open'[i].kind
      <3>1. i \in 1..Len(open) /\ open'[i] = open[i]
        BY <1>2
      <3>2. open[i].level + 1 \in 1..(Len(doc.stack) - 1)
        BY <1>2, <1>3, <2>1, <2>3, <3>1
      <3> QED BY <2>1, <2>4, <3>1, <3>2
    <2>5. Len(doc'.stack) = Level' + 1 /\ doc'.stack[1] = "root" /\ doc'.at = "next"
      BY <1>2, <2>1, <2>2
    <2> QED BY <1>5, <2>4, <2>5 DEF Mirrored
  <1> QED BY <1>4, <1>5 DEF Structured

-----------------------------------------------------------------------------
(***************************************************************************)
(* crumb_list stays the list of headings when a name is added to it and    *)
(* when the last one is removed from it.                                   *)
(***************************************************************************)
LEMMA CrumbsOpen ==
    ASSUME IInv, status = "open", output_format = "CRUMB",
           NEW kind \in {"section", "container"}, NEW name \in Names,
           Within # "container", Push(kind, name), output_format' = output_format,
           crumb_list' = add_breadcrumb(crumb_list, name)
    PROVE  crumb_list' \in Seq(Names \cup {HEAD}) /\ CrumbsFollowNesting'
  <1>1. OutputTypeOK /\ Nested /\ crumb_list \in Seq(Names \cup {HEAD})
    BY DEF IInv, OutputTypeOK
  <1>2. /\ Len(open') = Len(open) + 1
        /\ \A i \in 1..Len(open) : open'[i] = open[i]
        /\ open'[Len(open) + 1] =
             [kind |-> kind, name |-> name, level |-> Level + Weight(output_format, kind)]
        /\ Level \in Nat
        /\ Level' = Level + Weight(output_format, kind)
    BY <1>1, PushFacts
  <1>3. Len(open) \in Nat /\ \A i \in 1..Len(open) : open[i].level \in 0..Level
    BY <1>1, LevelFacts, LevelsBelow
  <1>4. Weight(output_format, kind) = 1
    BY DEF Weight
  <1>5. /\ Len(crumb_list) = Level + (IF crumb_list = <<>> THEN 0 ELSE 1)
        /\ \A i \in 1..Len(open) :
              open[i].kind # "object" => crumb_list[open[i].level + 1] = open[i].name
    BY DEF IInv, CrumbsFollowNesting
  <1>6. ASSUME NEW i \in 1..Len(open), open[i].kind # "object" PROVE open[i].level >= 1
    <2>1. Weight(output_format, open[i].kind) = 1
      BY <1>6 DEF Weight
    <2>2. open[i].level = (IF i = 1 THEN 0 ELSE open[i - 1].level) + Weight(output_format, open[i].kind)
      BY <1>1 DEF Nested
    <2>3. i # 1 => open[i - 1].level \in Nat
      BY <1>3
    <2> QED BY <2>1, <2>2, <2>3
  <1>7. /\ crumb_list' \in Seq(Names \cup {HEAD})
        /\ crumb_list' # <<>>
        /\ Len(crumb_list') = Level + 2
        /\ crumb_list # <<>> => \A i \in 1..(Level + 1) : crumb_list'[i] = crumb_list[i]
        /\ crumb_list'[Level + 2] = name
    <2>1. ASSUME crumb_list = <<>>
          PROVE  crumb_list' = <<HEAD, name>> /\ Level = 0
      <3>1. Len(crumb_list) = 0
        BY <2>1, <1>1, EmptySeq
      <3> QED BY <1>2, <1>5, <2>1, <3>1 DEF add_breadcrumb
    <2>2. CASE crumb_list = <<>>
      <3>1. /\ <<HEAD, name>> \in Seq(Names \cup {HEAD}) /\ <<HEAD, name>> # <<>>
            /\ Len(<<HEAD, name>>) = 2 /\ <<HEAD, name>>[2] = name
        OBVIOUS
      <3>2. crumb_list' = <<HEAD, name>> /\ Level + 2 = 2
        BY <2>1, <2>2
      <3> QED BY <2>2, <3>1, <3>2
    <2>3. ASSUME crumb_list # <<>>
          PROVE  crumb_list' = Append(crumb_list, name) /\ Len(crumb_list) = Level + 1
      BY <1>5, <2>3 DEF add_breadcrumb
    <2>4. CASE crumb_list # <<>>
      <3>1. name \in Names \cup {HEAD}
        OBVIOUS
      <3>2. /\ crumb_list' \in Seq(Names \cup {HEAD})
            /\ Len(crumb_list') = Len(crumb_list) + 1
            /\ \A i \in 1..Len(crumb_list) : crumb_list'[i] = crumb_list[i]
            /\ crumb_list'[Len(crumb_list) + 1] = name
        BY <1>1, <2>3, <2>4, <3>1, AppendFacts
      <3>3. Len(crumb_list) = Level + 1
        BY <2>3, <2>4
      <3>4. Len(crumb_list') = Level + 2 /\ crumb_list'[Level + 2] = name
        BY <1>2, <3>2, <3>3
      <3>5. crumb_list' # <<>>
        BY <1>2, <3>2, <3>4, EmptySeq
      <3> QED BY <3>2, <3>3, <3>4, <3>5
    <2> QED BY <2>2, <2>4
  <1>8. ASSUME NEW i \in 1..Len(open'), open'[i].kind # "object"
        PROVE  crumb_list'[open'[i].level + 1] = open'[i].name
    <2>1. CASE i \in 1..Len(open)
      <3>1. open'[i] = open[i] /\ open[i].level \in 1..Level
        BY <1>2, <1>3, <1>6, <1>8, <2>1
      <3>2. crumb_list[open[i].level + 1] = open[i].name
        BY <1>5, <1>8, <2>1, <3>1
      <3>3. crumb_list # <<>>
        <4>1. Level >= 1
          BY <1>2, <3>1
        <4>2. ASSUME crumb_list = <<>> PROVE FALSE
          <5>1. Len(crumb_list) = 0
            BY <4>2, <1>1, EmptySeq
          <5> QED BY <1>2, <1>5, <4>1, <4>2, <5>1
        <4> QED BY <4>2
      <3>4. open[i].level + 1 \in 1..(Level + 1)
        BY <1>2, <3>1
      <3> QED BY <1>7, <3>1, <3>2, <3>3, <3>4
    <2>2. CASE i = Len(open) + 1
      BY <1>2, <1>4, <1>7, <2>2
    <2> QED BY <1>2, <1>3, <2>1, <2>2
  <1>9. Len(crumb_list') = Level' + 1
    BY <1>2, <1>4, <1>7
  <1> QED BY <1>7, <1>8, <1>9 DEF CrumbsFollowNesting

\* remove_breadcrumb() drops the crumb of the bracket that closes.
LEMMA CrumbsClose ==
    ASSUME IInv, status = "open", output_format = "CRUMB",
           Within \in {"section", "container"},
           Pop, output_format' = output_format,
           crumb_list' = remove_breadcrumb(crumb_list)
    PROVE  /\ crumb_list # <<>>
           /\ crumb_list' \in Seq(Names \cup {HEAD})
           /\ CrumbsFollowNesting'
  <1>1. OutputTypeOK /\ Nested /\ crumb_list \in Seq(Names \cup {HEAD})
    BY DEF IInv, OutputTypeOK
  <1>2. /\ Len(open) \in Nat \ {0}
        /\ Len(open') = Len(open) - 1
        /\ \A i \in 1..Len(open') : open'[i] = open[i]
        /\ Level \in Nat /\ Level' \in Nat
        /\ Level' = Level - Weight(output_format, Within)
    BY <1>1, PopFacts
  <1>3. Weight(output_format, Within) = 1
    BY DEF Weight
  <1>4. /\ Len(crumb_list) = Level + (IF crumb_list = <<>> THEN 0 ELSE 1)
        /\ \A i \in 1..Len(open) :
              open[i].kind # "object" => crumb_list[open[i].level + 1] = open[i].name
    BY DEF IInv, CrumbsFollowNesting
  <1>5. crumb_list # <<>>
    <2>1. ASSUME crumb_list = <<>> PROVE FALSE
      <3>1. Len(crumb_list) = 0
        BY <2>1, <1>1, EmptySeq
      <3> QED BY <1>2, <1>3, <1>4, <2>1, <3>1
    <2> QED BY <2>1
  <1>6. Len(crumb_list) = Level + 1
    BY <1>4, <1>5
  <1>7. /\ crumb_list' \in Seq(Names \cup {HEAD})
        /\ Len(crumb_list') = Len(crumb_list) - 1
        /\ \A i \in 1..(Len(crumb_list) - 1) : crumb_list'[i] = crumb_list[i]
    <2>1. Len(crumb_list) > 0
      BY <1>2, <1>6
    <2> QED BY <1>1, <2>1, ButlastFacts DEF remove_breadcrumb
  <1>8. ASSUME NEW i \in 1..Len(open'), open'[i].kind # "object"
        PROVE  crumb_list'[open'[i].level + 1] = open'[i].name
    <2>1. /\ Level = open[Len(open)].level /\ Within = open[Len(open)].kind
          /\ Len(open) \in 1..Len(open)
          /\ \A j \in 1..Len(open) : open[j].level \in Nat
      BY <1>1, <1>2, LevelFacts
    <2>2. i \in 1..Len(open) /\ i < Len(open) /\ open'[i] = open[i]
      BY <1>2
    <2>3. open[i].level + 1 <= Level
      BY <1>1, <1>3, <2>1, <2>2 DEF Nested
    <2>4. open[i].level + 1 \in 1..(Len(crumb_list) - 1)
      BY <1>2, <1>6, <2>1, <2>2, <2>3
    <2> QED BY <1>4, <1>7, <1>8, <2>2, <2>4
  <1>9. /\ Level' = Level - 1
        /\ Len(crumb_list') = Level' + 1
    BY <1>2, <1>3, <1>6, <1>7
  <1>10. crumb_list' # <<>>
    BY <1>2, <1>7, <1>9, EmptySeq
  <1> QED BY <1>5, <1>7, <1>8, <1>9, <1>10 DEF CrumbsFollowNesting

-----------------------------------------------------------------------------
(***************************************************************************)
(* A call that opens a bracket, and one that closes the innermost bracket, *)
(* keep the inductive invariant.                                           *)
(***************************************************************************)
LEMMA OpenKeeps ==
    ASSUME IInv, status = "open",
           NEW new \in Openers, NEW kind \in {"section", "container", "object"},
           NEW name \in Names \cup {HEAD},
           <<new, kind>> \in {<<"SECTION_OPEN", "section">>,
                             <<"CONTAINER_OPEN", "container">>,
                             <<"OBJECT_OPEN", "object">>},
           kind = "object" => output_format = "JSON",
           (kind = "object") <=> (Within = "container"),
           change_element(new), doc' = Opened(new, kind), Push(kind, name),
           output_format' = output_format,
           status' = (IF Survives(new) THEN status ELSE "died"),
           crumb_list' \in Seq(Names \cup {HEAD}), CrumbsFollowNesting'
    PROVE  IInv'
  <1>1. OutputTypeOK /\ Nested /\ Placed /\ Mirrored
    BY DEF IInv
  <1>2. current_element' = new /\ last_element' = current_element
    BY DEF change_element
  <1>3. (new = "OBJECT_OPEN") <=> (kind = "object")
    OBVIOUS
  <1>4. /\ Survives(new)
        /\ indent' = (IF output_format = "CRUMB" THEN 0 ELSE IndentAmount * Depth)
        /\ output_format = "JSON" => (JsonBeside(current_element, new) <=> ~JustOpened)
    <2>1. new \in Members \cup {"OBJECT_OPEN"}
      BY DEF Openers, Members
    <2> QED BY <1>3, <2>1, Advance
  <1>5. status' = "open"
    BY <1>4
  <1>6. /\ open' \in Seq(OpenBracket) /\ Nested' /\ Within' = kind
        /\ Level \in Nat /\ Level' = Level + Weight(output_format, kind)
    BY <1>1, PushFacts
  <1>7. Depth \in Nat /\ IndentAmount \in Nat
    BY <1>6, IndentAssumption DEF Depth
  <1>8. Depth' = Depth + 1
    <2>1. Weight(output_format, kind) = 1
      BY DEF Weight
    <2> QED BY <1>6, <2>1 DEF Depth, Structured
  <1>9. IndentFollowsNesting'
    <2>1. JustOpened'
      BY <1>2 DEF JustOpened
    <2>2. Depth' - 1 = Depth
      BY <1>7, <1>8
    <2> QED BY <1>4, <1>5, <2>1, <2>2 DEF IndentFollowsNesting
  <1>10. Placed'
    BY <1>2, <1>3, <1>6 DEF Placed, Openers
  <1>11. ~Structured => doc' = doc
    BY DEF Opened
  <1>12. /\ doc' \in [stack : Seq(Token),
                       at : {"start", "first", "next", "comma", "done", "bad"}]
         /\ Structured => Mirrored'
    <2>1. doc \in [stack : Seq(Token), at : {"start", "first", "next", "comma", "done", "bad"}]
      BY <1>1 DEF OutputTypeOK, Token
    <2>2. ASSUME Structured
          PROVE  /\ doc' \in [stack : Seq(Token),
                              at : {"start", "first", "next", "comma", "done", "bad"}]
                 /\ Mirrored'
      <3>1. doc' = [stack |-> Append(doc.stack, Bracket(output_format, kind)), at |-> "first"]
        BY <1>4, <2>2, OpenDoc
      <3>2. doc.stack \in Seq(Token) /\ Bracket(output_format, kind) \in Token
        BY <2>1 DEF Token, Kinds, Bracket
      <3>3. /\ Append(doc.stack, Bracket(output_format, kind)) \in Seq(Token)
            /\ Len(doc'.stack) = Len(doc.stack) + 1
            /\ \A i \in 1..Len(doc.stack) : doc'.stack[i] = doc.stack[i]
            /\ doc'.stack[Len(doc.stack) + 1] = Bracket(output_format, kind)
            /\ doc'.at = "first"
        BY <3>1, <3>2, AppendFacts
      <3>4. Mirrored'
        BY <1>2, <2>2, <3>3, MirrorOpen
      <3> QED BY <3>1, <3>3, <3>4
    <2> QED BY <1>11, <2>1, <2>2
  <1>13. ~Structured => Mirrored'
    BY DEF Mirrored, Structured
  <1>14. indent' \in Int
    BY <1>4, <1>7
  <1>15. OutputTypeOK'
    BY <1>1, <1>2, <1>5, <1>6, <1>12, <1>14 DEF OutputTypeOK, Token, Openers, Elements
  <1>16. ~Structured => doc' = [stack |-> <<>>, at |-> "start"]
    BY <1>11 DEF IInv
  <1>17. Structured' = Structured
    BY DEF Structured
  <1> QED BY <1>4, <1>5, <1>6, <1>9, <1>10, <1>12, <1>13, <1>15, <1>16, <1>17
          DEF IInv, NeverDies

\* The closing calls keep the invariant.
LEMMA CloseKeeps ==
    ASSUME IInv, status = "open", NEW new \in Closers,
           <<new, Within>> \in {<<"SECTION_CLOSE", "section">>,
                               <<"CONTAINER_CLOSE", "container">>,
                               <<"OBJECT_CLOSE", "object">>},
           Within = "object" => output_format = "JSON",
           change_element(new), doc' = Closed(new, Within), Pop,
           output_format' = output_format,
           status' = (IF Survives(new) /\ (output_format = "CRUMB" => crumb_list # <<>>)
                      THEN status ELSE "died"),
           output_format = "CRUMB" => crumb_list # <<>>,
           crumb_list' \in Seq(Names \cup {HEAD}), CrumbsFollowNesting'
    PROVE  IInv'
  <1>1. OutputTypeOK /\ Nested /\ Placed /\ Mirrored
    BY DEF IInv
  <1>2. current_element' = new /\ last_element' = current_element
    BY DEF change_element
  <1>3. Within # "root"
    OBVIOUS
  <1>4. /\ Survives(new)
        /\ indent' = (IF output_format = "CRUMB" THEN 0 ELSE IndentAmount * (Depth - 1))
        /\ output_format = "JSON" => ~JsonBeside(current_element, new)
    <2>1. /\ new = "OBJECT_CLOSE" => output_format = "JSON" /\ Within \in {"object", "root"}
          /\ new = "SECTION_CLOSE" => Within = "section"
          /\ new = "CONTAINER_CLOSE" => Within = "container"
      OBVIOUS
    <2> QED BY <2>1, Retreat
  <1>5. status' = "open"
    BY <1>4
  <1>6. /\ open' \in Seq(OpenBracket) /\ Nested'
        /\ Level \in Nat /\ Level' \in Nat
        /\ Level' = Level - Weight(output_format, Within)
        /\ (Within = "object") <=> (Within' = "container")
    BY <1>1, <1>3, PopFacts
  <1>7. Depth \in Nat /\ IndentAmount \in Nat
    BY <1>6, IndentAssumption DEF Depth
  <1>8. Depth' = Depth - 1
    <2>1. Weight(output_format, Within) = 1
      BY DEF Weight
    <2> QED BY <1>6, <2>1 DEF Depth, Structured
  <1>9. IndentFollowsNesting'
    <2>1. ~JustOpened'
      BY <1>2 DEF JustOpened, Openers, Closers
    <2> QED BY <1>4, <1>5, <1>8, <2>1 DEF IndentFollowsNesting
  <1>10. Placed'
    BY <1>2, <1>6 DEF Placed, Closers
  <1>11. ~Structured => doc' = doc
    BY DEF Closed
  <1>12. /\ doc' \in [stack : Seq(Token),
                       at : {"start", "first", "next", "comma", "done", "bad"}]
         /\ Structured => Mirrored'
    <2>1. doc \in [stack : Seq(Token), at : {"start", "first", "next", "comma", "done", "bad"}]
      BY <1>1 DEF OutputTypeOK, Token
    <2>2. ASSUME Structured
          PROVE  /\ doc' \in [stack : Seq(Token),
                              at : {"start", "first", "next", "comma", "done", "bad"}]
                 /\ Mirrored'
      <3>1. doc' = [stack |-> Butlast(doc.stack),
                    at |-> IF Len(doc.stack) = 1 THEN "done" ELSE "next"]
        BY <1>4, <2>2, CloseDoc
      <3>2. doc.stack \in Seq(Token) /\ Len(doc.stack) > 0
        BY <2>1, <2>2, Innermosts DEF Structured
      <3>3. /\ Butlast(doc.stack) \in Seq(Token)
            /\ Len(Butlast(doc.stack)) = Len(doc.stack) - 1
            /\ \A i \in 1..(Len(doc.stack) - 1) : Butlast(doc.stack)[i] = doc.stack[i]
        BY <3>2, ButlastFacts
      <3>4. /\ Len(doc'.stack) = Len(doc.stack) - 1
            /\ \A i \in 1..(Len(doc.stack) - 1) : doc'.stack[i] = doc.stack[i]
            /\ doc'.at = (IF Len(doc.stack) = 1 THEN "done" ELSE "next")
        BY <3>1, <3>3
      <3>5. Mirrored'
        BY <1>2, <1>3, <2>2, <3>4, MirrorClose
      <3> QED BY <3>1, <3>3, <3>5
    <2> QED BY <1>11, <2>1, <2>2
  <1>13. ~Structured => Mirrored'
    BY DEF Mirrored, Structured
  <1>14. indent' \in Int
    BY <1>4, <1>7
  <1>15. OutputTypeOK'
    BY <1>1, <1>2, <1>5, <1>6, <1>12, <1>14 DEF OutputTypeOK, Token, Closers, Elements
  <1>16. ~Structured => doc' = [stack |-> <<>>, at |-> "start"]
    BY <1>11 DEF IInv
  <1>17. Structured' = Structured
    BY DEF Structured
  <1> QED BY <1>4, <1>5, <1>6, <1>9, <1>10, <1>12, <1>13, <1>15, <1>16, <1>17
          DEF IInv, NeverDies

(***************************************************************************)
(* Outside JSON an object is a bracket of the caller only: opening and     *)
(* closing one changes nothing but the caller's nesting.                   *)
(***************************************************************************)
LEMMA SilentObject ==
    ASSUME IInv, status = "open", output_format # "JSON",
           UNCHANGED <<output_format, last_element, current_element, indent, crumb_list,
                       doc, status>>,
           \/ Within = "container" /\ Push("object", HEAD)
           \/ Within = "object" /\ Pop
    PROVE  IInv'
  <1>1. OutputTypeOK /\ Nested /\ Placed /\ Mirrored /\ CrumbsFollowNesting
    BY DEF IInv
  <1>2. Weight(output_format, "object") = 0
    BY DEF Weight
  <1>3. /\ open' \in Seq(OpenBracket) /\ Nested' /\ Level' = Level
        /\ Within' \in {"container", "object"} /\ open # <<>>
        /\ \A i \in 1..Len(open') : open'[i].kind # "object" =>
              i \in 1..Len(open) /\ open'[i] = open[i]
    <2>0. open # <<>> /\ Len(open) \in Nat /\ Level \in Nat
      BY <1>1, LevelFacts
    <2>1. CASE Within = "container" /\ Push("object", HEAD)
      <3>1. /\ open' \in Seq(OpenBracket) /\ Nested' /\ Within' = "object"
            /\ Len(open') = Len(open) + 1
            /\ \A i \in 1..Len(open) : open'[i] = open[i]
            /\ open'[Len(open) + 1] =
                 [kind |-> "object", name |-> HEAD,
                  level |-> Level + Weight(output_format, "object")]
            /\ Level' = Level + Weight(output_format, "object")
        BY <1>1, <2>1, PushFacts
      <3>2. open'[Len(open) + 1].kind = "object"
        BY <3>1
      <3>3. Level' = Level
        BY <1>2, <2>0, <3>1
      <3>4. ASSUME NEW i \in 1..Len(open'), open'[i].kind # "object"
            PROVE  i \in 1..Len(open) /\ open'[i] = open[i]
        <4>1. i # Len(open) + 1
          BY <3>2, <3>4
        <4>2. i \in 1..Len(open)
          BY <2>0, <3>1, <4>1
        <4> QED BY <3>1, <4>2
      <3> QED BY <2>0, <3>1, <3>3, <3>4
    <2>2. CASE Within = "object" /\ Pop
      <3>1. /\ open' \in Seq(OpenBracket) /\ Nested' /\ Within' = "container"
            /\ Len(open') = Len(open) - 1
            /\ \A i \in 1..Len(open') : open'[i] = open[i]
            /\ Level' = Level - Weight(output_format, Within)
        BY <1>1, <2>2, PopFacts
      <3> QED BY <1>2, <2>0, <2>2, <3>1
    <2> QED BY <2>1, <2>2
  <1>4. OutputTypeOK'
    BY <1>1, <1>3 DEF OutputTypeOK
  <1>5. IndentFollowsNesting'
    BY <1>3 DEF IInv, IndentFollowsNesting, Depth, Structured, JustOpened
  <1>6. CrumbsFollowNesting'
    BY <1>1, <1>3 DEF CrumbsFollowNesting
  <1>7. Placed'
    BY <1>1, <1>3 DEF Placed
  <1>8. Mirrored'
    BY <1>1, <1>3 DEF Mirrored
  <1> QED BY <1>3, <1>4, <1>5, <1>6, <1>7, <1>8 DEF IInv, NeverDies, Structured

(***************************************************************************)
(* entry(), master_header() and master_footer() keep it.                   *)
(***************************************************************************)
LEMMA EntryKeeps ==
    ASSUME IInv, WriteEntry
    PROVE  IInv'
  <1>0. status = "open" /\ Within \in {"section", "object"} /\ entry
    BY DEF WriteEntry
  <1>1. OutputTypeOK /\ Nested /\ Placed /\ Mirrored /\ CrumbsFollowNesting
    BY <1>0 DEF IInv
  <1>2. /\ change_element("ENTRY") /\ current_element' = "ENTRY"
        /\ last_element' = current_element
        /\ UNCHANGED <<output_format, crumb_list, open>>
    BY <1>0 DEF entry, change_element
  <1>3. /\ Survives("ENTRY")
        /\ indent' = (IF output_format = "CRUMB" THEN 0 ELSE IndentAmount * Depth)
        /\ output_format = "JSON" => (JsonBeside(current_element, "ENTRY") <=> ~JustOpened)
    <2>1. "ENTRY" \in Members \cup {"OBJECT_OPEN"}
      BY DEF Members
    <2> QED BY <1>0, <1>2, <2>1, Advance
  <1>4. /\ open # <<>> /\ Len(open) \in 1..Len(open) /\ Level \in Nat
        /\ Level' = Level /\ Within' = Within /\ Depth' = Depth
        /\ Depth \in Nat /\ IndentAmount \in Nat
    BY <1>0, <1>1, <1>2, LevelFacts, IndentAssumption DEF Level, Within, Depth, Structured
  <1>5. ASSUME output_format = "CRUMB" PROVE crumb_list # <<>>
    <2>1. ASSUME crumb_list = <<>> PROVE FALSE
      <3>1. Len(crumb_list) = 0 /\ Len(crumb_list) = Level
        BY <1>0, <1>1, <1>4, <1>5, <2>1, EmptySeq DEF CrumbsFollowNesting
      <3>2. /\ open[Len(open)].kind = Within /\ open[Len(open)].level = Level
            /\ Len(open) \in Nat
            /\ \A i \in 1..Len(open) : open[i].level \in Nat
        BY <1>1, <1>4, LevelFacts
      <3>3. CASE Within = "section"
        <4>1. Weight(output_format, open[Len(open)].kind) = 1
          BY <3>2, <3>3 DEF Weight
        <4>2. open[Len(open)].level =
                (IF Len(open) = 1 THEN 0 ELSE open[Len(open) - 1].level)
                   + Weight(output_format, open[Len(open)].kind)
          BY <1>1, <1>4 DEF Nested
        <4>3. Len(open) # 1 => Len(open) - 1 \in 1..Len(open)
          <5>1. \A n \in Nat : n \in 1..n /\ n # 1 => n - 1 \in 1..n
            OBVIOUS
          <5>2. Len(open) \in Nat /\ Len(open) \in 1..Len(open)
            BY <1>4, <3>2
          <5> QED BY <5>1, <5>2
        <4>4. Len(open) # 1 => open[Len(open) - 1].level \in Nat
          BY <3>2, <4>3
        <4> QED BY <3>1, <3>2, <4>1, <4>2, <4>4
      <3>4. CASE Within = "object"
        <4>1. Len(open) > 1 /\ open[Len(open) - 1].kind = "container"
          BY <1>1, <1>4, <3>2, <3>4 DEF Nested
        <4> DEFINE i == Len(open) - 1
        <4>2. i \in 1..Len(open) /\ open[i].kind = "container" /\ i < Len(open)
          BY <3>2, <4>1
        <4>3. /\ open[i].level + Weight(output_format, open[Len(open)].kind) <= open[Len(open)].level
              /\ open[i].level = (IF i = 1 THEN 0 ELSE open[i - 1].level) + Weight(output_format, open[i].kind)
              /\ i # 1 => open[i - 1].level \in Nat
          <5> HIDE DEF i
          <5> QED BY <1>1, <1>4, <3>2, <4>2 DEF Nested
        <4>4. Weight(output_format, open[i].kind) = 1
              /\ Weight(output_format, open[Len(open)].kind) = 0
          BY <1>5, <3>2, <3>4, <4>2 DEF Weight
        <4> HIDE DEF i
        <4> QED BY <3>1, <3>2, <4>2, <4>3, <4>4
      <3> QED BY <1>0, <3>3, <3>4
    <2> QED BY <2>1
  <1>6. status' = "open"
    BY <1>0, <1>3, <1>5 DEF entry
  <1>7. ~JustOpened'
    BY <1>2 DEF JustOpened, Openers
  <1>8. IndentFollowsNesting'
    BY <1>2, <1>3, <1>4, <1>6, <1>7 DEF IndentFollowsNesting
  <1>9. CrumbsFollowNesting'
    BY <1>0, <1>1, <1>2, <1>4 DEF CrumbsFollowNesting
  <1>10. Nested' /\ Placed'
    BY <1>0, <1>1, <1>2, <1>4 DEF Nested, Placed
  <1>11. ~Structured => doc' = doc
    BY <1>0 DEF entry
  <1>12. Structured => doc' = [doc EXCEPT !.at = "next"]
    BY <1>0, <1>3, EntryDoc DEF entry
  <1>13. doc' \in [stack : Seq(Token), at : {"start", "first", "next", "comma", "done", "bad"}]
    BY <1>1, <1>11, <1>12 DEF OutputTypeOK, Token
  <1>14. Structured => doc'.stack = doc.stack /\ doc'.at = "next"
    BY <1>1, <1>12 DEF OutputTypeOK
  <1>15. Mirrored'
    <2>1. CASE Structured
      BY <1>1, <1>2, <1>4, <1>7, <1>14, <2>1 DEF Mirrored
    <2>2. CASE ~Structured
      BY <1>2, <2>2 DEF Mirrored, Structured
    <2> QED BY <2>1, <2>2
  <1>16. OutputTypeOK'
    <2>1. indent' \in Int
      BY <1>3, <1>4
    <2>2. doc' \in [stack : Seq(Kinds \cup {"brace", "square"}),
                    at : {"start", "first", "next", "comma", "done", "bad"}]
      BY <1>13 DEF Token
    <2>3. "ENTRY" \in Elements
      BY DEF Elements, Members
    <2> QED BY <1>1, <1>2, <1>6, <2>1, <2>2, <2>3 DEF OutputTypeOK
  <1> QED BY <1>2, <1>3, <1>6, <1>8, <1>9, <1>10, <1>11, <1>15, <1>16
          DEF IInv, NeverDies, Structured

\* master_header() establishes the invariant of an open document.
LEMMA BeginKeeps ==
    ASSUME IInv, Begin
    PROVE  IInv'
  <1>1. /\ OutputTypeOK /\ Nested /\ output_format \in Formats
        /\ current_element = "NONE" /\ indent = 0 /\ crumb_list = <<>> /\ open = <<>>
        /\ doc = [stack |-> <<>>, at |-> "start"]
    BY DEF IInv, Begin, OutputTypeOK
  <1>2. master_header /\ UNCHANGED <<output_format, crumb_list, open>>
    BY DEF Begin, master_header
  <1>3. Len(open) = 0 /\ Level = 0 /\ Within = "root" /\ Level' = 0 /\ Within' = "root"
    BY <1>1, <1>2, LevelFacts DEF Level, Within
  <1>4. IndentAmount \in Nat
    BY IndentAssumption
  <1>5. ~JsonBeside("NONE", "OBJECT_OPEN")
    BY DEF JsonBeside, Members, Closers
  <1>6. Structured => doc' = [stack |-> <<Bracket(output_format, "root")>>, at |-> "first"]
    <2>1. Structured => doc' = ReadOpen(output_format, doc, "root")
      BY <1>1, <1>2, <1>5 DEF master_header, Opened, Separated
    <2>2. Append(<<>>, Bracket(output_format, "root")) = <<Bracket(output_format, "root")>>
      OBVIOUS
    <2> QED BY <1>1, <2>1, <2>2 DEF ReadOpen, Ready
  <1>7. ~Structured => doc' = doc
    BY <1>2 DEF master_header, Opened
  <1>8. /\ status' = "open"
        /\ output_format = "JSON" => /\ current_element' = "OBJECT_OPEN" /\ indent' = 0
                                     /\ last_element' = "NONE"
        /\ output_format = "XML" => /\ indent' = IndentAmount
                                    /\ UNCHANGED <<current_element, last_element>>
        /\ ~Structured => UNCHANGED <<indent, current_element, last_element>>
    <2>1. ASSUME output_format = "JSON"
          PROVE  Survives("OBJECT_OPEN") /\ Shift(output_format, current_element, "OBJECT_OPEN") = 0
      <3>1. First(current_element, "OBJECT_OPEN")
        BY <1>1 DEF First, Elements, Openers
      <3>2. ~Inside("JSON", "NONE", "OBJECT_OPEN") /\ ~Outside("JSON", "NONE", "OBJECT_OPEN")
        BY DEF Inside, Outside, JsonInside, JsonOutside
      <3>3. Shift(output_format, current_element, "OBJECT_OPEN") = 0
        BY <1>1, <2>1, <3>2 DEF Shift
      <3> QED BY <1>1, <3>1, <3>3 DEF Survives, Reached
    <2> QED BY <1>1, <1>2, <1>4, <2>1 DEF master_header, change_element, Structured
  <1>9. Token # {} /\ Bracket(output_format, "root") \in Token
    BY DEF Token, Kinds, Bracket
  <1>10. doc' \in [stack : Seq(Token), at : {"start", "first", "next", "comma", "done", "bad"}]
    <2>1. <<Bracket(output_format, "root")>> \in Seq(Token) /\ <<>> \in Seq(Token)
      BY <1>9
    <2>2. \A s \in Seq(Token), a \in {"start", "first"} :
            [stack |-> s, at |-> a] \in
              [stack : Seq(Token), at : {"start", "first", "next", "comma", "done", "bad"}]
      OBVIOUS
    <2>3. \/ doc' = [stack |-> <<Bracket(output_format, "root")>>, at |-> "first"]
          \/ doc' = [stack |-> <<>>, at |-> "start"]
      BY <1>1, <1>6, <1>7
    <2> HIDE DEF Token
    <2> QED BY <2>1, <2>2, <2>3
  <1>11. OutputTypeOK'
    BY <1>1, <1>2, <1>4, <1>8, <1>10 DEF OutputTypeOK, Token, Elements, Openers, Structured
  <1>12. IndentFollowsNesting'
    <2>1. CASE output_format = "JSON"
      <3>1. indent' = 0 /\ JustOpened' /\ Depth' = 1 /\ status' = "open"
        BY <1>2, <1>3, <1>8, <2>1 DEF JustOpened, Openers, Depth, Structured
      <3> QED BY <1>4, <3>1 DEF IndentFollowsNesting
    <2>2. CASE output_format = "XML"
      <3>1. indent' = IndentAmount /\ ~JustOpened' /\ Depth' = 1 /\ status' = "open"
        BY <1>1, <1>2, <1>3, <1>8, <2>2 DEF JustOpened, Openers, Depth, Structured
      <3> QED BY <1>4, <3>1 DEF IndentFollowsNesting
    <2>3. CASE ~Structured
      <3>1. indent' = 0 /\ ~JustOpened' /\ Depth' = 0 /\ status' = "open"
        BY <1>1, <1>2, <1>3, <1>8, <2>3 DEF JustOpened, Openers, Depth, Structured
      <3> QED BY <1>4, <3>1 DEF IndentFollowsNesting
    <2> QED BY <2>1, <2>2, <2>3 DEF Structured
  <1>13. CrumbsFollowNesting'
    BY <1>1, <1>2, <1>3 DEF CrumbsFollowNesting
  <1>14. Nested'
    BY <1>1, <1>2, <1>3 DEF Nested
  <1>15. Placed'
    BY <1>1, <1>2, <1>3, <1>8 DEF Placed, Structured
  <1>16. Mirrored'
    <2>1. Structured => /\ Len(doc'.stack) = 1 /\ doc'.at = "first"
                        /\ doc'.stack[1] = Bracket(output_format, "root")
      BY <1>6
    <2>2. Len(open') = 0
      BY <1>2, <1>3
    <2>3. output_format = "JSON" => JustOpened'
      BY <1>8 DEF JustOpened, Openers
    <2>4. CASE output_format = "JSON"
      <3>1. Bracket(output_format, "root") = "brace" /\ Structured
        BY <2>4 DEF Bracket, Structured
      <3>2. Len(doc'.stack) = Len(open') + 1
        BY <2>1, <2>2, <3>1
      <3>3. doc'.at = "first" /\ JustOpened' /\ doc'.stack[1] = "brace"
        BY <2>1, <2>3, <2>4, <3>1
      <3>4. 1..Len(open') = {}
        BY <2>2
      <3> QED BY <1>2, <2>4, <3>2, <3>3, <3>4 DEF Mirrored
    <2>5. CASE output_format # "JSON"
      BY <1>2, <1>3, <2>1, <2>2, <2>5 DEF Mirrored, Structured, Bracket
    <2> QED BY <2>4, <2>5
  <1> QED BY <1>1, <1>2, <1>7, <1>8, <1>11, <1>12, <1>13, <1>14, <1>15, <1>16
          DEF IInv, NeverDies, Structured

\* master_footer() ends in a whole document.
LEMMA FinishKeeps ==
    ASSUME IInv, Finish
    PROVE  IInv'
  <1>1. status = "open" /\ Within = "root" /\ master_footer
    BY DEF Finish
  <1>2. OutputTypeOK /\ Nested /\ Placed /\ Mirrored /\ CrumbsFollowNesting
    BY <1>1 DEF IInv
  <1>3. /\ open = <<>> /\ Len(open) = 0 /\ Level = 0
        /\ UNCHANGED <<output_format, crumb_list, open>>
    <2>1. \A i \in 1..Len(open) : open[i].kind # "root"
      BY <1>2, LevelFacts DEF OpenBracket
    <2> QED BY <1>1, <1>2, <2>1, LevelFacts DEF master_footer
  <1>4. IndentAmount \in Nat /\ Depth = (IF Structured THEN 1 ELSE 0)
    BY <1>3, IndentAssumption DEF Depth
  <1>5. ASSUME output_format = "JSON"
        PROVE  /\ status' = "closed" /\ indent' = 0
               /\ current_element' \in Closers /\ last_element' = current_element
               /\ ~JsonBeside(current_element, "OBJECT_CLOSE")
    <2>1. change_element("OBJECT_CLOSE")
      BY <1>1, <1>5 DEF master_footer, Structured
    <2>2. /\ Survives("OBJECT_CLOSE") /\ indent' = IndentAmount * (Depth - 1)
          /\ ~JsonBeside(current_element, "OBJECT_CLOSE")
      <3>1. "OBJECT_CLOSE" \in Closers
        BY DEF Closers
      <3> QED BY <1>1, <1>5, <2>1, <3>1, Retreat
    <2>3. indent' = 0
      BY <1>4, <1>5, <2>2 DEF Structured
    <2> QED BY <1>1, <1>5, <2>1, <2>2, <2>3 DEF master_footer, change_element, Closers
  <1>6. ASSUME output_format = "XML"
        PROVE  /\ status' = "closed" /\ indent' = 0
               /\ UNCHANGED <<current_element, last_element>>
    <2>1. ~JustOpened
      BY <1>1, <1>2, <1>6 DEF Placed, JustOpened, Openers
    <2>2. indent = IndentAmount
      BY <1>1, <1>4, <1>6, <2>1 DEF IInv, IndentFollowsNesting, Structured
    <2> QED BY <1>1, <1>4, <1>6, <2>2 DEF master_footer, Structured
  <1>7. ASSUME ~Structured
        PROVE  /\ status' = "closed" /\ indent' = 0
               /\ UNCHANGED <<current_element, last_element>>
    <2>1. ~JustOpened
      BY <1>1, <1>2, <1>7 DEF Placed, JustOpened, Openers, Structured
    <2>2. indent = 0
      BY <1>1, <1>4, <1>7, <2>1 DEF IInv, IndentFollowsNesting, Structured
    <2> QED BY <1>1, <1>7, <2>2 DEF master_footer, Structured
  <1>8. Structured => doc' = [stack |-> <<>>, at |-> "done"]
    <2>1. ASSUME Structured
          PROVE  doc' = [stack |-> Butlast(doc.stack),
                         at |-> IF Len(doc.stack) = 1 THEN "done" ELSE "next"]
      <3>1. "OBJECT_CLOSE" \in Closers
        BY DEF Closers
      <3>2. doc' = Closed("OBJECT_CLOSE", Within)
        BY <1>1 DEF master_footer
      <3>3. Within = "object" => output_format = "JSON"
        BY <1>1
      <3> QED BY <1>1, <1>5, <2>1, <3>1, <3>2, <3>3, CloseDoc
    <2>2. ASSUME Structured PROVE Len(doc.stack) = 1 /\ Butlast(doc.stack) = <<>>
      <3>1. Len(doc.stack) = 1
        BY <1>2, <1>3, <2>2 DEF Mirrored, Structured
      <3>2. doc.stack \in Seq(Token)
        BY <1>2 DEF OutputTypeOK, Token
      <3>3. Butlast(doc.stack) \in Seq(Token) /\ Len(Butlast(doc.stack)) = Len(doc.stack) - 1
        BY <3>1, <3>2, ButlastFacts
      <3>4. Len(Butlast(doc.stack)) = 0
        BY <3>1, <3>3
      <3> QED BY <3>1, <3>3, <3>4, EmptySeq
    <2> QED BY <2>1, <2>2
  <1>9. ~Structured => doc' = doc
    BY <1>1 DEF master_footer, Closed
  <1>10. /\ status' = "closed" /\ indent' = 0
         /\ last_element' \in Elements \cup {"NONE"}
         /\ current_element' \in Elements \cup {"NONE"}
    BY <1>2, <1>5, <1>6, <1>7 DEF OutputTypeOK, Elements, Structured
  <1>11. doc' \in [stack : Seq(Token), at : {"start", "first", "next", "comma", "done", "bad"}]
    <2>1. doc \in [stack : Seq(Token), at : {"start", "first", "next", "comma", "done", "bad"}]
      BY <1>2 DEF OutputTypeOK, Token
    <2>2. [stack |-> <<>>, at |-> "done"] \in
            [stack : Seq(Token), at : {"start", "first", "next", "comma", "done", "bad"}]
      OBVIOUS
    <2> QED BY <1>8, <1>9, <2>1, <2>2
  <1>12. OutputTypeOK'
    <2>1. doc' \in [stack : Seq(Kinds \cup {"brace", "square"}),
                    at : {"start", "first", "next", "comma", "done", "bad"}]
      BY <1>11 DEF Token
    <2> QED BY <1>2, <1>3, <1>10, <2>1 DEF OutputTypeOK
  <1>13. Nested'
    BY <1>2, <1>3 DEF Nested
  <1>14. IndentFollowsNesting' /\ CrumbsFollowNesting'
    BY <1>10 DEF IndentFollowsNesting, CrumbsFollowNesting
  <1> QED BY <1>3, <1>8, <1>9, <1>10, <1>12, <1>13, <1>14 DEF IInv, NeverDies, Structured

-----------------------------------------------------------------------------
(***************************************************************************)
(* The invariant holds initially, and every step keeps it.                 *)
(***************************************************************************)
LEMMA InitInv == OutputInit => IInv
  <1> SUFFICES ASSUME OutputInit PROVE IInv
    OBVIOUS
  <1>1. /\ <<>> \in Seq(Names \cup {HEAD}) /\ <<>> \in Seq(OpenBracket)
        /\ <<>> \in Seq(Kinds \cup {"brace", "square"}) /\ Len(<<>>) = 0
    OBVIOUS
  <1>2. OutputTypeOK
    BY <1>1 DEF OutputInit, OutputTypeOK
  <1>3. Nested
    BY <1>1 DEF OutputInit, Nested
  <1> QED BY <1>2, <1>3 DEF OutputInit, IInv, NeverDies, IndentFollowsNesting, CrumbsFollowNesting

\* Every call of the writer, and every other step, keeps the invariant.
LEMMA StepInv == IInv /\ [Next]_outputVars => IInv'
  <1> SUFFICES ASSUME IInv, [Next]_outputVars PROVE IInv'
    OBVIOUS
  <1>1. crumb_list \in Seq(Names \cup {HEAD}) /\ CrumbsFollowNesting
    BY DEF IInv, OutputTypeOK
  <1>2. ASSUME NEW new, NEW kind, NEW name \in Names, status = "open", Within # "container",
               <<new, kind>> \in {<<"SECTION_OPEN", "section">>, <<"CONTAINER_OPEN", "container">>},
               named_open(new, kind, name)
        PROVE  IInv'
    <2>1. /\ change_element(new) /\ doc' = Opened(new, kind) /\ Push(kind, name)
          /\ output_format' = output_format
          /\ status' = (IF Survives(new) THEN status ELSE "died")
      BY <1>2 DEF named_open
    <2>2. crumb_list' \in Seq(Names \cup {HEAD}) /\ CrumbsFollowNesting'
      <3>1. CASE output_format = "CRUMB"
        BY <1>2, <2>1, <3>1, CrumbsOpen DEF named_open
      <3>2. CASE output_format # "CRUMB"
        BY <1>1, <1>2, <2>1, <3>2 DEF named_open, CrumbsFollowNesting
      <3> QED BY <3>1, <3>2
    <2>3. new \in Openers /\ kind \in {"section", "container", "object"}
      BY <1>2 DEF Openers
    <2> QED BY <1>2, <2>1, <2>2, <2>3, OpenKeeps
  <1>3. ASSUME NEW new, status = "open",
               <<new, Within>> \in {<<"SECTION_CLOSE", "section">>, <<"CONTAINER_CLOSE", "container">>},
               named_close(new, Within)
        PROVE  IInv'
    <2>1. /\ change_element(new) /\ doc' = Closed(new, Within) /\ Pop
          /\ output_format' = output_format
          /\ status' = (IF Survives(new) /\ (output_format = "CRUMB" => crumb_list # <<>>)
                        THEN status ELSE "died")
      BY <1>3 DEF named_close
    <2>2. /\ crumb_list' \in Seq(Names \cup {HEAD}) /\ CrumbsFollowNesting'
          /\ output_format = "CRUMB" => crumb_list # <<>>
      <3>1. CASE output_format = "CRUMB"
        BY <1>3, <2>1, <3>1, CrumbsClose DEF named_close
      <3>2. CASE output_format # "CRUMB"
        BY <1>1, <1>3, <2>1, <3>2 DEF named_close, CrumbsFollowNesting
      <3> QED BY <3>1, <3>2
    <2>3. new \in Closers /\ Within # "object"
      BY <1>3 DEF Closers
    <2> QED BY <1>3, <2>1, <2>2, <2>3, CloseKeeps
  <1>4. CASE OpenSection
    BY <1>2, <1>4 DEF OpenSection, MayNest, section_open
  <1>5. CASE CloseSection
    BY <1>3, <1>5 DEF CloseSection, section_close
  <1>6. CASE OpenContainer
    BY <1>2, <1>6 DEF OpenContainer, MayNest, container_open
  <1>7. CASE CloseContainer
    BY <1>3, <1>7 DEF CloseContainer, container_close
  <1>8. CASE OpenObject
    <2>1. status = "open" /\ Within = "container" /\ object_open
      BY <1>8 DEF OpenObject, MayNest
    <2>2. CASE output_format = "JSON"
      <3>1. /\ change_element("OBJECT_OPEN") /\ doc' = Opened("OBJECT_OPEN", "object")
            /\ Push("object", HEAD) /\ output_format' = output_format
            /\ status' = (IF Survives("OBJECT_OPEN") THEN status ELSE "died")
            /\ crumb_list' = crumb_list
        BY <2>1, <2>2 DEF object_open
      <3>2. CrumbsFollowNesting' /\ "OBJECT_OPEN" \in Openers
        BY <2>2, <3>1 DEF CrumbsFollowNesting, Openers
      <3> QED BY <1>1, <2>1, <2>2, <3>1, <3>2, OpenKeeps
    <2>3. CASE output_format # "JSON"
      BY <2>1, <2>3, SilentObject DEF object_open
    <2> QED BY <2>2, <2>3
  <1>9. CASE CloseObject
    <2>1. status = "open" /\ Within = "object" /\ object_close
      BY <1>9 DEF CloseObject
    <2>2. CASE output_format = "JSON"
      <3>1. /\ change_element("OBJECT_CLOSE") /\ doc' = Closed("OBJECT_CLOSE", Within)
            /\ Pop /\ output_format' = output_format
            /\ status' = (IF Survives("OBJECT_CLOSE") /\ (output_format = "CRUMB" => crumb_list # <<>>)
                          THEN status ELSE "died")
            /\ crumb_list' = crumb_list
        BY <2>1, <2>2 DEF object_close
      <3>2. CrumbsFollowNesting' /\ "OBJECT_CLOSE" \in Closers
        BY <2>2, <3>1 DEF CrumbsFollowNesting, Closers
      <3> QED BY <1>1, <2>1, <2>2, <3>1, <3>2, CloseKeeps
    <2>3. CASE output_format # "JSON"
      BY <2>1, <2>3, SilentObject DEF object_close
    <2> QED BY <2>2, <2>3
  <1>10. CASE UNCHANGED outputVars
    <2>1. /\ output_format' = output_format /\ last_element' = last_element
          /\ current_element' = current_element /\ indent' = indent
          /\ crumb_list' = crumb_list /\ doc' = doc /\ status' = status /\ open' = open
      BY <1>10 DEF outputVars
    <2>2. /\ OutputTypeOK /\ NeverDies /\ Nested /\ IndentFollowsNesting /\ CrumbsFollowNesting
          /\ status = "open" => Placed /\ Mirrored
      BY DEF IInv
    <2>3. OutputTypeOK' /\ NeverDies'
      BY <2>1, <2>2 DEF OutputTypeOK, NeverDies
    <2>4. Nested'
      BY <2>1, <2>2 DEF Nested
    <2>5. IndentFollowsNesting'
      BY <2>1, <2>2 DEF IndentFollowsNesting, Depth, Level, Structured, JustOpened
    <2>6. CrumbsFollowNesting'
      BY <2>1, <2>2 DEF CrumbsFollowNesting, Level
    <2>7. status' = "open" => Placed'
      BY <2>1, <2>2 DEF Placed, Within
    <2>8. status' = "open" => Mirrored'
      BY <2>1, <2>2 DEF Mirrored, Level, JustOpened
    <2> QED BY <2>1, <2>3, <2>4, <2>5, <2>6, <2>7, <2>8 DEF IInv, Structured
  <1> QED BY <1>4, <1>5, <1>6, <1>7, <1>8, <1>9, <1>10, EntryKeeps, BeginKeeps, FinishKeeps
          DEF Next, Finished

(***************************************************************************)
(* The inductive invariant is one.                                         *)
(***************************************************************************)
THEOREM Inductive == Spec => []IInv
  BY InitInv, StepInv, PTL DEF Spec

(***************************************************************************)
(* Type correctness of the state of output.c.                              *)
(***************************************************************************)
THEOREM TypeCorrect == Spec => []OutputTypeOK
  <1>1. IInv => OutputTypeOK
    BY DEF IInv
  <1> QED BY <1>1, Inductive, PTL

(***************************************************************************)
(* No caller that nests its calls makes output.c die, whatever names it    *)
(* uses, however deep it nests and whatever the indent_amount.             *)
(***************************************************************************)
THEOREM NoDeath == Spec => []NeverDies
  <1>1. IInv => NeverDies
    BY DEF IInv
  <1> QED BY <1>1, Inductive, PTL

(***************************************************************************)
(* Such a caller gets a well-formed JSON or XML document.                  *)
(***************************************************************************)
THEOREM AlwaysWellFormed == Spec => []WellFormed
  <1>1. IInv => WellFormed
    <2> SUFFICES ASSUME IInv PROVE WellFormed
      OBVIOUS
    <2>1. CASE ~Structured
      BY <2>1 DEF IInv, WellFormed
    <2>2. CASE Structured /\ status = "open"
      BY <2>2 DEF IInv, WellFormed, Mirrored, Structured
    <2>3. CASE Structured /\ status \in {"fresh", "closed"}
      BY <2>3 DEF IInv, WellFormed
    <2> QED BY <2>1, <2>2, <2>3 DEF IInv, NeverDies, OutputTypeOK
  <1> QED BY <1>1, Inductive, PTL

(***************************************************************************)
(* Every line is indented by the depth of the element it shows.            *)
(***************************************************************************)
THEOREM IndentCorrect == Spec => []IndentFollowsNesting
  <1>1. IInv => IndentFollowsNesting
    BY DEF IInv
  <1> QED BY <1>1, Inductive, PTL

(***************************************************************************)
(* Every value of a crumb document is under exactly its headings.          *)
(***************************************************************************)
THEOREM CrumbsCorrect == Spec => []CrumbsFollowNesting
  <1>1. IInv => CrumbsFollowNesting
    BY DEF IInv
  <1> QED BY <1>1, Inductive, PTL

=============================================================================
