------------------------------- MODULE Encode -------------------------------
(***************************************************************************)
(* encode_string() and output_translate() of output.c: what makes a value  *)
(* fit into an XML or JSON document.  A text is a sequence of characters   *)
(* and of the rest of what stands for one: "&lt;" is "&" and "lt;".        *)
(***************************************************************************)
EXTENDS Integers, Sequences, SequencesExt, TLC

\* Four characters are not printable: "ctl" is U+0001, "nel" U+0085, "sep"
\* U+2028 and "far" U+1FFFE.  "a" is any character that needs no care.
Plain == {"a", "'", "quote", "&", "<", ">", "backslash", "ctl", "nel", "sep", "far"}

Printable(c) == c \notin {"ctl", "nel", "sep", "far"}

\* wcslen() of what is not a single character.
Widths == [t \in {"#x1fffe;"} |-> 8] @@ [t \in {"#x2028;"} |-> 7]
          @@ [t \in {"apos;", "quot;", "#x01;", "#x85;", "u0001", "u0085", "u2028", "u1fff"} |-> 5]
          @@ [t \in {"amp;"} |-> 4] @@ [t \in {"lt;", "gt;"} |-> 3]

wcslen(text) ==
    FoldLeft(LAMBDA n, t : n + IF t \in DOMAIN Widths THEN Widths[t] ELSE 1, 0, text)

translate_table == [
    xml |-> [c \in {"'"} |-> <<"&", "apos;">>] @@ [c \in {"quote"} |-> <<"&", "quot;">>]
            @@ [c \in {"&"} |-> <<"&", "amp;">>] @@ [c \in {"<"} |-> <<"&", "lt;">>]
            @@ [c \in {">"} |-> <<"&", "gt;">>],
    json |-> [c \in {"quote"} |-> <<"backslash", "quote">>]
             @@ [c \in {"backslash"} |-> <<"backslash", "backslash", "backslash", "backslash">>]
]

\* The first pass: the room that the replacements need.
Extra(format, text) ==
    LET map == translate_table[format]
    IN  FoldLeft(LAMBDA n, c : n + IF c \in DOMAIN map THEN wcslen(map[c]) - 1 ELSE 0, 0, text)

\* The second pass: the text with its replacements.
Replaced(format, text) ==
    LET map == translate_table[format]
    IN  FoldLeft(LAMBDA s, c : s \o IF c \in DOMAIN map THEN map[c] ELSE <<c>>, <<>>, text)

\* A text and the room it was given; the terminator takes one.
output_translate(format, text) ==
    [buf |-> IF Extra(format, text) = 0 THEN text ELSE Replaced(format, text),
     room |-> wcslen(text) + 1 + Extra(format, text)]

\* What json_format ("%4.4x") and xml_format ("%2.2x") make of a non-printable
\* character: four and two hex digits, or as many as the character has.
Code(format, c) ==
    IF format = "json"
    THEN CASE c = "ctl" -> <<"backslash", "u0001">> [] c = "nel" -> <<"backslash", "u0085">>
           [] c = "sep" -> <<"backslash", "u2028">> [] c = "far" -> <<"backslash", "u1fff", "e">>
    ELSE CASE c = "ctl" -> <<"&", "#x01;">> [] c = "nel" -> <<"&", "#x85;">>
           [] c = "sep" -> <<"&", "#x2028;">> [] c = "far" -> <<"&", "#x1fffe;">>

\* The length of "&#x..;" and of "\u....", whatever the characters.
CodeLength == 6

NonPrintables(text) == Len(SelectSeq(text, LAMBDA c : ~Printable(c)))

Coded(format, text) ==
    FoldLeft(LAMBDA s, c : s \o IF Printable(c) THEN <<c>> ELSE Code(format, c), <<>>, text)

\* The characters that the codes are taken to need, the terminator included.
new_size(text) == (wcslen(text) + 1 - NonPrintables(text)) + (NonPrintables(text) * CodeLength)

\* swprintf() returns -1 for a code that has no room in new_size characters,
\* wherever in them it is to go.
CodeFails(format, text) ==
    \E c \in ToSet(text) : ~Printable(c) /\ wcslen(Code(format, c)) >= new_size(text)

\* Stands for a text written from a place moved back by that -1.
Failed == <<"failed">>

\* Mutant: the codes are made first and then translated.
encode_string_codes_first(format, text) ==
    IF format \in {"text", "crumb"} THEN [buf |-> text, room |-> wcslen(text) + 1]
    ELSE output_translate(format, Coded(format, text))

encode_string(format, text) ==
    LET translated == output_translate(format, text)
    IN  IF text = <<>> \/ format \in {"text", "crumb"}
        THEN [buf |-> text, room |-> wcslen(text) + 1]
        ELSE IF NonPrintables(translated.buf) = 0 THEN translated
        ELSE [buf |-> IF CodeFails(format, translated.buf) THEN Failed
                      ELSE Coded(format, translated.buf),
              room |-> 1 + new_size(translated.buf)]

-----------------------------------------------------------------------------
(***************************************************************************)
(* What a reader of the document makes of a value.                         *)
(***************************************************************************)
\* What two items mean together in XML and in JSON, where they mean anything.
\* XML has no reference to U+0001; JSON takes the four digits only.
Meaning(format) ==
    IF format = "xml"
    THEN [p \in {<<"&", "apos;">>} |-> "'"] @@ [p \in {<<"&", "quot;">>} |-> "quote"]
         @@ [p \in {<<"&", "amp;">>} |-> "&"] @@ [p \in {<<"&", "lt;">>} |-> "<"]
         @@ [p \in {<<"&", "gt;">>} |-> ">"] @@ [p \in {<<"&", "#x85;">>} |-> "nel"]
         @@ [p \in {<<"&", "#x2028;">>} |-> "sep"] @@ [p \in {<<"&", "#x1fffe;">>} |-> "far"]
    ELSE [p \in {<<"backslash", "quote">>} |-> "quote"]
         @@ [p \in {<<"backslash", "backslash">>} |-> "backslash"]
         @@ [p \in {<<"backslash", "u0001">>} |-> "ctl"]
         @@ [p \in {<<"backslash", "u0085">>} |-> "nel"]
         @@ [p \in {<<"backslash", "u2028">>} |-> "sep"]
         @@ [p \in {<<"backslash", "u1fff">>} |-> "U+1FFF"]

\* Characters that mean something else than themselves in a value.
Reserved(format) == IF format = "xml" THEN {"'", "quote", "&", "<", ">", "ctl"}
                    ELSE {"quote", "backslash", "ctl"}

Misread == <<"misread">>

\* Read from the left; an item half read waits for the next.
Read(format, text) ==
    LET opens == {p[1] : p \in DOMAIN Meaning(format)}
        step(state, t) ==
            IF state.done = Misread THEN state
            ELSE IF state.open # ""
            THEN IF <<state.open, t>> \in DOMAIN Meaning(format)
                 THEN [done |-> Append(state.done, Meaning(format)[<<state.open, t>>]), open |-> ""]
                 ELSE [done |-> Misread, open |-> ""]
            ELSE IF t \in opens THEN [state EXCEPT !.open = t]
            ELSE IF t \in Reserved(format) THEN [state EXCEPT !.done = Misread]
            ELSE [state EXCEPT !.done = Append(@, t)]
        end == FoldLeft(step, [done |-> <<>>, open |-> ""], text)
    IN  IF end.open = "" THEN end.done ELSE Misread

\* The table doubles a backslash once more than JSON asks for, and a code of
\* more than four digits is read as one of four and what is left.
AsJson(text) ==
    FoldLeft(LAMBDA s, c : s \o CASE c = "backslash" -> <<c, c>>
                                  [] c = "far" -> <<"U+1FFF", "e">>
                                  [] OTHER -> <<c>>, <<>>, text)
=============================================================================
