------------------------------ MODULE PString ------------------------------
(***************************************************************************)
(* The buffer of the document, a pstring, from pstring_new() until it is   *)
(* put out: wappend(), wappendf() and pappend() make it longer, the footer *)
(* ends it, pstring_chomp() and pstring_compress() tidy it up in place.    *)
(* Positions count from zero, as in the code.  A pstring's len leaves out  *)
(* the terminator when wappendn() made it and includes it when wappendva() *)
(* or pstring_create() did.                                                *)
(*                                                                         *)
(* Text is abstracted to letters, the indent character and newlines.  The  *)
(* first character of a document is a letter: add_indent() writes nothing  *)
(* at indent zero, and a section, an entry, "{" or "<?xml" comes first.    *)
(* Memory runs out only in the loop of wappendva().                        *)
(***************************************************************************)
EXTENDS Integers, Sequences

CONSTANTS
    Letters,        \* all characters but the newline and the indent character
    MaxText,        \* bound on the length of the document before its footer
    MaxPiece,       \* bound on the length of what one call appends
    Guess,          \* DEFAULT_ALLOC_GUESS_SIZE
    Memory          \* characters for which realloc() still finds room

NL == "newline"
wide_indent_char == "indent"
NUL == "nul"

Removable == {NL, wide_indent_char}
Chars == Letters \cup Removable

ASSUME LettersAssumption == Letters \cap {NL, wide_indent_char, NUL} = {}
ASSUME BoundsAssumption == MaxText \in Nat /\ MaxPiece \in Nat /\ Guess \in Nat /\ Memory \in Nat

VARIABLES
    pc,
    dflt,           \* indent_char is DEFAULT_INDENT_CHAR
    buf, len, size, \* of doc; size in characters
    piece, converts, room, dest,    \* wappendva(): what it formats, whether it can, its len, its @dest
    p, removable,                   \* pstring_chomp()
    to, from, start, count, blanks, \* pstring_compress()
    before          \* what the document read before pstring_compress()

docVars == <<buf, len, size>>
format == <<piece, converts, room, dest>>
chomp == <<p, removable>>
compress == <<to, from, start, count, blanks>>
vars == <<pc, dflt, docVars, format, chomp, compress, before>>

Lowest(set) == CHOOSE n \in set : \A m \in set : n <= m

\* The characters before the first terminator, as everything reads them that
\* takes buf for a string.
String ==
    IF size = 0 THEN <<>>
    ELSE LET end == Lowest({i \in DOMAIN buf : buf[i] = NUL})
         IN  [i \in 1..end |-> buf[i - 1]]

Pieces == UNION {[1..n -> Chars] : n \in 0..MaxPiece}

Spaces(n) == [i \in 1..n |-> wide_indent_char]

-----------------------------------------------------------------------------
(***************************************************************************)
(* Appending.                                                              *)
(***************************************************************************)
\* wcsncat() puts src behind the len characters there are; the terminator goes
\* to position total, which becomes the len.
Extend(src, total) ==
    /\ buf' = [i \in 0..total |-> IF i < len THEN buf[i]
                                  ELSE IF i < len + Len(src) THEN src[i - len + 1]
                                  ELSE NUL]
    /\ len' = total
    /\ size' = total + 1

wappendn(src) == IF src = <<>> THEN UNCHANGED docVars ELSE Extend(src, len + Len(src))

\* Mutant: both terminators are counted.
pappend_two_terminators(src) == Extend(src, len + (Len(src) + 1))

\* The len of the string that is appended includes its terminator.
pappend(src) == Extend(src, len + (Len(src) + 1) - 1)

\* What fits in the bounds, and begins a document that is still empty.
Fits(src) ==
    /\ len + Len(src) <= MaxText
    /\ len = 0 /\ src # <<>> => src[1] \in Letters

wappend ==
    /\ pc = "write"
    /\ \E src \in Pieces : Fits(src) /\ wappendn(src)
    /\ UNCHANGED <<pc, dflt, format, chomp, compress, before>>

\* wappendf(), or wmappendva() for the value of an entry.  A string that is not
\* valid in the locale cannot be converted.
Format(src, ok, to_) ==
    /\ piece' = src
    /\ converts' = ok
    /\ dest' = to_
    /\ room' = Guess
    /\ pc' = "format"

wappendf ==
    /\ pc = "write"
    /\ \E src \in Pieces, ok \in BOOLEAN : Fits(src) /\ Format(src, ok, "doc")
    /\ UNCHANGED <<dflt, docVars, chomp, compress, before>>

\* Another indent character than the default one fills a buffer of its own,
\* which is then appended.
add_indent ==
    /\ pc = "write"
    /\ len > 0
    /\ \E n \in 1..MaxPiece :
          Fits(Spaces(n)) /\ Format(Spaces(n), TRUE, IF dflt THEN "doc" ELSE "buffer")
    /\ UNCHANGED <<dflt, docVars, chomp, compress, before>>

\* vswprintf() is content when the terminator has room as well.  It returns -1
\* for too little room and for what it cannot convert.
Formatted == converts /\ Len(piece) < room

\* The buffer that it formatted to is released or has become part of the document.
Idle == piece' = <<>> /\ converts' = TRUE /\ room' = 0 /\ dest' = "doc"

\* Mutant: the room is not increased.
wappendva_same_room ==
    /\ pc = "format"
    /\ IF Formatted
       THEN /\ IF dest = "doc" THEN wappendn(piece) ELSE pappend(piece)
            /\ pc' = "write"
            /\ Idle
       ELSE UNCHANGED <<pc, docVars, format>>
    /\ UNCHANGED <<dflt, chomp, compress, before>>

\* One iteration of the loop: done, one character more, or die().
wappendva ==
    /\ pc = "format"
    /\ IF Formatted
       THEN /\ IF dest = "doc" THEN wappendn(piece) ELSE pappend(piece)
            /\ pc' = "write"
            /\ Idle
       ELSE /\ pc' = IF room < Memory THEN "format" ELSE "died"
            /\ room' = IF room < Memory THEN room + 1 ELSE room
            /\ UNCHANGED <<docVars, piece, converts, dest>>
    /\ UNCHANGED <<dflt, chomp, compress, before>>

master_footer ==
    /\ pc = "write"
    /\ wappendn(<<NL>>)
    /\ pc' = "chomp"
    /\ UNCHANGED <<dflt, format, chomp, compress, before>>

-----------------------------------------------------------------------------
(***************************************************************************)
(* pstring_chomp() walks back over newlines and indent characters and      *)
(* leaves one newline in their place.                                      *)
(***************************************************************************)
\* main() compresses what dump() wrote, and what display options wrote unless
\* the format is XML or JSON.
NextStage == pc' \in {"compress", "done"}

\* Mutant: a document of one character is not left alone.
pstring_chomp_any ==
    /\ pc = "chomp"
    /\ pc' = "strip"
    /\ p' = len - 1
    /\ removable' = 0
    /\ UNCHANGED <<dflt, docVars, format, compress, before>>

pstring_chomp ==
    /\ pc = "chomp"
    /\ IF len < 2
       THEN NextStage /\ UNCHANGED chomp
       ELSE pc' = "strip" /\ p' = len - 1 /\ removable' = 0
    /\ UNCHANGED <<dflt, docVars, format, compress, before>>

Strip ==
    /\ pc = "strip"
    /\ buf[p] \in Removable
    /\ p' = p - 1
    /\ removable' = removable + 1
    /\ UNCHANGED <<pc, dflt, docVars, format, compress, before>>

\* Mutant: the character before what is removable goes as well.
Chop_too_far ==
    /\ pc = "strip"
    /\ buf[p] \notin Removable
    /\ buf' = [buf EXCEPT ![p] = NUL]
    /\ len' = p
    /\ NextStage
    /\ UNCHANGED <<dflt, size, format, chomp, compress, before>>

\* A new newline and the terminator behind it.
Chop ==
    /\ pc = "strip"
    /\ buf[p] \notin Removable
    /\ IF removable > 1
       THEN LET n == len - (removable - 1)
            IN  /\ buf' = [buf EXCEPT ![n - 1] = NL, ![n] = NUL]
                /\ len' = n
       ELSE UNCHANGED <<buf, len>>
    /\ NextStage
    /\ UNCHANGED <<dflt, size, format, chomp, compress, before>>

-----------------------------------------------------------------------------
(***************************************************************************)
(* pstring_compress() copies the text onto itself, from `to' to `from', a  *)
(* character at a time.  It leaves out blank lines and lines of indent     *)
(* characters, and counts what it leaves out.                              *)
(***************************************************************************)
pstring_compress ==
    /\ pc = "compress"
    /\ to' = 0 /\ from' = 0 /\ start' = 0 /\ count' = 0 /\ blanks' = 0
    /\ before' = String
    /\ pc' = "loop"
    /\ UNCHANGED <<dflt, docVars, format, chomp>>

During(where) == pc = where /\ UNCHANGED <<dflt, len, size, format, chomp, before>>

Loop ==
    /\ During("loop")
    /\ pc' = IF buf[to] = NUL THEN "terminate" ELSE "again"
    /\ UNCHANGED <<buf, compress>>

SkipBlank ==
    /\ During("again")
    /\ buf[to] = NL /\ buf[to + 1] = NL
    /\ to' = to + 1
    /\ blanks' = blanks + 1
    /\ UNCHANGED <<pc, buf, from, start, count>>

StartRun ==
    /\ During("again")
    /\ ~(buf[to] = NL /\ buf[to + 1] = NL)
    /\ start' = to
    /\ pc' = "run"
    /\ UNCHANGED <<buf, to, from, count, blanks>>

SkipRun ==
    /\ During("run")
    /\ buf[to] = wide_indent_char
    /\ to' = to + 1
    /\ count' = count + 1
    /\ UNCHANGED <<pc, buf, from, start, blanks>>

\* A run is left out when it is longer than one and ends the line; otherwise it
\* backtracks and forgets all that it counted.
EndRun ==
    /\ During("run")
    /\ buf[to] # wide_indent_char
    /\ IF to = start THEN pc' = "copy" /\ UNCHANGED <<to, count>>
       ELSE IF buf[to] = NL /\ to # start + 1 THEN pc' = "newlines" /\ UNCHANGED <<to, count>>
       ELSE pc' = "copy" /\ to' = start /\ count' = 0
    /\ UNCHANGED <<buf, from, start, blanks>>

SkipNewline ==
    /\ During("newlines")
    /\ buf[to] = NL
    /\ to' = to + 1
    /\ UNCHANGED <<pc, buf, from, start, count, blanks>>

\* Mutant: the next line is not looked at.
EndNewlines_no_look ==
    /\ During("newlines")
    /\ buf[to] # NL
    /\ pc' = "copy"
    /\ blanks' = blanks + 1
    /\ UNCHANGED <<buf, to, from, start, count>>

\* The next line may begin with a run as well; then the newlines are not counted.
EndNewlines ==
    /\ During("newlines")
    /\ buf[to] # NL
    /\ pc' = IF buf[to] = wide_indent_char THEN "again" ELSE "copy"
    /\ blanks' = IF buf[to] = wide_indent_char THEN blanks ELSE blanks + 1
    /\ UNCHANGED <<buf, to, from, start, count>>

Copy ==
    /\ During("copy")
    /\ buf' = [buf EXCEPT ![from] = buf[to]]
    /\ from' = from + 1
    /\ to' = to + 1
    /\ pc' = "loop"
    /\ UNCHANGED <<start, count, blanks>>

\* The buffer shrinks by what was counted; its last character becomes the
\* terminator.
Terminate ==
    /\ pc = "terminate"
    /\ LET new_len == len - (blanks + count)
       IN  IF blanks > 0 \/ count > 0
           THEN /\ buf' = [i \in 0..(new_len - 1) |-> IF i \in {from, new_len - 1} THEN NUL ELSE buf[i]]
                /\ len' = new_len
                /\ size' = new_len
           ELSE buf' = [buf EXCEPT ![from] = NUL] /\ UNCHANGED <<len, size>>
    /\ pc' = "done"
    /\ UNCHANGED <<dflt, format, chomp, compress, before>>

\* _show_output_pstring() reads the document, or die() has ended the program.
Ended == pc \in {"done", "died"} /\ UNCHANGED vars

Init ==
    /\ pc = "write"
    /\ dflt \in BOOLEAN
    /\ buf = [i \in 0..-1 |-> NUL] /\ len = 0 /\ size = 0
    /\ piece = <<>> /\ converts = TRUE /\ room = 0 /\ dest = "doc"
    /\ p = 0 /\ removable = 0
    /\ to = 0 /\ from = 0 /\ start = 0 /\ count = 0 /\ blanks = 0
    /\ before = <<>>

Next ==
    \/ wappend
    \/ wappendf
    \/ add_indent
    \/ wappendva
    \/ master_footer
    \/ pstring_chomp
    \/ Strip
    \/ Chop
    \/ pstring_compress
    \/ Loop
    \/ SkipBlank
    \/ StartRun
    \/ SkipRun
    \/ EndRun
    \/ SkipNewline
    \/ EndNewlines
    \/ Copy
    \/ Terminate
    \/ Ended

Spec == Init /\ [][Next]_vars

\* The code is sequential and nothing in it waits.
FairSpec == Spec /\ WF_vars(Next)

-----------------------------------------------------------------------------
\* The types; the buffer has size characters.
PStringTypeOK ==
    /\ pc \in {"write", "format", "chomp", "strip", "compress", "loop", "again", "run",
               "newlines", "copy", "terminate", "done", "died"}
    /\ dflt \in BOOLEAN
    /\ len \in Nat /\ size \in Nat
    /\ buf \in [0..(size - 1) -> Chars \cup {NUL}]
    /\ piece \in Seq(Chars) /\ converts \in BOOLEAN /\ room \in Nat /\ dest \in {"doc", "buffer"}
    /\ p \in Int /\ removable \in Nat
    /\ to \in Nat /\ from \in Nat /\ start \in Nat /\ count \in Nat /\ blanks \in Nat

(***************************************************************************)
(* wcsncat() finds its terminator: as long as text is appended, len is the *)
(* number of characters before the only terminator, whichever of the two   *)
(* conventions for len the appended strings follow.                        *)
(***************************************************************************)
LenIsText ==
    pc \in {"write", "format", "chomp", "strip"} /\ size > 0 =>
        /\ size = len + 1
        /\ \A i \in 0..len : buf[i] = NUL <=> i = len

\* pstring_compress() has counted no character as left out that it kept.
RoomForKept == from <= len - (blanks + count) /\ len < size

(***************************************************************************)
(* The loops of pstring_chomp() and pstring_compress() stay in the buffer, *)
(* though neither tests for its ends: a document has a letter to stop the  *)
(* first, and the first leaves nothing at the end that could carry the     *)
(* second past the terminator.  The buffer that pstring_compress() leaves  *)
(* has room for all that it kept.                                          *)
(***************************************************************************)
InBounds ==
    /\ pc = "strip" => p \in 0..(len - 1)
    /\ pc = "loop" => to <= len /\ len < size
    /\ pc \in {"again", "run", "newlines", "copy"} => to < len /\ len < size
    /\ pc = "copy" => from <= to
    /\ pc = "terminate" => RoomForKept

(***************************************************************************)
(* What is compressed and what is put out is a terminated string, and      *)
(* never an empty one, which wchar_to_char() would not convert.            *)
(***************************************************************************)
SomethingToShow ==
    pc \in {"compress", "done"} =>
        size > 0 /\ buf[0] # NUL /\ (\E i \in DOMAIN buf : buf[i] = NUL)

(***************************************************************************)
(* wappendva() gives up only on text that cannot be converted, or for      *)
(* which there is no memory.                                               *)
(***************************************************************************)
GivesUpLate == pc = "died" => ~converts \/ Len(piece) >= Memory

(***************************************************************************)
(* No loop runs for ever: a string is formatted or given up, and a         *)
(* document that has its footer is put out.                                *)
(***************************************************************************)
LoopsEnd ==
    /\ pc = "format" ~> pc \in {"write", "died"}
    /\ pc = "chomp" ~> pc = "done"

=============================================================================
