----------------------------- MODULE MCPString -----------------------------
(***************************************************************************)
(* The buffer implements the document: an append is one step of it, and so *)
(* is each of the two loops that tidy it up.                               *)
(***************************************************************************)
EXTENDS PString, FiniteSets

\* While pstring_compress() works in place the text is still the one before.
Text ==
    IF pc \in {"loop", "again", "run", "newlines", "copy", "terminate"} THEN before ELSE String

Stage ==
    CASE pc \in {"write", "format", "died"} -> "open"
      [] pc \in {"chomp", "strip"} -> "closed"
      [] pc = "done" -> "done"
      [] OTHER -> "chomped"

Abstract == INSTANCE Document WITH
    Letters <- Letters, NL <- NL, Indent <- wide_indent_char, text <- Text, stage <- Stage

(***************************************************************************)
(* The document reads as the calls wrote it, in their order and to the     *)
(* last character; pstring_chomp() and pstring_compress() leave what       *)
(* Document says, the whole text but blank lines.                          *)
(***************************************************************************)
ImplementsDocument == Abstract!Spec

\* The letters of t that a newline separates from the next letter.
Breaks(t) ==
    {i \in DOMAIN t : /\ t[i] \in Letters
                      /\ \E j \in DOMAIN t : /\ i < j
                                             /\ t[j] \in Letters
                                             /\ \E k \in i..j : t[k] = NL
                                             /\ \A k \in (i + 1)..(j - 1) : t[k] \notin Letters}

(***************************************************************************)
(* pstring_compress() removes only lines composed entirely of whitespace:  *)
(* lines with text on them stay lines of their own.                        *)
(***************************************************************************)
LinesKept ==
    pc = "done" /\ before # <<>> => Cardinality(Breaks(String)) = Cardinality(Breaks(before))

=============================================================================
