------------------------------- MODULE Output -------------------------------
(***************************************************************************)
(* The document writer of procenv (output.c).  Every show_* function of    *)
(* the program produces its output only through the calls modelled here:   *)
(* section, container and object brackets, entries, and the header and     *)
(* footer of the whole document.  A call first moves the element state     *)
(* machine (last_element, current_element), which writes the separator and *)
(* the indent that belong between the two elements, and then writes the    *)
(* element itself.                                                         *)
(*                                                                         *)
(* The document is abstracted to what its reader knows after reading it:   *)
(* the brackets (JSON) or tags (XML) that are open and whether a value, a  *)
(* separator or an opening bracket was read last.  White space is          *)
(* represented by indent, names by a small set.                            *)
(***************************************************************************)
EXTENDS Integers, Sequences

CONSTANTS
    Names,          \* names of sections and containers
    HEAD,           \* the data-less head of crumb_list
    IndentAmount,   \* indent_amount
    MaxDepth        \* bound on the brackets open at one time

ASSUME HeadAssumption == HEAD \notin Names
ASSUME IndentAssumption == IndentAmount \in Nat
ASSUME DepthAssumption == MaxDepth \in Nat

VARIABLES
    output_format,
    last_element,
    current_element,
    indent,
    crumb_list,     \* <<>> before it is allocated, then HEAD and the crumbs
    doc,            \* what a reader of the document has seen so far
    status,         \* "fresh", "open", "closed" or "died"
    open            \* the caller's brackets: kind, name and visible level

Formats == {"TEXT", "CRUMB", "JSON", "XML"}

Members == {"ENTRY", "SECTION_OPEN", "CONTAINER_OPEN"}
Openers == {"SECTION_OPEN", "CONTAINER_OPEN", "OBJECT_OPEN"}
Closers == {"SECTION_CLOSE", "CONTAINER_CLOSE", "OBJECT_CLOSE"}
Elements == Members \cup Openers \cup Closers

-----------------------------------------------------------------------------
(***************************************************************************)
(* The three tables of the element state machine.  For an element b that   *)
(* follows element a they say whether b is written beside a, inside it     *)
(* (one indent deeper), outside it (one indent less) or on the same line.  *)
(* A pair in none of the relations is an assert_not_reached().             *)
(***************************************************************************)
TextBeside(a, b) == a \in {"ENTRY", "SECTION_CLOSE", "CONTAINER_CLOSE"} /\ b \in Members

TextInside(a, b) == a \in {"SECTION_OPEN", "CONTAINER_OPEN"} /\ b \in Members

TextOutside(a, b) ==
    /\ a \in {"ENTRY", "SECTION_CLOSE", "CONTAINER_CLOSE"}
    /\ b \in {"SECTION_CLOSE", "CONTAINER_CLOSE"}

TextQuiet(a, b) ==
    \/ a = "SECTION_OPEN" /\ b = "SECTION_CLOSE"
    \/ a = "CONTAINER_OPEN" /\ b = "CONTAINER_CLOSE"

\* Mutant: no comma between a closed section and the next member.
JsonBesideNoComma(a, b) ==
    \/ a = "ENTRY" /\ b \in Members
    \/ a = "CONTAINER_CLOSE" /\ b \in Members \cup {"OBJECT_OPEN"}
    \/ a = "OBJECT_CLOSE" /\ b \in {"OBJECT_OPEN", "SECTION_OPEN"}

JsonBeside(a, b) ==
    \/ a \in {"ENTRY", "SECTION_CLOSE"} /\ b \in Members
    \/ a = "CONTAINER_CLOSE" /\ b \in Members \cup {"OBJECT_OPEN"}
    \/ a = "OBJECT_CLOSE" /\ b \in {"OBJECT_OPEN", "SECTION_OPEN"}

JsonInside(a, b) ==
    \/ a \in {"SECTION_OPEN", "OBJECT_OPEN"} /\ b \in Members
    \/ a = "CONTAINER_OPEN" /\ b \in Members \cup {"OBJECT_OPEN"}

\* Mutant: a container that ends with an object has no row.
JsonOutsideNoRow(a, b) ==
    a \in {"ENTRY", "SECTION_CLOSE", "CONTAINER_CLOSE"} /\ b \in Closers

JsonOutside(a, b) ==
    \/ a \in {"ENTRY", "SECTION_CLOSE", "CONTAINER_CLOSE"} /\ b \in Closers
    \/ a = "OBJECT_CLOSE" /\ b \in {"CONTAINER_CLOSE", "SECTION_CLOSE"}

JsonQuiet(a, b) ==
    \/ a = "SECTION_OPEN" /\ b \in {"SECTION_CLOSE", "OBJECT_OPEN"}
    \/ a = "SECTION_CLOSE" /\ b = "OBJECT_OPEN"
    \/ a = "CONTAINER_OPEN" /\ b = "CONTAINER_CLOSE"
    \/ a = "OBJECT_OPEN" /\ b = "OBJECT_CLOSE"

\* The rows of format_xml_element() for objects are left out: change_element()
\* is never called with an object when the format is XML.
XmlBeside(a, b) ==
    \/ a \in {"ENTRY", "SECTION_CLOSE", "CONTAINER_CLOSE"} /\ b \in Members
    \/ a = "SECTION_OPEN" /\ b = "SECTION_CLOSE"
    \/ a = "CONTAINER_OPEN" /\ b = "CONTAINER_CLOSE"

XmlInside(a, b) == a \in {"SECTION_OPEN", "CONTAINER_OPEN"} /\ b \in Members

XmlOutside(a, b) ==
    /\ a \in {"ENTRY", "SECTION_CLOSE", "CONTAINER_CLOSE"}
    /\ b \in {"SECTION_CLOSE", "CONTAINER_CLOSE"}

First(a, b) == a = "NONE" /\ b \in Elements

Beside(f, a, b) ==
    \/ f = "TEXT" /\ TextBeside(a, b)
    \/ f = "JSON" /\ JsonBeside(a, b)
    \/ f = "XML" /\ XmlBeside(a, b)

Inside(f, a, b) ==
    \/ f = "TEXT" /\ TextInside(a, b)
    \/ f = "JSON" /\ JsonInside(a, b)
    \/ f = "XML" /\ XmlInside(a, b)

Outside(f, a, b) ==
    \/ f = "TEXT" /\ TextOutside(a, b)
    \/ f = "JSON" /\ JsonOutside(a, b)
    \/ f = "XML" /\ XmlOutside(a, b)

Quiet(f, a, b) ==
    \/ f = "TEXT" /\ TextQuiet(a, b)
    \/ f = "JSON" /\ JsonQuiet(a, b)

Reached(f, a, b) ==
    \/ f = "CRUMB"
    \/ First(a, b)
    \/ Beside(f, a, b)
    \/ Inside(f, a, b)
    \/ Outside(f, a, b)
    \/ Quiet(f, a, b)

\* Mutant: the indent is not raised inside an object.
ShiftFlatObject(f, a, b) ==
    IF Inside(f, a, b) /\ a # "OBJECT_OPEN" THEN IndentAmount
    ELSE IF Outside(f, a, b) THEN -IndentAmount ELSE 0

Shift(f, a, b) ==
    IF Inside(f, a, b) THEN IndentAmount
    ELSE IF Outside(f, a, b) THEN -IndentAmount ELSE 0

-----------------------------------------------------------------------------
(***************************************************************************)
(* The reader of a JSON or XML document.  It is not part of procenv: it is *)
(* what makes "well-formed" precise.  It is between two values of the same *)
(* bracket ("next"), just inside a bracket ("first"), after a comma        *)
(* ("comma"), before or after the whole document ("start", "done"), or it  *)
(* has rejected the document ("bad").                                      *)
(***************************************************************************)
Kinds == {"section", "container", "object", "root"}

Bracket(f, kind) ==
    IF f = "JSON" THEN (IF kind = "container" THEN "square" ELSE "brace") ELSE kind

Innermost(s) == s[Len(s)]

Butlast(s) == SubSeq(s, 1, Len(s) - 1)

\* A reader of JSON is ready for a named member inside {} and for an unnamed
\* value inside []; a reader of XML is ready for any element inside the root.
Ready(f, d, kind) ==
    \/ d.at = "start" /\ kind = "root"
    \/ /\ kind # "root"
       /\ Len(d.stack) > 0
       /\ d.at \in (IF f = "JSON" THEN {"first", "comma"} ELSE {"first", "next"})
       /\ f = "JSON" => Innermost(d.stack) = (IF kind = "object" THEN "square" ELSE "brace")

Rejected(d) == [d EXCEPT !.at = "bad"]

ReadOpen(f, d, kind) ==
    IF Ready(f, d, kind)
    THEN [stack |-> Append(d.stack, Bracket(f, kind)), at |-> "first"]
    ELSE Rejected(d)

ReadClose(f, d, kind) ==
    IF /\ d.at \in {"first", "next"}
       /\ Len(d.stack) > 0
       /\ Innermost(d.stack) = Bracket(f, kind)
    THEN [stack |-> Butlast(d.stack),
          at |-> IF Len(d.stack) = 1 THEN "done" ELSE "next"]
    ELSE Rejected(d)

ReadEntry(f, d) ==
    IF Ready(f, d, "entry") THEN [d EXCEPT !.at = "next"] ELSE Rejected(d)

ReadComma(d) ==
    IF d.at = "next" THEN [d EXCEPT !.at = "comma"] ELSE Rejected(d)

-----------------------------------------------------------------------------
(***************************************************************************)
(* The calls.                                                              *)
(***************************************************************************)
Structured == output_format \in {"JSON", "XML"}

change_element(new) ==
    /\ last_element' = current_element
    /\ current_element' = new
    /\ indent' = indent + Shift(output_format, current_element, new)

\* Neither assert_not_reached() nor the assertions of dec_indent() stop it.
Survives(new) ==
    /\ Reached(output_format, current_element, new)
    /\ indent + Shift(output_format, current_element, new) >= 0

\* The document with the separator that change_element(new) writes.
Separated(new) ==
    IF output_format = "JSON" /\ JsonBeside(current_element, new)
    THEN ReadComma(doc) ELSE doc

Opened(new, kind) ==
    IF Structured THEN ReadOpen(output_format, Separated(new), kind) ELSE doc

Closed(new, kind) ==
    IF Structured THEN ReadClose(output_format, Separated(new), kind) ELSE doc

\* Mutant: the crumb goes to the front of the list.
add_breadcrumb_front(list, name) ==
    IF list = <<>> THEN <<HEAD, name>> ELSE <<HEAD, name>> \o Tail(list)

add_breadcrumb(list, name) ==
    IF list = <<>> THEN <<HEAD, name>> ELSE Append(list, name)

remove_breadcrumb(list) == Butlast(list)

\* What a bracket adds to the nesting level that a reader of the document sees:
\* only JSON shows objects.
Weight(f, kind) == IF kind = "object" /\ f # "JSON" THEN 0 ELSE 1

Level == IF open = <<>> THEN 0 ELSE Innermost(open).level

Push(kind, name) ==
    open' = Append(open,
        [kind |-> kind, name |-> name, level |-> Level + Weight(output_format, kind)])

Pop == open' = Butlast(open)

named_open(new, kind, name) ==
    /\ change_element(new)
    /\ status' = IF Survives(new) THEN status ELSE "died"
    /\ doc' = Opened(new, kind)
    /\ crumb_list' = IF output_format = "CRUMB"
                     THEN add_breadcrumb(crumb_list, name) ELSE crumb_list
    /\ Push(kind, name)
    /\ UNCHANGED output_format

named_close(new, kind) ==
    /\ change_element(new)
    /\ status' = IF Survives(new) /\ (output_format = "CRUMB" => crumb_list # <<>>)
                 THEN status ELSE "died"
    /\ doc' = Closed(new, kind)
    /\ crumb_list' = IF output_format = "CRUMB"
                     THEN remove_breadcrumb(crumb_list) ELSE crumb_list
    /\ Pop
    /\ UNCHANGED output_format

section_open(name) == named_open("SECTION_OPEN", "section", name)

section_close == named_close("SECTION_CLOSE", "section")

container_open(name) == named_open("CONTAINER_OPEN", "container", name)

container_close == named_close("CONTAINER_CLOSE", "container")

\* Every caller passes retain = false; only JSON shows objects.
object_open ==
    /\ IF output_format = "JSON"
       THEN /\ change_element("OBJECT_OPEN")
            /\ status' = IF Survives("OBJECT_OPEN") THEN status ELSE "died"
            /\ doc' = Opened("OBJECT_OPEN", "object")
       ELSE UNCHANGED <<last_element, current_element, indent, status, doc>>
    /\ Push("object", HEAD)
    /\ UNCHANGED <<output_format, crumb_list>>

object_close ==
    /\ IF output_format = "JSON"
       THEN /\ change_element("OBJECT_CLOSE")
            /\ status' = IF Survives("OBJECT_CLOSE") THEN status ELSE "died"
            /\ doc' = Closed("OBJECT_CLOSE", "object")
       ELSE UNCHANGED <<last_element, current_element, indent, status, doc>>
    /\ Pop
    /\ UNCHANGED <<output_format, crumb_list>>

entry ==
    /\ change_element("ENTRY")
    /\ status' = IF Survives("ENTRY") /\ (output_format = "CRUMB" => crumb_list # <<>>)
                 THEN status ELSE "died"
    /\ doc' = IF Structured THEN ReadEntry(output_format, Separated("ENTRY")) ELSE doc
    /\ UNCHANGED <<output_format, crumb_list, open>>

\* Mutant: the root element of XML does not raise the indent.
master_header_no_indent ==
    /\ status' = IF output_format = "JSON" => Survives("OBJECT_OPEN") THEN "open" ELSE "died"
    /\ doc' = Opened("OBJECT_OPEN", "root")
    /\ \/ /\ output_format = "JSON"
          /\ change_element("OBJECT_OPEN")
       \/ /\ output_format = "XML"
          /\ UNCHANGED <<last_element, current_element, indent>>
       \/ /\ ~Structured
          /\ UNCHANGED <<last_element, current_element, indent>>
    /\ UNCHANGED <<output_format, crumb_list, open>>

master_header ==
    /\ status' = IF output_format = "JSON" => Survives("OBJECT_OPEN") THEN "open" ELSE "died"
    /\ doc' = Opened("OBJECT_OPEN", "root")
    /\ \/ /\ output_format = "JSON"
          /\ change_element("OBJECT_OPEN")
       \/ /\ output_format = "XML"
          /\ indent' = indent + IndentAmount
          /\ UNCHANGED <<last_element, current_element>>
       \/ /\ ~Structured
          /\ UNCHANGED <<last_element, current_element, indent>>
    /\ UNCHANGED <<output_format, crumb_list, open>>

master_footer ==
    /\ status' = IF /\ output_format = "JSON" => Survives("OBJECT_CLOSE")
                    /\ output_format = "XML" => indent >= IndentAmount
                 THEN "closed" ELSE "died"
    /\ doc' = Closed("OBJECT_CLOSE", "root")
    /\ \/ /\ output_format = "JSON"
          /\ change_element("OBJECT_CLOSE")
       \/ /\ output_format = "XML"
          /\ indent' = indent - IndentAmount
          /\ UNCHANGED <<last_element, current_element>>
       \/ /\ ~Structured
          /\ UNCHANGED <<last_element, current_element, indent>>
    /\ UNCHANGED <<output_format, crumb_list, open>>

-----------------------------------------------------------------------------
outputVars == <<output_format, last_element, current_element, indent,
                crumb_list, doc, status, open>>

\* The static initialisers of output.c; the format is settled by main() before
\* the first call.
OutputInit ==
    /\ output_format \in Formats
    /\ last_element = "NONE"
    /\ current_element = "NONE"
    /\ indent = 0
    /\ crumb_list = <<>>
    /\ doc = [stack |-> <<>>, at |-> "start"]
    /\ status = "fresh"
    /\ open = <<>>

OpenBracket == [kind : {"section", "container", "object"},
                name : Names \cup {HEAD}, level : Nat]

\* The types of the writer's variables; crumb_list is a list at all times.
OutputTypeOK ==
    /\ output_format \in Formats
    /\ last_element \in Elements \cup {"NONE"}
    /\ current_element \in Elements \cup {"NONE"}
    /\ indent \in Int
    /\ crumb_list \in Seq(Names \cup {HEAD})
    /\ doc \in [stack : Seq(Kinds \cup {"brace", "square"}),
               at : {"start", "first", "next", "comma", "done", "bad"}]
    /\ status \in {"fresh", "open", "closed", "died"}
    /\ open \in Seq(OpenBracket)

=============================================================================
