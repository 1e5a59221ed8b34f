------------------------------- MODULE Caller -------------------------------
(***************************************************************************)
(* Any caller of the document writer that nests its calls the way a JSON   *)
(* document needs them: named elements inside a section, an object or the  *)
(* document itself, objects inside a container only, entries never outside *)
(* a section or an object.  The module says what output.c promises such a  *)
(* caller; Collectors checks that the show_* functions are such callers.   *)
(***************************************************************************)
EXTENDS Output

Within == IF open = <<>> THEN "root" ELSE Innermost(open).kind

MayNest == status = "open" /\ Len(open) < MaxDepth

OpenSection ==
    /\ MayNest
    /\ Within # "container"
    /\ \E name \in Names : section_open(name)

CloseSection ==
    /\ status = "open"
    /\ Within = "section"
    /\ section_close

OpenContainer ==
    /\ MayNest
    /\ Within # "container"
    /\ \E name \in Names : container_open(name)

CloseContainer ==
    /\ status = "open"
    /\ Within = "container"
    /\ container_close

OpenObject ==
    /\ MayNest
    /\ Within = "container"
    /\ object_open

CloseObject ==
    /\ status = "open"
    /\ Within = "object"
    /\ object_close

WriteEntry ==
    /\ status = "open"
    /\ Within \in {"section", "object"}
    /\ entry

Begin ==
    /\ status = "fresh"
    /\ master_header

Finish ==
    /\ status = "open"
    /\ Within = "root"
    /\ master_footer

Finished == status = "closed" /\ UNCHANGED outputVars

Next ==
    \/ Begin
    \/ OpenSection
    \/ CloseSection
    \/ OpenContainer
    \/ CloseContainer
    \/ OpenObject
    \/ CloseObject
    \/ WriteEntry
    \/ Finish
    \/ Finished

Spec == OutputInit /\ [][Next]_outputVars

-----------------------------------------------------------------------------
\* Number of brackets, the document's own included, around the next element
\* of the document, as its reader sees them.
Depth == Level + (IF Structured THEN 1 ELSE 0)

\* The bracket that was opened last has no element in it yet.
JustOpened == current_element \in Openers

(***************************************************************************)
(* No caller that nests its calls reaches an assert_not_reached() of the   *)
(* three format_*_element() tables, makes dec_indent() go below zero, or   *)
(* finds crumb_list missing in entry() and remove_breadcrumb().            *)
(***************************************************************************)
NeverDies == status # "died"

(***************************************************************************)
(* Whatever is written is a prefix of a well-formed JSON or XML document,  *)
(* and it is a whole one once master_footer() has run: commas stand        *)
(* exactly between the elements of a bracket, brackets match, names occur  *)
(* where JSON wants them.                                                  *)
(***************************************************************************)
WellFormed ==
    /\ doc.at # "bad"
    /\ Structured /\ status = "closed" => doc = [stack |-> <<>>, at |-> "done"]

(***************************************************************************)
(* The indent that add_indent() writes before an element is indent_amount  *)
(* for every bracket around it.  Right after an opening bracket the indent *)
(* has not been raised yet; at the end nothing is left of it.              *)
(***************************************************************************)
IndentFollowsNesting ==
    /\ status = "open" /\ output_format # "CRUMB" =>
         indent = IndentAmount * (IF JustOpened THEN Depth - 1 ELSE Depth)
    /\ status = "closed" => indent = 0

(***************************************************************************)
(* In the crumb format every value is preceded by all the headings it is   *)
(* under: crumb_list holds the names of the open sections and containers,  *)
(* outermost first.                                                        *)
(***************************************************************************)
CrumbsFollowNesting ==
    output_format = "CRUMB" /\ status = "open" =>
        /\ Len(crumb_list) = Level + (IF crumb_list = <<>> THEN 0 ELSE 1)
        /\ \A i \in 1..Len(open) :
              open[i].kind # "object" => crumb_list[open[i].level + 1] = open[i].name

-----------------------------------------------------------------------------
\* Objects are exactly the brackets directly inside a container, and every
\* bracket has its level.
Nested ==
    /\ \A i \in 1..Len(open) :
          /\ (open[i].kind = "object") <=> (i > 1 /\ open[i - 1].kind = "container")
          /\ open[i].level = (IF i = 1 THEN 0 ELSE open[i - 1].level) + Weight(output_format, open[i].kind)
    /\ \A i, j \in 1..Len(open) :
          i < j => open[i].level + Weight(output_format, open[j].kind) <= open[j].level

\* Which brackets current_element can be in.
Placed ==
    /\ current_element = "NONE" => open = <<>> /\ output_format # "JSON"
    /\ current_element = "ENTRY" /\ output_format = "JSON" => Within \in {"section", "object"}
    /\ current_element = "SECTION_OPEN" => Within = "section"
    /\ current_element = "CONTAINER_OPEN" =>
          \/ Within = "container"
          \/ Within = "object" /\ output_format # "JSON"
    /\ current_element = "OBJECT_OPEN" =>
          output_format = "JSON" /\ Within \in {"object", "root"}
    /\ current_element = "OBJECT_CLOSE" => output_format = "JSON" /\ Within = "container"
    /\ current_element \in {"SECTION_CLOSE", "CONTAINER_CLOSE"} /\ output_format = "JSON" =>
          Within # "container"

\* The brackets the reader has open are those of the caller.
Mirrored ==
    /\ output_format = "JSON" =>
          /\ doc.at = (IF JustOpened THEN "first" ELSE "next")
          /\ Len(doc.stack) = Len(open) + 1
          /\ doc.stack[1] = "brace"
          /\ \A i \in 1..Len(open) : doc.stack[i + 1] = Bracket(output_format, open[i].kind)
    /\ output_format = "XML" =>
          /\ doc.at \in {"first", "next"}
          /\ Len(doc.stack) = Level + 1
          /\ doc.stack[1] = "root"
          /\ \A i \in 1..Len(open) :
                open[i].kind # "object" => doc.stack[open[i].level + 1] = open[i].kind

(***************************************************************************)
(* The inductive invariant behind the four properties above: the state     *)
(* that the calls of output.c leave behind is a function of the brackets   *)
(* that the caller has open.                                               *)
(***************************************************************************)
IInv ==
    /\ OutputTypeOK
    /\ NeverDies
    /\ Nested
    /\ IndentFollowsNesting
    /\ CrumbsFollowNesting
    /\ ~Structured => doc = [stack |-> <<>>, at |-> "start"]
    /\ output_format = "CRUMB" => indent = 0
    /\ status \in {"fresh", "closed"} => open = <<>>
    /\ status = "fresh" =>
          /\ current_element = "NONE"
          /\ indent = 0
          /\ crumb_list = <<>>
          /\ doc = [stack |-> <<>>, at |-> "start"]
    /\ status = "open" => Placed /\ Mirrored
    /\ status = "closed" /\ Structured => doc = [stack |-> <<>>, at |-> "done"]

=============================================================================
