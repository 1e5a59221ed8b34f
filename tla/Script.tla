------------------------------- MODULE Script -------------------------------
(***************************************************************************)
(* The language in which the show_* functions are written down: the calls  *)
(* a function makes to the document writer, in their order, with its       *)
(* conditions, loops, early exits and calls of other functions.  A script  *)
(* is a sequence of tokens that module Collectors runs from the front.     *)
(*                                                                         *)
(* What a function shows is left out.  Names and values do not matter to   *)
(* the writer's state, and neither does the length of a fixed list of      *)
(* entries, so Entries stands for any such list.                           *)
(***************************************************************************)
EXTENDS Sequences

Token(do, body) == <<[do |-> do, body |-> body]>>

Entry == Token("entry", <<>>)

SectionOpen == Token("section_open", <<>>)
SectionClose == Token("section_close", <<>>)

Section(body) == SectionOpen \o body \o SectionClose

Container(body) ==
    Token("container_open", <<>>) \o body \o Token("container_close", <<>>)

Object(body) ==
    Token("object_open", <<>>) \o body \o Token("object_close", <<>>)

\* A condition on the build or on the result of a system call.
Either(a, b) == Token("either", <<a, b>>)

Maybe(body) == Either(body, <<>>)

\* A loop over data of the kernel, the environment or a table.
Many(body) == Token("many", body)

\* A fixed list of one or more entries.
Entries == Entry \o Many(Entry)

\* A check that ends the process with die() or assert() if it fails.
MayDie == Token("maydie", <<>>)

\* A call of another show_* function, and one through the table ops of the
\* platform, which is skipped if the platform does not have the operation.
Call(f) == Token("call", f)
Op(f) == Token("op", f)

\* Calls made only if the platform has operation f.
IfOp(f, body) == Token("ifop", <<f, body>>)

=============================================================================
