----------------------------- MODULE PureCalls -----------------------------
(***************************************************************************)
(* One call of a function of Encode or Parsing with any small input, and   *)
(* what its result must be.                                                *)
(***************************************************************************)
EXTENDS Encode, Parsing, FiniteSets

CONSTANTS
    MaxText,        \* characters of a text to encode
    MaxString       \* characters of a string to split

VARIABLE call       \* the function and its arguments

None == [fn |-> "none"]
Strings == BoundedSeq({" ", "a"}, MaxString)

Minors == {Missing, 0, 1, 255}
Revisions == {Missing, 0, 1, 255, 256, 302}
Releases == {<<major, minor, revision>> \in {1, 2, 255} \X Minors \X Revisions :
                minor = Missing => revision = Missing}

CallEncode ==
    /\ call = None
    /\ \E format \in {"text", "crumb", "xml", "json"}, text \in BoundedSeq(Plain, MaxText) :
           call' = [fn |-> "encode_string", format |-> format, text |-> text]

CallSplit ==
    /\ call = None
    /\ \E string \in Strings, compress \in BOOLEAN :
           call' = [fn |-> "split_fields", string |-> string, compress |-> compress]

\* check_envvars() ignores an empty variable.
CallExec ==
    /\ call = None
    /\ \E string \in Strings \ {<<>>} : call' = [fn |-> "exec_args", string |-> string]

CallMount ==
    /\ call = None
    /\ \E opts \in [1..4 -> {1, 3}] : \E flags \in SUBSET DOMAIN opts :
           call' = [fn |-> "get_mount_opts", opts |-> opts, flags |-> flags]

CallVersion ==
    /\ call = None
    /\ \E actual \in Releases, wanted \in {1, 2} \X {Missing, 0, 1} \X {Missing, 0, 1} :
           call' = [fn |-> "linux_kernel_version", actual |-> actual, wanted |-> wanted]

CallFunction == CallEncode \/ CallSplit \/ CallExec \/ CallMount \/ CallVersion

-----------------------------------------------------------------------------
(***************************************************************************)
(* What a reader of the document makes of the value that encode_string()   *)
(* was given.  In XML it is the value, unless that has a control character *)
(* which no XML document may have: then a reader refuses the document, as  *)
(* the comment on xml_format expects.  In JSON it is the value, except     *)
(* that a backslash is read as two, which the table calls crazy but        *)
(* necessary, and that a character beyond U+FFFF is read as another and a  *)
(* digit.  Otherwise no character ends the value or begins something else. *)
(***************************************************************************)
ReadBack ==
    call.fn = "encode_string" =>
        LET encoded == encode_string(call.format, call.text).buf
        IN  CASE encoded = Failed -> TRUE
              [] call.format = "xml" ->
                    Read("xml", encoded) =
                        IF Contains(call.text, "ctl") THEN Misread ELSE call.text
              [] call.format = "json" -> Read("json", encoded) = AsJson(call.text)
              [] OTHER -> encoded = call.text

\* How much longer than measured the codes of a text are.
Excess(format, text) ==
    FoldLeft(LAMBDA n, c : n + IF Printable(c) THEN 0 ELSE wcslen(Code(format, c)) - CodeLength,
             0, text)

(***************************************************************************)
(* The room that output_translate() and encode_string() compute in a first *)
(* pass is enough for what they write in the second, terminator included,  *)
(* but for the digits of codes beyond those that were measured.            *)
(***************************************************************************)
RoomForEncoded ==
    call.fn = "encode_string" /\ call.format \in {"xml", "json"} =>
        LET encoded == encode_string(call.format, call.text)
        IN  encoded.buf # Failed =>
                wcslen(encoded.buf) + 1 <= encoded.room + Excess(call.format, call.text)

(***************************************************************************)
(* The comment in encode_string() says that the size computed has "the     *)
(* number of bytes required to encode" the non-printable characters: every *)
(* code that swprintf() makes has room, and so have all of them together.  *)
(***************************************************************************)
CodesFit ==
    call.fn = "encode_string" =>
        LET encoded == encode_string(call.format, call.text)
        IN  encoded.buf # Failed /\ wcslen(encoded.buf) + 1 <= encoded.room

\* The maximal runs of characters other than the delimiter, from first to last.
Runs(string) ==
    {r \in (DOMAIN string) \X (DOMAIN string) :
        /\ r[1] <= r[2]
        /\ \A i \in r[1]..r[2] : string[i] # " "
        /\ r[1] = 1 \/ string[r[1] - 1] = " "
        /\ r[2] = Len(string) \/ string[r[2] + 1] = " "}

\* Every piece with a space before it.
Spaced(pieces) == FoldLeft(LAMBDA s, piece : s \o <<" ">> \o piece, <<>>, pieces)

NoSpace(pieces) == \A i \in DOMAIN pieces : \A j \in DOMAIN pieces[i] : pieces[i][j] # " "

(***************************************************************************)
(* split_fields() finds the fields of its argument: ignoring repeated      *)
(* delimiters, the maximal runs of other characters, in their order, and   *)
(* none that is empty; otherwise, in a string that begins with the         *)
(* delimiter, what follows each delimiter.                                 *)
(***************************************************************************)
FieldsFound ==
    call.fn = "split_fields" =>
        LET fields == split_fields(call.string, " ", call.compress)
        IN  /\ call.compress =>
                   /\ Len(fields) = Cardinality(Runs(call.string))
                   /\ \A r \in Runs(call.string) :
                          fields[Cardinality({q \in Runs(call.string) : q[1] <= r[1]})]
                              = SubSeq(call.string, r[1], r[2])
            /\ ~call.compress /\ call.string # <<>> /\ Head(call.string) = " " =>
                   NoSpace(fields) /\ Spaced(fields) = call.string

(***************************************************************************)
(* check_envvars() counts the arguments of PROCENV_EXEC as strsep() will   *)
(* split them: each has a slot, and one slot is left as the terminator.    *)
(***************************************************************************)
SlotForEachArg ==
    call.fn = "exec_args" =>
        LET exec == exec_args(call.string)
        IN  /\ exec.slots = Len(exec.args) + 1
            /\ NoSpace(exec.args) /\ Spaced(exec.args) = <<" ">> \o call.string

(***************************************************************************)
(* get_mount_opts_generic_bsd() has exactly the room for the options set,  *)
(* in the order of its table, with a comma between any two.                *)
(***************************************************************************)
OptionsFit ==
    call.fn = "get_mount_opts" =>
        LET made == MountString(call.opts, call.flags)
            names == SelectSeq(made.items, LAMBDA i : i # Comma)
        IN  /\ made.used + 1 = MountTotal(call.opts, call.flags)
            /\ ToSet(names) = call.flags /\ \A i, j \in DOMAIN names : i < j => names[i] < names[j]
            /\ \A i \in DOMAIN made.items : made.items[i] = Comma <=> i % 2 = 0
            /\ made.items # <<>> => Last(made.items) # Comma

(***************************************************************************)
(* What is measured in one pass is enough for what a second pass writes:   *)
(* by output_translate() and encode_string(), up to the length of a code,  *)
(* for the arguments of PROCENV_EXEC, and by get_mount_opts_generic_bsd(). *)
(***************************************************************************)
RoomMeasured == RoomForEncoded /\ SlotForEachArg /\ OptionsFit

Given(n) == IF n = Missing THEN 0 ELSE n

\* Component by component, what is missing counting as 0.
AtLeast(actual, wanted) ==
    \/ actual[1] > wanted[1]
    \/ /\ actual[1] = wanted[1]
       /\ \/ wanted[2] = Missing
          \/ Given(actual[2]) > wanted[2]
          \/ Given(actual[2]) = wanted[2] /\ Given(actual[3]) >= Given(wanted[3])

\* A revision as the packing leaves it: modulo 2^8.
InBytes(actual) == [actual EXCEPT ![3] = IF @ = Missing THEN @ ELSE @ % 256]

=============================================================================
