------------------------------ MODULE Parsing ------------------------------
(***************************************************************************)
(* Strings taken apart and put together: split_fields() of string-util.c,  *)
(* the arguments of PROCENV_EXEC in check_envvars(),                       *)
(* get_mount_opts_generic_bsd() and linux_kernel_version().                *)
(***************************************************************************)
EXTENDS Integers, Sequences, SequencesExt

\* The first position from p on that has the delimiter, or has not; or the one
\* after the end.
From(string, p, delimiter, has) ==
    LET hits == {i \in p..Len(string) : (string[i] = delimiter) = has}
    IN  IF hits = {} THEN Len(string) + 1 ELSE CHOOSE i \in hits : \A j \in hits : i <= j

\* Mutant: one delimiter is skipped even when repeated ones are ignored.
Start_one_skipped(string, delimiter, compress, p) ==
    IF ~compress \/ string[p] = delimiter THEN p + 1 ELSE p

\* Where the next field starts: repeated delimiters are skipped when they are
\* ignored, and a single character is when they are not.
Start(string, delimiter, compress, p) ==
    IF compress THEN From(string, p, delimiter, FALSE) ELSE p + 1

RECURSIVE FieldsFrom(_, _, _, _)

\* The iterations of split_fields() from position p on.
FieldsFrom(string, delimiter, compress, p) ==
    LET start == Start(string, delimiter, compress, p)
        end == From(string, start, delimiter, TRUE)
    IN  IF p > Len(string) \/ (compress /\ start > Len(string))
        THEN <<>>
        ELSE <<SubSeq(string, start, end - 1)>>
             \o FieldsFrom(string, delimiter, compress, end)

split_fields(string, delimiter, compress) == FieldsFrom(string, delimiter, compress, 1)

-----------------------------------------------------------------------------
\* The number of arguments of a command: one, and one more for every space.
ExecFields(string) == 1 + Len(SelectSeq(string, LAMBDA c : c = " "))

RECURSIVE Strsep(_)

\* The tokens that repeated calls of strsep() return; some are empty.
Strsep(string) ==
    LET space == From(string, 1, " ", TRUE)
    IN  IF space > Len(string)
        THEN <<string>>
        ELSE <<SubSeq(string, 1, space - 1)>> \o Strsep(SubSeq(string, space + 1, Len(string)))

\* exec_args: the slots allocated, one for the terminator, and the arguments.
exec_args(string) == [slots |-> ExecFields(string) + 1, args |-> Strsep(string)]

-----------------------------------------------------------------------------
\* Stands for "," among positions of options.
Comma == 0

\* An option is the length of its name and is known by its position in the
\* table; the flags are the positions of those that are set.

\* Mutant: no room for the separators.
MountTotal_no_commas(opts, flags) ==
    1 + FoldLeftDomain(LAMBDA n, i : n + IF i \in flags THEN opts[i] ELSE 0, 0, opts)

\* The first pass of get_mount_opts_generic_bsd(): the room to allocate.
MountTotal(opts, flags) ==
    LET chosen == SelectSeq([i \in DOMAIN opts |-> i], LAMBDA i : i \in flags)
        count == Len(chosen)
        len == FoldLeft(LAMBDA n, i : n + opts[i], 0, chosen)
    IN  IF count > 1 THEN len + (count - 1) + 1 ELSE len + 1

\* The second: the options, each but the last followed by a comma.
MountString(opts, flags) ==
    LET chosen == SelectSeq([i \in DOMAIN opts |-> i], LAMBDA i : i \in flags)
    IN  FoldLeft(LAMBDA s, i : [items |-> s.items \o IF s.count > 1 THEN <<i, Comma>> ELSE <<i>>,
                                used |-> s.used + opts[i] + IF s.count > 1 THEN 1 ELSE 0,
                                count |-> s.count - 1],
                 [items |-> <<>>, used |-> 0, count |-> Len(chosen)], chosen)

-----------------------------------------------------------------------------
\* A component that was not given.
Missing == -1

\* Two hex digits of the version number.
Byte(n) == IF n = Missing THEN 0 ELSE n % 256


Version(major, minor, revision) == Byte(major) * 65536 + Byte(minor) * 256 + Byte(revision)

\* A request ignores the revision when it ignores the minor.
linux_kernel_version(actual, wanted) ==
    Version(actual[1], actual[2], actual[3])
        >= Version(wanted[1], wanted[2], IF wanted[2] = Missing THEN Missing ELSE wanted[3])
=============================================================================
