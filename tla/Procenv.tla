------------------------------ MODULE Procenv ------------------------------
(***************************************************************************)
(* One run of procenv, from main() to its exit or to the program that it   *)
(* re-executes: environment variables, options in the order in which they  *)
(* are given, the document, its delivery, cleanup() and every die() on the *)
(* way.  The document itself is Output's.  A show_* function is a section  *)
(* with an entry: Collectors has what they really write.  The environment  *)
(* and the command line are chosen as they are read.                       *)
(***************************************************************************)
EXTENDS Output, FiniteSets

CONSTANTS
    MaxOptions,     \* bound on the options of the command line
    OldBlocks       \* blocks that the output file holds before the run

ASSUME OptionsAssumption == MaxOptions \in Nat
ASSUME FileAssumption == OldBlocks \in Nat

VARIABLES
    pc,
    hasTty,         \* the controlling terminal can be opened
    output, output_file, output_file_append,
    sign,           \* of indent_amount: -1, 0 or 1
    reexec,
    exec_args,      \* where they come from: "NULL", "environment", "arguments"
    done, options,
    headers,        \* calls of master_header()
    option,         \* the last display option: "plain", "misc", "tty", "help" or "unknown"
    late,           \* --exec was given after a display option
    rest,           \* --exec was given and so were arguments for it
    fds, tty_fd, output_fd,
    memory,         \* "live", "freed" or "misused": doc and crumb_list
    file, offset,   \* the output file and the offset of output_fd in it
    delivered,      \* where the document went, "nowhere" until it did
    arrived,        \* how much of it got there: "none", "buffered", "part", "whole" or "lost"
    failed          \* "no", "die", "output" or "exec"

request == <<output, output_file, output_file_append, sign>>
command == <<reexec, exec_args, late, rest>>
progress == <<done, options, headers, option>>
descriptors == <<fds, tty_fd, output_fd>>
written == <<file, offset, delivered, arrived>>
vars == <<pc, hasTty, request, command, progress, descriptors, memory, written, failed,
          outputVars>>

Outputs == {"FILE", "STDERR", "STDOUT", "SYSLOG", "TERM"}

Streams == {0, 1, 2}

Lowest(set) == CHOOSE n \in set : \A m \in set : n <= m

\* open() returns the lowest descriptor that is free.
Free == Lowest((0..9) \ fds)

\* Mutant: die() does not clean up.
die_at_once ==
    /\ output' = "STDERR"
    /\ failed' = IF failed = "exec" THEN "exec" ELSE "die"
    /\ pc' = "exited"

\* die() redirects the output to stderr, where its message goes; cleanup() is next.
die ==
    /\ output' = "STDERR"
    /\ failed' = IF failed = "exec" THEN "exec" ELSE "die"
    /\ pc' = "cleanup"

-----------------------------------------------------------------------------
\* PROCENV_FILE is read after PROCENV_OUTPUT and stands for output=file as well.
check_envvars ==
    /\ pc = "envvars"
    /\ \E o \in Outputs \cup {"unset", "invalid"}, f \in Formats \cup {"unset", "invalid"},
          named \in BOOLEAN, append \in BOOLEAN, n \in {-1, 0, 1}, exec \in BOOLEAN :
          IF "invalid" \in {o, f}
          THEN /\ die
               /\ output_file' = (o # "invalid" /\ named)
               /\ output_file_append' = (o # "invalid" /\ append)
               /\ UNCHANGED <<sign, reexec, exec_args, output_format>>
          ELSE /\ output' = IF named THEN "FILE" ELSE IF o = "unset" THEN output ELSE o
               /\ output_file' = named
               /\ output_file_append' = append
               /\ output_format' = IF f = "unset" THEN output_format ELSE f
               /\ sign' = n
               /\ reexec' = exec
               /\ exec_args' = IF exec THEN "environment" ELSE exec_args
               /\ pc' = "init"
               /\ UNCHANGED failed
    /\ UNCHANGED <<hasTty, late, rest, progress, descriptors, memory, written, last_element,
                   current_element, indent, crumb_list, doc, status, open>>

\* The controlling terminal, or standard input when there is none.
OpenTerminal ==
    /\ tty_fd' = IF hasTty THEN Free ELSE 0
    /\ fds' = IF hasTty THEN fds \cup {Free} ELSE fds
    /\ UNCHANGED output_fd

\* A wrong indent character ends it before the terminal is opened, an unknown
\* user afterwards; get_misc() asserts that there is a working directory.
init ==
    /\ pc = "init"
    /\ \/ die /\ UNCHANGED descriptors
       \/ die /\ OpenTerminal
       \/ OpenTerminal /\ pc' = "aborted" /\ UNCHANGED <<output, failed>>
       \/ OpenTerminal /\ pc' = "options" /\ UNCHANGED <<output, failed>>
    /\ UNCHANGED <<hasTty, output_file, output_file_append, sign, command, progress, memory,
                   written, outputVars>>

-----------------------------------------------------------------------------
(***************************************************************************)
(* Options.  A non-display option is an error once there was a display     *)
(* option, --exec excepted; each of them resets the indent.                *)
(***************************************************************************)
NextOption ==
    /\ pc = "options"
    /\ options < MaxOptions
    /\ options' = options + 1

\* Mutant: non-display options are accepted everywhere.
TooLate_never == FALSE

TooLate == done

\* With an indent_amount of zero there is nothing to reset, and dec_indent()
\* takes nothing away.
reset_indent ==
    /\ indent' = IF sign = 0 THEN indent ELSE 0
    /\ UNCHANGED <<last_element, current_element, crumb_list, doc, status, open>>

SetOption ==
    /\ NextOption
    /\ IF TooLate
       THEN /\ die
            /\ UNCHANGED <<output_file, output_file_append, sign, outputVars>>
       ELSE /\ \/ \E o \in Outputs :
                     /\ output' = o
                     /\ UNCHANGED <<output_file, output_file_append, sign, output_format>>
               \/ /\ output' = "FILE"
                  /\ output_file' = TRUE
                  /\ UNCHANGED <<output_file_append, sign, output_format>>
               \/ /\ output_file_append' = TRUE
                  /\ UNCHANGED <<output, output_file, sign, output_format>>
               \/ \E f \in Formats :
                     /\ output_format' = f
                     /\ UNCHANGED request
               \/ /\ sign' = 1
                  /\ UNCHANGED <<output, output_file, output_file_append, output_format>>
            /\ reset_indent
            /\ UNCHANGED <<pc, failed>>
    /\ UNCHANGED <<hasTty, command, done, headers, option, descriptors, memory, written>>

\* An unknown output or format, a bad indent character, an indent below one,
\* which is stored before it is refused.
BadOption ==
    /\ NextOption
    /\ die
    /\ sign' \in {sign, 0, -1}
    /\ UNCHANGED <<hasTty, output_file, output_file_append, command, done, headers, option,
                   descriptors, memory, written, outputVars>>

ExecOption ==
    /\ NextOption
    /\ reexec' = TRUE
    /\ late' = done
    /\ rest' \in BOOLEAN
    /\ reset_indent
    /\ UNCHANGED <<pc, hasTty, request, exec_args, done, headers, option, descriptors, memory,
                   written, failed, output_format>>

\* Where the program goes on after a call that moved the element state machine
\* to new: the assertion of dec_indent() aborts, assert_not_reached() dies.
Continue(new, then) ==
    IF status' # "died"
    THEN pc' = then /\ UNCHANGED <<output, failed>>
    ELSE IF output_format = "XML" \/ Reached(output_format, current_element, new)
    THEN pc' = "aborted" /\ UNCHANGED <<output, failed>>
    ELSE die

\* master_header(), in main() and in dump().
Header(then) ==
    /\ headers' = headers + 1
    /\ IF sign < 0
       THEN pc' = "aborted" /\ UNCHANGED <<output, failed, outputVars>>
       ELSE master_header /\ Continue("OBJECT_OPEN", then)

\* An option that getopt_long() does not know counts as a display option.
DisplayOption ==
    /\ NextOption
    /\ done' = TRUE
    /\ option' \in {"plain", "misc", "tty", "help", "unknown"}
    /\ Header(IF option' \in {"help", "unknown"} THEN option' ELSE "section")
    /\ UNCHANGED <<hasTty, output_file, output_file_append, sign, command, descriptors, memory,
                   written>>

\* Mutant: the footer is left to dump().
EndOfOptions_no_footer ==
    /\ pc = "options"
    /\ pc' = "prepare"
    /\ UNCHANGED <<hasTty, request, command, progress, descriptors, memory, written, failed,
                   outputVars>>

EndOfOptions ==
    /\ pc = "options"
    /\ pc' = IF done THEN "footer" ELSE "prepare"
    /\ UNCHANGED <<hasTty, request, command, progress, descriptors, memory, written, failed,
                   outputVars>>

-----------------------------------------------------------------------------
(***************************************************************************)
(* The show_* functions.  --misc asks for the user's details again, which  *)
(* opens the terminal again; show_tty_attrs(), which dump() calls as well, *)
(* makes the first of the descriptors that is a terminal the terminal.     *)
(***************************************************************************)
Section ==
    /\ pc = "section"
    /\ \E name \in Names : section_open(name)
    /\ IF option = "misc" THEN OpenTerminal ELSE UNCHANGED descriptors
    /\ Continue("SECTION_OPEN", "entry")
    /\ UNCHANGED <<hasTty, output_file, output_file_append, sign, command, progress, memory,
                   written>>

Entry ==
    /\ pc = "entry"
    /\ entry
    /\ IF ~hasTty /\ (option = "tty" \/ ~done) THEN tty_fd' \in Streams ELSE UNCHANGED tty_fd
    /\ Continue("ENTRY", "end")
    /\ UNCHANGED <<hasTty, output_file, output_file_append, sign, command, progress, fds,
                   output_fd, memory, written>>

EndSection ==
    /\ pc = "end"
    /\ section_close
    /\ Continue("SECTION_CLOSE", IF done THEN "options" ELSE "footer")
    /\ UNCHANGED <<hasTty, output_file, output_file_append, sign, command, progress,
                   descriptors, memory, written>>

OptionDies ==
    /\ pc \in {"section", "entry", "end", "unknown"}
    /\ die
    /\ UNCHANGED <<hasTty, output_file, output_file_append, sign, command, progress,
                   descriptors, memory, written, outputVars>>

\* A show_* function asserts what the system may deny: a working directory
\* (get_misc(), get_path()), a value for a variable (show_env()), a path
\* (show_stat()).
OptionAborts ==
    /\ pc \in {"section", "entry", "end"}
    /\ pc' = "aborted"
    /\ UNCHANGED <<hasTty, request, command, progress, descriptors, memory, written, failed,
                   outputVars>>

Footer ==
    /\ pc = "footer"
    /\ master_footer
    /\ Continue("OBJECT_CLOSE", IF done THEN "prepare" ELSE "emit")
    /\ UNCHANGED <<hasTty, output_file, output_file_append, sign, command, progress,
                   descriptors, memory, written>>

Prepare ==
    /\ pc = "prepare"
    /\ IF reexec /\ exec_args = "NULL" /\ ~rest
       THEN die /\ UNCHANGED exec_args
       ELSE /\ exec_args' = IF reexec /\ exec_args = "NULL" THEN "arguments" ELSE exec_args
            /\ pc' = IF done THEN "emit" ELSE "dump"
            /\ UNCHANGED <<output, failed>>
    /\ UNCHANGED <<hasTty, output_file, output_file_append, sign, reexec, late, rest, progress,
                   descriptors, memory, written, outputVars>>

dump ==
    /\ pc = "dump"
    /\ Header("section")
    /\ UNCHANGED <<hasTty, output_file, output_file_append, sign, command, done, options,
                   option, descriptors, memory, written>>

-----------------------------------------------------------------------------
(***************************************************************************)
(* Delivery.  _show_output() opens the output file when it first needs it  *)
(* and never truncates it.  An error ends the program without cleanup(),   *)
(* but a write() that wrote a part is no error, and what fputs() leaves in *)
(* the buffer of stdout is written when the program exits.                 *)
(***************************************************************************)
Overwrite(blocks, at, block) ==
    IF at < Len(blocks) THEN [blocks EXCEPT ![at + 1] = block] ELSE Append(blocks, block)

\* Mutant: the file is not opened for appending.
WriteFile_overwrites(block) ==
    /\ output_fd' = IF output_fd = -1 THEN Free ELSE output_fd
    /\ fds' = fds \cup {output_fd'}
    /\ file' = Overwrite(file, offset, block)
    /\ offset' = offset + 1
    /\ UNCHANGED tty_fd

WriteFile(block) ==
    /\ output_fd' = IF output_fd = -1 THEN Free ELSE output_fd
    /\ fds' = fds \cup {output_fd'}
    /\ file' = IF output_file_append THEN Append(file, block) ELSE Overwrite(file, offset, block)
    /\ offset' = offset + 1
    /\ UNCHANGED tty_fd

\* How much of a text arrives with the call that puts it out.
Arrivals ==
    CASE output \in {"FILE", "TERM"} -> {"part", "whole"}
      [] output = "STDOUT" -> {"buffered", "whole"}
      [] OTHER -> {"whole"}

_show_output(block, then) ==
    IF output = "FILE" /\ ~output_file
    THEN pc' = "aborted" /\ UNCHANGED <<descriptors, file, offset, arrived, failed>>
    ELSE \/ /\ pc' = then
            /\ arrived' \in Arrivals
            /\ IF output = "FILE" THEN WriteFile(block) ELSE UNCHANGED <<descriptors, file, offset>>
            /\ UNCHANGED failed
         \/ /\ output # "SYSLOG"
            /\ pc' = "exited"
            /\ arrived' = "lost"
            /\ failed' = "output"
            /\ UNCHANGED <<descriptors, file, offset>>

\* The help text does not become part of the document.
usage ==
    /\ pc = "help"
    /\ sign' = 0
    /\ _show_output("help", "options")
    /\ UNCHANGED <<hasTty, output, output_file, output_file_append, command, progress, memory,
                   delivered, outputVars>>

Emit ==
    /\ pc = "emit"
    /\ _show_output("doc", "cleanup")
    /\ delivered' = IF pc' = "cleanup" THEN output ELSE "nowhere"
    /\ UNCHANGED <<hasTty, request, command, progress, memory, outputVars>>

(***************************************************************************)
(* cleanup() closes the terminal and the output file and releases doc and  *)
(* crumb_list, which keep their values.  It ends die() and main().         *)
(***************************************************************************)
\* What is left in the buffer of stdout: exit() writes it if it can, and no one
\* looks whether it could; execvp() and abort() forget it.
Flushed ==
    IF arrived # "buffered" THEN {arrived}
    ELSE CASE pc' = "exited" -> {"whole", "lost"}
           [] pc' \in {"executed", "aborted"} -> {"lost"}
           [] OTHER -> {"buffered"}

AfterCleanup == IF reexec /\ failed = "no" THEN "exec" ELSE "exited"

\* Mutant: the terminal stays open.
cleanup_keeps_terminal ==
    /\ pc = "cleanup"
    /\ IF sign < 0
       THEN pc' = "aborted" /\ UNCHANGED <<fds, memory>>
       ELSE /\ fds' = fds \ {output_fd}
            /\ IF memory = "live"
               THEN memory' = "freed" /\ pc' = AfterCleanup
               ELSE memory' = "misused" /\ pc' \in {"exited", "aborted"}
    /\ arrived' \in Flushed
    /\ UNCHANGED <<hasTty, request, command, progress, tty_fd, output_fd, file, offset,
                   delivered, failed, outputVars>>

cleanup ==
    /\ pc = "cleanup"
    /\ IF sign < 0
       THEN pc' = "aborted" /\ UNCHANGED <<fds, memory>>
       ELSE /\ fds' = fds \ {tty_fd, output_fd}
            /\ IF memory = "live"
               THEN memory' = "freed" /\ pc' = AfterCleanup
               ELSE memory' = "misused" /\ pc' \in {"exited", "aborted"}
    /\ arrived' \in Flushed
    /\ UNCHANGED <<hasTty, request, command, progress, tty_fd, output_fd, file, offset,
                   delivered, failed, outputVars>>

\* execvp() does not return, or die() reports that it did.
Exec ==
    /\ pc = "exec"
    /\ \/ pc' = "executed" /\ UNCHANGED <<output, failed>>
       \/ pc' = "cleanup" /\ output' = "STDERR" /\ failed' = "exec"
    /\ arrived' \in Flushed
    /\ UNCHANGED <<hasTty, output_file, output_file_append, sign, command, progress,
                   descriptors, memory, file, offset, delivered, outputVars>>

Ended == pc \in {"exited", "aborted", "executed"} /\ UNCHANGED vars

Init ==
    /\ OutputInit
    /\ output_format = "TEXT"
    /\ pc = "envvars"
    /\ hasTty \in BOOLEAN
    /\ output = "STDOUT" /\ output_file = FALSE /\ output_file_append = FALSE
    /\ sign = 1
    /\ reexec = FALSE /\ exec_args = "NULL" /\ late = FALSE /\ rest = FALSE
    /\ done = FALSE /\ options = 0 /\ headers = 0 /\ option = "none"
    /\ fds = Streams /\ tty_fd = 0 /\ output_fd = -1
    /\ memory = "live"
    /\ file = [i \in 1..OldBlocks |-> "old"] /\ offset = 0 /\ delivered = "nowhere"
    /\ arrived = "none"
    /\ failed = "no"

Next ==
    \/ check_envvars
    \/ init
    \/ SetOption
    \/ BadOption
    \/ ExecOption
    \/ DisplayOption
    \/ EndOfOptions
    \/ Section
    \/ Entry
    \/ EndSection
    \/ OptionDies
    \/ OptionAborts
    \/ Footer
    \/ Prepare
    \/ dump
    \/ usage
    \/ Emit
    \/ cleanup
    \/ Exec
    \/ Ended

Spec == Init /\ [][Next]_vars

-----------------------------------------------------------------------------
\* The types; in particular tty_fd, which OUTPUT_TERM writes to and cleanup()
\* closes, is a descriptor at all times.
ProcenvTypeOK ==
    /\ OutputTypeOK
    /\ pc \in {"envvars", "init", "options", "section", "entry", "end", "help", "unknown",
               "footer", "prepare", "dump", "emit", "cleanup", "exec", "exited", "aborted",
               "executed"}
    /\ output \in Outputs
    /\ output_file \in BOOLEAN /\ output_file_append \in BOOLEAN /\ sign \in {-1, 0, 1}
    /\ reexec \in BOOLEAN /\ exec_args \in {"NULL", "environment", "arguments"}
    /\ late \in BOOLEAN /\ rest \in BOOLEAN /\ hasTty \in BOOLEAN /\ done \in BOOLEAN
    /\ options \in 0..MaxOptions /\ headers \in 0..(MaxOptions + 1)
    /\ option \in {"none", "plain", "misc", "tty", "help", "unknown"}
    /\ fds \subseteq 0..9 /\ tty_fd \in 0..9 /\ output_fd \in -1..9
    /\ memory \in {"live", "freed", "misused"}
    /\ file \in Seq({"old", "help", "doc"}) /\ offset \in Nat
    /\ delivered \in Outputs \cup {"nowhere"}
    /\ arrived \in {"none", "buffered", "part", "whole", "lost"}
    /\ failed \in {"no", "die", "output", "exec"}

Whole == status = "closed" /\ (Structured => doc = [stack |-> <<>>, at |-> "done"])

(***************************************************************************)
(* The document is delivered whole or not at all.  When there was at most  *)
(* one display option it has one header and its footer when it leaves;     *)
(* die() delivers nothing; a run that ends without an error delivered it.  *)
(***************************************************************************)
WholeOrNothing ==
    /\ delivered # "nowhere" /\ headers = 1 => Whole
    /\ failed \in {"die", "output"} => delivered = "nowhere"
    /\ pc \in {"exited", "executed"} /\ failed \in {"no", "exec"} => delivered # "nowhere"

(***************************************************************************)
(* What the output file holds once the document is in it.  Appending, all  *)
(* of the earlier content and then what this run wrote, the document last. *)
(* Otherwise it begins with what this run wrote, the document last.        *)
(***************************************************************************)
FileContent ==
    delivered = "FILE" =>
        LET old == [i \in 1..OldBlocks |-> "old"]
            new == [i \in 1..offset |-> IF i = offset THEN "doc" ELSE "help"]
        IN  IF output_file_append THEN file = old \o new
            ELSE offset <= Len(file) /\ SubSeq(file, 1, offset) = new

(***************************************************************************)
(* Once the document has begun, its format does not change any more: the   *)
(* order that main() demands of the options rules it out.                  *)
(***************************************************************************)
FormatSettled == [][status # "fresh" => output_format' = output_format]_vars

(***************************************************************************)
(* The sections, headers and footers of a run keep to the nesting that the *)
(* writer asserts.  dec_indent() never lowers the indent below zero unless *)
(* an --exec among the display options has reset it, and change_element()  *)
(* meets no pair of elements that its table has not unless there is a      *)
(* second header.                                                          *)
(***************************************************************************)
NestingHolds ==
    /\ indent < 0 => late /\ Structured
    /\ \/ current_element = "NONE"
       \/ Reached(output_format, last_element, current_element)
       \/ headers > 1 /\ output_format = "JSON"

(***************************************************************************)
(* The program that procenv re-executes inherits the standard streams, and *)
(* nothing else, if there is a controlling terminal.  Without one, tty_fd  *)
(* is a standard stream and cleanup() closes it; --misc leaks a            *)
(* descriptor for every terminal that it opened before the last one.       *)
(***************************************************************************)
StreamsInherited ==
    pc = "executed" /\ hasTty =>
        /\ Streams \subseteq fds
        /\ Cardinality(fds \ Streams) < headers + 1
        /\ option # "misc" /\ headers = 1 => fds = Streams

(***************************************************************************)
(* doc and crumb_list are released before the program ends or re-executes, *)
(* whatever ends it, and only once; errors of the output and of execvp()   *)
(* excepted.                                                               *)
(***************************************************************************)
Released ==
    /\ pc \in {"exited", "executed"} /\ failed \in {"no", "die"} => memory = "freed"
    /\ memory = "misused" => failed = "exec"

-----------------------------------------------------------------------------
(***************************************************************************)
(* What the repository says and the code does not do.                      *)
(***************************************************************************)
\* The program given with --exec is executed after procenv ran: what was put
\* out to stdout is there by then.
ShownBeforeExec == pc = "executed" /\ delivered = "STDOUT" => arrived = "whole"

\* Without --file-append the output file is truncated: it holds what this run
\* wrote and nothing else.
FileReplaced == delivered = "FILE" /\ ~output_file_append => Len(file) = offset

\* The assertion that dec_indent() ends with.
IndentAsserted == indent >= 0

=============================================================================
