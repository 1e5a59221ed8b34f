--------------------------- MODULE ProcenvProofs ---------------------------
(***************************************************************************)
(* Proofs about whole runs of procenv, for any number of options and any   *)
(* output file: what is released, that the format is settled and what the  *)
(* output file holds.                                                      *)
(***************************************************************************)
EXTENDS Procenv, SequenceTheorems, TLAPS

\* Where main() is before the document is put out, and before there is one.
Early == {"envvars", "init", "options", "section", "entry", "end", "help", "unknown", "footer",
          "prepare", "dump", "emit"}

(***************************************************************************)
(* What owns the memory, what went wrong and what was delivered follow     *)
(* from the place that the program has reached.                            *)
(***************************************************************************)
Control ==
    /\ pc \in Early \cup {"cleanup", "exec", "exited", "aborted", "executed"}
    /\ output \in Outputs
    /\ pc \in Early => memory = "live" /\ failed = "no" /\ delivered = "nowhere"
    /\ pc = "cleanup" =>
          \/ memory = "live" /\ failed = "no" /\ delivered # "nowhere"
          \/ memory = "live" /\ failed = "die" /\ delivered = "nowhere"
          \/ memory = "freed" /\ failed = "exec" /\ delivered # "nowhere"
    /\ pc \in {"exec", "executed"} => memory = "freed" /\ failed = "no" /\ delivered # "nowhere"
    /\ pc = "exited" =>
          \/ memory = "freed" /\ failed = "no" /\ delivered # "nowhere"
          \/ memory = "freed" /\ failed = "die" /\ delivered = "nowhere"
          \/ memory = "live" /\ failed = "output" /\ delivered = "nowhere"
          \/ memory = "misused" /\ failed = "exec" /\ delivered # "nowhere"
    /\ pc = "aborted" /\ memory = "misused" => failed = "exec"

\* There is no document before the first display option or dump().
Fresh ==
    /\ pc \in {"envvars", "init"} => ~done
    /\ pc \in {"envvars", "init", "options"} /\ ~done => status = "fresh"
    /\ pc = "help" => done

IInv == Control /\ Fresh

-----------------------------------------------------------------------------
LEMMA InitIInv == Init => IInv
BY DEF Init, OutputInit, IInv, Control, Fresh, Early, Outputs

\* die() leaves the document where it is and goes on with cleanup().
LEMMA DieKeeps ==
    ASSUME Control, pc \in Early, die, UNCHANGED <<memory, delivered>>
    PROVE  Control' /\ pc' = "cleanup"
BY DEF Control, Early, die, Outputs

\* So does a call of the writer, whatever becomes of it.
LEMMA ContinueKeeps ==
    ASSUME Control, pc \in Early, NEW new, NEW then \in Early, Continue(new, then),
           UNCHANGED <<memory, delivered>>
    PROVE  Control' /\ pc' \in {then, "cleanup", "aborted"}
<1>1. CASE die
  BY <1>1, DieKeeps
<1>2. CASE pc' \in {then, "aborted"} /\ UNCHANGED <<output, failed>>
  BY <1>2 DEF Control, Early
<1>. QED  BY <1>1, <1>2 DEF Continue

LEMMA HeaderKeeps ==
    ASSUME Control, pc \in Early, NEW then \in Early, Header(then), UNCHANGED <<memory, delivered>>
    PROVE  Control' /\ pc' \in {then, "cleanup", "aborted"}
<1>1. CASE sign < 0
  BY <1>1 DEF Header, Control, Early
<1>2. CASE ~(sign < 0)
  BY <1>2, ContinueKeeps DEF Header
<1>. QED  BY <1>1, <1>2

-----------------------------------------------------------------------------
\* Reading the environment and the options.
LEMMA OptionsKeep ==
    ASSUME IInv,
           \/ check_envvars \/ init \/ SetOption \/ BadOption \/ ExecOption \/ DisplayOption
           \/ EndOfOptions
    PROVE  IInv'
<1>. USE DEF IInv
<1>1. CASE check_envvars
  <2>1. pc = "envvars" /\ pc \in Early /\ UNCHANGED <<memory, delivered, done, status>>
    BY <1>1 DEF check_envvars, Early, progress, written
  <2>2. CASE die
    BY <2>1, <2>2, DieKeeps DEF Control, Fresh
  <2>3. CASE pc' = "init" /\ output' \in Outputs /\ UNCHANGED failed
    BY <2>1, <2>3 DEF Control, Early, Fresh
  <2>4. output \in Outputs
    BY DEF Control
  <2>5. die \/ (pc' = "init" /\ output' \in Outputs /\ UNCHANGED failed)
    <3>1. "FILE" \in Outputs
      BY DEF Outputs
    <3>. HIDE DEF IInv
    <3>. QED  BY <1>1, <2>4, <3>1 DEF check_envvars
  <2>. QED  BY <2>2, <2>3, <2>5
<1>2. CASE init
  <2>1. pc = "init" /\ pc \in Early /\ UNCHANGED <<memory, delivered, done, status>>
    BY <1>2 DEF init, Early, progress, written, outputVars
  <2>2. CASE die
    BY <2>1, <2>2, DieKeeps DEF Control, Fresh
  <2>3. CASE pc' \in {"options", "aborted"} /\ UNCHANGED <<output, failed>>
    BY <2>1, <2>3 DEF Control, Early, Fresh
  <2>. QED  BY <1>2, <2>2, <2>3 DEF init
<1>3. CASE SetOption
  <2>1. pc = "options" /\ pc \in Early /\ UNCHANGED <<memory, delivered, done>>
    BY <1>3 DEF SetOption, NextOption, Early, written
  <2>2. CASE die
    BY <2>1, <2>2, DieKeeps DEF Control, Fresh
  <2>3. CASE output' \in Outputs /\ UNCHANGED <<pc, failed, status>>
    BY <2>1, <2>3 DEF Control, Early, Fresh
  <2>4. ~TooLate => output' \in Outputs /\ UNCHANGED <<pc, failed, status>>
    BY <1>3 DEF SetOption, reset_indent, Control, Outputs, request
  <2>. QED  BY <1>3, <2>2, <2>3, <2>4 DEF SetOption
<1>4. CASE BadOption
  <2>1. pc = "options" /\ pc \in Early /\ UNCHANGED <<memory, delivered>> /\ die
    BY <1>4 DEF BadOption, NextOption, Early, written
  <2>. QED  BY <2>1, DieKeeps DEF Control, Fresh
<1>5. CASE ExecOption
  <2>1. pc = "options" /\ UNCHANGED <<pc, output, failed, memory, delivered, done, status>>
    BY <1>5 DEF ExecOption, NextOption, reset_indent, request, written
  <2>. QED  BY <2>1 DEF Control, Early, Fresh
<1>6. CASE DisplayOption
  <2>1. pc = "options" /\ pc \in Early /\ UNCHANGED <<memory, delivered>> /\ done'
    BY <1>6 DEF DisplayOption, NextOption, Early, written
  <2>2. PICK then \in {"help", "unknown", "section"} : Header(then)
    BY <1>6 DEF DisplayOption
  <2>3. Control' /\ pc' \in {then, "cleanup", "aborted"}
    BY <2>1, <2>2, HeaderKeeps DEF Early
  <2>. QED  BY <2>1, <2>3 DEF Control, Fresh
<1>7. CASE EndOfOptions
  <2>1. /\ pc = "options" /\ pc' \in {"footer", "prepare"}
        /\ UNCHANGED <<output, failed, memory, delivered>>
    BY <1>7 DEF EndOfOptions, request, written
  <2>. QED  BY <2>1 DEF Control, Early, Fresh
<1>. QED  BY <1>1, <1>2, <1>3, <1>4, <1>5, <1>6, <1>7

\* Writing the document.
LEMMA WritingKeeps ==
    ASSUME IInv,
           Section \/ Entry \/ EndSection \/ OptionDies \/ OptionAborts \/ Footer \/ Prepare \/ dump
    PROVE  IInv'
<1>. USE DEF IInv
<1>1. CASE Section \/ Entry \/ EndSection \/ Footer
  <2>1. pc \in {"section", "entry", "end", "footer"} /\ pc \in Early /\ UNCHANGED <<memory, delivered, done>>
    BY <1>1 DEF Section, Entry, EndSection, Footer, Early, progress, written
  <2>2. PICK new \in Elements, then \in {"entry", "end", "options", "footer", "prepare", "emit"} :
            Continue(new, then) /\ (then = "options" => done)
    <3>1. /\ Section => Continue("SECTION_OPEN", "entry")
          /\ Entry => Continue("ENTRY", "end")
          /\ EndSection => Continue("SECTION_CLOSE", IF done THEN "options" ELSE "footer")
          /\ Footer => Continue("OBJECT_CLOSE", IF done THEN "prepare" ELSE "emit")
      BY DEF Section, Entry, EndSection, Footer
    <3>2. {"SECTION_OPEN", "ENTRY", "SECTION_CLOSE", "OBJECT_CLOSE"} \subseteq Elements
      BY DEF Elements, Members, Openers, Closers
    <3>. QED  BY <1>1, <3>1, <3>2
  <2>3. Control' /\ pc' \in {then, "cleanup", "aborted"}
    BY <2>1, <2>2, ContinueKeeps DEF Early
  <2>. QED  BY <2>1, <2>2, <2>3 DEF Control, Fresh
<1>2. CASE OptionDies
  <2>1. pc \in Early /\ UNCHANGED <<memory, delivered>> /\ die
    BY <1>2 DEF OptionDies, Early, written
  <2>. QED  BY <2>1, DieKeeps DEF Control, Fresh
<1>3. CASE Prepare
  <2>1. pc = "prepare" /\ pc \in Early /\ UNCHANGED <<memory, delivered>>
    BY <1>3 DEF Prepare, Early, written
  <2>2. CASE die
    BY <2>1, <2>2, DieKeeps DEF Control, Fresh
  <2>3. CASE pc' \in {"emit", "dump"} /\ UNCHANGED <<output, failed>>
    BY <2>1, <2>3 DEF Control, Early, Fresh
  <2>. QED  BY <1>3, <2>2, <2>3 DEF Prepare
<1>4. CASE dump
  <2>1. pc = "dump" /\ pc \in Early /\ UNCHANGED <<memory, delivered>> /\ Header("section")
    BY <1>4 DEF dump, Early, written
  <2>2. Control' /\ pc' \in {"section", "cleanup", "aborted"}
    BY <2>1, HeaderKeeps DEF Early
  <2>. QED  BY <2>1, <2>2 DEF Control, Fresh
<1>5. CASE OptionAborts
  <2>1. pc \in Early /\ pc' = "aborted" /\ UNCHANGED <<output, failed, memory, delivered>>
    BY <1>5 DEF OptionAborts, Early, request, written
  <2>. QED  BY <2>1 DEF Control, Early, Fresh
<1>. QED  BY <1>1, <1>2, <1>3, <1>4, <1>5

\* Putting it out, and what comes afterwards.
LEMMA DeliveryKeeps ==
    ASSUME IInv, usage \/ Emit \/ cleanup \/ Exec
    PROVE  IInv'
<1>. USE DEF IInv
<1>1. CASE usage
  <2>1. /\ pc = "help" /\ UNCHANGED <<output, memory, delivered, done, status>>
        /\ _show_output("help", "options")
    BY <1>1 DEF usage, outputVars, progress
  <2>2. delivered = "nowhere" /\ memory = "live" /\ failed = "no"
    BY <2>1 DEF Control, Early
  <2>3. \/ pc' \in {"options", "aborted"} /\ UNCHANGED failed
        \/ pc' = "exited" /\ failed' = "output"
    BY <2>1 DEF _show_output
  <2>4. Control'
    BY <2>1, <2>2, <2>3 DEF Control, Early
  <2>. QED  BY <2>1, <2>3, <2>4 DEF Fresh
<1>2. CASE Emit
  <2>1. /\ pc = "emit" /\ UNCHANGED <<output, memory>>
        /\ _show_output("doc", "cleanup")
        /\ delivered' = IF pc' = "cleanup" THEN output ELSE "nowhere"
    BY <1>2 DEF Emit, request
  <2>2. memory = "live" /\ failed = "no" /\ output \in Outputs
    BY <2>1 DEF Control, Early
  <2>3. \/ pc' = "cleanup" /\ UNCHANGED failed
        \/ pc' = "exited" /\ failed' = "output"
        \/ pc' = "aborted" /\ UNCHANGED failed
    BY <2>1 DEF _show_output
  <2>4. Control'
    BY <2>1, <2>2, <2>3 DEF Control, Early, Outputs
  <2>. QED  BY <2>3, <2>4 DEF Fresh
<1>3. CASE cleanup
  <2>1. /\ pc = "cleanup" /\ UNCHANGED <<output, delivered, failed>>
        /\ \/ pc' = "aborted" /\ UNCHANGED memory
           \/ memory = "live" /\ memory' = "freed" /\ pc' = AfterCleanup
           \/ memory # "live" /\ memory' = "misused" /\ pc' \in {"exited", "aborted"}
    BY <1>3 DEF cleanup, request
  <2>2. AfterCleanup \in {"exec", "exited"} /\ (AfterCleanup = "exec" => failed = "no")
    BY DEF AfterCleanup
  <2>3. Control'
    BY <2>1, <2>2 DEF Control, Early
  <2>. QED  BY <2>1, <2>2, <2>3 DEF Fresh
<1>4. CASE Exec
  <2>1. /\ pc = "exec" /\ UNCHANGED <<memory, delivered>>
        /\ \/ pc' = "executed" /\ UNCHANGED <<output, failed>>
           \/ pc' = "cleanup" /\ output' = "STDERR" /\ failed' = "exec"
    BY <1>4 DEF Exec
  <2>2. Control'
    BY <2>1 DEF Control, Early, Outputs
  <2>. QED  BY <2>1, <2>2 DEF Fresh
<1>. QED  BY <1>1, <1>2, <1>3, <1>4

\* The inductive invariant holds throughout.
THEOREM Invariance == Spec => []IInv
<1>1. IInv /\ [Next]_vars => IInv'
  <2> SUFFICES ASSUME IInv, [Next]_vars PROVE IInv'
    OBVIOUS
  <2>1. CASE UNCHANGED vars
    BY <2>1 DEF IInv, Control, Fresh, vars, request, progress, written, outputVars
  <2>2. CASE Ended
    BY <2>1, <2>2 DEF Ended
  <2>. QED  BY <2>1, <2>2, OptionsKeep, WritingKeeps, DeliveryKeeps DEF Next
<1>. QED  BY <1>1, InitIInv, PTL DEF Spec

(***************************************************************************)
(* doc and crumb_list are released before every exit and re-execution, and *)
(* a second time only when die() reports that execvp() failed.             *)
(***************************************************************************)
THEOREM ReleasedAlways == Spec => []Released
<1>1. IInv => Released
  BY DEF IInv, Control, Early, Released
<1>. QED  BY <1>1, Invariance, PTL

-----------------------------------------------------------------------------
\* The calls of the writer leave the format alone.
LEMMA FormatKept ==
    ASSUME \/ Section \/ Entry \/ EndSection \/ Footer \/ dump \/ DisplayOption
    PROVE  UNCHANGED output_format
<1>1. CASE Section
  BY <1>1 DEF Section, section_open, named_open
<1>2. CASE Entry
  BY <1>2 DEF Entry, entry
<1>3. CASE EndSection
  BY <1>3 DEF EndSection, section_close, named_close
<1>4. CASE Footer
  BY <1>4 DEF Footer, master_footer
<1>5. ASSUME NEW then, Header(then) PROVE UNCHANGED output_format
  BY <1>5 DEF Header, master_header, outputVars
<1>6. CASE dump
  BY <1>5, <1>6 DEF dump
<1>7. CASE DisplayOption
  BY <1>5, <1>7 DEF DisplayOption
<1>. QED  BY <1>1, <1>2, <1>3, <1>4, <1>6, <1>7

(***************************************************************************)
(* The format of a document that has begun never changes: main() refuses   *)
(* the options that could change it.                                       *)
(***************************************************************************)
THEOREM FormatStays == Spec => FormatSettled
<1>1. IInv /\ [Next]_vars => [status # "fresh" => output_format' = output_format]_vars
  <2> SUFFICES ASSUME IInv, Next, status # "fresh" PROVE output_format' = output_format
    OBVIOUS
  <2>1. ~check_envvars
    BY DEF check_envvars, IInv, Fresh
  <2>2. CASE SetOption
    <3>1. done
      BY <2>2 DEF SetOption, NextOption, IInv, Fresh
    <3>. QED  BY <2>2, <3>1 DEF SetOption, TooLate, outputVars
  <2>3. CASE init \/ BadOption \/ EndOfOptions \/ OptionDies \/ OptionAborts \/ Prepare
    BY <2>3 DEF init, BadOption, EndOfOptions, OptionDies, OptionAborts, Prepare, outputVars
  <2>4. CASE usage \/ Emit \/ cleanup \/ Exec
    BY <2>4 DEF usage, Emit, cleanup, Exec, outputVars
  <2>5. CASE ExecOption
    BY <2>5 DEF ExecOption
  <2>6. CASE Ended
    BY <2>6 DEF Ended, vars, outputVars
  <2>. QED  BY <2>1, <2>2, <2>3, <2>4, <2>5, <2>6, FormatKept DEF Next
<1>. QED  BY <1>1, Invariance, PTL DEF Spec, FormatSettled

-----------------------------------------------------------------------------
(***************************************************************************)
(* The output file after n blocks, of which the last one is given and the  *)
(* others are help texts.                                                  *)
(***************************************************************************)
Blocks(append, n, last) ==
    IF append
    THEN [i \in 1..(OldBlocks + n) |->
             IF i <= OldBlocks THEN "old" ELSE IF i = OldBlocks + n THEN last ELSE "help"]
    ELSE [i \in 1..(IF n < OldBlocks THEN OldBlocks ELSE n) |->
             IF i > n THEN "old" ELSE IF i = n THEN last ELSE "help"]

LEMMA AppendedBlock ==
    ASSUME NEW S, NEW s \in Seq(S), NEW e \in S
    PROVE  Append(s, e) = [i \in 1..(Len(s) + 1) |-> IF i = Len(s) + 1 THEN e ELSE s[i]]
<1>1. /\ Append(s, e) \in Seq(S) /\ Len(Append(s, e)) = Len(s) + 1 /\ Len(s) \in Nat
      /\ \A i \in 1..Len(s) : Append(s, e)[i] = s[i]
      /\ Append(s, e)[Len(s) + 1] = e
  BY AppendProperties, LenProperties
<1>2. Append(s, e) \in [1..(Len(s) + 1) -> S]
  BY <1>1, LenProperties
<1>3. \A i \in 1..(Len(s) + 1) :
          Append(s, e)[i] = IF i = Len(s) + 1 THEN e ELSE s[i]
  BY <1>1
<1>. QED  BY <1>2, <1>3, Zenon

\* One more block goes behind the others or over old ones.
LEMMA OneMoreBlock ==
    ASSUME NEW append \in BOOLEAN, NEW n \in Nat, NEW last \in {"help", "doc"},
           NEW blocks, blocks = Blocks(append, n, "help")
    PROVE  (IF append THEN Append(blocks, last) ELSE Overwrite(blocks, n, last))
               = Blocks(append, n + 1, last)
<1>. USE FileAssumption
<1>1. CASE append
  <2>1. blocks = [i \in 1..(OldBlocks + n) |-> IF i <= OldBlocks THEN "old" ELSE "help"]
    BY <1>1 DEF Blocks
  <2>2. Blocks(append, n + 1, last)
          = [i \in 1..(OldBlocks + n + 1) |->
                IF i <= OldBlocks THEN "old" ELSE IF i = OldBlocks + n + 1 THEN last ELSE "help"]
    BY <1>1 DEF Blocks
  <2>3. blocks \in Seq({"old", "help", "doc"}) /\ Len(blocks) = OldBlocks + n
    BY <2>1
  <2>4. Append(blocks, last)
          = [i \in 1..(OldBlocks + n + 1) |-> IF i = OldBlocks + n + 1 THEN last ELSE blocks[i]]
    <3>1. Len(blocks) + 1 = OldBlocks + n + 1 /\ last \in {"old", "help", "doc"}
      BY <2>3
    <3>. QED  BY <2>3, <3>1, AppendedBlock
  <2>5. Append(blocks, last) = Blocks(append, n + 1, last)
    BY <2>1, <2>2, <2>4
  <2>. QED  BY <1>1, <2>5
<1>2. CASE ~append
  <2>. DEFINE m == IF n < OldBlocks THEN OldBlocks ELSE n
  <2>1. blocks = [i \in 1..m |-> IF i > n THEN "old" ELSE "help"]
    BY <1>2 DEF Blocks
  <2>2. blocks \in Seq({"old", "help", "doc"}) /\ Len(blocks) = m
    BY <2>1
  <2>3. CASE n < OldBlocks
    <3>1. Blocks(append, n + 1, last)
            = [i \in 1..OldBlocks |->
                  IF i > n + 1 THEN "old" ELSE IF i = n + 1 THEN last ELSE "help"]
      BY <1>2, <2>3 DEF Blocks
    <3>2. Overwrite(blocks, n, last) = [blocks EXCEPT ![n + 1] = last]
      BY <2>2, <2>3 DEF Overwrite
    <3>. QED  BY <1>2, <2>1, <2>3, <3>1, <3>2
  <2>4. CASE ~(n < OldBlocks)
    <3>1. Blocks(append, n + 1, last)
            = [i \in 1..(n + 1) |-> IF i = n + 1 THEN last ELSE "help"]
      BY <1>2, <2>4 DEF Blocks
    <3>2. Overwrite(blocks, n, last) = Append(blocks, last)
      BY <2>2, <2>4 DEF Overwrite
    <3>. QED  BY <1>2, <2>1, <2>2, <2>4, <3>1, <3>2
  <2>. QED  BY <2>3, <2>4
<1>. QED  BY <1>1, <1>2

\* The content as FileContent puts it.
LEMMA ContentOfBlocks ==
    ASSUME NEW append \in BOOLEAN, NEW n \in Nat, NEW blocks, blocks = Blocks(append, n, "doc")
    PROVE  LET old == [i \in 1..OldBlocks |-> "old"]
               new == [i \in 1..n |-> IF i = n THEN "doc" ELSE "help"]
           IN  /\ append => blocks = old \o new
               /\ ~append => n <= Len(blocks) /\ SubSeq(blocks, 1, n) = new
<1>. USE FileAssumption
<1>. DEFINE old == [i \in 1..OldBlocks |-> "old"]
            new == [i \in 1..n |-> IF i = n THEN "doc" ELSE "help"]
<1>1. /\ old \in Seq({"old"}) /\ Len(old) = OldBlocks
      /\ new \in Seq({"help", "doc"}) /\ Len(new) = n
  OBVIOUS
<1>2. append => blocks = old \o new
  BY <1>1 DEF Blocks
<1>3. ASSUME ~append PROVE n <= Len(blocks) /\ SubSeq(blocks, 1, n) = new
  <2>. DEFINE m == IF n < OldBlocks THEN OldBlocks ELSE n
  <2>1. blocks = [i \in 1..m |-> IF i > n THEN "old" ELSE IF i = n THEN "doc" ELSE "help"]
    BY <1>3 DEF Blocks
  <2>2. m \in Nat /\ n <= m
    OBVIOUS
  <2>3. blocks \in Seq({"old", "help", "doc"}) /\ Len(blocks) = m
    BY <2>1, <2>2
  <2>4. SubSeq(blocks, 1, n) = [i \in 1..n |-> blocks[i]]
    BY <2>2, <2>3
  <2>5. \A i \in 1..n : blocks[i] = new[i]
    BY <2>1, <2>2
  <2>. QED  BY <2>2, <2>3, <2>4, <2>5
<1>. QED  BY <1>2, <1>3

\* What the output file holds at every point; it is written to only once no
\* option can change output_file_append any more.
FileInv ==
    /\ offset \in Nat /\ output_file_append \in BOOLEAN
    /\ file = Blocks(output_file_append, offset, IF delivered = "FILE" THEN "doc" ELSE "help")
    /\ offset > 0 /\ pc \in Early => done

LEMMA FileUntouched ==
    ASSUME FileInv, UNCHANGED <<file, offset, delivered, output_file_append>>,
           pc \notin Early => pc' \notin Early, done => done'
    PROVE  FileInv'
BY DEF FileInv

\* Nothing is in the file yet, and it may still be chosen how to write to it.
LEMMA FileChosen ==
    ASSUME FileInv, offset = 0, UNCHANGED <<file, offset, delivered>>,
           output_file_append' \in BOOLEAN
    PROVE  FileInv'
<1>1. ASSUME NEW a \in BOOLEAN, NEW last \in {"help", "doc"}
      PROVE  Blocks(a, 0, last) = [i \in 1..OldBlocks |-> "old"]
  BY FileAssumption DEF Blocks
<1>2. \A a, b \in BOOLEAN : \A x, y \in {"help", "doc"} : Blocks(a, 0, x) = Blocks(b, 0, y)
  BY <1>1
<1>3. /\ output_file_append \in BOOLEAN
      /\ (IF delivered = "FILE" THEN "doc" ELSE "help") \in {"help", "doc"}
  BY DEF FileInv
<1>4. file = Blocks(output_file_append', 0, IF delivered = "FILE" THEN "doc" ELSE "help")
  BY <1>2, <1>3 DEF FileInv
<1>. QED  BY <1>4 DEF FileInv

LEMMA FileWritten ==
    ASSUME FileInv, delivered = "nowhere", NEW block \in {"help", "doc"}, NEW then,
           _show_output(block, then), output_file_append' = output_file_append,
           delivered' \in {"nowhere", IF pc' = then THEN output ELSE "nowhere"},
           then \notin {"exited", "aborted"},
           block = "doc" /\ pc' = then <=> delivered' # "nowhere",
           done => done', pc \in Early, pc' \in Early => done'
    PROVE  FileInv'
<1>1. CASE UNCHANGED <<file, offset>> /\ (pc' # then \/ output # "FILE")
  BY <1>1 DEF FileInv, Early
<1>2. CASE output = "FILE" /\ pc' = then /\ WriteFile(block)
  <2>1. /\ offset' = offset + 1 /\ offset \in Nat
        /\ file' = IF output_file_append THEN Append(file, block) ELSE Overwrite(file, offset, block)
    BY <1>2 DEF WriteFile, FileInv
  <2>2. output_file_append \in BOOLEAN /\ file = Blocks(output_file_append, offset, "help")
    BY DEF FileInv
  <2>3. file' = Blocks(output_file_append, offset + 1, block)
    BY <2>1, <2>2, OneMoreBlock
  <2>4. block = IF delivered' = "FILE" THEN "doc" ELSE "help"
    BY <1>2
  <2>5. file' = Blocks(output_file_append', offset', IF delivered' = "FILE" THEN "doc" ELSE "help")
    BY <2>1, <2>3, <2>4, Zenon
  <2>6. offset' \in Nat /\ output_file_append' \in BOOLEAN /\ (pc' \in Early => done')
    BY <2>1, <2>2
  <2>. QED  BY <2>5, <2>6 DEF FileInv
<1>3. \/ UNCHANGED <<file, offset>> /\ (pc' \in {"exited", "aborted"} \/ output # "FILE")
      \/ output = "FILE" /\ pc' = then /\ WriteFile(block)
  BY DEF _show_output
<1>4. pc' \in {"exited", "aborted"} => pc' # then
  OBVIOUS
<1>. QED  BY <1>1, <1>2, <1>3, <1>4

LEMMA InitFileInv == Init => FileInv
<1>. SUFFICES ASSUME Init PROVE FileInv
  OBVIOUS
<1>1. Blocks(FALSE, 0, "help") = [i \in 1..OldBlocks |-> "old"]
  BY FileAssumption DEF Blocks
<1>2. /\ offset = 0 /\ output_file_append = FALSE /\ delivered = "nowhere"
      /\ file = [i \in 1..OldBlocks |-> "old"]
  BY DEF Init
<1>3. (IF delivered = "FILE" THEN "doc" ELSE "help") = "help"
  BY <1>2
<1>4. file = Blocks(output_file_append, offset, IF delivered = "FILE" THEN "doc" ELSE "help")
  BY <1>1, <1>2, <1>3, Zenon
<1>5. offset = 0 /\ output_file_append \in BOOLEAN
  BY <1>2, Zenon
<1>6. offset \in Nat /\ ~(offset > 0)
  <2>1. offset = 0
    BY <1>5
  <2>. QED  BY <2>1
<1>. QED  BY <1>4, <1>5, <1>6 DEF FileInv

LEMMA FileInvKept ==
    ASSUME IInv, FileInv, Next
    PROVE  FileInv'
<1>. USE DEF Early
<1>1. CASE check_envvars
  <2>1. offset = 0
    <3>1. pc = "envvars"
      BY <1>1 DEF check_envvars
    <3>2. ~done
      BY <3>1 DEF IInv, Fresh
    <3>. QED  BY <3>1, <3>2 DEF FileInv
  <2>2. UNCHANGED <<file, offset, delivered>>
    BY <1>1 DEF check_envvars, written
  <2>3. ASSUME NEW o, NEW append \in BOOLEAN,
               \/ output_file_append' = append
               \/ output_file_append' = (o # "invalid" /\ append)
        PROVE  output_file_append' \in BOOLEAN
    BY <2>3
  <2>4. output_file_append' \in BOOLEAN
    BY <1>1, <2>3 DEF check_envvars
  <2>. QED  BY <2>1, <2>2, <2>4, FileChosen
<1>2. CASE SetOption
  <2>1. UNCHANGED <<file, offset, delivered, done>> /\ pc = "options"
    BY <1>2 DEF SetOption, NextOption, written
  <2>2. CASE done
    BY <1>2, <2>1, <2>2, FileUntouched DEF SetOption, TooLate
  <2>3. CASE ~done
    <3>1. offset = 0
      BY <2>1, <2>3 DEF FileInv
    <3>2. output_file_append' \in BOOLEAN
      BY <1>2, <2>3 DEF SetOption, TooLate, FileInv, request
    <3>. QED  BY <2>1, <3>1, <3>2, FileChosen
  <2>. QED  BY <2>2, <2>3
<1>3. CASE usage
  <2>1. /\ pc = "help" /\ _show_output("help", "options") /\ delivered' = delivered
        /\ output_file_append' = output_file_append /\ done' = done
    BY <1>3 DEF usage, progress
  <2>2. done /\ delivered = "nowhere"
    BY <2>1 DEF IInv, Control, Fresh
  <2>. QED  BY <2>1, <2>2, FileWritten
<1>4. CASE Emit
  <2>1. /\ pc = "emit" /\ _show_output("doc", "cleanup")
        /\ delivered' = IF pc' = "cleanup" THEN output ELSE "nowhere"
        /\ output_file_append' = output_file_append /\ done' = done
    BY <1>4 DEF Emit, request, progress
  <2>2. delivered = "nowhere" /\ output # "nowhere"
    BY <2>1 DEF IInv, Control, Outputs
  <2>3. pc' \in {"cleanup", "exited", "aborted"}
    BY <2>1 DEF _show_output
  <2>. QED  BY <2>1, <2>2, <2>3, FileWritten
<1>5. CASE init \/ BadOption \/ ExecOption \/ EndOfOptions \/ OptionDies \/ OptionAborts \/ Prepare
  <2>1. pc \in Early /\ UNCHANGED <<file, offset, delivered, output_file_append, done>>
    BY <1>5 DEF init, BadOption, ExecOption, EndOfOptions, OptionDies, OptionAborts, Prepare,
                NextOption, request, progress, written
  <2>. QED  BY <2>1, FileUntouched
<1>6. CASE DisplayOption
  <2>1. pc = "options" /\ done' /\ UNCHANGED <<file, offset, delivered, output_file_append>>
    BY <1>6 DEF DisplayOption, NextOption, written
  <2>. QED  BY <2>1, FileUntouched
<1>7. CASE Section \/ Entry \/ EndSection \/ Footer \/ dump
  <2>1. pc \in {"section", "entry", "end", "footer", "dump"}
    BY <1>7 DEF Section, Entry, EndSection, Footer, dump
  <2>2. UNCHANGED <<file, offset, delivered, output_file_append, done>>
    BY <1>7 DEF Section, Entry, EndSection, Footer, dump, progress, written
  <2>. QED  BY <2>1, <2>2, FileUntouched
<1>8. CASE cleanup \/ Exec \/ Ended
  <2>1. /\ UNCHANGED <<file, offset, delivered, output_file_append, done>>
        /\ pc' \notin Early
    BY <1>8 DEF cleanup, AfterCleanup, Exec, Ended, vars, request, progress, written
  <2>. QED  BY <2>1, FileUntouched
<1>. QED  BY <1>1, <1>2, <1>3, <1>4, <1>5, <1>6, <1>7, <1>8 DEF Next

(***************************************************************************)
(* What _show_output() leaves in the output file, for any earlier content  *)
(* and any number of help texts: old content is never lost by appending,   *)
(* and otherwise what was written is all there, from the beginning.        *)
(***************************************************************************)
THEOREM FileAsWritten == Spec => []FileContent
<1>1. FileInv => FileContent
  <2>. SUFFICES ASSUME FileInv, delivered = "FILE" PROVE FileContent
    BY DEF FileContent
  <2>1. /\ offset \in Nat /\ output_file_append \in BOOLEAN
        /\ file = Blocks(output_file_append, offset, "doc")
    BY DEF FileInv
  <2>. DEFINE old == [i \in 1..OldBlocks |-> "old"]
              new == [i \in 1..offset |-> IF i = offset THEN "doc" ELSE "help"]
  <2>2. /\ output_file_append => file = old \o new
        /\ ~output_file_append => offset <= Len(file) /\ SubSeq(file, 1, offset) = new
    BY <2>1, ContentOfBlocks, Zenon
  <2>3. FileContent <=> IF output_file_append THEN file = old \o new
                        ELSE offset <= Len(file) /\ SubSeq(file, 1, offset) = new
    BY Zenon DEF FileContent
  <2>. HIDE DEF old, new
  <2>. QED  BY <2>2, <2>3, Zenon
<1>2. IInv /\ FileInv /\ [Next]_vars => FileInv'
  <2>1. ASSUME FileInv, UNCHANGED vars PROVE FileInv'
    BY <2>1, FileUntouched DEF vars, request, progress, written
  <2>. QED  BY <2>1, FileInvKept
<1>. QED  BY <1>1, <1>2, InitFileInv, Invariance, PTL DEF Spec
=============================================================================
