------------------------------ MODULE Document ------------------------------
(***************************************************************************)
(* What the buffer of the document promises: text that grows at its end,   *)
(* then loses what trails it, and then its blank lines.                    *)
(***************************************************************************)
EXTENDS Naturals, Sequences, SequencesExt

CONSTANTS Letters, NL, Indent

VARIABLES text, stage

Removable == {NL, Indent}

\* One newline stands for all the newlines and indent characters at the end.
Chomped(t) ==
    LET kept == Max({0} \cup {i \in DOMAIN t : t[i] \notin Removable})
    IN  IF Len(t) < 2 \/ kept = Len(t) THEN t ELSE Append(SubSeq(t, 1, kept), NL)

Is(t, i, c) == i \in DOMAIN t /\ t[i] = c

\* Where the characters begin that lead up to i and are all alike.
First(t, i) == CHOOSE j \in 1..i : ~Is(t, j - 1, t[i]) /\ \A k \in j..i : t[k] = t[i]

\* Two or more indent characters that a newline follows; j is one of them.
InBlankRun(t, j) ==
    /\ Is(t, j, Indent)
    /\ Is(t, j - 1, Indent) \/ Is(t, j + 1, Indent)
    /\ \E k \in j..Len(t) : Is(t, k + 1, NL) /\ \A i \in j..k : t[i] = Indent

\* Such a run goes with all the newlines behind it; of other newlines in a row
\* the last one stays.
Kept(t, i) ==
    CASE t[i] = NL -> ~Is(t, i + 1, NL) /\ ~InBlankRun(t, First(t, i) - 1)
      [] t[i] = Indent -> ~InBlankRun(t, i)
      [] OTHER -> TRUE

Compressed(t) ==
    FoldLeftDomain(LAMBDA kept, i : IF Kept(t, i) THEN Append(kept, t[i]) ELSE kept, <<>>, t)

\* The newline at the end may go as well when there was something to leave out.
Compressions(t) ==
    {Compressed(t)} \cup IF Compressed(t) = t THEN {} ELSE {Front(Compressed(t))}

-----------------------------------------------------------------------------
Add ==
    /\ stage = "open"
    /\ Len(text') > Len(text)
    /\ IsPrefix(text, text')
    /\ UNCHANGED stage

Close ==
    /\ stage = "open"
    /\ text' = Append(text, NL)
    /\ stage' = "closed"

Chomp ==
    /\ stage = "closed"
    /\ stage' \in {"chomped", "done"}
    /\ text' = Chomped(text)

Compress ==
    /\ stage = "chomped"
    /\ stage' = "done"
    /\ text' \in Compressions(text)

Init == text = <<>> /\ stage = "open"

Next == Add \/ Close \/ Chomp \/ Compress

Spec == Init /\ [][Next]_<<text, stage>>

=============================================================================
