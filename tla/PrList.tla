------------------------------- MODULE PrList -------------------------------
(***************************************************************************)
(* The circular doubly-linked lists of pr_list.c, with one list whose head *)
(* node is HEAD.  ring is what the list means: its nodes in order, the     *)
(* head first.  The pointers are next and prev; ring is only there to say  *)
(* what they should be.                                                    *)
(*                                                                         *)
(* The list is used in one of four ways.  "any" mixes all operations at    *)
(* all places.  "crumbs" is the breadcrumb list of output.c.  "ascending"  *)
(* and "descending" build a list with one of the two sorted insertions;    *)
(* the namespaces of show_namespaces_linux() are such an ascending list,   *)
(* which is then taken apart by PR_LIST_FOREACH_SAFE.                      *)
(***************************************************************************)
EXTENDS Integers, Sequences, FiniteSets

CONSTANTS
    Node,       \* addresses of list entries
    HEAD,       \* the entry without data that stands for the list
    Values      \* strings, all of one letter: a string is its length

ASSUME NodeAssumption == HEAD \notin Node
ASSUME ValuesAssumption == Values \subseteq Nat

VARIABLES
    use,        \* "any", "crumbs", "ascending" or "descending"
    next, prev, data,
    alive,      \* the entries that are allocated
    ring,
    pc,         \* "idle", "search", "loop", "removed", "freed", "clear" or "done"
    entry,      \* the entry an insertion is looking for a place for
    p,          \* the cursor of pr_list_add_sorted_internal()
    iter, tmp,  \* the variables of PR_LIST_FOREACH_SAFE
    born,       \* the entries in the order in which they were created
    shown       \* the entries in the order in which the loop visited them

search == <<entry, p>>
loop == <<iter, tmp, shown>>
vars == <<use, next, prev, data, alive, ring, pc, search, loop, born>>

All == Node \cup {HEAD}

Elements(s) == {s[i] : i \in 1..Len(s)}

Listed == Elements(ring)

\* Entries that are allocated and in no list.
Loose == alive \ Listed

InsertAt(s, i, e) ==
    [j \in 1..(Len(s) + 1) |-> IF j < i THEN s[j] ELSE IF j = i THEN e ELSE s[j - 1]]

RemoveAt(s, i) == [j \in 1..(Len(s) - 1) |-> IF j < i THEN s[j] ELSE s[j + 1]]

-----------------------------------------------------------------------------
(***************************************************************************)
(* The operations.  i is the place in ring of the entry called list or, in *)
(* pr_list_remove(), of the entry itself.                                  *)
(***************************************************************************)

Allocate(n, v) ==
    /\ n \notin alive
    /\ alive' = alive \cup {n}
    /\ data' = [data EXCEPT ![n] = v]

pr_list_new(n, v) ==
    /\ Allocate(n, v)
    /\ next' = [next EXCEPT ![n] = n]
    /\ prev' = [prev EXCEPT ![n] = n]
    /\ UNCHANGED ring

\* Mutant: the old successor keeps pointing back past the new entry.
pr_list_append_one_way(i, e) ==
    /\ next' = [next EXCEPT ![e] = next[ring[i]], ![ring[i]] = e]
    /\ prev' = [prev EXCEPT ![e] = ring[i]]
    /\ ring' = InsertAt(ring, i + 1, e)

pr_list_append(i, e) ==
    /\ next' = [next EXCEPT ![e] = next[ring[i]], ![ring[i]] = e]
    /\ prev' = [prev EXCEPT ![e] = ring[i], ![next[ring[i]]] = e]
    /\ ring' = InsertAt(ring, i + 1, e)

\* Before the head means at the end.
pr_list_prepend(i, e) ==
    /\ next' = [next EXCEPT ![e] = ring[i], ![prev[ring[i]]] = e]
    /\ prev' = [prev EXCEPT ![e] = prev[ring[i]], ![ring[i]] = e]
    /\ ring' = InsertAt(ring, IF i = 1 THEN Len(ring) + 1 ELSE i, e)

\* The removed entry becomes a list of its own.
pr_list_remove(i) ==
    LET e == ring[i]
    IN  /\ next' = [next EXCEPT ![prev[e]] = next[e], ![e] = e]
        /\ prev' = [prev EXCEPT ![next[e]] = prev[e], ![e] = e]
        /\ ring' = RemoveAt(ring, i)

strlen(str) == str

\* A copy of at most len characters.
strndup(str, len) == IF len < str THEN len ELSE str

\* One more than the length asked for is copied, if the string has it.
pr_list_appendn_str(i, n, str, len) == Allocate(n, strndup(str, 1 + len)) /\ pr_list_append(i, n)

pr_list_prependn_str(i, n, str, len) == Allocate(n, strndup(str, 1 + len)) /\ pr_list_prepend(i, n)

pr_list_append_str(i, n, str) == pr_list_appendn_str(i, n, str, strlen(str))

pr_list_prepend_str(i, n, str) == pr_list_prependn_str(i, n, str, strlen(str))

\* The order of strcmp().
pr_list_cmp_str(a, b) == data[a] - data[b]

-----------------------------------------------------------------------------
(***************************************************************************)
(* All operations at all places.  An entry must be in no list when it is   *)
(* added to one: the insertions do not unlink it first.                    *)
(***************************************************************************)
Idle(uses) == pc = "idle" /\ use \in uses /\ UNCHANGED <<use, pc, search, loop>>

New ==
    /\ Idle({"any", "ascending", "descending"})
    /\ \E n \in Node, v \in Values :
          /\ pr_list_new(n, v)
          /\ born' = IF use = "any" THEN born ELSE Append(born, n)
    /\ use # "any" => Loose = {}

AppendEntry ==
    /\ Idle({"any"})
    /\ \E i \in 1..Len(ring), e \in Loose : pr_list_append(i, e)
    /\ UNCHANGED <<data, alive, born>>

PrependEntry ==
    /\ Idle({"any"})
    /\ \E i \in 1..Len(ring), e \in Loose : pr_list_prepend(i, e)
    /\ UNCHANGED <<data, alive, born>>

AppendStr ==
    /\ Idle({"any"})
    /\ \E i \in 1..Len(ring), n \in Node, v \in Values : pr_list_append_str(i, n, v)
    /\ UNCHANGED born

PrependStr ==
    /\ Idle({"any"})
    /\ \E i \in 1..Len(ring), n \in Node, v \in Values : pr_list_prepend_str(i, n, v)
    /\ UNCHANGED born

RemoveEntry ==
    /\ Idle({"any"})
    /\ \E i \in 2..Len(ring) : pr_list_remove(i)
    /\ UNCHANGED <<data, alive, born>>

FreeEntry ==
    /\ Idle({"any"})
    /\ \E n \in Loose : alive' = alive \ {n}
    /\ UNCHANGED <<next, prev, data, ring, born>>

(***************************************************************************)
(* The breadcrumb list: add_breadcrumb() and remove_breadcrumb().  A crumb *)
(* is removed only if there is one.                                        *)
(***************************************************************************)
add_breadcrumb ==
    /\ Idle({"crumbs"})
    /\ \E n \in Node, v \in Values : pr_list_prepend_str(1, n, v)
    /\ UNCHANGED born

remove_breadcrumb ==
    /\ Idle({"crumbs"})
    /\ \E i \in 2..Len(ring) :
          /\ ring[i] = prev[HEAD]
          /\ pr_list_remove(i)
          /\ alive' = alive \ {ring[i]}
    /\ UNCHANGED <<data, born>>

\* free_breadcrumbs() empties the list from the end and releases the head.
free_breadcrumbs ==
    /\ pc = "idle"
    /\ use = "crumbs"
    /\ pc' = "clear"
    /\ UNCHANGED <<use, next, prev, data, alive, ring, search, loop, born>>

clear_breadcrumbs ==
    /\ pc = "clear"
    /\ prev[HEAD] # HEAD
    /\ \E i \in 2..Len(ring) :
          /\ ring[i] = prev[HEAD]
          /\ pr_list_remove(i)
          /\ alive' = alive \ {ring[i]}
    /\ UNCHANGED <<use, data, pc, search, loop, born>>

free_crumb_list ==
    /\ pc = "clear"
    /\ prev[HEAD] = HEAD
    /\ alive' = alive \ {HEAD}
    /\ pc' = "done"
    /\ UNCHANGED <<use, next, prev, data, ring, search, loop, born>>

(***************************************************************************)
(* pr_list_add_sorted_internal(): prepend looks forwards from the front of *)
(* the list, append backwards from its end.                                *)
(***************************************************************************)
Forwards == use = "ascending"

StartSearch ==
    /\ pc = "idle"
    /\ use \in {"ascending", "descending"}
    /\ entry' \in Loose
    /\ p' = IF Forwards THEN next[HEAD] ELSE prev[HEAD]
    /\ pc' = "search"
    /\ UNCHANGED <<use, next, prev, data, alive, ring, loop, born>>

\* Mutant: an entry goes in front of the entries that are equal to it.
Found_not_stable == p = HEAD \/ pr_list_cmp_str(entry, p) <= 0

\* Mutant: the search does not stop at the head.
Found_no_end == p # HEAD /\ pr_list_cmp_str(entry, p) < 0

Found == p = HEAD \/ pr_list_cmp_str(entry, p) < 0

StepSearch ==
    /\ pc = "search"
    /\ ~Found
    /\ p' = IF Forwards THEN next[p] ELSE prev[p]
    /\ UNCHANGED <<use, next, prev, data, alive, ring, pc, entry, loop, born>>

EndSearch ==
    /\ pc = "search"
    /\ Found
    /\ \E i \in 1..Len(ring) :
          /\ ring[i] = p
          /\ IF Forwards THEN pr_list_prepend(i, entry) ELSE pr_list_append(i, entry)
    /\ pc' = "idle"
    /\ UNCHANGED <<use, data, alive, search, loop, born>>

(***************************************************************************)
(* PR_LIST_FOREACH_SAFE with the body of show_namespaces_linux(), which    *)
(* removes, shows and frees the entry, and then the release of the list.   *)
(***************************************************************************)

StartLoop ==
    /\ pc = "idle"
    /\ use \in {"ascending", "descending"}
    /\ Loose = {}
    /\ iter' = next[HEAD]
    /\ tmp' = next[next[HEAD]]
    /\ pc' = "loop"
    /\ UNCHANGED <<use, next, prev, data, alive, ring, search, shown, born>>

LoopRemove ==
    /\ pc = "loop"
    /\ iter # HEAD
    /\ \E i \in 2..Len(ring) : ring[i] = iter /\ pr_list_remove(i)
    /\ shown' = Append(shown, iter)
    /\ pc' = "removed"
    /\ UNCHANGED <<use, data, alive, search, iter, tmp, born>>

\* Mutant: the label give_up comes after the calls of free().
LoopFree_give_up ==
    /\ pc = "removed"
    /\ alive' \in {alive, alive \ {iter}}
    /\ pc' = "freed"
    /\ UNCHANGED <<use, next, prev, data, ring, search, loop, born>>

LoopFree ==
    /\ pc = "removed"
    /\ alive' = alive \ {iter}
    /\ pc' = "freed"
    /\ UNCHANGED <<use, next, prev, data, ring, search, loop, born>>

\* Mutant: PR_LIST_FOREACH, which reads the link of the entry just freed.
LoopNext_unsafe ==
    /\ pc = "freed"
    /\ iter' = next[iter]
    /\ tmp' = next[iter']
    /\ pc' = "loop"
    /\ UNCHANGED <<use, next, prev, data, alive, ring, search, shown, born>>

LoopNext ==
    /\ pc = "freed"
    /\ iter' = tmp
    /\ tmp' = next[tmp]
    /\ pc' = "loop"
    /\ UNCHANGED <<use, next, prev, data, alive, ring, search, shown, born>>

LoopEnd ==
    /\ pc = "loop"
    /\ iter = HEAD
    /\ alive' = alive \ {HEAD}
    /\ pc' = "done"
    /\ UNCHANGED <<use, next, prev, data, ring, search, loop, born>>

Done == pc = "done" /\ UNCHANGED vars

Init ==
    /\ use \in {"any", "crumbs", "ascending", "descending"}
    /\ next = [n \in All |-> n]
    /\ prev = [n \in All |-> n]
    /\ data \in [All -> Values] /\ \A m, n \in All : data[m] = data[n]
    /\ alive = {HEAD}
    /\ ring = <<HEAD>>
    /\ pc = "idle"
    /\ entry = HEAD /\ p = HEAD
    /\ iter = HEAD /\ tmp = HEAD
    /\ born = <<>>
    /\ shown = <<>>

Next ==
    \/ New
    \/ AppendEntry
    \/ PrependEntry
    \/ AppendStr
    \/ PrependStr
    \/ RemoveEntry
    \/ FreeEntry
    \/ add_breadcrumb
    \/ remove_breadcrumb
    \/ free_breadcrumbs
    \/ clear_breadcrumbs
    \/ free_crumb_list
    \/ StartSearch
    \/ StepSearch
    \/ EndSearch
    \/ StartLoop
    \/ LoopRemove
    \/ LoopFree
    \/ LoopNext
    \/ LoopEnd
    \/ Done

Spec == Init /\ [][Next]_vars

\* A call that has begun runs on: nothing else runs in between.
Running ==
    \/ StepSearch \/ EndSearch
    \/ LoopRemove \/ LoopFree \/ LoopNext \/ LoopEnd
    \/ clear_breadcrumbs \/ free_crumb_list

FairSpec == Spec /\ WF_vars(Running)

-----------------------------------------------------------------------------
\* The type invariant: links lead to entries or the head.
TypeOK ==
    /\ use \in {"any", "crumbs", "ascending", "descending"}
    /\ next \in [All -> All]
    /\ prev \in [All -> All]
    /\ data \in [All -> Nat]
    /\ alive \subseteq All
    /\ ring \in Seq(All)
    /\ pc \in {"idle", "search", "loop", "removed", "freed", "clear", "done"}
    /\ entry \in All /\ p \in All /\ iter \in All /\ tmp \in All
    /\ born \in Seq(All)
    /\ shown \in Seq(All)

\* s is what following next from the head visits, and prev in reverse.
Ring(s, nxt, prv) ==
    /\ Len(s) > 0 /\ s[1] = HEAD
    /\ \A i, j \in 1..Len(s) : s[i] = s[j] => i = j
    /\ \A i \in 1..(Len(s) - 1) : nxt[s[i]] = s[i + 1] /\ prv[s[i + 1]] = s[i]
    /\ nxt[s[Len(s)]] = HEAD /\ prv[HEAD] = s[Len(s)]

(***************************************************************************)
(* The list is one ring: following next from the head visits the entries   *)
(* of the list in order and comes back to the head, following prev visits  *)
(* them in the opposite order, no entry twice.  An entry outside the list  *)
(* is a ring of its own, so it can be added and released safely.           *)
(***************************************************************************)
LinksFollowRing ==
    /\ Ring(ring, next, prev)
    /\ \A n \in Loose : next[n] = n /\ prev[n] = n

(***************************************************************************)
(* No pointer that is still going to be followed leads to memory that was  *)
(* released: the links of the list, the cursor of a search, and tmp of     *)
(* PR_LIST_FOREACH_SAFE, whose body releases the entry it is at.           *)
(***************************************************************************)
NoDangling ==
    /\ pc # "done" => Listed \subseteq alive
    /\ pc = "search" => entry \in Loose /\ p \in Listed
    /\ pc \in {"loop", "removed", "freed"} => tmp \in Listed
    /\ pc = "loop" => iter \in Listed
    /\ pc = "removed" => iter \in Loose

\* The inductive invariant behind the three: tmp is the successor of iter.
IInv ==
    /\ TypeOK
    /\ LinksFollowRing
    /\ NoDangling
    /\ pc = "loop" => tmp = next[iter]

Older(m, n) == \E i, j \in 1..Len(born) : i < j /\ born[i] = m /\ born[j] = n

InOrder(m, n) ==
    CASE use = "ascending" -> data[m] < data[n] \/ (data[m] = data[n] /\ Older(m, n))
      [] use = "descending" -> data[m] > data[n] \/ (data[m] = data[n] /\ Older(n, m))
      [] OTHER -> TRUE

(***************************************************************************)
(* The sorted insertions keep the list sorted.  Entries that compare equal *)
(* stay in the order of their creation for pr_list_prepend_sorted(), which *)
(* is stable, and in the opposite order for pr_list_append_sorted().       *)
(***************************************************************************)
SortedAndStable == \A i, j \in 2..Len(ring) : i < j => InOrder(ring[i], ring[j])

(***************************************************************************)
(* The loop that takes a sorted list apart visits every entry, in order,   *)
(* although its body removes the entry it is at.  Neither the loop nor     *)
(* free_breadcrumbs() leaves memory behind.                                *)
(***************************************************************************)
LoopTakesAll ==
    pc = "done" =>
        /\ alive = {}
        /\ Elements(shown) = Elements(born)
        /\ \A i, j \in 1..Len(shown) : i < j => InOrder(shown[i], shown[j])

(***************************************************************************)
(* The sorted insertions, the loop and clear_breadcrumbs() end.  They stop *)
(* at the head only, so each would go on for ever in a ring without it.    *)
(***************************************************************************)
CallsEnd == pc # "idle" ~> pc \in {"idle", "done"}

=============================================================================
