------------------------------- MODULE Groups -------------------------------
(***************************************************************************)
(* show_all_groups() of procenv.c.  getgroups() is asked again with room   *)
(* for one more group as long as it fails, for whatever reason.  A group   *)
(* stands for its text, and is the rank of that text among the texts.      *)
(***************************************************************************)
EXTENDS Integers, Sequences, FiniteSets, TLC, SequencesExt

CONSTANTS
    MaxGroups,  \* bound on the groups of the process
    Room,       \* groups that the first array has room for, 32 in the code
    Memory      \* bound on the groups that memory has room for

ASSUME GroupsAssumption == MaxGroups \in Nat /\ Room \in Nat \ {0} /\ Memory >= Room

VARIABLES
    gpc,            \* where the handler is
    member,         \* the groups of the process, the kernel's
    refuses,        \* getgroups() fails whatever the room
    memory,         \* groups that memory has room for
    length,         \* size of the code: groups asked for, then groups read
    groups,         \* the array, <<>> when there is none
    held,           \* the array is allocated
    entry           \* the groups of the entry; <<0>> is the group of the user entry

groupVars == <<gpc, member, refuses, memory, length, groups, held, entry>>

\* An element that getgroups() did not write.
Unset == 0

AllocGroups ==
    /\ gpc = "alloc"
    /\ \/ /\ length <= memory
          /\ gpc' = "getgroups"
          /\ held' = TRUE
          /\ groups' = [i \in 1..length |-> Unset]
       \/ length > memory /\ gpc' = "died" /\ UNCHANGED <<held, groups>>
    /\ UNCHANGED <<member, refuses, memory, length, entry>>

\* Mutant: the number of groups read is not taken over.
GroupsRead_same_length ==
    /\ gpc = "getgroups"
    /\ ~refuses /\ Cardinality(member) <= length
    /\ \E order \in SetToSeqs(member) :
           groups' = [i \in DOMAIN groups |-> IF i <= Len(order) THEN order[i] ELSE groups[i]]
    /\ gpc' = IF length = 0 THEN "none" ELSE "names"
    /\ UNCHANGED <<member, refuses, memory, length, held, entry>>

\* The kernel writes the groups in an order of its own.
GroupsRead ==
    /\ gpc = "getgroups"
    /\ ~refuses /\ Cardinality(member) <= length
    /\ length' = Cardinality(member)
    /\ \E order \in SetToSeqs(member) :
           groups' = [i \in DOMAIN groups |-> IF i <= Len(order) THEN order[i] ELSE groups[i]]
    /\ gpc' = IF length' = 0 THEN "none" ELSE "names"
    /\ UNCHANGED <<member, refuses, memory, held, entry>>

\* Mutant: no more groups are asked for.
GroupsFailed_same_length ==
    /\ gpc = "getgroups"
    /\ refuses \/ Cardinality(member) > length
    /\ UNCHANGED groupVars

\* getgroups() failed: one more, if there is memory for it.
GroupsFailed ==
    /\ gpc = "getgroups"
    /\ refuses \/ Cardinality(member) > length
    /\ length' = length + 1
    /\ \/ length' <= memory /\ groups' = Append(groups, Unset) /\ UNCHANGED <<gpc, held>>
       \/ length' > memory /\ gpc' = "died" /\ held' = FALSE /\ UNCHANGED groups
    /\ UNCHANGED <<member, refuses, memory, entry>>

\* No group: the one of the user entry, or that it is unknown.
NoGroups ==
    /\ gpc = "none"
    /\ held' = FALSE
    /\ entry' = <<Unset>>
    /\ gpc' = "returned"
    /\ UNCHANGED <<member, refuses, memory, length, groups>>

\* The names are made, sorted, joined and released, and then the groups.
NameGroups ==
    /\ gpc = "names"
    /\ \/ /\ entry' = SortSeq(SubSeq(groups, 1, length), <)
          /\ held' = FALSE
          /\ gpc' = "returned"
       \/ gpc' = "died" /\ UNCHANGED <<held, entry>>
    /\ UNCHANGED <<member, refuses, memory, length, groups>>

GroupsInit ==
    /\ gpc = "alloc"
    /\ member \in SUBSET (1..MaxGroups)
    /\ refuses \in BOOLEAN
    /\ memory \in 0..Memory
    /\ length = Room /\ groups = <<>> /\ held = FALSE /\ entry = <<>>

GroupsNext == AllocGroups \/ GroupsRead \/ GroupsFailed \/ NoGroups \/ NameGroups

-----------------------------------------------------------------------------
(***************************************************************************)
(* The entry of show_all_groups() has every group of the process once, in  *)
(* order, however many times the array had to grow, and nothing that       *)
(* getgroups() did not write.  A process without groups has the group of   *)
(* its user entry.  All memory is released by then, and until then         *)
(* getgroups() is told of no more memory than there is.                    *)
(***************************************************************************)
AllGroupsShown ==
    /\ gpc = "getgroups" => Len(groups) = length /\ held
    /\ gpc = "returned" =>
          /\ ~held
          /\ IF member = {} THEN entry = <<Unset>>
             ELSE /\ ToSet(entry) = member
                  /\ \A i, j \in DOMAIN entry : i < j => entry[i] < entry[j]
=============================================================================
