----------------------------- MODULE ProcBranch -----------------------------
(***************************************************************************)
(* The ancestry of procenv's own process, as handle_proc_branch() of the   *)
(* platforms works it out.  Linux reads /proc/PID/status of one process    *)
(* after the other, while processes exit and their children are adopted.   *)
(* The BSDs and Darwin copy the process table and look for each parent in  *)
(* the copy, which may lack processes that procenv must not see.           *)
(*                                                                         *)
(* A name is represented by the number of the process it belongs to.  No   *)
(* number is used again while procenv runs.                                *)
(***************************************************************************)
EXTENDS Integers, Sequences, FiniteSets

CONSTANTS
    Pids,       \* the processes; 1 is init
    Self,       \* getpid()
    Attempts    \* the attempts that Darwin's driver counts down

ASSUME PidsAssumption == Pids \subseteq Nat \ {0} /\ 1 \in Pids
ASSUME SelfAssumption == Self \in Pids \ {1}
ASSUME AttemptsAssumption == Attempts \in Nat \ {0}

VARIABLES
    driver,
    alive, parent,      \* the kernel's processes
    was,                \* pairs of a process and its parent that there have been
    bpc,
    pid,                \* pid, pid_to_find or current
    name, ppid,         \* the buffers of Linux's driver, which keep their contents
    str, unknown,       \* what is shown, and whether UNKNOWN_STR ends it
    procs,              \* the copy of the process table
    at, found,          \* the entry that is looked at; found_pid
    attempts

kernel == <<driver, alive, parent, was>>
buffers == <<name, ppid>>
copy == <<procs, at, found>>
branchVars == <<kernel, bpc, pid, buffers, str, unknown, copy, attempts>>

Snapshots == {"freebsd", "netbsd", "openbsd", "darwin"}

\* No process is its own ancestor.
Acyclic(f) == \A S \in SUBSET Pids : S # {} => \E p \in S : f[p] \notin S

\* The ancestors of p.
Above(p) ==
    {q \in Pids : parent[p] # 0 /\ \A S \in SUBSET Pids :
        parent[p] \in S /\ (\A s \in S : parent[s] \in S \cup {0}) => q \in S}

Pairs(f) == {<<p, f[p]>> : p \in Pids}

\* The lists without repetition of the processes and the kernel's own.
Listings ==
    UNION {{l \in [1..Cardinality(S) -> S] : \A p \in S : \E k \in DOMAIN l : l[k] = p} :
              S \in SUBSET (Pids \cup {0})}

Show(p, n) == Append(str, [pid |-> p, name |-> n])

-----------------------------------------------------------------------------
\* A process ends and is reaped.  Its children go to an ancestor that has
\* asked for them or to init.  The other drivers work on a copy.
Exit ==
    /\ driver = "linux"
    /\ bpc \in {"open", "read"}
    /\ \E p \in alive \ {1, Self} : \E r \in (Above(p) \cap alive) \cup {1} :
          /\ alive' = alive \ {p}
          /\ parent' = [q \in Pids |-> IF q \in alive /\ parent[q] = p THEN r ELSE parent[q]]
    /\ was' = was \cup Pairs(parent')
    /\ UNCHANGED <<driver, bpc, pid, buffers, str, unknown, copy, attempts>>

\* Mutant: a process that is gone ends the list silently.
OpenStatus_silent ==
    /\ bpc = "open"
    /\ bpc' = IF pid \in alive THEN "read" ELSE "done"
    /\ UNCHANGED <<kernel, pid, buffers, str, unknown, copy, attempts>>

\* Mutant: it is tried again.
OpenStatus_again ==
    /\ bpc = "open"
    /\ bpc' = IF pid \in alive THEN "read" ELSE "open"
    /\ UNCHANGED <<kernel, pid, buffers, str, unknown, copy, attempts>>

OpenStatus ==
    /\ bpc = "open"
    /\ bpc' = IF pid \in alive THEN "read" ELSE "done"
    /\ unknown' = (pid \notin alive)
    /\ UNCHANGED <<kernel, pid, buffers, str, copy, attempts>>

\* The kernel writes all lines when the first one is read; of a process that
\* has gone in the meantime there are none, and the buffers stay as they are.
ReadStatus ==
    /\ bpc = "read"
    /\ IF pid \in alive
       THEN name' = pid /\ ppid' = parent[pid]
       ELSE UNCHANGED buffers
    /\ str' = Show(pid, name')
    /\ IF pid = 1
       THEN bpc' = "done" /\ UNCHANGED pid
       ELSE bpc' = "open" /\ pid' = ppid'
    /\ UNCHANGED <<kernel, unknown, copy, attempts>>

-----------------------------------------------------------------------------
(***************************************************************************)
(* The copy.  FreeBSD may hide any process but procenv itself; NetBSD and  *)
(* Darwin list process 0, its own parent, as well.  Darwin asks for the    *)
(* size first and reads again when the table has outgrown it; the room     *)
(* that is left over reads as process 0.                                   *)
(***************************************************************************)
Visible ==
    CASE driver = "freebsd" -> {S \in SUBSET (Pids \cup {0}) : Self \in S}
      [] driver = "openbsd" -> {Pids}
      [] OTHER -> {Pids \cup {0}}

Record(p) == [pid |-> p, ppid |-> IF p = 0 THEN 0 ELSE parent[p]]

Copied ==
    \E l \in {l \in Listings : {l[k] : k \in DOMAIN l} \in Visible}, spare \in (IF driver = "darwin" THEN 0..1 ELSE {0}) :
        procs' = [k \in 1..Len(l) |-> Record(l[k])] \o [k \in 1..spare |-> Record(0)]

\* die() when the table cannot be had.
kvm_getprocs ==
    /\ bpc = "copy"
    /\ driver # "darwin"
    /\ \/ Copied /\ bpc' = "scan"
       \/ bpc' = "died" /\ UNCHANGED procs
    /\ UNCHANGED <<kernel, pid, buffers, str, unknown, at, found, attempts>>

\* Another error, or the last attempt, leaves the entry out.
sysctl ==
    /\ bpc = "copy"
    /\ driver = "darwin"
    /\ attempts' = attempts - 1
    /\ \/ attempts' > 0 /\ Copied /\ bpc' = "scan"
       \/ attempts' > 0 /\ UNCHANGED <<bpc, procs>>
       \/ bpc' = "nothing" /\ UNCHANGED procs
    /\ UNCHANGED <<kernel, pid, buffers, str, unknown, at, found>>

\* The process at which the loops of the other three drivers end.
LastPid == IF driver = "openbsd" THEN 1 ELSE 0

ultimate_parent == CHOOSE p \in {procs[k].pid : k \in DOMAIN procs} :
                       \A k \in DOMAIN procs : p <= procs[k].pid

ScanEntry ==
    /\ bpc = "scan"
    /\ at <= Len(procs)
    /\ at' = at + 1
    /\ IF procs[at].pid # pid
       THEN UNCHANGED <<bpc, pid, str, found>>
       ELSE /\ str' = Show(pid, pid)
            /\ found' = TRUE
            /\ IF driver # "freebsd" /\ ultimate_parent = LastPid /\ pid = LastPid
               THEN bpc' = "done" /\ UNCHANGED pid
               ELSE pid' = procs[at].ppid /\ UNCHANGED bpc
    /\ UNCHANGED <<kernel, buffers, unknown, procs, attempts>>

\* Mutant: the search ends at init.
Complete_init == ~found \/ pid \in {0, 1}

\* Whether FreeBSD's driver stops after a pass through the table.
Complete == ~found \/ pid = 0

ScanAgain ==
    /\ bpc = "scan"
    /\ at > Len(procs)
    /\ at' = 1
    /\ found' = FALSE
    /\ bpc' = IF driver = "freebsd" /\ Complete THEN "done" ELSE "scan"
    /\ UNCHANGED <<kernel, pid, buffers, str, unknown, procs, attempts>>

-----------------------------------------------------------------------------
\* On Linux a process that entered the namespace from outside has parent 0.
BranchInit ==
    /\ driver \in Snapshots \cup {"linux"}
    /\ alive = Pids
    /\ parent \in {f \in [Pids -> Pids \cup {0}] : Acyclic(f) /\ f[1] = 0}
    /\ driver \in Snapshots => \A p \in Pids \ {1} : parent[p] # 0
    /\ was = Pairs(parent)
    /\ bpc = IF driver = "linux" THEN "open" ELSE "copy"
    /\ pid = Self
    /\ name = 0 /\ ppid = 0
    /\ str = <<>> /\ unknown = FALSE
    /\ procs = <<>> /\ at = 1 /\ found = FALSE
    /\ attempts = Attempts

handle_proc_branch ==
    \/ OpenStatus
    \/ ReadStatus
    \/ kvm_getprocs
    \/ sysctl
    \/ ScanEntry
    \/ ScanAgain

BranchEnded == bpc \in {"done", "died", "nothing"}

-----------------------------------------------------------------------------
\* The types; Darwin's count of attempts does not pass zero.
BranchTypeOK ==
    /\ driver \in Snapshots \cup {"linux"}
    /\ alive \subseteq Pids /\ parent \in [Pids -> Pids \cup {0}]
    /\ was \subseteq Pids \X (Pids \cup {0})
    /\ bpc \in {"open", "read", "copy", "scan", "done", "died", "nothing"}
    /\ pid \in Pids \cup {0} /\ name \in Pids \cup {0} /\ ppid \in Pids \cup {0}
    /\ str \in Seq([pid : Pids \cup {0}, name : Pids \cup {0}])
    /\ unknown \in BOOLEAN
    /\ procs \in Seq([pid : Pids \cup {0}, ppid : Pids \cup {0}])
    /\ at \in Nat /\ found \in BOOLEAN
    /\ attempts \in 0..Attempts

(***************************************************************************)
(* Linux: each process was the parent of the one before it at some time    *)
(* during the walk, and is shown with its own name.  Only the last one may *)
(* be shown with the name of its child, which the buffer still holds, if   *)
(* it exits between fopen() and fgets(); then the list ends in unknown,    *)
(* as does every list that does not reach init.  No driver shows a process *)
(* twice, although process 0 is its own parent where it is listed.         *)
(***************************************************************************)
Genuine ==
    /\ driver = "linux" =>
          /\ \A k \in 1..(Len(str) - 1) :
                str[k].name = str[k].pid /\ <<str[k].pid, str[k + 1].pid>> \in was
          /\ bpc = "done" =>
                \/ unknown
                \/ str[Len(str)] = [pid |-> 1, name |-> 1]
    /\ \A j, k \in 1..Len(str) : j # k => str[j].pid # str[k].pid

Listed(p) == \E k \in DOMAIN procs : procs[k].pid = p

(***************************************************************************)
(* The drivers that copy the table show the whole ancestry: each process   *)
(* is followed by its parent, and the last one is the process the platform *)
(* calls the ultimate parent or, on FreeBSD, one whose parent is 0 or      *)
(* hidden.                                                                 *)
(***************************************************************************)
FullAncestry ==
    driver \in Snapshots /\ bpc = "done" =>
        /\ str[1].pid = Self
        /\ \A k \in 1..(Len(str) - 1) : str[k + 1].pid = Record(str[k].pid).ppid
        /\ LET final == str[Len(str)].pid
           IN  IF driver = "freebsd"
               THEN Record(final).ppid = 0 \/ ~Listed(Record(final).ppid)
               ELSE final = LastPid

=============================================================================
