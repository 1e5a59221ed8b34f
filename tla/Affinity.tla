------------------------------ MODULE Affinity ------------------------------
(***************************************************************************)
(* show_cpu_affinities_generic() of platform-generic.c with                *)
(* get_cpuset_linux() of linux/platform.c: the CPUs the process may run on,*)
(* as a list of ranges.  The kernel refuses a CPU set too small for all    *)
(* CPUs the system may ever have, and it is asked again with a larger one. *)
(* CPUs come and go meanwhile, and their number is read twice.             *)
(***************************************************************************)
EXTENDS Integers, Sequences, FiniteSets

CONSTANTS
    Cpus,       \* the CPUs that the system may have are 0 .. Cpus - 1
    Word,       \* CPUs per word of a CPU set
    Arbitrary,  \* the value get_cpuset_linux() bails out at, 128 in the code
    CPU_SETSIZE \* CPUs of a cpu_set_t, 1024 in the C library

ASSUME CpusAssumption == Cpus \in Nat \ {0}
ASSUME WordAssumption == Word \in Nat \ {0}
ASSUME ArbitraryAssumption == Arbitrary \in Nat
ASSUME SetSizeAssumption == CPU_SETSIZE \in Nat

VARIABLES
    apc,                    \* where the handler is
    online,                 \* the CPUs that are online, the kernel's
    max, mult,              \* of get_cpuset_linux()
    size,                   \* of the CPU set, in CPUs
    cs,                     \* the CPU set: "none", "live", "freed" or "freed twice"
    cpu_set,                \* the CPUs in it
    top,                    \* max of show_cpu_affinities_generic()
    cpu, first, last, count,
    cpu_list                \* the ranges appended so far, of a first and a last CPU

cpusetVars == <<max, mult, size, cs, cpu_set>>
listVars == <<top, cpu, first, last, count, cpu_list>>
affinityVars == <<apc, online, cpusetVars, listVars>>

All == 0..(Cpus - 1)
Online == Cardinality(online)

\* The CPUs that a set allocated for n of them has room for: whole words.
CPU_ALLOC_SIZE(n) == ((n + Word - 1) \div Word) * Word

-----------------------------------------------------------------------------
\* A CPU goes online or offline, at any time.
Hotplug ==
    /\ apc \in {"get_cpuset", "getaffinity", "got"}
    /\ \E c \in All : online' = IF c \in online THEN online \ {c} ELSE online \cup {c}
    /\ online' # {}
    /\ UNCHANGED <<apc, cpusetVars, listVars>>

\* The first CPU set; without memory for it, nothing is shown.
get_cpuset_linux ==
    /\ apc = "get_cpuset"
    /\ max' = Online
    /\ size' = CPU_ALLOC_SIZE(max')
    /\ \/ apc' = "getaffinity" /\ cs' = "live"
       \/ apc' = "returned" /\ UNCHANGED cs
    /\ UNCHANGED <<online, mult, cpu_set, listVars>>

\* The kernel fills a set that is large enough with CPUs that are online.
Filled ==
    /\ apc = "getaffinity"
    /\ size >= Cpus
    /\ \E allowed \in (SUBSET online) \ {{}} : cpu_set' = allowed
    /\ apc' = "got"
    /\ UNCHANGED <<online, max, mult, size, cs, listVars>>

\* EINVAL: the set is released and a larger one takes its place, which is
\* cleared at once, also when there was no memory for it.
Enlarge ==
    /\ apc = "getaffinity"
    /\ size < Cpus
    /\ mult <= Arbitrary
    /\ mult' = mult + 2
    /\ size' = CPU_ALLOC_SIZE(mult' * max)
    /\ \/ UNCHANGED <<apc, cs>>
       \/ apc' = "crashed" /\ cs' = "none"
    /\ UNCHANGED <<online, max, cpu_set, listVars>>

\* Mutant: the loop bails out the first time.
Bail_at_once ==
    /\ apc = "getaffinity"
    /\ size < Cpus
    /\ cs' = "freed twice"
    /\ apc' = "returned"
    /\ UNCHANGED <<online, max, mult, size, cpu_set, listVars>>

\* EINVAL once too often: the set is released in the loop, and after it.
Bail ==
    /\ apc = "getaffinity"
    /\ size < Cpus
    /\ mult > Arbitrary
    /\ cs' = "freed twice"
    /\ apc' = "returned"
    /\ UNCHANGED <<online, max, mult, size, cpu_set, listVars>>

\* Mutant: an error is not looked at.
Refused_ignored ==
    /\ apc = "getaffinity"
    /\ apc' = "got"
    /\ UNCHANGED <<online, cpusetVars, listVars>>

\* Any other error.
Refused ==
    /\ apc = "getaffinity"
    /\ cs' = "freed"
    /\ apc' = "returned"
    /\ UNCHANGED <<online, max, mult, size, cpu_set, listVars>>

-----------------------------------------------------------------------------
\* The number of CPUs is read again, after get_cpuset().
ReadTop ==
    /\ apc = "got"
    /\ top' = Online
    /\ apc' = "scan"
    /\ UNCHANGED <<online, cpusetVars, cpu, first, last, count, cpu_list>>

\* The range being read joins the list.
WithRange == IF count > 0 THEN Append(cpu_list, <<first, last>>) ELSE cpu_list

\* CPU_ISSET(), not CPU_ISSET_S(): whatever the size of the set, it knows no
\* CPU beyond those of a cpu_set_t.
cpuset_has_cpu_linux(c) == c < CPU_SETSIZE /\ c \in cpu_set

\* An iteration that finds the CPU in the set.
InSet ==
    /\ apc = "scan" /\ cpu < top /\ cpuset_has_cpu_linux(cpu)
    /\ first' = IF count = 0 THEN cpu ELSE first
    /\ last' = cpu
    /\ count' = count + 1
    /\ cpu' = cpu + 1
    /\ UNCHANGED <<apc, online, cpusetVars, top, cpu_list>>

\* Mutant: the count of the range is not reset.
NotInSet_no_reset ==
    /\ apc = "scan" /\ cpu < top /\ ~cpuset_has_cpu_linux(cpu)
    /\ cpu_list' = WithRange
    /\ cpu' = cpu + 1
    /\ UNCHANGED <<apc, online, cpusetVars, top, first, last, count>>

\* An iteration that does not: a range that ends here joins the list.
NotInSet ==
    /\ apc = "scan" /\ cpu < top /\ ~cpuset_has_cpu_linux(cpu)
    /\ cpu_list' = WithRange
    /\ count' = 0
    /\ cpu' = cpu + 1
    /\ UNCHANGED <<apc, online, cpusetVars, top, first, last>>

\* After the loop: the last range, the entry ("-1" for no range), the release.
ShowList ==
    /\ apc = "scan" /\ cpu >= top
    /\ cpu_list' = WithRange
    /\ cs' = "freed"
    /\ apc' = "shown"
    /\ UNCHANGED <<online, max, mult, size, cpu_set, top, cpu, first, last, count>>

AffinityInit ==
    /\ apc = "get_cpuset"
    /\ online \in (SUBSET All) \ {{}}
    /\ max = 0 /\ mult = 0 /\ size = 0 /\ cs = "none" /\ cpu_set = {}
    /\ top = 0 /\ cpu = 0 /\ first = 0 /\ last = 0 /\ count = 0 /\ cpu_list = <<>>

Handler ==
    \/ get_cpuset_linux \/ Filled \/ Enlarge \/ Bail \/ Refused
    \/ ReadTop \/ InSet \/ NotInSet \/ ShowList

AffinityNext == Hotplug \/ Handler

AffinitySpec == AffinityInit /\ [][AffinityNext]_affinityVars

-----------------------------------------------------------------------------
(***************************************************************************)
(* The counters of show_cpu_affinities_generic() are CPU numbers: the loop *)
(* ends at the number of CPUs and a range has as many as it counts.        *)
(***************************************************************************)
AffinityTypeOK ==
    /\ apc \in {"get_cpuset", "getaffinity", "got", "scan", "shown", "returned", "crashed"}
    /\ online \in SUBSET All /\ online # {}
    /\ max \in 0..Cpus /\ mult \in 0..(Arbitrary + 2) /\ size \in Nat
    /\ cs \in {"none", "live", "freed", "freed twice"}
    /\ cpu_set \in SUBSET All
    /\ top \in 0..Cpus /\ cpu \in 0..top
    /\ first \in 0..cpu /\ last \in 0..cpu /\ count \in 0..cpu
    /\ cpu_list \in Seq(All \X All)

CpusListed ==
    {c \in All : \E r \in DOMAIN cpu_list : cpu_list[r][1] <= c /\ c <= cpu_list[r][2]}

(***************************************************************************)
(* The list of show_cpu_affinities_generic() is exact and as short as can  *)
(* be: it names the CPUs of the set below the number of CPUs it read last  *)
(* and below CPU_SETSIZE, beyond which cpuset_has_cpu_linux() finds none,  *)
(* each in one range, and no two ranges touch.                             *)
(***************************************************************************)
ExactList ==
    apc = "shown" =>
        /\ CpusListed = {c \in cpu_set : c < top /\ c < CPU_SETSIZE}
        /\ \A i \in DOMAIN cpu_list : cpu_list[i][1] <= cpu_list[i][2]
        /\ \A i, j \in DOMAIN cpu_list : i < j => cpu_list[i][2] + 1 < cpu_list[j][1]

(***************************************************************************)
(* The loop of show_cpu_affinities_generic() never looks beyond the CPU    *)
(* set, although the set was made for an earlier number of CPUs.           *)
(***************************************************************************)
LooksInside == apc = "scan" => cs = "live" /\ top <= size

(***************************************************************************)
(* get_cpuset_linux() and its caller release the CPU set once, however     *)
(* often it was enlarged, unless the loop bailed out: that takes a system  *)
(* with more CPUs than the number online times the largest factor tried.   *)
(***************************************************************************)
CpusetReleased ==
    /\ apc = "shown" => cs = "freed"
    /\ cs = "freed twice" => max * Arbitrary < Cpus
=============================================================================
