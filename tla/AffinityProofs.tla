--------------------------- MODULE AffinityProofs ---------------------------
(***************************************************************************)
(* Proofs about Affinity for every number of CPUs, every word size and     *)
(* every limit of the retries.  The list is exact because at every         *)
(* iteration the CPUs seen so far are those listed and those of the range  *)
(* being read (ScanInv); the loop stays inside the CPU set because the     *)
(* kernel only fills a set that has room for all CPUs.                     *)
(***************************************************************************)
EXTENDS Affinity, FiniteSetTheorems, TLAPS

\* Where the range being read, or the next one, can begin at the least.
Frontier == IF count > 0 THEN first ELSE cpu

\* The CPUs of the set that the loop has seen are listed or in the range being read.
Seen ==
    \A c \in All :
        (cpuset_has_cpu_linux(c) /\ c < cpu) <=> (c \in CpusListed \/ (count > 0 /\ first <= c /\ c <= last))

Separate ==
    /\ \A i \in DOMAIN cpu_list : cpu_list[i][1] <= cpu_list[i][2]
    /\ \A i, j \in DOMAIN cpu_list : i < j => cpu_list[i][2] + 1 < cpu_list[j][1]

ScanInv ==
    /\ Seen
    /\ Separate
    /\ \A i \in DOMAIN cpu_list : cpu_list[i][2] + 1 < Frontier
    /\ count > 0 => last + 1 = cpu /\ first <= last

\* The CPU set has room for the factor tried last times the CPUs online.
Covered == size >= mult * max

IInv ==
    /\ AffinityTypeOK
    /\ apc = "get_cpuset" => mult = 0 /\ cs = "none"
    /\ apc = "getaffinity" => cs = "live" /\ max > 0 /\ Covered
    /\ apc \in {"got", "scan"} => cs = "live" /\ size >= Cpus
    /\ apc \in {"get_cpuset", "getaffinity", "got"} =>
           cpu = 0 /\ count = 0 /\ cpu_list = <<>>
    /\ apc = "scan" => ScanInv
    /\ ExactList
    /\ CpusetReleased

\* A CPU set has room for the CPUs that it was allocated for.
LEMMA SizeCovers ==
    ASSUME NEW n \in Nat
    PROVE  CPU_ALLOC_SIZE(n) \in Nat /\ CPU_ALLOC_SIZE(n) >= n
  <1> DEFINE a == n + Word - 1
             q == a \div Word
  <1>1. a \in Nat
    BY WordAssumption
  <1> HIDE DEF a
  <1>2. q \in Nat
    BY <1>1, WordAssumption, SMT
  <1>3. q * Word > a - Word
    BY <1>1, WordAssumption, SMT
  <1>4. q * Word \in Nat
    BY <1>2, WordAssumption, SMT
  <1> HIDE DEF q
  <1>5. q * Word >= n
    BY <1>1, <1>2, <1>3, <1>4, WordAssumption, SMT DEF a
  <1> QED
    BY <1>4, <1>5 DEF q, a, CPU_ALLOC_SIZE

\* A larger factor makes a larger product.
LEMMA Larger ==
    ASSUME NEW f \in Nat, NEW a \in Nat, NEW m \in Nat, m > 0, f > a
    PROVE  m * a < f * m
  BY SMT

\* The number of CPUs online is at least one and at most all.
LEMMA OnlineBounds ==
    ASSUME online \in SUBSET All, online # {}
    PROVE  Online \in 1..Cpus
  <1>1. IsFiniteSet(All) /\ Cardinality(All) = Cpus
    BY FS_Interval, CpusAssumption DEF All
  <1>2. IsFiniteSet(online) /\ Cardinality(online) <= Cardinality(All)
    BY <1>1, FS_Subset
  <1>3. Cardinality(online) \in Nat /\ Cardinality(online) # 0
    BY <1>2, FS_CardinalityType, FS_EmptySet
  <1> QED
    BY <1>1, <1>2, <1>3, CpusAssumption DEF Online

LEMMA InitIInv == AffinityInit => IInv
  <1> SUFFICES ASSUME AffinityInit PROVE IInv
    OBVIOUS
  <1>1. online \in SUBSET All /\ online # {}
    BY DEF AffinityInit
  <1>2. /\ max \in 0..Cpus /\ mult \in 0..(Arbitrary + 2) /\ size \in Nat
        /\ top \in 0..Cpus /\ cpu \in 0..top
        /\ first \in 0..cpu /\ last \in 0..cpu /\ count \in 0..cpu
    BY CpusAssumption, ArbitraryAssumption DEF AffinityInit
  <1>3. cpu_set \in SUBSET All /\ cpu_list \in Seq(All \X All)
    BY DEF AffinityInit
  <1> QED
    BY <1>1, <1>2, <1>3 DEF AffinityInit, IInv, AffinityTypeOK, ExactList, CpusetReleased

\* Asking for the CPU set, until the kernel fills one.
LEMMA AskingKeeps ==
    ASSUME IInv, Hotplug \/ get_cpuset_linux \/ Filled \/ Enlarge \/ Bail \/ Refused
    PROVE  IInv'
  <1>0. /\ online \in SUBSET All /\ online # {}
        /\ max \in 0..Cpus /\ mult \in 0..(Arbitrary + 2) /\ size \in Nat
    BY DEF IInv, AffinityTypeOK
  <1>1. CASE Hotplug
    <2>1. online' \in SUBSET All /\ online' # {}
      BY <1>0, <1>1 DEF Hotplug
    <2> QED
      BY <1>1, <2>1 DEF Hotplug, IInv, AffinityTypeOK, ExactList, CpusetReleased, ScanInv, Seen,
         Separate, Frontier, CpusListed, cpuset_has_cpu_linux, Covered, cpusetVars, listVars
  <1>2. CASE get_cpuset_linux
    <2>1. Online \in 1..Cpus
      BY <1>0, OnlineBounds
    <2>2. Online \in Nat /\ Online > 0 /\ Online <= Cpus
      BY <2>1, CpusAssumption
    <2>3. CPU_ALLOC_SIZE(Online) \in Nat
      BY <2>2, SizeCovers
    <2>4. max' \in 0..Cpus /\ max' > 0 /\ size' \in Nat
      BY <1>2, <2>2, <2>3, CpusAssumption DEF get_cpuset_linux
    <2>5. mult' = 0
      BY <1>2 DEF get_cpuset_linux, IInv
    <2>6. mult' * max' = 0
      <3>1. \A m \in Nat : 0 * m = 0
        BY SMT
      <3>2. max' \in Nat
        BY <2>4, CpusAssumption
      <3> QED
        BY <2>5, <3>1, <3>2
    <2>7. Covered'
      BY <2>4, <2>6 DEF Covered
    <2> QED
      BY <1>2, <2>4, <2>5, <2>7
      DEF get_cpuset_linux, IInv, AffinityTypeOK, ExactList, CpusetReleased, listVars
  <1>3. CASE Filled
    <2>1. cpu_set' \in SUBSET All
      BY <1>0, <1>3 DEF Filled
    <2> QED
      BY <1>3, <2>1 DEF Filled, IInv, AffinityTypeOK, ExactList, CpusetReleased, listVars
  <1>4. CASE Enlarge
    <2>1. mult' \in 0..(Arbitrary + 2) /\ mult' * max \in Nat
      BY <1>0, <1>4, ArbitraryAssumption, CpusAssumption DEF Enlarge
    <2>2. CPU_ALLOC_SIZE(mult' * max) \in Nat /\ CPU_ALLOC_SIZE(mult' * max) >= mult' * max
      BY <2>1, SizeCovers
    <2>3. size' \in Nat /\ Covered'
      BY <1>4, <2>2 DEF Enlarge, Covered
    <2> QED
      BY <1>4, <2>1, <2>3
      DEF Enlarge, IInv, AffinityTypeOK, ExactList, CpusetReleased, listVars
  <1>5. CASE Bail
    <2>1. max > 0 /\ Covered
      BY <1>5 DEF Bail, IInv
    <2>2. mult \in Nat /\ max \in Nat /\ mult * max \in Nat /\ max * Arbitrary \in Nat
      BY <1>0, ArbitraryAssumption, CpusAssumption
    <2>3. max * Arbitrary < mult * max
      BY <1>5, <2>1, <2>2, Larger, ArbitraryAssumption DEF Bail
    <2>4. mult * max < Cpus
      <3>1. size < Cpus /\ size >= mult * max
        BY <1>5, <2>1 DEF Bail, Covered
      <3> QED
        BY <1>0, <2>2, <3>1, CpusAssumption
    <2>5. max * Arbitrary < Cpus
      BY <2>2, <2>3, <2>4, CpusAssumption
    <2> QED
      BY <1>5, <2>5 DEF Bail, IInv, AffinityTypeOK, ExactList, CpusetReleased, listVars
  <1>6. CASE Refused
    BY <1>6 DEF Refused, IInv, AffinityTypeOK, ExactList, CpusetReleased, listVars
  <1> QED
    BY <1>1, <1>2, <1>3, <1>4, <1>5, <1>6

\* The number of CPUs read again is within the CPU set, and nothing is listed yet.
LEMMA ReadTopKeeps ==
    ASSUME IInv, ReadTop
    PROVE  IInv'
  <1>1. Online \in 1..Cpus
    BY OnlineBounds DEF IInv, AffinityTypeOK
  <1>2. /\ top' \in 0..Cpus /\ cpu' = 0 /\ count' = 0 /\ cpu_list' = <<>>
        /\ apc' = "scan" /\ cs' = "live" /\ size' >= Cpus
    BY <1>1, CpusAssumption DEF ReadTop, IInv, cpusetVars
  <1>3. cpu' \in 0..top' /\ first' \in 0..cpu' /\ last' \in 0..cpu' /\ count' \in 0..cpu'
    <2>1. first \in 0..0 /\ last \in 0..0
      BY DEF ReadTop, IInv, AffinityTypeOK
    <2> QED
      BY <1>2, <2>1, CpusAssumption DEF ReadTop
  <1>4. ScanInv'
    BY <1>2 DEF ScanInv, Seen, Separate, Frontier, CpusListed, All
  <1>5. AffinityTypeOK'
    BY <1>2, <1>3 DEF ReadTop, IInv, AffinityTypeOK, cpusetVars
  <1>6. ExactList' /\ CpusetReleased'
    BY <1>2 DEF ReadTop, IInv, ExactList, CpusetReleased, cpusetVars
  <1> QED
    BY <1>2, <1>4, <1>5, <1>6 DEF IInv
\* The CPUs of a list to which the range being read has been appended.
LEMMA WithRangeLists ==
    ASSUME AffinityTypeOK, ScanInv, cpu <= Cpus, cpu_list' = WithRange
    PROVE  /\ cpu_list' \in Seq(All \X All)
           /\ Separate'
           /\ \A i \in DOMAIN cpu_list' : cpu_list'[i][2] < cpu
           /\ \A c \in All : c \in CpusListed' <=> (cpuset_has_cpu_linux(c) /\ c < cpu)
  <1>1. cpu_list \in Seq(All \X All) /\ cpu \in Nat /\ first \in Nat /\ last \in Nat /\ count \in Nat
    <2>1. /\ cpu_list \in Seq(All \X All) /\ top \in 0..Cpus /\ cpu \in 0..top
          /\ first \in 0..cpu /\ last \in 0..cpu /\ count \in 0..cpu
      BY DEF AffinityTypeOK
    <2>2. cpu \in Nat
      BY <2>1, CpusAssumption
    <2> QED
      BY <2>1, <2>2
  <1>2. CASE count > 0
    <2>1. cpu_list' = Append(cpu_list, <<first, last>>)
      BY <1>2 DEF WithRange
    <2>2. first <= last /\ last + 1 = cpu /\ <<first, last>> \in All \X All
      BY <1>1, <1>2, CpusAssumption DEF ScanInv, All
    <2>3. \A i \in DOMAIN cpu_list :
              cpu_list[i] \in All \X All /\ cpu_list[i][1] \in Nat /\ cpu_list[i][2] \in Nat
      BY <1>1, CpusAssumption DEF All
    <2>4. /\ cpu_list' \in Seq(All \X All)
          /\ DOMAIN cpu_list' = 1..(Len(cpu_list) + 1)
          /\ \A i \in 1..Len(cpu_list) : cpu_list'[i] = cpu_list[i]
          /\ cpu_list'[Len(cpu_list) + 1] = <<first, last>>
      BY <1>1, <2>1, <2>2
    <2>5. DOMAIN cpu_list = 1..Len(cpu_list) /\ Len(cpu_list) \in Nat
      BY <1>1
    <2>6. \A i \in DOMAIN cpu_list : cpu_list[i][2] + 1 < first
      BY <1>2 DEF ScanInv, Frontier
    <2>7. Separate'
      <3>1. Separate
        BY DEF ScanInv
      <3>2. \A i \in DOMAIN cpu_list' : cpu_list'[i][1] <= cpu_list'[i][2]
        BY <2>2, <2>4, <2>5, <3>1 DEF Separate
      <3>3. ASSUME NEW i \in DOMAIN cpu_list', NEW j \in DOMAIN cpu_list', i < j
            PROVE  cpu_list'[i][2] + 1 < cpu_list'[j][1]
        <4>1. i \in DOMAIN cpu_list /\ cpu_list'[i] = cpu_list[i]
          BY <2>4, <2>5, <3>3
        <4>2. CASE j \in DOMAIN cpu_list
          BY <2>4, <2>5, <3>1, <3>3, <4>1, <4>2 DEF Separate
        <4>3. CASE j = Len(cpu_list) + 1
          BY <2>4, <2>6, <4>1, <4>3
        <4> QED
          BY <2>4, <2>5, <4>2, <4>3
      <3> QED
        BY <3>2, <3>3 DEF Separate
    <2>8. \A i \in DOMAIN cpu_list' : cpu_list'[i][2] < cpu
      BY <1>1, <2>2, <2>3, <2>4, <2>5, <2>6, SMTT(30)
    <2>9. \A c \in All : c \in CpusListed' <=> (c \in CpusListed \/ (first <= c /\ c <= last))
      BY <2>4, <2>5 DEF CpusListed
    <2> QED
      BY <1>2, <2>4, <2>7, <2>8, <2>9 DEF ScanInv, Seen
  <1>3. CASE ~(count > 0)
    <2>1. cpu_list' = cpu_list
      BY <1>3 DEF WithRange
    <2>2. \A i \in DOMAIN cpu_list : cpu_list[i][2] + 1 < cpu /\ cpu_list[i][2] \in Nat
      BY <1>1, <1>3, CpusAssumption DEF ScanInv, Frontier, All
    <2>3. \A i \in DOMAIN cpu_list' : cpu_list'[i][2] < cpu
      BY <1>1, <2>1, <2>2
    <2>4. Separate' /\ CpusListed' = CpusListed
      BY <2>1 DEF ScanInv, Separate, CpusListed
    <2> QED
      BY <1>1, <1>3, <2>1, <2>3, <2>4 DEF ScanInv, Seen
  <1> QED
    BY <1>2, <1>3
\* The counters of the loop are naturals, and the CPU it looks at is a CPU.
LEMMA Counters ==
    ASSUME AffinityTypeOK
    PROVE  /\ cpu \in Nat /\ first \in Nat /\ last \in Nat /\ count \in Nat /\ top \in Nat
           /\ cpu <= top /\ top <= Cpus
           /\ first <= cpu /\ last <= cpu /\ count <= cpu
  <1>1. top \in 0..Cpus /\ cpu \in 0..top /\ first \in 0..cpu /\ last \in 0..cpu /\ count \in 0..cpu
    BY DEF AffinityTypeOK
  <1>2. cpu \in Nat /\ top \in Nat
    BY <1>1, CpusAssumption
  <1> QED
    BY <1>1, <1>2, CpusAssumption

\* A CPU in the set begins or extends the range being read.
LEMMA InSetKeeps ==
    ASSUME IInv, InSet
    PROVE  IInv'
  <1>1. AffinityTypeOK /\ ScanInv
    BY DEF IInv, InSet
  <1>2. /\ cpu < top /\ cpuset_has_cpu_linux(cpu) /\ cpu' = cpu + 1 /\ last' = cpu /\ count' = count + 1
        /\ first' = IF count = 0 THEN cpu ELSE first
    BY DEF InSet
  <1>3. UNCHANGED <<apc, online, max, mult, size, cs, cpu_set, top, cpu_list>>
    BY DEF InSet, cpusetVars
  <1>4. /\ cpu' \in 0..top' /\ first' \in 0..cpu' /\ last' \in 0..cpu' /\ count' \in 0..cpu'
        /\ count' > 0 /\ first' <= last' /\ last' + 1 = cpu'
    BY <1>1, <1>2, <1>3, Counters DEF ScanInv
  <1>5. Seen'
    <2>1. CpusListed' = CpusListed
      BY <1>3 DEF CpusListed
    <2>2. ASSUME NEW c \in All
          PROVE  (cpuset_has_cpu_linux(c)' /\ c < cpu') <=> (c \in CpusListed' \/ (count' > 0 /\ first' <= c /\ c <= last'))
      <3>1. c \in Nat
        BY CpusAssumption DEF All
      <3>2. (cpuset_has_cpu_linux(c) /\ c < cpu) <=> (c \in CpusListed \/ (count > 0 /\ first <= c /\ c <= last))
        BY <1>1 DEF ScanInv, Seen
      <3> cpuset_has_cpu_linux(c)' = cpuset_has_cpu_linux(c)
        BY <1>3 DEF cpuset_has_cpu_linux
      <3>3. CASE count = 0
        BY <1>1, <1>2, <1>3, <2>1, <3>1, <3>2, <3>3, Counters
      <3>4. CASE count > 0
        <4>1. last + 1 = cpu /\ first <= last
          BY <1>1, <3>4 DEF ScanInv
        <4> QED
          BY <1>1, <1>2, <1>3, <2>1, <3>1, <3>2, <3>4, <4>1, Counters
      <3> QED
        BY <1>1, <3>3, <3>4, Counters
    <2> QED
      BY <2>2 DEF Seen
  <1>6. Separate' /\ \A i \in DOMAIN cpu_list' : cpu_list'[i][2] + 1 < Frontier'
    <2>1. Frontier' = Frontier
      BY <1>1, <1>2, <1>4, Counters DEF Frontier
    <2> QED
      BY <1>1, <1>3, <2>1 DEF ScanInv, Separate
  <1>7. ScanInv'
    BY <1>4, <1>5, <1>6 DEF ScanInv
  <1>8. AffinityTypeOK'
    BY <1>1, <1>3, <1>4 DEF AffinityTypeOK
  <1>9. apc = "scan" /\ apc' = "scan" /\ cs' = "live" /\ size' >= Cpus
    BY <1>3 DEF IInv, InSet
  <1>10. CpusetReleased' /\ ExactList'
    BY <1>3, <1>9 DEF CpusetReleased, ExactList
  <1> QED
    BY <1>7, <1>8, <1>9, <1>10 DEF IInv

\* A CPU that is not in the set ends the range being read.
LEMMA NotInSetKeeps ==
    ASSUME IInv, NotInSet
    PROVE  IInv'
  <1>1. AffinityTypeOK /\ ScanInv
    BY DEF IInv, NotInSet
  <1>2. cpu < top /\ ~cpuset_has_cpu_linux(cpu) /\ cpu' = cpu + 1 /\ count' = 0 /\ cpu_list' = WithRange
    BY DEF NotInSet
  <1>3. UNCHANGED <<apc, online, max, mult, size, cs, cpu_set, top, first, last>>
    BY DEF NotInSet, cpusetVars
  <1>4. cpu' \in 0..top' /\ first' \in 0..cpu' /\ last' \in 0..cpu' /\ count' \in 0..cpu'
    BY <1>1, <1>2, <1>3, Counters
  <1>5. cpu <= Cpus
    BY <1>1, Counters, CpusAssumption
  <1>6. /\ cpu_list' \in Seq(All \X All)
        /\ Separate'
        /\ \A i \in DOMAIN cpu_list' : cpu_list'[i][2] < cpu
        /\ \A c \in All : c \in CpusListed' <=> (cpuset_has_cpu_linux(c) /\ c < cpu)
    BY <1>1, <1>2, <1>5, WithRangeLists
  <1>7. Seen'
    <2>1. ASSUME NEW c \in All
          PROVE  (cpuset_has_cpu_linux(c)' /\ c < cpu') <=> (c \in CpusListed' \/ (count' > 0 /\ first' <= c /\ c <= last'))
      <3>1. c \in Nat
        BY CpusAssumption DEF All
      <3>2. c = cpu \/ (c < cpu <=> c < cpu')
        BY <1>1, <1>2, <3>1, Counters
      <3>3. cpuset_has_cpu_linux(c)' = cpuset_has_cpu_linux(c)
        BY <1>3 DEF cpuset_has_cpu_linux
      <3>4. cpuset_has_cpu_linux(c) => (c < cpu <=> c < cpu')
        BY <1>2, <3>2
      <3>5. ~(count' > 0)
        BY <1>2
      <3> QED
        BY <1>6, <3>3, <3>4, <3>5
    <2> QED
      BY <2>1 DEF Seen
  <1>8. \A i \in DOMAIN cpu_list' : cpu_list'[i][2] + 1 < Frontier'
    <2>1. Frontier' = cpu + 1
      BY <1>2 DEF Frontier
    <2>2. \A i \in DOMAIN cpu_list' : cpu_list'[i][2] \in Nat
      BY <1>6, CpusAssumption DEF All
    <2> QED
      BY <1>1, <1>6, <2>1, <2>2, Counters
  <1>9. ScanInv'
    BY <1>2, <1>6, <1>7, <1>8 DEF ScanInv
  <1>10. AffinityTypeOK'
    BY <1>1, <1>3, <1>4, <1>6 DEF AffinityTypeOK
  <1>11. apc = "scan" /\ apc' = "scan" /\ cs' = "live" /\ size' >= Cpus
    BY <1>3 DEF IInv, NotInSet
  <1>12. CpusetReleased' /\ ExactList'
    BY <1>3, <1>11 DEF CpusetReleased, ExactList
  <1> QED
    BY <1>9, <1>10, <1>11, <1>12 DEF IInv

\* After the loop the last range completes the list.
LEMMA ShowListKeeps ==
    ASSUME IInv, ShowList
    PROVE  IInv'
  <1>1. AffinityTypeOK /\ ScanInv
    BY DEF IInv, ShowList
  <1>2. cpu >= top /\ cpu_list' = WithRange /\ apc' = "shown" /\ cs' = "freed"
    BY DEF ShowList
  <1>3. UNCHANGED <<online, max, mult, size, cpu_set, top, cpu, first, last, count>>
    BY DEF ShowList
  <1>4. cpu = top /\ cpu <= Cpus
    BY <1>1, <1>2, Counters, CpusAssumption
  <1>5. /\ cpu_list' \in Seq(All \X All)
        /\ Separate'
        /\ \A c \in All : c \in CpusListed' <=> (cpuset_has_cpu_linux(c) /\ c < cpu)
    BY <1>1, <1>2, <1>4, WithRangeLists
  <1>6. CpusListed' = {c \in cpu_set' : c < top' /\ c < CPU_SETSIZE}
    <2>1. CpusListed' \subseteq All /\ cpu_set \subseteq All
      BY <1>1 DEF CpusListed, AffinityTypeOK
    <2> QED
      BY <1>3, <1>4, <1>5, <2>1 DEF cpuset_has_cpu_linux
  <1>7. ExactList'
    BY <1>5, <1>6 DEF ExactList, Separate
  <1>8. AffinityTypeOK'
    BY <1>1, <1>2, <1>3, <1>5 DEF AffinityTypeOK
  <1> QED
    BY <1>2, <1>7, <1>8 DEF IInv, CpusetReleased

(***************************************************************************)
(* The inductive invariant of the CPU set and the list of its ranges.      *)
(***************************************************************************)
THEOREM Invariance == AffinitySpec => []IInv
  <1>1. IInv /\ [AffinityNext]_affinityVars => IInv'
    <2> SUFFICES ASSUME IInv, [AffinityNext]_affinityVars PROVE IInv'
      OBVIOUS
    <2>1. CASE Hotplug \/ get_cpuset_linux \/ Filled \/ Enlarge \/ Bail \/ Refused
      BY <2>1, AskingKeeps
    <2>2. CASE ReadTop
      BY <2>2, ReadTopKeeps
    <2>3. CASE InSet
      BY <2>3, InSetKeeps
    <2>4. CASE NotInSet
      BY <2>4, NotInSetKeeps
    <2>5. CASE ShowList
      BY <2>5, ShowListKeeps
    <2>6. CASE UNCHANGED affinityVars
      BY <2>6 DEF affinityVars, cpusetVars, listVars, IInv, AffinityTypeOK, Covered, ScanInv,
         Seen, Separate, Frontier, CpusListed, cpuset_has_cpu_linux, ExactList, CpusetReleased
    <2> QED
      BY <2>1, <2>2, <2>3, <2>4, <2>5, <2>6 DEF AffinityNext, Handler
  <1> QED
    BY <1>1, InitIInv, PTL DEF AffinitySpec

(***************************************************************************)
(* show_cpu_affinities_generic() lists exactly the CPUs of the set below   *)
(* both the number of CPUs and CPU_SETSIZE, in ranges that do not touch,   *)
(* for every set and every number of CPUs, beyond CPU_SETSIZE as well.     *)
(***************************************************************************)
THEOREM ListIsExact == AffinitySpec => []ExactList
  <1>1. IInv => ExactList
    BY DEF IInv
  <1> QED
    BY <1>1, Invariance, PTL

(***************************************************************************)
(* The loop over the CPUs never looks beyond the CPU set, whatever the     *)
(* number of CPUs was when the set was allocated and is when it is read.   *)
(***************************************************************************)
THEOREM LoopLooksInside == AffinitySpec => []LooksInside
  <1>1. IInv => LooksInside
    <2> SUFFICES ASSUME IInv, apc = "scan" PROVE cs = "live" /\ top <= size
      BY DEF LooksInside
    <2>1. cs = "live" /\ size >= Cpus
      BY DEF IInv
    <2>2. top \in 0..Cpus /\ size \in Nat
      BY DEF IInv, AffinityTypeOK
    <2> QED
      BY <2>1, <2>2, CpusAssumption
  <1> QED
    BY <1>1, Invariance, PTL

(***************************************************************************)
(* The CPU set is released once unless get_cpuset_linux() bailed out.      *)
(***************************************************************************)
THEOREM CpusetReleasedOnce == AffinitySpec => []CpusetReleased
  <1>1. IInv => CpusetReleased
    BY DEF IInv
  <1> QED
    BY <1>1, Invariance, PTL
=============================================================================
