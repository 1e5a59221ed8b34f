------------------------------ MODULE Network ------------------------------
(***************************************************************************)
(* show_network(): the interfaces as getifaddrs() lists them.  An entry of *)
(* the link level carries the MAC address of an interface and is kept in a *)
(* cache until an entry with an address of that interface comes; those     *)
(* left in the end are interfaces without an address.  The cache is a      *)
(* doubly linked list behind a head; the node made for entry k of the list *)
(* is node k, and 0 is the head.                                           *)
(***************************************************************************)
EXTENDS Integers, Sequences

CONSTANTS
    Interfaces,     \* names
    MaxEntries      \* bound on the entries that getifaddrs() returns

ASSUME EntriesAssumption == MaxEntries \in Nat

VARIABLES
    platform,       \* "link", "minix" (no MAC address) or "hurd" (no link level)
    if_addrs,       \* name and family of each entry
    ifa,            \* the entry that the loop is at
    npc,
    next, prev,     \* the cache
    node,           \* the cursor
    nodes,          \* nodes that are allocated
    macs,           \* MAC addresses that are allocated, one for each node and one copy
    known,          \* the entries whose MAC address get_mac_address() has found
    mac_address,
    shown           \* entries shown, each with the entry its MAC address is from

cache == <<next, prev, nodes>>
strings == <<macs, known, mac_address>>
networkVars == <<platform, if_addrs, ifa, npc, cache, node, strings, shown>>

NULL == -1

HEAD == 0

Entries == 1..Len(if_addrs)

Name(k) == if_addrs[k].name

Family(k) == if_addrs[k].family

-----------------------------------------------------------------------------
\* header() comes before and footer() after, except when this fails.
getifaddrs ==
    /\ npc = "start"
    /\ \/ npc' = "visit" /\ nodes' = {HEAD}
       \/ npc' = "failed" /\ UNCHANGED nodes
    /\ UNCHANGED <<platform, if_addrs, ifa, next, prev, node, strings, shown>>

Visit == npc = "visit" /\ ifa \in Entries

SkipEntry ==
    /\ Visit
    /\ Family(ifa) = "none"
    /\ ifa' = ifa + 1
    /\ UNCHANGED <<platform, if_addrs, npc, cache, node, strings, shown>>

\* An address of zeros is no address, and neither is one that cannot be read.
get_mac_address ==
    /\ UNCHANGED mac_address
    /\ \/ UNCHANGED <<macs, known>>
       \/ /\ platform = "link"
          /\ macs' = macs \cup {[of |-> ifa, copy |-> FALSE]}
          /\ known' = known \cup {ifa}

PrependNode(n) ==
    LET front == next[HEAD]
    IN  /\ next' = [next EXCEPT ![n] = front, ![HEAD] = n]
        /\ prev' = [k \in DOMAIN prev |->
                       IF k = n THEN HEAD ELSE IF k = front THEN n ELSE prev[k]]

CacheEntry ==
    /\ Visit
    /\ platform # "hurd"
    /\ Family(ifa) = "link"
    /\ get_mac_address
    /\ nodes' = nodes \cup {ifa}
    /\ PrependNode(ifa)
    /\ ifa' = ifa + 1
    /\ UNCHANGED <<platform, if_addrs, npc, node, shown>>

StartSearch ==
    /\ Visit
    /\ Family(ifa) = "address"
    /\ node' = next[HEAD]
    /\ npc' = "search"
    /\ UNCHANGED <<platform, if_addrs, ifa, cache, strings, shown>>

\* Mutant: any node will do.
Matches_any(n) == n # NULL

Matches(n) == n # NULL /\ Name(n) = Name(ifa)

\* Mutant: the search begins again.
StepSearch_restart ==
    /\ npc = "search"
    /\ node # NULL
    /\ ~Matches(node)
    /\ node' = next[HEAD]
    /\ UNCHANGED <<platform, if_addrs, ifa, npc, cache, strings, shown>>

StepSearch ==
    /\ npc = "search"
    /\ node # NULL
    /\ ~Matches(node)
    /\ node' = next[node]
    /\ UNCHANGED <<platform, if_addrs, ifa, npc, cache, strings, shown>>

\* Mutant: the successor still points back to the node.
Unlink_one_way(n) ==
    /\ next' = [next EXCEPT ![prev[n]] = next[n]]
    /\ UNCHANGED prev

Unlink(n) ==
    /\ next' = [next EXCEPT ![prev[n]] = next[n]]
    /\ prev' = [k \in DOMAIN prev |-> IF k = next[n] THEN prev[n] ELSE prev[k]]

\* The MAC address of node n is copied and the node's own released.
Copy(n) ==
    {m \in macs : m.of # n} \cup {[of |-> m.of, copy |-> TRUE] : m \in {m \in macs : m.of = n}}

UseNode ==
    /\ npc = "search"
    /\ Matches(node)
    /\ macs' = Copy(node)
    /\ mac_address' = IF \E m \in macs : m.of = node THEN node ELSE NULL
    /\ Unlink(node)
    /\ nodes' = nodes \ {node}
    /\ npc' = "show"
    /\ UNCHANGED <<platform, if_addrs, ifa, node, known, shown>>

NotCached ==
    /\ npc = "search"
    /\ node = NULL
    /\ npc' = "show"
    /\ UNCHANGED <<platform, if_addrs, ifa, cache, node, strings, shown>>

Forget ==
    /\ macs' = {m \in macs : ~m.copy}
    /\ mac_address' = NULL

ShowEntry ==
    /\ npc = "show"
    /\ shown' = Append(shown, [ifa |-> ifa, mac |-> mac_address])
    /\ Forget
    /\ ifa' = ifa + 1
    /\ npc' = "visit"
    /\ UNCHANGED <<platform, if_addrs, cache, node, known>>

EndOfList ==
    /\ npc = "visit"
    /\ ifa \notin Entries
    /\ node' = next[HEAD]
    /\ npc' = "rest"
    /\ UNCHANGED <<platform, if_addrs, ifa, cache, strings, shown>>

\* Mutant: what is left in the cache is only released.
ShowRest_silent ==
    /\ npc = "rest"
    /\ node # NULL
    /\ macs' = {m \in macs : m.of # node}
    /\ nodes' = nodes \ {node}
    /\ node' = next[node]
    /\ UNCHANGED <<platform, if_addrs, ifa, npc, next, prev, known, mac_address, shown>>

ShowRest ==
    /\ npc = "rest"
    /\ node # NULL
    /\ shown' = Append(shown,
                       [ifa |-> node, mac |-> IF \E m \in macs : m.of = node THEN node ELSE NULL])
    /\ macs' = {m \in macs : m.of # node}
    /\ nodes' = nodes \ {node}
    /\ node' = next[node]
    /\ UNCHANGED <<platform, if_addrs, ifa, npc, next, prev, known, mac_address>>

FreeHead ==
    /\ npc = "rest"
    /\ node = NULL
    /\ nodes' = nodes \ {HEAD}
    /\ npc' = "done"
    /\ UNCHANGED <<platform, if_addrs, ifa, next, prev, node, strings, shown>>

\* An interface has one entry of the link level at most.
Lists ==
    {l \in UNION {[1..n -> [name : Interfaces, family : {"link", "address", "none"}]] :
                     n \in 0..MaxEntries} :
        \A j, k \in DOMAIN l :
            l[j].family = "link" /\ l[k].family = "link" /\ l[j].name = l[k].name => j = k}

NetworkInit ==
    /\ platform \in {"link", "minix", "hurd"}
    /\ if_addrs \in Lists
    /\ platform = "hurd" => \A k \in Entries : Family(k) # "link"
    /\ ifa = 1 /\ npc = "start"
    /\ next = [k \in 0..MaxEntries |-> NULL] /\ prev = [k \in 0..MaxEntries |-> NULL]
    /\ node = NULL /\ nodes = {}
    /\ macs = {} /\ known = {} /\ mac_address = NULL
    /\ shown = <<>>

show_network ==
    \/ getifaddrs
    \/ SkipEntry
    \/ CacheEntry
    \/ StartSearch
    \/ StepSearch
    \/ UseNode
    \/ NotCached
    \/ ShowEntry
    \/ EndOfList
    \/ ShowRest
    \/ FreeHead

NetworkEnded == npc \in {"done", "failed"}

-----------------------------------------------------------------------------
\* The types; mac_address, when it is not NULL, is a string that is allocated.
NetworkTypeOK ==
    /\ platform \in {"link", "minix", "hurd"}
    /\ ifa \in 1..(Len(if_addrs) + 1)
    /\ npc \in {"start", "visit", "search", "show", "rest", "done", "failed"}
    /\ next \in [0..MaxEntries -> -1..MaxEntries] /\ prev \in [0..MaxEntries -> -1..MaxEntries]
    /\ node \in -1..MaxEntries /\ nodes \subseteq 0..MaxEntries
    /\ macs \subseteq [of : Entries, copy : BOOLEAN] /\ known \subseteq Entries
    /\ mac_address # NULL => [of |-> mac_address, copy |-> TRUE] \in macs
    /\ shown \in Seq([ifa : Entries, mac : Entries \cup {NULL}])

(***************************************************************************)
(* Until the cache is taken apart its links agree in both directions, all  *)
(* allocated nodes hang on the head, and no pointer that is followed leads *)
(* to a node that was freed: neither a link nor the cursor, from which     *)
(* show_network() frees nodes in both of its loops.  All that it allocates *)
(* is released when it returns, also when getifaddrs() fails.              *)
(***************************************************************************)
CacheSound ==
    /\ npc \in {"visit", "search", "show"} =>
          \A n \in nodes :
              /\ next[n] # NULL => next[n] \in nodes /\ prev[next[n]] = n
              /\ n # HEAD => prev[n] \in nodes /\ next[prev[n]] = n
    /\ npc \in {"search", "rest"} /\ node # NULL =>
          node \in nodes /\ (next[node] # NULL => next[node] \in nodes)
    /\ npc \in {"done", "failed"} => nodes = {} /\ macs = {}

\* An address entry for the interface of entry m lies between entries m and k.
Between(m, k) == \E j \in (m + 1)..(k - 1) : Family(j) = "address" /\ Name(j) = Name(m)

(***************************************************************************)
(* The MAC address is that of the interface it is shown with, and it is    *)
(* shown exactly where it is due: with the first address that follows it   *)
(* in the list, or with the entry itself if none does.                     *)
(***************************************************************************)
OwnMac ==
    \A j \in 1..Len(shown) :
        LET k == shown[j].ifa
        IN  IF Family(k) = "link"
            THEN shown[j].mac = IF k \in known THEN k ELSE NULL
            ELSE \A m \in Entries :
                    shown[j].mac = m <=>
                        m \in known /\ m < k /\ Name(m) = Name(k) /\ ~Between(m, k)

Times(k) == {j \in 1..Len(shown) : shown[j].ifa = k}

(***************************************************************************)
(* In the end every entry with an address was shown once, in the order of  *)
(* the list, and after them every entry of the link level that no address  *)
(* of its interface followed.  If the link level comes first, as           *)
(* show_network() assumes, these are the interfaces without an address.    *)
(***************************************************************************)
AllDisplayed ==
    npc = "done" =>
        /\ \A k \in Entries :
              LET due == \/ Family(k) = "address"
                         \/ Family(k) = "link" /\ ~Between(k, Len(if_addrs) + 1)
              IN  IF due THEN \E j \in Times(k) : Times(k) = {j} ELSE Times(k) = {}
        /\ \A i, j \in 1..Len(shown) :
              i < j /\ Family(shown[j].ifa) = "address" => shown[i].ifa < shown[j].ifa

=============================================================================
