---------------------------- MODULE MCUtilities ----------------------------
(***************************************************************************)
(* The utilities that stand alone, each in a process of its own: the two   *)
(* handlers that ask the kernel again, Affinity (procenv --cpu) and Groups *)
(* (procenv --process), the interfaces of Network (procenv --network), the *)
(* ancestry of ProcBranch, and the functions of PureCalls.                 *)
(***************************************************************************)
EXTENDS Affinity, Groups, Network, ProcBranch, PureCalls

VARIABLE utility

vars == <<utility, affinityVars, groupVars, networkVars, branchVars, call>>

\* One initial state is enough of what does not run.
AffinityIdle == online = All
GroupsIdle == member = {} /\ refuses = FALSE /\ memory = Memory
NetworkIdle == platform = "hurd" /\ if_addrs = <<>>
BranchIdle == driver = "openbsd" /\ parent = [p \in Pids |-> IF p = 1 THEN 0 ELSE 1]

Init ==
    /\ utility \in {"affinity", "groups", "network", "branch", "function"}
    /\ utility # "affinity" => AffinityIdle
    /\ utility # "groups" => GroupsIdle
    /\ utility # "network" => NetworkIdle
    /\ utility # "branch" => BranchIdle
    /\ AffinityInit /\ GroupsInit /\ NetworkInit /\ BranchInit /\ call = None

ShowAffinity ==
    utility = "affinity" /\ Handler /\ UNCHANGED <<utility, groupVars, networkVars, branchVars, call>>

CpuComesOrGoes ==
    utility = "affinity" /\ Hotplug /\ UNCHANGED <<utility, groupVars, networkVars, branchVars, call>>

ShowGroups ==
    utility = "groups" /\ GroupsNext /\ UNCHANGED <<utility, affinityVars, networkVars, branchVars, call>>

ShowNetwork ==
    utility = "network" /\ show_network /\ UNCHANGED <<utility, affinityVars, groupVars, branchVars, call>>

ShowBranch ==
    /\ utility = "branch" /\ handle_proc_branch
    /\ UNCHANGED <<utility, affinityVars, groupVars, networkVars, call>>

ProcessExits ==
    utility = "branch" /\ Exit /\ UNCHANGED <<utility, affinityVars, groupVars, networkVars, call>>

Function ==
    /\ utility = "function" /\ CallFunction
    /\ UNCHANGED <<utility, affinityVars, groupVars, networkVars, branchVars>>

Ended ==
    CASE utility = "affinity" -> apc \in {"shown", "returned", "crashed"}
      [] utility = "groups" -> gpc \in {"returned", "died"}
      [] utility = "network" -> NetworkEnded
      [] utility = "branch" -> BranchEnded
      [] OTHER -> call # None

Next ==
    \/ ShowAffinity \/ CpuComesOrGoes \/ ShowGroups \/ ShowNetwork \/ ShowBranch \/ ProcessExits
    \/ Function \/ (Ended /\ UNCHANGED vars)

\* The program runs; CPUs need not come or go, and processes need not exit.
FairSpec ==
    /\ Init /\ [][Next]_vars
    /\ WF_vars(ShowAffinity) /\ WF_vars(ShowGroups) /\ WF_vars(ShowNetwork) /\ WF_vars(ShowBranch)

(***************************************************************************)
(* Asking again ends: get_cpuset_linux() and show_all_groups() stop asking *)
(* the kernel whatever it answers, and the handlers return or die.         *)
(***************************************************************************)
AskingEnds == utility \in {"affinity", "groups"} ~> Ended

\* The searches and the loops of show_network() end.
LoopsEnd == utility = "network" ~> Ended

(***************************************************************************)
(* The walk of handle_proc_branch() ends: Linux's although the processes   *)
(* change under it, the others' as soon as the copy has all the ancestors  *)
(* (and FreeBSD's in every case), Darwin's also when the table outgrows    *)
(* every buffer.                                                           *)
(***************************************************************************)
WalkEnds == utility = "branch" ~> Ended
=============================================================================
