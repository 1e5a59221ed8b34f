----------------------------- MODULE Collectors -----------------------------
(***************************************************************************)
(* One run of procenv seen from the document writer: main() writes the     *)
(* header, runs the show_* function of a display option, or all of them in *)
(* dump(), and writes the footer.  The functions are the scripts of Show   *)
(* and of the Platform modules; todo holds what is left to be run of them. *)
(* A die() ends the run before anything of the document is put out, so a   *)
(* reader never sees what was written until then.                          *)
(***************************************************************************)
EXTENDS Output, Show, PlatformLinux, PlatformBSD

CONSTANT Platforms      \* the platforms procenv is built for

VARIABLES
    platform,   \* the platform of this build
    todo,       \* the calls still to be made, with the open frames
    depth       \* the bracket depths at which the active functions began

vars == <<outputVars, platform, todo, depth>>

platform_ops == [
    linux |-> platform_ops_linux,
    freebsd |-> platform_ops_freebsd,
    darwin |-> platform_ops_darwin,
    netbsd |-> platform_ops_netbsd,
    openbsd |-> platform_ops_openbsd,
    minix |-> platform_ops_minix,
    hurd |-> platform_ops_hurd,
    unknown |-> platform_ops_unknown]

ASSUME PlatformAssumption == Platforms \subseteq DOMAIN platform_ops

\* The functions main() calls for a display option, and dump().
Display == [
    show_meta |-> show_meta,
    show_arguments |-> show_arguments,
    show_libs |-> show_libs,
    show_libc |-> show_libc,
    show_cgroups |-> show_cgroups,
    show_cpu |-> show_cpu,
    show_compiler |-> show_compiler,
    show_env |-> show_env,
    show_semaphores |-> show_semaphores,
    show_fds |-> show_fds,
    show_namespaces |-> show_namespaces,
    show_sizeof |-> show_sizeof,
    usage |-> <<>>,
    show_misc |-> show_misc,
    show_uname |-> show_uname,
    show_clocks |-> show_clocks,
    show_rlimits |-> show_rlimits,
    show_locale |-> show_locale,
    show_mounts |-> show_mounts,
    show_msg_queues |-> show_msg_queues,
    show_confstrs |-> show_confstrs,
    show_network |-> show_network,
    show_oom |-> show_oom,
    show_proc |-> show_proc,
    show_platform |-> show_platform,
    show_time |-> show_time,
    show_ranges |-> show_ranges,
    show_signals |-> show_signals,
    show_shared_mem |-> show_shared_mem,
    show_tty_attrs |-> show_tty_attrs,
    show_threads |-> show_threads,
    show_stat |-> show_stat,
    show_rusage |-> show_rusage,
    show_version |-> show_version,
    show_capabilities |-> show_capabilities,
    show_sysconf |-> show_sysconf,
    show_memory |-> show_memory,
    show_timezone |-> show_timezone,
    dump |-> dump]

\* The other functions of procenv.c that make calls of the writer.
Helpers == [
    show_all_groups |-> show_all_groups,
    handle_proc_branch |-> handle_proc_branch,
    show_priorities |-> show_priorities,
    show_data_model |-> show_data_model,
    decode_if_flags |-> decode_if_flags,
    show_network_if |-> show_network_if]

Code(f) ==
    CASE f \in DOMAIN Display -> Display[f]
      [] f \in DOMAIN Helpers -> Helpers[f]
      [] f \in DOMAIN Generic -> Generic[f]
      [] f \in DOMAIN Linux -> Linux[f]
      [] f \in DOMAIN BSD -> BSD[f]

ops == platform_ops[platform]

Return == Token("return", <<>>)

\* Running f: its own calls, then the return to its caller.
Frame(f) == Code(f) \o Return

-----------------------------------------------------------------------------
At(do) == status = "open" /\ todo # <<>> /\ Head(todo).do = do

Body == Head(todo).body

\* The step makes no call of the writer and goes on with script s.
Goes(s) == todo' = s \o Tail(todo) /\ UNCHANGED <<outputVars, platform>>

\* The step is the call of the writer at the head of todo.
Called == todo' = Tail(todo) /\ UNCHANGED <<platform, depth>>

OpenSection == At("section_open") /\ (\E name \in Names : section_open(name)) /\ Called
CloseSection == At("section_close") /\ section_close /\ Called
OpenContainer == At("container_open") /\ (\E name \in Names : container_open(name)) /\ Called
CloseContainer == At("container_close") /\ container_close /\ Called
OpenObject == At("object_open") /\ object_open /\ Called
CloseObject == At("object_close") /\ object_close /\ Called
WriteEntry == At("entry") /\ entry /\ Called

Branch == At("either") /\ (\E i \in {1, 2} : Goes(Body[i])) /\ UNCHANGED depth

Repeat == At("many") /\ Goes(Body \o <<Head(todo)>>) /\ UNCHANGED depth

EndLoop == At("many") /\ Goes(<<>>) /\ UNCHANGED depth

CallFunction == At("call") /\ Goes(Frame(Body)) /\ depth' = Append(depth, Len(open))

CallOp ==
    /\ At("op")
    /\ Body \in DOMAIN ops
    /\ Goes(Frame(ops[Body]))
    /\ depth' = Append(depth, Len(open))

TestOp ==
    /\ At("ifop")
    /\ Goes(IF Body[1] \in DOMAIN ops THEN Body[2] ELSE <<>>)
    /\ UNCHANGED depth

SkipOp == At("op") /\ Body \notin DOMAIN ops /\ Goes(<<>>) /\ UNCHANGED depth

ReturnFromFunction == At("return") /\ Goes(<<>>) /\ depth' = Butlast(depth)

CheckPasses == At("maydie") /\ Goes(<<>>) /\ UNCHANGED depth

\* die(): the message and the clean-up leave the document as it is.
CheckFails ==
    /\ At("maydie")
    /\ todo' = Token("exit", <<>>)
    /\ UNCHANGED <<outputVars, platform, depth>>

Start ==
    /\ status = "fresh"
    /\ \E f \in DOMAIN Display : todo' = Frame(f)
    /\ depth' = <<0>>
    /\ master_header
    /\ UNCHANGED platform

Finish ==
    /\ status = "open"
    /\ todo = <<>>
    /\ master_footer
    /\ UNCHANGED <<platform, todo, depth>>

Stop == (status = "closed" \/ At("exit")) /\ UNCHANGED vars

Init ==
    /\ OutputInit
    /\ platform \in Platforms
    /\ todo = <<>>
    /\ depth = <<>>

Next ==
    \/ Start
    \/ OpenSection
    \/ CloseSection
    \/ OpenContainer
    \/ CloseContainer
    \/ OpenObject
    \/ CloseObject
    \/ WriteEntry
    \/ Branch
    \/ Repeat
    \/ EndLoop
    \/ CallFunction
    \/ CallOp
    \/ TestOp
    \/ SkipOp
    \/ ReturnFromFunction
    \/ CheckPasses
    \/ CheckFails
    \/ Finish
    \/ Stop

Spec == Init /\ [][Next]_vars

-----------------------------------------------------------------------------
Caller == INSTANCE Caller

(***************************************************************************)
(* Every run of procenv is a run of a caller that nests its calls: on no   *)
(* platform, in no format and on no path through the show_* functions are  *)
(* their sections, containers, objects and entries put anywhere but where  *)
(* module Caller allows them.  With the theorems of CallerProofs it        *)
(* follows that the run reaches no assert_not_reached() and that what it   *)
(* puts out is well-formed.                                                *)
(***************************************************************************)
Disciplined == Caller!Spec

(***************************************************************************)
(* A function leaves as many brackets open as it found: every early return *)
(* and every branch of a show_* function or platform operation closes what *)
(* the function opened, and nothing of its caller's.                       *)
(***************************************************************************)
Balanced == At("return") => Len(open) = depth[Len(depth)]

(***************************************************************************)
(* README.md promises well-structured JSON and XML; check_all_args feeds   *)
(* the output of every option to a JSON and an XML parser.                 *)
(***************************************************************************)
Parseable == Caller!WellFormed

=============================================================================
