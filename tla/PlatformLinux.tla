---------------------------- MODULE PlatformLinux ----------------------------
(***************************************************************************)
(* The operations of platform/linux/platform.c, as scripts.                *)
(***************************************************************************)
EXTENDS PlatformGeneric

show_capability == Section(Entries)

show_const == Object(Entry)

show_capabilities_linux ==
    Entry
    \o Either(<<>>,
              Section(show_capability \o Many(show_capability))
              \o Section(Many(show_capability))
              \o Maybe(Entry)
              \o Maybe(Either(Entry,
                              Section(Entry \o Container(show_const \o show_const \o show_const)))))

show_cgroups_linux ==
    Either(<<>>, Many(MayDie \o Maybe(Container(Object(Maybe(Entry) \o Entry)))))

\* Only a descriptor of a terminal is described in full.
show_fds_linux ==
    LET terminal == MayDie \o Section(Entry \o Entry) \o Entry \o Entry
                    \o Section(Entry \o Entry)
    IN  Either(<<>>,
               Many(MayDie \o Maybe(Object(Section(
                   Entry \o Entry \o Section(Entry \o Maybe(terminal)))))))

show_namespaces_linux ==
    Either(<<>>, MayDie \o Many(MayDie) \o Many(Maybe(Object(Entry))))

show_oom_linux == Either(Entry, Many(Entry))

show_cpu_linux == Entry

\* The three System V facilities are shown alike: a summary, then a container
\* with one object that holds a container for every identifier in use.
SystemV(set) ==
    Either(<<>>,
           Section(Entries)
           \o Container(Object(Many(Maybe(MayDie \o Container(Object(set)))))))

show_msg_queues_linux ==
    LET pair == Section(Entry \o Entry)
    IN  SystemV(Entry \o Entry \o pair \o pair \o pair
                \o Section(Entry \o Entry \o Entry) \o Entries)

show_semaphores_linux ==
    LET pair == Section(Entry \o Entry)
    IN  SystemV(Entry \o Entry \o Entry \o pair \o pair \o pair \o pair)

show_shared_mem_linux ==
    LET pair == Section(Entry \o Entry)
    IN  SystemV(Entry \o Entry \o pair \o pair \o Entry \o pair \o pair \o Entry
                \o Section(Entry \o Entry \o Entry) \o Entry \o Entry)

show_prctl_linux == Many(Entry)

handle_proc_branch_linux == Entry

show_security_module_context_linux == MayDie \o Entry

show_security_module_linux == Entry \o Call("show_security_module_context_linux")

show_io_priorities_linux ==
    Section(Entry \o Entry) \o Section(Entry \o Entry) \o Section(Entry \o Entry)

show_rlimits_linux == show_limit \o Many(show_limit)

\* The header is there on every path, and so is the footer.
handle_numa_memory_linux ==
    Section(Either(<<>>,
                   Entry \o Either(Entry,
                                   Entry \o Entry \o Entry \o MayDie \o Entry)))

handle_scheduler_type_linux == Entry

show_extended_if_flags_linux == Either(<<>>, Many(Object(Entry)))

Linux == [
    show_capabilities_linux |-> show_capabilities_linux,
    show_cgroups_linux |-> show_cgroups_linux,
    show_fds_linux |-> show_fds_linux,
    show_namespaces_linux |-> show_namespaces_linux,
    show_oom_linux |-> show_oom_linux,
    show_cpu_linux |-> show_cpu_linux,
    show_msg_queues_linux |-> show_msg_queues_linux,
    show_semaphores_linux |-> show_semaphores_linux,
    show_shared_mem_linux |-> show_shared_mem_linux,
    show_prctl_linux |-> show_prctl_linux,
    handle_proc_branch_linux |-> handle_proc_branch_linux,
    show_security_module_context_linux |-> show_security_module_context_linux,
    show_security_module_linux |-> show_security_module_linux,
    show_io_priorities_linux |-> show_io_priorities_linux,
    show_rlimits_linux |-> show_rlimits_linux,
    handle_numa_memory_linux |-> handle_numa_memory_linux,
    handle_scheduler_type_linux |-> handle_scheduler_type_linux,
    show_extended_if_flags_linux |-> show_extended_if_flags_linux]

platform_ops_linux == [
    get_time |-> "get_time_generic",
    show_capabilities |-> "show_capabilities_linux",
    show_cgroups |-> "show_cgroups_linux",
    show_confstrs |-> "show_confstrs_generic",
    show_cpu_affinities |-> "show_cpu_affinities_generic",
    show_cpu |-> "show_cpu_linux",
    show_clocks |-> "show_clocks_generic",
    show_extended_if_flags |-> "show_extended_if_flags_linux",
    show_fds |-> "show_fds_linux",
    show_io_priorities |-> "show_io_priorities_linux",
    show_mounts |-> "show_mounts_generic_linux",
    show_msg_queues |-> "show_msg_queues_linux",
    show_namespaces |-> "show_namespaces_linux",
    show_oom |-> "show_oom_linux",
    show_prctl |-> "show_prctl_linux",
    show_rlimits |-> "show_rlimits_linux",
    show_security_module |-> "show_security_module_linux",
    show_semaphores |-> "show_semaphores_linux",
    show_shared_mem |-> "show_shared_mem_linux",
    show_timezone |-> "show_timezone_generic",
    show_libs |-> "show_libs_generic",
    handle_memory |-> "show_memory_generic",
    handle_numa_memory |-> "handle_numa_memory_linux",
    handle_proc_branch |-> "handle_proc_branch_linux",
    handle_scheduler_type |-> "handle_scheduler_type_linux"]

=============================================================================
