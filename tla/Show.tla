-------------------------------- MODULE Show --------------------------------
(***************************************************************************)
(* The show_* functions of procenv.c that every platform shares, as        *)
(* scripts.  header() and footer() are section_open() and section_close(). *)
(***************************************************************************)
EXTENDS Script

CONSTANT GetifaddrsFails    \* whether getifaddrs() may report an error

show_signals ==
    Token("container_open", <<>>) \o MayDie
    \o Many(Object(Section(Entry \o Entry \o Entry \o Entry)))
    \o Token("container_close", <<>>)

show_rusage == MayDie \o Section(Entries)

show_sysconf == Section(Many(Entry))

show_all_groups == MayDie \o Entry

handle_proc_branch == Op("handle_proc_branch")

show_proc ==
    Section(Entries \o Call("handle_proc_branch") \o Entries
            \o Section(Entries) \o Section(Entries) \o Entry
            \o Section(Entry \o Maybe(Entry) \o Entry \o Entry)
            \o Maybe(Call("show_all_groups")))

show_priorities ==
    Section(Op("handle_scheduler_type")
            \o Section(Entry \o Entry \o Entry)
            \o IfOp("show_io_priorities", Section(Op("show_io_priorities"))))

show_data_model == MayDie \o Entry

show_platform == Section(Entries \o Call("show_data_model"))

show_cpu ==
    Section(Op("show_cpu") \o Op("show_cpu_affinities") \o Call("show_priorities"))

show_memory == Section(Entry \o Op("handle_memory") \o Op("handle_numa_memory"))

show_fds == Container(Op("show_fds"))

show_namespaces == Container(Op("show_namespaces"))

show_env == Section(MayDie \o Many(MayDie \o Entry))

show_meta ==
    Section(Entry \o Entry \o Entry \o Entry
            \o Section(Entry \o Entry) \o Entry \o Entry)

\* Mutant: the arguments are written straight into the container.
show_arguments_no_object == Section(Entry \o Container(Many(Entry)))

show_arguments == Section(Entry \o Container(Many(Object(Entry))))

show_stat ==
    MayDie
    \o Section(Entry \o Entry \o Section(Entry \o Entry) \o Entry \o MayDie
               \o Section(Entry \o Entry) \o Entry \o Entry \o Entry \o Entry
               \o Section(MayDie \o Entry \o MayDie \o Entry \o MayDie \o Entry))

show_mounts == Section(Op("show_mounts"))

decode_if_flags == Many(Object(Entry))

show_network_if ==
    Section(Entry
            \o Section(Entry \o Container(Call("decode_if_flags")))
            \o Section(Entry \o Container(Op("show_extended_if_flags")))
            \o Entry \o Entry \o Entry \o Entry \o Maybe(Entry) \o Maybe(Entry))

\* The first return of show_network() leaves the section open.  An interface
\* is shown with an address or, if it has none, from the cache.
show_network ==
    LET shown == MayDie \o Many(MayDie \o Maybe(Call("show_network_if")))
                 \o Many(Call("show_network_if")) \o SectionClose
    IN  SectionOpen \o (IF GetifaddrsFails THEN Either(<<>>, shown) ELSE shown)

\* Mutant: the early return does not write the footer.
show_tty_attrs_no_footer ==
    SectionOpen \o Either(<<>>, Section(Entries) \o SectionClose)

show_tty_attrs ==
    LET attributes == Section(Entries)
        size == Section(Entry \o Entry \o Entry \o Entry)
    IN  SectionOpen
        \o Either(SectionClose,
                  attributes \o attributes \o attributes \o attributes \o attributes
                  \o MayDie \o Section(Entry \o Entry) \o size \o SectionClose)

show_locale == Section(Entry \o Entry \o MayDie \o Many(Entry) \o Entry)

show_libs == Container(Op("show_libs"))

show_clocks == Section(Op("show_clocks"))

show_rlimits == Section(Op("show_rlimits"))

show_confstrs == Section(Op("show_confstrs"))

show_timezone == Section(Op("show_timezone"))

show_sizeof == Section(Entries)

show_ranges ==
    LET integer == Section(Entry \o Section(Entries) \o Section(Entry \o Entry))
        real == Section(Entry \o Entry \o Entry)
    IN  Section(integer \o integer \o integer \o integer \o integer
                \o real \o real \o real)

show_compiler == Section(Entries \o Section(Entries))

show_libc == Section(Entry \o Entry \o Entry)

show_time == IfOp("get_time", MayDie \o Section(Entry \o Entry \o Entry))

show_uname == Section(Entries)

show_cgroups == Section(Op("show_cgroups"))

show_oom == Section(Op("show_oom"))

show_capabilities == Section(Op("show_capabilities"))

show_threads ==
    Section(Entry \o Entry \o Entry \o Section(Entry \o Entry \o Entry) \o Maybe(Entry))

show_version == Section(Entry \o Entry \o Entry)

show_shared_mem == Section(Op("show_shared_mem"))

show_semaphores == Section(Op("show_semaphores"))

show_msg_queues == Section(Op("show_msg_queues"))

show_misc ==
    Section(Entries
            \o IfOp("show_prctl", Section(Op("show_prctl")))
            \o IfOp("show_security_module", Section(Op("show_security_module")))
            \o Maybe(Maybe(Entry) \o Section(Entry \o Entry)))

\* What dump() shows between master_header() and master_footer().
dump ==
    Call("show_meta") \o Call("show_arguments") \o Call("show_capabilities")
    \o Call("show_cgroups") \o Call("show_clocks") \o Call("show_compiler")
    \o Call("show_confstrs") \o Call("show_cpu") \o Call("show_env")
    \o Call("show_fds") \o Call("show_libc") \o Call("show_libs")
    \o Call("show_rlimits") \o Call("show_locale") \o Call("show_memory")
    \o Call("show_msg_queues") \o Call("show_misc") \o Call("show_mounts")
    \o Call("show_namespaces") \o Call("show_network") \o Call("show_oom")
    \o Call("show_platform") \o Call("show_proc") \o Call("show_ranges")
    \o Call("show_rusage") \o Call("show_semaphores") \o Call("show_shared_mem")
    \o Call("show_signals") \o Call("show_sizeof") \o Call("show_stat")
    \o Call("show_sysconf") \o Call("show_threads") \o Call("show_time")
    \o Call("show_timezone") \o Call("show_tty_attrs") \o Call("show_uname")

=============================================================================
