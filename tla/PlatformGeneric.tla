--------------------------- MODULE PlatformGeneric ---------------------------
(***************************************************************************)
(* The operations of platform-generic.c, which several platforms use, and  *)
(* the macros of procenv.h and util.h that they share, as scripts.         *)
(***************************************************************************)
EXTENDS Script

show_limit ==
    MayDie \o Section(Section(Entry \o Entry) \o Section(Entry \o Entry))

show_clock_res == Section(Entry)

show_confstr == Either(<<>>, MayDie \o Entry)

mk_mem_section == Section(Entry \o Call("show_human_size_entry"))

show_human_size_entry == Entry

show_rlimits_generic == show_limit \o Many(show_limit)

show_clocks_generic == show_clock_res \o Many(show_clock_res)

show_fds_generic ==
    Many(Object(Section(Entry \o Entry \o Entry \o Section(Op("show_fd_capabilities")))))

show_confstrs_generic == Many(show_confstr)

show_cpu_affinities_generic == Either(<<>>, Entry)

show_memory_generic ==
    Either(<<>>,
           Section(mk_mem_section \o mk_mem_section \o mk_mem_section \o mk_mem_section)
           \o Section(mk_mem_section \o mk_mem_section))

show_pathconfs == Section(Entries)

\* SHOW_ALL and SHOW_MOUNTS show the path configuration inside the mount;
\* SHOW_PATHCONF shows nothing else.
show_mounts_generic_linux ==
    LET mount == MayDie
                 \o Section(Entry \o Entry \o Entry \o Entry \o Call("show_pathconfs")
                            \o Section(Entry \o Entry) \o Entry \o Entry \o Entry \o Entry
                            \o Section(Entries) \o Section(Entry \o Entry \o Entry))
    IN  Either(<<>>, Either(Many(mount), Many(Call("show_pathconfs"))))

\* SHOW_ALL shows the path configuration after the mount.
show_mounts_generic_bsd ==
    LET mount == MayDie
                 \o Section(Entry \o Entry \o Entry \o Section(Entry \o Entry)
                            \o Entry \o Entry \o Section(Entries)
                            \o Section(Entry \o Entry \o Entry))
        pathconf == MayDie \o Call("show_pathconfs")
    IN  MayDie \o Either(Many(mount), Either(Many(pathconf), Many(mount \o Call("show_pathconfs"))))

show_timezone_generic == Entry \o Entry \o Entry \o Maybe(Entry)

libs_callback == Either(<<>>, MayDie \o Object(Section(Entry \o Entry)))

show_libs_generic == Many(Call("libs_callback"))

Generic == [
    show_human_size_entry |-> show_human_size_entry,
    show_pathconfs |-> show_pathconfs,
    libs_callback |-> libs_callback,
    show_rlimits_generic |-> show_rlimits_generic,
    show_clocks_generic |-> show_clocks_generic,
    show_fds_generic |-> show_fds_generic,
    show_confstrs_generic |-> show_confstrs_generic,
    show_cpu_affinities_generic |-> show_cpu_affinities_generic,
    show_memory_generic |-> show_memory_generic,
    show_mounts_generic_linux |-> show_mounts_generic_linux,
    show_mounts_generic_bsd |-> show_mounts_generic_bsd,
    show_timezone_generic |-> show_timezone_generic,
    show_libs_generic |-> show_libs_generic]

=============================================================================
