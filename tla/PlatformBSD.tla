----------------------------- MODULE PlatformBSD -----------------------------
(***************************************************************************)
(* The operations of the BSD, Darwin, Minix and Hurd platforms and of the  *)
(* fallback platform "unknown", as scripts.                                *)
(***************************************************************************)
EXTENDS PlatformGeneric

show_fd_capabilities_freebsd == Either(<<>>, Entries)

show_mounts_freebsd == Call("show_mounts_generic_bsd")

show_cpu_freebsd == MayDie \o Entry

handle_proc_branch_freebsd == MayDie \o Entry

show_clocks_freebsd == show_clock_res \o Many(show_clock_res)

show_cpu_darwin == Entry

handle_proc_branch_darwin == Either(<<>>, Entry)

show_mounts_darwin == Call("show_mounts_generic_bsd")

show_memory_darwin ==
    Either(<<>>, Section(mk_mem_section \o Many(mk_mem_section)))

handle_load_cmds ==
    Many(Object(Section(Maybe(Entry) \o Entry \o Section(Maybe(Entry) \o Maybe(Entry)))))

show_libs_darwin == Maybe(Call("handle_load_cmds"))

show_mounts_netbsd == Call("show_mounts_generic_bsd")

handle_proc_branch_netbsd == MayDie \o Entry

show_mounts_openbsd == Call("show_mounts_generic_bsd")

handle_proc_branch_openbsd == MayDie \o Entry

show_mounts_minix == Call("show_mounts_generic_bsd")

handle_proc_branch_minix == <<>>

BSD == [
    show_fd_capabilities_freebsd |-> show_fd_capabilities_freebsd,
    show_mounts_freebsd |-> show_mounts_freebsd,
    show_cpu_freebsd |-> show_cpu_freebsd,
    handle_proc_branch_freebsd |-> handle_proc_branch_freebsd,
    show_clocks_freebsd |-> show_clocks_freebsd,
    show_cpu_darwin |-> show_cpu_darwin,
    handle_proc_branch_darwin |-> handle_proc_branch_darwin,
    show_mounts_darwin |-> show_mounts_darwin,
    show_memory_darwin |-> show_memory_darwin,
    handle_load_cmds |-> handle_load_cmds,
    show_libs_darwin |-> show_libs_darwin,
    show_mounts_netbsd |-> show_mounts_netbsd,
    handle_proc_branch_netbsd |-> handle_proc_branch_netbsd,
    show_mounts_openbsd |-> show_mounts_openbsd,
    handle_proc_branch_openbsd |-> handle_proc_branch_openbsd,
    show_mounts_minix |-> show_mounts_minix,
    handle_proc_branch_minix |-> handle_proc_branch_minix]

platform_ops_freebsd == [
    get_time |-> "get_time_generic",
    show_confstrs |-> "show_confstrs_generic",
    show_cpu |-> "show_cpu_freebsd",
    show_clocks |-> "show_clocks_freebsd",
    show_cpu_affinities |-> "show_cpu_affinities_generic",
    show_fd_capabilities |-> "show_fd_capabilities_freebsd",
    show_fds |-> "show_fds_generic",
    show_mounts |-> "show_mounts_freebsd",
    show_rlimits |-> "show_rlimits_generic",
    show_timezone |-> "show_timezone_generic",
    show_libs |-> "show_libs_generic",
    handle_memory |-> "show_memory_generic",
    handle_proc_branch |-> "handle_proc_branch_freebsd"]

platform_ops_darwin == [
    get_time |-> "get_time_darwin",
    handle_proc_branch |-> "handle_proc_branch_darwin",
    show_confstrs |-> "show_confstrs_generic",
    show_cpu |-> "show_cpu_darwin",
    show_clocks |-> "show_clocks_generic",
    show_fds |-> "show_fds_generic",
    show_mounts |-> "show_mounts_darwin",
    show_rlimits |-> "show_rlimits_generic",
    show_timezone |-> "show_timezone_generic",
    show_libs |-> "show_libs_darwin",
    handle_memory |-> "show_memory_darwin"]

platform_ops_netbsd == [
    get_time |-> "get_time_generic",
    show_clocks |-> "show_clocks_generic",
    show_confstrs |-> "show_confstrs_generic",
    show_cpu_affinities |-> "show_cpu_affinities_generic",
    show_fds |-> "show_fds_generic",
    show_mounts |-> "show_mounts_netbsd",
    show_rlimits |-> "show_rlimits_generic",
    show_timezone |-> "show_timezone_generic",
    show_libs |-> "show_libs_generic",
    handle_proc_branch |-> "handle_proc_branch_netbsd"]

platform_ops_openbsd == [
    get_time |-> "get_time_generic",
    show_clocks |-> "show_clocks_generic",
    show_confstrs |-> "show_confstrs_generic",
    show_cpu_affinities |-> "show_cpu_affinities_generic",
    show_fds |-> "show_fds_generic",
    show_mounts |-> "show_mounts_openbsd",
    show_rlimits |-> "show_rlimits_generic",
    show_timezone |-> "show_timezone_generic",
    show_libs |-> "show_libs_generic",
    handle_proc_branch |-> "handle_proc_branch_openbsd"]

platform_ops_minix == [
    get_time |-> "get_time_generic",
    handle_proc_branch |-> "handle_proc_branch_minix",
    show_clocks |-> "show_clocks_generic",
    show_fds |-> "show_fds_generic",
    show_mounts |-> "show_mounts_minix",
    show_rlimits |-> "show_rlimits_generic"]

platform_ops_hurd == [
    get_time |-> "get_time_generic",
    show_clocks |-> "show_clocks_generic",
    show_confstrs |-> "show_confstrs_generic",
    show_cpu_affinities |-> "show_cpu_affinities_generic",
    show_fds |-> "show_fds_generic",
    show_mounts |-> "show_mounts_generic_linux",
    show_rlimits |-> "show_rlimits_generic",
    show_libs |-> "show_libs_generic"]

platform_ops_unknown == [
    get_time |-> "get_time_generic",
    show_fds |-> "show_fds_generic",
    show_clocks |-> "show_clocks_generic"]

=============================================================================
