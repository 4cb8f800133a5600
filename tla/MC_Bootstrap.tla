---------------------------- MODULE MC_Bootstrap ----------------------------
(***************************************************************************)
(* A process image for TLC, in the order of /proc/self/maps: the VA-0      *)
(* trampoline, the application's text and data, the preloaded loader      *)
(* (whose text holds raw_syscall), a library excluded by ZPOLINE_EXCLUDE,  *)
(* libc, an anonymous executable mapping holding a sysenter and [vdso].   *)
(***************************************************************************)
EXTENDS Bootstrap

Region(s, e, x, w, p, c) == [start |-> s, end |-> e, exec |-> x, write |-> w,
                             path |-> p, code |-> c]

MCRegions ==
    << Region(0, 8192, TRUE, TRUE, << >>, << "other" >>),
       Region(4194304, 4198400, TRUE, FALSE, << "usr", "bin", "app" >>, << "sc", "other" >>),
       Region(4202496, 4206592, FALSE, TRUE, << "usr", "bin", "app" >>, << "other" >>),
       Region(268435456, 268451840, TRUE, FALSE,
              << "opt", "zpoline", "libzpoline_loader.so" >>, << "sc" >>),
       Region(301989888, 301993984, TRUE, FALSE,
              << "usr", "lib", "libfoo.so" >>, << "sc" >>),
       Region(536870912, 536936448, TRUE, FALSE,
              << "lib", "libc.so.6" >>, << "sc", "other", "sc" >>),
       Region(805306368, 805310464, TRUE, TRUE, << >>, << "se", "sc" >>),
       Region(2146435072, 2146443264, TRUE, FALSE, << "[vdso]" >>, << "sc" >>) >>

MCLibcIdx == 6
MCLoaderIdx == 4
MCRawAddr == 268439552
MCExePath == << "usr", "bin", "app" >>
MCEnvExclude == {<< "usr", "lib" >>}
=============================================================================
