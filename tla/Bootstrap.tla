----------------------------- MODULE Bootstrap -----------------------------
(***************************************************************************)
(* Process start-up of zpoline-rs: the LD_PRELOAD constructor zpoline_init *)
(* (zpoline_loader/src/lib.rs) maps the VA-0 trampoline, then              *)
(* rewrite_syscalls (init.rs) builds the exclude configuration and runs    *)
(* Rewriter::rewrite_region (zpoline_rewriter/src/rewriter.rs) over every  *)
(* executable region of /proc/self/maps, in order.                         *)
(*                                                                         *)
(* A region's code is abstracted to its instruction sites: "sc" (0F 05,    *)
(* syscall), "se" (0F 34, sysenter), "call" (FF D0, callq *%rax) and       *)
(* "other" (any other instruction).  Start-up is single-threaded; the      *)
(* environment chooses whether mmap at VA 0, reading /proc/self/maps and   *)
(* each mprotect succeed.  The start-up code itself issues system calls    *)
(* through libc (mmap, mprotect, write for eprintln!, brk/mmap for Vec);   *)
(* once libc's sites are patched these go through the trampoline into      *)
(* hook_entry, whose raw path lives in the loader's own text.              *)
(***************************************************************************)
EXTENDS Integers, Sequences, FiniteSets

CONSTANTS
    Regions,     \* /proc/self/maps as parsed: a sequence of region records
    LibcIdx,     \* the region holding libc's syscall wrappers
    LoaderIdx,   \* the region holding the loader's text (and raw_syscall)
    RawAddr,     \* the address of zpoline_hook_api::raw_syscall
    ExePath,     \* std::env::current_exe(), as a sequence of path components
    EnvExclude   \* the non-empty paths of ZPOLINE_EXCLUDE

Kinds == {"sc", "se", "call", "other"}

N == Len(Regions)

ASSUME RegionsAssumption ==
    /\ N \in Nat \ {0}
    /\ {LibcIdx, LoaderIdx} \subseteq 1..N
    /\ RawAddr \in Nat
    /\ \A k \in 1..N :
          /\ Regions[k].start \in Nat /\ Regions[k].end \in Nat
          /\ Regions[k].exec \in BOOLEAN /\ Regions[k].write \in BOOLEAN
          /\ Regions[k].code \in Seq(Kinds)

(* raw_syscall is linked into the loader (zpoline_hook_api is a           *)
(* dependency of the zpoline_loader cdylib), so its address lies in the   *)
(* loader's text mapping.                                                  *)
ASSUME RawInLoaderAssumption ==
    Regions[LoaderIdx].start <= RawAddr /\ RawAddr < Regions[LoaderIdx].end

VARIABLES
    pc,        \* the step of zpoline_init / rewrite_syscalls
    tramp,     \* the trampoline at VA 0 is mapped and generated
    idx,       \* the region the loop of rewrite_syscalls is at
    code,      \* the current instruction sites of every region
    writable,  \* the region's pages are currently writable
    stats,     \* RewriteStats
    failed,    \* regions for which rewrite_region returned Err
    crashed    \* a system call reached an unmapped trampoline or a patched raw path

vars == <<pc, tramp, idx, code, writable, stats, failed, crashed>>

-----------------------------------------------------------------------------
(* build_rewrite_config (init.rs:62-96).                                   *)

Parent(p) == SubSeq(p, 1, Len(p) - 1)

ExcludePaths ==
    {Parent(ExePath) \o << "libzpoline_loader.so" >>} \cup EnvExclude

ExcludeRangesNoRaw == {<< 0, 65536 >>}

ExcludeRanges == {<< RawAddr, RawAddr + 4096 >>, << 0, 65536 >>}

(* Path::starts_with: component-wise prefix.                               *)
StartsWith(p, q) == Len(q) <= Len(p) /\ SubSeq(p, 1, Len(q)) = q

(* RewriteConfig::is_excluded (rewriter.rs:78-96).                        *)
IsExcluded(r) ==
    \/ r.path # << >> /\ \E q \in ExcludePaths : StartsWith(r.path, q) \/ r.path = q
    \/ \E e \in ExcludeRanges : r.start < e[2] /\ r.end > e[1]

(* The "[vdso]" / "[vsyscall]" test of rewrite_syscalls (init.rs:24-33).  *)
IsKernelRegion(r) ==
    \E c \in 1..Len(r.path) : r.path[c] \in {"[vdso]", "[vsyscall]"}

-----------------------------------------------------------------------------
(* Sites reported by find_syscalls, and the patch loop of rewrite_region  *)
(* (rewriter.rs:191-206): re-verify 0F 05 / 0F 34 and write FF D0.        *)

SitesOf(c, kinds) == {s \in DOMAIN c : c[s] \in kinds}

PatchSyscallOnly(c) == [s \in DOMAIN c |-> IF c[s] = "sc" THEN "call" ELSE c[s]]

Patch(c) == [s \in DOMAIN c |-> IF c[s] \in {"sc", "se"} THEN "call" ELSE c[s]]

(* The sites of one kind that the loop rewrites, each counted as it is    *)
(* written (rewriter.rs:194-204).                                          *)
PatchedSites(c, kind) == {s \in SitesOf(c, {kind}) : Patch(c)[s] = "call"}

(* A system call issued by start-up code through libc: it enters the      *)
(* kernel directly while libc is unpatched, and otherwise jumps to VA 0   *)
(* and through hook_entry to raw_syscall, which needs the trampoline and   *)
(* an unpatched raw path.                                                  *)
LibcSyscallOK(c) ==
    \/ c[LibcIdx] = Regions[LibcIdx].code
    \/ tramp /\ c[LoaderIdx] = Regions[LoaderIdx].code

Issue(c) == crashed' = (crashed \/ ~LibcSyscallOK(c))

-----------------------------------------------------------------------------
Init ==
    /\ pc = "start"
    /\ tramp = FALSE
    /\ idx = 1
    /\ code = [k \in 1..N |-> Regions[k].code]
    /\ writable = [k \in 1..N |-> Regions[k].write]
    /\ stats = [scanned |-> 0, rewritten |-> 0, syscalls |-> 0, sysenters |-> 0,
                skipped |-> 0]
    /\ failed = {}
    /\ crashed = FALSE

(* setup_trampoline (trampoline.rs:31-63): mmap(0, ..., MAP_FIXED) and    *)
(* generate the NOP sled and stub; on failure zpoline_init exits.         *)
SetupTrampolineIgnoreError ==
    /\ pc = "start"
    /\ pc' = "parse"
    /\ tramp' \in BOOLEAN
    /\ Issue(code)
    /\ UNCHANGED <<idx, code, writable, stats, failed>>

SetupTrampoline ==
    /\ pc = "start"
    /\ \/ /\ tramp' = TRUE
          /\ pc' = "parse"
       \/ /\ pc' = "exit"
          /\ UNCHANGED tramp
    /\ Issue(code)
    /\ UNCHANGED <<idx, code, writable, stats, failed>>

(* parse_proc_maps (maps.rs:48-66) may fail with an I/O error, which makes *)
(* rewrite_syscalls return Err and zpoline_init exit.                     *)
ParseMaps ==
    /\ pc = "parse"
    /\ pc' \in {"loop", "exit"}
    /\ Issue(code)
    /\ UNCHANGED <<tramp, idx, code, writable, stats, failed>>

(* The loop of rewrite_syscalls skips non-executable regions and, with a   *)
(* warning on stderr, the kernel's [vdso] and [vsyscall].                 *)
SkipRegion ==
    /\ pc = "loop" /\ idx <= N
    /\ ~Regions[idx].exec \/ IsKernelRegion(Regions[idx])
    /\ idx' = idx + 1
    /\ IF Regions[idx].exec THEN Issue(code) ELSE UNCHANGED crashed
    /\ UNCHANGED <<pc, tramp, code, writable, stats, failed>>

(* rewrite_region counts every region it is called on, and an excluded   *)
(* one as skipped (rewriter.rs:131, 139-142).                              *)
CountScan(st, skip) ==
    [scanned |-> st.scanned + 1,
     rewritten |-> st.rewritten,
     syscalls |-> st.syscalls,
     sysenters |-> st.sysenters,
     skipped |-> IF skip THEN st.skipped + 1 ELSE st.skipped]

(* rewrite_region on an excluded region, or one without syscall sites.    *)
RewriteNothing ==
    /\ pc = "loop" /\ idx <= N
    /\ Regions[idx].exec /\ ~IsKernelRegion(Regions[idx])
    /\ IsExcluded(Regions[idx]) \/ SitesOf(code[idx], {"sc", "se"}) = {}
    /\ stats' = CountScan(stats, IsExcluded(Regions[idx]))
    /\ idx' = idx + 1
    /\ UNCHANGED <<pc, tramp, code, writable, failed, crashed>>

(* rewrite_region: mprotect(RWX) on the page-aligned span, patch, and      *)
(* mprotect back to RWX or RX by the region's writable flag.  Either       *)
(* mprotect may fail: the first leaves the region untouched, the second    *)
(* leaves it patched, counted and writable.  rewrite_syscalls then logs    *)
(* the count or the error and goes on with the next region.              *)
RewriteFirstProtectFails ==
    /\ pc = "loop" /\ idx <= N
    /\ Regions[idx].exec /\ ~IsKernelRegion(Regions[idx]) /\ ~IsExcluded(Regions[idx])
    /\ SitesOf(code[idx], {"sc", "se"}) # {}
    /\ stats' = CountScan(stats, FALSE)
    /\ failed' = failed \cup {idx}
    /\ idx' = idx + 1
    /\ Issue(code)
    /\ UNCHANGED <<pc, tramp, code, writable>>

(* The protection the second mprotect leaves (rewriter.rs:165-169,       *)
(* 209-214): original_prot when it succeeds, still RWX when it fails.     *)
RestoredWriteAlwaysRWX(k, ok) == TRUE

RestoredWrite(k, ok) == IF ok THEN Regions[k].write ELSE TRUE

(* The counters of rewrite_region: scanned on entry (131), one per patched *)
(* site inside the loop (201-204), before the restoring mprotect, and     *)
(* regions_rewritten only after it (216-218).                              *)
RegionStatsAlwaysRewritten(st, c, ok) ==
    [scanned |-> st.scanned + 1,
     rewritten |-> st.rewritten + 1,
     syscalls |-> st.syscalls + Cardinality(PatchedSites(c, "sc")),
     sysenters |-> st.sysenters + Cardinality(PatchedSites(c, "se")),
     skipped |-> st.skipped]

RegionStats(st, c, ok) ==
    [scanned |-> st.scanned + 1,
     rewritten |-> IF ok THEN st.rewritten + 1 ELSE st.rewritten,
     syscalls |-> st.syscalls + Cardinality(PatchedSites(c, "sc")),
     sysenters |-> st.sysenters + Cardinality(PatchedSites(c, "se")),
     skipped |-> st.skipped]

RewritePatch ==
    /\ pc = "loop" /\ idx <= N
    /\ Regions[idx].exec /\ ~IsKernelRegion(Regions[idx]) /\ ~IsExcluded(Regions[idx])
    /\ SitesOf(code[idx], {"sc", "se"}) # {}
    /\ code' = [code EXCEPT ![idx] = Patch(@)]
    /\ \E restoreOK \in BOOLEAN :
          /\ writable' = [writable EXCEPT ![idx] = RestoredWrite(idx, restoreOK)]
          /\ failed' = IF restoreOK THEN failed ELSE failed \cup {idx}
          /\ stats' = RegionStats(stats, code[idx], restoreOK)
    /\ crashed' = (crashed \/ ~LibcSyscallOK(code) \/ ~LibcSyscallOK(code'))
    /\ idx' = idx + 1
    /\ UNCHANGED <<pc, tramp>>

(* rewrite_syscalls returns the statistics and zpoline_init reports them. *)
FinishPastEnd ==
    /\ pc = "loop" /\ idx > N
    /\ pc' = "done"
    /\ idx' = idx + 1
    /\ Issue(code)
    /\ UNCHANGED <<tramp, code, writable, stats, failed>>

Finish ==
    /\ pc = "loop" /\ idx > N
    /\ pc' = "done"
    /\ Issue(code)
    /\ UNCHANGED <<tramp, idx, code, writable, stats, failed>>

(* Start-up is over: the application runs (or the process has exited).   *)
Halted ==
    /\ pc \in {"done", "exit"}
    /\ UNCHANGED vars

Next ==
    \/ SetupTrampoline \/ ParseMaps \/ SkipRegion \/ RewriteNothing
    \/ RewriteFirstProtectFails \/ RewritePatch \/ Finish
    \/ Halted

Spec == Init /\ [][Next]_vars

-----------------------------------------------------------------------------
(* Type invariant.                                                         *)
TypeOK ==
    /\ pc \in {"start", "parse", "loop", "done", "exit"}
    /\ tramp \in BOOLEAN
    /\ idx \in 1..(N + 1)
    /\ code \in [1..N -> Seq(Kinds)]
    /\ writable \in [1..N -> BOOLEAN]
    /\ stats \in [scanned : Nat, rewritten : Nat, syscalls : Nat, sysenters : Nat,
                  skipped : Nat]
    /\ failed \subseteq 1..N
    /\ crashed \in BOOLEAN

(* The sites that start-up has changed, as <<region, site>> pairs.         *)
Changed == UNION {{<< k, s >> : s \in {i \in DOMAIN code[k] :
                                         code[k][i] # Regions[k].code[i]}} :
                   k \in 1..N}

ChangedFrom(kind) == {ks \in Changed : Regions[ks[1]].code[ks[2]] = kind}

(* Spec 4.1 and 4.4 (a): the raw syscall path must never be patched.  The  *)
(* loader's text, which holds raw_syscall and hook_entry, keeps its        *)
(* syscall instruction, although build_rewrite_config names the loader by  *)
(* the directory of the application (init.rs:66-72): the range            *)
(* [raw_syscall, +4096) is what excludes it.                               *)
RawPathIntact == code[LoaderIdx] = Regions[LoaderIdx].code

(* Every system call the start-up code makes through libc reaches the     *)
(* kernel: after libc's own syscall sites are patched, the trampoline is   *)
(* already mapped (setup_trampoline runs first and its failure is fatal)   *)
(* and the raw path it ends in is unpatched.                               *)
NoCrash == ~crashed

(* Spec 8.2 and 8.4: a site is only ever changed from 0F 05 / 0F 34 to      *)
(* FF D0, and once the loop has passed a region that it rewrote without   *)
(* error, no syscall or sysenter site is left in it.                        *)
ReplacementFidelity ==
    /\ \A ks \in Changed :
          Regions[ks[1]].code[ks[2]] \in {"sc", "se"} /\ code[ks[1]][ks[2]] = "call"
    /\ \A k \in 1..(idx - 1) \ failed :
          Regions[k].exec /\ ~IsKernelRegion(Regions[k]) /\ ~IsExcluded(Regions[k])
             => SitesOf(code[k], {"sc", "se"}) = {}

(* RewriteStats agrees with memory: syscalls_replaced and                  *)
(* sysenters_replaced count exactly the patched sites of each kind, and    *)
(* regions_rewritten the patched regions whose protection was restored.    *)
CountsMatchPatches ==
    /\ stats.syscalls = Cardinality(ChangedFrom("sc"))
    /\ stats.sysenters = Cardinality(ChangedFrom("se"))
    /\ stats.rewritten = Cardinality({k \in 1..N \ failed : code[k] # Regions[k].code})

(* Spec 4.4 step 7: every region that did not fail has its original        *)
(* writability back (RX stays RX, RWX stays RWX).                          *)
WXRestored == \A k \in (1..N) \ failed : writable[k] = Regions[k].write

(* Spec 7: a region whose rewrite failed adds nothing to the success       *)
(* counters: syscalls_replaced and sysenters_replaced count only sites of  *)
(* regions for which rewrite_region returned Ok.                            *)
NoSuccessCountOnFailure ==
    stats.syscalls + stats.sysenters =
        Cardinality({ks \in Changed : ks[1] \notin failed})

=============================================================================
