-------------------------- MODULE BootstrapProofs --------------------------
(***************************************************************************)
(* Machine-checked proofs about start-up (Bootstrap.tla): for every maps   *)
(* content, loader position and exclude list, start-up is well typed,     *)
(* never patches the raw syscall path, never crashes on its own syscalls,  *)
(* restores the protection of every region that did not fail, and patches *)
(* exactly the syscall and sysenter sites of the regions it rewrites.      *)
(***************************************************************************)
EXTENDS Bootstrap, FiniteSetTheorems, TLAPS

Orig == [k \in 1..N |-> Regions[k].code]

-----------------------------------------------------------------------------
(* Lemmas about the patch loop of rewrite_region.                          *)

(* Patching keeps a region's sites in place and their kinds in Kinds.     *)
LEMMA PatchType ==
    ASSUME NEW c \in Seq(Kinds)
    PROVE  /\ Patch(c) \in Seq(Kinds)
           /\ DOMAIN Patch(c) = DOMAIN c
           /\ \A s \in DOMAIN c : Patch(c)[s] = IF c[s] \in {"sc", "se"} THEN "call" ELSE c[s]
BY DEF Patch, Kinds

(* After the loop no syscall or sysenter site is left in the region.      *)
LEMMA PatchComplete ==
    ASSUME NEW c \in Seq(Kinds)
    PROVE  SitesOf(Patch(c), {"sc", "se"}) = {}
BY DEF Patch, SitesOf

(* The counters added for a region are natural numbers.                   *)
LEMMA PatchedSitesCard ==
    ASSUME NEW c \in Seq(Kinds), NEW kind
    PROVE  Cardinality(PatchedSites(c, kind)) \in Nat
<1>1. IsFiniteSet(1..Len(c))
  BY FS_Interval
<1>2. PatchedSites(c, kind) \subseteq 1..Len(c)
  BY DEF PatchedSites, SitesOf
<1>3. IsFiniteSet(PatchedSites(c, kind))
  BY <1>1, <1>2, FS_Subset
<1>. QED
  BY <1>3, FS_CardinalityType

(* RegionStats keeps RewriteStats a record of natural numbers.            *)
LEMMA RegionStatsType ==
    ASSUME NEW st \in [scanned : Nat, rewritten : Nat, syscalls : Nat,
                       sysenters : Nat, skipped : Nat],
           NEW c \in Seq(Kinds), NEW ok \in BOOLEAN
    PROVE  RegionStats(st, c, ok) \in [scanned : Nat, rewritten : Nat, syscalls : Nat,
                                       sysenters : Nat, skipped : Nat]
<1>1. Cardinality(PatchedSites(c, "sc")) \in Nat /\ Cardinality(PatchedSites(c, "se")) \in Nat
  BY PatchedSitesCard
<1>. QED
  BY <1>1 DEF RegionStats

(* CountScan keeps RewriteStats a record of natural numbers.              *)
LEMMA CountScanType ==
    ASSUME NEW st \in [scanned : Nat, rewritten : Nat, syscalls : Nat,
                       sysenters : Nat, skipped : Nat],
           NEW skip \in BOOLEAN
    PROVE  CountScan(st, skip) \in [scanned : Nat, rewritten : Nat, syscalls : Nat,
                                    sysenters : Nat, skipped : Nat]
BY DEF CountScan

-----------------------------------------------------------------------------
(* Type correctness.                                                       *)

(* The initial state is well typed.                                       *)
LEMMA TypeInit == Init => TypeOK
<1> SUFFICES ASSUME Init PROVE TypeOK
  OBVIOUS
<1>1. code \in [1..N -> Seq(Kinds)]
  BY RegionsAssumption DEF Init
<1>2. writable \in [1..N -> BOOLEAN]
  BY RegionsAssumption DEF Init
<1>3. idx \in 1..(N + 1)
  BY RegionsAssumption DEF Init
<1>4. stats \in [scanned : Nat, rewritten : Nat, syscalls : Nat, sysenters : Nat,
                  skipped : Nat]
  BY DEF Init
<1>. QED
  BY <1>1, <1>2, <1>3, <1>4 DEF Init, TypeOK

(* Every step keeps the state well typed.                                 *)
LEMMA TypeStep == TypeOK /\ [Next]_vars => TypeOK'
<1> SUFFICES ASSUME TypeOK, [Next]_vars PROVE TypeOK'
  OBVIOUS
<1> USE RegionsAssumption DEF TypeOK
<1>1. CASE SetupTrampoline
  BY <1>1 DEF SetupTrampoline, Issue
<1>2. CASE ParseMaps
  BY <1>2 DEF ParseMaps, Issue
<1>3. CASE SkipRegion
  BY <1>3 DEF SkipRegion, Issue
<1>4. CASE RewriteNothing
  <2>1. IsExcluded(Regions[idx]) \in BOOLEAN
    BY DEF IsExcluded
  <2>2. stats' \in [scanned : Nat, rewritten : Nat, syscalls : Nat,
                    sysenters : Nat, skipped : Nat]
    BY <1>4, <2>1, CountScanType DEF RewriteNothing
  <2>3. idx' \in 1..(N + 1)
    BY <1>4 DEF RewriteNothing
  <2>. QED
    BY <1>4, <2>2, <2>3 DEF RewriteNothing
<1>5. CASE RewriteFirstProtectFails
  <2>1. stats' \in [scanned : Nat, rewritten : Nat, syscalls : Nat,
                    sysenters : Nat, skipped : Nat]
    BY <1>5, CountScanType DEF RewriteFirstProtectFails
  <2>2. idx' \in 1..(N + 1) /\ failed' \subseteq 1..N
    BY <1>5 DEF RewriteFirstProtectFails
  <2>. QED
    BY <1>5, <2>1, <2>2 DEF RewriteFirstProtectFails, Issue
<1>6. CASE RewritePatch
  <2>1. code[idx] \in Seq(Kinds) /\ idx \in 1..N
    BY <1>6 DEF RewritePatch
  <2>2. Patch(code[idx]) \in Seq(Kinds)
    BY <2>1, PatchType
  <2>3. PICK ok \in BOOLEAN :
          /\ writable' = [writable EXCEPT ![idx] = RestoredWrite(idx, ok)]
          /\ failed' = IF ok THEN failed ELSE failed \cup {idx}
          /\ stats' = RegionStats(stats, code[idx], ok)
    BY <1>6 DEF RewritePatch
  <2>4. stats' \in [scanned : Nat, rewritten : Nat, syscalls : Nat,
                    sysenters : Nat, skipped : Nat]
    BY <2>1, <2>3, RegionStatsType
  <2>5. RestoredWrite(idx, ok) \in BOOLEAN
    BY <2>1 DEF RestoredWrite
  <2>6. code' \in [1..N -> Seq(Kinds)]
    BY <1>6, <2>1, <2>2 DEF RewritePatch
  <2>7. writable' \in [1..N -> BOOLEAN] /\ failed' \subseteq 1..N
    BY <2>1, <2>3, <2>5
  <2>8. idx' \in 1..(N + 1) /\ pc' = pc /\ tramp' = tramp
    BY <1>6, <2>1 DEF RewritePatch
  <2>9. crashed' \in BOOLEAN
    BY <1>6 DEF RewritePatch
  <2>. QED
    BY <2>4, <2>6, <2>7, <2>8, <2>9
<1>7. CASE Finish
  BY <1>7 DEF Finish, Issue
<1>8. CASE Halted
  BY <1>8 DEF Halted, vars
<1>9. CASE UNCHANGED vars
  BY <1>9 DEF vars
<1>. QED
  BY <1>1, <1>2, <1>3, <1>4, <1>5, <1>6, <1>7, <1>8, <1>9 DEF Next

(* Every reachable state of start-up is well typed.                       *)
THEOREM TypeCorrect == Spec => []TypeOK
BY TypeInit, TypeStep, PTL DEF Spec

-----------------------------------------------------------------------------
(* The raw path and start-up's own system calls.                           *)

(* The loader's text overlaps [raw_syscall, raw_syscall + 4096), so        *)
(* is_excluded holds for it whatever its path.                             *)
LEMMA LoaderExcluded == IsExcluded(Regions[LoaderIdx])
<1>1. << RawAddr, RawAddr + 4096 >> \in ExcludeRanges
  BY DEF ExcludeRanges
<1>2. /\ Regions[LoaderIdx].start < RawAddr + 4096
      /\ Regions[LoaderIdx].end > RawAddr
  BY RegionsAssumption, RawInLoaderAssumption
<1>. QED
  BY <1>1, <1>2 DEF IsExcluded

(* The inductive invariant: the trampoline exists from the moment maps    *)
(* parsing starts, no code changes before it exists, the loader's text    *)
(* never changes, and so no system call of start-up has crashed.          *)
SafeInv ==
    /\ TypeOK
    /\ ~crashed
    /\ pc \in {"parse", "loop", "done"} => tramp
    /\ ~tramp => code = Orig
    /\ code[LoaderIdx] = Regions[LoaderIdx].code

(* A libc system call of start-up succeeds in every state of SafeInv, and *)
(* after a patch of any region other than the loader's while the          *)
(* trampoline is mapped.                                                   *)
LEMMA SafeLibc ==
    ASSUME SafeInv,
           NEW c, c[LoaderIdx] = Regions[LoaderIdx].code,
           tramp \/ c = Orig
    PROVE  LibcSyscallOK(c)
<1>1. CASE tramp
  BY <1>1 DEF LibcSyscallOK
<1>2. CASE c = Orig
  BY <1>2, RegionsAssumption DEF LibcSyscallOK, Orig
<1>. QED
  BY <1>1, <1>2

(* Start-up never patches the loader's text (spec 4.1: the raw syscall     *)
(* path must not be rewritten) and never crashes on its own system calls.  *)
THEOREM SafeInvariant == Spec => []SafeInv
<1>1. Init => SafeInv
  BY TypeInit, RegionsAssumption DEF Init, SafeInv, Orig
<1>2. SafeInv /\ [Next]_vars => SafeInv'
  <2> SUFFICES ASSUME SafeInv, [Next]_vars PROVE SafeInv'
    OBVIOUS
  <2>0. TypeOK'
    BY TypeStep DEF SafeInv
  <2>1. CASE SetupTrampoline
    <3>1. LibcSyscallOK(code)
      BY SafeLibc DEF SafeInv, TypeOK
    <3>. QED
      BY <2>0, <2>1, <3>1 DEF SetupTrampoline, Issue, SafeInv
  <2>2. CASE ParseMaps
    <3>1. LibcSyscallOK(code)
      BY SafeLibc DEF SafeInv
    <3>. QED
      BY <2>0, <2>2, <3>1 DEF ParseMaps, Issue, SafeInv
  <2>3. CASE SkipRegion
    <3>1. LibcSyscallOK(code)
      BY SafeLibc DEF SafeInv
    <3>. QED
      BY <2>0, <2>3, <3>1 DEF SkipRegion, Issue, SafeInv
  <2>4. CASE RewriteNothing
    BY <2>0, <2>4 DEF RewriteNothing, SafeInv
  <2>5. CASE RewriteFirstProtectFails
    <3>1. LibcSyscallOK(code)
      BY SafeLibc DEF SafeInv
    <3>. QED
      BY <2>0, <2>5, <3>1 DEF RewriteFirstProtectFails, Issue, SafeInv
  <2>6. CASE RewritePatch
    <3>1. tramp /\ idx \in 1..N /\ LoaderIdx \in 1..N
      BY <2>6, RegionsAssumption DEF RewritePatch, SafeInv, TypeOK
    <3>2. idx # LoaderIdx
      BY <2>6, LoaderExcluded DEF RewritePatch
    <3>3. code'[LoaderIdx] = Regions[LoaderIdx].code
      BY <2>6, <3>1, <3>2 DEF RewritePatch, SafeInv, TypeOK
    <3>4. LibcSyscallOK(code) /\ LibcSyscallOK(code')
      BY <3>1, <3>3, SafeLibc DEF SafeInv
    <3>5. ~crashed'
      BY <2>6, <3>4 DEF RewritePatch, SafeInv
    <3>. QED
      BY <2>0, <2>6, <3>1, <3>3, <3>5 DEF RewritePatch, SafeInv
  <2>7. CASE Finish
    <3>1. LibcSyscallOK(code)
      BY SafeLibc DEF SafeInv
    <3>. QED
      BY <2>0, <2>7, <3>1 DEF Finish, Issue, SafeInv
  <2>8. CASE Halted
    BY <2>0, <2>8 DEF Halted, vars, SafeInv
  <2>9. CASE UNCHANGED vars
    BY <2>0, <2>9 DEF vars, SafeInv
  <2>. QED
    BY <2>1, <2>2, <2>3, <2>4, <2>5, <2>6, <2>7, <2>8, <2>9 DEF Next
<1>. QED
  BY <1>1, <1>2, PTL DEF Spec

(* The raw syscall path is never patched (RawPathIntact), for every maps  *)
(* content whose loader text holds raw_syscall.                            *)
THEOREM RawPathNeverPatched == Spec => []RawPathIntact
BY SafeInvariant, PTL DEF SafeInv, RawPathIntact

(* No system call that start-up makes through libc fails for want of the  *)
(* trampoline or of an unpatched raw path (NoCrash).                       *)
THEOREM StartupNeverCrashes == Spec => []NoCrash
BY SafeInvariant, PTL DEF SafeInv, NoCrash

-----------------------------------------------------------------------------
(* Protections.                                                            *)

(* Every region whose rewrite did not fail has its original writability   *)
(* (WXRestored): the restoring mprotect puts back original_prot, and only *)
(* a failing one leaves a region RWX.                                      *)
THEOREM WXRestoredHolds == Spec => []WXRestored
<1>1. Init => WXRestored
  BY DEF Init, WXRestored
<1>2. TypeOK /\ WXRestored /\ [Next]_vars => WXRestored'
  <2> SUFFICES ASSUME TypeOK, WXRestored, [Next]_vars PROVE WXRestored'
    OBVIOUS
  <2>1. CASE RewritePatch
    <3>1. PICK ok \in BOOLEAN :
            /\ writable' = [writable EXCEPT ![idx] = RestoredWrite(idx, ok)]
            /\ failed' = IF ok THEN failed ELSE failed \cup {idx}
      BY <2>1 DEF RewritePatch
    <3>2. idx \in 1..N
      BY <2>1 DEF RewritePatch, TypeOK
    <3>. QED
      BY <3>1, <3>2 DEF WXRestored, RestoredWrite, TypeOK
  <2>2. CASE RewriteFirstProtectFails
    BY <2>2 DEF RewriteFirstProtectFails, WXRestored
  <2>3. CASE ~RewritePatch /\ ~RewriteFirstProtectFails
    BY <2>3 DEF Next, vars, SetupTrampoline, ParseMaps, SkipRegion, RewriteNothing,
                Finish, Halted, WXRestored
  <2>. QED
    BY <2>1, <2>2, <2>3
<1>. QED
  BY <1>1, <1>2, TypeInit, TypeStep, PTL DEF Spec

-----------------------------------------------------------------------------
(* Replacement fidelity.                                                   *)

(* No region gains or loses sites.                                         *)
SitesKept == \A k \in 1..N : DOMAIN code[k] = DOMAIN Regions[k].code

(* A site that differs from the original was 0F 05 or 0F 34 and is FF D0. *)
SiteChanges ==
    \A k \in 1..N : \A s \in DOMAIN code[k] :
        code[k][s] # Regions[k].code[s]
            => Regions[k].code[s] \in {"sc", "se"} /\ code[k][s] = "call"

(* The second conjunct of ReplacementFidelity.                             *)
RewrittenClean ==
    \A k \in 1..(idx - 1) \ failed :
        Regions[k].exec /\ ~IsKernelRegion(Regions[k]) /\ ~IsExcluded(Regions[k])
            => SitesOf(code[k], {"sc", "se"}) = {}

FidelityInv == TypeOK /\ SitesKept /\ SiteChanges /\ RewrittenClean

(* Changed holds exactly the sites that differ from the original.        *)
LEMMA ChangedSites ==
    ASSUME NEW ks \in Changed
    PROVE  \E k \in 1..N : \E s \in DOMAIN code[k] :
              ks = << k, s >> /\ code[k][s] # Regions[k].code[s]
BY DEF Changed

LEMMA FidelityInit == Init => FidelityInv
<1> SUFFICES ASSUME Init PROVE FidelityInv
  OBVIOUS
<1>1. TypeOK
  BY TypeInit
<1>2. SitesKept /\ SiteChanges
  BY DEF Init, SitesKept, SiteChanges
<1>3. RewrittenClean
  BY DEF Init, RewrittenClean
<1>. QED
  BY <1>1, <1>2, <1>3 DEF FidelityInv

LEMMA FidelityStep == FidelityInv /\ [Next]_vars => FidelityInv'
<1> SUFFICES ASSUME FidelityInv, [Next]_vars PROVE FidelityInv'
  OBVIOUS
<1>0. TypeOK'
  BY TypeStep DEF FidelityInv
<1>1. CASE RewritePatch
  <2> DEFINE c == code[idx]
  <2>1. idx \in 1..N /\ c \in Seq(Kinds) /\ code' = [code EXCEPT ![idx] = Patch(c)]
    BY <1>1 DEF RewritePatch, FidelityInv, TypeOK
  <2>2. PICK ok \in BOOLEAN : failed' = IF ok THEN failed ELSE failed \cup {idx}
    BY <1>1 DEF RewritePatch
  <2>6. /\ code'[idx] = Patch(c)
        /\ \A k \in (1..N) \ {idx} : code'[k] = code[k]
    BY <2>1 DEF FidelityInv, TypeOK
  <2>3. SitesKept'
    BY <2>1, PatchType DEF SitesKept, FidelityInv
  <2>4. SiteChanges'
    <3> SUFFICES ASSUME NEW k \in 1..N, NEW s \in DOMAIN code'[k],
                        code'[k][s] # Regions[k].code[s]
                 PROVE  Regions[k].code[s] \in {"sc", "se"} /\ code'[k][s] = "call"
      BY DEF SiteChanges
    <3>1. CASE k # idx
      BY <2>6, <3>1 DEF SiteChanges, FidelityInv
    <3>2. CASE k = idx
      <4>1. s \in DOMAIN c /\ code'[k][s] = Patch(c)[s]
        BY <2>1, <2>6, <3>2, PatchType
      <4>2. CASE c[s] \in {"sc", "se"}
        <5>1. c[s] = Regions[k].code[s]
          BY <3>2, <4>1, <4>2 DEF SiteChanges, FidelityInv
        <5>. QED
          BY <4>1, <4>2, <5>1, <2>1, PatchType
      <4>3. CASE c[s] \notin {"sc", "se"}
        BY <3>2, <4>1, <4>3, <2>1, PatchType DEF SiteChanges, FidelityInv
      <4>. QED
        BY <4>2, <4>3
    <3>. QED
      BY <3>1, <3>2
  <2>5. RewrittenClean'
    <3> SUFFICES ASSUME NEW k \in 1..(idx' - 1) \ failed',
                        Regions[k].exec, ~IsKernelRegion(Regions[k]), ~IsExcluded(Regions[k])
                 PROVE  SitesOf(code'[k], {"sc", "se"}) = {}
      BY DEF RewrittenClean
    <3>1. idx' = idx + 1
      BY <1>1 DEF RewritePatch
    <3>2. CASE k = idx
      BY <2>1, <2>6, <3>2, PatchComplete
    <3>3. CASE k # idx
      <4>0. failed \subseteq failed'
        BY <2>2
      <4>1. k \in 1..(idx - 1)
        BY <2>1, <3>1, <3>3, RegionsAssumption
      <4>2. k \notin failed
        BY <4>0
      <4>3. k \in (1..N) \ {idx}
        BY <2>1, <4>1, RegionsAssumption
      <4>. QED
        BY <2>6, <4>1, <4>2, <4>3 DEF RewrittenClean, FidelityInv
    <3>. QED
      BY <3>2, <3>3
  <2>. QED
    BY <1>0, <2>3, <2>4, <2>5 DEF FidelityInv
<1>2. CASE RewriteNothing
  <2>1. idx \in 1..N /\ idx' = idx + 1 /\ UNCHANGED <<code, failed>>
    BY <1>2 DEF RewriteNothing, FidelityInv, TypeOK
  <2>2. IsExcluded(Regions[idx]) \/ SitesOf(code[idx], {"sc", "se"}) = {}
    BY <1>2 DEF RewriteNothing
  <2>3. RewrittenClean'
    <3> SUFFICES ASSUME NEW k \in 1..(idx' - 1) \ failed',
                        Regions[k].exec, ~IsKernelRegion(Regions[k]), ~IsExcluded(Regions[k])
                 PROVE  SitesOf(code'[k], {"sc", "se"}) = {}
      BY DEF RewrittenClean
    <3>1. CASE k = idx
      BY <2>1, <2>2, <3>1
    <3>2. CASE k # idx
      <4>1. k \in 1..(idx - 1) \ failed
        BY <2>1, <3>2
      <4>. QED
        BY <2>1, <4>1 DEF RewrittenClean, FidelityInv
    <3>. QED
      BY <3>1, <3>2
  <2>. QED
    BY <1>0, <2>1, <2>3 DEF FidelityInv, SitesKept, SiteChanges
<1>3. CASE SkipRegion
  <2>1. idx \in 1..N /\ idx' = idx + 1 /\ UNCHANGED <<code, failed>>
    BY <1>3 DEF SkipRegion, FidelityInv, TypeOK
  <2>2. ~Regions[idx].exec \/ IsKernelRegion(Regions[idx])
    BY <1>3 DEF SkipRegion
  <2>3. RewrittenClean'
    <3> SUFFICES ASSUME NEW k \in 1..(idx' - 1) \ failed',
                        Regions[k].exec, ~IsKernelRegion(Regions[k]), ~IsExcluded(Regions[k])
                 PROVE  SitesOf(code'[k], {"sc", "se"}) = {}
      BY DEF RewrittenClean
    <3>1. CASE k = idx
      BY <2>1, <2>2, <3>1
    <3>2. CASE k # idx
      <4>1. k \in 1..(idx - 1) \ failed
        BY <2>1, <3>2
      <4>. QED
        BY <2>1, <4>1 DEF RewrittenClean, FidelityInv
    <3>. QED
      BY <3>1, <3>2
  <2>. QED
    BY <1>0, <2>1, <2>3 DEF FidelityInv, SitesKept, SiteChanges
<1>4. CASE RewriteFirstProtectFails
  <2>1. idx \in 1..N /\ idx' = idx + 1 /\ failed' = failed \cup {idx} /\ UNCHANGED code
    BY <1>4 DEF RewriteFirstProtectFails, FidelityInv, TypeOK
  <2>2. RewrittenClean'
    <3> SUFFICES ASSUME NEW k \in 1..(idx' - 1) \ failed',
                        Regions[k].exec, ~IsKernelRegion(Regions[k]), ~IsExcluded(Regions[k])
                 PROVE  SitesOf(code'[k], {"sc", "se"}) = {}
      BY DEF RewrittenClean
    <3>1. k \in 1..(idx - 1) \ failed
      BY <2>1
    <3>. QED
      BY <2>1, <3>1 DEF RewrittenClean, FidelityInv
  <2>. QED
    BY <1>0, <2>1, <2>2 DEF FidelityInv, SitesKept, SiteChanges
<1>5. CASE UNCHANGED <<idx, code, failed>>
  BY <1>0, <1>5 DEF FidelityInv, SitesKept, SiteChanges, RewrittenClean
<1>. QED
  BY <1>1, <1>2, <1>3, <1>4, <1>5
     DEF Next, vars, SetupTrampoline, ParseMaps, Finish, Halted

(* Start-up changes only syscall and sysenter sites, each into callq       *)
(* *%rax, and leaves none in a region it rewrote without error            *)
(* (ReplacementFidelity, spec 8.2 and 8.4).                                *)
THEOREM ReplacementFidelityHolds == Spec => []ReplacementFidelity
<1>1. FidelityInv => ReplacementFidelity
  <2> SUFFICES ASSUME FidelityInv PROVE ReplacementFidelity
    OBVIOUS
  <2>1. \A ks \in Changed :
           Regions[ks[1]].code[ks[2]] \in {"sc", "se"} /\ code[ks[1]][ks[2]] = "call"
    BY ChangedSites DEF FidelityInv, SiteChanges
  <2>. QED
    BY <2>1 DEF ReplacementFidelity, FidelityInv, RewrittenClean
<1>. QED
  BY <1>1, FidelityInit, FidelityStep, PTL DEF Spec

-----------------------------------------------------------------------------
(* The counters of RewriteStats.                                           *)

(* The regions the loop has not reached have not failed and still hold   *)
(* their original code.                                                   *)
Untouched ==
    /\ \A k \in failed : k < idx
    /\ \A k \in 1..N : idx <= k => code[k] = Regions[k].code

(* ChangedFrom(kind) for a given content of the regions.                  *)
ChangedSet(cd, kind) ==
    {ks \in (1..N) \X Nat : /\ ks[2] \in DOMAIN cd[ks[1]]
                             /\ cd[ks[1]][ks[2]] # Regions[ks[1]].code[ks[2]]
                             /\ Regions[ks[1]].code[ks[2]] = kind}

(* ChangedFrom, now and after a step, as a set comprehension.             *)
LEMMA ChangedFromNow ==
    ASSUME TypeOK, NEW kind PROVE ChangedFrom(kind) = ChangedSet(code, kind)
BY DEF ChangedFrom, Changed, ChangedSet, TypeOK

LEMMA ChangedFromNext ==
    ASSUME TypeOK', NEW kind PROVE ChangedFrom(kind)' = ChangedSet(code', kind)
BY DEF ChangedFrom, Changed, ChangedSet, TypeOK

(* Patching a region still in its original state adds exactly its        *)
(* syscall (sysenter) sites, paired with the region, to the changed       *)
(* syscall (sysenter) sites, and none of them was there before.           *)
LEMMA PatchAdds ==
    ASSUME NEW cd \in [1..N -> Seq(Kinds)], NEW i \in 1..N,
           cd[i] = Regions[i].code, NEW kind \in {"sc", "se"}
    PROVE  /\ ChangedSet([cd EXCEPT ![i] = Patch(cd[i])], kind) =
                 ChangedSet(cd, kind) \cup ({i} \X PatchedSites(cd[i], kind))
           /\ ChangedSet(cd, kind) \cap ({i} \X PatchedSites(cd[i], kind)) = {}
<1> DEFINE c == cd[i]
           cd2 == [cd EXCEPT ![i] = Patch(c)]
<1>1. c \in Seq(Kinds)
  OBVIOUS
<1>2. \A s \in DOMAIN c : s \in Nat
  BY <1>1
<1>3. ASSUME NEW s \in DOMAIN c
      PROVE  (cd2[i][s] # Regions[i].code[s] /\ Regions[i].code[s] = kind)
                <=> c[s] = kind
  BY <1>1, PatchType
<1>4. PatchedSites(c, kind) = {s \in DOMAIN c : c[s] = kind}
  BY <1>1, PatchType DEF PatchedSites, SitesOf
<1>5. DOMAIN cd2[i] = DOMAIN c
  BY <1>1, PatchType
<1>6. \A k \in (1..N) \ {i} : cd2[k] = cd[k]
  OBVIOUS
<1>7. ChangedSet(cd2, kind) = ChangedSet(cd, kind) \cup ({i} \X PatchedSites(c, kind))
  BY <1>2, <1>3, <1>4, <1>5, <1>6 DEF ChangedSet
<1>8. ChangedSet(cd, kind) \cap ({i} \X PatchedSites(c, kind)) = {}
  BY DEF ChangedSet
<1>. QED
  BY <1>7, <1>8

(* A region's patched sites of a kind form a finite set.                 *)
LEMMA PatchedSitesFinite ==
    ASSUME NEW c \in Seq(Kinds), NEW kind
    PROVE  IsFiniteSet(PatchedSites(c, kind))
<1>1. PatchedSites(c, kind) \subseteq 1..Len(c)
  BY DEF PatchedSites, SitesOf
<1>2. IsFiniteSet(1..Len(c))
  BY FS_Interval
<1>. QED
  BY <1>1, <1>2, FS_Subset

(* Pairing every element of a finite set with one region keeps its count. *)
LEMMA PairedCard ==
    ASSUME NEW i, NEW P, IsFiniteSet(P)
    PROVE  IsFiniteSet({i} \X P) /\ Cardinality({i} \X P) = Cardinality(P)
<1>1. Cardinality(P) \in Nat
  BY FS_CardinalityType
<1>2. IsFiniteSet({i}) /\ Cardinality({i}) = 1
  BY FS_Singleton
<1>3. IsFiniteSet({i} \X P) /\ Cardinality({i} \X P) = Cardinality({i}) * Cardinality(P)
  BY <1>2, FS_Product
<1>. QED
  BY <1>1, <1>2, <1>3

(* The count of a disjoint union of finite sets.                          *)
LEMMA DisjointCard ==
    ASSUME NEW A, IsFiniteSet(A), NEW B, IsFiniteSet(B), A \cap B = {}
    PROVE  /\ IsFiniteSet(A \cup B)
           /\ Cardinality(A \cup B) = Cardinality(A) + Cardinality(B)
<1>1. Cardinality(A) \in Nat /\ Cardinality(B) \in Nat
  BY FS_CardinalityType
<1>2. Cardinality(A \cap B) = 0
  BY FS_EmptySet
<1>3. /\ IsFiniteSet(A \cup B)
      /\ Cardinality(A \cup B) = Cardinality(A) + Cardinality(B) - Cardinality(A \cap B)
  BY FS_Union
<1>. QED
  BY <1>1, <1>2, <1>3

(* A region with a syscall or sysenter site is changed by the patch.       *)
LEMMA PatchChanges ==
    ASSUME NEW c \in Seq(Kinds), SitesOf(c, {"sc", "se"}) # {}
    PROVE  Patch(c) # c
<1>1. PICK s \in DOMAIN c : c[s] \in {"sc", "se"}
  BY DEF SitesOf
<1>. QED
  BY <1>1, PatchType

(* The inductive invariant of CountsMatchPatches: the sets it counts are *)
(* finite, and the region the loop is at has not been changed yet, so a  *)
(* patch adds exactly its own sites to them.                              *)
CountInv ==
    /\ FidelityInv
    /\ Untouched
    /\ IsFiniteSet(ChangedFrom("sc")) /\ IsFiniteSet(ChangedFrom("se"))
    /\ CountsMatchPatches

LEMMA CountInit == Init => CountInv
<1> SUFFICES ASSUME Init PROVE CountInv
  OBVIOUS
<1>1. FidelityInv /\ TypeOK
  BY FidelityInit DEF FidelityInv
<1>2. Untouched
  BY DEF Init, Untouched
<1>3. \A kind : ChangedFrom(kind) = {}
  BY <1>1, ChangedFromNow DEF ChangedSet, Init
<1>4. {k \in 1..N \ failed : code[k] # Regions[k].code} = {}
  BY DEF Init
<1>. QED
  BY <1>1, <1>2, <1>3, <1>4, FS_EmptySet DEF CountInv, CountsMatchPatches, Init

LEMMA CountStep == CountInv /\ [Next]_vars => CountInv'
<1> SUFFICES ASSUME CountInv, [Next]_vars PROVE CountInv'
  OBVIOUS
<1> DEFINE RW(cd, fl) == {k \in 1..N \ fl : cd[k] # Regions[k].code}
<1>0. /\ FidelityInv' /\ TypeOK /\ TypeOK'
      /\ stats.syscalls = Cardinality(ChangedFrom("sc"))
      /\ stats.sysenters = Cardinality(ChangedFrom("se"))
      /\ stats.rewritten = Cardinality(RW(code, failed))
      /\ IsFiniteSet(ChangedFrom("sc")) /\ IsFiniteSet(ChangedFrom("se"))
      /\ Untouched
  BY FidelityStep, TypeStep DEF CountInv, FidelityInv, CountsMatchPatches
<1>9. SUFFICES /\ Untouched'
               /\ IsFiniteSet(ChangedFrom("sc")') /\ IsFiniteSet(ChangedFrom("se")')
               /\ stats'.syscalls = Cardinality(ChangedFrom("sc")')
               /\ stats'.sysenters = Cardinality(ChangedFrom("se")')
               /\ stats'.rewritten = Cardinality(RW(code', failed'))
  BY <1>0 DEF CountInv, CountsMatchPatches
<1>1. CASE RewritePatch
  <2>0. /\ idx \in 1..N /\ idx' = idx + 1
        /\ code' = [code EXCEPT ![idx] = Patch(code[idx])]
        /\ SitesOf(code[idx], {"sc", "se"}) # {}
    BY <1>1, <1>0 DEF RewritePatch, TypeOK
  <2>1. /\ code[idx] = Regions[idx].code /\ code[idx] \in Seq(Kinds)
        /\ code \in [1..N -> Seq(Kinds)]
    <3>1. code \in [1..N -> Seq(Kinds)]
      BY <1>0 DEF TypeOK
    <3>2. code[idx] = Regions[idx].code
      BY <2>0, <1>0 DEF Untouched
    <3>. QED
      BY <2>0, <3>1, <3>2
  <2>2. PICK ok \in BOOLEAN :
          /\ failed' = IF ok THEN failed ELSE failed \cup {idx}
          /\ stats' = RegionStats(stats, code[idx], ok)
    BY <1>1 DEF RewritePatch
  <2>3. Untouched'
    <3>1. \A k \in failed' : k < idx'
      BY <2>0, <2>2, <1>0 DEF Untouched, TypeOK
    <3>2. \A k \in 1..N : idx' <= k => code'[k] = Regions[k].code
      BY <2>0, <2>1, <1>0 DEF Untouched
    <3>. QED
      BY <3>1, <3>2 DEF Untouched
  <2>4. ASSUME NEW kind \in {"sc", "se"}
        PROVE  /\ IsFiniteSet(ChangedFrom(kind)')
               /\ Cardinality(ChangedFrom(kind)') =
                     Cardinality(ChangedFrom(kind)) + Cardinality(PatchedSites(code[idx], kind))
    <3>1. ChangedFrom(kind) = ChangedSet(code, kind)
      BY <1>0, ChangedFromNow
    <3>2. ChangedFrom(kind)' = ChangedSet(code', kind)
      BY <1>0, ChangedFromNext
    <3>3. /\ ChangedSet([code EXCEPT ![idx] = Patch(code[idx])], kind) =
               ChangedSet(code, kind) \cup ({idx} \X PatchedSites(code[idx], kind))
          /\ ChangedSet(code, kind) \cap ({idx} \X PatchedSites(code[idx], kind)) = {}
      BY <2>0, <2>1, PatchAdds
    <3>4. IsFiniteSet(ChangedSet(code, kind))
      BY <3>1, <1>0
    <3>5. /\ IsFiniteSet(ChangedSet(code, kind) \cup ({idx} \X PatchedSites(code[idx], kind)))
          /\ Cardinality(ChangedSet(code, kind) \cup ({idx} \X PatchedSites(code[idx], kind))) =
               Cardinality(ChangedSet(code, kind)) + Cardinality(PatchedSites(code[idx], kind))
      <4>1. ChangedSet(code, kind) \cap ({idx} \X PatchedSites(code[idx], kind)) = {}
        BY <3>3
      <4>2. IsFiniteSet(PatchedSites(code[idx], kind))
        BY <2>1, PatchedSitesFinite
      <4>3. /\ IsFiniteSet({idx} \X PatchedSites(code[idx], kind))
            /\ Cardinality({idx} \X PatchedSites(code[idx], kind)) =
                  Cardinality(PatchedSites(code[idx], kind))
        BY <4>2, PairedCard
      <4>4. /\ IsFiniteSet(ChangedSet(code, kind) \cup ({idx} \X PatchedSites(code[idx], kind)))
            /\ Cardinality(ChangedSet(code, kind) \cup ({idx} \X PatchedSites(code[idx], kind))) =
                  Cardinality(ChangedSet(code, kind)) + Cardinality({idx} \X PatchedSites(code[idx], kind))
        BY <3>4, <4>1, <4>3, DisjointCard
      <4>. QED
        BY <4>3, <4>4
    <3>. QED
      BY <2>0, <3>1, <3>2, <3>3, <3>5
  <2>5. /\ stats'.syscalls = stats.syscalls + Cardinality(PatchedSites(code[idx], "sc"))
        /\ stats'.sysenters = stats.sysenters + Cardinality(PatchedSites(code[idx], "se"))
        /\ stats'.rewritten = IF ok THEN stats.rewritten + 1 ELSE stats.rewritten
    BY <2>2 DEF RegionStats
  <2>6. /\ IsFiniteSet(ChangedFrom("sc")')
        /\ stats'.syscalls = Cardinality(ChangedFrom("sc")')
        /\ IsFiniteSet(ChangedFrom("se")')
        /\ stats'.sysenters = Cardinality(ChangedFrom("se")')
    BY <1>0, <2>4, <2>5
  <2>7. stats'.rewritten = Cardinality(RW(code', failed'))
    <3>1. IsFiniteSet(RW(code, failed))
      <4>1. RW(code, failed) \subseteq 1..N
        OBVIOUS
      <4>2. IsFiniteSet(1..N)
        BY RegionsAssumption, FS_Interval
      <4>. QED
        BY <4>1, <4>2, FS_Subset
    <3>2. idx \notin RW(code, failed) /\ idx \notin failed
      BY <2>0, <2>1, <1>0 DEF Untouched
    <3>3. Patch(code[idx]) # Regions[idx].code
      BY <2>1, <2>0, PatchChanges
    <3>4. \A k \in (1..N) \ {idx} : code'[k] = code[k]
      BY <2>0, <2>1
    <3>5. code'[idx] = Patch(code[idx])
      BY <2>0, <2>1
    <3>6. CASE ok
      <4>1. failed' = failed
        BY <2>2, <3>6
      <4>2. RW(code', failed') = RW(code, failed) \cup {idx}
        <5> SUFFICES ASSUME NEW k \in 1..N
                     PROVE  k \in RW(code', failed') <=> k \in RW(code, failed) \cup {idx}
          BY <2>0
        <5>1. CASE k = idx
          BY <5>1, <3>2, <3>3, <3>5, <4>1, <2>1
        <5>2. CASE k # idx
          BY <5>2, <3>4, <4>1
        <5>. QED
          BY <5>1, <5>2
      <4>3. Cardinality(RW(code, failed) \cup {idx}) = Cardinality(RW(code, failed)) + 1
        BY <3>1, <3>2, FS_AddElement
      <4>. QED
        BY <1>0, <2>5, <3>6, <4>2, <4>3
    <3>7. CASE ~ok
      <4>1. failed' = failed \cup {idx}
        BY <2>2, <3>7
      <4>2. RW(code', failed') = RW(code, failed)
        <5> SUFFICES ASSUME NEW k \in 1..N
                     PROVE  k \in RW(code', failed') <=> k \in RW(code, failed)
          OBVIOUS
        <5>1. CASE k = idx
          BY <5>1, <3>2, <4>1
        <5>2. CASE k # idx
          BY <5>2, <3>4, <4>1
        <5>. QED
          BY <5>1, <5>2
      <4>. QED
        BY <1>0, <2>5, <3>7, <4>2
    <3>. QED
      BY <3>6, <3>7
  <2>. QED
    BY <2>3, <2>6, <2>7
<1>2. CASE /\ UNCHANGED code /\ idx <= idx' /\ \A k \in failed' : k < idx'
           /\ stats'.syscalls = stats.syscalls /\ stats'.sysenters = stats.sysenters
           /\ stats'.rewritten = stats.rewritten
           /\ RW(code, failed') = RW(code, failed)
  <2>1. ChangedFrom("sc")' = ChangedFrom("sc") /\ ChangedFrom("se")' = ChangedFrom("se")
    BY <1>2 DEF ChangedFrom, Changed
  <2>2. Untouched'
    BY <1>0, <1>2 DEF Untouched, TypeOK
  <2>3. RW(code', failed') = RW(code, failed)
    BY <1>2
  <2>. QED
    BY <1>0, <1>2, <2>1, <2>2, <2>3
<1>3. CASE RewriteNothing
  <2>0. idx \in Nat /\ failed \subseteq 1..N
    BY <1>0 DEF TypeOK
  <2>1. idx <= idx' /\ \A k \in failed' : k < idx'
    BY <1>3, <1>0, <2>0 DEF RewriteNothing, Untouched
  <2>. QED
    BY <1>3, <1>2, <2>1 DEF RewriteNothing, CountScan
<1>4. CASE RewriteFirstProtectFails
  <2>1. idx \in 1..N /\ idx' = idx + 1
    BY <1>4, <1>0 DEF RewriteFirstProtectFails, TypeOK
  <2>2. code[idx] = Regions[idx].code
    BY <2>1, <1>0 DEF Untouched
  <2>3. RW(code, failed') = RW(code, failed)
    BY <1>4, <2>2 DEF RewriteFirstProtectFails
  <2>4. \A k \in failed' : k < idx'
    <3>1. failed \subseteq 1..N
      BY <1>0 DEF TypeOK
    <3>. QED
      BY <1>4, <2>1, <1>0, <3>1 DEF RewriteFirstProtectFails, Untouched
  <2>. QED
    BY <1>4, <1>2, <2>1, <2>3, <2>4 DEF RewriteFirstProtectFails, CountScan
<1>5. CASE SkipRegion
  <2>0. idx \in Nat /\ failed \subseteq 1..N
    BY <1>0 DEF TypeOK
  <2>1. idx <= idx' /\ \A k \in failed' : k < idx'
    BY <1>5, <1>0, <2>0 DEF SkipRegion, Untouched
  <2>. QED
    BY <1>5, <1>2, <2>1 DEF SkipRegion
<1>6. CASE SetupTrampoline \/ ParseMaps \/ Finish \/ Halted \/ UNCHANGED vars
  <2>1. UNCHANGED <<idx, code, stats, failed>>
    BY <1>6 DEF SetupTrampoline, ParseMaps, Finish, Halted, vars
  <2>. QED
    BY <1>2, <2>1, <1>0 DEF TypeOK, Untouched
<1>. QED
  BY <1>1, <1>3, <1>4, <1>5, <1>6 DEF Next

(* RewriteStats agrees with memory (CountsMatchPatches): syscalls_replaced *)
(* and sysenters_replaced are the numbers of syscall and sysenter sites   *)
(* that differ from the original image, and regions_rewritten the number  *)
(* of changed regions whose rewrite_region returned Ok, for every maps    *)
(* content and exclude list.                                               *)
THEOREM CountsMatchPatchesHolds == Spec => []CountsMatchPatches
<1>1. CountInv => CountsMatchPatches
  BY DEF CountInv
<1>. QED
  BY <1>1, CountInit, CountStep, PTL DEF Spec

=============================================================================
