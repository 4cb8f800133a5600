------------------------------ MODULE Scanner ------------------------------
(***************************************************************************)
(* The instruction scanner and the byte patching of one region            *)
(* (zpoline_rewriter/src/rewriter.rs): find_syscalls decodes the region    *)
(* linearly from its first byte and reports each syscall/sysenter, and     *)
(* rewrite_region overwrites each reported pair with callq *%rax (FF D0).  *)
(*                                                                         *)
(* A region is built from items: real instructions, given by their bytes, *)
(* and data bytes (literal pools and jump tables in .text).  The layout   *)
(* is kept as history, so the model knows where the real instructions     *)
(* start and can tell a reported site that is one from a site that is     *)
(* not.  The decoder (iced-x86, a dependency) is abstracted to the length *)
(* of the few opcodes the items use, with register-form ModR/M.            *)
(***************************************************************************)
EXTENDS Integers, Sequences, SequencesExt, FiniteSets

CONSTANTS
    Insns,      \* the real instructions a region may hold, as byte sequences
    DataBytes,  \* the bytes that may lie in a region as data
    MaxItems,   \* the most items in a region
    MaxCalls    \* how many times rewrite_region is applied to the region

ASSUME ScannerAssumption ==
    /\ Insns \subseteq Seq(0..255) /\ DataBytes \subseteq 0..255
    /\ MaxItems \in Nat \ {0} /\ MaxCalls \in Nat \ {0}

VARIABLES
    layout,  \* the items of the region (history)
    code,    \* the bytes of the region
    dryRun,  \* config.dry_run
    calls,   \* rewrite_region calls so far
    result,  \* what the last call returned: Ok(n) or Err
    stats    \* RewriteStats

vars == <<layout, code, dryRun, calls, result, stats>>

-----------------------------------------------------------------------------
(* The decoder: the length of the instruction that starts with byte b.    *)
(* 90 nop and C3 ret: 1; 34 ib (xor al, imm8): 2; 05 id (add eax, imm32)  *)
(* and B8 id (mov eax, imm32): 5; 0F xx two-byte opcodes (syscall 0F 05, *)
(* sysenter 0F 34), FF /2 (call rax, FF D0) and D0 /r: 2.                 *)
OpLen(b) ==
    CASE b \in {\h90, \hC3}       -> 1
      [] b = \h34                 -> 2
      [] b \in {\h05, \hB8}       -> 5
      [] b \in {\h0F, \hFF, \hD0} -> 2
      [] OTHER                    -> 1

(* The kind of the instruction of length l at offset p (0-based), as      *)
(* instr.mnemonic() tells it.                                             *)
KindAt(c, p, l) ==
    IF l = 2 /\ c[p + 1] = \h0F /\ c[p + 2] = \h05 THEN "syscall"
    ELSE IF l = 2 /\ c[p + 1] = \h0F /\ c[p + 2] = \h34 THEN "sysenter"
    ELSE "other"

(* find_syscalls with a decoder that never moves past the first byte of   *)
(* an instruction: a search for the byte pattern.                         *)
FindSyscallsBytewise(c) ==
    LET n == Len(c)
        scan[p \in 0..n] ==
            IF p = n THEN <<>>
            ELSE LET l == OpLen(c[p + 1])
                     k == IF p + l <= n THEN KindAt(c, p, l) ELSE "other"
                 IN  (IF k = "other" THEN <<>> ELSE <<<<p, k>>>>) \o scan[p + 1]
    IN  scan[0]

(* find_syscalls: while decoder.can_decode(), decode one instruction,     *)
(* report it if it is syscall or sysenter, and go on after it.  An        *)
(* instruction cut off by the end of the region decodes as INVALID and    *)
(* the decoder has no bytes left.                                         *)
FindSyscalls(c) ==
    LET n == Len(c)
        scan[p \in 0..n] ==
            IF p = n THEN <<>>
            ELSE LET l == OpLen(c[p + 1])
                 IN  IF p + l > n THEN <<>>
                     ELSE LET k == KindAt(c, p, l)
                          IN  (IF k = "other" THEN <<>> ELSE <<<<p, k>>>>)
                              \o scan[p + l]
    IN  scan[0]

(* One pass of the replacement loop: the site is rewritten only if it     *)
(* still reads 0F 05 or 0F 34; the counter of its kind is raised.         *)
PatchSiteNoSysenter(acc, site) ==
    LET c == acc.code
        p == site[1]
    IN  IF c[p + 1] = \h0F /\ c[p + 2] = \h05
        THEN [code |-> [c EXCEPT ![p + 1] = \hFF, ![p + 2] = \hD0],
              n |-> acc.n + 1,
              sc |-> acc.sc + (IF site[2] = "syscall" THEN 1 ELSE 0),
              se |-> acc.se + (IF site[2] = "sysenter" THEN 1 ELSE 0)]
        ELSE acc

PatchSite(acc, site) ==
    LET c == acc.code
        p == site[1]
    IN  IF c[p + 1] = \h0F /\ (c[p + 2] = \h05 \/ c[p + 2] = \h34)
        THEN [code |-> [c EXCEPT ![p + 1] = \hFF, ![p + 2] = \hD0],
              n |-> acc.n + 1,
              sc |-> acc.sc + (IF site[2] = "syscall" THEN 1 ELSE 0),
              se |-> acc.se + (IF site[2] = "sysenter" THEN 1 ELSE 0)]
        ELSE acc

(* The replacement loop over all reported sites, in order.                *)
Patch(c, reps) == FoldLeft(PatchSite, [code |-> c, n |-> 0, sc |-> 0, se |-> 0], reps)

-----------------------------------------------------------------------------
(* Regions and where their real instructions start.                       *)

Items == {[bytes |-> i, insn |-> TRUE] : i \in Insns}
         \cup {[bytes |-> <<d>>, insn |-> FALSE] : d \in DataBytes}

Layouts == UNION {[1..k -> Items] : k \in 1..MaxItems}

Bytes(l) == FlattenSeq([i \in DOMAIN l |-> l[i].bytes])

(* The offset of item i: the length of the items before it.               *)
Start(l, i) == Len(Bytes(SubSeq(l, 1, i - 1)))

(* The syscall and sysenter instructions of the region, with their        *)
(* offsets.                                                               *)
RealSites(l) ==
    {<<Start(l, i), KindAt(l[i].bytes, 0, Len(l[i].bytes))>> :
        i \in {j \in DOMAIN l : l[j].insn /\ Len(l[j].bytes) = 2
                                /\ KindAt(l[j].bytes, 0, 2) # "other"}}

-----------------------------------------------------------------------------
Init ==
    /\ layout \in Layouts
    /\ code = Bytes(layout)
    /\ dryRun \in BOOLEAN
    /\ calls = 0
    /\ result = [ok |-> FALSE, n |-> 0]
    /\ stats = [scanned |-> 0, rewritten |-> 0, syscalls |-> 0, sysenters |-> 0]

(* rewrite_region on an executable region that is not excluded            *)
(* (rewriter.rs:130-221).  The two mprotect calls may fail: the first     *)
(* leaves the region as it was, the second leaves it patched; both return *)
(* Err before regions_rewritten is raised.                                *)
RewriteRegion ==
    /\ calls < MaxCalls
    /\ calls' = calls + 1
    /\ UNCHANGED <<layout, dryRun>>
    /\ LET reps    == FindSyscalls(code)
           scanned == [stats EXCEPT !.scanned = @ + 1]
           done    == Patch(code, reps)
       IN  \/ /\ reps = <<>>
              /\ result' = [ok |-> TRUE, n |-> 0]
              /\ stats' = scanned
              /\ UNCHANGED code
           \/ /\ reps # <<>> /\ dryRun
              /\ result' = [ok |-> TRUE, n |-> Len(reps)]
              /\ stats' = [scanned EXCEPT !.syscalls = @ + Len(reps)]
              /\ UNCHANGED code
           \/ /\ reps # <<>> /\ ~dryRun
              /\ result' = [ok |-> FALSE, n |-> 0]
              /\ stats' = scanned
              /\ UNCHANGED code
           \/ /\ reps # <<>> /\ ~dryRun
              /\ code' = done.code
              /\ \E restored \in BOOLEAN :
                   LET counted == [scanned EXCEPT !.syscalls = @ + done.sc,
                                                  !.sysenters = @ + done.se]
                   IN  /\ result' = [ok |-> restored, n |-> IF restored THEN done.n ELSE 0]
                       /\ stats' = IF restored /\ done.n > 0
                                   THEN [counted EXCEPT !.rewritten = @ + 1]
                                   ELSE counted

(* The calls are over.                                                    *)
Finished ==
    /\ calls = MaxCalls
    /\ UNCHANGED vars

Next == RewriteRegion \/ Finished

Spec == Init /\ [][Next]_vars

-----------------------------------------------------------------------------
(* Properties.                                                             *)

(* Spec 4.3: the scanner reports instructions only, never the pattern     *)
(* inside an immediate, and every syscall and sysenter of the region:     *)
(* find_syscalls' sites are exactly the real ones (rewriter.rs:224-249).  *)
ScanReportsInstructions == ToSet(FindSyscalls(Bytes(layout))) = RealSites(layout)

(* The same, for the regions the scanner is built for: a region that holds *)
(* instructions only, some with 0F 05 or 0F 34 inside an immediate.       *)
CodeOnlyScanExact ==
    (\A i \in DOMAIN layout : layout[i].insn) => ScanReportsInstructions

(* Spec invariant 4, round-trip scanning: once rewrite_region has patched  *)
(* the region and returned Ok, scanning it again finds no syscall or      *)
(* sysenter (rewriter.rs:191-206).                                        *)
RoundTrip == (calls > 0 /\ result.ok /\ ~dryRun) => FindSyscalls(code) = <<>>

=============================================================================
