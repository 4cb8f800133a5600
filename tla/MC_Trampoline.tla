--------------------------- MODULE MC_Trampoline ---------------------------
(* Model values for Trampoline.tla: the sled of the code (512 bytes), a  *)
(* site in application text, hook_entry in the loader, and distinct       *)
(* register and memory contents, so that a misplaced value is seen.      *)
EXTENDS Trampoline

MC_Orig == [r \in Saved |->
              CASE r = "rdi" -> 100001 [] r = "rsi" -> 100002 [] r = "rdx" -> 100003
                [] r = "r10" -> 100004 [] r = "r8"  -> 100005 [] r = "r9"  -> 100006
                [] r = "rcx" -> 100007 [] r = "r11" -> 100008 [] OTHER    -> 100009]

(* A syscall site in a leaf function (%rsp = 8 mod 16) and one in a       *)
(* function that has set up an aligned frame (%rsp = 0 mod 16).           *)
MC_RspsBoth == {1048568, 1048576}

(* Syscall numbers of the kernel, and numbers past the sled.             *)
MC_NrsValid == {0, 1, 231, 511}

MC_NrsBeyond == {511, 512, 513, 514, 600, 9000}

MC_Nrs == MC_NrsValid \cup MC_NrsBeyond
=============================================================================
