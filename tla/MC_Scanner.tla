----------------------------- MODULE MC_Scanner -----------------------------
(* Small regions for the scanner: up to four items of the instructions    *)
(* below, with or without data bytes between them.                        *)
EXTENDS Scanner

(* syscall; sysenter; mov eax, 0x340F050F, whose immediate holds both     *)
(* patterns; xor al, 0x0F; nop.                                           *)
MC_Insns == {<<\h0F, \h05>>, <<\h0F, \h34>>, <<\hB8, \h0F, \h05, \h0F, \h34>>,
             <<\h34, \h0F>>, <<\h90>>}

(* A stray 0F and the first byte of a mov left in a literal pool.         *)
MC_Data == {\h0F, \hB8}
=============================================================================
