--------------------------- MODULE MC_HookRuntime ---------------------------
(* Model-checking instance of HookRuntime: two threads.                    *)
EXTENDS HookRuntime, TLC

CONSTANTS t1, t2

MCThreads == {t1, t2}

MCSymmetry == Permutations(MCThreads)

=============================================================================
