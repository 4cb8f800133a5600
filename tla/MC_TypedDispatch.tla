------------------------- MODULE MC_TypedDispatch --------------------------
(* A 16-bit machine with 8-bit ints for the typed layer: every cast that  *)
(* truncates, sign-extends or zero-extends on x86-64 does so here.        *)
EXTENDS TypedDispatch

MC_LongBits == 16
MC_IntBits == 8

(* read, lseek, mmap, brk, openat, exit and a number without a method.    *)
MC_Nrs == {0, 8, 9, 12, 257, 60, 400}

(* An fd, AT_FDCWD (-100 as u64) and an int register with garbage above  *)
(* the int's bits.                                                        *)
MC_Vals == {3, 2^16 - 100, 2^8 + 3}

MC_Records == {<<n>> \o a : n \in MC_Nrs, a \in [1..6 -> MC_Vals]}

(* What the kernel answers: a count, an offset past the int range, an    *)
(* address, a program break, -errno (as u64).                             *)
MC_KernelRet ==
    [n \in MC_Nrs |->
        CASE n = 8  -> {2^9, 2^16 - 22}
          [] n = 9  -> {\h5a00, 2^16 - 12}
          [] n = 12 -> {\h4c00}
          [] n = 60 -> {0}
          [] OTHER  -> {3, 2^16 - 9}]
=============================================================================
