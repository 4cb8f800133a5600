--------------------------- MODULE TypedDispatch ----------------------------
(***************************************************************************)
(* The typed hook layer (zpoline_hook_api/src/syscall_hooks.rs) with the   *)
(* default SyscallHooks methods: dispatch_syscall_hooks casts the record's *)
(* u64 registers to the method's parameter types, the default method      *)
(* calls default_<name>, which rebuilds a SyscallRegs with each parameter  *)
(* "as u64", calls raw_syscall and casts the kernel's %rax to its return  *)
(* type; dispatch casts that back to i64.  Numbers without a method go to *)
(* raw_syscall with the record as it is.                                  *)
(*                                                                         *)
(* Values are integers of their width: a register is in 0..2^LongBits-1, *)
(* an int has IntBits bits, and a cast is modelled by what it does        *)
(* (truncation, sign or zero extension).  The machine has 64 and 32; the  *)
(* casts depend only on the two widths, so a smaller pair, which TLC's   *)
(* integers hold, shows the same cases.                                   *)
(***************************************************************************)
EXTENDS Integers, Sequences

CONSTANTS
    LongBits,   \* the width of a register, u64, i64 and a pointer (64)
    IntBits,    \* the width of c_int, c_uint, u32 and pid_t (32), below LongBits
    Records,    \* the records hook_entry may pass, as 7-tuples of u64
    KernelRet   \* KernelRet[nr]: the values (as u64) the kernel may return for nr

ULong == 2^LongBits
UInt  == 2^IntBits

(* u64 as c_int / pid_t: keep the low bits, read them signed.             *)
AsInt(x) == IF (x % UInt) >= UInt \div 2 THEN (x % UInt) - UInt ELSE x % UInt

(* u64 as i64, off_t, isize; and an i64 or a c_int as u64.                *)
AsLong(x) == IF x >= ULong \div 2 THEN x - ULong ELSE x
AsU64(v) == v % ULong

-----------------------------------------------------------------------------
(* The parameter and return types of the SyscallHooks methods: "int" for  *)
(* c_int and pid_t, "uint" for c_uint and u32, "off" for off_t, "word" for *)
(* pointers, size_t and c_ulong; "never" for a method returning !.        *)
S(args, ret) == [args |-> args, ret |-> ret]

(* File I/O and memory (syscall_hooks.rs:30-117).                          *)
FileMemSigs ==
    [n \in {0, 1, 2, 3, 8, 257, 32, 33, 22, 9, 11, 10, 12} |->
        CASE n = 0   -> S(<<"int", "word", "word">>, "off")
          [] n = 1   -> S(<<"int", "word", "word">>, "off")
          [] n = 2   -> S(<<"word", "int", "uint">>, "int")
          [] n = 3   -> S(<<"int">>, "int")
          [] n = 8   -> S(<<"int", "off", "int">>, "off")
          [] n = 257 -> S(<<"int", "word", "int", "uint">>, "int")
          [] n = 32  -> S(<<"int">>, "int")
          [] n = 33  -> S(<<"int", "int">>, "int")
          [] n = 22  -> S(<<"word">>, "int")
          [] n = 9   -> S(<<"word", "word", "int", "int", "int", "off">>, "word")
          [] n = 11  -> S(<<"word", "word">>, "int")
          [] n = 10  -> S(<<"word", "word", "int">>, "int")
          [] n = 12  -> S(<<"word">>, "int")]

(* Processes, network and the rest (syscall_hooks.rs:118-220).             *)
ProcNetSigs ==
    [n \in {39, 186, 57, 59, 60, 231, 61, 62, 41, 42, 43, 49, 50, 16, 21} |->
        CASE n = 39  -> S(<<>>, "int")
          [] n = 186 -> S(<<>>, "int")
          [] n = 57  -> S(<<>>, "int")
          [] n = 59  -> S(<<"word", "word", "word">>, "int")
          [] n = 60  -> S(<<"int">>, "never")
          [] n = 231 -> S(<<"int">>, "never")
          [] n = 61  -> S(<<"int", "word", "int", "word">>, "int")
          [] n = 62  -> S(<<"int", "int">>, "int")
          [] n = 41  -> S(<<"int", "int", "int">>, "int")
          [] n = 42  -> S(<<"int", "word", "uint">>, "int")
          [] n = 43  -> S(<<"int", "word", "word">>, "int")
          [] n = 49  -> S(<<"int", "word", "uint">>, "int")
          [] n = 50  -> S(<<"int", "int">>, "int")
          [] n = 16  -> S(<<"int", "word", "word">>, "int")
          [] n = 21  -> S(<<"word", "int">>, "int")]

Methods == DOMAIN FileMemSigs \cup DOMAIN ProcNetSigs

Sig(n) == IF n \in DOMAIN FileMemSigs THEN FileMemSigs[n] ELSE ProcNetSigs[n]

(* regs.<reg> as <param type>, in dispatch_syscall_hooks.                  *)
ToParam(k, x) ==
    CASE k = "int"  -> AsInt(x)
      [] k = "uint" -> x % UInt
      [] k = "off"  -> AsLong(x)
      [] OTHER      -> x

(* <param> as u64 in default_<name>.                                       *)
FromParam(v) == AsU64(v)

(* default_<name>: the record rebuilt from the parameters, in the order of *)
(* the kernel ABI, the unused registers zero.                             *)
Rebuild(n, ps) ==
    <<n>> \o [i \in 1..6 |-> IF i <= Len(ps) THEN FromParam(ps[i]) ELSE 0]

(* raw_syscall(..) as <return type>, then "as i64" in the dispatcher.      *)
RetCast(k, r) ==
    CASE k = "int" -> AsInt(r)
      [] OTHER     -> AsLong(r)

-----------------------------------------------------------------------------
VARIABLES
    rec,     \* the record hook_entry passed
    sent,    \* the record raw_syscall handed to the kernel, <<>> before
    answer,  \* what the kernel returned in %rax (u64)
    result,  \* what dispatch_syscall_hooks returned to hook_entry
    state    \* "call", "returned" or "exited"

vars == <<rec, sent, answer, result, state>>

Init ==
    /\ rec \in Records
    /\ sent = <<>>
    /\ answer = 0
    /\ result = 0
    /\ state = "call"

(* dispatch_syscall_hooks with the default methods.                        *)
Dispatch ==
    /\ state = "call"
    /\ \E r \in KernelRet[rec[1]] :
         LET n  == rec[1]
             ps == [i \in 1..Len(Sig(n).args) |-> ToParam(Sig(n).args[i], rec[i + 1])]
         IN  /\ answer' = r
             /\ IF n \in Methods
                THEN /\ sent' = Rebuild(n, ps)
                     /\ IF Sig(n).ret = "never"
                        THEN state' = "exited" /\ result' = 0
                        ELSE state' = "returned" /\ result' = RetCast(Sig(n).ret, r)
                ELSE /\ sent' = rec
                     /\ state' = "returned" /\ result' = AsLong(r)
    /\ UNCHANGED rec

Done ==
    /\ state # "call"
    /\ UNCHANGED vars

Next == Dispatch \/ Done

Spec == Init /\ [][Next]_vars

-----------------------------------------------------------------------------
(* The x86-64 kernel's own parameter types (include/linux/syscalls.h):    *)
(* "int" for int, unsigned int, pid_t and umode_t, which its SYSCALL_      *)
(* DEFINE wrappers read from the low 32 bits of the register (umode_t     *)
(* from the low 16, which the defaults keep whenever they keep the low    *)
(* 32); "word" for unsigned long, size_t, off_t and pointers, read whole. *)
(* Where these differ from the trait's: mmap's prot and flags and         *)
(* mprotect's prot are unsigned long in the kernel (mmap's fd is too, but *)
(* fget takes it as unsigned int), and ioctl's cmd is an unsigned int.    *)
KernelSigs ==
    [n \in Methods |->
        CASE n \in {0, 1, 43} -> <<"int", "word", "word">>
          [] n \in {8, 42, 49} -> <<"int", "word", "int">>
          [] n \in {3, 32, 60, 231} -> <<"int">>
          [] n \in {33, 62, 50} -> <<"int", "int">>
          [] n = 41  -> <<"int", "int", "int">>
          [] n = 257 -> <<"int", "word", "int", "int">>
          [] n = 2   -> <<"word", "int", "int">>
          [] n = 21  -> <<"word", "int">>
          [] n = 61  -> <<"int", "word", "int", "word">>
          [] n = 16  -> <<"int", "int", "word">>
          [] n = 9   -> <<"word", "word", "word", "word", "int", "word">>
          [] OTHER   -> [i \in 1..Len(Sig(n).args) |-> "word"]]

(* What the kernel reads of argument i of n: a 32-bit parameter by its    *)
(* low bits, the others whole.                                            *)
KernelReads(n, i, x) ==
    IF n \in Methods /\ i <= Len(KernelSigs[n]) /\ KernelSigs[n][i] = "int"
    THEN x % UInt ELSE x

(* The arguments the kernel takes for n: the method's parameters, or all  *)
(* six for a number without a method.                                     *)
Arity(n) == IF n \in Methods THEN Len(Sig(n).args) ELSE 6

(* The default methods pass a system call through ("the original system *)
(* call is executed as it is", syscall_hooks.rs:6-8): with no method      *)
(* overridden, the kernel reads the arguments the application put in the *)
(* record, at the kernel's widths, and the application gets back the      *)
(* kernel's %rax as raw_syscall returns it (spec 4.1: %rax is the signed  *)
(* 64-bit result; syscall_hooks.rs:222-663 and 669-766).                  *)
DefaultHooksTransparent ==
    state = "returned" =>
        /\ sent[1] = rec[1]
        /\ \A i \in 1..Arity(rec[1]) :
              KernelReads(rec[1], i, sent[i + 1]) = KernelReads(rec[1], i, rec[i + 1])
        /\ result = AsLong(answer)

=============================================================================
