---------------------------- MODULE Trampoline -----------------------------
(***************************************************************************)
(* The VA-0 trampoline of zpoline-rs (zpoline_loader/src/trampoline.rs),  *)
(* executed by one thread from a rewritten syscall site to the return to   *)
(* the instruction after it.                                               *)
(*                                                                         *)
(* The rewritten site holds callq *%rax.  The CPU pushes the return       *)
(* address and jumps to the address equal to %rax, the system-call         *)
(* number.  Bytes [0, MAX_SYSCALL_NR) of the page at VA 0 are NOPs; the    *)
(* stub emitted by generate_hook_stub follows at offset MAX_SYSCALL_NR.    *)
(* The stub pushes the record, calls hook_entry through %r11, pops the     *)
(* registers back and returns.  hook_entry is an extern "C" function: it  *)
(* may mutate the record, returns the system-call result in %rax, and may *)
(* change every caller-saved register and every stack slot below its     *)
(* stack pointer (HookRuntime.tla models what it does inside).            *)
(*                                                                         *)
(* Addresses and register contents are integers; memory is the stack, a   *)
(* function from 8-byte slots to values.  The trampoline bytes are         *)
(* constant after setup_trampoline, so they are operators, not variables.  *)
(***************************************************************************)
EXTENDS Integers, Sequences

CONSTANTS
    MAX_SYSCALL_NR, \* trampoline.rs:19, the length of the NOP sled
    Nrs,            \* the values %rax may hold at a rewritten site
    Rsps,           \* the values %rsp may hold at a rewritten site
    Site,           \* the address of a rewritten callq *%rax
    HookEntryAddr,  \* the address of hook_entry, put in %r11 by movabs
    Orig,           \* the caller's registers other than %rax and %rsp
    Frame,          \* the value of the caller's frame slots above %rsp
    RedZone,        \* the value of the caller's red-zone slots below %rsp
    Junk,           \* what hook_entry leaves in clobbered registers and slots
    Result,         \* the value hook_entry returns
    Mutated         \* the value a hook writes into a record field

PageSize == 4096

(* trampoline.rs:24; mmap maps whole pages.                                *)
TRAMPOLINE_SIZE == MAX_SYSCALL_NR + 4096

MappedLen == ((TRAMPOLINE_SIZE + PageSize - 1) \div PageSize) * PageSize

(* The registers the model follows: the SyscallRegs fields, %rsp, the     *)
(* registers the kernel's syscall clobbers (%rcx, %r11) and one vector     *)
(* register standing for %xmm0-%xmm15.                                     *)
Fields == <<"rax", "rdi", "rsi", "rdx", "r10", "r8", "r9">>

(* All of them are caller-saved in the SysV ABI: hook_entry need not    *)
(* preserve them.                                                          *)
Saved == {"rdi", "rsi", "rdx", "r10", "r8", "r9", "rcx", "r11", "xmm0"}

RegNames == Saved \cup {"rax", "rsp"}

(* The stack slots the model keeps: the caller's frame and red zone and    *)
(* the stub's and hook_entry's frames below them.                         *)
Slots == UNION {{r + 8 * k : k \in -24..1} : r \in Rsps}

ASSUME TrampolineAssumption ==
    /\ MAX_SYSCALL_NR \in Nat \ {0}
    /\ Nrs \subseteq Nat
    /\ Rsps \subseteq {r \in Int : r % 8 = 0}
    /\ Site \in Nat /\ HookEntryAddr \in Nat
    /\ {Site, Site + 2, HookEntryAddr} \cap (0..(MappedLen - 1)) = {}
    /\ HookEntryAddr \notin {Site, Site + 2}
    /\ Orig \in [Saved -> Int]
    /\ {Frame, RedZone, Junk, Result, Mutated} \subseteq Int

VARIABLES
    rip,     \* the instruction pointer
    regs,    \* the registers
    mem,     \* the stack
    status,  \* "run", or "stray" after a jump to bytes that are no instruction
    nr0,     \* %rax at the site (history)
    rsp0,    \* %rsp at the site (history)
    hooked   \* the record as hook_entry left it, <<>> before the call

vars == <<rip, regs, mem, status, nr0, rsp0, hooked>>

-----------------------------------------------------------------------------
(* The code at VA 0 (generate_trampoline_code, generate_hook_stub).       *)

SledShort == 0..(MAX_SYSCALL_NR - 2)

(* Bytes 0 .. stub_offset - 1 are 0x90 (trampoline.rs:79-81).              *)
Sled == 0..(MAX_SYSCALL_NR - 1)

I(op, r, n, off) == [op |-> op, r |-> r, n |-> n, off |-> off]

(* The stub with the first two pops exchanged.                           *)
StubSwappedPops ==
    << I("push", "r9", 0, 0), I("push", "r8", 0, 2), I("push", "r10", 0, 4),
       I("push", "rdx", 0, 6), I("push", "rsi", 0, 7), I("push", "rdi", 0, 8),
       I("push", "rax", 0, 9), I("add", "rsp", -8, 10), I("lea", "rdi", 8, 14),
       I("movabs", "r11", 0, 19), I("call", "r11", 0, 29), I("add", "rsp", 8, 32),
       I("add", "rsp", 8, 36), I("pop", "rsi", 0, 40), I("pop", "rdi", 0, 41),
       I("pop", "rdx", 0, 42), I("pop", "r10", 0, 43), I("pop", "r8", 0, 45),
       I("pop", "r9", 0, 47), I("ret", "rsp", 0, 49) >>

(* The stub, one entry per emitted instruction with its offset from       *)
(* stub_offset, as the code advances `offset` (trampoline.rs:107-220).     *)
StubCode ==
    << I("push", "r9", 0, 0), I("push", "r8", 0, 2), I("push", "r10", 0, 4),
       I("push", "rdx", 0, 6), I("push", "rsi", 0, 7), I("push", "rdi", 0, 8),
       I("push", "rax", 0, 9), I("add", "rsp", -8, 10), I("lea", "rdi", 8, 14),
       I("movabs", "r11", 0, 19), I("call", "r11", 0, 29), I("add", "rsp", 8, 32),
       I("add", "rsp", 8, 36), I("pop", "rdi", 0, 40), I("pop", "rsi", 0, 41),
       I("pop", "rdx", 0, 42), I("pop", "r10", 0, 43), I("pop", "r8", 0, 45),
       I("pop", "r9", 0, 47), I("ret", "rsp", 0, 49) >>

Addr(i) == MAX_SYSCALL_NR + StubCode[i].off

StubIdx == DOMAIN StubCode

(* The addresses at which execution decodes what the code emitted.        *)
Decodable == Sled \cup {Addr(i) : i \in StubIdx} \cup {Site, Site + 2, HookEntryAddr}

(* The record SyscallRegs as it lies in memory at address p.              *)
RecordAt(p) == [f \in 1..7 |-> mem[p + 8 * (f - 1)]]

Push(v) ==
    /\ regs["rsp"] - 8 \in Slots
    /\ mem' = [mem EXCEPT ![regs["rsp"] - 8] = v]

-----------------------------------------------------------------------------
Init ==
    /\ nr0 \in Nrs
    /\ rsp0 \in Rsps
    /\ rip = Site
    /\ regs = [r \in RegNames |-> CASE r = "rax" -> nr0
                                    [] r = "rsp" -> rsp0
                                    [] OTHER     -> Orig[r]]
    /\ mem = [a \in Slots |-> IF a >= rsp0 THEN Frame
                              ELSE IF a >= rsp0 - 128 THEN RedZone ELSE Junk]
    /\ status = "run"
    /\ hooked = <<>>

(* The rewritten site: callq *%rax (FF D0, rewriter.rs:194-204).          *)
Callq ==
    /\ status = "run" /\ rip = Site
    /\ Push(Site + 2)
    /\ regs' = [regs EXCEPT !["rsp"] = @ - 8]
    /\ rip' = regs["rax"]
    /\ UNCHANGED <<status, nr0, rsp0, hooked>>

(* One NOP of the sled.                                                   *)
SledNop ==
    /\ status = "run" /\ rip \in Sled
    /\ rip' = rip + 1
    /\ UNCHANGED <<regs, mem, status, nr0, rsp0, hooked>>

(* Instruction i of the stub, when it is at rip and has kind op.           *)
AtStub(i, op) == status = "run" /\ rip = Addr(i) /\ StubCode[i].op = op

StubPush == \E i \in StubIdx :
    /\ AtStub(i, "push")
    /\ Push(regs[StubCode[i].r])
    /\ regs' = [regs EXCEPT !["rsp"] = @ - 8]
    /\ rip' = Addr(i + 1)
    /\ UNCHANGED <<status, nr0, rsp0, hooked>>

StubPop == \E i \in StubIdx :
    /\ AtStub(i, "pop")
    /\ regs' = [regs EXCEPT ![StubCode[i].r] = mem[regs["rsp"]],
                            !["rsp"] = @ + 8]
    /\ rip' = Addr(i + 1)
    /\ UNCHANGED <<mem, status, nr0, rsp0, hooked>>

(* sub rsp, 8 and add rsp, 8, as add of a signed immediate.              *)
StubAdd == \E i \in StubIdx :
    /\ AtStub(i, "add")
    /\ regs' = [regs EXCEPT ![StubCode[i].r] = @ + StubCode[i].n]
    /\ rip' = Addr(i + 1)
    /\ UNCHANGED <<mem, status, nr0, rsp0, hooked>>

StubLeaNoOffset == \E i \in StubIdx :
    /\ AtStub(i, "lea")
    /\ regs' = [regs EXCEPT ![StubCode[i].r] = regs["rsp"]]
    /\ rip' = Addr(i + 1)
    /\ UNCHANGED <<mem, status, nr0, rsp0, hooked>>

(* lea rdi, [rsp + 8].                                                    *)
StubLea == \E i \in StubIdx :
    /\ AtStub(i, "lea")
    /\ regs' = [regs EXCEPT ![StubCode[i].r] = regs["rsp"] + StubCode[i].n]
    /\ rip' = Addr(i + 1)
    /\ UNCHANGED <<mem, status, nr0, rsp0, hooked>>

(* movabs r11, hook_entry_addr.                                           *)
StubMovabs == \E i \in StubIdx :
    /\ AtStub(i, "movabs")
    /\ regs' = [regs EXCEPT ![StubCode[i].r] = HookEntryAddr]
    /\ rip' = Addr(i + 1)
    /\ UNCHANGED <<mem, status, nr0, rsp0, hooked>>

(* call r11: push the address of the next instruction, jump to %r11.      *)
StubCall == \E i \in StubIdx :
    /\ AtStub(i, "call")
    /\ Push(Addr(i + 1))
    /\ regs' = [regs EXCEPT !["rsp"] = @ - 8]
    /\ rip' = regs[StubCode[i].r]
    /\ UNCHANGED <<status, nr0, rsp0, hooked>>

(* ret: pop the return address pushed by callq *%rax.                     *)
StubRet == \E i \in StubIdx :
    /\ AtStub(i, "ret")
    /\ rip' = mem[regs["rsp"]]
    /\ regs' = [regs EXCEPT !["rsp"] = @ + 8]
    /\ UNCHANGED <<mem, status, nr0, rsp0, hooked>>

(* hook_entry(regs: &mut SyscallRegs) -> i64 as an extern "C" callee: the *)
(* hook may write one field f of the record (f = 0: none), the result     *)
(* comes back in %rax, caller-saved registers and the slots below the     *)
(* entry %rsp may be overwritten (clobberRegs, clobberStack), and ret     *)
(* pops the stub's return address.                                        *)
HookEntry ==
    /\ status = "run" /\ rip = HookEntryAddr
    /\ \E f \in 0..7, clobberRegs, clobberStack \in BOOLEAN :
         LET p   == regs["rdi"]
             rec == IF f = 0 THEN RecordAt(p) ELSE [RecordAt(p) EXCEPT ![f] = Mutated]
         IN  /\ \A k \in 1..7 : p + 8 * (k - 1) \in Slots
             /\ mem' = [a \in Slots |->
                          CASE f # 0 /\ a = p + 8 * (f - 1)    -> Mutated
                            [] clobberStack /\ a < regs["rsp"] -> Junk
                            [] OTHER                          -> mem[a]]
             /\ hooked' = rec
             /\ regs' = [r \in RegNames |->
                          CASE r = "rax"                    -> Result
                            [] r = "rsp"                    -> regs["rsp"] + 8
                            [] clobberRegs /\ r \in Saved -> Junk
                            [] OTHER                        -> regs[r]]
    /\ rip' = mem[regs["rsp"]]
    /\ UNCHANGED <<status, nr0, rsp0>>

(* A jump to an address where the code placed no instruction start: the  *)
(* middle of a stub instruction, the zero fill after the stub, an         *)
(* unmapped address or a corrupted return address.                       *)
Stray ==
    /\ status = "run" /\ rip \notin Decodable
    /\ status' = "stray"
    /\ UNCHANGED <<rip, regs, mem, nr0, rsp0, hooked>>

(* The caller continues after the site, or a stray jump has happened.     *)
Done ==
    /\ rip = Site + 2 \/ status = "stray"
    /\ UNCHANGED vars

Next ==
    \/ Callq \/ SledNop \/ StubPush \/ StubPop \/ StubAdd \/ StubLea
    \/ StubMovabs \/ StubCall \/ StubRet \/ HookEntry \/ Stray \/ Done

Spec == Init /\ [][Next]_vars

-----------------------------------------------------------------------------
(* Properties.                                                             *)

TypeOK ==
    /\ rip \in Int
    /\ regs \in [RegNames -> Int]
    /\ mem \in [Slots -> Int]
    /\ status \in {"run", "stray"}
    /\ nr0 \in Nrs /\ rsp0 \in Rsps
    /\ hooked \in {<<>>} \cup [1..7 -> Int]

(* The registers at the site, as the record SyscallRegs lists them.       *)
SiteRecord == <<nr0, Orig["rdi"], Orig["rsi"], Orig["rdx"], Orig["r10"],
                Orig["r8"], Orig["r9"]>>

AtHookEntry == status = "run" /\ rip = HookEntryAddr /\ hooked = <<>>

Returned == status = "run" /\ rip = Site + 2

(* The sled covers every number below MAX_SYSCALL_NR: a stray jump, into *)
(* the middle of a stub instruction, the zero fill, unmapped memory or    *)
(* through a return address the stub misplaced, happens only when %rax at *)
(* the site was MAX_SYSCALL_NR or more (trampoline.rs:72-87).             *)
StrayOnlyBeyondSled == status = "stray" => nr0 >= MAX_SYSCALL_NR

(* For a number inside the sled: when hook_entry is entered, %rdi points *)
(* at a SyscallRegs whose seven fields, in the order rax, rdi, rsi, rdx,  *)
(* r10, r8, r9, are the registers of the site: the pushes of             *)
(* generate_hook_stub lay the record down and lea rdi, [rsp + 8] skips   *)
(* the alignment slot (trampoline.rs:109-159).                            *)
HookSeesRecord ==
    AtHookEntry /\ nr0 < MAX_SYSCALL_NR => RecordAt(regs["rdi"]) = SiteRecord

(* Spec invariant 7 and the return contract, for a number inside the     *)
(* sled: when the stub returns to the instruction after the site, %rsp is *)
(* back at its value at the site, %rax holds what hook_entry returned,    *)
(* the six argument registers hold the record's fields as the hook left   *)
(* them (their values at the site if the hook changed nothing), and the   *)
(* caller's frame is untouched (trampoline.rs:174-220).                   *)
AbiPreserved ==
    Returned /\ nr0 < MAX_SYSCALL_NR =>
        /\ regs["rsp"] = rsp0
        /\ regs["rax"] = Result
        /\ \A f \in 2..7 : regs[Fields[f]] = hooked[f]
        /\ \A a \in Slots : a >= rsp0 => mem[a] = Frame

(* The SysV ABI that hook_entry is compiled for, and the stub's comment   *)
(* "16バイトアライン" (trampoline.rs:102-105, 143): on entry to a function    *)
(* %rsp + 8 is a multiple of 16.                                          *)
HookEntryAligned ==
    AtHookEntry => (regs["rsp"] + 8) % 16 = 0

(* The replaced instruction behaves as syscall does for the caller: when  *)
(* the hook changed nothing, every register but %rax, %rcx and %r11 and    *)
(* the caller's 128-byte red zone below %rsp are as they were at the site. *)
KernelAbiPreserved ==
    Returned /\ hooked = SiteRecord =>
        /\ \A r \in Saved \ {"rcx", "r11"} : regs[r] = Orig[r]
        /\ \A a \in Slots : a >= rsp0 - 128 => mem[a] = IF a >= rsp0 THEN Frame ELSE RedZone

(* The site's number is one the sled lands on (trampoline.rs:65-87).       *)
InSled == nr0 < MAX_SYSCALL_NR

=============================================================================
