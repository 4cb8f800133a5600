---------------------------- MODULE HookRuntime ----------------------------
(***************************************************************************)
(* The hook runtime of zpoline-rs (crate zpoline_hook_api, lib.rs), as     *)
(* seen by the threads of a process whose code has been rewritten.         *)
(*                                                                         *)
(* Every thread has a call stack of frames.  A frame is the activation of  *)
(* one runtime function (hook_entry, a user hook, trait_based_hook,        *)
(* register_syscall_hooks) with the label it is at and the system-call     *)
(* number of the register record it works on.  An empty stack means the   *)
(* thread runs application code.  A `syscall` executed by rewritten code   *)
(* (the application, libc, Rust std's futex calls, eprintln!) goes through *)
(* the VA-0 trampoline into hook_entry, i.e. pushes a hook_entry frame;    *)
(* the raw path (raw_syscall_impl, never rewritten) enters the kernel      *)
(* directly and is one atomic step.                                        *)
(*                                                                         *)
(* Shared state: the atomic hook slot HOOK_FUNCTION, the Mutex             *)
(* HOOK_TRAIT_OBJECT (its owner and whether it holds Some(hooks)).         *)
(* Thread-local state: the reentrancy flag IN_HOOK.                        *)
(***************************************************************************)
EXTENDS Naturals, Sequences

CONSTANTS
    Threads,     \* the threads of the process
    NoThread,    \* the owner of an unlocked mutex
    AppSysnos,   \* system calls the application issues: "other" and "exit"
    MaxStack     \* bound on the depth of a call stack (reached only by bugs)

ASSUME ConstAssumption ==
    /\ NoThread \notin Threads
    /\ AppSysnos \subseteq {"other", "exit"}
    /\ MaxStack \in Nat \ {0}

(* The functions HOOK_FUNCTION may point to.  default_hook and            *)
(* zpoline_hook_function / trace_hook are plain hooks; trait_based_hook    *)
(* dispatches to the registered SyscallHooks object under the mutex.      *)
HookFns == {"default_hook", "trace_hook", "trait_based_hook"}

FnNames == HookFns \cup {"hook_entry", "register_syscall_hooks"}

Labels == {"check", "raw", "load", "clear", "print", "lock", "dispatch",
           "method", "unlock", "ret", "store", "assign", "init"}

Sysnos == {"other", "exit"}

Frame == [fn : FnNames, pc : Labels, nr : Sysnos]

VARIABLES
    hookFn,     \* HOOK_FUNCTION, the atomic hook slot
    hookObj,    \* HOOK_TRAIT_OBJECT holds Some(hooks)
    lockOwner,  \* the thread holding the HOOK_TRAIT_OBJECT mutex
    inHook,     \* IN_HOOK, the thread-local reentrancy flag
    stack,      \* the call stack of every thread
    exited      \* the threads that have terminated (SYS_exit)

vars == <<hookFn, hookObj, lockOwner, inHook, stack, exited>>

-----------------------------------------------------------------------------
(* Helpers on call stacks.                                                 *)

Top(t) == stack[t][Len(stack[t])]

At(t, l) == stack[t] # <<>> /\ Top(t).pc = l

Running(t, f, l) == t \notin exited /\ At(t, l) /\ Top(t).fn = f

(* Stack s with its top frame moved to label l, and s without its top.     *)
SetPc(s, l) == [s EXCEPT ![Len(s)].pc = l]

Pop(s) == SubSeq(s, 1, Len(s) - 1)

(* The top frame moves to label l.                                         *)
Goto(t, l) == stack' = [stack EXCEPT ![t] = SetPc(@, l)]

(* The top frame moves to label l and calls the function of frame fr.     *)
Call(t, l, fr) ==
    /\ Len(stack[t]) < MaxStack
    /\ stack' = [stack EXCEPT ![t] = Append(SetPc(@, l), fr)]

(* The top frame returns to its caller.                                    *)
Return(t) == stack' = [stack EXCEPT ![t] = Pop(@)]

(* A syscall instruction in rewritten code: callq *%rax, the NOP sled and *)
(* the stub bring the thread into hook_entry with the register record.    *)
(* The first label of each hook function.                                 *)
HookStart == [default_hook |-> "raw", trace_hook |-> "print",
              trait_based_hook |-> "lock"]

Trap(t, l, nr) == Call(t, l, [fn |-> "hook_entry", pc |-> "check", nr |-> nr])

(* raw_syscall: the kernel executes system call nr for thread t and the   *)
(* top frame continues at label l.  SYS_exit ends the thread, whatever    *)
(* frames and locks it holds.                                             *)
RawSyscall(t, nr, l) ==
    IF nr = "exit"
    THEN /\ exited' = exited \cup {t}
         /\ stack' = [stack EXCEPT ![t] = <<>>]
    ELSE /\ Goto(t, l)
         /\ UNCHANGED exited

-----------------------------------------------------------------------------
InitNullHook ==
    /\ hookFn = "null"
    /\ hookObj = FALSE
    /\ lockOwner = NoThread
    /\ inHook = [t \in Threads |-> FALSE]
    /\ stack = [t \in Threads |-> <<>>]
    /\ exited = {}

Init ==
    /\ hookFn = "default_hook"
    /\ hookObj = FALSE
    /\ lockOwner = NoThread
    /\ inHook = [t \in Threads |-> FALSE]
    /\ stack = [t \in Threads |-> <<>>]
    /\ exited = {}

(* The application executes a (rewritten) syscall instruction.            *)
AppSyscall(t) ==
    /\ t \notin exited
    /\ stack[t] = <<>>
    /\ \E nr \in AppSysnos :
          stack' = [stack EXCEPT ![t] = <<[fn |-> "hook_entry", pc |-> "check", nr |-> nr]>>]
    /\ UNCHANGED <<hookFn, hookObj, lockOwner, inHook, exited>>

(* __hook_init: the application publishes a hook function.                *)
HookInit(t) ==
    /\ t \notin exited
    /\ stack[t] = <<>>
    /\ \E f \in HookFns : hookFn' = f
    /\ UNCHANGED <<hookObj, lockOwner, inHook, stack, exited>>

(* The application calls register_syscall_hooks(hooks).                  *)
AppRegister(t) ==
    /\ t \notin exited
    /\ stack[t] = <<>>
    /\ stack' = [stack EXCEPT ![t] = <<[fn |-> "register_syscall_hooks", pc |-> "lock", nr |-> "other"]>>]
    /\ UNCHANGED <<hookFn, hookObj, lockOwner, inHook, exited>>

(* hook_entry: test IN_HOOK and set it when it was clear.                 *)
EntryCheck(t) ==
    /\ Running(t, "hook_entry", "check")
    /\ IF inHook[t]
       THEN /\ Goto(t, "raw")
            /\ UNCHANGED inHook
       ELSE /\ Goto(t, "load")
            /\ inHook' = [inHook EXCEPT ![t] = TRUE]
    /\ UNCHANGED <<hookFn, hookObj, lockOwner, exited>>

(* hook_entry on reentry: raw_syscall(regs) and return its result.        *)
EntryRaw(t) ==
    /\ Running(t, "hook_entry", "raw")
    /\ RawSyscall(t, Top(t).nr, "ret")
    /\ UNCHANGED <<hookFn, hookObj, lockOwner, inHook>>

(* hook_entry: load HOOK_FUNCTION (SeqCst) and call it on the record.     *)
EntryLoad(t) ==
    /\ Running(t, "hook_entry", "load")
    /\ Call(t, "clear", [fn |-> hookFn, pc |-> HookStart[hookFn], nr |-> Top(t).nr])
    /\ UNCHANGED <<hookFn, hookObj, lockOwner, inHook, exited>>

(* hook_entry after the hook returned: clear IN_HOOK and return.          *)
EntryClearKeepFlag(t) ==
    /\ Running(t, "hook_entry", "clear")
    /\ Return(t)
    /\ UNCHANGED <<hookFn, hookObj, lockOwner, inHook, exited>>

EntryClear(t) ==
    /\ Running(t, "hook_entry", "clear")
    /\ inHook' = [inHook EXCEPT ![t] = FALSE]
    /\ Return(t)
    /\ UNCHANGED <<hookFn, hookObj, lockOwner, exited>>

(* A frame whose function has finished returns to its caller.             *)
FrameReturn(t) ==
    /\ t \notin exited
    /\ At(t, "ret")
    /\ Return(t)
    /\ UNCHANGED <<hookFn, hookObj, lockOwner, inHook, exited>>

(* trace_hook / zpoline_hook_function: eprintln! issues a write through   *)
(* rewritten code before the hook performs the call.                      *)
HookPrint(t) ==
    /\ Running(t, Top(t).fn, "print")
    /\ Trap(t, "raw", "other")
    /\ UNCHANGED <<hookFn, hookObj, lockOwner, inHook, exited>>

(* default_hook and trace_hook: raw_syscall(regs) and return.             *)
HookRaw(t) ==
    /\ Running(t, Top(t).fn, "raw")
    /\ Top(t).fn \in {"default_hook", "trace_hook"}
    /\ RawSyscall(t, Top(t).nr, "ret")
    /\ UNCHANGED <<hookFn, hookObj, lockOwner, inHook>>

(* HOOK_TRAIT_OBJECT.lock() in trait_based_hook and register_syscall_hooks.*)
(* Free: take it.  Held: std's futex mutex calls libc::syscall(SYS_futex), *)
(* whose syscall instruction is rewritten, and retries afterwards.         *)
LockNext(f) == IF f = "trait_based_hook" THEN "dispatch" ELSE "store"

MutexLock(t) ==
    /\ Running(t, Top(t).fn, "lock")
    /\ IF lockOwner = NoThread
       THEN /\ lockOwner' = t
            /\ Goto(t, LockNext(Top(t).fn))
       ELSE /\ Trap(t, "lock", "other")
            /\ UNCHANGED lockOwner
    /\ UNCHANGED <<hookFn, hookObj, inHook, exited>>

(* trait_based_hook: with Some(hooks) call the SyscallHooks method through *)
(* dispatch_syscall_hooks, with None perform the raw syscall.             *)
TraitDispatchNoFallback(t) ==
    /\ Running(t, "trait_based_hook", "dispatch")
    /\ Goto(t, IF hookObj THEN "method" ELSE "unlock")
    /\ UNCHANGED <<hookFn, hookObj, lockOwner, inHook, exited>>

TraitDispatch(t) ==
    /\ Running(t, "trait_based_hook", "dispatch")
    /\ Goto(t, IF hookObj THEN "method" ELSE "raw")
    /\ UNCHANGED <<hookFn, hookObj, lockOwner, inHook, exited>>

(* A SyscallHooks method may print (a syscall through rewritten code)     *)
(* before it calls its default_* function.                                *)
TraitMethod(t) ==
    /\ Running(t, "trait_based_hook", "method")
    /\ \/ Trap(t, "raw", "other")
       \/ Goto(t, "raw")
    /\ UNCHANGED <<hookFn, hookObj, lockOwner, inHook, exited>>

(* The default_* function (or raw_syscall for None / unknown numbers).    *)
TraitRaw(t) ==
    /\ Running(t, "trait_based_hook", "raw")
    /\ RawSyscall(t, Top(t).nr, "unlock")
    /\ UNCHANGED <<hookFn, hookObj, lockOwner, inHook>>

(* Dropping the MutexGuard: release, and wake a waiter with               *)
(* libc::syscall(SYS_futex) when the mutex was contended.                 *)
UnlockNext(f) == IF f = "trait_based_hook" THEN "ret" ELSE "init"

MutexUnlock(t) ==
    /\ Running(t, Top(t).fn, "unlock")
    /\ lockOwner' = NoThread
    /\ \/ Trap(t, UnlockNext(Top(t).fn), "other")
       \/ Goto(t, UnlockNext(Top(t).fn))
    /\ UNCHANGED <<hookFn, hookObj, inHook, exited>>

(* register_syscall_hooks: Box::new(hooks) and the drop of the old box    *)
(* may call into the allocator, which may issue brk/mmap/munmap.          *)
RegisterStore(t) ==
    /\ Running(t, "register_syscall_hooks", "store")
    /\ \/ Trap(t, "assign", "other")
       \/ Goto(t, "assign")
    /\ UNCHANGED <<hookFn, hookObj, lockOwner, inHook, exited>>

(* *guard = Some(...)                                                     *)
RegisterAssign(t) ==
    /\ Running(t, "register_syscall_hooks", "assign")
    /\ hookObj' = TRUE
    /\ Goto(t, "unlock")
    /\ UNCHANGED <<hookFn, lockOwner, inHook, exited>>

(* __hook_init(trait_based_hook) and return.                              *)
RegisterInit(t) ==
    /\ Running(t, "register_syscall_hooks", "init")
    /\ hookFn' = "trait_based_hook"
    /\ Return(t)
    /\ UNCHANGED <<hookObj, lockOwner, inHook, exited>>

(* Every thread has exited: the process is gone.                          *)
Terminated ==
    /\ exited = Threads
    /\ UNCHANGED vars

Next ==
    \/ \E t \in Threads :
          \/ AppSyscall(t) \/ HookInit(t) \/ AppRegister(t)
          \/ EntryCheck(t) \/ EntryRaw(t) \/ EntryLoad(t) \/ EntryClear(t)
          \/ FrameReturn(t) \/ HookPrint(t) \/ HookRaw(t)
          \/ MutexLock(t) \/ TraitDispatch(t) \/ TraitMethod(t) \/ TraitRaw(t)
          \/ MutexUnlock(t) \/ RegisterStore(t) \/ RegisterAssign(t)
          \/ RegisterInit(t)
    \/ Terminated

Spec == Init /\ [][Next]_vars

-----------------------------------------------------------------------------
(* Type invariant.                                                         *)
TypeOK ==
    /\ hookFn \in HookFns
    /\ hookObj \in BOOLEAN
    /\ lockOwner \in Threads \cup {NoThread}
    /\ inHook \in [Threads -> BOOLEAN]
    /\ stack \in [Threads -> Seq(Frame)]
    /\ exited \subseteq Threads

-----------------------------------------------------------------------------
(* The reentrancy guard.  An "active" hook_entry activation is one that   *)
(* set IN_HOOK and has not yet cleared it.                                *)
ActiveAt(s, i) == s[i].fn = "hook_entry" /\ s[i].pc \in {"load", "clear"}

HasActive(s) == \E i \in DOMAIN s : ActiveAt(s, i)

HookIdx(s) == {i \in DOMAIN s : s[i].fn \in HookFns}

(* The shape of one call stack: hook_entry frames only at hook_entry's    *)
(* labels; at most one active hook_entry; a frame at "check" or "load" is *)
(* the top one; the active hook_entry, when not on top, has called a user *)
(* hook right above it; every user hook was called by an active            *)
(* hook_entry; every hook_entry that took the raw path runs above an       *)
(* active one.                                                             *)
StackInv(s) ==
    /\ \A i \in DOMAIN s :
          s[i].fn = "hook_entry" => s[i].pc \in {"check", "raw", "load", "clear", "ret"}
    /\ \A i, j \in DOMAIN s : ActiveAt(s, i) /\ ActiveAt(s, j) => i = j
    /\ \A i \in DOMAIN s : s[i].pc \in {"check", "load"} => i = Len(s)
    /\ \A i \in DOMAIN s :
          ActiveAt(s, i) /\ i < Len(s) => s[i].pc = "clear" /\ s[i + 1].fn \in HookFns
    /\ \A i \in HookIdx(s) :
          i > 1 /\ s[i - 1].fn = "hook_entry" /\ s[i - 1].pc = "clear"
    /\ \A i \in DOMAIN s :
          s[i].fn = "hook_entry" /\ s[i].pc \in {"raw", "ret"}
             => \E j \in 1..(i - 1) : ActiveAt(s, j)

(* A thread's IN_HOOK flag is set exactly while an active hook_entry is on *)
(* its stack, and every stack has the shape above; a thread that exited    *)
(* keeps no frames.  This is the inductive invariant from which            *)
(* ReentrancyBound follows.                                                *)
GuardInv ==
    /\ \A t \in exited : stack[t] = <<>>
    /\ \A t \in Threads \ exited : inHook[t] <=> HasActive(stack[t])
    /\ \A t \in Threads : StackInv(stack[t])

(* The indices of the user-hook activations on the stack of thread t.     *)
HookFrames(t) == HookIdx(stack[t])

(* Spec section 8, invariant 6 (reentrancy bound): on no thread does       *)
(* hook_entry invoke the user hook while another user-hook activation is   *)
(* on the same stack; the IN_HOOK flag of hook_entry is what ensures it.   *)
ReentrancyBound ==
    \A t \in Threads : \A i, j \in HookFrames(t) : i = j

(* A thread that issues SYS_exit from inside trait_based_hook never       *)
(* releases HOOK_TRAIT_OBJECT: the raw call runs under the MutexGuard      *)
(* (the None fallback at lib.rs:244, or hook_exit -> default_exit of a     *)
(* registered object at :241, one TraitRaw step either way), and every     *)
(* other thread's next trait-hooked syscall then blocks for ever.  The     *)
(* mutex is never held by a thread that has exited.                        *)
LockOwnerAlive == lockOwner \notin exited

(* A thread never waits for HOOK_TRAIT_OBJECT while it holds it itself     *)
(* (std's Mutex is not reentrant: the second lock() never returns).       *)
NoSelfDeadlock ==
    \A t \in Threads : ~(At(t, "lock") /\ lockOwner = t)


-----------------------------------------------------------------------------
(* Refinement: the runtime implements the per-syscall state machine.       *)
(* A thread is serving an application syscall while the bottom frame of   *)
(* its stack is hook_entry (a bottom register_syscall_hooks frame is a    *)
(* library call of the application, and every frame above the bottom      *)
(* hook_entry's callee is a syscall the hook issues itself).  The call has *)
(* been executed once the hook frame right above it (or hook_entry        *)
(* itself, had it taken the raw path) has passed its raw syscall.         *)
AppStack(s) == s # <<>> /\ s[1].fn = "hook_entry"

PhaseOf(s) ==
    IF ~AppStack(s) THEN "idle"
    ELSE IF Len(s) = 1
         THEN IF s[1].pc \in {"clear", "ret"} THEN "done" ELSE "issued"
         ELSE IF s[2].pc \in {"ret", "unlock"} THEN "done" ELSE "hook"

NrOf(s) == IF AppStack(s) THEN s[1].nr ELSE "none"

PhaseBar == [t \in Threads |-> PhaseOf(stack[t])]

NrBar == [t \in Threads |-> NrOf(stack[t])]

PS == INSTANCE PerSyscall WITH phase <- PhaseBar, callNr <- NrBar, gone <- exited

(* Spec 4.9 and scenario S5: every syscall the application issues through  *)
(* rewritten code goes IDLE -> IN_HOOK -> IDLE: hook_entry hands it to the *)
(* installed hook exactly once, the hook (default_hook, trace_hook, or     *)
(* trait_based_hook with or without a SyscallHooks object, under the       *)
(* mutex) has the kernel execute it exactly once, and hook_entry returns   *)
(* only after that; SYS_exit ends the thread (lib.rs:92-119, 225-246).     *)
ImplementsPerSyscall == PS!Spec

=============================================================================
