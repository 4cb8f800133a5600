----------------------------- MODULE PerSyscall -----------------------------
(***************************************************************************)
(* What the hook runtime promises one application syscall (spec sections  *)
(* 4.9 and 8, scenario S5): the per-syscall state machine of every thread *)
(* goes IDLE -> IN_HOOK -> IDLE.  A syscall the application issues through *)
(* rewritten code is handed to the installed hook exactly once, the hook   *)
(* has the kernel execute it exactly once, and only then does control      *)
(* return to the application.  SYS_exit ends the thread at its execution.  *)
(* Syscalls the hook itself issues are internal to the hook and invisible  *)
(* here.                                                                   *)
(*                                                                         *)
(* HookRuntime.tla, which runs hook_entry, the hooks and the mutex frame  *)
(* by frame, implements this specification                                *)
(* (HookRuntime!ImplementsPerSyscall).                                     *)
(***************************************************************************)
CONSTANTS
    Threads,     \* the threads of the process
    AppSysnos    \* the system calls the application issues

VARIABLES
    phase,   \* per thread: "idle", "issued", "hook" (IN_HOOK), "done"
    callNr,  \* per thread: the number of the call in flight, or "none"
    gone     \* the threads that have executed SYS_exit

psvars == <<phase, callNr, gone>>

Init ==
    /\ phase = [t \in Threads |-> "idle"]
    /\ callNr = [t \in Threads |-> "none"]
    /\ gone = {}

(* The application executes a rewritten syscall instruction.              *)
Issue(t) ==
    /\ t \notin gone
    /\ phase[t] = "idle"
    /\ \E n \in AppSysnos : callNr' = [callNr EXCEPT ![t] = n]
    /\ phase' = [phase EXCEPT ![t] = "issued"]
    /\ UNCHANGED gone

(* The hook is called on the call's record: the thread is IN_HOOK.        *)
Enter(t) ==
    /\ phase[t] = "issued"
    /\ phase' = [phase EXCEPT ![t] = "hook"]
    /\ UNCHANGED <<callNr, gone>>

(* The kernel executes the call, once.  SYS_exit does not return.         *)
Execute(t) ==
    /\ phase[t] = "hook"
    /\ IF callNr[t] = "exit"
       THEN /\ phase' = [phase EXCEPT ![t] = "idle"]
            /\ callNr' = [callNr EXCEPT ![t] = "none"]
            /\ gone' = gone \cup {t}
       ELSE /\ phase' = [phase EXCEPT ![t] = "done"]
            /\ UNCHANGED <<callNr, gone>>

(* The result is returned to the application; the thread leaves IN_HOOK.  *)
Complete(t) ==
    /\ phase[t] = "done"
    /\ phase' = [phase EXCEPT ![t] = "idle"]
    /\ callNr' = [callNr EXCEPT ![t] = "none"]
    /\ UNCHANGED gone

Next == \E t \in Threads : Issue(t) \/ Enter(t) \/ Execute(t) \/ Complete(t)

Spec == Init /\ [][Next]_psvars

=============================================================================
