----------------------- MODULE HookRuntimeRefinement -----------------------
(***************************************************************************)
(* Proof that the hook runtime implements the per-syscall state machine   *)
(* (HookRuntime!ImplementsPerSyscall), for every set of threads and every  *)
(* stack bound.                                                            *)
(*                                                                         *)
(* The refinement mapping reads a thread's abstract phase off the bottom   *)
(* two frames of its stack.  Two facts about stacks make it work:         *)
(*   - the shape from GuardInv: under a bottom hook_entry the hook frame   *)
(*     sits right above it and hook_entry waits at "clear";                *)
(*   - NrInv: only the bottom hook_entry and its hook carry the            *)
(*     application's system-call number; every other frame works on a     *)
(*     syscall the runtime issues itself ("other"), so no frame above the  *)
(*     hook executes SYS_exit.                                             *)
(***************************************************************************)
EXTENDS HookRuntimeProofs

(* The numbers the frames of stack s work on.                             *)
NrOK(s) ==
    \A i \in DOMAIN s :
        s[i].nr = IF i <= 2 /\ s[1].fn = "hook_entry" THEN s[1].nr ELSE "other"

NrInv == \A t \in Threads : NrOK(stack[t])

-----------------------------------------------------------------------------
(* A positive length other than 1 is at least 2 (stated over a plain      *)
(* number, where the SMT backend handles it; cited for Len(s)).           *)
LEMMA AtLeastTwo == \A n \in Nat \ {0} : n # 1 => n >= 2 /\ (n <= 2 => n = 2)
  OBVIOUS

(* The positions 1 and 2 lie below the top of a stack of three or more.   *)
LEMMA BelowTop ==
    \A n \in Nat \ {0} : n # 1 /\ n # 2 => {1, 2} \subseteq 1..(n - 1) /\ n - 1 # 1
  OBVIOUS

(* The bottom of a stack that serves an application syscall.              *)
LEMMA BottomShape ==
    ASSUME NEW s \in Seq(Frame), s # << >>, StackInv(s), s[1].fn = "hook_entry"
    PROVE  /\ s[1].pc \in {"check", "load", "clear"}
           /\ Len(s) # 1 => s[1].pc = "clear" /\ s[2].fn \in HookFns
  <1>1. 1 \in DOMAIN s /\ DOMAIN s = 1..Len(s) /\ Len(s) \in Nat \ {0}
    BY EmptySeq, LenProperties
  <1>2. s[1].pc \in {"check", "raw", "load", "clear", "ret"}
    BY <1>1 DEF StackInv
  <1>3. s[1].pc \notin {"raw", "ret"}
    <2>1. ~\E j \in 1..(1 - 1) : ActiveAt(s, j)
      OBVIOUS
    <2>. QED
      BY <1>1, <2>1 DEF StackInv
  <1>4. ASSUME Len(s) # 1 PROVE s[1].pc = "clear" /\ s[2].fn \in HookFns
    <2>1. s[1].pc \notin {"check", "load"}
      BY <1>1, <1>4 DEF StackInv
    <2>2. ActiveAt(s, 1) /\ 1 < Len(s)
      BY <1>1, <1>2, <1>3, <1>4, <2>1, AtLeastTwo DEF ActiveAt
    <2>. QED
      BY <1>1, <2>2 DEF StackInv
  <1>. QED
    BY <1>2, <1>3, <1>4

(* SetPc changes no frame's function or number.                           *)
LEMMA SetPcKeeps ==
    ASSUME NEW s \in Seq(Frame), s # << >>, NEW l \in Labels
    PROVE  \A i \in DOMAIN s : SetPc(s, l)[i].fn = s[i].fn /\ SetPc(s, l)[i].nr = s[i].nr
  <1>1. DOMAIN s = 1..Len(s) /\ Len(s) \in Nat
    BY LenProperties
  <1>. QED
    BY <1>1, SetPcProps

LEMMA NrSetPc ==
    ASSUME NEW s \in Seq(Frame), s # << >>, NrOK(s), NEW l \in Labels
    PROVE  NrOK(SetPc(s, l))
  <1>1. 1 \in DOMAIN s /\ DOMAIN SetPc(s, l) = DOMAIN s
    BY EmptySeq, LenProperties, SetPcProps
  <1>. QED
    BY <1>1, SetPcKeeps DEF NrOK

LEMMA NrPop ==
    ASSUME NEW s \in Seq(Frame), s # << >>, NrOK(s)
    PROVE  NrOK(Pop(s))
  <1>1. DOMAIN s = 1..Len(s) /\ Len(s) \in Nat
    BY LenProperties
  <1>2. DOMAIN Pop(s) = 1..(Len(s) - 1) /\ \A i \in 1..(Len(s) - 1) : Pop(s)[i] = s[i]
    BY PopProps
  <1>. QED
    BY <1>1, <1>2 DEF NrOK

(* A frame pushed onto a non-empty stack carries the number NrOK asks for *)
(* at its position.                                                        *)
LEMMA NrPush ==
    ASSUME NEW s \in Seq(Frame), s # << >>, NrOK(s), NEW fr \in Frame,
           fr.nr = IF Len(s) = 1 /\ s[1].fn = "hook_entry" THEN s[1].nr ELSE "other"
    PROVE  NrOK(Append(s, fr))
  <1>1. DOMAIN s = 1..Len(s) /\ Len(s) \in Nat \ {0}
    BY EmptySeq, LenProperties
  <1>2. /\ DOMAIN Append(s, fr) = 1..(Len(s) + 1)
        /\ \A i \in 1..Len(s) : Append(s, fr)[i] = s[i]
        /\ Append(s, fr)[Len(s) + 1] = fr
    BY AppendProps
  <1>. QED
    BY <1>1, <1>2 DEF NrOK

-----------------------------------------------------------------------------
(* NrInv is inductive, given the shape GuardInv gives every stack.        *)

LEMMA NrUpdate ==
    ASSUME TypeOK, NrInv, NEW t \in Threads, NEW X, NrOK(X),
           stack' = [stack EXCEPT ![t] = X]
    PROVE  NrInv'
  BY DEF TypeOK, NrInv

LEMMA NrGoto ==
    ASSUME TypeOK, NrInv, NEW t \in Threads, stack[t] # << >>, NEW l \in Labels,
           Goto(t, l)
    PROVE  NrInv'
  BY NrSetPc, NrUpdate DEF TypeOK, NrInv, Goto

LEMMA NrReturn ==
    ASSUME TypeOK, NrInv, NEW t \in Threads, stack[t] # << >>, Return(t)
    PROVE  NrInv'
  BY NrPop, NrUpdate DEF TypeOK, NrInv, Return

LEMMA NrRaw ==
    ASSUME TypeOK, NrInv, NEW t \in Threads, stack[t] # << >>, NEW l \in Labels,
           NEW nr, RawSyscall(t, nr, l)
    PROVE  NrInv'
  <1>1. CASE nr = "exit"
    <2>1. NrOK(<< >>)
      BY DEF NrOK
    <2>. QED
      BY <1>1, <2>1, NrUpdate DEF RawSyscall
  <1>2. CASE nr # "exit"
    BY <1>2, NrGoto DEF RawSyscall
  <1>. QED
    BY <1>1, <1>2

(* The top frame calls fr, which carries the number NrOK asks for.        *)
LEMMA NrCall ==
    ASSUME TypeOK, NrInv, NEW t \in Threads, stack[t] # << >>, NEW l \in Labels,
           NEW fr \in Frame,
           fr.nr = IF Len(stack[t]) = 1 /\ stack[t][1].fn = "hook_entry"
                   THEN stack[t][1].nr ELSE "other",
           Call(t, l, fr)
    PROVE  NrInv'
  <1> DEFINE s == stack[t]
  <1>1. s \in Seq(Frame) /\ NrOK(s)
    BY DEF TypeOK, NrInv
  <1>2. /\ SetPc(s, l) \in Seq(Frame) /\ SetPc(s, l) # << >>
        /\ Len(SetPc(s, l)) = Len(s) /\ NrOK(SetPc(s, l))
    BY <1>1, SetPcProps, NrSetPc
  <1>3. SetPc(s, l)[1].fn = s[1].fn /\ SetPc(s, l)[1].nr = s[1].nr
    BY <1>1, EmptySeq, LenProperties, SetPcKeeps
  <1>4. NrOK(Append(SetPc(s, l), fr))
    BY <1>2, <1>3, NrPush
  <1>. QED
    BY <1>4, NrUpdate DEF Call

(* A syscall from a frame other than hook_entry enters hook_entry.        *)
LEMMA NrTrap ==
    ASSUME TypeOK, NrInv, NEW t \in Threads, stack[t] # << >>, NEW l \in Labels,
           Top(t).fn # "hook_entry", Trap(t, l, "other")
    PROVE  NrInv'
  <1>1. Len(stack[t]) = 1 => stack[t][1].fn # "hook_entry"
    BY DEF Top
  <1>. QED
    BY <1>1, EntryFrameType, NrCall DEF Trap, Sysnos

(* The number of a hook_entry on top of a stack: the application's at the *)
(* bottom, "other" above it.                                              *)
LEMMA NrEntryTop ==
    ASSUME NEW s \in Seq(Frame), s # << >>, StackInv(s), NrOK(s),
           s[Len(s)].fn = "hook_entry"
    PROVE  s[Len(s)].nr = IF Len(s) = 1 /\ s[1].fn = "hook_entry" THEN s[1].nr ELSE "other"
  <1>1. Len(s) \in DOMAIN s /\ Len(s) \in Nat \ {0}
    BY EmptySeq, LenProperties
  <1>2. CASE Len(s) = 1
    BY <1>2
  <1>3. CASE Len(s) # 1
    <2>1. ~(Len(s) = 2 /\ s[1].fn = "hook_entry")
      BY <1>1, <1>3, BottomShape DEF HookFns
    <2>2. s[Len(s)].nr = IF Len(s) <= 2 /\ s[1].fn = "hook_entry" THEN s[1].nr ELSE "other"
      BY <1>1 DEF NrOK
    <2>3. ~(Len(s) <= 2 /\ s[1].fn = "hook_entry")
      BY <1>1, <1>3, <2>1, AtLeastTwo
    <2>. QED
      BY <1>3, <2>2, <2>3
  <1>. QED
    BY <1>2, <1>3

(* The hook frame hook_entry calls carries the record's number.           *)
LEMMA NrLoad ==
    ASSUME TypeOK, GuardInv, NrInv, NEW t \in Threads, EntryLoad(t)
    PROVE  NrInv'
  <1>1. stack[t] # << >> /\ Top(t).fn = "hook_entry" /\ Top(t).pc = "load"
    BY DEF EntryLoad, Running, At
  <1>2. stack[t] \in Seq(Frame) /\ StackInv(stack[t]) /\ NrOK(stack[t])
    BY DEF TypeOK, GuardInv, NrInv
  <1>3. Top(t) \in Frame
    BY <1>1, TopType
  <1>4. [fn |-> hookFn, pc |-> HookStart[hookFn], nr |-> Top(t).nr] \in Frame
    BY <1>3 DEF TypeOK, Frame, HookStart, HookFns, FnNames, Labels
  <1>5. Top(t).nr = IF Len(stack[t]) = 1 /\ stack[t][1].fn = "hook_entry"
                    THEN stack[t][1].nr ELSE "other"
    BY <1>1, <1>2, NrEntryTop DEF Top
  <1>. QED
    BY <1>1, <1>4, <1>5, NrCall DEF EntryLoad, Labels

(* A frame at a label hook_entry never has is not hook_entry: its syscall *)
(* traps with the number "other".                                         *)
LEMMA NrTrapAt ==
    ASSUME TypeOK, GuardInv, NrInv, NEW t \in Threads, stack[t] # << >>,
           Top(t).pc \notin {"check", "raw", "load", "clear", "ret"},
           NEW l \in Labels, Trap(t, l, "other")
    PROVE  NrInv'
  BY NotEntry, NrTrap

LEMMA NrStep == TypeOK /\ GuardInv /\ NrInv /\ [Next]_vars => NrInv'
  <1> SUFFICES ASSUME TypeOK, GuardInv, NrInv, [Next]_vars PROVE NrInv'
    OBVIOUS
  <1>0. {"ret", "raw", "load", "unlock", "lock", "assign", "method", "init"} \subseteq Labels
    BY DEF Labels
  <1>1. ASSUME NEW t \in Threads, AppSyscall(t) PROVE NrInv'
    <2>1. PICK nr \in AppSysnos :
             stack' = [stack EXCEPT ![t] = << [fn |-> "hook_entry", pc |-> "check", nr |-> nr] >>]
      BY <1>1 DEF AppSyscall
    <2>2. NrOK(<< [fn |-> "hook_entry", pc |-> "check", nr |-> nr] >>)
      BY DEF NrOK
    <2>. QED
      BY <2>1, <2>2, NrUpdate
  <1>2. ASSUME NEW t \in Threads, HookInit(t) PROVE NrInv'
    BY <1>2 DEF HookInit, NrInv
  <1>3. ASSUME NEW t \in Threads, AppRegister(t) PROVE NrInv'
    <2>1. NrOK(<< [fn |-> "register_syscall_hooks", pc |-> "lock", nr |-> "other"] >>)
      BY DEF NrOK
    <2>. QED
      BY <1>3, <2>1, NrUpdate DEF AppRegister
  <1>4. ASSUME NEW t \in Threads, EntryCheck(t) PROVE NrInv'
    BY <1>0, <1>4, NrGoto DEF EntryCheck, Running, At
  <1>5. ASSUME NEW t \in Threads, EntryRaw(t) PROVE NrInv'
    BY <1>0, <1>5, NrRaw DEF EntryRaw, Running, At
  <1>6. ASSUME NEW t \in Threads, EntryLoad(t) PROVE NrInv'
    BY <1>6, NrLoad
  <1>7. ASSUME NEW t \in Threads, EntryClear(t) PROVE NrInv'
    BY <1>7, NrReturn DEF EntryClear, Running, At
  <1>8. ASSUME NEW t \in Threads, FrameReturn(t) PROVE NrInv'
    BY <1>8, NrReturn DEF FrameReturn, At
  <1>9. ASSUME NEW t \in Threads, HookPrint(t) PROVE NrInv'
    BY <1>0, <1>9, NrTrapAt DEF HookPrint, Running, At
  <1>10. ASSUME NEW t \in Threads, HookRaw(t) PROVE NrInv'
    BY <1>0, <1>10, NrRaw DEF HookRaw, Running, At
  <1>11. ASSUME NEW t \in Threads, MutexLock(t) PROVE NrInv'
    <2>1. stack[t] # << >> /\ Top(t).pc = "lock"
      BY <1>11 DEF MutexLock, Running, At
    <2>2. LockNext(Top(t).fn) \in Labels
      BY DEF LockNext, Labels
    <2>. QED
      BY <1>0, <1>11, <2>1, <2>2, NrGoto, NrTrapAt DEF MutexLock
  <1>12. ASSUME NEW t \in Threads, TraitDispatch(t) PROVE NrInv'
    <2>1. stack[t] # << >> /\ (IF hookObj THEN "method" ELSE "raw") \in Labels
      BY <1>12 DEF TraitDispatch, Running, At, Labels
    <2>. QED
      BY <1>12, <2>1, NrGoto DEF TraitDispatch
  <1>13. ASSUME NEW t \in Threads, TraitMethod(t) PROVE NrInv'
    <2>1. stack[t] # << >> /\ Top(t).pc = "method"
      BY <1>13 DEF TraitMethod, Running, At
    <2>. QED
      BY <1>0, <1>13, <2>1, NrGoto, NrTrapAt DEF TraitMethod
  <1>14. ASSUME NEW t \in Threads, TraitRaw(t) PROVE NrInv'
    BY <1>0, <1>14, NrRaw DEF TraitRaw, Running, At
  <1>15. ASSUME NEW t \in Threads, MutexUnlock(t) PROVE NrInv'
    <2>1. stack[t] # << >> /\ Top(t).pc = "unlock"
      BY <1>15 DEF MutexUnlock, Running, At
    <2>2. UnlockNext(Top(t).fn) \in Labels
      BY DEF UnlockNext, Labels
    <2>. QED
      BY <1>15, <2>1, <2>2, NrGoto, NrTrapAt DEF MutexUnlock
  <1>16. ASSUME NEW t \in Threads, RegisterStore(t) PROVE NrInv'
    <2>1. stack[t] # << >> /\ Top(t).pc = "store"
      BY <1>16 DEF RegisterStore, Running, At
    <2>. QED
      BY <1>0, <1>16, <2>1, NrGoto, NrTrapAt DEF RegisterStore
  <1>17. ASSUME NEW t \in Threads, RegisterAssign(t) PROVE NrInv'
    BY <1>0, <1>17, NrGoto DEF RegisterAssign, Running, At
  <1>18. ASSUME NEW t \in Threads, RegisterInit(t) PROVE NrInv'
    BY <1>18, NrReturn DEF RegisterInit, Running, At
  <1>19. CASE Terminated \/ UNCHANGED vars
    BY <1>19 DEF Terminated, vars, NrInv
  <1>. QED
    BY <1>1, <1>2, <1>3, <1>4, <1>5, <1>6, <1>7, <1>8, <1>9, <1>10, <1>11,
       <1>12, <1>13, <1>14, <1>15, <1>16, <1>17, <1>18, <1>19 DEF Next

(* Only the bottom hook_entry of a stack and the hook it calls work on the *)
(* application's system-call number.                                      *)
LEMMA NrInvariant == Spec => []NrInv
  <1>1. Init => NrInv
    BY DEF Init, NrInv, NrOK
  <1>. QED
    BY <1>1, NrStep, TypeCorrect, GuardInvariant, PTL DEF Spec


-----------------------------------------------------------------------------
(* The abstract phase of a stack whose top is frame 1 or 2 at label l.     *)
PhaseAt(n, l) ==
    IF n = 1 THEN IF l \in {"clear", "ret"} THEN "done" ELSE "issued"
             ELSE IF l \in {"ret", "unlock"} THEN "done" ELSE "hook"

(* A stack of one or two frames above a bottom hook_entry is in the phase *)
(* of its top frame's label.                                              *)
LEMMA PhaseTop ==
    ASSUME NEW s \in Seq(Frame), AppStack(s)
    PROVE  /\ Len(s) = 1 => PhaseOf(s) = PhaseAt(1, s[1].pc)
           /\ Len(s) = 2 => PhaseOf(s) = PhaseAt(2, s[2].pc)
  BY DEF PhaseOf, PhaseAt

(* The top frame moves to label l.                                        *)
LEMMA PhaseSetPc ==
    ASSUME NEW s \in Seq(Frame), s # << >>, NEW l \in Labels
    PROVE  /\ NrOf(SetPc(s, l)) = NrOf(s)
           /\ PhaseOf(SetPc(s, l)) =
                 IF AppStack(s) /\ Len(s) = 1 THEN PhaseAt(1, l)
                 ELSE IF AppStack(s) /\ Len(s) = 2 THEN PhaseAt(2, l)
                 ELSE PhaseOf(s)
  <1> DEFINE X == SetPc(s, l)
  <1>1. Len(s) \in Nat \ {0} /\ DOMAIN s = 1..Len(s)
    BY EmptySeq, LenProperties
  <1>2. /\ X \in Seq(Frame) /\ Len(X) = Len(s)
        /\ \A i \in 1..(Len(s) - 1) : X[i] = s[i]
        /\ X[Len(s)].fn = s[Len(s)].fn /\ X[Len(s)].pc = l /\ X[Len(s)].nr = s[Len(s)].nr
    BY SetPcProps
  <1>3. X # << >>
    BY <1>1, <1>2, EmptySeq
  <1>4. X[1].fn = s[1].fn /\ X[1].nr = s[1].nr
    BY <1>1, SetPcKeeps
  <1>5. AppStack(X) = AppStack(s) /\ NrOf(X) = NrOf(s)
    BY <1>3, <1>4 DEF AppStack, NrOf
  <1>6. CASE Len(s) = 1
    BY <1>2, <1>3, <1>5, <1>6 DEF PhaseOf, PhaseAt, AppStack
  <1>7. CASE Len(s) = 2
    <2>1. X[1] = s[1] /\ X[2].pc = l
      BY <1>2, <1>7
    <2>. QED
      BY <1>2, <1>3, <1>5, <1>7, <2>1 DEF PhaseOf, PhaseAt, AppStack
  <1>8. CASE Len(s) # 1 /\ Len(s) # 2
    <2>1. X[1] = s[1] /\ X[2] = s[2]
      BY <1>1, <1>2, <1>8, BelowTop
    <2>. QED
      BY <1>2, <1>5, <1>8, <2>1 DEF PhaseOf
  <1>. QED
    BY <1>5, <1>6, <1>7, <1>8

(* The top frame moves to label l and calls the function of frame fr.     *)
LEMMA PhaseCall ==
    ASSUME NEW s \in Seq(Frame), s # << >>, NEW l \in Labels, NEW fr \in Frame
    PROVE  /\ NrOf(Append(SetPc(s, l), fr)) = NrOf(s)
           /\ PhaseOf(Append(SetPc(s, l), fr)) =
                 IF AppStack(s) /\ Len(s) = 1 THEN PhaseAt(2, fr.pc)
                 ELSE IF AppStack(s) /\ Len(s) = 2 THEN PhaseAt(2, l)
                 ELSE PhaseOf(s)
  <1> DEFINE X == SetPc(s, l)
             Y == Append(X, fr)
  <1>1. Len(s) \in Nat \ {0} /\ DOMAIN s = 1..Len(s)
    BY EmptySeq, LenProperties
  <1>2. /\ X \in Seq(Frame) /\ Len(X) = Len(s)
        /\ \A i \in 1..(Len(s) - 1) : X[i] = s[i]
        /\ X[Len(s)].pc = l
    BY SetPcProps
  <1>3. /\ Len(Y) = Len(s) + 1
        /\ \A i \in 1..Len(s) : Y[i] = X[i]
        /\ Y[Len(s) + 1] = fr
    BY <1>2, AppendProps
  <1>4. Y # << >> /\ Len(Y) # 1 /\ Y[1] = X[1]
    BY <1>1, <1>2, <1>3, EmptySeq
  <1>5. X[1].fn = s[1].fn /\ X[1].nr = s[1].nr
    BY <1>1, SetPcKeeps
  <1>6. AppStack(Y) = AppStack(s) /\ NrOf(Y) = NrOf(s)
    BY <1>4, <1>5 DEF AppStack, NrOf
  <1>7. CASE Len(s) = 1
    <2>1. Len(Y) = 2 /\ Y[2] = fr
      BY <1>3, <1>7
    <2>. QED
      BY <1>4, <1>6, <1>7, <2>1 DEF PhaseOf, PhaseAt
  <1>8. CASE Len(s) = 2
    <2>1. Len(Y) = 3 /\ Y[2].pc = l /\ Y[1] = s[1]
      BY <1>2, <1>3, <1>8
    <2>. QED
      BY <1>6, <1>8, <2>1 DEF PhaseOf, PhaseAt, AppStack
  <1>9. CASE Len(s) # 1 /\ Len(s) # 2
    <2>1. Y[1] = s[1] /\ Y[2] = s[2]
      BY <1>1, <1>2, <1>3, <1>9, BelowTop
    <2>. QED
      BY <1>4, <1>6, <1>9, <2>1 DEF PhaseOf
  <1>. QED
    BY <1>6, <1>7, <1>8, <1>9

(* The top frame returns.                                                 *)
LEMMA PhasePop ==
    ASSUME NEW s \in Seq(Frame), s # << >>
    PROVE  /\ NrOf(Pop(s)) = IF AppStack(s) /\ Len(s) = 1 THEN "none" ELSE NrOf(s)
           /\ PhaseOf(Pop(s)) =
                 IF AppStack(s) /\ Len(s) = 1 THEN "idle"
                 ELSE IF AppStack(s) /\ Len(s) = 2 THEN PhaseAt(1, s[1].pc)
                 ELSE PhaseOf(s)
  <1> DEFINE X == Pop(s)
  <1>1. Len(s) \in Nat \ {0} /\ DOMAIN s = 1..Len(s)
    BY EmptySeq, LenProperties
  <1>2. /\ X \in Seq(Frame) /\ Len(X) = Len(s) - 1
        /\ \A i \in 1..(Len(s) - 1) : X[i] = s[i]
    BY PopProps
  <1>3. CASE Len(s) = 1
    <2>1. X = << >>
      BY <1>2, <1>3, EmptySeq
    <2>2. ~AppStack(X)
      BY <2>1 DEF AppStack
    <2>3. ~AppStack(s) => PhaseOf(s) = "idle" /\ NrOf(s) = "none"
      BY DEF PhaseOf, NrOf
    <2>. QED
      BY <1>3, <2>2, <2>3 DEF PhaseOf, NrOf
  <1>4. CASE Len(s) = 2
    <2>1. Len(X) = 1 /\ 1 \in 1..(Len(s) - 1)
      BY <1>2, <1>4
    <2>2. X[1] = s[1] /\ X # << >>
      BY <1>2, <2>1, EmptySeq
    <2>. QED
      BY <1>4, <2>1, <2>2 DEF PhaseOf, PhaseAt, NrOf, AppStack
  <1>5. CASE Len(s) # 1 /\ Len(s) # 2
    <2>1. X[1] = s[1] /\ X[2] = s[2] /\ Len(X) # 1 /\ X # << >>
      BY <1>1, <1>2, <1>5, BelowTop, EmptySeq
    <2>. QED
      BY <1>5, <2>1 DEF PhaseOf, NrOf, AppStack
  <1>. QED
    BY <1>3, <1>4, <1>5


-----------------------------------------------------------------------------
(* What one thread's step does to the mapped state.                       *)

LEMMA RefAt ==
    ASSUME NEW t \in Threads
    PROVE  PhaseBar[t] = PhaseOf(stack[t]) /\ NrBar[t] = NrOf(stack[t])
  BY DEF PhaseBar, NrBar

LEMMA RefStutter ==
    ASSUME TypeOK, NEW t \in Threads, NEW X, stack' = [stack EXCEPT ![t] = X],
           PhaseOf(X) = PhaseOf(stack[t]), NrOf(X) = NrOf(stack[t]), exited' = exited
    PROVE  UNCHANGED <<PhaseBar, NrBar, exited>>
  BY DEF TypeOK, PhaseBar, NrBar

(* The top frame of a stack serving an application syscall: hook_entry   *)
(* before the hook is called, the hook once it is.                        *)
LEMMA AppTop ==
    ASSUME TypeOK, GuardInv, NEW t \in Threads, stack[t] # << >>, AppStack(stack[t])
    PROVE  /\ Len(stack[t]) = 1 =>
                 Top(t) = stack[t][1] /\ Top(t).fn = "hook_entry"
                 /\ Top(t).pc \in {"check", "load", "clear"}
           /\ Len(stack[t]) = 2 =>
                 Top(t) = stack[t][2] /\ Top(t).fn \in HookFns
                 /\ stack[t][1].pc = "clear"
  <1>1. stack[t] \in Seq(Frame) /\ StackInv(stack[t])
    BY DEF TypeOK, GuardInv
  <1>2. /\ stack[t][1].pc \in {"check", "load", "clear"}
        /\ Len(stack[t]) # 1 => stack[t][1].pc = "clear" /\ stack[t][2].fn \in HookFns
    BY <1>1, BottomShape DEF AppStack
  <1>. QED
    BY <1>2 DEF Top, AppStack

(* The top frame moves to a label of the same abstract phase.             *)
LEMMA RefGoto ==
    ASSUME TypeOK, NEW t \in Threads, stack[t] # << >>, NEW l \in Labels,
           AppStack(stack[t]) /\ Len(stack[t]) = 1 => PhaseAt(1, l) = PhaseAt(1, Top(t).pc),
           AppStack(stack[t]) /\ Len(stack[t]) = 2 => PhaseAt(2, l) = PhaseAt(2, Top(t).pc),
           Goto(t, l), exited' = exited
    PROVE  UNCHANGED <<PhaseBar, NrBar, exited>>
  <1>1. stack[t] \in Seq(Frame)
    BY DEF TypeOK
  <1>2. PhaseOf(SetPc(stack[t], l)) = PhaseOf(stack[t]) /\ NrOf(SetPc(stack[t], l)) = NrOf(stack[t])
    BY <1>1, PhaseSetPc, PhaseTop DEF Top
  <1>. QED
    BY <1>2, RefStutter DEF Goto

(* The top frame, not the bottom hook_entry, moves to a label of the same *)
(* abstract phase and calls a function.                                   *)
LEMMA RefCall ==
    ASSUME TypeOK, NEW t \in Threads, stack[t] # << >>, NEW l \in Labels, NEW fr \in Frame,
           ~(AppStack(stack[t]) /\ Len(stack[t]) = 1),
           AppStack(stack[t]) /\ Len(stack[t]) = 2 => PhaseAt(2, l) = PhaseAt(2, Top(t).pc),
           Call(t, l, fr), exited' = exited
    PROVE  UNCHANGED <<PhaseBar, NrBar, exited>>
  <1>1. stack[t] \in Seq(Frame)
    BY DEF TypeOK
  <1>2. /\ PhaseOf(Append(SetPc(stack[t], l), fr)) = PhaseOf(stack[t])
        /\ NrOf(Append(SetPc(stack[t], l), fr)) = NrOf(stack[t])
    BY <1>1, PhaseCall, PhaseTop DEF Top
  <1>. QED
    BY <1>2, RefStutter DEF Call

(* A frame at a label hook_entry never has executes a syscall of         *)
(* rewritten code.                                                        *)
LEMMA RefTrap ==
    ASSUME TypeOK, GuardInv, NEW t \in Threads, stack[t] # << >>,
           Top(t).pc \notin {"check", "raw", "load", "clear", "ret"},
           NEW l \in Labels,
           AppStack(stack[t]) /\ Len(stack[t]) = 2 => PhaseAt(2, l) = PhaseAt(2, Top(t).pc),
           Trap(t, l, "other"), exited' = exited
    PROVE  UNCHANGED <<PhaseBar, NrBar, exited>>
  <1>1. ~(AppStack(stack[t]) /\ Len(stack[t]) = 1)
    BY NotEntry, AppTop
  <1>2. [fn |-> "hook_entry", pc |-> "check", nr |-> "other"] \in Frame
    BY EntryFrameType DEF Sysnos
  <1>. QED
    BY <1>1, <1>2, RefCall DEF Trap


(* A raw syscall on the application's record, by the hook right above the *)
(* bottom hook_entry, is the one execution of the application's call; any *)
(* other raw syscall is one the runtime issues itself, never SYS_exit.    *)
LEMMA RefRaw ==
    ASSUME TypeOK, GuardInv, NrInv, NEW t \in Threads, stack[t] # << >>,
           Top(t).pc = "raw", NEW l \in {"ret", "unlock"}, RawSyscall(t, Top(t).nr, l)
    PROVE  PS!Execute(t) \/ UNCHANGED <<PhaseBar, NrBar, exited>>
  <1>1. /\ stack[t] \in Seq(Frame) /\ NrOK(stack[t])
        /\ Len(stack[t]) \in DOMAIN stack[t] /\ Len(stack[t]) \in Nat \ {0}
    BY TopType DEF TypeOK, NrInv
  <1>2. l \in Labels
    BY DEF Labels
  <1>3. CASE AppStack(stack[t]) /\ Len(stack[t]) = 2
    <2>1. Top(t) = stack[t][2]
      BY <1>3, AppTop
    <2>2. Top(t).nr = stack[t][1].nr
      BY <1>1, <1>3, <2>1 DEF NrOK, AppStack
    <2>3. PhaseBar[t] = "hook" /\ NrBar[t] = Top(t).nr
      BY <1>1, <1>3, <2>1, <2>2, RefAt, PhaseTop DEF PhaseAt, NrOf
    <2>4. CASE Top(t).nr = "exit"
      <3>1. stack' = [stack EXCEPT ![t] = << >>] /\ exited' = exited \cup {t}
        BY <2>4 DEF RawSyscall
      <3>2. PhaseOf(<< >>) = "idle" /\ NrOf(<< >>) = "none"
        BY DEF PhaseOf, NrOf, AppStack
      <3>3. PhaseBar' = [PhaseBar EXCEPT ![t] = "idle"] /\ NrBar' = [NrBar EXCEPT ![t] = "none"]
        BY <3>1, <3>2 DEF TypeOK, PhaseBar, NrBar
      <3>. QED
        BY <2>3, <2>4, <3>1, <3>3 DEF PS!Execute
    <2>5. CASE Top(t).nr # "exit"
      <3>1. Goto(t, l) /\ exited' = exited
        BY <2>5 DEF RawSyscall
      <3>2. /\ PhaseOf(SetPc(stack[t], l)) = "done"
            /\ NrOf(SetPc(stack[t], l)) = NrOf(stack[t])
        BY <1>1, <1>2, <1>3, PhaseSetPc DEF PhaseAt
      <3>3. PhaseBar' = [PhaseBar EXCEPT ![t] = "done"] /\ NrBar' = NrBar
        BY <1>1, <3>1, <3>2 DEF Goto, TypeOK, PhaseBar, NrBar
      <3>. QED
        BY <2>3, <2>5, <3>1, <3>3 DEF PS!Execute
    <2>. QED
      BY <2>4, <2>5
  <1>4. CASE AppStack(stack[t]) /\ Len(stack[t]) = 1
    BY <1>4, AppTop
  <1>5. CASE ~(AppStack(stack[t]) /\ Len(stack[t]) = 1) /\ ~(AppStack(stack[t]) /\ Len(stack[t]) = 2)
    <2>1. ~(Len(stack[t]) <= 2 /\ stack[t][1].fn = "hook_entry")
      BY <1>1, <1>5, AtLeastTwo DEF AppStack
    <2>2. Top(t).nr = "other"
      BY <1>1, <2>1 DEF NrOK, Top
    <2>3. Goto(t, l) /\ exited' = exited
      BY <2>2 DEF RawSyscall
    <2>. QED
      BY <1>2, <1>5, <2>3, RefGoto
  <1>. QED
    BY <1>3, <1>4, <1>5

(* hook_entry on the application's record calls the hook: the thread      *)
(* enters IN_HOOK.                                                        *)
LEMMA RefLoad ==
    ASSUME TypeOK, GuardInv, NEW t \in Threads, EntryLoad(t)
    PROVE  PS!Enter(t) \/ UNCHANGED <<PhaseBar, NrBar, exited>>
  <1> DEFINE fr == [fn |-> hookFn, pc |-> HookStart[hookFn], nr |-> Top(t).nr]
  <1>1. stack[t] # << >> /\ Top(t).fn = "hook_entry" /\ Top(t).pc = "load"
    BY DEF EntryLoad, Running, At
  <1>2. stack[t] \in Seq(Frame) /\ Top(t) \in Frame
    BY <1>1, TopType DEF TypeOK
  <1>3. fr \in Frame /\ fr.pc \in {"raw", "print", "lock"}
    BY <1>2 DEF TypeOK, Frame, HookStart, HookFns, FnNames, Labels
  <1>4. Call(t, "clear", fr) /\ exited' = exited /\ "clear" \in Labels
    BY DEF EntryLoad, Labels
  <1>5. CASE AppStack(stack[t]) /\ Len(stack[t]) = 1
    <2>1. /\ PhaseOf(Append(SetPc(stack[t], "clear"), fr)) = "hook"
          /\ NrOf(Append(SetPc(stack[t], "clear"), fr)) = NrOf(stack[t])
      BY <1>1, <1>2, <1>3, <1>4, <1>5, PhaseCall DEF PhaseAt
    <2>2. PhaseBar[t] = "issued"
      BY <1>1, <1>2, <1>5, RefAt, PhaseTop, AppTop DEF PhaseAt
    <2>3. PhaseBar' = [PhaseBar EXCEPT ![t] = "hook"] /\ NrBar' = NrBar
      BY <1>4, <2>1 DEF Call, TypeOK, PhaseBar, NrBar
    <2>. QED
      BY <1>4, <2>2, <2>3 DEF PS!Enter
  <1>6. CASE AppStack(stack[t]) /\ Len(stack[t]) = 2
    BY <1>1, <1>6, AppTop DEF HookFns
  <1>7. CASE ~(AppStack(stack[t]) /\ Len(stack[t]) = 1) /\ ~(AppStack(stack[t]) /\ Len(stack[t]) = 2)
    BY <1>1, <1>3, <1>4, <1>7, RefCall
  <1>. QED
    BY <1>5, <1>6, <1>7

(* hook_entry returns the result to the application: the thread leaves    *)
(* IN_HOOK.                                                               *)
LEMMA RefClear ==
    ASSUME TypeOK, GuardInv, NEW t \in Threads, EntryClear(t)
    PROVE  PS!Complete(t) \/ UNCHANGED <<PhaseBar, NrBar, exited>>
  <1>1. stack[t] # << >> /\ Top(t).fn = "hook_entry" /\ Top(t).pc = "clear"
    BY DEF EntryClear, Running, At
  <1>2. stack[t] \in Seq(Frame) /\ Return(t) /\ exited' = exited
    BY DEF TypeOK, EntryClear
  <1>3. CASE AppStack(stack[t]) /\ Len(stack[t]) = 1
    <2>1. PhaseOf(Pop(stack[t])) = "idle" /\ NrOf(Pop(stack[t])) = "none"
      BY <1>1, <1>2, <1>3, PhasePop
    <2>2. PhaseBar[t] = "done"
      BY <1>1, <1>2, <1>3, RefAt, PhaseTop, AppTop DEF PhaseAt
    <2>3. PhaseBar' = [PhaseBar EXCEPT ![t] = "idle"] /\ NrBar' = [NrBar EXCEPT ![t] = "none"]
      BY <1>2, <2>1 DEF Return, TypeOK, PhaseBar, NrBar
    <2>. QED
      BY <1>2, <2>2, <2>3 DEF PS!Complete
  <1>4. CASE AppStack(stack[t]) /\ Len(stack[t]) = 2
    BY <1>1, <1>4, AppTop DEF HookFns
  <1>5. CASE ~(AppStack(stack[t]) /\ Len(stack[t]) = 1) /\ ~(AppStack(stack[t]) /\ Len(stack[t]) = 2)
    <2>1. PhaseOf(Pop(stack[t])) = PhaseOf(stack[t]) /\ NrOf(Pop(stack[t])) = NrOf(stack[t])
      BY <1>1, <1>2, <1>5, PhasePop
    <2>. QED
      BY <1>2, <2>1, RefStutter DEF Return
  <1>. QED
    BY <1>3, <1>4, <1>5

(* Any other return: the hook returning to hook_entry (still "done"), or  *)
(* a frame above the hook.                                                *)
LEMMA RefReturn ==
    ASSUME TypeOK, GuardInv, NEW t \in Threads, stack[t] # << >>,
           ~(AppStack(stack[t]) /\ Len(stack[t]) = 1),
           AppStack(stack[t]) /\ Len(stack[t]) = 2 => Top(t).pc \in {"ret", "unlock"},
           Return(t), exited' = exited
    PROVE  UNCHANGED <<PhaseBar, NrBar, exited>>
  <1>1. stack[t] \in Seq(Frame)
    BY DEF TypeOK
  <1>2. AppStack(stack[t]) /\ Len(stack[t]) = 2 =>
           PhaseAt(1, stack[t][1].pc) = PhaseOf(stack[t])
    BY <1>1, AppTop, PhaseTop DEF PhaseAt
  <1>3. PhaseOf(Pop(stack[t])) = PhaseOf(stack[t]) /\ NrOf(Pop(stack[t])) = NrOf(stack[t])
    BY <1>1, <1>2, PhasePop
  <1>. QED
    BY <1>3, RefStutter DEF Return


-----------------------------------------------------------------------------
(* Every step of the runtime is a step of the per-syscall state machine or *)
(* leaves the mapped state alone.                                         *)
LEMMA RefStep ==
    TypeOK /\ GuardInv /\ LockInv /\ NrInv /\ [Next]_vars => [PS!Next]_PS!psvars
  <1> SUFFICES ASSUME TypeOK, GuardInv, LockInv, NrInv, [Next]_vars
               PROVE  [PS!Next]_PS!psvars
    OBVIOUS
  <1>0. /\ UNCHANGED <<PhaseBar, NrBar, exited>> => [PS!Next]_PS!psvars
        /\ \A t \in Threads :
              PS!Enter(t) \/ PS!Execute(t) \/ PS!Complete(t) => [PS!Next]_PS!psvars
        /\ {"ret", "raw", "load", "unlock", "lock", "assign", "method"} \subseteq Labels
    BY DEF PS!psvars, PS!Next, Labels
  <1>1. ASSUME NEW t \in Threads, AppSyscall(t) PROVE [PS!Next]_PS!psvars
    <2>1. PICK nr \in AppSysnos :
             stack' = [stack EXCEPT ![t] = << [fn |-> "hook_entry", pc |-> "check", nr |-> nr] >>]
      BY <1>1 DEF AppSyscall
    <2> DEFINE X == << [fn |-> "hook_entry", pc |-> "check", nr |-> nr] >>
    <2>2. PhaseOf(X) = "issued" /\ NrOf(X) = nr
      BY DEF PhaseOf, NrOf, AppStack
    <2>3. t \notin exited /\ exited' = exited /\ PhaseBar[t] = "idle"
      BY <1>1, RefAt DEF AppSyscall, PhaseOf, AppStack
    <2>4. PhaseBar' = [PhaseBar EXCEPT ![t] = "issued"] /\ NrBar' = [NrBar EXCEPT ![t] = nr]
      BY <2>1, <2>2 DEF TypeOK, PhaseBar, NrBar
    <2>5. PS!Issue(t)
      BY <2>3, <2>4 DEF PS!Issue
    <2>. QED
      BY <2>5 DEF PS!Next, PS!psvars
  <1>2. ASSUME NEW t \in Threads, HookInit(t) PROVE [PS!Next]_PS!psvars
    BY <1>0, <1>2 DEF HookInit, PhaseBar, NrBar
  <1>3. ASSUME NEW t \in Threads, AppRegister(t) PROVE [PS!Next]_PS!psvars
    <2> DEFINE X == << [fn |-> "register_syscall_hooks", pc |-> "lock", nr |-> "other"] >>
    <2>1. stack' = [stack EXCEPT ![t] = X] /\ exited' = exited /\ stack[t] = << >>
      BY <1>3 DEF AppRegister
    <2>2. PhaseOf(X) = PhaseOf(stack[t]) /\ NrOf(X) = NrOf(stack[t])
      BY <2>1 DEF PhaseOf, NrOf, AppStack
    <2>. QED
      BY <1>0, <2>1, <2>2, RefStutter
  <1>4. ASSUME NEW t \in Threads, EntryCheck(t) PROVE [PS!Next]_PS!psvars
    <2>1. stack[t] # << >> /\ Top(t).pc = "check" /\ exited' = exited
      BY <1>4 DEF EntryCheck, Running, At
    <2>2. \A n \in {1, 2} : PhaseAt(n, "raw") = PhaseAt(n, "check") /\ PhaseAt(n, "load") = PhaseAt(n, "check")
      BY DEF PhaseAt
    <2>. QED
      BY <1>0, <1>4, <2>1, <2>2, RefGoto DEF EntryCheck
  <1>5. ASSUME NEW t \in Threads, EntryRaw(t) PROVE [PS!Next]_PS!psvars
    <2>1. stack[t] # << >> /\ Top(t).pc = "raw" /\ RawSyscall(t, Top(t).nr, "ret")
      BY <1>5 DEF EntryRaw, Running, At
    <2>. QED
      BY <1>0, <2>1, RefRaw
  <1>6. ASSUME NEW t \in Threads, EntryLoad(t) PROVE [PS!Next]_PS!psvars
    BY <1>0, <1>6, RefLoad
  <1>7. ASSUME NEW t \in Threads, EntryClear(t) PROVE [PS!Next]_PS!psvars
    BY <1>0, <1>7, RefClear
  <1>8. ASSUME NEW t \in Threads, FrameReturn(t) PROVE [PS!Next]_PS!psvars
    <2>1. stack[t] # << >> /\ Top(t).pc = "ret" /\ Return(t) /\ exited' = exited
      BY <1>8 DEF FrameReturn, At
    <2>2. ~(AppStack(stack[t]) /\ Len(stack[t]) = 1)
      BY <2>1, AppTop
    <2>. QED
      BY <1>0, <2>1, <2>2, RefReturn
  <1>9. ASSUME NEW t \in Threads, HookPrint(t) PROVE [PS!Next]_PS!psvars
    <2>1. stack[t] # << >> /\ Top(t).pc = "print" /\ Trap(t, "raw", "other") /\ exited' = exited
      BY <1>9 DEF HookPrint, Running, At
    <2>2. PhaseAt(2, "raw") = PhaseAt(2, "print")
      BY DEF PhaseAt
    <2>. QED
      BY <1>0, <2>1, <2>2, RefTrap
  <1>10. ASSUME NEW t \in Threads, HookRaw(t) PROVE [PS!Next]_PS!psvars
    <2>1. stack[t] # << >> /\ Top(t).pc = "raw" /\ RawSyscall(t, Top(t).nr, "ret")
      BY <1>10 DEF HookRaw, Running, At
    <2>. QED
      BY <1>0, <2>1, RefRaw
  <1>11. ASSUME NEW t \in Threads, MutexLock(t) PROVE [PS!Next]_PS!psvars
    <2>1. stack[t] # << >> /\ Top(t).pc = "lock" /\ exited' = exited
      BY <1>11 DEF MutexLock, Running, At
    <2>2. \A n \in {1, 2} : PhaseAt(n, LockNext(Top(t).fn)) = PhaseAt(n, "lock")
      BY DEF PhaseAt, LockNext
    <2>3. \A n \in {1, 2} : PhaseAt(n, "lock") = PhaseAt(n, "lock")
      OBVIOUS
    <2>4. LockNext(Top(t).fn) \in Labels
      BY DEF LockNext, Labels
    <2>. QED
      BY <1>0, <1>11, <2>1, <2>2, <2>3, <2>4, RefGoto, RefTrap DEF MutexLock
  <1>12. ASSUME NEW t \in Threads, TraitDispatch(t) PROVE [PS!Next]_PS!psvars
    <2>1. stack[t] # << >> /\ Top(t).pc = "dispatch" /\ exited' = exited
      BY <1>12 DEF TraitDispatch, Running, At
    <2> DEFINE l == IF hookObj THEN "method" ELSE "raw"
    <2>2. l \in Labels /\ \A n \in {1, 2} : PhaseAt(n, l) = PhaseAt(n, "dispatch")
      BY DEF PhaseAt, Labels
    <2>. QED
      BY <1>0, <1>12, <2>1, <2>2, RefGoto DEF TraitDispatch
  <1>13. ASSUME NEW t \in Threads, TraitMethod(t) PROVE [PS!Next]_PS!psvars
    <2>1. stack[t] # << >> /\ Top(t).pc = "method" /\ exited' = exited
      BY <1>13 DEF TraitMethod, Running, At
    <2>2. \A n \in {1, 2} : PhaseAt(n, "raw") = PhaseAt(n, "method")
      BY DEF PhaseAt
    <2>. QED
      BY <1>0, <1>13, <2>1, <2>2, RefGoto, RefTrap DEF TraitMethod
  <1>14. ASSUME NEW t \in Threads, TraitRaw(t) PROVE [PS!Next]_PS!psvars
    <2>1. stack[t] # << >> /\ Top(t).pc = "raw" /\ RawSyscall(t, Top(t).nr, "unlock")
      BY <1>14 DEF TraitRaw, Running, At
    <2>. QED
      BY <1>0, <2>1, RefRaw
  <1>15. ASSUME NEW t \in Threads, MutexUnlock(t) PROVE [PS!Next]_PS!psvars
    <2>1. stack[t] # << >> /\ Top(t).pc = "unlock" /\ exited' = exited
      BY <1>15 DEF MutexUnlock, Running, At
    <2>2. Top(t).fn \in {"trait_based_hook", "register_syscall_hooks"}
      <3>1. Top(t) \in Frame /\ Top(t).pc \in LabelsOf(Top(t).fn)
        BY <2>1, TopLabel
      <3>. QED
        BY <2>1, <3>1 DEF Frame, FnNames, HookFns, LabelsOf
    <2> DEFINE l == UnlockNext(Top(t).fn)
    <2>3. l \in Labels
      BY DEF UnlockNext, Labels
    <2>4. AppStack(stack[t]) /\ Len(stack[t]) = 1 => PhaseAt(1, l) = PhaseAt(1, Top(t).pc)
      BY <2>1, AppTop
    <2>5. AppStack(stack[t]) /\ Len(stack[t]) = 2 => PhaseAt(2, l) = PhaseAt(2, Top(t).pc)
      <3>1. AppStack(stack[t]) /\ Len(stack[t]) = 2 => Top(t).fn = "trait_based_hook"
        BY <2>1, <2>2, AppTop DEF HookFns
      <3>. QED
        BY <2>1, <3>1 DEF UnlockNext, PhaseAt
    <2>. QED
      BY <1>0, <1>15, <2>1, <2>3, <2>4, <2>5, RefGoto, RefTrap DEF MutexUnlock
  <1>16. ASSUME NEW t \in Threads, RegisterStore(t) PROVE [PS!Next]_PS!psvars
    <2>1. stack[t] # << >> /\ Top(t).pc = "store" /\ exited' = exited
      BY <1>16 DEF RegisterStore, Running, At
    <2>2. \A n \in {1, 2} : PhaseAt(n, "assign") = PhaseAt(n, "store")
      BY DEF PhaseAt
    <2>. QED
      BY <1>0, <1>16, <2>1, <2>2, RefGoto, RefTrap DEF RegisterStore
  <1>17. ASSUME NEW t \in Threads, RegisterAssign(t) PROVE [PS!Next]_PS!psvars
    <2>1. /\ stack[t] # << >> /\ Top(t).fn = "register_syscall_hooks"
          /\ Goto(t, "unlock") /\ exited' = exited
      BY <1>17 DEF RegisterAssign, Running, At
    <2>2. ~(AppStack(stack[t]) /\ Len(stack[t]) = 1) /\ ~(AppStack(stack[t]) /\ Len(stack[t]) = 2)
      BY <2>1, AppTop DEF HookFns
    <2>. QED
      BY <1>0, <2>1, <2>2, RefGoto
  <1>18. ASSUME NEW t \in Threads, RegisterInit(t) PROVE [PS!Next]_PS!psvars
    <2>1. /\ stack[t] # << >> /\ Top(t).fn = "register_syscall_hooks"
          /\ Return(t) /\ exited' = exited
      BY <1>18 DEF RegisterInit, Running, At
    <2>2. ~(AppStack(stack[t]) /\ Len(stack[t]) = 1) /\ ~(AppStack(stack[t]) /\ Len(stack[t]) = 2)
      BY <2>1, AppTop DEF HookFns
    <2>. QED
      BY <1>0, <2>1, <2>2, RefReturn
  <1>19. CASE Terminated \/ UNCHANGED vars
    BY <1>0, <1>19 DEF Terminated, vars, PhaseBar, NrBar
  <1>. QED
    BY <1>1, <1>2, <1>3, <1>4, <1>5, <1>6, <1>7, <1>8, <1>9, <1>10, <1>11,
       <1>12, <1>13, <1>14, <1>15, <1>16, <1>17, <1>18, <1>19 DEF Next

(* ImplementsPerSyscall: for every number of threads and every stack      *)
(* bound, every application syscall through rewritten code goes IDLE ->   *)
(* IN_HOOK -> IDLE: hook_entry hands it to the installed hook once, the    *)
(* hook has the kernel execute it once (SYS_exit ending the thread), and  *)
(* only then does hook_entry return to the application (lib.rs:92-119,    *)
(* 225-246).                                                              *)
THEOREM RefinesPerSyscall == Spec => ImplementsPerSyscall
  <1>1. Init => PS!Init
    BY DEF Init, PS!Init, PhaseBar, NrBar, PhaseOf, NrOf, AppStack
  <1>. QED
    BY <1>1, RefStep, TypeCorrect, GuardInvariant, LockInvariant, NrInvariant, PTL
       DEF Spec, ImplementsPerSyscall, PS!Spec

=============================================================================
