------------------------- MODULE HookRuntimeProofs -------------------------
(***************************************************************************)
(* Proofs about the hook runtime model, for every set of threads and every *)
(* stack bound.                                                            *)
(***************************************************************************)
EXTENDS HookRuntime, SequenceTheorems, TLAPS

-----------------------------------------------------------------------------
(* Lemmas on the stack helpers: each keeps every stack a sequence of      *)
(* frames.                                                                 *)

LEMMA SetPcProps ==
    ASSUME NEW s \in Seq(Frame), s # << >>, NEW l \in Labels
    PROVE  /\ SetPc(s, l) \in Seq(Frame)
           /\ Len(SetPc(s, l)) = Len(s)
           /\ DOMAIN SetPc(s, l) = DOMAIN s
           /\ \A i \in 1..(Len(s) - 1) : SetPc(s, l)[i] = s[i]
           /\ SetPc(s, l)[Len(s)].fn = s[Len(s)].fn
           /\ SetPc(s, l)[Len(s)].pc = l
           /\ SetPc(s, l)[Len(s)].nr = s[Len(s)].nr
  <1>1. Len(s) \in 1..Len(s) /\ DOMAIN s = 1..Len(s) /\ Len(s) \in Nat
    BY EmptySeq, LenProperties
  <1>2. s[Len(s)] \in Frame
    BY <1>1, ElementOfSeq
  <1>3. [s[Len(s)] EXCEPT !.pc = l] \in Frame
    BY <1>2 DEF Frame
  <1>4. SetPc(s, l) = [s EXCEPT ![Len(s)] = [s[Len(s)] EXCEPT !.pc = l]]
    BY DEF SetPc
  <1>5. /\ SetPc(s, l) \in Seq(Frame)
        /\ Len(SetPc(s, l)) = Len(s)
        /\ \A j \in 1..Len(s) :
              SetPc(s, l)[j] = IF j = Len(s) THEN [s[Len(s)] EXCEPT !.pc = l] ELSE s[j]
    BY <1>1, <1>3, <1>4, ExceptSeq
  <1>6. DOMAIN SetPc(s, l) = DOMAIN s
    BY <1>1, <1>5, LenProperties
  <1>. QED
    BY <1>1, <1>2, <1>5, <1>6 DEF Frame

LEMMA PopProps ==
    ASSUME NEW s \in Seq(Frame), s # << >>
    PROVE  /\ Pop(s) \in Seq(Frame)
           /\ Len(Pop(s)) = Len(s) - 1
           /\ DOMAIN Pop(s) = 1..(Len(s) - 1)
           /\ \A i \in 1..(Len(s) - 1) : Pop(s)[i] = s[i]
  <1>1. Len(s) \in Nat \ {0} /\ DOMAIN s = 1..Len(s)
    BY EmptySeq, LenProperties
  <1>2. \A i \in 1..(Len(s) - 1) : s[i] \in Frame
    BY <1>1, ElementOfSeq
  <1>3. /\ Pop(s) \in Seq(Frame)
        /\ Len(Pop(s)) = Len(s) - 1
        /\ \A i \in 1..(Len(s) - 1) : Pop(s)[i] = s[i]
    BY <1>1, <1>2, SubSeqProperties DEF Pop
  <1>. QED
    BY <1>3, LenProperties

LEMMA AppendProps ==
    ASSUME NEW s \in Seq(Frame), NEW fr \in Frame
    PROVE  /\ Append(s, fr) \in Seq(Frame)
           /\ Len(Append(s, fr)) = Len(s) + 1
           /\ DOMAIN Append(s, fr) = 1..(Len(s) + 1)
           /\ \A i \in 1..Len(s) : Append(s, fr)[i] = s[i]
           /\ Append(s, fr)[Len(s) + 1] = fr
  BY AppendProperties, LenProperties

LEMMA StackUpdateType ==
    ASSUME TypeOK, NEW t \in Threads, NEW s \in Seq(Frame)
    PROVE  [stack EXCEPT ![t] = s] \in [Threads -> Seq(Frame)]
  BY DEF TypeOK

LEMMA TopType ==
    ASSUME TypeOK, NEW t \in Threads, stack[t] # <<>>
    PROVE  /\ Len(stack[t]) \in 1..Len(stack[t])
           /\ Top(t) \in Frame
  BY EmptySeq, LenProperties, ElementOfSeq DEF TypeOK, Top

LEMMA GotoStack ==
    ASSUME TypeOK, NEW t \in Threads, stack[t] # <<>>, NEW l \in Labels, Goto(t, l)
    PROVE  stack' \in [Threads -> Seq(Frame)]
  BY SetPcProps, StackUpdateType DEF Goto, TypeOK

LEMMA CallStack ==
    ASSUME TypeOK, NEW t \in Threads, stack[t] # <<>>, NEW l \in Labels,
           NEW fr \in Frame, Call(t, l, fr)
    PROVE  stack' \in [Threads -> Seq(Frame)]
  <1>1. Append(SetPc(stack[t], l), fr) \in Seq(Frame)
    BY SetPcProps, AppendProps DEF TypeOK
  <1>. QED
    BY <1>1, StackUpdateType DEF Call

LEMMA ReturnStack ==
    ASSUME TypeOK, NEW t \in Threads, stack[t] # <<>>, Return(t)
    PROVE  stack' \in [Threads -> Seq(Frame)]
  BY PopProps, StackUpdateType DEF Return, TypeOK

LEMMA RawSyscallType ==
    ASSUME TypeOK, NEW t \in Threads, stack[t] # <<>>, NEW l \in Labels,
           NEW nr, RawSyscall(t, nr, l)
    PROVE  stack' \in [Threads -> Seq(Frame)] /\ exited' \subseteq Threads
  <1>1. CASE nr = "exit"
    <2>1. << >> \in Seq(Frame)
      BY EmptySeq
    <2>. QED
      BY <1>1, <2>1, StackUpdateType DEF RawSyscall, TypeOK
  <1>2. CASE nr # "exit"
    BY <1>2, GotoStack DEF RawSyscall, TypeOK
  <1>. QED
    BY <1>1, <1>2

(* A hook_entry frame for a syscall trapped from rewritten code.           *)
LEMMA EntryFrameType ==
    ASSUME NEW nr \in Sysnos
    PROVE  [fn |-> "hook_entry", pc |-> "check", nr |-> nr] \in Frame
  BY DEF Frame, FnNames, Labels

-----------------------------------------------------------------------------
(* What each kind of step does to the shape of one call stack (StackInv)  *)
(* and to whether it holds an active hook_entry.                           *)

(* The top frame, not an active hook_entry, moves to a label l that does  *)
(* not make it one; a hook_entry moves only to raw/ret, above an active   *)
(* hook_entry.  Covers every Goto of a hook, the mutex code and            *)
(* register_syscall_hooks, and hook_entry's check -> raw and raw -> ret.   *)
LEMMA StackSetPc ==
    ASSUME NEW s \in Seq(Frame), s # << >>, StackInv(s), NEW l \in Labels,
           ~ActiveAt(s, Len(s)), l \notin {"check", "load", "clear"},
           s[Len(s)].fn = "hook_entry" =>
               l \in {"raw", "ret"} /\ \E j \in 1..(Len(s) - 1) : ActiveAt(s, j)
    PROVE  StackInv(SetPc(s, l)) /\ (HasActive(SetPc(s, l)) <=> HasActive(s))
  <1> DEFINE u == SetPc(s, l)
  <1>1. /\ DOMAIN u = DOMAIN s /\ DOMAIN s = 1..Len(s) /\ Len(s) \in Nat \ {0}
        /\ Len(u) = Len(s)
        /\ \A i \in 1..(Len(s) - 1) : u[i] = s[i]
        /\ u[Len(s)].fn = s[Len(s)].fn /\ u[Len(s)].pc = l
    BY SetPcProps, EmptySeq, LenProperties
  <1>2. \A i \in DOMAIN s : u[i].fn = s[i].fn
    BY <1>1
  <1>3. \A i \in DOMAIN s : ActiveAt(u, i) <=> ActiveAt(s, i)
    BY <1>1 DEF ActiveAt
  <1>4. HookIdx(u) = HookIdx(s)
    BY <1>2, <1>1 DEF HookIdx
  <1>5. \A i \in DOMAIN u :
          u[i].fn = "hook_entry" => u[i].pc \in {"check", "raw", "load", "clear", "ret"}
    BY <1>1, <1>2 DEF StackInv
  <1>6. \A i, j \in DOMAIN u : ActiveAt(u, i) /\ ActiveAt(u, j) => i = j
    BY <1>1, <1>3 DEF StackInv
  <1>7. \A i \in DOMAIN u : u[i].pc \in {"check", "load"} => i = Len(u)
    BY <1>1 DEF StackInv
  <1>8. \A i \in DOMAIN u :
          ActiveAt(u, i) /\ i < Len(u) => u[i].pc = "clear" /\ u[i + 1].fn \in HookFns
    <2> SUFFICES ASSUME NEW i \in DOMAIN u, ActiveAt(u, i), i < Len(u)
                 PROVE  u[i].pc = "clear" /\ u[i + 1].fn \in HookFns
      OBVIOUS
    <2>1. ActiveAt(s, i) /\ u[i] = s[i] /\ i + 1 \in DOMAIN s
      BY <1>1, <1>3
    <2>2. s[i].pc = "clear" /\ s[i + 1].fn \in HookFns
      BY <2>1, <1>1 DEF StackInv
    <2>. QED
      BY <2>1, <2>2, <1>2
  <1>9. \A i \in HookIdx(u) : i > 1 /\ u[i - 1].fn = "hook_entry" /\ u[i - 1].pc = "clear"
    <2> SUFFICES ASSUME NEW i \in HookIdx(u)
                 PROVE  i > 1 /\ u[i - 1].fn = "hook_entry" /\ u[i - 1].pc = "clear"
      OBVIOUS
    <2>1. i \in HookIdx(s) /\ i \in 1..Len(s)
      BY <1>4, <1>1 DEF HookIdx
    <2>2. i > 1 /\ s[i - 1].fn = "hook_entry" /\ s[i - 1].pc = "clear"
      BY <2>1 DEF StackInv
    <2>. QED
      BY <2>1, <2>2, <1>1
  <1>10. \A i \in DOMAIN u :
           u[i].fn = "hook_entry" /\ u[i].pc \in {"raw", "ret"}
              => \E j \in 1..(i - 1) : ActiveAt(u, j)
    <2> SUFFICES ASSUME NEW i \in DOMAIN u, u[i].fn = "hook_entry", u[i].pc \in {"raw", "ret"}
                 PROVE  \E j \in 1..(i - 1) : ActiveAt(u, j)
      OBVIOUS
    <2>1. CASE i = Len(s)
      <3>1. \E j \in 1..(Len(s) - 1) : ActiveAt(s, j)
        BY <2>1, <1>1, <1>2
      <3>. QED
        BY <2>1, <3>1, <1>1, <1>3
    <2>2. CASE i # Len(s)
      <3>1. i \in 1..(Len(s) - 1) /\ u[i] = s[i]
        BY <2>2, <1>1
      <3>2. \E j \in 1..(i - 1) : ActiveAt(s, j)
        BY <3>1, <1>1 DEF StackInv
      <3>. QED
        BY <3>1, <3>2, <1>1, <1>3
    <2>. QED
      BY <2>1, <2>2
  <1>11. HasActive(u) <=> HasActive(s)
    BY <1>1, <1>3 DEF HasActive
  <1>. QED
    BY <1>5, <1>6, <1>7, <1>8, <1>9, <1>10, <1>11 DEF StackInv

(* A syscall through rewritten code pushes a hook_entry frame at check   *)
(* onto a stack whose top is neither active nor at check/load.            *)
LEMMA StackPushEntry ==
    ASSUME NEW u \in Seq(Frame), u # << >>, StackInv(u), ~ActiveAt(u, Len(u)),
           u[Len(u)].pc \notin {"check", "load"}, NEW nr \in Sysnos
    PROVE  LET w == Append(u, [fn |-> "hook_entry", pc |-> "check", nr |-> nr])
           IN  StackInv(w) /\ (HasActive(w) <=> HasActive(u))
  <1> DEFINE fr == [fn |-> "hook_entry", pc |-> "check", nr |-> nr]
             w == Append(u, fr)
  <1>0. fr \in Frame
    BY DEF Frame, FnNames, Labels
  <1>1. /\ DOMAIN w = 1..(Len(u) + 1) /\ Len(w) = Len(u) + 1
        /\ DOMAIN u = 1..Len(u) /\ Len(u) \in Nat \ {0}
        /\ \A i \in 1..Len(u) : w[i] = u[i]
        /\ w[Len(u) + 1] = fr
    BY <1>0, AppendProps, EmptySeq, LenProperties
  <1>2. \A i \in DOMAIN w : ActiveAt(w, i) <=> (i \in DOMAIN u /\ ActiveAt(u, i))
    BY <1>1 DEF ActiveAt
  <1>3. HookIdx(w) = HookIdx(u)
    BY <1>1 DEF HookIdx, HookFns
  <1>4. \A i \in DOMAIN w :
          w[i].fn = "hook_entry" => w[i].pc \in {"check", "raw", "load", "clear", "ret"}
    BY <1>1 DEF StackInv
  <1>5. \A i, j \in DOMAIN w : ActiveAt(w, i) /\ ActiveAt(w, j) => i = j
    BY <1>2 DEF StackInv
  <1>6. \A i \in DOMAIN w : w[i].pc \in {"check", "load"} => i = Len(w)
    BY <1>1 DEF StackInv
  <1>7. \A i \in DOMAIN w :
          ActiveAt(w, i) /\ i < Len(w) => w[i].pc = "clear" /\ w[i + 1].fn \in HookFns
    <2> SUFFICES ASSUME NEW i \in DOMAIN w, ActiveAt(w, i), i < Len(w)
                 PROVE  w[i].pc = "clear" /\ w[i + 1].fn \in HookFns
      OBVIOUS
    <2>1. i \in 1..(Len(u) - 1) /\ ActiveAt(u, i)
      BY <1>1, <1>2
    <2>2. u[i].pc = "clear" /\ u[i + 1].fn \in HookFns
      BY <2>1, <1>1 DEF StackInv
    <2>. QED
      BY <2>1, <2>2, <1>1
  <1>8. \A i \in HookIdx(w) : i > 1 /\ w[i - 1].fn = "hook_entry" /\ w[i - 1].pc = "clear"
    <2> SUFFICES ASSUME NEW i \in HookIdx(u)
                 PROVE  i > 1 /\ w[i - 1].fn = "hook_entry" /\ w[i - 1].pc = "clear"
      BY <1>3
    <2>1. i \in 1..Len(u) /\ i > 1 /\ u[i - 1].fn = "hook_entry" /\ u[i - 1].pc = "clear"
      BY <1>1 DEF StackInv, HookIdx
    <2>. QED
      BY <2>1, <1>1
  <1>9. \A i \in DOMAIN w :
          w[i].fn = "hook_entry" /\ w[i].pc \in {"raw", "ret"}
             => \E j \in 1..(i - 1) : ActiveAt(w, j)
    <2> SUFFICES ASSUME NEW i \in DOMAIN w, w[i].fn = "hook_entry", w[i].pc \in {"raw", "ret"}
                 PROVE  \E j \in 1..(i - 1) : ActiveAt(w, j)
      OBVIOUS
    <2>1. i \in 1..Len(u) /\ w[i] = u[i]
      BY <1>1
    <2>2. \E j \in 1..(i - 1) : ActiveAt(u, j)
      BY <2>1, <1>1 DEF StackInv
    <2>. QED
      BY <2>1, <2>2, <1>1, <1>2
  <1>10. HasActive(w) <=> HasActive(u)
    BY <1>1, <1>2 DEF HasActive
  <1>. QED
    BY <1>4, <1>5, <1>6, <1>7, <1>8, <1>9, <1>10 DEF StackInv

(* hook_entry at check finds IN_HOOK clear and moves to load: it becomes  *)
(* the only active hook_entry of the stack.                                *)
LEMMA StackCheckSet ==
    ASSUME NEW s \in Seq(Frame), s # << >>, StackInv(s), ~HasActive(s),
           s[Len(s)].fn = "hook_entry", s[Len(s)].pc = "check"
    PROVE  StackInv(SetPc(s, "load")) /\ HasActive(SetPc(s, "load"))
  <1> DEFINE u == SetPc(s, "load")
  <1>1. /\ DOMAIN u = DOMAIN s /\ DOMAIN s = 1..Len(s) /\ Len(s) \in Nat \ {0}
        /\ Len(u) = Len(s)
        /\ \A i \in 1..(Len(s) - 1) : u[i] = s[i]
        /\ u[Len(s)].fn = "hook_entry" /\ u[Len(s)].pc = "load"
    <2>1. "load" \in Labels
      BY DEF Labels
    <2>. QED
      BY <2>1, SetPcProps, EmptySeq, LenProperties
  <1>2. \A i \in DOMAIN s : u[i].fn = s[i].fn
    BY <1>1
  <1>3. \A i \in DOMAIN u : ActiveAt(u, i) <=> i = Len(s)
    BY <1>1 DEF HasActive, ActiveAt
  <1>4. HookIdx(u) = HookIdx(s)
    BY <1>2, <1>1 DEF HookIdx
  <1>5. \A i \in DOMAIN u :
          u[i].fn = "hook_entry" => u[i].pc \in {"check", "raw", "load", "clear", "ret"}
    BY <1>1 DEF StackInv
  <1>6. \A i, j \in DOMAIN u : ActiveAt(u, i) /\ ActiveAt(u, j) => i = j
    BY <1>3
  <1>7. \A i \in DOMAIN u : u[i].pc \in {"check", "load"} => i = Len(u)
    BY <1>1 DEF StackInv
  <1>8. \A i \in DOMAIN u :
          ActiveAt(u, i) /\ i < Len(u) => u[i].pc = "clear" /\ u[i + 1].fn \in HookFns
    BY <1>1, <1>3
  <1>9. \A i \in HookIdx(u) : i > 1 /\ u[i - 1].fn = "hook_entry" /\ u[i - 1].pc = "clear"
    <2> SUFFICES ASSUME NEW i \in HookIdx(s)
                 PROVE  i > 1 /\ u[i - 1].fn = "hook_entry" /\ u[i - 1].pc = "clear"
      BY <1>4
    <2>1. i \in 1..Len(s) /\ i > 1 /\ s[i - 1].fn = "hook_entry" /\ s[i - 1].pc = "clear"
      BY <1>1 DEF StackInv, HookIdx
    <2>. QED
      BY <2>1, <1>1
  <1>10. \A i \in DOMAIN u :
           u[i].fn = "hook_entry" /\ u[i].pc \in {"raw", "ret"}
              => \E j \in 1..(i - 1) : ActiveAt(u, j)
    <2> SUFFICES ASSUME NEW i \in DOMAIN u, u[i].fn = "hook_entry", u[i].pc \in {"raw", "ret"}
                 PROVE  FALSE
      OBVIOUS
    <2>1. i \in 1..(Len(s) - 1) /\ u[i] = s[i]
      BY <1>1
    <2>2. \E j \in 1..(i - 1) : ActiveAt(s, j)
      BY <2>1, <1>1 DEF StackInv
    <2>. QED
      BY <2>1, <2>2, <1>1 DEF HasActive
  <1>11. HasActive(u)
    BY <1>1, <1>3 DEF HasActive
  <1>. QED
    BY <1>5, <1>6, <1>7, <1>8, <1>9, <1>10, <1>11 DEF StackInv

(* The active hook_entry at load moves to clear (before calling the hook).*)
LEMMA StackLoadClear ==
    ASSUME NEW s \in Seq(Frame), s # << >>, StackInv(s),
           s[Len(s)].fn = "hook_entry", s[Len(s)].pc = "load"
    PROVE  LET u == SetPc(s, "clear")
           IN  /\ u \in Seq(Frame) /\ u # << >> /\ StackInv(u)
               /\ ActiveAt(u, Len(u)) /\ u[Len(u)].pc = "clear"
  <1> DEFINE u == SetPc(s, "clear")
  <1>0. "clear" \in Labels
    BY DEF Labels
  <1>1. /\ u \in Seq(Frame) /\ DOMAIN u = DOMAIN s /\ DOMAIN s = 1..Len(s)
        /\ Len(s) \in Nat \ {0} /\ Len(u) = Len(s)
        /\ \A i \in 1..(Len(s) - 1) : u[i] = s[i]
        /\ u[Len(s)].fn = "hook_entry" /\ u[Len(s)].pc = "clear"
    BY <1>0, SetPcProps, EmptySeq, LenProperties
  <1>2. \A i \in DOMAIN u : ActiveAt(u, i) <=> ActiveAt(s, i)
    BY <1>1 DEF ActiveAt
  <1>3. \A i \in DOMAIN u : (u[i].fn \in HookFns) <=> (s[i].fn \in HookFns)
    BY <1>1
  <1>4. \A i \in DOMAIN u :
          u[i].fn = "hook_entry" => u[i].pc \in {"check", "raw", "load", "clear", "ret"}
    BY <1>1 DEF StackInv
  <1>5. \A i, j \in DOMAIN u : ActiveAt(u, i) /\ ActiveAt(u, j) => i = j
    BY <1>1, <1>2 DEF StackInv
  <1>6. \A i \in DOMAIN u : u[i].pc \in {"check", "load"} => i = Len(u)
    BY <1>1 DEF StackInv
  <1>7. \A i \in DOMAIN u :
          ActiveAt(u, i) /\ i < Len(u) => u[i].pc = "clear" /\ u[i + 1].fn \in HookFns
    BY <1>1, <1>2 DEF StackInv
  <1>8. \A i \in HookIdx(u) : i > 1 /\ u[i - 1].fn = "hook_entry" /\ u[i - 1].pc = "clear"
    BY <1>1, <1>3 DEF StackInv, HookIdx
  <1>9. \A i \in DOMAIN u :
          u[i].fn = "hook_entry" /\ u[i].pc \in {"raw", "ret"}
             => \E j \in 1..(i - 1) : ActiveAt(u, j)
    BY <1>1, <1>2 DEF StackInv
  <1>10. u # << >> /\ ActiveAt(u, Len(u))
    BY <1>1, EmptySeq DEF ActiveAt
  <1>. QED
    BY <1>1, <1>4, <1>5, <1>6, <1>7, <1>8, <1>9, <1>10 DEF StackInv

(* The active hook_entry, at clear on top, calls a user hook whose frame  *)
(* starts at a label other than check/load.                               *)
LEMMA StackCallHook ==
    ASSUME NEW u \in Seq(Frame), u # << >>, StackInv(u),
           ActiveAt(u, Len(u)), u[Len(u)].pc = "clear",
           NEW fr \in Frame, fr.fn \in HookFns, fr.pc \notin {"check", "load"}
    PROVE  StackInv(Append(u, fr)) /\ HasActive(Append(u, fr))
  <1> DEFINE w == Append(u, fr)
  <1>0. "hook_entry" \notin HookFns
    BY DEF HookFns
  <1>1. /\ DOMAIN w = 1..(Len(u) + 1) /\ Len(w) = Len(u) + 1
        /\ DOMAIN u = 1..Len(u) /\ Len(u) \in Nat \ {0}
        /\ \A i \in 1..Len(u) : w[i] = u[i]
        /\ w[Len(u) + 1] = fr
    BY AppendProps, EmptySeq, LenProperties
  <1>2. \A i \in DOMAIN w : ActiveAt(w, i) <=> i = Len(u)
    BY <1>0, <1>1 DEF StackInv, ActiveAt
  <1>3. \A i \in DOMAIN w :
          w[i].fn = "hook_entry" => w[i].pc \in {"check", "raw", "load", "clear", "ret"}
    BY <1>0, <1>1 DEF StackInv
  <1>4. \A i, j \in DOMAIN w : ActiveAt(w, i) /\ ActiveAt(w, j) => i = j
    BY <1>2
  <1>5. \A i \in DOMAIN w : w[i].pc \in {"check", "load"} => i = Len(w)
    BY <1>1 DEF StackInv
  <1>6. \A i \in DOMAIN w :
          ActiveAt(w, i) /\ i < Len(w) => w[i].pc = "clear" /\ w[i + 1].fn \in HookFns
    BY <1>1, <1>2
  <1>7. \A i \in HookIdx(w) : i > 1 /\ w[i - 1].fn = "hook_entry" /\ w[i - 1].pc = "clear"
    <2> SUFFICES ASSUME NEW i \in DOMAIN w, w[i].fn \in HookFns
                 PROVE  i > 1 /\ w[i - 1].fn = "hook_entry" /\ w[i - 1].pc = "clear"
      BY DEF HookIdx
    <2>1. CASE i = Len(u) + 1
      <3>1. u[Len(u)].fn = "hook_entry"
        BY DEF ActiveAt
      <3>2. Len(u) \in 1..Len(u)
        BY <1>1
      <3>3. w[Len(u)] = u[Len(u)]
        BY <3>2, <1>1
      <3>. QED
        BY <2>1, <3>1, <3>2, <3>3
    <2>2. CASE i \in 1..Len(u)
      <3>1. i \in HookIdx(u)
        BY <2>2, <1>1 DEF HookIdx
      <3>2. i > 1 /\ u[i - 1].fn = "hook_entry" /\ u[i - 1].pc = "clear"
        BY <3>1 DEF StackInv
      <3>. QED
        BY <2>2, <3>2, <1>1
    <2>. QED
      BY <2>1, <2>2, <1>1
  <1>8. \A i \in DOMAIN w :
          w[i].fn = "hook_entry" /\ w[i].pc \in {"raw", "ret"}
             => \E j \in 1..(i - 1) : ActiveAt(w, j)
    <2> SUFFICES ASSUME NEW i \in DOMAIN w, w[i].fn = "hook_entry", w[i].pc \in {"raw", "ret"}
                 PROVE  \E j \in 1..(i - 1) : ActiveAt(w, j)
      OBVIOUS
    <2>1. i \in 1..Len(u) /\ w[i] = u[i]
      BY <1>0, <1>1
    <2>2. \E j \in 1..(i - 1) : ActiveAt(u, j)
      BY <2>1, <1>1 DEF StackInv
    <2>. QED
      BY <2>1, <2>2, <1>1 DEF ActiveAt
  <1>9. HasActive(w)
    <2>1. Len(u) \in DOMAIN w /\ ActiveAt(w, Len(u))
      BY <1>1, <1>2
    <2>. QED
      BY <2>1 DEF HasActive
  <1>. QED
    BY <1>3, <1>4, <1>5, <1>6, <1>7, <1>8, <1>9 DEF StackInv

(* The top frame returns.  The stack keeps an active hook_entry exactly   *)
(* when it had one and the top was not it.                                 *)
LEMMA StackPop ==
    ASSUME NEW s \in Seq(Frame), s # << >>, StackInv(s)
    PROVE  /\ StackInv(Pop(s))
           /\ HasActive(Pop(s)) <=> HasActive(s) /\ ~ActiveAt(s, Len(s))
  <1> DEFINE u == Pop(s)
             n == Len(s)
  <1>1. /\ u \in Seq(Frame) /\ DOMAIN s = 1..n /\ n \in Nat \ {0}
        /\ DOMAIN u = 1..(n - 1) /\ Len(u) = n - 1
        /\ \A i \in 1..(n - 1) : u[i] = s[i]
    BY PopProps, EmptySeq, LenProperties
  <1>2. \A i \in DOMAIN u : ActiveAt(u, i) <=> ActiveAt(s, i)
    BY <1>1 DEF ActiveAt
  <1>3. \A i \in DOMAIN u : (u[i].fn \in HookFns) <=> (s[i].fn \in HookFns)
    BY <1>1
  <1>4. \A i \in DOMAIN u :
          u[i].fn = "hook_entry" => u[i].pc \in {"check", "raw", "load", "clear", "ret"}
    BY <1>1 DEF StackInv
  <1>5. \A i, j \in DOMAIN u : ActiveAt(u, i) /\ ActiveAt(u, j) => i = j
    BY <1>1, <1>2 DEF StackInv
  <1>6. \A i \in DOMAIN u : u[i].pc \in {"check", "load"} => i = Len(u)
    BY <1>1 DEF StackInv
  <1>7. \A i \in DOMAIN u :
          ActiveAt(u, i) /\ i < Len(u) => u[i].pc = "clear" /\ u[i + 1].fn \in HookFns
    BY <1>1, <1>2 DEF StackInv
  <1>8. \A i \in HookIdx(u) : i > 1 /\ u[i - 1].fn = "hook_entry" /\ u[i - 1].pc = "clear"
    BY <1>1, <1>3 DEF StackInv, HookIdx
  <1>9. \A i \in DOMAIN u :
          u[i].fn = "hook_entry" /\ u[i].pc \in {"raw", "ret"}
             => \E j \in 1..(i - 1) : ActiveAt(u, j)
    <2> SUFFICES ASSUME NEW i \in DOMAIN u, u[i].fn = "hook_entry", u[i].pc \in {"raw", "ret"}
                 PROVE  \E j \in 1..(i - 1) : ActiveAt(u, j)
      OBVIOUS
    <2>1. \E j \in 1..(i - 1) : ActiveAt(s, j)
      BY <1>1 DEF StackInv
    <2>. QED
      BY <2>1, <1>1, <1>2
  <1>10. HasActive(u) <=> HasActive(s) /\ ~ActiveAt(s, n)
    BY <1>1, <1>2 DEF StackInv, HasActive
  <1>. QED
    BY <1>4, <1>5, <1>6, <1>7, <1>8, <1>9, <1>10 DEF StackInv

-----------------------------------------------------------------------------
(* GuardInv across a step of one thread.                                   *)

(* Thread t, alive, gets a new stack of the right shape and an IN_HOOK    *)
(* flag that matches it; no other thread changes.                          *)
LEMMA GuardUpdate ==
    ASSUME TypeOK, GuardInv, NEW t \in Threads \ exited, NEW s2,
           StackInv(s2), stack' = [stack EXCEPT ![t] = s2],
           inHook' \in [Threads -> BOOLEAN], (inHook'[t] <=> HasActive(s2)),
           \A u \in Threads \ {t} : inHook'[u] = inHook[u],
           exited' = exited
    PROVE  GuardInv'
  <1>1. \A u \in Threads : stack'[u] = IF u = t THEN s2 ELSE stack[u]
    BY DEF TypeOK
  <1>. QED
    BY <1>1 DEF GuardInv, TypeOK

(* Thread t executes SYS_exit: it leaves no frames.                       *)
LEMMA GuardExit ==
    ASSUME TypeOK, GuardInv, NEW t \in Threads,
           stack' = [stack EXCEPT ![t] = << >>], exited' = exited \cup {t},
           UNCHANGED inHook
    PROVE  GuardInv'
  <1>1. \A u \in Threads : stack'[u] = IF u = t THEN << >> ELSE stack[u]
    BY DEF TypeOK
  <1>2. StackInv(<< >>)
    BY DEF StackInv, ActiveAt, HookIdx
  <1>. QED
    BY <1>1, <1>2 DEF GuardInv, TypeOK

(* A frame at a label that hook_entry never has is not a hook_entry.      *)
LEMMA NotEntry ==
    ASSUME TypeOK, GuardInv, NEW t \in Threads, stack[t] # << >>,
           Top(t).pc \notin {"check", "raw", "load", "clear", "ret"}
    PROVE  Top(t).fn # "hook_entry" /\ ~ActiveAt(stack[t], Len(stack[t]))
  <1>1. Len(stack[t]) \in DOMAIN stack[t]
    BY EmptySeq, LenProperties DEF TypeOK
  <1>. QED
    BY <1>1 DEF GuardInv, StackInv, Top, ActiveAt

(* The top frame of t, not an active hook_entry, moves to label l.       *)
LEMMA GuardGoto ==
    ASSUME TypeOK, GuardInv, NEW t \in Threads \ exited, stack[t] # << >>,
           NEW l \in Labels, l \notin {"check", "load", "clear"},
           ~ActiveAt(stack[t], Len(stack[t])),
           Top(t).fn = "hook_entry" =>
               l \in {"raw", "ret"} /\ \E j \in 1..(Len(stack[t]) - 1) : ActiveAt(stack[t], j),
           Goto(t, l), UNCHANGED <<inHook, exited>>
    PROVE  GuardInv'
  <1>1. stack[t] \in Seq(Frame) /\ StackInv(stack[t]) /\ (inHook[t] <=> HasActive(stack[t]))
    BY DEF TypeOK, GuardInv
  <1>2. StackInv(SetPc(stack[t], l)) /\ (HasActive(SetPc(stack[t], l)) <=> HasActive(stack[t]))
    BY <1>1, StackSetPc DEF Top
  <1>. QED
    BY <1>1, <1>2, GuardUpdate DEF Goto, TypeOK

(* The top frame of t, not a hook_entry, moves to label l and executes a  *)
(* syscall instruction of rewritten code, which enters hook_entry.        *)
LEMMA GuardTrap ==
    ASSUME TypeOK, GuardInv, NEW t \in Threads \ exited, stack[t] # << >>,
           NEW l \in Labels, l \notin {"check", "load", "clear"},
           Top(t).fn # "hook_entry", NEW nr \in Sysnos,
           Trap(t, l, nr), UNCHANGED <<inHook, exited>>
    PROVE  GuardInv'
  <1> DEFINE s == stack[t]
             u == SetPc(s, l)
  <1>1. s \in Seq(Frame) /\ StackInv(s) /\ (inHook[t] <=> HasActive(s))
    BY DEF TypeOK, GuardInv
  <1>2. ~ActiveAt(s, Len(s))
    BY DEF Top, ActiveAt
  <1>3. StackInv(u) /\ (HasActive(u) <=> HasActive(s))
    BY <1>1, <1>2, StackSetPc DEF Top
  <1>4. /\ u \in Seq(Frame) /\ Len(u) = Len(s)
        /\ u[Len(s)].fn = s[Len(s)].fn /\ u[Len(s)].pc = l
    BY <1>1, SetPcProps
  <1>5. u # << >> /\ ~ActiveAt(u, Len(u)) /\ u[Len(u)].pc \notin {"check", "load"}
    BY <1>4, EmptySeq DEF Top, ActiveAt
  <1>6. LET w == Append(u, [fn |-> "hook_entry", pc |-> "check", nr |-> nr])
        IN  StackInv(w) /\ (HasActive(w) <=> HasActive(u))
    BY <1>3, <1>4, <1>5, StackPushEntry
  <1>. QED
    BY <1>1, <1>3, <1>6, GuardUpdate DEF Trap, Call, TypeOK

(* The top frame of t, not the active hook_entry, returns.                *)
LEMMA GuardReturn ==
    ASSUME TypeOK, GuardInv, NEW t \in Threads \ exited, stack[t] # << >>,
           ~ActiveAt(stack[t], Len(stack[t])),
           Return(t), UNCHANGED <<inHook, exited>>
    PROVE  GuardInv'
  <1>1. stack[t] \in Seq(Frame) /\ StackInv(stack[t]) /\ (inHook[t] <=> HasActive(stack[t]))
    BY DEF TypeOK, GuardInv
  <1>2. StackInv(Pop(stack[t])) /\ (HasActive(Pop(stack[t])) <=> HasActive(stack[t]))
    BY <1>1, StackPop, Zenon
  <1>3. inHook' = inHook /\ inHook' \in [Threads -> BOOLEAN]
    BY DEF TypeOK
  <1>5. inHook'[t] <=> HasActive(Pop(stack[t]))
    BY <1>1, <1>2, <1>3
  <1>4. stack' = [stack EXCEPT ![t] = Pop(stack[t])]
    BY DEF Return
  <1>. QED
    BY <1>2, <1>3, <1>4, <1>5, GuardUpdate

(* A thread outside the runtime enters it with a one-frame stack that is  *)
(* not an active hook_entry.                                              *)
LEMMA GuardEnter ==
    ASSUME TypeOK, GuardInv, NEW t \in Threads \ exited, stack[t] = << >>,
           NEW fr \in Frame, fr.fn \in {"hook_entry", "register_syscall_hooks"},
           fr.fn = "hook_entry" => fr.pc = "check",
           stack' = [stack EXCEPT ![t] = << fr >>], UNCHANGED <<inHook, exited>>
    PROVE  GuardInv'
  <1>1. DOMAIN << fr >> = {1} /\ << fr >>[1] = fr /\ Len(<< fr >>) = 1
    OBVIOUS
  <1>2. StackInv(<< fr >>) /\ ~HasActive(<< fr >>)
    BY <1>1 DEF StackInv, ActiveAt, HasActive, HookIdx, HookFns
  <1>3. ~inHook[t]
    BY DEF GuardInv, HasActive
  <1>. QED
    BY <1>2, <1>3, GuardUpdate DEF TypeOK

-----------------------------------------------------------------------------
(* The type invariant holds in every reachable state.                     *)
THEOREM TypeCorrect == Spec => []TypeOK
  <1>1. Init => TypeOK
    BY EmptySeq DEF Init, TypeOK, HookFns
  <1>2. TypeOK /\ [Next]_vars => TypeOK'
    <2> SUFFICES ASSUME TypeOK, [Next]_vars PROVE TypeOK'
      OBVIOUS
    <2>0. "other" \in Sysnos /\ AppSysnos \subseteq Sysnos
      BY ConstAssumption DEF Sysnos
    <2>1. ASSUME NEW t \in Threads, AppSyscall(t) PROVE TypeOK'
      <3>1. PICK nr \in AppSysnos :
               stack' = [stack EXCEPT ![t] = <<[fn |-> "hook_entry", pc |-> "check", nr |-> nr]>>]
        BY <2>1 DEF AppSyscall
      <3>2. <<[fn |-> "hook_entry", pc |-> "check", nr |-> nr]>> \in Seq(Frame)
        BY <2>0, EntryFrameType, AppendProperties, EmptySeq
      <3>. QED
        BY <2>1, <3>1, <3>2, StackUpdateType DEF AppSyscall, TypeOK
    <2>2. ASSUME NEW t \in Threads, HookInit(t) PROVE TypeOK'
      BY <2>2 DEF HookInit, TypeOK
    <2>3. ASSUME NEW t \in Threads, AppRegister(t) PROVE TypeOK'
      <3>1. <<[fn |-> "register_syscall_hooks", pc |-> "lock", nr |-> "other"]>> \in Seq(Frame)
        BY AppendProperties, EmptySeq DEF Frame, FnNames, Labels, Sysnos
      <3>. QED
        BY <2>3, <3>1, StackUpdateType DEF AppRegister, TypeOK
    <2>4. ASSUME NEW t \in Threads, EntryCheck(t) PROVE TypeOK'
      BY <2>4, GotoStack DEF EntryCheck, Running, At, Labels, TypeOK
    <2>5. ASSUME NEW t \in Threads, EntryRaw(t) PROVE TypeOK'
      BY <2>5, RawSyscallType DEF EntryRaw, Running, At, Labels, TypeOK
    <2>6. ASSUME NEW t \in Threads, EntryLoad(t) PROVE TypeOK'
      <3>1. Top(t).nr \in Sysnos
        BY <2>6, TopType DEF EntryLoad, Running, At, Frame
      <3>2. HookStart[hookFn] \in Labels
        BY DEF HookStart, HookFns, Labels, TypeOK
      <3>3. hookFn \in FnNames
        BY DEF FnNames, TypeOK
      <3>4. [fn |-> hookFn, pc |-> HookStart[hookFn], nr |-> Top(t).nr] \in Frame
        BY <3>1, <3>2, <3>3 DEF Frame
      <3>. QED
        BY <2>6, <3>4, CallStack DEF EntryLoad, Running, At, Labels, TypeOK
    <2>7. ASSUME NEW t \in Threads, EntryClear(t) PROVE TypeOK'
      BY <2>7, ReturnStack DEF EntryClear, Running, At, TypeOK
    <2>8. ASSUME NEW t \in Threads, FrameReturn(t) PROVE TypeOK'
      BY <2>8, ReturnStack DEF FrameReturn, At, TypeOK
    <2>9. ASSUME NEW t \in Threads, HookPrint(t) PROVE TypeOK'
      BY <2>9, <2>0, EntryFrameType, CallStack DEF HookPrint, Running, At, Trap,
                                                   Labels, TypeOK
    <2>10. ASSUME NEW t \in Threads, HookRaw(t) PROVE TypeOK'
      BY <2>10, RawSyscallType DEF HookRaw, Running, At, Labels, TypeOK
    <2>11. ASSUME NEW t \in Threads, MutexLock(t) PROVE TypeOK'
      <3>1. LockNext(Top(t).fn) \in Labels
        BY DEF LockNext, Labels
      <3>. QED
        BY <2>11, <3>1, <2>0, EntryFrameType, GotoStack, CallStack
        DEF MutexLock, Running, At, Trap, Labels, TypeOK
    <2>12. ASSUME NEW t \in Threads, TraitDispatch(t) PROVE TypeOK'
      BY <2>12, GotoStack DEF TraitDispatch, Running, At, Labels, TypeOK
    <2>13. ASSUME NEW t \in Threads, TraitMethod(t) PROVE TypeOK'
      BY <2>13, <2>0, EntryFrameType, GotoStack, CallStack
      DEF TraitMethod, Running, At, Trap, Labels, TypeOK
    <2>14. ASSUME NEW t \in Threads, TraitRaw(t) PROVE TypeOK'
      BY <2>14, RawSyscallType DEF TraitRaw, Running, At, Labels, TypeOK
    <2>15. ASSUME NEW t \in Threads, MutexUnlock(t) PROVE TypeOK'
      <3>1. UnlockNext(Top(t).fn) \in Labels
        BY DEF UnlockNext, Labels
      <3>. QED
        BY <2>15, <3>1, <2>0, EntryFrameType, GotoStack, CallStack
        DEF MutexUnlock, Running, At, Trap, Labels, TypeOK
    <2>16. ASSUME NEW t \in Threads, RegisterStore(t) PROVE TypeOK'
      BY <2>16, <2>0, EntryFrameType, GotoStack, CallStack
      DEF RegisterStore, Running, At, Trap, Labels, TypeOK
    <2>17. ASSUME NEW t \in Threads, RegisterAssign(t) PROVE TypeOK'
      BY <2>17, GotoStack DEF RegisterAssign, Running, At, Labels, TypeOK
    <2>18. ASSUME NEW t \in Threads, RegisterInit(t) PROVE TypeOK'
      BY <2>18, ReturnStack DEF RegisterInit, Running, At, HookFns, TypeOK
    <2>19. CASE Terminated \/ UNCHANGED vars
      BY <2>19 DEF Terminated, vars, TypeOK
    <2>. QED
      BY <2>1, <2>2, <2>3, <2>4, <2>5, <2>6, <2>7, <2>8, <2>9, <2>10, <2>11,
         <2>12, <2>13, <2>14, <2>15, <2>16, <2>17, <2>18, <2>19 DEF Next
  <1>. QED
    BY <1>1, <1>2, PTL DEF Spec

-----------------------------------------------------------------------------
(* The reentrancy guard of hook_entry (lib.rs:93-119): on every thread the *)
(* IN_HOOK flag is set exactly while an activation of hook_entry that set  *)
(* it is on the stack, and every call stack keeps the shape StackInv; this *)
(* holds for every number of threads and every stack bound.               *)
THEOREM GuardInvariant == Spec => []GuardInv
  <1>1. Init => GuardInv
    BY DEF Init, GuardInv, StackInv, HasActive, ActiveAt, HookIdx
  <1>2. TypeOK /\ GuardInv /\ [Next]_vars => GuardInv'
    <2> SUFFICES ASSUME TypeOK, GuardInv, [Next]_vars PROVE GuardInv'
      OBVIOUS
    <2>0. /\ "other" \in Sysnos /\ AppSysnos \subseteq Sysnos
          /\ \A t \in Threads : stack[t] \in Seq(Frame) /\ StackInv(stack[t])
      BY ConstAssumption DEF Sysnos, TypeOK, GuardInv
    <2>1. ASSUME NEW t \in Threads, AppSyscall(t) PROVE GuardInv'
      <3>1. PICK nr \in AppSysnos :
               stack' = [stack EXCEPT ![t] = << [fn |-> "hook_entry", pc |-> "check", nr |-> nr] >>]
        BY <2>1 DEF AppSyscall
      <3>2. [fn |-> "hook_entry", pc |-> "check", nr |-> nr] \in Frame
        BY <2>0, EntryFrameType
      <3>. QED
        BY <2>1, <3>1, <3>2, GuardEnter DEF AppSyscall
    <2>2. ASSUME NEW t \in Threads, HookInit(t) PROVE GuardInv'
      BY <2>2 DEF HookInit, GuardInv
    <2>3. ASSUME NEW t \in Threads, AppRegister(t) PROVE GuardInv'
      <3>1. [fn |-> "register_syscall_hooks", pc |-> "lock", nr |-> "other"] \in Frame
        BY DEF Frame, FnNames, Labels, Sysnos
      <3>. QED
        BY <2>3, <3>1, GuardEnter DEF AppRegister
    <2>4. ASSUME NEW t \in Threads, EntryCheck(t) PROVE GuardInv'
      <3>0. /\ t \in Threads \ exited /\ stack[t] # << >>
            /\ Top(t).fn = "hook_entry" /\ Top(t).pc = "check"
            /\ ~ActiveAt(stack[t], Len(stack[t]))
        BY <2>4 DEF EntryCheck, Running, At, Top, ActiveAt
      <3>1. CASE inHook[t]
        <4>1. PICK j \in DOMAIN stack[t] : ActiveAt(stack[t], j)
          BY <3>1, <3>0 DEF GuardInv, HasActive
        <4>2. j \in 1..(Len(stack[t]) - 1)
          BY <3>0, <4>1, <2>0 DEF Top
        <4>3. "raw" \in Labels
          BY DEF Labels
        <4>4. Goto(t, "raw") /\ UNCHANGED <<inHook, exited>>
          BY <2>4, <3>1 DEF EntryCheck
        <4>5. Top(t).fn = "hook_entry" =>
                 "raw" \in {"raw", "ret"} /\ \E i \in 1..(Len(stack[t]) - 1) : ActiveAt(stack[t], i)
          BY <4>1, <4>2
        <4>. QED
          BY <3>0, <4>3, <4>4, <4>5, GuardGoto
      <3>2. CASE ~inHook[t]
        <4>1. ~HasActive(stack[t])
          BY <3>2, <3>0 DEF GuardInv
        <4>2. StackInv(SetPc(stack[t], "load")) /\ HasActive(SetPc(stack[t], "load"))
          BY <3>0, <4>1, <2>0, StackCheckSet DEF Top
        <4>3. /\ stack' = [stack EXCEPT ![t] = SetPc(stack[t], "load")]
              /\ inHook' = [inHook EXCEPT ![t] = TRUE] /\ exited' = exited
          BY <2>4, <3>2 DEF EntryCheck, Goto
        <4>. QED
          BY <3>0, <4>2, <4>3, GuardUpdate DEF TypeOK
      <3>. QED
        BY <3>1, <3>2
    <2>5. ASSUME NEW t \in Threads, EntryRaw(t) PROVE GuardInv'
      <3>0. /\ t \in Threads \ exited /\ stack[t] # << >>
            /\ Top(t).fn = "hook_entry" /\ Top(t).pc = "raw"
            /\ ~ActiveAt(stack[t], Len(stack[t]))
        BY <2>5 DEF EntryRaw, Running, At, Top, ActiveAt
      <3>1. CASE Top(t).nr = "exit"
        BY <2>5, <3>1, GuardExit DEF EntryRaw, RawSyscall
      <3>2. CASE Top(t).nr # "exit"
        <4>1. Len(stack[t]) \in DOMAIN stack[t]
          BY <3>0, <2>0, EmptySeq, LenProperties
        <4>2. \E j \in 1..(Len(stack[t]) - 1) : ActiveAt(stack[t], j)
          BY <3>0, <4>1, <2>0 DEF StackInv, Top
        <4>3. "ret" \in Labels
          BY DEF Labels
        <4>. QED
          BY <2>5, <3>0, <3>2, <4>2, <4>3, GuardGoto DEF EntryRaw, RawSyscall
      <3>. QED
        BY <3>1, <3>2
    <2>6. ASSUME NEW t \in Threads, EntryLoad(t) PROVE GuardInv'
      <3> DEFINE fr == [fn |-> hookFn, pc |-> HookStart[hookFn], nr |-> Top(t).nr]
                 u == SetPc(stack[t], "clear")
      <3>0. /\ t \in Threads \ exited /\ stack[t] # << >>
            /\ stack[t][Len(stack[t])].fn = "hook_entry" /\ stack[t][Len(stack[t])].pc = "load"
        BY <2>6 DEF EntryLoad, Running, At, Top
      <3>1. fr \in Frame /\ fr.fn \in HookFns /\ fr.pc \notin {"check", "load"}
        <4>1. Top(t) \in Frame
          BY <3>0, TopType
        <4>. QED
          BY <4>1 DEF TypeOK, Frame, HookStart, HookFns, FnNames, Labels
      <3>2. u \in Seq(Frame) /\ u # << >> /\ StackInv(u)
            /\ ActiveAt(u, Len(u)) /\ u[Len(u)].pc = "clear"
        BY <3>0, <2>0, StackLoadClear
      <3>3. StackInv(Append(u, fr)) /\ HasActive(Append(u, fr))
        BY <3>1, <3>2, StackCallHook
      <3>4. inHook[t]
        <4>1. Len(stack[t]) \in DOMAIN stack[t]
          BY <3>0, <2>0, EmptySeq, LenProperties
        <4>. QED
          BY <3>0, <4>1 DEF GuardInv, HasActive, ActiveAt
      <3>5. stack' = [stack EXCEPT ![t] = Append(u, fr)] /\ UNCHANGED <<inHook, exited>>
        BY <2>6 DEF EntryLoad, Call
      <3>. QED
        BY <3>0, <3>3, <3>4, <3>5, GuardUpdate DEF TypeOK
    <2>7. ASSUME NEW t \in Threads, EntryClear(t) PROVE GuardInv'
      <3>0. /\ t \in Threads \ exited /\ stack[t] # << >>
            /\ ActiveAt(stack[t], Len(stack[t]))
        BY <2>7 DEF EntryClear, Running, At, Top, ActiveAt
      <3>1. StackInv(Pop(stack[t])) /\ ~HasActive(Pop(stack[t]))
        BY <3>0, <2>0, StackPop
      <3>2. /\ stack' = [stack EXCEPT ![t] = Pop(stack[t])]
            /\ inHook' = [inHook EXCEPT ![t] = FALSE] /\ exited' = exited
        BY <2>7 DEF EntryClear, Return
      <3>. QED
        BY <3>0, <3>1, <3>2, GuardUpdate DEF TypeOK
    <2>8. ASSUME NEW t \in Threads, FrameReturn(t) PROVE GuardInv'
      <3>0. t \in Threads \ exited /\ stack[t] # << >> /\ ~ActiveAt(stack[t], Len(stack[t]))
        BY <2>8 DEF FrameReturn, At, Top, ActiveAt
      <3>. QED
        BY <2>8, <3>0, GuardReturn DEF FrameReturn
    <2>9. ASSUME NEW t \in Threads, HookPrint(t) PROVE GuardInv'
      <3>0. t \in Threads \ exited /\ stack[t] # << >> /\ Top(t).pc = "print"
        BY <2>9 DEF HookPrint, Running, At
      <3>1. Top(t).fn # "hook_entry"
        BY <3>0, NotEntry
      <3>2. "raw" \in Labels
        BY DEF Labels
      <3>. QED
        BY <2>9, <2>0, <3>0, <3>1, <3>2, GuardTrap DEF HookPrint
    <2>10. ASSUME NEW t \in Threads, HookRaw(t) PROVE GuardInv'
      <3>0. /\ t \in Threads \ exited /\ stack[t] # << >>
            /\ Top(t).fn \in {"default_hook", "trace_hook"}
            /\ ~ActiveAt(stack[t], Len(stack[t]))
        BY <2>10 DEF HookRaw, Running, At, Top, ActiveAt
      <3>1. CASE Top(t).nr = "exit"
        BY <2>10, <3>1, GuardExit DEF HookRaw, RawSyscall
      <3>2. CASE Top(t).nr # "exit"
        <4>1. "ret" \in Labels
          BY DEF Labels
        <4>. QED
          BY <2>10, <3>0, <3>2, <4>1, GuardGoto DEF HookRaw, RawSyscall
      <3>. QED
        BY <3>1, <3>2
    <2>11. ASSUME NEW t \in Threads, MutexLock(t) PROVE GuardInv'
      <3>0. t \in Threads \ exited /\ stack[t] # << >> /\ Top(t).pc = "lock"
        BY <2>11 DEF MutexLock, Running, At
      <3>1. Top(t).fn # "hook_entry" /\ ~ActiveAt(stack[t], Len(stack[t]))
        BY <3>0, NotEntry
      <3>2. /\ LockNext(Top(t).fn) \in Labels \ {"check", "load", "clear"}
            /\ "lock" \in Labels
        BY DEF LockNext, Labels
      <3>3. CASE lockOwner = NoThread
        BY <2>11, <3>0, <3>1, <3>2, <3>3, GuardGoto DEF MutexLock
      <3>4. CASE lockOwner # NoThread
        BY <2>11, <2>0, <3>0, <3>1, <3>2, <3>4, GuardTrap DEF MutexLock
      <3>. QED
        BY <3>3, <3>4
    <2>12. ASSUME NEW t \in Threads, TraitDispatch(t) PROVE GuardInv'
      <3>0. t \in Threads \ exited /\ stack[t] # << >> /\ Top(t).pc = "dispatch"
        BY <2>12 DEF TraitDispatch, Running, At
      <3>1. Top(t).fn # "hook_entry" /\ ~ActiveAt(stack[t], Len(stack[t]))
        BY <3>0, NotEntry
      <3>2. (IF hookObj THEN "method" ELSE "raw") \in Labels \ {"check", "load", "clear"}
        BY DEF Labels
      <3>. QED
        BY <2>12, <3>0, <3>1, <3>2, GuardGoto DEF TraitDispatch
    <2>13. ASSUME NEW t \in Threads, TraitMethod(t) PROVE GuardInv'
      <3>0. t \in Threads \ exited /\ stack[t] # << >> /\ Top(t).pc = "method"
        BY <2>13 DEF TraitMethod, Running, At
      <3>1. Top(t).fn # "hook_entry" /\ ~ActiveAt(stack[t], Len(stack[t]))
        BY <3>0, NotEntry
      <3>2. "raw" \in Labels
        BY DEF Labels
      <3>3. CASE Trap(t, "raw", "other")
        BY <2>13, <2>0, <3>0, <3>1, <3>2, <3>3, GuardTrap DEF TraitMethod
      <3>4. CASE Goto(t, "raw")
        BY <2>13, <3>0, <3>1, <3>2, <3>4, GuardGoto DEF TraitMethod
      <3>. QED
        BY <2>13, <3>3, <3>4 DEF TraitMethod
    <2>14. ASSUME NEW t \in Threads, TraitRaw(t) PROVE GuardInv'
      <3>0. /\ t \in Threads \ exited /\ stack[t] # << >>
            /\ Top(t).fn = "trait_based_hook"
            /\ ~ActiveAt(stack[t], Len(stack[t]))
        BY <2>14 DEF TraitRaw, Running, At, Top, ActiveAt
      <3>1. CASE Top(t).nr = "exit"
        BY <2>14, <3>1, GuardExit DEF TraitRaw, RawSyscall
      <3>2. CASE Top(t).nr # "exit"
        <4>1. "unlock" \in Labels
          BY DEF Labels
        <4>. QED
          BY <2>14, <3>0, <3>2, <4>1, GuardGoto DEF TraitRaw, RawSyscall
      <3>. QED
        BY <3>1, <3>2
    <2>15. ASSUME NEW t \in Threads, MutexUnlock(t) PROVE GuardInv'
      <3>0. t \in Threads \ exited /\ stack[t] # << >> /\ Top(t).pc = "unlock"
        BY <2>15 DEF MutexUnlock, Running, At
      <3>1. Top(t).fn # "hook_entry" /\ ~ActiveAt(stack[t], Len(stack[t]))
        BY <3>0, NotEntry
      <3>2. UnlockNext(Top(t).fn) \in Labels \ {"check", "load", "clear"}
        BY DEF UnlockNext, Labels
      <3>3. CASE Trap(t, UnlockNext(Top(t).fn), "other")
        BY <2>15, <2>0, <3>0, <3>1, <3>2, <3>3, GuardTrap DEF MutexUnlock
      <3>4. CASE Goto(t, UnlockNext(Top(t).fn))
        BY <2>15, <3>0, <3>1, <3>2, <3>4, GuardGoto DEF MutexUnlock
      <3>. QED
        BY <2>15, <3>3, <3>4 DEF MutexUnlock
    <2>16. ASSUME NEW t \in Threads, RegisterStore(t) PROVE GuardInv'
      <3>0. t \in Threads \ exited /\ stack[t] # << >> /\ Top(t).pc = "store"
        BY <2>16 DEF RegisterStore, Running, At
      <3>1. Top(t).fn # "hook_entry" /\ ~ActiveAt(stack[t], Len(stack[t]))
        BY <3>0, NotEntry
      <3>2. "assign" \in Labels
        BY DEF Labels
      <3>3. CASE Trap(t, "assign", "other")
        BY <2>16, <2>0, <3>0, <3>1, <3>2, <3>3, GuardTrap DEF RegisterStore
      <3>4. CASE Goto(t, "assign")
        BY <2>16, <3>0, <3>1, <3>2, <3>4, GuardGoto DEF RegisterStore
      <3>. QED
        BY <2>16, <3>3, <3>4 DEF RegisterStore
    <2>17. ASSUME NEW t \in Threads, RegisterAssign(t) PROVE GuardInv'
      <3>0. t \in Threads \ exited /\ stack[t] # << >> /\ Top(t).pc = "assign"
        BY <2>17 DEF RegisterAssign, Running, At
      <3>1. Top(t).fn # "hook_entry" /\ ~ActiveAt(stack[t], Len(stack[t]))
        BY <3>0, NotEntry
      <3>2. "unlock" \in Labels
        BY DEF Labels
      <3>. QED
        BY <2>17, <3>0, <3>1, <3>2, GuardGoto DEF RegisterAssign
    <2>18. ASSUME NEW t \in Threads, RegisterInit(t) PROVE GuardInv'
      <3>0. t \in Threads \ exited /\ stack[t] # << >> /\ Top(t).pc = "init"
        BY <2>18 DEF RegisterInit, Running, At
      <3>1. ~ActiveAt(stack[t], Len(stack[t]))
        BY <3>0, NotEntry
      <3>. QED
        BY <2>18, <3>0, <3>1, GuardReturn DEF RegisterInit
    <2>19. CASE Terminated \/ UNCHANGED vars
      BY <2>19 DEF Terminated, vars, GuardInv
    <2>20. QED
      BY <2>1, <2>2, <2>3, <2>4, <2>5, <2>6, <2>7, <2>8, <2>9, <2>10, <2>11,
         <2>12, <2>13, <2>14, <2>15, <2>16, <2>17, <2>18, <2>19 DEF Next
  <1>. QED
    BY <1>1, <1>2, TypeCorrect, PTL DEF Spec

(* Two user-hook activations on one stack were each called by an active  *)
(* hook_entry right below them, and there is only one of those.           *)
LEMMA GuardReentrancy ==
    ASSUME TypeOK, GuardInv
    PROVE  ReentrancyBound
  <1> SUFFICES ASSUME NEW t \in Threads, NEW i \in HookFrames(t), NEW j \in HookFrames(t)
               PROVE  i = j
    BY DEF ReentrancyBound
  <1>1. StackInv(stack[t]) /\ stack[t] \in Seq(Frame)
    BY DEF GuardInv, TypeOK
  <1>2. i \in DOMAIN stack[t] /\ j \in DOMAIN stack[t] /\ DOMAIN stack[t] = 1..Len(stack[t])
    BY <1>1, LenProperties DEF HookFrames, HookIdx
  <1>3. ActiveAt(stack[t], i - 1) /\ ActiveAt(stack[t], j - 1)
    BY <1>1 DEF StackInv, HookFrames, ActiveAt
  <1>4. i - 1 \in DOMAIN stack[t] /\ j - 1 \in DOMAIN stack[t]
    BY <1>1, <1>2 DEF StackInv, HookFrames
  <1>. QED
    BY <1>1, <1>2, <1>3, <1>4 DEF StackInv

(* Spec section 8, invariant 6: hook_entry never calls the user hook while *)
(* another activation of it is on the same thread's stack.                *)
THEOREM ReentrancyBoundHolds == Spec => []ReentrancyBound
  BY GuardInvariant, TypeCorrect, GuardReentrancy, PTL

-----------------------------------------------------------------------------
(* The mutex HOOK_TRAIT_OBJECT (lib.rs:214-216, 232-246).                  *)

(* The labels each runtime function has.                                   *)
LabelsOf(f) ==
    CASE f = "hook_entry"             -> {"check", "raw", "load", "clear", "ret"}
      [] f = "default_hook"           -> {"raw", "ret"}
      [] f = "trace_hook"             -> {"print", "raw", "ret"}
      [] f = "trait_based_hook"       -> {"lock", "dispatch", "method", "raw", "unlock", "ret"}
      [] f = "register_syscall_hooks" -> {"lock", "store", "assign", "unlock", "init"}

(* A frame of function f at label l runs with the MutexGuard alive: from  *)
(* a successful lock() to the guard's drop.                                *)
Held(f, l) ==
    \/ l \in {"dispatch", "method", "store", "assign", "unlock"}
    \/ f = "trait_based_hook" /\ l = "raw"

LabelsOK(s) == \A i \in DOMAIN s : s[i].pc \in LabelsOf(s[i].fn)

NoneHeld(s) == \A i \in DOMAIN s : ~Held(s[i].fn, s[i].pc)

OneHeld(s) ==
    \A i, j \in DOMAIN s : Held(s[i].fn, s[i].pc) /\ Held(s[j].fn, s[j].pc) => i = j

(* Every frame is at a label of its function, a stack holds the guard in *)
(* at most one frame, and a thread that runs with the guard is the owner. *)
LockInv ==
    /\ \A t \in Threads : LabelsOK(stack[t]) /\ OneHeld(stack[t])
    /\ \A t \in Threads \ exited : lockOwner # t => NoneHeld(stack[t])

(* What each stack helper does to the frames that hold the guard.        *)

(* The top frame moves to a label of its function, and holds the guard    *)
(* afterwards only if it held it before.                                  *)
LEMMA LockSetPc ==
    ASSUME NEW s \in Seq(Frame), s # << >>, LabelsOK(s), OneHeld(s), NEW l \in Labels,
           l \in LabelsOf(s[Len(s)].fn),
           Held(s[Len(s)].fn, l) => Held(s[Len(s)].fn, s[Len(s)].pc)
    PROVE  /\ LabelsOK(SetPc(s, l)) /\ OneHeld(SetPc(s, l))
           /\ NoneHeld(s) => NoneHeld(SetPc(s, l))
  <1>1. DOMAIN s = 1..Len(s) /\ Len(s) \in Nat
    BY LenProperties
  <1>2. ASSUME NEW i \in DOMAIN SetPc(s, l)
        PROVE  /\ i \in DOMAIN s
               /\ SetPc(s, l)[i].pc \in LabelsOf(SetPc(s, l)[i].fn)
               /\ Held(SetPc(s, l)[i].fn, SetPc(s, l)[i].pc) => Held(s[i].fn, s[i].pc)
    <2>1. i \in DOMAIN s
      BY SetPcProps
    <2>2. CASE i = Len(s)
      BY <2>1, <2>2, SetPcProps
    <2>3. CASE i # Len(s)
      <3>1. i \in 1..(Len(s) - 1)
        BY <1>1, <2>1, <2>3
      <3>2. SetPc(s, l)[i] = s[i]
        BY <3>1, SetPcProps
      <3>. QED
        BY <2>1, <3>2 DEF LabelsOK
    <2>. QED
      BY <2>2, <2>3
  <1>. QED
    BY <1>2 DEF LabelsOK, OneHeld, NoneHeld

(* lock() succeeds: the top frame of a stack that held no guard takes it. *)
LEMMA LockAcquire ==
    ASSUME NEW s \in Seq(Frame), s # << >>, LabelsOK(s), NoneHeld(s), NEW l \in Labels,
           l \in LabelsOf(s[Len(s)].fn)
    PROVE  LabelsOK(SetPc(s, l)) /\ OneHeld(SetPc(s, l))
  <1>1. DOMAIN s = 1..Len(s) /\ Len(s) \in Nat
    BY LenProperties
  <1>2. ASSUME NEW i \in DOMAIN SetPc(s, l)
        PROVE  /\ SetPc(s, l)[i].pc \in LabelsOf(SetPc(s, l)[i].fn)
               /\ Held(SetPc(s, l)[i].fn, SetPc(s, l)[i].pc) => i = Len(s)
    <2>1. i \in DOMAIN s
      BY SetPcProps
    <2>2. CASE i = Len(s)
      BY <2>1, <2>2, SetPcProps
    <2>3. CASE i # Len(s)
      <3>1. i \in 1..(Len(s) - 1)
        BY <1>1, <2>1, <2>3
      <3>2. SetPc(s, l)[i] = s[i]
        BY <3>1, SetPcProps
      <3>. QED
        BY <2>1, <3>2 DEF LabelsOK, NoneHeld
    <2>. QED
      BY <2>2, <2>3
  <1>. QED
    BY <1>2 DEF LabelsOK, OneHeld

(* The guard is dropped: the top frame, the only one that held it, moves *)
(* to a label without it.                                                 *)
LEMMA LockRelease ==
    ASSUME NEW s \in Seq(Frame), s # << >>, LabelsOK(s), OneHeld(s), NEW l \in Labels,
           Held(s[Len(s)].fn, s[Len(s)].pc),
           l \in LabelsOf(s[Len(s)].fn), ~Held(s[Len(s)].fn, l)
    PROVE  LabelsOK(SetPc(s, l)) /\ NoneHeld(SetPc(s, l)) /\ OneHeld(SetPc(s, l))
  <1>1. DOMAIN s = 1..Len(s) /\ Len(s) \in Nat /\ Len(s) \in DOMAIN s
    BY LenProperties, EmptySeq
  <1>2. ASSUME NEW i \in DOMAIN SetPc(s, l)
        PROVE  /\ SetPc(s, l)[i].pc \in LabelsOf(SetPc(s, l)[i].fn)
               /\ ~Held(SetPc(s, l)[i].fn, SetPc(s, l)[i].pc)
    <2>1. i \in DOMAIN s
      BY SetPcProps
    <2>2. CASE i = Len(s)
      BY <2>1, <2>2, SetPcProps
    <2>3. CASE i # Len(s)
      <3>1. i \in 1..(Len(s) - 1)
        BY <1>1, <2>1, <2>3
      <3>2. SetPc(s, l)[i] = s[i]
        BY <3>1, SetPcProps
      <3>3. ~Held(s[i].fn, s[i].pc)
        BY <1>1, <2>1, <2>3 DEF OneHeld
      <3>. QED
        BY <2>1, <3>2, <3>3 DEF LabelsOK
    <2>. QED
      BY <2>2, <2>3
  <1>. QED
    BY <1>2 DEF LabelsOK, OneHeld, NoneHeld

(* A call pushes a frame that does not hold the guard.                    *)
LEMMA LockPush ==
    ASSUME NEW s \in Seq(Frame), LabelsOK(s), OneHeld(s), NEW fr \in Frame,
           fr.pc \in LabelsOf(fr.fn), ~Held(fr.fn, fr.pc)
    PROVE  /\ LabelsOK(Append(s, fr)) /\ OneHeld(Append(s, fr))
           /\ NoneHeld(s) => NoneHeld(Append(s, fr))
  <1>1. DOMAIN s = 1..Len(s) /\ Len(s) \in Nat
    BY LenProperties
  <1>2. ASSUME NEW i \in DOMAIN Append(s, fr)
        PROVE  \/ i = Len(s) + 1 /\ Append(s, fr)[i] = fr
               \/ i \in DOMAIN s /\ Append(s, fr)[i] = s[i]
    BY <1>1, AppendProps
  <1>. QED
    BY <1>2 DEF LabelsOK, OneHeld, NoneHeld

(* A return drops the top frame.                                          *)
LEMMA LockPop ==
    ASSUME NEW s \in Seq(Frame), s # << >>, LabelsOK(s), OneHeld(s)
    PROVE  /\ LabelsOK(Pop(s)) /\ OneHeld(Pop(s))
           /\ NoneHeld(s) => NoneHeld(Pop(s))
  <1>1. DOMAIN s = 1..Len(s) /\ Len(s) \in Nat
    BY LenProperties
  <1>2. ASSUME NEW i \in DOMAIN Pop(s) PROVE i \in DOMAIN s /\ Pop(s)[i] = s[i]
    <2>1. DOMAIN Pop(s) = 1..(Len(s) - 1) /\ \A k \in 1..(Len(s) - 1) : Pop(s)[k] = s[k]
      BY PopProps
    <2>2. i \in 1..(Len(s) - 1)
      BY <2>1
    <2>. QED
      BY <1>1, <2>1, <2>2
  <1>3. LabelsOK(Pop(s))
    BY <1>2 DEF LabelsOK
  <1>4. OneHeld(Pop(s))
    <2> SUFFICES ASSUME NEW i \in DOMAIN Pop(s), NEW j \in DOMAIN Pop(s),
                        Held(Pop(s)[i].fn, Pop(s)[i].pc), Held(Pop(s)[j].fn, Pop(s)[j].pc)
                 PROVE  i = j
      BY DEF OneHeld
    <2>1. i \in DOMAIN s /\ Pop(s)[i] = s[i] /\ j \in DOMAIN s /\ Pop(s)[j] = s[j]
      BY <1>2
    <2>. QED
      BY <2>1 DEF OneHeld
  <1>5. NoneHeld(s) => NoneHeld(Pop(s))
    BY <1>2 DEF NoneHeld
  <1>. QED
    BY <1>3, <1>4, <1>5

(* One thread's stack becomes s; a thread other than t that does not own *)
(* the mutex after the step did not own it before.                        *)
LEMMA LockUpdate ==
    ASSUME TypeOK, LockInv, NEW t \in Threads, NEW s, LabelsOK(s), OneHeld(s),
           t \notin exited /\ lockOwner' # t => NoneHeld(s),
           \A u \in Threads \ {t} : lockOwner' # u => lockOwner # u,
           stack' = [stack EXCEPT ![t] = s], exited' = exited
    PROVE  LockInv'
  <1>1. \A u \in Threads : stack'[u] = IF u = t THEN s ELSE stack[u]
    BY DEF TypeOK
  <1>2. \A u \in Threads : LabelsOK(stack'[u]) /\ OneHeld(stack'[u])
    BY <1>1 DEF LockInv
  <1>3. \A u \in Threads \ exited' : lockOwner' # u => NoneHeld(stack'[u])
    BY <1>1 DEF LockInv
  <1>. QED
    BY <1>2, <1>3 DEF LockInv

(* SYS_exit: the thread's stack is gone, whatever it held.                *)
LEMMA LockExit ==
    ASSUME TypeOK, LockInv, NEW t \in Threads,
           stack' = [stack EXCEPT ![t] = << >>], exited' = exited \cup {t},
           lockOwner' = lockOwner
    PROVE  LockInv'
  <1>1. \A u \in Threads : stack'[u] = IF u = t THEN << >> ELSE stack[u]
    BY DEF TypeOK
  <1>2. LabelsOK(<< >>) /\ OneHeld(<< >>)
    BY DEF LabelsOK, OneHeld
  <1>. QED
    BY <1>1, <1>2 DEF LockInv

(* The top frame of a running thread is at a label of its function.      *)
LEMMA TopLabel ==
    ASSUME TypeOK, LockInv, NEW t \in Threads, stack[t] # << >>
    PROVE  /\ Top(t) \in Frame /\ Top(t).pc \in LabelsOf(Top(t).fn)
           /\ stack[t] \in Seq(Frame)
  <1>1. Len(stack[t]) \in DOMAIN stack[t] /\ Top(t) \in Frame /\ stack[t] \in Seq(Frame)
    BY TopType DEF TypeOK
  <1>. QED
    BY <1>1 DEF LockInv, LabelsOK, Top

(* The top frame moves to a label of its function and holds the guard    *)
(* afterwards only if it held it before.                                  *)
LEMMA LockGoto ==
    ASSUME TypeOK, LockInv, NEW t \in Threads \ exited, stack[t] # << >>,
           NEW l \in Labels, l \in LabelsOf(Top(t).fn),
           Held(Top(t).fn, l) => Held(Top(t).fn, Top(t).pc),
           Goto(t, l), lockOwner' = lockOwner, exited' = exited
    PROVE  LockInv'
  <1>1. stack[t] \in Seq(Frame) /\ LabelsOK(stack[t]) /\ OneHeld(stack[t])
    BY TopLabel DEF LockInv
  <1>2. /\ LabelsOK(SetPc(stack[t], l)) /\ OneHeld(SetPc(stack[t], l))
        /\ NoneHeld(stack[t]) => NoneHeld(SetPc(stack[t], l))
    BY <1>1, LockSetPc DEF Top
  <1>3. lockOwner # t => NoneHeld(stack[t])
    BY DEF LockInv
  <1>. QED
    BY <1>2, <1>3, LockUpdate DEF Goto

(* As LockGoto, and the top frame calls a function whose first frame     *)
(* does not hold the guard.                                               *)
LEMMA LockCall ==
    ASSUME TypeOK, LockInv, NEW t \in Threads \ exited, stack[t] # << >>,
           NEW l \in Labels, l \in LabelsOf(Top(t).fn),
           Held(Top(t).fn, l) => Held(Top(t).fn, Top(t).pc),
           NEW fr \in Frame, fr.pc \in LabelsOf(fr.fn), ~Held(fr.fn, fr.pc),
           Call(t, l, fr), lockOwner' = lockOwner, exited' = exited
    PROVE  LockInv'
  <1>1. stack[t] \in Seq(Frame) /\ LabelsOK(stack[t]) /\ OneHeld(stack[t])
    BY TopLabel DEF LockInv
  <1>2. /\ SetPc(stack[t], l) \in Seq(Frame)
        /\ LabelsOK(SetPc(stack[t], l)) /\ OneHeld(SetPc(stack[t], l))
        /\ NoneHeld(stack[t]) => NoneHeld(SetPc(stack[t], l))
    BY <1>1, LockSetPc, SetPcProps DEF Top
  <1>3. /\ LabelsOK(Append(SetPc(stack[t], l), fr))
        /\ OneHeld(Append(SetPc(stack[t], l), fr))
        /\ NoneHeld(stack[t]) => NoneHeld(Append(SetPc(stack[t], l), fr))
    BY <1>2, LockPush
  <1>4. lockOwner # t => NoneHeld(stack[t])
    BY DEF LockInv
  <1>. QED
    BY <1>3, <1>4, LockUpdate DEF Call

(* A syscall through rewritten code enters hook_entry.                    *)
LEMMA LockTrap ==
    ASSUME TypeOK, LockInv, NEW t \in Threads \ exited, stack[t] # << >>,
           NEW l \in Labels, l \in LabelsOf(Top(t).fn),
           Held(Top(t).fn, l) => Held(Top(t).fn, Top(t).pc),
           Trap(t, l, "other"), lockOwner' = lockOwner, exited' = exited
    PROVE  LockInv'
  <1>1. "other" \in Sysnos
    BY DEF Sysnos
  <1>2. LET fr == [fn |-> "hook_entry", pc |-> "check", nr |-> "other"]
        IN  fr \in Frame /\ fr.pc \in LabelsOf(fr.fn) /\ ~Held(fr.fn, fr.pc)
    BY <1>1, EntryFrameType DEF LabelsOf, Held
  <1>. QED
    BY <1>2, LockCall DEF Trap

(* The top frame returns.                                                 *)
LEMMA LockReturn ==
    ASSUME TypeOK, LockInv, NEW t \in Threads \ exited, stack[t] # << >>,
           Return(t), lockOwner' = lockOwner, exited' = exited
    PROVE  LockInv'
  <1>1. stack[t] \in Seq(Frame) /\ LabelsOK(stack[t]) /\ OneHeld(stack[t])
    BY TopLabel DEF LockInv
  <1>2. /\ LabelsOK(Pop(stack[t])) /\ OneHeld(Pop(stack[t]))
        /\ NoneHeld(stack[t]) => NoneHeld(Pop(stack[t]))
    BY <1>1, LockPop
  <1>3. lockOwner # t => NoneHeld(stack[t])
    BY DEF LockInv
  <1>. QED
    BY <1>2, <1>3, LockUpdate DEF Return

(* raw_syscall: SYS_exit ends the thread, any other number continues at  *)
(* label l.                                                               *)
LEMMA LockRaw ==
    ASSUME TypeOK, LockInv, NEW t \in Threads \ exited, stack[t] # << >>,
           NEW l \in Labels, l \in LabelsOf(Top(t).fn),
           Held(Top(t).fn, l) => Held(Top(t).fn, Top(t).pc),
           NEW nr, RawSyscall(t, nr, l), lockOwner' = lockOwner
    PROVE  LockInv'
  <1>1. CASE nr = "exit"
    BY <1>1, LockExit DEF RawSyscall
  <1>2. CASE nr # "exit"
    BY <1>2, LockGoto DEF RawSyscall
  <1>. QED
    BY <1>1, <1>2

(* A thread enters the runtime with one frame that does not hold the guard.*)
LEMMA LockEnter ==
    ASSUME TypeOK, LockInv, NEW t \in Threads, NEW fr \in Frame,
           fr.pc \in LabelsOf(fr.fn), ~Held(fr.fn, fr.pc),
           stack' = [stack EXCEPT ![t] = << fr >>], UNCHANGED <<lockOwner, exited>>
    PROVE  LockInv'
  <1>1. DOMAIN << fr >> = {1} /\ << fr >>[1] = fr
    OBVIOUS
  <1>2. LabelsOK(<< fr >>) /\ OneHeld(<< fr >>) /\ NoneHeld(<< fr >>)
    BY <1>1 DEF LabelsOK, OneHeld, NoneHeld
  <1>. QED
    BY <1>2, LockUpdate

LEMMA LockStep == TypeOK /\ LockInv /\ [Next]_vars => LockInv'
  <1> SUFFICES ASSUME TypeOK, LockInv, [Next]_vars PROVE LockInv'
    OBVIOUS
  <1>0. /\ "ret" \in Labels /\ "raw" \in Labels /\ "unlock" \in Labels
        /\ "lock" \in Labels /\ "assign" \in Labels
    BY DEF Labels
  <1>1. ASSUME NEW t \in Threads, AppSyscall(t) PROVE LockInv'
    <2>1. PICK nr \in AppSysnos :
             stack' = [stack EXCEPT ![t] = << [fn |-> "hook_entry", pc |-> "check", nr |-> nr] >>]
      BY <1>1 DEF AppSyscall
    <2>2. [fn |-> "hook_entry", pc |-> "check", nr |-> nr] \in Frame
      BY ConstAssumption, EntryFrameType DEF Sysnos
    <2>. QED
      BY <1>1, <2>1, <2>2, LockEnter DEF AppSyscall, LabelsOf, Held
  <1>2. ASSUME NEW t \in Threads, HookInit(t) PROVE LockInv'
    BY <1>2 DEF HookInit, LockInv
  <1>3. ASSUME NEW t \in Threads, AppRegister(t) PROVE LockInv'
    <2>1. [fn |-> "register_syscall_hooks", pc |-> "lock", nr |-> "other"] \in Frame
      BY DEF Frame, FnNames, Labels, Sysnos
    <2>. QED
      BY <1>3, <2>1, LockEnter DEF AppRegister, LabelsOf, Held
  <1>4. ASSUME NEW t \in Threads, EntryCheck(t) PROVE LockInv'
    <2>1. t \in Threads \ exited /\ stack[t] # << >> /\ Top(t).fn = "hook_entry"
      BY <1>4 DEF EntryCheck, Running, At
    <2>2. {"raw", "load"} \subseteq Labels \cap LabelsOf(Top(t).fn)
      BY <2>1 DEF Labels, LabelsOf
    <2>3. ~Held(Top(t).fn, "raw") /\ ~Held(Top(t).fn, "load")
      BY <2>1 DEF Held
    <2>. QED
      BY <1>4, <2>1, <2>2, <2>3, LockGoto DEF EntryCheck
  <1>5. ASSUME NEW t \in Threads, EntryRaw(t) PROVE LockInv'
    <2>1. t \in Threads \ exited /\ stack[t] # << >> /\ Top(t).fn = "hook_entry"
      BY <1>5 DEF EntryRaw, Running, At
    <2>2. "ret" \in LabelsOf(Top(t).fn) /\ ~Held(Top(t).fn, "ret")
      BY <2>1 DEF LabelsOf, Held
    <2>. QED
      BY <1>0, <1>5, <2>1, <2>2, LockRaw DEF EntryRaw
  <1>6. ASSUME NEW t \in Threads, EntryLoad(t) PROVE LockInv'
    <2>1. t \in Threads \ exited /\ stack[t] # << >> /\ Top(t).fn = "hook_entry"
      BY <1>6 DEF EntryLoad, Running, At
    <2>2. "clear" \in Labels \cap LabelsOf(Top(t).fn) /\ ~Held(Top(t).fn, "clear")
      BY <2>1 DEF Labels, LabelsOf, Held
    <2>3. LET fr == [fn |-> hookFn, pc |-> HookStart[hookFn], nr |-> Top(t).nr]
          IN  fr \in Frame /\ fr.pc \in LabelsOf(fr.fn) /\ ~Held(fr.fn, fr.pc)
      <3>1. Top(t) \in Frame
        BY <2>1, TopType
      <3>. QED
        BY <3>1 DEF TypeOK, Frame, HookStart, HookFns, FnNames, Labels, LabelsOf, Held
    <2>. QED
      BY <1>6, <2>1, <2>2, <2>3, LockCall DEF EntryLoad
  <1>7. ASSUME NEW t \in Threads, EntryClear(t) PROVE LockInv'
    BY <1>7, LockReturn DEF EntryClear, Running, At
  <1>8. ASSUME NEW t \in Threads, FrameReturn(t) PROVE LockInv'
    BY <1>8, LockReturn DEF FrameReturn, At
  <1>9. ASSUME NEW t \in Threads, HookPrint(t) PROVE LockInv'
    <2>1. t \in Threads \ exited /\ stack[t] # << >> /\ Top(t).pc = "print"
      BY <1>9 DEF HookPrint, Running, At
    <2>2. Top(t).fn = "trace_hook"
      <3>1. Top(t) \in Frame /\ Top(t).pc \in LabelsOf(Top(t).fn)
        BY <2>1, TopLabel
      <3>. QED
        BY <2>1, <3>1 DEF Frame, FnNames, HookFns, LabelsOf
    <2>3. "raw" \in LabelsOf(Top(t).fn) /\ ~Held(Top(t).fn, "raw")
      BY <2>2 DEF LabelsOf, Held
    <2>. QED
      BY <1>0, <1>9, <2>1, <2>3, LockTrap DEF HookPrint
  <1>10. ASSUME NEW t \in Threads, HookRaw(t) PROVE LockInv'
    <2>1. t \in Threads \ exited /\ stack[t] # << >>
          /\ Top(t).fn \in {"default_hook", "trace_hook"}
      BY <1>10 DEF HookRaw, Running, At
    <2>2. "ret" \in LabelsOf(Top(t).fn) /\ ~Held(Top(t).fn, "ret")
      BY <2>1 DEF LabelsOf, Held
    <2>. QED
      BY <1>0, <1>10, <2>1, <2>2, LockRaw DEF HookRaw
  <1>11. ASSUME NEW t \in Threads, MutexLock(t) PROVE LockInv'
    <2>1. t \in Threads \ exited /\ stack[t] # << >> /\ Top(t).pc = "lock"
      BY <1>11 DEF MutexLock, Running, At
    <2>2. Top(t).fn \in {"trait_based_hook", "register_syscall_hooks"}
      <3>1. Top(t) \in Frame /\ Top(t).pc \in LabelsOf(Top(t).fn)
        BY <2>1, TopLabel
      <3>. QED
        BY <2>1, <3>1 DEF Frame, FnNames, HookFns, LabelsOf
    <2>3. CASE lockOwner = NoThread
      <3> DEFINE l == LockNext(Top(t).fn)
      <3>1. l \in Labels /\ l \in LabelsOf(Top(t).fn)
        BY <2>2 DEF LockNext, Labels, LabelsOf
      <3>2. stack[t] \in Seq(Frame) /\ LabelsOK(stack[t]) /\ NoneHeld(stack[t])
        BY <2>1, <2>3, ConstAssumption, TopLabel DEF LockInv
      <3>3. LabelsOK(SetPc(stack[t], l)) /\ OneHeld(SetPc(stack[t], l))
        BY <2>1, <3>1, <3>2, LockAcquire DEF Top
      <3>4. /\ lockOwner' = t /\ exited' = exited
            /\ stack' = [stack EXCEPT ![t] = SetPc(stack[t], l)]
        BY <1>11, <2>3 DEF MutexLock, Goto
      <3>5. \A u \in Threads \ {t} : lockOwner' # u => lockOwner # u
        BY <2>3, ConstAssumption
      <3>. QED
        BY <2>1, <3>3, <3>4, <3>5, LockUpdate
    <2>4. CASE lockOwner # NoThread
      <3>1. "lock" \in LabelsOf(Top(t).fn)
        BY <2>2 DEF LabelsOf
      <3>. QED
        BY <1>0, <1>11, <2>1, <2>4, <3>1, LockTrap DEF MutexLock
    <2>. QED
      BY <2>3, <2>4
  <1>12. ASSUME NEW t \in Threads, TraitDispatch(t) PROVE LockInv'
    <2>1. /\ t \in Threads \ exited /\ stack[t] # << >>
          /\ Top(t).fn = "trait_based_hook" /\ Top(t).pc = "dispatch"
      BY <1>12 DEF TraitDispatch, Running, At
    <2>2. \A l \in {"method", "raw"} :
             l \in Labels /\ l \in LabelsOf(Top(t).fn) /\ Held(Top(t).fn, Top(t).pc)
      BY <2>1 DEF Labels, LabelsOf, Held
    <2>. QED
      BY <1>12, <2>1, <2>2, LockGoto DEF TraitDispatch
  <1>13. ASSUME NEW t \in Threads, TraitMethod(t) PROVE LockInv'
    <2>1. /\ t \in Threads \ exited /\ stack[t] # << >>
          /\ Top(t).fn = "trait_based_hook" /\ Top(t).pc = "method"
      BY <1>13 DEF TraitMethod, Running, At
    <2>2. "raw" \in LabelsOf(Top(t).fn) /\ Held(Top(t).fn, Top(t).pc)
      BY <2>1 DEF LabelsOf, Held
    <2>. QED
      BY <1>0, <1>13, <2>1, <2>2, LockGoto, LockTrap DEF TraitMethod
  <1>14. ASSUME NEW t \in Threads, TraitRaw(t) PROVE LockInv'
    <2>1. /\ t \in Threads \ exited /\ stack[t] # << >>
          /\ Top(t).fn = "trait_based_hook" /\ Top(t).pc = "raw"
      BY <1>14 DEF TraitRaw, Running, At
    <2>2. "unlock" \in LabelsOf(Top(t).fn) /\ Held(Top(t).fn, Top(t).pc)
      BY <2>1 DEF LabelsOf, Held
    <2>. QED
      BY <1>0, <1>14, <2>1, <2>2, LockRaw DEF TraitRaw
  <1>15. ASSUME NEW t \in Threads, MutexUnlock(t) PROVE LockInv'
    <2>1. t \in Threads \ exited /\ stack[t] # << >> /\ Top(t).pc = "unlock"
      BY <1>15 DEF MutexUnlock, Running, At
    <2>2. Top(t).fn \in {"trait_based_hook", "register_syscall_hooks"}
      <3>1. Top(t) \in Frame /\ Top(t).pc \in LabelsOf(Top(t).fn)
        BY <2>1, TopLabel
      <3>. QED
        BY <2>1, <3>1 DEF Frame, FnNames, HookFns, LabelsOf
    <2> DEFINE l == UnlockNext(Top(t).fn)
               u == SetPc(stack[t], l)
    <2>3. l \in Labels /\ l \in LabelsOf(Top(t).fn) /\ ~Held(Top(t).fn, l)
      BY <2>2 DEF UnlockNext, Labels, LabelsOf, Held
    <2>4. stack[t] \in Seq(Frame) /\ LabelsOK(stack[t]) /\ OneHeld(stack[t])
      BY <2>1, TopLabel DEF LockInv
    <2>5. Held(Top(t).fn, Top(t).pc)
      BY <2>1 DEF Held
    <2>6. lockOwner = t
      <3>1. Len(stack[t]) \in DOMAIN stack[t]
        BY <2>1, <2>4, EmptySeq, LenProperties
      <3>. QED
        BY <2>1, <2>5, <3>1 DEF LockInv, NoneHeld, Top
    <2>7. LabelsOK(u) /\ NoneHeld(u) /\ OneHeld(u) /\ u \in Seq(Frame)
      BY <2>1, <2>3, <2>4, <2>5, LockRelease, SetPcProps DEF Top
    <2>8. \A v \in Threads \ {t} : lockOwner' # v => lockOwner # v
      BY <2>6
    <2>9. exited' = exited
      BY <1>15 DEF MutexUnlock
    <2>10. CASE Goto(t, l)
      BY <2>7, <2>8, <2>9, <2>10, LockUpdate DEF Goto
    <2>11. CASE Trap(t, l, "other")
      <3>1. LET fr == [fn |-> "hook_entry", pc |-> "check", nr |-> "other"]
            IN  fr \in Frame /\ fr.pc \in LabelsOf(fr.fn) /\ ~Held(fr.fn, fr.pc)
        BY EntryFrameType DEF Sysnos, LabelsOf, Held
      <3>2. LET fr == [fn |-> "hook_entry", pc |-> "check", nr |-> "other"]
            IN  /\ LabelsOK(Append(u, fr)) /\ OneHeld(Append(u, fr))
                /\ NoneHeld(Append(u, fr))
                /\ stack' = [stack EXCEPT ![t] = Append(u, fr)]
        BY <2>7, <2>11, <3>1, LockPush DEF Trap, Call
      <3>. QED
        BY <2>8, <2>9, <3>2, LockUpdate
    <2>. QED
      BY <1>15, <2>10, <2>11 DEF MutexUnlock
  <1>16. ASSUME NEW t \in Threads, RegisterStore(t) PROVE LockInv'
    <2>1. /\ t \in Threads \ exited /\ stack[t] # << >>
          /\ Top(t).fn = "register_syscall_hooks" /\ Top(t).pc = "store"
      BY <1>16 DEF RegisterStore, Running, At
    <2>2. "assign" \in LabelsOf(Top(t).fn) /\ Held(Top(t).fn, Top(t).pc)
      BY <2>1 DEF LabelsOf, Held
    <2>. QED
      BY <1>0, <1>16, <2>1, <2>2, LockGoto, LockTrap DEF RegisterStore
  <1>17. ASSUME NEW t \in Threads, RegisterAssign(t) PROVE LockInv'
    <2>1. /\ t \in Threads \ exited /\ stack[t] # << >>
          /\ Top(t).fn = "register_syscall_hooks" /\ Top(t).pc = "assign"
      BY <1>17 DEF RegisterAssign, Running, At
    <2>2. "unlock" \in LabelsOf(Top(t).fn) /\ Held(Top(t).fn, Top(t).pc)
      BY <2>1 DEF LabelsOf, Held
    <2>. QED
      BY <1>0, <1>17, <2>1, <2>2, LockGoto DEF RegisterAssign
  <1>18. ASSUME NEW t \in Threads, RegisterInit(t) PROVE LockInv'
    BY <1>18, LockReturn DEF RegisterInit, Running, At
  <1>19. CASE Terminated \/ UNCHANGED vars
    BY <1>19 DEF Terminated, vars, LockInv
  <1>. QED
    BY <1>1, <1>2, <1>3, <1>4, <1>5, <1>6, <1>7, <1>8, <1>9, <1>10, <1>11,
       <1>12, <1>13, <1>14, <1>15, <1>16, <1>17, <1>18, <1>19 DEF Next

(* Every frame of every thread is at a label of its function, a thread   *)
(* runs with the MutexGuard of HOOK_TRAIT_OBJECT in at most one frame, and *)
(* a live thread that does so owns the mutex: the mutual exclusion of      *)
(* trait_based_hook and register_syscall_hooks (lib.rs:214-216, 232-246),  *)
(* for every number of threads and every stack bound.                     *)
THEOREM LockInvariant == Spec => []LockInv
  <1>1. Init => LockInv
    BY DEF Init, LockInv, LabelsOK, OneHeld, NoneHeld
  <1>. QED
    BY <1>1, LockStep, TypeCorrect, PTL DEF Spec

=============================================================================
