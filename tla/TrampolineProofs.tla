------------------------- MODULE TrampolineProofs --------------------------
(***************************************************************************)
(* Machine-checked proofs about the VA-0 trampoline (Trampoline.tla): for  *)
(* every sled length, stack pointer, site, hook_entry address and register *)
(* contents, and for every syscall number below MAX_SYSCALL_NR, the stub  *)
(* hands hook_entry the register record of the site and returns with the  *)
(* record's registers, the hook's result and the caller's frame.          *)
(*                                                                         *)
(* The argument is a symbolic execution of the straight-line stub: the    *)
(* inductive invariant TrampInv fixes, for each instruction of StubCode,   *)
(* how far %rsp is below its value at the site, which slots hold what was  *)
(* pushed, and which registers still hold their values at the site.       *)
(***************************************************************************)
EXTENDS Trampoline, TLAPS

(* The numbers the sled covers.                                           *)
NrsInSled == Nrs \subseteq 0..(MAX_SYSCALL_NR - 1)

(* The registers at the site.                                             *)
R0 == [r \in RegNames |-> CASE r = "rax" -> nr0
                            [] r = "rsp" -> rsp0
                            [] OTHER     -> Orig[r]]

(* The registers the seven pushes save, in the order they are pushed.     *)
PV == <<"r9", "r8", "r10", "rdx", "rsi", "rdi", "rax">>

(* How far below rsp0 %rsp is when instruction k of the stub is next.     *)
Depth == <<8, 16, 24, 32, 40, 48, 56, 64, 72, 72, 72, 72, 64, 56, 48, 40,
           32, 24, 16, 8>>

FrameIntact == \A a \in Slots : a >= rsp0 => mem[a] = Frame

(* Before hook_entry: instruction k (1..11) is next, or the sled runs.    *)
PreState(k) ==
    /\ hooked = <<>>
    /\ regs["rsp"] = rsp0 - Depth[k]
    /\ mem[rsp0 - 8] = Site + 2
    /\ \A j \in 1..7 : j < k => mem[rsp0 - 8 - 8 * j] = R0[PV[j]]
    /\ \A r \in RegNames \ {"rsp"} :
          regs[r] = CASE r = "rdi" /\ k >= 10 -> rsp0 - 64
                      [] r = "r11" /\ k >= 11 -> HookEntryAddr
                      [] OTHER                -> R0[r]

(* On entry to hook_entry.                                                *)
HookState ==
    /\ rip = HookEntryAddr
    /\ hooked = <<>>
    /\ regs["rsp"] = rsp0 - 80
    /\ regs["rdi"] = rsp0 - 64
    /\ mem[rsp0 - 8] = Site + 2
    /\ mem[rsp0 - 80] = Addr(12)
    /\ \A j \in 1..7 : mem[rsp0 - 8 - 8 * j] = R0[PV[j]]

(* After hook_entry: instruction k (12..20) is next.                       *)
PostState(k) ==
    /\ rip = Addr(k)
    /\ hooked \in [1..7 -> Int]
    /\ regs["rsp"] = rsp0 - Depth[k]
    /\ regs["rax"] = Result
    /\ mem[rsp0 - 8] = Site + 2
    /\ \A f \in 1..7 : mem[rsp0 - 64 + 8 * (f - 1)] = hooked[f]
    /\ \A f \in 2..7 : f <= k - 13 => regs[Fields[f]] = hooked[f]

(* Back at the instruction after the site.                                *)
DoneState ==
    /\ rip = Site + 2
    /\ hooked \in [1..7 -> Int]
    /\ regs["rsp"] = rsp0
    /\ regs["rax"] = Result
    /\ \A f \in 2..7 : regs[Fields[f]] = hooked[f]

TrampInv ==
    /\ TypeOK
    /\ status = "run"
    /\ FrameIntact
    /\ \/ rip = Site /\ hooked = <<>> /\ regs = R0
       \/ rip \in Sled /\ PreState(1)
       \/ \E k \in 1..11 : rip = Addr(k) /\ PreState(k)
       \/ HookState
       \/ \E k \in 12..20 : PostState(k)
       \/ DoneState

-----------------------------------------------------------------------------
(* Facts about the constants.                                             *)

(* The sled length is a positive natural.                               *)
LEMMA MaxNat == MAX_SYSCALL_NR \in Nat \ {0}
BY TrampolineAssumption

(* The offsets of the stub's instructions are distinct and below 50.      *)
LEMMA StubOffsets ==
    /\ \A k \in 1..20 : StubCode[k].off \in 0..49
    /\ \A i, j \in 1..20 : StubCode[i].off = StubCode[j].off => i = j
    /\ StubCode[1].off = 0
BY DEF StubCode, I

(* The mapping covers the sled and the stub.                              *)
LEMMA MappedCovers == MappedLen \in Nat /\ MappedLen >= MAX_SYSCALL_NR + 4096
BY MaxNat DEF MappedLen, TRAMPOLINE_SIZE, PageSize

(* The stub lies in the mapping, past the sled; the site, its successor   *)
(* and hook_entry lie outside the mapping.                                *)
LEMMA Layout ==
    ASSUME NEW k \in 1..20
    PROVE  /\ Addr(k) \in (MAX_SYSCALL_NR)..(MAX_SYSCALL_NR + 49)
           /\ Addr(k) \notin Sled
           /\ Addr(k) \notin {Site, Site + 2, HookEntryAddr}
<1>1. StubCode[k].off \in 0..49
  BY StubOffsets
<1>2. Addr(k) \in (MAX_SYSCALL_NR)..(MAX_SYSCALL_NR + 49)
  BY <1>1, MaxNat DEF Addr
<1>3. {Site, Site + 2, HookEntryAddr} \cap (0..(MappedLen - 1)) = {}
  BY TrampolineAssumption
<1>4. Addr(k) \in 0..(MappedLen - 1)
  BY <1>2, MappedCovers, MaxNat
<1>5. Addr(k) \notin {Site, Site + 2, HookEntryAddr}
  BY <1>3, <1>4
<1>6. Addr(k) \notin Sled
  BY <1>2, MaxNat DEF Sled
<1>. QED
  BY <1>2, <1>5, <1>6

(* The site, its successor and hook_entry are not in the sled.            *)
LEMMA SledApart == \A a \in Sled : a \notin {Site, Site + 2, HookEntryAddr}
<1>1. {Site, Site + 2, HookEntryAddr} \cap (0..(MappedLen - 1)) = {}
  BY TrampolineAssumption
<1>2. Sled \subseteq 0..(MappedLen - 1)
  BY MappedCovers, MaxNat DEF Sled
<1>. QED
  BY <1>1, <1>2

(* Distinct instructions of the stub have distinct addresses.            *)
LEMMA AddrInjective ==
    ASSUME NEW i \in 1..20, NEW j \in 1..20, Addr(i) = Addr(j)
    PROVE  i = j
<1>0. StubCode[i].off \in 0..49 /\ StubCode[j].off \in 0..49
  BY StubOffsets
<1>1. MAX_SYSCALL_NR + StubCode[i].off = MAX_SYSCALL_NR + StubCode[j].off
  BY DEF Addr
<1>2. StubCode[i].off = StubCode[j].off
  BY <1>0, <1>1, MaxNat
<1>. QED
  BY <1>2, StubOffsets

(* The slots the stub and hook_entry use lie in Slots.                    *)
LEMMA SlotBelow ==
    ASSUME NEW r \in Rsps, NEW j \in 0..24
    PROVE  r - 8 * j \in Slots
<1>1. -j \in -24..1
  OBVIOUS
<1>2. r \in Int
  BY TrampolineAssumption
<1>3. r - 8 * j \in {r + 8 * i : i \in -24..1}
  BY <1>1, <1>2
<1>4. {r + 8 * i : i \in -24..1} \in {{x + 8 * i : i \in -24..1} : x \in Rsps}
  OBVIOUS
<1>. QED
  BY <1>3, <1>4 DEF Slots

LEMMA SlotsInt == Slots \subseteq Int
<1>1. ASSUME NEW a \in Slots PROVE a \in Int
  <2>1. PICK S \in {{r + 8 * k : k \in -24..1} : r \in Rsps} : a \in S
    BY DEF Slots
  <2>2. PICK r \in Rsps : S = {r + 8 * k : k \in -24..1}
    BY <2>1
  <2>3. r \in Int
    BY TrampolineAssumption
  <2>. QED
    BY <2>1, <2>2, <2>3
<1>. QED
  BY <1>1

LEMMA SlotsBelow == \A r \in Rsps, j \in 0..24 : r - 8 * j \in Slots
BY SlotBelow

(* Writing an integer to a register or a slot keeps the types.            *)
LEMMA RegsUpd ==
    ASSUME NEW f \in [RegNames -> Int], NEW r, NEW x \in Int
    PROVE  [f EXCEPT ![r] = x] \in [RegNames -> Int]
OBVIOUS

LEMMA MemUpd ==
    ASSUME NEW f \in [Slots -> Int], NEW a, NEW x \in Int
    PROVE  [f EXCEPT ![a] = x] \in [Slots -> Int]
OBVIOUS

(* Which instructions of the stub have which kind.                       *)
LEMMA StubOps ==
    ASSUME NEW i \in 1..20
    PROVE  /\ StubCode[i].op = "push"   <=> i \in 1..7
           /\ StubCode[i].op = "add"    <=> i \in {8, 12, 13}
           /\ StubCode[i].op = "lea"    <=> i = 9
           /\ StubCode[i].op = "movabs" <=> i = 10
           /\ StubCode[i].op = "call"   <=> i = 11
           /\ StubCode[i].op = "pop"    <=> i \in 14..19
           /\ StubCode[i].op = "ret"    <=> i = 20
BY DEF StubCode, I

-----------------------------------------------------------------------------
(* The control point determines the state: lemmas that read TrampInv at   *)
(* a given rip.                                                          *)

(* The addresses of the five kinds of control point are distinct.        *)
LEMMA Apart ==
    /\ Site # HookEntryAddr /\ Site + 2 # HookEntryAddr /\ Site # Site + 2
    /\ \A k \in 1..20 : Addr(k) \notin {Site, Site + 2, HookEntryAddr} \cup Sled
    /\ \A a \in Sled : a \notin {Site, Site + 2, HookEntryAddr}
BY Layout, SledApart, TrampolineAssumption

LEMMA SiteAt ==
    ASSUME TrampInv, rip = Site
    PROVE  hooked = <<>> /\ regs = R0
BY Apart DEF TrampInv, PreState, HookState, PostState, DoneState

LEMMA SledAt ==
    ASSUME TrampInv, rip \in Sled
    PROVE  PreState(1)
BY Apart DEF TrampInv, HookState, PostState, DoneState

LEMMA PreAt ==
    ASSUME TrampInv, NEW k \in 1..11, rip = Addr(k)
    PROVE  PreState(k)
<1>1. ASSUME NEW j \in 12..20, PostState(j) PROVE FALSE
  <2>1. j \in 1..20 /\ k \in 1..20 /\ j # k
    OBVIOUS
  <2>2. Addr(j) = Addr(k)
    BY <1>1 DEF PostState
  <2>. QED
    BY <2>1, <2>2, AddrInjective
<1>2. ASSUME NEW j \in 1..11, rip = Addr(j) PROVE j = k
  <2>1. j \in 1..20 /\ k \in 1..20
    OBVIOUS
  <2>. QED
    BY <1>2, <2>1, AddrInjective
<1>. QED
  BY <1>1, <1>2, Apart DEF TrampInv, HookState, DoneState

LEMMA HookAt ==
    ASSUME TrampInv, rip = HookEntryAddr
    PROVE  HookState
BY Apart DEF TrampInv, PostState, DoneState

LEMMA PostAt ==
    ASSUME TrampInv, NEW k \in 12..20, rip = Addr(k)
    PROVE  PostState(k)
<1>1. ASSUME NEW j \in 12..20, PostState(j) PROVE j = k
  <2>1. j \in 1..20 /\ k \in 1..20
    OBVIOUS
  <2>2. Addr(j) = Addr(k)
    BY <1>1 DEF PostState
  <2>. QED
    BY <2>1, <2>2, AddrInjective
<1>2. ASSUME NEW j \in 1..11, rip = Addr(j) PROVE FALSE
  <2>1. j \in 1..20 /\ k \in 1..20 /\ j # k
    OBVIOUS
  <2>. QED
    BY <1>2, <2>1, AddrInjective
<1>. QED
  BY <1>1, <1>2, Apart DEF TrampInv, HookState, DoneState

-----------------------------------------------------------------------------
(* The initial state, and the steps that do not run the stub.            *)

(* The registers at the site are integers.                                *)
LEMMA R0Type ==
    ASSUME NEW n \in Nrs, NEW s \in Rsps
    PROVE  [r \in RegNames |-> CASE r = "rax" -> n
                             [] r = "rsp" -> s
                             [] OTHER     -> Orig[r]] \in [RegNames -> Int]
<1>1. n \in Int /\ s \in Int /\ Orig \in [Saved -> Int]
  BY TrampolineAssumption
<1>. QED
  BY <1>1 DEF RegNames

LEMMA TrampInit == Init => TrampInv
<1> SUFFICES ASSUME Init PROVE TrampInv
  OBVIOUS
<1>1. regs = R0
  BY DEF Init, R0
<1>2. regs \in [RegNames -> Int]
  BY R0Type DEF Init
<1>3. mem \in [Slots -> Int]
  BY TrampolineAssumption DEF Init
<1>4. rip \in Int
  BY TrampolineAssumption DEF Init
<1>5. TypeOK
  BY <1>2, <1>3, <1>4 DEF Init, TypeOK
<1>6. FrameIntact
  BY DEF Init, FrameIntact
<1>. QED
  BY <1>1, <1>5, <1>6 DEF Init, TrampInv

(* callq *%rax at the site: the return address is pushed, the sled is    *)
(* entered at the syscall number.                                         *)
LEMMA CallqStep ==
    ASSUME TrampInv, InSled, Callq
    PROVE  TrampInv'
<1>1. hooked = <<>> /\ regs = R0
  BY SiteAt DEF Callq
<1>2. regs["rsp"] = rsp0 /\ regs["rax"] = nr0
  BY <1>1 DEF R0, RegNames
<1>3. rsp0 - 8 \in Slots /\ rsp0 \in Int
  <2>1. rsp0 \in Rsps
    BY DEF TrampInv, TypeOK
  <2>2. rsp0 - 8 * 1 \in Slots
    BY <2>1, SlotBelow
  <2>3. rsp0 \in Int
    BY <2>1, TrampolineAssumption
  <2>. QED
    BY <2>2, <2>3
<1>4. mem' = [mem EXCEPT ![rsp0 - 8] = Site + 2]
  BY <1>2 DEF Callq, Push
<1>5. regs' = [regs EXCEPT !["rsp"] = rsp0 - 8]
  BY <1>2 DEF Callq
<1>6. rip' \in Sled
  <2>1. nr0 \in Nat
    BY TrampolineAssumption DEF TrampInv, TypeOK
  <2>. QED
    BY <1>2, <2>1, MaxNat DEF Callq, InSled, Sled
<1>7. TypeOK'
  <2>1. regs' \in [RegNames -> Int]
    BY <1>3, <1>5, RegsUpd DEF TrampInv, TypeOK
  <2>2. mem' \in [Slots -> Int]
    BY <1>4, MemUpd, TrampolineAssumption DEF TrampInv, TypeOK
  <2>3. rip' \in Int
    BY <1>6, MaxNat DEF Sled
  <2>. QED
    BY <2>1, <2>2, <2>3 DEF Callq, TrampInv, TypeOK
<1>8. FrameIntact'
  <2>1. mem \in [Slots -> Int]
    BY DEF TrampInv, TypeOK
  <2>2. ASSUME NEW a \in Slots, a >= rsp0 PROVE mem'[a] = mem[a]
    BY <1>3, <1>4, <2>1, <2>2
  <2>. QED
    BY <2>2 DEF Callq, TrampInv, FrameIntact
<1>9. PreState(1)'
  <2>1. mem \in [Slots -> Int] /\ regs \in [RegNames -> Int]
    BY DEF TrampInv, TypeOK
  <2>2. hooked' = <<>> /\ nr0' = nr0 /\ rsp0' = rsp0
    BY <1>1 DEF Callq
  <2>3. regs'["rsp"] = rsp0 - Depth[1]
    BY <1>3, <1>5, <2>1 DEF Depth, RegNames
  <2>4. mem'[rsp0 - 8] = Site + 2
    BY <1>3, <1>4, <2>1
  <2>5. ASSUME NEW r \in RegNames \ {"rsp"}
        PROVE  regs'[r] = CASE r = "rdi" /\ 1 >= 10 -> rsp0 - 64
                            [] r = "r11" /\ 1 >= 11 -> HookEntryAddr
                            [] OTHER                -> R0[r]
    BY <1>1, <1>5, <2>1
  <2>6. R0' = R0
    BY <2>2 DEF R0
  <2>. QED
    BY <2>2, <2>3, <2>4, <2>5, <2>6 DEF PreState
<1>. QED
  BY <1>6, <1>7, <1>8, <1>9 DEF TrampInv, Callq

(* One nop of the sled: the sled continues, or the stub's first push is  *)
(* next.                                                                  *)
LEMMA SledNopStep ==
    ASSUME TrampInv, SledNop
    PROVE  TrampInv'
<1>1. PreState(1) /\ PreState(1)'
  BY SledAt DEF SledNop, PreState, R0
<1>2. rip' \in Sled \/ rip' = Addr(1)
  BY MaxNat, StubOffsets DEF SledNop, Sled, Addr
<1>3. TypeOK' /\ FrameIntact'
  BY DEF SledNop, TrampInv, TypeOK, FrameIntact
<1>. QED
  BY <1>1, <1>2, <1>3 DEF TrampInv, SledNop

(* Every control point the invariant allows is an instruction start.     *)
LEMMA NoStray ==
    ASSUME TrampInv
    PROVE  rip \in Decodable
<1>1. \A k \in 1..20 : Addr(k) \in Decodable
  BY DEF Decodable, StubIdx, StubCode
<1>2. {Site, Site + 2, HookEntryAddr} \cup Sled \subseteq Decodable
  BY DEF Decodable
<1>3. \/ rip \in {Site, Site + 2, HookEntryAddr} \cup Sled
      \/ \E k \in 1..20 : rip = Addr(k)
  <2>1. ASSUME NEW k \in 12..20, PostState(k) PROVE \E j \in 1..20 : rip = Addr(j)
    <3>1. k \in 1..20
      OBVIOUS
    <3>. QED
      BY <2>1, <3>1 DEF PostState
  <2>2. ASSUME NEW k \in 1..11, rip = Addr(k) PROVE \E j \in 1..20 : rip = Addr(j)
    <3>1. k \in 1..20
      OBVIOUS
    <3>. QED
      BY <2>2, <3>1
  <2>. QED
    BY <2>1, <2>2 DEF TrampInv, HookState, DoneState
<1>. QED
  BY <1>1, <1>2, <1>3

LEMMA OtherStep ==
    ASSUME TrampInv, Stray \/ Done \/ UNCHANGED vars
    PROVE  TrampInv'
<1>1. ~Stray
  BY NoStray DEF Stray
<1>2. UNCHANGED vars
  BY <1>1 DEF Done
<1>3. TypeOK' /\ FrameIntact'
  BY <1>2 DEF vars, TrampInv, TypeOK, FrameIntact
<1>4. R0' = R0
  BY <1>2 DEF vars, R0
<1>5. \A k \in 1..20 : PreState(k)' <=> PreState(k)
  BY <1>2, <1>4 DEF vars, PreState
<1>6. \A k \in 1..20 : PostState(k)' <=> PostState(k)
  BY <1>2 DEF vars, PostState
<1>7. (HookState' <=> HookState) /\ (DoneState' <=> DoneState)
  BY <1>2, <1>4 DEF vars, HookState, DoneState
<1>8. status' = status /\ rip' = rip /\ regs' = regs /\ hooked' = hooked
  BY <1>2 DEF vars
<1>. QED
  BY <1>3, <1>4, <1>5, <1>6, <1>7, <1>8 DEF TrampInv

-----------------------------------------------------------------------------
(* Helpers for the steps of the stub.                                     *)

LEMMA StubIdxIs == StubIdx = 1..20
BY DEF StubIdx, StubCode

(* The register each push saves and each pop restores.                    *)
LEMMA StubRegs ==
    /\ \A i \in 1..7 : StubCode[i].r = PV[i]
    /\ \A i \in 14..19 : StubCode[i].r = Fields[i - 12]
    /\ StubCode[8].r = "rsp" /\ StubCode[8].n = -8
    /\ StubCode[12].r = "rsp" /\ StubCode[12].n = 8
    /\ StubCode[13].r = "rsp" /\ StubCode[13].n = 8
    /\ StubCode[9].r = "rdi" /\ StubCode[9].n = 8
    /\ StubCode[10].r = "r11" /\ StubCode[11].r = "r11"
BY DEF StubCode, I, PV, Fields

LEMMA DepthVals ==
    /\ \A k \in 1..9 : Depth[k] = 8 * k
    /\ Depth[10] = 72 /\ Depth[11] = 72 /\ Depth[12] = 72
    /\ \A k \in 12..20 : Depth[k] = 168 - 8 * k
BY DEF Depth

LEMMA R0Unchanged ==
    ASSUME nr0' = nr0, rsp0' = rsp0
    PROVE  R0' = R0
BY DEF R0

(* TypeOK after a step that keeps status and the history.                 *)
LEMMA TypeNext ==
    ASSUME TrampInv, rip' \in Int, regs' \in [RegNames -> Int],
           mem' \in [Slots -> Int], status' = status, nr0' = nr0,
           rsp0' = rsp0, hooked' \in {<<>>} \cup [1..7 -> Int]
    PROVE  TypeOK' /\ status' = "run"
BY DEF TrampInv, TypeOK

(* Writing an integer below rsp0 keeps the types and the caller's frame.  *)
LEMMA WriteBelow ==
    ASSUME TrampInv, NEW a \in Slots, NEW v \in Int, a < rsp0,
           mem' = [mem EXCEPT ![a] = v], rsp0' = rsp0
    PROVE  mem' \in [Slots -> Int] /\ FrameIntact'
<1>1. mem \in [Slots -> Int] /\ rsp0 \in Int
  BY TrampolineAssumption DEF TrampInv, TypeOK
<1>2. mem' \in [Slots -> Int]
  BY <1>1, MemUpd
<1>3. ASSUME NEW b \in Slots, b >= rsp0' PROVE mem'[b] = Frame
  BY <1>1, <1>3 DEF TrampInv, FrameIntact
<1>. QED
  BY <1>2, <1>3 DEF FrameIntact

LEMMA KeepMem ==
    ASSUME TrampInv, mem' = mem, rsp0' = rsp0
    PROVE  mem' \in [Slots -> Int] /\ FrameIntact'
BY DEF TrampInv, TypeOK, FrameIntact

(* The registers at the site, as a function.                              *)
LEMMA R0Int ==
    ASSUME TrampInv
    PROVE  R0 \in [RegNames -> Int]
BY R0Type DEF TrampInv, TypeOK, R0

(* push r (instructions 1..7): the next slot below receives r.            *)
LEMMA PushStep ==
    ASSUME TrampInv, StubPush
    PROVE  TrampInv'
<1>1. PICK i \in StubIdx :
        /\ AtStub(i, "push")
        /\ Push(regs[StubCode[i].r])
        /\ regs' = [regs EXCEPT !["rsp"] = @ - 8]
        /\ rip' = Addr(i + 1)
        /\ UNCHANGED <<status, nr0, rsp0, hooked>>
  BY DEF StubPush
<1>2. i \in 1..7
  BY <1>1, StubIdxIs, StubOps DEF AtStub
<1>3. PreState(i)
  BY <1>1, <1>2, PreAt DEF AtStub
<1>4. /\ regs \in [RegNames -> Int] /\ mem \in [Slots -> Int]
      /\ rsp0 \in Rsps /\ rsp0 \in Int /\ hooked = <<>>
  BY <1>3, TrampolineAssumption DEF TrampInv, TypeOK, PreState
<1>5. regs["rsp"] = rsp0 - 8 * i
  BY <1>2, <1>3, DepthVals DEF PreState
<1>6. PV[i] \in RegNames \ {"rsp"} /\ StubCode[i].r = PV[i]
  BY <1>2, StubRegs DEF PV, RegNames, Saved
<1>7. regs[PV[i]] = R0[PV[i]]
  BY <1>2, <1>3, <1>6 DEF PreState
<1>8. R0[PV[i]] \in Int
  BY <1>6, R0Int
<1>9. /\ rsp0 - 8 * (i + 1) \in Slots /\ rsp0 - 8 * 1 \in Slots
      /\ rsp0 - 8 * (i + 1) < rsp0
  <2>1. i + 1 \in 0..24 /\ 1 \in 0..24
    BY <1>2
  <2>2. rsp0 - 8 * (i + 1) \in Slots /\ rsp0 - 8 * 1 \in Slots
    BY <1>4, <2>1, SlotsBelow, Zenon
  <2>. QED
    BY <1>2, <1>4, <2>2
<1>10. mem' = [mem EXCEPT ![rsp0 - 8 * (i + 1)] = R0[PV[i]]]
  <2>1. mem' = [mem EXCEPT ![regs["rsp"] - 8] = regs[StubCode[i].r]]
    BY <1>1 DEF Push
  <2>2. regs["rsp"] - 8 = rsp0 - 8 * (i + 1)
    BY <1>2, <1>4, <1>5
  <2>. QED
    BY <2>1, <2>2, <1>6, <1>7
<1>11. regs' = [regs EXCEPT !["rsp"] = rsp0 - 8 * (i + 1)]
  <2>1. regs' = [regs EXCEPT !["rsp"] = regs["rsp"] - 8]
    BY <1>1
  <2>2. regs["rsp"] - 8 = rsp0 - 8 * (i + 1)
    BY <1>2, <1>4, <1>5
  <2>. QED
    BY <2>1, <2>2
<1>12. mem' \in [Slots -> Int] /\ FrameIntact'
  BY <1>1, <1>8, <1>9, <1>10, WriteBelow
<1>13. TypeOK' /\ status' = "run"
  <2>1. rip' \in Int
    BY <1>1, <1>2, Layout
  <2>2. regs' \in [RegNames -> Int]
    BY <1>2, <1>4, <1>11, RegsUpd
  <2>. QED
    BY <1>1, <1>4, <1>12, <2>1, <2>2, TypeNext
<1>14. PreState(i + 1)'
  <2>1. regs'["rsp"] = rsp0 - Depth[i + 1]
    <3>1. regs'["rsp"] = rsp0 - 8 * (i + 1)
      BY <1>4, <1>11 DEF RegNames
    <3>2. Depth[i + 1] = 8 * (i + 1)
      BY <1>2, DepthVals
    <3>. QED
      BY <3>1, <3>2
  <2>2. mem'[rsp0 - 8] = Site + 2
    <3>1. rsp0 - 8 # rsp0 - 8 * (i + 1) /\ rsp0 - 8 = rsp0 - 8 * 1
      BY <1>2, <1>4
    <3>. QED
      BY <1>3, <1>4, <1>9, <1>10, <3>1 DEF PreState
  <2>3. ASSUME NEW j \in 1..7, j < i + 1
        PROVE  mem'[rsp0 - 8 - 8 * j] = R0[PV[j]]
    <3>1. rsp0 - 8 - 8 * j = rsp0 - 8 * (j + 1)
      BY <1>4
    <3>2. rsp0 - 8 * (j + 1) \in Slots
      <4>1. j + 1 \in 0..24
        OBVIOUS
      <4>. QED
        BY <1>4, <4>1, SlotsBelow, Zenon
    <3>3. CASE j = i
      BY <1>4, <1>9, <1>10, <3>1, <3>3
    <3>4. CASE j < i
      <4>1. rsp0 - 8 * (j + 1) # rsp0 - 8 * (i + 1)
        BY <1>2, <1>4, <3>4
      <4>2. mem[rsp0 - 8 - 8 * j] = R0[PV[j]]
        BY <1>3, <3>4 DEF PreState
      <4>. QED
        BY <1>4, <1>10, <3>1, <3>2, <4>1, <4>2
    <3>. QED
      BY <1>2, <2>3, <3>3, <3>4
  <2>4. ASSUME NEW r \in RegNames \ {"rsp"}
        PROVE  regs'[r] = CASE r = "rdi" /\ i + 1 >= 10 -> rsp0 - 64
                            [] r = "r11" /\ i + 1 >= 11 -> HookEntryAddr
                            [] OTHER                    -> R0[r]
    <3>1. regs'[r] = regs[r]
      BY <1>4, <1>11
    <3>2. regs[r] = R0[r]
      BY <1>2, <1>3 DEF PreState
    <3>. QED
      BY <1>2, <3>1, <3>2
  <2>. QED
    BY <1>1, <1>4, <2>1, <2>2, <2>3, <2>4, R0Unchanged DEF PreState
<1>. QED
  <2>1. i + 1 \in 1..11
    BY <1>2
  <2>. QED
    BY <1>1, <1>12, <1>13, <1>14, <2>1 DEF TrampInv

(* sub rsp, 8 (instruction 8) and the two add rsp, 8 (12, 13).           *)
LEMMA AddStep ==
    ASSUME TrampInv, StubAdd
    PROVE  TrampInv'
<1>1. PICK i \in StubIdx :
        /\ AtStub(i, "add")
        /\ regs' = [regs EXCEPT ![StubCode[i].r] = @ + StubCode[i].n]
        /\ rip' = Addr(i + 1)
        /\ UNCHANGED <<mem, status, nr0, rsp0, hooked>>
  BY DEF StubAdd
<1>2. i \in {8, 12, 13}
  BY <1>1, StubIdxIs, StubOps DEF AtStub
<1>3. /\ regs \in [RegNames -> Int] /\ rsp0 \in Int
      /\ hooked \in {<<>>} \cup [1..7 -> Int]
  BY TrampolineAssumption DEF TrampInv, TypeOK
<1>4. regs' = [regs EXCEPT !["rsp"] = regs["rsp"] + StubCode[i].n]
      /\ StubCode[i].n \in Int
  <2>1. StubCode[i].r = "rsp" /\ StubCode[i].n \in {-8, 8}
    BY <1>2, StubRegs
  <2>. QED
    BY <1>1, <2>1
<1>5. mem' \in [Slots -> Int] /\ FrameIntact'
  BY <1>1, KeepMem
<1>6. TypeOK' /\ status' = "run"
  <2>1. rip' \in Int
    BY <1>1, <1>2, Layout
  <2>2. regs["rsp"] \in Int
    BY <1>3 DEF RegNames
  <2>3. regs' \in [RegNames -> Int]
    BY <1>3, <1>4, <2>2, RegsUpd
  <2>. QED
    BY <1>1, <1>3, <1>5, <2>1, <2>3, TypeNext
<1>7. \A r \in RegNames \ {"rsp"} : regs'[r] = regs[r]
  BY <1>3, <1>4
<1>8. CASE i = 8
  <2>1. PreState(8)
    BY <1>1, <1>8, PreAt DEF AtStub
  <2>2. regs'["rsp"] = rsp0 - Depth[9]
    <3>1. regs["rsp"] = rsp0 - Depth[8]
      BY <2>1 DEF PreState
    <3>2. Depth[8] = 64 /\ Depth[9] = 72 /\ StubCode[8].n = -8
      BY DepthVals, StubRegs
    <3>3. regs'["rsp"] = regs["rsp"] + StubCode[i].n
      BY <1>3, <1>4 DEF RegNames
    <3>. QED
      BY <1>3, <1>8, <3>1, <3>2, <3>3
  <2>3. PreState(9)'
    BY <1>1, <1>7, <2>1, <2>2, R0Unchanged DEF PreState
  <2>. QED
    BY <1>1, <1>5, <1>6, <1>8, <2>3 DEF TrampInv
<1>9. CASE i \in {12, 13}
  <2>1. PostState(i)
    BY <1>1, <1>9, PostAt DEF AtStub
  <2>2. regs'["rsp"] = rsp0 - Depth[i + 1]
    <3>1. regs["rsp"] = rsp0 - Depth[i] /\ StubCode[i].n = 8
      BY <1>9, <2>1, StubRegs DEF PostState
    <3>2. Depth[i] = 168 - 8 * i /\ Depth[i + 1] = 168 - 8 * (i + 1)
      BY <1>9, DepthVals
    <3>3. regs'["rsp"] = regs["rsp"] + StubCode[i].n
      BY <1>3, <1>4 DEF RegNames
    <3>. QED
      BY <1>3, <1>9, <3>1, <3>2, <3>3
  <2>3. \A f \in 2..7 : f <= (i + 1) - 13 => regs'[Fields[f]] = hooked'[f]
    <3>1. \A f \in 2..7 : ~(f <= (i + 1) - 13)
      BY <1>9
    <3>. QED
      BY <3>1, Zenon
  <2>4. regs'["rax"] = Result
    BY <1>7, <2>1 DEF PostState, RegNames
  <2>5. PostState(i + 1)'
    <3>1. rip' = Addr(i + 1) /\ hooked' \in [1..7 -> Int]
      BY <1>1, <2>1 DEF PostState
    <3>2. mem'[rsp0' - 8] = Site + 2
      BY <1>1, <2>1 DEF PostState
    <3>3. \A f \in 1..7 : mem'[rsp0' - 64 + 8 * (f - 1)] = hooked'[f]
      BY <1>1, <2>1 DEF PostState
    <3>4. regs'["rsp"] = rsp0' - Depth[i + 1]
      BY <1>1, <2>2
    <3>. QED
      BY <2>3, <2>4, <3>1, <3>2, <3>3, <3>4, Zenon DEF PostState
  <2>6. i + 1 \in 12..20
    BY <1>9
  <2>. QED
    BY <1>5, <1>6, <2>5, <2>6 DEF TrampInv
<1>. QED
  BY <1>2, <1>8, <1>9

(* lea rdi, [rsp + 8] (instruction 9).                                    *)
LEMMA LeaStep ==
    ASSUME TrampInv, StubLea
    PROVE  TrampInv'
<1>1. PICK i \in StubIdx :
        /\ AtStub(i, "lea")
        /\ regs' = [regs EXCEPT ![StubCode[i].r] = regs["rsp"] + StubCode[i].n]
        /\ rip' = Addr(i + 1)
        /\ UNCHANGED <<mem, status, nr0, rsp0, hooked>>
  BY DEF StubLea
<1>2. i = 9
  BY <1>1, StubIdxIs, StubOps DEF AtStub
<1>3. PreState(9)
  BY <1>1, <1>2, PreAt DEF AtStub
<1>4. /\ regs \in [RegNames -> Int] /\ rsp0 \in Int
      /\ regs["rsp"] = rsp0 - 72
  <2>1. regs["rsp"] = rsp0 - Depth[9] /\ Depth[9] = 72
    BY <1>3, DepthVals DEF PreState
  <2>. QED
    BY <2>1, TrampolineAssumption DEF TrampInv, TypeOK
<1>5. regs' = [regs EXCEPT !["rdi"] = rsp0 - 64]
  BY <1>1, <1>2, <1>4, StubRegs
<1>6. TypeOK' /\ status' = "run" /\ mem' \in [Slots -> Int] /\ FrameIntact'
  <2>1. rip' \in Int
    BY <1>1, <1>2, Layout
  <2>2. regs' \in [RegNames -> Int]
    BY <1>4, <1>5, RegsUpd
  <2>. QED
    BY <1>1, <2>1, <2>2, KeepMem, TypeNext DEF TrampInv, TypeOK
<1>7. PreState(10)'
  <2>1. regs'["rsp"] = rsp0 - Depth[10]
    BY <1>4, <1>5, DepthVals DEF RegNames
  <2>2. ASSUME NEW r \in RegNames \ {"rsp"}
        PROVE  regs'[r] = CASE r = "rdi" /\ 10 >= 10 -> rsp0 - 64
                            [] r = "r11" /\ 10 >= 11 -> HookEntryAddr
                            [] OTHER                 -> R0[r]
    <3>1. r # "rdi" => regs[r] = R0[r]
      BY <1>3 DEF PreState
    <3>. QED
      BY <1>4, <1>5, <3>1 DEF RegNames
  <2>. QED
    BY <1>1, <1>3, <2>1, <2>2, R0Unchanged DEF PreState
<1>. QED
  BY <1>1, <1>2, <1>6, <1>7 DEF TrampInv

(* movabs r11, hook_entry_addr (instruction 10).                          *)
LEMMA MovabsStep ==
    ASSUME TrampInv, StubMovabs
    PROVE  TrampInv'
<1>1. PICK i \in StubIdx :
        /\ AtStub(i, "movabs")
        /\ regs' = [regs EXCEPT ![StubCode[i].r] = HookEntryAddr]
        /\ rip' = Addr(i + 1)
        /\ UNCHANGED <<mem, status, nr0, rsp0, hooked>>
  BY DEF StubMovabs
<1>2. i = 10
  BY <1>1, StubIdxIs, StubOps DEF AtStub
<1>3. PreState(10)
  BY <1>1, <1>2, PreAt DEF AtStub
<1>4. regs \in [RegNames -> Int] /\ HookEntryAddr \in Int
  BY TrampolineAssumption DEF TrampInv, TypeOK
<1>5. regs' = [regs EXCEPT !["r11"] = HookEntryAddr]
  BY <1>1, <1>2, StubRegs
<1>6. TypeOK' /\ status' = "run" /\ mem' \in [Slots -> Int] /\ FrameIntact'
  <2>1. rip' \in Int
    BY <1>1, <1>2, Layout
  <2>2. regs' \in [RegNames -> Int]
    BY <1>4, <1>5, RegsUpd
  <2>. QED
    BY <1>1, <2>1, <2>2, KeepMem, TypeNext DEF TrampInv, TypeOK
<1>7. PreState(11)'
  <2>1. regs'["rsp"] = rsp0 - Depth[11]
    BY <1>3, <1>4, <1>5, DepthVals DEF RegNames, PreState
  <2>2. ASSUME NEW r \in RegNames \ {"rsp"}
        PROVE  regs'[r] = CASE r = "rdi" /\ 11 >= 10 -> rsp0 - 64
                            [] r = "r11" /\ 11 >= 11 -> HookEntryAddr
                            [] OTHER                 -> R0[r]
    <3>1. regs[r] = CASE r = "rdi" /\ 10 >= 10 -> rsp0 - 64
                      [] r = "r11" /\ 10 >= 11 -> HookEntryAddr
                      [] OTHER                 -> R0[r]
      BY <1>3 DEF PreState
    <3>. QED
      BY <1>4, <1>5, <3>1 DEF RegNames
  <2>. QED
    BY <1>1, <1>3, <2>1, <2>2, R0Unchanged DEF PreState
<1>. QED
  BY <1>1, <1>2, <1>6, <1>7 DEF TrampInv

(* call r11 (instruction 11): the return address Addr(12) is pushed into  *)
(* the slot below the alignment slot, and hook_entry is entered.          *)
LEMMA CallStep ==
    ASSUME TrampInv, StubCall
    PROVE  TrampInv'
<1>1. PICK i \in StubIdx :
        /\ AtStub(i, "call")
        /\ Push(Addr(i + 1))
        /\ regs' = [regs EXCEPT !["rsp"] = @ - 8]
        /\ rip' = regs[StubCode[i].r]
        /\ UNCHANGED <<status, nr0, rsp0, hooked>>
  BY DEF StubCall
<1>2. i = 11
  BY <1>1, StubIdxIs, StubOps DEF AtStub
<1>3. PreState(11)
  BY <1>1, <1>2, PreAt DEF AtStub
<1>4. /\ regs \in [RegNames -> Int] /\ mem \in [Slots -> Int]
      /\ rsp0 \in Rsps /\ rsp0 \in Int /\ hooked = <<>>
  BY <1>3, TrampolineAssumption DEF TrampInv, TypeOK, PreState
<1>5. /\ regs["rsp"] = rsp0 - 72 /\ regs["rdi"] = rsp0 - 64
      /\ regs["r11"] = HookEntryAddr
  <2>1. Depth[11] = 72
    BY DepthVals
  <2>. QED
    BY <1>3, <2>1 DEF PreState, RegNames, Saved
<1>6. /\ rsp0 - 8 * 10 \in Slots /\ rsp0 - 8 * 1 \in Slots
      /\ Addr(12) \in Int
  BY <1>4, SlotsBelow, Layout
<1>7. mem' = [mem EXCEPT ![rsp0 - 80] = Addr(12)]
  BY <1>1, <1>2, <1>4, <1>5 DEF Push
<1>8. regs' = [regs EXCEPT !["rsp"] = rsp0 - 80]
  BY <1>1, <1>4, <1>5
<1>9. mem' \in [Slots -> Int] /\ FrameIntact'
  <2>1. rsp0 - 80 \in Slots /\ rsp0 - 80 < rsp0
    BY <1>4, <1>6
  <2>. QED
    BY <1>1, <1>6, <1>7, <2>1, WriteBelow
<1>10. rip' = HookEntryAddr
  BY <1>1, <1>2, <1>5, StubRegs
<1>11. TypeOK' /\ status' = "run"
  <2>1. regs' \in [RegNames -> Int]
    BY <1>4, <1>8, RegsUpd
  <2>. QED
    BY <1>1, <1>4, <1>9, <1>10, <2>1, TypeNext, TrampolineAssumption
<1>12. HookState'
  <2>1. regs'["rsp"] = rsp0 - 80 /\ regs'["rdi"] = rsp0 - 64
    BY <1>4, <1>5, <1>8 DEF RegNames, Saved
  <2>2. mem'[rsp0 - 8] = Site + 2 /\ mem'[rsp0 - 80] = Addr(12)
    BY <1>3, <1>4, <1>6, <1>7 DEF PreState
  <2>3. ASSUME NEW j \in 1..7 PROVE mem'[rsp0 - 8 - 8 * j] = R0[PV[j]]
    <3>1. rsp0 - 8 - 8 * j # rsp0 - 80 /\ rsp0 - 8 - 8 * j = rsp0 - 8 * (j + 1)
      BY <1>4
    <3>2. rsp0 - 8 * (j + 1) \in Slots
      <4>1. j + 1 \in 0..24
        OBVIOUS
      <4>. QED
        BY <1>4, <4>1, SlotsBelow, Zenon
    <3>3. mem[rsp0 - 8 - 8 * j] = R0[PV[j]]
      BY <1>3 DEF PreState
    <3>. QED
      BY <1>4, <1>7, <3>1, <3>2, <3>3
  <2>. QED
    BY <1>1, <1>4, <1>10, <2>1, <2>2, <2>3, R0Unchanged DEF HookState
<1>. QED
  BY <1>9, <1>11, <1>12 DEF TrampInv

(* The record on entry to hook_entry: field g is the register PV[8 - g]   *)
(* pushed by instruction 8 - g.                                           *)
LEMMA RecordSlots ==
    ASSUME NEW g \in 1..7, NEW r \in Int
    PROVE  /\ 8 - g \in 1..7
           /\ PV[8 - g] = Fields[g]
           /\ r - 64 + 8 * (g - 1) = r - 8 - 8 * (8 - g)
BY DEF PV, Fields

(* The hook_entry call: one field of the record may change, the result is *)
(* in %rax, caller-saved registers and the stack below may be clobbered,  *)
(* and ret returns to instruction 12.                                     *)
LEMMA HookStep ==
    ASSUME TrampInv, HookEntry
    PROVE  TrampInv'
<1>1. HookState
  BY HookAt DEF HookEntry
<1>2. /\ regs \in [RegNames -> Int] /\ mem \in [Slots -> Int]
      /\ rsp0 \in Rsps /\ rsp0 \in Int
      /\ {Junk, Result, Mutated} \subseteq Int
  BY TrampolineAssumption DEF TrampInv, TypeOK
<1>3. PICK f \in 0..7, cR \in BOOLEAN, cS \in BOOLEAN :
        LET p   == regs["rdi"]
            rec == IF f = 0 THEN RecordAt(p) ELSE [RecordAt(p) EXCEPT ![f] = Mutated]
        IN  /\ mem' = [a \in Slots |->
                          CASE f # 0 /\ a = p + 8 * (f - 1)    -> Mutated
                            [] cS /\ a < regs["rsp"] -> Junk
                            [] OTHER                          -> mem[a]]
            /\ hooked' = rec
            /\ regs' = [r \in RegNames |->
                          CASE r = "rax"                    -> Result
                            [] r = "rsp"                    -> regs["rsp"] + 8
                            [] cR /\ r \in Saved -> Junk
                            [] OTHER                        -> regs[r]]
  BY DEF HookEntry
<1>4. /\ regs["rdi"] = rsp0 - 64 /\ regs["rsp"] = rsp0 - 80
      /\ rip' = Addr(12) /\ UNCHANGED <<status, nr0, rsp0>>
  BY <1>1 DEF HookEntry, HookState
<1>5. ASSUME NEW a \in Slots, a >= rsp0 - 80,
             \A g \in 1..7 : f # g \/ a # rsp0 - 64 + 8 * (g - 1)
      PROVE  mem'[a] = mem[a]
  <2>1. ~(f # 0 /\ a = rsp0 - 64 + 8 * (f - 1))
    BY <1>5
  <2>2. ~(a < rsp0 - 80)
    BY <1>2, <1>5, SlotsInt
  <2>3. mem'[a] = CASE f # 0 /\ a = rsp0 - 64 + 8 * (f - 1) -> Mutated
                    [] cS /\ a < rsp0 - 80                 -> Junk
                    [] OTHER                              -> mem[a]
    BY <1>3, <1>4
  <2>. QED
    BY <2>1, <2>2, <2>3
<1>6. mem' \in [Slots -> Int] /\ FrameIntact'
  <2>1. mem' \in [Slots -> Int]
    BY <1>2, <1>3
  <2>2. ASSUME NEW a \in Slots, a >= rsp0 PROVE mem'[a] = Frame
    <3>1. a >= rsp0 - 80 /\ \A g \in 1..7 : f # g \/ a # rsp0 - 64 + 8 * (g - 1)
      BY <1>2, <2>2, SlotsInt
    <3>2. mem'[a] = mem[a]
      BY <3>1, <1>5
    <3>. QED
      BY <2>2, <3>2 DEF TrampInv, FrameIntact
  <2>. QED
    BY <1>4, <2>1, <2>2 DEF FrameIntact
<1>7. hooked' \in [1..7 -> Int]
     /\ \A g \in 1..7 : mem'[rsp0 - 64 + 8 * (g - 1)] = hooked'[g]
  <2>1. \A g \in 1..7 : rsp0 - 64 + 8 * (g - 1) \in Slots
    <3>1. \A g \in 1..7 : 8 - g + 1 \in 0..24 /\ rsp0 - 64 + 8 * (g - 1) = rsp0 - 8 * (8 - g + 1)
      BY <1>2
    <3>. QED
      BY <1>2, <3>1, SlotsBelow, Zenon
  <2>. QED
    BY <1>2, <1>3, <1>4, <2>1 DEF RecordAt
<1>8. regs' \in [RegNames -> Int] /\ regs'["rax"] = Result
      /\ regs'["rsp"] = rsp0 - Depth[12]
  BY <1>2, <1>3, <1>4, DepthVals DEF RegNames, Saved
<1>9. mem'[rsp0 - 8] = Site + 2
  <2>1. rsp0 - 8 * 1 \in Slots /\ rsp0 - 8 = rsp0 - 8 * 1
    BY <1>2, SlotsBelow
  <2>2. rsp0 - 8 >= rsp0 - 80 /\ \A g \in 1..7 : f # g \/ rsp0 - 8 # rsp0 - 64 + 8 * (g - 1)
    BY <1>2
  <2>3. mem'[rsp0 - 8] = mem[rsp0 - 8]
    BY <2>1, <2>2, <1>5
  <2>. QED
    BY <1>1, <2>3 DEF HookState
<1>10. PostState(12)'
  <2>1. \A g \in 2..7 : ~(g <= 12 - 13)
    OBVIOUS
  <2>. QED
    BY <1>4, <1>7, <1>8, <1>9, <2>1, Zenon DEF PostState
<1>11. TypeOK' /\ status' = "run"
  <2>1. rip' \in Int
    BY <1>4, Layout
  <2>2. hooked' \in {<<>>} \cup [1..7 -> Int]
    BY <1>7
  <2>. QED
    BY <1>4, <1>6, <1>8, <2>1, <2>2, TypeNext
<1>. QED
  BY <1>6, <1>10, <1>11 DEF TrampInv

(* The registers of the record's fields 2..7 are distinct and are neither *)
(* %rax nor %rsp.                                                        *)
LEMMA FieldRegs ==
    /\ \A f \in 2..7 : Fields[f] \in RegNames \ {"rax", "rsp"}
    /\ \A f, g \in 2..7 : Fields[f] = Fields[g] => f = g
BY DEF Fields, RegNames, Saved

(* pop r (instructions 14..19): field i - 12 of the record goes back to   *)
(* its register.                                                          *)
LEMMA PopStep ==
    ASSUME TrampInv, StubPop
    PROVE  TrampInv'
<1>1. PICK i \in StubIdx :
        /\ AtStub(i, "pop")
        /\ regs' = [regs EXCEPT ![StubCode[i].r] = mem[regs["rsp"]],
                                !["rsp"] = @ + 8]
        /\ rip' = Addr(i + 1)
        /\ UNCHANGED <<mem, status, nr0, rsp0, hooked>>
  BY DEF StubPop
<1>2. i \in 14..19
  BY <1>1, StubIdxIs, StubOps DEF AtStub
<1>3. PostState(i)
  BY <1>1, <1>2, PostAt DEF AtStub
<1>4. /\ regs \in [RegNames -> Int] /\ mem \in [Slots -> Int]
      /\ rsp0 \in Int /\ hooked \in [1..7 -> Int]
  BY <1>3, TrampolineAssumption DEF TrampInv, TypeOK, PostState
<1>5. /\ i - 12 \in 2..7
      /\ regs["rsp"] = rsp0 - 64 + 8 * ((i - 12) - 1)
      /\ regs["rsp"] + 8 = rsp0 - Depth[i + 1]
  <2>1. regs["rsp"] = rsp0 - Depth[i]
    BY <1>3 DEF PostState
  <2>2. Depth[i] = 168 - 8 * i /\ Depth[i + 1] = 168 - 8 * (i + 1)
    BY <1>2, DepthVals
  <2>. QED
    BY <1>2, <1>4, <2>1, <2>2
<1>6. mem[regs["rsp"]] = hooked[i - 12]
  BY <1>3, <1>5 DEF PostState
<1>7. DEFINE r == Fields[i - 12]
<1>8. r \in RegNames \ {"rax", "rsp"} /\ StubCode[i].r = r
  BY <1>2, <1>5, StubRegs, FieldRegs
<1>9. regs' = [regs EXCEPT ![r] = hooked[i - 12], !["rsp"] = rsp0 - Depth[i + 1]]
  BY <1>1, <1>5, <1>6, <1>8
<1>10. TypeOK' /\ status' = "run" /\ mem' \in [Slots -> Int] /\ FrameIntact'
  <2>1. rip' \in Int
    BY <1>1, <1>2, Layout
  <2>2. regs' \in [RegNames -> Int]
    <3>1. hooked[i - 12] \in Int /\ rsp0 - Depth[i + 1] \in Int
      BY <1>4, <1>5
    <3>2. [regs EXCEPT ![r] = hooked[i - 12]] \in [RegNames -> Int]
      BY <1>4, <3>1, RegsUpd
    <3>. QED
      BY <1>9, <3>1, <3>2, RegsUpd
  <2>. QED
    BY <1>1, <1>4, <2>1, <2>2, KeepMem, TypeNext
<1>11. PostState(i + 1)'
  <2>1. regs'["rsp"] = rsp0' - Depth[i + 1] /\ regs'["rax"] = Result
    <3>1. rsp0' = rsp0 /\ regs["rax"] = Result
      BY <1>1, <1>3 DEF PostState
    <3>2. regs'["rsp"] = rsp0 - Depth[i + 1] /\ regs'["rax"] = regs["rax"]
      BY <1>4, <1>8, <1>9 DEF RegNames
    <3>. QED
      BY <3>1, <3>2
  <2>2. ASSUME NEW f \in 2..7, f <= (i + 1) - 13
        PROVE  regs'[Fields[f]] = hooked'[f]
    <3>1. CASE f = i - 12
      BY <1>1, <1>4, <1>8, <1>9, <3>1
    <3>2. CASE f < i - 12
      <4>1. Fields[f] # r /\ Fields[f] \in RegNames \ {"rsp"}
        BY <1>5, <3>2, FieldRegs
      <4>2. regs[Fields[f]] = hooked[f]
        <5>1. f <= i - 13
          BY <1>2, <3>2
        <5>. QED
          BY <1>3, <5>1 DEF PostState
      <4>. QED
        BY <1>1, <1>4, <1>9, <4>1, <4>2
    <3>. QED
      BY <1>2, <2>2, <3>1, <3>2
  <2>3. rip' = Addr(i + 1) /\ hooked' \in [1..7 -> Int]
        /\ mem'[rsp0' - 8] = Site + 2
        /\ \A f \in 1..7 : mem'[rsp0' - 64 + 8 * (f - 1)] = hooked'[f]
    BY <1>1, <1>3 DEF PostState
  <2>. QED
    BY <2>1, <2>2, <2>3, Zenon DEF PostState
<1>. QED
  <2>1. i + 1 \in 12..20
    BY <1>2
  <2>. QED
    BY <1>10, <1>11, <2>1 DEF TrampInv

(* ret (instruction 20): back to the instruction after the site.          *)
LEMMA RetStep ==
    ASSUME TrampInv, StubRet
    PROVE  TrampInv'
<1>1. PICK i \in StubIdx :
        /\ AtStub(i, "ret")
        /\ rip' = mem[regs["rsp"]]
        /\ regs' = [regs EXCEPT !["rsp"] = @ + 8]
        /\ UNCHANGED <<mem, status, nr0, rsp0, hooked>>
  BY DEF StubRet
<1>2. i = 20
  BY <1>1, StubIdxIs, StubOps DEF AtStub
<1>3. PostState(20)
  BY <1>1, <1>2, PostAt DEF AtStub
<1>4. /\ regs \in [RegNames -> Int] /\ rsp0 \in Int
      /\ regs["rsp"] = rsp0 - 8
  <2>1. Depth[20] = 8
    BY DepthVals
  <2>. QED
    BY <1>3, <2>1, TrampolineAssumption DEF TrampInv, TypeOK, PostState
<1>5. regs' = [regs EXCEPT !["rsp"] = rsp0]
  BY <1>1, <1>4
<1>6. rip' = Site + 2
  BY <1>1, <1>3, <1>4 DEF PostState
<1>7. TypeOK' /\ status' = "run" /\ mem' \in [Slots -> Int] /\ FrameIntact'
  <2>1. rip' \in Int
    BY <1>6, TrampolineAssumption
  <2>2. regs' \in [RegNames -> Int]
    BY <1>4, <1>5, RegsUpd
  <2>. QED
    BY <1>1, <1>3, <2>1, <2>2, KeepMem, TypeNext DEF PostState
<1>8. DoneState'
  <2>1. \A f \in 2..7 : regs'[Fields[f]] = regs[Fields[f]]
    BY <1>4, <1>5, FieldRegs
  <2>2. \A f \in 2..7 : regs[Fields[f]] = hooked[f]
    BY <1>3 DEF PostState
  <2>. QED
    BY <1>1, <1>3, <1>4, <1>5, <1>6, <2>1, <2>2 DEF DoneState, PostState, RegNames
<1>. QED
  BY <1>7, <1>8 DEF TrampInv

-----------------------------------------------------------------------------
(* The invariant is inductive.                                            *)

LEMMA TrampStep ==
    ASSUME TrampInv, InSled, [Next]_vars
    PROVE  TrampInv'
<1>1. CASE Callq
  BY <1>1, CallqStep
<1>2. CASE SledNop
  BY <1>2, SledNopStep
<1>3. CASE StubPush
  BY <1>3, PushStep
<1>4. CASE StubPop
  BY <1>4, PopStep
<1>5. CASE StubAdd
  BY <1>5, AddStep
<1>6. CASE StubLea
  BY <1>6, LeaStep
<1>7. CASE StubMovabs
  BY <1>7, MovabsStep
<1>8. CASE StubCall
  BY <1>8, CallStep
<1>9. CASE StubRet
  BY <1>9, RetStep
<1>10. CASE HookEntry
  BY <1>10, HookStep
<1>11. CASE Stray \/ Done \/ UNCHANGED vars
  BY <1>11, OtherStep
<1>. QED
  BY <1>1, <1>2, <1>3, <1>4, <1>5, <1>6, <1>7, <1>8, <1>9, <1>10, <1>11
     DEF Next

(* On entry to hook_entry the record holds the site's registers.         *)
LEMMA InvHookSees ==
    ASSUME TrampInv
    PROVE  HookSeesRecord
<1> SUFFICES ASSUME AtHookEntry PROVE RecordAt(regs["rdi"]) = SiteRecord
  BY DEF HookSeesRecord
<1>1. HookState
  BY HookAt DEF AtHookEntry
<1>2. rsp0 \in Int
  BY TrampolineAssumption DEF TrampInv, TypeOK
<1>3. ASSUME NEW g \in 1..7 PROVE RecordAt(regs["rdi"])[g] = R0[Fields[g]]
  <2>1. /\ 8 - g \in 1..7
        /\ PV[8 - g] = Fields[g]
        /\ rsp0 - 64 + 8 * (g - 1) = rsp0 - 8 - 8 * (8 - g)
    BY <1>2, RecordSlots
  <2>2. mem[rsp0 - 8 - 8 * (8 - g)] = R0[PV[8 - g]]
    BY <1>1, <2>1 DEF HookState
  <2>. QED
    BY <1>1, <2>1, <2>2 DEF RecordAt, HookState
<1>4. ASSUME NEW g \in 1..7 PROVE R0[Fields[g]] = SiteRecord[g]
  BY DEF R0, Fields, SiteRecord, RegNames, Saved
<1>. QED
  BY <1>3, <1>4 DEF RecordAt, SiteRecord

(* At the instruction after the site the contract holds.                  *)
LEMMA InvAbi ==
    ASSUME TrampInv
    PROVE  AbiPreserved
<1> SUFFICES ASSUME Returned PROVE AbiPreserved
  BY DEF AbiPreserved
<1>1. DoneState
  <2>1. \A k \in 12..20 : ~PostState(k)
    BY Apart DEF Returned, PostState
  <2>2. \A k \in 1..11 : rip # Addr(k)
    BY Apart DEF Returned
  <2>. QED
    BY <2>1, <2>2, Apart DEF TrampInv, Returned, HookState
<1>. QED
  BY <1>1 DEF AbiPreserved, DoneState, TrampInv, FrameIntact

-----------------------------------------------------------------------------
(* The syscall number at the site is fixed for the run: whatever number  *)
(* %rax held, the invariant TrampInv holds whenever that number is one    *)
(* the sled covers.  No assumption on Nrs is needed: a number past the    *)
(* sled only weakens the hypothesis.                                      *)
SledInv ==
    /\ nr0 \in Nrs
    /\ InSled => TrampInv

LEMMA SledInit == Init => SledInv
<1> SUFFICES ASSUME Init PROVE SledInv
  OBVIOUS
<1>. QED
  BY TrampInit DEF Init, SledInv

LEMMA Nr0Fixed == [Next]_vars => nr0' = nr0
BY DEF Next, vars, Callq, SledNop, StubPush, StubPop, StubAdd, StubLea,
       StubMovabs, StubCall, StubRet, HookEntry, Stray, Done

LEMMA SledStep == SledInv /\ [Next]_vars => SledInv'
<1> SUFFICES ASSUME SledInv, [Next]_vars PROVE SledInv'
  OBVIOUS
<1>1. nr0' = nr0
  BY Nr0Fixed
<1>2. nr0' \in Nrs
  BY <1>1 DEF SledInv
<1>3. ASSUME InSled' PROVE TrampInv'
  <2>1. InSled
    BY <1>1, <1>3 DEF InSled
  <2>2. TrampInv
    BY <2>1 DEF SledInv
  <2>. QED
    BY <2>1, <2>2, TrampStep
<1>. QED
  BY <1>2, <1>3 DEF SledInv

(* For every sled length, stack pointer, site, hook_entry address,        *)
(* register contents and syscall number: while the number is one the     *)
(* sled covers, the stub of generate_hook_stub only ever reaches the      *)
(* control points TrampInv describes.                                     *)
THEOREM SledInvariant == Spec => []SledInv
<1>1. Init => SledInv
  BY SledInit
<1>2. SledInv /\ [Next]_vars => SledInv'
  BY SledStep
<1>. QED
  BY <1>1, <1>2, PTL DEF Spec

(* When every number the site may hold is one the sled covers, the stub *)
(* never jumps where no instruction starts.                               *)
THEOREM TrampInvariant ==
    ASSUME NrsInSled
    PROVE  Spec => []TrampInv
<1>1. SledInv => TrampInv
  <2> SUFFICES ASSUME SledInv PROVE TrampInv
    OBVIOUS
  <2>1. nr0 \in 0..(MAX_SYSCALL_NR - 1)
    BY DEF SledInv, NrsInSled
  <2>2. InSled
    BY <2>1, MaxNat DEF InSled
  <2>. QED
    BY <2>2 DEF SledInv
<1>. QED
  BY <1>1, SledInvariant, PTL

(* StrayOnlyBeyondSled: a stray jump, to bytes where generate_hook_stub  *)
(* placed no instruction start, happens only for a number of MAX_SYSCALL_NR *)
(* or more, which the NOP sled of trampoline.rs:72-87 does not cover.    *)
(* For every value of the constants.                                      *)
THEOREM StrayOnlyBeyondSledHolds == Spec => []StrayOnlyBeyondSled
<1>1. SledInv => StrayOnlyBeyondSled
  <2> SUFFICES ASSUME SledInv, status = "stray" PROVE nr0 >= MAX_SYSCALL_NR
    BY DEF StrayOnlyBeyondSled
  <2>1. ~InSled
    BY DEF SledInv, TrampInv
  <2>2. nr0 \in Nat
    BY TrampolineAssumption DEF SledInv
  <2>. QED
    BY <2>1, <2>2, MaxNat DEF InSled
<1>. QED
  BY <1>1, SledInvariant, PTL

(* Spec invariant 7, first half: on entry to hook_entry with a number the *)
(* sled covers, %rdi points at a SyscallRegs holding the site's rax, rdi, *)
(* rsi, rdx, r10, r8, r9 (trampoline.rs:109-159).  For every value of the *)
(* constants: HookSeesRecord itself is stated for the sled's numbers.     *)
THEOREM HookSeesRecordHolds == Spec => []HookSeesRecord
<1>1. SledInv => HookSeesRecord
  <2> SUFFICES ASSUME SledInv, AtHookEntry, InSled
               PROVE  RecordAt(regs["rdi"]) = SiteRecord
    BY DEF HookSeesRecord, InSled
  <2>1. TrampInv
    BY DEF SledInv
  <2>2. HookSeesRecord
    BY <2>1, InvHookSees
  <2>. QED
    BY <2>2 DEF HookSeesRecord, InSled
<1>. QED
  BY <1>1, SledInvariant, PTL

(* Spec invariant 7, second half: back at the instruction after the site  *)
(* with a number the sled covers, %rsp is restored, %rax holds the hook's *)
(* result, the argument registers hold the record as the hook left it and *)
(* the caller's frame is intact (trampoline.rs:174-220).  For every value *)
(* of the constants.                                                      *)
THEOREM AbiPreservedHolds == Spec => []AbiPreserved
<1>1. SledInv => AbiPreserved
  <2> SUFFICES ASSUME SledInv, Returned, InSled PROVE AbiPreserved
    BY DEF AbiPreserved, InSled
  <2>1. TrampInv
    BY DEF SledInv
  <2>. QED
    BY <2>1, InvAbi
<1>. QED
  BY <1>1, SledInvariant, PTL

=============================================================================
