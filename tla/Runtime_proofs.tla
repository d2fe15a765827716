---------------------------- MODULE Runtime_proofs ----------------------------
(***************************************************************************)
(* Proofs about processes: what a process is given, keeps and leaves, for  *)
(* any configuration, any failure and any size of its cspace; the          *)
(* checkpoints of its threads, for any stack and any contents; the memory  *)
(* and files that the C library glue serves it, for any sizes; and the     *)
(* frame on its first stack, for any arguments.                            *)
(***************************************************************************)
EXTENDS Process, ProcessStack, Checkpoint, Muslcsys, FiniteSetTheorems, WellFoundedInduction, SequenceTheorems, TLAPS

-----------------------------------------------------------------------------
(* Checkpoints                                                             *)

Registers == [pc : Contents, sp : 0 .. StackWords]

Stacks == [1 .. StackWords -> Contents]

CkTypes ==
  /\ regs \in Registers /\ words \in Stacks
  /\ checkpoint.state \in {"none", "regs", "full", "restoring", "freed"}
  /\ checkpoint.state \in {"regs", "full", "restoring"} => checkpoint.regs \in Registers
  /\ DOMAIN checkpoint = {"state", "regs", "stack", "suspend"}

(* What has been saved of a thread that the checkpoint suspended is what    *)
(* the thread was; between the two halves of saving it, and of restoring    *)
(* it, the thread does not run.                                             *)
CkInv ==
  /\ CkTypes
  /\ checkpoint.state = "regs" /\ checkpoint.suspend =>
       run = "stopped" /\ regs = checkpoint.regs /\ truth = <<regs, InUse(words, regs.sp)>>
  /\ checkpoint.state \in {"full", "restoring"} /\ checkpoint.suspend =>
       truth = <<checkpoint.regs, checkpoint.stack>>
  /\ checkpoint.state \in {"full", "restoring"} =>
       checkpoint.stack \in Seq(Contents) /\ Len(checkpoint.stack) = checkpoint.regs.sp
  /\ checkpoint.state = "restoring" =>
       run = "stopped" /\ InUse(words, checkpoint.regs.sp) = checkpoint.stack

(* The part of a stack that is in use. *)
LEMMA InUseIs ==
  ASSUME NEW w \in Stacks, NEW sp \in 0 .. StackWords
  PROVE  InUse(w, sp) \in Seq(Contents) /\ Len(InUse(w, sp)) = sp /\ \A k \in 1 .. sp : InUse(w, sp)[k] = w[k]
BY CheckpointAssumption DEF InUse, Stacks

(* A sequence that agrees with the lower words of a stack is its part in use. *)
LEMMA InUseSame ==
  ASSUME NEW w \in Stacks, NEW s \in Seq(Contents), Len(s) \in 0 .. StackWords,
         \A k \in 1 .. Len(s) : w[k] = s[k]
  PROVE  InUse(w, Len(s)) = s
<1>1. InUse(w, Len(s)) \in Seq(Contents) /\ Len(InUse(w, Len(s))) = Len(s)
      /\ \A k \in 1 .. Len(s) : InUse(w, Len(s))[k] = w[k]
  BY InUseIs
<1> QED
  BY <1>1, SeqEqual

(* Saving and restoring in two steps keeps the invariant. *)
LEMMA CkStep == CkInv /\ [CkNext]_ckVars => CkInv'
<1> SUFFICES ASSUME CkInv, [CkNext]_ckVars
             PROVE  CkInv'
  OBVIOUS
<1>0. StackWords \in Nat \ {0} /\ CkTypes
  BY CheckpointAssumption DEF CkInv
<1>1. CASE Receive
  BY <1>1 DEF Receive, CkInv, CkTypes, InUse
<1>2. CASE Stop
  BY <1>2 DEF Stop, CkInv, CkTypes, InUse
<1>3. ASSUME NEW c \in Contents, NEW v \in Contents, NEW sp \in 0 .. StackWords, Work(c, v, sp)
      PROVE  CkInv'
  <2>1. run = "running" /\ regs' = [pc |-> c, sp |-> sp] /\ UNCHANGED <<checkpoint, truth>>
    BY <1>3 DEF Work
  <2>2. words' \in Stacks /\ regs' \in Registers
    BY <1>0, <1>3 DEF Work, CkTypes, Registers, Stacks
  <2> QED
    BY <2>1, <2>2 DEF CkInv, CkTypes
<1>4. ASSUME NEW suspend \in BOOLEAN, ReadRegisters(suspend)
      PROVE  CkInv'
  BY <1>0, <1>4 DEF ReadRegisters, CkInv, CkTypes, InUse
<1>5. CASE CopyStack
  <2>1. checkpoint.state = "regs" /\ UNCHANGED <<regs, words, run, truth>>
    BY <1>5 DEF CopyStack
  <2>2. /\ checkpoint'.state = "full" /\ checkpoint'.regs = checkpoint.regs
        /\ checkpoint'.suspend = checkpoint.suspend
        /\ checkpoint'.stack = InUse(words, checkpoint.regs.sp)
        /\ DOMAIN checkpoint' = DOMAIN checkpoint
    BY <1>0, <1>5 DEF CopyStack, CkTypes
  <2>3. checkpoint.regs \in Registers /\ checkpoint.regs.sp \in 0 .. StackWords
    BY <1>0, <2>1 DEF CkTypes, Registers
  <2>4. checkpoint'.stack \in Seq(Contents) /\ Len(checkpoint'.stack) = checkpoint.regs.sp
    BY <1>0, <2>2, <2>3, InUseIs DEF CkTypes
  <2> QED
    BY <2>1, <2>2, <2>3, <2>4 DEF CkInv, CkTypes
<1>6. CASE NoMemory
  BY <1>6 DEF NoMemory, NoCheckpoint, CkInv, CkTypes
<1>7. CASE RestoreStack
  <2>1. /\ checkpoint.state = "full" /\ run = "stopped" /\ UNCHANGED <<regs, run, truth>>
        /\ checkpoint.regs \in Registers /\ checkpoint.regs.sp \in 0 .. StackWords
        /\ checkpoint.stack \in Seq(Contents) /\ Len(checkpoint.stack) = checkpoint.regs.sp
    BY <1>0, <1>7 DEF RestoreStack, CkInv, CkTypes, Registers
  <2>2. /\ checkpoint'.state = "restoring" /\ checkpoint'.regs = checkpoint.regs
        /\ checkpoint'.suspend = checkpoint.suspend /\ checkpoint'.stack = checkpoint.stack
        /\ DOMAIN checkpoint' = DOMAIN checkpoint
    BY <1>0, <1>7 DEF RestoreStack, CkTypes
  <2>3. words' = [k \in 1 .. StackWords |->
                    IF k <= Len(checkpoint.stack) THEN checkpoint.stack[k] ELSE words[k]]
    BY <1>7 DEF RestoreStack
  <2>4. words' \in Stacks /\ \A k \in 1 .. Len(checkpoint.stack) : words'[k] = checkpoint.stack[k]
    BY <1>0, <2>1, <2>3 DEF Stacks, CkTypes
  <2>5. InUse(words', Len(checkpoint.stack)) = checkpoint.stack
    BY <2>1, <2>4, InUseSame
  <2> QED
    BY <1>0, <2>1, <2>2, <2>4, <2>5 DEF CkInv, CkTypes
<1>8. ASSUME NEW fails \in BOOLEAN, NEW free \in BOOLEAN, NEW resume \in BOOLEAN,
             WriteRegisters(fails, free, resume)
      PROVE  CkInv'
  <2>1. /\ checkpoint.state = "restoring" /\ UNCHANGED <<words, truth>>
        /\ regs' \in {regs, checkpoint.regs}
    BY <1>8 DEF WriteRegisters
  <2>2. /\ checkpoint'.state \in {"full", "freed"} /\ checkpoint'.regs = checkpoint.regs
        /\ checkpoint'.suspend = checkpoint.suspend /\ checkpoint'.stack = checkpoint.stack
        /\ DOMAIN checkpoint' = DOMAIN checkpoint
    BY <1>0, <1>8 DEF WriteRegisters, CkTypes
  <2> QED
    BY <1>0, <2>1, <2>2 DEF CkInv, CkTypes
<1>9. CASE sel4utils_free_checkpoint
  BY <1>0, <1>9 DEF sel4utils_free_checkpoint, CkInv, CkTypes
<1>10. CASE UNCHANGED ckVars
  BY <1>10 DEF ckVars, CkInv, CkTypes
<1> QED
  BY <1>1, <1>2, <1>3, <1>4, <1>5, <1>6, <1>7, <1>8, <1>9, <1>10 DEF CkNext

(* sel4utils_checkpoint_restore() rolls a thread that its checkpoint had    *)
(* suspended back to exactly what it was, however often it ran in between.  *)
THEOREM RestoreAlwaysExact == CkSpec => RestoreExact
<1>1. CkInit => CkInv
  BY DEF CkInit, CkInv, CkTypes, NoCheckpoint, Registers, Stacks
<1>2. CkInv /\ [CkNext]_ckVars => CkInv'
  BY CkStep
<1>3. CkInv /\ [CkNext]_ckVars =>
        [checkpoint.state = "restoring" /\ checkpoint.suspend /\ regs' = checkpoint.regs =>
           /\ regs' = truth[1]
           /\ InUse(words', regs'.sp) = truth[2]]_ckVars
  <2> SUFFICES ASSUME CkInv, CkNext, checkpoint.state = "restoring", checkpoint.suspend,
                      regs' = checkpoint.regs
               PROVE  regs' = truth[1] /\ InUse(words', regs'.sp) = truth[2]
    OBVIOUS
  <2>1. truth = <<checkpoint.regs, checkpoint.stack>> /\ run = "stopped"
        /\ InUse(words, checkpoint.regs.sp) = checkpoint.stack
    BY DEF CkInv
  <2>2. words' = words
    BY <2>1 DEF CkNext, Receive, Stop, Work, ReadRegisters, CopyStack, NoMemory, RestoreStack,
                WriteRegisters, sel4utils_free_checkpoint
  <2> QED
    BY <2>1, <2>2 DEF InUse
<1> QED
  BY <1>1, <1>2, <1>3, PTL DEF CkSpec, RestoreExact

-----------------------------------------------------------------------------
(* The heap in an area of fixed size                                       *)

Regions == [start : Nat, length : Nat]

AreaTypes ==
  /\ area \in [size : Nat, compiled : BOOLEAN, base : Nat, top : Nat]
  /\ granted \subseteq Regions

(* The break is below the top of what is left, and every region above it.   *)
AreaInv ==
  /\ AreaTypes
  /\ area.base <= area.top /\ area.top <= AreaEnd
  /\ \A r \in granted : area.top <= r.start /\ r.start + r.length <= AreaEnd
  /\ \A r, q \in granted : q # r => q.start + q.length <= r.start \/ r.start + r.length <= q.start
  /\ dyn.brk = 0 /\ DOMAIN dyn.map = {}

(* Rounding to pages never shortens a region. *)
LEMMA RoundedUp ==
  ASSUME NEW n \in Nat
  PROVE  RoundToPages(n) \in Nat /\ RoundToPages(n) >= n
<1> DEFINE q == (n + Page - 1) \div Page
           m == (n + Page - 1) % Page
<1>1. Page \in Nat /\ Page > 0
  BY MuslcAssumption
<1>2. n + Page - 1 = Page * q + m /\ m \in 0 .. Page - 1 /\ q \in Int
  BY <1>1
<1>3. q >= 0
  BY <1>1
<1>4. q * Page = Page * q /\ q * Page \in Nat
  BY <1>1, <1>2, <1>3
<1>5. RoundToPages(n) = q * Page
  BY DEF RoundToPages
<1> HIDE DEF q, m
<1> QED
  BY <1>1, <1>2, <1>4, <1>5

(* No call but those of a heap in a vspace disturbs the invariant. *)
LEMMA AreaStep ==
  ASSUME NEW part, part # "dynamic", AreaInv, [MuslcNext(part)]_muslcVars
  PROVE  AreaInv'
<1>0. /\ area \in [size : Nat, compiled : BOOLEAN, base : Nat, top : Nat] /\ granted \subseteq Regions
      /\ Page \in Nat \ {0} /\ AreaEnd \in Nat
  BY MuslcAssumption DEF AreaInv, AreaTypes, AreaEnd
<1>1. ASSUME NEW b \in 0 .. AreaEnd + 1, sys_brk_static(b)
      PROVE  AreaInv'
  BY <1>0, <1>1 DEF sys_brk_static, AreaInv, AreaTypes, AreaEnd
<1>2. ASSUME NEW n \in Lengths, sys_mmap_impl_static(n)
      PROVE  AreaInv'
  <2> DEFINE taken == IF area.compiled THEN n ELSE RoundToPages(n)
             start == area.top - taken
             new == [start |-> start, length |-> n]
  <2>1. n \in Nat /\ taken \in Nat /\ taken >= n
    BY RoundedUp, MuslcAssumption
  <2>2. /\ FitsOnTop(taken) /\ area' = [area EXCEPT !.top = start] /\ dyn' = dyn
        /\ granted' \in {granted, granted \cup {new}}
    BY <1>2 DEF sys_mmap_impl_static
  <2> HIDE DEF taken
  <2>3. start \in Nat /\ start >= area.base /\ start + n <= area.top
    BY <1>0, <2>1, <2>2 DEF FitsOnTop
  <2> HIDE DEF start
  <2>4. /\ area' \in [size : Nat, compiled : BOOLEAN, base : Nat, top : Nat]
        /\ area'.top = start /\ area'.base = area.base /\ area'.size = area.size
    BY <1>0, <2>2, <2>3
  <2>5. AreaEnd' = AreaEnd
    BY <2>4 DEF AreaEnd
  <2>6. new \in Regions /\ new.start = start /\ new.length = n
    BY <2>1, <2>3 DEF Regions
  <2> HIDE DEF new
  <2>7. granted' \subseteq granted \cup {new}
    BY <2>2
  <2>8. \A r \in granted : r.start \in Nat /\ r.length \in Nat /\ area.top <= r.start
    BY <1>0 DEF AreaInv, Regions
  <2>9. \A r \in granted' : area'.top <= r.start /\ r.start + r.length <= AreaEnd
    BY <1>0, <2>1, <2>3, <2>4, <2>6, <2>7, <2>8 DEF AreaInv
  <2>10. \A r, q \in granted' : q # r => q.start + q.length <= r.start \/ r.start + r.length <= q.start
    BY <1>0, <2>1, <2>3, <2>6, <2>7, <2>8 DEF AreaInv
  <2>11. area'.base <= area'.top /\ area'.top <= AreaEnd
    BY <1>0, <2>1, <2>3, <2>4 DEF AreaInv
  <2>12. AreaTypes'
    BY <1>0, <2>4, <2>6, <2>7 DEF AreaTypes
  <2>13. dyn'.brk = 0 /\ DOMAIN dyn'.map = {}
    BY <2>2 DEF AreaInv
  <2> QED
    BY <2>5, <2>9, <2>10, <2>11, <2>12, <2>13 DEF AreaInv
<1>3. CASE UNCHANGED heapVars
  BY <1>3 DEF heapVars, AreaInv, AreaTypes, AreaEnd
<1>4. CASE init_syscall_table \/ boot_set
  BY <1>3, <1>4 DEF init_syscall_table, boot_set
<1>5. CASE FileNext
  BY <1>3, <1>5 DEF FileNext, sys_open, sys_access, sys_close, sys_readv, sys_lseek_impl, grow_fds
<1>6. CASE UNCHANGED muslcVars
  BY <1>3, <1>6 DEF muslcVars, heapVars
<1> QED
  BY <1>1, <1>2, <1>4, <1>5, <1>6 DEF MuslcNext, AreaNext

-----------------------------------------------------------------------------
(* The heap in a vspace                                                    *)

(* Every page of the region is mapped to the frame it was given.            *)
Holds(m, r) ==
  \A k \in 1 .. Len(r.frames) : r.start + k - 1 \in DOMAIN m /\ m[r.start + k - 1] = r.frames[k]

DynTypes ==
  /\ DOMAIN dyn = {"map", "brk", "next", "held"}
  /\ DOMAIN dyn.map \subseteq Nat /\ dyn.brk \in Nat /\ dyn.next \in Nat
  /\ granted \subseteq [start : Nat, frames : Seq(Nat)]

BelowBreakMapped == dyn.brk # 0 => BrkStart .. dyn.brk - 1 \subseteq DOMAIN dyn.map \cap BrkPages

(* What is mapped besides the pages of the break belongs to a region.       *)
Owned == \A q \in DOMAIN dyn.map \ BrkPages : \E r \in granted : r.start # 0 /\ q \in RegionPages(r)

(* The regions are mapped, apart from each other and from the pages of the  *)
(* break: no call for one of them can take a page of another.               *)
DynInv ==
  /\ DynTypes
  /\ \A r \in granted : r.start # 0 => Holds(dyn.map, r) /\ RegionPages(r) \cap BrkPages = {}
  /\ \A r, q \in granted : r # q /\ r.start # 0 /\ q.start # 0 => RegionPages(r) \cap RegionPages(q) = {}
  /\ BelowBreakMapped
  /\ Owned

(* An assertion that fails stops the program. *)
DynKept == ~halted => DynInv

(* A nonempty set of natural numbers has a least one. *)
LEMMA LeastPage ==
  ASSUME NEW S \in SUBSET Nat, S # {}
  PROVE  Min(S) \in S
<1>1. PICK x \in S : \A y \in S : ~(<<y, x>> \in OpToRel(<, Nat))
  BY WFMin, NatLessThanWellFounded
<1>2. ASSUME NEW y \in S, y < x
      PROVE  FALSE
  <2>1. <<y, x>> \in Nat \X Nat
    OBVIOUS
  <2>2. <<y, x>>[1] < <<y, x>>[2]
    BY <1>2
  <2>3. <<y, x>> \in OpToRel(<, Nat)
    BY <2>1, <2>2, Zenon DEF OpToRel
  <2> QED
    BY <1>1, <2>3
<1>3. \A y \in S : x <= y
  BY <1>2
<1> QED
  BY <1>3 DEF Min

(* A reservation covers pages that neither a region nor the break has.      *)
LEMMA RangeFree ==
  ASSUME NEW d, NEW n \in Nat \ {0}, NEW p \in Ranges(d, n)
  PROVE  /\ p \in Nat \ {0} /\ p .. p + n - 1 \subseteq Nat
         /\ (p .. p + n - 1) \cap (DOMAIN d.map \cup BrkPages) = {}
<1>1. VPages \in Nat
  BY MuslcAssumption
<1>2. p \in 1 .. VPages /\ p .. p + n - 1 \subseteq 1 .. VPages \ (DOMAIN d.map \cup BrkPages)
  BY DEF Ranges, EmptyPages
<1>3. p \in Nat \ {0} /\ p .. p + n - 1 \subseteq Nat
  BY <1>1, <1>2
<1>4. (p .. p + n - 1) \cap (DOMAIN d.map \cup BrkPages) = {}
  BY <1>2
<1> QED
  BY <1>3, <1>4

LEMMA FramesAre ==
  ASSUME NEW n \in Nat, DynTypes
  PROVE  NewFrames(n) \in Seq(Nat) /\ Len(NewFrames(n)) = n
BY DEF NewFrames, DynTypes

(* The frames of a region are where they have been mapped. *)
LEMMA HoldsThere ==
  ASSUME NEW m, DOMAIN m \subseteq Nat, NEW r, r.start \in Nat, r.frames \in Seq(Nat)
  PROVE  Holds(MapAt(m, r.start, r.frames), r)
<1> DEFINE p == r.start
           frames == r.frames
<1>1. p \in Nat /\ frames \in Seq(Nat)
  OBVIOUS
<1> HIDE DEF p, frames
<1>2. \A k \in 1 .. Len(frames) :
        p + k - 1 \in DOMAIN MapAt(m, p, frames) /\ MapAt(m, p, frames)[p + k - 1] = frames[k]
  BY <1>1 DEF MapAt
<1> QED
  BY <1>2 DEF Holds, p, frames

(* A region stays as it is when only pages elsewhere change. *)
LEMMA KeptAside ==
  ASSUME NEW m, NEW m2, NEW ps, DOMAIN m \ ps \subseteq DOMAIN m2,
         \A q \in DOMAIN m \ ps : m2[q] = m[q],
         NEW r \in [start : Nat, frames : Seq(Nat)], Holds(m, r), RegionPages(r) \cap ps = {}
  PROVE  Holds(m2, r)
<1> SUFFICES ASSUME NEW k \in 1 .. Len(r.frames)
             PROVE  r.start + k - 1 \in DOMAIN m2 /\ m2[r.start + k - 1] = r.frames[k]
  BY DEF Holds
<1>1. r.start + k - 1 \in RegionPages(r)
  BY DEF RegionPages
<1>2. r.start + k - 1 \in DOMAIN m /\ m[r.start + k - 1] = r.frames[k]
  BY DEF Holds
<1> QED
  BY <1>1, <1>2

(* A region that holds has its pages mapped. *)
LEMMA HeldPages ==
  ASSUME NEW m, NEW r \in [start : Nat, frames : Seq(Nat)], Holds(m, r)
  PROVE  RegionPages(r) \subseteq DOMAIN m
<1> SUFFICES ASSUME NEW q \in RegionPages(r)
             PROVE  q \in DOMAIN m
  OBVIOUS
<1>1. q - r.start + 1 \in 1 .. Len(r.frames) /\ q = r.start + (q - r.start + 1) - 1
  BY DEF RegionPages
<1> QED
  BY <1>1 DEF Holds

(* What is left to show of a step that leaves the break where it was and    *)
(* unmaps nothing of it: the regions.                                       *)
LEMMA DynInvFrom ==
  ASSUME DynTypes', BelowBreakMapped', Owned',
         NEW kept \in SUBSET granted', NEW r0,
         granted' \subseteq kept \cup {r0},
         r0.start # 0 => Holds(dyn'.map, r0) /\ RegionPages(r0) \cap BrkPages = {},
         \A r \in kept : r.start # 0 =>
           /\ Holds(dyn'.map, r) /\ RegionPages(r) \cap BrkPages = {}
           /\ r0.start # 0 /\ r # r0 => RegionPages(r) \cap RegionPages(r0) = {},
         \A r, q \in kept : r # q /\ r.start # 0 /\ q.start # 0 => RegionPages(r) \cap RegionPages(q) = {}
  PROVE  DynInv'
<1>1. \A r \in granted' : r.start # 0 => Holds(dyn'.map, r) /\ RegionPages(r) \cap BrkPages = {}
  OBVIOUS
<1>2. \A r, q \in granted' : r # q /\ r.start # 0 /\ q.start # 0 => RegionPages(r) \cap RegionPages(q) = {}
  <2> SUFFICES ASSUME NEW r \in granted', NEW q \in granted', r # q, r.start # 0, q.start # 0
               PROVE  RegionPages(r) \cap RegionPages(q) = {}
    OBVIOUS
  <2>1. CASE r \in kept /\ q \in kept
    BY <2>1
  <2>2. CASE r \in kept /\ q = r0
    BY <2>2
  <2>3. CASE r = r0 /\ q \in kept
    <3>1. RegionPages(q) \cap RegionPages(r) = {}
      BY <2>3
    <3> QED
      BY <3>1
  <2> QED
    BY <2>1, <2>2, <2>3
<1> QED
  BY <1>1, <1>2 DEF DynInv, Holds, RegionPages

LEMMA DynStep ==
  ASSUME DynInv, MuslcNext("dynamic") \/ UNCHANGED muslcVars, ~halted'
  PROVE  DynInv'
<1> USE DEF BelowBreakMapped
<1>0. /\ DynTypes /\ BelowBreakMapped
      /\ BrkPages \subseteq Nat \ {0} /\ BrkStart \in BrkPages /\ BrkStart \in Nat
  BY LeastPage, MuslcAssumption DEF DynInv, BrkStart
<1>o. \A q \in DOMAIN dyn.map \ BrkPages : \E r \in granted : r.start # 0 /\ q \in RegionPages(r)
  BY DEF DynInv, Owned
<1>a. \A r \in granted : r \in [start : Nat, frames : Seq(Nat)]
  BY <1>0 DEF DynTypes
<1>b. \A r \in granted : r.start # 0 => Holds(dyn.map, r) /\ RegionPages(r) \cap BrkPages = {}
  BY DEF DynInv
<1>c. \A r, q \in granted : r # q /\ r.start # 0 /\ q.start # 0 => RegionPages(r) \cap RegionPages(q) = {}
  BY DEF DynInv
<1>d. DOMAIN dyn.map \subseteq Nat /\ DOMAIN dyn = {"map", "brk", "next", "held"} /\ dyn.next \in Nat /\ dyn.brk \in Nat
  BY <1>0 DEF DynTypes
<1>1. CASE sys_brk_dynamic_bottom
  <2>1. dyn'.map = dyn.map /\ dyn'.brk = BrkStart /\ dyn'.next = dyn.next /\ DOMAIN dyn' = DOMAIN dyn
        /\ granted' = granted
    BY <1>1, <1>d DEF sys_brk_dynamic_bottom
  <2>2. DynTypes' /\ BelowBreakMapped'
    BY <1>0, <2>1 DEF DynTypes
  <2> QED
    BY <1>b, <1>c, <1>o, <2>1, <2>2 DEF DynInv, Owned
<1>2. CASE sys_brk_dynamic
  <2> DEFINE p == dyn.brk
             new == NewFrames(1)
  <2>1. p \in BrkPages /\ p \notin DOMAIN dyn.map /\ granted' = granted /\ p \in Nat
    BY <1>2, <1>d DEF sys_brk_dynamic
  <2>2. /\ dyn'.map = MapAt(dyn.map, p, new) /\ dyn'.brk = p + 1 /\ dyn'.next = dyn.next + 1
        /\ DOMAIN dyn' = DOMAIN dyn
    BY <1>2, <1>d DEF sys_brk_dynamic, BrkAdvanced
  <2>3. new \in Seq(Nat) /\ Len(new) = 1
    BY <1>0, FramesAre
  <2> HIDE DEF p, new
  <2>4. p .. p + Len(new) - 1 = {p}
    BY <2>1, <2>3
  <2>5. DOMAIN dyn'.map = DOMAIN dyn.map \cup {p}
    BY <2>2, <2>4 DEF MapAt
  <2>6. DynTypes'
    BY <1>0, <1>d, <2>1, <2>2, <2>5 DEF DynTypes
  <2>7. BelowBreakMapped'
    <3>1. p # 0 /\ BrkStart .. p - 1 \subseteq DOMAIN dyn.map \cap BrkPages
      BY <1>0, <2>1 DEF p
    <3> QED
      BY <1>0, <2>1, <2>2, <2>5, <3>1
  <2>8. ASSUME NEW r \in granted, r.start # 0
        PROVE  Holds(dyn'.map, r)
    <3>1. r \in [start : Nat, frames : Seq(Nat)] /\ Holds(dyn.map, r) /\ RegionPages(r) \cap BrkPages = {}
      BY <1>a, <1>b, <2>8
    <3>2. RegionPages(r) \cap {p} = {}
      BY <2>1, <3>1
    <3>3. \A q \in DOMAIN dyn.map \ {p} : dyn'.map[q] = dyn.map[q]
      BY <2>2, <2>4 DEF MapAt
    <3> QED
      BY <2>5, <3>1, <3>2, <3>3, KeptAside
  <2> QED
    BY <1>b, <1>c, <1>o, <2>1, <2>5, <2>6, <2>7, <2>8 DEF DynInv, Owned
<1>3. ASSUME NEW n \in PageCounts, sys_mmap_impl_dynamic(n)
      PROVE  DynInv'
  <2> DEFINE new == NewFrames(n)
  <2>0. n \in Nat \ {0} /\ new \in Seq(Nat) /\ Len(new) = n
    BY <1>0, FramesAre, MuslcAssumption
  <2>1. CASE dyn' = dyn /\ granted' = granted \cup {[start |-> 0, frames |-> new]}
    <3> DEFINE r0 == [start |-> 0, frames |-> new]
    <3>1. r0 \in [start : Nat, frames : Seq(Nat)] /\ r0.start = 0
      BY <2>0
    <3> HIDE DEF r0, new
    <3>2. DynTypes' /\ BelowBreakMapped'
      BY <1>0, <2>1, <3>1 DEF DynTypes, r0
    <3>3. granted' = granted \cup {r0}
      BY <2>1 DEF r0
    <3>4. Owned'
      BY <1>o, <2>1, <3>3 DEF Owned
    <3>5. \A r \in granted' : r.start # 0 => r \in granted
      BY <3>1, <3>3
    <3>6. dyn' = dyn
      BY <2>1
    <3>7. \A r \in granted' : r.start # 0 => Holds(dyn'.map, r) /\ RegionPages(r) \cap BrkPages = {}
      BY <1>b, <3>5, <3>6
    <3>8. \A r, q \in granted' : r # q /\ r.start # 0 /\ q.start # 0 => RegionPages(r) \cap RegionPages(q) = {}
      BY <1>c, <3>5
    <3> QED
      BY <3>2, <3>4, <3>7, <3>8 DEF DynInv, Holds, RegionPages
  <2>2. ASSUME NEW p \in Ranges(dyn, n),
               dyn' = [dyn EXCEPT !.map = MapAt(@, p, new), !.next = @ + n],
               granted' = granted \cup {[start |-> p, frames |-> new]}
        PROVE  DynInv'
    <3> DEFINE r0 == [start |-> p, frames |-> new]
    <3>1. /\ p \in Nat \ {0} /\ (p .. p + n - 1) \cap (DOMAIN dyn.map \cup BrkPages) = {}
          /\ p .. p + n - 1 \subseteq Nat
      BY <2>0, <2>2, RangeFree
    <3>2. /\ dyn'.map = MapAt(dyn.map, p, new) /\ dyn'.brk = dyn.brk /\ dyn'.next = dyn.next + n
          /\ DOMAIN dyn' = DOMAIN dyn
      BY <1>d, <2>2
    <3> HIDE DEF new
    <3>3. r0 \in [start : Nat, frames : Seq(Nat)] /\ r0.start # 0 /\ RegionPages(r0) = p .. p + n - 1
      BY <2>0, <3>1 DEF RegionPages
    <3>4. DOMAIN dyn'.map = DOMAIN dyn.map \cup p .. p + n - 1
      BY <2>0, <3>2 DEF MapAt
    <3>5. DynTypes' /\ BelowBreakMapped'
      BY <1>0, <1>d, <2>0, <2>2, <3>1, <3>2, <3>3, <3>4 DEF DynTypes
    <3>6. Holds(dyn'.map, r0) /\ RegionPages(r0) \cap BrkPages = {}
      <4>1. \A k \in 1 .. Len(new) : p + k - 1 \in DOMAIN dyn'.map /\ dyn'.map[p + k - 1] = new[k]
        BY <2>0, <3>1, <3>2 DEF MapAt
      <4> QED
        BY <3>1, <3>3, <4>1 DEF Holds
    <3>7. ASSUME NEW r \in granted, r.start # 0
          PROVE  /\ Holds(dyn'.map, r) /\ RegionPages(r) \cap BrkPages = {}
                 /\ RegionPages(r) \cap RegionPages(r0) = {}
      <4>1. r \in [start : Nat, frames : Seq(Nat)] /\ Holds(dyn.map, r) /\ RegionPages(r) \cap BrkPages = {}
        BY <1>a, <1>b, <3>7
      <4>2. RegionPages(r) \cap p .. p + n - 1 = {}
        BY <3>1, <4>1, HeldPages
      <4>3. \A q \in DOMAIN dyn.map \ (p .. p + n - 1) : dyn'.map[q] = dyn.map[q]
        BY <2>0, <3>2 DEF MapAt
      <4>4. Holds(dyn'.map, r)
        <5> DEFINE ps == p .. p + n - 1
        <5>1. /\ RegionPages(r) \cap ps = {} /\ DOMAIN dyn.map \ ps \subseteq DOMAIN dyn'.map
              /\ \A q \in DOMAIN dyn.map \ ps : dyn'.map[q] = dyn.map[q]
          BY <3>4, <4>2, <4>3
        <5> HIDE DEF ps
        <5> QED
          BY <4>1, <5>1, KeptAside
      <4> QED
        BY <3>3, <4>1, <4>2, <4>4
    <3>8. granted' = granted \cup {r0} /\ granted \in SUBSET granted'
      BY <2>2
    <3> HIDE DEF r0
    <3>9. Owned'
      BY <1>o, <3>3, <3>4, <3>8 DEF Owned
    <3> QED
      BY <1>c, <3>5, <3>6, <3>7, <3>8, <3>9, DynInvFrom
  <2> QED
    BY <1>3, <2>1, <2>2 DEF sys_mmap_impl_dynamic
<1>4. ASSUME NEW r0 \in granted, NEW n \in PageCounts, sys_mremap_dynamic(r0, n)
      PROVE  DynInv'
  <2> DEFINE more == NewFrames(n - Len(r0.frames))
             ps == r0.start .. r0.start + Len(r0.frames) - 1
             u == Unmap(dyn.map, ps)
             d == [dyn EXCEPT !.map = u]
  <2>0. /\ r0 \in [start : Nat, frames : Seq(Nat)] /\ r0.start # 0 /\ n >= Len(r0.frames)
        /\ n \in Nat \ {0} /\ RegionPages(r0) = ps
    BY <1>a, <1>4, MuslcAssumption DEF sys_mremap_dynamic, RegionPages
  <2>d. /\ d.map = u /\ d.brk = dyn.brk /\ d.next = dyn.next
        /\ DOMAIN d = {"map", "brk", "next", "held"}
    BY <1>d
  <2>r. \/ Restore(d, r0)
        \/ \E p \in Ranges(d, n) :
              \/ Remapped(d, r0, n, p)
              \/ \E k \in 1 .. Len(r0.frames) - 1 : HalfRemapped(d, r0, p, k)
    BY <1>4, <2>0 DEF sys_mremap_dynamic
  <2> HIDE DEF d
  <2>1. /\ r0.start \in Nat /\ r0.frames \in Seq(Nat) /\ Len(r0.frames) \in Nat
        /\ Holds(dyn.map, r0) /\ ps \cap BrkPages = {} /\ ps \subseteq DOMAIN dyn.map
    BY <1>b, <2>0, HeldPages
  <2>2. more \in Seq(Nat) /\ Len(more) = n - Len(r0.frames)
    <3>1. n - Len(r0.frames) \in Nat
      BY <2>0, <2>1
    <3> QED
      BY <1>0, <3>1, FramesAre, Zenon
  <2>3. DOMAIN u = DOMAIN dyn.map \ ps /\ DOMAIN u \subseteq Nat
    BY <1>d DEF Unmap
  <2>u. \A q \in DOMAIN dyn.map \ ps : u[q] = dyn.map[q]
    BY DEF Unmap
  <2>4. ASSUME NEW r \in granted \ {r0}, r.start # 0
        PROVE  /\ r \in [start : Nat, frames : Seq(Nat)]
               /\ Holds(u, r) /\ RegionPages(r) \cap BrkPages = {} /\ RegionPages(r) \cap ps = {}
    <3>1. r \in [start : Nat, frames : Seq(Nat)] /\ Holds(dyn.map, r) /\ RegionPages(r) \cap BrkPages = {}
      BY <1>a, <1>b, <2>4
    <3>2. RegionPages(r) \cap ps = {}
      BY <1>c, <2>0, <2>4
    <3> HIDE DEF ps, u
    <3> QED
      BY <2>3, <2>u, <3>1, <3>2, KeptAside
  <2>5. CASE Restore(d, r0)
    <3>0. dyn' = [d EXCEPT !.map = Restored(@, r0), !.held = @ \cup RegionPages(r0)] /\ granted' = granted
      BY <2>5 DEF Restore
    <3>1. /\ dyn'.map = MapAt(u, r0.start, r0.frames) /\ dyn'.brk = dyn.brk /\ dyn'.next = dyn.next
          /\ DOMAIN dyn' = DOMAIN dyn
      BY <1>d, <2>d, <3>0 DEF Restored
    <3> HIDE DEF u
    <3>2. DOMAIN dyn'.map = DOMAIN dyn.map
      BY <2>1, <2>3, <3>1 DEF MapAt
    <3>3. DynTypes' /\ BelowBreakMapped'
      BY <1>0, <3>0, <3>1, <3>2 DEF DynTypes
    <3>4. Holds(dyn'.map, r0)
      BY <2>1, <2>3, <3>1, HoldsThere, Zenon
    <3>5. ASSUME NEW r \in granted \ {r0}, r.start # 0
          PROVE  Holds(dyn'.map, r)
      <4>1. r \in [start : Nat, frames : Seq(Nat)] /\ Holds(u, r)
            /\ RegionPages(r) \cap ps = {}
        BY <2>4, <3>5
      <4>2. \A q \in DOMAIN u \ ps : dyn'.map[q] = u[q]
        BY <3>1 DEF MapAt
      <4> HIDE DEF ps
      <4> QED
        BY <2>3, <3>2, <4>1, <4>2, KeptAside
    <3>6. \A r \in granted : r.start # 0 => Holds(dyn'.map, r)
      BY <3>4, <3>5
    <3>7. Owned'
      BY <1>o, <3>0, <3>2 DEF Owned
    <3> QED
      BY <1>b, <1>c, <3>0, <3>3, <3>6, <3>7 DEF DynInv
  <2>6. ASSUME NEW p \in Ranges(d, n), Remapped(d, r0, n, p)
        PROVE  DynInv'
    <3> DEFINE all == r0.frames \o more
               r1 == [start |-> p, frames |-> all]
    <3>1. /\ p \in Nat \ {0} /\ (p .. p + n - 1) \cap (DOMAIN u \cup BrkPages) = {}
          /\ p .. p + n - 1 \subseteq Nat
      BY <2>0, <2>d, <2>6, RangeFree
    <3>2. /\ dyn'.map = MapAt(u, p, all) /\ dyn'.brk = dyn.brk
          /\ dyn'.next = dyn.next + (n - Len(r0.frames)) /\ DOMAIN dyn' = DOMAIN dyn
          /\ granted' = (granted \ {r0}) \cup {r1}
      BY <1>d, <2>1, <2>d, <2>6 DEF Remapped
    <3> HIDE DEF u, more
    <3>3. Len(all) = n /\ all \in Seq(Nat)
      <4> DEFINE old == r0.frames
      <4>1. old \in Seq(Nat) /\ more \in Seq(Nat) /\ Len(more) = n - Len(old) /\ n \in Nat
        BY <2>0, <2>1, <2>2
      <4> HIDE DEF old
      <4>2. Len(old \o more) = n /\ old \o more \in Seq(Nat)
        BY <4>1
      <4> QED
        BY <4>2 DEF old
    <3> HIDE DEF all
    <3>4. /\ r1 \in [start : Nat, frames : Seq(Nat)] /\ r1.start = p /\ r1.start # 0 /\ r1.frames = all
          /\ RegionPages(r1) = p .. p + n - 1
      BY <3>1, <3>3 DEF RegionPages
    <3>5. Holds(dyn'.map, r1) /\ DOMAIN dyn'.map = DOMAIN u \cup p .. p + n - 1
      <4>1. DOMAIN dyn'.map = DOMAIN u \cup p .. p + n - 1
        BY <3>2, <3>3 DEF MapAt
      <4> HIDE DEF r1
      <4>2. Holds(dyn'.map, r1)
        BY <2>3, <3>2, <3>3, <3>4, HoldsThere
      <4> QED
        BY <4>1, <4>2
    <3>6. DynTypes'
      <4>1. granted' \subseteq [start : Nat, frames : Seq(Nat)]
        BY <1>a, <3>2, <3>4
      <4>2. DOMAIN dyn'.map \subseteq Nat
        BY <2>3, <3>1, <3>5
      <4>3. dyn'.next \in Nat
        BY <1>d, <2>0, <2>1, <3>2
      <4> QED
        BY <1>d, <3>2, <4>1, <4>2, <4>3 DEF DynTypes
    <3>7. BelowBreakMapped'
      <4> SUFFICES ASSUME dyn.brk # 0, NEW q \in BrkStart .. dyn.brk - 1
                   PROVE  q \in DOMAIN u /\ q \in BrkPages
        BY <3>2, <3>5
      <4>1. q \in DOMAIN dyn.map /\ q \in BrkPages
        BY <1>0
      <4> QED
        BY <2>1, <2>3, <4>1
    <3>8. ASSUME NEW r \in granted \ {r0}, r.start # 0
          PROVE  /\ Holds(dyn'.map, r) /\ RegionPages(r) \cap BrkPages = {}
                 /\ RegionPages(r) \cap RegionPages(r1) = {}
      <4>1. r \in [start : Nat, frames : Seq(Nat)] /\ Holds(u, r) /\ RegionPages(r) \cap BrkPages = {}
        BY <2>4, <3>8
      <4>2. RegionPages(r) \cap p .. p + n - 1 = {}
        BY <3>1, <4>1, HeldPages
      <4>3. \A q \in DOMAIN u \ (p .. p + n - 1) : dyn'.map[q] = u[q]
        BY <3>2, <3>3 DEF MapAt
      <4>4. Holds(dyn'.map, r)
        <5> DEFINE qs == p .. p + n - 1
        <5>1. /\ RegionPages(r) \cap qs = {} /\ DOMAIN u \ qs \subseteq DOMAIN dyn'.map
              /\ \A q \in DOMAIN u \ qs : dyn'.map[q] = u[q]
          BY <3>5, <4>2, <4>3
        <5> HIDE DEF qs
        <5> QED
          BY <4>1, <5>1, KeptAside
      <4> QED
        BY <3>4, <4>1, <4>2, <4>4
    <3> HIDE DEF r1
    <3>9. granted \ {r0} \in SUBSET granted' /\ granted' \subseteq (granted \ {r0}) \cup {r1}
      BY <3>2
    <3>10. \A r, q \in granted \ {r0} : r # q /\ r.start # 0 /\ q.start # 0 => RegionPages(r) \cap RegionPages(q) = {}
      BY <1>c
    <3>11. Owned'
      <4> SUFFICES ASSUME NEW q \in DOMAIN dyn'.map \ BrkPages
                   PROVE  \E r \in granted' : r.start # 0 /\ q \in RegionPages(r)
        BY DEF Owned
      <4>1. CASE q \in p .. p + n - 1
        BY <3>2, <3>4, <4>1
      <4>2. CASE q \in DOMAIN u
        <5>1. q \in DOMAIN dyn.map \ BrkPages /\ q \notin RegionPages(r0)
          BY <2>0, <2>3, <4>2
        <5>2. PICK r \in granted : r.start # 0 /\ q \in RegionPages(r)
          BY <1>o, <5>1
        <5>3. r # r0
          BY <5>1, <5>2
        <5> QED
          BY <3>2, <5>2, <5>3
      <4> QED
        BY <3>5, <4>1, <4>2
    <3> QED
      <4>1. RegionPages(r1) \cap BrkPages = {}
        BY <3>1, <3>4
      <4> QED
        BY <3>5, <3>6, <3>7, <3>8, <3>9, <3>10, <3>11, <4>1, DynInvFrom
  <2> QED
    BY <2>r, <2>5, <2>6 DEF HalfRemapped
<1>5. CASE UNCHANGED muslcVars
  BY <1>5 DEF muslcVars, DynInv, DynTypes, Owned
<1> QED
  BY <1>1, <1>2, <1>3, <1>4, <1>5 DEF MuslcNext, DynNext

(* Whatever calls a program makes of the C library glue, for any sizes and  *)
(* any failures of vspace operations: as long as no assertion has failed,   *)
(* every region that sys_mmap_impl() gave it, in the area or in the vspace, *)
(* is its own (those at NULL aside), the heap below the break is there, and *)
(* no page is left mapped without an owner.                                 *)
THEOREM MemoryAlwaysKept ==
  ASSUME NEW CONSTANT part
  PROVE  MuslcSpec(part) => []MemoryKept
<1>1. CASE part = "dynamic"
  <2>1. MuslcInit => DynKept
    BY DEF MuslcInit, DynKept, DynInv, DynTypes, BelowBreakMapped, Owned
  <2>2. DynKept /\ [MuslcNext(part)]_muslcVars => DynKept'
    <3> SUFFICES ASSUME DynKept, [MuslcNext(part)]_muslcVars, ~halted'
                 PROVE  DynInv'
      BY DEF DynKept
    <3>1. ~halted
      BY DEF MuslcNext, muslcVars
    <3> QED
      BY <1>1, <3>1, DynStep DEF DynKept
  <2>3. DynKept => MemoryKept
    <3> SUFFICES ASSUME DynInv
                 PROVE  MemoryKept
      BY DEF DynKept, MemoryKept
    <3>1. \A r \in granted : DOMAIN r = {"start", "frames"}
      BY DEF DynInv, DynTypes
    <3>2. "length" \notin {"start", "frames"} /\ "frames" \in {"start", "frames"}
      OBVIOUS
    <3>3. \A r \in granted \ AtNull : r \in granted /\ r.start # 0
      BY DEF AtNull
    <3>4. \A r \in granted : r.start # 0 => r \in granted \ AtNull
      BY DEF AtNull
    <3>5. \A r \in granted \ AtNull : Holds(dyn.map, r)
      BY <3>3 DEF DynInv
    <3>6. \A q \in DOMAIN dyn.map \ BrkPages :
            \E r \in granted \ AtNull : "frames" \in DOMAIN r /\ q \in RegionPages(r)
      BY <3>1, <3>2, <3>4 DEF DynInv, Owned
    <3>7. dyn.brk # 0 => BrkStart .. dyn.brk - 1 \subseteq DOMAIN dyn.map
      BY DEF DynInv, BelowBreakMapped
    <3> QED
      BY <3>1, <3>2, <3>5, <3>6, <3>7 DEF Holds, MemoryKept
  <2> QED
    BY <2>1, <2>2, <2>3, PTL DEF MuslcSpec
<1>2. CASE part # "dynamic"
  <2>1. MuslcInit => AreaInv
    <3> SUFFICES ASSUME MuslcInit
                 PROVE  AreaInv
      OBVIOUS
    <3>1. area \in [size : Nat, compiled : BOOLEAN, base : Nat, top : Nat] /\ area.base = Page
          /\ area.top = Page + area.size
      BY MuslcAssumption DEF MuslcInit, Areas
    <3> QED
      BY <3>1, MuslcAssumption DEF MuslcInit, AreaInv, AreaTypes, AreaEnd
  <2>2. AreaInv /\ [MuslcNext(part)]_muslcVars => AreaInv'
    BY <1>2, AreaStep
  <2>3. AreaInv => MemoryKept
    <3> SUFFICES ASSUME AreaInv
                 PROVE  MemoryKept
      OBVIOUS
    <3>1. \A r \in granted : DOMAIN r = {"start", "length"} /\ r.start \in Nat
      BY DEF AreaInv, AreaTypes, Regions
    <3>2. \A r \in granted : area.base <= r.start
      BY <3>1 DEF AreaInv, AreaTypes
    <3>3. "frames" \notin {"start", "length"}
      OBVIOUS
    <3> QED
      BY <3>1, <3>2, <3>3 DEF AreaInv, MemoryKept
  <2> QED
    BY <2>1, <2>2, <2>3, PTL DEF MuslcSpec
<1> QED
  BY <1>1, <1>2

-----------------------------------------------------------------------------
(* Descriptors                                                             *)

OpenFile(e) ==
  e = [file |-> e.file, offset |-> e.offset] /\ e.file \in DOMAIN FileSizes /\ e.offset \in 0 .. FileSizes[e.file]

(* A table of n descriptors, with its stack of free ones, is right for what *)
(* the application has open.                                                *)
TablesOK(table, free, v, n) ==
  /\ n \in Nat /\ InitialFds <= n /\ DOMAIN table = UserFds(n)
  /\ free \in Seq(Int) /\ IsInjective(free)
  /\ DOMAIN v \subseteq UserFds(n)
  /\ UserFds(InitialFds) \ DOMAIN v \subseteq Range(free) /\ Range(free) \subseteq UserFds(n) \ DOMAIN v
  /\ \A fd \in Range(free) : table[fd] = FreeEntry
  /\ \A fd \in DOMAIN v :
       /\ OpenFile(v[fd])
       /\ table[fd] = [type |-> "cpio", file |-> v[fd].file, current |-> v[fd].offset]

(* The tables that the next call finds, or makes, are right.                *)
FileInv ==
  /\ fd_table = <<>> => view = <<>> /\ DOMAIN view = {} /\ num_fds = InitialFds
  /\ fd_table # <<>> => TablesOK(fd_table, free_fd_table, view, num_fds)

(* An assertion that fails stops the program. *)
FilesKept == ~halted => FileInv

LEMMA Pushed ==
  ASSUME NEW s \in Seq(Int), IsInjective(s), NEW x \in Int, x \notin Range(s)
  PROVE  Append(s, x) \in Seq(Int) /\ IsInjective(Append(s, x)) /\ Range(Append(s, x)) = Range(s) \cup {x}
<1>1. Append(s, x) \in Seq(Int) /\ Len(Append(s, x)) = Len(s) + 1 /\ Append(s, x)[Len(s) + 1] = x
      /\ \A k \in 1 .. Len(s) : Append(s, x)[k] = s[k]
  OBVIOUS
<1>2. DOMAIN s = 1 .. Len(s) /\ DOMAIN Append(s, x) = 1 .. Len(s) + 1 /\ Len(s) \in Nat
  BY <1>1
<1>3. \A k \in 1 .. Len(s) : s[k] # x
  BY <1>2 DEF Range
<1>4. IsInjective(Append(s, x))
  BY <1>1, <1>2, <1>3 DEF IsInjective
<1>5. Range(Append(s, x)) = Range(s) \cup {x}
  BY <1>1, <1>2 DEF Range
<1> QED
  BY <1>1, <1>4, <1>5

LEMMA Popped ==
  ASSUME NEW s \in Seq(Int), IsInjective(s), s # <<>>
  PROVE  /\ Front(s) \in Seq(Int) /\ IsInjective(Front(s))
         /\ Last(s) \in Range(s) /\ Range(Front(s)) = Range(s) \ {Last(s)}
<1>1. Len(s) \in Nat \ {0} /\ DOMAIN s = 1 .. Len(s)
  OBVIOUS
<1>2. Front(s) = SubSeq(s, 1, Len(s) - 1) /\ Last(s) = s[Len(s)]
  BY DEF Front, Last
<1>3. /\ Front(s) \in Seq(Int) /\ Len(Front(s)) = Len(s) - 1 /\ DOMAIN Front(s) = 1 .. Len(s) - 1
      /\ \A k \in 1 .. Len(s) - 1 : Front(s)[k] = s[k]
  BY <1>1, <1>2
<1>4. IsInjective(Front(s))
  <2>1. \A a, b \in 1 .. Len(s) : s[a] = s[b] => a = b
    BY <1>1 DEF IsInjective
  <2>2. \A a, b \in 1 .. Len(s) - 1 : Front(s)[a] = Front(s)[b] => a = b
    <3> HIDE DEF Front
    <3> QED
      BY <1>1, <1>3, <2>1
  <2> QED
    BY <1>3, <2>2 DEF IsInjective
<1>5. Last(s) \in Range(s)
  BY <1>1, <1>2 DEF Range
<1>6. Range(Front(s)) = Range(s) \ {Last(s)}
  <2>1. ASSUME NEW y \in Range(Front(s))
        PROVE  y \in Range(s) /\ y # Last(s)
    <3>1. PICK k \in 1 .. Len(s) - 1 : y = s[k]
      BY <1>3 DEF Range
    <3> QED
      BY <1>1, <1>2, <3>1 DEF Range, IsInjective
  <2>2. ASSUME NEW y \in Range(s), y # Last(s)
        PROVE  y \in Range(Front(s))
    <3>1. PICK k \in 1 .. Len(s) : y = s[k]
      BY <1>1 DEF Range
    <3>2. k \in 1 .. Len(s) - 1
      BY <1>1, <1>2, <2>2, <3>1
    <3> QED
      BY <1>3, <3>1, <3>2 DEF Range
  <2> QED
    BY <2>1, <2>2
<1> QED
  BY <1>3, <1>4, <1>5, <1>6

LEMMA UserFdsAre ==
  ASSUME NEW n \in Nat, InitialFds <= n
  PROVE  UserFds(InitialFds) \subseteq UserFds(n) /\ UserFds(n) \subseteq Int /\ UserFds(InitialFds) # {}
BY MuslcAssumption DEF UserFds

(* The tables that the first call makes. *)
LEMMA FdAllocated ==
  ASSUME num_fds = InitialFds, DOMAIN view = {}
  PROVE  TablesOK(allocate_file_table.table, allocate_file_table.free, view, num_fds)
<1> DEFINE n == num_fds - FirstUserFd
           free == [k \in 1 .. n |-> FirstUserFd + k - 1]
<1>1. n \in Nat /\ num_fds \in Nat /\ FirstUserFd \in Nat
  BY MuslcAssumption
<1>2. allocate_file_table.table = [fd \in UserFds(num_fds) |-> FreeEntry] /\ allocate_file_table.free = free
  BY DEF allocate_file_table
<1>3. free \in Seq(Int) /\ IsInjective(free)
  BY <1>1 DEF IsInjective
<1>4. Range(free) = UserFds(num_fds)
  <2>1. \A fd \in UserFds(num_fds) : fd - FirstUserFd + 1 \in 1 .. n /\ fd = FirstUserFd + (fd - FirstUserFd + 1) - 1
    BY <1>1 DEF UserFds
  <2>2. \A k \in 1 .. n : FirstUserFd + k - 1 \in UserFds(num_fds)
    BY <1>1 DEF UserFds
  <2> QED
    BY <2>1, <2>2 DEF Range
<1> HIDE DEF free, n
<1> QED
  BY <1>1, <1>2, <1>3, <1>4 DEF TablesOK

(* So the tables that a call uses are right. *)
LEMMA TablesFound ==
  ASSUME FileInv
  PROVE  TablesOK(Tables.table, Tables.free, view, num_fds)
BY FdAllocated DEF FileInv, Tables

(* A call that leaves right tables leaves the invariant. *)
LEMMA TablesLeft ==
  ASSUME NEW table, NEW free, fd_table' = table, free_fd_table' = free, TablesOK(table, free, view', num_fds')
  PROVE  FileInv'
<1>1. DOMAIN table # {}
  BY UserFdsAre DEF TablesOK
<1>2. table # <<>>
  BY <1>1
<1> QED
  BY <1>2 DEF FileInv, TablesOK, OpenFile, FreeEntry, UserFds

(* sys_close(), and the failure of sys_open(), free a descriptor.           *)
LEMMA Freed ==
  ASSUME NEW table, NEW free, NEW v, NEW n, TablesOK(table, free, v, n), NEW fd \in DOMAIN v,
         NEW w, DOMAIN w = DOMAIN v \ {fd}, \A x \in DOMAIN w : w[x] = v[x]
  PROVE  TablesOK([table EXCEPT ![fd] = FreeEntry], Append(free, fd), w, n)
<1>1. fd \in UserFds(n) /\ fd \in Int /\ fd \in DOMAIN table /\ fd \notin Range(free)
  BY UserFdsAre DEF TablesOK
<1>2. /\ Append(free, fd) \in Seq(Int) /\ IsInjective(Append(free, fd))
      /\ Range(Append(free, fd)) = Range(free) \cup {fd}
  BY <1>1, Pushed DEF TablesOK
<1> DEFINE table2 == [table EXCEPT ![fd] = FreeEntry]
<1>3. DOMAIN table2 = DOMAIN table /\ table2[fd] = FreeEntry /\ \A x \in DOMAIN table : x # fd => table2[x] = table[x]
  BY <1>1
<1>4. UserFds(n) = DOMAIN table
  BY DEF TablesOK
<1> HIDE DEF table2
<1> DEFINE free2 == Append(free, fd)
<1>5. free2 \in Seq(Int) /\ IsInjective(free2) /\ Range(free2) = Range(free) \cup {fd}
  BY <1>2
<1> HIDE DEF free2
<1>6. /\ UserFds(InitialFds) \ DOMAIN w \subseteq Range(free2)
      /\ Range(free2) \subseteq UserFds(n) \ DOMAIN w /\ DOMAIN w \subseteq UserFds(n)
  BY <1>1, <1>5 DEF TablesOK
<1>7. \A x \in Range(free2) : table2[x] = FreeEntry
  BY <1>3, <1>4, <1>5 DEF TablesOK
<1>8. \A x \in DOMAIN w :
        /\ OpenFile(w[x])
        /\ table2[x] = [type |-> "cpio", file |-> w[x].file, current |-> w[x].offset]
  <2> SUFFICES ASSUME NEW x \in DOMAIN w
               PROVE  /\ OpenFile(w[x])
                      /\ table2[x] = [type |-> "cpio", file |-> w[x].file, current |-> w[x].offset]
    OBVIOUS
  <2>1. x \in DOMAIN v /\ x # fd /\ w[x] = v[x] /\ x \in DOMAIN table
    BY <1>4 DEF TablesOK
  <2>2. OpenFile(v[x]) /\ table[x] = [type |-> "cpio", file |-> v[x].file, current |-> v[x].offset]
    BY <2>1 DEF TablesOK
  <2> QED
    BY <1>3, <2>1, <2>2
<1>9. n \in Nat /\ InitialFds <= n /\ DOMAIN table2 = UserFds(n)
  BY <1>3 DEF TablesOK
<1>10. TablesOK(table2, free2, w, n)
  BY <1>5, <1>6, <1>7, <1>8, <1>9 DEF TablesOK
<1> QED
  BY <1>10 DEF table2, free2

(* sys_open() takes the descriptor on top of the stack.                     *)
LEMMA Taken ==
  ASSUME NEW table, NEW free, NEW v, NEW n, TablesOK(table, free, v, n), free # <<>>,
         NEW f \in DOMAIN FileSizes, NEW fd, fd = Last(free),
         NEW w, DOMAIN w = DOMAIN v \cup {fd}, \A x \in DOMAIN v : x # fd => w[x] = v[x],
         w[fd] = [file |-> f, offset |-> 0]
  PROVE  TablesOK([table EXCEPT ![fd] = [type |-> "cpio", file |-> f, current |-> 0]], Front(free), w, n)
<1> DEFINE entry == [type |-> "cpio", file |-> f, current |-> 0]
           table2 == [table EXCEPT ![fd] = entry]
           free2 == Front(free)
<1>1. /\ free2 \in Seq(Int) /\ IsInjective(free2) /\ fd \in Range(free) /\ Range(free2) = Range(free) \ {fd}
  BY Popped DEF TablesOK
<1>2. UserFds(n) = DOMAIN table
  BY DEF TablesOK
<1>3. fd \in DOMAIN table /\ fd \notin DOMAIN v
  BY <1>1, <1>2 DEF TablesOK
<1> HIDE DEF free2, entry
<1>4. DOMAIN table2 = DOMAIN table /\ table2[fd] = entry /\ \A x \in DOMAIN table : x # fd => table2[x] = table[x]
  BY <1>3
<1> HIDE DEF table2
<1>5. /\ UserFds(InitialFds) \ DOMAIN w \subseteq Range(free2)
      /\ Range(free2) \subseteq UserFds(n) \ DOMAIN w /\ DOMAIN w \subseteq UserFds(n)
  BY <1>1 DEF TablesOK
<1>6. \A x \in Range(free2) : table2[x] = FreeEntry
  BY <1>1, <1>2, <1>4 DEF TablesOK
<1>7. OpenFile(w[fd]) /\ table2[fd] = [type |-> "cpio", file |-> w[fd].file, current |-> w[fd].offset]
  BY <1>4, MuslcAssumption DEF OpenFile, entry
<1>8. ASSUME NEW x \in DOMAIN w
      PROVE  /\ OpenFile(w[x])
             /\ table2[x] = [type |-> "cpio", file |-> w[x].file, current |-> w[x].offset]
  <2>1. CASE x = fd
    BY <1>7, <2>1
  <2>2. CASE x # fd
    <3>1. x \in DOMAIN v /\ w[x] = v[x] /\ x \in DOMAIN table
      BY <1>2, <2>2 DEF TablesOK
    <3>2. OpenFile(v[x]) /\ table[x] = [type |-> "cpio", file |-> v[x].file, current |-> v[x].offset]
      BY <3>1 DEF TablesOK
    <3> QED
      BY <1>4, <2>2, <3>1, <3>2
  <2> QED
    BY <2>1, <2>2
<1>9. n \in Nat /\ InitialFds <= n /\ DOMAIN table2 = UserFds(n)
  BY <1>4 DEF TablesOK
<1>10. TablesOK(table2, free2, w, n)
  BY <1>1, <1>5, <1>6, <1>8, <1>9 DEF TablesOK
<1> QED
  BY <1>10 DEF table2, free2, entry

(* sys_readv() and sys_lseek_impl() move within the file.                   *)
LEMMA Moved ==
  ASSUME NEW table, NEW free, NEW v, NEW n, TablesOK(table, free, v, n), NEW fd \in DOMAIN v,
         NEW pos \in 0 .. FileSizes[v[fd].file]
  PROVE  TablesOK([table EXCEPT ![fd].current = pos], free, [v EXCEPT ![fd].offset = pos], n)
<1> DEFINE w == [v EXCEPT ![fd].offset = pos]
           table2 == [table EXCEPT ![fd].current = pos]
<1>1. /\ OpenFile(v[fd]) /\ fd \in DOMAIN table
      /\ table[fd] = [type |-> "cpio", file |-> v[fd].file, current |-> v[fd].offset]
  BY UserFdsAre DEF TablesOK
<1>2. /\ DOMAIN w = DOMAIN v /\ w[fd] = [v[fd] EXCEPT !.offset = pos]
      /\ \A x \in DOMAIN v : x # fd => w[x] = v[x]
  OBVIOUS
<1>3. w[fd] = [file |-> v[fd].file, offset |-> pos]
  BY <1>1, <1>2 DEF OpenFile
<1>4. /\ DOMAIN table2 = DOMAIN table /\ table2[fd] = [table[fd] EXCEPT !.current = pos]
      /\ \A x \in DOMAIN table : x # fd => table2[x] = table[x]
  BY <1>1
<1>5. table2[fd] = [type |-> "cpio", file |-> v[fd].file, current |-> pos]
  BY <1>1, <1>4
<1> HIDE DEF w, table2
<1>6. OpenFile(w[fd]) /\ table2[fd] = [type |-> "cpio", file |-> w[fd].file, current |-> w[fd].offset]
  BY <1>1, <1>3, <1>5 DEF OpenFile
<1>7. ASSUME NEW x \in DOMAIN w
      PROVE  /\ OpenFile(w[x])
             /\ table2[x] = [type |-> "cpio", file |-> w[x].file, current |-> w[x].offset]
  <2>1. x \in DOMAIN v /\ x \in DOMAIN table
    BY <1>2, UserFdsAre DEF TablesOK
  <2>2. OpenFile(v[x]) /\ table[x] = [type |-> "cpio", file |-> v[x].file, current |-> v[x].offset]
    BY <2>1 DEF TablesOK
  <2> QED
    BY <1>2, <1>4, <1>6, <2>1, <2>2
<1>8. \A x \in Range(free) : x # fd /\ x \in DOMAIN table
  BY UserFdsAre DEF TablesOK
<1>9. TablesOK(table2, free, w, n)
  BY <1>2, <1>4, <1>7, <1>8 DEF TablesOK
<1> QED
  BY <1>9 DEF w, table2

(* Where a read ends. *)
LEMMA ReadWithin ==
  ASSUME NEW size \in Nat, NEW pos \in 0 .. size, NEW len \in Nat
  PROVE  ReadBuffer(size, pos, len) \in 0 .. size
BY DEF ReadBuffer

(* An int is put into an int as it is, and nothing else is.                 *)
LEMMA IntKept ==
  ASSUME NEW x \in Int
  PROVE  /\ ToInt(x) \in -IntMax - 1 .. IntMax
         /\ x \in -IntMax - 1 .. IntMax => ToInt(x) = x
<1> DEFINE d == 2 * IntMax + 2
           y == x + IntMax + 1
<1>1. d \in Nat \ {0} /\ IntMax \in Nat /\ y \in Int
  BY MuslcAssumption
<1>2. y % d \in 0 .. d - 1 /\ (y \in 0 .. d - 1 => y % d = y)
  <2> HIDE DEF d, y
  <2> QED
    BY <1>1
<1>3. ToInt(x) = (y % d) - IntMax - 1
  BY DEF ToInt
<1>4. PICK m : m = y % d
  OBVIOUS
<1>5. ToInt(x) \in -IntMax - 1 .. IntMax
  BY <1>1, <1>2, <1>3, <1>4
<1>6. ASSUME x \in -IntMax - 1 .. IntMax
      PROVE  ToInt(x) = x
  BY <1>1, <1>2, <1>3, <1>4, <1>6
<1> QED
  BY <1>5, <1>6

(* A seek that is not refused stays within the file; by an offset that is   *)
(* an int, it goes where it was asked to.                                   *)
LEMMA SeekWithin ==
  ASSUME NEW e, NEW o \in Int, NEW w \in {"SEEK_SET", "SEEK_CUR", "SEEK_END"},
         FileSizes[e.file] \in 0 .. IntMax, e.current \in 0 .. FileSizes[e.file],
         SeekTarget(e, o, w) # -1
  PROVE  /\ SeekTarget(e, o, w) \in 0 .. FileSizes[e.file]
         /\ o = ToInt(o) => SeekTarget(e, o, w) = SeekUnchecked(e, o, w)
<1> DEFINE size == FileSizes[e.file]
           pos == e.current
           sum == SeekUnchecked(e, o, w)
<1>1. size \in 0 .. IntMax /\ pos \in 0 .. size /\ IntMax \in Nat
  BY MuslcAssumption
<1>2. sum \in Int
  BY <1>1 DEF SeekUnchecked
<1>3. /\ SeekTarget(e, o, w) = ToInt(sum) /\ ~(ToInt(sum) < 0) /\ ~(ToInt(sum) > size)
      /\ ~(w = "SEEK_CUR" /\ ToInt(o) > IntMax - pos) /\ ~(w = "SEEK_END" /\ o > 0)
  BY DEF SeekTarget
<1>4. ToInt(sum) \in Int /\ ToInt(o) \in -IntMax - 1 .. IntMax
  BY <1>2, IntKept
<1>5. ASSUME o = ToInt(o)
      PROVE  ToInt(sum) = sum
  <2>1. o \in -IntMax - 1 .. IntMax
    BY <1>4, <1>5
  <2>2. CASE w = "SEEK_SET"
    BY <1>5, <2>2 DEF SeekUnchecked
  <2>3. CASE w = "SEEK_CUR"
    <3>1. sum = pos + o
      BY <2>3 DEF SeekUnchecked
    <3>2. o <= IntMax - pos
      BY <1>1, <1>3, <1>5, <2>1, <2>3
    <3>3. pos + o \in -IntMax - 1 .. IntMax
      <4> HIDE DEF pos, size
      <4> QED
        BY <1>1, <2>1, <3>2
    <3> QED
      BY <1>2, <3>1, <3>3, IntKept
  <2>4. CASE w = "SEEK_END"
    <3>1. sum = size + o
      BY <2>4 DEF SeekUnchecked
    <3>2. size + o \in -IntMax - 1 .. IntMax
      <4>1. o <= 0
        BY <1>3, <2>1, <2>4
      <4> HIDE DEF pos, size
      <4> QED
        BY <1>1, <2>1, <4>1
    <3> QED
      BY <1>2, <3>1, <3>2, IntKept
  <2> QED
    BY <2>2, <2>3, <2>4
<1>6. ToInt(sum) \in 0 .. size
  <2> HIDE DEF sum, size
  <2> QED
    BY <1>1, <1>3, <1>4
<1> QED
  BY <1>3, <1>5, <1>6

LEMMA FileStep ==
  ASSUME NEW part, FileInv, MuslcNext(part) \/ UNCHANGED muslcVars, ~halted'
  PROVE  FileInv'
<1> DEFINE table == Tables.table
           free == Tables.free
<1>0. TablesOK(table, free, view, num_fds)
  BY TablesFound
<1> HIDE DEF table, free
<1>1. ASSUME NEW f \in DOMAIN FileSizes, free # <<>>
      PROVE  LET fd == Last(free)
                 table2 == [table EXCEPT ![fd] = [type |-> "cpio", file |-> f, current |-> 0]]
             IN /\ TablesOK(table2, Front(free), WithOpen(fd, f), num_fds)
                /\ TablesOK([table2 EXCEPT ![fd] = FreeEntry], Append(Front(free), fd), view, num_fds)
  <2> DEFINE fd == Last(free)
             table2 == [table EXCEPT ![fd] = [type |-> "cpio", file |-> f, current |-> 0]]
             w == WithOpen(fd, f)
  <2>1. DOMAIN w = DOMAIN view \cup {fd} /\ w[fd] = [file |-> f, offset |-> 0]
        /\ \A x \in DOMAIN view : x # fd => w[x] = view[x]
    BY DEF WithOpen
  <2> HIDE DEF w
  <2>2. TablesOK(table2, Front(free), w, num_fds)
    BY <1>0, <1>1, <2>1, Taken
  <2>3. fd \in DOMAIN w /\ fd \notin DOMAIN view
    BY <1>0, <1>1, <2>1, Popped DEF TablesOK
  <2>4. DOMAIN view = DOMAIN w \ {fd} /\ \A x \in DOMAIN view : view[x] = w[x]
    BY <2>1, <2>3
  <2> HIDE DEF table2, fd
  <2>5. TablesOK([table2 EXCEPT ![fd] = FreeEntry], Append(Front(free), fd), view, num_fds)
    BY <2>2, <2>3, <2>4, Freed
  <2> QED
    BY <2>2, <2>5 DEF table2, w, fd
<1>2. ASSUME NEW f \in DOMAIN FileSizes, sys_open(f)
      PROVE  FileInv'
  <2>2. CASE fd_table' = table /\ free_fd_table' = free /\ UNCHANGED <<num_fds, view>>
    BY <1>0, <2>2, TablesLeft
  <2> DEFINE fd == Last(free)
             table2 == [table EXCEPT ![fd] = [type |-> "cpio", file |-> f, current |-> 0]]
  <2>3. CASE /\ free # <<>> /\ fd_table' = table2 /\ free_fd_table' = Front(free)
             /\ view' = WithOpen(fd, f) /\ num_fds' = num_fds
    <3>1. TablesOK(table2, Front(free), view', num_fds')
      BY <1>1, <2>3
    <3> HIDE DEF table2, fd
    <3> QED
      BY <2>3, <3>1, TablesLeft
  <2>4. CASE /\ free # <<>> /\ fd_table' = [table2 EXCEPT ![fd] = FreeEntry]
             /\ free_fd_table' = Append(Front(free), fd) /\ view' = view /\ num_fds' = num_fds
    <3>1. TablesOK([table2 EXCEPT ![fd] = FreeEntry], Append(Front(free), fd), view', num_fds')
      BY <1>1, <2>4
    <3> HIDE DEF table2, fd
    <3> QED
      BY <2>4, <3>1, TablesLeft
  <2> QED
    BY <1>2, <2>2, <2>3, <2>4 DEF sys_open, NoTables, SetTables, get_free_fd, add_free_fd, table, free
<1>3. ASSUME NEW f \in DOMAIN FileSizes, sys_access(f)
      PROVE  FileInv'
  <2> DEFINE fd == Last(free)
             table2 == [table EXCEPT ![fd] = [type |-> "cpio", file |-> f, current |-> 0]]
  <2>1. /\ free # <<>> /\ fd_table' = [table2 EXCEPT ![fd] = FreeEntry]
        /\ free_fd_table' = Append(Front(free), fd) /\ view' = view /\ num_fds' = num_fds
    BY <1>3 DEF sys_access, NoTables, SetTables, get_free_fd, add_free_fd, table, free
  <2>2. TablesOK([table2 EXCEPT ![fd] = FreeEntry], Append(Front(free), fd), view', num_fds')
    BY <1>1, <2>1
  <2> HIDE DEF table2, fd
  <2> QED
    BY <2>1, <2>2, TablesLeft
<1>4. ASSUME NEW fd \in DOMAIN view, sys_close(fd)
      PROVE  FileInv'
  <2>1. /\ fd_table' = [table EXCEPT ![fd] = FreeEntry] /\ free_fd_table' = Append(free, fd)
        /\ view' = [v \in DOMAIN view \ {fd} |-> view[v]] /\ num_fds' = num_fds
    BY <1>4 DEF sys_close, SetTables, add_free_fd, table, free
  <2>2. DOMAIN view' = DOMAIN view \ {fd} /\ \A x \in DOMAIN view' : view'[x] = view[x]
    BY <2>1
  <2>3. TablesOK([table EXCEPT ![fd] = FreeEntry], Append(free, fd), view', num_fds)
    BY <1>0, <2>2, Freed
  <2> QED
    BY <2>1, <2>3, TablesLeft
<1>5. ASSUME NEW fd \in DOMAIN view
      PROVE  /\ table = fd_table /\ free = free_fd_table
             /\ OpenFile(view[fd]) /\ view[fd].file \in DOMAIN FileSizes
             /\ view[fd].offset \in 0 .. FileSizes[view[fd].file] /\ FileSizes[view[fd].file] \in 0 .. IntMax
             /\ fd_table[fd] = [type |-> "cpio", file |-> view[fd].file, current |-> view[fd].offset]
  <2>1. fd_table # <<>>
    BY <1>5 DEF FileInv
  <2>2. table = fd_table /\ free = free_fd_table
    BY <2>1 DEF table, free, Tables
  <2> QED
    BY <1>0, <2>2, MuslcAssumption DEF TablesOK, OpenFile
<1>6. ASSUME NEW fd \in DOMAIN view, NEW pos \in 0 .. FileSizes[view[fd].file],
             fd_table' = [fd_table EXCEPT ![fd].current = pos], view' = [view EXCEPT ![fd].offset = pos],
             UNCHANGED <<free_fd_table, num_fds>>
      PROVE  FileInv'
  <2>1. TablesOK([fd_table EXCEPT ![fd].current = pos], free_fd_table, [view EXCEPT ![fd].offset = pos], num_fds)
    BY <1>0, <1>5, Moved
  <2> QED
    BY <1>6, <2>1, TablesLeft
<1>7. ASSUME NEW fd \in DOMAIN view, NEW lens \in Reads, sys_readv(fd, lens)
      PROVE  FileInv'
  <2> DEFINE e == fd_table[fd]
             size == FileSizes[e.file]
             pos == ReadUpTo(e, lens)
  <2>1. /\ e = [type |-> "cpio", file |-> view[fd].file, current |-> view[fd].offset]
        /\ e.file = view[fd].file /\ e.current = view[fd].offset /\ size \in Nat /\ e.current \in 0 .. size
    BY <1>5, MuslcAssumption
  <2>2. lens[1] \in Nat /\ lens[2] \in Nat
    BY MuslcAssumption
  <2>3. pos \in 0 .. size
    <3> DEFINE mid == ReadBuffer(size, e.current, lens[1])
    <3>1. pos = ReadBuffer(size, mid, lens[2])
      BY DEF ReadUpTo
    <3> HIDE DEF pos, size, e
    <3>2. mid \in 0 .. size
      BY <2>1, <2>2, ReadWithin
    <3> HIDE DEF mid
    <3> QED
      BY <2>1, <2>2, <3>1, <3>2, ReadWithin
  <2>4. /\ fd_table' = [fd_table EXCEPT ![fd].current = pos] /\ UNCHANGED <<free_fd_table, num_fds>>
        /\ view' = [view EXCEPT ![fd].offset = @ + (pos - e.current)]
    BY <1>7 DEF sys_readv
  <2> HIDE DEF pos
  <2>5. view[fd].offset + (pos - e.current) = pos
    BY <2>1, <2>3
  <2>6. view' = [view EXCEPT ![fd].offset = pos]
    BY <2>4, <2>5
  <2> QED
    BY <1>6, <2>1, <2>3, <2>4, <2>6
<1>8. ASSUME NEW fd \in DOMAIN view, NEW o \in Seeks, NEW w \in {"SEEK_SET", "SEEK_CUR", "SEEK_END"},
             sys_lseek_impl(fd, o, w)
      PROVE  FileInv'
  <2> DEFINE e == fd_table[fd]
             pos == SeekTarget(e, o, w)
             asked == SeekUnchecked([file |-> view[fd].file, current |-> view[fd].offset], o, w)
  <2>1. e = [type |-> "cpio", file |-> view[fd].file, current |-> view[fd].offset] /\ o \in Int
    BY <1>5, MuslcAssumption
  <2>2. e.file = view[fd].file /\ FileSizes[e.file] \in 0 .. IntMax /\ e.current \in 0 .. FileSizes[e.file]
    BY <1>5, <2>1
  <2>3. asked = SeekUnchecked(e, o, w)
    BY <2>1 DEF SeekUnchecked
  <2>4. /\ pos # -1 /\ fd_table' = [fd_table EXCEPT ![fd].current = pos] /\ UNCHANGED <<free_fd_table, num_fds>>
        /\ view' = [view EXCEPT ![fd].offset = IF o = ToInt(o) THEN asked ELSE pos]
    BY <1>8 DEF sys_lseek_impl
  <2> HIDE DEF asked
  <2>5. pos \in 0 .. FileSizes[e.file] /\ (o = ToInt(o) => pos = asked)
    BY <2>1, <2>2, <2>3, <2>4, SeekWithin
  <2> HIDE DEF pos
  <2>6. view' = [view EXCEPT ![fd].offset = pos]
    BY <2>4, <2>5
  <2> QED
    BY <1>6, <2>2, <2>4, <2>5, <2>6
<1>9. ASSUME NEW n \in 0 .. MaxFds, grow_fds(n)
      PROVE  FileInv'
  <2>1. CASE fd_table' = table /\ free_fd_table' = free /\ UNCHANGED <<num_fds, view>>
    BY <1>0, <2>1, TablesLeft
  <2>3. CASE UNCHANGED <<fd_table, free_fd_table, num_fds, view>>
    BY <2>3 DEF FileInv, TablesOK, OpenFile, FreeEntry, UserFds
  <2>2. CASE /\ fd_table' = [fd \in UserFds(n) |-> IF fd \in UserFds(num_fds) THEN table[fd]
                                                   ELSE [FreeEntry EXCEPT !.type = "junk"]]
             /\ free_fd_table' = free /\ num_fds' = n /\ view' = view
    <3> DEFINE table2 == [fd \in UserFds(n) |-> IF fd \in UserFds(num_fds) THEN table[fd]
                                                ELSE [FreeEntry EXCEPT !.type = "junk"]]
    <3>1. n \in Nat /\ n >= num_fds /\ num_fds \in Nat /\ InitialFds <= num_fds /\ InitialFds \in Nat
      BY <1>0, <1>9, MuslcAssumption DEF grow_fds, TablesOK
    <3>2. UserFds(num_fds) \subseteq UserFds(n) /\ UserFds(InitialFds) \subseteq UserFds(num_fds)
      BY <3>1, MuslcAssumption DEF UserFds
    <3>3. DOMAIN table2 = UserFds(n) /\ \A fd \in UserFds(num_fds) : table2[fd] = table[fd]
      BY <3>2
    <3> HIDE DEF table2
    <3>4. TablesOK(table2, free, view, n)
      BY <1>0, <3>1, <3>2, <3>3 DEF TablesOK
    <3> QED
      BY <2>2, <3>4, TablesLeft DEF table2
  <2> QED
    BY <1>9, <2>1, <2>2, <2>3 DEF grow_fds, FirstTablesRefused, LargerTablesRefused, Grown, CopiedFromNull,
                                  SetTables, table, free
<1>10. CASE UNCHANGED fileVars
  BY <1>10 DEF fileVars, FileInv, TablesOK, OpenFile, FreeEntry, UserFds
<1>11. CASE init_syscall_table \/ boot_set
  BY <1>10, <1>11 DEF init_syscall_table, boot_set
<1>12. CASE AreaNext \/ DynNext
  BY <1>10, <1>12 DEF AreaNext, DynNext, sys_brk_static, sys_mmap_impl_static, sys_brk_dynamic_bottom,
                      sys_brk_dynamic, sys_mmap_impl_dynamic, sys_mremap_dynamic
<1>13. CASE UNCHANGED muslcVars
  BY <1>10, <1>13 DEF muslcVars, fileVars
<1> QED
  BY <1>2, <1>3, <1>4, <1>7, <1>8, <1>9, <1>11, <1>12, <1>13 DEF MuslcNext, FileNext

(* Whatever files are opened, read, sought in and closed, with any refusal  *)
(* and however often the table grows: as long as the program has not used   *)
(* tables that could not be allocated, an open descriptor is at the         *)
(* position its owner left it, and a free one is on the stack exactly once. *)
THEOREM FilesAlwaysSound ==
  ASSUME NEW CONSTANT part
  PROVE  MuslcSpec(part) => []FilesSound
<1>1. MuslcInit => FilesKept
  BY DEF MuslcInit, FilesKept, FileInv
<1>2. FilesKept /\ [MuslcNext(part)]_muslcVars => FilesKept'
  <2> SUFFICES ASSUME FilesKept, [MuslcNext(part)]_muslcVars, ~halted'
               PROVE  FileInv'
    BY DEF FilesKept
  <2>1. ~halted
    BY DEF MuslcNext, muslcVars
  <2> QED
    BY <2>1, FileStep DEF FilesKept
<1>3. FilesKept => FilesSound
  <2> SUFFICES ASSUME FileInv
               PROVE  FilesSound
    BY DEF FilesKept, FilesSound
  <2> QED
    BY DEF FileInv, TablesOK, OpenFile, FilesSound
<1> QED
  BY <1>1, <1>2, <1>3, PTL DEF MuslcSpec

-----------------------------------------------------------------------------
(* Processes: a configuration that fails anywhere, the gifts of the parent, *)
(* and the destruction of a process.                                       *)

(* Whatever a configuration may touch. *)
Objects == Lent \cup Made
(* Where a capability may lie. *)
Places == {VKA, TCB} \cup {Slot(k) : k \in Nat}

(* sel4utils_process_t. *)
Processes ==
  [own_vspace : BOOLEAN, own_cspace : BOOLEAN, own_ep : BOOLEAN,
   pd : {Null, "pd", "lentPd"}, ep : {Null, "ep", "lentEp"}, cnode : {Null, "cnode", "lentCnode"},
   next_free : Nat, list : SUBSET {"pt"},
   tcb : {Null, "tcb"}, ipc : {Null, "ipc"}, stack : {Null, "stack"},
   sc : {Null, "sc", "lentSc"}, reply : {Null, "reply"}, own_sc : BOOLEAN, own_reply : BOOLEAN]

(* The records that calls work on. *)
States ==
  [caps : SUBSET (Objects \X Places), held : SUBSET Objects, early : SUBSET Objects,
   sound : BOOLEAN, heap : SUBSET {"elf_regions", "elf_phdrs"}, mapped : SUBSET Made,
   p : Processes, err : BOOLEAN]

(* Nothing was given back twice, and what is held can be used. *)
Sane(s) ==
  /\ s \in States /\ s.sound /\ Lent \subseteq s.held
  /\ \A o \in s.held \ {"gift"} : <<o, VKA>> \in s.caps

(* The process's own objects are held as long as it records them. *)
Fields(s, c) ==
  /\ s.p.tcb # Null => "tcb" \in s.held
  /\ s.p.ipc # Null => "ipc" \in s.held
  /\ s.p.stack # Null => "stack" \in s.held
  /\ s.p.own_sc => s.p.sc = "sc" /\ "sc" \in s.held
  /\ s.p.own_reply => s.p.reply = "reply" /\ "reply" \in s.held
  /\ c.ep = "ep" /\ s.p.ep # Null => s.p.ep = "ep" /\ "ep" \in s.held
  /\ c.cspace /\ s.p.cnode # Null => s.p.cnode = "cnode" /\ "cnode" \in s.held
  /\ c.vspace /\ s.p.pd # Null => s.p.pd = "pd" /\ "pd" \in s.held

(* What is held is recorded by the process. *)
Accounted(s) ==
  /\ "tcb" \in s.held => s.p.tcb = "tcb"
  /\ "ipc" \in s.held => s.p.ipc = "ipc"
  /\ "stack" \in s.held => s.p.stack = "stack"
  /\ "sc" \in s.held => s.p.own_sc
  /\ "reply" \in s.held => s.p.own_reply
  /\ "ep" \in s.held => s.p.own_ep /\ s.p.ep = "ep"
  /\ "cnode" \in s.held => s.p.own_cspace /\ s.p.cnode = "cnode"
  /\ "pd" \in s.held => s.p.own_vspace /\ s.p.pd = "pd"
  /\ "frame" \in s.held => "frame" \in s.mapped
  /\ "pt" \in s.held => s.p.own_vspace /\ "pt" \in s.p.list
  /\ s.p.list \subseteq s.held
  /\ s.mapped \subseteq s.held \cap {"ipc", "stack", "frame"}

(* Nothing has failed, and nothing has been given back. *)
Clean(s) ==
  /\ s.early = {} /\ \A x \in s.caps : x[1] \in s.held
  /\ <<"tcb", TCB>> \notin s.caps
  /\ Accounted(s)

(* A configuration under way. *)
Good(s, c) == Sane(s) /\ Fields(s, c) /\ (~s.err => Clean(s))

(* The capabilities in the process's cspace. *)
SlotCaps(s) == {x \in s.caps : x[2][1] = "slot"}

(* A step that leaves the process's cspace alone. *)
SameSlots(s, r) ==
  /\ SlotCaps(r) = SlotCaps(s) /\ s.held \subseteq r.held
  /\ r.p.next_free = s.p.next_free /\ r.p.ep = s.p.ep /\ r.p.pd = s.p.pd /\ r.p.cnode = s.p.cnode
  /\ r.p.own_vspace = s.p.own_vspace /\ r.p.own_cspace = s.p.own_cspace /\ r.p.own_ep = s.p.own_ep

(* Places are told apart. *)
LEMMA PlaceFacts ==
  /\ VKA \in Places /\ TCB \in Places /\ \A k \in Nat : Slot(k) \in Places
  /\ VKA[1] = "vka" /\ TCB[1] = "tcb" /\ \A k : Slot(k)[1] = "slot" /\ Slot(k)[2] = k
  /\ VKA # TCB /\ \A k : Slot(k) # VKA /\ Slot(k) # TCB
BY DEF Places, VKA, TCB, Slot

(* A capability of the vka's stays when others go. *)
LEMMA SettledKeeps ==
  ASSUME NEW C, NEW x \in C, x[2][1] = "vka"
  PROVE  x \in Settled(C)
BY DEF Settled

(* No capability appears. *)
LEMMA SettledSubset == ASSUME NEW C PROVE Settled(C) \subseteq C
BY DEF Settled

(* Without the CNode there is nothing in its slots. *)
LEMMA NoCnodeNoSlots ==
  ASSUME NEW C, \A x \in C : x[1] # "cnode", NEW x \in Settled(C)
  PROVE  x[2][1] # "slot"
BY DEF Settled, Exists

(* Without the TCB there is nothing in it. *)
LEMMA NoTcbNoTcb ==
  ASSUME NEW C, \A x \in C : x[1] # "tcb", NEW x \in Settled(C)
  PROVE  x[2][1] # "tcb"
BY DEF Settled, Exists

(* One object given back. *)
FreedEffect(s, r, o) ==
  /\ Sane(r) /\ r.held = s.held \ {o} /\ r.p = s.p /\ r.err = s.err /\ r.heap = s.heap
  /\ r.mapped = s.mapped \ {o}
  /\ r.caps \subseteq s.caps \ {<<o, VKA>>} /\ r.caps = Settled(s.caps \ {<<o, VKA>>})
  /\ r.early = s.early \cup {x \in {o} : Exists(r.caps, x)}

(* Giving back an object that is held. *)
LEMMA ObjectFreed ==
  ASSUME NEW s, Sane(s), NEW o \in Made, o \in s.held
  PROVE  FreedEffect(s, UnmapFree(s, o), o)
<1> DEFINE C == s.caps \ {<<o, VKA>>}
           r == UnmapFree(s, o)
<1>1. s \in States /\ Settled(C) \subseteq s.caps /\ Settled(C) \subseteq C
  BY SettledSubset DEF Sane
<1>2. r = [s EXCEPT !.caps = Settled(C), !.held = @ \ {o}, !.sound = @ /\ o \in s.held,
             !.early = @ \cup {x \in {o} : Exists(Settled(C), x)}, !.mapped = @ \ {o}]
  BY <1>1 DEF UnmapFree, vka_free_object, States
<1>3. /\ r.caps = Settled(C) /\ r.held = s.held \ {o} /\ r.sound = s.sound /\ r.p = s.p
      /\ r.err = s.err /\ r.heap = s.heap /\ r.mapped = s.mapped \ {o}
      /\ r.early = s.early \cup {x \in {o} : Exists(Settled(C), x)}
  BY <1>1, <1>2 DEF States, Sane
<1>4. r \in States
  <2>1. o \in Objects /\ {x \in {o} : Exists(Settled(C), x)} \subseteq Objects
    BY DEF Objects
  <2>2. /\ Settled(C) \in SUBSET (Objects \X Places) /\ s.held \ {o} \in SUBSET Objects
        /\ (s.sound /\ o \in s.held) \in BOOLEAN /\ s.mapped \ {o} \in SUBSET Made
        /\ s.early \cup {x \in {o} : Exists(Settled(C), x)} \in SUBSET Objects
    BY <1>1, <2>1 DEF States
  <2> HIDE DEF r, C
  <2> QED
    BY <1>1, <1>2, <2>2 DEF States
<1>5. ASSUME NEW x \in r.held \ {"gift"}
      PROVE  <<x, VKA>> \in r.caps
  <2>1. <<x, VKA>> \in C /\ <<x, VKA>>[2][1] = "vka"
    BY <1>3, PlaceFacts DEF Sane
  <2> QED
    BY <2>1, <1>3, SettledKeeps
<1>6. Lent \subseteq r.held
  BY <1>3 DEF Sane, Lent, Made
<1> HIDE DEF r
<1>7. Sane(r)
  BY <1>3, <1>4, <1>5, <1>6 DEF Sane
<1> QED
  BY <1>1, <1>3, <1>7 DEF FreedEffect, r

(* Giving back what may not be there. *)
LEMMA FreedOwn ==
  ASSUME NEW s, Sane(s), NEW o, NEW own, own /\ o # Null => o \in Made /\ o \in s.held
  PROVE  FreedEffect(s, FreeOwn(s, o, own), o) \/ (~(own /\ o # Null) /\ FreeOwn(s, o, own) = s)
BY ObjectFreed DEF FreeOwn

(* The same, where only what is held afterwards matters. *)
Less(s, r, D) ==
  /\ Sane(r) /\ s.held \ D \subseteq r.held /\ r.held \subseteq s.held /\ r.p = s.p
  /\ r.err = s.err /\ r.heap = s.heap

(* What may not be there, where only what stays held matters. *)
LEMMA FreedLess ==
  ASSUME NEW s, Sane(s), NEW o, NEW own, own /\ o # Null => o \in Made /\ o \in s.held
  PROVE  Less(s, FreeOwn(s, o, own), {o})
BY FreedOwn DEF FreedEffect, Less

(* The memory of a thread that is no more. *)
NoThread(p) ==
  [p EXCEPT !.tcb = Null, !.ipc = Null, !.stack = Null, !.sc = Null, !.reply = Null,
            !.own_sc = FALSE, !.own_reply = FALSE]

(* A thread is cleaned up, however far its configuration has come. *)
LEMMA CleanedUp ==
  ASSUME NEW s, Sane(s), NEW c, Fields(s, c)
  PROVE  \E r : /\ Sane(r) /\ r.p = s.p /\ r.err = s.err
                /\ s.held \ {"tcb", "ipc", "stack", "sc", "reply"} \subseteq r.held
                /\ sel4utils_clean_up_thread(s) = [r EXCEPT !.p = NoThread(@)]
<1> DEFINE a == FreeOwn(s, s.p.tcb, TRUE)
           b == FreeOwn(a, s.p.ipc, TRUE)
           d == FreeOwn(b, s.p.stack, TRUE)
           e == FreeOwn(d, s.p.sc, s.p.own_sc)
           r == FreeOwn(e, s.p.reply, s.p.own_reply)
<1>1. s.p \in Processes
  BY DEF Sane, States
<1>2. Less(s, a, {s.p.tcb})
  BY <1>1, FreedLess DEF Fields, Processes, Null, Made
<1> HIDE DEF a
<1>3. Less(a, b, {s.p.ipc})
  <2>1. s.p.ipc # Null => s.p.ipc \in Made /\ s.p.ipc \in a.held
    BY <1>1, <1>2 DEF Fields, Processes, Null, Made, Less
  <2> QED
    BY <2>1, <1>2, FreedLess, ZenonT(60) DEF Less
<1> HIDE DEF b
<1>4. Less(b, d, {s.p.stack})
  <2>1. s.p.stack # Null => s.p.stack \in Made /\ s.p.stack \in b.held
    BY <1>1, <1>2, <1>3 DEF Fields, Processes, Null, Made, Less
  <2> QED
    BY <2>1, <1>3, FreedLess, ZenonT(60) DEF Less
<1> HIDE DEF d
<1>5. Less(d, e, {s.p.sc})
  <2>1. s.p.own_sc /\ s.p.sc # Null => s.p.sc \in Made /\ s.p.sc \in d.held
    BY <1>1, <1>2, <1>3, <1>4 DEF Fields, Processes, Null, Made, Less
  <2> QED
    BY <2>1, <1>4, FreedLess DEF Less
<1> HIDE DEF e
<1>6. Less(e, r, {s.p.reply})
  <2>1. s.p.own_reply /\ s.p.reply # Null => s.p.reply \in Made /\ s.p.reply \in e.held
    BY <1>1, <1>2, <1>3, <1>4, <1>5 DEF Fields, Processes, Null, Made, Less
  <2> QED
    BY <2>1, <1>5, FreedLess DEF Less
<1> HIDE DEF r
<1>7. Sane(r) /\ r.p = s.p /\ r.err = s.err
  BY <1>2, <1>3, <1>4, <1>5, <1>6 DEF Less
<1>8. s.held \ {"tcb", "ipc", "stack", "sc", "reply"} \subseteq r.held
  <2>1. /\ s.p.tcb \in {Null, "tcb"} /\ s.p.ipc \in {Null, "ipc"} /\ s.p.stack \in {Null, "stack"}
        /\ s.p.sc \in {Null, "sc", "lentSc"} /\ s.p.reply \in {Null, "reply"}
    BY <1>1 DEF Processes
  <2>2. Lent \subseteq r.held /\ Null \notin s.held /\ "lentSc" \in Lent
    BY <1>7 DEF Sane, States, Objects, Made, Lent, Null
  <2> QED
    BY <1>2, <1>3, <1>4, <1>5, <1>6, <2>1, <2>2 DEF Less
<1>9. sel4utils_clean_up_thread(s) = [r EXCEPT !.p = NoThread(@)]
  <2>1. sel4utils_clean_up_thread(s) =
          [r EXCEPT !.p.tcb = Null, !.p.ipc = Null, !.p.stack = Null, !.p.sc = Null,
                    !.p.reply = Null, !.p.own_sc = FALSE, !.p.own_reply = FALSE]
    BY DEF sel4utils_clean_up_thread, a, b, d, e, r
  <2> QED
    BY <2>1, <1>7, <1>1 DEF NoThread, Sane, States, Processes
<1> QED
  BY <1>7, <1>8, <1>9

(* The process stays a process. *)
LEMMA NoThreadType == ASSUME NEW p \in Processes PROVE NoThread(p) \in Processes
BY DEF NoThread, Processes

(* An error after which the thread is cleaned up. *)
LEMMA CleanFailGood ==
  ASSUME NEW s, NEW c, Sane(s), Fields(s, c)
  PROVE  Good(CleanFail(s), c) /\ CleanFail(s).err
<1>1. PICK r : /\ Sane(r) /\ r.p = s.p /\ r.err = s.err
               /\ s.held \ {"tcb", "ipc", "stack", "sc", "reply"} \subseteq r.held
               /\ sel4utils_clean_up_thread(s) = [r EXCEPT !.p = NoThread(@)]
  BY CleanedUp
<1> DEFINE t == CleanFail(s)
<1>2. t = [r EXCEPT !.p = NoThread(r.p), !.err = TRUE]
  BY <1>1 DEF CleanFail, Fails
<1>3. r \in States /\ r.p \in Processes /\ NoThread(r.p) \in Processes
  <2>1. r \in States /\ r.p \in Processes
    BY <1>1 DEF Sane, States
  <2> QED
    BY <2>1, NoThreadType
<1>4. t \in States
  BY <1>2, <1>3 DEF States
<1>5. /\ t.p = NoThread(r.p) /\ t.caps = r.caps /\ t.held = r.held /\ t.sound = r.sound /\ t.err
  BY <1>2, <1>3 DEF States
<1>6. /\ t.p.tcb = Null /\ t.p.ipc = Null /\ t.p.stack = Null /\ ~t.p.own_sc /\ ~t.p.own_reply
      /\ t.p.ep = s.p.ep /\ t.p.cnode = s.p.cnode /\ t.p.pd = s.p.pd
  BY <1>1, <1>3, <1>5 DEF NoThread, Processes
<1> HIDE DEF t
<1>7. Sane(t)
  BY <1>1, <1>4, <1>5 DEF Sane
<1>8. Fields(t, c)
  BY <1>1, <1>5, <1>6 DEF Fields
<1> QED
  BY <1>5, <1>7, <1>8 DEF Good, t

(* Objects are made and recorded. *)
With(s, O, m, q) ==
  [s EXCEPT !.caps = @ \cup {<<o, VKA>> : o \in O}, !.held = @ \cup O, !.mapped = @ \cup m, !.p = q]

(* What that changes. *)
WithEffect(s, r, O, m, q) ==
  /\ Sane(r) /\ r.early = {} /\ (\A x \in r.caps : x[1] \in r.held)
  /\ <<"tcb", TCB>> \notin r.caps
  /\ r.held = s.held \cup O /\ r.mapped = s.mapped \cup m /\ r.p = q /\ ~r.err
  /\ SlotCaps(r) = SlotCaps(s) /\ r.heap = s.heap

(* Making objects keeps every object accounted for. *)
LEMMA WithMade ==
  ASSUME NEW s, NEW c, Good(s, c), ~s.err, NEW O, O \subseteq Made, NEW m, m \subseteq O,
         NEW q, q \in Processes
  PROVE  WithEffect(s, With(s, O, m, q), O, m, q)
<1> DEFINE N == {<<o, VKA>> : o \in O}
           r == With(s, O, m, q)
<1>1. s \in States /\ O \subseteq Objects /\ N \subseteq Objects \X Places
  BY PlaceFacts DEF Good, Sane, Objects
<1>2. \A x \in N : x[1] \in O /\ x[2][1] = "vka"
  BY PlaceFacts
<1>3. \A o \in O : <<o, VKA>> \in N
  OBVIOUS
<1> HIDE DEF N
<1>4. r = [s EXCEPT !.caps = s.caps \cup N, !.held = s.held \cup O, !.mapped = s.mapped \cup m, !.p = q]
  BY <1>1 DEF With, States, N
<1>5. /\ r.caps = s.caps \cup N /\ r.held = s.held \cup O /\ r.mapped = s.mapped \cup m /\ r.p = q
      /\ r.err = s.err /\ r.early = s.early /\ r.sound = s.sound /\ r.heap = s.heap
  BY <1>1, <1>4 DEF States
<1>6. r \in States
  BY <1>1, <1>4, ZenonT(60) DEF States
<1> HIDE DEF r
<1>7. Sane(r)
  BY <1>3, <1>5, <1>6 DEF Good, Sane
<1>8. r.early = {} /\ (\A x \in r.caps : x[1] \in r.held) /\ ~r.err
  BY <1>2, <1>5 DEF Good, Clean
<1>9. SlotCaps(r) = SlotCaps(s)
  BY <1>2, <1>5 DEF SlotCaps
<1>10. <<"tcb", TCB>> \notin r.caps
  BY <1>2, <1>5, PlaceFacts DEF Good, Clean
<1> QED
  BY <1>5, <1>7, <1>8, <1>9, <1>10 DEF r, WithEffect

(* sel4utils_configure_thread_config() allocates the TCB. *)
LEMMA AllocTcbGood ==
  ASSUME NEW s, NEW c, NEW f, Good(s, c), ~s.err
  PROVE  LET r == AllocTcb(s, f) IN
         /\ Good(r, c)
         /\ ~r.err => SameSlots(s, r) /\ r.p.own_sc = s.p.own_sc
<1>1. CASE f = "tcb"
  BY <1>1, CleanFailGood DEF AllocTcb, Good
<1>2. CASE f = "tcbOther"
  BY <1>2 DEF AllocTcb, SameSlots
<1>3. CASE f \notin {"tcb", "tcbOther"}
  <2> DEFINE q == [s.p EXCEPT !.tcb = "tcb"]
             r == With(s, {"tcb"}, {}, q)
  <2>1. s \in States /\ s.p \in Processes
    BY DEF Good, Sane, States
  <2>2. q \in Processes /\ q.tcb = "tcb"
    BY <2>1 DEF Processes
  <2>3. AllocTcb(s, f) = r
    <3>1. {<<o, VKA>> : o \in {"tcb"}} = {<<"tcb", VKA>>} /\ s.mapped \cup {} = s.mapped
      OBVIOUS
    <3>2. r = [s EXCEPT !.caps = s.caps \cup {<<"tcb", VKA>>}, !.held = s.held \cup {"tcb"},
                        !.mapped = s.mapped, !.p = q]
      BY <3>1 DEF With
    <3>3. AllocTcb(s, f) = [s EXCEPT !.caps = s.caps \cup {<<"tcb", VKA>>}, !.held = s.held \cup {"tcb"},
                                     !.p = q]
      BY <1>3, <2>1 DEF AllocTcb, vka_alloc_object, States
    <3> QED
      BY <3>2, <3>3, <2>1 DEF States
  <2>4. WithEffect(s, r, {"tcb"}, {}, q)
    BY <2>2, WithMade DEF Made
  <2> HIDE DEF r
  <2>5. Fields(r, c)
    BY <2>1, <2>2, <2>4 DEF WithEffect, Good, Fields, Processes
  <2>6. Accounted(r)
    BY <2>1, <2>2, <2>4 DEF WithEffect, Good, Clean, Accounted, Processes
  <2>7. SameSlots(s, r) /\ r.p.own_sc = s.p.own_sc
    BY <2>1, <2>2, <2>4 DEF WithEffect, SameSlots, Processes
  <2> QED
    BY <2>3, <2>4, <2>5, <2>6, <2>7 DEF Good, Clean, WithEffect
<1> QED
  BY <1>1, <1>2, <1>3

(* The process that keeps the tables in O. *)
Keeping(p, O) == [p EXCEPT !.list = @ \cup (O \cap {"pt"})]

(* A page comes with the table that the vspace may need. *)
LEMMA MapNewWith ==
  ASSUME NEW s, s \in States, NEW o \in {"ipc", "stack", "frame"}
  PROVE  \E O \in {{o}, {o, "pt"}} : /\ "pt" \in O => s.p.own_vspace
                                    /\ MapNew(s, o, FALSE) = With(s, O, {o}, Keeping(s.p, O))
<1>1. s.p \in Processes
  BY DEF States
<1> DEFINE t == vka_alloc_object(s, o, FALSE)
<1>2. t = [s EXCEPT !.held = s.held \cup {o}, !.caps = s.caps \cup {<<o, VKA>>}]
  BY DEF vka_alloc_object, States
<1>3. t.p = s.p /\ t.held = s.held \cup {o} /\ t.caps = s.caps \cup {<<o, VKA>>} /\ t.mapped = s.mapped
  BY <1>2 DEF States
<1>4. CASE s.p.own_vspace /\ "pt" \notin s.held
  <2> DEFINE O == {o, "pt"}
  <2>1. "pt" \notin t.held
    BY <1>3, <1>4
  <2>2. {<<x, VKA>> : x \in O} = {<<o, VKA>>, <<"pt", VKA>>} /\ O \cap {"pt"} = {"pt"}
    OBVIOUS
  <2>3. With(s, O, {o}, Keeping(s.p, O)) =
          [s EXCEPT !.caps = s.caps \cup {<<o, VKA>>, <<"pt", VKA>>}, !.held = s.held \cup {o, "pt"},
                    !.mapped = s.mapped \cup {o}, !.p = [s.p EXCEPT !.list = s.p.list \cup {"pt"}]]
    BY <2>2 DEF With, Keeping
  <2>4. MapNew(s, o, FALSE) =
          [[vka_alloc_object(t, "pt", FALSE) EXCEPT !.p.list = @ \cup {"pt"}] EXCEPT !.mapped = @ \cup {o}]
    BY <1>3, <1>4, <2>1 DEF MapNew, sel4utils_allocated_object
  <2>5. vka_alloc_object(t, "pt", FALSE) =
          [s EXCEPT !.held = s.held \cup {o, "pt"}, !.caps = s.caps \cup {<<o, VKA>>, <<"pt", VKA>>}]
    <3>1. (s.held \cup {o}) \cup {"pt"} = s.held \cup {o, "pt"}
          /\ (s.caps \cup {<<o, VKA>>}) \cup {<<"pt", VKA>>} = s.caps \cup {<<o, VKA>>, <<"pt", VKA>>}
      OBVIOUS
    <3>2. vka_alloc_object(t, "pt", FALSE) = [t EXCEPT !.held = t.held \cup {"pt"}, !.caps = t.caps \cup {<<"pt", VKA>>}]
      BY DEF vka_alloc_object
    <3> QED
      BY <3>1, <3>2, <1>2, <1>3 DEF States
  <2> DEFINE u == vka_alloc_object(t, "pt", FALSE)
  <2>6. u.p = s.p /\ u.mapped = s.mapped
    BY <2>5 DEF States
  <2>7. [u EXCEPT !.p.list = @ \cup {"pt"}] = [u EXCEPT !.p = [s.p EXCEPT !.list = s.p.list \cup {"pt"}]]
    BY <2>6
  <2>8. [u EXCEPT !.p.list = @ \cup {"pt"}].mapped = s.mapped
    BY <2>7, <2>5 DEF States
  <2>9. MapNew(s, o, FALSE) =
          [s EXCEPT !.held = s.held \cup {o, "pt"}, !.caps = s.caps \cup {<<o, VKA>>, <<"pt", VKA>>},
                    !.p = [s.p EXCEPT !.list = s.p.list \cup {"pt"}], !.mapped = s.mapped \cup {o}]
    BY <2>4, <2>5, <2>7, <2>8
  <2> HIDE DEF O, t, u
  <2>10. MapNew(s, o, FALSE) = With(s, O, {o}, Keeping(s.p, O))
    BY <2>3, <2>9 DEF States
  <2> QED
    BY <2>10, <1>4 DEF O
<1>5. CASE ~(s.p.own_vspace /\ "pt" \notin s.held)
  <2> DEFINE O == {o}
  <2>1. ~(t.p.own_vspace /\ "pt" \notin t.held)
    BY <1>3, <1>5
  <2>2. {<<x, VKA>> : x \in O} = {<<o, VKA>>} /\ s.p.list \cup (O \cap {"pt"}) = s.p.list
    OBVIOUS
  <2>3. Keeping(s.p, O) = s.p
    BY <1>1, <2>2 DEF Keeping, Processes
  <2>4. With(s, O, {o}, Keeping(s.p, O)) =
          [s EXCEPT !.caps = s.caps \cup {<<o, VKA>>}, !.held = s.held \cup {o},
                    !.mapped = s.mapped \cup {o}, !.p = s.p]
    BY <2>2, <2>3 DEF With
  <2>5. MapNew(s, o, FALSE) = [t EXCEPT !.mapped = s.mapped \cup {o}]
    BY <1>3, <2>1 DEF MapNew, sel4utils_allocated_object
  <2>6. MapNew(s, o, FALSE) = [s EXCEPT !.held = s.held \cup {o}, !.caps = s.caps \cup {<<o, VKA>>},
                                        !.mapped = s.mapped \cup {o}]
    BY <2>5, <1>2
  <2> HIDE DEF O, t
  <2>7. MapNew(s, o, FALSE) = With(s, O, {o}, Keeping(s.p, O))
    BY <2>4, <2>6 DEF States
  <2> QED
    BY <2>7, <1>5 DEF O
<1> QED
  BY <1>4, <1>5

(* A page that the process records under a field of its thread. *)
LEMMA MapNewField ==
  ASSUME NEW s, NEW c, Good(s, c), ~s.err, NEW o \in {"ipc", "stack", "frame"}
  PROVE  \E O \in {{o}, {o, "pt"}}, q \in Processes :
           /\ "pt" \in O => s.p.own_vspace
           /\ q = Keeping(s.p, O) /\ q.list = s.p.list \cup (O \cap {"pt"})
           /\ MapNew(s, o, FALSE) = With(s, O, {o}, q)
           /\ \A z \in Processes : WithEffect(s, With(s, O, {o}, z), O, {o}, z)
<1>1. s \in States /\ s.p \in Processes
  BY DEF Good, Sane, States
<1>2. PICK O \in {{o}, {o, "pt"}} : /\ "pt" \in O => s.p.own_vspace
                                   /\ MapNew(s, o, FALSE) = With(s, O, {o}, Keeping(s.p, O))
  BY <1>1, MapNewWith
<1>3. Keeping(s.p, O) \in Processes /\ Keeping(s.p, O).list = s.p.list \cup (O \cap {"pt"})
  BY <1>1 DEF Keeping, Processes
<1>4. O \subseteq Made /\ {o} \subseteq O
  BY <1>2 DEF Made
<1>5. \A z \in Processes : WithEffect(s, With(s, O, {o}, z), O, {o}, z)
  BY <1>4, WithMade
<1> QED
  BY <1>2, <1>3, <1>5

(* It allocates the IPC buffer. *)
LEMMA AllocIpcBufferGood ==
  ASSUME NEW s, NEW c, NEW f, Good(s, c), ~s.err
  PROVE  LET r == AllocIpcBuffer(s, f) IN
         /\ Good(r, c)
         /\ ~r.err => /\ SameSlots(s, r) /\ r.p.tcb = s.p.tcb /\ r.p.ipc = "ipc"
                      /\ r.p.own_sc = s.p.own_sc
<1>0. s \in States /\ s.p \in Processes
  BY DEF Good, Sane, States
<1>1. CASE f = "ipc"
  <2>1. AllocIpcBuffer(s, f) = [s EXCEPT !.err = TRUE]
    BY <1>0, <1>1 DEF AllocIpcBuffer, Then, MapNew, Fails, States
  <2> DEFINE r == AllocIpcBuffer(s, f)
  <2>2. r \in States /\ r.err /\ r.sound = s.sound /\ r.held = s.held /\ r.caps = s.caps /\ r.p = s.p
    BY <2>1, <1>0 DEF States
  <2> HIDE DEF r
  <2> QED
    BY <2>2 DEF Good, Sane, Fields, r
<1>2. CASE f # "ipc"
  <2>1. PICK O \in {{"ipc"}, {"ipc", "pt"}}, q \in Processes :
           /\ "pt" \in O => s.p.own_vspace
           /\ q = Keeping(s.p, O) /\ q.list = s.p.list \cup (O \cap {"pt"})
           /\ MapNew(s, "ipc", FALSE) = With(s, O, {"ipc"}, q)
           /\ \A z \in Processes : WithEffect(s, With(s, O, {"ipc"}, z), O, {"ipc"}, z)
    BY MapNewField
  <2> DEFINE z == [q EXCEPT !.ipc = "ipc"]
             r == With(s, O, {"ipc"}, z)
  <2>2. z \in Processes /\ z.ipc = "ipc" /\ z.list = q.list
    BY DEF Processes
  <2>3. /\ z.own_vspace = s.p.own_vspace /\ z.own_cspace = s.p.own_cspace /\ z.own_ep = s.p.own_ep
        /\ z.pd = s.p.pd /\ z.ep = s.p.ep /\ z.cnode = s.p.cnode /\ z.next_free = s.p.next_free
        /\ z.tcb = s.p.tcb /\ z.stack = s.p.stack /\ z.sc = s.p.sc /\ z.reply = s.p.reply
        /\ z.own_sc = s.p.own_sc /\ z.own_reply = s.p.own_reply
    BY <1>0, <2>1 DEF Processes, Keeping
  <2>4. AllocIpcBuffer(s, f) = r
    <3>0. WithEffect(s, MapNew(s, "ipc", FALSE), O, {"ipc"}, q)
      BY <2>1
    <3>1. ~MapNew(s, "ipc", FALSE).err
      BY <3>0 DEF WithEffect
    <3>2. AllocIpcBuffer(s, f) = [With(s, O, {"ipc"}, q) EXCEPT !.p.ipc = "ipc"]
      BY <1>2, <2>1, <3>1 DEF AllocIpcBuffer, Then, MapNew
    <3> QED
      BY <3>2, <1>0 DEF With, States
  <2>5. WithEffect(s, r, O, {"ipc"}, z)
    BY <2>1, <2>2
  <2> HIDE DEF r, z
  <2>6. Fields(r, c)
    BY <2>3, <2>5, <1>0 DEF Good, Fields, WithEffect
  <2>7. Accounted(r)
    BY <2>1, <2>2, <2>3, <2>5, <1>0 DEF Good, Clean, Accounted, WithEffect, Processes
  <2>8. SameSlots(s, r) /\ r.p.tcb = s.p.tcb /\ r.p.ipc = "ipc" /\ r.p.own_sc = s.p.own_sc
    BY <2>2, <2>3, <2>5 DEF SameSlots, WithEffect
  <2> QED
    BY <2>4, <2>5, <2>6, <2>7, <2>8 DEF Good, Clean, WithEffect
<1> QED
  BY <1>1, <1>2

(* An allocation makes one object. *)
LEMMA AllocWith ==
  ASSUME NEW s, s \in States, NEW o
  PROVE  vka_alloc_object(s, o, FALSE) = With(s, {o}, {}, s.p)
<1>1. {<<x, VKA>> : x \in {o}} = {<<o, VKA>>} /\ s.mapped \cup {} = s.mapped
  OBVIOUS
<1>2. With(s, {o}, {}, s.p) = [s EXCEPT !.caps = s.caps \cup {<<o, VKA>>}, !.held = s.held \cup {o},
                                       !.mapped = s.mapped, !.p = s.p]
  BY <1>1 DEF With
<1>3. vka_alloc_object(s, o, FALSE) = [s EXCEPT !.held = s.held \cup {o}, !.caps = s.caps \cup {<<o, VKA>>}]
  BY DEF vka_alloc_object
<1> QED
  BY <1>2, <1>3 DEF States

(* Recording an object changes the process alone. *)
LEMMA WithThen ==
  ASSUME NEW s, s \in States, NEW O, NEW m, NEW q, NEW z
  PROVE  With(s, O, m, q).p = q /\ [With(s, O, m, q) EXCEPT !.p = z] = With(s, O, m, z)
BY DEF With, States

(* An error with nothing cleaned up yet. *)
LEMMA FailsGood ==
  ASSUME NEW s, NEW c, Sane(s), Fields(s, c)
  PROVE  Good(Fails(s), c) /\ Fails(s).err
<1> DEFINE r == Fails(s)
<1>1. r \in States /\ r.err /\ r.sound = s.sound /\ r.held = s.held /\ r.caps = s.caps /\ r.p = s.p
  BY DEF Fails, States, Sane
<1> HIDE DEF r
<1> QED
  BY <1>1 DEF Good, Sane, Fields, r

(* It allocates the reply object. *)
LEMMA AllocReplyGood ==
  ASSUME NEW s, NEW c, NEW f, Good(s, c), ~s.err
  PROVE  LET r == AllocReply(s, c, f) IN
         /\ Good(r, c)
         /\ ~r.err => /\ SameSlots(s, r) /\ r.p.tcb = s.p.tcb /\ r.p.own_sc = s.p.own_sc
                      /\ r.p.ipc = s.p.ipc
                      /\ c.mcs /\ c.cspace => r.p.reply = "reply" /\ "reply" \in r.held
<1>0. s \in States /\ s.p \in Processes
  BY DEF Good, Sane, States
<1>1. CASE ~(c.mcs /\ c.cspace)
  BY <1>1 DEF AllocReply, SameSlots
<1>2. CASE c.mcs /\ c.cspace /\ f = "reply"
  BY <1>2, CleanFailGood DEF AllocReply, Good
<1>3. CASE c.mcs /\ c.cspace /\ f # "reply"
  <2> DEFINE z == [s.p EXCEPT !.reply = "reply", !.own_reply = TRUE]
             r == With(s, {"reply"}, {}, z)
             t == With(s, {"reply"}, {}, s.p)
  <2>1. z \in Processes /\ z.reply = "reply" /\ z.own_reply
    BY <1>0 DEF Processes
  <2>2. /\ z.own_vspace = s.p.own_vspace /\ z.own_cspace = s.p.own_cspace /\ z.own_ep = s.p.own_ep
        /\ z.pd = s.p.pd /\ z.ep = s.p.ep /\ z.cnode = s.p.cnode /\ z.next_free = s.p.next_free
        /\ z.tcb = s.p.tcb /\ z.stack = s.p.stack /\ z.sc = s.p.sc /\ z.ipc = s.p.ipc
        /\ z.own_sc = s.p.own_sc /\ z.list = s.p.list
    BY <1>0 DEF Processes
  <2>3. AllocReply(s, c, f) = r
    <3>1. AllocReply(s, c, f) = [t EXCEPT !.p.reply = "reply", !.p.own_reply = TRUE]
      BY <1>0, <1>3, AllocWith DEF AllocReply
    <3>2. t.p = s.p /\ [t EXCEPT !.p = z] = r
      BY <1>0, WithThen
    <3>3. [t EXCEPT !.p.reply = "reply", !.p.own_reply = TRUE] = [t EXCEPT !.p = z]
      BY <3>2, <1>0 DEF With, States, Processes
    <3> QED
      BY <3>1, <3>2, <3>3
  <2>4. WithEffect(s, r, {"reply"}, {}, z)
    BY <2>1, WithMade DEF Made
  <2> HIDE DEF r, z
  <2>6. Fields(r, c)
    BY <2>1, <2>2, <2>4, <1>0 DEF Good, Fields, WithEffect
  <2>7. Accounted(r)
    BY <2>1, <2>2, <2>4, <1>0 DEF Good, Clean, Accounted, WithEffect, Processes
  <2>8. SameSlots(s, r) /\ r.p.tcb = s.p.tcb /\ r.p.own_sc = s.p.own_sc /\ r.p.reply = "reply"
        /\ r.p.ipc = s.p.ipc /\ "reply" \in r.held
    BY <2>1, <2>2, <2>4 DEF SameSlots, WithEffect
  <2> QED
    BY <2>3, <2>4, <2>6, <2>7, <2>8 DEF Good, Clean, WithEffect
<1> QED
  BY <1>1, <1>2, <1>3

(* It allocates the scheduling context. *)
LEMMA AllocSchedContextGood ==
  ASSUME NEW s, NEW c \in Configs, NEW f, Good(s, c), ~s.err, ~s.p.own_sc
  PROVE  LET r == AllocSchedContext(s, c, f) IN
         /\ Good(r, c)
         /\ ~r.err => /\ SameSlots(s, r) /\ r.p.tcb = s.p.tcb /\ r.p.reply = s.p.reply
                      /\ r.p.sc = c.sc /\ r.p.ipc = s.p.ipc /\ (c.sc = "sc" => "sc" \in r.held)
<1>0. s \in States /\ s.p \in Processes /\ c.sc \in {Null, "sc", "lentSc"}
  BY DEF Good, Sane, States, Configs
<1>1. CASE c.sc # "sc"
  <2> DEFINE z == [s.p EXCEPT !.sc = c.sc]
             r == [s EXCEPT !.p = z]
  <2>1. z \in Processes /\ r \in States
    BY <1>0 DEF Processes, States
  <2>2. /\ z.own_vspace = s.p.own_vspace /\ z.own_cspace = s.p.own_cspace /\ z.own_ep = s.p.own_ep
        /\ z.pd = s.p.pd /\ z.ep = s.p.ep /\ z.cnode = s.p.cnode /\ z.next_free = s.p.next_free
        /\ z.tcb = s.p.tcb /\ z.stack = s.p.stack /\ z.sc = c.sc /\ z.ipc = s.p.ipc
        /\ z.own_sc = s.p.own_sc /\ z.list = s.p.list /\ z.reply = s.p.reply /\ z.own_reply = s.p.own_reply
    BY <1>0 DEF Processes
  <2>3. /\ r.p = z /\ r.caps = s.caps /\ r.held = s.held /\ r.sound = s.sound /\ r.early = s.early
        /\ r.mapped = s.mapped /\ r.err = s.err
    BY <1>0 DEF States
  <2>4. AllocSchedContext(s, c, f) = r
    BY <1>1 DEF AllocSchedContext
  <2> HIDE DEF r, z
  <2>5. Fields(r, c) /\ Sane(r)
    BY <2>1, <2>2, <2>3 DEF Good, Fields, Sane
  <2>6. Clean(r)
    BY <2>2, <2>3 DEF Good, Clean, Accounted
  <2>7. SameSlots(s, r)
    BY <2>2, <2>3 DEF SameSlots, SlotCaps
  <2> QED
    BY <1>1, <2>2, <2>3, <2>4, <2>5, <2>6, <2>7 DEF Good
<1>2. CASE c.sc = "sc" /\ f = "sc"
  <2>1. AllocSchedContext(s, c, f) = CleanFail(s)
    BY <1>2 DEF AllocSchedContext
  <2> QED
    BY <2>1, CleanFailGood DEF Good
<1>3. CASE c.sc = "sc" /\ f # "sc"
  <2> DEFINE y == [s.p EXCEPT !.sc = "sc"]
             z == [y EXCEPT !.own_sc = TRUE]
             t == With(s, {"sc"}, {}, s.p)
             u == With(s, {"sc"}, {}, y)
             r == With(s, {"sc"}, {}, z)
  <2>1. y \in Processes /\ z \in Processes /\ z.sc = "sc" /\ z.own_sc
    BY <1>0 DEF Processes
  <2>2. /\ z.own_vspace = s.p.own_vspace /\ z.own_cspace = s.p.own_cspace /\ z.own_ep = s.p.own_ep
        /\ z.pd = s.p.pd /\ z.ep = s.p.ep /\ z.cnode = s.p.cnode /\ z.next_free = s.p.next_free
        /\ z.tcb = s.p.tcb /\ z.stack = s.p.stack /\ z.ipc = s.p.ipc
        /\ z.list = s.p.list /\ z.reply = s.p.reply /\ z.own_reply = s.p.own_reply
    BY <1>0 DEF Processes
  <2>3. /\ y.tcb = s.p.tcb /\ y.stack = s.p.stack /\ y.ipc = s.p.ipc /\ y.own_sc = s.p.own_sc
        /\ y.reply = s.p.reply /\ y.own_reply = s.p.own_reply
        /\ y.pd = s.p.pd /\ y.ep = s.p.ep /\ y.cnode = s.p.cnode
    BY <1>0 DEF Processes
  <2>4. [vka_alloc_object(s, "sc", FALSE) EXCEPT !.p.sc = "sc"] = u
    <3>1. vka_alloc_object(s, "sc", FALSE) = t
      BY <1>0, AllocWith
    <3>2. t.p = s.p /\ [t EXCEPT !.p = y] = u
      BY <1>0, WithThen
    <3> QED
      BY <3>1, <3>2
  <2>5. u.p = y /\ [u EXCEPT !.p = z] = r
    BY <1>0, WithThen
  <2>6. WithEffect(s, u, {"sc"}, {}, y) /\ WithEffect(s, r, {"sc"}, {}, z)
    BY <2>1, WithMade DEF Made
  <2>7. AllocSchedContext(s, c, f) = IF f = "scConfigure" THEN CleanFail(u) ELSE [u EXCEPT !.p.own_sc = TRUE]
    BY <1>3, <2>4 DEF AllocSchedContext
  <2>8. [u EXCEPT !.p.own_sc = TRUE] = r
    BY <2>5
  <2> HIDE DEF r, z, u, t, y
  <2>9. CASE f = "scConfigure"
    <3>1. Sane(u) /\ Fields(u, c)
      BY <2>3, <2>6, <1>0 DEF Good, Fields, WithEffect
    <3> QED
      BY <3>1, <2>7, <2>9, CleanFailGood
  <2>10. CASE f # "scConfigure"
    <3>1. Fields(r, c)
      BY <2>1, <2>2, <2>6, <1>0 DEF Good, Fields, WithEffect
    <3>2. Accounted(r)
      BY <2>1, <2>2, <2>6, <1>0 DEF Good, Clean, Accounted, WithEffect, Processes
    <3>3. SameSlots(s, r) /\ r.p.tcb = s.p.tcb /\ r.p.reply = s.p.reply /\ r.p.sc = c.sc
          /\ r.p.ipc = s.p.ipc /\ "sc" \in r.held
      BY <1>3, <2>1, <2>2, <2>6 DEF SameSlots, WithEffect
    <3> QED
      BY <2>6, <2>7, <2>8, <2>10, <3>1, <3>2, <3>3 DEF Good, Clean, WithEffect
  <2> QED
    BY <2>9, <2>10
<1> QED
  BY <1>1, <1>2, <1>3

(* The roots of a thread are there. *)
Roots(s) ==
  /\ s.p.cnode \in s.held /\ s.p.pd \in s.held /\ s.p.ep \in s.held \cup {Null}

(* It configures the TCB. *)
LEMMA TcbConfigureGood ==
  ASSUME NEW s, NEW c, NEW f, Good(s, c), ~s.err, Roots(s), s.p.ipc = "ipc"
  PROVE  LET r == TcbConfigure(s, c, f) IN
         /\ Good(r, c)
         /\ ~r.err => SameSlots(s, r) /\ r.p = s.p /\ s.p.tcb = "tcb"
<1>0. s \in States /\ s.p \in Processes
  BY DEF Good, Sane, States
<1>1. CASE s.p.tcb = Null \/ f = "configure"
  <2>1. TcbConfigure(s, c, f) = CleanFail(s)
    BY <1>1 DEF TcbConfigure
  <2> QED
    BY <2>1, CleanFailGood DEF Good
<1>2. CASE ~(s.p.tcb = Null \/ f = "configure")
  <2> DEFINE X == {s.p.cnode, s.p.pd, s.p.ipc} \cup ({s.p.ep} \ (IF c.mcs THEN {Null} ELSE {s.p.ep}))
             N == {<<o, TCB>> : o \in X}
             r == [s EXCEPT !.caps = s.caps \cup N]
  <2>1. X \subseteq s.held /\ "tcb" \notin X
    <3>1. "tcb" \notin X
      BY <1>0 DEF Processes, Null
    <3> QED
      BY <1>0, <3>1 DEF Roots, Good, Fields, Null
  <2> HIDE DEF X
  <2>2. N \subseteq Objects \X Places /\ \A x \in N : x[1] \in s.held /\ x[1] # "tcb" /\ x[2][1] = "tcb"
    BY <1>0, <2>1, PlaceFacts DEF States
  <2>3. TcbConfigure(s, c, f) = r
    BY <1>2 DEF TcbConfigure, X
  <2> HIDE DEF N
  <2>4. /\ r \in States /\ r.p = s.p /\ r.caps = s.caps \cup N /\ r.held = s.held /\ r.sound = s.sound
        /\ r.early = s.early /\ r.mapped = s.mapped /\ r.err = s.err
    BY <1>0, <2>2 DEF States
  <2> HIDE DEF r
  <2>5. Sane(r) /\ Fields(r, c)
    BY <2>4 DEF Good, Sane, Fields
  <2>6. Clean(r)
    <3>1. <<"tcb", TCB>> \notin N /\ <<"tcb", TCB>> \notin s.caps
      BY <2>2 DEF Good, Clean
    <3> QED
      BY <2>2, <2>4, <3>1 DEF Good, Clean, Accounted
  <2>7. SameSlots(s, r)
    BY <2>2, <2>4 DEF SameSlots, SlotCaps
  <2>8. s.p.tcb = "tcb"
    BY <1>0, <1>2 DEF Processes
  <2> QED
    BY <2>3, <2>4, <2>5, <2>6, <2>7, <2>8 DEF Good
<1> QED
  BY <1>1, <1>2

(* It sets the priorities. *)
LEMMA SetPrioritiesGood ==
  ASSUME NEW s, NEW c, NEW f, Good(s, c), ~s.err
  PROVE  LET r == SetPriorities(s, f) IN Good(r, c) /\ (~r.err => SameSlots(s, r) /\ r.p = s.p)
<1>1. CASE f = "mcp"
  BY <1>1, FailsGood DEF SetPriorities, Good
<1>2. CASE f = "priority"
  BY <1>2, CleanFailGood DEF SetPriorities, Good
<1>3. CASE f \notin {"mcp", "priority"}
  BY <1>3 DEF SetPriorities, SameSlots
<1> QED
  BY <1>1, <1>2, <1>3

(* It allocates the stack. *)
LEMMA AllocStackGood ==
  ASSUME NEW s, NEW c, NEW f, Good(s, c), ~s.err
  PROVE  LET r == AllocStack(s, f) IN
         /\ Good(r, c)
         /\ ~r.err => /\ SameSlots(s, r) /\ r.p.tcb = s.p.tcb /\ r.p.sc = s.p.sc
                      /\ r.p.reply = s.p.reply
<1>0. s \in States /\ s.p \in Processes
  BY DEF Good, Sane, States
<1>1. CASE f = "stack"
  BY <1>1, CleanFailGood DEF AllocStack, Good
<1>2. CASE f # "stack"
  <2>1. PICK O \in {{"stack"}, {"stack", "pt"}}, q \in Processes :
           /\ "pt" \in O => s.p.own_vspace
           /\ q = Keeping(s.p, O) /\ q.list = s.p.list \cup (O \cap {"pt"})
           /\ MapNew(s, "stack", FALSE) = With(s, O, {"stack"}, q)
           /\ \A z \in Processes : WithEffect(s, With(s, O, {"stack"}, z), O, {"stack"}, z)
    BY MapNewField
  <2> DEFINE z == [q EXCEPT !.stack = "stack"]
             r == With(s, O, {"stack"}, z)
  <2>2. z \in Processes /\ z.stack = "stack" /\ z.list = q.list
    BY DEF Processes
  <2>3. /\ z.own_vspace = s.p.own_vspace /\ z.own_cspace = s.p.own_cspace /\ z.own_ep = s.p.own_ep
        /\ z.pd = s.p.pd /\ z.ep = s.p.ep /\ z.cnode = s.p.cnode /\ z.next_free = s.p.next_free
        /\ z.tcb = s.p.tcb /\ z.ipc = s.p.ipc /\ z.sc = s.p.sc /\ z.reply = s.p.reply
        /\ z.own_sc = s.p.own_sc /\ z.own_reply = s.p.own_reply
    BY <1>0, <2>1 DEF Processes, Keeping
  <2>4. AllocStack(s, f) = r
    <3>1. AllocStack(s, f) = [With(s, O, {"stack"}, q) EXCEPT !.p.stack = "stack"]
      BY <1>2, <2>1 DEF AllocStack
    <3> QED
      BY <3>1, <1>0 DEF With, States
  <2>5. WithEffect(s, r, O, {"stack"}, z)
    BY <2>1, <2>2
  <2> HIDE DEF r, z
  <2>6. Fields(r, c)
    BY <2>3, <2>5, <1>0 DEF Good, Fields, WithEffect
  <2>7. Accounted(r)
    BY <2>1, <2>2, <2>3, <2>5, <1>0 DEF Good, Clean, Accounted, WithEffect, Processes
  <2>8. SameSlots(s, r) /\ r.p.tcb = s.p.tcb /\ r.p.sc = s.p.sc /\ r.p.reply = s.p.reply
    BY <2>3, <2>5 DEF SameSlots, WithEffect
  <2> QED
    BY <2>4, <2>5, <2>6, <2>7, <2>8 DEF Good, Clean, WithEffect
<1> QED
  BY <1>1, <1>2

(* Two steps that leave the cspace alone. *)
LEMMA SameSlotsTwice ==
  ASSUME NEW s, NEW r, NEW t, SameSlots(s, r), SameSlots(r, t)
  PROVE  SameSlots(s, t) /\ (Roots(s) => Roots(r)) /\ r.held \subseteq t.held
BY DEF SameSlots, Roots

(* So a configured thread has what it needs, and a failed one is recorded. *)
LEMMA ThreadGood ==
  ASSUME NEW s, NEW c \in Configs, NEW f, Good(s, c), ~s.err, ~s.p.own_sc, Roots(s)
  PROVE  LET r == sel4utils_configure_thread_config(s, c, f) IN
         /\ Good(r, c)
         /\ ~r.err => /\ SameSlots(s, r) /\ r.p.tcb = "tcb" /\ r.p.sc = c.sc /\ (c.sc = "sc" => "sc" \in r.held)
                      /\ c.mcs /\ c.cspace => r.p.reply = "reply" /\ "reply" \in r.held
<1> DEFINE r1 == AllocTcb(s, f)
           r2 == IF r1.err THEN r1 ELSE AllocIpcBuffer(r1, f)
           r3 == IF r2.err THEN r2 ELSE AllocReply(r2, c, f)
           r4 == IF r3.err THEN r3 ELSE AllocSchedContext(r3, c, f)
           r5 == IF r4.err THEN r4 ELSE TcbConfigure(r4, c, f)
           r6 == IF r5.err THEN r5 ELSE SetPriorities(r5, f)
           r7 == IF r6.err THEN r6 ELSE AllocStack(r6, f)
<1>1. sel4utils_configure_thread_config(s, c, f) = r7
  <2>1. r2 = Then(r1, LAMBDA r : AllocIpcBuffer(r, f))
    BY DEF Then
  <2>2. r3 = Then(r2, LAMBDA r : AllocReply(r, c, f))
    BY DEF Then
  <2>3. r4 = Then(r3, LAMBDA r : AllocSchedContext(r, c, f))
    <3> HIDE DEF r3
    <3> QED
      BY DEF Then
  <2>4. r5 = Then(r4, LAMBDA r : TcbConfigure(r, c, f))
    <3> HIDE DEF r4
    <3> QED
      BY DEF Then
  <2>5. r6 = Then(r5, LAMBDA r : SetPriorities(r, f))
    <3> HIDE DEF r5
    <3> QED
      BY DEF Then
  <2>6. r7 = Then(r6, LAMBDA r : AllocStack(r, f))
    <3> HIDE DEF r6
    <3> QED
      BY DEF Then
  <2> QED
    BY <2>1, <2>2, <2>3, <2>4, <2>5, <2>6, ZenonT(60) DEF sel4utils_configure_thread_config
<1>2. Good(r1, c) /\ (~r1.err => SameSlots(s, r1) /\ ~r1.p.own_sc)
  BY AllocTcbGood
<1> HIDE DEF r1
<1>3. Good(r2, c) /\ (~r2.err => SameSlots(s, r2) /\ ~r2.p.own_sc /\ r2.p.ipc = "ipc")
  BY <1>2, AllocIpcBufferGood, SameSlotsTwice
<1> HIDE DEF r2
<1>4. Good(r3, c) /\ (~r3.err => /\ SameSlots(s, r3) /\ ~r3.p.own_sc /\ r3.p.ipc = "ipc"
                                 /\ c.mcs /\ c.cspace => r3.p.reply = "reply" /\ "reply" \in r3.held)
  BY <1>3, AllocReplyGood, SameSlotsTwice
<1> HIDE DEF r3
<1>5. Good(r4, c) /\ (~r4.err => /\ SameSlots(s, r4) /\ r4.p.ipc = "ipc" /\ r4.p.sc = c.sc /\ (c.sc = "sc" => "sc" \in r4.held)
                                 /\ c.mcs /\ c.cspace => r4.p.reply = "reply" /\ "reply" \in r4.held)
  BY <1>4, AllocSchedContextGood, SameSlotsTwice
<1> HIDE DEF r4
<1>6. Good(r5, c) /\ (~r5.err => /\ SameSlots(s, r5) /\ r5.p.tcb = "tcb" /\ r5.p.sc = c.sc /\ (c.sc = "sc" => "sc" \in r5.held)
                                 /\ c.mcs /\ c.cspace => r5.p.reply = "reply" /\ "reply" \in r5.held)
  <2>1. ~r4.err => Roots(r4)
    BY <1>5 DEF SameSlots, Roots
  <2> QED
    BY <1>5, <2>1, TcbConfigureGood, SameSlotsTwice
<1> HIDE DEF r5
<1>7. Good(r6, c) /\ (~r6.err => /\ SameSlots(s, r6) /\ r6.p.tcb = "tcb" /\ r6.p.sc = c.sc /\ (c.sc = "sc" => "sc" \in r6.held)
                                 /\ c.mcs /\ c.cspace => r6.p.reply = "reply" /\ "reply" \in r6.held)
  BY <1>6, SetPrioritiesGood, SameSlotsTwice
<1> HIDE DEF r6
<1>8. Good(r7, c) /\ (~r7.err => /\ SameSlots(s, r7) /\ r7.p.tcb = "tcb" /\ r7.p.sc = c.sc /\ (c.sc = "sc" => "sc" \in r7.held)
                                 /\ c.mcs /\ c.cspace => r7.p.reply = "reply" /\ "reply" \in r7.held)
  <2>1. CASE r6.err
    BY <1>7, <2>1
  <2>2. CASE ~r6.err
    <3>1. r7 = AllocStack(r6, f)
      BY <2>2
    <3> HIDE DEF r7
    <3>2. Good(r7, c) /\ (~r7.err => SameSlots(r6, r7) /\ r7.p.tcb = r6.p.tcb /\ r7.p.sc = r6.p.sc
                                     /\ r7.p.reply = r6.p.reply)
      BY <1>7, <2>2, <3>1, AllocStackGood
    <3>3. ~r7.err => SameSlots(s, r7) /\ r6.held \subseteq r7.held
      BY <1>7, <2>2, <3>2, SameSlotsTwice
    <3> QED
      BY <1>7, <2>2, <3>2, <3>3
  <2> QED
    BY <2>1, <2>2
<1> HIDE DEF r7
<1> QED
  BY <1>1, <1>8, ZenonT(60)

-----------------------------------------------------------------------------
(* The capability space.                                                    *)

(* Capabilities are added to the process's cspace, up to slot n. *)
Extended(s, r, c, S, n) ==
  /\ Good(r, c) /\ ~r.err /\ SlotCaps(r) = SlotCaps(s) \cup S /\ r.held = s.held /\ r.early = s.early
  /\ r.p = [s.p EXCEPT !.next_free = n] /\ r.heap = s.heap /\ r.mapped = s.mapped

(* An assertion that holds changes nothing. *)
LEMMA AssertsHolds ==
  ASSUME NEW s, s \in States, s.sound, NEW b, b
  PROVE  Asserts(s, b) = s
BY DEF Asserts, States

(* One more slot, and perhaps a capability in it. *)
SlotTaken(s, C) == [s EXCEPT !.caps = @ \cup C, !.p.next_free = @ + 1]

(* Taking the next slot keeps every object accounted for. *)
LEMMA SlotTakenExtends ==
  ASSUME NEW s, NEW c, Good(s, c), ~s.err, NEW C,
         C = {} \/ \E o \in s.held : C = {<<o, Slot(s.p.next_free)>>}
  PROVE  Extended(s, SlotTaken(s, C), c, C, s.p.next_free + 1)
<1> DEFINE q == [s.p EXCEPT !.next_free = s.p.next_free + 1]
           r == SlotTaken(s, C)
<1>0. s \in States /\ s.p \in Processes /\ s.p.next_free \in Nat
  BY DEF Good, Sane, States, Processes
<1>1. q \in Processes
  BY <1>0 DEF Processes
<1>2. C \subseteq Objects \X Places /\ \A x \in C : x[2][1] = "slot" /\ x[1] \in s.held
  BY <1>0, PlaceFacts DEF States
<1>3. r = [s EXCEPT !.caps = s.caps \cup C, !.p = q]
  BY <1>0 DEF SlotTaken, States
<1>4. /\ q.own_vspace = s.p.own_vspace /\ q.own_cspace = s.p.own_cspace /\ q.own_ep = s.p.own_ep
      /\ q.pd = s.p.pd /\ q.ep = s.p.ep /\ q.cnode = s.p.cnode /\ q.list = s.p.list
      /\ q.tcb = s.p.tcb /\ q.stack = s.p.stack /\ q.sc = s.p.sc /\ q.reply = s.p.reply
      /\ q.own_sc = s.p.own_sc /\ q.own_reply = s.p.own_reply /\ q.ipc = s.p.ipc
  BY <1>0 DEF Processes
<1> HIDE DEF q
<1>5. /\ r \in States /\ r.p = q /\ r.caps = s.caps \cup C /\ r.held = s.held /\ r.sound = s.sound
      /\ r.early = s.early /\ r.mapped = s.mapped /\ r.err = s.err /\ r.heap = s.heap
  <2> DEFINE D == s.caps \cup C
  <2>1. D \in SUBSET (Objects \X Places)
    BY <1>0, <1>2 DEF States
  <2>2. r = [s EXCEPT !.caps = D, !.p = q]
    BY <1>3
  <2> HIDE DEF D, r
  <2>3. /\ r \in States /\ r.p = q /\ r.caps = D /\ r.held = s.held /\ r.sound = s.sound
        /\ r.early = s.early /\ r.mapped = s.mapped /\ r.err = s.err /\ r.heap = s.heap
    BY <1>0, <1>1, <2>1, <2>2 DEF States
  <2> QED
    BY <2>3 DEF D
<1> HIDE DEF r
<1>6. Sane(r) /\ Fields(r, c)
  BY <1>4, <1>5 DEF Good, Sane, Fields
<1>7. Clean(r)
  <2>1. <<"tcb", TCB>> \notin C /\ <<"tcb", TCB>> \notin s.caps
    BY <1>2, PlaceFacts DEF Good, Clean
  <2> QED
    BY <1>2, <1>4, <1>5, <2>1 DEF Good, Clean, Accounted
<1>8. SlotCaps(r) = SlotCaps(s) \cup C
  BY <1>2, <1>5 DEF SlotCaps
<1> QED
  BY <1>5, <1>6, <1>7, <1>8 DEF Extended, Good, q, r

(* allocate_next_slot() takes the next slot. *)
LEMMA NextSlot ==
  ASSUME NEW s, s \in States, s.sound, s.p.next_free < CspaceSlots
  PROVE  allocate_next_slot(s) = SlotTaken(s, {})
<1>1. Asserts(s, s.p.next_free < CspaceSlots) = s
  BY AssertsHolds
<1>2. s.caps \cup {} = s.caps
  OBVIOUS
<1>3. SlotTaken(s, {}) = [s EXCEPT !.p.next_free = @ + 1]
  BY <1>2 DEF SlotTaken, States
<1> QED
  BY <1>1, <1>3 DEF allocate_next_slot

(* A capability that is put into the next slot takes it. *)
LEMMA CopyIsTaken ==
  ASSUME NEW s, s \in States, s.sound, NEW o \in Objects, NEW C, C \in SUBSET (Objects \X Places),
         s.p.next_free < CspaceSlots
  PROVE  allocate_next_slot([s EXCEPT !.caps = C \cup {<<o, Slot(s.p.next_free)>>}])
           = SlotTaken([s EXCEPT !.caps = C], {<<o, Slot(s.p.next_free)>>})
<1> DEFINE t == [s EXCEPT !.caps = C \cup {<<o, Slot(s.p.next_free)>>}]
<1>1. s.p.next_free \in Nat
  BY DEF States, Processes
<1>2. t \in States /\ t.sound /\ t.p = s.p
  BY <1>1, PlaceFacts DEF States
<1>3. allocate_next_slot(t) = SlotTaken(t, {})
  BY <1>2, NextSlot
<1>4. t.caps \cup {} = C \cup {<<o, Slot(s.p.next_free)>>}
  BY DEF States
<1>5. SlotTaken(t, {}) = SlotTaken([s EXCEPT !.caps = C], {<<o, Slot(s.p.next_free)>>})
  BY <1>4 DEF SlotTaken, States
<1> QED
  BY <1>3, <1>5

(* A copy arrives in the slot that it must end up in. *)
LEMMA CopyToSlotExtends ==
  ASSUME NEW s, NEW c, Good(s, c), ~s.err, NEW o \in s.held, o # "gift" \/ <<o, VKA>> \in s.caps,
         NEW k \in 1 .. 8, s.p.next_free = k
  PROVE  /\ CopyToSlot(s, o, k) = SlotTaken(s, {<<o, Slot(k)>>})
         /\ Extended(s, CopyToSlot(s, o, k), c, {<<o, Slot(k)>>}, k + 1)
<1>0. s \in States /\ s.sound /\ o \in Objects /\ <<o, VKA>> \in s.caps /\ k < CspaceSlots /\ k # 0
  BY ProcessAssumption DEF Good, Sane, States, ProcessAssumption
<1>1. next_free_slot(s) # 0 /\ Exists(s.caps, o)
  BY <1>0, ProcessAssumption DEF next_free_slot, Exists, ProcessAssumption
<1>2. CopyToProcess(s, o, FALSE) = allocate_next_slot([s EXCEPT !.caps = s.caps \cup {<<o, Slot(k)>>}])
  BY <1>1 DEF CopyToProcess
<1> DEFINE r == SlotTaken(s, {<<o, Slot(k)>>})
<1>3. CopyToProcess(s, o, FALSE) = r
  <2>1. s.caps \in SUBSET (Objects \X Places) /\ [s EXCEPT !.caps = s.caps] = s
    BY <1>0 DEF States
  <2> QED
    BY <1>0, <1>2, <2>1, CopyIsTaken
<1>4. Extended(s, r, c, {<<o, Slot(k)>>}, k + 1)
  BY SlotTakenExtends
<1>5. r \in States /\ r.sound /\ <<o, Slot(k)>> \in r.caps
  <2>1. <<o, Slot(k)>> \in SlotCaps(r)
    BY <1>4 DEF Extended
  <2> QED
    BY <1>4, <2>1 DEF Extended, Good, Sane, SlotCaps
<1> HIDE DEF r
<1>6. CopyToSlot(s, o, k) = Asserts(r, <<o, Slot(k)>> \in r.caps)
  BY <1>3 DEF CopyToSlot
<1>7. CopyToSlot(s, o, k) = r
  BY <1>5, <1>6, AssertsHolds
<1> QED
  BY <1>4, <1>7 DEF r

(* What create_cspace puts into the process's cspace. *)
Base(p) ==
  {<<"cnode", Slot(1)>>} \cup (IF p.ep = Null THEN {} ELSE {<<p.ep, Slot(2)>>})
    \cup {<<p.pd, Slot(3)>>} \cup {<<"asid", Slot(4)>>}

(* The fields that the cspace does not change. *)
SameButSlots(p, q) ==
  /\ q.own_vspace = p.own_vspace /\ q.own_cspace = p.own_cspace /\ q.own_ep = p.own_ep
  /\ q.pd = p.pd /\ q.ep = p.ep /\ q.list = p.list /\ q.tcb = p.tcb /\ q.stack = p.stack
  /\ q.sc = p.sc /\ q.reply = p.reply /\ q.own_sc = p.own_sc /\ q.own_reply = p.own_reply
  /\ q.ipc = p.ipc

(* What else a step that takes a slot keeps. *)
LEMMA ExtendedFields ==
  ASSUME NEW s, NEW r, NEW c, NEW S, NEW n \in Nat, s \in States, Extended(s, r, c, S, n)
  PROVE  /\ Good(r, c) /\ ~r.err /\ r.held = s.held /\ SameButSlots(s.p, r.p)
         /\ r.p.cnode = s.p.cnode /\ r.p.next_free = n /\ SlotCaps(r) = SlotCaps(s) \cup S
         /\ r \in States
<1>1. s.p \in Processes
  BY DEF States
<1>2. SameButSlots(s.p, r.p) /\ r.p.cnode = s.p.cnode /\ r.p.next_free = n
  BY <1>1 DEF Extended, SameButSlots, Processes
<1> QED
  BY <1>2 DEF Extended, Good, Sane

(* create_cspace() fills the first four slots. *)
LEMMA CreateCspaceGood ==
  ASSUME NEW s, NEW c, NEW f, Good(s, c), ~s.err, SlotCaps(s) = {}, s.p.own_cspace,
         s.p.pd \in s.held, s.p.ep \in s.held \cup {Null}, s.p.pd # "gift", s.p.ep # "gift"
  PROVE  LET r == create_cspace(s, c, f) IN
         /\ Good(r, c)
         /\ ~r.err => /\ SameButSlots(s.p, r.p) /\ s.held \subseteq r.held
                      /\ r.p.cnode = "cnode" /\ "cnode" \in r.held
                      /\ r.p.next_free = 5 /\ SlotCaps(r) = Base(r.p)
<1>0. s \in States /\ s.p \in Processes /\ "asid" \in s.held
  BY DEF Good, Sane, States, Lent
<1>1. CASE f = "cnode"
  <2>1. create_cspace(s, c, f) = Fails(s)
    <3>1. vka_alloc_object(s, "cnode", f = "cnode") = Fails(s)
      BY <1>1 DEF vka_alloc_object
    <3>2. Fails(s).err
      BY FailsGood DEF Good
    <3> QED
      BY <3>1, <3>2 DEF create_cspace, Then
  <2> QED
    BY <2>1, FailsGood DEF Good
<1>2. CASE f # "cnode"
  <2> DEFINE z == [s.p EXCEPT !.cnode = "cnode", !.next_free = 1]
             t == With(s, {"cnode"}, {}, s.p)
             a == With(s, {"cnode"}, {}, z)
             b == CopyToSlot(a, "cnode", 1)
             d == IF s.p.ep # Null THEN CopyToSlot(b, s.p.ep, 2) ELSE allocate_next_slot(b)
             e == CopyToSlot(d, s.p.pd, 3)
             g == CopyToSlot(e, "asid", 4)
             E == IF s.p.ep # Null THEN {<<s.p.ep, Slot(2)>>} ELSE {}
  <2>1. z \in Processes /\ SameButSlots(s.p, z) /\ z.cnode = "cnode" /\ z.next_free = 1
    BY <1>0 DEF Processes, SameButSlots
  <2>2. vka_alloc_object(s, "cnode", FALSE) = t /\ t.p = s.p /\ [t EXCEPT !.p = z] = a
    <3>1. vka_alloc_object(s, "cnode", FALSE) = t
      BY <1>0, AllocWith
    <3>2. t.p = s.p /\ [t EXCEPT !.p = z] = a
      BY <1>0, WithThen
    <3> QED
      BY <3>1, <3>2
  <2>3. WithEffect(s, a, {"cnode"}, {}, z)
    BY <2>1, WithMade DEF Made
  <2>4. WithEffect(s, t, {"cnode"}, {}, s.p)
    BY <1>0, WithMade DEF Made
  <2>5. [t EXCEPT !.p.cnode = "cnode", !.p.next_free = 1] = a
    <3>1. [t EXCEPT !.p.cnode = "cnode", !.p.next_free = 1] = [t EXCEPT !.p = z]
      BY <2>2, <1>0 DEF With, States, Processes
    <3> QED
      BY <3>1, <2>2
  <2>6. create_cspace(s, c, f) = g
    <3>1. create_cspace(s, c, f) =
            Then(vka_alloc_object(s, "cnode", FALSE),
                 LAMBDA r : CopyToSlot(CopyToSlot(
                   IF s.p.ep # Null
                     THEN CopyToSlot(CopyToSlot([r EXCEPT !.p.cnode = "cnode", !.p.next_free = 1], "cnode", 1), s.p.ep, 2)
                     ELSE allocate_next_slot(CopyToSlot([r EXCEPT !.p.cnode = "cnode", !.p.next_free = 1], "cnode", 1)),
                   s.p.pd, 3), "asid", 4))
      BY <1>2 DEF create_cspace, SEL4UTILS_CNODE_SLOT, SEL4UTILS_ENDPOINT_SLOT, SEL4UTILS_PD_SLOT,
                  SEL4UTILS_ASID_POOL_SLOT
    <3>2. ~t.err
      BY <2>4 DEF WithEffect
    <3> QED
      BY <3>1, <3>2, <2>2, <2>5, ZenonT(60) DEF Then
  <2> HIDE DEF t, a, z
  <2>7. Good(a, c) /\ ~a.err /\ a.p = z /\ a.held = s.held \cup {"cnode"} /\ SlotCaps(a) = {} /\ a \in States
    <3>1. Fields(a, c)
      BY <2>1, <2>3 DEF Good, Fields, WithEffect, SameButSlots
    <3>2. Accounted(a)
      BY <2>1, <2>3, <1>0 DEF Good, Clean, Accounted, WithEffect, SameButSlots
    <3> QED
      BY <2>3, <3>1, <3>2 DEF Good, Clean, WithEffect, Sane
  <2>8. Extended(a, b, c, {<<"cnode", Slot(1)>>}, 2)
    <3>1. PICK o, k : o = "cnode" /\ k = 1
      OBVIOUS
    <3>2. o \in a.held /\ o # "gift" /\ k \in 1 .. 8 /\ a.p.next_free = k /\ k + 1 = 2
      BY <2>1, <2>7, <3>1
    <3>3. Extended(a, CopyToSlot(a, o, k), c, {<<o, Slot(k)>>}, k + 1)
      BY <2>7, <3>2, CopyToSlotExtends
    <3> QED
      BY <3>1, <3>2, <3>3
  <2>9. /\ Good(b, c) /\ ~b.err /\ b.held = a.held /\ SameButSlots(a.p, b.p) /\ b.p.cnode = "cnode"
        /\ b.p.next_free = 2 /\ SlotCaps(b) = {<<"cnode", Slot(1)>>} /\ b \in States
    BY <2>1, <2>7, <2>8, ExtendedFields
  <2> HIDE DEF b
  <2>10. Extended(b, d, c, E, 3)
    <3>1. CASE s.p.ep # Null
      <4>1. PICK o, k : o = s.p.ep /\ k = 2
        OBVIOUS
      <4>2. o \in b.held /\ o # "gift" /\ k \in 1 .. 8 /\ b.p.next_free = k /\ k + 1 = 3
        BY <2>7, <2>9, <3>1, <4>1
      <4>3. Extended(b, CopyToSlot(b, o, k), c, {<<o, Slot(k)>>}, k + 1)
        BY <2>9, <4>2, CopyToSlotExtends
      <4> QED
        BY <3>1, <4>1, <4>2, <4>3
    <3>2. CASE s.p.ep = Null
      <4>1. allocate_next_slot(b) = SlotTaken(b, {})
        BY <2>9, ProcessAssumption, NextSlot DEF ProcessAssumption, Good, Sane
      <4>2. Extended(b, SlotTaken(b, {}), c, {}, 2 + 1)
        BY <2>9, SlotTakenExtends
      <4> QED
        BY <3>2, <4>1, <4>2
    <3> QED
      BY <3>1, <3>2
  <2>11. /\ Good(d, c) /\ ~d.err /\ d.held = b.held /\ SameButSlots(b.p, d.p) /\ d.p.cnode = "cnode"
         /\ d.p.next_free = 3 /\ SlotCaps(d) = SlotCaps(b) \cup E /\ d \in States
    BY <2>9, <2>10, ExtendedFields
  <2> HIDE DEF d, E
  <2>12. Extended(d, e, c, {<<s.p.pd, Slot(3)>>}, 4)
    <3>1. PICK o, k : o = s.p.pd /\ k = 3
      OBVIOUS
    <3>2. o \in d.held /\ o # "gift" /\ k \in 1 .. 8 /\ d.p.next_free = k /\ k + 1 = 4
      BY <2>7, <2>9, <2>11, <3>1
    <3>3. Extended(d, CopyToSlot(d, o, k), c, {<<o, Slot(k)>>}, k + 1)
      BY <2>11, <3>2, CopyToSlotExtends
    <3> QED
      BY <3>1, <3>2, <3>3
  <2>13. /\ Good(e, c) /\ ~e.err /\ e.held = d.held /\ SameButSlots(d.p, e.p) /\ e.p.cnode = "cnode"
         /\ e.p.next_free = 4 /\ SlotCaps(e) = SlotCaps(d) \cup {<<s.p.pd, Slot(3)>>} /\ e \in States
    BY <2>11, <2>12, ExtendedFields
  <2> HIDE DEF e
  <2>14. Extended(e, g, c, {<<"asid", Slot(4)>>}, 5)
    <3>1. PICK o, k : o = "asid" /\ k = 4
      OBVIOUS
    <3>2. o \in e.held /\ o # "gift" /\ k \in 1 .. 8 /\ e.p.next_free = k /\ k + 1 = 5
      BY <1>0, <2>7, <2>9, <2>11, <2>13, <3>1
    <3>3. Extended(e, CopyToSlot(e, o, k), c, {<<o, Slot(k)>>}, k + 1)
      BY <2>13, <3>2, CopyToSlotExtends
    <3> QED
      BY <3>1, <3>2, <3>3
  <2>15. /\ Good(g, c) /\ ~g.err /\ g.held = e.held /\ SameButSlots(e.p, g.p) /\ g.p.cnode = "cnode"
         /\ g.p.next_free = 5 /\ SlotCaps(g) = SlotCaps(e) \cup {<<"asid", Slot(4)>>}
    BY <2>13, <2>14, ExtendedFields
  <2> HIDE DEF g
  <2>16. SameButSlots(s.p, g.p)
    BY <2>1, <2>7, <2>9, <2>11, <2>13, <2>15 DEF SameButSlots
  <2>17. SlotCaps(g) = Base(g.p)
    <3>1. g.p.ep = s.p.ep /\ g.p.pd = s.p.pd
      BY <2>16 DEF SameButSlots
    <3> QED
      BY <2>9, <2>11, <2>13, <2>15, <3>1 DEF Base, E
  <2>18. s.held \subseteq g.held /\ "cnode" \in g.held
    BY <2>7, <2>9, <2>11, <2>13, <2>15
  <2> QED
    BY <2>6, <2>15, <2>16, <2>17, <2>18
<1> QED
  BY <1>1, <1>2

(* The slots that the library promises. *)
Promised(x) ==
  LET k == x[2][2] IN
  /\ k \in Nat \ {0}
  /\ k = 1 => x[1] = "cnode"
  /\ k = 2 => x[1] \in {"ep", "lentEp"}
  /\ k = 3 => x[1] \in {"pd", "lentPd"}
  /\ k = 4 => x[1] = "asid"
  /\ k = 5 => x[1] = "tcb"
  /\ k = 6 => x[1] \in {"sc", "lentSc"}
  /\ k = 7 => x[1] = "reply"

(* The cspace of a process that is up. *)
SlotsFine(r) ==
  /\ ~r.p.own_cspace => SlotCaps(r) = {}
  /\ r.p.own_cspace =>
       /\ r.p.next_free >= 8
       /\ \A x \in SlotCaps(r) : Promised(x) /\ x[2][2] < r.p.next_free
       /\ \A x, y \in SlotCaps(r) : x[2] = y[2] => x = y
       /\ {<<"cnode", Slot(1)>>, <<"asid", Slot(4)>>, <<"tcb", Slot(5)>>} \subseteq SlotCaps(r)
       /\ r.p.own_ep => <<"ep", Slot(2)>> \in SlotCaps(r)

(* A copy to a given slot, seen from outside. *)
LEMMA CopyOne ==
  ASSUME NEW s, NEW c, Good(s, c), ~s.err, NEW o \in s.held, o # "gift", NEW k \in 1 .. 8,
         s.p.next_free = k, NEW r, r = CopyToSlot(s, o, k)
  PROVE  /\ Good(r, c) /\ ~r.err /\ r.held = s.held /\ SameButSlots(s.p, r.p)
         /\ r.p.cnode = s.p.cnode /\ r.p.next_free = k + 1
         /\ SlotCaps(r) = SlotCaps(s) \cup {<<o, Slot(k)>>}
<1>1. Extended(s, r, c, {<<o, Slot(k)>>}, k + 1) /\ s \in States /\ k + 1 \in Nat
  <2>1. Extended(s, CopyToSlot(s, o, k), c, {<<o, Slot(k)>>}, k + 1)
    BY CopyToSlotExtends
  <2> QED
    BY <2>1 DEF Good, Sane
<1> QED
  BY <1>1, ExtendedFields

(* A slot that is left empty. *)
LEMMA SkipOne ==
  ASSUME NEW s, NEW c, Good(s, c), ~s.err, s.p.next_free \in 1 .. 8, NEW r, r = allocate_next_slot(s)
  PROVE  /\ Good(r, c) /\ ~r.err /\ r.held = s.held /\ SameButSlots(s.p, r.p)
         /\ r.p.cnode = s.p.cnode /\ r.p.next_free = s.p.next_free + 1
         /\ SlotCaps(r) = SlotCaps(s)
<1>1. s \in States /\ s.sound
  BY DEF Good, Sane
<1>2. s.p.next_free < CspaceSlots
  BY ProcessAssumption DEF ProcessAssumption
<1>3. r = SlotTaken(s, {})
  BY <1>1, <1>2, NextSlot
<1>4. Extended(s, SlotTaken(s, {}), c, {}, s.p.next_free + 1)
  BY SlotTakenExtends
<1>5. PICK S : S = {}
  OBVIOUS
<1>6. PICK n \in Nat : n = s.p.next_free + 1
  OBVIOUS
<1>7. Extended(s, r, c, S, n)
  BY <1>3, <1>4, <1>5, <1>6
<1>8. /\ Good(r, c) /\ ~r.err /\ r.held = s.held /\ SameButSlots(s.p, r.p)
      /\ r.p.cnode = s.p.cnode /\ r.p.next_free = n /\ SlotCaps(r) = SlotCaps(s) \cup S
  BY <1>1, <1>7, ExtendedFields
<1> QED
  BY <1>5, <1>6, <1>8

(* The thread's capabilities go into the slots that the library promises. *)
LEMMA CopyThreadCapsGood ==
  ASSUME NEW s, NEW c \in Configs, Good(s, c), ~s.err, c.cspace,
         s.p.next_free = 5, SlotCaps(s) = Base(s.p),
         s.p.tcb = "tcb", s.p.sc = c.sc, c.mcs => s.p.reply = "reply",
         c.sc = "sc" => "sc" \in s.held, c.mcs => "reply" \in s.held,
         s.p.ep = c.ep, s.p.own_ep <=> c.ep = "ep", s.p.own_cspace, Roots(s)
  PROVE  LET r == CopyThreadCaps(s, c) IN
         Good(r, c) /\ ~r.err /\ SameButSlots(s.p, r.p) /\ r.p.cnode = s.p.cnode /\ SlotsFine(r)
<1>0. s \in States /\ s.p \in Processes /\ "tcb" \in s.held
  BY DEF Good, Sane, States, Fields, Null
<1> DEFINE a == CopyToSlot(s, "tcb", 5)
           b == IF c.mcs THEN CopyToSlot(a, a.p.sc, 6) ELSE allocate_next_slot(a)
           d == IF c.mcs THEN CopyToSlot(b, b.p.reply, 7) ELSE allocate_next_slot(b)
           B == IF c.mcs THEN {<<s.p.sc, Slot(6)>>} ELSE {}
           D == IF c.mcs THEN {<<"reply", Slot(7)>>} ELSE {}
<1>1. /\ Good(a, c) /\ ~a.err /\ a.held = s.held /\ SameButSlots(s.p, a.p)
      /\ a.p.cnode = s.p.cnode /\ a.p.next_free = 6
      /\ SlotCaps(a) = SlotCaps(s) \cup {<<"tcb", Slot(5)>>}
  <2>1. PICK o, k : o = "tcb" /\ k = 5
    OBVIOUS
  <2>2. o \in s.held /\ o # "gift" /\ k \in 1 .. 8 /\ s.p.next_free = k /\ k + 1 = 6 /\ a = CopyToSlot(s, o, k)
    BY <1>0, <2>1
  <2> HIDE DEF a
  <2>3. /\ Good(a, c) /\ ~a.err /\ a.held = s.held /\ SameButSlots(s.p, a.p)
        /\ a.p.cnode = s.p.cnode /\ a.p.next_free = k + 1
        /\ SlotCaps(a) = SlotCaps(s) \cup {<<o, Slot(k)>>}
    BY <2>2, CopyOne
  <2> QED
    BY <2>1, <2>2, <2>3
<1> HIDE DEF a
<1>2. /\ Good(b, c) /\ ~b.err /\ b.held = s.held /\ SameButSlots(s.p, b.p)
      /\ b.p.cnode = s.p.cnode /\ b.p.next_free = 7
      /\ SlotCaps(b) = SlotCaps(a) \cup B
  <2>1. CASE c.mcs
    <3>1. PICK o, k : o = a.p.sc /\ k = 6
      OBVIOUS
    <3>2. c.sc \in {"sc", "lentSc"}
      BY <2>1 DEF Configs
    <3>3. o \in s.held /\ o = s.p.sc /\ o # "gift"
      <4>1. o = c.sc /\ o = s.p.sc
        BY <1>1, <3>1 DEF SameButSlots
      <4>2. "lentSc" \in s.held
        BY DEF Good, Sane, Lent
      <4>3. c.sc = "sc" => "sc" \in s.held
        OBVIOUS
      <4> QED
        BY <3>2, <4>1, <4>2, <4>3
    <3>4. o \in a.held /\ k \in 1 .. 8 /\ a.p.next_free = k /\ k + 1 = 7 /\ b = CopyToSlot(a, o, k)
      BY <1>1, <2>1, <3>1, <3>3
    <3> HIDE DEF b
    <3>5. /\ Good(b, c) /\ ~b.err /\ b.held = a.held /\ SameButSlots(a.p, b.p)
          /\ b.p.cnode = a.p.cnode /\ b.p.next_free = k + 1
          /\ SlotCaps(b) = SlotCaps(a) \cup {<<o, Slot(k)>>}
      BY <1>1, <3>3, <3>4, CopyOne
    <3>6. B = {<<o, Slot(k)>>}
      BY <2>1, <3>1, <3>3
    <3> HIDE DEF B
    <3> QED
      BY <1>1, <3>4, <3>5, <3>6 DEF SameButSlots
  <2>2. CASE ~c.mcs
    <3>1. b = allocate_next_slot(a) /\ B = {} /\ a.p.next_free \in 1 .. 8
      BY <1>1, <2>2
    <3> HIDE DEF b, B
    <3>2. /\ Good(b, c) /\ ~b.err /\ b.held = a.held /\ SameButSlots(a.p, b.p)
          /\ b.p.cnode = a.p.cnode /\ b.p.next_free = a.p.next_free + 1
          /\ SlotCaps(b) = SlotCaps(a)
      BY <1>1, <3>1, SkipOne
    <3> QED
      BY <1>1, <3>1, <3>2 DEF SameButSlots
  <2> QED
    BY <2>1, <2>2
<1> HIDE DEF b
<1>3. /\ Good(d, c) /\ ~d.err /\ d.held = s.held /\ SameButSlots(s.p, d.p)
      /\ d.p.cnode = s.p.cnode /\ d.p.next_free = 8
      /\ SlotCaps(d) = SlotCaps(b) \cup D
  <2>1. CASE c.mcs
    <3>1. PICK o, k : o = b.p.reply /\ k = 7
      OBVIOUS
    <3>2. o = "reply"
      BY <1>2, <2>1, <3>1 DEF SameButSlots
    <3>3. "reply" \in s.held
      BY <2>1
    <3>4. o \in b.held /\ o # "gift" /\ k \in 1 .. 8 /\ b.p.next_free = k /\ k + 1 = 8 /\ d = CopyToSlot(b, o, k)
      BY <1>2, <2>1, <3>1, <3>2, <3>3
    <3> HIDE DEF d
    <3>5. /\ Good(d, c) /\ ~d.err /\ d.held = b.held /\ SameButSlots(b.p, d.p)
          /\ d.p.cnode = b.p.cnode /\ d.p.next_free = k + 1
          /\ SlotCaps(d) = SlotCaps(b) \cup {<<o, Slot(k)>>}
      BY <1>2, <3>4, CopyOne
    <3>6. D = {<<o, Slot(k)>>}
      BY <2>1, <3>1, <3>2
    <3> HIDE DEF D
    <3> QED
      BY <1>2, <3>4, <3>5, <3>6 DEF SameButSlots
  <2>2. CASE ~c.mcs
    <3>1. d = allocate_next_slot(b) /\ D = {} /\ b.p.next_free \in 1 .. 8
      BY <1>2, <2>2
    <3> HIDE DEF d, D
    <3>2. /\ Good(d, c) /\ ~d.err /\ d.held = b.held /\ SameButSlots(b.p, d.p)
          /\ d.p.cnode = b.p.cnode /\ d.p.next_free = b.p.next_free + 1
          /\ SlotCaps(d) = SlotCaps(b)
      BY <1>2, <3>1, SkipOne
    <3> QED
      BY <1>2, <3>1, <3>2 DEF SameButSlots
  <2> QED
    BY <2>1, <2>2
<1>4. CopyThreadCaps(s, c) = d
  <2>1. CopyThreadCaps(s, c) =
          IF c.mcs THEN CopyToSlot(CopyToSlot(CopyToSlot(s, s.p.tcb, 5), CopyToSlot(s, s.p.tcb, 5).p.sc, 6),
                                   CopyToSlot(s, s.p.tcb, 5).p.reply, 7)
          ELSE allocate_next_slot(allocate_next_slot(CopyToSlot(s, s.p.tcb, 5)))
    BY DEF CopyThreadCaps, SEL4UTILS_TCB_SLOT, SEL4UTILS_SCHED_CONTEXT_SLOT, SEL4UTILS_REPLY_SLOT
  <2>2. CopyToSlot(s, s.p.tcb, 5) = a
    BY DEF a
  <2>3. a.p.reply = b.p.reply
    BY <1>1, <1>2 DEF SameButSlots
  <2> QED
    BY <2>1, <2>2, <2>3 DEF b
<1> HIDE DEF d
<1>5. SlotCaps(d) = Base(s.p) \cup {<<"tcb", Slot(5)>>} \cup B \cup D
  BY <1>1, <1>2, <1>3
<1>6. SlotsFine(d)
  <2>1. d.p.own_cspace /\ d.p.next_free = 8 /\ (d.p.own_ep => s.p.ep = "ep")
    BY <1>3 DEF SameButSlots
  <2>2. /\ s.p.ep \in {Null, "ep", "lentEp"} /\ s.p.pd \in {"pd", "lentPd"}
        /\ c.mcs => s.p.sc \in {"sc", "lentSc"}
    <3>1. Null \notin s.held
      BY <1>0 DEF States, Objects, Lent, Made, Null
    <3> QED
      BY <1>0, <3>1 DEF Configs, Processes, Roots
  <2>3. \A x \in SlotCaps(d) :
          \/ x = <<"cnode", Slot(1)>>
          \/ x = <<s.p.ep, Slot(2)>> /\ s.p.ep # Null
          \/ x = <<s.p.pd, Slot(3)>>
          \/ x = <<"asid", Slot(4)>>
          \/ x = <<"tcb", Slot(5)>>
          \/ x = <<s.p.sc, Slot(6)>> /\ c.mcs
          \/ x = <<"reply", Slot(7)>>
    BY <1>5 DEF Base
  <2>4. \A x \in SlotCaps(d) : Promised(x) /\ x[2][2] < 8
    BY <2>2, <2>3 DEF Promised, Slot
  <2>5. \A x, y \in SlotCaps(d) : x[2] = y[2] => x = y
    BY <2>3 DEF Slot
  <2>6. {<<"cnode", Slot(1)>>, <<"asid", Slot(4)>>, <<"tcb", Slot(5)>>} \subseteq SlotCaps(d)
    BY <1>5 DEF Base
  <2>7. d.p.own_ep => <<"ep", Slot(2)>> \in SlotCaps(d)
    BY <1>5, <2>1 DEF Base, Null
  <2> QED
    BY <2>1, <2>4, <2>5, <2>6, <2>7 DEF SlotsFine
<1> QED
  BY <1>3, <1>4, <1>6

-----------------------------------------------------------------------------
(* Configuring a process.                                                   *)

(* Where a configuration starts. *)
Starting(s, c) ==
  /\ s \in States /\ s.held = Lent /\ s.sound /\ ~s.err /\ s.early = {} /\ s.heap = {} /\ s.mapped = {}
  /\ s.caps = {<<o, VKA>> : o \in Lent}
  /\ s.p = [Zeroed EXCEPT !.own_vspace = c.vspace]

(* Nothing of the thread is there yet, and the root of the vspace is. *)
Rooted(s, c) ==
  /\ Good(s, c) /\ SlotCaps(s) = {} /\ ~s.p.own_sc /\ ~s.p.own_cspace
  /\ s.p.own_vspace = c.vspace /\ s.p.pd \in s.held

(* A configuration starts in order. *)
LEMMA StartingGood ==
  ASSUME NEW s, NEW c \in Configs, Starting(s, c)
  PROVE  /\ Good(s, c) /\ SlotCaps(s) = {} /\ ~s.p.own_sc
         /\ s.p.own_vspace = c.vspace /\ s.p.ep = Null /\ ~s.p.own_ep /\ ~s.p.own_cspace
<1>1. /\ s.p.tcb = Null /\ s.p.ipc = Null /\ s.p.stack = Null /\ s.p.own_sc = FALSE
      /\ s.p.own_reply = FALSE /\ s.p.ep = Null /\ s.p.cnode = Null /\ s.p.pd = Null
      /\ s.p.own_vspace = c.vspace /\ s.p.list = {} /\ s.p.own_ep = FALSE /\ s.p.own_cspace = FALSE
  BY DEF Starting, Zeroed
<1>2. \A o \in Lent : o \notin {"tcb", "ipc", "stack", "sc", "reply", "ep", "cnode", "pd", "frame", "pt"}
  BY DEF Lent
<1>3. Sane(s)
  BY DEF Starting, Sane
<1>4. Fields(s, c)
  BY <1>1 DEF Fields
<1>5. Accounted(s)
  BY <1>1, <1>2 DEF Starting, Accounted
<1>6. \A x \in s.caps : x[1] \in s.held /\ x[2][1] = "vka"
  BY PlaceFacts DEF Starting
<1>7. SlotCaps(s) = {}
  BY <1>6 DEF SlotCaps
<1>8. <<"tcb", TCB>> \notin s.caps
  BY <1>6, PlaceFacts
<1> QED
  BY <1>1, <1>3, <1>4, <1>5, <1>6, <1>7, <1>8 DEF Good, Clean, Starting

(* Making or borrowing the root of the vspace. *)
LEMMA VspaceRooted ==
  ASSUME NEW s, NEW c \in Configs, NEW f, Starting(s, c)
  PROVE  LET r == CreateVspaceRoot(s, c, f) IN
         Good(r, c) /\ (~r.err => Rooted(r, c) /\ r.p.ep = Null /\ ~r.p.own_ep)
<1>0. /\ Good(s, c) /\ SlotCaps(s) = {} /\ ~s.p.own_sc /\ s.p.own_vspace = c.vspace /\ s.p.ep = Null
      /\ ~s.err /\ ~s.p.own_ep /\ ~s.p.own_cspace
  BY StartingGood DEF Starting
<1>1. s \in States /\ s.p \in Processes
  BY DEF Starting, States
<1>2. CASE ~c.vspace
  <2> DEFINE z == [s.p EXCEPT !.pd = "lentPd"]
             r == [s EXCEPT !.p = z]
  <2>1. z \in Processes /\ r \in States
    BY <1>1 DEF Processes, States
  <2>2. /\ z.own_vspace = s.p.own_vspace /\ z.own_cspace = s.p.own_cspace /\ z.own_ep = s.p.own_ep
        /\ z.pd = "lentPd" /\ z.ep = s.p.ep /\ z.cnode = s.p.cnode
        /\ z.tcb = s.p.tcb /\ z.stack = s.p.stack /\ z.sc = s.p.sc /\ z.ipc = s.p.ipc
        /\ z.own_sc = s.p.own_sc /\ z.list = s.p.list /\ z.reply = s.p.reply /\ z.own_reply = s.p.own_reply
    BY <1>1 DEF Processes
  <2>3. /\ r.p = z /\ r.caps = s.caps /\ r.held = s.held /\ r.sound = s.sound /\ r.early = s.early
        /\ r.mapped = s.mapped /\ r.err = s.err
    BY <1>1 DEF States
  <2>4. CreateVspaceRoot(s, c, f) = r
    BY <1>2 DEF CreateVspaceRoot
  <2> HIDE DEF r, z
  <2>5. Fields(r, c) /\ Sane(r)
    BY <1>0, <1>2, <2>1, <2>2, <2>3 DEF Good, Fields, Sane
  <2>6. Clean(r)
    <3>1. "pd" \notin s.held
      BY DEF Starting, Lent
    <3> QED
      BY <1>0, <2>2, <2>3, <3>1 DEF Good, Clean, Accounted
  <2>7. SlotCaps(r) = {} /\ "lentPd" \in r.held
    BY <1>0, <2>3 DEF SlotCaps, Starting, Lent
  <2> QED
    BY <1>0, <2>2, <2>3, <2>4, <2>5, <2>6, <2>7 DEF Good, Rooted
<1>3. CASE c.vspace /\ f = "pd"
  <2>1. CreateVspaceRoot(s, c, f) = Fails(s)
    <3>1. vka_alloc_object(s, "pd", f = "pd") = Fails(s)
      BY <1>3 DEF vka_alloc_object
    <3>2. Fails(s).err
      BY <1>0, FailsGood DEF Good
    <3> QED
      BY <1>3, <3>1, <3>2 DEF CreateVspaceRoot, Then
  <2> QED
    BY <1>0, <2>1, FailsGood DEF Good
<1>4. CASE c.vspace /\ f # "pd"
  <2> DEFINE z == [s.p EXCEPT !.pd = "pd"]
             t == With(s, {"pd"}, {}, s.p)
             u == With(s, {"pd"}, {}, z)
             r == [u EXCEPT !.err = f = "asid"]
  <2>1. z \in Processes /\ z.pd = "pd"
    BY <1>1 DEF Processes
  <2>2. /\ z.own_vspace = s.p.own_vspace /\ z.own_cspace = s.p.own_cspace /\ z.own_ep = s.p.own_ep
        /\ z.ep = s.p.ep /\ z.cnode = s.p.cnode
        /\ z.tcb = s.p.tcb /\ z.stack = s.p.stack /\ z.sc = s.p.sc /\ z.ipc = s.p.ipc
        /\ z.own_sc = s.p.own_sc /\ z.list = s.p.list /\ z.reply = s.p.reply /\ z.own_reply = s.p.own_reply
    BY <1>1 DEF Processes
  <2>3. vka_alloc_object(s, "pd", FALSE) = t
    BY <1>1, AllocWith
  <2>4. t.p = s.p /\ [t EXCEPT !.p = z] = u
    BY <1>1, WithThen
  <2>5. WithEffect(s, u, {"pd"}, {}, z) /\ WithEffect(s, t, {"pd"}, {}, s.p)
    BY <1>0, <1>1, <2>1, WithMade DEF Made
  <2>6. CreateVspaceRoot(s, c, f) = r
    <3>1. CreateVspaceRoot(s, c, f) =
            Then(vka_alloc_object(s, "pd", FALSE), LAMBDA x : [x EXCEPT !.p.pd = "pd", !.err = f = "asid"])
      BY <1>4 DEF CreateVspaceRoot
    <3>2. ~t.err
      BY <2>5 DEF WithEffect
    <3>3. CreateVspaceRoot(s, c, f) = [t EXCEPT !.p.pd = "pd", !.err = f = "asid"]
      BY <2>3, <3>1, <3>2 DEF Then
    <3>4. [t EXCEPT !.p.pd = "pd"] = u
      BY <2>4
    <3> QED
      BY <3>3, <3>4
  <2> HIDE DEF t, u, z
  <2>7. Good(u, c) /\ ~u.err
    <3>1. Fields(u, c)
      BY <1>0, <1>1, <2>1, <2>2, <2>5 DEF Good, Fields, WithEffect
    <3>2. Accounted(u)
      <4>1. z.own_vspace
        BY <1>0, <1>4, <2>2
      <4>2. u.held = s.held \cup {"pd"} /\ u.mapped = s.mapped /\ u.p = z
        BY <2>5 DEF WithEffect
      <4>3. Accounted(s)
        BY <1>0 DEF Good, Clean
      <4> QED
        BY <2>1, <2>2, <4>1, <4>2, <4>3 DEF Accounted
    <3> QED
      BY <2>5, <3>1, <3>2 DEF Good, Clean, WithEffect
  <2>8. CASE f = "asid"
    <3>1. r = Fails(u)
      BY <2>8 DEF Fails
    <3>2. Good(Fails(u), c) /\ Fails(u).err
      BY <2>7, FailsGood DEF Good
    <3> HIDE DEF r
    <3> QED
      BY <2>6, <3>1, <3>2
  <2>9. CASE f # "asid"
    <3>1. (f = "asid") = FALSE
      BY <2>9
    <3>2. r = u
      BY <2>7, <3>1 DEF Good, Sane, States
    <3>3. SlotCaps(u) = {} /\ "pd" \in u.held /\ u.p = z
      BY <1>0, <2>5 DEF WithEffect
    <3> QED
      BY <1>0, <2>1, <2>2, <2>6, <2>7, <3>2, <3>3 DEF Rooted
  <2> QED
    BY <2>8, <2>9
<1> QED
  BY <1>2, <1>3, <1>4

(* The fault endpoint, made or lent or left out. *)
MakeEndpoint(s, c, f) ==
  IF c.ep = "ep" THEN create_fault_endpoint(s, f) ELSE [s EXCEPT !.p.ep = c.ep]

(* Making or borrowing the fault endpoint. *)
LEMMA MakeEndpointRooted ==
  ASSUME NEW s, NEW c \in Configs, NEW f, Rooted(s, c), ~s.err, s.p.ep = Null, ~s.p.own_ep
  PROVE  LET r == MakeEndpoint(s, c, f) IN
         Good(r, c) /\ (~r.err => /\ Rooted(r, c) /\ r.p.ep = c.ep /\ r.p.ep \in r.held \cup {Null}
                                  /\ (r.p.own_ep <=> c.ep = "ep") /\ r.p.pd = s.p.pd)
<1>0. /\ Good(s, c) /\ SlotCaps(s) = {} /\ ~s.p.own_sc /\ s.p.own_vspace = c.vspace
      /\ ~s.p.own_cspace /\ s.p.pd \in s.held /\ s \in States /\ s.p \in Processes /\ Lent \subseteq s.held
  BY DEF Rooted, Good, Sane, States
<1>1. CASE c.ep # "ep"
  <2> DEFINE z == [s.p EXCEPT !.ep = c.ep]
             r == [s EXCEPT !.p = z]
  <2>1. z \in Processes /\ r \in States
    BY <1>0 DEF Processes, States, Configs
  <2>2. /\ z.own_vspace = s.p.own_vspace /\ z.own_cspace = s.p.own_cspace /\ z.own_ep = s.p.own_ep
        /\ z.pd = s.p.pd /\ z.ep = c.ep /\ z.cnode = s.p.cnode
        /\ z.tcb = s.p.tcb /\ z.stack = s.p.stack /\ z.sc = s.p.sc /\ z.ipc = s.p.ipc
        /\ z.own_sc = s.p.own_sc /\ z.list = s.p.list /\ z.reply = s.p.reply /\ z.own_reply = s.p.own_reply
    BY <1>0 DEF Processes
  <2>3. /\ r.p = z /\ r.caps = s.caps /\ r.held = s.held /\ r.sound = s.sound /\ r.early = s.early
        /\ r.mapped = s.mapped /\ r.err = s.err
    BY <1>0 DEF States
  <2>4. MakeEndpoint(s, c, f) = r
    BY <1>1 DEF MakeEndpoint
  <2> HIDE DEF r, z
  <2>5. Fields(r, c) /\ Sane(r)
    BY <1>0, <1>1, <2>1, <2>2, <2>3 DEF Good, Fields, Sane
  <2>6. Accounted(s) /\ "ep" \notin s.held
    BY <1>0 DEF Good, Clean, Accounted, Null
  <2>7. Clean(r)
    BY <1>0, <2>2, <2>3, <2>6 DEF Good, Clean, Accounted
  <2>8. SlotCaps(r) = {}
    BY <1>0, <2>3 DEF SlotCaps
  <2>9. c.ep \in {"lentEp", Null} /\ "lentEp" \in s.held
    BY <1>0, <1>1 DEF Configs, Lent
  <2> QED
    BY <1>0, <1>1, <2>2, <2>3, <2>4, <2>5, <2>7, <2>8, <2>9, ZenonT(60) DEF Good, Rooted
<1>2. CASE c.ep = "ep"
  <2> DEFINE y == [s.p EXCEPT !.own_ep = TRUE]
             z == [y EXCEPT !.ep = "ep"]
             t == With(s, {"ep"}, {}, s.p)
             u == With(s, {"ep"}, {}, y)
             r == With(s, {"ep"}, {}, z)
  <2>1. y \in Processes /\ z \in Processes /\ z.ep = "ep" /\ z.own_ep
    BY <1>0 DEF Processes
  <2>2. /\ z.own_vspace = s.p.own_vspace /\ z.own_cspace = s.p.own_cspace
        /\ z.pd = s.p.pd /\ z.cnode = s.p.cnode
        /\ z.tcb = s.p.tcb /\ z.stack = s.p.stack /\ z.sc = s.p.sc /\ z.ipc = s.p.ipc
        /\ z.own_sc = s.p.own_sc /\ z.list = s.p.list /\ z.reply = s.p.reply /\ z.own_reply = s.p.own_reply
    BY <1>0 DEF Processes
  <2>3. CASE f = "ep"
    <3> DEFINE w == [s EXCEPT !.err = TRUE, !.p = y]
    <3>1. vka_alloc_object(s, "ep", f = "ep") = [s EXCEPT !.err = TRUE]
      BY <2>3 DEF vka_alloc_object, Fails
    <3>2. [vka_alloc_object(s, "ep", f = "ep") EXCEPT !.p.own_ep = TRUE] = w
      BY <3>1, <1>0 DEF States
    <3>3. /\ w \in States /\ w.err /\ w.sound = s.sound /\ w.held = s.held /\ w.caps = s.caps /\ w.p = y
      BY <1>0, <2>1 DEF States
    <3> HIDE DEF w
    <3>4. MakeEndpoint(s, c, f) = w
      BY <1>2, <3>2, <3>3 DEF MakeEndpoint, create_fault_endpoint, Then
    <3>5. /\ y.pd = s.p.pd /\ y.ep = s.p.ep /\ y.cnode = s.p.cnode
          /\ y.tcb = s.p.tcb /\ y.stack = s.p.stack /\ y.sc = s.p.sc /\ y.ipc = s.p.ipc
          /\ y.own_sc = s.p.own_sc /\ y.reply = s.p.reply /\ y.own_reply = s.p.own_reply
      BY <1>0 DEF Processes
    <3>6. Sane(w) /\ Fields(w, c)
      BY <1>0, <3>3, <3>5 DEF Good, Sane, Fields
    <3> QED
      BY <3>3, <3>4, <3>6 DEF Good
  <2>4. CASE f # "ep"
    <3>1. vka_alloc_object(s, "ep", f = "ep") = t
      <4>1. vka_alloc_object(s, "ep", FALSE) = t
        BY <1>0, AllocWith
      <4>2. vka_alloc_object(s, "ep", f = "ep") = vka_alloc_object(s, "ep", FALSE)
        BY <2>4 DEF vka_alloc_object
      <4> QED
        BY <4>1, <4>2
    <3>2. t.p = s.p /\ [t EXCEPT !.p = y] = u
      <4>1. PICK O, m, q, w : O = {"ep"} /\ m = {} /\ q = s.p /\ w = y
        OBVIOUS
      <4>2. With(s, O, m, q).p = q /\ [With(s, O, m, q) EXCEPT !.p = w] = With(s, O, m, w)
        BY <1>0, WithThen
      <4> QED
        BY <4>1, <4>2
    <3>3. u.p = y /\ [u EXCEPT !.p = z] = r
      <4>1. PICK O, m, q, w : O = {"ep"} /\ m = {} /\ q = y /\ w = z
        OBVIOUS
      <4>2. With(s, O, m, q).p = q /\ [With(s, O, m, q) EXCEPT !.p = w] = With(s, O, m, w)
        BY <1>0, WithThen
      <4> QED
        BY <4>1, <4>2
    <3>4. WithEffect(s, u, {"ep"}, {}, y) /\ WithEffect(s, r, {"ep"}, {}, z)
      BY <1>0, <2>1, WithMade DEF Made
    <3>5. [t EXCEPT !.p.own_ep = TRUE] = u /\ [u EXCEPT !.p.ep = "ep"] = r
      BY <3>2, <3>3
    <3> HIDE DEF t, u, r, z, y
    <3>6. MakeEndpoint(s, c, f) = r
      BY <1>2, <3>1, <3>4, <3>5 DEF MakeEndpoint, create_fault_endpoint, Then, WithEffect
    <3>7. Fields(r, c)
      BY <1>0, <2>1, <2>2, <3>4 DEF Good, Fields, WithEffect
    <3>8. Accounted(r)
      <4>1. r.held = s.held \cup {"ep"} /\ r.mapped = s.mapped /\ r.p = z
        BY <3>4 DEF WithEffect
      <4>2. Accounted(s)
        BY <1>0 DEF Good, Clean
      <4> QED
        BY <2>1, <2>2, <4>1, <4>2 DEF Accounted
    <3>9. Good(r, c) /\ ~r.err /\ SlotCaps(r) = {} /\ r.held = s.held \cup {"ep"} /\ r.p = z
      BY <1>0, <3>4, <3>7, <3>8 DEF Good, Clean, WithEffect
    <3> QED
      BY <1>0, <1>2, <2>1, <2>2, <3>6, <3>9 DEF Rooted
  <2> QED
    BY <2>3, <2>4
<1> QED
  BY <1>1, <1>2

(* The capability space, made or lent. *)
MakeCspace(s, c, f) ==
  IF c.cspace THEN create_cspace([s EXCEPT !.p.own_cspace = TRUE], c, f)
  ELSE [s EXCEPT !.p.cnode = "lentCnode"]

(* All that a thread needs is there, and nothing of the thread. *)
Standing(s, c) ==
  /\ Good(s, c) /\ ~s.p.own_sc /\ Roots(s)
  /\ s.p.ep = c.ep /\ (s.p.own_ep <=> c.ep = "ep")
  /\ s.p.own_vspace = c.vspace /\ s.p.own_cspace = c.cspace
  /\ c.cspace => s.p.next_free = 5 /\ SlotCaps(s) = Base(s.p)
  /\ ~c.cspace => SlotCaps(s) = {}

(* Making or borrowing the cspace. *)
LEMMA MakeCspaceStanding ==
  ASSUME NEW s, NEW c \in Configs, NEW f, Rooted(s, c), ~s.err,
         s.p.ep = c.ep, s.p.ep \in s.held \cup {Null}, s.p.own_ep <=> c.ep = "ep"
  PROVE  LET r == MakeCspace(s, c, f) IN Good(r, c) /\ (~r.err => Standing(r, c))
<1>0. /\ Good(s, c) /\ SlotCaps(s) = {} /\ ~s.p.own_sc /\ s.p.own_vspace = c.vspace
      /\ ~s.p.own_cspace /\ s.p.pd \in s.held /\ s \in States /\ s.p \in Processes
      /\ Lent \subseteq s.held /\ Clean(s)
  BY DEF Rooted, Good, Sane, States
<1>1. CASE ~c.cspace
  <2> DEFINE z == [s.p EXCEPT !.cnode = "lentCnode"]
             r == [s EXCEPT !.p = z]
  <2>1. z \in Processes /\ r \in States
    BY <1>0 DEF Processes, States
  <2>2. /\ z.own_vspace = s.p.own_vspace /\ z.own_cspace = s.p.own_cspace /\ z.own_ep = s.p.own_ep
        /\ z.pd = s.p.pd /\ z.ep = s.p.ep /\ z.cnode = "lentCnode"
        /\ z.tcb = s.p.tcb /\ z.stack = s.p.stack /\ z.sc = s.p.sc /\ z.ipc = s.p.ipc
        /\ z.own_sc = s.p.own_sc /\ z.list = s.p.list /\ z.reply = s.p.reply /\ z.own_reply = s.p.own_reply
    BY <1>0 DEF Processes
  <2>3. /\ r.p = z /\ r.caps = s.caps /\ r.held = s.held /\ r.sound = s.sound /\ r.early = s.early
        /\ r.mapped = s.mapped /\ r.err = s.err
    BY <1>0 DEF States
  <2>4. MakeCspace(s, c, f) = r
    BY <1>1 DEF MakeCspace
  <2> HIDE DEF r, z
  <2>5. Fields(r, c) /\ Sane(r)
    BY <1>0, <1>1, <2>1, <2>2, <2>3 DEF Good, Fields, Sane
  <2>6. "cnode" \notin s.held
    BY <1>0 DEF Clean, Accounted
  <2>7. Clean(r)
    BY <1>0, <2>2, <2>3, <2>6 DEF Clean, Accounted
  <2>8. SlotCaps(r) = {} /\ "lentCnode" \in s.held
    BY <1>0, <2>3 DEF SlotCaps, Lent
  <2>9. r.p.own_cspace = c.cspace
    BY <1>0, <1>1, <2>2, <2>3 DEF Configs, Processes
  <2> QED
    BY <1>0, <1>1, <2>2, <2>3, <2>4, <2>5, <2>7, <2>8, <2>9 DEF Good, Standing, Roots
<1>2. CASE c.cspace
  <2> DEFINE z == [s.p EXCEPT !.own_cspace = TRUE]
             t == [s EXCEPT !.p = z]
             r == create_cspace(t, c, f)
  <2>1. z \in Processes /\ t \in States
    BY <1>0 DEF Processes, States
  <2>2. /\ z.own_vspace = s.p.own_vspace /\ z.own_cspace /\ z.own_ep = s.p.own_ep
        /\ z.pd = s.p.pd /\ z.ep = s.p.ep /\ z.cnode = s.p.cnode
        /\ z.tcb = s.p.tcb /\ z.stack = s.p.stack /\ z.sc = s.p.sc /\ z.ipc = s.p.ipc
        /\ z.own_sc = s.p.own_sc /\ z.list = s.p.list /\ z.reply = s.p.reply /\ z.own_reply = s.p.own_reply
    BY <1>0 DEF Processes
  <2>3. /\ t.p = z /\ t.caps = s.caps /\ t.held = s.held /\ t.sound = s.sound /\ t.early = s.early
        /\ t.mapped = s.mapped /\ t.err = s.err
    BY <1>0 DEF States
  <2>4. MakeCspace(s, c, f) = r
    BY <1>2 DEF MakeCspace
  <2> HIDE DEF t, z
  <2>5. Fields(t, c) /\ Sane(t)
    BY <1>0, <1>2, <2>1, <2>2, <2>3 DEF Good, Fields, Sane
  <2>6. Clean(t)
    BY <1>0, <2>2, <2>3 DEF Clean, Accounted
  <2>7. SlotCaps(t) = {} /\ t.p.pd # "gift" /\ t.p.ep # "gift"
    BY <1>0, <2>1, <2>3 DEF SlotCaps, Processes, Null
  <2>8. Good(t, c) /\ ~t.err /\ t.p.own_cspace /\ t.p.pd \in t.held /\ t.p.ep \in t.held \cup {Null}
    BY <1>0, <2>2, <2>3, <2>5, <2>6 DEF Good
  <2>9. /\ Good(r, c)
        /\ ~r.err => /\ SameButSlots(t.p, r.p) /\ t.held \subseteq r.held
                     /\ r.p.cnode = "cnode" /\ "cnode" \in r.held
                     /\ r.p.next_free = 5 /\ SlotCaps(r) = Base(r.p)
    BY <2>7, <2>8, CreateCspaceGood
  <2> HIDE DEF r
  <2>10. ASSUME ~r.err
         PROVE  Standing(r, c)
    <3>1. /\ SameButSlots(t.p, r.p) /\ t.held \subseteq r.held
          /\ r.p.cnode = "cnode" /\ "cnode" \in r.held
          /\ r.p.next_free = 5 /\ SlotCaps(r) = Base(r.p)
      BY <2>9, <2>10
    <3>2. /\ ~r.p.own_sc /\ r.p.ep = c.ep /\ (r.p.own_ep <=> c.ep = "ep") /\ r.p.own_vspace = c.vspace
          /\ r.p.pd = s.p.pd /\ r.p.ep = s.p.ep /\ r.p.own_cspace
      BY <1>0, <2>2, <2>3, <3>1 DEF SameButSlots
    <3>3. Roots(r)
      BY <1>0, <2>3, <3>1, <3>2 DEF Roots
    <3>4. r.p.own_cspace = c.cspace
      <4>1. r.p.own_cspace \in BOOLEAN /\ c.cspace \in BOOLEAN
        BY <2>9 DEF Good, Sane, States, Processes, Configs
      <4> QED
        BY <1>2, <3>2, <4>1
    <3> QED
      BY <1>2, <2>9, <3>1, <3>2, <3>3, <3>4 DEF Standing
  <2> QED
    BY <2>4, <2>9, <2>10
<1> QED
  BY <1>1, <1>2

(* Later steps leave what is there. *)
LEMMA StandingKept ==
  ASSUME NEW s, NEW c, NEW r, Standing(s, c), Good(r, c), SameSlots(s, r), ~r.p.own_sc
  PROVE  Standing(r, c)
<1>1. Base(r.p) = Base(s.p)
  BY DEF Base, SameSlots
<1>2. Roots(r)
  BY DEF Standing, Roots, SameSlots
<1> QED
  BY <1>1, <1>2 DEF Standing, SameSlots

(* What the program is loaded from. *)
LEMMA HeapGood ==
  ASSUME NEW s, NEW c, Good(s, c), ~s.err, NEW H, H \subseteq {"elf_regions", "elf_phdrs"},
         NEW r, r = [s EXCEPT !.heap = @ \cup H]
  PROVE  Good(r, c) /\ ~r.err /\ SameSlots(s, r) /\ r.p = s.p
<1>0. s \in States
  BY DEF Good, Sane
<1>1. /\ r \in States /\ r.p = s.p /\ r.caps = s.caps /\ r.held = s.held /\ r.sound = s.sound /\ r.early = s.early
      /\ r.mapped = s.mapped /\ r.err = s.err
  BY <1>0 DEF States
<1>2. Fields(r, c) /\ Sane(r) /\ Clean(r)
  BY <1>1 DEF Good, Fields, Sane, Clean, Accounted
<1> QED
  BY <1>1, <1>2 DEF Good, SameSlots, SlotCaps

(* A page of the image is mapped. *)
LEMMA MapFrameGood ==
  ASSUME NEW s, NEW c, Good(s, c), ~s.err
  PROVE  LET r == MapNew(s, "frame", FALSE) IN
         Good(r, c) /\ ~r.err /\ SameSlots(s, r) /\ r.p.own_sc = s.p.own_sc
<1>0. s \in States /\ s.p \in Processes
  BY DEF Good, Sane, States
<1>2. PICK O \in {{"frame"}, {"frame", "pt"}}, q \in Processes :
           /\ "pt" \in O => s.p.own_vspace
           /\ q = Keeping(s.p, O) /\ q.list = s.p.list \cup (O \cap {"pt"})
           /\ MapNew(s, "frame", FALSE) = With(s, O, {"frame"}, q)
           /\ \A z \in Processes : WithEffect(s, With(s, O, {"frame"}, z), O, {"frame"}, z)
  BY MapNewField
<1> DEFINE r == With(s, O, {"frame"}, q)
<1>3. WithEffect(s, r, O, {"frame"}, q)
  BY <1>2
<1>4. /\ q.own_vspace = s.p.own_vspace /\ q.own_cspace = s.p.own_cspace /\ q.own_ep = s.p.own_ep
      /\ q.pd = s.p.pd /\ q.ep = s.p.ep /\ q.cnode = s.p.cnode /\ q.next_free = s.p.next_free
      /\ q.tcb = s.p.tcb /\ q.stack = s.p.stack /\ q.sc = s.p.sc /\ q.ipc = s.p.ipc
      /\ q.own_sc = s.p.own_sc /\ q.reply = s.p.reply /\ q.own_reply = s.p.own_reply
  BY <1>0, <1>2 DEF Keeping, Processes
<1> HIDE DEF r
<1>5. Fields(r, c)
  BY <1>3, <1>4 DEF Good, Fields, WithEffect
<1>6. Accounted(r)
  <2>1. r.held = s.held \cup O /\ r.mapped = s.mapped \cup {"frame"} /\ r.p = q
    BY <1>3 DEF WithEffect
  <2>2. Accounted(s) /\ O \subseteq {"frame", "pt"} /\ "frame" \in O
    BY <1>2 DEF Good, Clean
  <2>3. "pt" \in r.held => q.own_vspace /\ "pt" \in q.list
    BY <1>2, <1>4, <2>1, <2>2 DEF Accounted
  <2>4. q.list \subseteq r.held /\ r.mapped \subseteq r.held \cap {"ipc", "stack", "frame"}
    BY <1>2, <2>1, <2>2 DEF Accounted
  <2> QED
    BY <1>4, <2>1, <2>2, <2>3, <2>4 DEF Accounted
<1>7. Good(r, c) /\ ~r.err
  BY <1>3, <1>5, <1>6 DEF Good, Clean, WithEffect
<1>8. SameSlots(s, r) /\ r.p.own_sc = s.p.own_sc
  BY <1>3, <1>4 DEF WithEffect, SameSlots
<1> QED
  BY <1>2, <1>7, <1>8 DEF r

(* Loading the image, or a part of it. *)
LEMMA LoadElfGood ==
  ASSUME NEW s, NEW c \in Configs, NEW f, Good(s, c), ~s.err
  PROVE  LET r == LoadElf(s, c, f) IN
         Good(r, c) /\ (~r.err => SameSlots(s, r) /\ r.p.own_sc = s.p.own_sc)
<1> DEFINE loaded == MapNew(s, "frame", FALSE)
           regions == [s EXCEPT !.heap = @ \cup {"elf_regions"}]
           image == IF c.elf = "load" THEN loaded ELSE regions
           done == [image EXCEPT !.heap = @ \cup {"elf_phdrs"}]
<1>1. Good(loaded, c) /\ ~loaded.err /\ SameSlots(s, loaded) /\ loaded.p.own_sc = s.p.own_sc
  BY MapFrameGood
<1>2. Good(regions, c) /\ ~regions.err /\ SameSlots(s, regions) /\ regions.p = s.p
  <2>1. PICK H : H = {"elf_regions"}
    OBVIOUS
  <2>2. H \subseteq {"elf_regions", "elf_phdrs"} /\ regions = [s EXCEPT !.heap = @ \cup H]
    BY <2>1
  <2> HIDE DEF regions
  <2> QED
    BY <2>2, HeapGood
<1>3. LoadElf(s, c, f) \in {s, Fails(s), Fails(regions), Fails(image), done}
  BY DEF LoadElf
<1> HIDE DEF loaded, regions
<1>4. Good(image, c) /\ ~image.err /\ SameSlots(s, image) /\ image.p.own_sc = s.p.own_sc
  BY <1>1, <1>2
<1> HIDE DEF image
<1>5. Good(done, c) /\ ~done.err /\ SameSlots(s, done) /\ done.p.own_sc = s.p.own_sc
  <2>1. PICK H : H = {"elf_phdrs"}
    OBVIOUS
  <2>2. H \subseteq {"elf_regions", "elf_phdrs"} /\ done = [image EXCEPT !.heap = @ \cup H]
    BY <2>1
  <2> HIDE DEF done
  <2>3. Good(done, c) /\ ~done.err /\ SameSlots(image, done) /\ done.p = image.p
    BY <1>4, <2>2, HeapGood
  <2> QED
    BY <1>4, <2>3, SameSlotsTwice
<1> HIDE DEF done
<1>6. /\ Good(Fails(s), c) /\ Fails(s).err /\ Good(Fails(regions), c) /\ Fails(regions).err
      /\ Good(Fails(image), c) /\ Fails(image).err
  BY <1>2, <1>4, FailsGood DEF Good
<1>7. SameSlots(s, s)
  BY DEF SameSlots
<1> QED
  BY <1>3, <1>5, <1>6, <1>7

(* A process that is up. *)
Up(s, c) ==
  /\ Good(s, c) /\ ~s.err /\ s.p.tcb = "tcb" /\ SlotsFine(s)
  /\ (s.p.own_ep <=> c.ep = "ep") /\ s.p.own_vspace = c.vspace /\ s.p.own_cspace = c.cspace

(* Where anything failed, what was made is given back once and what was lent is kept. *)
LEMMA CleanUpSane ==
  ASSUME NEW s, NEW c, Sane(s), Fields(s, c), s.err
  PROVE  LET r == CleanUp(s, c) IN Sane(r) /\ r.err /\ r.heap = {}
<1> DEFINE a == FreeOwn(s, s.p.ep, c.ep = "ep")
           b == FreeOwn(a, s.p.cnode, c.cspace)
           d == FreeOwn(b, s.p.pd, c.vspace)
           r == [d EXCEPT !.heap = {}]
<1>0. s.p \in Processes
  BY DEF Sane, States
<1>1. Less(s, a, {s.p.ep})
  <2>1. PICK own : own = (c.ep = "ep")
    OBVIOUS
  <2>2. own /\ s.p.ep # Null => s.p.ep \in Made /\ s.p.ep \in s.held
    BY <2>1 DEF Fields, Made
  <2>3. Less(s, FreeOwn(s, s.p.ep, own), {s.p.ep})
    BY <2>2, FreedLess
  <2> QED
    BY <2>1, <2>3
<1> HIDE DEF a
<1>2. Less(a, b, {s.p.cnode})
  <2>1. c.cspace /\ s.p.cnode # Null => s.p.cnode \in Made /\ s.p.cnode \in a.held
    BY <1>0, <1>1 DEF Fields, Processes, Null, Made, Less
  <2>2. Sane(a)
    BY <1>1 DEF Less
  <2>3. PICK o, own : o = s.p.cnode /\ own = c.cspace
    OBVIOUS
  <2>4. own /\ o # Null => o \in Made /\ o \in a.held
    BY <2>1, <2>3
  <2>5. Less(a, FreeOwn(a, o, own), {o})
    BY <2>2, <2>4, FreedLess
  <2> QED
    BY <2>3, <2>5
<1> HIDE DEF b
<1>3. Less(b, d, {s.p.pd})
  <2>1. c.vspace /\ s.p.pd # Null => s.p.pd \in Made /\ s.p.pd \in b.held
    BY <1>0, <1>1, <1>2 DEF Fields, Processes, Null, Made, Less
  <2> QED
    BY <2>1, <1>2, FreedLess DEF Less
<1> HIDE DEF d
<1>4. d \in States /\ d.err /\ Sane(d)
  BY <1>1, <1>2, <1>3 DEF Less, Sane
<1>5. /\ r \in States /\ r.err /\ r.heap = {} /\ r.caps = d.caps /\ r.held = d.held /\ r.sound = d.sound
      /\ r.p = d.p
  BY <1>4 DEF States
<1>6. CleanUp(s, c) = r
  <2>1. a.p = s.p /\ b.p = s.p
    BY <1>1, <1>2 DEF Less
  <2> QED
    BY <2>1 DEF CleanUp, a, b, d
<1> HIDE DEF r
<1> QED
  BY <1>4, <1>5, <1>6 DEF Sane

(* Reserving ranges changes nothing here. *)
LEMMA ReservationsGood ==
  ASSUME NEW s, NEW c, NEW f, Good(s, c), ~s.err
  PROVE  LET r == create_process_reservations(s, c, f) IN Good(r, c) /\ (~r.err => r = s)
BY FailsGood DEF create_process_reservations, Good

(* What a thread adds is in place for the capabilities to be copied. *)
LEMMA CopiesUp ==
  ASSUME NEW s, NEW c \in Configs, NEW r, Standing(s, c), Good(r, c), ~r.err, SameSlots(s, r),
         r.p.tcb = "tcb", r.p.sc = c.sc, c.sc = "sc" => "sc" \in r.held,
         c.mcs /\ c.cspace => r.p.reply = "reply" /\ "reply" \in r.held
  PROVE  Up(CopyThreadCaps(r, c), c)
<1>0. /\ r.p.own_vspace = c.vspace /\ r.p.own_cspace = c.cspace /\ r.p.ep = c.ep
      /\ (r.p.own_ep <=> c.ep = "ep") /\ Roots(r) /\ Base(r.p) = Base(s.p)
  BY DEF Standing, SameSlots, Roots, Base
<1>1. CASE ~c.cspace
  <2>1. CopyThreadCaps(r, c) = r
    BY <1>1 DEF CopyThreadCaps
  <2>2. SlotsFine(r)
    BY <1>0, <1>1 DEF SlotsFine, Standing, SameSlots
  <2> QED
    BY <1>0, <2>1, <2>2 DEF Up
<1>2. CASE c.cspace
  <2> DEFINE t == CopyThreadCaps(r, c)
  <2>1. Good(t, c) /\ ~t.err /\ SameButSlots(r.p, t.p) /\ t.p.cnode = r.p.cnode /\ SlotsFine(t)
    <3>1. r.p.next_free = 5 /\ SlotCaps(r) = Base(r.p)
      BY <1>0, <1>2 DEF Standing, SameSlots
    <3>2. (c.mcs => r.p.reply = "reply") /\ (c.mcs => "reply" \in r.held) /\ r.p.own_cspace
      BY <1>0, <1>2
    <3> QED
      BY <1>0, <1>2, <3>1, <3>2, CopyThreadCapsGood
  <2> HIDE DEF t
  <2>2. Up(t, c)
    BY <1>0, <2>1 DEF Up, SameButSlots
  <2> QED
    BY <2>2 DEF t
<1> QED
  BY <1>1, <1>2

(* Nothing but what the parent lends is there. *)
Fresh(s) ==
  /\ s.held = Lent /\ s.early = {} /\ s.heap = {} /\ s.mapped = {}
  /\ s.caps = {<<o, VKA>> : o \in Lent}

(* Where nothing is left of a process, a configuration can start. *)
LEMMA FreshStarts ==
  ASSUME NEW s, s \in States, s.sound, ~s.err, Fresh(s), NEW c \in Configs
  PROVE  Starting([s EXCEPT !.p = [Zeroed EXCEPT !.own_vspace = c.vspace]], c)
<1> DEFINE q == [Zeroed EXCEPT !.own_vspace = c.vspace]
           r == [s EXCEPT !.p = q]
<1>1. q \in Processes
  BY DEF Zeroed, Processes, Configs, Null
<1> HIDE DEF q
<1>2. /\ r \in States /\ r.p = q /\ r.caps = s.caps /\ r.held = s.held /\ r.sound = s.sound /\ r.early = s.early
      /\ r.mapped = s.mapped /\ r.err = s.err /\ r.heap = s.heap
  BY <1>1 DEF States
<1> HIDE DEF r
<1>3. Starting(r, c)
  BY <1>2 DEF Starting, Fresh, q
<1> QED
  BY <1>3 DEF r, q

(* A whole configuration: the process is up, or its parent has everything back. *)
LEMMA ConfigureGood ==
  ASSUME NEW s, s \in States, s.sound, ~s.err, Fresh(s), NEW c \in Configs, NEW f
  PROVE  LET r == sel4utils_configure_process_custom(s, c, f) IN
         /\ r.err => Sane(r) /\ r.heap = {}
         /\ ~r.err => Up(r, c)
<1> DEFINE r0 == [s EXCEPT !.p = [Zeroed EXCEPT !.own_vspace = c.vspace]]
           r1 == CreateVspaceRoot(r0, c, f)
           r2 == IF r1.err THEN r1 ELSE MakeEndpoint(r1, c, f)
           r3 == IF r2.err THEN r2 ELSE MakeCspace(r2, c, f)
           r4 == IF r3.err THEN r3 ELSE create_process_reservations(r3, c, f)
           r5 == IF r4.err THEN r4 ELSE LoadElf(r4, c, f)
           r6 == IF r5.err THEN r5 ELSE sel4utils_configure_thread_config(r5, c, f)
           r7 == IF r6.err THEN r6 ELSE CopyThreadCaps(r6, c)
           r8 == IF r7.err THEN CleanUp(r7, c) ELSE r7
<1>1. sel4utils_configure_process_custom(s, c, f) = r8
  <2>1. r2 = Then(r1, LAMBDA r : IF c.ep = "ep" THEN create_fault_endpoint(r, f)
                                 ELSE [r EXCEPT !.p.ep = c.ep])
    BY DEF Then, MakeEndpoint
  <2>2. r3 = Then(r2, LAMBDA r : IF c.cspace
                                 THEN create_cspace([r EXCEPT !.p.own_cspace = TRUE], c, f)
                                 ELSE [r EXCEPT !.p.cnode = "lentCnode"])
    BY DEF Then, MakeCspace
  <2>3. r4 = Then(r3, LAMBDA r : create_process_reservations(r, c, f))
    <3> HIDE DEF r3
    <3> QED
      BY DEF Then
  <2>4. r5 = Then(r4, LAMBDA r : LoadElf(r, c, f))
    <3> HIDE DEF r4
    <3> QED
      BY DEF Then
  <2>5. r6 = Then(r5, LAMBDA r : sel4utils_configure_thread_config(r, c, f))
    <3> HIDE DEF r5
    <3> QED
      BY DEF Then
  <2>6. r7 = Then(r6, LAMBDA r : CopyThreadCaps(r, c))
    <3> HIDE DEF r6
    <3> QED
      BY DEF Then
  <2> QED
    BY <2>1, <2>2, <2>3, <2>4, <2>5, <2>6, ZenonT(60) DEF sel4utils_configure_process_custom
<1>2. Starting(r0, c)
  BY FreshStarts
<1> HIDE DEF r0
<1>3. Good(r1, c) /\ (~r1.err => Rooted(r1, c) /\ r1.p.ep = Null /\ ~r1.p.own_ep)
  BY <1>2, VspaceRooted
<1> HIDE DEF r1
<1>4. Good(r2, c) /\ (~r2.err => /\ Rooted(r2, c) /\ r2.p.ep = c.ep /\ r2.p.ep \in r2.held \cup {Null}
                                 /\ (r2.p.own_ep <=> c.ep = "ep"))
  BY <1>3, MakeEndpointRooted
<1> HIDE DEF r2
<1>5. Good(r3, c) /\ (~r3.err => Standing(r3, c))
  BY <1>4, MakeCspaceStanding
<1> HIDE DEF r3
<1>6. Good(r4, c) /\ (~r4.err => Standing(r4, c))
  BY <1>5, ReservationsGood
<1> HIDE DEF r4
<1>7. Good(r5, c) /\ (~r5.err => Standing(r5, c))
  <2>1. CASE r4.err
    BY <1>6, <2>1
  <2>2. CASE ~r4.err
    <3>1. r5 = LoadElf(r4, c, f)
      BY <2>2
    <3> HIDE DEF r5
    <3>2. Good(r5, c) /\ (~r5.err => SameSlots(r4, r5) /\ r5.p.own_sc = r4.p.own_sc)
      BY <1>6, <2>2, <3>1, LoadElfGood
    <3>3. Standing(r4, c) /\ ~r4.p.own_sc
      BY <1>6, <2>2 DEF Standing
    <3> QED
      BY <3>2, <3>3, StandingKept
  <2> QED
    BY <2>1, <2>2
<1> HIDE DEF r5
<1>8. Good(r6, c) /\ (~r6.err => Up(CopyThreadCaps(r6, c), c))
  <2>1. CASE r5.err
    BY <1>7, <2>1
  <2>2. CASE ~r5.err
    <3>1. r6 = sel4utils_configure_thread_config(r5, c, f)
      BY <2>2
    <3>2. Standing(r5, c) /\ ~r5.p.own_sc /\ Roots(r5)
      BY <1>7, <2>2 DEF Standing
    <3> HIDE DEF r6
    <3>3. /\ Good(r6, c)
          /\ ~r6.err => /\ SameSlots(r5, r6) /\ r6.p.tcb = "tcb" /\ r6.p.sc = c.sc /\ (c.sc = "sc" => "sc" \in r6.held)
                        /\ c.mcs /\ c.cspace => r6.p.reply = "reply" /\ "reply" \in r6.held
      BY <1>7, <2>2, <3>1, <3>2, ThreadGood
    <3> QED
      BY <3>2, <3>3, CopiesUp
  <2> QED
    BY <2>1, <2>2
<1> HIDE DEF r6
<1>9. ASSUME r6.err
      PROVE  r8.err /\ Sane(r8) /\ r8.heap = {}
  <2>1. r8 = CleanUp(r6, c)
    BY <1>9
  <2>2. Sane(r6) /\ Fields(r6, c)
    BY <1>8 DEF Good
  <2> HIDE DEF r8
  <2>3. Sane(r8) /\ r8.err /\ r8.heap = {}
    BY <1>9, <2>1, <2>2, CleanUpSane
  <2> QED
    BY <2>3
<1>10. ASSUME ~r6.err
       PROVE  ~r8.err /\ Up(r8, c)
  <2>1. Up(r7, c) /\ ~r7.err
    BY <1>8, <1>10 DEF Up
  <2>2. r8 = r7
    BY <2>1
  <2> HIDE DEF r8, r7
  <2> QED
    BY <2>1, <2>2
<1> HIDE DEF r8, r7
<1>11. (r8.err => Sane(r8) /\ r8.heap = {}) /\ (~r8.err => Up(r8, c))
  BY <1>9, <1>10
<1> QED
  BY <1>1, <1>11, ZenonT(60)

-----------------------------------------------------------------------------
(* What the parent gives to a process.                                      *)

(* A gift lands beyond the slots that the library promises. *)
LEMMA SlotTakenUp ==
  ASSUME NEW s, NEW c, Up(s, c), s.p.own_cspace, NEW o \in s.held
  PROVE  Up(SlotTaken(s, {<<o, Slot(s.p.next_free)>>}), c)
<1>1. PICK n : n = s.p.next_free
  OBVIOUS
<1>2. Good(s, c) /\ ~s.err /\ s \in States /\ n \in Nat /\ n >= 8 /\ n + 1 \in Nat
  BY <1>1 DEF Up, Good, Sane, States, Processes, SlotsFine
<1>3. PICK C : C = {<<o, Slot(n)>>}
  OBVIOUS
<1> DEFINE r == SlotTaken(s, C)
<1>4. Extended(s, r, c, C, n + 1)
  BY <1>1, <1>2, <1>3, SlotTakenExtends
<1> HIDE DEF r
<1>5. PICK m \in Nat : m = n + 1
  BY <1>2
<1>6. /\ Good(r, c) /\ ~r.err /\ r.held = s.held /\ SameButSlots(s.p, r.p)
      /\ r.p.cnode = s.p.cnode /\ r.p.next_free = m /\ SlotCaps(r) = SlotCaps(s) \cup C
  BY <1>2, <1>4, <1>5, ExtendedFields
<1>7. SlotsFine(r)
  <2>1. \A x \in SlotCaps(s) : Promised(x) /\ x[2][2] < n /\ x[2][2] \in Nat
    BY <1>1 DEF Up, SlotsFine, Promised
  <2>2. \A x \in C : x = <<o, Slot(n)>> /\ x[2] = Slot(n) /\ x[2][2] = n
    BY <1>3, PlaceFacts
  <2>3. \A x \in C : Promised(x) /\ x[2][2] < m
    BY <1>2, <1>5, <2>2 DEF Promised
  <2>4. \A x \in SlotCaps(s) : Promised(x) /\ x[2][2] < m
    BY <1>2, <1>5, <2>1
  <2>5. \A x, y \in SlotCaps(r) : x[2] = y[2] => x = y
    <3>1. \A x, y \in SlotCaps(s) : x[2] = y[2] => x = y
      BY DEF Up, SlotsFine
    <3>2. \A x \in SlotCaps(s), y \in C : x[2] # y[2]
      BY <1>2, <2>1, <2>2
    <3>3. \A x, y \in C : x = y
      BY <2>2
    <3> QED
      BY <1>6, <3>1, <3>2, <3>3
  <2>6. r.p.own_cspace /\ (r.p.own_ep => s.p.own_ep) /\ m >= 8
    BY <1>2, <1>5, <1>6 DEF SameButSlots
  <2>7. /\ {<<"cnode", Slot(1)>>, <<"asid", Slot(4)>>, <<"tcb", Slot(5)>>} \subseteq SlotCaps(s)
        /\ s.p.own_ep => <<"ep", Slot(2)>> \in SlotCaps(s)
    BY DEF Up, SlotsFine
  <2> QED
    BY <1>6, <2>3, <2>4, <2>5, <2>6, <2>7 DEF SlotsFine
<1>8. Up(r, c)
  BY <1>6, <1>7 DEF Up, SameButSlots
<1> QED
  BY <1>1, <1>3, <1>8 DEF r

(* Copying a capability to a process that is up. *)
LEMMA CopyUp ==
  ASSUME NEW s, NEW c, Up(s, c), s.p.own_cspace, NEW o \in Objects, NEW fails
  PROVE  LET r == CopyToProcess(s, o, fails) IN
         Up(r, c) /\ r.p.own_cspace
<1>1. CASE next_free_slot(s) = 0 \/ fails \/ ~Exists(s.caps, o)
  BY <1>1 DEF CopyToProcess
<1>2. CASE ~(next_free_slot(s) = 0 \/ fails \/ ~Exists(s.caps, o))
  <2>1. s \in States /\ s.sound /\ o \in s.held /\ s.p.next_free \in Nat
    BY <1>2 DEF Up, Good, Sane, Clean, Exists, States, Processes
  <2>2. s.p.next_free < CspaceSlots
    BY <1>2, <2>1, ProcessAssumption DEF next_free_slot, ProcessAssumption
  <2>3. s.caps \in SUBSET (Objects \X Places) /\ [s EXCEPT !.caps = s.caps] = s
    BY <2>1 DEF States
  <2> DEFINE r == SlotTaken(s, {<<o, Slot(s.p.next_free)>>})
  <2>4. CopyToProcess(s, o, fails) = r
    <3>1. CopyToProcess(s, o, fails) = allocate_next_slot([s EXCEPT !.caps = s.caps \cup {<<o, Slot(s.p.next_free)>>}])
      BY <1>2 DEF CopyToProcess
    <3> QED
      BY <2>1, <2>2, <2>3, <3>1, CopyIsTaken
  <2>5. Up(r, c)
    BY <2>1, SlotTakenUp
  <2> HIDE DEF r
  <2>6. r.p.own_cspace
    BY <2>5 DEF Up
  <2> QED
    BY <2>4, <2>5, <2>6
<1> QED
  BY <1>1, <1>2

(* The parent's own capability to a gift is gone. *)
LEMMA GiftGone ==
  ASSUME NEW s, NEW c, Up(s, c), NEW r, r = [s EXCEPT !.caps = @ \ {<<"gift", VKA>>}]
  PROVE  /\ Up(r, c) /\ r.p = s.p /\ r.held = s.held /\ r \in States /\ r.sound
         /\ r.caps = s.caps \ {<<"gift", VKA>>}
<1>1. s \in States
  BY DEF Up, Good, Sane
<1>2. /\ r \in States /\ r.p = s.p /\ r.caps = s.caps \ {<<"gift", VKA>>} /\ r.held = s.held /\ r.sound = s.sound
      /\ r.early = s.early /\ r.mapped = s.mapped /\ r.err = s.err /\ r.heap = s.heap
  BY <1>1 DEF States
<1>3. SlotCaps(r) = SlotCaps(s)
  BY <1>2, PlaceFacts DEF SlotCaps
<1>4. Sane(r) /\ Fields(r, c) /\ Clean(r)
  BY <1>2 DEF Up, Good, Sane, Fields, Clean, Accounted
<1>5. SlotsFine(r)
  BY <1>2, <1>3 DEF Up, SlotsFine
<1> QED
  BY <1>2, <1>4, <1>5 DEF Up, Good, Sane

(* Moving a capability to a process that is up. *)
LEMMA MoveUp ==
  ASSUME NEW s, NEW c, Up(s, c), s.p.own_cspace, <<"gift", VKA>> \in s.caps, NEW fails
  PROVE  Up(MoveToProcess(s, "gift", fails), c)
<1>1. CASE next_free_slot(s) = 0 \/ fails
  BY <1>1 DEF MoveToProcess
<1>2. CASE ~(next_free_slot(s) = 0 \/ fails)
  <2>1. s \in States /\ s.sound /\ "gift" \in s.held /\ s.p.next_free \in Nat /\ "gift" \in Objects
    BY DEF Up, Good, Sane, States, Processes, Objects, Lent
  <2>2. s.p.next_free < CspaceSlots
    BY <1>2, <2>1, ProcessAssumption DEF next_free_slot, ProcessAssumption
  <2> DEFINE C == s.caps \ {<<"gift", VKA>>}
             t == [s EXCEPT !.caps = C]
             r == SlotTaken(t, {<<"gift", Slot(t.p.next_free)>>})
  <2>3. Up(t, c) /\ t.p = s.p /\ t.held = s.held
    BY GiftGone
  <2>4. C \in SUBSET (Objects \X Places)
    BY <2>1 DEF States
  <2>5. MoveToProcess(s, "gift", fails) = r
    <3>1. MoveToProcess(s, "gift", fails) = allocate_next_slot([s EXCEPT !.caps = C \cup {<<"gift", Slot(s.p.next_free)>>}])
      BY <1>2 DEF MoveToProcess
    <3> HIDE DEF C
    <3>2. PICK o \in Objects : o = "gift"
      BY <2>1
    <3>3. allocate_next_slot([s EXCEPT !.caps = C \cup {<<o, Slot(s.p.next_free)>>}])
            = SlotTaken([s EXCEPT !.caps = C], {<<o, Slot(s.p.next_free)>>})
      BY <2>1, <2>2, <2>4, CopyIsTaken
    <3> QED
      BY <2>3, <3>1, <3>2, <3>3
  <2> HIDE DEF t
  <2>6. Up(r, c)
    <3>1. PICK o : o = "gift"
      OBVIOUS
    <3>2. o \in t.held /\ t.p.own_cspace
      BY <2>1, <2>3, <3>1
    <3>3. Up(SlotTaken(t, {<<o, Slot(t.p.next_free)>>}), c)
      BY <2>3, <3>2, SlotTakenUp
    <3> QED
      BY <3>1, <3>3
  <2> QED
    BY <2>5, <2>6
<1> QED
  BY <1>1, <1>2

-----------------------------------------------------------------------------
(* Destroying a process.                                                    *)

(* Every capability is one of the vka's. *)
OnlyVka(s) ==
  /\ Sane(s) /\ ~s.err /\ s.early = {}
  /\ \A x \in s.caps : x[1] \in s.held /\ x[2] = VKA

(* Objects D are gone. *)
Down(s, r, D) == OnlyVka(r) /\ r.held = s.held \ D /\ r.mapped = s.mapped \ D /\ r.p = s.p

(* An object without other capabilities goes with its last one. *)
LEMMA VkaFreed ==
  ASSUME NEW s, OnlyVka(s), NEW o \in Made, o \in s.held
  PROVE  Down(s, UnmapFree(s, o), {o})
<1> DEFINE r == UnmapFree(s, o)
<1>1. FreedEffect(s, r, o)
  BY ObjectFreed DEF OnlyVka
<1> HIDE DEF r
<1>2. ASSUME NEW x \in r.caps
      PROVE  x[1] \in r.held /\ x[2] = VKA /\ x[1] # o
  <2>1. x \in s.caps /\ x # <<o, VKA>> /\ x[1] \in s.held /\ x[2] = VKA
    BY <1>1 DEF FreedEffect, OnlyVka
  <2>2. x = <<x[1], x[2]>>
    BY <2>1 DEF OnlyVka, Sane, States
  <2> QED
    BY <1>1, <2>1, <2>2 DEF FreedEffect
<1>3. r.early = {}
  BY <1>1, <1>2 DEF FreedEffect, OnlyVka, Exists
<1>4. Down(s, r, {o})
  BY <1>1, <1>2, <1>3 DEF FreedEffect, OnlyVka, Down
<1> QED
  BY <1>4 DEF r

(* What is given back, if it is there and the process's own. *)
OwnSet(o, own) == IF own /\ o # Null THEN {o} ELSE {}

(* The same, if it is there. *)
LEMMA VkaFreedOwn ==
  ASSUME NEW s, OnlyVka(s), NEW o, NEW own, own /\ o # Null => o \in Made /\ o \in s.held
  PROVE  Down(s, FreeOwn(s, o, own), OwnSet(o, own))
<1>1. CASE own /\ o # Null
  BY <1>1, VkaFreed DEF FreeOwn, OwnSet
<1>2. CASE ~(own /\ o # Null)
  <2>1. FreeOwn(s, o, own) = s /\ OwnSet(o, own) = {}
    BY <1>2 DEF FreeOwn, OwnSet
  <2>2. Down(s, s, {})
    BY DEF Down
  <2> QED
    BY <2>1, <2>2
<1> QED
  BY <1>1, <1>2

(* The same for frames and tables. *)
LEMMA VkaFreedAll ==
  ASSUME NEW s, OnlyVka(s), NEW O, O \subseteq Made, O \subseteq s.held
  PROVE  Down(s, FreeAll(s, O), O)
<1> DEFINE N == {<<o, VKA>> : o \in O}
           C == Settled(s.caps \ N)
           E == {o \in O : Exists(C, o)}
           r == FreeAll(s, O)
<1>1. s \in States /\ C \subseteq s.caps /\ C \subseteq s.caps \ N
  BY SettledSubset DEF OnlyVka, Sane
<1>2. \A x \in s.caps : x = <<x[1], x[2]>> /\ x[2] = VKA /\ x[1] \in s.held
  BY <1>1 DEF OnlyVka, States
<1>3. \A x \in C : x[1] \notin O
  BY <1>1, <1>2
<1>4. E = {}
  BY <1>3 DEF Exists
<1>5. \A x \in s.held \ O : <<x, VKA>> \in s.caps => <<x, VKA>> \in C
  <2> SUFFICES ASSUME NEW x \in s.held \ O, <<x, VKA>> \in s.caps
               PROVE  <<x, VKA>> \in C
    OBVIOUS
  <2>1. <<x, VKA>> \in s.caps \ N /\ <<x, VKA>>[2][1] = "vka"
    BY PlaceFacts
  <2> HIDE DEF N
  <2> QED
    BY <2>1, SettledKeeps
<1>6. r = [s EXCEPT !.caps = C, !.held = s.held \ O, !.sound = s.sound /\ O \subseteq s.held,
             !.early = s.early \cup E, !.mapped = s.mapped \ O]
  BY DEF FreeAll
<1> HIDE DEF C, E
<1>7. (s.sound /\ O \subseteq s.held) = TRUE /\ s.early \cup E = {}
  BY <1>4 DEF OnlyVka, Sane
<1>8. r = [s EXCEPT !.caps = C, !.held = s.held \ O, !.sound = TRUE, !.early = {}, !.mapped = s.mapped \ O]
  BY <1>6, <1>7
<1> HIDE DEF r
<1>9. /\ r \in States /\ r.caps = C /\ r.held = s.held \ O /\ r.sound /\ r.early = {} /\ r.mapped = s.mapped \ O
      /\ r.p = s.p /\ r.err = s.err /\ r.heap = s.heap
  BY <1>1, <1>8 DEF States
<1>10. Lent \subseteq r.held
  BY <1>9 DEF OnlyVka, Sane, Lent, Made
<1>11. \A o \in r.held \ {"gift"} : <<o, VKA>> \in r.caps
  BY <1>5, <1>9 DEF OnlyVka, Sane
<1>12. \A x \in r.caps : x[1] \in r.held /\ x[2] = VKA
  BY <1>1, <1>2, <1>3, <1>9
<1>13. Down(s, r, O)
  BY <1>9, <1>10, <1>11, <1>12 DEF Down, OnlyVka, Sane
<1> QED
  BY <1>13 DEF r

(* Changing the record of the process alone. *)
LEMMA VkaProcess ==
  ASSUME NEW s, OnlyVka(s), NEW q \in Processes, NEW r, r = [s EXCEPT !.p = q]
  PROVE  OnlyVka(r) /\ r.held = s.held /\ r.mapped = s.mapped /\ r.p = q
<1>1. s \in States
  BY DEF OnlyVka, Sane
<1>2. /\ r \in States /\ r.p = q /\ r.caps = s.caps /\ r.held = s.held /\ r.sound = s.sound /\ r.early = s.early
      /\ r.mapped = s.mapped /\ r.err = s.err
  BY <1>1 DEF States
<1> QED
  BY <1>2 DEF OnlyVka, Sane

(* The process's cspace is gone. *)
Unslotted(s) ==
  /\ Sane(s) /\ ~s.err /\ s.early = {}
  /\ \A x \in s.caps : x[1] \in s.held /\ x[2][1] # "slot"
  /\ <<"tcb", TCB>> \notin s.caps

(* Revoking and freeing the CNode empties the cspace. *)
LEMMA CnodeFreed ==
  ASSUME NEW s, Sane(s), ~s.err, Clean(s), "cnode" \in s.held
  PROVE  LET r == vka_free_object(vka_cnode_revoke(s, "cnode"), "cnode") IN
         Unslotted(r) /\ r.held = s.held \ {"cnode"} /\ r.mapped = s.mapped /\ r.p = s.p
<1> DEFINE D == {x \in s.caps : x[1] # "cnode" \/ x[2] = VKA}
           C == Settled(D)
           t == vka_cnode_revoke(s, "cnode")
           r == vka_free_object(t, "cnode")
<1>1. s \in States /\ C \subseteq D /\ C \subseteq s.caps
  BY SettledSubset DEF Sane
<1>2. t = [s EXCEPT !.caps = C]
  BY DEF vka_cnode_revoke
<1>3. \A x \in s.caps : x[2] = VKA => x \in C
  <2> SUFFICES ASSUME NEW x \in s.caps, x[2] = VKA
               PROVE  x \in C
    OBVIOUS
  <2>1. x \in D /\ x[2][1] = "vka"
    BY PlaceFacts
  <2> HIDE DEF D
  <2> QED
    BY <2>1, SettledKeeps
<1>4. \A x \in C : x[1] = "cnode" => x = <<"cnode", VKA>>
  <2> SUFFICES ASSUME NEW x \in C, x[1] = "cnode"
               PROVE  x = <<"cnode", VKA>>
    OBVIOUS
  <2>1. x[2] = VKA /\ x \in s.caps
    BY <1>1
  <2>2. x = <<x[1], x[2]>>
    BY <1>1, <2>1 DEF States
  <2> QED
    BY <2>1, <2>2
<1> HIDE DEF C, t
<1>5. /\ t \in States /\ t.p = s.p /\ t.caps = C /\ t.held = s.held /\ t.sound = s.sound /\ t.early = s.early
      /\ t.mapped = s.mapped /\ t.err = s.err
  BY <1>1, <1>2 DEF States
<1>6. Sane(t)
  BY <1>3, <1>5 DEF Sane
<1>7. s.mapped \ {"cnode"} = s.mapped
  BY DEF Clean, Accounted
<1>8. UnmapFree(t, "cnode") = r
  <2>1. UnmapFree(t, "cnode") = [r EXCEPT !.mapped = r.mapped \ {"cnode"}]
    BY DEF UnmapFree
  <2>2. r.mapped = s.mapped /\ [r EXCEPT !.mapped = s.mapped] = r
    BY <1>5 DEF vka_free_object, States
  <2> HIDE DEF r
  <2> QED
    BY <1>7, <2>1, <2>2
<1>9. FreedEffect(t, r, "cnode")
  <2>1. PICK o \in Made : o = "cnode"
    BY DEF Made
  <2>2. FreedEffect(t, UnmapFree(t, o), o)
    BY <1>5, <1>6, <2>1, ObjectFreed
  <2> QED
    BY <1>8, <2>1, <2>2
<1> HIDE DEF r
<1>10. /\ r.held = s.held \ {"cnode"} /\ r.p = s.p /\ r.err = s.err /\ r.mapped = s.mapped
       /\ r.caps \subseteq C /\ Sane(r)
  BY <1>5, <1>7, <1>9 DEF FreedEffect
<1>11. \A x \in r.caps : x[1] # "cnode" /\ x[2][1] # "slot"
  <2> DEFINE B == C \ {<<"cnode", VKA>>}
  <2>1. \A x \in B : x[1] # "cnode"
    BY <1>4
  <2>2. r.caps = Settled(B) /\ r.caps \subseteq B
    BY <1>5, <1>9 DEF FreedEffect
  <2> HIDE DEF B
  <2> QED
    BY <2>1, <2>2, NoCnodeNoSlots
<1>12. r.early = {}
  BY <1>5, <1>9, <1>11 DEF FreedEffect, Clean, Exists
<1>13. \A x \in r.caps : x[1] \in r.held
  BY <1>1, <1>10, <1>11 DEF Clean
<1>14. <<"tcb", TCB>> \notin r.caps
  BY <1>1, <1>10 DEF Clean
<1>15. Unslotted(r)
  BY <1>10, <1>11, <1>12, <1>13, <1>14 DEF Unslotted
<1> QED
  BY <1>10, <1>15 DEF r, t

(* Freeing the TCB deletes the last capabilities that lie elsewhere. *)
LEMMA TcbFreed ==
  ASSUME NEW s, Unslotted(s), "tcb" \in s.held
  PROVE  Down(s, UnmapFree(s, "tcb"), {"tcb"})
<1> DEFINE B == s.caps \ {<<"tcb", VKA>>}
           r == UnmapFree(s, "tcb")
<1>1. FreedEffect(s, r, "tcb")
  <2>1. PICK o \in Made : o = "tcb"
    BY DEF Made
  <2> QED
    BY <2>1, ObjectFreed DEF Unslotted
<1> HIDE DEF r
<1>2. \A x \in s.caps : x[2] = VKA \/ x[2] = TCB
  <2> SUFFICES ASSUME NEW x \in s.caps
               PROVE  x[2] = VKA \/ x[2] = TCB
    OBVIOUS
  <2>1. x[2] \in Places /\ x[2][1] # "slot"
    BY DEF Unslotted, Sane, States
  <2> QED
    BY <2>1, PlaceFacts DEF Places
<1>3. \A x \in B : x[1] # "tcb"
  <2> SUFFICES ASSUME NEW x \in s.caps, x[1] = "tcb"
               PROVE  x = <<"tcb", VKA>>
    OBVIOUS
  <2>1. x = <<x[1], x[2]>>
    BY DEF Unslotted, Sane, States
  <2> QED
    BY <1>2, <2>1 DEF Unslotted
<1>4. r.caps = Settled(B) /\ r.caps \subseteq B
  BY <1>1 DEF FreedEffect
<1> HIDE DEF B
<1>5. \A x \in r.caps : x[1] # "tcb" /\ x[2][1] # "tcb"
  BY <1>3, <1>4, NoTcbNoTcb
<1>6. \A x \in r.caps : x[1] \in r.held /\ x[2] = VKA
  <2>1. r.caps \subseteq s.caps /\ r.held = s.held \ {"tcb"}
    BY <1>1 DEF FreedEffect
  <2> QED
    BY <1>2, <1>5, <2>1, PlaceFacts DEF Unslotted
<1>7. r.early = {}
  BY <1>1, <1>5 DEF FreedEffect, Unslotted, Exists
<1>8. Down(s, r, {"tcb"})
  BY <1>1, <1>6, <1>7 DEF FreedEffect, Unslotted, OnlyVka, Down
<1> QED
  BY <1>8 DEF r

(* The thread's objects are there. *)
ThreadFields(s) ==
  /\ s.p.tcb = "tcb" /\ "tcb" \in s.held
  /\ s.p.ipc # Null => "ipc" \in s.held
  /\ s.p.stack # Null => "stack" \in s.held
  /\ s.p.own_sc => s.p.sc = "sc" /\ "sc" \in s.held
  /\ s.p.own_reply => s.p.reply = "reply" /\ "reply" \in s.held

(* Cleaning up the thread of a process whose cspace is gone. *)
LEMMA ThreadFreed ==
  ASSUME NEW s, Unslotted(s), ThreadFields(s)
  PROVE  LET r == sel4utils_clean_up_thread(s) IN
         /\ OnlyVka(r) /\ r.p = NoThread(s.p)
         /\ \E D : /\ r.held = s.held \ D /\ r.mapped = s.mapped \ D
                   /\ D \subseteq {"tcb", "ipc", "stack", "sc", "reply"} /\ "tcb" \in D
                   /\ s.p.ipc = "ipc" => "ipc" \in D
                   /\ s.p.stack = "stack" => "stack" \in D
                   /\ s.p.own_sc => "sc" \in D
                   /\ s.p.own_reply => "reply" \in D
<1> DEFINE a == FreeOwn(s, s.p.tcb, TRUE)
           b == FreeOwn(a, s.p.ipc, TRUE)
           d == FreeOwn(b, s.p.stack, TRUE)
           e == FreeOwn(d, s.p.sc, s.p.own_sc)
           g == FreeOwn(e, s.p.reply, s.p.own_reply)
           r == sel4utils_clean_up_thread(s)
<1> HIDE DEF a, b, d, e, g, r
<1>0. /\ s.p.ipc \in {Null, "ipc"} /\ s.p.stack \in {Null, "stack"} /\ s.p.sc \in {Null, "sc", "lentSc"}
      /\ s.p.reply \in {Null, "reply"} /\ s.p \in Processes
  BY DEF Unslotted, Sane, States, Processes
<1>1. Down(s, a, {"tcb"})
  <2>1. a = UnmapFree(s, "tcb")
    BY DEF FreeOwn, ThreadFields, Null, a
  <2> QED
    BY <2>1, TcbFreed DEF ThreadFields
<1>2. PICK D2 : Down(a, b, D2) /\ D2 \subseteq {s.p.ipc} \ {Null} /\ (s.p.ipc = "ipc" => "ipc" \in D2)
  <2>1. s.p.ipc # Null => s.p.ipc \in Made /\ s.p.ipc \in a.held
    BY <1>0, <1>1 DEF Down, ThreadFields, Made
  <2>2. OnlyVka(a)
    BY <1>1 DEF Down
  <2>3. PICK o, own : o = s.p.ipc /\ own = TRUE
    OBVIOUS
  <2>4. own /\ o # Null => o \in Made /\ o \in a.held
    BY <2>1, <2>3
  <2>5. Down(a, FreeOwn(a, o, own), OwnSet(o, own))
    BY <2>2, <2>4, VkaFreedOwn
  <2> QED
    BY <2>3, <2>5 DEF OwnSet, Null, b
<1>3. PICK D3 : Down(b, d, D3) /\ D3 \subseteq {s.p.stack} \ {Null} /\ (s.p.stack = "stack" => "stack" \in D3)
  <2>1. s.p.stack # Null => s.p.stack \in Made /\ s.p.stack \in b.held
    BY <1>0, <1>1, <1>2 DEF Down, ThreadFields, Made
  <2>2. OnlyVka(b)
    BY <1>2 DEF Down
  <2>3. PICK o, own : o = s.p.stack /\ own = TRUE
    OBVIOUS
  <2>4. own /\ o # Null => o \in Made /\ o \in b.held
    BY <2>1, <2>3
  <2>5. Down(b, FreeOwn(b, o, own), OwnSet(o, own))
    BY <2>2, <2>4, VkaFreedOwn
  <2> QED
    BY <2>3, <2>5 DEF OwnSet, Null, d
<1>4. PICK D4 : /\ Down(d, e, D4) /\ D4 \subseteq {s.p.sc} \ {Null}
                /\ s.p.own_sc /\ s.p.sc # Null => s.p.sc \in D4
  <2>1. s.p.own_sc /\ s.p.sc # Null => s.p.sc \in Made /\ s.p.sc \in d.held
    BY <1>0, <1>1, <1>2, <1>3 DEF Down, ThreadFields, Made
  <2>2. OnlyVka(d)
    BY <1>3 DEF Down
  <2>3. PICK o, own : o = s.p.sc /\ own = s.p.own_sc
    OBVIOUS
  <2>4. own /\ o # Null => o \in Made /\ o \in d.held
    BY <2>1, <2>3
  <2>5. Down(d, FreeOwn(d, o, own), OwnSet(o, own))
    BY <2>2, <2>4, VkaFreedOwn
  <2> QED
    BY <2>3, <2>5 DEF OwnSet, e
<1>5. PICK D5 : /\ Down(e, g, D5) /\ D5 \subseteq {s.p.reply} \ {Null}
                /\ s.p.own_reply /\ s.p.reply # Null => s.p.reply \in D5
  <2>1. s.p.own_reply /\ s.p.reply # Null => s.p.reply \in Made /\ s.p.reply \in e.held
    BY <1>0, <1>1, <1>2, <1>3, <1>4 DEF Down, ThreadFields, Made
  <2>2. OnlyVka(e)
    BY <1>4 DEF Down
  <2>3. PICK o, own : o = s.p.reply /\ own = s.p.own_reply
    OBVIOUS
  <2>4. own /\ o # Null => o \in Made /\ o \in e.held
    BY <2>1, <2>3
  <2>5. Down(e, FreeOwn(e, o, own), OwnSet(o, own))
    BY <2>2, <2>4, VkaFreedOwn
  <2> QED
    BY <2>3, <2>5 DEF OwnSet, g
<1>6. OnlyVka(g) /\ g.p = s.p
  BY <1>1, <1>2, <1>3, <1>4, <1>5 DEF Down
<1>7. r = [g EXCEPT !.p = NoThread(s.p)]
  <2>1. r = [g EXCEPT !.p.tcb = Null, !.p.ipc = Null, !.p.stack = Null, !.p.sc = Null,
                      !.p.reply = Null, !.p.own_sc = FALSE, !.p.own_reply = FALSE]
    BY DEF sel4utils_clean_up_thread, a, b, d, e, g, r
  <2>2. g \in States
    BY <1>6 DEF OnlyVka, Sane
  <2> QED
    BY <1>0, <1>6, <2>1, <2>2 DEF NoThread, States, Processes
<1>8. OnlyVka(r) /\ r.held = g.held /\ r.mapped = g.mapped /\ r.p = NoThread(s.p)
  <2>1. PICK q \in Processes : q = NoThread(s.p)
    BY <1>0, NoThreadType
  <2> QED
    BY <1>6, <1>7, <2>1, VkaProcess
<1> DEFINE D == {"tcb"} \cup D2 \cup D3 \cup D4 \cup D5
<1>9. r.held = s.held \ D /\ r.mapped = s.mapped \ D
  BY <1>1, <1>2, <1>3, <1>4, <1>5, <1>8 DEF Down
<1>10. /\ "tcb" \in D
       /\ s.p.ipc = "ipc" => "ipc" \in D
       /\ s.p.stack = "stack" => "stack" \in D
       /\ s.p.own_sc => "sc" \in D
       /\ s.p.own_reply => "reply" \in D
  BY <1>2, <1>3, <1>4, <1>5 DEF ThreadFields, Null
<1>11. CASE D \subseteq {"tcb", "ipc", "stack", "sc", "reply"}
  BY <1>8, <1>9, <1>10, <1>11 DEF r
<1>12. CASE ~(D \subseteq {"tcb", "ipc", "stack", "sc", "reply"})
  <2>1. "lentSc" \in D
    BY <1>0, <1>2, <1>3, <1>4, <1>5, <1>12
  <2>2. "lentSc" \in r.held
    BY <1>8 DEF OnlyVka, Sane, Lent
  <2> QED
    BY <1>9, <2>1, <2>2
<1> QED
  BY <1>11, <1>12

(* What a destroyed process has left. *)
Gone(s) ==
  /\ OnlyVka(s) /\ s.heap = {} /\ s.mapped \subseteq s.held \cap {"ipc", "stack", "frame"}
  /\ s.held = Lent \cup (IF s.p.own_vspace THEN {} ELSE s.held \cap {"frame"})

(* The vspace is torn down. *)
TornDown(t, own) == IF own THEN clear_objects(FreeAll(t, t.mapped)) ELSE t

(* Tearing down frees every page and every table. *)
LEMMA TornDownEffect ==
  ASSUME NEW t, OnlyVka(t), NEW own, t.mapped \subseteq t.held \cap {"ipc", "stack", "frame"},
         t.p.list \subseteq t.held
  PROVE  LET r == TornDown(t, own) IN
         /\ OnlyVka(r)
         /\ r.p.own_vspace = t.p.own_vspace
         /\ own => r.held = t.held \ (t.mapped \cup t.p.list) /\ r.mapped = {}
         /\ ~own => r = t
<1>1. CASE ~own
  BY <1>1 DEF TornDown
<1>2. CASE own
  <2> DEFINE u == FreeAll(t, t.mapped)
             v == FreeAll(u, u.p.list)
             q == [v.p EXCEPT !.list = {}]
             r == [v EXCEPT !.p = q]
  <2>1. Down(t, u, t.mapped)
    <3>1. t.mapped \subseteq Made /\ t.mapped \subseteq t.held
      BY DEF Made
    <3> QED
      BY <3>1, VkaFreedAll
  <2>2. TornDown(t, own) = r
    BY <1>2 DEF TornDown, clear_objects
  <2> HIDE DEF u
  <2>3. t.p \in Processes
    BY DEF OnlyVka, Sane, States
  <2>4. Down(u, v, t.p.list)
    <3>1. u.p = t.p /\ OnlyVka(u) /\ t.p.list \subseteq {"pt"}
      BY <2>1, <2>3 DEF Down, Processes
    <3>2. u.p.list \subseteq Made /\ u.p.list \subseteq u.held
      BY <2>1, <3>1 DEF Made, Down
    <3> QED
      BY <3>1, <3>2, VkaFreedAll
  <2> HIDE DEF v
  <2>5. v.p = t.p /\ OnlyVka(v) /\ q \in Processes /\ q.own_vspace = t.p.own_vspace
    BY <2>1, <2>3, <2>4 DEF Down, Processes
  <2>6. OnlyVka(r) /\ r.held = v.held /\ r.mapped = v.mapped /\ r.p = q
    <3>1. PICK z \in Processes : z = q
      BY <2>5
    <3> QED
      BY <2>5, <3>1, VkaProcess
  <2> HIDE DEF r, q
  <2>7. r.held = t.held \ (t.mapped \cup t.p.list) /\ r.mapped = {}
    BY <2>1, <2>4, <2>6 DEF Down
  <2> QED
    BY <1>2, <2>2, <2>5, <2>6, <2>7
<1> QED
  BY <1>1, <1>2

(* The rest of sel4utils_destroy_process() leaves nothing behind. *)
LEMMA DestroyRestGone ==
  ASSUME NEW s, Unslotted(s), ThreadFields(s), "cnode" \notin s.held,
         "ipc" \in s.held => s.p.ipc = "ipc", "stack" \in s.held => s.p.stack = "stack",
         "sc" \in s.held => s.p.own_sc, "reply" \in s.held => s.p.own_reply,
         "ep" \in s.held => s.p.own_ep /\ s.p.ep = "ep", "pd" \in s.held => s.p.own_vspace /\ s.p.pd = "pd",
         s.p.own_ep /\ s.p.ep # Null => s.p.ep = "ep" /\ "ep" \in s.held,
         s.p.own_vspace /\ s.p.pd # Null => s.p.pd = "pd" /\ "pd" \in s.held,
         "frame" \in s.held => "frame" \in s.mapped,
         "pt" \in s.held => s.p.own_vspace /\ "pt" \in s.p.list,
         s.p.list \subseteq s.held, s.mapped \subseteq s.held \cap {"ipc", "stack", "frame"}
  PROVE  Gone(DestroyRest(s))
<1> DEFINE t == sel4utils_clean_up_thread(s)
           u == TornDown(t, s.p.own_vspace)
           a == FreeOwn(u, s.p.ep, s.p.own_ep)
           b == FreeOwn(a, s.p.pd, s.p.own_vspace)
           r == [b EXCEPT !.heap = {}]
<1>0. s.p \in Processes /\ s.held \subseteq Objects
  BY DEF Unslotted, Sane, States
<1>1. DestroyRest(s) = r
  BY DEF DestroyRest, TornDown
<1>2. OnlyVka(t) /\ t.p = NoThread(s.p)
  BY ThreadFreed
<1>3. PICK D : /\ t.held = s.held \ D /\ t.mapped = s.mapped \ D
               /\ D \subseteq {"tcb", "ipc", "stack", "sc", "reply"} /\ "tcb" \in D
               /\ s.p.ipc = "ipc" => "ipc" \in D
               /\ s.p.stack = "stack" => "stack" \in D
               /\ s.p.own_sc => "sc" \in D
               /\ s.p.own_reply => "reply" \in D
  BY ThreadFreed
<1> HIDE DEF t
<1>4. /\ t.held \subseteq Lent \cup {"ep", "pd", "frame", "pt"}
      /\ t.mapped \subseteq t.held \cap {"ipc", "stack", "frame"}
      /\ "frame" \in t.held => "frame" \in t.mapped
  BY <1>0, <1>3 DEF Objects, Made
<1>5. t.p.list = s.p.list /\ t.p.own_vspace = s.p.own_vspace
  BY <1>0, <1>2 DEF NoThread, Processes
<1>6. t.p.list \subseteq t.held
  BY <1>0, <1>3, <1>5 DEF Processes
<1>7. /\ OnlyVka(u) /\ u.p.own_vspace = s.p.own_vspace
      /\ s.p.own_vspace => u.held = t.held \ (t.mapped \cup t.p.list) /\ u.mapped = {}
      /\ ~s.p.own_vspace => u = t
  <2>1. PICK own : own = s.p.own_vspace
    OBVIOUS
  <2>2. LET w == TornDown(t, own) IN
         /\ OnlyVka(w)
         /\ w.p.own_vspace = t.p.own_vspace
         /\ own => w.held = t.held \ (t.mapped \cup t.p.list) /\ w.mapped = {}
         /\ ~own => w = t
    BY <1>2, <1>4, <1>6, TornDownEffect
  <2> QED
    BY <1>5, <2>1, <2>2
<1> HIDE DEF u
<1>8. /\ u.held \subseteq Lent \cup {"ep", "pd"} \cup (IF s.p.own_vspace THEN {} ELSE {"frame"})
      /\ u.mapped \subseteq u.held \cap {"ipc", "stack", "frame"}
      /\ "ep" \in s.held => "ep" \in u.held
      /\ "pd" \in s.held => "pd" \in u.held
      /\ u.held \subseteq s.held
  <2>1. CASE s.p.own_vspace
    <3>1. u.held = t.held \ (t.mapped \cup t.p.list) /\ u.mapped = {}
      BY <1>7, <2>1
    <3>2. "frame" \notin u.held /\ "pt" \notin u.held
      BY <1>3, <1>4, <1>5, <3>1
    <3>3. "ep" \notin t.mapped \cup t.p.list /\ "pd" \notin t.mapped \cup t.p.list
      BY <1>0, <1>4, <1>5 DEF Processes
    <3> QED
      BY <1>3, <1>4, <2>1, <3>1, <3>2, <3>3
  <2>2. CASE ~s.p.own_vspace
    BY <1>3, <1>4, <1>7, <2>2
  <2> QED
    BY <2>1, <2>2
<1>9. PICK D2 : /\ Down(u, a, D2) /\ D2 \subseteq {s.p.ep} \ {Null}
                /\ s.p.own_ep /\ s.p.ep # Null => s.p.ep \in D2
  <2>1. s.p.own_ep /\ s.p.ep # Null => s.p.ep \in Made /\ s.p.ep \in u.held
    BY <1>8 DEF Made
  <2>2. OnlyVka(u)
    BY <1>7
  <2>3. PICK o, own : o = s.p.ep /\ own = s.p.own_ep
    OBVIOUS
  <2>4. own /\ o # Null => o \in Made /\ o \in u.held
    BY <2>1, <2>3
  <2>5. Down(u, FreeOwn(u, o, own), OwnSet(o, own))
    BY <2>2, <2>4, VkaFreedOwn
  <2> QED
    BY <2>3, <2>5 DEF OwnSet
<1> HIDE DEF a
<1>10. PICK D3 : /\ Down(a, b, D3) /\ D3 \subseteq {s.p.pd} \ {Null}
                 /\ s.p.own_vspace /\ s.p.pd # Null => s.p.pd \in D3
  <2>1. OnlyVka(a)
    BY <1>9 DEF Down
  <2>2. s.p.own_vspace /\ s.p.pd # Null => s.p.pd \in Made /\ s.p.pd \in a.held
    <3>1. s.p.ep # "pd"
      BY <1>0 DEF Processes, Null
    <3> QED
      BY <1>8, <1>9, <3>1 DEF Made, Down
  <2>3. PICK o, own : o = s.p.pd /\ own = s.p.own_vspace
    OBVIOUS
  <2>4. own /\ o # Null => o \in Made /\ o \in a.held
    BY <2>2, <2>3
  <2>5. Down(a, FreeOwn(a, o, own), OwnSet(o, own))
    BY <2>1, <2>4, VkaFreedOwn
  <2> QED
    BY <2>3, <2>5 DEF OwnSet
<1> HIDE DEF b
<1>11. /\ OnlyVka(b) /\ b.held = u.held \ (D2 \cup D3) /\ b.mapped = u.mapped \ (D2 \cup D3)
       /\ b.p.own_vspace = s.p.own_vspace
  BY <1>7, <1>9, <1>10 DEF Down
<1>12. "ep" \notin b.held /\ "pd" \notin b.held
  <2>1. "ep" \in b.held => "ep" \in D2
    BY <1>8, <1>9, <1>11 DEF Null
  <2>2. "pd" \in b.held => "pd" \in D3
    BY <1>8, <1>10, <1>11 DEF Null
  <2> QED
    BY <1>11, <2>1, <2>2
<1>13. /\ OnlyVka(r) /\ r.heap = {} /\ r.held = b.held /\ r.mapped = b.mapped /\ r.p = b.p
  <2>1. b \in States
    BY <1>11 DEF OnlyVka, Sane
  <2>2. /\ r \in States /\ r.p = b.p /\ r.caps = b.caps /\ r.held = b.held /\ r.sound = b.sound
        /\ r.early = b.early /\ r.mapped = b.mapped /\ r.err = b.err /\ r.heap = {}
    BY <2>1 DEF States
  <2> HIDE DEF r
  <2> QED
    BY <1>11, <2>2 DEF OnlyVka, Sane
<1> HIDE DEF r
<1>14. Lent \subseteq r.held
  BY <1>13 DEF OnlyVka, Sane
<1>15. r.held = Lent \cup (IF r.p.own_vspace THEN {} ELSE r.held \cap {"frame"})
  <2>1. r.held \subseteq Lent \cup (IF s.p.own_vspace THEN {} ELSE {"frame"})
    BY <1>8, <1>11, <1>12, <1>13
  <2>2. r.p.own_vspace = s.p.own_vspace /\ "frame" \notin Lent
    BY <1>11, <1>13 DEF Lent
  <2> QED
    BY <1>14, <2>1, <2>2
<1>16. r.mapped \subseteq r.held \cap {"ipc", "stack", "frame"}
  BY <1>8, <1>11, <1>13
<1>17. Gone(r)
  BY <1>13, <1>15, <1>16 DEF Gone
<1> QED
  BY <1>1, <1>17

(* Destroying a process that is up leaves nothing behind. *)
LEMMA DestroyGood ==
  ASSUME NEW s, NEW c, Up(s, c)
  PROVE  Gone(sel4utils_destroy_process(s))
<1>0. Sane(s) /\ ~s.err /\ Clean(s) /\ Fields(s, c) /\ Accounted(s) /\ s \in States /\ s.p \in Processes
  BY DEF Up, Good, Sane, Clean, States
<1>1. ThreadFields(s)
  BY <1>0 DEF Up, Fields, ThreadFields, Null
<1>2. /\ s.p.own_ep /\ s.p.ep # Null => s.p.ep = "ep" /\ "ep" \in s.held
      /\ s.p.own_vspace /\ s.p.pd # Null => s.p.pd = "pd" /\ "pd" \in s.held
  BY <1>0 DEF Up, Fields
<1>3. CASE ~s.p.own_cspace
  <2>1. sel4utils_destroy_process(s) = DestroyRest(s)
    BY <1>3 DEF sel4utils_destroy_process
  <2>2. Unslotted(s)
    BY <1>0, <1>3 DEF Up, SlotsFine, SlotCaps, Unslotted, Clean
  <2>3. "cnode" \notin s.held
    BY <1>0, <1>3 DEF Accounted
  <2> QED
    BY <1>0, <1>1, <1>2, <2>1, <2>2, <2>3, DestroyRestGone DEF Accounted
<1>4. CASE s.p.own_cspace
  <2>1. s.p.cnode = "cnode" /\ "cnode" \in s.held
    <3>1. <<"cnode", Slot(1)>> \in s.caps
      BY <1>4 DEF Up, SlotsFine, SlotCaps
    <3>2. <<"cnode", Slot(1)>>[1] \in s.held
      BY <1>0, <3>1 DEF Clean
    <3> QED
      BY <1>0, <3>2 DEF Accounted
  <2> DEFINE r == vka_free_object(vka_cnode_revoke(s, "cnode"), "cnode")
  <2>2. sel4utils_destroy_process(s) = DestroyRest(r)
    BY <1>4, <2>1 DEF sel4utils_destroy_process
  <2>3. Unslotted(r) /\ r.held = s.held \ {"cnode"} /\ r.mapped = s.mapped /\ r.p = s.p
    BY <1>0, <2>1, CnodeFreed
  <2> HIDE DEF r
  <2>4. ThreadFields(r)
    BY <1>1, <2>3 DEF ThreadFields
  <2>5. "cnode" \notin r.held /\ r.p.own_cspace
    BY <1>4, <2>3
  <2>6. /\ "ipc" \in r.held => r.p.ipc = "ipc"
        /\ "stack" \in r.held => r.p.stack = "stack"
        /\ "sc" \in r.held => r.p.own_sc
        /\ "reply" \in r.held => r.p.own_reply
        /\ "ep" \in r.held => r.p.own_ep /\ r.p.ep = "ep"
        /\ "pd" \in r.held => r.p.own_vspace /\ r.p.pd = "pd"
        /\ r.p.own_ep /\ r.p.ep # Null => r.p.ep = "ep" /\ "ep" \in r.held
        /\ r.p.own_vspace /\ r.p.pd # Null => r.p.pd = "pd" /\ "pd" \in r.held
        /\ "frame" \in r.held => "frame" \in r.mapped
        /\ "pt" \in r.held => r.p.own_vspace /\ "pt" \in r.p.list
    BY <1>0, <1>2, <2>3 DEF Accounted
  <2>7. r.p.list \subseteq r.held /\ r.mapped \subseteq r.held \cap {"ipc", "stack", "frame"}
    <3>1. s.p.list \subseteq {"pt"}
      BY <1>0 DEF Processes
    <3> QED
      BY <1>0, <2>3, <3>1 DEF Accounted
  <2>8. Gone(DestroyRest(r))
    BY <2>3, <2>4, <2>5, <2>6, <2>7, DestroyRestGone
  <2> QED
    BY <2>2, <2>8
<1> QED
  BY <1>3, <1>4

-----------------------------------------------------------------------------
(* The invariant.                                                           *)

(* The configuration that a process remembers. *)
OwnConfig(p) ==
  [ep |-> IF p.own_ep THEN "ep" ELSE Null, cspace |-> p.own_cspace, vspace |-> p.own_vspace]

(* What a process remembers of its configuration is enough. *)
LEMMA UpOwn ==
  ASSUME NEW s, NEW c, Up(s, c)
  PROVE  Up(s, OwnConfig(s.p))
<1> DEFINE d == OwnConfig(s.p)
<1>1. d.cspace = c.cspace /\ d.vspace = c.vspace /\ (d.ep = "ep" <=> c.ep = "ep")
  BY DEF Up, OwnConfig, Null
<1> HIDE DEF d
<1>2. Fields(s, d)
  BY <1>1 DEF Up, Good, Fields
<1> QED
  BY <1>1, <1>2 DEF Up, Good, d

(* What holds of the program in each phase. *)
Phases(ph, s) ==
  /\ ph \in {"none", "up", "failed", "destroyed"}
  /\ Sane(s) /\ ~s.err
  /\ ph = "none" => Fresh(s)
  /\ ph = "up" => Up(s, OwnConfig(s.p))
  /\ ph = "failed" => s.heap = {}
  /\ ph = "destroyed" => Gone(s)

(* The inductive invariant. *)
ProcInv == Phases(phase, Now)

(* The state as a record. *)
LEMMA NowFields ==
  /\ Now.caps = caps /\ Now.held = held /\ Now.early = early /\ Now.sound = sound /\ Now.heap = heap
  /\ Now.mapped = mapped /\ Now.p = process /\ Now.err = FALSE
BY DEF Now

(* The state after a call is the record that the call returns. *)
LEMMA BecomesNow ==
  ASSUME NEW s, s \in States, Becomes(s)
  PROVE  Now' = [s EXCEPT !.err = FALSE]
<1>1. PICK no : no = FALSE
  OBVIOUS
<1>2. PICK r : r = [caps |-> s.caps, held |-> s.held, early |-> s.early, sound |-> s.sound, heap |-> s.heap,
                    mapped |-> s.mapped, p |-> s.p, err |-> no]
  OBVIOUS
<1>3. PICK t : t = [s EXCEPT !.err = no]
  OBVIOUS
<1>4. r \in States /\ t \in States
  BY <1>1, <1>2, <1>3 DEF States
<1>5. /\ r.caps = t.caps /\ r.held = t.held /\ r.early = t.early /\ r.sound = t.sound /\ r.heap = t.heap
      /\ r.mapped = t.mapped /\ r.p = t.p /\ r.err = t.err
  BY <1>2, <1>3 DEF States
<1>6. r = t
  BY <1>4, <1>5 DEF States
<1>7. Now' = r
  BY <1>1, <1>2 DEF Becomes, Now
<1> QED
  BY <1>1, <1>3, <1>6, <1>7

(* A call that has not failed. *)
LEMMA ErrUnset ==
  ASSUME NEW s, s \in States, ~s.err
  PROVE  [s EXCEPT !.err = FALSE] = s
BY DEF States

(* A failure is forgotten, and the rest stays. *)
LEMMA SaneUnfailed ==
  ASSUME NEW s, Sane(s), NEW r, r = [s EXCEPT !.err = FALSE]
  PROVE  Sane(r) /\ ~r.err /\ r.heap = s.heap
<1>1. s \in States
  BY DEF Sane
<1>2. /\ r \in States /\ r.caps = s.caps /\ r.held = s.held /\ r.sound = s.sound /\ ~r.err /\ r.heap = s.heap
  BY <1>1 DEF States
<1> QED
  BY <1>2 DEF Sane

(* Before the first configuration. *)
LEMMA ProcInit == Init => ProcInv
<1> SUFFICES ASSUME Init
             PROVE  ProcInv
  OBVIOUS
<1> DEFINE C == {<<o, VKA>> : o \in Lent}
<1>1. C \subseteq Objects \X Places /\ \A o \in Lent : <<o, VKA>> \in C
  BY PlaceFacts DEF Objects
<1>2. Zeroed \in Processes
  BY DEF Zeroed, Processes, Null
<1>3. /\ Now.caps = C /\ Now.held = Lent /\ Now.early = {} /\ Now.sound = TRUE /\ Now.heap = {}
      /\ Now.mapped = {} /\ Now.p = Zeroed /\ Now.err = FALSE /\ phase = "none"
  BY NowFields DEF Init
<1>4. Now \in States
  <2>1. Now = [caps |-> C, held |-> Lent, early |-> {}, sound |-> TRUE, heap |-> {}, mapped |-> {},
               p |-> Zeroed, err |-> FALSE]
    BY DEF Init, Now
  <2> HIDE DEF C
  <2> QED
    BY <1>1, <1>2, <2>1 DEF States, Objects
<1>5. Sane(Now)
  BY <1>1, <1>3, <1>4 DEF Sane
<1>6. Fresh(Now)
  BY <1>3 DEF Fresh
<1> QED
  BY <1>3, <1>5, <1>6 DEF ProcInv, Phases

(* A process that is gone has left its parent as it was. *)
LEMMA GoneFresh ==
  ASSUME NEW s, Gone(s), s.held = Lent, <<"gift", VKA>> \in s.caps
  PROVE  Fresh(s)
<1>1. s.mapped = {}
  BY DEF Gone, Lent
<1>2. s.caps = {<<o, VKA>> : o \in Lent}
  <2>1. \A x \in s.caps : x = <<x[1], VKA>> /\ x[1] \in Lent
    BY DEF Gone, OnlyVka, Sane, States
  <2>2. \A o \in Lent : <<o, VKA>> \in s.caps
    BY DEF Gone, OnlyVka, Sane
  <2> QED
    BY <2>1, <2>2
<1> QED
  BY <1>1, <1>2 DEF Fresh, Gone, OnlyVka

(* ConfigureProcess keeps the invariant. *)
LEMMA ConfigureKeeps ==
  ASSUME ProcInv, NEW c \in Configs, NEW f, ConfigureProcess(c, f)
  PROVE  ProcInv'
<1>1. Fresh(Now)
  <2>1. Now.held = Lent /\ <<"gift", VKA>> \in Now.caps /\ phase \in {"none", "destroyed"}
    BY NowFields DEF ConfigureProcess
  <2> QED
    BY <2>1, GoneFresh DEF ProcInv, Phases
<1>2. Sane(Now) /\ Now \in States /\ Now.sound /\ ~Now.err
  BY DEF ProcInv, Phases, Sane
<1>3. PICK s : /\ s = sel4utils_configure_process_custom(Now, c, f)
               /\ phase' = IF s.err THEN "failed" ELSE "up"
               /\ Becomes(s)
  BY DEF ConfigureProcess
<1>4. (s.err => Sane(s) /\ s.heap = {}) /\ (~s.err => Up(s, c))
  <2>1. PICK n : n = Now
    OBVIOUS
  <2>2. n \in States /\ n.sound /\ ~n.err /\ Fresh(n) /\ s = sel4utils_configure_process_custom(n, c, f)
    BY <1>1, <1>2, <1>3, <2>1
  <2> QED
    BY <2>2, ConfigureGood
<1>5. CASE s.err
  <2>1. Now' = [s EXCEPT !.err = FALSE] /\ phase' = "failed"
    BY <1>3, <1>4, <1>5, BecomesNow DEF Sane
  <2>2. PICK r : r = [s EXCEPT !.err = FALSE]
    OBVIOUS
  <2>3. Sane(r) /\ ~r.err /\ r.heap = {}
    BY <1>4, <1>5, <2>2, SaneUnfailed
  <2>4. Phases(phase', r)
    BY <2>1, <2>3 DEF Phases
  <2> QED
    BY <2>1, <2>2, <2>4 DEF ProcInv
<1>6. CASE ~s.err
  <2>1. Up(s, c) /\ Sane(s) /\ s \in States
    BY <1>4, <1>6 DEF Up, Good, Sane
  <2>2. Now' = s /\ phase' = "up"
    BY <1>3, <1>6, <2>1, BecomesNow, ErrUnset
  <2>3. Phases(phase', s)
    BY <1>6, <2>1, <2>2, UpOwn DEF Phases
  <2> QED
    BY <2>2, <2>3 DEF ProcInv
<1> QED
  BY <1>5, <1>6

(* A step within a process's life. *)
LEMMA UpKeeps ==
  ASSUME NEW s, NEW c, Up(s, c), Becomes(s), phase = "up", UNCHANGED phase
  PROVE  ProcInv'
<1>1. Sane(s) /\ s \in States /\ ~s.err
  BY DEF Up, Good, Sane
<1>2. Now' = s
  BY <1>1, BecomesNow, ErrUnset
<1>3. Phases(phase', s)
  BY <1>1, UpOwn DEF Phases
<1> QED
  BY <1>2, <1>3 DEF ProcInv

(* The record of a process that is up. *)
LEMMA NowUp ==
  ASSUME ProcInv, phase = "up"
  PROVE  \E n : n = Now /\ Up(n, OwnConfig(n.p)) /\ n.p = process /\ n.caps = caps
BY NowFields DEF ProcInv, Phases

(* Every step keeps the invariant. *)
LEMMA ProcNext == ASSUME ProcInv, Next PROVE ProcInv'
<1>1. ASSUME NEW c \in Configs, NEW f \in Failures, ConfigureProcess(c, f)
      PROVE  ProcInv'
  BY <1>1, ConfigureKeeps
<1>2. ASSUME NEW o \in {"gift", "ep", "tcb"}, NEW fails \in BOOLEAN, GiveCap(o, fails)
      PROVE  ProcInv'
  <2>1. phase = "up" /\ process.own_cspace /\ UNCHANGED phase /\ Becomes(CopyToProcess(Now, o, fails))
    BY <1>2 DEF GiveCap
  <2>2. PICK n : n = Now /\ Up(n, OwnConfig(n.p)) /\ n.p = process /\ n.caps = caps
    BY <2>1, NowUp
  <2>3. o \in Objects
    BY DEF Objects, Lent, Made
  <2>4. PICK c : c = OwnConfig(n.p)
    OBVIOUS
  <2>5. Up(CopyToProcess(n, o, fails), c)
    BY <2>1, <2>2, <2>3, <2>4, CopyUp
  <2>6. PICK r : r = CopyToProcess(n, o, fails)
    OBVIOUS
  <2> QED
    BY <2>1, <2>2, <2>5, <2>6, UpKeeps
<1>3. ASSUME NEW fails \in BOOLEAN, MoveCap("gift", fails)
      PROVE  ProcInv'
  <2>1. /\ phase = "up" /\ process.own_cspace /\ UNCHANGED phase /\ <<"gift", VKA>> \in caps
        /\ Becomes(MoveToProcess(Now, "gift", fails))
    BY <1>3 DEF MoveCap
  <2>2. PICK n : n = Now /\ Up(n, OwnConfig(n.p)) /\ n.p = process /\ n.caps = caps
    BY <2>1, NowUp
  <2>3. PICK c : c = OwnConfig(n.p)
    OBVIOUS
  <2>4. Up(MoveToProcess(n, "gift", fails), c)
    BY <2>1, <2>2, <2>3, MoveUp
  <2>5. PICK r : r = MoveToProcess(n, "gift", fails)
    OBVIOUS
  <2> QED
    BY <2>1, <2>2, <2>4, <2>5, UpKeeps
<1>4. ASSUME NEW fails \in BOOLEAN, sel4utils_copy_timer_caps_to_process(fails)
      PROVE  ProcInv'
  <2>1. /\ phase = "up" /\ process.own_cspace /\ UNCHANGED phase
        /\ Becomes(CopyToProcess(CopyToProcess(Now, "gift", fails), "gift", FALSE))
    BY <1>4 DEF sel4utils_copy_timer_caps_to_process
  <2>2. PICK n : n = Now /\ Up(n, OwnConfig(n.p)) /\ n.p = process /\ n.caps = caps
    BY <2>1, NowUp
  <2>3. PICK c, o, no : c = OwnConfig(n.p) /\ o = "gift" /\ no = FALSE
    OBVIOUS
  <2>4. o \in Objects
    BY <2>3 DEF Objects, Lent
  <2>5. PICK m : m = CopyToProcess(n, o, fails)
    OBVIOUS
  <2>6. Up(m, c) /\ m.p.own_cspace
    BY <2>1, <2>2, <2>3, <2>4, <2>5, CopyUp
  <2>7. PICK r : r = CopyToProcess(m, o, no)
    OBVIOUS
  <2>8. Up(r, c)
    BY <2>4, <2>6, <2>7, CopyUp
  <2>9. Becomes(r)
    BY <2>1, <2>2, <2>3, <2>5, <2>7
  <2> QED
    BY <2>1, <2>8, <2>9, UpKeeps
<1>5. ASSUME DestroyProcess
      PROVE  ProcInv'
  <2>1. phase = "up" /\ phase' = "destroyed" /\ Becomes(sel4utils_destroy_process(Now))
    BY <1>5 DEF DestroyProcess
  <2>2. PICK n : n = Now /\ Up(n, OwnConfig(n.p)) /\ n.p = process /\ n.caps = caps
    BY <2>1, NowUp
  <2>3. PICK r : r = sel4utils_destroy_process(n)
    OBVIOUS
  <2>4. Gone(r)
    BY <2>2, <2>3, DestroyGood
  <2>5. Sane(r) /\ r \in States /\ ~r.err
    BY <2>4 DEF Gone, OnlyVka, Sane
  <2>6. Now' = r
    BY <2>1, <2>2, <2>3, <2>5, BecomesNow, ErrUnset
  <2>7. Phases(phase', r)
    BY <2>1, <2>4, <2>5 DEF Phases
  <2> QED
    BY <2>6, <2>7 DEF ProcInv
<1> QED
  BY <1>1, <1>2, <1>3, <1>4, <1>5 DEF Next

(* The invariant implies the property. *)
LEMMA ProcObjectsExact == ProcInv => ObjectsExact
<1> SUFFICES ASSUME ProcInv
             PROVE  ObjectsExact
  OBVIOUS
<1>1. /\ Now \in States /\ sound /\ Lent \subseteq held /\ \A o \in held \ {"gift"} : <<o, VKA>> \in caps
  BY NowFields DEF ProcInv, Phases, Sane
<1>2. LentIsKept
  <2>1. held \subseteq Lent \cup Made
    BY <1>1, NowFields DEF States, Objects
  <2>2. phase = "failed" => heap = {}
    BY NowFields DEF ProcInv, Phases
  <2> QED
    BY <1>1, <2>1, <2>2 DEF LentIsKept
<1>3. SlotsAgree
  <2> SUFFICES ASSUME phase = "up", process.own_cspace
               PROVE  /\ \A o \in {"tcb", "cnode", "pd", "asid", "sc"} : \A k \in 1 .. CspaceSlots :
                           k <= 7 /\ <<o, Slot(k)>> \in caps => k = sel4utils_process_init_cap[o]
                      /\ \A o \in {"tcb", "cnode", "asid"} : <<o, Slot(sel4utils_process_init_cap[o])>> \in caps
                      /\ process.own_ep => <<"ep", Slot(2)>> \in caps
                      /\ \A c \in caps : c[2][1] = "slot" => c[2][2] < process.next_free
                      /\ \A c, d \in caps : c[2] = d[2] /\ c[2][1] = "slot" => c = d
    BY DEF SlotsAgree, SEL4UTILS_REPLY_SLOT, SEL4UTILS_ENDPOINT_SLOT
  <2>1. SlotsFine(Now) /\ Now.p = process /\ SlotCaps(Now) = {x \in caps : x[2][1] = "slot"}
    BY NowFields DEF ProcInv, Phases, Up, SlotCaps
  <2> DEFINE S == {x \in caps : x[2][1] = "slot"}
  <2>2. /\ \A x \in S : Promised(x) /\ x[2][2] < process.next_free
        /\ \A x, y \in S : x[2] = y[2] => x = y
        /\ {<<"cnode", Slot(1)>>, <<"asid", Slot(4)>>, <<"tcb", Slot(5)>>} \subseteq S
        /\ process.own_ep => <<"ep", Slot(2)>> \in S
    BY <2>1 DEF SlotsFine
  <2>3. /\ sel4utils_process_init_cap["tcb"] = 5 /\ sel4utils_process_init_cap["cnode"] = 1
        /\ sel4utils_process_init_cap["pd"] = 3 /\ sel4utils_process_init_cap["asid"] = 4
        /\ sel4utils_process_init_cap["sc"] = 6
    BY DEF sel4utils_process_init_cap, SEL4UTILS_TCB_SLOT, SEL4UTILS_CNODE_SLOT, SEL4UTILS_PD_SLOT,
           SEL4UTILS_ASID_POOL_SLOT, SEL4UTILS_SCHED_CONTEXT_SLOT
  <2>4. ASSUME NEW o \in {"tcb", "cnode", "pd", "asid", "sc"}, NEW k \in 1 .. CspaceSlots,
               k <= 7, <<o, Slot(k)>> \in caps
        PROVE  k = sel4utils_process_init_cap[o]
    <3>1. <<o, Slot(k)>> \in S /\ Slot(k)[2] = k
      BY <2>4, PlaceFacts
    <3>2. PICK x : x = <<o, Slot(k)>> /\ x[1] = o /\ x[2][2] = k
      BY <3>1
    <3>3. Promised(x)
      BY <2>2, <3>1, <3>2
    <3>4. k \in {1, 2, 3, 4, 5, 6, 7}
      BY <2>4, ProcessAssumption DEF ProcessAssumption
    <3> QED
      BY <2>3, <3>2, <3>3, <3>4 DEF Promised
  <2>5. \A o \in {"tcb", "cnode", "asid"} : <<o, Slot(sel4utils_process_init_cap[o])>> \in caps
    BY <2>2, <2>3
  <2> QED
    BY <2>2, <2>4, <2>5
<1>4. DestroyedIsGone
  <2> SUFFICES ASSUME phase = "destroyed"
               PROVE  /\ held = Lent \cup (IF process.own_vspace THEN {} ELSE held \cap {"frame"})
                      /\ \A c \in caps : c[1] \in held
                      /\ early = {} /\ heap = {}
    BY DEF DestroyedIsGone
  <2>1. Gone(Now)
    BY DEF ProcInv, Phases
  <2> QED
    BY <2>1, NowFields DEF Gone, OnlyVka
<1> QED
  BY <1>2, <1>3, <1>4 DEF ObjectsExact

(* Whatever fails in between, a process has its objects where it looks for  *)
(* them while it is up, what was lent stays its parent's, and what was made *)
(* for it is gone with it.                                                  *)
THEOREM ProcessCorrect == Spec => []ObjectsExact
<1>1. ProcInv /\ [Next]_vars => ProcInv'
  <2> SUFFICES ASSUME ProcInv, [Next]_vars
               PROVE  ProcInv'
    OBVIOUS
  <2>1. CASE Next
    BY <2>1, ProcNext
  <2>2. CASE UNCHANGED vars
    <3>1. Now' = Now /\ phase' = phase
      BY <2>2 DEF vars, Now
    <3> QED
      BY <3>1 DEF ProcInv
  <2> QED
    BY <2>1, <2>2
<1> QED
  BY <1>1, ProcInit, ProcObjectsExact, PTL DEF Spec

-----------------------------------------------------------------------------
(* The first stack of a process.                                           *)

(* A set of naturals has a least element. *)
LEMMA LeastNat ==
  ASSUME NEW S \in SUBSET Nat, S # {}
  PROVE  \E x \in S : \A y \in S : x <= y
<1>1. PICK x \in S : \A y \in S : ~ (<<y, x>> \in OpToRel(<, Nat))
  BY WFMin, NatLessThanWellFounded
<1>2. ASSUME NEW y \in S, y < x
      PROVE  <<y, x>> \in OpToRel(<, Nat)
  <2>1. <<y, x>> \in Nat \X Nat
    OBVIOUS
  <2>2. <<y, x>>[1] < <<y, x>>[2]
    BY <1>2
  <2> QED
    BY <2>1, <2>2, Zenon DEF OpToRel
<1>3. \A y \in S : ~ (y < x)
  BY <1>1, <1>2
<1> QED
  BY <1>3

(* What holds at the start of a loop and after every turn holds at its end, *)
(* and after every turn before. *)
LEMMA Climb ==
  ASSUME NEW n \in Nat, NEW A, 0 \in A, \A k \in 1 .. n : k - 1 \in A => k \in A
  PROVE  \A k \in 0 .. n : k \in A
<1> DEFINE B == {k \in 0 .. n : k \notin A}
<1>1. ASSUME B # {}
      PROVE  FALSE
  <2>1. PICK k \in B : \A j \in B : k <= j
    <3>1. B \in SUBSET Nat /\ B # {}
      BY <1>1
    <3> HIDE DEF B
    <3> QED
      BY <3>1, LeastNat
  <2>2. k \in 1 .. n /\ k - 1 \in 0 .. n /\ k - 1 \notin B
    BY <2>1
  <2> QED
    BY <2>1, <2>2
<1> QED
  BY <1>1

(* A stack, and the fields that writing leaves alone. *)
IsStack(s) ==
  /\ s = [pages |-> s.pages, refuse |-> s.refuse, sp |-> s.sp, initial |-> s.initial, mem |-> s.mem,
          argv |-> s.argv, arg1 |-> s.arg1, tlsBase |-> s.tlsBase, running |-> s.running, err |-> s.err]
  /\ s.pages \in Nat \ {0} /\ s.sp \in Int /\ s.err \in BOOLEAN /\ s.argv \in Seq(Int)

(* Nothing is below the stack pointer. *)
Above(s) == \A a \in DOMAIN s.mem : a \in Int /\ a >= s.sp

(* What was on the stack stays there. *)
Grows(s, r) ==
  /\ r.pages = s.pages /\ r.sp <= s.sp
  /\ \A a \in DOMAIN s.mem : a \in DOMAIN r.mem /\ r.mem[a] = s.mem[a]

BytesIn(m, a, bytes) ==
  \A k \in 1 .. Len(bytes) : a + k - 1 \in DOMAIN m /\ m[a + k - 1] = bytes[k]

(* Sizes. *)
LEMMA StackSizesPositive ==
  /\ Word \in {4, 8} /\ StackAlign \in Nat \ {0} /\ StackPage \in Nat \ {0} /\ PhdrBytes \in Nat
BY ProcessStackAssumption

(* Bytes that are on the stack are still there when it has grown. *)
LEMMA HoldsGrows ==
  ASSUME NEW s, NEW r, NEW a, NEW bytes, Grows(s, r), BytesIn(s.mem, a, bytes)
  PROVE  BytesIn(r.mem, a, bytes)
<1> SUFFICES ASSUME NEW k \in 1 .. Len(bytes)
             PROVE  a + k - 1 \in DOMAIN r.mem /\ r.mem[a + k - 1] = bytes[k]
  BY DEF BytesIn
<1>1. PICK x : x = a + k - 1
  OBVIOUS
<1>2. x \in DOMAIN s.mem /\ s.mem[x] = bytes[k]
  BY <1>1 DEF BytesIn
<1>3. x \in DOMAIN r.mem /\ r.mem[x] = s.mem[x]
  BY <1>2 DEF Grows
<1> QED
  BY <1>1, <1>2, <1>3

(* A stack grows by growing twice. *)
LEMMA GrowsTwice ==
  ASSUME NEW s, NEW r, NEW t, IsStack(s), IsStack(r), IsStack(t), Grows(s, r), Grows(r, t)
  PROVE  Grows(s, t)
BY DEF Grows, IsStack

(* What a call of stack_write has done: if it succeeds, the bytes are on   *)
(* the stack, in pages that there are.                                     *)
Wrote(s, bytes, r) ==
  /\ IsStack(r)
  /\ s.err => r.err
  /\ ~r.err /\ Above(s) =>
       /\ ~s.err /\ r.sp = s.sp - Len(bytes) /\ (Len(bytes) > 0 => r.sp >= 0)
       /\ r.argv = s.argv /\ Above(r) /\ Grows(s, r) /\ BytesIn(r.mem, r.sp, bytes)

LEMMA WriteEffect ==
  ASSUME NEW s, IsStack(s), NEW bytes, Len(bytes) \in Nat, NEW r, r = stack_write(s, bytes)
  PROVE  Wrote(s, bytes, r)
<1> DEFINE dest == s.sp - Len(bytes)
           Writable(q) == q \in 0 .. s.pages - 1 /\ q # s.refuse
           ok == {k \in 1 .. Len(bytes) :
                    \A q \in dest \div StackPage .. (dest + k - 1) \div StackPage : Writable(q)}
           w == [a \in {dest + k - 1 : k \in ok} |-> bytes[a - dest + 1]]
           t == [s EXCEPT !.mem = Written(@, w), !.sp = IF ok = 1 .. Len(bytes) THEN dest ELSE @,
                          !.err = ok # 1 .. Len(bytes)]
<1>1. r = IF s.err THEN s ELSE t
  BY DEF stack_write
<1>2. CASE s.err
  <2>1. r = s
    BY <1>1, <1>2
  <2> QED
    BY <1>2, <2>1 DEF Wrote
<1>3. CASE ~s.err
  <2>1. r = t
    BY <1>1, <1>3
  <2>2. /\ r.mem = Written(s.mem, w) /\ r.sp = (IF ok = 1 .. Len(bytes) THEN dest ELSE s.sp)
        /\ r.err = (ok # 1 .. Len(bytes)) /\ r.argv = s.argv /\ r.pages = s.pages
        /\ r = [pages |-> r.pages, refuse |-> r.refuse, sp |-> r.sp, initial |-> r.initial, mem |-> r.mem,
          argv |-> r.argv, arg1 |-> r.arg1, tlsBase |-> r.tlsBase, running |-> r.running, err |-> r.err]
    <3> HIDE DEF ok, w, dest
    <3> QED
      BY <2>1 DEF IsStack
  <2>3. dest \in Int
    BY DEF IsStack
  <2>4. IsStack(r)
    <3> HIDE DEF ok, w, dest
    <3> QED
      BY <2>2, <2>3 DEF IsStack
  <2>5. ASSUME ~r.err, Above(s)
        PROVE  /\ r.sp = s.sp - Len(bytes) /\ (Len(bytes) > 0 => r.sp >= 0)
               /\ Above(r) /\ Grows(s, r) /\ BytesIn(r.mem, r.sp, bytes)
    <3>1. ok = 1 .. Len(bytes)
      <4> HIDE DEF ok
      <4> QED
        BY <2>2, <2>5
    <3>2. r.sp = dest
      BY <2>2, <3>1
    <3>3. PICK d, n : d = dest /\ n = Len(bytes) /\ d \in Int /\ n \in Nat /\ d = s.sp - n
      BY <2>3
    <3>4. DOMAIN w = {d + k - 1 : k \in 1 .. n}
      BY <3>1, <3>3
    <3>5. \A k \in 1 .. n : d + k - 1 \in DOMAIN w /\ w[d + k - 1] = bytes[k]
      <4> SUFFICES ASSUME NEW k \in 1 .. n
                   PROVE  d + k - 1 \in DOMAIN w /\ w[d + k - 1] = bytes[k]
        OBVIOUS
      <4>1. d + k - 1 \in {dest + j - 1 : j \in ok}
        BY <3>1, <3>3
      <4>2. w[d + k - 1] = bytes[(d + k - 1) - dest + 1]
        BY <4>1
      <4>3. (d + k - 1) - dest + 1 = k
        BY <3>3
      <4> QED
        BY <4>1, <4>2, <4>3
    <3>6. \A a \in DOMAIN w : a \in Int /\ a >= d /\ a < s.sp
      BY <3>3, <3>4 DEF IsStack
    <3>7. /\ DOMAIN r.mem = DOMAIN s.mem \cup DOMAIN w
          /\ \A a \in DOMAIN w : r.mem[a] = w[a]
          /\ \A a \in DOMAIN s.mem : a \notin DOMAIN w => r.mem[a] = s.mem[a]
      <4> HIDE DEF w
      <4> QED
        BY <2>2 DEF Written
    <3> HIDE DEF w, ok, dest
    <3>8. BytesIn(r.mem, r.sp, bytes)
      BY <3>2, <3>3, <3>5, <3>7 DEF BytesIn
    <3>9. Above(r)
      BY <2>5, <3>2, <3>3, <3>6, <3>7 DEF Above, IsStack
    <3>10. Grows(s, r)
      <4>1. \A a \in DOMAIN s.mem : a \notin DOMAIN w
        BY <2>5, <3>6 DEF Above, IsStack
      <4> QED
        BY <2>2, <3>2, <3>3, <3>7, <4>1 DEF Grows, IsStack
    <3>11. n > 0 => d >= 0
      <4> SUFFICES ASSUME n > 0, d < 0
                   PROVE  FALSE
        BY <3>3
      <4>1. 1 \in ok
        BY <3>1, <3>3
      <4>2. PICK q : q = d \div StackPage
        OBVIOUS
      <4>3. q \in Int /\ q < 0
        BY <3>3, <4>2, StackSizesPositive
      <4>4. q \in dest \div StackPage .. (dest + 1 - 1) \div StackPage
        BY <3>3, <4>2, <4>3
      <4>5. Writable(q)
        BY <4>1, <4>4 DEF ok
      <4> QED
        BY <4>3, <4>5
    <3> QED
      BY <3>2, <3>3, <3>8, <3>9, <3>10, <3>11
  <2>6. r.argv = s.argv
    BY <2>2
  <2> HIDE DEF t, w, ok, dest
  <2> QED
    BY <1>3, <2>4, <2>5, <2>6 DEF Wrote
<1> QED
  BY <1>2, <1>3

(* The stack pointer is only moved down. *)
LEMMA Lowered ==
  ASSUME NEW s, IsStack(s), Above(s), NEW p \in Int, p <= s.sp, NEW r, r = [s EXCEPT !.sp = p]
  PROVE  IsStack(r) /\ Above(r) /\ Grows(s, r) /\ r.sp = p /\ r.mem = s.mem /\ r.argv = s.argv /\ r.err = s.err
<1>1. r.sp = p /\ r.mem = s.mem /\ r.argv = s.argv /\ r.err = s.err /\ r.pages = s.pages
  BY DEF IsStack
<1>2. IsStack(r)
  BY DEF IsStack
<1>3. \A a \in DOMAIN s.mem : a \in Int /\ a >= p
  BY DEF Above, IsStack
<1> QED
  BY <1>1, <1>2, <1>3 DEF Above, Grows

(* Rounding down. *)
LEMMA AlignFacts ==
  ASSUME NEW a \in Int, NEW b \in Nat \ {0}
  PROVE  /\ AlignDown(a, b) \in Int /\ AlignDown(a, b) <= a /\ a - AlignDown(a, b) < b
         /\ AlignDown(a, b) % b = 0
<1>1. a % b \in Int /\ a % b >= 0 /\ a % b < b
  OBVIOUS
<1>2. PICK k : k = a \div b
  OBVIOUS
<1>3. k \in Int /\ AlignDown(a, b) = b * k
  BY <1>2 DEF AlignDown
<1>4. (b * k) % b = 0
  BY <1>3
<1> QED
  BY <1>1, <1>3, <1>4 DEF AlignDown

(* The bytes of a string, and of words. *)
LEMMA BytesFacts ==
  /\ \A i, n : n \in Nat => Len(StringBytes(i, n)) = n + 1
  /\ \A v : Len(WordBytes(v)) = Word
  /\ \A n \in Nat : Len(PhdrsBytes(n)) = n * PhdrBytes /\ n * PhdrBytes \in Nat
<1>1. ASSUME NEW n \in Nat
      PROVE  n * PhdrBytes \in Nat
  BY StackSizesPositive
<1>2. ASSUME NEW n \in Nat
      PROVE  Len(PhdrsBytes(n)) = n * PhdrBytes
  BY <1>1 DEF PhdrsBytes
<1>3. ASSUME NEW i, NEW n \in Nat
      PROVE  Len(StringBytes(i, n)) = n + 1
  BY DEF StringBytes
<1>4. ASSUME NEW v
      PROVE  Len(WordBytes(v)) = Word
  BY StackSizesPositive DEF WordBytes
<1> QED
  BY <1>1, <1>2, <1>3, <1>4

(* One argument of stack_copy_args. *)
Argued(w) == IF w.err THEN w ELSE [w EXCEPT !.argv = Append(@, w.sp), !.sp = AlignDown(@, 4)]

LEMMA ArguedEffect ==
  ASSUME NEW w, IsStack(w)
  PROVE  /\ IsStack(Argued(w)) /\ Argued(w).err = w.err
         /\ ~w.err /\ Above(w) =>
              /\ Argued(w).argv = Append(w.argv, w.sp) /\ Argued(w).mem = w.mem
              /\ Above(Argued(w)) /\ Grows(w, Argued(w))
<1>1. CASE w.err
  BY <1>1 DEF Argued
<1>2. CASE ~w.err
  <2>1. PICK v : v = [w EXCEPT !.argv = Append(@, w.sp)]
    OBVIOUS
  <2>2. PICK p : p = AlignDown(w.sp, 4)
    OBVIOUS
  <2>3. p \in Int /\ p <= w.sp
    <3>1. PICK a : a = w.sp /\ a \in Int
      BY DEF IsStack
    <3>2. a % 4 \in Int /\ a % 4 >= 0 /\ p = a - (a % 4)
      BY <2>2, <3>1 DEF AlignDown
    <3> QED
      BY <3>1, <3>2
  <2>4. Argued(w) = [v EXCEPT !.sp = p]
    BY <1>2, <2>1, <2>2 DEF Argued, IsStack
  <2>5. /\ IsStack(v) /\ v.err = w.err /\ v.mem = w.mem /\ v.sp = w.sp /\ v.pages = w.pages
        /\ v.argv = Append(w.argv, w.sp)
    <3>0. PICK g : g = Append(w.argv, w.sp)
      OBVIOUS
    <3>1. g = Append(w.argv, w.sp) /\ g \in Seq(Int)
      BY <3>0 DEF IsStack
    <3>2. v = [w EXCEPT !.argv = g]
      BY <2>1, <3>1
    <3>3. /\ v.err = w.err /\ v.mem = w.mem /\ v.sp = w.sp /\ v.pages = w.pages /\ v.argv = g
          /\ v = [pages |-> v.pages, refuse |-> v.refuse, sp |-> v.sp, initial |-> v.initial, mem |-> v.mem,
                  argv |-> v.argv, arg1 |-> v.arg1, tlsBase |-> v.tlsBase, running |-> v.running, err |-> v.err]
      BY <3>2 DEF IsStack
    <3>4. IsStack(v)
      BY <3>1, <3>3 DEF IsStack
    <3> QED
      BY <3>1, <3>3, <3>4
  <2>6. IsStack([v EXCEPT !.sp = p]) /\ [v EXCEPT !.sp = p].err = v.err
    <3>1. PICK q : q = [v EXCEPT !.sp = p]
      OBVIOUS
    <3>2. /\ q.sp = p /\ q.err = v.err /\ q.pages = v.pages /\ q.argv = v.argv
          /\ q = [pages |-> q.pages, refuse |-> q.refuse, sp |-> q.sp, initial |-> q.initial, mem |-> q.mem,
                  argv |-> q.argv, arg1 |-> q.arg1, tlsBase |-> q.tlsBase, running |-> q.running, err |-> q.err]
      BY <2>5, <3>1 DEF IsStack
    <3>3. IsStack(q)
      BY <2>3, <2>5, <3>2 DEF IsStack
    <3> QED
      BY <3>1, <3>2, <3>3
  <2>7. ASSUME Above(w)
        PROVE  /\ Argued(w).argv = Append(w.argv, w.sp) /\ Argued(w).mem = w.mem
               /\ Above(Argued(w)) /\ Grows(w, Argued(w))
    <3>1. Above(v)
      BY <2>5, <2>7 DEF Above
    <3>2. PICK q : q = [v EXCEPT !.sp = p]
      OBVIOUS
    <3>3. Above(q) /\ Grows(v, q) /\ q.mem = v.mem /\ q.argv = v.argv
      BY <2>3, <2>5, <3>1, <3>2, Lowered
    <3> QED
      BY <2>4, <2>5, <3>2, <3>3 DEF Grows
  <2> QED
    BY <1>2, <2>4, <2>5, <2>6, <2>7
<1> QED
  BY <1>1, <1>2

(* f has the stack after each turn of stack_copy_args, from s on. *)
Follows(f, s, lens) ==
  /\ f[0] = s
  /\ \A k \in 1 .. Len(lens) : f[k] = Argued(stack_write(f[k - 1], StringBytes(k, lens[k])))
  /\ stack_copy_args(s, lens) = f[Len(lens)]

(* The turns of stack_copy_args. *)
LEMMA ArgTurns ==
  ASSUME NEW s, NEW lens, Len(lens) \in Nat
  PROVE  \E f : Follows(f, s, lens)
<1> DEFINE n == Len(lens)
           Turn(r, k) == Argued(stack_write(r, StringBytes(k, lens[k])))
           Turning(m, f) == f = [k \in 0 .. m |-> IF k = 0 THEN s ELSE Turn(f[k - 1], k)]
           A == {m \in 0 .. n : \E f : Turning(m, f)}
<1>1. PICK g : g = CHOOSE f : Turning(n, f)
  OBVIOUS
<1>2. stack_copy_args(s, lens) = g[n]
  BY <1>1 DEF stack_copy_args, Argued
<1>3. n \in Nat
  OBVIOUS
<1> HIDE DEF n, Turn
<1>4. 0 \in A
  <2>1. PICK f : f = [k \in 0 .. 0 |-> s]
    OBVIOUS
  <2>2. Turning(0, f)
    BY <2>1
  <2> QED
    BY <2>2, <1>3
<1>5. ASSUME NEW m \in 1 .. n, m - 1 \in A
      PROVE  m \in A
  <2>1. PICK f : Turning(m - 1, f)
    BY <1>5
  <2>2. PICK h : h = [k \in 0 .. m |-> IF k = m THEN Turn(f[m - 1], m) ELSE f[k]]
    OBVIOUS
  <2>3. ASSUME NEW k \in 0 .. m
        PROVE  h[k] = IF k = 0 THEN s ELSE Turn(h[k - 1], k)
    BY <1>3, <2>1, <2>2
  <2>4. Turning(m, h)
    BY <2>2, <2>3
  <2> QED
    BY <2>4
<1>6. n \in A
  <2> HIDE DEF A
  <2> QED
    BY <1>3, <1>4, <1>5, Climb
<1>7. Turning(n, g)
  BY <1>1, <1>6
<1>8. g[0] = s /\ \A k \in 1 .. n : g[k] = Turn(g[k - 1], k)
  BY <1>3, <1>7
<1>9. Follows(g, s, lens)
  BY <1>2, <1>8 DEF n, Turn, Follows
<1> QED
  BY <1>9

(* The strings of the first k arguments. *)
Strings(r, lens, k) ==
  /\ Len(r.argv) = k
  /\ \A i \in 1 .. k : r.argv[i] \in Int /\ BytesIn(r.mem, r.argv[i], StringBytes(i, lens[i]))

(* One more string. *)
LEMMA StringEffect ==
  ASSUME NEW lens, NEW k \in Nat \ {0}, lens[k] \in Nat, NEW s, IsStack(s), ~s.err => Above(s) /\ Strings(s, lens, k - 1),
         NEW t, t = Argued(stack_write(s, StringBytes(k, lens[k])))
  PROVE  IsStack(t) /\ (~t.err => ~s.err /\ Above(t) /\ Grows(s, t) /\ Strings(t, lens, k))
<1>1. PICK b : b = StringBytes(k, lens[k])
  OBVIOUS
<1>2. Len(b) \in Nat
  BY <1>1, BytesFacts
<1>3. PICK r : r = stack_write(s, b)
  OBVIOUS
<1>4a. Wrote(s, b, r)
  BY <1>2, <1>3, WriteEffect
<1>4. /\ IsStack(r)
      /\ ~r.err /\ Above(s) => ~s.err /\ r.argv = s.argv /\ Above(r) /\ Grows(s, r) /\ BytesIn(r.mem, r.sp, b)
  BY <1>4a DEF Wrote
<1>5. s.err => r.err
  BY <1>4a DEF Wrote
<1>6. t = Argued(r) /\ IsStack(t) /\ t.err = r.err
  BY <1>1, <1>3, <1>4, ArguedEffect
<1>7. ASSUME ~t.err
      PROVE  ~s.err /\ Above(t) /\ Grows(s, t) /\ Strings(t, lens, k)
  <2>1. ~r.err /\ ~s.err /\ Above(s) /\ Strings(s, lens, k - 1)
    BY <1>5, <1>6, <1>7
  <2>2. r.argv = s.argv /\ Above(r) /\ Grows(s, r) /\ BytesIn(r.mem, r.sp, b)
    BY <1>4, <2>1
  <2>3. t.argv = Append(r.argv, r.sp) /\ t.mem = r.mem /\ Above(t) /\ Grows(r, t)
    BY <1>4, <1>6, <2>1, <2>2, ArguedEffect
  <2>4. Grows(s, t)
    BY <1>4, <1>6, <2>2, <2>3, GrowsTwice
  <2>5. r.sp \in Int /\ s.argv \in Seq(Int) /\ Len(s.argv) = k - 1
    BY <1>4, <2>1 DEF IsStack, Strings
  <2>6. Len(t.argv) = k /\ t.argv[k] = r.sp /\ \A i \in 1 .. k - 1 : t.argv[i] = s.argv[i]
    BY <2>2, <2>3, <2>5
  <2>7. ASSUME NEW i \in 1 .. k
        PROVE  t.argv[i] \in Int /\ BytesIn(t.mem, t.argv[i], StringBytes(i, lens[i]))
    <3>1. CASE i = k
      BY <1>1, <2>2, <2>3, <2>5, <2>6, <3>1
    <3>2. CASE i \in 1 .. k - 1
      <4>1. t.argv[i] = s.argv[i] /\ s.argv[i] \in Int
        BY <2>1, <2>6, <3>2 DEF Strings
      <4>2. BytesIn(s.mem, s.argv[i], StringBytes(i, lens[i]))
        BY <2>1, <3>2 DEF Strings
      <4>3. PICK a, c : a = s.argv[i] /\ c = StringBytes(i, lens[i])
        OBVIOUS
      <4>4. BytesIn(t.mem, a, c)
        BY <2>4, <4>2, <4>3, HoldsGrows
      <4> QED
        BY <4>1, <4>3, <4>4
    <3> QED
      BY <3>1, <3>2
  <2> QED
    BY <2>1, <2>3, <2>4, <2>6, <2>7 DEF Strings
<1> QED
  BY <1>6, <1>7

(* All of them. *)
LEMMA CopyEffect ==
  ASSUME NEW s, IsStack(s), ~s.err => Above(s) /\ s.argv = <<>>, NEW lens, Len(lens) \in Nat,
         \A i \in 1 .. Len(lens) : lens[i] \in Nat, NEW r, r = stack_copy_args(s, lens)
  PROVE  IsStack(r) /\ (~r.err => ~s.err /\ Above(r) /\ Grows(s, r) /\ Strings(r, lens, Len(lens)))
<1>a. PICK f : Follows(f, s, lens)
  BY ArgTurns, Zenon
<1> DEFINE n == Len(lens)
<1>1. /\ f[0] = s /\ r = f[n]
      /\ \A k \in 1 .. n : f[k] = Argued(stack_write(f[k - 1], StringBytes(k, lens[k])))
  BY <1>a, Zenon DEF Follows
<1> DEFINE A == {k \in 0 .. n : IsStack(f[k]) /\ (~f[k].err => ~s.err /\ Above(f[k]) /\ Grows(s, f[k]) /\ Strings(f[k], lens, k))}
<1>0. n \in Nat
  OBVIOUS
<1> HIDE DEF n
<1>2. 0 \in A
  <2>1. Grows(s, s)
    BY DEF Grows, IsStack
  <2>2. ~s.err => Strings(s, lens, 0)
    BY DEF Strings
  <2> QED
    BY <1>0, <1>1, <2>1, <2>2
<1>3. ASSUME NEW k \in 1 .. n, k - 1 \in A
      PROVE  k \in A
  <2>1. PICK p, t : p = f[k - 1] /\ t = f[k]
    OBVIOUS
  <2>2. /\ IsStack(p) /\ (~p.err => ~s.err /\ Above(p) /\ Grows(s, p) /\ Strings(p, lens, k - 1))
    BY <1>3, <2>1
  <2>3. t = Argued(stack_write(p, StringBytes(k, lens[k])))
    BY <1>1, <2>1
  <2>4. \A i \in 1 .. n : lens[i] \in Nat
    BY DEF n
  <2>5. IsStack(t) /\ (~t.err => ~p.err /\ Above(t) /\ Grows(p, t) /\ Strings(t, lens, k))
    <3>1. ~p.err => Above(p) /\ Strings(p, lens, k - 1)
      BY <2>2
    <3>2. k \in Nat \ {0} /\ lens[k] \in Nat
      BY <1>0, <2>4
    <3> QED
      BY <2>2, <2>3, <3>1, <3>2, StringEffect
  <2>6. ~t.err => Grows(s, t)
    BY <2>2, <2>5, GrowsTwice
  <2> QED
    BY <1>0, <2>1, <2>2, <2>5, <2>6
<1>4. n \in A
  <2>1. PICK N, B : N = n /\ B = A
    OBVIOUS
  <2> HIDE DEF A
  <2>2. N \in Nat /\ 0 \in B /\ \A k \in 1 .. N : k - 1 \in B => k \in B
    BY <1>0, <1>2, <1>3, <2>1
  <2>3. \A k \in 0 .. N : k \in B
    BY <2>2, Climb
  <2> QED
    BY <1>0, <2>1, <2>3
<1> QED
  BY <1>1, <1>4 DEF n


(* Where the bytes of a word are among those of an array. *)
LEMMA WordIndex ==
  ASSUME NEW j \in Nat \ {0}, NEW k \in 1 .. Word
  PROVE  /\ (j - 1) * Word + k \in 1 .. j * Word
         /\ (((j - 1) * Word + k) - 1) \div Word = j - 1
         /\ (((j - 1) * Word + k) - 1) % Word = k - 1
<1>1. CASE Word = 4
  BY <1>1
<1>2. CASE Word = 8
  BY <1>2
<1> QED
  BY <1>1, <1>2, StackSizesPositive

LEMMA IndexWord ==
  ASSUME NEW n \in Nat, NEW k \in 1 .. n * Word
  PROVE  \E j \in 1 .. n, i \in 1 .. Word : k = (j - 1) * Word + i
<1>1. PICK d, m : d = ((k - 1) \div Word) + 1 /\ m = ((k - 1) % Word) + 1
  OBVIOUS
<1>2. d \in 1 .. n /\ m \in 1 .. Word /\ k = (d - 1) * Word + m
  <2>1. CASE Word = 4
    BY <1>1, <2>1
  <2>2. CASE Word = 8
    BY <1>1, <2>2
  <2> QED
    BY <2>1, <2>2, StackSizesPositive
<1> QED
  BY <1>2

LEMMA WordsFacts ==
  ASSUME NEW vs, Len(vs) \in Nat
  PROVE  /\ Len(Words(vs)) = Len(vs) * Word /\ Len(vs) * Word \in Nat
         /\ \A j \in 1 .. Len(vs), k \in 1 .. Word : Words(vs)[(j - 1) * Word + k] = WordBytes(vs[j])[k]
<1>1. PICK n : n = Len(vs) /\ n \in Nat
  OBVIOUS
<1>2. n * Word \in Nat
  BY <1>1, StackSizesPositive
<1>3. Len(Words(vs)) = n * Word
  BY <1>1, <1>2 DEF Words
<1>4. ASSUME NEW j \in 1 .. n, NEW k \in 1 .. Word
      PROVE  Words(vs)[(j - 1) * Word + k] = WordBytes(vs[j])[k]
  <2>1. PICK i : i = (j - 1) * Word + k
    OBVIOUS
  <2>2. i \in 1 .. j * Word /\ (i - 1) \div Word = j - 1 /\ (i - 1) % Word = k - 1
    BY <1>1, <2>1, WordIndex
  <2>3. j * Word <= n * Word /\ j * Word \in Nat
    <3>1. CASE Word = 4
      BY <1>1, <3>1
    <3>2. CASE Word = 8
      BY <1>1, <3>2
    <3> QED
      BY <3>1, <3>2, StackSizesPositive
  <2>4. i \in 1 .. n * Word
    BY <1>2, <2>2, <2>3
  <2>5. Words(vs)[i] = <<"word", vs[(j - 1) + 1], (k - 1) + 1>>
    BY <1>1, <2>2, <2>4 DEF Words
  <2>6. (j - 1) + 1 = j /\ (k - 1) + 1 = k
    BY <1>1, StackSizesPositive
  <2>7. WordBytes(vs[j])[k] = <<"word", vs[j], k>>
    BY DEF WordBytes
  <2> QED
    BY <2>1, <2>5, <2>6, <2>7
<1> QED
  BY <1>1, <1>2, <1>3, <1>4

(* An array of words is in memory when each of its words is. *)
LEMMA WordsHeld ==
  ASSUME NEW m, NEW a \in Int, NEW vs, Len(vs) \in Nat
  PROVE  BytesIn(m, a, Words(vs)) <=> \A j \in 1 .. Len(vs) : BytesIn(m, a + (j - 1) * Word, WordBytes(vs[j]))
<1>1. PICK n : n = Len(vs) /\ n \in Nat
  OBVIOUS
<1>2. \A j \in 1 .. n : (j - 1) * Word \in Int
  BY <1>1, StackSizesPositive
<1>3. ASSUME BytesIn(m, a, Words(vs)), NEW j \in 1 .. n, NEW k \in 1 .. Word
      PROVE  /\ (a + (j - 1) * Word) + k - 1 \in DOMAIN m
             /\ m[(a + (j - 1) * Word) + k - 1] = WordBytes(vs[j])[k]
  <2>1. PICK i : i = (j - 1) * Word + k
    OBVIOUS
  <2>2. i \in 1 .. j * Word
    BY <1>1, <2>1, WordIndex
  <2>3. i \in 1 .. n * Word
    <3>1. CASE Word = 4
      BY <1>1, <2>2, <3>1
    <3>2. CASE Word = 8
      BY <1>1, <2>2, <3>2
    <3> QED
      BY <3>1, <3>2, StackSizesPositive
  <2>4. i \in 1 .. Len(Words(vs)) /\ Words(vs)[i] = WordBytes(vs[j])[k]
    BY <1>1, <2>1, <2>3, WordsFacts
  <2>5. a + i - 1 \in DOMAIN m /\ m[a + i - 1] = Words(vs)[i]
    BY <1>3, <2>4 DEF BytesIn
  <2>6. a + i - 1 = (a + (j - 1) * Word) + k - 1
    BY <1>2, <2>1, StackSizesPositive
  <2> QED
    BY <2>4, <2>5, <2>6
<1>4. ASSUME \A j \in 1 .. n : BytesIn(m, a + (j - 1) * Word, WordBytes(vs[j])), NEW i \in 1 .. Len(Words(vs))
      PROVE  a + i - 1 \in DOMAIN m /\ m[a + i - 1] = Words(vs)[i]
  <2>1. i \in 1 .. n * Word
    BY <1>1, WordsFacts
  <2>2. PICK j \in 1 .. n, k \in 1 .. Word : i = (j - 1) * Word + k
    BY <1>1, <2>1, IndexWord
  <2>3. Words(vs)[i] = WordBytes(vs[j])[k]
    BY <1>1, <2>2, WordsFacts
  <2>4. k \in 1 .. Len(WordBytes(vs[j]))
    BY BytesFacts
  <2>5. /\ (a + (j - 1) * Word) + k - 1 \in DOMAIN m
        /\ m[(a + (j - 1) * Word) + k - 1] = WordBytes(vs[j])[k]
    BY <1>4, <2>4 DEF BytesIn
  <2>6. a + i - 1 = (a + (j - 1) * Word) + k - 1
    BY <1>2, <2>2, StackSizesPositive
  <2> QED
    BY <2>3, <2>5, <2>6
<1>5. ASSUME BytesIn(m, a, Words(vs)), NEW j \in 1 .. n
      PROVE  BytesIn(m, a + (j - 1) * Word, WordBytes(vs[j]))
  BY <1>3, <1>5, BytesFacts DEF BytesIn
<1>6. ASSUME \A j \in 1 .. n : BytesIn(m, a + (j - 1) * Word, WordBytes(vs[j]))
      PROVE  BytesIn(m, a, Words(vs))
  BY <1>4, <1>6 DEF BytesIn
<1> QED
  BY <1>1, <1>5, <1>6

ArgvIn(m, a, lens) ==
  \A i \in 1 .. Len(lens) : \E p \in DOMAIN m :
     BytesIn(m, a + (i - 1) * Word, WordBytes(p)) /\ BytesIn(m, p, StringBytes(i, lens[i]))

(* Pointers to the strings, and the strings. *)
LEMMA ArgvRead ==
  ASSUME NEW m, NEW a \in Int, NEW vs, NEW lens, Len(lens) \in Nat, Len(vs) = Len(lens),
         \A i \in 1 .. Len(lens) : lens[i] \in Nat /\ vs[i] \in Int /\ BytesIn(m, vs[i], StringBytes(i, lens[i])),
         BytesIn(m, a, Words(vs))
  PROVE  ArgvIn(m, a, lens)
<1>1. ASSUME NEW i \in 1 .. Len(lens)
      PROVE  /\ vs[i] \in DOMAIN m /\ BytesIn(m, a + (i - 1) * Word, WordBytes(vs[i]))
             /\ BytesIn(m, vs[i], StringBytes(i, lens[i]))
  <2>1. PICK p, b, l : p = vs[i] /\ l = lens[i] /\ b = StringBytes(i, l) /\ p \in Int /\ l \in Nat /\ BytesIn(m, p, b)
    OBVIOUS
  <2>2. Len(b) = l + 1
    BY <2>1, BytesFacts
  <2>3. 1 \in 1 .. Len(b) /\ p + 1 - 1 = p
    BY <2>1, <2>2
  <2>4. p \in DOMAIN m
    BY <2>1, <2>3 DEF BytesIn
  <2>5. BytesIn(m, a + (i - 1) * Word, WordBytes(vs[i]))
    BY WordsHeld
  <2> QED
    BY <2>4, <2>1, <2>5
<1>2. ASSUME NEW i \in 1 .. Len(lens)
      PROVE  \E p \in DOMAIN m : BytesIn(m, a + (i - 1) * Word, WordBytes(p)) /\ BytesIn(m, p, StringBytes(i, lens[i]))
  <2>1. PICK p : p = vs[i]
    OBVIOUS
  <2> QED
    BY <1>1, <2>1
<1> QED
  BY <1>2 DEF ArgvIn

(* The stack that a process is given. *)
FreshStack(s) ==
  /\ IsStack(s) /\ s.err = FALSE /\ s.running = FALSE /\ s.argv = <<>> /\ DOMAIN s.mem = {}
  /\ s.sp = s.pages * StackPage /\ s.initial = s.pages * StackPage

Lens(q) == Len(q.args) \in Nat /\ \A i \in 1 .. Len(q.args) : q.args[i] \in Nat

(* The first word is reserved. *)
LEMMA FirstWord ==
  ASSUME NEW s, FreshStack(s), NEW f, f = [s EXCEPT !.sp = @ - Word]
  PROVE  IsStack(f) /\ Above(f) /\ f.argv = <<>> /\ f.err = FALSE /\ f.sp = s.sp - Word /\ f.pages = s.pages
<1>1. s.sp \in Int /\ IsStack(s)
  BY DEF FreshStack, IsStack
<1>2. PICK p : p = s.sp - Word
  OBVIOUS
<1>3. p \in Int /\ p <= s.sp
  BY <1>1, <1>2, StackSizesPositive
<1>4. f = [s EXCEPT !.sp = p]
  BY <1>1, <1>2 DEF IsStack
<1>5. Above(s)
  BY DEF FreshStack, Above
<1>6. IsStack(f) /\ Above(f) /\ f.sp = p /\ f.argv = s.argv /\ f.err = s.err /\ Grows(s, f)
  BY <1>1, <1>3, <1>4, <1>5, Lowered
<1> QED
  BY <1>2, <1>6 DEF FreshStack, Grows

(* sel4utils_spawn_process *)
LEMMA SpawnEffect ==
  ASSUME NEW s, FreshStack(s), NEW q, Lens(q), NEW r, r = spawn_process(s, q), ~r.err
  PROVE  ArgvIn(r.mem, r.arg1, q.args) /\ r.sp % StackAlign = 0 /\ Above(r)
<1> DEFINE Started(x) ==
             IF x.err THEN x
             ELSE [x EXCEPT !.sp = AlignDown(@ - Word, StackAlign),
                            !.initial = AlignDown(x.sp - Word, StackAlign), !.running = q.resume]
<1>1. PICK f : f = [s EXCEPT !.sp = @ - Word]
  OBVIOUS
<1>2. IsStack(f) /\ Above(f) /\ f.argv = <<>> /\ f.err = FALSE
  BY <1>1, FirstWord
<1>3. ASSUME NEW x, IsStack(x), NEW y, y = Started(x), ~y.err
      PROVE  ~x.err /\ y.mem = x.mem /\ y.arg1 = x.arg1 /\ y.sp % StackAlign = 0
             /\ (Above(x) => Above(y))
  <2>1. ~x.err
    BY <1>3
  <2>2. PICK b : b = x.sp - Word
    OBVIOUS
  <2>3. PICK p : p = AlignDown(b, StackAlign)
    OBVIOUS
  <2>4. b \in Int /\ b <= x.sp
    BY <1>3, <2>2, StackSizesPositive DEF IsStack
  <2>5. p \in Int /\ p <= b /\ p % StackAlign = 0
    BY <2>3, <2>4, StackSizesPositive, AlignFacts
  <2>7. y = [x EXCEPT !.sp = p, !.initial = p, !.running = q.resume]
    BY <1>3, <2>1, <2>2, <2>3 DEF IsStack
  <2>8. y.mem = x.mem /\ y.arg1 = x.arg1 /\ y.sp = p
    BY <1>3, <2>7 DEF IsStack
  <2>9. Above(x) => Above(y)
    <3>1. x.sp \in Int
      BY <1>3 DEF IsStack
    <3> QED
      BY <2>4, <2>5, <2>8, <3>1 DEF Above
  <2> QED
    BY <2>1, <2>5, <2>8, <2>9
<1>4. CASE q.args = <<>>
  <2>1. r = Started(f)
    BY <1>1, <1>4 DEF spawn_process
  <2> HIDE DEF Started
  <2>2. r.sp % StackAlign = 0 /\ Above(r)
    BY <1>2, <1>3, <2>1
  <2>3. Len(q.args) = 0
    BY <1>4
  <2> QED
    BY <2>2, <2>3 DEF ArgvIn
<1>5. CASE q.args # <<>>
  <2>1. PICK c : c = stack_copy_args(f, q.args)
    OBVIOUS
  <2>2. PICK w : w = stack_write(c, Words(c.argv))
    OBVIOUS
  <2>3. PICK x : x = [w EXCEPT !.arg1 = w.sp]
    OBVIOUS
  <2>4. r = Started(x)
    BY <1>1, <1>5, <2>1, <2>2, <2>3 DEF spawn_process
  <2>5. IsStack(c) /\ (~c.err => ~f.err /\ Above(c) /\ Grows(f, c) /\ Strings(c, q.args, Len(q.args)))
    BY <1>2, <2>1, CopyEffect DEF Lens
  <2>6. Len(c.argv) \in Nat /\ Len(Words(c.argv)) \in Nat
    <3>1. Len(c.argv) \in Nat
      BY <2>5 DEF IsStack
    <3> QED
      BY <3>1, WordsFacts
  <2>7a. Wrote(c, Words(c.argv), w)
    BY <2>2, <2>5, <2>6, WriteEffect
  <2>7. /\ IsStack(w)
        /\ ~w.err /\ Above(c) => w.argv = c.argv /\ Above(w) /\ Grows(c, w) /\ BytesIn(w.mem, w.sp, Words(c.argv))
    BY <2>7a DEF Wrote
  <2>8. c.err => w.err
    BY <2>7a DEF Wrote
  <2>9. IsStack(x) /\ x.err = w.err /\ x.mem = w.mem /\ x.sp = w.sp /\ x.arg1 = w.sp
    <3>1. /\ x.pages = w.pages /\ x.err = w.err /\ x.mem = w.mem /\ x.sp = w.sp /\ x.arg1 = w.sp /\ x.argv = w.argv
          /\ x = [pages |-> x.pages, refuse |-> x.refuse, sp |-> x.sp, initial |-> x.initial, mem |-> x.mem,
                  argv |-> x.argv, arg1 |-> x.arg1, tlsBase |-> x.tlsBase, running |-> x.running, err |-> x.err]
      BY <2>3, <2>7 DEF IsStack
    <3> QED
      BY <2>7, <3>1 DEF IsStack
  <2> HIDE DEF Started
  <2>10. ~x.err /\ r.mem = x.mem /\ r.arg1 = x.arg1 /\ r.sp % StackAlign = 0 /\ (Above(x) => Above(r))
    BY <1>3, <2>4, <2>9
  <2>11. ~w.err /\ ~c.err /\ Above(c) /\ Above(w) /\ Grows(c, w) /\ BytesIn(w.mem, w.sp, Words(c.argv))
    BY <2>5, <2>7, <2>8, <2>9, <2>10
  <2>12. Above(x)
    BY <2>9, <2>11 DEF Above
  <2>13. ASSUME NEW i \in 1 .. Len(q.args)
         PROVE  q.args[i] \in Nat /\ c.argv[i] \in Int /\ BytesIn(w.mem, c.argv[i], StringBytes(i, q.args[i]))
    <3>1. c.argv[i] \in Int /\ BytesIn(c.mem, c.argv[i], StringBytes(i, q.args[i]))
      BY <2>5, <2>11 DEF Strings
    <3>2. PICK a, b : a = c.argv[i] /\ b = StringBytes(i, q.args[i])
      OBVIOUS
    <3>3. BytesIn(w.mem, a, b)
      BY <2>11, <3>1, <3>2, HoldsGrows
    <3> QED
      BY <3>1, <3>2, <3>3 DEF Lens
  <2>14. Len(c.argv) = Len(q.args) /\ Len(q.args) \in Nat /\ w.sp \in Int
    BY <2>5, <2>7, <2>11 DEF Strings, Lens, IsStack
  <2>15. PICK m, a, vs, lens : m = w.mem /\ a = w.sp /\ vs = c.argv /\ lens = q.args
    OBVIOUS
  <2>16. ArgvIn(m, a, lens)
    BY <2>11, <2>13, <2>14, <2>15, ArgvRead
  <2> QED
    BY <2>9, <2>10, <2>12, <2>15, <2>16
<1> QED
  BY <1>4, <1>5

(* The auxiliary vector has the same length wherever the headers are. *)
LEMMA AuxvFacts ==
  ASSUME NEW p \in Int, NEW q, q.phdrs \in Nat
  PROVE  /\ Auxv(p, q) \in Seq(Int) /\ Len(Auxv(p, q)) \in Nat
         /\ Len(Auxv(p, q)) = IF q.sysinfo THEN 14 ELSE 12
<1>1. PICK n, a, b : n = q.phdrs /\ a = StackPage /\ b = PhdrBytes /\ n \in Int /\ a \in Int /\ b \in Int
  BY StackSizesPositive
<1>2. PICK x : x = <<AT_PAGESZ, a, AT_PHDR, p, AT_PHNUM, n, AT_PHENT, b,
                     AT_SEL4_IPC_BUFFER_PTR, 7, AT_SEL4_TCB, 5>>
  OBVIOUS
<1>3. x \in Seq(Int) /\ Len(x) = 12
  BY <1>1, <1>2 DEF AT_PAGESZ, AT_PHDR, AT_PHNUM, AT_PHENT, AT_SEL4_IPC_BUFFER_PTR, AT_SEL4_TCB
<1>4. PICK y : y = IF q.sysinfo THEN <<AT_SYSINFO, 9>> ELSE <<>>
  OBVIOUS
<1>5. y \in Seq(Int) /\ Len(y) = IF q.sysinfo THEN 2 ELSE 0
  BY <1>4 DEF AT_SYSINFO
<1>6. Auxv(p, q) = x \o y
  BY <1>1, <1>2, <1>4 DEF Auxv
<1>7. x \o y \in Seq(Int) /\ Len(x \o y) = Len(x) + Len(y)
  <2>1. x \in Seq(Int) /\ y \in Seq(Int)
    BY <1>3, <1>5
  <2> QED
    BY <2>1, ConcatProperties
<1> QED
  BY <1>3, <1>5, <1>6, <1>7

(* A word written, or an array of them. *)
LEMMA WordWritten ==
  ASSUME NEW s, IsStack(s), NEW v, NEW r, r = stack_write_constant(s, v)
  PROVE  /\ IsStack(r)
         /\ ~r.err => ~s.err
         /\ ~r.err /\ Above(s) => /\ r.sp = s.sp - Word /\ r.argv = s.argv /\ Above(r) /\ Grows(s, r)
                                  /\ BytesIn(r.mem, r.sp, WordBytes(v))
<1>1. PICK b : b = WordBytes(v)
  OBVIOUS
<1>2. Len(b) = Word /\ Len(b) \in Nat
  BY <1>1, BytesFacts, StackSizesPositive
<1>3. r = stack_write(s, b)
  BY ONLY <1>1, r = stack_write_constant(s, v) DEF stack_write_constant
<1>4. Wrote(s, b, r)
  BY <1>2, <1>3, WriteEffect
<1> QED
  BY <1>1, <1>2, <1>4 DEF Wrote

LEMMA WordsWritten ==
  ASSUME NEW s, IsStack(s), NEW vs, Len(vs) \in Nat, NEW r, r = stack_write(s, Words(vs))
  PROVE  /\ IsStack(r)
         /\ ~r.err => ~s.err
         /\ ~r.err /\ Above(s) => /\ r.sp = s.sp - Len(vs) * Word /\ r.argv = s.argv /\ Above(r) /\ Grows(s, r)
                                  /\ BytesIn(r.mem, r.sp, Words(vs))
<1>1. PICK b : b = Words(vs)
  OBVIOUS
<1>2. Len(Words(vs)) = Len(vs) * Word /\ Len(vs) * Word \in Nat
  BY ONLY Len(vs) \in Nat, WordsFacts
<1>3. PICK n : n = Len(vs) * Word
  OBVIOUS
<1>4. Len(b) = n /\ Len(b) \in Nat
  BY <1>1, <1>2, <1>3
<1>5. r = stack_write(s, b)
  BY <1>1
<1>6. Wrote(s, b, r)
  BY <1>4, <1>5, WriteEffect
<1> QED
  BY <1>1, <1>3, <1>4, <1>6 DEF Wrote

(* Two zero words. *)
LEMMA ZerosWritten ==
  ASSUME NEW s, IsStack(s), NEW r, r = stack_write_constant(stack_write_constant(s, 0), 0)
  PROVE  /\ IsStack(r)
         /\ ~r.err => ~s.err
         /\ ~r.err /\ Above(s) => /\ r.sp = s.sp - 2 * Word /\ r.argv = s.argv /\ Above(r) /\ Grows(s, r)
                                  /\ BytesIn(r.mem, r.sp, WordBytes(0)) /\ BytesIn(r.mem, r.sp + Word, WordBytes(0))
<1>1. PICK v, t : v = 0 /\ t = stack_write_constant(s, v)
  OBVIOUS
<1>2. /\ IsStack(t)
      /\ ~t.err => ~s.err
      /\ ~t.err /\ Above(s) => /\ t.sp = s.sp - Word /\ t.argv = s.argv /\ Above(t) /\ Grows(s, t)
                               /\ BytesIn(t.mem, t.sp, WordBytes(v))
  BY <1>1, WordWritten
<1>3. r = stack_write_constant(t, v)
  BY <1>1
<1>4. /\ IsStack(r)
      /\ ~r.err => ~t.err
      /\ ~r.err /\ Above(t) => /\ r.sp = t.sp - Word /\ r.argv = t.argv /\ Above(r) /\ Grows(t, r)
                               /\ BytesIn(r.mem, r.sp, WordBytes(v))
  BY <1>2, <1>3, WordWritten
<1>5. ASSUME ~r.err, Above(s)
      PROVE  /\ r.sp = s.sp - 2 * Word /\ r.argv = s.argv /\ Above(r) /\ Grows(s, r)
             /\ BytesIn(r.mem, r.sp, WordBytes(0)) /\ BytesIn(r.mem, r.sp + Word, WordBytes(0))
  <2>1. s.sp \in Int /\ t.sp = s.sp - Word /\ r.sp = t.sp - Word
    BY <1>2, <1>4, <1>5 DEF IsStack
  <2>2. r.sp = s.sp - 2 * Word /\ r.sp + Word = t.sp
    BY <2>1, StackSizesPositive
  <2>3. Grows(s, r)
    BY <1>2, <1>4, <1>5, GrowsTwice
  <2>4. PICK a, b : a = t.sp /\ b = WordBytes(v)
    OBVIOUS
  <2>5. BytesIn(r.mem, a, b)
    BY <1>2, <1>4, <1>5, <2>4, HoldsGrows
  <2> QED
    BY <1>1, <1>2, <1>4, <1>5, <2>2, <2>3, <2>4, <2>5
<1> QED
  BY <1>2, <1>4, <1>5

(* A zero-terminated vector. *)
LEMMA Terminated ==
  ASSUME NEW m, NEW a \in Int, NEW vs \in Seq(Int), NEW b, b = a + Len(vs) * Word,
         BytesIn(m, a, Words(vs)), BytesIn(m, b, WordBytes(0)), BytesIn(m, b + Word, WordBytes(0))
  PROVE  BytesIn(m, a, Words(vs \o <<0, 0>>))
<1>1. PICK n : n = Len(vs) /\ n \in Nat
  OBVIOUS
<1>2. PICK us : us = vs \o <<0, 0>>
  OBVIOUS
<1>3. /\ Len(us) = n + 2 /\ us[n + 1] = 0 /\ us[n + 2] = 0
      /\ \A j \in 1 .. n : us[j] = vs[j]
  BY <1>1, <1>2
<1>4. ASSUME NEW j \in 1 .. n + 2
      PROVE  BytesIn(m, a + (j - 1) * Word, WordBytes(us[j]))
  <2>1. CASE j \in 1 .. n
    <3>1. BytesIn(m, a + (j - 1) * Word, WordBytes(vs[j]))
      BY <1>1, <2>1, WordsHeld
    <3> QED
      BY <1>3, <2>1, <3>1
  <2>2. CASE j = n + 1
    <3>1. a + (j - 1) * Word = b
      BY <1>1, <2>2
    <3> QED
      BY <1>3, <2>2, <3>1
  <2>3. CASE j = n + 2
    <3>1. (n + 1) * Word = n * Word + Word /\ n * Word \in Int
      BY <1>1, StackSizesPositive
    <3>2. a + (j - 1) * Word = b + Word
      BY <1>1, <2>3, <3>1, StackSizesPositive
    <3> QED
      BY <1>3, <2>3, <3>2
  <2> QED
    BY <1>1, <2>1, <2>2, <2>3
<1>5. Len(us) \in Nat /\ Len(us) = n + 2
  BY <1>1, <1>3
<1>6. BytesIn(m, a, Words(us))
  BY <1>4, <1>5, WordsHeld
<1> QED
  BY <1>2, <1>6

LEMMA TwoZeros ==
  ASSUME NEW m, NEW a \in Int, BytesIn(m, a, WordBytes(0)), BytesIn(m, a + Word, WordBytes(0))
  PROVE  BytesIn(m, a, Words(<<0, 0>>))
<1>1. PICK us : us = <<0, 0>>
  OBVIOUS
<1>2. Len(us) = 2 /\ us[1] = 0 /\ us[2] = 0
  BY <1>1
<1>3. a + (1 - 1) * Word = a /\ a + (2 - 1) * Word = a + Word
  BY StackSizesPositive
<1>4. ASSUME NEW j \in 1 .. 2
      PROVE  BytesIn(m, a + (j - 1) * Word, WordBytes(us[j]))
  <2>1. CASE j = 1
    BY <1>2, <1>3, <2>1
  <2>2. CASE j = 2
    BY <1>2, <1>3, <2>2
  <2> QED
    BY <2>1, <2>2
<1>5. Len(us) \in Nat
  BY <1>2
<1>6. BytesIn(m, a, Words(us))
  BY <1>2, <1>4, <1>5, WordsHeld
<1> QED
  BY <1>1, <1>6

(* The rounding keeps the stack pointer aligned after the rest of the frame. *)
LEMMA RoundingEffect ==
  ASSUME NEW s, IsStack(s), NEW q, q.phdrs \in Nat, NEW r, r = StackRounding(s, q), NEW p \in Int
  PROVE  /\ IsStack(r) /\ r.err = s.err /\ r.argv = s.argv
         /\ (r.sp - (5 * Word + Len(Auxv(p, q)) * Word + Len(s.argv) * Word)) % StackAlign = 0
         /\ Above(s) => Above(r) /\ Grows(s, r)
<1>1. PICK z : z = 0 /\ z \in Int
  OBVIOUS
<1>2. Len(Auxv(z, q)) = Len(Auxv(p, q)) /\ Len(Auxv(p, q)) \in Nat
  BY <1>1, AuxvFacts
<1>3a. PICK l, n : l = Len(Auxv(p, q)) /\ n = Len(s.argv)
  OBVIOUS
<1>3. l = Len(Auxv(p, q)) /\ n = Len(s.argv) /\ l \in Nat /\ n \in Nat
  BY <1>2, <1>3a DEF IsStack
<1>4a. PICK push : push = 5 * Word + l * Word + n * Word
  OBVIOUS
<1>4. push = 5 * Word + l * Word + n * Word /\ push \in Nat
  <2>1. PICK a, b, e : a = 5 * Word /\ b = l * Word /\ e = n * Word
    OBVIOUS
  <2>2. a \in Nat /\ b \in Nat /\ e \in Nat
    BY <1>3, <2>1, StackSizesPositive
  <2>3. push = a + b + e
    BY <1>4a, <2>1
  <2> QED
    BY <1>4a, <2>2, <2>3
<1>5. PICK a : a = s.sp - push
  OBVIOUS
<1>6. a \in Int /\ s.sp \in Int
  BY <1>4, <1>5 DEF IsStack
<1>7. PICK m : m = a % StackAlign
  OBVIOUS
<1>8. m \in Int /\ m >= 0
  BY <1>6, <1>7, StackSizesPositive
<1>9. PICK d : d = s.sp - m
  OBVIOUS
<1>10. d \in Int /\ d <= s.sp /\ d - push = a - m
  BY <1>4, <1>5, <1>6, <1>8, <1>9
<1>11. r = [s EXCEPT !.sp = d]
  <2>1. PICK lz : lz = Len(Auxv(0, q))
    OBVIOUS
  <2>2. lz = l
    BY <1>1, <1>2, <1>3, <2>1
  <2>3. r = [s EXCEPT !.sp = @ - ((@ - (5 * Word + lz * Word + n * Word)) % StackAlign)]
    BY <1>3, <2>1 DEF StackRounding
  <2> QED
    BY <1>4, <1>5, <1>7, <1>9, <2>2, <2>3 DEF IsStack
<1>12. (d - push) % StackAlign = 0
  <2>1. a - m = AlignDown(a, StackAlign)
    BY <1>7 DEF AlignDown
  <2> QED
    BY <1>6, <1>10, <2>1, AlignFacts, StackSizesPositive
<1>13. IsStack(r) /\ r.err = s.err /\ r.argv = s.argv /\ r.sp = d
  BY <1>10, <1>11 DEF IsStack
<1>14. Above(s) => Above(r) /\ Grows(s, r)
  BY <1>10, <1>11, Lowered
<1> QED
  BY <1>3, <1>4, <1>12, <1>13, <1>14

(* What _start reads. *)
Frame(r, q) ==
  LET n == Len(q.args)
      env == r.sp + (n + 1) * Word
  IN /\ BytesIn(r.mem, r.sp, WordBytes(n)) /\ ArgvIn(r.mem, r.sp + Word, q.args)
     /\ BytesIn(r.mem, env, Words(<<0, 0>>))
     /\ \E p \in 0 .. r.pages * StackPage :
          /\ BytesIn(r.mem, env + 2 * Word, Words(Auxv(p, q) \o <<0, 0>>))
          /\ BytesIn(r.mem, p, PhdrsBytes(q.phdrs))
     /\ r.sp % (2 * Word) = 0

(* The program headers and the strings. *)
LEMMA HeadersAndStrings ==
  ASSUME NEW s, FreshStack(s), NEW q, Lens(q), q.phdrs \in Nat,
         NEW h, h = stack_write([s EXCEPT !.sp = @ - Word], PhdrsBytes(q.phdrs)),
         NEW c, c = stack_copy_args(h, q.args)
  PROVE  /\ IsStack(h) /\ IsStack(c)
         /\ ~c.err => /\ Above(c) /\ Grows(h, c) /\ Strings(c, q.args, Len(q.args))
                      /\ h.sp \in 0 .. s.pages * StackPage /\ h.pages = s.pages
                      /\ BytesIn(c.mem, h.sp, PhdrsBytes(q.phdrs))
<1>1. PICK f : f = [s EXCEPT !.sp = @ - Word]
  OBVIOUS
<1>2. IsStack(f) /\ Above(f) /\ f.argv = <<>> /\ f.err = FALSE /\ f.sp = s.sp - Word /\ f.pages = s.pages
  BY <1>1, FirstWord
<1>3. PICK b : b = PhdrsBytes(q.phdrs)
  OBVIOUS
<1>4. Len(b) \in Nat
  BY <1>3, BytesFacts
<1>5. h = stack_write(f, b)
  BY <1>1, <1>3
<1>6. /\ IsStack(h)
      /\ ~h.err => h.sp = f.sp - Len(b) /\ (Len(b) > 0 => h.sp >= 0) /\ h.argv = <<>> /\ Above(h) /\ Grows(f, h)
                   /\ BytesIn(h.mem, h.sp, b)
  <2>1. Wrote(f, b, h)
    BY <1>2, <1>4, <1>5, WriteEffect
  <2> QED
    BY <1>2, <2>1 DEF Wrote
<1>7. /\ IsStack(c)
      /\ ~c.err => ~h.err /\ Above(c) /\ Grows(h, c) /\ Strings(c, q.args, Len(q.args))
  BY <1>6, CopyEffect DEF Lens
<1>8. ASSUME ~c.err
      PROVE  /\ h.sp \in 0 .. s.pages * StackPage /\ h.pages = s.pages
             /\ BytesIn(c.mem, h.sp, b)
  <2>1. s.pages * StackPage \in Nat /\ s.pages * StackPage >= StackPage
    BY StackSizesPositive DEF FreshStack, IsStack
  <2>2. StackPage >= Word
    BY ProcessStackAssumption
  <2>3. h.sp \in 0 .. s.pages * StackPage
    BY <1>2, <1>4, <1>6, <1>7, <1>8, <2>1, <2>2, StackSizesPositive DEF FreshStack
  <2>4. PICK a : a = h.sp
    OBVIOUS
  <2>5. BytesIn(c.mem, a, b)
    BY <1>6, <1>7, <1>8, <2>4, HoldsGrows
  <2> QED
    BY <1>2, <1>6, <1>7, <1>8, <2>3, <2>4, <2>5 DEF Grows
<1> QED
  BY <1>3, <1>6, <1>7, <1>8

(* sel4utils_spawn_process_v *)
LEMMA SpawnvEffect ==
  ASSUME NEW s, FreshStack(s), NEW q, Lens(q), q.phdrs \in Nat,
         NEW r, r = spawn_process_v(s, q), ~r.err
  PROVE  Frame(r, q)
<1> DEFINE Started(x) == IF x.err THEN x ELSE [x EXCEPT !.initial = x.sp, !.running = q.resume]
           Twice(t) == stack_write_constant(stack_write_constant(t, 0), 0)
<1>1. PICK h : h = stack_write([s EXCEPT !.sp = @ - Word], PhdrsBytes(q.phdrs))
  OBVIOUS
<1>2. PICK c : c = stack_copy_args(h, q.args)
  OBVIOUS
<1>3. PICK o : o = StackRounding(c, q)
  OBVIOUS
<1>4. PICK z : z = Twice(o)
  OBVIOUS
<1>5. PICK x : x = stack_write(z, Words(Auxv(h.sp, q)))
  OBVIOUS
<1>6. PICK y : y = Twice(x)
  OBVIOUS
<1>7. PICK v : v = stack_write(y, Words(y.argv))
  OBVIOUS
<1>8. PICK g : g = stack_write_constant(v, Len(q.args))
  OBVIOUS
<1>9. r = Started(g)
  BY <1>1, <1>2, <1>3, <1>4, <1>5, <1>6, <1>7, <1>8 DEF spawn_process_v
<1>10. /\ IsStack(h) /\ IsStack(c)
       /\ ~c.err => /\ Above(c) /\ Grows(h, c) /\ Strings(c, q.args, Len(q.args))
                    /\ h.sp \in 0 .. s.pages * StackPage /\ h.pages = s.pages
                    /\ BytesIn(c.mem, h.sp, PhdrsBytes(q.phdrs))
  BY <1>1, <1>2, HeadersAndStrings
<1>11. PICK p : p = h.sp
  OBVIOUS
<1>12. p \in Int
  BY <1>10, <1>11 DEF IsStack
<1>13. PICK aux : aux = Auxv(p, q)
  OBVIOUS
<1>14. aux \in Seq(Int) /\ Len(aux) \in Nat
  BY <1>12, <1>13, AuxvFacts
<1>15. /\ IsStack(o) /\ o.err = c.err /\ o.argv = c.argv
       /\ (o.sp - (5 * Word + Len(aux) * Word + Len(c.argv) * Word)) % StackAlign = 0
       /\ Above(c) => Above(o) /\ Grows(c, o)
  BY <1>3, <1>10, <1>12, <1>13, RoundingEffect
<1>16. /\ IsStack(z)
       /\ ~z.err => ~o.err
       /\ ~z.err /\ Above(o) => /\ z.sp = o.sp - 2 * Word /\ z.argv = o.argv /\ Above(z) /\ Grows(o, z)
                                /\ BytesIn(z.mem, z.sp, WordBytes(0)) /\ BytesIn(z.mem, z.sp + Word, WordBytes(0))
  BY <1>4, <1>15, ZerosWritten
<1>17. /\ IsStack(x)
       /\ ~x.err => ~z.err
       /\ ~x.err /\ Above(z) => /\ x.sp = z.sp - Len(aux) * Word /\ x.argv = z.argv /\ Above(x) /\ Grows(z, x)
                                /\ BytesIn(x.mem, x.sp, Words(aux))
  BY <1>5, <1>11, <1>13, <1>14, <1>16, WordsWritten
<1>18. /\ IsStack(y)
       /\ ~y.err => ~x.err
       /\ ~y.err /\ Above(x) => /\ y.sp = x.sp - 2 * Word /\ y.argv = x.argv /\ Above(y) /\ Grows(x, y)
                                /\ BytesIn(y.mem, y.sp, WordBytes(0)) /\ BytesIn(y.mem, y.sp + Word, WordBytes(0))
  BY <1>6, <1>17, ZerosWritten
<1>19. PICK vs : vs = y.argv
  OBVIOUS
<1>20. Len(vs) \in Nat
  BY <1>18, <1>19 DEF IsStack
<1>21. /\ IsStack(v)
       /\ ~v.err => ~y.err
       /\ ~v.err /\ Above(y) => /\ v.sp = y.sp - Len(vs) * Word /\ v.argv = y.argv /\ Above(v) /\ Grows(y, v)
                                /\ BytesIn(v.mem, v.sp, Words(vs))
  BY <1>7, <1>18, <1>19, <1>20, WordsWritten
<1>22. PICK n : n = Len(q.args)
  OBVIOUS
<1>23. /\ IsStack(g)
       /\ ~g.err => ~v.err
       /\ ~g.err /\ Above(v) => /\ g.sp = v.sp - Word /\ g.argv = v.argv /\ Above(g) /\ Grows(v, g)
                                /\ BytesIn(g.mem, g.sp, WordBytes(n))
  BY <1>8, <1>21, <1>22, WordWritten
<1>24. ~g.err /\ r.mem = g.mem /\ r.sp = g.sp /\ r.pages = g.pages
  <2>1. ~g.err
    BY <1>9
  <2>2. r = [g EXCEPT !.initial = g.sp, !.running = q.resume]
    BY <1>9, <2>1
  <2> QED
    BY <1>23, <2>1, <2>2 DEF IsStack
<1> HIDE DEF Started, Twice
<1>25. ~c.err /\ ~o.err /\ ~z.err /\ ~x.err /\ ~y.err /\ ~v.err
  BY <1>15, <1>16, <1>17, <1>18, <1>21, <1>23, <1>24
<1>26. Above(c) /\ Above(o) /\ Above(z) /\ Above(x) /\ Above(y) /\ Above(v)
  BY <1>10, <1>15, <1>16, <1>17, <1>18, <1>21, <1>25
<1>27. Grows(v, g) /\ Grows(y, g) /\ Grows(x, g) /\ Grows(z, g) /\ Grows(o, g) /\ Grows(c, g) /\ Grows(h, g)
  <2>1. Grows(v, g)
    BY <1>23, <1>24, <1>26
  <2>2. Grows(y, g)
    BY <1>18, <1>21, <1>23, <1>25, <1>26, <2>1, GrowsTwice
  <2>3. Grows(x, g)
    BY <1>17, <1>18, <1>23, <1>25, <1>26, <2>2, GrowsTwice
  <2>4. Grows(z, g)
    BY <1>16, <1>17, <1>23, <1>25, <1>26, <2>3, GrowsTwice
  <2>5. Grows(o, g)
    BY <1>15, <1>16, <1>23, <1>25, <1>26, <2>4, GrowsTwice
  <2>6. Grows(c, g)
    BY <1>10, <1>15, <1>23, <1>25, <1>26, <2>5, GrowsTwice
  <2>7. Grows(h, g)
    BY <1>10, <1>23, <1>25, <2>6, GrowsTwice
  <2> QED
    BY <2>1, <2>2, <2>3, <2>4, <2>5, <2>6, <2>7
<1>28. n \in Nat /\ Len(vs) = n /\ vs = c.argv /\ r.pages = s.pages
  <2>1. vs = c.argv
    BY <1>15, <1>16, <1>17, <1>18, <1>19, <1>25, <1>26
  <2>2. Len(c.argv) = n
    BY <1>10, <1>22, <1>25 DEF Strings
  <2>3. g.pages = h.pages /\ h.pages = s.pages
    BY <1>10, <1>25, <1>27 DEF Grows
  <2> QED
    BY <1>22, <1>24, <2>1, <2>2, <2>3 DEF Lens
<1>29. PICK sp, la, na : sp = g.sp /\ la = Len(aux) * Word /\ na = n * Word
  OBVIOUS
<1>30. /\ sp \in Int /\ la \in Nat /\ na \in Nat
       /\ v.sp = sp + Word /\ y.sp = sp + Word + na /\ x.sp = sp + Word + na + 2 * Word
       /\ z.sp = sp + Word + na + 2 * Word + la /\ o.sp - (5 * Word + la + na) = sp
       /\ (n + 1) * Word = Word + na
  <2>1. sp \in Int
    BY <1>23, <1>29 DEF IsStack
  <2>2. la \in Nat /\ na \in Nat
    BY <1>14, <1>28, <1>29, StackSizesPositive
  <2>3. sp = v.sp - Word /\ v.sp = y.sp - na /\ y.sp = x.sp - 2 * Word /\ x.sp = z.sp - la /\ z.sp = o.sp - 2 * Word
    BY <1>16, <1>17, <1>18, <1>21, <1>23, <1>24, <1>25, <1>26, <1>28, <1>29
  <2>4. v.sp \in Int /\ y.sp \in Int /\ x.sp \in Int /\ z.sp \in Int /\ o.sp \in Int
    BY <1>15, <1>16, <1>17, <1>18, <1>21 DEF IsStack
  <2>5. v.sp = sp + Word /\ y.sp = sp + Word + na /\ x.sp = sp + Word + na + 2 * Word
    BY <2>1, <2>2, <2>3, <2>4, StackSizesPositive
  <2>6. z.sp = sp + Word + na + 2 * Word + la
    BY <2>1, <2>2, <2>3, <2>4, <2>5, StackSizesPositive
  <2>7. o.sp - (5 * Word + la + na) = sp
    <3>1. CASE Word = 4
      BY <2>1, <2>2, <2>3, <2>4, <2>6, <3>1
    <3>2. CASE Word = 8
      BY <2>1, <2>2, <2>3, <2>4, <2>6, <3>2
    <3> QED
      BY <3>1, <3>2, StackSizesPositive
  <2>8. (n + 1) * Word = Word + na
    BY <1>28, <1>29, StackSizesPositive
  <2> QED
    BY <2>1, <2>2, <2>5, <2>6, <2>7, <2>8
<1>31. sp % (2 * Word) = 0
  <2>1. sp % StackAlign = 0
    BY <1>15, <1>28, <1>29, <1>30
  <2>2. StackAlign % (2 * Word) = 0
    BY ProcessStackAssumption
  <2>3. PICK i, j, w : i = sp \div StackAlign /\ w = 2 * Word /\ j = StackAlign \div w
    OBVIOUS
  <2>4. w \in Nat \ {0} /\ i \in Int /\ j \in Int
    BY <1>30, <2>3, StackSizesPositive
  <2>5. sp = StackAlign * i
    BY <1>30, <2>1, <2>3, StackSizesPositive
  <2>6. StackAlign = w * j
    BY <2>2, <2>3, <2>4, StackSizesPositive
  <2>7. PICK k : k = j * i
    OBVIOUS
  <2>8. k \in Int /\ sp = w * k
    BY <2>4, <2>5, <2>6, <2>7
  <2>9. (w * k) % w = 0
    BY <2>4, <2>8
  <2> QED
    BY <2>3, <2>8, <2>9
<1>32. PICK m, env : m = g.mem /\ env = sp + (n + 1) * Word
  OBVIOUS
<1>33. env \in Int /\ y.sp = env /\ x.sp = env + 2 * Word /\ z.sp = (env + 2 * Word) + la /\ v.sp = sp + Word
  BY <1>30, <1>32, StackSizesPositive
<1>34. BytesIn(m, sp, WordBytes(n))
  BY <1>23, <1>24, <1>26, <1>29, <1>32
<1>35. ArgvIn(m, sp + Word, q.args)
  <2>1. PICK a, ws : a = v.sp /\ ws = Words(vs)
    OBVIOUS
  <2>2. BytesIn(m, a, ws)
    BY <1>21, <1>25, <1>26, <1>27, <1>32, <2>1, HoldsGrows
  <2>3. ASSUME NEW i \in 1 .. Len(q.args)
        PROVE  q.args[i] \in Nat /\ vs[i] \in Int /\ BytesIn(m, vs[i], StringBytes(i, q.args[i]))
    <3>1. vs[i] \in Int /\ BytesIn(c.mem, vs[i], StringBytes(i, q.args[i]))
      BY <1>10, <1>25, <1>28 DEF Strings
    <3>2. PICK e, b : e = vs[i] /\ b = StringBytes(i, q.args[i])
      OBVIOUS
    <3>3. BytesIn(m, e, b)
      BY <1>27, <1>32, <3>1, <3>2, HoldsGrows
    <3> QED
      BY <3>1, <3>2, <3>3 DEF Lens
  <2>4. PICK lens : lens = q.args
    OBVIOUS
  <2>5. a \in Int /\ Len(lens) \in Nat /\ Len(vs) = Len(lens) /\ BytesIn(m, a, Words(vs))
    BY <1>22, <1>28, <1>30, <1>33, <2>1, <2>2, <2>4, StackSizesPositive
  <2>6. ArgvIn(m, a, lens)
    BY <2>3, <2>4, <2>5, ArgvRead
  <2> QED
    BY <1>33, <2>1, <2>4, <2>6
<1>36. BytesIn(m, env, Words(<<0, 0>>))
  <2>1. PICK a, b, e : a = env /\ b = env + Word /\ e = WordBytes(0)
    OBVIOUS
  <2>2. BytesIn(y.mem, a, e) /\ BytesIn(y.mem, b, e)
    BY <1>18, <1>25, <1>26, <1>33, <2>1
  <2>3. BytesIn(m, a, e) /\ BytesIn(m, b, e)
    BY <1>27, <1>32, <2>2, HoldsGrows
  <2> QED
    BY <1>33, <2>1, <2>3, TwoZeros
<1>37. BytesIn(m, env + 2 * Word, Words(aux \o <<0, 0>>))
  <2>1. PICK a, b, d, e, ws : a = env + 2 * Word /\ b = z.sp /\ d = b + Word /\ e = WordBytes(0) /\ ws = Words(aux)
    OBVIOUS
  <2>2. BytesIn(x.mem, a, ws) /\ BytesIn(z.mem, b, e) /\ BytesIn(z.mem, d, e)
    BY <1>16, <1>17, <1>25, <1>26, <1>33, <2>1
  <2>3. BytesIn(m, a, ws) /\ BytesIn(m, b, e) /\ BytesIn(m, d, e)
    BY <1>27, <1>32, <2>2, HoldsGrows
  <2>4. a \in Int /\ b = a + Len(aux) * Word
    BY <1>29, <1>33, <2>1, StackSizesPositive
  <2>5. BytesIn(m, a, Words(aux \o <<0, 0>>))
    BY <1>14, <2>1, <2>3, <2>4, Terminated
  <2> QED
    BY <2>1, <2>5
<1>38. BytesIn(m, p, PhdrsBytes(q.phdrs)) /\ p \in 0 .. r.pages * StackPage
  <2>1. PICK b : b = PhdrsBytes(q.phdrs)
    OBVIOUS
  <2>2. BytesIn(c.mem, p, b)
    BY <1>10, <1>11, <1>25, <2>1
  <2>3. BytesIn(m, p, b)
    BY <1>27, <1>32, <2>2, HoldsGrows
  <2> QED
    BY <1>10, <1>11, <1>25, <1>28, <2>1, <2>3
<1>39. r.mem = m /\ r.sp = sp /\ Len(q.args) = n /\ r.sp + (Len(q.args) + 1) * Word = env
  BY <1>22, <1>24, <1>29, <1>32
<1> QED
  BY <1>13, <1>31, <1>34, <1>35, <1>36, <1>37, <1>38, <1>39 DEF Frame

(* sel4utils_start_thread *)
LEMMA StartEffect ==
  ASSUME NEW s, FreshStack(s), NEW q, q.tls \in Nat, NEW r, r = start_thread(s, q), ~r.err
  PROVE  r.tlsBase = r.initial - q.tls /\ r.sp \in 1 .. r.tlsBase
<1>1. PICK base : base = s.initial - q.tls
  OBVIOUS
<1>2. PICK M, p : /\ M = Written(s.mem, [a \in base .. s.initial - 1 |-> <<"tls", 0, a - base>>])
                  /\ p = AlignDown(base, StackAlign)
  OBVIOUS
<1>3. PICK w : w = [s EXCEPT !.mem = M]
  OBVIOUS
<1>4. PICK u : u = [w EXCEPT !.sp = p]
  OBVIOUS
<1>5. PICK t : t = [u EXCEPT !.tlsBase = base]
  OBVIOUS
<1>6. PICK room : room = ((s.pages * StackPage) \div 8)
  OBVIOUS
<1>7. r = IF q.tls > room THEN [s EXCEPT !.err = TRUE]
          ELSE IF q.refused = "WriteRegisters" THEN [w EXCEPT !.err = TRUE]
          ELSE IF q.refused = "SetTLSBase" THEN [u EXCEPT !.err = TRUE]
          ELSE IF q.resume /\ q.refused = "Resume" THEN [t EXCEPT !.err = TRUE]
          ELSE [t EXCEPT !.running = q.resume]
  <2>1. w = [s EXCEPT !.mem = Written(@, [a \in base .. s.initial - 1 |-> <<"tls", 0, a - base>>])]
    BY <1>2, <1>3 DEF FreshStack, IsStack
  <2>2. u = [w EXCEPT !.sp = AlignDown(base, StackAlign)]
    BY <1>2, <1>4
  <2> QED
    BY <1>1, <1>5, <1>6, <2>1, <2>2 DEF start_thread
<1>8. IsStack(s)
  BY DEF FreshStack
<1>9. w.err = FALSE /\ u.err = FALSE /\ t.err = FALSE
  BY <1>3, <1>4, <1>5, <1>8 DEF IsStack, FreshStack
<1>10. q.tls <= room /\ r = [t EXCEPT !.running = q.resume]
  <2>1. s.pages * StackPage \in Int
    BY <1>8, StackSizesPositive DEF IsStack
  <2>2. room \in Int
    BY <1>6, <2>1
  <2>3. [s EXCEPT !.err = TRUE].err = TRUE /\ [w EXCEPT !.err = TRUE].err = TRUE
        /\ [u EXCEPT !.err = TRUE].err = TRUE /\ [t EXCEPT !.err = TRUE].err = TRUE
    BY <1>3, <1>4, <1>5, <1>8 DEF IsStack
  <2>4. ~(q.tls > room)
    BY <1>7, <2>3
  <2>5. r = [t EXCEPT !.running = q.resume]
    BY <1>7, <2>3, <2>4
  <2> QED
    BY <2>2, <2>4, <2>5
<1>11. r.tlsBase = base /\ r.initial = s.initial /\ r.sp = p
  BY <1>3, <1>4, <1>5, <1>8, <1>10 DEF IsStack
<1>12. PICK T : T = s.pages * StackPage
  OBVIOUS
<1>13. T \in Nat /\ T >= 2 * StackAlign
  <2>1. s.pages \in Nat \ {0}
    BY <1>8 DEF IsStack
  <2>2. T \in Nat /\ T >= StackPage
    BY <1>12, <2>1, StackSizesPositive
  <2>3. StackPage >= 2 * StackAlign
    BY ProcessStackAssumption
  <2> QED
    BY <2>2, <2>3, StackSizesPositive
<1>14. base = T - q.tls /\ 8 * q.tls <= T /\ base \in Int
  BY <1>1, <1>6, <1>10, <1>12, <1>13 DEF FreshStack
<1>15. p \in Int /\ p <= base /\ base - p < StackAlign
  BY <1>2, <1>14, AlignFacts, StackSizesPositive
<1>16. p >= 1
  BY <1>13, <1>14, <1>15, StackSizesPositive
<1> QED
  BY <1>11, <1>14, <1>15, <1>16, <1>1

(* What is asked for. *)
LEMMA RequestLens ==
  ASSUME NEW q \in Requests
  PROVE  Lens(q) /\ q.phdrs \in Nat /\ q.tls \in Nat
<1>1. q.args \in ArgLists \cup {<<>>} /\ q.phdrs \in {0, 1} /\ q.tls \in TlsSizes \cup {0}
  BY DEF Requests
<1>2. q.args \in Seq(ArgLengths)
  <2>1. CASE q.args = <<>>
    BY <2>1
  <2>2. CASE q.args \in ArgLists
    <3>1. PICK n \in 0 .. MaxArgs : q.args \in [1 .. n -> ArgLengths]
      BY <2>2 DEF ArgLists
    <3>2. n \in Nat
      BY <3>1, ProcessStackAssumption
    <3> QED
      BY <3>1, <3>2
  <2> QED
    BY <1>1, <2>1, <2>2
<1>3. ArgLengths \subseteq Nat /\ TlsSizes \subseteq Nat
  BY ProcessStackAssumption
<1>4. PICK a : a = q.args
  OBVIOUS
<1>5. Len(a) \in Nat /\ \A i \in 1 .. Len(a) : a[i] \in ArgLengths
  BY <1>2, <1>4
<1>6. Lens(q)
  BY <1>3, <1>4, <1>5 DEF Lens
<1>7. q.phdrs \in Nat
  BY <1>1
<1>8. q.tls \in Nat
  <2>1. CASE q.tls = 0
    BY <2>1
  <2>2. CASE q.tls \in TlsSizes
    BY <1>3, <2>2
  <2> QED
    BY <1>1, <2>1, <2>2
<1> QED
  BY <1>6, <1>7, <1>8

(* What is asked for can be, and what was done was done right. *)
StackInv ==
  /\ outcome = "none" => request \in Requests /\ FreshStack(stk)
  /\ outcome \in {"none", "failed", "spawned", "spawned_v", "started"}
  /\ outcome = "spawned_v" => Frame(stk, request)
  /\ outcome = "spawned" => ArgvIn(stk.mem, stk.arg1, request.args) /\ stk.sp % StackAlign = 0 /\ Above(stk)
  /\ outcome = "started" => stk.tlsBase = stk.initial - request.tls /\ stk.sp \in 1 .. stk.tlsBase

LEMMA StackStarts == StackInit => StackInv
<1> SUFFICES ASSUME StackInit
             PROVE  StackInv
  OBVIOUS
<1>1. PICK n \in StackSizes, f \in -1 .. 2 :
        stk = [pages |-> n, refuse |-> f, sp |-> n * StackPage, initial |-> n * StackPage,
               mem |-> <<>>, argv |-> <<>>, arg1 |-> 0, tlsBase |-> 0, running |-> FALSE,
               err |-> FALSE]
  BY DEF StackInit
<1>2. n \in Nat \ {0} /\ n * StackPage \in Int
  BY ProcessStackAssumption
<1>3. PICK e : e = <<>>
  OBVIOUS
<1>4. e \in Seq(Int) /\ DOMAIN e = {}
  BY <1>3
<1>5. IsStack(stk)
  BY <1>1, <1>2, <1>3, <1>4 DEF IsStack
<1>6. FreshStack(stk)
  BY <1>1, <1>3, <1>4, <1>5 DEF FreshStack
<1> QED
  BY <1>6 DEF StackInit, StackInv

LEMMA StackStep == StackInv /\ [StackNext]_stackVars => StackInv'
<1> SUFFICES ASSUME StackInv, [StackNext]_stackVars
             PROVE  StackInv'
  OBVIOUS
<1>1. CASE UNCHANGED stackVars
  BY <1>1 DEF StackInv, stackVars
<1>2. ASSUME outcome = "none", NEW s, NEW name, Spawned(s, name)
      PROVE  /\ Lens(request) /\ request.phdrs \in Nat /\ request.tls \in Nat /\ FreshStack(stk)
             /\ stk' = s /\ request' = request /\ outcome' = (IF s.err THEN "failed" ELSE name)
  BY <1>2, RequestLens DEF StackInv, Spawned
<1>3. ASSUME sel4utils_spawn_process
      PROVE  StackInv'
  <2>1. PICK s : s = spawn_process(stk, request)
    OBVIOUS
  <2>2. outcome = "none" /\ Spawned(s, "spawned")
    BY <1>3, <2>1 DEF sel4utils_spawn_process, Spawned
  <2>3. ~s.err => ArgvIn(s.mem, s.arg1, request.args) /\ s.sp % StackAlign = 0 /\ Above(s)
    BY <1>2, <2>1, <2>2, SpawnEffect
  <2> QED
    BY <1>2, <2>2, <2>3 DEF StackInv
<1>4. ASSUME sel4utils_spawn_process_v
      PROVE  StackInv'
  <2>1. PICK s : s = spawn_process_v(stk, request)
    OBVIOUS
  <2>2. outcome = "none" /\ Spawned(s, "spawned_v")
    BY <1>4, <2>1 DEF sel4utils_spawn_process_v, Spawned
  <2>3. ~s.err => Frame(s, request)
    BY <1>2, <2>1, <2>2, SpawnvEffect
  <2> QED
    BY <1>2, <2>2, <2>3 DEF StackInv
<1>5. ASSUME sel4utils_start_thread
      PROVE  StackInv'
  <2>1. PICK s : s = start_thread(stk, request)
    OBVIOUS
  <2>2. outcome = "none" /\ Spawned(s, "started")
    BY <1>5, <2>1 DEF sel4utils_start_thread, Spawned
  <2>3. ~s.err => s.tlsBase = s.initial - request.tls /\ s.sp \in 1 .. s.tlsBase
    BY <1>2, <2>1, <2>2, StartEffect
  <2> QED
    BY <1>2, <2>2, <2>3 DEF StackInv
<1> QED
  BY <1>1, <1>3, <1>4, <1>5 DEF StackNext

LEMMA ReadableFromInv == StackInv => FrameReadable
<1> SUFFICES ASSUME StackInv
             PROVE  FrameReadable
  OBVIOUS
<1>1. \A a, bytes : BytesAt(a, bytes) <=> BytesIn(stk.mem, a, bytes)
  BY DEF BytesAt, BytesIn
<1>2. \A a : ArgvAt(a) <=> ArgvIn(stk.mem, a, request.args)
  BY <1>1 DEF ArgvAt, ArgvIn
<1>3. CASE outcome = "spawned_v"
  BY <1>1, <1>2, <1>3 DEF StackInv, Frame, FrameReadable
<1>4. CASE outcome # "spawned_v"
  BY <1>2, <1>4 DEF StackInv, Above, FrameReadable
<1> QED
  BY <1>3, <1>4

(* However many arguments and headers, of whatever size, a process that is *)
(* spawned reads them back from its stack, and a thread that is started    *)
(* has an aligned stack below its thread-local storage                     *)
(* (sel4utils_spawn_process, sel4utils_spawn_process_v and                 *)
(* sel4utils_start_thread).                                                *)
THEOREM FrameAlwaysReadable == StackSpec => []FrameReadable
BY StackStarts, StackStep, ReadableFromInv, PTL DEF StackSpec
===============================================================================
