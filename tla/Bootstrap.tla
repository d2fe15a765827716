------------------------------ MODULE Bootstrap ------------------------------
(***************************************************************************)
(* Bootstrapping an allocation manager (libsel4allocman, bootstrap.c).     *)
(* A behaviour is one call of a bootstrapping function, in the CSpace that *)
(* the caller was started with: either the allocator goes on using it, or  *)
(* CNodes are made from the boot untypeds, the caller switches to the new  *)
(* CSpace, and untypeds and capabilities follow.  Memory may run out in    *)
(* every step.  A function that returns NULL, or aborts, ends in "failed". *)
(*                                                                         *)
(* A CPtr is resolved in the CSpace of the moment: a path whose root was   *)
(* not brought up to date after the switch leads nowhere.                  *)
(***************************************************************************)
EXTENDS Integers, SequencesExt

CONSTANTS
  Layouts,       \* the CSpaces that callers start in
  RegionLists,   \* the lists of physical memory regions that may be found
  SlotBits,      \* seL4_SlotBits
  MaxUntypedBits,
  AddressBits,      \* width of an address
  NewBits,       \* cnode_size of the one level functions
  L1Bits, L2Bits,
  SlotsPerWord,  \* BITS_PER_WORD of the allocators' bitmaps
  ReserveSlots   \* bound: slots that the reservations may take at once

Bit(n) == 2 ^ n

None == [bits |-> -1]
Untyped(base, bits, isDev) == [type |-> "untyped", base |-> base, bits |-> bits, dev |-> isDev]
CnodeCap(node, bits) == [type |-> "cnode", node |-> node, bits |-> bits]

(* A capability is put into a slot of a CNode.                              *)
Put(caps, s, cap) == [t \in DOMAIN caps \cup {s} |-> IF t = s THEN cap ELSE caps[t]]

UtSlots(l) == l.utStart .. l.utStart + Len(l.uts) - 1

(* A boot CNode as the kernel or a parent fills it: slot 0 stays empty,     *)
(* there is an untyped, every untyped has a slot of its own and is aligned, *)
(* and a capability that simple does not list is not the last one.          *)
LayoutSane(l) ==
  /\ l.utStart \in Nat /\ l.bits \in Nat
  /\ l.uts \in Seq([base : Nat, bits : Nat, dev : BOOLEAN]) /\ l.uts # <<>>
  /\ {l.tcb, l.cnode, l.pd} \subseteq l.listed
  /\ l.listed \cup UtSlots(l) \subseteq 1 .. Bit(l.bits) - 1
  /\ l.listed \cap UtSlots(l) = {}
  /\ \A s \in l.hidden : s \in Nat /\ \E t \in l.listed \cup UtSlots(l) : s < t
  /\ \A k \in 1 .. Len(l.uts) :
       /\ l.uts[k].base % Bit(l.uts[k].bits) = 0
       /\ l.uts[k].base + Bit(l.uts[k].bits) <= Bit(AddressBits)

ASSUME BootAssumption ==
  /\ {SlotBits, MaxUntypedBits, AddressBits, NewBits, L1Bits, L2Bits, ReserveSlots} \subseteq Nat
  /\ SlotsPerWord \in Nat \ {0}
  /\ \A l \in Layouts : LayoutSane(l)

VARIABLES
  call, layout, regions,   \* the call, and what it finds
  phase, loop,             \* where it is, and the index of the loop it is in
  old, new,                \* the boot CNode and the new CSpace: slot -> capability
  space,                   \* which of them is the CSpace of the caller
  bootNext,                \* current_slot of the boot CSpace's allocator
  uts,                     \* bs->uts, ut_size_bits, ut_paddr, ut_isDevice
  best,                    \* the untyped that is being split, if any
  toSlot,                  \* where the old CNode goes in a two level CSpace
  nodes,                   \* boot slots of the CNodes made so far
  free,                    \* slots that the attached CSpace allocator thinks free
  utspace,                 \* what the untyped manager was given
  dev,                     \* the loop over one device untyped
  short                    \* memory has run out and the call went on

inputs == <<call, layout, regions>>
bootVars == <<call, layout, regions, phase, loop, old, new, space, bootNext, uts, best, toSlot, nodes,
          free, utspace, dev, short>>

Calls == {"use_current_simple", "use_bootinfo", "new_1level_simple", "new_2level_simple",
          "new_1level_bootinfo", "new_2level_bootinfo"}

FromSimple == call \in {"use_current_simple", "new_1level_simple", "new_2level_simple"}
UsesCurrent == call \in {"use_current_simple", "use_bootinfo"}
OneLevel == call \in {"new_1level_simple", "new_1level_bootinfo"}

(* The boot CNode as the caller finds it.                                   *)
BootCaps(l) ==
  [s \in l.listed \cup l.hidden \cup UtSlots(l) |->
     IF s \in UtSlots(l)
       THEN LET u == l.uts[s - l.utStart + 1] IN Untyped(u.base, u.bits, u.dev)
     ELSE IF s = l.cnode THEN CnodeCap("old", l.bits)
     ELSE [type |-> "other", name |-> s]]

-----------------------------------------------------------------------------
(* What the simple interface and bootinfo say of the boot CSpace.           *)

simple_get_cap_count == Cardinality(layout.listed) + Len(layout.uts)
simple_caps == layout.listed \cup UtSlots(layout)
simple_get_nth_cap(n) ==
  CHOOSE s \in simple_caps : Cardinality({t \in simple_caps : t < s}) = n - 1
simple_is_untyped_cap(s) == s \in UtSlots(layout)
simple_last_valid_cap == Max(simple_caps)

EmptyStart == Max(DOMAIN BootCaps(layout)) + 1

SEL4UTILS_CNODE_SLOT == 1
TwoLevelCnodeSlot == 2

LevelSize == Bit(L2Bits)

(* The boot CSpace's own allocator never takes a slot back.                 *)
BootFirst == IF FromSimple THEN simple_last_valid_cap + 1 ELSE EmptyStart
BootEnd == IF FromSimple THEN Bit(layout.bits) ELSE Bit(layout.bits) - 1
BootHas(k) == bootNext + k <= BootEnd

(* A path is resolved from the CSpace root of the moment.                   *)
Here == IF space = "old" THEN old ELSE new
NodeOf(root) ==
  IF root \in DOMAIN Here /\ Here[root].type = "cnode" THEN Here[root].node ELSE "none"
CapAt(root, s) ==
  LET n == NodeOf(root)
      caps == IF n = "old" THEN old ELSE IF n = "new" THEN new ELSE <<>>
  IN IF s \in DOMAIN caps THEN caps[s] ELSE [type |-> "null"]

Fail == phase' = "failed"

(* The slots that the attached allocator of a single level was given.       *)
AllocFirst ==
  IF UsesCurrent THEN BootFirst ELSE IF OneLevel /\ FromSimple THEN simple_last_valid_cap + 1
  ELSE IF OneLevel THEN 1 ELSE 0
AllocEnd == IF UsesCurrent THEN Bit(layout.bits) ELSE Bit(NewBits) - 2

(* Where its next slot may be: in the words that its bitmap_length counts,  *)
(* the first one in any case; of two levels, in the first second level that *)
(* has two free slots.  A second level is never made for it.                *)
UsableSlots(f) ==
  IF OneLevel \/ UsesCurrent
    THEN LET words == Max({1, (AllocEnd - AllocFirst) \div SlotsPerWord})
         IN {s \in f : s < AllocFirst + words * SlotsPerWord}
  ELSE LET roomy == {s \in f : Cardinality({t \in f : t \div LevelSize = s \div LevelSize}) > 1}
       IN {s \in roomy : s \div LevelSize = Min(roomy) \div LevelSize}

(* The next slot is the last free one of the first word that has one (CLZL):*)
(* nothing is given back during a call, so all words before it are used up. *)
NextFree(f) ==
  LET lowest == Min(UsableSlots(f))
      start == lowest - ((lowest - AllocFirst) % SlotsPerWord)
  IN Max(UsableSlots(f) \cap start .. start + SlotsPerWord - 1)
TakeSlot(f) == IF UsableSlots(f) = {} THEN f ELSE f \ {NextFree(f)}

-----------------------------------------------------------------------------
BootInit ==
  /\ call \in Calls /\ layout \in Layouts /\ regions \in RegionLists
  /\ regions # <<>> => call = "use_current_simple"
  /\ phase = "start" /\ loop = 1
  /\ old = BootCaps(layout) /\ new = <<>> /\ space = "old"
  /\ bootNext = 0 /\ uts = <<>> /\ best = None /\ toSlot = 0 /\ nodes = <<>>
  /\ free = {} /\ utspace = {} /\ dev = None /\ short = FALSE

(* bootstrap_create_info: the pool may be too small for it.                 *)
bootstrap_create_info ==
  /\ phase = "start"
  /\ \/ Fail
     \/ phase' = IF UsesCurrent THEN "current" ELSE "untypeds"
  /\ bootNext' = BootFirst
  /\ UNCHANGED <<inputs, loop, old, new, space, uts, best, toSlot, nodes, free, utspace, dev, short>>

AppendUt(s, bits, paddr, isDev) ==
  Append(uts, [root |-> layout.cnode, slot |-> s, bits |-> bits, paddr |-> paddr, dev |-> isDev])

(* The untypeds are added one by one.  When an addition fails the bootinfo  *)
(* functions give up; the result is ignored when they come from simple.     *)
bootstrap_add_untypeds ==
  /\ phase = "untypeds"
  /\ LET u == layout.uts[loop]
         last == loop = Len(layout.uts)
     IN \/ /\ uts' = AppendUt(layout.utStart + loop - 1, u.bits, u.base, u.dev)
           /\ phase' = IF last THEN "cspace" ELSE "untypeds"
           /\ loop' = IF last THEN 1 ELSE loop + 1
           /\ UNCHANGED short
        \/ /\ phase' = IF FromSimple THEN "cspace" ELSE "failed"
           /\ short' = TRUE /\ loop' = 1
           /\ UNCHANGED uts
  /\ UNCHANGED <<inputs, old, new, space, bootNext, best, toSlot, nodes, free, utspace, dev>>

(* _bootstrap_new_level2 first takes a boot slot, in whose place the old    *)
(* CNode will be; whether there was one is not looked at.                   *)
_bootstrap_new_level ==
  /\ phase = "cspace"
  /\ IF OneLevel THEN UNCHANGED <<toSlot, bootNext>>
     ELSE IF BootHas(1) THEN toSlot' = bootNext /\ bootNext' = bootNext + 1
     ELSE toSlot' = 0 /\ UNCHANGED bootNext
  /\ loop' = Len(uts)
  /\ phase' = "pick"
  /\ UNCHANGED <<inputs, old, new, space, uts, best, nodes, free, utspace, dev, short>>

(* During the creation of the CSpace loop keeps the number of untypeds that *)
(* there were at its start, which its size is computed from.                *)
TotalCaps == loop + (IF toSlot > 2 THEN toSlot ELSE 2)
SecondLevels == TotalCaps \div LevelSize + 1

CnodeBits == IF OneLevel THEN NewBits ELSE IF nodes = <<>> THEN L1Bits ELSE L2Bits
NeedBits == CnodeBits + SlotBits

-----------------------------------------------------------------------------
(* bootstrap_allocate_cnode: the smallest untyped that is large enough is   *)
(* taken off the list, and split until it has the right size.               *)

BigEnough == {k \in 1 .. Len(uts) : uts[k].bits >= NeedBits /\ ~uts[k].dev}
BestUt == CHOOSE k \in BigEnough :
            \A j \in BigEnough : uts[k].bits < uts[j].bits \/ (uts[k].bits = uts[j].bits /\ k <= j)

_remove_ut ==
  /\ phase = "pick"
  /\ \/ Fail /\ UNCHANGED <<best, uts>>
     \/ /\ BigEnough # {}
        /\ best' = uts[BestUt]
        /\ uts' = RemoveAt(uts, BestUt)
        /\ phase' = "split"
  /\ UNCHANGED <<inputs, loop, old, new, space, bootNext, toSlot, nodes, free, utspace, dev, short>>

(* Mutant: the kept half is recorded under the address of the other one. *)
KeptPaddrFirst(b) == b.paddr

(* The address of the half that is kept.                                    *)
KeptPaddr(b) == b.paddr + Bit(b.bits - 1)

(* _split_ut: the kernel makes the children of an untyped in its order; the *)
(* first half goes back onto the list.                                      *)
_split_ut ==
  /\ phase = "split" /\ best.bits > NeedBits
  /\ \/ Fail /\ UNCHANGED <<old, bootNext, uts, best>>
     \/ /\ BootHas(2)
        /\ LET half == best.bits - 1
               cap == CapAt(best.root, best.slot)
           IN /\ old' = Put(Put(old, bootNext, Untyped(cap.base, half, cap.dev)),
                           bootNext + 1, Untyped(cap.base + Bit(half), half, cap.dev))
              /\ uts' = AppendUt(bootNext, half, best.paddr, best.dev)
              /\ best' = [best EXCEPT !.slot = bootNext + 1, !.bits = half, !.paddr = KeptPaddr(best)]
        /\ bootNext' = bootNext + 2
        /\ UNCHANGED phase
  /\ UNCHANGED <<inputs, loop, new, space, toSlot, nodes, free, utspace, dev, short>>

_retype_cnode ==
  /\ phase = "split" /\ best.bits = NeedBits
  /\ \/ Fail /\ UNCHANGED <<old, bootNext, nodes, best>>
     \/ /\ BootHas(1)
        /\ old' = Put(old, bootNext, CnodeCap("new", CnodeBits))
        /\ nodes' = Append(nodes, [slot |-> bootNext, bits |-> best.bits,
                                   base |-> CapAt(best.root, best.slot).base])
        /\ bootNext' = bootNext + 1
        /\ best' = None
        /\ phase' = IF OneLevel THEN "switch" ELSE IF nodes = <<>> THEN "pick" ELSE "install"
  /\ UNCHANGED <<inputs, loop, new, space, uts, toSlot, free, utspace, dev, short>>

(* A second level goes into the first level at its index; the first one     *)
(* gets a capability to the first level.                                    *)
Install ==
  /\ phase = "install"
  /\ LET index == Len(nodes) - 2 IN
       IF index >= Bit(L1Bits) \/ (index = 0 /\ TwoLevelCnodeSlot >= LevelSize)
         THEN Fail /\ UNCHANGED new
         ELSE /\ new' = IF index = 0 THEN Put(<<>>, TwoLevelCnodeSlot, CnodeCap("new", L1Bits)) ELSE new
              /\ phase' = IF index + 1 = SecondLevels THEN "switch" ELSE "pick"
  /\ UNCHANGED <<inputs, loop, old, space, bootNext, uts, best, toSlot, nodes, free, utspace, dev, short>>

(* Where the capability to the old CNode is put.                            *)
OldCnodeSlot == IF OneLevel THEN Bit(NewBits) - 1 ELSE toSlot

NewCnodeSlot == IF OneLevel THEN SEL4UTILS_CNODE_SLOT ELSE TwoLevelCnodeSlot

(* Mutant: the slots are thought free from the first one on. *)
FreeInNewFromZero ==
  IF OneLevel THEN 0 .. Bit(NewBits) - 3
  ELSE 0 .. SecondLevels * LevelSize - 1

(* The slots that the new allocator may hand out.  Without a simple         *)
(* interface simple_last_valid_cap returns 0.                               *)
FreeInNew ==
  IF OneLevel THEN (IF FromSimple THEN simple_last_valid_cap + 1 ELSE 1) .. Bit(NewBits) - 3
  ELSE LET last == IF toSlot > TwoLevelCnodeSlot THEN toSlot ELSE TwoLevelCnodeSlot
       IN last + 1 .. SecondLevels * LevelSize - 1

(* The caller is switched over to the new CSpace, with the old CNode in it; *)
(* then the allocator of the new CSpace is made, or memory runs out.        *)
Switch(caps) ==
  /\ new' = Put(caps, OldCnodeSlot, CnodeCap("old", layout.bits))
  /\ space' = "new"
  /\ free' = FreeInNew
  /\ phase' \in {"update", "failed"}

bootstrap_new_1level_cspace ==
  /\ phase = "switch" /\ OneLevel
  /\ IF OldCnodeSlot <= SEL4UTILS_CNODE_SLOT
       THEN Fail /\ UNCHANGED <<new, space, free>>
       ELSE Switch(Put(<<>>, SEL4UTILS_CNODE_SLOT, CnodeCap("new", NewBits)))
  /\ UNCHANGED <<inputs, loop, old, bootNext, uts, best, toSlot, nodes, utspace, dev, short>>

bootstrap_new_2level_cspace ==
  /\ phase = "switch" /\ ~OneLevel
  /\ Switch(new)
  /\ UNCHANGED <<inputs, loop, old, bootNext, uts, best, toSlot, nodes, utspace, dev, short>>

-----------------------------------------------------------------------------
(* The untypeds follow into the new CSpace.                                 *)

UpdatedUts == [k \in 1 .. Len(uts) |-> [uts[k] EXCEPT !.root = OldCnodeSlot]]

bootstrap_update_untypeds ==
  /\ phase = "update"
  /\ uts' = UpdatedUts
  /\ loop' = 1 /\ phase' = IF uts = <<>> THEN "utspace" ELSE "move"
  /\ UNCHANGED <<inputs, old, new, space, bootNext, best, toSlot, nodes, free, utspace, dev, short>>

bootstrap_move_untypeds ==
  /\ phase = "move"
  /\ LET u == uts[loop]
         s == NextFree(free)
     IN \/ Fail /\ UNCHANGED <<uts, old, new, free, loop>>
        \/ /\ UsableSlots(free) # {} /\ s \notin DOMAIN new /\ CapAt(u.root, u.slot).type = "untyped"
           /\ free' = TakeSlot(free)
           /\ new' = Put(new, s, CapAt(u.root, u.slot))
           /\ old' = [t \in DOMAIN old \ {u.slot} |-> old[t]]
           /\ uts' = [uts EXCEPT ![loop].root = NewCnodeSlot, ![loop].slot = s]
           /\ phase' = IF loop = Len(uts) THEN "utspace" ELSE "move"
           /\ loop' = IF loop = Len(uts) THEN 1 ELSE loop + 1
  /\ UNCHANGED <<inputs, space, bootNext, best, toSlot, nodes, utspace, dev, short>>

KindOf(isDev) == IF isDev THEN "DEV" ELSE "KERNEL"

Given(root, s, bits, paddr, kind) ==
  [root |-> root, slot |-> s, bits |-> bits, paddr |-> paddr, kind |-> kind]

(* The untyped manager is created, and given the untypeds one by one.       *)
bootstrap_create_utspace ==
  /\ phase = "utspace"
  /\ \/ Fail /\ UNCHANGED <<utspace, loop>>
     \/ /\ loop > Len(uts) /\ phase' = "reserve" /\ loop' = 1 /\ UNCHANGED utspace
     \/ /\ loop <= Len(uts)
        /\ LET u == uts[loop] IN
             utspace' = utspace \cup {Given(u.root, u.slot, u.bits, u.paddr, KindOf(u.dev))}
        /\ loop' = loop + 1 /\ UNCHANGED phase
  /\ UNCHANGED <<inputs, old, new, space, bootNext, uts, best, toSlot, nodes, free, dev, short>>

(* _slot_memory_reservations and _cnode_reservation: the watermark is       *)
(* filled, slot by slot, as far as there are slots.                         *)
Reserve ==
  /\ phase = "reserve"
  /\ \/ Fail /\ loop' = 1 /\ UNCHANGED free
     \/ /\ loop <= ReserveSlots
        /\ free' = TakeSlot(free)
        /\ loop' = loop + 1 /\ UNCHANGED phase
     \/ /\ phase' = IF UsesCurrent THEN (IF FromSimple THEN "prepare" ELSE "adding")
                    ELSE IF FromSimple THEN "transfer" ELSE "finish"
        /\ loop' = 1 /\ UNCHANGED free
  /\ uts' = <<>>
  /\ UNCHANGED <<inputs, old, new, space, bootNext, best, toSlot, nodes, utspace, dev, short>>

(* Every capability that simple lists goes to the same slot of the new      *)
(* CSpace, which must be there and empty; those to the CNode and to the     *)
(* untypeds do not.  The TCB and the page directory are copied.             *)
StaysBehind(s) == s = layout.cnode \/ simple_is_untyped_cap(s)
Reachable(s) == s < IF OneLevel THEN Bit(NewBits) ELSE (Len(nodes) - 1) * LevelSize

bootstrap_transfer_caps_simple ==
  /\ phase = "transfer"
  /\ LET s == simple_get_nth_cap(loop)
         last == loop = simple_get_cap_count
         done == phase' = (IF last THEN "done" ELSE "transfer") /\ loop' = loop + 1
     IN IF StaysBehind(s) THEN done /\ UNCHANGED <<old, new>>
        ELSE IF Reachable(s) /\ s \notin DOMAIN new /\ CapAt(OldCnodeSlot, s).type # "null"
        THEN /\ done
             /\ new' = Put(new, s, old[s])
             /\ old' = IF s \in {layout.tcb, layout.pd} THEN old
                       ELSE [t \in DOMAIN old \ {s} |-> old[t]]
        ELSE Fail /\ UNCHANGED <<old, new, loop>>
  /\ UNCHANGED <<inputs, space, bootNext, uts, best, toSlot, nodes, free, utspace, dev, short>>

(* _new_from_bootinfo_common: a description of the old CSpace is allocated. *)
_new_from_bootinfo_common ==
  /\ phase = "finish"
  /\ phase' \in {"done", "failed"}
  /\ UNCHANGED <<inputs, loop, old, new, space, bootNext, uts, best, toSlot, nodes, free, utspace, dev,
                 short>>

-----------------------------------------------------------------------------
(* Staying in the current CSpace.                                           *)

(* The boot CSpace from its first empty slot on.                            *)
FreeInCurrent == BootFirst .. Bit(layout.bits) - 1

bootstrap_use_current_1level ==
  /\ phase = "current"
  /\ \/ Fail /\ UNCHANGED free
     \/ /\ free' = FreeInCurrent
        /\ phase' = "utspace"
  /\ UNCHANGED <<inputs, loop, old, new, space, bootNext, uts, best, toSlot, nodes, utspace, dev, short>>

GiveUntyped(s, u) ==
  \/ Fail /\ UNCHANGED <<utspace, loop>>
  \/ /\ utspace' = utspace \cup {Given(layout.cnode, s, u.bits, u.base, KindOf(u.dev))}
     /\ loop' = loop + 1
     /\ UNCHANGED phase

allocman_add_bootinfo_untypeds ==
  /\ phase = "adding" /\ loop <= Len(layout.uts) /\ ~FromSimple
  /\ GiveUntyped(layout.utStart + loop - 1, layout.uts[loop])
  /\ UNCHANGED <<inputs, old, new, space, bootNext, uts, best, toSlot, nodes, free, dev, short>>

(* The regions are copied, and a private untyped manager made.              *)
prepare_handle_device_untyped_cap ==
  /\ phase = "prepare"
  /\ phase' \in {"adding", "failed"}
  /\ UNCHANGED <<inputs, loop, old, new, space, bootNext, uts, best, toSlot, nodes, free, utspace, dev,
                 short>>

(* A kernel untyped is given to the manager, a device untyped looked into.  *)
allocman_add_simple_untypeds ==
  /\ phase = "adding" /\ loop <= Len(layout.uts) /\ FromSimple
  /\ LET u == layout.uts[loop]
         s == layout.utStart + loop - 1
     IN IF u.dev
          THEN /\ dev' = [paddr |-> u.base, end |-> u.base + Bit(u.bits), bits |-> u.bits,
                          slot |-> s, region |-> 1, tainted |-> FALSE]
               /\ phase' = "device"
               /\ UNCHANGED <<utspace, loop>>
          ELSE GiveUntyped(s, u) /\ UNCHANGED dev
  /\ UNCHANGED <<inputs, old, new, space, bootNext, uts, best, toSlot, nodes, free, short>>

AllAdded ==
  /\ phase = "adding" /\ loop > Len(layout.uts)
  /\ phase' = "done"
  /\ UNCHANGED <<inputs, loop, old, new, space, bootNext, uts, best, toSlot, nodes, free, utspace, dev,
                 short>>

(* Addresses wrap at the width of a word; the ends of untypeds and regions  *)
(* are held in 64 bits and do not.                                          *)
Wrap(a) == a % Bit(AddressBits)

FloorLog2(n) == CHOOSE b \in 0 .. AddressBits : Bit(b) <= n /\ n < Bit(b + 1)
TrailingZeros(a) == CHOOSE b \in 0 .. AddressBits : a % Bit(b) = 0 /\ a % Bit(b + 1) # 0

(* The largest aligned power of two from base that does not pass goal;      *)
(* -1 when there is none, which is fatal.                                   *)
get_next_alignment_bits(base, goal) ==
  LET alignment == IF base = 0 THEN MaxUntypedBits ELSE Min({TrailingZeros(base), MaxUntypedBits})
      size == Min({Wrap(goal - base), Bit(alignment)})
  IN IF size = 0 THEN -1 ELSE FloorLog2(size)

(* One piece is taken out of the private manager, which holds the untyped   *)
(* from paddr on, and given to the real one.                                *)
perform_sub_allocation(goal, kind) ==
  LET bits == get_next_alignment_bits(dev.paddr, goal)
      s == NextFree(free)
      start == layout.uts[loop].base
      here == dev.paddr >= start /\ dev.paddr % Bit(bits) = 0 /\ dev.paddr + Bit(bits) <= dev.end
              /\ \A u \in utspace : u.kind = "KERNEL" \/ u.paddr + Bit(u.bits) <= dev.paddr
                                    \/ u.paddr >= dev.paddr + Bit(bits)
  IN \/ Fail /\ UNCHANGED <<old, free, utspace, dev>>
     \/ /\ bits >= 0 /\ here /\ UsableSlots(free) # {}
        /\ free' = TakeSlot(free)
        /\ old' = Put(old, s, Untyped(dev.paddr, bits, TRUE))
        /\ utspace' = utspace \cup {Given(layout.cnode, s, bits, dev.paddr, kind)}
        /\ dev' = [dev EXCEPT !.paddr = Wrap(@ + Bit(bits)), !.tainted = TRUE]
        /\ UNCHANGED phase

(* The region that the loop is at overlaps what is left of the untyped.     *)
MeetsRegion ==
  /\ dev.region <= Len(regions)
  /\ LET r == regions[dev.region] IN
       r.ram /\ ~(dev.paddr >= r.base + r.length \/ dev.end <= r.base)

RegionTop ==
  LET r == regions[dev.region] IN Wrap(Min({r.base + r.length, dev.end}))

(* Where the piece at the front has to end: at the RAM's beginning or end.  *)
PieceGoal(r) == IF dev.paddr >= r.base THEN RegionTop ELSE r.base

handle_device_untyped_cap ==
  /\ phase = "device"
  /\ IF dev.region <= Len(regions)
       THEN LET r == regions[dev.region] IN
            IF MeetsRegion /\ dev.paddr < RegionTop
              THEN /\ perform_sub_allocation(PieceGoal(r), IF dev.paddr >= r.base THEN "DEV_MEM" ELSE "DEV")
                   /\ UNCHANGED loop
              ELSE /\ dev' = [dev EXCEPT !.region = @ + 1, !.tainted = @ \/ MeetsRegion]
                   /\ UNCHANGED <<old, free, utspace, phase, loop>>
     ELSE IF dev.tainted /\ dev.paddr < dev.end
       THEN perform_sub_allocation(Wrap(dev.end), "DEV") /\ UNCHANGED loop
     ELSE IF dev.tainted
       THEN loop' = loop + 1 /\ phase' = "adding" /\ UNCHANGED <<old, free, utspace, dev>>
     ELSE /\ \/ Fail /\ UNCHANGED utspace
             \/ /\ utspace' = utspace \cup {Given(layout.cnode, dev.slot, dev.bits, dev.paddr, "DEV")}
                /\ phase' = "adding"
          /\ loop' = loop + 1
          /\ UNCHANGED <<old, free, dev>>
  /\ UNCHANGED <<inputs, new, space, bootNext, uts, best, toSlot, nodes, short>>

BootNext ==
  \/ bootstrap_create_info \/ bootstrap_add_untypeds \/ _bootstrap_new_level
  \/ _remove_ut \/ _split_ut \/ _retype_cnode \/ Install
  \/ bootstrap_new_1level_cspace \/ bootstrap_new_2level_cspace
  \/ bootstrap_update_untypeds \/ bootstrap_move_untypeds \/ bootstrap_create_utspace \/ Reserve
  \/ bootstrap_transfer_caps_simple \/ _new_from_bootinfo_common
  \/ bootstrap_use_current_1level \/ prepare_handle_device_untyped_cap
  \/ allocman_add_bootinfo_untypeds \/ allocman_add_simple_untypeds \/ AllAdded
  \/ handle_device_untyped_cap

BootSpec == BootInit /\ [][BootNext]_bootVars

-----------------------------------------------------------------------------
(* The untypeds that the bootstrapper answers for, on their way from its    *)
(* own list to the untyped manager.                                         *)
InHand ==
  IF phase = "utspace" THEN {uts[k] : k \in loop .. Len(uts)}
  ELSE Range(uts) \cup (IF best = None THEN {} ELSE {best})

Bytes(base, bits) == base .. base + Bit(bits) - 1

BytesOfUts == UNION {Bytes(u.paddr, u.bits) : u \in InHand \cup utspace}
BytesOfCnodes == UNION {Bytes(n.base, n.bits) : n \in Range(nodes)}
BootBytes == UNION {Bytes(u.base, u.bits) : u \in Range(layout.uts)}

(* Bookkeeping of memory across the splitting of untypeds, the switch of    *)
(* the CSpace and the hand-over: what the bootstrapper and the untyped      *)
(* manager know of an untyped (its slot, its address, its size) is what the *)
(* kernel has there; no memory is in two places; and when the call returns  *)
(* an allocator, and memory never ran short, none of it has been forgotten. *)
BootMemoryExact ==
  phase # "failed" =>
    /\ phase # "update" => \A u \in InHand \cup utspace :
         LET c == CapAt(u.root, u.slot) IN c.type = "untyped" /\ c.base = u.paddr /\ c.bits = u.bits
    /\ \A u, v \in InHand \cup utspace :
         u.paddr # v.paddr => Bytes(u.paddr, u.bits) \cap Bytes(v.paddr, v.bits) = {}
    /\ BytesOfUts \cap BytesOfCnodes = {}
    /\ phase = "done" /\ ~short => BytesOfUts \cup BytesOfCnodes = BootBytes

(* From the moment an allocator is attached to a CSpace, no slot that it    *)
(* thinks free holds a capability; and when the call returns, a capability  *)
(* that simple lists can be used through the same CPtr as before.  The      *)
(* function that starts from bootinfo and makes a single level is excepted: *)
(* the slot that its own CNode was put into is the first of its free ones.  *)
CapsInPlace ==
  /\ phase # "failed" /\ call # "new_1level_bootinfo" => free \cap DOMAIN Here = {}
  /\ phase = "done" /\ FromSimple =>
       \A s \in layout.listed \ {layout.cnode} : s \in DOMAIN Here /\ Here[s] = BootCaps(layout)[s]

(* The regions are listed in the order of their addresses, and none reaches *)
(* the end of the address space.                                            *)
UsualRegions ==
  /\ \A k \in 1 .. Len(regions) - 1 : regions[k].base + regions[k].length <= regions[k + 1].base
  /\ \A r \in Range(regions) : r.base + r.length < Bit(AddressBits)

RamBytes ==
  UNION {IF r.ram THEN r.base .. r.base + r.length - 1 ELSE {} : r \in Range(regions)}

(* As the documentation of allocman_add_simple_untypeds_with_regions has    *)
(* it: the device untypeds that overlap RAM are marked as memory, so that   *)
(* every piece is all RAM, and marked as such, or has none.                 *)
DeviceRamMarked ==
  phase # "failed" /\ regions # <<>> =>
    \A u \in utspace :
      /\ u.kind = "DEV_MEM" => Bytes(u.paddr, u.bits) \subseteq RamBytes
      /\ u.kind = "DEV" => Bytes(u.paddr, u.bits) \cap RamBytes = {}

(* A device untyped that overlaps physical memory is cut up at every border *)
(* between RAM and devices, whichever way the regions and the alignment of  *)
(* the pieces lie; for regions as they usually are.                         *)
DeviceRamApart == UsualRegions => DeviceRamMarked

(* Both together: through failures at any step the untyped manager is given *)
(* memory that is there, once, under the right address and kind.            *)
BootUntypedsExact == BootMemoryExact /\ DeviceRamApart

(* As the comment of bootstrap_transfer_caps_simple has it: the CNode       *)
(* capability need not be moved, since the one to the new root CNode is     *)
(* already in its place.                                                    *)
RootCnodeInPlace ==
  phase = "done" /\ FromSimple => NodeOf(layout.cnode) = space

(* As bootstrap_new_simple has it: all the capabilities of the boot CNode   *)
(* are put into the same place of the new CSpace.                           *)
AllCapsTransferred ==
  phase = "done" /\ FromSimple /\ space = "new" =>
    \A s \in DOMAIN BootCaps(layout) \ (UtSlots(layout) \cup {layout.cnode}) :
      s \in DOMAIN new /\ new[s] = BootCaps(layout)[s]
=============================================================================
