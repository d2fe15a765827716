-------------------------- MODULE CSpaceSingleLevel --------------------------
(***************************************************************************)
(* The single level CSpace allocator of libsel4allocman and, for           *)
(* comparison, the allocator that never reuses a slot                      *)
(* (cspace/simple1level.c), each with the slots its users hold.            *)
(***************************************************************************)
EXTENDS SingleLevelOps

CONSTANTS FirstSlot, EndSlot   \* config.first_slot and config.end_slot

ASSUME SlotRange == FirstSlot \in Nat /\ EndSlot \in Nat /\ FirstSlot < EndSlot

VARIABLES
  cs,            \* the cspace_single_level_t
  holders,       \* how many hold each of its slots
  current_slot,  \* of the cspace_simple1level_t
  holders1       \* how many hold each slot of that one

single == <<cs, holders>>
simple1 == <<current_slot, holders1>>
singleVars == <<single, simple1>>

ValidSlots == FirstSlot .. EndSlot - 1

SingleInit ==
  /\ cs = CreatedLevel(FirstSlot, EndSlot - FirstSlot)
  /\ holders = [s \in ValidSlots |-> 0]
  /\ current_slot = FirstSlot
  /\ holders1 = [s \in ValidSlots |-> 0]

-----------------------------------------------------------------------------
(* _cspace_single_level_alloc() *)
SingleAlloc ==
  /\ HasRoom(cs)
  /\ holders' = [holders EXCEPT ![NextSlot(cs)] = @ + 1]
  /\ cs' = AfterAlloc(cs)
  /\ UNCHANGED simple1

(* _cspace_single_level_alloc_at() *)
SingleAllocAt(slot) ==
  /\ CanAllocAt(cs, slot)
  /\ holders' = [holders EXCEPT ![slot] = @ + 1]
  /\ cs' = AfterAllocAt(cs, slot)
  /\ UNCHANGED simple1

(* _cspace_single_level_free(), by a holder *)
SingleFree(slot) ==
  /\ holders[slot] > 0
  /\ holders' = [holders EXCEPT ![slot] = @ - 1]
  /\ cs' = AfterFree(cs, slot)
  /\ UNCHANGED simple1

(* _cspace_simple1level_alloc() *)
Simple1Alloc ==
  /\ current_slot # EndSlot
  /\ holders1' = [holders1 EXCEPT ![current_slot] = @ + 1]
  /\ current_slot' = current_slot + 1
  /\ UNCHANGED single

(* _cspace_simple1level_free() ignores that the slot is given back. *)
Simple1Free(slot) ==
  /\ holders1[slot] > 0
  /\ holders1' = [holders1 EXCEPT ![slot] = @ - 1]
  /\ UNCHANGED <<single, current_slot>>

SingleNext ==
  \/ SingleAlloc
  \/ Simple1Alloc
  \/ \E slot \in ValidSlots : SingleAllocAt(slot) \/ SingleFree(slot) \/ Simple1Free(slot)

SingleSpec == SingleInit /\ [][SingleNext]_singleVars

-----------------------------------------------------------------------------
(* Properties.                                                             *)

(* The type invariant. *)
SingleTypeOK ==
  /\ cs \in Levels(FirstSlot, EndSlot - FirstSlot)
  /\ holders \in [ValidSlots -> 0 .. 1]
  /\ current_slot \in FirstSlot .. EndSlot
  /\ holders1 \in [ValidSlots -> 0 .. 1]

(* The bitmap is exact: a slot is free or in use, never both or neither, so *)
(* the assertion of _cspace_single_level_free() holds of every slot in use. *)
BitmapExact ==
  /\ SingleTypeOK
  /\ cs.bitmap = {x \in 0 .. EndSlot - FirstSlot - 1 : holders[FirstSlot + x] = 0}

(* cspace_simple1level_t needs no bitmap: nobody holds a slot from          *)
(* current_slot on, whatever was given back before it.                      *)
FreshSlots == \A s \in current_slot .. EndSlot - 1 : holders1[s] = 0

(* The search of _cspace_single_level_alloc() misses no word, wherever      *)
(* frees and allocations at a slot have left last_entry: an allocation is   *)
(* refused only when every slot of the whole words is in use.               *)
RefusesOnlyWhenFull ==
  ~HasRoom(cs) => \A x \in 0 .. cs.bitmap_length * WordBits - 1 : holders[FirstSlot + x] > 0

Abs == INSTANCE AbstractCSpace WITH Slots <- ValidSlots, Existing <- {}, held <- holders
Abs1 == INSTANCE AbstractCSpace WITH Slots <- ValidSlots, Existing <- {}, held <- holders1

(* Both allocators keep the promise of the interface: no slot has two       *)
(* holders at a time.                                                       *)
SingleImplements == Abs!CSpec /\ Abs1!CSpec
===============================================================================
