------------------------------- MODULE CSpaces -------------------------------
(***************************************************************************)
(* The CSpace allocators of libsel4allocman together.  They share no       *)
(* state; what they have in common is cspace_single_level_t, which is an   *)
(* allocator of its own and each level of the two level one.               *)
(***************************************************************************)
EXTENDS CSpaceSingleLevel, CSpaceTwoLevel

(* Through any sequence of alloc, alloc at a slot and free, and of second   *)
(* levels that are created, not created and destroyed, the bitmaps and      *)
(* counts of the CSpace allocators say which slots are in use, and the      *)
(* single level one refuses a slot only when all its whole words are full.  *)
SlotsExact == BitmapExact /\ FreshSlots /\ RefusesOnlyWhenFull /\ TwoLevelInv
===============================================================================
