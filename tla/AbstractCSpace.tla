--------------------------- MODULE AbstractCSpace ---------------------------
(***************************************************************************)
(* What a CSpace allocator of allocman promises (cspace_interface_t): a    *)
(* slot is handed out to one holder at a time, until it is given back.     *)
(* Existing are the slots in use from the start.                           *)
(***************************************************************************)
EXTENDS Integers

CONSTANTS Slots, Existing

VARIABLE held   \* how many hold each slot

CInit == held = [s \in Slots |-> IF s \in Existing THEN 1 ELSE 0]

CAlloc(s) == held[s] = 0 /\ held' = [held EXCEPT ![s] = 1]

CFree(s) == held[s] = 1 /\ held' = [held EXCEPT ![s] = 0]

CNext == \E s \in Slots : CAlloc(s) \/ CFree(s)

CSpec == CInit /\ [][CNext]_held
===============================================================================
