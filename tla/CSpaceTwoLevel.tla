---------------------------- MODULE CSpaceTwoLevel ----------------------------
(***************************************************************************)
(* The two level CSpace allocator of libsel4allocman                       *)
(* (cspace/two_level.c).  A first level hands out indices; at each one in  *)
(* use a second level CNode is created on demand, and destroyed when its   *)
(* last slot is freed.  Slot s is slot s % Size2 of the second level at    *)
(* index s \div Size2.                                                     *)
(*                                                                         *)
(* Creating a second level needs memory and an untyped, and may fail.      *)
(* A failed assertion, or the dereference of a second level that is not    *)
(* there, stops the program: `stopped`.                                    *)
(***************************************************************************)
EXTENDS SingleLevelOps

CONSTANTS
  Size1,            \* 2^cnode_size_bits, and end_slot; first_slot is 0
  Size2,            \* 2^level_two_bits
  ExistingIndices,  \* second levels that exist from the start
  ExistingSlots     \* slots in use from the start, in those

Indices == 0 .. Size1 - 1
AllSlots == 0 .. Size1 * Size2 - 1

ASSUME TwoLevelConfig ==
  /\ Size1 \in Nat \ {0} /\ Size2 \in Nat \ {0}
  /\ Size1 % WordBits = 0 /\ Size2 % WordBits = 0
  /\ ExistingIndices \subseteq Indices
  /\ ExistingSlots \subseteq {s \in AllSlots : s \div Size2 \in ExistingIndices}

VARIABLES
  first,              \* first_level
  levels,             \* second_levels
  last_second_level,
  held,               \* how many hold each slot
  lost,               \* indices of the first level in use for nothing
  stopped

twoVars == <<first, levels, last_second_level, held, lost, stopped>>

NoLevel == [present |-> FALSE]
NewLevel == [present |-> TRUE, count |-> 0, second_level |-> CreatedLevel(0, Size2)]

L1(s) == s \div Size2
L2(s) == s % Size2

(* cspace_two_level_create() *)
ExistingLevel(i) ==
  LET used == {s \in ExistingSlots : L1(s) = i} IN
  [NewLevel EXCEPT !.count = Cardinality(used),
                   !.second_level.bitmap = @ \ {L2(s) : s \in used}]

TwoInit ==
  /\ first = [CreatedLevel(0, Size1) EXCEPT !.bitmap = @ \ ExistingIndices]
  /\ levels = [i \in Indices |-> IF i \in ExistingIndices THEN ExistingLevel(i) ELSE NoLevel]
  /\ last_second_level = 0
  /\ held = [s \in AllSlots |-> IF s \in ExistingSlots THEN 1 ELSE 0]
  /\ lost = {}
  /\ stopped = FALSE

-----------------------------------------------------------------------------
(* The search for a second level starts at the last one used.  A level is   *)
(* taken for full when all its slots but one are in use.                    *)
Usable(i) == levels[i].present /\ levels[i].count < Size2 - 1

UsableSteps == {k \in Indices : Usable((last_second_level + k) % Size1)}

(* A slot of the second level at i is taken, and counted. *)
TakeFrom(ls, i) ==
  [ls EXCEPT ![i].second_level = AfterAlloc(@), ![i].count = @ + 1]

SlotOf(ls, i) == i * Size2 + NextSlot(ls[i].second_level)

(* _cspace_two_level_alloc() when a second level is found *)
AllocFound ==
  /\ ~stopped
  /\ UsableSteps # {}
  /\ LET i == (last_second_level + Min(UsableSteps)) % Size1 IN
       /\ held' = [held EXCEPT ![SlotOf(levels, i)] = @ + 1]
       /\ levels' = TakeFrom(levels, i)
       /\ last_second_level' = i
  /\ UNCHANGED <<first, lost, stopped>>

(* ...and when none is: a second level is created at a free index, and the   *)
(* slot is taken from the level the search had started from.                *)
AllocCreates ==
  /\ ~stopped
  /\ UsableSteps = {}
  /\ HasRoom(first)
  /\ first' = AfterAlloc(first)
  /\ LET ls == [levels EXCEPT ![NextSlot(first)] = NewLevel]
         i == last_second_level IN
       IF ls[i].present /\ HasRoom(ls[i].second_level)
         THEN /\ held' = [held EXCEPT ![SlotOf(ls, i)] = @ + 1]
              /\ levels' = TakeFrom(ls, i)
              /\ UNCHANGED stopped
         ELSE stopped' = TRUE /\ levels' = ls /\ UNCHANGED held
  /\ UNCHANGED <<last_second_level, lost>>

(* ...or the second level could not be created: the index stays in use. *)
AllocCreateFails ==
  /\ ~stopped
  /\ UsableSteps = {}
  /\ HasRoom(first)
  /\ lost' = lost \cup {NextSlot(first)}
  /\ first' = AfterAlloc(first)
  /\ UNCHANGED <<levels, last_second_level, held, stopped>>

-----------------------------------------------------------------------------
(* _cspace_two_level_alloc_at() in a second level that exists *)
AllocAtExisting(s) ==
  /\ ~stopped
  /\ levels[L1(s)].present
  /\ CanAllocAt(levels[L1(s)].second_level, L2(s))
  /\ levels' = [levels EXCEPT ![L1(s)].second_level = AfterAllocAt(@, L2(s)), ![L1(s)].count = @ + 1]
  /\ held' = [held EXCEPT ![s] = @ + 1]
  /\ UNCHANGED <<first, last_second_level, lost, stopped>>

(* ...or in one that is created for it... *)
AllocAtCreates(s) ==
  /\ ~stopped
  /\ ~levels[L1(s)].present
  /\ CanAllocAt(first, L1(s))
  /\ first' = AfterAllocAt(first, L1(s))
  /\ levels' = [levels EXCEPT ![L1(s)] =
                  [NewLevel EXCEPT !.second_level = AfterAllocAt(@, L2(s)), !.count = 1]]
  /\ held' = [held EXCEPT ![s] = @ + 1]
  /\ UNCHANGED <<last_second_level, lost, stopped>>

(* ...if that succeeds. *)
AllocAtCreateFails(s) ==
  /\ ~stopped
  /\ ~levels[L1(s)].present
  /\ CanAllocAt(first, L1(s))
  /\ first' = AfterAllocAt(first, L1(s))
  /\ lost' = lost \cup {L1(s)}
  /\ UNCHANGED <<levels, last_second_level, held, stopped>>

-----------------------------------------------------------------------------
SlotReturned(l, slot) == [l EXCEPT !.second_level = AfterFree(@, slot), !.count = @ - 1]

LastSlot(s) == levels[L1(s)].count = 1

(* _cspace_two_level_free(), with _destroy_second_level() *)
TwoFree(s) ==
  /\ ~stopped
  /\ held[s] > 0
  /\ held' = [held EXCEPT ![s] = @ - 1]
  /\ levels' = [levels EXCEPT ![L1(s)] =
                  IF LastSlot(s) THEN NoLevel ELSE SlotReturned(levels[L1(s)], L2(s))]
  /\ first' = IF LastSlot(s) THEN AfterFree(first, L1(s)) ELSE first
  /\ UNCHANGED <<last_second_level, lost, stopped>>

TwoNext ==
  \/ AllocFound \/ AllocCreates \/ AllocCreateFails
  \/ \E s \in AllSlots :
       AllocAtExisting(s) \/ AllocAtCreates(s) \/ AllocAtCreateFails(s) \/ TwoFree(s)

TwoSpec == TwoInit /\ [][TwoNext]_twoVars

-----------------------------------------------------------------------------
(* Properties.                                                             *)

PresentLevels == [present : {TRUE}, count : 0 .. Size2, second_level : Levels(0, Size2)]

(* The type invariant. *)
TwoTypeOK ==
  /\ first \in Levels(0, Size1)
  /\ levels \in [Indices -> {NoLevel} \cup PresentLevels]
  /\ last_second_level \in Indices
  /\ held \in [AllSlots -> 0 .. 1]
  /\ lost \subseteq Indices
  /\ stopped \in BOOLEAN

UsedIn(i) == {j \in 0 .. Size2 - 1 : held[i * Size2 + j] > 0}

(* Each second level's bitmap and count, kept apart from each other, both   *)
(* say which of its slots are in use; the count decides when the CNode is   *)
(* destroyed, so no slot in use is in a second level that is not there.     *)
LevelsExact ==
  /\ \A s \in AllSlots : held[s] > 0 => levels[L1(s)].present
  /\ \A i \in Indices : levels[i].present =>
       /\ levels[i].second_level.bitmap = (0 .. Size2 - 1) \ UsedIn(i)
       /\ levels[i].count = Cardinality(UsedIn(i))

(* An index is free in the first level, has its second level, or was lost   *)
(* when creating one failed: a CNode in use is never overwritten by a new   *)
(* one at its index, and no index disappears otherwise.                     *)
IndicesExact ==
  /\ \A i \in Indices :
       i \notin first.bitmap <=> (levels[i].present \/ i \in lost)
  /\ \A i \in lost : ~levels[i].present

(* What the operations keep true of the two levels together. *)
TwoLevelInv ==
  /\ TwoTypeOK
  /\ LevelsExact
  /\ IndicesExact

(* The promise of the interface, through the creation and destruction of    *)
(* second levels: no slot has two holders.                                  *)
Abs2 == INSTANCE AbstractCSpace WITH Slots <- AllSlots, Existing <- ExistingSlots
TwoLevelImplements == Abs2!CSpec

(* "This just shouldn't be possible" (_cspace_two_level_alloc()): the        *)
(* second level a slot is taken from has a free one.                        *)
AlwaysASlot == ~stopped
===============================================================================
