--------------------------- MODULE SingleLevelOps ---------------------------
(***************************************************************************)
(* cspace_single_level_t of libsel4allocman (cspace/single_level.c) as a   *)
(* record and operators on it: a bitmap of the free slots, searched word   *)
(* by word from the word last allocated from.  The bitmap is the set of    *)
(* its one bits.  bitmap_length counts whole words only.                   *)
(***************************************************************************)
EXTENDS Integers, FiniteSets, FiniteSetsExt

CONSTANT WordBits   \* BITS_PER_WORD

ASSUME WordBitsPositive == WordBits \in Nat \ {0}

NoWord == -1

(* cspace_single_level_create() for the slots first .. first + num - 1 *)
CreatedLevel(first, num) ==
  [first |-> first, bitmap_length |-> num \div WordBits, bitmap |-> 0 .. num - 1, last_entry |-> 0]

(* What the operations keep of a level: its size, and where a search starts. *)
Levels(from, num) ==
  {c \in [first : {from}, bitmap_length : {num \div WordBits}, bitmap : SUBSET (0 .. num - 1), last_entry : Nat] :
     c.last_entry = 0 \/ c.last_entry < c.bitmap_length}

Word(cs, w) == {x \in cs.bitmap : x \div WordBits = w}

(* Mutant: the search stops one word early. *)
EntryToUseShort(cs) ==
  LET ahead == {k \in 1 .. cs.bitmap_length - 2 :
                  Word(cs, (cs.last_entry + k) % cs.bitmap_length) # {}} IN
  IF Word(cs, cs.last_entry) # {} THEN cs.last_entry
  ELSE IF ahead = {} THEN NoWord ELSE (cs.last_entry + Min(ahead)) % cs.bitmap_length

(* _cspace_single_level_alloc(): the word to allocate from, the last one if *)
(* it has a free slot, else the next one that has.                          *)
EntryToUse(cs) ==
  LET ahead == {k \in 1 .. cs.bitmap_length - 1 :
                  Word(cs, (cs.last_entry + k) % cs.bitmap_length) # {}} IN
  IF Word(cs, cs.last_entry) # {} THEN cs.last_entry
  ELSE IF ahead = {} THEN NoWord ELSE (cs.last_entry + Min(ahead)) % cs.bitmap_length

HasRoom(cs) == EntryToUse(cs) # NoWord

(* ...and the slot taken from it, the highest one (CLZL). *)
NextIndex(cs) == Max(Word(cs, EntryToUse(cs)))

NextSlot(cs) == cs.first + NextIndex(cs)

(* Mutant: the slot stays free. *)
AfterAllocStillFree(cs) == [cs EXCEPT !.last_entry = EntryToUse(cs)]

AfterAlloc(cs) ==
  [cs EXCEPT !.bitmap = @ \ {NextIndex(cs)}, !.last_entry = EntryToUse(cs)]

(* Mutant: slots that are in use are given out as well. *)
CanAllocAtBlind(cs, slot) ==
  LET index == slot - cs.first IN
  /\ index >= 0
  /\ index \div WordBits < cs.bitmap_length

(* _cspace_single_level_alloc_at(): in range, and free *)
CanAllocAt(cs, slot) ==
  LET index == slot - cs.first IN
  /\ index >= 0                     \* else the unsigned index is huge
  /\ index \div WordBits < cs.bitmap_length
  /\ index \in cs.bitmap

AfterAllocAt(cs, slot) == [cs EXCEPT !.bitmap = @ \ {slot - cs.first}]

(* _cspace_single_level_free() *)
AfterFree(cs, slot) == [cs EXCEPT !.bitmap = @ \cup {slot - cs.first}]
===============================================================================
