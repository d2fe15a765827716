----------------------- MODULE SlotsAndBlocks_proofs -----------------------
(***************************************************************************)
(* Proofs about the slots and the memory that an allocation manager keeps  *)
(* its own records in.                                                     *)
(*                                                                         *)
(* The CSpace allocators, for any word size, any range of slots and any    *)
(* sizes of the two levels: SlotsExact is inductive, and every step is a   *)
(* step of the abstract allocator.                                         *)
(*                                                                         *)
(* The memory pools, for any sizes of the pools, of pages and of headers:  *)
(* the free list of k_r_malloc.c and the blocks that are held tile the     *)
(* memory, through every split and every join.  The blocks of a heap, free *)
(* or held, are seen as one function s from their headers to their sizes.  *)
(* Freeing a block joins entries of s, and allocating one cuts an entry in *)
(* two; the list is the part of s that is free.                            *)
(*                                                                         *)
(* And about the slots and the memory of the serial server, for any finite *)
(* sets of clients and slots: its registry, its mappings and its clients'  *)
(* connections agree.                                                      *)
(***************************************************************************)
EXTENDS CSpaces, MemPool, SerialServer, FiniteSetTheorems, WellFoundedInduction, TLAPS

(* A set of naturals has a least element, and a bounded one a greatest. *)
LEMMA LeastNat ==
  ASSUME NEW S \in SUBSET Nat, S # {}
  PROVE  \E x \in S : \A y \in S : x <= y
<1>1. PICK x \in S : \A y \in S : ~ (<<y, x>> \in OpToRel(<, Nat))
  BY WFMin, NatLessThanWellFounded
<1>2. ASSUME NEW y \in S, y < x
      PROVE  <<y, x>> \in OpToRel(<, Nat)
  <2>1. <<y, x>> \in Nat \X Nat
    OBVIOUS
  <2>2. <<y, x>>[1] < <<y, x>>[2]
    BY <1>2
  <2> QED
    BY <2>1, <2>2, Zenon DEF OpToRel
<1>3. \A y \in S : ~ (y < x)
  BY <1>1, <1>2
<1> QED
  BY <1>3

(* A bounded set has a greatest element. *)
LEMMA GreatestUpTo ==
  ASSUME NEW n \in Nat, NEW S \in SUBSET (0 .. n), S # {}
  PROVE  \E x \in S : \A y \in S : x >= y
<1> DEFINE T == {n - x : x \in S}
<1>1. T \in SUBSET Nat
  OBVIOUS
<1>2. T # {}
  <2>1. PICK z \in S : TRUE
    OBVIOUS
  <2>2. n - z \in T
    OBVIOUS
  <2> QED
    BY <2>2
<1> HIDE DEF T
<1>3. PICK t \in T : \A u \in T : t <= u
  BY <1>1, <1>2, LeastNat
<1>4. PICK x \in S : t = n - x
  BY <1>3 DEF T
<1>5. ASSUME NEW y \in S
      PROVE  x >= y
  <2>1. n - y \in T
    BY DEF T
  <2>2. n - x <= n - y
    BY <1>3, <1>4, <2>1
  <2> QED
    BY <2>2
<1> QED
  BY <1>5

(* Min and Max of FiniteSetsExt return them. *)
LEMMA MinIsLeast ==
  ASSUME NEW S \in SUBSET Nat, S # {}
  PROVE  Min(S) \in S
BY LeastNat DEF Min

(* Max, of a bounded set. *)
LEMMA MaxIsGreatest ==
  ASSUME NEW n \in Nat, NEW S \in SUBSET (0 .. n), S # {}
  PROVE  Max(S) \in S
BY GreatestUpTo DEF Max

-----------------------------------------------------------------------------
(* One level.                                                              *)

(* The word that the search settles on has a free slot, and the next search *)
(* may start there.                                                         *)
LEMMA EntryHasRoom ==
  ASSUME NEW from, NEW num \in Nat \ {0}, NEW c \in Levels(from, num), HasRoom(c)
  PROVE  /\ Word(c, EntryToUse(c)) # {}
         /\ EntryToUse(c) \in Nat
         /\ EntryToUse(c) = 0 \/ EntryToUse(c) < c.bitmap_length
<1> DEFINE ahead == {k \in 1 .. c.bitmap_length - 1 :
                       Word(c, (c.last_entry + k) % c.bitmap_length) # {}}
<1>1. c.last_entry \in Nat /\ c.bitmap_length \in Nat /\ (c.last_entry = 0 \/ c.last_entry < c.bitmap_length)
  BY WordBitsPositive DEF Levels
<1>2. CASE Word(c, c.last_entry) # {}
  BY <1>1, <1>2 DEF EntryToUse
<1>3. CASE Word(c, c.last_entry) = {}
  <2>1. ahead # {} /\ EntryToUse(c) = (c.last_entry + Min(ahead)) % c.bitmap_length
    BY <1>3 DEF HasRoom, EntryToUse
  <2>2. ahead \in SUBSET Nat
    OBVIOUS
  <2>3. Min(ahead) \in ahead
    BY <2>1, <2>2, MinIsLeast
  <2>4. Word(c, (c.last_entry + Min(ahead)) % c.bitmap_length) # {} /\ Min(ahead) \in 1 .. c.bitmap_length - 1
    BY <2>3
  <2> HIDE DEF ahead
  <2>5. (c.last_entry + Min(ahead)) % c.bitmap_length \in 0 .. c.bitmap_length - 1
    BY <2>4, <1>1
  <2> QED
    BY <2>1, <2>4, <2>5, <1>1
<1> QED
  BY <1>2, <1>3

(* The slot it takes is a free one. *)
LEMMA NextIndexFree ==
  ASSUME NEW from, NEW num \in Nat \ {0}, NEW c \in Levels(from, num), HasRoom(c)
  PROVE  NextIndex(c) \in c.bitmap /\ NextIndex(c) \in 0 .. num - 1 /\ AfterAlloc(c) \in Levels(from, num)
<1>1. c.bitmap \subseteq 0 .. num - 1
  BY DEF Levels
<1>2. Word(c, EntryToUse(c)) \in SUBSET (0 .. (num - 1)) /\ Word(c, EntryToUse(c)) # {} /\ num - 1 \in Nat
  BY <1>1, EntryHasRoom DEF Word
<1>3. NextIndex(c) \in Word(c, EntryToUse(c))
  BY <1>2, MaxIsGreatest DEF NextIndex
<1>4. NextIndex(c) \in c.bitmap
  BY <1>3 DEF Word
<1>5. AfterAlloc(c) \in Levels(from, num)
  BY EntryHasRoom DEF AfterAlloc, Levels
<1> QED
  BY <1>1, <1>4, <1>5

(* No word is missed: when the search finds nothing, no slot of the whole   *)
(* words is free.                                                           *)
LEMMA SearchMissesNothing ==
  ASSUME NEW from, NEW num \in Nat \ {0}, NEW c \in Levels(from, num), ~HasRoom(c),
         NEW x \in 0 .. c.bitmap_length * WordBits - 1
  PROVE  x \notin c.bitmap
<1> DEFINE w == x \div WordBits
           ahead == {k \in 1 .. c.bitmap_length - 1 :
                       Word(c, (c.last_entry + k) % c.bitmap_length) # {}}
<1>1. c.last_entry \in Nat /\ c.bitmap_length \in Nat /\ (c.last_entry = 0 \/ c.last_entry < c.bitmap_length)
  BY WordBitsPositive DEF Levels
<1>2. w \in 0 .. c.bitmap_length - 1
  BY <1>1, WordBitsPositive
<1>3. SUFFICES ASSUME x \in c.bitmap PROVE FALSE
  OBVIOUS
<1>4. Word(c, w) # {}
  BY <1>3 DEF Word
<1>5. Word(c, c.last_entry) = {}
  BY <1>1 DEF HasRoom, EntryToUse, NoWord
<1> DEFINE k == IF w > c.last_entry THEN w - c.last_entry ELSE w - c.last_entry + c.bitmap_length
<1> HIDE DEF w
<1>6. w # c.last_entry /\ c.last_entry \in 0 .. c.bitmap_length - 1
  BY <1>1, <1>2, <1>4, <1>5
<1>7. k \in 1 .. c.bitmap_length - 1
  BY <1>1, <1>2, <1>6
<1>8. (c.last_entry + k) % c.bitmap_length = w
  <2>1. c.last_entry + k = w \/ c.last_entry + k = w + c.bitmap_length
    BY <1>1, <1>2
  <2> QED
    BY <2>1, <1>1, <1>2
<1> HIDE DEF k
<1>9. k \in ahead
  BY <1>4, <1>7, <1>8
<1>10. Min(ahead) \in ahead
  <2>1. ahead \in SUBSET Nat
    OBVIOUS
  <2> HIDE DEF ahead
  <2>2. ahead # {}
    BY <1>9
  <2> QED
    BY <2>1, <2>2, MinIsLeast
<1>11. EntryToUse(c) = (c.last_entry + Min(ahead)) % c.bitmap_length
  BY <1>5, <1>9 DEF EntryToUse
<1>12. Min(ahead) \in Nat /\ c.bitmap_length \in Nat \ {0}
  BY <1>10, <1>1, <1>2
<1> HIDE DEF ahead
<1>13. (c.last_entry + Min(ahead)) % c.bitmap_length >= 0
  BY <1>12, <1>1
<1> QED
  BY <1>11, <1>13 DEF HasRoom, NoWord

-----------------------------------------------------------------------------
(* The single level allocator.                                             *)

Num == EndSlot - FirstSlot

(* The range of slots is not empty. *)
LEMMA NumPositive == Num \in Nat \ {0}
BY SlotRange DEF Num

(* cspace_single_level_create() *)
LEMMA CreatedIsLevel ==
  ASSUME NEW from, NEW num \in Nat
  PROVE  CreatedLevel(from, num) \in Levels(from, num)
BY DEF CreatedLevel, Levels

(* A level just created is exact. *)
LEMMA InitBitmapExact ==
  ASSUME SingleInit
  PROVE  BitmapExact
<1>1. cs \in Levels(FirstSlot, EndSlot - FirstSlot)
  BY CreatedIsLevel, NumPositive DEF SingleInit, Num
<1>2. SingleTypeOK
  BY <1>1, SlotRange DEF SingleInit, SingleTypeOK, ValidSlots
<1>3. \A x \in 0 .. EndSlot - FirstSlot - 1 : FirstSlot + x \in ValidSlots
  BY SlotRange DEF ValidSlots
<1> QED
  BY <1>2, <1>3 DEF SingleInit, BitmapExact, CreatedLevel

(* A free slot is taken: alloc and alloc_at alike. *)
LEMMA SlotTaken ==
  ASSUME BitmapExact, NEW x \in cs.bitmap, cs' \in Levels(FirstSlot, EndSlot - FirstSlot),
         cs'.bitmap = cs.bitmap \ {x},
         holders' = [holders EXCEPT ![FirstSlot + x] = @ + 1], UNCHANGED simple1
  PROVE  BitmapExact' /\ Abs!CAlloc(FirstSlot + x) /\ FirstSlot + x \in ValidSlots
<1>1. x \in 0 .. EndSlot - FirstSlot - 1 /\ holders[FirstSlot + x] = 0
  BY DEF BitmapExact
<1>2. FirstSlot + x \in ValidSlots
  BY <1>1, SlotRange DEF ValidSlots
<1>3. holders' = [holders EXCEPT ![FirstSlot + x] = 1]
  BY <1>1, <1>2 DEF BitmapExact, SingleTypeOK
<1>4. SingleTypeOK'
  BY <1>2, <1>3 DEF BitmapExact, SingleTypeOK, simple1
<1>5. ASSUME NEW y \in 0 .. EndSlot - FirstSlot - 1
      PROVE  y \in cs'.bitmap <=> holders'[FirstSlot + y] = 0
  <2>1. FirstSlot + y \in ValidSlots
    BY SlotRange DEF ValidSlots
  <2>2. y = x <=> FirstSlot + y = FirstSlot + x
    BY SlotRange, <1>1
  <2>3. holders'[FirstSlot + y] = IF y = x THEN 1 ELSE holders[FirstSlot + y]
    BY <2>1, <2>2, <1>3 DEF BitmapExact, SingleTypeOK
  <2> QED
    BY <2>3 DEF BitmapExact
<1>6. cs'.bitmap \subseteq 0 .. EndSlot - FirstSlot - 1
  BY DEF BitmapExact
<1> QED
  BY <1>1, <1>2, <1>3, <1>4, <1>5, <1>6 DEF BitmapExact, Abs!CAlloc

(* Every operation of the single level keeps it exact, and is one of the contract. *)
LEMMA SingleStep ==
  ASSUME BitmapExact, FreshSlots, SingleNext
  PROVE  BitmapExact' /\ FreshSlots' /\ (Abs!CNext \/ UNCHANGED holders) /\ (Abs1!CNext \/ UNCHANGED holders1)
<1> USE NumPositive
<1>0. cs \in Levels(FirstSlot, EndSlot - FirstSlot) /\ cs.first = FirstSlot
  BY DEF BitmapExact, SingleTypeOK, Levels
<1>1. ASSUME SingleAlloc
      PROVE  BitmapExact' /\ Abs!CNext /\ UNCHANGED simple1
  <2>1. NextIndex(cs) \in cs.bitmap /\ AfterAlloc(cs) \in Levels(FirstSlot, EndSlot - FirstSlot)
    BY <1>0, <1>1, NextIndexFree DEF SingleAlloc, Num
  <2>2. NextSlot(cs) = FirstSlot + NextIndex(cs)
    BY <1>0 DEF NextSlot
  <2>3. cs'.bitmap = cs.bitmap \ {NextIndex(cs)}
    BY <1>0, <1>1 DEF SingleAlloc, AfterAlloc, Levels
  <2>4. BitmapExact' /\ Abs!CAlloc(NextSlot(cs)) /\ NextSlot(cs) \in ValidSlots
    BY <1>1, <2>1, <2>2, <2>3, SlotTaken DEF SingleAlloc
  <2> QED
    BY <2>4, <1>1 DEF Abs!CNext, SingleAlloc
<1>2. ASSUME NEW slot \in ValidSlots, SingleAllocAt(slot)
      PROVE  BitmapExact' /\ Abs!CNext /\ UNCHANGED holders1
  <2> DEFINE x == slot - FirstSlot
  <2>1. x \in cs.bitmap /\ slot = FirstSlot + x
    BY <1>0, <1>2, SlotRange DEF SingleAllocAt, CanAllocAt, ValidSlots
  <2>2. cs' \in Levels(FirstSlot, EndSlot - FirstSlot) /\ cs'.bitmap = cs.bitmap \ {x}
    BY <1>0, <1>2 DEF SingleAllocAt, AfterAllocAt, Levels
  <2>3. BitmapExact' /\ Abs!CAlloc(slot)
    BY <1>2, <2>1, <2>2, SlotTaken DEF SingleAllocAt
  <2> QED
    BY <2>3, <1>2 DEF Abs!CNext, SingleAllocAt, simple1
<1>3. ASSUME NEW slot \in ValidSlots, SingleFree(slot)
      PROVE  BitmapExact' /\ Abs!CNext /\ UNCHANGED holders1
  <2> DEFINE x == slot - FirstSlot
  <2>1. x \in 0 .. EndSlot - FirstSlot - 1 /\ slot = FirstSlot + x
    BY SlotRange DEF ValidSlots
  <2>2. cs' \in Levels(FirstSlot, EndSlot - FirstSlot) /\ cs'.bitmap = cs.bitmap \cup {x}
    BY <1>0, <1>3, <2>1 DEF SingleFree, AfterFree, Levels
  <2>3. holders[slot] = 1 /\ holders' = [holders EXCEPT ![slot] = 0]
    <3>1. holders[slot] \in 0 .. 1 /\ holders[slot] > 0
      BY <1>3 DEF BitmapExact, SingleTypeOK, SingleFree
    <3>2. holders[slot] = 1 /\ holders[slot] - 1 = 0
      BY <3>1
    <3> QED
      BY <3>2, <1>3 DEF SingleFree
  <2>4. SingleTypeOK'
    BY <1>3, <2>2, <2>3 DEF SingleFree, BitmapExact, SingleTypeOK, simple1
  <2>5. ASSUME NEW y \in 0 .. EndSlot - FirstSlot - 1
        PROVE  y \in cs'.bitmap <=> holders'[FirstSlot + y] = 0
    <3>1. FirstSlot + y \in ValidSlots
      BY SlotRange DEF ValidSlots
    <3>2. y = x <=> FirstSlot + y = slot
      BY SlotRange, <2>1
    <3>3. holders'[FirstSlot + y] = IF y = x THEN 0 ELSE holders[FirstSlot + y]
      BY <3>1, <3>2, <2>3 DEF BitmapExact, SingleTypeOK
    <3> QED
      BY <3>3, <2>2 DEF BitmapExact
  <2>6. cs'.bitmap \subseteq 0 .. EndSlot - FirstSlot - 1
    BY <2>1, <2>2 DEF BitmapExact
  <2> QED
    BY <1>3, <2>3, <2>4, <2>5, <2>6 DEF BitmapExact, Abs!CNext, Abs!CFree, SingleFree, simple1
<1>4. CASE Simple1Alloc
  <2>1. current_slot \in ValidSlots /\ holders1[current_slot] = 0
    BY <1>4, SlotRange DEF Simple1Alloc, BitmapExact, SingleTypeOK, FreshSlots, ValidSlots
  <2>2. holders1' = [holders1 EXCEPT ![current_slot] = 1]
    BY <1>4, <2>1 DEF Simple1Alloc, BitmapExact, SingleTypeOK
  <2>3. BitmapExact'
    BY <1>4, <2>1, <2>2, SlotRange DEF Simple1Alloc, BitmapExact, SingleTypeOK, ValidSlots, single
  <2>4. FreshSlots'
    BY <1>4, <2>1, <2>2, SlotRange DEF Simple1Alloc, BitmapExact, SingleTypeOK, FreshSlots, ValidSlots
  <2> QED
    BY <1>4, <2>1, <2>2, <2>3, <2>4 DEF Simple1Alloc, Abs1!CNext, Abs1!CAlloc, single
<1>5. ASSUME NEW slot \in ValidSlots, Simple1Free(slot)
      PROVE  BitmapExact' /\ FreshSlots' /\ Abs1!CNext /\ UNCHANGED holders
  <2>1. holders1[slot] = 1 /\ holders1' = [holders1 EXCEPT ![slot] = 0]
    <3>1. holders1[slot] \in 0 .. 1 /\ holders1[slot] > 0
      BY <1>5 DEF BitmapExact, SingleTypeOK, Simple1Free
    <3>2. holders1[slot] = 1 /\ holders1[slot] - 1 = 0
      BY <3>1
    <3> QED
      BY <3>2, <1>5 DEF Simple1Free
  <2>2. BitmapExact'
    BY <1>5, <2>1 DEF Simple1Free, BitmapExact, SingleTypeOK, single
  <2>3. FreshSlots'
    BY <1>5, <2>1, SlotRange DEF Simple1Free, BitmapExact, SingleTypeOK, FreshSlots, ValidSlots
  <2> QED
    BY <1>5, <2>1, <2>2, <2>3 DEF Simple1Free, Abs1!CNext, Abs1!CFree, single
<1>6. UNCHANGED simple1 => FreshSlots' /\ UNCHANGED holders1
  BY DEF simple1, FreshSlots
<1>7. (\E slot \in ValidSlots : SingleAllocAt(slot) \/ SingleFree(slot)) => UNCHANGED simple1
  BY DEF SingleAllocAt, SingleFree
<1> QED
  BY <1>1, <1>2, <1>3, <1>4, <1>5, <1>6, <1>7 DEF SingleNext

(* The bitmap's search serves every request that it can. *)
LEMMA ExactSearch ==
  ASSUME BitmapExact
  PROVE  RefusesOnlyWhenFull
<1>1. SUFFICES ASSUME ~HasRoom(cs), NEW x \in 0 .. cs.bitmap_length * WordBits - 1
               PROVE  holders[FirstSlot + x] > 0
  BY DEF RefusesOnlyWhenFull
<1>2. cs \in Levels(FirstSlot, EndSlot - FirstSlot)
  BY DEF BitmapExact, SingleTypeOK
<1>3. x \notin cs.bitmap
  BY <1>1, <1>2, SearchMissesNothing, NumPositive DEF Num
<1>4. x \in 0 .. EndSlot - FirstSlot - 1
  <2>1. cs.bitmap_length = Num \div WordBits
    BY <1>2 DEF Levels, Num
  <2>2. (Num \div WordBits) * WordBits <= Num /\ Num \div WordBits \in Nat
    BY NumPositive, WordBitsPositive
  <2> HIDE DEF Num
  <2>3. x \in 0 .. Num - 1
    BY <2>1, <2>2, NumPositive, WordBitsPositive
  <2> QED
    BY <2>3 DEF Num
<1>5. FirstSlot + x \in ValidSlots
  BY <1>4, SlotRange DEF ValidSlots
<1> QED
  BY <1>3, <1>4, <1>5 DEF BitmapExact, SingleTypeOK

(* The single level allocators, in every reachable state. *)
THEOREM SingleLevelExact == SingleSpec => [](BitmapExact /\ FreshSlots /\ RefusesOnlyWhenFull)
<1>1. SingleInit => BitmapExact /\ FreshSlots
  BY InitBitmapExact DEF SingleInit, FreshSlots, ValidSlots
<1>2. BitmapExact /\ FreshSlots /\ [SingleNext]_singleVars => BitmapExact' /\ FreshSlots'
  <2>1. BitmapExact /\ FreshSlots /\ UNCHANGED singleVars => BitmapExact' /\ FreshSlots'
    BY DEF singleVars, single, simple1, BitmapExact, SingleTypeOK, FreshSlots
  <2> QED
    BY <2>1, SingleStep
<1> QED
  BY <1>1, <1>2, ExactSearch, PTL DEF SingleSpec

(* They keep the promise of the interface: no slot is handed out twice. *)
THEOREM SingleLevelRefines == SingleSpec => SingleImplements
<1>1. SingleInit => Abs!CInit /\ Abs1!CInit
  BY DEF SingleInit, Abs!CInit, Abs1!CInit
<1>2. BitmapExact /\ FreshSlots /\ [SingleNext]_singleVars => [Abs!CNext]_holders /\ [Abs1!CNext]_holders1
  <2>1. UNCHANGED singleVars => UNCHANGED holders /\ UNCHANGED holders1
    BY DEF singleVars, single, simple1
  <2> QED
    BY <2>1, SingleStep
<1> QED
  BY <1>1, <1>2, SingleLevelExact, PTL DEF SingleSpec, SingleImplements, Abs!CSpec, Abs1!CSpec

-----------------------------------------------------------------------------
(* The two level allocator.                                                *)

(* The sizes of both levels are whole words. *)
LEMMA Sizes ==
  /\ Size1 \in Nat \ {0} /\ Size2 \in Nat \ {0}
  /\ (Size1 \div WordBits) * WordBits = Size1
  /\ (Size2 \div WordBits) * WordBits = Size2
BY TwoLevelConfig, WordBitsPositive

(* A slot is an index and a slot of the second level at it, and back. *)
LEMMA SlotSplits ==
  ASSUME NEW s \in AllSlots
  PROVE  L1(s) \in Indices /\ L2(s) \in 0 .. Size2 - 1 /\ L1(s) * Size2 + L2(s) = s
BY Sizes DEF AllSlots, Indices, L1, L2

(* An index and a slot at it are a slot, and back. *)
LEMMA SlotJoins ==
  ASSUME NEW i \in Indices, NEW j \in 0 .. Size2 - 1
  PROVE  i * Size2 + j \in AllSlots /\ L1(i * Size2 + j) = i /\ L2(i * Size2 + j) = j
BY Sizes DEF AllSlots, Indices, L1, L2

(* The slots in use at an index can be counted. *)
LEMMA UsedInFinite ==
  ASSUME NEW U \in SUBSET (0 .. Size2 - 1)
  PROVE  IsFiniteSet(U) /\ Cardinality(U) \in 0 .. Size2 /\ (Cardinality(U) = Size2 => U = 0 .. Size2 - 1)
<1>1. IsFiniteSet(0 .. Size2 - 1) /\ Cardinality(0 .. Size2 - 1) = Size2
  BY FS_Interval, Sizes
<1>2. IsFiniteSet(U) /\ Cardinality(U) <= Size2 /\ (Cardinality(U) = Size2 => U = 0 .. Size2 - 1)
  BY <1>1, FS_Subset
<1>3. Cardinality(U) \in Nat
  BY <1>2, FS_CardinalityType
<1> QED
  BY <1>2, <1>3, Sizes

(* What LevelsExact says of one second level: U are its slots in use. *)
Exact(l, U) ==
  IF l.present
  THEN l.second_level.bitmap = (0 .. Size2 - 1) \ U /\ l.count = Cardinality(U)
  ELSE U = {}

(* The levels are exact when each of them is. *)
LEMMA ExactEach ==
  ASSUME TwoTypeOK
  PROVE  LevelsExact <=> \A i \in Indices : Exact(levels[i], UsedIn(i))
<1>1. ASSUME LevelsExact, NEW i \in Indices
      PROVE  Exact(levels[i], UsedIn(i))
  <2>1. CASE levels[i].present
    BY <1>1, <2>1 DEF LevelsExact, Exact
  <2>2. CASE ~levels[i].present
    <3>1. ASSUME NEW j \in 0 .. Size2 - 1
          PROVE  ~(held[i * Size2 + j] > 0)
      BY <1>1, <2>2, SlotJoins DEF LevelsExact
    <3> QED
      BY <3>1, <2>2 DEF Exact, UsedIn
  <2> QED
    BY <2>1, <2>2
<1>2. ASSUME \A i \in Indices : Exact(levels[i], UsedIn(i))
      PROVE  LevelsExact
  <2>1. ASSUME NEW s \in AllSlots, held[s] > 0, ~levels[L1(s)].present
        PROVE  FALSE
    <3>1. UsedIn(L1(s)) = {}
      BY <1>2, <2>1, SlotSplits DEF Exact
    <3>2. L2(s) \in UsedIn(L1(s))
      BY <2>1, SlotSplits DEF UsedIn
    <3> QED
      BY <3>1, <3>2
  <2>2. ASSUME NEW i \in Indices, levels[i].present
        PROVE  levels[i].second_level.bitmap = (0 .. Size2 - 1) \ UsedIn(i) /\ levels[i].count = Cardinality(UsedIn(i))
    BY <1>2, <2>2 DEF Exact
  <2> QED
    BY <2>1, <2>2 DEF LevelsExact
<1> QED
  BY <1>1, <1>2

(* A level just created. *)
LEMMA NewIsExact ==
  NewLevel \in PresentLevels /\ Exact(NewLevel, {})
<1>1. NewLevel \in PresentLevels
  BY CreatedIsLevel, Sizes DEF NewLevel, PresentLevels
<1>2. NewLevel.count = Cardinality({}) /\ NewLevel.second_level.bitmap = 0 .. Size2 - 1
  BY FS_EmptySet DEF NewLevel, CreatedLevel
<1> QED
  BY <1>1, <1>2 DEF Exact

(* A level with a slot more in use, and one with a slot less. *)
LEMMA TakenExact ==
  ASSUME NEW l \in PresentLevels, NEW U \in SUBSET (0 .. Size2 - 1), Exact(l, U),
         NEW x \in l.second_level.bitmap,
         NEW sl \in Levels(0, Size2), sl.bitmap = l.second_level.bitmap \ {x}
  PROVE  /\ x \in 0 .. Size2 - 1 /\ x \notin U
         /\ [l EXCEPT !.second_level = sl, !.count = @ + 1] \in PresentLevels
         /\ Exact([l EXCEPT !.second_level = sl, !.count = @ + 1], U \cup {x})
<1>1. l.present = TRUE /\ l.count \in 0 .. Size2 /\ l.second_level \in Levels(0, Size2)
  BY DEF PresentLevels
<1>2. l.second_level.bitmap = (0 .. Size2 - 1) \ U /\ l.count = Cardinality(U)
  BY <1>1 DEF Exact
<1>3. x \in 0 .. Size2 - 1 /\ x \notin U
  BY <1>2
<1>4. Cardinality(U \cup {x}) = l.count + 1
  BY <1>2, <1>3, UsedInFinite, FS_AddElement
<1>5. Cardinality(U \cup {x}) \in 0 .. Size2
  BY <1>3, UsedInFinite
<1>6. [l EXCEPT !.second_level = sl, !.count = @ + 1] \in PresentLevels
  BY <1>4, <1>5 DEF PresentLevels
<1>7. sl.bitmap = (0 .. Size2 - 1) \ (U \cup {x})
  BY <1>2
<1> QED
  BY <1>1, <1>3, <1>4, <1>6, <1>7 DEF Exact, PresentLevels

(* A slot freed in an exact second level. *)
LEMMA FreedExact ==
  ASSUME NEW l \in PresentLevels, NEW U \in SUBSET (0 .. Size2 - 1), Exact(l, U), NEW x \in U
  PROVE  /\ l.count = 1 => U \ {x} = {}
         /\ LET l2 == [l EXCEPT !.second_level = AfterFree(@, x), !.count = @ - 1] IN
            l.count # 1 => l2 \in PresentLevels /\ Exact(l2, U \ {x})
<1>1. l.present = TRUE /\ l.count \in 0 .. Size2 /\ l.second_level \in Levels(0, Size2)
  BY DEF PresentLevels
<1>2. l.second_level.bitmap = (0 .. Size2 - 1) \ U /\ l.count = Cardinality(U)
  BY <1>1 DEF Exact
<1>3. IsFiniteSet(U) /\ IsFiniteSet(U \ {x}) /\ Cardinality(U \ {x}) = l.count - 1
  BY <1>2, UsedInFinite, FS_RemoveElement
<1>4. l.count = 1 => U \ {x} = {}
  BY <1>3, FS_EmptySet
<1>5. Cardinality(U \ {x}) \in 0 .. Size2
  BY UsedInFinite
<1>6. AfterFree(l.second_level, x) \in Levels(0, Size2) /\ AfterFree(l.second_level, x).bitmap = (0 .. Size2 - 1) \ (U \ {x})
  <2>1. AfterFree(l.second_level, x).bitmap = l.second_level.bitmap \cup {x}
    BY <1>1, Sizes DEF AfterFree, Levels
  <2>2. AfterFree(l.second_level, x) \in Levels(0, Size2)
    BY <1>1, Sizes DEF AfterFree, Levels
  <2> QED
    BY <2>1, <2>2, <1>2
<1> DEFINE l2 == [l EXCEPT !.second_level = AfterFree(@, x), !.count = @ - 1]
<1>7. l2.present = TRUE /\ l2.second_level = AfterFree(l.second_level, x) /\ l2.count = l.count - 1
  BY <1>1 DEF PresentLevels
<1>8. l2 \in PresentLevels
  BY <1>1, <1>3, <1>5, <1>6 DEF PresentLevels
<1>9. Exact(l2, U \ {x})
  BY <1>3, <1>6, <1>7 DEF Exact
<1> QED
  BY <1>4, <1>8, <1>9

(* Which second level a slot's holder counts in. *)
LEMMA HeldMore ==
  ASSUME TwoTypeOK, NEW i \in Indices, NEW j \in 0 .. Size2 - 1, j \notin UsedIn(i),
         held' = [held EXCEPT ![i * Size2 + j] = @ + 1]
  PROVE  /\ held' \in [AllSlots -> 0 .. 1] /\ Abs2!CNext
         /\ \A k \in Indices : UsedIn(k)' = IF k = i THEN UsedIn(i) \cup {j} ELSE UsedIn(k)
<1> DEFINE s == i * Size2 + j
<1>1. s \in AllSlots /\ L1(s) = i /\ L2(s) = j
  BY SlotJoins
<1>2. held \in [AllSlots -> 0 .. 1]
  BY DEF TwoTypeOK
<1>3. ~(held[s] > 0)
  BY DEF UsedIn
<1> HIDE DEF s
<1>4. held[s] = 0 /\ held[s] + 1 = 1
  BY <1>1, <1>2, <1>3
<1>5. held' = [held EXCEPT ![s] = 1]
  BY <1>4 DEF s
<1>6. held' \in [AllSlots -> 0 .. 1]
  <2>1. 1 \in 0 .. 1
    OBVIOUS
  <2> QED
    BY <1>1, <1>2, <1>5, <2>1, Zenon
<1>7. Abs2!CNext
  BY <1>1, <1>4, <1>5 DEF Abs2!CNext, Abs2!CAlloc
<1>8. ASSUME NEW k \in Indices, NEW m \in 0 .. Size2 - 1
      PROVE  held'[k * Size2 + m] > 0 <=> (held[k * Size2 + m] > 0 \/ (k = i /\ m = j))
  <2>1. k * Size2 + m \in AllSlots /\ L1(k * Size2 + m) = k /\ L2(k * Size2 + m) = m
    BY SlotJoins
  <2>2. k * Size2 + m = s <=> (k = i /\ m = j)
    BY <1>1, <2>1 DEF s
  <2>3. held'[k * Size2 + m] = IF k * Size2 + m = s THEN 1 ELSE held[k * Size2 + m]
    BY <1>2, <1>5, <2>1
  <2> QED
    BY <2>2, <2>3
<1>9. ASSUME NEW k \in Indices
      PROVE  UsedIn(k)' = IF k = i THEN UsedIn(i) \cup {j} ELSE UsedIn(k)
  BY <1>8 DEF UsedIn
<1> QED
  BY <1>6, <1>7, <1>9

(* A slot given back, as its holders see it. *)
LEMMA HeldLess ==
  ASSUME TwoTypeOK, NEW s \in AllSlots, held[s] > 0, held' = [held EXCEPT ![s] = @ - 1]
  PROVE  /\ held' \in [AllSlots -> 0 .. 1] /\ Abs2!CNext
         /\ L2(s) \in UsedIn(L1(s))
         /\ \A k \in Indices : UsedIn(k)' = IF k = L1(s) THEN UsedIn(k) \ {L2(s)} ELSE UsedIn(k)
<1>1. held \in [AllSlots -> 0 .. 1]
  BY DEF TwoTypeOK
<1>2. held[s] = 1 /\ held[s] - 1 = 0
  BY <1>1
<1>3. held' = [held EXCEPT ![s] = 0]
  BY <1>2
<1>4. held' \in [AllSlots -> 0 .. 1]
  BY <1>1, <1>3
<1>5. Abs2!CNext
  BY <1>2, <1>3 DEF Abs2!CNext, Abs2!CFree
<1>6. L2(s) \in UsedIn(L1(s))
  BY SlotSplits DEF UsedIn
<1>7. ASSUME NEW k \in Indices, NEW m \in 0 .. Size2 - 1
      PROVE  held'[k * Size2 + m] > 0 <=> (held[k * Size2 + m] > 0 /\ ~(k = L1(s) /\ m = L2(s)))
  <2>1. k * Size2 + m \in AllSlots /\ L1(k * Size2 + m) = k /\ L2(k * Size2 + m) = m
    BY SlotJoins
  <2>2. k * Size2 + m = s <=> (k = L1(s) /\ m = L2(s))
    BY SlotSplits, <2>1
  <2>3. held'[k * Size2 + m] = IF k * Size2 + m = s THEN 0 ELSE held[k * Size2 + m]
    BY <1>1, <1>3, <2>1
  <2> QED
    BY <2>2, <2>3
<1>8. ASSUME NEW k \in Indices
      PROVE  UsedIn(k)' = IF k = L1(s) THEN UsedIn(k) \ {L2(s)} ELSE UsedIn(k)
  BY <1>7 DEF UsedIn
<1> QED
  BY <1>4, <1>5, <1>6, <1>8

(* cspace_two_level_create() establishes the invariant. *)
LEMMA ExistingExact ==
  ASSUME TwoInit, NEW i \in ExistingIndices
  PROVE  ExistingLevel(i) \in PresentLevels /\ Exact(ExistingLevel(i), UsedIn(i))
<1> DEFINE used == {s \in ExistingSlots : L1(s) = i}
<1>1. i \in Indices /\ used \subseteq AllSlots
  BY TwoLevelConfig
<1>2. held = [s \in AllSlots |-> IF s \in ExistingSlots THEN 1 ELSE 0]
  BY DEF TwoInit
<1>3. \A s \in used : L2(s) \in UsedIn(i)
  <2>1. ASSUME NEW s \in used
        PROVE  L2(s) \in UsedIn(i)
    <3>1. s \in AllSlots /\ held[s] = 1 /\ i * Size2 + L2(s) = s /\ L2(s) \in 0 .. Size2 - 1
      BY <1>1, <1>2, SlotSplits
    <3> QED
      BY <3>1 DEF UsedIn
  <2> QED
    BY <2>1
<1>4. \A j \in UsedIn(i) : i * Size2 + j \in used /\ L2(i * Size2 + j) = j
  <2>1. ASSUME NEW j \in UsedIn(i)
        PROVE  i * Size2 + j \in used /\ L2(i * Size2 + j) = j
    <3>1. j \in 0 .. Size2 - 1 /\ held[i * Size2 + j] > 0
      BY DEF UsedIn
    <3>2. i * Size2 + j \in AllSlots /\ L1(i * Size2 + j) = i /\ L2(i * Size2 + j) = j
      BY <1>1, <3>1, SlotJoins
    <3>3. i * Size2 + j \in ExistingSlots
      BY <1>2, <3>1, <3>2
    <3> QED
      BY <3>2, <3>3
  <2> QED
    BY <2>1
<1>5. {L2(s) : s \in used} = UsedIn(i)
  BY <1>3, <1>4
<1>6. UsedIn(i) \in SUBSET (0 .. Size2 - 1)
  BY DEF UsedIn
<1>7. IsFiniteSet(UsedIn(i)) /\ Cardinality(UsedIn(i)) \in 0 .. Size2
  BY <1>6, UsedInFinite
<1>8. Cardinality(used) = Cardinality(UsedIn(i))
  <2> DEFINE f == [j \in UsedIn(i) |-> i * Size2 + j]
  <2>1. f \in [UsedIn(i) -> used]
    BY <1>4
  <2>2. \A j, k \in UsedIn(i) : f[j] = f[k] => j = k
    <3>1. \A j \in UsedIn(i) : L2(f[j]) = j
      BY <1>4
    <3> HIDE DEF f
    <3> QED
      BY <3>1
  <2>3. \A s \in used : \E j \in UsedIn(i) : f[j] = s
    <3>1. ASSUME NEW s \in used
          PROVE  f[L2(s)] = s
      <4>1. s \in AllSlots /\ i * Size2 + L2(s) = s
        BY <1>1, SlotSplits
      <4> QED
        BY <4>1, <1>3
    <3> QED
      BY <3>1, <1>3
  <2> HIDE DEF f
  <2>4. f \in Bijection(UsedIn(i), used)
    BY <2>1, <2>2, <2>3, Zenon DEF Bijection, Injection, Surjection, IsInjective
  <2>5. ExistsBijection(UsedIn(i), used)
    BY <2>4 DEF ExistsBijection
  <2> QED
    BY <2>5, <1>7, FS_Bijection
<1> HIDE DEF used
<1>9. ExistingLevel(i) = [NewLevel EXCEPT !.count = Cardinality(UsedIn(i)), !.second_level.bitmap = @ \ UsedIn(i)]
  BY <1>5, <1>8 DEF ExistingLevel, used
<1> DEFINE sl == [NewLevel.second_level EXCEPT !.bitmap = @ \ UsedIn(i)]
<1>10. NewLevel \in PresentLevels /\ NewLevel.second_level.bitmap = 0 .. Size2 - 1
  BY NewIsExact DEF NewLevel, CreatedLevel
<1>11. NewLevel.second_level \in Levels(0, Size2)
  BY <1>10 DEF PresentLevels
<1>12. sl \in Levels(0, Size2) /\ sl.bitmap = (0 .. Size2 - 1) \ UsedIn(i)
  BY <1>10, <1>11 DEF Levels
<1> HIDE DEF sl
<1>13. ExistingLevel(i) = [NewLevel EXCEPT !.count = Cardinality(UsedIn(i)), !.second_level = sl]
  BY <1>9, <1>10 DEF sl
<1>14. ExistingLevel(i) = [present |-> TRUE, count |-> Cardinality(UsedIn(i)), second_level |-> sl]
  BY <1>13 DEF NewLevel
<1>15. ExistingLevel(i) \in PresentLevels
  BY <1>7, <1>12, <1>14 DEF PresentLevels
<1> QED
  BY <1>12, <1>14, <1>15 DEF Exact

(* An allocator just created is exact. *)
LEMMA InitTwoLevelInv ==
  ASSUME TwoInit
  PROVE  TwoLevelInv
<1>1. first \in Levels(0, Size1) /\ first.bitmap = Indices \ ExistingIndices
  <2>1. CreatedLevel(0, Size1) \in Levels(0, Size1) /\ CreatedLevel(0, Size1).bitmap = Indices
    BY CreatedIsLevel, Sizes DEF CreatedLevel, Indices
  <2> QED
    BY <2>1 DEF TwoInit, Levels
<1>2. \A i \in Indices : levels[i] = IF i \in ExistingIndices THEN ExistingLevel(i) ELSE NoLevel
  BY DEF TwoInit
<1>3. levels \in [Indices -> {NoLevel} \cup PresentLevels]
  BY ExistingExact DEF TwoInit
<1>4. TwoTypeOK
  <2>1. last_second_level \in Indices
    BY Sizes DEF TwoInit, Indices
  <2>2. held \in [AllSlots -> 0 .. 1]
    <3>1. held = [s \in AllSlots |-> IF s \in ExistingSlots THEN 1 ELSE 0]
      BY DEF TwoInit
    <3> QED
      BY <3>1
  <2>3. lost \subseteq Indices /\ stopped \in BOOLEAN
    BY DEF TwoInit
  <2> QED
    BY <1>1, <1>3, <2>1, <2>2, <2>3 DEF TwoTypeOK
<1>5. ASSUME NEW i \in Indices
      PROVE  levels[i].present <=> i \in ExistingIndices
  <2>1. ASSUME i \in ExistingIndices
        PROVE  levels[i].present = TRUE
    <3>1. levels[i] \in PresentLevels
      BY <1>2, <2>1, ExistingExact
    <3> QED
      BY <3>1 DEF PresentLevels
  <2>2. ASSUME i \notin ExistingIndices
        PROVE  levels[i].present = FALSE
    BY <1>2, <2>2 DEF NoLevel
  <2> QED
    BY <2>1, <2>2
<1>6. ASSUME NEW i \in Indices
      PROVE  Exact(levels[i], UsedIn(i))
  <2>1. CASE i \in ExistingIndices
    BY <1>2, <2>1, ExistingExact
  <2>2. CASE i \notin ExistingIndices
    <3>1. ASSUME NEW j \in UsedIn(i)
          PROVE  FALSE
      <4>1. j \in 0 .. Size2 - 1 /\ held[i * Size2 + j] > 0
        BY DEF UsedIn
      <4>2. i * Size2 + j \in AllSlots /\ (i * Size2 + j) \div Size2 = i
        BY <4>1, SlotJoins DEF L1
      <4>3. i * Size2 + j \in ExistingSlots
        BY <4>1, <4>2 DEF TwoInit
      <4> QED
        BY <4>2, <4>3, <2>2, TwoLevelConfig
    <3> QED
      BY <3>1, <2>2, <1>5 DEF Exact
  <2> QED
    BY <2>1, <2>2
<1>7. LevelsExact
  BY <1>4, <1>6, ExactEach
<1>8. IndicesExact
  BY <1>1, <1>5, TwoLevelConfig DEF IndicesExact, TwoInit
<1> QED
  BY <1>4, <1>7, <1>8 DEF TwoLevelInv

-----------------------------------------------------------------------------
(* The invariant as the steps use it. *)
EachExact == \A i \in Indices : Exact(levels[i], UsedIn(i))

(* Every second level of an exact allocator is exact, ... *)
LEMMA EachExactNow ==
  ASSUME TwoLevelInv
  PROVE  EachExact
BY ExactEach DEF TwoLevelInv, EachExact

(* ...and back. *)
LEMMA EachExactThen == TwoTypeOK /\ EachExact => LevelsExact
BY ExactEach DEF EachExact

(* A slot of the second level at i is taken, the levels being ls by then. *)
LEMMA TakenFrom ==
  ASSUME TwoTypeOK, NEW ls \in [Indices -> {NoLevel} \cup PresentLevels],
         \A k \in Indices : Exact(ls[k], UsedIn(k)),
         NEW i \in Indices, ls[i].present,
         NEW x \in ls[i].second_level.bitmap,
         NEW sl \in Levels(0, Size2), sl.bitmap = ls[i].second_level.bitmap \ {x},
         levels' = [ls EXCEPT ![i].second_level = sl, ![i].count = @ + 1],
         held' = [held EXCEPT ![i * Size2 + x] = @ + 1]
  PROVE  /\ levels' \in [Indices -> {NoLevel} \cup PresentLevels]
         /\ held' \in [AllSlots -> 0 .. 1]
         /\ EachExact'
         /\ Abs2!CNext
         /\ \A k \in Indices : levels'[k].present <=> ls[k].present
<1>1. ls[i] \in PresentLevels
  BY DEF NoLevel
<1> DEFINE l2 == [ls[i] EXCEPT !.second_level = sl, !.count = @ + 1]
<1>2. UsedIn(i) \in SUBSET (0 .. Size2 - 1) /\ Exact(ls[i], UsedIn(i))
  BY DEF UsedIn
<1>3. x \in 0 .. Size2 - 1 /\ x \notin UsedIn(i) /\ l2 \in PresentLevels /\ Exact(l2, UsedIn(i) \cup {x})
  BY <1>1, <1>2, TakenExact
<1>4. levels' = [ls EXCEPT ![i] = l2]
  OBVIOUS
<1> HIDE DEF l2
<1>5. levels' \in [Indices -> {NoLevel} \cup PresentLevels]
  BY <1>3, <1>4
<1>6. /\ held' \in [AllSlots -> 0 .. 1] /\ Abs2!CNext
      /\ \A k \in Indices : UsedIn(k)' = IF k = i THEN UsedIn(i) \cup {x} ELSE UsedIn(k)
  BY <1>3, HeldMore
<1>7. ASSUME NEW k \in Indices
      PROVE  Exact(levels'[k], UsedIn(k)')
  <2>1. levels'[k] = IF k = i THEN l2 ELSE ls[k]
    BY <1>4
  <2> QED
    BY <1>3, <1>6, <2>1
<1>8. ASSUME NEW k \in Indices
      PROVE  levels'[k].present <=> ls[k].present
  <2>1. l2.present = TRUE
    BY <1>3 DEF PresentLevels
  <2>2. levels'[k] = IF k = i THEN l2 ELSE ls[k]
    BY <1>4
  <2> QED
    BY <2>1, <2>2
<1> QED
  BY <1>5, <1>6, <1>7, <1>8 DEF EachExact

(* A second level is added at a free index. *)
LEMMA LevelAdded ==
  ASSUME TwoLevelInv, NEW n \in first.bitmap, NEW ls, ls = [levels EXCEPT ![n] = NewLevel]
  PROVE  /\ n \in Indices /\ ~levels[n].present /\ n \notin lost /\ UsedIn(n) = {}
         /\ ls \in [Indices -> {NoLevel} \cup PresentLevels]
         /\ \A k \in Indices : Exact(ls[k], UsedIn(k))
         /\ \A k \in Indices : ls[k].present <=> (levels[k].present \/ k = n)
<1>1. n \in Indices
  BY DEF TwoLevelInv, TwoTypeOK, Levels, Indices
<1>2. ~levels[n].present /\ n \notin lost
  BY <1>1 DEF TwoLevelInv, IndicesExact
<1>3. UsedIn(n) = {}
  BY <1>1, <1>2, EachExactNow DEF EachExact, Exact
<1>4. levels \in [Indices -> {NoLevel} \cup PresentLevels]
  BY DEF TwoLevelInv, TwoTypeOK
<1>5. ls \in [Indices -> {NoLevel} \cup PresentLevels]
  BY <1>4, NewIsExact
<1>6. \A k \in Indices : ls[k] = IF k = n THEN NewLevel ELSE levels[k]
  BY <1>4
<1>7. \A k \in Indices : Exact(ls[k], UsedIn(k))
  BY <1>3, <1>6, NewIsExact, EachExactNow DEF EachExact
<1>8. NewLevel.present = TRUE
  BY DEF NewLevel
<1>9. \A k \in Indices : ls[k].present <=> (levels[k].present \/ k = n)
  BY <1>6, <1>8
<1> QED
  BY <1>1, <1>2, <1>3, <1>5, <1>7, <1>9

(* Taking an index of the first level. *)
LEMMA IndexTaken ==
  ASSUME TwoLevelInv, HasRoom(first)
  PROVE  /\ NextSlot(first) \in first.bitmap
         /\ AfterAlloc(first) \in Levels(0, Size1)
         /\ AfterAlloc(first).bitmap = first.bitmap \ {NextSlot(first)}
<1>1. first \in Levels(0, Size1)
  BY DEF TwoLevelInv, TwoTypeOK
<1>2. NextIndex(first) \in first.bitmap /\ NextIndex(first) \in 0 .. Size1 - 1 /\ AfterAlloc(first) \in Levels(0, Size1)
  BY <1>1, NextIndexFree, Sizes
<1>3. NextSlot(first) = NextIndex(first)
  BY <1>1, <1>2, Sizes DEF NextSlot, Levels
<1>4. AfterAlloc(first).bitmap = first.bitmap \ {NextIndex(first)}
  BY <1>1 DEF AfterAlloc, Levels
<1> QED
  BY <1>2, <1>3, <1>4

(* A second level that is not full has room for the search to find, so the   *)
(* slot it takes is a free one. *)
LEMMA TakeIsFree ==
  ASSUME NEW l \in PresentLevels, HasRoom(l.second_level)
  PROVE  /\ NextSlot(l.second_level) \in l.second_level.bitmap
         /\ AfterAlloc(l.second_level) \in Levels(0, Size2)
         /\ AfterAlloc(l.second_level).bitmap = l.second_level.bitmap \ {NextSlot(l.second_level)}
<1>1. l.second_level \in Levels(0, Size2)
  BY DEF PresentLevels
<1> DEFINE c == l.second_level
<1> HIDE DEF c
<1>2. c \in Levels(0, Size2) /\ HasRoom(c)
  BY <1>1 DEF c
<1>3. NextIndex(c) \in c.bitmap /\ NextIndex(c) \in 0 .. Size2 - 1 /\ AfterAlloc(c) \in Levels(0, Size2)
  BY <1>2, NextIndexFree, Sizes
<1>4. NextSlot(c) = NextIndex(c)
  BY <1>2, <1>3, Sizes DEF NextSlot, Levels
<1>5. AfterAlloc(c).bitmap = c.bitmap \ {NextIndex(c)}
  BY <1>2 DEF AfterAlloc, Levels
<1> QED
  BY <1>3, <1>4, <1>5 DEF c

(* A second level whose count is below its size has a slot. *)
LEMMA NotFullHasRoom ==
  ASSUME NEW l \in PresentLevels, NEW U \in SUBSET (0 .. Size2 - 1), Exact(l, U), l.count < Size2
  PROVE  HasRoom(l.second_level)
<1>1. l.present = TRUE /\ l.count \in 0 .. Size2 /\ l.second_level \in Levels(0, Size2)
  BY DEF PresentLevels
<1>2. l.second_level.bitmap = (0 .. Size2 - 1) \ U /\ l.count = Cardinality(U)
  BY <1>1 DEF Exact
<1>3. Cardinality(0 .. Size2 - 1) = Size2
  BY FS_Interval, Sizes
<1>4. U # 0 .. Size2 - 1
  BY <1>1, <1>2, <1>3
<1>5. PICK x \in 0 .. Size2 - 1 : x \in l.second_level.bitmap
  BY <1>2, <1>4
<1>6. l.second_level.bitmap_length * WordBits = Size2
  BY <1>1, Sizes DEF Levels
<1> QED
  BY <1>1, <1>5, <1>6, SearchMissesNothing, Sizes

-----------------------------------------------------------------------------
(* One lemma for each operation. *)

(* A slot of a second level that is there. *)
LEMMA AllocFoundStep ==
  ASSUME TwoLevelInv, AllocFound
  PROVE  TwoLevelInv' /\ Abs2!CNext
<1> DEFINE i == (last_second_level + Min(UsableSteps)) % Size1
<1>1. TwoTypeOK /\ EachExact /\ IndicesExact
  BY EachExactNow DEF TwoLevelInv
<1>2. Min(UsableSteps) \in UsableSteps
  <2>1. UsableSteps \in SUBSET Nat
    BY DEF UsableSteps, Indices
  <2> QED
    BY <2>1, MinIsLeast DEF AllocFound
<1>3. i \in Indices
  <2>1. last_second_level \in 0 .. Size1 - 1 /\ Min(UsableSteps) \in 0 .. Size1 - 1
    BY <1>1, <1>2 DEF UsableSteps, Indices, TwoTypeOK
  <2> QED
    BY <2>1, Sizes DEF Indices
<1>4. Usable(i)
  BY <1>2 DEF UsableSteps
<1> DEFINE l == levels[i]
<1>5. levels' = TakeFrom(levels, i) /\ held' = [held EXCEPT ![SlotOf(levels, i)] = @ + 1]
      /\ last_second_level' = i /\ UNCHANGED <<first, lost, stopped>>
  BY DEF AllocFound
<1> HIDE DEF i
<1>6. l \in PresentLevels /\ l.present /\ l.count < Size2
  <2>1. l.present /\ l.count < Size2 - 1
    BY <1>4 DEF Usable
  <2>2. l \in PresentLevels
    BY <1>1, <1>3, <2>1 DEF TwoTypeOK, NoLevel
  <2>3. l.count \in 0 .. Size2
    BY <2>2 DEF PresentLevels
  <2> QED
    BY <2>1, <2>2, <2>3, Sizes
<1>7. UsedIn(i) \in SUBSET (0 .. Size2 - 1) /\ Exact(l, UsedIn(i))
  BY <1>1, <1>3 DEF UsedIn, EachExact
<1>8. HasRoom(l.second_level)
  BY <1>6, <1>7, NotFullHasRoom
<1> DEFINE x == NextSlot(l.second_level)
           sl == AfterAlloc(l.second_level)
<1>9. x \in l.second_level.bitmap /\ sl \in Levels(0, Size2) /\ sl.bitmap = l.second_level.bitmap \ {x}
  BY <1>6, <1>8, TakeIsFree
<1>10. levels' = [levels EXCEPT ![i].second_level = sl, ![i].count = @ + 1]
       /\ held' = [held EXCEPT ![i * Size2 + x] = @ + 1]
  BY <1>5 DEF TakeFrom, SlotOf
<1> HIDE DEF x, sl
<1>11. /\ levels' \in [Indices -> {NoLevel} \cup PresentLevels]
       /\ held' \in [AllSlots -> 0 .. 1]
       /\ EachExact' /\ Abs2!CNext
       /\ \A k \in Indices : levels'[k].present <=> levels[k].present
  BY <1>1, <1>3, <1>6, <1>9, <1>10, TakenFrom DEF EachExact, TwoTypeOK
<1>12. TwoTypeOK'
  BY <1>1, <1>3, <1>5, <1>11 DEF TwoTypeOK
<1>13. LevelsExact'
  BY <1>11, <1>12, EachExactThen, PTL
<1>14. IndicesExact'
  BY <1>1, <1>5, <1>11 DEF IndicesExact, TwoTypeOK
<1> QED
  BY <1>11, <1>12, <1>13, <1>14 DEF TwoLevelInv

(* A slot of a second level that is created for it. *)
LEMMA AllocCreatesStep ==
  ASSUME TwoLevelInv, AllocCreates
  PROVE  TwoLevelInv' /\ (Abs2!CNext \/ UNCHANGED held)
<1> DEFINE n == NextSlot(first)
           ls == [levels EXCEPT ![n] = NewLevel]
           i == last_second_level
<1>1. TwoTypeOK /\ EachExact /\ IndicesExact
  BY EachExactNow DEF TwoLevelInv
<1>2. n \in first.bitmap /\ first' \in Levels(0, Size1) /\ first'.bitmap = first.bitmap \ {n}
  BY IndexTaken DEF AllocCreates
<1>3. last_second_level' = last_second_level /\ lost' = lost /\ stopped = FALSE
  BY <1>1 DEF AllocCreates, TwoTypeOK
<1>4. \/ /\ ls[i].present /\ HasRoom(ls[i].second_level)
         /\ held' = [held EXCEPT ![SlotOf(ls, i)] = @ + 1]
         /\ levels' = TakeFrom(ls, i) /\ UNCHANGED stopped
      \/ stopped' = TRUE /\ levels' = ls /\ UNCHANGED held
  BY DEF AllocCreates
<1> HIDE DEF n, ls, i
<1>5. /\ n \in Indices /\ ~levels[n].present /\ n \notin lost /\ UsedIn(n) = {}
      /\ ls \in [Indices -> {NoLevel} \cup PresentLevels]
      /\ \A k \in Indices : Exact(ls[k], UsedIn(k))
      /\ \A k \in Indices : ls[k].present <=> (levels[k].present \/ k = n)
  BY <1>2, LevelAdded DEF ls
<1>6. i \in Indices
  BY <1>1 DEF i, TwoTypeOK
<1>7. ASSUME ls[i].present, HasRoom(ls[i].second_level),
             held' = [held EXCEPT ![SlotOf(ls, i)] = @ + 1], levels' = TakeFrom(ls, i), UNCHANGED stopped
      PROVE  /\ levels' \in [Indices -> {NoLevel} \cup PresentLevels]
             /\ held' \in [AllSlots -> 0 .. 1] /\ stopped' \in BOOLEAN
             /\ EachExact' /\ Abs2!CNext
             /\ \A k \in Indices : levels'[k].present <=> ls[k].present
  <2> DEFINE x == NextSlot(ls[i].second_level)
             sl == AfterAlloc(ls[i].second_level)
  <2>1. ls[i] \in PresentLevels
    BY <1>5, <1>6, <1>7 DEF NoLevel
  <2>2. x \in ls[i].second_level.bitmap /\ sl \in Levels(0, Size2) /\ sl.bitmap = ls[i].second_level.bitmap \ {x}
    BY <2>1, <1>7, TakeIsFree
  <2>3. levels' = [ls EXCEPT ![i].second_level = sl, ![i].count = @ + 1]
        /\ held' = [held EXCEPT ![i * Size2 + x] = @ + 1]
    BY <1>7 DEF TakeFrom, SlotOf
  <2>4. stopped' \in BOOLEAN
    BY <1>1, <1>7 DEF TwoTypeOK
  <2> HIDE DEF x, sl
  <2>5. ls \in [Indices -> {NoLevel} \cup PresentLevels] /\ \A k \in Indices : Exact(ls[k], UsedIn(k))
    BY <1>5
  <2>6. /\ levels' \in [Indices -> {NoLevel} \cup PresentLevels]
        /\ held' \in [AllSlots -> 0 .. 1]
        /\ EachExact' /\ Abs2!CNext
        /\ \A k \in Indices : levels'[k].present <=> ls[k].present
    <3>1. TwoTypeOK /\ i \in Indices /\ ls[i].present
      BY <1>1, <1>6, <1>7
    <3> QED
      BY <3>1, <2>2, <2>3, <2>5, TakenFrom
  <2> QED
    BY <2>4, <2>6
<1>8. ASSUME stopped' = TRUE, levels' = ls, UNCHANGED held
      PROVE  /\ levels' \in [Indices -> {NoLevel} \cup PresentLevels]
             /\ held' \in [AllSlots -> 0 .. 1] /\ stopped' \in BOOLEAN
             /\ EachExact'
             /\ \A k \in Indices : levels'[k].present <=> ls[k].present
  <2>1. \A k \in Indices : UsedIn(k)' = UsedIn(k)
    BY <1>8 DEF UsedIn
  <2>2. EachExact'
    BY <1>5, <1>8, <2>1 DEF EachExact
  <2>3. held' \in [AllSlots -> 0 .. 1]
    BY <1>1, <1>8 DEF TwoTypeOK
  <2> QED
    BY <1>5, <1>8, <2>2, <2>3
<1>9. /\ levels' \in [Indices -> {NoLevel} \cup PresentLevels]
      /\ held' \in [AllSlots -> 0 .. 1] /\ stopped' \in BOOLEAN
      /\ EachExact'
      /\ \A k \in Indices : levels'[k].present <=> ls[k].present
  BY <1>4, <1>7, <1>8
<1>10. TwoTypeOK'
  BY <1>1, <1>2, <1>3, <1>9 DEF TwoTypeOK
<1>11. LevelsExact'
  BY <1>9, <1>10, EachExactThen, PTL
<1>12. IndicesExact'
  BY <1>1, <1>2, <1>3, <1>5, <1>9 DEF IndicesExact, TwoTypeOK
<1>13. Abs2!CNext \/ UNCHANGED held
  BY <1>4, <1>7
<1> QED
  BY <1>10, <1>11, <1>12, <1>13 DEF TwoLevelInv

(* A given index of the first level is taken. *)
LEMMA IndexTakenAt ==
  ASSUME TwoLevelInv, NEW n \in Indices, CanAllocAt(first, n)
  PROVE  /\ n \in first.bitmap
         /\ AfterAllocAt(first, n) \in Levels(0, Size1)
         /\ AfterAllocAt(first, n).bitmap = first.bitmap \ {n}
<1>1. first \in Levels(0, Size1) /\ first.first = 0
  BY DEF TwoLevelInv, TwoTypeOK, Levels
<1>2. n - 0 = n
  BY Sizes DEF Indices
<1>3. n \in first.bitmap
  BY <1>1, <1>2 DEF CanAllocAt
<1>4. AfterAllocAt(first, n) = [first EXCEPT !.bitmap = @ \ {n}]
  BY <1>1, <1>2 DEF AfterAllocAt
<1> QED
  BY <1>1, <1>3, <1>4 DEF Levels

(* An index is taken for a second level that could not be created. *)
LEMMA IndexLost ==
  ASSUME TwoLevelInv, NEW n \in first.bitmap, first' \in Levels(0, Size1), first'.bitmap = first.bitmap \ {n},
         lost' = lost \cup {n}, UNCHANGED <<levels, last_second_level, held, stopped>>
  PROVE  TwoLevelInv'
<1>1. n \in Indices /\ ~levels[n].present
  BY LevelAdded
<1>2. TwoTypeOK'
  BY <1>1 DEF TwoLevelInv, TwoTypeOK
<1>3. LevelsExact'
  BY DEF TwoLevelInv, LevelsExact, UsedIn
<1>4. IndicesExact'
  BY <1>1 DEF TwoLevelInv, IndicesExact, TwoTypeOK
<1> QED
  BY <1>2, <1>3, <1>4 DEF TwoLevelInv

(* A second level that cannot be created. *)
LEMMA AllocFailsStep ==
  ASSUME TwoLevelInv, AllocCreateFails \/ \E s \in AllSlots : AllocAtCreateFails(s)
  PROVE  TwoLevelInv' /\ UNCHANGED held
<1>1. ASSUME AllocCreateFails
      PROVE  TwoLevelInv' /\ UNCHANGED held
  <2>1. /\ NextSlot(first) \in first.bitmap /\ first' \in Levels(0, Size1)
        /\ first'.bitmap = first.bitmap \ {NextSlot(first)}
    BY <1>1, IndexTaken DEF AllocCreateFails
  <2>2. lost' = lost \cup {NextSlot(first)} /\ UNCHANGED <<levels, last_second_level, held, stopped>>
    BY <1>1 DEF AllocCreateFails
  <2> QED
    BY <2>1, <2>2, IndexLost
<1>2. ASSUME NEW s \in AllSlots, AllocAtCreateFails(s)
      PROVE  TwoLevelInv' /\ UNCHANGED held
  <2>1. L1(s) \in Indices
    BY SlotSplits
  <2>2. L1(s) \in first.bitmap /\ first' \in Levels(0, Size1) /\ first'.bitmap = first.bitmap \ {L1(s)}
    BY <1>2, <2>1, IndexTakenAt DEF AllocAtCreateFails
  <2>3. lost' = lost \cup {L1(s)} /\ UNCHANGED <<levels, last_second_level, held, stopped>>
    BY <1>2 DEF AllocAtCreateFails
  <2> QED
    BY <2>2, <2>3, IndexLost
<1> QED
  BY <1>1, <1>2

(* A given slot of a second level that is there. *)
LEMMA AllocAtExistingStep ==
  ASSUME TwoLevelInv, NEW s \in AllSlots, AllocAtExisting(s)
  PROVE  TwoLevelInv' /\ Abs2!CNext
<1> DEFINE i == L1(s)
           x == L2(s)
           c == levels[i].second_level
           sl == AfterAllocAt(c, x)
<1>1. TwoTypeOK /\ EachExact /\ IndicesExact
  BY EachExactNow DEF TwoLevelInv
<1>2. i \in Indices /\ x \in 0 .. Size2 - 1 /\ i * Size2 + x = s
  BY SlotSplits
<1>3. /\ levels[i].present /\ CanAllocAt(c, x)
      /\ levels' = [levels EXCEPT ![i].second_level = AfterAllocAt(@, x), ![i].count = @ + 1]
      /\ held' = [held EXCEPT ![s] = @ + 1] /\ UNCHANGED <<first, last_second_level, lost, stopped>>
  BY DEF AllocAtExisting
<1>4. levels' = [levels EXCEPT ![i].second_level = sl, ![i].count = @ + 1]
  BY <1>3
<1> HIDE DEF i, x
<1>5. levels[i] \in PresentLevels
  BY <1>1, <1>2, <1>3 DEF TwoTypeOK, NoLevel
<1>6. c \in Levels(0, Size2)
  BY <1>5 DEF PresentLevels
<1> HIDE DEF c
<1>7. x - c.first = x
  BY <1>2, <1>6, Sizes DEF Levels
<1>8. x \in c.bitmap /\ sl \in Levels(0, Size2) /\ sl.bitmap = c.bitmap \ {x}
  <2>1. x \in c.bitmap
    BY <1>3, <1>7 DEF CanAllocAt, c
  <2>2. sl = [c EXCEPT !.bitmap = @ \ {x}]
    BY <1>7 DEF AfterAllocAt
  <2> QED
    BY <1>6, <2>1, <2>2 DEF Levels
<1> HIDE DEF sl
<1>9. /\ x \in levels[i].second_level.bitmap /\ sl.bitmap = levels[i].second_level.bitmap \ {x}
      /\ held' = [held EXCEPT ![i * Size2 + x] = @ + 1]
  BY <1>2, <1>3, <1>8 DEF c
<1>10. /\ levels' \in [Indices -> {NoLevel} \cup PresentLevels]
       /\ held' \in [AllSlots -> 0 .. 1]
       /\ EachExact' /\ Abs2!CNext
       /\ \A k \in Indices : levels'[k].present <=> levels[k].present
  <2>1. levels \in [Indices -> {NoLevel} \cup PresentLevels] /\ \A k \in Indices : Exact(levels[k], UsedIn(k))
    BY <1>1 DEF TwoTypeOK, EachExact
  <2>2. levels[i].present
    BY <1>3
  <2> QED
    BY <1>1, <1>2, <1>4, <1>8, <1>9, <2>1, <2>2, TakenFrom
<1>11. TwoTypeOK'
  BY <1>1, <1>3, <1>10 DEF TwoTypeOK
<1>12. LevelsExact'
  BY <1>10, <1>11, EachExactThen, PTL
<1>13. IndicesExact'
  BY <1>1, <1>3, <1>10 DEF IndicesExact, TwoTypeOK
<1> QED
  BY <1>10, <1>11, <1>12, <1>13 DEF TwoLevelInv

(* A given slot of a second level that is created for it. *)
LEMMA AllocAtCreatesStep ==
  ASSUME TwoLevelInv, NEW s \in AllSlots, AllocAtCreates(s)
  PROVE  TwoLevelInv' /\ Abs2!CNext
<1> DEFINE n == L1(s)
           x == L2(s)
           ls == [levels EXCEPT ![n] = NewLevel]
           sl == AfterAllocAt(CreatedLevel(0, Size2), x)
<1>1. TwoTypeOK /\ EachExact /\ IndicesExact
  BY EachExactNow DEF TwoLevelInv
<1>2. n \in Indices /\ x \in 0 .. Size2 - 1 /\ n * Size2 + x = s
  BY SlotSplits
<1>3. /\ CanAllocAt(first, n) /\ first' = AfterAllocAt(first, n)
      /\ levels' = [levels EXCEPT ![n] = [NewLevel EXCEPT !.second_level = AfterAllocAt(@, x), !.count = 1]]
      /\ held' = [held EXCEPT ![s] = @ + 1] /\ UNCHANGED <<last_second_level, lost, stopped>>
  BY DEF AllocAtCreates
<1> HIDE DEF n, x
<1>4. n \in first.bitmap /\ first' \in Levels(0, Size1) /\ first'.bitmap = first.bitmap \ {n}
  BY <1>2, <1>3, IndexTakenAt
<1>5. /\ ~levels[n].present /\ n \notin lost
      /\ ls \in [Indices -> {NoLevel} \cup PresentLevels]
      /\ \A k \in Indices : Exact(ls[k], UsedIn(k))
      /\ \A k \in Indices : ls[k].present <=> (levels[k].present \/ k = n)
  BY <1>4, LevelAdded
<1>6. ls[n] = NewLevel /\ ls[n].present /\ ls[n].second_level = CreatedLevel(0, Size2) /\ ls[n].count = 0
  BY <1>1, <1>2 DEF NewLevel, TwoTypeOK
<1>7. levels' = [ls EXCEPT ![n].second_level = sl, ![n].count = @ + 1]
  <2> DEFINE r == [NewLevel EXCEPT !.second_level = sl, !.count = 1]
             r2 == [NewLevel EXCEPT !.second_level = sl, !.count = NewLevel.count + 1]
  <2>1. NewLevel.second_level = CreatedLevel(0, Size2) /\ NewLevel.count + 1 = 1
    BY DEF NewLevel
  <2>2. levels' = [levels EXCEPT ![n] = r]
    BY <1>3, <2>1
  <2>3. r2 = r
    BY <2>1
  <2> HIDE DEF sl
  <2>4. [ls[n] EXCEPT !.second_level = sl, !.count = @ + 1] = r2
    BY <1>6
  <2> HIDE DEF r, r2
  <2>5. [ls EXCEPT ![n] = r] = [levels EXCEPT ![n] = r]
    BY <1>1, <1>2 DEF TwoTypeOK
  <2> HIDE DEF ls
  <2>6. [ls EXCEPT ![n].second_level = sl, ![n].count = @ + 1]
          = [ls EXCEPT ![n] = [ls[n] EXCEPT !.second_level = sl, !.count = @ + 1]]
    OBVIOUS
  <2> QED
    BY <2>2, <2>3, <2>4, <2>5, <2>6
<1>8. x \in CreatedLevel(0, Size2).bitmap /\ sl \in Levels(0, Size2) /\ sl.bitmap = CreatedLevel(0, Size2).bitmap \ {x}
  <2>1. CreatedLevel(0, Size2) \in Levels(0, Size2) /\ x \in CreatedLevel(0, Size2).bitmap
        /\ x - CreatedLevel(0, Size2).first = x
    BY <1>2, CreatedIsLevel, Sizes DEF CreatedLevel
  <2>2. sl = [CreatedLevel(0, Size2) EXCEPT !.bitmap = @ \ {x}]
    BY <2>1 DEF AfterAllocAt
  <2> QED
    BY <2>1, <2>2 DEF Levels
<1> HIDE DEF sl, ls
<1>9. /\ x \in ls[n].second_level.bitmap /\ sl.bitmap = ls[n].second_level.bitmap \ {x}
      /\ held' = [held EXCEPT ![n * Size2 + x] = @ + 1]
  BY <1>2, <1>3, <1>6, <1>8
<1>10. /\ levels' \in [Indices -> {NoLevel} \cup PresentLevels]
       /\ held' \in [AllSlots -> 0 .. 1]
       /\ EachExact' /\ Abs2!CNext
       /\ \A k \in Indices : levels'[k].present <=> ls[k].present
  <2>1. ls \in [Indices -> {NoLevel} \cup PresentLevels] /\ (\A k \in Indices : Exact(ls[k], UsedIn(k)))
        /\ ls[n].present /\ TwoTypeOK /\ sl \in Levels(0, Size2)
    BY <1>1, <1>5, <1>6, <1>8
  <2> QED
    BY <1>2, <1>7, <1>9, <2>1, TakenFrom
<1>11. TwoTypeOK'
  BY <1>1, <1>3, <1>4, <1>10 DEF TwoTypeOK
<1>12. LevelsExact'
  BY <1>10, <1>11, EachExactThen, PTL
<1>13. IndicesExact'
  BY <1>1, <1>2, <1>3, <1>4, <1>5, <1>10 DEF IndicesExact, TwoTypeOK
<1> QED
  BY <1>10, <1>11, <1>12, <1>13 DEF TwoLevelInv

(* A free, that may destroy the second level. *)
LEMMA TwoFreeStep ==
  ASSUME TwoLevelInv, NEW s \in AllSlots, TwoFree(s)
  PROVE  TwoLevelInv' /\ Abs2!CNext
<1> DEFINE i == L1(s)
           x == L2(s)
           l == levels[i]
           l2 == [l EXCEPT !.second_level = AfterFree(@, x), !.count = @ - 1]
           U == UsedIn(i)
<1>1. TwoTypeOK /\ EachExact /\ IndicesExact
  BY EachExactNow DEF TwoLevelInv
<1>2. i \in Indices /\ x \in 0 .. Size2 - 1
  BY SlotSplits
<1>3. /\ held[s] > 0 /\ held' = [held EXCEPT ![s] = @ - 1]
      /\ levels' = [levels EXCEPT ![i] = IF l.count = 1 THEN NoLevel ELSE l2]
      /\ first' = IF l.count = 1 THEN AfterFree(first, i) ELSE first
      /\ UNCHANGED <<last_second_level, lost, stopped>>
  <2>1. held[s] > 0 /\ held' = [held EXCEPT ![s] = @ - 1] /\ UNCHANGED <<last_second_level, lost, stopped>>
    BY DEF TwoFree
  <2>2. levels' = [levels EXCEPT ![i] = IF l.count = 1 THEN NoLevel ELSE l2]
    BY DEF TwoFree, LastSlot, SlotReturned
  <2>3. first' = IF l.count = 1 THEN AfterFree(first, i) ELSE first
    BY DEF TwoFree, LastSlot
  <2> QED
    BY <2>1, <2>2, <2>3
<1>4. /\ held' \in [AllSlots -> 0 .. 1] /\ Abs2!CNext /\ x \in U
      /\ \A k \in Indices : UsedIn(k)' = IF k = i THEN UsedIn(k) \ {x} ELSE UsedIn(k)
  BY <1>1, <1>3, HeldLess
<1> HIDE DEF i, x
<1>5. l \in PresentLevels
  <2>1. l.present
    BY <1>1, <1>2, <1>4 DEF EachExact, Exact
  <2> QED
    BY <1>1, <1>2, <2>1 DEF TwoTypeOK, NoLevel
<1>6. U \in SUBSET (0 .. Size2 - 1) /\ Exact(l, U)
  BY <1>1, <1>2 DEF UsedIn, EachExact
<1>7. (l.count = 1 => U \ {x} = {}) /\ (l.count # 1 => l2 \in PresentLevels /\ Exact(l2, U \ {x}))
  BY <1>4, <1>5, <1>6, FreedExact
<1>8. levels'[i] = (IF l.count = 1 THEN NoLevel ELSE l2) /\ \A k \in Indices : k # i => levels'[k] = levels[k]
  BY <1>1, <1>2, <1>3 DEF TwoTypeOK
<1> HIDE DEF l2
<1>9. levels' \in [Indices -> {NoLevel} \cup PresentLevels]
  BY <1>1, <1>2, <1>3, <1>7 DEF TwoTypeOK
<1>10. Exact(levels'[i], U \ {x})
  BY <1>7, <1>8 DEF Exact, NoLevel
<1> HIDE DEF l, U
<1>11. EachExact'
  <2>1. ASSUME NEW k \in Indices
        PROVE  Exact(levels'[k], UsedIn(k)')
    BY <1>1, <1>4, <1>8, <1>10 DEF EachExact, U
  <2> QED
    BY <2>1 DEF EachExact
<1>12. levels'[i].present <=> l.count # 1
  <2>1. CASE l.count = 1
    BY <1>8, <2>1 DEF NoLevel
  <2>2. CASE l.count # 1
    <3>1. levels'[i] \in PresentLevels
      BY <1>7, <1>8, <2>2
    <3>2. levels'[i].present = TRUE
      BY <3>1 DEF PresentLevels
    <3> QED
      BY <2>2, <3>2
  <2> QED
    BY <2>1, <2>2
<1>13. first' \in Levels(0, Size1) /\ first'.bitmap = IF l.count = 1 THEN first.bitmap \cup {i} ELSE first.bitmap
  <2>1. first \in Levels(0, Size1) /\ first.first = 0
    BY <1>1 DEF TwoTypeOK, Levels
  <2>2. i - 0 = i /\ i \in 0 .. Size1 - 1
    BY <1>2, Sizes DEF Indices
  <2>3. AfterFree(first, i) = [first EXCEPT !.bitmap = @ \cup {i}]
    BY <2>1, <2>2 DEF AfterFree
  <2> QED
    BY <1>3, <2>1, <2>2, <2>3 DEF Levels
<1>14. TwoTypeOK'
  BY <1>1, <1>3, <1>4, <1>9, <1>13 DEF TwoTypeOK
<1>15. LevelsExact'
  BY <1>11, <1>14, EachExactThen, PTL
<1>16. levels[i].present /\ i \notin lost
  BY <1>1, <1>2, <1>5 DEF l, PresentLevels, IndicesExact
<1>17. IndicesExact'
  BY <1>1, <1>2, <1>3, <1>8, <1>12, <1>13, <1>16 DEF IndicesExact, TwoTypeOK
<1> QED
  BY <1>4, <1>14, <1>15, <1>17 DEF TwoLevelInv

(* Every operation keeps the allocator exact, and is one of the contract. *)
LEMMA TwoStep ==
  ASSUME TwoLevelInv, TwoNext
  PROVE  TwoLevelInv' /\ (Abs2!CNext \/ UNCHANGED held)
BY AllocFoundStep, AllocCreatesStep, AllocFailsStep, AllocAtExistingStep, AllocAtCreatesStep, TwoFreeStep
   DEF TwoNext

-----------------------------------------------------------------------------
(* The results.                                                            *)

(* A step that leaves the allocator alone. *)
LEMMA TwoStutters ==
  ASSUME TwoLevelInv, UNCHANGED twoVars
  PROVE  TwoLevelInv'
BY DEF twoVars, TwoLevelInv, TwoTypeOK, LevelsExact, IndicesExact, UsedIn

(* The two level allocator, through second levels that are created, not     *)
(* created and destroyed.                                                   *)
THEOREM TwoLevelExact == TwoSpec => []TwoLevelInv
<1>1. TwoInit => TwoLevelInv
  BY InitTwoLevelInv
<1>2. TwoLevelInv /\ [TwoNext]_twoVars => TwoLevelInv'
  BY TwoStep, TwoStutters
<1> QED
  BY <1>1, <1>2, PTL DEF TwoSpec

(* The bitmaps and counts of the CSpace allocators say which slots are in   *)
(* use, and a slot is refused only when there is none.                      *)
THEOREM SlotsAlwaysExact == SingleSpec /\ TwoSpec => []SlotsExact
<1>1. BitmapExact /\ FreshSlots /\ RefusesOnlyWhenFull /\ TwoLevelInv => SlotsExact
  BY DEF SlotsExact
<1> QED
  BY <1>1, SingleLevelExact, TwoLevelExact, PTL

(* The two level allocator keeps the promise of the interface. *)
THEOREM TwoLevelRefines == TwoSpec => TwoLevelImplements
<1>1. TwoInit => Abs2!CInit
  BY DEF TwoInit, Abs2!CInit
<1>2. TwoLevelInv /\ [TwoNext]_twoVars => [Abs2!CNext]_held
  BY TwoStep DEF twoVars
<1> QED
  BY <1>1, <1>2, TwoLevelExact, PTL DEF TwoSpec, TwoLevelImplements, Abs2!CSpec

-----------------------------------------------------------------------------
(* Arithmetic                                                              *)

(* Division by a positive number. *)
LEMMA DivMod ==
  ASSUME NEW d \in Nat \ {0}, NEW a \in Int
  PROVE  a = d * (a \div d) + (a % d) /\ a % d \in 0 .. d - 1 /\ a \div d \in Int
OBVIOUS

(* The remainder is the only number of its kind. *)
LEMMA ModUnique ==
  ASSUME NEW d \in Nat \ {0}, NEW k \in Int, NEW r \in 0 .. d - 1
  PROVE  (k * d + r) % d = r
<1> DEFINE a == k * d + r
           q == a \div d
<1>1. a \in Int
  OBVIOUS
<1> HIDE DEF a
<1>2. a = d * q + (a % d) /\ a % d \in 0 .. d - 1 /\ q \in Int
  BY <1>1, DivMod
<1> HIDE DEF q
<1>3. PICK m : m = a % d
  OBVIOUS
<1>4. k * d + r = q * d + m /\ m \in 0 .. d - 1
  BY <1>2, <1>3 DEF a
<1>5. ~(q < k)
  <2> SUFFICES ASSUME q < k
               PROVE  FALSE
    OBVIOUS
  <2>1. k - q >= 1
    BY <1>2
  <2>2. (k - q) * d >= d
    BY <1>2, <2>1
  <2> QED
    BY <1>2, <1>4, <2>2
<1>6. ~(q > k)
  <2> SUFFICES ASSUME q > k
               PROVE  FALSE
    OBVIOUS
  <2>1. q - k >= 1
    BY <1>2
  <2>2. (q - k) * d >= d
    BY <1>2, <2>1
  <2> QED
    BY <1>2, <1>4, <2>2
<1>7. q = k
  BY <1>2, <1>5, <1>6
<1>8. m = r
  BY <1>2, <1>7, <1>4
<1> QED
  BY <1>3, <1>8 DEF a

Aligned(p) == p % HeaderSize = 0

(* A multiple is aligned, and the other way round. *)
LEMMA Multiple ==
  ASSUME NEW d \in Nat \ {0}, NEW a \in Int
  PROVE  a % d = 0 <=> \E k \in Int : a = k * d
<1>1. ASSUME a % d = 0
      PROVE  \E k \in Int : a = k * d
  <2>1. a = d * (a \div d) /\ a \div d \in Int
    BY <1>1, DivMod
  <2> QED
    BY <2>1
<1>2. ASSUME NEW k \in Int, a = k * d
      PROVE  a % d = 0
  <2>1. (k * d + 0) % d = 0
    BY ModUnique
  <2> QED
    BY <1>2, <2>1
<1> QED
  BY <1>1, <1>2

(* The sizes are positive. *)
LEMMA Sane ==
  /\ HeaderSize \in Nat \ {0} /\ PageSize \in Nat \ {0}
  /\ PoolStart \in Nat \ {0} /\ PoolSize \in Nat /\ VStart \in Nat /\ VSize \in Nat
  /\ VBases \subseteq Nat /\ ByteSizes \subseteq Nat \ {0}
  /\ PoolStart + PoolSize <= VStart
  /\ \A b \in VBases : b < VStart \/ b > VStart + VSize
BY PoolAssumption

(* The end of a block. *)
LEMMA AfterNat ==
  ASSUME NEW p \in Nat, NEW n \in Nat
  PROVE  After(p, n) \in Nat
BY Sane DEF After

(* A block is not empty. *)
LEMMA AfterMore ==
  ASSUME NEW p \in Nat, NEW n \in Nat \ {0}
  PROVE  After(p, n) \in Nat /\ p < After(p, n)
BY Sane DEF After

(* Two blocks that lie one after the other. *)
LEMMA AfterSum ==
  ASSUME NEW p \in Nat, NEW n \in Nat, NEW m \in Nat
  PROVE  After(After(p, n), m) = After(p, n + m)
BY Sane DEF After

(* A block ends after a part of it. *)
LEMMA AfterLess ==
  ASSUME NEW p \in Nat, NEW n \in Nat, NEW m \in Nat, n < m
  PROVE  After(p, n) < After(p, m)
BY Sane DEF After

(* A block that starts aligned ends aligned. *)
LEMMA AfterAligned ==
  ASSUME NEW p \in Nat, NEW n \in Nat, Aligned(p)
  PROVE  Aligned(After(p, n))
<1>1. HeaderSize \in Nat \ {0} /\ p \in Int /\ p % HeaderSize = 0
  BY Sane DEF Aligned
<1>2. PICK k \in Int : p = k * HeaderSize
  BY <1>1, Multiple
<1>3. After(p, n) = (k + n) * HeaderSize
  BY <1>1, <1>2 DEF After
<1>4. k + n \in Int /\ After(p, n) \in Int
  BY AfterNat
<1>5. After(p, n) % HeaderSize = 0
  BY <1>1, <1>3, <1>4, Multiple
<1> QED
  BY <1>5 DEF Aligned

(* A block of NUnits() units has room for its header and for the bytes, and *)
(* for one unit more than its header.                                       *)
LEMMA EnoughUnits ==
  ASSUME NEW bytes \in ByteSizes
  PROVE  /\ NUnits(bytes) \in Nat /\ NUnits(bytes) > 1
         /\ \A p \in Nat : After(p, 1) + bytes <= After(p, NUnits(bytes))
<1> DEFINE a == bytes + HeaderSize - 1
           k == a \div HeaderSize
<1>1. a \in Int /\ a >= HeaderSize /\ bytes \in Nat \ {0}
  BY Sane
<1>2. a = HeaderSize * k + (a % HeaderSize) /\ a % HeaderSize \in 0 .. HeaderSize - 1 /\ k \in Int
  BY <1>1, Sane, DivMod
<1>3. NUnits(bytes) = k + 1
  BY DEF NUnits
<1>4. HeaderSize * k >= bytes
  BY <1>2, Sane
<1>5. k > 0
  BY <1>1, <1>2, <1>4, Sane
<1> HIDE DEF k
<1>6. ASSUME NEW p \in Nat
      PROVE  After(p, 1) + bytes <= After(p, k + 1)
  BY <1>1, <1>2, <1>4, Sane DEF After
<1> QED
  BY <1>2, <1>3, <1>5, <1>6

-----------------------------------------------------------------------------
(* Neighbours in the list                                                  *)

(* Sets of natural numbers have a least element. *)
LEMMA LeastHeader ==
  ASSUME NEW S \in SUBSET Nat, S # {}
  PROVE  Min(S) \in S /\ \A y \in S : Min(S) <= y
<1>1. PICK x \in S : \A y \in S : ~(<<y, x>> \in OpToRel(<, Nat))
  BY WFMin, NatLessThanWellFounded
<1>2. ASSUME NEW y \in S, y < x
      PROVE  FALSE
  <2>1. <<y, x>> \in Nat \X Nat
    OBVIOUS
  <2>2. <<y, x>>[1] < <<y, x>>[2]
    BY <1>2
  <2>3. <<y, x>> \in OpToRel(<, Nat)
    BY <2>1, <2>2, Zenon DEF OpToRel
  <2> QED
    BY <1>1, <2>3
<1>3. \A y \in S : x <= y
  BY <1>2
<1> QED
  BY <1>3 DEF Min

(* Bounded sets have a greatest element. *)
LEMMA GreatestHeader ==
  ASSUME NEW n \in Nat, NEW S \in SUBSET (0 .. n), S # {}
  PROVE  Max(S) \in S /\ \A y \in S : Max(S) >= y
<1> DEFINE T == {n - x : x \in S}
<1>1. T \in SUBSET Nat
  OBVIOUS
<1>2. T # {}
  <2>1. PICK x \in S : TRUE
    OBVIOUS
  <2>2. n - x \in T
    OBVIOUS
  <2> QED
    BY <2>2
<1> HIDE DEF T
<1>3. Min(T) \in T /\ \A u \in T : Min(T) <= u
  BY <1>1, <1>2, LeastHeader
<1>4. PICK x \in S : Min(T) = n - x
  BY <1>3 DEF T
<1>5. ASSUME NEW y \in S
      PROVE  x >= y
  <2>1. n - y \in T
    BY DEF T
  <2> QED
    BY <1>3, <1>4, <2>1
<1> QED
  BY <1>5 DEF Max

(* The headers in a list are natural numbers below some bound. *)
Bounded(f) == DOMAIN f # {} /\ \E n \in Nat : DOMAIN f \subseteq 0 .. n

(* The header before p in the circular list is the next below p, or, when   *)
(* there is none below, the last one.                                       *)
LEMMA PrevFacts ==
  ASSUME NEW f, Bounded(f), NEW p \in Nat
  PROVE  LET q == PrevOf(f, p) IN
         /\ q \in DOMAIN f /\ q \in Nat
         /\ q < p => \A x \in DOMAIN f : x < p => x <= q
         /\ q >= p => \A x \in DOMAIN f : p <= x /\ x <= q
<1>1. PICK n \in Nat : DOMAIN f \subseteq 0 .. n
  BY DEF Bounded
<1>2. DOMAIN f \in SUBSET (0 .. n) /\ Below(f, p) \in SUBSET (0 .. n) /\ DOMAIN f # {}
  BY <1>1 DEF Below, Bounded
<1>3. CASE Below(f, p) # {}
  <2>1. PrevOf(f, p) \in Below(f, p) /\ \A x \in Below(f, p) : PrevOf(f, p) >= x
    BY <1>2, <1>3, GreatestHeader DEF PrevOf
  <2> QED
    BY <1>1, <2>1 DEF Below
<1>4. CASE Below(f, p) = {}
  <2>1. PrevOf(f, p) \in DOMAIN f /\ \A x \in DOMAIN f : PrevOf(f, p) >= x
    BY <1>2, <1>4, GreatestHeader DEF PrevOf
  <2>2. \A x \in DOMAIN f : ~(x < p)
    BY <1>4 DEF Below
  <2> QED
    BY <1>1, <2>1, <2>2
<1> QED
  BY <1>3, <1>4

(* The header after p is the next above p, or the first one. *)
LEMMA NextFacts ==
  ASSUME NEW f, Bounded(f), NEW p \in Nat
  PROVE  LET q == NextOf(f, p) IN
         /\ q \in DOMAIN f /\ q \in Nat
         /\ q > p => \A x \in DOMAIN f : x > p => q <= x
         /\ q <= p => \A x \in DOMAIN f : x <= p /\ q <= x
<1>1. PICK n \in Nat : DOMAIN f \subseteq 0 .. n
  BY DEF Bounded
<1>2. DOMAIN f \in SUBSET Nat /\ Above(f, p) \in SUBSET Nat /\ DOMAIN f # {}
  BY <1>1 DEF Above, Bounded
<1>3. CASE Above(f, p) # {}
  <2>1. NextOf(f, p) \in Above(f, p) /\ \A x \in Above(f, p) : NextOf(f, p) <= x
    BY <1>2, <1>3, LeastHeader DEF NextOf
  <2> QED
    BY <1>1, <2>1 DEF Above
<1>4. CASE Above(f, p) = {}
  <2>1. NextOf(f, p) \in DOMAIN f /\ \A x \in DOMAIN f : NextOf(f, p) <= x
    BY <1>2, <1>4, LeastHeader DEF NextOf
  <2>2. \A x \in DOMAIN f : ~(x > p)
    BY <1>4 DEF Above
  <2> QED
    BY <1>1, <2>1, <2>2
<1> QED
  BY <1>3, <1>4

-----------------------------------------------------------------------------
(* Tilings                                                                 *)

(* s gives the blocks that lie, without gap and overlap, from lo up to hi. *)
Tile(s, lo, hi) ==
  /\ lo \in Nat /\ hi \in Nat
  /\ DOMAIN s \subseteq lo .. hi - 1
  /\ \A p \in DOMAIN s : s[p] \in Nat \ {0} /\ After(p, s[p]) <= hi /\ Aligned(p)
  /\ \A p, q \in DOMAIN s : p < q => After(p, s[p]) <= q
  /\ \A x \in lo .. hi - 1 : \E p \in DOMAIN s : p <= x /\ x < After(p, s[p])

(* The block at y becomes part of the one at x. *)
Joined(s, x, y) == Without(With(s, x, s[x] + s[y]), y)

IsJoin(t, s, x, y) ==
  /\ DOMAIN t = DOMAIN s \ {y} /\ t[x] = s[x] + s[y]
  /\ \A p \in DOMAIN s \ {x, y} : t[p] = s[p]
  /\ After(x, s[x] + s[y]) = After(y, s[y])

(* The last n units of the block at x, and those before. *)
Cut(s, x, k, n) == With(With(s, x, k), After(x, k), n)

IsCut(t, s, x, k, n) ==
  /\ After(x, k) \notin DOMAIN s /\ DOMAIN t = DOMAIN s \cup {After(x, k)}
  /\ t[x] = k /\ t[After(x, k)] = n
  /\ \A p \in DOMAIN s \ {x} : t[p] = s[p]

(* s with a block of n units at hi. *)
IsGrown(t, s, hi, n) ==
  /\ hi \notin DOMAIN s /\ DOMAIN t = DOMAIN s \cup {hi} /\ t[hi] = n
  /\ \A p \in DOMAIN s : t[p] = s[p]

(* Two blocks that touch can be joined. *)
LEMMA JoinTile ==
  ASSUME NEW lo, NEW hi, NEW s, Tile(s, lo, hi), NEW x \in DOMAIN s, NEW y \in DOMAIN s,
         After(x, s[x]) = y, NEW t, t = Joined(s, x, y)
  PROVE  Tile(t, lo, hi) /\ IsJoin(t, s, x, y)
<1>1. /\ lo \in Nat /\ hi \in Nat
      /\ \A p \in DOMAIN s : p \in Nat /\ lo <= p /\ p < hi /\ s[p] \in Nat \ {0} /\ After(p, s[p]) <= hi /\ Aligned(p)
      /\ \A p, q \in DOMAIN s : p < q => After(p, s[p]) <= q
      /\ \A z \in lo .. hi - 1 : \E p \in DOMAIN s : p <= z /\ z < After(p, s[p])
  BY DEF Tile
<1>2. After(x, s[x] + s[y]) = After(y, s[y]) /\ x < y /\ y < After(y, s[y]) /\ After(y, s[y]) \in Nat
  <2>1. x \in Nat /\ y \in Nat /\ s[x] \in Nat \ {0} /\ s[y] \in Nat \ {0}
    BY <1>1
  <2>2. After(x, s[x]) > x /\ After(y, s[y]) > y /\ After(y, s[y]) \in Nat
    BY <2>1, AfterMore
  <2>3. After(After(x, s[x]), s[y]) = After(x, s[x] + s[y])
    BY <2>1, AfterSum
  <2> QED
    BY <2>2, <2>3
<1>3. /\ DOMAIN t = DOMAIN s \ {y} /\ t[x] = s[x] + s[y]
      /\ \A p \in DOMAIN s \ {x, y} : t[p] = s[p]
  <2>1. x # y
    BY <1>1, <1>2
  <2> QED
    BY <2>1 DEF Joined, With, Without
<1>4. DOMAIN t \subseteq lo .. hi - 1
  BY <1>1, <1>3
<1>5. \A p \in DOMAIN t : t[p] \in Nat \ {0} /\ After(p, t[p]) <= hi /\ Aligned(p)
  BY <1>1, <1>2, <1>3
<1>6. ASSUME NEW p \in DOMAIN t, NEW q \in DOMAIN t, p < q
      PROVE  After(p, t[p]) <= q
  <2>1. p \in DOMAIN s /\ q \in DOMAIN s /\ q # y
    BY <1>3
  <2>2. CASE p = x
    <3>1. y <= q /\ y < q
      BY <1>1, <1>6, <2>1, <2>2
    <3>2. After(y, s[y]) <= q
      BY <1>1, <2>1, <3>1
    <3> QED
      BY <1>2, <1>3, <2>2, <3>2
  <2>3. CASE p # x
    BY <1>1, <1>3, <1>6, <2>1, <2>3
  <2> QED
    BY <2>2, <2>3
<1>7. ASSUME NEW z \in lo .. hi - 1
      PROVE  \E p \in DOMAIN t : p <= z /\ z < After(p, t[p])
  <2>1. PICK p \in DOMAIN s : p <= z /\ z < After(p, s[p])
    BY <1>1
  <2>2. CASE p \in {x, y}
    <3>1. x <= z
      BY <1>1, <1>2, <2>1, <2>2
    <3>2. z < After(y, s[y])
      BY <1>1, <1>2, <2>1, <2>2
    <3>3. x \in DOMAIN t /\ After(x, t[x]) = After(y, s[y])
      BY <1>1, <1>2, <1>3
    <3> QED
      BY <3>1, <3>2, <3>3
  <2>3. CASE p \notin {x, y}
    BY <1>3, <2>1, <2>3
  <2> QED
    BY <2>2, <2>3
<1>8. Tile(t, lo, hi)
  BY <1>1, <1>4, <1>5, <1>6, <1>7 DEF Tile
<1> QED
  BY <1>2, <1>3, <1>8 DEF IsJoin

(* A block can be cut in two. *)
LEMMA CutTile ==
  ASSUME NEW lo, NEW hi, NEW s, Tile(s, lo, hi), NEW x \in DOMAIN s,
         NEW k \in Nat \ {0}, NEW n \in Nat \ {0}, s[x] = k + n, NEW t, t = Cut(s, x, k, n)
  PROVE  Tile(t, lo, hi) /\ IsCut(t, s, x, k, n)
<1> DEFINE y == After(x, k)
<1>1. /\ lo \in Nat /\ hi \in Nat
      /\ \A p \in DOMAIN s : p \in Nat /\ lo <= p /\ p < hi /\ s[p] \in Nat \ {0} /\ After(p, s[p]) <= hi /\ Aligned(p)
      /\ \A p, q \in DOMAIN s : p < q => After(p, s[p]) <= q
      /\ \A z \in lo .. hi - 1 : \E p \in DOMAIN s : p <= z /\ z < After(p, s[p])
  BY DEF Tile
<1>2. /\ y \in Nat /\ x < y /\ y < After(x, s[x]) /\ After(y, n) = After(x, s[x]) /\ Aligned(y)
      /\ After(x, s[x]) \in Nat /\ x \in Nat
  <2>1. x \in Nat /\ k \in Nat /\ n \in Nat /\ k < k + n /\ Aligned(x) /\ k + n \in Nat
    BY <1>1
  <2>2. After(x, k) \in Nat /\ After(x, k) > x /\ After(x, k + n) \in Nat
    BY <2>1, AfterNat, AfterMore
  <2>3. After(x, k) < After(x, k + n)
    BY <2>1, AfterLess
  <2>4. After(After(x, k), n) = After(x, k + n)
    BY <2>1, AfterSum
  <2>5. Aligned(After(x, k))
    BY <2>1, AfterAligned
  <2> QED
    BY <2>1, <2>2, <2>3, <2>4, <2>5
<1>3. y \notin DOMAIN s
  BY <1>1, <1>2
<1>4. /\ DOMAIN t = DOMAIN s \cup {y} /\ t[x] = k /\ t[y] = n
      /\ \A p \in DOMAIN s \ {x} : t[p] = s[p]
  BY <1>2, <1>3 DEF Cut, With
<1> HIDE DEF y
<1>5. DOMAIN t \subseteq lo .. hi - 1
  BY <1>1, <1>2, <1>4
<1>6. \A p \in DOMAIN t : t[p] \in Nat \ {0} /\ After(p, t[p]) <= hi /\ Aligned(p)
  <2>1. After(x, k) <= hi /\ After(y, n) <= hi
    BY <1>1, <1>2 DEF y
  <2> QED
    BY <1>1, <1>2, <1>4, <2>1
<1>7. ASSUME NEW p \in DOMAIN t, NEW q \in DOMAIN t, p < q
      PROVE  After(p, t[p]) <= q
  <2>1. CASE p = x /\ q = y
    BY <1>4, <1>2, <2>1 DEF y
  <2>2. CASE p = x /\ q # y
    <3>1. After(x, s[x]) <= q /\ q \in Nat
      BY <1>1, <1>4, <1>7, <2>2
    <3> QED
      BY <1>2, <1>4, <2>2, <3>1 DEF y
  <2>3. CASE p = y
    <3>1. q \in DOMAIN s /\ q \in Nat
      BY <1>1, <1>2, <1>4, <1>7, <2>3
    <3>2. After(x, s[x]) <= q
      BY <1>1, <1>2, <1>7, <2>3, <3>1
    <3> QED
      BY <1>2, <1>4, <2>3, <3>2
  <2>4. CASE p # x /\ p # y /\ q = y
    <3>1. p \in DOMAIN s /\ p \in Nat /\ t[p] = s[p]
      BY <1>1, <1>4, <2>4
    <3>2. p < x
      BY <1>1, <1>2, <1>7, <2>4, <3>1
    <3>3. After(p, s[p]) <= x /\ After(p, s[p]) \in Nat
      BY <1>1, <3>1, <3>2, AfterMore
    <3> QED
      BY <1>2, <2>4, <3>1, <3>3
  <2>5. CASE p # x /\ p # y /\ q # y
    BY <1>1, <1>4, <1>7, <2>5
  <2> QED
    BY <2>1, <2>2, <2>3, <2>4, <2>5
<1>8. ASSUME NEW z \in lo .. hi - 1
      PROVE  \E p \in DOMAIN t : p <= z /\ z < After(p, t[p])
  <2>1. PICK p \in DOMAIN s : p <= z /\ z < After(p, s[p])
    BY <1>1
  <2>2. CASE p = x /\ z < y
    BY <1>4, <2>1, <2>2 DEF y
  <2>3. CASE p = x /\ ~(z < y)
    <3>1. y <= z /\ z < After(y, t[y])
      BY <1>2, <1>4, <2>1, <2>3
    <3> QED
      BY <1>4, <3>1
  <2>4. CASE p # x
    BY <1>4, <2>1, <2>4
  <2> QED
    BY <2>2, <2>3, <2>4
<1>9. Tile(t, lo, hi)
  BY <1>1, <1>5, <1>6, <1>7, <1>8 DEF Tile
<1> QED
  BY <1>3, <1>4, <1>9 DEF y, IsCut

(* A block can be added at the end. *)
LEMMA GrowTile ==
  ASSUME NEW lo, NEW hi, NEW s, Tile(s, lo, hi), lo <= hi, Aligned(hi), NEW n \in Nat \ {0},
         NEW t, t = With(s, hi, n)
  PROVE  Tile(t, lo, After(hi, n)) /\ IsGrown(t, s, hi, n)
<1> DEFINE e == After(hi, n)
<1>1. /\ lo \in Nat /\ hi \in Nat
      /\ \A p \in DOMAIN s : p \in Nat /\ lo <= p /\ p < hi /\ s[p] \in Nat \ {0} /\ After(p, s[p]) <= hi /\ Aligned(p)
      /\ \A p, q \in DOMAIN s : p < q => After(p, s[p]) <= q
      /\ \A z \in lo .. hi - 1 : \E p \in DOMAIN s : p <= z /\ z < After(p, s[p])
  BY DEF Tile
<1>2. e \in Nat /\ hi < e
  BY <1>1, AfterMore
<1>3. hi \notin DOMAIN s
  BY <1>1
<1>4. /\ DOMAIN t = DOMAIN s \cup {hi} /\ t[hi] = n
      /\ \A p \in DOMAIN s : t[p] = s[p]
  BY <1>3 DEF With
<1>5. \A p \in DOMAIN s : After(p, s[p]) \in Nat
  BY <1>1, AfterMore
<1> HIDE DEF e
<1>6. DOMAIN t \subseteq lo .. e - 1
  BY <1>1, <1>2, <1>4
<1>7. \A p \in DOMAIN t : t[p] \in Nat \ {0} /\ After(p, t[p]) <= e /\ Aligned(p)
  BY <1>1, <1>2, <1>4, <1>5 DEF e
<1>8. \A p, q \in DOMAIN t : p < q => After(p, t[p]) <= q
  BY <1>1, <1>4
<1>9. ASSUME NEW z \in lo .. e - 1
      PROVE  \E p \in DOMAIN t : p <= z /\ z < After(p, t[p])
  <2>1. CASE z < hi
    <3>1. z \in lo .. hi - 1
      BY <1>1, <1>2, <2>1
    <3>2. PICK p \in DOMAIN s : p <= z /\ z < After(p, s[p])
      BY <1>1, <3>1
    <3> QED
      BY <1>4, <3>2
  <2>2. CASE ~(z < hi)
    BY <1>1, <1>2, <1>4, <2>2 DEF e
  <2> QED
    BY <2>1, <2>2
<1>10. Tile(t, lo, e)
  BY <1>1, <1>2, <1>6, <1>7, <1>8, <1>9 DEF Tile
<1> QED
  BY <1>3, <1>4, <1>10 DEF e, IsGrown

-----------------------------------------------------------------------------
(* The list                                                                *)

(* The list f is a part of the blocks s, but for base, which is no block;   *)
(* none of its blocks touches another.                                      *)
Listed(f, bs, s, lo, hi) ==
  /\ Tile(s, lo, hi)
  /\ bs \in Nat /\ (bs < lo \/ bs > hi)
  /\ bs \in DOMAIN f /\ f[bs] = 0
  /\ DOMAIN f \ {bs} \subseteq DOMAIN s
  /\ \A p \in DOMAIN f \ {bs} : f[p] = s[p]
  /\ \A x, y \in DOMAIN f \ {bs} : After(x, f[x]) # y

(* The blocks that are held. *)
Busy(s, f) == DOMAIN s \ DOMAIN f

(* A list of blocks is finite. *)
LEMMA ListBounded ==
  ASSUME NEW lo, NEW hi, NEW s, NEW f, NEW bs, Listed(f, bs, s, lo, hi)
  PROVE  Bounded(f)
<1>1. hi \in Nat /\ bs \in Nat /\ bs \in DOMAIN f
  BY DEF Tile, Listed
<1>2. DOMAIN f \subseteq 0 .. (hi + bs)
  BY <1>1 DEF Tile, Listed
<1>3. hi + bs \in Nat
  BY <1>1
<1> QED
  BY <1>1, <1>2, <1>3 DEF Bounded

(* The search in mspace_k_r_malloc_free() finds the blocks that touch the   *)
(* one that is freed, wherever in the circle they are.                      *)
LEMMA Touching ==
  ASSUME NEW lo, NEW hi, NEW s, NEW f, NEW bs, Listed(f, bs, s, lo, hi),
         NEW bp \in Busy(s, f)
  PROVE  LET p == PrevOf(f, bp)
             u == NextOf(f, p)
         IN /\ p \in DOMAIN f /\ p \in Nat /\ u \in DOMAIN f
            /\ \A c \in DOMAIN f : After(bp, s[bp]) = c => c = u /\ c # bs
            /\ \A c \in DOMAIN f : After(c, f[c]) = bp => c = p /\ c # bs
            /\ After(bp, s[bp]) = u => p # u
<1> DEFINE p == PrevOf(f, bp)
           u == NextOf(f, p)
<1>1. /\ lo \in Nat /\ hi \in Nat
      /\ \A q \in DOMAIN s : q \in Nat /\ lo <= q /\ q < hi /\ s[q] \in Nat \ {0} /\ After(q, s[q]) <= hi
      /\ \A q, r \in DOMAIN s : q < r => After(q, s[q]) <= r
  BY DEF Tile, Listed
<1>2. bp \in DOMAIN s /\ bp \in Nat /\ bp \notin DOMAIN f /\ lo <= bp /\ bp < hi
  BY <1>1 DEF Busy
<1>3. /\ p \in DOMAIN f /\ p \in Nat
      /\ p < bp => \A x \in DOMAIN f : x < bp => x <= p
      /\ p >= bp => \A x \in DOMAIN f : bp <= x /\ x <= p
  BY <1>2, ListBounded, PrevFacts
<1> HIDE DEF p
<1>4. /\ u \in DOMAIN f /\ u \in Nat
      /\ u > p => \A x \in DOMAIN f : x > p => u <= x
      /\ u <= p => \A x \in DOMAIN f : x <= p /\ u <= x
  BY <1>3, ListBounded, NextFacts
<1> HIDE DEF u
<1>5. /\ bs \in Nat /\ (bs < lo \/ bs > hi) /\ f[bs] = 0
      /\ DOMAIN f \ {bs} \subseteq DOMAIN s /\ \A q \in DOMAIN f \ {bs} : f[q] = s[q]
  BY DEF Listed
<1>6. After(bp, s[bp]) \in Nat /\ bp < After(bp, s[bp]) /\ After(bp, s[bp]) <= hi
  BY <1>1, <1>2, AfterMore
<1>7. ASSUME NEW c \in DOMAIN f, After(bp, s[bp]) = c
      PROVE  c = u /\ c # bs
  <2>1. c # bs /\ c \in DOMAIN s /\ bp < c /\ c \in Nat
    BY <1>1, <1>2, <1>5, <1>6, <1>7
  <2>2. u <= c /\ bp < u
    <3>1. CASE p < bp
      <4>1. u > p /\ u <= c
        BY <1>2, <1>3, <1>4, <2>1, <3>1
      <4>2. ~(u < bp)
        BY <1>2, <1>3, <1>4, <3>1, <4>1
      <4> QED
        BY <1>2, <1>4, <4>1, <4>2
    <3>2. CASE ~(p < bp)
      BY <1>2, <1>3, <1>4, <2>1, <3>2
    <3> QED
      BY <3>1, <3>2
  <2>3. ~(u < c)
    <3>1. CASE u = bs
      BY <1>1, <1>2, <1>5, <1>6, <1>7, <2>2, <3>1
    <3>2. CASE u # bs
      <4>1. u \in DOMAIN s
        BY <1>4, <1>5, <3>2
      <4>2. After(bp, s[bp]) <= u
        BY <1>1, <1>2, <2>2, <4>1
      <4> QED
        BY <1>4, <1>6, <1>7, <4>2
    <3> QED
      BY <3>1, <3>2
  <2> QED
    BY <1>4, <1>7, <1>6, <2>1, <2>2, <2>3
<1>8. ASSUME NEW c \in DOMAIN f, After(c, f[c]) = bp
      PROVE  c = p /\ c # bs
  <2>1. c # bs
    <3>1. After(bs, 0) = bs
      BY <1>5, Sane DEF After
    <3> QED
      BY <1>1, <1>2, <1>5, <1>8, <3>1
  <2>2. c \in DOMAIN s /\ c \in Nat /\ c < bp /\ After(c, s[c]) = bp /\ lo <= c
    <3>1. c \in DOMAIN s /\ f[c] = s[c]
      BY <1>5, <2>1
    <3> QED
      BY <1>1, <1>8, <3>1, AfterMore
  <2>3. c <= p /\ p < bp
    BY <1>2, <1>3, <2>2
  <2>4. ~(c < p)
    <3>1. CASE p = bs
      BY <1>1, <1>2, <1>5, <2>2, <2>3, <3>1
    <3>2. CASE p # bs
      <4>1. p \in DOMAIN s
        BY <1>3, <1>5, <3>2
      <4> QED
        BY <1>1, <1>2, <2>2, <2>3, <4>1
    <3> QED
      BY <3>1, <3>2
  <2> QED
    BY <1>3, <2>1, <2>2, <2>3, <2>4
<1>9. ASSUME After(bp, s[bp]) = u, p = u
      PROVE  FALSE
  <2>1. bs \in DOMAIN f /\ bs # u
    BY <1>4, <1>7, <1>9 DEF Listed
  <2>2. \A x \in DOMAIN f : x <= p /\ p <= x
    BY <1>3, <1>4, <1>9
  <2> QED
    BY <1>3, <1>5, <1>9, <2>1, <2>2
<1> QED
  BY <1>3, <1>4, <1>7, <1>8, <1>9 DEF p, u

(* The list with the freed block, joined to the one above if they touch. *)
JoinedUp(f, bp, size, u) ==
  IF After(bp, size) = u THEN With(Without(f, u), bp, size + f[u]) ELSE With(f, bp, size)

(* The list j is a part of the tiling t; B are the other blocks of t, which *)
(* are as in s.                                                             *)
PartOf(j, bs, t, s, B, lo, hi) ==
  /\ Tile(t, lo, hi)
  /\ DOMAIN j \ {bs} \subseteq DOMAIN t
  /\ \A x \in DOMAIN j \ {bs} : j[x] = t[x]
  /\ Busy(t, j) = B
  /\ \A x \in B : t[x] = s[x]

(* Only the freed block may touch a block of j from above. *)
OnlyBelow(j, f, bp, bs) ==
  /\ bp \in DOMAIN j /\ bs \in DOMAIN j /\ bs # bp /\ j[bs] = 0 /\ PrevOf(f, bp) \in DOMAIN j
  /\ \A x \in DOMAIN j \ {bp} : x \in DOMAIN f /\ j[x] = f[x]
  /\ \A x, y \in DOMAIN j \ {bs} : After(x, j[x]) = y => y = bp

(* That list is a part of a tiling in which only the freed block may touch  *)
(* one that is free, the one below it.                                      *)
LEMMA UpperJoined ==
  ASSUME NEW lo, NEW hi, NEW s, NEW f, NEW bs, Listed(f, bs, s, lo, hi),
         NEW bp \in Busy(s, f), NEW j, j = JoinedUp(f, bp, s[bp], NextOf(f, PrevOf(f, bp)))
  PROVE  /\ OnlyBelow(j, f, bp, bs)
         /\ j[bp] \in Nat /\ j[bp] >= s[bp]
         /\ \E t : PartOf(j, bs, t, s, Busy(s, f) \ {bp}, lo, hi)
<1>1. PICK p : p = PrevOf(f, bp)
  OBVIOUS
<1>2. PICK u : u = NextOf(f, p)
  OBVIOUS
<1>3. /\ p \in DOMAIN f /\ u \in DOMAIN f
      /\ \A c \in DOMAIN f : After(bp, s[bp]) = c => c = u /\ c # bs
      /\ After(bp, s[bp]) = u => p # u
  BY <1>1, <1>2, Touching
<1>4. /\ Tile(s, lo, hi) /\ bs \in DOMAIN f /\ f[bs] = 0
      /\ DOMAIN f \ {bs} \subseteq DOMAIN s /\ \A q \in DOMAIN f \ {bs} : f[q] = s[q]
      /\ \A x, y \in DOMAIN f \ {bs} : After(x, f[x]) # y
  BY DEF Listed
<1>5. bp \in DOMAIN s /\ bp \notin DOMAIN f /\ bp # bs /\ \A x \in DOMAIN s : s[x] \in Nat
  BY <1>4 DEF Busy, Tile
<1>6. CASE After(bp, s[bp]) = u
  <2>1. u # bs /\ u \in DOMAIN s /\ u # bp /\ f[u] = s[u]
    BY <1>3, <1>4, <1>5, <1>6
  <2>2. j = With(Without(f, u), bp, s[bp] + s[u])
    BY <1>1, <1>2, <1>6, <2>1 DEF JoinedUp
  <2>3. /\ DOMAIN j = (DOMAIN f \ {u}) \cup {bp} /\ j[bp] = s[bp] + s[u]
        /\ \A x \in DOMAIN f \ {u} : j[x] = f[x]
    BY <1>5, <2>2 DEF With, Without
  <2>4. PICK t : t = Joined(s, bp, u)
    OBVIOUS
  <2>5. /\ Tile(t, lo, hi) /\ DOMAIN t = DOMAIN s \ {u} /\ t[bp] = s[bp] + s[u]
        /\ \A x \in DOMAIN s \ {bp, u} : t[x] = s[x]
        /\ After(bp, s[bp] + s[u]) = After(u, s[u])
    <3>1. Tile(t, lo, hi) /\ IsJoin(t, s, bp, u)
      BY ONLY <1>4, <1>5, <1>6, <2>1, <2>4, JoinTile
    <3> QED
      BY <3>1 DEF IsJoin
  <2>6. ASSUME NEW x \in DOMAIN j \ {bs}, NEW y \in DOMAIN j \ {bs}, After(x, j[x]) = y
        PROVE  y = bp
    <3>1. CASE x = bp
      <4>1. After(u, f[u]) = y
        BY <2>1, <2>3, <2>5, <2>6, <3>1
      <4> QED
        BY <1>3, <1>4, <2>1, <2>3, <4>1
    <3>2. CASE x # bp
      BY <1>4, <2>3, <2>6, <3>2
    <3> QED
      BY <3>1, <3>2
  <2>7. /\ bp \in DOMAIN j /\ bs \in DOMAIN j /\ j[bs] = 0 /\ p \in DOMAIN j
        /\ \A x \in DOMAIN j \ {bp} : x \in DOMAIN f /\ j[x] = f[x]
    BY <1>3, <1>4, <1>5, <1>6, <2>1, <2>3
  <2>8. DOMAIN j \ {bs} \subseteq DOMAIN t /\ \A x \in DOMAIN j \ {bs} : j[x] = t[x]
    BY <1>4, <1>5, <2>1, <2>3, <2>5
  <2>9. Busy(t, j) = Busy(s, f) \ {bp} /\ \A x \in Busy(t, j) : t[x] = s[x]
    BY <1>3, <2>3, <2>5 DEF Busy
  <2>10. PartOf(j, bs, t, s, Busy(s, f) \ {bp}, lo, hi)
    BY <2>5, <2>8, <2>9 DEF PartOf
  <2> QED
    BY <1>1, <1>5, <2>1, <2>3, <2>6, <2>7, <2>10 DEF OnlyBelow
<1>7. CASE After(bp, s[bp]) # u
  <2>1. j = With(f, bp, s[bp])
    BY <1>1, <1>2, <1>7 DEF JoinedUp
  <2>2. /\ DOMAIN j = DOMAIN f \cup {bp} /\ j[bp] = s[bp]
        /\ \A x \in DOMAIN f : j[x] = f[x]
    BY <1>5, <2>1 DEF With
  <2>3. ASSUME NEW x \in DOMAIN j \ {bs}, NEW y \in DOMAIN j \ {bs}, After(x, j[x]) = y
        PROVE  y = bp
    <3>1. CASE x = bp
      BY <1>3, <1>7, <2>2, <2>3, <3>1
    <3>2. CASE x # bp
      BY <1>4, <2>2, <2>3, <3>2
    <3> QED
      BY <3>1, <3>2
  <2>4. /\ bp \in DOMAIN j /\ bs \in DOMAIN j /\ j[bs] = 0 /\ p \in DOMAIN j
        /\ \A x \in DOMAIN j \ {bp} : x \in DOMAIN f /\ j[x] = f[x]
    BY <1>3, <1>4, <2>2
  <2>5. DOMAIN j \ {bs} \subseteq DOMAIN s /\ \A x \in DOMAIN j \ {bs} : j[x] = s[x]
    BY <1>4, <1>5, <2>2
  <2>6. Busy(s, j) = Busy(s, f) \ {bp}
    BY <2>2 DEF Busy
  <2>7. PartOf(j, bs, s, s, Busy(s, f) \ {bp}, lo, hi)
    BY <1>4, <2>5, <2>6 DEF PartOf
  <2> QED
    BY <1>1, <1>5, <2>2, <2>3, <2>4, <2>7 DEF OnlyBelow
<1> QED
  BY <1>6, <1>7

(* The blocks that are held are B, and are as in s. *)
Kept(t, g, s, B) == Busy(t, g) = B /\ \A x \in B : t[x] = s[x]

(* The list g after a block of n units was freed: p, where the next search  *)
(* starts, is in it, a block of that size is, and B are the blocks held.    *)
FreedList(g, p, n, bs, s, B, lo, hi) ==
  /\ p \in DOMAIN g /\ \E x \in DOMAIN g : g[x] >= n
  /\ \E t : Listed(g, bs, t, lo, hi) /\ Kept(t, g, s, B)

(* mspace_k_r_malloc_free() of a block: the list stays a part of a tiling,  *)
(* and the blocks that are still held are untouched.                        *)
LEMMA LowerJoined ==
  ASSUME NEW lo, NEW hi, NEW s, NEW f, NEW bs, Listed(f, bs, s, lo, hi), NEW bp \in Busy(s, f),
         NEW p, p = PrevOf(f, bp), NEW j, j = JoinedUp(f, bp, s[bp], NextOf(f, p)),
         NEW g, g = IF After(p, f[p]) = bp THEN [Without(j, bp) EXCEPT ![p] = @ + j[bp]] ELSE j
  PROVE  FreedList(g, p, s[bp], bs, s, Busy(s, f) \ {bp}, lo, hi)
<1>1. /\ p \in DOMAIN f
      /\ \A c \in DOMAIN f : After(c, f[c]) = bp => c = p /\ c # bs
  BY Touching
<1>2. /\ bp \in DOMAIN j /\ bs \in DOMAIN j /\ bs # bp /\ j[bs] = 0 /\ p \in DOMAIN j
      /\ \A x \in DOMAIN j \ {bp} : x \in DOMAIN f /\ j[x] = f[x]
      /\ \A x, y \in DOMAIN j \ {bs} : After(x, j[x]) = y => y = bp
      /\ j[bp] \in Nat /\ j[bp] >= s[bp]
  <2>1. j = JoinedUp(f, bp, s[bp], NextOf(f, PrevOf(f, bp)))
    OBVIOUS
  <2>2. OnlyBelow(j, f, bp, bs) /\ j[bp] \in Nat /\ j[bp] >= s[bp]
    BY <2>1, UpperJoined
  <2> QED
    BY <2>2 DEF OnlyBelow
<1>3. PICK t : /\ Tile(t, lo, hi)
               /\ DOMAIN j \ {bs} \subseteq DOMAIN t
               /\ \A x \in DOMAIN j \ {bs} : j[x] = t[x]
               /\ Busy(t, j) = Busy(s, f) \ {bp}
               /\ \A x \in Busy(t, j) : t[x] = s[x]
  <2>1. PICK t : PartOf(j, bs, t, s, Busy(s, f) \ {bp}, lo, hi)
    <3>1. j = JoinedUp(f, bp, s[bp], NextOf(f, PrevOf(f, bp)))
      OBVIOUS
    <3> QED
      BY <3>1, UpperJoined
  <2> QED
    BY <2>1 DEF PartOf
<1>4. bs \in Nat /\ (bs < lo \/ bs > hi) /\ p # bp
  BY <1>1 DEF Listed, Busy
<1>5. CASE After(p, f[p]) = bp
  <2>1. p # bs /\ p \in DOMAIN t /\ bp \in DOMAIN t /\ j[p] = f[p] /\ j[p] = t[p] /\ j[bp] = t[bp]
    BY <1>1, <1>2, <1>3, <1>4, <1>5
  <2>2. After(p, t[p]) = bp /\ Tile(t, lo, hi)
    BY <1>3, <1>5, <2>1
  <2>3. PICK v : v = Joined(t, p, bp)
    OBVIOUS
  <2>4. /\ Tile(v, lo, hi) /\ DOMAIN v = DOMAIN t \ {bp} /\ v[p] = t[p] + t[bp]
        /\ \A x \in DOMAIN t \ {p, bp} : v[x] = t[x]
        /\ After(p, t[p] + t[bp]) = After(bp, t[bp])
    <3>1. Tile(v, lo, hi) /\ IsJoin(v, t, p, bp)
      BY <2>1, <2>3, <2>2, JoinTile
    <3> QED
      BY <3>1 DEF IsJoin
  <2>5. g = [Without(j, bp) EXCEPT ![p] = @ + j[bp]]
    BY <1>5
  <2>6. /\ DOMAIN g = DOMAIN j \ {bp} /\ g[p] = j[p] + j[bp]
        /\ \A x \in DOMAIN j \ {p, bp} : g[x] = j[x]
    BY <1>2, <1>4, <2>5 DEF Without
  <2>7. ASSUME NEW x \in DOMAIN g \ {bs}, NEW y \in DOMAIN g \ {bs}, After(x, g[x]) = y
        PROVE  FALSE
    <3>1. CASE x = p
      <4>1. After(bp, j[bp]) = y
        BY <2>1, <2>4, <2>6, <2>7, <3>1
      <4> QED
        BY <1>2, <2>6, <4>1
    <3>2. CASE x # p
      BY <1>2, <2>6, <2>7, <3>2
    <3> QED
      BY <3>1, <3>2
  <2>8. DOMAIN g \ {bs} \subseteq DOMAIN v /\ \A x \in DOMAIN g \ {bs} : g[x] = v[x]
    BY <1>3, <2>1, <2>4, <2>6
  <2>9. bs \in DOMAIN g /\ g[bs] = 0
    BY <1>2, <2>1, <2>6
  <2>10. Listed(g, bs, v, lo, hi)
    BY <1>4, <2>4, <2>7, <2>8, <2>9 DEF Listed
  <2>11. Busy(v, g) = Busy(s, f) \ {bp} /\ \A x \in Busy(v, g) : v[x] = s[x]
    BY <1>2, <1>3, <2>1, <2>4, <2>6 DEF Busy
  <2>12. p \in DOMAIN g
    BY <1>2, <1>4, <2>6
  <2>13. g[p] >= s[bp]
    <3>1. j[p] \in Nat /\ s[bp] \in Nat
      BY <1>3, <2>1 DEF Tile, Listed, Busy
    <3> QED
      BY <1>2, <2>6, <3>1
  <2> QED
    BY <2>10, <2>11, <2>12, <2>13 DEF Kept, FreedList
<1>6. CASE After(p, f[p]) # bp
  <2>1. g = j
    BY <1>6
  <2>2. ASSUME NEW x \in DOMAIN g \ {bs}, NEW y \in DOMAIN g \ {bs}, After(x, g[x]) = y
        PROVE  FALSE
    <3>1. y = bp
      BY <1>2, <2>1, <2>2
    <3>2. x # bp
      <4>1. bp \in DOMAIN t /\ bp \in Nat /\ t[bp] \in Nat \ {0} /\ j[bp] = t[bp]
        BY <1>2, <1>3 DEF Tile
      <4>2. bp < After(bp, j[bp])
        BY <4>1, AfterMore
      <4> QED
        BY <2>1, <2>2, <3>1, <4>1, <4>2
    <3>3. x \in DOMAIN f /\ After(x, f[x]) = bp
      BY <1>2, <2>1, <2>2, <3>1, <3>2
    <3> QED
      BY <1>1, <1>6, <3>3
  <2>3. Listed(g, bs, t, lo, hi)
    BY <1>2, <1>3, <1>4, <2>1, <2>2 DEF Listed
  <2> QED
    BY <1>2, <1>3, <2>1, <2>3 DEF Kept, FreedList
<1> QED
  BY <1>5, <1>6

(* A heap whose list is a part of the tiling s of the memory from lo up to  *)
(* hi, and whose search starts in the list.                                 *)
Sound(hp, bs, s, lo, hi) == Listed(hp.list, bs, s, lo, hi) /\ hp.freep \in DOMAIN hp.list

(* mspace_k_r_malloc_free() keeps a heap sound, and leaves a block in the   *)
(* list that is as large as the freed one.                                  *)
LEMMA FreedSound ==
  ASSUME NEW lo, NEW hi, NEW s, NEW hp, NEW bs, Sound(hp, bs, s, lo, hi),
         NEW bp \in Busy(s, hp.list), NEW g, g = Freed(hp, bp, s[bp])
  PROVE  /\ \E t : Sound(g, bs, t, lo, hi) /\ Kept(t, g.list, s, Busy(s, hp.list) \ {bp})
         /\ Fitting(g, s[bp]) # {}
<1>1. PICK f : f = hp.list
  OBVIOUS
<1>2. PICK p : p = PrevOf(f, bp)
  OBVIOUS
<1>3. PICK j : j = JoinedUp(f, bp, s[bp], NextOf(f, p))
  OBVIOUS
<1>4. PICK l : l = IF After(p, f[p]) = bp THEN [Without(j, bp) EXCEPT ![p] = @ + j[bp]] ELSE j
  OBVIOUS
<1>5. g = [list |-> l, freep |-> p]
  BY <1>1, <1>2, <1>3, <1>4 DEF Freed, JoinedUp
<1>6. Listed(f, bs, s, lo, hi) /\ bp \in Busy(s, f)
  BY <1>1 DEF Sound
<1>7. FreedList(l, p, s[bp], bs, s, Busy(s, f) \ {bp}, lo, hi)
  BY <1>2, <1>3, <1>4, <1>6, LowerJoined
<1>8. g.list = l /\ g.freep = p
  BY <1>5
<1>9. \E t : Sound(g, bs, t, lo, hi) /\ Kept(t, g.list, s, Busy(s, hp.list) \ {bp})
  BY <1>1, <1>7, <1>8 DEF Sound, FreedList
<1>10. Fitting(g, s[bp]) # {}
  BY <1>7, <1>8 DEF Fitting, FreedList
<1> QED
  BY <1>9, <1>10

(* morecore(): a block of n units is added at the end and freed. *)
LEMMA GrownSound ==
  ASSUME NEW lo, NEW hi, NEW s, NEW hp, NEW bs, Sound(hp, bs, s, lo, hi),
         lo <= hi, Aligned(hi), NEW n \in Nat \ {0}, bs < lo \/ bs > After(hi, n),
         NEW g, g = Freed(hp, hi, n)
  PROVE  /\ \E t : Sound(g, bs, t, lo, After(hi, n)) /\ Kept(t, g.list, s, Busy(s, hp.list))
         /\ Fitting(g, n) # {}
<1>1. PICK w : w = With(s, hi, n)
  OBVIOUS
<1>2. Tile(s, lo, hi) /\ Listed(hp.list, bs, s, lo, hi)
  BY DEF Sound, Listed
<1>3. /\ Tile(w, lo, After(hi, n)) /\ hi \notin DOMAIN s /\ DOMAIN w = DOMAIN s \cup {hi}
      /\ w[hi] = n /\ \A p \in DOMAIN s : w[p] = s[p]
  <2>1. Tile(w, lo, After(hi, n)) /\ IsGrown(w, s, hi, n)
    BY <1>1, <1>2, GrowTile
  <2> QED
    BY <2>1 DEF IsGrown
<1>4. Listed(hp.list, bs, w, lo, After(hi, n))
  BY <1>2, <1>3 DEF Listed
<1>5. Sound(hp, bs, w, lo, After(hi, n))
  BY <1>4 DEF Sound
<1>6. hi # bs
  <2>1. hi \in Nat /\ After(hi, n) > hi /\ lo \in Nat /\ bs \in Nat /\ After(hi, n) \in Nat
    BY <1>2, AfterMore DEF Tile, Listed
  <2> QED
    BY <2>1
<1>7. hi \in Busy(w, hp.list) /\ Busy(w, hp.list) = Busy(s, hp.list) \cup {hi} /\ hi \notin Busy(s, hp.list)
  BY <1>2, <1>3, <1>6 DEF Busy, Listed
<1>8. /\ \E t : Sound(g, bs, t, lo, After(hi, n)) /\ Kept(t, g.list, w, Busy(w, hp.list) \ {hi})
      /\ Fitting(g, w[hi]) # {}
  <2>1. g = Freed(hp, hi, w[hi])
    BY <1>3
  <2> QED
    BY <1>5, <1>7, <2>1, FreedSound
<1>9. Busy(w, hp.list) \ {hi} = Busy(s, hp.list)
  BY <1>7
<1>10. \A t : Kept(t, g.list, w, Busy(s, hp.list)) => Kept(t, g.list, s, Busy(s, hp.list))
  BY <1>3 DEF Kept, Busy
<1> QED
  BY <1>3, <1>8, <1>9, <1>10

(* The blocks that are held are those of B and a block b of n units. *)
KeptAnd(t, g, s, B, b, n) ==
  /\ Busy(t, g) = B \cup {b} /\ b \notin B /\ t[b] = n
  /\ \A x \in B : t[x] = s[x]

(* The search in mspace_k_r_malloc_alloc() ends at a block that fits. *)
LEMMA FirstFits ==
  ASSUME NEW lo, NEW hi, NEW s, NEW hp, NEW bs, Sound(hp, bs, s, lo, hi),
         NEW n \in Nat \ {0}, Fitting(hp, n) # {}
  PROVE  FirstFit(hp, n) \in Fitting(hp, n)
<1> DEFINE later == {p \in Fitting(hp, n) : p > hp.freep}
<1>1. DOMAIN hp.list \subseteq Nat
  BY DEF Sound, Listed, Tile
<1>2. Fitting(hp, n) \in SUBSET Nat /\ later \in SUBSET Nat
  BY <1>1 DEF Fitting
<1>3. Min(Fitting(hp, n)) \in Fitting(hp, n)
  BY <1>2, LeastHeader
<1>4. ASSUME later # {}
      PROVE  Min(later) \in Fitting(hp, n)
  BY <1>2, <1>4, LeastHeader
<1> QED
  BY <1>3, <1>4 DEF FirstFit

(* mspace_k_r_malloc_alloc(): the block that is found is taken as it is, or *)
(* its upper part is.                                                       *)
LEMMA TakenSound ==
  ASSUME NEW lo, NEW hi, NEW s, NEW hp, NEW bs, Sound(hp, bs, s, lo, hi),
         NEW n \in Nat \ {0}, Fitting(hp, n) # {},
         NEW g, g = Taken(hp, n), NEW b, b = BlockOf(hp, n)
  PROVE  \E t : Sound(g, bs, t, lo, hi) /\ KeptAnd(t, g.list, s, Busy(s, hp.list), b, n)
<1>1. PICK p : p = FirstFit(hp, n)
  OBVIOUS
<1>2. PICK f : f = hp.list
  OBVIOUS
<1>3. p \in DOMAIN f /\ f[p] >= n
  BY <1>1, <1>2, FirstFits DEF Fitting
<1>4. /\ Tile(s, lo, hi) /\ bs \in DOMAIN f /\ f[bs] = 0 /\ bs \in Nat /\ (bs < lo \/ bs > hi)
      /\ DOMAIN f \ {bs} \subseteq DOMAIN s /\ \A q \in DOMAIN f \ {bs} : f[q] = s[q]
      /\ \A x, y \in DOMAIN f \ {bs} : After(x, f[x]) # y
  BY <1>2 DEF Sound, Listed
<1>5. p # bs /\ p \in DOMAIN s /\ f[p] = s[p] /\ p \in Nat /\ f[p] \in Nat
  <2>1. p # bs
    BY <1>3, <1>4
  <2> QED
    BY <1>3, <1>4, <2>1 DEF Tile
<1>6. PrevOf(f, p) \in DOMAIN f /\ PrevOf(f, p) # p
  <2>1. Bounded(f)
    BY <1>2, ListBounded DEF Sound
  <2>2. PICK q : q = PrevOf(f, p)
    OBVIOUS
  <2>3. /\ q \in DOMAIN f /\ q \in Nat
        /\ q >= p => \A x \in DOMAIN f : p <= x /\ x <= q
    BY <1>5, <2>1, <2>2, PrevFacts
  <2>4. q # p
    BY <1>4, <1>5, <2>3
  <2> QED
    BY <2>2, <2>3, <2>4
<1>7. b = After(p, f[p] - n) /\ g.freep = PrevOf(f, p)
  BY <1>1, <1>2 DEF BlockOf, Taken
<1>8. CASE f[p] = n
  <2>1. b = p
    BY <1>5, <1>7, <1>8, Sane DEF After
  <2>2. PICK l : l = g.list
    OBVIOUS
  <2>3. l = Without(f, p)
    BY <1>1, <1>2, <1>8, <2>2 DEF Taken
  <2>4. DOMAIN l = DOMAIN f \ {p} /\ \A x \in DOMAIN l : l[x] = f[x]
    BY <2>3 DEF Without
  <2>5. Listed(l, bs, s, lo, hi)
    BY <1>4, <1>5, <2>4 DEF Listed
  <2>6. KeptAnd(s, l, s, Busy(s, f), b, n)
    BY <1>3, <1>5, <1>8, <2>1, <2>4 DEF KeptAnd, Busy
  <2>7. Sound(g, bs, s, lo, hi)
    BY <1>6, <1>7, <2>2, <2>4, <2>5 DEF Sound
  <2> QED
    BY <1>2, <2>2, <2>6, <2>7
<1>9. CASE f[p] # n
  <2>1. PICK k \in Nat \ {0} : k = f[p] - n
    BY <1>3, <1>5, <1>9
  <2>2. PICK t : t = Cut(s, p, k, n)
    OBVIOUS
  <2>3. Tile(t, lo, hi) /\ IsCut(t, s, p, k, n)
    <3>1. s[p] = k + n
      BY <1>5, <2>1
    <3> QED
      BY <1>4, <1>5, <2>2, <3>1, CutTile
  <2>4. b = After(p, k)
    BY <1>7, <2>1
  <2>5. /\ b \notin DOMAIN s /\ DOMAIN t = DOMAIN s \cup {b} /\ t[p] = k /\ t[b] = n
        /\ \A x \in DOMAIN s \ {p} : t[x] = s[x]
    BY <2>3, <2>4 DEF IsCut
  <2>6. b # bs /\ b \notin DOMAIN f
    <3>1. b \in lo .. hi - 1 /\ lo \in Nat /\ hi \in Nat
      BY <2>3, <2>5 DEF Tile
    <3>2. b # bs
      BY <1>4, <3>1
    <3> QED
      BY <1>4, <2>5, <3>2
  <2>7. PICK l : l = g.list
    OBVIOUS
  <2>8. l = [f EXCEPT ![p] = f[p] - n]
    BY <1>1, <1>2, <1>9, <2>7 DEF Taken
  <2>9. DOMAIN l = DOMAIN f /\ l[p] = k /\ \A x \in DOMAIN f \ {p} : l[x] = f[x]
    BY <1>3, <2>1, <2>8
  <2>10. ASSUME NEW x \in DOMAIN l \ {bs}, NEW y \in DOMAIN l \ {bs}
         PROVE  After(x, l[x]) # y
    BY <1>4, <2>4, <2>6, <2>9
  <2>11. DOMAIN l \ {bs} \subseteq DOMAIN t /\ \A x \in DOMAIN l \ {bs} : l[x] = t[x]
    BY <1>4, <1>5, <2>5, <2>9
  <2>12. Listed(l, bs, t, lo, hi)
    BY <1>4, <1>5, <2>3, <2>9, <2>10, <2>11 DEF Listed
  <2>13. KeptAnd(t, l, s, Busy(s, f), b, n)
    BY <1>3, <2>5, <2>6, <2>9 DEF KeptAnd, Busy
  <2>14. Sound(g, bs, t, lo, hi)
    BY <1>6, <1>7, <2>7, <2>9, <2>12 DEF Sound
  <2> QED
    BY <1>2, <2>7, <2>13, <2>14
<1> QED
  BY <1>8, <1>9

-----------------------------------------------------------------------------
(* Heaps and the blocks that callers hold                                  *)

Matches(s, f, bl) ==
  /\ Busy(s, f) = {b.header : b \in bl}
  /\ \A b \in bl : s[b.header] = b.size

(* A heap [list, freep] and the blocks bl tile the memory from lo to hi. *)
HeapOK(hp, bs, bl, lo, hi) ==
  \E s : Sound(hp, bs, s, lo, hi) /\ Matches(s, hp.list, bl)

UniqueHeaders(bl) == \A b, c \in bl : b.header = c.header => b = c

(* A block that is taken from a heap is held besides the others. *)
LEMMA TakenOK ==
  ASSUME NEW lo, NEW hi, NEW hp, NEW bs, NEW bl, HeapOK(hp, bs, bl, lo, hi),
         NEW n \in Nat \ {0}, Fitting(hp, n) # {}, NEW nb,
         nb.header = BlockOf(hp, n), nb.size = n
  PROVE  /\ HeapOK(Taken(hp, n), bs, bl \cup {nb}, lo, hi)
         /\ \A c \in bl : c.header # nb.header
<1>1. PICK s : Sound(hp, bs, s, lo, hi) /\ Matches(s, hp.list, bl)
  BY DEF HeapOK
<1>2. PICK g : g = Taken(hp, n)
  OBVIOUS
<1>3. PICK h : h = nb.header
  OBVIOUS
<1>4. h = BlockOf(hp, n)
  BY <1>3
<1>5. PICK t : Sound(g, bs, t, lo, hi) /\ KeptAnd(t, g.list, s, Busy(s, hp.list), h, n)
  BY <1>1, <1>2, <1>4, TakenSound
<1>6. \A c \in bl : c.header # nb.header
  BY <1>1, <1>3, <1>5 DEF KeptAnd, Matches
<1>7. Busy(t, g.list) = {b.header : b \in bl \cup {nb}}
  BY <1>1, <1>3, <1>5 DEF KeptAnd, Matches
<1>8. \A b \in bl \cup {nb} : t[b.header] = b.size
  BY <1>1, <1>3, <1>5 DEF KeptAnd, Matches
<1>9. HeapOK(g, bs, bl \cup {nb}, lo, hi)
  BY <1>5, <1>7, <1>8 DEF HeapOK, Matches
<1> QED
  BY <1>2, <1>6, <1>9

(* A block that is freed is no longer held. *)
LEMMA FreedOK ==
  ASSUME NEW lo, NEW hi, NEW hp, NEW bs, NEW bl, HeapOK(hp, bs, bl, lo, hi),
         NEW b \in bl, UniqueHeaders(bl)
  PROVE  HeapOK(Freed(hp, b.header, b.size), bs, bl \ {b}, lo, hi)
<1>1. PICK s : Sound(hp, bs, s, lo, hi) /\ Matches(s, hp.list, bl)
  BY DEF HeapOK
<1>2. PICK bp : bp = b.header
  OBVIOUS
<1>3. bp \in Busy(s, hp.list) /\ s[bp] = b.size
  BY <1>1, <1>2 DEF Matches
<1>4. PICK g : g = Freed(hp, bp, s[bp])
  OBVIOUS
<1>5. PICK t : Sound(g, bs, t, lo, hi) /\ Kept(t, g.list, s, Busy(s, hp.list) \ {bp})
  BY <1>1, <1>3, <1>4, FreedSound
<1>6. Busy(t, g.list) = {c.header : c \in bl \ {b}}
  BY <1>1, <1>2, <1>5 DEF Kept, Matches, UniqueHeaders
<1>7. \A c \in bl \ {b} : t[c.header] = c.size
  BY <1>1, <1>5, <1>6 DEF Kept, Matches
<1>8. HeapOK(g, bs, bl \ {b}, lo, hi)
  BY <1>5, <1>6, <1>7 DEF HeapOK, Matches
<1> QED
  BY <1>2, <1>3, <1>4, <1>8

(* A heap that has been given n more units. *)
LEMMA GrownOK ==
  ASSUME NEW lo, NEW hi, NEW hp, NEW bs, NEW bl, HeapOK(hp, bs, bl, lo, hi),
         lo <= hi, Aligned(hi), NEW n \in Nat \ {0}, bs < lo \/ bs > After(hi, n)
  PROVE  /\ HeapOK(Freed(hp, hi, n), bs, bl, lo, After(hi, n))
         /\ Fitting(Freed(hp, hi, n), n) # {}
<1>1. PICK s : Sound(hp, bs, s, lo, hi) /\ Matches(s, hp.list, bl)
  BY DEF HeapOK
<1>2. PICK g : g = Freed(hp, hi, n)
  OBVIOUS
<1>3. Fitting(g, n) # {}
  BY <1>1, <1>2, GrownSound
<1>4. PICK t : Sound(g, bs, t, lo, After(hi, n)) /\ Kept(t, g.list, s, Busy(s, hp.list))
  BY <1>1, <1>2, GrownSound
<1>5. Matches(t, g.list, bl)
  BY <1>1, <1>4 DEF Kept, Matches
<1> QED
  BY <1>2, <1>3, <1>4, <1>5 DEF HeapOK

(* Where the blocks that are held lie. *)
LEMMA HeldWithin ==
  ASSUME NEW lo, NEW hi, NEW hp, NEW bs, NEW bl, HeapOK(hp, bs, bl, lo, hi), NEW b \in bl
  PROVE  b.header \in Nat /\ lo <= b.header /\ b.header < hi /\ After(b.header, b.size) <= hi
<1>1. PICK s : Sound(hp, bs, s, lo, hi) /\ Matches(s, hp.list, bl)
  BY DEF HeapOK
<1>2. b.header \in DOMAIN s /\ s[b.header] = b.size
  BY <1>1 DEF Matches, Busy
<1>3. Tile(s, lo, hi)
  BY <1>1 DEF Sound, Listed
<1> QED
  BY <1>2, <1>3 DEF Tile

-----------------------------------------------------------------------------
(* The invariant                                                           *)

HeldIn(h, bl) == {c \in bl : (c.header < VStart) = (h = "fixed")}

(* Each heap and the blocks held in it tile what it was given. *)
HeapsOK ==
  \A h \in Heaps : HeapOK(Heap(h), base[h], HeldIn(h, blocks), HeapStart(h), pool_ptr[h])

(* What is held is what was asked for. *)
BlocksOK ==
  /\ \A b \in blocks : b.bytes \in ByteSizes /\ b.size = NUnits(b.bytes)
  /\ UniqueHeaders(blocks)

(* The heaps end where there is memory, and growth under way will fit. *)
BoundsOK ==
  /\ base["fixed"] = FixedBase /\ base["virtual"] \in VBases
  /\ DOMAIN list = Heaps /\ DOMAIN freep = Heaps /\ pool_ptr \in [Heaps -> Nat]
  /\ \A h \in Heaps : HeapStart(h) <= pool_ptr[h] /\ Aligned(pool_ptr[h])
  /\ remaining \in Nat /\ pool_ptr["fixed"] + remaining = fixed_pool_end
  /\ pool_top \in Nat /\ pool_top % PageSize = 0
  /\ pool_ptr["virtual"] <= pool_top /\ pool_top <= pool_limit
  /\ request \in ByteSizes \cup {NoRequest}
  /\ request # NoRequest => CoreEnd(request) <= pool_limit

PoolInv == HeapsOK /\ BlocksOK /\ BoundsOK

(* The fixed pool starts aligned once it is padded; so do pages. *)
LEMMA StartsAligned ==
  \A h \in Heaps : HeapStart(h) \in Nat \ {0} /\ Aligned(HeapStart(h))
<1>1. Aligned(PoolStart + (PoolStart % HeaderSize))
  <2> DEFINE w == HeaderSize \div 2
  <2>1. HeaderSize \in Nat \ {0} /\ HeaderSize % 2 = 0 /\ PoolStart % w = 0 /\ PoolStart \in Nat
    BY PoolAssumption
  <2>2. HeaderSize = 2 * w /\ w \in Nat \ {0}
    BY <2>1
  <2> HIDE DEF w
  <2>3. PICK k \in Int : PoolStart = k * w
    BY <2>1, <2>2, Multiple
  <2>4. PICK m : m = PoolStart % HeaderSize
    OBVIOUS
  <2>5. PICK q : q = PoolStart \div HeaderSize
    OBVIOUS
  <2>6. PoolStart = HeaderSize * q + m /\ m \in 0 .. HeaderSize - 1 /\ q \in Int
    BY <2>1, <2>4, <2>5, DivMod
  <2>7. PICK j \in Int : j = k - 2 * q
    BY <2>6
  <2>8. m = j * w
    BY <2>2, <2>3, <2>6, <2>7
  <2>9. j = 0 \/ j = 1
    <3>1. ~(j < 0)
      <4> SUFFICES ASSUME j <= -1
                   PROVE  FALSE
        OBVIOUS
      <4>1. j * w <= (-1) * w
        BY <2>2
      <4> QED
        BY <2>2, <2>6, <2>8, <4>1
    <3>2. ~(j > 1)
      <4> SUFFICES ASSUME j >= 2
                   PROVE  FALSE
        OBVIOUS
      <4>1. j * w >= 2 * w
        BY <2>2
      <4> QED
        BY <2>2, <2>6, <2>8, <4>1
    <3> QED
      BY <3>1, <3>2
  <2>10. PoolStart + m = (q + j) * HeaderSize
    <3>1. CASE j = 0
      BY <2>2, <2>6, <2>8, <3>1
    <3>2. CASE j = 1
      BY <2>2, <2>6, <2>8, <3>2
    <3> QED
      BY <2>9, <3>1, <3>2
  <2>11. q + j \in Int /\ PoolStart + m \in Int
    BY <2>1, <2>6
  <2> QED
    BY <2>1, <2>4, <2>10, <2>11, Multiple DEF Aligned
<1>2. Aligned(VStart)
  <2>1. VStart % PageSize = 0 /\ PageSize % HeaderSize = 0
    BY PoolAssumption
  <2>2. PICK a \in Int : VStart = a * PageSize
    BY <2>1, Sane, Multiple
  <2>3. PICK c \in Int : PageSize = c * HeaderSize
    <3>1. PageSize \in Int /\ HeaderSize \in Nat \ {0}
      BY Sane
    <3> QED
      BY ONLY <2>1, <3>1, Multiple
  <2>4. VStart = (a * c) * HeaderSize /\ a * c \in Int
    BY <2>2, <2>3, Sane
  <2> QED
    BY <2>4, Sane, Multiple DEF Aligned
<1>3. PoolStart % HeaderSize \in Nat
  BY Sane
<1>4. VStart # 0
  BY Sane
<1> QED
  BY <1>1, <1>2, <1>3, <1>4, Sane DEF HeapStart, PaddingOfPool, Heaps

(* A heap that has been given nothing. *)
LEMMA EmptyOK ==
  ASSUME NEW lo \in Nat, NEW bs \in Nat, bs # lo, NEW hp,
         hp = [list |-> [p \in {bs} |-> 0], freep |-> bs]
  PROVE  HeapOK(hp, bs, {}, lo, lo)
<1>1. PICK s : s = [p \in {} |-> 0]
  OBVIOUS
<1>2. Tile(s, lo, lo)
  BY <1>1 DEF Tile
<1>3. Sound(hp, bs, s, lo, lo)
  BY <1>1, <1>2 DEF Sound, Listed
<1>4. Matches(s, hp.list, {})
  BY <1>1 DEF Matches, Busy
<1> QED
  BY <1>3, <1>4 DEF HeapOK

(* Both pools are created empty. *)
LEMMA PoolStarts == PoolInit => PoolInv
<1> SUFFICES ASSUME PoolInit
             PROVE  PoolInv
  OBVIOUS
<1>1. PICK b \in VBases : base = [fixed |-> FixedBase, virtual |-> b]
  BY DEF PoolInit
<1>2. \A h \in Heaps : base[h] \in Nat /\ base[h] # HeapStart(h) /\ pool_ptr[h] = HeapStart(h)
  <2>1. base["fixed"] = 0 /\ base["virtual"] = b /\ b \in Nat /\ b # VStart
    BY <1>1, Sane DEF FixedBase
  <2>2. pool_ptr["fixed"] = HeapStart("fixed") /\ pool_ptr["virtual"] = HeapStart("virtual")
    BY DEF PoolInit, HeapStart
  <2> QED
    BY <2>1, <2>2, StartsAligned DEF Heaps, HeapStart
<1>3. HeapsOK
  <2> SUFFICES ASSUME NEW h \in Heaps
               PROVE  HeapOK(Heap(h), base[h], HeldIn(h, blocks), HeapStart(h), pool_ptr[h])
    BY DEF HeapsOK
  <2>1. Heap(h) = [list |-> [p \in {base[h]} |-> 0], freep |-> base[h]]
    BY DEF PoolInit, Heap
  <2>2. HeldIn(h, blocks) = {}
    BY DEF PoolInit, HeldIn
  <2>3. HeapStart(h) \in Nat
    BY StartsAligned
  <2> QED
    BY <1>2, <2>1, <2>2, <2>3, EmptyOK
<1>4. BlocksOK
  BY DEF PoolInit, BlocksOK, UniqueHeaders
<1>5. BoundsOK
  <2>1. pool_ptr \in [Heaps -> Nat]
    BY <1>2, StartsAligned DEF PoolInit, Heaps, HeapStart
  <2>2. \A h \in Heaps : HeapStart(h) <= pool_ptr[h] /\ Aligned(pool_ptr[h])
    BY <1>2, StartsAligned
  <2>3. remaining \in Nat /\ pool_ptr["fixed"] + remaining = fixed_pool_end
    <3>1. PoolStart % HeaderSize \in Nat /\ PoolStart % HeaderSize <= PoolSize
      <4>1. PoolStart % HeaderSize \in Nat
        BY Sane
      <4>2. PoolStart % HeaderSize <= PoolSize
        BY PoolAssumption
      <4> QED
        BY <4>1, <4>2
    <3>2. PICK m : m = PoolStart % HeaderSize
      OBVIOUS
    <3>3. remaining = PoolSize - m /\ pool_ptr["fixed"] = PoolStart + m
      BY <3>2 DEF PoolInit, PaddingOfPool
    <3> QED
      BY <3>1, <3>2, <3>3, Sane DEF fixed_pool_end
  <2>4. VStart % PageSize = 0
    BY PoolAssumption
  <2> QED
    BY <1>1, <2>1, <2>2, <2>3, <2>4, Sane DEF BoundsOK, PoolInit, Heaps, pool_limit
<1> QED
  BY <1>3, <1>4, <1>5 DEF PoolInv

-----------------------------------------------------------------------------
(* Steps                                                                   *)

(* The headers of the fixed pool lie below those of the virtual one. *)
LEMMA RightHeap ==
  ASSUME NEW h \in Heaps, NEW hi \in Nat, h = "fixed" => hi <= VStart,
         NEW x \in Nat, HeapStart(h) <= x, x < hi, NEW g \in Heaps
  PROVE  (x < VStart) = (g = "fixed") <=> g = h
<1>1. CASE h = "fixed"
  BY <1>1, Sane DEF Heaps
<1>2. CASE h = "virtual"
  BY <1>2, Sane DEF Heaps, HeapStart
<1> QED
  BY <1>1, <1>2 DEF Heaps

(* An allocation from heap h, which ends at hi once it has grown. *)
LEMMA ServeOK ==
  ASSUME HeapsOK, BlocksOK, DOMAIN list = Heaps, DOMAIN freep = Heaps, DOMAIN pool_ptr = Heaps,
         NEW h \in Heaps, NEW hp, NEW hi \in Nat, h = "fixed" => hi <= VStart,
         HeapOK(hp, base[h], HeldIn(h, blocks), HeapStart(h), hi),
         NEW bytes \in ByteSizes, Fitting(hp, NUnits(bytes)) # {}, Serve(h, hp, bytes),
         base' = base, pool_ptr' = [pool_ptr EXCEPT ![h] = hi]
  PROVE  HeapsOK' /\ BlocksOK' /\ DOMAIN list' = Heaps /\ DOMAIN freep' = Heaps
<1>1. PICK n : n = NUnits(bytes)
  OBVIOUS
<1>2. n \in Nat \ {0}
  BY <1>1, EnoughUnits
<1>3. PICK nb : nb = [header |-> BlockOf(hp, n), size |-> n, bytes |-> bytes]
  OBVIOUS
<1>4. nb.header = BlockOf(hp, n) /\ nb.size = n /\ nb.bytes = bytes
  BY <1>3
<1>5. blocks' = blocks \cup {nb}
  BY <1>1, <1>3 DEF Serve
<1>6. PICK g : g = Taken(hp, n)
  OBVIOUS
<1>7. /\ list' = [list EXCEPT ![h] = g.list]
      /\ freep' = [freep EXCEPT ![h] = g.freep]
  BY <1>1, <1>6 DEF Serve, SetHeap
<1>8. /\ HeapOK(g, base[h], HeldIn(h, blocks) \cup {nb}, HeapStart(h), hi)
      /\ \A c \in HeldIn(h, blocks) : c.header # nb.header
  BY <1>1, <1>2, <1>4, <1>6, TakenOK
<1>9. nb.header \in Nat /\ HeapStart(h) <= nb.header /\ nb.header < hi
  BY <1>8, HeldWithin
<1>10. \A k \in Heaps : (nb.header < VStart) = (k = "fixed") <=> k = h
  BY <1>9, RightHeap
<1>11. ASSUME NEW k \in Heaps
       PROVE  HeldIn(k, blocks \cup {nb}) = IF k = h THEN HeldIn(k, blocks) \cup {nb} ELSE HeldIn(k, blocks)
  BY <1>10 DEF HeldIn
<1>12. ASSUME NEW k \in Heaps
       PROVE  HeapOK(Heap(k), base[k], HeldIn(k, blocks), HeapStart(k), pool_ptr[k])'
  <2>1. CASE k = h
    <3>1. Heap(k)' = [list |-> g.list, freep |-> g.freep] /\ pool_ptr'[k] = hi
      BY <1>7, <2>1 DEF Heap
    <3>2. g = [list |-> g.list, freep |-> g.freep]
      BY <1>6 DEF Taken
    <3>3. HeldIn(k, blocks') = HeldIn(h, blocks) \cup {nb}
      BY <1>5, <1>11, <2>1
    <3> QED
      BY <1>8, <2>1, <3>1, <3>2, <3>3 DEF HeapStart
  <2>2. CASE k # h
    <3>1. Heap(k)' = Heap(k) /\ pool_ptr'[k] = pool_ptr[k]
      BY <1>7, <2>2 DEF Heap
    <3>2. HeldIn(k, blocks') = HeldIn(k, blocks)
      BY <1>5, <1>11, <2>2
    <3> QED
      BY <3>1, <3>2 DEF HeapsOK, HeapStart
  <2> QED
    BY <2>1, <2>2
<1>13. UniqueHeaders(blocks \cup {nb})
  <2>1. ASSUME NEW c \in blocks
        PROVE  c.header # nb.header
    <3>1. CASE c \in HeldIn(h, blocks)
      BY <1>8, <3>1
    <3>2. CASE c \notin HeldIn(h, blocks)
      BY <1>10, <3>2 DEF HeldIn
    <3> QED
      BY <3>1, <3>2
  <2> QED
    BY <2>1 DEF BlocksOK, UniqueHeaders
<1>14. BlocksOK'
  BY <1>1, <1>4, <1>5, <1>13 DEF BlocksOK
<1> QED
  BY <1>7, <1>12, <1>14 DEF HeapsOK

(* What is asked for is at least one unit besides the header. *)
LEMMA UnitsPositive ==
  ASSUME NEW bytes \in ByteSizes
  PROVE  NUnits(bytes) \in Nat \ {0}
BY EnoughUnits

(* The fixed pool serves a request, with or without morecore, or refuses. *)
LEMMA ServeFixedOK ==
  ASSUME PoolInv, NEW bytes \in ByteSizes, ServeFixed(bytes), base' = base, pool_top' = pool_top,
         request' \in ByteSizes \cup {NoRequest}, request' # NoRequest => request' = request
  PROVE  PoolInv'
<1> USE DEF PoolInv
<1>1. DOMAIN list = Heaps /\ DOMAIN freep = Heaps /\ DOMAIN pool_ptr = Heaps /\ "fixed" \in Heaps
  BY DEF BoundsOK, Heaps
<1>2. PICK n : n = NUnits(bytes)
  OBVIOUS
<1>3. n \in Nat \ {0}
  BY <1>2, UnitsPositive
<1>4. PICK hi : hi = pool_ptr["fixed"]
  OBVIOUS
<1>5. hi \in Nat /\ Aligned(hi) /\ HeapStart("fixed") <= hi /\ remaining \in Nat /\ hi + remaining <= VStart
  BY <1>1, <1>4, Sane DEF BoundsOK, fixed_pool_end
<1>6. HeapOK(Heap("fixed"), base["fixed"], HeldIn("fixed", blocks), HeapStart("fixed"), hi)
  BY <1>1, <1>4 DEF HeapsOK
<1>7. CASE /\ Fitting(Heap("fixed"), n) # {}
           /\ Serve("fixed", Heap("fixed"), bytes)
           /\ UNCHANGED <<pool_ptr, remaining>>
  <2>1. pool_ptr' = [pool_ptr EXCEPT !["fixed"] = hi] /\ hi <= VStart
    BY <1>1, <1>4, <1>5, <1>7, Sane DEF BoundsOK
  <2>2. HeapsOK' /\ BlocksOK' /\ DOMAIN list' = Heaps /\ DOMAIN freep' = Heaps
    BY <1>1, <1>2, <1>5, <1>6, <1>7, <2>1, ServeOK
  <2>3. BoundsOK'
    BY <1>7, <2>2 DEF BoundsOK, HeapStart, CoreEnd
  <2> QED
    BY <2>2, <2>3
<1>8. CASE UNCHANGED <<list, freep, blocks, pool_ptr, remaining>>
  <2>1. HeapsOK' /\ BlocksOK'
    BY <1>8 DEF HeapsOK, BlocksOK, Heap, HeapStart
  <2>2. BoundsOK'
    BY <1>8 DEF BoundsOK, HeapStart, CoreEnd
  <2> QED
    BY <2>1, <2>2
<1>9. CASE /\ n * HeaderSize <= remaining
           /\ Serve("fixed", Freed(Heap("fixed"), pool_ptr["fixed"], n), bytes)
           /\ pool_ptr' = [pool_ptr EXCEPT !["fixed"] = After(@, n)]
           /\ remaining' = remaining - n * HeaderSize
  <2>1. PICK e : e = After(hi, n)
    OBVIOUS
  <2>2. e \in Nat /\ Aligned(e) /\ hi < e
    BY <1>3, <1>5, <2>1, AfterMore, AfterAligned
  <2>3. e <= VStart /\ remaining' \in Nat /\ e + remaining' = hi + remaining
    BY <1>3, <1>5, <1>9, <2>1, <2>2, Sane DEF After
  <2>4. base["fixed"] < HeapStart("fixed")
    BY <1>1, StartsAligned DEF BoundsOK, FixedBase
  <2>5. PICK hp : hp = Freed(Heap("fixed"), hi, n)
    OBVIOUS
  <2>6. HeapOK(hp, base["fixed"], HeldIn("fixed", blocks), HeapStart("fixed"), e) /\ Fitting(hp, n) # {}
    BY <1>3, <1>5, <1>6, <2>1, <2>4, <2>5, GrownOK
  <2>7. Serve("fixed", hp, bytes) /\ pool_ptr' = [pool_ptr EXCEPT !["fixed"] = e]
    BY <1>4, <1>9, <2>1, <2>5
  <2>8. HeapsOK' /\ BlocksOK' /\ DOMAIN list' = Heaps /\ DOMAIN freep' = Heaps
    BY <1>1, <1>2, <2>2, <2>3, <2>6, <2>7, ServeOK
  <2>9. /\ pool_ptr'["fixed"] = e /\ pool_ptr'["virtual"] = pool_ptr["virtual"]
        /\ pool_ptr' \in [Heaps -> Nat]
        /\ \A h \in Heaps : HeapStart(h) <= pool_ptr'[h] /\ Aligned(pool_ptr'[h])
    <3>1. HeapStart("fixed") \in Nat
      BY <1>1, StartsAligned
    <3>2. HeapStart("fixed") <= e
      BY <1>5, <2>2, <3>1
    <3> QED
      BY <1>1, <2>2, <2>7, <3>2 DEF BoundsOK, Heaps
  <2>10. request' # NoRequest => CoreEnd(request)' <= pool_limit
    BY <2>9 DEF BoundsOK, CoreEnd
  <2>11. BoundsOK'
    BY <1>4, <2>3, <2>8, <2>9, <2>10 DEF BoundsOK, HeapStart, CoreEnd
  <2> QED
    BY <2>8, <2>11
<1> QED
  BY <1>2, <1>7, <1>8, <1>9 DEF ServeFixed

(* The virtual pool serves a request from its list. *)
LEMMA AllocVirtualOK ==
  ASSUME PoolInv, NEW bytes \in ByteSizes, AllocVirtual(bytes)
  PROVE  PoolInv'
<1> USE DEF PoolInv
<1>1. DOMAIN list = Heaps /\ DOMAIN freep = Heaps /\ DOMAIN pool_ptr = Heaps /\ "virtual" \in Heaps
  BY DEF BoundsOK, Heaps
<1>2. PICK hi : hi = pool_ptr["virtual"]
  OBVIOUS
<1>3. /\ HeapOK(Heap("virtual"), base["virtual"], HeldIn("virtual", blocks), HeapStart("virtual"), hi)
      /\ hi \in Nat /\ pool_ptr' = [pool_ptr EXCEPT !["virtual"] = hi]
  BY <1>1, <1>2 DEF HeapsOK, BoundsOK, AllocVirtual
<1>4. Fitting(Heap("virtual"), NUnits(bytes)) # {} /\ Serve("virtual", Heap("virtual"), bytes) /\ base' = base
  BY DEF AllocVirtual, NeedsCore
<1>5. HeapsOK' /\ BlocksOK' /\ DOMAIN list' = Heaps /\ DOMAIN freep' = Heaps
  BY <1>1, <1>3, <1>4, ServeOK
<1>6. BoundsOK'
  BY <1>5 DEF BoundsOK, HeapStart, CoreEnd, AllocVirtual
<1> QED
  BY <1>5, <1>6

(* Another page fits below the end of the virtual pool. *)
LEMMA PageFits ==
  ASSUME NEW a \in Nat, NEW c \in Nat, a % PageSize = 0, c % PageSize = 0, a < c
  PROVE  a + PageSize <= c /\ (a + PageSize) % PageSize = 0
<1>1. PageSize \in Nat \ {0} /\ a \in Int /\ c \in Int
  BY Sane
<1>2. PICK j \in Int : a = j * PageSize
  BY ONLY <1>1, a % PageSize = 0, Multiple
<1>3. PICK k \in Int : c = k * PageSize
  BY ONLY <1>1, c % PageSize = 0, Multiple
<1>4. ~(k <= j)
  <2> SUFFICES ASSUME k <= j
               PROVE  FALSE
    OBVIOUS
  <2>1. (j - k) * PageSize >= 0
    BY <1>1
  <2> QED
    BY <1>1, <1>2, <1>3, <2>1
<1>5. (k - (j + 1)) * PageSize >= 0
  BY <1>1, <1>4
<1>6. a + PageSize = (j + 1) * PageSize /\ j + 1 \in Int /\ a + PageSize \in Int
  BY <1>1, <1>2
<1>7. (a + PageSize) % PageSize = 0
  BY ONLY <1>1, <1>6, Multiple
<1> QED
  BY <1>1, <1>3, <1>5, <1>6, <1>7

(* morecore() of the virtual pool has its pages: the heap grows. *)
LEMMA FinishMoreCoreOK ==
  ASSUME PoolInv, FinishMoreCore
  PROVE  PoolInv'
<1> USE DEF PoolInv
<1>1. DOMAIN list = Heaps /\ DOMAIN freep = Heaps /\ DOMAIN pool_ptr = Heaps /\ "virtual" \in Heaps
  BY DEF BoundsOK, Heaps
<1>2. PICK bytes \in ByteSizes : bytes = request
  BY DEF BoundsOK, FinishMoreCore
<1>3. PICK n : n = NUnits(bytes)
  OBVIOUS
<1>4. n \in Nat \ {0}
  BY <1>3, UnitsPositive
<1>5. PICK hi : hi = pool_ptr["virtual"]
  OBVIOUS
<1>6. hi \in Nat /\ Aligned(hi) /\ HeapStart("virtual") <= hi
  BY <1>1, <1>5 DEF BoundsOK
<1>7. HeapOK(Heap("virtual"), base["virtual"], HeldIn("virtual", blocks), HeapStart("virtual"), hi)
  BY <1>1, <1>5 DEF HeapsOK
<1>8. PICK e : e = After(hi, n)
  OBVIOUS
<1>9. e \in Nat /\ Aligned(e) /\ hi < e
  BY <1>4, <1>6, <1>8, AfterMore, AfterAligned
<1>10. e <= pool_top /\ CoreEnd(request) = e
  BY <1>2, <1>3, <1>5, <1>8 DEF FinishMoreCore, CoreEnd
<1>11. base["virtual"] < HeapStart("virtual") \/ base["virtual"] > e
  <2>1. base["virtual"] \in VBases /\ pool_top \in Nat /\ pool_top <= VStart + VSize
    BY DEF BoundsOK, pool_limit
  <2>2. PICK c : c = base["virtual"]
    OBVIOUS
  <2>3. c \in Nat /\ (c < VStart \/ c > VStart + VSize)
    BY <2>1, <2>2, Sane
  <2>4. c < VStart \/ c > e
    BY <1>9, <1>10, <2>1, <2>3, Sane
  <2> QED
    BY <2>2, <2>4 DEF HeapStart
<1>12. PICK hp : hp = Freed(Heap("virtual"), hi, n)
  OBVIOUS
<1>13. HeapOK(hp, base["virtual"], HeldIn("virtual", blocks), HeapStart("virtual"), e) /\ Fitting(hp, n) # {}
  BY <1>4, <1>6, <1>7, <1>8, <1>11, <1>12, GrownOK
<1>14. Serve("virtual", hp, bytes) /\ pool_ptr' = [pool_ptr EXCEPT !["virtual"] = e] /\ base' = base
  BY <1>2, <1>3, <1>5, <1>10, <1>12 DEF FinishMoreCore
<1>15. HeapsOK' /\ BlocksOK' /\ DOMAIN list' = Heaps /\ DOMAIN freep' = Heaps
  BY <1>1, <1>3, <1>9, <1>13, <1>14, ServeOK
<1>16. /\ pool_ptr'["virtual"] = e /\ pool_ptr'["fixed"] = pool_ptr["fixed"]
       /\ pool_ptr' \in [Heaps -> Nat]
       /\ \A h \in Heaps : HeapStart(h) <= pool_ptr'[h] /\ Aligned(pool_ptr'[h])
  <2>1. HeapStart("virtual") \in Nat
    BY <1>1, StartsAligned
  <2>2. HeapStart("virtual") <= e
    BY <1>6, <1>9, <2>1
  <2> QED
    BY <1>1, <1>9, <1>14, <2>2 DEF BoundsOK, Heaps
<1>17. BoundsOK'
  BY <1>10, <1>14, <1>15, <1>16 DEF BoundsOK, HeapStart, FinishMoreCore
<1> QED
  BY <1>15, <1>17

(* mspace_k_r_malloc_free() is called for the heap that the block is from. *)
LEMMA PoolFreeOK ==
  ASSUME PoolInv, NEW b \in blocks, PoolFree(b)
  PROVE  PoolInv'
<1> USE DEF PoolInv
<1>1. DOMAIN list = Heaps /\ DOMAIN freep = Heaps /\ pool_ptr \in [Heaps -> Nat]
  BY DEF BoundsOK
<1>2. PICK h \in Heaps : b \in HeldIn(h, blocks)
  BY DEF HeldIn, Heaps
<1>3. HeapOK(Heap(h), base[h], HeldIn(h, blocks), HeapStart(h), pool_ptr[h])
  BY DEF HeapsOK
<1>4. /\ b.header \in Nat /\ HeapStart(h) <= b.header /\ b.header < pool_ptr[h]
      /\ After(b.header, b.size) <= pool_ptr[h]
  BY <1>2, <1>3, HeldWithin
<1>5. HeapOf(After(b.header, 1)) = h
  <2>1. b.size \in Nat /\ 1 < b.size
    BY EnoughUnits DEF BlocksOK
  <2>2. After(b.header, 1) < After(b.header, b.size) /\ After(b.header, 1) \in Nat
    BY <1>4, <2>1, AfterLess, AfterNat
  <2>3. b.header < After(b.header, 1) /\ After(b.header, b.size) \in Nat
    BY ONLY <1>4, <2>1, Sane DEF After
  <2>4. CASE h = "fixed"
    <3>1. pool_ptr[h] <= fixed_pool_end /\ fixed_pool_end \in Nat
      BY <1>1, <2>4, Sane DEF BoundsOK, fixed_pool_end
    <3>2. PoolStart <= HeapStart(h) /\ HeapStart(h) \in Nat
      BY <2>4, Sane, StartsAligned DEF HeapStart, PaddingOfPool
    <3>3. PoolStart <= After(b.header, 1)
      BY <1>4, <2>2, <2>3, <3>2, Sane
    <3>4. After(b.header, 1) < fixed_pool_end
      BY <1>1, <1>4, <2>2, <2>3, <3>1
    <3> QED
      BY <2>4, <3>3, <3>4 DEF HeapOf
  <2>5. CASE h = "virtual"
    <3>1. fixed_pool_end <= b.header
      BY <1>4, <2>5, Sane DEF HeapStart, fixed_pool_end
    <3>2. ~(After(b.header, 1) < fixed_pool_end)
      BY <1>4, <2>2, <2>3, <3>1, Sane DEF fixed_pool_end
    <3> QED
      BY <2>5, <3>2 DEF HeapOf
  <2> QED
    BY <2>4, <2>5 DEF Heaps
<1>6. PICK g : g = Freed(Heap(h), b.header, b.size)
  OBVIOUS
<1>7. /\ list' = [list EXCEPT ![h] = g.list]
      /\ freep' = [freep EXCEPT ![h] = g.freep]
      /\ blocks' = blocks \ {b}
      /\ UNCHANGED <<base, pool_ptr, remaining, pool_top, request>>
  BY <1>5, <1>6 DEF PoolFree, SetHeap
<1>8. HeapOK(g, base[h], HeldIn(h, blocks) \ {b}, HeapStart(h), pool_ptr[h])
  <2>1. UniqueHeaders(HeldIn(h, blocks))
    BY DEF BlocksOK, UniqueHeaders, HeldIn
  <2> QED
    BY <1>2, <1>3, <1>6, <2>1, FreedOK
<1>9. ASSUME NEW k \in Heaps
      PROVE  HeapOK(Heap(k), base[k], HeldIn(k, blocks), HeapStart(k), pool_ptr[k])'
  <2>1. CASE k = h
    <3>1. Heap(k)' = [list |-> g.list, freep |-> g.freep]
      BY <1>1, <1>7, <2>1 DEF Heap
    <3>2. g = [list |-> g.list, freep |-> g.freep]
      BY <1>6 DEF Freed
    <3>3. HeldIn(k, blocks') = HeldIn(h, blocks) \ {b}
      BY <1>7, <2>1 DEF HeldIn
    <3> QED
      BY <1>7, <1>8, <2>1, <3>1, <3>2, <3>3 DEF HeapStart
  <2>2. CASE k # h
    <3>1. Heap(k)' = Heap(k)
      BY <1>1, <1>7, <2>2 DEF Heap
    <3>2. HeldIn(k, blocks') = HeldIn(k, blocks)
      BY <1>2, <1>7, <2>2 DEF HeldIn, Heaps
    <3> QED
      BY <1>7, <3>1, <3>2 DEF HeapsOK, HeapStart
  <2> QED
    BY <2>1, <2>2
<1>10. BlocksOK'
  BY <1>7 DEF BlocksOK, UniqueHeaders
<1>11. BoundsOK'
  BY <1>1, <1>7 DEF BoundsOK, HeapStart, CoreEnd
<1> QED
  BY <1>9, <1>10, <1>11 DEF HeapsOK

(* Every step keeps the invariant. *)
LEMMA PoolStep == PoolInv /\ [PoolNext]_poolVars => PoolInv'
<1> SUFFICES ASSUME PoolInv, [PoolNext]_poolVars
             PROVE  PoolInv'
  OBVIOUS
<1> USE DEF PoolInv
<1>1. ASSUME UNCHANGED <<base, list, freep, pool_ptr, blocks>>
      PROVE  HeapsOK' /\ BlocksOK'
  BY <1>1 DEF HeapsOK, BlocksOK, Heap, HeapStart
<1>2. ASSUME NEW bytes \in ByteSizes, AllocFixed(bytes)
      PROVE  PoolInv'
  <2>1. ServeFixed(bytes) /\ base' = base /\ pool_top' = pool_top /\ request' = request
    BY <1>2 DEF AllocFixed
  <2>2. request' \in ByteSizes \cup {NoRequest}
    BY <2>1 DEF BoundsOK
  <2> QED
    BY <2>1, <2>2, ServeFixedOK
<1>3. ASSUME NEW bytes \in ByteSizes, AllocVirtual(bytes)
      PROVE  PoolInv'
  BY <1>3, AllocVirtualOK
<1>4. ASSUME NEW bytes \in ByteSizes, StartMoreCore(bytes)
      PROVE  PoolInv'
  BY <1>1, <1>4 DEF StartMoreCore, BoundsOK, HeapStart, CoreEnd
<1>5. CASE AddTable
  BY <1>1, <1>5 DEF AddTable, BoundsOK, HeapStart, CoreEnd
<1>6. CASE AddPage
  <2>1. pool_top \in Nat /\ pool_top % PageSize = 0 /\ pool_top < pool_limit /\ pool_ptr["virtual"] <= pool_top
    <3>1. CoreEnd(request) > pool_top /\ CoreEnd(request) <= pool_limit /\ request \in ByteSizes
      BY <1>6 DEF AddPage, AddsPage, BoundsOK
    <3>2. CoreEnd(request) \in Nat
      <4>1. pool_ptr["virtual"] \in Nat /\ NUnits(request) \in Nat
        BY <3>1, UnitsPositive DEF BoundsOK, Heaps
      <4> QED
        BY <4>1, AfterNat DEF CoreEnd
    <3> QED
      BY <3>1, <3>2, Sane DEF BoundsOK, pool_limit
  <2>2. pool_limit \in Nat /\ pool_limit % PageSize = 0
    <3>1. VStart % PageSize = 0 /\ VSize % PageSize = 0
      BY PoolAssumption
    <3>2. PageSize \in Nat \ {0} /\ VStart \in Int /\ VSize \in Int
      BY Sane
    <3>3. PICK j \in Int : VStart = j * PageSize
      BY ONLY <3>1, <3>2, Multiple
    <3>4. PICK k \in Int : VSize = k * PageSize
      BY ONLY <3>1, <3>2, Multiple
    <3>5. VStart + VSize = (j + k) * PageSize /\ j + k \in Int /\ VStart + VSize \in Int
      BY <3>2, <3>3, <3>4
    <3>6. (VStart + VSize) % PageSize = 0
      BY ONLY <3>2, <3>5, Multiple
    <3> QED
      BY <3>6, Sane DEF pool_limit
  <2>3. pool_top + PageSize <= pool_limit /\ (pool_top + PageSize) % PageSize = 0
    BY <2>1, <2>2, PageFits
  <2>4. /\ pool_top' = pool_top + PageSize
        /\ UNCHANGED <<base, list, freep, pool_ptr, remaining, request, blocks>>
    BY <1>6 DEF AddPage
  <2>5. pool_ptr["virtual"] \in Nat /\ pool_top' \in Nat /\ pool_ptr["virtual"] <= pool_top'
    BY <2>1, <2>4, Sane DEF BoundsOK, Heaps
  <2>6. BoundsOK'
    BY <2>3, <2>4, <2>5 DEF BoundsOK, HeapStart, CoreEnd
  <2> QED
    BY <1>1, <2>4, <2>6
<1>7. CASE AddPageFails
  <2>1. request \in ByteSizes
    BY <1>7 DEF AddPageFails, AddsPage, BoundsOK
  <2>2. ServeFixed(request) /\ base' = base /\ pool_top' = pool_top /\ request' = NoRequest
    BY <1>7 DEF AddPageFails
  <2> QED
    BY <2>1, <2>2, ServeFixedOK
<1>8. CASE FinishMoreCore
  BY <1>8, FinishMoreCoreOK
<1>9. CASE AttachVirtual
  BY <1>1, <1>9 DEF AttachVirtual, BoundsOK, HeapStart, CoreEnd
<1>10. ASSUME NEW b \in blocks, PoolFree(b)
       PROVE  PoolInv'
  BY <1>10, PoolFreeOK
<1>11. CASE UNCHANGED poolVars
  BY <1>1, <1>11 DEF poolVars, BoundsOK, HeapStart, CoreEnd
<1> QED
  BY <1>2, <1>3, <1>4, <1>5, <1>6, <1>7, <1>8, <1>9, <1>10, <1>11 DEF PoolNext

-----------------------------------------------------------------------------
(* Results                                                                 *)

(* The blocks of a heap, free and held, are those of a tiling. *)
LEMMA AllBlocks ==
  ASSUME NEW f, NEW bs, NEW s, NEW lo, NEW hi, Listed(f, bs, s, lo, hi), NEW bl, Matches(s, f, bl)
  PROVE  /\ {<<p, f[p]>> : p \in DOMAIN f \ {bs}} \cup {<<b.header, b.size>> : b \in bl}
              = {<<p, s[p]>> : p \in DOMAIN s}
         /\ {<<p, f[p]>> : p \in DOMAIN f \ {bs}} \cap {<<b.header, b.size>> : b \in bl} = {}
<1> DEFINE F == {<<p, f[p]>> : p \in DOMAIN f \ {bs}}
           H == {<<b.header, b.size>> : b \in bl}
           A == {<<p, s[p]>> : p \in DOMAIN s}
<1>1. /\ DOMAIN f \ {bs} \subseteq DOMAIN s /\ \A p \in DOMAIN f \ {bs} : f[p] = s[p]
      /\ bs \notin DOMAIN s
  <2>1. bs \notin DOMAIN s
    BY DEF Listed, Tile
  <2> QED
    BY <2>1 DEF Listed
<1>2. /\ DOMAIN s \ DOMAIN f = {b.header : b \in bl}
      /\ \A b \in bl : s[b.header] = b.size
  BY DEF Matches, Busy
<1>3. F \subseteq A
  BY <1>1
<1>4. H \subseteq A
  BY <1>2
<1>5. ASSUME NEW p \in DOMAIN s
      PROVE  <<p, s[p]>> \in F \cup H
  <2>1. CASE p \in DOMAIN f
    BY <1>1, <2>1
  <2>2. CASE p \notin DOMAIN f
    <3>1. PICK b \in bl : b.header = p
      BY <1>2, <2>2
    <3> QED
      BY <1>2, <3>1
  <2> QED
    BY <2>1, <2>2
<1>6. F \cap H = {}
  BY <1>2
<1> HIDE DEF F, H
<1>7. F \cup H = A
  BY <1>3, <1>4, <1>5
<1> QED
  BY <1>6, <1>7 DEF F, H

(* A tiling covers its memory, and no two of its blocks overlap. *)
LEMMA TileCovers ==
  ASSUME NEW s, NEW lo, NEW hi, Tile(s, lo, hi), NEW all, all = {<<p, s[p]>> : p \in DOMAIN s}
  PROVE  /\ UNION {BytesOf(b[1], b[2]) : b \in all} = lo .. hi - 1
         /\ \A b, c \in all : b # c => After(b[1], b[2]) <= c[1] \/ After(c[1], c[2]) <= b[1]
         /\ \A b \in all : b[2] > 0 /\ b[1] % HeaderSize = 0
<1>1. /\ lo \in Nat /\ hi \in Nat
      /\ \A p \in DOMAIN s : /\ p \in Nat /\ lo <= p /\ p < hi /\ s[p] \in Nat \ {0}
                             /\ After(p, s[p]) <= hi /\ Aligned(p)
      /\ \A p, q \in DOMAIN s : p < q => After(p, s[p]) <= q
      /\ \A x \in lo .. hi - 1 : \E p \in DOMAIN s : p <= x /\ x < After(p, s[p])
  BY DEF Tile
<1>2. \A p \in DOMAIN s : After(p, s[p]) \in Nat
  BY <1>1, AfterNat
<1>3. \A b \in all : b[1] \in DOMAIN s /\ b[2] = s[b[1]] /\ b = <<b[1], s[b[1]]>>
  OBVIOUS
<1>4. ASSUME NEW b \in all, NEW x \in BytesOf(b[1], b[2])
      PROVE  x \in lo .. hi - 1
  <2>1. PICK p \in DOMAIN s : p = b[1] /\ b[2] = s[p]
    BY <1>3
  <2>2. x \in p .. After(p, s[p]) - 1
    BY <2>1 DEF BytesOf
  <2> QED
    BY <1>1, <1>2, <2>2
<1>5. ASSUME NEW x \in lo .. hi - 1
      PROVE  \E b \in all : x \in BytesOf(b[1], b[2])
  <2>1. PICK p \in DOMAIN s : p <= x /\ x < After(p, s[p])
    BY <1>1
  <2>2. x \in BytesOf(p, s[p])
    BY <1>1, <1>2, <2>1 DEF BytesOf
  <2>3. <<p, s[p]>> \in all /\ <<p, s[p]>>[1] = p /\ <<p, s[p]>>[2] = s[p]
    OBVIOUS
  <2> QED
    BY <2>2, <2>3
<1>6. UNION {BytesOf(b[1], b[2]) : b \in all} = lo .. hi - 1
  BY ONLY <1>4, <1>5
<1>7. ASSUME NEW b \in all, NEW c \in all, b # c
      PROVE  After(b[1], b[2]) <= c[1] \/ After(c[1], c[2]) <= b[1]
  <2>1. PICK p \in DOMAIN s : p = b[1] /\ b[2] = s[p]
    BY <1>3
  <2>2. PICK q \in DOMAIN s : q = c[1] /\ c[2] = s[q]
    BY <1>3
  <2>3. p # q
    BY <1>3, <1>7, <2>1, <2>2
  <2>4. p < q \/ q < p
    BY <1>1, <2>3
  <2>5. After(p, s[p]) <= q \/ After(q, s[q]) <= p
    BY <1>1, <2>4
  <2> QED
    BY <2>1, <2>2, <2>5
<1>8. \A b \in all : b[2] > 0 /\ b[1] % HeaderSize = 0
  BY <1>1, <1>3 DEF Aligned
<1> QED
  BY <1>6, <1>7, <1>8

(* The invariant says what is promised of the pools. *)
LEMMA PoolInvExact == PoolInv => PoolExact
<1> SUFFICES ASSUME PoolInv
             PROVE  PoolExact
  OBVIOUS
<1> USE DEF PoolInv
<1>1. ASSUME NEW h \in Heaps
      PROVE  LET all == FreeBlocks(h) \cup HeldBlocks(h) IN
             /\ UNION {BytesOf(b[1], b[2]) : b \in all} = HeapStart(h) .. pool_ptr[h] - 1
             /\ \A b, c \in all : b # c => After(b[1], b[2]) <= c[1] \/ After(c[1], c[2]) <= b[1]
             /\ FreeBlocks(h) \cap HeldBlocks(h) = {}
             /\ \A b \in all : b[2] > 0 /\ b[1] % HeaderSize = 0
             /\ \A b, c \in FreeBlocks(h) : After(b[1], b[2]) # c[1]
             /\ freep[h] \in DOMAIN list[h] /\ base[h] \in DOMAIN list[h] /\ list[h][base[h]] = 0
  <2>1. PICK bl : bl = HeldIn(h, blocks)
    OBVIOUS
  <2>2. PICK s : Sound(Heap(h), base[h], s, HeapStart(h), pool_ptr[h]) /\ Matches(s, Heap(h).list, bl)
    BY <2>1 DEF HeapsOK, HeapOK
  <2>3. PICK f : f = list[h]
    OBVIOUS
  <2>4. PICK bs : bs = base[h]
    OBVIOUS
  <2>5. /\ Listed(f, bs, s, HeapStart(h), pool_ptr[h]) /\ Matches(s, f, bl)
        /\ freep[h] \in DOMAIN f
    BY <2>2, <2>3, <2>4 DEF Heap, Sound
  <2>6. PICK all : all = FreeBlocks(h) \cup HeldBlocks(h)
    OBVIOUS
  <2>7. FreeBlocks(h) = {<<p, f[p]>> : p \in DOMAIN f \ {bs}} /\ HeldBlocks(h) = {<<b.header, b.size>> : b \in bl}
    BY <2>1, <2>3, <2>4 DEF FreeBlocks, HeldBlocks, HeldIn
  <2>8. all = {<<p, s[p]>> : p \in DOMAIN s} /\ FreeBlocks(h) \cap HeldBlocks(h) = {}
    BY <2>5, <2>6, <2>7, AllBlocks
  <2>9. Tile(s, HeapStart(h), pool_ptr[h])
    BY <2>5 DEF Listed
  <2>10. /\ UNION {BytesOf(b[1], b[2]) : b \in all} = HeapStart(h) .. pool_ptr[h] - 1
         /\ \A b, c \in all : b # c => After(b[1], b[2]) <= c[1] \/ After(c[1], c[2]) <= b[1]
         /\ \A b \in all : b[2] > 0 /\ b[1] % HeaderSize = 0
    BY <2>8, <2>9, TileCovers
  <2>11. \A b, c \in FreeBlocks(h) : After(b[1], b[2]) # c[1]
    <3>1. \A x, y \in DOMAIN f \ {bs} : After(x, f[x]) # y
      BY <2>5 DEF Listed
    <3> QED
      BY <2>7, <3>1
  <2>12. base[h] \in DOMAIN list[h] /\ list[h][base[h]] = 0
    BY <2>3, <2>4, <2>5 DEF Listed
  <2> QED
    BY <2>3, <2>5, <2>6, <2>8, <2>10, <2>11, <2>12
<1>2. ASSUME NEW b \in blocks
      PROVE  After(b.header, 1) + b.bytes <= After(b.header, b.size)
  <2>1. PICK h \in Heaps : b \in HeldIn(h, blocks)
    BY DEF HeldIn, Heaps
  <2>2. b.header \in Nat
    BY <2>1, HeldWithin DEF HeapsOK
  <2>3. b.bytes \in ByteSizes /\ b.size = NUnits(b.bytes)
    BY DEF BlocksOK
  <2> QED
    BY <2>2, <2>3, EnoughUnits
<1>3. \A b, c \in blocks : b # c => b.header # c.header
  BY DEF BlocksOK, UniqueHeaders
<1>4. /\ pool_ptr["fixed"] + remaining = fixed_pool_end
      /\ pool_ptr["virtual"] <= pool_top /\ pool_top <= pool_limit
  BY DEF BoundsOK
<1> QED
  BY <1>1, <1>2, <1>3, <1>4 DEF PoolExact

(* However allocations, frees and failed growth interleave, the free blocks *)
(* and the blocks that callers hold tile what each heap was given, without  *)
(* overlap and without two free blocks that touch.                          *)
THEOREM PoolAlwaysExact == PoolSpec => []PoolExact
<1>1. PoolInit => PoolInv
  BY PoolStarts
<1>2. PoolInv /\ [PoolNext]_poolVars => PoolInv'
  BY PoolStep
<1>3. PoolInv => PoolExact
  BY PoolInvExact
<1> QED
  BY <1>1, <1>2, <1>3, PTL DEF PoolSpec

-----------------------------------------------------------------------------
(* The serial server: the registry, the mappings, the slots and the        *)
(* clients' connections agree, and what is printed is the printing         *)
(* client's.                                                               *)

(* What relates the server's state to the clients' connections. *)
Agreement == ConnectedRegistered /\ BadgesUnique /\ WindowsExact /\ RequestsSound

(* What a server that has stopped has left of its clients' windows. *)
Released == mapped = {} /\ \A s \in Slots : slots[s] # "used"

(* No window is mapped before the server serves, the parent of no server    *)
(* has yet to spawn one, and a refusal comes from a server that stopped.    *)
Startup ==
  /\ server \in {"none", "binding"} => mapped = {}
  /\ parent = "new" => server = "none"
  /\ parent = "refused" => server = "stopped"

(* The inductive invariant. *)
SerialInv ==
  /\ TypeOK
  /\ Startup
  /\ orderly => IF server = "stopped" THEN Released ELSE Agreement
  /\ OwnOutput

UsedSlots == {s \in Slots : slots[s] = "used"}

-----------------------------------------------------------------------------
(* The registry                                                            *)

(* Some unused entry comes first. *)
LEMMA LeastUnused ==
  ASSUME NEW S \in SUBSET Nat, S # {}
  PROVE  \E i \in S : \A j \in S : i <= j
<1>1. PICK i \in S : \A j \in S : ~(<<j, i>> \in OpToRel(<, Nat))
  BY WFMin, NatLessThanWellFounded
<1>2. ASSUME NEW j \in S, j < i
      PROVE  FALSE
  <2>1. <<j, i>> \in Nat \X Nat
    OBVIOUS
  <2>2. <<j, i>>[1] < <<j, i>>[2]
    BY <1>2
  <2>3. <<j, i>> \in OpToRel(<, Nat)
    BY <2>1, <2>2, Zenon DEF OpToRel
  <2> QED
    BY <1>1, <2>3
<1>3. \A j \in S : ~(j < i)
  BY <1>2
<1> QED
  BY <1>3

(* The badge that serial_server_badge_value_alloc() returns was free and is  *)
(* not any more; entries in use are left alone.                             *)
LEMMA BadgeAllocated ==
  ASSUME TypeOK, NEW b, NEW junk \in {NoWindow, Junk}, BadgeAlloc(b, junk)
  PROVE  /\ b \in Nat /\ ~Allocated(b)
         /\ registry' \in Seq(Entries)
         /\ \A i \in DOMAIN registry' : registry'[i].badge \in {0, i}
         /\ Allocated(b)'
         /\ \A i : Allocated(i) => Allocated(i)' /\ registry'[i] = registry[i]
<1>1. /\ registry \in Seq(Entries) /\ \A i \in DOMAIN registry : registry[i].badge \in {0, i}
      /\ DOMAIN registry = 1 .. Len(registry) /\ Len(registry) \in Nat
  BY DEF TypeOK
<1>2. CASE Unused # {}
  <2>1. Unused \in SUBSET Nat
    BY <1>1 DEF Unused
  <2>2. b \in Unused
    BY <1>2, <2>1, LeastUnused DEF BadgeAlloc
  <2>3. b \in DOMAIN registry /\ registry[b].badge = 0 /\ b # 0 /\ b \in Nat
    BY <1>1, <2>2 DEF Unused
  <2>4. registry' = [registry EXCEPT ![b].badge = b]
    BY <1>2 DEF BadgeAlloc
  <2>5. registry[b] \in Entries
    BY <1>1, <2>3
  <2>6. [registry[b] EXCEPT !.badge = b] \in Entries
    BY <2>3, <2>5 DEF Entries
  <2>7. registry' \in Seq(Entries) /\ DOMAIN registry' = DOMAIN registry
    BY <1>1, <2>3, <2>4, <2>6
  <2>8. registry'[b].badge = b
    BY <2>3, <2>4, <2>5 DEF Entries
  <2>9. \A i \in DOMAIN registry : i # b => registry'[i] = registry[i]
    BY <2>3, <2>4
  <2> QED
    BY <1>1, <2>3, <2>7, <2>8, <2>9 DEF Allocated
<1>3. CASE Unused = {}
  <2>1. b = Len(registry) + 1 /\ registry' = Append(registry, Fresh(b, junk))
    BY <1>3 DEF BadgeAlloc
  <2>2. Fresh(b, junk) \in Entries /\ Fresh(b, junk).badge = b
    BY <1>1, <2>1 DEF Fresh, Entries
  <2>3. /\ registry' \in Seq(Entries) /\ DOMAIN registry' = 1 .. Len(registry) + 1
        /\ registry'[b] = Fresh(b, junk)
        /\ \A i \in DOMAIN registry : registry'[i] = registry[i]
    BY <1>1, <2>1, <2>2
  <2>4. b \in Nat /\ b # 0 /\ b \notin DOMAIN registry
    BY <1>1, <2>1
  <2> QED
    BY <1>1, <2>1, <2>2, <2>3, <2>4 DEF Allocated
<1> QED
  BY <1>2, <1>3

(* An entry keeps its type when serial_server_func_disconnect() frees it. *)
LEMMA EntryFreed ==
  ASSUME TypeOK, NEW b, registry' = [registry EXCEPT ![b].badge = 0]
  PROVE  /\ registry' \in Seq(Entries)
         /\ \A i \in DOMAIN registry' : registry'[i].badge \in {0, i}
         /\ \A i : i # b => (Allocated(i)' <=> Allocated(i))
         /\ \A i \in DOMAIN registry : registry'[i].shmem = registry[i].shmem
<1>1. /\ registry \in Seq(Entries) /\ \A i \in DOMAIN registry : registry[i].badge \in {0, i}
      /\ DOMAIN registry = 1 .. Len(registry) /\ Len(registry) \in Nat
  BY DEF TypeOK
<1>2. CASE b \in DOMAIN registry
  <2>1. registry[b] \in Entries
    BY <1>1, <1>2
  <2>2. [registry[b] EXCEPT !.badge = 0] \in Entries
    BY <2>1 DEF Entries
  <2>3. registry' \in Seq(Entries) /\ DOMAIN registry' = DOMAIN registry
    BY <1>1, <1>2, <2>2
  <2>4. registry'[b].badge = 0 /\ registry'[b].shmem = registry[b].shmem
    BY <1>2, <2>1 DEF Entries
  <2>5. \A i \in DOMAIN registry : i # b => registry'[i] = registry[i]
    BY <1>2
  <2> QED
    BY <1>1, <2>3, <2>4, <2>5 DEF Allocated
<1>3. CASE b \notin DOMAIN registry
  <2>1. registry' = registry
    BY <1>1, <1>3
  <2> QED
    BY <1>1, <2>1 DEF Allocated
<1> QED
  BY <1>2, <1>3

(* serial_server_registry_insert() writes one entry, under its own badge. *)
LEMMA EntryInserted ==
  ASSUME TypeOK, NEW b, Allocated(b), NEW c \in Clients, registry' = Insert(b, c)
  PROVE  /\ registry' \in Seq(Entries)
         /\ \A i \in DOMAIN registry' : registry'[i].badge \in {0, i}
         /\ \A i : Allocated(i)' <=> Allocated(i)
         /\ registry'[b].shmem = c
         /\ \A i \in DOMAIN registry : i # b => registry'[i] = registry[i]
<1>1. /\ registry \in Seq(Entries) /\ \A i \in DOMAIN registry : registry[i].badge \in {0, i}
      /\ DOMAIN registry = 1 .. Len(registry) /\ Len(registry) \in Nat
  BY DEF TypeOK
<1>2. b \in DOMAIN registry /\ registry[b].badge # 0 /\ b \in Nat /\ b # 0
  BY <1>1 DEF Allocated
<1>3. PICK e : e = [badge |-> b, shmem |-> c]
  OBVIOUS
<1>4. e \in Entries /\ e.badge = b /\ e.shmem = c
  BY <1>2, <1>3 DEF Entries
<1>5. registry' = [registry EXCEPT ![b] = e]
  BY <1>3 DEF Insert
<1>6. registry' \in Seq(Entries) /\ DOMAIN registry' = DOMAIN registry
  BY <1>1, <1>2, <1>4, <1>5
<1>7. registry'[b] = e /\ \A i \in DOMAIN registry : i # b => registry'[i] = registry[i]
  BY <1>2, <1>5
<1> QED
  BY <1>1, <1>2, <1>4, <1>6, <1>7 DEF Allocated

-----------------------------------------------------------------------------
(* Slots and requests                                                      *)

(* The sets that are counted are finite. *)
LEMMA Counted ==
  ASSUME TypeOK
  PROVE  /\ IsFiniteSet(mapped) /\ Cardinality(mapped) \in Nat
         /\ IsFiniteSet(UsedSlots) /\ Cardinality(UsedSlots) \in Nat
<1>1. mapped \subseteq Clients /\ UsedSlots \subseteq Slots
  BY DEF TypeOK, UsedSlots
<1>2. IsFiniteSet(mapped) /\ IsFiniteSet(UsedSlots)
  BY <1>1, SerialServerConfig, FS_Subset
<1> QED
  BY <1>2, FS_CardinalityType

(* Unmapping windows leaves a slot in use for each of the others. *)
LEMMA SlotsFollow ==
  ASSUME TypeOK, NEW windows \in SUBSET mapped, SlotsFreed(windows),
         Cardinality(UsedSlots) = Cardinality(mapped)
  PROVE  /\ slots' \in [Slots -> {"free", "used", "full", "lost"}]
         /\ Cardinality(UsedSlots') = Cardinality(mapped \ windows)
         /\ mapped = windows => \A s \in Slots : slots'[s] # "used"
<1>1. PICK gone \in SUBSET UsedSlots :
        /\ Cardinality(gone) = Cardinality(windows)
        /\ slots' = [s \in Slots |-> IF s \in gone THEN "free" ELSE slots[s]]
  BY DEF SlotsFreed, UsedSlots
<1>2. slots \in [Slots -> {"free", "used", "full", "lost"}]
  BY DEF TypeOK
<1>3. slots' \in [Slots -> {"free", "used", "full", "lost"}]
  BY <1>1, <1>2
<1>4. UsedSlots' = UsedSlots \ gone
  BY <1>1, <1>2 DEF UsedSlots
<1>5. UsedSlots \cap gone = gone /\ mapped \cap windows = windows
  OBVIOUS
<1>6. /\ Cardinality(UsedSlots \ gone) = Cardinality(UsedSlots) - Cardinality(gone)
      /\ Cardinality(mapped \ windows) = Cardinality(mapped) - Cardinality(windows)
  <2>1. IsFiniteSet(UsedSlots) /\ IsFiniteSet(mapped)
    BY Counted
  <2>2. Cardinality(UsedSlots \ gone) = Cardinality(UsedSlots) - Cardinality(UsedSlots \cap gone)
    BY <2>1, FS_Difference
  <2>3. Cardinality(mapped \ windows) = Cardinality(mapped) - Cardinality(mapped \cap windows)
    BY <2>1, FS_Difference
  <2> QED
    BY <1>5, <2>2, <2>3
<1>7. Cardinality(UsedSlots') = Cardinality(mapped \ windows)
  BY <1>1, <1>4, <1>6
<1>8. ASSUME mapped = windows
      PROVE  \A s \in Slots : slots'[s] # "used"
  <2>1. Cardinality(UsedSlots') = 0
    BY <1>7, <1>8, FS_EmptySet
  <2>2. IsFiniteSet(UsedSlots')
    BY <1>4, Counted, FS_Difference
  <2>3. UsedSlots' = {}
    BY <2>1, <2>2, FS_EmptySet
  <2> QED
    BY <2>3 DEF UsedSlots
<1> QED
  BY <1>3, <1>7, <1>8

(* The request at the head of the endpoint's queue, and those behind it. *)
LEMMA HeadAndTail ==
  ASSUME TypeOK, ep # <<>>
  PROVE  /\ 1 \in DOMAIN ep /\ Request = ep[1] /\ Request \in Requests
         /\ Request.client \in Clients /\ Request.badge \in Nat /\ Request.back \in ConnStates
         /\ Tail(ep) \in Seq(Requests)
         /\ \A k \in DOMAIN Tail(ep) :
              k \in Nat \ {0} /\ k + 1 \in DOMAIN ep /\ Tail(ep)[k] = ep[k + 1]
<1>1. ep \in Seq(Requests) /\ Len(ep) \in Nat \ {0} /\ DOMAIN ep = 1 .. Len(ep)
  BY DEF TypeOK
<1>2. 1 \in DOMAIN ep /\ Request = ep[1]
  BY <1>1 DEF Request
<1>3. Request \in Requests
  BY <1>1, <1>2
<1>4. Request.client \in Clients /\ Request.badge \in Nat /\ Request.back \in ConnStates
  BY <1>3 DEF Requests
<1>5. Tail(ep) \in Seq(Requests) /\ Len(Tail(ep)) = Len(ep) - 1 /\ DOMAIN Tail(ep) = 1 .. Len(ep) - 1
  BY <1>1
<1>6. \A k \in DOMAIN Tail(ep) : k \in Nat \ {0} /\ k + 1 \in DOMAIN ep /\ Tail(ep)[k] = ep[k + 1]
  BY <1>1, <1>5
<1> QED
  BY <1>2, <1>3, <1>4, <1>5, <1>6

(* What is known of a request that is served. *)
LEMMA ServedRequest ==
  ASSUME TypeOK, Agreement, ep # <<>>
  PROVE  /\ Request.client \in Clients
         /\ conn[Request.client] = "waiting"
         /\ Request.badge = badge[Request.client]
         /\ Allocated(Request.badge)
         /\ IF Request.func = "connect"
              THEN Request.back = "minted" /\ Request.client \notin mapped
              ELSE /\ Request.back = "connected" /\ Request.client \in mapped
                   /\ Entry.shmem = Request.client
<1>1. 1 \in DOMAIN ep /\ Request = ep[1] /\ Request.client \in Clients
  BY HeadAndTail
<1>2. /\ conn[Request.client] = "waiting" /\ Request.badge = badge[Request.client]
      /\ IF Request.func = "connect"
           THEN Request.back = "minted" /\ Request.client \notin mapped
           ELSE Request.back = "connected" /\ Request.client \in mapped
  BY <1>1 DEF Agreement, RequestsSound
<1>3. Allocated(Request.badge)
  BY <1>1, <1>2 DEF Agreement, BadgesUnique
<1>4. Request.client \in mapped => Entry.shmem = Request.client
  BY <1>2 DEF Agreement, WindowsExact, Entry
<1> QED
  BY <1>1, <1>2, <1>3, <1>4

(* Serving a request leaves the others as they were. *)
LEMMA OthersWait ==
  ASSUME TypeOK, RequestsSound, ep # <<>>, ep' = Tail(ep), NEW state, Replies(state),
         badge' = badge, \A d \in Clients \ {Request.client} : d \in mapped' <=> d \in mapped
  PROVE  RequestsSound'
<1>1. conn \in [Clients -> ConnStates] /\ ep \in Seq(Requests)
  BY DEF TypeOK
<1>2. \A k \in DOMAIN ep' :
        k \in Nat \ {0} /\ k + 1 \in DOMAIN ep /\ ep'[k] = ep[k + 1] /\ ep'[k].client \in Clients
  <2> SUFFICES ASSUME NEW k \in DOMAIN ep'
               PROVE  k \in Nat \ {0} /\ k + 1 \in DOMAIN ep /\ ep'[k] = ep[k + 1] /\ ep'[k].client \in Clients
    OBVIOUS
  <2>1. k \in Nat \ {0} /\ k + 1 \in DOMAIN ep /\ ep'[k] = ep[k + 1]
    BY HeadAndTail
  <2>2. ep[k + 1] \in Requests
    BY <1>1, <2>1
  <2> QED
    BY <2>1, <2>2 DEF Requests
<1>3. \A k \in DOMAIN ep' : ep'[k].client # Request.client
  <2> SUFFICES ASSUME NEW k \in DOMAIN ep'
               PROVE  ep'[k].client # Request.client
    OBVIOUS
  <2>1. k + 1 \in DOMAIN ep /\ k + 1 # 1 /\ ep'[k] = ep[k + 1]
    BY <1>2
  <2>2. 1 \in DOMAIN ep /\ Request = ep[1]
    BY HeadAndTail
  <2> QED
    BY <2>1, <2>2 DEF RequestsSound
<1>4. \A d \in Clients \ {Request.client} : conn'[d] = conn[d]
  BY <1>1 DEF Replies
<1>5. ASSUME NEW k \in DOMAIN ep'
      PROVE  /\ conn'[ep'[k].client] = "waiting" /\ ep'[k].badge = badge'[ep'[k].client]
             /\ IF ep'[k].func = "connect"
                  THEN ep'[k].back = "minted" /\ ep'[k].client \notin mapped'
                  ELSE ep'[k].back = "connected" /\ ep'[k].client \in mapped'
  <2>1. k + 1 \in DOMAIN ep /\ ep'[k] = ep[k + 1] /\ ep'[k].client \in Clients \ {Request.client}
    BY <1>2, <1>3
  <2>2. /\ conn'[ep'[k].client] = conn[ep'[k].client]
        /\ ep'[k].client \in mapped' <=> ep'[k].client \in mapped
    BY <1>4, <2>1
  <2> QED
    BY <2>1, <2>2 DEF RequestsSound
<1>6. ASSUME NEW j \in DOMAIN ep', NEW k \in DOMAIN ep', j # k
      PROVE  ep'[j].client # ep'[k].client
  <2>1. j + 1 # k + 1
    BY <1>2, <1>6
  <2> QED
    BY <1>2, <2>1 DEF RequestsSound
<1> QED
  BY <1>5, <1>6 DEF RequestsSound

-----------------------------------------------------------------------------
(* Actions and the agreement of the server and its clients                 *)

(* An answer that leaves the client in the state it called from. *)
LEMMA AnswerAgrees ==
  ASSUME TypeOK, Agreement, ep # <<>>, ep' = Tail(ep), Replies(Request.back),
         registry' = registry, mapped' = mapped, badge' = badge, UsedSlots' = UsedSlots
  PROVE  Agreement'
<1> DEFINE c == Request.client
<1>1. conn \in [Clients -> ConnStates] /\ mapped \subseteq Clients
  BY DEF TypeOK
<1>2. /\ c \in Clients /\ conn[c] = "waiting" /\ Allocated(badge[c])
      /\ IF Request.back = "connected" THEN c \in mapped ELSE Request.back = "minted" /\ c \notin mapped
  BY ServedRequest
<1>3. conn'[c] = Request.back /\ \A d \in Clients \ {c} : conn'[d] = conn[d]
  BY <1>1, <1>2 DEF Replies
<1> HIDE DEF c
<1>4. \A b : Allocated(b)' <=> Allocated(b)
  BY DEF Allocated
<1>5. ConnectedRegistered'
  BY <1>2, <1>3, <1>4 DEF Agreement, ConnectedRegistered, WindowsExact
<1>6. BadgesUnique'
  <2>1. \A d \in Clients : conn'[d] \in {"minted", "waiting", "connected"}
                             <=> conn[d] \in {"minted", "waiting", "connected"}
    BY <1>2, <1>3
  <2> QED
    BY <1>4, <2>1 DEF Agreement, BadgesUnique
<1>7. WindowsExact'
  <2>1. \A d \in mapped : conn'[d] \in {"connected", "waiting"}
    BY <1>1, <1>2, <1>3 DEF Agreement, WindowsExact
  <2> QED
    BY <1>4, <2>1 DEF Agreement, WindowsExact, UsedSlots
<1>8. RequestsSound'
  BY OthersWait DEF Agreement
<1> QED
  BY <1>5, <1>6, <1>7, <1>8 DEF Agreement

(* A connection that serial_server_func_connect() makes. *)
LEMMA AcceptedAgrees ==
  ASSUME TypeOK, Agreement, NEW s \in Slots, ConnectAccepted(s)
  PROVE  Agreement'
<1> DEFINE c == Request.client
           b == badge[c]
<1>1. conn \in [Clients -> ConnStates] /\ mapped \subseteq Clients /\ ep # <<>>
      /\ slots \in [Slots -> {"free", "used", "full", "lost"}]
  BY DEF TypeOK, ConnectAccepted, Serves
<1>2. /\ c \in Clients /\ conn[c] = "waiting" /\ Allocated(b) /\ Request.badge = b /\ c \notin mapped
  BY <1>1, ServedRequest DEF ConnectAccepted, Serves
<1>3. conn'[c] = "connected" /\ \A d \in Clients \ {c} : conn'[d] = conn[d]
  BY <1>1, <1>2 DEF ConnectAccepted, Replies
<1>4. mapped' = mapped \cup {c} /\ badge' = badge /\ ep' = Tail(ep)
  BY DEF ConnectAccepted, Serves, ParentState
<1>5. registry' = Insert(b, c)
  BY <1>2 DEF ConnectAccepted
<1>6. /\ \A i : Allocated(i)' <=> Allocated(i)
      /\ registry'[b].shmem = c
      /\ \A i \in DOMAIN registry : i # b => registry'[i] = registry[i]
  <2> HIDE DEF b, c
  <2> QED
    BY <1>2, <1>5, EntryInserted
<1>7. \A d \in Clients \ {c} : conn[d] \in {"minted", "waiting", "connected"} =>
         badge[d] # b /\ Allocated(badge[d]) /\ registry'[badge[d]] = registry[badge[d]]
  <2> HIDE DEF b
  <2>1. \A d \in Clients \ {c} : conn[d] \in {"minted", "waiting", "connected"} =>
          badge[d] # badge[c] /\ Allocated(badge[d])
    <3> HIDE DEF c
    <3> QED
      BY <1>2 DEF Agreement, BadgesUnique
  <2> QED
    BY <1>6, <2>1 DEF Allocated, b
<1>8. RequestsSound'
  <2>1. \A d \in Clients \ {Request.client} : d \in mapped' <=> d \in mapped
    BY <1>4
  <2> QED
    BY <1>1, <1>4, <2>1, OthersWait DEF Agreement, ConnectAccepted
<1>9. Cardinality(UsedSlots') = Cardinality(mapped')
  <2>1. slots[s] = "free" /\ slots' = [slots EXCEPT ![s] = "used"]
    BY DEF ConnectAccepted
  <2>2. UsedSlots' = UsedSlots \cup {s} /\ s \notin UsedSlots
    BY <1>1, <2>1 DEF UsedSlots
  <2>3. IsFiniteSet(UsedSlots) /\ IsFiniteSet(mapped)
    BY Counted
  <2>4. Cardinality(UsedSlots \cup {s}) = Cardinality(UsedSlots) + 1
    BY <2>2, <2>3, FS_AddElement
  <2>5. Cardinality(mapped \cup {c}) = Cardinality(mapped) + 1
    BY <1>2, <2>3, FS_AddElement
  <2>6. Cardinality(UsedSlots) = Cardinality(mapped)
    BY DEF Agreement, WindowsExact, UsedSlots
  <2> QED
    BY <1>4, <2>2, <2>4, <2>5, <2>6
<1> HIDE DEF c
<1>10. ConnectedRegistered'
  BY <1>2, <1>3, <1>4, <1>6, <1>7 DEF Agreement, ConnectedRegistered
<1>11. BadgesUnique'
  <2>1. \A d \in Clients : conn'[d] \in {"minted", "waiting", "connected"}
                             <=> conn[d] \in {"minted", "waiting", "connected"}
    BY <1>2, <1>3
  <2> QED
    BY <1>4, <1>6, <2>1 DEF Agreement, BadgesUnique
<1>12. WindowsExact'
  <2>1. \A d \in mapped \cup {c} : /\ conn'[d] \in {"connected", "waiting"}
                                  /\ Allocated(badge[d])'
                                  /\ registry'[badge[d]].shmem = d
    BY <1>1, <1>2, <1>3, <1>4, <1>6, <1>7 DEF Agreement, WindowsExact
  <2> QED
    BY <1>4, <1>9, <2>1 DEF WindowsExact, UsedSlots
<1> QED
  BY <1>8, <1>10, <1>11, <1>12 DEF Agreement

(* serial_server_func_disconnect() *)
LEMMA DisconnectAgrees ==
  ASSUME TypeOK, Agreement, ServerDisconnects
  PROVE  Agreement'
<1> DEFINE c == Request.client
           b == badge[c]
<1>1. conn \in [Clients -> ConnStates] /\ mapped \subseteq Clients /\ ep # <<>>
  BY DEF TypeOK, ServerDisconnects, Serves
<1>2. /\ c \in Clients /\ conn[c] = "waiting" /\ Allocated(b) /\ Request.badge = b
      /\ c \in mapped /\ Entry.shmem = c
  BY <1>1, ServedRequest DEF ServerDisconnects, Serves
<1>3. conn'[c] = "closed" /\ \A d \in Clients \ {c} : conn'[d] = conn[d]
  BY <1>1, <1>2 DEF ServerDisconnects, Replies
<1>4. mapped' = mapped \ {c} /\ badge' = badge /\ ep' = Tail(ep)
  BY <1>2 DEF ServerDisconnects, Serves, ParentState
<1>5. registry' = [registry EXCEPT ![b].badge = 0]
  BY <1>2 DEF ServerDisconnects
<1>6. /\ \A i : i # b => (Allocated(i)' <=> Allocated(i))
      /\ \A i \in DOMAIN registry : registry'[i].shmem = registry[i].shmem
  <2> HIDE DEF b, c
  <2> QED
    BY <1>5, EntryFreed
<1>7. \A d \in Clients \ {c} : conn[d] \in {"minted", "waiting", "connected"} =>
         /\ badge[d] # b /\ Allocated(badge[d])
         /\ registry'[badge[d]].shmem = registry[badge[d]].shmem
  <2> HIDE DEF b
  <2>1. \A d \in Clients \ {c} : conn[d] \in {"minted", "waiting", "connected"} =>
          badge[d] # badge[c] /\ Allocated(badge[d])
    <3> HIDE DEF c
    <3> QED
      BY <1>2 DEF Agreement, BadgesUnique
  <2> QED
    BY <1>6, <2>1 DEF Allocated, b
<1>8. RequestsSound'
  <2>1. \A d \in Clients \ {Request.client} : d \in mapped' <=> d \in mapped
    BY <1>4
  <2> QED
    BY <1>1, <1>4, <2>1, OthersWait DEF Agreement, ServerDisconnects
<1>9. Cardinality(UsedSlots') = Cardinality(mapped')
  <2>1. {Entry.shmem} \cap mapped = {c} /\ {c} \in SUBSET mapped
    BY <1>2
  <2>2. SlotsFreed({c})
    BY <2>1 DEF ServerDisconnects
  <2>3. Cardinality(UsedSlots) = Cardinality(mapped)
    BY DEF Agreement, WindowsExact, UsedSlots
  <2> HIDE DEF c
  <2> QED
    BY <1>4, <2>1, <2>2, <2>3, SlotsFollow
<1> HIDE DEF c
<1>10. ConnectedRegistered'
  BY <1>3, <1>4, <1>6, <1>7 DEF Agreement, ConnectedRegistered
<1>11. BadgesUnique'
  <2>1. \A d \in Clients : conn'[d] \in {"minted", "waiting", "connected"}
                             => d # c /\ conn[d] \in {"minted", "waiting", "connected"}
    BY <1>3
  <2>2. \A d \in Clients : conn'[d] \in {"minted", "waiting", "connected"} => Allocated(badge[d])'
    BY <1>4, <1>6, <1>7, <2>1
  <2> QED
    BY <1>4, <2>1, <2>2 DEF Agreement, BadgesUnique
<1>12. WindowsExact'
  <2>1. \A d \in mapped \ {c} : /\ conn'[d] \in {"connected", "waiting"}
                               /\ Allocated(badge[d])'
                               /\ registry'[badge[d]].shmem = d
    BY <1>1, <1>3, <1>4, <1>6, <1>7 DEF Agreement, WindowsExact
  <2> QED
    BY <1>4, <1>9, <2>1 DEF WindowsExact, UsedSlots
<1> QED
  BY <1>8, <1>10, <1>11, <1>12 DEF Agreement

(* A call that a client sends. *)
LEMMA SendAgrees ==
  ASSUME TypeOK, Agreement, NEW c \in Clients, NEW func, NEW arg, Sends(c, func, arg),
         IF func = "connect" THEN conn[c] = "minted" ELSE conn[c] = "connected"
  PROVE  Agreement'
<1>1. /\ conn \in [Clients -> ConnStates] /\ mapped \subseteq Clients
      /\ ep \in Seq(Requests) /\ Len(ep) \in Nat /\ DOMAIN ep = 1 .. Len(ep)
  BY DEF TypeOK
<1>2. conn'[c] = "waiting" /\ \A d \in Clients \ {c} : conn'[d] = conn[d]
  BY <1>1 DEF Sends
<1>3. mapped' = mapped /\ badge' = badge /\ registry' = registry /\ slots' = slots
  BY DEF Sends, ServerState, ParentState
<1>4. PICK m : m = [client |-> c, badge |-> badge[c], func |-> func, arg |-> arg, back |-> conn[c]]
  OBVIOUS
<1>5. m.client = c /\ m.badge = badge[c] /\ m.func = func /\ m.back = conn[c]
  BY <1>4
<1>6. ep' = Append(ep, m)
  BY <1>4 DEF Sends
<1>7. /\ DOMAIN ep' = 1 .. Len(ep) + 1 /\ ep'[Len(ep) + 1] = m
      /\ \A k \in DOMAIN ep : ep'[k] = ep[k]
  BY <1>1, <1>6
<1>8. IF func = "connect" THEN c \notin mapped ELSE c \in mapped
  BY DEF Agreement, ConnectedRegistered, WindowsExact
<1>9. \A k \in DOMAIN ep : ep[k].client \in Clients /\ ep[k].client # c /\ conn[ep[k].client] = "waiting"
  <2> SUFFICES ASSUME NEW k \in DOMAIN ep
               PROVE  ep[k].client \in Clients /\ ep[k].client # c /\ conn[ep[k].client] = "waiting"
    OBVIOUS
  <2>1. ep[k] \in Requests
    BY <1>1
  <2>2. conn[ep[k].client] = "waiting"
    BY DEF Agreement, RequestsSound
  <2> QED
    BY <2>1, <2>2 DEF Requests
<1>10. RequestsSound'
  <2>1. ASSUME NEW k \in DOMAIN ep'
        PROVE  /\ conn'[ep'[k].client] = "waiting" /\ ep'[k].badge = badge'[ep'[k].client]
               /\ IF ep'[k].func = "connect"
                    THEN ep'[k].back = "minted" /\ ep'[k].client \notin mapped'
                    ELSE ep'[k].back = "connected" /\ ep'[k].client \in mapped'
    <3>1. CASE k = Len(ep) + 1
      BY <1>2, <1>3, <1>5, <1>7, <1>8, <3>1
    <3>2. CASE k # Len(ep) + 1
      <4>1. k \in DOMAIN ep
        BY <1>1, <1>7, <3>2
      <4> QED
        BY <1>2, <1>3, <1>7, <1>9, <4>1 DEF Agreement, RequestsSound
    <3> QED
      BY <3>1, <3>2
  <2>2. ASSUME NEW j \in DOMAIN ep', NEW k \in DOMAIN ep', j # k
        PROVE  ep'[j].client # ep'[k].client
    <3>1. (j \in DOMAIN ep /\ k \in DOMAIN ep) \/ (j \in DOMAIN ep /\ k = Len(ep) + 1)
            \/ (j = Len(ep) + 1 /\ k \in DOMAIN ep)
      BY <1>1, <1>7, <2>2
    <3>2. CASE j \in DOMAIN ep /\ k \in DOMAIN ep
      BY <1>7, <2>2, <3>2 DEF Agreement, RequestsSound
    <3>3. CASE j \in DOMAIN ep /\ k = Len(ep) + 1
      BY <1>5, <1>7, <1>9, <3>3
    <3>4. CASE j = Len(ep) + 1 /\ k \in DOMAIN ep
      BY <1>5, <1>7, <1>9, <3>4
    <3> QED
      BY <3>1, <3>2, <3>3, <3>4
  <2> QED
    BY <2>1, <2>2 DEF RequestsSound
<1>11. \A i : Allocated(i)' <=> Allocated(i)
  BY <1>3 DEF Allocated
<1>12. ConnectedRegistered'
  BY <1>2, <1>3, <1>11 DEF Agreement, ConnectedRegistered
<1>13. BadgesUnique'
  <2>1. \A d \in Clients : conn'[d] \in {"minted", "waiting", "connected"}
                             <=> conn[d] \in {"minted", "waiting", "connected"}
    BY <1>2
  <2> QED
    BY <1>3, <1>11, <2>1 DEF Agreement, BadgesUnique
<1>14. WindowsExact'
  <2>1. \A d \in mapped : conn'[d] \in {"connected", "waiting"}
    BY <1>1, <1>2 DEF Agreement, WindowsExact
  <2> QED
    BY <1>3, <1>11, <2>1 DEF Agreement, WindowsExact
<1> QED
  BY <1>10, <1>12, <1>13, <1>14 DEF Agreement

(* The parent's own badge, when it spawns the server. *)
LEMMA SpawnAgrees ==
  ASSUME TypeOK, Agreement, NEW junk \in {NoWindow, Junk}, ParentSpawns(junk)
  PROVE  Agreement'
<1>1. \A i : Allocated(i) => Allocated(i)' /\ registry'[i] = registry[i]
  BY BadgeAllocated DEF ParentSpawns
<1>2. mapped' = mapped /\ badge' = badge /\ conn' = conn /\ slots' = slots /\ ep' = ep
  BY DEF ParentSpawns
<1>3. ConnectedRegistered'
  BY <1>1, <1>2 DEF Agreement, ConnectedRegistered
<1>4. BadgesUnique'
  BY <1>1, <1>2 DEF Agreement, BadgesUnique
<1>5. WindowsExact'
  BY <1>1, <1>2 DEF Agreement, WindowsExact
<1>6. RequestsSound'
  BY <1>2 DEF Agreement, RequestsSound
<1> QED
  BY <1>3, <1>4, <1>5, <1>6 DEF Agreement

(* A badge for a client, from serial_server_parent_vka_mint_endpoint(). *)
LEMMA MintAgrees ==
  ASSUME TypeOK, Agreement, NEW c \in Clients, NEW junk \in {NoWindow, Junk}, Mint(c, junk)
  PROVE  Agreement'
<1>1. PICK b \in 1 .. MaxEntries : BadgeAlloc(b, junk) /\ badge' = [badge EXCEPT ![c] = b]
  BY DEF Mint
<1>2. /\ ~Allocated(b) /\ Allocated(b)'
      /\ \A i : Allocated(i) => Allocated(i)' /\ registry'[i] = registry[i]
  BY <1>1, BadgeAllocated
<1>3. /\ conn \in [Clients -> ConnStates] /\ badge \in [Clients -> Nat]
      /\ mapped \subseteq Clients /\ ep \in Seq(Requests)
  BY DEF TypeOK
<1>4. mapped' = mapped /\ slots' = slots /\ ep' = ep
  BY DEF Mint
<1>5. /\ conn[c] \in {"none", "closed"} /\ conn'[c] = "minted"
      /\ \A d \in Clients \ {c} : conn'[d] = conn[d]
  BY <1>3 DEF Mint
<1>6. badge'[c] = b /\ \A d \in Clients \ {c} : badge'[d] = badge[d]
  BY <1>1, <1>3
<1>7. ConnectedRegistered'
  BY <1>2, <1>4, <1>5, <1>6 DEF Agreement, ConnectedRegistered
<1>8. BadgesUnique'
  <2>1. \A d \in Clients \ {c} : conn'[d] \in {"minted", "waiting", "connected"} =>
          Allocated(badge[d]) /\ badge[d] # b
    BY <1>2, <1>5 DEF Agreement, BadgesUnique
  <2>2. \A d \in Clients : conn'[d] \in {"minted", "waiting", "connected"} => Allocated(badge[d])'
    BY <1>2, <1>6, <2>1
  <2>3. \A d, e \in Clients \ {c} :
          /\ conn'[d] \in {"minted", "waiting", "connected"}
          /\ conn'[e] \in {"minted", "waiting", "connected"}
          /\ d # e
          => badge[d] # badge[e]
    BY <1>5 DEF Agreement, BadgesUnique
  <2> QED
    BY <1>6, <2>1, <2>2, <2>3 DEF BadgesUnique
<1>9. WindowsExact'
  <2>1. c \notin mapped
    BY <1>5 DEF Agreement, WindowsExact
  <2>2. \A d \in mapped : /\ conn'[d] \in {"connected", "waiting"}
                          /\ Allocated(badge[d])'
                          /\ registry'[badge'[d]].shmem = d
    BY <1>2, <1>3, <1>5, <1>6, <2>1 DEF Agreement, WindowsExact
  <2> QED
    BY <1>4, <2>2 DEF Agreement, WindowsExact
<1>10. RequestsSound'
  <2>1. \A k \in DOMAIN ep : ep[k].client \in Clients \ {c}
    <3> SUFFICES ASSUME NEW k \in DOMAIN ep
                 PROVE  ep[k].client \in Clients \ {c}
      OBVIOUS
    <3>1. ep[k] \in Requests
      BY <1>3
    <3>2. conn[ep[k].client] = "waiting"
      BY DEF Agreement, RequestsSound
    <3> QED
      BY <1>5, <3>1, <3>2 DEF Requests
  <2> QED
    BY <1>4, <1>5, <1>6, <2>1 DEF Agreement, RequestsSound
<1> QED
  BY <1>7, <1>8, <1>9, <1>10 DEF Agreement

(* serial_server_func_kill() unmaps every window. *)
LEMMA KillReleasesAll ==
  ASSUME TypeOK, Agreement, ServerTearsDown
  PROVE  Released'
<1> DEFINE windows == {registry[i].shmem : i \in TornDown}
<1>1. mapped \subseteq windows
  <2> SUFFICES ASSUME NEW c \in mapped
               PROVE  c \in windows
    OBVIOUS
  <2>1. Allocated(badge[c]) /\ registry[badge[c]].shmem = c
    BY DEF Agreement, WindowsExact
  <2>2. SizeOf(c) # 0
    BY SerialServerConfig DEF TypeOK, SizeOf
  <2>3. badge[c] \in TornDown
    BY <2>1, <2>2 DEF TornDown, Allocated
  <2> QED
    BY <2>1, <2>3
<1>2. mapped' = mapped \ windows /\ SlotsFreed(windows \cap mapped)
  BY DEF ServerTearsDown
<1> HIDE DEF windows
<1>3. mapped' = {} /\ SlotsFreed(mapped)
  <2>1. windows \cap mapped = mapped
    BY <1>1
  <2> QED
    BY <1>1, <1>2, <2>1
<1>4. Cardinality(UsedSlots) = Cardinality(mapped)
  BY DEF Agreement, WindowsExact, UsedSlots
<1> QED
  BY <1>3, <1>4, SlotsFollow DEF Released

-----------------------------------------------------------------------------
(* Types                                                                   *)

(* What serial_server_func_kill() leaves of the registry is one still. *)
LEMMA TornDownTyped ==
  ASSUME TypeOK, ServerTearsDown
  PROVE  registry' \in Seq(Entries) /\ \A i \in DOMAIN registry' : registry'[i].badge \in {0, i}
<1>1. /\ registry \in Seq(Entries) /\ \A i \in DOMAIN registry : registry[i].badge \in {0, i}
      /\ DOMAIN registry = 1 .. Len(registry) /\ Len(registry) \in Nat
  BY DEF TypeOK
<1>2. registry' = [i \in DOMAIN registry |->
                     IF i \in TornDown THEN [registry[i] EXCEPT !.badge = 0] ELSE registry[i]]
  BY DEF ServerTearsDown
<1>3. ASSUME NEW i \in DOMAIN registry
      PROVE  registry'[i] \in Entries /\ registry'[i].badge \in {0, i}
  <2>1. registry[i] \in Entries /\ registry[i].badge \in {0, i}
    BY <1>1
  <2>2. [registry[i] EXCEPT !.badge = 0] \in Entries /\ [registry[i] EXCEPT !.badge = 0].badge = 0
    BY <2>1 DEF Entries
  <2> QED
    BY <1>2, <2>1, <2>2
<1>4. DOMAIN registry' = 1 .. Len(registry) /\ registry' = [i \in 1 .. Len(registry) |-> registry'[i]]
  BY <1>1, <1>2
<1>5. registry' \in [1 .. Len(registry) -> Entries]
  BY <1>1, <1>3, <1>4
<1> QED
  BY <1>1, <1>3, <1>4, <1>5

(* Freeing slots keeps them slots. *)
LEMMA FreedTyped ==
  ASSUME TypeOK, NEW windows, SlotsFreed(windows)
  PROVE  slots' \in [Slots -> {"free", "used", "full", "lost"}]
BY DEF TypeOK, SlotsFreed

(* A call that is sent is a request, and its sender waits. *)
LEMMA SendTyped ==
  ASSUME TypeOK, NEW c \in Clients, NEW func \in {"connect", "write", "disconnect", "kill"},
         NEW arg \in Nat, Sends(c, func, arg)
  PROVE  ep' \in Seq(Requests) /\ conn' \in [Clients -> ConnStates]
<1>1. conn \in [Clients -> ConnStates] /\ badge \in [Clients -> Nat] /\ ep \in Seq(Requests)
  BY DEF TypeOK
<1>2. PICK m : m = [client |-> c, badge |-> badge[c], func |-> func, arg |-> arg, back |-> conn[c]]
  OBVIOUS
<1>3. m \in Requests
  BY <1>1, <1>2 DEF Requests
<1>4. ep' = Append(ep, m) /\ conn' = [conn EXCEPT ![c] = "waiting"]
  BY <1>2 DEF Sends
<1> QED
  BY <1>1, <1>3, <1>4 DEF ConnStates

(* Every call a client sends, with what it sends and in which state. *)
LEMMA ClientCall ==
  ASSUME NEW c \in Clients,
         ClientConnects(c) \/ ClientWrites(c) \/ ClientDisconnects(c) \/ ClientKills(c)
  PROVE  \E func \in {"connect", "write", "disconnect", "kill"}, arg \in Nat :
           /\ Sends(c, func, arg)
           /\ orderly => IF func = "connect" THEN conn[c] = "minted" ELSE conn[c] = "connected"
<1>1. CASE ClientConnects(c)
  <2>1. PICK pages \in AskPages : Sends(c, "connect", pages)
    BY <1>1 DEF ClientConnects
  <2>2. pages \in Nat
    BY SerialServerConfig
  <2> QED
    BY <1>1, <2>1, <2>2 DEF ClientConnects
<1>2. CASE ClientWrites(c)
  <2>1. PICK len \in {0, 1} : Sends(c, "write", len)
    BY <1>2 DEF ClientWrites
  <2> QED
    BY <1>2, <2>1 DEF ClientWrites, Connected
<1>3. CASE ClientDisconnects(c)
  <2>1. Sends(c, "disconnect", 0) /\ (orderly => conn[c] = "connected")
    BY <1>3 DEF ClientDisconnects, Connected
  <2> QED
    BY <2>1
<1>4. CASE ClientKills(c)
  <2>1. Sends(c, "kill", 0) /\ (orderly => conn[c] = "connected")
    BY <1>4 DEF ClientKills, Connected
  <2> QED
    BY <2>1
<1> QED
  BY <1>1, <1>2, <1>3, <1>4

(* An answer keeps the clients' and the queue's types. *)
LEMMA ReplyTyped ==
  ASSUME TypeOK, NEW func, Serves(func), NEW state \in ConnStates, Replies(state)
  PROVE  /\ ep' \in Seq(Requests) /\ conn' \in [Clients -> ConnStates]
         /\ badge' \in [Clients -> Nat] /\ parent' = parent
<1>1. conn \in [Clients -> ConnStates] /\ badge \in [Clients -> Nat]
  BY DEF TypeOK
<1>2. ep # <<>> /\ ep' = Tail(ep) /\ badge' = badge /\ parent' = parent
  BY DEF Serves, ParentState
<1> QED
  BY <1>1, <1>2, HeadAndTail DEF Replies

(* Next keeps the types. *)
LEMMA StepTyped ==
  ASSUME TypeOK, Next
  PROVE  TypeOK'
<1>1. ASSUME NEW junk \in {NoWindow, Junk}, ParentSpawns(junk)
      PROVE  TypeOK'
  <2>1. registry' \in Seq(Entries) /\ \A i \in DOMAIN registry' : registry'[i].badge \in {0, i}
    BY <1>1, BadgeAllocated DEF ParentSpawns
  <2> QED
    BY <1>1, <2>1 DEF TypeOK, ParentSpawns
<1>2. ASSUME NEW junk \in {NoWindow, Junk}, NEW c \in Clients, Mint(c, junk)
      PROVE  TypeOK'
  <2>1. PICK b \in 1 .. MaxEntries : BadgeAlloc(b, junk) /\ badge' = [badge EXCEPT ![c] = b]
    BY <1>2 DEF Mint
  <2>2. /\ registry' \in Seq(Entries) /\ \A i \in DOMAIN registry' : registry'[i].badge \in {0, i}
        /\ b \in Nat
    BY <2>1, BadgeAllocated
  <2>3. badge' \in [Clients -> Nat] /\ conn' \in [Clients -> ConnStates]
    BY <1>2, <2>1, <2>2 DEF TypeOK, Mint, ConnStates
  <2> QED
    BY <1>2, <2>2, <2>3 DEF TypeOK, Mint
<1>3. CASE ParentReady
  <2>1. registry' \in Seq(Entries) /\ \A i \in DOMAIN registry' : registry'[i].badge \in {0, i}
    <3>1. CASE parent = "synced"
      BY <1>3, <3>1 DEF ParentReady, TypeOK
    <3>2. CASE parent # "synced"
      BY <1>3, <3>2, EntryFreed DEF ParentReady
    <3> QED
      BY <3>1, <3>2
  <2>2. parent' \in {"up", "down"}
    BY <1>3 DEF ParentReady
  <2> QED
    BY <1>3, <2>1, <2>2 DEF TypeOK, ParentReady
<1>4. ASSUME NEW c \in Clients,
             ClientConnects(c) \/ ClientWrites(c) \/ ClientDisconnects(c) \/ ClientKills(c)
      PROVE  TypeOK'
  <2>1. PICK func \in {"connect", "write", "disconnect", "kill"}, arg \in Nat : Sends(c, func, arg)
    BY <1>4, ClientCall
  <2>2. ep' \in Seq(Requests) /\ conn' \in [Clients -> ConnStates]
    BY <2>1, SendTyped
  <2> QED
    BY <2>1, <2>2 DEF TypeOK, Sends, ServerState, ParentState
<1>5. CASE ServerBinds
  BY <1>5 DEF TypeOK, ServerBinds, ServerState
<1>6. CASE ServerIgnores
  <2>1. ep' \in Seq(Requests)
    BY <1>6, HeadAndTail DEF ServerIgnores
  <2> QED
    BY <1>6, <2>1 DEF TypeOK, ServerIgnores, ServerState, ParentState
<1>7. CASE ConnectRefused
  <2>1. Request.back \in ConnStates
    BY <1>7, HeadAndTail DEF ConnectRefused, Serves
  <2>2. /\ ep' \in Seq(Requests) /\ conn' \in [Clients -> ConnStates]
        /\ badge' \in [Clients -> Nat] /\ parent' = parent
    BY <1>7, <2>1, ReplyTyped DEF ConnectRefused
  <2> QED
    BY <1>7, <2>2 DEF TypeOK, ConnectRefused
<1>8. ASSUME NEW s \in Slots, ConnectMoveFails(s) \/ ConnectMapFails(s)
      PROVE  TypeOK'
  <2>1. Serves("connect") /\ Replies(Request.back)
    BY <1>8 DEF ConnectMoveFails, ConnectMapFails
  <2>2. Request.back \in ConnStates
    BY <2>1, HeadAndTail DEF Serves
  <2>3. /\ ep' \in Seq(Requests) /\ conn' \in [Clients -> ConnStates]
        /\ badge' \in [Clients -> Nat] /\ parent' = parent
    BY <2>1, <2>2, ReplyTyped
  <2>4. /\ slots' \in [Slots -> {"free", "used", "full", "lost"}]
        /\ server' = server /\ registry' = registry /\ mapped' = mapped
    BY <1>8 DEF TypeOK, ConnectMoveFails, ConnectMapFails
  <2> QED
    BY <2>3, <2>4 DEF TypeOK
<1>9. ASSUME NEW s \in Slots, ConnectAccepted(s)
      PROVE  TypeOK'
  <2>1. Request.client \in Clients
    BY <1>9, HeadAndTail DEF ConnectAccepted, Serves
  <2>2. /\ ep' \in Seq(Requests) /\ conn' \in [Clients -> ConnStates]
        /\ badge' \in [Clients -> Nat] /\ parent' = parent
    BY <1>9, ReplyTyped DEF ConnectAccepted, ConnStates
  <2>3. registry' \in Seq(Entries) /\ \A i \in DOMAIN registry' : registry'[i].badge \in {0, i}
    BY <1>9, <2>1, EntryInserted DEF ConnectAccepted, Acceptable
  <2>4. /\ slots' \in [Slots -> {"free", "used", "full", "lost"}]
        /\ server' = server /\ mapped' \subseteq Clients
    BY <1>9, <2>1 DEF TypeOK, ConnectAccepted
  <2> QED
    BY <2>2, <2>3, <2>4 DEF TypeOK
<1>10. CASE ServerWrites
  <2>1. Serves("write") /\ Replies(Request.back)
    BY <1>10 DEF ServerWrites
  <2>2. Request.back \in ConnStates
    BY <2>1, HeadAndTail DEF Serves
  <2>3. /\ ep' \in Seq(Requests) /\ conn' \in [Clients -> ConnStates]
        /\ badge' \in [Clients -> Nat] /\ parent' = parent
    BY <2>1, <2>2, ReplyTyped
  <2> QED
    BY <1>10, <2>3 DEF TypeOK, ServerWrites, ServerState
<1>11. CASE ServerDisconnects
  <2>1. /\ ep' \in Seq(Requests) /\ conn' \in [Clients -> ConnStates]
        /\ badge' \in [Clients -> Nat] /\ parent' = parent
    BY <1>11, ReplyTyped DEF ServerDisconnects, ConnStates
  <2>2. registry' \in Seq(Entries) /\ \A i \in DOMAIN registry' : registry'[i].badge \in {0, i}
    BY <1>11, EntryFreed DEF ServerDisconnects
  <2>3. slots' \in [Slots -> {"free", "used", "full", "lost"}]
    BY <1>11, FreedTyped DEF ServerDisconnects
  <2> QED
    BY <1>11, <2>1, <2>2, <2>3 DEF TypeOK, ServerDisconnects
<1>12. CASE ServerKilled
  <2>1. Serves("kill") /\ Replies(Request.back)
    BY <1>12 DEF ServerKilled
  <2>2. Request.back \in ConnStates
    BY <2>1, HeadAndTail DEF Serves
  <2>3. /\ ep' \in Seq(Requests) /\ conn' \in [Clients -> ConnStates]
        /\ badge' \in [Clients -> Nat] /\ parent' = parent
    BY <2>1, <2>2, ReplyTyped
  <2> QED
    BY <1>12, <2>3 DEF TypeOK, ServerKilled, ServerState
<1>13. CASE ServerTearsDown
  <2>1. slots' \in [Slots -> {"free", "used", "full", "lost"}]
    BY <1>13, FreedTyped DEF ServerTearsDown
  <2>2. mapped' \subseteq Clients
    BY <1>13 DEF ServerTearsDown, TypeOK
  <2> QED
    BY <1>13, <2>1, <2>2, TornDownTyped DEF TypeOK, ServerTearsDown, ParentState
<1> QED
  BY <1>1, <1>2, <1>3, <1>4, <1>5, <1>6, <1>7, <1>8, <1>9, <1>10, <1>11, <1>12, <1>13
     DEF Next, ServerStep

-----------------------------------------------------------------------------
(* The inductive invariant                                                 *)

(* The parent and the server start in order. *)
LEMMA StepStarts ==
  ASSUME Startup, Next
  PROVE  Startup'
<1>1. ASSUME NEW junk \in {NoWindow, Junk}, ParentSpawns(junk)
      PROVE  Startup'
  BY <1>1 DEF Startup, ParentSpawns
<1>2. ASSUME NEW junk \in {NoWindow, Junk}, NEW c \in Clients, Mint(c, junk)
      PROVE  Startup'
  BY <1>2 DEF Startup, Mint
<1>3. CASE ParentReady
  BY <1>3 DEF Startup, ParentReady
<1>4. ASSUME NEW c \in Clients,
             ClientConnects(c) \/ ClientWrites(c) \/ ClientDisconnects(c) \/ ClientKills(c)
      PROVE  Startup'
  <2>1. PICK func, arg : Sends(c, func, arg)
    BY <1>4, ClientCall
  <2> QED
    BY <2>1 DEF Startup, Sends, ServerState, ParentState
<1>5. CASE ServerBinds
  BY <1>5 DEF Startup, ServerBinds
<1>6. CASE ServerIgnores
  BY <1>6 DEF Startup, ServerIgnores, ServerState, ParentState
<1>7. CASE \E func : Serves(func) /\ server' \in {"serving", "killed"}
  BY <1>7 DEF Startup, Serves, ParentState
<1>8. CASE ConnectRefused \/ ServerWrites \/ ServerDisconnects \/ ServerKilled
             \/ \E s \in Slots : ConnectMoveFails(s) \/ ConnectMapFails(s) \/ ConnectAccepted(s)
  <2>1. \E func : Serves(func) /\ server' \in {"serving", "killed"}
    BY <1>8 DEF ConnectRefused, ServerWrites, ServerDisconnects, ServerKilled, ConnectMoveFails,
                ConnectMapFails, ConnectAccepted, Serves
  <2> QED
    BY <1>7, <2>1
<1>9. CASE ServerTearsDown
  BY <1>9 DEF Startup, ServerTearsDown, ParentState
<1> QED
  BY <1>1, <1>2, <1>3, <1>4, <1>5, <1>6, <1>8, <1>9 DEF Next, ServerStep

(* What a step prints or unmaps is its client's own. *)
LEMMA StepPrintsOwn ==
  ASSUME TypeOK, OwnOutput, orderly /\ server # "stopped" => Agreement, Next, orderly' = orderly
  PROVE  OwnOutput'
<1>1. CASE output' = output
  BY <1>1 DEF OwnOutput
<1>2. ASSUME NEW junk \in {NoWindow, Junk}, ParentSpawns(junk)
      PROVE  OwnOutput'
  BY <1>1, <1>2 DEF ParentSpawns
<1>3. ASSUME NEW junk \in {NoWindow, Junk}, NEW c \in Clients, Mint(c, junk)
      PROVE  OwnOutput'
  BY <1>1, <1>3 DEF Mint
<1>4. CASE ParentReady
  BY <1>1, <1>4 DEF ParentReady
<1>5. ASSUME NEW c \in Clients,
             ClientConnects(c) \/ ClientWrites(c) \/ ClientDisconnects(c) \/ ClientKills(c)
      PROVE  OwnOutput'
  <2>1. PICK func, arg : Sends(c, func, arg)
    BY <1>5, ClientCall
  <2> QED
    BY <1>1, <2>1 DEF Sends
<1>6. CASE ServerBinds \/ ServerIgnores \/ ConnectRefused \/ ServerKilled
             \/ \E s \in Slots : ConnectMoveFails(s) \/ ConnectMapFails(s) \/ ConnectAccepted(s)
  BY <1>1, <1>6 DEF ServerBinds, ServerIgnores, ConnectRefused, ServerKilled, ConnectMoveFails,
                    ConnectMapFails, ConnectAccepted
<1>7. CASE ServerWrites \/ ServerDisconnects
  <2>1. output' = output \/ Touches({Entry.shmem})
    BY <1>7 DEF ServerWrites, ServerDisconnects
  <2>2. server = "serving" /\ ep # <<>> /\ Request.func # "connect"
    BY <1>7 DEF ServerWrites, ServerDisconnects, Serves
  <2>3. CASE Touches({Entry.shmem})
    <3>1. output'.by = Request.client /\ output'.windows = {Entry.shmem}
          /\ output'.there = {Entry.shmem} \cap mapped
      BY <2>3 DEF Touches
    <3>2. ASSUME orderly
          PROVE  Entry.shmem = Request.client /\ Request.client \in mapped
      BY <2>2, <3>2, ServedRequest
    <3> QED
      BY <3>1, <3>2 DEF OwnOutput
  <2> QED
    BY <1>1, <2>1, <2>3
<1>8. CASE ServerTearsDown
  <2>1. output'.by = NoWindow
    BY <1>8 DEF ServerTearsDown
  <2>2. NoWindow \notin Clients
    BY SerialServerConfig
  <2> QED
    BY <2>1, <2>2 DEF OwnOutput
<1> QED
  BY <1>2, <1>3, <1>4, <1>5, <1>6, <1>7, <1>8 DEF Next, ServerStep

(* A stopped server touches nothing any more. *)
LEMMA StoppedReleased ==
  ASSUME TypeOK, Startup, server = "stopped", Released, Next
  PROVE  server' = "stopped" /\ Released'
<1>1. CASE server' = server /\ mapped' = mapped /\ slots' = slots
  BY <1>1 DEF Released
<1>2. ASSUME NEW junk \in {NoWindow, Junk}, ParentSpawns(junk)
      PROVE  FALSE
  BY <1>2 DEF Startup, ParentSpawns
<1>3. ASSUME NEW junk \in {NoWindow, Junk}, NEW c \in Clients, Mint(c, junk)
      PROVE  server' = "stopped" /\ Released'
  BY <1>1, <1>3 DEF Mint
<1>4. CASE ParentReady
  BY <1>1, <1>4 DEF ParentReady
<1>5. ASSUME NEW c \in Clients,
             ClientConnects(c) \/ ClientWrites(c) \/ ClientDisconnects(c) \/ ClientKills(c)
      PROVE  server' = "stopped" /\ Released'
  <2>1. PICK func, arg : Sends(c, func, arg)
    BY <1>5, ClientCall
  <2> QED
    BY <1>1, <2>1 DEF Sends, ServerState
<1>6. ~ServerStep
  BY DEF ServerStep, ServerBinds, ServerIgnores, ConnectRefused, ConnectMoveFails, ConnectMapFails,
         ConnectAccepted, ServerWrites, ServerDisconnects, ServerKilled, ServerTearsDown, Serves
<1> QED
  BY <1>2, <1>3, <1>4, <1>5, <1>6 DEF Next

(* Whatever a server that has not stopped, its parent or a client does, they *)
(* go on agreeing, or the server has stopped and released everything.       *)
LEMMA StepAgrees ==
  ASSUME TypeOK, Startup, orderly, server # "stopped", Agreement, Next
  PROVE  IF server' = "stopped" THEN Released' ELSE Agreement'
<1>1. ASSUME NEW junk \in {NoWindow, Junk}, ParentSpawns(junk)
      PROVE  Agreement' /\ server' # "stopped"
  BY <1>1, SpawnAgrees DEF ParentSpawns
<1>2. ASSUME NEW junk \in {NoWindow, Junk}, NEW c \in Clients, Mint(c, junk)
      PROVE  Agreement' /\ server' # "stopped"
  BY <1>2, MintAgrees DEF Mint
<1>3. ASSUME UNCHANGED <<registry, mapped, slots, ep, conn, badge>>
      PROVE  Agreement'
  BY <1>3 DEF Agreement, ConnectedRegistered, BadgesUnique, WindowsExact, RequestsSound, Allocated
<1>4. CASE ParentReady
  <2>1. parent = "synced"
    BY <1>4 DEF Startup, ParentReady
  <2>2. server' # "stopped" /\ UNCHANGED <<registry, mapped, slots, ep, conn, badge>>
    BY <1>4, <2>1 DEF ParentReady
  <2>3. Agreement'
    BY <1>3, <2>2
  <2> QED
    BY <2>2, <2>3
<1>5. ASSUME NEW c \in Clients,
             ClientConnects(c) \/ ClientWrites(c) \/ ClientDisconnects(c) \/ ClientKills(c)
      PROVE  Agreement' /\ server' # "stopped"
  <2>1. PICK func, arg : /\ Sends(c, func, arg)
                         /\ IF func = "connect" THEN conn[c] = "minted" ELSE conn[c] = "connected"
    BY <1>5, ClientCall
  <2> QED
    BY <2>1, SendAgrees DEF Sends
<1>6. CASE ServerBinds
  <2>1. mapped = {} /\ UNCHANGED <<registry, mapped, slots, ep, conn, badge>>
    BY <1>6 DEF ServerBinds, Startup, ServerState
  <2>2. Agreement'
    BY <1>3, <2>1
  <2>3. UsedSlots = {}
    <3>1. IsFiniteSet(UsedSlots)
      BY Counted
    <3>2. Cardinality(UsedSlots) = 0
      BY <2>1, FS_EmptySet DEF Agreement, WindowsExact, UsedSlots
    <3> QED
      BY <3>1, <3>2, FS_EmptySet
  <2>4. Released'
    BY <2>1, <2>3 DEF Released, UsedSlots
  <2> QED
    BY <2>2, <2>4
<1>7. ~ServerIgnores
  BY ServedRequest DEF ServerIgnores
<1>8. CASE ConnectRefused \/ ServerWrites \/ ServerKilled
             \/ \E s \in Slots : ConnectMoveFails(s) \/ ConnectMapFails(s)
  <2>1. /\ ep # <<>> /\ ep' = Tail(ep) /\ Replies(Request.back)
        /\ registry' = registry /\ mapped' = mapped /\ badge' = badge
        /\ server' # "stopped"
    BY <1>8 DEF ConnectRefused, ServerWrites, ServerKilled, ConnectMoveFails, ConnectMapFails,
                Serves, ServerState, ParentState
  <2>2. UsedSlots' = UsedSlots
    <3>1. CASE slots' = slots
      BY <3>1 DEF UsedSlots
    <3>2. CASE \E s \in Slots : ConnectMoveFails(s) \/ ConnectMapFails(s)
      <4>1. PICK s \in Slots : /\ slots[s] \in {"full", "free"}
                               /\ \/ slots' = [slots EXCEPT ![s] = "lost"]
                                  \/ slots' = [slots EXCEPT ![s] = "full"]
        BY <3>2 DEF ConnectMoveFails, ConnectMapFails
      <4>2. slots \in [Slots -> {"free", "used", "full", "lost"}]
        BY DEF TypeOK
      <4> QED
        BY <4>1, <4>2 DEF UsedSlots
    <3> QED
      BY <1>8, <3>1, <3>2 DEF ConnectRefused, ServerWrites, ServerKilled, ServerState
  <2>3. Agreement'
    BY <2>1, <2>2, AnswerAgrees
  <2> QED
    BY <2>1, <2>3
<1>9. ASSUME NEW s \in Slots, ConnectAccepted(s)
      PROVE  Agreement' /\ server' # "stopped"
  BY <1>9, AcceptedAgrees DEF ConnectAccepted
<1>10. CASE ServerDisconnects
  <2>1. Agreement' /\ server' # "stopped"
    BY <1>10, DisconnectAgrees DEF ServerDisconnects
  <2> QED
    BY <2>1
<1>11. CASE ServerTearsDown
  <2>1. Released' /\ server' = "stopped"
    BY <1>11, KillReleasesAll DEF ServerTearsDown
  <2> QED
    BY <2>1
<1> QED
  BY <1>1, <1>2, <1>4, <1>5, <1>6, <1>7, <1>8, <1>9, <1>10, <1>11 DEF Next, ServerStep

(* SerialInv holds to begin with: nothing is mapped, in use or connected. *)
LEMMA SerialStart ==
  ASSUME Init
  PROVE  SerialInv
<1>1. TypeOK
  BY DEF Init, TypeOK, ConnStates, Requests, Entries
<1>2. Startup
  BY DEF Init, Startup
<1>3. UsedSlots = {}
  BY DEF Init, UsedSlots
<1>4. WindowsExact
  BY <1>3, FS_EmptySet DEF Init, WindowsExact, UsedSlots
<1>5. ConnectedRegistered /\ BadgesUnique /\ RequestsSound
  BY DEF Init, ConnectedRegistered, BadgesUnique, RequestsSound
<1>6. OwnOutput
  BY SerialServerConfig DEF Init, Nothing, OwnOutput
<1> QED
  BY <1>1, <1>2, <1>4, <1>5, <1>6 DEF SerialInv, Agreement, Init

(* Every step keeps SerialInv. *)
LEMMA SerialStep ==
  ASSUME SerialInv, [Next /\ UNCHANGED orderly]_<<vars, orderly>>
  PROVE  SerialInv'
<1>1. CASE UNCHANGED <<vars, orderly>>
  BY <1>1 DEF SerialInv, vars, TypeOK, Startup, Released, OwnOutput, Agreement, ConnectedRegistered,
              BadgesUnique, WindowsExact, RequestsSound, Allocated
<1>2. CASE Next /\ UNCHANGED orderly
  <2>1. TypeOK'
    BY <1>2, StepTyped DEF SerialInv
  <2>2. Startup'
    BY <1>2, StepStarts DEF SerialInv
  <2>3. OwnOutput'
    BY <1>2, StepPrintsOwn DEF SerialInv
  <2>4. ASSUME orderly
        PROVE  IF server' = "stopped" THEN Released' ELSE Agreement'
    <3>1. CASE server = "stopped"
      <4>1. server' = "stopped" /\ Released'
        BY <1>2, <2>4, <3>1, StoppedReleased DEF SerialInv
      <4> QED
        BY <4>1
    <3>2. CASE server # "stopped"
      BY <1>2, <2>4, <3>2, StepAgrees DEF SerialInv
    <3> QED
      BY <3>1, <3>2
  <2> QED
    BY <1>2, <2>1, <2>2, <2>3, <2>4 DEF SerialInv
<1> QED
  BY <1>1, <1>2

(* SerialInv always holds. *)
THEOREM SerialInvariant == Spec => []SerialInv
<1>1. Init => SerialInv
  BY SerialStart
<1>2. SerialInv /\ [Next /\ UNCHANGED orderly]_<<vars, orderly>> => SerialInv'
  BY SerialStep
<1> QED
  BY <1>1, <1>2, PTL DEF Spec

(* While clients use no connection they have closed, the server's registry, *)
(* its mappings and slots and what clients believe of their connections     *)
(* agree, wherever serial_server_func_connect() fails and whichever badges  *)
(* are used again, and once serial_server_func_kill() has run nothing of    *)
(* the clients is mapped or in use.                                         *)
THEOREM RegistryAlwaysExact == Spec => []RegistryExact
<1>1. SerialInv => RegistryExact
  BY DEF SerialInv, RegistryExact, ConnectionsExact, KillReleases, Agreement, Released
<1> QED
  BY <1>1, SerialInvariant, PTL

(* serial_server_func_write() prints the window of the client that asked,   *)
(* which is mapped, though badges are used again for other clients.         *)
THEOREM OutputAlwaysOwn == Spec => []OwnOutput
<1>1. SerialInv => OwnOutput
  BY DEF SerialInv
<1> QED
  BY <1>1, SerialInvariant, PTL

===============================================================================
