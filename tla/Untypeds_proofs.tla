-------------------------- MODULE Untypeds_proofs --------------------------
(***************************************************************************)
(* Proofs about SplitUtspace and Bootstrap.                                *)
(*                                                                         *)
(* SplitUtspace, for any untypeds, of any sizes and anywhere, and any      *)
(* order of calls: UntypedsExact and FullyMerged.  The nodes form binary   *)
(* trees, and the nodes that are free or handed out tile the memory given. *)
(* Splitting a node down to an address replaces it by a chain: the node    *)
(* reached, and the sibling of every node on the way.  Merging replaces a  *)
(* chain by the node at its top.  What the lists hold follows from what a  *)
(* step takes out of them and puts in.                                     *)
(*                                                                         *)
(* Bootstrap, for any layout of the boot CSpace and any sizes of CNodes:   *)
(* CapsInPlace.  The boot slots that are used lie behind everything that   *)
(* was there, and so do the slots of the new allocator behind everything   *)
(* that is listed; so a listed capability stays where it is until it is    *)
(* moved, and its place in the new CSpace is kept for it.                  *)
(***************************************************************************)
EXTENDS SplitUtspace, Bootstrap, FiniteSetTheorems, SequenceTheorems, WellFoundedInduction, TLAPS

-----------------------------------------------------------------------------
(* Arithmetic                                                              *)

(* A set of naturals has a least element, and a bounded one a greatest. *)
LEMMA LeastNat ==
  ASSUME NEW S \in SUBSET Nat, S # {}
  PROVE  \E x \in S : \A y \in S : x <= y
<1>1. PICK x \in S : \A y \in S : ~ (<<y, x>> \in OpToRel(<, Nat))
  BY WFMin, NatLessThanWellFounded
<1>2. ASSUME NEW y \in S, y < x
      PROVE  <<y, x>> \in OpToRel(<, Nat)
  <2>1. <<y, x>> \in Nat \X Nat
    OBVIOUS
  <2>2. <<y, x>>[1] < <<y, x>>[2]
    BY <1>2
  <2> QED
    BY <2>1, <2>2, Zenon DEF OpToRel
<1>3. \A y \in S : ~ (y < x)
  BY <1>1, <1>2
<1> QED
  BY <1>3

(* Min and Max of FiniteSetsExt return them. *)
LEMMA MinIsLeast ==
  ASSUME NEW S \in SUBSET Nat, S # {}
  PROVE  Min(S) \in S
BY LeastNat DEF Min

(* Division by a positive number. *)
LEMMA DivMod ==
  ASSUME NEW d \in Nat \ {0}, NEW a \in Int
  PROVE  a = d * (a \div d) + (a % d) /\ a % d \in 0 .. d - 1 /\ a \div d \in Int
OBVIOUS

(* The remainder is the only number of its kind. *)
LEMMA ModUnique ==
  ASSUME NEW d \in Nat \ {0}, NEW k \in Int, NEW r \in 0 .. d - 1
  PROVE  (k * d + r) % d = r
<1> DEFINE a == k * d + r
           q == a \div d
<1>1. a \in Int
  OBVIOUS
<1> HIDE DEF a
<1>2. a = d * q + (a % d) /\ a % d \in 0 .. d - 1 /\ q \in Int
  BY <1>1, DivMod
<1> HIDE DEF q
<1>3. PICK m : m = a % d
  OBVIOUS
<1>4. k * d + r = q * d + m /\ m \in 0 .. d - 1
  BY <1>2, <1>3 DEF a
<1>5. ~(q < k)
  <2> SUFFICES ASSUME q < k
               PROVE  FALSE
    OBVIOUS
  <2>1. k - q >= 1
    BY <1>2
  <2>2. (k - q) * d >= d
    BY <1>2, <2>1
  <2> QED
    BY <1>2, <1>4, <2>2
<1>6. ~(q > k)
  <2> SUFFICES ASSUME q > k
               PROVE  FALSE
    OBVIOUS
  <2>1. q - k >= 1
    BY <1>2
  <2>2. (q - k) * d >= d
    BY <1>2, <2>1
  <2> QED
    BY <1>2, <1>4, <2>2
<1>7. q = k
  BY <1>2, <1>5, <1>6
<1>8. m = r
  BY <1>2, <1>7, <1>4
<1> QED
  BY <1>3, <1>8 DEF a

(* A multiple is aligned, and the other way round. *)
LEMMA Multiple ==
  ASSUME NEW d \in Nat \ {0}, NEW a \in Int
  PROVE  a % d = 0 <=> \E k \in Int : a = k * d
<1>1. ASSUME a % d = 0
      PROVE  \E k \in Int : a = k * d
  <2>1. a = d * (a \div d) /\ a \div d \in Int
    BY <1>1, DivMod
  <2> QED
    BY <2>1
<1>2. ASSUME NEW k \in Int, a = k * d
      PROVE  a % d = 0
  <2>1. (k * d + 0) % d = 0
    BY ModUnique
  <2> QED
    BY <1>2, <2>1
<1> QED
  BY <1>1, <1>2


-----------------------------------------------------------------------------
(* The binary tree of memory                                               *)

(* An untyped is not empty. *)
LEMMA BitsPositive ==
  ASSUME NEW b \in 0 .. MaxBits + 1
  PROVE  BIT[b] \in Nat \ {0} /\ MaxBits \in Nat
<1> DEFINE S == {c \in 0 .. MaxBits + 1 : ~(BIT[c] > 0)}
<1>1. MaxBits \in Nat /\ BIT \in [0 .. MaxBits + 1 -> Nat]
  BY BitsDouble
<1> SUFFICES ASSUME S # {}
             PROVE  FALSE
  BY <1>1
<1>2. PICK c \in S : \A d \in S : c <= d
  <2>1. S \in SUBSET Nat
    BY <1>1
  <2> HIDE DEF S
  <2> QED
    BY <2>1, LeastNat
<1>3. c # 0
  BY BitsDouble
<1>4. c - 1 \in 0 .. MaxBits /\ c - 1 \notin S
  BY <1>1, <1>2, <1>3
<1>5. BIT[c] = 2 * BIT[c - 1]
  <2>1. BIT[(c - 1) + 1] = 2 * BIT[c - 1]
    BY <1>4, BitsDouble DEF Sizes
  <2> QED
    BY <1>1, <1>2, <2>1
<1>6. BIT[c - 1] \in Nat /\ BIT[c - 1] > 0 /\ BIT[c] \in Nat
  BY <1>1, <1>4
<1> QED
  BY <1>2, <1>5, <1>6

(* A larger untyped is twice the one a size below, or more. *)
LEMMA BitsGrow ==
  ASSUME NEW b \in 0 .. MaxBits + 1, NEW c \in 0 .. MaxBits + 1, b < c
  PROVE  BIT[b] < BIT[c]
<1> DEFINE S == {d \in 0 .. MaxBits + 1 : b < d /\ ~(BIT[b] < BIT[d])}
<1>1. MaxBits \in Nat /\ \A d \in 0 .. MaxBits + 1 : BIT[d] \in Nat \ {0}
  BY BitsPositive
<1> SUFFICES ASSUME S # {}
             PROVE  FALSE
  BY <1>1
<1>2. PICK d \in S : \A e \in S : d <= e
  <2>1. S \in SUBSET Nat
    BY <1>1
  <2> HIDE DEF S
  <2> QED
    BY <2>1, LeastNat
<1>3. d - 1 \in 0 .. MaxBits /\ d - 1 \notin S /\ b <= d - 1
  BY <1>1, <1>2
<1>4. BIT[d] = 2 * BIT[d - 1]
  <2>1. BIT[(d - 1) + 1] = 2 * BIT[d - 1]
    BY <1>3, BitsDouble DEF Sizes
  <2> QED
    BY <1>1, <1>2, <2>1
<1>5. BIT[d - 1] \in Nat \ {0} /\ BIT[b] \in Nat \ {0} /\ BIT[d] \in Nat \ {0}
  BY <1>1, <1>2, <1>3
<1>6. BIT[b] <= BIT[d - 1]
  <2>1. CASE b = d - 1
    BY <2>1, <1>5
  <2>2. CASE b < d - 1
    BY <1>1, <1>3, <2>2, <1>5
  <2> QED
    BY <2>1, <2>2, <1>3
<1> QED
  BY <1>2, <1>4, <1>5, <1>6

(* The nodes of the tree: as large as their size says, and aligned. *)
Dyadic(n) ==
  /\ n = Node(n.addr, n.size)
  /\ n.size \in 0 .. MaxBits + 1
  /\ n.addr \in Nat
  /\ n.addr % BIT[n.size] = 0

(* The fields of a node. *)
LEMMA NodeFields ==
  ASSUME NEW a, NEW b
  PROVE  Node(a, b).addr = a /\ Node(a, b).size = b
BY DEF Node

(* Rounding down. *)
LEMMA RoundDown ==
  ASSUME NEW d \in Nat \ {0}, NEW a \in Nat
  PROVE  LET x == (a \div d) * d IN
         x \in Nat /\ x % d = 0 /\ x <= a /\ a < x + d
<1>1. PICK q \in Int, m \in 0 .. d - 1 : a = d * q + m /\ q = a \div d
  BY DivMod
<1>2. ~(q < 0)
  <2> SUFFICES ASSUME q < 0
               PROVE  FALSE
    OBVIOUS
  <2>1. (0 - q) * d >= d
    OBVIOUS
  <2> QED
    BY <1>1, <2>1
<1>3. q * d \in Nat
  BY <1>2
<1>4. (q * d) % d = 0
  BY <1>3, Multiple
<1>5. q * d <= a /\ a < q * d + d
  BY <1>1
<1> QED
  BY <1>1, <1>3, <1>4, <1>5

(* There is one multiple to round down to. *)
LEMMA RoundUnique ==
  ASSUME NEW d \in Nat \ {0}, NEW a \in Nat, NEW x \in Nat, x % d = 0, x <= a, a < x + d
  PROVE  x = (a \div d) * d
<1>1. PICK q \in Int, m \in 0 .. d - 1 : a = d * q + m /\ q = a \div d
  BY DivMod
<1>2. PICK k \in Int : x = k * d
  BY Multiple
<1>3. ~(q < k)
  <2> SUFFICES ASSUME q < k
               PROVE  FALSE
    OBVIOUS
  <2>1. (k - q) * d >= d
    OBVIOUS
  <2> QED
    BY <1>1, <1>2, <2>1
<1>4. ~(q > k)
  <2> SUFFICES ASSUME q > k
               PROVE  FALSE
    OBVIOUS
  <2>1. (q - k) * d >= d
    OBVIOUS
  <2> QED
    BY <1>1, <1>2, <2>1
<1> QED
  BY <1>1, <1>2, <1>3, <1>4

(* The node an address lies in. *)
LEMMA AtHolds ==
  ASSUME NEW a \in Nat, NEW b \in 0 .. MaxBits + 1
  PROVE  /\ Dyadic(At(a, b)) /\ At(a, b).size = b
         /\ a \in Memory(At(a, b))
<1>1. PICK d \in Nat \ {0} : d = BIT[b]
  BY BitsPositive
<1> DEFINE x == (a \div d) * d
<1>2. x \in Nat /\ x % d = 0 /\ x <= a /\ a < x + d
  BY RoundDown
<1> HIDE DEF x
<1>3. At(a, b) = Node(x, b)
  BY <1>1 DEF At, x
<1>4. At(a, b).addr = x /\ At(a, b).size = b
  BY <1>3, NodeFields
<1> QED
  BY <1>1, <1>2, <1>3, <1>4 DEF Dyadic, Memory

(* It is the only one of its size. *)
LEMMA OnlyAt ==
  ASSUME NEW n, Dyadic(n), NEW a \in Memory(n)
  PROVE  n = At(a, n.size) /\ a \in Nat
<1>1. /\ n = Node(n.addr, n.size) /\ n.size \in 0 .. MaxBits + 1 /\ n.addr \in Nat
      /\ n.addr % BIT[n.size] = 0
  BY DEF Dyadic
<1>2. PICK d \in Nat \ {0} : d = BIT[n.size]
  BY <1>1, BitsPositive
<1>3. a \in Nat /\ n.addr <= a /\ a < n.addr + d
  BY <1>1, <1>2 DEF Memory
<1>4. PICK x \in Nat : x = n.addr
  BY <1>1
<1>5. x = (a \div d) * d
  BY <1>1, <1>2, <1>3, <1>4, RoundUnique
<1> QED
  BY <1>1, <1>2, <1>3, <1>4, <1>5 DEF At

(* The first address of a node is in it, so is the node at it. *)
LEMMA AtSelf ==
  ASSUME NEW n, Dyadic(n)
  PROVE  n.addr \in Memory(n) /\ n = At(n.addr, n.size) /\ n.addr \in Nat
<1>1. n.addr \in Nat /\ n.size \in 0 .. MaxBits + 1
  BY DEF Dyadic
<1>2. BIT[n.size] \in Nat \ {0}
  BY <1>1, BitsPositive
<1>3. n.addr \in Memory(n)
  BY <1>1, <1>2 DEF Memory
<1> QED
  BY <1>1, <1>3, OnlyAt

(* What is aligned to twice a number is aligned to it. *)
LEMMA HalfAligned ==
  ASSUME NEW d \in Nat \ {0}, NEW x \in Nat, x % (2 * d) = 0
  PROVE  x % d = 0 /\ (x + d) % d = 0
<1>1. PICK e \in Nat \ {0} : e = 2 * d
  OBVIOUS
<1>2. x % e = 0 /\ x \in Int
  BY <1>1
<1>3. \E k \in Int : x = k * e
  BY <1>2, Multiple
<1>4. PICK k \in Int : x = k * e
  BY <1>3
<1>5. x = (2 * k) * d /\ x + d = (2 * k + 1) * d
  BY <1>1, <1>4
<1>6. (2 * k) \in Int /\ (2 * k + 1) \in Int /\ x \in Int /\ x + d \in Int
  OBVIOUS
<1> QED
  BY <1>5, <1>6, Multiple

(* The two halves of a node. *)
LEMMA Halves ==
  ASSUME NEW n, Dyadic(n), n.size # 0
  PROVE  /\ Dyadic(Left(n)) /\ Left(n).size = n.size - 1 /\ Left(n).addr = n.addr
         /\ Dyadic(Right(n)) /\ Right(n).size = n.size - 1 /\ Right(n) # Left(n)
         /\ Memory(n) = Memory(Left(n)) \cup Memory(Right(n))
         /\ Memory(Left(n)) \cap Memory(Right(n)) = {}
<1>1. /\ n.size \in 0 .. MaxBits + 1 /\ n.addr \in Nat /\ n.addr % BIT[n.size] = 0
      /\ MaxBits \in Nat
  BY BitsDouble DEF Dyadic
<1>2. PICK c \in 0 .. MaxBits : c = n.size - 1
  BY <1>1
<1>3. PICK d \in Nat \ {0} : d = BIT[c]
  BY <1>1, BitsPositive
<1>4. BIT[n.size] = 2 * d
  <2>1. BIT[c + 1] = 2 * BIT[c]
    BY BitsDouble DEF Sizes
  <2> QED
    BY <1>1, <1>2, <1>3, <2>1
<1>5. PICK x \in Nat : x = n.addr
  BY <1>1
<1>6. x % d = 0 /\ (x + d) % d = 0
  <2>1. x % (2 * d) = 0
    BY <1>1, <1>4, <1>5
  <2> QED
    BY <2>1, HalfAligned
<1>7. Left(n) = Node(x, c) /\ Right(n) = Node(x + d, c)
  BY <1>2, <1>3, <1>5 DEF Left, Right
<1>8. Left(n).addr = x /\ Left(n).size = c /\ Right(n).addr = x + d /\ Right(n).size = c
  BY <1>7, NodeFields
<1>9. c \in 0 .. MaxBits + 1
  BY <1>1
<1>10. Dyadic(Left(n)) /\ Dyadic(Right(n))
  BY <1>3, <1>6, <1>7, <1>8, <1>9 DEF Dyadic
<1>11. /\ Memory(n) = x .. x + 2 * d - 1 /\ Memory(Left(n)) = x .. x + d - 1
       /\ Memory(Right(n)) = x + d .. x + d + d - 1
  BY <1>3, <1>4, <1>5, <1>8 DEF Memory
<1> QED
  BY <1>2, <1>5, <1>8, <1>10, <1>11

(* A node and its parent. *)
LEMMA UpToParent ==
  ASSUME NEW n, Dyadic(n), n.size \in Sizes
  PROVE  LET P == Parent(n) IN
         /\ Dyadic(P) /\ P.size = n.size + 1
         /\ n = Left(P) \/ n = Right(P)
         /\ n.addr \in Memory(P)
<1> DEFINE P == Parent(n)
<1>1. n.addr \in Nat /\ n.size + 1 \in 0 .. MaxBits + 1 /\ n.addr \in Memory(n) /\ MaxBits \in Nat
  BY AtSelf, BitsDouble DEF Sizes
<1>2. Dyadic(P) /\ P.size = n.size + 1 /\ n.addr \in Memory(P)
  BY <1>1, AtHolds DEF Parent
<1>3. P.size # 0 /\ P.size - 1 = n.size
  BY <1>1, <1>2 DEF Sizes
<1> HIDE DEF P
<1>4. n.addr \in Memory(Left(P)) \/ n.addr \in Memory(Right(P))
  BY <1>2, <1>3, Halves
<1>5. /\ Dyadic(Left(P)) /\ Left(P).size = n.size
      /\ Dyadic(Right(P)) /\ Right(P).size = n.size
  BY <1>2, <1>3, Halves
<1>6. n = At(n.addr, n.size)
  BY AtSelf
<1>7. CASE n.addr \in Memory(Left(P))
  <2>1. Left(P) = At(n.addr, n.size)
    BY <1>5, <1>7, OnlyAt
  <2> QED
    BY <1>2, <1>6, <2>1 DEF P
<1>8. CASE n.addr \in Memory(Right(P))
  <2>1. Right(P) = At(n.addr, n.size)
    BY <1>5, <1>8, OnlyAt
  <2> QED
    BY <1>2, <1>6, <2>1 DEF P
<1> QED
  BY <1>4, <1>7, <1>8

(* A node and its sibling are the halves of their parent. *)
LEMMA Siblings ==
  ASSUME NEW n, Dyadic(n), n.size \in Sizes
  PROVE  /\ Dyadic(Sibling(n)) /\ Sibling(n).size = n.size
         /\ Sibling(n) # n /\ Sibling(Sibling(n)) = n /\ Parent(Sibling(n)) = Parent(n)
         /\ {n, Sibling(n)} = {Left(Parent(n)), Right(Parent(n))}
         /\ Memory(Parent(n)) = Memory(n) \cup Memory(Sibling(n))
         /\ Memory(n) \cap Memory(Sibling(n)) = {}
<1> DEFINE P == Parent(n)
           s == Sibling(n)
<1>1. /\ Dyadic(P) /\ P.size = n.size + 1 /\ (n = Left(P) \/ n = Right(P))
  BY UpToParent
<1>2. P.size # 0 /\ P.size - 1 = n.size
  BY <1>1 DEF Sizes
<1>3. /\ Dyadic(Left(P)) /\ Left(P).size = n.size
      /\ Dyadic(Right(P)) /\ Right(P).size = n.size
      /\ Left(P) # Right(P)
      /\ Memory(P) = Memory(Left(P)) \cup Memory(Right(P))
      /\ Memory(Left(P)) \cap Memory(Right(P)) = {}
  <2> HIDE DEF P
  <2> QED
    BY <1>1, <1>2, Halves
<1>4. s = IF n = Left(P) THEN Right(P) ELSE Left(P)
  BY DEF Sibling
<1> HIDE DEF P, s
<1>5. Dyadic(s) /\ s.size = n.size /\ s # n
  BY <1>1, <1>3, <1>4
<1>6. {n, s} = {Left(P), Right(P)}
  BY <1>1, <1>3, <1>4
<1>7. Memory(P) = Memory(n) \cup Memory(s) /\ Memory(n) \cap Memory(s) = {}
  BY <1>1, <1>3, <1>4
<1>8. Parent(s) = P
  <2>1. s.addr \in Memory(P)
    BY <1>5, <1>7, AtSelf
  <2>2. P = At(s.addr, P.size)
    BY <1>1, <2>1, OnlyAt
  <2> QED
    BY <1>1, <1>5, <2>2 DEF Parent
<1>9. Sibling(s) = n
  BY <1>1, <1>3, <1>4, <1>8 DEF Sibling
<1> QED
  BY <1>5, <1>6, <1>7, <1>8, <1>9 DEF P, s

(* The nodes that an address lies in, one above the other. *)
LEMMA ParentAt ==
  ASSUME NEW a \in Nat, NEW b \in Sizes
  PROVE  Parent(At(a, b)) = At(a, b + 1)
<1>1. b \in 0 .. MaxBits + 1
  BY BitsDouble DEF Sizes
<1>2. Dyadic(At(a, b)) /\ At(a, b).size = b /\ a \in Memory(At(a, b))
  BY <1>1, AtHolds
<1> DEFINE n == At(a, b)
           P == Parent(n)
<1>3. n.size \in Sizes /\ Dyadic(n)
  BY <1>2
<1> HIDE DEF n
<1>4. Dyadic(P) /\ P.size = n.size + 1
  BY <1>3, UpToParent
<1>5. Memory(n) \subseteq Memory(P)
  BY <1>3, Siblings
<1>6. a \in Memory(P)
  BY <1>2, <1>5 DEF n
<1> HIDE DEF P
<1>7. P = At(a, P.size)
  BY <1>4, <1>6, OnlyAt
<1> QED
  BY <1>2, <1>4, <1>7 DEF n, P

(* A node lies in the larger ones that hold the address. *)
LEMMA Nested ==
  ASSUME NEW a \in Nat, NEW b \in 0 .. MaxBits + 1, NEW c \in b .. MaxBits + 1
  PROVE  Memory(At(a, b)) \subseteq Memory(At(a, c))
<1> DEFINE S == {d \in b .. MaxBits + 1 : ~(Memory(At(a, b)) \subseteq Memory(At(a, d)))}
<1>0. MaxBits \in Nat
  BY BitsDouble
<1> SUFFICES ASSUME S # {}
             PROVE  FALSE
  OBVIOUS
<1>1. PICK d \in S : \A e \in S : d <= e
  <2>1. S \in SUBSET Nat
    BY <1>0
  <2> HIDE DEF S
  <2> QED
    BY <2>1, LeastNat
<1>2. d # b
  BY <1>1
<1>3. d - 1 \in b .. MaxBits + 1 /\ d - 1 \in Sizes /\ d - 1 \in 0 .. MaxBits + 1 /\ d - 1 \notin S
  BY <1>0, <1>1, <1>2 DEF Sizes
<1>4. Memory(At(a, b)) \subseteq Memory(At(a, d - 1))
  BY <1>3
<1>5. Memory(At(a, d - 1)) \subseteq Memory(At(a, d))
  <2>1. PICK n : n = At(a, d - 1)
    OBVIOUS
  <2>2. Dyadic(n) /\ n.size \in Sizes
    BY <1>3, <2>1, AtHolds
  <2>3. Memory(n) \subseteq Memory(Parent(n))
    BY <2>2, Siblings
  <2>4. Parent(n) = At(a, (d - 1) + 1)
    BY <1>3, <2>1, ParentAt
  <2> QED
    BY <1>0, <1>1, <2>1, <2>3, <2>4
<1> QED
  BY <1>1, <1>4, <1>5

(* Two nodes that share memory: the larger holds the smaller. *)
LEMMA Inside ==
  ASSUME NEW n, NEW m, Dyadic(n), Dyadic(m), NEW x \in Memory(n) \cap Memory(m),
         n.size <= m.size
  PROVE  /\ Memory(n) \subseteq Memory(m)
         /\ m = At(n.addr, m.size)
         /\ n.size = m.size => n = m
<1>1. n = At(x, n.size) /\ m = At(x, m.size) /\ x \in Nat
  BY OnlyAt
<1>2. n.size \in 0 .. MaxBits + 1 /\ m.size \in 0 .. MaxBits + 1 /\ MaxBits \in Nat
  BY BitsDouble DEF Dyadic
<1>3. m.size \in n.size .. MaxBits + 1
  BY <1>2
<1>4. Memory(n) \subseteq Memory(m)
  BY <1>1, <1>2, <1>3, Nested
<1>5. n.addr \in Memory(m)
  BY <1>4, AtSelf
<1>6. m = At(n.addr, m.size)
  BY <1>5, OnlyAt
<1> QED
  BY <1>1, <1>4, <1>6

(* A node within another is smaller. *)
LEMMA Smaller ==
  ASSUME NEW n, NEW m, Dyadic(n), Dyadic(m), Memory(n) \subseteq Memory(m), n # m
  PROVE  n.size < m.size /\ m = At(n.addr, m.size) /\ n.addr \in Memory(m)
<1>1. n.addr \in Memory(n) \cap Memory(m)
  BY AtSelf
<1>2. n.size \in 0 .. MaxBits + 1 /\ m.size \in 0 .. MaxBits + 1 /\ MaxBits \in Nat
  BY BitsDouble DEF Dyadic
<1>3. ~(m.size < n.size)
  <2> SUFFICES ASSUME m.size < n.size
               PROVE  FALSE
    OBVIOUS
  <2>1. BIT[m.size] < BIT[n.size]
    BY <1>2, BitsGrow
  <2>2. BIT[m.size] \in Nat \ {0} /\ BIT[n.size] \in Nat \ {0}
    BY <1>2, BitsPositive
  <2>3. n.addr \in Nat /\ m.addr \in Nat
    BY DEF Dyadic
  <2>4. n.addr + BIT[n.size] - 1 \in Memory(n)
    BY <2>2, <2>3 DEF Memory
  <2>5. n.addr >= m.addr /\ n.addr + BIT[n.size] - 1 <= m.addr + BIT[m.size] - 1
    BY <1>1, <2>2, <2>3, <2>4 DEF Memory
  <2> QED
    BY <2>1, <2>2, <2>3, <2>5
<1>4. n.size <= m.size
  BY <1>2, <1>3
<1>5. n.size # m.size /\ m = At(n.addr, m.size)
  BY <1>1, <1>4, Inside
<1> QED
  BY <1>1, <1>2, <1>4, <1>5

-----------------------------------------------------------------------------
(* The nodes that a split makes, from a node of t bits down to the one of  *)
(* b bits that holds an address, and that a merge takes away.              *)
Chain(a, b, t) == {At(a, b)} \cup {Sibling(At(a, c)) : c \in b .. t - 1}

(* The sizes of a chain. *)
Levels(b, t) == b \in Sizes /\ t \in b .. MaxBits

(* A node of the chain lies in the larger nodes that hold the address. *)
LEMMA ChainNode ==
  ASSUME NEW a \in Nat, NEW b, NEW t, Levels(b, t), NEW k \in Chain(a, b, t)
  PROVE  /\ Dyadic(k) /\ k.size \in b .. t
         /\ k = At(a, b) \/ (k.size < t /\ k = Sibling(At(a, k.size)))
         /\ \A c \in k.size + 1 .. MaxBits + 1 : Memory(k) \subseteq Memory(At(a, c))
         /\ Memory(k) \subseteq Memory(At(a, t))
<1>1. MaxBits \in Nat /\ b \in Nat /\ t \in Nat /\ b <= t /\ t <= MaxBits
  BY BitsDouble DEF Levels, Sizes
<1>2. CASE k = At(a, b)
  <2>1. Dyadic(k) /\ k.size = b
    BY <1>1, <1>2, AtHolds
  <2>2. ASSUME NEW c \in b .. MaxBits + 1
        PROVE  Memory(k) \subseteq Memory(At(a, c))
    <3>1. b \in 0 .. MaxBits + 1
      BY <1>1
    <3> QED
      BY <1>2, <3>1, Nested
  <2>3. t \in b .. MaxBits + 1 /\ b \in b .. t /\ (b + 1 .. MaxBits + 1) \subseteq b .. MaxBits + 1
    BY <1>1
  <2> QED
    BY <1>2, <2>1, <2>2, <2>3
<1>3. CASE k # At(a, b)
  <2>1. PICK d \in b .. t - 1 : k = Sibling(At(a, d))
    BY <1>3 DEF Chain
  <2>2. d \in Sizes /\ d \in 0 .. MaxBits + 1 /\ d + 1 \in 0 .. MaxBits + 1
    BY <1>1 DEF Sizes
  <2>3. PICK n : n = At(a, d)
    OBVIOUS
  <2>4. Dyadic(n) /\ n.size = d
    BY <2>2, <2>3, AtHolds
  <2>5. Dyadic(k) /\ k.size = d /\ Memory(k) \subseteq Memory(Parent(n))
    BY <2>1, <2>2, <2>3, <2>4, Siblings
  <2>6. Parent(n) = At(a, d + 1)
    BY <2>2, <2>3, ParentAt
  <2>7. ASSUME NEW c \in d + 1 .. MaxBits + 1
        PROVE  Memory(k) \subseteq Memory(At(a, c))
    <3>1. Memory(At(a, d + 1)) \subseteq Memory(At(a, c))
      BY <2>2, Nested
    <3> QED
      BY <2>5, <2>6, <3>1
  <2>8. t \in d + 1 .. MaxBits + 1 /\ d \in b .. t /\ d < t
    BY <1>1
  <2> QED
    BY <2>1, <2>5, <2>7, <2>8
<1> QED
  BY <1>2, <1>3

(* The nodes above one of the chain hold the address. *)
LEMMA ChainAbove ==
  ASSUME NEW a \in Nat, NEW b, NEW t, Levels(b, t), NEW k \in Chain(a, b, t),
         NEW m, Dyadic(m), Memory(k) \subseteq Memory(m), k # m
  PROVE  m = At(a, m.size) /\ m.size > b
<1>1. Dyadic(k) /\ k.size \in b .. t
  BY ChainNode
<1>2. k.size < m.size /\ k.addr \in Memory(m)
  BY <1>1, Smaller
<1>3. MaxBits \in Nat /\ b \in Nat /\ m.size \in 0 .. MaxBits + 1
  BY BitsDouble DEF Levels, Sizes, Dyadic
<1>4. m.size \in k.size + 1 .. MaxBits + 1
  BY <1>1, <1>2, <1>3
<1>5. Memory(k) \subseteq Memory(At(a, m.size))
  BY <1>4, ChainNode
<1>6. k.addr \in Memory(m) \cap Memory(At(a, m.size))
  BY <1>1, <1>2, <1>5, AtSelf
<1>7. Dyadic(At(a, m.size)) /\ At(a, m.size).size = m.size
  BY <1>3, AtHolds
<1>8. PICK l : l = At(a, m.size)
  OBVIOUS
<1>9. m = l
  <2>1. m.size <= l.size /\ m.size = l.size
    BY <1>3, <1>7, <1>8
  <2> QED
    BY <1>6, <1>7, <1>8, <2>1, Inside
<1> QED
  BY <1>1, <1>2, <1>3, <1>8, <1>9

(* They share no memory. *)
LEMMA ChainDisjoint ==
  ASSUME NEW a \in Nat, NEW b, NEW t, Levels(b, t),
         NEW k \in Chain(a, b, t), NEW l \in Chain(a, b, t), k # l
  PROVE  Memory(k) \cap Memory(l) = {}
<1>1. MaxBits \in Nat /\ b \in Nat /\ t \in Nat /\ b <= t /\ t <= MaxBits
  BY BitsDouble DEF Levels, Sizes
<1>2. ASSUME NEW x \in Chain(a, b, t), NEW y \in Chain(a, b, t), x # y,
             x.size <= y.size, y # At(a, b)
      PROVE  Memory(x) \cap Memory(y) = {}
  <2>1. PICK d : d = y.size
    OBVIOUS
  <2>2. d \in b .. t /\ d < t /\ y = Sibling(At(a, d))
    BY <1>2, <2>1, ChainNode
  <2>3. d \in Sizes /\ d \in 0 .. MaxBits + 1
    BY <1>1, <2>2 DEF Sizes
  <2>4. PICK n : n = At(a, d)
    OBVIOUS
  <2>5. Dyadic(n) /\ n.size = d
    BY <2>3, <2>4, AtHolds
  <2>6. Memory(n) \cap Memory(y) = {}
    BY <2>2, <2>3, <2>4, <2>5, Siblings
  <2>7. x.size \in b .. t
    BY ChainNode
  <2>8. CASE x.size < d
    <3>1. d \in x.size + 1 .. MaxBits + 1
      BY <1>1, <2>2, <2>7, <2>8
    <3>2. Memory(x) \subseteq Memory(n)
      BY <3>1, <2>4, ChainNode
    <3> QED
      BY <2>6, <3>2
  <2>9. CASE x.size = d
    <3>1. x = At(a, b) \/ x = Sibling(At(a, d))
      BY <2>9, ChainNode
    <3>2. x = At(a, b)
      BY <1>2, <2>2, <3>1
    <3>3. x.size = b
      BY <1>1, <3>2, AtHolds
    <3>4. x = n
      BY <2>4, <2>9, <3>2, <3>3
    <3> QED
      BY <2>6, <3>4
  <2> QED
    BY <1>1, <1>2, <2>1, <2>2, <2>7, <2>8, <2>9
<1>3. k.size \in b .. t /\ l.size \in b .. t
  BY ChainNode
<1>4. ASSUME NEW x \in Chain(a, b, t), NEW y \in Chain(a, b, t), x # y, x = At(a, b)
      PROVE  Memory(x) \cap Memory(y) = {}
  <2>1. x.size = b
    BY <1>1, <1>4, AtHolds
  <2>2. y.size \in b .. t /\ y # At(a, b)
    BY <1>4, ChainNode
  <2>3. x.size <= y.size
    BY <1>1, <2>1, <2>2
  <2> QED
    BY <1>2, <1>4, <2>2, <2>3
<1>5. CASE k = At(a, b)
  BY <1>4, <1>5
<1>6. CASE l = At(a, b)
  BY <1>4, <1>6
<1>7. CASE k # At(a, b) /\ l # At(a, b)
  <2>1. k.size <= l.size \/ l.size <= k.size
    BY <1>1, <1>3
  <2> QED
    BY <1>2, <1>7, <2>1
<1> QED
  BY <1>5, <1>6, <1>7

(* They are all of the node they have been split from. *)
LEMMA ChainCovers ==
  ASSUME NEW a \in Nat, NEW b, NEW t, Levels(b, t), NEW x \in Memory(At(a, t))
  PROVE  \E k \in Chain(a, b, t) : x \in Memory(k)
<1> DEFINE S == {c \in b .. t : x \in Memory(At(a, c))}
<1>1. MaxBits \in Nat /\ b \in Nat /\ t \in Nat /\ b <= t /\ t <= MaxBits
  BY BitsDouble DEF Levels, Sizes
<1>2. t \in S
  BY <1>1
<1>3. PICK c \in S : \A d \in S : c <= d
  <2>1. S \in SUBSET Nat
    BY <1>1
  <2> HIDE DEF S
  <2> QED
    BY <1>2, <2>1, LeastNat
<1>4. CASE c = b
  BY <1>3, <1>4 DEF Chain
<1>5. CASE c # b
  <2>1. PICK d : d = c - 1
    OBVIOUS
  <2>2. d \in b .. t - 1 /\ d \in b .. t /\ d \notin S /\ d + 1 = c /\ d \in Sizes /\ d \in 0 .. MaxBits + 1
    BY <1>1, <1>3, <1>5, <2>1 DEF Sizes
  <2>3. PICK n : n = At(a, d)
    OBVIOUS
  <2>4. Dyadic(n) /\ n.size \in Sizes /\ Parent(n) = At(a, c)
    BY <2>2, <2>3, AtHolds, ParentAt
  <2>5. Memory(At(a, c)) = Memory(n) \cup Memory(Sibling(n))
    BY <2>4, Siblings
  <2>6. x \in Memory(Sibling(n))
    BY <1>3, <2>2, <2>3, <2>5
  <2>7. Sibling(n) \in Chain(a, b, t)
    BY <2>2, <2>3 DEF Chain
  <2> QED
    BY <2>6, <2>7
<1> QED
  BY <1>4, <1>5

(* The end of the chain. *)
LEMMA ChainEnds ==
  ASSUME NEW a, NEW b, NEW t
  PROVE  At(a, b) \in Chain(a, b, t)
BY DEF Chain

-----------------------------------------------------------------------------
(* The untypeds given                                                      *)

(* They are nodes, *)
LEMMA RootIsNode ==
  ASSUME NEW r \in Roots
  PROVE  /\ Dyadic(RootNode(r)) /\ RootNode(r).size = r.size /\ RootNode(r).addr = r.addr
         /\ r.size \in Sizes /\ r.pool \in Pools /\ r.addr \in Nat
         /\ Memory(RootNode(r)) = r.addr .. r.addr + BIT[r.size] - 1
         /\ r.size \in 0 .. MaxBits + 1 /\ BIT[r.size] \in Nat
<1>1. r.pool \in Pools /\ r.size \in Sizes /\ r.addr \in Nat /\ r.addr % BIT[r.size] = 0
  BY RootsSane
<1>2. RootNode(r).addr = r.addr /\ RootNode(r).size = r.size
  BY NodeFields DEF RootNode
<1>3. RootNode(r) = Node(RootNode(r).addr, RootNode(r).size)
  BY <1>2 DEF RootNode
<1>4. r.size \in 0 .. MaxBits + 1
  BY <1>1, BitsDouble DEF Sizes
<1>5. BIT[r.size] \in Nat
  BY <1>4, BitsPositive
<1> QED
  BY <1>1, <1>2, <1>3, <1>4, <1>5 DEF Dyadic, Memory

(* and an address is in one of them only. *)
LEMMA OneRoot ==
  ASSUME NEW r \in Roots, NEW q \in Roots,
         NEW x \in Memory(RootNode(r)) \cap Memory(RootNode(q))
  PROVE  r = q
<1>1. /\ r.addr \in Nat /\ q.addr \in Nat
      /\ Memory(RootNode(r)) = r.addr .. r.addr + BIT[r.size] - 1
      /\ Memory(RootNode(q)) = q.addr .. q.addr + BIT[q.size] - 1
  BY RootIsNode
<1>2. BIT[r.size] \in Nat /\ BIT[q.size] \in Nat
  BY RootIsNode
<1>3. r # q => r.addr + BIT[r.size] <= q.addr \/ q.addr + BIT[q.size] <= r.addr
  BY RootsSane
<1> QED
  BY <1>1, <1>2, <1>3

(* The untyped that a node comes from. *)
LEMMA RootIs ==
  ASSUME NEW r \in Roots, NEW n, n.addr \in Memory(RootNode(r))
  PROVE  RootOf(n) = r
<1>1. ASSUME NEW q \in Roots
      PROVE  Covers(RootNode(q), n.addr) <=> n.addr \in Memory(RootNode(q))
  <2>1. /\ r.addr \in Nat /\ q.addr \in Nat
        /\ RootNode(q).addr = q.addr /\ RootNode(q).size = q.size
        /\ Memory(RootNode(r)) = r.addr .. r.addr + BIT[r.size] - 1
        /\ Memory(RootNode(q)) = q.addr .. q.addr + BIT[q.size] - 1
    BY RootIsNode
  <2>2. BIT[r.size] \in Nat /\ BIT[q.size] \in Nat
    BY RootIsNode
  <2> QED
    BY <2>1, <2>2 DEF Covers
<1>2. \A q \in Roots : Covers(RootNode(q), n.addr) => q = r
  BY <1>1, OneRoot
<1>3. Covers(RootNode(r), n.addr)
  BY <1>1
<1> QED
  BY <1>2, <1>3 DEF RootOf

(* The addresses are those of the untypeds. *)
LEMMA AddressRoot ==
  ASSUME NEW a
  PROVE  a \in Addresses <=> \E r \in Roots : a \in Memory(RootNode(r))
BY RootIsNode DEF Addresses

(* A node that starts in an untyped and is no larger is one of its nodes. *)
LEMMA InRoot ==
  ASSUME NEW k, Dyadic(k), NEW r \in Roots, k.addr \in Memory(RootNode(r)), k.size <= r.size
  PROVE  k \in Nodes /\ RootOf(k) = r /\ Memory(k) \subseteq Memory(RootNode(r))
<1>1. RootOf(k) = r
  BY RootIs
<1>2. Dyadic(RootNode(r)) /\ RootNode(r).size = r.size /\ r.size \in Sizes
  BY RootIsNode
<1>3. k.addr \in Memory(k)
  BY AtSelf
<1>4. Memory(k) \subseteq Memory(RootNode(r))
  BY <1>2, <1>3, Inside
<1>5. k.addr \in Addresses
  BY AddressRoot
<1>6. k = Node(k.addr, k.size) /\ k.addr % BIT[k.size] = 0 /\ k.size \in 0 .. MaxBits + 1
  BY DEF Dyadic
<1>7. k.size \in Sizes
  BY <1>2, <1>6, BitsDouble DEF Sizes
<1>8. k \in {Node(a, b) : a \in Addresses, b \in Sizes}
  BY <1>5, <1>6, <1>7
<1> QED
  BY <1>1, <1>4, <1>6, <1>8 DEF Nodes

(* What a node is. *)
LEMMA NodeInRoot ==
  ASSUME NEW k \in Nodes
  PROVE  /\ Dyadic(k) /\ k.size \in Sizes /\ RootOf(k) \in Roots
         /\ k.addr \in Memory(RootNode(RootOf(k)))
         /\ Memory(k) \subseteq Memory(RootNode(RootOf(k)))
         /\ k.size <= RootOf(k).size
<1>1. k.addr % BIT[k.size] = 0 /\ k.size <= RootOf(k).size
  BY DEF Nodes
<1>2. PICK a \in Addresses, b \in Sizes : k = Node(a, b)
  BY DEF Nodes
<1>3. k.addr = a /\ k.size = b
  BY <1>2, NodeFields
<1>4. PICK r \in Roots : a \in Memory(RootNode(r))
  BY AddressRoot
<1>5. RootOf(k) = r
  BY <1>3, <1>4, RootIs
<1>6. a \in Nat
  <2>1. Dyadic(RootNode(r))
    BY RootIsNode
  <2> QED
    BY <1>4, <2>1, OnlyAt
<1>7. b \in 0 .. MaxBits + 1
  BY BitsDouble DEF Sizes
<1>8. Dyadic(k)
  BY <1>1, <1>2, <1>3, <1>6, <1>7 DEF Dyadic
<1>9. Memory(k) \subseteq Memory(RootNode(r))
  BY <1>1, <1>3, <1>4, <1>5, <1>8, InRoot
<1> QED
  BY <1>1, <1>3, <1>4, <1>5, <1>8, <1>9

(* A node within another one has its root. *)
LEMMA SameRoot ==
  ASSUME NEW n \in Nodes, NEW k, Dyadic(k), Memory(k) \subseteq Memory(n), k.size <= n.size
  PROVE  k \in Nodes /\ RootOf(k) = RootOf(n)
<1>1. /\ Dyadic(n) /\ RootOf(n) \in Roots /\ Memory(n) \subseteq Memory(RootNode(RootOf(n)))
      /\ n.size <= RootOf(n).size /\ n.size \in Sizes
  BY NodeInRoot
<1>2. k.addr \in Memory(RootNode(RootOf(n)))
  BY <1>1, AtSelf
<1>3. k.size \in Int /\ n.size \in Int /\ RootOf(n).size \in Int
  BY <1>1, RootIsNode DEF Dyadic, Sizes
<1>4. k.size <= RootOf(n).size
  BY <1>1, <1>3
<1> QED
  BY <1>1, <1>2, <1>4, InRoot

(* A node as large as its root is the root. *)
LEMMA WholeRoot ==
  ASSUME NEW n \in Nodes, n.size = RootOf(n).size
  PROVE  n = RootNode(RootOf(n))
<1>1. Dyadic(n) /\ RootOf(n) \in Roots /\ n.addr \in Memory(RootNode(RootOf(n)))
  BY NodeInRoot
<1>2. PICK m : m = RootNode(RootOf(n))
  OBVIOUS
<1>3. Dyadic(m) /\ m.size = n.size
  BY <1>1, <1>2, RootIsNode
<1>4. n.addr \in Memory(n) \cap Memory(m) /\ n.size <= m.size
  BY <1>1, <1>2, <1>3, AtSelf DEF Dyadic
<1> QED
  BY <1>1, <1>2, <1>3, <1>4, Inside

-----------------------------------------------------------------------------
(* Splitting and merging keep the memory tiled                             *)

(* The nodes of L tile the memory of the roots in G. *)
Tiling(L, G) ==
  /\ L \subseteq Nodes /\ G \subseteq Roots
  /\ \A n \in L : RootOf(n) \in G
  /\ \A r \in G : \A x \in Memory(RootNode(r)) : \E n \in L : x \in Memory(n)
  /\ \A n, m \in L : n # m => Memory(n) \cap Memory(m) = {}

(* The nodes that have some of L below them. *)
Above(L) == {m \in Nodes : \E n \in L : n # m /\ Memory(n) \subseteq Memory(m)}

(* The nodes between one of t bits and that of b bits at an address. *)
OnWay(a, b, t) == {At(a, c) : c \in b + 1 .. t}

(* A node that a split replaces. *)
LEMMA ChainOf ==
  ASSUME NEW n \in Nodes, NEW a \in Memory(n), NEW b \in 0 .. n.size
  PROVE  /\ Levels(b, n.size) /\ a \in Nat /\ n = At(a, n.size)
         /\ \A k \in Chain(a, b, n.size) :
              /\ k \in Nodes /\ RootOf(k) = RootOf(n)
              /\ Memory(k) \subseteq Memory(n) /\ k.size <= n.size
<1>1. Dyadic(n) /\ n.size \in Sizes
  BY NodeInRoot
<1>2. Levels(b, n.size) /\ n.size \in Nat
  BY <1>1, BitsDouble DEF Levels, Sizes
<1>3. n = At(a, n.size) /\ a \in Nat
  BY <1>1, OnlyAt
<1>4. ASSUME NEW k \in Chain(a, b, n.size)
      PROVE  /\ k \in Nodes /\ RootOf(k) = RootOf(n)
             /\ Memory(k) \subseteq Memory(n) /\ k.size <= n.size
  <2>1. PICK t : t = n.size
    OBVIOUS
  <2>2. Dyadic(k) /\ k.size \in b .. t /\ Memory(k) \subseteq Memory(At(a, t))
    BY <1>2, <1>3, <2>1, ChainNode
  <2>3. Memory(k) \subseteq Memory(n) /\ k.size <= n.size
    BY <1>2, <1>3, <2>1, <2>2
  <2> QED
    BY <2>2, <2>3, SameRoot
<1> QED
  BY <1>2, <1>3, <1>4

(* The nodes above the replaced ones. *)
LEMMA AboveChain ==
  ASSUME NEW n \in Nodes, NEW a \in Memory(n), NEW b \in 0 .. n.size,
         NEW k \in Chain(a, b, n.size), NEW m \in Nodes, k # m, Memory(k) \subseteq Memory(m)
  PROVE  \/ m \in OnWay(a, b, n.size)
         \/ n # m /\ Memory(n) \subseteq Memory(m) /\ n.size < m.size
<1>1. PICK t : t = n.size
  OBVIOUS
<1>2. Levels(b, t) /\ a \in Nat /\ Memory(k) \subseteq Memory(n)
  BY <1>1, ChainOf
<1>3. Dyadic(m) /\ Dyadic(n) /\ n.size \in Sizes /\ m.size \in Sizes
  BY NodeInRoot
<1>4. m = At(a, m.size) /\ m.size > b
  BY <1>1, <1>2, <1>3, ChainAbove
<1>5. CASE m.size <= n.size
  BY <1>3, <1>4, <1>5 DEF Sizes, OnWay
<1>6. CASE ~(m.size <= n.size)
  <2>1. n.size < m.size
    BY <1>3, <1>6 DEF Sizes
  <2>2. Dyadic(k)
    BY <1>1, <1>2, ChainNode
  <2>3. k.addr \in Memory(n) \cap Memory(m)
    BY <1>2, <2>2, AtSelf
  <2>4. n.size <= m.size
    BY <1>3, <2>1 DEF Sizes
  <2>5. Memory(n) \subseteq Memory(m)
    BY <1>3, <2>3, <2>4, Inside
  <2>6. n # m
    BY <1>3, <2>1 DEF Sizes
  <2> QED
    BY <2>1, <2>5, <2>6
<1> QED
  BY <1>5, <1>6

(* The nodes on the way down are above the last. *)
LEMMA OnTheWay ==
  ASSUME NEW n \in Nodes, NEW a \in Memory(n), NEW b \in 0 .. n.size,
         NEW c \in b + 1 .. n.size
  PROVE  /\ At(a, c) \in Nodes /\ At(a, b) # At(a, c)
         /\ Memory(At(a, b)) \subseteq Memory(At(a, c))
         /\ Memory(At(a, c)) \subseteq Memory(n)
<1>1. Levels(b, n.size) /\ a \in Nat /\ n = At(a, n.size) /\ Dyadic(n) /\ n.size \in Nat
  BY ChainOf, NodeInRoot DEF Sizes
<1>0. MaxBits \in Nat /\ n.size <= MaxBits
  BY <1>1, BitsDouble DEF Levels
<1>2. MaxBits \in Nat /\ b \in Nat /\ b \in 0 .. MaxBits + 1 /\ c \in 0 .. MaxBits + 1
      /\ c \in b .. MaxBits + 1 /\ n.size \in c .. MaxBits + 1 /\ b < c
  BY <1>0, <1>1
<1>3. Memory(At(a, b)) \subseteq Memory(At(a, c)) /\ Memory(At(a, c)) \subseteq Memory(n)
  BY <1>1, <1>2, Nested
<1>4. At(a, b).size = b /\ At(a, c).size = c /\ Dyadic(At(a, c))
  BY <1>1, <1>2, AtHolds
<1>5. At(a, c).size <= n.size
  BY <1>2, <1>4
<1>6. PICK k : k = At(a, c)
  OBVIOUS
<1>7. k \in Nodes
  BY <1>3, <1>4, <1>5, <1>6, SameRoot
<1> QED
  BY <1>2, <1>3, <1>4, <1>6, <1>7

(* Memory that two nodes of a tiling share makes them one. *)
LEMMA Apart ==
  ASSUME NEW L, NEW G, Tiling(L, G), NEW n \in L, NEW m \in L, NEW x \in Memory(n) \cap Memory(m)
  PROVE  n = m
BY DEF Tiling

(* A split puts nodes where there are none. *)
LEMMA ChainIsNew ==
  ASSUME NEW L, NEW G, Tiling(L, G), NEW n \in L, NEW a \in Memory(n), NEW b \in 0 .. n.size,
         NEW k \in Chain(a, b, n.size), NEW m \in L, m # n
  PROVE  Memory(k) \cap Memory(m) = {} /\ k # m
<1>1. n \in Nodes
  BY DEF Tiling
<1>2. k \in Nodes /\ Memory(k) \subseteq Memory(n)
  BY <1>1, ChainOf
<1>3. Memory(n) \cap Memory(m) = {}
  BY DEF Tiling
<1>4. k.addr \in Memory(k)
  BY <1>2, NodeInRoot, AtSelf
<1> QED
  BY <1>2, <1>3, <1>4

(* A split keeps the memory tiled: what is above a node grows by the nodes *)
(* on the way.                                                             *)
LEMMA SplitTiles ==
  ASSUME NEW L, NEW G, Tiling(L, G), NEW n \in L, NEW a \in Memory(n), NEW b \in 0 .. n.size
  PROVE  LET M == (L \ {n}) \cup Chain(a, b, n.size) IN
         /\ Tiling(M, G)
         /\ Above(M) = Above(L) \cup OnWay(a, b, n.size)
<1> DEFINE C == Chain(a, b, n.size)
           M == (L \ {n}) \cup C
<1>1. n \in Nodes /\ L \subseteq Nodes /\ G \subseteq Roots /\ RootOf(n) \in G
  BY DEF Tiling
<1>2. \A k \in C : k \in Nodes /\ RootOf(k) = RootOf(n) /\ Memory(k) \subseteq Memory(n)
  BY <1>1, ChainOf
<1>3. Levels(b, n.size) /\ a \in Nat /\ n = At(a, n.size)
  BY <1>1, ChainOf
<1>4. At(a, b) \in C
  BY ChainEnds
<1>5. ASSUME NEW k \in C, NEW l \in C, k # l
      PROVE  Memory(k) \cap Memory(l) = {}
  BY <1>3, <1>5, ChainDisjoint
<1>6. ASSUME NEW x \in Memory(n)
      PROVE  \E k \in C : x \in Memory(k)
  <2>1. x \in Memory(At(a, n.size))
    BY <1>3
  <2> QED
    BY <1>3, <2>1, ChainCovers
<1>7. ASSUME NEW k \in C, NEW m \in L \ {n}
      PROVE  Memory(k) \cap Memory(m) = {}
  BY <1>7, ChainIsNew
<1> HIDE DEF C
<1>8. Tiling(M, G)
  <2>1. M \subseteq Nodes /\ \A k \in M : RootOf(k) \in G
    BY <1>1, <1>2 DEF Tiling
  <2>2. ASSUME NEW r \in G, NEW x \in Memory(RootNode(r))
        PROVE  \E k \in M : x \in Memory(k)
    <3>1. PICK k \in L : x \in Memory(k)
      BY DEF Tiling
    <3> QED
      BY <1>6, <3>1
  <2>3. ASSUME NEW k \in M, NEW l \in M, k # l
        PROVE  Memory(k) \cap Memory(l) = {}
    <3>1. CASE k \in C /\ l \in C
      BY <1>5, <2>3, <3>1
    <3>2. CASE k \in C /\ l \in L \ {n}
      BY <1>7, <3>2
    <3>3. CASE k \in L \ {n} /\ l \in C
      BY <1>7, <3>3
    <3>4. CASE k \in L \ {n} /\ l \in L \ {n}
      BY <2>3, <3>4 DEF Tiling
    <3> QED
      BY <3>1, <3>2, <3>3, <3>4
  <2> HIDE DEF M
  <2> QED
    BY <1>1, <2>1, <2>2, <2>3 DEF Tiling
<1>9. ASSUME NEW m \in Above(M)
      PROVE  m \in Above(L) \cup OnWay(a, b, n.size)
  <2>1. PICK k \in M : m \in Nodes /\ k # m /\ Memory(k) \subseteq Memory(m)
    BY DEF Above
  <2>2. CASE k \in L
    BY <2>1, <2>2 DEF Above
  <2>3. CASE k \in C
    <3>1. \/ m \in OnWay(a, b, n.size)
          \/ n # m /\ Memory(n) \subseteq Memory(m)
      BY <1>1, <2>1, <2>3, AboveChain DEF C
    <3> QED
      BY <2>1, <3>1 DEF Above
  <2> QED
    BY <2>1, <2>2, <2>3
<1>10. ASSUME NEW c \in b + 1 .. n.size
       PROVE  At(a, c) \in Above(M)
  <2>1. /\ At(a, c) \in Nodes /\ At(a, b) # At(a, c)
        /\ Memory(At(a, b)) \subseteq Memory(At(a, c))
    BY <1>1, OnTheWay
  <2> QED
    BY <1>4, <2>1 DEF Above
<1>11. ASSUME NEW m \in Above(L)
       PROVE  m \in Above(M)
  <2>1. PICK k \in L : m \in Nodes /\ k # m /\ Memory(k) \subseteq Memory(m)
    BY DEF Above
  <2>2. CASE k # n
    BY <2>1, <2>2 DEF Above
  <2>3. CASE k = n
    <3>1. Dyadic(n) /\ Dyadic(m) /\ Dyadic(At(a, b))
      BY <1>1, <1>2, <1>4, <2>1, NodeInRoot
    <3>2. Memory(At(a, b)) \subseteq Memory(m)
      BY <1>2, <1>4, <2>1, <2>3
    <3>3. At(a, b) # m
      <4> SUFFICES ASSUME At(a, b) = m
                   PROVE  FALSE
        OBVIOUS
      <4>1. Memory(m) = Memory(n)
        BY <1>2, <1>4, <2>1, <2>3
      <4>2. n.size < m.size /\ m.size < n.size
        BY <2>1, <2>3, <3>1, <4>1, Smaller
      <4> QED
        BY <3>1, <4>2 DEF Dyadic
    <3> QED
      BY <1>4, <2>1, <3>2, <3>3 DEF Above
  <2> QED
    BY <2>2, <2>3
<1> QED
  BY <1>8, <1>9, <1>10, <1>11 DEF C, OnWay

(* So does a merge: the nodes on the way are no longer above any. *)
LEMMA MergeTiles ==
  ASSUME NEW L, NEW G, Tiling(L, G), NEW n \in Nodes, NEW a \in Memory(n), NEW b \in 0 .. n.size,
         Chain(a, b, n.size) \subseteq L
  PROVE  LET M == (L \ Chain(a, b, n.size)) \cup {n} IN
         /\ Tiling(M, G)
         /\ Above(M) = Above(L) \ OnWay(a, b, n.size)
         /\ \A m \in L \ Chain(a, b, n.size) : Memory(m) \cap Memory(n) = {} /\ m # n
<1> DEFINE C == Chain(a, b, n.size)
           M == (L \ C) \cup {n}
           Way == OnWay(a, b, n.size)
<1>1. L \subseteq Nodes /\ G \subseteq Roots
  BY DEF Tiling
<1>2. \A k \in C : k \in Nodes /\ RootOf(k) = RootOf(n) /\ Memory(k) \subseteq Memory(n)
  BY ChainOf
<1>3. Levels(b, n.size) /\ a \in Nat /\ n = At(a, n.size)
  BY ChainOf
<1>4. At(a, b) \in C
  BY ChainEnds
<1>5. ASSUME NEW x \in Memory(n)
      PROVE  \E k \in C : x \in Memory(k)
  <2>1. x \in Memory(At(a, n.size))
    BY <1>3
  <2> QED
    BY <1>3, <2>1, ChainCovers
<1>a. ASSUME NEW m \in Way
      PROVE  Memory(m) \subseteq Memory(n) /\ m \in Nodes
  BY OnTheWay DEF OnWay
<1>b. ASSUME NEW k \in C, NEW m \in Nodes, k # m, Memory(k) \subseteq Memory(m)
      PROVE  m \in Way \/ (n # m /\ Memory(n) \subseteq Memory(m))
  BY <1>b, AboveChain
<1>c. C \subseteq L
  OBVIOUS
<1> HIDE DEF C
<1>6. RootOf(n) \in G
  BY <1>2, <1>4, <1>c DEF Tiling
<1>7. ASSUME NEW m \in L \ C
      PROVE  Memory(m) \cap Memory(n) = {} /\ m # n
  <2>1. Memory(m) \cap Memory(n) = {}
    <3> SUFFICES ASSUME NEW x \in Memory(m) \cap Memory(n)
                 PROVE  FALSE
      OBVIOUS
    <3>1. PICK k \in C : x \in Memory(k)
      BY <1>5
    <3>2. k \in L /\ k # m
      BY <1>c
    <3>3. Memory(k) \cap Memory(m) = {}
      BY <3>2 DEF Tiling
    <3> QED
      BY <3>1, <3>3
  <2>2. m.addr \in Memory(m)
    BY <1>1, NodeInRoot, AtSelf
  <2> QED
    BY <2>1, <2>2
<1>8. Tiling(M, G)
  <2>1. M \subseteq Nodes /\ \A k \in M : RootOf(k) \in G
    BY <1>1, <1>6 DEF Tiling
  <2>2. ASSUME NEW r \in G, NEW x \in Memory(RootNode(r))
        PROVE  \E k \in M : x \in Memory(k)
    <3>1. PICK k \in L : x \in Memory(k)
      BY DEF Tiling
    <3> QED
      BY <1>2, <3>1
  <2>3. ASSUME NEW k \in M, NEW l \in M, k # l
        PROVE  Memory(k) \cap Memory(l) = {}
    <3>1. CASE k = n
      BY <1>7, <2>3, <3>1
    <3>2. CASE l = n
      BY <1>7, <2>3, <3>2
    <3>3. CASE k \in L /\ l \in L
      BY <2>3, <3>3 DEF Tiling
    <3> QED
      BY <3>1, <3>2, <3>3
  <2> HIDE DEF M
  <2> QED
    BY <1>1, <2>1, <2>2, <2>3 DEF Tiling
<1> HIDE DEF Way
<1>9. ASSUME NEW m \in Above(M)
      PROVE  m \in Above(L) \ Way
  <2>1. PICK k \in M : m \in Nodes /\ k # m /\ Memory(k) \subseteq Memory(m)
    BY DEF Above
  <2>2. m \notin Way
    <3> SUFFICES ASSUME m \in Way
                 PROVE  FALSE
      OBVIOUS
    <3>1. Memory(k) \subseteq Memory(n) /\ Memory(m) \subseteq Memory(n)
      BY <1>a, <2>1
    <3>2. k \in Nodes /\ Dyadic(k) /\ k.addr \in Memory(k)
      BY <1>1, <2>1, NodeInRoot, AtSelf
    <3>3. k = n
      BY <1>7, <2>1, <3>1, <3>2
    <3>4. Memory(m) = Memory(n) /\ Dyadic(n) /\ Dyadic(m)
      BY <2>1, <3>1, <3>3, NodeInRoot
    <3>5. n.size < m.size /\ m.size < n.size
      BY <2>1, <3>3, <3>4, Smaller
    <3> QED
      BY <3>4, <3>5 DEF Dyadic
  <2>3. CASE k \in L
    BY <2>1, <2>2, <2>3 DEF Above
  <2>4. CASE k = n
    <3>1. Memory(At(a, b)) \subseteq Memory(m)
      BY <1>2, <1>4, <2>1, <2>4
    <3>2. At(a, b) # m
      <4> SUFFICES ASSUME At(a, b) = m
                   PROVE  FALSE
        OBVIOUS
      <4>1. Memory(m) = Memory(n) /\ Dyadic(n) /\ Dyadic(m)
        BY <1>2, <1>4, <2>1, <2>4, NodeInRoot
      <4>2. n.size < m.size /\ m.size < n.size
        BY <2>1, <2>4, <4>1, Smaller
      <4> QED
        BY <4>1, <4>2 DEF Dyadic
    <3> QED
      BY <1>4, <1>c, <2>1, <2>2, <3>1, <3>2 DEF Above
  <2> QED
    BY <2>1, <2>3, <2>4
<1>10. ASSUME NEW m \in Above(L), m \notin Way
       PROVE  m \in Above(M)
  <2>1. PICK k \in L : m \in Nodes /\ k # m /\ Memory(k) \subseteq Memory(m)
    BY DEF Above
  <2>2. CASE k \notin C
    BY <2>1, <2>2 DEF Above
  <2>3. CASE k \in C
    <3>1. n # m /\ Memory(n) \subseteq Memory(m)
      BY <1>10, <1>b, <2>1, <2>3
    <3> QED
      BY <2>1, <3>1 DEF Above
  <2> QED
    BY <2>2, <2>3
<1> QED
  BY <1>7, <1>8, <1>9, <1>10 DEF C, Way

(* An untyped that is added is new memory. *)
LEMMA RootTiles ==
  ASSUME NEW L, NEW G, Tiling(L, G), NEW r \in Roots \ G
  PROVE  LET M == L \cup {RootNode(r)} IN
         /\ Tiling(M, G \cup {r}) /\ Above(M) = Above(L)
         /\ RootNode(r) \in Nodes \ L /\ RootOf(RootNode(r)) = r
<1> DEFINE R == RootNode(r)
           M == L \cup {R}
<1>1. Dyadic(R) /\ R.size = r.size /\ r.size \in Sizes
  BY RootIsNode
<1>2. R.addr \in Memory(R)
  BY <1>1, AtSelf
<1>3. R \in Nodes /\ RootOf(R) = r
  <2>1. R.size <= r.size
    BY <1>1 DEF Sizes
  <2> HIDE DEF R
  <2>2. R.addr \in Memory(RootNode(r))
    BY <1>2 DEF R
  <2> QED
    BY <1>1, <2>1, <2>2, InRoot
<1>4. ASSUME NEW n \in L
      PROVE  Memory(n) \cap Memory(R) = {} /\ n # R
  <2>1. /\ n \in Nodes /\ RootOf(n) \in Roots /\ RootOf(n) # r
        /\ Memory(n) \subseteq Memory(RootNode(RootOf(n))) /\ n.addr \in Memory(n)
    BY NodeInRoot, AtSelf DEF Tiling
  <2>2. Memory(RootNode(RootOf(n))) \cap Memory(R) = {}
    BY <2>1, OneRoot
  <2> QED
    BY <2>1, <2>2
<1> HIDE DEF R
<1>5. Tiling(M, G \cup {r})
  <2>1. M \subseteq Nodes /\ G \cup {r} \subseteq Roots /\ \A k \in M : RootOf(k) \in G \cup {r}
    BY <1>3 DEF Tiling
  <2>2. ASSUME NEW q \in G \cup {r}, NEW x \in Memory(RootNode(q))
        PROVE  \E k \in M : x \in Memory(k)
    <3>1. CASE q = r
      BY <3>1 DEF R
    <3>2. CASE q \in G
      <4>1. PICK k \in L : x \in Memory(k)
        BY <3>2 DEF Tiling
      <4> QED
        BY <4>1
    <3> QED
      BY <3>1, <3>2
  <2>3. ASSUME NEW k \in M, NEW l \in M, k # l
        PROVE  Memory(k) \cap Memory(l) = {}
    <3>1. CASE k = R
      BY <1>4, <2>3, <3>1
    <3>2. CASE l = R
      BY <1>4, <2>3, <3>2
    <3>3. CASE k \in L /\ l \in L
      BY <2>3, <3>3 DEF Tiling
    <3> QED
      BY <3>1, <3>2, <3>3
  <2> HIDE DEF M
  <2> QED
    BY <2>1, <2>2, <2>3 DEF Tiling
<1>6. ASSUME NEW m \in Nodes, R # m
      PROVE  ~(Memory(R) \subseteq Memory(m))
  <2> SUFFICES ASSUME Memory(R) \subseteq Memory(m)
               PROVE  FALSE
    OBVIOUS
  <2>1. Dyadic(m) /\ RootOf(m) \in Roots /\ m.size <= RootOf(m).size
    BY NodeInRoot
  <2>2. R.size < m.size
    BY <1>1, <1>6, <2>1, Smaller
  <2>3. R.addr \in Memory(RootNode(r)) \cap Memory(RootNode(RootOf(m)))
    BY <1>2, NodeInRoot DEF R
  <2>4. r = RootOf(m)
    BY <2>1, <2>3, OneRoot
  <2> QED
    BY <1>1, <2>1, <2>2, <2>4 DEF Sizes, Dyadic
<1>7. Above(M) = Above(L)
  BY <1>6 DEF Above
<1> QED
  BY <1>3, <1>4, <1>5, <1>7 DEF R

-----------------------------------------------------------------------------
(* The lists                                                               *)

(* A list without repetitions. *)
Distinct(s) == \A i, j \in DOMAIN s : s[i] = s[j] => i = j

(* Taking the kth out of a list. *)
LEMMA Removed ==
  ASSUME NEW S, NEW s \in Seq(S), NEW k \in 1 .. Len(s)
  PROVE  LET u == RemoveAt(s, k) IN
         /\ u \in Seq(S) /\ Len(u) = Len(s) - 1 /\ DOMAIN u = 1 .. Len(s) - 1
         /\ \A i \in 1 .. Len(s) - 1 : u[i] = IF i < k THEN s[i] ELSE s[i + 1]
<1>1. PICK N \in Nat : N = Len(s)
  OBVIOUS
<1>2. k \in 1 .. N /\ k \in Nat /\ k - 1 \in Int /\ k + 1 \in Int /\ \A i \in 1 .. N : s[i] \in S
  BY <1>1
<1>3. PICK v \in Seq(S) :
        v = SubSeq(s, 1, k - 1) /\ Len(v) = k - 1 /\ \A i \in 1 .. k - 1 : v[i] = s[i]
  <2>1. PICK l \in Int : l = k - 1
    BY <1>2
  <2>2. \A i \in 1 .. l : s[i] \in S
    BY <1>2, <2>1
  <2>3. /\ SubSeq(s, 1, l) \in Seq(S)
        /\ Len(SubSeq(s, 1, l)) = IF 1 <= l THEN l - 1 + 1 ELSE 0
        /\ \A i \in 1 .. l - 1 + 1 : SubSeq(s, 1, l)[i] = s[1 + i - 1]
    BY <2>2, SubSeqProperties
  <2>4. \A i \in 1 .. k - 1 : i \in 1 .. l - 1 + 1 /\ 1 + i - 1 = i
    BY <1>2, <2>1
  <2>5. PICK v : v = SubSeq(s, 1, l)
    OBVIOUS
  <2>6. v \in Seq(S) /\ v = SubSeq(s, 1, k - 1)
    BY <2>1, <2>3, <2>5
  <2>7. Len(v) = k - 1
    BY <1>2, <2>1, <2>3, <2>5
  <2>8. \A i \in 1 .. k - 1 : v[i] = s[i]
    BY <2>3, <2>4, <2>5
  <2> QED
    BY <2>6, <2>7, <2>8
<1>4. PICK m \in Int : m = k + 1
  BY <1>2
<1>5. \A i \in m .. N : s[i] \in S
  BY <1>2, <1>4
<1>6. /\ SubSeq(s, m, N) \in Seq(S)
      /\ Len(SubSeq(s, m, N)) = IF m <= N THEN N - m + 1 ELSE 0
      /\ \A i \in 1 .. N - m + 1 : SubSeq(s, m, N)[i] = s[m + i - 1]
  BY <1>5, SubSeqProperties
<1>7. PICK w : w = SubSeq(s, m, N)
  OBVIOUS
<1>8. w \in Seq(S) /\ Len(w) = N - k
  BY <1>2, <1>4, <1>6, <1>7
<1>9. ASSUME NEW i \in 1 .. N - k
      PROVE  w[i] = s[k + i]
  <2>1. i \in 1 .. N - m + 1 /\ m + i - 1 = k + i
    BY <1>2, <1>4
  <2> QED
    BY <1>6, <1>7, <2>1
<1>10. RemoveAt(s, k) = v \o w
  BY <1>1, <1>3, <1>4, <1>7 DEF RemoveAt
<1>11. PICK u : u = v \o w
  OBVIOUS
<1>12. /\ u \in Seq(S) /\ Len(u) = Len(v) + Len(w)
       /\ \A i \in 1 .. Len(v) + Len(w) : u[i] = IF i <= Len(v) THEN v[i] ELSE w[i - Len(v)]
  BY <1>3, <1>8, <1>11, ConcatProperties
<1>13. Len(v) + Len(w) = N - 1
  BY <1>2, <1>3, <1>8
<1>14. DOMAIN u = 1 .. N - 1
  BY <1>12, <1>13
<1>15. ASSUME NEW i \in 1 .. N - 1
       PROVE  u[i] = IF i < k THEN s[i] ELSE s[i + 1]
  <2>1. u[i] = IF i <= k - 1 THEN v[i] ELSE w[i - (k - 1)]
    BY <1>3, <1>12, <1>13
  <2>2. CASE i < k
    <3>1. i \in 1 .. k - 1 /\ i <= k - 1
      BY <1>2, <2>2
    <3> QED
      BY <1>3, <2>1, <2>2, <3>1
  <2>3. CASE ~(i < k)
    <3>1. ~(i <= k - 1) /\ i - (k - 1) \in 1 .. N - k /\ k + (i - (k - 1)) = i + 1
      BY <1>2, <2>3
    <3>2. w[i - (k - 1)] = s[i + 1]
      BY <1>9, <3>1
    <3> QED
      BY <2>1, <2>3, <3>1, <3>2
  <2> QED
    BY <2>2, <2>3
<1> QED
  BY <1>1, <1>10, <1>11, <1>12, <1>13, <1>14, <1>15

(* Taking a node out of a list. *)
LEMMA Unlink ==
  ASSUME NEW S, NEW s \in Seq(S), Distinct(s), NEW n \in ToSet(s)
  PROVE  /\ Unlinked(s, n) \in Seq(S) /\ Distinct(Unlinked(s, n))
         /\ ToSet(Unlinked(s, n)) = ToSet(s) \ {n}
<1> DEFINE k == CHOOSE i \in DOMAIN s : s[i] = n
           u == RemoveAt(s, k)
<1>1. k \in DOMAIN s /\ s[k] = n
  BY DEF ToSet
<1> HIDE DEF k
<1>2. k \in 1 .. Len(s) /\ Len(s) \in Nat /\ DOMAIN s = 1 .. Len(s)
  BY <1>1
<1>3. u \in Seq(S) /\ Len(u) = Len(s) - 1 /\ DOMAIN u = 1 .. Len(s) - 1
  BY <1>2, Removed
<1>4. \A i \in 1 .. Len(s) - 1 : u[i] = IF i < k THEN s[i] ELSE s[i + 1]
  BY <1>2, Removed
<1> HIDE DEF u
<1>5. Distinct(u)
  <2> SUFFICES ASSUME NEW i \in 1 .. Len(s) - 1, NEW j \in 1 .. Len(s) - 1, u[i] = u[j]
               PROVE  i = j
    BY <1>3 DEF Distinct
  <2>1. /\ u[i] = IF i < k THEN s[i] ELSE s[i + 1]
        /\ u[j] = IF j < k THEN s[j] ELSE s[j + 1]
    BY <1>4
  <2>2. i \in DOMAIN s /\ j \in DOMAIN s /\ i + 1 \in DOMAIN s /\ j + 1 \in DOMAIN s
    BY <1>2
  <2>3. \A c, d \in DOMAIN s : s[c] = s[d] => c = d
    BY DEF Distinct
  <2>4. PICK c \in DOMAIN s, d \in DOMAIN s : /\ c = IF i < k THEN i ELSE i + 1
                                             /\ d = IF j < k THEN j ELSE j + 1
    BY <2>2
  <2>5. c = d
    BY <2>1, <2>3, <2>4
  <2> QED
    BY <1>2, <2>4, <2>5
<1>6. ASSUME NEW i \in 1 .. Len(s) - 1
      PROVE  u[i] \in ToSet(s) \ {n}
  <2>1. u[i] = IF i < k THEN s[i] ELSE s[i + 1]
    BY <1>4
  <2>2. {i, i + 1} \subseteq DOMAIN s
    BY <1>2
  <2>3. u[i] \in ToSet(s)
    BY <2>1, <2>2 DEF ToSet
  <2>4. u[i] # s[k]
    BY <1>2, <2>1, <2>2 DEF Distinct
  <2> QED
    BY <1>1, <2>3, <2>4
<1>7. ASSUME NEW x \in ToSet(s) \ {n}
      PROVE  \E i \in 1 .. Len(s) - 1 : u[i] = x
  <2>1. PICK j \in DOMAIN s : s[j] = x
    BY DEF ToSet
  <2>2. j # k
    BY <1>1, <2>1
  <2>3. CASE j < k
    <3>1. j \in 1 .. Len(s) - 1 /\ u[j] = x
      BY <1>2, <1>4, <2>1, <2>3
    <3> QED
      BY <3>1
  <2>4. CASE j > k
    <3>1. j - 1 \in 1 .. Len(s) - 1 /\ ~(j - 1 < k) /\ (j - 1) + 1 = j
      BY <1>2, <2>4
    <3>2. u[j - 1] = x
      BY <1>4, <2>1, <3>1
    <3> QED
      BY <3>1, <3>2
  <2> QED
    BY <1>2, <2>2, <2>3, <2>4
<1>8. ToSet(u) = ToSet(s) \ {n}
  <2>1. ToSet(u) = {u[i] : i \in 1 .. Len(s) - 1}
    BY <1>3 DEF ToSet
  <2> QED
    BY <1>6, <1>7, <2>1
<1>9. Unlinked(s, n) = u
  BY DEF Unlinked, u, k
<1> QED
  BY <1>3, <1>5, <1>8, <1>9

(* Putting one at the front. *)
LEMMA Link ==
  ASSUME NEW S, NEW s \in Seq(S), Distinct(s), NEW x \in S, x \notin ToSet(s)
  PROVE  /\ <<x>> \o s \in Seq(S) /\ Distinct(<<x>> \o s)
         /\ ToSet(<<x>> \o s) = ToSet(s) \cup {x}
<1> DEFINE u == <<x>> \o s
<1>1. u \in Seq(S) /\ Len(s) \in Nat /\ DOMAIN s = 1 .. Len(s) /\ DOMAIN u = 1 .. Len(s) + 1
  OBVIOUS
<1>2. u[1] = x /\ \A i \in 1 .. Len(s) : u[i + 1] = s[i]
  OBVIOUS
<1> HIDE DEF u
<1>3. \A i \in 2 .. Len(s) + 1 : i - 1 \in DOMAIN s /\ u[i] = s[i - 1]
  BY <1>1, <1>2
<1>4. Distinct(u)
  <2> SUFFICES ASSUME NEW i \in 1 .. Len(s) + 1, NEW j \in 1 .. Len(s) + 1, u[i] = u[j]
               PROVE  i = j
    BY <1>1 DEF Distinct
  <2>1. \A k \in 2 .. Len(s) + 1 : u[k] # x
    BY <1>3 DEF ToSet
  <2>2. CASE i = 1
    BY <1>1, <1>2, <2>1, <2>2
  <2>3. CASE j = 1
    BY <1>1, <1>2, <2>1, <2>3
  <2>4. CASE i # 1 /\ j # 1
    <3>1. i \in 2 .. Len(s) + 1 /\ j \in 2 .. Len(s) + 1
      BY <1>1, <2>4
    <3>2. i - 1 = j - 1
      BY <1>3, <3>1 DEF Distinct
    <3> QED
      BY <3>1, <3>2
  <2> QED
    BY <2>2, <2>3, <2>4
<1>5. ASSUME NEW i \in 1 .. Len(s) + 1
      PROVE  u[i] \in ToSet(s) \cup {x}
  <2>1. i = 1 \/ i \in 2 .. Len(s) + 1
    BY <1>1
  <2> QED
    BY <1>2, <1>3, <2>1 DEF ToSet
<1>6. ASSUME NEW y \in ToSet(s) \cup {x}
      PROVE  \E i \in 1 .. Len(s) + 1 : u[i] = y
  <2>1. CASE y = x
    <3>1. 1 \in 1 .. Len(s) + 1
      BY <1>1
    <3> QED
      BY <1>2, <2>1, <3>1
  <2>2. CASE y \in ToSet(s)
    <3>1. PICK j \in DOMAIN s : s[j] = y
      BY <2>2 DEF ToSet
    <3>2. j + 1 \in 1 .. Len(s) + 1 /\ u[j + 1] = y
      BY <1>1, <1>2, <3>1
    <3> QED
      BY <3>2
  <2> QED
    BY <2>1, <2>2
<1>7. ToSet(u) = ToSet(s) \cup {x}
  <2>1. ToSet(u) = {u[i] : i \in 1 .. Len(s) + 1}
    BY <1>1 DEF ToSet
  <2> QED
    BY <1>5, <1>6, <2>1
<1> QED
  BY <1>1, <1>4, <1>7 DEF u

(* Two at the front, the halves of a node that is split. *)
LEMMA LinkTwo ==
  ASSUME NEW S, NEW s \in Seq(S), Distinct(s), NEW x \in S, NEW y \in S, x # y,
         x \notin ToSet(s), y \notin ToSet(s)
  PROVE  /\ <<x, y>> \o s \in Seq(S) /\ Distinct(<<x, y>> \o s)
         /\ ToSet(<<x, y>> \o s) = ToSet(s) \cup {x, y}
<1>0. <<y>> \o s \in Seq(S)
  BY Link
<1>1. PICK u \in Seq(S) : u = <<y>> \o s
  BY <1>0
<1>2. Distinct(u) /\ ToSet(u) = ToSet(s) \cup {y}
  BY <1>1, Link
<1>3. /\ <<x>> \o u \in Seq(S) /\ Distinct(<<x>> \o u)
      /\ ToSet(<<x>> \o u) = ToSet(u) \cup {x}
  BY <1>2, Link
<1>4. <<x, y>> \o s = <<x>> \o u
  <2>1. <<x>> \in Seq(S) /\ <<y>> \in Seq(S)
    OBVIOUS
  <2>3. <<x>> \o <<y>> \in Seq(S) /\ Len(<<x>> \o <<y>>) = 2
    OBVIOUS
  <2>4. (<<x>> \o <<y>>)[1] = x /\ (<<x>> \o <<y>>)[2] = y
    OBVIOUS
  <2>6. <<x, y>> \in Seq(S) /\ Len(<<x, y>>) = 2 /\ <<x, y>>[1] = x /\ <<x, y>>[2] = y
    OBVIOUS
  <2>7. \A i \in 1 .. 2 : <<x, y>>[i] = (<<x>> \o <<y>>)[i]
    BY <2>4, <2>6
  <2>5. <<x, y>> = <<x>> \o <<y>>
    BY <2>3, <2>6, <2>7, SeqEqual
  <2>2. (<<x>> \o <<y>>) \o s = <<x>> \o (<<y>> \o s)
    BY <2>1, ConcatAssociative
  <2> QED
    BY <1>1, <2>2, <2>5
<1> QED
  BY <1>2, <1>3, <1>4

(* A list of a pool and size. *)
ListOK(s, p, b) ==
  /\ s \in Seq(Nodes) /\ Distinct(s)
  /\ \A n \in ToSet(s) : n.size = b /\ RootOf(n).pool = p

(* The lists of all pools, *)
Lists(hs) ==
  /\ hs \in [Pools -> [Sizes -> Seq(Nodes)]]
  /\ \A p \in Pools, b \in Sizes : ListOK(hs[p][b], p, b)

(* and what is in them. *)
InLists(hs) == UNION {ToSet(hs[p][b]) : p \in Pools, b \in Sizes}

(* A node is in the list of its pool and size, or in none. *)
LEMMA WhereListed ==
  ASSUME NEW hs, Lists(hs), NEW n \in InLists(hs)
  PROVE  /\ n \in Nodes /\ n.size \in Sizes /\ RootOf(n).pool \in Pools
         /\ n \in ToSet(hs[RootOf(n).pool][n.size])
<1>1. PICK p \in Pools, b \in Sizes : n \in ToSet(hs[p][b])
  BY DEF InLists
<1>2. n.size = b /\ RootOf(n).pool = p /\ hs[p][b] \in Seq(Nodes)
  BY <1>1 DEF Lists, ListOK
<1>3. n \in Nodes
  BY <1>1, <1>2 DEF ToSet
<1> QED
  BY <1>1, <1>2, <1>3

(* Nodes of a size. *)
OfSize(B, c) == {k \in B : k.size = c}

(* New lists R for a pool, without the nodes in A and with those in B. *)
Exchanges(R, lists, p, A, B) ==
  /\ R \in [Sizes -> Seq(Nodes)]
  /\ \A c \in Sizes : /\ ListOK(R[c], p, c)
                      /\ ToSet(R[c]) = (ToSet(lists[c]) \ A) \cup OfSize(B, c)
  /\ \A k \in A : RootOf(k).pool = p
  /\ \A k \in B : k.size \in Sizes

(* The lists gs are hs but for those of pool p, which are R. *)
Relists(gs, hs, p, R, A, B) ==
  /\ Lists(hs) /\ p \in Pools
  /\ Exchanges(R, hs[p], p, A, B)
  /\ gs = [hs EXCEPT ![p] = R]

(* The lists of the other pools stay. *)
LEMMA Relisted ==
  ASSUME NEW gs, NEW hs, NEW p, NEW R, NEW A, NEW B, Relists(gs, hs, p, R, A, B)
  PROVE  Lists(gs) /\ InLists(gs) = (InLists(hs) \ A) \cup B
<1>a. Lists(hs) /\ p \in Pools /\ Exchanges(R, hs[p], p, A, B) /\ gs = [hs EXCEPT ![p] = R]
  BY DEF Relists
<1>0. /\ R \in [Sizes -> Seq(Nodes)]
      /\ \A c \in Sizes : /\ ListOK(R[c], p, c)
                          /\ ToSet(R[c]) = (ToSet(hs[p][c]) \ A) \cup OfSize(B, c)
      /\ \A k \in A : RootOf(k).pool = p
      /\ \A k \in B : k.size \in Sizes
  BY <1>a DEF Exchanges
<1>1. hs \in [Pools -> [Sizes -> Seq(Nodes)]]
  BY <1>a DEF Lists
<1>2. gs \in [Pools -> [Sizes -> Seq(Nodes)]] /\ gs[p] = R
      /\ \A q \in Pools \ {p} : gs[q] = hs[q]
  BY <1>0, <1>1, <1>a
<1>3. Lists(gs)
  <2>1. ASSUME NEW q \in Pools, NEW c \in Sizes
        PROVE  ListOK(gs[q][c], q, c)
    <3>1. CASE q = p
      BY <1>0, <1>2, <3>1
    <3>2. CASE q # p
      BY <1>2, <1>a, <3>2 DEF Lists
    <3> QED
      BY <3>1, <3>2
  <2> QED
    BY <1>2, <2>1 DEF Lists
<1>4. ASSUME NEW k \in InLists(gs)
      PROVE  k \in (InLists(hs) \ A) \cup B
  <2>1. PICK q \in Pools, c \in Sizes : k \in ToSet(gs[q][c])
    BY DEF InLists
  <2>2. CASE q = p
    <3>1. k \in (ToSet(hs[p][c]) \ A) \cup OfSize(B, c)
      BY <1>0, <1>2, <2>1, <2>2
    <3> QED
      BY <1>a, <3>1 DEF InLists, OfSize
  <2>3. CASE q # p
    <3>1. k \in ToSet(hs[q][c])
      BY <1>2, <2>1, <2>3
    <3>2. RootOf(k).pool = q
      BY <1>a, <3>1 DEF Lists, ListOK
    <3> QED
      BY <1>0, <2>3, <3>1, <3>2 DEF InLists
  <2> QED
    BY <2>2, <2>3
<1>5. ASSUME NEW k \in InLists(hs), k \notin A
      PROVE  k \in InLists(gs)
  <2>1. PICK q \in Pools, c \in Sizes : k \in ToSet(hs[q][c])
    BY DEF InLists
  <2>2. k \in ToSet(gs[q][c])
    BY <1>a, <1>0, <1>2, <1>5, <2>1
  <2> QED
    BY <1>a, <2>2 DEF InLists
<1>6. ASSUME NEW k \in B
      PROVE  k \in InLists(gs)
  <2>1. PICK c \in Sizes : c = k.size
    BY <1>0
  <2>2. k \in ToSet(gs[p][c])
    BY <1>a, <1>0, <1>2, <2>1 DEF OfSize
  <2> QED
    BY <1>a, <2>2 DEF InLists
<1> QED
  BY <1>3, <1>4, <1>5, <1>6

(* The nodes of a chain by their size. *)
LEMMA ChainSizes ==
  ASSUME NEW a \in Nat, NEW b, NEW t, Levels(b, t), b # t, NEW c \in Sizes
  PROVE  LET K == OfSize(Chain(a, b, t), c) IN
         /\ c < b \/ c >= t => K = {}
         /\ c = b => K = {At(a, b), Sibling(At(a, b))}
         /\ b < c /\ c < t => K = {Sibling(At(a, c))}
<1>1. MaxBits \in Nat /\ b \in Nat /\ t \in Nat /\ b < t /\ t <= MaxBits /\ c \in Nat
  BY BitsDouble DEF Levels, Sizes
<1>2. ASSUME NEW k \in Chain(a, b, t), k.size = c
      PROVE  /\ c \in b .. t - 1 /\ (k = At(a, b) \/ k = Sibling(At(a, c)))
             /\ (k = At(a, b) => c = b)
  <2>1. k.size \in b .. t /\ (k = At(a, b) \/ (k.size < t /\ k = Sibling(At(a, k.size))))
    BY ChainNode
  <2>2. At(a, b).size = b
    BY <1>1, AtHolds
  <2> QED
    BY <1>1, <1>2, <2>1, <2>2
<1>3. ASSUME c \in b .. t - 1
      PROVE  Sibling(At(a, c)) \in Chain(a, b, t) /\ Sibling(At(a, c)).size = c
  <2>1. Sibling(At(a, c)) \in Chain(a, b, t)
    BY <1>3 DEF Chain
  <2>2. PICK n : n = At(a, c)
    OBVIOUS
  <2>5. c \in 0 .. MaxBits + 1
    BY <1>1 DEF Sizes
  <2>3. Dyadic(n) /\ n.size = c
    BY <2>2, <2>5, AtHolds
  <2>4. Sibling(n).size = c
    BY <2>3, Siblings
  <2> QED
    BY <2>1, <2>2, <2>4
<1>4. At(a, b) \in Chain(a, b, t) /\ At(a, b).size = b
  BY <1>1, AtHolds, ChainEnds
<1>5. CASE c < b \/ c >= t
  BY <1>1, <1>2, <1>5 DEF OfSize
<1>6. CASE c = b
  <2>1. c \in b .. t - 1
    BY <1>1, <1>6
  <2> QED
    BY <1>1, <1>2, <1>3, <1>4, <1>6, <2>1 DEF OfSize
<1>7. CASE b < c /\ c < t
  <2>1. c \in b .. t - 1
    BY <1>1, <1>7
  <2> QED
    BY <1>1, <1>2, <1>3, <1>7, <2>1 DEF OfSize
<1> QED
  BY <1>1, <1>5, <1>6, <1>7

-----------------------------------------------------------------------------
(* What is true after every step.                                          *)
SplitInv ==
  /\ Lists(heads)
  /\ Tiling(FreeNodes \cup used, given)
  /\ FreeNodes \cap used = {}
  /\ split = Above(FreeNodes \cup used)

(* The lists after a node has been split: they have the nodes of the chain  *)
(* in its place.                                                            *)
LEMMA RefilledLists ==
  ASSUME SplitInv, NEW p \in Pools, NEW t \in Sizes, NEW n \in ToSet(heads[p][t]), NEW paddr,
         Target(n, paddr) \in Memory(n), NEW b \in 0 .. t, NEW c \in Sizes
  PROVE  LET R == Refilled(heads[p], n, b, paddr) IN
         /\ R = [d \in Sizes |-> R[d]]
         /\ ListOK(R[c], p, c)
         /\ ToSet(R[c]) = (ToSet(heads[p][c]) \ {n})
              \cup OfSize(Chain(Target(n, paddr), b, t), c)
<1> DEFINE R == Refilled(heads[p], n, b, paddr)
           a == Target(n, paddr)
           C == Chain(a, b, t)
           L == FreeNodes \cup used
<1>1. ListOK(heads[p][c], p, c) /\ ListOK(heads[p][t], p, t) /\ Lists(heads)
  BY DEF SplitInv, Lists
<1>2. n.size = t /\ RootOf(n).pool = p /\ n \in FreeNodes /\ Tiling(L, given)
  BY <1>1 DEF ListOK, FreeNodes, SplitInv
<1>3. n \in Nodes /\ n \in L
  BY <1>2 DEF Tiling
<1>4. a \in Nat /\ Levels(b, t) /\ n = At(a, t)
  BY <1>2, <1>3, ChainOf
<1>5. ASSUME NEW k \in C
      PROVE  k \in Nodes /\ RootOf(k).pool = p
  BY <1>2, <1>3, ChainOf
<1>6. ASSUME NEW k \in C, NEW m \in ToSet(heads[p][c]), m # n
      PROVE  k # m
  <2>1. m \in L
    BY DEF FreeNodes
  <2> QED
    BY <1>2, <1>3, <1>6, <2>1, ChainIsNew
<1>7. MaxBits \in Nat /\ b \in Nat /\ t \in Nat /\ c \in Nat /\ b <= t
  BY <1>4, BitsDouble DEF Levels, Sizes
<1>8. /\ R = [d \in Sizes |-> R[d]]
      /\ R[c] = CASE c < b \/ c > n.size \/ b = n.size -> heads[p][c]
                  [] c = n.size /\ b < n.size -> Unlinked(heads[p][c], n)
                  [] OTHER -> LET d == Descendant(n, c, paddr) IN
                              IF c = b THEN <<Left(Parent(d)), Right(Parent(d))>> \o heads[p][c]
                              ELSE <<Sibling(d)>> \o heads[p][c]
  BY DEF Refilled
<1>9. Descendant(n, c, paddr) = At(a, c)
  BY DEF Descendant
<1> DEFINE K == OfSize(C, c)
<1> SUFFICES ListOK(R[c], p, c) /\ ToSet(R[c]) = (ToSet(heads[p][c]) \ {n}) \cup K
  BY <1>8
<1> HIDE DEF R, a
<1>10. CASE b = t
  <2>1. R[c] = heads[p][c]
    BY <1>2, <1>8, <1>10
  <2>2. C = {n}
    <3>1. (b .. t - 1) = {}
      BY <1>7, <1>10
    <3> QED
      BY <1>4, <1>10, <3>1 DEF Chain
  <2>3. n \in ToSet(heads[p][c]) => n.size = c
    BY <1>1 DEF ListOK
  <2>4. n.size = c => n \in ToSet(heads[p][c])
    BY <1>2
  <2>5. ToSet(R[c]) = (ToSet(heads[p][c]) \ {n}) \cup K
    BY <2>1, <2>2, <2>3, <2>4 DEF OfSize
  <2> QED
    BY <1>1, <2>1, <2>5
<1>11. CASE b # t /\ (c < b \/ c > t)
  <2>1. R[c] = heads[p][c]
    BY <1>2, <1>8, <1>11
  <2>2. K = {}
    BY <1>4, <1>7, <1>11, ChainSizes
  <2>3. n \notin ToSet(heads[p][c])
    BY <1>1, <1>2, <1>7, <1>11 DEF ListOK
  <2> QED
    BY <1>1, <2>1, <2>2, <2>3
<1>12. CASE b # t /\ c = t
  <2>1. R[c] = Unlinked(heads[p][c], n)
    BY <1>2, <1>7, <1>8, <1>12
  <2>2. K = {}
    BY <1>4, <1>7, <1>12, ChainSizes
  <2>3. /\ Unlinked(heads[p][c], n) \in Seq(Nodes) /\ Distinct(Unlinked(heads[p][c], n))
        /\ ToSet(Unlinked(heads[p][c], n)) = ToSet(heads[p][c]) \ {n}
    BY <1>1, <1>12, Unlink DEF ListOK
  <2>4. ListOK(R[c], p, c)
    BY <1>1, <2>1, <2>3 DEF ListOK
  <2> QED
    BY <2>1, <2>2, <2>3, <2>4
<1>13. CASE b # t /\ c = b
  <2>1. R[c] = <<Left(Parent(At(a, c))), Right(Parent(At(a, c)))>> \o heads[p][c]
    BY <1>2, <1>7, <1>8, <1>9, <1>13
  <2>2. K = {At(a, c), Sibling(At(a, c))}
    BY <1>4, <1>7, <1>13, ChainSizes
  <2>3. PICK d : d = At(a, c)
    OBVIOUS
  <2>4. Dyadic(d) /\ d.size = c
    <3>1. c \in 0 .. MaxBits + 1
      BY <1>7 DEF Sizes
    <3> QED
      BY <1>4, <2>3, <3>1, AtHolds
  <2>5. {d, Sibling(d)} = {Left(Parent(d)), Right(Parent(d))} /\ d # Sibling(d)
    BY <2>4, Siblings
  <2>6. PICK x \in K, y \in K : /\ x = Left(Parent(d)) /\ y = Right(Parent(d))
                                /\ x # y /\ K = {x, y}
    BY <2>2, <2>3, <2>5
  <2>7. n \notin ToSet(heads[p][c])
    BY <1>1, <1>2, <1>7, <1>13 DEF ListOK
  <2>8. x \in Nodes /\ y \in Nodes /\ x \notin ToSet(heads[p][c]) /\ y \notin ToSet(heads[p][c])
    BY <1>5, <1>6, <2>7 DEF OfSize
  <2>9. /\ R[c] \in Seq(Nodes) /\ Distinct(R[c])
        /\ ToSet(R[c]) = ToSet(heads[p][c]) \cup {x, y}
    BY <1>1, <2>1, <2>3, <2>6, <2>8, LinkTwo DEF ListOK
  <2>10. ListOK(R[c], p, c)
    BY <1>1, <1>5, <2>6, <2>9 DEF ListOK, OfSize
  <2> QED
    BY <2>6, <2>7, <2>9, <2>10
<1>14. CASE b # t /\ b < c /\ c < t
  <2>1. R[c] = <<Sibling(At(a, c))>> \o heads[p][c]
    BY <1>2, <1>7, <1>8, <1>9, <1>14
  <2>2. K = {Sibling(At(a, c))}
    BY <1>4, <1>7, <1>14, ChainSizes
  <2>3. PICK x \in K : x = Sibling(At(a, c)) /\ K = {x}
    BY <2>2
  <2>7. n \notin ToSet(heads[p][c])
    BY <1>1, <1>2, <1>7, <1>14 DEF ListOK
  <2>8. x \in Nodes /\ x \notin ToSet(heads[p][c])
    BY <1>5, <1>6, <2>7 DEF OfSize
  <2>9. /\ R[c] \in Seq(Nodes) /\ Distinct(R[c])
        /\ ToSet(R[c]) = ToSet(heads[p][c]) \cup {x}
    BY <1>1, <2>1, <2>3, <2>8, Link DEF ListOK
  <2>10. ListOK(R[c], p, c)
    BY <1>1, <1>5, <2>3, <2>9 DEF ListOK, OfSize
  <2> QED
    BY <2>3, <2>7, <2>9, <2>10
<1> QED
  BY <1>7, <1>10, <1>11, <1>12, <1>13, <1>14

(* An address is a number. *)
LEMMA AddressNat ==
  ASSUME NEW a \in Addresses
  PROVE  a \in Nat
<1>1. PICK r \in Roots : a \in Memory(RootNode(r))
  BY AddressRoot
<1>2. Dyadic(RootNode(r))
  BY RootIsNode
<1> QED
  BY <1>1, <1>2, OnlyAt

(* The node that is split is in the list it is looked for in, and holds    *)
(* what is asked for.                                                      *)
LEMMA SourceFound ==
  ASSUME SplitInv, NEW p \in Pools, NEW size \in Sizes, NEW paddr \in Requests(size),
         CanServe(p, size, paddr)
  PROVE  LET n == SourceNode(p, size, paddr) IN
         /\ n.size \in Sizes /\ size \in 0 .. n.size
         /\ n \in ToSet(heads[p][n.size]) /\ Target(n, paddr) \in Memory(n)
         /\ n \in Nodes
<1> DEFINE b == Min(Sources(p, size, paddr))
           s == heads[p][b]
           k == Min(Serving(s, paddr))
           n == SourceNode(p, size, paddr)
<1>1. Sources(p, size, paddr) # {} /\ Sources(p, size, paddr) \in SUBSET Nat
  BY DEF CanServe, Sources, Sizes
<1>2. b \in Sources(p, size, paddr)
  BY <1>1, MinIsLeast
<1> HIDE DEF b
<1>3. b \in size .. MaxBits /\ Serving(s, paddr) # {} /\ b \in Sizes /\ size \in 0 .. b
  BY <1>2, BitsDouble DEF Sources, Sizes
<1>4. ListOK(s, p, b)
  BY <1>3 DEF SplitInv, Lists
<1> HIDE DEF s
<1>5. Serving(s, paddr) \in SUBSET Nat
  BY <1>4 DEF ListOK, Serving
<1>6. k \in Serving(s, paddr)
  BY <1>3, <1>5, MinIsLeast
<1>7. n = s[k]
  BY DEF SourceNode, b, s
<1> HIDE DEF k, n
<1>8. k \in DOMAIN s /\ Serves(n, paddr)
  BY <1>6, <1>7 DEF Serving
<1>9. n \in ToSet(s) /\ n \in Nodes /\ n.size = b
  BY <1>4, <1>7, <1>8 DEF ListOK, ToSet
<1>10. Target(n, paddr) \in Memory(n)
  <2>1. CASE paddr = NO_PADDR
    BY <1>9, <2>1, NodeInRoot, AtSelf DEF Target
  <2>2. CASE paddr # NO_PADDR
    <3>1. paddr \in Nat
      BY <2>2, AddressNat DEF Requests
    <3>2. n.addr <= paddr /\ paddr < n.addr + BIT[n.size]
      BY <1>8, <2>2 DEF Serves, Covers
    <3>3. n.addr \in Nat /\ n.size \in 0 .. MaxBits + 1
      BY <1>9, NodeInRoot DEF Dyadic
    <3>4. BIT[n.size] \in Nat
      BY <3>3, BitsPositive
    <3>5. paddr \in Memory(n)
      BY <3>1, <3>2, <3>3, <3>4 DEF Memory
    <3> QED
      BY <2>2, <3>5 DEF Target
  <2> QED
    BY <2>1, <2>2
<1> QED
  BY <1>3, <1>9, <1>10 DEF n, s

(* What a split does to the free nodes and to all of them. *)
LEMMA SplitDone ==
  ASSUME SplitInv, NEW p \in Pools, NEW n \in Nodes, n.size \in Sizes,
         n \in ToSet(heads[p][n.size]),
         NEW paddr, Target(n, paddr) \in Memory(n), NEW b \in 0 .. n.size
  PROVE  LET C == Chain(Target(n, paddr), b, n.size)
             L == FreeNodes \cup used IN
         /\ n \in FreeNodes /\ n \notin used /\ RootOf(n).pool = p
         /\ \A k \in C : k.size \in Sizes /\ k \notin L \ {n}
         /\ Tiling((L \ {n}) \cup C, given)
         /\ Above((L \ {n}) \cup C) = split \cup SplitNodes(n, b, paddr)
<1> DEFINE a == Target(n, paddr)
           C == Chain(a, b, n.size)
           L == FreeNodes \cup used
<1>1. ListOK(heads[p][n.size], p, n.size) /\ Tiling(L, given) /\ FreeNodes \cap used = {}
      /\ split = Above(L)
  BY DEF SplitInv, Lists
<1>2. n \in FreeNodes /\ n \notin used /\ RootOf(n).pool = p
  BY <1>1 DEF ListOK, FreeNodes
<1>3. \A k \in C : k \in Nodes
  BY ChainOf
<1>4. \A k \in C : k.size \in Sizes
  BY <1>3, NodeInRoot
<1>5. ASSUME NEW k \in C, NEW m \in L \ {n}
      PROVE  k # m
  BY <1>1, <1>2, <1>5, ChainIsNew
<1>6. /\ Tiling((L \ {n}) \cup C, given)
      /\ Above((L \ {n}) \cup C) = Above(L) \cup OnWay(a, b, n.size)
  <2>1. n \in L
    BY <1>2
  <2> HIDE DEF L
  <2> QED
    BY <1>1, <2>1, SplitTiles
<1>7. SplitNodes(n, b, paddr) = OnWay(a, b, n.size)
  BY DEF SplitNodes, Descendant, OnWay
<1> QED
  BY <1>1, <1>2, <1>4, <1>5, <1>6, <1>7

(* The pool that is chosen. *)
LEMMA PoolChosen ==
  ASSUME NEW size, NEW paddr, NEW canBeDev
  PROVE  PoolFor(size, paddr, canBeDev) \in Pools
BY DEF PoolFor, PoolAnywhere, PoolAt, Pools

(* The lists have the type of lists after a split. *)
LEMMA RefilledType ==
  ASSUME SplitInv, NEW p \in Pools, NEW n \in Nodes, n.size \in Sizes,
         n \in ToSet(heads[p][n.size]),
         NEW paddr, Target(n, paddr) \in Memory(n), NEW b \in 0 .. n.size
  PROVE  Exchanges(Refilled(heads[p], n, b, paddr), heads[p], p, {n},
                   Chain(Target(n, paddr), b, n.size))
<1> DEFINE R == Refilled(heads[p], n, b, paddr)
<1>1. PICK t \in Sizes : t = n.size
  OBVIOUS
<1>2. n \in ToSet(heads[p][t]) /\ b \in 0 .. t
  BY <1>1
<1>3. ASSUME NEW c \in Sizes
      PROVE  /\ R = [d \in Sizes |-> R[d]]
             /\ ListOK(R[c], p, c)
             /\ ToSet(R[c]) = (ToSet(heads[p][c]) \ {n})
                  \cup OfSize(Chain(Target(n, paddr), b, t), c)
  BY <1>2, RefilledLists
<1> HIDE DEF R
<1>4. R = [d \in Sizes |-> R[d]]
  BY <1>3
<1>5. \A c \in Sizes : R[c] \in Seq(Nodes)
  BY <1>3 DEF ListOK
<1>6. R \in [Sizes -> Seq(Nodes)]
  BY <1>4, <1>5
<1>7. RootOf(n).pool = p /\ \A k \in Chain(Target(n, paddr), b, n.size) : k.size \in Sizes
  BY SplitDone
<1> QED
  BY <1>1, <1>3, <1>6, <1>7 DEF R, Exchanges

(* _utspace_split_alloc() keeps the invariant when it fails half way, *)
LEMMA SplitFailStep ==
  ASSUME SplitInv, NEW size \in Sizes, NEW paddr \in Requests(size), NEW canBeDev \in BOOLEAN,
         SplitAllocFails(size, paddr, canBeDev)
  PROVE  SplitInv'
<1> DEFINE p == PoolFor(size, paddr, canBeDev)
           n == SourceNode(p, size, paddr)
           a == Target(n, paddr)
           L == FreeNodes \cup used
<1>1. PICK b \in size .. n.size :
        /\ heads' = [heads EXCEPT ![p] = Refilled(heads[p], n, b, paddr)]
        /\ split' = split \cup SplitNodes(n, b, paddr)
  BY DEF SplitAllocFails
<1>2. CanServe(p, size, paddr) /\ used' = used /\ given' = given
  BY DEF SplitAllocFails
<1>3. p \in Pools
  BY PoolChosen
<1> HIDE DEF p
<1>4. /\ n.size \in Sizes /\ size \in 0 .. n.size
      /\ n \in ToSet(heads[p][n.size]) /\ a \in Memory(n) /\ n \in Nodes
  BY <1>2, <1>3, SourceFound
<1>5. b \in 0 .. n.size
  BY <1>4 DEF Sizes
<1> HIDE DEF n
<1> DEFINE R == Refilled(heads[p], n, b, paddr)
           C == Chain(a, b, n.size)
<1>6. Exchanges(R, heads[p], p, {n}, C)
  BY <1>3, <1>4, <1>5, RefilledType
<1>7. /\ n \in FreeNodes /\ n \notin used /\ RootOf(n).pool = p
      /\ \A k \in C : k.size \in Sizes /\ k \notin L \ {n}
      /\ Tiling((L \ {n}) \cup C, given)
      /\ Above((L \ {n}) \cup C) = split \cup SplitNodes(n, b, paddr)
  BY <1>3, <1>4, <1>5, SplitDone
<1>8. Lists(heads) /\ FreeNodes \cap used = {} /\ FreeNodes = InLists(heads)
  BY DEF SplitInv, FreeNodes, InLists
<1> HIDE DEF C, R, a
<1>9. heads' = [heads EXCEPT ![p] = R]
  BY <1>1 DEF R
<1>10. Lists(heads') /\ InLists(heads') = (InLists(heads) \ {n}) \cup C
  <2>1. Relists(heads', heads, p, R, {n}, C)
    BY <1>3, <1>6, <1>8, <1>9 DEF Relists
  <2> QED
    BY <2>1, Relisted
<1>11. FreeNodes' = (FreeNodes \ {n}) \cup C
  BY <1>8, <1>10 DEF FreeNodes, InLists
<1>12. FreeNodes' \cup used' = (L \ {n}) \cup C
  BY <1>2, <1>7, <1>11
<1>13. FreeNodes' \cap used' = {}
  BY <1>2, <1>7, <1>8, <1>11
<1> QED
  BY <1>1, <1>2, <1>7, <1>10, <1>12, <1>13 DEF SplitInv, Lists

(* An allocation takes a node from the free ones, and leaves of it the      *)
(* chain that ends at the node handed out.                                  *)
TakesFrom(G, F) ==
  \E n \in F : \E a \in Memory(n), b \in 0 .. n.size :
    G = (F \ {n}) \cup (Chain(a, b, n.size) \ {At(a, b)})

(* _utspace_split_alloc() keeps the invariant, *)
LEMMA SplitAllocStep ==
  ASSUME SplitInv, NEW size \in Sizes, NEW paddr \in Requests(size), NEW canBeDev \in BOOLEAN,
         SplitAlloc(size, paddr, canBeDev)
  PROVE  SplitInv' /\ TakesFrom(FreeNodes', FreeNodes)
<1> DEFINE p == PoolFor(size, paddr, canBeDev)
           n == SourceNode(p, size, paddr)
           a == Target(n, paddr)
           L == FreeNodes \cup used
           node == Descendant(n, size, paddr)
           R == Refilled(heads[p], n, size, paddr)
           S == [R EXCEPT ![size] = Unlinked(R[size], node)]
           C == Chain(a, size, n.size)
<1>1. /\ CanServe(p, size, paddr) /\ used' = used \cup {node} /\ given' = given
      /\ split' = split \cup SplitNodes(n, size, paddr)
  BY DEF SplitAlloc
<1>2. heads' = [heads EXCEPT ![p] = S]
  BY DEF SplitAlloc
<1>3. p \in Pools
  BY PoolChosen
<1> HIDE DEF p
<1>4. /\ n.size \in Sizes /\ size \in 0 .. n.size
      /\ n \in ToSet(heads[p][n.size]) /\ a \in Memory(n) /\ n \in Nodes
  BY <1>1, <1>3, SourceFound
<1> HIDE DEF n, S
<1>6. Exchanges(R, heads[p], p, {n}, C)
  BY <1>3, <1>4, RefilledType
<1>7. /\ n \in FreeNodes /\ n \notin used /\ RootOf(n).pool = p
      /\ \A k \in C : k.size \in Sizes /\ k \notin L \ {n}
      /\ Tiling((L \ {n}) \cup C, given)
      /\ Above((L \ {n}) \cup C) = split \cup SplitNodes(n, size, paddr)
  BY <1>3, <1>4, SplitDone
<1>8. Lists(heads) /\ FreeNodes \cap used = {} /\ FreeNodes = InLists(heads)
  BY DEF SplitInv, FreeNodes, InLists
<1>9. node \in C /\ node.size = size
  <2>1. node = At(a, size)
    BY DEF Descendant
  <2>2. a \in Nat
    BY <1>4, ChainOf
  <2>3. size \in 0 .. MaxBits + 1
    BY BitsDouble DEF Sizes
  <2> QED
    BY <2>1, <2>2, <2>3, AtHolds, ChainEnds
<1> HIDE DEF C, R, a, node
<1>5. /\ R \in [Sizes -> Seq(Nodes)]
      /\ \A c \in Sizes : /\ ListOK(R[c], p, c)
                          /\ ToSet(R[c]) = (ToSet(heads[p][c]) \ {n}) \cup OfSize(C, c)
  BY <1>6 DEF Exchanges
<1>10. node \in ToSet(R[size])
  BY <1>5, <1>9 DEF OfSize
<1>11. /\ Unlinked(R[size], node) \in Seq(Nodes) /\ Distinct(Unlinked(R[size], node))
       /\ ToSet(Unlinked(R[size], node)) = ToSet(R[size]) \ {node}
  BY <1>5, <1>10, Unlink DEF ListOK
<1>12. S \in [Sizes -> Seq(Nodes)]
  BY <1>5, <1>11 DEF S
<1> DEFINE B == C \ {node}
<1>13. ASSUME NEW c \in Sizes
       PROVE  /\ ListOK(S[c], p, c)
              /\ ToSet(S[c]) = (ToSet(heads[p][c]) \ {n}) \cup OfSize(B, c)
  <2>1. CASE c = size
    <3>1. S[c] = Unlinked(R[size], node)
      BY <1>5, <2>1 DEF S
    <3>2. ListOK(S[c], p, c)
      BY <1>5, <1>11, <2>1, <3>1 DEF ListOK
    <3>3. ToSet(heads[p][c]) \subseteq L
      BY <1>3 DEF FreeNodes
    <3>4. node \notin ToSet(heads[p][c]) \ {n}
      BY <1>7, <1>9, <3>3
    <3> QED
      BY <1>5, <1>9, <1>11, <2>1, <3>1, <3>2, <3>4 DEF OfSize
  <2>2. CASE c # size
    <3>1. S[c] = R[c]
      BY <1>5, <2>2 DEF S
    <3>2. OfSize(B, c) = OfSize(C, c)
      BY <1>9, <2>2 DEF OfSize
    <3> QED
      BY <1>5, <3>1, <3>2
  <2> QED
    BY <2>1, <2>2
<1>14. Lists(heads') /\ InLists(heads') = (InLists(heads) \ {n}) \cup B
  <2>1. \A k \in B : k.size \in Sizes
    BY <1>7
  <2> HIDE DEF B
  <2>2. \A k \in {n} : RootOf(k).pool = p
    BY <1>7
  <2>3. Exchanges(S, heads[p], p, {n}, B)
    BY <1>12, <1>13, <2>1, <2>2 DEF Exchanges
  <2>4. Relists(heads', heads, p, S, {n}, B)
    BY <1>2, <1>3, <1>8, <2>3 DEF Relists
  <2> QED
    BY <2>4, Relisted
<1>15. FreeNodes' = (FreeNodes \ {n}) \cup B
  BY <1>8, <1>14 DEF FreeNodes, InLists
<1>16. FreeNodes' \cup used' = (L \ {n}) \cup C
  BY <1>1, <1>7, <1>9, <1>15
<1>17. FreeNodes' \cap used' = {}
  <2>1. node \notin FreeNodes \ {n}
    BY <1>7, <1>9
  <2>2. B \cap used = {}
    BY <1>7
  <2> QED
    BY <1>1, <1>8, <1>15, <2>1, <2>2
<1>18. SplitInv'
  BY <1>1, <1>7, <1>14, <1>16, <1>17 DEF SplitInv, Lists
<1>19. TakesFrom(FreeNodes', FreeNodes)
  <2>1. FreeNodes' = (FreeNodes \ {n}) \cup (Chain(a, size, n.size) \ {At(a, size)})
    BY <1>15 DEF C, node, Descendant, a
  <2> QED
    BY <1>4, <1>7, <2>1 DEF TakesFrom
<1> QED
  BY <1>18, <1>19

(* The node a merge ends with: every node on the way to it has a free       *)
(* sibling, and it has none or is the untyped as it was given.              *)
LEMMA MergeEnds ==
  ASSUME SplitInv, NEW n \in used
  PROVE  LET top == MergedTop(n) IN
         /\ n \in Nodes /\ top \in Nodes /\ n.addr \in Memory(top) /\ n.size \in 0 .. top.size
         /\ top = At(n.addr, top.size) /\ n = At(n.addr, n.size) /\ n.addr \in Nat
         /\ RootOf(top) = RootOf(n) /\ ~Merges(top)
         /\ \A c \in n.size .. top.size - 1 : Sibling(At(n.addr, c)) \in FreeNodes
<1> DEFINE a == n.addr
           r == RootOf(n)
           S == {c \in n.size .. MaxBits : ~Merges(At(a, c))}
           t == Min(S)
           top == MergedTop(n)
<1>1. n \in Nodes
  BY DEF SplitInv, Tiling
<1>2. /\ Dyadic(n) /\ n.size \in Sizes /\ r \in Roots /\ a \in Memory(RootNode(r))
      /\ n.size <= r.size
  BY <1>1, NodeInRoot
<1>3. /\ Dyadic(RootNode(r)) /\ RootNode(r).size = r.size /\ r.size \in Sizes
  BY <1>2, RootIsNode
<1>4. a \in Nat /\ RootNode(r) = At(a, r.size) /\ n = At(a, n.size)
  BY <1>2, <1>3, OnlyAt, AtSelf
<1> HIDE DEF r
<1>5. n.size \in Nat /\ r.size \in n.size .. MaxBits /\ MaxBits \in Nat
  BY <1>2, <1>3, BitsDouble DEF Sizes
<1>6. r.size \in S
  <2>1. RootNode(r).addr \in Memory(RootNode(r))
    BY <1>3, AtSelf
  <2>2. RootOf(RootNode(r)) = r
    BY <1>2, <2>1, RootIs
  <2>3. ~Merges(At(a, r.size))
    BY <1>4, <2>2 DEF Merges, IsRoot
  <2> QED
    BY <1>5, <2>3
<1>7. t \in S /\ t <= r.size /\ \A c \in S : t <= c
  <2>1. S \in SUBSET Nat
    BY <1>5
  <2>2. PICK x \in S : \A c \in S : x <= c
    BY <1>6, <2>1, LeastNat
  <2> HIDE DEF S
  <2> QED
    BY <1>6, <2>2 DEF Min
<1>8. top = At(a, t)
  BY DEF MergedTop, Ancestor
<1> HIDE DEF t, top
<1>9. t \in n.size .. MaxBits /\ ~Merges(top)
  BY <1>7, <1>8
<1>10. t \in 0 .. MaxBits + 1 /\ r.size \in t .. MaxBits + 1 /\ n.size \in 0 .. t
  BY <1>5, <1>7, <1>9
<1>11. Dyadic(top) /\ top.size = t /\ a \in Memory(top)
  BY <1>4, <1>8, <1>10, AtHolds
<1>12. Memory(top) \subseteq Memory(RootNode(r))
  BY <1>4, <1>8, <1>10, Nested
<1>13. top.addr \in Memory(RootNode(r))
  BY <1>11, <1>12, AtSelf
<1>14. top \in Nodes /\ RootOf(top) = r
  BY <1>2, <1>7, <1>11, <1>13, InRoot
<1>15. ASSUME NEW c \in n.size .. t - 1
       PROVE  Sibling(At(a, c)) \in FreeNodes
  <2>1. c \in n.size .. MaxBits /\ ~(t <= c)
    BY <1>5, <1>9
  <2>2. Merges(At(a, c))
    BY <1>7, <2>1
  <2> QED
    BY <2>2 DEF Merges
<1> QED
  BY <1>1, <1>4, <1>8, <1>9, <1>10, <1>11, <1>14, <1>15 DEF top, r

(* The lists after a merge. *)
MergedHeads(n) ==
  LET top == MergedTop(n)
      lists == heads[RootOf(n).pool] IN
  [b \in Sizes |-> CASE n.size <= b /\ b < top.size -> Unlinked(lists[b], Sibling(Ancestor(n, b)))
                     [] b = top.size -> <<top>> \o lists[b]
                     [] OTHER -> lists[b]]

(* A merge takes the siblings out of their lists. *)
LEMMA MergedLists ==
  ASSUME SplitInv, NEW n \in used
  PROVE  LET p == RootOf(n).pool
             C == Chain(n.addr, n.size, MergedTop(n).size) IN
         /\ p \in Pools
         /\ Exchanges(MergedHeads(n), heads[p], p, C \ {n}, {MergedTop(n)})
         /\ C \ {n} \subseteq FreeNodes /\ n \in C /\ n \notin FreeNodes
         /\ MergedTop(n) \notin FreeNodes
<1> DEFINE a == n.addr
           top == MergedTop(n)
           t == top.size
           b == n.size
           p == RootOf(n).pool
           C == Chain(a, b, t)
           A == C \ {n}
           L == FreeNodes \cup used
           R == MergedHeads(n)
<1>1. /\ n \in Nodes /\ top \in Nodes /\ a \in Memory(top) /\ b \in 0 .. t
      /\ top = At(a, t) /\ n = At(a, b) /\ a \in Nat
      /\ RootOf(top) = RootOf(n)
      /\ \A c \in b .. t - 1 : Sibling(At(a, c)) \in FreeNodes
  BY MergeEnds
<1>3. R = [c \in Sizes |-> R[c]]
  BY DEF MergedHeads
<1> HIDE DEF top, R
<1>4. Levels(b, t) /\ t \in Sizes /\ \A k \in C : k \in Nodes /\ RootOf(k) = RootOf(n)
  BY <1>1, ChainOf, NodeInRoot
<1>5. MaxBits \in Nat /\ b \in Nat /\ t \in Nat /\ b <= t
  BY <1>4, BitsDouble DEF Levels, Sizes
<1>6. p \in Pools
  BY <1>1, NodeInRoot, RootIsNode
<1>7. n \in C /\ n \notin FreeNodes
  <2>1. n \in C
    BY <1>1, ChainEnds
  <2> QED
    BY <2>1 DEF SplitInv
<1>8. ASSUME NEW k \in A
      PROVE  k \in FreeNodes /\ k.size \in b .. t - 1 /\ k = Sibling(At(a, k.size))
  <2>1. k # At(a, b)
    BY <1>1
  <2>2. k.size \in b .. t /\ k.size < t /\ k = Sibling(At(a, k.size))
    BY <1>1, <1>4, <2>1, ChainNode
  <2>3. k.size \in b .. t - 1
    BY <1>5, <2>2
  <2> QED
    BY <1>1, <2>2, <2>3
<1>9. ASSUME NEW c \in b .. t - 1
      PROVE  /\ Sibling(At(a, c)) \in A /\ Sibling(At(a, c)).size = c
             /\ Sibling(At(a, c)) \in ToSet(heads[p][c])
  <2>1. PICK k : k = Sibling(At(a, c))
    OBVIOUS
  <2>2. k \in C
    BY <2>1 DEF Chain
  <2>3. k \in FreeNodes
    BY <1>1, <2>1
  <2>4. k \in A
    BY <1>7, <2>2, <2>3
  <2>5. c \in Sizes /\ c \in 0 .. MaxBits + 1
    BY <1>4, <1>5 DEF Sizes
  <2>6. PICK d : d = At(a, c)
    OBVIOUS
  <2>7. Dyadic(d) /\ d.size = c
    BY <1>1, <2>5, <2>6, AtHolds
  <2>8. k.size = c
    BY <2>1, <2>5, <2>6, <2>7, Siblings
  <2>9. RootOf(k).pool = p
    BY <1>4, <2>2
  <2>10. k \in InLists(heads) /\ Lists(heads)
    BY <2>3 DEF FreeNodes, InLists, SplitInv
  <2>11. k \in ToSet(heads[RootOf(k).pool][k.size])
    BY <2>10, WhereListed
  <2> QED
    BY <2>1, <2>4, <2>8, <2>9, <2>11
<1>10. top \notin FreeNodes
  <2> SUFFICES ASSUME top \in FreeNodes
               PROVE  FALSE
    OBVIOUS
  <2>1. CASE top \in C
    <3>1. top \in A
      BY <1>7, <2>1
    <3>2. t \in b .. t - 1
      BY <1>8, <3>1
    <3> QED
      BY <1>5, <3>2
  <2>2. CASE top \notin C
    <3>1. Tiling(L, given) /\ C \subseteq L
      BY <1>8 DEF SplitInv
    <3>2. top \in L \ C
      BY <2>2
    <3> HIDE DEF L
    <3>3. top # top
      BY <1>1, <3>1, <3>2, MergeTiles
    <3> QED
      BY <3>3
  <2> QED
    BY <2>1, <2>2
<1> HIDE DEF A
<1>11. ASSUME NEW c \in Sizes
       PROVE  ListOK(R[c], p, c) /\ ToSet(R[c]) = (ToSet(heads[p][c]) \ A) \cup OfSize({top}, c)
  <2>0. R[c] = CASE b <= c /\ c < t -> Unlinked(heads[p][c], Sibling(At(a, c)))
                 [] c = t -> <<top>> \o heads[p][c]
                 [] OTHER -> heads[p][c]
    BY DEF R, MergedHeads, Ancestor, top
  <2>1. ListOK(heads[p][c], p, c)
    BY <1>6 DEF SplitInv, Lists
  <2>2. c \in Nat
    BY DEF Sizes
  <2>3. CASE b <= c /\ c < t
    <3>1. PICK k : k = Sibling(At(a, c))
      OBVIOUS
    <3>2. R[c] = Unlinked(heads[p][c], k)
      BY <1>5, <2>0, <2>2, <2>3, <3>1
    <3>3. k \in A /\ k.size = c /\ k \in ToSet(heads[p][c])
      <4>1. c \in b .. t - 1
        BY <1>5, <2>2, <2>3
      <4> QED
        BY <1>9, <3>1, <4>1
    <3>4. /\ Unlinked(heads[p][c], k) \in Seq(Nodes) /\ Distinct(Unlinked(heads[p][c], k))
          /\ ToSet(Unlinked(heads[p][c], k)) = ToSet(heads[p][c]) \ {k}
      BY <2>1, <3>3, Unlink DEF ListOK
    <3>5. \A l \in A : l \in ToSet(heads[p][c]) => l = k
      BY <1>8, <2>1, <3>1 DEF ListOK
    <3>6. OfSize({top}, c) = {}
      BY <1>5, <2>2, <2>3 DEF OfSize
    <3>7. ListOK(R[c], p, c)
      BY <2>1, <3>2, <3>4 DEF ListOK
    <3> QED
      BY <3>2, <3>3, <3>4, <3>5, <3>6, <3>7
  <2>4. CASE c = t
    <3>1. R[c] = <<top>> \o heads[p][c]
      BY <2>0, <1>5, <2>4
    <3>2. top \notin ToSet(heads[p][c])
      BY <1>6, <1>10 DEF FreeNodes
    <3>3. /\ R[c] \in Seq(Nodes) /\ Distinct(R[c]) /\ ToSet(R[c]) = ToSet(heads[p][c]) \cup {top}
      BY <1>1, <2>1, <3>1, <3>2, Link DEF ListOK
    <3>4. ListOK(R[c], p, c)
      BY <1>1, <2>1, <2>4, <3>3 DEF ListOK
    <3>5. \A l \in A : l \notin ToSet(heads[p][c])
      <4>1. \A l \in A : l.size # c
        BY <1>5, <1>8, <2>4
      <4> QED
        BY <2>1, <4>1 DEF ListOK
    <3>6. OfSize({top}, c) = {top}
      BY <2>4 DEF OfSize
    <3> QED
      BY <3>3, <3>4, <3>5, <3>6
  <2>5. CASE ~(b <= c /\ c < t) /\ c # t
    <3>1. R[c] = heads[p][c]
      BY <2>0, <2>5
    <3>2. \A l \in A : l \notin ToSet(heads[p][c])
      <4>1. \A l \in A : l.size # c
        BY <1>5, <1>8, <2>2, <2>5
      <4> QED
        BY <2>1, <4>1 DEF ListOK
    <3>3. OfSize({top}, c) = {}
      BY <2>5 DEF OfSize
    <3> QED
      BY <2>1, <3>1, <3>2, <3>3
  <2> QED
    BY <2>3, <2>4, <2>5
<1>12. R \in [Sizes -> Seq(Nodes)]
  BY <1>3, <1>11 DEF ListOK
<1>13. \A k \in A : RootOf(k).pool = p
  BY <1>4 DEF A
<1>14. \A k \in {top} : k.size \in Sizes
  BY <1>4
<1>15. Exchanges(R, heads[p], p, A, {top})
  BY <1>11, <1>12, <1>13, <1>14 DEF Exchanges
<1>16. A \subseteq FreeNodes
  BY <1>8
<1> QED
  BY <1>6, <1>7, <1>10, <1>15, <1>16 DEF A, top, R

(* _utspace_split_free() keeps the invariant. *)
LEMMA SplitFreeStep ==
  ASSUME SplitInv, NEW n \in used, SplitFree(n)
  PROVE  /\ SplitInv'
         /\ FreeNodes' \subseteq FreeNodes \cup {MergedTop(n)}
         /\ ~Merges(MergedTop(n))
<1> DEFINE a == n.addr
           top == MergedTop(n)
           p == RootOf(n).pool
           C == Chain(a, n.size, top.size)
           A == C \ {n}
           L == FreeNodes \cup used
           R == MergedHeads(n)
<1>1. /\ used' = used \ {n} /\ given' = given
      /\ heads' = [heads EXCEPT ![p] = R]
      /\ split' = split \ {Ancestor(n, b) : b \in n.size + 1 .. top.size}
  BY DEF SplitFree, MergedHeads
<1>2. /\ p \in Pools
      /\ Exchanges(R, heads[p], p, A, {top})
      /\ A \subseteq FreeNodes /\ n \in C /\ n \notin FreeNodes /\ top \notin FreeNodes
  BY MergedLists
<1>3. top \in Nodes /\ a \in Memory(top) /\ n.size \in 0 .. top.size
  BY MergeEnds
<1> HIDE DEF R, top
<1>4. Lists(heads) /\ FreeNodes = InLists(heads) /\ FreeNodes \cap used = {} /\ Tiling(L, given)
      /\ split = Above(L)
  BY DEF SplitInv, FreeNodes, InLists
<1>5. Lists(heads') /\ InLists(heads') = (InLists(heads) \ A) \cup {top}
  <2> HIDE DEF A
  <2>1. Relists(heads', heads, p, R, A, {top})
    BY <1>1, <1>2, <1>4 DEF Relists
  <2> QED
    BY <2>1, Relisted
<1>6. FreeNodes' = (FreeNodes \ A) \cup {top}
  <2> HIDE DEF A
  <2>1. FreeNodes' = InLists(heads')
    BY DEF FreeNodes, InLists
  <2> QED
    BY <1>4, <1>5, <2>1
<1>7. C \subseteq L
  BY <1>2
<1>8. /\ Tiling((L \ C) \cup {top}, given)
      /\ Above((L \ C) \cup {top}) = Above(L) \ OnWay(a, n.size, top.size)
      /\ \A m \in L \ C : Memory(m) \cap Memory(top) = {} /\ m # top
  <2> HIDE DEF L
  <2> QED
    BY <1>3, <1>4, <1>7, MergeTiles
<1>9. {Ancestor(n, b) : b \in n.size + 1 .. top.size} = OnWay(a, n.size, top.size)
  BY DEF Ancestor, OnWay
<1> HIDE DEF C
<1>10. FreeNodes' \cup used' = (L \ C) \cup {top}
  BY <1>1, <1>2, <1>4, <1>6
<1>11. FreeNodes' \cap used' = {}
  <2>1. top \notin used \ {n}
    BY <1>2, <1>4, <1>8
  <2> QED
    BY <1>1, <1>4, <1>6, <2>1
<1>12. SplitInv'
  BY <1>1, <1>4, <1>5, <1>8, <1>9, <1>10, <1>11 DEF SplitInv, Lists
<1>13. ~Merges(MergedTop(n))
  BY MergeEnds
<1> QED
  BY <1>6, <1>12, <1>13 DEF top

(* _utspace_split_add_uts() keeps it, *)
LEMMA AddUtStep ==
  ASSUME SplitInv, NEW r \in Roots, AddUt(r)
  PROVE  SplitInv' /\ FreeNodes' = FreeNodes \cup {RootNode(r)}
<1> DEFINE L == FreeNodes \cup used
           x == RootNode(r)
           p == r.pool
           R == [heads[p] EXCEPT ![r.size] = <<x>> \o heads[p][r.size]]
<1>1. r \notin given /\ given' = given \cup {r} /\ used' = used /\ split' = split
  BY DEF AddUt
<1>2. Lists(heads) /\ FreeNodes = InLists(heads) /\ FreeNodes \cap used = {} /\ Tiling(L, given)
      /\ split = Above(L)
  BY DEF SplitInv, FreeNodes, InLists
<1>3. p \in Pools /\ r.size \in Sizes /\ x.size = r.size
  BY RootIsNode
<1>4. heads' = [heads EXCEPT ![p] = R]
  BY <1>2, <1>3 DEF AddUt, Lists
<1>5. /\ Tiling(L \cup {x}, given \cup {r}) /\ Above(L \cup {x}) = Above(L)
      /\ x \in Nodes \ L /\ RootOf(x) = r
  <2> HIDE DEF L
  <2> QED
    BY <1>1, <1>2, RootTiles
<1> HIDE DEF x
<1>6. ASSUME NEW c \in Sizes
      PROVE  ListOK(R[c], p, c) /\ ToSet(R[c]) = (ToSet(heads[p][c]) \ {}) \cup OfSize({x}, c)
  <2>1. ListOK(heads[p][c], p, c) /\ heads[p] \in [Sizes -> Seq(Nodes)]
    BY <1>2, <1>3 DEF Lists
  <2>2. CASE c = r.size
    <3>1. R[c] = <<x>> \o heads[p][c]
      BY <2>1, <2>2
    <3>2. x \notin ToSet(heads[p][c])
      BY <1>3, <1>5 DEF FreeNodes
    <3>3. /\ R[c] \in Seq(Nodes) /\ Distinct(R[c]) /\ ToSet(R[c]) = ToSet(heads[p][c]) \cup {x}
      BY <1>5, <2>1, <3>1, <3>2, Link DEF ListOK
    <3> HIDE DEF R
    <3>4. ListOK(R[c], p, c)
      BY <1>3, <1>5, <2>1, <2>2, <3>3 DEF ListOK
    <3>5. OfSize({x}, c) = {x}
      BY <1>3, <2>2 DEF OfSize
    <3> QED
      BY <3>3, <3>4, <3>5
  <2>3. CASE c # r.size
    <3>1. R[c] = heads[p][c]
      BY <2>1, <2>3
    <3>2. OfSize({x}, c) = {}
      BY <1>3, <2>3 DEF OfSize
    <3> QED
      BY <2>1, <3>1, <3>2
  <2> QED
    BY <2>2, <2>3
<1>7. R \in [Sizes -> Seq(Nodes)]
  <2>1. R = [c \in Sizes |-> R[c]]
    BY <1>2, <1>3 DEF Lists
  <2> HIDE DEF R
  <2> QED
    BY <1>6, <2>1 DEF ListOK
<1> HIDE DEF R
<1>8. Exchanges(R, heads[p], p, {}, {x})
  BY <1>3, <1>6, <1>7 DEF Exchanges
<1>9. Relists(heads', heads, p, R, {}, {x})
  BY <1>2, <1>3, <1>4, <1>8 DEF Relists
<1>10. Lists(heads') /\ InLists(heads') = (InLists(heads) \ {}) \cup {x}
  BY <1>9, Relisted
<1>11. FreeNodes' = FreeNodes \cup {x}
  BY <1>2, <1>10 DEF FreeNodes, InLists
<1>12. FreeNodes' \cup used' = L \cup {x} /\ FreeNodes' \cap used' = {}
  BY <1>1, <1>2, <1>5, <1>11
<1> QED
  BY <1>1, <1>2, <1>5, <1>10, <1>11, <1>12 DEF SplitInv, Lists, x

-----------------------------------------------------------------------------
(* The theorems                                                            *)

(* Nothing is given in the beginning. *)
LEMMA SplitInitInv ==
  ASSUME SplitInit
  PROVE  SplitInv /\ FreeNodes = {}
<1>1. ASSUME NEW p \in Pools, NEW b \in Sizes
      PROVE  heads[p][b] = <<>>
  BY DEF SplitInit
<1>2. ToSet(<<>>) = {}
  BY DEF ToSet
<1>3. FreeNodes = {}
  BY <1>1, <1>2 DEF FreeNodes
<1>4. ASSUME NEW p \in Pools, NEW b \in Sizes
      PROVE  ListOK(heads[p][b], p, b)
  <2>1. <<>> \in Seq(Nodes) /\ Distinct(<<>>)
    BY DEF Distinct
  <2> QED
    BY <1>1, <1>2, <2>1 DEF ListOK
<1>5. heads \in [Pools -> [Sizes -> Seq(Nodes)]]
  <2>1. <<>> \in Seq(Nodes)
    OBVIOUS
  <2> QED
    BY <2>1 DEF SplitInit
<1>6. Lists(heads)
  BY <1>4, <1>5 DEF Lists
<1>7. used = {} /\ split = {} /\ given = {}
  BY DEF SplitInit
<1>8. Tiling({}, {}) /\ Above({}) = {}
  BY DEF Tiling, Above
<1> QED
  BY <1>3, <1>6, <1>7, <1>8 DEF SplitInv

(* Every step keeps the invariant. *)
LEMMA SplitStep ==
  ASSUME SplitInv, [SplitNext]_splitVars
  PROVE  SplitInv'
<1>1. ASSUME NEW r \in Roots, AddUt(r)
      PROVE  SplitInv'
  BY <1>1, AddUtStep
<1>2. ASSUME NEW size \in Sizes, NEW canBeDev \in BOOLEAN, NEW paddr \in Requests(size),
             SplitAlloc(size, paddr, canBeDev)
      PROVE  SplitInv'
  BY <1>2, SplitAllocStep
<1>3. ASSUME NEW size \in Sizes, NEW canBeDev \in BOOLEAN, NEW paddr \in Requests(size),
             SplitAllocFails(size, paddr, canBeDev)
      PROVE  SplitInv'
  BY <1>3, SplitFailStep
<1>4. ASSUME NEW n \in used, SplitFree(n)
      PROVE  SplitInv'
  BY <1>4, SplitFreeStep
<1>5. ASSUME UNCHANGED splitVars
      PROVE  SplitInv'
  <2>1. heads' = heads /\ used' = used /\ split' = split /\ given' = given
    BY <1>5 DEF splitVars
  <2>2. FreeNodes' = FreeNodes
    BY <2>1 DEF FreeNodes
  <2> QED
    BY <2>1, <2>2 DEF SplitInv, Lists
<1> QED
  BY <1>1, <1>2, <1>3, <1>4, <1>5 DEF SplitNext

(* The sibling of a node that has been split off is one as well. *)
LEMMA SiblingSplitOff ==
  ASSUME NEW k \in Nodes, ~IsRoot(k)
  PROVE  Sibling(k) \in Nodes /\ ~IsRoot(Sibling(k))
<1>1. PICK r \in Roots : r = RootOf(k)
  BY NodeInRoot
<1>2. /\ Dyadic(k) /\ k.size \in Sizes /\ k.size <= r.size
      /\ k.addr \in Memory(RootNode(r))
  BY <1>1, NodeInRoot
<1>3. PICK x : x = RootNode(r)
  OBVIOUS
<1>4. Dyadic(x) /\ x.size = r.size /\ r.size \in Sizes
  BY <1>3, RootIsNode
<1>5. k.size < r.size
  <2>1. k.size # r.size
    BY <1>1, WholeRoot DEF IsRoot
  <2> QED
    BY <1>2, <1>4, <2>1 DEF Sizes
<1>6. PICK P : P = Parent(k)
  OBVIOUS
<1>7. Dyadic(P) /\ P.size = k.size + 1 /\ k.addr \in Memory(P)
  BY <1>2, <1>6, UpToParent
<1>8. P.size <= x.size
  BY <1>2, <1>4, <1>5, <1>7 DEF Sizes
<1>9. Memory(P) \subseteq Memory(x)
  BY <1>2, <1>3, <1>4, <1>7, <1>8, Inside
<1>10. PICK s : s = Sibling(k)
  OBVIOUS
<1>11. Dyadic(s) /\ s.size = k.size /\ Memory(P) = Memory(k) \cup Memory(s)
  BY <1>2, <1>6, <1>10, Siblings
<1>12. s.addr \in Memory(RootNode(r))
  BY <1>3, <1>9, <1>11, AtSelf
<1>13. s \in Nodes /\ RootOf(s) = r
  BY <1>2, <1>11, <1>12, InRoot
<1>14. s # x
  BY <1>2, <1>4, <1>5, <1>11 DEF Sizes
<1> QED
  BY <1>3, <1>10, <1>13, <1>14 DEF IsRoot

(* No node has a sibling in the set, unless it is an untyped as given. *)
NoPair(F) == \A k \in F : IsRoot(k) \/ Sibling(k) \notin F

(* An allocation makes no pair: one of each two halves is split on, or      *)
(* handed out.                                                              *)
LEMMA TakeMakesNoPair ==
  ASSUME SplitInv, NEW G, G \subseteq Nodes, TakesFrom(G, FreeNodes), NoPair(FreeNodes)
  PROVE  NoPair(G)
<1>1. PICK n \in FreeNodes : \E a \in Memory(n), b \in 0 .. n.size :
             G = (FreeNodes \ {n}) \cup (Chain(a, b, n.size) \ {At(a, b)})
  BY DEF TakesFrom
<1>2. PICK a \in Memory(n), b \in 0 .. n.size :
             G = (FreeNodes \ {n}) \cup (Chain(a, b, n.size) \ {At(a, b)})
  BY <1>1
<1> DEFINE C == Chain(a, b, n.size)
<1>3. Tiling(FreeNodes \cup used, given) /\ n \in Nodes
  BY DEF SplitInv, Tiling
<1>4. Levels(b, n.size) /\ a \in Nat
  BY <1>3, ChainOf
<1>5. b \in 0 .. MaxBits + 1
  BY <1>4, BitsDouble DEF Levels, Sizes
<1>6. a \in Memory(At(a, b)) /\ At(a, b) \in C
  BY <1>4, <1>5, AtHolds, ChainEnds
<1>7. ASSUME NEW k \in G
      PROVE  a \notin Memory(k)
  <2>1. CASE k \in FreeNodes \ {n}
    BY <1>3, <2>1 DEF Tiling
  <2>2. CASE k \in C \ {At(a, b)}
    BY <1>4, <1>6, <2>2, ChainDisjoint
  <2> QED
    BY <1>2, <2>1, <2>2
<1>8. ASSUME NEW k \in C \ {At(a, b)}
      PROVE  Sibling(k) \notin G
  <2>1. Dyadic(k) /\ k.size \in b .. n.size /\ k = Sibling(At(a, k.size))
    BY <1>4, <1>8, ChainNode
  <2>2. k.size \in Sizes /\ k.size \in 0 .. MaxBits + 1
    <3>1. k \in Nodes
      BY <1>3, ChainOf
    <3>2. k.size \in Sizes
      BY <3>1, NodeInRoot
    <3> QED
      BY <3>2, BitsDouble DEF Sizes
  <2>3. PICK m : m = At(a, k.size)
    OBVIOUS
  <2>4. Dyadic(m) /\ m.size = k.size /\ a \in Memory(m)
    BY <1>4, <2>2, <2>3, AtHolds
  <2>5. Sibling(k) = m
    BY <2>1, <2>2, <2>3, <2>4, Siblings
  <2> QED
    BY <1>7, <2>4, <2>5
<1>9. ASSUME NEW k \in G, ~IsRoot(k), Sibling(k) \in G
      PROVE  FALSE
  <2>1. Dyadic(k) /\ k.size \in Sizes
    BY NodeInRoot
  <2>2. PICK s : s = Sibling(k)
    OBVIOUS
  <2>3. Sibling(s) = k /\ s \in G
    BY <1>9, <2>1, <2>2, Siblings
  <2>4. k \in FreeNodes /\ s \in FreeNodes
    BY <1>2, <1>8, <1>9, <2>2, <2>3
  <2> QED
    BY <1>9, <2>2, <2>4 DEF NoPair
<1> QED
  BY <1>9 DEF NoPair

(* A node that has no free sibling, or is an untyped as given, makes none. *)
LEMMA AddMakesNoPair ==
  ASSUME NEW F, F \subseteq Nodes, NoPair(F), NEW x \in Nodes, IsRoot(x) \/ Sibling(x) \notin F,
         NEW G, G \subseteq F \cup {x}
  PROVE  NoPair(G)
<1>1. ASSUME NEW k \in G, ~IsRoot(k), Sibling(k) \in G
      PROVE  FALSE
  <2>1. k \in Nodes /\ Dyadic(k) /\ k.size \in Sizes
    BY NodeInRoot
  <2>2. PICK s : s = Sibling(k)
    OBVIOUS
  <2>3. Sibling(s) = k /\ s # k
    BY <2>1, <2>2, Siblings
  <2>4. ~IsRoot(s)
    BY <1>1, <2>1, <2>2, SiblingSplitOff
  <2>5. CASE k = x
    <3>1. s \in F
      BY <1>1, <2>2, <2>3, <2>5
    <3> QED
      BY <1>1, <2>2, <2>5, <3>1
  <2>6. CASE s = x
    <3>1. k \in F
      BY <1>1, <2>3, <2>6
    <3> QED
      BY <2>3, <2>4, <2>6, <3>1
  <2>7. CASE k # x /\ s # x
    <3>1. k \in F /\ s \in F
      BY <1>1, <2>2, <2>7
    <3> QED
      BY <1>1, <2>2, <3>1 DEF NoPair
  <2> QED
    BY <2>5, <2>6, <2>7
<1> QED
  BY <1>1 DEF NoPair

(* Every step leaves the free nodes merged. *)
LEMMA MergedStep ==
  ASSUME SplitInv, FullyMerged, [SplitNext]_splitVars
  PROVE  FullyMerged'
<1>1. SplitInv' /\ FreeNodes' \subseteq Nodes /\ FreeNodes \subseteq Nodes
  BY SplitStep DEF SplitInv, Tiling
<1>2. ~failed => NoPair(FreeNodes)
  BY DEF FullyMerged, NoPair, Merges
<1> SUFFICES ASSUME ~failed'
             PROVE  NoPair(FreeNodes')
  BY DEF FullyMerged, NoPair, Merges, IsRoot
<1>3. ASSUME NEW r \in Roots, AddUt(r)
      PROVE  NoPair(FreeNodes')
  <2>1. FreeNodes' = FreeNodes \cup {RootNode(r)}
    BY <1>3, AddUtStep
  <2>2. NoPair(FreeNodes)
    BY <1>2, <1>3 DEF AddUt
  <2>3. RootNode(r) \in Nodes
    BY <1>1, <2>1
  <2>4. RootNode(r).addr \in Memory(RootNode(r))
    BY RootIsNode, AtSelf
  <2>5. IsRoot(RootNode(r))
    BY <2>4, RootIs DEF IsRoot
  <2> QED
    BY <1>1, <2>1, <2>2, <2>3, <2>5, AddMakesNoPair
<1>4. ASSUME NEW size \in Sizes, NEW canBeDev \in BOOLEAN, NEW paddr \in Requests(size),
             SplitAlloc(size, paddr, canBeDev)
      PROVE  NoPair(FreeNodes')
  <2>1. TakesFrom(FreeNodes', FreeNodes)
    BY <1>4, SplitAllocStep
  <2>2. failed' = failed
    BY <1>4 DEF SplitAlloc
  <2>3. NoPair(FreeNodes)
    BY <1>2, <2>2
  <2> QED
    BY <1>1, <2>1, <2>3, TakeMakesNoPair
<1>5. ASSUME NEW size \in Sizes, NEW canBeDev \in BOOLEAN, NEW paddr \in Requests(size),
             SplitAllocFails(size, paddr, canBeDev)
      PROVE  FALSE
  BY <1>5 DEF SplitAllocFails
<1>6. ASSUME NEW n \in used, SplitFree(n)
      PROVE  NoPair(FreeNodes')
  <2>1. /\ FreeNodes' \subseteq FreeNodes \cup {MergedTop(n)}
        /\ ~Merges(MergedTop(n))
    BY <1>6, SplitFreeStep
  <2>2. NoPair(FreeNodes)
    BY <1>2, <1>6 DEF SplitFree
  <2>3. MergedTop(n) \in Nodes
    BY MergeEnds
  <2>4. IsRoot(MergedTop(n)) \/ Sibling(MergedTop(n)) \notin FreeNodes
    BY <2>1 DEF Merges
  <2> QED
    BY <1>1, <2>1, <2>2, <2>3, <2>4, AddMakesNoPair
<1>7. ASSUME UNCHANGED splitVars
      PROVE  NoPair(FreeNodes')
  BY <1>2, <1>7 DEF splitVars, FreeNodes
<1> QED
  BY <1>3, <1>4, <1>5, <1>6, <1>7 DEF SplitNext

(* The memory, the lists and the retyped nodes, from the invariant. *)
LEMMA InvPartition ==
  ASSUME SplitInv
  PROVE  Partition /\ SplitExact
<1> DEFINE L == FreeNodes \cup used
<1>1. /\ Lists(heads) /\ Tiling(L, given) /\ FreeNodes \cap used = {} /\ split = Above(L)
  BY DEF SplitInv
<1>2. ASSUME NEW p \in Pools, NEW b \in Sizes
      PROVE  /\ heads[p][b] \in Seq(Nodes) /\ Distinct(heads[p][b])
             /\ \A k \in DOMAIN heads[p][b] : /\ heads[p][b][k] \in Nodes
                                             /\ heads[p][b][k].size = b
                                             /\ RootOf(heads[p][b][k]).pool = p
  <2>1. PICK s : s = heads[p][b]
    OBVIOUS
  <2>2. ListOK(s, p, b)
    BY <1>1, <2>1 DEF Lists
  <2>3. \A k \in DOMAIN s : s[k] \in ToSet(s)
    BY <2>2 DEF ListOK, ToSet
  <2> QED
    BY <2>1, <2>2, <2>3 DEF ListOK
<1>3. SplitTypeOK
  BY <1>1, <1>2 DEF SplitTypeOK, Tiling, Above
<1>4. ListsExact
  BY <1>2 DEF ListsExact, Distinct
<1>5. UNION {Memory(n) : n \in L} = UNION {Memory(RootNode(r)) : r \in given}
  <2> HIDE DEF L
  <2>1. ASSUME NEW n \in L, NEW x \in Memory(n)
        PROVE  \E r \in given : x \in Memory(RootNode(r))
    <3>1. n \in Nodes /\ RootOf(n) \in given
      BY <1>1 DEF Tiling
    <3>2. Memory(n) \subseteq Memory(RootNode(RootOf(n)))
      BY <3>1, NodeInRoot
    <3> QED
      BY <3>1, <3>2
  <2>2. \A r \in given : \A x \in Memory(RootNode(r)) : \E n \in L : x \in Memory(n)
    BY <1>1 DEF Tiling
  <2> QED
    BY <2>1, <2>2
<1>6. \A n, m \in L : n # m => Memory(n) \cap Memory(m) = {}
  BY <1>1 DEF Tiling
<1> QED
  BY <1>1, <1>3, <1>4, <1>5, <1>6 DEF Partition, SplitExact, Above

(* Refilling for an address makes a node that starts there. *)
LEMMA InvAddress ==
  ASSUME SplitInv
  PROVE  AddressFound
<1> SUFFICES ASSUME NEW size \in Sizes, NEW paddr \in Requests(size) \ {NO_PADDR}, NEW p \in Pools,
                    CanServe(p, size, paddr)
             PROVE  LET n == SourceNode(p, size, paddr) IN
                    \E k \in DOMAIN Refilled(heads[p], n, size, paddr)[size] :
                      Refilled(heads[p], n, size, paddr)[size][k].addr = paddr
  BY DEF AddressFound
<1> DEFINE n == SourceNode(p, size, paddr)
           R == Refilled(heads[p], n, size, paddr)
           C == Chain(Target(n, paddr), size, n.size)
<1>1. /\ n.size \in Sizes /\ size \in 0 .. n.size
      /\ n \in ToSet(heads[p][n.size]) /\ Target(n, paddr) \in Memory(n) /\ n \in Nodes
  BY SourceFound
<1> HIDE DEF n
<1>2. Exchanges(R, heads[p], p, {n}, C)
  BY <1>1, RefilledType
<1>3. Target(n, paddr) = paddr
  BY DEF Target
<1>4. paddr \in Nat /\ paddr % BIT[size] = 0
  BY AddressNat DEF Requests
<1>5. PICK m : m = Node(paddr, size)
  OBVIOUS
<1>6. m.addr = paddr /\ m.size = size
  BY <1>5, NodeFields
<1>7. Dyadic(m)
  BY <1>4, <1>5, <1>6, BitsDouble DEF Dyadic, Sizes
<1>8. m = At(paddr, size)
  BY <1>6, <1>7, AtSelf
<1>9. m \in C
  BY <1>3, <1>8, ChainEnds
<1> HIDE DEF R, C
<1>10. m \in ToSet(R[size]) /\ R[size] \in Seq(Nodes)
  BY <1>2, <1>6, <1>9 DEF Exchanges, OfSize
<1>11. PICK k \in DOMAIN R[size] : R[size][k] = m
  BY <1>10 DEF ToSet
<1> QED
  BY <1>6, <1>11 DEF R, n

(* No memory is lost or handed out twice, a node counts as split exactly    *)
(* while it has children, and refilling for an address makes a node that    *)
(* starts there, for all untypeds given and any order of calls.             *)
THEOREM UntypedsAlwaysExact == SplitSpec => []UntypedsExact
<1>1. SplitInit => SplitInv
  BY SplitInitInv
<1>2. SplitInv /\ [SplitNext]_splitVars => SplitInv'
  BY SplitStep
<1>3. SplitInv => UntypedsExact
  BY InvPartition, InvAddress DEF UntypedsExact
<1> QED
  BY <1>1, <1>2, <1>3, PTL DEF SplitSpec

(* No two siblings stay free side by side until an allocation has failed    *)
(* after splitting.                                                         *)
THEOREM AlwaysFullyMerged == SplitSpec => []FullyMerged
<1>1. SplitInit => SplitInv /\ FullyMerged
  BY SplitInitInv DEF FullyMerged
<1>2. SplitInv /\ FullyMerged /\ [SplitNext]_splitVars => SplitInv' /\ FullyMerged'
  BY SplitStep, MergedStep
<1> QED
  BY <1>1, <1>2, PTL DEF SplitSpec

-----------------------------------------------------------------------------
(* Bootstrapping: where the capabilities are.                              *)

(* Max of FiniteSetsExt returns the greatest element of a bounded set.      *)
LEMMA MaxIsGreatest ==
  ASSUME NEW S \in SUBSET Nat, S # {}, NEW b \in Int, \A y \in S : y <= b
  PROVE  Max(S) \in S /\ \A y \in S : Max(S) >= y
<1> DEFINE T == {n \in Nat : \A y \in S : y <= n}
<1>1. b \in T
  <2>1. PICK y \in S : y <= b
    OBVIOUS
  <2> QED
    BY <2>1
<1>2. PICK m \in T : \A n \in T : m <= n
  BY <1>1, LeastNat
<1>3. m \in S
  <2> SUFFICES ASSUME m \notin S PROVE FALSE
    OBVIOUS
  <2>1. PICK y \in S : TRUE
    OBVIOUS
  <2>2. m \in Nat /\ \A z \in S : z <= m /\ z # m
    BY <1>2
  <2>3. m - 1 \in T
    BY <2>1, <2>2
  <2> QED
    BY <1>2, <2>2, <2>3
<1>4. \E x \in S : \A y \in S : x >= y
  BY <1>2, <1>3
<1> QED
  BY <1>4 DEF Max

-----------------------------------------------------------------------------
(* A capability put into a slot. *)
LEMMA PutFacts ==
  ASSUME NEW f, NEW s, NEW v
  PROVE  /\ DOMAIN Put(f, s, v) = DOMAIN f \cup {s}
         /\ Put(f, s, v)[s] = v
         /\ \A t \in DOMAIN f : t # s => Put(f, s, v)[t] = f[t]
BY DEF Put

(* Sizes are integers.                                                      *)
LEMMA BitInt ==
  ASSUME NEW n \in Nat
  PROVE  Bit(n) \in Int
BY DEF Bit

-----------------------------------------------------------------------------
(* The layouts. *)
LEMMA LayoutFacts ==
  ASSUME layout \in Layouts
  PROVE  /\ layout.utStart \in Nat /\ layout.bits \in Nat /\ Bit(layout.bits) \in Int
         /\ layout.uts \in Seq([base : Nat, bits : Nat, dev : BOOLEAN])
         /\ Len(layout.uts) \in Nat \ {0}
         /\ {layout.tcb, layout.cnode, layout.pd} \subseteq layout.listed
         /\ layout.listed \cup UtSlots(layout) \subseteq 1 .. Bit(layout.bits) - 1
         /\ layout.listed \cap UtSlots(layout) = {}
         /\ \A s \in layout.hidden : s \in Nat /\ \E t \in layout.listed \cup UtSlots(layout) : s < t
<1>1. LayoutSane(layout)
  BY BootAssumption
<1>2. Bit(layout.bits) \in Int
  BY <1>1, BitInt DEF LayoutSane
<1>3. Len(layout.uts) \in Nat \ {0}
  BY <1>1 DEF LayoutSane
<1> QED
  BY <1>1, <1>2, <1>3 DEF LayoutSane

(* What simple_last_valid_cap returns: nothing of the boot CNode lies       *)
(* behind it.                                                               *)
LEMMA LastFacts ==
  ASSUME layout \in Layouts
  PROVE  /\ simple_last_valid_cap \in Nat /\ simple_last_valid_cap >= 1
         /\ simple_last_valid_cap < Bit(layout.bits)
         /\ \A s \in simple_caps : s \in Nat /\ s <= simple_last_valid_cap
         /\ \A s \in DOMAIN BootCaps(layout) : s \in Nat /\ s <= simple_last_valid_cap
<1>1. simple_caps \subseteq Nat /\ simple_caps # {} /\ \A s \in simple_caps : s >= 1 /\ s <= Bit(layout.bits) - 1
  BY LayoutFacts DEF simple_caps
<1>2. Bit(layout.bits) - 1 \in Int
  BY LayoutFacts
<1>3. Max(simple_caps) \in simple_caps /\ \A s \in simple_caps : Max(simple_caps) >= s
  BY <1>1, <1>2, MaxIsGreatest
<1>4. DOMAIN BootCaps(layout) = simple_caps \cup layout.hidden
  BY DEF BootCaps, simple_caps
<1>5. ASSUME NEW s \in layout.hidden
      PROVE  s \in Nat /\ s <= Max(simple_caps)
  <2>1. PICK t \in simple_caps : s < t /\ s \in Nat
    BY LayoutFacts DEF simple_caps
  <2> QED
    BY <1>1, <1>3, <2>1
<1> DEFINE m == Max(simple_caps)
<1>6. m \in Nat /\ m >= 1 /\ m < Bit(layout.bits)
  <2>1. m \in simple_caps
    BY <1>3
  <2> HIDE DEF m
  <2> QED
    BY <1>1, <2>1, <1>2, LayoutFacts
<1>7. \A s \in simple_caps : s \in Nat /\ s <= m
  BY <1>1, <1>3, <1>6
<1> QED
  BY <1>4, <1>5, <1>6, <1>7 DEF simple_last_valid_cap

(* The boot CSpace's allocator starts behind everything that lies there. *)
LEMMA FirstFacts ==
  ASSUME layout \in Layouts
  PROVE  /\ BootFirst \in Nat
         /\ \A s \in DOMAIN BootCaps(layout) : s \in Nat /\ s < BootFirst
         /\ \A s \in simple_caps : s < BootFirst
         /\ FromSimple => BootFirst = simple_last_valid_cap + 1
<1> DEFINE D == DOMAIN BootCaps(layout)
<1>1. D \in SUBSET Nat /\ D # {} /\ simple_caps \subseteq D
  BY LastFacts, LayoutFacts DEF BootCaps, simple_caps
<1>2. simple_last_valid_cap \in Int /\ \A s \in D : s <= simple_last_valid_cap
  BY LastFacts
<1>3. Max(D) \in D /\ \A s \in D : Max(D) >= s
  BY <1>1, <1>2, MaxIsGreatest
<1>4. EmptyStart \in Nat /\ \A s \in D : s < EmptyStart
  BY <1>1, <1>3 DEF EmptyStart
<1> QED
  BY <1>1, <1>2, <1>4, LastFacts DEF BootFirst

(* How many of the capabilities that simple lists are in lower slots. *)
Before(x) == {t \in simple_caps : t < x}

(* The capabilities that simple lists are counted by their slots.           *)
LEMMA BeforeFacts ==
  ASSUME layout \in Layouts
  PROVE  /\ simple_caps \subseteq Nat /\ IsFiniteSet(simple_caps)
         /\ Cardinality(simple_caps) = simple_get_cap_count /\ simple_get_cap_count \in Nat \ {0}
         /\ \A x \in simple_caps : Cardinality(Before(x)) \in 0 .. simple_get_cap_count - 1
         /\ \A x, y \in simple_caps : x < y => Cardinality(Before(x)) < Cardinality(Before(y))
<1> DEFINE B(x) == Before(x)
<1>1. IsFiniteSet(simple_caps) /\ simple_caps \subseteq Nat
  <2>1. IsFiniteSet(1 .. Bit(layout.bits) - 1)
    BY LayoutFacts, FS_Interval
  <2> QED
    <3>1. simple_caps \in SUBSET (1 .. Bit(layout.bits) - 1)
      BY LayoutFacts DEF simple_caps
    <3>2. IsFiniteSet(simple_caps)
      BY <2>1, <3>1, FS_Subset
    <3>3. simple_caps \subseteq Nat
      BY LastFacts
    <3> QED
      BY <3>2, <3>3
<1>2. Cardinality(simple_caps) = simple_get_cap_count
  <2>1. IsFiniteSet(layout.listed)
    BY <1>1, FS_Subset DEF simple_caps
  <2>2. IsFiniteSet(UtSlots(layout)) /\ Cardinality(UtSlots(layout)) = Len(layout.uts)
    <3>0. PICK a, n : a = layout.utStart /\ n = Len(layout.uts)
      OBVIOUS
    <3>4. a \in Nat /\ n \in Nat \ {0}
      BY <3>0, LayoutFacts
    <3>1. PICK b : b = a + n - 1
      OBVIOUS
    <3>2. a \in Int /\ b \in Int /\ a <= b /\ b - a + 1 = n
      BY <3>1, <3>4
    <3>3. IsFiniteSet(a .. b) /\ Cardinality(a .. b) = b - a + 1
      BY <3>2, FS_Interval
    <3> QED
      BY <3>0, <3>1, <3>2, <3>3 DEF UtSlots
  <2>3. layout.listed \cap UtSlots(layout) = {} /\ Cardinality({}) = 0
    BY LayoutFacts, FS_EmptySet
  <2>4. Cardinality(layout.listed) \in Nat
    BY <2>1, FS_CardinalityType
  <2>5. Cardinality(simple_caps) = Cardinality(layout.listed) + Cardinality(UtSlots(layout)) - Cardinality({})
    BY <2>1, <2>2, <2>3, FS_Union DEF simple_caps
  <2> QED
    BY <2>2, <2>3, <2>4, <2>5, LayoutFacts DEF simple_get_cap_count
<1>3. ASSUME NEW x \in simple_caps
      PROVE  IsFiniteSet(B(x)) /\ Cardinality(B(x)) \in Nat /\ Cardinality(B(x)) < Cardinality(simple_caps)
  <2>1. IsFiniteSet(B(x)) /\ Cardinality(B(x)) <= Cardinality(simple_caps)
        /\ (Cardinality(simple_caps) = Cardinality(B(x)) => simple_caps = B(x))
    <3>1. B(x) \in SUBSET simple_caps
      BY DEF Before
    <3> HIDE DEF B
    <3> QED
      BY <1>1, <3>1, FS_Subset
  <2>2. simple_caps # B(x)
    <3>1. x \notin B(x)
      BY <1>1 DEF Before
    <3> QED
      BY <3>1
  <2>3. Cardinality(B(x)) \in Nat /\ Cardinality(simple_caps) \in Nat
    BY <1>1, <2>1, FS_CardinalityType
  <2> QED
    BY <2>1, <2>2, <2>3
<1>4. ASSUME NEW x \in simple_caps, NEW y \in simple_caps, x < y
      PROVE  Cardinality(B(x)) < Cardinality(B(y))
  <2>0. x \in Nat /\ y \in Nat /\ \A t \in simple_caps : t \in Nat
    BY <1>1
  <2>4. \A t \in simple_caps : t < x => t < y
    BY <1>4, <2>0
  <2>5. ~ (x < x)
    BY <2>0
  <2>1. B(x) \subseteq B(y) /\ x \in B(y) /\ x \notin B(x)
    BY <1>4, <2>4, <2>5, Zenon DEF Before
  <2>2. Cardinality(B(x)) <= Cardinality(B(y)) /\ (Cardinality(B(y)) = Cardinality(B(x)) => B(y) = B(x))
    BY <1>3, <2>1, FS_Subset
  <2>3. Cardinality(B(x)) \in Nat /\ Cardinality(B(y)) \in Nat
    BY <1>3
  <2> QED
    BY <2>1, <2>2, <2>3
<1>5. simple_get_cap_count \in Nat \ {0}
  <2>1. Cardinality(simple_caps) \in Nat
    BY <1>1, FS_CardinalityType
  <2>2. simple_caps # {}
    BY LayoutFacts DEF simple_caps
  <2>3. PICK x \in simple_caps : TRUE
    BY <2>2
  <2>4. Cardinality(B(x)) \in Nat /\ Cardinality(B(x)) < Cardinality(simple_caps)
    BY <1>3
  <2> QED
    BY <1>2, <2>1, <2>4
<1>6. \A x \in simple_caps : Cardinality(B(x)) \in 0 .. simple_get_cap_count - 1
  BY <1>2, <1>3, <1>5
<1> QED
  BY <1>1, <1>2, <1>4, <1>5, <1>6

(* The n-th capability is the one behind n - 1 others. *)
LEMMA NthIs ==
  ASSUME layout \in Layouts, NEW s \in simple_caps
  PROVE  simple_get_nth_cap(Cardinality(Before(s)) + 1) = s
<1>1. PICK m : m = Cardinality(Before(s)) + 1
  OBVIOUS
<1>2. Cardinality(Before(s)) = m - 1 /\ m \in Nat
  BY <1>1, BeforeFacts
<1>3. ASSUME NEW x \in simple_caps, Cardinality(Before(x)) = m - 1
      PROVE  x = s
  <2>1. x \in Nat /\ s \in Nat /\ Cardinality(Before(x)) = Cardinality(Before(s)) /\ Cardinality(Before(s)) \in Nat
    BY <1>2, <1>3, BeforeFacts
  <2>2. ~ (x < s) /\ ~ (s < x)
    BY <2>1, BeforeFacts
  <2> QED
    BY <2>1, <2>2
<1>4. simple_get_nth_cap(m) = CHOOSE x \in simple_caps : Cardinality(Before(x)) = m - 1
  BY DEF simple_get_nth_cap, Before
<1> QED
  BY <1>1, <1>2, <1>3, <1>4

(* Each of them comes up, and nothing else does. *)
LEMMA NthCap ==
  ASSUME layout \in Layouts
  PROVE  /\ \A s \in simple_caps : \E n \in 1 .. simple_get_cap_count : simple_get_nth_cap(n) = s
         /\ \A n \in 1 .. simple_get_cap_count : simple_get_nth_cap(n) \in simple_caps
<1> DEFINE c == simple_get_cap_count
           f == [s \in simple_caps |-> Cardinality(Before(s)) + 1]
<1>1. c \in Nat \ {0} /\ IsFiniteSet(simple_caps) /\ Cardinality(simple_caps) = c
  BY BeforeFacts
<1>2. \A s \in simple_caps : f[s] \in 1 .. c /\ simple_get_nth_cap(f[s]) = s
  <2> SUFFICES ASSUME NEW s \in simple_caps
               PROVE  f[s] \in 1 .. c /\ simple_get_nth_cap(f[s]) = s
    OBVIOUS
  <2>1. PICK k : k = Cardinality(Before(s))
    OBVIOUS
  <2>2. k \in 0 .. c - 1 /\ f[s] = k + 1
    BY <2>1, BeforeFacts
  <2>3. f[s] \in 1 .. c
    BY <1>1, <2>2
  <2> QED
    BY <2>3, NthIs
<1>3. f \in Injection(simple_caps, 1 .. c)
  <2>1. f \in [simple_caps -> 1 .. c]
    BY <1>2
  <2>2. \A s, t \in simple_caps : f[s] = f[t] => s = t
    BY <1>2
  <2> HIDE DEF f, c
  <2> QED
    BY <2>1, <2>2 DEF Injection, IsInjective
<1>4. {f[s] : s \in simple_caps} = 1 .. c
  <2> HIDE DEF f, c
  <2>1. f \in [simple_caps -> 1 .. c] /\ \A s, t \in simple_caps : f[s] = f[t] => s = t
    BY <1>3 DEF Injection, IsInjective
  <2>3. IsFiniteSet(1 .. c) /\ Cardinality(1 .. c) = c
    BY <1>1, FS_Interval
  <2>2. PICK A, B : A = simple_caps /\ B = 1 .. c
    OBVIOUS
  <2>4. IsFiniteSet(A) /\ IsFiniteSet(B) /\ Cardinality(A) = Cardinality(B) /\ f \in Injection(A, B)
    BY <1>1, <1>3, <2>2, <2>3
  <2>5. f \in Surjection(A, B)
    BY <2>4, FS_Injection
  <2>6. f \in Surjection(simple_caps, 1 .. c)
    BY <2>2, <2>5
  <2>7. \A n \in 1 .. c : \E s \in simple_caps : f[s] = n
    BY <2>6 DEF Surjection
  <2> QED
    BY <2>1, <2>7
<1>5. ASSUME NEW s \in simple_caps
      PROVE  \E n \in 1 .. c : simple_get_nth_cap(n) = s
  BY <1>2
<1>6. ASSUME NEW n \in 1 .. c
      PROVE  simple_get_nth_cap(n) \in simple_caps
  <2>1. PICK s \in simple_caps : n = f[s]
    BY <1>4
  <2> QED
    BY <1>2, <2>1
<1> QED
  BY <1>5, <1>6
-----------------------------------------------------------------------------
(* The invariant of the capabilities. *)

(* The phases before the allocator of the CSpace is there. *)
Early == {"start", "untypeds", "cspace", "pick", "split", "install", "switch", "current"}

CurrentPhases == {"start", "current", "utspace", "reserve", "prepare", "adding", "device", "done"}
NewPhases == {"start", "untypeds", "cspace", "pick", "split", "install", "switch", "update", "move",
              "utspace", "reserve", "transfer", "finish", "done"}

UtNodes == [root : Int, slot : Nat, bits : Nat, paddr : Int, dev : BOOLEAN]

(* The course of a call. *)
Course ==
  /\ call \in Calls /\ layout \in Layouts
  /\ phase \in IF UsesCurrent THEN CurrentPhases ELSE NewPhases
  /\ phase = "transfer" => FromSimple
  /\ phase = "finish" => ~FromSimple
  /\ loop \in Nat /\ (phase = "start" => loop = 1)
  /\ phase \in {"start", "untypeds", "move", "reserve", "transfer"} => loop >= 1
  /\ phase = "untypeds" => loop <= Len(layout.uts)
  /\ phase = "move" => loop <= Len(uts)
  /\ phase = "transfer" => loop <= simple_get_cap_count

(* The types. *)
BootTypes ==
  /\ bootNext \in Nat /\ toSlot \in Nat
  /\ DOMAIN new \subseteq Nat /\ free \subseteq Nat
  /\ uts \in Seq(UtNodes)
  /\ phase = "split" => best \in UtNodes

(* Where the caller is, and what there is before the allocator. *)
Spaces ==
  /\ space = IF UsesCurrent \/ phase \in Early THEN "old" ELSE "new"
  /\ phase \in Early => free = {} /\ DOMAIN new \subseteq {TwoLevelCnodeSlot}
  /\ UsesCurrent /\ phase \in {"start", "current"} => old = BootCaps(layout)

(* The boot CSpace is used behind what lay in it; so is the slot that the   *)
(* old CNode gets in a two level CSpace, unless there was none and the call *)
(* is bound to fail. *)
BootSlots ==
  /\ phase = "start" \/ bootNext >= BootFirst
  /\ ~OneLevel /\ ~UsesCurrent /\ phase \notin {"start", "untypeds", "cspace"} =>
       \/ toSlot >= BootFirst
       \/ phase \in {"pick", "split"} /\ ~BootHas(1)

(* The allocator's free slots are empty, and behind what simple lists. *)
FreeSlots ==
  phase \notin Early =>
    /\ call # "new_1level_bootinfo" => free \cap DOMAIN Here = {}
    /\ FromSimple => \A s \in free : s > simple_last_valid_cap

(* No untyped that is still in the boot CSpace is in a listed slot. *)
UtsApart ==
  phase \in Early \cup {"update", "move"} =>
    \A k \in 1 .. Len(uts) : (phase = "move" => k >= loop) => uts[k].slot \notin layout.listed

StillOld(s) == s \in DOMAIN old /\ old[s] = BootCaps(layout)[s]
Moved(s) == space = "new" /\ s \in DOMAIN new /\ new[s] = BootCaps(layout)[s]

(* What simple lists is where it was, or in the same place of the new CSpace. *)
CapsKept == \A s \in layout.listed : StillOld(s) \/ Moved(s)

(* What has been transferred so far. *)
Arrived(n) == StaysBehind(simple_get_nth_cap(n)) \/ Moved(simple_get_nth_cap(n))
Transferred ==
  /\ phase = "transfer" => \A n \in 1 .. loop - 1 : Arrived(n)
  /\ phase = "done" /\ FromSimple /\ ~UsesCurrent => \A n \in 1 .. simple_get_cap_count : Arrived(n)

InPlace == Course /\ BootTypes /\ Spaces /\ BootSlots /\ FreeSlots /\ UtsApart /\ CapsKept /\ Transferred

(* The inductive invariant. *)
CapsInv == phase # "failed" => InPlace

-----------------------------------------------------------------------------
(* What does not change during a call. *)
LEMMA SameInputs ==
  ASSUME inputs' = inputs
  PROVE  /\ call' = call /\ layout' = layout /\ regions' = regions
         /\ UsesCurrent' = UsesCurrent /\ OneLevel' = OneLevel /\ FromSimple' = FromSimple
         /\ simple_caps' = simple_caps /\ simple_last_valid_cap' = simple_last_valid_cap
         /\ simple_get_cap_count' = simple_get_cap_count
         /\ BootFirst' = BootFirst /\ BootEnd' = BootEnd
         /\ BootCaps(layout)' = BootCaps(layout)
         /\ \A n : simple_get_nth_cap(n)' = simple_get_nth_cap(n)
         /\ \A s : StaysBehind(s)' <=> StaysBehind(s)
<1>1. call' = call /\ layout' = layout /\ regions' = regions
  BY DEF inputs
<1>2. UsesCurrent' = UsesCurrent /\ OneLevel' = OneLevel /\ FromSimple' = FromSimple
  BY <1>1 DEF UsesCurrent, OneLevel, FromSimple
<1>3. simple_caps' = simple_caps /\ simple_last_valid_cap' = simple_last_valid_cap
      /\ simple_get_cap_count' = simple_get_cap_count /\ BootCaps(layout)' = BootCaps(layout)
  BY <1>1 DEF simple_caps, simple_last_valid_cap, simple_get_cap_count
<1>4. BootFirst' = BootFirst /\ BootEnd' = BootEnd
  BY <1>1, <1>2, <1>3 DEF BootFirst, BootEnd, EmptyStart
<1>5. \A n : simple_get_nth_cap(n)' = simple_get_nth_cap(n)
  BY <1>3 DEF simple_get_nth_cap
<1>6. \A s : StaysBehind(s)' <=> StaysBehind(s)
  BY <1>1 DEF StaysBehind, simple_is_untyped_cap
<1> QED
  BY <1>1, <1>2, <1>3, <1>4, <1>5, <1>6

(* Sequences. *)
LEMMA EntryRemoved ==
  ASSUME NEW S, NEW q \in Seq(S), NEW k \in 1 .. Len(q)
  PROVE  /\ RemoveAt(q, k) \in Seq(S) /\ Len(RemoveAt(q, k)) = Len(q) - 1
         /\ \A j \in 1 .. Len(q) - 1 : RemoveAt(q, k)[j] = IF j < k THEN q[j] ELSE q[j + 1]
BY Removed

(* The untyped that is split is the smallest of those that are large enough. *)
LEMMA BestFacts ==
  ASSUME uts \in Seq(UtNodes), BigEnough # {}
  PROVE  BestUt \in 1 .. Len(uts) /\ uts[BestUt].bits >= NeedBits /\ ~uts[BestUt].dev
<1>0. Len(uts) \in Nat /\ BigEnough \subseteq 1 .. Len(uts) /\ \A k \in 1 .. Len(uts) : uts[k].bits \in Nat
  <2>1. \A k \in 1 .. Len(uts) : uts[k] \in UtNodes
    OBVIOUS
  <2>2. Len(uts) \in Nat
    OBVIOUS
  <2>3. \A u \in UtNodes : u.bits \in Nat
    BY DEF UtNodes
  <2> QED
    BY <2>1, <2>2, <2>3 DEF BigEnough
<1> DEFINE B == {uts[k].bits : k \in BigEnough}
<1>1. B \in SUBSET Nat /\ B # {}
  BY <1>0
<1>2. PICK m \in B : \A x \in B : m <= x
  BY <1>1, LeastNat
<1> DEFINE K == {k \in BigEnough : uts[k].bits = m}
<1>3. K \in SUBSET Nat /\ K # {}
  BY <1>0, <1>2
<1>4. PICK k \in K : \A j \in K : k <= j
  BY <1>3, LeastNat
<1>5. k \in BigEnough /\ \A j \in BigEnough : uts[k].bits < uts[j].bits \/ (uts[k].bits = uts[j].bits /\ k <= j)
  <2> SUFFICES ASSUME NEW j \in BigEnough
               PROVE  uts[k].bits < uts[j].bits \/ (uts[k].bits = uts[j].bits /\ k <= j)
    BY <1>4
  <2>1. uts[k].bits = m /\ m <= uts[j].bits /\ uts[j].bits \in Nat /\ m \in Nat
    BY <1>0, <1>1, <1>2, <1>4
  <2>2. uts[j].bits = m => k <= j
    BY <1>4
  <2> QED
    BY <2>1, <2>2
<1>6. BestUt \in BigEnough
  BY <1>5 DEF BestUt
<1> QED
  BY <1>0, <1>6 DEF BigEnough

(* The sizes. *)
LEMMA SizesNat ==
  /\ NeedBits \in Nat /\ CnodeBits \in Nat /\ Bit(NewBits) \in Int /\ Bit(L1Bits) \in Int /\ LevelSize \in Int
<1>1. NewBits \in Nat /\ L1Bits \in Nat /\ L2Bits \in Nat /\ SlotBits \in Nat
  BY BootAssumption DEF BootAssumption
<1>2. CnodeBits \in Nat
  BY <1>1 DEF CnodeBits
<1>3. NeedBits \in Nat
  BY <1>1, <1>2 DEF NeedBits
<1> QED
  BY <1>1, <1>2, <1>3, BitInt DEF LevelSize

(* The allocator's slots begin at an integer.                               *)
LEMMA AllocFirstInt ==
  ASSUME layout \in Layouts
  PROVE  AllocFirst \in Int
BY LastFacts, FirstFacts DEF AllocFirst

(* A usable slot is free, and is taken off the free ones.                   *)
LEMMA SlotTaken ==
  ASSUME layout \in Layouts, free \subseteq Nat
  PROVE  /\ TakeSlot(free) \subseteq free
         /\ UsableSlots(free) # {} =>
              /\ NextFree(free) \in free
              /\ TakeSlot(free) = free \ {NextFree(free)}
<1>1. UsableSlots(free) \subseteq free
  BY DEF UsableSlots
<1>2. UsableSlots(free) # {} => NextFree(free) \in UsableSlots(free)
  <2> SUFFICES ASSUME UsableSlots(free) # {} PROVE NextFree(free) \in UsableSlots(free)
    OBVIOUS
  <2>1. PICK m, d, r, e :
          m = Min(UsableSlots(free)) /\ d = SlotsPerWord /\ r = (m - AllocFirst) % d /\ e = m - r
    OBVIOUS
  <2>2. m \in UsableSlots(free) /\ m \in Nat
    BY <1>1, <2>1, MinIsLeast
  <2>3. d \in Nat \ {0} /\ AllocFirst \in Int
    BY <2>1, AllocFirstInt, BootAssumption DEF BootAssumption
  <2>4. r \in 0 .. d - 1
    BY <2>1, <2>2, <2>3, DivMod
  <2>5. m \in e .. e + d - 1 /\ e + d - 1 \in Int
    BY <2>1, <2>2, <2>3, <2>4
  <2> DEFINE W == UsableSlots(free) \cap e .. e + d - 1
  <2>6. W \in SUBSET Nat /\ W # {} /\ \A y \in W : y <= e + d - 1
    BY <1>1, <2>2, <2>5
  <2>7. Max(W) \in W
    BY <2>5, <2>6, MaxIsGreatest
  <2>8. NextFree(free) = Max(W)
    BY <2>1 DEF NextFree
  <2> QED
    BY <2>7, <2>8
<1> QED
  BY <1>1, <1>2 DEF TakeSlot

(* The slots of the new CSpace that its allocator is given. *)
LEMMA FreeInNewFacts ==
  ASSUME layout \in Layouts, toSlot \in Nat
  PROVE  \A x \in FreeInNew :
           /\ x \in Nat
           /\ OneLevel => x >= 1 /\ x < Bit(NewBits) - 1
           /\ OneLevel /\ FromSimple => x > simple_last_valid_cap
           /\ ~OneLevel => x > toSlot /\ x > 2
<1> SUFFICES ASSUME NEW x \in FreeInNew
             PROVE  /\ x \in Nat
                    /\ OneLevel => x >= 1 /\ x < Bit(NewBits) - 1
                    /\ OneLevel /\ FromSimple => x > simple_last_valid_cap
                    /\ ~OneLevel => x > toSlot /\ x > 2
  OBVIOUS
<1>1. CASE OneLevel
  <2>1. PICK a : a = IF FromSimple THEN simple_last_valid_cap + 1 ELSE 1
    OBVIOUS
  <2>2. a \in Nat /\ a >= 1 /\ (FromSimple => a > simple_last_valid_cap) /\ simple_last_valid_cap \in Nat
    BY <2>1, LastFacts
  <2>3. PICK b : b = Bit(NewBits)
    OBVIOUS
  <2>4. b \in Int
    BY <2>3, SizesNat
  <2>5. x \in a .. b - 3
    BY <1>1, <2>1, <2>3 DEF FreeInNew
  <2> QED
    BY <1>1, <2>2, <2>3, <2>4, <2>5
<1>2. CASE ~OneLevel
  <2>1. PICK last, b : last = (IF toSlot > TwoLevelCnodeSlot THEN toSlot ELSE TwoLevelCnodeSlot)
                       /\ b = SecondLevels * LevelSize - 1
    OBVIOUS
  <2>2. last \in Nat /\ last >= toSlot /\ last >= 2
    BY <2>1 DEF TwoLevelCnodeSlot
  <2>3. x \in last + 1 .. b
    BY <1>2, <2>1 DEF FreeInNew
  <2>4. x \in Int /\ last + 1 <= x
    BY <2>2, <2>3
  <2> QED
    BY <1>2, <2>2, <2>4
<1> QED
  BY <1>1, <1>2

(* The untyped that is added next. *)
LEMMA UtFacts ==
  ASSUME layout \in Layouts, loop \in Nat, loop >= 1, loop <= Len(layout.uts)
  PROVE  /\ layout.uts[loop].base \in Nat /\ layout.uts[loop].bits \in Nat /\ layout.uts[loop].dev \in BOOLEAN
         /\ layout.utStart + loop - 1 \in UtSlots(layout)
         /\ layout.utStart + loop - 1 \in Nat /\ layout.utStart + loop - 1 \notin layout.listed
<1>1. PICK a, n : a = layout.utStart /\ n = Len(layout.uts)
  OBVIOUS
<1>2. a \in Nat /\ n \in Nat
  BY <1>1, LayoutFacts
<1>3. a + loop - 1 \in a .. a + n - 1 /\ a + loop - 1 \in Nat
  BY <1>1, <1>2
<1>4. layout.utStart + loop - 1 \in UtSlots(layout)
  BY <1>1, <1>3 DEF UtSlots
<1>5. layout.utStart + loop - 1 \notin layout.listed
  BY <1>4, LayoutFacts
<1>6. layout.uts[loop] \in [base : Nat, bits : Nat, dev : BOOLEAN]
  <2>1. loop \in 1 .. Len(layout.uts)
    BY <1>1, <1>2
  <2>2. PICK U, q : U = [base : Nat, bits : Nat, dev : BOOLEAN] /\ q = layout.uts
    OBVIOUS
  <2>3. q \in Seq(U) /\ loop \in 1 .. Len(q)
    BY <2>1, <2>2, LayoutFacts
  <2>4. q[loop] \in U
    BY <2>3
  <2> QED
    BY <2>2, <2>4
<1> QED
  BY <1>1, <1>3, <1>4, <1>5, <1>6

(* Records of untypeds. *)
LEMMA UtMoved ==
  ASSUME NEW u \in UtNodes, NEW a \in Int, NEW b \in Nat
  PROVE  [u EXCEPT !.root = a, !.slot = b] \in UtNodes
<1>1. PICK r : r = [u EXCEPT !.root = a]
  OBVIOUS
<1>2. r \in UtNodes
  BY <1>1 DEF UtNodes
<1>3. [r EXCEPT !.slot = b] \in UtNodes
  BY <1>2 DEF UtNodes
<1> QED
  BY <1>1, <1>3

(* What is recorded of the half of an untyped.                              *)
LEMMA UtHalved ==
  ASSUME NEW u \in UtNodes, NEW s \in Nat, NEW b \in Nat, NEW p \in Int
  PROVE  [u EXCEPT !.slot = s, !.bits = b, !.paddr = p] \in UtNodes
<1>1. PICK r : r = [u EXCEPT !.slot = s]
  OBVIOUS
<1>2. r \in UtNodes
  BY <1>1 DEF UtNodes
<1>3. PICK q : q = [r EXCEPT !.bits = b]
  OBVIOUS
<1>4. q \in UtNodes
  BY <1>2, <1>3 DEF UtNodes
<1>5. [q EXCEPT !.paddr = p] \in UtNodes
  BY <1>4 DEF UtNodes
<1> QED
  BY <1>1, <1>3, <1>5

(* A capability in an empty CNode is the only one.                          *)
LEMMA PutFirst ==
  ASSUME NEW s, NEW v
  PROVE  DOMAIN Put(<<>>, s, v) = {s}
<1>1. PICK e : e = <<>>
  OBVIOUS
<1>2. DOMAIN e = {}
  BY <1>1
<1>3. DOMAIN Put(e, s, v) = DOMAIN e \cup {s}
  BY DEF Put
<1> QED
  BY <1>1, <1>2, <1>3

(* What the loop over a device untyped does to the capabilities. *)
LEMMA PieceEffect ==
  ASSUME NEW goal, NEW kind, perform_sub_allocation(goal, kind), phase' # "failed"
  PROVE  /\ phase' = phase /\ UsableSlots(free) # {} /\ free' = TakeSlot(free)
         /\ DOMAIN old' = DOMAIN old \cup {NextFree(free)}
         /\ \A t \in DOMAIN old : t # NextFree(free) => old'[t] = old[t]
<1> DEFINE bits == get_next_alignment_bits(dev.paddr, goal)
<1>1. PICK s, v : s = NextFree(free) /\ v = Untyped(dev.paddr, bits, TRUE)
  OBVIOUS
<1> HIDE DEF bits
<1>2. phase' = phase /\ UsableSlots(free) # {} /\ free' = TakeSlot(free) /\ old' = Put(old, s, v)
  BY <1>1 DEF perform_sub_allocation, Fail, bits
<1>3. DOMAIN Put(old, s, v) = DOMAIN old \cup {s} /\ \A t \in DOMAIN old : t # s => Put(old, s, v)[t] = old[t]
  BY DEF Put
<1> QED
  BY <1>1, <1>2, <1>3

(* A step of the loop over a device untyped: a slot that was free is        *)
(* filled, or none.                                                         *)
LEMMA DeviceEffect ==
  ASSUME handle_device_untyped_cap, phase' # "failed"
  PROVE  /\ phase = "device" /\ phase' \in {"device", "adding"}
         /\ loop' = loop \/ loop' = loop + 1
         /\ \/ old' = old /\ free' = free
            \/ /\ UsableSlots(free) # {} /\ free' = TakeSlot(free)
               /\ DOMAIN old' = DOMAIN old \cup {NextFree(free)}
               /\ \A t \in DOMAIN old : t # NextFree(free) => old'[t] = old[t]
         /\ UNCHANGED <<inputs, new, space, bootNext, uts, best, toSlot>>
<1> DEFINE E == /\ UsableSlots(free) # {} /\ free' = TakeSlot(free)
                /\ DOMAIN old' = DOMAIN old \cup {NextFree(free)}
                /\ \A t \in DOMAIN old : t # NextFree(free) => old'[t] = old[t]
<1>0. phase = "device" /\ UNCHANGED <<inputs, new, space, bootNext, uts, best, toSlot>>
  BY DEF handle_device_untyped_cap
<1>1. ASSUME NEW goal, NEW kind, perform_sub_allocation(goal, kind), UNCHANGED loop
      PROVE  phase' = "device" /\ loop' = loop /\ E
  BY <1>0, <1>1, PieceEffect
<1> HIDE DEF E
<1>2. CASE dev.region <= Len(regions) /\ MeetsRegion /\ dev.paddr < RegionTop
  <2>1. PICK goal, kind : perform_sub_allocation(goal, kind) /\ UNCHANGED loop
    BY <1>2 DEF handle_device_untyped_cap
  <2>2. phase' = "device" /\ loop' = loop /\ E
    BY <1>1, <2>1
  <2> QED
    BY <1>0, <2>2 DEF E
<1>3. CASE dev.region <= Len(regions) /\ ~ (MeetsRegion /\ dev.paddr < RegionTop)
  <2>1. UNCHANGED <<old, free, utspace, phase, loop>>
    BY <1>3 DEF handle_device_untyped_cap
  <2> QED
    BY <1>0, <2>1
<1>4. CASE ~ (dev.region <= Len(regions)) /\ dev.tainted /\ dev.paddr < dev.end
  <2>1. perform_sub_allocation(Wrap(dev.end), "DEV") /\ UNCHANGED loop
    BY <1>4 DEF handle_device_untyped_cap
  <2>2. phase' = "device" /\ loop' = loop /\ E
    BY <1>1, <2>1
  <2> QED
    BY <1>0, <2>2 DEF E
<1>5. CASE ~ (dev.region <= Len(regions)) /\ ~ (dev.tainted /\ dev.paddr < dev.end)
  <2>1. phase' = "adding" /\ loop' = loop + 1 /\ UNCHANGED <<old, free>>
    BY <1>5 DEF handle_device_untyped_cap, Fail
  <2> QED
    BY <1>0, <2>1
<1> QED
  BY <1>2, <1>3, <1>4, <1>5

(* An untyped is split in the boot CSpace. *)
LEMMA SplitEffect ==
  ASSUME _split_ut, phase' # "failed"
  PROVE  /\ BootHas(2) /\ bootNext' = bootNext + 2 /\ phase' = phase
         /\ DOMAIN old' = DOMAIN old \cup {bootNext, bootNext + 1}
         /\ \A t \in DOMAIN old : t # bootNext /\ t # bootNext + 1 => old'[t] = old[t]
<1>1. PICK a, b, v, w :
        /\ a = bootNext /\ b = bootNext + 1
        /\ v = Untyped(CapAt(best.root, best.slot).base, best.bits - 1, CapAt(best.root, best.slot).dev)
        /\ w = Untyped(CapAt(best.root, best.slot).base + Bit(best.bits - 1), best.bits - 1,
                       CapAt(best.root, best.slot).dev)
  OBVIOUS
<1>2. BootHas(2) /\ bootNext' = bootNext + 2 /\ phase' = phase /\ old' = Put(Put(old, a, v), b, w)
  BY <1>1 DEF _split_ut, Fail
<1>3. PICK f : f = Put(old, a, v)
  OBVIOUS
<1>4. DOMAIN f = DOMAIN old \cup {a} /\ \A t \in DOMAIN old : t # a => f[t] = old[t]
  BY <1>3 DEF Put
<1>5. DOMAIN Put(f, b, w) = DOMAIN f \cup {b} /\ \A t \in DOMAIN f : t # b => Put(f, b, w)[t] = f[t]
  BY DEF Put
<1> QED
  BY <1>1, <1>2, <1>3, <1>4, <1>5

(* A CNode is made in the boot CSpace. *)
LEMMA RetypeEffect ==
  ASSUME _retype_cnode, phase' # "failed"
  PROVE  /\ BootHas(1) /\ bootNext' = bootNext + 1
         /\ DOMAIN old' = DOMAIN old \cup {bootNext}
         /\ \A t \in DOMAIN old : t # bootNext => old'[t] = old[t]
<1>1. PICK a, v : a = bootNext /\ v = CnodeCap("new", CnodeBits)
  OBVIOUS
<1>2. BootHas(1) /\ bootNext' = bootNext + 1 /\ old' = Put(old, a, v)
  BY <1>1 DEF _retype_cnode, Fail
<1>3. DOMAIN Put(old, a, v) = DOMAIN old \cup {a} /\ \A t \in DOMAIN old : t # a => Put(old, a, v)[t] = old[t]
  BY DEF Put
<1> QED
  BY <1>1, <1>2, <1>3

(* An untyped is moved into the new CSpace. *)
LEMMA MoveEffect ==
  ASSUME bootstrap_move_untypeds, phase' # "failed", uts \in Seq(UtNodes), loop \in 1 .. Len(uts)
  PROVE  /\ UsableSlots(free) # {} /\ free' = TakeSlot(free)
         /\ NextFree(free) \notin DOMAIN new
         /\ DOMAIN new' = DOMAIN new \cup {NextFree(free)}
         /\ \A t \in DOMAIN new : new'[t] = new[t]
         /\ DOMAIN old' = DOMAIN old \ {uts[loop].slot}
         /\ \A t \in DOMAIN old' : old'[t] = old[t]
         /\ Len(uts') = Len(uts) /\ \A k \in 1 .. Len(uts) : k # loop => uts'[k] = uts[k]
<1>1. PICK s, v, l, q, w : /\ s = NextFree(free) /\ v = CapAt(uts[loop].root, uts[loop].slot)
                           /\ l = loop /\ q = uts
                           /\ w = [uts[loop] EXCEPT !.root = NewCnodeSlot, !.slot = s]
  OBVIOUS
<1>2. UsableSlots(free) # {} /\ free' = TakeSlot(free) /\ s \notin DOMAIN new /\ new' = Put(new, s, v)
      /\ old' = [t \in DOMAIN old \ {uts[loop].slot} |-> old[t]]
  BY <1>1 DEF bootstrap_move_untypeds, Fail
<1>3. DOMAIN Put(new, s, v) = DOMAIN new \cup {s} /\ \A t \in DOMAIN new : t # s => Put(new, s, v)[t] = new[t]
  BY DEF Put
<1>4. uts' = [q EXCEPT ![l] = w]
  BY <1>1 DEF bootstrap_move_untypeds, Fail
<1>5. q \in Seq(UtNodes) /\ l \in 1 .. Len(q)
  BY <1>1
<1>6. Len([q EXCEPT ![l] = w]) = Len(q) /\ \A k \in 1 .. Len(q) : k # l => [q EXCEPT ![l] = w][k] = q[k]
  BY <1>5
<1> QED
  BY <1>1, <1>2, <1>3, <1>4, <1>6

(* A capability that simple lists is transferred, or stays behind. *)
LEMMA TransferEffect ==
  ASSUME bootstrap_transfer_caps_simple, phase' # "failed"
  PROVE  /\ loop' = loop + 1
         /\ phase' = IF loop = simple_get_cap_count THEN "done" ELSE "transfer"
         /\ \/ StaysBehind(simple_get_nth_cap(loop)) /\ UNCHANGED <<old, new>>
            \/ /\ ~StaysBehind(simple_get_nth_cap(loop))
               /\ simple_get_nth_cap(loop) \notin DOMAIN new
               /\ DOMAIN new' = DOMAIN new \cup {simple_get_nth_cap(loop)}
               /\ new'[simple_get_nth_cap(loop)] = old[simple_get_nth_cap(loop)]
               /\ \A t \in DOMAIN new : new'[t] = new[t]
               /\ \A t \in DOMAIN old : t # simple_get_nth_cap(loop) => t \in DOMAIN old' /\ old'[t] = old[t]
<1>1. PICK s, v : s = simple_get_nth_cap(loop) /\ v = old[simple_get_nth_cap(loop)]
  OBVIOUS
<1>2. CASE StaysBehind(s)
  BY <1>1, <1>2 DEF bootstrap_transfer_caps_simple, Fail
<1>3. CASE ~StaysBehind(s)
  <2>1. /\ loop' = loop + 1 /\ phase' = IF loop = simple_get_cap_count THEN "done" ELSE "transfer"
        /\ s \notin DOMAIN new /\ new' = Put(new, s, v)
        /\ old' = IF s \in {layout.tcb, layout.pd} THEN old ELSE [t \in DOMAIN old \ {s} |-> old[t]]
    BY <1>1, <1>3 DEF bootstrap_transfer_caps_simple, Fail
  <2>2. DOMAIN Put(new, s, v) = DOMAIN new \cup {s} /\ Put(new, s, v)[s] = v
        /\ \A t \in DOMAIN new : t # s => Put(new, s, v)[t] = new[t]
    BY DEF Put
  <2>3. \A t \in DOMAIN old : t # s => t \in DOMAIN old' /\ old'[t] = old[t]
    BY <2>1
  <2> QED
    BY <1>1, <1>3, <2>1, <2>2, <2>3
<1> QED
  BY <1>2, <1>3

(* What simple lists and does not stay behind. *)
LEMMA NthListed ==
  ASSUME layout \in Layouts, loop \in 1 .. simple_get_cap_count
  PROVE  /\ simple_get_nth_cap(loop) \in simple_caps
         /\ ~StaysBehind(simple_get_nth_cap(loop)) => simple_get_nth_cap(loop) \in layout.listed
BY NthCap DEF StaysBehind, simple_is_untyped_cap, simple_caps

(* Only the first boot slot is determined.                                  *)
LEMMA Keeps_bootstrap_create_info ==
  ASSUME InPlace, bootstrap_create_info, phase' # "failed"
  PROVE  InPlace'
<1>0. inputs' = inputs
  BY DEF bootstrap_create_info
<1>00. /\ UsesCurrent' = UsesCurrent /\ OneLevel' = OneLevel /\ FromSimple' = FromSimple
      /\ call' = call /\ layout' = layout
  BY <1>0, SameInputs
<1>1. Course'
  <2>1. loop' = 1 /\ (phase' = "current" <=> UsesCurrent) /\ phase' \in {"current", "untypeds"}
    BY DEF InPlace, Course, bootstrap_create_info, Fail
  <2>2. layout \in Layouts /\ call \in Calls
    BY DEF InPlace, Course
  <2>3. PICK n : n = Len(layout.uts)
    OBVIOUS
  <2>4. n \in Nat \ {0}
    BY <2>2, <2>3, LayoutFacts
  <2>5. 1 <= Len(layout.uts)
    BY <2>3, <2>4
  <2> QED
    BY <1>00, <2>1, <2>2, <2>5 DEF Course, CurrentPhases, NewPhases
<1>2. BootTypes'
  <2>1. bootNext' \in Nat /\ toSlot' \in Nat
    BY <1>00, FirstFacts DEF InPlace, Course, BootTypes, bootstrap_create_info
  <2>2. DOMAIN new' \subseteq Nat /\ free' \subseteq Nat
    BY DEF InPlace, BootTypes, bootstrap_create_info
  <2>3. uts' \in Seq(UtNodes)
    BY DEF InPlace, BootTypes, bootstrap_create_info
  <2>4. phase' = "split" => best' \in UtNodes
    BY <1>00 DEF InPlace, BootTypes, Fail, bootstrap_create_info
  <2> QED
    BY <2>1, <2>2, <2>3, <2>4 DEF BootTypes
<1>3. Spaces'
  BY <1>00 DEF InPlace, Spaces, Fail, Early, bootstrap_create_info
<1>4. BootSlots'
  BY <1>0, <1>00, SameInputs, LastFacts, FirstFacts
     DEF InPlace, BootSlots, BootHas, Fail, Early, Course, CurrentPhases, NewPhases, BootTypes,
         Spaces, FreeSlots, UtsApart, CapsKept, Transferred, bootstrap_create_info
<1>5. FreeSlots'
  BY <1>00 DEF InPlace, FreeSlots, Here, Fail, Early, bootstrap_create_info
<1>6. UtsApart'
  BY <1>00 DEF InPlace, UtsApart, Fail, Early, bootstrap_create_info
<1>7. CapsKept'
  BY <1>00 DEF InPlace, CapsKept, StillOld, Moved, bootstrap_create_info
<1>8. Transferred'
  BY <1>00 DEF InPlace, Transferred, Arrived, Moved, Fail, Early, bootstrap_create_info
<1> QED
  BY <1>1, <1>2, <1>3, <1>4, <1>5, <1>6, <1>7, <1>8 DEF InPlace

(* An untyped is noted under its boot slot, which is not a listed one.      *)
LEMMA Keeps_bootstrap_add_untypeds ==
  ASSUME InPlace, bootstrap_add_untypeds, phase' # "failed"
  PROVE  InPlace'
<1>0. inputs' = inputs
  BY DEF bootstrap_add_untypeds, AppendUt
<1>00. /\ UsesCurrent' = UsesCurrent /\ OneLevel' = OneLevel /\ FromSimple' = FromSimple
      /\ call' = call /\ layout' = layout
  BY <1>0, SameInputs
<1>1. Course'
  <2>1. phase' \in {"untypeds", "cspace"} /\ (loop' = 1 \/ loop' = loop + 1)
        /\ (phase' = "untypeds" => loop # Len(layout.uts) /\ loop' = loop + 1)
    BY DEF InPlace, Course, bootstrap_add_untypeds, Fail
  <2>2. layout \in Layouts /\ call \in Calls /\ ~UsesCurrent /\ loop \in Nat /\ loop >= 1 /\ loop <= Len(layout.uts)
    BY DEF InPlace, Course, bootstrap_add_untypeds, CurrentPhases
  <2>3. PICK n : n = Len(layout.uts)
    OBVIOUS
  <2>4. n \in Nat \ {0}
    BY <2>2, <2>3, LayoutFacts
  <2>5. loop' \in Nat /\ loop' >= 1 /\ (phase' = "untypeds" => loop' <= Len(layout.uts))
    BY <2>1, <2>2, <2>3, <2>4
  <2> QED
    BY <1>00, <2>1, <2>2, <2>5 DEF Course, NewPhases
<1>2. BootTypes'
  <2>1. bootNext' \in Nat /\ toSlot' \in Nat
    BY DEF InPlace, BootTypes, bootstrap_add_untypeds
  <2>2. DOMAIN new' \subseteq Nat /\ free' \subseteq Nat
    BY DEF InPlace, BootTypes, bootstrap_add_untypeds
  <2>3. uts' \in Seq(UtNodes)
    <3>1. PICK u : u = [root |-> layout.cnode, slot |-> layout.utStart + loop - 1,
                       bits |-> layout.uts[loop].bits, paddr |-> layout.uts[loop].base, dev |-> layout.uts[loop].dev]
      OBVIOUS
    <3>2. layout \in Layouts /\ loop \in Nat /\ loop >= 1 /\ loop <= Len(layout.uts)
      BY DEF InPlace, Course, bootstrap_add_untypeds
    <3>3. layout.cnode \in Nat
      BY <3>2, LayoutFacts
    <3>4. u \in UtNodes
      BY <3>1, <3>2, <3>3, UtFacts DEF UtNodes
    <3>5. uts' = Append(uts, u) \/ uts' = uts
      BY <3>1 DEF bootstrap_add_untypeds, AppendUt
    <3> QED
      BY <3>4, <3>5 DEF InPlace, BootTypes
  <2>4. phase' = "split" => best' \in UtNodes
    BY DEF InPlace, BootTypes, bootstrap_add_untypeds
  <2> QED
    BY <2>1, <2>2, <2>3, <2>4 DEF BootTypes
<1>3. Spaces'
  BY <1>00 DEF InPlace, Spaces, Fail, Early, bootstrap_add_untypeds, AppendUt
<1>4. BootSlots'
  BY <1>0, <1>00, SameInputs
     DEF InPlace, BootSlots, BootHas, Fail, Early, Course, CurrentPhases, NewPhases,
         bootstrap_add_untypeds, AppendUt
<1>5. FreeSlots'
  BY <1>00 DEF InPlace, FreeSlots, Here, Fail, Early, bootstrap_add_untypeds, AppendUt
<1>6. UtsApart'
  <2>1. PICK u : u = [root |-> layout.cnode, slot |-> layout.utStart + loop - 1,
                     bits |-> layout.uts[loop].bits, paddr |-> layout.uts[loop].base, dev |-> layout.uts[loop].dev]
    OBVIOUS
  <2>2. layout \in Layouts /\ loop \in Nat /\ loop >= 1 /\ loop <= Len(layout.uts) /\ uts \in Seq(UtNodes)
    BY DEF InPlace, Course, BootTypes, bootstrap_add_untypeds
  <2>3. u.slot \notin layout.listed
    BY <2>1, <2>2, UtFacts
  <2>4. uts' = Append(uts, u) \/ uts' = uts
    BY <2>1 DEF bootstrap_add_untypeds, AppendUt
  <2>5. \A k \in 1 .. Len(uts) : uts[k].slot \notin layout.listed
    BY DEF InPlace, UtsApart, Early, bootstrap_add_untypeds
  <2>6. \A k \in 1 .. Len(uts') : uts'[k].slot \notin layout.listed
    BY <2>2, <2>3, <2>4, <2>5
  <2> QED
    BY <1>00, <2>6 DEF UtsApart
<1>7. CapsKept'
  BY <1>00 DEF InPlace, CapsKept, StillOld, Moved, bootstrap_add_untypeds, AppendUt
<1>8. Transferred'
  BY <1>00 DEF InPlace, Transferred, Arrived, Moved, bootstrap_add_untypeds, AppendUt
<1> QED
  BY <1>1, <1>2, <1>3, <1>4, <1>5, <1>6, <1>7, <1>8 DEF InPlace

(* The slot for the old CNode is behind everything in the boot CSpace.      *)
LEMMA Keeps__bootstrap_new_level ==
  ASSUME InPlace, _bootstrap_new_level, phase' # "failed"
  PROVE  InPlace'
<1>0. inputs' = inputs
  BY DEF _bootstrap_new_level
<1>00. /\ UsesCurrent' = UsesCurrent /\ OneLevel' = OneLevel /\ FromSimple' = FromSimple
      /\ call' = call /\ layout' = layout
  BY <1>0, SameInputs
<1>1. Course'
  BY <1>00 DEF InPlace, Course, Fail, Early, CurrentPhases, NewPhases, _bootstrap_new_level
<1>2. BootTypes'
  <2>1. bootNext' \in Nat /\ toSlot' \in Nat
    BY DEF InPlace, BootTypes, _bootstrap_new_level
  <2>2. DOMAIN new' \subseteq Nat /\ free' \subseteq Nat
    BY DEF InPlace, BootTypes, _bootstrap_new_level
  <2>3. uts' \in Seq(UtNodes)
    BY DEF InPlace, BootTypes, _bootstrap_new_level
  <2>4. phase' = "split" => best' \in UtNodes
    BY DEF InPlace, BootTypes, _bootstrap_new_level
  <2> QED
    BY <2>1, <2>2, <2>3, <2>4 DEF BootTypes
<1>3. Spaces'
  BY <1>00 DEF InPlace, Spaces, Fail, Early, _bootstrap_new_level
<1>4. BootSlots'
  BY <1>0, <1>00, SameInputs, LastFacts, FirstFacts
     DEF InPlace, BootSlots, BootHas, Fail, Early, Course, CurrentPhases, NewPhases, BootTypes,
         Spaces, FreeSlots, UtsApart, CapsKept, Transferred, _bootstrap_new_level
<1>5. FreeSlots'
  BY <1>00 DEF InPlace, FreeSlots, Here, Fail, Early, _bootstrap_new_level
<1>6. UtsApart'
  BY <1>00 DEF InPlace, UtsApart, Fail, Early, _bootstrap_new_level
<1>7. CapsKept'
  BY <1>00 DEF InPlace, CapsKept, StillOld, Moved, _bootstrap_new_level
<1>8. Transferred'
  BY <1>00 DEF InPlace, Transferred, Arrived, Moved, _bootstrap_new_level
<1> QED
  BY <1>1, <1>2, <1>3, <1>4, <1>5, <1>6, <1>7, <1>8 DEF InPlace

(* What remains on the list was on it before.                               *)
LEMMA Keeps__remove_ut ==
  ASSUME InPlace, _remove_ut, phase' # "failed"
  PROVE  InPlace'
<1>0. inputs' = inputs
  BY DEF _remove_ut, BigEnough, BestUt
<1>00. /\ UsesCurrent' = UsesCurrent /\ OneLevel' = OneLevel /\ FromSimple' = FromSimple
      /\ call' = call /\ layout' = layout
  BY <1>0, SameInputs
<1>1. Course'
  BY <1>00 DEF InPlace, Course, Fail, Early, CurrentPhases, NewPhases, _remove_ut, BigEnough, BestUt
<1>2. BootTypes'
  <2>1. bootNext' \in Nat /\ toSlot' \in Nat
    BY DEF InPlace, BootTypes, _remove_ut
  <2>2. DOMAIN new' \subseteq Nat /\ free' \subseteq Nat
    BY DEF InPlace, BootTypes, _remove_ut
  <2>3. uts' \in Seq(UtNodes)
    <3>1. BestUt \in 1 .. Len(uts) /\ uts' = RemoveAt(uts, BestUt)
      BY BestFacts DEF InPlace, BootTypes, _remove_ut, Fail
    <3> QED
      BY <3>1, EntryRemoved DEF InPlace, BootTypes
  <2>4. phase' = "split" => best' \in UtNodes
    <3>1. BestUt \in 1 .. Len(uts) /\ best' = uts[BestUt]
      BY BestFacts DEF InPlace, BootTypes, _remove_ut, Fail
    <3> QED
      BY <3>1 DEF InPlace, BootTypes
  <2> QED
    BY <2>1, <2>2, <2>3, <2>4 DEF BootTypes
<1>3. Spaces'
  BY <1>00 DEF InPlace, Spaces, Fail, Early, _remove_ut, BigEnough, BestUt
<1>4. BootSlots'
  BY <1>0, <1>00, SameInputs
     DEF InPlace, BootSlots, BootHas, Fail, Early, Course, CurrentPhases, NewPhases, _remove_ut,
         BigEnough, BestUt
<1>5. FreeSlots'
  BY <1>00 DEF InPlace, FreeSlots, Here, Fail, Early, _remove_ut, BigEnough, BestUt
<1>6. UtsApart'
  <2>1. BestUt \in 1 .. Len(uts) /\ uts' = RemoveAt(uts, BestUt) /\ phase' = "split"
    BY BestFacts DEF InPlace, BootTypes, _remove_ut, Fail
  <2>2. PICK k : k = BestUt
    OBVIOUS
  <2>3. uts \in Seq(UtNodes) /\ Len(uts) \in Nat /\ k \in 1 .. Len(uts)
    BY <2>1, <2>2 DEF InPlace, BootTypes
  <2>4. PICK q : q = RemoveAt(uts, k)
    OBVIOUS
  <2>5. Len(q) = Len(uts) - 1 /\ \A j \in 1 .. Len(uts) - 1 : q[j] = IF j < k THEN uts[j] ELSE uts[j + 1]
    BY <2>3, <2>4, EntryRemoved
  <2>6. \A j \in 1 .. Len(uts) : uts[j].slot \notin layout.listed
    BY DEF InPlace, UtsApart, Early, _remove_ut
  <2>7. ASSUME NEW j \in 1 .. Len(q)
        PROVE  q[j].slot \notin layout.listed
    <3>1. j \in 1 .. Len(uts) - 1 /\ j \in 1 .. Len(uts) /\ j + 1 \in 1 .. Len(uts)
      BY <2>3, <2>5
    <3>2. q[j] = uts[j] \/ q[j] = uts[j + 1]
      BY <2>5, <3>1
    <3> QED
      BY <2>6, <3>1, <3>2
  <2> QED
    BY <1>00, <2>1, <2>2, <2>4, <2>7 DEF UtsApart
<1>7. CapsKept'
  BY <1>00 DEF InPlace, CapsKept, StillOld, Moved, _remove_ut, BigEnough, BestUt
<1>8. Transferred'
  BY <1>00 DEF InPlace, Transferred, Arrived, Moved, Fail, Early, _remove_ut, BigEnough, BestUt
<1> QED
  BY <1>1, <1>2, <1>3, <1>4, <1>5, <1>6, <1>7, <1>8 DEF InPlace

(* The halves go into fresh boot slots, behind the listed ones.             *)
LEMMA Keeps__split_ut ==
  ASSUME InPlace, _split_ut, phase' # "failed"
  PROVE  InPlace'
<1>0. inputs' = inputs
  BY DEF _split_ut, AppendUt, KeptPaddr
<1>00. /\ UsesCurrent' = UsesCurrent /\ OneLevel' = OneLevel /\ FromSimple' = FromSimple
      /\ call' = call /\ layout' = layout
  BY <1>0, SameInputs
<1>1. Course'
  BY <1>00 DEF InPlace, Course, Fail, Early, _split_ut, AppendUt, KeptPaddr
<1>2. BootTypes'
  <2>1. bootNext' \in Nat /\ toSlot' \in Nat
    BY DEF InPlace, BootTypes, _split_ut
  <2>2. DOMAIN new' \subseteq Nat /\ free' \subseteq Nat
    BY DEF InPlace, BootTypes, _split_ut
  <2>3. uts' \in Seq(UtNodes)
    <3>1. PICK u : u = [root |-> layout.cnode, slot |-> bootNext, bits |-> best.bits - 1,
                       paddr |-> best.paddr, dev |-> best.dev]
      OBVIOUS
    <3>2. best \in UtNodes /\ bootNext \in Nat /\ layout \in Layouts /\ best.bits > NeedBits
      BY DEF InPlace, Course, BootTypes, _split_ut
    <3>3. layout.cnode \in Nat
      BY <3>2, LayoutFacts
    <3>4. best.bits - 1 \in Nat
      BY <3>2, SizesNat DEF UtNodes
    <3>5. u \in UtNodes
      BY <3>1, <3>2, <3>3, <3>4 DEF UtNodes
    <3>6. uts' = Append(uts, u)
      BY <3>1 DEF _split_ut, AppendUt, Fail
    <3> QED
      BY <3>5, <3>6 DEF InPlace, BootTypes
  <2>4. phase' = "split" => best' \in UtNodes
    <3>1. best \in UtNodes /\ bootNext \in Nat /\ best.bits > NeedBits
      BY DEF InPlace, BootTypes, _split_ut
    <3>2. PICK h, p : h = best.bits - 1 /\ p = best.paddr + Bit(best.bits - 1)
      OBVIOUS
    <3>3. h \in Nat
      BY <3>1, <3>2, SizesNat DEF UtNodes
    <3>4. p \in Int
      BY <3>1, <3>2, <3>3, BitInt DEF UtNodes
    <3>5. best' = [best EXCEPT !.slot = bootNext + 1, !.bits = h, !.paddr = p]
      BY <3>2 DEF _split_ut, KeptPaddr, Fail
    <3>6. bootNext + 1 \in Nat
      BY <3>1
    <3>7. best' \in UtNodes
      BY <3>1, <3>3, <3>4, <3>5, <3>6, UtHalved
    <3> QED
      BY <3>7
  <2> QED
    BY <2>1, <2>2, <2>3, <2>4 DEF BootTypes
<1>3. Spaces'
  BY <1>00 DEF InPlace, Spaces, Fail, Early, _split_ut, AppendUt, KeptPaddr
<1>4. BootSlots'
  <2>1. BootHas(2) /\ bootNext' = bootNext + 2 /\ phase' = "split" /\ phase = "split" /\ toSlot' = toSlot
    BY SplitEffect DEF _split_ut
  <2>2. bootNext \in Nat /\ bootNext >= BootFirst /\ layout \in Layouts
    BY <2>1 DEF InPlace, Course, BootTypes, BootSlots
  <2>3. PICK b, e : b = BootFirst /\ e = BootEnd
    OBVIOUS
  <2>4. b \in Nat /\ e \in Int
    BY <2>2, <2>3, FirstFacts, LayoutFacts DEF BootEnd
  <2>5. bootNext' >= b /\ bootNext + 1 <= e
    BY <2>1, <2>2, <2>3, <2>4 DEF BootHas
  <2>6. BootHas(1)
    BY <2>3, <2>5 DEF BootHas
  <2>7. BootFirst' = b
    BY <1>0, <2>3, SameInputs
  <2>8. ~OneLevel /\ ~UsesCurrent => toSlot >= b
    BY <2>1, <2>3, <2>6 DEF InPlace, BootSlots
  <2> QED
    BY <1>00, <2>1, <2>5, <2>7, <2>8 DEF BootSlots
<1>5. FreeSlots'
  BY <1>00 DEF InPlace, FreeSlots, Here, Fail, Early, _split_ut, AppendUt, KeptPaddr
<1>6. UtsApart'
  <2>1. PICK u : u = [root |-> layout.cnode, slot |-> bootNext, bits |-> best.bits - 1,
                     paddr |-> best.paddr, dev |-> best.dev]
    OBVIOUS
  <2>2. uts' = Append(uts, u) /\ phase = "split"
    BY <2>1 DEF _split_ut, AppendUt, Fail
  <2>3. layout \in Layouts /\ uts \in Seq(UtNodes) /\ bootNext \in Nat /\ bootNext >= BootFirst
    BY <2>2 DEF InPlace, Course, BootTypes, BootSlots
  <2>4. u.slot \notin layout.listed
    <3>1. PICK b : b = BootFirst
      OBVIOUS
    <3>2. b \in Nat /\ \A s \in layout.listed : s \in Nat /\ s < b
      BY <2>3, <3>1, FirstFacts, LastFacts DEF simple_caps
    <3> QED
      BY <2>1, <2>3, <3>1, <3>2
  <2>5. \A k \in 1 .. Len(uts) : uts[k].slot \notin layout.listed
    BY <2>2 DEF InPlace, UtsApart, Early, _split_ut
  <2>6. \A k \in 1 .. Len(uts') : uts'[k].slot \notin layout.listed
    BY <2>2, <2>3, <2>4, <2>5
  <2> QED
    BY <1>00, <2>6 DEF UtsApart
<1>7. CapsKept'
  <2>1. layout \in Layouts /\ bootNext \in Nat /\ bootNext >= BootFirst /\ space = "old" /\ phase \in Early
    BY DEF InPlace, Course, BootTypes, BootSlots, Spaces, Early, _split_ut
  <2>2. PICK b : b = BootFirst
    OBVIOUS
  <2>3. b \in Nat /\ \A s \in layout.listed : s \in Nat /\ s < b
    BY <2>1, <2>2, FirstFacts, LastFacts DEF simple_caps
  <2>4. \A s \in layout.listed : s # bootNext /\ s # bootNext + 1
    BY <2>1, <2>2, <2>3
  <2>5. \A s \in layout.listed : s \in DOMAIN old /\ old[s] = BootCaps(layout)[s]
    BY <2>1 DEF InPlace, CapsKept, StillOld, Moved
  <2>6. \A s \in layout.listed : s \in DOMAIN old' /\ old'[s] = old[s]
    BY <2>4, <2>5, SplitEffect
  <2> QED
    BY <1>00, <2>5, <2>6 DEF CapsKept, StillOld
<1>8. Transferred'
  BY <1>00 DEF InPlace, Transferred, Arrived, Moved, Fail, Early, _split_ut, AppendUt, KeptPaddr
<1> QED
  BY <1>1, <1>2, <1>3, <1>4, <1>5, <1>6, <1>7, <1>8 DEF InPlace

(* So does the new CNode; had there been no slot for it, the call would     *)
(* have failed.                                                             *)
LEMMA Keeps__retype_cnode ==
  ASSUME InPlace, _retype_cnode, phase' # "failed"
  PROVE  InPlace'
<1>0. inputs' = inputs
  BY DEF _retype_cnode
<1>00. /\ UsesCurrent' = UsesCurrent /\ OneLevel' = OneLevel /\ FromSimple' = FromSimple
      /\ call' = call /\ layout' = layout
  BY <1>0, SameInputs
<1>1. Course'
  BY <1>00 DEF InPlace, Course, Fail, Early, CurrentPhases, NewPhases, _retype_cnode
<1>2. BootTypes'
  <2>1. bootNext' \in Nat /\ toSlot' \in Nat
    BY DEF InPlace, BootTypes, _retype_cnode
  <2>2. DOMAIN new' \subseteq Nat /\ free' \subseteq Nat
    BY DEF InPlace, BootTypes, _retype_cnode
  <2>3. uts' \in Seq(UtNodes)
    BY DEF InPlace, BootTypes, _retype_cnode
  <2>4. phase' = "split" => best' \in UtNodes
    BY DEF InPlace, BootTypes, _retype_cnode
  <2> QED
    BY <2>1, <2>2, <2>3, <2>4 DEF BootTypes
<1>3. Spaces'
  BY <1>00 DEF InPlace, Spaces, Fail, Early, _retype_cnode
<1>4. BootSlots'
  BY <1>0, <1>00, SameInputs, LastFacts, FirstFacts
     DEF InPlace, BootSlots, BootHas, Fail, Early, Course, CurrentPhases, NewPhases, BootTypes,
         Spaces, FreeSlots, UtsApart, CapsKept, Transferred, _retype_cnode
<1>5. FreeSlots'
  BY <1>00 DEF InPlace, FreeSlots, Here, Fail, Early, _retype_cnode
<1>6. UtsApart'
  BY <1>00 DEF InPlace, UtsApart, Fail, Early, _retype_cnode
<1>7. CapsKept'
  <2>1. layout \in Layouts /\ bootNext \in Nat /\ bootNext >= BootFirst /\ space = "old" /\ phase \in Early
    BY DEF InPlace, Course, BootTypes, BootSlots, Spaces, Early, _retype_cnode
  <2>2. PICK b : b = BootFirst
    OBVIOUS
  <2>3. b \in Nat /\ \A s \in layout.listed : s \in Nat /\ s < b
    BY <2>1, <2>2, FirstFacts, LastFacts DEF simple_caps
  <2>4. \A s \in layout.listed : s # bootNext /\ s # bootNext + 1
    BY <2>1, <2>2, <2>3
  <2>5. \A s \in layout.listed : s \in DOMAIN old /\ old[s] = BootCaps(layout)[s]
    BY <2>1 DEF InPlace, CapsKept, StillOld, Moved
  <2>6. \A s \in layout.listed : s \in DOMAIN old' /\ old'[s] = old[s]
    BY <2>4, <2>5, RetypeEffect
  <2> QED
    BY <1>00, <2>5, <2>6 DEF CapsKept, StillOld
<1>8. Transferred'
  BY <1>00 DEF InPlace, Transferred, Arrived, Moved, Fail, Early, _retype_cnode
<1> QED
  BY <1>1, <1>2, <1>3, <1>4, <1>5, <1>6, <1>7, <1>8 DEF InPlace

(* In a new first level there is nothing but the capability to itself.      *)
LEMMA Keeps_Install ==
  ASSUME InPlace, Install, phase' # "failed"
  PROVE  InPlace'
<1>0. inputs' = inputs
  BY DEF Install
<1>00. /\ UsesCurrent' = UsesCurrent /\ OneLevel' = OneLevel /\ FromSimple' = FromSimple
      /\ call' = call /\ layout' = layout
  BY <1>0, SameInputs
<1>1. Course'
  BY <1>00 DEF InPlace, Course, Fail, Early, CurrentPhases, NewPhases, Install
<1>2. BootTypes'
  <2>1. bootNext' \in Nat /\ toSlot' \in Nat
    BY DEF InPlace, BootTypes, Install
  <2>2. DOMAIN new' \subseteq Nat /\ free' \subseteq Nat
    <3>1. PICK v : v = CnodeCap("new", L1Bits)
      OBVIOUS
    <3>2. new' = Put(<<>>, TwoLevelCnodeSlot, v) \/ new' = new
      BY <3>1 DEF Install, Fail
    <3>3. DOMAIN new' = DOMAIN <<>> \cup {TwoLevelCnodeSlot} \/ new' = new
      BY <3>2, PutFacts
    <3> QED
      BY <3>3 DEF InPlace, BootTypes, Install, TwoLevelCnodeSlot
  <2>3. uts' \in Seq(UtNodes)
    BY DEF InPlace, BootTypes, Install
  <2>4. phase' = "split" => best' \in UtNodes
    BY <1>00 DEF InPlace, BootTypes, Fail, Install
  <2> QED
    BY <2>1, <2>2, <2>3, <2>4 DEF BootTypes
<1>3. Spaces'
  <2>1. PICK v : v = CnodeCap("new", L1Bits)
    OBVIOUS
  <2>2. new' = Put(<<>>, TwoLevelCnodeSlot, v) \/ new' = new
    BY <2>1 DEF Install, Fail
  <2>3. DOMAIN new' = {TwoLevelCnodeSlot} \/ new' = new
    BY <2>2, PutFirst
  <2>4. phase = "install" /\ phase' \in {"switch", "pick"} /\ UNCHANGED <<space, free>>
    BY DEF Install, Fail
  <2>5. DOMAIN new' \subseteq {TwoLevelCnodeSlot}
    BY <2>3, <2>4 DEF InPlace, Spaces, Early
  <2> QED
    BY <1>00, <2>4, <2>5 DEF InPlace, Spaces, Early
<1>4. BootSlots'
  BY <1>0, <1>00, SameInputs
     DEF InPlace, BootSlots, BootHas, Fail, Early, Course, CurrentPhases, NewPhases, Install
<1>5. FreeSlots'
  BY <1>00 DEF InPlace, FreeSlots, Here, Fail, Early, Install
<1>6. UtsApart'
  BY <1>00 DEF InPlace, UtsApart, Fail, Early, Install
<1>7. CapsKept'
  BY <1>0, <1>00, SameInputs
     DEF InPlace, CapsKept, StillOld, Moved, Fail, Early, Course, CurrentPhases, NewPhases,
         BootTypes, Spaces, BootSlots, FreeSlots, UtsApart, Transferred, Install
<1>8. Transferred'
  BY <1>00 DEF InPlace, Transferred, Arrived, Moved, Fail, Early, Install
<1> QED
  BY <1>1, <1>2, <1>3, <1>4, <1>5, <1>6, <1>7, <1>8 DEF InPlace

(* The allocator's slots begin behind the listed ones, and end before that  *)
(* of the old CNode.                                                        *)
LEMMA Keeps_bootstrap_new_1level_cspace ==
  ASSUME InPlace, bootstrap_new_1level_cspace, phase' # "failed"
  PROVE  InPlace'
<1>0. inputs' = inputs
  BY DEF bootstrap_new_1level_cspace, Switch, OldCnodeSlot, SEL4UTILS_CNODE_SLOT, FreeInNew
<1>00. /\ UsesCurrent' = UsesCurrent /\ OneLevel' = OneLevel /\ FromSimple' = FromSimple
      /\ call' = call /\ layout' = layout
  BY <1>0, SameInputs
<1>1. Course'
  BY <1>00
     DEF InPlace, Course, Fail, Early, CurrentPhases, NewPhases, bootstrap_new_1level_cspace,
         Switch, OldCnodeSlot, SEL4UTILS_CNODE_SLOT, FreeInNew
<1>2. BootTypes'
  <2>1. bootNext' \in Nat /\ toSlot' \in Nat
    BY DEF InPlace, BootTypes, bootstrap_new_1level_cspace
  <2>2. DOMAIN new' \subseteq Nat /\ free' \subseteq Nat
    <3>1. PICK v, w : v = CnodeCap("new", NewBits) /\ w = CnodeCap("old", layout.bits)
      OBVIOUS
    <3>2. new' = Put(Put(<<>>, SEL4UTILS_CNODE_SLOT, v), OldCnodeSlot, w) /\ OneLevel /\ free' = FreeInNew
          /\ OldCnodeSlot > SEL4UTILS_CNODE_SLOT
      BY <3>1, SizesNat
         DEF bootstrap_new_1level_cspace, Switch, Fail, OldCnodeSlot, SEL4UTILS_CNODE_SLOT
    <3>5. PICK k, o : k = SEL4UTILS_CNODE_SLOT /\ o = OldCnodeSlot
      OBVIOUS
    <3>6. PICK f : f = Put(<<>>, k, v)
      OBVIOUS
    <3>7. DOMAIN f = {k} /\ DOMAIN Put(f, o, w) = DOMAIN f \cup {o}
      BY <3>6, PutFirst, PutFacts
    <3>8. new' = Put(f, o, w)
      BY <3>2, <3>5, <3>6
    <3>3. DOMAIN new' = {OldCnodeSlot, SEL4UTILS_CNODE_SLOT}
      BY <3>5, <3>7, <3>8
    <3>4. OldCnodeSlot \in Nat
      BY <3>2, SizesNat DEF OldCnodeSlot, SEL4UTILS_CNODE_SLOT
    <3> QED
      BY <3>2, <3>3, <3>4, FreeInNewFacts DEF InPlace, Course, BootTypes, SEL4UTILS_CNODE_SLOT
  <2>3. uts' \in Seq(UtNodes)
    BY DEF InPlace, BootTypes, bootstrap_new_1level_cspace
  <2>4. phase' = "split" => best' \in UtNodes
    BY <1>00
       DEF InPlace, BootTypes, Fail, bootstrap_new_1level_cspace, Switch, OldCnodeSlot,
           SEL4UTILS_CNODE_SLOT, FreeInNew
  <2> QED
    BY <2>1, <2>2, <2>3, <2>4 DEF BootTypes
<1>3. Spaces'
  BY <1>00
     DEF InPlace, Spaces, Fail, Early, Course, CurrentPhases, NewPhases,
         bootstrap_new_1level_cspace, Switch, OldCnodeSlot, SEL4UTILS_CNODE_SLOT, FreeInNew
<1>4. BootSlots'
  BY <1>0, <1>00, SameInputs
     DEF InPlace, BootSlots, BootHas, Fail, Early, Course, CurrentPhases, NewPhases,
         bootstrap_new_1level_cspace, Switch, OldCnodeSlot, SEL4UTILS_CNODE_SLOT, FreeInNew
<1>5. FreeSlots'
  <2>1. PICK v, w, k, o : v = CnodeCap("new", NewBits) /\ w = CnodeCap("old", layout.bits)
                        /\ k = SEL4UTILS_CNODE_SLOT /\ o = OldCnodeSlot
    OBVIOUS
  <2>2. PICK f : f = Put(<<>>, k, v)
    OBVIOUS
  <2>3. new' = Put(f, o, w) /\ OneLevel /\ free' = FreeInNew /\ space' = "new"
    BY <2>1, <2>2, SizesNat
       DEF bootstrap_new_1level_cspace, Switch, Fail, OldCnodeSlot, SEL4UTILS_CNODE_SLOT
  <2>4. DOMAIN f = {k} /\ DOMAIN Put(f, o, w) = DOMAIN f \cup {o}
    BY <2>2, PutFirst, PutFacts
  <2>5. DOMAIN new' = {o, k}
    BY <2>3, <2>4
  <2>6. layout \in Layouts /\ toSlot \in Nat /\ call \in Calls
    BY DEF InPlace, Course, BootTypes
  <2>7. PICK last, top : last = simple_last_valid_cap /\ top = Bit(NewBits)
    OBVIOUS
  <2>8. last \in Nat /\ last >= 1 /\ top \in Int
    BY <2>6, <2>7, LastFacts, SizesNat
  <2>9. k = 1 /\ o = top - 1
    BY <2>1, <2>3, <2>7 DEF OldCnodeSlot, SEL4UTILS_CNODE_SLOT
  <2>10. \A x \in free' : x \in Nat /\ x < top - 1 /\ (FromSimple => x > last)
    BY <2>3, <2>6, <2>7, FreeInNewFacts
  <2>11. FromSimple => free' \cap DOMAIN new' = {}
    BY <2>5, <2>8, <2>9, <2>10
  <2>12. call # "new_1level_bootinfo" => FromSimple
    BY <2>3, <2>6 DEF FromSimple, OneLevel, Calls
  <2>13. simple_last_valid_cap' = last
    BY <1>0, <2>7, SameInputs
  <2> QED
    BY <1>00, <2>3, <2>10, <2>11, <2>12, <2>13 DEF FreeSlots, Here
<1>6. UtsApart'
  BY <1>00
     DEF InPlace, UtsApart, Fail, Early, bootstrap_new_1level_cspace, Switch, OldCnodeSlot,
         SEL4UTILS_CNODE_SLOT, FreeInNew
<1>7. CapsKept'
  BY <1>0, <1>00, SameInputs
     DEF InPlace, CapsKept, StillOld, Moved, Fail, Early, Course, CurrentPhases, NewPhases,
         BootTypes, Spaces, BootSlots, FreeSlots, UtsApart, Transferred,
         bootstrap_new_1level_cspace, Switch, OldCnodeSlot, SEL4UTILS_CNODE_SLOT, FreeInNew
<1>8. Transferred'
  BY <1>00
     DEF InPlace, Transferred, Arrived, Moved, Fail, Early, bootstrap_new_1level_cspace, Switch,
         OldCnodeSlot, SEL4UTILS_CNODE_SLOT, FreeInNew
<1> QED
  BY <1>1, <1>2, <1>3, <1>4, <1>5, <1>6, <1>7, <1>8 DEF InPlace

(* With two levels they begin behind the old CNode, which is behind the     *)
(* listed ones.                                                             *)
LEMMA Keeps_bootstrap_new_2level_cspace ==
  ASSUME InPlace, bootstrap_new_2level_cspace, phase' # "failed"
  PROVE  InPlace'
<1>0. inputs' = inputs
  BY DEF bootstrap_new_2level_cspace, Switch, OldCnodeSlot, FreeInNew
<1>00. /\ UsesCurrent' = UsesCurrent /\ OneLevel' = OneLevel /\ FromSimple' = FromSimple
      /\ call' = call /\ layout' = layout
  BY <1>0, SameInputs
<1>1. Course'
  BY <1>00
     DEF InPlace, Course, Fail, Early, CurrentPhases, NewPhases, bootstrap_new_2level_cspace,
         Switch, OldCnodeSlot, FreeInNew
<1>2. BootTypes'
  <2>1. bootNext' \in Nat /\ toSlot' \in Nat
    BY DEF InPlace, BootTypes, bootstrap_new_2level_cspace
  <2>2. DOMAIN new' \subseteq Nat /\ free' \subseteq Nat
    <3>1. PICK w : w = CnodeCap("old", layout.bits)
      OBVIOUS
    <3>2. new' = Put(new, toSlot, w) /\ free' = FreeInNew
      BY <3>1 DEF bootstrap_new_2level_cspace, Switch, OldCnodeSlot
    <3>3. DOMAIN new' = DOMAIN new \cup {toSlot}
      BY <3>2, PutFacts
    <3> QED
      BY <3>2, <3>3, FreeInNewFacts DEF InPlace, Course, BootTypes
  <2>3. uts' \in Seq(UtNodes)
    BY DEF InPlace, BootTypes, bootstrap_new_2level_cspace
  <2>4. phase' = "split" => best' \in UtNodes
    BY <1>00
       DEF InPlace, BootTypes, Fail, bootstrap_new_2level_cspace, Switch, OldCnodeSlot, FreeInNew
  <2> QED
    BY <2>1, <2>2, <2>3, <2>4 DEF BootTypes
<1>3. Spaces'
  BY <1>00
     DEF InPlace, Spaces, Fail, Early, Course, CurrentPhases, NewPhases,
         bootstrap_new_2level_cspace, Switch, OldCnodeSlot, FreeInNew
<1>4. BootSlots'
  BY <1>0, <1>00, SameInputs
     DEF InPlace, BootSlots, BootHas, Fail, Early, Course, CurrentPhases, NewPhases,
         bootstrap_new_2level_cspace, Switch, OldCnodeSlot, FreeInNew
<1>5. FreeSlots'
  <2>1. PICK w, o : w = CnodeCap("old", layout.bits) /\ o = toSlot
    OBVIOUS
  <2>2. new' = Put(new, o, w) /\ ~OneLevel /\ free' = FreeInNew /\ space' = "new" /\ phase = "switch"
    BY <2>1 DEF bootstrap_new_2level_cspace, Switch, OldCnodeSlot
  <2>3. DOMAIN new' = DOMAIN new \cup {o}
    BY <2>2, PutFacts
  <2>4. DOMAIN new' \subseteq {2, o}
    BY <2>2, <2>3 DEF InPlace, Spaces, Early, TwoLevelCnodeSlot
  <2>5. layout \in Layouts /\ toSlot \in Nat /\ ~UsesCurrent
    BY <2>2 DEF InPlace, Course, BootTypes, CurrentPhases
  <2>6. \A x \in free' : x \in Nat /\ x > o /\ x > 2
    BY <2>1, <2>2, <2>5, FreeInNewFacts
  <2>7. free' \cap DOMAIN new' = {}
    BY <2>1, <2>4, <2>5, <2>6
  <2>8. PICK last : last = simple_last_valid_cap
    OBVIOUS
  <2>9. last \in Nat /\ (FromSimple => toSlot >= last + 1)
    BY <2>2, <2>5, <2>8, LastFacts, FirstFacts DEF InPlace, BootSlots
  <2>10. FromSimple => \A x \in free' : x > last
    BY <2>1, <2>5, <2>6, <2>9
  <2>11. simple_last_valid_cap' = last
    BY <1>0, <2>8, SameInputs
  <2> QED
    BY <1>00, <2>2, <2>7, <2>10, <2>11 DEF FreeSlots, Here
<1>6. UtsApart'
  BY <1>00
     DEF InPlace, UtsApart, Fail, Early, bootstrap_new_2level_cspace, Switch, OldCnodeSlot,
         FreeInNew
<1>7. CapsKept'
  BY <1>0, <1>00, SameInputs
     DEF InPlace, CapsKept, StillOld, Moved, Fail, Early, Course, CurrentPhases, NewPhases,
         BootTypes, Spaces, BootSlots, FreeSlots, UtsApart, Transferred,
         bootstrap_new_2level_cspace, Switch, OldCnodeSlot, FreeInNew
<1>8. Transferred'
  BY <1>00
     DEF InPlace, Transferred, Arrived, Moved, bootstrap_new_2level_cspace, Switch, OldCnodeSlot,
         FreeInNew
<1> QED
  BY <1>1, <1>2, <1>3, <1>4, <1>5, <1>6, <1>7, <1>8 DEF InPlace

(* The paths change, and the slots do not.                                  *)
LEMMA Keeps_bootstrap_update_untypeds ==
  ASSUME InPlace, bootstrap_update_untypeds, phase' # "failed"
  PROVE  InPlace'
<1>0. inputs' = inputs
  BY DEF bootstrap_update_untypeds, UpdatedUts
<1>00. /\ UsesCurrent' = UsesCurrent /\ OneLevel' = OneLevel /\ FromSimple' = FromSimple
      /\ call' = call /\ layout' = layout
  BY <1>0, SameInputs
<1>1. Course'
  BY <1>00
     DEF InPlace, Course, Fail, Early, CurrentPhases, NewPhases, bootstrap_update_untypeds,
         UpdatedUts
<1>2. BootTypes'
  <2>1. bootNext' \in Nat /\ toSlot' \in Nat
    BY DEF InPlace, BootTypes, bootstrap_update_untypeds
  <2>2. DOMAIN new' \subseteq Nat /\ free' \subseteq Nat
    BY DEF InPlace, BootTypes, bootstrap_update_untypeds
  <2>3. uts' \in Seq(UtNodes)
    <3>1. layout \in Layouts /\ uts \in Seq(UtNodes) /\ toSlot \in Nat
      BY DEF InPlace, Course, BootTypes
    <3>2. OldCnodeSlot \in Int
      BY <3>1, SizesNat DEF OldCnodeSlot
    <3>3. \A u \in UtNodes : [u EXCEPT !.root = OldCnodeSlot] \in UtNodes
      BY <3>2 DEF UtNodes
    <3>4. UpdatedUts \in Seq(UtNodes)
      BY <3>1, <3>3 DEF UpdatedUts
    <3> QED
      BY <3>4 DEF bootstrap_update_untypeds
  <2>4. phase' = "split" => best' \in UtNodes
    BY DEF InPlace, BootTypes, bootstrap_update_untypeds
  <2> QED
    BY <2>1, <2>2, <2>3, <2>4 DEF BootTypes
<1>3. Spaces'
  BY <1>00 DEF InPlace, Spaces, Fail, Early, bootstrap_update_untypeds, UpdatedUts
<1>4. BootSlots'
  BY <1>0, <1>00, SameInputs
     DEF InPlace, BootSlots, BootHas, Fail, Early, Course, CurrentPhases, NewPhases,
         bootstrap_update_untypeds, UpdatedUts
<1>5. FreeSlots'
  BY <1>0, <1>00, SameInputs
     DEF InPlace, FreeSlots, Here, Fail, Early, Course, CurrentPhases, NewPhases,
         bootstrap_update_untypeds, UpdatedUts
<1>6. UtsApart'
  BY <1>00 DEF InPlace, UtsApart, bootstrap_update_untypeds, UpdatedUts
<1>7. CapsKept'
  BY <1>00 DEF InPlace, CapsKept, StillOld, Moved, bootstrap_update_untypeds, UpdatedUts
<1>8. Transferred'
  BY <1>00 DEF InPlace, Transferred, Arrived, Moved, bootstrap_update_untypeds, UpdatedUts
<1> QED
  BY <1>1, <1>2, <1>3, <1>4, <1>5, <1>6, <1>7, <1>8 DEF InPlace

(* An untyped goes into a slot that is then no longer free, and leaves none *)
(* that is listed.                                                          *)
LEMMA Keeps_bootstrap_move_untypeds ==
  ASSUME InPlace, bootstrap_move_untypeds, phase' # "failed"
  PROVE  InPlace'
<1>0. inputs' = inputs
  BY DEF bootstrap_move_untypeds, TakeSlot, UsableSlots
<1>00. /\ UsesCurrent' = UsesCurrent /\ OneLevel' = OneLevel /\ FromSimple' = FromSimple
      /\ call' = call /\ layout' = layout
  BY <1>0, SameInputs
<1>1. Course'
  <2>1. uts \in Seq(UtNodes) /\ loop \in 1 .. Len(uts) /\ free \subseteq Nat /\ phase = "move" /\ ~UsesCurrent
        /\ Len(uts) \in Nat /\ layout \in Layouts
    BY DEF InPlace, Course, BootTypes, bootstrap_move_untypeds, CurrentPhases
  <2>2. phase' = (IF loop = Len(uts) THEN "utspace" ELSE "move") /\ loop' = (IF loop = Len(uts) THEN 1 ELSE loop + 1)
    BY DEF bootstrap_move_untypeds, Fail
  <2>3. Len(uts') = Len(uts)
    BY <2>1, MoveEffect
  <2>4. loop' \in Nat /\ loop' >= 1 /\ (phase' = "move" => loop' <= Len(uts'))
    BY <2>1, <2>2, <2>3
  <2> QED
    BY <1>00, <2>1, <2>2, <2>4 DEF InPlace, Course, NewPhases
<1>2. BootTypes'
  <2>1. bootNext' \in Nat /\ toSlot' \in Nat
    BY DEF InPlace, BootTypes, bootstrap_move_untypeds
  <2>2. DOMAIN new' \subseteq Nat /\ free' \subseteq Nat
    <3>1. free \subseteq Nat /\ DOMAIN new \subseteq Nat /\ layout \in Layouts
      BY DEF InPlace, BootTypes, Course
    <3>2. UsableSlots(free) # {} /\ free' = TakeSlot(free)
          /\ new' = Put(new, NextFree(free), CapAt(uts[loop].root, uts[loop].slot))
      BY DEF bootstrap_move_untypeds, Fail
    <3>3. NextFree(free) \in free /\ free' \subseteq free
      BY <3>1, <3>2, SlotTaken
    <3>4. DOMAIN new' = DOMAIN new \cup {NextFree(free)}
      BY <3>2, PutFacts
    <3> QED
      BY <3>1, <3>3, <3>4
  <2>3. uts' \in Seq(UtNodes)
    <3>1. free \subseteq Nat /\ uts \in Seq(UtNodes) /\ loop \in Nat /\ layout \in Layouts
      BY DEF InPlace, BootTypes, Course
    <3>2. PICK s : s = NextFree(free)
      OBVIOUS
    <3>3. UsableSlots(free) # {} /\ uts' = [uts EXCEPT ![loop].root = NewCnodeSlot, ![loop].slot = s]
      BY <3>2 DEF bootstrap_move_untypeds, Fail
    <3>4. s \in Nat /\ NewCnodeSlot \in Nat
      BY <3>1, <3>2, <3>3, SlotTaken DEF NewCnodeSlot, SEL4UTILS_CNODE_SLOT, TwoLevelCnodeSlot
    <3>5. \A k \in 1 .. Len(uts) : uts[k] \in UtNodes /\ [uts[k] EXCEPT !.root = NewCnodeSlot, !.slot = s] \in UtNodes
      <4> SUFFICES ASSUME NEW k \in 1 .. Len(uts)
                   PROVE  uts[k] \in UtNodes /\ [uts[k] EXCEPT !.root = NewCnodeSlot, !.slot = s] \in UtNodes
        OBVIOUS
      <4>1. uts[k] \in UtNodes
        BY <3>1
      <4>2. NewCnodeSlot \in Int
        BY <3>4
      <4> QED
        BY <3>4, <4>1, <4>2, UtMoved
    <3>6. PICK v : v = [uts[loop] EXCEPT !.root = NewCnodeSlot, !.slot = s]
      OBVIOUS
    <3>7. uts' = [uts EXCEPT ![loop] = v]
      BY <3>3, <3>6
    <3>8. loop \in 1 .. Len(uts)
      BY <3>1 DEF InPlace, Course, bootstrap_move_untypeds
    <3>9. v \in UtNodes
      BY <3>5, <3>6, <3>8
    <3>10. PICK l, q : l = loop /\ q = uts
      OBVIOUS
    <3>11. [q EXCEPT ![l] = v] \in Seq(UtNodes)
      BY <3>1, <3>8, <3>9, <3>10, ExceptSeq
    <3> QED
      BY <3>7, <3>10, <3>11
  <2>4. phase' = "split" => best' \in UtNodes
    BY <1>00 DEF InPlace, BootTypes, Fail, bootstrap_move_untypeds, TakeSlot, UsableSlots
  <2> QED
    BY <2>1, <2>2, <2>3, <2>4 DEF BootTypes
<1>3. Spaces'
  BY <1>00 DEF InPlace, Spaces, Fail, Early, bootstrap_move_untypeds, TakeSlot, UsableSlots
<1>4. BootSlots'
  BY <1>0, <1>00, SameInputs
     DEF InPlace, BootSlots, BootHas, Fail, Early, Course, CurrentPhases, NewPhases,
         bootstrap_move_untypeds, TakeSlot, UsableSlots
<1>5. FreeSlots'
  <2>1. uts \in Seq(UtNodes) /\ loop \in 1 .. Len(uts) /\ free \subseteq Nat /\ phase = "move" /\ ~UsesCurrent
        /\ Len(uts) \in Nat /\ layout \in Layouts
    BY DEF InPlace, Course, BootTypes, bootstrap_move_untypeds, CurrentPhases
  <2>2. PICK s : s = NextFree(free)
    OBVIOUS
  <2>3. free' = free \ {s} /\ DOMAIN new' = DOMAIN new \cup {s} /\ space' = space
    BY <2>1, <2>2, MoveEffect, SlotTaken DEF bootstrap_move_untypeds
  <2>4. space = "new" /\ phase \notin Early
    BY <2>1 DEF InPlace, Spaces, Early
  <2> QED
    BY <1>0, <1>00, <2>3, <2>4, SameInputs DEF InPlace, FreeSlots, Here
<1>6. UtsApart'
  <2>1. uts \in Seq(UtNodes) /\ loop \in 1 .. Len(uts) /\ free \subseteq Nat /\ phase = "move" /\ ~UsesCurrent
        /\ Len(uts) \in Nat /\ layout \in Layouts
    BY DEF InPlace, Course, BootTypes, bootstrap_move_untypeds, CurrentPhases
  <2>2. Len(uts') = Len(uts) /\ \A k \in 1 .. Len(uts) : k # loop => uts'[k] = uts[k]
    BY <2>1, MoveEffect
  <2>3. phase' = (IF loop = Len(uts) THEN "utspace" ELSE "move") /\ loop' = (IF loop = Len(uts) THEN 1 ELSE loop + 1)
    BY DEF bootstrap_move_untypeds, Fail
  <2>4. \A k \in 1 .. Len(uts) : k >= loop => uts[k].slot \notin layout.listed
    BY <2>1 DEF InPlace, UtsApart, Early
  <2>5. CASE loop = Len(uts)
    BY <1>00, <2>3, <2>5 DEF UtsApart, Early
  <2>6. CASE loop # Len(uts)
    <3>1. \A k \in 1 .. Len(uts) : k >= loop + 1 => k # loop /\ k >= loop
      BY <2>1
    <3>2. \A k \in 1 .. Len(uts) : k >= loop + 1 => uts'[k].slot \notin layout.listed
      BY <2>2, <2>4, <3>1
    <3> QED
      BY <1>00, <2>2, <2>3, <2>6, <3>2 DEF UtsApart
  <2> QED
    BY <2>5, <2>6
<1>7. CapsKept'
  <2>1. uts \in Seq(UtNodes) /\ loop \in 1 .. Len(uts) /\ free \subseteq Nat /\ phase = "move" /\ ~UsesCurrent
        /\ Len(uts) \in Nat /\ layout \in Layouts
    BY DEF InPlace, Course, BootTypes, bootstrap_move_untypeds, CurrentPhases
  <2>2. uts[loop].slot \notin layout.listed
    BY <2>1 DEF InPlace, UtsApart, Early
  <2>3. /\ DOMAIN new \subseteq DOMAIN new' /\ \A t \in DOMAIN new : new'[t] = new[t]
        /\ DOMAIN old' = DOMAIN old \ {uts[loop].slot} /\ \A t \in DOMAIN old' : old'[t] = old[t]
    BY <2>1, MoveEffect
  <2>4. space' = space
    BY DEF bootstrap_move_untypeds
  <2> SUFFICES ASSUME NEW s \in layout.listed
               PROVE  (StillOld(s) \/ Moved(s))'
    BY <1>00 DEF CapsKept
  <2>5. CASE StillOld(s)
    BY <1>00, <2>2, <2>3, <2>5 DEF StillOld
  <2>6. CASE Moved(s)
    BY <1>00, <2>3, <2>4, <2>6 DEF Moved
  <2> QED
    BY <2>5, <2>6 DEF InPlace, CapsKept
<1>8. Transferred'
  BY <1>00
     DEF InPlace, Transferred, Arrived, Moved, Fail, Early, bootstrap_move_untypeds, TakeSlot,
         UsableSlots
<1> QED
  BY <1>1, <1>2, <1>3, <1>4, <1>5, <1>6, <1>7, <1>8 DEF InPlace

(* The manager is told of the untypeds, and no capability is touched.       *)
LEMMA Keeps_bootstrap_create_utspace ==
  ASSUME InPlace, bootstrap_create_utspace, phase' # "failed"
  PROVE  InPlace'
<1>0. inputs' = inputs
  BY DEF bootstrap_create_utspace
<1>00. /\ UsesCurrent' = UsesCurrent /\ OneLevel' = OneLevel /\ FromSimple' = FromSimple
      /\ call' = call /\ layout' = layout
  BY <1>0, SameInputs
<1>1. Course'
  <2>1. phase = "utspace" /\ phase' \in {"utspace", "reserve"} /\ loop' \in {loop, 1, loop + 1}
        /\ (phase' = "reserve" => loop' = 1) /\ UNCHANGED uts
    BY DEF bootstrap_create_utspace, Fail
  <2>2. call \in Calls /\ layout \in Layouts /\ loop \in Nat
    BY DEF InPlace, Course
  <2>3. loop' \in Nat
    BY <2>1, <2>2
  <2>4. phase' = "reserve" => loop' >= 1
    BY <2>1, <2>3
  <2>5. phase' \in CurrentPhases /\ phase' \in NewPhases
    BY <2>1 DEF CurrentPhases, NewPhases
  <2> QED
    BY <1>00, <2>1, <2>2, <2>3, <2>4, <2>5 DEF Course
<1>2. BootTypes'
  <2>1. bootNext' \in Nat /\ toSlot' \in Nat
    BY DEF InPlace, BootTypes, bootstrap_create_utspace
  <2>2. DOMAIN new' \subseteq Nat /\ free' \subseteq Nat
    BY DEF InPlace, BootTypes, bootstrap_create_utspace
  <2>3. uts' \in Seq(UtNodes)
    BY DEF InPlace, BootTypes, bootstrap_create_utspace
  <2>4. phase' = "split" => best' \in UtNodes
    BY <1>00 DEF InPlace, BootTypes, Fail, bootstrap_create_utspace
  <2> QED
    BY <2>1, <2>2, <2>3, <2>4 DEF BootTypes
<1>3. Spaces'
  BY <1>00 DEF InPlace, Spaces, Fail, Early, bootstrap_create_utspace
<1>4. BootSlots'
  BY <1>0, <1>00, SameInputs
     DEF InPlace, BootSlots, BootHas, Fail, Early, Course, CurrentPhases, NewPhases,
         bootstrap_create_utspace
<1>5. FreeSlots'
  BY <1>0, <1>00, SameInputs
     DEF InPlace, FreeSlots, Here, Fail, Early, Course, CurrentPhases, NewPhases,
         bootstrap_create_utspace
<1>6. UtsApart'
  BY <1>00 DEF InPlace, UtsApart, Fail, Early, bootstrap_create_utspace
<1>7. CapsKept'
  BY <1>00 DEF InPlace, CapsKept, StillOld, Moved, bootstrap_create_utspace
<1>8. Transferred'
  BY <1>00 DEF InPlace, Transferred, Arrived, Moved, Fail, Early, bootstrap_create_utspace
<1> QED
  BY <1>1, <1>2, <1>3, <1>4, <1>5, <1>6, <1>7, <1>8 DEF InPlace

(* Reserved slots are empty, and only taken off the free ones.              *)
LEMMA Keeps_Reserve ==
  ASSUME InPlace, Reserve, phase' # "failed"
  PROVE  InPlace'
<1>0. inputs' = inputs
  BY DEF Reserve, TakeSlot
<1>00. /\ UsesCurrent' = UsesCurrent /\ OneLevel' = OneLevel /\ FromSimple' = FromSimple
      /\ call' = call /\ layout' = layout
  BY <1>0, SameInputs
<1>1. Course'
  <2>1. phase = "reserve" /\ layout \in Layouts /\ call \in Calls /\ loop \in Nat /\ loop >= 1
    BY DEF InPlace, Course, Reserve
  <2>2. \/ phase' = "reserve" /\ loop' = loop + 1
        \/ /\ phase' = IF UsesCurrent THEN (IF FromSimple THEN "prepare" ELSE "adding")
                       ELSE IF FromSimple THEN "transfer" ELSE "finish"
           /\ loop' = 1
    BY DEF Reserve, Fail
  <2>3. PICK c : c = simple_get_cap_count
    OBVIOUS
  <2>4. c \in Nat \ {0} /\ simple_get_cap_count' = c
    BY <1>0, <2>1, <2>3, BeforeFacts, SameInputs
  <2>5. loop' \in Nat /\ loop' >= 1 /\ (phase' = "transfer" => loop' <= c)
    BY <2>1, <2>2, <2>4
  <2> QED
    BY <1>00, <2>1, <2>2, <2>4, <2>5 DEF Course, CurrentPhases, NewPhases
<1>2. BootTypes'
  <2>1. bootNext' \in Nat /\ toSlot' \in Nat
    BY DEF InPlace, BootTypes, Reserve
  <2>2. DOMAIN new' \subseteq Nat /\ free' \subseteq Nat
    BY <1>00 DEF InPlace, BootTypes, Fail, Reserve, TakeSlot
  <2>3. uts' \in Seq(UtNodes)
    BY DEF InPlace, BootTypes, Reserve
  <2>4. phase' = "split" => best' \in UtNodes
    BY <1>00 DEF InPlace, BootTypes, Fail, Reserve, TakeSlot
  <2> QED
    BY <2>1, <2>2, <2>3, <2>4 DEF BootTypes
<1>3. Spaces'
  BY <1>00 DEF InPlace, Spaces, Fail, Early, Reserve, TakeSlot
<1>4. BootSlots'
  BY <1>0, <1>00, SameInputs
     DEF InPlace, BootSlots, BootHas, Fail, Early, Course, CurrentPhases, NewPhases, Reserve,
         TakeSlot
<1>5. FreeSlots'
  <2>1. free' \subseteq free
    BY SlotTaken DEF InPlace, BootTypes, Course, Reserve, Fail
  <2>2. phase \notin Early /\ UNCHANGED <<old, new, space>>
    BY DEF Reserve, Early
  <2>3. Here' = Here
    BY <2>2 DEF Here
  <2> QED
    BY <1>0, <1>00, <2>1, <2>2, <2>3, SameInputs DEF InPlace, FreeSlots
<1>6. UtsApart'
  BY <1>00 DEF InPlace, UtsApart, Reserve, TakeSlot
<1>7. CapsKept'
  BY <1>00 DEF InPlace, CapsKept, StillOld, Moved, Reserve, TakeSlot
<1>8. Transferred'
  <2>1. phase' # "done" /\ (phase' = "transfer" => loop' = 1)
    BY DEF Reserve, Fail
  <2> QED
    BY <2>1 DEF Transferred
<1> QED
  BY <1>1, <1>2, <1>3, <1>4, <1>5, <1>6, <1>7, <1>8 DEF InPlace

(* A listed capability goes to the same place, which is no free slot.       *)
LEMMA Keeps_bootstrap_transfer_caps_simple ==
  ASSUME InPlace, bootstrap_transfer_caps_simple, phase' # "failed"
  PROVE  InPlace'
<1>0. inputs' = inputs
  BY DEF bootstrap_transfer_caps_simple
<1>00. /\ UsesCurrent' = UsesCurrent /\ OneLevel' = OneLevel /\ FromSimple' = FromSimple
      /\ call' = call /\ layout' = layout
  BY <1>0, SameInputs
<1>1. Course'
  <2>1. phase = "transfer" /\ FromSimple /\ ~UsesCurrent /\ layout \in Layouts /\ call \in Calls /\ loop \in Nat
        /\ loop >= 1 /\ space = "new" /\ loop \in 1 .. simple_get_cap_count
    BY BeforeFacts DEF InPlace, Course, Spaces, Early, CurrentPhases, bootstrap_transfer_caps_simple
  <2>2. PICK s : s = simple_get_nth_cap(loop)
    OBVIOUS
  <2>3. phase' \in {"done", "transfer"} /\ loop' = loop + 1
    BY TransferEffect
  <2>5. PICK c : c = simple_get_cap_count
    OBVIOUS
  <2>6. c \in Nat /\ (phase' = "transfer" => loop # c) /\ simple_get_cap_count' = c
    BY <1>0, <2>1, <2>5, BeforeFacts, SameInputs, TransferEffect
  <2>4. loop' \in Nat /\ loop' >= 1 /\ (phase' = "transfer" => loop' <= c)
    BY <2>1, <2>3, <2>5, <2>6
  <2> QED
    BY <1>00, <2>1, <2>3, <2>4, <2>6 DEF Course, NewPhases
<1>2. BootTypes'
  <2>1. bootNext' \in Nat /\ toSlot' \in Nat
    BY DEF InPlace, BootTypes, bootstrap_transfer_caps_simple
  <2>2. DOMAIN new' \subseteq Nat /\ free' \subseteq Nat
    BY DEF InPlace, BootTypes, bootstrap_transfer_caps_simple
  <2>3. uts' \in Seq(UtNodes)
    BY DEF InPlace, BootTypes, bootstrap_transfer_caps_simple
  <2>4. phase' = "split" => best' \in UtNodes
    BY <1>00 DEF InPlace, BootTypes, Fail, bootstrap_transfer_caps_simple
  <2> QED
    BY <2>1, <2>2, <2>3, <2>4 DEF BootTypes
<1>3. Spaces'
  BY <1>00 DEF InPlace, Spaces, Fail, Early, bootstrap_transfer_caps_simple
<1>4. BootSlots'
  BY <1>0, <1>00, SameInputs
     DEF InPlace, BootSlots, BootHas, Fail, Early, Course, CurrentPhases, NewPhases,
         bootstrap_transfer_caps_simple
<1>5. FreeSlots'
  <2>1. phase = "transfer" /\ FromSimple /\ ~UsesCurrent /\ layout \in Layouts /\ call \in Calls /\ loop \in Nat
        /\ loop >= 1 /\ space = "new" /\ loop \in 1 .. simple_get_cap_count
    BY BeforeFacts DEF InPlace, Course, Spaces, Early, CurrentPhases, bootstrap_transfer_caps_simple
  <2>2. PICK s : s = simple_get_nth_cap(loop)
    OBVIOUS
  <2>3. call # "new_1level_bootinfo" /\ phase \notin Early
    BY <2>1 DEF FromSimple, Early
  <2>4. free \cap DOMAIN new = {} /\ \A x \in free : x \in Nat /\ x > simple_last_valid_cap
    BY <2>1, <2>3 DEF InPlace, BootTypes, FreeSlots, Here
  <2>5. UNCHANGED <<free, space>>
    BY DEF bootstrap_transfer_caps_simple
  <2>6. PICK last : last = simple_last_valid_cap
    OBVIOUS
  <2>7. last \in Nat
    BY <2>1, <2>6, LastFacts
  <2>8. simple_last_valid_cap' = last
    BY <1>0, <2>6, SameInputs
  <2>9. free \cap DOMAIN new' = {}
    <3>1. CASE StaysBehind(s)
      BY <2>2, <2>4, <3>1, TransferEffect
    <3>2. CASE ~StaysBehind(s)
      <4>1. s \in simple_caps
        BY <2>1, <2>2, NthListed
      <4>2. s \in Nat /\ s <= last
        BY <2>1, <2>6, <4>1, LastFacts
      <4>3. s \notin free
        BY <2>4, <2>6, <2>7, <4>2
      <4>4. DOMAIN new' = DOMAIN new \cup {s}
        BY <2>2, <3>2, TransferEffect
      <4> QED
        BY <2>4, <4>3, <4>4
    <3> QED
      BY <3>1, <3>2
  <2> QED
    BY <1>00, <2>1, <2>4, <2>5, <2>6, <2>8, <2>9 DEF FreeSlots, Here
<1>6. UtsApart'
  BY <1>00 DEF InPlace, UtsApart, Fail, Early, bootstrap_transfer_caps_simple
<1>7. CapsKept'
  <2>1. phase = "transfer" /\ FromSimple /\ ~UsesCurrent /\ layout \in Layouts /\ call \in Calls /\ loop \in Nat
        /\ loop >= 1 /\ space = "new" /\ loop \in 1 .. simple_get_cap_count
    BY BeforeFacts DEF InPlace, Course, Spaces, Early, CurrentPhases, bootstrap_transfer_caps_simple
  <2>2. PICK s : s = simple_get_nth_cap(loop)
    OBVIOUS
  <2>3. space' = space
    BY DEF bootstrap_transfer_caps_simple
  <2> SUFFICES ASSUME NEW t \in layout.listed
               PROVE  (StillOld(t) \/ Moved(t))'
    BY <1>00 DEF CapsKept
  <2>4. StillOld(t) \/ Moved(t)
    BY DEF InPlace, CapsKept
  <2>5. CASE StaysBehind(s)
    <3>1. UNCHANGED <<old, new>>
      BY <2>2, <2>5, TransferEffect
    <3> QED
      BY <1>00, <2>3, <2>4, <3>1 DEF StillOld, Moved
  <2>6. CASE ~StaysBehind(s)
    <3>1. /\ s \notin DOMAIN new /\ DOMAIN new' = DOMAIN new \cup {s} /\ new'[s] = old[s]
          /\ \A u \in DOMAIN new : new'[u] = new[u]
          /\ \A u \in DOMAIN old : u # s => u \in DOMAIN old' /\ old'[u] = old[u]
      BY <2>2, <2>6, TransferEffect
    <3>2. CASE Moved(t)
      BY <1>00, <2>3, <3>1, <3>2 DEF Moved
    <3>3. CASE StillOld(t) /\ t # s
      BY <1>00, <3>1, <3>3 DEF StillOld
    <3>4. CASE StillOld(t) /\ t = s
      BY <1>00, <2>1, <2>3, <3>1, <3>4 DEF StillOld, Moved
    <3> QED
      BY <2>4, <3>2, <3>3, <3>4
  <2> QED
    BY <2>5, <2>6
<1>8. Transferred'
  <2>1. phase = "transfer" /\ FromSimple /\ ~UsesCurrent /\ layout \in Layouts /\ call \in Calls /\ loop \in Nat
        /\ loop >= 1 /\ space = "new" /\ loop \in 1 .. simple_get_cap_count
    BY BeforeFacts DEF InPlace, Course, Spaces, Early, CurrentPhases, bootstrap_transfer_caps_simple
  <2>2. PICK s : s = simple_get_nth_cap(loop)
    OBVIOUS
  <2>3. space' = space
    BY DEF bootstrap_transfer_caps_simple
  <2>5. ASSUME NEW t, Moved(t)
        PROVE  Moved(t)'
    <3>1. DOMAIN new \subseteq DOMAIN new' /\ \A u \in DOMAIN new : new'[u] = new[u]
      BY <2>2, TransferEffect
    <3> QED
      BY <1>00, <2>3, <2>5, <3>1 DEF Moved
  <2>6. StaysBehind(s) \/ Moved(s)'
    <3> SUFFICES ASSUME ~StaysBehind(s)
                 PROVE  Moved(s)'
      OBVIOUS
    <3>1. s \notin DOMAIN new /\ s \in DOMAIN new' /\ new'[s] = old[s]
      BY <2>2, TransferEffect
    <3>2. s \in layout.listed
      BY <2>1, <2>2, NthListed
    <3>3. StillOld(s)
      BY <3>1, <3>2 DEF InPlace, CapsKept, Moved
    <3> QED
      BY <1>00, <2>1, <2>3, <3>1, <3>3 DEF StillOld, Moved
  <2>7. \A n \in 1 .. loop - 1 : Arrived(n)
    BY <2>1 DEF InPlace, Transferred
  <2>8. \A n \in 1 .. loop : Arrived(n)'
    <3> SUFFICES ASSUME NEW n \in 1 .. loop
                 PROVE  Arrived(n)'
      OBVIOUS
    <3>1. PICK t : t = simple_get_nth_cap(n)
      OBVIOUS
    <3>2. simple_get_nth_cap(n)' = t
      BY <1>00, <3>1 DEF simple_get_nth_cap, simple_caps, UtSlots
    <3>3. CASE n = loop
      <4>1. t = s
        BY <2>2, <3>1, <3>3
      <4> QED
        BY <1>00, <2>6, <3>2, <4>1 DEF Arrived, StaysBehind, simple_is_untyped_cap, UtSlots, Moved
    <3>4. CASE n # loop
      <4>1. n \in 1 .. loop - 1
        BY <2>1, <3>4
      <4>2. StaysBehind(t) \/ Moved(t)
        BY <2>7, <3>1, <4>1 DEF Arrived
      <4>3. StaysBehind(t) \/ Moved(t)'
        BY <2>5, <4>2
      <4> QED
        BY <1>00, <3>2, <4>3 DEF Arrived, StaysBehind, simple_is_untyped_cap, UtSlots, Moved
    <3> QED
      BY <3>3, <3>4
  <2>9. loop' = loop + 1 /\ loop' - 1 = loop /\ (phase' = "done" => loop = simple_get_cap_count)
    BY <2>1, TransferEffect
  <2>10. simple_get_cap_count' = simple_get_cap_count
    BY <1>0, SameInputs
  <2> QED
    BY <2>8, <2>9, <2>10 DEF Transferred
<1> QED
  BY <1>1, <1>2, <1>3, <1>4, <1>5, <1>6, <1>7, <1>8 DEF InPlace

(* Nothing is listed for a call that starts from bootinfo.                  *)
LEMMA Keeps__new_from_bootinfo_common ==
  ASSUME InPlace, _new_from_bootinfo_common, phase' # "failed"
  PROVE  InPlace'
<1>0. inputs' = inputs
  BY DEF _new_from_bootinfo_common
<1>00. /\ UsesCurrent' = UsesCurrent /\ OneLevel' = OneLevel /\ FromSimple' = FromSimple
      /\ call' = call /\ layout' = layout
  BY <1>0, SameInputs
<1>1. Course'
  BY <1>00 DEF InPlace, Course, Fail, Early, CurrentPhases, NewPhases, _new_from_bootinfo_common
<1>2. BootTypes'
  <2>1. bootNext' \in Nat /\ toSlot' \in Nat
    BY DEF InPlace, BootTypes, _new_from_bootinfo_common
  <2>2. DOMAIN new' \subseteq Nat /\ free' \subseteq Nat
    BY DEF InPlace, BootTypes, _new_from_bootinfo_common
  <2>3. uts' \in Seq(UtNodes)
    BY DEF InPlace, BootTypes, _new_from_bootinfo_common
  <2>4. phase' = "split" => best' \in UtNodes
    BY DEF InPlace, BootTypes, _new_from_bootinfo_common
  <2> QED
    BY <2>1, <2>2, <2>3, <2>4 DEF BootTypes
<1>3. Spaces'
  BY <1>00 DEF InPlace, Spaces, Fail, Early, _new_from_bootinfo_common
<1>4. BootSlots'
  BY <1>0, <1>00, SameInputs
     DEF InPlace, BootSlots, BootHas, Fail, Early, Course, CurrentPhases, NewPhases,
         _new_from_bootinfo_common
<1>5. FreeSlots'
  BY <1>00
     DEF InPlace, FreeSlots, Here, Fail, Early, Course, CurrentPhases, NewPhases,
         _new_from_bootinfo_common
<1>6. UtsApart'
  BY <1>00 DEF InPlace, UtsApart, Fail, Early, _new_from_bootinfo_common
<1>7. CapsKept'
  BY <1>00 DEF InPlace, CapsKept, StillOld, Moved, _new_from_bootinfo_common
<1>8. Transferred'
  <2>1. phase = "finish" /\ phase' = "done"
    BY DEF _new_from_bootinfo_common
  <2>2. ~FromSimple
    BY <2>1 DEF InPlace, Course
  <2> QED
    BY <1>00, <2>1, <2>2 DEF Transferred
<1> QED
  BY <1>1, <1>2, <1>3, <1>4, <1>5, <1>6, <1>7, <1>8 DEF InPlace

(* In the boot CSpace the free slots are those behind everything.           *)
LEMMA Keeps_bootstrap_use_current_1level ==
  ASSUME InPlace, bootstrap_use_current_1level, phase' # "failed"
  PROVE  InPlace'
<1>0. inputs' = inputs
  BY DEF bootstrap_use_current_1level, FreeInCurrent
<1>00. /\ UsesCurrent' = UsesCurrent /\ OneLevel' = OneLevel /\ FromSimple' = FromSimple
      /\ call' = call /\ layout' = layout
  BY <1>0, SameInputs
<1>1. Course'
  BY <1>00
     DEF InPlace, Course, Fail, Early, CurrentPhases, NewPhases, bootstrap_use_current_1level,
         FreeInCurrent
<1>2. BootTypes'
  <2>1. bootNext' \in Nat /\ toSlot' \in Nat
    BY DEF InPlace, BootTypes, bootstrap_use_current_1level
  <2>2. DOMAIN new' \subseteq Nat /\ free' \subseteq Nat
    <3>1. layout \in Layouts
      BY DEF InPlace, Course
    <3>2. PICK a, b : a = BootFirst /\ b = Bit(layout.bits) - 1
      OBVIOUS
    <3>3. a \in Nat /\ b \in Int
      BY <3>1, <3>2, FirstFacts, LayoutFacts
    <3>4. free' = a .. b /\ new' = new
      BY <3>2 DEF bootstrap_use_current_1level, FreeInCurrent, Fail
    <3> QED
      BY <3>3, <3>4 DEF InPlace, BootTypes
  <2>3. uts' \in Seq(UtNodes)
    BY DEF InPlace, BootTypes, bootstrap_use_current_1level
  <2>4. phase' = "split" => best' \in UtNodes
    BY <1>00 DEF InPlace, BootTypes, Fail, bootstrap_use_current_1level, FreeInCurrent
  <2> QED
    BY <2>1, <2>2, <2>3, <2>4 DEF BootTypes
<1>3. Spaces'
  BY <1>00
     DEF InPlace, Spaces, Fail, Early, Course, CurrentPhases, NewPhases,
         bootstrap_use_current_1level, FreeInCurrent
<1>4. BootSlots'
  BY <1>0, <1>00, SameInputs
     DEF InPlace, BootSlots, BootHas, Fail, Early, Course, CurrentPhases, NewPhases,
         bootstrap_use_current_1level, FreeInCurrent
<1>5. FreeSlots'
  BY <1>0, <1>00, SameInputs, LastFacts, FirstFacts, LayoutFacts, PutFacts
     DEF InPlace, FreeSlots, Here, Fail, Early, Course, CurrentPhases, NewPhases, BootTypes,
         Spaces, BootSlots, UtsApart, CapsKept, Transferred, bootstrap_use_current_1level,
         FreeInCurrent
<1>6. UtsApart'
  BY <1>00 DEF InPlace, UtsApart, Fail, Early, bootstrap_use_current_1level, FreeInCurrent
<1>7. CapsKept'
  BY <1>00 DEF InPlace, CapsKept, StillOld, Moved, bootstrap_use_current_1level, FreeInCurrent
<1>8. Transferred'
  BY <1>00
     DEF InPlace, Transferred, Arrived, Moved, Fail, Early, bootstrap_use_current_1level,
         FreeInCurrent
<1> QED
  BY <1>1, <1>2, <1>3, <1>4, <1>5, <1>6, <1>7, <1>8 DEF InPlace

(* The copies of the regions touch no capability.                           *)
LEMMA Keeps_prepare_handle_device_untyped_cap ==
  ASSUME InPlace, prepare_handle_device_untyped_cap, phase' # "failed"
  PROVE  InPlace'
<1>0. inputs' = inputs
  BY DEF prepare_handle_device_untyped_cap
<1>00. /\ UsesCurrent' = UsesCurrent /\ OneLevel' = OneLevel /\ FromSimple' = FromSimple
      /\ call' = call /\ layout' = layout
  BY <1>0, SameInputs
<1>1. Course'
  BY <1>00
     DEF InPlace, Course, Fail, Early, CurrentPhases, NewPhases, prepare_handle_device_untyped_cap
<1>2. BootTypes'
  <2>1. bootNext' \in Nat /\ toSlot' \in Nat
    BY DEF InPlace, BootTypes, prepare_handle_device_untyped_cap
  <2>2. DOMAIN new' \subseteq Nat /\ free' \subseteq Nat
    BY DEF InPlace, BootTypes, prepare_handle_device_untyped_cap
  <2>3. uts' \in Seq(UtNodes)
    BY DEF InPlace, BootTypes, prepare_handle_device_untyped_cap
  <2>4. phase' = "split" => best' \in UtNodes
    BY DEF InPlace, BootTypes, prepare_handle_device_untyped_cap
  <2> QED
    BY <2>1, <2>2, <2>3, <2>4 DEF BootTypes
<1>3. Spaces'
  BY <1>00 DEF InPlace, Spaces, Fail, Early, prepare_handle_device_untyped_cap
<1>4. BootSlots'
  BY <1>0, <1>00, SameInputs
     DEF InPlace, BootSlots, BootHas, Fail, Early, Course, CurrentPhases, NewPhases,
         prepare_handle_device_untyped_cap
<1>5. FreeSlots'
  BY <1>0, <1>00, SameInputs
     DEF InPlace, FreeSlots, Here, Fail, Early, Course, CurrentPhases, NewPhases,
         prepare_handle_device_untyped_cap
<1>6. UtsApart'
  BY <1>00 DEF InPlace, UtsApart, Fail, Early, prepare_handle_device_untyped_cap
<1>7. CapsKept'
  BY <1>00 DEF InPlace, CapsKept, StillOld, Moved, prepare_handle_device_untyped_cap
<1>8. Transferred'
  BY <1>00 DEF InPlace, Transferred, Arrived, Moved, prepare_handle_device_untyped_cap
<1> QED
  BY <1>1, <1>2, <1>3, <1>4, <1>5, <1>6, <1>7, <1>8 DEF InPlace

(* Neither does an untyped that is given from bootinfo,                     *)
LEMMA Keeps_allocman_add_bootinfo_untypeds ==
  ASSUME InPlace, allocman_add_bootinfo_untypeds, phase' # "failed"
  PROVE  InPlace'
<1>0. inputs' = inputs
  BY DEF allocman_add_bootinfo_untypeds, GiveUntyped
<1>00. /\ UsesCurrent' = UsesCurrent /\ OneLevel' = OneLevel /\ FromSimple' = FromSimple
      /\ call' = call /\ layout' = layout
  BY <1>0, SameInputs
<1>1. Course'
  <2>1. phase = "adding" /\ phase' \in {"adding", "device"} /\ (loop' = loop \/ loop' = loop + 1)
    BY DEF InPlace, Course, allocman_add_bootinfo_untypeds, GiveUntyped, Fail
  <2>2. loop \in Nat /\ UsesCurrent
    BY <2>1 DEF InPlace, Course, NewPhases
  <2>3. loop' \in Nat
    BY <2>1, <2>2
  <2> QED
    BY <1>00, <2>1, <2>2, <2>3 DEF InPlace, Course, CurrentPhases
<1>2. BootTypes'
  <2>1. bootNext' \in Nat /\ toSlot' \in Nat
    BY DEF InPlace, BootTypes, allocman_add_bootinfo_untypeds
  <2>2. DOMAIN new' \subseteq Nat /\ free' \subseteq Nat
    BY DEF InPlace, BootTypes, allocman_add_bootinfo_untypeds
  <2>3. uts' \in Seq(UtNodes)
    BY DEF InPlace, BootTypes, allocman_add_bootinfo_untypeds
  <2>4. phase' = "split" => best' \in UtNodes
    BY <1>00 DEF InPlace, BootTypes, Fail, allocman_add_bootinfo_untypeds, GiveUntyped
  <2> QED
    BY <2>1, <2>2, <2>3, <2>4 DEF BootTypes
<1>3. Spaces'
  BY <1>00 DEF InPlace, Spaces, Fail, Early, allocman_add_bootinfo_untypeds, GiveUntyped
<1>4. BootSlots'
  BY <1>0, <1>00, SameInputs
     DEF InPlace, BootSlots, BootHas, Fail, Early, Course, CurrentPhases, NewPhases,
         allocman_add_bootinfo_untypeds, GiveUntyped
<1>5. FreeSlots'
  BY <1>00 DEF InPlace, FreeSlots, Here, Fail, Early, allocman_add_bootinfo_untypeds, GiveUntyped
<1>6. UtsApart'
  BY <1>00 DEF InPlace, UtsApart, Fail, Early, allocman_add_bootinfo_untypeds, GiveUntyped
<1>7. CapsKept'
  BY <1>00 DEF InPlace, CapsKept, StillOld, Moved, allocman_add_bootinfo_untypeds, GiveUntyped
<1>8. Transferred'
  BY <1>00
     DEF InPlace, Transferred, Arrived, Moved, Fail, Early, allocman_add_bootinfo_untypeds,
         GiveUntyped
<1> QED
  BY <1>1, <1>2, <1>3, <1>4, <1>5, <1>6, <1>7, <1>8 DEF InPlace

(* nor one from simple, nor a device untyped before it is looked into.      *)
LEMMA Keeps_allocman_add_simple_untypeds ==
  ASSUME InPlace, allocman_add_simple_untypeds, phase' # "failed"
  PROVE  InPlace'
<1>0. inputs' = inputs
  BY DEF allocman_add_simple_untypeds, GiveUntyped
<1>00. /\ UsesCurrent' = UsesCurrent /\ OneLevel' = OneLevel /\ FromSimple' = FromSimple
      /\ call' = call /\ layout' = layout
  BY <1>0, SameInputs
<1>1. Course'
  <2>1. phase = "adding" /\ phase' \in {"adding", "device"} /\ (loop' = loop \/ loop' = loop + 1)
    BY DEF InPlace, Course, allocman_add_simple_untypeds, GiveUntyped, Fail
  <2>2. loop \in Nat /\ UsesCurrent
    BY <2>1 DEF InPlace, Course, NewPhases
  <2>3. loop' \in Nat
    BY <2>1, <2>2
  <2> QED
    BY <1>00, <2>1, <2>2, <2>3 DEF InPlace, Course, CurrentPhases
<1>2. BootTypes'
  <2>1. bootNext' \in Nat /\ toSlot' \in Nat
    BY DEF InPlace, BootTypes, allocman_add_simple_untypeds
  <2>2. DOMAIN new' \subseteq Nat /\ free' \subseteq Nat
    BY DEF InPlace, BootTypes, allocman_add_simple_untypeds
  <2>3. uts' \in Seq(UtNodes)
    BY DEF InPlace, BootTypes, allocman_add_simple_untypeds
  <2>4. phase' = "split" => best' \in UtNodes
    BY <1>00 DEF InPlace, BootTypes, Fail, allocman_add_simple_untypeds, GiveUntyped
  <2> QED
    BY <2>1, <2>2, <2>3, <2>4 DEF BootTypes
<1>3. Spaces'
  BY <1>00 DEF InPlace, Spaces, Fail, Early, allocman_add_simple_untypeds, GiveUntyped
<1>4. BootSlots'
  BY <1>0, <1>00, SameInputs
     DEF InPlace, BootSlots, BootHas, Fail, Early, Course, CurrentPhases, NewPhases,
         allocman_add_simple_untypeds, GiveUntyped
<1>5. FreeSlots'
  BY <1>0, <1>00, SameInputs
     DEF InPlace, FreeSlots, Here, Fail, Early, Course, CurrentPhases, NewPhases,
         allocman_add_simple_untypeds, GiveUntyped
<1>6. UtsApart'
  BY <1>00 DEF InPlace, UtsApart, Fail, Early, allocman_add_simple_untypeds, GiveUntyped
<1>7. CapsKept'
  BY <1>00 DEF InPlace, CapsKept, StillOld, Moved, allocman_add_simple_untypeds, GiveUntyped
<1>8. Transferred'
  BY <1>00
     DEF InPlace, Transferred, Arrived, Moved, Fail, Early, allocman_add_simple_untypeds,
         GiveUntyped
<1> QED
  BY <1>1, <1>2, <1>3, <1>4, <1>5, <1>6, <1>7, <1>8 DEF InPlace

(* In the end nothing moves.                                                *)
LEMMA Keeps_AllAdded ==
  ASSUME InPlace, AllAdded, phase' # "failed"
  PROVE  InPlace'
<1>0. inputs' = inputs
  BY DEF AllAdded
<1>00. /\ UsesCurrent' = UsesCurrent /\ OneLevel' = OneLevel /\ FromSimple' = FromSimple
      /\ call' = call /\ layout' = layout
  BY <1>0, SameInputs
<1>1. Course'
  BY <1>00 DEF InPlace, Course, Fail, Early, CurrentPhases, NewPhases, AllAdded
<1>2. BootTypes'
  <2>1. bootNext' \in Nat /\ toSlot' \in Nat
    BY DEF InPlace, BootTypes, AllAdded
  <2>2. DOMAIN new' \subseteq Nat /\ free' \subseteq Nat
    BY DEF InPlace, BootTypes, AllAdded
  <2>3. uts' \in Seq(UtNodes)
    BY DEF InPlace, BootTypes, AllAdded
  <2>4. phase' = "split" => best' \in UtNodes
    BY DEF InPlace, BootTypes, AllAdded
  <2> QED
    BY <2>1, <2>2, <2>3, <2>4 DEF BootTypes
<1>3. Spaces'
  BY <1>00 DEF InPlace, Spaces, Fail, Early, AllAdded
<1>4. BootSlots'
  BY <1>0, <1>00, SameInputs
     DEF InPlace, BootSlots, BootHas, Fail, Early, Course, CurrentPhases, NewPhases, AllAdded
<1>5. FreeSlots'
  BY <1>0, <1>00, SameInputs
     DEF InPlace, FreeSlots, Here, Fail, Early, Course, CurrentPhases, NewPhases, AllAdded
<1>6. UtsApart'
  BY <1>00 DEF InPlace, UtsApart, Fail, Early, AllAdded
<1>7. CapsKept'
  BY <1>00 DEF InPlace, CapsKept, StillOld, Moved, AllAdded
<1>8. Transferred'
  BY <1>00
     DEF InPlace, Transferred, Arrived, Moved, Fail, Early, Course, CurrentPhases, NewPhases,
         AllAdded
<1> QED
  BY <1>1, <1>2, <1>3, <1>4, <1>5, <1>6, <1>7, <1>8 DEF InPlace

(* The pieces of a device untyped go into slots that were free.             *)
LEMMA Keeps_handle_device_untyped_cap ==
  ASSUME InPlace, handle_device_untyped_cap, phase' # "failed"
  PROVE  InPlace'
<1>0. inputs' = inputs
  BY DEF handle_device_untyped_cap, perform_sub_allocation, TakeSlot
<1>00. /\ UsesCurrent' = UsesCurrent /\ OneLevel' = OneLevel /\ FromSimple' = FromSimple
      /\ call' = call /\ layout' = layout
  BY <1>0, SameInputs
<1>1. Course'
  <2>1. phase = "device" /\ UsesCurrent /\ loop \in Nat /\ free \subseteq Nat /\ space = "old"
        /\ layout \in Layouts
    BY DEF InPlace, Course, BootTypes, Spaces, NewPhases, handle_device_untyped_cap
  <2>2. phase \notin Early /\ phase' \in {"device", "adding"} /\ space' = space /\ new' = new
    BY <2>1, DeviceEffect DEF Early
  <2>3. loop' \in Nat
    BY <2>1, DeviceEffect
  <2> QED
    BY <1>00, <2>1, <2>2, <2>3 DEF InPlace, Course, CurrentPhases
<1>2. BootTypes'
  <2>1. bootNext' \in Nat /\ toSlot' \in Nat
    BY DEF InPlace, BootTypes, handle_device_untyped_cap
  <2>2. DOMAIN new' \subseteq Nat /\ free' \subseteq Nat
    BY <1>00
       DEF InPlace, BootTypes, Fail, handle_device_untyped_cap, perform_sub_allocation, TakeSlot
  <2>3. uts' \in Seq(UtNodes)
    BY DEF InPlace, BootTypes, handle_device_untyped_cap
  <2>4. phase' = "split" => best' \in UtNodes
    BY <1>00
       DEF InPlace, BootTypes, Fail, handle_device_untyped_cap, perform_sub_allocation, TakeSlot
  <2> QED
    BY <2>1, <2>2, <2>3, <2>4 DEF BootTypes
<1>3. Spaces'
  BY <1>00
     DEF InPlace, Spaces, Fail, Early, handle_device_untyped_cap, perform_sub_allocation, TakeSlot
<1>4. BootSlots'
  BY <1>0, <1>00, SameInputs
     DEF InPlace, BootSlots, BootHas, Fail, Early, Course, CurrentPhases, NewPhases,
         handle_device_untyped_cap, perform_sub_allocation, TakeSlot
<1>5. FreeSlots'
  <2>1. phase = "device" /\ UsesCurrent /\ loop \in Nat /\ free \subseteq Nat /\ space = "old"
        /\ layout \in Layouts
    BY DEF InPlace, Course, BootTypes, Spaces, NewPhases, handle_device_untyped_cap
  <2>2. phase \notin Early /\ phase' \in {"device", "adding"} /\ space' = space /\ new' = new
    BY <2>1, DeviceEffect DEF Early
  <2>3. call # "new_1level_bootinfo"
    BY <2>1 DEF UsesCurrent
  <2>4. free \cap DOMAIN old = {}
    BY <2>1, <2>2, <2>3 DEF InPlace, FreeSlots, Here
  <2>5. free' \cap DOMAIN old' = {} /\ free' \subseteq free
    <3>1. CASE old' = old /\ free' = free
      BY <2>4, <3>1
    <3>2. CASE ~ (old' = old /\ free' = free)
      <4>1. PICK s : s = NextFree(free)
        OBVIOUS
      <4>2. free' = free \ {s} /\ DOMAIN old' = DOMAIN old \cup {s}
        BY <2>1, <3>2, <4>1, DeviceEffect, SlotTaken
      <4> QED
        BY <2>4, <4>2
    <3> QED
      BY <3>1, <3>2
  <2> QED
    BY <1>0, <1>00, <2>1, <2>2, <2>5, SameInputs DEF InPlace, FreeSlots, Here
<1>6. UtsApart'
  BY <1>00
     DEF InPlace, UtsApart, Fail, Early, handle_device_untyped_cap, perform_sub_allocation,
         TakeSlot
<1>7. CapsKept'
  <2>1. phase = "device" /\ UsesCurrent /\ loop \in Nat /\ free \subseteq Nat /\ space = "old"
        /\ layout \in Layouts
    BY DEF InPlace, Course, BootTypes, Spaces, NewPhases, handle_device_untyped_cap
  <2>2. phase \notin Early /\ phase' \in {"device", "adding"} /\ space' = space /\ new' = new
    BY <2>1, DeviceEffect DEF Early
  <2>3. call # "new_1level_bootinfo"
    BY <2>1 DEF UsesCurrent
  <2>4. free \cap DOMAIN old = {}
    BY <2>1, <2>2, <2>3 DEF InPlace, FreeSlots, Here
  <2>5. \A s \in layout.listed : s \in DOMAIN old /\ old[s] = BootCaps(layout)[s]
    BY <2>1 DEF InPlace, CapsKept, StillOld, Moved
  <2>6. \A s \in layout.listed : s \in DOMAIN old' /\ old'[s] = old[s]
    <3>1. CASE old' = old /\ free' = free
      BY <2>5, <3>1
    <3>2. CASE ~ (old' = old /\ free' = free)
      <4>1. PICK m : m = NextFree(free)
        OBVIOUS
      <4>2. m \in free /\ DOMAIN old' = DOMAIN old \cup {m} /\ \A t \in DOMAIN old : t # m => old'[t] = old[t]
        BY <2>1, <3>2, <4>1, DeviceEffect, SlotTaken
      <4> QED
        BY <2>4, <2>5, <4>2
    <3> QED
      BY <3>1, <3>2
  <2> QED
    BY <1>00, <2>5, <2>6 DEF CapsKept, StillOld
<1>8. Transferred'
  BY <1>00
     DEF InPlace, Transferred, Arrived, Moved, Fail, Early, handle_device_untyped_cap,
         perform_sub_allocation, TakeSlot
<1> QED
  BY <1>1, <1>2, <1>3, <1>4, <1>5, <1>6, <1>7, <1>8 DEF InPlace

(* In the beginning everything is where the caller finds it. *)
LEMMA InitInPlace ==
  ASSUME BootInit
  PROVE  InPlace
<1>0. /\ call \in Calls /\ layout \in Layouts /\ phase = "start" /\ loop = 1 /\ old = BootCaps(layout)
      /\ new = <<>> /\ space = "old" /\ bootNext = 0 /\ uts = <<>> /\ toSlot = 0 /\ free = {}
  BY DEF BootInit
<1>1. Course
  BY <1>0, LayoutFacts DEF Course, CurrentPhases, NewPhases
<1>2. BootTypes
  BY <1>0 DEF BootTypes
<1>3. Spaces
  BY <1>0 DEF Spaces, Early
<1>4. BootSlots
  BY <1>0 DEF BootSlots
<1>5. FreeSlots
  BY <1>0 DEF FreeSlots, Early
<1>6. UtsApart
  BY <1>0 DEF UtsApart
<1>7. CapsKept
  <2> SUFFICES ASSUME NEW s \in layout.listed
               PROVE  StillOld(s)
    BY DEF CapsKept
  <2>1. s \in DOMAIN BootCaps(layout)
    BY DEF BootCaps
  <2> QED
    BY <1>0, <2>1 DEF StillOld
<1>8. Transferred
  BY <1>0 DEF Transferred
<1> QED
  BY <1>1, <1>2, <1>3, <1>4, <1>5, <1>6, <1>7, <1>8 DEF InPlace

(* A call that has failed stays failed: no action has that phase as its guard. *)
LEMMA FailedForGood ==
  ASSUME phase = "failed"
  PROVE  ~BootNext
<1>1. ~bootstrap_create_info
  BY DEF bootstrap_create_info
<1>2. ~bootstrap_add_untypeds
  BY DEF bootstrap_add_untypeds
<1>3. ~_bootstrap_new_level
  BY DEF _bootstrap_new_level
<1>4. ~_remove_ut
  BY DEF _remove_ut
<1>5. ~_split_ut
  BY DEF _split_ut
<1>6. ~_retype_cnode
  BY DEF _retype_cnode
<1>7. ~Install
  BY DEF Install
<1>8. ~bootstrap_new_1level_cspace
  BY DEF bootstrap_new_1level_cspace, Switch
<1>9. ~bootstrap_new_2level_cspace
  BY DEF bootstrap_new_2level_cspace, Switch
<1>10. ~bootstrap_update_untypeds
  BY DEF bootstrap_update_untypeds
<1>11. ~bootstrap_move_untypeds
  BY DEF bootstrap_move_untypeds
<1>12. ~bootstrap_create_utspace
  BY DEF bootstrap_create_utspace
<1>13. ~Reserve
  BY DEF Reserve
<1>14. ~bootstrap_transfer_caps_simple
  BY DEF bootstrap_transfer_caps_simple
<1>15. ~_new_from_bootinfo_common
  BY DEF _new_from_bootinfo_common
<1>16. ~bootstrap_use_current_1level
  BY DEF bootstrap_use_current_1level
<1>17. ~prepare_handle_device_untyped_cap
  BY DEF prepare_handle_device_untyped_cap
<1>18. ~allocman_add_bootinfo_untypeds
  BY DEF allocman_add_bootinfo_untypeds
<1>19. ~allocman_add_simple_untypeds
  BY DEF allocman_add_simple_untypeds
<1>20. ~AllAdded
  BY DEF AllAdded
<1>21. ~handle_device_untyped_cap
  BY DEF handle_device_untyped_cap
<1> QED
  BY <1>1, <1>2, <1>3, <1>4, <1>5, <1>6, <1>7, <1>8, <1>9, <1>10, <1>11, <1>12, <1>13, <1>14,
     <1>15, <1>16, <1>17, <1>18, <1>19, <1>20, <1>21
     DEF BootNext

(* Every step keeps the invariant. *)
LEMMA StepInPlace ==
  ASSUME CapsInv, [BootNext]_bootVars
  PROVE  CapsInv'
<1> SUFFICES ASSUME phase' # "failed"
             PROVE  InPlace'
  BY DEF CapsInv
<1>1. CASE UNCHANGED bootVars
  <2>1. InPlace
    BY <1>1 DEF CapsInv, bootVars
  <2>0. inputs' = inputs
    BY <1>1 DEF bootVars, inputs
  <2>2. /\ UsesCurrent' = UsesCurrent /\ OneLevel' = OneLevel /\ FromSimple' = FromSimple
        /\ call' = call /\ layout' = layout
    BY <2>0, SameInputs
  <2> QED
    <3>1. Course'
      BY <1>1, <2>0, <2>1, <2>2, SameInputs DEF bootVars, InPlace, Course
    <3>2. BootTypes'
      BY <1>1, <2>0, <2>1, <2>2, SameInputs DEF bootVars, InPlace, BootTypes
    <3>3. Spaces'
      BY <1>1, <2>0, <2>1, <2>2, SameInputs DEF bootVars, InPlace, Spaces
    <3>4. BootSlots'
      BY <1>1, <2>0, <2>1, <2>2, SameInputs DEF bootVars, InPlace, BootSlots, BootHas
    <3>5. FreeSlots'
      BY <1>1, <2>0, <2>1, <2>2, SameInputs DEF bootVars, InPlace, FreeSlots, Here
    <3>6. UtsApart'
      BY <1>1, <2>0, <2>1, <2>2, SameInputs DEF bootVars, InPlace, UtsApart
    <3>7. CapsKept'
      BY <1>1, <2>0, <2>1, <2>2, SameInputs DEF bootVars, InPlace, CapsKept, StillOld, Moved
    <3>8. Transferred'
      BY <1>1, <2>0, <2>1, <2>2, SameInputs
         DEF bootVars, InPlace, Transferred, Arrived, Moved, StaysBehind, simple_is_untyped_cap,
             simple_get_nth_cap, simple_caps, simple_get_cap_count, UtSlots
    <3> QED
      BY <3>1, <3>2, <3>3, <3>4, <3>5, <3>6, <3>7, <3>8 DEF InPlace
<1>2. CASE BootNext
  <2>1. InPlace
    BY <1>2, FailedForGood DEF CapsInv
  <2> QED
    BY <1>2, <2>1, Keeps_bootstrap_create_info,
       Keeps_bootstrap_add_untypeds,
       Keeps__bootstrap_new_level,
       Keeps__remove_ut,
       Keeps__split_ut,
       Keeps__retype_cnode,
       Keeps_Install,
       Keeps_bootstrap_new_1level_cspace,
       Keeps_bootstrap_new_2level_cspace,
       Keeps_bootstrap_update_untypeds,
       Keeps_bootstrap_move_untypeds,
       Keeps_bootstrap_create_utspace,
       Keeps_Reserve,
       Keeps_bootstrap_transfer_caps_simple,
       Keeps__new_from_bootinfo_common,
       Keeps_bootstrap_use_current_1level,
       Keeps_prepare_handle_device_untyped_cap,
       Keeps_allocman_add_bootinfo_untypeds,
       Keeps_allocman_add_simple_untypeds,
       Keeps_AllAdded,
       Keeps_handle_device_untyped_cap
       DEF BootNext
<1> QED
  BY <1>1, <1>2

(* What the invariant says when the call returns. *)
LEMMA InvGivesCapsInPlace ==
  ASSUME CapsInv
  PROVE  CapsInPlace
<1> USE DEF CapsInv
<1>1. ASSUME phase # "failed", call # "new_1level_bootinfo"
      PROVE  free \cap DOMAIN Here = {}
  BY <1>1 DEF InPlace, FreeSlots, Spaces
<1>2. ASSUME phase = "done", FromSimple, NEW s \in layout.listed \ {layout.cnode}
      PROVE  s \in DOMAIN Here /\ Here[s] = BootCaps(layout)[s]
  <2>1. InPlace /\ layout \in Layouts /\ call \in Calls
    BY <1>2 DEF InPlace, Course
  <2>2. CASE UsesCurrent
    <3>1. space = "old"
      BY <2>1, <2>2 DEF InPlace, Spaces
    <3>2. StillOld(s)
      BY <2>1, <3>1 DEF InPlace, CapsKept, Moved
    <3> QED
      BY <3>1, <3>2 DEF StillOld, Here
  <2>3. CASE ~UsesCurrent
    <3>1. space = "new"
      BY <1>2, <2>1, <2>3 DEF InPlace, Spaces, Early
    <3>2. s \in simple_caps
      BY DEF simple_caps
    <3>3. PICK n \in 1 .. simple_get_cap_count : simple_get_nth_cap(n) = s
      BY <2>1, <3>2, NthCap
    <3>4. Arrived(n)
      BY <1>2, <2>1, <2>3, <3>3 DEF InPlace, Transferred
    <3>5. ~StaysBehind(s)
      BY <2>1, LayoutFacts DEF StaysBehind, simple_is_untyped_cap
    <3>6. Moved(s)
      BY <3>3, <3>4, <3>5 DEF Arrived
    <3> QED
      BY <3>1, <3>6 DEF Moved, Here
  <2> QED
    BY <2>2, <2>3
<1> QED
  BY <1>1, <1>2 DEF CapsInPlace

(* Whatever the layout of the boot CSpace, the sizes of the CNodes, the     *)
(* splits that the untypeds take and the steps in which memory runs out: no *)
(* slot that an attached allocator thinks free holds a capability, and what *)
(* simple lists can be used through the same CPtr when the call returns.    *)
THEOREM CapsAlwaysInPlace == BootSpec => []CapsInPlace
<1>1. BootInit => CapsInv
  BY InitInPlace DEF CapsInv
<1>2. CapsInv /\ [BootNext]_bootVars => CapsInv'
  BY StepInPlace
<1>3. CapsInv => CapsInPlace
  BY InvGivesCapsInPlace
<1> QED
  BY <1>1, <1>2, <1>3, PTL DEF BootSpec
=============================================================================
