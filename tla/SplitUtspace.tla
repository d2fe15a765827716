----------------------------- MODULE SplitUtspace -----------------------------
(***************************************************************************)
(* The splitting untyped manager of libsel4allocman (utspace/split.c).     *)
(* Untypeds are kept in lists by pool and size.  An allocation that finds  *)
(* its list without a fitting untyped splits a larger one in two,          *)
(* repeatedly; a free merges an untyped with its sibling when that is free *)
(* too, repeatedly.                                                        *)
(*                                                                         *)
(* A node is identified by the memory it covers.  An untyped without a     *)
(* known physical address covers memory of its own that no request can     *)
(* name.  The recursion of _refill_pool() and _utspace_split_free() is     *)
(* written out as the chain of nodes it visits.                            *)
(***************************************************************************)
EXTENDS Integers, Sequences, SequencesExt

CONSTANTS
  Roots,        \* the untypeds given: [pool, addr, size, known]
  MaxBits,      \* the largest size in bits
  BIT           \* BIT[b]: the bytes of an untyped of b bits

Pools == {"kernel", "dev", "dev_mem"}
Sizes == 0 .. MaxBits
NO_PADDR == -1

ASSUME BitsDouble ==
  /\ MaxBits \in Nat /\ BIT \in [0 .. MaxBits + 1 -> Nat]
  /\ BIT[0] = 1 /\ \A b \in Sizes : BIT[b + 1] = 2 * BIT[b]

ASSUME RootsSane ==
  /\ \A r \in Roots : /\ r.pool \in Pools /\ r.size \in Sizes
                      /\ r.addr \in Nat /\ r.addr % BIT[r.size] = 0 /\ r.known \in BOOLEAN
  /\ \A r, q \in Roots : r # q => r.addr + BIT[r.size] <= q.addr \/ q.addr + BIT[q.size] <= r.addr

VARIABLES
  heads,   \* per pool and size, the list of free nodes
  used,    \* nodes handed out
  split,   \* nodes that have been split
  given,   \* the roots that have been added
  failed   \* an allocation has failed after splitting (history)

splitVars == <<heads, used, split, given, failed>>

Node(a, b) == [addr |-> a, size |-> b]

RootNode(r) == Node(r.addr, r.size)

Covers(n, a) == n.addr <= a /\ a < n.addr + BIT[n.size]

RootOf(n) == CHOOSE r \in Roots : Covers(RootNode(r), n.addr)

KnownPaddr(n) == RootOf(n).known

(* The node of b bits that an address lies in. *)
At(a, b) == Node((a \div BIT[b]) * BIT[b], b)

Parent(n) == At(n.addr, n.size + 1)

Left(n) == Node(n.addr, n.size - 1)
Right(n) == Node(n.addr + BIT[n.size - 1], n.size - 1)

Sibling(n) == IF n = Left(Parent(n)) THEN Right(Parent(n)) ELSE Left(Parent(n))

(* utspace_split_create() *)
SplitInit ==
  /\ heads = [p \in Pools |-> [b \in Sizes |-> <<>>]]
  /\ used = {}
  /\ split = {}
  /\ given = {}
  /\ failed = FALSE

(* _utspace_split_add_uts() *)
AddUt(r) ==
  /\ r \in Roots \ given
  /\ given' = given \cup {r}
  /\ heads' = [heads EXCEPT ![r.pool][r.size] = <<RootNode(r)>> \o @]
  /\ UNCHANGED <<used, split, failed>>

-----------------------------------------------------------------------------
(* A node that serves the request: any, or the one that holds paddr. *)
Serves(n, paddr) == paddr = NO_PADDR \/ (KnownPaddr(n) /\ Covers(n, paddr))

Serving(list, paddr) == {k \in DOMAIN list : Serves(list[k], paddr)}

(* The pool sizes _refill_pool() may split from, and the one it does. *)
Sources(p, size, paddr) == {b \in size .. MaxBits : Serving(heads[p][b], paddr) # {}}

SourceNode(p, size, paddr) ==
  LET b == Min(Sources(p, size, paddr)) IN heads[p][b][Min(Serving(heads[p][b], paddr))]

(* The node of b bits on the way from n down to the request: to its start,  *)
(* or to the address asked for.                                             *)
Target(n, paddr) == IF paddr = NO_PADDR THEN n.addr ELSE paddr
Descendant(n, b, paddr) == At(Target(n, paddr), b)

(* Mutant: the node before is not looked at, the first one leaves the list. *)
UnlinkedHead(list, n) == Tail(list)

(* _remove_node() *)
Unlinked(list, n) == RemoveAt(list, CHOOSE k \in DOMAIN list : list[k] = n)

(* _refill_pool(): the lists after n has been split down to b bits. *)
Refilled(lists, n, b, paddr) ==
  [c \in Sizes |->
     CASE c < b \/ c > n.size \/ b = n.size -> lists[c]
       [] c = n.size /\ b < n.size -> Unlinked(lists[c], n)
       [] OTHER -> LET d == Descendant(n, c, paddr) IN
                   IF c = b THEN <<Left(Parent(d)), Right(Parent(d))>> \o lists[c]
                   ELSE <<Sibling(d)>> \o lists[c]]

SplitNodes(n, b, paddr) == {Descendant(n, c, paddr) : c \in b + 1 .. n.size}

(* find_head_for_paddr() *)
HoldsPaddr(p, size, paddr) ==
  \E b \in size .. MaxBits : \E k \in DOMAIN heads[p][b] :
    LET n == heads[p][b][k] IN
    KnownPaddr(n) /\ Covers(n, paddr) /\ Covers(n, paddr + BIT[size] - 1)

(* The pool of an allocation at an address. *)
PoolAt(size, paddr, canBeDev) ==
  CASE canBeDev /\ HoldsPaddr("dev", size, paddr) -> "dev"
    [] canBeDev /\ ~HoldsPaddr("dev", size, paddr) /\ HoldsPaddr("dev_mem", size, paddr) -> "dev_mem"
    [] OTHER -> "kernel"

(* The pool of an allocation anywhere: device memory first, if allowed. *)
PoolAnywhere(size, canBeDev) ==
  IF canBeDev /\ Sources("dev_mem", size, NO_PADDR) # {} THEN "dev_mem" ELSE "kernel"

PoolFor(size, paddr, canBeDev) ==
  IF paddr = NO_PADDR THEN PoolAnywhere(size, canBeDev) ELSE PoolAt(size, paddr, canBeDev)

(* The preconditions of the rest of _utspace_split_alloc(). *)
CanServe(p, size, paddr) ==
  /\ paddr # NO_PADDR => HoldsPaddr(p, size, paddr)
  /\ Sources(p, size, paddr) # {}

(* _utspace_split_alloc(): split down to the size, retype, take the node. *)
SplitAlloc(size, paddr, canBeDev) ==
  LET p == PoolFor(size, paddr, canBeDev)
      n == SourceNode(p, size, paddr)
      node == Descendant(n, size, paddr)
      refilled == Refilled(heads[p], n, size, paddr) IN
  /\ CanServe(p, size, paddr)
  /\ heads' = [heads EXCEPT ![p] = [refilled EXCEPT ![size] = Unlinked(refilled[size], node)]]
  /\ split' = split \cup SplitNodes(n, size, paddr)
  /\ used' = used \cup {node}
  /\ UNCHANGED <<given, failed>>

(* The same when a node cannot be had below b bits, or the final retype      *)
(* fails: what has been split stays so.                                     *)
SplitAllocFails(size, paddr, canBeDev) ==
  LET p == PoolFor(size, paddr, canBeDev)
      n == SourceNode(p, size, paddr) IN
  /\ CanServe(p, size, paddr)
  /\ \E b \in size .. n.size :
       /\ heads' = [heads EXCEPT ![p] = Refilled(@, n, b, paddr)]
       /\ split' = split \cup SplitNodes(n, b, paddr)
  /\ failed' = TRUE
  /\ UNCHANGED <<used, given>>

-----------------------------------------------------------------------------
IsRoot(n) == n = RootNode(RootOf(n))

FreeNodes == UNION {ToSet(heads[p][b]) : p \in Pools, b \in Sizes}

Ancestor(n, b) == At(n.addr, b)

(* A node merges with its sibling if that is in a free list. *)
Merges(n) == ~IsRoot(n) /\ Sibling(n) \in FreeNodes

(* Mutant: merging stops after one level. *)
MergedTopOnce(n) == IF Merges(n) THEN Parent(n) ELSE n

(* The ancestor at which the merging stops. *)
MergedTop(n) ==
  Ancestor(n, Min({b \in n.size .. MaxBits : ~Merges(Ancestor(n, b))}))

(* _utspace_split_free() *)
SplitFree(n) ==
  LET top == MergedTop(n)
      p == RootOf(n).pool IN
  /\ n \in used
  /\ used' = used \ {n}
  /\ heads' = [heads EXCEPT ![p] =
       [b \in Sizes |-> CASE n.size <= b /\ b < top.size -> Unlinked(@[b], Sibling(Ancestor(n, b)))
                          [] b = top.size -> <<top>> \o @[b]
                          [] OTHER -> @[b]]]
  /\ split' = split \ {Ancestor(n, b) : b \in n.size + 1 .. top.size}
  /\ UNCHANGED <<given, failed>>

Addresses == UNION {r.addr .. r.addr + BIT[r.size] - 1 : r \in Roots}

(* Objects are size aligned, and so are the addresses asked for. *)
Requests(size) == {NO_PADDR} \cup {a \in Addresses : a % BIT[size] = 0}

SplitNext ==
  \/ \E r \in Roots : AddUt(r)
  \/ \E size \in Sizes, canBeDev \in BOOLEAN : \E paddr \in Requests(size) :
       SplitAlloc(size, paddr, canBeDev) \/ SplitAllocFails(size, paddr, canBeDev)
  \/ \E n \in used : SplitFree(n)

SplitSpec == SplitInit /\ [][SplitNext]_splitVars

-----------------------------------------------------------------------------
(* Properties.                                                             *)

Nodes == {n \in {Node(a, b) : a \in Addresses, b \in Sizes} :
            n.addr % BIT[n.size] = 0 /\ n.size <= RootOf(n).size}

(* The type invariant. *)
SplitTypeOK ==
  /\ \A p \in Pools, b \in Sizes : \A k \in DOMAIN heads[p][b] :
       heads[p][b][k] \in Nodes /\ heads[p][b][k].size = b
  /\ used \subseteq Nodes
  /\ split \subseteq Nodes
  /\ given \subseteq Roots

Memory(n) == n.addr .. n.addr + BIT[n.size] - 1

(* A free node is in one list, once, and in the pool of its root. *)
ListsExact ==
  \A p, q \in Pools, b \in Sizes : \A i \in DOMAIN heads[p][b], j \in DOMAIN heads[q][b] :
    heads[p][b][i] = heads[q][b][j] => (p = q /\ i = j /\ RootOf(heads[p][b][i]).pool = p)

(* All memory given is in exactly one node, free or handed out: none is     *)
(* lost, and none handed out twice, by any order of splits and merges, also *)
(* by those of _utspace_split_alloc() that failed half way.                 *)
Partition ==
  /\ SplitTypeOK
  /\ ListsExact
  /\ UNION {Memory(n) : n \in FreeNodes \cup used} = UNION {Memory(RootNode(r)) : r \in given}
  /\ \A n, m \in FreeNodes \cup used : n # m => Memory(n) \cap Memory(m) = {}
  /\ FreeNodes \cap used = {}

(* The kernel lets a node be retyped only while nothing is derived from it: *)
(* the nodes that _refill_pool() has retyped and _utspace_split_free() has  *)
(* not given back are exactly those with children.                          *)
SplitExact ==
  split = {m \in Nodes : \E n \in FreeNodes \cup used : n # m /\ Memory(n) \subseteq Memory(m)}

(* No two siblings stay free side by side, as long as no allocation failed  *)
(* after splitting: when _utspace_split_free() has been called for all      *)
(* nodes handed out, the untypeds are back as they were given.              *)
FullyMerged == ~failed => \A n \in FreeNodes : ~Merges(n)

(* "_refill_pool should not have returned if this wasn't possible": after    *)
(* refilling for an address, a node that starts there is in the list.       *)
AddressFound ==
  \A size \in Sizes : \A paddr \in Requests(size) \ {NO_PADDR} : \A p \in Pools :
    CanServe(p, size, paddr) =>
      LET n == SourceNode(p, size, paddr) IN
      \E k \in DOMAIN Refilled(heads[p], n, size, paddr)[size] :
        Refilled(heads[p], n, size, paddr)[size][k].addr = paddr

(* What splitting, merging and allocations that fail half way keep true of  *)
(* the untypeds: no memory is lost or handed out twice, a node counts as    *)
(* split exactly while it has children, and refilling for an address makes  *)
(* a node that starts there.                                                *)
UntypedsExact == Partition /\ SplitExact /\ AddressFound
===============================================================================
