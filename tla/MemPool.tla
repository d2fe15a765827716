-------------------------------- MODULE MemPool --------------------------------
(***************************************************************************)
(* The memory pools of libsel4allocman (mspace/): the allocator of         *)
(* k_r_malloc.c, and the dual pool, a fixed piece of memory together with  *)
(* a range of virtual memory that the pool backs with pages as it grows.   *)
(*                                                                         *)
(* Addresses are bytes and sizes of blocks are in units of a header.  The  *)
(* circular list of free blocks is kept in the order of addresses, so it   *)
(* is a function from the headers in it to their sizes.  The header called *)
(* base is not memory of the pool; it has size 0 and lies in the structure *)
(* of the pool, next to no block.                                          *)
(***************************************************************************)
EXTENDS Integers, FiniteSets, FiniteSetsExt

CONSTANTS
  HeaderSize,    \* sizeof(k_r_malloc_header_t)
  PoolStart, PoolSize,   \* the fixed pool
  VStart, VSize,         \* the virtual pool
  VBases,        \* where the header base of the virtual pool may be
  PageSize,      \* PAGE_SIZE_4K
  Tables,        \* levels of paging structures above a page
  ByteSizes,     \* sizes that are asked for
  PoolMaxUndeleted   \* bound: objects given back with their capability

ASSUME PoolAssumption ==
  /\ {HeaderSize, PageSize} \subseteq Nat \ {0}
  /\ {PoolStart, PoolSize, VStart, VSize, Tables, PoolMaxUndeleted} \cup VBases \subseteq Nat
  /\ ByteSizes \subseteq Nat \ {0}   \* a block of no bytes at the end of the fixed pool would be freed to the wrong heap
  /\ HeaderSize % 2 = 0 /\ PoolStart % (HeaderSize \div 2) = 0   \* the pool is aligned to a word
  /\ PoolStart # 0 /\ PoolStart % HeaderSize <= PoolSize   \* and has room for its padding
  /\ VStart % PageSize = 0 /\ VSize % PageSize = 0 /\ PageSize % HeaderSize = 0
  /\ PoolStart + PoolSize <= VStart
  /\ \A b \in VBases : b < VStart \/ b > VStart + VSize

Heaps == {"fixed", "virtual"}
FixedBase == 0

VARIABLES
  base,       \* k_r_malloc.base, per heap
  list,       \* the free list, per heap: header -> size
  freep,      \* where the next search starts, per heap
  pool_ptr,   \* end of what the heap has been given, per heap
  remaining,  \* of the fixed pool
  pool_top,   \* end of the pages of the virtual pool
  attached,   \* have_virtual_pool
  tables,     \* levels of paging structures that exist
  request,    \* bytes of the allocation that is in morecore, or NoRequest
  blocks,     \* what callers hold: [header, size, bytes]
  undeleted   \* objects that were freed with their capability still in its slot

poolVars == <<base, list, freep, pool_ptr, remaining, pool_top, attached, tables, request,
              blocks, undeleted>>

NoRequest == -1

pool_limit == VStart + VSize
fixed_pool_end == PoolStart + PoolSize

(* mspace_fixed_pool_create() *)
PaddingOfPool == PoolStart % HeaderSize

PoolInit ==
  /\ \E b \in VBases : base = [fixed |-> FixedBase, virtual |-> b]
  /\ list = [h \in Heaps |-> [p \in {base[h]} |-> 0]]
  /\ freep = base
  /\ pool_ptr = [fixed |-> PoolStart + PaddingOfPool, virtual |-> VStart]
  /\ remaining = PoolSize - PaddingOfPool
  /\ pool_top = VStart
  /\ attached = FALSE
  /\ tables = 0
  /\ request = NoRequest
  /\ blocks = {}
  /\ undeleted = 0

-------------------------------------------------------------------------------
(* mspace_k_r_malloc_alloc() and mspace_k_r_malloc_free() on a heap          *)
(* [list, freep].                                                            *)

Heap(h) == [list |-> list[h], freep |-> freep[h]]

NUnits(nbytes) == (nbytes + HeaderSize - 1) \div HeaderSize + 1

After(p, n) == p + n * HeaderSize

Below(f, p) == {q \in DOMAIN f : q < p}
Above(f, p) == {q \in DOMAIN f : q > p}

PrevOf(f, p) == IF Below(f, p) # {} THEN Max(Below(f, p)) ELSE Max(DOMAIN f)
NextOf(f, p) == IF Above(f, p) # {} THEN Min(Above(f, p)) ELSE Min(DOMAIN f)

Without(f, p) == [q \in DOMAIN f \ {p} |-> f[q]]
With(f, p, n) == [q \in DOMAIN f \cup {p} |-> IF q = p THEN n ELSE f[q]]

Fitting(hp, n) == {p \in DOMAIN hp.list : hp.list[p] >= n}

(* The search goes round the list once, from the successor of freep.         *)
FirstFit(hp, n) ==
  LET later == {p \in Fitting(hp, n) : p > hp.freep}
  IN  IF later # {} THEN Min(later) ELSE Min(Fitting(hp, n))

BlockOf(hp, n) ==
  LET p == FirstFit(hp, n) IN After(p, hp.list[p] - n)

Taken(hp, n) ==
  LET p == FirstFit(hp, n)
  IN  [list |-> IF hp.list[p] = n THEN Without(hp.list, p) ELSE [hp.list EXCEPT ![p] = @ - n],
       freep |-> PrevOf(hp.list, p)]

(* Mutant: a block is not joined to its upper neighbour. *)
FreedLowerOnly(hp, bp, size) ==
  LET p == PrevOf(hp.list, bp)
  IN  [list |-> IF After(p, hp.list[p]) = bp THEN [hp.list EXCEPT ![p] = @ + size]
                ELSE With(hp.list, bp, size),
       freep |-> p]

Freed(hp, bp, size) ==
  LET p == PrevOf(hp.list, bp)
      up == NextOf(hp.list, p)
      joined == IF After(bp, size) = up
                THEN With(Without(hp.list, up), bp, size + hp.list[up])
                ELSE With(hp.list, bp, size)
  IN  [list |-> IF After(p, hp.list[p]) = bp
                THEN [Without(joined, bp) EXCEPT ![p] = @ + joined[bp]]
                ELSE joined,
       freep |-> p]

SetHeap(h, hp) ==
  /\ list' = [list EXCEPT ![h] = hp.list]
  /\ freep' = [freep EXCEPT ![h] = hp.freep]

(* The block that serves the request is taken from hp, the heap with what    *)
(* morecore may have given it.                                               *)
Serve(h, hp, bytes) ==
  /\ SetHeap(h, Taken(hp, NUnits(bytes)))
  /\ blocks' = blocks \cup {[header |-> BlockOf(hp, NUnits(bytes)), size |-> NUnits(bytes), bytes |-> bytes]}

(* morecore() of the fixed pool, called when nothing in the list fits        *)
ServeFixed(bytes) ==
  LET n == NUnits(bytes) IN
  \/ /\ Fitting(Heap("fixed"), n) # {}
     /\ Serve("fixed", Heap("fixed"), bytes)
     /\ UNCHANGED <<pool_ptr, remaining>>
  \/ /\ Fitting(Heap("fixed"), n) = {}
     /\ n * HeaderSize > remaining
     /\ UNCHANGED <<list, freep, blocks, pool_ptr, remaining>>
  \/ /\ Fitting(Heap("fixed"), n) = {}
     /\ n * HeaderSize <= remaining
     /\ Serve("fixed", Freed(Heap("fixed"), pool_ptr["fixed"], n), bytes)
     /\ pool_ptr' = [pool_ptr EXCEPT !["fixed"] = After(@, n)]
     /\ remaining' = remaining - n * HeaderSize

-------------------------------------------------------------------------------
(* _mspace_dual_pool_alloc(): the virtual pool first, then the fixed one.    *)

NeedsCore(bytes) == Fitting(Heap("virtual"), NUnits(bytes)) = {}

CoreEnd(bytes) == After(pool_ptr["virtual"], NUnits(bytes))

AllocFixed(bytes) ==
  /\ request = NoRequest /\ bytes \in ByteSizes
  /\ attached => NeedsCore(bytes) /\ CoreEnd(bytes) > pool_limit
  /\ ServeFixed(bytes)
  /\ UNCHANGED <<base, pool_top, attached, tables, request, undeleted>>

AllocVirtual(bytes) ==
  /\ request = NoRequest /\ bytes \in ByteSizes
  /\ attached /\ ~NeedsCore(bytes)
  /\ Serve("virtual", Heap("virtual"), bytes)
  /\ UNCHANGED <<base, pool_ptr, remaining, pool_top, attached, tables, request, undeleted>>

StartMoreCore(bytes) ==
  /\ request = NoRequest /\ bytes \in ByteSizes
  /\ attached /\ NeedsCore(bytes) /\ CoreEnd(bytes) <= pool_limit
  /\ request' = bytes
  /\ UNCHANGED <<base, list, freep, pool_ptr, remaining, pool_top, attached, tables, blocks, undeleted>>

AddsPage == request # NoRequest /\ CoreEnd(request) > pool_top

(* _add_page(): the page is mapped once every level above it exists.         *)
AddTable ==
  /\ AddsPage /\ tables < Tables
  /\ tables' = tables + 1
  /\ UNCHANGED <<base, list, freep, pool_ptr, remaining, pool_top, attached, request, blocks, undeleted>>

AddPage ==
  /\ AddsPage /\ tables = Tables
  /\ pool_top' = pool_top + PageSize
  /\ UNCHANGED <<base, list, freep, pool_ptr, remaining, attached, tables, request, blocks, undeleted>>

(* What is left in its slot when a step of _add_page() fails: nothing        *)
(* without a slot or a frame, the frame when a level is missing or the page  *)
(* is refused, and the paging structure too when that is refused.            *)
LeftBehind == IF tables < Tables THEN {0, 1, 2} ELSE {0, 1}

(* morecore fails: the pages added so far stay, and the fixed pool is tried. *)
AddPageFails ==
  /\ AddsPage
  /\ \E left \in LeftBehind :
       /\ undeleted + left <= PoolMaxUndeleted
       /\ undeleted' = undeleted + left
  /\ request' = NoRequest
  /\ ServeFixed(request)
  /\ UNCHANGED <<base, pool_top, attached, tables>>

FinishMoreCore ==
  /\ request # NoRequest /\ CoreEnd(request) <= pool_top
  /\ Serve("virtual", Freed(Heap("virtual"), pool_ptr["virtual"], NUnits(request)), request)
  /\ pool_ptr' = [pool_ptr EXCEPT !["virtual"] = CoreEnd(request)]
  /\ request' = NoRequest
  /\ UNCHANGED <<base, remaining, pool_top, attached, tables, undeleted>>

(* mspace_dual_pool_attach_virtual() *)
AttachVirtual ==
  /\ request = NoRequest /\ ~attached
  /\ attached' = TRUE
  /\ UNCHANGED <<base, list, freep, pool_ptr, remaining, pool_top, tables, request, blocks, undeleted>>

HeapOf(ptr) == IF PoolStart <= ptr /\ ptr < fixed_pool_end THEN "fixed" ELSE "virtual"

(* _mspace_dual_pool_free(), of the address after the header                 *)
PoolFree(b) ==
  /\ request = NoRequest /\ b \in blocks
  /\ LET h == HeapOf(After(b.header, 1))
     IN  SetHeap(h, Freed(Heap(h), b.header, b.size))
  /\ blocks' = blocks \ {b}
  /\ UNCHANGED <<base, pool_ptr, remaining, pool_top, attached, tables, request, undeleted>>

PoolNext ==
  \/ \E bytes \in ByteSizes : AllocFixed(bytes) \/ AllocVirtual(bytes) \/ StartMoreCore(bytes)
  \/ AddTable \/ AddPage \/ AddPageFails \/ FinishMoreCore
  \/ AttachVirtual
  \/ \E b \in blocks : PoolFree(b)

PoolSpec == PoolInit /\ [][PoolNext]_poolVars

-------------------------------------------------------------------------------
BytesOf(p, n) == p .. After(p, n) - 1

FreeBlocks(h) == {<<p, list[h][p]>> : p \in DOMAIN list[h] \ {base[h]}}

HeldBlocks(h) == {<<b.header, b.size>> : b \in {c \in blocks : (c.header < VStart) = (h = "fixed")}}

HeapStart(h) == IF h = "fixed" THEN PoolStart + PaddingOfPool ELSE VStart

(* However allocations, frees and failed growth interleave, the free blocks *)
(* and the blocks that callers hold tile what each heap was given, aligned, *)
(* each block holds what was asked for, no two free blocks are neighbours,  *)
(* the search always starts at a member of the list, and the heap ends      *)
(* where memory is there: inside the fixed pool, or below the pages mapped. *)
PoolExact ==
  /\ \A h \in Heaps :
       LET all == FreeBlocks(h) \cup HeldBlocks(h) IN
       /\ UNION {BytesOf(b[1], b[2]) : b \in all} = HeapStart(h) .. pool_ptr[h] - 1
       /\ \A b, c \in all : b # c => After(b[1], b[2]) <= c[1] \/ After(c[1], c[2]) <= b[1]
       /\ FreeBlocks(h) \cap HeldBlocks(h) = {}
       /\ \A b \in all : b[2] > 0 /\ b[1] % HeaderSize = 0
       /\ \A b, c \in FreeBlocks(h) : After(b[1], b[2]) # c[1]
       /\ freep[h] \in DOMAIN list[h] /\ base[h] \in DOMAIN list[h] /\ list[h][base[h]] = 0
  /\ \A b \in blocks : After(b.header, 1) + b.bytes <= After(b.header, b.size)
  /\ \A b, c \in blocks : b # c => b.header # c.header
  /\ pool_ptr["fixed"] + remaining = fixed_pool_end
  /\ pool_ptr["virtual"] <= pool_top /\ pool_top <= pool_limit

(* allocman_utspace_free() is called for an object when "every capability   *)
(* to this memory has been deleted", as its documentation asks; a page that *)
(* cannot be mapped is given back with its capability still in its slot.    *)
PoolDeletesFirst == undeleted = 0
===============================================================================
