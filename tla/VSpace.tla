------------------------------- MODULE VSpace -------------------------------
(***************************************************************************)
(* The VSpace manager of libsel4utils and the helpers of libsel4vspace.    *)
(* It runs in one thread: a call is one step.  Addresses are counted in 4K *)
(* pages, and the tables have two levels (ia32, aarch32).  The kernel's    *)
(* mappings and the capability slots of the vka are kept beside the        *)
(* manager's tables, so that the two can be compared.                      *)
(*                                                                         *)
(* A call works on a record of the whole state: its loops repeat a step    *)
(* that carries err, the code's error, and dead, which is set where an     *)
(* assertion of the code fails.  An execution that fails an assertion has  *)
(* no further step.                                                        *)
(***************************************************************************)
EXTENDS Integers, SequencesExt

CONSTANTS
  LevelSize,     \* VSPACE_LEVEL_SIZE; a large frame is as big as a level
  NumPages,      \* pages that the top level covers
  KernelStart,   \* KERNEL_RESERVED_START
  FirstPage,     \* where last_allocated starts
  ReserveStart,  \* VSPACE_RESERVE_START, where a self-made vspace keeps levels
  ImageEnd,      \* the image of the task is 0 .. ImageEnd - 1
  BootFrame,     \* a frame that existed before the vspace: boot info
  NumCaps,       \* slots of the vka
  MinLevels,     \* levels there is memory for when it is scarce
  MaxRun,        \* bound: pages of one call
  MaxReservations \* bound: reservations at a time

ASSUME VSpaceAssumption ==
  /\ {NumPages, KernelStart, FirstPage, ReserveStart, ImageEnd, BootFrame, MinLevels} \subseteq Nat
  /\ LevelSize \in Nat \ {0, 1}
  /\ NumPages % LevelSize = 0 /\ KernelStart % LevelSize = 0
  /\ 0 < ImageEnd /\ ImageEnd < ReserveStart
  /\ BootFrame \in ImageEnd .. ReserveStart - 1
  /\ ReserveStart < KernelStart /\ KernelStart < NumPages
  /\ FirstPage \in 0 .. KernelStart - 1
  /\ NumCaps \in Nat \ {0} /\ MaxRun \in Nat \ {0}

EMPTY == 0
RESERVED == -1    \* UINTPTR_MAX
NOWHERE == -1

Pages == 0 .. NumPages - 1
Tables == 0 .. (NumPages \div LevelSize) - 1
Caps == 1 .. NumCaps
Sizes == {1, LevelSize}

VARIABLES
  bootstrap,       \* "own": bootstrapped by itself; "child", "empty": by a loader
  phase,           \* "raw", "up", "gone"
  top,             \* top_level: "empty", "reserved" or "table"
  cap, cookie,     \* the bottom levels, meaningful where top is "table"
  last_allocated,
  reservations,    \* the list, whose order nothing depends on
  levels,          \* levels that can still be created
  slot,            \* vka: "free", "bare" (allocated, nothing in it), "frame", "copy"
  size, at,        \* of a frame capability: pages, and where the kernel maps it
  kpt              \* tables for which the kernel has a page table

vars == <<bootstrap, phase, top, cap, cookie, last_allocated, reservations,
          levels, slot, size, at, kpt>>

Now == [top |-> top, cap |-> cap, cookie |-> cookie, last |-> last_allocated,
        res |-> reservations, levels |-> levels, slot |-> slot, size |-> size,
        at |-> at, kpt |-> kpt, err |-> FALSE, dead |-> FALSE, done |-> 0]

Becomes(s) ==
  /\ ~s.dead
  /\ top' = s.top /\ cap' = s.cap /\ cookie' = s.cookie
  /\ last_allocated' = s.last /\ reservations' = s.res /\ levels' = s.levels
  /\ slot' = s.slot /\ size' = s.size /\ at' = s.at /\ kpt' = s.kpt
  /\ UNCHANGED bootstrap

-----------------------------------------------------------------------------
(* The tables.                                                              *)

INDEX(p) == p \div LevelSize

PagesOf(i) == i * LevelSize .. (i + 1) * LevelSize - 1

(* A loop whose k-th turn is Turn(s, k), after n turns.                     *)
Repeat(Turn(_, _), s, n) ==
  LET after[k \in 0 .. n] == IF k = 0 THEN s ELSE Turn(after[k - 1], k) IN after[n]

(* The top entries of start .. end - 1, and the pages of the range in one.  *)
Entries(start, end) == INDEX(end - 1) - INDEX(start) + 1

PartOf(i, start, end) == PagesOf(i) \cap (start .. end - 1)

Overwritten(f, pages, x) == [p \in Pages |-> IF p \in pages THEN x ELSE f[p]]

get_cap(s, p) == IF s.top[INDEX(p)] = "table" THEN s.cap[p] ELSE 0

get_cookie(s, p) == IF s.top[INDEX(p)] = "table" THEN s.cookie[p] ELSE 0

is_available_range(s, start, end) ==
  \A p \in start .. end - 1 :
     \/ s.top[INDEX(p)] = "empty"
     \/ s.top[INDEX(p)] = "table" /\ s.cap[p] = EMPTY

is_reserved_range(s, start, end) ==
  \A p \in start .. end - 1 :
     \/ s.top[INDEX(p)] = "reserved"
     \/ s.top[INDEX(p)] = "table" /\ s.cap[p] = RESERVED

(* The memory of a level: out of the reserve of a self-made vspace, out of  *)
(* the loader's vspace for the others.                                      *)
alloc_and_map(s) ==
  IF s.levels = 0 THEN [s EXCEPT !.err = TRUE] ELSE [s EXCEPT !.levels = @ - 1]

create_level(s) ==
  IF bootstrap = "own" THEN alloc_and_map(s)
  ELSE IF s.levels = 0 THEN [s EXCEPT !.err = TRUE]
  ELSE [s EXCEPT !.levels = @ - 1]

(* A level whose entries are init.                                          *)
create_bottom_level(s, i, init) ==
  LET t == create_level(s) IN
  IF t.err THEN t
  ELSE [t EXCEPT !.top[i] = "table",
          !.cap = Overwritten(@, PagesOf(i), init),
          !.cookie = Overwritten(@, PagesOf(i), 0)]

(* A bottom level is written page by page up to the first one refused.      *)
WriteBottom(s, pages, refused, c, k) ==
  LET ok == {p \in pages : \A q \in refused : q > p} IN
  [s EXCEPT !.cap = Overwritten(@, ok, c), !.cookie = Overwritten(@, ok, k),
            !.err = ok # pages]

reserve_entries_part(s, i, pages, preserve) ==
  LET Reserved(t) ==
        LET refused == {p \in pages : t.cap[p] = RESERVED \/ (t.cap[p] # EMPTY /\ preserve)}
        IN IF t.err THEN t ELSE WriteBottom(t, pages, refused, RESERVED, 0)
  IN CASE s.err -> s
       [] ~s.err /\ s.top[i] = "reserved" -> [s EXCEPT !.err = TRUE]
       [] ~s.err /\ s.top[i] = "empty" /\ pages = PagesOf(i) ->
            [s EXCEPT !.top[i] = "reserved"]
       [] OTHER -> Reserved(IF s.top[i] = "table" THEN s ELSE create_bottom_level(s, i, EMPTY))

reserve_entries_range(s, start, end, preserve) ==
  Repeat(LAMBDA r, k : LET i == INDEX(start) + k - 1 IN
                       reserve_entries_part(r, i, PartOf(i, start, end), preserve),
         [s EXCEPT !.err = FALSE], Entries(start, end))

(* Mutant: mapped entries are cleared with the reserved ones. *)
clear_entries_part_all(s, i, pages, only_reserved) ==
  IF s.err \/ s.top[i] # "table" THEN s ELSE WriteBottom(s, pages, {}, EMPTY, 0)

clear_entries_part(s, i, pages, only_reserved) ==
  LET refused == {p \in pages : s.cap[p] # RESERVED /\ only_reserved}
  IN CASE s.err \/ s.top[i] = "empty" -> s
       [] ~s.err /\ s.top[i] = "reserved" -> [s EXCEPT !.err = TRUE]
       [] ~s.err /\ s.top[i] = "table" -> WriteBottom(s, pages, refused, EMPTY, 0)

clear_entries_range(s, start, end, only_reserved) ==
  LET LookBack(r) == IF r.err \/ start >= r.last THEN r ELSE [r EXCEPT !.last = start] IN
  LookBack(Repeat(LAMBDA r, k : LET i == INDEX(start) + k - 1 IN
                                clear_entries_part(r, i, PartOf(i, start, end), only_reserved),
                  [s EXCEPT !.err = FALSE], Entries(start, end)))

(* update_entries: a frame of sz pages lies in one level.                   *)
update_entries(s, p, c, sz, k) ==
  LET i == INDEX(p)
      pages == p .. p + sz - 1
      Updated(t) ==
        IF t.err THEN t
        ELSE WriteBottom(t, pages, {q \in pages : t.cap[q] \notin {RESERVED, EMPTY}}, c, k)
  IN Updated(IF s.top[i] = "table" THEN [s EXCEPT !.err = FALSE]
             ELSE create_bottom_level([s EXCEPT !.err = FALSE], i,
                    IF s.top[i] = "reserved" THEN RESERVED ELSE EMPTY))

-----------------------------------------------------------------------------
(* The kernel and the vka, as the manager uses them.                        *)

FreeSlots(s) == {c \in Caps : s.slot[c] = "free"}

TakeSlot(s) == CHOOSE c \in FreeSlots(s) : \A d \in FreeSlots(s) : c <= d

MapsPage(s, c, p) == s.at[c] # NOWHERE /\ p \in s.at[c] .. s.at[c] + s.size[c] - 1

(* The kernel refuses an address in use, and a large frame where it has a   *)
(* page table.                                                              *)
KernelRefuses(s, c, p, sz) ==
  \/ s.at[c] # NOWHERE
  \/ \E d \in Caps, q \in p .. p + sz - 1 : MapsPage(s, d, q)
  \/ sz # 1 /\ INDEX(p) \in s.kpt

(* The loop of mapping.c: a missing page table is allocated, if it can be   *)
(* (mem), and mapped before the frame is tried again.                       *)
WithPageTable(s, p, sz, mem) ==
  IF sz # 1 \/ INDEX(p) \in s.kpt THEN s
  ELSE IF mem THEN [s EXCEPT !.kpt = @ \cup {INDEX(p)}]
  ELSE [s EXCEPT !.err = TRUE]

map_page(s, c, p, sz, mem) ==
  LET Mapped(t) == IF t.err THEN t ELSE [t EXCEPT !.at[c] = p, !.size[c] = sz] IN
  IF KernelRefuses(s, c, p, sz) THEN [s EXCEPT !.err = TRUE]
  ELSE Mapped(WithPageTable([s EXCEPT !.err = FALSE], p, sz, mem))

FreeCap(s, c) == [s EXCEPT !.slot[c] = "free", !.at[c] = NOWHERE, !.size[c] = 1]

-----------------------------------------------------------------------------
(* The reservations.                                                        *)

find_reserve(s, p) == {r \in s.res : p >= r.start /\ p < r.end}

check_reservation(s, r, start, end) ==
  start >= r.start /\ end <= r.end /\ is_reserved_range(s, start, end)

(* find_range: first fit above last_allocated; the search fails as soon as  *)
(* it reaches the kernel's region, even with a range that ends there.       *)
RangesFrom(s, n, sz) ==
  {v \in s.last .. KernelStart - 1 :
     v % sz = 0 /\ v + n * sz < KernelStart /\ is_available_range(s, v, v + n * sz)}

find_range(s, n, sz) ==
  CHOOSE v \in RangesFrom(s, n, sz) : \A w \in RangesFrom(s, n, sz) : v <= w

TookRange(s, n, sz) == [s EXCEPT !.last = find_range(s, n, sz) + n * sz]

(* An assertion that the last operation succeeded.                          *)
Succeeded(s) == [s EXCEPT !.dead = @ \/ s.err, !.err = FALSE]

(* perform_reservation asserts that the entries could be reserved.          *)
perform_reservation(s, start, n, deferred) ==
  [Succeeded(reserve_entries_range(s, start, start + n, TRUE)) EXCEPT
     !.res = @ \cup {[start |-> start, end |-> start + n, deferred |-> deferred]}]

free_reservation(s, r) ==
  LET t == clear_entries_range(s, r.start, r.end, TRUE) IN
  [t EXCEPT !.res = @ \ {r}, !.err = s.err]

-----------------------------------------------------------------------------
(* Mapping, creating and unmapping pages.                                   *)

(* Mutant: the page of a reservation is left empty. *)
UnmapOneForgetsReserve(s, p, sz, reserved, free) ==
  LET c == get_cap(s, p)
      t == IF free THEN FreeCap(s, c) ELSE [s EXCEPT !.at[c] = NOWHERE, !.size[c] = 1]
  IN IF c \notin Caps THEN [s EXCEPT !.dead = TRUE]
     ELSE clear_entries_range(t, p, p + sz, FALSE)

(* One page of sel4utils_unmap_pages, in a reservation or not: afterwards   *)
(* its entry must have changed.                                             *)
UnmapOne(s, p, sz, reserved, free) ==
  LET c == get_cap(s, p)
      Emptied(t) == IF reserved THEN reserve_entries_range(t, p, p + sz, FALSE)
                    ELSE clear_entries_range(t, p, p + sz, FALSE)
      Changed(t) == [t EXCEPT !.dead = @ \/ get_cap(t, p) = c]
  IN IF c \notin Caps THEN [s EXCEPT !.dead = TRUE]
     ELSE Changed(Emptied(IF free THEN FreeCap(s, c)
                          ELSE [s EXCEPT !.at[c] = NOWHERE, !.size[c] = 1]))

unmap_pages(s, v, n, sz, free) ==
  LET reserved == find_reserve(s, v) # {} IN
  Repeat(LAMBDA r, k : IF r.dead THEN r ELSE UnmapOne(r, v + (k - 1) * sz, sz, reserved, free),
         s, n)

(* map_pages_at_vaddr: stops at the first error, and undoes nothing.        *)
MapOne(s, c, cookies, p, sz, mem) ==
  LET Recorded(m) == IF m.err THEN m ELSE update_entries(m, p, c, sz, IF cookies THEN c ELSE 0)
  IN IF s.err THEN s ELSE Recorded(map_page(s, c, p, sz, mem))

map_pages_at_vaddr(s, caps, cookies, v, sz, mem) ==
  Repeat(LAMBDA r, k : MapOne(r, caps[k], cookies, v + (k - 1) * sz, sz, mem),
         [s EXCEPT !.err = FALSE], Len(caps))

(* Mutant: a page that cannot be mapped stays in its slot. *)
NewPageLeavesSlot(s, k, v, sz, mem) ==
  LET c == TakeSlot(s)
      p == v + (k - 1) * sz
      Recorded(m) == IF m.err THEN m
                     ELSE [update_entries(m, p, c, sz, c) EXCEPT !.done = k]
  IN IF s.done < k - 1 THEN s
     ELSE IF FreeSlots(s) = {} THEN [s EXCEPT !.err = TRUE]
     ELSE Recorded(map_page([s EXCEPT !.slot[c] = "frame"], c, p, sz, mem))

(* One page of new_pages_at_vaddr; done counts the pages, and the error of  *)
(* update_entries does not end the loop.                                    *)
NewPage(s, k, v, sz, mem) ==
  LET c == TakeSlot(s)
      p == v + (k - 1) * sz
      Recorded(m) == IF m.err THEN [FreeCap(m, c) EXCEPT !.err = TRUE]
                     ELSE [update_entries(m, p, c, sz, c) EXCEPT !.done = k]
  IN IF s.done < k - 1 THEN s
     ELSE IF FreeSlots(s) = {} THEN [s EXCEPT !.err = TRUE]
     ELSE Recorded(map_page([s EXCEPT !.slot[c] = "frame"], c, p, sz, mem))

new_pages_at_vaddr(s, v, n, sz, mem) ==
  LET Undone(r) == IF r.done < n THEN unmap_pages(r, v, r.done, sz, TRUE) ELSE r
      Ended(r) == [Undone(r) EXCEPT !.err = r.err, !.done = 0]
  IN Ended(Repeat(LAMBDA q, k : NewPage(q, k, v, sz, mem),
                  [s EXCEPT !.err = FALSE, !.done = 0], n))

(* One page of sel4utils_share_mem_at_vaddr, from this vspace to itself:    *)
(* a copy of the capability is mapped, and an error leaves the slot behind. *)
SharePage(s, k, from, v, sz, mem) ==
  LET f == from + (k - 1) * sz
      p == v + (k - 1) * sz
      c == TakeSlot(s)
      Recorded(m) == IF m.err THEN m
                     ELSE [update_entries(m, p, c, sz, 0) EXCEPT !.err = FALSE, !.done = k]
  IN IF s.done < k - 1 THEN s
     ELSE IF get_cap(s, f) = 0 \/ FreeSlots(s) = {} THEN [s EXCEPT !.err = TRUE]
     ELSE IF get_cap(s, f) = RESERVED THEN [s EXCEPT !.err = TRUE, !.slot[c] = "bare"]
     ELSE Recorded(map_page([s EXCEPT !.slot[c] = "copy"], c, p, sz, mem))

share_mem_at_vaddr(s, from, v, n, sz, mem) ==
  LET Undone(r) == IF r.err THEN unmap_pages(r, v, r.done, sz, TRUE) ELSE r
      Ended(r) == [Undone(r) EXCEPT !.err = r.err, !.done = 0]
  IN Ended(Repeat(LAMBDA q, k : SharePage(q, k, from, v, sz, mem),
                  [s EXCEPT !.err = FALSE, !.done = 0], n))

-----------------------------------------------------------------------------
(* The creation of a vspace.                                                *)

(* reserve_range of the bootstrap: a range that is reserved already is fine.*)
reserve_range_part(s, i, pages) ==
  LET Reserved(t) == IF t.err THEN t ELSE WriteBottom(t, pages, {}, RESERVED, 0)
  IN IF s.err \/ s.top[i] = "reserved" THEN s
     ELSE IF s.top[i] = "empty" /\ pages = PagesOf(i) THEN [s EXCEPT !.top[i] = "reserved"]
     ELSE Reserved(IF s.top[i] = "table" THEN s ELSE create_bottom_level(s, i, EMPTY))

reserve_range(s, start, end) ==
  Repeat(LAMBDA r, k : LET i == INDEX(start) + k - 1 IN
                       reserve_range_part(r, i, PartOf(i, start, end)),
         s, Entries(start, end))

bootstrap_page_table(s) == reserve_range(s, ReserveStart, KernelStart)

(* Errors that earlier ranges have met are kept.                            *)
reserve_initial_task_regions(s) ==
  reserve_range(reserve_range(s, 0, ImageEnd), BootFrame, BootFrame + 1)

common_init_post_bootstrap(s) ==
  [s EXCEPT !.top = [i \in Tables |-> IF i >= INDEX(KernelStart) THEN "reserved" ELSE @[i]]]

Init ==
  /\ bootstrap \in {"own", "child", "empty"}
  /\ phase = "raw"
  /\ top = [i \in Tables |-> "empty"]
  /\ cap = [p \in Pages |-> EMPTY]
  /\ cookie = [p \in Pages |-> 0]
  /\ last_allocated = FirstPage
  /\ reservations = {}
  /\ levels \in IF bootstrap = "empty" THEN {MinLevels} ELSE {INDEX(KernelStart)}
  /\ slot = [c \in Caps |-> "free"]
  /\ size = [c \in Caps |-> 1]
  /\ at = [c \in Caps |-> NOWHERE]
  /\ kpt = {}

(* sel4utils_bootstrap_vspace, in a task whose own mappings are not known.  *)
BootstrapVSpace ==
  /\ phase = "raw" /\ bootstrap = "own"
  /\ \E r \in {reserve_initial_task_regions(bootstrap_page_table(Now))} :
       /\ Becomes(IF r.err THEN r ELSE common_init_post_bootstrap(r))
       /\ phase' = IF r.err THEN "gone" ELSE "up"

(* sel4utils_get_vspace and sel4utils_get_empty_vspace: the loader's vspace *)
(* gives the top level; an empty vspace has no kernel region.               *)
GetVSpace ==
  /\ phase = "raw" /\ bootstrap \in {"child", "empty"}
  /\ phase' = "up"
  /\ Becomes(IF bootstrap = "child" THEN common_init_post_bootstrap(Now) ELSE Now)

-----------------------------------------------------------------------------
(* The interface.  Its callers give ranges in the user part of the vspace.  *)

Call(s) == phase = "up" /\ Becomes(s) /\ UNCHANGED phase

(* Where n pages cannot be had, the entries of the first are cleared.       *)
ClearedFirst(r, v, sz) ==
  IF r.err THEN [clear_entries_range(r, v, v + sz, FALSE) EXCEPT !.err = TRUE] ELSE r

new_pages(s, n, sz, mem) ==
  LET v == find_range(s, n, sz) IN
  IF RangesFrom(s, n, sz) = {} THEN [s EXCEPT !.err = TRUE]
  ELSE ClearedFirst(new_pages_at_vaddr(TookRange(s, n, sz), v, n, sz, mem), v, sz)

NewPages(n, sz, mem) == Call(new_pages(Now, n, sz, mem))

NewPagesAt(r, v, n, sz, mem) ==
  LET s == Now IN
  Call(IF check_reservation(s, r, v, v + n * sz)
              THEN new_pages_at_vaddr(s, v, n, sz, mem) ELSE [s EXCEPT !.err = TRUE])

(* The caller brings frames that it allocated, one or two of them.          *)
Brought(s, n) ==
  LET c == TakeSlot(s)
      d == TakeSlot([s EXCEPT !.slot[c] = "frame"])
  IN IF n = 1 THEN <<c>> ELSE <<c, d>>

Bringing(s, caps) ==
  [s EXCEPT !.slot = [c \in Caps |-> IF c \in ToSet(caps) THEN "frame" ELSE @[c]]]

map_pages(s, caps, cookies, sz, mem) ==
  LET n == Len(caps)
      v == find_range(s, n, sz)
  IN IF RangesFrom(s, n, sz) = {} THEN [s EXCEPT !.err = TRUE]
     ELSE ClearedFirst(map_pages_at_vaddr(TookRange(s, n, sz), caps, cookies, v, sz, mem), v, sz)

MapPages(n, cookies, sz, mem) ==
  LET s == Now
      caps == Brought(s, n)
  IN /\ Cardinality(FreeSlots(s)) >= n
     /\ Call(map_pages(Bringing(s, caps), caps, cookies, sz, mem))

(* The caller frees a frame that it brought and that no table names.        *)
CallerFrees(c) ==
  /\ slot[c] = "frame" /\ \A p \in Pages : get_cap(Now, p) # c
  /\ Call(FreeCap(Now, c))

(* sel4utils_map_pages_at_vaddr wants a reservation with rights, the        *)
(* deferred variant one without.                                            *)
MapPagesAt(r, deferred, v, n, sz, mem) ==
  LET s == Now
      caps == Brought(s, n)
  IN /\ Cardinality(FreeSlots(s)) >= n
     /\ Call(IF check_reservation(s, r, v, v + n * sz) /\ r.deferred = deferred
             THEN map_pages_at_vaddr(Bringing(s, caps), caps, FALSE, v, sz, mem)
             ELSE [s EXCEPT !.err = TRUE])

(* Its callers unmap what is mapped, all of it in or out of a reservation.  *)
UnmapPages(v, n, sz, free) ==
  /\ \A k \in 1 .. n : LET p == v + (k - 1) * sz IN
       /\ get_cap(Now, p) \in Caps
       /\ at[get_cap(Now, p)] = p /\ size[get_cap(Now, p)] = sz
       /\ (free => cookie[p] # 0 \/ slot[get_cap(Now, p)] = "copy")
       /\ \A q \in p .. p + sz - 1 : (find_reserve(Now, q) = {}) = (find_reserve(Now, v) = {})
  /\ Call(unmap_pages(Now, v, n, sz, free))

reserve_range_aligned(s, n, sz) ==
  LET k == (n + sz - 1) \div sz
      v == find_range(s, k, sz)
  IN IF RangesFrom(s, k, sz) = {} THEN [s EXCEPT !.err = TRUE]
     ELSE perform_reservation(TookRange(s, k, sz), v, n, FALSE)

Reserve(n, sz) ==
  /\ Cardinality(reservations) < MaxReservations
  /\ Call(reserve_range_aligned(Now, n, sz))

ReserveAt(v, n, deferred) ==
  LET s == Now IN
  /\ Cardinality(reservations) < MaxReservations
  /\ Call(IF is_available_range(s, v, v + n)
                     THEN perform_reservation(s, v, n, deferred)
                     ELSE [s EXCEPT !.err = TRUE])

FreeReservation(r) == Call(free_reservation(Now, r))

(* sel4utils_move_resize_reservation, to n pages at v: the pages that are   *)
(* new to the reservation, and those that leave it.                         *)
GrowBy(s, p, r) ==
  IF p \in r.start .. r.end - 1 THEN s ELSE Succeeded(reserve_entries_range(s, p, p + 1, TRUE))

ShrinkBy(s, p, new) ==
  IF p \in new \/ get_cap(s, p) # RESERVED THEN s ELSE clear_entries_range(s, p, p + 1, TRUE)

move_resize(s, r, v, n) ==
  LET grown == Repeat(LAMBDA t, k : GrowBy(t, v + k - 1, r), s, n)
      cleared == Repeat(LAMBDA t, k : ShrinkBy(t, r.start + k - 1, v .. v + n - 1),
                        grown, r.end - r.start)
  IN IF \/ v < r.start /\ ~is_available_range(s, v, r.start)
        \/ v + n > r.end /\ ~is_available_range(s, r.end, v + n)
     THEN [s EXCEPT !.err = TRUE]
     ELSE [cleared EXCEPT !.err = FALSE,
             !.res = (@ \ {r}) \cup {[r EXCEPT !.start = v, !.end = v + n]}]

MoveResize(r, v, n) ==
  /\ Call(move_resize(Now, r, v, n))

(* free_page: a page without a cookie stays, and so does a large one, whose *)
(* size in bits is computed as a multiple of 12.                            *)
free_page(s, p) ==
  IF get_cookie(s, p) = 0 \/ (p + 1 \in Pages /\ get_cookie(s, p + 1) = get_cookie(s, p))
  THEN s ELSE unmap_pages(s, p, 1, 1, TRUE)

(* Every reservation is freed, and what pages are the manager's own.  The   *)
(* levels go with what they record; the frames are as the walk left them.   *)
tear_down(s) ==
  LET freed == FoldSet(LAMBDA r, t : free_reservation(t, r), s, s.res)
      walked == Repeat(LAMBDA t, k : IF get_cap(t, k - 1) \in Caps /\ ~t.dead
                                     THEN free_page(t, k - 1) ELSE t,
                       freed, NumPages)
  IN [s EXCEPT !.top = [i \in Tables |-> "empty"], !.res = {},
        !.cap = [p \in Pages |-> EMPTY], !.cookie = [p \in Pages |-> 0],
        !.slot = walked.slot, !.at = walked.at, !.size = walked.size, !.dead = walked.dead]

(* A self-made vspace cannot be torn down.                                  *)
TearDown ==
  /\ phase = "up" /\ bootstrap # "own"
  /\ Becomes(tear_down(Now))
  /\ phase' = "gone"

-----------------------------------------------------------------------------
(* The helpers of libsel4vspace and of mapping.c.                           *)

(* A call stops at an error and at an assertion.                            *)
Unless(s, Op(_)) == IF s.err \/ s.dead THEN s ELSE Op(s)

(* vspace_new_sized_stack: a guard page under n pages.                      *)
NewSizedStack(n, mem) ==
  LET v == find_range(Now, n + 1, 1)
      reservation == [start |-> v, end |-> v + n + 1, deferred |-> FALSE]
      Undone(p) == IF p.dead \/ ~p.err THEN p ELSE free_reservation(p, reservation)
  IN /\ Cardinality(reservations) < MaxReservations
     /\ Call(Unless(reserve_range_aligned(Now, n + 1, 1),
                    LAMBDA r : Undone(new_pages_at_vaddr(r, v + 1, n, 1, mem))))

(* vspace_free_sized_stack, of a stack that fills its reservation.          *)
FreeSizedStack(r) ==
  /\ \A p \in r.start + 1 .. r.end - 1 :
       get_cap(Now, p) \in Caps /\ cookie[p] # 0 /\ size[get_cap(Now, p)] = 1
  /\ r.end > r.start + 1
  /\ LET Freed(u) == IF u.dead THEN u ELSE free_reservation(u, r) IN
     Call(Freed(unmap_pages(Now, r.start + 1, r.end - r.start - 1, 1, TRUE)))

(* vspace_share_mem, here within one vspace: the reservation that it makes  *)
(* is freed whether or not the pages could be mapped.                       *)
share_mem(s, from, n, sz, mem) ==
  LET v == find_range(s, n, sz)
      reservation == [start |-> v, end |-> v + n * sz, deferred |-> FALSE]
      Freed(m) == IF m.dead THEN m ELSE free_reservation(m, reservation)
  IN Unless(reserve_range_aligned(s, n * sz, sz),
            LAMBDA r : Freed(share_mem_at_vaddr(r, from, v, n, sz, mem)))

ShareMem(from, n, sz, mem) ==
  /\ get_cap(Now, from) \in Caps
  /\ \A k \in 0 .. n - 1 : get_cap(Now, from + k * sz) \in Caps =>
       size[get_cap(Now, from + k * sz)] = sz
  /\ Call(share_mem(Now, from, n, sz, mem))

(* vspace_access_page_with_callback: the page is shared, used and unmapped. *)
AccessPage(p, mem) ==
  LET v == find_range(Now, 1, 1) IN
  /\ get_cap(Now, p) \in Caps /\ size[get_cap(Now, p)] = 1
  /\ Call(Unless(share_mem(Now, p, 1, 1, mem), LAMBDA s : unmap_pages(s, v, 1, 1, TRUE)))

(* vspace_new_pages_with_config, where the caller gives no address: the     *)
(* reservation goes, the pages stay.                                        *)
NewPagesWithConfig(n, sz, mem) ==
  LET v == find_range(Now, n, sz)
      reservation == [start |-> v, end |-> v + n * sz, deferred |-> FALSE]
      Freed(p) == IF p.dead THEN p ELSE free_reservation(p, reservation)
  IN Call(Unless(reserve_range_aligned(Now, n * sz, sz),
                 LAMBDA r : Freed(new_pages_at_vaddr(r, v, n, sz, mem))))

(* sel4utils_dup_and_map; sel4utils_unmap_dup unmaps, and frees the copy.   *)
DupAndMap(p, mem) ==
  LET c == TakeSlot(Now)
      Undone(m) == IF m.err THEN [FreeCap(m, c) EXCEPT !.err = TRUE] ELSE m
  IN /\ get_cap(Now, p) \in Caps /\ size[get_cap(Now, p)] = 1
     /\ FreeSlots(Now) # {}
     /\ Call(Undone(map_pages([Now EXCEPT !.slot[c] = "copy"], <<c>>, FALSE, 1, mem)))

UnmapDup(p) ==
  LET c == get_cap(Now, p) IN
  /\ c \in Caps /\ slot[c] = "copy" /\ size[c] = 1
  /\ Call(FreeCap(unmap_pages(Now, p, 1, 1, FALSE), c))

(* sel4utils_bootstrap_clone_into_vspace: this vspace is the clone.  The    *)
(* k-th page cannot be mapped into the current one, which leaves the slot   *)
(* with the copied capability; 0: all can.                                  *)
ClonePage(s, p, mem) == IF s.err THEN s ELSE new_pages_at_vaddr(s, p, 1, 1, mem)

CloneInto(r, k, mem) ==
  LET c == TakeSlot(Now)
      n == IF k = 0 THEN r.end - r.start ELSE k
      Created(q) == Repeat(LAMBDA t, j : ClonePage(t, r.start + j - 1, mem), q, n)
  IN /\ FreeSlots(Now) # {} /\ is_reserved_range(Now, r.start, r.end)
     /\ k \in 0 .. r.end - r.start
     /\ \E f \in {Created([Now EXCEPT !.slot[c] = "bare"])} :
          /\ ~f.err
          /\ Call([f EXCEPT !.slot[c] = IF k = 0 THEN "free" ELSE "copy", !.err = k # 0])

(* The places at which n frames of sz pages fit below the kernel's region.  *)
Places(n, sz) == {v \in Pages : v % sz = 0 /\ v + n * sz <= KernelStart}

(* Whether a page table can be allocated matters where one is missing.      *)
Memory == IF kpt = 0 .. INDEX(KernelStart) - 1 THEN {TRUE} ELSE BOOLEAN

(* Whether rights are deferred decides which call may map into a            *)
(* reservation, and nothing else: one kind of vspace makes such ones.       *)
Next ==
  \/ BootstrapVSpace \/ GetVSpace \/ TearDown
  \/ \E n \in 1 .. MaxRun, sz \in Sizes :
       \/ Reserve(n, sz)
       \/ \E mem \in Memory :
            \/ NewPages(n, sz, mem)
            \/ NewPagesWithConfig(n, sz, mem)
            \/ sz = 1 /\ NewSizedStack(n, mem)
            \/ \E v \in Places(n, sz) : ShareMem(v, n, sz, mem)
       \/ \E mem \in Memory, cookies \in BOOLEAN : n <= 2 /\ MapPages(n, cookies, sz, mem)
       \/ \E v \in Places(n, sz), free \in BOOLEAN : UnmapPages(v, n, sz, free)
       \/ \E r \in reservations, mem \in Memory : \E v \in Places(n, sz) \cap r.start .. r.end - 1 :
            \/ NewPagesAt(r, v, n, sz, mem)
            \/ \E deferred \in BOOLEAN : n <= 2 /\ MapPagesAt(r, deferred, v, n, sz, mem)
  \/ \E n \in 1 .. MaxRun : \E v \in Places(n, 1) :
       \/ \E deferred \in BOOLEAN : (deferred => bootstrap = "own") /\ ReserveAt(v, n, deferred)
       \/ \E r \in reservations : MoveResize(r, v, n)
  \/ \E r \in reservations : \/ FreeReservation(r) \/ FreeSizedStack(r)
                             \/ \E k \in 0 .. MaxRun, mem \in Memory : CloneInto(r, k, mem)
  \/ \E c \in Caps : CallerFrees(c)
  \/ \E p \in 0 .. KernelStart - 1 :
       \/ UnmapDup(p)
       \/ \E mem \in Memory : AccessPage(p, mem) \/ DupAndMap(p, mem)

Spec == Init /\ [][Next]_vars

-----------------------------------------------------------------------------
(* Reservations keep apart, and none of their pages is ever handed out by   *)
(* find_range; what a table records is a live capability that the kernel    *)
(* maps at that page; and what the bootstrap reserved stays reserved.       *)
VSpaceInv ==
  /\ \A r \in reservations :
       /\ r.start >= 0 /\ r.start < r.end /\ r.end <= KernelStart
       /\ \A q \in reservations : q = r \/ q.end <= r.start \/ r.end <= q.start
       /\ \A p \in r.start .. r.end - 1 : ~is_available_range(Now, p, p + 1)
  /\ \A p \in Pages : LET c == get_cap(Now, p) IN
       c \in Caps => /\ slot[c] \in {"frame", "copy"} /\ MapsPage(Now, c, p)
                     /\ cookie[p] \in {0, c}
  /\ phase = "up" => is_reserved_range(Now,
                       IF bootstrap = "empty" THEN NumPages ELSE KernelStart, NumPages)
  /\ phase = "up" /\ bootstrap = "own" =>
       /\ is_reserved_range(Now, 0, ImageEnd) /\ is_reserved_range(Now, BootFrame, BootFrame + 1)
       /\ is_reserved_range(Now, ReserveStart, KernelStart)

(* A call that creates pages and fails, at whichever page, leaves nothing   *)
(* mapped, recorded or allocated, unless bookkeeping memory has run out.    *)
AllOrNothing ==
  phase = "up" => \A n \in 1 .. MaxRun, sz \in Sizes, mem \in BOOLEAN :
     \A r \in {new_pages(Now, n, sz, mem)} : r.err /\ ~r.dead /\ r.levels > 0 =>
       /\ r.slot = slot /\ r.at = at
       /\ \A p \in Pages : get_cap(r, p) \in Caps => get_cap(r, p) = get_cap(Now, p)

(* A recorded page leaves the tables only together with its mapping in the  *)
(* kernel, or when the vspace is torn down: no call that maps, reserves,    *)
(* moves or shares overwrites another's page.                               *)
MappingsKept ==
  [][\A p \in Pages : LET c == get_cap(Now, p) IN
       c \in Caps => \/ get_cap(Now, p)' = c
                     \/ at'[c] = NOWHERE
                     \/ phase' = "gone"]_vars

(* vspace.h: freeing a reservation unreserves every reserved address in it. *)
FreedIsUnreserved ==
  phase = "up" /\ bootstrap = "child" => \A p \in 0 .. KernelStart - 1 :
     is_reserved_range(Now, p, p + 1) => find_reserve(Now, p) # {}
=============================================================================
