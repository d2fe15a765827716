-------------------------------- MODULE Elf --------------------------------
(***************************************************************************)
(* The ELF loader of libsel4utils: how the loadable segments of an image   *)
(* become reservations of whole pages, which reservation a page that two   *)
(* segments share belongs to, and what is in the pages at the end.  An     *)
(* image is put together segment by segment and then loaded by one call;   *)
(* fault names the operation of the call that fails, if one does.          *)
(***************************************************************************)
EXTENDS Integers, SequencesExt

CONSTANTS
  PageSize,      \* PAGE_SIZE_4K, in the units that segments are measured in
  NumPages,      \* bound: pages that an image can cover
  MaxSegments    \* bound

ASSUME ElfAssumption == PageSize \in Nat \ {0} /\ NumPages \in Nat /\ MaxSegments \in Nat

Addresses == 0 .. NumPages * PageSize - 1
PageNumbers == 0 .. NumPages - 1

VARIABLES
  image,      \* the program headers of type PT_LOAD, in the file's order
  stage,      \* "file", "loaded", "refused", "fatal", "reserved"
  regions,    \* sel4utils_elf_region_t, sorted
  reserved,   \* the vspace's reservations: region -> pages
  frames,     \* the vspace's pages: page -> its reservation's region
  mem,        \* what the bytes of the mapped pages hold
  loaderSlot  \* the loader's slot: "free", "busy", "dirty" (free with a capability)

elfVars == <<image, stage, regions, reserved, frames, mem, loaderSlot>>

Zero == <<0, 0>>

RoundDown(a) == a - (a % PageSize)
RoundUp(a) == RoundDown(a + PageSize - 1)

SegmentEnd(g) == g.vstart + g.size

(* A function, with some of its values given.                               *)
Over(f, w) == [x \in DOMAIN f \cup DOMAIN w |-> IF x \in DOMAIN w THEN w[x] ELSE f[x]]

ElfNow == [regions |-> regions, res |-> reserved, map |-> frames, mem |-> mem,
           slot |-> loaderSlot, err |-> FALSE, fatal |-> FALSE]

ElfBecomes(s) ==
  /\ regions' = s.regions /\ reserved' = s.res /\ frames' = s.map /\ mem' = s.mem
  /\ loaderSlot' = s.slot /\ UNCHANGED image

-----------------------------------------------------------------------------
(* The regions of an image.                                                 *)

(* Every loadable header gives a region, with its index in the file.        *)
read_regions(img) ==
  [i \in 1 .. Len(img) |->
     [vstart |-> img[i].vstart, size |-> img[i].size, write |-> img[i].write,
      segment |-> i, start |-> 0, bytes |-> 0]]

compare_regions(a, b) ==
  CASE SegmentEnd(a) <= b.vstart -> "below"
    [] SegmentEnd(a) > b.vstart /\ SegmentEnd(b) <= a.vstart -> "above"
    [] OTHER -> "fatal"

Overlapping(rs) ==
  \E i, j \in 1 .. Len(rs) : i # j /\ compare_regions(rs[i], rs[j]) = "fatal"

(* Every region comes after those that are below it.                        *)
Below(rs, i) == {j \in 1 .. Len(rs) : compare_regions(rs[j], rs[i]) = "below"}

Sorted(rs) ==
  [k \in 1 .. Len(rs) |-> rs[CHOOSE i \in 1 .. Len(rs) : Cardinality(Below(rs, i)) = k - 1]]

(* Every region can be read; a shared frame goes to the upper region if     *)
(* only that one writes.                                                    *)
cap_writes_check_move_frame(a, b) == ~a.write /\ b.write

(* The reservation of a region without its last frame.                      *)
WithoutLast(g) == [g EXCEPT !.bytes = @ - PageSize]

(* One region of prepare_reservations; prev is the region before, with the  *)
(* reservation that was computed for it.                                    *)
PrepareOne(s, i) ==
  LET g == s.regions[i]
      top == RoundUp(SegmentEnd(g))
      shares == s.prevEnd > RoundDown(g.vstart)
      move == cap_writes_check_move_frame(s.regions[i - 1], g)
      start == IF shares /\ ~move THEN RoundUp(s.prevEnd + 1) ELSE RoundDown(g.vstart)
      placed == [s EXCEPT !.regions[i] = [@ EXCEPT !.start = start, !.bytes = top - start],
                          !.prevEnd = top]
  IN IF s.fatal THEN s
     ELSE IF ~shares THEN placed
     ELSE IF move
     THEN IF s.regions[i - 1].bytes \in 0 .. PageSize - 1 THEN [s EXCEPT !.fatal = TRUE]
          ELSE [placed EXCEPT !.regions[i - 1] = WithoutLast(@)]
     ELSE [placed EXCEPT !.fatal = RoundUp(g.size) - (top - start) = PageSize]

prepare_reservations(rs) ==
  LET after[i \in 0 .. Len(rs)] ==
        IF i = 0 THEN [regions |-> rs, prevEnd |-> 0, fatal |-> FALSE]
        ELSE PrepareOne(after[i - 1], i)
  IN after[Len(rs)]

PagesOfRegion(g) == {p \in PageNumbers : g.start <= p * PageSize /\ p * PageSize < g.start + g.bytes}

TakenPages(s) == UNION {s.res[i] : i \in DOMAIN s.res}

(* A region without bytes gets no reservation; the k-th one is refused.     *)
CreateReservation(s, i, k) ==
  LET g == s.regions[i] IN
  IF s.err \/ g.bytes = 0 THEN s
  ELSE IF i = k \/ PagesOfRegion(g) \cap TakenPages(s) # {} THEN [s EXCEPT !.err = TRUE]
  ELSE [s EXCEPT !.res = Over(@, [j \in {i} |-> PagesOfRegion(g)])]

(* anywhere: in an empty vspace the reservations follow each other.         *)
ReserveAnywhere(s, i, k) ==
  LET g == s.regions[i]
      first == Cardinality(TakenPages(s)) * PageSize
  IN IF s.err \/ g.bytes = 0 THEN s
     ELSE IF g.bytes < 0 \/ first + g.bytes > NumPages * PageSize THEN [s EXCEPT !.err = TRUE]
     ELSE CreateReservation([s EXCEPT !.regions[i].start = first], i, k)

create_reservations(s, anywhere, k) ==
  LET after[i \in 0 .. Len(s.regions)] ==
        IF i = 0 THEN s
        ELSE IF anywhere THEN ReserveAnywhere(after[i - 1], i, k)
        ELSE CreateReservation(after[i - 1], i, k)
  IN after[Len(s.regions)]

elf_reserve_regions_in_vspace(s, anywhere, k) ==
  LET Reserve(prepared) ==
        IF prepared.fatal THEN [s EXCEPT !.fatal = TRUE]
        ELSE create_reservations([s EXCEPT !.regions = prepared.regions], anywhere, k)
  IN IF Overlapping(read_regions(image)) THEN [s EXCEPT !.fatal = TRUE]
     ELSE Reserve(prepare_reservations(Sorted(read_regions(image))))

-----------------------------------------------------------------------------
(* Loading.  A fault is [op, n]: the n-th operation of its kind fails.      *)

(* Mutant: a page is always taken from the reservation of its own region. *)
ReservationOwn(s, i, p, pos) == i

(* The region whose reservation a page of region i is taken from; 0: none.  *)
ReservationFor(s, i, p, pos) ==
  LET g == s.regions[i]
      least == LET left == g.size - pos IN IF left < PageSize THEN left ELSE PageSize
  IN IF p * PageSize < g.start THEN i - 1
     ELSE IF p * PageSize + least > g.start + g.bytes
     THEN IF i + 1 > Len(s.regions) THEN 0 ELSE i + 1
     ELSE i

(* vspace_new_pages_at_vaddr: the page must be in the reservation given.    *)
NewPageIn(s, r, p, fails) ==
  IF fails \/ r \notin DOMAIN s.res \/ p \notin s.res[r] THEN [s EXCEPT !.err = TRUE]
  ELSE [s EXCEPT !.map = Over(@, [q \in {p} |-> r])]

(* The part of a segment that lies in one page, up to the end of the file.  *)
Copied(g, file, dst) == {a \in dst .. RoundDown(dst) + PageSize - 1 : a - g.vstart < file}

CopyPage(s, g, file, dst) ==
  [s EXCEPT !.mem = Over(@, [a \in Copied(g, file, dst) |-> <<g.segment, a - g.vstart>>])]

(* One page of load_segment.  A frame that cannot be mapped leaves its copy *)
(* in the loader's slot.                                                    *)
LoadPage(s, i, dst, fault) ==
  LET g == s.regions[i]
      p == dst \div PageSize
      FrameFrom(r) ==
        IF r = 0 THEN [s EXCEPT !.err = TRUE]
        ELSE IF p \in DOMAIN s.map THEN s
        ELSE NewPageIn(s, r, p, fault = [op |-> "frame", page |-> p])
      Fill(m) ==
        IF m.err \/ fault = [op |-> "copy", page |-> p] THEN [m EXCEPT !.err = TRUE]
        ELSE IF fault = [op |-> "map", page |-> p] THEN [m EXCEPT !.err = TRUE, !.slot = "dirty"]
        ELSE CopyPage(m, g, image[g.segment].file, dst)
  IN IF s.err THEN s ELSE Fill(FrameFrom(ReservationFor(s, i, p, dst - g.vstart)))

(* The loader's slot is given back after a segment, with what is in it.     *)
Freed(s) == [s EXCEPT !.slot = IF @ = "busy" THEN "free" ELSE @]

(* Page by page, from the one the segment starts in.                        *)
load_segment(s, i, fault) ==
  LET g == s.regions[i]
      first == g.vstart \div PageSize
      after[k \in 0 .. (SegmentEnd(g) - 1) \div PageSize - first + 1] ==
        IF k = 0 THEN [s EXCEPT !.slot = "busy"]
        ELSE LoadPage(after[k - 1], i, IF k = 1 THEN g.vstart ELSE (first + k - 1) * PageSize, fault)
  IN IF image[g.segment].file > g.size \/ fault.op = "slot" THEN [s EXCEPT !.err = TRUE]
     ELSE Freed(after[(SegmentEnd(g) - 1) \div PageSize - first + 1])

load_segments(s, fault) ==
  LET after[i \in 0 .. Len(s.regions)] ==
        IF i = 0 THEN s
        ELSE IF after[i - 1].err THEN after[i - 1] ELSE load_segment(after[i - 1], i, fault)
  IN after[Len(s.regions)]

(* The reservations go where the caller does not want to have them.         *)
sel4utils_elf_load_record_regions(s, keep, fault) ==
  LET Load(r) == IF r.err \/ r.fatal THEN r ELSE load_segments(r, fault)
      Hand(l) == IF l.err \/ l.fatal \/ keep THEN l ELSE [l EXCEPT !.res = <<>>]
  IN Hand(Load(elf_reserve_regions_in_vspace(s, FALSE,
                                             IF fault.op = "reserve" THEN fault.page ELSE 0)))

-----------------------------------------------------------------------------
Faults == [op : {"none", "slot"}, page : {0}] \cup [op : {"frame", "copy", "map"}, page : PageNumbers]
          \cup [op : {"reserve"}, page : 1 .. MaxSegments]

ElfInit ==
  /\ image = <<>> /\ stage = "file" /\ regions = <<>> /\ reserved = <<>>
  /\ frames = <<>> /\ mem = [a \in Addresses |-> Zero] /\ loaderSlot = "free"

(* Two headers come in any order, and their segments may touch, share a     *)
(* page or overlap; bound: a further one lies above them.                   *)
AddSegment(g) ==
  /\ stage = "file" /\ Len(image) < MaxSegments
  /\ SegmentEnd(g) <= NumPages * PageSize
  /\ Len(image) >= 2 => ~Overlapping(image) /\ \A i \in 1 .. Len(image) : SegmentEnd(image[i]) <= g.vstart
  /\ image' = Append(image, g)
  /\ UNCHANGED <<stage, regions, reserved, frames, mem, loaderSlot>>

Outcome(s, done) == IF s.fatal THEN "fatal" ELSE IF s.err THEN "refused" ELSE done

ElfLoad(keep, fault) ==
  /\ stage = "file" /\ image # <<>>
  /\ \E s \in {sel4utils_elf_load_record_regions(ElfNow, keep, fault)} :
       stage' = Outcome(s, "loaded") /\ ElfBecomes(s)

sel4utils_elf_reserve ==
  /\ stage = "file" /\ image # <<>>
  /\ \E s \in {elf_reserve_regions_in_vspace(ElfNow, TRUE, 0)} :
       stage' = Outcome(s, "reserved") /\ ElfBecomes(s)

(* The segments of an image: file bytes, then zeroes.                       *)
Segments ==
  {g \in [vstart : Addresses, size : 1 .. 2 * PageSize, file : 0 .. 2 * PageSize, write : BOOLEAN] :
     g.file \in {g.size, g.size \div 2}}

ElfNext ==
  \/ \E g \in Segments : AddSegment(g)
  \/ \E fault \in Faults : ElfLoad(TRUE, fault)
  \/ ElfLoad(FALSE, [op |-> "none", page |-> 0])
  \/ sel4utils_elf_reserve

ElfSpec == ElfInit /\ [][ElfNext]_elfVars

-----------------------------------------------------------------------------
(* An image that the loader says it has loaded is in memory byte by byte,   *)
(* zero beyond the file's part, even where segments share a page, and a     *)
(* page with a byte of a writable segment can be written.                   *)
LoadedExact ==
  stage = "loaded" =>
    \A i \in 1 .. Len(regions) : LET g == regions[i] IN
      \A a \in g.vstart .. SegmentEnd(g) - 1 :
        /\ mem[a] = IF a - g.vstart < image[g.segment].file
                    THEN <<g.segment, a - g.vstart>> ELSE Zero
        /\ a \div PageSize \in DOMAIN frames
        /\ g.write => regions[frames[a \div PageSize]].write

(* Two segments share a page, and the lower one's reservation keeps it.     *)
KeepsShared(rs) ==
  \E i, j \in 1 .. Len(rs) :
     /\ SegmentEnd(rs[i]) <= rs[j].vstart
     /\ (SegmentEnd(rs[i]) - 1) \div PageSize = rs[j].vstart \div PageSize
     /\ ~cap_writes_check_move_frame(rs[i], rs[j])

(* Unless something fails, every image is loaded whose segments are apart   *)
(* or share pages that go to a writable segment above: the reservations     *)
(* cover all of its pages, and no two claim the same one.                   *)
ReservationsSuffice ==
  stage = "file" /\ image # <<>> /\ ~Overlapping(image) /\ ~KeepsShared(image) =>
    \A s \in {sel4utils_elf_load_record_regions(ElfNow, TRUE, [op |-> "none", page |-> 0])} :
       ~s.err /\ ~s.fatal

(* Every image with segments that can share pages is loaded, byte by byte.  *)
ImagesLoaded == LoadedExact /\ ReservationsSuffice

(* The comment of prepare_reservations: a reservation that does not take    *)
(* the shared frame starts from the first unreserved frame of the segment.  *)
StartsAtFirstUnreserved ==
  regions # <<>> /\ stage # "reserved" =>
    \A i \in 1 .. Len(regions) : \A a \in regions[i].vstart .. SegmentEnd(regions[i]) - 1 :
       \E j \in 1 .. Len(regions) : a \div PageSize \in PagesOfRegion(regions[j])
=============================================================================
