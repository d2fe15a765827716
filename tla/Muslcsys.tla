------------------------------ MODULE Muslcsys ------------------------------
(***************************************************************************)
(* The system calls that libsel4muslcsys serves for the C library: the     *)
(* table they are dispatched through, the descriptors of files in a CPIO   *)
(* archive, and the memory behind brk, mmap and mremap, taken either from  *)
(* an area of fixed size or from a vspace.  The application is the         *)
(* environment; what it may rely on after each call is kept beside the     *)
(* state of the library (view, granted).                                   *)
(***************************************************************************)
EXTENDS Integers, SequencesExt

CONSTANTS
  TableCalls,    \* numbers below the size of syscall_table
  SparseCalls,   \* numbers in sparse_syscall_table
  FileSizes,     \* the files of the archive: name -> size
  IntMax,        \* INT_MAX
  FirstUserFd,   \* FIRST_USER_FD
  InitialFds,    \* num_fds at the start
  MaxFds,        \* bound
  Reads,         \* lengths of two buffers to read into; one of length 0 is not there
  Seeks,         \* offsets to seek to
  Page,          \* PAGE_SIZE_4K
  AreaSizes,     \* morecore_size
  Lengths,       \* lengths that mmap is called with
  VPages,        \* bound: pages of the vspace, page 0 is never mapped
  BrkPages,      \* pages of muslc_brk_reservation
  PageCounts,    \* sizes that mmap and mremap are called with, in pages
  MaxRegions     \* bound: regions that the application holds

ASSUME MuslcAssumption ==
  /\ TableCalls \cap SparseCalls = {}
  /\ FirstUserFd \in Nat /\ InitialFds \in Nat /\ MaxFds \in Nat
  /\ FirstUserFd < InitialFds /\ InitialFds <= MaxFds
  /\ IntMax \in Nat /\ FileSizes \in [DOMAIN FileSizes -> 0 .. IntMax]
  /\ Reads \subseteq Nat \X Nat /\ Seeks \subseteq Int
  /\ Page \in Nat \ {0} /\ AreaSizes \subseteq Nat /\ Lengths \subseteq Nat \ {0}
  /\ VPages \in Nat /\ BrkPages \subseteq 1 .. VPages /\ BrkPages # {}
  /\ PageCounts \subseteq Nat \ {0} /\ MaxRegions \in Nat

VARIABLES
  handlers, installed,               \* the tables, and what was installed last
  happened,                          \* calls that a boot handler has recorded
  fd_table, free_fd_table, num_fds,  \* sys_io.c; an empty fd_table is not allocated
  dangling,                          \* ... or freed but not NULL, free_fd_table is NULL
  view,                              \* descriptors that the application has open
  area,                              \* the static heap
  dyn,                               \* the dynamic heap
  granted,                           \* memory that the application was given
  halted                             \* an assertion failed

muslcVars == <<handlers, installed, happened, fd_table, free_fd_table, num_fds, dangling, view,
               area, dyn, granted, halted>>

sysVars == <<handlers, installed, happened>>
fileVars == <<fd_table, free_fd_table, num_fds, dangling, view>>
heapVars == <<area, dyn, granted>>

-----------------------------------------------------------------------------
(* vsyscall.c *)

BootHandler(n) == <<"boot", n>>
SysHandler(n) == <<"sys", n>>

(* Installing returns the handler there was; in the sparse table that one   *)
(* is also stored again.                                                    *)
muslcsys_install_syscall(n, handler) ==
  /\ handlers' = IF n \in SparseCalls THEN handlers ELSE [handlers EXCEPT ![n] = handler]
  /\ installed' = [installed EXCEPT ![n] = handler]

(* The constructor that replaces the handlers of the boot phase.            *)
init_syscall_table ==
  \E n \in TableCalls \cup SparseCalls :
    /\ installed[n] = BootHandler(n)
    /\ muslcsys_install_syscall(n, SysHandler(n))
    /\ UNCHANGED <<happened, fileVars, heapVars, halted>>

(* The handler that a call runs.                                            *)
sel4_vsyscall(n) == handlers[n]

(* boot_set_thread_area and boot_set_tid_address record one call; a second  *)
(* one is an error.                                                         *)
boot_set ==
  \E n \in TableCalls \cup SparseCalls :
    /\ sel4_vsyscall(n) = BootHandler(n) /\ n \notin happened
    /\ happened' = happened \cup {n}
    /\ UNCHANGED <<handlers, installed, fileVars, heapVars, halted>>

-----------------------------------------------------------------------------
(* sys_io.c *)

UserFds(n) == FirstUserFd .. n - 1
FreeEntry == [type |-> "free", file |-> 0, current |-> 0]

(* add_free_fd, on a state [table, free]: the entry is marked free and the  *)
(* descriptor pushed.                                                       *)
add_free_fd(t, fd) == [table |-> [t.table EXCEPT ![fd] = FreeEntry], free |-> Append(t.free, fd)]

(* The loop that frees every descriptor, from the first one on.             *)
allocate_file_table ==
  [table |-> [fd \in UserFds(num_fds) |-> FreeEntry],
   free |-> [k \in 1 .. num_fds - FirstUserFd |-> FirstUserFd + k - 1]]

(* The tables when a call needs them: made by the first one.                *)
Tables == IF fd_table = <<>> THEN allocate_file_table ELSE [table |-> fd_table, free |-> free_fd_table]

SetTables(t) == fd_table' = t.table /\ free_fd_table' = t.free

(* get_free_fd, and the entry that its caller fills in.                     *)
get_free_fd(t, fd, f) ==
  [table |-> [t.table EXCEPT ![fd] = [type |-> "cpio", file |-> f, current |-> 0]], free |-> Front(t.free)]

WithOpen(fd, f) ==
  [v \in DOMAIN view \cup {fd} |-> IF v = fd THEN [file |-> f, offset |-> 0] ELSE view[v]]

(* The error of allocate_fd is taken for a descriptor when the tables could *)
(* not be allocated; those of a failed growth are followed from NULL.       *)
NoTables == fd_table = <<>> /\ halted' = TRUE /\ UNCHANGED fileVars

(* sys_open: it may have no free descriptor; and the file's own data may    *)
(* not be allocated.                                                        *)
sys_open(f) ==
  /\ \/ NoTables
     \/ /\ ~dangling /\ Tables.free = <<>>
        /\ SetTables(Tables)
        /\ UNCHANGED <<num_fds, dangling, view, halted>>
     \/ /\ ~dangling /\ Tables.free # <<>>
        /\ LET fd == Last(Tables.free)
               taken == get_free_fd(Tables, fd, f)
           IN \/ SetTables(taken) /\ view' = WithOpen(fd, f)
              \/ SetTables(add_free_fd(taken, fd)) /\ UNCHANGED view
        /\ UNCHANGED <<num_fds, dangling, halted>>
  /\ UNCHANGED <<sysVars, heapVars>>

(* sys_access opens a file that is there, and closes it again.              *)
sys_access(f) ==
  /\ \/ NoTables
     \/ /\ ~dangling /\ Tables.free # <<>>
        /\ LET fd == Last(Tables.free) IN SetTables(add_free_fd(get_free_fd(Tables, fd, f), fd))
        /\ UNCHANGED <<num_fds, dangling, view, halted>>
  /\ UNCHANGED <<sysVars, heapVars>>

(* sys_close by an application that has the descriptor open: that it is     *)
(* open is not checked.                                                     *)
sys_close(fd) ==
  /\ SetTables(add_free_fd(Tables, fd))
  /\ view' = [v \in DOMAIN view \ {fd} |-> view[v]]
  /\ UNCHANGED <<num_fds, dangling, sysVars, heapVars, halted>>

(* sys_readv fills the buffers in turn, as far as the file goes.            *)
ReadBuffer(size, pos, len) == pos + IF size - pos < len THEN size - pos ELSE len
ReadUpTo(e, lens) ==
  LET size == FileSizes[e.file] IN ReadBuffer(size, ReadBuffer(size, e.current, lens[1]), lens[2])

sys_readv(fd, lens) ==
  /\ fd_table[fd].type = "cpio"
  /\ LET e == fd_table[fd] IN
       /\ fd_table' = [fd_table EXCEPT ![fd].current = ReadUpTo(e, lens)]
       /\ view' = [view EXCEPT ![fd].offset = @ + (ReadUpTo(e, lens) - e.current)]
  /\ UNCHANGED <<free_fd_table, num_fds, dangling, sysVars, heapVars, halted>>

(* An offset put into an int.                                               *)
ToInt(x) == ((x + IntMax + 1) % (2 * IntMax + 2)) - IntMax - 1

(* Where a seek is asked to, and where sys_lseek_impl goes: the sum is put  *)
(* into an int, and refused outside the file.  safe_addition has cut its    *)
(* operands to ints before it looks whether their sum is one.               *)
SeekUnchecked(e, offset, whence) ==
  CASE whence = "SEEK_SET" -> offset
    [] whence = "SEEK_CUR" -> e.current + offset
    [] whence = "SEEK_END" -> FileSizes[e.file] + offset
SeekTarget(e, offset, whence) ==
  LET target == ToInt(SeekUnchecked(e, offset, whence))
      refused == \/ target < 0 \/ target > FileSizes[e.file]
                 \/ whence = "SEEK_CUR" /\ ToInt(offset) > IntMax - e.current
                 \/ whence = "SEEK_END" /\ offset > 0
  IN IF refused THEN -1 ELSE target

(* The application goes by what it asked for if that is an int, otherwise   *)
(* by what the call returns.                                                *)
sys_lseek_impl(fd, offset, whence) ==
  LET target == SeekTarget(fd_table[fd], offset, whence)
      asked == SeekUnchecked([file |-> view[fd].file, current |-> view[fd].offset], offset, whence)
  IN /\ fd_table[fd].type = "cpio" /\ target # -1
     /\ fd_table' = [fd_table EXCEPT ![fd].current = target]
     /\ view' = [view EXCEPT ![fd].offset = IF offset = ToInt(offset) THEN asked ELSE target]
     /\ UNCHANGED <<free_fd_table, num_fds, dangling, sysVars, heapVars, halted>>

(* sys_prlimit64 with a limit that is not smaller: the tables are made if   *)
(* need be.  If the second of them cannot be, the first is freed again, but *)
(* its pointer stays.                                                       *)
FirstTablesRefused ==
  /\ fd_table = <<>> /\ ~dangling
  /\ dangling' \in BOOLEAN
  /\ UNCHANGED <<fd_table, free_fd_table, num_fds, halted>>

LargerTablesRefused ==
  /\ IF dangling THEN UNCHANGED <<fd_table, free_fd_table>> ELSE SetTables(Tables)
  /\ UNCHANGED <<num_fds, dangling, halted>>

(* The larger tables are copied from the old ones; the new descriptors are  *)
(* added from num_fds on, which by then is the new number.                  *)
Grown(n) ==
  /\ ~dangling
  /\ fd_table' = [fd \in UserFds(n) |-> IF fd \in UserFds(num_fds) THEN Tables.table[fd]
                                        ELSE [FreeEntry EXCEPT !.type = "junk"]]
  /\ free_fd_table' = Tables.free
  /\ num_fds' = n
  /\ UNCHANGED <<dangling, halted>>

(* There is nothing to copy from: free_fd_table is NULL.                    *)
CopiedFromNull ==
  /\ dangling
  /\ halted' = TRUE
  /\ UNCHANGED <<fd_table, free_fd_table, num_fds, dangling>>

grow_fds(n) ==
  /\ n >= num_fds /\ n <= MaxFds
  /\ FirstTablesRefused \/ LargerTablesRefused \/ Grown(n) \/ CopiedFromNull
  /\ UNCHANGED <<view, sysVars, heapVars>>

FileNext ==
  \/ \E f \in DOMAIN FileSizes : sys_open(f) \/ sys_access(f)
  \/ \E fd \in DOMAIN view :
       \/ sys_close(fd)
       \/ \E lens \in Reads : sys_readv(fd, lens)
       \/ \E o \in Seeks, w \in {"SEEK_SET", "SEEK_CUR", "SEEK_END"} : sys_lseek_impl(fd, o, w)
  \/ \E n \in 0 .. MaxFds : grow_fds(n)

-----------------------------------------------------------------------------
(* sys_morecore.c, on an area of fixed size, whose first address is Page.   *)
(* An area given at compile time is not cut into pages.                     *)

AreaEnd == Page + area.size
RoundToPages(n) == ((n + Page - 1) \div Page) * Page

(* sys_brk and sys_brk_static *)
sys_brk_static(newbrk) ==
  /\ newbrk < area.top /\ newbrk > Page
  /\ area' = [area EXCEPT !.base = newbrk]
  /\ UNCHANGED <<dyn, granted, sysVars, fileVars, halted>>

(* sys_mmap_impl and sys_mmap_impl_static take from the top.                *)
FitsOnTop(length) == length <= area.top /\ area.top - length >= area.base

sys_mmap_impl_static(length) ==
  LET taken == IF area.compiled THEN length ELSE RoundToPages(length)
      start == area.top - taken
  IN /\ Cardinality(granted) < MaxRegions
     /\ FitsOnTop(taken)
     /\ area' = [area EXCEPT !.top = start]
     /\ IF ~area.compiled /\ start % Page # 0
          THEN halted' = TRUE /\ UNCHANGED granted
          ELSE granted' = granted \cup {[start |-> start, length |-> length]} /\ UNCHANGED halted
     /\ UNCHANGED <<dyn, sysVars, fileVars>>

AreaNext ==
  \/ \E b \in 0 .. AreaEnd + 1 : sys_brk_static(b)
  \/ \E n \in Lengths : sys_mmap_impl_static(n)

-----------------------------------------------------------------------------
(* sys_morecore.c, on a vspace.  dyn.map gives each mapped page its frame,  *)
(* dyn.held has the pages of reservations that were never freed; a region   *)
(* that the application holds is its first page and the frames.  A page is  *)
(* EMPTY if it is neither mapped nor in a reservation.  Regions are smaller *)
(* than what one bookkeeping table covers: a larger reservation would not   *)
(* be freed as a whole (see VSpace).                                        *)

BrkStart == Min(BrkPages)
EmptyPages(d) == 1 .. VPages \ (DOMAIN d.map \cup BrkPages \cup d.held)
Ranges(d, n) == {p \in 1 .. VPages : p .. p + n - 1 \subseteq EmptyPages(d)}
RegionPages(r) == r.start .. r.start + Len(r.frames) - 1
MapAt(m, p, frames) ==
  LET new == p .. p + Len(frames) - 1
  IN [q \in DOMAIN m \cup new |-> IF q \in new THEN frames[q - p + 1] ELSE m[q]]
Unmap(m, ps) == [q \in DOMAIN m \ ps |-> m[q]]
NewFrames(n) == [k \in 1 .. n |-> dyn.next + k - 1]

(* sys_brk_dynamic: with 0, the bottom of the heap, to which the break is   *)
(* set back.                                                                *)
sys_brk_dynamic_bottom ==
  /\ dyn' = [dyn EXCEPT !.brk = BrkStart]
  /\ UNCHANGED <<area, granted, sysVars, fileVars, halted>>

(* One page of the loop that maps up to the new break; it ends at a page    *)
(* that cannot be mapped, because it is already or no frame is left.        *)
BrkAdvanced(p) == [dyn EXCEPT !.map = MapAt(@, p, NewFrames(1)), !.brk = p + 1, !.next = @ + 1]

sys_brk_dynamic ==
  /\ dyn.brk \in BrkPages \ DOMAIN dyn.map
  /\ dyn' = BrkAdvanced(dyn.brk)
  /\ UNCHANGED <<area, granted, sysVars, fileVars, halted>>

(* sys_mmap_impl_dynamic: when vspace_new_pages fails, its NULL is returned *)
(* in place of an error, which the C library takes for the address.         *)
sys_mmap_impl_dynamic(n) ==
  /\ Cardinality(granted) < MaxRegions
  /\ \/ \E p \in Ranges(dyn, n) :
          /\ dyn' = [dyn EXCEPT !.map = MapAt(@, p, NewFrames(n)), !.next = @ + n]
          /\ granted' = granted \cup {[start |-> p, frames |-> NewFrames(n)]}
     \/ /\ granted' = granted \cup {[start |-> 0, frames |-> NewFrames(n)]}
        /\ UNCHANGED dyn
  /\ UNCHANGED <<area, sysVars, fileVars, halted>>

(* Mutant: the pages are not mapped again where they were. *)
RestoreNothing(m, r) == m

Restored(m, r) == MapAt(m, r.start, r.frames)

(* The pages of r, which d has unmapped, are reserved and mapped again.     *)
(* This can fail for want of memory; and it does when they lie in a         *)
(* reservation that an earlier call has left, since they are not EMPTY      *)
(* then.  Either way an assertion fails.                                    *)
Restore(d, r) ==
  /\ \/ /\ RegionPages(r) \subseteq EmptyPages(d)
        /\ dyn' = [d EXCEPT !.map = Restored(@, r), !.held = @ \cup RegionPages(r)]
        /\ UNCHANGED halted
     \/ dyn' = d /\ halted' = TRUE
  /\ UNCHANGED granted

(* The pages are mapped elsewhere, new ones after them, and the reservation *)
(* freed.                                                                   *)
Remapped(d, r, n, p) ==
  LET frames == r.frames \o NewFrames(n - Len(r.frames)) IN
  /\ dyn' = [d EXCEPT !.map = MapAt(@, p, frames), !.next = @ + n - Len(r.frames)]
  /\ granted' = (granted \ {r}) \cup {[start |-> p, frames |-> frames]}
  /\ UNCHANGED halted

(* k pages are mapped at p when the next one cannot be.  Nothing undoes     *)
(* that: they cannot be mapped where they were, and an assertion fails.     *)
HalfRemapped(d, r, p, k) ==
  /\ dyn' = [d EXCEPT !.map = MapAt(@, p, SubSeq(r.frames, 1, k))]
  /\ halted' = TRUE
  /\ UNCHANGED granted

(* sys_mremap_dynamic unmaps the pages first.  It restores them if there is *)
(* no room or memory for the reservation, the first page or the new ones.   *)
(* Of a region at NULL there is no page, and unmapping that is an assertion *)
(* failure.                                                                 *)
sys_mremap_dynamic(r, n) ==
  LET d == [dyn EXCEPT !.map = Unmap(@, RegionPages(r))] IN
  /\ n >= Len(r.frames)
  /\ IF r.start = 0 THEN halted' = TRUE /\ UNCHANGED <<dyn, granted>>
     ELSE \/ Restore(d, r)
          \/ \E p \in Ranges(d, n) :
               \/ Remapped(d, r, n, p)
               \/ \E k \in 1 .. Len(r.frames) - 1 : HalfRemapped(d, r, p, k)
  /\ UNCHANGED <<area, sysVars, fileVars>>

DynNext ==
  \/ sys_brk_dynamic_bottom
  \/ sys_brk_dynamic
  \/ dyn.next < VPages + 2 /\ \E n \in PageCounts : sys_mmap_impl_dynamic(n)
  \/ dyn.next < VPages + 2
     /\ \E r \in granted, n \in PageCounts : sys_mremap_dynamic(r, n)

-----------------------------------------------------------------------------
Areas ==
  {[size |-> s, compiled |-> c, base |-> Page, top |-> Page + s] : s \in AreaSizes, c \in BOOLEAN}

MuslcInit ==
  /\ handlers = [n \in TableCalls \cup SparseCalls |-> BootHandler(n)]
  /\ installed = handlers /\ happened = {}
  /\ fd_table = <<>> /\ free_fd_table = <<>> /\ num_fds = InitialFds
  /\ dangling = FALSE /\ view = <<>>
  /\ area \in Areas
  /\ dyn = [map |-> <<>>, brk |-> 0, next |-> 1, held |-> {}]
  /\ granted = {} /\ halted = FALSE

(* sys_brk, sys_mmap_impl and sys_mremap: a program has one of the heaps.   *)
MuslcNext(part) ==
  /\ ~halted
  /\ \/ part = "calls" /\ (init_syscall_table \/ boot_set)
     \/ part = "files" /\ FileNext
     \/ part = "area" /\ AreaNext
     \/ part = "dynamic" /\ DynNext

MuslcSpec(part) == MuslcInit /\ [][MuslcNext(part)]_muslcVars

-----------------------------------------------------------------------------
(* While no assertion has failed: a descriptor that the application has     *)
(* open refers to the file and the position it expects, whatever was        *)
(* opened, closed, sought, grown or refused in between; no open descriptor  *)
(* is handed out again, and none that there was at the start gets lost.     *)
(* Nothing is open while there are no tables.                               *)
FilesSound ==
  ~halted =>
    IF fd_table = <<>> THEN view = <<>>
    ELSE /\ \A fd \in DOMAIN view :
              /\ fd_table[fd] = [type |-> "cpio", file |-> view[fd].file, current |-> view[fd].offset]
              /\ view[fd].offset \in 0 .. FileSizes[view[fd].file]
         /\ UserFds(InitialFds) \ DOMAIN view \subseteq Range(free_fd_table)
         /\ Range(free_fd_table) \subseteq UserFds(num_fds) \ DOMAIN view
         /\ IsInjective(free_fd_table)
         /\ \A fd \in Range(free_fd_table) : fd_table[fd] = FreeEntry

(* Regions that mmap answered with NULL: it had no memory for them.         *)
AtNull == {r \in granted : r.start = 0}

(* While no assertion has failed, the memory that the application was given *)
(* is there.  The heap below the break and the mapped regions lie in the    *)
(* area and do not overlap.  In a vspace, every page of a region is still   *)
(* the frame it was, though mremap may have moved it or put it back, but    *)
(* for regions at NULL, which never were memory; the pages below the break  *)
(* are mapped; and no page is mapped besides, left over by a failure.       *)
MemoryKept ==
  ~halted =>
    /\ \A r \in granted : "length" \in DOMAIN r =>
         /\ area.base <= r.start /\ r.start + r.length <= AreaEnd
         /\ \A q \in granted : q # r => q.start + q.length <= r.start \/ r.start + r.length <= q.start
    /\ \A r \in granted \ AtNull : "frames" \in DOMAIN r =>
         \A k \in 1 .. Len(r.frames) :
           r.start + k - 1 \in DOMAIN dyn.map /\ dyn.map[r.start + k - 1] = r.frames[k]
    /\ dyn.brk # 0 => BrkStart .. dyn.brk - 1 \subseteq DOMAIN dyn.map
    /\ \A q \in DOMAIN dyn.map \ BrkPages :
         \E r \in granted \ AtNull : "frames" \in DOMAIN r /\ q \in RegionPages(r)

(* As the comment in sys_mremap_dynamic has it, it recreates the original   *)
(* mapping when it cannot move it: no region is ever without its pages.     *)
OriginalRecreated ==
  \A r \in granted \ AtNull : "frames" \in DOMAIN r => RegionPages(r) \subseteq DOMAIN dyn.map

(* A failure of mmap is reported with an error number, as the others are    *)
(* (-ENOMEM, -EINVAL), so that no region is at NULL.                        *)
ErrorsAreNumbers == AtNull = {}

(* A seek goes where it is asked to, or is refused.                         *)
SeeksGoWhereAsked ==
  \A fd \in DOMAIN view, o \in Seeks, w \in {"SEEK_SET", "SEEK_CUR", "SEEK_END"} :
    SeekTarget(fd_table[fd], o, w) \in {-1, SeekUnchecked(fd_table[fd], o, w)}

(* As the comment in grow_fds has it: once the file table exists, it stays  *)
(* there.                                                                   *)
TablesUsable == ~dangling

(* As the comment in grow_fds has it: the new descriptors are added to the  *)
(* free list.                                                               *)
GrownFdsAreFree ==
  fd_table # <<>> => \A fd \in UserFds(num_fds) : fd \in DOMAIN view \cup Range(free_fd_table)

(* As the documentation of muslcsys_install_syscall has it: it installs a   *)
(* new handler for the given system call.                                   *)
InstalledIsCalled ==
  \A n \in TableCalls \cup SparseCalls : sel4_vsyscall(n) = installed[n]
=============================================================================
