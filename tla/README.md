# A verification project for seL4_libs

seL4_libs is the collection of user level libraries that systems on the seL4
microkernel are built from: locks, allocators of capability slots, memory and
untyped objects, interrupt handling, address spaces, processes, and a small
server that shares the serial port.  This directory holds TLA+ models of its
stateful parts, the TLC configurations that check them, and proofs for TLAPS.
`PROJECT.json` maps every definition to the source lines it models.

Checking: `tlc -config X.cfg M` for a run, `tlapm M.tla` for a proof module.

## 1. Inventory

| part | state it keeps | operations | hard behaviour | what makes it correct |
|---|---|---|---|---|
| binary semaphore, mutex (libsel4sync) | an atomic integer and a kernel notification | init, wait, post | threads between the atomic step and the kernel call; a refused decrement | one holder, no lost wake-up, the assertion in post |
| condition variable | count of waiters, broadcasting flag, notification, on top of the lock | wait, signal, broadcast, broadcast_release | wake-ups passed from waiter to waiter while new waiters arrive; a lock that refuses | nobody who sleeps is overlooked, a broadcast is carried on and ends |
| counting semaphore | atomic integer and endpoint | wait, trywait, post | posters and waiters sleep for each other; a weak compare-and-exchange | at most the initial number inside, a post returns |
| recursive mutex | owner, depth, notification | lock, unlock | the owner is read without protection | one owner, the depth is his, the signal is never lost |
| IRQ interface (libsel4platsupport) | tables of interrupts and notifications, kernel bindings | register, unregister, provide, return, set, unset, wait, poll, handle, acknowledge | badges handled late, acknowledgements used late, partial masks | tables and kernel agree, every interrupt is acknowledged |
| IRQ server (libsel4utils) | list of threads, nodes with counts | new, thread_new, register_irq, wait, handle | threads, endpoint and owner between the interrupt and its callback | nothing lost on the way, the counts are exact |
| allocation manager (libsel4allocman) | reserves, queues of deferred frees, operation flags | alloc and free for three spaces, fill_reserves, resizing | re-entrance: allocators call the manager that is calling them | nothing lost or duplicated, no re-entrance, operations end |
| CSpace allocators | bitmaps, counters, two levels of CNodes | alloc, alloc_at, free | second levels that come and go, and fail to come | a slot has one holder |
| untyped managers | free lists per pool and size | add, alloc (at an address), free | splitting that fails half way, merging in any order | memory is in one node, once |
| bootstrapping of allocman | list of boot untypeds, old and new CSpace | split, make CNodes, switch CSpace, hand over | paths that a switch makes stale; memory that runs out | what is handed over is where it is said to be |
| memory pools | free lists over a growing area | morecore, alloc, free | page mappings that fail half way; blocks joined in any order | blocks tile the memory that is there |
| VSpace manager (libsel4utils, libsel4vspace) | multi level table of reservations and capabilities | reserve, map, unmap, share, move, free, tear down | partial failure in multi page operations | tables, kernel and slots agree; no page is overwritten |
| processes, threads | objects and CSpace of a process, its first stack | configure, give capabilities, spawn, checkpoint, restore, destroy | roll back; two-step copies of a running thread | lent objects survive, made ones go; the process reads what was passed |
| ELF loading | regions, reservations, pages | load, reserve | segments that share a page | every byte is there, writable pages are writable |
| C library glue (libsel4muslcsys) | system call table, descriptors, heap area | install, open, close, read, seek, brk, mmap, mremap | tables that grow or cannot be made; a remap that fails half way | open files and granted memory stay what they were |
| serial server (libsel4serialserver) | registry of badges and windows, receive slot | spawn, mint, connect, write, disconnect, kill | stale badges, caps left behind, requests behind a kill | a client's text comes out of his own window, everything is released |
| slab, DMA, timers, debug allocator, debug vka, twinkle | small tables | allocate, free | partial failure | not modelled |
| simple, bench, test, register dumps | none, or immutable | look ups, printing | none | not modelled |

The allocation manager calls the CSpace, untyped and memory allocators through
function pointers, and these call it back; the VSpace manager and the process
library allocate through it (as a `vka`); the IRQ server is built on the IRQ
interface and on threads; the serial server on vka, vspace and threads; the
condition variable on the binary semaphore.  Shared memory concurrency is found
only in libsel4sync; elsewhere the actors are the kernel, the threads of the
IRQ server, and clients and server of the serial port, which meet at endpoints
and notifications.  Nothing is persistent, so there is no crash recovery.

The hazards, each at its line and with the properties that would catch it, are
listed in `PROJECT.json`.

## 2. Modules

| module | models | notes |
|---|---|---|
| `AbstractLock` | what a lock promises | refined by `BinSem` and `RecursiveMutex` |
| `BinSem` | `bin_sem_bare.h`, `bin_sem.h`, `mutex.h` | one action per atomic instruction or kernel call |
| `CondVar` | `condition_var.h` | extends `BinSem`: its threads also use the lock by itself |
| `CondVar_proofs` | proofs about `BinSem` and `CondVar` | |
| `AbstractSem`, `Sem` | `sem-bare.h`, `sem.h` | endpoint rendezvous, trywait's read and exchange apart |
| `RecursiveMutex` | `recursive_mutex.c` | `depth` is a history variable: successful locks per thread |
| `LocksAndImages_proofs` | proofs about `Sem` and `RecursiveMutex`, and about `Elf` | its two parts share nothing |
| `IrqInterface` | `irq.c` | standard and mini interface; kernel bindings, masks and words modelled from their use |
| `IrqServer` | `irq_server.c` | extends `IrqInterface` |
| `IrqServer_proofs` | proofs about `IrqInterface` and `IrqServer` | |
| `AbstractCSpace` | what `cspace_interface_t` promises | refined by all three allocators |
| `SingleLevelOps` | `cspace/single_level.c` as operators on a record | used for both levels of the two level allocator |
| `CSpaceSingleLevel` | `single_level.c`, `simple1level.c` | |
| `CSpaceTwoLevel` | `cspace/two_level.c` | `stopped`: a failed assertion or a null second level |
| `CSpaces` | the three allocators side by side | |
| `SplitUtspace` | `utspace/split.c` | recursion written as the chain of nodes it visits; `BIT` is the macro, as a function that doubles |
| `Untypeds_proofs` | proofs about `SplitUtspace` and `Bootstrap` | |
| `Bootstrap` | `bootstrap.c` of libsel4allocman | a behaviour is one call, step by step; a CPtr is resolved in the CSpace of the moment |
| `MemPool` | `mspace/`: `k_r_malloc.c`, `fixed_pool.c`, `virtual_pool.c`, `dual_pool.c` | the free list is a function from headers to sizes |
| `SlotsAndBlocks_proofs` | proofs about `CSpaces`, `MemPool` and `SerialServer` | |
| `Allocman` | `allocman.c` | the C call stack is a variable, allocators are the environment |
| `Allocman_proofs` | proofs about `Allocman` | |
| `VSpace` | `vspace.c`, `vspace_internal.h`, `bootstrap.c`, `mapping.c` of libsel4utils, and libsel4vspace | a loop repeats its turn on a record of the state (`Repeat`); a call is a step |
| `VSpace_proofs` | proofs about `VSpace` | |
| `Process` | `process.c`, `thread.c`, `object.h` | capabilities in the slots of the vka, of the process and in its TCB |
| `ProcessStack` | spawning in `process.c` and `thread.c` | the one module that goes down to bytes: its property is about their layout |
| `Elf` | `elf.c` | segments are built up one by one, then loaded |
| `Checkpoint` | checkpoints in `thread.c` | read, copy and write are steps, the thread runs in between |
| `Muslcsys` | `vsyscall.c`, `sys_io.c`, `sys_morecore.c` | `view`, `granted`: what the application relies on |
| `Runtime_proofs` | proofs about `Process`, `ProcessStack`, `Checkpoint` and `Muslcsys` | |
| `SerialServer` | `server.c`, `clientapi.c`, `parentapi.c` | requests queue at the endpoint; a window is named by its client |
| `MCAllocators`, `MCProcess`, `MCLocks` | sums of modules that share no state | `inUse`, `part`: which of them a behaviour uses |
| other `MC*` | instances for TLC | |

How data is abstracted: words of bits are sets; an untyped node is its address
and size; a resource managed by allocman is a unit in one of several places
(`books[place][space]`); a shared window is the client whose memory it is.
An address is a page number in `VSpace` and a byte in `MemPool`, `Elf` and
`ProcessStack`, with pages of a few bytes.  Where a call is one step, the call
works on a record of the state, and a parameter names the operation in it that
fails, or TLC chooses it.  Control is kept: every early return that leaves state behind is an action or a
disjunct (`AllocCreateFails`, `AllocFails`, `ConnectMapFails`, `ResizeFails`,
`ThreadNewFails`, `CvRelockRefused`, ...).  Calls that fail before they have
changed anything are stuttering steps and appear only where a caller could tell.

The kernel is external and is modelled from its use: a notification is one bit
(or, for interrupts, a word) that a signal sets and a wait clears, waking one
sleeper; an endpoint send meets a receive; which sleeper is woken is left open;
an interrupt stays masked until it is acknowledged; a cap is not delivered into
a receive slot that is full.

A few variables never change and are chosen in the initial state, so that one
run covers every configuration: `mini` and `masks` (which interface, and which
masks the application waits with), `delivery_ep` (IRQ server with or without an
endpoint), `orderly` (whether clients of the serial server go on using
connections they have closed), `bootstrap` (how a vspace came to be), `call`,
`layout` and `regions` (which bootstrapping function is called, in which CSpace,
on which machine), `inUse` and `part` (in `MCLocks`, `MCAllocators` and
`MCProcess`, which of several independent components this behaviour uses).

Mutants: the definitions introduced by a comment that starts with "Mutant" are
plausible mistakes in the code they precede.  No specification uses them; each
replaces a definition to show that a property notices.

## 3. Runs

| run | instance | properties | states |
|---|---|---|---|
| `cond_var` | 3 threads, INT_MIN so small that the lock refuses the third | `LockInv`, `CondVarInv`, `ImplementsLock`, `BroadcastOnlyDropped`, `BroadcastEnds` | 30 000 |
| `locks` | mutex: 4 threads, depth 3; semaphore: 5 threads, 2 units, INT_MIN -2 | `MutexInv`, `ImplementsLock`, `Handover`, `SemInv`, `ImplementsSem`, `PostReturns` | 7 400 |
| `irq_interface` | 2 lines, 2 identifiers, 1 notification of 2 bits | `TablesAgree`, `KernelAgrees`, `IrqsServed` | 174 000 |
| `irq_server` | 3 lines, 3 identifiers, 2 threads of 2 bits | `ServerExact`, `ServerServes` | 122 000 |
| `allocators` | 7 slots in words of 2; 4 second levels of 2 slots; 4 untypeds in 3 pools; 9 CSpaces to boot in and 6 lists of regions; a fixed pool of 9 bytes and a virtual one of 16 | `SlotsExact`, `SingleImplements`, `TwoLevelImplements`, `UntypedsExact`, `FullyMerged`, `BootUntypedsExact`, `CapsInPlace`, `PoolExact` | 103 000 |
| `allocman` | 2 slots, 2 blocks, 1 untyped, reserves and queues of 1 | `Conserved`, `CallsContained`, `NothingHalfDone`, `OperationsEnd` | 1.5 million |
| `serial_server` | 2 clients, 2 slots, registry of 3 | `RegistryExact`, `OwnOutput`, `CallsReturn` | 589 000 |
| `vspace` | 6 pages in 3 tables, the last of them the kernel's, 2 capabilities, 2 reservations, calls of up to 2 frames | `VSpaceInv`, `AllOrNothing`, `MappingsKept` | 88 000 |
| `process` | see below | `ObjectsExact`, `ImagesLoaded`, `FrameReadable`, `RestoreExact`, `FilesSound`, `MemoryKept` | 292 000 |

What they show, in words: the comments above the properties say it precisely.
Many invariants are conjunctions of named parts, the type invariant among them:
`ServerExact` of `NodesExact` and `NothingLost`; `SlotsExact` of `BitmapExact`,
`RefusesOnlyWhenFull` and `TwoLevelInv`; `UntypedsExact` of `Partition`,
`SplitExact` and `AddressFound`; `BootUntypedsExact` of `BootMemoryExact` and
`DeviceRamApart`; `CallsContained` of `WithinArrays` and `NotReentered`;
`RegistryExact` of `ConnectionsExact` and `KillReleases`; `ObjectsExact` of
`LentIsKept`, `SlotsAgree` and `DestroyedIsGone`; `ImagesLoaded` of
`LoadedExact` and `ReservationsSuffice`.

Three runs are expected to find a violation, of what the repository's own
comments and assertions say (`PROJECT.json`, "findings"):

- `irq_pending_promise`: `serve_irq()` toggles unserved bits, so an interrupt
  that is pending already and arrives again is forgotten while its line stays
  masked.
- `two_level_promise`: `_cspace_two_level_alloc()` creates a second level at one
  index and takes the slot from another one, which may be full or absent.
- `allocman_root_promise`: `resize_array()` returns without `_end_operation()`.

Other places where the model shows the code to do less than a comment says
are described under the hazards: `sync_cv_signal()` and `sync_cv_broadcast()`
may notify fewer waiters than said; `sel4platsupport_irq_unset_ntfn()` leaves a
pending signal in the notification; the IRQ server keeps notification 0 of a
thread that failed to start; the last part of a word of a CNode is never
allocated from; deferred frees may stay queued when the refill is skipped; a
refused connect leaves its cap in the receive slot; a kill walks registry
entries that were never initialised.

Formulas that state a promise of the repository which the code does not keep,
and that no run lists.  Each is defined at the end of its module; to see the
counterexample, name it as the invariant of that module's configuration:

- `FreedIsUnreserved` (`VSpace`): vspace.h:394 of libsel4vspace says that freeing
  a reservation "will unreserve any reserved addresses in the reservation";
  `clear_entries_mid()` stops at an entry that is reserved as a whole
  (vspace_internal.h:169), and what follows it stays reserved.
- `GrownFdsAreFree` (`Muslcsys`): `grow_fds()` means to "add all of the new
  available fds to the free list" (sys_io.c:142) in a loop from `num_fds`, which
  line 140 has already set to the new number, so it adds none.
- `TablesUsable` (`Muslcsys`): `grow_fds()` is to "ensure file table exists"
  (sys_io.c:106); when the second table cannot be allocated, the first is freed
  (line 88) but not forgotten, and the next call that needs them follows it.
- `SeeksGoWhereAsked` (`Muslcsys`): `sys_lseek_impl()` puts the offset, or its sum,
  into an `int` (sys_io.c:452) before it looks whether it is in the file, so
  that an offset that does not fit is cut and may be accepted.
- `OriginalRecreated` (`Muslcsys`): `sys_mremap_dynamic()` is to "recreate the
  original mapping" (sys_morecore.c:316); the reservation it does that with is
  never freed, so the pages are not empty when it has to be done again, and
  after a remap that failed half way some are still mapped elsewhere.
- `ErrorsAreNumbers` (`Muslcsys`): `sys_mmap_impl_dynamic()` returns the NULL of
  `vspace_new_pages()` where its other failures are error numbers
  (sys_morecore.c:231), and NULL is taken for the address.
- `InstalledIsCalled` (`Muslcsys`): `muslcsys_install_syscall()` stores the old
  handler back when the call is in the sparse table (vsyscall.c:210).
- `FreedIsDeleted` (`Process`): the error path of the configuration gives
  objects back while the process's other capabilities to them still exist
  (process.c:645-660).
- `StartsAtFirstUnreserved` (`Elf`): "this reservation starts from the first
  unreserved frame of the segment" (elf.c:290); `ROUND_UP` of the end plus one
  (line 326) starts one page later, and the page between is in no reservation.
- `RootCnodeInPlace`, `AllCapsTransferred` (`Bootstrap`): after the switch of the
  CSpace the capability "to the real root cnode is already there"
  (bootstrap.c:526) only where it happens to be in the same slot, and only the
  capabilities that simple lists are transferred.
- `DeviceRamMarked` (`Bootstrap`): bootstrap.h:154 says that overlapping device
  untypeds "will be marked"; a region that ends with the address space, and
  regions that are not in order, are cut wrongly (bootstrap.c:1089).
- `PoolDeletesFirst` (`MemPool`): allocman.h:255 asks that "every capability to
  this memory has been deleted"; a page that cannot be mapped is given back with
  its capability still in its slot (virtual_pool.c:62).

### Bounds, and why they are enough

Three threads have the stages that matter on the lock at the same time: one in
the critical section or signalling, one about to sleep, one refused or waking;
the proofs remove the bounds of the locks, the IRQ interface and server, the
CSpace allocators, the untyped manager, the memory pools, the allocation
manager, the VSpace manager, the serial server, the checkpoints and the C library
glue.  Five threads and two units let two threads be in while two sleep and one is refused.  Two lines on
one notification can be pending, served, masked out and rebound independently;
the server's run has interrupts of one thread and of different threads.  Seven
slots in words of two make the bitmap search wrap round and leave a part of a
word over.  A root of four units has two levels of splits and merges.  In
`allocman`, reserves and queues of length one are full and empty in turn, and
with `MaxNested` 1 a callback can still reach itself through two others.
In `vspace`, two pages to a table make a run of two frames start inside one
table and end in the next, a large frame fill a table, and two capabilities run
out at the second page of a call; `MinLevels` is the number of levels that can
be allocated before bookkeeping memory runs out; reservations with deferred
rights are made only in the vspace that a task boots itself in (`bootstrap` is
"own"), as they differ from the others only in the call that may map into them.
In `allocators`, untypeds of 8
to 64 bytes fit the CNodes asked for, must be split for them, or are too small; the regions of physical memory begin and end at addresses of every
alignment, one list is out of order and one ends with the address space; a word
of a bitmap has `SlotsPerWord` slots, so that the new CSpaces have several
words, the last of them in part.  Slots are taken as the allocators do: the last free
one of the first word, never from the part of a word at the end, and from a second level
only if it exists, as none is made while bootstrapping.  So
`bootstrap_new_1level_bootinfo()` has moved several untypeds before it comes to
slot 1, where its own CNode lies and where it fails.  The
virtual pool holds three blocks and more, which is what joining below and above
needs, the fixed pool has odd bytes left over, and the header that is not memory lies
below or above the virtual pool.  `MemPool` assumes what the callers of the
pools see to: blocks of no bytes are not asked for (one at the very end of the
fixed pool would be freed into the wrong heap), the fixed pool is aligned to a
word and the virtual one is whole pages.  In `process`, the CSpace of a new
process has room for its layout and for `MaxGiven` capabilities; an image has up
to `MaxSegments` segments on three pages of two bytes, so that a
page may be shared at either end of a segment; the lengths of arguments and of
thread-local storage have several alignments to a word, on a stack of small
pages; a checkpointed stack has two words; two files of sizes 0
and 3 are read to their end and past it, into one buffer or two (`Reads`), and the
descriptor table grows once (`MaxFds`); `Seeks` has offsets that an int of `IntMax`
cannot hold, one of which is cut to a position in the file; no file is larger
than an int.  The vspace behind mremap has `VPages` pages, so that a region can be
moved, grown, refused, restored, and restored once more in the reservation left
by the first time.  Where a free range is found depends on the last
allocation; the model lets it be any range that is free.  Regions are smaller than
what one bookkeeping table covers.

An assertion that fails stops the program (`halted`): `FilesSound` and `MemoryKept`
are about all states in which that has not happened, and the formulas above say
which calls run into one.
`MaxWaiters`, `MaxAttempts`, `MaxEntries`, `MaxNested`, `MaxRun`,
`MaxReservations`, `MaxGiven`, `MaxSegments`, `MaxArgs`, `MaxFds`, `MaxRegions`
and `PoolMaxUndeleted` bound counters that nothing in the code bounds; each is in the guard of the action that counts.

### Fairness

Weak fairness is assumed of steps inside operations: a runnable seL4 thread is
scheduled.  Nothing obliges a thread to start an operation, with these
exceptions, each needed because the property is about somebody else: holders of
a lock release it (`BroadcastEnds`, `PostReturns`), the application waits for
its interrupts and its callbacks acknowledge (`IrqsServed`, `ServerServes`).
Strong fairness stands for the kernel's first-in first-out queues: a sleeper
that is among the candidates of infinitely many wake-ups is woken once
(`WokenOnLock`, `Served`, `Deliver`).  Allocators return from their callbacks
after a bounded number of nested calls (`OperationsEnd`).  `VSpace`, `Process`,
`Elf`, `ProcessStack`, `Muslcsys`, `Bootstrap` and `MemPool` have no fairness:
they are sequential code whose calls are single steps or straight lines, and
only safety is claimed.

## 4. Proofs

`CondVar_proofs` proves, for every finite set of threads and every INT_MIN:

- `BinSemInvariant`: `LockSpec => []LockInv`.  Mutual exclusion alone is not
  inductive: that two threads are never inside depends on there being one
  *token*, which is with the holder, with a thread that has decided to signal,
  or in the notification.  `LockInv` says that the value counts the claims
  (`ValueCounts`), the token is unique (`OneToken`), exists while there are
  claims (`NoLostWakeup`), is never under way without a claimant to receive it
  (`NoStaleSignal`), and is not left in the notification beside a sleeper
  (`SignalNotIgnored`).  There is one lemma per action; the facts about
  cardinality come from `FiniteSetTheorems`.
- `BinSemMutualExclusion`, `BinSemPostAssertion`, `BinSemNoLostWakeup`,
  `BinSemType`: consequences.  The assertion in `sync_bin_sem_bare_post()`,
  which reads the value again after others may have changed it, holds as the
  value is one minus the number of claims.
- `BinSemRefinement`: the semaphore implements `AbstractLock`, with the holder
  as the owner: a hand-over is a release followed by an acquisition.

and, of the condition variable on top, for every bound on `waiters`:

- `CondVarUsesLock`: `Spec => LockSpec`.  Every step of the condition variable
  is a step of the semaphore or leaves it alone, so `CondVarLockInvariant` and
  `CondVarRefinement` follow from the semaphore's theorems.
- `CondVarInvariant`: `Spec => []CondVarInv`.  `waiters` covers everybody inside
  `sync_cv_wait()`; a waiter that the lock refuses stays counted, so the count
  errs on the safe side, and `BroadcastAlive` is stated for the states in which
  it is exact.
- `CondVarBroadcast`: `Spec => BroadcastOnlyDropped`, from that invariant: the
  waiter that comes out is itself counted, so `waiters` was not zero.

`LocksAndImages_proofs` proves, for every set of threads and every UINT_MAX:

- `MutexInvariant`: `Spec => []MutexInv`: the signal is in exactly one place
  (`OneSignal`), `held` is the owner's depth (`DepthIsOwners`), and both
  assertions of `lock()` hold.
- `MutexType`, `MutexLockAssertions`, `MutexDepth`, `MutexOneSignal`,
  `MutexRefinement`: consequences, and the refinement of `AbstractLock`.

and, for every finite set of threads, number of units and INT_MIN:

- `SemInvariant`: `SemSpec => []SemInv`.  As with the binary semaphore, what is
  inductive is a count: the value is the units less the claims on them
  (`ValueCounts`), and the threads inside and the posts that owe a hand-over
  together use every unit that is claimed (`UnitsAllUsed`); `NeverBothAsleep` and
  `TriesToTake` are needed for the endpoint and for trywait's two steps.
- `SemRefinement`: every step, `trywait`'s exchange included, is a step of
  `AbstractSem` or none: no unit is taken that was not there.

`SlotsAndBlocks_proofs` proves of the CSpace allocators, for every range of
slots, every word size, and every size of the two levels:

- `SingleLevelExact`: the bitmap, or the counter of `simple1level.c`, says exactly
  which slots are not held.  The search is the point: it starts at `last_entry`
  and wraps round, and a failed one is shown to have missed no word.
- `SingleLevelRefines`, `TwoLevelRefines`: the refinements of `AbstractCSpace`
  by all three allocators: a slot that is held is never handed out.
- `TwoLevelExact`, `SlotsAlwaysExact`: a second level exists exactly while it is
  in use or was there before, is itself an exact single level, and its index is
  taken in the first level exactly then.  Both levels are the operators of
  `SingleLevelOps`, so the lemmas about one level are used twice.

`Untypeds_proofs` proves, for any untypeds given, of any sizes and at any
addresses aligned to their size, and any order of calls:

- `UntypedsAlwaysExact`: `SplitSpec => []UntypedsExact`.  The nodes are those of
  binary trees; `Halves`, `Siblings` and `Nested` are the geometry of one step
  of such a tree, from which follows that the nodes an address lies in are one
  above the other (`At`), and that two nodes share memory only if one holds the
  other (`Inside`).  A split replaces a node by a `Chain`, a merge a chain by a
  node; `SplitInv` says that the free and the used nodes together tile the
  memory given (`Tiling`), that the nodes counted as split are those with one of
  them below (`Above`), and that each list holds nodes of its size and pool,
  each once (`Lists`).  It is inductive as it stands; the work is in the chain:
  its nodes are disjoint (`ChainDisjoint`), cover the node (`ChainCovers`), and
  what is above them is what was above the node, and the nodes on the way
  (`AboveChain`, `SplitTiles`, `MergeTiles`).  The way back is possible
  because a merge stops where the sibling is not free (`MergeEnds`).
- `AlwaysFullyMerged`: `SplitSpec => []FullyMerged`.  After an allocation no
  free node holds the address split for, and of two siblings in a chain one does;
  after a free the top has no free sibling.

and of the bootstrap, for any layout of the boot CSpace, any sizes of CNodes and
whatever step memory runs out in:

- `CapsAlwaysInPlace`: `BootSpec => []CapsInPlace`.  That a free slot is empty and
  that a listed capability arrives hang together: the transfer puts a capability
  into the slot of the new CSpace that has its number, and that slot must be
  empty then, and must not be one that the new allocator has handed out.  The
  inductive invariant `CapsInv` says, of a call that has not failed, that the
  boot slots it has used lie behind everything that lay there (`BootSlots`), the free
  slots of the new allocator behind everything that is listed (`FreeSlots`), no
  untyped under way is in a listed slot (`UtsApart`), and every listed
  capability is where it was or in the same place of the new CSpace
  (`CapsKept`), the first so many of them in the new one (`Transferred`).  The slot of
  the old CNode in a two level CSpace may not exist, which the code does not
  look at; the invariant says that the call then cannot succeed (`BootSlots`).
  `NthCap` is the counting argument that the transfer meets every capability.

`Allocman_proofs` proves, for every number of resources, reserves and queue
entries, and every nesting of callbacks:

- `AlwaysConserved`, `AlwaysContained`, `AlwaysFinished`: `Conserved`,
  `CallsContained` and `NothingHalfDone`.  They are proved together, from
  `AllocmanInv`: a unit that a call has taken and not yet returned is accounted
  for by a frame of the C call stack, so the sum over all places can only be
  kept with an invariant about the stack: which frames may lie on which, and
  that the operation flags are those of the frames below.

`IrqServer_proofs` proves, for every number of lines, identifiers,
notifications, bits and threads:

- `TablesAlwaysAgree`, `KernelAlwaysAgrees`: the two tables of `irq.c` pair the
  same entries, and the kernel's bindings are those of the tables.  Neither is
  inductive alone, nor is the pairing: `KernelAgrees` looks an interrupt up by
  its line, so no two entries may have the same one, and an entry that is not in
  use must be clear (`EntriesSound`).
- `ServerAlwaysExact`: `ServerExact` of the server on top, from the invariants
  of the interface: a thread's node counts the interrupts that are bound to its
  notification (`NodesCount`), and a masked line is bound and its interrupt is on
  its way, in the kernel's word, with the thread, at the endpoint or pending
  (`AllOnTheirWay`).

`VSpace_proofs` proves, for every number of pages, tables and capabilities, every
size of a large frame and calls of every length:

- `VSpaceCorrect`: `Spec => []VSpaceInv`.  The two levels of the table are read as
  one function from pages to entries (`Entry`).  `VSpaceInv` alone is not
  inductive: that unmapping a large frame gives back no more than that frame
  needs every page of it to be recorded as the frame's.  The inductive invariant
  `Inv` says what holds before the manager is made (`Fresh`), while it is up
  (`Sound`) and when it is gone.  `Sound` is the types and: no page is mapped
  twice (`Exclusive`), a mapped frame has a live slot and lies in pages that are
  not the system's (`FramesPlaced`), it is recorded at all of its pages, and what
  is recorded is mapped (`RecordsMapped`), reservations are recorded where they
  say (`ReservationsKept`) and the manager's own pages never leave its hands
  (`SysReserved`).
- `VSpaceKeepsMappings`: `Spec => MappingsKept`, the action property that no call
  takes away or replaces a mapping it was not asked to.
- `VSpaceAllOrNothing`: `Spec => []AllOrNothing`.  The slots that a call of several
  pages has taken so far were free when it began, and each is recorded at its
  page as long as table levels last (`Created`); undoing empties exactly the pages
  that were filled (`Emptied`), so a call that fails part of the way leaves
  nothing.

  A call is described as a relation between the state before and the state after
  it (`ReserveEffect`, `ClearEffect`, `Placed`, `Filled`, `Emptied`, `PagesEffect`), a
  loop turn by turn.  What holds after `k` turns, for every `k`, would be an
  induction, whose theorem in the library takes an operator as its parameter;
  `Climb` takes the set of the turns that are in order instead, and the least
  one that is not (`LeastNat`, from the well-foundedness of the naturals).

`SlotsAndBlocks_proofs` proves of the memory pools, for every size of pools,
pages and headers and every set of request sizes:

- `PoolAlwaysExact`: `PoolSpec => []PoolExact`.  The free list alone says nothing
  about the blocks that are held, so the invariant is about all blocks of a
  heap: there is a tiling of its memory (`Tile`), of which the free list is a
  part without two neighbours (`Listed`) and the blocks held are the rest
  (`Matches`).  Freeing joins blocks of the tiling (`JoinTile`), allocating cuts
  one (`CutTile`), and `morecore()` adds one at the end (`GrowTile`).  `Touching` is the
  heart: the header found by the search round the circle is the only one that
  can touch the freed block from below, its successor the only one that can from
  above, and the header `base`, which is not memory, is never joined.

and of the serial server:

- `SerialInvariant`, `RegistryAlwaysExact`, `OutputAlwaysOwn`: `RegistryExact`
  and `OwnOutput` of the serial server, for every finite set of clients and slots
  and every size of the registry.  The inductive invariant `SerialInv` distinguishes the phases
  of the server's life: while it starts nothing is connected (`Startup`), while
  it runs the registry, the mappings, the slots and the connections of the
  clients agree (`Agreement`), and once killed everything is released
  (`Released`).  Agreement holds of orderly clients; that the text printed is
  the caller's own window is proved of all of them.

`Runtime_proofs` proves:

- `ProcessCorrect`: `Spec => []ObjectsExact`, for a CSpace of any size that has
  room for the slots the library fixes, whatever is given away and whichever
  step fails.  The invariant `ProcInv` goes by the life of a process: before it
  is configured the caller owns what it lends and nothing else (`Fresh`); while it
  is up every object that was made for it is in the slot that its field names, in
  the slot of its own CSpace that the library promises, and nowhere else (`Up`);
  when configuring has failed, or the process is destroyed, only what was lent is
  left (`Gone`).  What makes this more than bookkeeping is that the process's
  CNode holds a capability to itself: deleting the caller's does not delete the
  object, so it must be revoked, and revoking it must not take what was lent.
- `FrameAlwaysReadable`: `StackSpec => []FrameReadable`, down to the bytes, for
  any arguments and any sizes of pages and stacks.  Every write goes below all
  that is on the stack (`Above`), so the stack only grows (`Grows`) and what has been
  written stays (`HoldsGrows`); the frame is then found by adding up the sizes
  of what was pushed, and the alignment follows from the remainder that
  `StackRounding` took away beforehand.  The turns of `stack_copy_args` are
  followed one by one (`ArgTurns`, `CopyEffect`).
- `RestoreAlwaysExact`: `CkSpec => RestoreExact`, for every stack and every
  contents of words.  Saving and restoring are two steps each, with the thread
  running in between unless it was suspended; `CkInv` says what of the thread
  has already been saved, or put back, and that it cannot run until the other
  half is done.
- `MemoryAlwaysKept`: `MuslcSpec(part) => []MemoryKept`, for every size of area,
  page and request, whatever fails and wherever the vspace puts a region, as long as no
  assertion has failed.  Regions at NULL (`AtNull`), which never were
  memory, are left out.  In an area of fixed size the break is
  below the top of what is left and every region above it (`AreaInv`).  In a
  vspace it is not enough that regions are mapped where they were: `mremap`
  unmaps first, so no region may share a page with another, or with the pages
  below the break (`DynInv`); then whatever is restored or moved disturbs nobody,
  and what is mapped besides the break belongs to a region (`Owned`).
- `FilesAlwaysSound`: `MuslcSpec(part) => []FilesSound`, for any files, any
  offsets, any INT_MAX and sizes of the table, with memory refused at any step, as
  long as no tables were used that are not there.  The invariant `FileInv` is about the tables that the next call
  will find or make: each descriptor is open, with its owner's position, or on
  the stack of free ones, once; those that a growth adds may be free or not, as
  the code leaves them out.  `SeekWithin` shows that a seek by an offset that is
  an int goes where it is asked to, and any other stays in the file.

`LocksAndImages_proofs` proves of the ELF loader:

- `ImagesAlwaysLoaded`: `ElfSpec => []ImagesLoaded`, for any pages and any
  segments.  Sorting puts the segments in order (`SortedEffect`), and turn by turn
  (`PrepareTurn`) every region gets a reservation that is a range of page
  numbers (`Planned`).  A page with a byte of a writable segment comes from the
  reservation of a writable region (`WritablePages`), since the first writable
  segment above would otherwise have taken the frame.  Where no shared page is
  kept by the lower segment, the reservations are apart (`YieldsApart`) and each
  page is in the one it is taken from (`YieldsServe`).  What the pages hold
  is followed page by page (`Loading`): no copy reaches beyond its own segment.

The assumptions are the named `ASSUME`s of the modules.  Threads, clients and
slots are finite sets where they are counted; INT_MIN is negative, UINT_MAX
positive; `NoOne` and the like are none of the values they stand beside; the
word size, headers and pages are positive, `BIT` doubles from one (`BitsDouble`;
the prover knows nothing about powers), the untypeds given are aligned to their
size and apart (`RootsSane`), the fixed pool is aligned to a word
and the virtual pool is whole pages, and the header `base` lies in neither;
a boot CNode has an untyped, keeps
slot 0 empty and every untyped in a slot of its own (`LayoutSane`); a process's
CSpace has the nine slots that the library fixes; words have four or eight bytes,
pages of a stack are multiples of `STACK_CALL_ALIGNMENT`, at least two of it, and a
stack has a page; in `VSpace` a level has at least two
pages, the kernel's region starts at a level and the regions of the boot image
follow each other; requests to mmap are not empty, which `sys_mmap_impl()` refuses, and there is a
reservation for the break, which `sys_brk_dynamic()` asserts.

Only model-checked: every liveness property (fairness and ENABLED are outside
the prover), and `BootUntypedsExact` of `Bootstrap`, whose arithmetic is that
of powers of two.

## 5. Not modelled

Creation and destruction of lock objects beyond their initial state; heap
errors (double frees in `irq_server_thread_new()`); the race of the serial
server's parent with the server over the registry; the result of the slot
allocation that `irq.c:306` ignores, which depends on what the kernel makes of
slot 0; the bitfield search for a free identifier; allocation failures that
leave no trace; the configuration phase of allocman; page tables of more than
two levels; closing a file descriptor that is not open, which the C library's
users must not do and which puts it on the free list twice.

Whole parts: `twinkle.c`, `slab.c`, `vspace_pool.c`, `malloc.c`, the debug vka
and the debug allocator are small and sequential, and their hazards are those of
the modules above; the DMA managers compose operations of `VSpace`;
libsel4bench, libsel4test, most of libsel4simple and libsel4debug and the
architecture directories read or print state and change none; timers, serial
drivers and I/O ports belong to libraries outside this repository.

## 6. Plan

Done, in this order: locks, condition variable, counting semaphore, interrupts,
IRQ server, CSpace allocators, untyped manager, allocation manager, serial
server; proofs for the locks; VSpace manager, processes, ELF loading, first
stack, checkpoints, C library glue, bootstrapping, memory pools; proofs for the
counting semaphore, the CSpace allocators, the untyped manager, the allocation
manager, the IRQ interface and server, the serial server, the memory pools, the
checkpoints, the C library glue, the VSpace manager, the processes, the
capabilities of the bootstrap, the first stack and the ELF loader.

Next: `BootMemoryExact` of the bootstrap, whose lists of untypeds are split by the
same geometry as those of `SplitUtspace`.
