------------------------------ MODULE Process ------------------------------
(***************************************************************************)
(* The processes and threads of libsel4utils: what a configuration creates *)
(* or borrows, what the new process finds in its capability space, and     *)
(* what is given back when the configuration fails or the process is       *)
(* destroyed.                                                              *)
(*                                                                         *)
(* The kernel's capabilities are kept beside the code's own records.  A    *)
(* capability lies in a slot of the vka, in a slot of the process's CNode, *)
(* or in its TCB; an object lives as long as a capability to it exists,    *)
(* and takes the capabilities that lie in it along.  A call is one step;   *)
(* it works on a record of the state, and f names the operation in it that *)
(* fails, if one does.                                                     *)
(***************************************************************************)
EXTENDS Naturals

CONSTANTS
  CspaceSlots,   \* BIT(cspace_size)
  MaxGiven       \* bound: capabilities that the parent gives to a process

(* The layout of a new cspace and one given capability must fit.            *)
ASSUME ProcessAssumption == CspaceSlots \in Nat /\ CspaceSlots >= 9 /\ MaxGiven \in Nat

(* Made for a process; pt stands for what its vspace allocates, frame for   *)
(* the pages that its image is loaded into.                                 *)
Made == {"pd", "ep", "cnode", "tcb", "ipc", "stack", "sc", "reply", "frame", "pt"}

(* Handed in by the parent, who keeps them.                                 *)
Lent == {"lentPd", "lentEp", "lentCnode", "lentSc", "asid", "gift"}

Null == "null"

VKA == <<"vka", 0>>
TCB == <<"tcb", 0>>
Slot(k) == <<"slot", k>>

VARIABLES
  phase,       \* "none", "up", "failed", "destroyed"
  caps,        \* capabilities: <<object, place>>
  held,        \* objects whose untyped memory the vka has handed out
  early,       \* objects given back while a capability to them existed
  sound,       \* no object given back twice, no assertion failed
  heap,        \* malloc: "elf_regions", "elf_phdrs"
  mapped,      \* pages in the process's vspace
  process      \* sel4utils_process_t and the configuration it came from

vars == <<phase, caps, held, early, sound, heap, mapped, process>>

(* Configurations: what is created, lent or left out.                       *)
Configs ==
  {c \in [mcs : BOOLEAN, vspace : BOOLEAN, cspace : BOOLEAN, ep : {"ep", "lentEp", Null},
          sc : {"sc", "lentSc", Null}, elf : {"load", "reserve", "none"}, reservations : 0 .. 2] :
     /\ c.reservations > 0 => c.vspace
     /\ c.mcs /\ c.cspace => c.sc # Null
     /\ ~c.mcs => c.sc = Null}

Zeroed ==
  [own_vspace |-> FALSE, own_cspace |-> FALSE, own_ep |-> FALSE,
   pd |-> Null, ep |-> Null, cnode |-> Null, next_free |-> 0, list |-> {},
   tcb |-> Null, ipc |-> Null, stack |-> Null, sc |-> Null, reply |-> Null,
   own_sc |-> FALSE, own_reply |-> FALSE]

Now == [caps |-> caps, held |-> held, early |-> early, sound |-> sound, heap |-> heap,
        mapped |-> mapped, p |-> process, err |-> FALSE]

Becomes(s) ==
  /\ caps' = s.caps /\ held' = s.held /\ early' = s.early /\ sound' = s.sound
  /\ heap' = s.heap /\ mapped' = s.mapped /\ process' = s.p

Asserts(s, b) == [s EXCEPT !.sound = @ /\ b]

(* The next operation, unless an earlier one failed.                        *)
Then(s, Op(_)) == IF s.err THEN s ELSE Op(s)

Fails(s) == [s EXCEPT !.err = TRUE]

-----------------------------------------------------------------------------
(* The kernel's capabilities.                                               *)

Exists(C, o) == \E c \in C : c[1] = o

(* An object without a capability takes those that lie in it along.         *)
Settled(C) ==
  LET Drop(D) == {c \in D : /\ c[2][1] = "slot" => Exists(D, "cnode")
                            /\ c[2][1] = "tcb" => Exists(D, "tcb")}
  IN Drop(Drop(Drop(C)))

vka_cnode_revoke(s, o) ==
  [s EXCEPT !.caps = Settled({c \in @ : c[1] # o \/ c[2] = VKA})]

-----------------------------------------------------------------------------
(* vka objects.                                                             *)

vka_alloc_object(s, o, fails) ==
  IF fails THEN Fails(s)
  ELSE [s EXCEPT !.held = @ \cup {o}, !.caps = @ \cup {<<o, VKA>>}]

vka_free_object(s, o) ==
  LET C == Settled(s.caps \ {<<o, VKA>>}) IN
  [s EXCEPT !.caps = C, !.held = @ \ {o}, !.sound = @ /\ o \in s.held,
            !.early = @ \cup {x \in {o} : Exists(C, x)}]

(* A page of the process's vspace.  The first one makes the vspace allocate *)
(* a table, which the process keeps in its list.                            *)
sel4utils_allocated_object(s) ==
  IF s.p.own_vspace /\ "pt" \notin s.held
  THEN [vka_alloc_object(s, "pt", FALSE) EXCEPT !.p.list = @ \cup {"pt"}]
  ELSE s

MapNew(s, o, fails) ==
  IF fails THEN Fails(s)
  ELSE [sel4utils_allocated_object(vka_alloc_object(s, o, FALSE)) EXCEPT !.mapped = @ \cup {o}]

UnmapFree(s, o) == [vka_free_object(s, o) EXCEPT !.mapped = @ \ {o}]

(* Frames and tables: none of them holds a capability to another, and the   *)
(* order does not matter.                                                   *)
FreeAll(s, set) ==
  LET C == Settled(s.caps \ {<<o, VKA>> : o \in set}) IN
  [s EXCEPT !.caps = C, !.held = @ \ set, !.sound = @ /\ set \subseteq s.held,
            !.early = @ \cup {o \in set : Exists(C, o)}, !.mapped = @ \ set]

(* An object that is freed if it is there and the process's own.            *)
FreeOwn(s, o, own) == IF own /\ o # Null THEN UnmapFree(s, o) ELSE s

clear_objects(s) == [FreeAll(s, s.p.list) EXCEPT !.p.list = {}]

-----------------------------------------------------------------------------
(* The capability space of the process.                                     *)

SEL4UTILS_CNODE_SLOT == 1
SEL4UTILS_ENDPOINT_SLOT == 2
SEL4UTILS_PD_SLOT == 3
SEL4UTILS_ASID_POOL_SLOT == 4
SEL4UTILS_TCB_SLOT == 5
SEL4UTILS_SCHED_CONTEXT_SLOT == 6
SEL4UTILS_REPLY_SLOT == 7

next_free_slot(s) == IF s.p.next_free >= CspaceSlots THEN 0 ELSE s.p.next_free

allocate_next_slot(s) ==
  [Asserts(s, s.p.next_free < CspaceSlots) EXCEPT !.p.next_free = @ + 1]

(* mint and copy: the slot is used up only if the kernel made the copy.     *)
CopyToProcess(s, o, fails) ==
  IF next_free_slot(s) = 0 \/ fails \/ ~Exists(s.caps, o) THEN s
  ELSE allocate_next_slot([s EXCEPT !.caps = @ \cup {<<o, Slot(s.p.next_free)>>}])

(* A move takes the capability out of the vka, and frees its slot there if  *)
(* the caller says so.                                                      *)
MoveToProcess(s, o, fails) ==
  IF next_free_slot(s) = 0 \/ fails THEN s
  ELSE allocate_next_slot([s EXCEPT !.caps = (@ \ {<<o, VKA>>})
                                             \cup {<<o, Slot(s.p.next_free)>>}])

(* A copy that must end up in a given slot.                                 *)
CopyToSlot(s, o, k) ==
  LET Arrived(r) == Asserts(r, <<o, Slot(k)>> \in r.caps) IN Arrived(CopyToProcess(s, o, FALSE))

create_cspace(s, c, f) ==
  LET Cnode(r) == CopyToSlot([r EXCEPT !.p.cnode = "cnode", !.p.next_free = 1],
                             "cnode", SEL4UTILS_CNODE_SLOT)
      Endpoint(r) == IF s.p.ep # Null THEN CopyToSlot(r, s.p.ep, SEL4UTILS_ENDPOINT_SLOT)
                     ELSE allocate_next_slot(r)
      Vspace(r) == CopyToSlot(CopyToSlot(r, s.p.pd, SEL4UTILS_PD_SLOT),
                              "asid", SEL4UTILS_ASID_POOL_SLOT)
  IN Then(vka_alloc_object(s, "cnode", f = "cnode"), LAMBDA r : Vspace(Endpoint(Cnode(r))))

(* Where a process finds the capabilities that an initial task has.         *)
sel4utils_process_init_cap ==
  [tcb |-> SEL4UTILS_TCB_SLOT, cnode |-> SEL4UTILS_CNODE_SLOT,
   pd |-> SEL4UTILS_PD_SLOT, asid |-> SEL4UTILS_ASID_POOL_SLOT,
   sc |-> SEL4UTILS_SCHED_CONTEXT_SLOT]

-----------------------------------------------------------------------------
(* Threads.                                                                 *)

sel4utils_clean_up_thread(s) ==
  LET stackless == FreeOwn(FreeOwn(FreeOwn(s, s.p.tcb, TRUE), s.p.ipc, TRUE), s.p.stack, TRUE)
  IN [FreeOwn(FreeOwn(stackless, s.p.sc, s.p.own_sc), s.p.reply, s.p.own_reply) EXCEPT
        !.p.tcb = Null, !.p.ipc = Null, !.p.stack = Null, !.p.sc = Null,
        !.p.reply = Null, !.p.own_sc = FALSE, !.p.own_reply = FALSE]

(* An error after which the thread is cleaned up.                           *)
CleanFail(s) == Fails(sel4utils_clean_up_thread(s))

(* Only the error -1 of the allocation is noticed; with another the thread  *)
(* goes on without a TCB, up to the invocation that needs it.               *)
AllocTcb(s, f) ==
  CASE f = "tcb" -> CleanFail(s)
    [] f = "tcbOther" -> s
    [] OTHER -> [vka_alloc_object(s, "tcb", FALSE) EXCEPT !.p.tcb = "tcb"]

(* Nothing is cleaned up where the buffer cannot be allocated.              *)
AllocIpcBuffer(s, f) ==
  Then(MapNew(s, "ipc", f = "ipc"), LAMBDA r : [r EXCEPT !.p.ipc = "ipc"])

AllocReply(s, c, f) ==
  IF c.mcs /\ c.cspace
  THEN IF f = "reply" THEN CleanFail(s)
       ELSE [vka_alloc_object(s, "reply", FALSE) EXCEPT !.p.reply = "reply", !.p.own_reply = TRUE]
  ELSE s

(* own_sc is set after the scheduling context has been configured.          *)
AllocSchedContext(s, c, f) ==
  LET r == [vka_alloc_object(s, "sc", FALSE) EXCEPT !.p.sc = "sc"] IN
  IF c.sc # "sc" THEN [s EXCEPT !.p.sc = c.sc]
  ELSE IF f = "sc" THEN CleanFail(s)
  ELSE IF f = "scConfigure" THEN CleanFail(r)
  ELSE [r EXCEPT !.p.own_sc = TRUE]

(* The TCB takes copies of the CNode, the root of the vspace, the buffer,   *)
(* and on MCS of the fault endpoint.                                        *)
TcbConfigure(s, c, f) ==
  IF s.p.tcb = Null \/ f = "configure" THEN CleanFail(s)
  ELSE [s EXCEPT !.caps = @ \cup {<<o, TCB>> : o \in
          {s.p.cnode, s.p.pd, s.p.ipc} \cup ({s.p.ep} \ (IF c.mcs THEN {Null} ELSE {s.p.ep}))}]

(* A refused maximum priority, alone, leaves the thread as it is.           *)
SetPriorities(s, f) ==
  CASE f = "mcp" -> Fails(s)
    [] f = "priority" -> CleanFail(s)
    [] OTHER -> s

AllocStack(s, f) ==
  IF f = "stack" THEN CleanFail(s) ELSE [MapNew(s, "stack", FALSE) EXCEPT !.p.stack = "stack"]

sel4utils_configure_thread_config(s, c, f) ==
  LET r1 == AllocTcb(s, f)
      r2 == Then(r1, LAMBDA r : AllocIpcBuffer(r, f))
      r3 == Then(r2, LAMBDA r : AllocReply(r, c, f))
      r4 == Then(r3, LAMBDA r : AllocSchedContext(r, c, f))
      r5 == Then(r4, LAMBDA r : TcbConfigure(r, c, f))
      r6 == Then(r5, LAMBDA r : SetPriorities(r, f))
  IN Then(r6, LAMBDA r : AllocStack(r, f))

-----------------------------------------------------------------------------
(* Configuring a process.                                                   *)

CreateVspaceRoot(s, c, f) ==
  IF c.vspace
  THEN Then(vka_alloc_object(s, "pd", f = "pd"),
            LAMBDA r : [r EXCEPT !.p.pd = "pd", !.err = f = "asid"])
  ELSE [s EXCEPT !.p.pd = "lentPd"]

create_fault_endpoint(s, f) ==
  Then([vka_alloc_object(s, "ep", f = "ep") EXCEPT !.p.own_ep = TRUE],
       LAMBDA r : [r EXCEPT !.p.ep = "ep"])

(* A reservation that cannot be made after another was is a read of the     *)
(* null pointer in the clean up: f does not name it.                        *)
create_process_reservations(s, c, f) == IF c.reservations > 0 /\ f = "reserve" THEN Fails(s) ELSE s

(* A load that fails part of the way leaves the pages that it has mapped.   *)
LoadElf(s, c, f) ==
  LET loaded == MapNew(s, "frame", FALSE)
      regions == [s EXCEPT !.heap = @ \cup {"elf_regions"}]
      image == IF c.elf = "load" THEN loaded ELSE regions
  IN CASE c.elf = "none" -> s
       [] c.elf # "none" /\ f \in {"cpio", "elf_regions"} -> Fails(s)
       [] c.elf # "none" /\ f = "elf" -> Fails(IF c.elf = "load" THEN s ELSE regions)
       [] c.elf # "none" /\ f \in {"elfLate", "elf_phdrs"} -> Fails(image)
       [] OTHER -> [image EXCEPT !.heap = @ \cup {"elf_phdrs"}]

(* The capabilities of the thread, in the process's cspace.                 *)
CopyThreadCaps(s, c) ==
  LET Rest(t) == IF c.mcs
                 THEN CopyToSlot(CopyToSlot(t, t.p.sc, SEL4UTILS_SCHED_CONTEXT_SLOT),
                                 t.p.reply, SEL4UTILS_REPLY_SLOT)
                 ELSE allocate_next_slot(allocate_next_slot(t))
  IN IF c.cspace THEN Rest(CopyToSlot(s, s.p.tcb, SEL4UTILS_TCB_SLOT)) ELSE s

(* The end of configure_process_custom, where anything failed.              *)
CleanUp(s, c) ==
  [FreeOwn(FreeOwn(FreeOwn(s, s.p.ep, c.ep = "ep"), s.p.cnode, c.cspace), s.p.pd, c.vspace)
     EXCEPT !.heap = {}]

sel4utils_configure_process_custom(s, c, f) ==
  LET r0 == [s EXCEPT !.p = [Zeroed EXCEPT !.own_vspace = c.vspace]]
      r1 == CreateVspaceRoot(r0, c, f)
      r2 == Then(r1, LAMBDA r : IF c.ep = "ep" THEN create_fault_endpoint(r, f)
                                ELSE [r EXCEPT !.p.ep = c.ep])
      r3 == Then(r2, LAMBDA r : IF c.cspace
                                THEN create_cspace([r EXCEPT !.p.own_cspace = TRUE], c, f)
                                ELSE [r EXCEPT !.p.cnode = "lentCnode"])
      r4 == Then(r3, LAMBDA r : create_process_reservations(r, c, f))
      r5 == Then(r4, LAMBDA r : LoadElf(r, c, f))
      r6 == Then(r5, LAMBDA r : sel4utils_configure_thread_config(r, c, f))
      Ended(r) == IF r.err THEN CleanUp(r, c) ELSE r
  IN Ended(Then(r6, LAMBDA r : CopyThreadCaps(r, c)))

(* The operations that can fail.                                            *)
Failures == {Null, "pd", "asid", "ep", "cnode", "reserve", "cpio", "elf_regions", "elf",
             "elfLate", "elf_phdrs", "tcb", "tcbOther", "ipc", "reply", "sc",
             "scConfigure", "configure", "mcp", "priority", "stack"}

Init ==
  /\ phase = "none"
  /\ caps = {<<o, VKA>> : o \in Lent} /\ held = Lent
  /\ early = {} /\ sound = TRUE /\ heap = {} /\ mapped = {}
  /\ process = Zeroed

(* A process structure is used again only after sel4utils_destroy_process.  *)
ConfigureProcess(c, f) ==
  /\ phase \in {"none", "destroyed"}
  /\ held = Lent /\ <<"gift", VKA>> \in caps
  /\ \E s \in {sel4utils_configure_process_custom(Now, c, f)} :
       /\ phase' = IF s.err THEN "failed" ELSE "up"
       /\ Becomes(s)

(* The parent gives a capability to the process: a copy, or its own.        *)
GiveCap(o, fails) ==
  /\ phase = "up" /\ process.own_cspace /\ <<o, VKA>> \in caps
  /\ process.next_free <= SEL4UTILS_REPLY_SLOT + MaxGiven
  /\ Becomes(CopyToProcess(Now, o, fails))
  /\ UNCHANGED phase

MoveCap(o, fails) ==
  /\ phase = "up" /\ process.own_cspace /\ <<o, VKA>> \in caps
  /\ process.next_free <= SEL4UTILS_REPLY_SLOT + MaxGiven
  /\ Becomes(MoveToProcess(Now, o, fails))
  /\ UNCHANGED phase

(* An interrupt handler and a frame; a copy that fails is not reported.     *)
sel4utils_copy_timer_caps_to_process(fails) ==
  /\ phase = "up" /\ process.own_cspace /\ <<"gift", VKA>> \in caps
  /\ process.next_free <= SEL4UTILS_REPLY_SLOT + MaxGiven
  /\ Becomes(CopyToProcess(CopyToProcess(Now, "gift", fails), "gift", FALSE))
  /\ UNCHANGED phase

(* The rest of sel4utils_destroy_process, when the cspace is gone.          *)
DestroyRest(s) ==
  LET TornDown(t) == IF s.p.own_vspace THEN clear_objects(FreeAll(t, t.mapped)) ELSE t
  IN [FreeOwn(FreeOwn(TornDown(sel4utils_clean_up_thread(s)), s.p.ep, s.p.own_ep),
              s.p.pd, s.p.own_vspace) EXCEPT !.heap = {}]

(* Mutant: the CNode is freed without revoking it. *)
sel4utils_destroy_process_no_revoke(s) ==
  DestroyRest(IF s.p.own_cspace THEN vka_free_object(s, s.p.cnode) ELSE s)

sel4utils_destroy_process(s) ==
  DestroyRest(IF s.p.own_cspace
              THEN vka_free_object(vka_cnode_revoke(s, s.p.cnode), s.p.cnode) ELSE s)

DestroyProcess ==
  /\ phase = "up" /\ phase' = "destroyed"
  /\ Becomes(sel4utils_destroy_process(Now))

Next ==
  \/ \E c \in Configs, f \in Failures : ConfigureProcess(c, f)
  \/ \E o \in {"gift", "ep", "tcb"}, fails \in BOOLEAN : GiveCap(o, fails)
  \/ \E fails \in BOOLEAN : \/ MoveCap("gift", fails)
                            \/ sel4utils_copy_timer_caps_to_process(fails)
  \/ DestroyProcess

Spec == Init /\ [][Next]_vars

-----------------------------------------------------------------------------
(* What a parent lends to a process stays the parent's, whatever fails; no  *)
(* object is given back twice, and no assertion of the code fails.          *)
LentIsKept ==
  /\ sound /\ Lent \subseteq held /\ held \subseteq Lent \cup Made
  /\ \A o \in Lent \ {"gift"} : <<o, VKA>> \in caps
  /\ phase = "failed" => heap = {}

(* A process finds its own objects at the slots that the library promises,  *)
(* and the next slot to be given out is empty, after any gifts.             *)
SlotsAgree ==
  phase = "up" /\ process.own_cspace =>
    /\ \A o \in {"tcb", "cnode", "pd", "asid", "sc"} : \A k \in 1 .. CspaceSlots :
         k <= SEL4UTILS_REPLY_SLOT /\ <<o, Slot(k)>> \in caps => k = sel4utils_process_init_cap[o]
    /\ \A o \in {"tcb", "cnode", "asid"} : <<o, Slot(sel4utils_process_init_cap[o])>> \in caps
    /\ process.own_ep => <<"ep", Slot(SEL4UTILS_ENDPOINT_SLOT)>> \in caps
    /\ \A c \in caps : c[2][1] = "slot" => c[2][2] < process.next_free
    /\ \A c, d \in caps : c[2] = d[2] /\ c[2][1] = "slot" => c = d

(* Destroying a process deletes every object that was made for it, whatever *)
(* refers to whatever, and returns its memory after its last capability.    *)
DestroyedIsGone ==
  phase = "destroyed" =>
    /\ held = Lent \cup (IF process.own_vspace THEN {} ELSE held \cap {"frame"})
    /\ \A c \in caps : c[1] \in held
    /\ early = {} /\ heap = {}

(* Whatever fails in between, a process has its objects where it looks for  *)
(* them while it is up, what was lent stays its parent's, and what was made *)
(* for it is gone with it.                                                  *)
ObjectsExact == LentIsKept /\ SlotsAgree /\ DestroyedIsGone

(* The vka wants every capability to an object deleted before its memory is *)
(* given back.                                                              *)
FreedIsDeleted == early = {}
=============================================================================
