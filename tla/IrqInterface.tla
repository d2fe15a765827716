----------------------------- MODULE IrqInterface -----------------------------
(***************************************************************************)
(* The IRQ interface of libsel4platsupport (irq.c).  Interrupts are        *)
(* registered with a callback and paired with a badge bit of a             *)
(* notification; waiting on the notification, polling it, or handing in a  *)
(* badge that was received from it, runs the callbacks.                    *)
(*                                                                         *)
(* The kernel is modelled from its use: an interrupt whose handler is      *)
(* bound sets its bit in the notification's word and stays masked until it *)
(* is acknowledged; reading the word clears it.  A callback acknowledges,  *)
(* at once or later, through the acknowledgement it is handed.             *)
(*                                                                         *)
(* Sets of bits stand for machine words.  The standard interface and the   *)
(* mini interface (one notification, given at creation) are both modelled; *)
(* which one a behaviour uses is chosen at its start.                      *)
(***************************************************************************)
EXTENDS Integers, FiniteSets, FiniteSetsExt

CONSTANTS
  Lines,        \* interrupt lines of the platform
  MaxIrqIds,    \* irq_interface_config_t.max_irq_ids
  MaxNtfnIds,   \* irq_interface_config_t.max_ntfn_ids
  BadgeBits,    \* MAX_INTERRUPTS_TO_NOTIFICATIONS
  MaskChoices,  \* the sets of masks an application may wait and poll with
  NoLine        \* not a line

IrqIds == 0 .. MaxIrqIds - 1
NtfnIds == 0 .. MaxNtfnIds - 1
Bits == 0 .. BadgeBits - 1
UNPAIRED_ID == -1

ASSUME IrqConfig ==
  /\ MaxIrqIds \in Nat \ {0} /\ MaxNtfnIds \in Nat \ {0} /\ BadgeBits \in Nat \ {0}
  /\ MaskChoices \subseteq SUBSET SUBSET Bits
  /\ NoLine \notin Lines

VARIABLES
  irq,     \* irq_table
  ntfn,    \* ntfn_table
  kbound,  \* kernel: the <<notification, bit>> a line's handler is bound to
  masked,  \* kernel: lines that await acknowledgement
  word,    \* kernel: the bits set in each notification
  inhand,  \* badges received outside the interface, for irq_handle()
  acks,    \* acknowledgements handed to callbacks and not used yet
  mini,    \* the mini interface is used; never changes
  masks    \* the masks the application waits and polls with; never changes

config == <<mini, masks>>
vars == <<irq, ntfn, kbound, masked, word, inhand, acks>>

Unbound == <<UNPAIRED_ID, 0>>

FreeIrq == [allocated |-> FALSE, line |-> NoLine, paired_ntfn |-> UNPAIRED_ID, badge |-> UNPAIRED_ID]

EmptyNtfn(first) ==
  [allocated |-> FALSE, usable |-> {}, status |-> {}, pending |-> {},
   bound_irqs |-> [b \in Bits |-> first], num_irqs_bound |-> 0]

(* provide_ntfn_common() zeroes the entry, bound_irqs included. *)
ProvidedNtfn(mask) ==
  [EmptyNtfn(0) EXCEPT !.allocated = TRUE, !.usable = mask]

(* sel4platsupport_new_irq_ops() and sel4platsupport_new_mini_irq_ops() *)
Init ==
  /\ mini \in BOOLEAN
  /\ masks \in MaskChoices
  /\ irq = [i \in IrqIds |-> FreeIrq]
  /\ \E mask \in SUBSET Bits \ {{}} :
       ntfn = [n \in NtfnIds |-> IF mini /\ n = 0 THEN ProvidedNtfn(mask)
                                 ELSE EmptyNtfn(UNPAIRED_ID)]
  /\ kbound = [l \in Lines |-> Unbound]
  /\ masked = {}
  /\ word = [n \in NtfnIds |-> {}]
  /\ inhand = [n \in NtfnIds |-> {}]
  /\ acks = {}

-----------------------------------------------------------------------------
Registered == {i \in IrqIds : irq[i].allocated}

Provided == {n \in NtfnIds : ntfn[n].allocated}

(* find_free_irq_id() and find_free_ntfn_badge_index() *)
FreeIrqId == Min(IrqIds \ Registered)

FreeBadgeBits(n) == ntfn[n].usable \ ntfn[n].status

(* A line has one handler: the kernel refuses a second one. *)
LineTaken(l) == \E i \in Registered : irq[i].line = l

RegisteredIrq(l) == [FreeIrq EXCEPT !.allocated = TRUE, !.line = l]

(* irq_register_common(); failures leave everything as it was. *)
Register(l) ==
  /\ ~mini
  /\ Registered # IrqIds
  /\ ~LineTaken(l)
  /\ irq' = [irq EXCEPT ![FreeIrqId] = RegisteredIrq(l)]
  /\ UNCHANGED <<ntfn, kbound, masked, word, inhand, acks>>

(* The notification's side of an interrupt that is paired. *)
Paired(entry, b, i) ==
  [entry EXCEPT !.status = @ \cup {b}, !.bound_irqs[b] = i, !.num_irqs_bound = @ + 1]

(* irq_set_ntfn_common() once its checks have passed: bind the line's        *)
(* handler to the lowest free bit and acknowledge, so that it may fire.      *)
Pair(n, i, l) ==
  LET b == Min(FreeBadgeBits(n)) IN
  /\ ntfn' = [ntfn EXCEPT ![n] = Paired(@, b, i)]
  /\ irq' = [irq EXCEPT ![i] = [RegisteredIrq(l) EXCEPT !.paired_ntfn = n, !.badge = b]]
  /\ kbound' = [kbound EXCEPT ![l] = <<n, b>>]
  /\ masked' = masked \ {l}

(* sel4platsupport_irq_set_ntfn() *)
SetNtfn(n, i) ==
  /\ ~mini
  /\ n \in Provided /\ i \in Registered
  /\ irq[i].paired_ntfn = UNPAIRED_ID
  /\ ntfn[n].num_irqs_bound < BadgeBits
  /\ FreeBadgeBits(n) # {}
  /\ Pair(n, i, irq[i].line)
  /\ UNCHANGED <<word, inhand, acks>>

(* sel4platsupport_irq_register_mini(): register and pair, or, when there   *)
(* is no bit left, unregister again and report the error.                   *)
RegisterMini(l) ==
  /\ mini
  /\ Registered # IrqIds
  /\ ~LineTaken(l)
  /\ FreeBadgeBits(0) # {}
  /\ Pair(0, FreeIrqId, l)
  /\ UNCHANGED <<word, inhand, acks>>

(* The notification's side of an interrupt that goes away. *)
Unpair(entry, b) ==
  [entry EXCEPT !.status = @ \ {b}, !.pending = @ \ {b},
                !.bound_irqs[b] = UNPAIRED_ID, !.num_irqs_bound = @ - 1]

(* sel4platsupport_irq_unregister(): unpair if paired, delete the handler   *)
(* (which deactivates the line), clear the entry.                           *)
Unregister(i) ==
  /\ i \in Registered
  /\ LET e == irq[i] IN
       /\ ntfn' = IF e.paired_ntfn = UNPAIRED_ID THEN ntfn
                  ELSE [ntfn EXCEPT ![e.paired_ntfn] = Unpair(@, e.badge)]
       /\ kbound' = [kbound EXCEPT ![e.line] = Unbound]
       /\ masked' = masked \ {e.line}
  /\ irq' = [irq EXCEPT ![i] = FreeIrq]
  /\ UNCHANGED <<word, inhand, acks>>

(* Mutant: the handler keeps its binding. *)
UnsetKeepsBinding(i) ==
  /\ ~mini
  /\ i \in Registered
  /\ irq[i].paired_ntfn # UNPAIRED_ID
  /\ ntfn' = [ntfn EXCEPT ![irq[i].paired_ntfn] = Unpair(@, irq[i].badge)]
  /\ irq' = [irq EXCEPT ![i] = RegisteredIrq(irq[i].line)]
  /\ UNCHANGED <<kbound, masked, word, inhand, acks>>

(* sel4platsupport_irq_unset_ntfn() *)
UnsetNtfn(i) ==
  /\ ~mini
  /\ i \in Registered
  /\ irq[i].paired_ntfn # UNPAIRED_ID
  /\ ntfn' = [ntfn EXCEPT ![irq[i].paired_ntfn] = Unpair(@, irq[i].badge)]
  /\ irq' = [irq EXCEPT ![i] = RegisteredIrq(irq[i].line)]
  /\ kbound' = [kbound EXCEPT ![irq[i].line] = Unbound]
  /\ UNCHANGED <<masked, word, inhand, acks>>

-----------------------------------------------------------------------------
(* sel4platsupport_irq_provide_ntfn(): a fresh notification under the        *)
(* lowest free ID, or under the caller's hint (..._with_id).                 *)
ProvideNtfn(n, mask) ==
  /\ ~mini
  /\ n \notin Provided
  /\ ntfn' = [ntfn EXCEPT ![n] = ProvidedNtfn(mask)]
  /\ UNCHANGED <<irq, kbound, masked, word, inhand, acks>>

(* Mutant: the interrupts' side is forgotten. *)
ReturnNtfnOneSided(n) ==
  /\ ~mini
  /\ n \in Provided
  /\ ntfn' = [ntfn EXCEPT ![n] = EmptyNtfn(UNPAIRED_ID)]
  /\ UNCHANGED <<irq, kbound, masked, word, inhand, acks>>

(* sel4platsupport_irq_return_ntfn(): every interrupt bound to it is        *)
(* unbound, and the entry is cleared; what the notification held is the     *)
(* user's again.                                                            *)
ReturnNtfn(n) ==
  /\ ~mini
  /\ n \in Provided
  /\ LET gone == {ntfn[n].bound_irqs[b] : b \in ntfn[n].status} IN
       /\ irq' = [i \in IrqIds |-> IF i \in gone THEN RegisteredIrq(irq[i].line) ELSE irq[i]]
       /\ kbound' = [l \in Lines |-> IF \E i \in gone : irq[i].line = l THEN Unbound
                                     ELSE kbound[l]]
  /\ ntfn' = [ntfn EXCEPT ![n] = EmptyNtfn(UNPAIRED_ID)]
  /\ word' = [word EXCEPT ![n] = {}]
  /\ inhand' = [inhand EXCEPT ![n] = {}]
  /\ UNCHANGED <<masked, acks>>

-----------------------------------------------------------------------------
(* Kernel: a bound line that is not masked fires. *)
Fire(l) ==
  /\ kbound[l] # Unbound
  /\ l \notin masked
  /\ word' = [word EXCEPT ![kbound[l][1]] = @ \cup {kbound[l][2]}]
  /\ masked' = masked \cup {l}
  /\ UNCHANGED <<irq, ntfn, kbound, inhand, acks>>

(* perform_callback(): the bits among bs whose callback runs.  An entry      *)
(* without a callback has none; irq_table[-1] lies outside the table, and    *)
(* whether it looks like a callback is left open by `wild`.                  *)
Served(n, bs, wild) ==
  {b \in bs : LET i == ntfn[n].bound_irqs[b] IN
                IF i = UNPAIRED_ID THEN wild ELSE irq[i].allocated}

(* The acknowledgements the callbacks of these bits are handed. *)
NewAcks(n, bs) ==
  {[id |-> ntfn[n].bound_irqs[b], line |-> irq[ntfn[n].bound_irqs[b]].line] :
     b \in {c \in bs : ntfn[n].bound_irqs[c] # UNPAIRED_ID}}

SymmetricDifference(S, T) == (S \ T) \cup (T \ S)

(* Mutant: the callback runs without being handed an acknowledgement. *)
ServeWithoutAck(n, mask, badge) ==
  \E wild \in BOOLEAN :
    LET unchecked == (badge \cap ntfn[n].usable) \cup ntfn[n].pending
        served == Served(n, unchecked \cap mask, wild) IN
    /\ ntfn' = [ntfn EXCEPT ![n].pending =
                  SymmetricDifference(@, (badge \cap ntfn[n].usable) \ served)]
    /\ UNCHANGED acks

(* serve_irq(): run the callbacks of the bits received and of those left    *)
(* over, as far as they are in the mask; then toggle the unserved ones in   *)
(* the pending bitfield.                                                    *)
Serve(n, mask, badge) ==
  \E wild \in BOOLEAN :
    LET unchecked == (badge \cap ntfn[n].usable) \cup ntfn[n].pending
        served == Served(n, unchecked \cap mask, wild) IN
    /\ acks' = acks \cup NewAcks(n, served)
    /\ ntfn' = [ntfn EXCEPT ![n].pending =
                  SymmetricDifference(@, (badge \cap ntfn[n].usable) \ served)]

(* sel4platsupport_irq_wait() *)
Wait(n, mask) ==
  /\ n \in Provided
  /\ word[n] # {}
  /\ Serve(n, mask, word[n])
  /\ word' = [word EXCEPT ![n] = {}]
  /\ UNCHANGED <<irq, kbound, masked, inhand>>

(* sel4platsupport_irq_poll() *)
Poll(n, mask) ==
  /\ n \in Provided
  /\ Serve(n, mask, word[n])
  /\ word' = [word EXCEPT ![n] = {}]
  /\ UNCHANGED <<irq, kbound, masked, inhand>>

(* The owner of the notification receives a badge by itself... *)
Receive(n) ==
  /\ n \in Provided
  /\ word[n] # {} /\ inhand[n] = {}
  /\ inhand' = [inhand EXCEPT ![n] = word[n]]
  /\ word' = [word EXCEPT ![n] = {}]
  /\ UNCHANGED <<irq, ntfn, kbound, masked, acks>>

(* Mutant: a callback that runs is not handed an acknowledgement. *)
HandleBadgeWithoutAck(n, badge) ==
  \E wild \in BOOLEAN :
    /\ ntfn' = [ntfn EXCEPT ![n].pending = @ \ Served(n, badge \cap ntfn[n].usable, wild)]
    /\ UNCHANGED acks

(* sel4platsupport_irq_handle(): run the callbacks of a badge that was       *)
(* received outside the interface.                                          *)
HandleBadge(n, badge) ==
  \E wild \in BOOLEAN :
    LET served == Served(n, badge \cap ntfn[n].usable, wild) IN
    /\ acks' = acks \cup NewAcks(n, served)
    /\ ntfn' = [ntfn EXCEPT ![n].pending = @ \ served]

(* ...and gives it to the interface, later. *)
Handle(n) ==
  /\ n \in Provided
  /\ inhand[n] # {}
  /\ HandleBadge(n, inhand[n])
  /\ inhand' = [inhand EXCEPT ![n] = {}]
  /\ UNCHANGED <<irq, kbound, masked, word>>

(* sel4platsupport_irq_acknowledge(): by ID, if that is still registered. *)
Acknowledge(a) ==
  /\ a \in acks
  /\ acks' = acks \ {a}
  /\ masked' = IF irq[a.id].allocated THEN masked \ {irq[a.id].line} ELSE masked
  /\ UNCHANGED <<irq, ntfn, kbound, word, inhand>>

-----------------------------------------------------------------------------
Next ==
  \/ \E l \in Lines : Register(l) \/ RegisterMini(l) \/ Fire(l)
  \/ \E i \in IrqIds : Unregister(i) \/ UnsetNtfn(i)
  \/ \E n \in NtfnIds, i \in IrqIds : SetNtfn(n, i)
  \/ \E n \in NtfnIds, mask \in SUBSET Bits \ {{}} : ProvideNtfn(n, mask)
  \/ \E n \in NtfnIds : ReturnNtfn(n) \/ Receive(n) \/ Handle(n)
  \/ \E n \in NtfnIds, mask \in masks : Wait(n, mask) \/ Poll(n, mask)
  \/ \E a \in acks : Acknowledge(a)

Spec == Init /\ [][Next /\ UNCHANGED config]_<<vars, config>>

(* The application waits on its notifications for everything, handles the   *)
(* badges it received, and its callbacks acknowledge.                       *)
Fairness ==
  /\ \A n \in NtfnIds : WF_vars(Wait(n, Bits)) /\ WF_vars(Handle(n))
  /\ \A i \in IrqIds, l \in Lines : WF_vars(Acknowledge([id |-> i, line |-> l]))

FairSpec == Spec /\ Fairness

-----------------------------------------------------------------------------
(* Properties.                                                             *)

IrqEntries ==
  [allocated : BOOLEAN, line : Lines \cup {NoLine},
   paired_ntfn : NtfnIds \cup {UNPAIRED_ID}, badge : Bits \cup {UNPAIRED_ID}]

NtfnEntries ==
  [allocated : BOOLEAN, usable : SUBSET Bits, status : SUBSET Bits, pending : SUBSET Bits,
   bound_irqs : [Bits -> IrqIds \cup {UNPAIRED_ID}], num_irqs_bound : 0 .. BadgeBits]

(* The type invariant. *)
TypeOK ==
  /\ irq \in [IrqIds -> IrqEntries]
  /\ ntfn \in [NtfnIds -> NtfnEntries]
  /\ kbound \in [Lines -> (NtfnIds \X Bits) \cup {Unbound}]
  /\ masked \subseteq Lines
  /\ word \in [NtfnIds -> SUBSET Bits]
  /\ inhand \in [NtfnIds -> SUBSET Bits]
  /\ acks \subseteq [id : IrqIds, line : Lines]

(* The two tables name each other: an interrupt is paired with a bit of a   *)
(* notification exactly when that bit is taken, and taken by it.            *)
PairingConsistent ==
  /\ \A i \in IrqIds : irq[i].paired_ntfn # UNPAIRED_ID =>
       /\ irq[i].allocated
       /\ ntfn[irq[i].paired_ntfn].allocated
       /\ irq[i].badge \in ntfn[irq[i].paired_ntfn].status
       /\ ntfn[irq[i].paired_ntfn].bound_irqs[irq[i].badge] = i
  /\ \A n \in NtfnIds : \A b \in ntfn[n].status :
       LET i == ntfn[n].bound_irqs[b] IN
       i # UNPAIRED_ID /\ irq[i].paired_ntfn = n /\ irq[i].badge = b

(* num_irqs_bound, which limits further pairings, is exact. *)
BoundCountExact ==
  \A n \in NtfnIds :
    /\ ntfn[n].num_irqs_bound = Cardinality(ntfn[n].status)
    /\ ntfn[n].status \subseteq ntfn[n].usable

(* An entry of the interrupts' table is clear or has a line, which no other *)
(* entry has; a pending bit can be a badge's; and the mini interface keeps  *)
(* the notification it was created with.                                    *)
EntriesSound ==
  /\ \A i \in IrqIds : IF irq[i].allocated THEN irq[i].line \in Lines ELSE irq[i] = FreeIrq
  /\ \A i, j \in Registered : irq[i].line = irq[j].line => i = j
  /\ \A n \in NtfnIds : ntfn[n].pending \subseteq ntfn[n].usable
  /\ mini => 0 \in Provided

(* What registering, pairing and returning keep true of the two tables:    *)
(* they name each other, and the count agrees with them.                    *)
TablesAgree ==
  /\ TypeOK
  /\ PairingConsistent
  /\ BoundCountExact
  /\ EntriesSound

(* The kernel delivers a line exactly where the tables say. *)
KernelAgrees ==
  \A l \in Lines :
    kbound[l] = IF \E i \in Registered : irq[i].line = l /\ irq[i].paired_ntfn # UNPAIRED_ID
                  THEN LET i == CHOOSE j \in Registered : irq[j].line = l IN
                       <<irq[i].paired_ntfn, irq[i].badge>>
                  ELSE Unbound

(* Somebody still knows of the interrupt on line l. *)
Tracked(l) ==
  LET n == kbound[l][1]
      b == kbound[l][2] IN
  \/ b \in word[n] \cup inhand[n] \cup ntfn[n].pending
  \/ \E a \in acks : irq[a.id].line = l

(* An interrupt that arrived and was not acknowledged is not forgotten: its *)
(* line stays masked, and without a trace of it would stay so for ever.     *)
NoIrqForgotten ==
  \A l \in masked : kbound[l] # Unbound => Tracked(l)

(* When the application waits for everything, every interrupt is            *)
(* acknowledged (or its line unbound), whichever of irq_wait(), irq_poll()  *)
(* and irq_handle() its badge goes through.                                 *)
IrqsServed ==
  \A l \in Lines :
    (masks = {Bits} /\ l \in masked /\ kbound[l] # Unbound)
      ~> (l \notin masked \/ kbound[l] = Unbound)
===============================================================================
