--------------------------- MODULE IrqServer_proofs ---------------------------
(***************************************************************************)
(* Proofs about the IRQ interface and the IRQ server, for any interrupt    *)
(* lines, sizes of the tables and number of badge bits.  TablesAgree and   *)
(* KernelAgrees are inductive together; on top of them, the server's nodes *)
(* are exact and no interrupt is lost on its way.                          *)
(***************************************************************************)
EXTENDS IrqServer, FiniteSetTheorems, WellFoundedInduction, TLAPS

(* A set of naturals has a least element, which Min returns. *)
LEMMA MinIsLeast ==
  ASSUME NEW S \in SUBSET Nat, S # {}
  PROVE  Min(S) \in S
<1>1. PICK x \in S : \A y \in S : ~ (<<y, x>> \in OpToRel(<, Nat))
  BY WFMin, NatLessThanWellFounded
<1>2. ASSUME NEW y \in S, y < x
      PROVE  <<y, x>> \in OpToRel(<, Nat)
  <2>1. <<y, x>> \in Nat \X Nat
    OBVIOUS
  <2>2. <<y, x>>[1] < <<y, x>>[2]
    BY <1>2
  <2> QED
    BY <2>1, <2>2, Zenon DEF OpToRel
<1>3. \A y \in S : ~ (y < x)
  BY <1>1, <1>2
<1>4. \A y \in S : x <= y
  BY <1>3
<1> QED
  BY <1>4 DEF Min

(* UNPAIRED_ID is no ID and no bit. *)
LEMMA Unpaired ==
  /\ UNPAIRED_ID \notin IrqIds /\ UNPAIRED_ID \notin NtfnIds /\ UNPAIRED_ID \notin Bits
  /\ IrqIds \subseteq Nat /\ NtfnIds \subseteq Nat /\ Bits \subseteq Nat
  /\ 0 \in IrqIds /\ 0 \in NtfnIds /\ 0 \in Bits
  /\ \A n \in NtfnIds, b \in Bits : <<n, b>> # Unbound
BY IrqConfig DEF UNPAIRED_ID, IrqIds, NtfnIds, Bits, Unbound

(* Badge bits can be counted. *)
LEMMA BitsFinite ==
  ASSUME NEW S, S \subseteq Bits
  PROVE  IsFiniteSet(S) /\ Cardinality(S) \in 0 .. BadgeBits
<1>1. IsFiniteSet(Bits) /\ Cardinality(Bits) = BadgeBits
  BY IrqConfig, FS_Interval DEF Bits
<1> QED
  BY <1>1, FS_Subset, FS_CardinalityType

-----------------------------------------------------------------------------
(* Entries of the tables.                                                  *)

(* The entry of a notification to which an interrupt is paired. *)
LEMMA PairedIs ==
  ASSUME NEW e \in NtfnEntries, NEW b \in Bits, NEW i \in IrqIds, e.num_irqs_bound < BadgeBits
  PROVE  /\ Paired(e, b, i) \in NtfnEntries
         /\ Paired(e, b, i).allocated = e.allocated
         /\ Paired(e, b, i).usable = e.usable
         /\ Paired(e, b, i).pending = e.pending
         /\ Paired(e, b, i).status = e.status \cup {b}
         /\ Paired(e, b, i).num_irqs_bound = e.num_irqs_bound + 1
         /\ \A c \in Bits : Paired(e, b, i).bound_irqs[c] = IF c = b THEN i ELSE e.bound_irqs[c]
<1> DEFINE f == [e.bound_irqs EXCEPT ![b] = i]
           r == Paired(e, b, i)
<1>1. r = [e EXCEPT !.status = e.status \cup {b}, !.bound_irqs = f, !.num_irqs_bound = e.num_irqs_bound + 1]
  BY DEF Paired
<1>2. e.num_irqs_bound + 1 \in 0 .. BadgeBits
  BY IrqConfig DEF NtfnEntries
<1>3. f \in [Bits -> IrqIds \cup {UNPAIRED_ID}] /\ \A c \in Bits : f[c] = IF c = b THEN i ELSE e.bound_irqs[c]
  BY DEF NtfnEntries
<1>4. e.status \cup {b} \in SUBSET Bits
  BY DEF NtfnEntries
<1> HIDE DEF f, r
<1>5. r \in NtfnEntries /\ r.allocated = e.allocated /\ r.usable = e.usable /\ r.pending = e.pending
      /\ r.status = e.status \cup {b} /\ r.bound_irqs = f /\ r.num_irqs_bound = e.num_irqs_bound + 1
  BY <1>1, <1>2, <1>3, <1>4 DEF NtfnEntries
<1> QED
  BY <1>3, <1>5 DEF r

(* The entry of a notification from which an interrupt is unpaired. *)
LEMMA UnpairIs ==
  ASSUME NEW e \in NtfnEntries, NEW b \in Bits, e.num_irqs_bound > 0
  PROVE  /\ Unpair(e, b) \in NtfnEntries
         /\ Unpair(e, b).allocated = e.allocated
         /\ Unpair(e, b).usable = e.usable
         /\ Unpair(e, b).pending = e.pending \ {b}
         /\ Unpair(e, b).status = e.status \ {b}
         /\ Unpair(e, b).num_irqs_bound = e.num_irqs_bound - 1
         /\ \A c \in Bits : Unpair(e, b).bound_irqs[c] = IF c = b THEN UNPAIRED_ID ELSE e.bound_irqs[c]
<1> DEFINE f == [e.bound_irqs EXCEPT ![b] = UNPAIRED_ID]
           r == Unpair(e, b)
<1>1. r = [e EXCEPT !.status = e.status \ {b}, !.pending = e.pending \ {b}, !.bound_irqs = f,
                    !.num_irqs_bound = e.num_irqs_bound - 1]
  BY DEF Unpair
<1>2. e.num_irqs_bound - 1 \in 0 .. BadgeBits
  BY IrqConfig DEF NtfnEntries
<1>3. /\ f \in [Bits -> IrqIds \cup {UNPAIRED_ID}]
      /\ \A c \in Bits : f[c] = IF c = b THEN UNPAIRED_ID ELSE e.bound_irqs[c]
  BY DEF NtfnEntries
<1> HIDE DEF f, r
<1>5. r \in NtfnEntries /\ r.allocated = e.allocated /\ r.usable = e.usable /\ r.pending = e.pending \ {b}
      /\ r.status = e.status \ {b} /\ r.bound_irqs = f /\ r.num_irqs_bound = e.num_irqs_bound - 1
  BY <1>1, <1>2, <1>3 DEF NtfnEntries
<1> QED
  BY <1>3, <1>5 DEF r

(* A clear entry, and that of a notification just provided. *)
LEMMA EmptyIs ==
  ASSUME NEW first \in IrqIds \cup {UNPAIRED_ID}
  PROVE  /\ EmptyNtfn(first) \in NtfnEntries
         /\ EmptyNtfn(first).status = {} /\ EmptyNtfn(first).pending = {}
         /\ EmptyNtfn(first).num_irqs_bound = 0
         /\ EmptyNtfn(first).allocated = FALSE
BY IrqConfig DEF EmptyNtfn, NtfnEntries

(* See EmptyIs. *)
LEMMA ProvidedIs ==
  ASSUME NEW mask \in SUBSET Bits
  PROVE  /\ ProvidedNtfn(mask) \in NtfnEntries
         /\ ProvidedNtfn(mask).status = {} /\ ProvidedNtfn(mask).pending = {}
         /\ ProvidedNtfn(mask).num_irqs_bound = 0
         /\ ProvidedNtfn(mask).allocated = TRUE
         /\ ProvidedNtfn(mask).usable = mask
<1>1. EmptyNtfn(0) \in NtfnEntries /\ EmptyNtfn(0).status = {} /\ EmptyNtfn(0).pending = {}
      /\ EmptyNtfn(0).num_irqs_bound = 0
  BY EmptyIs, Unpaired
<1> QED
  BY <1>1 DEF ProvidedNtfn, NtfnEntries

(* The entry of an interrupt: clear, and registered. *)
LEMMA IrqEntryIs ==
  /\ FreeIrq \in IrqEntries /\ FreeIrq.allocated = FALSE /\ FreeIrq.paired_ntfn = UNPAIRED_ID
  /\ FreeIrq.line = NoLine
  /\ \A l \in Lines :
       /\ RegisteredIrq(l) \in IrqEntries
       /\ RegisteredIrq(l).allocated = TRUE /\ RegisteredIrq(l).line = l
       /\ RegisteredIrq(l).paired_ntfn = UNPAIRED_ID
BY DEF FreeIrq, RegisteredIrq, IrqEntries

-----------------------------------------------------------------------------
(* Pairing.                                                                *)

(* KernelAgrees, entry by entry. *)
KernelBound ==
  /\ \A i \in IrqIds : irq[i].paired_ntfn # UNPAIRED_ID =>
       kbound[irq[i].line] = <<irq[i].paired_ntfn, irq[i].badge>>
  /\ \A l \in Lines : kbound[l] # Unbound =>
       \E i \in IrqIds : irq[i].line = l /\ irq[i].paired_ntfn # UNPAIRED_ID

(* The part of the invariant that only the tables and the kernel's bindings  *)
(* are part of.                                                             *)
Tables ==
  /\ irq \in [IrqIds -> IrqEntries]
  /\ ntfn \in [NtfnIds -> NtfnEntries]
  /\ kbound \in [Lines -> (NtfnIds \X Bits) \cup {Unbound}]
  /\ PairingConsistent
  /\ BoundCountExact
  /\ EntriesSound
  /\ KernelBound

(* What a registered interrupt's entry tells. *)
LEMMA EntryFacts ==
  ASSUME Tables, NEW i \in IrqIds
  PROVE  /\ irq[i] \in IrqEntries
         /\ irq[i].allocated <=> irq[i].line \in Lines
         /\ irq[i].paired_ntfn # UNPAIRED_ID =>
              /\ irq[i].allocated /\ irq[i].line \in Lines
              /\ irq[i].paired_ntfn \in NtfnIds /\ irq[i].badge \in Bits
              /\ ntfn[irq[i].paired_ntfn].num_irqs_bound > 0
<1>1. irq[i] \in IrqEntries
  BY DEF Tables
<1>2. irq[i].allocated <=> irq[i].line \in Lines
  BY IrqEntryIs, IrqConfig DEF Tables, EntriesSound
<1>3. ASSUME irq[i].paired_ntfn # UNPAIRED_ID
      PROVE  /\ irq[i].allocated /\ irq[i].paired_ntfn \in NtfnIds /\ irq[i].badge \in Bits
             /\ ntfn[irq[i].paired_ntfn].num_irqs_bound > 0
  <2> DEFINE n == irq[i].paired_ntfn
  <2>1. n \in NtfnIds /\ irq[i].allocated
    BY <1>1, <1>3 DEF IrqEntries, Tables, PairingConsistent
  <2>2. irq[i].badge \in ntfn[n].status /\ ntfn[n].status \in SUBSET Bits
    BY <2>1, <1>3 DEF Tables, PairingConsistent, NtfnEntries
  <2>3. Cardinality(ntfn[n].status) # 0 /\ Cardinality(ntfn[n].status) \in Nat
    BY <2>2, BitsFinite, FS_EmptySet
  <2>4. ntfn[n].num_irqs_bound = Cardinality(ntfn[n].status)
    BY <2>1 DEF Tables, BoundCountExact
  <2> QED
    BY <2>1, <2>2, <2>3, <2>4
<1> QED
  BY <1>1, <1>2, <1>3

(* irq_set_ntfn_common() keeps the tables, whichever bit it finds. *)
LEMMA PairKeeps ==
  ASSUME Tables, mini' = mini, NEW n \in Provided, NEW i \in IrqIds, NEW l \in Lines,
         FreeBadgeBits(n) # {}, Pair(n, i, l),
         irq[i].paired_ntfn = UNPAIRED_ID, irq[i].allocated => irq[i].line = l,
         \A j \in Registered : irq[j].line = l => j = i
  PROVE  /\ Tables'
         /\ \A m \in NtfnIds : m # n => ntfn'[m] = ntfn[m]
         /\ ntfn'[n].allocated = ntfn[n].allocated
         /\ ntfn'[n].num_irqs_bound = ntfn[n].num_irqs_bound + 1
         /\ ntfn'[n].usable = ntfn[n].usable
<1> DEFINE b == Min(FreeBadgeBits(n))
           old == ntfn[n]
           new == Paired(ntfn[n], b, i)
           reg == [RegisteredIrq(l) EXCEPT !.paired_ntfn = n, !.badge = b]
<1>0. n \in NtfnIds /\ old \in NtfnEntries
  BY DEF Provided, Tables
<1>1. b \in Bits /\ b \in old.usable /\ b \notin old.status
  <2>1. FreeBadgeBits(n) \in SUBSET Nat
    BY <1>0, Unpaired DEF FreeBadgeBits, NtfnEntries
  <2>2. b \in FreeBadgeBits(n)
    BY <2>1, MinIsLeast
  <2> QED
    BY <1>0, <2>2 DEF FreeBadgeBits, NtfnEntries
<1>2. /\ ntfn' = [ntfn EXCEPT ![n] = new]
      /\ irq' = [irq EXCEPT ![i] = reg]
      /\ kbound' = [kbound EXCEPT ![l] = <<n, b>>]
  BY DEF Pair
<1> HIDE DEF b
<1>3. old.num_irqs_bound < BadgeBits /\ Cardinality(old.status \cup {b}) = old.num_irqs_bound + 1
  <2>1. old.status \subseteq Bits /\ old.status \cup {b} \subseteq Bits
    BY <1>0, <1>1 DEF NtfnEntries
  <2>2. Cardinality(old.status \cup {b}) = Cardinality(old.status) + 1
    BY <1>1, <2>1, BitsFinite, FS_AddElement
  <2>3. Cardinality(old.status \cup {b}) \in 0 .. BadgeBits /\ Cardinality(old.status) \in 0 .. BadgeBits
    BY <2>1, BitsFinite
  <2> QED
    BY <1>0, <2>2, <2>3, IrqConfig DEF Tables, BoundCountExact
<1>4. /\ new \in NtfnEntries /\ new.allocated = old.allocated /\ new.usable = old.usable
      /\ new.pending = old.pending /\ new.status = old.status \cup {b}
      /\ new.num_irqs_bound = old.num_irqs_bound + 1
      /\ \A c \in Bits : new.bound_irqs[c] = IF c = b THEN i ELSE old.bound_irqs[c]
  BY <1>0, <1>1, <1>3, PairedIs
<1> HIDE DEF new
<1>r. reg = [RegisteredIrq(l) EXCEPT !.paired_ntfn = n, !.badge = b]
  OBVIOUS
<1> HIDE DEF reg
<1>5. /\ reg \in IrqEntries
      /\ reg.allocated = TRUE /\ reg.line = l /\ reg.paired_ntfn = n /\ reg.badge = b
  BY <1>0, <1>1, <1>r DEF FreeIrq, RegisteredIrq, IrqEntries
<1>6. ntfn' \in [NtfnIds -> NtfnEntries] /\ ntfn'[n] = new /\ \A m \in NtfnIds : m # n => ntfn'[m] = ntfn[m]
  BY <1>0, <1>2, <1>4 DEF Tables
<1>7. irq' \in [IrqIds -> IrqEntries] /\ irq'[i] = reg /\ \A j \in IrqIds : j # i => irq'[j] = irq[j]
  BY <1>2, <1>5 DEF Tables
<1>8. /\ kbound' \in [Lines -> (NtfnIds \X Bits) \cup {Unbound}]
      /\ kbound'[l] = <<n, b>> /\ \A m \in Lines : m # l => kbound'[m] = kbound[m]
  BY <1>0, <1>1, <1>2 DEF Tables
<1>9. PairingConsistent'
  <2>1. ASSUME NEW j \in IrqIds, irq'[j].paired_ntfn # UNPAIRED_ID
        PROVE  /\ irq'[j].allocated
               /\ ntfn'[irq'[j].paired_ntfn].allocated
               /\ irq'[j].badge \in ntfn'[irq'[j].paired_ntfn].status
               /\ ntfn'[irq'[j].paired_ntfn].bound_irqs[irq'[j].badge] = j
    <3>1. CASE j = i
      BY <3>1, <1>0, <1>1, <1>4, <1>5, <1>6, <1>7 DEF Provided
    <3>2. CASE j # i
      <4>1. irq'[j] = irq[j] /\ irq[j].paired_ntfn \in NtfnIds /\ irq[j].badge \in Bits
        BY <3>2, <2>1, <1>7, EntryFacts
      <4>2. /\ irq[j].allocated
            /\ ntfn[irq[j].paired_ntfn].allocated
            /\ irq[j].badge \in ntfn[irq[j].paired_ntfn].status
            /\ ntfn[irq[j].paired_ntfn].bound_irqs[irq[j].badge] = j
        BY <4>1, <2>1 DEF Tables, PairingConsistent
      <4> QED
        BY <4>1, <4>2, <1>0, <1>1, <1>4, <1>6
    <3> QED
      BY <3>1, <3>2
  <2>2. ASSUME NEW m \in NtfnIds, NEW c \in ntfn'[m].status
        PROVE  /\ ntfn'[m].bound_irqs[c] # UNPAIRED_ID
               /\ irq'[ntfn'[m].bound_irqs[c]].paired_ntfn = m /\ irq'[ntfn'[m].bound_irqs[c]].badge = c
    <3>1. CASE m = n /\ c = b
      BY <3>1, <1>1, <1>4, <1>5, <1>6, <1>7, Unpaired
    <3>2. CASE ~(m = n /\ c = b)
      <4>1. c \in ntfn[m].status /\ c \in Bits
        BY <3>2, <2>2, <1>0, <1>4, <1>6 DEF NtfnEntries, Tables
      <4>2. ntfn'[m].bound_irqs[c] = ntfn[m].bound_irqs[c]
        BY <3>2, <4>1, <1>4, <1>6
      <4>3. /\ ntfn[m].bound_irqs[c] # UNPAIRED_ID
            /\ irq[ntfn[m].bound_irqs[c]].paired_ntfn = m /\ irq[ntfn[m].bound_irqs[c]].badge = c
        BY <4>1 DEF Tables, PairingConsistent
      <4>4. ntfn[m].bound_irqs[c] \in IrqIds /\ ntfn[m].bound_irqs[c] # i
        BY <4>1, <4>3, Unpaired DEF Tables, NtfnEntries
      <4> QED
        BY <4>2, <4>3, <4>4, <1>7
    <3> QED
      BY <3>1, <3>2
  <2> QED
    BY <2>1, <2>2 DEF PairingConsistent
<1>10. BoundCountExact'
  <2>1. ASSUME NEW m \in NtfnIds
        PROVE  /\ ntfn'[m].num_irqs_bound = Cardinality(ntfn'[m].status)
               /\ ntfn'[m].status \subseteq ntfn'[m].usable
    <3>1. CASE m = n
      <4>1. old.status \subseteq old.usable
        BY <1>0 DEF Tables, BoundCountExact
      <4> QED
        BY <3>1, <4>1, <1>1, <1>3, <1>4, <1>6
    <3>2. CASE m # n
      BY <3>2, <1>6 DEF Tables, BoundCountExact
    <3> QED
      BY <3>1, <3>2
  <2> QED
    BY <2>1 DEF BoundCountExact
<1>11. EntriesSound'
  <2>1. \A j \in IrqIds : IF irq'[j].allocated THEN irq'[j].line \in Lines ELSE irq'[j] = FreeIrq
    BY <1>5, <1>7 DEF Tables, EntriesSound
  <2>2. \A j, k \in IrqIds : irq'[j].allocated /\ irq'[k].allocated /\ irq'[j].line = irq'[k].line => j = k
    BY <1>5, <1>7 DEF Tables, EntriesSound, Registered
  <2>3. \A m \in NtfnIds : ntfn'[m].pending \subseteq ntfn'[m].usable
    BY <1>0, <1>4, <1>6 DEF Tables, EntriesSound
  <2>4. mini => 0 \in Provided'
    BY <1>0, <1>4, <1>6, Unpaired DEF Tables, EntriesSound, Provided
  <2> QED
    BY <2>1, <2>2, <2>3, <2>4 DEF EntriesSound, Registered
<1>12. KernelBound'
  <2>1. ASSUME NEW j \in IrqIds, irq'[j].paired_ntfn # UNPAIRED_ID
        PROVE  kbound'[irq'[j].line] = <<irq'[j].paired_ntfn, irq'[j].badge>>
    <3>1. CASE j = i
      BY <3>1, <1>5, <1>7, <1>8
    <3>2. CASE j # i
      <4>1. irq'[j] = irq[j] /\ irq[j].allocated /\ irq[j].line \in Lines
        BY <3>2, <2>1, <1>7, EntryFacts
      <4>2. irq[j].line # l
        BY <3>2, <4>1 DEF Registered
      <4> QED
        BY <2>1, <4>1, <4>2, <1>8 DEF Tables, KernelBound
    <3> QED
      BY <3>1, <3>2
  <2>2. ASSUME NEW k \in Lines, kbound'[k] # Unbound
        PROVE  \E j \in IrqIds : irq'[j].line = k /\ irq'[j].paired_ntfn # UNPAIRED_ID
    <3>1. CASE k = l
      BY <3>1, <1>0, <1>5, <1>7, Unpaired
    <3>2. CASE k # l
      <4>1. PICK j \in IrqIds : irq[j].line = k /\ irq[j].paired_ntfn # UNPAIRED_ID
        BY <3>2, <2>2, <1>8 DEF Tables, KernelBound
      <4>2. irq'[j] = irq[j]
        BY <4>1, <1>7
      <4> QED
        BY <4>1, <4>2
    <3> QED
      BY <3>1, <3>2
  <2> QED
    BY <2>1, <2>2 DEF KernelBound
<1> QED
  BY <1>4, <1>6, <1>7, <1>8, <1>9, <1>10, <1>11, <1>12 DEF Tables

(* Taking an interrupt from its notification keeps the tables: the entry is  *)
(* cleared (irq_unregister()) or stays registered (irq_unset_ntfn()).       *)
LEMMA UnpairKeeps ==
  ASSUME Tables, mini' = mini, NEW i \in Registered, irq[i].paired_ntfn # UNPAIRED_ID,
         ntfn' = [ntfn EXCEPT ![irq[i].paired_ntfn] = Unpair(@, irq[i].badge)],
         irq' = [irq EXCEPT ![i] = FreeIrq] \/ irq' = [irq EXCEPT ![i] = RegisteredIrq(irq[i].line)],
         kbound' = [kbound EXCEPT ![irq[i].line] = Unbound]
  PROVE  Tables'
<1> DEFINE n == irq[i].paired_ntfn
           b == irq[i].badge
           l == irq[i].line
           old == ntfn[n]
           new == Unpair(ntfn[n], b)
<1>0. /\ i \in IrqIds /\ irq[i].allocated /\ n \in NtfnIds /\ b \in Bits /\ l \in Lines
      /\ old \in NtfnEntries /\ old.num_irqs_bound > 0
  BY EntryFacts DEF Registered, Tables
<1>1. old.allocated /\ b \in old.status /\ old.bound_irqs[b] = i
  BY <1>0 DEF Tables, PairingConsistent
<1>2. ntfn' = [ntfn EXCEPT ![n] = new]
  OBVIOUS
<1>4. /\ new \in NtfnEntries /\ new.allocated = old.allocated /\ new.usable = old.usable
      /\ new.pending = old.pending \ {b} /\ new.status = old.status \ {b}
      /\ new.num_irqs_bound = old.num_irqs_bound - 1
      /\ \A c \in Bits : new.bound_irqs[c] = IF c = b THEN UNPAIRED_ID ELSE old.bound_irqs[c]
  BY <1>0, UnpairIs
<1> HIDE DEF new
<1>6. ntfn' \in [NtfnIds -> NtfnEntries] /\ ntfn'[n] = new /\ \A m \in NtfnIds : m # n => ntfn'[m] = ntfn[m]
  BY <1>0, <1>2, <1>4 DEF Tables
<1>7. /\ irq' \in [IrqIds -> IrqEntries] /\ \A j \in IrqIds : j # i => irq'[j] = irq[j]
      /\ irq'[i] = FreeIrq \/ irq'[i] = RegisteredIrq(l)
      /\ irq'[i].paired_ntfn = UNPAIRED_ID
      /\ irq'[i].allocated => irq'[i].line = l
  BY <1>0, IrqEntryIs DEF Tables
<1>8. /\ kbound' \in [Lines -> (NtfnIds \X Bits) \cup {Unbound}]
      /\ kbound'[l] = Unbound /\ \A m \in Lines : m # l => kbound'[m] = kbound[m]
  BY <1>0 DEF Tables
<1>9. PairingConsistent'
  <2>1. ASSUME NEW j \in IrqIds, irq'[j].paired_ntfn # UNPAIRED_ID
        PROVE  /\ irq'[j].allocated
               /\ ntfn'[irq'[j].paired_ntfn].allocated
               /\ irq'[j].badge \in ntfn'[irq'[j].paired_ntfn].status
               /\ ntfn'[irq'[j].paired_ntfn].bound_irqs[irq'[j].badge] = j
    <3>1. j # i
      BY <2>1, <1>7
    <3>2. irq'[j] = irq[j] /\ irq[j].paired_ntfn \in NtfnIds /\ irq[j].badge \in Bits
      BY <3>1, <2>1, <1>7, EntryFacts
    <3>3. /\ irq[j].allocated
          /\ ntfn[irq[j].paired_ntfn].allocated
          /\ irq[j].badge \in ntfn[irq[j].paired_ntfn].status
          /\ ntfn[irq[j].paired_ntfn].bound_irqs[irq[j].badge] = j
      BY <3>2, <2>1 DEF Tables, PairingConsistent
    <3>4. irq[j].paired_ntfn = n => irq[j].badge # b
      BY <3>1, <3>3, <1>1
    <3> QED
      BY <3>2, <3>3, <3>4, <1>4, <1>6
  <2>2. ASSUME NEW m \in NtfnIds, NEW c \in ntfn'[m].status
        PROVE  /\ ntfn'[m].bound_irqs[c] # UNPAIRED_ID
               /\ irq'[ntfn'[m].bound_irqs[c]].paired_ntfn = m /\ irq'[ntfn'[m].bound_irqs[c]].badge = c
    <3>1. c \in ntfn[m].status /\ c \in Bits /\ ~(m = n /\ c = b)
      BY <2>2, <1>0, <1>4, <1>6 DEF NtfnEntries, Tables
    <3>2. ntfn'[m].bound_irqs[c] = ntfn[m].bound_irqs[c]
      BY <3>1, <1>4, <1>6
    <3>3. /\ ntfn[m].bound_irqs[c] # UNPAIRED_ID
          /\ irq[ntfn[m].bound_irqs[c]].paired_ntfn = m /\ irq[ntfn[m].bound_irqs[c]].badge = c
      BY <3>1 DEF Tables, PairingConsistent
    <3>4. ntfn[m].bound_irqs[c] \in IrqIds /\ ntfn[m].bound_irqs[c] # i
      BY <3>1, <3>3, Unpaired DEF Tables, NtfnEntries
    <3> QED
      BY <3>2, <3>3, <3>4, <1>7
  <2> QED
    BY ONLY <2>1, <2>2 DEF PairingConsistent
<1>10. BoundCountExact'
  <2>1. ASSUME NEW m \in NtfnIds
        PROVE  /\ ntfn'[m].num_irqs_bound = Cardinality(ntfn'[m].status)
               /\ ntfn'[m].status \subseteq ntfn'[m].usable
    <3>1. CASE m = n
      <4>1. old.status \subseteq old.usable /\ old.num_irqs_bound = Cardinality(old.status)
        BY <1>0 DEF Tables, BoundCountExact
      <4>2. Cardinality(old.status \ {b}) = Cardinality(old.status) - 1
        <5>1. old.status \subseteq Bits
          BY <1>0 DEF NtfnEntries
        <5> QED
          BY <5>1, <1>1, BitsFinite, FS_RemoveElement
      <4> QED
        BY <3>1, <4>1, <4>2, <1>4, <1>6
    <3>2. CASE m # n
      BY <3>2, <1>6 DEF Tables, BoundCountExact
    <3> QED
      BY <3>1, <3>2
  <2> QED
    BY <2>1 DEF BoundCountExact
<1>11. EntriesSound'
  <2>1. \A j \in IrqIds : IF irq'[j].allocated THEN irq'[j].line \in Lines ELSE irq'[j] = FreeIrq
    BY <1>0, <1>7, IrqEntryIs DEF Tables, EntriesSound
  <2>2. \A j, k \in IrqIds : irq'[j].allocated /\ irq'[k].allocated /\ irq'[j].line = irq'[k].line => j = k
    BY <1>0, <1>7 DEF Tables, EntriesSound, Registered
  <2>3. \A m \in NtfnIds : ntfn'[m].pending \subseteq ntfn'[m].usable
    BY <1>0, <1>4, <1>6 DEF Tables, EntriesSound
  <2>4. mini => 0 \in Provided'
    BY <1>0, <1>4, <1>6, Unpaired DEF Tables, EntriesSound, Provided
  <2> QED
    BY <2>1, <2>2, <2>3, <2>4 DEF EntriesSound, Registered
<1>12. KernelBound'
  <2>1. ASSUME NEW j \in IrqIds, irq'[j].paired_ntfn # UNPAIRED_ID
        PROVE  kbound'[irq'[j].line] = <<irq'[j].paired_ntfn, irq'[j].badge>>
    <3>1. j # i /\ irq'[j] = irq[j] /\ irq[j].allocated /\ irq[j].line \in Lines
      BY <2>1, <1>7, EntryFacts
    <3>2. irq[j].line # l
      BY <3>1, <1>0 DEF Tables, EntriesSound, Registered
    <3> QED
      BY <2>1, <3>1, <3>2, <1>8 DEF Tables, KernelBound
  <2>2. ASSUME NEW k \in Lines, kbound'[k] # Unbound
        PROVE  \E j \in IrqIds : irq'[j].line = k /\ irq'[j].paired_ntfn # UNPAIRED_ID
    <3>1. k # l
      BY <2>2, <1>8
    <3>2. PICK j \in IrqIds : irq[j].line = k /\ irq[j].paired_ntfn # UNPAIRED_ID
      BY <3>1, <2>2, <1>8 DEF Tables, KernelBound
    <3>3. irq'[j] = irq[j]
      BY <3>1, <3>2, <1>7
    <3> QED
      BY <3>2, <3>3
  <2> QED
    BY <2>1, <2>2 DEF KernelBound
<1> QED
  BY <1>6, <1>7, <1>8, <1>9, <1>10, <1>11, <1>12 DEF Tables

(* Registering an interrupt, or unregistering one that is not paired. *)
LEMMA EntryKeeps ==
  ASSUME Tables, mini' = mini, NEW i \in IrqIds, irq[i].paired_ntfn = UNPAIRED_ID,
         NEW e \in IrqEntries, e.paired_ntfn = UNPAIRED_ID,
         e = FreeIrq \/ (e.allocated /\ e.line \in Lines /\ ~LineTaken(e.line)),
         irq' = [irq EXCEPT ![i] = e], ntfn' = ntfn,
         kbound' = kbound \/ kbound' = [kbound EXCEPT ![irq[i].line] = Unbound]
  PROVE  Tables'
<1>1. irq' \in [IrqIds -> IrqEntries] /\ irq'[i] = e /\ \A j \in IrqIds : j # i => irq'[j] = irq[j]
  BY DEF Tables
<1>2. kbound' = kbound
  <2>1. ASSUME irq[i].line \in Lines, kbound[irq[i].line] # Unbound
        PROVE  FALSE
    <3>1. PICK j \in IrqIds : irq[j].line = irq[i].line /\ irq[j].paired_ntfn # UNPAIRED_ID
      BY <2>1 DEF Tables, KernelBound
    <3>2. irq[j].allocated /\ irq[i].allocated
      BY <3>1, <2>1, EntryFacts
    <3>3. i = j
      BY <3>1, <3>2 DEF Tables, EntriesSound, Registered
    <3> QED
      BY <3>1, <3>3
  <2>2. kbound \in [Lines -> (NtfnIds \X Bits) \cup {Unbound}]
    BY DEF Tables
  <2>3. [kbound EXCEPT ![irq[i].line] = Unbound] = kbound
    BY <2>1, <2>2
  <2> QED
    BY <2>3
<1>3. PairingConsistent'
  <2>1. \A j \in IrqIds : irq'[j].paired_ntfn # UNPAIRED_ID => irq'[j] = irq[j]
    BY <1>1
  <2>2. ASSUME NEW m \in NtfnIds, NEW c \in ntfn'[m].status
        PROVE  /\ ntfn'[m].bound_irqs[c] # UNPAIRED_ID
               /\ irq'[ntfn'[m].bound_irqs[c]].paired_ntfn = m /\ irq'[ntfn'[m].bound_irqs[c]].badge = c
    <3>1. /\ ntfn[m].bound_irqs[c] # UNPAIRED_ID
          /\ irq[ntfn[m].bound_irqs[c]].paired_ntfn = m /\ irq[ntfn[m].bound_irqs[c]].badge = c
      BY <2>2 DEF Tables, PairingConsistent
    <3>2. ntfn[m].bound_irqs[c] \in IrqIds /\ ntfn[m].bound_irqs[c] # i
      BY <2>2, <3>1, Unpaired DEF Tables, NtfnEntries
    <3> QED
      BY <3>1, <3>2, <1>1
  <2> QED
    BY <2>1, <2>2 DEF Tables, PairingConsistent
<1>4. BoundCountExact'
  BY DEF Tables, BoundCountExact
<1>5. EntriesSound'
  <2>1. \A j \in IrqIds : IF irq'[j].allocated THEN irq'[j].line \in Lines ELSE irq'[j] = FreeIrq
    BY <1>1, IrqEntryIs DEF Tables, EntriesSound
  <2>2. \A j, k \in IrqIds : irq'[j].allocated /\ irq'[k].allocated /\ irq'[j].line = irq'[k].line => j = k
    BY <1>1, IrqEntryIs DEF Tables, EntriesSound, Registered, LineTaken
  <2> QED
    BY <2>1, <2>2 DEF Tables, EntriesSound, Registered, Provided
<1>6. KernelBound'
  <2>1. \A j \in IrqIds : irq'[j].paired_ntfn # UNPAIRED_ID => irq'[j] = irq[j]
    BY <1>1
  <2>2. ASSUME NEW k \in Lines, kbound'[k] # Unbound
        PROVE  \E j \in IrqIds : irq'[j].line = k /\ irq'[j].paired_ntfn # UNPAIRED_ID
    <3>1. PICK j \in IrqIds : irq[j].line = k /\ irq[j].paired_ntfn # UNPAIRED_ID
      BY <2>2, <1>2 DEF Tables, KernelBound
    <3>2. irq'[j] = irq[j]
      BY <3>1, <1>1
    <3> QED
      BY <3>1, <3>2
  <2> QED
    BY <2>1, <2>2, <1>2 DEF Tables, KernelBound
<1> QED
  BY <1>1, <1>2, <1>3, <1>4, <1>5, <1>6 DEF Tables

(* A notification that is not provided has no interrupts. *)
LEMMA NotProvidedIsFree ==
  ASSUME Tables, NEW n \in NtfnIds, n \notin Provided
  PROVE  ntfn[n].status = {} /\ \A i \in IrqIds : irq[i].paired_ntfn # n
<1>1. \A i \in IrqIds : irq[i].paired_ntfn # n
  BY Unpaired DEF Tables, PairingConsistent, Provided
<1>2. ASSUME NEW c \in ntfn[n].status
      PROVE  FALSE
  <2>1. ntfn[n].bound_irqs[c] # UNPAIRED_ID /\ irq[ntfn[n].bound_irqs[c]].paired_ntfn = n
    BY DEF Tables, PairingConsistent
  <2>2. ntfn[n].bound_irqs[c] \in IrqIds
    BY <1>2, <2>1 DEF Tables, NtfnEntries
  <2> QED
    BY <1>1, <2>1, <2>2
<1> QED
  BY <1>1, <1>2

(* Providing a notification, in the interface or for a thread of the server. *)
LEMMA ProvideKeeps ==
  ASSUME Tables, mini' = mini, NEW n \in NtfnIds, n \notin Provided, NEW mask \in SUBSET Bits,
         ntfn' = [ntfn EXCEPT ![n] = ProvidedNtfn(mask)], irq' = irq, kbound' = kbound
  PROVE  Tables'
<1> DEFINE new == ProvidedNtfn(mask)
<1>1. new \in NtfnEntries /\ new.status = {} /\ new.pending = {} /\ new.num_irqs_bound = 0 /\ new.allocated = TRUE
  BY ProvidedIs
<1>2. ntfn' = [ntfn EXCEPT ![n] = new]
  OBVIOUS
<1> HIDE DEF new
<1>3. ntfn' \in [NtfnIds -> NtfnEntries] /\ ntfn'[n] = new /\ \A m \in NtfnIds : m # n => ntfn'[m] = ntfn[m]
  BY <1>1, <1>2 DEF Tables
<1>4. PairingConsistent'
  <2>1. ASSUME NEW j \in IrqIds, irq'[j].paired_ntfn # UNPAIRED_ID
        PROVE  /\ irq'[j].allocated
               /\ ntfn'[irq'[j].paired_ntfn].allocated
               /\ irq'[j].badge \in ntfn'[irq'[j].paired_ntfn].status
               /\ ntfn'[irq'[j].paired_ntfn].bound_irqs[irq'[j].badge] = j
    <3>1. irq[j].paired_ntfn # n /\ irq[j].paired_ntfn \in NtfnIds
      BY <2>1, NotProvidedIsFree, EntryFacts
    <3>2. ntfn'[irq[j].paired_ntfn] = ntfn[irq[j].paired_ntfn]
      BY <3>1, <1>3
    <3> QED
      BY <2>1, <3>2 DEF Tables, PairingConsistent
  <2>2. ASSUME NEW m \in NtfnIds, NEW c \in ntfn'[m].status
        PROVE  /\ ntfn'[m].bound_irqs[c] # UNPAIRED_ID
               /\ irq'[ntfn'[m].bound_irqs[c]].paired_ntfn = m /\ irq'[ntfn'[m].bound_irqs[c]].badge = c
    <3>1. ntfn'[m] = ntfn[m]
      BY <2>2, <1>1, <1>3
    <3> QED
      BY <2>2, <3>1 DEF Tables, PairingConsistent
  <2> QED
    BY ONLY <2>1, <2>2 DEF PairingConsistent
<1>5. BoundCountExact'
  <2>1. ASSUME NEW m \in NtfnIds
        PROVE  /\ ntfn'[m].num_irqs_bound = Cardinality(ntfn'[m].status)
               /\ ntfn'[m].status \subseteq ntfn'[m].usable
    <3>1. CASE m = n
      <4>1. Cardinality({}) = 0
        BY FS_EmptySet
      <4> QED
        BY <3>1, <4>1, <1>1, <1>3
    <3>2. CASE m # n
      BY <3>2, <1>3 DEF Tables, BoundCountExact
    <3> QED
      BY <3>1, <3>2
  <2> QED
    BY <2>1 DEF BoundCountExact
<1>6. EntriesSound'
  <2>1. \A m \in NtfnIds : ntfn'[m].pending \subseteq ntfn'[m].usable
    BY <1>1, <1>3 DEF Tables, EntriesSound
  <2>2. mini => 0 \in Provided'
    BY <1>1, <1>3, Unpaired DEF Tables, EntriesSound, Provided
  <2> QED
    BY <2>1, <2>2 DEF Tables, EntriesSound, Registered
<1> QED
  BY <1>3, <1>4, <1>5, <1>6 DEF Tables, KernelBound

(* Returning a notification lets go of all its interrupts. *)
LEMMA ReturnKeeps ==
  ASSUME Tables, mini' = mini, NEW n \in NtfnIds, ReturnNtfn(n)
  PROVE  Tables'
<1> DEFINE gone == {ntfn[n].bound_irqs[b] : b \in ntfn[n].status}
           new == EmptyNtfn(UNPAIRED_ID)
<1>1. \A i \in IrqIds : i \in gone <=> irq[i].paired_ntfn = n
  <2>1. ASSUME NEW i \in IrqIds, irq[i].paired_ntfn = n
        PROVE  i \in gone
    BY <2>1, Unpaired DEF Tables, PairingConsistent
  <2>2. ASSUME NEW i \in gone
        PROVE  irq[i].paired_ntfn = n
    BY DEF Tables, PairingConsistent
  <2> QED
    BY <2>1, <2>2
<1>2. gone \subseteq IrqIds
  <2>1. ASSUME NEW b \in ntfn[n].status
        PROVE  ntfn[n].bound_irqs[b] \in IrqIds
    <3>1. ntfn[n].bound_irqs[b] # UNPAIRED_ID
      BY DEF Tables, PairingConsistent
    <3>2. ntfn[n] \in NtfnEntries
      BY DEF Tables
    <3> QED
      BY <3>1, <3>2, <2>1 DEF NtfnEntries
  <2> QED
    BY <2>1
<1>3. /\ irq' = [i \in IrqIds |-> IF i \in gone THEN RegisteredIrq(irq[i].line) ELSE irq[i]]
      /\ kbound' = [l \in Lines |-> IF \E i \in gone : irq[i].line = l THEN Unbound ELSE kbound[l]]
      /\ ntfn' = [ntfn EXCEPT ![n] = new]
      /\ ~mini
  BY DEF ReturnNtfn
<1>4. new \in NtfnEntries /\ new.status = {} /\ new.pending = {} /\ new.num_irqs_bound = 0
  BY EmptyIs
<1> HIDE DEF gone, new
<1>5. ntfn' \in [NtfnIds -> NtfnEntries] /\ ntfn'[n] = new /\ \A m \in NtfnIds : m # n => ntfn'[m] = ntfn[m]
  BY <1>3, <1>4 DEF Tables
<1>6. /\ irq' \in [IrqIds -> IrqEntries]
      /\ \A i \in IrqIds : irq[i].paired_ntfn # n => irq'[i] = irq[i]
      /\ \A i \in IrqIds : irq[i].paired_ntfn = n =>
           irq'[i].allocated /\ irq'[i].line = irq[i].line /\ irq'[i].paired_ntfn = UNPAIRED_ID
  <2>1. \A i \in gone : irq[i].line \in Lines
    BY <1>1, <1>2, EntryFacts, Unpaired
  <2> QED
    BY <1>1, <1>2, <1>3, <2>1, IrqEntryIs DEF Tables
<1>7. /\ kbound' \in [Lines -> (NtfnIds \X Bits) \cup {Unbound}]
      /\ \A l \in Lines : (\E i \in gone : irq[i].line = l) => kbound'[l] = Unbound
      /\ \A l \in Lines : ~(\E i \in gone : irq[i].line = l) => kbound'[l] = kbound[l]
  BY <1>3 DEF Tables
<1>8. PairingConsistent'
  <2>1. ASSUME NEW j \in IrqIds, irq'[j].paired_ntfn # UNPAIRED_ID
        PROVE  /\ irq'[j].allocated
               /\ ntfn'[irq'[j].paired_ntfn].allocated
               /\ irq'[j].badge \in ntfn'[irq'[j].paired_ntfn].status
               /\ ntfn'[irq'[j].paired_ntfn].bound_irqs[irq'[j].badge] = j
    <3>1. irq[j].paired_ntfn # n /\ irq'[j] = irq[j]
      BY <2>1, <1>6
    <3>2. irq[j].paired_ntfn \in NtfnIds
      BY <2>1, <3>1, EntryFacts
    <3>3. ntfn'[irq[j].paired_ntfn] = ntfn[irq[j].paired_ntfn]
      BY <3>1, <3>2, <1>5
    <3> QED
      BY <2>1, <3>1, <3>3 DEF Tables, PairingConsistent
  <2>2. ASSUME NEW m \in NtfnIds, NEW c \in ntfn'[m].status
        PROVE  /\ ntfn'[m].bound_irqs[c] # UNPAIRED_ID
               /\ irq'[ntfn'[m].bound_irqs[c]].paired_ntfn = m /\ irq'[ntfn'[m].bound_irqs[c]].badge = c
    <3>1. m # n /\ ntfn'[m] = ntfn[m]
      BY <2>2, <1>4, <1>5
    <3>2. /\ ntfn[m].bound_irqs[c] # UNPAIRED_ID
          /\ irq[ntfn[m].bound_irqs[c]].paired_ntfn = m /\ irq[ntfn[m].bound_irqs[c]].badge = c
      BY <2>2, <3>1 DEF Tables, PairingConsistent
    <3>3. ntfn[m].bound_irqs[c] \in IrqIds
      BY <2>2, <3>1, <3>2 DEF Tables, NtfnEntries
    <3> QED
      BY <3>1, <3>2, <3>3, <1>6
  <2> QED
    BY ONLY <2>1, <2>2 DEF PairingConsistent
<1>9. BoundCountExact'
  BY <1>4, <1>5, FS_EmptySet DEF Tables, BoundCountExact
<1>10. EntriesSound'
  <2>0. \A j \in IrqIds : irq'[j].allocated = irq[j].allocated /\ irq'[j].line = irq[j].line
    <3>1. ASSUME NEW j \in IrqIds, irq[j].paired_ntfn = n
          PROVE  irq'[j].allocated = irq[j].allocated /\ irq'[j].line = irq[j].line
      <4>1. irq[j].allocated = TRUE
        BY <3>1, EntryFacts, Unpaired DEF IrqEntries
      <4>2. irq'[j].allocated = TRUE
        BY <3>1, <1>6 DEF IrqEntries
      <4> QED
        BY <3>1, <4>1, <4>2, <1>6
    <3> QED
      BY <3>1, <1>6
  <2>1. \A j \in IrqIds : IF irq'[j].allocated THEN irq'[j].line \in Lines ELSE irq'[j] = FreeIrq
    BY <2>0, <1>6 DEF Tables, EntriesSound
  <2>2. \A j, k \in IrqIds : irq'[j].allocated /\ irq'[k].allocated /\ irq'[j].line = irq'[k].line => j = k
    BY <2>0 DEF Tables, EntriesSound, Registered
  <2>3. \A m \in NtfnIds : ntfn'[m].pending \subseteq ntfn'[m].usable
    BY <1>4, <1>5 DEF Tables, EntriesSound
  <2> QED
    BY <2>1, <2>2, <2>3, <1>3 DEF EntriesSound, Registered
<1>11. KernelBound'
  <2>1. ASSUME NEW j \in IrqIds, irq'[j].paired_ntfn # UNPAIRED_ID
        PROVE  kbound'[irq'[j].line] = <<irq'[j].paired_ntfn, irq'[j].badge>>
    <3>1. irq[j].paired_ntfn # n /\ irq'[j] = irq[j]
      BY <2>1, <1>6
    <3>2. irq[j].allocated /\ irq[j].line \in Lines
      BY <2>1, <3>1, EntryFacts
    <3>3. \A i \in gone : irq[i].allocated /\ i # j
      BY <1>1, <1>2, <3>1, EntryFacts, Unpaired
    <3>4. ~(\E i \in gone : irq[i].line = irq[j].line)
      BY <3>2, <3>3, <1>2 DEF Tables, EntriesSound, Registered
    <3>5. kbound'[irq[j].line] = kbound[irq[j].line]
      BY <3>2, <3>4, <1>7
    <3> QED
      BY <2>1, <3>1, <3>5 DEF Tables, KernelBound
  <2>2. ASSUME NEW k \in Lines, kbound'[k] # Unbound
        PROVE  \E j \in IrqIds : irq'[j].line = k /\ irq'[j].paired_ntfn # UNPAIRED_ID
    <3>1. ~(\E i \in gone : irq[i].line = k) /\ kbound[k] # Unbound
      BY <2>2, <1>7
    <3>2. PICK j \in IrqIds : irq[j].line = k /\ irq[j].paired_ntfn # UNPAIRED_ID
      BY <3>1, <2>2 DEF Tables, KernelBound
    <3>3. irq'[j] = irq[j]
      BY <3>1, <3>2, <1>1, <1>6
    <3> QED
      BY <3>2, <3>3
  <2> QED
    BY <2>1, <2>2 DEF KernelBound
<1> QED
  BY <1>5, <1>6, <1>7, <1>8, <1>9, <1>10, <1>11 DEF Tables

(* Only pending bits change when callbacks run. *)
LEMMA PendingKeeps ==
  ASSUME Tables, mini' = mini, NEW n \in NtfnIds, NEW p, p \subseteq ntfn[n].usable,
         ntfn' = [ntfn EXCEPT ![n].pending = p], irq' = irq, kbound' = kbound
  PROVE  Tables'
<1>1. ntfn \in [NtfnIds -> NtfnEntries]
  BY DEF Tables
<1>2. /\ ntfn' \in [NtfnIds -> NtfnEntries]
      /\ \A m \in NtfnIds :
           /\ ntfn'[m].allocated = ntfn[m].allocated /\ ntfn'[m].usable = ntfn[m].usable
           /\ ntfn'[m].status = ntfn[m].status /\ ntfn'[m].bound_irqs = ntfn[m].bound_irqs
           /\ ntfn'[m].num_irqs_bound = ntfn[m].num_irqs_bound
           /\ ntfn'[m].pending = IF m = n THEN p ELSE ntfn[m].pending
  BY <1>1 DEF NtfnEntries
<1>3. PairingConsistent'
  <2>1. ASSUME NEW j \in IrqIds, irq'[j].paired_ntfn # UNPAIRED_ID
        PROVE  /\ irq'[j].allocated
               /\ ntfn'[irq'[j].paired_ntfn].allocated
               /\ irq'[j].badge \in ntfn'[irq'[j].paired_ntfn].status
               /\ ntfn'[irq'[j].paired_ntfn].bound_irqs[irq'[j].badge] = j
    BY <2>1, <1>2, EntryFacts DEF Tables, PairingConsistent
  <2>2. ASSUME NEW m \in NtfnIds, NEW c \in ntfn'[m].status
        PROVE  /\ ntfn'[m].bound_irqs[c] # UNPAIRED_ID
               /\ irq'[ntfn'[m].bound_irqs[c]].paired_ntfn = m /\ irq'[ntfn'[m].bound_irqs[c]].badge = c
    BY <2>2, <1>2 DEF Tables, PairingConsistent
  <2> QED
    BY ONLY <2>1, <2>2 DEF PairingConsistent
<1>4. BoundCountExact'
  BY <1>2 DEF Tables, BoundCountExact
<1>5. EntriesSound'
  <2>1. \A m \in NtfnIds : ntfn'[m].pending \subseteq ntfn'[m].usable
    BY <1>2 DEF Tables, EntriesSound
  <2>2. mini => 0 \in Provided'
    BY <1>2, Unpaired DEF Tables, EntriesSound, Provided
  <2> QED
    BY <2>1, <2>2 DEF Tables, EntriesSound, Registered
<1> QED
  BY <1>2, <1>3, <1>4, <1>5 DEF Tables, KernelBound

-----------------------------------------------------------------------------
(* The IRQ interface.                                                      *)

Acks == [id : IrqIds, line : Lines]

(* The inductive invariant: the tables, and what is under way. *)
IrqInv ==
  /\ Tables
  /\ masked \subseteq Lines
  /\ word \in [NtfnIds -> SUBSET Bits]
  /\ inhand \in [NtfnIds -> SUBSET Bits]
  /\ acks \subseteq Acks

(* It is what the runs check. *)
LEMMA IrqInvImplies ==
  ASSUME IrqInv
  PROVE  TablesAgree /\ KernelAgrees
<1>1. TypeOK
  BY DEF IrqInv, Tables, TypeOK, Acks
<1>2. TablesAgree
  BY <1>1 DEF IrqInv, Tables, TablesAgree
<1>3. KernelAgrees
  <2>1. ASSUME NEW l \in Lines, NEW j \in Registered, irq[j].line = l, irq[j].paired_ntfn # UNPAIRED_ID
        PROVE  kbound[l] = LET i == CHOOSE k \in Registered : irq[k].line = l IN
                           <<irq[i].paired_ntfn, irq[i].badge>>
    <3> DEFINE i == CHOOSE k \in Registered : irq[k].line = l
    <3>1. i \in Registered /\ irq[i].line = l
      BY <2>1
    <3>2. i = j
      BY <2>1, <3>1 DEF IrqInv, Tables, EntriesSound
    <3>3. kbound[l] = <<irq[j].paired_ntfn, irq[j].badge>>
      BY <2>1 DEF IrqInv, Tables, KernelBound, Registered
    <3> HIDE DEF i
    <3>4. kbound[l] = <<irq[i].paired_ntfn, irq[i].badge>>
      BY <3>2, <3>3
    <3> QED
      BY <3>4 DEF i
  <2>2. ASSUME NEW l \in Lines, ~(\E i \in Registered : irq[i].line = l /\ irq[i].paired_ntfn # UNPAIRED_ID)
        PROVE  kbound[l] = Unbound
    <3>1. \A i \in IrqIds : irq[i].paired_ntfn # UNPAIRED_ID => i \in Registered
      BY EntryFacts DEF IrqInv, Registered
    <3> QED
      BY <2>2, <3>1 DEF IrqInv, Tables, KernelBound
  <2> QED
    BY <2>1, <2>2 DEF KernelAgrees
<1> QED
  BY <1>2, <1>3

(* The acknowledgements that callbacks are handed are for registered lines,  *)
(* and every bit that belongs to a registered interrupt yields its own.     *)
LEMMA AcksHanded ==
  ASSUME Tables, NEW n \in NtfnIds, NEW bs \in SUBSET Bits, NEW wild \in BOOLEAN
  PROVE  /\ NewAcks(n, Served(n, bs, wild)) \subseteq Acks
         /\ \A b \in bs : b \in ntfn[n].status =>
              [id |-> ntfn[n].bound_irqs[b], line |-> irq[ntfn[n].bound_irqs[b]].line]
                \in NewAcks(n, Served(n, bs, wild))
<1>1. ntfn[n].bound_irqs \in [Bits -> IrqIds \cup {UNPAIRED_ID}]
  BY DEF Tables, NtfnEntries
<1>2. ASSUME NEW b \in Served(n, bs, wild), ntfn[n].bound_irqs[b] # UNPAIRED_ID
      PROVE  [id |-> ntfn[n].bound_irqs[b], line |-> irq[ntfn[n].bound_irqs[b]].line] \in Acks
  <2>1. b \in Bits /\ ntfn[n].bound_irqs[b] \in IrqIds /\ irq[ntfn[n].bound_irqs[b]].allocated
    BY <1>1, <1>2 DEF Served
  <2>2. irq[ntfn[n].bound_irqs[b]].line \in Lines
    BY <2>1, EntryFacts
  <2> QED
    BY <2>1, <2>2 DEF Acks
<1>3. ASSUME NEW b \in bs, b \in ntfn[n].status
      PROVE  b \in Served(n, bs, wild) /\ ntfn[n].bound_irqs[b] # UNPAIRED_ID
  <2>1. ntfn[n].bound_irqs[b] # UNPAIRED_ID /\ irq[ntfn[n].bound_irqs[b]].paired_ntfn = n
    BY <1>3 DEF Tables, PairingConsistent
  <2>2. ntfn[n].bound_irqs[b] \in IrqIds
    BY <2>1, <1>1
  <2>3. irq[ntfn[n].bound_irqs[b]].allocated
    BY <2>1, <2>2, EntryFacts, Unpaired
  <2> QED
    BY <2>1, <2>3 DEF Served
<1> QED
  BY <1>2, <1>3 DEF NewAcks

(* Running the callbacks of a badge, received by the interface or not. *)
LEMMA ServeKeeps ==
  ASSUME Tables, mini' = mini, acks \subseteq Acks, NEW n \in NtfnIds,
         NEW badge \in SUBSET Bits, NEW mask, Serve(n, mask, badge), irq' = irq, kbound' = kbound
  PROVE  Tables' /\ acks' \subseteq Acks
<1>0. ntfn[n] \in NtfnEntries /\ ntfn[n].pending \subseteq ntfn[n].usable
  BY DEF Tables, EntriesSound
<1> DEFINE unchecked == (badge \cap ntfn[n].usable) \cup ntfn[n].pending
           served(w) == Served(n, unchecked \cap mask, w)
<1>1. PICK wild \in BOOLEAN :
        /\ acks' = acks \cup NewAcks(n, served(wild))
        /\ ntfn' = [ntfn EXCEPT ![n].pending =
                      SymmetricDifference(@, (badge \cap ntfn[n].usable) \ served(wild))]
  BY DEF Serve
<1>2. unchecked \cap mask \in SUBSET Bits
  BY <1>0 DEF NtfnEntries
<1>3. acks' \subseteq Acks
  BY <1>1, <1>2, AcksHanded
<1> DEFINE p == SymmetricDifference(ntfn[n].pending, (badge \cap ntfn[n].usable) \ served(wild))
<1>4. p \subseteq ntfn[n].usable
  BY <1>0 DEF SymmetricDifference
<1>5. ntfn' = [ntfn EXCEPT ![n].pending = p]
  BY <1>1
<1> HIDE DEF p
<1> QED
  BY <1>3, <1>4, <1>5, PendingKeeps

(* The same in irq_handle(); all that arrived for an interrupt reaches its   *)
(* callback.                                                                *)
LEMMA HandleBadgeKeeps ==
  ASSUME Tables, mini' = mini, acks \subseteq Acks, NEW n \in NtfnIds,
         NEW badge \in SUBSET Bits, HandleBadge(n, badge), irq' = irq, kbound' = kbound
  PROVE  /\ Tables' /\ acks' \subseteq Acks /\ acks \subseteq acks'
         /\ \A b \in badge : b \in ntfn[n].status =>
              [id |-> ntfn[n].bound_irqs[b], line |-> irq[ntfn[n].bound_irqs[b]].line] \in acks'
         /\ \A m \in NtfnIds :
              /\ ntfn'[m].allocated = ntfn[m].allocated /\ ntfn'[m].usable = ntfn[m].usable
              /\ ntfn'[m].status = ntfn[m].status
              /\ ntfn'[m].num_irqs_bound = ntfn[m].num_irqs_bound
<1>0. ntfn[n] \in NtfnEntries /\ ntfn[n].pending \subseteq ntfn[n].usable /\ ntfn[n].status \subseteq ntfn[n].usable
  BY DEF Tables, EntriesSound, BoundCountExact
<1> DEFINE bs == badge \cap ntfn[n].usable
<1>1. PICK wild \in BOOLEAN :
        /\ acks' = acks \cup NewAcks(n, Served(n, bs, wild))
        /\ ntfn' = [ntfn EXCEPT ![n].pending = @ \ Served(n, bs, wild)]
  BY DEF HandleBadge
<1>2. bs \in SUBSET Bits
  BY <1>0 DEF NtfnEntries
<1>3. \A b \in badge : b \in ntfn[n].status => b \in bs
  BY <1>0
<1> HIDE DEF bs
<1>4. acks' \subseteq Acks /\ acks \subseteq acks'
  BY <1>1, <1>2, AcksHanded
<1>5. \A b \in badge : b \in ntfn[n].status =>
        [id |-> ntfn[n].bound_irqs[b], line |-> irq[ntfn[n].bound_irqs[b]].line] \in acks'
  BY <1>1, <1>2, <1>3, AcksHanded
<1> DEFINE p == ntfn[n].pending \ Served(n, bs, wild)
<1>6. p \subseteq ntfn[n].usable
  BY <1>0
<1>7. ntfn' = [ntfn EXCEPT ![n].pending = p]
  BY <1>1
<1> HIDE DEF p
<1>8. Tables'
  BY <1>6, <1>7, PendingKeeps
<1>9. \A m \in NtfnIds :
        /\ ntfn'[m].allocated = ntfn[m].allocated /\ ntfn'[m].usable = ntfn[m].usable
        /\ ntfn'[m].status = ntfn[m].status
        /\ ntfn'[m].num_irqs_bound = ntfn[m].num_irqs_bound
  BY <1>7 DEF Tables, NtfnEntries
<1> QED
  BY <1>4, <1>5, <1>8, <1>9

(* The interface, just created. *)
LEMMA InitIrqInv ==
  ASSUME Init
  PROVE  IrqInv
<1>1. PICK mask \in SUBSET Bits \ {{}} :
        ntfn = [n \in NtfnIds |-> IF mini /\ n = 0 THEN ProvidedNtfn(mask) ELSE EmptyNtfn(UNPAIRED_ID)]
  BY DEF Init
<1>2. irq = [i \in IrqIds |-> FreeIrq] /\ kbound = [l \in Lines |-> Unbound]
  BY DEF Init
<1>3. ProvidedNtfn(mask) \in NtfnEntries /\ EmptyNtfn(UNPAIRED_ID) \in NtfnEntries
  BY EmptyIs, ProvidedIs
<1>4. ntfn \in [NtfnIds -> NtfnEntries]
  BY <1>1, <1>3
<1>5. /\ \A n \in NtfnIds : ntfn[n].status = {} /\ ntfn[n].pending = {} /\ ntfn[n].num_irqs_bound = 0
      /\ mini => ntfn[0].allocated
  BY <1>1, EmptyIs, ProvidedIs, Unpaired
<1>6. \A i \in IrqIds : irq[i] = FreeIrq /\ ~irq[i].allocated /\ irq[i].paired_ntfn = UNPAIRED_ID
  BY <1>2, IrqEntryIs
<1>7. PairingConsistent
  BY <1>5, <1>6 DEF PairingConsistent
<1>8. BoundCountExact
  BY <1>5, FS_EmptySet DEF BoundCountExact
<1>9. EntriesSound
  BY <1>5, <1>6, Unpaired DEF EntriesSound, Registered, Provided
<1>10. KernelBound
  BY <1>2, <1>6 DEF KernelBound
<1>11. irq \in [IrqIds -> IrqEntries] /\ kbound \in [Lines -> (NtfnIds \X Bits) \cup {Unbound}]
  BY <1>2, IrqEntryIs
<1>12. masked \subseteq Lines /\ word \in [NtfnIds -> SUBSET Bits] /\ inhand \in [NtfnIds -> SUBSET Bits] /\ acks \subseteq Acks
  BY DEF Init
<1> QED
  BY <1>4, <1>7, <1>8, <1>9, <1>10, <1>11, <1>12 DEF IrqInv, Tables

(* The lowest free ID is free. *)
LEMMA FreeIdIsFree ==
  ASSUME Tables, Registered # IrqIds
  PROVE  /\ FreeIrqId \in IrqIds /\ ~irq[FreeIrqId].allocated
         /\ irq[FreeIrqId].paired_ntfn = UNPAIRED_ID /\ irq[FreeIrqId].line = NoLine
<1>1. IrqIds \ Registered \in SUBSET Nat /\ IrqIds \ Registered # {}
  BY Unpaired DEF Registered
<1>2. FreeIrqId \in IrqIds \ Registered
  BY <1>1, MinIsLeast DEF FreeIrqId
<1> QED
  BY <1>2, IrqEntryIs DEF Registered, Tables, EntriesSound

(* An interrupt registered and paired at once, in the mini interface and by  *)
(* the server.                                                              *)
LEMMA PairNewKeeps ==
  ASSUME IrqInv, mini' = mini, NEW n \in Provided, NEW l \in Lines, Registered # IrqIds, ~LineTaken(l),
         FreeBadgeBits(n) # {}, Pair(n, FreeIrqId, l), UNCHANGED <<word, inhand, acks>>
  PROVE  /\ IrqInv'
         /\ \A m \in NtfnIds : m # n => ntfn'[m] = ntfn[m]
         /\ ntfn'[n].allocated = ntfn[n].allocated
         /\ ntfn'[n].num_irqs_bound = ntfn[n].num_irqs_bound + 1
         /\ ntfn'[n].usable = ntfn[n].usable
<1>1. Tables
  BY DEF IrqInv
<1>2. FreeIrqId \in IrqIds /\ ~irq[FreeIrqId].allocated /\ irq[FreeIrqId].paired_ntfn = UNPAIRED_ID
  BY <1>1, FreeIdIsFree
<1>3. \A j \in Registered : irq[j].line = l => j = FreeIrqId
  BY DEF LineTaken
<1>4. /\ Tables'
      /\ \A m \in NtfnIds : m # n => ntfn'[m] = ntfn[m]
      /\ ntfn'[n].allocated = ntfn[n].allocated
      /\ ntfn'[n].num_irqs_bound = ntfn[n].num_irqs_bound + 1
      /\ ntfn'[n].usable = ntfn[n].usable
  BY <1>1, <1>2, <1>3, PairKeeps
<1>5. masked' \subseteq Lines
  BY DEF Pair, IrqInv
<1> QED
  BY <1>4, <1>5 DEF IrqInv

(* A line that fires. *)
LEMMA FireKeeps ==
  ASSUME IrqInv, mini' = mini, NEW l \in Lines, Fire(l)
  PROVE  /\ IrqInv' /\ kbound[l][1] \in NtfnIds /\ kbound[l][2] \in Bits
         /\ word' = [word EXCEPT ![kbound[l][1]] = @ \cup {kbound[l][2]}]
<1>1. kbound[l] \in NtfnIds \X Bits
  BY DEF IrqInv, Tables, Fire
<1>2. kbound[l][1] \in NtfnIds /\ kbound[l][2] \in Bits
  BY <1>1
<1>3. word' \in [NtfnIds -> SUBSET Bits]
  BY <1>2 DEF Fire, IrqInv
<1>4. Tables'
  BY DEF Fire, IrqInv, Tables, PairingConsistent, BoundCountExact, EntriesSound, KernelBound, Registered, Provided
<1> QED
  BY <1>2, <1>3, <1>4 DEF Fire, IrqInv

(* The callback acknowledges. *)
LEMMA AcknowledgeKeeps ==
  ASSUME IrqInv, mini' = mini, NEW a \in acks, Acknowledge(a)
  PROVE  IrqInv'
<1>1. Tables'
  BY DEF Acknowledge, IrqInv, Tables, PairingConsistent, BoundCountExact, EntriesSound, KernelBound, Registered, Provided
<1> QED
  BY <1>1 DEF Acknowledge, IrqInv

(* The badge is read. *)
LEMMA ReceiveKeeps ==
  ASSUME IrqInv, mini' = mini, NEW n \in NtfnIds, Receive(n)
  PROVE  IrqInv'
<1>1. Tables'
  BY DEF Receive, IrqInv, Tables, PairingConsistent, BoundCountExact, EntriesSound, KernelBound, Registered, Provided
<1> QED
  BY <1>1 DEF Receive, IrqInv

(* Nothing happens. *)
LEMMA IrqStutters ==
  ASSUME IrqInv, UNCHANGED <<vars, config>>
  PROVE  IrqInv'
<1>1. Tables'
  BY DEF vars, config, IrqInv, Tables, PairingConsistent, BoundCountExact, EntriesSound, KernelBound, Registered, Provided
<1> QED
  BY <1>1 DEF vars, IrqInv

(* Every operation of the interface, and of the kernel, keeps the invariant. *)
LEMMA IrqNextKeeps ==
  ASSUME IrqInv, Next, UNCHANGED config
  PROVE  IrqInv'
<1>0. Tables /\ mini' = mini
  BY DEF IrqInv, config
<1>1. ASSUME NEW l \in Lines, Register(l) PROVE IrqInv'
  <2>1. FreeIrqId \in IrqIds /\ irq[FreeIrqId].paired_ntfn = UNPAIRED_ID
    BY <1>0, <1>1, FreeIdIsFree DEF Register
  <2>2. /\ RegisteredIrq(l) \in IrqEntries
        /\ RegisteredIrq(l).allocated = TRUE /\ RegisteredIrq(l).line = l
        /\ RegisteredIrq(l).paired_ntfn = UNPAIRED_ID
    BY IrqEntryIs
  <2>3. ~LineTaken(RegisteredIrq(l).line) /\ RegisteredIrq(l).line \in Lines
    BY <1>1, <2>2 DEF Register
  <2>4. irq' = [irq EXCEPT ![FreeIrqId] = RegisteredIrq(l)] /\ ntfn' = ntfn /\ kbound' = kbound
    BY <1>1 DEF Register
  <2>5. Tables'
    BY <1>0, <2>1, <2>2, <2>3, <2>4, EntryKeeps
  <2> QED
    BY <1>1, <2>5 DEF Register, IrqInv
<1>2. ASSUME NEW l \in Lines, RegisterMini(l) PROVE IrqInv'
  <2>1. 0 \in Provided
    BY <1>0, <1>2 DEF RegisterMini, Tables, EntriesSound
  <2> QED
    BY <1>0, <1>2, <2>1, PairNewKeeps DEF RegisterMini
<1>3. ASSUME NEW l \in Lines, Fire(l) PROVE IrqInv'
  BY <1>0, <1>3, FireKeeps
<1>4. ASSUME NEW i \in IrqIds, Unregister(i) PROVE IrqInv'
  <2>1. CASE irq[i].paired_ntfn = UNPAIRED_ID
    <3>1. PICK e \in IrqEntries : e = FreeIrq /\ e.paired_ntfn = UNPAIRED_ID
      BY IrqEntryIs
    <3>2. /\ irq' = [irq EXCEPT ![i] = e] /\ ntfn' = ntfn
          /\ kbound' = [kbound EXCEPT ![irq[i].line] = Unbound]
      BY <1>4, <2>1, <3>1 DEF Unregister
    <3>3. Tables'
      BY <1>0, <2>1, <3>1, <3>2, EntryKeeps
    <3> QED
      BY <1>4, <3>3 DEF Unregister, IrqInv
  <2>2. CASE irq[i].paired_ntfn # UNPAIRED_ID
    <3>1. /\ irq' = [irq EXCEPT ![i] = FreeIrq] /\ i \in Registered
          /\ ntfn' = [ntfn EXCEPT ![irq[i].paired_ntfn] = Unpair(@, irq[i].badge)]
          /\ kbound' = [kbound EXCEPT ![irq[i].line] = Unbound]
      BY <1>4, <2>2 DEF Unregister
    <3>2. Tables'
      BY <1>0, <2>2, <3>1, UnpairKeeps
    <3> QED
      BY <1>4, <3>2 DEF Unregister, IrqInv
  <2> QED
    BY <2>1, <2>2
<1>5. ASSUME NEW i \in IrqIds, UnsetNtfn(i) PROVE IrqInv'
  <2>1. Tables'
    BY <1>0, <1>5, UnpairKeeps DEF UnsetNtfn
  <2> QED
    BY <1>5, <2>1 DEF UnsetNtfn, IrqInv
<1>6. ASSUME NEW n \in NtfnIds, NEW i \in IrqIds, SetNtfn(n, i) PROVE IrqInv'
  <2>1. i \in Registered /\ irq[i].line \in Lines
    BY <1>0, <1>6, EntryFacts DEF SetNtfn, Registered
  <2>2. \A j \in Registered : irq[j].line = irq[i].line => j = i
    BY <1>0, <2>1 DEF Tables, EntriesSound
  <2>3. Tables'
    BY <1>0, <1>6, <2>1, <2>2, PairKeeps DEF SetNtfn
  <2> QED
    BY <1>6, <2>3 DEF SetNtfn, Pair, IrqInv
<1>7. ASSUME NEW n \in NtfnIds, NEW mask \in SUBSET Bits \ {{}}, ProvideNtfn(n, mask) PROVE IrqInv'
  <2>1. Tables'
    BY <1>0, <1>7, ProvideKeeps DEF ProvideNtfn
  <2> QED
    BY <1>7, <2>1 DEF ProvideNtfn, IrqInv
<1>8. ASSUME NEW n \in NtfnIds, ReturnNtfn(n) PROVE IrqInv'
  <2>1. Tables'
    BY <1>0, <1>8, ReturnKeeps
  <2> QED
    BY <1>8, <2>1 DEF ReturnNtfn, IrqInv
<1>9. ASSUME NEW n \in NtfnIds, Receive(n) PROVE IrqInv'
  BY <1>0, <1>9, ReceiveKeeps
<1>10. ASSUME NEW n \in NtfnIds, Handle(n) PROVE IrqInv'
  <2>1. inhand[n] \in SUBSET Bits
    BY DEF IrqInv
  <2>2. Tables' /\ acks' \subseteq Acks
    BY <1>0, <1>10, <2>1, HandleBadgeKeeps DEF Handle, IrqInv
  <2> QED
    BY <1>10, <2>2 DEF Handle, IrqInv
<1>11. ASSUME NEW n \in NtfnIds, NEW mask \in masks, Wait(n, mask) \/ Poll(n, mask) PROVE IrqInv'
  <2>1. word[n] \in SUBSET Bits
    BY DEF IrqInv
  <2>2. Tables' /\ acks' \subseteq Acks
    BY <1>0, <1>11, <2>1, ServeKeeps DEF Wait, Poll, IrqInv
  <2> QED
    BY <1>11, <2>2 DEF Wait, Poll, IrqInv
<1>12. ASSUME NEW a \in acks, Acknowledge(a) PROVE IrqInv'
  BY <1>0, <1>12, AcknowledgeKeeps
<1> QED
  BY <1>1, <1>2, <1>3, <1>4, <1>5, <1>6, <1>7, <1>8, <1>9, <1>10, <1>11, <1>12 DEF Next

(* The invariant holds throughout. *)
LEMMA IrqInvariant == Spec => []IrqInv
<1>1. Init => IrqInv
  BY InitIrqInv
<1>2. IrqInv /\ [Next /\ UNCHANGED config]_<<vars, config>> => IrqInv'
  BY IrqNextKeeps, IrqStutters
<1> QED
  BY <1>1, <1>2, PTL DEF Spec

(* In both interfaces, however an application registers, pairs, returns,     *)
(* waits, polls and handles: the table of interrupts and the table of       *)
(* notifications name each other, and the counts and free bits that limit   *)
(* further pairings are exact.                                              *)
THEOREM TablesAlwaysAgree == Spec => []TablesAgree
BY IrqInvariant, IrqInvImplies, PTL

(* The kernel delivers every line where the tables of the interface say, and *)
(* a line that is not paired nowhere.                                       *)
THEOREM KernelAlwaysAgrees == Spec => []KernelAgrees
BY IrqInvariant, IrqInvImplies, PTL

-----------------------------------------------------------------------------
(* The IRQ server.                                                         *)

Messages == [thread : NtfnIds, badge : SUBSET Bits]

(* A node knows how many interrupts its notification has, and how many it    *)
(* can have.                                                                *)
NodesCount ==
  \A n \in ToSet(threads) :
    /\ ntfn[n].allocated
    /\ node[n].bound = ntfn[n].num_irqs_bound
    /\ node[n].max = Cardinality(ntfn[n].usable)

(* A masked line is bound, and what it sent is on its way. *)
AllOnTheirWay == \A l \in masked : kbound[l] # Unbound /\ OnItsWay(l)

ServerTypes ==
  /\ ~mini
  /\ threads \in Seq(NtfnIds)
  /\ node \in [NtfnIds -> [bound : Nat, max : Nat]]
  /\ message \in Messages \cup {NoMessage}

(* The inductive invariant of the server. *)
ServerInv == IrqInv /\ ServerTypes /\ NodesCount /\ AllOnTheirWay

(* A notification has a free bit exactly when it has fewer interrupts than   *)
(* usable bits.                                                             *)
LEMMA RoomIs ==
  ASSUME Tables, NEW n \in NtfnIds
  PROVE  ntfn[n].num_irqs_bound < Cardinality(ntfn[n].usable) <=> FreeBadgeBits(n) # {}
<1> DEFINE s == ntfn[n].status
           u == ntfn[n].usable
<1>1. s \subseteq u /\ u \subseteq Bits /\ ntfn[n].num_irqs_bound = Cardinality(s)
  BY DEF Tables, BoundCountExact, NtfnEntries
<1>2. /\ IsFiniteSet(u) /\ Cardinality(u) \in Nat /\ Cardinality(s) \in Nat
      /\ Cardinality(s) <= Cardinality(u)
      /\ Cardinality(u) = Cardinality(s) => u = s
  BY <1>1, BitsFinite, FS_Subset, IrqConfig
<1>3. FreeBadgeBits(n) = u \ s
  BY DEF FreeBadgeBits
<1> HIDE DEF s, u
<1>4. Cardinality(s) < Cardinality(u) <=> u # s
  BY <1>2
<1>5. u # s <=> u \ s # {}
  BY <1>1
<1> QED
  BY <1>1, <1>3, <1>4, <1>5 DEF u

(* The invariant is what the run checks. *)
LEMMA ServerInvImplies ==
  ASSUME ServerInv
  PROVE  ServerExact
<1>1. ToSet(threads) \subseteq NtfnIds
  BY DEF ServerInv, ServerTypes, ToSet
<1>2. NodesExact
  <2>1. ASSUME NEW n \in ToSet(threads)
        PROVE  /\ ntfn[n].allocated
               /\ node[n].bound = ntfn[n].num_irqs_bound
               /\ node[n].bound < node[n].max <=> FreeBadgeBits(n) # {}
    <3>1. n \in NtfnIds
      BY <1>1
    <3>2. ntfn[n].num_irqs_bound < Cardinality(ntfn[n].usable) <=> FreeBadgeBits(n) # {}
      BY <3>1, RoomIs DEF ServerInv, IrqInv
    <3> QED
      BY <2>1, <3>2 DEF ServerInv, NodesCount
  <2> QED
    BY <2>1 DEF NodesExact
<1> QED
  BY <1>2 DEF ServerInv, AllOnTheirWay, NothingLost, ServerExact

(* Where the tables have a line that the kernel has bound. *)
LEMMA BoundLine ==
  ASSUME Tables, NEW l \in Lines, kbound[l] # Unbound
  PROVE  /\ kbound[l][1] \in NtfnIds /\ kbound[l][2] \in Bits
         /\ kbound[l][2] \in ntfn[kbound[l][1]].status
         /\ ntfn[kbound[l][1]].bound_irqs[kbound[l][2]] \in IrqIds
         /\ irq[ntfn[kbound[l][1]].bound_irqs[kbound[l][2]]].line = l
<1>1. PICK i \in IrqIds : irq[i].line = l /\ irq[i].paired_ntfn # UNPAIRED_ID
  BY DEF Tables, KernelBound
<1>2. kbound[l] = <<irq[i].paired_ntfn, irq[i].badge>>
  BY <1>1 DEF Tables, KernelBound
<1>3. kbound[l][1] = irq[i].paired_ntfn /\ kbound[l][2] = irq[i].badge
  BY <1>2
<1>4. irq[i].paired_ntfn \in NtfnIds /\ irq[i].badge \in Bits
  BY <1>1, EntryFacts
<1>5. /\ irq[i].badge \in ntfn[irq[i].paired_ntfn].status
      /\ ntfn[irq[i].paired_ntfn].bound_irqs[irq[i].badge] = i
  BY <1>1 DEF Tables, PairingConsistent
<1> QED
  BY <1>1, <1>3, <1>4, <1>5

(* The server, just created. *)
LEMMA InitServerInv ==
  ASSUME ServerInit
  PROVE  ServerInv
<1>1. IrqInv
  BY InitIrqInv DEF ServerInit
<1>2. ServerTypes
  BY DEF ServerInit, ServerTypes
<1>3. NodesCount
  BY DEF ServerInit, NodesCount, ToSet
<1>4. AllOnTheirWay
  BY DEF ServerInit, Init, AllOnTheirWay
<1> QED
  BY <1>1, <1>2, <1>3, <1>4 DEF ServerInv

(* What is on its way stays so while the channels only grow. *)
LEMMA StaysOnItsWay ==
  ASSUME NEW l, OnItsWay(l), kbound'[l] = kbound[l],
         word'[kbound[l][1]] = word[kbound[l][1]], inhand'[kbound[l][1]] = inhand[kbound[l][1]],
         message' = message,
         \A a \in acks : a.line = l /\ irq[a.id].line = l => a \in acks' /\ irq'[a.id].line = l
  PROVE  OnItsWay(l)'
<1> DEFINE n == kbound[l][1]
           b == kbound[l][2]
<1>1. CASE b \in word[n] \cup inhand[n]
  BY <1>1 DEF OnItsWay
<1>2. CASE message # NoMessage /\ message.thread = n /\ b \in message.badge
  BY <1>2 DEF OnItsWay
<1>3. CASE \E a \in acks : a.line = l /\ irq[a.id].line = l
  BY <1>3 DEF OnItsWay
<1> QED
  BY <1>1, <1>2, <1>3 DEF OnItsWay

(* Steps after which the threads and their nodes are as they were. *)
LEMMA NodesStay ==
  ASSUME ServerInv, threads' = threads, node' = node,
         \A m \in NtfnIds : /\ ntfn'[m].allocated = ntfn[m].allocated
                            /\ ntfn'[m].usable = ntfn[m].usable
                            /\ ntfn'[m].num_irqs_bound = ntfn[m].num_irqs_bound
  PROVE  NodesCount'
<1>1. ToSet(threads) \subseteq NtfnIds /\ ToSet(threads)' = ToSet(threads)
  BY DEF ServerInv, ServerTypes, ToSet
<1> QED
  BY <1>1 DEF ServerInv, NodesCount

(* irq_server_thread_new(): another thread, at the head of the list. *)
LEMMA ThreadNewKeeps ==
  ASSUME ServerInv, mini' = mini, NEW n \in NtfnIds, NEW mask \in SUBSET Bits, ThreadNew(n, mask)
  PROVE  ServerInv'
<1>1. /\ n \notin Provided /\ ntfn' = [ntfn EXCEPT ![n] = ProvidedNtfn(mask)] /\ irq' = irq /\ kbound' = kbound
      /\ UNCHANGED <<masked, word, inhand, acks, message>>
      /\ threads' = <<n>> \o threads /\ node' = [node EXCEPT ![n] = NewNode(mask)]
  BY DEF ThreadNew, ProvideNtfn
<1>2. IrqInv'
  <2>1. Tables'
    BY <1>1, ProvideKeeps DEF ServerInv, IrqInv
  <2> QED
    BY <1>1, <2>1 DEF ServerInv, IrqInv
<1>3. NewNode(mask) \in [bound : Nat, max : Nat] /\ NewNode(mask).bound = 0 /\ NewNode(mask).max = Cardinality(mask)
  BY BitsFinite DEF NewNode
<1>4. ServerTypes'
  <2>1. threads' \in Seq(NtfnIds)
    BY <1>1 DEF ServerInv, ServerTypes
  <2>2. node' \in [NtfnIds -> [bound : Nat, max : Nat]]
    BY <1>1, <1>3 DEF ServerInv, ServerTypes
  <2> QED
    BY <1>1, <2>1, <2>2 DEF ServerInv, ServerTypes
<1>5. NodesCount'
  <2>1. \A m \in ToSet(threads)' : m = n \/ m \in ToSet(threads)
    BY <1>1 DEF ToSet, ServerInv, ServerTypes
  <2>2. ToSet(threads) \subseteq NtfnIds /\ n \notin ToSet(threads)
    BY <1>1 DEF ToSet, ServerInv, ServerTypes, NodesCount, Provided
  <2>3. ntfn'[n] = ProvidedNtfn(mask) /\ node'[n] = NewNode(mask)
    BY <1>1 DEF ServerInv, IrqInv, Tables, ServerTypes
  <2>4. \A m \in NtfnIds : m # n => ntfn'[m] = ntfn[m] /\ node'[m] = node[m]
    BY <1>1 DEF ServerInv, IrqInv, Tables, ServerTypes
  <2>5. ntfn'[n].allocated /\ node'[n].bound = ntfn'[n].num_irqs_bound /\ node'[n].max = Cardinality(ntfn'[n].usable)
    <3>1. /\ ProvidedNtfn(mask).num_irqs_bound = 0
          /\ ProvidedNtfn(mask).allocated = TRUE
          /\ ProvidedNtfn(mask).usable = mask
      BY ProvidedIs
    <3> QED
      BY <2>3, <3>1, <1>3
  <2> QED
    BY <2>1, <2>2, <2>4, <2>5 DEF ServerInv, NodesCount
<1>6. AllOnTheirWay'
  BY <1>1 DEF ServerInv, AllOnTheirWay, OnItsWay
<1> QED
  BY <1>2, <1>4, <1>5, <1>6 DEF ServerInv

(* irq_server_thread_new() that fails, and may leave a notification behind   *)
(* that no thread serves.                                                   *)
LEMMA ThreadNewFailsKeeps ==
  ASSUME ServerInv, mini' = mini, NEW n \in NtfnIds, NEW mask \in SUBSET Bits, ThreadNewFails(n, mask)
  PROVE  ServerInv'
<1>1. /\ n \notin Provided /\ irq' = irq /\ kbound' = kbound
      /\ ntfn' = ntfn \/ ntfn' = [ntfn EXCEPT ![n] = ProvidedNtfn(mask)]
      /\ UNCHANGED <<masked, word, inhand, acks, message, threads, node>>
  BY DEF ThreadNewFails
<1>2. IrqInv'
  <2>1. CASE ntfn' = ntfn
    BY <1>1, <2>1, IrqStutters DEF ServerInv, IrqInv, Tables, PairingConsistent, BoundCountExact,
       EntriesSound, KernelBound, Registered, Provided
  <2>2. CASE ntfn' = [ntfn EXCEPT ![n] = ProvidedNtfn(mask)]
    <3>1. Tables'
      BY <1>1, <2>2, ProvideKeeps DEF ServerInv, IrqInv
    <3> QED
      BY <1>1, <3>1 DEF ServerInv, IrqInv
  <2> QED
    BY <1>1, <2>1, <2>2
<1>3. ServerTypes'
  BY <1>1 DEF ServerInv, ServerTypes
<1>4. NodesCount'
  <2>1. ToSet(threads) \subseteq NtfnIds /\ n \notin ToSet(threads)
    BY <1>1 DEF ToSet, ServerInv, ServerTypes, NodesCount, Provided
  <2>2. \A m \in NtfnIds : m # n => ntfn'[m] = ntfn[m]
    BY <1>1 DEF ServerInv, IrqInv, Tables
  <2>3. ToSet(threads)' = ToSet(threads)
    BY <1>1 DEF ToSet
  <2> QED
    BY <1>1, <2>1, <2>2, <2>3 DEF ServerInv, NodesCount
<1>5. AllOnTheirWay'
  BY <1>1 DEF ServerInv, AllOnTheirWay, OnItsWay
<1> QED
  BY <1>2, <1>3, <1>4, <1>5 DEF ServerInv

(* irq_server_register_irq(): the interrupt goes to the first thread with    *)
(* room.                                                                    *)
LEMMA RegisterIrqKeeps ==
  ASSUME ServerInv, mini' = mini, NEW l \in Lines, RegisterIrq(l)
  PROVE  ServerInv'
<1> DEFINE k == Min(RoomyThreads)
           n == threads[k]
<1>0. threads \in Seq(NtfnIds) /\ RoomyThreads \subseteq DOMAIN threads
  BY DEF RoomyThreads, ServerInv, ServerTypes
<1>1. k \in RoomyThreads
  <2>1. RoomyThreads \in SUBSET Nat
    BY <1>0
  <2>2. RoomyThreads # {}
    BY DEF RegisterIrq
  <2> QED
    BY <2>1, <2>2, MinIsLeast
<1>2. n \in NtfnIds /\ n \in ToSet(threads) /\ FreeBadgeBits(n) # {}
  <2>1. FreeBadgeBits(n) # {}
    BY <1>1 DEF RoomyThreads
  <2> HIDE DEF k
  <2>2. k \in DOMAIN threads
    BY <1>0, <1>1
  <2> QED
    BY <1>0, <2>1, <2>2 DEF ToSet
<1>3. n \in Provided
  BY <1>2 DEF ServerInv, NodesCount, Provided
<1>4. /\ Registered # IrqIds /\ ~LineTaken(l) /\ Pair(n, FreeIrqId, l)
      /\ node' = [node EXCEPT ![n].bound = @ + 1]
      /\ UNCHANGED <<word, inhand, acks, threads, message>>
  BY DEF RegisterIrq
<1> HIDE DEF n, k
<1>5. /\ IrqInv'
      /\ \A m \in NtfnIds : m # n => ntfn'[m] = ntfn[m]
      /\ ntfn'[n].allocated = ntfn[n].allocated
      /\ ntfn'[n].num_irqs_bound = ntfn[n].num_irqs_bound + 1
      /\ ntfn'[n].usable = ntfn[n].usable
  BY <1>2, <1>3, <1>4, PairNewKeeps DEF ServerInv
<1>6. ServerTypes'
  BY <1>2, <1>4 DEF ServerInv, ServerTypes
<1>7. NodesCount'
  <2>1. ToSet(threads) \subseteq NtfnIds /\ ToSet(threads)' = ToSet(threads)
    BY <1>4 DEF ServerInv, ServerTypes, ToSet
  <2>2. /\ node'[n].bound = node[n].bound + 1 /\ node'[n].max = node[n].max
        /\ \A m \in NtfnIds : m # n => node'[m] = node[m]
    BY <1>2, <1>4 DEF ServerInv, ServerTypes
  <2> QED
    BY <1>2, <1>5, <2>1, <2>2 DEF ServerInv, NodesCount
<1>8. AllOnTheirWay'
  <2>1. masked' = masked \ {l} /\ kbound' = [kbound EXCEPT ![l] = <<n, Min(FreeBadgeBits(n))>>]
        /\ \A i \in IrqIds : i # FreeIrqId => irq'[i] = irq[i]
    BY <1>4 DEF Pair, ServerInv, IrqInv, Tables
  <2>2. FreeIrqId \in IrqIds /\ irq[FreeIrqId].line = NoLine
    BY <1>4, FreeIdIsFree DEF ServerInv, IrqInv
  <2>3. ASSUME NEW m \in masked'
        PROVE  kbound'[m] # Unbound /\ OnItsWay(m)'
    <3>1. m \in masked /\ m \in Lines /\ m # l
      BY <2>1 DEF ServerInv, IrqInv
    <3>2. kbound'[m] = kbound[m]
      BY <2>1, <3>1 DEF ServerInv, IrqInv, Tables
    <3>3. kbound[m] # Unbound /\ OnItsWay(m)
      BY <3>1 DEF ServerInv, AllOnTheirWay
    <3>4. \A a \in acks : a.line = m /\ irq[a.id].line = m => a \in acks' /\ irq'[a.id].line = m
      <4>1. \A a \in acks : a.id \in IrqIds
        BY DEF ServerInv, IrqInv, Acks
      <4> QED
        BY <1>4, <2>1, <2>2, <3>1, <4>1, IrqConfig
    <3> QED
      BY <1>4, <3>2, <3>3, <3>4, StaysOnItsWay
  <2> QED
    BY <2>3 DEF AllOnTheirWay
<1> QED
  BY <1>5, <1>6, <1>7, <1>8 DEF ServerInv

(* A line fires: its bit is in the notification. *)
LEMMA LineFiresKeeps ==
  ASSUME ServerInv, mini' = mini, NEW l \in Lines, LineFires(l)
  PROVE  ServerInv'
<1>1. Fire(l) /\ threads' = threads /\ node' = node /\ message' = message
  BY DEF LineFires, srvVars
<1>2. /\ IrqInv' /\ kbound[l][1] \in NtfnIds
      /\ word' = [word EXCEPT ![kbound[l][1]] = @ \cup {kbound[l][2]}]
  BY <1>1, FireKeeps DEF ServerInv
<1>3. /\ irq' = irq /\ ntfn' = ntfn /\ kbound' = kbound /\ inhand' = inhand /\ acks' = acks
      /\ masked' = masked \cup {l} /\ kbound[l] # Unbound
  BY <1>1 DEF Fire
<1>4. ServerTypes' /\ NodesCount'
  BY <1>1, <1>3, NodesStay DEF ServerInv, ServerTypes
<1>5. \A n \in NtfnIds : word[n] \subseteq word'[n] /\ kbound[l][2] \in word'[kbound[l][1]]
  BY <1>2 DEF ServerInv, IrqInv
<1>6. AllOnTheirWay'
  <2>1. OnItsWay(l)'
    BY <1>2, <1>3, <1>5 DEF OnItsWay
  <2>2. ASSUME NEW m \in masked
        PROVE  kbound[m] # Unbound /\ OnItsWay(m)'
    <3>1. kbound[m] # Unbound /\ OnItsWay(m) /\ m \in Lines
      BY DEF ServerInv, AllOnTheirWay, IrqInv
    <3>2. kbound[m][1] \in NtfnIds
      BY <3>1, BoundLine DEF ServerInv, IrqInv
    <3> QED
      BY <3>1, <3>2, <1>1, <1>3, <1>5 DEF OnItsWay
  <2> QED
    BY <2>1, <2>2, <1>3 DEF AllOnTheirWay
<1> QED
  BY <1>2, <1>4, <1>6 DEF ServerInv

(* The thread reads its notification: the badge is with the thread. *)
LEMMA ThreadWaitKeeps ==
  ASSUME ServerInv, mini' = mini, NEW n \in NtfnIds, ThreadWait(n)
  PROVE  ServerInv'
<1>1. Receive(n) /\ threads' = threads /\ node' = node /\ message' = message
  BY DEF ThreadWait, srvVars
<1>2. IrqInv'
  BY <1>1, ReceiveKeeps DEF ServerInv
<1>3. /\ irq' = irq /\ ntfn' = ntfn /\ kbound' = kbound /\ masked' = masked /\ acks' = acks
      /\ inhand[n] = {} /\ inhand' = [inhand EXCEPT ![n] = word[n]] /\ word' = [word EXCEPT ![n] = {}]
  BY <1>1 DEF Receive
<1>4. ServerTypes' /\ NodesCount'
  BY <1>1, <1>3, NodesStay DEF ServerInv, ServerTypes
<1>5. \A m \in NtfnIds : word[m] \cup inhand[m] \subseteq word'[m] \cup inhand'[m]
  BY <1>3 DEF ServerInv, IrqInv
<1>6. AllOnTheirWay'
  <2>1. ASSUME NEW m \in masked
        PROVE  kbound[m] # Unbound /\ OnItsWay(m)'
    <3>1. kbound[m] # Unbound /\ OnItsWay(m) /\ m \in Lines
      BY DEF ServerInv, AllOnTheirWay, IrqInv
    <3>2. kbound[m][1] \in NtfnIds
      BY <3>1, BoundLine DEF ServerInv, IrqInv
    <3> QED
      BY <3>1, <3>2, <1>1, <1>3, <1>5 DEF OnItsWay
  <2> QED
    BY <2>1, <1>3 DEF AllOnTheirWay
<1> QED
  BY <1>2, <1>4, <1>6 DEF ServerInv

(* A badge that is handled reaches the callbacks of all the lines in it. *)
LEMMA BadgeAcknowledged ==
  ASSUME ServerInv, NEW n \in NtfnIds, NEW badge, NEW l \in Lines, kbound[l] # Unbound,
         kbound[l][1] = n, kbound[l][2] \in badge,
         \A b \in badge : b \in ntfn[n].status =>
           [id |-> ntfn[n].bound_irqs[b], line |-> irq[ntfn[n].bound_irqs[b]].line] \in acks',
         irq' = irq, kbound' = kbound
  PROVE  OnItsWay(l)'
<1> DEFINE b == kbound[l][2]
           i == ntfn[n].bound_irqs[b]
<1>1. b \in ntfn[n].status /\ i \in IrqIds /\ irq[i].line = l
  BY BoundLine DEF ServerInv, IrqInv
<1>2. [id |-> i, line |-> irq[i].line] \in acks'
  BY <1>1
<1> DEFINE a == [id |-> i, line |-> irq[i].line]
<1>3. a.line = l /\ irq[a.id].line = l
  BY <1>1
<1> HIDE DEF a
<1>4. a \in acks'
  BY <1>2 DEF a
<1> QED
  BY <1>3, <1>4 DEF OnItsWay

(* The thread runs the callbacks itself. *)
LEMMA ThreadHandleKeeps ==
  ASSUME ServerInv, mini' = mini, NEW n \in NtfnIds, ThreadHandle(n)
  PROVE  ServerInv'
<1>1. Handle(n) /\ threads' = threads /\ node' = node /\ message' = message
  BY DEF ThreadHandle, srvVars
<1>2. /\ HandleBadge(n, inhand[n]) /\ irq' = irq /\ kbound' = kbound /\ masked' = masked /\ word' = word
      /\ inhand' = [inhand EXCEPT ![n] = {}] /\ inhand[n] \in SUBSET Bits
  BY <1>1 DEF Handle, ServerInv, IrqInv
<1>3. /\ Tables' /\ acks' \subseteq Acks /\ acks \subseteq acks'
      /\ \A b \in inhand[n] : b \in ntfn[n].status =>
           [id |-> ntfn[n].bound_irqs[b], line |-> irq[ntfn[n].bound_irqs[b]].line] \in acks'
      /\ \A m \in NtfnIds :
           /\ ntfn'[m].allocated = ntfn[m].allocated /\ ntfn'[m].usable = ntfn[m].usable
           /\ ntfn'[m].num_irqs_bound = ntfn[m].num_irqs_bound
  BY <1>2, HandleBadgeKeeps DEF ServerInv, IrqInv
<1>4. IrqInv'
  BY <1>2, <1>3 DEF ServerInv, IrqInv
<1>5. ServerTypes' /\ NodesCount'
  BY <1>1, <1>3, NodesStay DEF ServerInv, ServerTypes
<1>6. AllOnTheirWay'
  <2>1. ASSUME NEW m \in masked
        PROVE  kbound[m] # Unbound /\ OnItsWay(m)'
    <3>1. kbound[m] # Unbound /\ OnItsWay(m) /\ m \in Lines
      BY DEF ServerInv, AllOnTheirWay, IrqInv
    <3>2. kbound[m][1] \in NtfnIds
      BY <3>1, BoundLine DEF ServerInv, IrqInv
    <3>3. CASE kbound[m][1] = n /\ kbound[m][2] \in inhand[n]
      BY <3>1, <3>3, <1>2, <1>3, BadgeAcknowledged
    <3>4. CASE ~(kbound[m][1] = n /\ kbound[m][2] \in inhand[n])
      <4>1. kbound[m][2] \in inhand[kbound[m][1]] => kbound[m][2] \in inhand'[kbound[m][1]]
        BY <3>2, <3>4, <1>2 DEF ServerInv, IrqInv
      <4> QED
        BY <3>1, <4>1, <1>1, <1>2, <1>3 DEF OnItsWay
    <3> QED
      BY <3>1, <3>3, <3>4
  <2> QED
    BY <2>1, <1>2 DEF AllOnTheirWay
<1> QED
  BY <1>4, <1>5, <1>6 DEF ServerInv

(* The badge goes to the owner of the server. *)
LEMMA DeliverKeeps ==
  ASSUME ServerInv, mini' = mini, NEW n \in NtfnIds, Deliver(n)
  PROVE  ServerInv'
<1>1. /\ message = NoMessage /\ message' = [thread |-> n, badge |-> inhand[n]]
      /\ inhand' = [inhand EXCEPT ![n] = {}]
      /\ UNCHANGED <<irq, ntfn, kbound, masked, word, acks, threads, node>>
  BY DEF Deliver
<1>2. message' \in Messages /\ message' # NoMessage
  BY <1>1, IrqServerConfig DEF Messages, ServerInv, IrqInv
<1>3. IrqInv'
  <2>1. Tables'
    BY <1>1 DEF ServerInv, IrqInv, Tables, PairingConsistent, BoundCountExact, EntriesSound, KernelBound,
       Registered, Provided
  <2> QED
    BY <1>1, <2>1 DEF ServerInv, IrqInv
<1>4. ServerTypes' /\ NodesCount'
  BY <1>1, <1>2, NodesStay DEF ServerInv, ServerTypes
<1>5. message'.thread = n /\ message'.badge = inhand[n]
  BY <1>1
<1>6. AllOnTheirWay'
  <2>1. ASSUME NEW m \in masked
        PROVE  kbound[m] # Unbound /\ OnItsWay(m)'
    <3>1. kbound[m] # Unbound /\ OnItsWay(m) /\ m \in Lines
      BY DEF ServerInv, AllOnTheirWay, IrqInv
    <3>2. kbound[m][1] \in NtfnIds
      BY <3>1, BoundLine DEF ServerInv, IrqInv
    <3>3. CASE kbound[m][1] = n /\ kbound[m][2] \in inhand[n]
      BY <3>1, <3>3, <1>1, <1>2, <1>5 DEF OnItsWay
    <3>4. CASE ~(kbound[m][1] = n /\ kbound[m][2] \in inhand[n])
      <4>1. kbound[m][2] \in inhand[kbound[m][1]] => kbound[m][2] \in inhand'[kbound[m][1]]
        BY <3>2, <3>4, <1>1 DEF ServerInv, IrqInv
      <4> QED
        BY <3>1, <4>1, <1>1 DEF OnItsWay
    <3> QED
      BY <3>1, <3>3, <3>4
  <2> QED
    BY <2>1, <1>1 DEF AllOnTheirWay
<1> QED
  BY <1>3, <1>4, <1>6 DEF ServerInv

(* The owner of the server runs the callbacks of the message it received. *)
LEMMA HandleIrqIpcKeeps ==
  ASSUME ServerInv, mini' = mini, HandleIrqIpc
  PROVE  ServerInv'
<1> DEFINE n == message.thread
           badge == message.badge
<1>1. message \in Messages /\ n \in NtfnIds /\ badge \in SUBSET Bits
  BY DEF HandleIrqIpc, ServerInv, ServerTypes, Messages
<1>2. /\ HandleBadge(n, badge) /\ message' = NoMessage
      /\ UNCHANGED <<irq, kbound, masked, word, inhand, threads, node>>
  BY DEF HandleIrqIpc
<1> HIDE DEF n, badge
<1>3. /\ Tables' /\ acks' \subseteq Acks /\ acks \subseteq acks'
      /\ \A b \in badge : b \in ntfn[n].status =>
           [id |-> ntfn[n].bound_irqs[b], line |-> irq[ntfn[n].bound_irqs[b]].line] \in acks'
      /\ \A m \in NtfnIds :
           /\ ntfn'[m].allocated = ntfn[m].allocated /\ ntfn'[m].usable = ntfn[m].usable
           /\ ntfn'[m].num_irqs_bound = ntfn[m].num_irqs_bound
  BY <1>1, <1>2, HandleBadgeKeeps DEF ServerInv, IrqInv
<1>4. IrqInv'
  BY <1>2, <1>3 DEF ServerInv, IrqInv
<1>5. ServerTypes' /\ NodesCount'
  BY <1>2, <1>3, NodesStay DEF ServerInv, ServerTypes
<1>6. AllOnTheirWay'
  <2>1. ASSUME NEW m \in masked
        PROVE  kbound[m] # Unbound /\ OnItsWay(m)'
    <3>1. kbound[m] # Unbound /\ OnItsWay(m) /\ m \in Lines
      BY DEF ServerInv, AllOnTheirWay, IrqInv
    <3>3. CASE kbound[m][1] = n /\ kbound[m][2] \in badge
      BY <3>1, <3>3, <1>1, <1>2, <1>3, BadgeAcknowledged
    <3>4. CASE ~(kbound[m][1] = n /\ kbound[m][2] \in badge)
      BY <3>1, <3>4, <1>2, <1>3 DEF OnItsWay, n, badge
    <3> QED
      BY <3>1, <3>3, <3>4
  <2> QED
    BY <2>1, <1>2 DEF AllOnTheirWay
<1> QED
  BY <1>4, <1>5, <1>6 DEF ServerInv

(* The callback acknowledges: the line may fire again. *)
LEMMA CallbackAcksKeeps ==
  ASSUME ServerInv, mini' = mini, NEW a \in acks, CallbackAcks(a)
  PROVE  ServerInv'
<1>1. Acknowledge(a) /\ threads' = threads /\ node' = node /\ message' = message
  BY DEF CallbackAcks, srvVars
<1>2. IrqInv'
  BY <1>1, AcknowledgeKeeps DEF ServerInv
<1>3. /\ irq' = irq /\ ntfn' = ntfn /\ kbound' = kbound /\ inhand' = inhand /\ word' = word
      /\ acks' = acks \ {a}
      /\ masked' = IF irq[a.id].allocated THEN masked \ {irq[a.id].line} ELSE masked
  BY <1>1 DEF Acknowledge
<1>4. ServerTypes' /\ NodesCount'
  BY <1>1, <1>3, NodesStay DEF ServerInv, ServerTypes
<1>5. a.id \in IrqIds
  BY DEF ServerInv, IrqInv, Acks
<1>6. AllOnTheirWay'
  <2>1. ASSUME NEW m \in masked'
        PROVE  kbound[m] # Unbound /\ OnItsWay(m)'
    <3>1. kbound[m] # Unbound /\ OnItsWay(m) /\ m \in Lines
      BY <1>3 DEF ServerInv, AllOnTheirWay, IrqInv
    <3>2. irq[a.id].line # m
      BY <2>1, <3>1, <1>3, <1>5, EntryFacts DEF ServerInv, IrqInv
    <3>3. \A c \in acks : c.line = m /\ irq[c.id].line = m => c \in acks' /\ irq'[c.id].line = m
      BY <3>2, <1>3
    <3> QED
      BY <3>1, <3>3, <1>1, <1>3, StaysOnItsWay
  <2> QED
    BY <2>1, <1>3 DEF AllOnTheirWay
<1> QED
  BY <1>2, <1>4, <1>6 DEF ServerInv

(* Every step of the server keeps its invariant. *)
LEMMA ServerNextKeeps ==
  ASSUME ServerInv, ServerNext, UNCHANGED config
  PROVE  ServerInv'
<1>1. mini' = mini
  BY DEF config
<1> QED
  BY <1>1, ThreadNewKeeps, ThreadNewFailsKeeps, RegisterIrqKeeps, LineFiresKeeps, ThreadWaitKeeps,
     ThreadHandleKeeps, DeliverKeeps, HandleIrqIpcKeeps, CallbackAcksKeeps
     DEF ServerNext

(* Nothing happens. *)
LEMMA ServerStutters ==
  ASSUME ServerInv, UNCHANGED <<allVars, config, delivery_ep>>
  PROVE  ServerInv'
<1>1. IrqInv'
  BY IrqStutters DEF ServerInv, allVars
<1>2. ServerTypes' /\ NodesCount' /\ AllOnTheirWay'
  BY DEF ServerInv, allVars, vars, srvVars, config, ServerTypes, NodesCount, AllOnTheirWay, OnItsWay, ToSet
<1> QED
  BY <1>1, <1>2 DEF ServerInv

(* However registrations, arriving interrupts, server threads and the owner  *)
(* of the server interleave: the nodes that irq_server_register_irq()       *)
(* consults are exact, and every interrupt that arrived is in the           *)
(* notification, with a thread, with the owner, or with its callback.       *)
THEOREM ServerAlwaysExact == ServerSpec => []ServerExact
<1>1. ServerInit => ServerInv
  BY InitServerInv
<1>2. ServerInv /\ [ServerNext /\ UNCHANGED <<config, delivery_ep>>]_<<allVars, config, delivery_ep>> => ServerInv'
  BY ServerNextKeeps, ServerStutters
<1>3. ServerInv => ServerExact
  BY ServerInvImplies
<1> QED
  BY <1>1, <1>2, <1>3, PTL DEF ServerSpec
===============================================================================
