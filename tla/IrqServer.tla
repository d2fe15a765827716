------------------------------- MODULE IrqServer -------------------------------
(***************************************************************************)
(* The IRQ server of libsel4utils (irq_server.c), on top of the IRQ        *)
(* interface.  Each server thread owns a notification: it waits on it and  *)
(* either sends the badge to the server's endpoint, where the owner of the *)
(* server receives it and runs the callbacks, or runs them itself when     *)
(* there is no endpoint.                                                   *)
(*                                                                         *)
(* A thread's ID is the ID of its notification.  inhand[n] is the badge    *)
(* thread n has read and not yet passed on.                                *)
(***************************************************************************)
EXTENDS IrqInterface, Sequences, SequencesExt

CONSTANTS
  MaxAttempts,  \* bound on calls of irq_server_thread_new()
  NoMessage     \* not a message

ASSUME IrqServerConfig ==
  /\ MaxAttempts \in Nat
  /\ MaxIrqIds = MaxNtfnIds   \* irq_server_new() gives both num_irqs
  /\ NoMessage \notin [thread : NtfnIds, badge : SUBSET Bits]

VARIABLES
  threads,      \* server_threads: the IDs of the threads, newest first
  node,         \* per ID: num_irqs_bound and max_irqs_bound of the thread's node
  message,      \* what the owner of the server received and is about to handle
  attempts,     \* calls of irq_server_thread_new() so far
  delivery_ep   \* the server was given an endpoint; never changes

srvVars == <<threads, node, message, attempts>>
allVars == <<vars, srvVars>>

(* irq_server_new(), which creates a standard interface *)
ServerInit ==
  /\ Init /\ ~mini
  /\ delivery_ep \in BOOLEAN
  /\ threads = <<>>
  /\ node = [n \in NtfnIds |-> [bound |-> 0, max |-> 0]]
  /\ message = NoMessage
  /\ attempts = 0

-----------------------------------------------------------------------------
(* irq_server_node_new() *)
NewNode(mask) == [bound |-> 0, max |-> Cardinality(mask)]

(* irq_server_thread_new(): provide the notification, start the thread and   *)
(* put it at the head of the list.  Its ID is a free hint, or the lowest.    *)
ThreadNew(n, mask) ==
  /\ attempts < MaxAttempts
  /\ ProvideNtfn(n, mask)
  /\ threads' = <<n>> \o threads
  /\ node' = [node EXCEPT ![n] = NewNode(mask)]
  /\ attempts' = attempts + 1
  /\ UNCHANGED message

(* irq_server_thread_new() when memory or the thread could not be had: the   *)
(* notification is returned, if its ID is not zero.                          *)
ThreadNewFails(n, mask) ==
  /\ attempts < MaxAttempts
  /\ n \notin Provided
  /\ ntfn' = IF n # 0 THEN ntfn ELSE [ntfn EXCEPT ![n] = ProvidedNtfn(mask)]
  /\ attempts' = attempts + 1
  /\ UNCHANGED <<irq, kbound, masked, word, inhand, acks, threads, node, message>>

(* The threads at which irq_server_register_irq() succeeds, by their place   *)
(* in the list: those with room in their node and in their notification.    *)
RoomyThreads ==
  {k \in DOMAIN threads : /\ node[threads[k]].bound < node[threads[k]].max
                          /\ FreeBadgeBits(threads[k]) # {}}

(* irq_server_register_irq(): the first thread with room at which both the  *)
(* registration and the pairing succeed takes the interrupt; an interrupt   *)
(* that cannot be paired is unregistered again.                             *)
RegisterIrq(l) ==
  /\ Registered # IrqIds
  /\ ~LineTaken(l)
  /\ RoomyThreads # {}
  /\ LET n == threads[Min(RoomyThreads)] IN
       /\ Pair(n, FreeIrqId, l)
       /\ node' = [node EXCEPT ![n].bound = @ + 1]
  /\ UNCHANGED <<word, inhand, acks, threads, message, attempts>>

-----------------------------------------------------------------------------
(* _irq_thread_entry(): the thread reads its notification... *)
ThreadWait(n) ==
  /\ n \in ToSet(threads)
  /\ Receive(n)
  /\ UNCHANGED srvVars

(* ...and runs the callbacks itself... *)
ThreadHandle(n) ==
  /\ ~delivery_ep
  /\ n \in ToSet(threads)
  /\ Handle(n)
  /\ UNCHANGED srvVars

(* ...or sends to the endpoint, once the owner of the server receives there *)
(* (irq_server_wait_for_irq()).                                             *)
Deliver(n) ==
  /\ delivery_ep
  /\ inhand[n] # {}
  /\ message = NoMessage
  /\ message' = [thread |-> n, badge |-> inhand[n]]
  /\ inhand' = [inhand EXCEPT ![n] = {}]
  /\ UNCHANGED <<irq, ntfn, kbound, masked, word, acks, threads, node, attempts>>

(* Mutant: a badge is handled for the newest thread, whoever sent it. *)
HandleIrqIpcNewest ==
  /\ message # NoMessage
  /\ HandleBadge(Head(threads), message.badge)
  /\ message' = NoMessage
  /\ UNCHANGED <<irq, kbound, masked, word, inhand, threads, node, attempts>>

(* irq_server_handle_irq_ipc(): the message names the thread. *)
HandleIrqIpc ==
  /\ message # NoMessage
  /\ HandleBadge(message.thread, message.badge)
  /\ message' = NoMessage
  /\ UNCHANGED <<irq, kbound, masked, word, inhand, threads, node, attempts>>

LineFires(l) == Fire(l) /\ UNCHANGED srvVars

CallbackAcks(a) == Acknowledge(a) /\ UNCHANGED srvVars

ServerNext ==
  \/ \E n \in NtfnIds, mask \in SUBSET Bits \ {{}} : ThreadNew(n, mask) \/ ThreadNewFails(n, mask)
  \/ \E l \in Lines : RegisterIrq(l) \/ LineFires(l)
  \/ \E n \in NtfnIds : ThreadWait(n) \/ ThreadHandle(n) \/ Deliver(n)
  \/ HandleIrqIpc
  \/ \E a \in acks : CallbackAcks(a)

(* The threads run, the owner of the server keeps waiting for interrupts    *)
(* (sends queue on the endpoint in order), and callbacks acknowledge.       *)
ServerFairness ==
  /\ \A n \in NtfnIds : WF_allVars(ThreadWait(n)) /\ WF_allVars(ThreadHandle(n)) /\ SF_allVars(Deliver(n))
  /\ WF_allVars(HandleIrqIpc)
  /\ \A i \in IrqIds, l \in Lines : WF_allVars(CallbackAcks([id |-> i, line |-> l]))

ServerSpec == ServerInit /\ [][ServerNext /\ UNCHANGED <<config, delivery_ep>>]_<<allVars, config, delivery_ep>>

FairServerSpec == ServerSpec /\ ServerFairness

-----------------------------------------------------------------------------
(* Properties.                                                             *)

(* A thread's node counts exactly the interrupts paired with its            *)
(* notification, and has room exactly when a badge bit is free: an          *)
(* interrupt is refused by irq_server_register_irq() only when there really *)
(* is no thread to take it.                                                 *)
NodesExact ==
  \A n \in ToSet(threads) :
    /\ ntfn[n].allocated
    /\ node[n].bound = ntfn[n].num_irqs_bound
    /\ node[n].bound < node[n].max <=> FreeBadgeBits(n) # {}

(* What has arrived on line l is on its way to a callback: in the           *)
(* notification, with the thread, with the owner, or with the callback.     *)
OnItsWay(l) ==
  LET n == kbound[l][1]
      b == kbound[l][2] IN
  \/ b \in word[n] \cup inhand[n]
  \/ message # NoMessage /\ message.thread = n /\ b \in message.badge
  \/ \E a \in acks : a.line = l /\ irq[a.id].line = l

(* No interrupt is lost between the kernel, the thread and the owner. *)
NothingLost == \A l \in masked : OnItsWay(l)

(* Every interrupt that arrives is acknowledged. *)
ServerServes == \A l \in Lines : l \in masked ~> l \notin masked

(* The two together: however registrations, arriving interrupts and threads *)
(* interleave, no thread is believed full or free when it is not, and no    *)
(* interrupt that masks its line is forgotten on its way to its callback.   *)
ServerExact == NodesExact /\ NothingLost
===============================================================================
