---------------------------- MODULE RecursiveMutex ----------------------------
(***************************************************************************)
(* The recursive mutex of libsel4sync (recursive_mutex.c).  The lock is a  *)
(* single signal that lies in a kernel notification or with the thread     *)
(* that took it; `owner` and `held` are written only by that thread, but   *)
(* `owner` is read by every caller of lock(), without protection.          *)
(***************************************************************************)
EXTENDS Naturals, FiniteSets

CONSTANTS
  Threads,   \* the threads (the address of a thread's IPC buffer names it)
  NoOne,     \* owner == NULL
  UintMax    \* UINT_MAX: the depth that cannot be exceeded

ASSUME NoOneAssumption == NoOne \notin Threads
ASSUME UintMaxAssumption == UintMax \in Nat \ {0}

VARIABLES
  owner,     \* sync_recursive_mutex_t.owner
  held,      \* sync_recursive_mutex_t.held
  active,    \* the notification holds a signal
  pc,        \* where each thread is in lock() or unlock()
  depth      \* per thread, successful lock() calls not yet unlocked (history)

vars == <<owner, held, active, pc, depth>>

(*   run      outside both functions      got     back from seL4_Wait       *)
(*   towait   not the owner, to seL4_Wait blocked asleep in seL4_Wait       *)
(*   tosignal unlock() has cleared owner, to seL4_Signal                    *)
Stages == {"run", "towait", "blocked", "got", "tosignal"}

At(s) == {t \in Threads : pc[t] = s}

Go(t, s) == pc' = [pc EXCEPT ![t] = s]

(* sync_recursive_mutex_init(): nobody owns it and the notification is primed. *)
Init ==
  /\ owner = NoOne
  /\ held = 0
  /\ active = TRUE
  /\ pc = [t \in Threads |-> "run"]
  /\ depth = [t \in Threads |-> 0]

-----------------------------------------------------------------------------
(* sync_recursive_mutex_lock() by the owner: one level deeper... *)
LockAgain(t) ==
  /\ pc[t] = "run"
  /\ owner = t
  /\ held # UintMax
  /\ held' = held + 1
  /\ depth' = [depth EXCEPT ![t] = @ + 1]
  /\ UNCHANGED <<owner, active, pc>>

(* ...or refused at UINT_MAX. *)
LockRefused(t) ==
  /\ pc[t] = "run"
  /\ owner = t
  /\ held = UintMax
  /\ UNCHANGED vars

(* ...by another thread: the unprotected comparison fails, go and wait. *)
LockContend(t) ==
  /\ pc[t] = "run"
  /\ owner # t
  /\ Go(t, "towait")
  /\ UNCHANGED <<owner, held, active, depth>>

(* seL4_Wait takes the signal, or sleeps. *)
LockTakeSignal(t) ==
  /\ pc[t] = "towait"
  /\ active
  /\ active' = FALSE
  /\ Go(t, "got")
  /\ UNCHANGED <<owner, held, depth>>

LockBlock(t) ==
  /\ pc[t] = "towait"
  /\ ~active
  /\ Go(t, "blocked")
  /\ UNCHANGED <<owner, held, active, depth>>

(* After the wait: both assertions, then ownership at depth one. *)
LockEnter(t) ==
  /\ pc[t] = "got"
  /\ owner' = t
  /\ held' = held + 1
  /\ depth' = [depth EXCEPT ![t] = @ + 1]
  /\ Go(t, "run")
  /\ UNCHANGED active

(* Mutant: every unlock() gives the mutex up. *)
UnlockAll(t) ==
  /\ pc[t] = "run"
  /\ owner = t
  /\ held > 0
  /\ held' = held - 1
  /\ depth' = [depth EXCEPT ![t] = @ - 1]
  /\ owner' = NoOne
  /\ Go(t, "tosignal")
  /\ UNCHANGED active

(* Mutant: the owner is not cleared. *)
UnlockKeepsOwner(t) ==
  /\ pc[t] = "run"
  /\ owner = t
  /\ held > 0
  /\ held' = held - 1
  /\ depth' = [depth EXCEPT ![t] = @ - 1]
  /\ Go(t, IF held = 1 THEN "tosignal" ELSE "run")
  /\ UNCHANGED <<owner, active>>

(* sync_recursive_mutex_unlock() by the owner; the outermost one clears the *)
(* owner before it signals.                                                 *)
Unlock(t) ==
  /\ pc[t] = "run"
  /\ owner = t
  /\ held > 0
  /\ held' = held - 1
  /\ depth' = [depth EXCEPT ![t] = @ - 1]
  /\ owner' = IF held = 1 THEN NoOne ELSE owner
  /\ Go(t, IF held = 1 THEN "tosignal" ELSE "run")
  /\ UNCHANGED active

(* seL4_Signal: wake a sleeper, or leave the signal in the notification. *)
UnlockWake(t) ==
  /\ pc[t] = "tosignal"
  /\ \E w \in At("blocked") : pc' = [pc EXCEPT ![t] = "run", ![w] = "got"]
  /\ UNCHANGED <<owner, held, active, depth>>

(* Mutant: the signal is left in the notification although somebody sleeps. *)
UnlockLeavesAlways(t) ==
  /\ pc[t] = "tosignal"
  /\ active' = TRUE
  /\ Go(t, "run")
  /\ UNCHANGED <<owner, held, depth>>

UnlockLeaveSignal(t) ==
  /\ pc[t] = "tosignal"
  /\ At("blocked") = {}
  /\ active' = TRUE
  /\ Go(t, "run")
  /\ UNCHANGED <<owner, held, depth>>

-----------------------------------------------------------------------------
Step(t) ==
  \/ LockTakeSignal(t)
  \/ LockBlock(t)
  \/ LockEnter(t)
  \/ UnlockWake(t)
  \/ UnlockLeaveSignal(t)

Next ==
  \E t \in Threads :
    \/ LockAgain(t)
    \/ LockRefused(t)
    \/ LockContend(t)
    \/ Unlock(t)
    \/ Step(t)

Spec == Init /\ [][Next]_vars

(* Threads inside lock() and unlock() are scheduled; nothing obliges an     *)
(* owner to unlock.                                                         *)
Fairness == \A t \in Threads : WF_vars(Step(t))

FairSpec == Spec /\ Fairness

-----------------------------------------------------------------------------
(* Properties.                                                             *)

(* The type invariant; `held` never leaves an unsigned int. *)
TypeOK ==
  /\ owner \in Threads \cup {NoOne}
  /\ held \in 0 .. UintMax
  /\ active \in BOOLEAN
  /\ pc \in [Threads -> Stages]
  /\ depth \in [Threads -> Nat]

(* lock()'s assertions after the wait: no owner and depth zero. *)
LockAssertions == \A t \in At("got") : owner = NoOne /\ held = 0

(* `held` is the depth of the one thread that is inside, whatever the       *)
(* others' unprotected reads of `owner` saw.                                *)
DepthIsOwners ==
  \A t \in Threads :
    /\ owner = t => held = depth[t] /\ held > 0
    /\ owner # t => depth[t] = 0

(* The signal is in one place: with the owner, on its way in or out, or in  *)
(* the notification; otherwise nobody could ever lock again.                *)
Bearers == {t \in Threads : owner = t \/ pc[t] \in {"got", "tosignal"}}

OneSignal ==
  /\ \A t, u \in Bearers : t = u
  /\ active <=> Bearers = {}

(* The inductive invariant. *)
MutexInv ==
  /\ TypeOK
  /\ LockAssertions
  /\ DepthIsOwners
  /\ OneSignal
  /\ owner = NoOne => held = 0
  /\ \A t \in Threads : owner = t => pc[t] = "run"

Abstract == INSTANCE AbstractLock

(* The mutex implements the abstract lock, with `owner` as its owner. *)
ImplementsLock == Abstract!Spec

(* When somebody waits, the mutex does not stay without an owner. *)
Handover ==
  (owner = NoOne /\ \E t \in Threads : pc[t] \in {"towait", "blocked"}) ~> (owner # NoOne)
===============================================================================
