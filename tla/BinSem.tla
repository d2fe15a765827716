-------------------------------- MODULE BinSem --------------------------------
(***************************************************************************)
(* The binary semaphore of libsel4sync (bin_sem_bare.h, bin_sem.h) and the *)
(* mutex that is a synonym of it (mutex.h).                                *)
(*                                                                         *)
(* The shared integer `value` is 1 when the semaphore is free.  wait()     *)
(* decrements it atomically and, when the old value was not positive,      *)
(* sleeps on a kernel notification; post() increments it atomically and,   *)
(* when the new value is not positive, signals the notification.  Between  *)
(* each of these steps any other thread may run, which is why every one of *)
(* them is an action.                                                      *)
(*                                                                         *)
(* The notification is the kernel's and is modelled from its use: a signal *)
(* wakes one sleeping thread, or, when none sleeps, is remembered in a     *)
(* single bit, so a second one is absorbed.  Which sleeper is woken is     *)
(* left open (the kernel's queue is FIFO or by priority).                  *)
(***************************************************************************)
EXTENDS Integers, FiniteSets

CONSTANTS
  Threads,   \* the threads that use the semaphore
  NoOne,     \* not a thread: the semaphore has no holder
  IntMin     \* INT_MIN: the value that cannot be decremented

ASSUME ThreadsFinite == IsFiniteSet(Threads)
ASSUME NoOneAssumption == NoOne \notin Threads
ASSUME IntMinAssumption == IntMin \in Int /\ IntMin < 0

VARIABLES
  value,     \* sync_bin_sem_t.value
  active,    \* the notification holds an undelivered signal
  lk,        \* where each thread is in wait() or post()
  newval     \* post()'s local: the value its increment produced

lockVars == <<value, active, lk, newval>>

-----------------------------------------------------------------------------
(* The stages of a thread.                                                 *)
(*   idle     outside, not holding          cs      wait() returned 0      *)
(*   towait   decremented, to seL4_Wait     blocked sleeping in seL4_Wait  *)
(*   check    incremented, at the assert    tosignal  to seL4_Signal       *)

Stages == {"idle", "towait", "blocked", "cs", "check", "tosignal"}

Holders == {t \in Threads : lk[t] = "cs"}

Sleepers == {t \in Threads : lk[t] = "blocked"}

(* sync_bin_sem_init(): a semaphore starts at 1 (free: always so for a      *)
(* mutex) or at 0, which stands for a first holder that never waited.       *)
LockInit ==
  \E first \in Threads \cup {NoOne} :
    /\ value = IF first = NoOne THEN 1 ELSE 0
    /\ lk = [t \in Threads |-> IF t = first THEN "cs" ELSE "idle"]
    /\ active = FALSE
    /\ newval = [t \in Threads |-> 0]

-----------------------------------------------------------------------------
(* sync_atomic_decrement_safe() at INT_MIN refuses, and wait() returns -1   *)
(* without having changed anything.                                         *)
WaitRefused(t) ==
  /\ lk[t] = "idle"
  /\ value = IntMin
  /\ UNCHANGED lockVars

(* Mutant: an off-by-one in the test of the old value. *)
WaitDecrementOffByOne(t) ==
  /\ lk[t] = "idle"
  /\ value # IntMin
  /\ value' = value - 1
  /\ lk' = [lk EXCEPT ![t] = IF value < 0 THEN "towait" ELSE "cs"]
  /\ UNCHANGED <<active, newval>>

(* sync_bin_sem_bare_wait(): the atomic decrement, and the branch on the old value. *)
WaitDecrement(t) ==
  /\ lk[t] = "idle"
  /\ value # IntMin
  /\ value' = value - 1
  /\ lk' = [lk EXCEPT ![t] = IF value <= 0 THEN "towait" ELSE "cs"]
  /\ UNCHANGED <<active, newval>>

(* seL4_Wait on a notification that holds a signal: take it and go on. *)
WaitTakeSignal(t) ==
  /\ lk[t] = "towait"
  /\ active
  /\ active' = FALSE
  /\ lk' = [lk EXCEPT ![t] = "cs"]
  /\ UNCHANGED <<value, newval>>

(* seL4_Wait on a notification without a signal: sleep. *)
WaitBlock(t) ==
  /\ lk[t] = "towait"
  /\ ~active
  /\ lk' = [lk EXCEPT ![t] = "blocked"]
  /\ UNCHANGED <<value, active, newval>>

(* sync_bin_sem_bare_post(): the atomic increment by the holder. *)
PostIncrement(t) ==
  /\ lk[t] = "cs"
  /\ value' = value + 1
  /\ newval' = [newval EXCEPT ![t] = value + 1]
  /\ lk' = [lk EXCEPT ![t] = "check"]
  /\ UNCHANGED active

(* The assertion re-reads the shared value; then the branch on post()'s    *)
(* own result, which is dead from here on.                                  *)
PostCheck(t) ==
  /\ lk[t] = "check"
  /\ lk' = [lk EXCEPT ![t] = IF newval[t] <= 0 THEN "tosignal" ELSE "idle"]
  /\ newval' = [newval EXCEPT ![t] = 0]
  /\ UNCHANGED <<value, active>>

(* seL4_Signal with sleepers: one of them returns from seL4_Wait. *)
PostWake(t) ==
  /\ lk[t] = "tosignal"
  /\ \E w \in Sleepers :
       lk' = [lk EXCEPT ![t] = "idle", ![w] = "cs"]
  /\ UNCHANGED <<value, active, newval>>

(* Mutant: the signal is left in the notification although somebody sleeps. *)
PostSignalTooEager(t) ==
  /\ lk[t] = "tosignal"
  /\ active' = TRUE
  /\ lk' = [lk EXCEPT ![t] = "idle"]
  /\ UNCHANGED <<value, newval>>

(* seL4_Signal without sleepers: the signal is left in the notification. *)
PostLeaveSignal(t) ==
  /\ lk[t] = "tosignal"
  /\ Sleepers = {}
  /\ active' = TRUE
  /\ lk' = [lk EXCEPT ![t] = "idle"]
  /\ UNCHANGED <<value, newval>>

(* Steps a thread inside wait() or post() takes on its own. *)
LockStep(t) ==
  \/ WaitTakeSignal(t)
  \/ WaitBlock(t)
  \/ PostCheck(t)
  \/ PostWake(t)
  \/ PostLeaveSignal(t)

LockNext ==
  \E t \in Threads :
    \/ WaitRefused(t)
    \/ WaitDecrement(t)
    \/ PostIncrement(t)
    \/ LockStep(t)

LockSpec == LockInit /\ [][LockNext]_lockVars

-----------------------------------------------------------------------------
(* Properties.                                                             *)

(* Every variable has its type; the value stays a C int: wait() never takes *)
(* it below INT_MIN and post() never above 1.                               *)
LockTypeOK ==
  /\ value \in IntMin .. 1
  /\ active \in BOOLEAN
  /\ lk \in [Threads -> Stages]
  /\ newval \in [Threads -> Int]

(* Two threads are never between a successful wait() and their post().     *)
MutualExclusion ==
  \A t, u \in Holders : t = u

(* post()'s assertion, evaluated when it is reached and not when the        *)
(* increment happened: *value <= 1.                                         *)
PostAssertion ==
  \A t \in Threads : lk[t] = "check" => value <= 1

(* Threads that have decremented and not yet incremented. *)
Claims == {t \in Threads : lk[t] \in {"cs", "towait", "blocked"}}

(* Threads whose post() will signal but has not yet. *)
Signallers ==
  {t \in Threads : lk[t] = "tosignal" \/ (lk[t] = "check" /\ newval[t] <= 0)}

(* The one thing that is passed along: being the holder, being about to     *)
(* signal, or lying in the notification.                                    *)
Passing == Holders \cup Signallers

(* The value counts the claims exactly. *)
ValueCounts == value = 1 - Cardinality(Claims)

(* The right to hold is in one place at a time... *)
OneToken ==
  /\ \A t, u \in Passing : t = u
  /\ active => Passing = {}

(* ...it exists whenever somebody claims it, so that no thread sleeps with  *)
(* nobody left to wake it: no wake-up is lost between decrement and wait.   *)
NoLostWakeup ==
  Claims # {} => active \/ Passing # {}

(* ...a signal on its way has a thread to receive it, which keeps a left-   *)
(* over signal from letting a later thread in beside the holder...          *)
NoStaleSignal ==
  active \/ Signallers # {} => Claims \ Holders # {}

(* ...and an undelivered signal means that nobody sleeps. *)
SignalNotIgnored == active => Sleepers = {}

(* The inductive invariant: all of these together. *)
LockInv ==
  /\ LockTypeOK
  /\ ValueCounts
  /\ OneToken
  /\ NoLostWakeup
  /\ NoStaleSignal
  /\ SignalNotIgnored

(* Who holds the semaphore, for the refinement. *)
Owner == IF Holders = {} THEN NoOne ELSE CHOOSE t \in Threads : t \in Holders

Abstract == INSTANCE AbstractLock WITH owner <- Owner

(* The semaphore implements the abstract lock. *)
ImplementsLock == Abstract!Spec
===============================================================================
