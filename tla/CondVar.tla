------------------------------- MODULE CondVar -------------------------------
(***************************************************************************)
(* The condition variable of libsel4sync (condition_var.h), used with a    *)
(* binary semaphore as the monitor's lock.  Every thread may, at any time, *)
(* take and give back the lock, and, holding it, wait on the condition     *)
(* variable, signal it, broadcast to it, or broadcast and release.         *)
(*                                                                         *)
(* The condition variable's notification is a kernel notification like the *)
(* lock's: a signal wakes one sleeper or is remembered in one bit.         *)
(*                                                                         *)
(* A broadcast wakes one waiter; each waiter that comes out passes the     *)
(* signal on while `broadcasting` is set and others are left.              *)
(***************************************************************************)
EXTENDS BinSem

CONSTANT MaxWaiters   \* bound on `waiters`, which failed waits can inflate

ASSUME MaxWaitersAssumption == MaxWaiters \in Nat

VARIABLES
  waiters,       \* sync_cv_t.waiters
  broadcasting,  \* sync_cv_t.broadcasting
  cvActive,      \* the condition variable's notification holds a signal
  cv             \* where each thread is in a condition variable operation

cvVars == <<waiters, broadcasting, cvActive, cv>>
vars == <<lockVars, cvVars>>

(*   out       not in an operation that gives up the lock                  *)
(*   waiting   sync_cv_wait: lock being released, seL4_Wait still to come   *)
(*   asleep    sync_cv_wait: sleeping in seL4_Wait                         *)
(*   relock    sync_cv_wait: notified, reacquiring the lock                *)
(*   release   sync_cv_broadcast_release: lock being released, to signal    *)
CvStages == {"out", "waiting", "asleep", "relock", "release"}

InWait == {t \in Threads : cv[t] \in {"waiting", "asleep", "relock"}}

(* A thread that is free to call an operation of the lock or the variable. *)
Free(t) == cv[t] = "out"

(* sync_cv_init() *)
Init ==
  /\ LockInit
  /\ waiters = 0
  /\ broadcasting = FALSE
  /\ cvActive = FALSE
  /\ cv = [t \in Threads |-> "out"]

-----------------------------------------------------------------------------
(* seL4_Signal on the condition variable, by a thread whose stage becomes s. *)
Signal(t, s) ==
  LET asleep == {w \in Threads : cv[w] = "asleep"} IN
  \/ /\ \E w \in asleep : cv' = [cv EXCEPT ![t] = s, ![w] = "relock"]
     /\ UNCHANGED cvActive
  \/ /\ asleep = {}
     /\ cvActive' = TRUE
     /\ cv' = [cv EXCEPT ![t] = s]

(* The lock by itself: taken and given back outside a wait. *)
Lock(t) ==
  /\ Free(t)
  /\ WaitDecrement(t) \/ WaitRefused(t)
  /\ UNCHANGED cvVars

Unlock(t) ==
  /\ Free(t)
  /\ PostIncrement(t)
  /\ UNCHANGED cvVars

(* A thread inside wait() or post() of the lock goes on. *)
LockProgress(t) ==
  /\ LockStep(t)
  /\ UNCHANGED cvVars

-----------------------------------------------------------------------------
(* Mutant: the waiter is counted only after the lock has been released. *)
CvWaitCountedLate(t) ==
  /\ Free(t)
  /\ PostIncrement(t)
  /\ broadcasting' = FALSE
  /\ cv' = [cv EXCEPT ![t] = "waiting"]
  /\ UNCHANGED <<waiters, cvActive>>

(* sync_cv_wait(): counts itself, ends any broadcast, begins to release. *)
CvWait(t) ==
  /\ Free(t)
  /\ waiters < MaxWaiters
  /\ PostIncrement(t)
  /\ waiters' = waiters + 1
  /\ broadcasting' = FALSE
  /\ cv' = [cv EXCEPT ![t] = "waiting"]
  /\ UNCHANGED cvActive

(* ...seL4_Wait, once the lock has been released: take a signal... *)
CvWaitTakeSignal(t) ==
  /\ cv[t] = "waiting"
  /\ lk[t] = "idle"
  /\ cvActive
  /\ cvActive' = FALSE
  /\ cv' = [cv EXCEPT ![t] = "relock"]
  /\ UNCHANGED <<lockVars, waiters, broadcasting>>

(* ...or sleep. *)
CvWaitBlock(t) ==
  /\ cv[t] = "waiting"
  /\ lk[t] = "idle"
  /\ ~cvActive
  /\ cv' = [cv EXCEPT ![t] = "asleep"]
  /\ UNCHANGED <<lockVars, waiters, broadcasting, cvActive>>

(* ...reacquire the lock... *)
CvRelock(t) ==
  /\ cv[t] = "relock"
  /\ WaitDecrement(t)
  /\ UNCHANGED cvVars

(* ...or, when the lock refuses, return the error: the thread stays counted. *)
CvRelockRefused(t) ==
  /\ cv[t] = "relock"
  /\ WaitRefused(t)
  /\ cv' = [cv EXCEPT ![t] = "out"]
  /\ UNCHANGED <<waiters, broadcasting, cvActive>>

(* Mutant: the thread that comes out ends the broadcast at once. *)
CvWaitReturnEndsEarly(t) ==
  /\ cv[t] = "relock"
  /\ lk[t] = "cs"
  /\ waiters' = waiters - 1
  /\ broadcasting' = FALSE
  /\ cv' = [cv EXCEPT ![t] = "out"]
  /\ UNCHANGED <<lockVars, cvActive>>

(* ...and, holding it again, stop being counted and pass a broadcast on. *)
CvWaitReturn(t) ==
  /\ cv[t] = "relock"
  /\ lk[t] = "cs"
  /\ waiters' = waiters - 1
  /\ \/ /\ broadcasting /\ waiters - 1 > 0
        /\ Signal(t, "out")
        /\ UNCHANGED broadcasting
     \/ /\ ~(broadcasting /\ waiters - 1 > 0)
        /\ broadcasting' = FALSE
        /\ cv' = [cv EXCEPT ![t] = "out"]
        /\ UNCHANGED cvActive
  /\ UNCHANGED lockVars

(* sync_cv_signal(), by the holder. *)
CvSignal(t) ==
  /\ Free(t)
  /\ lk[t] = "cs"
  /\ waiters > 0
  /\ Signal(t, "out")
  /\ UNCHANGED <<lockVars, waiters, broadcasting>>

(* sync_cv_broadcast(), by the holder. *)
CvBroadcast(t) ==
  /\ Free(t)
  /\ lk[t] = "cs"
  /\ waiters > 0
  /\ broadcasting' = TRUE
  /\ Signal(t, "out")
  /\ UNCHANGED <<lockVars, waiters>>

(* sync_cv_broadcast_release(), by the holder: with waiters, mark the       *)
(* broadcast and release the lock (without waiters it only releases).       *)
CvBroadcastRelease(t) ==
  /\ Free(t)
  /\ PostIncrement(t)
  /\ IF waiters > 0
       THEN /\ broadcasting' = TRUE
            /\ cv' = [cv EXCEPT ![t] = "release"]
       ELSE UNCHANGED <<broadcasting, cv>>
  /\ UNCHANGED <<waiters, cvActive>>

(* Mutant: the broadcaster releases the lock and forgets to signal. *)
CvBroadcastReleaseSilent(t) ==
  /\ cv[t] = "release"
  /\ lk[t] = "idle"
  /\ cv' = [cv EXCEPT ![t] = "out"]
  /\ UNCHANGED <<lockVars, waiters, broadcasting, cvActive>>

(* ...and signal after the release. *)
CvBroadcastReleaseSignal(t) ==
  /\ cv[t] = "release"
  /\ lk[t] = "idle"
  /\ Signal(t, "out")
  /\ UNCHANGED <<lockVars, waiters, broadcasting>>

-----------------------------------------------------------------------------
(* Steps a thread inside an operation takes on its own. *)
Progress(t) ==
  \/ LockProgress(t)
  \/ CvWaitTakeSignal(t)
  \/ CvWaitBlock(t)
  \/ CvRelock(t)
  \/ CvRelockRefused(t)
  \/ CvWaitReturn(t)
  \/ CvBroadcastReleaseSignal(t)

Next ==
  \E t \in Threads :
    \/ Lock(t)
    \/ Unlock(t)
    \/ CvWait(t)
    \/ CvSignal(t)
    \/ CvBroadcast(t)
    \/ CvBroadcastRelease(t)
    \/ Progress(t)

Spec == Init /\ [][Next]_vars

(* A thread inside an operation is scheduled, a holder gives the lock back, *)
(* and the kernel's queues are fair: a thread that sleeps on the lock is    *)
(* among those woken when signals keep coming.                              *)
WokenOnLock(w) == lk[w] = "blocked" /\ lk'[w] = "cs"

Fairness ==
  \A t \in Threads :
    /\ WF_vars(Progress(t))
    /\ WF_vars(Unlock(t))
    /\ SF_vars(Next /\ WokenOnLock(t))

FairSpec == Spec /\ Fairness

-----------------------------------------------------------------------------
(* Properties.                                                             *)

(* The type invariant. *)
TypeOK ==
  /\ LockTypeOK
  /\ waiters \in 0 .. MaxWaiters
  /\ broadcasting \in BOOLEAN
  /\ cvActive \in BOOLEAN
  /\ cv \in [Threads -> CvStages]

(* `waiters`, which signal and broadcast test, is never below the number of *)
(* threads inside sync_cv_wait(): nobody who may sleep is overlooked.       *)
WaitersCovered == waiters >= Cardinality(InWait)

(* No thread has left sync_cv_wait() with the lock's error. *)
NoneRefused == waiters = Cardinality(InWait)

(* While `broadcasting` is set the chain of wake-ups is alive: somebody has *)
(* been notified, is about to be, or is about to signal.  (A waiter that    *)
(* the lock refused has left, with the wake-up it was to pass on.)          *)
BroadcastAlive ==
  broadcasting /\ NoneRefused =>
    \/ cvActive
    \/ \E t \in Threads : cv[t] \in {"relock", "release"}

(* A signal is not left lying while threads sleep. *)
CvSignalNotIgnored == cvActive => ~\E t \in Threads : cv[t] = "asleep"

(* What sync_cv_wait(), sync_cv_signal() and the broadcasts keep true of    *)
(* the condition variable between their steps: the waiters are all counted, *)
(* a broadcast in progress has somebody to carry it on, and a signal does   *)
(* not lie unused beside a sleeper.                                         *)
CondVarInv ==
  /\ TypeOK
  /\ WaitersCovered
  /\ BroadcastAlive
  /\ CvSignalNotIgnored

(* A broadcast stops only because everybody is out or a new waiter came:    *)
(* no thread that comes out of sync_cv_wait() drops it while others are in. *)
BroadcastOnlyDropped ==
  [][broadcasting /\ ~broadcasting' => waiters' = 0 \/ waiters' > waiters]_vars

(* No broadcast goes on forever, as long as the lock refuses nobody: the    *)
(* waiters that sync_cv_broadcast() sets in motion come out one by one.     *)
BroadcastEnds ==
  []NoneRefused => (broadcasting ~> ~broadcasting)
===============================================================================
