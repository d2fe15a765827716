--------------------------------- MODULE Sem ---------------------------------
(***************************************************************************)
(* The counting semaphore of libsel4sync (sem-bare.h, sem.h).              *)
(*                                                                         *)
(* Unlike the binary semaphore it parks its waiters on an endpoint:        *)
(* seL4_Recv sleeps until a sender comes, and seL4_Signal on an endpoint   *)
(* is a send that sleeps until a receiver comes.  A post can thus block,   *)
(* and is released by the wait it is for; no post is ever absorbed.        *)
(* Which partner the kernel picks is left open.                            *)
(***************************************************************************)
EXTENDS Integers, FiniteSets

CONSTANTS
  SemThreads,   \* the threads that use the semaphore, a finite set
  Units,        \* the initial value, a natural number
  IntMin        \* INT_MIN, a negative number

ASSUME SemConfig == IsFiniteSet(SemThreads) /\ Units \in Nat /\ IntMin \in Int /\ IntMin < 0

VARIABLES
  semValue,   \* sync_sem_t.value
  semPc,      \* where each thread is in wait(), trywait() or post()
  semVal      \* trywait()'s local

semVars == <<semValue, semPc, semVal>>

(*   idle     outside                     in       wait() returned 0       *)
(*   torecv   decremented, to seL4_Recv   receiving  asleep in seL4_Recv   *)
(*   tosend   incremented, to seL4_Signal sending    asleep in seL4_Signal *)
(*   try      trywait(): has read a positive value                         *)
SemStages == {"idle", "in", "torecv", "receiving", "tosend", "sending", "try"}

SemAt(s) == {t \in SemThreads : semPc[t] = s}

SemGo(t, s) == semPc' = [semPc EXCEPT ![t] = s]

(* sync_sem_init() *)
SemInit ==
  /\ semValue = Units
  /\ semPc = [t \in SemThreads |-> "idle"]
  /\ semVal = [t \in SemThreads |-> 0]

-----------------------------------------------------------------------------
(* sync_sem_bare_wait(): the refused decrement. *)
WaitRefused(t) ==
  /\ semPc[t] = "idle"
  /\ semValue = IntMin
  /\ UNCHANGED semVars

(* Mutant: an off-by-one in the test of the old value. *)
WaitDecrementLenient(t) ==
  /\ semPc[t] = "idle"
  /\ semValue # IntMin
  /\ semValue' = semValue - 1
  /\ SemGo(t, IF semValue < 0 THEN "torecv" ELSE "in")
  /\ UNCHANGED semVal

(* ...the atomic decrement and the branch on the old value... *)
WaitDecrement(t) ==
  /\ semPc[t] = "idle"
  /\ semValue # IntMin
  /\ semValue' = semValue - 1
  /\ SemGo(t, IF semValue <= 0 THEN "torecv" ELSE "in")
  /\ UNCHANGED semVal

(* ...seL4_Recv with a sender asleep: both go on... *)
WaitRecv(t) ==
  /\ semPc[t] = "torecv"
  /\ \E s \in SemAt("sending") : semPc' = [semPc EXCEPT ![t] = "in", ![s] = "idle"]
  /\ UNCHANGED <<semValue, semVal>>

(* ...and without: sleep. *)
WaitBlock(t) ==
  /\ semPc[t] = "torecv"
  /\ SemAt("sending") = {}
  /\ SemGo(t, "receiving")
  /\ UNCHANGED <<semValue, semVal>>

-----------------------------------------------------------------------------
(* sync_sem_bare_trywait(): the first read; nothing to take returns -1. *)
TryRead(t) ==
  /\ semPc[t] = "idle"
  /\ semValue > 0
  /\ semVal' = [semVal EXCEPT ![t] = semValue]
  /\ SemGo(t, "try")
  /\ UNCHANGED semValue

(* Mutant: the value read is trusted, without comparing. *)
TrySwapBlind(t) ==
  /\ semPc[t] = "try"
  /\ semValue' = semVal[t] - 1
  /\ semVal' = [semVal EXCEPT ![t] = 0]
  /\ SemGo(t, "in")

(* ...the exchange succeeds when the value is still the one read... *)
TrySwap(t) ==
  /\ semPc[t] = "try"
  /\ semValue = semVal[t]
  /\ semValue' = semVal[t] - 1
  /\ semVal' = [semVal EXCEPT ![t] = 0]
  /\ SemGo(t, "in")

(* ...and may fail otherwise, or spuriously (it is a weak exchange): read   *)
(* again, and give up when there is nothing to take.                        *)
TryAgain(t) ==
  /\ semPc[t] = "try"
  /\ semVal' = [semVal EXCEPT ![t] = IF semValue > 0 THEN semValue ELSE 0]
  /\ SemGo(t, IF semValue > 0 THEN "try" ELSE "idle")
  /\ UNCHANGED semValue

-----------------------------------------------------------------------------
(* sync_sem_bare_post(), by a thread that got in: the atomic increment and  *)
(* the branch on the new value...                                           *)
PostIncrement(t) ==
  /\ semPc[t] = "in"
  /\ semValue' = semValue + 1
  /\ SemGo(t, IF semValue + 1 <= 0 THEN "tosend" ELSE "idle")
  /\ UNCHANGED semVal

(* ...seL4_Signal on the endpoint with a receiver asleep: hand over... *)
PostSend(t) ==
  /\ semPc[t] = "tosend"
  /\ \E r \in SemAt("receiving") : semPc' = [semPc EXCEPT ![t] = "idle", ![r] = "in"]
  /\ UNCHANGED <<semValue, semVal>>

(* ...and without: the poster sleeps. *)
PostBlock(t) ==
  /\ semPc[t] = "tosend"
  /\ SemAt("receiving") = {}
  /\ SemGo(t, "sending")
  /\ UNCHANGED <<semValue, semVal>>

-----------------------------------------------------------------------------
(* Steps a thread inside an operation takes on its own. *)
SemStep(t) ==
  \/ WaitRecv(t)
  \/ WaitBlock(t)
  \/ TrySwap(t)
  \/ TryAgain(t)
  \/ PostSend(t)
  \/ PostBlock(t)

SemNext ==
  \E t \in SemThreads :
    \/ WaitRefused(t)
    \/ WaitDecrement(t)
    \/ TryRead(t)
    \/ PostIncrement(t)
    \/ SemStep(t)

SemSpec == SemInit /\ [][SemNext]_semVars

(* Threads inside an operation are scheduled, those that got in post, and   *)
(* the endpoint's queue is fair: a sleeping sender is served when receivers *)
(* keep coming.                                                             *)
Served(t) == semPc[t] = "sending" /\ semPc'[t] = "idle"

SemFairness ==
  \A t \in SemThreads :
    /\ WF_semVars(SemStep(t))
    /\ WF_semVars(PostIncrement(t))
    /\ SF_semVars(SemNext /\ Served(t))

-----------------------------------------------------------------------------
(* Properties.                                                             *)

(* The type invariant; the value stays a C int, and post()'s assertion      *)
(* that value < INT_MAX holds as nobody posts a unit it did not take.    *)
SemTypeOK ==
  /\ semValue \in IntMin .. Units
  /\ semPc \in [SemThreads -> SemStages]
  /\ semVal \in [SemThreads -> 0 .. Units]

(* Threads that have decremented and not incremented since. *)
Claims == {t \in SemThreads : semPc[t] \in {"in", "torecv", "receiving"}}

(* Posts that owe a waiter the hand-over. *)
Posts == {t \in SemThreads : semPc[t] \in {"tosend", "sending"}}

(* The value counts the claims, trywait()'s exchange included. *)
ValueCounts == semValue = Units - Cardinality(Claims)

(* As many threads are in, or about to be let in, as units allow: no        *)
(* hand-over is lost and none is made twice.                                *)
UnitsAllUsed ==
  LET c == Cardinality(Claims) IN
  Cardinality(SemAt("in")) + Cardinality(Posts) = IF c < Units THEN c ELSE Units

(* A poster and a waiter never sleep on the endpoint at the same time. *)
NeverBothAsleep == SemAt("sending") = {} \/ SemAt("receiving") = {}

(* trywait() goes on to its exchange only with a value it may take from.    *)
TriesToTake == \A t \in SemAt("try") : semVal[t] > 0

(* What sync_sem_bare_wait(), trywait() and post() keep true between their  *)
(* steps: the value counts the claims, every unit is used or on its way,    *)
(* and a poster and a waiter do not sleep past each other.                  *)
SemInv ==
  /\ SemTypeOK
  /\ ValueCounts
  /\ UnitsAllUsed
  /\ NeverBothAsleep
  /\ TriesToTake

AbstractSemaphore == INSTANCE AbstractSem WITH Threads <- SemThreads, inside <- SemAt("in")

(* sync_sem_bare_wait() and trywait() let in at most Units threads...       *)
ImplementsSem == AbstractSemaphore!Spec

(* ...and sync_sem_bare_post(), which may sleep for a waiter that has not   *)
(* arrived at its seL4_Recv, always returns.                                *)
PostReturns == \A t \in SemThreads : semPc[t] \in {"tosend", "sending"} ~> semPc[t] = "idle"
===============================================================================
