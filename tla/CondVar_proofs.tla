----------------------------- MODULE CondVar_proofs -----------------------------
(***************************************************************************)
(* Proofs about the binary semaphore and the condition variable on top of  *)
(* it, for any finite set of threads, any INT_MIN and any bound on         *)
(* `waiters`.  LockInv is inductive, and the properties of the semaphore   *)
(* follow from it.  The operations of the condition variable use the lock  *)
(* only as the semaphore's specification allows, so the lock's theorems    *)
(* carry over; CondVarInv is then inductive.                               *)
(***************************************************************************)
EXTENDS CondVar, FiniteSetTheorems, TLAPS

-----------------------------------------------------------------------------
(* The binary semaphore                                                    *)

USE ThreadsFinite, NoOneAssumption, IntMinAssumption

(* Claims is a finite set, so that the value, which counts it, tells an     *)
(* empty one from another.                                                  *)
LEMMA ClaimsFinite ==
  /\ IsFiniteSet(Claims)
  /\ Cardinality(Claims) \in Nat
  /\ Cardinality(Claims) = 0 <=> Claims = {}
<1>1. Claims \subseteq Threads
  BY DEF Claims
<1>2. IsFiniteSet(Claims)
  BY <1>1, FS_Subset
<1> QED
  BY <1>2, FS_CardinalityType, FS_EmptySet

(* The initial states, free or with a first holder, satisfy the invariant. *)
LEMMA InitLockInv == LockInit => LockInv
<1> SUFFICES ASSUME LockInit PROVE LockInv
  OBVIOUS
<1>1. PICK first \in Threads \cup {NoOne} :
        /\ value = IF first = NoOne THEN 1 ELSE 0
        /\ lk = [t \in Threads |-> IF t = first THEN "cs" ELSE "idle"]
        /\ active = FALSE
        /\ newval = [t \in Threads |-> 0]
  BY DEF LockInit
<1>2. LockTypeOK
  <2>1. value \in IntMin .. 1
    BY <1>1
  <2>2. lk \in [Threads -> Stages]
    BY <1>1 DEF Stages
  <2>3. newval \in [Threads -> Int]
    BY <1>1
  <2>4. active \in BOOLEAN
    BY <1>1, Zenon
  <2> QED
    BY <2>1, <2>2, <2>3, <2>4 DEF LockTypeOK
<1>3. CASE first = NoOne
  <2>1. Claims = {} /\ Holders = {} /\ Signallers = {} /\ Sleepers = {}
    BY <1>1, <1>3 DEF Claims, Holders, Signallers, Sleepers
  <2>2. ValueCounts
    BY <1>1, <1>3, <2>1, FS_EmptySet DEF ValueCounts
  <2> QED
    BY <1>1, <1>2, <2>1, <2>2
    DEF LockInv, OneToken, Passing, NoLostWakeup, NoStaleSignal, SignalNotIgnored
<1>4. CASE first \in Threads
  <2>1. Claims = {first} /\ Holders = {first} /\ Signallers = {} /\ Sleepers = {}
    BY <1>1, <1>4 DEF Claims, Holders, Signallers, Sleepers
  <2>2. ValueCounts
    BY <1>1, <1>4, <2>1, FS_Singleton DEF ValueCounts
  <2> QED
    BY <1>1, <1>2, <2>1, <2>2
    DEF LockInv, OneToken, Passing, NoLostWakeup, NoStaleSignal, SignalNotIgnored
<1> QED
  BY <1>3, <1>4

(* wait()'s decrement adds a claim, and lets the thread in only when there  *)
(* was none.                                                                *)
LEMMA WaitDecrementInv ==
  ASSUME LockInv, NEW t \in Threads, WaitDecrement(t)
  PROVE  LockInv'
<1> USE DEF LockInv
<1>1. t \notin Claims /\ Claims' = Claims \cup {t}
  BY DEF WaitDecrement, Claims, LockTypeOK
<1>2. Cardinality(Claims') = Cardinality(Claims) + 1
  BY <1>1, ClaimsFinite, FS_AddElement
<1>3. ValueCounts'
  BY <1>2, ClaimsFinite DEF WaitDecrement, ValueCounts, LockTypeOK
<1>4. LockTypeOK'
  BY DEF WaitDecrement, LockTypeOK, Stages
<1>5. Signallers' = Signallers /\ Sleepers' = Sleepers
  BY DEF WaitDecrement, Signallers, Sleepers, LockTypeOK
<1>6. CASE value <= 0
  <2>1. Claims # {} /\ Holders' = Holders /\ Claims \ Holders \subseteq Claims' \ Holders'
    BY <1>1, <1>6, ClaimsFinite DEF WaitDecrement, ValueCounts, Holders, LockTypeOK
  <2> QED
    BY <1>1, <1>3, <1>4, <1>5, <2>1
    DEF WaitDecrement, OneToken, Passing, NoLostWakeup, NoStaleSignal, SignalNotIgnored
<1>7. CASE value > 0
  <2>1. Claims = {}
    BY <1>7, ClaimsFinite DEF ValueCounts, LockTypeOK
  <2>2. Holders = {} /\ Signallers = {} /\ ~active
    BY <2>1 DEF Holders, Claims, NoStaleSignal
  <2>3. Holders' = {t}
    BY <1>7, <2>2 DEF WaitDecrement, Holders, LockTypeOK
  <2> QED
    BY <1>1, <1>3, <1>4, <1>5, <2>2, <2>3
    DEF WaitDecrement, OneToken, Passing, NoLostWakeup, NoStaleSignal, SignalNotIgnored
<1> QED
  BY <1>6, <1>7 DEF LockTypeOK

(* seL4_Wait consumes the signal: the right to hold moves to the thread. *)
LEMMA WaitTakeSignalInv ==
  ASSUME LockInv, NEW t \in Threads, WaitTakeSignal(t)
  PROVE  LockInv'
<1> USE DEF LockInv
<1>1. LockTypeOK'
  BY DEF WaitTakeSignal, LockTypeOK, Stages
<1>2. Claims' = Claims /\ t \in Claims
  BY DEF WaitTakeSignal, Claims, LockTypeOK
<1>3. Signallers' = Signallers /\ Sleepers' = Sleepers /\ Holders' = Holders \cup {t}
  BY DEF WaitTakeSignal, Signallers, Sleepers, Holders, LockTypeOK
<1>4. Passing = {}
  BY DEF WaitTakeSignal, OneToken
<1>5. ValueCounts'
  BY <1>2 DEF WaitTakeSignal, ValueCounts
<1> QED
  BY <1>1, <1>2, <1>3, <1>4, <1>5
  DEF WaitTakeSignal, OneToken, Passing, NoLostWakeup, NoStaleSignal, SignalNotIgnored

(* seL4_Wait without a signal: only the sleepers change. *)
LEMMA WaitBlockInv ==
  ASSUME LockInv, NEW t \in Threads, WaitBlock(t)
  PROVE  LockInv'
<1> USE DEF LockInv
<1>1. LockTypeOK'
  BY DEF WaitBlock, LockTypeOK, Stages
<1>2. Claims' = Claims /\ Signallers' = Signallers /\ Holders' = Holders
  BY DEF WaitBlock, Claims, Signallers, Holders, LockTypeOK
<1>3. ValueCounts'
  BY <1>2 DEF WaitBlock, ValueCounts
<1> QED
  BY <1>1, <1>2, <1>3
  DEF WaitBlock, OneToken, Passing, NoLostWakeup, NoStaleSignal, SignalNotIgnored

(* post()'s increment drops the holder's claim; the right to hold stays     *)
(* with the thread exactly when another claim is left.                      *)
LEMMA PostIncrementInv ==
  ASSUME LockInv, NEW t \in Threads, PostIncrement(t)
  PROVE  LockInv'
<1> USE DEF LockInv
<1>1. t \in Claims /\ Claims' = Claims \ {t}
  BY DEF PostIncrement, Claims, LockTypeOK
<1>2. Cardinality(Claims') = Cardinality(Claims) - 1 /\ Cardinality(Claims) >= 1
  <2>1. Cardinality(Claims) \in Nat \ {0}
    BY <1>1, ClaimsFinite
  <2>2. Cardinality(Claims \ {t}) = Cardinality(Claims) - 1
    BY <1>1, ClaimsFinite, FS_RemoveElement
  <2> QED
    BY <1>1, <2>1, <2>2
<1>3. ValueCounts'
  BY <1>2, ClaimsFinite DEF PostIncrement, ValueCounts, LockTypeOK
<1>4. LockTypeOK'
  BY <1>2, ClaimsFinite DEF PostIncrement, LockTypeOK, Stages, ValueCounts
<1>5. Holders = {t} /\ Signallers = {} /\ ~active
  BY DEF PostIncrement, OneToken, Passing, Holders, Signallers
<1>6. Holders' = {} /\ Sleepers' = Sleepers
  BY <1>5 DEF PostIncrement, Holders, Sleepers, LockTypeOK
<1>7. Signallers' = IF value' <= 0 THEN {t} ELSE {}
  BY <1>5 DEF PostIncrement, Signallers, LockTypeOK
<1>8. value' <= 0 <=> Claims' # {}
  <2>1. IsFiniteSet(Claims')
    BY <1>1, ClaimsFinite, FS_Subset
  <2>2. Cardinality(Claims') \in Nat /\ (Cardinality(Claims') = 0 <=> Claims' = {})
    BY <2>1, FS_CardinalityType, FS_EmptySet
  <2> QED
    BY <1>3, <2>2 DEF ValueCounts
<1> QED
  BY <1>3, <1>4, <1>5, <1>6, <1>7, <1>8
  DEF PostIncrement, OneToken, Passing, NoLostWakeup, NoStaleSignal, SignalNotIgnored

(* The assertion and the branch: no set of the invariant changes. *)
LEMMA PostCheckInv ==
  ASSUME LockInv, NEW t \in Threads, PostCheck(t)
  PROVE  LockInv'
<1> USE DEF LockInv
<1>1. LockTypeOK'
  BY DEF PostCheck, LockTypeOK, Stages
<1>2. Claims' = Claims /\ Holders' = Holders /\ Sleepers' = Sleepers
  BY DEF PostCheck, Claims, Holders, Sleepers, LockTypeOK
<1>3. Signallers' = Signallers
  BY DEF PostCheck, Signallers, LockTypeOK
<1>4. ValueCounts'
  BY <1>2 DEF PostCheck, ValueCounts
<1> QED
  BY <1>1, <1>2, <1>3, <1>4
  DEF PostCheck, OneToken, Passing, NoLostWakeup, NoStaleSignal, SignalNotIgnored

(* seL4_Signal to a sleeper: the right to hold goes straight to it. *)
LEMMA PostWakeInv ==
  ASSUME LockInv, NEW t \in Threads, PostWake(t)
  PROVE  LockInv'
<1> USE DEF LockInv
<1>1. PICK w \in Sleepers : lk' = [lk EXCEPT ![t] = "idle", ![w] = "cs"]
  BY DEF PostWake
<1>2. w \in Threads /\ lk[w] = "blocked" /\ w # t
  BY DEF Sleepers, PostWake
<1>3. LockTypeOK'
  BY <1>1, <1>2 DEF PostWake, LockTypeOK, Stages
<1>4. Claims' = Claims /\ w \in Claims
  BY <1>1, <1>2 DEF PostWake, Claims, LockTypeOK
<1>5. Signallers = {t} /\ Holders = {} /\ ~active
  BY <1>2 DEF PostWake, OneToken, Passing, Signallers, Holders, LockTypeOK
<1>6. Signallers' = {} /\ Holders' = {w}
  BY <1>1, <1>2, <1>5 DEF PostWake, Signallers, Holders, LockTypeOK
<1>7. ValueCounts'
  BY <1>4 DEF PostWake, ValueCounts
<1> QED
  BY <1>3, <1>4, <1>5, <1>6, <1>7
  DEF PostWake, OneToken, Passing, NoLostWakeup, NoStaleSignal, SignalNotIgnored

(* seL4_Signal to nobody: the right to hold waits in the notification. *)
LEMMA PostLeaveSignalInv ==
  ASSUME LockInv, NEW t \in Threads, PostLeaveSignal(t)
  PROVE  LockInv'
<1> USE DEF LockInv
<1>1. LockTypeOK'
  BY DEF PostLeaveSignal, LockTypeOK, Stages
<1>2. Claims' = Claims /\ Holders' = Holders /\ Sleepers' = {}
  BY DEF PostLeaveSignal, Claims, Holders, Sleepers, LockTypeOK
<1>3. Signallers = {t} /\ Holders = {}
  BY DEF PostLeaveSignal, OneToken, Passing, Signallers, Holders, LockTypeOK
<1>4. Signallers' = {}
  BY <1>3 DEF PostLeaveSignal, Signallers, LockTypeOK
<1>5. ValueCounts'
  BY <1>2 DEF PostLeaveSignal, ValueCounts
<1> QED
  BY <1>1, <1>2, <1>3, <1>4, <1>5
  DEF PostLeaveSignal, OneToken, Passing, NoLostWakeup, NoStaleSignal, SignalNotIgnored

(* Steps that leave the semaphore alone. *)
LEMMA LockStutterInv ==
  ASSUME LockInv, UNCHANGED lockVars
  PROVE  LockInv'
BY DEF LockInv, lockVars, LockTypeOK, ValueCounts, OneToken, Passing, NoLostWakeup,
       NoStaleSignal, SignalNotIgnored, Claims, Holders, Signallers, Sleepers

(* Every step keeps the invariant of the lock. *)
LEMMA LockNextInv ==
  ASSUME LockInv, [LockNext]_lockVars
  PROVE  LockInv'
<1>1. ASSUME NEW t \in Threads, WaitRefused(t) PROVE LockInv'
  BY <1>1, LockStutterInv DEF WaitRefused
<1> QED
  BY <1>1, WaitDecrementInv, WaitTakeSignalInv, WaitBlockInv, PostIncrementInv,
     PostCheckInv, PostWakeInv, PostLeaveSignalInv, LockStutterInv
  DEF LockNext, LockStep

(* The type invariant and everything else in LockInv hold of every           *)
(* interleaving of sync_bin_sem_wait() and sync_bin_sem_post().             *)
THEOREM BinSemInvariant == LockSpec => []LockInv
BY InitLockInv, LockNextInv, PTL DEF LockSpec

(* Type correctness: value stays in INT_MIN .. 1. *)
THEOREM BinSemType == LockSpec => []LockTypeOK
<1>1. LockInv => LockTypeOK
  BY DEF LockInv
<1> QED
  BY <1>1, BinSemInvariant, PTL

(* At most one thread is between wait() and post(). *)
THEOREM BinSemMutualExclusion == LockSpec => []MutualExclusion
<1>1. LockInv => MutualExclusion
  BY DEF LockInv, OneToken, Passing, MutualExclusion
<1> QED
  BY <1>1, BinSemInvariant, PTL

(* The assertion in sync_bin_sem_bare_post() never fails. *)
THEOREM BinSemPostAssertion == LockSpec => []PostAssertion
<1>1. LockInv => PostAssertion
  BY DEF LockInv, LockTypeOK, PostAssertion
<1> QED
  BY <1>1, BinSemInvariant, PTL

(* A thread that claims the semaphore is never left with nobody to wake it. *)
THEOREM BinSemNoLostWakeup == LockSpec => []NoLostWakeup
<1>1. LockInv => NoLostWakeup
  BY DEF LockInv
<1> QED
  BY <1>1, BinSemInvariant, PTL

-----------------------------------------------------------------------------
(* The refinement of AbstractLock.                                         *)

(* The owner, as the abstract lock sees it. *)
LEMMA OwnerValue ==
  ASSUME LockInv
  PROVE  /\ Holders = {} => Owner = NoOne
         /\ \A t \in Threads : Holders = {t} => Owner = t
         /\ Holders = {} \/ \E t \in Threads : Holders = {t}
<1>1. Holders = {} \/ \E t \in Threads : Holders = {t}
  BY DEF LockInv, OneToken, Passing, Holders
<1>2. ASSUME NEW t \in Threads, Holders = {t} PROVE Owner = t
  BY <1>2 DEF Owner
<1> QED
  BY <1>1, <1>2 DEF Owner

(* Every step acquires, releases or leaves the abstract lock alone. *)
LEMMA LockStepRefines ==
  ASSUME LockInv, LockInv', [LockNext]_lockVars
  PROVE  [Abstract!Next]_Owner
<1>0. LockTypeOK /\ LockTypeOK'
  BY DEF LockInv
<1>a. /\ Holders' = {} => Owner' = NoOne
      /\ \A t \in Threads : Holders' = {t} => Owner' = t
  <2>1. Holders' = {} => Owner' = NoOne
    BY DEF Owner
  <2>2. ASSUME NEW t \in Threads, Holders' = {t} PROVE Owner' = t
    BY <2>2 DEF Owner
  <2> QED
    BY <2>1, <2>2
<1>b. ASSUME Holders' = Holders PROVE Owner' = Owner
  BY <1>b DEF Owner
<1>1. ASSUME NEW t \in Threads, WaitDecrement(t) PROVE [Abstract!Next]_Owner
  <2>1. CASE value > 0
    <3>1. Claims = {}
      BY <2>1, ClaimsFinite DEF LockInv, ValueCounts, LockTypeOK
    <3>2. Holders = {} /\ Holders' = {t}
      BY <1>0, <1>1, <2>1, <3>1 DEF WaitDecrement, Holders, Claims, LockTypeOK
    <3> QED
      BY <1>a, <3>2, OwnerValue DEF Abstract!Next, Abstract!Acquire
  <2>2. CASE value <= 0
    <3>1. Holders' = Holders
      BY <1>0, <1>1, <2>2 DEF WaitDecrement, Holders, LockTypeOK
    <3> QED
      BY <1>b, <3>1
  <2> QED
    BY <1>0, <2>1, <2>2 DEF LockTypeOK
<1>2. ASSUME NEW t \in Threads, WaitTakeSignal(t) PROVE [Abstract!Next]_Owner
  <2>1. Holders = {}
    BY <1>2 DEF WaitTakeSignal, LockInv, OneToken, Passing
  <2>2. Holders' = {t}
    BY <1>0, <1>2, <2>1 DEF WaitTakeSignal, Holders, LockTypeOK
  <2> QED
    BY <1>a, <2>1, <2>2, OwnerValue DEF Abstract!Next, Abstract!Acquire
<1>3. ASSUME NEW t \in Threads, PostIncrement(t) PROVE [Abstract!Next]_Owner
  <2>1. Holders = {t}
    BY <1>3 DEF PostIncrement, LockInv, OneToken, Passing, Holders
  <2>2. Holders' = {}
    BY <1>0, <1>3, <2>1 DEF PostIncrement, Holders, LockTypeOK
  <2> QED
    BY <1>a, <2>1, <2>2, OwnerValue DEF Abstract!Next, Abstract!Release
<1>4. ASSUME NEW t \in Threads, PostWake(t) PROVE [Abstract!Next]_Owner
  <2>1. PICK w \in Sleepers : lk' = [lk EXCEPT ![t] = "idle", ![w] = "cs"]
    BY <1>4 DEF PostWake
  <2>2. w \in Threads /\ w # t
    BY <1>4 DEF Sleepers, PostWake
  <2>3. Holders = {}
    BY <1>0, <1>4, <2>1 DEF PostWake, LockInv, OneToken, Passing, Signallers, Holders, LockTypeOK
  <2>4. Holders' = {w}
    BY <1>0, <1>4, <2>1, <2>2, <2>3 DEF PostWake, Holders, LockTypeOK
  <2> QED
    BY <1>a, <2>2, <2>3, <2>4, OwnerValue DEF Abstract!Next, Abstract!Acquire
<1>5. ASSUME NEW t \in Threads,
             WaitRefused(t) \/ WaitBlock(t) \/ PostCheck(t) \/ PostLeaveSignal(t)
      PROVE  Owner' = Owner
  <2>1. Holders' = Holders
    BY <1>0, <1>5
    DEF WaitRefused, WaitBlock, PostCheck, PostLeaveSignal, Holders, LockTypeOK, lockVars
  <2> QED
    BY <1>b, <2>1
<1>6. ASSUME UNCHANGED lockVars PROVE Owner' = Owner
  <2>1. Holders' = Holders
    BY <1>6 DEF lockVars, Holders
  <2> QED
    BY <1>b, <2>1
<1> QED
  BY <1>1, <1>2, <1>3, <1>4, <1>5, <1>6 DEF LockNext, LockStep

(* sync_bin_sem_wait() and sync_bin_sem_post() implement the abstract lock. *)
THEOREM BinSemRefinement == LockSpec => ImplementsLock
<1>1. LockInit => Abstract!Init
  <2> SUFFICES ASSUME LockInit PROVE Abstract!Init
    OBVIOUS
  <2>1. LockInv
    BY InitLockInv
  <2> QED
    BY <2>1, OwnerValue DEF Abstract!Init
<1>2. LockInv /\ LockInv' /\ [LockNext]_lockVars => [Abstract!Next]_Owner
  BY LockStepRefines
<1> QED
  BY <1>1, <1>2, BinSemInvariant, PTL DEF LockSpec, ImplementsLock, Abstract!Spec

-----------------------------------------------------------------------------
(* The condition variable                                                  *)

USE MaxWaitersAssumption

-----------------------------------------------------------------------------
(* The lock under the condition variable.                                  *)

(* Every step of the condition variable is a step of the lock or none.     *)
LEMMA StepUsesLock ==
  ASSUME [Next]_vars
  PROVE  [LockNext]_lockVars
<1>1. ASSUME NEW t \in Threads, Lock(t) \/ Unlock(t) \/ CvWait(t) \/ CvBroadcastRelease(t)
      PROVE  LockNext
  BY <1>1 DEF Lock, Unlock, CvWait, CvBroadcastRelease, LockNext
<1>2. ASSUME NEW t \in Threads, LockProgress(t) \/ CvRelock(t) \/ CvRelockRefused(t)
      PROVE  LockNext
  BY <1>2 DEF LockProgress, CvRelock, CvRelockRefused, LockNext
<1>3. ASSUME NEW t \in Threads,
             \/ CvSignal(t) \/ CvBroadcast(t) \/ CvBroadcastReleaseSignal(t)
             \/ CvWaitTakeSignal(t) \/ CvWaitBlock(t) \/ CvWaitReturn(t)
      PROVE  UNCHANGED lockVars
  BY <1>3 DEF CvSignal, CvBroadcast, CvBroadcastReleaseSignal, CvWaitTakeSignal,
              CvWaitBlock, CvWaitReturn
<1>4. UNCHANGED vars => UNCHANGED lockVars
  BY DEF vars
<1> QED
  BY <1>1, <1>2, <1>3, <1>4 DEF Next, Progress

(* The monitor's lock, taken, given back and handed over inside             *)
(* sync_cv_wait() and sync_cv_broadcast_release(), is used as a binary      *)
(* semaphore.                                                               *)
THEOREM CondVarUsesLock == Spec => LockSpec
<1>1. Init => LockInit
  BY DEF Init
<1>2. [Next]_vars => [LockNext]_lockVars
  BY StepUsesLock
<1> QED
  BY <1>1, <1>2, PTL DEF Spec, LockSpec

(* So the lock's invariant, mutual exclusion in the monitor included, holds *)
(* of every use of the condition variable...                                *)
THEOREM CondVarLockInvariant == Spec => []LockInv
BY CondVarUsesLock, BinSemInvariant, PTL

(* ...and the monitor implements the abstract lock. *)
THEOREM CondVarRefinement == Spec => ImplementsLock
BY CondVarUsesLock, BinSemRefinement, PTL

-----------------------------------------------------------------------------
(* The condition variable's own invariant.                                 *)

(* The waiting threads can be counted. *)
LEMMA InWaitFinite ==
  /\ IsFiniteSet(InWait)
  /\ Cardinality(InWait) \in Nat
  /\ Cardinality(InWait) = 0 <=> InWait = {}
<1>1. InWait \subseteq Threads
  BY DEF InWait
<1>2. IsFiniteSet(InWait)
  BY <1>1, FS_Subset
<1> QED
  BY <1>2, FS_CardinalityType, FS_EmptySet

(* One of them fewer. *)
LEMMA OneFewer ==
  ASSUME NEW t \in InWait
  PROVE  /\ Cardinality(InWait \ {t}) = Cardinality(InWait) - 1
         /\ Cardinality(InWait) >= 1
<1>1. Cardinality(InWait) \in Nat \ {0}
  BY InWaitFinite
<1>2. Cardinality(InWait \ {t}) = Cardinality(InWait) - 1
  BY InWaitFinite, FS_RemoveElement
<1> QED
  BY <1>1, <1>2

(* The invariant holds at first. *)
LEMMA InitCondVarInv == Init /\ LockInv => CondVarInv
<1> SUFFICES ASSUME Init, LockInv PROVE CondVarInv
  OBVIOUS
<1> USE DEF Init
<1>1. TypeOK
  <2>1. waiters \in 0 .. MaxWaiters
    OBVIOUS
  <2>2. cv \in [Threads -> CvStages]
    BY DEF CvStages
  <2>3. broadcasting \in BOOLEAN /\ cvActive \in BOOLEAN
    BY Zenon
  <2> QED
    BY <2>1, <2>2, <2>3 DEF TypeOK, LockInv
<1>2. InWait = {}
  BY DEF InWait
<1>3. WaitersCovered
  BY <1>2, FS_EmptySet DEF WaitersCovered
<1> QED
  BY <1>1, <1>3 DEF CondVarInv, BroadcastAlive, CvSignalNotIgnored

(* A signal keeps the types, and who is inside sync_cv_wait(), except for   *)
(* the signaller, which was not asleep; it leaves a notified waiter or a    *)
(* signal in the notification, and never a signal beside a sleeper.         *)
LEMMA SignalEffect ==
  ASSUME CondVarInv, NEW t \in Threads, cv[t] # "asleep", Signal(t, "out")
  PROVE  /\ cv' \in [Threads -> CvStages]
         /\ cvActive' \in BOOLEAN
         /\ InWait' = InWait \ {t}
         /\ cvActive' \/ \E w \in Threads : cv'[w] = "relock"
         /\ CvSignalNotIgnored'
<1> DEFINE asleep == {w \in Threads : cv[w] = "asleep"}
<1>0. cv \in [Threads -> CvStages] /\ cvActive \in BOOLEAN
  BY DEF CondVarInv, TypeOK
<1>1. CASE /\ \E w \in asleep : cv' = [cv EXCEPT ![t] = "out", ![w] = "relock"]
           /\ UNCHANGED cvActive
  <2>1. PICK w \in asleep : cv' = [cv EXCEPT ![t] = "out", ![w] = "relock"]
    BY <1>1
  <2>2. w \in Threads /\ w # t /\ cv[w] = "asleep"
    OBVIOUS
  <2>3. cv' \in [Threads -> CvStages] /\ cv'[w] = "relock"
    BY <1>0, <2>1, <2>2 DEF CvStages
  <2>4. InWait' = InWait \ {t}
    BY <1>0, <2>1, <2>2 DEF InWait
  <2>5. CvSignalNotIgnored'
    BY <1>0, <1>1, <2>1, <2>2 DEF CondVarInv, CvSignalNotIgnored
  <2>6. cvActive' \in BOOLEAN
    BY <1>0, <1>1, Zenon
  <2> QED
    BY <2>2, <2>3, <2>4, <2>5, <2>6
<1>2. CASE /\ asleep = {}
           /\ cvActive' = TRUE
           /\ cv' = [cv EXCEPT ![t] = "out"]
  <2>1. cv' \in [Threads -> CvStages]
    BY <1>0, <1>2 DEF CvStages
  <2>2. InWait' = InWait \ {t}
    BY <1>0, <1>2 DEF InWait
  <2>3. CvSignalNotIgnored'
    BY <1>0, <1>2 DEF CvSignalNotIgnored
  <2> QED
    BY <1>2, <2>1, <2>2, <2>3
<1> QED
  BY <1>1, <1>2 DEF Signal

(* Steps of the lock alone. *)
LEMMA CvStutterInv ==
  ASSUME CondVarInv, LockTypeOK', UNCHANGED cvVars
  PROVE  CondVarInv'
<1>1. InWait' = InWait
  BY DEF InWait, cvVars
<1> QED
  BY <1>1 DEF CondVarInv, TypeOK, WaitersCovered, NoneRefused, BroadcastAlive,
              CvSignalNotIgnored, cvVars

(* sync_cv_wait() counts itself before it lets the lock go. *)
LEMMA CvWaitInv ==
  ASSUME CondVarInv, LockTypeOK', NEW t \in Threads, CvWait(t)
  PROVE  CondVarInv'
<1> USE DEF CvWait, Free
<1>0. TypeOK /\ WaitersCovered /\ CvSignalNotIgnored
  BY DEF CondVarInv
<1>1. TypeOK'
  <2>1. waiters' \in 0 .. MaxWaiters /\ cv' \in [Threads -> CvStages]
    BY <1>0 DEF TypeOK, CvStages
  <2>2. broadcasting' \in BOOLEAN /\ cvActive' \in BOOLEAN
    BY <1>0, Zenon DEF TypeOK
  <2> QED
    BY <2>1, <2>2 DEF TypeOK
<1>2. InWait' = InWait \cup {t} /\ t \notin InWait
  BY <1>0 DEF InWait, TypeOK
<1>3. WaitersCovered'
  <2>1. Cardinality(InWait') = Cardinality(InWait) + 1
    BY <1>2, InWaitFinite, FS_AddElement
  <2> QED
    BY <1>0, <2>1, InWaitFinite DEF WaitersCovered, TypeOK
<1>4. CvSignalNotIgnored'
  BY <1>0 DEF CvSignalNotIgnored, TypeOK
<1> QED
  BY <1>1, <1>3, <1>4 DEF CondVarInv, BroadcastAlive

(* seL4_Wait in sync_cv_wait(): the thread is notified or sleeps, counted. *)
LEMMA CvSleepInv ==
  ASSUME CondVarInv, LockTypeOK', NEW t \in Threads,
         CvWaitTakeSignal(t) \/ CvWaitBlock(t)
  PROVE  CondVarInv'
<1> USE DEF CvWaitTakeSignal, CvWaitBlock
<1>0. TypeOK /\ WaitersCovered /\ BroadcastAlive /\ CvSignalNotIgnored
  BY DEF CondVarInv
<1>1. TypeOK'
  <2>1. waiters' \in 0 .. MaxWaiters /\ cv' \in [Threads -> CvStages]
    BY <1>0 DEF TypeOK, CvStages
  <2>2. broadcasting' \in BOOLEAN /\ cvActive' \in BOOLEAN
    BY <1>0, Zenon DEF TypeOK
  <2> QED
    BY <2>1, <2>2 DEF TypeOK
<1>2. InWait' = InWait
  BY <1>0 DEF InWait, TypeOK
<1>3. WaitersCovered' /\ (NoneRefused' <=> NoneRefused)
  BY <1>0, <1>2 DEF WaitersCovered, NoneRefused
<1>4. BroadcastAlive'
  <2>1. CASE CvWaitTakeSignal(t)
    BY <1>0, <2>1 DEF BroadcastAlive, TypeOK
  <2>2. CASE CvWaitBlock(t)
    <3> SUFFICES ASSUME broadcasting', NoneRefused'
                 PROVE  \E u \in Threads : cv'[u] \in {"relock", "release"}
      BY DEF BroadcastAlive
    <3>1. PICK u \in Threads : cv[u] \in {"relock", "release"}
      BY <1>0, <1>3, <2>2 DEF BroadcastAlive
    <3>2. u # t /\ cv'[u] = cv[u]
      BY <1>0, <2>2, <3>1 DEF TypeOK
    <3> QED
      BY <3>1, <3>2
  <2> QED
    BY <2>1, <2>2
<1>5. CvSignalNotIgnored'
  BY <1>0 DEF CvSignalNotIgnored, TypeOK
<1> QED
  BY <1>1, <1>3, <1>4, <1>5 DEF CondVarInv

(* A waiter that the lock refuses leaves, still counted: from then on       *)
(* `waiters` is too large, never too small.                                 *)
LEMMA CvRelockRefusedInv ==
  ASSUME CondVarInv, LockTypeOK', NEW t \in Threads, CvRelockRefused(t)
  PROVE  CondVarInv'
<1> USE DEF CvRelockRefused
<1>0. TypeOK /\ WaitersCovered /\ CvSignalNotIgnored
  BY DEF CondVarInv
<1>1. TypeOK'
  <2>1. waiters' \in 0 .. MaxWaiters /\ cv' \in [Threads -> CvStages]
    BY <1>0 DEF TypeOK, CvStages
  <2>2. broadcasting' \in BOOLEAN /\ cvActive' \in BOOLEAN
    BY <1>0, Zenon DEF TypeOK
  <2> QED
    BY <2>1, <2>2 DEF TypeOK
<1>2. InWait' = InWait \ {t} /\ t \in InWait
  BY <1>0 DEF InWait, TypeOK
<1>3. waiters' > Cardinality(InWait') /\ Cardinality(InWait') \in Nat
  <2>1. Cardinality(InWait \ {t}) = Cardinality(InWait) - 1 /\ Cardinality(InWait) >= 1
    BY <1>2, OneFewer
  <2> QED
    BY <1>0, <1>2, <2>1, InWaitFinite DEF WaitersCovered, TypeOK
<1>4. WaitersCovered' /\ ~NoneRefused'
  BY <1>1, <1>3 DEF WaitersCovered, NoneRefused, TypeOK
<1>5. CvSignalNotIgnored'
  BY <1>0 DEF CvSignalNotIgnored, TypeOK
<1> QED
  BY <1>1, <1>4, <1>5 DEF CondVarInv, BroadcastAlive

(* A waiter that comes out is counted until it holds the lock again, so     *)
(* `waiters` does not go below zero, and a broadcast is passed on.          *)
LEMMA CvWaitReturnInv ==
  ASSUME CondVarInv, LockTypeOK', NEW t \in Threads, CvWaitReturn(t)
  PROVE  CondVarInv'
<1> USE DEF CvWaitReturn
<1>0. TypeOK /\ WaitersCovered /\ CvSignalNotIgnored
  BY DEF CondVarInv
<1>1. t \in InWait /\ cv[t] # "asleep"
  BY DEF InWait
<1>2. Cardinality(InWait \ {t}) = Cardinality(InWait) - 1 /\ Cardinality(InWait) >= 1
  BY <1>1, OneFewer
<1>3. waiters' \in 0 .. MaxWaiters
  BY <1>0, <1>2, InWaitFinite DEF TypeOK, WaitersCovered
<1>4. waiters' >= Cardinality(InWait \ {t})
  BY <1>0, <1>2, InWaitFinite DEF TypeOK, WaitersCovered
<1>5. CASE /\ broadcasting /\ waiters - 1 > 0
           /\ Signal(t, "out")
           /\ UNCHANGED broadcasting
  <2>1. /\ cv' \in [Threads -> CvStages]
        /\ cvActive' \in BOOLEAN
        /\ InWait' = InWait \ {t}
        /\ cvActive' \/ \E w \in Threads : cv'[w] = "relock"
        /\ CvSignalNotIgnored'
    BY <1>1, <1>5, SignalEffect
  <2>2. broadcasting' \in BOOLEAN
    BY <1>0, <1>5, Zenon DEF TypeOK
  <2>3. TypeOK'
    BY <1>3, <2>1, <2>2 DEF TypeOK
  <2>4. WaitersCovered'
    BY <1>4, <2>1 DEF WaitersCovered
  <2>5. BroadcastAlive'
    BY <2>1 DEF BroadcastAlive
  <2> QED
    BY <2>1, <2>3, <2>4, <2>5 DEF CondVarInv
<1>6. CASE /\ broadcasting' = FALSE
           /\ cv' = [cv EXCEPT ![t] = "out"]
           /\ UNCHANGED cvActive
  <2>1. cv' \in [Threads -> CvStages] /\ InWait' = InWait \ {t}
    BY <1>0, <1>6 DEF TypeOK, CvStages, InWait
  <2>2. broadcasting' \in BOOLEAN /\ cvActive' \in BOOLEAN
    BY <1>0, <1>6, Zenon DEF TypeOK
  <2>3. TypeOK'
    BY <1>3, <2>1, <2>2 DEF TypeOK
  <2>4. WaitersCovered'
    BY <1>4, <2>1 DEF WaitersCovered
  <2>5. CvSignalNotIgnored'
    BY <1>0, <1>6 DEF CvSignalNotIgnored, TypeOK
  <2> QED
    BY <1>6, <2>3, <2>4, <2>5 DEF CondVarInv, BroadcastAlive
<1> QED
  BY <1>5, <1>6

(* sync_cv_signal(), sync_cv_broadcast() and the signal that ends           *)
(* sync_cv_broadcast_release(): the signaller is not a waiter.              *)
LEMMA CvSignalInv ==
  ASSUME CondVarInv, LockTypeOK', NEW t \in Threads,
         CvSignal(t) \/ CvBroadcast(t) \/ CvBroadcastReleaseSignal(t)
  PROVE  CondVarInv'
<1> USE DEF CvSignal, CvBroadcast, CvBroadcastReleaseSignal, Free
<1>0. TypeOK /\ WaitersCovered
  BY DEF CondVarInv
<1>1. Signal(t, "out") /\ cv[t] # "asleep" /\ t \notin InWait /\ waiters' = waiters
  BY DEF InWait
<1>2. /\ cv' \in [Threads -> CvStages]
      /\ cvActive' \in BOOLEAN
      /\ InWait' = InWait \ {t}
      /\ cvActive' \/ \E w \in Threads : cv'[w] = "relock"
      /\ CvSignalNotIgnored'
  BY <1>1, SignalEffect
<1>3. broadcasting' \in BOOLEAN
  BY <1>0, Zenon DEF TypeOK
<1>4. TypeOK'
  BY <1>0, <1>1, <1>2, <1>3 DEF TypeOK
<1>5. WaitersCovered'
  <2>1. InWait' = InWait
    BY <1>1, <1>2
  <2> QED
    BY <1>0, <1>1, <2>1 DEF WaitersCovered
<1>6. BroadcastAlive'
  BY <1>2 DEF BroadcastAlive
<1> QED
  BY <1>2, <1>4, <1>5, <1>6 DEF CondVarInv

(* sync_cv_broadcast_release() marks the broadcast before it lets the lock  *)
(* go; until it has signalled, it is itself what keeps the broadcast alive. *)
LEMMA CvBroadcastReleaseInv ==
  ASSUME CondVarInv, LockTypeOK', NEW t \in Threads, CvBroadcastRelease(t)
  PROVE  CondVarInv'
<1> USE DEF CvBroadcastRelease, Free
<1>1. CASE waiters > 0
  <2>0. TypeOK /\ WaitersCovered /\ CvSignalNotIgnored
    BY DEF CondVarInv
  <2>1. waiters' \in 0 .. MaxWaiters /\ cv' \in [Threads -> CvStages]
    BY <1>1, <2>0 DEF TypeOK, CvStages
  <2>2. broadcasting' \in BOOLEAN /\ cvActive' \in BOOLEAN
    <3>1. broadcasting' = TRUE /\ cvActive' = cvActive
      BY <1>1
    <3> QED
      BY <2>0, <3>1, Zenon DEF TypeOK
  <2>3. InWait' = InWait /\ cv'[t] = "release"
    BY <1>1, <2>0 DEF InWait, TypeOK
  <2>4. WaitersCovered'
    BY <2>0, <2>3 DEF WaitersCovered
  <2>5. CvSignalNotIgnored'
    BY <1>1, <2>0 DEF CvSignalNotIgnored, TypeOK
  <2> QED
    BY <2>1, <2>2, <2>3, <2>4, <2>5 DEF CondVarInv, TypeOK, BroadcastAlive
<1>2. CASE ~(waiters > 0)
  <2>1. UNCHANGED cvVars
    BY <1>2 DEF cvVars
  <2> QED
    BY <2>1, CvStutterInv
<1> QED
  BY <1>1, <1>2

(* Every step keeps the invariant of the condition variable. *)
LEMMA CondVarNextInv ==
  ASSUME CondVarInv, LockTypeOK', [Next]_vars
  PROVE  CondVarInv'
<1>1. ASSUME NEW t \in Threads, Lock(t) \/ Unlock(t) \/ LockProgress(t) \/ CvRelock(t)
      PROVE  CondVarInv'
  <2>1. UNCHANGED cvVars
    BY <1>1 DEF Lock, Unlock, LockProgress, CvRelock
  <2> QED
    BY <2>1, CvStutterInv
<1>2. UNCHANGED vars => CondVarInv'
  BY CvStutterInv DEF vars
<1> QED
  BY <1>1, <1>2, CvWaitInv, CvSleepInv, CvRelockRefusedInv, CvWaitReturnInv, CvSignalInv,
     CvBroadcastReleaseInv
  DEF Next, Progress

(* The waiters are all counted, a broadcast in progress is carried by        *)
(* somebody, and a signal does not lie beside a sleeper, whatever the        *)
(* interleaving of sync_cv_wait(), sync_cv_signal() and the broadcasts.      *)
THEOREM CondVarInvariant == Spec => []CondVarInv
<1>1. Init /\ LockInv => CondVarInv
  BY InitCondVarInv
<1>2. CondVarInv /\ LockInv' /\ [Next]_vars => CondVarInv'
  BY CondVarNextInv DEF LockInv
<1> QED
  BY <1>1, <1>2, CondVarLockInvariant, PTL DEF Spec

-----------------------------------------------------------------------------
(* No thread that comes out of sync_cv_wait() drops a broadcast while        *)
(* others are still in: it ends with the last one or with a new waiter.      *)
THEOREM CondVarBroadcast == Spec => BroadcastOnlyDropped
<1> DEFINE Dropped ==
      broadcasting /\ ~broadcasting' => waiters' = 0 \/ waiters' > waiters
<1>1. ASSUME CondVarInv, [Next]_vars PROVE [Dropped]_vars
  <2>0. TypeOK /\ WaitersCovered
    BY <1>1 DEF CondVarInv
  <2>1. ASSUME NEW t \in Threads, CvWait(t) PROVE Dropped
    BY <2>0, <2>1 DEF CvWait, TypeOK
  <2>2. ASSUME NEW t \in Threads, CvWaitReturn(t) PROVE Dropped
    <3>1. InWait # {}
      BY <2>2 DEF CvWaitReturn, InWait
    <3>2. waiters >= 1
      BY <2>0, <3>1, InWaitFinite DEF WaitersCovered, TypeOK
    <3>3. waiters \in Nat /\ waiters' = waiters - 1
      BY <2>0, <2>2 DEF CvWaitReturn, TypeOK
    <3>4. CASE broadcasting' = broadcasting
      BY <3>4
    <3>5. CASE ~(broadcasting /\ waiters - 1 > 0)
      <4>1. CASE ~broadcasting
        BY <4>1, Zenon
      <4>2. CASE ~(waiters - 1 > 0)
        BY <3>2, <3>3, <4>2
      <4> QED
        BY <3>5, <4>1, <4>2, Zenon
    <3> QED
      BY <2>2, <3>4, <3>5, Zenon DEF CvWaitReturn
  <2>3. ASSUME NEW t \in Threads, CvBroadcast(t) \/ CvBroadcastRelease(t) PROVE Dropped
    BY <2>3 DEF CvBroadcast, CvBroadcastRelease
  <2>4. ASSUME NEW t \in Threads,
               \/ Lock(t) \/ Unlock(t) \/ LockProgress(t) \/ CvRelock(t)
               \/ CvWaitTakeSignal(t) \/ CvWaitBlock(t) \/ CvRelockRefused(t)
               \/ CvSignal(t) \/ CvBroadcastReleaseSignal(t)
        PROVE  Dropped
    BY <2>4 DEF Lock, Unlock, LockProgress, CvRelock, CvWaitTakeSignal, CvWaitBlock,
                CvRelockRefused, CvSignal, CvBroadcastReleaseSignal, cvVars
  <2> QED
    BY <1>1, <2>1, <2>2, <2>3, <2>4 DEF Next, Progress
<1> QED
  BY <1>1, CondVarInvariant, PTL DEF Spec, BroadcastOnlyDropped
===============================================================================
