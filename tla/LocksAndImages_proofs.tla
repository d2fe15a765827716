------------------------ MODULE LocksAndImages_proofs -------------------------
(***************************************************************************)
(* Proofs about the counting semaphore, for any finite set of threads, any *)
(* number of units and any INT_MIN; about the recursive mutex, for any set *)
(* of threads and any UINT_MAX; and about the ELF loader, for any segments *)
(* and pages.  SemInv and MutexInv are inductive, and every step is a step *)
(* of the abstract semaphore or lock: the thread that holds the mutex's    *)
(* signal is the only one that can write `owner` and `held`.  The loader   *)
(* shares no state with them.                                              *)
(***************************************************************************)
EXTENDS RecursiveMutex, Sem, Elf,
        FiniteSetTheorems, SequenceTheorems, WellFoundedInduction, TLAPS

-----------------------------------------------------------------------------
(* The counting semaphore                                                  *)

(* The sets that the invariant counts are finite. *)
LEMMA SetsFinite ==
  /\ IsFiniteSet(Claims) /\ Cardinality(Claims) \in Nat
  /\ IsFiniteSet(Posts) /\ Cardinality(Posts) \in Nat
  /\ IsFiniteSet(SemAt("in")) /\ Cardinality(SemAt("in")) \in Nat
<1>1. IsFiniteSet(SemThreads)
  BY SemConfig
<1>2. Claims \subseteq SemThreads /\ Posts \subseteq SemThreads /\ SemAt("in") \subseteq SemThreads
  BY DEF Claims, Posts, SemAt
<1>3. IsFiniteSet(Claims) /\ IsFiniteSet(Posts) /\ IsFiniteSet(SemAt("in"))
  BY <1>1, <1>2, FS_Subset
<1> QED
  BY <1>3, FS_CardinalityType

(* Counting with one thread more and with one thread less. *)
LEMMA OneMore ==
  ASSUME NEW S, IsFiniteSet(S), NEW t, t \notin S
  PROVE  Cardinality(S \cup {t}) = Cardinality(S) + 1
BY FS_AddElement

(* A finite set without one of its elements. *)
LEMMA OneLess ==
  ASSUME NEW S, IsFiniteSet(S), NEW t \in S
  PROVE  Cardinality(S \ {t}) = Cardinality(S) - 1 /\ Cardinality(S) >= 1
<1>1. Cardinality(S \ {t}) = Cardinality(S) - 1
  BY FS_RemoveElement
<1>2. Cardinality(S) \in Nat /\ Cardinality(S) # 0
  BY FS_CardinalityType, FS_EmptySet
<1> QED
  BY <1>1, <1>2

(* sync_sem_init() establishes the invariant. *)
LEMMA InitSemInv ==
  ASSUME SemInit
  PROVE  SemInv
<1>1. SemTypeOK
  BY SemConfig DEF SemInit, SemTypeOK, SemStages
<1>2. Claims = {} /\ Posts = {} /\ SemAt("in") = {} /\ SemAt("sending") = {} /\ SemAt("try") = {}
  BY DEF SemInit, Claims, Posts, SemAt
<1>3. Cardinality({}) = 0
  BY FS_EmptySet
<1>4. ValueCounts /\ UnitsAllUsed
  BY <1>2, <1>3, SemConfig DEF SemInit, ValueCounts, UnitsAllUsed
<1> QED
  BY <1>1, <1>2, <1>4 DEF SemInv, NeverBothAsleep, TriesToTake

(* A claim that takes a unit: wait() with a positive value, and trywait(). *)
LEMMA TakesUnit ==
  ASSUME SemInv, NEW t \in SemThreads, semPc[t] \in {"idle", "try"},
         semValue > 0, semValue' = semValue - 1, semPc' = [semPc EXCEPT ![t] = "in"],
         semVal' \in [SemThreads -> 0 .. Units],
         \A u \in SemThreads : u # t => semVal'[u] = semVal[u]
  PROVE  /\ SemInv'
         /\ SemAt("in")' = SemAt("in") \cup {t} /\ t \notin SemAt("in")
         /\ Cardinality(SemAt("in")) < Units
<1> USE DEF SemInv
<1>1. /\ Claims' = Claims \cup {t} /\ t \notin Claims
      /\ SemAt("in")' = SemAt("in") \cup {t} /\ t \notin SemAt("in")
      /\ Posts' = Posts
      /\ SemAt("sending")' = SemAt("sending") /\ SemAt("receiving")' = SemAt("receiving")
      /\ SemAt("try")' = SemAt("try") \ {t}
  BY DEF SemTypeOK, Claims, Posts, SemAt
<1>2. /\ Cardinality(Claims') = Cardinality(Claims) + 1
      /\ Cardinality(SemAt("in")') = Cardinality(SemAt("in")) + 1
  BY <1>1, SetsFinite, OneMore
<1>3. Cardinality(Claims) < Units
  BY SetsFinite, SemConfig DEF ValueCounts
<1>4. SemTypeOK'
  <2>1. semValue' \in IntMin .. Units
    BY SemConfig DEF SemTypeOK
  <2>2. semPc' \in [SemThreads -> SemStages]
    BY DEF SemTypeOK, SemStages
  <2> QED
    BY <2>1, <2>2 DEF SemTypeOK
<1>5. ValueCounts' /\ UnitsAllUsed'
  BY <1>1, <1>2, <1>3, SetsFinite, SemConfig DEF ValueCounts, UnitsAllUsed
<1>6. NeverBothAsleep' /\ TriesToTake'
  BY <1>1 DEF NeverBothAsleep, TriesToTake, SemAt
<1>7. Cardinality(SemAt("in")) < Units
  BY <1>3, SetsFinite, SemConfig DEF UnitsAllUsed
<1> QED
  BY <1>1, <1>4, <1>5, <1>6, <1>7

(* wait() with nothing left: one claim more, which is to sleep. *)
LEMMA ClaimsAndSleeps ==
  ASSUME SemInv, NEW t \in SemThreads, WaitDecrement(t), semValue <= 0
  PROVE  SemInv' /\ SemAt("in")' = SemAt("in")
<1> USE DEF SemInv
<1>1. /\ Claims' = Claims \cup {t} /\ t \notin Claims
      /\ SemAt("in")' = SemAt("in") /\ Posts' = Posts
      /\ SemAt("sending")' = SemAt("sending") /\ SemAt("receiving")' = SemAt("receiving")
      /\ SemAt("try")' = SemAt("try")
  BY DEF SemTypeOK, Claims, Posts, SemAt, WaitDecrement, SemGo
<1>2. Cardinality(Claims') = Cardinality(Claims) + 1
  BY <1>1, SetsFinite, OneMore
<1>3. Cardinality(Claims) >= Units
  BY SetsFinite, SemConfig DEF ValueCounts
<1>4. SemTypeOK'
  BY SemConfig DEF SemTypeOK, SemStages, WaitDecrement, SemGo
<1>5. ValueCounts' /\ UnitsAllUsed'
  BY <1>1, <1>2, <1>3, SetsFinite, SemConfig DEF ValueCounts, UnitsAllUsed, WaitDecrement
<1>6. NeverBothAsleep' /\ TriesToTake'
  BY <1>1 DEF NeverBothAsleep, TriesToTake, WaitDecrement
<1> QED
  BY <1>1, <1>4, <1>5, <1>6

(* A hand-over between a poster p and a waiter w, whichever came first. *)
LEMMA HandsOver ==
  ASSUME SemInv, NEW p \in Posts, NEW w \in SemThreads,
         semPc[w] \in {"torecv", "receiving"},
         semPc' = [semPc EXCEPT ![p] = "idle", ![w] = "in"], UNCHANGED <<semValue, semVal>>
  PROVE  /\ SemInv'
         /\ SemAt("in")' = SemAt("in") \cup {w} /\ w \notin SemAt("in")
         /\ Cardinality(SemAt("in")) < Units
<1> USE DEF SemInv
<1>0. p \in SemThreads /\ p # w
  BY DEF Posts
<1>1. /\ Claims' = Claims
      /\ SemAt("in")' = SemAt("in") \cup {w} /\ w \notin SemAt("in")
      /\ Posts' = Posts \ {p}
      /\ SemAt("sending")' \subseteq SemAt("sending") /\ SemAt("receiving")' \subseteq SemAt("receiving")
      /\ SemAt("try")' = SemAt("try")
  BY <1>0 DEF SemTypeOK, Claims, Posts, SemAt
<1>2. /\ Cardinality(SemAt("in")') = Cardinality(SemAt("in")) + 1
      /\ Cardinality(Posts') = Cardinality(Posts) - 1
      /\ Cardinality(Posts) >= 1
  BY <1>1, SetsFinite, OneMore, OneLess
<1>3. SemTypeOK'
  BY <1>0 DEF SemTypeOK, SemStages
<1>4. ValueCounts' /\ UnitsAllUsed'
  BY <1>1, <1>2, SetsFinite, SemConfig DEF ValueCounts, UnitsAllUsed
<1>5. NeverBothAsleep' /\ TriesToTake'
  BY <1>1 DEF NeverBothAsleep, TriesToTake
<1>6. Cardinality(SemAt("in")) < Units
  BY <1>2, SetsFinite, SemConfig DEF UnitsAllUsed
<1> QED
  BY <1>1, <1>3, <1>4, <1>5, <1>6

(* post()'s increment gives the unit back, or owes it to a waiter. *)
LEMMA GivesBack ==
  ASSUME SemInv, NEW t \in SemThreads, PostIncrement(t)
  PROVE  /\ SemInv'
         /\ SemAt("in")' = SemAt("in") \ {t} /\ t \in SemAt("in")
<1> USE DEF SemInv
<1>1. /\ Claims' = Claims \ {t} /\ t \in Claims
      /\ SemAt("in")' = SemAt("in") \ {t} /\ t \in SemAt("in")
      /\ SemAt("sending")' = SemAt("sending") /\ SemAt("receiving")' = SemAt("receiving")
      /\ SemAt("try")' = SemAt("try")
  BY DEF SemTypeOK, Claims, SemAt, PostIncrement, SemGo
<1>2. /\ Cardinality(Claims') = Cardinality(Claims) - 1 /\ Cardinality(Claims) >= 1
      /\ Cardinality(SemAt("in")') = Cardinality(SemAt("in")) - 1
  BY <1>1, SetsFinite, OneLess
<1>3. SemTypeOK'
  BY <1>2, SetsFinite, SemConfig DEF SemTypeOK, SemStages, PostIncrement, SemGo, ValueCounts
<1>4. ValueCounts'
  BY <1>2, SetsFinite, SemConfig DEF ValueCounts, PostIncrement
<1>7. UnitsAllUsed'
  <2>1. CASE semValue + 1 <= 0
    <3>1. Posts' = Posts \cup {t} /\ t \notin Posts
      BY <2>1 DEF SemTypeOK, Posts, PostIncrement, SemGo
    <3>2. Cardinality(Posts') = Cardinality(Posts) + 1
      BY <3>1, SetsFinite, OneMore
    <3> QED
      BY <1>2, <2>1, <3>2, SetsFinite, SemConfig DEF ValueCounts, UnitsAllUsed
  <2>2. CASE semValue + 1 > 0
    <3>1. Posts' = Posts
      BY <2>2 DEF SemTypeOK, Posts, PostIncrement, SemGo
    <3> QED
      BY <1>2, <2>2, <3>1, SetsFinite, SemConfig DEF ValueCounts, UnitsAllUsed
  <2> QED
    BY <2>1, <2>2, SemConfig DEF SemTypeOK
<1>8. NeverBothAsleep' /\ TriesToTake'
  BY <1>1 DEF NeverBothAsleep, TriesToTake, PostIncrement
<1> QED
  BY <1>1, <1>3, <1>4, <1>7, <1>8

(* Steps after which the same threads claim, post and are in. *)
LEMMA SameSets ==
  ASSUME SemInv, SemTypeOK', NeverBothAsleep', TriesToTake', semValue' = semValue,
         Claims' = Claims, Posts' = Posts, SemAt("in")' = SemAt("in")
  PROVE  SemInv'
BY DEF SemInv, ValueCounts, UnitsAllUsed

(* The steps that only sleep or read keep the invariant. *)
LEMMA SleepsOrReads ==
  ASSUME SemInv, NEW t \in SemThreads,
         WaitBlock(t) \/ PostBlock(t) \/ TryRead(t) \/ TryAgain(t)
  PROVE  SemInv' /\ SemAt("in")' = SemAt("in")
<1> USE DEF SemInv
<1>1. SemTypeOK'
  BY SemConfig DEF SemTypeOK, SemStages, WaitBlock, PostBlock, TryRead, TryAgain, SemGo
<1>2. semValue' = semValue /\ Claims' = Claims /\ Posts' = Posts /\ SemAt("in")' = SemAt("in")
  BY DEF SemTypeOK, Claims, Posts, SemAt, WaitBlock, PostBlock, TryRead, TryAgain, SemGo
<1>3. NeverBothAsleep'
  BY DEF NeverBothAsleep, SemTypeOK, SemAt, WaitBlock, PostBlock, TryRead, TryAgain, SemGo
<1>4. TriesToTake'
  BY SemConfig DEF TriesToTake, SemTypeOK, SemAt, WaitBlock, PostBlock, TryRead, TryAgain, SemGo
<1> QED
  BY <1>1, <1>2, <1>3, <1>4, SameSets

(* A refused wait() and the steps of others. *)
LEMMA SemStutters ==
  ASSUME SemInv, UNCHANGED semVars
  PROVE  SemInv' /\ SemAt("in")' = SemAt("in")
BY DEF semVars, SemInv, SemTypeOK, ValueCounts, UnitsAllUsed, NeverBothAsleep, TriesToTake,
       Claims, Posts, SemAt

(* The abstract module counts with the same Cardinality. *)
LEMMA SameCardinality == \A S : AbstractSemaphore!Cardinality(S) = Cardinality(S)
BY Zenon DEF Cardinality, AbstractSemaphore!Cardinality

(* Every step keeps the invariant, and lets one thread in, lets one out, or  *)
(* neither.                                                                 *)
LEMMA SemStepKeeps ==
  ASSUME SemInv, [SemNext]_semVars
  PROVE  SemInv' /\ [AbstractSemaphore!Next]_(SemAt("in"))
<1> DEFINE Kept == SemInv' /\ [AbstractSemaphore!Next]_(SemAt("in"))
<1>a. ASSUME NEW t \in SemThreads, SemInv', SemAt("in")' = SemAt("in") \cup {t}, t \notin SemAt("in"),
             Cardinality(SemAt("in")) < Units
      PROVE  Kept
  BY <1>a, SameCardinality DEF AbstractSemaphore!Next, AbstractSemaphore!Enter
<1>1. ASSUME NEW t \in SemThreads, WaitDecrement(t) PROVE Kept
  <2>1. CASE semValue > 0
    <3>1. semPc' = [semPc EXCEPT ![t] = "in"]
      <4>1. ~(semValue <= 0)
        BY <2>1, SemConfig DEF SemInv, SemTypeOK
      <4> QED
        BY <1>1, <4>1 DEF WaitDecrement, SemGo
    <3> QED
      BY <1>1, <1>a, <2>1, <3>1, TakesUnit DEF WaitDecrement, SemInv, SemTypeOK
  <2>2. CASE semValue <= 0
    BY <1>1, <2>2, ClaimsAndSleeps
  <2> QED
    BY <2>1, <2>2, SemConfig DEF SemInv, SemTypeOK
<1>2. ASSUME NEW t \in SemThreads, TrySwap(t) PROVE Kept
  <2>1. semValue > 0
    BY <1>2 DEF TrySwap, SemInv, TriesToTake, SemAt
  <2>2. semVal' \in [SemThreads -> 0 .. Units] /\ \A u \in SemThreads : u # t => semVal'[u] = semVal[u]
    BY <1>2, SemConfig DEF TrySwap, SemInv, SemTypeOK
  <2> QED
    BY <1>2, <1>a, <2>1, <2>2, TakesUnit DEF TrySwap, SemGo
<1>3. ASSUME NEW t \in SemThreads, WaitRecv(t) PROVE Kept
  <2>1. PICK s \in SemAt("sending") : semPc' = [semPc EXCEPT ![t] = "in", ![s] = "idle"]
    BY <1>3 DEF WaitRecv
  <2>2. s \in Posts /\ s # t
    BY <1>3 DEF WaitRecv, SemAt, Posts
  <2>3. semPc' = [semPc EXCEPT ![s] = "idle", ![t] = "in"]
    BY <2>1, <2>2 DEF SemInv, SemTypeOK, Posts
  <2> QED
    BY <1>3, <1>a, <2>2, <2>3, HandsOver DEF WaitRecv
<1>4. ASSUME NEW t \in SemThreads, PostSend(t) PROVE Kept
  <2>1. PICK w \in SemAt("receiving") : semPc' = [semPc EXCEPT ![t] = "idle", ![w] = "in"]
    BY <1>4 DEF PostSend
  <2>2. t \in Posts /\ w \in SemThreads /\ semPc[w] = "receiving"
    BY <1>4 DEF PostSend, SemAt, Posts
  <2> QED
    BY <1>4, <1>a, <2>1, <2>2, HandsOver DEF PostSend
<1>5. ASSUME NEW t \in SemThreads, PostIncrement(t) PROVE Kept
  BY <1>5, GivesBack DEF AbstractSemaphore!Next, AbstractSemaphore!Leave
<1>6. ASSUME NEW t \in SemThreads, WaitRefused(t) PROVE Kept
  BY <1>6, SemStutters DEF WaitRefused
<1>7. ASSUME NEW t \in SemThreads, WaitBlock(t) \/ PostBlock(t) \/ TryRead(t) \/ TryAgain(t) PROVE Kept
  BY <1>7, SleepsOrReads
<1>8. ASSUME UNCHANGED semVars PROVE Kept
  BY <1>8, SemStutters
<1> QED
  BY <1>1, <1>2, <1>3, <1>4, <1>5, <1>6, <1>7, <1>8 DEF SemNext, SemStep

(* However sync_sem_bare_wait(), trywait() and post() interleave: the value *)
(* counts the claims, every unit is in use or on its way to a waiter, and a *)
(* poster and a waiter never sleep past each other.                         *)
THEOREM SemInvariant == SemSpec => []SemInv
<1>1. SemInit => SemInv
  BY InitSemInv
<1>2. SemInv /\ [SemNext]_semVars => SemInv'
  BY SemStepKeeps
<1> QED
  BY <1>1, <1>2, PTL DEF SemSpec

(* The semaphore implements the abstract one: at most Units threads are     *)
(* between a wait() or trywait() that succeeded and their post().           *)
THEOREM SemRefinement == SemSpec => ImplementsSem
<1>1. SemInit => AbstractSemaphore!Init
  BY DEF SemInit, AbstractSemaphore!Init, SemAt
<1>2. SemInv /\ [SemNext]_semVars => [AbstractSemaphore!Next]_(SemAt("in"))
  BY SemStepKeeps
<1> QED
  BY <1>1, <1>2, SemInvariant, PTL DEF SemSpec, ImplementsSem, AbstractSemaphore!Spec

-----------------------------------------------------------------------------
(* The recursive mutex                                                     *)

USE NoOneAssumption, UintMaxAssumption

(* The initialised mutex satisfies the invariant. *)
LEMMA InitMutexInv == Init => MutexInv
<1> SUFFICES ASSUME Init PROVE MutexInv
  OBVIOUS
<1>1. TypeOK
  <2>1. active \in BOOLEAN
    BY Zenon DEF Init
  <2> QED
    BY <2>1 DEF Init, TypeOK, Stages
<1>2. LockAssertions /\ DepthIsOwners
  BY DEF Init, LockAssertions, DepthIsOwners, At
<1>3. OneSignal
  BY DEF Init, OneSignal, Bearers
<1> QED
  BY <1>1, <1>2, <1>3 DEF Init, MutexInv

(* A thread that bears the signal is the only one, and the notification has  *)
(* none.                                                                    *)
LEMMA SoleBearer ==
  ASSUME MutexInv, NEW t \in Bearers
  PROVE  Bearers = {t} /\ ~active
BY DEF MutexInv, OneSignal

(* What lock() and unlock() of the owner do leaves the signal with it, until *)
(* the outermost unlock().                                                  *)
LEMMA LockAgainInv ==
  ASSUME MutexInv, NEW t \in Threads, LockAgain(t)
  PROVE  MutexInv'
<1>1. TypeOK'
  BY DEF MutexInv, TypeOK, LockAgain
<1>2. Bearers' = Bearers
  BY DEF LockAgain, Bearers
<1>3. OneSignal'
  BY <1>2 DEF MutexInv, OneSignal, LockAgain
<1>4. At("got")' = {}
  <2>1. t \in Bearers
    BY DEF LockAgain, Bearers
  <2> QED
    BY <2>1, SoleBearer DEF LockAgain, At, Bearers
<1>5. DepthIsOwners'
  BY DEF MutexInv, TypeOK, DepthIsOwners, LockAgain
<1> QED
  BY <1>1, <1>3, <1>4, <1>5 DEF MutexInv, LockAssertions, LockAgain, TypeOK

(* sync_recursive_mutex_unlock() keeps the invariant. *)
LEMMA UnlockInv ==
  ASSUME MutexInv, NEW t \in Threads, Unlock(t)
  PROVE  MutexInv'
<1>1. t \in Bearers
  BY DEF Unlock, Bearers
<1>2. TypeOK'
  <2>1. held' \in 0 .. UintMax /\ owner' \in Threads \cup {NoOne} /\ pc' \in [Threads -> Stages]
    BY DEF MutexInv, TypeOK, Unlock, Go, Stages
  <2>2. depth' \in [Threads -> Nat]
    BY DEF MutexInv, TypeOK, DepthIsOwners, Unlock
  <2>3. active' \in BOOLEAN
    BY Zenon DEF MutexInv, TypeOK, Unlock
  <2> QED
    BY <2>1, <2>2, <2>3 DEF TypeOK
<1>3. Bearers' = {t} /\ ~active'
  BY <1>1, SoleBearer DEF MutexInv, TypeOK, Unlock, Go, Bearers, Stages
<1>4. OneSignal'
  BY <1>3 DEF OneSignal
<1>5. At("got")' = {}
  BY <1>1, SoleBearer DEF MutexInv, TypeOK, Unlock, Go, At, Bearers
<1>6. DepthIsOwners'
  BY DEF MutexInv, TypeOK, DepthIsOwners, Unlock
<1>7. (owner = NoOne => held = 0)' /\ \A u \in Threads : (owner = u => pc[u] = "run")'
  BY DEF MutexInv, TypeOK, Unlock, Go
<1> QED
  BY <1>2, <1>4, <1>5, <1>6, <1>7 DEF MutexInv, LockAssertions

(* A thread that does not own the mutex changes nothing but its own place    *)
(* until it has the signal.                                                 *)
LEMMA LockContendInv ==
  ASSUME MutexInv, NEW t \in Threads, LockContend(t)
  PROVE  MutexInv'
<1>1. TypeOK'
  BY DEF MutexInv, TypeOK, LockContend, Go, Stages
<1>2. Bearers' = Bearers /\ At("got")' = At("got")
  BY DEF MutexInv, TypeOK, LockContend, Go, Bearers, At
<1> QED
  BY <1>1, <1>2 DEF MutexInv, TypeOK, OneSignal, LockAssertions, DepthIsOwners, LockContend, Go

(* A thread that goes to sleep for the mutex keeps the invariant. *)
LEMMA LockBlockInv ==
  ASSUME MutexInv, NEW t \in Threads, LockBlock(t)
  PROVE  MutexInv'
<1>1. TypeOK'
  BY DEF MutexInv, TypeOK, LockBlock, Go, Stages
<1>2. Bearers' = Bearers /\ At("got")' = At("got")
  BY DEF MutexInv, TypeOK, LockBlock, Go, Bearers, At
<1> QED
  BY <1>1, <1>2 DEF MutexInv, TypeOK, OneSignal, LockAssertions, DepthIsOwners, LockBlock, Go

(* Taking the signal out of the notification, where it is only when nobody   *)
(* owns the mutex.                                                          *)
LEMMA LockTakeSignalInv ==
  ASSUME MutexInv, NEW t \in Threads, LockTakeSignal(t)
  PROVE  MutexInv'
<1>1. Bearers = {}
  BY DEF MutexInv, OneSignal, LockTakeSignal
<1>2. owner = NoOne /\ held = 0
  BY <1>1 DEF MutexInv, TypeOK, Bearers
<1>3. TypeOK'
  <2>1. active' \in BOOLEAN
    BY Zenon DEF LockTakeSignal
  <2> QED
    BY <2>1 DEF MutexInv, TypeOK, LockTakeSignal, Go, Stages
<1>4. Bearers' = {t}
  BY <1>1 DEF MutexInv, TypeOK, LockTakeSignal, Go, Bearers, Stages
<1>5. OneSignal'
  BY <1>4 DEF OneSignal, LockTakeSignal
<1> QED
  BY <1>2, <1>3, <1>5 DEF MutexInv, LockAssertions, DepthIsOwners, LockTakeSignal

(* A thread that has the signal becomes the owner, at depth one. *)
LEMMA LockEnterInv ==
  ASSUME MutexInv, NEW t \in Threads, LockEnter(t)
  PROVE  MutexInv'
<1>1. t \in Bearers /\ t \in At("got")
  BY DEF LockEnter, Bearers, At
<1>2. owner = NoOne /\ held = 0
  BY <1>1 DEF MutexInv, LockAssertions
<1>3. depth[t] = 0
  BY <1>2 DEF MutexInv, DepthIsOwners
<1>4. TypeOK'
  BY <1>2, <1>3 DEF MutexInv, TypeOK, LockEnter, Go, Stages
<1>5. Bearers' = {t} /\ ~active' /\ At("got")' = {}
  BY <1>1, <1>2, SoleBearer DEF MutexInv, TypeOK, LockEnter, Go, Bearers, At, Stages
<1>6. DepthIsOwners'
  BY <1>2, <1>3 DEF MutexInv, TypeOK, DepthIsOwners, LockEnter
<1>7. \A u \in Threads : (owner = u => pc[u] = "run")'
  BY DEF MutexInv, TypeOK, LockEnter, Go
<1>8. OneSignal'
  BY <1>5 DEF OneSignal
<1>9. (owner = NoOne => held = 0)'
  BY DEF LockEnter
<1> QED
  BY <1>4, <1>5, <1>6, <1>7, <1>8, <1>9 DEF MutexInv, LockAssertions

(* The signal passes from the thread that unlocked to a sleeper... *)
LEMMA UnlockWakeInv ==
  ASSUME MutexInv, NEW t \in Threads, UnlockWake(t)
  PROVE  MutexInv'
<1>1. PICK w \in At("blocked") : pc' = [pc EXCEPT ![t] = "run", ![w] = "got"]
  BY DEF UnlockWake
<1>2. w \in Threads /\ w # t /\ pc[w] = "blocked" /\ pc[t] = "tosignal"
  BY <1>1 DEF At, UnlockWake
<1>3. Bearers = {t} /\ ~active
  BY <1>2, SoleBearer DEF Bearers
<1>4. owner = NoOne /\ held = 0
  BY <1>2, <1>3 DEF MutexInv, TypeOK, Bearers
<1>5. TypeOK'
  BY <1>1, <1>2 DEF MutexInv, TypeOK, UnlockWake, Stages
<1>6. Bearers' = {w}
  BY <1>1, <1>2, <1>3 DEF MutexInv, TypeOK, UnlockWake, Bearers
<1>7. OneSignal'
  BY <1>3, <1>6 DEF OneSignal, UnlockWake
<1> QED
  BY <1>4, <1>5, <1>7 DEF MutexInv, LockAssertions, DepthIsOwners, UnlockWake

(* ...or back into the notification. *)
LEMMA UnlockLeaveSignalInv ==
  ASSUME MutexInv, NEW t \in Threads, UnlockLeaveSignal(t)
  PROVE  MutexInv'
<1>1. Bearers = {t} /\ ~active
  BY SoleBearer DEF Bearers, UnlockLeaveSignal
<1>2. owner = NoOne /\ held = 0
  BY <1>1 DEF MutexInv, TypeOK, Bearers, UnlockLeaveSignal
<1>3. TypeOK'
  <2>1. active' \in BOOLEAN
    BY Zenon DEF UnlockLeaveSignal
  <2> QED
    BY <2>1 DEF MutexInv, TypeOK, UnlockLeaveSignal, Go, Stages
<1>4. Bearers' = {} /\ At("got")' = {}
  BY <1>1, <1>2 DEF MutexInv, TypeOK, UnlockLeaveSignal, Go, Bearers, At
<1>5. OneSignal'
  BY <1>4 DEF OneSignal, UnlockLeaveSignal
<1> QED
  BY <1>2, <1>3, <1>4, <1>5 DEF MutexInv, LockAssertions, DepthIsOwners, UnlockLeaveSignal

(* Every step preserves the invariant. *)
LEMMA NextMutexInv == MutexInv /\ [Next]_vars => MutexInv'
<1> SUFFICES ASSUME MutexInv, [Next]_vars PROVE MutexInv'
  OBVIOUS
<1>1. CASE UNCHANGED vars
  BY <1>1 DEF vars, MutexInv, TypeOK, LockAssertions, DepthIsOwners, OneSignal, Bearers, At
<1>2. CASE Next
  <2>1. PICK t \in Threads :
          \/ LockAgain(t) \/ LockRefused(t) \/ LockContend(t) \/ Unlock(t) \/ Step(t)
    BY <1>2 DEF Next
  <2>2. CASE LockRefused(t)
    BY <1>1, <2>2 DEF LockRefused
  <2>3. CASE Step(t)
    BY <2>3, LockTakeSignalInv, LockBlockInv, LockEnterInv, UnlockWakeInv, UnlockLeaveSignalInv
    DEF Step
  <2> QED
    BY <2>1, <2>2, <2>3, LockAgainInv, LockContendInv, UnlockInv
<1> QED
  BY <1>1, <1>2

(* The inductive invariant holds in every state of the mutex. *)
THEOREM MutexInvariant == Spec => []MutexInv
BY InitMutexInv, NextMutexInv, PTL DEF Spec

(* Type correctness; in particular `held` never leaves 0 .. UINT_MAX. *)
THEOREM MutexType == Spec => []TypeOK
<1>1. MutexInv => TypeOK
  BY DEF MutexInv
<1> QED
  BY <1>1, MutexInvariant, PTL

(* The assertions of sync_recursive_mutex_lock() hold: a thread that comes   *)
(* back from seL4_Wait finds no owner and depth zero.                       *)
THEOREM MutexLockAssertions == Spec => []LockAssertions
<1>1. MutexInv => LockAssertions
  BY DEF MutexInv
<1> QED
  BY <1>1, MutexInvariant, PTL

(* `held` is the depth of the owner, and no other thread is inside. *)
THEOREM MutexDepth == Spec => []DepthIsOwners
<1>1. MutexInv => DepthIsOwners
  BY DEF MutexInv
<1> QED
  BY <1>1, MutexInvariant, PTL

(* The signal is never lost and never doubled. *)
THEOREM MutexOneSignal == Spec => []OneSignal
<1>1. MutexInv => OneSignal
  BY DEF MutexInv
<1> QED
  BY <1>1, MutexInvariant, PTL

(* A step of the mutex is a step of the abstract lock, or leaves the owner. *)
LEMMA MutexStepRefines == MutexInv /\ [Next]_vars => [Abstract!Next]_owner
<1> SUFFICES ASSUME MutexInv, Next PROVE Abstract!Next \/ owner' = owner
  BY DEF vars
<1>1. PICK t \in Threads :
        \/ LockAgain(t) \/ LockRefused(t) \/ LockContend(t) \/ Unlock(t) \/ Step(t)
  BY DEF Next
<1>2. CASE Unlock(t)
  <2>1. owner = t /\ (owner' = NoOne \/ owner' = owner)
    BY <1>2 DEF Unlock
  <2> QED
    BY <2>1 DEF Abstract!Next, Abstract!Release
<1>3. CASE LockEnter(t)
  <2>1. owner = NoOne /\ owner' = t
    BY <1>3 DEF LockEnter, MutexInv, LockAssertions, At
  <2> QED
    BY <2>1 DEF Abstract!Next, Abstract!Acquire
<1>4. CASE LockAgain(t) \/ LockRefused(t) \/ LockContend(t)
  BY <1>4 DEF LockAgain, LockRefused, LockContend, vars
<1>5. CASE LockTakeSignal(t) \/ LockBlock(t) \/ UnlockWake(t) \/ UnlockLeaveSignal(t)
  BY <1>5 DEF LockTakeSignal, LockBlock, UnlockWake, UnlockLeaveSignal
<1> QED
  BY <1>1, <1>2, <1>3, <1>4, <1>5 DEF Step

(* The recursive mutex implements the abstract lock. *)
THEOREM MutexRefinement == Spec => ImplementsLock
<1>1. Init => Abstract!Init
  BY DEF Init, Abstract!Init
<1> QED
  BY <1>1, MutexInvariant, MutexStepRefines, PTL DEF Spec, ImplementsLock, Abstract!Spec

-----------------------------------------------------------------------------
(* Loading of images                                                       *)

(* A set of naturals has a least element. *)
LEMMA LeastNat ==
  ASSUME NEW S \in SUBSET Nat, S # {}
  PROVE  \E x \in S : \A y \in S : x <= y
<1>1. PICK x \in S : \A y \in S : ~ (<<y, x>> \in OpToRel(<, Nat))
  BY WFMin, NatLessThanWellFounded
<1>2. ASSUME NEW y \in S, y < x
      PROVE  <<y, x>> \in OpToRel(<, Nat)
  <2>1. <<y, x>> \in Nat \X Nat
    OBVIOUS
  <2>2. <<y, x>>[1] < <<y, x>>[2]
    BY <1>2
  <2> QED
    BY <2>1, <2>2, Zenon DEF OpToRel
<1>3. \A y \in S : ~ (y < x)
  BY <1>1, <1>2
<1> QED
  BY <1>3

(* What holds at the start of a loop and after every turn holds at its end, *)
(* and after every turn before. *)
LEMMA Climb ==
  ASSUME NEW n \in Nat, NEW A, 0 \in A, \A k \in 1 .. n : k - 1 \in A => k \in A
  PROVE  \A k \in 0 .. n : k \in A
<1> DEFINE B == {k \in 0 .. n : k \notin A}
<1>1. ASSUME B # {}
      PROVE  FALSE
  <2>1. PICK k \in B : \A j \in B : k <= j
    <3>1. B \in SUBSET Nat /\ B # {}
      BY <1>1
    <3> HIDE DEF B
    <3> QED
      BY <3>1, LeastNat
  <2>2. k \in 1 .. n /\ k - 1 \in 0 .. n /\ k - 1 \notin B
    BY <2>1
  <2> QED
    BY <2>1, <2>2
<1> QED
  BY <1>1

(* The pages of a segment: from Lo, below Hi. *)
Lo(g) == g.vstart \div PageSize
Hi(g) == ((SegmentEnd(g) - 1) \div PageSize) + 1

Region == [vstart : Nat, size : Nat \ {0}, write : BOOLEAN, segment : Nat, start : Int, bytes : Int]

LEMMA PageSizePositive == PageSize \in Nat \ {0} /\ NumPages \in Nat
BY ElfAssumption

(* Whole pages compare as their numbers do. *)
LEMMA Scaled ==
  ASSUME NEW x \in Int, NEW y \in Int
  PROVE  /\ PageSize * x \in Int
         /\ x < y <=> PageSize * x < PageSize * y
         /\ x <= y <=> PageSize * x <= PageSize * y
         /\ x * PageSize = PageSize * x
         /\ PageSize * (y - x) = PageSize * y - PageSize * x
         /\ PageSize * (x + 1) = PageSize * x + PageSize
<1> PageSize \in Nat \ {0}
  BY PageSizePositive
<1>1. x < y => PageSize * x < PageSize * y
  OBVIOUS
<1>2. y < x => PageSize * y < PageSize * x
  OBVIOUS
<1>3. PageSize * x \in Int /\ PageSize * y \in Int
  OBVIOUS
<1> QED
  BY <1>1, <1>2, <1>3

LEMMA PageOf ==
  ASSUME NEW a \in Int
  PROVE  /\ a \div PageSize \in Int
         /\ PageSize * (a \div PageSize) <= a /\ a < PageSize * (a \div PageSize) + PageSize
         /\ RoundDown(a) = PageSize * (a \div PageSize)
<1> PageSize \in Nat \ {0}
  BY PageSizePositive
<1>1. PICK q, m : q = a \div PageSize /\ m = a % PageSize
  OBVIOUS
<1>2. q \in Int /\ m \in Int /\ 0 <= m /\ m < PageSize /\ a = PageSize * q + m
  BY <1>1
<1> QED
  BY <1>1, <1>2 DEF RoundDown

(* The only page an address can be in. *)
LEMMA PageIs ==
  ASSUME NEW a \in Int, NEW p \in Int, PageSize * p <= a, a < PageSize * p + PageSize
  PROVE  a \div PageSize = p
<1>1. PICK q : q = a \div PageSize
  OBVIOUS
<1>2. q \in Int /\ PageSize * q <= a /\ a < PageSize * q + PageSize
  BY <1>1, PageOf
<1>3. PageSize \in Nat \ {0} /\ PageSize * p \in Int /\ PageSize * q \in Int
  BY <1>2, PageSizePositive
<1>4. ~(q < p)
  <2> SUFFICES ASSUME q < p
               PROVE  FALSE
    OBVIOUS
  <2>1. q + 1 \in Int /\ q + 1 <= p
    BY <1>2
  <2>2. PageSize * (q + 1) <= PageSize * p
    BY <2>1, Scaled
  <2>3. PageSize * (q + 1) = PageSize * q + PageSize
    BY <1>2, Scaled
  <2> QED
    BY <1>2, <1>3, <2>2, <2>3
<1>5. ~(p < q)
  <2> SUFFICES ASSUME p < q
               PROVE  FALSE
    OBVIOUS
  <2>1. p + 1 \in Int /\ p + 1 <= q
    BY <1>2
  <2>2. PageSize * (p + 1) <= PageSize * q
    BY <1>2, <2>1, Scaled
  <2>3. PageSize * (p + 1) = PageSize * p + PageSize
    BY Scaled
  <2> QED
    BY <1>2, <1>3, <2>2, <2>3
<1> QED
  BY <1>1, <1>2, <1>4, <1>5

LEMMA PageMonotone ==
  ASSUME NEW a \in Int, NEW b \in Int, a <= b
  PROVE  a \div PageSize <= b \div PageSize
<1>1. PICK p, q : p = a \div PageSize /\ q = b \div PageSize
  OBVIOUS
<1>2. p \in Int /\ q \in Int /\ PageSize * p <= a /\ b < PageSize * q + PageSize
  BY <1>1, PageOf
<1>3. PageSize \in Nat \ {0} /\ PageSize * p \in Int /\ PageSize * q \in Int
  BY <1>2, PageSizePositive
<1>4. PageSize * p < PageSize * q + PageSize /\ PageSize * (q + 1) = PageSize * q + PageSize
  BY <1>2, <1>3, Scaled
<1>5. PICK r : r = q + 1
  OBVIOUS
<1>6. r \in Int /\ p < r
  BY <1>2, <1>4, <1>5, Scaled
<1> QED
  BY <1>1, <1>2, <1>5, <1>6

LEMMA UpTo ==
  ASSUME NEW a \in Int
  PROVE  RoundUp(a) = PageSize * (((a - 1) \div PageSize) + 1)
<1>1. PICK q, b : b = a - 1 /\ q = b \div PageSize
  OBVIOUS
<1>2. b \in Int /\ q \in Int /\ PageSize * q <= b /\ b < PageSize * q + PageSize
  BY <1>1, PageOf
<1>3. PageSize \in Nat \ {0} /\ PageSize * q \in Int
  BY <1>2, PageSizePositive
<1>4. PICK c : c = a + PageSize - 1
  OBVIOUS
<1>5. c \in Int /\ c = b + PageSize
  BY <1>1, <1>3, <1>4
<1>6. PICK r : r = q + 1
  OBVIOUS
<1>7. r \in Int /\ PageSize * r = PageSize * q + PageSize
  BY <1>2, <1>6, Scaled
<1>8. c \div PageSize = r
  BY <1>2, <1>3, <1>5, <1>7, PageIs
<1> QED
  BY <1>1, <1>4, <1>5, <1>6, <1>8, PageOf DEF RoundUp

(* The pages of a segment. *)
LEMMA SegmentPages ==
  ASSUME NEW g \in Region
  PROVE  /\ SegmentEnd(g) \in Nat /\ g.vstart \in Nat /\ g.vstart < SegmentEnd(g)
         /\ Lo(g) \in Nat /\ Hi(g) \in Nat /\ Lo(g) < Hi(g)
         /\ RoundDown(g.vstart) = PageSize * Lo(g) /\ RoundUp(SegmentEnd(g)) = PageSize * Hi(g)
         /\ PageSize * Lo(g) <= g.vstart /\ g.vstart < PageSize * Lo(g) + PageSize
         /\ SegmentEnd(g) <= PageSize * Hi(g) /\ PageSize * Hi(g) < SegmentEnd(g) + PageSize
         /\ \A a \in g.vstart .. SegmentEnd(g) - 1 : a \div PageSize \in Lo(g) .. Hi(g) - 1
<1>1. PICK v, e, l, d : v = g.vstart /\ e = SegmentEnd(g) /\ l = v \div PageSize /\ d = (e - 1) \div PageSize
  OBVIOUS
<1>2. v \in Nat /\ e \in Nat /\ v < e
  BY <1>1 DEF Region, SegmentEnd
<1>3. PICK f, z : f = e - 1 /\ z = 0
  OBVIOUS
<1>4. f \in Int /\ z \in Int /\ z <= v /\ v <= f
  BY <1>2, <1>3
<1>5. /\ l \in Int /\ PageSize * l <= v /\ v < PageSize * l + PageSize /\ RoundDown(v) = PageSize * l
      /\ d \in Int /\ PageSize * d <= f /\ f < PageSize * d + PageSize /\ l <= d
  BY <1>1, <1>2, <1>3, <1>4, PageOf, PageMonotone
<1>6. 0 <= l
  <2>1. z \div PageSize <= v \div PageSize
    BY <1>2, <1>4, PageMonotone
  <2>2. z \div PageSize = 0
    BY <1>3, PageSizePositive
  <2> QED
    BY <1>1, <2>1, <2>2
<1>7. RoundUp(e) = PageSize * (d + 1)
  BY <1>1, <1>2, UpTo
<1>8. PageSize * (d + 1) = PageSize * d + PageSize
  BY <1>5, Scaled
<1>9. PICK D : D = PageSize * d
  OBVIOUS
<1>10. D \in Int /\ PageSize \in Nat /\ D <= f /\ f < D + PageSize /\ PageSize * (d + 1) = D + PageSize
  BY <1>5, <1>8, <1>9, PageSizePositive
<1>11. e <= PageSize * (d + 1) /\ PageSize * (d + 1) < e + PageSize
  BY <1>2, <1>3, <1>10
<1>12. Lo(g) = l /\ Hi(g) = d + 1
  BY <1>1 DEF Lo, Hi
<1>13. ASSUME NEW a \in v .. e - 1
       PROVE  a \div PageSize \in l .. d
  <2>1. a \in Int /\ v <= a /\ a <= f
    BY <1>2, <1>3
  <2>2. v \div PageSize <= a \div PageSize /\ a \div PageSize <= f \div PageSize /\ a \div PageSize \in Int
    BY <1>2, <1>4, <2>1, PageMonotone, PageOf
  <2> QED
    BY <1>1, <1>3, <1>5, <2>2
<1> QED
  BY <1>1, <1>2, <1>5, <1>6, <1>7, <1>11, <1>12, <1>13

(* Segments one above the other can only share the page between them. *)
LEMMA PagesInOrder ==
  ASSUME NEW g \in Region, NEW h \in Region, SegmentEnd(g) <= h.vstart
  PROVE  Hi(g) - 1 <= Lo(h) /\ Lo(g) <= Lo(h) /\ Hi(g) <= Hi(h)
<1>1. PICK f, v, w : f = SegmentEnd(g) - 1 /\ v = h.vstart /\ w = SegmentEnd(h) - 1
  OBVIOUS
<1>2. f \in Int /\ v \in Int /\ w \in Int /\ f <= v /\ v <= w
  BY <1>1, SegmentPages
<1>3. f \div PageSize <= v \div PageSize /\ f \div PageSize <= w \div PageSize
  BY <1>2, PageMonotone
<1>4. f \div PageSize \in Int /\ v \div PageSize \in Int /\ w \div PageSize \in Int
  BY <1>2, PageOf
<1>5. Hi(g) = (f \div PageSize) + 1 /\ Lo(h) = v \div PageSize /\ Hi(h) = (w \div PageSize) + 1
  BY <1>1 DEF Lo, Hi
<1>6. Lo(g) < Hi(g) /\ Lo(g) \in Int
  BY SegmentPages
<1> QED
  BY <1>3, <1>4, <1>5, <1>6

(* Which pages are reserved for a region, and which frames move. *)
Shared(a, b) == Hi(a) > Lo(b)
Moves(a, b) == Shared(a, b) /\ cap_writes_check_move_frame(a, b)
Keeps(a, b) == Shared(a, b) /\ ~cap_writes_check_move_frame(a, b)

From(rs, i) == IF i > 1 /\ Keeps(rs[i - 1], rs[i]) THEN Hi(rs[i - 1]) + 1 ELSE Lo(rs[i])
To(rs, i, k) == IF i < k /\ Moves(rs[i], rs[i + 1]) THEN Hi(rs[i]) - 1 ELSE Hi(rs[i])

LaidOut(g, f, t) == [g EXCEPT !.start = PageSize * f, !.bytes = PageSize * t - PageSize * f]

InOrder(rs, n) ==
  /\ rs \in [1 .. n -> Region]
  /\ \A i, j \in 1 .. n : i < j => SegmentEnd(rs[i]) <= rs[j].vstart

(* The first k regions have been prepared. *)
Planned(rs, n, k, s) ==
  /\ s = [regions |-> s.regions, prevEnd |-> s.prevEnd, fatal |-> s.fatal]
  /\ s.regions \in [1 .. n -> Region]
  /\ \A i \in 1 .. n : s.regions[i] = IF i <= k THEN LaidOut(rs[i], From(rs, i), To(rs, i, k)) ELSE rs[i]
  /\ s.prevEnd = IF k = 0 THEN 0 ELSE PageSize * Hi(rs[k])

LEMMA LaidFacts ==
  ASSUME NEW g \in Region, NEW f \in Int, NEW t \in Int, NEW x, x = LaidOut(g, f, t)
  PROVE  /\ x \in Region /\ x.start = PageSize * f /\ x.bytes = PageSize * t - PageSize * f
         /\ x.vstart = g.vstart /\ x.size = g.size /\ x.write = g.write /\ x.segment = g.segment
         /\ SegmentEnd(x) = SegmentEnd(g) /\ Lo(x) = Lo(g) /\ Hi(x) = Hi(g)
<1>1. PageSize * f \in Int /\ PageSize * t - PageSize * f \in Int
  BY PageSizePositive
<1>2. PICK a, b : a = PageSize * f /\ b = PageSize * t - PageSize * f
  OBVIOUS
<1>3. x = [g EXCEPT !.start = a, !.bytes = b] /\ a \in Int /\ b \in Int
  BY <1>1, <1>2 DEF LaidOut
<1>4. /\ x \in Region /\ x.start = a /\ x.bytes = b
      /\ x.vstart = g.vstart /\ x.size = g.size /\ x.write = g.write /\ x.segment = g.segment
  BY <1>3 DEF Region
<1>5. SegmentEnd(x) = SegmentEnd(g)
  BY <1>4 DEF SegmentEnd
<1> QED
  BY <1>2, <1>4, <1>5 DEF Lo, Hi

LEMMA PlanFacts ==
  ASSUME NEW n \in Nat, NEW rs, InOrder(rs, n), NEW i \in 1 .. n
  PROVE  From(rs, i) \in Int /\ \A k \in 0 .. n : To(rs, i, k) \in Int
<1>1. rs[i] \in Region /\ Lo(rs[i]) \in Int /\ Hi(rs[i]) \in Int
  BY SegmentPages DEF InOrder
<1>2. i > 1 => rs[i - 1] \in Region /\ Hi(rs[i - 1]) \in Int
  BY SegmentPages DEF InOrder
<1>3. From(rs, i) \in Int
  BY <1>1, <1>2 DEF From
<1> QED
  BY <1>1, <1>3 DEF To

(* One turn of prepare_reservations. *)
LEMMA PrepareTurn ==
  ASSUME NEW n \in Nat, NEW rs, InOrder(rs, n), NEW k \in 1 .. n,
         NEW s, s.fatal = FALSE, Planned(rs, n, k - 1, s), NEW r, r = PrepareOne(s, k)
  PROVE  /\ r.fatal \in BOOLEAN
         /\ ~r.fatal => Planned(rs, n, k, r)
         /\ (\A i \in 2 .. n : ~Keeps(rs[i - 1], rs[i])) => ~r.fatal
<1> DEFINE shares == s.prevEnd > RoundDown(s.regions[k].vstart)
           move == cap_writes_check_move_frame(s.regions[k - 1], s.regions[k])
<1>1. PICK g : g = rs[k]
  OBVIOUS
<1>2. g \in Region /\ s.regions[k] = g
  BY <1>1 DEF InOrder, Planned
<1>3. PICK h, top : h = Hi(g) /\ top = PageSize * h
  OBVIOUS
<1>4. h \in Int /\ top \in Int /\ top = RoundUp(SegmentEnd(g))
  BY <1>2, <1>3, SegmentPages, PageSizePositive
<1>5. ASSUME k > 1
      PROVE  /\ rs[k - 1] \in Region /\ s.regions[k - 1] = LaidOut(rs[k - 1], From(rs, k - 1), Hi(rs[k - 1]))
             /\ s.prevEnd = PageSize * Hi(rs[k - 1]) /\ Hi(rs[k - 1]) \in Int
             /\ From(rs, k - 1) \in Int /\ s.regions[k - 1].write = rs[k - 1].write
  <2>1. PICK j : j = k - 1
    OBVIOUS
  <2>2. j \in 1 .. n /\ rs[j] \in Region /\ k - 1 # 0
    BY <1>5, <2>1 DEF InOrder
  <2>3. s.regions[j] = LaidOut(rs[j], From(rs, j), To(rs, j, k - 1)) /\ s.prevEnd = PageSize * Hi(rs[j])
    BY <2>1, <2>2 DEF Planned
  <2>4. To(rs, j, k - 1) = Hi(rs[j])
    BY <2>1 DEF To
  <2>5. Hi(rs[j]) \in Int /\ From(rs, j) \in Int
    BY <2>2, SegmentPages, PlanFacts
  <2>6. PICK a, f, t, x : a = rs[j] /\ f = From(rs, j) /\ t = Hi(rs[j]) /\ x = s.regions[j]
    OBVIOUS
  <2>7. x.write = a.write
    BY <2>2, <2>3, <2>4, <2>5, <2>6, LaidFacts
  <2> QED
    BY <2>1, <2>2, <2>3, <2>4, <2>5, <2>6, <2>7
<1>6. shares <=> (k > 1 /\ Shared(rs[k - 1], g))
  <2>1. RoundDown(g.vstart) = PageSize * Lo(g) /\ Lo(g) \in Nat
    BY <1>2, SegmentPages
  <2>2. CASE k = 1
    <3>1. s.prevEnd = 0 /\ PageSize * Lo(g) >= 0
      BY <2>1, <2>2, PageSizePositive DEF Planned
    <3>2. PageSize * Lo(g) \in Int
      BY <2>1, PageSizePositive
    <3> QED
      BY <1>2, <2>1, <2>2, <3>1, <3>2
  <2>3. CASE k > 1
    <3>1. PICK p, q : p = Hi(rs[k - 1]) /\ q = Lo(g)
      OBVIOUS
    <3>2. p \in Int /\ q \in Int
      BY <1>5, <2>1, <2>3, <3>1
    <3>3. q < p <=> PageSize * q < PageSize * p
      BY <3>2, Scaled
    <3>4. PageSize * q \in Int /\ PageSize * p \in Int
      BY <3>2, Scaled
    <3> QED
      BY <1>2, <1>5, <2>1, <2>3, <3>1, <3>2, <3>3, <3>4 DEF Shared
  <2> QED
    BY <2>2, <2>3
<1>7. k > 1 => (move <=> cap_writes_check_move_frame(rs[k - 1], g))
  BY <1>2, <1>5 DEF cap_writes_check_move_frame
<1>8. PICK f : f = From(rs, k)
  OBVIOUS
<1>9. f \in Int
  BY <1>8, PlanFacts
<1>10. PICK start : start = IF shares /\ ~move THEN RoundUp(s.prevEnd + 1) ELSE RoundDown(s.regions[k].vstart)
  OBVIOUS
<1>11. start = PageSize * f
  <2>1. CASE shares /\ ~move
    <3>1. k > 1 /\ Keeps(rs[k - 1], rs[k])
      BY <1>1, <1>6, <1>7, <2>1 DEF Keeps
    <3>2. f = Hi(rs[k - 1]) + 1
      BY <1>8, <3>1 DEF From
    <3>3. PICK p, e : p = Hi(rs[k - 1]) /\ e = s.prevEnd
      OBVIOUS
    <3>4. p \in Int /\ e = PageSize * p /\ e \in Int
      BY <1>5, <3>1, <3>3, PageSizePositive
    <3>5. PICK b : b = e + 1
      OBVIOUS
    <3>6. b \in Int /\ b - 1 = e
      BY <3>4, <3>5
    <3>7. e \div PageSize = p
      BY <3>4, PageIs, PageSizePositive
    <3>8. RoundUp(b) = PageSize * (p + 1)
      BY <3>6, <3>7, UpTo
    <3> QED
      BY <1>10, <2>1, <3>2, <3>3, <3>5, <3>8
  <2>2. CASE ~(shares /\ ~move)
    <3>1. ~(k > 1 /\ Keeps(rs[k - 1], rs[k]))
      BY <1>1, <1>6, <1>7, <2>2 DEF Keeps
    <3>2. f = Lo(g)
      BY <1>1, <1>8, <3>1 DEF From
    <3> QED
      BY <1>2, <1>10, <2>2, <3>2, SegmentPages
  <2> QED
    BY <2>1, <2>2
<1>12. PICK x : x = LaidOut(g, f, h)
  OBVIOUS
<1>13. x \in Region /\ x = [g EXCEPT !.start = start, !.bytes = top - start]
  BY <1>2, <1>3, <1>4, <1>9, <1>11, <1>12, LaidFacts DEF LaidOut
<1>14. PICK R : R = [s.regions EXCEPT ![k] = x]
  OBVIOUS
<1>15. R \in [1 .. n -> Region] /\ R[k] = x /\ \A i \in 1 .. n : i # k => R[i] = s.regions[i]
  BY <1>13, <1>14 DEF Planned
<1>16. PICK placed : placed = [s EXCEPT !.regions = R, !.prevEnd = top]
  OBVIOUS
<1>17. placed = [regions |-> R, prevEnd |-> top, fatal |-> FALSE]
  BY <1>16 DEF Planned
<1>18. placed = [s EXCEPT !.regions[k] = [@ EXCEPT !.start = start, !.bytes = top - start], !.prevEnd = top]
  BY <1>2, <1>13, <1>14, <1>16
<1>19. r = IF ~shares THEN placed
           ELSE IF move
           THEN IF s.regions[k - 1].bytes \in 0 .. PageSize - 1 THEN [s EXCEPT !.fatal = TRUE]
                ELSE [placed EXCEPT !.regions[k - 1] = WithoutLast(@)]
           ELSE [placed EXCEPT !.fatal = RoundUp(g.size) - (top - start) = PageSize]
  BY <1>2, <1>4, <1>10, <1>18 DEF PrepareOne
<1>20. To(rs, k, k) = h
  BY <1>1, <1>3 DEF To
<1>21. ASSUME NEW i \in 1 .. n, i # k, i # k - 1
       PROVE  R[i] = IF i <= k THEN LaidOut(rs[i], From(rs, i), To(rs, i, k)) ELSE rs[i]
  <2>1. To(rs, i, k) = To(rs, i, k - 1)
    BY <1>21 DEF To
  <2>2. s.regions[i] = IF i <= k - 1 THEN LaidOut(rs[i], From(rs, i), To(rs, i, k - 1)) ELSE rs[i]
    BY DEF Planned
  <2>3. i <= k <=> i <= k - 1
    BY <1>21
  <2> QED
    BY <1>15, <1>21, <2>1, <2>2, <2>3
<1>22. ASSUME ~shares \/ ~move, NEW F, F = [regions |-> R, prevEnd |-> top, fatal |-> FALSE]
       PROVE  Planned(rs, n, k, F)
  <2>1. F.regions = R /\ F.prevEnd = PageSize * Hi(rs[k]) /\ F = [regions |-> F.regions, prevEnd |-> F.prevEnd, fatal |-> F.fatal]
    BY <1>1, <1>3, <1>22
  <2>2. k > 1 => To(rs, k - 1, k) = Hi(rs[k - 1])
    <3>1. k > 1 => ~Moves(rs[k - 1], rs[k])
      BY <1>1, <1>6, <1>7, <1>22 DEF Moves
    <3>2. (k - 1) + 1 = k
      OBVIOUS
    <3> QED
      BY <3>1, <3>2 DEF To
  <2>3. ASSUME NEW i \in 1 .. n
        PROVE  R[i] = IF i <= k THEN LaidOut(rs[i], From(rs, i), To(rs, i, k)) ELSE rs[i]
    <3>1. CASE i = k
      BY <1>1, <1>8, <1>12, <1>15, <1>20, <3>1
    <3>2. CASE i = k - 1
      BY <1>5, <1>15, <2>2, <3>2
    <3> QED
      BY <1>21, <3>1, <3>2
  <2> QED
    BY <1>15, <2>1, <2>3 DEF Planned
<1>23. CASE ~shares
  <2>1. r = [regions |-> R, prevEnd |-> top, fatal |-> FALSE]
    BY <1>17, <1>19, <1>23
  <2> QED
    BY <1>22, <1>23, <2>1
<1>24. CASE shares /\ ~move
  <2>1. PICK b : b = (RoundUp(g.size) - (top - start) = PageSize)
    OBVIOUS
  <2>2. r = [placed EXCEPT !.fatal = b] /\ b \in BOOLEAN
    BY <1>19, <1>24, <2>1
  <2>3. r = [regions |-> R, prevEnd |-> top, fatal |-> b]
    BY <1>17, <2>2
  <2>4. ~(\A i \in 2 .. n : ~Keeps(rs[i - 1], rs[i]))
    <3>1. k \in 2 .. n /\ Keeps(rs[k - 1], rs[k])
      BY <1>1, <1>6, <1>7, <1>24 DEF Keeps
    <3> QED
      BY <3>1
  <2>5. ~r.fatal => r = [regions |-> R, prevEnd |-> top, fatal |-> FALSE]
    BY <2>2, <2>3
  <2> QED
    BY <1>22, <1>24, <2>2, <2>3, <2>4, <2>5
<1>25. CASE shares /\ move
  <2>1. PICK j, a, ja, f1, b : /\ j = k - 1 /\ a = rs[j] /\ ja = s.regions[j] /\ f1 = From(rs, j) /\ b = Hi(a)
    OBVIOUS
  <2>2. /\ k > 1 /\ j \in 1 .. n /\ j # k /\ a \in Region /\ ja = LaidOut(a, f1, b) /\ f1 \in Int /\ b \in Int
        /\ Moves(a, g) /\ ja \in Region
    <3>1. k > 1 /\ Shared(rs[k - 1], g) /\ cap_writes_check_move_frame(rs[k - 1], g)
      BY <1>6, <1>7, <1>25
    <3>2. j \in 1 .. n /\ j # k
      BY <2>1, <3>1
    <3> QED
      BY <1>5, <2>1, <3>1, <3>2, LaidFacts DEF Moves
  <2>3. ja.bytes = PageSize * b - PageSize * f1
    BY <2>2, LaidFacts
  <2>4. PICK y : y = LaidOut(a, f1, b - 1)
    OBVIOUS
  <2>5. y \in Region /\ y = WithoutLast(ja)
    <3>1. PICK c : c = b - 1
      OBVIOUS
    <3>2. c \in Int /\ b = c + 1
      BY <2>2, <3>1
    <3>3. PageSize * (c + 1) = PageSize * c + PageSize /\ PageSize * c \in Int /\ PageSize * f1 \in Int /\ PageSize \in Int
      BY <2>2, <3>2, Scaled, PageSizePositive
    <3>4. PICK C, B, F : C = PageSize * c /\ B = PageSize * b /\ F = PageSize * f1
      OBVIOUS
    <3>5. B - F - PageSize = C - F
      BY <3>2, <3>3, <3>4
    <3>6. y = [a EXCEPT !.start = F, !.bytes = C - F] /\ ja = [a EXCEPT !.start = F, !.bytes = B - F]
      BY <2>2, <2>4, <3>1, <3>4 DEF LaidOut
    <3>7. y = [ja EXCEPT !.bytes = (B - F) - PageSize]
      BY <2>2, <3>5, <3>6 DEF Region
    <3>8. ja.bytes = B - F
      BY <2>3, <3>4
    <3>9. y = WithoutLast(ja)
      BY <3>7, <3>8 DEF WithoutLast
    <3>10. y \in Region
      BY <2>2, <2>4, <3>1, <3>2, LaidFacts
    <3> QED
      BY <3>9, <3>10
  <2>6. PICK S : S = [R EXCEPT ![j] = y]
    OBVIOUS
  <2>7. S \in [1 .. n -> Region] /\ S[j] = y /\ \A i \in 1 .. n : i # j => S[i] = R[i]
    BY <1>15, <2>2, <2>5, <2>6
  <2>8. R[j] = ja
    BY <1>15, <2>1, <2>2
  <2>9. r = IF ja.bytes \in 0 .. PageSize - 1 THEN [s EXCEPT !.fatal = TRUE]
            ELSE [regions |-> S, prevEnd |-> top, fatal |-> FALSE]
    <3>1. r = IF ja.bytes \in 0 .. PageSize - 1 THEN [s EXCEPT !.fatal = TRUE]
              ELSE [placed EXCEPT !.regions[j] = WithoutLast(@)]
      BY <1>19, <1>25, <2>1
    <3>2. [placed EXCEPT !.regions[j] = WithoutLast(@)] = [placed EXCEPT !.regions = S]
      <4>1. placed.regions = R /\ WithoutLast(R[j]) = y
        BY <1>17, <2>5, <2>8
      <4>2. [R EXCEPT ![j] = WithoutLast(@)] = S
        BY <2>6, <4>1
      <4> QED
        BY <4>1, <4>2
    <3> QED
      BY <1>17, <3>1, <3>2
  <2>10. ASSUME ~(ja.bytes \in 0 .. PageSize - 1)
         PROVE  ~r.fatal /\ Planned(rs, n, k, r)
    <3>1. r = [regions |-> S, prevEnd |-> top, fatal |-> FALSE]
      BY <2>9, <2>10
    <3>2. To(rs, j, k) = b - 1
      <4>1. j < k /\ j + 1 = k /\ Moves(rs[j], rs[k])
        BY <1>1, <2>1, <2>2
      <4> QED
        BY <2>1, <4>1 DEF To
    <3>3. ASSUME NEW i \in 1 .. n
          PROVE  S[i] = IF i <= k THEN LaidOut(rs[i], From(rs, i), To(rs, i, k)) ELSE rs[i]
      <4>1. CASE i = k
        BY <1>1, <1>8, <1>12, <1>15, <1>20, <2>2, <2>7, <4>1
      <4>2. CASE i = j
        BY <2>1, <2>4, <2>7, <3>2, <4>2
      <4> QED
        BY <1>21, <2>1, <2>7, <4>1, <4>2
    <3>4. r.regions = S /\ r.prevEnd = PageSize * Hi(rs[k]) /\ r = [regions |-> r.regions, prevEnd |-> r.prevEnd, fatal |-> r.fatal]
      BY <1>1, <1>3, <3>1
    <3> QED
      BY <2>7, <3>1, <3>3, <3>4 DEF Planned
  <2>11. ASSUME ja.bytes \in 0 .. PageSize - 1
         PROVE  r.fatal = TRUE
    BY <2>9, <2>11 DEF Planned
  <2>12. ASSUME \A i \in 2 .. n : ~Keeps(rs[i - 1], rs[i])
         PROVE  ~(ja.bytes \in 0 .. PageSize - 1)
    <3>1. f1 = Lo(a)
      <4>1. j > 1 => ~Keeps(rs[j - 1], rs[j])
        BY <2>2, <2>12
      <4> QED
        BY <2>1, <4>1 DEF From
    <3>2. f1 < b
      BY <2>1, <2>2, <3>1, SegmentPages
    <3>3. PICK c : c = f1 + 1
      OBVIOUS
    <3>4. c \in Int /\ c <= b
      BY <2>2, <3>2, <3>3
    <3>5. PageSize * c <= PageSize * b /\ PageSize * c = PageSize * f1 + PageSize
      BY <2>2, <3>3, <3>4, Scaled
    <3>6. PageSize * b \in Int /\ PageSize * f1 \in Int /\ PageSize \in Int
      BY <2>2, Scaled, PageSizePositive
    <3> QED
      BY <2>3, <3>5, <3>6
  <2>13. CASE ja.bytes \in 0 .. PageSize - 1
    BY <2>11, <2>12, <2>13
  <2>14. CASE ~(ja.bytes \in 0 .. PageSize - 1)
    <3>1. r.fatal = FALSE
      BY <2>9, <2>14
    <3>2. Planned(rs, n, k, r)
      BY <2>10, <2>14
    <3> QED
      BY <3>1, <3>2
  <2> QED
    BY <2>13, <2>14
<1> QED
  BY <1>23, <1>24, <1>25

(* The turns of prepare_reservations. *)
LEMMA PrepareTurns ==
  ASSUME NEW rs, Len(rs) \in Nat
  PROVE  \E f : /\ f[0] = [regions |-> rs, prevEnd |-> 0, fatal |-> FALSE]
                /\ \A k \in 1 .. Len(rs) : f[k] = PrepareOne(f[k - 1], k)
                /\ prepare_reservations(rs) = f[Len(rs)]
<1> DEFINE n == Len(rs)
           s == [regions |-> rs, prevEnd |-> 0, fatal |-> FALSE]
           Turn(r, k) == PrepareOne(r, k)
           Turning(m, f) == f = [k \in 0 .. m |-> IF k = 0 THEN s ELSE Turn(f[k - 1], k)]
           A == {m \in 0 .. n : \E f : Turning(m, f)}
<1>1. PICK g : g = CHOOSE f : Turning(n, f)
  OBVIOUS
<1>2. prepare_reservations(rs) = g[n]
  BY <1>1 DEF prepare_reservations
<1>3. n \in Nat
  OBVIOUS
<1> HIDE DEF n, s, Turn
<1>4. 0 \in A
  <2>1. PICK f : f = [k \in 0 .. 0 |-> s]
    OBVIOUS
  <2>2. Turning(0, f)
    BY <2>1
  <2> QED
    BY <2>2, <1>3
<1>5. ASSUME NEW m \in 1 .. n, m - 1 \in A
      PROVE  m \in A
  <2>1. PICK f : Turning(m - 1, f)
    BY <1>5
  <2>2. PICK h : h = [k \in 0 .. m |-> IF k = m THEN Turn(f[m - 1], m) ELSE f[k]]
    OBVIOUS
  <2>3. ASSUME NEW k \in 0 .. m
        PROVE  h[k] = IF k = 0 THEN s ELSE Turn(h[k - 1], k)
    BY <1>3, <2>1, <2>2
  <2>4. Turning(m, h)
    BY <2>2, <2>3
  <2> QED
    BY <2>4
<1>6. n \in A
  <2> HIDE DEF A
  <2> QED
    BY <1>3, <1>4, <1>5, Climb
<1>7. Turning(n, g)
  BY <1>1, <1>6
<1>8. g[0] = s /\ \A k \in 1 .. n : g[k] = Turn(g[k - 1], k)
  BY <1>3, <1>7
<1> QED
  BY <1>2, <1>8 DEF n, s, Turn

(* All of them. *)
Prepared(rs, n, k, s) ==
  /\ s.fatal \in BOOLEAN
  /\ ~s.fatal => Planned(rs, n, k, s)
  /\ (\A i \in 2 .. n : ~Keeps(rs[i - 1], rs[i])) => ~s.fatal

LEMMA PrepareEffect ==
  ASSUME NEW n \in Nat, NEW rs, InOrder(rs, n), NEW r, r = prepare_reservations(rs)
  PROVE  Prepared(rs, n, n, r)
<1>1. Len(rs) = n
  BY DEF InOrder
<1>2. PICK f : /\ f[0] = [regions |-> rs, prevEnd |-> 0, fatal |-> FALSE]
               /\ \A k \in 1 .. n : f[k] = PrepareOne(f[k - 1], k)
               /\ r = f[n]
  BY <1>1, PrepareTurns
<1> DEFINE A == {k \in 0 .. n : Prepared(rs, n, k, f[k])}
<1>3. 0 \in A
  <2>1. PICK s : s = f[0]
    OBVIOUS
  <2>2. s.regions = rs /\ s.prevEnd = 0 /\ s.fatal = FALSE /\ s = [regions |-> s.regions, prevEnd |-> s.prevEnd, fatal |-> s.fatal]
    BY <1>2, <2>1
  <2>3. Planned(rs, n, 0, s)
    BY <2>2 DEF Planned, InOrder
  <2>4. Prepared(rs, n, 0, s)
    BY <2>2, <2>3 DEF Prepared
  <2> QED
    BY <2>1, <2>4
<1>4. ASSUME NEW k \in 1 .. n, k - 1 \in A
      PROVE  k \in A
  <2>1. PICK s, t : s = f[k - 1] /\ t = f[k]
    OBVIOUS
  <2>2. t = PrepareOne(s, k)
    BY <1>2, <2>1
  <2>3. Prepared(rs, n, k - 1, s)
    BY <1>4, <2>1
  <2>4. CASE s.fatal
    <3>1. t = s
      BY <2>2, <2>4 DEF PrepareOne
    <3>2. Prepared(rs, n, k, t)
      BY <2>3, <2>4, <3>1 DEF Prepared
    <3> QED
      BY <2>1, <3>2
  <2>5. CASE s.fatal = FALSE
    <3>1. Planned(rs, n, k - 1, s)
      BY <2>3, <2>5 DEF Prepared
    <3>2. Prepared(rs, n, k, t)
      BY <2>2, <2>5, <3>1, PrepareTurn DEF Prepared
    <3> QED
      BY <2>1, <3>2
  <2> QED
    BY <2>3, <2>4, <2>5 DEF Prepared
<1>5. n \in A
  <2>1. PICK B : B = A
    OBVIOUS
  <2> HIDE DEF A
  <2>2. 0 \in B /\ \A k \in 1 .. n : k - 1 \in B => k \in B
    BY <1>3, <1>4, <2>1
  <2>3. \A k \in 0 .. n : k \in B
    BY <2>2, Climb
  <2> QED
    BY <2>1, <2>3
<1> QED
  BY <1>2, <1>5

(* Every region of L is one of rs. *)
Picks(L, rs, n) == \A k \in 1 .. n : \E i \in 1 .. n : L[k] = rs[i]

(* Segments that do not overlap have as many below them as their place says. *)
LEMMA SortedEffect ==
  ASSUME NEW n \in Nat, NEW rs \in [1 .. n -> Region], ~Overlapping(rs), NEW L, L = Sorted(rs)
  PROVE  InOrder(L, n) /\ Picks(L, rs, n)
<1>1. Len(rs) = n
  OBVIOUS
<1>2. ASSUME NEW i \in 1 .. n
      PROVE  rs[i] \in Region /\ SegmentEnd(rs[i]) \in Int /\ rs[i].vstart \in Int /\ rs[i].vstart < SegmentEnd(rs[i])
  BY SegmentPages
<1>3. ASSUME NEW i \in 1 .. n, NEW j \in 1 .. n
      PROVE  /\ j \in Below(rs, i) <=> SegmentEnd(rs[j]) <= rs[i].vstart
             /\ i # j => j \in Below(rs, i) \/ i \in Below(rs, j)
  <2>1. ASSUME NEW a \in 1 .. n, NEW b \in 1 .. n
        PROVE  b \in Below(rs, a) <=> SegmentEnd(rs[b]) <= rs[a].vstart
    BY <1>1, <1>2 DEF Below, compare_regions
  <2>2. i # j => compare_regions(rs[i], rs[j]) # "fatal"
    BY <1>1 DEF Overlapping
  <2>3. i # j => SegmentEnd(rs[i]) <= rs[j].vstart \/ SegmentEnd(rs[j]) <= rs[i].vstart
    BY <2>2 DEF compare_regions
  <2> QED
    BY <2>1, <2>3
<1> DEFINE rank(i) == Cardinality(Below(rs, i))
<1>4. ASSUME NEW i \in 1 .. n
      PROVE  IsFiniteSet(Below(rs, i)) /\ rank(i) \in 0 .. n - 1
  <2>1. Below(rs, i) \subseteq 1 .. n /\ i \notin Below(rs, i)
    <3>1. i \notin Below(rs, i)
      BY <1>2, <1>3
    <3> QED
      BY <1>1, <3>1 DEF Below
  <2>2. PICK T, B : T = 1 .. n /\ B = Below(rs, i)
    OBVIOUS
  <2>3. PICK one : one = 1
    OBVIOUS
  <2>4. one \in Int /\ IsFiniteSet(one .. n) /\ Cardinality(one .. n) = IF one > n THEN 0 ELSE n - one + 1
    BY <2>3, FS_Interval
  <2>5. IsFiniteSet(T) /\ Cardinality(T) = n
    BY <2>2, <2>3, <2>4
  <2>6. B \in SUBSET T /\ B # T /\ i \in T
    BY <2>1, <2>2
  <2>7. IsFiniteSet(B) /\ Cardinality(B) <= Cardinality(T) /\ (Cardinality(B) = Cardinality(T) => B = T)
    BY <2>5, <2>6, FS_Subset
  <2>8. Cardinality(B) \in Nat
    BY <2>7, FS_CardinalityType
  <2> QED
    BY <2>2, <2>5, <2>6, <2>7, <2>8
<1>5. ASSUME NEW i \in 1 .. n, NEW j \in 1 .. n, i \in Below(rs, j)
      PROVE  rank(i) < rank(j)
  <2>1. PICK S, T : S = Below(rs, i) /\ T = Below(rs, j)
    OBVIOUS
  <2>2. S \subseteq T /\ i \in T /\ i \notin S
    <3>1. \A k \in S : k \in 1 .. n
      BY <1>1, <2>1 DEF Below
    <3>2. ASSUME NEW k \in S
          PROVE  k \in T
      <4>1. k \in 1 .. n
        BY <3>1
      <4>2. SegmentEnd(rs[k]) <= rs[i].vstart /\ SegmentEnd(rs[i]) <= rs[j].vstart
        BY <1>3, <1>5, <2>1, <4>1
      <4>3. SegmentEnd(rs[k]) <= rs[j].vstart
        BY <1>2, <4>1, <4>2
      <4> QED
        BY <1>3, <2>1, <4>1, <4>3
    <3>3. i \notin S
      BY <1>2, <1>3, <2>1
    <3> QED
      BY <1>5, <2>1, <3>2, <3>3
  <2>3. IsFiniteSet(T) /\ IsFiniteSet(S)
    BY <1>4, <2>1
  <2>4. Cardinality(S) <= Cardinality(T) /\ (Cardinality(S) = Cardinality(T) => S = T)
    BY <2>2, <2>3, FS_Subset
  <2>5. rank(i) \in Int /\ rank(j) \in Int
    BY <1>4
  <2> QED
    BY <2>1, <2>2, <2>4, <2>5
<1> HIDE DEF rank
<1>6. ASSUME NEW k \in 1 .. n
      PROVE  \E i \in 1 .. n : rank(i) = k - 1
  <2>1. PICK T : T = 1 .. n
    OBVIOUS
  <2>2. PICK f : f = [i \in T |-> rank(i) + 1]
    OBVIOUS
  <2>3. f \in Injection(T, T)
    <3>1. \A i \in T : rank(i) + 1 \in T
      <4> SUFFICES ASSUME NEW i \in 1 .. n
                   PROVE  rank(i) + 1 \in 1 .. n
        BY <2>1
      <4>1. rank(i) \in 0 .. n - 1
        BY <1>4 DEF rank
      <4> QED
        BY <4>1
    <3>2. f \in [T -> T]
      BY <2>2, <3>1
    <3>3. ASSUME NEW i \in T, NEW j \in T, f[i] = f[j]
          PROVE  i = j
      <4>1. rank(i) = rank(j) /\ rank(i) \in Int /\ rank(j) \in Int
        BY <1>4, <2>1, <2>2, <3>3 DEF rank
      <4> QED
        BY <1>3, <1>5, <2>1, <4>1
    <3> QED
      BY <3>2, <3>3 DEF Injection, IsInjective
  <2>4. PICK one : one = 1
    OBVIOUS
  <2>5. IsFiniteSet(T)
    BY <2>1, <2>4, FS_Interval
  <2>6. f \in Surjection(T, T)
    BY <2>3, <2>5, FS_Injection
  <2>7. \E i \in T : f[i] = k
    BY <2>1, <2>6 DEF Surjection
  <2>8. PICK i \in T : f[i] = k
    BY <2>7
  <2>9. i \in 1 .. n /\ rank(i) + 1 = k
    BY <2>1, <2>2, <2>8
  <2>10. rank(i) \in Int
    BY <1>4, <2>9 DEF rank
  <2> QED
    BY <2>9, <2>10
<1>7. PICK o : o = [k \in 1 .. n |-> CHOOSE i \in 1 .. n : rank(i) = k - 1]
  OBVIOUS
<1>8. \A k \in 1 .. n : o[k] \in 1 .. n /\ rank(o[k]) = k - 1
  BY <1>6, <1>7
<1>9. L = [k \in 1 .. n |-> rs[o[k]]]
  BY <1>1, <1>7 DEF Sorted, rank
<1>10. ASSUME NEW k \in 1 .. n, NEW l \in 1 .. n, k < l
       PROVE  SegmentEnd(L[k]) <= L[l].vstart
  <2>1. PICK i, j : i = o[k] /\ j = o[l]
    OBVIOUS
  <2>2. i \in 1 .. n /\ j \in 1 .. n /\ rank(i) = k - 1 /\ rank(j) = l - 1
    BY <1>8, <2>1
  <2>3. i # j /\ j \notin Below(rs, i)
    BY <1>5, <1>10, <2>2
  <2>4. SegmentEnd(rs[i]) <= rs[j].vstart
    BY <1>3, <2>2, <2>3
  <2> QED
    BY <1>9, <2>1, <2>4
<1>11. L \in [1 .. n -> Region]
  BY <1>8, <1>9
<1> QED
  BY <1>8, <1>9, <1>10, <1>11 DEF InOrder, Picks

(* A state of the loader. *)
LoadState(s) ==
  s = [regions |-> s.regions, res |-> s.res, map |-> s.map, mem |-> s.mem, slot |-> s.slot,
       err |-> s.err, fatal |-> s.fatal]

Apart(gs, n) ==
  \A i, j \in 1 .. n : i # j => PagesOfRegion(gs[i]) \cap PagesOfRegion(gs[j]) = {}

(* Reservations for the first k regions. *)
Created(gs, k, z, s) ==
  /\ LoadState(s) /\ s.regions = gs /\ s.map = z.map /\ s.mem = z.mem /\ s.slot = z.slot
  /\ s.fatal = FALSE /\ s.err \in BOOLEAN
  /\ ~s.err =>
       /\ DOMAIN s.res = {i \in 1 .. k : gs[i].bytes # 0}
       /\ \A i \in DOMAIN s.res : s.res[i] = PagesOfRegion(gs[i])
       /\ \A i, j \in DOMAIN s.res : i # j => PagesOfRegion(gs[i]) \cap PagesOfRegion(gs[j]) = {}

LEMMA CreateTurn ==
  ASSUME NEW n \in Nat, NEW gs \in [1 .. n -> Region], NEW k \in 1 .. n, NEW z, NEW s,
         Created(gs, k - 1, z, s), NEW fail, NEW r, r = CreateReservation(s, k, fail)
  PROVE  Created(gs, k, z, r) /\ (~s.err /\ fail # k /\ Apart(gs, n) => ~r.err)
<1>1. PICK g, P : g = gs[k] /\ P = PagesOfRegion(g)
  OBVIOUS
<1>2. s.regions[k] = g
  BY <1>1 DEF Created
<1>3. r = IF s.err \/ g.bytes = 0 THEN s
          ELSE IF k = fail \/ P \cap TakenPages(s) # {} THEN [s EXCEPT !.err = TRUE]
          ELSE [s EXCEPT !.res = Over(@, [j \in {k} |-> P])]
  BY <1>1, <1>2 DEF CreateReservation
<1>4. CASE s.err
  BY <1>3, <1>4 DEF Created
<1>5. CASE ~s.err /\ g.bytes = 0
  <2>1. r = s
    BY <1>3, <1>5
  <2>2. {i \in 1 .. k : gs[i].bytes # 0} = {i \in 1 .. k - 1 : gs[i].bytes # 0}
    BY <1>1, <1>5
  <2> QED
    BY <1>5, <2>1, <2>2 DEF Created
<1>6. ASSUME ~s.err, NEW i \in DOMAIN s.res
      PROVE  i \in 1 .. k - 1 /\ s.res[i] = PagesOfRegion(gs[i]) /\ PagesOfRegion(gs[i]) \subseteq TakenPages(s)
  BY <1>6 DEF Created, TakenPages
<1>7. CASE ~s.err /\ g.bytes # 0 /\ (k = fail \/ P \cap TakenPages(s) # {})
  <2>1. r = [s EXCEPT !.err = TRUE]
    BY <1>3, <1>7
  <2>2. Created(gs, k, z, r)
    BY <2>1 DEF Created, LoadState
  <2>3. ~(fail # k /\ Apart(gs, n))
    <3> SUFFICES ASSUME fail # k, Apart(gs, n)
                 PROVE  FALSE
      OBVIOUS
    <3>1. PICK p \in P : p \in TakenPages(s)
      BY <1>7
    <3>2. PICK i \in DOMAIN s.res : p \in s.res[i]
      BY <3>1 DEF TakenPages
    <3>3. i \in 1 .. k - 1 /\ p \in PagesOfRegion(gs[i])
      BY <1>6, <1>7, <3>2
    <3> QED
      BY <1>1, <3>1, <3>3 DEF Apart
  <2> QED
    BY <2>2, <2>3
<1>8. CASE ~s.err /\ g.bytes # 0 /\ k # fail /\ P \cap TakenPages(s) = {}
  <2>1. PICK V : V = Over(s.res, [j \in {k} |-> P])
    OBVIOUS
  <2>2. r = [s EXCEPT !.res = V]
    BY <1>3, <1>8, <2>1 DEF Created, LoadState
  <2>3. /\ r.res = V /\ r.regions = gs /\ r.map = z.map /\ r.mem = z.mem /\ r.slot = z.slot
        /\ r.fatal = FALSE /\ r.err = FALSE /\ LoadState(r)
    BY <1>8, <2>2 DEF Created, LoadState
  <2>4. k \notin DOMAIN s.res
    BY <1>6, <1>8
  <2>5. /\ DOMAIN V = DOMAIN s.res \cup {k} /\ V[k] = P
        /\ \A i \in DOMAIN s.res : V[i] = s.res[i]
    BY <2>1, <2>4 DEF Over
  <2>6. DOMAIN s.res = {i \in 1 .. k - 1 : gs[i].bytes # 0}
    BY <1>8 DEF Created
  <2>7. DOMAIN V = {i \in 1 .. k : gs[i].bytes # 0}
    BY <1>1, <1>8, <2>5, <2>6
  <2>8. ASSUME NEW i \in DOMAIN V
        PROVE  V[i] = PagesOfRegion(gs[i])
    BY <1>1, <1>6, <1>8, <2>5
  <2>9. ASSUME NEW i \in DOMAIN V, NEW j \in DOMAIN V, i # j
        PROVE  PagesOfRegion(gs[i]) \cap PagesOfRegion(gs[j]) = {}
    <3>1. CASE i = k
      BY <1>1, <1>6, <1>8, <2>5, <2>9, <3>1
    <3>2. CASE j = k
      BY <1>1, <1>6, <1>8, <2>5, <2>9, <3>2
    <3>3. CASE i # k /\ j # k
      BY <1>8, <2>5, <2>9, <3>3 DEF Created
    <3> QED
      BY <3>1, <3>2, <3>3
  <2> QED
    BY <2>3, <2>7, <2>8, <2>9 DEF Created
<1> QED
  BY <1>4, <1>5, <1>7, <1>8 DEF Created

(* The turns of create_reservations. *)
LEMMA CreateTurns ==
  ASSUME NEW s, NEW w, NEW fail, Len(s.regions) \in Nat
  PROVE  \E f : /\ f[0] = s
                /\ \A k \in 1 .. Len(s.regions) :
                     f[k] = IF w THEN ReserveAnywhere(f[k - 1], k, fail) ELSE CreateReservation(f[k - 1], k, fail)
                /\ create_reservations(s, w, fail) = f[Len(s.regions)]
<1> DEFINE n == Len(s.regions)
           Turn(r, k) == IF w THEN ReserveAnywhere(r, k, fail) ELSE CreateReservation(r, k, fail)
           Turning(m, f) ==
             f = [k \in 0 .. m |-> IF k = 0 THEN s
                                   ELSE IF w THEN ReserveAnywhere(f[k - 1], k, fail)
                                   ELSE CreateReservation(f[k - 1], k, fail)]
           A == {m \in 0 .. n : \E f : Turning(m, f)}
<1>1. PICK g : g = CHOOSE f : Turning(n, f)
  OBVIOUS
<1>2. create_reservations(s, w, fail) = g[n]
  BY <1>1 DEF create_reservations
<1>3. n \in Nat
  OBVIOUS
<1> HIDE DEF n
<1>4. 0 \in A
  <2>1. PICK f : f = [k \in 0 .. 0 |-> s]
    OBVIOUS
  <2>2. Turning(0, f)
    BY <2>1
  <2> QED
    BY <2>2, <1>3
<1>5. ASSUME NEW m \in 1 .. n, m - 1 \in A
      PROVE  m \in A
  <2>1. PICK f : Turning(m - 1, f)
    BY <1>5
  <2>2. PICK h : h = [k \in 0 .. m |-> IF k = m THEN Turn(f[m - 1], m) ELSE f[k]]
    OBVIOUS
  <2>3. ASSUME NEW k \in 0 .. m
        PROVE  h[k] = IF k = 0 THEN s ELSE Turn(h[k - 1], k)
    BY <1>3, <2>1, <2>2
  <2>4. Turning(m, h)
    BY <2>2, <2>3
  <2> QED
    BY <2>4
<1>6. n \in A
  <2>1. PICK B : B = A
    OBVIOUS
  <2> HIDE DEF A
  <2>2. 0 \in B /\ \A k \in 1 .. n : k - 1 \in B => k \in B
    BY <1>4, <1>5, <2>1
  <2>3. \A k \in 0 .. n : k \in B
    BY <1>3, <2>2, Climb
  <2> QED
    BY <1>3, <2>1, <2>3
<1>7. Turning(n, g)
  BY <1>1, <1>6
<1>8. g[0] = s /\ \A k \in 1 .. n : g[k] = Turn(g[k - 1], k)
  BY <1>3, <1>7
<1> QED
  BY <1>2, <1>8 DEF n

(* All of them. *)
LEMMA CreateEffect ==
  ASSUME NEW n \in Nat, NEW gs \in [1 .. n -> Region], NEW z, LoadState(z), z.regions = gs,
         z.res = <<>>, z.err = FALSE, z.fatal = FALSE, NEW fail,
         NEW r, r = create_reservations(z, FALSE, fail)
  PROVE  Created(gs, n, z, r) /\ (fail \notin 1 .. n /\ Apart(gs, n) => ~r.err)
<1>1. Len(z.regions) = n
  OBVIOUS
<1>2. PICK w : w = FALSE
  OBVIOUS
<1>3. r = create_reservations(z, w, fail) /\ Len(z.regions) \in Nat
  BY <1>1, <1>2
<1>4. PICK f : /\ f[0] = z
               /\ \A k \in 1 .. Len(z.regions) :
                     f[k] = IF w THEN ReserveAnywhere(f[k - 1], k, fail)
                                 ELSE CreateReservation(f[k - 1], k, fail)
               /\ create_reservations(z, w, fail) = f[Len(z.regions)]
  BY <1>1, CreateTurns
<1>5. /\ f[0] = z
      /\ \A k \in 1 .. n : f[k] = CreateReservation(f[k - 1], k, fail)
      /\ r = f[n]
  BY <1>1, <1>2, <1>3, <1>4
<1> DEFINE A == {k \in 0 .. n : Created(gs, k, z, f[k]) /\ (fail \notin 1 .. n /\ Apart(gs, n) => ~f[k].err)}
<1>6. 0 \in A
  <2>1. DOMAIN z.res = {}
    OBVIOUS
  <2>2. {i \in 1 .. 0 : gs[i].bytes # 0} = {}
    OBVIOUS
  <2>3. Created(gs, 0, z, z)
    BY <2>1, <2>2 DEF Created
  <2> QED
    BY <1>5, <2>3
<1>7. ASSUME NEW k \in 1 .. n, k - 1 \in A
      PROVE  k \in A
  <2>1. PICK s, t : s = f[k - 1] /\ t = f[k]
    OBVIOUS
  <2>2. t = CreateReservation(s, k, fail)
    BY <1>5, <2>1
  <2>3. Created(gs, k - 1, z, s) /\ (fail \notin 1 .. n /\ Apart(gs, n) => ~s.err)
    BY <1>7, <2>1
  <2>4. Created(gs, k, z, t) /\ (~s.err /\ fail # k /\ Apart(gs, n) => ~t.err)
    BY <2>2, <2>3, CreateTurn
  <2> QED
    BY <2>1, <2>3, <2>4
<1>8. n \in A
  <2>1. PICK B : B = A
    OBVIOUS
  <2> HIDE DEF A
  <2>2. 0 \in B /\ \A k \in 1 .. n : k - 1 \in B => k \in B
    BY <1>6, <1>7, <2>1
  <2>3. \A k \in 0 .. n : k \in B
    BY <2>2, Climb
  <2> QED
    BY <2>1, <2>3
<1> QED
  BY <1>5, <1>8

(* The addresses of a segment, and what the file has for it. *)
Seg(g) == g.vstart .. SegmentEnd(g) - 1
File(g) == image[g.segment].file

(* Segments that do not overlap, in the memory there is. *)
Loadable(gs, n) ==
  /\ gs \in [1 .. n -> Region]
  /\ \A i \in 1 .. n : SegmentEnd(gs[i]) <= NumPages * PageSize /\ File(gs[i]) \in Nat
  /\ \A i, j \in 1 .. n : i # j => Seg(gs[i]) \cap Seg(gs[j]) = {}

(* A byte of a segment. *)
Byte(g, a, s) ==
  /\ a \div PageSize \in DOMAIN s.map
  /\ a - g.vstart < File(g) => s.mem[a] = <<g.segment, a - g.vstart>>

(* The segments before i are loaded, and the first m pages of i. *)
Loading(gs, n, V, i, m, s) ==
  /\ LoadState(s) /\ s.regions = gs /\ s.res = V /\ s.fatal = FALSE /\ s.err \in BOOLEAN
  /\ ~s.err =>
       /\ Addresses \subseteq DOMAIN s.mem
       /\ \A p \in DOMAIN s.map : s.map[p] \in DOMAIN V /\ p \in V[s.map[p]]
       /\ \A j \in 1 .. n : \A a \in Seg(gs[j]) :
            /\ a - gs[j].vstart >= File(gs[j]) => s.mem[a] = Zero
            /\ j < i \/ (j = i /\ a \div PageSize < Lo(gs[i]) + m) => Byte(gs[j], a, s)

(* The address at which the m-th page of a segment is filled. *)
LEMMA PageStart ==
  ASSUME NEW g \in Region, NEW m \in 1 .. Hi(g) - Lo(g), NEW p, p = Lo(g) + m - 1,
         NEW d, d = IF m = 1 THEN g.vstart ELSE p * PageSize
  PROVE  /\ d \in Seg(g) /\ d \div PageSize = p /\ p \in Nat /\ RoundDown(d) = PageSize * p
         /\ PageSize * p \in Int /\ PageSize * p <= d
         /\ \A a \in Seg(g) : a \div PageSize = p => a >= d /\ a < PageSize * p + PageSize
<1>1. PICK v, e, l, h : v = g.vstart /\ e = SegmentEnd(g) /\ l = Lo(g) /\ h = Hi(g)
  OBVIOUS
<1>2. /\ v \in Nat /\ e \in Nat /\ l \in Nat /\ h \in Nat /\ v < e /\ l < h
      /\ PageSize * l <= v /\ v < PageSize * l + PageSize /\ PageSize * h < e + PageSize
  BY <1>1, SegmentPages
<1>3. p \in Nat /\ l <= p /\ p + 1 <= h /\ (m = 1 => p = l) /\ (m # 1 => l + 1 <= p)
  BY <1>1, <1>2
<1>4. PICK P, L, H, q : P = PageSize * p /\ L = PageSize * l /\ H = PageSize * h /\ q = p + 1
  OBVIOUS
<1>5. /\ P \in Int /\ L \in Int /\ H \in Int /\ PageSize \in Nat \ {0} /\ p * PageSize = P
      /\ PageSize * q = P + PageSize /\ PageSize * (l + 1) = L + PageSize
  <2>1. PageSize * p \in Int /\ p * PageSize = PageSize * p /\ PageSize * (p + 1) = PageSize * p + PageSize
    BY <1>3, Scaled
  <2>2. PageSize * l \in Int /\ PageSize * (l + 1) = PageSize * l + PageSize
    BY <1>2, Scaled
  <2>3. PageSize * h \in Int
    BY <1>2, Scaled
  <2> QED
    BY <1>4, <2>1, <2>2, <2>3, PageSizePositive
<1>6. P + PageSize <= H
  <2>1. q \in Int /\ q <= h
    BY <1>3, <1>4
  <2>2. PageSize * q <= PageSize * h
    BY <1>2, <2>1, Scaled
  <2> QED
    BY <1>4, <1>5, <2>2
<1>7. P < e
  BY <1>1, <1>2, <1>4, <1>5, <1>6
<1>8. ASSUME NEW a \in v .. e - 1, a \div PageSize = p
      PROVE  P <= a /\ a < P + PageSize
  <2>1. a \in Int
    BY <1>2
  <2> QED
    BY <1>4, <1>8, <2>1, PageOf
<1>9. d \in v .. e - 1 /\ P <= d /\ d \div PageSize = p /\ \A a \in v .. e - 1 : a \div PageSize = p => a >= d
  <2>1. CASE m = 1
    <3>1. d = v /\ P = L
      BY <1>1, <1>3, <1>4, <2>1
    <3>2. d \in Int /\ P <= d /\ d < P + PageSize
      BY <1>1, <1>2, <1>4, <3>1
    <3>3. d \div PageSize = p
      BY <1>3, <1>4, <3>2, PageIs
    <3>4. \A a \in v .. e - 1 : a >= d
      BY <1>2, <3>1
    <3> QED
      BY <1>2, <3>1, <3>2, <3>3, <3>4
  <2>2. CASE m # 1
    <3>1. d = P
      BY <1>5, <2>2
    <3>2. PICK b : b = l + 1
      OBVIOUS
    <3>3. b \in Int /\ b <= p
      BY <1>2, <1>3, <2>2, <3>2
    <3>4. PageSize * b <= PageSize * p
      BY <1>3, <3>3, Scaled
    <3>5. v < P
      BY <1>1, <1>2, <1>4, <1>5, <3>2, <3>4
    <3>6. d \div PageSize = p
      BY <1>3, <1>4, <1>5, <3>1, PageIs
    <3> QED
      BY <1>2, <1>5, <1>7, <1>8, <3>1, <3>5, <3>6
  <2> QED
    BY <2>1, <2>2
<1>10. Seg(g) = v .. e - 1
  BY <1>1 DEF Seg
<1>11. RoundDown(d) = P
  BY <1>2, <1>4, <1>9, PageOf
<1>12. \A a \in Seg(g) : a \div PageSize = p => a >= d /\ a < PageSize * p + PageSize
  BY <1>4, <1>8, <1>9, <1>10
<1> QED
  BY <1>3, <1>4, <1>5, <1>9, <1>10, <1>11, <1>12

(* The frame for a page. *)
LEMMA FrameEffect ==
  ASSUME NEW gs, NEW n \in Nat, NEW V, NEW i, NEW m, NEW s, Loading(gs, n, V, i, m, s), ~s.err,
         NEW r, NEW p, NEW fails \in BOOLEAN,
         NEW t, t = IF r = 0 THEN [s EXCEPT !.err = TRUE]
                    ELSE IF p \in DOMAIN s.map THEN s ELSE NewPageIn(s, r, p, fails)
  PROVE  /\ Loading(gs, n, V, i, m, t)
         /\ ~t.err => p \in DOMAIN t.map
         /\ r # 0 /\ r \in DOMAIN V /\ p \in V[r] /\ ~fails => ~t.err
<1>1. LoadState(s) /\ s.err = FALSE /\ s.res = V
  BY DEF Loading
<1>2. PICK u : u = [s EXCEPT !.err = TRUE]
  OBVIOUS
<1>3. Loading(gs, n, V, i, m, u) /\ u.err = TRUE
  BY <1>1, <1>2 DEF Loading, LoadState
<1>4. CASE r = 0
  BY <1>2, <1>3, <1>4
<1>5. CASE r # 0 /\ p \in DOMAIN s.map
  BY <1>1, <1>5
<1>6. CASE r # 0 /\ p \notin DOMAIN s.map /\ (fails \/ r \notin DOMAIN V \/ p \notin V[r])
  <2>1. t = u
    BY <1>1, <1>2, <1>6 DEF NewPageIn
  <2> QED
    BY <1>3, <1>6, <2>1
<1>7. CASE r # 0 /\ p \notin DOMAIN s.map /\ ~(fails \/ r \notin DOMAIN V \/ p \notin V[r])
  <2>1. PICK M : M = Over(s.map, [q \in {p} |-> r])
    OBVIOUS
  <2>2. t = [s EXCEPT !.map = M]
    BY <1>1, <1>7, <2>1 DEF NewPageIn, LoadState
  <2>3. /\ LoadState(t) /\ t.regions = gs /\ t.res = V /\ t.fatal = FALSE /\ t.err = FALSE
        /\ t.mem = s.mem /\ t.map = M
    BY <1>1, <2>2 DEF Loading, LoadState
  <2>4. DOMAIN M = DOMAIN s.map \cup {p} /\ M[p] = r /\ \A q \in DOMAIN s.map : M[q] = s.map[q]
    BY <1>7, <2>1 DEF Over
  <2>5. \A q \in DOMAIN M : M[q] \in DOMAIN V /\ q \in V[M[q]]
    BY <1>1, <1>7, <2>4 DEF Loading
  <2>6. \A j \in 1 .. n : \A a \in Seg(gs[j]) : Byte(gs[j], a, s) => Byte(gs[j], a, t)
    BY <2>3, <2>4 DEF Byte
  <2> QED
    BY <1>1, <2>3, <2>4, <2>5, <2>6 DEF Loading
<1> QED
  BY <1>1, <1>4, <1>5, <1>6, <1>7

(* The m-th page of a segment, and where it is filled from. *)
Target(gs, n, i, m, g, p, d) ==
  /\ Loadable(gs, n) /\ i \in 1 .. n /\ g = gs[i] /\ File(g) <= g.size
  /\ m \in 1 .. Hi(g) - Lo(g) /\ p = Lo(g) + m - 1
  /\ d = IF m = 1 THEN g.vstart ELSE p * PageSize

(* What is copied into a page is what the file has for it. *)
LEMMA CopyPageEffect ==
  ASSUME NEW n \in Nat, NEW gs, NEW i, NEW m, NEW g, NEW p, NEW d, Target(gs, n, i, m, g, p, d),
         NEW V, NEW k, k = m - 1, NEW s, Loading(gs, n, V, i, k, s), ~s.err, p \in DOMAIN s.map,
         NEW r, r = CopyPage(s, g, File(g), d)
  PROVE  Loading(gs, n, V, i, m, r) /\ ~r.err
<1>1. /\ i \in 1 .. n /\ g = gs[i] /\ Loadable(gs, n) /\ File(g) <= g.size
      /\ m \in 1 .. Hi(g) - Lo(g) /\ p = Lo(g) + m - 1
      /\ d = IF m = 1 THEN g.vstart ELSE p * PageSize
  BY DEF Target
<1> USE <1>1
<1>2. g \in Region /\ File(g) \in Nat /\ SegmentEnd(g) <= NumPages * PageSize
  BY DEF Loadable
<1>3. /\ d \in Seg(g) /\ d \div PageSize = p /\ p \in Nat /\ RoundDown(d) = PageSize * p
      /\ PageSize * p \in Int /\ PageSize * p <= d
      /\ \A a \in Seg(g) : a \div PageSize = p => a >= d /\ a < PageSize * p + PageSize
  BY <1>2, PageStart
<1>4. PICK v, e, f, P : v = g.vstart /\ e = SegmentEnd(g) /\ f = File(g) /\ P = PageSize * p
  OBVIOUS
<1>5. /\ v \in Nat /\ e = v + g.size /\ g.size \in Nat /\ f \in Nat /\ f <= g.size /\ P \in Int
      /\ Seg(g) = v .. e - 1 /\ d \in v .. e - 1 /\ PageSize \in Nat \ {0} /\ P <= d
  BY <1>2, <1>3, <1>4, PageSizePositive DEF Region, SegmentEnd, Seg
<1>6. PICK C : C = {a \in d .. P + PageSize - 1 : a - v < f}
  OBVIOUS
<1>7. C \subseteq Seg(g) /\ \A a \in Seg(g) : a \div PageSize = p /\ a - v < f => a \in C
  <2>1. ASSUME NEW a \in C
        PROVE  a \in v .. e - 1
    <3>1. PICK z, u : z = g.size /\ u = P + PageSize - 1
      OBVIOUS
    <3>2. z \in Nat /\ f <= z /\ e = v + z /\ u \in Int /\ d \in Int /\ v <= d
      BY <1>5, <3>1
    <3>3. a \in d .. u /\ a - v < f
      BY <1>6, <3>1
    <3>4. a \in Int /\ d <= a
      BY <3>2, <3>3
    <3>5. a < v + f /\ v \in Nat /\ f \in Nat
      BY <1>5, <3>3, <3>4
    <3>6. v <= a /\ a < e
      BY <3>2, <3>4, <3>5
    <3> QED
      BY <1>5, <3>2, <3>4, <3>6
  <2>2. ASSUME NEW a \in Seg(g), a \div PageSize = p, a - v < f
        PROVE  a \in C
    <3>1. a \in v .. e - 1 /\ a >= d /\ a < PageSize * p + PageSize
      BY <1>3, <1>5, <2>2
    <3>2. a >= d /\ a < P + PageSize /\ a \in Int
      BY <1>4, <1>5, <3>1
    <3> QED
      BY <1>5, <1>6, <2>2, <3>2
  <2> QED
    BY <1>5, <2>1, <2>2
<1>8. PICK w : w = [a \in C |-> <<g.segment, a - v>>]
  OBVIOUS
<1>9. PICK M : M = Over(s.mem, w)
  OBVIOUS
<1>10. r = [s EXCEPT !.mem = M]
  <2>1. Copied(g, File(g), d) = C
    BY <1>3, <1>4, <1>6 DEF Copied
  <2>2. [a \in Copied(g, File(g), d) |-> <<g.segment, a - g.vstart>>] = w
    BY <1>4, <1>8, <2>1
  <2> QED
    BY <1>9, <2>2 DEF CopyPage
<1>11. /\ LoadState(r) /\ r.regions = gs /\ r.res = V /\ r.fatal = FALSE /\ r.err = FALSE
       /\ r.mem = M /\ r.map = s.map
  BY <1>10 DEF Loading, LoadState
<1>12. /\ DOMAIN M = DOMAIN s.mem \cup C /\ \A a \in C : M[a] = <<g.segment, a - v>>
       /\ \A a \in DOMAIN s.mem : a \notin C => M[a] = s.mem[a]
  <2>1. DOMAIN w = C /\ \A a \in C : w[a] = <<g.segment, a - v>>
    BY <1>8
  <2> HIDE <1>8
  <2> QED
    BY <1>9, <2>1 DEF Over
<1>13. Addresses \subseteq DOMAIN M /\ \A j \in 1 .. n : Seg(gs[j]) \subseteq DOMAIN s.mem
  <2>1. Addresses \subseteq DOMAIN s.mem
    BY DEF Loading
  <2>2. ASSUME NEW j \in 1 .. n
        PROVE  Seg(gs[j]) \subseteq Addresses
    <3>1. PICK h : h = gs[j] /\ h \in Region /\ SegmentEnd(h) <= NumPages * PageSize
      BY DEF Loadable
    <3>2. PICK T : T = NumPages * PageSize
      OBVIOUS
    <3>3. h.vstart \in Nat /\ SegmentEnd(h) \in Nat /\ SegmentEnd(h) <= T /\ T \in Int
      BY <3>1, <3>2, SegmentPages, PageSizePositive
    <3>4. Addresses = 0 .. T - 1
      BY <3>2 DEF Addresses
    <3> QED
      BY <3>1, <3>3, <3>4 DEF Seg
  <2> QED
    BY <1>12, <2>1, <2>2
<1>14. ASSUME NEW j \in 1 .. n, NEW a \in Seg(gs[j])
       PROVE  /\ a - gs[j].vstart >= File(gs[j]) => M[a] = Zero
              /\ j < i \/ (j = i /\ a \div PageSize < Lo(gs[i]) + m) => Byte(gs[j], a, r)
  <2>1. PICK h : h = gs[j]
    OBVIOUS
  <2>2. /\ a - h.vstart >= File(h) => s.mem[a] = Zero
        /\ j < i \/ (j = i /\ a \div PageSize < Lo(gs[i]) + (m - 1)) => Byte(h, a, s)
    BY <2>1 DEF Loading
  <2>3. a \in DOMAIN s.mem
    BY <1>13
  <2>4. CASE j # i
    <3>1. a \notin C
      <4>1. Seg(gs[i]) \cap Seg(gs[j]) = {}
        BY <2>4 DEF Loadable
      <4> QED
        BY <1>7, <4>1
    <3>2. M[a] = s.mem[a]
      BY <1>12, <2>3, <3>1
    <3> QED
      BY <1>11, <2>1, <2>2, <2>4, <3>2 DEF Byte
  <2>5. CASE j = i
    <3>1. h = g /\ a \in Seg(g)
      BY <2>1, <2>5
    <3>2. a \in Int /\ a \div PageSize \in Int
      BY <1>5, <3>1, PageOf
    <3>3. a - v >= f => M[a] = Zero
      <4>1. a - v >= f => a \notin C
        BY <1>5, <1>6, <3>2
      <4> QED
        BY <1>4, <1>12, <2>2, <2>3, <3>1, <4>1
    <3>4. a \div PageSize = p => Byte(g, a, r)
      BY <1>4, <1>7, <1>11, <1>12, <3>1 DEF Byte
    <3>5. a \div PageSize < Lo(g) + (m - 1) => Byte(g, a, r)
      <4>1. a \div PageSize < Lo(g) + (m - 1) => Byte(g, a, s)
        BY <2>2, <2>5, <3>1
      <4>2. Byte(g, a, s) => Byte(g, a, r)
        BY <1>4, <1>11, <1>12, <2>3 DEF Byte
      <4> QED
        BY <4>1, <4>2
    <3>6. Lo(g) \in Int
      BY <1>2, SegmentPages
    <3>7. a \div PageSize < Lo(g) + m => a \div PageSize = p \/ a \div PageSize < Lo(g) + (m - 1)
      BY <3>2, <3>6
    <3> QED
      BY <1>4, <2>5, <3>1, <3>3, <3>4, <3>5, <3>7
  <2> QED
    BY <2>4, <2>5
<1> QED
  BY <1>11, <1>13, <1>14 DEF Loading

(* Where a page of a segment comes from when nothing fails. *)
Provided(gs, n, V) ==
  \A i \in 1 .. n : \A p \in Lo(gs[i]) .. Hi(gs[i]) - 1 : \A d \in Seg(gs[i]) : d \div PageSize = p =>
    \A s : s.regions = gs =>
      LET r == ReservationFor(s, i, p, d - gs[i].vstart) IN r # 0 /\ r \in DOMAIN V /\ p \in V[r]

(* One page of load_segment. *)
LEMMA LoadPageEffect ==
  ASSUME NEW n \in Nat, NEW gs, NEW i, NEW m, NEW g, NEW p, NEW d, Target(gs, n, i, m, g, p, d),
         NEW V, NEW k, k = m - 1, NEW s, Loading(gs, n, V, i, k, s), NEW fault,
         NEW r, r = LoadPage(s, i, d, fault)
  PROVE  /\ Loading(gs, n, V, i, m, r)
         /\ ~s.err /\ fault.op = "none" /\ Provided(gs, n, V) => ~r.err
<1>1. /\ i \in 1 .. n /\ g = gs[i] /\ Loadable(gs, n) /\ File(g) <= g.size
      /\ m \in 1 .. Hi(g) - Lo(g) /\ p = Lo(g) + m - 1
      /\ d = IF m = 1 THEN g.vstart ELSE p * PageSize
  BY DEF Target
<1>2. g \in Region /\ s.regions[i] = g /\ s.regions = gs
  BY <1>1 DEF Loadable, Loading
<1>3. d \in Seg(g) /\ d \div PageSize = p /\ p \in Nat
  BY <1>1, <1>2, PageStart
<1>4. PICK c : c = ReservationFor(s, i, p, d - g.vstart)
  OBVIOUS
<1>5. PICK t : t = IF c = 0 THEN [s EXCEPT !.err = TRUE]
                   ELSE IF p \in DOMAIN s.map THEN s
                   ELSE NewPageIn(s, c, p, fault = [op |-> "frame", page |-> p])
  OBVIOUS
<1>6. r = IF s.err THEN s
          ELSE IF t.err \/ fault = [op |-> "copy", page |-> p] THEN [t EXCEPT !.err = TRUE]
          ELSE IF fault = [op |-> "map", page |-> p] THEN [t EXCEPT !.err = TRUE, !.slot = "dirty"]
          ELSE CopyPage(t, g, File(g), d)
  BY <1>2, <1>3, <1>4, <1>5 DEF LoadPage, File
<1>7. CASE s.err
  BY <1>6, <1>7 DEF Loading
<1>8. CASE ~s.err
  <2>1. PICK b : b = (fault = [op |-> "frame", page |-> p])
    OBVIOUS
  <2>2. b \in BOOLEAN /\ t = IF c = 0 THEN [s EXCEPT !.err = TRUE]
                             ELSE IF p \in DOMAIN s.map THEN s ELSE NewPageIn(s, c, p, b)
    BY <1>5, <2>1
  <2>3. /\ Loading(gs, n, V, i, k, t)
        /\ ~t.err => p \in DOMAIN t.map
        /\ c # 0 /\ c \in DOMAIN V /\ p \in V[c] /\ ~b => ~t.err
    BY <1>8, <2>2, FrameEffect
  <2>4. Loading(gs, n, V, i, k, t) /\ LoadState(t) /\ t.regions = gs /\ t.res = V /\ t.fatal = FALSE
    BY <2>3 DEF Loading
  <2> DEFINE fails == t.err \/ fault = [op |-> "copy", page |-> p] \/ fault = [op |-> "map", page |-> p]
  <2>5. ASSUME fails
        PROVE  Loading(gs, n, V, i, m, r)
    <3>1. r = [t EXCEPT !.err = TRUE] \/ r = [t EXCEPT !.err = TRUE, !.slot = "dirty"]
      BY <1>6, <1>8, <2>5
    <3>2. LoadState(r) /\ r.regions = gs /\ r.res = V /\ r.fatal = FALSE /\ r.err = TRUE
      BY <2>4, <3>1 DEF LoadState
    <3> QED
      BY <3>2 DEF Loading
  <2>6. ASSUME ~fails
        PROVE  Loading(gs, n, V, i, m, r) /\ ~r.err
    <3>1. r = CopyPage(t, g, File(g), d) /\ ~t.err /\ p \in DOMAIN t.map
      BY <1>6, <1>8, <2>3, <2>6
    <3> QED
      BY <2>4, <3>1, CopyPageEffect
  <2>7. ASSUME fault.op = "none", Provided(gs, n, V)
        PROVE  ~fails
    <3>1. fault # [op |-> "copy", page |-> p] /\ fault # [op |-> "map", page |-> p] /\ fault # [op |-> "frame", page |-> p]
      BY <2>7
    <3>2. ~b
      BY <2>1, <3>1
    <3>3. p \in Lo(gs[i]) .. Hi(gs[i]) - 1
      BY <1>1, <1>2, SegmentPages
    <3>4. c # 0 /\ c \in DOMAIN V /\ p \in V[c]
      BY <1>1, <1>2, <1>3, <1>4, <2>7, <3>3 DEF Provided
    <3> QED
      BY <2>3, <3>1, <3>2, <3>4
  <2> HIDE DEF fails
  <2> QED
    BY <2>5, <2>6, <2>7
<1> QED
  BY <1>7, <1>8

(* The turns of load_segment. *)
LEMMA PageTurns ==
  ASSUME NEW s, NEW i, NEW fault, NEW g, g = s.regions[i], g \in Region, NEW N, N = Hi(g) - Lo(g),
         NEW r, r = load_segment(s, i, fault)
  PROVE  \E f : /\ f[0] = [s EXCEPT !.slot = "busy"]
                /\ \A k \in 1 .. N :
                     f[k] = LoadPage(f[k - 1], i, IF k = 1 THEN g.vstart ELSE (Lo(g) + k - 1) * PageSize, fault)
                /\ r = IF File(g) > g.size \/ fault.op = "slot" THEN [s EXCEPT !.err = TRUE]
                       ELSE Freed(f[N])
<1> DEFINE G == s.regions[i]
           first == G.vstart \div PageSize
           last == (SegmentEnd(G) - 1) \div PageSize - first + 1
           from == [s EXCEPT !.slot = "busy"]
           Turn(t, k) == LoadPage(t, i, IF k = 1 THEN G.vstart ELSE (first + k - 1) * PageSize, fault)
           Turning(m, f) == f = [k \in 0 .. m |-> IF k = 0 THEN from ELSE Turn(f[k - 1], k)]
           A == {m \in 0 .. N : \E f : Turning(m, f)}
<1>1. PICK h : h = CHOOSE f : Turning(last, f)
  OBVIOUS
<1>2. r = IF image[G.segment].file > G.size \/ fault.op = "slot" THEN [s EXCEPT !.err = TRUE]
          ELSE Freed(h[last])
  BY <1>1 DEF load_segment
<1>3. N \in Nat /\ last = N
  <2>1. PICK l, d : l = g.vstart \div PageSize /\ d = (SegmentEnd(g) - 1) \div PageSize
    OBVIOUS
  <2>2. Lo(g) = l /\ Hi(g) = d + 1 /\ last = d - l + 1
    BY <2>1 DEF Lo, Hi
  <2>3. Lo(g) \in Nat /\ Hi(g) \in Nat /\ Lo(g) < Hi(g)
    BY SegmentPages
  <2>4. d \in Int
    <3>1. SegmentEnd(g) - 1 \in Int
      BY SegmentPages
    <3>2. PICK x : x = SegmentEnd(g) - 1
      OBVIOUS
    <3> QED
      BY <2>1, <3>1, <3>2, PageOf
  <2> QED
    BY <2>2, <2>3, <2>4
<1>4. first = Lo(g)
  BY DEF Lo
<1> HIDE DEF last, from, Turn
<1>5. 0 \in A
  <2>1. PICK f : f = [k \in 0 .. 0 |-> from]
    OBVIOUS
  <2>2. Turning(0, f)
    BY <2>1
  <2> QED
    BY <2>2, <1>3
<1>6. ASSUME NEW m \in 1 .. N, m - 1 \in A
      PROVE  m \in A
  <2>1. PICK f : Turning(m - 1, f)
    BY <1>6
  <2>2. PICK e : e = [k \in 0 .. m |-> IF k = m THEN Turn(f[m - 1], m) ELSE f[k]]
    OBVIOUS
  <2>3. ASSUME NEW k \in 0 .. m
        PROVE  e[k] = IF k = 0 THEN from ELSE Turn(e[k - 1], k)
    BY <1>3, <2>1, <2>2
  <2>4. Turning(m, e)
    BY <2>2, <2>3
  <2> QED
    BY <2>4
<1>7. N \in A
  <2>1. PICK B : B = A
    OBVIOUS
  <2> HIDE DEF A
  <2>2. 0 \in B /\ \A k \in 1 .. N : k - 1 \in B => k \in B
    BY <1>5, <1>6, <2>1
  <2>3. \A k \in 0 .. N : k \in B
    BY <1>3, <2>2, Climb
  <2> QED
    BY <1>3, <2>1, <2>3
<1>8. Turning(N, h)
  BY <1>1, <1>3, <1>7
<1>9. h[0] = from /\ \A k \in 1 .. N : h[k] = Turn(h[k - 1], k)
  BY <1>3, <1>8
<1>10. \A k \in 1 .. N :
         h[k] = LoadPage(h[k - 1], i, IF k = 1 THEN g.vstart ELSE (Lo(g) + k - 1) * PageSize, fault)
  BY <1>4, <1>9 DEF Turn
<1>11. r = IF File(g) > g.size \/ fault.op = "slot" THEN [s EXCEPT !.err = TRUE]
           ELSE Freed(h[N])
  BY <1>2, <1>3 DEF File
<1> QED
  BY <1>9, <1>10, <1>11 DEF from

(* What loading needs, if nothing fails. *)
Complete(gs, n, V, fault) ==
  /\ Provided(gs, n, V) /\ fault.op = "none" /\ \A i \in 1 .. n : File(gs[i]) <= gs[i].size

(* All pages of a segment. *)
Loads(gs, n, V, fault, i, m, s) ==
  Loading(gs, n, V, i, m, s) /\ (Complete(gs, n, V, fault) => ~s.err)

LEMMA LoadSegmentEffect ==
  ASSUME NEW n \in Nat, NEW gs, Loadable(gs, n), NEW V, NEW i \in 1 .. n, NEW fault,
         NEW s, Loads(gs, n, V, fault, i, 0, s), NEW r, r = load_segment(s, i, fault), NEW l, l = i + 1
  PROVE  Loads(gs, n, V, fault, l, 0, r)
<1>1. PICK g, N, z : g = gs[i] /\ N = Hi(g) - Lo(g) /\ z = 0
  OBVIOUS
<1>2. g \in Region /\ s.regions[i] = g /\ LoadState(s) /\ N \in Nat /\ Loading(gs, n, V, i, z, s)
      /\ s.regions = gs /\ s.res = V /\ s.fatal = FALSE
  <2>1. g \in Region /\ s.regions[i] = g /\ LoadState(s) /\ Loading(gs, n, V, i, z, s)
        /\ s.regions = gs /\ s.res = V /\ s.fatal = FALSE
    BY <1>1 DEF Loadable, Loading, Loads
  <2>2. Lo(g) \in Nat /\ Hi(g) \in Nat /\ Lo(g) < Hi(g)
    BY <2>1, SegmentPages
  <2> QED
    BY <1>1, <2>1, <2>2
<1>3. PICK f : /\ f[0] = [s EXCEPT !.slot = "busy"]
               /\ \A k \in 1 .. N :
                    f[k] = LoadPage(f[k - 1], i, IF k = 1 THEN g.vstart ELSE (Lo(g) + k - 1) * PageSize, fault)
               /\ r = IF File(g) > g.size \/ fault.op = "slot" THEN [s EXCEPT !.err = TRUE]
                      ELSE Freed(f[N])
  BY <1>1, <1>2, PageTurns
<1>4. CASE File(g) > g.size \/ fault.op = "slot"
  <2>1. r = [s EXCEPT !.err = TRUE]
    BY <1>3, <1>4
  <2>2. LoadState(r) /\ r.regions = gs /\ r.res = V /\ r.fatal = FALSE /\ r.err = TRUE
    BY <1>2, <2>1 DEF LoadState
  <2>3. ~Complete(gs, n, V, fault)
    <3> SUFFICES ASSUME Complete(gs, n, V, fault)
                 PROVE  FALSE
      OBVIOUS
    <3>1. fault.op = "none" /\ File(g) <= g.size
      BY <1>1 DEF Complete
    <3>2. File(g) \in Int /\ g.size \in Int
      BY <1>1, <1>2 DEF Loadable, Region
    <3> QED
      BY <1>4, <3>1, <3>2
  <2> QED
    BY <2>2, <2>3 DEF Loading, Loads
<1>5. CASE ~(File(g) > g.size \/ fault.op = "slot")
  <2> DEFINE A == {k \in 0 .. N : Loads(gs, n, V, fault, i, k, f[k])}
  <2>1. File(g) <= g.size
    <3>1. File(g) \in Int /\ g.size \in Int
      BY <1>1, <1>2 DEF Loadable, Region
    <3> QED
      BY <1>5, <3>1
  <2>2. 0 \in A
    <3>1. PICK t : t = f[0]
      OBVIOUS
    <3>2. t = [s EXCEPT !.slot = "busy"]
      BY <1>3, <3>1
    <3>3. /\ LoadState(t) /\ t.regions = s.regions /\ t.res = s.res /\ t.map = s.map /\ t.mem = s.mem
          /\ t.err = s.err /\ t.fatal = s.fatal
      BY <1>2, <3>2 DEF LoadState
    <3>4. Loading(gs, n, V, i, 0, t)
      <4>1. Loading(gs, n, V, i, 0, s)
        BY <1>1, <1>2
      <4>2. \A g1, a : Byte(g1, a, s) <=> Byte(g1, a, t)
        BY <3>3 DEF Byte
      <4> QED
        BY <3>3, <4>1, <4>2 DEF Loading
    <3>5. Loads(gs, n, V, fault, i, 0, t)
      BY <3>3, <3>4 DEF Loads
    <3> QED
      BY <1>2, <3>1, <3>5
  <2>3. ASSUME NEW k \in 1 .. N, k - 1 \in A
        PROVE  k \in A
    <3>1. PICK t, u, d : t = f[k - 1] /\ u = f[k] /\ d = IF k = 1 THEN g.vstart ELSE (Lo(g) + k - 1) * PageSize
      OBVIOUS
    <3>2. u = LoadPage(t, i, d, fault)
      BY <1>3, <3>1
    <3>3. PICK p, y : p = Lo(g) + k - 1 /\ y = k - 1
      OBVIOUS
    <3>4. Target(gs, n, i, k, g, p, d)
      BY <1>1, <2>1, <3>1, <3>3 DEF Target
    <3>5. Loading(gs, n, V, i, y, t) /\ (Complete(gs, n, V, fault) => ~t.err)
      BY <2>3, <3>1, <3>3 DEF Loads
    <3>6. /\ Loading(gs, n, V, i, k, u)
          /\ ~t.err /\ fault.op = "none" /\ Provided(gs, n, V) => ~u.err
      BY <3>2, <3>5, <3>3, <3>4, LoadPageEffect
    <3>7. Loads(gs, n, V, fault, i, k, u)
      BY <3>5, <3>6 DEF Complete, Loads
    <3> QED
      BY <3>1, <3>7
  <2>4. Loads(gs, n, V, fault, i, N, f[N])
    <3>1. PICK B : B = A
      OBVIOUS
    <3>2. N \in 0 .. N
      BY <1>2
    <3>3. N \in A
      <4> HIDE DEF A
      <4>1. 0 \in B /\ \A k \in 1 .. N : k - 1 \in B => k \in B
        BY <2>2, <2>3, <3>1
      <4>2. \A k \in 0 .. N : k \in B
        BY <1>2, <4>1, Climb
      <4> QED
        BY <3>1, <3>2, <4>2
    <3> QED
      BY <3>3
  <2>5. PICK t : t = f[N]
    OBVIOUS
  <2>6. Loading(gs, n, V, i, N, t) /\ (Complete(gs, n, V, fault) => ~t.err) /\ LoadState(t)
    BY <2>4, <2>5 DEF Loading, Loads
  <2>7. r = [t EXCEPT !.slot = IF @ = "busy" THEN "free" ELSE @]
    BY <1>3, <1>5, <2>5 DEF Freed
  <2>8. /\ LoadState(r) /\ r.regions = t.regions /\ r.res = t.res /\ r.map = t.map /\ r.mem = t.mem
        /\ r.err = t.err /\ r.fatal = t.fatal
    BY <2>6, <2>7 DEF LoadState
  <2>9. ASSUME ~t.err, NEW j \in 1 .. n, NEW a \in Seg(gs[j]), j < l \/ (j = l /\ a \div PageSize < Lo(gs[l]) + 0)
        PROVE  Byte(gs[j], a, r)
    <3>1. PICK h, q : h = gs[j] /\ q = a \div PageSize
      OBVIOUS
    <3>2. h \in Region /\ a \in h.vstart .. SegmentEnd(h) - 1
      BY <3>1 DEF Loadable, Seg
    <3>3. q \in Lo(h) .. Hi(h) - 1 /\ Lo(h) \in Int /\ Hi(h) \in Int
      BY <3>1, <3>2, SegmentPages
    <3>4. j # l
      BY <2>9, <3>1, <3>3
    <3>5. j < i \/ (j = i /\ q < Lo(gs[i]) + N)
      <4>1. j <= i
        BY <2>9, <3>4
      <4>2. j = i => q < Lo(g) + N
        BY <1>1, <3>1, <3>3
      <4> QED
        BY <1>1, <4>1, <4>2
    <3>6. Byte(gs[j], a, t)
      BY <2>6, <2>9, <3>1, <3>5 DEF Loading
    <3> QED
      BY <2>8, <3>6 DEF Byte
  <2>10. Loading(gs, n, V, l, 0, r)
    BY <2>6, <2>8, <2>9 DEF Loading
  <2> QED
    BY <2>6, <2>8, <2>10 DEF Loads
<1> QED
  BY <1>4, <1>5

(* The turns of load_segments. *)
LEMMA SegmentTurns ==
  ASSUME NEW s, NEW fault, Len(s.regions) \in Nat
  PROVE  \E f : /\ f[0] = s
                /\ \A k \in 1 .. Len(s.regions) :
                     f[k] = IF f[k - 1].err THEN f[k - 1] ELSE load_segment(f[k - 1], k, fault)
                /\ load_segments(s, fault) = f[Len(s.regions)]
<1> DEFINE n == Len(s.regions)
           Turn(r, k) == IF r.err THEN r ELSE load_segment(r, k, fault)
           Turning(m, f) ==
             f = [k \in 0 .. m |-> IF k = 0 THEN s
                                   ELSE IF f[k - 1].err THEN f[k - 1] ELSE load_segment(f[k - 1], k, fault)]
           A == {m \in 0 .. n : \E f : Turning(m, f)}
<1>1. PICK g : g = CHOOSE f : Turning(n, f)
  OBVIOUS
<1>2. load_segments(s, fault) = g[n]
  BY <1>1 DEF load_segments
<1>3. n \in Nat
  OBVIOUS
<1> HIDE DEF n
<1>4. 0 \in A
  <2>1. PICK f : f = [k \in 0 .. 0 |-> s]
    OBVIOUS
  <2>2. Turning(0, f)
    BY <2>1
  <2> QED
    BY <2>2, <1>3
<1>5. ASSUME NEW m \in 1 .. n, m - 1 \in A
      PROVE  m \in A
  <2>1. PICK f : Turning(m - 1, f)
    BY <1>5
  <2>2. PICK h : h = [k \in 0 .. m |-> IF k = m THEN Turn(f[m - 1], m) ELSE f[k]]
    OBVIOUS
  <2>3. ASSUME NEW k \in 0 .. m
        PROVE  h[k] = IF k = 0 THEN s ELSE Turn(h[k - 1], k)
    BY <1>3, <2>1, <2>2
  <2>4. Turning(m, h)
    BY <2>2, <2>3
  <2> QED
    BY <2>4
<1>6. n \in A
  <2>1. PICK B : B = A
    OBVIOUS
  <2> HIDE DEF A
  <2>2. 0 \in B /\ \A k \in 1 .. n : k - 1 \in B => k \in B
    BY <1>4, <1>5, <2>1
  <2>3. \A k \in 0 .. n : k \in B
    BY <1>3, <2>2, Climb
  <2> QED
    BY <1>3, <2>1, <2>3
<1>7. Turning(n, g)
  BY <1>1, <1>6
<1>8. g[0] = s /\ \A k \in 1 .. n : g[k] = Turn(g[k - 1], k)
  BY <1>3, <1>7
<1> QED
  BY <1>2, <1>8 DEF n

(* All segments. *)
LEMMA LoadSegmentsEffect ==
  ASSUME NEW n \in Nat, NEW gs, Loadable(gs, n), NEW V, NEW fault,
         NEW s, Loads(gs, n, V, fault, 1, 0, s), NEW r, r = load_segments(s, fault), NEW l, l = n + 1
  PROVE  Loads(gs, n, V, fault, l, 0, r)
<1>1. s.regions = gs /\ Len(s.regions) = n
  BY DEF Loads, Loading, Loadable
<1>2. PICK g : /\ g[0] = s
               /\ \A k \in 1 .. Len(s.regions) :
                    g[k] = IF g[k - 1].err THEN g[k - 1] ELSE load_segment(g[k - 1], k, fault)
               /\ load_segments(s, fault) = g[Len(s.regions)]
  BY <1>1, SegmentTurns
<1>3. /\ g[0] = s /\ r = g[n]
      /\ \A k \in 1 .. n : g[k] = IF g[k - 1].err THEN g[k - 1] ELSE load_segment(g[k - 1], k, fault)
  BY <1>1, <1>2
<1> DEFINE A == {k \in 0 .. n : Loads(gs, n, V, fault, k + 1, 0, g[k])}
<1>4. 0 \in A
  BY <1>3
<1>5. ASSUME NEW k \in 1 .. n, k - 1 \in A
      PROVE  k \in A
  <2>1. PICK t, u, m : t = g[k - 1] /\ u = g[k] /\ m = k + 1
    OBVIOUS
  <2>2. Loads(gs, n, V, fault, k, 0, t)
    <3>1. (k - 1) + 1 = k
      OBVIOUS
    <3> QED
      BY <1>5, <2>1, <3>1
  <2>3. u = IF t.err THEN t ELSE load_segment(t, k, fault)
    BY <1>3, <2>1
  <2>4. Loads(gs, n, V, fault, m, 0, u)
    <3>1. CASE t.err
      <4>1. u = t
        BY <2>3, <3>1
      <4> QED
        BY <2>2, <3>1, <4>1 DEF Loads, Loading
    <3>2. CASE ~t.err
      <4>1. u = load_segment(t, k, fault)
        BY <2>3, <3>2
      <4> QED
        BY <2>1, <2>2, <4>1, LoadSegmentEffect
    <3> QED
      BY <3>1, <3>2
  <2> QED
    BY <2>1, <2>4
<1>6. n \in A
  <2>1. PICK B : B = A
    OBVIOUS
  <2> HIDE DEF A
  <2>2. 0 \in B /\ \A k \in 1 .. n : k - 1 \in B => k \in B
    BY <1>4, <1>5, <2>1
  <2>3. \A k \in 0 .. n : k \in B
    BY <2>2, Climb
  <2> QED
    BY <2>1, <2>3
<1> QED
  BY <1>3, <1>6

(* The pages of a reservation, by number. *)
LEMMA PagesFromTo ==
  ASSUME NEW g \in Region, NEW f \in Int, NEW t \in Int, NEW x, x = LaidOut(g, f, t)
  PROVE  PagesOfRegion(x) = {p \in PageNumbers : f <= p /\ p < t}
<1>1. x.start = PageSize * f /\ x.bytes = PageSize * t - PageSize * f
  BY LaidFacts
<1>2. PageSize * f \in Int /\ PageSize * t \in Int
  BY PageSizePositive
<1>3. PICK a, b : a = PageSize * f /\ b = PageSize * t
  OBVIOUS
<1>4. a \in Int /\ b \in Int /\ x.start = a /\ x.start + x.bytes = b
  BY <1>1, <1>2, <1>3
<1>5. ASSUME NEW p \in PageNumbers
      PROVE  (x.start <= p * PageSize /\ p * PageSize < x.start + x.bytes) <=> (f <= p /\ p < t)
  <2>1. p \in Int
    BY PageSizePositive DEF PageNumbers
  <2>2. (f <= p <=> PageSize * f <= PageSize * p) /\ p * PageSize = PageSize * p
    BY <2>1, Scaled
  <2>3. p < t <=> PageSize * p < PageSize * t
    BY <2>1, Scaled
  <2> QED
    BY <1>3, <1>4, <2>2, <2>3
<1> QED
  BY <1>5 DEF PagesOfRegion

(* Regions with their reservations. *)
Laid(L, n, gs) ==
  /\ InOrder(L, n) /\ gs \in [1 .. n -> Region]
  /\ \A i \in 1 .. n : gs[i] = LaidOut(L[i], From(L, i), To(L, i, n))

(* The segments, in order; with their reservations they are what they were, *)
(* and a reservation is a range of page numbers.                            *)
Proper(L, n) ==
  \A i \in 1 .. n : L[i] \in Region /\ Lo(L[i]) \in Int /\ Hi(L[i]) \in Int /\ Lo(L[i]) < Hi(L[i])

SameAs(L, gs, n) ==
  \A i \in 1 .. n :
    /\ gs[i].write = L[i].write /\ gs[i].vstart = L[i].vstart /\ gs[i].size = L[i].size
    /\ gs[i].segment = L[i].segment /\ SegmentEnd(gs[i]) = SegmentEnd(L[i])
    /\ Lo(gs[i]) = Lo(L[i]) /\ Hi(gs[i]) = Hi(L[i])

Spans(L, gs, n) ==
  \A i \in 1 .. n :
    /\ PagesOfRegion(gs[i]) = {p \in PageNumbers : From(L, i) <= p /\ p < To(L, i, n)}
    /\ From(L, i) \in Int /\ To(L, i, n) \in Int
    /\ gs[i].start = PageSize * From(L, i)
    /\ gs[i].bytes = PageSize * To(L, i, n) - PageSize * From(L, i)

LEMMA LaidSegment ==
  ASSUME NEW n \in Nat, NEW L, NEW gs, Laid(L, n, gs)
  PROVE  Proper(L, n)
<1> SUFFICES ASSUME NEW i \in 1 .. n
             PROVE  L[i] \in Region /\ Lo(L[i]) \in Int /\ Hi(L[i]) \in Int /\ Lo(L[i]) < Hi(L[i])
  BY DEF Proper
<1>1. PICK g : g = L[i]
  OBVIOUS
<1>2. g \in Region
  BY <1>1 DEF Laid, InOrder
<1> QED
  BY <1>1, <1>2, SegmentPages

LEMMA LaidSame ==
  ASSUME NEW n \in Nat, NEW L, NEW gs, Laid(L, n, gs)
  PROVE  SameAs(L, gs, n)
<1> SUFFICES ASSUME NEW i \in 1 .. n
             PROVE  /\ gs[i].write = L[i].write /\ gs[i].vstart = L[i].vstart /\ gs[i].size = L[i].size
                    /\ gs[i].segment = L[i].segment /\ SegmentEnd(gs[i]) = SegmentEnd(L[i])
                    /\ Lo(gs[i]) = Lo(L[i]) /\ Hi(gs[i]) = Hi(L[i])
  BY DEF SameAs
<1>1. L[i] \in Region /\ InOrder(L, n)
  BY DEF Laid, InOrder
<1>2. From(L, i) \in Int /\ To(L, i, n) \in Int
  BY <1>1, PlanFacts
<1>3. PICK a, f, t, x : a = L[i] /\ f = From(L, i) /\ t = To(L, i, n) /\ x = gs[i]
  OBVIOUS
<1>4. x = LaidOut(a, f, t)
  BY <1>3 DEF Laid
<1>5. /\ x.vstart = a.vstart /\ x.size = a.size /\ x.write = a.write /\ x.segment = a.segment
      /\ SegmentEnd(x) = SegmentEnd(a) /\ Lo(x) = Lo(a) /\ Hi(x) = Hi(a)
  BY <1>1, <1>2, <1>3, <1>4, LaidFacts
<1> QED
  BY <1>3, <1>5

LEMMA LaidSpan ==
  ASSUME NEW n \in Nat, NEW L, NEW gs, Laid(L, n, gs)
  PROVE  Spans(L, gs, n)
<1> SUFFICES ASSUME NEW i \in 1 .. n
             PROVE  /\ PagesOfRegion(gs[i]) = {p \in PageNumbers : From(L, i) <= p /\ p < To(L, i, n)}
                    /\ From(L, i) \in Int /\ To(L, i, n) \in Int
                    /\ gs[i].start = PageSize * From(L, i)
                    /\ gs[i].bytes = PageSize * To(L, i, n) - PageSize * From(L, i)
  BY DEF Spans
<1>1. L[i] \in Region /\ InOrder(L, n)
  BY DEF Laid, InOrder
<1>2. From(L, i) \in Int /\ To(L, i, n) \in Int
  BY <1>1, PlanFacts
<1>3. PICK a, f, t, x : a = L[i] /\ f = From(L, i) /\ t = To(L, i, n) /\ x = gs[i]
  OBVIOUS
<1>4. x = LaidOut(a, f, t)
  BY <1>3 DEF Laid
<1>5. PagesOfRegion(x) = {p \in PageNumbers : f <= p /\ p < t}
  BY <1>1, <1>2, <1>3, <1>4, PagesFromTo
<1>6. x.start = PageSize * f /\ x.bytes = PageSize * t - PageSize * f
  BY <1>1, <1>2, <1>3, <1>4, LaidFacts
<1> QED
  BY <1>2, <1>3, <1>5, <1>6

(* How the pages of two segments lie, one above the other. *)
LEMMA PagesBetween ==
  ASSUME NEW n \in Nat, NEW L, InOrder(L, n), NEW i \in 1 .. n, NEW j \in 1 .. n, i < j
  PROVE  Hi(L[i]) - 1 <= Lo(L[j]) /\ Lo(L[i]) <= Lo(L[j]) /\ Hi(L[i]) <= Hi(L[j])
<1>1. PICK g, h : g = L[i] /\ h = L[j]
  OBVIOUS
<1>2. g \in Region /\ h \in Region /\ SegmentEnd(g) <= h.vstart
  BY <1>1 DEF InOrder
<1> QED
  BY <1>1, <1>2, PagesInOrder

(* A page with a byte of a writable segment has a frame that can be written. *)
LEMMA WritablePages ==
  ASSUME NEW n \in Nat, NEW L, NEW gs, Laid(L, n, gs), Apart(gs, n), NEW i \in 1 .. n, NEW r \in 1 .. n,
         NEW p \in Lo(gs[i]) .. Hi(gs[i]) - 1, gs[i].write, p \in PagesOfRegion(gs[r])
  PROVE  gs[r].write
<1>0. Proper(L, n) /\ SameAs(L, gs, n) /\ Spans(L, gs, n)
  BY LaidSegment, LaidSame, LaidSpan
<1> SUFFICES ASSUME ~gs[r].write
             PROVE  FALSE
  OBVIOUS
<1>1. InOrder(L, n)
  BY DEF Laid
<1> DEFINE lo(k) == Lo(L[k])
           hi(k) == Hi(L[k])
           w(k) == L[k].write
<1>2. ASSUME NEW k \in 1 .. n
      PROVE  /\ lo(k) \in Int /\ hi(k) \in Int /\ lo(k) < hi(k) /\ gs[k].write = w(k) /\ w(k) \in BOOLEAN
             /\ PagesOfRegion(gs[k]) = {q \in PageNumbers : From(L, k) <= q /\ q < To(L, k, n)}
  <2>1. L[k].write \in BOOLEAN
    BY <1>1 DEF InOrder, Region
  <2>2. lo(k) \in Int /\ hi(k) \in Int /\ lo(k) < hi(k)
    BY <1>0 DEF Proper
  <2>3. gs[k].write = w(k)
    BY <1>0 DEF SameAs
  <2>4. PagesOfRegion(gs[k]) = {q \in PageNumbers : From(L, k) <= q /\ q < To(L, k, n)}
    BY <1>0 DEF Spans
  <2> QED
    BY <2>1, <2>2, <2>3, <2>4
<1>3. ASSUME NEW k \in 1 .. n, NEW l \in 1 .. n, k < l
      PROVE  hi(k) - 1 <= lo(l) /\ lo(k) <= lo(l) /\ hi(k) <= hi(l)
  BY <1>1, <1>3, PagesBetween
<1>4. p \in Int /\ lo(i) <= p /\ p < hi(i) /\ w(i) /\ ~w(r)
  <2>1. Lo(gs[i]) = lo(i) /\ Hi(gs[i]) = hi(i)
    BY <1>0 DEF SameAs
  <2> QED
    BY <1>2, <2>1
<1>5. p \in PageNumbers /\ From(L, r) <= p /\ p < To(L, r, n)
  BY <1>2
<1>6. ASSUME NEW k \in 2 .. n
      PROVE  From(L, k) = IF hi(k - 1) > lo(k) /\ ~(~w(k - 1) /\ w(k)) THEN hi(k - 1) + 1 ELSE lo(k)
  BY DEF From, Keeps, Shared, cap_writes_check_move_frame
<1>7. From(L, 1) = lo(1)
  BY DEF From
<1>8. ASSUME NEW k \in 1 .. n
      PROVE  To(L, k, n) = IF k < n /\ hi(k) > lo(k + 1) /\ ~w(k) /\ w(k + 1) THEN hi(k) - 1 ELSE hi(k)
  BY DEF To, Moves, Shared, cap_writes_check_move_frame
<1> HIDE DEF lo, hi, w
<1>9. i # r
  BY <1>4
<1>10. CASE i < r
  <2>1. PICK j : j = r - 1
    OBVIOUS
  <2>2. r \in 2 .. n /\ j \in 1 .. n /\ i <= j /\ j < r
    BY <1>10, <2>1
  <2>3. From(L, r) = IF hi(j) > lo(r) /\ ~(~w(j) /\ w(r)) THEN hi(j) + 1 ELSE lo(r)
    BY <1>6, <2>1, <2>2
  <2>4. hi(i) <= hi(j) /\ hi(i) - 1 <= lo(r)
    <3>1. i = j \/ i < j
      BY <2>2
    <3> QED
      BY <1>2, <1>3, <1>10, <2>2, <3>1
  <2>5. hi(i) \in Int /\ hi(j) \in Int /\ lo(r) \in Int
    BY <1>2, <2>2
  <2>6. From(L, r) = lo(r) /\ ~(hi(j) > lo(r))
    BY <1>4, <1>5, <2>3, <2>4, <2>5
  <2> QED
    BY <1>4, <1>5, <2>4, <2>5, <2>6
<1>11. CASE r < i
  <2>1. PICK j : j = r + 1
    OBVIOUS
  <2>2. j \in 1 .. n /\ r < j /\ j <= i /\ r < n
    BY <1>11, <2>1
  <2>3. To(L, r, n) = IF hi(r) > lo(j) /\ ~w(r) /\ w(j) THEN hi(r) - 1 ELSE hi(r)
    BY <1>8, <2>1, <2>2
  <2>4. hi(r) - 1 <= lo(i) /\ lo(j) <= lo(i)
    <3>1. i = j \/ j < i
      BY <2>2
    <3> QED
      BY <1>2, <1>3, <1>11, <2>2, <3>1
  <2>5. hi(r) \in Int /\ lo(i) \in Int /\ lo(j) \in Int
    BY <1>2, <2>2
  <2>6. To(L, r, n) = hi(r) /\ p = hi(r) - 1 /\ lo(i) = p /\ ~w(j)
    <3>1. hi(r) > lo(j)
      <4>1. p < hi(r)
        BY <1>5, <2>3, <2>5
      <4> QED
        BY <1>4, <2>4, <2>5, <4>1
    <3>2. hi(r) - 1 <= p
      BY <1>4, <2>4, <2>5
    <3>3. To(L, r, n) = hi(r)
      BY <1>5, <2>3, <2>5, <3>2
    <3>4. p = hi(r) - 1 /\ lo(i) = p
      BY <1>4, <1>5, <2>4, <2>5, <3>3
    <3>5. ~w(j)
      BY <1>4, <2>3, <2>5, <3>1, <3>3
    <3> QED
      BY <3>3, <3>4, <3>5
  <2>7. PICK S : S = {k \in 1 .. n : r < k /\ w(k)}
    OBVIOUS
  <2>8. S \in SUBSET Nat /\ i \in S
    BY <1>4, <1>11, <2>7
  <2>9. PICK k \in S : \A y \in S : k <= y
    BY <2>8, LeastNat
  <2>10. k \in 1 .. n /\ r < k /\ w(k) /\ k <= i /\ k # j
    BY <2>6, <2>7, <2>8, <2>9
  <2>11. PICK m : m = k - 1
    OBVIOUS
  <2>12. m \in 1 .. n /\ r < m /\ m < k /\ k \in 2 .. n
    BY <2>1, <2>2, <2>10, <2>11
  <2>13. ~w(m)
    BY <2>7, <2>9, <2>12
  <2>14. lo(k) <= lo(i) /\ hi(r) - 1 <= lo(k) /\ lo(k) < hi(k)
    <3>1. k = i \/ k < i
      BY <2>10
    <3> QED
      BY <1>2, <1>3, <2>10, <3>1
  <2>15. lo(k) \in Int /\ hi(k) \in Int
    BY <1>2, <2>10
  <2>16. lo(k) = p /\ p < hi(k)
    BY <2>5, <2>6, <2>14, <2>15
  <2>17. From(L, k) = lo(k)
    BY <1>6, <2>10, <2>11, <2>12, <2>13
  <2>18. To(L, k, n) = hi(k)
    BY <1>8, <2>10
  <2>19. p \in PagesOfRegion(gs[k])
    BY <1>2, <1>4, <1>5, <2>10, <2>16, <2>17, <2>18
  <2> QED
    BY <2>10, <2>19 DEF Apart
<1> QED
  BY <1>9, <1>10, <1>11

(* No reservation keeps a page that it shares with the one above. *)
Yields(L, n) == \A i \in 2 .. n : ~Keeps(L[i - 1], L[i])

LEMMA YieldedPages ==
  ASSUME NEW n \in Nat, NEW L, NEW gs, Laid(L, n, gs), Yields(L, n), NEW i \in 1 .. n
  PROVE  /\ From(L, i) = Lo(L[i])
         /\ To(L, i, n) = Hi(L[i]) \/ (i < n /\ Moves(L[i], L[i + 1]) /\ To(L, i, n) = Hi(L[i]) - 1)
         /\ i < n /\ Shared(L[i], L[i + 1]) => Moves(L[i], L[i + 1]) /\ To(L, i, n) = Hi(L[i]) - 1
<1>1. From(L, i) = Lo(L[i])
  <2>1. i > 1 => ~Keeps(L[i - 1], L[i])
    BY DEF Yields
  <2> QED
    BY <2>1 DEF From
<1>2. i < n => ~Keeps(L[i], L[i + 1])
  <2>1. PICK j : j = i + 1
    OBVIOUS
  <2>2. i < n => j \in 2 .. n /\ j - 1 = i
    BY <2>1
  <2>3. j \in 2 .. n => ~Keeps(L[j - 1], L[j])
    BY DEF Yields
  <2> QED
    BY <2>1, <2>2, <2>3
<1>3. i < n /\ Shared(L[i], L[i + 1]) => Moves(L[i], L[i + 1])
  BY <1>2 DEF Keeps, Moves
<1> QED
  BY <1>1, <1>3 DEF To

(* Then no two reservations claim the same page ... *)
LEMMA YieldsApart ==
  ASSUME NEW n \in Nat, NEW L, NEW gs, Laid(L, n, gs), Yields(L, n)
  PROVE  Apart(gs, n)
<1>0. Proper(L, n) /\ Spans(L, gs, n)
  BY LaidSegment, LaidSpan
<1>1. ASSUME NEW i \in 1 .. n, NEW j \in 1 .. n, i < j
      PROVE  PagesOfRegion(gs[i]) \cap PagesOfRegion(gs[j]) = {}
  <2>1. InOrder(L, n)
    BY DEF Laid
  <2>2. PICK k : k = i + 1
    OBVIOUS
  <2>3. k \in 1 .. n /\ i < k /\ (k = j \/ k < j) /\ i < n
    BY <1>1, <2>2
  <2>4. Lo(L[k]) <= Lo(L[j])
    <3>1. CASE k = j
      BY <1>0, <3>1 DEF Proper
    <3>2. CASE k < j
      BY <2>1, <2>3, <3>2, PagesBetween
    <3> QED
      BY <2>3, <3>1, <3>2
  <2>5. Hi(L[i]) - 1 <= Lo(L[j])
    BY <1>1, <2>1, PagesBetween
  <2>6. /\ Hi(L[i]) \in Int /\ Lo(L[j]) \in Int /\ Lo(L[k]) \in Int
    BY <1>0, <2>3 DEF Proper
  <2>7. /\ From(L, j) = Lo(L[j]) /\ (To(L, i, n) = Hi(L[i]) \/ To(L, i, n) = Hi(L[i]) - 1)
        /\ Shared(L[i], L[k]) => To(L, i, n) = Hi(L[i]) - 1
    BY <2>2, <2>3, YieldedPages
  <2>8. To(L, i, n) <= From(L, j)
    <3>1. ~(Hi(L[i]) > Lo(L[k])) => Hi(L[i]) <= Lo(L[j])
      BY <2>4, <2>6
    <3>2. Hi(L[i]) > Lo(L[k]) => To(L, i, n) = Hi(L[i]) - 1
      BY <2>7 DEF Shared
    <3> QED
      BY <2>5, <2>6, <2>7, <3>1, <3>2
  <2>9. PICK f, t : f = From(L, j) /\ t = To(L, i, n)
    OBVIOUS
  <2>10. f \in Int /\ t \in Int /\ t <= f
    BY <1>0, <2>8, <2>9 DEF Spans
  <2>11. PagesOfRegion(gs[i]) = {p \in PageNumbers : From(L, i) <= p /\ p < t}
    BY <1>0, <2>9 DEF Spans
  <2>12. PagesOfRegion(gs[j]) = {p \in PageNumbers : f <= p /\ p < To(L, j, n)}
    BY <1>0, <2>9 DEF Spans
  <2>13. \A p \in PageNumbers : p \in Int
    BY PageSizePositive DEF PageNumbers
  <2> QED
    BY <2>10, <2>11, <2>12, <2>13
<1>2. ASSUME NEW i \in 1 .. n, NEW j \in 1 .. n, i # j
      PROVE  PagesOfRegion(gs[i]) \cap PagesOfRegion(gs[j]) = {}
  <2>1. CASE i < j
    BY <1>1, <2>1
  <2>2. CASE j < i
    <3>1. PagesOfRegion(gs[j]) \cap PagesOfRegion(gs[i]) = {}
      BY <1>1, <2>2
    <3> QED
      BY <3>1
  <2> QED
    BY <1>2, <2>1, <2>2
<1> QED
  BY <1>2 DEF Apart

(* ... and every page is in the reservation it is taken from. *)
LEMMA YieldsServe ==
  ASSUME NEW n \in Nat, NEW L, NEW gs, Laid(L, n, gs), Yields(L, n), Loadable(gs, n),
         NEW V, DOMAIN V = {i \in 1 .. n : gs[i].bytes # 0}, \A i \in DOMAIN V : V[i] = PagesOfRegion(gs[i])
  PROVE  Provided(gs, n, V)
<1>0. Proper(L, n) /\ SameAs(L, gs, n) /\ Spans(L, gs, n)
  BY LaidSegment, LaidSame, LaidSpan
<1> SUFFICES ASSUME NEW i \in 1 .. n, NEW p \in Lo(gs[i]) .. Hi(gs[i]) - 1, NEW d \in Seg(gs[i]),
                    d \div PageSize = p, NEW s, s.regions = gs,
                    NEW r, r = ReservationFor(s, i, p, d - gs[i].vstart)
             PROVE  r # 0 /\ r \in DOMAIN V /\ p \in V[r]
  BY DEF Provided
<1>1. ASSUME NEW k \in 1 .. n, From(L, k) <= p, p < To(L, k, n), p \in PageNumbers
      PROVE  k # 0 /\ k \in DOMAIN V /\ p \in V[k]
  <2>1. PICK f, t : f = From(L, k) /\ t = To(L, k, n)
    OBVIOUS
  <2>2. /\ PagesOfRegion(gs[k]) = {q \in PageNumbers : f <= q /\ q < t}
        /\ f \in Int /\ t \in Int /\ gs[k].bytes = PageSize * t - PageSize * f
    BY <1>0, <2>1 DEF Spans
  <2>3. p \in Int /\ f < t
    BY <1>1, <2>1, <2>2, PageSizePositive DEF PageNumbers
  <2>4. PageSize * f < PageSize * t /\ PageSize * f \in Int /\ PageSize * t \in Int
    BY <2>2, <2>3, Scaled
  <2>5. gs[k].bytes # 0
    BY <2>2, <2>4
  <2>6. k \in DOMAIN V /\ p \in PagesOfRegion(gs[k])
    BY <1>1, <2>1, <2>2, <2>5
  <2> QED
    BY <2>6
<1>2. PICK g, v, e, lo, hi, t, P : /\ g = gs[i] /\ v = g.vstart /\ e = SegmentEnd(g) /\ lo = Lo(L[i])
                                   /\ hi = Hi(L[i]) /\ t = To(L, i, n) /\ P = PageSize * p
  OBVIOUS
<1>3. /\ g \in Region /\ lo = Lo(g) /\ hi = Hi(g) /\ lo \in Int /\ hi \in Int /\ lo < hi
      /\ t \in Int /\ g.start = PageSize * lo /\ g.bytes = PageSize * t - PageSize * lo
      /\ From(L, i) = lo
  <2>1. From(L, i) = lo
    BY <1>2, YieldedPages
  <2>2. g \in Region
    BY <1>2 DEF Laid
  <2> QED
    BY <1>0, <1>2, <2>1, <2>2 DEF Proper, SameAs, Spans
<1>4. p \in Int /\ lo <= p /\ p < hi
  BY <1>2, <1>3
<1>5. v \in Nat /\ e \in Nat /\ e = v + g.size /\ g.size \in Nat /\ d \in Int /\ v <= d /\ d < e
  <2>1. v \in Nat /\ e \in Nat /\ e = v + g.size /\ g.size \in Nat
    BY <1>2, <1>3 DEF Region, SegmentEnd
  <2>2. d \in v .. e - 1
    BY <1>2 DEF Seg
  <2> QED
    BY <2>1, <2>2
<1>6. P \in Int /\ P <= d /\ PageSize \in Nat \ {0}
  <2>1. PageSize * (d \div PageSize) <= d
    BY <1>5, PageOf
  <2>2. PageSize * p \in Int
    BY <1>4, Scaled
  <2> QED
    BY <1>2, <2>1, <2>2, PageSizePositive
<1>7. p \in PageNumbers
  <2>1. PICK N, M : N = NumPages /\ M = PageSize * N
    OBVIOUS
  <2>2. N \in Nat /\ M \in Int /\ NumPages * PageSize = M
    BY <2>1, PageSizePositive
  <2>3. e <= M
    BY <1>2, <2>2 DEF Loadable
  <2>4. P < M
    BY <1>5, <1>6, <2>2, <2>3
  <2>5. p < N
    BY <1>2, <1>4, <2>1, <2>2, <2>4, Scaled
  <2>6. 0 <= p
    BY <1>2, <1>3, <1>4, SegmentPages
  <2> QED
    BY <1>4, <2>1, <2>2, <2>5, <2>6 DEF PageNumbers
<1>8. PICK least : least = IF e - d < PageSize THEN e - d ELSE PageSize
  OBVIOUS
<1>9. least \in Int /\ 0 < least /\ least <= PageSize
  BY <1>5, <1>6, <1>8
<1>10. PICK T, S : T = PageSize * t /\ S = PageSize * lo
  OBVIOUS
<1>11. T \in Int /\ S \in Int /\ S <= P
  BY <1>2, <1>3, <1>4, <1>10, Scaled
<1>12. r = IF P + least > T THEN IF i + 1 > n THEN 0 ELSE i + 1 ELSE i
  <2>1. g.size - (d - g.vstart) = e - d
    BY <1>2, <1>5
  <2>2. p * PageSize = P
    BY <1>2, <1>4, Scaled
  <2>3. g.start = S /\ g.start + g.bytes = T
    BY <1>3, <1>10, <1>11
  <2>4. ~(p * PageSize < g.start)
    BY <1>6, <1>11, <2>2, <2>3
  <2>5. Len(s.regions) = n
    BY DEF Laid
  <2>6. s.regions[i] = g
    BY <1>2
  <2> QED
    BY <1>2, <1>8, <2>1, <2>2, <2>3, <2>4, <2>5, <2>6 DEF ReservationFor
<1>13. CASE p < t
  <2>1. PICK q : q = p + 1
    OBVIOUS
  <2>2. q \in Int /\ q <= t /\ PageSize * q = P + PageSize
    <3>1. PageSize * (p + 1) = PageSize * p + PageSize
      BY <1>4, Scaled
    <3> QED
      BY <1>2, <1>3, <1>4, <1>13, <2>1, <3>1
  <2>3. PageSize * q <= PageSize * t
    BY <1>3, <2>2, Scaled
  <2>4. ~(P + least > T)
    BY <1>6, <1>9, <1>10, <1>11, <2>2, <2>3
  <2>5. r = i
    BY <1>12, <2>4
  <2>6. From(L, i) <= p /\ p < To(L, i, n)
    BY <1>2, <1>3, <1>4, <1>13
  <2> QED
    BY <1>1, <1>7, <2>5, <2>6
<1>14. CASE ~(p < t)
  <2>1. PICK j : j = i + 1
    OBVIOUS
  <2>2. i < n /\ Moves(L[i], L[j]) /\ t = hi - 1
    <3>1. t = hi \/ (i < n /\ Moves(L[i], L[i + 1]) /\ t = hi - 1)
      BY <1>2, YieldedPages
    <3>2. t # hi
      BY <1>3, <1>4, <1>14
    <3> QED
      BY <2>1, <3>1, <3>2
  <2>3. p = t /\ P = T
    BY <1>2, <1>3, <1>4, <1>10, <1>14, <2>2
  <2>4. r = j /\ j \in 1 .. n /\ i < j
    BY <1>6, <1>9, <1>12, <2>1, <2>2, <2>3
  <2>5. Lo(L[j]) = p
    <3>1. InOrder(L, n)
      BY DEF Laid
    <3>2. Hi(L[i]) - 1 <= Lo(L[j])
      BY <2>4, <3>1, PagesBetween
    <3>3. Hi(L[i]) > Lo(L[j]) /\ Lo(L[j]) \in Int
      BY <1>0, <2>2, <2>4 DEF Proper, Moves, Shared
    <3> QED
      BY <1>2, <1>3, <2>2, <2>3, <3>2, <3>3
  <2>6. To(L, j, n) = Hi(L[j])
    <3>1. L[j].write
      BY <2>2 DEF Moves, cap_writes_check_move_frame
    <3> QED
      BY <3>1 DEF To, Moves, cap_writes_check_move_frame
  <2>7. From(L, j) = Lo(L[j]) /\ Lo(L[j]) < Hi(L[j])
    BY <1>0, <2>4, YieldedPages DEF Proper
  <2>8. From(L, j) <= p /\ p < To(L, j, n)
    BY <1>4, <2>5, <2>6, <2>7
  <2> QED
    BY <1>1, <1>7, <2>4, <2>8
<1> QED
  BY <1>13, <1>14

(* What the loader starts from. *)
ImageTyped ==
  image \in Seq(Segments) /\ \A i \in 1 .. Len(image) : SegmentEnd(image[i]) <= NumPages * PageSize

FreshSpace ==
  /\ regions = <<>> /\ reserved = <<>> /\ frames = <<>> /\ mem = [a \in Addresses |-> Zero]
  /\ loaderSlot = "free"

LEMMA ImageRegions ==
  ASSUME ImageTyped, NEW n, n = Len(image), NEW rs, rs = read_regions(image)
  PROVE  /\ n \in Nat /\ rs \in [1 .. n -> Region]
         /\ \A i \in 1 .. n :
              /\ rs[i].vstart = image[i].vstart /\ rs[i].size = image[i].size /\ rs[i].write = image[i].write
              /\ SegmentEnd(rs[i]) = SegmentEnd(image[i]) /\ SegmentEnd(rs[i]) <= NumPages * PageSize
              /\ File(rs[i]) \in Nat /\ File(rs[i]) <= rs[i].size
         /\ Overlapping(rs) <=> Overlapping(image)
<1>1. n \in Nat /\ image \in [1 .. n -> Segments] /\ DOMAIN rs = 1 .. n /\ Len(rs) = n
  <2>1. n \in Nat /\ image \in [1 .. n -> Segments]
    BY DEF ImageTyped
  <2> QED
    BY <2>1 DEF read_regions
<1>2. ASSUME NEW i \in 1 .. n
      PROVE  /\ rs[i] \in Region
             /\ rs[i].vstart = image[i].vstart /\ rs[i].size = image[i].size /\ rs[i].write = image[i].write
             /\ rs[i].segment = i
             /\ SegmentEnd(rs[i]) = SegmentEnd(image[i]) /\ SegmentEnd(rs[i]) <= NumPages * PageSize
             /\ File(rs[i]) \in Nat /\ File(rs[i]) <= rs[i].size
  <2>1. PICK h : h = image[i]
    OBVIOUS
  <2>2. h \in Segments
    BY <1>1, <2>1
  <2>3. /\ h.vstart \in Addresses /\ h.size \in 1 .. 2 * PageSize /\ h.file \in 0 .. 2 * PageSize
        /\ h.write \in BOOLEAN /\ h.file \in {h.size, h.size \div 2}
    BY <2>2 DEF Segments
  <2>4. PICK T : T = NumPages * PageSize - 1
    OBVIOUS
  <2>5. PageSize \in Nat \ {0} /\ h.vstart \in 0 .. T /\ T \in Int
    BY <2>3, <2>4, PageSizePositive DEF Addresses
  <2>6. h.vstart \in Nat /\ h.size \in Nat \ {0} /\ h.file \in Nat /\ h.file <= h.size
    BY <2>3, <2>5
  <2>7. rs[i] = [vstart |-> h.vstart, size |-> h.size, write |-> h.write, segment |-> i, start |-> 0, bytes |-> 0]
    BY <1>1, <2>1 DEF read_regions
  <2>8. /\ rs[i] \in Region /\ rs[i].vstart = h.vstart /\ rs[i].size = h.size /\ rs[i].write = h.write
        /\ rs[i].segment = i
    BY <2>3, <2>6, <2>7 DEF Region
  <2>9. SegmentEnd(rs[i]) = SegmentEnd(h) /\ File(rs[i]) = h.file
    BY <2>1, <2>8 DEF SegmentEnd, File
  <2>10. SegmentEnd(h) <= NumPages * PageSize
    BY <1>1, <2>1 DEF ImageTyped
  <2> QED
    BY <2>1, <2>6, <2>8, <2>9, <2>10
<1>3. ASSUME NEW i \in 1 .. n, NEW j \in 1 .. n
      PROVE  compare_regions(rs[i], rs[j]) = compare_regions(image[i], image[j])
  BY <1>2 DEF compare_regions
<1>4. Overlapping(rs) <=> Overlapping(image)
  BY <1>1, <1>3 DEF Overlapping
<1>5. rs \in [1 .. n -> Region]
  <2>1. rs = [i \in 1 .. n |-> rs[i]]
    BY DEF read_regions
  <2> QED
    BY <1>2, <2>1
<1> QED
  BY <1>1, <1>2, <1>4, <1>5

(* The reservations of an image. *)
Reserved(L, n, gs, s) ==
  /\ Laid(L, n, gs) /\ Loadable(gs, n) /\ \A i \in 1 .. n : File(gs[i]) <= gs[i].size
  /\ LoadState(s) /\ s.regions = gs /\ s.map = <<>> /\ s.mem = [a \in Addresses |-> Zero]
  /\ s.fatal = FALSE /\ s.err \in BOOLEAN
  /\ ~s.err =>
       /\ DOMAIN s.res = {i \in 1 .. n : gs[i].bytes # 0}
       /\ \A i \in DOMAIN s.res : s.res[i] = PagesOfRegion(gs[i])
       /\ Apart(gs, n)

Peaceful == ~Overlapping(image) /\ ~KeepsShared(image)

(* Segments that are loaded are where the image has them. *)
LEMMA LoadableLaid ==
  ASSUME ImageTyped, NEW n, n = Len(image), NEW rs, rs = read_regions(image),
         NEW L, Picks(L, rs, n), NEW gs, Laid(L, n, gs)
  PROVE  /\ Loadable(gs, n) /\ \A i \in 1 .. n : File(gs[i]) <= gs[i].size
         /\ Peaceful => Yields(L, n)
<1>0. Proper(L, n) /\ SameAs(L, gs, n)
  BY LaidSegment, LaidSame
<1>1. /\ n \in Nat /\ rs \in [1 .. n -> Region]
      /\ \A i \in 1 .. n :
           /\ rs[i].vstart = image[i].vstart /\ rs[i].size = image[i].size /\ rs[i].write = image[i].write
           /\ SegmentEnd(rs[i]) = SegmentEnd(image[i]) /\ SegmentEnd(rs[i]) <= NumPages * PageSize
           /\ File(rs[i]) \in Nat /\ File(rs[i]) <= rs[i].size
  BY ImageRegions
<1>2. ASSUME NEW i \in 1 .. n
      PROVE  SegmentEnd(gs[i]) <= NumPages * PageSize /\ File(gs[i]) \in Nat /\ File(gs[i]) <= gs[i].size
  <2>1. /\ gs[i].segment = L[i].segment /\ SegmentEnd(gs[i]) = SegmentEnd(L[i]) /\ gs[i].size = L[i].size
    BY <1>0, <1>1 DEF SameAs
  <2>2. File(gs[i]) = File(L[i])
    BY <2>1 DEF File
  <2>3. PICK j \in 1 .. n : L[i] = rs[j]
    BY DEF Picks
  <2>4. PICK h, e, f, z : h = rs[j] /\ e = SegmentEnd(h) /\ f = File(h) /\ z = h.size
    OBVIOUS
  <2>5. e <= NumPages * PageSize /\ f \in Nat /\ f <= z
    BY <1>1, <2>4
  <2>6. SegmentEnd(gs[i]) = e /\ File(gs[i]) = f /\ gs[i].size = z
    BY <2>1, <2>2, <2>3, <2>4
  <2> QED
    BY <2>5, <2>6
<1>3. ASSUME NEW i \in 1 .. n, NEW j \in 1 .. n, i < j
      PROVE  Seg(gs[i]) \cap Seg(gs[j]) = {}
  <2>1. PICK a, b : a = L[i] /\ b = L[j]
    OBVIOUS
  <2>2. a \in Region /\ b \in Region /\ SegmentEnd(a) <= b.vstart
    BY <1>3, <2>1 DEF Laid, InOrder
  <2>3. /\ gs[i].vstart = a.vstart /\ SegmentEnd(gs[i]) = SegmentEnd(a)
        /\ gs[j].vstart = b.vstart /\ SegmentEnd(gs[j]) = SegmentEnd(b)
    BY <1>0, <1>1, <2>1 DEF SameAs
  <2>4. a.vstart \in Nat /\ SegmentEnd(a) \in Nat /\ b.vstart \in Nat /\ SegmentEnd(b) \in Nat
    BY <2>2, SegmentPages
  <2>5. PICK u, v, w, z : u = a.vstart /\ v = SegmentEnd(a) /\ w = b.vstart /\ z = SegmentEnd(b)
    OBVIOUS
  <2>6. u \in Nat /\ v \in Nat /\ w \in Nat /\ z \in Nat /\ v <= w
    BY <2>2, <2>4, <2>5
  <2>7. Seg(gs[i]) = u .. v - 1 /\ Seg(gs[j]) = w .. z - 1
    BY <2>3, <2>5 DEF Seg
  <2>8. \A x \in u .. v - 1 : x \notin w .. z - 1
    BY <2>6
  <2> QED
    BY <2>7, <2>8
<1>4. Loadable(gs, n)
  <2>1. ASSUME NEW i \in 1 .. n, NEW j \in 1 .. n, i # j
        PROVE  Seg(gs[i]) \cap Seg(gs[j]) = {}
    <3>1. i < j \/ j < i
      BY <1>1, <2>1
    <3>2. j < i => Seg(gs[j]) \cap Seg(gs[i]) = {}
      BY <1>3
    <3> QED
      BY <1>3, <3>1, <3>2
  <2> QED
    BY <1>2, <2>1 DEF Loadable, Laid
<1>5. ASSUME Peaceful, NEW k \in 2 .. n, Keeps(L[k - 1], L[k])
      PROVE  FALSE
  <2>1. PICK m, a, b : m = k - 1 /\ a = L[m] /\ b = L[k]
    OBVIOUS
  <2>2. m \in 1 .. n /\ k \in 1 .. n /\ m < k
    BY <1>1, <2>1
  <2>3. SegmentEnd(a) <= b.vstart /\ Hi(a) - 1 <= Lo(b)
    BY <1>1, <2>1, <2>2, PagesBetween DEF Laid, InOrder
  <2>4. Hi(a) > Lo(b) /\ ~cap_writes_check_move_frame(a, b) /\ Hi(a) \in Int /\ Lo(b) \in Int
    <3>1. Hi(a) \in Int /\ Lo(b) \in Int
      BY <1>0, <1>1, <2>1, <2>2 DEF Proper
    <3> QED
      BY <1>5, <2>1, <3>1 DEF Keeps, Shared
  <2>5. PICK i \in 1 .. n : a = rs[i]
    BY <2>1, <2>2 DEF Picks
  <2>6. PICK j \in 1 .. n : b = rs[j]
    BY <2>1, <2>2 DEF Picks
  <2>7. PICK x, y : x = (SegmentEnd(a) - 1) \div PageSize /\ y = b.vstart \div PageSize
    OBVIOUS
  <2>8. Hi(a) = x + 1 /\ Lo(b) = y
    BY <2>7 DEF Hi, Lo
  <2>9. x \in Int
    <3>1. PICK z : z = SegmentEnd(a) - 1
      OBVIOUS
    <3>2. z \in Int
      BY <1>1, <2>5, <3>1, SegmentPages
    <3> QED
      BY <2>7, <3>1, <3>2, PageOf
  <2>10. x = y
    BY <2>3, <2>4, <2>8, <2>9
  <2>11. /\ SegmentEnd(image[i]) = SegmentEnd(a) /\ image[j].vstart = b.vstart
         /\ image[i].write = a.write /\ image[j].write = b.write
    BY <1>1, <2>5, <2>6
  <2>12. KeepsShared(image)
    <3>1. i \in 1 .. Len(image) /\ j \in 1 .. Len(image)
      OBVIOUS
    <3>2. SegmentEnd(image[i]) <= image[j].vstart
      BY <2>3, <2>11
    <3>3. (SegmentEnd(image[i]) - 1) \div PageSize = image[j].vstart \div PageSize
      BY <2>7, <2>10, <2>11
    <3>4. ~cap_writes_check_move_frame(image[i], image[j])
      BY <2>4, <2>11 DEF cap_writes_check_move_frame
    <3> QED
      BY <3>1, <3>2, <3>3, <3>4 DEF KeepsShared
  <2> QED
    BY <1>5, <2>12 DEF Peaceful
<1> QED
  BY <1>2, <1>4, <1>5 DEF Yields

(* elf_reserve_regions_in_vspace in an empty vspace. *)
LEMMA ReserveEffect ==
  ASSUME ImageTyped, FreshSpace, NEW n, n = Len(image), NEW fail,
         NEW r, r = elf_reserve_regions_in_vspace(ElfNow, FALSE, fail)
  PROVE  /\ r.fatal \/ \E L, gs : Reserved(L, n, gs, r) /\ (Peaceful => Yields(L, n))
         /\ Peaceful => ~r.fatal
         /\ Peaceful /\ fail \notin 1 .. n => ~r.err
<1>1. PICK rs : rs = read_regions(image)
  OBVIOUS
<1>2. n \in Nat /\ rs \in [1 .. n -> Region] /\ (Overlapping(rs) <=> Overlapping(image))
  BY <1>1, ImageRegions
<1>3. PICK L, P : L = Sorted(rs) /\ P = prepare_reservations(L)
  OBVIOUS
<1>4. PICK o : o = ElfNow
  OBVIOUS
<1>5. o = [regions |-> <<>>, res |-> <<>>, map |-> <<>>, mem |-> [a \in Addresses |-> Zero],
           slot |-> "free", err |-> FALSE, fatal |-> FALSE]
  BY <1>4 DEF ElfNow, FreshSpace
<1>6. PICK dead : dead = [o EXCEPT !.fatal = TRUE]
  OBVIOUS
<1>7. dead.fatal = TRUE
  BY <1>5, <1>6
<1>8. r = IF Overlapping(rs) THEN dead
          ELSE IF P.fatal THEN dead
          ELSE create_reservations([o EXCEPT !.regions = P.regions], FALSE, fail)
  BY <1>1, <1>3, <1>4, <1>6 DEF elf_reserve_regions_in_vspace
<1>9. CASE Overlapping(rs)
  <2>1. r = dead /\ ~Peaceful
    BY <1>2, <1>8, <1>9 DEF Peaceful
  <2> QED
    BY <1>7, <2>1
<1>10. CASE ~Overlapping(rs)
  <2>1. InOrder(L, n) /\ Picks(L, rs, n)
    <3>1. n \in Nat /\ rs \in [1 .. n -> Region] /\ ~Overlapping(rs) /\ L = Sorted(rs)
      BY <1>2, <1>3, <1>10
    <3> QED
      BY <3>1, SortedEffect
  <2>2. Prepared(L, n, n, P)
    BY <1>2, <1>3, <2>1, PrepareEffect
  <2>3. PICK plan : plan = [i \in 1 .. n |-> LaidOut(L[i], From(L, i), To(L, i, n))]
    OBVIOUS
  <2>4. Laid(L, n, plan)
    <3>1. ASSUME NEW i \in 1 .. n
          PROVE  plan[i] \in Region
      <4>1. PICK a, f, t, x : a = L[i] /\ f = From(L, i) /\ t = To(L, i, n) /\ x = LaidOut(a, f, t)
        OBVIOUS
      <4>2. a \in Region
        BY <2>1, <4>1 DEF InOrder
      <4>3. f \in Int /\ t \in Int
        BY <1>2, <2>1, <4>1, PlanFacts
      <4>4. x \in Region
        BY <4>1, <4>2, <4>3, LaidFacts
      <4> QED
        BY <2>3, <4>1, <4>4
    <3>2. plan \in [1 .. n -> Region]
      BY <2>3, <3>1
    <3>3. \A i \in 1 .. n : plan[i] = LaidOut(L[i], From(L, i), To(L, i, n))
      BY <2>3
    <3> QED
      BY <2>1, <3>2, <3>3 DEF Laid
  <2>5. Peaceful => Yields(L, n)
    BY <1>1, <2>1, <2>4, LoadableLaid
  <2>6. CASE P.fatal
    <3>1. r = dead
      BY <1>8, <1>10, <2>6
    <3>2. ~Yields(L, n)
      BY <2>2, <2>6 DEF Prepared, Yields
    <3> QED
      BY <1>7, <2>5, <3>1, <3>2
  <2>7. CASE ~P.fatal
    <3>1. PICK gs, z : gs = P.regions /\ z = [o EXCEPT !.regions = gs]
      OBVIOUS
    <3>2. r = create_reservations(z, FALSE, fail)
      BY <1>8, <1>10, <2>7, <3>1
    <3>3. Planned(L, n, n, P)
      BY <2>2, <2>7 DEF Prepared
    <3>4. Laid(L, n, gs)
      BY <2>1, <3>1, <3>3 DEF Planned, Laid
    <3>5. /\ LoadState(z) /\ z.regions = gs /\ z.res = <<>> /\ z.map = <<>>
          /\ z.mem = [a \in Addresses |-> Zero] /\ z.err = FALSE /\ z.fatal = FALSE
      BY <1>5, <3>1 DEF LoadState
    <3>6. Created(gs, n, z, r) /\ (fail \notin 1 .. n /\ Apart(gs, n) => ~r.err)
      <4>1. gs \in [1 .. n -> Region]
        BY <3>4 DEF Laid
      <4> QED
        BY <1>2, <3>2, <3>5, <4>1, CreateEffect
    <3>7. Loadable(gs, n) /\ \A i \in 1 .. n : File(gs[i]) <= gs[i].size
      BY <1>1, <2>1, <3>4, LoadableLaid
    <3>8. ASSUME ~r.err
          PROVE  Apart(gs, n)
      <4>1. ASSUME NEW i \in 1 .. n, gs[i].bytes = 0
            PROVE  PagesOfRegion(gs[i]) = {}
        <5>1. PICK x : x = gs[i].start
          OBVIOUS
        <5>2. x \in Int
          BY <3>4, <5>1 DEF Laid, Region
        <5>3. \A p \in PageNumbers : p * PageSize \in Int
          BY PageSizePositive DEF PageNumbers
        <5> QED
          BY <4>1, <5>1, <5>2, <5>3 DEF PagesOfRegion
      <4>2. ASSUME NEW i \in 1 .. n, NEW j \in 1 .. n, i # j
            PROVE  PagesOfRegion(gs[i]) \cap PagesOfRegion(gs[j]) = {}
        <5>1. CASE i \in DOMAIN r.res /\ j \in DOMAIN r.res
          BY <3>6, <3>8, <4>2, <5>1 DEF Created
        <5>2. CASE i \notin DOMAIN r.res
          <6>1. gs[i].bytes = 0
            BY <3>6, <3>8, <5>2 DEF Created
          <6> QED
            BY <4>1, <6>1
        <5>3. CASE j \notin DOMAIN r.res
          <6>1. gs[j].bytes = 0
            BY <3>6, <3>8, <5>3 DEF Created
          <6>2. PagesOfRegion(gs[j]) = {}
            BY <4>1, <6>1
          <6> QED
            BY <6>2
        <5> QED
          BY <5>1, <5>2, <5>3
      <4> QED
        BY <4>2 DEF Apart
    <3>9. Reserved(L, n, gs, r)
      <4>1. /\ LoadState(r) /\ r.regions = gs /\ r.map = <<>> /\ r.mem = [a \in Addresses |-> Zero]
            /\ r.fatal = FALSE /\ r.err \in BOOLEAN
            /\ ~r.err => /\ DOMAIN r.res = {i \in 1 .. n : gs[i].bytes # 0}
                         /\ \A i \in DOMAIN r.res : r.res[i] = PagesOfRegion(gs[i])
        BY <3>5, <3>6 DEF Created
      <4> QED
        BY <3>4, <3>7, <3>8, <4>1 DEF Reserved
    <3>10. Peaceful => Apart(gs, n)
      BY <1>2, <2>5, <3>4, YieldsApart
    <3>11. ~r.fatal
      BY <3>9 DEF Reserved
    <3> QED
      BY <2>5, <3>6, <3>9, <3>10, <3>11
  <2> QED
    BY <2>6, <2>7
<1> QED
  BY <1>9, <1>10

(* Segments as LoadedExact has them. *)
Exact(s) ==
  \A i \in 1 .. Len(s.regions) : \A a \in Seg(s.regions[i]) :
    /\ s.mem[a] = IF a - s.regions[i].vstart < File(s.regions[i])
                  THEN <<s.regions[i].segment, a - s.regions[i].vstart>> ELSE Zero
    /\ a \div PageSize \in DOMAIN s.map
    /\ s.regions[i].write => s.regions[s.map[a \div PageSize]].write

(* load_segments with these reservations. *)
LEMMA LoadEffect ==
  ASSUME NEW n \in Nat, NEW L, NEW gs, NEW s, Reserved(L, n, gs, s), ~s.err, NEW fault,
         NEW r, r = load_segments(s, fault)
  PROVE  /\ LoadState(r) /\ ~r.fatal
         /\ ~r.err => Exact(r)
         /\ Yields(L, n) /\ fault.op = "none" => ~r.err
<1>1. PICK V : V = s.res
  OBVIOUS
<1>2. /\ DOMAIN V = {i \in 1 .. n : gs[i].bytes # 0} /\ \A i \in DOMAIN V : V[i] = PagesOfRegion(gs[i])
      /\ Apart(gs, n) /\ Laid(L, n, gs) /\ Loadable(gs, n) /\ s.regions = gs /\ s.map = <<>>
      /\ s.mem = [a \in Addresses |-> Zero] /\ LoadState(s) /\ s.fatal = FALSE /\ s.err = FALSE
  BY <1>1 DEF Reserved
<1>3. Loading(gs, n, V, 1, 0, s)
  <2>1. DOMAIN s.map = {}
    BY <1>2
  <2>2. ASSUME NEW j \in 1 .. n, NEW a \in Seg(gs[j])
        PROVE  /\ s.mem[a] = Zero
               /\ ~(j < 1 \/ (j = 1 /\ a \div PageSize < Lo(gs[1]) + 0))
    <3>1. PICK h, T : h = gs[j] /\ T = NumPages * PageSize
      OBVIOUS
    <3>2. h \in Region /\ SegmentEnd(h) <= T /\ T \in Int
      BY <1>2, <3>1, PageSizePositive DEF Loadable
    <3>3. h.vstart \in Nat /\ SegmentEnd(h) \in Nat /\ a \in h.vstart .. SegmentEnd(h) - 1
      BY <3>1, <3>2, SegmentPages DEF Seg
    <3>4. a \in 0 .. T - 1
      BY <3>2, <3>3
    <3>5. s.mem[a] = Zero
      BY <1>2, <3>1, <3>4 DEF Addresses
    <3>6. PICK q : q = a \div PageSize
      OBVIOUS
    <3>7. q \in Lo(h) .. Hi(h) - 1 /\ Lo(h) \in Int /\ Hi(h) \in Int
      BY <3>2, <3>3, <3>6, SegmentPages
    <3>8. ~(j = 1 /\ q < Lo(gs[1]) + 0)
      BY <3>1, <3>7
    <3> QED
      BY <3>5, <3>6, <3>8
  <2>3. Addresses \subseteq DOMAIN s.mem
    BY <1>2
  <2> QED
    BY <1>1, <1>2, <2>1, <2>2, <2>3 DEF Loading
<1>4. PICK l : l = n + 1
  OBVIOUS
<1>5. Loads(gs, n, V, fault, l, 0, r)
  <2>1. Loads(gs, n, V, fault, 1, 0, s)
    BY <1>3 DEF Loads
  <2> QED
    BY <1>2, <1>4, <2>1, LoadSegmentsEffect
<1>6. /\ LoadState(r) /\ r.regions = gs /\ r.fatal = FALSE /\ Loading(gs, n, V, l, 0, r)
      /\ Complete(gs, n, V, fault) => ~r.err
  BY <1>5 DEF Loads, Loading
<1>7. ASSUME ~r.err, NEW i \in 1 .. n, NEW a \in Seg(gs[i])
      PROVE  /\ r.mem[a] = IF a - gs[i].vstart < File(gs[i])
                           THEN <<gs[i].segment, a - gs[i].vstart>> ELSE Zero
             /\ a \div PageSize \in DOMAIN r.map
             /\ gs[i].write => gs[r.map[a \div PageSize]].write
  <2>1. PICK h, v, f, p : h = gs[i] /\ v = h.vstart /\ f = File(h) /\ p = a \div PageSize
    OBVIOUS
  <2>2. h \in Region /\ v \in Nat /\ f \in Nat /\ SegmentEnd(h) \in Nat
    BY <1>2, <2>1, SegmentPages DEF Loadable
  <2>3. a \in v .. SegmentEnd(h) - 1 /\ a \in Int
    BY <2>1, <2>2 DEF Seg
  <2>4. Byte(h, a, r) /\ (a - v >= f => r.mem[a] = Zero)
    <3>1. i < l
      BY <1>4
    <3> QED
      BY <1>6, <1>7, <2>1, <3>1 DEF Loading
  <2>5. r.mem[a] = IF a - v < f THEN <<h.segment, a - v>> ELSE Zero
    BY <2>1, <2>2, <2>3, <2>4 DEF Byte
  <2>6. p \in DOMAIN r.map
    BY <2>1, <2>4 DEF Byte
  <2>7. PICK k : k = r.map[p]
    OBVIOUS
  <2>8. k \in DOMAIN V /\ p \in V[k]
    BY <1>6, <1>7, <2>6, <2>7 DEF Loading
  <2>9. k \in 1 .. n /\ p \in PagesOfRegion(gs[k])
    BY <1>2, <2>8
  <2>10. p \in Lo(gs[i]) .. Hi(gs[i]) - 1
    BY <2>1, <2>2, <2>3, SegmentPages
  <2>11. gs[i].write => gs[k].write
    BY <1>2, <2>9, <2>10, WritablePages
  <2> QED
    BY <2>1, <2>5, <2>6, <2>7, <2>11
<1>8. Len(gs) = n
  BY <1>2 DEF Laid
<1>9. ~r.err => Exact(r)
  BY <1>6, <1>7, <1>8 DEF Exact
<1>10. Yields(L, n) /\ fault.op = "none" => Complete(gs, n, V, fault)
  <2>1. Yields(L, n) => Provided(gs, n, V)
    BY <1>2, YieldsServe
  <2> QED
    BY <2>1 DEF Complete, Reserved
<1> QED
  BY <1>6, <1>9, <1>10

(* sel4utils_elf_load_record_regions in an empty vspace. *)
LEMMA LoadRecordEffect ==
  ASSUME ImageTyped, FreshSpace, NEW keep \in BOOLEAN, NEW fault,
         NEW r, r = sel4utils_elf_load_record_regions(ElfNow, keep, fault)
  PROVE  /\ ~r.fatal /\ ~r.err => Exact(r)
         /\ Peaceful /\ fault.op = "none" => ~r.err /\ ~r.fatal
<1>1. PICK n, fail, e : /\ n = Len(image) /\ fail = (IF fault.op = "reserve" THEN fault.page ELSE 0)
                        /\ e = elf_reserve_regions_in_vspace(ElfNow, FALSE, fail)
  OBVIOUS
<1>2. n \in Nat
  BY <1>1 DEF ImageTyped
<1>3. /\ e.fatal \/ \E L, gs : Reserved(L, n, gs, e) /\ (Peaceful => Yields(L, n))
      /\ Peaceful => ~e.fatal
      /\ Peaceful /\ fail \notin 1 .. n => ~e.err
  BY <1>1, ReserveEffect
<1>4. PICK l : l = IF e.err \/ e.fatal THEN e ELSE load_segments(e, fault)
  OBVIOUS
<1>5. r = IF l.err \/ l.fatal \/ keep THEN l ELSE [l EXCEPT !.res = <<>>]
  BY <1>1, <1>4 DEF sel4utils_elf_load_record_regions
<1>6. fault.op = "none" => fail \notin 1 .. n
  BY <1>1
<1>7. CASE e.err \/ e.fatal
  <2>1. l = e /\ r = e
    BY <1>4, <1>5, <1>7
  <2> QED
    BY <1>3, <1>6, <1>7, <2>1
<1>8. CASE ~e.err /\ ~e.fatal
  <2>1. PICK L, gs : Reserved(L, n, gs, e) /\ (Peaceful => Yields(L, n))
    BY <1>3, <1>8
  <2>2. l = load_segments(e, fault)
    BY <1>4, <1>8
  <2>3. /\ LoadState(l) /\ ~l.fatal
        /\ ~l.err => Exact(l)
        /\ Yields(L, n) /\ fault.op = "none" => ~l.err
    BY <1>2, <1>8, <2>1, <2>2, LoadEffect
  <2>4. /\ r.regions = l.regions /\ r.map = l.map /\ r.mem = l.mem /\ r.err = l.err /\ r.fatal = l.fatal
    BY <1>5, <2>3 DEF LoadState
  <2>5. Exact(l) => Exact(r)
    BY <2>4 DEF Exact
  <2> QED
    BY <2>1, <2>3, <2>4, <2>5
<1> QED
  BY <1>7, <1>8

(* The inductive invariant. *)
ElfInv ==
  /\ ImageTyped
  /\ stage = "file" => FreshSpace
  /\ LoadedExact

LEMMA ElfInitInv == ElfInit => ElfInv
<1> SUFFICES ASSUME ElfInit
             PROVE  ElfInv
  OBVIOUS
<1>1. image = <<>> /\ stage = "file" /\ FreshSpace
  BY DEF ElfInit, FreshSpace
<1>2. ImageTyped
  BY <1>1 DEF ImageTyped
<1>3. LoadedExact
  BY <1>1 DEF LoadedExact
<1> QED
  BY <1>1, <1>2, <1>3 DEF ElfInv

LEMMA AddSegmentKeeps ==
  ASSUME ElfInv, NEW g \in Segments, AddSegment(g)
  PROVE  ElfInv'
<1>1. /\ stage = "file" /\ image' = Append(image, g) /\ SegmentEnd(g) <= NumPages * PageSize
      /\ UNCHANGED <<stage, regions, reserved, frames, mem, loaderSlot>>
  BY DEF AddSegment
<1>2. ImageTyped'
  <2>1. image \in Seq(Segments) /\ \A i \in 1 .. Len(image) : SegmentEnd(image[i]) <= NumPages * PageSize
    BY DEF ElfInv, ImageTyped
  <2>2. PICK m : m = Append(image, g)
    OBVIOUS
  <2>3. /\ m \in Seq(Segments) /\ Len(m) = Len(image) + 1 /\ Len(image) \in Nat /\ m[Len(image) + 1] = g
        /\ \A i \in 1 .. Len(image) : m[i] = image[i]
    BY <2>1, <2>2
  <2>4. ASSUME NEW i \in 1 .. Len(m)
        PROVE  SegmentEnd(m[i]) <= NumPages * PageSize
    <3>1. CASE i = Len(image) + 1
      BY <1>1, <2>3, <3>1
    <3>2. CASE i # Len(image) + 1
      <4>1. i \in 1 .. Len(image)
        BY <2>3, <3>2
      <4> QED
        BY <2>1, <2>3, <4>1
    <3> QED
      BY <3>1, <3>2
  <2>5. image' = m
    BY <1>1, <2>2
  <2> QED
    BY <2>3, <2>4, <2>5 DEF ImageTyped
<1>3. (stage = "file" => FreshSpace)'
  BY <1>1 DEF ElfInv, FreshSpace
<1>4. LoadedExact'
  BY <1>1 DEF LoadedExact
<1> QED
  BY <1>2, <1>3, <1>4 DEF ElfInv

LEMMA ElfLoadKeeps ==
  ASSUME ElfInv, NEW keep \in BOOLEAN, NEW fault, ElfLoad(keep, fault)
  PROVE  ElfInv'
<1>1. PICK s : /\ s = sel4utils_elf_load_record_regions(ElfNow, keep, fault)
               /\ stage' = Outcome(s, "loaded") /\ ElfBecomes(s) /\ stage = "file"
  BY DEF ElfLoad
<1>2. ImageTyped /\ FreshSpace
  BY <1>1 DEF ElfInv
<1>3. ~s.fatal /\ ~s.err => Exact(s)
  BY <1>1, <1>2, LoadRecordEffect
<1>4. /\ image' = image /\ regions' = s.regions /\ frames' = s.map /\ mem' = s.mem
  BY <1>1 DEF ElfBecomes
<1>5. stage' # "file" /\ (stage' = "loaded" => ~s.fatal /\ ~s.err)
  BY <1>1 DEF Outcome
<1>6. LoadedExact'
  <2> SUFFICES ASSUME stage' = "loaded", NEW i \in 1 .. Len(regions'), NEW g, g = regions'[i],
                      NEW a \in g.vstart .. SegmentEnd(g) - 1
               PROVE  /\ mem'[a] = IF a - g.vstart < image'[g.segment].file
                                   THEN <<g.segment, a - g.vstart>> ELSE Zero
                      /\ a \div PageSize \in DOMAIN frames'
                      /\ g.write => regions'[frames'[a \div PageSize]].write
    BY DEF LoadedExact, SegmentEnd
  <2>1. Exact(s)
    BY <1>3, <1>5
  <2>2. i \in 1 .. Len(s.regions) /\ g = s.regions[i] /\ a \in Seg(s.regions[i])
    BY <1>4 DEF Seg
  <2>3. /\ s.mem[a] = IF a - g.vstart < File(g) THEN <<g.segment, a - g.vstart>> ELSE Zero
        /\ a \div PageSize \in DOMAIN s.map
        /\ g.write => s.regions[s.map[a \div PageSize]].write
    BY <2>1, <2>2 DEF Exact
  <2> QED
    BY <1>4, <2>3 DEF File
<1>7. ImageTyped'
  BY <1>2, <1>4 DEF ImageTyped
<1> QED
  BY <1>5, <1>6, <1>7 DEF ElfInv

LEMMA ElfReserveKeeps ==
  ASSUME ElfInv, sel4utils_elf_reserve
  PROVE  ElfInv'
<1>1. image' = image /\ stage' \in {"fatal", "refused", "reserved"}
  BY DEF sel4utils_elf_reserve, ElfBecomes, Outcome
<1>2. ImageTyped'
  BY <1>1 DEF ElfInv, ImageTyped
<1> QED
  BY <1>1, <1>2 DEF ElfInv, LoadedExact

LEMMA ElfStepInv == ElfInv /\ [ElfNext]_elfVars => ElfInv'
<1> SUFFICES ASSUME ElfInv, [ElfNext]_elfVars
             PROVE  ElfInv'
  OBVIOUS
<1>1. ASSUME NEW g \in Segments, AddSegment(g)
      PROVE  ElfInv'
  BY <1>1, AddSegmentKeeps
<1>2. ASSUME NEW fault \in Faults, ElfLoad(TRUE, fault)
      PROVE  ElfInv'
  <2>1. PICK keep : keep = TRUE
    OBVIOUS
  <2> QED
    BY <1>2, <2>1, ElfLoadKeeps
<1>3. CASE ElfLoad(FALSE, [op |-> "none", page |-> 0])
  <2>1. PICK keep, fault : keep = FALSE /\ fault = [op |-> "none", page |-> 0]
    OBVIOUS
  <2>2. keep \in BOOLEAN /\ ElfLoad(keep, fault)
    BY <1>3, <2>1
  <2> QED
    BY <2>2, ElfLoadKeeps
<1>4. CASE sel4utils_elf_reserve
  BY <1>4, ElfReserveKeeps
<1>5. CASE UNCHANGED elfVars
  <2>1. ImageTyped'
    BY <1>5 DEF ElfInv, ImageTyped, elfVars
  <2>2. (stage = "file" => FreshSpace)'
    BY <1>5 DEF ElfInv, FreshSpace, elfVars
  <2>3. LoadedExact'
    BY <1>5 DEF ElfInv, LoadedExact, elfVars
  <2> QED
    BY <2>1, <2>2, <2>3 DEF ElfInv
<1> QED
  BY <1>1, <1>2, <1>3, <1>4, <1>5 DEF ElfNext

LEMMA ElfInvSuffices == ElfInv => ImagesLoaded
<1> SUFFICES ASSUME ElfInv
             PROVE  ImagesLoaded
  OBVIOUS
<1>1. ReservationsSuffice
  <2> SUFFICES ASSUME stage = "file", Peaceful,
                      NEW s, s = sel4utils_elf_load_record_regions(ElfNow, TRUE, [op |-> "none", page |-> 0])
               PROVE  ~s.err /\ ~s.fatal
    BY DEF ReservationsSuffice, Peaceful
  <2>1. PICK keep, fault : keep = TRUE /\ fault = [op |-> "none", page |-> 0]
    OBVIOUS
  <2>2. /\ ImageTyped /\ FreshSpace /\ keep \in BOOLEAN /\ fault.op = "none"
        /\ s = sel4utils_elf_load_record_regions(ElfNow, keep, fault)
    BY <2>1 DEF ElfInv
  <2> QED
    BY <2>2, LoadRecordEffect
<1> QED
  BY <1>1 DEF ElfInv, ImagesLoaded

(* sel4utils_elf_load: an image that is said to be loaded is in memory byte *)
(* by byte, zero beyond what the file has, in pages that can be written     *)
(* where one of its segments is; and unless something fails every image is  *)
(* loaded whose segments are apart or share pages with a writable one.      *)
THEOREM ImagesAlwaysLoaded == ElfSpec => []ImagesLoaded
<1>1. ElfInv /\ [ElfNext]_elfVars => ElfInv'
  BY ElfStepInv
<1> QED
  BY <1>1, ElfInitInv, ElfInvSuffices, PTL DEF ElfSpec
===============================================================================
