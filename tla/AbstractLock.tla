----------------------------- MODULE AbstractLock -----------------------------
(***************************************************************************)
(* What a libsel4sync lock promises its callers: at any moment it is free  *)
(* or owned by exactly one thread, it is taken only when it is free, and   *)
(* only its owner gives it back.  The binary semaphore used as a mutex     *)
(* (BinSem) and the recursive mutex (RecursiveMutex) implement it.         *)
(***************************************************************************)
CONSTANTS Threads, NoOne

VARIABLE owner

Init == owner \in Threads \cup {NoOne}

Acquire(t) ==
  /\ owner = NoOne
  /\ owner' = t

Release(t) ==
  /\ owner = t
  /\ owner' = NoOne

Next == \E t \in Threads : Acquire(t) \/ Release(t)

Spec == Init /\ [][Next]_owner
===============================================================================
