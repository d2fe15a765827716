------------------------------- MODULE MCLocks -------------------------------
(***************************************************************************)
(* The recursive mutex and the counting semaphore for TLC.  They share     *)
(* nothing, so a behaviour uses one of the two, chosen at its start, and   *)
(* the other stays as it was initialised.                                  *)
(***************************************************************************)
EXTENDS RecursiveMutex, Sem

VARIABLE inUse

MCIntMin == -2

LocksInit ==
  /\ Init
  /\ SemInit
  /\ inUse \in {"mutex", "sem"}

UseMutex == inUse = "mutex" /\ Next /\ UNCHANGED <<semVars, inUse>>

UseSem == inUse = "sem" /\ SemNext /\ UNCHANGED <<vars, inUse>>

LocksSpec ==
  /\ LocksInit
  /\ [][UseMutex \/ UseSem]_<<vars, semVars, inUse>>
  /\ Fairness
  /\ SemFairness
===============================================================================
