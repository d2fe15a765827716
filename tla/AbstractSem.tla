----------------------------- MODULE AbstractSem -----------------------------
(***************************************************************************)
(* What a counting semaphore promises: Units threads at most are between a *)
(* successful wait and their post, and each of them got in by itself.      *)
(***************************************************************************)
EXTENDS Naturals, FiniteSets

CONSTANTS Threads, Units

VARIABLE inside

Init == inside = {}

Enter(t) ==
  /\ t \notin inside
  /\ Cardinality(inside) < Units
  /\ inside' = inside \cup {t}

Leave(t) ==
  /\ t \in inside
  /\ inside' = inside \ {t}

Next == \E t \in Threads : Enter(t) \/ Leave(t)

Spec == Init /\ [][Next]_inside
===============================================================================
