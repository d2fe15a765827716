------------------------------ MODULE MCAllocman ------------------------------
(* The allocation manager for TLC, with the calls the two level CSpace      *)
(* allocator, the virtual pool and the splitting untyped manager make.      *)
EXTENDS Allocman

BySpace(c, m, u) == [s \in Spaces |-> CASE s = "cspace" -> c [] s = "mspace" -> m [] s = "utspace" -> u]

Small == BySpace(2, 2, 1)
Tiny == BySpace(1, 2, 1)
One == BySpace(1, 1, 1)

AllocatorCalls ==
  [o \in Operations |->
     CASE o = <<"alloc", "cspace">> -> {<<"alloc", "mspace">>, <<"alloc", "utspace">>}
       [] o = <<"free", "cspace">> -> {<<"free", "utspace">>, <<"free", "mspace">>}
       [] o = <<"alloc", "mspace">> -> {<<"alloc", "cspace">>, <<"alloc", "utspace">>, <<"free", "cspace">>}
       [] o = <<"free", "mspace">> -> {}
       [] o = <<"alloc", "utspace">> -> {<<"alloc", "mspace">>, <<"alloc", "cspace">>, <<"free", "cspace">>}
       [] o = <<"free", "utspace">> -> {<<"free", "cspace">>, <<"free", "mspace">>}]
===============================================================================
