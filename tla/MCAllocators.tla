---------------------------- MODULE MCAllocators ----------------------------
(***************************************************************************)
(* What an allocation manager is made of, for TLC.  The parts share no     *)
(* state: a behaviour uses one of them, chosen at its start, and the       *)
(* others stay as they were created.                                       *)
(***************************************************************************)
EXTENDS CSpaces, SplitUtspace, Bootstrap, MemPool

(* Untypeds of every pool, one of them without a physical address.         *)
Root(p, a, b, k) == [pool |-> p, addr |-> a, size |-> b, known |-> k]

AllPools ==
  {Root("kernel", 0, 2, TRUE), Root("dev_mem", 4, 1, TRUE), Root("dev", 6, 0, TRUE),
   Root("kernel", 8, 1, FALSE)}

MCBIT == [b \in 0 .. 3 |-> 2^b]

(* The CSpace of a root task and those of processes made by libsel4utils,  *)
(* with and without a fault endpoint.                                      *)
Ut(bits, at, isDev) == [bits |-> bits, base |-> at, dev |-> isDev]

UntypedLists == {
  <<Ut(6, 64, FALSE), Ut(3, 0, FALSE), Ut(4, 16, TRUE)>>,
  <<Ut(5, 32, FALSE)>>,
  <<Ut(5, 96, TRUE), Ut(6, 0, FALSE), Ut(5, 64, FALSE)>>}

(* The root task: TCB, CNode and page directory in the slots that the       *)
(* kernel puts them; the scheduling control capabilities are in bootinfo    *)
(* and not among those that simple counts.                                  *)
RootLayout(us) == [tcb |-> 1, cnode |-> 2, pd |-> 3, listed |-> 1 .. 4, hidden |-> {5},
                   utStart |-> 6, uts |-> us, bits |-> 5]

(* A process, whose CNode is in the first slot.                             *)
ProcessLayout(us, endpoint) ==
  [tcb |-> 5, cnode |-> 1, pd |-> 3, listed |-> {1, 3, 5} \cup endpoint, hidden |-> {},
   utStart |-> 6, uts |-> us, bits |-> 5]

MCLayouts ==
  {RootLayout(us) : us \in UntypedLists} \cup
  {ProcessLayout(us, e) : us \in UntypedLists, e \in {{}, {2}}}

Region(at, length, ram) == [base |-> at, length |-> length, ram |-> ram]

MCRegionLists == {
  <<>>,
  <<Region(0, 20, TRUE), Region(26, 3, TRUE)>>,
  <<Region(16, 4, FALSE), Region(21, 20, TRUE)>>,
  <<Region(24, 2, TRUE), Region(17, 2, TRUE)>>,
  <<Region(97, 3, TRUE), Region(104, 8, TRUE)>>,
  <<Region(112, 16, TRUE)>>}

-----------------------------------------------------------------------------
VARIABLE inUse

AllocatorsInit ==
  /\ SingleInit /\ TwoInit /\ SplitInit /\ BootInit /\ PoolInit
  /\ inUse \in {"single", "two", "split", "boot", "pool"}
  /\ inUse # "boot" => /\ call = "use_bootinfo" /\ regions = <<>>
                       /\ layout = RootLayout(CHOOSE us \in UntypedLists : TRUE)
  /\ inUse # "pool" => base["virtual"] = Min(VBases)

UseSingle ==
  /\ inUse = "single" /\ SingleNext
  /\ UNCHANGED <<twoVars, splitVars, bootVars, poolVars, inUse>>

UseTwo ==
  /\ inUse = "two" /\ TwoNext
  /\ UNCHANGED <<singleVars, splitVars, bootVars, poolVars, inUse>>

UseSplit ==
  /\ inUse = "split" /\ SplitNext
  /\ UNCHANGED <<singleVars, twoVars, bootVars, poolVars, inUse>>

UseBoot ==
  /\ inUse = "boot" /\ BootNext
  /\ UNCHANGED <<singleVars, twoVars, splitVars, poolVars, inUse>>

UsePool ==
  /\ inUse = "pool" /\ PoolNext
  /\ UNCHANGED <<singleVars, twoVars, splitVars, bootVars, inUse>>

AllocatorsSpec ==
  /\ AllocatorsInit
  /\ [][UseSingle \/ UseTwo \/ UseSplit \/ UseBoot \/ UsePool]_<<singleVars, twoVars, splitVars, bootVars,
                                                              poolVars, inUse>>
===============================================================================
