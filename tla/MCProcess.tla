----------------------------- MODULE MCProcess -----------------------------
(***************************************************************************)
(* Processes for TLC: their configuration, the loading of their image,     *)
(* their first stack, the checkpoints of their threads, and the system     *)
(* calls of their C library.  The parts share no state: a behaviour uses   *)
(* one of them, chosen at its start.                                       *)
(***************************************************************************)
EXTENDS Process, Elf, ProcessStack, Checkpoint, Muslcsys

VARIABLE part

MCFileSizes == <<0, 3>>
MCReads == {<<1, 0>>, <<2, 2>>}
MCSeeks == {-1, 0, 2, 4, 9}

LibcParts == {"calls", "files", "area", "dynamic"}
Parts == {"process", "elf", "stack", "checkpoint"} \cup LibcParts

Idle(p) ==
  /\ p # "process" => UNCHANGED vars
  /\ p # "elf" => UNCHANGED elfVars
  /\ p # "stack" => UNCHANGED stackVars
  /\ p # "checkpoint" => UNCHANGED ckVars
  /\ p \notin LibcParts => UNCHANGED muslcVars

(* The parts that are not used stay in one of their initial states.         *)
MCInit ==
  /\ part \in Parts
  /\ Init /\ ElfInit /\ MuslcInit
  /\ part # "area" => area = CHOOSE a \in Areas : TRUE
  /\ IF part = "stack" THEN StackInit
     ELSE /\ request = CHOOSE q \in Requests : q.call = "spawn"
          /\ outcome = "none" /\ stk = [running |-> FALSE]
  /\ IF part = "checkpoint" THEN CkInit
     ELSE /\ regs = [pc |-> 0, sp |-> 0] /\ words = <<>> /\ run = "blocked"
          /\ checkpoint = NoCheckpoint /\ truth = <<regs, <<>>>>

MCNext ==
  /\ \/ part = "process" /\ Next
     \/ part = "elf" /\ ElfNext
     \/ part = "stack" /\ StackNext
     \/ part = "checkpoint" /\ CkNext
     \/ MuslcNext(part)
  /\ Idle(part) /\ UNCHANGED part

MCSpec == MCInit /\ [][MCNext]_<<vars, elfVars, stackVars, ckVars, muslcVars, part>>
=============================================================================
