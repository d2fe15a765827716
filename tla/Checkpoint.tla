----------------------------- MODULE Checkpoint -----------------------------
(***************************************************************************)
(* Checkpoints of threads (libsel4utils): a thread's registers and its     *)
(* stack are saved in two steps and restored in two steps, while the       *)
(* thread may receive a message and run unless it has been stopped.        *)
(***************************************************************************)
EXTENDS Naturals, Sequences

CONSTANTS
  StackWords,   \* words of a stack; word 1 is the one below stack_top
  Contents      \* what a word, or the program counter, can be

ASSUME CheckpointAssumption == StackWords \in Nat \ {0}

VARIABLES
  regs,         \* the thread's registers: pc, and sp as words in use
  words,        \* its stack
  run,          \* "blocked" in seL4_Recv, "running", "stopped"
  checkpoint,   \* sel4utils_checkpoint_t, and how far the call has come
  truth         \* the thread at the moment its registers were read

ckVars == <<regs, words, run, checkpoint, truth>>

NoCheckpoint == [state |-> "none", regs |-> [pc |-> 0, sp |-> 0], stack |-> <<>>,
                 suspend |-> FALSE]

InUse(w, sp) == SubSeq(w, 1, sp)

CkInit ==
  /\ regs \in [pc : Contents, sp : 0 .. StackWords]
  /\ words \in [1 .. StackWords -> Contents] /\ run = "blocked"
  /\ checkpoint = NoCheckpoint /\ truth = <<[pc |-> 0, sp |-> 0], <<>>>>

-----------------------------------------------------------------------------
(* The thread: a message arrives, it works on its stack, it waits again.    *)
Receive ==
  /\ run = "blocked" /\ run' = "running"
  /\ UNCHANGED <<regs, words, checkpoint, truth>>

Work(c, v, sp) ==
  /\ run = "running" /\ run' = "blocked"
  /\ regs' = [pc |-> c, sp |-> sp]
  /\ words' = [words EXCEPT ![IF sp = 0 THEN 1 ELSE sp] = v]
  /\ UNCHANGED <<checkpoint, truth>>

(* Its owner stops it before it is rolled back.                             *)
Stop ==
  /\ run = "blocked" /\ run' = "stopped"
  /\ UNCHANGED <<regs, words, checkpoint, truth>>

(* sel4utils_checkpoint_thread, of a blocked thread: seL4_TCB_ReadRegisters.*)
ReadRegisters(suspend) ==
  /\ run = "blocked" /\ checkpoint.state \in {"none", "freed"}
  /\ checkpoint' = [state |-> "regs", regs |-> regs, stack |-> <<>>, suspend |-> suspend]
  /\ run' = IF suspend THEN "stopped" ELSE run
  /\ truth' = <<regs, InUse(words, regs.sp)>>
  /\ UNCHANGED <<regs, words>>

(* Mutant: the copy starts one word too low. *)
CopyStackShort ==
  /\ checkpoint.state = "regs"
  /\ checkpoint' = [checkpoint EXCEPT !.state = "full",
                      !.stack = InUse(words, IF checkpoint.regs.sp = 0 THEN 0
                                             ELSE checkpoint.regs.sp - 1)]
  /\ UNCHANGED <<regs, words, run, truth>>

(* Its second half: the stack, from the stack pointer that was read.        *)
CopyStack ==
  /\ checkpoint.state = "regs"
  /\ checkpoint' = [checkpoint EXCEPT !.state = "full",
                                      !.stack = InUse(words, checkpoint.regs.sp)]
  /\ UNCHANGED <<regs, words, run, truth>>

(* malloc fails: the thread may stay suspended.                             *)
NoMemory ==
  /\ checkpoint.state = "regs" /\ checkpoint' = NoCheckpoint
  /\ UNCHANGED <<regs, words, run, truth>>

(* sel4utils_checkpoint_restore of a stopped thread: the stack first.       *)
RestoreStack ==
  /\ checkpoint.state = "full" /\ run = "stopped"
  /\ words' = [k \in 1 .. StackWords |->
                 IF k <= Len(checkpoint.stack) THEN checkpoint.stack[k] ELSE words[k]]
  /\ checkpoint' = [checkpoint EXCEPT !.state = "restoring"]
  /\ UNCHANGED <<regs, run, truth>>

(* Then the registers; a refusal keeps the checkpoint.                      *)
WriteRegisters(fails, free, resume) ==
  /\ checkpoint.state = "restoring"
  /\ regs' = IF fails THEN regs ELSE checkpoint.regs
  /\ run' = IF resume /\ ~fails THEN "running" ELSE run
  /\ checkpoint' = [checkpoint EXCEPT !.state = IF free /\ ~fails THEN "freed" ELSE "full"]
  /\ UNCHANGED <<words, truth>>

sel4utils_free_checkpoint ==
  /\ checkpoint.state = "full"
  /\ checkpoint' = [checkpoint EXCEPT !.state = "freed", !.stack = <<>>]
  /\ UNCHANGED <<regs, words, run, truth>>

CkNext ==
  \/ Receive \/ Stop \/ CopyStack \/ NoMemory \/ RestoreStack \/ sel4utils_free_checkpoint
  \/ \E c, v \in Contents, sp \in 0 .. StackWords : Work(c, v, sp)
  \/ \E suspend \in BOOLEAN : ReadRegisters(suspend)
  \/ \E fails, free, resume \in BOOLEAN : WriteRegisters(fails, free, resume)

CkSpec == CkInit /\ [][CkNext]_ckVars

-----------------------------------------------------------------------------
(* A thread that was suspended by its checkpoint is rolled back to exactly  *)
(* what it was, however often it ran and was rolled back in between.        *)
RestoreExact ==
  [][checkpoint.state = "restoring" /\ checkpoint.suspend /\ regs' = checkpoint.regs =>
       /\ regs' = truth[1]
       /\ InUse(words', regs'.sp) = truth[2]]_ckVars
=============================================================================
