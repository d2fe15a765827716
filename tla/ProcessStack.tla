---------------------------- MODULE ProcessStack ----------------------------
(***************************************************************************)
(* What libsel4utils puts on the stack of a new process or thread: the     *)
(* arguments, the frame that the C library reads at _start, and the        *)
(* thread-local storage.  The stack is written byte by byte into pages of  *)
(* another vspace, each of which may be missing or impossible to map.      *)
(***************************************************************************)
EXTENDS Integers, SequencesExt

CONSTANTS
  Word,          \* sizeof(seL4_Word)
  StackAlign,    \* STACK_CALL_ALIGNMENT
  StackPage,     \* PAGE_SIZE_4K; a smaller page is crossed more often
  StackSizes,    \* stack sizes, in pages
  PhdrBytes,     \* sizeof(Elf_Phdr)
  ArgLengths,    \* string lengths
  MaxArgs,       \* bound: arguments
  TlsSizes       \* sizes of the thread-local storage

ASSUME ProcessStackAssumption ==
  /\ Word \in {4, 8} /\ PhdrBytes \in Nat /\ MaxArgs \in Nat
  /\ StackAlign \in Nat \ {0} /\ StackAlign % (2 * Word) = 0
  /\ StackPage \in Nat /\ StackPage % StackAlign = 0 /\ StackPage >= 2 * StackAlign
  /\ StackSizes \subseteq Nat \ {0} /\ ArgLengths \subseteq Nat /\ TlsSizes \subseteq Nat

VARIABLES
  request,  \* what is asked for: the arguments, the headers, what fails
  outcome,  \* "none", "failed", "spawned", "spawned_v", "started"
  stk       \* the stack: bytes, pointers, and the state of the thread

stackVars == <<request, outcome, stk>>

(* Bytes: of a word, of the i-th argument (0 ends it), of a header.         *)
WordBytes(v) == [k \in 1 .. Word |-> <<"word", v, k>>]
StringBytes(i, n) == [k \in 1 .. n + 1 |-> IF k > n THEN <<"char", 0, 0>> ELSE <<"char", i, k>>]
PhdrsBytes(n) == [k \in 1 .. n * PhdrBytes |-> <<"phdr", 0, k>>]
Words(vs) ==
  [k \in 1 .. Len(vs) * Word |-> <<"word", vs[((k - 1) \div Word) + 1], ((k - 1) % Word) + 1>>]

AlignDown(a, b) == a - (a % b)

(* Memory, with some bytes written.                                         *)
Written(mem, w) ==
  [a \in DOMAIN mem \cup DOMAIN w |-> IF a \in DOMAIN w THEN w[a] ELSE mem[a]]

-----------------------------------------------------------------------------
(* sel4utils_stack_write: page by page, upwards; the stack pointer moves    *)
(* when all is written.  The page s.refuse cannot be mapped.                *)
stack_write(s, bytes) ==
  LET dest == s.sp - Len(bytes)
      Writable(q) == q \in 0 .. s.pages - 1 /\ q # s.refuse
      ok == {k \in 1 .. Len(bytes) :
               \A q \in dest \div StackPage .. (dest + k - 1) \div StackPage : Writable(q)}
  IN IF s.err THEN s
     ELSE [s EXCEPT !.mem = Written(@, [a \in {dest + k - 1 : k \in ok} |-> bytes[a - dest + 1]]),
                    !.sp = IF ok = 1 .. Len(bytes) THEN dest ELSE @,
                    !.err = ok # 1 .. Len(bytes)]

stack_write_constant(s, v) == stack_write(s, WordBytes(v))

(* The strings, each at an address of its own in argv.                      *)
stack_copy_args(s, lens) ==
  LET Point(w) == IF w.err THEN w
                  ELSE [w EXCEPT !.argv = Append(@, w.sp), !.sp = AlignDown(@, 4)]
      after[i \in 0 .. Len(lens)] ==
        IF i = 0 THEN s ELSE Point(stack_write(after[i - 1], StringBytes(i, lens[i])))
  IN after[Len(lens)]

(* sel4utils_spawn_process: argc and argv are passed in registers.          *)
spawn_process(s, q) ==
  LET Argv(a) == stack_write(a, Words(a.argv))
      Pointed(w) == [w EXCEPT !.arg1 = w.sp]
      Started(r) ==
        IF r.err THEN r
        ELSE [r EXCEPT !.sp = AlignDown(@ - Word, StackAlign),
                       !.initial = AlignDown(r.sp - Word, StackAlign), !.running = q.resume]
      first == [s EXCEPT !.sp = @ - Word]
  IN Started(IF q.args = <<>> THEN first ELSE Pointed(Argv(stack_copy_args(first, q.args))))

AT_PHDR == 3
AT_PHENT == 4
AT_PHNUM == 5
AT_PAGESZ == 6
AT_SYSINFO == 32
AT_SEL4_IPC_BUFFER_PTR == 64
AT_SEL4_TCB == 65

(* The auxiliary vector, for headers at an address; the process's addresses *)
(* of its buffer, TCB and system call entry are arbitrary words.            *)
Auxv(phdr, q) ==
  <<AT_PAGESZ, StackPage, AT_PHDR, phdr, AT_PHNUM, q.phdrs, AT_PHENT, PhdrBytes,
    AT_SEL4_IPC_BUFFER_PTR, 7, AT_SEL4_TCB, 5>> \o
  (IF q.sysinfo THEN <<AT_SYSINFO, 9>> ELSE <<>>)

(* Mutant: the alignment is not made up for. *)
StackRoundingNone(s, q) == s

(* The alignment is made up for before the frame is pushed.                 *)
StackRounding(s, q) ==
  LET push == 5 * Word + Len(Auxv(0, q)) * Word + Len(s.argv) * Word IN
  [s EXCEPT !.sp = @ - ((@ - push) % StackAlign)]

spawn_process_v(s, q) ==
  LET Twice(t) == stack_write_constant(stack_write_constant(t, 0), 0)
      Arguments(p) ==
        Twice(stack_write(Twice(StackRounding(stack_copy_args(p, q.args), q)),
                          Words(Auxv(p.sp, q))))
      Argv(e) == stack_write_constant(stack_write(e, Words(e.argv)), Len(q.args))
      Started(c) == IF c.err THEN c ELSE [c EXCEPT !.initial = c.sp, !.running = q.resume]
      headers == stack_write([s EXCEPT !.sp = @ - Word], PhdrsBytes(q.phdrs))
  IN Started(Argv(Arguments(headers)))

(* sel4utils_start_thread: the registers are written before the TLS base,   *)
(* and the thread is resumed after both.  q.refused names the invocation    *)
(* that fails.                                                              *)
start_thread(s, q) ==
  LET base == s.initial - q.tls
      w == [s EXCEPT !.mem = Written(@, [a \in base .. s.initial - 1 |-> <<"tls", 0, a - base>>])]
      r == [w EXCEPT !.sp = AlignDown(base, StackAlign)]
      t == [r EXCEPT !.tlsBase = base]
  IN IF q.tls > (s.pages * StackPage) \div 8 THEN [s EXCEPT !.err = TRUE]
     ELSE IF q.refused = "WriteRegisters" THEN [w EXCEPT !.err = TRUE]
     ELSE IF q.refused = "SetTLSBase" THEN [r EXCEPT !.err = TRUE]
     ELSE IF q.resume /\ q.refused = "Resume" THEN [t EXCEPT !.err = TRUE]
     ELSE [t EXCEPT !.running = q.resume]

-----------------------------------------------------------------------------
ArgLists == UNION {[1 .. n -> ArgLengths] : n \in 0 .. MaxArgs}

Requests ==
  [call : {"spawn"}, args : ArgLists, phdrs : {0}, sysinfo : {FALSE}, resume : BOOLEAN,
   tls : {0}, refused : {"none"}]
  \cup [call : {"spawn_v"}, args : ArgLists, phdrs : {0, 1}, sysinfo : BOOLEAN, resume : {TRUE},
        tls : {0}, refused : {"none"}]
  \cup [call : {"start"}, args : {<<>>}, phdrs : {0}, sysinfo : {FALSE}, resume : BOOLEAN,
        tls : TlsSizes, refused : {"none", "WriteRegisters", "SetTLSBase", "Resume"}]

StackInit ==
  /\ request \in Requests /\ outcome = "none"
  /\ stk \in {[pages |-> n, refuse |-> f, sp |-> n * StackPage, initial |-> n * StackPage,
               mem |-> <<>>, argv |-> <<>>, arg1 |-> 0, tlsBase |-> 0, running |-> FALSE,
               err |-> FALSE] : n \in StackSizes, f \in -1 .. 2}

Spawned(s, name) ==
  /\ outcome = "none" /\ outcome' = (IF s.err THEN "failed" ELSE name)
  /\ stk' = s /\ UNCHANGED request

sel4utils_spawn_process == request.call = "spawn" /\ Spawned(spawn_process(stk, request), "spawned")

sel4utils_spawn_process_v ==
  request.call = "spawn_v" /\ Spawned(spawn_process_v(stk, request), "spawned_v")

sel4utils_start_thread == request.call = "start" /\ Spawned(start_thread(stk, request), "started")

StackNext == sel4utils_spawn_process \/ sel4utils_spawn_process_v \/ sel4utils_start_thread

StackSpec == StackInit /\ [][StackNext]_stackVars

-----------------------------------------------------------------------------
BytesAt(a, bytes) ==
  \A k \in 1 .. Len(bytes) : a + k - 1 \in DOMAIN stk.mem /\ stk.mem[a + k - 1] = bytes[k]

(* An array of pointers at a, to the strings of the request.                *)
ArgvAt(a) ==
  \A i \in 1 .. Len(request.args) : \E p \in DOMAIN stk.mem :
     /\ BytesAt(a + (i - 1) * Word, WordBytes(p))
     /\ BytesAt(p, StringBytes(i, request.args[i]))

(* A spawned process reads back what its parent passed: argc and argv, and  *)
(* for _start the terminators and the auxiliary vector around them, with    *)
(* the program headers where AT_PHDR says; nothing overwrote anything else, *)
(* and the stack pointer is aligned.  A thread runs only with its registers *)
(* and TLS base set, on a stack below its thread-local storage.             *)
FrameReadable ==
  /\ outcome = "spawned_v" =>
       LET n == Len(request.args)
           env == stk.sp + (n + 1) * Word
           aux == Auxv(0, request)
       IN /\ BytesAt(stk.sp, WordBytes(n)) /\ ArgvAt(stk.sp + Word)
          /\ BytesAt(env, Words(<<0, 0>>))
          /\ \E p \in 0 .. stk.pages * StackPage :
               /\ BytesAt(env + 2 * Word, Words(Auxv(p, request) \o <<0, 0>>))
               /\ BytesAt(p, PhdrsBytes(request.phdrs))
          /\ stk.sp % (2 * Word) = 0
  /\ outcome = "spawned" =>
       /\ ArgvAt(stk.arg1) /\ stk.sp % StackAlign = 0
       /\ \A a \in DOMAIN stk.mem : a >= stk.sp
  /\ outcome = "started" /\ stk.running =>
       stk.tlsBase = stk.initial - request.tls /\ stk.sp \in 1 .. stk.tlsBase
=============================================================================
