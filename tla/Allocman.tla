------------------------------- MODULE Allocman -------------------------------
(***************************************************************************)
(* The allocation manager of libsel4allocman (allocman.c).  Three          *)
(* allocators, for CSpace slots, memory and untypeds, are plugged into it  *)
(* and need each other: while one allocates or frees it calls the manager  *)
(* for the others, and so, indirectly, for itself.  The manager breaks the *)
(* circle: an allocation that would re-enter its allocator is served from  *)
(* a reserve (the watermark), a free that would is put in a queue, and     *)
(* both are put right when the outermost operation ends.                   *)
(*                                                                         *)
(* The C call stack is the variable stack.  The allocators are the         *)
(* environment: a callback makes any nested calls that Nested allows it,   *)
(* then succeeds or fails.  Resources are counted, by the place where they *)
(* are: books[place][space].                                               *)
(***************************************************************************)
EXTENDS Integers, Sequences

CONSTANTS
  Total,          \* per space, how much its allocator has at the start
  Desired,        \* per space, the size of its reserve
  QueueSize,      \* per space, desired_freed_...: the length of its queue
  Nested,         \* per operation, the operations its callback may call
  MaxNested       \* bound on the calls one callback makes

Spaces == {"cspace", "mspace", "utspace"}

Operations == {"alloc", "free"} \X Spaces

(* avail: with its allocator.  user, inner: in use, by callers and by the    *)
(* allocators.  reserve: the watermark; with_chunk: the slots its untypeds   *)
(* sit in.  queue: waiting to be freed.  hand: a slot _refill_watermark()    *)
(* holds.  new_array, array: memory that resize_array() has been given, and  *)
(* that it has put to use.  freeing: passed to a free callback.  leaked:     *)
(* lost.                                                                    *)
Places ==
  {"avail", "user", "inner", "reserve", "with_chunk", "queue", "hand", "new_array", "array",
   "freeing", "leaked"}

ASSUME AllocmanConfig ==
  /\ Total \in [Spaces -> Nat] /\ Desired \in [Spaces -> Nat] /\ QueueSize \in [Spaces -> Nat]
  /\ Nested \in [Operations -> SUBSET Operations]
  /\ MaxNested \in Nat

VARIABLES
  books,
  stack,           \* calls in progress, the innermost last
  in_operation,
  used_watermark,
  refilling        \* refilling_watermark

vars == <<books, stack, in_operation, used_watermark, refilling>>

(* A manager as it is after bootstrapping: attached, reserves configured    *)
(* and not yet filled.                                                      *)
Init ==
  /\ books = [p \in Places |-> [s \in Spaces |-> IF p = "avail" THEN Total[s] ELSE 0]]
  /\ stack = <<>>
  /\ in_operation = FALSE
  /\ used_watermark = TRUE
  /\ refilling = FALSE

-----------------------------------------------------------------------------
Top == stack[Len(stack)]
Below == SubSeq(stack, 1, Len(stack) - 1)

(* The innermost call is about to end. *)
Ending == Append(Below, [Top EXCEPT !.stage = "ending"])

InCallback(s) == {k \in DOMAIN stack : stack[k].space = s /\ stack[k].stage = "callback"}

(* Mutant: freeing does not keep an allocator from being entered. *)
CanEnterFreeing(s) == {k \in InCallback(s) : stack[k].op = "alloc"} = {}

(* _can_alloc() and _can_free() with the default properties, which all       *)
(* allocators have: neither while the allocator is at work already.         *)
CanEnter(s) == InCallback(s) = {}

Moved(bs, s, from, to) == [[bs EXCEPT ![from][s] = @ - 1] EXCEPT ![to][s] = @ + 1]

(* A call is a frame: its operation and space, whether it is the outermost   *)
(* one (root), where what it allocates goes, whether the reserve may be      *)
(* used, and how many nested calls it may still make.                       *)
Frame(op, s, dest, reserve) ==
  [op |-> op, space |-> s, root |-> ~in_operation, dest |-> dest, reserve |-> reserve,
   stage |-> "callback", calls |-> MaxNested]

RefillFrame ==
  [op |-> "refill", space |-> "none", stage |-> "free cspace", limit |-> 0,
   found |-> FALSE, did |-> FALSE]

(* allocman_..._free(): with the books bs and calls stk, what is in place    *)
(* from is passed to the allocator, or queued if that is at work, or lost    *)
(* if the queue is full.                                                    *)
CallFree(s, from, bs, stk) ==
  IF CanEnter(s)
    THEN /\ books' = Moved(bs, s, from, "freeing")
         /\ stack' = Append(stk, Frame("free", s, "avail", FALSE))
         /\ in_operation' = TRUE
    ELSE /\ books' = Moved(bs, s, from, IF bs["queue"][s] = QueueSize[s] THEN "leaked" ELSE "queue")
         /\ stack' = stk
         /\ UNCHANGED in_operation

(* Mutant: the count of the reserve is not decremented. *)
TakeReserveLeaves(s, dest, stk) ==
  /\ used_watermark' = TRUE
  /\ books' = [books EXCEPT ![dest][s] = @ + 1]
  /\ stack' = stk
  /\ UNCHANGED in_operation

(* _try_watermark_...(): the resource goes to dest; the slot an untyped sat *)
(* in is freed.                                                             *)
TakeReserve(s, dest, stk) ==
  /\ used_watermark' = TRUE
  /\ IF s = "utspace"
       THEN CallFree("cspace", "with_chunk", Moved(books, s, "reserve", dest), stk)
       ELSE books' = Moved(books, s, "reserve", dest) /\ stack' = stk /\ UNCHANGED in_operation

(* _allocman_..._alloc(): into the allocator, else from the reserve, else    *)
(* the call fails at once.                                                  *)
CallAlloc(s, dest, reserve, stk) ==
  CASE CanEnter(s) ->
         /\ stack' = Append(stk, Frame("alloc", s, dest, reserve))
         /\ in_operation' = TRUE
         /\ UNCHANGED <<books, used_watermark>>
    [] ~CanEnter(s) /\ reserve /\ books["reserve"][s] > 0 -> TakeReserve(s, dest, stk)
    [] OTHER -> stack' = stk /\ UNCHANGED <<books, in_operation, used_watermark>>

(* _end_operation(), which starts _refill_watermark() after a root operation *)
EndsOperation(root, stk, used) ==
  /\ in_operation' = ~root
  /\ IF root /\ used /\ ~refilling
       THEN stack' = Append(stk, RefillFrame) /\ refilling' = TRUE
       ELSE stack' = stk /\ UNCHANGED refilling

-----------------------------------------------------------------------------
Idle == stack = <<>>

(* An untyped at a given address is never taken from the reserve. *)
UserAllocs(s) ==
  /\ Idle
  /\ \E reserve \in {TRUE, s # "utspace"} : CallAlloc(s, "user", reserve, stack)
  /\ UNCHANGED refilling

UserFrees(s) ==
  /\ Idle
  /\ books["user"][s] > 0
  /\ CallFree(s, "user", books, stack)
  /\ UNCHANGED <<used_watermark, refilling>>

(* An operation of the manager itself, with no callback. *)
OwnFrame(op, stage) == [op |-> op, space |-> "none", root |-> ~in_operation, stage |-> stage]

(* allocman_fill_reserves(): refill, whatever used_watermark says, then end *)
FillReserves ==
  /\ Idle
  /\ in_operation' = TRUE
  /\ used_watermark' = TRUE
  /\ refilling' = TRUE
  /\ stack' = <<OwnFrame("fill", "ending"), RefillFrame>>
  /\ UNCHANGED books

(* resize_array() gets the new array... *)
ResizeStarts ==
  /\ Idle
  /\ ~in_operation
  /\ in_operation' = TRUE
  /\ stack' = <<OwnFrame("resize", "allocate")>>
  /\ UNCHANGED <<books, used_watermark, refilling>>

Resizes(stage) == ~Idle /\ Top.op = "resize" /\ Top.stage = stage

ResizeAllocates ==
  /\ Resizes("allocate")
  /\ CallAlloc("mspace", "new_array", TRUE, Append(Below, [Top EXCEPT !.stage = "switch"]))
  /\ UNCHANGED refilling

(* ...returns in mid operation if there is none, or it is too small to hold  *)
(* what the reserve holds, and then the new array is lost...                *)
ResizeFails ==
  /\ Resizes("switch")
  /\ books' = IF books["new_array"]["mspace"] > 0 THEN Moved(books, "mspace", "new_array", "leaked") ELSE books
  /\ stack' = Below
  /\ UNCHANGED <<in_operation, used_watermark, refilling>>

Switched == Moved(books, "mspace", "new_array", "array")

(* Mutant: the old array is not freed. *)
ResizeSwitchesKeeps ==
  /\ Resizes("switch")
  /\ books["new_array"]["mspace"] > 0
  /\ used_watermark' = TRUE
  /\ books' = Switched
  /\ stack' = Ending
  /\ UNCHANGED <<in_operation, refilling>>

(* ...or frees the old array and puts the new one to use. *)
ResizeSwitches ==
  /\ Resizes("switch")
  /\ books["new_array"]["mspace"] > 0
  /\ used_watermark' = TRUE
  /\ IF books["array"]["mspace"] > 0
       THEN CallFree("mspace", "array", Switched, Ending)
       ELSE books' = Switched /\ stack' = Ending /\ UNCHANGED in_operation
  /\ UNCHANGED refilling

InAllocator == ~Idle /\ Top.stage = "callback"

(* The allocator at work calls the manager. *)
CalledFrame == [Top EXCEPT !.calls = @ - 1]

NestedAlloc(s) ==
  /\ InAllocator
  /\ Top.calls > 0
  /\ <<"alloc", s>> \in Nested[<<Top.op, Top.space>>]
  /\ CallAlloc(s, "inner", TRUE, Append(Below, CalledFrame))
  /\ UNCHANGED refilling

NestedFree(s) ==
  /\ InAllocator
  /\ Top.calls > 0
  /\ <<"free", s>> \in Nested[<<Top.op, Top.space>>]
  /\ books["inner"][s] > 0
  /\ CallFree(s, "inner", books, Append(Below, CalledFrame))
  /\ UNCHANGED <<used_watermark, refilling>>

(* What an allocation for the reserve means to _refill_watermark(). *)
Progress(stk, dest) ==
  IF dest = "reserve" THEN [stk EXCEPT ![Len(stk)].did = TRUE] ELSE stk

(* An untyped for the reserve keeps the slot it was put in. *)
WithSlot(bs, s, dest) ==
  IF s = "utspace" /\ dest = "reserve" THEN Moved(bs, "cspace", "hand", "with_chunk") ELSE bs

(* The allocator returns successfully... *)
AllocSucceeds ==
  /\ InAllocator
  /\ Top.op = "alloc"
  /\ books["avail"][Top.space] > 0
  /\ books' = WithSlot(Moved(books, Top.space, "avail", Top.dest), Top.space, Top.dest)
  /\ EndsOperation(Top.root, Progress(Below, Top.dest), used_watermark)
  /\ UNCHANGED used_watermark

(* ...or with an error, for which the reserve steps in, if it may and can. *)
AllocFails ==
  /\ InAllocator
  /\ Top.op = "alloc"
  /\ IF Top.reserve /\ books["reserve"][Top.space] > 0
       THEN TakeReserve(Top.space, Top.dest, Ending)
       ELSE stack' = Ending /\ UNCHANGED <<books, in_operation, used_watermark>>
  /\ UNCHANGED refilling

(* The end of a failed allocation, a resize or a fill. *)
OperationEnds ==
  /\ ~Idle
  /\ Top.stage = "ending"
  /\ EndsOperation(Top.root, Below, used_watermark)
  /\ UNCHANGED <<books, used_watermark>>

FreeEnds ==
  /\ InAllocator
  /\ Top.op = "free"
  /\ books' = Moved(books, Top.space, "freeing", "avail")
  /\ EndsOperation(Top.root, Below, used_watermark)
  /\ UNCHANGED used_watermark

-----------------------------------------------------------------------------
(* _refill_watermark(), one round after the other                           *)

Refilling(stage) == ~Idle /\ Top.op = "refill" /\ Top.stage = stage

(* The refill's own frame, at its next stage. *)
RefillAt(stage, found, did) ==
  Append(Below, [Top EXCEPT !.stage = stage, !.found = @ \/ found, !.did = @ \/ did])

(* Empty the queue of space s, then go on. *)
Drain(s, stage, next) ==
  /\ Refilling(stage)
  /\ IF books["queue"][s] > 0
       THEN CallFree(s, "queue", books, RefillAt(stage, FALSE, TRUE))
       ELSE stack' = RefillAt(next, FALSE, FALSE) /\ UNCHANGED <<books, in_operation>>
  /\ UNCHANGED <<used_watermark, refilling>>

(* One more for the reserve of space s, if it is short. *)
Replenish(s, stage, next) ==
  /\ Refilling(stage)
  /\ IF books["reserve"][s] < Desired[s]
       THEN CallAlloc(s, "reserve", FALSE, RefillAt(next, TRUE, FALSE))
       ELSE stack' = RefillAt(next, FALSE, FALSE) /\ UNCHANGED <<books, in_operation, used_watermark>>
  /\ UNCHANGED refilling

(* An untyped needs a slot first. *)
GrabSlot ==
  /\ Refilling("slot")
  /\ IF books["reserve"]["utspace"] < Desired["utspace"]
       THEN CallAlloc("cspace", "hand", TRUE, RefillAt("utspace", TRUE, FALSE))
       ELSE stack' = RefillAt("mspace", FALSE, FALSE) /\ UNCHANGED <<books, in_operation, used_watermark>>
  /\ UNCHANGED refilling

ReplenishUtspace ==
  /\ Refilling("utspace")
  /\ IF books["hand"]["cspace"] > 0
       THEN CallAlloc("utspace", "reserve", FALSE, RefillAt("slot back", FALSE, FALSE))
       ELSE stack' = RefillAt("mspace", FALSE, FALSE) /\ UNCHANGED <<books, in_operation, used_watermark>>
  /\ UNCHANGED refilling

(* "Give the slot back" if there is no untyped for it. *)
SlotBack ==
  /\ Refilling("slot back")
  /\ IF books["hand"]["cspace"] > 0
       THEN CallFree("cspace", "hand", books, RefillAt("mspace", FALSE, FALSE))
       ELSE stack' = RefillAt("mspace", FALSE, FALSE) /\ UNCHANGED <<books, in_operation>>
  /\ UNCHANGED <<used_watermark, refilling>>

(* At most four rounds, as long as they help. *)
AnotherRound == Top.found /\ Top.did /\ Top.limit + 1 < 4

(* Mutant: the rounds are not counted. *)
RoundUncounted ==
  /\ Refilling("round")
  /\ IF AnotherRound
       THEN stack' = Append(Below, RefillFrame) /\ UNCHANGED <<refilling, used_watermark>>
       ELSE stack' = Below /\ refilling' = FALSE /\ used_watermark' = Top.found
  /\ UNCHANGED <<books, in_operation>>

Round ==
  /\ Refilling("round")
  /\ IF AnotherRound
       THEN /\ stack' = Append(Below, [RefillFrame EXCEPT !.limit = Top.limit + 1])
            /\ UNCHANGED <<refilling, used_watermark>>
       ELSE /\ stack' = Below
            /\ refilling' = FALSE
            /\ used_watermark' = Top.found
  /\ UNCHANGED <<books, in_operation>>

Refill ==
  \/ Drain("cspace", "free cspace", "free mspace")
  \/ Drain("mspace", "free mspace", "free utspace")
  \/ Drain("utspace", "free utspace", "cspace")
  \/ Replenish("cspace", "cspace", "slot")
  \/ GrabSlot \/ ReplenishUtspace \/ SlotBack
  \/ Replenish("mspace", "mspace", "round")
  \/ Round

CallbackReturns == AllocSucceeds \/ AllocFails \/ FreeEnds

Resize == ResizeAllocates \/ ResizeFails \/ ResizeSwitches

Next ==
  \/ \E s \in Spaces : UserAllocs(s) \/ UserFrees(s) \/ NestedAlloc(s) \/ NestedFree(s)
  \/ FillReserves \/ ResizeStarts
  \/ CallbackReturns \/ OperationEnds \/ Resize
  \/ Refill

Spec == Init /\ [][Next]_vars

(* The program runs, and callbacks, with a bounded number of calls, return. *)
FairSpec == Spec /\ WF_vars(CallbackReturns \/ OperationEnds \/ Resize \/ Refill)

-----------------------------------------------------------------------------
(* Properties.                                                             *)

(* The calls in progress.  Only an allocation may end with an error; for    *)
(* the reserve it does not use the reserve.                                 *)
CallFrames ==
  {f \in [op : {"alloc", "free"}, space : Spaces, root : BOOLEAN, dest : Places, reserve : BOOLEAN,
          stage : {"callback", "ending"}, calls : Nat] :
     \/ f.op = "free" /\ f.stage = "callback"
     \/ /\ f.op = "alloc"
        /\ \/ f.dest \in {"user", "inner"}
           \/ f.dest = "reserve" /\ ~f.reserve
           \/ f.dest = "hand" /\ f.space = "cspace"
           \/ f.dest = "new_array" /\ f.space = "mspace"}

RefillFrames ==
  [op : {"refill"}, space : {"none"}, limit : Nat, found : BOOLEAN, did : BOOLEAN,
   stage : {"free cspace", "free mspace", "free utspace", "cspace", "slot", "utspace", "slot back",
            "mspace", "round"}]

OwnFrames ==
  [op : {"fill", "resize"}, space : {"none"}, root : BOOLEAN, stage : {"allocate", "switch", "ending"}]

(* The type invariant. *)
TypeOK ==
  /\ books \in [Places -> [Spaces -> Nat]]
  /\ stack \in Seq(CallFrames \cup RefillFrames \cup OwnFrames)
  /\ in_operation \in BOOLEAN /\ used_watermark \in BOOLEAN /\ refilling \in BOOLEAN

Everywhere(b, s) ==
  b["avail"][s] + b["user"][s] + b["inner"][s] + b["reserve"][s] + b["with_chunk"][s] + b["queue"][s]
    + b["hand"][s] + b["new_array"][s] + b["array"][s] + b["freeing"][s] + b["leaked"][s]

(* Every resource is somewhere, once, whatever calls what and fails when:   *)
(* what the watermark, the queues and the refill take from one place is put *)
(* in another.                                                              *)
Conserved ==
  /\ TypeOK
  /\ \A s \in Spaces : Everywhere(books, s) = Total[s]

(* The arrays of the reserves and of the queues are not overrun, although   *)
(* the refill that fills them calls back into allocators that use them.     *)
WithinArrays ==
  \A s \in Spaces : books["reserve"][s] <= Desired[s] /\ books["queue"][s] <= QueueSize[s]

(* An allocator is never entered while it is at work, and the refill runs   *)
(* once at a time: what _can_alloc(), _can_free() and refilling_watermark   *)
(* are there for.  What the refill allocates it waits for; resize_array()   *)
(* and allocman_fill_reserves() are called from outside.                    *)
NotReentered(st, refill) ==
  /\ \A j, k \in DOMAIN st :
       st[j].stage = "callback" /\ st[k].stage = "callback" /\ st[j].space = st[k].space => j = k
  /\ \A j, k \in DOMAIN st : st[j].op = "refill" /\ st[k].op = "refill" => j = k
  /\ refill <=> \E k \in DOMAIN st : st[k].op = "refill"
  /\ \A k \in DOMAIN st :
       /\ st[k].op = "alloc" /\ st[k].dest \in {"reserve", "hand"} => k > 1 /\ st[k - 1].op = "refill"
       /\ st[k].op \in {"fill", "resize"} => k = 1

(* Whatever the refill and the callbacks call while reserves and queues are *)
(* in use, no array is overrun, no allocator is entered while it is at work *)
(* and one refill runs at a time.                                           *)
CallsContained == WithinArrays /\ NotReentered(stack, refilling)

At(st, op, stage) == \E k \in DOMAIN st : st[k].op = op /\ st[k].stage = stage
Gets(st, s, dest) ==
  \E k \in DOMAIN st : st[k].space = s /\ st[k].stage = "callback" /\ st[k].op = "alloc" /\ st[k].dest = dest
Frees(st, s) == \E k \in DOMAIN st : st[k].space = s /\ st[k].op = "free"

(* What the manager holds while calls are in progress is what they hold: a  *)
(* reserve being filled has room; the slot in hand belongs to a refill, the *)
(* new array to resize_array(), and what is being freed to a free.          *)
HeldByCalls(b, st) ==
  /\ \A s \in Spaces : Gets(st, s, "reserve") => b["reserve"][s] < Desired[s]
  /\ At(st, "refill", "utspace") => b["reserve"]["utspace"] < Desired["utspace"]
  /\ Gets(st, "utspace", "reserve") => b["hand"]["cspace"] = 1 /\ At(st, "refill", "slot back")
  /\ Gets(st, "cspace", "hand") => b["hand"]["cspace"] = 0 /\ At(st, "refill", "utspace")
  /\ b["hand"]["cspace"] \in {0, 1}
  /\ b["hand"]["cspace"] = 1 => At(st, "refill", "utspace") \/ At(st, "refill", "slot back")
  /\ Gets(st, "mspace", "new_array") => b["new_array"]["mspace"] = 0 /\ At(st, "resize", "switch")
  /\ b["new_array"]["mspace"] \in {0, 1}
  /\ b["new_array"]["mspace"] = 1 => At(st, "resize", "switch")
  /\ \A s \in Spaces : b["freeing"][s] = IF Frees(st, s) THEN 1 ELSE 0

(* Each untyped in the reserve has the slot _refill_watermark() got for it, *)
(* resize_array() leaves one array, and between operations no slot is in    *)
(* hand, no array half installed and no free under way, whatever the        *)
(* callbacks called and wherever they failed.                               *)
NothingHalfDone ==
  /\ books["with_chunk"]["cspace"] = books["reserve"]["utspace"]
  /\ books["array"]["mspace"] <= 1
  /\ HeldByCalls(books, stack)
  /\ Idle => /\ books["hand"]["cspace"] = 0
             /\ books["new_array"]["mspace"] = 0
             /\ \A s \in Spaces : books["freeing"][s] = 0

(* Operations end: _refill_watermark() does not go round for ever. *)
OperationsEnd == []<>Idle

(* _start_operation() "returns whether this is the root operation, or a      *)
(* dependent call": with no call in progress the next one is a root.        *)
RootKnown == Idle => ~in_operation
===============================================================================
