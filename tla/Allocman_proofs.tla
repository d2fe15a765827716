---------------------------- MODULE Allocman_proofs ----------------------------
(***************************************************************************)
(* Proofs about the allocation manager, for any amounts, any sizes of the  *)
(* reserves and queues, any calls that the allocators make and any depth   *)
(* of them: Conserved, CallsContained and NothingHalfDone together are     *)
(* inductive.                                                              *)
(***************************************************************************)
EXTENDS Allocman, SequenceTheorems, TLAPS

Frames == CallFrames \cup RefillFrames \cup OwnFrames

(* The stack without its top. *)
Under(st) == SubSeq(st, 1, Len(st) - 1)
Last(st) == st[Len(st)]

(* A frame pushed on the calls in progress, as a sequence. *)
LEMMA Pushed ==
  ASSUME NEW st \in Seq(Frames), NEW f \in Frames
  PROVE  /\ Append(st, f) \in Seq(Frames)
         /\ Len(Append(st, f)) = Len(st) + 1
         /\ DOMAIN Append(st, f) = 1 .. Len(st) + 1
         /\ \A k \in 1 .. Len(st) : Append(st, f)[k] = st[k]
         /\ Append(st, f)[Len(st) + 1] = f
BY DEF Frames

(* The calls without the innermost one, as a sequence. *)
LEMMA Popped ==
  ASSUME NEW st \in Seq(Frames), st # <<>>
  PROVE  /\ Len(st) \in Nat /\ Len(st) >= 1 /\ DOMAIN st = 1 .. Len(st)
         /\ Last(st) \in Frames
         /\ Under(st) \in Seq(Frames)
         /\ Len(Under(st)) = Len(st) - 1
         /\ DOMAIN Under(st) = 1 .. Len(st) - 1
         /\ \A k \in 1 .. Len(st) - 1 : Under(st)[k] = st[k]
<1>1. Len(st) \in Nat /\ Len(st) >= 1 /\ DOMAIN st = 1 .. Len(st)
  BY EmptySeq
<1>2. Last(st) \in Frames
  BY <1>1 DEF Last
<1> QED
  BY <1>1, <1>2, SubSeqProperties DEF Under

-----------------------------------------------------------------------------
(* What a push, and a pop, mean to what the invariants say of the calls.   *)

(* What a push adds to the calls under way. *)
LEMMA SeenPushed ==
  ASSUME NEW st \in Seq(Frames), NEW f \in Frames
  PROVE  /\ \A op, stage : At(Append(st, f), op, stage) <=> (At(st, op, stage) \/ (f.op = op /\ f.stage = stage))
         /\ \A s, dest : Gets(Append(st, f), s, dest) <=>
              (Gets(st, s, dest) \/ (f.space = s /\ f.stage = "callback" /\ f.op = "alloc" /\ f.dest = dest))
         /\ \A s : Frees(Append(st, f), s) <=> (Frees(st, s) \/ (f.space = s /\ f.op = "free"))
<1> DEFINE n == Len(st)
<1>1. n \in Nat /\ DOMAIN st = 1 .. n
  OBVIOUS
<1>2. /\ DOMAIN Append(st, f) = 1 .. n + 1
      /\ \A k \in 1 .. n : Append(st, f)[k] = st[k]
      /\ Append(st, f)[n + 1] = f
  BY Pushed
<1> DEFINE st2 == Append(st, f)
<1> HIDE DEF n, st2
<1>3. DOMAIN st2 = 1 .. n + 1 /\ (\A k \in 1 .. n : st2[k] = st[k]) /\ st2[n + 1] = f
  BY <1>2 DEF st2
<1>4. \A k \in 1 .. n + 1 : k \in 1 .. n \/ k = n + 1
  BY <1>1
<1>5. (1 .. n) \subseteq 1 .. n + 1 /\ n + 1 \in 1 .. n + 1
  BY <1>1
<1>6. ASSUME NEW op, NEW stage
      PROVE  At(st2, op, stage) <=> (At(st, op, stage) \/ (f.op = op /\ f.stage = stage))
  BY <1>1, <1>3, <1>4, <1>5 DEF At
<1>7. ASSUME NEW s, NEW dest
      PROVE  Gets(st2, s, dest) <=>
              (Gets(st, s, dest) \/ (f.space = s /\ f.stage = "callback" /\ f.op = "alloc" /\ f.dest = dest))
  BY <1>1, <1>3, <1>4, <1>5 DEF Gets
<1>8. ASSUME NEW s
      PROVE  Frees(st2, s) <=> (Frees(st, s) \/ (f.space = s /\ f.op = "free"))
  BY <1>1, <1>3, <1>4, <1>5 DEF Frees
<1> QED
  BY <1>6, <1>7, <1>8 DEF st2

(* What the innermost call adds to those below it. *)
LEMMA SeenPopped ==
  ASSUME NEW st \in Seq(Frames), st # <<>>
  PROVE  /\ \A op, stage : At(st, op, stage) <=> (At(Under(st), op, stage) \/ (Last(st).op = op /\ Last(st).stage = stage))
         /\ \A s, dest : Gets(st, s, dest) <=>
              \/ Gets(Under(st), s, dest)
              \/ Last(st).space = s /\ Last(st).stage = "callback" /\ Last(st).op = "alloc" /\ Last(st).dest = dest
         /\ \A s : Frees(st, s) <=> (Frees(Under(st), s) \/ (Last(st).space = s /\ Last(st).op = "free"))
<1> DEFINE n == Len(st)
           u == Under(st)
           f == Last(st)
<1>1. /\ n \in Nat /\ n >= 1 /\ DOMAIN st = 1 .. n
      /\ DOMAIN u = 1 .. n - 1 /\ \A k \in 1 .. n - 1 : u[k] = st[k]
  BY Popped
<1>2. st[n] = f
  BY DEF Last
<1> HIDE DEF n, u, f
<1>3. (\A k \in 1 .. n : k \in 1 .. n - 1 \/ k = n) /\ (1 .. n - 1) \subseteq 1 .. n /\ n \in 1 .. n
  BY <1>1
<1>4. ASSUME NEW op, NEW stage
      PROVE  At(st, op, stage) <=> (At(u, op, stage) \/ (f.op = op /\ f.stage = stage))
  BY <1>1, <1>2, <1>3 DEF At
<1>5. ASSUME NEW s, NEW dest
      PROVE  Gets(st, s, dest) <=>
              (Gets(u, s, dest) \/ (f.space = s /\ f.stage = "callback" /\ f.op = "alloc" /\ f.dest = dest))
  BY <1>1, <1>2, <1>3 DEF Gets
<1>6. ASSUME NEW s
      PROVE  Frees(st, s) <=> (Frees(u, s) \/ (f.space = s /\ f.op = "free"))
  BY <1>1, <1>2, <1>3 DEF Frees
<1> QED
  BY <1>4, <1>5, <1>6 DEF u, f

(* The kinds of frames, by operation and stage. *)
LEMMA FrameKinds ==
  ASSUME NEW f \in Frames
  PROVE  /\ f.stage = "callback" => f \in CallFrames
         /\ f.op \in {"alloc", "free"} => f \in CallFrames
         /\ f.op = "refill" => f \in RefillFrames
         /\ f.op \in {"fill", "resize"} => f \in OwnFrames
         /\ f.op \in {"alloc", "free", "refill", "fill", "resize"}
         /\ f.op = "free" => f.stage = "callback"
         /\ f.stage = "ending" => f.root \in BOOLEAN
BY DEF Frames, CallFrames, RefillFrames, OwnFrames

(* The fields of the frame of an allocation or a free. *)
LEMMA CallFields ==
  ASSUME NEW f \in CallFrames
  PROVE  /\ f.op \in {"alloc", "free"} /\ f.space \in Spaces /\ f.root \in BOOLEAN /\ f.dest \in Places
         /\ f.reserve \in BOOLEAN /\ f.stage \in {"callback", "ending"} /\ f.calls \in Nat
         /\ f \in Frames
BY DEF CallFrames, Frames

(* The allocator of space s is at work. *)
InWork(st, s) == \E k \in DOMAIN st : st[k].space = s /\ st[k].stage = "callback"

(* A frame is pushed, or takes the place of another, ... *)
LEMMA CallPushed ==
  ASSUME NEW st \in Seq(Frames), NEW r \in BOOLEAN, NotReentered(st, r),
         NEW f \in CallFrames, f.stage = "callback", ~InWork(st, f.space),
         f.op = "alloc" /\ f.dest \in {"reserve", "hand"} => st # <<>> /\ Last(st).op = "refill"
  PROVE  NotReentered(Append(st, f), r)
<1> DEFINE n == Len(st)
           st2 == Append(st, f)
<1>0. f \in Frames
  BY DEF Frames
<1>1. /\ n \in Nat /\ DOMAIN st = 1 .. n /\ DOMAIN st2 = 1 .. n + 1
      /\ (\A k \in 1 .. n : st2[k] = st[k]) /\ st2[n + 1] = f
  BY <1>0, Pushed
<1>2. f.op = "alloc" /\ f.dest \in {"reserve", "hand"} => n >= 1 /\ st[n].op = "refill"
  BY <1>1, EmptySeq DEF Last
<1>3. f.op # "refill" /\ f.op # "fill" /\ f.op # "resize"
  BY DEF CallFrames
<1> HIDE DEF n, st2
<1>4. \A k \in 1 .. n + 1 : k \in 1 .. n \/ k = n + 1
  BY <1>1
<1>5. ASSUME NEW j \in DOMAIN st2, NEW k \in DOMAIN st2,
             st2[j].stage = "callback" /\ st2[k].stage = "callback" /\ st2[j].space = st2[k].space
      PROVE  j = k
  <2>1. ~(j = n + 1 /\ k \in 1 .. n) /\ ~(k = n + 1 /\ j \in 1 .. n)
    BY <1>1, <1>5 DEF InWork
  <2>2. j \in 1 .. n /\ k \in 1 .. n => j = k
    BY <1>1, <1>5 DEF NotReentered
  <2> QED
    BY <1>1, <1>4, <2>1, <2>2
<1>6. ASSUME NEW j \in DOMAIN st2, NEW k \in DOMAIN st2, st2[j].op = "refill", st2[k].op = "refill"
      PROVE  j = k
  <2>1. j \in 1 .. n /\ k \in 1 .. n /\ st[j].op = "refill" /\ st[k].op = "refill"
    BY <1>1, <1>3, <1>4, <1>6
  <2> QED
    BY <1>1, <2>1 DEF NotReentered
<1>7. r <=> \E k \in DOMAIN st2 : st2[k].op = "refill"
  <2>1. r <=> \E k \in DOMAIN st : st[k].op = "refill"
    BY DEF NotReentered
  <2> QED
    BY <1>1, <1>3, <1>4, <2>1
<1>8. ASSUME NEW k \in DOMAIN st2
      PROVE  /\ st2[k].op = "alloc" /\ st2[k].dest \in {"reserve", "hand"} => k > 1 /\ st2[k - 1].op = "refill"
             /\ st2[k].op \in {"fill", "resize"} => k = 1
  <2>1. CASE k = n + 1
    <3>1. st2[k].op = "alloc" /\ st2[k].dest \in {"reserve", "hand"} => k > 1 /\ k - 1 = n /\ n \in 1 .. n
      BY <1>1, <1>2, <2>1
    <3> QED
      BY <1>1, <1>2, <1>3, <2>1, <3>1
  <2>2. CASE k \in 1 .. n
    <3>1. /\ st[k].op = "alloc" /\ st[k].dest \in {"reserve", "hand"} => k > 1 /\ st[k - 1].op = "refill"
          /\ st[k].op \in {"fill", "resize"} => k = 1
      BY <1>1, <2>2 DEF NotReentered
    <3>2. k > 1 => k - 1 \in 1 .. n
      BY <1>1, <2>2
    <3> QED
      BY <1>1, <2>2, <3>1, <3>2
  <2> QED
    BY <1>1, <1>4, <2>1, <2>2
<1> QED
  BY <1>5, <1>6, <1>7, <1>8 DEF NotReentered, st2

(* A refill that starts when none runs is the only one. *)
LEMMA RefillPushed ==
  ASSUME NEW st \in Seq(Frames), NotReentered(st, FALSE), NEW f \in RefillFrames
  PROVE  NotReentered(Append(st, f), TRUE)
<1> DEFINE n == Len(st)
           st2 == Append(st, f)
<1>0. f \in Frames
  BY DEF Frames
<1>1. /\ n \in Nat /\ DOMAIN st = 1 .. n /\ DOMAIN st2 = 1 .. n + 1
      /\ (\A k \in 1 .. n : st2[k] = st[k]) /\ st2[n + 1] = f
  BY <1>0, Pushed
<1>2. f.op = "refill" /\ f.stage # "callback"
  BY DEF RefillFrames
<1> HIDE DEF n, st2
<1>3. (\A k \in 1 .. n + 1 : k \in 1 .. n \/ k = n + 1) /\ n + 1 \in 1 .. n + 1
  BY <1>1
<1>4. \A k \in 1 .. n : st[k].op # "refill"
  BY <1>1 DEF NotReentered
<1>5. ASSUME NEW j \in DOMAIN st2, NEW k \in DOMAIN st2,
             st2[j].stage = "callback" /\ st2[k].stage = "callback" /\ st2[j].space = st2[k].space
      PROVE  j = k
  <2>1. j \in 1 .. n /\ k \in 1 .. n
    BY <1>1, <1>2, <1>3, <1>5
  <2> QED
    BY <1>1, <1>5, <2>1 DEF NotReentered
<1>6. ASSUME NEW j \in DOMAIN st2, NEW k \in DOMAIN st2, st2[j].op = "refill", st2[k].op = "refill"
      PROVE  j = k
  BY <1>1, <1>3, <1>4, <1>6
<1>7. \E k \in DOMAIN st2 : st2[k].op = "refill"
  BY <1>1, <1>2, <1>3
<1>8. ASSUME NEW k \in DOMAIN st2
      PROVE  /\ st2[k].op = "alloc" /\ st2[k].dest \in {"reserve", "hand"} => k > 1 /\ st2[k - 1].op = "refill"
             /\ st2[k].op \in {"fill", "resize"} => k = 1
  <2>1. CASE k = n + 1
    BY <1>1, <1>2, <2>1
  <2>2. CASE k \in 1 .. n
    <3>1. /\ st[k].op = "alloc" /\ st[k].dest \in {"reserve", "hand"} => k > 1 /\ st[k - 1].op = "refill"
          /\ st[k].op \in {"fill", "resize"} => k = 1
      BY <1>1, <2>2 DEF NotReentered
    <3>2. k > 1 => k - 1 \in 1 .. n
      BY <1>1, <2>2
    <3> QED
      BY <1>1, <2>2, <3>1, <3>2
  <2> QED
    BY <1>1, <1>3, <2>1, <2>2
<1> QED
  BY <1>5, <1>6, <1>7, <1>8 DEF NotReentered, st2

(* An operation of the manager itself starts with no call in progress. *)
LEMMA OwnPushed ==
  ASSUME NEW r \in BOOLEAN, NotReentered(<<>>, r), NEW f \in OwnFrames
  PROVE  Append(<<>>, f) = <<f>> /\ NotReentered(<<f>>, r) /\ r = FALSE
<1>1. r = FALSE
  BY DEF NotReentered
<1>2. f.op # "refill" /\ f.op # "alloc" /\ f.stage # "callback"
  BY DEF OwnFrames
<1> DEFINE st2 == <<f>>
<1>3. DOMAIN st2 = {1} /\ st2[1] = f /\ Append(<<>>, f) = st2
  OBVIOUS
<1> HIDE DEF st2
<1>4. NotReentered(st2, r)
  BY <1>1, <1>2, <1>3 DEF NotReentered
<1> QED
  BY <1>1, <1>3, <1>4 DEF st2

(* ...or popped. *)
LEMMA CallPopped ==
  ASSUME NEW st \in Seq(Frames), st # <<>>, NEW r \in BOOLEAN, NotReentered(st, r)
  PROVE  /\ NotReentered(Under(st), r /\ Last(st).op # "refill")
         /\ Last(st).stage = "callback" => ~InWork(Under(st), Last(st).space)
         /\ Last(st).op = "refill" =>
              \A k \in DOMAIN st : ~(st[k].op = "alloc" /\ st[k].dest \in {"reserve", "hand"})
         /\ Last(st).op \in {"fill", "resize"} => Under(st) = <<>>
         /\ Last(st).op = "alloc" /\ Last(st).dest \in {"reserve", "hand"} =>
              Under(st) # <<>> /\ Last(Under(st)).op = "refill"
<1> DEFINE n == Len(st)
           u == Under(st)
           f == Last(st)
<1>1. /\ n \in Nat /\ n >= 1 /\ DOMAIN st = 1 .. n /\ Len(u) = n - 1 /\ u \in Seq(Frames)
      /\ DOMAIN u = 1 .. n - 1 /\ \A k \in 1 .. n - 1 : u[k] = st[k]
  BY Popped
<1>2. st[n] = f
  BY DEF Last
<1>3. Last(u) = u[n - 1]
  BY <1>1 DEF Last
<1> HIDE DEF n, u, f
<1>4. (\A k \in 1 .. n : k \in 1 .. n - 1 \/ k = n) /\ (1 .. n - 1) \subseteq 1 .. n /\ n \in 1 .. n /\ n \notin 1 .. n - 1
  BY <1>1
<1>5. NotReentered(u, r /\ f.op # "refill")
  <2>1. ASSUME NEW j \in DOMAIN u, NEW k \in DOMAIN u,
               u[j].stage = "callback" /\ u[k].stage = "callback" /\ u[j].space = u[k].space
        PROVE  j = k
    BY <1>1, <1>4, <2>1 DEF NotReentered
  <2>2. ASSUME NEW j \in DOMAIN u, NEW k \in DOMAIN u, u[j].op = "refill", u[k].op = "refill"
        PROVE  j = k
    BY <1>1, <1>4, <2>2 DEF NotReentered
  <2>3. (r /\ f.op # "refill") <=> \E k \in DOMAIN u : u[k].op = "refill"
    <3>1. r <=> \E k \in DOMAIN st : st[k].op = "refill"
      BY DEF NotReentered
    <3>2. \A j, k \in DOMAIN st : st[j].op = "refill" /\ st[k].op = "refill" => j = k
      BY DEF NotReentered
    <3>3. f.op = "refill" => \A k \in DOMAIN u : u[k].op # "refill"
      BY <1>1, <1>2, <1>4, <3>2
    <3>4. f.op # "refill" => (r <=> \E k \in DOMAIN u : u[k].op = "refill")
      BY <1>1, <1>2, <1>4, <3>1
    <3> QED
      BY <3>3, <3>4
  <2>4. ASSUME NEW k \in DOMAIN u
        PROVE  /\ u[k].op = "alloc" /\ u[k].dest \in {"reserve", "hand"} => k > 1 /\ u[k - 1].op = "refill"
               /\ u[k].op \in {"fill", "resize"} => k = 1
    <3>1. /\ st[k].op = "alloc" /\ st[k].dest \in {"reserve", "hand"} => k > 1 /\ st[k - 1].op = "refill"
          /\ st[k].op \in {"fill", "resize"} => k = 1
      BY <1>1, <1>4 DEF NotReentered
    <3>2. k > 1 => k - 1 \in 1 .. n - 1
      BY <1>1
    <3> QED
      BY <1>1, <3>1, <3>2
  <2> QED
    BY <2>1, <2>2, <2>3, <2>4 DEF NotReentered
<1>6. f.stage = "callback" => ~InWork(u, f.space)
  <2>1. \A j, k \in DOMAIN st : st[j].stage = "callback" /\ st[k].stage = "callback" /\ st[j].space = st[k].space => j = k
    BY DEF NotReentered
  <2> QED
    BY <1>1, <1>2, <1>4, <2>1 DEF InWork
<1>7. ASSUME f.op = "refill", NEW k \in DOMAIN st, st[k].op = "alloc", st[k].dest \in {"reserve", "hand"}
      PROVE  FALSE
  <2>1. k > 1 /\ st[k - 1].op = "refill"
    BY <1>7 DEF NotReentered
  <2>2. k - 1 \in 1 .. n /\ k - 1 # n
    BY <1>1, <1>7, <2>1
  <2>3. \A j, m \in DOMAIN st : st[j].op = "refill" /\ st[m].op = "refill" => j = m
    BY DEF NotReentered
  <2> QED
    BY <1>1, <1>2, <1>4, <1>7, <2>1, <2>2, <2>3
<1>8. f.op \in {"fill", "resize"} => u = <<>>
  <2>1. f.op \in {"fill", "resize"} => n = 1
    BY <1>1, <1>2, <1>4 DEF NotReentered
  <2> QED
    BY <1>1, <2>1, EmptySeq
<1>9. f.op = "alloc" /\ f.dest \in {"reserve", "hand"} => u # <<>> /\ Last(u).op = "refill"
  <2>1. f.op = "alloc" /\ f.dest \in {"reserve", "hand"} => n > 1 /\ st[n - 1].op = "refill"
    BY <1>1, <1>2, <1>4 DEF NotReentered
  <2>2. n > 1 => u # <<>> /\ n - 1 \in 1 .. n - 1
    BY <1>1, EmptySeq
  <2> QED
    BY <1>1, <1>3, <2>1, <2>2
<1> QED
  BY <1>5, <1>6, <1>7, <1>8, <1>9 DEF u, f

(* The top frame goes on to another stage, or counts a call. *)
LEMMA TopChanged ==
  ASSUME NEW st \in Seq(Frames), st # <<>>, NEW r \in BOOLEAN, NotReentered(st, r),
         NEW g \in Frames, g.op = Last(st).op,
         g.stage = "callback" => Last(st).stage = "callback" /\ g.space = Last(st).space,
         g.op = "alloc" => g.dest = Last(st).dest
  PROVE  NotReentered(Append(Under(st), g), r) /\ Append(Under(st), g) \in Seq(Frames)
<1> DEFINE n == Len(st)
           f == Last(st)
           st2 == Append(Under(st), g)
<1>1. n \in Nat /\ n >= 1 /\ DOMAIN st = 1 .. n /\ Under(st) \in Seq(Frames) /\ Len(Under(st)) = n - 1
      /\ \A k \in 1 .. n - 1 : Under(st)[k] = st[k]
  BY Popped
<1>2. st2 \in Seq(Frames) /\ DOMAIN st2 = 1 .. n /\ (\A k \in 1 .. n - 1 : st2[k] = st[k]) /\ st2[n] = g
  <2>1. /\ st2 \in Seq(Frames) /\ DOMAIN st2 = 1 .. Len(Under(st)) + 1
        /\ \A k \in 1 .. Len(Under(st)) : st2[k] = Under(st)[k]
        /\ st2[Len(Under(st)) + 1] = g
    BY <1>1, Pushed
  <2> HIDE DEF st2, n
  <2>2. n - 1 + 1 = n
    BY <1>1
  <2> QED
    BY <1>1, <2>1, <2>2
<1>3. st[n] = f
  BY DEF Last
<1> HIDE DEF n, f, st2
<1>4. (\A k \in 1 .. n : k \in 1 .. n - 1 \/ k = n) /\ n \in 1 .. n
  BY <1>1
<1>5. \A k \in 1 .. n : st2[k].op = st[k].op
  BY <1>2, <1>3, <1>4 DEF f
<1>6. \A k \in 1 .. n : st2[k].stage = "callback" => st[k].stage = "callback" /\ st2[k].space = st[k].space
  BY <1>2, <1>3, <1>4 DEF f
<1>7. \A k \in 1 .. n : st2[k].op = "alloc" => st2[k].dest = st[k].dest
  BY <1>2, <1>3, <1>4 DEF f
<1>8. \A j, k \in DOMAIN st2 :
        st2[j].stage = "callback" /\ st2[k].stage = "callback" /\ st2[j].space = st2[k].space => j = k
  BY <1>1, <1>2, <1>6 DEF NotReentered
<1>9. \A j, k \in DOMAIN st2 : st2[j].op = "refill" /\ st2[k].op = "refill" => j = k
  BY <1>1, <1>2, <1>5 DEF NotReentered
<1>10. r <=> \E k \in DOMAIN st2 : st2[k].op = "refill"
  <2>1. r <=> \E k \in DOMAIN st : st[k].op = "refill"
    BY DEF NotReentered
  <2> QED
    BY <1>1, <1>2, <1>5, <2>1
<1>11. ASSUME NEW k \in DOMAIN st2
       PROVE  /\ st2[k].op = "alloc" /\ st2[k].dest \in {"reserve", "hand"} => k > 1 /\ st2[k - 1].op = "refill"
              /\ st2[k].op \in {"fill", "resize"} => k = 1
  <2>1. /\ st[k].op = "alloc" /\ st[k].dest \in {"reserve", "hand"} => k > 1 /\ st[k - 1].op = "refill"
        /\ st[k].op \in {"fill", "resize"} => k = 1
    BY <1>1, <1>2 DEF NotReentered
  <2>2. k > 1 => k - 1 \in 1 .. n
    BY <1>1, <1>2
  <2> QED
    BY <1>2, <1>5, <1>7, <2>1, <2>2
<1> QED
  BY <1>2, <1>8, <1>9, <1>10, <1>11 DEF NotReentered, st2

-----------------------------------------------------------------------------
(* The books.                                                              *)

Accounted(b) ==
  /\ b \in [Places -> [Spaces -> Nat]]
  /\ \A s \in Spaces : Everywhere(b, s) = Total[s]

InArrays(b) == \A s \in Spaces : b["reserve"][s] <= Desired[s] /\ b["queue"][s] <= QueueSize[s]

(* One more, or one less, in one place. *)
Changed(b, b2, p, s, d) ==
  \A q \in Places, t \in Spaces : b2[q][t] = IF q = p /\ t = s THEN b[q][t] + d ELSE b[q][t]

(* One more or one less in one place changes the total of its space alone. *)
LEMMA SumChanges ==
  ASSUME NEW b \in [Places -> [Spaces -> Int]], NEW p \in Places, NEW s \in Spaces, NEW d \in Int,
         NEW b2, Changed(b, b2, p, s, d)
  PROVE  \A t \in Spaces : Everywhere(b2, t) = IF t = s THEN Everywhere(b, t) + d ELSE Everywhere(b, t)
<1>1. ASSUME NEW t \in Spaces
      PROVE  Everywhere(b2, t) = IF t = s THEN Everywhere(b, t) + d ELSE Everywhere(b, t)
  <2>1. \A q \in Places : b2[q][t] = (IF q = p /\ t = s THEN b[q][t] + d ELSE b[q][t]) /\ b[q][t] \in Int
    BY DEF Changed
  <2> DEFINE x(q) == b[q][t]
             y(q) == b2[q][t]
  <2>2. \A q \in Places : x(q) \in Int /\ y(q) = IF q = p /\ t = s THEN x(q) + d ELSE x(q)
    BY <2>1
  <2>3. Everywhere(b2, t) = y("avail") + y("user") + y("inner") + y("reserve") + y("with_chunk") + y("queue")
          + y("hand") + y("new_array") + y("array") + y("freeing") + y("leaked")
    BY DEF Everywhere
  <2>4. Everywhere(b, t) = x("avail") + x("user") + x("inner") + x("reserve") + x("with_chunk") + x("queue")
          + x("hand") + x("new_array") + x("array") + x("freeing") + x("leaked")
    BY DEF Everywhere
  <2> HIDE DEF x, y
  <2> QED
    BY <2>2, <2>3, <2>4 DEF Places
<1> QED
  BY <1>1

(* Books b2 are b after a move from one place to another. *)
After(b2, b, s, from, to) ==
  /\ \A p \in Places, t \in Spaces : (p # from /\ p # to) \/ t # s => b2[p][t] = b[p][t]
  /\ from # to => b2[from][s] = b[from][s] - 1 /\ b2[to][s] = b[to][s] + 1
  /\ from = to => b2[to][s] = b[to][s]

(* What is moved from one place to another. *)
LEMMA MovedIs ==
  ASSUME NEW b, Accounted(b), NEW s \in Spaces, NEW from \in Places, NEW to \in Places, b[from][s] > 0
  PROVE  Accounted(Moved(b, s, from, to)) /\ After(Moved(b, s, from, to), b, s, from, to)
<1> DEFINE b1 == [b EXCEPT ![from][s] = @ + (-1)]
           b2 == [b1 EXCEPT ![to][s] = @ + 1]
<1>1. b \in [Places -> [Spaces -> Nat]] /\ b \in [Places -> [Spaces -> Int]]
  BY DEF Accounted
<1>2. b[from][s] - 1 = b[from][s] + (-1)
  BY <1>1
<1>3. Moved(b, s, from, to) = b2
  BY <1>2 DEF Moved
<1>4. /\ b1 \in [Places -> [Spaces -> Int]]
      /\ \A q \in Places, t \in Spaces : b1[q][t] = IF q = from /\ t = s THEN b[q][t] + (-1) ELSE b[q][t]
      /\ \A t \in Spaces : Everywhere(b1, t) = IF t = s THEN Everywhere(b, t) + (-1) ELSE Everywhere(b, t)
  <2>1. b1 \in [Places -> [Spaces -> Int]]
    BY <1>1
  <2>2. Changed(b, b1, from, s, -1)
    BY <1>1 DEF Changed
  <2> HIDE DEF b1
  <2>3. -1 \in Int
    OBVIOUS
  <2>4. \A t \in Spaces : Everywhere(b1, t) = IF t = s THEN Everywhere(b, t) + (-1) ELSE Everywhere(b, t)
    BY <1>1, <2>1, <2>2, <2>3, SumChanges
  <2> QED
    BY <2>1, <2>2, <2>4 DEF Changed
<1> HIDE DEF b1
<1>5. /\ b2 \in [Places -> [Spaces -> Int]]
      /\ \A q \in Places, t \in Spaces : b2[q][t] = IF q = to /\ t = s THEN b1[q][t] + 1 ELSE b1[q][t]
      /\ \A t \in Spaces : Everywhere(b2, t) = IF t = s THEN Everywhere(b1, t) + 1 ELSE Everywhere(b1, t)
  <2>1. b2 \in [Places -> [Spaces -> Int]]
    BY <1>4
  <2>2. Changed(b1, b2, to, s, 1)
    BY <1>4 DEF Changed
  <2> HIDE DEF b2
  <2>4. \A t \in Spaces : Everywhere(b2, t) = IF t = s THEN Everywhere(b1, t) + 1 ELSE Everywhere(b1, t)
    <3>1. b1 \in [Places -> [Spaces -> Int]] /\ 1 \in Int
      BY <1>4
    <3> QED
      BY <3>1, <2>2, SumChanges
  <2> QED
    BY <2>1, <2>2, <2>4 DEF Changed
<1> HIDE DEF b2
<1>6. \A q \in Places, t \in Spaces : b2[q][t] \in Nat
  BY <1>1, <1>4, <1>5
<1>7. b2 \in [Places -> [Spaces -> Nat]]
  BY <1>5, <1>6
<1>8. ASSUME NEW t \in Spaces
      PROVE  Everywhere(b2, t) = Total[t]
  <2>1. Everywhere(b, t) = Total[t] /\ Total[t] \in Nat
    BY AllocmanConfig DEF Accounted
  <2> QED
    BY <1>4, <1>5, <2>1
<1>9. Accounted(b2)
  BY <1>7, <1>8 DEF Accounted
<1>10. ASSUME NEW p \in Places, NEW t \in Spaces, (p # from /\ p # to) \/ t # s
       PROVE  b2[p][t] = b[p][t]
  BY <1>4, <1>5, <1>10
<1>11. from # to => b2[from][s] = b[from][s] - 1 /\ b2[to][s] = b[to][s] + 1
  BY <1>1, <1>4, <1>5
<1>12. from = to => b2[to][s] = b[to][s]
  BY <1>1, <1>4, <1>5
<1> QED
  BY <1>3, <1>9, <1>10, <1>11, <1>12 DEF After

-----------------------------------------------------------------------------
(* The invariant, of books b, calls st and refilling_watermark r. *)
Sound(b, st, r) ==
  /\ Accounted(b)
  /\ InArrays(b)
  /\ b["with_chunk"]["cspace"] = b["reserve"]["utspace"]
  /\ b["array"]["mspace"] <= 1
  /\ st \in Seq(Frames)
  /\ NotReentered(st, r)
  /\ HeldByCalls(b, st)

(* What is being freed is held by the calls that free it. *)
FreeingHeld(b, st) == \A s \in Spaces : b["freeing"][s] = IF Frees(st, s) THEN 1 ELSE 0

(* Two stacks whose calls hold the same, but for calls that free. *)
SameButFrees(st, st2) ==
  /\ At(st2, "refill", "utspace") <=> At(st, "refill", "utspace")
  /\ At(st2, "refill", "slot back") <=> At(st, "refill", "slot back")
  /\ At(st2, "resize", "switch") <=> At(st, "resize", "switch")
  /\ \A s, dest : Gets(st2, s, dest) <=> Gets(st, s, dest)

SameFrees(st, st2) == \A s : Frees(st2, s) <=> Frees(st, s)

(* allocman_..._free(), however it goes on. *)
LEMMA FreeCalled ==
  ASSUME refilling \in BOOLEAN, in_operation \in BOOLEAN, NEW s \in Spaces,
         NEW from \in {"user", "inner", "with_chunk", "array", "queue", "hand"},
         NEW bs, Accounted(bs), bs[from][s] > 0, \A t \in Spaces : bs["queue"][t] <= QueueSize[t],
         NEW stk \in Seq(Frames), NotReentered(stk, refilling), FreeingHeld(bs, stk),
         CanEnter(s) => ~InWork(stk, s),
         CallFree(s, from, bs, stk)
  PROVE  /\ Accounted(books') /\ \A t \in Spaces : books'["queue"][t] <= QueueSize[t]
         /\ \A p \in {"reserve", "with_chunk", "hand", "new_array", "array"}, t \in Spaces :
              books'[p][t] = IF p = from /\ t = s THEN bs[p][t] - 1 ELSE bs[p][t]
         /\ stack' \in Seq(Frames) /\ NotReentered(stack', refilling)
         /\ FreeingHeld(books', stack')
         /\ SameButFrees(stk, stack')
         /\ in_operation' \in BOOLEAN
<1>1. from \in Places /\ {"freeing", "queue", "leaked", "reserve", "with_chunk", "hand", "new_array", "array"} \subseteq Places
  BY DEF Places
<1>2. bs \in [Places -> [Spaces -> Nat]]
  BY DEF Accounted
<1>3. CASE CanEnter(s)
  <2> DEFINE f == Frame("free", s, "avail", FALSE)
             b2 == Moved(bs, s, from, "freeing")
  <2>1. books' = b2 /\ stack' = Append(stk, f) /\ in_operation' = TRUE
    BY <1>3 DEF CallFree
  <2>2. f \in CallFrames /\ f.stage = "callback" /\ f.space = s /\ f.op = "free"
    BY AllocmanConfig DEF Frame, CallFrames, Places
  <2> HIDE DEF f, b2
  <2>3. f \in Frames
    BY <2>2 DEF Frames
  <2>4. /\ Accounted(b2)
        /\ \A p \in Places, t \in Spaces : (p # from /\ p # "freeing") \/ t # s => b2[p][t] = bs[p][t]
        /\ b2[from][s] = bs[from][s] - 1 /\ b2["freeing"][s] = bs["freeing"][s] + 1
    <3>1. Accounted(b2) /\ After(b2, bs, s, from, "freeing")
      BY <1>1, MovedIs DEF b2
    <3> QED
      BY <1>1, <3>1 DEF After
  <2>5. ASSUME NEW t \in Spaces
        PROVE  b2["queue"][t] <= QueueSize[t]
    <3>1. bs["queue"][t] <= QueueSize[t] /\ bs["queue"][t] \in Nat /\ QueueSize[t] \in Nat
      BY <1>1, <1>2, AllocmanConfig
    <3>2. b2["queue"][t] = bs["queue"][t] \/ b2["queue"][t] = bs["queue"][t] - 1
      BY <1>1, <2>4
    <3> QED
      BY <3>1, <3>2
  <2>6. stack' \in Seq(Frames) /\ NotReentered(stack', refilling)
    BY <1>3, <2>1, <2>2, <2>3, Pushed, CallPushed
  <2>7. ~Frees(stk, s)
    <3>1. ASSUME NEW k \in DOMAIN stk, stk[k].space = s, stk[k].op = "free"
          PROVE  FALSE
      <4>1. stk[k] \in Frames
        OBVIOUS
      <4>2. stk[k].stage = "callback"
        BY <3>1, <4>1, FrameKinds
      <4> QED
        BY <1>3, <3>1, <4>2 DEF InWork
    <3> QED
      BY <3>1 DEF Frees
  <2>8. \A t : Frees(stack', t) <=> (Frees(stk, t) \/ t = s)
    BY <2>1, <2>2, <2>3, SeenPushed
  <2>9. FreeingHeld(b2, stack')
    <3>1. ASSUME NEW t \in Spaces
          PROVE  b2["freeing"][t] = IF Frees(stack', t) THEN 1 ELSE 0
      <4>1. CASE t = s
        <5>1. bs["freeing"][s] = 0
          BY <2>7 DEF FreeingHeld
        <5> QED
          BY <2>4, <2>8, <4>1, <5>1
      <4>2. CASE t # s
        <5>1. b2["freeing"][t] = bs["freeing"][t]
          BY <1>1, <2>4, <4>2
        <5> QED
          BY <2>8, <4>2, <5>1 DEF FreeingHeld
      <4> QED
        BY <4>1, <4>2
    <3> QED
      BY <3>1 DEF FreeingHeld
  <2>10. SameButFrees(stk, stack')
    BY <2>1, <2>2, <2>3, SeenPushed DEF SameButFrees
  <2>11. ASSUME NEW p \in {"reserve", "with_chunk", "hand", "new_array", "array"}, NEW t \in Spaces
         PROVE  b2[p][t] = IF p = from /\ t = s THEN bs[p][t] - 1 ELSE bs[p][t]
    BY <1>1, <2>4
  <2> QED
    BY <2>1, <2>4, <2>5, <2>6, <2>9, <2>10, <2>11
<1>4. CASE ~CanEnter(s)
  <2> DEFINE to == IF bs["queue"][s] = QueueSize[s] THEN "leaked" ELSE "queue"
             b2 == Moved(bs, s, from, to)
  <2>1. books' = b2 /\ stack' = stk /\ in_operation' = in_operation
    BY <1>4 DEF CallFree
  <2>2. to \in {"leaked", "queue"} /\ (to = "queue" => bs["queue"][s] # QueueSize[s])
    OBVIOUS
  <2> HIDE DEF to, b2
  <2>3. /\ Accounted(b2)
        /\ \A p \in Places, t \in Spaces : (p # from /\ p # to) \/ t # s => b2[p][t] = bs[p][t]
        /\ from # to => b2[from][s] = bs[from][s] - 1 /\ b2[to][s] = bs[to][s] + 1
        /\ from = to => b2[to][s] = bs[to][s]
    <3>1. to \in Places
      BY <1>1, <2>2
    <3>2. Accounted(b2) /\ After(b2, bs, s, from, to)
      BY <1>1, <3>1, MovedIs DEF b2
    <3> QED
      BY <3>2 DEF After
  <2>4. ASSUME NEW t \in Spaces
        PROVE  b2["queue"][t] <= QueueSize[t]
    <3>1. bs["queue"][t] <= QueueSize[t] /\ bs["queue"][t] \in Nat /\ QueueSize[t] \in Nat
      BY <1>1, <1>2, AllocmanConfig
    <3>2. \/ b2["queue"][t] = bs["queue"][t] \/ b2["queue"][t] = bs["queue"][t] - 1
          \/ b2["queue"][t] = bs["queue"][t] + 1 /\ bs["queue"][t] # QueueSize[t]
      BY <1>1, <2>2, <2>3
    <3> QED
      BY <3>1, <3>2
  <2>5. \A t \in Spaces : b2["freeing"][t] = bs["freeing"][t]
    BY <1>1, <2>2, <2>3
  <2>6. ASSUME NEW p \in {"reserve", "with_chunk", "hand", "new_array", "array"}, NEW t \in Spaces
         PROVE  b2[p][t] = IF p = from /\ t = s THEN bs[p][t] - 1 ELSE bs[p][t]
    BY <1>1, <2>2, <2>3
  <2> QED
    BY <2>1, <2>3, <2>4, <2>5, <2>6 DEF FreeingHeld, SameButFrees
<1> QED
  BY <1>3, <1>4

(* Place dest awaits one of space s. *)
Room(b, st, s, dest) ==
  \/ dest \in {"user", "inner"}
  \/ /\ dest = "reserve"
     /\ b["reserve"][s] < Desired[s]
     /\ ~Gets(st, s, "reserve")
     /\ s = "utspace" => b["hand"]["cspace"] = 1 /\ At(st, "refill", "slot back") /\ ~At(st, "refill", "utspace")
  \/ /\ dest = "hand" /\ s = "cspace"
     /\ b["hand"]["cspace"] = 0
     /\ At(st, "refill", "utspace")
     /\ ~Gets(st, "cspace", "hand")
  \/ /\ dest = "new_array" /\ s = "mspace"
     /\ b["new_array"]["mspace"] = 0
     /\ At(st, "resize", "switch")
     /\ ~Gets(st, "mspace", "new_array")

(* Books b2 are b with one more of space s in place dest, and no more than  *)
(* that in the reserves.                                                    *)
Given(b2, b, s, dest) ==
  /\ \A t \in Spaces : b2["reserve"][t] <= b["reserve"][t] \/ (dest = "reserve" /\ t = s)
  /\ b2["hand"]["cspace"] =
       IF dest = "hand" THEN 1 ELSE IF dest = "reserve" /\ s = "utspace" THEN 0 ELSE b["hand"]["cspace"]
  /\ b2["new_array"]["mspace"] = IF dest = "new_array" THEN 1 ELSE b["new_array"]["mspace"]

(* What the calls hold, after one more went where it was awaited. *)
LEMMA HeldAfter ==
  ASSUME NEW b \in [Places -> [Spaces -> Nat]], NEW b2 \in [Places -> [Spaces -> Nat]],
         NEW st, NEW st2, HeldByCalls(b, st), SameButFrees(st, st2), FreeingHeld(b2, st2),
         NEW s \in Spaces, NEW dest, Room(b, st, s, dest), Given(b2, b, s, dest)
  PROVE  HeldByCalls(b2, st2)
<1>1. {"reserve", "hand", "new_array"} \subseteq Places /\ {"cspace", "mspace", "utspace"} \subseteq Spaces
  BY DEF Places, Spaces
<1>2. \A t \in Spaces : b["reserve"][t] \in Nat /\ b2["reserve"][t] \in Nat /\ Desired[t] \in Nat
  BY <1>1, AllocmanConfig
<1>3. ASSUME NEW t \in Spaces, Gets(st2, t, "reserve")
      PROVE  b2["reserve"][t] < Desired[t]
  <2>1. Gets(st, t, "reserve") /\ b["reserve"][t] < Desired[t]
    BY <1>3 DEF SameButFrees, HeldByCalls
  <2>2. ~(dest = "reserve" /\ t = s)
    BY <2>1 DEF Room
  <2> QED
    BY <1>2, <2>1, <2>2 DEF Given
<1>4. At(st2, "refill", "utspace") => b2["reserve"]["utspace"] < Desired["utspace"]
  <2>1. SUFFICES ASSUME At(st2, "refill", "utspace") PROVE b2["reserve"]["utspace"] < Desired["utspace"]
    OBVIOUS
  <2>2. At(st, "refill", "utspace") /\ b["reserve"]["utspace"] < Desired["utspace"]
    BY <2>1 DEF SameButFrees, HeldByCalls
  <2>3. ~(dest = "reserve" /\ "utspace" = s)
    BY <2>2 DEF Room
  <2> QED
    BY <1>1, <1>2, <2>2, <2>3 DEF Given
<1>5. Gets(st2, "utspace", "reserve") => b2["hand"]["cspace"] = 1 /\ At(st2, "refill", "slot back")
  <2>1. SUFFICES ASSUME Gets(st2, "utspace", "reserve") PROVE b2["hand"]["cspace"] = 1 /\ At(st2, "refill", "slot back")
    OBVIOUS
  <2>2. Gets(st, "utspace", "reserve") /\ b["hand"]["cspace"] = 1 /\ At(st, "refill", "slot back")
    BY <2>1 DEF SameButFrees, HeldByCalls
  <2>3. ~(dest = "reserve" /\ s = "utspace")
    BY <2>2 DEF Room
  <2> QED
    BY <2>2, <2>3 DEF Given, SameButFrees
<1>6. Gets(st2, "cspace", "hand") => b2["hand"]["cspace"] = 0 /\ At(st2, "refill", "utspace")
  <2>1. SUFFICES ASSUME Gets(st2, "cspace", "hand") PROVE b2["hand"]["cspace"] = 0 /\ At(st2, "refill", "utspace")
    OBVIOUS
  <2>2. Gets(st, "cspace", "hand") /\ b["hand"]["cspace"] = 0 /\ At(st, "refill", "utspace")
    BY <2>1 DEF SameButFrees, HeldByCalls
  <2>3. dest # "hand"
    BY <2>2 DEF Room
  <2> QED
    BY <2>2, <2>3 DEF Given, SameButFrees
<1>7. b2["hand"]["cspace"] \in {0, 1}
  BY DEF Given, HeldByCalls
<1>8. b2["hand"]["cspace"] = 1 => At(st2, "refill", "utspace") \/ At(st2, "refill", "slot back")
  <2>1. dest = "hand" => At(st, "refill", "utspace")
    BY DEF Room
  <2>2. dest # "hand" /\ b2["hand"]["cspace"] = 1 => b["hand"]["cspace"] = 1
    BY DEF Given
  <2> QED
    BY <2>1, <2>2 DEF HeldByCalls, SameButFrees
<1>9. Gets(st2, "mspace", "new_array") => b2["new_array"]["mspace"] = 0 /\ At(st2, "resize", "switch")
  <2>1. SUFFICES ASSUME Gets(st2, "mspace", "new_array") PROVE b2["new_array"]["mspace"] = 0 /\ At(st2, "resize", "switch")
    OBVIOUS
  <2>2. Gets(st, "mspace", "new_array") /\ b["new_array"]["mspace"] = 0 /\ At(st, "resize", "switch")
    BY <2>1 DEF SameButFrees, HeldByCalls
  <2>3. dest # "new_array"
    BY <2>2 DEF Room
  <2> QED
    BY <2>2, <2>3 DEF Given, SameButFrees
<1>10. b2["new_array"]["mspace"] \in {0, 1} /\ (b2["new_array"]["mspace"] = 1 => At(st2, "resize", "switch"))
  <2>1. dest = "new_array" => At(st, "resize", "switch")
    BY DEF Room
  <2>2. dest # "new_array" => b2["new_array"]["mspace"] = b["new_array"]["mspace"]
    BY DEF Given
  <2>3. dest = "new_array" => b2["new_array"]["mspace"] = 1
    BY DEF Given
  <2> QED
    BY <2>1, <2>2, <2>3 DEF HeldByCalls, SameButFrees
<1> QED
  BY <1>3, <1>4, <1>5, <1>6, <1>7, <1>8, <1>9, <1>10 DEF HeldByCalls, FreeingHeld

(* Calls that hold the same: the invariant holds of both stacks. *)
LEMMA SameHeld ==
  ASSUME NEW b, NEW st, NEW r, Sound(b, st, r), NEW st2 \in Seq(Frames), NEW r2 \in BOOLEAN, NotReentered(st2, r2),
         SameButFrees(st, st2), SameFrees(st, st2)
  PROVE  Sound(b, st2, r2)
<1>1. HeldByCalls(b, st2)
  BY DEF Sound, HeldByCalls, SameButFrees, SameFrees
<1> QED
  BY <1>1 DEF Sound

(* A free of what callers or allocators used, or of what was queued. *)
LEMMA FreedSound ==
  ASSUME refilling \in BOOLEAN, in_operation \in BOOLEAN, NEW s \in Spaces, NEW from \in {"user", "inner", "queue"},
         NEW bs, NEW stk, Sound(bs, stk, refilling), bs[from][s] > 0,
         CanEnter(s) => ~InWork(stk, s),
         CallFree(s, from, bs, stk)
  PROVE  Sound(books', stack', refilling) /\ in_operation' \in BOOLEAN
<1>1. Accounted(bs) /\ (\A t \in Spaces : bs["queue"][t] <= QueueSize[t]) /\ stk \in Seq(Frames)
      /\ NotReentered(stk, refilling) /\ FreeingHeld(bs, stk) /\ HeldByCalls(bs, stk)
  BY DEF Sound, InArrays, HeldByCalls, FreeingHeld
<1>2. from \in {"user", "inner", "with_chunk", "array", "queue", "hand"}
  OBVIOUS
<1>3. /\ Accounted(books') /\ \A t \in Spaces : books'["queue"][t] <= QueueSize[t]
      /\ \A p \in {"reserve", "with_chunk", "hand", "new_array", "array"}, t \in Spaces :
              books'[p][t] = IF p = from /\ t = s THEN bs[p][t] - 1 ELSE bs[p][t]
      /\ stack' \in Seq(Frames) /\ NotReentered(stack', refilling)
      /\ FreeingHeld(books', stack')
      /\ SameButFrees(stk, stack')
      /\ in_operation' \in BOOLEAN
  BY <1>1, <1>2, FreeCalled
<1>4. \A p \in {"reserve", "with_chunk", "hand", "new_array", "array"}, t \in Spaces : books'[p][t] = bs[p][t]
  BY <1>3
<1>5. bs \in [Places -> [Spaces -> Nat]] /\ books' \in [Places -> [Spaces -> Nat]]
  BY <1>1, <1>3 DEF Accounted
<1>6. Room(bs, stk, s, "user")
  BY DEF Room
<1>7. Given(books', bs, s, "user")
  <2>1. \A t \in Spaces : bs["reserve"][t] \in Nat
    BY <1>5 DEF Places
  <2> QED
    BY <1>4, <2>1 DEF Given, Spaces
<1>8. HeldByCalls(books', stack')
  BY <1>1, <1>3, <1>5, <1>6, <1>7, HeldAfter
<1>9. InArrays(books')
  BY <1>3, <1>4 DEF Sound, InArrays
<1>10. books'["with_chunk"]["cspace"] = books'["reserve"]["utspace"] /\ books'["array"]["mspace"] <= 1
  BY <1>4 DEF Sound, Spaces
<1> QED
  BY <1>3, <1>8, <1>9, <1>10 DEF Sound

(* _try_watermark_...() *)
LEMMA TookReserve ==
  ASSUME refilling \in BOOLEAN, in_operation \in BOOLEAN, NEW s \in Spaces, NEW dest, dest # "reserve",
         NEW stk, Sound(books, stk, refilling), Room(books, stk, s, dest), books["reserve"][s] > 0,
         CanEnter("cspace") => ~InWork(stk, "cspace"),
         TakeReserve(s, dest, stk)
  PROVE  Sound(books', stack', refilling) /\ in_operation' \in BOOLEAN /\ used_watermark' \in BOOLEAN
<1>1. Accounted(books) /\ InArrays(books) /\ stk \in Seq(Frames)
      /\ NotReentered(stk, refilling) /\ FreeingHeld(books, stk) /\ HeldByCalls(books, stk)
      /\ books["with_chunk"]["cspace"] = books["reserve"]["utspace"] /\ books["array"]["mspace"] <= 1
  BY DEF Sound, HeldByCalls, FreeingHeld
<1>2. dest \in {"user", "inner", "hand", "new_array"} /\ (dest = "hand" => s = "cspace") /\ (dest = "new_array" => s = "mspace")
      /\ (dest = "hand" => books["hand"]["cspace"] = 0) /\ (dest = "new_array" => books["new_array"]["mspace"] = 0)
  BY DEF Room
<1>3. {"reserve", "with_chunk", "hand", "new_array", "array", "queue", "freeing", "user", "inner"} \subseteq Places
      /\ {"cspace", "mspace", "utspace"} \subseteq Spaces
  BY DEF Places, Spaces
<1> DEFINE bs == Moved(books, s, "reserve", dest)
<1>4. Accounted(bs) /\ After(bs, books, s, "reserve", dest)
  <2>1. "reserve" \in Places /\ dest \in Places
    BY <1>2, <1>3
  <2> QED
    BY <1>1, <2>1, MovedIs
<1> HIDE DEF bs
<1>5. \A p \in {"with_chunk", "array", "queue", "freeing"}, t \in Spaces : bs[p][t] = books[p][t]
  BY <1>2, <1>3, <1>4 DEF After
<1>6. \A t \in Spaces : bs["reserve"][t] = IF t = s THEN books["reserve"][t] - 1 ELSE books["reserve"][t]
  BY <1>2, <1>3, <1>4 DEF After
<1>7. bs["hand"]["cspace"] = (IF dest = "hand" THEN 1 ELSE books["hand"]["cspace"])
      /\ bs["new_array"]["mspace"] = (IF dest = "new_array" THEN 1 ELSE books["new_array"]["mspace"])
  BY <1>2, <1>3, <1>4 DEF After
<1>8. books \in [Places -> [Spaces -> Nat]] /\ bs \in [Places -> [Spaces -> Nat]]
  BY <1>1, <1>4 DEF Accounted
<1>9. /\ Accounted(books') /\ \A t \in Spaces : books'["queue"][t] <= QueueSize[t]
      /\ \A p \in {"reserve", "hand", "new_array", "array"}, t \in Spaces : books'[p][t] = bs[p][t]
      /\ books'["with_chunk"]["cspace"] = books'["reserve"]["utspace"]
      /\ stack' \in Seq(Frames) /\ NotReentered(stack', refilling)
      /\ FreeingHeld(books', stack')
      /\ SameButFrees(stk, stack')
      /\ in_operation' \in BOOLEAN
  <2>1. FreeingHeld(bs, stk) /\ \A t \in Spaces : bs["queue"][t] <= QueueSize[t]
    BY <1>1, <1>5 DEF FreeingHeld, InArrays
  <2>2. CASE s = "utspace"
    <3>1. CallFree("cspace", "with_chunk", bs, stk)
      BY <2>2 DEF TakeReserve, bs
    <3>2. bs["with_chunk"]["cspace"] > 0
      BY <1>1, <1>3, <1>5, <2>2
    <3>3. "cspace" \in Spaces /\ "with_chunk" \in {"user", "inner", "with_chunk", "array", "queue", "hand"}
      BY <1>3
    <3>4. /\ Accounted(books') /\ \A t \in Spaces : books'["queue"][t] <= QueueSize[t]
          /\ \A p \in {"reserve", "with_chunk", "hand", "new_array", "array"}, t \in Spaces :
                  books'[p][t] = IF p = "with_chunk" /\ t = "cspace" THEN bs[p][t] - 1 ELSE bs[p][t]
          /\ stack' \in Seq(Frames) /\ NotReentered(stack', refilling)
          /\ FreeingHeld(books', stack')
          /\ SameButFrees(stk, stack')
          /\ in_operation' \in BOOLEAN
      BY <1>1, <1>4, <2>1, <3>1, <3>2, <3>3, FreeCalled
    <3>5. books'["with_chunk"]["cspace"] = books'["reserve"]["utspace"]
      BY <1>1, <1>3, <1>5, <1>6, <2>2, <3>4
    <3> QED
      BY <3>4, <3>5
  <2>3. CASE s # "utspace"
    <3>1. books' = bs /\ stack' = stk /\ in_operation' = in_operation
      BY <2>3 DEF TakeReserve, bs
    <3>2. bs["with_chunk"]["cspace"] = bs["reserve"]["utspace"]
      BY <1>1, <1>3, <1>5, <1>6, <2>3
    <3> QED
      BY <1>1, <1>4, <2>1, <3>1, <3>2 DEF SameButFrees
  <2> QED
    BY <2>2, <2>3
<1>10. books' \in [Places -> [Spaces -> Nat]]
  BY <1>9 DEF Accounted
<1>11. \A t \in Spaces : books'["reserve"][t] <= books["reserve"][t] /\ books["reserve"][t] \in Nat
                         /\ books'["reserve"][t] \in Nat /\ Desired[t] \in Nat
  <2>1. \A t \in Spaces : books["reserve"][t] \in Nat /\ books'["reserve"][t] \in Nat
    BY <1>3, <1>8, <1>10
  <2>2. \A t \in Spaces : books'["reserve"][t] = IF t = s THEN books["reserve"][t] - 1 ELSE books["reserve"][t]
    BY <1>6, <1>9
  <2> QED
    BY <2>1, <2>2, AllocmanConfig
<1>12. Given(books', books, s, dest)
  BY <1>3, <1>7, <1>9, <1>11 DEF Given
<1>13. HeldByCalls(books', stack')
  BY <1>1, <1>8, <1>9, <1>10, <1>12, HeldAfter
<1>14. InArrays(books')
  <2>1. \A t \in Spaces : books["reserve"][t] <= Desired[t]
    BY <1>1 DEF InArrays
  <2> QED
    BY <1>9, <1>11, <2>1 DEF InArrays
<1>15. books'["array"]["mspace"] <= 1
  BY <1>1, <1>3, <1>5, <1>9
<1> QED
  BY <1>9, <1>13, <1>14, <1>15 DEF Sound, TakeReserve

(* _allocman_..._alloc(), into the allocator, ... *)
LEMMA AllocPushed ==
  ASSUME NEW r \in BOOLEAN, NEW b, NEW st, Sound(b, st, r), NEW f \in CallFrames,
         f.op = "alloc", f.stage = "callback", ~InWork(st, f.space), Room(b, st, f.space, f.dest),
         f.dest \in {"reserve", "hand"} => st # <<>> /\ Last(st).op = "refill"
  PROVE  Sound(b, Append(st, f), r)
<1>1. st \in Seq(Frames) /\ NotReentered(st, r) /\ HeldByCalls(b, st) /\ f \in Frames
  BY DEF Sound, Frames
<1> DEFINE st2 == Append(st, f)
<1>2. st2 \in Seq(Frames) /\ NotReentered(st2, r)
  BY <1>1, Pushed, CallPushed
<1>3. /\ \A s, dest : Gets(st2, s, dest) <=> Gets(st, s, dest) \/ (s = f.space /\ dest = f.dest)
      /\ \A s : Frees(st2, s) <=> Frees(st, s)
  BY <1>1, SeenPushed
<1>5. /\ At(st2, "refill", "utspace") <=> At(st, "refill", "utspace")
      /\ At(st2, "refill", "slot back") <=> At(st, "refill", "slot back")
      /\ At(st2, "resize", "switch") <=> At(st, "resize", "switch")
  BY <1>1, SeenPushed
<1> HIDE DEF st2
<1>6. ASSUME NEW s, NEW dest, Gets(st2, s, dest)
      PROVE  Gets(st, s, dest) \/ (s = f.space /\ dest = f.dest)
  BY <1>3, <1>6
<1>4. HeldByCalls(b, st2)
  <2>1. \A s \in Spaces : Gets(st2, s, "reserve") => b["reserve"][s] < Desired[s]
    <3>1. ASSUME NEW s \in Spaces, Gets(st2, s, "reserve") PROVE b["reserve"][s] < Desired[s]
      <4>1. CASE Gets(st, s, "reserve")
        BY <1>1, <4>1 DEF HeldByCalls
      <4>2. CASE s = f.space /\ "reserve" = f.dest
        BY <4>2 DEF Room
      <4> QED
        BY <1>6, <3>1, <4>1, <4>2
    <3> QED
      BY <3>1
  <2>2. At(st2, "refill", "utspace") => b["reserve"]["utspace"] < Desired["utspace"]
    BY <1>1, <1>5 DEF HeldByCalls
  <2>3. ASSUME Gets(st2, "utspace", "reserve") PROVE b["hand"]["cspace"] = 1 /\ At(st2, "refill", "slot back")
    <3>1. CASE Gets(st, "utspace", "reserve")
      BY <1>1, <1>5, <3>1 DEF HeldByCalls
    <3>2. CASE "utspace" = f.space /\ "reserve" = f.dest
      BY <1>5, <3>2 DEF Room
    <3> QED
      BY <1>6, <2>3, <3>1, <3>2
  <2>4. ASSUME Gets(st2, "cspace", "hand") PROVE b["hand"]["cspace"] = 0 /\ At(st2, "refill", "utspace")
    <3>1. CASE Gets(st, "cspace", "hand")
      BY <1>1, <1>5, <3>1 DEF HeldByCalls
    <3>2. CASE "cspace" = f.space /\ "hand" = f.dest
      BY <1>5, <3>2 DEF Room
    <3> QED
      BY <1>6, <2>4, <3>1, <3>2
  <2>5. b["hand"]["cspace"] \in {0, 1} /\ (b["hand"]["cspace"] = 1 => At(st2, "refill", "utspace") \/ At(st2, "refill", "slot back"))
    BY <1>1, <1>5 DEF HeldByCalls
  <2>6. ASSUME Gets(st2, "mspace", "new_array") PROVE b["new_array"]["mspace"] = 0 /\ At(st2, "resize", "switch")
    <3>1. CASE Gets(st, "mspace", "new_array")
      BY <1>1, <1>5, <3>1 DEF HeldByCalls
    <3>2. CASE "mspace" = f.space /\ "new_array" = f.dest
      BY <1>5, <3>2 DEF Room
    <3> QED
      BY <1>6, <2>6, <3>1, <3>2
  <2>7. b["new_array"]["mspace"] \in {0, 1} /\ (b["new_array"]["mspace"] = 1 => At(st2, "resize", "switch"))
    BY <1>1, <1>5 DEF HeldByCalls
  <2>8. \A s \in Spaces : b["freeing"][s] = IF Frees(st2, s) THEN 1 ELSE 0
    BY <1>1, <1>3 DEF HeldByCalls
  <2> QED
    BY <2>1, <2>2, <2>3, <2>4, <2>5, <2>6, <2>7, <2>8 DEF HeldByCalls
<1> QED
  BY <1>2, <1>4 DEF Sound, st2

(* ...from the reserve, or not at all. *)
LEMMA AllocCalled ==
  ASSUME refilling \in BOOLEAN, in_operation \in BOOLEAN, used_watermark \in BOOLEAN,
         NEW s \in Spaces, NEW dest, NEW reserve \in BOOLEAN, dest = "reserve" => ~reserve,
         NEW stk, Sound(books, stk, refilling), Room(books, stk, s, dest),
         \A t \in Spaces : CanEnter(t) => ~InWork(stk, t),
         dest \in {"reserve", "hand"} => stk # <<>> /\ Last(stk).op = "refill",
         CallAlloc(s, dest, reserve, stk)
  PROVE  Sound(books', stack', refilling) /\ in_operation' \in BOOLEAN /\ used_watermark' \in BOOLEAN
<1>1. CASE CanEnter(s)
  <2> DEFINE f == Frame("alloc", s, dest, reserve)
  <2>1. stack' = Append(stk, f) /\ books' = books /\ in_operation' = TRUE /\ used_watermark' = used_watermark
    BY <1>1 DEF CallAlloc
  <2>2. /\ f.op = "alloc" /\ f.stage = "callback" /\ f.space = s /\ f.dest = dest
        /\ f \in [op : {"alloc", "free"}, space : Spaces, root : BOOLEAN, dest : Places, reserve : BOOLEAN,
                  stage : {"callback", "ending"}, calls : Nat]
        /\ f.reserve = reserve
    <3>1. dest \in Places
      BY DEF Room, Places
    <3> QED
      BY <3>1, AllocmanConfig DEF Frame
  <2> HIDE DEF f
  <2>3. f \in CallFrames
    BY <2>2 DEF CallFrames, Room
  <2>4. ~InWork(stk, f.space)
    BY <1>1, <2>2
  <2>5. Sound(books, Append(stk, f), refilling)
    <3>1. Room(books, stk, f.space, f.dest) /\ (f.dest \in {"reserve", "hand"} => stk # <<>> /\ Last(stk).op = "refill")
      BY <2>2
    <3> QED
      BY <2>2, <2>3, <2>4, <3>1, AllocPushed
  <2> QED
    BY <2>1, <2>5
<1>2. CASE ~CanEnter(s) /\ reserve /\ books["reserve"][s] > 0
  <2>1. TakeReserve(s, dest, stk) /\ dest # "reserve" /\ (CanEnter("cspace") => ~InWork(stk, "cspace"))
    BY <1>2 DEF CallAlloc, Spaces
  <2> QED
    BY <1>2, <2>1, TookReserve
<1>3. CASE ~CanEnter(s) /\ ~(reserve /\ books["reserve"][s] > 0)
  BY <1>3 DEF CallAlloc
<1> QED
  BY <1>1, <1>2, <1>3

(* What an allocator gives reaches the place that awaits it. *)
LEMMA Delivered ==
  ASSUME NEW r, NEW b, NEW st, Sound(b, st, r), NEW s \in Spaces, NEW dest, Room(b, st, s, dest), b["avail"][s] > 0
  PROVE  Sound(WithSlot(Moved(b, s, "avail", dest), s, dest), st, r)
<1>1. Accounted(b) /\ InArrays(b) /\ st \in Seq(Frames) /\ FreeingHeld(b, st) /\ HeldByCalls(b, st)
      /\ b["with_chunk"]["cspace"] = b["reserve"]["utspace"] /\ b["array"]["mspace"] <= 1
  BY DEF Sound, HeldByCalls, FreeingHeld
<1>2. dest \in {"user", "inner", "reserve", "hand", "new_array"} /\ (dest = "hand" => s = "cspace") /\ (dest = "new_array" => s = "mspace")
      /\ (dest = "hand" => b["hand"]["cspace"] = 0) /\ (dest = "new_array" => b["new_array"]["mspace"] = 0)
      /\ (dest = "reserve" => b["reserve"][s] < Desired[s])
      /\ (dest = "reserve" /\ s = "utspace" => b["hand"]["cspace"] = 1)
  BY DEF Room
<1>3. {"avail", "reserve", "with_chunk", "hand", "new_array", "array", "queue", "freeing", "user", "inner"} \subseteq Places
      /\ {"cspace", "mspace", "utspace"} \subseteq Spaces
  BY DEF Places, Spaces
<1> DEFINE b1 == Moved(b, s, "avail", dest)
           b2 == WithSlot(b1, s, dest)
<1>4. Accounted(b1) /\ After(b1, b, s, "avail", dest)
  <2>1. "avail" \in Places /\ dest \in Places
    BY <1>2, <1>3
  <2> QED
    BY <1>1, <2>1, MovedIs
<1> HIDE DEF b1
<1>5. \A p \in {"with_chunk", "array", "queue", "freeing"}, t \in Spaces : b1[p][t] = b[p][t]
  BY <1>2, <1>3, <1>4 DEF After
<1>6. \A p \in {"reserve", "hand", "new_array"}, t \in Spaces :
        b1[p][t] = IF p = dest /\ t = s THEN b[p][t] + 1 ELSE b[p][t]
  BY <1>2, <1>3, <1>4 DEF After
<1>7. /\ Accounted(b2)
      /\ \A p \in {"array", "queue", "freeing", "reserve", "new_array"}, t \in Spaces : b2[p][t] = b1[p][t]
      /\ b2["hand"]["cspace"] = (IF dest = "reserve" /\ s = "utspace" THEN 0 ELSE b1["hand"]["cspace"])
      /\ b2["with_chunk"]["cspace"] = (IF dest = "reserve" /\ s = "utspace" THEN b1["with_chunk"]["cspace"] + 1 ELSE b1["with_chunk"]["cspace"])
  <2>1. CASE dest = "reserve" /\ s = "utspace"
    <3>1. b2 = Moved(b1, "cspace", "hand", "with_chunk")
      BY <2>1 DEF WithSlot
    <3>2. b1["hand"]["cspace"] = 1
      BY <1>2, <1>3, <1>6, <2>1
    <3>3. "cspace" \in Spaces /\ "hand" \in Places /\ "with_chunk" \in Places /\ b1["hand"]["cspace"] > 0
      BY <1>3, <3>2
    <3> HIDE DEF b2
    <3>4. Accounted(b2) /\ After(b2, b1, "cspace", "hand", "with_chunk")
      BY <1>4, <3>1, <3>3, MovedIs
    <3> QED
      BY <1>3, <2>1, <3>2, <3>4 DEF After
  <2>2. CASE ~(dest = "reserve" /\ s = "utspace")
    <3>1. b2 = b1
      BY <2>2 DEF WithSlot
    <3> HIDE DEF b2
    <3> QED
      BY <1>4, <2>2, <3>1
  <2> QED
    BY <2>1, <2>2
<1> HIDE DEF b2
<1>8. b \in [Places -> [Spaces -> Nat]] /\ b2 \in [Places -> [Spaces -> Nat]]
  BY <1>1, <1>7 DEF Accounted
<1>9. \A t \in Spaces : b["reserve"][t] \in Nat /\ Desired[t] \in Nat
                        /\ b2["reserve"][t] = IF dest = "reserve" /\ t = s THEN b["reserve"][t] + 1 ELSE b["reserve"][t]
  BY <1>3, <1>6, <1>7, <1>8, AllocmanConfig
<1>10. Given(b2, b, s, dest)
  <2>1. b2["hand"]["cspace"] =
          IF dest = "hand" THEN 1 ELSE IF dest = "reserve" /\ s = "utspace" THEN 0 ELSE b["hand"]["cspace"]
    BY <1>2, <1>3, <1>6, <1>7
  <2>2. b2["new_array"]["mspace"] = IF dest = "new_array" THEN 1 ELSE b["new_array"]["mspace"]
    BY <1>2, <1>3, <1>6, <1>7
  <2>3. \A t \in Spaces : b2["reserve"][t] <= b["reserve"][t] \/ (dest = "reserve" /\ t = s)
    BY <1>9
  <2> QED
    BY <2>1, <2>2, <2>3 DEF Given
<1>11. FreeingHeld(b2, st) /\ SameButFrees(st, st)
  BY <1>1, <1>5, <1>7 DEF FreeingHeld, SameButFrees
<1>12. HeldByCalls(b2, st)
  BY <1>1, <1>8, <1>10, <1>11, HeldAfter
<1>13. InArrays(b2)
  <2>1. \A t \in Spaces : b2["reserve"][t] <= Desired[t]
    BY <1>1, <1>2, <1>9 DEF InArrays
  <2>2. \A t \in Spaces : b2["queue"][t] <= QueueSize[t]
    BY <1>1, <1>5, <1>7 DEF InArrays
  <2> QED
    BY <2>1, <2>2 DEF InArrays
<1>14. b2["with_chunk"]["cspace"] = b2["reserve"]["utspace"]
  BY <1>1, <1>3, <1>5, <1>7, <1>9
<1>15. b2["array"]["mspace"] <= 1
  BY <1>1, <1>3, <1>5, <1>7
<1>16. NotReentered(st, r)
  BY DEF Sound
<1> QED
  BY <1>1, <1>7, <1>12, <1>13, <1>14, <1>15, <1>16 DEF Sound, b2, b1

-----------------------------------------------------------------------------
(* The calls in progress go on and end.                                    *)

(* The frame of a refill that starts. *)
LEMMA RefillFrameIs ==
  /\ RefillFrame \in RefillFrames /\ RefillFrame \in Frames
  /\ RefillFrame.op = "refill" /\ RefillFrame.stage = "free cspace" /\ RefillFrame.space = "none"
BY DEF RefillFrame, RefillFrames, Frames

(* A refill that starts holds nothing. *)
LEMMA RefillFramePushed ==
  ASSUME NEW st \in Seq(Frames)
  PROVE  SameButFrees(st, Append(st, RefillFrame)) /\ SameFrees(st, Append(st, RefillFrame))
<1> DEFINE st2 == Append(st, RefillFrame)
           f == RefillFrame
<1>1. f \in Frames /\ f.op = "refill" /\ f.stage = "free cspace"
  BY RefillFrameIs
<1> HIDE DEF f
<1>2. \A op, stage : At(st2, op, stage) <=> (At(st, op, stage) \/ (f.op = op /\ f.stage = stage))
  BY <1>1, SeenPushed DEF f
<1>3. \A s, dest : Gets(st2, s, dest) <=>
        (Gets(st, s, dest) \/ (f.space = s /\ f.stage = "callback" /\ f.op = "alloc" /\ f.dest = dest))
  BY <1>1, SeenPushed DEF f
<1>4. \A s : Frees(st2, s) <=> (Frees(st, s) \/ (f.space = s /\ f.op = "free"))
  BY <1>1, SeenPushed DEF f
<1> HIDE DEF st2
<1>5. At(st2, "refill", "utspace") <=> (At(st, "refill", "utspace") \/ (f.op = "refill" /\ f.stage = "utspace"))
  BY <1>2
<1>6. At(st2, "refill", "slot back") <=> (At(st, "refill", "slot back") \/ (f.op = "refill" /\ f.stage = "slot back"))
  BY <1>2
<1>7. At(st2, "resize", "switch") <=> (At(st, "resize", "switch") \/ (f.op = "resize" /\ f.stage = "switch"))
  BY <1>2
<1>8. /\ At(st2, "refill", "utspace") <=> At(st, "refill", "utspace")
      /\ At(st2, "refill", "slot back") <=> At(st, "refill", "slot back")
      /\ At(st2, "resize", "switch") <=> At(st, "resize", "switch")
  BY <1>1, <1>5, <1>6, <1>7
<1>9. \A s, dest : Gets(st2, s, dest) <=> Gets(st, s, dest)
  BY <1>1, <1>3
<1>10. \A s : Frees(st2, s) <=> Frees(st, s)
  BY <1>1, <1>4
<1> QED
  BY <1>8, <1>9, <1>10 DEF SameButFrees, SameFrees, st2

(* _end_operation() *)
LEMMA Ended ==
  ASSUME refilling \in BOOLEAN, NEW root \in BOOLEAN, NEW used, NEW b, NEW stk, Sound(b, stk, refilling),
         EndsOperation(root, stk, used)
  PROVE  Sound(b, stack', refilling') /\ refilling' \in BOOLEAN /\ in_operation' \in BOOLEAN
<1>1. in_operation' \in BOOLEAN
  BY DEF EndsOperation
<1>2. CASE root /\ used /\ ~refilling
  <2>1. stack' = Append(stk, RefillFrame) /\ refilling' = TRUE
    BY <1>2 DEF EndsOperation
  <2>2. stk \in Seq(Frames) /\ NotReentered(stk, FALSE)
    <3>1. refilling = FALSE
      BY <1>2
    <3> QED
      BY <3>1 DEF Sound
  <2>3. NotReentered(stack', TRUE) /\ stack' \in Seq(Frames)
    BY <2>1, <2>2, Pushed, RefillFrameIs, RefillPushed
  <2>4. SameButFrees(stk, stack') /\ SameFrees(stk, stack')
    BY <2>1, <2>2, RefillFramePushed
  <2>5. Sound(b, stack', TRUE)
    BY <2>3, <2>4, SameHeld
  <2> QED
    BY <1>1, <2>1, <2>5
<1>3. CASE ~(root /\ used /\ ~refilling)
  BY <1>1, <1>3 DEF EndsOperation
<1> QED
  BY <1>2, <1>3

(* An allocator at work in a call below the top is at work. *)
LEMMA InWorkUnder ==
  ASSUME NEW st \in Seq(Frames), st # <<>>, NEW s
  PROVE  /\ InWork(Under(st), s) => InWork(st, s)
         /\ Last(st).stage = "callback" /\ Last(st).space = s => InWork(st, s)
<1> DEFINE n == Len(st)
           u == Under(st)
<1>1. /\ n \in Nat /\ n >= 1 /\ DOMAIN st = 1 .. n
      /\ DOMAIN u = 1 .. n - 1 /\ \A k \in 1 .. n - 1 : u[k] = st[k]
  BY Popped
<1>2. st[n] = Last(st)
  BY DEF Last
<1> HIDE DEF n, u
<1>3. (1 .. n - 1) \subseteq 1 .. n /\ n \in 1 .. n
  BY <1>1
<1>4. InWork(u, s) => InWork(st, s)
  BY <1>1, <1>3 DEF InWork
<1>5. Last(st).stage = "callback" /\ Last(st).space = s => InWork(st, s)
  BY <1>1, <1>2, <1>3 DEF InWork
<1> QED
  BY <1>4, <1>5 DEF u

(* An allocator at work was at work, or the pushed call put it to work. *)
LEMMA InWorkPushed ==
  ASSUME NEW st \in Seq(Frames), NEW g \in Frames, NEW s, InWork(Append(st, g), s)
  PROVE  InWork(st, s) \/ (g.stage = "callback" /\ g.space = s)
<1> DEFINE n == Len(st)
           st2 == Append(st, g)
<1>1. /\ n \in Nat /\ DOMAIN st = 1 .. n /\ DOMAIN st2 = 1 .. n + 1
      /\ (\A k \in 1 .. n : st2[k] = st[k]) /\ st2[n + 1] = g
  BY Pushed
<1>2. InWork(st2, s)
  OBVIOUS
<1> HIDE DEF n, st2
<1>3. \A k \in 1 .. n + 1 : k \in 1 .. n \/ k = n + 1
  BY <1>1
<1> QED
  BY <1>1, <1>2, <1>3 DEF InWork

(* An allocator that can be entered is not at work in the same calls with   *)
(* a changed top.                                                           *)
LEMMA EnterTop ==
  ASSUME stack \in Seq(Frames), stack # <<>>, NEW g \in Frames, NEW s,
         g.stage = "callback" => Last(stack).stage = "callback" /\ g.space = Last(stack).space,
         CanEnter(s)
  PROVE  ~InWork(Append(Under(stack), g), s) /\ ~InWork(Under(stack), s)
<1>1. ~InWork(stack, s)
  BY DEF CanEnter, InCallback, InWork
<1>2. ~InWork(Under(stack), s) /\ ~(Last(stack).stage = "callback" /\ Last(stack).space = s)
  BY <1>1, InWorkUnder
<1>3. Under(stack) \in Seq(Frames)
  BY Popped
<1> QED
  BY <1>2, <1>3, InWorkPushed

(* There is one refill. *)
LEMMA OneRefill ==
  ASSUME NEW st, NEW r, NotReentered(st, r), NEW a, NEW c, At(st, "refill", a), At(st, "refill", c)
  PROVE  a = c
<1>1. PICK j \in DOMAIN st : st[j].op = "refill" /\ st[j].stage = a
  BY DEF At
<1>2. PICK k \in DOMAIN st : st[k].op = "refill" /\ st[k].stage = c
  BY DEF At
<1>3. j = k
  BY <1>1, <1>2 DEF NotReentered
<1> QED
  BY <1>1, <1>2, <1>3

(* Nothing is given to calls that an allocator at work would be given to. *)
LEMMA NotGiven ==
  ASSUME NEW st, NEW s, NEW dest, ~InWork(st, s)
  PROVE  ~Gets(st, s, dest)
BY DEF InWork, Gets

(* The innermost call is an allocation: its caller awaits what it gets. *)
LEMMA AllocPopped ==
  ASSUME NEW r \in BOOLEAN, NEW b, NEW st, Sound(b, st, r), st # <<>>,
         Last(st).op = "alloc", Last(st).stage = "callback"
  PROVE  /\ Under(st) \in Seq(Frames) /\ Last(st) \in CallFrames
         /\ NotReentered(Under(st), r)
         /\ SameFrees(st, Under(st))
         /\ Sound(b, Under(st), r)
         /\ Room(b, Under(st), Last(st).space, Last(st).dest)
<1> DEFINE u == Under(st)
           f == Last(st)
<1>1. st \in Seq(Frames) /\ NotReentered(st, r) /\ HeldByCalls(b, st)
  BY DEF Sound
<1>2. u \in Seq(Frames) /\ f \in Frames
  BY <1>1, Popped
<1>3. f \in CallFrames
  BY <1>2, FrameKinds
<1>4. NotReentered(u, r /\ f.op # "refill") /\ ~InWork(u, f.space)
  BY <1>1, CallPopped
<1>5. NotReentered(u, r)
  <2>1. (r /\ f.op # "refill") = r
    OBVIOUS
  <2> QED
    BY <1>4, <2>1
<1>6. /\ At(st, "refill", "utspace") <=> At(u, "refill", "utspace")
      /\ At(st, "refill", "slot back") <=> At(u, "refill", "slot back")
      /\ At(st, "resize", "switch") <=> At(u, "resize", "switch")
  BY <1>1, SeenPopped
<1>7. SameFrees(st, u)
  BY <1>1, SeenPopped DEF SameFrees
<1>8. \A s, dest : Gets(u, s, dest) => Gets(st, s, dest)
  BY <1>1, SeenPopped
<1>9. Gets(st, f.space, f.dest)
  BY <1>1, SeenPopped
<1>10. f.op = "alloc"
  OBVIOUS
<1> HIDE DEF u, f
<1>11. HeldByCalls(b, u)
  <2>1. ASSUME NEW s \in Spaces, Gets(u, s, "reserve") PROVE b["reserve"][s] < Desired[s]
    BY <1>1, <1>8, <2>1 DEF HeldByCalls
  <2>2. Gets(u, "utspace", "reserve") => b["hand"]["cspace"] = 1 /\ At(u, "refill", "slot back")
    BY <1>1, <1>6, <1>8 DEF HeldByCalls
  <2>3. Gets(u, "cspace", "hand") => b["hand"]["cspace"] = 0 /\ At(u, "refill", "utspace")
    BY <1>1, <1>6, <1>8 DEF HeldByCalls
  <2>4. Gets(u, "mspace", "new_array") => b["new_array"]["mspace"] = 0 /\ At(u, "resize", "switch")
    BY <1>1, <1>6, <1>8 DEF HeldByCalls
  <2>5. \A s \in Spaces : b["freeing"][s] = IF Frees(u, s) THEN 1 ELSE 0
    BY <1>1, <1>7 DEF HeldByCalls, SameFrees
  <2> QED
    BY <1>1, <1>6, <2>1, <2>2, <2>3, <2>4, <2>5 DEF HeldByCalls
<1>12. Sound(b, u, r)
  BY <1>2, <1>5, <1>11 DEF Sound
<1>13. ~Gets(u, f.space, f.dest)
  BY <1>4, NotGiven
<1>14. Room(b, u, f.space, f.dest)
  <2>1. f.space \in Spaces
    BY <1>3, CallFields
  <2>2. CASE f.dest \in {"user", "inner"}
    BY <2>2 DEF Room
  <2>3. CASE f.dest = "reserve"
    <3>1. b["reserve"][f.space] < Desired[f.space] /\ ~Gets(u, f.space, "reserve")
      BY <1>1, <1>9, <1>13, <2>1, <2>3 DEF HeldByCalls
    <3>2. f.space = "utspace" => b["hand"]["cspace"] = 1 /\ At(u, "refill", "slot back")
      BY <1>1, <1>6, <1>9, <2>3 DEF HeldByCalls
    <3>3. At(u, "refill", "slot back") => ~At(u, "refill", "utspace")
      BY <1>5, OneRefill
    <3> QED
      BY <2>3, <3>1, <3>2, <3>3 DEF Room
  <2>4. CASE f.dest = "hand" /\ f.space = "cspace"
    BY <1>1, <1>6, <1>9, <1>13, <2>4 DEF HeldByCalls, Room
  <2>5. CASE f.dest = "new_array" /\ f.space = "mspace"
    BY <1>1, <1>6, <1>9, <1>13, <2>5 DEF HeldByCalls, Room
  <2> QED
    BY <1>3, <1>10, <2>2, <2>3, <2>4, <2>5 DEF CallFrames
<1> QED
  BY <1>2, <1>3, <1>5, <1>7, <1>12, <1>14 DEF u, f

(* The refill, the innermost call, goes on to another stage: nothing is     *)
(* under way for it, and it keeps its slot only as long as it needs it.     *)
LEMMA RefillMoves ==
  ASSUME NEW r \in BOOLEAN, NEW b, NEW st, Sound(b, st, r), st # <<>>, Last(st).op = "refill",
         NEW g \in RefillFrames,
         g.stage = "utspace" => b["reserve"]["utspace"] < Desired["utspace"],
         b["hand"]["cspace"] = 1 => g.stage \in {"utspace", "slot back"}
  PROVE  Sound(b, Append(Under(st), g), r)
<1> DEFINE u == Under(st)
           st2 == Append(u, g)
<1>1. st \in Seq(Frames) /\ NotReentered(st, r) /\ HeldByCalls(b, st) /\ g \in Frames
  BY DEF Sound, Frames
<1>2. g.op = "refill" /\ g.stage # "callback"
  BY DEF RefillFrames
<1>3. NotReentered(st2, r) /\ st2 \in Seq(Frames)
  <2>1. g.op = Last(st).op /\ (g.stage = "callback" => Last(st).stage = "callback" /\ g.space = Last(st).space)
        /\ (g.op = "alloc" => g.dest = Last(st).dest)
    BY <1>2
  <2> QED
    BY <1>1, <2>1, TopChanged
<1>4. u \in Seq(Frames)
  BY <1>1, Popped
<1>5. /\ At(st2, "refill", "utspace") => At(u, "refill", "utspace") \/ g.stage = "utspace"
      /\ g.stage = "utspace" => At(st2, "refill", "utspace")
      /\ g.stage = "slot back" => At(st2, "refill", "slot back")
      /\ At(st2, "resize", "switch") <=> At(u, "resize", "switch")
  <2>1. \A op, stage : At(st2, op, stage) <=> (At(u, op, stage) \/ (g.op = op /\ g.stage = stage))
    BY <1>1, <1>4, SeenPushed
  <2>2. At(st2, "refill", "utspace") <=> (At(u, "refill", "utspace") \/ (g.op = "refill" /\ g.stage = "utspace"))
    BY <2>1
  <2>3. At(st2, "refill", "slot back") <=> (At(u, "refill", "slot back") \/ (g.op = "refill" /\ g.stage = "slot back"))
    BY <2>1
  <2>4. At(st2, "resize", "switch") <=> (At(u, "resize", "switch") \/ (g.op = "resize" /\ g.stage = "switch"))
    BY <2>1
  <2> QED
    BY <1>2, <2>2, <2>3, <2>4
<1>6. /\ At(st, "resize", "switch") <=> At(u, "resize", "switch")
      /\ At(u, "refill", "utspace") => At(st, "refill", "utspace")
  <2>1. \A op, stage : At(st, op, stage) <=> (At(u, op, stage) \/ (Last(st).op = op /\ Last(st).stage = stage))
    BY <1>1, SeenPopped
  <2>2. At(st, "refill", "utspace") <=> (At(u, "refill", "utspace") \/ (Last(st).op = "refill" /\ Last(st).stage = "utspace"))
    BY <2>1
  <2>3. At(st, "resize", "switch") <=> (At(u, "resize", "switch") \/ (Last(st).op = "resize" /\ Last(st).stage = "switch"))
    BY <2>1
  <2> QED
    BY <2>2, <2>3
<1>7. \A s, dest : Gets(st2, s, dest) <=> Gets(u, s, dest)
  BY <1>1, <1>2, <1>4, SeenPushed
<1>8. \A s, dest : Gets(u, s, dest) <=> Gets(st, s, dest)
  BY <1>1, SeenPopped
<1>9. SameFrees(st, st2)
  <2>1. \A s : Frees(st2, s) <=> Frees(u, s)
    BY <1>1, <1>2, <1>4, SeenPushed
  <2>2. \A s : Frees(u, s) <=> Frees(st, s)
    BY <1>1, SeenPopped
  <2> QED
    BY <2>1, <2>2 DEF SameFrees
<1>10. \A s : ~Gets(st, s, "reserve") /\ ~Gets(st, s, "hand")
  <2>1. \A k \in DOMAIN st : ~(st[k].op = "alloc" /\ st[k].dest \in {"reserve", "hand"})
    BY <1>1, CallPopped
  <2> QED
    BY <2>1 DEF Gets
<1> HIDE DEF u, st2
<1>11. \A s, dest : Gets(st2, s, dest) <=> Gets(st, s, dest)
  BY <1>7, <1>8
<1>12. HeldByCalls(b, st2)
  <2>1. \A s : ~Gets(st2, s, "reserve") /\ ~Gets(st2, s, "hand")
    BY <1>10, <1>11
  <2>2. At(st2, "refill", "utspace") => b["reserve"]["utspace"] < Desired["utspace"]
    BY <1>1, <1>5, <1>6 DEF HeldByCalls
  <2>3. b["hand"]["cspace"] \in {0, 1}
    BY <1>1 DEF HeldByCalls
  <2>4. b["hand"]["cspace"] = 1 => At(st2, "refill", "utspace") \/ At(st2, "refill", "slot back")
    BY <1>5
  <2>5. Gets(st2, "mspace", "new_array") => b["new_array"]["mspace"] = 0 /\ At(st2, "resize", "switch")
    <3>1. Gets(st2, "mspace", "new_array") => Gets(st, "mspace", "new_array")
      BY <1>11
    <3> QED
      BY <1>1, <1>5, <1>6, <3>1 DEF HeldByCalls
  <2>6. b["new_array"]["mspace"] \in {0, 1} /\ (b["new_array"]["mspace"] = 1 => At(st2, "resize", "switch"))
    BY <1>1, <1>5, <1>6 DEF HeldByCalls
  <2>7. \A s \in Spaces : b["freeing"][s] = IF Frees(st2, s) THEN 1 ELSE 0
    BY <1>1, <1>9 DEF HeldByCalls, SameFrees
  <2> QED
    BY <2>1, <2>2, <2>3, <2>4, <2>5, <2>6, <2>7 DEF HeldByCalls
<1> QED
  BY <1>3, <1>12 DEF Sound, st2, u

(* Between the stages that use it, the refill has no slot in hand. *)
LEMMA HandEmpty ==
  ASSUME NEW r, NEW b, NEW st, Sound(b, st, r), st # <<>>, Last(st).op = "refill"
  PROVE  /\ b["hand"]["cspace"] \in {0, 1}
         /\ b["hand"]["cspace"] = 1 => Last(st).stage \in {"utspace", "slot back"}
         /\ Last(st).stage = "utspace" => b["reserve"]["utspace"] < Desired["utspace"]
<1>1. st \in Seq(Frames) /\ NotReentered(st, r) /\ HeldByCalls(b, st)
  BY DEF Sound
<1>2. At(st, "refill", Last(st).stage)
  BY <1>1, SeenPopped
<1>3. At(st, "refill", "utspace") => "utspace" = Last(st).stage
  BY <1>1, <1>2, OneRefill
<1>4. At(st, "refill", "slot back") => "slot back" = Last(st).stage
  BY <1>1, <1>2, OneRefill
<1> QED
  BY <1>1, <1>2, <1>3, <1>4 DEF HeldByCalls

-----------------------------------------------------------------------------
(* The inductive invariant. *)
AllocmanInv ==
  /\ Sound(books, stack, refilling)
  /\ in_operation \in BOOLEAN /\ used_watermark \in BOOLEAN /\ refilling \in BOOLEAN

(* Top and Below of the model are the last frame and those under it. *)
LEMMA TopIs ==
  ASSUME AllocmanInv, stack # <<>>
  PROVE  /\ Top = Last(stack) /\ Below = Under(stack)
         /\ stack \in Seq(Frames) /\ NotReentered(stack, refilling) /\ HeldByCalls(books, stack)
         /\ Last(stack) \in Frames /\ Under(stack) \in Seq(Frames)
         /\ books \in [Places -> [Spaces -> Nat]]
BY Popped DEF AllocmanInv, Sound, Top, Below, Last, Under, Accounted

(* allocman_..._alloc() called from outside keeps the invariant. *)
LEMMA UserAllocsKeeps ==
  ASSUME AllocmanInv, NEW s \in Spaces, UserAllocs(s)
  PROVE  AllocmanInv'
<1>1. PICK reserve \in {TRUE, s # "utspace"} : CallAlloc(s, "user", reserve, stack)
  BY DEF UserAllocs
<1>2. Room(books, stack, s, "user") /\ \A t \in Spaces : CanEnter(t) => ~InWork(stack, t)
  BY DEF Room, CanEnter, InCallback, InWork
<1>3. reserve \in BOOLEAN
  OBVIOUS
<1>4. Sound(books', stack', refilling) /\ in_operation' \in BOOLEAN /\ used_watermark' \in BOOLEAN
  <2>1. refilling \in BOOLEAN /\ in_operation \in BOOLEAN /\ used_watermark \in BOOLEAN /\ Sound(books, stack, refilling)
    BY DEF AllocmanInv
  <2>2. ("user" = "reserve" => ~reserve) /\ ("user" \in {"reserve", "hand"} => stack # <<>> /\ Last(stack).op = "refill")
    OBVIOUS
  <2> QED
    BY <1>1, <1>2, <1>3, <2>1, <2>2, AllocCalled
<1> QED
  BY <1>4 DEF AllocmanInv, UserAllocs

(* allocman_..._free() called from outside keeps the invariant. *)
LEMMA UserFreesKeeps ==
  ASSUME AllocmanInv, NEW s \in Spaces, UserFrees(s)
  PROVE  AllocmanInv'
<1>1. CallFree(s, "user", books, stack) /\ books["user"][s] > 0
  BY DEF UserFrees
<1>2. CanEnter(s) => ~InWork(stack, s)
  BY DEF CanEnter, InCallback, InWork
<1>3. Sound(books', stack', refilling) /\ in_operation' \in BOOLEAN
  <2>1. refilling \in BOOLEAN /\ in_operation \in BOOLEAN /\ Sound(books, stack, refilling)
    BY DEF AllocmanInv
  <2>2. "user" \in {"user", "inner", "queue"}
    OBVIOUS
  <2> QED
    BY <1>1, <1>2, <2>1, <2>2, FreedSound
<1> QED
  BY <1>3 DEF AllocmanInv, UserFrees

(* The top frame counts a call. *)
LEMMA CalledSame ==
  ASSUME AllocmanInv, InAllocator, Top.calls > 0
  PROVE  /\ stack # <<>> /\ Sound(books, Append(Below, CalledFrame), refilling)
         /\ \A t \in Spaces : CanEnter(t) => ~InWork(Append(Below, CalledFrame), t)
<1> DEFINE f == Last(stack)
           g == CalledFrame
           st2 == Append(Under(stack), g)
<1>1. stack # <<>>
  BY DEF InAllocator, Idle
<1>2. /\ Top = f /\ Below = Under(stack) /\ stack \in Seq(Frames) /\ NotReentered(stack, refilling)
      /\ f \in Frames /\ Under(stack) \in Seq(Frames)
  BY <1>1, TopIs
<1>3. f \in CallFrames /\ f.stage = "callback"
  BY <1>2, FrameKinds DEF InAllocator
<1>4. g = [f EXCEPT !.calls = f.calls - 1] /\ f.calls > 0
  BY <1>2 DEF CalledFrame
<1> HIDE DEF f, g
<1>5. g \in CallFrames /\ g.op = f.op /\ g.stage = f.stage /\ g.space = f.space /\ g.dest = f.dest
  BY <1>3, <1>4 DEF CallFrames
<1>6. g \in Frames
  BY <1>5 DEF Frames
<1>7. NotReentered(st2, refilling) /\ st2 \in Seq(Frames)
  <2>1. g.op = Last(stack).op /\ (g.stage = "callback" => Last(stack).stage = "callback" /\ g.space = Last(stack).space)
        /\ (g.op = "alloc" => g.dest = Last(stack).dest) /\ refilling \in BOOLEAN
    BY <1>5 DEF f, AllocmanInv
  <2> QED
    BY <1>1, <1>2, <1>6, <2>1, TopChanged
<1>8. SameButFrees(stack, st2) /\ SameFrees(stack, st2)
  <2>1. /\ \A op, stage : At(st2, op, stage) <=> (At(Under(stack), op, stage) \/ (g.op = op /\ g.stage = stage))
        /\ \A s, dest : Gets(st2, s, dest) <=>
             (Gets(Under(stack), s, dest) \/ (g.space = s /\ g.stage = "callback" /\ g.op = "alloc" /\ g.dest = dest))
        /\ \A s : Frees(st2, s) <=> (Frees(Under(stack), s) \/ (g.space = s /\ g.op = "free"))
    BY <1>2, <1>6, SeenPushed
  <2>2. /\ \A op, stage : At(stack, op, stage) <=> (At(Under(stack), op, stage) \/ (f.op = op /\ f.stage = stage))
        /\ \A s, dest : Gets(stack, s, dest) <=>
             (Gets(Under(stack), s, dest) \/ (f.space = s /\ f.stage = "callback" /\ f.op = "alloc" /\ f.dest = dest))
        /\ \A s : Frees(stack, s) <=> (Frees(Under(stack), s) \/ (f.space = s /\ f.op = "free"))
    BY <1>1, <1>2, SeenPopped DEF f
  <2> HIDE DEF st2
  <2> QED
    BY <1>5, <2>1, <2>2 DEF SameButFrees, SameFrees
<1>9. Sound(books, st2, refilling)
  <2>1. Sound(books, stack, refilling) /\ refilling \in BOOLEAN
    BY DEF AllocmanInv
  <2> QED
    BY <1>7, <1>8, <2>1, SameHeld
<1>10. \A t \in Spaces : CanEnter(t) => ~InWork(st2, t)
  BY <1>1, <1>2, <1>5, <1>6, EnterTop DEF f
<1> QED
  BY <1>1, <1>2, <1>9, <1>10 DEF g

(* An allocation by an allocator at work keeps the invariant. *)
LEMMA NestedAllocKeeps ==
  ASSUME AllocmanInv, NEW s \in Spaces, NestedAlloc(s)
  PROVE  AllocmanInv'
<1> DEFINE st2 == Append(Below, CalledFrame)
<1>1. Sound(books, st2, refilling) /\ \A t \in Spaces : CanEnter(t) => ~InWork(st2, t)
  BY CalledSame DEF NestedAlloc
<1>2. CallAlloc(s, "inner", TRUE, st2)
  BY DEF NestedAlloc
<1> HIDE DEF st2
<1>3. Room(books, st2, s, "inner") /\ TRUE \in BOOLEAN /\ ("inner" = "reserve" => ~TRUE)
      /\ ("inner" \in {"reserve", "hand"} => st2 # <<>> /\ Last(st2).op = "refill")
  BY DEF Room
<1>4. refilling \in BOOLEAN /\ in_operation \in BOOLEAN /\ used_watermark \in BOOLEAN
  BY DEF AllocmanInv
<1>5. Sound(books', stack', refilling) /\ in_operation' \in BOOLEAN /\ used_watermark' \in BOOLEAN
  BY <1>1, <1>2, <1>3, <1>4, AllocCalled
<1> QED
  BY <1>5 DEF AllocmanInv, NestedAlloc

(* A free by an allocator at work keeps the invariant. *)
LEMMA NestedFreeKeeps ==
  ASSUME AllocmanInv, NEW s \in Spaces, NestedFree(s)
  PROVE  AllocmanInv'
<1> DEFINE st2 == Append(Below, CalledFrame)
<1>1. Sound(books, st2, refilling) /\ \A t \in Spaces : CanEnter(t) => ~InWork(st2, t)
  BY CalledSame DEF NestedFree
<1>2. CallFree(s, "inner", books, st2) /\ books["inner"][s] > 0
  BY DEF NestedFree
<1> HIDE DEF st2
<1>3. refilling \in BOOLEAN /\ in_operation \in BOOLEAN /\ "inner" \in {"user", "inner", "queue"}
      /\ (CanEnter(s) => ~InWork(st2, s))
  BY <1>1 DEF AllocmanInv
<1>4. Sound(books', stack', refilling) /\ in_operation' \in BOOLEAN
  BY <1>1, <1>2, <1>3, FreedSound
<1> QED
  BY <1>4 DEF AllocmanInv, NestedFree

(* With no calls in progress nothing is held. *)
LEMMA IdleHolds ==
  ASSUME AllocmanInv, stack = <<>>
  PROVE  /\ \A op, stage : ~At(stack, op, stage)
         /\ \A s, dest : ~Gets(stack, s, dest)
         /\ \A s : ~Frees(stack, s)
         /\ refilling = FALSE
         /\ books["hand"]["cspace"] = 0 /\ books["new_array"]["mspace"] = 0
         /\ \A s \in Spaces : books["freeing"][s] = 0
<1>1. DOMAIN stack = {}
  OBVIOUS
<1>2. NotReentered(stack, refilling) /\ HeldByCalls(books, stack) /\ refilling \in BOOLEAN
  BY DEF AllocmanInv, Sound
<1>3. (\A op, stage : ~At(stack, op, stage)) /\ (\A s, dest : ~Gets(stack, s, dest)) /\ (\A s : ~Frees(stack, s))
  BY <1>1 DEF At, Gets, Frees
<1>4. refilling = FALSE
  BY <1>1, <1>2 DEF NotReentered
<1>5. books["hand"]["cspace"] = 0
  <2>1. ~At(stack, "refill", "utspace") /\ ~At(stack, "refill", "slot back")
    BY <1>3
  <2> QED
    BY <1>2, <2>1 DEF HeldByCalls
<1>6. books["new_array"]["mspace"] = 0
  <2>1. ~At(stack, "resize", "switch")
    BY <1>3
  <2> QED
    BY <1>2, <2>1 DEF HeldByCalls
<1>7. \A s \in Spaces : books["freeing"][s] = 0
  BY <1>2, <1>3 DEF HeldByCalls
<1> QED
  BY <1>3, <1>4, <1>5, <1>6, <1>7

(* resize_array() and allocman_fill_reserves() start from there. *)
LEMMA OwnStarts ==
  ASSUME AllocmanInv, stack = <<>>, NEW f \in OwnFrames, f.stage # "switch"
  PROVE  Sound(books, <<f>>, FALSE) /\ <<f>> \in Seq(Frames) /\ refilling = FALSE
<1>1. stack \in Seq(Frames) /\ NotReentered(<<>>, refilling) /\ refilling \in BOOLEAN /\ f \in Frames
  BY DEF AllocmanInv, Sound, Frames
<1>2. refilling = FALSE /\ Append(<<>>, f) = <<f>> /\ NotReentered(<<f>>, refilling)
  BY <1>1, OwnPushed
<1> DEFINE st2 == <<f>>
<1>3. st2 \in Seq(Frames)
  BY <1>1
<1>4. st2 = Append(stack, f)
  BY <1>2
<1>5. f.op # "refill" /\ f.op # "alloc" /\ f.op # "free"
  BY DEF OwnFrames
<1> HIDE DEF st2
<1>6. SameButFrees(stack, st2) /\ SameFrees(stack, st2)
  BY <1>1, <1>4, <1>5, SeenPushed DEF SameButFrees, SameFrees
<1>7. Sound(books, st2, refilling)
  <2>1. Sound(books, stack, refilling) /\ NotReentered(st2, refilling)
    BY <1>2 DEF AllocmanInv, st2
  <2> QED
    BY <1>1, <1>3, <1>6, <2>1, SameHeld
<1> QED
  BY <1>2, <1>3, <1>7 DEF st2

(* allocman_fill_reserves() keeps the invariant. *)
LEMMA FillReservesKeeps ==
  ASSUME AllocmanInv, FillReserves
  PROVE  AllocmanInv'
<1> DEFINE f == OwnFrame("fill", "ending")
           st == <<f>>
<1>1. stack = <<>> /\ stack' = <<f, RefillFrame>> /\ books' = books /\ refilling' = TRUE
  BY DEF FillReserves, Idle
<1>2. f \in OwnFrames /\ f.stage # "switch"
  BY DEF OwnFrame, OwnFrames, AllocmanInv
<1> HIDE DEF f
<1>3. Sound(books, st, FALSE) /\ st \in Seq(Frames)
  BY <1>1, <1>2, OwnStarts
<1>4. stack' = Append(st, RefillFrame)
  BY <1>1
<1> HIDE DEF st
<1>5. NotReentered(stack', TRUE) /\ stack' \in Seq(Frames)
  BY <1>3, <1>4, RefillFrameIs, RefillPushed, Pushed DEF Sound
<1>6. SameButFrees(st, stack') /\ SameFrees(st, stack')
  BY <1>3, <1>4, RefillFramePushed
<1>7. Sound(books, stack', TRUE)
  BY <1>3, <1>5, <1>6, SameHeld
<1> QED
  BY <1>1, <1>7 DEF AllocmanInv, FillReserves

(* resize_array(), as it starts, keeps the invariant. *)
LEMMA ResizeStartsKeeps ==
  ASSUME AllocmanInv, ResizeStarts
  PROVE  AllocmanInv'
<1> DEFINE f == OwnFrame("resize", "allocate")
<1>1. stack = <<>> /\ stack' = <<f>> /\ books' = books /\ refilling' = refilling
  BY DEF ResizeStarts, Idle
<1>2. f \in OwnFrames /\ f.stage # "switch"
  BY DEF OwnFrame, OwnFrames, AllocmanInv
<1> HIDE DEF f
<1>3. Sound(books, <<f>>, FALSE) /\ refilling = FALSE
  BY <1>1, <1>2, OwnStarts
<1> QED
  BY <1>1, <1>3 DEF AllocmanInv, ResizeStarts

(* What the refill is told of an allocation for its reserve. *)
LEMMA ProgressSame ==
  ASSUME NEW r \in BOOLEAN, NEW b, NEW st, Sound(b, st, r), NEW dest,
         dest = "reserve" => st # <<>> /\ Last(st).op = "refill"
  PROVE  Sound(b, Progress(st, dest), r)
<1>1. CASE dest # "reserve"
  BY <1>1 DEF Progress
<1>2. CASE dest = "reserve"
  <2> DEFINE f == Last(st)
             g == [f EXCEPT !.did = TRUE]
             n == Len(st)
  <2>1. st \in Seq(Frames) /\ st # <<>> /\ f.op = "refill"
    BY <1>2 DEF Sound
  <2>2. /\ n \in Nat /\ n >= 1 /\ DOMAIN st = 1 .. n /\ f \in Frames /\ f = st[n]
        /\ Under(st) \in Seq(Frames) /\ Len(Under(st)) = n - 1 /\ \A k \in 1 .. n - 1 : Under(st)[k] = st[k]
    BY <2>1, Popped DEF Last
  <2>3. f \in RefillFrames
    BY <2>1, <2>2, FrameKinds
  <2> HIDE DEF f
  <2>4. g \in RefillFrames /\ g.op = "refill" /\ g.stage = f.stage
    BY <2>3 DEF RefillFrames
  <2>5. Progress(st, dest) = [st EXCEPT ![n] = g]
    BY <1>2, <2>2 DEF Progress
  <2> HIDE DEF g, n
  <2>6. g \in Frames
    BY <2>4 DEF Frames
  <2>7. [st EXCEPT ![n] = g] = Append(Under(st), g)
    <3> DEFINE x == [st EXCEPT ![n] = g]
               y == Append(Under(st), g)
    <3>1. x \in Seq(Frames) /\ Len(x) = n /\ \A k \in 1 .. n : x[k] = IF k = n THEN g ELSE st[k]
      BY <2>1, <2>2, <2>6 DEF n
    <3>2. y \in Seq(Frames) /\ Len(y) = n /\ (\A k \in 1 .. n - 1 : y[k] = st[k]) /\ y[n] = g
      <4>1. /\ y \in Seq(Frames) /\ Len(y) = Len(Under(st)) + 1
            /\ \A k \in 1 .. Len(Under(st)) : y[k] = Under(st)[k]
            /\ y[Len(Under(st)) + 1] = g
        BY <2>2, <2>6, Pushed
      <4>2. n - 1 + 1 = n
        BY <2>2
      <4> HIDE DEF y
      <4> QED
        BY <2>2, <4>1, <4>2
    <3> HIDE DEF x, y
    <3>3. \A k \in 1 .. n : x[k] = y[k]
      <4>1. \A k \in 1 .. n : k = n \/ k \in 1 .. n - 1
        BY <2>2
      <4>2. \A k \in 1 .. n - 1 : k # n /\ k \in 1 .. n
        BY <2>2
      <4> QED
        BY <3>1, <3>2, <4>1, <4>2
    <3>4. x = y
      BY <3>1, <3>2, <3>3, SeqEqual
    <3> QED
      BY <3>4 DEF x, y
  <2>8. Sound(b, Append(Under(st), g), r)
    <3>1. b["hand"]["cspace"] = 1 => g.stage \in {"utspace", "slot back"}
      BY <2>1, <2>4, HandEmpty DEF f
    <3>2. g.stage = "utspace" => b["reserve"]["utspace"] < Desired["utspace"]
      BY <2>1, <2>4, HandEmpty DEF f
    <3>3. Last(st).op = "refill"
      BY <2>1 DEF f
    <3> QED
      BY <2>1, <2>4, <3>1, <3>2, <3>3, RefillMoves
  <2> QED
    BY <2>5, <2>7, <2>8
<1> QED
  BY <1>1, <1>2

(* An allocator that returns what it was asked for keeps the invariant. *)
LEMMA AllocSucceedsKeeps ==
  ASSUME AllocmanInv, AllocSucceeds
  PROVE  AllocmanInv'
<1> DEFINE f == Last(stack)
           u == Under(stack)
<1>1. stack # <<>>
  BY DEF AllocSucceeds, InAllocator, Idle
<1>2. Top = f /\ Below = u /\ stack \in Seq(Frames) /\ NotReentered(stack, refilling) /\ refilling \in BOOLEAN
      /\ Sound(books, stack, refilling)
  BY <1>1, TopIs DEF AllocmanInv
<1>3. f.op = "alloc" /\ f.stage = "callback" /\ books["avail"][f.space] > 0
  BY <1>2 DEF AllocSucceeds, InAllocator
<1>4. /\ f \in CallFrames
      /\ Sound(books, u, refilling)
      /\ Room(books, u, f.space, f.dest)
  BY <1>1, <1>2, <1>3, AllocPopped
<1>5. f.dest = "reserve" => u # <<>> /\ Last(u).op = "refill"
  BY <1>1, <1>2, <1>3, CallPopped
<1>6. books' = WithSlot(Moved(books, f.space, "avail", f.dest), f.space, f.dest)
      /\ EndsOperation(f.root, Progress(u, f.dest), used_watermark) /\ used_watermark' = used_watermark
  BY <1>2 DEF AllocSucceeds
<1> HIDE DEF f, u
<1>7. f.space \in Spaces /\ f.root \in BOOLEAN
  BY <1>4, CallFields
<1> DEFINE b2 == WithSlot(Moved(books, f.space, "avail", f.dest), f.space, f.dest)
<1>8. Sound(b2, u, refilling)
  BY <1>3, <1>4, <1>7, Delivered
<1> HIDE DEF b2
<1>9. Sound(b2, Progress(u, f.dest), refilling)
  BY <1>2, <1>5, <1>8, ProgressSame
<1> DEFINE st2 == Progress(u, f.dest)
<1>10. Sound(b2, st2, refilling) /\ EndsOperation(f.root, st2, used_watermark)
  BY <1>6, <1>9
<1> HIDE DEF st2
<1>11. Sound(b2, stack', refilling') /\ refilling' \in BOOLEAN /\ in_operation' \in BOOLEAN
  BY <1>2, <1>7, <1>10, Ended
<1> QED
  BY <1>6, <1>11 DEF AllocmanInv, b2

(* An allocator that fails, with or without the reserve, keeps the invariant. *)
LEMMA AllocFailsKeeps ==
  ASSUME AllocmanInv, AllocFails
  PROVE  AllocmanInv'
<1> DEFINE f == Last(stack)
           u == Under(stack)
           g == [f EXCEPT !.stage = "ending"]
           st2 == Append(u, g)
<1>1. stack # <<>>
  BY DEF AllocFails, InAllocator, Idle
<1>2. Top = f /\ Below = u /\ stack \in Seq(Frames) /\ NotReentered(stack, refilling) /\ refilling \in BOOLEAN
      /\ Sound(books, stack, refilling)
  BY <1>1, TopIs DEF AllocmanInv
<1>3. f.op = "alloc" /\ f.stage = "callback"
  BY <1>2 DEF AllocFails, InAllocator
<1>4. /\ f \in CallFrames /\ u \in Seq(Frames)
      /\ Sound(books, u, refilling)
      /\ Room(books, u, f.space, f.dest)
  BY <1>1, <1>2, <1>3, AllocPopped
<1>5. IF f.reserve /\ books["reserve"][f.space] > 0
        THEN TakeReserve(f.space, f.dest, st2)
        ELSE stack' = st2 /\ UNCHANGED <<books, in_operation, used_watermark>>
  BY <1>2 DEF AllocFails, Ending
<1> HIDE DEF f
<1>6. g \in CallFrames /\ g.op = "alloc" /\ g.stage = "ending" /\ g.dest = f.dest
  BY <1>3, <1>4 DEF CallFrames
<1> HIDE DEF g
<1>7. g \in Frames
  BY <1>6 DEF Frames
<1>8. NotReentered(st2, refilling) /\ st2 \in Seq(Frames)
  <2>1. g.op = Last(stack).op /\ (g.stage = "callback" => Last(stack).stage = "callback" /\ g.space = Last(stack).space)
        /\ (g.op = "alloc" => g.dest = Last(stack).dest)
    BY <1>3, <1>6 DEF f
  <2> QED
    BY <1>1, <1>2, <1>7, <2>1, TopChanged
<1>9. CanEnter("cspace") => ~InWork(st2, "cspace")
  BY <1>1, <1>2, <1>6, <1>7, EnterTop
<1>10. SameButFrees(u, st2) /\ SameFrees(u, st2)
  BY <1>4, <1>6, <1>7, SeenPushed DEF SameButFrees, SameFrees
<1> HIDE DEF st2, u
<1>11. Sound(books, st2, refilling)
  BY <1>2, <1>4, <1>8, <1>10, SameHeld
<1>12. Room(books, st2, f.space, f.dest)
  BY <1>4, <1>10 DEF Room, SameButFrees
<1>13. f.space \in Spaces /\ (f.reserve => f.dest # "reserve")
  BY <1>3, <1>4 DEF CallFrames
<1>14. in_operation \in BOOLEAN /\ used_watermark \in BOOLEAN /\ refilling' = refilling
  BY DEF AllocmanInv, AllocFails
<1>15. CASE f.reserve /\ books["reserve"][f.space] > 0
  <2>1. Sound(books', stack', refilling) /\ in_operation' \in BOOLEAN /\ used_watermark' \in BOOLEAN
    BY <1>2, <1>5, <1>9, <1>11, <1>12, <1>13, <1>14, <1>15, TookReserve
  <2> QED
    BY <1>2, <1>14, <2>1 DEF AllocmanInv
<1>16. CASE ~(f.reserve /\ books["reserve"][f.space] > 0)
  BY <1>2, <1>5, <1>11, <1>14, <1>16 DEF AllocmanInv
<1> QED
  BY <1>15, <1>16

(* _end_operation() of a failed allocation, a resize or a fill keeps it. *)
LEMMA OperationEndsKeeps ==
  ASSUME AllocmanInv, OperationEnds
  PROVE  AllocmanInv'
<1> DEFINE f == Last(stack)
           u == Under(stack)
<1>1. stack # <<>>
  BY DEF OperationEnds, Idle
<1>2. Top = f /\ Below = u /\ stack \in Seq(Frames) /\ NotReentered(stack, refilling) /\ refilling \in BOOLEAN
      /\ Sound(books, stack, refilling) /\ f \in Frames /\ u \in Seq(Frames)
  BY <1>1, TopIs DEF AllocmanInv
<1>3. f.stage = "ending" /\ EndsOperation(f.root, u, used_watermark) /\ books' = books /\ used_watermark' = used_watermark
  BY <1>2 DEF OperationEnds
<1>4. f.root \in BOOLEAN /\ f.op # "free" /\ f.op # "refill"
  <2>1. f.op # "refill"
    BY <1>2, <1>3 DEF Frames, RefillFrames, CallFrames, OwnFrames
  <2> QED
    BY <1>2, <1>3, <2>1, FrameKinds
<1>5. NotReentered(u, refilling)
  <2>1. NotReentered(u, refilling /\ f.op # "refill")
    BY <1>1, <1>2, CallPopped
  <2>2. (refilling /\ f.op # "refill") = refilling
    BY <1>2, <1>4
  <2> QED
    BY <2>1, <2>2
<1>6. SameButFrees(stack, u) /\ SameFrees(stack, u)
  <2>1. stack \in Seq(Frames) /\ stack # <<>>
    BY <1>1, <1>2
  <2>2. /\ \A op, stage : At(stack, op, stage) <=> (At(u, op, stage) \/ (f.op = op /\ f.stage = stage))
        /\ \A s, dest : Gets(stack, s, dest) <=>
             \/ Gets(u, s, dest)
             \/ f.space = s /\ f.stage = "callback" /\ f.op = "alloc" /\ f.dest = dest
        /\ \A s : Frees(stack, s) <=> (Frees(u, s) \/ (f.space = s /\ f.op = "free"))
    BY <2>1, SeenPopped
  <2> HIDE DEF f, u
  <2>3. At(u, "refill", "utspace") <=> At(stack, "refill", "utspace")
    BY <1>3, <2>2
  <2>4. At(u, "refill", "slot back") <=> At(stack, "refill", "slot back")
    BY <1>3, <2>2
  <2>5. At(u, "resize", "switch") <=> At(stack, "resize", "switch")
    BY <1>3, <2>2
  <2>6. \A s, dest : Gets(u, s, dest) <=> Gets(stack, s, dest)
    BY <1>3, <2>2
  <2>7. \A s : Frees(u, s) <=> Frees(stack, s)
    BY <1>4, <2>2
  <2> QED
    BY <2>3, <2>4, <2>5, <2>6, <2>7 DEF SameButFrees, SameFrees
<1> HIDE DEF f, u
<1>7. Sound(books, u, refilling)
  BY <1>2, <1>5, <1>6, SameHeld
<1>8. Sound(books, stack', refilling') /\ refilling' \in BOOLEAN /\ in_operation' \in BOOLEAN
  BY <1>2, <1>3, <1>4, <1>7, Ended
<1> QED
  BY <1>3, <1>8 DEF AllocmanInv

(* An allocator that has freed keeps the invariant. *)
LEMMA FreeEndsKeeps ==
  ASSUME AllocmanInv, FreeEnds
  PROVE  AllocmanInv'
<1> DEFINE f == Last(stack)
           u == Under(stack)
           s == f.space
           b2 == Moved(books, s, "freeing", "avail")
<1>1. stack # <<>>
  BY DEF FreeEnds, InAllocator, Idle
<1>2. Top = f /\ Below = u /\ stack \in Seq(Frames) /\ NotReentered(stack, refilling) /\ refilling \in BOOLEAN
      /\ Sound(books, stack, refilling) /\ f \in Frames /\ u \in Seq(Frames)
  BY <1>1, TopIs DEF AllocmanInv
<1>3. f.stage = "callback" /\ f.op = "free" /\ EndsOperation(f.root, u, used_watermark)
      /\ books' = b2 /\ used_watermark' = used_watermark
  BY <1>2 DEF FreeEnds, InAllocator
<1>4. f \in CallFrames
  BY <1>2, <1>3, FrameKinds
<1>5. f.root \in BOOLEAN /\ s \in Spaces
  BY <1>4, CallFields
<1>6. NotReentered(u, refilling) /\ ~InWork(u, s)
  <2>1. NotReentered(u, refilling /\ f.op # "refill") /\ ~InWork(u, s)
    BY <1>1, <1>2, <1>3, CallPopped
  <2>2. (refilling /\ f.op # "refill") = refilling
    BY <1>2, <1>3
  <2> QED
    BY <2>1, <2>2
<1>7. SameButFrees(stack, u)
  BY <1>1, <1>2, <1>3, SeenPopped DEF SameButFrees
<1>8. \A t : Frees(stack, t) <=> Frees(u, t) \/ t = s
  BY <1>1, <1>2, <1>3, SeenPopped
<1>9. ~Frees(u, s)
  <2>1. ASSUME NEW k \in DOMAIN u, u[k].space = s, u[k].op = "free"
        PROVE  FALSE
    <3>1. u[k] \in Frames
      BY <1>2
    <3>2. u[k].stage = "callback"
      BY <2>1, <3>1, FrameKinds
    <3> QED
      BY <1>6, <2>1, <3>2 DEF InWork
  <2> QED
    BY <2>1 DEF Frees
<1> HIDE DEF f, u, s
<1>10. Accounted(books) /\ FreeingHeld(books, stack) /\ HeldByCalls(books, stack) /\ InArrays(books)
       /\ books["with_chunk"]["cspace"] = books["reserve"]["utspace"] /\ books["array"]["mspace"] <= 1
  BY <1>2 DEF Sound, HeldByCalls, FreeingHeld
<1>11. books["freeing"][s] = 1
  BY <1>5, <1>8, <1>10 DEF FreeingHeld
<1>12. {"freeing", "avail", "reserve", "with_chunk", "hand", "new_array", "array", "queue"} \subseteq Places
       /\ {"cspace", "mspace", "utspace"} \subseteq Spaces
  BY DEF Places, Spaces
<1>13. Accounted(b2) /\ After(b2, books, s, "freeing", "avail")
  <2>1. "freeing" \in Places /\ "avail" \in Places /\ books["freeing"][s] > 0
    BY <1>11, <1>12
  <2> QED
    BY <1>5, <1>10, <2>1, MovedIs
<1> HIDE DEF b2
<1>14. \A p \in {"reserve", "with_chunk", "hand", "new_array", "array", "queue"}, t \in Spaces : b2[p][t] = books[p][t]
  BY <1>12, <1>13 DEF After
<1>15. FreeingHeld(b2, u)
  <2>1. b2["freeing"][s] = 0
    BY <1>11, <1>13 DEF After
  <2>2. \A t \in Spaces : t # s => b2["freeing"][t] = books["freeing"][t]
    BY <1>12, <1>13 DEF After
  <2> QED
    BY <1>8, <1>9, <1>10, <2>1, <2>2 DEF FreeingHeld
<1>16. books \in [Places -> [Spaces -> Nat]] /\ b2 \in [Places -> [Spaces -> Nat]]
  BY <1>10, <1>13 DEF Accounted
<1>17. Room(books, stack, s, "user") /\ Given(b2, books, s, "user")
  <2>1. \A t \in Spaces : books["reserve"][t] \in Nat
    BY <1>12, <1>16
  <2> QED
    BY <1>12, <1>14, <2>1 DEF Room, Given
<1>18. HeldByCalls(b2, u)
  BY <1>5, <1>7, <1>10, <1>15, <1>16, <1>17, HeldAfter
<1>19. Sound(b2, u, refilling)
  <2>1. InArrays(b2)
    BY <1>10, <1>14 DEF InArrays
  <2>2. b2["with_chunk"]["cspace"] = b2["reserve"]["utspace"] /\ b2["array"]["mspace"] <= 1
    BY <1>10, <1>12, <1>14
  <2> QED
    BY <1>2, <1>6, <1>13, <1>18, <2>1, <2>2 DEF Sound
<1>20. Sound(b2, stack', refilling') /\ refilling' \in BOOLEAN /\ in_operation' \in BOOLEAN
  BY <1>2, <1>3, <1>5, <1>19, Ended
<1> QED
  BY <1>3, <1>20 DEF AllocmanInv

-----------------------------------------------------------------------------
(* resize_array() *)

(* It is the only call in progress when it is the innermost one. *)
LEMMA ResizeAlone ==
  ASSUME NEW r \in BOOLEAN, NEW b, NEW st, Sound(b, st, r), st # <<>>, Last(st).op = "resize"
  PROVE  /\ Under(st) = <<>> /\ Last(st) \in OwnFrames /\ r = FALSE /\ NotReentered(<<>>, FALSE)
         /\ \A s, dest : ~Gets(st, s, dest)
         /\ \A s : ~Frees(st, s)
         /\ \A stage : ~At(st, "refill", stage)
         /\ b["hand"]["cspace"] = 0
         /\ b["new_array"]["mspace"] \in {0, 1}
         /\ b["new_array"]["mspace"] = 1 => Last(st).stage = "switch"
<1> DEFINE f == Last(st)
<1>1. st \in Seq(Frames) /\ NotReentered(st, r) /\ HeldByCalls(b, st)
  BY DEF Sound
<1>2. f \in Frames
  BY <1>1, Popped
<1>3. f \in OwnFrames
  BY <1>2, FrameKinds
<1>4. Under(st) = <<>> /\ NotReentered(Under(st), r /\ f.op # "refill")
  BY <1>1, CallPopped
<1>5. (r /\ f.op # "refill") = r
  OBVIOUS
<1>6. NotReentered(<<>>, r)
  BY <1>4, <1>5
<1>7. r = FALSE
  <2>1. r <=> \E k \in DOMAIN <<>> : <<>>[k].op = "refill"
    BY <1>6 DEF NotReentered
  <2>2. DOMAIN <<>> = {}
    OBVIOUS
  <2> QED
    BY <2>1, <2>2
<1>8. /\ \A op, stage : At(st, op, stage) <=> (At(Under(st), op, stage) \/ (f.op = op /\ f.stage = stage))
      /\ \A s, dest : Gets(st, s, dest) <=>
           \/ Gets(Under(st), s, dest)
           \/ f.space = s /\ f.stage = "callback" /\ f.op = "alloc" /\ f.dest = dest
      /\ \A s : Frees(st, s) <=> (Frees(Under(st), s) \/ (f.space = s /\ f.op = "free"))
  BY <1>1, SeenPopped
<1>9. DOMAIN Under(st) = {}
  BY <1>4
<1>10. (\A op, stage : ~At(Under(st), op, stage)) /\ (\A s, dest : ~Gets(Under(st), s, dest)) /\ (\A s : ~Frees(Under(st), s))
  BY <1>9 DEF At, Gets, Frees
<1>11. f.op = "resize"
  OBVIOUS
<1> HIDE DEF f
<1>12. (\A s, dest : ~Gets(st, s, dest)) /\ (\A s : ~Frees(st, s)) /\ (\A stage : ~At(st, "refill", stage))
  BY <1>8, <1>10, <1>11
<1>13. At(st, "resize", "switch") => f.stage = "switch"
  BY <1>8, <1>10
<1>14. ~At(st, "refill", "utspace") /\ ~At(st, "refill", "slot back")
  BY <1>12
<1>15. b["hand"]["cspace"] = 0 /\ b["new_array"]["mspace"] \in {0, 1} /\ (b["new_array"]["mspace"] = 1 => f.stage = "switch")
  BY <1>1, <1>13, <1>14 DEF HeldByCalls
<1> QED
  BY <1>3, <1>4, <1>6, <1>7, <1>12, <1>15 DEF f

(* ...whatever stage it goes on to. *)
LEMMA ResizeMoves ==
  ASSUME NEW g \in OwnFrames, g.op = "resize", NotReentered(<<>>, FALSE)
  PROVE  /\ Append(<<>>, g) \in Seq(Frames) /\ NotReentered(Append(<<>>, g), FALSE)
         /\ \A s, dest : ~Gets(Append(<<>>, g), s, dest)
         /\ \A s : ~Frees(Append(<<>>, g), s)
         /\ \A stage : ~At(Append(<<>>, g), "refill", stage)
         /\ At(Append(<<>>, g), "resize", "switch") <=> g.stage = "switch"
         /\ \A s : ~InWork(Append(<<>>, g), s)
<1>1. NotReentered(<<g>>, FALSE) /\ Append(<<>>, g) = <<g>>
  BY OwnPushed
<1> DEFINE st == <<g>>
<1>2. DOMAIN st = {1} /\ st[1] = g /\ g \in Frames /\ st \in Seq(Frames)
  BY DEF Frames
<1>3. g.stage # "callback"
  BY DEF OwnFrames
<1> HIDE DEF st
<1>4. (\A s, dest : ~Gets(st, s, dest)) /\ (\A s : ~Frees(st, s)) /\ (\A stage : ~At(st, "refill", stage))
  BY <1>2, <1>3 DEF Gets, Frees, At
<1>5. At(st, "resize", "switch") <=> g.stage = "switch"
  BY <1>2 DEF At
<1>6. \A s : ~InWork(st, s)
  BY <1>2, <1>3 DEF InWork
<1> QED
  BY <1>1, <1>2, <1>4, <1>5, <1>6 DEF st

(* For the steps without arithmetic. *)
LEMMA ZeroNotOne == 0 # 1
OBVIOUS

GivesNothing(st) == \A s, dest : ~Gets(st, s, dest)

(* Books that go with calls that hold nothing but the new array. *)
LEMMA HeldByNone ==
  ASSUME NEW b \in [Places -> [Spaces -> Nat]], NEW st,
         GivesNothing(st), ~At(st, "refill", "utspace"), ~At(st, "refill", "slot back"),
         b["hand"]["cspace"] = 0, b["new_array"]["mspace"] \in {0, 1},
         b["new_array"]["mspace"] = 1 => At(st, "resize", "switch"), FreeingHeld(b, st)
  PROVE  HeldByCalls(b, st)
<1>1. \A s \in Spaces : ~Gets(st, s, "reserve")
  BY DEF GivesNothing
<1>2. ~Gets(st, "utspace", "reserve") /\ ~Gets(st, "cspace", "hand") /\ ~Gets(st, "mspace", "new_array")
  BY DEF GivesNothing
<1>3. \A s \in Spaces : b["freeing"][s] = IF Frees(st, s) THEN 1 ELSE 0
  BY DEF FreeingHeld
<1>4. \A s \in Spaces : Gets(st, s, "reserve") => b["reserve"][s] < Desired[s]
  BY <1>1
<1> DEFINE h == b["hand"]["cspace"]
<1>5. h = 0
  OBVIOUS
<1> HIDE DEF h
<1>6. h \in {0, 1}
  BY <1>5
<1>7. h # 1
  BY <1>5, ZeroNotOne, Zenon
<1> QED
  BY <1>2, <1>3, <1>4, <1>6, <1>7 DEF HeldByCalls, h

(* resize_array() asking for the new array keeps the invariant. *)
LEMMA ResizeAllocatesKeeps ==
  ASSUME AllocmanInv, ResizeAllocates
  PROVE  AllocmanInv'
<1> DEFINE f == Last(stack)
           g == [f EXCEPT !.stage = "switch"]
           st2 == Append(<<>>, g)
<1>1. stack # <<>>
  BY DEF ResizeAllocates, Resizes, Idle
<1>2. Top = f /\ Below = Under(stack) /\ stack \in Seq(Frames) /\ refilling \in BOOLEAN
      /\ Sound(books, stack, refilling) /\ books \in [Places -> [Spaces -> Nat]]
  BY <1>1, TopIs DEF AllocmanInv
<1>3. f.op = "resize" /\ f.stage = "allocate"
  BY <1>2 DEF ResizeAllocates, Resizes
<1>4. /\ Under(stack) = <<>> /\ f \in OwnFrames /\ refilling = FALSE /\ NotReentered(<<>>, FALSE)
      /\ (\A s : ~Frees(stack, s)) /\ books["hand"]["cspace"] = 0
      /\ books["new_array"]["mspace"] \in {0, 1} /\ (books["new_array"]["mspace"] = 1 => f.stage = "switch")
  BY <1>1, <1>2, <1>3, ResizeAlone
<1>5. CallAlloc("mspace", "new_array", TRUE, st2)
  BY <1>2, <1>4 DEF ResizeAllocates
<1> HIDE DEF f
<1>6. g \in OwnFrames /\ g.op = "resize" /\ g.stage = "switch"
  BY <1>3, <1>4 DEF OwnFrames
<1> HIDE DEF g
<1>7. /\ st2 \in Seq(Frames) /\ NotReentered(st2, FALSE)
      /\ \A s, dest : ~Gets(st2, s, dest)
      /\ \A s : ~Frees(st2, s)
      /\ \A stage : ~At(st2, "refill", stage)
      /\ At(st2, "resize", "switch") <=> g.stage = "switch"
      /\ \A s : ~InWork(st2, s)
  BY <1>4, <1>6, ResizeMoves
<1> HIDE DEF st2
<1>8. books["new_array"]["mspace"] = 0
  BY <1>3, <1>4
<1>9. FreeingHeld(books, st2)
  <2>1. FreeingHeld(books, stack)
    BY <1>2 DEF Sound, HeldByCalls, FreeingHeld
  <2> QED
    BY <1>4, <1>7, <2>1 DEF FreeingHeld
<1>10. HeldByCalls(books, st2)
  <2>1. books \in [Places -> [Spaces -> Nat]] /\ books["hand"]["cspace"] = 0 /\ books["new_array"]["mspace"] \in {0, 1}
        /\ (books["new_array"]["mspace"] = 1 => At(st2, "resize", "switch"))
    BY <1>2, <1>4, <1>8
  <2>2. GivesNothing(st2) /\ ~At(st2, "refill", "utspace") /\ ~At(st2, "refill", "slot back")
    BY <1>7 DEF GivesNothing
  <2> QED
    BY <1>9, <2>1, <2>2, HeldByNone
<1>11. Sound(books, st2, refilling)
  BY <1>2, <1>4, <1>7, <1>10 DEF Sound
<1>12. Room(books, st2, "mspace", "new_array")
  BY <1>6, <1>7, <1>8 DEF Room
<1>13. refilling \in BOOLEAN /\ in_operation \in BOOLEAN /\ used_watermark \in BOOLEAN /\ "mspace" \in Spaces /\ TRUE \in BOOLEAN
       /\ ("new_array" = "reserve" => ~TRUE) /\ ("new_array" \in {"reserve", "hand"} => st2 # <<>> /\ Last(st2).op = "refill")
       /\ \A t \in Spaces : CanEnter(t) => ~InWork(st2, t)
  BY <1>7 DEF AllocmanInv, Spaces
<1>14. Sound(books', stack', refilling) /\ in_operation' \in BOOLEAN /\ used_watermark' \in BOOLEAN
  BY <1>5, <1>11, <1>12, <1>13, AllocCalled
<1> QED
  BY <1>2, <1>14 DEF AllocmanInv, ResizeAllocates

(* resize_array() returning early keeps the invariant. *)
LEMMA ResizeFailsKeeps ==
  ASSUME AllocmanInv, ResizeFails
  PROVE  AllocmanInv'
<1> DEFINE f == Last(stack)
           b2 == Moved(books, "mspace", "new_array", "leaked")
<1>1. stack # <<>>
  BY DEF ResizeFails, Resizes, Idle
<1>2. Top = f /\ Below = Under(stack) /\ stack \in Seq(Frames) /\ refilling \in BOOLEAN
      /\ Sound(books, stack, refilling) /\ books \in [Places -> [Spaces -> Nat]]
  BY <1>1, TopIs DEF AllocmanInv
<1>3. f.op = "resize"
  BY <1>2 DEF ResizeFails, Resizes
<1>4. /\ Under(stack) = <<>> /\ refilling = FALSE /\ NotReentered(<<>>, FALSE)
      /\ (\A s : ~Frees(stack, s)) /\ books["hand"]["cspace"] = 0
      /\ books["new_array"]["mspace"] \in {0, 1}
  BY <1>1, <1>2, <1>3, ResizeAlone
<1>5. /\ stack' = <<>> /\ in_operation' = in_operation /\ used_watermark' = used_watermark /\ refilling' = refilling
      /\ books' = IF books["new_array"]["mspace"] > 0 THEN b2 ELSE books
  BY <1>2, <1>4 DEF ResizeFails
<1>6. {"freeing", "leaked", "reserve", "with_chunk", "hand", "new_array", "array", "queue"} \subseteq Places
       /\ {"cspace", "mspace", "utspace"} \subseteq Spaces
  BY DEF Places, Spaces
<1>7. Accounted(books) /\ FreeingHeld(books, stack) /\ InArrays(books)
      /\ books["with_chunk"]["cspace"] = books["reserve"]["utspace"] /\ books["array"]["mspace"] <= 1
  BY <1>2 DEF Sound, HeldByCalls, FreeingHeld
<1> HIDE DEF b2, f
<1>8. /\ Accounted(books') /\ books'["new_array"]["mspace"] = 0
      /\ \A p \in {"reserve", "with_chunk", "hand", "array", "queue", "freeing"}, t \in Spaces : books'[p][t] = books[p][t]
  <2>1. CASE books["new_array"]["mspace"] > 0
    <3>1. "new_array" \in Places /\ "leaked" \in Places /\ "mspace" \in Spaces
      BY <1>6
    <3>2. Accounted(b2) /\ After(b2, books, "mspace", "new_array", "leaked")
      BY <1>7, <2>1, <3>1, MovedIs DEF b2
    <3>3. books["new_array"]["mspace"] = 1
      BY <1>4, <2>1
    <3> QED
      BY <1>5, <1>6, <2>1, <3>2, <3>3 DEF After
  <2>2. CASE ~(books["new_array"]["mspace"] > 0)
    BY <1>4, <1>5, <1>7, <2>2
  <2> QED
    BY <2>1, <2>2
<1>9. DOMAIN stack' = {} /\ stack' \in Seq(Frames)
  BY <1>5
<1>10. (\A op, stage : ~At(stack', op, stage)) /\ (\A s, dest : ~Gets(stack', s, dest)) /\ (\A s : ~Frees(stack', s))
  BY <1>9 DEF At, Gets, Frees
<1>11. FreeingHeld(books', stack')
  BY <1>4, <1>7, <1>8, <1>10 DEF FreeingHeld
<1>12. HeldByCalls(books', stack')
  <2>1. books' \in [Places -> [Spaces -> Nat]]
    BY <1>8 DEF Accounted
  <2>2. books'["hand"]["cspace"] = 0 /\ books'["new_array"]["mspace"] \in {0, 1}
        /\ (books'["new_array"]["mspace"] = 1 => At(stack', "resize", "switch"))
    BY <1>4, <1>6, <1>8
  <2>3. ~At(stack', "refill", "utspace") /\ ~At(stack', "refill", "slot back") /\ GivesNothing(stack')
    BY <1>10 DEF GivesNothing
  <2> QED
    BY <1>11, <2>1, <2>2, <2>3, HeldByNone
<1>13. Sound(books', stack', refilling')
  <2>1. InArrays(books')
    BY <1>7, <1>8 DEF InArrays
  <2>2. books'["with_chunk"]["cspace"] = books'["reserve"]["utspace"] /\ books'["array"]["mspace"] <= 1
    BY <1>6, <1>7, <1>8
  <2>3. NotReentered(stack', refilling')
    BY <1>4, <1>5
  <2> QED
    BY <1>8, <1>9, <1>12, <2>1, <2>2, <2>3 DEF Sound
<1> QED
  BY <1>5, <1>13 DEF AllocmanInv

(* resize_array() changing the arrays keeps the invariant. *)
LEMMA ResizeSwitchesSound ==
  ASSUME AllocmanInv, ResizeSwitches
  PROVE  AllocmanInv'
<1> DEFINE f == Last(stack)
           g == [f EXCEPT !.stage = "ending"]
           st2 == Append(<<>>, g)
           bs == Moved(books, "mspace", "new_array", "array")
<1>1. stack # <<>>
  BY DEF ResizeSwitches, Resizes, Idle
<1>2. Top = f /\ Below = Under(stack) /\ stack \in Seq(Frames) /\ refilling \in BOOLEAN
      /\ Sound(books, stack, refilling) /\ books \in [Places -> [Spaces -> Nat]]
  BY <1>1, TopIs DEF AllocmanInv
<1>3. f.op = "resize" /\ books["new_array"]["mspace"] > 0
  BY <1>2 DEF ResizeSwitches, Resizes
<1>4. /\ Under(stack) = <<>> /\ f \in OwnFrames /\ refilling = FALSE /\ NotReentered(<<>>, FALSE)
      /\ (\A s : ~Frees(stack, s)) /\ books["hand"]["cspace"] = 0
      /\ books["new_array"]["mspace"] \in {0, 1}
  BY <1>1, <1>2, <1>3, ResizeAlone
<1>5. /\ IF books["array"]["mspace"] > 0
           THEN CallFree("mspace", "array", bs, st2)
           ELSE books' = bs /\ stack' = st2 /\ in_operation' = in_operation
      /\ used_watermark' = TRUE /\ refilling' = refilling
  BY <1>2, <1>4 DEF ResizeSwitches, Switched, Ending
<1> HIDE DEF f
<1>6. g \in OwnFrames /\ g.op = "resize" /\ g.stage = "ending"
  BY <1>3, <1>4 DEF OwnFrames
<1> HIDE DEF g
<1>7. /\ st2 \in Seq(Frames) /\ NotReentered(st2, FALSE)
      /\ \A s, dest : ~Gets(st2, s, dest)
      /\ \A s : ~Frees(st2, s)
      /\ \A stage : ~At(st2, "refill", stage)
      /\ At(st2, "resize", "switch") <=> g.stage = "switch"
      /\ \A s : ~InWork(st2, s)
  BY <1>4, <1>6, ResizeMoves
<1>8. {"freeing", "leaked", "reserve", "with_chunk", "hand", "new_array", "array", "queue"} \subseteq Places
       /\ {"cspace", "mspace", "utspace"} \subseteq Spaces
  BY DEF Places, Spaces
<1>9. Accounted(books) /\ FreeingHeld(books, stack) /\ InArrays(books)
      /\ books["with_chunk"]["cspace"] = books["reserve"]["utspace"] /\ books["array"]["mspace"] <= 1
  BY <1>2 DEF Sound, HeldByCalls, FreeingHeld
<1>10. Accounted(bs) /\ After(bs, books, "mspace", "new_array", "array")
  <2>1. "new_array" \in Places /\ "array" \in Places /\ "mspace" \in Spaces
    BY <1>8
  <2> QED
    BY <1>3, <1>9, <2>1, MovedIs
<1> HIDE DEF st2, bs
<1>11. /\ bs["new_array"]["mspace"] = 0 /\ bs["array"]["mspace"] = books["array"]["mspace"] + 1
       /\ \A p \in {"reserve", "with_chunk", "hand", "queue", "freeing"}, t \in Spaces : bs[p][t] = books[p][t]
  <2>1. books["new_array"]["mspace"] = 1
    BY <1>3, <1>4
  <2> QED
    BY <1>8, <1>10, <2>1 DEF After
<1>12. FreeingHeld(bs, st2) /\ \A t \in Spaces : bs["queue"][t] <= QueueSize[t]
  BY <1>4, <1>7, <1>9, <1>11 DEF FreeingHeld, InArrays
<1>13. books["array"]["mspace"] \in Nat
  BY <1>2, <1>8
<1>14. /\ Accounted(books') /\ \A t \in Spaces : books'["queue"][t] <= QueueSize[t]
       /\ \A p \in {"reserve", "with_chunk", "hand", "new_array"}, t \in Spaces : books'[p][t] = bs[p][t]
       /\ books'["array"]["mspace"] <= 1
       /\ stack' \in Seq(Frames) /\ NotReentered(stack', FALSE)
       /\ FreeingHeld(books', stack')
       /\ SameButFrees(st2, stack')
       /\ in_operation' \in BOOLEAN
  <2>1. in_operation \in BOOLEAN
    BY DEF AllocmanInv
  <2>2. CASE books["array"]["mspace"] > 0
    <3>1. CallFree("mspace", "array", bs, st2) /\ "mspace" \in Spaces /\ bs["array"]["mspace"] > 0
          /\ "array" \in {"user", "inner", "with_chunk", "array", "queue", "hand"}
          /\ (CanEnter("mspace") => ~InWork(st2, "mspace"))
      BY <1>5, <1>7, <1>8, <1>11, <1>13, <2>2
    <3>2. NotReentered(st2, refilling) /\ st2 \in Seq(Frames)
      BY <1>4, <1>7
    <3>3. /\ Accounted(books') /\ \A t \in Spaces : books'["queue"][t] <= QueueSize[t]
          /\ \A p \in {"reserve", "with_chunk", "hand", "new_array", "array"}, t \in Spaces :
               books'[p][t] = IF p = "array" /\ t = "mspace" THEN bs[p][t] - 1 ELSE bs[p][t]
          /\ stack' \in Seq(Frames) /\ NotReentered(stack', refilling)
          /\ FreeingHeld(books', stack')
          /\ SameButFrees(st2, stack')
          /\ in_operation' \in BOOLEAN
      BY <1>2, <1>10, <1>12, <2>1, <3>1, <3>2, FreeCalled
    <3>4. books'["array"]["mspace"] = bs["array"]["mspace"] - 1
      BY <1>8, <3>3
    <3>5. books'["array"]["mspace"] <= 1
      BY <1>9, <1>11, <1>13, <3>4
    <3> QED
      BY <1>4, <3>3, <3>5
  <2>3. CASE ~(books["array"]["mspace"] > 0)
    <3>1. books' = bs /\ stack' = st2 /\ in_operation' = in_operation
      BY <1>5, <2>3
    <3>2. bs["array"]["mspace"] <= 1
      BY <1>11, <1>13, <2>3
    <3> QED
      BY <1>7, <1>10, <1>12, <2>1, <3>1, <3>2 DEF SameButFrees
  <2> QED
    BY <2>2, <2>3
<1>15. HeldByCalls(books', stack')
  <2>1. books' \in [Places -> [Spaces -> Nat]]
    BY <1>14 DEF Accounted
  <2>2. books'["hand"]["cspace"] = 0 /\ books'["new_array"]["mspace"] = 0
    BY <1>4, <1>8, <1>11, <1>14
  <2>3. GivesNothing(stack')
    BY <1>7, <1>14 DEF SameButFrees, GivesNothing
  <2>4. ~At(stack', "refill", "utspace") /\ ~At(stack', "refill", "slot back")
    BY <1>7, <1>14 DEF SameButFrees
  <2>5. FreeingHeld(books', stack')
    BY <1>14
  <2>6. books'["new_array"]["mspace"] \in {0, 1} /\ (books'["new_array"]["mspace"] = 1 => At(stack', "resize", "switch"))
    BY <2>2
  <2>7. books'["hand"]["cspace"] = 0
    BY <2>2
  <2> QED
    BY <2>1, <2>3, <2>4, <2>5, <2>6, <2>7, HeldByNone
<1>16. Sound(books', stack', FALSE)
  <2>1. InArrays(books')
    BY <1>9, <1>11, <1>14 DEF InArrays
  <2>2. books'["with_chunk"]["cspace"] = books'["reserve"]["utspace"]
    BY <1>8, <1>9, <1>11, <1>14
  <2> QED
    BY <1>14, <1>15, <2>1, <2>2 DEF Sound
<1>17. Sound(books', stack', refilling') /\ in_operation' \in BOOLEAN /\ used_watermark' \in BOOLEAN /\ refilling' \in BOOLEAN
  BY <1>4, <1>5, <1>14, <1>16
<1> QED
  BY <1>17 DEF AllocmanInv

-----------------------------------------------------------------------------
(* _refill_watermark() *)

(* The refill is the innermost call, and goes on to a later stage. *)
LEMMA RefillAtIs ==
  ASSUME AllocmanInv, stack # <<>>, Top.op = "refill",
         NEW stage \in {"free cspace", "free mspace", "free utspace", "cspace", "slot", "utspace", "slot back", "mspace", "round"},
         NEW found \in BOOLEAN, NEW did \in BOOLEAN
  PROVE  \E g \in RefillFrames :
           /\ g.stage = stage
           /\ RefillAt(stage, found, did) = Append(Under(stack), g)
<1> DEFINE f == Last(stack)
           g == [f EXCEPT !.stage = stage, !.found = f.found \/ found, !.did = f.did \/ did]
<1>1. Top = f /\ Below = Under(stack) /\ f \in Frames
  BY TopIs
<1>2. f \in RefillFrames
  BY <1>1, FrameKinds
<1>3. RefillAt(stage, found, did) = Append(Under(stack), g)
  BY <1>1 DEF RefillAt
<1> HIDE DEF f
<1>4. g \in RefillFrames /\ g.stage = stage
  BY <1>2 DEF RefillFrames
<1> QED
  BY <1>3, <1>4

(* What holds while the refill is the innermost call. *)
LEMMA RefillStays ==
  ASSUME AllocmanInv, stack # <<>>, Top.op = "refill", NEW g \in RefillFrames
  PROVE  /\ Sound(books, stack, refilling) /\ refilling \in BOOLEAN /\ Last(stack).op = "refill" /\ Top = Last(stack)
         /\ \A t \in Spaces : CanEnter(t) => ~InWork(Append(Under(stack), g), t)
         /\ Append(Under(stack), g) # <<>> /\ Last(Append(Under(stack), g)).op = "refill"
         /\ books["hand"]["cspace"] \in {0, 1}
         /\ books["hand"]["cspace"] = 1 => Top.stage \in {"utspace", "slot back"}
         /\ Top.stage = "utspace" => books["reserve"]["utspace"] < Desired["utspace"]
         /\ \A s : ~Gets(Append(Under(stack), g), s, "reserve") /\ ~Gets(Append(Under(stack), g), s, "hand")
         /\ At(Append(Under(stack), g), "refill", g.stage)
         /\ NotReentered(Append(Under(stack), g), refilling) /\ Append(Under(stack), g) \in Seq(Frames)
<1> DEFINE u == Under(stack)
           st2 == Append(u, g)
<1>1. Top = Last(stack) /\ stack \in Seq(Frames) /\ NotReentered(stack, refilling) /\ u \in Seq(Frames) /\ refilling \in BOOLEAN
      /\ Sound(books, stack, refilling)
  BY TopIs DEF AllocmanInv
<1>2. g \in Frames /\ g.op = "refill" /\ g.stage # "callback"
  BY DEF Frames, RefillFrames
<1>3. \A t \in Spaces : CanEnter(t) => ~InWork(st2, t)
  BY <1>1, <1>2, EnterTop
<1>4. st2 # <<>> /\ Last(st2).op = "refill"
  <2>1. Len(st2) = Len(u) + 1 /\ st2[Len(u) + 1] = g /\ Len(u) \in Nat
    BY <1>1, <1>2, Pushed
  <2>2. Last(st2) = g
    BY <2>1 DEF Last
  <2>3. st2 \in Seq(Frames) /\ Len(st2) # 0
    BY <1>1, <1>2, <2>1, Pushed
  <2>4. st2 # <<>>
    BY <2>3, EmptySeq
  <2> HIDE DEF st2
  <2> QED
    BY <1>2, <2>2, <2>4
<1>5. Last(stack).op = "refill"
  BY <1>1
<1>6. /\ books["hand"]["cspace"] \in {0, 1}
      /\ books["hand"]["cspace"] = 1 => Top.stage \in {"utspace", "slot back"}
      /\ Top.stage = "utspace" => books["reserve"]["utspace"] < Desired["utspace"]
  BY <1>1, <1>5, HandEmpty
<1>7. \A s : ~Gets(st2, s, "reserve") /\ ~Gets(st2, s, "hand")
  <2>1. \A k \in DOMAIN stack : ~(stack[k].op = "alloc" /\ stack[k].dest \in {"reserve", "hand"})
    BY <1>1, <1>5, CallPopped
  <2>2. \A s : ~Gets(stack, s, "reserve") /\ ~Gets(stack, s, "hand")
    BY <2>1 DEF Gets
  <2>3. \A s, dest : Gets(u, s, dest) => Gets(stack, s, dest)
    BY <1>1, SeenPopped
  <2>4. \A s, dest : Gets(st2, s, dest) => Gets(u, s, dest)
    BY <1>1, <1>2, SeenPushed
  <2> HIDE DEF u, st2
  <2> QED
    BY <2>2, <2>3, <2>4
<1>8. At(st2, "refill", g.stage)
  BY <1>1, <1>2, SeenPushed
<1>9. NotReentered(st2, refilling) /\ st2 \in Seq(Frames)
  <2>1. g.op = Last(stack).op /\ (g.stage = "callback" => Last(stack).stage = "callback" /\ g.space = Last(stack).space)
        /\ (g.op = "alloc" => g.dest = Last(stack).dest)
    BY <1>2, <1>5
  <2> QED
    BY <1>1, <1>2, <2>1, TopChanged
<1> QED
  BY <1>1, <1>3, <1>4, <1>5, <1>6, <1>7, <1>8, <1>9

(* Emptying a queue keeps the invariant. *)
LEMMA DrainKeeps ==
  ASSUME AllocmanInv, NEW s \in Spaces,
         NEW stage \in {"free cspace", "free mspace", "free utspace"},
         NEW next \in {"free mspace", "free utspace", "cspace"}, Drain(s, stage, next)
  PROVE  AllocmanInv'
<1>1. stack # <<>> /\ Top.op = "refill" /\ Top.stage = stage
  BY DEF Drain, Refilling, Idle
<1>2. used_watermark' = used_watermark /\ refilling' = refilling /\ in_operation \in BOOLEAN /\ used_watermark \in BOOLEAN
      /\ refilling \in BOOLEAN
  BY DEF AllocmanInv, Drain
<1>3. CASE books["queue"][s] > 0
  <2>1. stage \in {"free cspace", "free mspace", "free utspace", "cspace", "slot", "utspace", "slot back", "mspace", "round"}
        /\ FALSE \in BOOLEAN /\ TRUE \in BOOLEAN
    OBVIOUS
  <2>2. PICK g \in RefillFrames : g.stage = stage /\ RefillAt(stage, FALSE, TRUE) = Append(Under(stack), g)
    BY <1>1, <2>1, RefillAtIs
  <2> DEFINE st2 == Append(Under(stack), g)
  <2>3. CallFree(s, "queue", books, st2)
    BY <1>3, <2>2 DEF Drain
  <2>4. /\ Sound(books, stack, refilling) /\ Last(stack).op = "refill"
        /\ (CanEnter(s) => ~InWork(st2, s))
        /\ (books["hand"]["cspace"] = 1 => Top.stage \in {"utspace", "slot back"})
    BY <1>1, RefillStays
  <2>5. (g.stage = "utspace" => books["reserve"]["utspace"] < Desired["utspace"])
        /\ (books["hand"]["cspace"] = 1 => g.stage \in {"utspace", "slot back"})
    BY <1>1, <2>2, <2>4
  <2>6. Sound(books, st2, refilling)
    BY <1>1, <1>2, <2>4, <2>5, RefillMoves
  <2> HIDE DEF st2
  <2>7. Sound(books', stack', refilling) /\ in_operation' \in BOOLEAN
    <3>1. "queue" \in {"user", "inner", "queue"} /\ (CanEnter(s) => ~InWork(st2, s))
      BY <2>4
    <3> QED
      BY <1>2, <1>3, <2>3, <2>6, <3>1, FreedSound
  <2> QED
    BY <1>2, <2>7 DEF AllocmanInv
<1>4. CASE ~(books["queue"][s] > 0)
  <2>1. next \in {"free cspace", "free mspace", "free utspace", "cspace", "slot", "utspace", "slot back", "mspace", "round"}
        /\ FALSE \in BOOLEAN
    OBVIOUS
  <2>2. PICK g \in RefillFrames : g.stage = next /\ RefillAt(next, FALSE, FALSE) = Append(Under(stack), g)
    BY <1>1, <2>1, RefillAtIs
  <2>3. stack' = Append(Under(stack), g) /\ books' = books /\ in_operation' = in_operation
    BY <1>4, <2>2 DEF Drain
  <2>4. /\ Sound(books, stack, refilling) /\ Last(stack).op = "refill"
        /\ (books["hand"]["cspace"] = 1 => Top.stage \in {"utspace", "slot back"})
    BY <1>1, RefillStays
  <2>5. (g.stage = "utspace" => books["reserve"]["utspace"] < Desired["utspace"])
        /\ (books["hand"]["cspace"] = 1 => g.stage \in {"utspace", "slot back"})
    BY <1>1, <2>2, <2>4
  <2>6. Sound(books, Append(Under(stack), g), refilling)
    BY <1>1, <1>2, <2>4, <2>5, RefillMoves
  <2> QED
    BY <1>2, <2>3, <2>6 DEF AllocmanInv
<1> QED
  BY <1>3, <1>4

(* The refill allocates for a reserve, or for its hand, that awaits it. *)
LEMMA RefillAllocates ==
  ASSUME AllocmanInv, stack # <<>>, Top.op = "refill", NEW g \in RefillFrames,
         NEW s \in Spaces, NEW dest \in {"reserve", "hand"}, NEW reserve \in BOOLEAN, dest = "reserve" => ~reserve,
         Sound(books, Append(Under(stack), g), refilling), Room(books, Append(Under(stack), g), s, dest),
         CallAlloc(s, dest, reserve, Append(Under(stack), g)), refilling' = refilling
  PROVE  AllocmanInv'
<1> DEFINE st2 == Append(Under(stack), g)
<1>1. (\A t \in Spaces : CanEnter(t) => ~InWork(st2, t)) /\ st2 # <<>> /\ Last(st2).op = "refill"
  BY RefillStays
<1>2. Sound(books, st2, refilling) /\ Room(books, st2, s, dest) /\ CallAlloc(s, dest, reserve, st2)
  OBVIOUS
<1> HIDE DEF st2
<1>3. refilling \in BOOLEAN /\ in_operation \in BOOLEAN /\ used_watermark \in BOOLEAN
      /\ (dest \in {"reserve", "hand"} => st2 # <<>> /\ Last(st2).op = "refill")
  BY <1>1 DEF AllocmanInv
<1>4. Sound(books', stack', refilling) /\ in_operation' \in BOOLEAN /\ used_watermark' \in BOOLEAN
  BY <1>1, <1>2, <1>3, AllocCalled
<1> QED
  BY <1>3, <1>4 DEF AllocmanInv

(* The refill goes on with nothing in hand. *)
LEMMA RefillGoesOn ==
  ASSUME AllocmanInv, stack # <<>>, Top.op = "refill",
         NEW stage \in {"free cspace", "free mspace", "free utspace", "cspace", "slot", "slot back", "mspace", "round"},
         books["hand"]["cspace"] # 1,
         stack' = RefillAt(stage, FALSE, FALSE), UNCHANGED <<books, in_operation, used_watermark, refilling>>
  PROVE  AllocmanInv'
<1>1. PICK g \in RefillFrames : g.stage = stage /\ RefillAt(stage, FALSE, FALSE) = Append(Under(stack), g)
  <2>1. stage \in {"free cspace", "free mspace", "free utspace", "cspace", "slot", "utspace", "slot back", "mspace", "round"}
        /\ FALSE \in BOOLEAN
    OBVIOUS
  <2> QED
    BY <2>1, RefillAtIs
<1>2. Sound(books, stack, refilling) /\ Last(stack).op = "refill" /\ refilling \in BOOLEAN
  BY RefillStays
<1>3. (g.stage = "utspace" => books["reserve"]["utspace"] < Desired["utspace"])
      /\ (books["hand"]["cspace"] = 1 => g.stage \in {"utspace", "slot back"})
  BY <1>1
<1>4. Sound(books, Append(Under(stack), g), refilling)
  BY <1>2, <1>3, RefillMoves
<1> QED
  BY <1>1, <1>4 DEF AllocmanInv

(* Refilling the reserve of slots, or of memory, keeps the invariant. *)
LEMMA ReplenishKeeps ==
  ASSUME AllocmanInv, NEW s \in {"cspace", "mspace"}, NEW stage \in {"cspace", "mspace"},
         NEW next \in {"slot", "round"}, Replenish(s, stage, next)
  PROVE  AllocmanInv'
<1>1. stack # <<>> /\ Top.op = "refill" /\ Top.stage = stage /\ refilling' = refilling
  BY DEF Replenish, Refilling, Idle
<1>2. next \in {"free cspace", "free mspace", "free utspace", "cspace", "slot", "utspace", "slot back", "mspace", "round"}
      /\ next \in {"free cspace", "free mspace", "free utspace", "cspace", "slot", "slot back", "mspace", "round"}
      /\ FALSE \in BOOLEAN /\ TRUE \in BOOLEAN /\ s \in Spaces
  BY DEF Spaces
<1>3. PICK g \in RefillFrames : g.stage = next /\ RefillAt(next, TRUE, FALSE) = Append(Under(stack), g)
  BY <1>1, <1>2, RefillAtIs
<1> DEFINE st2 == Append(Under(stack), g)
<1>4. /\ Sound(books, stack, refilling) /\ Last(stack).op = "refill" /\ refilling \in BOOLEAN
      /\ (books["hand"]["cspace"] = 1 => Top.stage \in {"utspace", "slot back"})
      /\ \A t : ~Gets(st2, t, "reserve")
  BY <1>1, RefillStays
<1>5. books["hand"]["cspace"] # 1
  BY <1>1, <1>4
<1>6. CASE books["reserve"][s] < Desired[s]
  <2>1. CallAlloc(s, "reserve", FALSE, st2)
    BY <1>3, <1>6 DEF Replenish
  <2>2. (g.stage = "utspace" => books["reserve"]["utspace"] < Desired["utspace"])
        /\ (books["hand"]["cspace"] = 1 => g.stage \in {"utspace", "slot back"})
    BY <1>3, <1>5
  <2>3. Sound(books, st2, refilling)
    BY <1>1, <1>4, <2>2, RefillMoves
  <2>4. Room(books, st2, s, "reserve")
    BY <1>4, <1>6 DEF Room
  <2>5. "reserve" \in {"reserve", "hand"} /\ ("reserve" = "reserve" => ~FALSE)
    OBVIOUS
  <2> QED
    BY <1>1, <1>2, <2>1, <2>3, <2>4, <2>5, RefillAllocates
<1>7. CASE ~(books["reserve"][s] < Desired[s])
  <2>1. stack' = RefillAt(next, FALSE, FALSE) /\ UNCHANGED <<books, in_operation, used_watermark, refilling>>
    BY <1>7 DEF Replenish
  <2> QED
    BY <1>1, <1>2, <1>5, <2>1, RefillGoesOn
<1> QED
  BY <1>6, <1>7

(* Getting a slot for an untyped keeps the invariant. *)
LEMMA GrabSlotKeeps ==
  ASSUME AllocmanInv, GrabSlot
  PROVE  AllocmanInv'
<1>1. stack # <<>> /\ Top.op = "refill" /\ Top.stage = "slot" /\ refilling' = refilling
  BY DEF GrabSlot, Refilling, Idle
<1>2. PICK g \in RefillFrames : g.stage = "utspace" /\ RefillAt("utspace", TRUE, FALSE) = Append(Under(stack), g)
  <2>1. "utspace" \in {"free cspace", "free mspace", "free utspace", "cspace", "slot", "utspace", "slot back", "mspace", "round"}
        /\ FALSE \in BOOLEAN /\ TRUE \in BOOLEAN
    OBVIOUS
  <2> QED
    BY <1>1, <2>1, RefillAtIs
<1> DEFINE st2 == Append(Under(stack), g)
<1>3. /\ Sound(books, stack, refilling) /\ Last(stack).op = "refill" /\ refilling \in BOOLEAN
      /\ books["hand"]["cspace"] \in {0, 1}
      /\ (books["hand"]["cspace"] = 1 => Top.stage \in {"utspace", "slot back"})
      /\ (\A t : ~Gets(st2, t, "hand")) /\ At(st2, "refill", g.stage)
  BY <1>1, RefillStays
<1>4. books["hand"]["cspace"] = 0 /\ books["hand"]["cspace"] # 1
  BY <1>1, <1>3
<1>5. CASE books["reserve"]["utspace"] < Desired["utspace"]
  <2>1. CallAlloc("cspace", "hand", TRUE, st2)
    BY <1>2, <1>5 DEF GrabSlot
  <2>2. (g.stage = "utspace" => books["reserve"]["utspace"] < Desired["utspace"])
        /\ (books["hand"]["cspace"] = 1 => g.stage \in {"utspace", "slot back"})
    BY <1>2, <1>5
  <2>3. Sound(books, st2, refilling)
    BY <1>1, <1>3, <2>2, RefillMoves
  <2>4. Room(books, st2, "cspace", "hand")
    BY <1>2, <1>3, <1>4 DEF Room
  <2>5. "hand" \in {"reserve", "hand"} /\ ("hand" = "reserve" => ~TRUE) /\ TRUE \in BOOLEAN /\ "cspace" \in Spaces
    BY DEF Spaces
  <2> QED
    BY <1>1, <2>1, <2>3, <2>4, <2>5, RefillAllocates
<1>6. CASE ~(books["reserve"]["utspace"] < Desired["utspace"])
  <2>1. stack' = RefillAt("mspace", FALSE, FALSE) /\ UNCHANGED <<books, in_operation, used_watermark, refilling>>
        /\ "mspace" \in {"free cspace", "free mspace", "free utspace", "cspace", "slot", "slot back", "mspace", "round"}
    BY <1>6 DEF GrabSlot
  <2> QED
    BY <1>1, <1>4, <2>1, RefillGoesOn
<1> QED
  BY <1>5, <1>6

(* Refilling the reserve of untypeds keeps the invariant. *)
LEMMA ReplenishUtspaceKeeps ==
  ASSUME AllocmanInv, ReplenishUtspace
  PROVE  AllocmanInv'
<1>1. stack # <<>> /\ Top.op = "refill" /\ Top.stage = "utspace" /\ refilling' = refilling
  BY DEF ReplenishUtspace, Refilling, Idle
<1>2. PICK g \in RefillFrames : g.stage = "slot back" /\ RefillAt("slot back", FALSE, FALSE) = Append(Under(stack), g)
  <2>1. "slot back" \in {"free cspace", "free mspace", "free utspace", "cspace", "slot", "utspace", "slot back", "mspace", "round"}
        /\ FALSE \in BOOLEAN
    OBVIOUS
  <2> QED
    BY <1>1, <2>1, RefillAtIs
<1> DEFINE st2 == Append(Under(stack), g)
<1>3. /\ Sound(books, stack, refilling) /\ Last(stack).op = "refill" /\ refilling \in BOOLEAN
      /\ books["hand"]["cspace"] \in {0, 1}
      /\ (Top.stage = "utspace" => books["reserve"]["utspace"] < Desired["utspace"])
      /\ (\A t : ~Gets(st2, t, "reserve")) /\ At(st2, "refill", g.stage) /\ NotReentered(st2, refilling)
  BY <1>1, RefillStays
<1>4. books["reserve"]["utspace"] < Desired["utspace"]
  BY <1>1, <1>3
<1>5. CASE books["hand"]["cspace"] > 0
  <2>1. CallAlloc("utspace", "reserve", FALSE, st2)
    BY <1>2, <1>5 DEF ReplenishUtspace
  <2>2. (g.stage = "utspace" => books["reserve"]["utspace"] < Desired["utspace"])
        /\ (books["hand"]["cspace"] = 1 => g.stage \in {"utspace", "slot back"})
    BY <1>2
  <2>3. Sound(books, st2, refilling)
    BY <1>1, <1>3, <2>2, RefillMoves
  <2>4. books["hand"]["cspace"] = 1
    BY <1>3, <1>5
  <2>5. At(st2, "refill", "slot back") /\ ~At(st2, "refill", "utspace")
    <3>1. At(st2, "refill", "slot back") /\ NotReentered(st2, refilling)
      BY <1>2, <1>3
    <3> HIDE DEF st2
    <3>2. At(st2, "refill", "utspace") => "slot back" = "utspace"
      BY <3>1, OneRefill
    <3> QED
      BY <3>1, <3>2
  <2>6. Room(books, st2, "utspace", "reserve")
    BY <1>3, <1>4, <2>4, <2>5 DEF Room
  <2>7. "reserve" \in {"reserve", "hand"} /\ ("reserve" = "reserve" => ~FALSE) /\ FALSE \in BOOLEAN /\ "utspace" \in Spaces
    BY DEF Spaces
  <2> QED
    BY <1>1, <2>1, <2>3, <2>6, <2>7, RefillAllocates
<1>6. CASE ~(books["hand"]["cspace"] > 0)
  <2>1. stack' = RefillAt("mspace", FALSE, FALSE) /\ UNCHANGED <<books, in_operation, used_watermark, refilling>>
        /\ "mspace" \in {"free cspace", "free mspace", "free utspace", "cspace", "slot", "slot back", "mspace", "round"}
    BY <1>6 DEF ReplenishUtspace
  <2>2. books["hand"]["cspace"] # 1
    BY <1>3, <1>6
  <2> QED
    BY <1>1, <2>1, <2>2, RefillGoesOn
<1> QED
  BY <1>5, <1>6

(* Giving the slot back keeps the invariant. *)
LEMMA SlotBackKeeps ==
  ASSUME AllocmanInv, SlotBack
  PROVE  AllocmanInv'
<1>1. stack # <<>> /\ Top.op = "refill" /\ Top.stage = "slot back" /\ refilling' = refilling /\ used_watermark' = used_watermark
  BY DEF SlotBack, Refilling, Idle
<1>2. PICK g \in RefillFrames : g.stage = "mspace" /\ RefillAt("mspace", FALSE, FALSE) = Append(Under(stack), g)
  <2>1. "mspace" \in {"free cspace", "free mspace", "free utspace", "cspace", "slot", "utspace", "slot back", "mspace", "round"}
        /\ FALSE \in BOOLEAN
    OBVIOUS
  <2> QED
    BY <1>1, <2>1, RefillAtIs
<1> DEFINE st2 == Append(Under(stack), g)
<1>3. /\ Sound(books, stack, refilling) /\ Last(stack).op = "refill" /\ refilling \in BOOLEAN
      /\ books["hand"]["cspace"] \in {0, 1}
      /\ (\A t \in Spaces : CanEnter(t) => ~InWork(st2, t))
      /\ (\A t : ~Gets(st2, t, "reserve") /\ ~Gets(st2, t, "hand"))
      /\ NotReentered(st2, refilling) /\ st2 \in Seq(Frames)
  BY <1>1, RefillStays
<1>4. CASE books["hand"]["cspace"] > 0
  <2>1. CallFree("cspace", "hand", books, st2)
    BY <1>2, <1>4 DEF SlotBack
  <2>2. books["hand"]["cspace"] = 1
    BY <1>3, <1>4
  <2>3. Accounted(books) /\ InArrays(books) /\ FreeingHeld(books, stack) /\ HeldByCalls(books, stack)
        /\ books["with_chunk"]["cspace"] = books["reserve"]["utspace"] /\ books["array"]["mspace"] <= 1
        /\ stack \in Seq(Frames)
    BY <1>3 DEF Sound, HeldByCalls, FreeingHeld
  <2> DEFINE u == Under(stack)
             f == Last(stack)
  <2>4. /\ \A op, stage : At(stack, op, stage) <=> (At(u, op, stage) \/ (f.op = op /\ f.stage = stage))
        /\ \A s, dest : Gets(stack, s, dest) <=>
             \/ Gets(u, s, dest)
             \/ f.space = s /\ f.stage = "callback" /\ f.op = "alloc" /\ f.dest = dest
        /\ \A s : Frees(stack, s) <=> (Frees(u, s) \/ (f.space = s /\ f.op = "free"))
    BY <1>1, <2>3, SeenPopped
  <2>5. u \in Seq(Frames) /\ g \in Frames /\ g.op = "refill"
    BY <1>1, <2>3, Popped DEF Frames, RefillFrames
  <2>6. /\ \A op, stage : At(st2, op, stage) <=> (At(u, op, stage) \/ (g.op = op /\ g.stage = stage))
        /\ \A s, dest : Gets(st2, s, dest) <=>
             (Gets(u, s, dest) \/ (g.space = s /\ g.stage = "callback" /\ g.op = "alloc" /\ g.dest = dest))
        /\ \A s : Frees(st2, s) <=> (Frees(u, s) \/ (g.space = s /\ g.op = "free"))
    BY <2>5, SeenPushed
  <2>7. f.op = "refill"
    BY <1>3
  <2> HIDE DEF st2, u, f
  <2>8. (\A s : Frees(st2, s) <=> Frees(stack, s)) /\ (\A s, dest : Gets(st2, s, dest) <=> Gets(stack, s, dest))
    BY <2>4, <2>5, <2>6, <2>7
  <2>9. At(st2, "resize", "switch") <=> At(stack, "resize", "switch")
    <3>1. At(st2, "resize", "switch") <=> (At(u, "resize", "switch") \/ (g.op = "resize" /\ g.stage = "switch"))
      BY <2>6
    <3>2. At(stack, "resize", "switch") <=> (At(u, "resize", "switch") \/ (f.op = "resize" /\ f.stage = "switch"))
      BY <2>4
    <3> QED
      BY <2>5, <2>7, <3>1, <3>2
  <2>10. ~At(st2, "refill", "utspace")
    <3>1. At(st2, "refill", "mspace")
      <4>1. At(st2, "refill", "mspace") <=> (At(u, "refill", "mspace") \/ (g.op = "refill" /\ g.stage = "mspace"))
        BY <2>6
      <4> QED
        BY <1>2, <2>5, <4>1
    <3>2. At(st2, "refill", "utspace") => "mspace" = "utspace"
      BY <1>3, <3>1, OneRefill
    <3> QED
      BY <3>2
  <2>11. FreeingHeld(books, st2) /\ \A t \in Spaces : books["queue"][t] <= QueueSize[t]
    BY <2>3, <2>8 DEF FreeingHeld, InArrays
  <2>12. /\ Accounted(books') /\ \A t \in Spaces : books'["queue"][t] <= QueueSize[t]
         /\ \A p \in {"reserve", "with_chunk", "hand", "new_array", "array"}, t \in Spaces :
              books'[p][t] = IF p = "hand" /\ t = "cspace" THEN books[p][t] - 1 ELSE books[p][t]
         /\ stack' \in Seq(Frames) /\ NotReentered(stack', refilling)
         /\ FreeingHeld(books', stack')
         /\ SameButFrees(st2, stack')
         /\ in_operation' \in BOOLEAN
    <3>1. "cspace" \in Spaces /\ "hand" \in {"user", "inner", "with_chunk", "array", "queue", "hand"} /\ in_operation \in BOOLEAN
          /\ (CanEnter("cspace") => ~InWork(st2, "cspace"))
      BY <1>3 DEF AllocmanInv, Spaces
    <3> QED
      BY <1>3, <1>4, <2>1, <2>3, <2>11, <3>1, FreeCalled
  <2>13. /\ books'["hand"]["cspace"] = 0 /\ books'["new_array"]["mspace"] = books["new_array"]["mspace"]
         /\ books'["with_chunk"]["cspace"] = books["with_chunk"]["cspace"] /\ books'["array"]["mspace"] = books["array"]["mspace"]
         /\ \A t \in Spaces : books'["reserve"][t] = books["reserve"][t]
    BY <2>2, <2>12 DEF Spaces
  <2>14. HeldByCalls(books', stack')
    <3>1. \A s : ~Gets(stack', s, "reserve") /\ ~Gets(stack', s, "hand")
      BY <1>3, <2>12 DEF SameButFrees
    <3>2. ~At(stack', "refill", "utspace")
      BY <2>10, <2>12 DEF SameButFrees
    <3>3. Gets(stack', "mspace", "new_array") => Gets(stack, "mspace", "new_array")
      BY <2>8, <2>12 DEF SameButFrees
    <3>4. At(stack', "resize", "switch") <=> At(stack, "resize", "switch")
      BY <2>9, <2>12 DEF SameButFrees
    <3>5. \A s \in Spaces : books'["freeing"][s] = IF Frees(stack', s) THEN 1 ELSE 0
      BY <2>12 DEF FreeingHeld
    <3>6. Gets(stack', "mspace", "new_array") => books'["new_array"]["mspace"] = 0 /\ At(stack', "resize", "switch")
      BY <2>3, <2>13, <3>3, <3>4 DEF HeldByCalls
    <3>7. books'["new_array"]["mspace"] \in {0, 1} /\ (books'["new_array"]["mspace"] = 1 => At(stack', "resize", "switch"))
      BY <2>3, <2>13, <3>4 DEF HeldByCalls
    <3>8. books'["hand"]["cspace"] \in {0, 1} /\ books'["hand"]["cspace"] # 1
      BY <2>13
    <3>9. \A s \in Spaces : Gets(stack', s, "reserve") => books'["reserve"][s] < Desired[s]
      BY <3>1
    <3> QED
      BY <3>1, <3>2, <3>5, <3>6, <3>7, <3>8, <3>9 DEF HeldByCalls
  <2>15. Sound(books', stack', refilling)
    <3>1. InArrays(books')
      BY <2>3, <2>12, <2>13 DEF InArrays
    <3>2. books'["with_chunk"]["cspace"] = books'["reserve"]["utspace"] /\ books'["array"]["mspace"] <= 1
      BY <2>3, <2>13 DEF Spaces
    <3> QED
      BY <2>12, <2>14, <3>1, <3>2 DEF Sound
  <2> QED
    BY <1>1, <1>3, <2>12, <2>15 DEF AllocmanInv
<1>5. CASE ~(books["hand"]["cspace"] > 0)
  <2>1. stack' = RefillAt("mspace", FALSE, FALSE) /\ UNCHANGED <<books, in_operation, used_watermark, refilling>>
        /\ "mspace" \in {"free cspace", "free mspace", "free utspace", "cspace", "slot", "slot back", "mspace", "round"}
    BY <1>5 DEF SlotBack
  <2>2. books["hand"]["cspace"] # 1
    BY <1>3, <1>5
  <2> QED
    BY <1>1, <2>1, <2>2, RefillGoesOn
<1> QED
  BY <1>4, <1>5

(* Another round of the refill, or its end, keeps the invariant. *)
LEMMA RoundKeeps ==
  ASSUME AllocmanInv, Round
  PROVE  AllocmanInv'
<1> DEFINE f == Last(stack)
           u == Under(stack)
<1>1. stack # <<>> /\ Top.op = "refill" /\ Top.stage = "round" /\ books' = books /\ in_operation' = in_operation
  BY DEF Round, Refilling, Idle
<1>2. Top = f /\ Below = u /\ stack \in Seq(Frames) /\ f \in Frames /\ u \in Seq(Frames)
      /\ NotReentered(stack, refilling) /\ refilling \in BOOLEAN /\ Sound(books, stack, refilling)
      /\ in_operation \in BOOLEAN /\ used_watermark \in BOOLEAN
  BY <1>1, TopIs DEF AllocmanInv
<1>3. f \in RefillFrames /\ f.op = "refill" /\ f.stage = "round"
  BY <1>1, <1>2, FrameKinds
<1>4. f.limit \in Nat /\ f.found \in BOOLEAN
  BY <1>3 DEF RefillFrames
<1>5. CASE AnotherRound
  <2> DEFINE g == [RefillFrame EXCEPT !.limit = Top.limit + 1]
  <2>1. stack' = Append(u, g) /\ refilling' = refilling /\ used_watermark' = used_watermark
    BY <1>2, <1>5 DEF Round
  <2>2. g \in RefillFrames /\ g.stage = "free cspace"
    <3> DEFINE n == Top.limit + 1
    <3>1. n \in Nat
      BY <1>2, <1>4
    <3> HIDE DEF n
    <3>2. [RefillFrame EXCEPT !.limit = n] \in RefillFrames /\ [RefillFrame EXCEPT !.limit = n].stage = "free cspace"
      BY <3>1 DEF RefillFrame, RefillFrames
    <3> QED
      BY <3>2 DEF n
  <2> HIDE DEF g
  <2>3. (books["hand"]["cspace"] = 1 => Top.stage \in {"utspace", "slot back"}) /\ Last(stack).op = "refill"
    BY <1>1, <2>2, RefillStays
  <2>4. (g.stage = "utspace" => books["reserve"]["utspace"] < Desired["utspace"])
        /\ (books["hand"]["cspace"] = 1 => g.stage \in {"utspace", "slot back"})
    BY <1>1, <2>2, <2>3
  <2>5. Sound(books, Append(u, g), refilling)
    BY <1>1, <1>2, <2>2, <2>3, <2>4, RefillMoves
  <2> QED
    BY <1>1, <1>2, <2>1, <2>5 DEF AllocmanInv
<1>6. CASE ~AnotherRound
  <2>1. stack' = u /\ refilling' = FALSE /\ used_watermark' = f.found
    BY <1>2, <1>6 DEF Round
  <2>2. NotReentered(u, FALSE)
    <3>1. NotReentered(u, refilling /\ f.op # "refill")
      BY <1>1, <1>2, CallPopped
    <3>2. (refilling /\ f.op # "refill") = FALSE
      BY <1>3
    <3> QED
      BY <3>1, <3>2
  <2>3. \A op, stage : At(stack, op, stage) <=> (At(u, op, stage) \/ (f.op = op /\ f.stage = stage))
    BY <1>1, <1>2, SeenPopped
  <2>4. \A s, dest : Gets(stack, s, dest) <=>
             \/ Gets(u, s, dest)
             \/ f.space = s /\ f.stage = "callback" /\ f.op = "alloc" /\ f.dest = dest
    BY <1>1, <1>2, SeenPopped
  <2>5. \A s : Frees(stack, s) <=> (Frees(u, s) \/ (f.space = s /\ f.op = "free"))
    BY <1>1, <1>2, SeenPopped
  <2> HIDE DEF f, u
  <2>6. At(u, "refill", "utspace") <=> At(stack, "refill", "utspace")
    <3>1. At(stack, "refill", "utspace") <=> (At(u, "refill", "utspace") \/ (f.op = "refill" /\ f.stage = "utspace"))
      BY <2>3
    <3>2. f.stage # "utspace"
      BY <1>3
    <3> QED
      BY <3>1, <3>2
  <2>7. At(u, "refill", "slot back") <=> At(stack, "refill", "slot back")
    <3>1. At(stack, "refill", "slot back") <=> (At(u, "refill", "slot back") \/ (f.op = "refill" /\ f.stage = "slot back"))
      BY <2>3
    <3>2. f.stage # "slot back"
      BY <1>3
    <3> QED
      BY <3>1, <3>2
  <2>8. At(u, "resize", "switch") <=> At(stack, "resize", "switch")
    <3>1. At(stack, "resize", "switch") <=> (At(u, "resize", "switch") \/ (f.op = "resize" /\ f.stage = "switch"))
      BY <2>3
    <3>2. f.stage # "switch"
      BY <1>3
    <3> QED
      BY <3>1, <3>2
  <2>9. \A s, dest : Gets(u, s, dest) <=> Gets(stack, s, dest)
    BY <1>3, <2>4
  <2>10. \A s : Frees(u, s) <=> Frees(stack, s)
    BY <1>3, <2>5
  <2>11. SameButFrees(stack, u) /\ SameFrees(stack, u)
    BY <2>6, <2>7, <2>8, <2>9, <2>10 DEF SameButFrees, SameFrees
  <2>12. Sound(books, u, FALSE)
    <3>1. FALSE \in BOOLEAN
      OBVIOUS
    <3> QED
      BY <1>2, <2>2, <2>11, <3>1, SameHeld
  <2> QED
    BY <1>1, <1>2, <1>4, <2>1, <2>12 DEF AllocmanInv
<1> QED
  BY <1>5, <1>6

-----------------------------------------------------------------------------
(* A manager just attached is sound. *)
LEMMA AllocmanStarts ==
  ASSUME Init
  PROVE  AllocmanInv
<1> DEFINE b0 == [p \in Places |-> [s \in Spaces |-> IF p = "avail" THEN Total[s] ELSE 0]]
<1>1. books = b0 /\ stack = <<>> /\ in_operation = FALSE /\ used_watermark = TRUE /\ refilling = FALSE
  BY DEF Init
<1>2. Total \in [Spaces -> Nat] /\ Desired \in [Spaces -> Nat] /\ QueueSize \in [Spaces -> Nat]
  BY AllocmanConfig
<1>3. b0 \in [Places -> [Spaces -> Nat]] /\ \A p \in Places, s \in Spaces : b0[p][s] = IF p = "avail" THEN Total[s] ELSE 0
  BY <1>2
<1> HIDE DEF b0
<1>4. {"avail", "user", "inner", "reserve", "with_chunk", "queue", "hand", "new_array", "array", "freeing", "leaked"} \subseteq Places
      /\ {"cspace", "mspace", "utspace"} \subseteq Spaces
  BY DEF Places, Spaces
<1>5. ASSUME NEW s \in Spaces
      PROVE  Everywhere(b0, s) = Total[s]
  <2>1. /\ b0["avail"][s] = Total[s] /\ b0["user"][s] = 0 /\ b0["inner"][s] = 0 /\ b0["reserve"][s] = 0
        /\ b0["with_chunk"][s] = 0 /\ b0["queue"][s] = 0 /\ b0["hand"][s] = 0 /\ b0["new_array"][s] = 0
        /\ b0["array"][s] = 0 /\ b0["freeing"][s] = 0 /\ b0["leaked"][s] = 0
    BY <1>3, <1>4
  <2>2. Total[s] \in Nat
    BY <1>2
  <2> QED
    BY <2>1, <2>2 DEF Everywhere
<1>6. Accounted(b0)
  BY <1>3, <1>5 DEF Accounted
<1>7. InArrays(b0)
  <2>1. \A s \in Spaces : b0["reserve"][s] = 0 /\ b0["queue"][s] = 0 /\ Desired[s] \in Nat /\ QueueSize[s] \in Nat
    BY <1>2, <1>3, <1>4
  <2> QED
    BY <2>1 DEF InArrays
<1>8. b0["with_chunk"]["cspace"] = b0["reserve"]["utspace"] /\ b0["array"]["mspace"] <= 1 /\ b0["hand"]["cspace"] = 0
      /\ b0["new_array"]["mspace"] = 0
  BY <1>3, <1>4
<1> DEFINE st == <<>>
<1>9. DOMAIN st = {} /\ st \in Seq(Frames)
  OBVIOUS
<1> HIDE DEF st
<1>10. (\A op, stage : ~At(st, op, stage)) /\ GivesNothing(st) /\ (\A s : ~Frees(st, s))
  BY <1>9 DEF At, Gets, Frees, GivesNothing
<1>11. NotReentered(st, FALSE)
  BY <1>9 DEF NotReentered
<1>12. FreeingHeld(b0, st)
  <2>1. \A s \in Spaces : b0["freeing"][s] = 0
    BY <1>3, <1>4
  <2> QED
    BY <1>10, <2>1 DEF FreeingHeld
<1>13. HeldByCalls(b0, st)
  <2>1. ~At(st, "refill", "utspace") /\ ~At(st, "refill", "slot back")
    BY <1>10
  <2>2. b0["new_array"]["mspace"] \in {0, 1}
    BY <1>8
  <2>3. b0["new_array"]["mspace"] # 1
    BY <1>8, ZeroNotOne, Zenon
  <2> QED
    BY <1>3, <1>8, <1>10, <1>12, <2>1, <2>2, <2>3, HeldByNone
<1>14. Sound(b0, st, FALSE)
  BY <1>6, <1>7, <1>8, <1>9, <1>11, <1>13 DEF Sound
<1> QED
  BY <1>1, <1>14 DEF AllocmanInv, st

(* One lemma per action. *)
LEMMA AllocmanKept ==
  ASSUME AllocmanInv, [Next]_vars
  PROVE  AllocmanInv'
<1>1. ASSUME NEW s \in Spaces, UserAllocs(s) \/ UserFrees(s) \/ NestedAlloc(s) \/ NestedFree(s)
      PROVE  AllocmanInv'
  BY <1>1, UserAllocsKeeps, UserFreesKeeps, NestedAllocKeeps, NestedFreeKeeps
<1>2. CASE FillReserves
  BY <1>2, FillReservesKeeps
<1>3. CASE ResizeStarts
  BY <1>3, ResizeStartsKeeps
<1>4. CASE CallbackReturns
  BY <1>4, AllocSucceedsKeeps, AllocFailsKeeps, FreeEndsKeeps DEF CallbackReturns
<1>5. CASE OperationEnds
  BY <1>5, OperationEndsKeeps
<1>6. CASE Resize
  BY <1>6, ResizeAllocatesKeeps, ResizeFailsKeeps, ResizeSwitchesSound DEF Resize
<1>7. CASE Refill
  <2>1. {"cspace", "mspace", "utspace"} \subseteq Spaces
    BY DEF Spaces
  <2>2. CASE Drain("cspace", "free cspace", "free mspace")
    BY <2>1, <2>2, DrainKeeps
  <2>3. CASE Drain("mspace", "free mspace", "free utspace")
    BY <2>1, <2>3, DrainKeeps
  <2>4. CASE Drain("utspace", "free utspace", "cspace")
    BY <2>1, <2>4, DrainKeeps
  <2>5. CASE Replenish("cspace", "cspace", "slot")
    BY <2>5, ReplenishKeeps
  <2>6. CASE Replenish("mspace", "mspace", "round")
    BY <2>6, ReplenishKeeps
  <2>7. CASE GrabSlot \/ ReplenishUtspace \/ SlotBack \/ Round
    BY <2>7, GrabSlotKeeps, ReplenishUtspaceKeeps, SlotBackKeeps, RoundKeeps
  <2> QED
    BY <1>7, <2>2, <2>3, <2>4, <2>5, <2>6, <2>7 DEF Refill
<1>8. CASE UNCHANGED vars
  BY <1>8 DEF vars, AllocmanInv
<1> QED
  BY <1>1, <1>2, <1>3, <1>4, <1>5, <1>6, <1>7, <1>8 DEF Next

(* The invariant holds throughout. *)
LEMMA AllocmanInvariant == Spec => []AllocmanInv
<1>1. Init => AllocmanInv
  BY AllocmanStarts
<1>2. AllocmanInv /\ [Next]_vars => AllocmanInv'
  BY AllocmanKept
<1> QED
  BY <1>1, <1>2, PTL DEF Spec

(* Conserved: whatever the allocators call, whichever of them fails and     *)
(* wherever, every slot, piece of memory and untyped stays accounted for    *)
(* exactly once by the reserves, the queues and the calls in progress.      *)
THEOREM AlwaysConserved == Spec => []Conserved
<1>1. AllocmanInv => Conserved
  BY DEF AllocmanInv, Sound, Accounted, Conserved, TypeOK, Frames
<1> QED
  BY <1>1, AllocmanInvariant, PTL

(* CallsContained: the arrays of reserves and queues are never overrun,     *)
(* no allocator is re-entered and _refill_watermark() runs once at a time,  *)
(* however deep the allocators call each other.                             *)
THEOREM AlwaysContained == Spec => []CallsContained
<1>1. AllocmanInv => CallsContained
  BY DEF AllocmanInv, Sound, InArrays, CallsContained, WithinArrays
<1> QED
  BY <1>1, AllocmanInvariant, PTL

(* NothingHalfDone: an untyped in the reserve has its slot, and what        *)
(* _refill_watermark(), resize_array() and the frees hold is given up by    *)
(* the time the outermost call has returned.                                *)
THEOREM AlwaysFinished == Spec => []NothingHalfDone
<1>1. ASSUME AllocmanInv
      PROVE  NothingHalfDone
  <2>1. /\ books["with_chunk"]["cspace"] = books["reserve"]["utspace"]
        /\ books["array"]["mspace"] <= 1
        /\ HeldByCalls(books, stack)
    BY <1>1 DEF AllocmanInv, Sound
  <2>2. Idle => /\ books["hand"]["cspace"] = 0
                /\ books["new_array"]["mspace"] = 0
                /\ \A s \in Spaces : books["freeing"][s] = 0
    BY <1>1, IdleHolds DEF Idle
  <2> QED
    BY <2>1, <2>2 DEF NothingHalfDone
<1> QED
  BY <1>1, AllocmanInvariant, PTL
===============================================================================
