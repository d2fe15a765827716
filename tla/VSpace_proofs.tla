----------------------------- MODULE VSpace_proofs -----------------------------
(***************************************************************************)
(* Proofs about VSpace, for tables, address spaces and calls of any size.  *)
(*                                                                         *)
(* The two levels of tables are read as one function from pages to         *)
(* entries.  What a call does is a relation between two states: which      *)
(* entries it may have changed, from what and to what.  A loop keeps such  *)
(* a relation to the state it started from.                                *)
(***************************************************************************)
EXTENDS VSpace, FiniteSetTheorems, WellFoundedInduction, NaturalsInduction, TLAPS

-----------------------------------------------------------------------------
(* States and entries                                                      *)

(* What the tables say of a page, whichever level says it. *)
Entry(s, p) ==
  IF s.top[INDEX(p)] = "table" THEN s.cap[p]
  ELSE IF s.top[INDEX(p)] = "reserved" THEN RESERVED ELSE EMPTY

(* The reservations that a vspace can list. *)
Reservations == [start : Nat, end : Nat, deferred : BOOLEAN]

(* The states that a call works on. *)
States ==
  [top : [Tables -> {"empty", "reserved", "table"}],
   cap : [Pages -> {RESERVED, EMPTY} \cup Caps], cookie : [Pages -> Nat],
   last : Nat, res : SUBSET Reservations, levels : Nat,
   slot : [Caps -> {"free", "bare", "frame", "copy"}], size : [Caps -> Sizes],
   at : [Caps -> Pages \cup {NOWHERE}], kpt : SUBSET Tables,
   err : BOOLEAN, dead : BOOLEAN, done : Nat]

(* All but the tables, the error and where the next search starts. *)
SameKernel(s, t) ==
  /\ t.slot = s.slot /\ t.at = s.at /\ t.size = s.size /\ t.kpt = s.kpt
  /\ t.res = s.res /\ t.dead = s.dead /\ t.done = s.done

(* A call left the entry of a page, and its cookie, alone. *)
SameEntry(s, t, p) == Entry(t, p) = Entry(s, p) /\ get_cookie(t, p) = get_cookie(s, p)

-----------------------------------------------------------------------------
(* Arithmetic of pages and levels                                          *)

(* The constants are numbers. *)
LEMMA Constants ==
  /\ LevelSize \in Nat /\ LevelSize > 1
  /\ NumPages \in Nat /\ KernelStart \in Nat /\ FirstPage \in Nat /\ ReserveStart \in Nat
  /\ ImageEnd \in Nat /\ BootFrame \in Nat /\ MinLevels \in Nat /\ NumCaps \in Nat
  /\ 0 < ImageEnd /\ ImageEnd < ReserveStart /\ ReserveStart < KernelStart
  /\ KernelStart < NumPages /\ BootFrame >= ImageEnd /\ BootFrame < ReserveStart
  /\ FirstPage < KernelStart
BY VSpaceAssumption

(* Division by the size of a level. *)
LEMMA DivMod ==
  ASSUME NEW p \in Int, NEW d \in Nat, d > 1
  PROVE  /\ p \div d \in Int /\ p % d \in 0 .. d - 1
         /\ p = d * (p \div d) + (p % d)
OBVIOUS

(* A quotient is unique. *)
LEMMA QuotientUnique ==
  ASSUME NEW i \in Int, NEW j \in Int, NEW d \in Nat, d > 1,
         NEW p \in Int, d * i <= p, p < d * i + d, d * j <= p, p < d * j + d
  PROVE  i = j
<1>1. ASSUME NEW a \in Int, NEW b \in Int, a < b
      PROVE  d * a + d <= d * b
  <2>1. d * (b - a - 1) >= 0
    BY <1>1
  <2>2. d * (b - a - 1) = d * b - d * a - d
    OBVIOUS
  <2> QED
    BY <2>1, <2>2
<1>2. ~ (i < j)
  BY <1>1
<1> QED
  BY <1>1, <1>2

(* Multiplication by a positive number keeps the order. *)
LEMMA TimesOrder ==
  ASSUME NEW i \in Int, NEW j \in Int, NEW d \in Nat, d > 0
  PROVE  /\ i < j => d * i + d <= d * j
         /\ i <= j => d * i <= d * j
<1>1. ASSUME i < j
      PROVE  d * i + d <= d * j
  <2>1. d * (j - i - 1) >= 0
    BY <1>1
  <2>2. d * (j - i - 1) = d * j - d * i - d
    OBVIOUS
  <2> QED
    BY <2>1, <2>2
<1>2. ASSUME i <= j
      PROVE  d * i <= d * j
  <2>1. d * (j - i) >= 0
    BY <1>2
  <2>2. d * (j - i) = d * j - d * i
    OBVIOUS
  <2> QED
    BY <2>1, <2>2
<1> QED
  BY <1>1, <1>2

(* The level of a page is the one whose pages hold it. *)
LEMMA IndexOf ==
  ASSUME NEW p \in Nat
  PROVE  /\ INDEX(p) \in Nat
         /\ LevelSize * INDEX(p) <= p /\ p < LevelSize * INDEX(p) + LevelSize
<1>1. /\ p \div LevelSize \in Int /\ p % LevelSize \in 0 .. LevelSize - 1
      /\ p = LevelSize * (p \div LevelSize) + (p % LevelSize)
  BY DivMod, Constants
<1> DEFINE q == p \div LevelSize
           r == p % LevelSize
<1>2. q \in Int /\ r \in 0 .. LevelSize - 1 /\ p = LevelSize * q + r
  BY <1>1
<1> HIDE DEF q, r
<1>3. LevelSize * q <= p /\ p < LevelSize * q + LevelSize
  BY <1>2, Constants
<1>4. q >= 0
  <2>1. ASSUME q < 0
        PROVE  LevelSize * q + LevelSize <= LevelSize * 0
    BY <2>1, <1>2, TimesOrder, Constants
  <2> QED
    BY <2>1, <1>2, <1>3, Constants
<1>5. INDEX(p) = q
  BY DEF q, INDEX
<1> QED
  BY <1>2, <1>3, <1>4, <1>5

(* The pages of a level are those between its first and the next level's. *)
LEMMA LevelOf ==
  ASSUME NEW i \in Nat, NEW p \in Nat
  PROVE  /\ p \in PagesOf(i) <=> INDEX(p) = i
         /\ PagesOf(i) = {q \in Nat : INDEX(q) = i}
<1>1. /\ i * LevelSize \in Nat /\ (i + 1) * LevelSize \in Nat
      /\ (i + 1) * LevelSize = LevelSize * i + LevelSize /\ i * LevelSize = LevelSize * i
  BY Constants
<1>2. ASSUME NEW q \in Nat
      PROVE  q \in PagesOf(i) <=> INDEX(q) = i
  <2>1. /\ INDEX(q) \in Nat
        /\ LevelSize * INDEX(q) <= q /\ q < LevelSize * INDEX(q) + LevelSize
    BY IndexOf
  <2>2. q \in PagesOf(i) <=> LevelSize * i <= q /\ q < LevelSize * i + LevelSize
    BY <1>1, Constants DEF PagesOf
  <2>3. ASSUME LevelSize * i <= q, q < LevelSize * i + LevelSize
        PROVE  INDEX(q) = i
    <3>1. PICK j \in Nat : j = INDEX(q)
      BY <2>1
    <3>2. LevelSize * j <= q /\ q < LevelSize * j + LevelSize
      BY <2>1, <3>1
    <3>3. i \in Int /\ j \in Int /\ q \in Int /\ LevelSize \in Nat /\ LevelSize > 1
      BY Constants
    <3>4. i = j
      BY <2>3, <3>2, <3>3, QuotientUnique
    <3> QED
      BY <3>1, <3>4
  <2> QED
    BY <2>1, <2>2, <2>3
<1>3. \A q \in PagesOf(i) : q \in Nat
  BY <1>1 DEF PagesOf
<1> QED
  BY <1>2, <1>3

(* Levels follow the order of pages. *)
LEMMA IndexOrder ==
  ASSUME NEW p \in Nat, NEW q \in Nat, p <= q
  PROVE  INDEX(p) <= INDEX(q)
<1>1. /\ INDEX(p) \in Nat /\ INDEX(q) \in Nat
      /\ LevelSize * INDEX(p) <= p /\ q < LevelSize * INDEX(q) + LevelSize
  BY IndexOf
<1>2. ASSUME INDEX(q) < INDEX(p)
      PROVE  LevelSize * INDEX(q) + LevelSize <= LevelSize * INDEX(p)
  BY <1>1, <1>2, TimesOrder, Constants
<1> DEFINE a == LevelSize * INDEX(p)
           b == LevelSize * INDEX(q)
<1>3. a \in Int /\ b \in Int
  BY <1>1, Constants
<1> QED
  BY <1>1, <1>2, <1>3, Constants

(* The levels of a multiple of the size of a level. *)
LEMMA IndexOfMultiple ==
  ASSUME NEW p \in Nat, p % LevelSize = 0
  PROVE  p = LevelSize * INDEX(p)
<1>1. p = LevelSize * (p \div LevelSize) + (p % LevelSize)
  BY DivMod, Constants
<1>2. LevelSize * (p \div LevelSize) \in Int
  BY DivMod, Constants
<1> DEFINE a == LevelSize * (p \div LevelSize)
<1>3. p = a + 0 /\ a \in Int
  BY <1>1, <1>2
<1> HIDE DEF a
<1>4. p = a
  BY <1>3
<1> QED
  BY <1>4 DEF a, INDEX

(* Every page has a table, and every page of a table is one. *)
LEMMA TablesCover ==
  /\ \A p \in Pages : p \in Nat /\ INDEX(p) \in Tables
  /\ \A i \in Tables : i \in Nat /\ PagesOf(i) \subseteq Pages
<1>1. NumPages = LevelSize * INDEX(NumPages) /\ INDEX(NumPages) \in Nat
  BY VSpaceAssumption, Constants, IndexOfMultiple, IndexOf
<1>2. Tables = 0 .. INDEX(NumPages) - 1
  BY DEF Tables, INDEX
<1>3. ASSUME NEW p \in Pages
      PROVE  p \in Nat /\ INDEX(p) \in Tables
  <2>1. p \in Nat /\ p < NumPages
    BY <1>3, Constants DEF Pages
  <2>2. INDEX(p) \in Nat /\ LevelSize * INDEX(p) <= p
    BY <2>1, IndexOf
  <2>3. ASSUME INDEX(NumPages) <= INDEX(p)
        PROVE  LevelSize * INDEX(NumPages) <= LevelSize * INDEX(p)
    BY <2>3, <2>2, <1>1, TimesOrder, Constants
  <2>4. LevelSize * INDEX(p) \in Int
    BY <2>2, Constants
  <2> QED
    BY <1>1, <1>2, <2>1, <2>2, <2>3, <2>4, Constants
<1>4. ASSUME NEW i \in Tables, NEW p \in PagesOf(i)
      PROVE  p \in Pages
  <2>1. i \in Nat /\ i < INDEX(NumPages)
    BY <1>1, <1>2, <1>4
  <2>2. p \in Nat /\ INDEX(p) = i
    BY <2>1, <1>4, LevelOf
  <2>3. p < LevelSize * i + LevelSize
    BY <2>2, IndexOf
  <2>4. LevelSize * i + LevelSize <= LevelSize * INDEX(NumPages)
    BY <2>1, <1>1, TimesOrder, Constants
  <2>5. LevelSize * i \in Int
    BY <2>1, Constants
  <2> QED
    BY <2>2, <2>3, <2>4, <2>5, <1>1, Constants DEF Pages
<1>5. \A i \in Tables : i \in Nat
  BY <1>1, <1>2
<1> QED
  BY <1>3, <1>4, <1>5

(* The remainder of a multiple is zero. *)
LEMMA MultipleMod ==
  ASSUME NEW d \in Nat, d > 1, NEW i \in Int
  PROVE  (d * i) % d = 0
<1> DEFINE x == d * i
<1>1. x \in Int /\ x = d * i
  OBVIOUS
<1> HIDE DEF x
<1>2. /\ x \div d \in Int /\ x % d \in 0 .. d - 1
      /\ x = d * (x \div d) + (x % d)
  BY <1>1, DivMod
<1> DEFINE j == x \div d
           r == x % d
<1>3. j \in Int /\ r \in 0 .. d - 1 /\ x = d * j + r
  BY <1>2
<1> HIDE DEF j, r
<1>4. /\ d * i <= x /\ x < d * i + d /\ d * j <= x /\ x < d * j + d
  BY <1>1, <1>3
<1>5. i = j
  BY <1>1, <1>3, <1>4, QuotientUnique
<1>6. r = 0
  BY <1>1, <1>3, <1>5
<1> QED
  BY <1>6 DEF r, x

(* Frames follow each other at multiples of their size. *)
LEMMA Aligned ==
  ASSUME NEW v \in Nat, NEW sz \in Sizes, v % sz = 0, NEW m \in Nat
  PROVE  /\ v + m * sz \in Nat /\ (v + m * sz) % sz = 0
         /\ sz \in Nat /\ sz >= 1
<1>1. CASE sz = 1
  <2>1. m * sz = m
    BY <1>1
  <2>2. \A x \in Nat : x % 1 = 0
    OBVIOUS
  <2> QED
    BY <1>1, <2>1, <2>2
<1>2. CASE sz = LevelSize
  <2>1. v = LevelSize * INDEX(v) /\ INDEX(v) \in Nat
    BY <1>2, IndexOfMultiple, IndexOf
  <2>2. PICK q \in Nat : q = INDEX(v)
    BY <2>1
  <2>3. v + m * LevelSize = LevelSize * (q + m)
    <3>1. v = LevelSize * q
      BY <2>1, <2>2
    <3>2. LevelSize * (q + m) = LevelSize * q + m * LevelSize
      BY Constants
    <3> QED
      BY <3>1, <3>2
  <2>4. (LevelSize * (q + m)) % LevelSize = 0
    BY MultipleMod, Constants
  <2>5. m * LevelSize \in Nat
    BY Constants
  <2> QED
    BY <1>2, <2>3, <2>4, <2>5, Constants
<1> QED
  BY <1>1, <1>2 DEF Sizes

(* A frame lies in one level. *)
LEMMA FrameInLevel ==
  ASSUME NEW p \in Nat, NEW sz \in Sizes, p % sz = 0, NEW q \in p .. p + sz - 1
  PROVE  q \in Nat /\ INDEX(q) = INDEX(p)
<1>1. sz \in Nat /\ sz >= 1
  BY Constants DEF Sizes
<1>2. q \in Nat /\ p <= q /\ q < p + sz
  BY <1>1
<1>3. CASE sz = 1
  BY <1>2, <1>3
<1>4. CASE sz = LevelSize
  <2>1. p = LevelSize * INDEX(p) /\ INDEX(p) \in Nat
    BY <1>4, IndexOfMultiple, IndexOf
  <2>2. PICK i \in Nat : i = INDEX(p)
    BY <2>1
  <2>3. /\ i * LevelSize = p /\ (i + 1) * LevelSize = p + LevelSize
    BY <2>1, <2>2, Constants
  <2>4. q \in PagesOf(i)
    BY <1>2, <1>4, <2>3, Constants DEF PagesOf
  <2> QED
    BY <1>2, <2>2, <2>4, LevelOf
<1> QED
  BY <1>3, <1>4 DEF Sizes

-----------------------------------------------------------------------------
(* One level                                                               *)

(* Pages written with an entry: those before the first that is refused. *)
Accepted(pages, refused) == {p \in pages : \A q \in refused : q > p}

(* What an entry of a table can be. *)
EntryValues == {RESERVED, EMPTY} \cup Caps

(* Pages of one level, and some of them refused. *)
InLevel(pages, refused, i) == pages \subseteq PagesOf(i) /\ refused \subseteq pages

(* A table that is written changes the entries accepted, and is an error   *)
(* unless these are all. *)
LEMMA WriteBottomEffect ==
  ASSUME NEW s \in States, NEW i \in Tables, s.top[i] = "table",
         NEW pages, NEW refused, InLevel(pages, refused, i),
         NEW c \in EntryValues, NEW k \in Nat,
         NEW t, t = WriteBottom(s, pages, refused, c, k)
  PROVE  /\ t \in States /\ SameKernel(s, t) /\ t.levels = s.levels /\ t.last = s.last
         /\ t.top = s.top
         /\ t.err = (Accepted(pages, refused) # pages)
         /\ \A p \in Accepted(pages, refused) : Entry(t, p) = c /\ get_cookie(t, p) = k
         /\ \A p \in Pages \ Accepted(pages, refused) : SameEntry(s, t, p)
<1> DEFINE ok == Accepted(pages, refused)
<1>1. t = [s EXCEPT !.cap = Overwritten(s.cap, ok, c), !.cookie = Overwritten(s.cookie, ok, k),
                    !.err = (ok # pages)]
  BY DEF WriteBottom, Accepted
<1>2. ok \subseteq PagesOf(i) /\ ok \subseteq Pages
  BY TablesCover DEF Accepted, InLevel
<1> HIDE DEF ok
<1>3. /\ Overwritten(s.cap, ok, c) \in [Pages -> {RESERVED, EMPTY} \cup Caps]
      /\ Overwritten(s.cookie, ok, k) \in [Pages -> Nat]
  BY DEF Overwritten, States, EntryValues
<1>4. t \in States
  BY <1>1, <1>3 DEF States
<1>5. /\ SameKernel(s, t) /\ t.levels = s.levels /\ t.last = s.last /\ t.top = s.top
      /\ t.err = (ok # pages)
      /\ t.cap = Overwritten(s.cap, ok, c) /\ t.cookie = Overwritten(s.cookie, ok, k)
  BY <1>1 DEF States, SameKernel
<1>6. \A p \in ok : INDEX(p) = i
  BY <1>2, LevelOf, TablesCover
<1>7. \A p \in ok : Entry(t, p) = c /\ get_cookie(t, p) = k
  BY <1>2, <1>5, <1>6 DEF Entry, get_cookie, Overwritten
<1>8. \A p \in Pages \ ok : SameEntry(s, t, p)
  BY <1>5 DEF Entry, get_cookie, Overwritten, SameEntry
<1> QED
  BY <1>4, <1>5, <1>7, <1>8 DEF ok

(* A level made of a whole entry changes no entry; there may be no memory. *)
LEMMA CreateBottomLevelEffect ==
  ASSUME NEW s \in States, ~ s.err, NEW i \in Tables,
         NEW init \in {RESERVED, EMPTY},
         \/ s.top[i] = "empty" /\ init = EMPTY
         \/ s.top[i] = "reserved" /\ init = RESERVED,
         NEW t, t = create_bottom_level(s, i, init)
  PROVE  /\ t \in States /\ SameKernel(s, t) /\ t.last = s.last
         /\ \A p \in Pages : SameEntry(s, t, p)
         /\ t.err => t.levels = 0 /\ s.levels = 0 /\ t.top = s.top
         /\ ~ t.err => t.top[i] = "table" /\ t.levels <= s.levels
                       /\ \A j \in Tables : j # i => t.top[j] = s.top[j]
<1> DEFINE l == create_level(s)
<1>1. l = IF s.levels = 0 THEN [s EXCEPT !.err = TRUE] ELSE [s EXCEPT !.levels = s.levels - 1]
  BY DEF create_level, alloc_and_map
<1>2. l \in States /\ SameKernel(s, l) /\ l.last = s.last /\ l.top = s.top
      /\ l.cap = s.cap /\ l.cookie = s.cookie
      /\ (l.err => l.levels = 0 /\ s.levels = 0) /\ (~ l.err => l.levels <= s.levels)
  <2>1. CASE s.levels = 0
    <3>1. l = [s EXCEPT !.err = TRUE]
      BY <1>1, <2>1
    <3> HIDE DEF l
    <3> QED
      BY <2>1, <3>1 DEF States, SameKernel
  <2>2. CASE s.levels # 0
    <3>1. l = [s EXCEPT !.levels = s.levels - 1] /\ s.levels - 1 \in Nat
      BY <1>1, <2>2 DEF States
    <3> HIDE DEF l
    <3> QED
      BY <2>2, <3>1 DEF States, SameKernel
  <2> QED
    BY <2>1, <2>2
<1>3. t = IF l.err THEN l
          ELSE [l EXCEPT !.top[i] = "table", !.cap = Overwritten(l.cap, PagesOf(i), init),
                         !.cookie = Overwritten(l.cookie, PagesOf(i), 0)]
  BY DEF create_bottom_level
<1> HIDE DEF l
<1>4. CASE l.err
  <2>1. t = l
    BY <1>3, <1>4
  <2>2. \A p \in Pages : SameEntry(s, t, p)
    BY <1>2, <2>1 DEF SameEntry, Entry, get_cookie
  <2> QED
    BY <1>2, <1>4, <2>1, <2>2
<1>5. CASE ~ l.err
  <2>1. t = [l EXCEPT !.top[i] = "table", !.cap = Overwritten(l.cap, PagesOf(i), init),
                      !.cookie = Overwritten(l.cookie, PagesOf(i), 0)]
    BY <1>3, <1>5
  <2>2. /\ Overwritten(l.cap, PagesOf(i), init) \in [Pages -> {RESERVED, EMPTY} \cup Caps]
        /\ Overwritten(l.cookie, PagesOf(i), 0) \in [Pages -> Nat]
    BY <1>2 DEF Overwritten, States
  <2>3. t \in States
    <3>1. PICK f \in [Tables -> {"empty", "reserved", "table"}] : f = [l.top EXCEPT ![i] = "table"]
      BY <1>2 DEF States
    <3>2. PICK g \in [Pages -> {RESERVED, EMPTY} \cup Caps] : g = Overwritten(l.cap, PagesOf(i), init)
      BY <2>2
    <3>3. PICK h \in [Pages -> Nat] : h = Overwritten(l.cookie, PagesOf(i), 0)
      BY <2>2
    <3>4. t = [l EXCEPT !.top = f, !.cap = g, !.cookie = h]
      BY <1>2, <2>1, <3>1, <3>2, <3>3 DEF States
    <3>5. PICK t1 : t1 = [l EXCEPT !.top = f]
      OBVIOUS
    <3>6. t1 \in States
      BY <1>2, <3>5 DEF States
    <3>7. t = [t1 EXCEPT !.cap = g, !.cookie = h]
      BY <1>2, <3>4, <3>5 DEF States
    <3> QED
      BY <3>6, <3>7 DEF States
  <2>4. /\ SameKernel(l, t) /\ t.last = l.last /\ t.levels = l.levels /\ t.err = l.err
        /\ t.top = [l.top EXCEPT ![i] = "table"]
        /\ t.cap = Overwritten(l.cap, PagesOf(i), init)
        /\ t.cookie = Overwritten(l.cookie, PagesOf(i), 0)
    BY <1>2, <2>1 DEF States, SameKernel
  <2>5. SameKernel(s, t)
    BY <1>2, <2>4 DEF SameKernel
  <2>6. \A j \in Tables : t.top[j] = IF j = i THEN "table" ELSE s.top[j]
    BY <1>2, <2>4 DEF States
  <2>7. ASSUME NEW p \in Pages
        PROVE  SameEntry(s, t, p)
    <3>1. INDEX(p) \in Tables /\ (p \in PagesOf(i) <=> INDEX(p) = i)
      BY TablesCover, LevelOf
    <3>2. CASE INDEX(p) = i
      BY <1>2, <2>4, <2>6, <3>1, <3>2 DEF SameEntry, Entry, get_cookie, Overwritten
    <3>3. CASE INDEX(p) # i
      BY <1>2, <2>4, <2>6, <3>1, <3>3 DEF SameEntry, Entry, get_cookie, Overwritten
    <3> QED
      BY <3>2, <3>3
  <2> QED
    BY <1>2, <1>5, <2>3, <2>4, <2>5, <2>6, <2>7
<1> QED
  BY <1>4, <1>5

(* A whole level is reserved in the top level alone. *)
LEMMA ReserveWholeEffect ==
  ASSUME NEW s \in States, NEW i \in Tables, s.top[i] = "empty",
         NEW t, t = [s EXCEPT !.top[i] = "reserved"]
  PROVE  /\ t \in States /\ SameKernel(s, t) /\ t.last = s.last /\ t.levels = s.levels
         /\ t.err = s.err
         /\ \A p \in Pages \ PagesOf(i) : SameEntry(s, t, p)
         /\ \A p \in PagesOf(i) : Entry(s, p) = EMPTY /\ Entry(t, p) = RESERVED
                                  /\ get_cookie(t, p) = 0
<1>1. /\ t \in States /\ SameKernel(s, t) /\ t.last = s.last /\ t.levels = s.levels
      /\ t.err = s.err /\ t.cap = s.cap /\ t.cookie = s.cookie
      /\ t.top = [s.top EXCEPT ![i] = "reserved"]
  BY DEF States, SameKernel
<1>2. \A j \in Tables : t.top[j] = IF j = i THEN "reserved" ELSE s.top[j]
  BY <1>1 DEF States
<1>3. ASSUME NEW p \in Pages \ PagesOf(i)
      PROVE  SameEntry(s, t, p)
  <2>1. INDEX(p) \in Tables /\ INDEX(p) # i
    BY TablesCover, LevelOf
  <2> QED
    BY <1>1, <1>2, <2>1 DEF SameEntry, Entry, get_cookie
<1>4. ASSUME NEW p \in PagesOf(i)
      PROVE  Entry(s, p) = EMPTY /\ Entry(t, p) = RESERVED /\ get_cookie(t, p) = 0
  <2>1. INDEX(p) = i
    BY TablesCover, LevelOf
  <2> QED
    BY <1>2, <2>1 DEF Entry, get_cookie
<1> QED
  BY <1>1, <1>3, <1>4

-----------------------------------------------------------------------------
(* Loops                                                                   *)

(* A set of naturals has a least element. *)
LEMMA LeastNat ==
  ASSUME NEW S \in SUBSET Nat, S # {}
  PROVE  \E x \in S : \A y \in S : x <= y
<1>1. PICK x \in S : \A y \in S : ~ (<<y, x>> \in OpToRel(<, Nat))
  BY WFMin, NatLessThanWellFounded
<1>2. ASSUME NEW y \in S, y < x
      PROVE  <<y, x>> \in OpToRel(<, Nat)
  <2>1. <<y, x>> \in Nat \X Nat
    OBVIOUS
  <2>2. <<y, x>>[1] < <<y, x>>[2]
    BY <1>2
  <2> QED
    BY <2>1, <2>2, Zenon DEF OpToRel
<1>3. \A y \in S : ~ (y < x)
  BY <1>1, <1>2
<1> QED
  BY <1>3

(* What holds at the start of a loop and after every turn holds at its end, *)
(* and after every turn before. *)
LEMMA Climb ==
  ASSUME NEW n \in Nat, NEW A, 0 \in A, \A k \in 1 .. n : k - 1 \in A => k \in A
  PROVE  \A k \in 0 .. n : k \in A
<1> DEFINE B == {k \in 0 .. n : k \notin A}
<1>1. ASSUME B # {}
      PROVE  FALSE
  <2>1. PICK k \in B : \A j \in B : k <= j
    <3>1. B \in SUBSET Nat /\ B # {}
      BY <1>1
    <3> HIDE DEF B
    <3> QED
      BY <3>1, LeastNat
  <2>2. k \in 1 .. n /\ k - 1 \in 0 .. n /\ k - 1 \notin B
    BY <2>1
  <2> QED
    BY <2>1, <2>2
<1> QED
  BY <1>1

(* The turns of reserve_entries_range. *)
LEMMA ReserveTurns ==
  ASSUME NEW s, NEW a, NEW b, NEW preserve, Entries(a, b) \in Nat
  PROVE  \E f : /\ f[0] = [s EXCEPT !.err = FALSE]
                /\ \A k \in 1 .. Entries(a, b) :
                     f[k] = reserve_entries_part(f[k - 1], INDEX(a) + k - 1,
                              PartOf(INDEX(a) + k - 1, a, b), preserve)
                /\ reserve_entries_range(s, a, b, preserve) = f[Entries(a, b)]
<1> DEFINE n == Entries(a, b)
           z == [s EXCEPT !.err = FALSE]
           Turn(r, k) == reserve_entries_part(r, INDEX(a) + k - 1,
                           PartOf(INDEX(a) + k - 1, a, b), preserve)
           Good(m, f) == f = [k \in 0 .. m |-> IF k = 0 THEN z ELSE Turn(f[k - 1], k)]
           A == {m \in 0 .. n : \E f : Good(m, f)}
<1>1. PICK g : g = CHOOSE f : Good(n, f)
  OBVIOUS
<1>2. reserve_entries_range(s, a, b, preserve) = g[n]
  BY <1>1 DEF reserve_entries_range, Repeat
<1>3. n \in Nat
  OBVIOUS
<1> HIDE DEF n, z, Turn
<1>4. 0 \in A
  <2>1. PICK f : f = [k \in 0 .. 0 |-> z]
    OBVIOUS
  <2>2. Good(0, f)
    BY <2>1
  <2> QED
    BY <2>2, <1>3
<1>5. ASSUME NEW m \in 1 .. n, m - 1 \in A
      PROVE  m \in A
  <2>1. PICK f : Good(m - 1, f)
    BY <1>5
  <2>2. PICK h : h = [k \in 0 .. m |-> IF k = m THEN Turn(f[m - 1], m) ELSE f[k]]
    OBVIOUS
  <2>3. ASSUME NEW k \in 0 .. m
        PROVE  h[k] = IF k = 0 THEN z ELSE Turn(h[k - 1], k)
    BY <1>3, <2>1, <2>2
  <2>4. Good(m, h)
    BY <2>2, <2>3
  <2> QED
    BY <2>4
<1>6. n \in A
  <2> HIDE DEF A
  <2> QED
    BY <1>3, <1>4, <1>5, Climb
<1>7. Good(n, g)
  BY <1>1, <1>6
<1>8. g[0] = z /\ \A k \in 1 .. n : g[k] = Turn(g[k - 1], k)
  BY <1>3, <1>7
<1> QED
  BY <1>2, <1>8 DEF n, z, Turn

(* The next search starts at a. *)
LookedBack(s, a) == [s EXCEPT !.last = a]

(* The turns of clear_entries_range. *)
LEMMA ClearTurns ==
  ASSUME NEW s, NEW a, NEW b, NEW only, Entries(a, b) \in Nat
  PROVE  \E f : /\ f[0] = [s EXCEPT !.err = FALSE]
                /\ \A k \in 1 .. Entries(a, b) : f[k] = clear_entries_part(f[k - 1], INDEX(a) + k - 1, PartOf(INDEX(a) + k - 1, a, b), only)
                /\ \/ clear_entries_range(s, a, b, only) = f[Entries(a, b)]
                   \/ clear_entries_range(s, a, b, only) = LookedBack(f[Entries(a, b)], a)
<1> DEFINE n == Entries(a, b)
           z == [s EXCEPT !.err = FALSE]
           Turn(r, k) == clear_entries_part(r, INDEX(a) + k - 1, PartOf(INDEX(a) + k - 1, a, b), only)
           Good(m, f) == f = [k \in 0 .. m |-> IF k = 0 THEN z ELSE Turn(f[k - 1], k)]
           A == {m \in 0 .. n : \E f : Good(m, f)}
<1>1. PICK g : g = CHOOSE f : Good(n, f)
  OBVIOUS
<1>2. \/ clear_entries_range(s, a, b, only) = g[n]
      \/ clear_entries_range(s, a, b, only) = LookedBack(g[n], a)
  BY <1>1 DEF clear_entries_range, Repeat, LookedBack
<1>3. n \in Nat
  OBVIOUS
<1> HIDE DEF n, z, Turn
<1>4. 0 \in A
  <2>1. PICK f : f = [k \in 0 .. 0 |-> z]
    OBVIOUS
  <2>2. Good(0, f)
    BY <2>1
  <2> QED
    BY <2>2, <1>3
<1>5. ASSUME NEW m \in 1 .. n, m - 1 \in A
      PROVE  m \in A
  <2>1. PICK f : Good(m - 1, f)
    BY <1>5
  <2>2. PICK h : h = [k \in 0 .. m |-> IF k = m THEN Turn(f[m - 1], m) ELSE f[k]]
    OBVIOUS
  <2>3. ASSUME NEW k \in 0 .. m
        PROVE  h[k] = IF k = 0 THEN z ELSE Turn(h[k - 1], k)
    BY <1>3, <2>1, <2>2
  <2>4. Good(m, h)
    BY <2>2, <2>3
  <2> QED
    BY <2>4
<1>6. n \in A
  <2> HIDE DEF A
  <2> QED
    BY <1>3, <1>4, <1>5, Climb
<1>7. Good(n, g)
  BY <1>1, <1>6
<1>8. g[0] = z /\ \A k \in 1 .. n : g[k] = Turn(g[k - 1], k)
  BY <1>3, <1>7
<1> QED
  BY <1>2, <1>8 DEF n, z, Turn

(* The turns of reserve_range. *)
LEMMA ReserveRangeTurns ==
  ASSUME NEW s, NEW a, NEW b, Entries(a, b) \in Nat
  PROVE  \E f : /\ f[0] = s
                /\ \A k \in 1 .. Entries(a, b) : f[k] = reserve_range_part(f[k - 1], INDEX(a) + k - 1, PartOf(INDEX(a) + k - 1, a, b))
                /\ reserve_range(s, a, b) = f[Entries(a, b)]
<1> DEFINE n == Entries(a, b)
           z == s
           Turn(r, k) == reserve_range_part(r, INDEX(a) + k - 1, PartOf(INDEX(a) + k - 1, a, b))
           Good(m, f) == f = [k \in 0 .. m |-> IF k = 0 THEN z ELSE Turn(f[k - 1], k)]
           A == {m \in 0 .. n : \E f : Good(m, f)}
<1>1. PICK g : g = CHOOSE f : Good(n, f)
  OBVIOUS
<1>2. reserve_range(s, a, b) = g[n]
  BY <1>1 DEF reserve_range, Repeat
<1>3. n \in Nat
  OBVIOUS
<1> HIDE DEF n, z, Turn
<1>4. 0 \in A
  <2>1. PICK f : f = [k \in 0 .. 0 |-> z]
    OBVIOUS
  <2>2. Good(0, f)
    BY <2>1
  <2> QED
    BY <2>2, <1>3
<1>5. ASSUME NEW m \in 1 .. n, m - 1 \in A
      PROVE  m \in A
  <2>1. PICK f : Good(m - 1, f)
    BY <1>5
  <2>2. PICK h : h = [k \in 0 .. m |-> IF k = m THEN Turn(f[m - 1], m) ELSE f[k]]
    OBVIOUS
  <2>3. ASSUME NEW k \in 0 .. m
        PROVE  h[k] = IF k = 0 THEN z ELSE Turn(h[k - 1], k)
    BY <1>3, <2>1, <2>2
  <2>4. Good(m, h)
    BY <2>2, <2>3
  <2> QED
    BY <2>4
<1>6. n \in A
  <2> HIDE DEF A
  <2> QED
    BY <1>3, <1>4, <1>5, Climb
<1>7. Good(n, g)
  BY <1>1, <1>6
<1>8. g[0] = z /\ \A k \in 1 .. n : g[k] = Turn(g[k - 1], k)
  BY <1>3, <1>7
<1> QED
  BY <1>2, <1>8 DEF n, z, Turn

(* A page lies in a reservation. *)
Occupied(s, p) == find_reserve(s, p) # {}

(* A page unmapped, unless an assertion has failed. *)
UnmapTurn(s, p, sz, reserved, free) ==
  IF s.dead THEN s ELSE UnmapOne(s, p, sz, reserved, free)

(* The turns of unmap_pages. *)
LEMMA UnmapTurns ==
  ASSUME NEW s, NEW v, NEW n0, NEW sz, NEW free, n0 \in Nat
  PROVE  \E f : /\ f[0] = s
                /\ \A k \in 1 .. n0 : f[k] = UnmapTurn(f[k - 1], v + (k - 1) * sz, sz, Occupied(s, v), free)
                /\ unmap_pages(s, v, n0, sz, free) = f[n0]
<1> DEFINE n == n0
           z == s
           Turn(r, k) == UnmapTurn(r, v + (k - 1) * sz, sz, Occupied(s, v), free)
           Good(m, f) == f = [k \in 0 .. m |-> IF k = 0 THEN z ELSE Turn(f[k - 1], k)]
           A == {m \in 0 .. n : \E f : Good(m, f)}
<1>1. PICK g : g = CHOOSE f : Good(n, f)
  OBVIOUS
<1>2. unmap_pages(s, v, n0, sz, free) = g[n]
  BY <1>1 DEF unmap_pages, Repeat, UnmapTurn, Occupied
<1>3. n \in Nat
  OBVIOUS
<1> HIDE DEF n, z, Turn
<1>4. 0 \in A
  <2>1. PICK f : f = [k \in 0 .. 0 |-> z]
    OBVIOUS
  <2>2. Good(0, f)
    BY <2>1
  <2> QED
    BY <2>2, <1>3
<1>5. ASSUME NEW m \in 1 .. n, m - 1 \in A
      PROVE  m \in A
  <2>1. PICK f : Good(m - 1, f)
    BY <1>5
  <2>2. PICK h : h = [k \in 0 .. m |-> IF k = m THEN Turn(f[m - 1], m) ELSE f[k]]
    OBVIOUS
  <2>3. ASSUME NEW k \in 0 .. m
        PROVE  h[k] = IF k = 0 THEN z ELSE Turn(h[k - 1], k)
    BY <1>3, <2>1, <2>2
  <2>4. Good(m, h)
    BY <2>2, <2>3
  <2> QED
    BY <2>4
<1>6. n \in A
  <2> HIDE DEF A
  <2> QED
    BY <1>3, <1>4, <1>5, Climb
<1>7. Good(n, g)
  BY <1>1, <1>6
<1>8. g[0] = z /\ \A k \in 1 .. n : g[k] = Turn(g[k - 1], k)
  BY <1>3, <1>7
<1> QED
  BY <1>2, <1>8 DEF n, z, Turn

(* The turns of map_pages_at_vaddr. *)
LEMMA MapTurns ==
  ASSUME NEW s, NEW caps, NEW cookies, NEW v, NEW sz, NEW mem, Len(caps) \in Nat
  PROVE  \E f : /\ f[0] = [s EXCEPT !.err = FALSE]
                /\ \A k \in 1 .. Len(caps) : f[k] = MapOne(f[k - 1], caps[k], cookies, v + (k - 1) * sz, sz, mem)
                /\ map_pages_at_vaddr(s, caps, cookies, v, sz, mem) = f[Len(caps)]
<1> DEFINE n == Len(caps)
           z == [s EXCEPT !.err = FALSE]
           Turn(r, k) == MapOne(r, caps[k], cookies, v + (k - 1) * sz, sz, mem)
           Good(m, f) == f = [k \in 0 .. m |-> IF k = 0 THEN z ELSE Turn(f[k - 1], k)]
           A == {m \in 0 .. n : \E f : Good(m, f)}
<1>1. PICK g : g = CHOOSE f : Good(n, f)
  OBVIOUS
<1>2. map_pages_at_vaddr(s, caps, cookies, v, sz, mem) = g[n]
  BY <1>1 DEF map_pages_at_vaddr, Repeat
<1>3. n \in Nat
  OBVIOUS
<1> HIDE DEF n, z, Turn
<1>4. 0 \in A
  <2>1. PICK f : f = [k \in 0 .. 0 |-> z]
    OBVIOUS
  <2>2. Good(0, f)
    BY <2>1
  <2> QED
    BY <2>2, <1>3
<1>5. ASSUME NEW m \in 1 .. n, m - 1 \in A
      PROVE  m \in A
  <2>1. PICK f : Good(m - 1, f)
    BY <1>5
  <2>2. PICK h : h = [k \in 0 .. m |-> IF k = m THEN Turn(f[m - 1], m) ELSE f[k]]
    OBVIOUS
  <2>3. ASSUME NEW k \in 0 .. m
        PROVE  h[k] = IF k = 0 THEN z ELSE Turn(h[k - 1], k)
    BY <1>3, <2>1, <2>2
  <2>4. Good(m, h)
    BY <2>2, <2>3
  <2> QED
    BY <2>4
<1>6. n \in A
  <2> HIDE DEF A
  <2> QED
    BY <1>3, <1>4, <1>5, Climb
<1>7. Good(n, g)
  BY <1>1, <1>6
<1>8. g[0] = z /\ \A k \in 1 .. n : g[k] = Turn(g[k - 1], k)
  BY <1>3, <1>7
<1> QED
  BY <1>2, <1>8 DEF n, z, Turn

-----------------------------------------------------------------------------
(* Reserving and clearing entries                                          *)

(* What reserving the pages X does: some entries, or without an error all  *)
(* of them, become reserved, and only free ones do if preserve says so.    *)
ReserveEffect(s, t, X, preserve) ==
  /\ t \in States /\ SameKernel(s, t) /\ t.levels <= s.levels
  /\ \A p \in Pages :
       \/ SameEntry(s, t, p)
       \/ /\ p \in X /\ Entry(t, p) = RESERVED /\ get_cookie(t, p) = 0
          /\ Entry(s, p) # RESERVED /\ (preserve => Entry(s, p) = EMPTY)
  /\ ~ t.err => \A p \in X : Entry(t, p) = RESERVED

(* What clearing the pages X does. *)
ClearEffect(s, t, X, only) ==
  /\ t \in States /\ SameKernel(s, t) /\ t.levels = s.levels
  /\ \A p \in Pages :
       \/ SameEntry(s, t, p)
       \/ /\ p \in X /\ Entry(t, p) = EMPTY /\ get_cookie(t, p) = 0
          /\ only => Entry(s, p) = RESERVED

(* The pages reserved in one level. *)
LEMMA ReservePartEffect ==
  ASSUME NEW s \in States, NEW i \in Tables, NEW X \in SUBSET PagesOf(i),
         NEW preserve \in BOOLEAN, NEW t, t = reserve_entries_part(s, i, X, preserve)
  PROVE  /\ ReserveEffect(s, t, X, preserve) /\ (s.err => t.err)
         /\ ~ s.err /\ ~ preserve /\ X # {} /\ (\A p \in X : Entry(s, p) \in Caps) => ~ t.err
<1> DEFINE b == IF s.top[i] = "table" THEN s ELSE create_bottom_level(s, i, EMPTY)
           refused(r) == {p \in X : r.cap[p] = RESERVED \/ (r.cap[p] # EMPTY /\ preserve)}
<1>1. X \subseteq Pages /\ \A p \in X : INDEX(p) = i
  BY TablesCover, LevelOf
<1>2. CASE s.err
  BY <1>2 DEF reserve_entries_part, ReserveEffect, SameKernel, SameEntry, States
<1>3. CASE ~ s.err /\ s.top[i] = "reserved"
  <2>1. t = [s EXCEPT !.err = TRUE]
    BY <1>3 DEF reserve_entries_part
  <2>2. t \in States /\ SameKernel(s, t) /\ t.levels = s.levels /\ t.err
        /\ \A p \in Pages : SameEntry(s, t, p)
    BY <2>1 DEF States, SameKernel, SameEntry, Entry, get_cookie
  <2>3. \A p \in X : Entry(s, p) \notin Caps
    BY <1>1, <1>3 DEF Entry, Caps, RESERVED
  <2> QED
    BY <2>2, <2>3 DEF ReserveEffect, States
<1>4. CASE ~ s.err /\ s.top[i] = "empty" /\ X = PagesOf(i)
  <2>1. t = [s EXCEPT !.top[i] = "reserved"]
    BY <1>4 DEF reserve_entries_part
  <2>2. /\ t \in States /\ SameKernel(s, t) /\ t.levels = s.levels
        /\ t.err = s.err
        /\ \A p \in Pages \ PagesOf(i) : SameEntry(s, t, p)
        /\ \A p \in PagesOf(i) : Entry(s, p) = EMPTY /\ Entry(t, p) = RESERVED
                                 /\ get_cookie(t, p) = 0
    BY <1>4, <2>1, ReserveWholeEffect
  <2>3. s.levels \in Nat
    BY DEF States
  <2> QED
    BY <1>4, <2>2, <2>3 DEF ReserveEffect, RESERVED, EMPTY
<1>5. CASE ~ s.err /\ s.top[i] # "reserved" /\ ~ (s.top[i] = "empty" /\ X = PagesOf(i))
  <2>1. t = IF b.err THEN b ELSE WriteBottom(b, X, refused(b), RESERVED, 0)
    BY <1>5 DEF reserve_entries_part
  <2>2. /\ b \in States /\ SameKernel(s, b) /\ b.levels <= s.levels
        /\ \A p \in Pages : SameEntry(s, b, p)
        /\ s.top[i] = "table" => b = s
        /\ ~ b.err => b.top[i] = "table"
    <3>1. CASE s.top[i] = "table"
      BY <3>1 DEF SameKernel, SameEntry, States
    <3>2. CASE s.top[i] = "empty"
      <4>1. b = create_bottom_level(s, i, EMPTY)
        BY <3>2
      <4> HIDE DEF b
      <4>2. /\ b \in States /\ SameKernel(s, b)
            /\ \A p \in Pages : SameEntry(s, b, p)
            /\ b.err => b.levels = 0 /\ s.levels = 0
            /\ ~ b.err => b.top[i] = "table" /\ b.levels <= s.levels
        BY <1>5, <3>2, <4>1, CreateBottomLevelEffect
      <4>3. s.levels \in Nat /\ b.levels \in Nat /\ b.err \in BOOLEAN
        BY <4>2 DEF States
      <4> QED
        BY <3>2, <4>2, <4>3
    <3> QED
      BY <1>5, <3>1, <3>2 DEF States
  <2>3. CASE b.err
    <3>1. t = b
      BY <2>1, <2>3
    <3>2. ASSUME X # {}, \A p \in X : Entry(s, p) \in Caps
          PROVE  FALSE
      <4>1. PICK p \in X : Entry(s, p) \in Caps
        BY <3>2
      <4>2. s.top[i] = "table"
        BY <1>1, <1>5, <4>1 DEF Entry, Caps, EMPTY, States
      <4> QED
        BY <1>5, <2>2, <2>3, <4>2
    <3> QED
      BY <2>2, <2>3, <3>1, <3>2 DEF ReserveEffect
  <2>4. CASE ~ b.err
    <3>1. t = WriteBottom(b, X, refused(b), RESERVED, 0) /\ b.top[i] = "table"
      BY <2>1, <2>2, <2>4
    <3> HIDE DEF b
    <3>2. PICK R : R = refused(b)
      OBVIOUS
    <3>3. R \in SUBSET X
      BY <3>2
    <3>4. /\ t \in States /\ SameKernel(b, t) /\ t.levels = b.levels
          /\ t.err = (Accepted(X, R) # X)
          /\ \A p \in Accepted(X, R) : Entry(t, p) = RESERVED /\ get_cookie(t, p) = 0
          /\ \A p \in Pages \ Accepted(X, R) : SameEntry(b, t, p)
      <4>1. t = WriteBottom(b, X, R, RESERVED, 0)
        BY <3>1, <3>2
      <4>2. RESERVED \in EntryValues /\ 0 \in Nat /\ InLevel(X, R, i)
        BY <3>3 DEF EntryValues, InLevel
      <4> HIDE DEF refused
      <4> QED
        BY <2>2, <3>1, <3>3, <4>1, <4>2, WriteBottomEffect
    <3>5. \A p \in X : Entry(b, p) = b.cap[p] /\ Entry(s, p) = Entry(b, p)
      BY <1>1, <2>2, <3>1 DEF Entry, SameEntry
    <3>6. ASSUME NEW p \in Accepted(X, R)
          PROVE  p \in X /\ Entry(s, p) # RESERVED /\ (preserve => Entry(s, p) = EMPTY)
      <4>1. p \in X /\ p \notin R
        BY <1>1, TablesCover DEF Accepted
      <4> QED
        BY <3>2, <3>5, <4>1
    <3>7. ASSUME NEW p \in Pages \ Accepted(X, R)
          PROVE  SameEntry(s, t, p)
      BY <2>2, <3>4 DEF SameEntry
    <3>8. ASSUME ~ preserve, \A p \in X : Entry(s, p) \in Caps
          PROVE  ~ t.err
      <4>1. R = {}
        BY <3>2, <3>5, <3>8 DEF RESERVED, Caps
      <4>2. Accepted(X, R) = X
        BY <4>1 DEF Accepted
      <4> QED
        BY <3>4, <4>2
    <3>9. SameKernel(s, t) /\ t.levels <= s.levels
      BY <2>2, <3>4 DEF SameKernel
    <3>10. ~ t.err => \A p \in X : Entry(t, p) = RESERVED
      BY <3>4
    <3>11. \A p \in Pages :
             \/ SameEntry(s, t, p)
             \/ /\ p \in X /\ Entry(t, p) = RESERVED /\ get_cookie(t, p) = 0
                /\ Entry(s, p) # RESERVED /\ (preserve => Entry(s, p) = EMPTY)
      BY <3>4, <3>6, <3>7
    <3> QED
      BY <1>5, <3>4, <3>8, <3>9, <3>10, <3>11 DEF ReserveEffect
  <2> QED
    BY <2>3, <2>4
<1> QED
  BY <1>2, <1>3, <1>4, <1>5

(* One part reserved after another. *)
LEMMA ReserveCompose ==
  ASSUME NEW s, NEW t, NEW u, NEW X, NEW Y, NEW preserve,
         ReserveEffect(s, t, X, preserve), ReserveEffect(t, u, Y, preserve),
         t.err => u.err, s \in States, X \subseteq Pages
  PROVE  ReserveEffect(s, u, X \cup Y, preserve)
<1>1. SameKernel(s, u) /\ u.levels <= s.levels
  BY DEF ReserveEffect, SameKernel, States
<1>2. ASSUME NEW p \in Pages
      PROVE  \/ SameEntry(s, u, p)
             \/ /\ p \in X \cup Y /\ Entry(u, p) = RESERVED /\ get_cookie(u, p) = 0
                /\ Entry(s, p) # RESERVED /\ (preserve => Entry(s, p) = EMPTY)
  BY DEF ReserveEffect, SameEntry
<1>3. ASSUME ~ u.err
      PROVE  \A p \in X \cup Y : Entry(u, p) = RESERVED
  BY <1>3 DEF ReserveEffect, SameEntry
<1> QED
  BY <1>1, <1>2, <1>3 DEF ReserveEffect

(* The pages cleared in one level. *)
LEMMA ClearPartEffect ==
  ASSUME NEW s \in States, NEW i \in Tables, NEW X \in SUBSET PagesOf(i),
         NEW only \in BOOLEAN, NEW t, t = clear_entries_part(s, i, X, only)
  PROVE  /\ ClearEffect(s, t, X, only) /\ (s.err => t.err)
         /\ ~ s.err /\ ~ only /\ X # {} /\ (\A p \in X : Entry(s, p) # RESERVED) =>
              \A p \in X : Entry(t, p) = EMPTY
<1> DEFINE refused == {p \in X : s.cap[p] # RESERVED /\ only}
<1>1. X \subseteq Pages /\ \A p \in X : INDEX(p) = i
  BY TablesCover, LevelOf
<1>2. CASE s.err \/ s.top[i] = "empty"
  <2>1. t = s
    BY <1>2 DEF clear_entries_part
  <2>2. s.top[i] = "empty" => \A p \in X : Entry(s, p) = EMPTY
    BY <1>1 DEF Entry
  <2> QED
    BY <1>2, <2>1, <2>2 DEF ClearEffect, SameKernel, SameEntry
<1>3. CASE ~ s.err /\ s.top[i] = "reserved"
  <2>1. t = [s EXCEPT !.err = TRUE]
    BY <1>3 DEF clear_entries_part
  <2>2. t \in States /\ SameKernel(s, t) /\ t.levels = s.levels /\ t.err
        /\ \A p \in Pages : SameEntry(s, t, p)
    BY <2>1 DEF States, SameKernel, SameEntry, Entry, get_cookie
  <2>3. \A p \in X : Entry(s, p) = RESERVED
    BY <1>1, <1>3 DEF Entry
  <2> QED
    BY <2>2, <2>3 DEF ClearEffect
<1>4. CASE ~ s.err /\ s.top[i] = "table"
  <2>1. t = WriteBottom(s, X, refused, EMPTY, 0)
    BY <1>4 DEF clear_entries_part
  <2>2. PICK R : R = refused
    OBVIOUS
  <2>3. R \in SUBSET X /\ t = WriteBottom(s, X, R, EMPTY, 0)
    BY <2>1, <2>2
  <2>4. EMPTY \in EntryValues /\ 0 \in Nat /\ InLevel(X, R, i)
    BY <2>3 DEF EntryValues, InLevel
  <2> HIDE DEF refused
  <2>5. /\ t \in States /\ SameKernel(s, t) /\ t.levels = s.levels
        /\ t.err = (Accepted(X, R) # X)
        /\ \A p \in Accepted(X, R) : Entry(t, p) = EMPTY /\ get_cookie(t, p) = 0
        /\ \A p \in Pages \ Accepted(X, R) : SameEntry(s, t, p)
    BY <1>4, <2>3, <2>4, WriteBottomEffect
  <2>6. ASSUME NEW p \in Accepted(X, R)
        PROVE  p \in X /\ (only => Entry(s, p) = RESERVED)
    <3>1. p \in X /\ p \notin R /\ p \in Pages
      BY <1>1, TablesCover DEF Accepted
    <3> QED
      BY <1>1, <1>4, <2>2, <3>1 DEF Entry, refused
  <2>7. ASSUME ~ only
        PROVE  \A p \in X : Entry(t, p) = EMPTY
    <3>1. R = {}
      BY <2>2, <2>7 DEF refused
    <3>2. Accepted(X, R) = X
      BY <3>1 DEF Accepted
    <3> QED
      BY <2>5, <3>2
  <2> QED
    BY <1>4, <2>5, <2>6, <2>7 DEF ClearEffect
<1> QED
  BY <1>2, <1>3, <1>4 DEF States

(* One part cleared after another. *)
LEMMA ClearCompose ==
  ASSUME NEW s, NEW t, NEW u, NEW X, NEW Y, NEW only,
         ClearEffect(s, t, X, only), ClearEffect(t, u, Y, only)
  PROVE  ClearEffect(s, u, X \cup Y, only)
<1>1. SameKernel(s, u) /\ u.levels = s.levels
  BY DEF ClearEffect, SameKernel
<1>2. ASSUME NEW p \in Pages
      PROVE  \/ SameEntry(s, u, p)
             \/ /\ p \in X \cup Y /\ Entry(u, p) = EMPTY /\ get_cookie(u, p) = 0
                /\ only => Entry(s, p) = RESERVED
  BY DEF ClearEffect, SameEntry
<1> QED
  BY <1>1, <1>2 DEF ClearEffect

(* The parts of a range are those of the levels it meets. *)
LEMMA PartsOfRange ==
  ASSUME NEW a \in Nat, NEW b \in Nat, a < b, b <= NumPages
  PROVE  /\ Entries(a, b) \in Nat /\ Entries(a, b) >= 1
         /\ INDEX(b - 1) \in Nat /\ INDEX(a) \in Nat /\ a .. b - 1 \subseteq Pages
         /\ \A k \in 1 .. Entries(a, b) :
              /\ INDEX(a) + k - 1 \in Tables
              /\ PartOf(INDEX(a) + k - 1, a, b) \subseteq PagesOf(INDEX(a) + k - 1)
              /\ PartOf(INDEX(a) + k - 1, a, b) = {p \in a .. b - 1 : INDEX(p) = INDEX(a) + k - 1}
         /\ \A p \in a .. b - 1 : INDEX(a) <= INDEX(p) /\ INDEX(p) < INDEX(a) + Entries(a, b)
<1>1. a .. b - 1 \subseteq Pages /\ a .. b - 1 \subseteq Nat /\ b - 1 \in a .. b - 1
  BY Constants DEF Pages
<1>2. /\ INDEX(a) \in Nat /\ INDEX(b - 1) \in Nat
      /\ \A p \in a .. b - 1 : INDEX(p) \in Nat /\ INDEX(a) <= INDEX(p) /\ INDEX(p) <= INDEX(b - 1)
  BY <1>1, IndexOf, IndexOrder
<1>3. INDEX(b - 1) \in Tables
  BY <1>1, TablesCover
<1>4. \A i \in 0 .. INDEX(b - 1) : i \in Tables
  <2>1. PICK j \in Tables : j = INDEX(b - 1)
    BY <1>3
  <2>2. NumPages \div LevelSize \in Int
    BY Constants
  <2> QED
    BY <2>1, <2>2 DEF Tables
<1>5. Entries(a, b) = INDEX(b - 1) - INDEX(a) + 1 /\ INDEX(a) <= INDEX(b - 1)
  BY <1>1, <1>2 DEF Entries
<1>6. ASSUME NEW k \in 1 .. Entries(a, b)
      PROVE  /\ INDEX(a) + k - 1 \in Tables
             /\ PartOf(INDEX(a) + k - 1, a, b) \subseteq PagesOf(INDEX(a) + k - 1)
             /\ PartOf(INDEX(a) + k - 1, a, b) = {p \in a .. b - 1 : INDEX(p) = INDEX(a) + k - 1}
  <2>1. INDEX(a) + k - 1 \in 0 .. INDEX(b - 1)
    BY <1>2, <1>5
  <2>2. PICK i \in Nat : i = INDEX(a) + k - 1
    BY <2>1
  <2>3. PagesOf(i) = {q \in Nat : INDEX(q) = i}
    BY LevelOf
  <2> QED
    BY <1>1, <1>4, <2>1, <2>2, <2>3 DEF PartOf
<1> QED
  BY <1>1, <1>2, <1>5, <1>6

(* The pages of a range in its first k levels. *)
Below(a, b, k) == {p \in a .. b - 1 : INDEX(p) < INDEX(a) + k}

(* They grow by a part with every level. *)
LEMMA BelowGrows ==
  ASSUME NEW a \in Nat, NEW b \in Nat, a < b, b <= NumPages
  PROVE  /\ Below(a, b, 0) = {} /\ Below(a, b, Entries(a, b)) = a .. b - 1
         /\ \A k \in 1 .. Entries(a, b) :
              /\ Below(a, b, k) = Below(a, b, k - 1) \cup PartOf(INDEX(a) + k - 1, a, b)
              /\ Below(a, b, k - 1) \subseteq Pages
<1>1. /\ Entries(a, b) \in Nat /\ INDEX(a) \in Nat /\ a .. b - 1 \subseteq Pages
      /\ \A k \in 1 .. Entries(a, b) :
           PartOf(INDEX(a) + k - 1, a, b) = {p \in a .. b - 1 : INDEX(p) = INDEX(a) + k - 1}
      /\ \A p \in a .. b - 1 : INDEX(a) <= INDEX(p) /\ INDEX(p) < INDEX(a) + Entries(a, b)
  BY PartsOfRange
<1>2. \A p \in a .. b - 1 : INDEX(p) \in Int
  BY <1>1, TablesCover, IndexOf
<1>3. Below(a, b, 0) = {} /\ Below(a, b, Entries(a, b)) = a .. b - 1
  BY <1>1, <1>2 DEF Below
<1>4. ASSUME NEW k \in 1 .. Entries(a, b)
      PROVE  /\ Below(a, b, k) = Below(a, b, k - 1) \cup PartOf(INDEX(a) + k - 1, a, b)
             /\ Below(a, b, k - 1) \subseteq Pages
  <2>1. PICK P : P = PartOf(INDEX(a) + k - 1, a, b)
    OBVIOUS
  <2>2. P = {p \in a .. b - 1 : INDEX(p) = INDEX(a) + k - 1}
    BY <1>1, <2>1
  <2>3. ASSUME NEW p \in a .. b - 1
        PROVE  INDEX(p) < INDEX(a) + k <=>
                 INDEX(p) < INDEX(a) + (k - 1) \/ INDEX(p) = INDEX(a) + k - 1
    BY <1>1, <1>2
  <2> QED
    BY <1>1, <2>1, <2>2, <2>3 DEF Below
<1> QED
  BY <1>3, <1>4

(* Reserving a range. *)
LEMMA ReserveRangeEffect ==
  ASSUME NEW s \in States, NEW a \in Nat, NEW b \in Nat, a < b, b <= NumPages,
         NEW preserve \in BOOLEAN, NEW t, t = reserve_entries_range(s, a, b, preserve)
  PROVE  ReserveEffect(s, t, a .. b - 1, preserve)
<1> DEFINE n == Entries(a, b)
           Part(k) == PartOf(INDEX(a) + k - 1, a, b)
           X(k) == Below(a, b, k)
<1>1. n \in Nat /\ INDEX(a) \in Nat /\ a .. b - 1 \subseteq Pages
      /\ \A k \in 1 .. n : /\ INDEX(a) + k - 1 \in Tables
                           /\ Part(k) \subseteq PagesOf(INDEX(a) + k - 1)
                           /\ Part(k) = {p \in a .. b - 1 : INDEX(p) = INDEX(a) + k - 1}
      /\ \A p \in a .. b - 1 : INDEX(a) <= INDEX(p) /\ INDEX(p) < INDEX(a) + n
  BY PartsOfRange
<1>2. PICK f : /\ f[0] = [s EXCEPT !.err = FALSE]
               /\ \A k \in 1 .. n : f[k] = reserve_entries_part(f[k - 1], INDEX(a) + k - 1,
                                             Part(k), preserve)
               /\ t = f[n]
  BY <1>1, ReserveTurns
<1>3. /\ X(0) = {} /\ X(n) = a .. b - 1
      /\ \A k \in 1 .. n : X(k) = X(k - 1) \cup Part(k) /\ X(k - 1) \subseteq Pages
  BY BelowGrows
<1> HIDE DEF n, Part, X
<1> DEFINE A == {k \in 0 .. n : ReserveEffect(s, f[k], X(k), preserve)}
<1>4. 0 \in A
  <2>1. f[0] \in States /\ SameKernel(s, f[0]) /\ f[0].levels = s.levels
        /\ \A p \in Pages : SameEntry(s, f[0], p)
    BY <1>2 DEF States, SameKernel, SameEntry, Entry, get_cookie
  <2>2. X(0) = {}
    BY <1>3
  <2>3. s.levels \in Nat
    BY DEF States
  <2> QED
    BY <1>1, <2>1, <2>2, <2>3 DEF ReserveEffect
<1>5. ASSUME NEW k \in 1 .. n, k - 1 \in A
      PROVE  k \in A
  <2>1. ReserveEffect(s, f[k - 1], X(k - 1), preserve) /\ f[k - 1] \in States
    BY <1>5 DEF ReserveEffect
  <2>2. ReserveEffect(f[k - 1], f[k], Part(k), preserve) /\ (f[k - 1].err => f[k].err)
    <3>1. PICK i \in Tables : i = INDEX(a) + k - 1
      BY <1>1
    <3>2. PICK P \in SUBSET PagesOf(i) : P = Part(k)
      BY <1>1, <3>1
    <3>3. f[k] = reserve_entries_part(f[k - 1], i, P, preserve)
      BY <1>2, <3>1, <3>2
    <3> QED
      BY <2>1, <3>2, <3>3, ReservePartEffect
  <2>3. X(k) = X(k - 1) \cup Part(k) /\ X(k - 1) \subseteq Pages
    BY <1>3, <1>5
  <2>4. ReserveEffect(s, f[k], X(k - 1) \cup Part(k), preserve)
    BY <2>1, <2>2, <2>3, ReserveCompose
  <2>5. k \in 0 .. n
    BY <1>1, <1>5
  <2> QED
    BY <2>3, <2>4, <2>5
<1>6. n \in A
  <2> HIDE DEF A
  <2> QED
    BY <1>1, <1>4, <1>5, Climb
<1>7. X(n) = a .. b - 1
  BY <1>3
<1> QED
  BY <1>2, <1>6, <1>7

(* Clearing a range; only where the next search starts may change besides. *)
LEMMA ClearRangeEffect ==
  ASSUME NEW s \in States, NEW a \in Nat, NEW b \in Nat, a < b, b <= NumPages,
         NEW only \in BOOLEAN, NEW t, t = clear_entries_range(s, a, b, only)
  PROVE  ClearEffect(s, t, a .. b - 1, only)
<1> DEFINE n == Entries(a, b)
           Part(k) == PartOf(INDEX(a) + k - 1, a, b)
           X(k) == Below(a, b, k)
<1>1. n \in Nat /\ INDEX(a) \in Nat /\ a .. b - 1 \subseteq Pages
      /\ \A k \in 1 .. n : /\ INDEX(a) + k - 1 \in Tables
                           /\ Part(k) \subseteq PagesOf(INDEX(a) + k - 1)
                           /\ Part(k) = {p \in a .. b - 1 : INDEX(p) = INDEX(a) + k - 1}
      /\ \A p \in a .. b - 1 : INDEX(a) <= INDEX(p) /\ INDEX(p) < INDEX(a) + n
  BY PartsOfRange
<1>2. PICK f : /\ f[0] = [s EXCEPT !.err = FALSE]
               /\ \A k \in 1 .. n : f[k] = clear_entries_part(f[k - 1], INDEX(a) + k - 1,
                                             Part(k), only)
               /\ t = f[n] \/ t = LookedBack(f[n], a)
  BY <1>1, ClearTurns
<1>3. /\ X(0) = {} /\ X(n) = a .. b - 1
      /\ \A k \in 1 .. n : X(k) = X(k - 1) \cup Part(k) /\ X(k - 1) \subseteq Pages
  BY BelowGrows
<1> HIDE DEF n, Part, X
<1> DEFINE A == {k \in 0 .. n : ClearEffect(s, f[k], X(k), only)}
<1>4. 0 \in A
  <2>1. f[0] \in States /\ SameKernel(s, f[0]) /\ f[0].levels = s.levels
        /\ \A p \in Pages : SameEntry(s, f[0], p)
    BY <1>2 DEF States, SameKernel, SameEntry, Entry, get_cookie
  <2> QED
    BY <1>1, <2>1 DEF ClearEffect
<1>5. ASSUME NEW k \in 1 .. n, k - 1 \in A
      PROVE  k \in A
  <2>1. ClearEffect(s, f[k - 1], X(k - 1), only) /\ f[k - 1] \in States
    BY <1>5 DEF ClearEffect
  <2>2. ClearEffect(f[k - 1], f[k], Part(k), only)
    <3>1. PICK i \in Tables : i = INDEX(a) + k - 1
      BY <1>1
    <3>2. PICK P \in SUBSET PagesOf(i) : P = Part(k)
      BY <1>1, <3>1
    <3>3. f[k] = clear_entries_part(f[k - 1], i, P, only)
      BY <1>2, <3>1, <3>2
    <3> QED
      BY <2>1, <3>2, <3>3, ClearPartEffect
  <2>3. X(k) = X(k - 1) \cup Part(k)
    BY <1>3, <1>5
  <2>4. ClearEffect(s, f[k], X(k - 1) \cup Part(k), only)
    BY <2>1, <2>2, ClearCompose
  <2>5. k \in 0 .. n
    BY <1>1, <1>5
  <2> QED
    BY <2>3, <2>4, <2>5
<1>6. n \in A
  <2> HIDE DEF A
  <2> QED
    BY <1>1, <1>4, <1>5, Climb
<1>7. X(n) = a .. b - 1
  BY <1>3
<1>8. ClearEffect(s, f[n], a .. b - 1, only)
  BY <1>6, <1>7
<1>9. CASE t = LookedBack(f[n], a)
  <2>1. PICK u \in States : u = f[n]
    BY <1>8 DEF ClearEffect
  <2>2. t = [u EXCEPT !.last = a]
    BY <1>9, <2>1 DEF LookedBack
  <2>3. t \in States /\ SameKernel(u, t) /\ t.levels = u.levels
        /\ \A p \in Pages : SameEntry(u, t, p)
    BY <2>2 DEF States, SameKernel, SameEntry, Entry, get_cookie
  <2> QED
    BY <1>8, <2>1, <2>3 DEF ClearEffect, SameKernel, SameEntry
<1> QED
  BY <1>2, <1>8, <1>9

(* The pages of a frame of sz pages at p. *)
FrameAt(p, sz) == p .. p + sz - 1

(* A place for a frame: aligned, and within the address space. *)
FramePlace(p, sz) == p \in Nat /\ sz \in Sizes /\ p % sz = 0 /\ p + sz <= NumPages

(* A frame is one part of one level. *)
LEMMA FrameIsPart ==
  ASSUME NEW p \in Nat, NEW sz \in Nat, FramePlace(p, sz), NEW e \in Nat, e = p + sz
  PROVE  /\ p < e /\ e <= NumPages /\ p \in FrameAt(p, sz) /\ FrameAt(p, sz) = p .. e - 1
         /\ INDEX(p) \in Tables /\ FrameAt(p, sz) \subseteq PagesOf(INDEX(p))
         /\ FrameAt(p, sz) \subseteq Pages
         /\ Entries(p, e) = 1 /\ PartOf(INDEX(p), p, e) = FrameAt(p, sz)
         /\ \A q \in FrameAt(p, sz) : INDEX(q) = INDEX(p)
<1>1. sz \in Sizes /\ p % sz = 0 /\ e <= NumPages
  BY DEF FramePlace
<1>2. sz >= 1
  BY <1>1, Constants DEF Sizes
<1>3. p \in Pages /\ p \in FrameAt(p, sz) /\ e - 1 \in FrameAt(p, sz) /\ FrameAt(p, sz) = p .. e - 1
  BY <1>1, <1>2, Constants DEF Pages, FrameAt
<1>4. \A q \in FrameAt(p, sz) : q \in Nat /\ INDEX(q) = INDEX(p)
  BY <1>1, FrameInLevel DEF FrameAt
<1>5. PICK i \in Tables : i = INDEX(p)
  BY <1>3, TablesCover
<1>6. FrameAt(p, sz) \subseteq PagesOf(i)
  BY <1>4, <1>5, LevelOf, TablesCover
<1>7. Entries(p, e) = 1
  <2>1. INDEX(e - 1) = INDEX(p) /\ INDEX(p) \in Nat
    BY <1>1, <1>3, <1>4, IndexOf
  <2> QED
    BY <1>1, <1>2, <2>1 DEF Entries
<1>8. PartOf(INDEX(p), p, e) = FrameAt(p, sz)
  BY <1>3, <1>5, <1>6 DEF PartOf
<1>9. FrameAt(p, sz) \subseteq Pages
  BY <1>6, TablesCover
<1> QED
  BY <1>1, <1>2, <1>3, <1>4, <1>5, <1>6, <1>7, <1>8, <1>9

(* A recorded frame is reserved as a whole. *)
LEMMA ReserveFrame ==
  ASSUME NEW s \in States, NEW p \in Nat, NEW sz \in Nat, FramePlace(p, sz),
         NEW e \in Nat, e = p + sz, NEW no \in BOOLEAN, ~ no,
         \A q \in FrameAt(p, sz) : Entry(s, q) \in Caps,
         NEW t, t = reserve_entries_range(s, p, e, no)
  PROVE  \A q \in FrameAt(p, sz) : Entry(t, q) = RESERVED
<1>1. /\ p < e /\ p \in FrameAt(p, sz)
      /\ INDEX(p) \in Tables /\ FrameAt(p, sz) \subseteq PagesOf(INDEX(p))
      /\ Entries(p, e) = 1 /\ PartOf(INDEX(p), p, e) = FrameAt(p, sz)
  BY FrameIsPart
<1>2. PICK f : /\ f[0] = [s EXCEPT !.err = FALSE]
               /\ \A k \in 1 .. Entries(p, e) :
                    f[k] = reserve_entries_part(f[k - 1], INDEX(p) + k - 1,
                             PartOf(INDEX(p) + k - 1, p, e), no)
               /\ t = f[Entries(p, e)]
  <2>1. Entries(p, e) \in Nat
    BY <1>1
  <2> QED
    BY <2>1, ReserveTurns
<1>3. f[1] = reserve_entries_part(f[0], INDEX(p), FrameAt(p, sz), no)
  <2>1. INDEX(p) \in Nat
    BY IndexOf
  <2>2. f[1] = reserve_entries_part(f[1 - 1], INDEX(p) + 1 - 1, PartOf(INDEX(p) + 1 - 1, p, e), no)
    BY <1>1, <1>2, <2>1
  <2>3. INDEX(p) + 1 - 1 = INDEX(p) /\ 1 - 1 = 0
    BY <2>1
  <2> QED
    BY <1>1, <2>2, <2>3
<1>4. f[0] \in States /\ ~ f[0].err /\ \A q \in FrameAt(p, sz) : Entry(f[0], q) \in Caps
  BY <1>2 DEF States, Entry
<1>5. PICK i \in Tables : i = INDEX(p)
  BY <1>1
<1>6. PICK X \in SUBSET PagesOf(i) : X = FrameAt(p, sz)
  BY <1>1, <1>5
<1>7. PICK u : u = f[0]
  OBVIOUS
<1>8. PICK w : w = reserve_entries_part(u, i, X, no)
  OBVIOUS
<1>9. w = f[1]
  BY <1>3, <1>5, <1>6, <1>7, <1>8
<1>10. u \in States /\ ~ u.err /\ X # {} /\ \A q \in X : Entry(u, q) \in Caps
  BY <1>1, <1>4, <1>6, <1>7
<1>11. ReserveEffect(u, w, X, no) /\ ~ w.err
  BY <1>8, <1>10, ReservePartEffect
<1>12. t = w
  BY <1>1, <1>2, <1>9
<1> QED
  BY <1>6, <1>11, <1>12 DEF ReserveEffect

(* A frame is cleared as a whole unless a page of it is reserved. *)
LEMMA ClearFrame ==
  ASSUME NEW s \in States, NEW p \in Nat, NEW sz \in Nat, FramePlace(p, sz),
         NEW e \in Nat, e = p + sz, NEW no \in BOOLEAN, ~ no,
         \A q \in FrameAt(p, sz) : Entry(s, q) # RESERVED,
         NEW t, t = clear_entries_range(s, p, e, no)
  PROVE  \A q \in FrameAt(p, sz) : Entry(t, q) = EMPTY
<1>1. /\ p < e /\ p \in FrameAt(p, sz)
      /\ INDEX(p) \in Tables /\ FrameAt(p, sz) \subseteq PagesOf(INDEX(p))
      /\ Entries(p, e) = 1 /\ PartOf(INDEX(p), p, e) = FrameAt(p, sz)
  BY FrameIsPart
<1>2. PICK f : /\ f[0] = [s EXCEPT !.err = FALSE]
               /\ \A k \in 1 .. Entries(p, e) :
                    f[k] = clear_entries_part(f[k - 1], INDEX(p) + k - 1,
                             PartOf(INDEX(p) + k - 1, p, e), no)
               /\ \/ t = f[Entries(p, e)]
                  \/ t = LookedBack(f[Entries(p, e)], p)
  <2>1. Entries(p, e) \in Nat
    BY <1>1
  <2> QED
    BY <2>1, ClearTurns
<1>3. f[1] = clear_entries_part(f[0], INDEX(p), FrameAt(p, sz), no)
  <2>1. INDEX(p) \in Nat
    BY IndexOf
  <2>2. f[1] = clear_entries_part(f[1 - 1], INDEX(p) + 1 - 1, PartOf(INDEX(p) + 1 - 1, p, e), no)
    BY <1>1, <1>2, <2>1
  <2>3. INDEX(p) + 1 - 1 = INDEX(p) /\ 1 - 1 = 0
    BY <2>1
  <2> QED
    BY <1>1, <2>2, <2>3
<1>4. f[0] \in States /\ ~ f[0].err /\ \A q \in FrameAt(p, sz) : Entry(f[0], q) # RESERVED
  BY <1>2 DEF States, Entry
<1>5. PICK i \in Tables : i = INDEX(p)
  BY <1>1
<1>6. PICK X \in SUBSET PagesOf(i) : X = FrameAt(p, sz)
  BY <1>1, <1>5
<1>7. PICK u : u = f[0]
  OBVIOUS
<1>8. PICK w : w = clear_entries_part(u, i, X, no)
  OBVIOUS
<1>9. w = f[1]
  BY <1>3, <1>5, <1>6, <1>7, <1>8
<1>10. u \in States /\ ~ u.err /\ X # {} /\ \A q \in X : Entry(u, q) # RESERVED
  BY <1>1, <1>4, <1>6, <1>7
<1>11. ClearEffect(u, w, X, no) /\ \A q \in X : Entry(w, q) = EMPTY
  BY <1>8, <1>10, ClearPartEffect
<1>12. w \in States /\ (t = w \/ t = LookedBack(w, p))
  BY <1>1, <1>2, <1>9, <1>11 DEF ClearEffect
<1>13. \A q \in X : Entry(t, q) = Entry(w, q)
  BY <1>12 DEF Entry, States, LookedBack
<1> QED
  BY <1>6, <1>11, <1>13

(* What recording a frame does: all of it is recorded, or there is no      *)
(* memory for a level and no entry changes. *)
UpdateEffect(s, t, p, c, sz, k) ==
  /\ t \in States /\ SameKernel(s, t)
  /\ \A q \in Pages \ FrameAt(p, sz) : SameEntry(s, t, q)
  /\ \/ t.err /\ t.levels = 0 /\ \A q \in Pages : SameEntry(s, t, q)
     \/ /\ ~ t.err /\ t.levels <= s.levels
        /\ \A q \in FrameAt(p, sz) : Entry(t, q) = c /\ get_cookie(t, q) = k

(* A frame is recorded where the entries are free or reserved. *)
LEMMA UpdateEntriesEffect ==
  ASSUME NEW s \in States, NEW p \in Nat, NEW sz \in Nat, FramePlace(p, sz),
         NEW c \in Caps, NEW k \in Nat,
         \A q \in FrameAt(p, sz) : Entry(s, q) \in {RESERVED, EMPTY},
         NEW t, t = update_entries(s, p, c, sz, k)
  PROVE  UpdateEffect(s, t, p, c, sz, k)
<1> DEFINE z == [s EXCEPT !.err = FALSE]
           init == IF s.top[INDEX(p)] = "reserved" THEN RESERVED ELSE EMPTY
           b == IF s.top[INDEX(p)] = "table" THEN z ELSE create_bottom_level(z, INDEX(p), init)
           refused == {q \in FrameAt(p, sz) : b.cap[q] \notin {RESERVED, EMPTY}}
<1>1. /\ INDEX(p) \in Tables /\ FrameAt(p, sz) \subseteq PagesOf(INDEX(p))
      /\ FrameAt(p, sz) \subseteq Pages /\ \A q \in FrameAt(p, sz) : INDEX(q) = INDEX(p)
  <2>1. PICK e \in Nat : e = p + sz
    OBVIOUS
  <2> QED
    BY <2>1, FrameIsPart
<1>2. t = IF b.err THEN b ELSE WriteBottom(b, FrameAt(p, sz), refused, c, k)
  BY DEF update_entries, FrameAt
<1>3. z \in States /\ SameKernel(s, z) /\ z.levels = s.levels /\ z.top = s.top /\ ~ z.err
      /\ \A q \in Pages : SameEntry(s, z, q)
  BY DEF States, SameKernel, SameEntry, Entry, get_cookie
<1>4. /\ b \in States /\ SameKernel(s, b)
      /\ \A q \in Pages : SameEntry(s, b, q)
      /\ b.err => b.levels = 0
      /\ ~ b.err => b.top[INDEX(p)] = "table" /\ b.levels <= s.levels
  <2>1. CASE s.top[INDEX(p)] = "table"
    <3>1. b = z /\ s.levels <= s.levels
      BY <2>1 DEF States
    <3> HIDE DEF b, z
    <3> QED
      BY <1>3, <2>1, <3>1
  <2>2. CASE s.top[INDEX(p)] # "table"
    <3>1. b = create_bottom_level(z, INDEX(p), init)
      BY <2>2
    <3>2. /\ init \in {RESERVED, EMPTY}
          /\ \/ z.top[INDEX(p)] = "empty" /\ init = EMPTY
             \/ z.top[INDEX(p)] = "reserved" /\ init = RESERVED
      BY <1>1, <1>3, <2>2 DEF States
    <3> HIDE DEF b, init, z
    <3>3. /\ b \in States /\ SameKernel(z, b)
          /\ \A q \in Pages : SameEntry(z, b, q)
          /\ b.err => b.levels = 0
          /\ ~ b.err => b.top[INDEX(p)] = "table" /\ b.levels <= z.levels
      BY <1>1, <1>3, <3>1, <3>2, CreateBottomLevelEffect
    <3> QED
      BY <1>3, <3>3 DEF SameKernel, SameEntry
  <2> QED
    BY <2>1, <2>2
<1> HIDE DEF b
<1>5. CASE b.err
  <2>1. t = b
    BY <1>2, <1>5
  <2> QED
    BY <1>4, <1>5, <2>1 DEF UpdateEffect
<1>6. CASE ~ b.err
  <2>1. refused = {}
    <3>1. \A q \in FrameAt(p, sz) : Entry(b, q) = b.cap[q] /\ Entry(s, q) = Entry(b, q)
      BY <1>1, <1>4, <1>6 DEF Entry, SameEntry
    <3> QED
      BY <3>1
  <2>2. t = WriteBottom(b, FrameAt(p, sz), {}, c, k)
    BY <1>2, <1>6, <2>1
  <2>3. Accepted(FrameAt(p, sz), {}) = FrameAt(p, sz)
    BY DEF Accepted
  <2>4. InLevel(FrameAt(p, sz), {}, INDEX(p)) /\ c \in EntryValues
    BY <1>1 DEF InLevel, EntryValues
  <2>5. /\ t \in States /\ SameKernel(b, t) /\ t.levels = b.levels
        /\ t.err = (Accepted(FrameAt(p, sz), {}) # FrameAt(p, sz))
        /\ \A q \in Accepted(FrameAt(p, sz), {}) : Entry(t, q) = c /\ get_cookie(t, q) = k
        /\ \A q \in Pages \ Accepted(FrameAt(p, sz), {}) : SameEntry(b, t, q)
    BY <1>1, <1>4, <1>6, <2>2, <2>4, WriteBottomEffect
  <2> QED
    BY <1>4, <1>6, <2>3, <2>5 DEF UpdateEffect, SameKernel, SameEntry
<1> QED
  BY <1>5, <1>6

-----------------------------------------------------------------------------
(* The invariant of a state                                                *)

(* No page has two frames in the kernel. *)
Exclusive(s) ==
  \A c, d \in Caps : \A p \in Pages : MapsPage(s, c, p) /\ MapsPage(s, d, p) => c = d

(* A mapped frame has a slot, and lies in the address space but not in     *)
(* sys, the pages that the bootstrap reserved.                             *)
FramesPlaced(s, sys) ==
  \A c \in Caps : s.at[c] # NOWHERE =>
    /\ s.slot[c] \in {"frame", "copy"}
    /\ \A p \in FrameAt(s.at[c], s.size[c]) : p \in Pages /\ p \notin sys

(* A capability that the tables record is mapped there, and recorded at    *)
(* every page of its frame.                                                *)
RecordsMapped(s) ==
  \A p \in Pages : \A c \in Caps : Entry(s, p) = c =>
    /\ MapsPage(s, c, p) /\ get_cookie(s, p) \in {0, c}
    /\ \A q \in FrameAt(s.at[c], s.size[c]) : Entry(s, q) = c

(* Reservations keep apart from each other and from sys, and none of their *)
(* pages is free.                                                          *)
ReservationsKept(s, sys) ==
  \A r \in s.res :
    /\ r.start < r.end /\ r.end <= KernelStart
    /\ \A q \in s.res : q = r \/ q.end <= r.start \/ r.end <= q.start
    /\ \A p \in r.start .. r.end - 1 : Entry(s, p) # EMPTY /\ p \notin sys

(* The pages of the system stay reserved. *)
SysReserved(s, sys) == \A p \in Pages : p \in sys => Entry(s, p) = RESERVED

(* A state between two calls. *)
Sound(s, sys) ==
  /\ s \in States /\ Exclusive(s) /\ FramesPlaced(s, sys) /\ RecordsMapped(s)
  /\ ReservationsKept(s, sys) /\ SysReserved(s, sys)

(* Everything that Sound tells apart is the same. *)
SameAll(s, t) ==
  /\ t \in States /\ t.slot = s.slot /\ t.at = s.at /\ t.size = s.size /\ t.res = s.res
  /\ \A p \in Pages : SameEntry(s, t, p)

(* The pages of reservations are pages. *)
LEMMA ReservedArePages ==
  ASSUME NEW s, NEW sys, s \in States, ReservationsKept(s, sys), NEW r \in s.res,
         NEW p \in r.start .. r.end - 1
  PROVE  p \in Pages
<1>1. r.start \in Nat /\ r.end \in Nat /\ r.end <= KernelStart
  BY DEF States, Reservations, ReservationsKept
<1> QED
  BY <1>1, Constants DEF Pages

(* Sound depends on nothing else. *)
LEMMA SoundSame ==
  ASSUME NEW s, NEW sys, Sound(s, sys), NEW t, SameAll(s, t)
  PROVE  Sound(t, sys)
<1>1. /\ t \in States /\ t.slot = s.slot /\ t.at = s.at /\ t.size = s.size /\ t.res = s.res
      /\ \A p \in Pages : Entry(t, p) = Entry(s, p) /\ get_cookie(t, p) = get_cookie(s, p)
  BY DEF SameAll, SameEntry
<1>2. \A c, p : MapsPage(t, c, p) <=> MapsPage(s, c, p)
  BY <1>1 DEF MapsPage
<1>3. Exclusive(t)
  BY <1>2 DEF Exclusive, Sound
<1>4. FramesPlaced(t, sys)
  BY <1>1 DEF FramesPlaced, Sound
<1>5. RecordsMapped(t)
  <2>1. ASSUME NEW p \in Pages, NEW c \in Caps, Entry(t, p) = c
        PROVE  /\ MapsPage(t, c, p) /\ get_cookie(t, p) \in {0, c}
               /\ \A q \in FrameAt(t.at[c], t.size[c]) : Entry(t, q) = c
    <3>1. Entry(s, p) = c
      BY <1>1, <2>1
    <3>2. MapsPage(s, c, p) /\ get_cookie(s, p) \in {0, c}
          /\ \A q \in FrameAt(s.at[c], s.size[c]) : Entry(s, q) = c
      BY <3>1 DEF RecordsMapped, Sound
    <3>3. \A q \in FrameAt(s.at[c], s.size[c]) : q \in Pages
      BY <3>2 DEF FramesPlaced, Sound, MapsPage
    <3> QED
      BY <1>1, <1>2, <3>2, <3>3
  <2> QED
    BY <2>1 DEF RecordsMapped
<1>6. ReservationsKept(t, sys)
  <2>1. \A r \in s.res : \A p \in r.start .. r.end - 1 : p \in Pages
    BY ReservedArePages DEF Sound
  <2> QED
    BY <1>1, <2>1 DEF ReservationsKept, Sound
<1>7. SysReserved(t, sys)
  BY <1>1 DEF SysReserved, Sound
<1> QED
  BY <1>1, <1>3, <1>4, <1>5, <1>6, <1>7 DEF Sound

(* The kernel's part stays, and no record disappears or appears. *)
LEMMA SoundTables ==
  ASSUME NEW s, NEW sys, Sound(s, sys), NEW t \in States,
         t.slot = s.slot, t.at = s.at, t.size = s.size,
         \A p \in Pages : SameEntry(s, t, p) \/ (Entry(s, p) \notin Caps /\ Entry(t, p) \notin Caps),
         ReservationsKept(t, sys), SysReserved(t, sys)
  PROVE  Sound(t, sys)
<1>1. \A c, p : MapsPage(t, c, p) <=> MapsPage(s, c, p)
  BY DEF MapsPage
<1>2. Exclusive(t)
  BY <1>1 DEF Exclusive, Sound
<1>3. FramesPlaced(t, sys)
  BY DEF FramesPlaced, Sound
<1>4. RecordsMapped(t)
  <2>1. ASSUME NEW p \in Pages, NEW c \in Caps, Entry(t, p) = c
        PROVE  /\ MapsPage(t, c, p) /\ get_cookie(t, p) \in {0, c}
               /\ \A q \in FrameAt(t.at[c], t.size[c]) : Entry(t, q) = c
    <3>1. Entry(s, p) = c /\ get_cookie(t, p) = get_cookie(s, p)
      BY <2>1 DEF SameEntry
    <3>2. MapsPage(s, c, p) /\ get_cookie(s, p) \in {0, c}
          /\ \A q \in FrameAt(s.at[c], s.size[c]) : Entry(s, q) = c
      BY <3>1 DEF RecordsMapped, Sound
    <3>3. \A q \in FrameAt(s.at[c], s.size[c]) : q \in Pages
      BY <3>2 DEF FramesPlaced, Sound, MapsPage
    <3>4. \A q \in FrameAt(s.at[c], s.size[c]) : Entry(t, q) = c
      BY <3>2, <3>3 DEF SameEntry
    <3> QED
      BY <1>1, <3>1, <3>2, <3>4
  <2> QED
    BY <2>1 DEF RecordsMapped
<1> QED
  BY <1>2, <1>3, <1>4 DEF Sound

(* Free pages may become reserved. *)
LEMMA SoundReserve ==
  ASSUME NEW s, NEW sys, Sound(s, sys), NEW X, NEW yes \in BOOLEAN, yes,
         NEW t, ReserveEffect(s, t, X, yes)
  PROVE  Sound(t, sys)
<1>1. /\ t \in States /\ t.slot = s.slot /\ t.at = s.at /\ t.size = s.size /\ t.res = s.res
      /\ \A p \in Pages : SameEntry(s, t, p) \/ (Entry(t, p) = RESERVED /\ Entry(s, p) = EMPTY)
  BY DEF ReserveEffect, SameKernel
<1>2. RESERVED \notin Caps /\ EMPTY \notin Caps /\ RESERVED # EMPTY
  BY DEF RESERVED, EMPTY, Caps
<1>3. ReservationsKept(t, sys)
  <2>1. \A r \in s.res : \A p \in r.start .. r.end - 1 : p \in Pages
    BY ReservedArePages DEF Sound
  <2>2. ASSUME NEW r \in s.res, NEW p \in r.start .. r.end - 1
        PROVE  Entry(t, p) # EMPTY /\ p \notin sys
    BY <1>1, <1>2, <2>1 DEF ReservationsKept, Sound, SameEntry
  <2> QED
    BY <1>1, <2>2 DEF ReservationsKept, Sound
<1>4. SysReserved(t, sys)
  BY <1>1, <1>2 DEF SysReserved, Sound, SameEntry
<1> QED
  BY <1>1, <1>2, <1>3, <1>4, SoundTables

(* Whole frames are erased from the tables, those of C from the kernel too. *)
LEMMA SoundErase ==
  ASSUME NEW s, NEW sys, Sound(s, sys), NEW t \in States, NEW X, NEW C,
         \A d \in Caps : d \notin C => t.slot[d] = s.slot[d] /\ t.at[d] = s.at[d] /\ t.size[d] = s.size[d],
         \A d \in Caps : d \in C => t.at[d] = NOWHERE,
         \A p \in Pages : p \notin X => SameEntry(s, t, p) /\ Entry(s, p) \notin C,
         \A p \in Pages : p \in X => Entry(t, p) \notin Caps,
         \A p \in Pages : \A c \in Caps : p \in X /\ Entry(s, p) = c =>
           \A q \in FrameAt(s.at[c], s.size[c]) : q \in X,
         ReservationsKept(t, sys), SysReserved(t, sys)
  PROVE  Sound(t, sys)
<1>1. \A p \in Pages : \A d \in Caps : MapsPage(t, d, p) => d \notin C /\ MapsPage(s, d, p)
  BY DEF MapsPage
<1>2. Exclusive(t)
  BY <1>1 DEF Exclusive, Sound
<1>3. FramesPlaced(t, sys)
  BY DEF FramesPlaced, Sound
<1>4. RecordsMapped(t)
  <2>1. ASSUME NEW p \in Pages, NEW c \in Caps, Entry(t, p) = c
        PROVE  /\ MapsPage(t, c, p) /\ get_cookie(t, p) \in {0, c}
               /\ \A q \in FrameAt(t.at[c], t.size[c]) : Entry(t, q) = c
    <3>1. p \notin X /\ Entry(s, p) = c /\ c \notin C /\ get_cookie(t, p) = get_cookie(s, p)
      BY <2>1 DEF SameEntry
    <3>2. MapsPage(s, c, p) /\ get_cookie(s, p) \in {0, c}
          /\ \A q \in FrameAt(s.at[c], s.size[c]) : Entry(s, q) = c
      BY <3>1 DEF RecordsMapped, Sound
    <3>3. \A q \in FrameAt(s.at[c], s.size[c]) : q \in Pages
      BY <3>2 DEF FramesPlaced, Sound, MapsPage
    <3>4. p \in FrameAt(s.at[c], s.size[c])
      BY <3>2 DEF MapsPage, FrameAt
    <3>5. \A q \in FrameAt(s.at[c], s.size[c]) : q \notin X
      BY <3>1, <3>2, <3>3, <3>4
    <3>6. \A q \in FrameAt(s.at[c], s.size[c]) : Entry(t, q) = c
      BY <3>2, <3>3, <3>5 DEF SameEntry
    <3>7. t.at[c] = s.at[c] /\ t.size[c] = s.size[c] /\ MapsPage(t, c, p)
      BY <3>1, <3>2 DEF MapsPage
    <3> QED
      BY <3>1, <3>2, <3>6, <3>7
  <2> QED
    BY <2>1 DEF RecordsMapped
<1> QED
  BY <1>2, <1>3, <1>4 DEF Sound

(* Reserved pages that belong to no reservation left become free. *)
LEMMA SoundClearReserved ==
  ASSUME NEW s, NEW sys, Sound(s, sys), NEW X, NEW yes \in BOOLEAN, yes,
         NEW t, ClearEffect(s, t, X, yes),
         NEW u \in States, u.slot = t.slot, u.at = t.at, u.size = t.size,
         \A p \in Pages : SameEntry(t, u, p),
         \A r \in u.res : r \in s.res /\ \A p \in r.start .. r.end - 1 : p \notin X,
         \A p \in X : p \notin sys
  PROVE  Sound(u, sys)
<1>1. /\ u.slot = s.slot /\ u.at = s.at /\ u.size = s.size
      /\ \A p \in Pages : \/ SameEntry(s, u, p)
                          \/ p \in X /\ Entry(u, p) = EMPTY /\ Entry(s, p) = RESERVED
  BY DEF ClearEffect, SameKernel, SameEntry
<1>2. RESERVED \notin Caps /\ EMPTY \notin Caps /\ RESERVED # EMPTY
  BY DEF RESERVED, EMPTY, Caps
<1>3. ReservationsKept(u, sys)
  <2>1. \A r \in s.res : \A p \in r.start .. r.end - 1 : p \in Pages
    BY ReservedArePages DEF Sound
  <2>2. ASSUME NEW r \in u.res, NEW p \in r.start .. r.end - 1
        PROVE  Entry(u, p) # EMPTY /\ p \notin sys
    BY <1>1, <1>2, <2>1 DEF ReservationsKept, Sound, SameEntry
  <2> QED
    BY <1>1, <2>2 DEF ReservationsKept, Sound
<1>4. SysReserved(u, sys)
  BY <1>1, <1>2 DEF SysReserved, Sound, SameEntry
<1> QED
  BY <1>1, <1>2, <1>3, <1>4, SoundTables

-----------------------------------------------------------------------------
(* Unmapping a page                                                        *)

(* What unmapping the frame of sz pages at p does: its capability c leaves *)
(* the kernel, and its entries become x, reserved or free.                 *)
UnmapOneEffect(s, t, p, sz, c, x, free) ==
  /\ t \in States /\ t.res = s.res /\ t.levels <= s.levels
  /\ c \in Caps /\ Entry(s, p) = c /\ t.at[c] = NOWHERE
  /\ t.slot[c] = IF free THEN "free" ELSE s.slot[c]
  /\ \A d \in Caps : d # c => t.slot[d] = s.slot[d] /\ t.at[d] = s.at[d] /\ t.size[d] = s.size[d]
  /\ \A q \in Pages : q \notin FrameAt(p, sz) => SameEntry(s, t, q)
  /\ \A q \in FrameAt(p, sz) : Entry(s, q) = c /\ Entry(t, q) = x

(* The frame at p is recorded whole, if it is recorded. *)
Whole(s, p, sz) == Entry(s, p) \in Caps => s.at[Entry(s, p)] = p /\ s.size[Entry(s, p)] = sz

(* The frame at p is recorded whole, wherever it is recorded. *)
WholeIn(s, p, sz) ==
  \A q \in FrameAt(p, sz) : Entry(s, q) \in Caps => s.at[Entry(s, q)] = p /\ s.size[Entry(s, q)] = sz

(* No page of the frame at p lies in a reservation. *)
Unreserved(s, p, sz) == \A q \in FrameAt(p, sz) : find_reserve(s, q) = {}

(* What is left of the entries of a frame that is unmapped. *)
LeftBy(reserved) == IF reserved THEN RESERVED ELSE EMPTY

(* A recorded frame is unmapped, unless an assertion fails. *)
LEMMA UnmapOneSound ==
  ASSUME NEW s, NEW sys, Sound(s, sys), NEW p \in Nat, NEW sz \in Nat, FramePlace(p, sz),
         Whole(s, p, sz), NEW reserved \in BOOLEAN, NEW free \in BOOLEAN,
         ~ reserved => Unreserved(s, p, sz),
         NEW x, x = LeftBy(reserved),
         NEW t, t = UnmapOne(s, p, sz, reserved, free), ~ t.dead
  PROVE  /\ Sound(t, sys) /\ UnmapOneEffect(s, t, p, sz, Entry(s, p), x, free)
         /\ ~ s.dead
<1>1. PICK e \in Nat : e = p + sz
  OBVIOUS
<1>2. /\ p < e /\ e <= NumPages /\ p \in FrameAt(p, sz) /\ FrameAt(p, sz) = p .. e - 1
      /\ FrameAt(p, sz) \subseteq Pages /\ p \in Pages
  BY <1>1, FrameIsPart
<1>3. PICK c : c = get_cap(s, p)
  OBVIOUS
<1>4. c \in Caps
  <2>1. ASSUME c \notin Caps
        PROVE  FALSE
    <3>1. t = [s EXCEPT !.dead = TRUE]
      BY <1>3, <2>1 DEF UnmapOne
    <3> QED
      BY <3>1 DEF Sound, States
  <2> QED
    BY <2>1
<1>5. Entry(s, p) = c /\ s.at[c] = p /\ s.size[c] = sz
  BY <1>3, <1>4 DEF get_cap, Entry, Caps, Whole
<1>6. PICK z : z = IF free THEN FreeCap(s, c) ELSE [s EXCEPT !.at[c] = NOWHERE, !.size[c] = 1]
  OBVIOUS
<1>7. PICK no \in BOOLEAN : no = FALSE
  OBVIOUS
<1>8. PICK w : w = IF reserved THEN reserve_entries_range(z, p, e, no)
                   ELSE clear_entries_range(z, p, e, no)
  OBVIOUS
<1>9. t = [w EXCEPT !.dead = w.dead \/ get_cap(w, p) = c]
  <2>1. PICK y : y = IF reserved THEN reserve_entries_range(z, p, p + sz, FALSE)
                     ELSE clear_entries_range(z, p, p + sz, FALSE)
    OBVIOUS
  <2>2. y = w
    BY <1>1, <1>7, <1>8, <2>1
  <2>3. t = [y EXCEPT !.dead = y.dead \/ get_cap(y, p) = c]
    <3> DEFINE Freed == IF free THEN FreeCap(s, get_cap(s, p))
                        ELSE [s EXCEPT !.at[get_cap(s, p)] = NOWHERE, !.size[get_cap(s, p)] = 1]
               Emptied == IF reserved THEN reserve_entries_range(Freed, p, p + sz, FALSE)
                          ELSE clear_entries_range(Freed, p, p + sz, FALSE)
    <3>1. t = IF get_cap(s, p) \notin Caps THEN [s EXCEPT !.dead = TRUE]
              ELSE [Emptied EXCEPT !.dead = @ \/ get_cap(Emptied, p) = get_cap(s, p)]
      BY DEF UnmapOne
    <3>2. Freed = z
      BY <1>3, <1>6
    <3> HIDE DEF Freed
    <3>3. Emptied = y
      BY <2>1, <3>2
    <3> HIDE DEF Emptied
    <3> QED
      BY <1>3, <1>4, <3>1, <3>3
  <2> QED
    BY <2>2, <2>3
<1>10. /\ z \in States /\ z.res = s.res /\ z.levels = s.levels /\ z.dead = s.dead
       /\ z.at[c] = NOWHERE /\ z.slot[c] = IF free THEN "free" ELSE s.slot[c]
       /\ \A d \in Caps : d # c => z.slot[d] = s.slot[d] /\ z.at[d] = s.at[d] /\ z.size[d] = s.size[d]
       /\ \A q \in Pages : SameEntry(s, z, q)
  <2>1. s \in States
    BY DEF Sound
  <2>2. PICK a2 \in [Caps -> Pages \cup {NOWHERE}] : a2 = [s.at EXCEPT ![c] = NOWHERE]
    BY <2>1 DEF States
  <2>3. PICK z2 \in [Caps -> Sizes] : z2 = [s.size EXCEPT ![c] = 1]
    BY <2>1 DEF States, Sizes
  <2>4. PICK l2 \in [Caps -> {"free", "bare", "frame", "copy"}] :
          l2 = IF free THEN [s.slot EXCEPT ![c] = "free"] ELSE s.slot
    BY <2>1 DEF States
  <2>5. z = [s EXCEPT !.slot = l2, !.at = a2, !.size = z2]
    BY <1>6, <2>1, <2>2, <2>3, <2>4 DEF FreeCap, States
  <2>6. z \in States
    BY <2>1, <2>5 DEF States
  <2>7. /\ z.slot = l2 /\ z.at = a2 /\ z.size = z2
        /\ z.res = s.res /\ z.levels = s.levels /\ z.dead = s.dead
        /\ z.top = s.top /\ z.cap = s.cap /\ z.cookie = s.cookie
    BY <2>1, <2>5 DEF States
  <2>8. /\ l2[c] = IF free THEN "free" ELSE s.slot[c]
        /\ a2[c] = NOWHERE
        /\ \A d \in Caps : d # c => l2[d] = s.slot[d] /\ a2[d] = s.at[d] /\ z2[d] = s.size[d]
    BY <1>4, <2>1, <2>2, <2>3, <2>4 DEF States
  <2>9. \A q \in Pages : SameEntry(s, z, q)
    BY <2>7 DEF SameEntry, Entry, get_cookie
  <2> QED
    BY <2>6, <2>7, <2>8, <2>9
<1>11. \A q \in FrameAt(p, sz) : Entry(s, q) = c
  BY <1>2, <1>4, <1>5 DEF Sound, RecordsMapped
<1>12. \A q \in FrameAt(p, sz) : Entry(z, q) = c /\ c # RESERVED
  BY <1>2, <1>4, <1>10, <1>11 DEF SameEntry, RESERVED, Caps
<1>13. /\ w \in States /\ SameKernel(z, w) /\ w.levels <= z.levels
       /\ \A q \in Pages : q \notin FrameAt(p, sz) => SameEntry(z, w, q)
       /\ \A q \in FrameAt(p, sz) : Entry(w, q) = x
  <2>1. CASE reserved
    <3>1. w = reserve_entries_range(z, p, e, no)
      BY <1>8, <2>1
    <3>2. ReserveEffect(z, w, p .. e - 1, no)
      BY <1>2, <1>10, <3>1, ReserveRangeEffect
    <3>3. \A q \in FrameAt(p, sz) : Entry(w, q) = RESERVED
      BY <1>1, <1>4, <1>7, <1>10, <1>12, <3>1, ReserveFrame
    <3> QED
      BY <1>2, <2>1, <3>2, <3>3 DEF ReserveEffect, LeftBy
  <2>2. CASE ~ reserved
    <3>1. w = clear_entries_range(z, p, e, no)
      BY <1>8, <2>2
    <3>2. ClearEffect(z, w, p .. e - 1, no)
      BY <1>2, <1>10, <3>1, ClearRangeEffect
    <3>3. \A q \in FrameAt(p, sz) : Entry(w, q) = EMPTY
      BY <1>1, <1>7, <1>10, <1>12, <3>1, ClearFrame
    <3>4. w.levels <= z.levels
      BY <1>10, <3>2 DEF ClearEffect, States
    <3> QED
      BY <1>2, <2>2, <3>2, <3>3, <3>4 DEF ClearEffect, LeftBy
  <2> QED
    BY <2>1, <2>2
<1>14. /\ t \in States /\ SameKernel(w, [t EXCEPT !.dead = w.dead]) /\ t.levels = w.levels
       /\ t.slot = w.slot /\ t.at = w.at /\ t.size = w.size /\ t.res = w.res
       /\ ~ w.dead /\ \A q \in Pages : SameEntry(w, t, q)
  BY <1>9, <1>13 DEF States, SameEntry, Entry, get_cookie, SameKernel
<1>15. UnmapOneEffect(s, t, p, sz, c, x, free)
  BY <1>2, <1>4, <1>5, <1>10, <1>11, <1>13, <1>14 DEF UnmapOneEffect, SameKernel, SameEntry
<1>16. Sound(t, sys)
  <2>1. x \notin Caps
    BY DEF RESERVED, EMPTY, Caps, LeftBy
  <2>2. t \in States /\ t.res = s.res
        /\ (\A d \in Caps : d \notin {c} => t.slot[d] = s.slot[d] /\ t.at[d] = s.at[d] /\ t.size[d] = s.size[d])
        /\ (\A d \in Caps : d \in {c} => t.at[d] = NOWHERE)
        /\ (\A q \in Pages : q \in FrameAt(p, sz) => Entry(t, q) \notin Caps)
    BY <1>15, <2>1 DEF UnmapOneEffect
  <2>3. ASSUME NEW q \in Pages, q \notin FrameAt(p, sz)
        PROVE  SameEntry(s, t, q) /\ Entry(s, q) \notin {c}
    <3>1. SameEntry(s, t, q)
      BY <1>15, <2>3 DEF UnmapOneEffect
    <3>2. ASSUME Entry(s, q) = c
          PROVE  FALSE
      <4>1. MapsPage(s, c, q)
        BY <1>4, <3>2 DEF Sound, RecordsMapped
      <4> QED
        BY <1>5, <2>3, <4>1 DEF MapsPage, FrameAt
    <3> QED
      BY <3>1, <3>2
  <2>4. \A q \in Pages : \A d \in Caps : q \in FrameAt(p, sz) /\ Entry(s, q) = d =>
          \A o \in FrameAt(s.at[d], s.size[d]) : o \in FrameAt(p, sz)
    BY <1>5, <1>11
  <2>5. \A q \in FrameAt(p, sz) : q \notin sys
    BY <1>4, <1>5, <1>11, <1>2 DEF Sound, FramesPlaced, NOWHERE
  <2>6. ReservationsKept(t, sys)
    <3>1. \A r \in s.res : \A q \in r.start .. r.end - 1 : q \in Pages
      BY ReservedArePages DEF Sound
    <3>2. ASSUME NEW r \in s.res, NEW q \in r.start .. r.end - 1
          PROVE  Entry(t, q) # EMPTY
      <4>1. Entry(s, q) # EMPTY /\ q \in Pages
        BY <3>1 DEF ReservationsKept, Sound
      <4>2. CASE q \notin FrameAt(p, sz)
        BY <2>3, <4>1, <4>2 DEF SameEntry
      <4>3. CASE q \in FrameAt(p, sz)
        <5>1. r \in find_reserve(s, q)
          <6>1. r.start \in Nat /\ r.end \in Nat
            BY DEF Sound, States, Reservations
          <6> QED
            BY <6>1 DEF find_reserve
        <5>2. reserved
          BY <4>3, <5>1 DEF Unreserved
        <5>3. x = RESERVED
          BY <5>2 DEF LeftBy
        <5>4. Entry(t, q) = x
          BY <1>15, <4>3 DEF UnmapOneEffect
        <5>5. RESERVED # EMPTY
          BY DEF RESERVED, EMPTY
        <5> QED
          BY <5>3, <5>4, <5>5
      <4> QED
        BY <4>2, <4>3
    <3> QED
      BY <2>2, <3>2 DEF ReservationsKept, Sound
  <2>7. SysReserved(t, sys)
    BY <2>3, <2>5 DEF SysReserved, Sound, SameEntry
  <2> HIDE <1>9
  <2> QED
    BY <2>2, <2>3, <2>4, <2>6, <2>7, SoundErase
<1> QED
  BY <1>5, <1>10, <1>13, <1>14, <1>15, <1>16 DEF SameKernel

-----------------------------------------------------------------------------
(* Runs of frames                                                          *)

(* The k-th of the frames from v on, and the pages of m of them. *)
Nth(v, k, sz) == v + (k - 1) * sz

(* The pages of the first m frames. *)
Run(v, m, sz) == v .. v + m * sz - 1

(* n frames of sz pages fit at v. *)
Fits(v, n, sz) ==
  /\ v \in Nat /\ n \in Nat /\ sz \in Sizes /\ v % sz = 0 /\ v + n * sz <= NumPages

(* A run grows by one frame. *)
LEMMA RunGrows ==
  ASSUME NEW v, NEW n, NEW sz, Fits(v, n, sz), NEW k \in 1 .. n
  PROVE  /\ sz \in Nat /\ Nth(v, k, sz) \in Nat /\ FramePlace(Nth(v, k, sz), sz)
         /\ Fits(v, k - 1, sz) /\ Fits(v, k, sz)
         /\ \A q : q \in Run(v, k, sz) <=> q \in Run(v, k - 1, sz) \/ q \in FrameAt(Nth(v, k, sz), sz)
         /\ \A q : ~ (q \in Run(v, k - 1, sz) /\ q \in FrameAt(Nth(v, k, sz), sz))
         /\ \A q \in Run(v, k, sz) : q \in Run(v, n, sz)
         /\ \A q \in Run(v, n, sz) : q \in Pages
         /\ Nth(v, k, sz) \in FrameAt(Nth(v, k, sz), sz)
<1>1. /\ v \in Nat /\ n \in Nat /\ sz \in Sizes /\ v % sz = 0 /\ v + n * sz <= NumPages
      /\ k \in Nat /\ k >= 1 /\ k <= n
  BY DEF Fits
<1>2. PICK j \in Nat : j = k - 1
  BY <1>1
<1>3. /\ v + j * sz \in Nat /\ (v + j * sz) % sz = 0 /\ sz \in Nat /\ sz >= 1
  BY <1>1, <1>2, Aligned
<1>4. PICK a \in Nat : a = j * sz
  BY <1>2, <1>3
<1>5. PICK b \in Nat : b = k * sz
  BY <1>1, <1>3
<1>6. b = a + sz
  BY <1>1, <1>2, <1>3, <1>4, <1>5
<1>7. PICK c \in Nat : c = n * sz
  BY <1>1, <1>3
<1>8. b <= c
  <2>1. (n - k) * sz >= 0
    BY <1>1, <1>3
  <2>2. (n - k) * sz = n * sz - k * sz
    BY <1>1, <1>3
  <2> QED
    BY <2>1, <2>2, <1>5, <1>7
<1>9. Nth(v, k, sz) = v + a
  BY <1>2, <1>4 DEF Nth
<1>10. /\ Run(v, k, sz) = v .. v + b - 1 /\ Run(v, k - 1, sz) = v .. v + a - 1
       /\ Run(v, n, sz) = v .. v + c - 1
  BY <1>2, <1>4, <1>5, <1>7 DEF Run
<1>11. v + c <= NumPages /\ (v + a) % sz = 0
  BY <1>1, <1>3, <1>4, <1>7
<1>12. Fits(v, k - 1, sz) /\ Fits(v, k, sz)
  BY <1>1, <1>2, <1>3, <1>4, <1>5, <1>6, <1>8, <1>11, Constants DEF Fits
<1> QED
  BY <1>1, <1>3, <1>6, <1>8, <1>9, <1>10, <1>11, <1>12, Constants DEF FrameAt, FramePlace, Pages

(* No frames, no pages. *)
LEMMA RunEmpty ==
  ASSUME NEW v \in Nat, NEW sz \in Nat, NEW q
  PROVE  q \notin Run(v, 0, sz)
BY DEF Run

(* The frames before the last of a run are apart from it. *)
LEMMA FramesInRun ==
  ASSUME NEW v, NEW n, NEW sz, Fits(v, n, sz), NEW k \in 1 .. n, NEW j \in 1 .. n, j < k,
         NEW q \in FrameAt(Nth(v, j, sz), sz)
  PROVE  q \in Run(v, k - 1, sz) /\ q \notin FrameAt(Nth(v, k, sz), sz)
<1>1. j \in 1 .. k - 1 /\ Fits(v, k - 1, sz) /\ k - 1 \in Nat
  BY RunGrows DEF Fits
<1>2. PICK m \in Nat : m = k - 1
  BY <1>1
<1>3. q \in Run(v, j, sz)
  BY RunGrows
<1>4. q \in Run(v, m, sz)
  BY <1>1, <1>2, <1>3, RunGrows
<1> QED
  BY <1>2, <1>4, RunGrows

-----------------------------------------------------------------------------
(* Slots, and mapping one frame                                            *)

(* A slot is taken from those that are free. *)
LEMMA TakenIsFree ==
  ASSUME NEW s, FreeSlots(s) # {}, NEW c, c = TakeSlot(s)
  PROVE  c \in Caps /\ s.slot[c] = "free"
<1>1. FreeSlots(s) \in SUBSET Nat
  BY Constants DEF FreeSlots, Caps
<1>2. \E x \in FreeSlots(s) : \A y \in FreeSlots(s) : x <= y
  BY <1>1, LeastNat
<1>3. c \in FreeSlots(s)
  BY <1>2 DEF TakeSlot
<1> QED
  BY <1>3 DEF FreeSlots

(* Nothing but the slots of frames that are not mapped differs. *)
SlotsChanged(s, t) ==
  /\ t \in States /\ t.res = s.res /\ t.dead = s.dead /\ t.levels = s.levels
  /\ \A p \in Pages : SameEntry(s, t, p)
  /\ \A d \in Caps :
       \/ s.at[d] = NOWHERE /\ t.at[d] = NOWHERE
       \/ t.slot[d] = s.slot[d] /\ t.at[d] = s.at[d] /\ t.size[d] = s.size[d]

(* A slot says nothing of a frame that is not mapped. *)
LEMMA SoundSlots ==
  ASSUME NEW s, NEW sys, Sound(s, sys), NEW t, SlotsChanged(s, t)
  PROVE  Sound(t, sys)
<1>1. \A d \in Caps : t.at[d] # NOWHERE =>
        t.slot[d] = s.slot[d] /\ t.at[d] = s.at[d] /\ t.size[d] = s.size[d]
  BY DEF SlotsChanged
<1>2. \A d \in Caps : \A p : MapsPage(t, d, p) <=> MapsPage(s, d, p)
  BY <1>1 DEF MapsPage, SlotsChanged
<1>3. Exclusive(t)
  BY <1>2 DEF Exclusive, Sound
<1>4. FramesPlaced(t, sys)
  BY <1>1 DEF FramesPlaced, Sound
<1>5. RecordsMapped(t)
  <2>1. ASSUME NEW p \in Pages, NEW c \in Caps, Entry(t, p) = c
        PROVE  /\ MapsPage(t, c, p) /\ get_cookie(t, p) \in {0, c}
               /\ \A q \in FrameAt(t.at[c], t.size[c]) : Entry(t, q) = c
    <3>1. Entry(s, p) = c /\ get_cookie(t, p) = get_cookie(s, p)
      BY <2>1 DEF SlotsChanged, SameEntry
    <3>2. /\ MapsPage(s, c, p) /\ get_cookie(s, p) \in {0, c}
          /\ \A q \in FrameAt(s.at[c], s.size[c]) : Entry(s, q) = c
      BY <3>1 DEF Sound, RecordsMapped
    <3>3. MapsPage(t, c, p) /\ t.at[c] = s.at[c] /\ t.size[c] = s.size[c]
      BY <1>1, <1>2, <3>2 DEF MapsPage
    <3>4. \A q \in FrameAt(s.at[c], s.size[c]) : q \in Pages
      BY <3>2 DEF Sound, FramesPlaced, MapsPage
    <3> QED
      BY <3>1, <3>2, <3>3, <3>4 DEF SlotsChanged, SameEntry
  <2> QED
    BY <2>1 DEF RecordsMapped
<1>6. ReservationsKept(t, sys)
  <2>1. \A r \in s.res : \A p \in r.start .. r.end - 1 : p \in Pages
    BY ReservedArePages DEF Sound
  <2> QED
    BY <2>1 DEF SlotsChanged, SameEntry, ReservationsKept, Sound
<1>7. SysReserved(t, sys)
  BY DEF SlotsChanged, SameEntry, SysReserved, Sound
<1> QED
  BY <1>3, <1>4, <1>5, <1>6, <1>7 DEF Sound, SlotsChanged

(* The fields of the kernel and the vka, and a state with others. *)
KernelTypes(l, a, z) ==
  /\ l \in [Caps -> {"free", "bare", "frame", "copy"}]
  /\ a \in [Caps -> Pages \cup {NOWHERE}] /\ z \in [Caps -> Sizes]

(* A state with other slots and frames. *)
WithKernel(s, l, a, z) == [s EXCEPT !.slot = l, !.at = a, !.size = z]

(* The fields of the kernel and the vka are set, the others stay. *)
LEMMA KernelSet ==
  ASSUME NEW s \in States, NEW l, NEW a, NEW z, KernelTypes(l, a, z),
         NEW t, t = WithKernel(s, l, a, z)
  PROVE  /\ t \in States /\ t.slot = l /\ t.at = a /\ t.size = z
         /\ t.res = s.res /\ t.dead = s.dead /\ t.levels = s.levels
         /\ t.err = s.err /\ t.done = s.done /\ t.last = s.last /\ t.kpt = s.kpt
         /\ t.top = s.top /\ t.cap = s.cap /\ t.cookie = s.cookie
<1>1. t \in States
  BY DEF States, WithKernel, KernelTypes
<1>2. t.slot = l /\ t.at = a /\ t.size = z
  BY DEF States, WithKernel
<1>3. /\ t.res = s.res /\ t.dead = s.dead /\ t.levels = s.levels
      /\ t.err = s.err /\ t.done = s.done /\ t.last = s.last /\ t.kpt = s.kpt
      /\ t.top = s.top /\ t.cap = s.cap /\ t.cookie = s.cookie
  BY DEF States, WithKernel
<1> QED
  BY <1>1, <1>2, <1>3

(* What a slot can be, and a state in which one is that. *)
SlotKind(x) == x \in {"free", "bare", "frame", "copy"}

(* A slot is given another kind. *)
WithSlot(s, c, x) == [s EXCEPT !.slot[c] = x]

(* A slot is given another kind, and its frame is unmapped. *)
Freed(s, c, x) == [s EXCEPT !.slot[c] = x, !.at[c] = NOWHERE, !.size[c] = 1]

(* One slot is filled, or emptied, while its frame is not mapped. *)
LEMMA SetSlot ==
  ASSUME NEW s \in States, NEW c \in Caps, s.at[c] = NOWHERE,
         NEW x, SlotKind(x), NEW t, t = WithSlot(s, c, x) \/ t = Freed(s, c, x)
  PROVE  /\ SlotsChanged(s, t) /\ t.slot[c] = x /\ t.at = s.at
         /\ t.err = s.err /\ t.done = s.done /\ t.last = s.last /\ t.kpt = s.kpt
         /\ t.top = s.top /\ t.cap = s.cap /\ t.cookie = s.cookie
         /\ \A d \in Caps : d # c => t.slot[d] = s.slot[d] /\ t.size[d] = s.size[d]
<1>1. PICK a2 \in [Caps -> Pages \cup {NOWHERE}] : a2 = [s.at EXCEPT ![c] = NOWHERE]
  BY DEF States
<1>2. PICK z2 \in [Caps -> Sizes] : z2 = [s.size EXCEPT ![c] = 1]
  BY DEF States, Sizes
<1>3. PICK l2 \in [Caps -> {"free", "bare", "frame", "copy"}] : l2 = [s.slot EXCEPT ![c] = x]
  BY DEF States, SlotKind
<1>4. a2 = s.at
  BY <1>1 DEF States
<1>5. PICK y \in [Caps -> Sizes] :
        (y = s.size \/ y = z2) /\ t = [s EXCEPT !.slot = l2, !.at = a2, !.size = y]
  <2>1. CASE t = WithSlot(s, c, x)
    <3>1. t = [s EXCEPT !.slot = l2, !.at = s.at, !.size = s.size]
      BY <1>3, <2>1 DEF States, WithSlot
    <3>2. s.size \in [Caps -> Sizes]
      BY DEF States
    <3> QED
      BY <1>4, <3>1, <3>2
  <2>2. CASE t = Freed(s, c, x)
    <3>1. t = [s EXCEPT !.slot = l2, !.at = a2, !.size = z2]
      BY <1>1, <1>2, <1>3, <2>2 DEF States, Freed
    <3> QED
      BY <3>1
  <2> QED
    BY <2>1, <2>2
<1>6. /\ t \in States /\ t.slot = l2 /\ t.at = s.at /\ (t.size = s.size \/ t.size = z2)
      /\ t.res = s.res /\ t.dead = s.dead /\ t.levels = s.levels
      /\ t.err = s.err /\ t.done = s.done /\ t.last = s.last /\ t.kpt = s.kpt
      /\ t.top = s.top /\ t.cap = s.cap /\ t.cookie = s.cookie
  <2>1. /\ t \in States /\ t.slot = l2 /\ t.at = a2 /\ t.size = y
        /\ t.res = s.res /\ t.dead = s.dead /\ t.levels = s.levels
        /\ t.err = s.err /\ t.done = s.done /\ t.last = s.last /\ t.kpt = s.kpt
        /\ t.top = s.top /\ t.cap = s.cap /\ t.cookie = s.cookie
    <3>1. t = WithKernel(s, l2, a2, y) /\ KernelTypes(l2, a2, y)
      BY <1>5 DEF WithKernel, KernelTypes
    <3> QED
      BY <3>1, KernelSet
  <2> QED
    BY <1>4, <1>5, <2>1
<1>7. \A p \in Pages : SameEntry(s, t, p)
  BY <1>6 DEF SameEntry, Entry, get_cookie
<1>8. /\ l2[c] = x
      /\ \A d \in Caps : d # c => l2[d] = s.slot[d] /\ z2[d] = s.size[d]
  BY <1>2, <1>3 DEF States
<1> QED
  BY <1>6, <1>7, <1>8 DEF SlotsChanged

(* What mapping a frame of sz pages at p does, when it succeeds. *)
MapEffect(s, t, c, p, sz) ==
  /\ t \in States /\ t.slot = s.slot /\ t.res = s.res /\ t.dead = s.dead /\ t.levels = s.levels
  /\ t.done = s.done /\ ~ t.err
  /\ \A q \in Pages : SameEntry(s, t, q)
  /\ s.at[c] = NOWHERE /\ t.at[c] = p /\ t.size[c] = sz
  /\ \A d \in Caps : d # c => t.at[d] = s.at[d] /\ t.size[d] = s.size[d]
  /\ \A d \in Caps : \A q \in FrameAt(p, sz) : ~ MapsPage(s, d, q)

(* What refusing to map does: nothing that is recorded changes. *)
RefusedEffect(s, t) ==
  /\ t \in States /\ t.slot = s.slot /\ t.at = s.at /\ t.size = s.size /\ t.done = s.done
  /\ t.res = s.res /\ t.dead = s.dead /\ t.levels = s.levels /\ t.err
  /\ \A q \in Pages : SameEntry(s, t, q)

(* A frame is mapped at an address that is free, or not at all. *)
LEMMA MapPageEffect ==
  ASSUME NEW s \in States, NEW c \in Caps, NEW p \in Nat, NEW sz \in Nat, FramePlace(p, sz),
         NEW mem, NEW t, t = map_page(s, c, p, sz, mem)
  PROVE  RefusedEffect(s, t) \/ MapEffect(s, t, c, p, sz)
<1>1. p \in Pages /\ INDEX(p) \in Tables /\ sz \in Sizes
  <2>1. PICK e \in Nat : e = p + sz
    OBVIOUS
  <2> QED
    BY <2>1, FrameIsPart DEF FramePlace
<1>2. CASE KernelRefuses(s, c, p, sz)
  <2>1. t = [s EXCEPT !.err = TRUE]
    BY <1>2 DEF map_page
  <2> QED
    BY <2>1 DEF RefusedEffect, SameEntry, Entry, get_cookie, States
<1>3. CASE ~ KernelRefuses(s, c, p, sz)
  <2>1. PICK z \in States : z = [s EXCEPT !.err = FALSE]
    BY DEF States
  <2>2. PICK w : w = WithPageTable(z, p, sz, mem)
    OBVIOUS
  <2>3. t = IF w.err THEN w ELSE [w EXCEPT !.at[c] = p, !.size[c] = sz]
    BY <1>3, <2>1, <2>2 DEF map_page
  <2>4. /\ w \in States /\ w.slot = s.slot /\ w.at = s.at /\ w.size = s.size /\ w.res = s.res
        /\ w.dead = s.dead /\ w.levels = s.levels /\ w.done = s.done
        /\ w.top = s.top /\ w.cap = s.cap /\ w.cookie = s.cookie
    <3>1. PICK pt \in SUBSET Tables : pt = z.kpt \cup {INDEX(p)}
      BY <1>1, <2>1 DEF States
    <3>2. w = z \/ w = [z EXCEPT !.kpt = pt] \/ w = [z EXCEPT !.err = TRUE]
      BY <2>2, <3>1 DEF WithPageTable
    <3>3. CASE w = z
      BY <2>1, <3>3 DEF States
    <3>4. CASE w = [z EXCEPT !.kpt = pt]
      BY <2>1, <3>1, <3>4 DEF States
    <3>5. CASE w = [z EXCEPT !.err = TRUE]
      BY <2>1, <3>5 DEF States
    <3> QED
      BY <3>2, <3>3, <3>4, <3>5
  <2>5. \A q \in Pages : SameEntry(s, w, q)
    BY <2>4 DEF SameEntry, Entry, get_cookie
  <2>6. CASE w.err
    BY <2>3, <2>4, <2>5, <2>6 DEF RefusedEffect
  <2>7. CASE ~ w.err
    <3>1. PICK a2 \in [Caps -> Pages \cup {NOWHERE}] : a2 = [w.at EXCEPT ![c] = p]
      BY <1>1, <2>4 DEF States
    <3>2. PICK z2 \in [Caps -> Sizes] : z2 = [w.size EXCEPT ![c] = sz]
      BY <1>1, <2>4 DEF States
    <3>3. PICK l \in [Caps -> {"free", "bare", "frame", "copy"}] : l = w.slot
      BY <2>4 DEF States
    <3>4. t = [w EXCEPT !.at = a2, !.size = z2]
      BY <2>3, <2>4, <2>7, <3>1, <3>2 DEF States
    <3>5. t = [w EXCEPT !.slot = l, !.at = a2, !.size = z2]
      BY <2>4, <3>3, <3>4 DEF States
    <3>6. /\ t \in States /\ t.slot = w.slot /\ t.res = w.res /\ t.dead = w.dead
          /\ t.levels = w.levels /\ t.done = w.done /\ t.err = w.err /\ t.at = a2 /\ t.size = z2
          /\ t.top = w.top /\ t.cap = w.cap /\ t.cookie = w.cookie
      <4>1. w \in States /\ t = WithKernel(w, l, a2, z2) /\ KernelTypes(l, a2, z2)
        BY <2>4, <3>5 DEF WithKernel, KernelTypes
      <4> QED
        BY <3>3, <4>1, KernelSet
    <3>7. \A q \in Pages : SameEntry(s, t, q)
      BY <2>5, <3>6 DEF SameEntry, Entry, get_cookie
    <3>8. /\ a2[c] = p /\ z2[c] = sz
          /\ \A d \in Caps : d # c => a2[d] = s.at[d] /\ z2[d] = s.size[d]
      BY <2>4, <3>1, <3>2 DEF States
    <3>9. s.at[c] = NOWHERE /\ \A d \in Caps : \A q \in FrameAt(p, sz) : ~ MapsPage(s, d, q)
      BY <1>3 DEF KernelRefuses, FrameAt
    <3> QED
      BY <2>4, <2>7, <3>6, <3>7, <3>8, <3>9 DEF MapEffect
  <2> QED
    BY <2>6, <2>7
<1> QED
  BY <1>2, <1>3

(* The pages of a frame may be mapped by a call: no table records them, and *)
(* the bootstrap has not reserved them. *)
FrameFree(s, sys, p, sz) == \A q \in FrameAt(p, sz) : Entry(s, q) \notin Caps /\ q \notin sys

(* A frame that its slot holds is mapped. *)
LEMMA MapSound ==
  ASSUME NEW s, NEW sys, Sound(s, sys), NEW c \in Caps, s.slot[c] \in {"frame", "copy"},
         NEW p \in Nat, NEW sz \in Nat, FramePlace(p, sz), FrameFree(s, sys, p, sz),
         NEW t, MapEffect(s, t, c, p, sz)
  PROVE  Sound(t, sys)
<1>1. /\ t \in States /\ t.slot = s.slot /\ t.res = s.res
      /\ \A q \in Pages : Entry(t, q) = Entry(s, q) /\ get_cookie(t, q) = get_cookie(s, q)
      /\ s.at[c] = NOWHERE /\ t.at[c] = p /\ t.size[c] = sz
      /\ \A d \in Caps : d # c => t.at[d] = s.at[d] /\ t.size[d] = s.size[d]
      /\ \A d \in Caps : \A q \in FrameAt(p, sz) : ~ MapsPage(s, d, q)
  BY DEF MapEffect, SameEntry
<1>2. \A q \in FrameAt(p, sz) : q \in Pages
  <2>1. PICK e \in Nat : e = p + sz
    OBVIOUS
  <2> QED
    BY <2>1, FrameIsPart
<1>3. \A d \in Caps : \A q : d # c => (MapsPage(t, d, q) <=> MapsPage(s, d, q))
  BY <1>1 DEF MapsPage
<1>4. \A q : MapsPage(t, c, q) => q \in FrameAt(p, sz)
  BY <1>1 DEF MapsPage, FrameAt
<1>5. Exclusive(t)
  BY <1>1, <1>3, <1>4 DEF Exclusive, Sound
<1>6. FramesPlaced(t, sys)
  BY <1>1, <1>2 DEF FramesPlaced, Sound, FrameFree
<1>7. RecordsMapped(t)
  <2>1. ASSUME NEW q \in Pages, NEW d \in Caps, Entry(t, q) = d
        PROVE  /\ MapsPage(t, d, q) /\ get_cookie(t, q) \in {0, d}
               /\ \A o \in FrameAt(t.at[d], t.size[d]) : Entry(t, o) = d
    <3>1. /\ MapsPage(s, d, q) /\ get_cookie(s, q) \in {0, d}
          /\ \A o \in FrameAt(s.at[d], s.size[d]) : Entry(s, o) = d
      BY <1>1, <2>1 DEF Sound, RecordsMapped
    <3>2. d # c
      BY <1>1, <3>1 DEF MapsPage
    <3>3. \A o \in FrameAt(s.at[d], s.size[d]) : o \in Pages
      BY <3>1 DEF Sound, FramesPlaced, MapsPage
    <3> QED
      BY <1>1, <1>3, <3>1, <3>2, <3>3
  <2> QED
    BY <2>1 DEF RecordsMapped
<1>8. ReservationsKept(t, sys)
  <2>1. \A r \in s.res : \A q \in r.start .. r.end - 1 : q \in Pages
    BY ReservedArePages DEF Sound
  <2> QED
    BY <1>1, <2>1 DEF ReservationsKept, Sound
<1>9. SysReserved(t, sys)
  BY <1>1 DEF SysReserved, Sound
<1> QED
  BY <1>1, <1>5, <1>6, <1>7, <1>8, <1>9 DEF Sound

(* A mapped frame is recorded. *)
LEMMA UpdateSound ==
  ASSUME NEW s, NEW sys, Sound(s, sys), NEW c \in Caps, NEW p \in Nat, NEW sz \in Nat,
         FramePlace(p, sz), FrameFree(s, sys, p, sz), s.at[c] = p, s.size[c] = sz,
         NEW k \in {0, c}, NEW t, UpdateEffect(s, t, p, c, sz, k)
  PROVE  Sound(t, sys)
<1>1. CASE \A q \in Pages : SameEntry(s, t, q)
  <2>1. SameAll(s, t)
    BY <1>1 DEF SameAll, UpdateEffect, SameKernel
  <2> QED
    BY <2>1, SoundSame
<1>2. CASE ~ (\A q \in Pages : SameEntry(s, t, q))
  <2>1. /\ t \in States /\ t.slot = s.slot /\ t.at = s.at /\ t.size = s.size /\ t.res = s.res
        /\ \A q \in Pages : q \notin FrameAt(p, sz) => SameEntry(s, t, q)
        /\ \A q \in FrameAt(p, sz) : Entry(t, q) = c /\ get_cookie(t, q) = k
    BY <1>2 DEF UpdateEffect, SameKernel
  <2>2. \A d \in Caps : \A q : MapsPage(t, d, q) <=> MapsPage(s, d, q)
    BY <2>1 DEF MapsPage
  <2>3. \A q : q \in FrameAt(p, sz) <=> MapsPage(s, c, q)
    <3>1. p # NOWHERE
      BY DEF NOWHERE
    <3> QED
      BY <3>1 DEF MapsPage, FrameAt
  <2>4. Exclusive(t)
    BY <2>2 DEF Exclusive, Sound
  <2>5. FramesPlaced(t, sys)
    BY <2>1 DEF FramesPlaced, Sound
  <2>6. RecordsMapped(t)
    <3>1. ASSUME NEW q \in Pages, NEW d \in Caps, Entry(t, q) = d
          PROVE  /\ MapsPage(t, d, q) /\ get_cookie(t, q) \in {0, d}
                 /\ \A o \in FrameAt(t.at[d], t.size[d]) : Entry(t, o) = d
      <4>1. CASE q \in FrameAt(p, sz)
        BY <2>1, <2>2, <2>3, <3>1, <4>1
      <4>2. CASE q \notin FrameAt(p, sz)
        <5>1. Entry(s, q) = d /\ get_cookie(t, q) = get_cookie(s, q)
          BY <2>1, <3>1, <4>2 DEF SameEntry
        <5>2. /\ MapsPage(s, d, q) /\ get_cookie(s, q) \in {0, d}
              /\ \A o \in FrameAt(s.at[d], s.size[d]) : Entry(s, o) = d
          BY <5>1 DEF Sound, RecordsMapped
        <5>3. \A o \in FrameAt(s.at[d], s.size[d]) : o \in Pages
          BY <5>2 DEF Sound, FramesPlaced, MapsPage
        <5>4. \A o \in FrameAt(s.at[d], s.size[d]) : o \notin FrameAt(p, sz)
          BY <5>2 DEF FrameFree
        <5> QED
          BY <2>1, <2>2, <5>1, <5>2, <5>3, <5>4 DEF SameEntry
      <4> QED
        BY <4>1, <4>2
    <3> QED
      BY <3>1 DEF RecordsMapped
  <2>7. ReservationsKept(t, sys)
    <3>1. \A r \in s.res : \A q \in r.start .. r.end - 1 : q \in Pages
      BY ReservedArePages DEF Sound
    <3>2. c # EMPTY
      BY DEF EMPTY, Caps
    <3>3. ASSUME NEW r \in s.res, NEW q \in r.start .. r.end - 1
          PROVE  Entry(t, q) # EMPTY /\ q \notin sys
      BY <2>1, <3>1, <3>2 DEF ReservationsKept, Sound, SameEntry
    <3> QED
      BY <2>1, <3>3 DEF ReservationsKept, Sound
  <2>8. SysReserved(t, sys)
    <3>1. \A q \in Pages : q \in sys => q \notin FrameAt(p, sz)
      BY DEF FrameFree
    <3> QED
      BY <2>1, <3>1 DEF SysReserved, Sound, SameEntry
  <2> QED
    BY <2>1, <2>4, <2>5, <2>6, <2>7, <2>8 DEF Sound
<1> QED
  BY <1>1, <1>2

(* What one turn of a loop that maps frames does at the frame p: nothing   *)
(* that is recorded changes but the entries of the frame, which all become *)
(* a capability mapped there.                                              *)
Placed(s, t, sys, p, sz) ==
  /\ Sound(t, sys) /\ t.res = s.res /\ t.dead = s.dead /\ t.levels <= s.levels
  /\ \A q \in Pages : q \notin FrameAt(p, sz) => SameEntry(s, t, q)
  /\ \/ \A q \in FrameAt(p, sz) : SameEntry(s, t, q)
     \/ \E c \in Caps : /\ t.at[c] = p /\ t.size[c] = sz
                        /\ \A q \in FrameAt(p, sz) : Entry(t, q) = c
  /\ \A d \in Caps : s.at[d] # NOWHERE => t.at[d] = s.at[d] /\ t.size[d] = s.size[d]
  /\ \A d \in Caps : s.slot[d] = "bare" => t.slot[d] = "bare"

(* Mapping and recording one frame, and being refused. *)
LEMMA PlaceOne ==
  ASSUME NEW s, NEW sys, Sound(s, sys), NEW c \in Caps, s.slot[c] \in {"frame", "copy"},
         NEW p \in Nat, NEW sz \in Nat, FramePlace(p, sz), FrameFree(s, sys, p, sz),
         NEW k \in {0, c}, NEW mem, NEW m, m = map_page(s, c, p, sz, mem),
         NEW t, t = update_entries(m, p, c, sz, k)
  PROVE  /\ RefusedEffect(s, m) \/ MapEffect(s, m, c, p, sz)
         /\ m.err => RefusedEffect(s, m) /\ Placed(s, m, sys, p, sz)
         /\ ~ m.err => /\ MapEffect(s, m, c, p, sz) /\ UpdateEffect(m, t, p, c, sz, k)
                       /\ Placed(s, t, sys, p, sz)
<1>1. s \in States
  BY DEF Sound
<1>2. RefusedEffect(s, m) \/ MapEffect(s, m, c, p, sz)
  BY <1>1, MapPageEffect
<1>3. /\ \A q \in FrameAt(p, sz) : q \in Pages
      /\ s.levels \in Nat
  <2>1. PICK e \in Nat : e = p + sz
    OBVIOUS
  <2> QED
    BY <1>1, <2>1, FrameIsPart DEF States
<1>4. ASSUME m.err
      PROVE  RefusedEffect(s, m) /\ Placed(s, m, sys, p, sz)
  <2>1. RefusedEffect(s, m)
    BY <1>2, <1>4 DEF MapEffect
  <2>2. Sound(m, sys)
    <3>1. SameAll(s, m)
      BY <2>1 DEF SameAll, RefusedEffect
    <3> QED
      BY <3>1, SoundSame
  <2> QED
    BY <1>3, <2>1, <2>2 DEF RefusedEffect, Placed
<1>5. ASSUME ~ m.err
      PROVE  /\ MapEffect(s, m, c, p, sz) /\ UpdateEffect(m, t, p, c, sz, k)
             /\ Placed(s, t, sys, p, sz)
  <2>1. MapEffect(s, m, c, p, sz)
    BY <1>2, <1>5 DEF RefusedEffect
  <2>2. Sound(m, sys)
    BY <2>1, MapSound
  <2>3. FrameFree(m, sys, p, sz)
    BY <1>3, <2>1 DEF FrameFree, MapEffect, SameEntry
  <2>4. m \in States /\ k \in Nat
    BY <2>2 DEF Sound, Caps
  <2>5. \A q \in FrameAt(p, sz) : Entry(m, q) \in {RESERVED, EMPTY}
    <3>1. \A q \in Pages : Entry(m, q) \in {RESERVED, EMPTY} \cup Caps
      BY <2>4 DEF Entry, States
    <3> QED
      BY <1>3, <2>3, <3>1 DEF FrameFree
  <2>6. UpdateEffect(m, t, p, c, sz, k)
    BY <2>4, <2>5, UpdateEntriesEffect
  <2>7. m.at[c] = p /\ m.size[c] = sz
    BY <2>1 DEF MapEffect
  <2>8. Sound(t, sys)
    BY <2>2, <2>3, <2>6, <2>7, UpdateSound
  <2>9. /\ t.res = s.res /\ t.dead = s.dead /\ t.slot = s.slot /\ t.at = m.at /\ t.size = m.size
        /\ \A q \in Pages : q \notin FrameAt(p, sz) => SameEntry(s, t, q)
        /\ \A d \in Caps : s.at[d] # NOWHERE => t.at[d] = s.at[d] /\ t.size[d] = s.size[d]
    BY <2>1, <2>6 DEF UpdateEffect, MapEffect, SameKernel, SameEntry
  <2>10. \/ \A q \in FrameAt(p, sz) : SameEntry(s, t, q)
         \/ \A q \in FrameAt(p, sz) : Entry(t, q) = c
    BY <1>3, <2>1, <2>6 DEF UpdateEffect, MapEffect, SameEntry
  <2>11. t.levels <= s.levels
    BY <1>3, <2>1, <2>6 DEF UpdateEffect, MapEffect, States
  <2> QED
    BY <2>1, <2>6, <2>7, <2>8, <2>9, <2>10, <2>11 DEF Placed
<1> QED
  BY <1>2, <1>4, <1>5

(* The error and the count of a call are set. *)
Flagged(s, e, n) == [s EXCEPT !.err = e, !.done = n]

(* A call changed neither the kernel nor the list of reservations. *)
LeftAlone(s, t) ==
  /\ t.slot = s.slot /\ t.at = s.at /\ t.size = s.size /\ t.res = s.res /\ t.last = s.last
  /\ t.dead = s.dead /\ t.levels = s.levels /\ t.kpt = s.kpt
  /\ t.top = s.top /\ t.cap = s.cap /\ t.cookie = s.cookie

(* The error and the count are of no consequence to the rest. *)
LEMMA FlagsSet ==
  ASSUME NEW s \in States, NEW e \in BOOLEAN, NEW n \in Nat, NEW t,
         \/ t = Flagged(s, e, n)
         \/ t = [s EXCEPT !.err = e] /\ n = s.done
         \/ t = [s EXCEPT !.done = n] /\ e = s.err
  PROVE  /\ SlotsChanged(s, t) /\ t.err = e /\ t.done = n /\ LeftAlone(s, t)
<1>1. t = Flagged(s, e, n)
  <2>1. CASE t = [s EXCEPT !.err = e] /\ n = s.done
    BY <2>1 DEF Flagged, States
  <2>2. CASE t = [s EXCEPT !.done = n] /\ e = s.err
    BY <2>2 DEF Flagged, States
  <2> QED
    BY <2>1, <2>2
<1>2. t \in States
  BY <1>1 DEF Flagged, States
<1>3. t.err = e /\ t.done = n
  BY <1>1 DEF Flagged, States
<1>4. LeftAlone(s, t)
  BY <1>1 DEF Flagged, States, LeftAlone
<1>5. \A p \in Pages : SameEntry(s, t, p)
  BY <1>4 DEF LeftAlone, SameEntry, Entry, get_cookie
<1> QED
  BY <1>2, <1>3, <1>4, <1>5 DEF SlotsChanged, LeftAlone

(* Slots change before a frame is placed. *)
LEMMA SlotsThenPlaced ==
  ASSUME NEW s, NEW sys, NEW s1, SlotsChanged(s, s1), NEW t, NEW p, NEW sz,
         Placed(s1, t, sys, p, sz),
         \A q \in FrameAt(p, sz) : q \in Pages,
         \A d \in Caps : s.slot[d] = "bare" => s1.slot[d] = "bare"
  PROVE  Placed(s, t, sys, p, sz)
<1>1. t.res = s.res /\ t.dead = s.dead /\ t.levels <= s.levels
  BY DEF SlotsChanged, Placed
<1>2. \A q \in Pages : SameEntry(s1, t, q) => SameEntry(s, t, q)
  BY DEF SlotsChanged, SameEntry
<1>3. \A d \in Caps : s.at[d] # NOWHERE => t.at[d] = s.at[d] /\ t.size[d] = s.size[d]
  BY DEF SlotsChanged, Placed
<1> QED
  BY <1>1, <1>2, <1>3 DEF Placed

(* Slots change after it. *)
LEMMA PlacedThenSlots ==
  ASSUME NEW s, NEW sys, NEW s1, NEW t, SlotsChanged(s1, t), NEW p \in Nat, NEW sz,
         Placed(s, s1, sys, p, sz),
         \A q \in FrameAt(p, sz) : q \in Pages,
         \A d \in Caps : s.slot[d] = "bare" => t.slot[d] = "bare"
  PROVE  Placed(s, t, sys, p, sz)
<1>1. t.res = s.res /\ t.dead = s.dead /\ t.levels <= s.levels
  BY DEF SlotsChanged, Placed
<1>2. \A q \in Pages : Entry(t, q) = Entry(s1, q) /\ (SameEntry(s, s1, q) => SameEntry(s, t, q))
  BY DEF SlotsChanged, SameEntry
<1>3. \A d \in Caps : s.at[d] # NOWHERE => t.at[d] = s.at[d] /\ t.size[d] = s.size[d]
  BY DEF SlotsChanged, Placed
<1>4. \A d \in Caps : s1.at[d] = p => t.at[d] = p /\ t.size[d] = s1.size[d]
  <2>1. p # NOWHERE
    BY DEF NOWHERE
  <2> QED
    BY <2>1 DEF SlotsChanged
<1>5. Sound(t, sys)
  BY SoundSlots DEF Placed
<1>6. \/ \A q \in FrameAt(p, sz) : SameEntry(s, t, q)
      \/ \E c \in Caps : /\ t.at[c] = p /\ t.size[c] = sz
                         /\ \A q \in FrameAt(p, sz) : Entry(t, q) = c
  BY <1>2, <1>4 DEF Placed
<1> QED
  BY <1>1, <1>2, <1>3, <1>5, <1>6 DEF Placed

(* Nothing is placed. *)
LEMMA PlacedNothing ==
  ASSUME NEW s, NEW sys, Sound(s, sys), NEW t, SlotsChanged(s, t), NEW p, NEW sz,
         \A q \in FrameAt(p, sz) : q \in Pages,
         \A d \in Caps : s.slot[d] = "bare" => t.slot[d] = "bare"
  PROVE  Placed(s, t, sys, p, sz)
<1>1. Sound(t, sys)
  BY SoundSlots
<1>2. s.levels \in Nat
  BY DEF Sound, States
<1> QED
  BY <1>1, <1>2 DEF Placed, SlotsChanged

(* A state changes no slot by itself. *)
LEMMA NothingChanges ==
  ASSUME NEW s \in States
  PROVE  SlotsChanged(s, s)
BY DEF SlotsChanged, SameEntry

(* What one turn of new_pages_at_vaddr does: the frame of a free slot is   *)
(* mapped, and recorded unless there is no memory for a level; or nothing  *)
(* changes. *)
NewPageEffect(s, t, k, p, sz) ==
  \/ /\ t.done = s.done /\ t.slot = s.slot /\ t.at = s.at
     /\ \A q \in Pages : SameEntry(s, t, q)
     /\ t.err \/ (s.done < k - 1 /\ t = s)
  \/ /\ t.done = k /\ s.done >= k - 1
     /\ \E c \in Caps :
          /\ s.slot[c] = "free" /\ s.at[c] = NOWHERE /\ t.slot[c] = "frame"
          /\ \A d \in Caps : d # c => t.slot[d] = s.slot[d] /\ t.at[d] = s.at[d]
          /\ t.err => t.levels = 0
          /\ t.levels > 0 => \A q \in FrameAt(p, sz) : Entry(t, q) = c

(* One turn of new_pages_at_vaddr. *)
LEMMA NewPagePlaced ==
  ASSUME NEW s, NEW sys, Sound(s, sys), NEW k \in Nat, NEW v, NEW p \in Nat, NEW sz \in Nat,
         p = v + (k - 1) * sz, FramePlace(p, sz), FrameFree(s, sys, p, sz), NEW mem,
         NEW t, t = NewPage(s, k, v, sz, mem)
  PROVE  Placed(s, t, sys, p, sz) /\ NewPageEffect(s, t, k, p, sz)
<1>1. /\ s \in States /\ s.done \in Nat
      /\ \A q \in FrameAt(p, sz) : q \in Pages
  <2>1. PICK e \in Nat : e = p + sz
    OBVIOUS
  <2> QED
    BY <2>1, FrameIsPart DEF Sound, States
<1>2. CASE s.done < k - 1
  <2>1. t = s
    BY <1>2 DEF NewPage
  <2> QED
    BY <1>1, <1>2, <2>1, PlacedNothing, NothingChanges DEF NewPageEffect, SlotsChanged
<1>3. CASE ~ (s.done < k - 1) /\ FreeSlots(s) = {}
  <2>1. PICK yes \in BOOLEAN : yes = TRUE
    OBVIOUS
  <2>2. t = [s EXCEPT !.err = yes]
    BY <1>3, <2>1 DEF NewPage
  <2>3. PICK n \in Nat : n = s.done
    BY <1>1
  <2>4. SlotsChanged(s, t) /\ t.err = yes /\ t.done = n /\ LeftAlone(s, t)
    BY <1>1, <2>2, <2>3, FlagsSet
  <2>5. t.slot = s.slot /\ t.at = s.at /\ \A q \in Pages : SameEntry(s, t, q)
    BY <2>4 DEF LeftAlone, SlotsChanged
  <2> QED
    BY <1>1, <2>1, <2>3, <2>4, <2>5, PlacedNothing DEF NewPageEffect
<1>4. CASE ~ (s.done < k - 1) /\ FreeSlots(s) # {}
  <2>1. PICK c : c = TakeSlot(s)
    OBVIOUS
  <2>2. c \in Caps /\ s.slot[c] = "free"
    BY <1>4, <2>1, TakenIsFree
  <2>3. s.at[c] = NOWHERE
    BY <2>2 DEF Sound, FramesPlaced
  <2>4. PICK x : SlotKind(x) /\ x = "frame"
    BY DEF SlotKind
  <2>5. PICK s1 : s1 = WithSlot(s, c, x)
    OBVIOUS
  <2>6. /\ SlotsChanged(s, s1) /\ s1.slot[c] = "frame" /\ s1.at = s.at /\ s1.done = s.done
        /\ \A d \in Caps : d # c => s1.slot[d] = s.slot[d]
    BY <1>1, <2>2, <2>3, <2>4, <2>5, SetSlot
  <2>7. Sound(s1, sys)
    BY <2>6, SoundSlots
  <2>8. FrameFree(s1, sys, p, sz)
    BY <1>1, <2>6 DEF FrameFree, SlotsChanged, SameEntry
  <2>9. PICK m : m = map_page(s1, c, p, sz, mem)
    OBVIOUS
  <2>10. PICK u : u = update_entries(m, p, c, sz, c)
    OBVIOUS
  <2>11. t = IF m.err THEN [FreeCap(m, c) EXCEPT !.err = TRUE] ELSE [u EXCEPT !.done = k]
    BY <1>4, <2>1, <2>4, <2>5, <2>9, <2>10 DEF NewPage, WithSlot
  <2>12. PICK ck \in {0, c} : ck = c
    OBVIOUS
  <2>13. /\ m.err => RefusedEffect(s1, m) /\ Placed(s1, m, sys, p, sz)
         /\ ~ m.err => /\ MapEffect(s1, m, c, p, sz) /\ UpdateEffect(m, u, p, c, sz, ck)
                       /\ Placed(s1, u, sys, p, sz)
    BY <2>2, <2>6, <2>7, <2>8, <2>9, <2>10, <2>12, PlaceOne
  <2>14. CASE m.err
    <3>1. RefusedEffect(s1, m) /\ Placed(s1, m, sys, p, sz)
      BY <2>13, <2>14
    <3>2. Placed(s, m, sys, p, sz)
      BY <1>1, <2>2, <2>6, <3>1, SlotsThenPlaced
    <3>3. m \in States /\ m.at[c] = NOWHERE
      BY <2>3, <2>6, <3>1 DEF RefusedEffect
    <3>4. PICK y : SlotKind(y) /\ y = "free"
      BY DEF SlotKind
    <3>5. PICK w : w = FreeCap(m, c)
      OBVIOUS
    <3>6. w = Freed(m, c, y)
      BY <3>4, <3>5 DEF FreeCap, Freed
    <3>7. /\ SlotsChanged(m, w) /\ w.slot[c] = y /\ w.at = m.at /\ w.done = m.done
          /\ \A d \in Caps : d # c => w.slot[d] = m.slot[d]
      BY <2>2, <3>3, <3>4, <3>6, SetSlot
    <3>8. \A d \in Caps : s.slot[d] = w.slot[d]
      BY <2>2, <2>6, <3>1, <3>4, <3>7 DEF RefusedEffect
    <3>9. Placed(s, w, sys, p, sz) /\ w \in States
      BY <1>1, <3>2, <3>7, <3>8, PlacedThenSlots DEF SlotsChanged
    <3>10. PICK yes \in BOOLEAN : yes = TRUE
      OBVIOUS
    <3>11. PICK n \in Nat : n = w.done
      BY <3>9 DEF States
    <3>12. t = [w EXCEPT !.err = yes]
      BY <2>11, <2>14, <3>5, <3>10
    <3>13. SlotsChanged(w, t) /\ t.err = yes /\ t.done = n /\ LeftAlone(w, t)
      BY <3>9, <3>11, <3>12, FlagsSet
    <3>14. Placed(s, t, sys, p, sz)
      <4>1. \A d \in Caps : s.slot[d] = "bare" => t.slot[d] = "bare"
        BY <3>8, <3>13 DEF LeftAlone
      <4> QED
        BY <1>1, <3>9, <3>13, <4>1, PlacedThenSlots
    <3>15. t.done = s.done /\ t.at = s.at /\ t.err
      BY <2>6, <3>1, <3>7, <3>10, <3>11, <3>13 DEF RefusedEffect, LeftAlone
    <3>16. t.slot = s.slot
      <4>1. /\ s.slot \in [Caps -> {"free", "bare", "frame", "copy"}]
            /\ t.slot \in [Caps -> {"free", "bare", "frame", "copy"}]
        BY <1>1, <3>13 DEF States, SlotsChanged
      <4>2. \A d \in Caps : t.slot[d] = s.slot[d]
        BY <3>8, <3>13 DEF LeftAlone
      <4> QED
        BY <4>1, <4>2
    <3>17. \A q \in Pages : SameEntry(s, t, q)
      BY <2>6, <3>1, <3>7, <3>13 DEF SlotsChanged, RefusedEffect, SameEntry
    <3> QED
      BY <3>14, <3>15, <3>16, <3>17 DEF NewPageEffect
  <2>15. CASE ~ m.err
    <3>1. /\ MapEffect(s1, m, c, p, sz) /\ UpdateEffect(m, u, p, c, sz, ck)
          /\ Placed(s1, u, sys, p, sz)
      BY <2>13, <2>15
    <3>2. Placed(s, u, sys, p, sz) /\ u \in States
      BY <1>1, <2>2, <2>6, <3>1, SlotsThenPlaced DEF UpdateEffect
    <3>3. t = [u EXCEPT !.done = k]
      BY <2>11, <2>15
    <3>4. PICK e \in BOOLEAN : e = u.err
      BY <3>2 DEF States
    <3>5. SlotsChanged(u, t) /\ t.err = e /\ t.done = k /\ LeftAlone(u, t)
      BY <3>2, <3>3, <3>4, FlagsSet
    <3>6. /\ t.slot[c] = "frame"
          /\ \A d \in Caps : d # c => t.slot[d] = s.slot[d] /\ t.at[d] = s.at[d]
      BY <2>6, <3>1, <3>5 DEF LeftAlone, UpdateEffect, SameKernel, MapEffect
    <3>7. Placed(s, t, sys, p, sz)
      <4>1. \A d \in Caps : s.slot[d] = "bare" => t.slot[d] = "bare"
        BY <2>2, <3>6
      <4> QED
        BY <1>1, <3>2, <3>5, <4>1, PlacedThenSlots
    <3>8. (t.err => t.levels = 0) /\ (t.levels > 0 => \A q \in FrameAt(p, sz) : Entry(t, q) = c)
      <4>1. u.levels = t.levels /\ u.err = t.err /\ u.levels \in Nat
        BY <3>2, <3>4, <3>5 DEF LeftAlone, States
      <4>2. \A q \in FrameAt(p, sz) : Entry(t, q) = Entry(u, q)
        BY <1>1, <3>5 DEF SlotsChanged, SameEntry
      <4> QED
        BY <3>1, <4>1, <4>2 DEF UpdateEffect
    <3> QED
      BY <1>1, <1>4, <2>2, <2>3, <3>5, <3>6, <3>7, <3>8 DEF NewPageEffect
  <2> QED
    BY <2>14, <2>15
<1> QED
  BY <1>2, <1>3, <1>4

(* A slot that is not in use is filled, and nothing else happens. *)
LEMMA FillSlot ==
  ASSUME NEW s, NEW sys, Sound(s, sys), FreeSlots(s) # {}, NEW c, c = TakeSlot(s),
         NEW x, SlotKind(x), NEW t, t = WithSlot(s, c, x)
  PROVE  /\ SlotsChanged(s, t) /\ Sound(t, sys) /\ c \in Caps /\ t.slot[c] = x
         /\ s.slot[c] = "free" /\ s.at[c] = NOWHERE /\ t.at = s.at
         /\ t.done = s.done /\ t.err = s.err
         /\ \A d \in Caps : d # c => t.slot[d] = s.slot[d]
         /\ \A d \in Caps : s.slot[d] = "bare" => t.slot[d] = "bare"
<1>1. c \in Caps /\ s.slot[c] = "free"
  BY TakenIsFree
<1>2. s.at[c] = NOWHERE /\ s \in States
  BY <1>1 DEF Sound, FramesPlaced
<1>3. /\ SlotsChanged(s, t) /\ t.slot[c] = x /\ t.at = s.at /\ t.done = s.done /\ t.err = s.err
      /\ \A d \in Caps : d # c => t.slot[d] = s.slot[d]
  BY <1>1, <1>2, SetSlot
<1>4. Sound(t, sys)
  BY <1>3, SoundSlots
<1> QED
  BY <1>1, <1>2, <1>3, <1>4

(* One turn of sel4utils_share_mem_at_vaddr. *)
LEMMA SharePagePlaced ==
  ASSUME NEW s, NEW sys, Sound(s, sys), NEW k \in Nat, NEW v, NEW p \in Nat, NEW sz \in Nat,
         p = v + (k - 1) * sz, FramePlace(p, sz), FrameFree(s, sys, p, sz), NEW mem, NEW from,
         NEW t, t = SharePage(s, k, from, v, sz, mem)
  PROVE  Placed(s, t, sys, p, sz) /\ (t.done = s.done \/ t.done = k)
<1>1. /\ s \in States /\ s.done \in Nat
      /\ \A q \in FrameAt(p, sz) : q \in Pages
  <2>1. PICK e \in Nat : e = p + sz
    OBVIOUS
  <2> QED
    BY <2>1, FrameIsPart DEF Sound, States
<1>2. PICK yes \in BOOLEAN : yes = TRUE
  OBVIOUS
<1>3. CASE t = s
  BY <1>1, <1>3, PlacedNothing, NothingChanges
<1>4. CASE t = [s EXCEPT !.err = TRUE]
  <2>1. PICK n \in Nat : n = s.done
    BY <1>1
  <2>2. t = [s EXCEPT !.err = yes]
    BY <1>2, <1>4
  <2>3. SlotsChanged(s, t) /\ t.done = n /\ LeftAlone(s, t)
    BY <1>1, <2>1, <2>2, FlagsSet
  <2> QED
    BY <1>1, <2>1, <2>3, PlacedNothing DEF LeftAlone
<1>5. PICK c : c = TakeSlot(s)
  OBVIOUS
<1>6. CASE FreeSlots(s) # {} /\ t = [s EXCEPT !.err = TRUE, !.slot[c] = "bare"]
  <2>1. PICK x : SlotKind(x) /\ x = "bare"
    BY DEF SlotKind
  <2>2. PICK s1 : s1 = WithSlot(s, c, x)
    OBVIOUS
  <2>3. /\ SlotsChanged(s, s1) /\ s1.done = s.done /\ Sound(s1, sys)
        /\ \A d \in Caps : s.slot[d] = "bare" => s1.slot[d] = "bare"
    <3>1. /\ SlotsChanged(s, s1) /\ Sound(s1, sys) /\ s1.done = s.done
          /\ c \in Caps /\ s1.slot[c] = x
          /\ \A d \in Caps : d # c => s1.slot[d] = s.slot[d]
      BY <1>5, <1>6, <2>1, <2>2, FillSlot
    <3> QED
      BY <2>1, <3>1
  <2>4. Placed(s, s1, sys, p, sz) /\ s1 \in States
    BY <1>1, <2>3, PlacedNothing DEF SlotsChanged
  <2>5. PICK n \in Nat : n = s1.done
    BY <2>4 DEF States
  <2>6. t = [s1 EXCEPT !.err = yes]
    BY <1>1, <1>2, <1>6, <2>1, <2>2 DEF WithSlot, States
  <2>7. SlotsChanged(s1, t) /\ t.done = n /\ LeftAlone(s1, t)
    BY <2>4, <2>5, <2>6, FlagsSet
  <2>8. \A d \in Caps : s.slot[d] = "bare" => t.slot[d] = "bare"
    BY <2>3, <2>7 DEF LeftAlone
  <2> QED
    BY <1>1, <2>3, <2>4, <2>5, <2>7, <2>8, PlacedThenSlots
<1>7. PICK x : SlotKind(x) /\ x = "copy"
  BY DEF SlotKind
<1>8. PICK s1 : s1 = WithSlot(s, c, x)
  OBVIOUS
<1>9. PICK m : m = map_page(s1, c, p, sz, mem)
  OBVIOUS
<1>10. PICK ck \in {0, c} : ck = 0
  OBVIOUS
<1>11. PICK u : u = update_entries(m, p, c, sz, ck)
  OBVIOUS
<1>12. CASE /\ FreeSlots(s) # {}
            /\ t = IF m.err THEN m ELSE [u EXCEPT !.err = FALSE, !.done = k]
  <2>1. /\ SlotsChanged(s, s1) /\ Sound(s1, sys) /\ s1.done = s.done
        /\ c \in Caps /\ s1.slot[c] = x /\ s.slot[c] = "free"
        /\ \A d \in Caps : d # c => s1.slot[d] = s.slot[d]
    BY <1>5, <1>7, <1>8, <1>12, FillSlot
  <2>2. FrameFree(s1, sys, p, sz)
    BY <1>1, <2>1 DEF FrameFree, SlotsChanged, SameEntry
  <2>3. /\ m.err => RefusedEffect(s1, m) /\ Placed(s1, m, sys, p, sz)
        /\ ~ m.err => /\ MapEffect(s1, m, c, p, sz) /\ UpdateEffect(m, u, p, c, sz, ck)
                      /\ Placed(s1, u, sys, p, sz)
    <3>1. s1.slot[c] \in {"frame", "copy"}
      BY <1>7, <2>1
    <3> QED
      BY <1>9, <1>10, <1>11, <2>1, <2>2, <3>1, PlaceOne
  <2>4. \A d \in Caps : s.slot[d] = "bare" => s1.slot[d] = "bare"
    BY <2>1
  <2>5. CASE m.err
    <3>1. Placed(s, m, sys, p, sz)
      BY <1>1, <2>1, <2>3, <2>4, <2>5, SlotsThenPlaced
    <3> QED
      BY <1>12, <2>1, <2>3, <2>5, <3>1 DEF RefusedEffect
  <2>6. CASE ~ m.err
    <3>1. Placed(s, u, sys, p, sz) /\ u \in States
      BY <1>1, <2>1, <2>3, <2>4, <2>6, SlotsThenPlaced DEF UpdateEffect
    <3>2. PICK no \in BOOLEAN : no = FALSE
      OBVIOUS
    <3>3. t = Flagged(u, no, k)
      BY <1>12, <2>6, <3>2 DEF Flagged
    <3>4. SlotsChanged(u, t) /\ t.done = k /\ LeftAlone(u, t)
      BY <3>1, <3>3, FlagsSet
    <3>5. \A d \in Caps : s.slot[d] = "bare" => t.slot[d] = "bare"
      BY <3>1, <3>4 DEF LeftAlone, Placed
    <3> QED
      BY <1>1, <3>1, <3>4, <3>5, PlacedThenSlots
  <2> QED
    BY <2>5, <2>6
<1>13. \/ t = s \/ t = [s EXCEPT !.err = TRUE]
       \/ FreeSlots(s) # {} /\ t = [s EXCEPT !.err = TRUE, !.slot[c] = "bare"]
       \/ FreeSlots(s) # {} /\ t = IF m.err THEN m ELSE [u EXCEPT !.err = FALSE, !.done = k]
  <2>1. CASE FreeSlots(s) = {}
    BY <2>1 DEF SharePage
  <2>2. CASE FreeSlots(s) # {}
    BY <1>5, <1>7, <1>8, <1>9, <1>10, <1>11, <2>2 DEF SharePage, WithSlot
  <2> QED
    BY <2>1, <2>2
<1> QED
  BY <1>3, <1>4, <1>6, <1>12, <1>13

(* One turn of map_pages_at_vaddr. *)
LEMMA MapOnePlaced ==
  ASSUME NEW s, NEW sys, Sound(s, sys), NEW c \in Caps, s.slot[c] \in {"frame", "copy"},
         NEW p \in Nat, NEW sz \in Nat, FramePlace(p, sz), FrameFree(s, sys, p, sz),
         NEW mem, NEW cookies \in BOOLEAN, NEW t, t = MapOne(s, c, cookies, p, sz, mem)
  PROVE  Placed(s, t, sys, p, sz) /\ t.slot = s.slot
<1>1. /\ s \in States
      /\ \A q \in FrameAt(p, sz) : q \in Pages
  <2>1. PICK e \in Nat : e = p + sz
    OBVIOUS
  <2> QED
    BY <2>1, FrameIsPart DEF Sound
<1>2. CASE s.err
  <2>1. t = s
    BY <1>2 DEF MapOne
  <2> QED
    BY <1>1, <2>1, PlacedNothing, NothingChanges
<1>3. CASE ~ s.err
  <2>1. PICK m : m = map_page(s, c, p, sz, mem)
    OBVIOUS
  <2>2. PICK ck \in {0, c} : ck = IF cookies THEN c ELSE 0
    OBVIOUS
  <2>3. PICK u : u = update_entries(m, p, c, sz, ck)
    OBVIOUS
  <2>4. t = IF m.err THEN m ELSE u
    BY <1>3, <2>1, <2>2, <2>3 DEF MapOne
  <2>5. /\ m.err => RefusedEffect(s, m) /\ Placed(s, m, sys, p, sz)
        /\ ~ m.err => /\ MapEffect(s, m, c, p, sz) /\ UpdateEffect(m, u, p, c, sz, ck)
                      /\ Placed(s, u, sys, p, sz)
    BY <2>1, <2>2, <2>3, PlaceOne
  <2> QED
    BY <2>4, <2>5 DEF RefusedEffect, MapEffect, UpdateEffect, SameKernel
<1> QED
  BY <1>2, <1>3

-----------------------------------------------------------------------------
(* Mapping runs of frames                                                  *)

(* The pages of a run may be mapped by a call. *)
RunFree(s, sys, v, n, sz) == \A q \in Run(v, n, sz) : Entry(s, q) \notin Caps /\ q \notin sys

(* What the first m turns of a loop that maps frames have done. *)
Filled(s, t, sys, v, m, sz) ==
  /\ Sound(t, sys) /\ t.res = s.res /\ t.dead = s.dead /\ t.levels <= s.levels
  /\ \A q \in Pages : q \notin Run(v, m, sz) => SameEntry(s, t, q)
  /\ \A q \in Pages : Entry(t, q) = RESERVED => Entry(s, q) = RESERVED
  /\ \A j \in 1 .. m : WholeIn(t, Nth(v, j, sz), sz)
  /\ \A d \in Caps : s.at[d] # NOWHERE => t.at[d] = s.at[d] /\ t.size[d] = s.size[d]
  /\ \A d \in Caps : s.slot[d] = "bare" => t.slot[d] = "bare"

(* Nothing has been done yet. *)
LEMMA FilledNothing ==
  ASSUME NEW s, NEW sys, Sound(s, sys), NEW t, SlotsChanged(s, t), NEW v, NEW sz,
         \A d \in Caps : s.slot[d] = "bare" => t.slot[d] = "bare"
  PROVE  Filled(s, t, sys, v, 0, sz)
<1>1. Sound(t, sys)
  BY SoundSlots
<1>2. s.levels \in Nat
  BY DEF Sound, States
<1> QED
  BY <1>1, <1>2 DEF Filled, SlotsChanged, SameEntry

(* The next frame is free still, and placing it is one more turn. *)
LEMMA FilledStep ==
  ASSUME NEW s, NEW sys, s \in States, NEW v, NEW n, NEW sz, Fits(v, n, sz),
         RunFree(s, sys, v, n, sz), NEW k \in 1 .. n, NEW t, Filled(s, t, sys, v, k - 1, sz)
  PROVE  /\ Sound(t, sys) /\ FrameFree(t, sys, Nth(v, k, sz), sz)
         /\ \A u : Placed(t, u, sys, Nth(v, k, sz), sz) => Filled(s, u, sys, v, k, sz)
<1>1. /\ sz \in Nat /\ Nth(v, k, sz) \in Nat
      /\ \A q : q \in Run(v, k, sz) <=> q \in Run(v, k - 1, sz) \/ q \in FrameAt(Nth(v, k, sz), sz)
      /\ \A q : ~ (q \in Run(v, k - 1, sz) /\ q \in FrameAt(Nth(v, k, sz), sz))
      /\ \A q \in Run(v, k, sz) : q \in Run(v, n, sz)
      /\ \A q \in Run(v, n, sz) : q \in Pages
      /\ Nth(v, k, sz) \in FrameAt(Nth(v, k, sz), sz)
  BY RunGrows
<1>2. \A j \in 1 .. k - 1 : \A q \in FrameAt(Nth(v, j, sz), sz) :
        q \in Run(v, k - 1, sz) /\ q \notin FrameAt(Nth(v, k, sz), sz)
  <2> SUFFICES ASSUME NEW j \in 1 .. k - 1, NEW q \in FrameAt(Nth(v, j, sz), sz)
               PROVE  q \in Run(v, k - 1, sz) /\ q \notin FrameAt(Nth(v, k, sz), sz)
    OBVIOUS
  <2>1. j \in 1 .. n /\ j < k
    BY DEF Fits
  <2> QED
    BY <2>1, FramesInRun
<1>3. PICK p \in Nat : p = Nth(v, k, sz)
  BY <1>1
<1>4. FrameFree(t, sys, p, sz)
  BY <1>1, <1>3 DEF FrameFree, RunFree, Filled, SameEntry
<1>5. ASSUME NEW u, Placed(t, u, sys, p, sz)
      PROVE  Filled(s, u, sys, v, k, sz)
  <2>1. /\ Sound(u, sys) /\ u.res = s.res /\ u.dead = s.dead
        /\ \A d \in Caps : s.slot[d] = "bare" => u.slot[d] = "bare"
        /\ \A d \in Caps : s.at[d] # NOWHERE => u.at[d] = s.at[d] /\ u.size[d] = s.size[d]
    BY <1>5 DEF Placed, Filled
  <2>2. u.levels <= s.levels
    <3>1. s.levels \in Nat /\ t.levels \in Nat /\ u.levels \in Nat
      BY <1>5 DEF States, Placed, Filled, Sound
    <3> QED
      BY <1>5, <3>1 DEF Placed, Filled
  <2>3. \A q \in Pages : q \notin Run(v, k, sz) => SameEntry(s, u, q)
    BY <1>1, <1>3, <1>5 DEF Placed, Filled, SameEntry
  <2>4. ASSUME NEW j \in 1 .. k
        PROVE  WholeIn(u, Nth(v, j, sz), sz)
    <3>1. CASE j = k
      <4>1. \A q \in FrameAt(p, sz) : Entry(t, q) \notin Caps
        BY <1>4 DEF FrameFree
      <4> QED
        BY <1>3, <1>5, <3>1, <4>1 DEF Placed, WholeIn, SameEntry
    <3>2. CASE j # k
      <4>1. j \in 1 .. k - 1
        BY <3>2
      <4>2. ASSUME NEW o \in FrameAt(Nth(v, j, sz), sz), Entry(u, o) \in Caps
            PROVE  u.at[Entry(u, o)] = Nth(v, j, sz) /\ u.size[Entry(u, o)] = sz
        <5>1. o \in Run(v, k - 1, sz) /\ o \notin FrameAt(p, sz)
          BY <1>2, <1>3, <4>1
        <5>2. o \in Pages
          BY <1>1, <5>1
        <5>3. Entry(u, o) = Entry(t, o)
          BY <1>5, <5>1, <5>2 DEF Placed, SameEntry
        <5>4. Entry(t, o) \in Caps => t.at[Entry(t, o)] = Nth(v, j, sz) /\ t.size[Entry(t, o)] = sz
          BY <4>1 DEF Filled, WholeIn
        <5>5. Entry(t, o) \in Caps => t.at[Entry(t, o)] # NOWHERE
          BY <5>2 DEF Filled, Sound, RecordsMapped, MapsPage
        <5> QED
          BY <1>5, <4>2, <5>3, <5>4, <5>5 DEF Placed
      <4> QED
        BY <4>2 DEF WholeIn
    <3> QED
      BY <3>1, <3>2
  <2>5. ASSUME NEW q \in Pages, Entry(u, q) = RESERVED
        PROVE  Entry(s, q) = RESERVED
    <3>1. RESERVED \notin Caps
      BY DEF RESERVED, Caps
    <3>2. SameEntry(t, u, q)
      BY <1>5, <2>5, <3>1 DEF Placed
    <3> QED
      BY <2>5, <3>2 DEF Filled, SameEntry
  <2> QED
    BY <2>1, <2>2, <2>3, <2>4, <2>5 DEF Filled
<1> QED
  BY <1>3, <1>4, <1>5 DEF Filled

(* A call starts with no error and no page. *)
Started(s) == [s EXCEPT !.err = FALSE, !.done = 0]

(* The loops of the calls that map pages, before what undoes them. *)
NewLoop(s, v, n, sz, mem) ==
  Repeat(LAMBDA q, k : NewPage(q, k, v, sz, mem), Started(s), n)

(* The loop that shares n frames. *)
ShareLoop(s, from, v, n, sz, mem) ==
  Repeat(LAMBDA q, k : SharePage(q, k, from, v, sz, mem),
         Started(s), n)

(* The loops of sel4utils_move_resize_reservation, and that of the clone. *)
Grown(s, r, v, n) == Repeat(LAMBDA t, k : GrowBy(t, v + k - 1, r), s, n)

(* The loop that gives m pages of a reservation back. *)
Shrunk(s, a, m, new) == Repeat(LAMBDA t, k : ShrinkBy(t, a + k - 1, new), s, m)

(* The loop that clones n pages. *)
Cloned(s, a, n, mem) == Repeat(LAMBDA t, j : ClonePage(t, a + j - 1, mem), s, n)

(* The turns of new_pages_at_vaddr. *)
LEMMA NewTurns ==
  ASSUME NEW s, NEW v, NEW n0, NEW sz, NEW mem, n0 \in Nat
  PROVE  \E f : /\ f[0] = Started(s)
                /\ \A k \in 1 .. n0 : f[k] = NewPage(f[k - 1], k, v, sz, mem)
                /\ NewLoop(s, v, n0, sz, mem) = f[n0]
<1> DEFINE n == n0
           z == Started(s)
           Turn(r, k) == NewPage(r, k, v, sz, mem)
           Good(m, f) == f = [k \in 0 .. m |-> IF k = 0 THEN z ELSE Turn(f[k - 1], k)]
           A == {m \in 0 .. n : \E f : Good(m, f)}
<1>1. PICK g : g = CHOOSE f : Good(n, f)
  OBVIOUS
<1>2. NewLoop(s, v, n0, sz, mem) = g[n]
  BY <1>1 DEF NewLoop, Repeat
<1>3. n \in Nat
  OBVIOUS
<1> HIDE DEF n, z, Turn
<1>4. 0 \in A
  <2>1. PICK f : f = [k \in 0 .. 0 |-> z]
    OBVIOUS
  <2>2. Good(0, f)
    BY <2>1
  <2> QED
    BY <2>2, <1>3
<1>5. ASSUME NEW m \in 1 .. n, m - 1 \in A
      PROVE  m \in A
  <2>1. PICK f : Good(m - 1, f)
    BY <1>5
  <2>2. PICK h : h = [k \in 0 .. m |-> IF k = m THEN Turn(f[m - 1], m) ELSE f[k]]
    OBVIOUS
  <2>3. ASSUME NEW k \in 0 .. m
        PROVE  h[k] = IF k = 0 THEN z ELSE Turn(h[k - 1], k)
    BY <1>3, <2>1, <2>2
  <2>4. Good(m, h)
    BY <2>2, <2>3
  <2> QED
    BY <2>4
<1>6. n \in A
  <2> HIDE DEF A
  <2> QED
    BY <1>3, <1>4, <1>5, Climb
<1>7. Good(n, g)
  BY <1>1, <1>6
<1>8. g[0] = z /\ \A k \in 1 .. n : g[k] = Turn(g[k - 1], k)
  BY <1>3, <1>7
<1> QED
  BY <1>2, <1>8 DEF n, z, Turn

(* The turns of sel4utils_share_mem_at_vaddr. *)
LEMMA ShareTurns ==
  ASSUME NEW s, NEW from, NEW v, NEW n0, NEW sz, NEW mem, n0 \in Nat
  PROVE  \E f : /\ f[0] = Started(s)
                /\ \A k \in 1 .. n0 : f[k] = SharePage(f[k - 1], k, from, v, sz, mem)
                /\ ShareLoop(s, from, v, n0, sz, mem) = f[n0]
<1> DEFINE n == n0
           z == Started(s)
           Turn(r, k) == SharePage(r, k, from, v, sz, mem)
           Good(m, f) == f = [k \in 0 .. m |-> IF k = 0 THEN z ELSE Turn(f[k - 1], k)]
           A == {m \in 0 .. n : \E f : Good(m, f)}
<1>1. PICK g : g = CHOOSE f : Good(n, f)
  OBVIOUS
<1>2. ShareLoop(s, from, v, n0, sz, mem) = g[n]
  BY <1>1 DEF ShareLoop, Repeat
<1>3. n \in Nat
  OBVIOUS
<1> HIDE DEF n, z, Turn
<1>4. 0 \in A
  <2>1. PICK f : f = [k \in 0 .. 0 |-> z]
    OBVIOUS
  <2>2. Good(0, f)
    BY <2>1
  <2> QED
    BY <2>2, <1>3
<1>5. ASSUME NEW m \in 1 .. n, m - 1 \in A
      PROVE  m \in A
  <2>1. PICK f : Good(m - 1, f)
    BY <1>5
  <2>2. PICK h : h = [k \in 0 .. m |-> IF k = m THEN Turn(f[m - 1], m) ELSE f[k]]
    OBVIOUS
  <2>3. ASSUME NEW k \in 0 .. m
        PROVE  h[k] = IF k = 0 THEN z ELSE Turn(h[k - 1], k)
    BY <1>3, <2>1, <2>2
  <2>4. Good(m, h)
    BY <2>2, <2>3
  <2> QED
    BY <2>4
<1>6. n \in A
  <2> HIDE DEF A
  <2> QED
    BY <1>3, <1>4, <1>5, Climb
<1>7. Good(n, g)
  BY <1>1, <1>6
<1>8. g[0] = z /\ \A k \in 1 .. n : g[k] = Turn(g[k - 1], k)
  BY <1>3, <1>7
<1> QED
  BY <1>2, <1>8 DEF n, z, Turn

(* The turns that grow a reservation. *)
LEMMA GrowTurns ==
  ASSUME NEW s, NEW r0, NEW v, NEW n0, n0 \in Nat
  PROVE  \E f : /\ f[0] = s
                /\ \A k \in 1 .. n0 : f[k] = GrowBy(f[k - 1], v + k - 1, r0)
                /\ Grown(s, r0, v, n0) = f[n0]
<1> DEFINE n == n0
           z == s
           Turn(r, k) == GrowBy(r, v + k - 1, r0)
           Good(m, f) == f = [k \in 0 .. m |-> IF k = 0 THEN z ELSE Turn(f[k - 1], k)]
           A == {m \in 0 .. n : \E f : Good(m, f)}
<1>1. PICK g : g = CHOOSE f : Good(n, f)
  OBVIOUS
<1>2. Grown(s, r0, v, n0) = g[n]
  BY <1>1 DEF Grown, Repeat
<1>3. n \in Nat
  OBVIOUS
<1> HIDE DEF n, z, Turn
<1>4. 0 \in A
  <2>1. PICK f : f = [k \in 0 .. 0 |-> z]
    OBVIOUS
  <2>2. Good(0, f)
    BY <2>1
  <2> QED
    BY <2>2, <1>3
<1>5. ASSUME NEW m \in 1 .. n, m - 1 \in A
      PROVE  m \in A
  <2>1. PICK f : Good(m - 1, f)
    BY <1>5
  <2>2. PICK h : h = [k \in 0 .. m |-> IF k = m THEN Turn(f[m - 1], m) ELSE f[k]]
    OBVIOUS
  <2>3. ASSUME NEW k \in 0 .. m
        PROVE  h[k] = IF k = 0 THEN z ELSE Turn(h[k - 1], k)
    BY <1>3, <2>1, <2>2
  <2>4. Good(m, h)
    BY <2>2, <2>3
  <2> QED
    BY <2>4
<1>6. n \in A
  <2> HIDE DEF A
  <2> QED
    BY <1>3, <1>4, <1>5, Climb
<1>7. Good(n, g)
  BY <1>1, <1>6
<1>8. g[0] = z /\ \A k \in 1 .. n : g[k] = Turn(g[k - 1], k)
  BY <1>3, <1>7
<1> QED
  BY <1>2, <1>8 DEF n, z, Turn

(* The turns that shrink a reservation. *)
LEMMA ShrinkTurns ==
  ASSUME NEW s, NEW a, NEW n0, NEW new, n0 \in Nat
  PROVE  \E f : /\ f[0] = s
                /\ \A k \in 1 .. n0 : f[k] = ShrinkBy(f[k - 1], a + k - 1, new)
                /\ Shrunk(s, a, n0, new) = f[n0]
<1> DEFINE n == n0
           z == s
           Turn(r, k) == ShrinkBy(r, a + k - 1, new)
           Good(m, f) == f = [k \in 0 .. m |-> IF k = 0 THEN z ELSE Turn(f[k - 1], k)]
           A == {m \in 0 .. n : \E f : Good(m, f)}
<1>1. PICK g : g = CHOOSE f : Good(n, f)
  OBVIOUS
<1>2. Shrunk(s, a, n0, new) = g[n]
  BY <1>1 DEF Shrunk, Repeat
<1>3. n \in Nat
  OBVIOUS
<1> HIDE DEF n, z, Turn
<1>4. 0 \in A
  <2>1. PICK f : f = [k \in 0 .. 0 |-> z]
    OBVIOUS
  <2>2. Good(0, f)
    BY <2>1
  <2> QED
    BY <2>2, <1>3
<1>5. ASSUME NEW m \in 1 .. n, m - 1 \in A
      PROVE  m \in A
  <2>1. PICK f : Good(m - 1, f)
    BY <1>5
  <2>2. PICK h : h = [k \in 0 .. m |-> IF k = m THEN Turn(f[m - 1], m) ELSE f[k]]
    OBVIOUS
  <2>3. ASSUME NEW k \in 0 .. m
        PROVE  h[k] = IF k = 0 THEN z ELSE Turn(h[k - 1], k)
    BY <1>3, <2>1, <2>2
  <2>4. Good(m, h)
    BY <2>2, <2>3
  <2> QED
    BY <2>4
<1>6. n \in A
  <2> HIDE DEF A
  <2> QED
    BY <1>3, <1>4, <1>5, Climb
<1>7. Good(n, g)
  BY <1>1, <1>6
<1>8. g[0] = z /\ \A k \in 1 .. n : g[k] = Turn(g[k - 1], k)
  BY <1>3, <1>7
<1> QED
  BY <1>2, <1>8 DEF n, z, Turn

(* The turns of the clone. *)
LEMMA CloneTurns ==
  ASSUME NEW s, NEW a, NEW n0, NEW mem, n0 \in Nat
  PROVE  \E f : /\ f[0] = s
                /\ \A k \in 1 .. n0 : f[k] = ClonePage(f[k - 1], a + k - 1, mem)
                /\ Cloned(s, a, n0, mem) = f[n0]
<1> DEFINE n == n0
           z == s
           Turn(r, k) == ClonePage(r, a + k - 1, mem)
           Good(m, f) == f = [k \in 0 .. m |-> IF k = 0 THEN z ELSE Turn(f[k - 1], k)]
           A == {m \in 0 .. n : \E f : Good(m, f)}
<1>1. PICK g : g = CHOOSE f : Good(n, f)
  OBVIOUS
<1>2. Cloned(s, a, n0, mem) = g[n]
  BY <1>1 DEF Cloned, Repeat
<1>3. n \in Nat
  OBVIOUS
<1> HIDE DEF n, z, Turn
<1>4. 0 \in A
  <2>1. PICK f : f = [k \in 0 .. 0 |-> z]
    OBVIOUS
  <2>2. Good(0, f)
    BY <2>1
  <2> QED
    BY <2>2, <1>3
<1>5. ASSUME NEW m \in 1 .. n, m - 1 \in A
      PROVE  m \in A
  <2>1. PICK f : Good(m - 1, f)
    BY <1>5
  <2>2. PICK h : h = [k \in 0 .. m |-> IF k = m THEN Turn(f[m - 1], m) ELSE f[k]]
    OBVIOUS
  <2>3. ASSUME NEW k \in 0 .. m
        PROVE  h[k] = IF k = 0 THEN z ELSE Turn(h[k - 1], k)
    BY <1>3, <2>1, <2>2
  <2>4. Good(m, h)
    BY <2>2, <2>3
  <2> QED
    BY <2>4
<1>6. n \in A
  <2> HIDE DEF A
  <2> QED
    BY <1>3, <1>4, <1>5, Climb
<1>7. Good(n, g)
  BY <1>1, <1>6
<1>8. g[0] = z /\ \A k \in 1 .. n : g[k] = Turn(g[k - 1], k)
  BY <1>3, <1>7
<1> QED
  BY <1>2, <1>8 DEF n, z, Turn

(* The loop of new_pages_at_vaddr. *)
LEMMA NewLoopFilled ==
  ASSUME NEW s, NEW sys, Sound(s, sys), NEW v, NEW n, NEW sz, Fits(v, n, sz),
         RunFree(s, sys, v, n, sz), NEW mem, NEW t, t = NewLoop(s, v, n, sz, mem)
  PROVE  Filled(s, t, sys, v, n, sz) /\ t.done \in 0 .. n
<1>1. n \in Nat /\ s \in States
  BY DEF Fits, Sound
<1>2. PICK f : /\ f[0] = Started(s)
               /\ \A k \in 1 .. n : f[k] = NewPage(f[k - 1], k, v, sz, mem)
               /\ NewLoop(s, v, n, sz, mem) = f[n]
  BY <1>1, NewTurns
<1> DEFINE A == {k \in 0 .. n : Filled(s, f[k], sys, v, k, sz) /\ f[k].done \in 0 .. k}
<1>3. 0 \in A
  <2>1. PICK no \in BOOLEAN : no = FALSE
    OBVIOUS
  <2>2. PICK z \in Nat : z = 0
    OBVIOUS
  <2>3. PICK g : g = f[0]
    OBVIOUS
  <2>4. g = Flagged(s, no, z)
    BY <1>2, <2>1, <2>2, <2>3 DEF Flagged, Started
  <2>5. SlotsChanged(s, g) /\ g.done = z /\ LeftAlone(s, g)
    BY <1>1, <2>4, FlagsSet
  <2>6. Filled(s, g, sys, v, 0, sz)
    BY <2>5, FilledNothing DEF LeftAlone
  <2> QED
    BY <1>1, <2>2, <2>3, <2>5, <2>6
<1>4. ASSUME NEW k \in 1 .. n, k - 1 \in A
      PROVE  k \in A
  <2>1. PICK a : a = f[k - 1]
    OBVIOUS
  <2>2. PICK b : b = f[k]
    OBVIOUS
  <2>3. b = NewPage(a, k, v, sz, mem)
    BY <1>2, <2>1, <2>2
  <2>4. Filled(s, a, sys, v, k - 1, sz) /\ a.done \in 0 .. k - 1
    BY <1>4, <2>1
  <2>5. PICK p \in Nat : p = Nth(v, k, sz)
    BY RunGrows
  <2>6. FramePlace(p, sz) /\ sz \in Nat /\ k \in Nat
    BY <1>1, <2>5, RunGrows
  <2>7. /\ Sound(a, sys) /\ FrameFree(a, sys, p, sz)
        /\ \A u : Placed(a, u, sys, p, sz) => Filled(s, u, sys, v, k, sz)
    BY <1>1, <2>4, <2>5, FilledStep
  <2>8. Placed(a, b, sys, p, sz) /\ NewPageEffect(a, b, k, p, sz)
    BY <2>3, <2>5, <2>6, <2>7, NewPagePlaced DEF Nth
  <2>9. Filled(s, b, sys, v, k, sz)
    BY <2>7, <2>8
  <2>10. b.done \in 0 .. k
    BY <2>4, <2>6, <2>8 DEF NewPageEffect
  <2> QED
    BY <2>2, <2>9, <2>10
<1>5. n \in A
  <2> HIDE DEF A
  <2> QED
    BY <1>1, <1>3, <1>4, Climb
<1> QED
  BY <1>2, <1>5

(* The loop of sel4utils_share_mem_at_vaddr. *)
LEMMA ShareLoopFilled ==
  ASSUME NEW s, NEW sys, Sound(s, sys), NEW v, NEW n, NEW sz, Fits(v, n, sz),
         RunFree(s, sys, v, n, sz), NEW from, NEW mem,
         NEW t, t = ShareLoop(s, from, v, n, sz, mem)
  PROVE  Filled(s, t, sys, v, n, sz) /\ t.done \in 0 .. n
<1>1. n \in Nat /\ s \in States
  BY DEF Fits, Sound
<1>2. PICK f : /\ f[0] = Started(s)
               /\ \A k \in 1 .. n : f[k] = SharePage(f[k - 1], k, from, v, sz, mem)
               /\ ShareLoop(s, from, v, n, sz, mem) = f[n]
  BY <1>1, ShareTurns
<1> DEFINE A == {k \in 0 .. n : Filled(s, f[k], sys, v, k, sz) /\ f[k].done \in 0 .. k}
<1>3. 0 \in A
  <2>1. PICK no \in BOOLEAN : no = FALSE
    OBVIOUS
  <2>2. PICK z \in Nat : z = 0
    OBVIOUS
  <2>3. PICK g : g = f[0]
    OBVIOUS
  <2>4. g = Flagged(s, no, z)
    BY <1>2, <2>1, <2>2, <2>3 DEF Flagged, Started
  <2>5. SlotsChanged(s, g) /\ g.done = z /\ LeftAlone(s, g)
    BY <1>1, <2>4, FlagsSet
  <2>6. Filled(s, g, sys, v, 0, sz)
    BY <2>5, FilledNothing DEF LeftAlone
  <2> QED
    BY <1>1, <2>2, <2>3, <2>5, <2>6
<1>4. ASSUME NEW k \in 1 .. n, k - 1 \in A
      PROVE  k \in A
  <2>1. PICK a : a = f[k - 1]
    OBVIOUS
  <2>2. PICK b : b = f[k]
    OBVIOUS
  <2>3. b = SharePage(a, k, from, v, sz, mem)
    BY <1>2, <2>1, <2>2
  <2>4. Filled(s, a, sys, v, k - 1, sz) /\ a.done \in 0 .. k - 1
    BY <1>4, <2>1
  <2>5. PICK p \in Nat : p = Nth(v, k, sz)
    BY RunGrows
  <2>6. FramePlace(p, sz) /\ sz \in Nat /\ k \in Nat
    BY <1>1, <2>5, RunGrows
  <2>7. /\ Sound(a, sys) /\ FrameFree(a, sys, p, sz)
        /\ \A u : Placed(a, u, sys, p, sz) => Filled(s, u, sys, v, k, sz)
    BY <1>1, <2>4, <2>5, FilledStep
  <2>8. Placed(a, b, sys, p, sz) /\ (b.done = a.done \/ b.done = k)
    BY <2>3, <2>5, <2>6, <2>7, SharePagePlaced DEF Nth
  <2>9. Filled(s, b, sys, v, k, sz)
    BY <2>7, <2>8
  <2>10. b.done \in 0 .. k
    BY <2>4, <2>6, <2>8
  <2> QED
    BY <2>2, <2>9, <2>10
<1>5. n \in A
  <2> HIDE DEF A
  <2> QED
    BY <1>1, <1>3, <1>4, Climb
<1> QED
  BY <1>2, <1>5

(* The loop of map_pages_at_vaddr, of frames that the caller holds. *)
LEMMA MapLoopFilled ==
  ASSUME NEW s, NEW sys, Sound(s, sys), NEW v, NEW caps, NEW sz, NEW n, n = Len(caps),
         Fits(v, n, sz), RunFree(s, sys, v, n, sz), NEW mem, NEW cookies \in BOOLEAN,
         \A k \in 1 .. n : caps[k] \in Caps /\ s.slot[caps[k]] \in {"frame", "copy"},
         NEW t, t = map_pages_at_vaddr(s, caps, cookies, v, sz, mem)
  PROVE  Filled(s, t, sys, v, n, sz) /\ t.slot = s.slot
<1>1. n \in Nat /\ s \in States
  BY DEF Fits, Sound
<1>2. PICK f : /\ f[0] = [s EXCEPT !.err = FALSE]
               /\ \A k \in 1 .. n : f[k] = MapOne(f[k - 1], caps[k], cookies, v + (k - 1) * sz, sz, mem)
               /\ map_pages_at_vaddr(s, caps, cookies, v, sz, mem) = f[n]
  BY <1>1, MapTurns
<1> DEFINE A == {k \in 0 .. n : Filled(s, f[k], sys, v, k, sz) /\ f[k].slot = s.slot}
<1>3. 0 \in A
  <2>1. PICK no \in BOOLEAN : no = FALSE
    OBVIOUS
  <2>2. PICK z \in Nat : z = s.done
    BY <1>1 DEF States
  <2>3. PICK g : g = f[0]
    OBVIOUS
  <2>4. g = [s EXCEPT !.err = no]
    BY <1>2, <2>1, <2>3
  <2>5. SlotsChanged(s, g) /\ g.done = z /\ LeftAlone(s, g)
    BY <1>1, <2>2, <2>4, FlagsSet
  <2>6. Filled(s, g, sys, v, 0, sz)
    BY <2>5, FilledNothing DEF LeftAlone
  <2> QED
    BY <1>1, <2>3, <2>5, <2>6 DEF LeftAlone
<1>4. ASSUME NEW k \in 1 .. n, k - 1 \in A
      PROVE  k \in A
  <2>1. PICK a : a = f[k - 1]
    OBVIOUS
  <2>2. PICK b : b = f[k]
    OBVIOUS
  <2>3. PICK c \in Caps : c = caps[k]
    OBVIOUS
  <2>4. Filled(s, a, sys, v, k - 1, sz) /\ a.slot = s.slot
    BY <1>4, <2>1
  <2>5. PICK p \in Nat : p = Nth(v, k, sz)
    BY RunGrows
  <2>6. FramePlace(p, sz) /\ sz \in Nat
    BY <2>5, RunGrows
  <2>7. /\ Sound(a, sys) /\ FrameFree(a, sys, p, sz)
        /\ \A u : Placed(a, u, sys, p, sz) => Filled(s, u, sys, v, k, sz)
    BY <1>1, <2>4, <2>5, FilledStep
  <2>8. b = MapOne(a, c, cookies, p, sz, mem)
    BY <1>2, <2>1, <2>2, <2>3, <2>5 DEF Nth
  <2>9. Placed(a, b, sys, p, sz) /\ b.slot = a.slot
    <3>1. a.slot[c] \in {"frame", "copy"}
      BY <2>3, <2>4
    <3> QED
      BY <2>6, <2>7, <2>8, <3>1, MapOnePlaced
  <2>10. Filled(s, b, sys, v, k, sz)
    BY <2>7, <2>9
  <2> QED
    BY <2>2, <2>4, <2>9, <2>10
<1>5. n \in A
  <2> HIDE DEF A
  <2>1. PICK m \in Nat : m = n
    BY <1>1
  <2>2. 0 \in A /\ \A k \in 1 .. m : k - 1 \in A => k \in A
    BY <1>3, <1>4, <2>1
  <2>3. \A k \in 0 .. m : k \in A
    BY <2>2, Climb
  <2> QED
    BY <2>1, <2>3
<1> QED
  BY <1>2, <1>5

-----------------------------------------------------------------------------
(* Unmapping runs of frames                                                *)

(* What m turns of sel4utils_unmap_pages have done: the frames recorded in *)
(* the run have left the kernel, and x is left of their entries.           *)
Emptied(s, t, sys, v, m, sz, x, free) ==
  /\ Sound(t, sys) /\ t.res = s.res /\ t.levels <= s.levels
  /\ \A q \in Pages : q \notin Run(v, m, sz) => SameEntry(s, t, q)
  /\ \A q \in Run(v, m, sz) :
       /\ Entry(s, q) \in Caps /\ Entry(t, q) = x /\ t.at[Entry(s, q)] = NOWHERE
       /\ t.slot[Entry(s, q)] = IF free THEN "free" ELSE s.slot[Entry(s, q)]
  /\ \A d \in Caps : (\A q \in Run(v, m, sz) : Entry(s, q) # d) =>
       t.slot[d] = s.slot[d] /\ t.at[d] = s.at[d] /\ t.size[d] = s.size[d]

(* The frames of a run lie in a reservation, or out of every one. *)
RunUnreserved(s, v, n, sz) == \A q \in Run(v, n, sz) : find_reserve(s, q) = {}

(* A run that nothing occupies lies out of every reservation. *)
Uniform(s, v, n, sz) == ~ Occupied(s, v) => RunUnreserved(s, v, n, sz)

(* One more turn, at a frame that is recorded whole. *)
LEMMA EmptiedStep ==
  ASSUME NEW s, NEW sys, Sound(s, sys), NEW v, NEW n, NEW sz, Fits(v, n, sz),
         \A j \in 1 .. n : Whole(s, Nth(v, j, sz), sz),
         NEW k \in 1 .. n, NEW reserved \in BOOLEAN, ~ reserved => RunUnreserved(s, v, n, sz),
         NEW x, x = LeftBy(reserved), NEW free \in BOOLEAN,
         NEW a, Emptied(s, a, sys, v, k - 1, sz, x, free),
         NEW b, b = UnmapOne(a, Nth(v, k, sz), sz, reserved, free), ~ b.dead
  PROVE  Emptied(s, b, sys, v, k, sz, x, free)
<1>1. /\ sz \in Nat /\ Nth(v, k, sz) \in Nat /\ FramePlace(Nth(v, k, sz), sz)
      /\ \A q : q \in Run(v, k, sz) <=> q \in Run(v, k - 1, sz) \/ q \in FrameAt(Nth(v, k, sz), sz)
      /\ \A q : ~ (q \in Run(v, k - 1, sz) /\ q \in FrameAt(Nth(v, k, sz), sz))
      /\ \A q \in Run(v, k, sz) : q \in Run(v, n, sz)
      /\ \A q \in Run(v, n, sz) : q \in Pages
      /\ Nth(v, k, sz) \in FrameAt(Nth(v, k, sz), sz)
  BY RunGrows
<1>2. PICK p \in Nat : p = Nth(v, k, sz)
  BY <1>1
<1>3. p \in Pages /\ p \notin Run(v, k - 1, sz) /\ Whole(s, p, sz)
  BY <1>1, <1>2
<1>4. PICK c : c = Entry(a, p)
  OBVIOUS
<1>5. c = Entry(s, p) /\ Sound(a, sys)
  BY <1>3, <1>4 DEF Emptied, SameEntry
<1>6. ASSUME c \in Caps
      PROVE  /\ a.at[c] # NOWHERE /\ \A q \in Run(v, k - 1, sz) : Entry(s, q) # c
             /\ a.at[c] = p /\ a.size[c] = sz /\ a.slot[c] = s.slot[c]
  <2>1. a.at[c] # NOWHERE
    BY <1>3, <1>4, <1>5, <1>6 DEF Sound, RecordsMapped, MapsPage
  <2>2. \A q \in Run(v, k - 1, sz) : Entry(s, q) # c
    BY <2>1 DEF Emptied
  <2> QED
    BY <1>3, <1>5, <1>6, <2>1, <2>2 DEF Emptied, Whole
<1>7. ~ reserved => Unreserved(a, p, sz)
  <2>1. \A q : find_reserve(a, q) = find_reserve(s, q)
    BY DEF Emptied, find_reserve
  <2> QED
    BY <1>1, <1>2, <2>1 DEF RunUnreserved, Unreserved
<1>8. /\ Sound(b, sys) /\ UnmapOneEffect(a, b, p, sz, c, x, free)
  <2>1. Whole(a, p, sz)
    BY <1>4, <1>6 DEF Whole
  <2>2. b = UnmapOne(a, p, sz, reserved, free)
    BY <1>2
  <2>3. FramePlace(p, sz)
    BY <1>1, <1>2
  <2>4. /\ Sound(b, sys)
        /\ UnmapOneEffect(a, b, p, sz, Entry(a, p), x, free)
    BY <1>1, <1>5, <1>7, <2>1, <2>2, <2>3, UnmapOneSound
  <2> QED
    BY <1>4, <2>4
<1>9. /\ b.res = s.res /\ c \in Caps
      /\ b.at[c] = NOWHERE /\ b.slot[c] = IF free THEN "free" ELSE a.slot[c]
      /\ \A d \in Caps : d # c => b.slot[d] = a.slot[d] /\ b.at[d] = a.at[d] /\ b.size[d] = a.size[d]
      /\ \A q \in Pages : q \notin FrameAt(p, sz) => SameEntry(a, b, q)
      /\ \A q \in FrameAt(p, sz) : Entry(a, q) = c /\ Entry(b, q) = x
  BY <1>8 DEF UnmapOneEffect, Emptied
<1>10. b.levels <= s.levels
  <2>1. s.levels \in Nat /\ a.levels \in Nat /\ b.levels \in Nat
    BY <1>5, <1>8 DEF States, Sound
  <2> QED
    BY <1>8, <2>1 DEF UnmapOneEffect, Emptied
<1>11. \A q \in Pages : q \notin Run(v, k, sz) => SameEntry(s, b, q)
  BY <1>1, <1>2, <1>9 DEF Emptied, SameEntry
<1>12. ASSUME NEW q \in Run(v, k, sz)
       PROVE  /\ Entry(s, q) \in Caps /\ Entry(b, q) = x /\ b.at[Entry(s, q)] = NOWHERE
              /\ b.slot[Entry(s, q)] = IF free THEN "free" ELSE s.slot[Entry(s, q)]
  <2>1. q \in Pages
    BY <1>1
  <2>2. CASE q \in Run(v, k - 1, sz)
    <3>1. q \notin FrameAt(p, sz) /\ Entry(s, q) # c
      BY <1>1, <1>2, <1>6, <1>9, <2>2
    <3> QED
      BY <1>9, <2>1, <2>2, <3>1 DEF Emptied, SameEntry
  <2>3. CASE q \notin Run(v, k - 1, sz)
    <3>1. q \in FrameAt(p, sz) /\ Entry(s, q) = Entry(a, q)
      BY <1>1, <1>2, <2>1, <2>3 DEF Emptied, SameEntry
    <3> QED
      BY <1>6, <1>9, <3>1
  <2> QED
    BY <2>2, <2>3
<1>13. \A d \in Caps : (\A q \in Run(v, k, sz) : Entry(s, q) # d) =>
         b.slot[d] = s.slot[d] /\ b.at[d] = s.at[d] /\ b.size[d] = s.size[d]
  BY <1>1, <1>2, <1>5, <1>9 DEF Emptied
<1> QED
  BY <1>8, <1>9, <1>10, <1>11, <1>12, <1>13 DEF Emptied

(* sel4utils_unmap_pages, turn by turn. *)
LEMMA UnmapPagesEmpties ==
  ASSUME NEW s, NEW sys, Sound(s, sys), NEW v, NEW n, NEW sz, Fits(v, n, sz),
         \A j \in 1 .. n : Whole(s, Nth(v, j, sz), sz), Uniform(s, v, n, sz),
         NEW free \in BOOLEAN, NEW t, t = unmap_pages(s, v, n, sz, free)
  PROVE  t.dead \/ Emptied(s, t, sys, v, n, sz, LeftBy(Occupied(s, v)), free)
<1>1. n \in Nat /\ v \in Nat /\ sz \in Nat /\ s.levels \in Nat
  BY Aligned DEF Fits, Sound, States
<1>2. PICK reserved \in BOOLEAN : reserved = Occupied(s, v)
  BY DEF Occupied
<1>3. PICK x : x = LeftBy(reserved)
  OBVIOUS
<1>4. ~ reserved => RunUnreserved(s, v, n, sz)
  BY <1>2 DEF Uniform
<1>5. PICK f : /\ f[0] = s
               /\ \A k \in 1 .. n : f[k] = UnmapTurn(f[k - 1], v + (k - 1) * sz, sz, Occupied(s, v), free)
               /\ unmap_pages(s, v, n, sz, free) = f[n]
  BY <1>1, UnmapTurns
<1> DEFINE A == {k \in 0 .. n : f[k].dead \/ Emptied(s, f[k], sys, v, k, sz, x, free)}
<1>6. 0 \in A
  <2>1. Emptied(s, s, sys, v, 0, sz, x, free)
    BY <1>1, RunEmpty DEF Emptied, SameEntry
  <2> QED
    BY <1>1, <1>5, <2>1
<1>7. ASSUME NEW k \in 1 .. n, k - 1 \in A
      PROVE  k \in A
  <2>1. PICK a : a = f[k - 1]
    OBVIOUS
  <2>2. PICK b : b = f[k]
    OBVIOUS
  <2>3. b = UnmapTurn(a, Nth(v, k, sz), sz, reserved, free)
    BY <1>2, <1>5, <2>1, <2>2 DEF Nth
  <2>4. a.dead \/ Emptied(s, a, sys, v, k - 1, sz, x, free)
    BY <1>7, <2>1
  <2>5. CASE a.dead
    <3>1. b = a
      BY <2>3, <2>5 DEF UnmapTurn
    <3>2. b.dead
      BY <2>5, <3>1
    <3> HIDE <2>3
    <3> QED
      BY <2>2, <3>2
  <2>6. CASE ~ a.dead /\ ~ b.dead
    <3>1. b = UnmapOne(a, Nth(v, k, sz), sz, reserved, free)
      BY <2>3, <2>6 DEF UnmapTurn
    <3>2. Emptied(s, a, sys, v, k - 1, sz, x, free)
      BY <2>4, <2>6
    <3>3. Emptied(s, b, sys, v, k, sz, x, free)
      BY <1>3, <1>4, <2>6, <3>1, <3>2, EmptiedStep
    <3> QED
      BY <2>2, <3>3
  <2> QED
    BY <2>2, <2>5, <2>6
<1>8. n \in A
  <2> HIDE DEF A
  <2> QED
    BY <1>1, <1>6, <1>7, Climb
<1> QED
  BY <1>2, <1>3, <1>5, <1>8

(* The same, unless an assertion fails. *)
LEMMA UnmapPagesEffect ==
  ASSUME NEW s, NEW sys, Sound(s, sys), NEW v, NEW n, NEW sz, Fits(v, n, sz),
         \A j \in 1 .. n : Whole(s, Nth(v, j, sz), sz), Uniform(s, v, n, sz),
         NEW free \in BOOLEAN, NEW t, t = unmap_pages(s, v, n, sz, free), ~ t.dead
  PROVE  Emptied(s, t, sys, v, n, sz, LeftBy(Occupied(s, v)), free)
BY UnmapPagesEmpties

-----------------------------------------------------------------------------
(* Calls that map pages                                                    *)

(* What a call does that maps pages of a run, whether or not it fails and  *)
(* undoes some of it. *)
PagesEffect(s, t, sys, v, n, sz) ==
  /\ Sound(t, sys) /\ t.res = s.res /\ t.levels <= s.levels
  /\ \A q \in Pages : q \notin Run(v, n, sz) => SameEntry(s, t, q)
  /\ ~ Occupied(s, v) => \A q \in Pages : Entry(t, q) = RESERVED => Entry(s, q) = RESERVED
  /\ \A j \in 1 .. n : WholeIn(t, Nth(v, j, sz), sz)
  /\ \A d \in Caps : s.slot[d] = "bare" => t.slot[d] = "bare"

(* Slots and flags may change after it. *)
LEMMA PagesThenSlots ==
  ASSUME NEW s, NEW sys, NEW u, NEW v, NEW n, NEW sz, Fits(v, n, sz),
         PagesEffect(s, u, sys, v, n, sz), NEW t, SlotsChanged(u, t),
         \A d \in Caps : u.slot[d] = "bare" => t.slot[d] = "bare"
  PROVE  PagesEffect(s, t, sys, v, n, sz)
<1>1. Sound(t, sys)
  BY SoundSlots DEF PagesEffect
<1>2. t.res = s.res /\ t.levels <= s.levels
  BY DEF PagesEffect, SlotsChanged
<1>3. \A q \in Pages : Entry(t, q) = Entry(u, q) /\ (SameEntry(s, u, q) => SameEntry(s, t, q))
  BY DEF SlotsChanged, SameEntry
<1>4. ASSUME NEW j \in 1 .. n
      PROVE  WholeIn(t, Nth(v, j, sz), sz)
  <2>1. PICK p \in Nat : p = Nth(v, j, sz)
    BY RunGrows
  <2>2. p # NOWHERE /\ WholeIn(u, p, sz)
    BY <2>1 DEF PagesEffect, NOWHERE
  <2>3. \A q \in FrameAt(p, sz) : q \in Pages
    BY <2>1, RunGrows
  <2> QED
    BY <1>3, <2>1, <2>2, <2>3 DEF WholeIn, SlotsChanged
<1> QED
  BY <1>1, <1>2, <1>3, <1>4 DEF PagesEffect

(* Nothing of it need be undone. *)
LEMMA FilledPages ==
  ASSUME NEW s, NEW sys, NEW t, NEW v, NEW n, NEW sz, Filled(s, t, sys, v, n, sz)
  PROVE  PagesEffect(s, t, sys, v, n, sz)
BY DEF Filled, PagesEffect

(* A shorter run. *)
LEMMA Shorter ==
  ASSUME NEW v, NEW n, NEW sz, Fits(v, n, sz), NEW k \in 0 .. n
  PROVE  /\ Fits(v, k, sz) /\ \A q \in Run(v, k, sz) : q \in Run(v, n, sz)
         /\ \A q \in Run(v, n, sz) : q \in Pages
         /\ \A j \in 1 .. n : \A q \in FrameAt(Nth(v, j, sz), sz) : q \in Run(v, n, sz)
<1>1. n \in Nat /\ v \in Nat /\ sz \in Nat
  BY Aligned DEF Fits
<1>2. CASE n = 0
  BY <1>1, <1>2, RunEmpty
<1>3. CASE n # 0
  <2>1. n \in 1 .. n /\ \A q \in Run(v, n, sz) : q \in Pages
    BY <1>1, <1>3, RunGrows
  <2>2. \A j \in 1 .. n : \A q \in FrameAt(Nth(v, j, sz), sz) : q \in Run(v, n, sz)
    BY RunGrows
  <2>3. CASE k = n
    BY <2>1, <2>2, <2>3
  <2>4. CASE k # n
    <3>1. PICK m \in 1 .. n : m = k + 1
      BY <1>1, <2>4
    <3>2. PICK l \in Nat : l = k
      BY <1>1
    <3>3. m - 1 = l
      BY <3>1, <3>2
    <3>4. Fits(v, m - 1, sz) /\ \A q \in Run(v, m - 1, sz) : q \in Run(v, n, sz)
      BY RunGrows
    <3> QED
      BY <2>1, <2>2, <3>2, <3>3, <3>4
  <2> QED
    BY <2>3, <2>4
<1> QED
  BY <1>2, <1>3

(* What has been mapped is undone for the first k frames. *)
LEMMA UndoEffect ==
  ASSUME NEW s, NEW sys, s \in States, NEW r, NEW v, NEW n, NEW sz, Fits(v, n, sz),
         Filled(s, r, sys, v, n, sz), Uniform(s, v, n, sz), NEW k \in 0 .. n,
         NEW free \in BOOLEAN, NEW u, u = unmap_pages(r, v, k, sz, free), ~ u.dead
  PROVE  /\ PagesEffect(s, u, sys, v, n, sz)
         /\ Emptied(r, u, sys, v, k, sz, LeftBy(Occupied(s, v)), free)
<1>1. /\ Fits(v, k, sz) /\ \A q \in Run(v, k, sz) : q \in Run(v, n, sz)
      /\ \A q \in Run(v, n, sz) : q \in Pages
      /\ \A j \in 1 .. n : \A q \in FrameAt(Nth(v, j, sz), sz) : q \in Run(v, n, sz)
  BY Shorter
<1>2. Occupied(r, v) = Occupied(s, v) /\ \A q : find_reserve(r, q) = find_reserve(s, q)
  BY DEF Occupied, find_reserve, Filled
<1>3. Uniform(r, v, k, sz)
  BY <1>1, <1>2 DEF Uniform, RunUnreserved
<1>4. \A j \in 1 .. k : Whole(r, Nth(v, j, sz), sz)
  <2>1. ASSUME NEW j \in 1 .. k
        PROVE  Whole(r, Nth(v, j, sz), sz)
    <3>1. j \in 1 .. n
      BY DEF Fits
    <3>2. WholeIn(r, Nth(v, j, sz), sz) /\ Nth(v, j, sz) \in FrameAt(Nth(v, j, sz), sz)
      BY <3>1, RunGrows DEF Filled
    <3> QED
      BY <3>2 DEF Whole, WholeIn
  <2> QED
    BY <2>1
<1>5. PICK x : x = LeftBy(Occupied(r, v))
  OBVIOUS
<1>6. Sound(r, sys)
  BY DEF Filled
<1>7. Emptied(r, u, sys, v, k, sz, x, free)
  BY <1>1, <1>3, <1>4, <1>5, <1>6, UnmapPagesEffect
<1>8. x \notin Caps /\ (~ Occupied(s, v) => x # RESERVED)
  BY <1>2, <1>5 DEF LeftBy, RESERVED, EMPTY, Caps
<1>9. u.levels <= s.levels
  <2>1. s.levels \in Nat /\ r.levels \in Nat /\ u.levels \in Nat
    BY <1>6, <1>7 DEF Emptied, Sound, States
  <2> QED
    BY <1>7, <2>1 DEF Emptied, Filled
<1>10. \A q \in Pages : q \notin Run(v, n, sz) => SameEntry(s, u, q)
  BY <1>1, <1>7 DEF Emptied, Filled, SameEntry
<1>11. ~ Occupied(s, v) => \A q \in Pages : Entry(u, q) = RESERVED => Entry(s, q) = RESERVED
  BY <1>7, <1>8 DEF Emptied, Filled, SameEntry
<1>12. ASSUME NEW j \in 1 .. n
       PROVE  WholeIn(u, Nth(v, j, sz), sz)
  <2>1. ASSUME NEW p \in FrameAt(Nth(v, j, sz), sz), Entry(u, p) \in Caps
        PROVE  u.at[Entry(u, p)] = Nth(v, j, sz) /\ u.size[Entry(u, p)] = sz
    <3>1. p \in Pages /\ p \notin Run(v, k, sz)
      BY <1>1, <1>7, <1>8, <2>1 DEF Emptied
    <3>2. Entry(u, p) = Entry(r, p)
      BY <1>7, <3>1 DEF Emptied, SameEntry
    <3>3. PICK d \in Caps : d = Entry(u, p)
      BY <2>1
    <3>4. u.at[d] # NOWHERE
      BY <1>7, <3>1, <3>3 DEF Emptied, Sound, RecordsMapped, MapsPage
    <3>5. u.at[d] = r.at[d] /\ u.size[d] = r.size[d]
      BY <1>7, <3>4 DEF Emptied
    <3> QED
      BY <3>2, <3>3, <3>5 DEF WholeIn, Filled
  <2> QED
    BY <2>1 DEF WholeIn
<1>13. ASSUME NEW d \in Caps, s.slot[d] = "bare"
       PROVE  u.slot[d] = "bare"
  <2>1. r.slot[d] = "bare"
    BY <1>13 DEF Filled
  <2>2. \A q \in Pages : Entry(r, q) # d
    BY <1>6, <2>1 DEF Sound, RecordsMapped, FramesPlaced, MapsPage
  <2> QED
    BY <1>1, <1>7, <2>1, <2>2 DEF Emptied
<1> QED
  BY <1>2, <1>5, <1>7, <1>9, <1>10, <1>11, <1>12, <1>13 DEF PagesEffect, Emptied, Filled

(* new_pages_at_vaddr. *)
LEMMA NewPagesAtEffect ==
  ASSUME NEW s, NEW sys, Sound(s, sys), NEW v, NEW n, NEW sz, Fits(v, n, sz),
         RunFree(s, sys, v, n, sz), Uniform(s, v, n, sz), NEW mem,
         NEW t, t = new_pages_at_vaddr(s, v, n, sz, mem), ~ t.dead
  PROVE  PagesEffect(s, t, sys, v, n, sz)
<1>1. PICK r : r = NewLoop(s, v, n, sz, mem)
  OBVIOUS
<1>2. PICK yes \in BOOLEAN : yes = TRUE
  OBVIOUS
<1>3. PICK u : u = IF r.done < n THEN unmap_pages(r, v, r.done, sz, yes) ELSE r
  OBVIOUS
<1>4. t = [u EXCEPT !.err = r.err, !.done = 0]
  <2> DEFINE Looped == NewLoop(s, v, n, sz, mem)
             Undone == IF Looped.done < n THEN unmap_pages(Looped, v, Looped.done, sz, TRUE) ELSE Looped
  <2>1. t = [Undone EXCEPT !.err = Looped.err, !.done = 0]
    BY DEF new_pages_at_vaddr, NewLoop, Started
  <2>2. Looped = r
    BY <1>1
  <2> HIDE DEF Looped
  <2>3. Undone = u
    BY <1>2, <1>3, <2>2
  <2> HIDE DEF Undone
  <2> QED
    BY <2>1, <2>2, <2>3
<1>5. Filled(s, r, sys, v, n, sz) /\ r.done \in 0 .. n /\ s \in States
  BY <1>1, NewLoopFilled DEF Sound
<1>6. ASSUME ~ u.dead
      PROVE  PagesEffect(s, u, sys, v, n, sz)
  <2>1. PICK k \in 0 .. n : k = r.done
    BY <1>5
  <2>2. CASE r.done < n
    <3>1. u = unmap_pages(r, v, k, sz, yes)
      BY <1>3, <2>1, <2>2
    <3> QED
      BY <1>5, <1>6, <3>1, UndoEffect
  <2>3. CASE ~ (r.done < n)
    BY <1>3, <1>5, <2>3, FilledPages
  <2> QED
    BY <2>2, <2>3
<1>7. ~ u.dead
  <2>1. t.dead = u.dead
    BY <1>4
  <2> QED
    BY <2>1
<1>8. u \in States /\ r \in States
  BY <1>5, <1>6, <1>7 DEF PagesEffect, Filled, Sound
<1>9. PICK e \in BOOLEAN : e = r.err
  BY <1>8 DEF States
<1>10. PICK z \in Nat : z = 0
  OBVIOUS
<1>11. t = Flagged(u, e, z)
  BY <1>4, <1>9, <1>10 DEF Flagged
<1>12. SlotsChanged(u, t) /\ LeftAlone(u, t)
  BY <1>8, <1>11, FlagsSet
<1> QED
  BY <1>6, <1>7, <1>12, PagesThenSlots DEF LeftAlone

(* sel4utils_share_mem_at_vaddr. *)
LEMMA SharePagesAtEffect ==
  ASSUME NEW s, NEW sys, Sound(s, sys), NEW v, NEW n, NEW sz, Fits(v, n, sz),
         RunFree(s, sys, v, n, sz), Uniform(s, v, n, sz), NEW from, NEW mem,
         NEW t, t = share_mem_at_vaddr(s, from, v, n, sz, mem), ~ t.dead
  PROVE  PagesEffect(s, t, sys, v, n, sz)
<1>1. PICK r : r = ShareLoop(s, from, v, n, sz, mem)
  OBVIOUS
<1>2. PICK yes \in BOOLEAN : yes = TRUE
  OBVIOUS
<1>3. PICK u : u = IF r.err THEN unmap_pages(r, v, r.done, sz, yes) ELSE r
  OBVIOUS
<1>4. t = [u EXCEPT !.err = r.err, !.done = 0]
  <2> DEFINE Looped == ShareLoop(s, from, v, n, sz, mem)
             Undone == IF Looped.err THEN unmap_pages(Looped, v, Looped.done, sz, TRUE) ELSE Looped
  <2>1. t = [Undone EXCEPT !.err = Looped.err, !.done = 0]
    BY DEF share_mem_at_vaddr, ShareLoop, Started
  <2>2. Looped = r
    BY <1>1
  <2> HIDE DEF Looped
  <2>3. Undone = u
    BY <1>2, <1>3, <2>2
  <2> HIDE DEF Undone
  <2> QED
    BY <2>1, <2>2, <2>3
<1>5. Filled(s, r, sys, v, n, sz) /\ r.done \in 0 .. n /\ s \in States
  BY <1>1, ShareLoopFilled DEF Sound
<1>6. ASSUME ~ u.dead
      PROVE  PagesEffect(s, u, sys, v, n, sz)
  <2>1. PICK k \in 0 .. n : k = r.done
    BY <1>5
  <2>2. CASE r.err
    <3>1. u = unmap_pages(r, v, k, sz, yes)
      BY <1>3, <2>1, <2>2
    <3> QED
      BY <1>5, <1>6, <3>1, UndoEffect
  <2>3. CASE ~ r.err
    BY <1>3, <1>5, <2>3, FilledPages
  <2> QED
    BY <2>2, <2>3
<1>7. ~ u.dead
  <2>1. t.dead = u.dead
    BY <1>4
  <2> QED
    BY <2>1
<1>8. u \in States /\ r \in States
  BY <1>5, <1>6, <1>7 DEF PagesEffect, Filled, Sound
<1>9. PICK e \in BOOLEAN : e = r.err
  BY <1>8 DEF States
<1>10. PICK z \in Nat : z = 0
  OBVIOUS
<1>11. t = Flagged(u, e, z)
  BY <1>4, <1>9, <1>10 DEF Flagged
<1>12. SlotsChanged(u, t) /\ LeftAlone(u, t)
  BY <1>8, <1>11, FlagsSet
<1> QED
  BY <1>6, <1>7, <1>12, PagesThenSlots DEF LeftAlone

-----------------------------------------------------------------------------
(* Finding and reserving a range                                           *)

(* What the tests of a range say of its entries. *)
LEMMA Available ==
  ASSUME NEW s \in States, NEW a, NEW b, \A q \in a .. b - 1 : q \in Pages
  PROVE  /\ is_available_range(s, a, b) <=> \A q \in a .. b - 1 : Entry(s, q) = EMPTY
         /\ is_reserved_range(s, a, b) <=> \A q \in a .. b - 1 : Entry(s, q) = RESERVED
<1>1. ASSUME NEW q \in Pages
      PROVE  /\ \/ s.top[INDEX(q)] = "empty" \/ s.top[INDEX(q)] = "reserved"
                \/ s.top[INDEX(q)] = "table"
             /\ RESERVED # EMPTY
  BY TablesCover DEF States, RESERVED, EMPTY
<1>2. ASSUME NEW q \in Pages
      PROVE  /\ Entry(s, q) = EMPTY <=> \/ s.top[INDEX(q)] = "empty"
                                        \/ s.top[INDEX(q)] = "table" /\ s.cap[q] = EMPTY
             /\ Entry(s, q) = RESERVED <=> \/ s.top[INDEX(q)] = "reserved"
                                           \/ s.top[INDEX(q)] = "table" /\ s.cap[q] = RESERVED
  <2>1. CASE s.top[INDEX(q)] = "table"
    BY <1>1, <2>1 DEF Entry
  <2>2. CASE s.top[INDEX(q)] = "reserved"
    BY <1>1, <2>2 DEF Entry
  <2>3. CASE s.top[INDEX(q)] = "empty"
    BY <1>1, <2>3 DEF Entry
  <2> QED
    BY <1>1, <2>1, <2>2, <2>3
<1> QED
  BY <1>2 DEF is_available_range, is_reserved_range

(* A free range is out of every reservation, and may be mapped. *)
LEMMA EmptyRun ==
  ASSUME NEW s, NEW sys, Sound(s, sys), NEW v, NEW n, NEW sz, Fits(v, n, sz), n >= 1,
         \A q \in Run(v, n, sz) : Entry(s, q) = EMPTY
  PROVE  RunFree(s, sys, v, n, sz) /\ ~ Occupied(s, v) /\ RunUnreserved(s, v, n, sz)
<1>1. \A q \in Run(v, n, sz) : q \in Pages
  BY Shorter DEF Fits
<1>2. EMPTY \notin Caps /\ RESERVED # EMPTY
  BY DEF EMPTY, RESERVED, Caps
<1>3. RunFree(s, sys, v, n, sz)
  BY <1>1, <1>2 DEF RunFree, Sound, SysReserved
<1>4. ASSUME NEW q \in Run(v, n, sz)
      PROVE  find_reserve(s, q) = {}
  <2>1. ASSUME NEW r \in find_reserve(s, q)
        PROVE  FALSE
    <3>1. r \in s.res /\ q >= r.start /\ q < r.end /\ r.start \in Nat /\ r.end \in Nat /\ q \in Nat
      BY <1>1, TablesCover DEF find_reserve, Sound, States, Reservations
    <3>2. q \in r.start .. r.end - 1
      BY <3>1
    <3> QED
      BY <3>1, <3>2 DEF Sound, ReservationsKept
  <2> QED
    BY <2>1
<1>5. v \in Run(v, n, sz)
  <2>1. v \in Nat /\ n \in Nat /\ sz \in Nat /\ sz >= 1
    BY Aligned DEF Fits
  <2>2. PICK c \in Nat : c = n * sz
    BY <2>1
  <2>3. c >= 1
    BY <2>1, <2>2
  <2> QED
    BY <2>1, <2>2, <2>3 DEF Run
<1> QED
  BY <1>3, <1>4, <1>5 DEF Occupied, RunUnreserved

(* What a search finds. *)
LEMMA FoundRange ==
  ASSUME NEW s, NEW sys, Sound(s, sys), NEW n \in Nat, n >= 1, NEW sz \in Sizes,
         RangesFrom(s, n, sz) # {}, NEW v, v = find_range(s, n, sz)
  PROVE  /\ Fits(v, n, sz) /\ v + n * sz < KernelStart /\ v + n * sz \in Nat
         /\ \A q \in Run(v, n, sz) : Entry(s, q) = EMPTY
<1>1. RangesFrom(s, n, sz) \in SUBSET Nat
  BY Constants DEF RangesFrom, Sound, States
<1>2. v \in RangesFrom(s, n, sz)
  <2>1. \E x \in RangesFrom(s, n, sz) : \A y \in RangesFrom(s, n, sz) : x <= y
    BY <1>1, LeastNat
  <2> QED
    BY <2>1 DEF find_range
<1>3. v \in Nat /\ sz \in Nat /\ sz >= 1
  BY <1>1, <1>2, Constants DEF Sizes
<1>4. /\ v % sz = 0 /\ v + n * sz < KernelStart /\ is_available_range(s, v, v + n * sz)
  BY <1>2 DEF RangesFrom
<1>5. PICK c \in Nat : c = n * sz
  BY <1>3
<1>6. Fits(v, n, sz)
  BY <1>3, <1>4, <1>5, Constants DEF Fits
<1>7. \A q \in v .. (v + n * sz) - 1 : q \in Pages
  BY <1>3, <1>4, <1>5, Constants DEF Pages
<1>8. \A q \in v .. (v + n * sz) - 1 : Entry(s, q) = EMPTY
  BY <1>4, <1>7, Available DEF Sound
<1> QED
  BY <1>3, <1>4, <1>5, <1>6, <1>8 DEF Run

-----------------------------------------------------------------------------
(* Calls                                                                   *)

(* Whatever was recorded still is. *)
Keeps(s, t) == \A p \in Pages : \A c \in Caps : Entry(s, p) = c => Entry(t, p) = c

(* Whatever was recorded still is, or is not mapped any more. *)
Kept(s, t) ==
  \A p \in Pages : \A c \in Caps : Entry(s, p) = c => Entry(t, p) = c \/ t.at[c] = NOWHERE

(* What every call must achieve. *)
Safe(s, t, sys) == Sound(t, sys) /\ Kept(s, t)

(* What a call that unmaps nothing achieves. *)
Grows(s, t, sys) == Sound(t, sys) /\ Keeps(s, t)

(* Nothing is lost step by step. *)
LEMMA KeepsThenKept ==
  ASSUME NEW s, NEW t, NEW u, Keeps(s, t)
  PROVE  /\ Keeps(t, u) => Keeps(s, u)
         /\ Kept(t, u) => Kept(s, u)
         /\ Kept(s, t)
BY DEF Keeps, Kept

(* What is not mapped stays so while only slots and reserved entries change. *)
LEMMA KeptThenSame ==
  ASSUME NEW s, NEW t, NEW u, Kept(s, t), Keeps(t, u),
         \A c \in Caps : t.at[c] = NOWHERE => u.at[c] = NOWHERE
  PROVE  Kept(s, u)
BY DEF Keeps, Kept

(* Slots that change lose nothing. *)
LEMMA SlotsKeep ==
  ASSUME NEW s, NEW sys, Sound(s, sys), NEW t, SlotsChanged(s, t)
  PROVE  Grows(s, t, sys) /\ \A c \in Caps : s.at[c] = NOWHERE => t.at[c] = NOWHERE
BY SoundSlots DEF Grows, Keeps, SlotsChanged, SameEntry

(* The error that a call returns. *)
LEMMA Returned ==
  ASSUME NEW s, NEW sys, Sound(s, sys), NEW e, e \in BOOLEAN, NEW t, t = [s EXCEPT !.err = e]
  PROVE  /\ SlotsChanged(s, t) /\ Grows(s, t, sys) /\ LeftAlone(s, t) /\ t.err = e
         /\ t.done = s.done
<1>1. s \in States /\ s.done \in Nat
  BY DEF Sound, States
<1>2. PICK n \in Nat : n = s.done
  BY <1>1
<1> QED
  BY <1>1, <1>2, FlagsSet, SlotsKeep

(* A call that is refused. *)
LEMMA Refused ==
  ASSUME NEW s, NEW sys, Sound(s, sys), NEW t, t = [s EXCEPT !.err = TRUE]
  PROVE  SlotsChanged(s, t) /\ Grows(s, t, sys) /\ LeftAlone(s, t) /\ t.err
<1>1. PICK e \in BOOLEAN : e = TRUE
  OBVIOUS
<1>2. t = [s EXCEPT !.err = e]
  BY <1>1
<1> QED
  BY <1>1, <1>2, Returned

(* Pages put where none were lose nothing. *)
LEMMA PagesKeep ==
  ASSUME NEW s, NEW sys, NEW v, NEW n, NEW sz, RunFree(s, sys, v, n, sz),
         NEW t, PagesEffect(s, t, sys, v, n, sz)
  PROVE  Grows(s, t, sys)
BY DEF RunFree, PagesEffect, Grows, Keeps, SameEntry

(* Where the search starts says nothing of the pages. *)
LEMMA LastSet ==
  ASSUME NEW s, NEW sys, Sound(s, sys), NEW x \in Nat, NEW t, t = LookedBack(s, x)
  PROVE  /\ SlotsChanged(s, t) /\ Sound(t, sys) /\ t.err = s.err /\ t.done = s.done
         /\ t.slot = s.slot /\ t.at = s.at /\ t.size = s.size
<1>1. t \in States /\ t.slot = s.slot /\ t.at = s.at /\ t.size = s.size
      /\ t.res = s.res /\ t.dead = s.dead /\ t.levels = s.levels
      /\ t.err = s.err /\ t.done = s.done
  BY DEF LookedBack, Sound, States
<1>2. \A p \in Pages : SameEntry(s, t, p)
  BY DEF LookedBack, SameEntry, Entry, get_cookie, Sound, States
<1>3. SlotsChanged(s, t)
  BY <1>1, <1>2 DEF SlotsChanged
<1> QED
  BY <1>1, <1>3, SoundSlots

(* A run that was empty, after pages were put there in vain. *)
LEMMA ClearedFirstEffect ==
  ASSUME NEW s, NEW sys, Sound(s, sys), NEW v, NEW n, NEW sz, Fits(v, n, sz), n >= 1,
         \A q \in Run(v, n, sz) : Entry(s, q) = EMPTY,
         NEW r, PagesEffect(s, r, sys, v, n, sz), NEW t, t = ClearedFirst(r, v, sz)
  PROVE  /\ Grows(s, t, sys) /\ t.dead = r.dead /\ t.err = r.err /\ t.res = s.res
         /\ t.slot = r.slot /\ t.at = r.at /\ t.size = r.size /\ t.levels = r.levels
         /\ \A p \in Pages : Entry(t, p) = Entry(r, p) \/ (p \in FrameAt(v, sz) /\ Entry(t, p) = EMPTY)
         /\ t.err => \A p \in FrameAt(v, sz) : Entry(t, p) = EMPTY
<1>1. RunFree(s, sys, v, n, sz) /\ ~ Occupied(s, v) /\ RunUnreserved(s, v, n, sz)
  BY EmptyRun
<1>2. Grows(s, r, sys) /\ Sound(r, sys) /\ r \in States
  BY <1>1, PagesKeep DEF Grows, Sound
<1>3. CASE ~ r.err
  BY <1>2, <1>3 DEF ClearedFirst, PagesEffect
<1>4. CASE r.err
  <2>1. PICK no \in BOOLEAN : no = FALSE
    OBVIOUS
  <2>2. PICK w : w = clear_entries_range(r, v, v + sz, FALSE)
    OBVIOUS
  <2>3. t = [w EXCEPT !.err = TRUE]
    BY <1>4, <2>2 DEF ClearedFirst
  <2>4. /\ v \in Nat /\ sz \in Nat /\ FramePlace(v, sz)
        /\ \A q \in FrameAt(v, sz) : q \in Run(v, n, sz) /\ q \in Pages
    <3>1. v \in Nat /\ sz \in Nat /\ 1 \in 1 .. n /\ Nth(v, 1, sz) = v
      BY Aligned DEF Fits, Nth
    <3>2. PICK j \in 1 .. n : j = 1
      BY <3>1
    <3>3. FramePlace(Nth(v, j, sz), sz)
      BY RunGrows
    <3>4. \A q \in FrameAt(Nth(v, j, sz), sz) : q \in Run(v, n, sz) /\ q \in Pages
      BY Shorter DEF Fits
    <3> QED
      BY <3>1, <3>2, <3>3, <3>4
  <2>5. PICK e \in Nat : e = v + sz
    BY <2>4
  <2>6. w = clear_entries_range(r, v, e, no)
    BY <2>1, <2>2, <2>5
  <2>7. \A q \in FrameAt(v, sz) : Entry(r, q) # RESERVED
    BY <1>1, <2>4 DEF PagesEffect, RESERVED, EMPTY
  <2>8. \A q \in FrameAt(v, sz) : Entry(w, q) = EMPTY
    BY <1>2, <2>1, <2>4, <2>5, <2>6, <2>7, ClearFrame
  <2>9. ClearEffect(r, w, FrameAt(v, sz), no)
    <3>1. v < e /\ e <= NumPages /\ v .. e - 1 = FrameAt(v, sz)
      BY <2>4, <2>5, FrameIsPart
    <3>2. ClearEffect(r, w, v .. e - 1, no)
      BY <1>2, <2>4, <2>5, <2>6, <3>1, ClearRangeEffect
    <3> QED
      BY <3>1, <3>2
  <2>10. w \in States /\ w.slot = r.slot /\ w.at = r.at /\ w.size = r.size /\ w.res = r.res
         /\ w.dead = r.dead /\ w.levels = r.levels
         /\ \A p \in Pages : p \notin FrameAt(v, sz) => SameEntry(r, w, p)
    BY <2>9 DEF ClearEffect, SameKernel
  <2>11. EMPTY \notin Caps /\ RESERVED # EMPTY
    BY DEF EMPTY, RESERVED, Caps
  <2>12. Sound(w, sys)
    <3>1. ReservationsKept(w, sys)
      <4>1. ASSUME NEW a \in w.res, NEW p \in a.start .. a.end - 1
            PROVE  Entry(w, p) # EMPTY
        <5>1. p \in Pages /\ a \in s.res /\ a \in r.res /\ p \notin sys
          BY <1>2, <2>10, <4>1, ReservedArePages DEF PagesEffect, Sound, ReservationsKept
        <5>2. Entry(s, p) # EMPTY
          BY <5>1 DEF Sound, ReservationsKept
        <5>3. p \notin FrameAt(v, sz)
          BY <2>4, <5>2
        <5>4. Entry(r, p) # EMPTY
          BY <1>2, <5>1 DEF Sound, ReservationsKept
        <5> QED
          BY <2>10, <5>1, <5>3, <5>4 DEF SameEntry
      <4>2. ReservationsKept(r, sys)
        BY <1>2 DEF Sound
      <4> QED
        BY <2>10, <4>1, <4>2 DEF ReservationsKept
    <3>2. SysReserved(w, sys)
      BY <1>1, <1>2, <2>4, <2>10 DEF SysReserved, Sound, SameEntry, RunFree
    <3>3. PICK C : C = {}
      OBVIOUS
    <3>4. PICK X : X = FrameAt(v, sz)
      OBVIOUS
    <3>5. \A p \in Pages : \A c \in Caps : p \in X /\ Entry(r, p) = c =>
            \A q \in FrameAt(r.at[c], r.size[c]) : q \in X
      <4>1. PICK j \in 1 .. n : Nth(v, j, sz) = v
        <5>1. 1 \in 1 .. n /\ Nth(v, 1, sz) = v
          BY <2>4 DEF Nth, Fits
        <5> QED
          BY <5>1
      <4>2. WholeIn(r, v, sz)
        BY <4>1 DEF PagesEffect
      <4> QED
        BY <3>4, <4>2 DEF WholeIn
    <3>6. \A p \in Pages : p \in X => Entry(w, p) \notin Caps
      BY <2>8, <2>11, <3>4
    <3>7. \A d \in Caps : d \notin C => w.slot[d] = r.slot[d] /\ w.at[d] = r.at[d] /\ w.size[d] = r.size[d]
      BY <2>10
    <3>8. \A d \in Caps : d \in C => w.at[d] = NOWHERE
      BY <3>3
    <3>9. \A p \in Pages : p \notin X => SameEntry(r, w, p) /\ Entry(r, p) \notin C
      BY <2>10, <3>3, <3>4
    <3> QED
      BY <1>2, <2>10, <3>1, <3>2, <3>5, <3>6, <3>7, <3>8, <3>9, SoundErase
  <2>13. SlotsChanged(w, t) /\ Grows(w, t, sys) /\ LeftAlone(w, t) /\ t.err
    BY <2>3, <2>12, Refused
  <2>14. Keeps(s, w)
    BY <1>1, <1>2, <2>4, <2>10 DEF Grows, Keeps, SameEntry, RunFree
  <2>15. Grows(s, t, sys)
    BY <2>13, <2>14, KeepsThenKept DEF Grows
  <2>16. \A p \in Pages : Entry(t, p) = Entry(w, p)
    BY <2>13 DEF SlotsChanged, SameEntry
  <2>17. \A p \in FrameAt(v, sz) : Entry(t, p) = EMPTY
    BY <2>4, <2>8, <2>16
  <2> QED
    BY <1>4, <2>8, <2>10, <2>13, <2>15, <2>16, <2>17 DEF LeftAlone, PagesEffect, SameEntry
<1> QED
  BY <1>3, <1>4

(* Even a page whose unmapping fails an assertion leaves a state. *)
LEMMA UnmapOneStates ==
  ASSUME NEW s \in States, NEW p \in Nat, NEW sz \in Nat, FramePlace(p, sz),
         NEW reserved \in BOOLEAN, NEW free \in BOOLEAN,
         NEW t, t = UnmapOne(s, p, sz, reserved, free)
  PROVE  t \in States
<1>1. PICK e \in Nat : e = p + sz
  OBVIOUS
<1>2. p < e /\ e <= NumPages
  BY <1>1, FrameIsPart
<1>3. PICK c : c = get_cap(s, p)
  OBVIOUS
<1>4. CASE c \notin Caps
  <2>1. t = [s EXCEPT !.dead = TRUE]
    BY <1>3, <1>4 DEF UnmapOne
  <2> QED
    BY <2>1 DEF States
<1>5. CASE c \in Caps
  <2>1. PICK z : z = IF free THEN FreeCap(s, c) ELSE [s EXCEPT !.at[c] = NOWHERE, !.size[c] = 1]
    OBVIOUS
  <2>2. PICK no \in BOOLEAN : no = FALSE
    OBVIOUS
  <2>3. PICK w : w = IF reserved THEN reserve_entries_range(z, p, e, no)
                     ELSE clear_entries_range(z, p, e, no)
    OBVIOUS
  <2>4. t = [w EXCEPT !.dead = w.dead \/ get_cap(w, p) = c]
    <3> DEFINE Left == IF free THEN FreeCap(s, get_cap(s, p))
                       ELSE [s EXCEPT !.at[get_cap(s, p)] = NOWHERE, !.size[get_cap(s, p)] = 1]
               Bare == IF reserved THEN reserve_entries_range(Left, p, p + sz, FALSE)
                       ELSE clear_entries_range(Left, p, p + sz, FALSE)
    <3>1. t = IF get_cap(s, p) \notin Caps THEN [s EXCEPT !.dead = TRUE]
              ELSE [Bare EXCEPT !.dead = @ \/ get_cap(Bare, p) = get_cap(s, p)]
      BY DEF UnmapOne
    <3>2. Left = z
      BY <1>3, <2>1
    <3> HIDE DEF Left
    <3>3. Bare = w
      BY <1>1, <2>2, <2>3, <3>2
    <3> HIDE DEF Bare
    <3> QED
      BY <1>3, <1>5, <3>1, <3>3
  <2>5. z \in States
    <3>1. PICK a2 \in [Caps -> Pages \cup {NOWHERE}] : a2 = [s.at EXCEPT ![c] = NOWHERE]
      BY <1>5 DEF States
    <3>2. PICK z2 \in [Caps -> Sizes] : z2 = [s.size EXCEPT ![c] = 1]
      BY <1>5 DEF States, Sizes
    <3>3. PICK l2 \in [Caps -> {"free", "bare", "frame", "copy"}] :
            l2 = IF free THEN [s.slot EXCEPT ![c] = "free"] ELSE s.slot
      BY <1>5 DEF States
    <3>4. z = [s EXCEPT !.slot = l2, !.at = a2, !.size = z2]
      BY <2>1, <3>1, <3>2, <3>3 DEF FreeCap, States
    <3> QED
      BY <3>4 DEF States
  <2>6. w \in States
    <3>1. CASE reserved
      <4>1. w = reserve_entries_range(z, p, e, no)
        BY <2>3, <3>1
      <4>2. ReserveEffect(z, w, p .. e - 1, no)
        BY <1>2, <2>5, <4>1, ReserveRangeEffect
      <4> QED
        BY <4>2 DEF ReserveEffect
    <3>2. CASE ~ reserved
      <4>1. w = clear_entries_range(z, p, e, no)
        BY <2>3, <3>2
      <4>2. ClearEffect(z, w, p .. e - 1, no)
        BY <1>2, <2>5, <4>1, ClearRangeEffect
      <4> QED
        BY <4>2 DEF ClearEffect
    <3> QED
      BY <3>1, <3>2
  <2>7. PICK b \in BOOLEAN : b = (w.dead \/ get_cap(w, p) = c)
    OBVIOUS
  <2>8. t = [w EXCEPT !.dead = b]
    BY <2>4, <2>7
  <2> QED
    BY <2>6, <2>8 DEF States
<1> QED
  BY <1>4, <1>5

(* So does a run of pages. *)
LEMMA UnmapPagesStates ==
  ASSUME NEW s \in States, NEW v, NEW n, NEW sz, Fits(v, n, sz), NEW free \in BOOLEAN,
         NEW t, t = unmap_pages(s, v, n, sz, free)
  PROVE  t \in States
<1>1. n \in Nat /\ v \in Nat /\ sz \in Nat
  BY Aligned DEF Fits
<1>2. PICK reserved \in BOOLEAN : reserved = Occupied(s, v)
  BY DEF Occupied
<1>3. PICK f : /\ f[0] = s
               /\ \A k \in 1 .. n : f[k] = UnmapTurn(f[k - 1], v + (k - 1) * sz, sz, Occupied(s, v), free)
               /\ unmap_pages(s, v, n, sz, free) = f[n]
  BY <1>1, UnmapTurns
<1> DEFINE A == {k \in 0 .. n : f[k] \in States}
<1>4. 0 \in A
  BY <1>1, <1>3
<1>5. ASSUME NEW k \in 1 .. n, k - 1 \in A
      PROVE  k \in A
  <2>1. PICK a \in States : a = f[k - 1]
    BY <1>5
  <2>2. PICK b : b = f[k]
    OBVIOUS
  <2>3. PICK p \in Nat : p = Nth(v, k, sz)
    BY RunGrows
  <2>4. FramePlace(p, sz)
    BY <2>3, RunGrows
  <2>5. b = UnmapTurn(a, p, sz, reserved, free)
    BY <1>2, <1>3, <2>1, <2>2, <2>3 DEF Nth
  <2>6. CASE a.dead
    <3>1. b = a
      BY <2>5, <2>6 DEF UnmapTurn
    <3>2. f[k] \in States
      BY <2>2, <3>1
    <3> QED
      BY <3>2
  <2>7. CASE ~ a.dead
    <3>1. b = UnmapOne(a, p, sz, reserved, free)
      BY <2>5, <2>7 DEF UnmapTurn
    <3>2. b \in States
      BY <1>1, <2>4, <3>1, UnmapOneStates
    <3> QED
      BY <2>2, <3>2
  <2> QED
    BY <2>6, <2>7
<1>6. n \in A
  <2> HIDE DEF A
  <2> QED
    BY <1>1, <1>4, <1>5, Climb
<1> QED
  BY <1>3, <1>6

(* And so do pages that are created and undone. *)
LEMMA NewPagesAtStates ==
  ASSUME NEW s, NEW sys, Sound(s, sys), NEW v, NEW n, NEW sz, Fits(v, n, sz),
         RunFree(s, sys, v, n, sz), NEW mem,
         NEW t, t = new_pages_at_vaddr(s, v, n, sz, mem)
  PROVE  t \in States
<1>1. PICK r : r = NewLoop(s, v, n, sz, mem)
  OBVIOUS
<1>2. PICK yes \in BOOLEAN : yes = TRUE
  OBVIOUS
<1>3. PICK u : u = IF r.done < n THEN unmap_pages(r, v, r.done, sz, yes) ELSE r
  OBVIOUS
<1>4. t = [u EXCEPT !.err = r.err, !.done = 0]
  <2> DEFINE Looped == NewLoop(s, v, n, sz, mem)
             Undone == IF Looped.done < n THEN unmap_pages(Looped, v, Looped.done, sz, TRUE) ELSE Looped
  <2>1. t = [Undone EXCEPT !.err = Looped.err, !.done = 0]
    BY DEF new_pages_at_vaddr, NewLoop, Started
  <2>2. Looped = r
    BY <1>1
  <2> HIDE DEF Looped
  <2>3. Undone = u
    BY <1>2, <1>3, <2>2
  <2> HIDE DEF Undone
  <2> QED
    BY <2>1, <2>2, <2>3
<1>5. r \in States /\ r.done \in 0 .. n
  BY <1>1, NewLoopFilled DEF Filled, Sound
<1>6. u \in States
  <2>1. PICK k \in 0 .. n : k = r.done
    BY <1>5
  <2>2. Fits(v, k, sz)
    BY Shorter
  <2>3. CASE r.done < n
    <3>1. u = unmap_pages(r, v, k, sz, yes)
      BY <1>3, <2>1, <2>3
    <3> QED
      BY <1>5, <2>2, <3>1, UnmapPagesStates
  <2> QED
    BY <1>3, <1>5, <2>3
<1>7. PICK e \in BOOLEAN : e = r.err
  BY <1>5 DEF States
<1>8. PICK z \in Nat : z = 0
  OBVIOUS
<1>9. t = Flagged(u, e, z)
  BY <1>4, <1>7, <1>8 DEF Flagged
<1> QED
  BY <1>6, <1>9, FlagsSet DEF SlotsChanged

(* ClearedFirst fails no assertion. *)
LEMMA ClearedFirstDead ==
  ASSUME NEW r \in States, NEW v, NEW n, NEW sz, Fits(v, n, sz), n >= 1,
         NEW t, t = ClearedFirst(r, v, sz)
  PROVE  t.dead = r.dead
<1>1. CASE ~ r.err
  BY <1>1 DEF ClearedFirst
<1>2. CASE r.err
  <2>1. PICK no \in BOOLEAN : no = FALSE
    OBVIOUS
  <2>2. PICK w : w = clear_entries_range(r, v, v + sz, FALSE)
    OBVIOUS
  <2>3. t = [w EXCEPT !.err = TRUE]
    BY <1>2, <2>2 DEF ClearedFirst
  <2>4. v \in Nat /\ sz \in Nat /\ FramePlace(v, sz)
    <3>1. v \in Nat /\ sz \in Nat /\ 1 \in 1 .. n /\ Nth(v, 1, sz) = v
      BY Aligned DEF Fits, Nth
    <3>2. PICK j \in 1 .. n : j = 1
      BY <3>1
    <3>3. FramePlace(Nth(v, j, sz), sz)
      BY RunGrows
    <3> QED
      BY <3>1, <3>2, <3>3
  <2>5. PICK e \in Nat : e = v + sz
    BY <2>4
  <2>6. w = clear_entries_range(r, v, e, no) /\ v < e /\ e <= NumPages
    BY <2>1, <2>2, <2>4, <2>5, FrameIsPart
  <2>7. ClearEffect(r, w, v .. e - 1, no)
    BY <2>4, <2>6, ClearRangeEffect
  <2> QED
    BY <2>3, <2>7 DEF ClearEffect, SameKernel, States
<1> QED
  BY <1>1, <1>2

(* vspace_new_pages. *)
LEMMA NewPagesGrows ==
  ASSUME NEW s, NEW sys, Sound(s, sys), NEW n \in Nat, n >= 1, NEW sz \in Sizes, NEW mem,
         NEW t, t = new_pages(s, n, sz, mem), ~ t.dead
  PROVE  Grows(s, t, sys)
<1>1. CASE RangesFrom(s, n, sz) = {}
  <2>1. t = [s EXCEPT !.err = TRUE]
    BY <1>1 DEF new_pages
  <2> QED
    BY <2>1, Refused
<1>2. CASE RangesFrom(s, n, sz) # {}
  <2>1. PICK v : v = find_range(s, n, sz)
    OBVIOUS
  <2>2. /\ Fits(v, n, sz) /\ v + n * sz \in Nat /\ \A q \in Run(v, n, sz) : Entry(s, q) = EMPTY
        /\ \A q \in Run(v, n, sz) : q \in Pages
    <3>1. Fits(v, n, sz) /\ v + n * sz \in Nat /\ \A q \in Run(v, n, sz) : Entry(s, q) = EMPTY
      BY <1>2, <2>1, FoundRange
    <3> QED
      BY <3>1, Shorter DEF Fits
  <2>3. PICK e \in Nat : e = v + n * sz
    BY <2>2
  <2>4. PICK a : a = LookedBack(s, e)
    OBVIOUS
  <2>5. a = TookRange(s, n, sz)
    BY <2>1, <2>3, <2>4 DEF TookRange, LookedBack
  <2>6. SlotsChanged(s, a) /\ Sound(a, sys) /\ Grows(s, a, sys)
    BY <2>4, LastSet, SlotsKeep
  <2>7. \A q \in Run(v, n, sz) : Entry(a, q) = EMPTY
    BY <2>2, <2>6 DEF SlotsChanged, SameEntry
  <2>8. RunFree(a, sys, v, n, sz) /\ Uniform(a, v, n, sz)
    BY <2>2, <2>6, <2>7, EmptyRun DEF Uniform
  <2>9. PICK r : r = new_pages_at_vaddr(a, v, n, sz, mem)
    OBVIOUS
  <2>10. t = ClearedFirst(r, v, sz)
    BY <1>2, <2>1, <2>5, <2>9 DEF new_pages
  <2>11. r \in States
    BY <2>2, <2>6, <2>8, <2>9, NewPagesAtStates
  <2>12. ~ r.dead
    BY <2>2, <2>10, <2>11, ClearedFirstDead
  <2>13. PagesEffect(a, r, sys, v, n, sz)
    BY <2>2, <2>6, <2>8, <2>9, <2>12, NewPagesAtEffect
  <2>14. Grows(a, t, sys)
    BY <2>2, <2>6, <2>7, <2>10, <2>13, ClearedFirstEffect
  <2> QED
    BY <2>6, <2>14, KeepsThenKept DEF Grows
<1> QED
  BY <1>1, <1>2

(* sel4utils_new_pages_at_vaddr, in a reservation or not. *)
LEMMA InReservation ==
  ASSUME NEW s, NEW sys, Sound(s, sys), NEW r \in s.res, NEW v \in Nat, NEW n \in Nat, n >= 1,
         NEW sz \in Sizes, v % sz = 0, check_reservation(s, r, v, v + n * sz)
  PROVE  /\ Fits(v, n, sz) /\ RunFree(s, sys, v, n, sz) /\ Uniform(s, v, n, sz) /\ Occupied(s, v)
         /\ \A q \in Run(v, n, sz) : Entry(s, q) = RESERVED
<1>1. sz \in Nat /\ sz >= 1
  BY Aligned
<1>2. PICK m \in Nat : m = n * sz
  BY <1>1
<1>3. m >= 1
  BY <1>1, <1>2
<1>4. v >= r.start /\ v + m <= r.end /\ is_reserved_range(s, v, v + m)
  BY <1>2 DEF check_reservation
<1>5. r.start \in Nat /\ r.end \in Nat /\ r.end <= KernelStart /\ KernelStart < NumPages
  BY Constants DEF Sound, States, Reservations, ReservationsKept
<1>6. Fits(v, n, sz)
  BY <1>2, <1>4, <1>5, Constants DEF Fits
<1>7. Run(v, n, sz) = v .. (v + m) - 1
  BY <1>2 DEF Run
<1>8. \A q \in v .. (v + m) - 1 : q \in Pages /\ q \in r.start .. r.end - 1
  BY <1>4, <1>5, Constants DEF Pages
<1>9. PICK e \in Nat : e = v + m
  BY <1>2
<1>10. \A q \in v .. e - 1 : Entry(s, q) = RESERVED
  <2>1. is_reserved_range(s, v, e) /\ s \in States
    BY <1>4, <1>9 DEF Sound
  <2>2. \A q \in v .. e - 1 : q \in Pages
    BY <1>8, <1>9
  <2> QED
    BY <2>1, <2>2, Available
<1>11. RESERVED \notin Caps
  BY DEF RESERVED, Caps
<1>12. RunFree(s, sys, v, n, sz)
  BY <1>7, <1>8, <1>9, <1>10, <1>11 DEF RunFree, Sound, ReservationsKept
<1>13. Occupied(s, v)
  <2>1. v >= r.start /\ v < r.end
    BY <1>3, <1>4, <1>5
  <2>2. r \in find_reserve(s, v)
    BY <2>1 DEF find_reserve
  <2> QED
    BY <2>2 DEF Occupied
<1> QED
  BY <1>6, <1>7, <1>9, <1>10, <1>12, <1>13 DEF Uniform

(* New pages, where a reservation of the caller is. *)
LEMMA NewPagesInReservation ==
  ASSUME NEW s, NEW sys, Sound(s, sys), NEW r \in s.res, NEW n \in Nat, n >= 1, NEW sz \in Sizes,
         NEW v \in Nat, v % sz = 0, check_reservation(s, r, v, v + n * sz), NEW mem,
         NEW t, t = new_pages_at_vaddr(s, v, n, sz, mem), ~ t.dead
  PROVE  Grows(s, t, sys)
<1>1. Fits(v, n, sz) /\ RunFree(s, sys, v, n, sz) /\ Uniform(s, v, n, sz)
  BY InReservation
<1>2. PagesEffect(s, t, sys, v, n, sz)
  BY <1>1, NewPagesAtEffect
<1> QED
  BY <1>1, <1>2, PagesKeep

(* Frames, to be mapped. *)
Ready(s, caps, n) ==
  /\ n \in Nat /\ n = Len(caps) /\ n >= 1
  /\ \A k \in 1 .. n : caps[k] \in Caps /\ s.slot[caps[k]] \in {"frame", "copy"}

(* sel4utils_map_pages. *)
LEMMA MapPagesGrows ==
  ASSUME NEW s, NEW sys, Sound(s, sys), NEW caps, NEW n, Ready(s, caps, n),
         NEW cookies \in BOOLEAN, NEW sz \in Sizes, NEW mem,
         NEW t, t = map_pages(s, caps, cookies, sz, mem)
  PROVE  /\ Grows(s, t, sys) /\ t.slot = s.slot
         /\ t.err /\ n = 1 => \A p \in Pages : Entry(t, p) \in Caps => Entry(s, p) = Entry(t, p)
<1>1. n \in Nat /\ n = Len(caps) /\ n >= 1
  BY DEF Ready
<1>2. CASE RangesFrom(s, n, sz) = {}
  <2>1. t = [s EXCEPT !.err = TRUE]
    BY <1>2, <1>1 DEF map_pages
  <2>2. SlotsChanged(s, t) /\ Grows(s, t, sys) /\ LeftAlone(s, t)
    BY <2>1, Refused
  <2> QED
    BY <2>2 DEF LeftAlone, SlotsChanged, SameEntry
<1>3. CASE RangesFrom(s, n, sz) # {}
  <2>1. PICK v : v = find_range(s, n, sz)
    OBVIOUS
  <2>2. /\ Fits(v, n, sz) /\ v + n * sz \in Nat /\ \A q \in Run(v, n, sz) : Entry(s, q) = EMPTY
        /\ \A q \in Run(v, n, sz) : q \in Pages
    <3>1. Fits(v, n, sz) /\ v + n * sz \in Nat /\ \A q \in Run(v, n, sz) : Entry(s, q) = EMPTY
      BY <1>3, <1>1, <2>1, FoundRange
    <3> QED
      BY <3>1, Shorter DEF Fits
  <2>3. PICK e \in Nat : e = v + n * sz
    BY <2>2
  <2>4. PICK a : a = LookedBack(s, e)
    OBVIOUS
  <2>5. a = TookRange(s, n, sz)
    BY <2>1, <2>3, <2>4 DEF TookRange, LookedBack
  <2>6. SlotsChanged(s, a) /\ Sound(a, sys) /\ Grows(s, a, sys) /\ a.slot = s.slot
    <3>1. SlotsChanged(s, a) /\ Sound(a, sys)
      BY <2>4, LastSet
    <3>2. a.slot = s.slot
      BY <2>4 DEF LookedBack, Sound, States
    <3> QED
      BY <3>1, <3>2, SlotsKeep
  <2>7. \A q \in Run(v, n, sz) : Entry(a, q) = EMPTY
    BY <2>2, <2>6 DEF SlotsChanged, SameEntry
  <2>8. RunFree(a, sys, v, n, sz)
    BY <1>1, <2>2, <2>6, <2>7, EmptyRun
  <2>9. PICK r : r = map_pages_at_vaddr(a, caps, cookies, v, sz, mem)
    OBVIOUS
  <2>10. t = ClearedFirst(r, v, sz)
    BY <1>3, <1>1, <2>1, <2>5, <2>9 DEF map_pages
  <2>11. Filled(a, r, sys, v, n, sz) /\ r.slot = a.slot
    <3>1. \A k \in 1 .. n : caps[k] \in Caps /\ a.slot[caps[k]] \in {"frame", "copy"}
      BY <2>6 DEF Ready
    <3> QED
      BY <1>1, <2>2, <2>6, <2>8, <2>9, <3>1, MapLoopFilled
  <2>12. PagesEffect(a, r, sys, v, n, sz)
    BY <2>11, FilledPages
  <2>13. /\ Grows(a, t, sys) /\ t.slot = r.slot
         /\ \A p \in Pages : Entry(t, p) = Entry(r, p) \/ (p \in FrameAt(v, sz) /\ Entry(t, p) = EMPTY)
         /\ t.err => \A p \in FrameAt(v, sz) : Entry(t, p) = EMPTY
    BY <1>1, <2>2, <2>6, <2>7, <2>10, <2>12, ClearedFirstEffect
  <2>14. ASSUME t.err, n = 1, NEW p \in Pages, Entry(t, p) \in Caps
         PROVE  Entry(s, p) = Entry(t, p)
    <3>1. EMPTY \notin Caps
      BY DEF EMPTY, Caps
    <3>2. p \notin FrameAt(v, sz) /\ Entry(t, p) = Entry(r, p)
      BY <2>13, <2>14, <3>1
    <3>3. p \notin Run(v, n, sz)
      <4>1. sz \in Nat
        BY Constants DEF Sizes
      <4> QED
        BY <2>14, <3>2, <4>1 DEF Run, FrameAt
    <3> QED
      BY <2>6, <2>11, <3>2, <3>3 DEF Filled, SameEntry, SlotsChanged
  <2> QED
    BY <2>6, <2>11, <2>13, <2>14, KeepsThenKept DEF Grows
<1> QED
  BY <1>2, <1>3

(* One or two slots, for the frames that a caller brings. *)
EnoughSlots(s, n) == n \in 1 .. 2 /\ Cardinality(FreeSlots(s)) >= n

(* The frames that a caller brings. *)
LEMMA BroughtFrames ==
  ASSUME NEW s, NEW sys, Sound(s, sys), NEW n, EnoughSlots(s, n),
         NEW caps, caps = Brought(s, n), NEW t, t = Bringing(s, caps)
  PROVE  /\ SlotsChanged(s, t) /\ Sound(t, sys) /\ Grows(s, t, sys)
         /\ Len(caps) = n /\ n \in Nat /\ n >= 1
         /\ \A k \in 1 .. n : caps[k] \in Caps /\ t.slot[caps[k]] \in {"frame", "copy"}
         /\ t.at = s.at /\ t.last = s.last /\ t.res = s.res
<1>1. FreeSlots(s) \subseteq Caps /\ IsFiniteSet(FreeSlots(s))
  <2>1. FreeSlots(s) \subseteq Caps
    BY DEF FreeSlots
  <2>2. IsFiniteSet(Caps)
    BY Constants, FS_Interval DEF Caps
  <2> QED
    BY <2>1, <2>2, FS_Subset
<1>2. PICK c : c = TakeSlot(s)
  OBVIOUS
<1>3. c \in FreeSlots(s)
  <2>1. FreeSlots(s) # {}
    BY FS_EmptySet DEF EnoughSlots
  <2> QED
    BY <1>2, <2>1, TakenIsFree DEF FreeSlots
<1>4. PICK a : a = WithSlot(s, c, "frame")
  OBVIOUS
<1>5. FreeSlots(a) = FreeSlots(s) \ {c}
  BY <1>1, <1>3, <1>4 DEF FreeSlots, WithSlot, Sound, States
<1>6. PICK d : d = TakeSlot(a)
  OBVIOUS
<1>7. n = 2 => d \in FreeSlots(a)
  <2>1. ASSUME n = 2, FreeSlots(a) = {}
        PROVE  FALSE
    <3>1. FreeSlots(s) = {c}
      BY <1>3, <1>5, <2>1
    <3>2. Cardinality(FreeSlots(s)) = 1
      BY <3>1, FS_Singleton
    <3> QED
      BY <2>1, <3>2 DEF EnoughSlots
  <2> QED
    BY <1>6, <2>1, TakenIsFree DEF FreeSlots
<1>8. caps = IF n = 1 THEN <<c>> ELSE <<c, d>>
  BY <1>2, <1>4, <1>6 DEF Brought, WithSlot
<1>9. /\ Len(caps) = n /\ \A k \in 1 .. n : caps[k] \in FreeSlots(s)
      /\ ToSet(caps) \subseteq FreeSlots(s) /\ \A k \in 1 .. n : caps[k] \in ToSet(caps)
  BY <1>3, <1>5, <1>7, <1>8 DEF ToSet, EnoughSlots
<1>10. PICK l : l = [x \in Caps |-> IF x \in ToSet(caps) THEN "frame" ELSE s.slot[x]]
  OBVIOUS
<1>11. /\ l \in [Caps -> {"free", "bare", "frame", "copy"}]
       /\ \A x \in Caps : l[x] = IF x \in ToSet(caps) THEN "frame" ELSE s.slot[x]
  BY <1>10 DEF Sound, States
<1>12. t = [s EXCEPT !.slot = l]
  BY <1>10 DEF Bringing
<1>13. t \in States /\ t.slot = l /\ t.at = s.at /\ t.size = s.size /\ t.res = s.res
       /\ t.dead = s.dead /\ t.levels = s.levels /\ t.last = s.last
       /\ t.top = s.top /\ t.cap = s.cap /\ t.cookie = s.cookie
  BY <1>11, <1>12 DEF Sound, States
<1>14. \A x \in Caps : x \in FreeSlots(s) => s.at[x] = NOWHERE
  BY DEF Sound, FramesPlaced, FreeSlots
<1>15. SlotsChanged(s, t)
  BY <1>9, <1>11, <1>13, <1>14 DEF SlotsChanged, SameEntry, Entry, get_cookie
<1> QED
  BY <1>1, <1>9, <1>11, <1>13, <1>15, SlotsKeep DEF Grows, EnoughSlots

(* map_pages_at_vaddr, in a reservation. *)
LEMMA MapPagesInReservation ==
  ASSUME NEW s, NEW sys, Sound(s, sys), NEW r \in s.res, NEW n, NEW sz \in Sizes,
         NEW v \in Nat, v % sz = 0, check_reservation(s, r, v, v + n * sz), NEW mem,
         EnoughSlots(s, n), NEW caps, caps = Brought(s, n),
         NEW cookies \in BOOLEAN,
         NEW t, t = map_pages_at_vaddr(Bringing(s, caps), caps, cookies, v, sz, mem)
  PROVE  Grows(s, t, sys)
<1>1. PICK a : a = Bringing(s, caps)
  OBVIOUS
<1>2. /\ SlotsChanged(s, a) /\ Sound(a, sys) /\ Grows(s, a, sys)
      /\ Len(caps) = n /\ n \in Nat /\ n >= 1
      /\ \A k \in 1 .. n : caps[k] \in Caps /\ a.slot[caps[k]] \in {"frame", "copy"}
  BY <1>1, BroughtFrames
<1>3. Fits(v, n, sz) /\ RunFree(s, sys, v, n, sz) /\ \A q \in Run(v, n, sz) : q \in Pages
  <2>1. Fits(v, n, sz) /\ RunFree(s, sys, v, n, sz)
    BY <1>2, InReservation
  <2> QED
    BY <2>1, Shorter DEF Fits
<1>4. RunFree(a, sys, v, n, sz)
  BY <1>2, <1>3 DEF RunFree, SlotsChanged, SameEntry
<1>5. t = map_pages_at_vaddr(a, caps, cookies, v, sz, mem)
  BY <1>1
<1>6. Filled(a, t, sys, v, n, sz)
  BY <1>2, <1>3, <1>4, <1>5, MapLoopFilled
<1>7. Grows(a, t, sys)
  BY <1>4, <1>6, FilledPages, PagesKeep
<1> QED
  BY <1>2, <1>7, KeepsThenKept DEF Grows

(* A capability that is freed, recorded nowhere. *)
LEMMA FreeUnrecorded ==
  ASSUME NEW s, NEW sys, Sound(s, sys), NEW c \in Caps, \A p \in Pages : Entry(s, p) # c,
         NEW t, t = FreeCap(s, c)
  PROVE  Grows(s, t, sys) /\ t.at[c] = NOWHERE /\ t.err = s.err /\ t.dead = s.dead
<1>1. PICK a2 \in [Caps -> Pages \cup {NOWHERE}] : a2 = [s.at EXCEPT ![c] = NOWHERE]
  BY DEF Sound, States
<1>2. PICK z2 \in [Caps -> Sizes] : z2 = [s.size EXCEPT ![c] = 1]
  BY DEF Sound, States, Sizes
<1>3. PICK l2 \in [Caps -> {"free", "bare", "frame", "copy"}] : l2 = [s.slot EXCEPT ![c] = "free"]
  BY DEF Sound, States
<1>4. t = WithKernel(s, l2, a2, z2)
  BY <1>1, <1>2, <1>3 DEF FreeCap, WithKernel, Sound, States
<1>5. /\ t \in States /\ t.slot = l2 /\ t.at = a2 /\ t.size = z2
      /\ t.res = s.res /\ t.dead = s.dead /\ t.err = s.err
      /\ t.top = s.top /\ t.cap = s.cap /\ t.cookie = s.cookie
  <2>1. KernelTypes(l2, a2, z2) /\ s \in States
    BY <1>1, <1>2, <1>3 DEF KernelTypes, Sound
  <2> QED
    BY <1>4, <2>1, KernelSet
<1>6. \A p \in Pages : SameEntry(s, t, p)
  BY <1>5 DEF SameEntry, Entry, get_cookie
<1>7. PICK C : C = {c}
  OBVIOUS
<1>8. PICK X : X = {}
  OBVIOUS
<1>9. \A d \in Caps : d \notin C => t.slot[d] = s.slot[d] /\ t.at[d] = s.at[d] /\ t.size[d] = s.size[d]
  BY <1>1, <1>2, <1>3, <1>5, <1>7
<1>10. \A d \in Caps : d \in C => t.at[d] = NOWHERE
  BY <1>1, <1>5, <1>7
<1>11. \A p \in Pages : p \notin X => SameEntry(s, t, p) /\ Entry(s, p) \notin C
  BY <1>6, <1>7
<1>12. ReservationsKept(t, sys)
  <2>1. \A r \in s.res : \A p \in r.start .. r.end - 1 : p \in Pages
    BY ReservedArePages DEF Sound
  <2> QED
    BY <1>5, <1>6, <2>1 DEF ReservationsKept, Sound, SameEntry
<1>13. SysReserved(t, sys)
  BY <1>6 DEF SysReserved, Sound, SameEntry
<1>14. Sound(t, sys)
  <2>1. \A p \in Pages : p \in X => Entry(t, p) \notin Caps
    BY <1>8
  <2>2. \A p \in Pages : \A d \in Caps : p \in X /\ Entry(s, p) = d =>
          \A q \in FrameAt(s.at[d], s.size[d]) : q \in X
    BY <1>8
  <2> QED
    BY <1>5, <1>9, <1>10, <1>11, <1>12, <1>13, <2>1, <2>2, SoundErase
<1> QED
  BY <1>1, <1>5, <1>6, <1>14 DEF Grows, Keeps, SameEntry

(* Every page of a run lies in one of its frames. *)
LEMMA RunFrames ==
  ASSUME NEW v, NEW n, NEW sz, Fits(v, n, sz), NEW q \in Run(v, n, sz)
  PROVE  \E k \in 1 .. n : q \in FrameAt(Nth(v, k, sz), sz)
<1>1. n \in Nat /\ v \in Nat /\ sz \in Nat
  BY Aligned DEF Fits
<1> DEFINE A == {m \in 0 .. n : q \in Run(v, m, sz) => \E k \in 1 .. m : q \in FrameAt(Nth(v, k, sz), sz)}
<1>2. 0 \in A
  BY <1>1, RunEmpty
<1>3. ASSUME NEW m \in 1 .. n, m - 1 \in A
      PROVE  m \in A
  <2>1. q \in Run(v, m, sz) <=> q \in Run(v, m - 1, sz) \/ q \in FrameAt(Nth(v, m, sz), sz)
    BY RunGrows
  <2>2. m \in 0 .. n /\ m \in 1 .. m /\ \A k \in 1 .. m - 1 : k \in 1 .. m
    BY <1>1
  <2> QED
    BY <1>3, <2>1, <2>2
<1>4. n \in A
  <2> HIDE DEF A
  <2> QED
    BY <1>1, <1>2, <1>3, Climb
<1> QED
  BY <1>4

(* Emptied entries go with their mappings. *)
LEMMA EmptiedKept ==
  ASSUME NEW s, NEW sys, NEW v, NEW n, NEW sz, NEW x, NEW free,
         NEW t, Emptied(s, t, sys, v, n, sz, x, free)
  PROVE  Safe(s, t, sys)
BY DEF Emptied, Safe, Kept, SameEntry

-----------------------------------------------------------------------------
(* Reservations                                                            *)

(* What perform_reservation makes of its arguments. *)
NewReservation(v, e, no) == [start |-> v, end |-> e, deferred |-> no]

(* A reservation that is made of empty entries. *)
Reserved(s, t, sys, v, e, deferred) ==
  /\ Grows(s, t, sys) /\ t.slot = s.slot /\ t.at = s.at /\ t.size = s.size /\ ~ t.err
  /\ t.res = s.res \cup {NewReservation(v, e, deferred)}
  /\ \A q \in v .. e - 1 : Entry(t, q) = RESERVED

(* What perform_reservation does to empty entries. *)
LEMMA PerformEffect ==
  ASSUME NEW s, NEW sys, Sound(s, sys), NEW v \in Nat, NEW n \in Nat, NEW e \in Nat, e = v + n,
         n >= 1, e <= KernelStart, \A q \in v .. e - 1 : Entry(s, q) = EMPTY,
         NEW deferred \in BOOLEAN,
         NEW t, t = perform_reservation(s, v, n, deferred), ~ t.dead
  PROVE  Reserved(s, t, sys, v, e, deferred)
<1>1. PICK yes \in BOOLEAN : yes = TRUE
  OBVIOUS
<1>2. PICK w : w = reserve_entries_range(s, v, e, yes)
  OBVIOUS
<1>3. PICK new \in Reservations : new = [start |-> v, end |-> e, deferred |-> deferred]
  BY DEF Reservations
<1>4. t = [w EXCEPT !.dead = w.dead \/ w.err, !.err = FALSE, !.res = w.res \cup {new}]
  <2> DEFINE Written == reserve_entries_range(s, v, v + n, TRUE)
  <2>1. t = [[Written EXCEPT !.dead = Written.dead \/ Written.err, !.err = FALSE] EXCEPT
               !.res = [Written EXCEPT !.dead = Written.dead \/ Written.err, !.err = FALSE].res
                         \cup {[start |-> v, end |-> v + n, deferred |-> deferred]}]
    BY DEF perform_reservation, Succeeded
  <2>2. Written = w
    BY <1>1, <1>2
  <2> HIDE DEF Written
  <2>3. w \in States
    <3>1. v < e /\ e <= NumPages
      BY Constants
    <3>2. ReserveEffect(s, w, v .. e - 1, yes)
      BY <1>2, <3>1, ReserveRangeEffect DEF Sound
    <3> QED
      BY <3>2 DEF ReserveEffect
  <2>4. [w EXCEPT !.dead = w.dead \/ w.err, !.err = FALSE].res = w.res
    BY <2>3 DEF States
  <2>5. new = [start |-> v, end |-> v + n, deferred |-> deferred]
    BY <1>3
  <2> QED
    BY <2>1, <2>2, <2>4, <2>5
<1>5. ReserveEffect(s, w, v .. e - 1, yes)
  <2>1. v < e /\ e <= NumPages
    BY Constants
  <2> QED
    BY <1>2, <2>1, ReserveRangeEffect DEF Sound
<1>6. /\ w \in States /\ w.slot = s.slot /\ w.at = s.at /\ w.size = s.size /\ w.res = s.res
      /\ ~ w.err => \A q \in v .. e - 1 : Entry(w, q) = RESERVED
  BY <1>5 DEF ReserveEffect, SameKernel
<1>7. PICK b \in BOOLEAN : b = (w.dead \/ w.err)
  OBVIOUS
<1>8. PICK z \in BOOLEAN : z = FALSE
  OBVIOUS
<1>9. PICK all \in SUBSET Reservations : all = w.res \cup {new}
  BY <1>6 DEF States
<1>10. t = [w EXCEPT !.dead = b, !.err = z, !.res = all]
  BY <1>4, <1>7, <1>8, <1>9
<1>11. /\ t \in States /\ t.slot = s.slot /\ t.at = s.at /\ t.size = s.size /\ t.res = all
       /\ ~ t.err /\ t.dead = b /\ t.top = w.top /\ t.cap = w.cap /\ t.cookie = w.cookie
  BY <1>6, <1>8, <1>10 DEF States
<1>12. ~ w.err
  BY <1>7, <1>11
<1>13. \A p \in Pages : SameEntry(w, t, p)
  BY <1>11 DEF SameEntry, Entry, get_cookie
<1>14. \A q \in v .. e - 1 : q \in Pages /\ q < KernelStart
  BY Constants DEF Pages
<1>15. \A q \in v .. e - 1 : Entry(t, q) = RESERVED /\ q \notin sys
  BY <1>6, <1>12, <1>13, <1>14 DEF SameEntry, Sound, SysReserved, RESERVED, EMPTY
<1>16. Sound(w, sys) /\ Keeps(s, w)
  <2>1. Sound(w, sys)
    BY <1>1, <1>5, SoundReserve
  <2>2. EMPTY \notin Caps
    BY DEF EMPTY, Caps
  <2> QED
    BY <1>1, <1>5, <2>1, <2>2 DEF Keeps, ReserveEffect, SameEntry
<1>17. ASSUME NEW r \in s.res
       PROVE  r.end <= v \/ e <= r.start
  <2>1. r.start \in Nat /\ r.end \in Nat /\ r.start < r.end
    BY DEF Sound, States, Reservations, ReservationsKept
  <2>2. \A q \in r.start .. r.end - 1 : Entry(s, q) # EMPTY
    BY DEF Sound, ReservationsKept
  <2>3. CASE r.start >= v
    <3>1. r.start \notin v .. e - 1
      BY <2>1, <2>2
    <3> QED
      BY <2>1, <2>3, <3>1
  <2>4. CASE r.start < v
    <3>1. v \in v .. e - 1
      OBVIOUS
    <3>2. v \notin r.start .. r.end - 1
      BY <2>2, <3>1
    <3> QED
      BY <2>1, <2>4, <3>2
  <2> QED
    BY <2>1, <2>3, <2>4
<1>18. ReservationsKept(t, sys)
  <2>1. new.start = v /\ new.end = e /\ new.start < new.end /\ new.end <= KernelStart
    BY <1>3
  <2>2. \A r \in all : r = new \/ r \in s.res
    BY <1>6, <1>9
  <2>3. \A r \in s.res : /\ r.start < r.end /\ r.end <= KernelStart
                         /\ \A q \in s.res : q = r \/ q.end <= r.start \/ r.end <= q.start
                         /\ \A p \in r.start .. r.end - 1 : Entry(w, p) # EMPTY /\ p \notin sys
    BY <1>6, <1>16 DEF Sound, ReservationsKept
  <2>4. \A r \in s.res : \A p \in r.start .. r.end - 1 : p \in Pages
    BY ReservedArePages DEF Sound
  <2>5. \A r \in s.res : \A p \in r.start .. r.end - 1 : Entry(t, p) # EMPTY /\ p \notin sys
    BY <1>13, <2>3, <2>4 DEF SameEntry
  <2>6. \A p \in new.start .. new.end - 1 : Entry(t, p) # EMPTY /\ p \notin sys
    BY <1>15, <2>1 DEF RESERVED, EMPTY
  <2>7. ASSUME NEW r \in all, NEW q \in all
        PROVE  q = r \/ q.end <= r.start \/ r.end <= q.start
    <3>1. CASE r = new /\ q = new
      BY <3>1
    <3>2. CASE r = new /\ q \in s.res
      BY <1>17, <2>1, <3>2
    <3>3. CASE r \in s.res /\ q = new
      BY <1>17, <2>1, <3>3
    <3>4. CASE r \in s.res /\ q \in s.res
      BY <2>3, <3>4
    <3> QED
      BY <2>2, <3>1, <3>2, <3>3, <3>4
  <2>8. \A r \in all : /\ r.start < r.end /\ r.end <= KernelStart
                       /\ \A p \in r.start .. r.end - 1 : Entry(t, p) # EMPTY /\ p \notin sys
    BY <2>1, <2>2, <2>3, <2>5, <2>6
  <2> QED
    BY <1>11, <2>7, <2>8 DEF ReservationsKept
<1>19. SysReserved(t, sys)
  BY <1>13, <1>16 DEF Sound, SysReserved, SameEntry
<1>20. Sound(t, sys)
  <2>1. t.slot = w.slot /\ t.at = w.at /\ t.size = w.size
    BY <1>6, <1>11
  <2>2. \A p \in Pages : SameEntry(w, t, p) \/ (Entry(w, p) \notin Caps /\ Entry(t, p) \notin Caps)
    BY <1>13
  <2> QED
    BY <1>11, <1>16, <1>18, <1>19, <2>1, <2>2, SoundTables
<1>21. Keeps(s, t)
  BY <1>13, <1>16 DEF Keeps, SameEntry
<1> QED
  BY <1>3, <1>6, <1>9, <1>11, <1>15, <1>20, <1>21 DEF Reserved, Grows, NewReservation

(* free_reservation. *)
Unreserving(s, t, sys, r) ==
  /\ Grows(s, t, sys) /\ t.slot = s.slot /\ t.at = s.at /\ t.size = s.size
  /\ t.res = s.res \ {r} /\ t.err = s.err /\ t.dead = s.dead
  /\ \A p \in Pages : Entry(t, p) = Entry(s, p) \/ Entry(t, p) = EMPTY

(* What free_reservation does. *)
LEMMA FreeReservationEffect ==
  ASSUME NEW s, NEW sys, Sound(s, sys), NEW r \in s.res, NEW t, t = free_reservation(s, r)
  PROVE  Unreserving(s, t, sys, r)
<1>1. PICK yes \in BOOLEAN : yes = TRUE
  OBVIOUS
<1>2. PICK a \in Nat : a = r.start
  BY DEF Sound, States, Reservations
<1>3. PICK b \in Nat : b = r.end
  BY DEF Sound, States, Reservations
<1>4. PICK w : w = clear_entries_range(s, a, b, yes)
  OBVIOUS
<1>5. t = [w EXCEPT !.res = w.res \ {r}, !.err = s.err]
  BY <1>1, <1>2, <1>3, <1>4 DEF free_reservation
<1>6. a < b /\ b <= NumPages /\ \A p \in a .. b - 1 : p \in Pages /\ p \notin sys
  <2>1. r.start < r.end /\ r.end <= KernelStart
    BY DEF Sound, ReservationsKept
  <2>2. \A p \in r.start .. r.end - 1 : p \in Pages /\ p \notin sys
    BY ReservedArePages DEF Sound, ReservationsKept
  <2> QED
    BY <1>2, <1>3, <2>1, <2>2, Constants
<1>7. ClearEffect(s, w, a .. b - 1, yes)
  BY <1>4, <1>6, ClearRangeEffect DEF Sound
<1>8. w \in States /\ w.slot = s.slot /\ w.at = s.at /\ w.size = s.size /\ w.res = s.res
      /\ w.dead = s.dead
  BY <1>7 DEF ClearEffect, SameKernel
<1>9. PICK all \in SUBSET Reservations : all = w.res \ {r}
  BY <1>8 DEF States
<1>10. PICK e \in BOOLEAN : e = s.err
  BY DEF Sound, States
<1>11. t = [w EXCEPT !.res = all, !.err = e]
  BY <1>5, <1>9, <1>10
<1>12. /\ t \in States /\ t.slot = w.slot /\ t.at = w.at /\ t.size = w.size /\ t.res = all
       /\ t.err = e /\ t.dead = w.dead /\ t.top = w.top /\ t.cap = w.cap /\ t.cookie = w.cookie
  BY <1>8, <1>11 DEF States
<1>13. \A p \in Pages : SameEntry(w, t, p)
  BY <1>12 DEF SameEntry, Entry, get_cookie
<1>14. PICK X : X = a .. b - 1
  OBVIOUS
<1>15. ASSUME NEW q \in all
       PROVE  q \in s.res /\ \A p \in q.start .. q.end - 1 : p \notin X
  <2>1. q \in s.res /\ q # r
    BY <1>8, <1>9
  <2>2. q.end <= r.start \/ r.end <= q.start
    BY <2>1 DEF Sound, ReservationsKept
  <2>3. q.start \in Nat /\ q.end \in Nat
    BY <2>1 DEF Sound, States, Reservations
  <2> QED
    BY <1>2, <1>3, <1>14, <2>1, <2>2, <2>3
<1>16. Sound(t, sys)
  <2>1. \A q \in t.res : q \in s.res /\ \A p \in q.start .. q.end - 1 : p \notin X
    BY <1>12, <1>15
  <2>2. \A p \in X : p \notin sys
    BY <1>6, <1>14
  <2>3. ClearEffect(s, w, X, yes)
    BY <1>7, <1>14
  <2> QED
    BY <1>1, <1>12, <1>13, <2>1, <2>2, <2>3, SoundClearReserved
<1>17. \A p \in Pages : Entry(t, p) = Entry(s, p) \/ (Entry(t, p) = EMPTY /\ Entry(s, p) = RESERVED)
  BY <1>1, <1>7, <1>13 DEF ClearEffect, SameEntry
<1>18. Keeps(s, t)
  <2>1. RESERVED \notin Caps
    BY DEF RESERVED, Caps
  <2> QED
    BY <1>17, <2>1 DEF Keeps
<1> QED
  BY <1>8, <1>9, <1>10, <1>12, <1>16, <1>17, <1>18 DEF Unreserving, Grows

(* The frames that a range needs. *)
LEMMA RoundedUp ==
  ASSUME NEW n \in Nat, n >= 1, NEW sz \in Sizes, NEW k, k = (n + sz - 1) \div sz
  PROVE  k \in Nat /\ k >= 1 /\ n <= k * sz /\ k * sz <= n + sz - 1
<1>1. CASE sz = 1
  <2>1. k = n
    BY <1>1
  <2> QED
    BY <1>1, <2>1
<1>2. CASE sz # 1
  <2>1. sz = LevelSize /\ sz \in Nat /\ sz > 1
    BY <1>2, Constants DEF Sizes
  <2>2. PICK m \in Int : m = n + sz - 1
    BY <2>1
  <2>3. PICK d \in Nat : d = sz
    BY <2>1
  <2>4. d > 1
    BY <2>1, <2>3
  <2>5. m \div d \in Int /\ m % d \in 0 .. d - 1 /\ m = d * (m \div d) + (m % d)
    BY <2>4, DivMod
  <2>6. PICK j \in Int : j = m \div sz
    BY <2>3, <2>5
  <2>7. PICK x \in 0 .. sz - 1 : x = m % sz
    BY <2>3, <2>5
  <2>8. m = sz * j + x
    BY <2>6, <2>7, <2>3, <2>5
  <2>9. k = j
    BY <2>2, <2>6
  <2>10. PICK c \in Int : c = sz * j
    BY <2>1
  <2>11. c >= n /\ c <= m
    BY <2>1, <2>2, <2>8, <2>10
  <2>12. j >= 1
    <3>1. j < 1 => sz * j <= 0
      BY <2>1
    <3> QED
      BY <2>10, <2>11, <3>1
  <2>13. j * sz = c
    BY <2>1, <2>10
  <2> QED
    BY <2>2, <2>9, <2>11, <2>12, <2>13
<1> QED
  BY <1>1, <1>2

(* A whole number of frames needs no more. *)
LEMMA RoundedSame ==
  ASSUME NEW n \in Nat, n >= 1, NEW sz \in Sizes
  PROVE  n * sz \in Nat /\ n * sz >= 1 /\ (n * sz + sz - 1) \div sz = n
<1>1. sz \in Nat /\ sz >= 1
  BY Constants DEF Sizes
<1>2. PICK m \in Nat : m = n * sz
  BY <1>1
<1>3. m >= 1
  BY <1>1, <1>2
<1>4. PICK k : k = (m + sz - 1) \div sz
  OBVIOUS
<1>5. k \in Nat /\ m <= k * sz /\ k * sz <= m + sz - 1
  BY <1>3, <1>4, RoundedUp
<1>6. k = n
  <2>1. k < n => k * sz + sz <= n * sz
    <3>1. k < n => sz * k + sz <= sz * n
      BY <1>1, <1>5, TimesOrder
    <3>2. sz * k = k * sz /\ sz * n = n * sz
      BY <1>1, <1>5
    <3> QED
      BY <3>1, <3>2
  <2>2. n < k => n * sz + sz <= k * sz
    <3>1. n < k => sz * n + sz <= sz * k
      BY <1>1, <1>5, TimesOrder
    <3>2. sz * k = k * sz /\ sz * n = n * sz
      BY <1>1, <1>5
    <3> QED
      BY <3>1, <3>2
  <2>3. PICK j \in Nat : j = k * sz
    BY <1>1, <1>5
  <2>4. ~ (k < n)
    BY <1>1, <1>2, <1>5, <2>1, <2>3
  <2>5. ~ (n < k)
    BY <1>1, <1>2, <1>5, <2>2, <2>3
  <2> QED
    BY <1>5, <2>4, <2>5
<1> QED
  BY <1>2, <1>3, <1>4, <1>6

(* sel4utils_reserve_range_aligned. *)
LEMMA ReserveAligned ==
  ASSUME NEW s, NEW sys, Sound(s, sys), NEW n \in Nat, n >= 1, NEW sz \in Sizes,
         NEW t, t = reserve_range_aligned(s, n, sz), ~ t.dead,
         NEW v, v = find_range(s, (n + sz - 1) \div sz, sz), NEW no \in BOOLEAN, ~ no
  PROVE  /\ Grows(s, t, sys)
         /\ t.err \/ (Reserved(s, t, sys, v, v + n, no) /\ v \in Nat /\ v % sz = 0
                      /\ v + n <= KernelStart)
<1>1. PICK k \in Nat : k = (n + sz - 1) \div sz
  BY RoundedUp
<1>2. k >= 1 /\ n <= k * sz
  BY <1>1, RoundedUp
<1>3. CASE RangesFrom(s, k, sz) = {}
  <2>1. t = [s EXCEPT !.err = TRUE]
    BY <1>1, <1>3 DEF reserve_range_aligned
  <2> QED
    BY <2>1, Refused
<1>4. CASE RangesFrom(s, k, sz) # {}
  <2>1. v = find_range(s, k, sz)
    BY <1>1
  <2>2. /\ Fits(v, k, sz) /\ v + k * sz < KernelStart /\ v + k * sz \in Nat
        /\ \A q \in Run(v, k, sz) : Entry(s, q) = EMPTY
    BY <1>2, <1>4, <2>1, FoundRange
  <2>3. PICK x \in Nat : x = v + k * sz
    BY <2>2
  <2>4. v \in Nat /\ v % sz = 0 /\ sz \in Nat
    BY <2>2, Aligned DEF Fits
  <2>5. PICK m \in Nat : m = k * sz
    BY <2>4
  <2>6. PICK e \in Nat : e = v + n
    BY <2>4
  <2>7. e <= x /\ x < KernelStart /\ e <= KernelStart
    BY <1>2, <2>2, <2>3, <2>4, <2>5, <2>6, Constants
  <2>8. \A q \in v .. e - 1 : q \in Run(v, k, sz) /\ q \in Pages
    BY <2>3, <2>4, <2>7, Constants DEF Run, Pages
  <2>9. PICK a : a = LookedBack(s, x)
    OBVIOUS
  <2>10. a = TookRange(s, k, sz)
    BY <2>1, <2>3, <2>9 DEF TookRange, LookedBack
  <2>11. SlotsChanged(s, a) /\ Sound(a, sys) /\ Grows(s, a, sys)
    BY <2>9, LastSet, SlotsKeep
  <2>12. a.slot = s.slot /\ a.at = s.at /\ a.size = s.size /\ a.res = s.res
    BY <2>9 DEF LookedBack, Sound, States
  <2>13. \A q \in v .. e - 1 : Entry(a, q) = EMPTY
    BY <2>2, <2>8, <2>11 DEF SlotsChanged, SameEntry
  <2>14. t = perform_reservation(a, v, n, no)
    <3>1. no = FALSE
      OBVIOUS
    <3> QED
      BY <1>1, <1>4, <2>1, <2>10, <3>1 DEF reserve_range_aligned
  <2>15. Reserved(a, t, sys, v, e, no)
    BY <2>4, <2>6, <2>7, <2>11, <2>13, <2>14, PerformEffect
  <2>16. Reserved(s, t, sys, v, e, no)
    BY <2>11, <2>12, <2>15, KeepsThenKept DEF Reserved, Grows
  <2> QED
    BY <2>4, <2>6, <2>7, <2>16 DEF Reserved
<1> QED
  BY <1>3, <1>4

(* sel4utils_reserve_range_at. *)
LEMMA ReserveAtGrows ==
  ASSUME NEW s, NEW sys, Sound(s, sys), NEW v \in Nat, NEW n \in Nat, n >= 1,
         v + n <= KernelStart, NEW deferred \in BOOLEAN,
         is_available_range(s, v, v + n),
         NEW t, t = perform_reservation(s, v, n, deferred), ~ t.dead
  PROVE  Grows(s, t, sys)
<1>1. PICK e \in Nat : e = v + n
  OBVIOUS
<1>2. e <= KernelStart /\ \A q \in v .. e - 1 : q \in Pages
  BY <1>1, Constants DEF Pages
<1>3. \A q \in v .. e - 1 : Entry(s, q) = EMPTY
  <2>1. is_available_range(s, v, e) /\ s \in States
    BY <1>1 DEF Sound
  <2> QED
    BY <1>2, <2>1, Available
<1>4. Reserved(s, t, sys, v, e, deferred)
  BY <1>1, <1>2, <1>3, PerformEffect
<1> QED
  BY <1>4 DEF Reserved

-----------------------------------------------------------------------------
(* Calls that make a reservation first                                     *)

(* A run of n frames is aligned and lies within v .. e - 1. *)
Inside(u, n, sz, v, e) == u % sz = 0 /\ v <= u /\ u + n * sz <= e /\ e <= KernelStart

(* A reservation that has just been made can be mapped into. *)
LEMMA InNewReservation ==
  ASSUME NEW s, NEW sys, NEW b, NEW v \in Nat, NEW e \in Nat, NEW no \in BOOLEAN,
         Reserved(s, b, sys, v, e, no),
         NEW u \in Nat, NEW n \in Nat, n >= 1, NEW sz \in Sizes, Inside(u, n, sz, v, e)
  PROVE  /\ NewReservation(v, e, no) \in b.res /\ Sound(b, sys)
         /\ Fits(u, n, sz) /\ RunFree(b, sys, u, n, sz) /\ Uniform(b, u, n, sz) /\ Occupied(b, u)
<1>1. PICK r : r = NewReservation(v, e, no)
  OBVIOUS
<1>2. r \in b.res /\ Sound(b, sys)
  BY <1>1 DEF Reserved, Grows
<1>3. sz \in Nat
  BY Constants DEF Sizes
<1>4. PICK m \in Nat : m = n * sz
  BY <1>3
<1>5. PICK x \in Nat : x = u + m
  OBVIOUS
<1>6. \A q \in u .. x - 1 : q \in Pages /\ q \in v .. e - 1
  BY <1>4, <1>5, Constants DEF Pages, Inside
<1>7. is_reserved_range(b, u, x)
  <2>1. \A q \in u .. x - 1 : Entry(b, q) = RESERVED
    BY <1>6 DEF Reserved
  <2>2. \A q \in u .. x - 1 : q \in Pages
    BY <1>6
  <2>3. b \in States
    BY <1>2 DEF Sound
  <2> QED
    BY <2>1, <2>2, <2>3, Available
<1>8. check_reservation(b, r, u, u + n * sz)
  BY <1>4, <1>5, <1>7, <1>1 DEF check_reservation, NewReservation, Inside
<1>9. u % sz = 0
  BY DEF Inside
<1> QED
  BY <1>2, <1>8, <1>9, <1>1, InReservation

(* vspace_new_sized_stack. *)
LEMMA NewSizedStackGrows ==
  ASSUME NEW s, NEW sys, Sound(s, sys), NEW n \in Nat, n >= 1, NEW mem,
         NEW v, v = find_range(s, n + 1, 1),
         NEW r, r = [start |-> v, end |-> v + n + 1, deferred |-> FALSE],
         NEW b, b = reserve_range_aligned(s, n + 1, 1), ~ b.dead, ~ b.err,
         NEW p, p = new_pages_at_vaddr(b, v + 1, n, 1, mem), ~ p.dead
  PROVE  /\ Grows(s, p, sys)
         /\ \A t : t = free_reservation(p, r) => Grows(s, t, sys)
<1>1. PICK no \in BOOLEAN : no = FALSE
  OBVIOUS
<1>2. PICK sz \in Sizes : sz = 1
  BY DEF Sizes
<1>3. PICK n1 \in Nat : n1 = n + 1
  OBVIOUS
<1>4. (n1 + sz - 1) \div sz = n1
  BY <1>2, <1>3
<1>5. b = reserve_range_aligned(s, n1, sz) /\ v = find_range(s, (n1 + sz - 1) \div sz, sz) /\ n1 >= 1
  BY <1>2, <1>3, <1>4
<1>6. Reserved(s, b, sys, v, v + n1, no) /\ v \in Nat /\ v + n1 <= KernelStart
  BY <1>1, <1>5, ReserveAligned
<1>7. PICK e \in Nat : e = v + n1
  BY <1>6
<1>8. PICK u \in Nat : u = v + 1
  BY <1>6
<1>9. Inside(u, n, sz, v, e)
  BY <1>2, <1>3, <1>6, <1>7, <1>8 DEF Inside
<1>10. r = NewReservation(v, e, no)
  <2>1. e = v + n + 1
    BY <1>3, <1>6, <1>7
  <2>2. r = [start |-> v, end |-> e, deferred |-> FALSE]
    BY <2>1
  <2> QED
    BY <1>1, <2>2, Zenon DEF NewReservation
<1>11. Reserved(s, b, sys, v, e, no)
  BY <1>6, <1>7
<1>12. /\ r \in b.res /\ Sound(b, sys) /\ Fits(u, n, sz) /\ RunFree(b, sys, u, n, sz)
       /\ Uniform(b, u, n, sz)
  <2>1. /\ NewReservation(v, e, no) \in b.res /\ Sound(b, sys)
        /\ Fits(u, n, sz) /\ RunFree(b, sys, u, n, sz) /\ Uniform(b, u, n, sz)
    <3>1. v \in Nat
      BY <1>6
    <3>2. PICK w \in Nat : w = v
      BY <3>1
    <3> HIDE <1>6
    <3>3. Reserved(s, b, sys, w, e, no) /\ Inside(u, n, sz, w, e)
      BY <1>9, <1>11, <3>2
    <3>4. /\ NewReservation(w, e, no) \in b.res /\ Sound(b, sys)
          /\ Fits(u, n, sz) /\ RunFree(b, sys, u, n, sz) /\ Uniform(b, u, n, sz)
      BY <3>3, InNewReservation
    <3> QED
      BY <3>2, <3>4
  <2> QED
    BY <1>10, <2>1
<1>13. p = new_pages_at_vaddr(b, u, n, sz, mem)
  BY <1>2, <1>8
<1>14. PagesEffect(b, p, sys, u, n, sz)
  BY <1>12, <1>13, NewPagesAtEffect
<1>15. Grows(b, p, sys)
  BY <1>12, <1>14, PagesKeep
<1>16. Grows(s, p, sys)
  BY <1>6, <1>15, KeepsThenKept DEF Reserved, Grows
<1>17. Sound(p, sys) /\ r \in p.res
  BY <1>12, <1>14 DEF PagesEffect
<1>18. ASSUME NEW t, t = free_reservation(p, r)
       PROVE  Grows(s, t, sys)
  <2>1. Unreserving(p, t, sys, r)
    BY <1>17, <1>18, FreeReservationEffect
  <2> QED
    BY <1>16, <2>1, KeepsThenKept DEF Unreserving, Grows
<1> QED
  BY <1>16, <1>18

(* vspace_new_pages_with_config. *)
LEMMA NewPagesWithConfigGrows ==
  ASSUME NEW s, NEW sys, Sound(s, sys), NEW n \in Nat, n >= 1, NEW sz \in Sizes, NEW mem,
         NEW v, v = find_range(s, n, sz),
         NEW r, r = [start |-> v, end |-> v + n * sz, deferred |-> FALSE],
         NEW b, b = reserve_range_aligned(s, n * sz, sz), ~ b.dead, ~ b.err,
         NEW p, p = new_pages_at_vaddr(b, v, n, sz, mem), ~ p.dead
  PROVE  \A t : t = free_reservation(p, r) => Grows(s, t, sys)
<1>1. PICK no \in BOOLEAN : no = FALSE
  OBVIOUS
<1>2. PICK m \in Nat : m = n * sz
  BY RoundedSame
<1>3. m >= 1 /\ v = find_range(s, (m + sz - 1) \div sz, sz) /\ b = reserve_range_aligned(s, m, sz)
  BY <1>2, RoundedSame
<1>4. Reserved(s, b, sys, v, v + m, no) /\ v \in Nat /\ v % sz = 0 /\ v + m <= KernelStart
  BY <1>1, <1>3, ReserveAligned
<1>5. PICK e \in Nat : e = v + m
  BY <1>4
<1>6. r = NewReservation(v, e, no) /\ v <= v /\ v + n * sz <= e
  <2>1. e = v + n * sz /\ v <= v /\ v + n * sz <= e
    BY <1>2, <1>4, <1>5
  <2>2. r = [start |-> v, end |-> e, deferred |-> FALSE]
    BY <2>1
  <2>3. r = NewReservation(v, e, no)
    BY <1>1, <2>2, Zenon DEF NewReservation
  <2> QED
    BY <2>1, <2>3
<1>7. Reserved(s, b, sys, v, e, no) /\ Inside(v, n, sz, v, e)
  BY <1>2, <1>4, <1>5, <1>6 DEF Inside
<1>8. /\ r \in b.res /\ Sound(b, sys) /\ Fits(v, n, sz) /\ RunFree(b, sys, v, n, sz)
      /\ Uniform(b, v, n, sz)
  <2>1. /\ NewReservation(v, e, no) \in b.res /\ Sound(b, sys)
        /\ Fits(v, n, sz) /\ RunFree(b, sys, v, n, sz) /\ Uniform(b, v, n, sz)
    BY <1>4, <1>7, InNewReservation
  <2> QED
    BY <1>6, <2>1
<1>9. PagesEffect(b, p, sys, v, n, sz)
  BY <1>8, NewPagesAtEffect
<1>10. Grows(s, p, sys)
  BY <1>4, <1>8, <1>9, PagesKeep, KeepsThenKept DEF Reserved, Grows
<1>11. Sound(p, sys) /\ r \in p.res
  BY <1>8, <1>9 DEF PagesEffect
<1>12. ASSUME NEW t, t = free_reservation(p, r)
       PROVE  Grows(s, t, sys)
  <2>1. Unreserving(p, t, sys, r)
    BY <1>11, <1>12, FreeReservationEffect
  <2> QED
    BY <1>10, <2>1, KeepsThenKept DEF Unreserving, Grows
<1> QED
  BY <1>12

(* vspace_share_mem. *)
LEMMA ShareMemGrows ==
  ASSUME NEW s, NEW sys, Sound(s, sys), NEW n \in Nat, n >= 1, NEW sz \in Sizes, NEW mem, NEW from,
         NEW v, v = find_range(s, n, sz), NEW t, t = share_mem(s, from, n, sz, mem), ~ t.dead
  PROVE  /\ Grows(s, t, sys)
         /\ t.err \/ (Fits(v, n, sz) /\ \A j \in 1 .. n : Whole(t, Nth(v, j, sz), sz))
<1>1. PICK no \in BOOLEAN : no = FALSE
  OBVIOUS
<1>2. PICK m \in Nat : m = n * sz
  BY RoundedSame
<1>3. PICK b : b = reserve_range_aligned(s, m, sz)
  OBVIOUS
<1>4. PICK r : r = [start |-> v, end |-> v + m, deferred |-> FALSE]
  OBVIOUS
<1>5. PICK p : p = share_mem_at_vaddr(b, from, v, n, sz, mem)
  OBVIOUS
<1>6. t = IF b.err \/ b.dead THEN b ELSE IF p.dead THEN p ELSE free_reservation(p, r)
  BY <1>2, <1>3, <1>4, <1>5 DEF share_mem, Unless
<1>7. m >= 1 /\ v = find_range(s, (m + sz - 1) \div sz, sz)
  BY <1>2, RoundedSame
<1>8. CASE b.err \/ b.dead
  <2>1. t = b
    BY <1>6, <1>8
  <2>2. b.err
    BY <1>8, <2>1
  <2>3. Grows(s, b, sys)
    BY <1>1, <1>3, <1>7, <2>1, ReserveAligned
  <2> QED
    BY <2>1, <2>2, <2>3
<1>9. CASE ~ (b.err \/ b.dead)
  <2>1. t = IF p.dead THEN p ELSE free_reservation(p, r)
    BY <1>6, <1>9
  <2>2. ~ p.dead
    BY <2>1
  <2>3. Reserved(s, b, sys, v, v + m, no) /\ v \in Nat /\ v % sz = 0 /\ v + m <= KernelStart
    BY <1>1, <1>3, <1>7, <1>9, ReserveAligned
  <2>4. PICK e \in Nat : e = v + m
    BY <2>3
  <2>5. r = NewReservation(v, e, no) /\ Inside(v, n, sz, v, e)
    <3>1. e = v + n * sz /\ v <= v /\ v + n * sz <= e /\ e <= KernelStart
      BY <1>2, <2>3, <2>4
    <3>2. r = [start |-> v, end |-> e, deferred |-> FALSE]
      BY <1>4, <2>4
    <3>3. r = NewReservation(v, e, no)
      BY <1>1, <3>2, Zenon DEF NewReservation
    <3> QED
      BY <2>3, <3>1, <3>3 DEF Inside
  <2>6. Reserved(s, b, sys, v, e, no)
    BY <2>3, <2>4
  <2>7. /\ NewReservation(v, e, no) \in b.res /\ Sound(b, sys)
        /\ Fits(v, n, sz) /\ RunFree(b, sys, v, n, sz) /\ Uniform(b, v, n, sz)
    BY <2>3, <2>5, <2>6, InNewReservation
  <2>8. PagesEffect(b, p, sys, v, n, sz)
    BY <1>5, <2>2, <2>7, SharePagesAtEffect
  <2>9. Grows(b, p, sys)
    BY <2>7, <2>8, PagesKeep
  <2>10. Sound(p, sys) /\ r \in p.res
    BY <2>5, <2>7, <2>8 DEF PagesEffect
  <2>11. Unreserving(p, t, sys, r)
    BY <2>1, <2>2, <2>10, FreeReservationEffect
  <2>12. Grows(s, t, sys)
    BY <2>6, <2>9, <2>11, KeepsThenKept DEF Reserved, Grows, Unreserving
  <2>13. ASSUME NEW j \in 1 .. n
         PROVE  Whole(t, Nth(v, j, sz), sz)
    <3>1. PICK q \in Nat : q = Nth(v, j, sz)
      BY <2>7, RunGrows
    <3>2. q \in FrameAt(q, sz) /\ WholeIn(p, q, sz) /\ q \in Pages
      BY <2>7, <2>8, <3>1, RunGrows DEF PagesEffect
    <3>3. Entry(t, q) = Entry(p, q) \/ Entry(t, q) = EMPTY
      BY <2>11, <3>2 DEF Unreserving
    <3>4. EMPTY \notin Caps
      BY DEF EMPTY, Caps
    <3> QED
      BY <2>11, <3>1, <3>2, <3>3, <3>4 DEF Whole, WholeIn, Unreserving
  <2> QED
    BY <2>7, <2>12, <2>13
<1> QED
  BY <1>8, <1>9

(* vspace_access_page_with_callback. *)
LEMMA AccessPageSafe ==
  ASSUME NEW s, NEW sys, Sound(s, sys), NEW one \in Nat, one = 1, NEW sz \in Sizes, sz = 1,
         NEW yes \in BOOLEAN, NEW mem, NEW from, NEW v, v = find_range(s, one, sz),
         NEW b, b = share_mem(s, from, one, sz, mem), ~ b.dead, ~ b.err,
         NEW t, t = unmap_pages(b, v, one, sz, yes), ~ t.dead
  PROVE  Safe(s, t, sys)
<1>1. one = 1 /\ sz = 1 /\ one >= 1
  OBVIOUS
<1>2. Grows(s, b, sys) /\ Fits(v, one, sz) /\ \A j \in 1 .. one : Whole(b, Nth(v, j, sz), sz)
  BY <1>1, ShareMemGrows
<1>3. Uniform(b, v, one, sz)
  <2>1. Run(v, one, sz) = {v}
    BY <1>1, <1>2 DEF Run, Fits
  <2> QED
    BY <2>1 DEF Uniform, RunUnreserved, Occupied
<1>4. PICK x : x = LeftBy(Occupied(b, v))
  OBVIOUS
<1>5. Emptied(b, t, sys, v, one, sz, x, yes)
  BY <1>2, <1>3, <1>4, UnmapPagesEffect DEF Grows
<1>6. Safe(b, t, sys)
  BY <1>5, EmptiedKept
<1>7. Keeps(s, b) /\ Kept(b, t)
  BY <1>2, <1>6 DEF Safe, Grows
<1>8. Kept(s, t)
  BY <1>7 DEF Keeps, Kept
<1> QED
  BY <1>6, <1>8 DEF Safe

(* sel4utils_unmap_pages. *)
LEMMA UnmapPagesSafe ==
  ASSUME NEW s, NEW sys, Sound(s, sys), NEW v, NEW n, NEW sz, Fits(v, n, sz),
         \A j \in 1 .. n : Whole(s, Nth(v, j, sz), sz), Uniform(s, v, n, sz),
         NEW free \in BOOLEAN, NEW t, t = unmap_pages(s, v, n, sz, free), ~ t.dead
  PROVE  Safe(s, t, sys) /\ t.res = s.res
<1>1. PICK x : x = LeftBy(Occupied(s, v))
  OBVIOUS
<1>2. Emptied(s, t, sys, v, n, sz, x, free)
  BY <1>1, UnmapPagesEffect
<1>3. Safe(s, t, sys)
  BY <1>2, EmptiedKept
<1> QED
  BY <1>2, <1>3 DEF Emptied

(* vspace_free_sized_stack. *)
LEMMA FreeSizedStackSafe ==
  ASSUME NEW s, NEW sys, Sound(s, sys), NEW v, NEW n, NEW sz, Fits(v, n, sz), NEW r \in s.res,
         \A j \in 1 .. n : Whole(s, Nth(v, j, sz), sz), Uniform(s, v, n, sz),
         NEW free \in BOOLEAN, NEW u, u = unmap_pages(s, v, n, sz, free), ~ u.dead,
         NEW t, t = free_reservation(u, r)
  PROVE  Safe(s, t, sys)
<1>1. Safe(s, u, sys) /\ u.res = s.res
  BY UnmapPagesSafe
<1>2. Unreserving(u, t, sys, r)
  BY <1>1, FreeReservationEffect DEF Safe
<1>3. Kept(s, u) /\ Keeps(u, t) /\ \A c \in Caps : u.at[c] = NOWHERE => t.at[c] = NOWHERE
  BY <1>1, <1>2 DEF Safe, Unreserving, Grows
<1>4. Kept(s, t)
  BY <1>3, KeptThenSame
<1> QED
  BY <1>2, <1>4 DEF Safe, Unreserving, Grows

(* A capability that the kernel maps nowhere is recorded nowhere. *)
LEMMA UnmappedUnrecorded ==
  ASSUME NEW s, NEW sys, Sound(s, sys), NEW c \in Caps, s.at[c] = NOWHERE
  PROVE  \A p \in Pages : Entry(s, p) # c
BY DEF Sound, RecordsMapped, MapsPage

(* sel4utils_unmap_dup. *)
LEMMA UnmapDupSafe ==
  ASSUME NEW s, NEW sys, Sound(s, sys), NEW v, NEW n, NEW sz, Fits(v, n, sz), n >= 1,
         \A j \in 1 .. n : Whole(s, Nth(v, j, sz), sz), Uniform(s, v, n, sz),
         NEW free \in BOOLEAN, NEW u, u = unmap_pages(s, v, n, sz, free),
         NEW c \in Caps, Entry(s, v) = c,
         NEW t, t = FreeCap(u, c), ~ t.dead
  PROVE  Safe(s, t, sys)
<1>1. u \in States
  BY UnmapPagesStates DEF Sound
<1>2. ~ u.dead
  BY <1>1 DEF FreeCap, States
<1>3. PICK x : x = LeftBy(Occupied(s, v))
  OBVIOUS
<1>4. Emptied(s, u, sys, v, n, sz, x, free)
  BY <1>2, <1>3, UnmapPagesEffect
<1>5. Safe(s, u, sys)
  BY <1>4, EmptiedKept
<1>6. v \in Run(v, n, sz)
  <2>1. v \in Nat /\ n \in Nat /\ sz \in Nat /\ sz >= 1
    BY Aligned DEF Fits
  <2>2. PICK m \in Nat : m = n * sz
    BY <2>1
  <2>3. m >= 1
    BY <2>1, <2>2
  <2> QED
    BY <2>1, <2>2, <2>3 DEF Run
<1>7. u.at[c] = NOWHERE
  BY <1>4, <1>6 DEF Emptied
<1>8. \A p \in Pages : Entry(u, p) # c
  BY <1>5, <1>7, UnmappedUnrecorded DEF Safe
<1>9. Grows(u, t, sys) /\ t.at[c] = NOWHERE
  BY <1>5, <1>8, FreeUnrecorded DEF Safe
<1>10. \A d \in Caps : u.at[d] = NOWHERE => t.at[d] = NOWHERE
  BY <1>1 DEF FreeCap, States
<1>11. Kept(s, t)
  BY <1>5, <1>9, <1>10, KeptThenSame DEF Safe, Grows
<1> QED
  BY <1>9, <1>11 DEF Safe, Grows

(* A copy that cannot be mapped is freed. *)
DupUndone(m, c) == IF m.err THEN [FreeCap(m, c) EXCEPT !.err = TRUE] ELSE m

(* sel4utils_dup_and_map. *)
LEMMA DupAndMapGrows ==
  ASSUME NEW s, NEW sys, Sound(s, sys), NEW mem, FreeSlots(s) # {}, NEW c, c = TakeSlot(s),
         NEW x, x = "copy", NEW a, a = WithSlot(s, c, x), NEW caps, caps = <<c>>,
         NEW no \in BOOLEAN, NEW sz \in Sizes, NEW m, m = map_pages(a, caps, no, sz, mem),
         NEW t, t = DupUndone(m, c)
  PROVE  Grows(s, t, sys)
<1>1. /\ SlotsChanged(s, a) /\ Sound(a, sys) /\ c \in Caps /\ a.slot[c] = x
      /\ s.slot[c] = "free" /\ s.at[c] = NOWHERE
  <2>1. SlotKind(x)
    BY DEF SlotKind
  <2> QED
    BY <2>1, FillSlot
<1>2. PICK n \in Nat : n = 1
  OBVIOUS
<1>3. Ready(a, caps, n)
  BY <1>1, <1>2 DEF Ready
<1>4. /\ Grows(a, m, sys)
      /\ m.err /\ n = 1 => \A p \in Pages : Entry(m, p) \in Caps => Entry(a, p) = Entry(m, p)
  BY <1>1, <1>3, MapPagesGrows
<1>5. Grows(s, m, sys)
  BY <1>1, <1>4 DEF Grows, Keeps, SlotsChanged, SameEntry
<1>6. CASE ~ m.err
  BY <1>5, <1>6 DEF DupUndone
<1>7. CASE m.err
  <2>1. \A p \in Pages : Entry(m, p) # c
    <3>1. \A p \in Pages : Entry(s, p) # c
      BY <1>1, UnmappedUnrecorded
    <3> QED
      BY <1>1, <1>2, <1>4, <1>7, <3>1 DEF SlotsChanged, SameEntry
  <2>2. PICK w : w = FreeCap(m, c)
    OBVIOUS
  <2>3. Grows(m, w, sys)
    BY <1>1, <1>5, <2>1, <2>2, FreeUnrecorded DEF Grows
  <2>4. t = [w EXCEPT !.err = TRUE]
    BY <1>7, <2>2 DEF DupUndone
  <2>5. Grows(w, t, sys)
    BY <2>3, <2>4, Refused DEF Grows
  <2> QED
    BY <1>5, <2>3, <2>5 DEF Grows, Keeps
<1> QED
  BY <1>6, <1>7

-----------------------------------------------------------------------------
(* sel4utils_move_resize_reservation                                       *)

(* Where a reservation grows, empty entries are reserved. *)
GrownBy(s, g, sys, r, v, k) ==
  /\ g.slot = s.slot /\ g.at = s.at /\ g.size = s.size /\ g.res = s.res /\ Sound(g, sys)
  /\ \A q \in Pages : SameEntry(s, g, q) \/ (Entry(s, q) = EMPTY /\ Entry(g, q) = RESERVED)
  /\ \A q \in v .. v + k - 1 : q \in r.start .. r.end - 1 \/ Entry(g, q) = RESERVED

(* One more page is reserved. *)
LEMMA GrownStep ==
  ASSUME NEW s, NEW sys, NEW r, NEW v \in Nat, NEW k \in Nat, k >= 1, v + k <= NumPages,
         NEW a, GrownBy(s, a, sys, r, v, k - 1), NEW p \in Nat, p = v + k - 1,
         NEW b, b = GrowBy(a, p, r), ~ b.dead
  PROVE  GrownBy(s, b, sys, r, v, k)
<1>1. p < NumPages /\ p \in Pages
  BY Constants DEF Pages
<1>2. \A q : q \in v .. v + k - 1 <=> q \in v .. v + (k - 1) - 1 \/ q = p
  OBVIOUS
<1>3. CASE p \in r.start .. r.end - 1
  <2>1. b = a
    BY <1>3 DEF GrowBy
  <2> QED
    BY <1>2, <1>3, <2>1 DEF GrownBy
<1>4. CASE p \notin r.start .. r.end - 1
  <2>1. PICK yes \in BOOLEAN : yes = TRUE
    OBVIOUS
  <2>2. PICK e \in Nat : e = p + 1
    OBVIOUS
  <2>3. PICK w : w = reserve_entries_range(a, p, e, yes)
    OBVIOUS
  <2>4. ReserveEffect(a, w, p .. e - 1, yes)
    <3>1. p < e /\ e <= NumPages
      BY <1>1, <2>2, Constants
    <3> QED
      BY <2>3, <3>1, ReserveRangeEffect DEF GrownBy, Sound
  <2>5. b = [w EXCEPT !.dead = w.dead \/ w.err, !.err = FALSE]
    BY <1>4, <2>1, <2>2, <2>3 DEF GrowBy, Succeeded
  <2>6. w \in States
    BY <2>4 DEF ReserveEffect
  <2>7. PICK d \in BOOLEAN : d = (w.dead \/ w.err)
    OBVIOUS
  <2>8. PICK z \in BOOLEAN : z = FALSE
    OBVIOUS
  <2>9. b = [w EXCEPT !.dead = d, !.err = z]
    BY <2>5, <2>7, <2>8
  <2>10. /\ b \in States /\ b.slot = w.slot /\ b.at = w.at /\ b.size = w.size /\ b.res = w.res
         /\ b.dead = d /\ b.top = w.top /\ b.cap = w.cap /\ b.cookie = w.cookie
    BY <2>6, <2>9 DEF States
  <2>11. ~ w.err
    BY <2>7, <2>10
  <2>12. \A q \in Pages : SameEntry(w, b, q)
    BY <2>10 DEF SameEntry, Entry, get_cookie
  <2>13. Entry(w, p) = RESERVED
    BY <2>2, <2>4, <2>11 DEF ReserveEffect
  <2>14. Sound(w, sys)
    BY <2>1, <2>4, SoundReserve DEF GrownBy
  <2>15. Sound(b, sys)
    <3>1. SameAll(w, b)
      BY <2>10, <2>12 DEF SameAll
    <3> QED
      BY <2>14, <3>1, SoundSame
  <2>16. \A q \in Pages : SameEntry(a, w, q) \/ (Entry(a, q) = EMPTY /\ Entry(w, q) = RESERVED)
    BY <2>1, <2>4 DEF ReserveEffect
  <2>17. \A q \in Pages : SameEntry(s, b, q) \/ (Entry(s, q) = EMPTY /\ Entry(b, q) = RESERVED)
    BY <2>12, <2>16 DEF GrownBy, SameEntry, RESERVED, EMPTY
  <2>18. ASSUME NEW q \in v .. v + k - 1
         PROVE  q \in r.start .. r.end - 1 \/ Entry(b, q) = RESERVED
    <3>1. q \in Pages
      BY Constants DEF Pages
    <3>2. CASE q = p
      BY <1>1, <2>12, <2>13, <3>2 DEF SameEntry
    <3>3. CASE q # p
      <4>1. q \in r.start .. r.end - 1 \/ Entry(a, q) = RESERVED
        BY <1>2, <3>3 DEF GrownBy
      <4> QED
        BY <2>12, <2>16, <3>1, <4>1 DEF SameEntry
    <3> QED
      BY <3>2, <3>3
  <2> QED
    BY <2>4, <2>10, <2>15, <2>17, <2>18 DEF GrownBy, ReserveEffect, SameKernel
<1> QED
  BY <1>3, <1>4

(* A failed assertion stays failed. *)
LEMMA GrownDead ==
  ASSUME NEW a \in States, NEW p \in Nat, p < NumPages, NEW r, NEW b, b = GrowBy(a, p, r)
  PROVE  b \in States /\ (a.dead => b.dead)
<1>1. CASE p \in r.start .. r.end - 1
  BY <1>1 DEF GrowBy
<1>2. CASE p \notin r.start .. r.end - 1
  <2>1. PICK yes \in BOOLEAN : yes = TRUE
    OBVIOUS
  <2>2. PICK e \in Nat : e = p + 1
    OBVIOUS
  <2>3. PICK w : w = reserve_entries_range(a, p, e, yes)
    OBVIOUS
  <2>4. ReserveEffect(a, w, p .. e - 1, yes)
    <3>1. p < e /\ e <= NumPages
      BY <2>2, Constants
    <3> QED
      BY <2>3, <3>1, ReserveRangeEffect
  <2>5. b = [w EXCEPT !.dead = w.dead \/ w.err, !.err = FALSE]
    BY <1>2, <2>1, <2>2, <2>3 DEF GrowBy, Succeeded
  <2>6. w \in States /\ w.dead = a.dead
    BY <2>4 DEF ReserveEffect, SameKernel
  <2>7. PICK d \in BOOLEAN : d = (w.dead \/ w.err)
    OBVIOUS
  <2>8. PICK z \in BOOLEAN : z = FALSE
    OBVIOUS
  <2>9. b = [w EXCEPT !.dead = d, !.err = z]
    BY <2>5, <2>7, <2>8
  <2>10. b \in States /\ b.dead = d
    BY <2>6, <2>9 DEF States
  <2> QED
    BY <2>6, <2>7, <2>10
<1> QED
  BY <1>1, <1>2

(* The pages the reservation grows by are reserved. *)
LEMMA GrownEffect ==
  ASSUME NEW s, NEW sys, Sound(s, sys), NEW r, NEW v \in Nat, NEW n \in Nat, v + n <= NumPages,
         NEW g, g = Grown(s, r, v, n)
  PROVE  g \in States /\ (g.dead \/ GrownBy(s, g, sys, r, v, n))
<1>1. PICK f : /\ f[0] = s
               /\ \A k \in 1 .. n : f[k] = GrowBy(f[k - 1], v + k - 1, r)
               /\ Grown(s, r, v, n) = f[n]
  BY GrowTurns
<1> DEFINE A == {k \in 0 .. n : f[k] \in States /\ (f[k].dead \/ GrownBy(s, f[k], sys, r, v, k))}
<1>2. 0 \in A
  <2>1. GrownBy(s, s, sys, r, v, 0)
    BY DEF GrownBy, SameEntry
  <2> QED
    BY <1>1, <2>1 DEF Sound
<1>3. ASSUME NEW k \in 1 .. n, k - 1 \in A
      PROVE  k \in A
  <2>1. PICK a \in States : a = f[k - 1]
    BY <1>3
  <2>2. PICK b : b = f[k]
    OBVIOUS
  <2>3. PICK p \in Nat : p = v + k - 1
    OBVIOUS
  <2>4. b = GrowBy(a, p, r) /\ k \in Nat /\ k >= 1 /\ v + k <= NumPages /\ p < NumPages
    BY <1>1, <2>1, <2>2, <2>3, Constants
  <2>5. b \in States /\ (a.dead => b.dead)
    BY <2>4, GrownDead
  <2>6. CASE b.dead
    BY <2>2, <2>5, <2>6
  <2>7. CASE ~ b.dead
    <3>1. GrownBy(s, a, sys, r, v, k - 1)
      BY <1>3, <2>1, <2>5, <2>7
    <3>2. GrownBy(s, b, sys, r, v, k)
      BY <2>3, <2>4, <2>7, <3>1, GrownStep
    <3> QED
      BY <2>2, <2>5, <3>2
  <2> QED
    BY <2>6, <2>7
<1>4. n \in A
  <2> HIDE DEF A
  <2> QED
    BY <1>2, <1>3, Climb
<1> QED
  BY <1>1, <1>4

(* The pages that leave a reservation. *)
Leaving(a, k, new) == {q \in a .. a + k - 1 : q \notin new}

(* They are unreserved. *)
ShrunkBy(g, t, a, k, new, yes) == ClearEffect(g, t, Leaving(a, k, new), yes)

(* One more page is given back. *)
LEMMA ShrunkStep ==
  ASSUME NEW g, NEW a \in Nat, NEW k \in Nat, k >= 1, a + k <= NumPages, NEW new,
         NEW yes \in BOOLEAN, yes, NEW s, s \in States, ClearEffect(g, s, Leaving(a, k - 1, new), yes),
         NEW p \in Nat, p = a + k - 1, NEW t, t = ShrinkBy(s, p, new)
  PROVE  ClearEffect(g, t, Leaving(a, k, new), yes)
<1>1. \A q : q \in Leaving(a, k, new) <=> q \in Leaving(a, k - 1, new) \/ (q = p /\ q \notin new)
  BY DEF Leaving
<1>2. CASE p \in new \/ get_cap(s, p) # RESERVED
  <2>1. t = s
    BY <1>2 DEF ShrinkBy
  <2> QED
    BY <1>1, <2>1 DEF ClearEffect
<1>3. CASE ~ (p \in new \/ get_cap(s, p) # RESERVED)
  <2>1. PICK e \in Nat : e = p + 1
    OBVIOUS
  <2>2. t = clear_entries_range(s, p, e, yes)
    BY <1>3, <2>1 DEF ShrinkBy
  <2>3. p < e /\ e <= NumPages /\ p .. e - 1 = {p}
    BY <2>1, Constants
  <2>4. ClearEffect(s, t, p .. e - 1, yes)
    BY <2>2, <2>3, ClearRangeEffect
  <2>5. ClearEffect(g, t, Leaving(a, k - 1, new) \cup (p .. e - 1), yes)
    BY <2>4, ClearCompose
  <2>6. Leaving(a, k - 1, new) \cup (p .. e - 1) = Leaving(a, k, new)
    BY <1>1, <1>3, <2>3
  <2> QED
    BY <2>5, <2>6
<1> QED
  BY <1>2, <1>3

(* The pages that the reservation leaves are given back. *)
LEMMA ShrunkEffect ==
  ASSUME NEW g \in States, NEW a \in Nat, NEW n \in Nat, a + n <= NumPages, NEW new,
         NEW yes \in BOOLEAN, yes, NEW w, w = Shrunk(g, a, n, new)
  PROVE  ClearEffect(g, w, Leaving(a, n, new), yes)
<1>1. PICK f : /\ f[0] = g
               /\ \A k \in 1 .. n : f[k] = ShrinkBy(f[k - 1], a + k - 1, new)
               /\ Shrunk(g, a, n, new) = f[n]
  BY ShrinkTurns
<1> DEFINE A == {k \in 0 .. n : ShrunkBy(g, f[k], a, k, new, yes)}
<1>2. 0 \in A
  <2>1. ShrunkBy(g, g, a, 0, new, yes)
    BY DEF ShrunkBy, ClearEffect, SameKernel, SameEntry
  <2>2. ShrunkBy(g, f[0], a, 0, new, yes)
    BY <1>1, <2>1, Zenon
  <2>3. 0 \in 0 .. n
    OBVIOUS
  <2> QED
    BY <2>2, <2>3, Zenon
<1>3. ASSUME NEW k \in 1 .. n, k - 1 \in A
      PROVE  k \in A
  <2>1. PICK s : s = f[k - 1]
    OBVIOUS
  <2>2. PICK t : t = f[k]
    OBVIOUS
  <2>3. PICK p \in Nat : p = a + k - 1
    OBVIOUS
  <2>4. t = ShrinkBy(s, p, new) /\ k \in Nat /\ k >= 1 /\ a + k <= NumPages
    BY <1>1, <2>1, <2>2, <2>3, Constants
  <2>5. ClearEffect(g, s, Leaving(a, k - 1, new), yes)
    BY <1>3, <2>1 DEF ShrunkBy
  <2>6. s \in States
    BY <2>5 DEF ClearEffect
  <2>7. ShrunkBy(g, t, a, k, new, yes)
    BY <2>3, <2>4, <2>5, <2>6, ShrunkStep DEF ShrunkBy
  <2>8. ShrunkBy(g, f[k], a, k, new, yes)
    BY <2>2, <2>7, Zenon
  <2>9. k \in 0 .. n
    OBVIOUS
  <2> QED
    BY <2>8, <2>9, Zenon
<1>4. n \in A
  <2> HIDE DEF A
  <2> QED
    BY <1>2, <1>3, Climb
<1> QED
  BY <1>1, <1>4 DEF ShrunkBy

(* Where the reservation is to grow, the vspace must be empty. *)
LEMMA EmptyWhereGrown ==
  ASSUME NEW s, NEW sys, Sound(s, sys), NEW r \in s.res, NEW v \in Nat, NEW e \in Nat,
         e <= KernelStart,
         ~ (v < r.start /\ ~ is_available_range(s, v, r.start)),
         ~ (e > r.end /\ ~ is_available_range(s, r.end, e)),
         NEW q \in v .. e - 1, q \notin r.start .. r.end - 1
  PROVE  Entry(s, q) = EMPTY /\ q \notin sys
<1>1. r.start \in Nat /\ r.end \in Nat /\ r.start < r.end /\ r.end <= KernelStart /\ s \in States
  BY DEF Sound, States, Reservations, ReservationsKept
<1>2. PICK x \in Nat : x = r.start
  BY <1>1
<1>3. PICK y \in Nat : y = r.end
  BY <1>1
<1>4. Entry(s, q) = EMPTY
  <2>1. CASE q < x
    <3>1. is_available_range(s, v, x) /\ \A p \in v .. x - 1 : p \in Pages
      BY <1>1, <1>2, <2>1, Constants DEF Pages
    <3>2. q \in v .. x - 1
      BY <2>1
    <3> QED
      BY <1>1, <3>1, <3>2, Available
  <2>2. CASE q >= y
    <3>1. is_available_range(s, y, e) /\ \A p \in y .. e - 1 : p \in Pages
      BY <1>1, <1>3, <2>2, Constants DEF Pages
    <3>2. q \in y .. e - 1
      BY <2>2
    <3> QED
      BY <1>1, <3>1, <3>2, Available
  <2> QED
    BY <1>2, <1>3, <2>1, <2>2
<1>5. q \in Pages
  BY Constants DEF Pages
<1> QED
  BY <1>4, <1>5 DEF Sound, SysReserved, RESERVED, EMPTY

(* The reservation that a moved one becomes. *)
Moved(r, v, e) == [r EXCEPT !.start = v, !.end = e]

(* Where the list is brought up to date. *)
MovedFrom(c, r, v, e) == [c EXCEPT !.err = FALSE, !.res = (c.res \ {r}) \cup {Moved(r, v, e)}]

(* The list with the moved reservation. *)
ListMoved(s, r, v, e) == (s.res \ {r}) \cup {Moved(r, v, e)}

(* The pages that are new to it are empty, and no page of the system. *)
FreeWhereMoved(s, sys, r, v, e) ==
  \A q \in v .. e - 1 : q \notin r.start .. r.end - 1 => Entry(s, q) = EMPTY /\ q \notin sys

(* Only the list of reservations changes. *)
WithList(g, all) == [g EXCEPT !.res = all]

(* While both its old pages and its new ones are reserved, it can be put   *)
(* at the new ones. *)
LEMMA MovedSound ==
  ASSUME NEW s, NEW sys, Sound(s, sys), NEW r \in s.res, NEW v \in Nat, NEW n \in Nat, n >= 1,
         NEW e \in Nat, e = v + n, e <= KernelStart,
         FreeWhereMoved(s, sys, r, v, e), NEW g, GrownBy(s, g, sys, r, v, n),
         NEW all, all = ListMoved(s, r, v, e), NEW u, u = WithList(g, all)
  PROVE  /\ Sound(u, sys) /\ u.res = all /\ u.slot = g.slot /\ u.at = g.at /\ u.size = g.size
         /\ u.levels = g.levels /\ u.dead = g.dead /\ u.done = g.done /\ u.kpt = g.kpt
         /\ \A q \in Pages : SameEntry(g, u, q)
         /\ Moved(r, v, e).start = v /\ Moved(r, v, e).end = e
<1>1. r \in Reservations /\ s \in States /\ g \in States
  BY DEF Sound, States, GrownBy
<1>2. PICK new \in Reservations : new = Moved(r, v, e)
  BY <1>1 DEF Moved, Reservations
<1>3. new.start = v /\ new.end = e
  BY <1>1, <1>2 DEF Moved, Reservations
<1>4. all \in SUBSET Reservations /\ \A q \in all : q = new \/ (q \in s.res /\ q # r)
  BY <1>1, <1>2 DEF States, ListMoved
<1>5. /\ u \in States /\ u.res = all /\ u.slot = g.slot /\ u.at = g.at /\ u.size = g.size
      /\ u.levels = g.levels /\ u.dead = g.dead /\ u.done = g.done /\ u.kpt = g.kpt
      /\ u.top = g.top /\ u.cap = g.cap /\ u.cookie = g.cookie
  BY <1>1, <1>4 DEF States, WithList
<1>6. \A q \in Pages : SameEntry(g, u, q)
  BY <1>5 DEF SameEntry, Entry, get_cookie
<1>7. \A q \in v .. e - 1 : q \in Pages
  BY Constants DEF Pages
<1>8. \A q \in v .. e - 1 : Entry(u, q) # EMPTY /\ q \notin sys
  <2>1. ASSUME NEW q \in v .. e - 1
        PROVE  Entry(u, q) # EMPTY /\ q \notin sys
    <3>1. Entry(u, q) = Entry(g, q)
      BY <1>6, <1>7 DEF SameEntry
    <3>2. CASE q \in r.start .. r.end - 1
      BY <3>1, <3>2 DEF GrownBy, Sound, ReservationsKept
    <3>3. CASE q \notin r.start .. r.end - 1
      BY <3>1, <3>3 DEF GrownBy, RESERVED, EMPTY, FreeWhereMoved
    <3> QED
      BY <3>2, <3>3
  <2> QED
    BY <2>1
<1>9. ASSUME NEW q \in s.res, q # r
      PROVE  /\ q.start < q.end /\ q.end <= KernelStart /\ (q.end <= v \/ e <= q.start)
             /\ \A p \in q.start .. q.end - 1 : Entry(u, p) # EMPTY /\ p \notin sys
  <2>1. q.start \in Nat /\ q.end \in Nat /\ q.start < q.end /\ q.end <= KernelStart
    BY <1>1 DEF Sound, States, Reservations, ReservationsKept
  <2>2. \A p \in q.start .. q.end - 1 : p \in Pages /\ Entry(s, p) # EMPTY /\ p \notin sys
    BY ReservedArePages DEF Sound, ReservationsKept
  <2>3. \A p \in q.start .. q.end - 1 : Entry(u, p) # EMPTY
    BY <1>6, <2>2 DEF GrownBy, SameEntry, RESERVED, EMPTY
  <2>4. r.start \in Nat /\ r.end \in Nat /\ (q.end <= r.start \/ r.end <= q.start)
    BY <1>1, <1>9 DEF Sound, ReservationsKept, Reservations
  <2>5. \A p \in q.start .. q.end - 1 : p \notin v .. e - 1
    BY <2>1, <2>2, <2>4 DEF FreeWhereMoved
  <2>6. q.end <= v \/ e <= q.start
    <3>1. CASE q.start >= v
      <4>1. q.start \in q.start .. q.end - 1
        BY <2>1
      <4> QED
        BY <2>1, <2>5, <3>1, <4>1
    <3>2. CASE q.start < v
      <4>1. v \in v .. e - 1
        OBVIOUS
      <4>2. v \notin q.start .. q.end - 1
        BY <2>5, <4>1
      <4> QED
        BY <2>1, <3>2, <4>2
    <3> QED
      BY <2>1, <3>1, <3>2
  <2> QED
    BY <2>1, <2>2, <2>3, <2>6
<1>10. ReservationsKept(u, sys)
  <2>1. v < e
    OBVIOUS
  <2>2. \A q \in all : /\ q.start < q.end /\ q.end <= KernelStart
                       /\ \A p \in q.start .. q.end - 1 : Entry(u, p) # EMPTY /\ p \notin sys
    BY <1>3, <1>4, <1>8, <1>9, <2>1
  <2>3. ASSUME NEW a \in all, NEW b \in all
        PROVE  b = a \/ b.end <= a.start \/ a.end <= b.start
    <3>1. CASE a = new /\ b = new
      BY <3>1
    <3>2. CASE a = new /\ b \in s.res /\ b # r
      BY <1>3, <1>9, <3>2
    <3>3. CASE b = new /\ a \in s.res /\ a # r
      BY <1>3, <1>9, <3>3
    <3>4. CASE a \in s.res /\ b \in s.res
      BY <3>4 DEF Sound, ReservationsKept
    <3> QED
      BY <1>4, <3>1, <3>2, <3>3, <3>4
  <2> QED
    BY <1>5, <2>2, <2>3 DEF ReservationsKept
<1>11. Sound(u, sys)
  <2>1. SysReserved(u, sys)
    BY <1>6 DEF GrownBy, Sound, SysReserved, SameEntry
  <2>2. \A p \in Pages : SameEntry(g, u, p) \/ (Entry(g, p) \notin Caps /\ Entry(u, p) \notin Caps)
    BY <1>6
  <2>3. Sound(g, sys)
    BY DEF GrownBy
  <2> QED
    BY <1>5, <1>10, <2>1, <2>2, <2>3, SoundTables
<1> QED
  BY <1>2, <1>3, <1>5, <1>6, <1>11

(* What move_resize_reservation keeps. *)
LEMMA MoveResizeGrows ==
  ASSUME NEW s, NEW sys, Sound(s, sys), NEW r \in s.res, NEW v \in Nat, NEW n \in Nat, n >= 1,
         v + n <= KernelStart, NEW t, t = move_resize(s, r, v, n), ~ t.dead
  PROVE  Grows(s, t, sys)
<1>1. PICK e \in Nat : e = v + n
  OBVIOUS
<1>2. e <= KernelStart /\ v + n <= NumPages
  BY <1>1, Constants
<1>3. CASE v < r.start /\ ~ is_available_range(s, v, r.start)
  <2>1. t = [s EXCEPT !.err = TRUE]
    BY <1>3 DEF move_resize
  <2> QED
    BY <2>1, Refused
<1>4. CASE e > r.end /\ ~ is_available_range(s, r.end, e)
  <2>1. t = [s EXCEPT !.err = TRUE]
    BY <1>1, <1>4 DEF move_resize
  <2> QED
    BY <2>1, Refused
<1>5. CASE /\ ~ (v < r.start /\ ~ is_available_range(s, v, r.start))
           /\ ~ (e > r.end /\ ~ is_available_range(s, r.end, e))
  <2>1. PICK g : g = Grown(s, r, v, n)
    OBVIOUS
  <2>2. PICK new : new = v .. v + n - 1
    OBVIOUS
  <2>3. PICK c : c = Shrunk(g, r.start, r.end - r.start, new)
    OBVIOUS
  <2>4. t = [c EXCEPT !.err = FALSE, !.res = (c.res \ {r}) \cup {Moved(r, v, e)}]
    <3>1. ~ \/ v < r.start /\ ~ is_available_range(s, v, r.start)
            \/ v + n > r.end /\ ~ is_available_range(s, r.end, v + n)
      BY <1>1, <1>5
    <3>2. t = MovedFrom(Shrunk(Grown(s, r, v, n), r.start, r.end - r.start, v .. v + n - 1), r, v, v + n)
      BY <3>1, Zenon DEF move_resize, Grown, Shrunk, Moved, MovedFrom
    <3>3. t = MovedFrom(c, r, v, e)
      BY <1>1, <2>1, <2>2, <2>3, <3>2
    <3> QED
      BY <3>3 DEF MovedFrom
  <2>5. g \in States /\ (g.dead \/ GrownBy(s, g, sys, r, v, n))
    BY <1>2, <2>1, GrownEffect
  <2>6. r.start \in Nat /\ r.end \in Nat /\ r.start < r.end /\ r.end <= KernelStart /\ s \in States
    BY DEF Sound, States, Reservations, ReservationsKept
  <2>7. PICK a \in Nat : a = r.start
    BY <2>6
  <2>8. PICK m \in Nat : m = r.end - r.start
    BY <2>6
  <2>9. PICK yes \in BOOLEAN : yes
    OBVIOUS
  <2>10. PICK X : X = Leaving(a, m, new)
    OBVIOUS
  <2>11. ClearEffect(g, c, X, yes)
    <3>1. c = Shrunk(g, a, m, new) /\ a + m <= NumPages
      BY <2>3, <2>6, <2>7, <2>8, Constants
    <3> QED
      BY <2>5, <2>9, <2>10, <3>1, ShrunkEffect
  <2>12. /\ c \in States /\ c.slot = g.slot /\ c.at = g.at /\ c.size = g.size /\ c.kpt = g.kpt
         /\ c.res = g.res /\ c.dead = g.dead /\ c.done = g.done /\ c.levels = g.levels
    BY <2>11 DEF ClearEffect, SameKernel
  <2>13. ~ g.dead
    BY <2>4, <2>12 DEF States
  <2>14. GrownBy(s, g, sys, r, v, n) /\ g.res = s.res
    BY <2>5, <2>13 DEF GrownBy
  <2>15. PICK all : all = ListMoved(s, r, v, e)
    OBVIOUS
  <2>16. PICK u : u = WithList(g, all)
    OBVIOUS
  <2>17. FreeWhereMoved(s, sys, r, v, e)
    BY <1>2, <1>5, EmptyWhereGrown DEF FreeWhereMoved
  <2>18. /\ Sound(u, sys) /\ u.res = all /\ u.slot = g.slot /\ u.at = g.at /\ u.size = g.size
         /\ u.levels = g.levels /\ u.dead = g.dead /\ u.done = g.done /\ u.kpt = g.kpt
         /\ \A q \in Pages : SameEntry(g, u, q)
         /\ Moved(r, v, e).start = v /\ Moved(r, v, e).end = e
    BY <1>1, <1>2, <2>14, <2>15, <2>16, <2>17, MovedSound
  <2>19. all \in SUBSET Reservations
    BY <2>18 DEF Sound, States
  <2>20. PICK z \in BOOLEAN : z = FALSE
    OBVIOUS
  <2>21. t = [c EXCEPT !.err = z, !.res = all]
    BY <2>4, <2>12, <2>14, <2>15, <2>20 DEF ListMoved
  <2>22. /\ t \in States /\ t.slot = c.slot /\ t.at = c.at /\ t.size = c.size /\ t.kpt = c.kpt
         /\ t.res = all /\ t.dead = c.dead /\ t.done = c.done /\ t.levels = c.levels
         /\ t.top = c.top /\ t.cap = c.cap /\ t.cookie = c.cookie
    BY <2>12, <2>19, <2>21 DEF States
  <2>23. \A q \in Pages : SameEntry(c, t, q)
    BY <2>22 DEF SameEntry, Entry, get_cookie
  <2>24. ClearEffect(u, t, X, yes)
    <3>1. SameKernel(u, t) /\ t.levels = u.levels
      BY <2>12, <2>18, <2>22 DEF SameKernel
    <3>2. \A p \in Pages :
            \/ SameEntry(u, t, p)
            \/ p \in X /\ Entry(t, p) = EMPTY /\ get_cookie(t, p) = 0 /\ (yes => Entry(u, p) = RESERVED)
      BY <2>11, <2>18, <2>23 DEF ClearEffect, SameEntry
    <3> QED
      BY <2>22, <3>1, <3>2 DEF ClearEffect
  <2>25. \A p \in X : p \in r.start .. r.end - 1 /\ p \notin v .. e - 1 /\ p \notin sys
    <3>1. \A p \in X : p \in r.start .. r.end - 1 /\ p \notin v .. e - 1
      BY <1>1, <2>2, <2>6, <2>7, <2>8, <2>10 DEF Leaving
    <3> QED
      BY <3>1 DEF Sound, ReservationsKept
  <2>26. ASSUME NEW q \in t.res
         PROVE  q \in u.res /\ \A p \in q.start .. q.end - 1 : p \notin X
    <3>1. q \in all /\ q \in u.res
      BY <2>18, <2>22
    <3>2. CASE q = Moved(r, v, e)
      BY <2>18, <2>25, <3>1, <3>2
    <3>3. CASE q \in s.res /\ q # r
      <4>1. q.start \in Nat /\ q.end \in Nat /\ (q.end <= r.start \/ r.end <= q.start)
        BY <3>3 DEF Sound, States, Reservations, ReservationsKept
      <4> QED
        BY <2>6, <2>25, <3>1, <4>1
    <3> QED
      BY <2>15, <3>1, <3>2, <3>3 DEF ListMoved
  <2>27. Sound(t, sys)
    <3>1. \A p \in Pages : SameEntry(t, t, p)
      BY DEF SameEntry
    <3>2. \A p \in X : p \notin sys
      BY <2>25
    <3>3. \A q \in t.res : q \in u.res /\ \A p \in q.start .. q.end - 1 : p \notin X
      BY <2>26
    <3>4. Sound(u, sys)
      BY <2>18
    <3> QED
      BY <2>9, <2>22, <2>24, <3>1, <3>2, <3>3, <3>4, SoundClearReserved
  <2>28. Keeps(s, t)
    <3>1. \A p \in Pages : Entry(t, p) = Entry(g, p) \/ Entry(g, p) = RESERVED
      BY <2>9, <2>11, <2>23 DEF ClearEffect, SameEntry
    <3>2. RESERVED \notin Caps /\ EMPTY \notin Caps
      BY DEF RESERVED, EMPTY, Caps
    <3> QED
      BY <2>14, <3>1, <3>2 DEF Keeps, GrownBy, SameEntry
  <2> QED
    BY <2>27, <2>28 DEF Grows
<1> QED
  BY <1>3, <1>4, <1>5

-----------------------------------------------------------------------------
(* sel4utils_bootstrap_clone_into_vspace                                   *)

(* The error and the count that a call of new_pages_at_vaddr starts with.  *)
LEMMA StartedSame ==
  ASSUME NEW s, s \in States, NEW t, t = Started(s)
  PROVE  SlotsChanged(s, t) /\ LeftAlone(s, t) /\ ~ t.err /\ t.done = 0
<1>1. PICK e \in BOOLEAN : e = FALSE
  OBVIOUS
<1>2. PICK z \in Nat : z = 0
  OBVIOUS
<1>3. t = Flagged(s, e, z)
  BY <1>1, <1>2 DEF Flagged, Started
<1> QED
  BY <1>1, <1>2, <1>3, FlagsSet

(* No page is unmapped where there is none to unmap. *)
LEMMA UnmapNone ==
  ASSUME NEW r, NEW p \in Nat, NEW z \in Nat, NEW sz \in Nat, NEW free
  PROVE  z = 0 => unmap_pages(r, p, z, sz, free) = r
<1>1. PICK g :
        /\ g[0] = r
        /\ \A k \in 1 .. z : g[k] = UnmapTurn(g[k - 1], p + (k - 1) * sz, sz, Occupied(r, p), free)
        /\ unmap_pages(r, p, z, sz, free) = g[z]
  BY UnmapTurns
<1> QED
  BY <1>1

(* What is left of the count when a call ends. *)
Ended(r) == [r EXCEPT !.err = r.err, !.done = 0]

(* new_pages_at_vaddr of one page, n = 1: nothing is left to undo. *)
LEMMA OnePage ==
  ASSUME NEW s, NEW p, NEW sz, NEW mem, NEW n \in Nat,
         NEW r, r = NewPage(Started(s), n, p, sz, mem), NEW d \in Nat, d = r.done,
         NEW t, t = new_pages_at_vaddr(s, p, n, sz, mem)
  PROVE  p \in Nat /\ sz \in Nat /\ n = 1 /\ (d = 0 \/ d = n) => t = Ended(r)
<1>1. PICK yes \in BOOLEAN : yes = TRUE
  OBVIOUS
<1>2. PICK f : /\ f[0] = Started(s)
               /\ \A k \in 1 .. n : f[k] = NewPage(f[k - 1], k, p, sz, mem)
               /\ NewLoop(s, p, n, sz, mem) = f[n]
  BY NewTurns
<1> HAVE p \in Nat /\ sz \in Nat /\ n = 1 /\ (d = 0 \/ d = n)
<1>3. f[n] = NewPage(f[n - 1], n, p, sz, mem) /\ n - 1 = 0
  BY <1>2
<1>4. NewLoop(s, p, n, sz, mem) = r
  BY <1>2, <1>3
<1>5. PICK u : u = IF r.done < n THEN unmap_pages(r, p, r.done, sz, yes) ELSE r
  OBVIOUS
<1>6. t = [u EXCEPT !.err = r.err, !.done = 0]
  <2> DEFINE Looped == NewLoop(s, p, n, sz, mem)
             Undone == IF Looped.done < n THEN unmap_pages(Looped, p, Looped.done, sz, TRUE) ELSE Looped
  <2>1. t = [Undone EXCEPT !.err = Looped.err, !.done = 0]
    BY DEF new_pages_at_vaddr, NewLoop, Started
  <2>2. Looped = r
    BY <1>4
  <2> HIDE DEF Looped
  <2>3. Undone = u
    BY <1>1, <1>5, <2>2
  <2> HIDE DEF Undone
  <2> QED
    BY <2>1, <2>2, <2>3
<1>7. u = r
  <2>1. CASE d = n
    BY <1>5, <2>1
  <2>2. CASE d = 0
    <3>1. unmap_pages(r, p, d, sz, yes) = r
      BY <2>2, UnmapNone
    <3> QED
      BY <1>5, <3>1
  <2> QED
    BY <2>1, <2>2
<1> QED
  BY <1>6, <1>7 DEF Ended

(* One page of the clone, which is reserved, is mapped; an error would be  *)
(* the last turn that does anything. *)
LEMMA ClonePagePlaced ==
  ASSUME NEW s, NEW sys, Sound(s, sys), ~ s.err, NEW p \in Nat, NEW sz \in Nat, sz = 1,
         FramePlace(p, sz), FrameFree(s, sys, p, sz), NEW mem,
         NEW t, t = ClonePage(s, p, mem), ~ t.err
  PROVE  Placed(s, t, sys, p, sz)
<1>1. PICK n \in Nat : n = 1
  OBVIOUS
<1>2. t = new_pages_at_vaddr(s, p, n, sz, mem)
  BY <1>1 DEF ClonePage
<1>3. PICK a : a = Started(s)
  OBVIOUS
<1>4. SlotsChanged(s, a) /\ LeftAlone(s, a) /\ a.done = 0
  BY <1>3, StartedSame DEF Sound
<1>5. Sound(a, sys) /\ p = p + (n - 1) * sz
  BY <1>1, <1>4, SoundSlots
<1>6. FrameFree(a, sys, p, sz)
  <2>1. \A q \in FrameAt(p, sz) : q \in Pages
    BY FrameIsPart
  <2> QED
    BY <1>4, <2>1 DEF FrameFree, SlotsChanged, SameEntry
<1>7. PICK r : r = NewPage(a, n, p, sz, mem)
  OBVIOUS
<1>8. Placed(a, r, sys, p, sz) /\ NewPageEffect(a, r, n, p, sz)
  BY <1>5, <1>6, <1>7, NewPagePlaced
<1>9. r.done = n \/ (r.err /\ r.done = 0)
  BY <1>1, <1>4, <1>8 DEF NewPageEffect
<1>10. r \in States
  BY <1>8 DEF Placed, Sound
<1>11. PICK e \in BOOLEAN : e = r.err
  BY <1>10 DEF States
<1>12. PICK z \in Nat : z = 0
  OBVIOUS
<1>13. t = Flagged(r, e, z)
  <2>1. r = NewPage(Started(s), n, p, sz, mem)
    BY <1>3, <1>7
  <2>2. PICK d \in Nat : d = r.done
    BY <1>10 DEF States
  <2>3. t = Ended(r)
    <3>1. d = 0 \/ d = n
      BY <1>9, <2>2
    <3>2. t = new_pages_at_vaddr(s, p, n, sz, mem)
      BY <1>2
    <3> QED
      BY <1>1, <2>1, <2>2, <3>1, <3>2, OnePage
  <2> QED
    BY <1>11, <1>12, <2>3 DEF Flagged, Ended
<1>14. SlotsChanged(r, t) /\ LeftAlone(r, t)
  BY <1>10, <1>13, FlagsSet
<1>15. \A q \in FrameAt(p, sz) : q \in Pages
  BY FrameIsPart
<1>16. Placed(s, r, sys, p, sz)
  BY <1>4, <1>8, <1>15, SlotsThenPlaced DEF LeftAlone
<1>17. \A d \in Caps : s.slot[d] = "bare" => t.slot[d] = "bare"
  BY <1>14, <1>16 DEF Placed, LeftAlone
<1> QED
  BY <1>14, <1>15, <1>16, <1>17, PlacedThenSlots

(* The clone so far: k pages of the reservation, from a on, are mapped. *)
ClonedBy(s, u, sys, a, k) ==
  /\ Sound(u, sys) /\ u.res = s.res
  /\ \A q \in Pages : q \notin a .. a + k - 1 => SameEntry(s, u, q)
  /\ \A d \in Caps : s.slot[d] = "bare" => u.slot[d] = "bare"

(* One more page of it. *)
LEMMA ClonedStep ==
  ASSUME NEW s, NEW sys, NEW a \in Nat, NEW n \in Nat, a + n <= NumPages,
         \A q \in a .. a + n - 1 : Entry(s, q) \notin Caps /\ q \notin sys,
         NEW k \in 1 .. n, NEW u, ClonedBy(s, u, sys, a, k - 1), NEW p \in Nat, p = a + k - 1,
         NEW mem, NEW t, t = ClonePage(u, p, mem), ~ t.err
  PROVE  ClonedBy(s, t, sys, a, k)
<1>1. ~ u.err
  BY DEF ClonePage
<1>2. PICK sz \in Nat : sz = 1
  OBVIOUS
<1>3. FramePlace(p, sz)
  BY <1>2, Constants DEF FramePlace, Sizes
<1>4. FrameAt(p, sz) = {p} /\ p \in Pages
  BY <1>2, Constants DEF FrameAt, Pages
<1>5. p \in a .. a + n - 1 /\ p \notin a .. a + (k - 1) - 1
  OBVIOUS
<1>6. FrameFree(u, sys, p, sz)
  BY <1>4, <1>5 DEF FrameFree, ClonedBy, SameEntry
<1>7. Sound(u, sys)
  BY DEF ClonedBy
<1>8. Placed(u, t, sys, p, sz)
  BY <1>1, <1>2, <1>3, <1>6, <1>7, ClonePagePlaced
<1>9. \A q \in Pages : q \notin a .. a + k - 1 => SameEntry(s, t, q)
  <2>1. ASSUME NEW q \in Pages, q \notin a .. a + k - 1
        PROVE  SameEntry(s, t, q)
    <3>1. q \notin a .. a + (k - 1) - 1 /\ q # p
      BY <2>1
    <3>2. SameEntry(s, u, q)
      BY <3>1 DEF ClonedBy
    <3>3. SameEntry(u, t, q)
      BY <1>4, <1>8, <3>1 DEF Placed
    <3> QED
      BY <3>2, <3>3 DEF SameEntry
  <2> QED
    BY <2>1
<1> QED
  BY <1>8, <1>9 DEF ClonedBy, Placed

(* The whole loop, if no page was refused. *)
LEMMA ClonedEffect ==
  ASSUME NEW s, NEW sys, Sound(s, sys), NEW a \in Nat, NEW n \in Nat, a + n <= NumPages,
         \A q \in a .. a + n - 1 : Entry(s, q) \notin Caps /\ q \notin sys,
         NEW mem, NEW t, t = Cloned(s, a, n, mem), ~ t.err
  PROVE  ClonedBy(s, t, sys, a, n)
<1>1. PICK f : /\ f[0] = s
               /\ \A k \in 1 .. n : f[k] = ClonePage(f[k - 1], a + k - 1, mem)
               /\ Cloned(s, a, n, mem) = f[n]
  BY CloneTurns
<1> DEFINE A == {k \in 0 .. n : f[k].err \/ ClonedBy(s, f[k], sys, a, k)}
<1>2. 0 \in A
  <2>1. ClonedBy(s, s, sys, a, 0)
    BY DEF ClonedBy, SameEntry
  <2>2. ClonedBy(s, f[0], sys, a, 0)
    BY <1>1, <2>1, Zenon
  <2>3. 0 \in 0 .. n
    OBVIOUS
  <2> QED
    BY <2>2, <2>3, Zenon
<1>3. ASSUME NEW k \in 1 .. n, k - 1 \in A
      PROVE  k \in A
  <2>1. PICK u : u = f[k - 1]
    OBVIOUS
  <2>2. PICK w : w = f[k]
    OBVIOUS
  <2>3. PICK p \in Nat : p = a + k - 1
    OBVIOUS
  <2>4. w = ClonePage(u, p, mem)
    BY <1>1, <2>1, <2>2, <2>3
  <2>5. u.err \/ ClonedBy(s, u, sys, a, k - 1)
    BY <1>3, <2>1
  <2>6. w.err \/ ClonedBy(s, w, sys, a, k)
    <3>1. CASE u.err
      BY <2>4, <3>1 DEF ClonePage
    <3>2. CASE ~ u.err /\ ~ w.err
      BY <2>3, <2>4, <2>5, <3>2, ClonedStep
    <3> QED
      BY <3>1, <3>2
  <2>7. f[k].err \/ ClonedBy(s, f[k], sys, a, k)
    BY <2>2, <2>6, Zenon
  <2>8. k \in 0 .. n
    OBVIOUS
  <2> QED
    BY <2>7, <2>8, Zenon
<1>4. n \in A
  <2> HIDE DEF A
  <2> QED
    BY <1>2, <1>3, Climb
<1> QED
  BY <1>1, <1>4

(* The slot through which the pages were mapped into the current vspace. *)
LeftIn(f, c, y, e) == [f EXCEPT !.slot[c] = y, !.err = e]

(* sel4utils_bootstrap_clone_into_vspace. *)
LEMMA CloneIntoGrows ==
  ASSUME NEW s, NEW sys, Sound(s, sys), FreeSlots(s) # {}, NEW c, c = TakeSlot(s),
         NEW r \in s.res, is_reserved_range(s, r.start, r.end),
         NEW n \in Nat, n <= r.end - r.start, NEW x, x = "bare", NEW b, b = WithSlot(s, c, x),
         NEW mem, NEW f, f = Cloned(b, r.start, n, mem), ~ f.err,
         NEW y, SlotKind(y), NEW e \in BOOLEAN, NEW t, t = LeftIn(f, c, y, e)
  PROVE  Grows(s, t, sys)
<1>1. /\ SlotsChanged(s, b) /\ Sound(b, sys) /\ c \in Caps /\ b.slot[c] = x
      /\ s.slot[c] = "free" /\ s.at[c] = NOWHERE
  <2>1. SlotKind(x)
    BY DEF SlotKind
  <2> QED
    BY <2>1, FillSlot
<1>2. r.start \in Nat /\ r.end \in Nat /\ r.start < r.end /\ r.end <= KernelStart /\ s \in States
  BY DEF Sound, States, Reservations, ReservationsKept
<1>3. PICK a \in Nat : a = r.start
  BY <1>2
<1>4. a + n <= NumPages /\ \A q \in a .. a + n - 1 : q \in r.start .. r.end - 1
  BY <1>2, <1>3, Constants
<1>5. \A q \in r.start .. r.end - 1 : Entry(s, q) = RESERVED /\ q \in Pages /\ q \notin sys
  <2>1. \A q \in r.start .. r.end - 1 : q \in Pages /\ q \notin sys
    BY ReservedArePages DEF Sound, ReservationsKept
  <2>2. PICK z : z = r.end
    OBVIOUS
  <2>3. is_reserved_range(s, a, z) /\ \A q \in a .. z - 1 : q \in Pages
    BY <1>3, <2>1, <2>2
  <2>4. \A q \in a .. z - 1 : Entry(s, q) = RESERVED
    BY <1>2, <2>3, Available
  <2> QED
    BY <1>3, <2>1, <2>2, <2>4
<1>6. \A q \in Pages : Entry(b, q) = Entry(s, q)
  BY <1>1 DEF SlotsChanged, SameEntry
<1>7. RESERVED \notin Caps
  BY DEF RESERVED, Caps
<1>8. \A q \in a .. a + n - 1 : Entry(b, q) \notin Caps /\ q \notin sys
  BY <1>4, <1>5, <1>6, <1>7
<1>9. ClonedBy(b, f, sys, a, n)
  BY <1>1, <1>3, <1>4, <1>8, ClonedEffect
<1>10. Keeps(s, f)
  BY <1>6, <1>8, <1>9 DEF ClonedBy, Keeps, SameEntry
<1>11. f.slot[c] = "bare" /\ f \in States /\ Sound(f, sys)
  BY <1>1, <1>9 DEF ClonedBy, Sound
<1>12. f.at[c] = NOWHERE
  BY <1>1, <1>11 DEF Sound, FramesPlaced
<1>13. PICK g : g = WithSlot(f, c, y)
  OBVIOUS
<1>14. SlotsChanged(f, g)
  BY <1>1, <1>11, <1>12, <1>13, SetSlot
<1>15. t = [g EXCEPT !.err = e]
  BY <1>13 DEF LeftIn, WithSlot
<1>16. Grows(f, g, sys)
  BY <1>11, <1>14, SlotsKeep
<1>17. Grows(g, t, sys)
  BY <1>15, <1>16, Returned DEF Grows
<1> QED
  BY <1>10, <1>16, <1>17 DEF Grows, Keeps

-----------------------------------------------------------------------------
(* The creation of a vspace                                                *)

(* The pages X of a fresh vspace are reserved, or an error says that they  *)
(* could not be; an error that was there stays. *)
BootEffect(s, t, X) ==
  /\ t \in States /\ SameKernel(s, t) /\ (s.err => t.err)
  /\ \A p \in Pages : SameEntry(s, t, p) \/ Entry(t, p) = RESERVED
  /\ ~ t.err => \A p \in X : Entry(t, p) = RESERVED

(* The part of a range in one level. *)
LEMMA BootPart ==
  ASSUME NEW s \in States, NEW i \in Tables, NEW X \in SUBSET PagesOf(i),
         NEW t, t = reserve_range_part(s, i, X)
  PROVE  BootEffect(s, t, X)
<1> DEFINE b == IF s.top[i] = "table" THEN s ELSE create_bottom_level(s, i, EMPTY)
<1>1. X \subseteq Pages /\ \A p \in X : INDEX(p) = i
  BY TablesCover, LevelOf
<1>2. CASE s.err
  BY <1>2 DEF reserve_range_part, BootEffect, SameKernel, SameEntry
<1>3. CASE ~ s.err /\ s.top[i] = "reserved"
  <2>1. t = s
    BY <1>3 DEF reserve_range_part
  <2>2. \A p \in X : Entry(t, p) = RESERVED
    BY <1>1, <1>3, <2>1 DEF Entry
  <2> QED
    BY <2>1, <2>2 DEF BootEffect, SameKernel, SameEntry
<1>4. CASE ~ s.err /\ s.top[i] = "empty" /\ X = PagesOf(i)
  <2>1. t = [s EXCEPT !.top[i] = "reserved"]
    BY <1>4 DEF reserve_range_part
  <2>2. /\ t \in States /\ SameKernel(s, t)
        /\ \A p \in Pages \ PagesOf(i) : SameEntry(s, t, p)
        /\ \A p \in PagesOf(i) : Entry(t, p) = RESERVED
    BY <1>4, <2>1, ReserveWholeEffect
  <2> QED
    BY <1>4, <2>2 DEF BootEffect
<1>5. CASE ~ s.err /\ s.top[i] # "reserved" /\ ~ (s.top[i] = "empty" /\ X = PagesOf(i))
  <2>1. t = IF b.err THEN b ELSE WriteBottom(b, X, {}, RESERVED, 0)
    BY <1>5 DEF reserve_range_part
  <2>2. /\ b \in States /\ SameKernel(s, b) /\ \A p \in Pages : SameEntry(s, b, p)
        /\ ~ b.err => b.top[i] = "table"
    <3>1. CASE s.top[i] = "table"
      BY <3>1 DEF SameKernel, SameEntry
    <3>2. CASE s.top[i] = "empty"
      <4>1. b = create_bottom_level(s, i, EMPTY)
        BY <3>2
      <4> HIDE DEF b
      <4> QED
        BY <1>5, <3>2, <4>1, CreateBottomLevelEffect
    <3> QED
      BY <1>5, <3>1, <3>2 DEF States
  <2> HIDE DEF b
  <2>3. CASE b.err
    BY <1>5, <2>1, <2>2, <2>3 DEF BootEffect
  <2>4. CASE ~ b.err
    <3>1. PICK R : R = {}
      OBVIOUS
    <3>2. t = WriteBottom(b, X, R, RESERVED, 0) /\ b.top[i] = "table"
      BY <2>1, <2>2, <2>4, <3>1
    <3>3. Accepted(X, R) = X
      BY <3>1 DEF Accepted
    <3>4. RESERVED \in EntryValues /\ 0 \in Nat /\ InLevel(X, R, i)
      BY <3>1 DEF EntryValues, InLevel
    <3>5. /\ t \in States /\ SameKernel(b, t)
          /\ \A p \in Accepted(X, R) : Entry(t, p) = RESERVED
          /\ \A p \in Pages \ Accepted(X, R) : SameEntry(b, t, p)
      BY <2>2, <3>2, <3>4, WriteBottomEffect
    <3>6. SameKernel(s, t)
      BY <2>2, <3>5 DEF SameKernel
    <3>7. \A p \in Pages : SameEntry(s, t, p) \/ Entry(t, p) = RESERVED
      BY <2>2, <3>5 DEF SameEntry
    <3> QED
      BY <1>5, <3>3, <3>5, <3>6, <3>7 DEF BootEffect
  <2> QED
    BY <2>3, <2>4
<1> QED
  BY <1>2, <1>3, <1>4, <1>5

(* One range after another. *)
LEMMA BootCompose ==
  ASSUME NEW s, NEW t, NEW u, NEW X, NEW Y, BootEffect(s, t, X), BootEffect(t, u, Y), X \subseteq Pages
  PROVE  BootEffect(s, u, X \cup Y)
<1>1. SameKernel(s, u) /\ u \in States /\ (s.err => u.err)
  BY DEF BootEffect, SameKernel
<1>2. \A p \in Pages : SameEntry(s, u, p) \/ Entry(u, p) = RESERVED
  BY DEF BootEffect, SameEntry
<1>3. ~ u.err => \A p \in X \cup Y : Entry(u, p) = RESERVED
  BY DEF BootEffect, SameEntry
<1> QED
  BY <1>1, <1>2, <1>3 DEF BootEffect

(* reserve_range. *)
LEMMA BootRange ==
  ASSUME NEW s \in States, NEW a \in Nat, NEW b \in Nat, a < b, b <= NumPages,
         NEW t, t = reserve_range(s, a, b)
  PROVE  BootEffect(s, t, a .. b - 1)
<1> DEFINE n == Entries(a, b)
           Part(k) == PartOf(INDEX(a) + k - 1, a, b)
           X(k) == Below(a, b, k)
<1>1. n \in Nat /\ INDEX(a) \in Nat
      /\ \A k \in 1 .. n : /\ INDEX(a) + k - 1 \in Tables
                           /\ Part(k) \subseteq PagesOf(INDEX(a) + k - 1)
  BY PartsOfRange
<1>2. PICK f : /\ f[0] = s
               /\ \A k \in 1 .. n : f[k] = reserve_range_part(f[k - 1], INDEX(a) + k - 1, Part(k))
               /\ t = f[n]
  BY <1>1, ReserveRangeTurns
<1>3. /\ X(0) = {} /\ X(n) = a .. b - 1
      /\ \A k \in 1 .. n : X(k) = X(k - 1) \cup Part(k) /\ X(k - 1) \subseteq Pages
  BY BelowGrows
<1> HIDE DEF n, Part, X
<1> DEFINE A == {k \in 0 .. n : BootEffect(s, f[k], X(k))}
<1>4. 0 \in A
  <2>1. BootEffect(s, s, {})
    BY DEF BootEffect, SameKernel, SameEntry
  <2>2. BootEffect(s, f[0], X(0))
    BY <1>2, <1>3, <2>1, Zenon
  <2>3. 0 \in 0 .. n
    BY <1>1
  <2> QED
    BY <2>2, <2>3, Zenon
<1>5. ASSUME NEW k \in 1 .. n, k - 1 \in A
      PROVE  k \in A
  <2>1. BootEffect(s, f[k - 1], X(k - 1)) /\ f[k - 1] \in States
    BY <1>5 DEF BootEffect
  <2>2. BootEffect(f[k - 1], f[k], Part(k))
    <3>1. PICK i \in Tables : i = INDEX(a) + k - 1
      BY <1>1
    <3>2. PICK P \in SUBSET PagesOf(i) : P = Part(k)
      BY <1>1, <3>1
    <3>3. f[k] = reserve_range_part(f[k - 1], i, P)
      BY <1>2, <3>1, <3>2
    <3> QED
      BY <2>1, <3>2, <3>3, BootPart
  <2>3. X(k) = X(k - 1) \cup Part(k) /\ X(k - 1) \subseteq Pages
    BY <1>3, <1>5
  <2>4. BootEffect(s, f[k], X(k - 1) \cup Part(k))
    BY <2>1, <2>2, <2>3, BootCompose
  <2>5. k \in 0 .. n
    BY <1>1, <1>5
  <2> QED
    BY <2>3, <2>4, <2>5
<1>6. n \in A
  <2> HIDE DEF A
  <2> QED
    BY <1>1, <1>4, <1>5, Climb
<1>7. X(n) = a .. b - 1
  BY <1>3
<1> QED
  BY <1>2, <1>6, <1>7

(* The kernel's region, which common_init_post_bootstrap reserves. *)
LEMMA KernelRegion ==
  ASSUME NEW s \in States, NEW t, t = common_init_post_bootstrap(s)
  PROVE  /\ t \in States /\ SameKernel(s, t) /\ t.err = s.err
         /\ \A p \in Pages : IF p >= KernelStart THEN Entry(t, p) = RESERVED ELSE SameEntry(s, t, p)
<1>1. PICK f \in [Tables -> {"empty", "reserved", "table"}] :
        f = [i \in Tables |-> IF i >= INDEX(KernelStart) THEN "reserved" ELSE s.top[i]]
  BY DEF States
<1>2. t = [s EXCEPT !.top = f]
  BY <1>1 DEF common_init_post_bootstrap
<1>3. t \in States /\ SameKernel(s, t) /\ t.err = s.err /\ t.top = f /\ t.cap = s.cap /\ t.cookie = s.cookie
  BY <1>2 DEF States, SameKernel
<1>4. ASSUME NEW p \in Pages
      PROVE  INDEX(p) \in Tables /\ (INDEX(p) >= INDEX(KernelStart) <=> p >= KernelStart)
  <2>1. p \in Nat /\ INDEX(p) \in Tables
    BY TablesCover
  <2>2. KernelStart = LevelSize * INDEX(KernelStart) /\ INDEX(KernelStart) \in Nat
    BY Constants, IndexOfMultiple, IndexOf, VSpaceAssumption
  <2>3. p >= KernelStart => INDEX(p) >= INDEX(KernelStart)
    BY <2>1, Constants, IndexOrder, IndexOf
  <2>4. p < KernelStart => INDEX(p) < INDEX(KernelStart)
    <3>1. /\ INDEX(p) \in Nat /\ LevelSize * INDEX(p) <= p
      BY <2>1, IndexOf
    <3>2. INDEX(KernelStart) <= INDEX(p) => LevelSize * INDEX(KernelStart) <= LevelSize * INDEX(p)
      BY <2>2, <3>1, Constants, TimesOrder
    <3>3. LevelSize * INDEX(p) \in Nat
      BY <3>1, Constants
    <3> QED
      BY <2>1, <2>2, <3>1, <3>2, <3>3, Constants
  <2> QED
    BY <2>1, <2>2, <2>3, <2>4, Constants, IndexOf
<1>5. \A p \in Pages : IF p >= KernelStart THEN Entry(t, p) = RESERVED ELSE SameEntry(s, t, p)
  BY <1>1, <1>3, <1>4 DEF Entry, get_cookie, SameEntry
<1> QED
  BY <1>3, <1>5

(* A vspace that maps and reserves nothing. *)
Fresh(s) ==
  /\ s \in States /\ s.res = {} /\ \A c \in Caps : s.at[c] = NOWHERE
  /\ \A p \in Pages : Entry(s, p) \notin Caps

(* It needs only the pages of the system reserved. *)
LEMMA FreshSound ==
  ASSUME NEW s, Fresh(s), NEW sys, SysReserved(s, sys)
  PROVE  Sound(s, sys)
BY DEF Fresh, Sound, Exclusive, FramesPlaced, RecordsMapped, ReservationsKept, MapsPage

(* The pages that the bootstrap of each kind of vspace reserves. *)
SysPages(b) ==
  (IF b = "empty" THEN {} ELSE KernelStart .. NumPages - 1)
  \cup (IF b = "own"
        THEN (0 .. ImageEnd - 1) \cup {BootFrame} \cup (ReserveStart .. KernelStart - 1)
        ELSE {})

(* The pages that a task reserves when it makes its own vspace. *)
OwnPages == ((ReserveStart .. KernelStart - 1) \cup (0 .. ImageEnd - 1)) \cup {BootFrame}

(* They are reserved, or there is an error. *)
LEMMA BootstrapEffect ==
  ASSUME NEW s \in States, NEW t, t = reserve_initial_task_regions(bootstrap_page_table(s))
  PROVE  BootEffect(s, t, OwnPages)
<1>1. PICK a : a = reserve_range(s, ReserveStart, KernelStart)
  OBVIOUS
<1>2. PICK b : b = reserve_range(a, 0, ImageEnd)
  OBVIOUS
<1>3. PICK e \in Nat : e = BootFrame + 1
  BY Constants
<1>4. t = reserve_range(b, BootFrame, e)
  BY <1>1, <1>2, <1>3 DEF reserve_initial_task_regions, bootstrap_page_table
<1>5. BootEffect(s, a, ReserveStart .. KernelStart - 1)
  BY <1>1, Constants, BootRange
<1>6. BootEffect(a, b, 0 .. ImageEnd - 1)
  BY <1>2, <1>5, Constants, BootRange DEF BootEffect
<1>7. BootEffect(b, t, BootFrame .. e - 1)
  BY <1>3, <1>4, <1>6, Constants, BootRange DEF BootEffect
<1>8. ReserveStart .. KernelStart - 1 \subseteq Pages /\ 0 .. ImageEnd - 1 \subseteq Pages
  BY Constants DEF Pages
<1>9. BootEffect(s, b, (ReserveStart .. KernelStart - 1) \cup (0 .. ImageEnd - 1))
  BY <1>5, <1>6, <1>8, BootCompose
<1>10. BootEffect(s, t, ((ReserveStart .. KernelStart - 1) \cup (0 .. ImageEnd - 1)) \cup (BootFrame .. e - 1))
  BY <1>7, <1>8, <1>9, BootCompose
<1>11. BootFrame .. e - 1 = {BootFrame}
  BY <1>3, Constants
<1> QED
  BY <1>10, <1>11 DEF OwnPages

(* Nothing is mapped by it. *)
LEMMA BootstrapFresh ==
  ASSUME NEW s, Fresh(s), NEW t, t = reserve_initial_task_regions(bootstrap_page_table(s))
  PROVE  Fresh(t)
<1>1. BootEffect(s, t, OwnPages)
  BY BootstrapEffect DEF Fresh
<1>2. RESERVED \notin Caps
  BY DEF RESERVED, Caps
<1> QED
  BY <1>1, <1>2 DEF Fresh, BootEffect, SameKernel, SameEntry

(* A vspace that a task makes for itself. *)
LEMMA BootstrapSound ==
  ASSUME NEW s, Fresh(s), NEW t, t = reserve_initial_task_regions(bootstrap_page_table(s)), ~ t.err,
         NEW u, u = common_init_post_bootstrap(t)
  PROVE  Sound(u, SysPages("own"))
<1>1. BootEffect(s, t, OwnPages)
  BY BootstrapEffect DEF Fresh
<1>2. /\ u \in States /\ SameKernel(t, u)
       /\ \A p \in Pages : IF p >= KernelStart THEN Entry(u, p) = RESERVED ELSE SameEntry(t, u, p)
  BY <1>1, KernelRegion DEF BootEffect
<1>3. RESERVED \notin Caps
  BY DEF RESERVED, Caps
<1>4. Fresh(u)
  BY <1>1, <1>2, <1>3 DEF Fresh, BootEffect, SameKernel, SameEntry
<1>5. SysReserved(u, SysPages("own"))
  <2>1. ASSUME NEW p \in Pages, p \in SysPages("own")
        PROVE  Entry(u, p) = RESERVED
    <3>1. CASE p >= KernelStart
      BY <1>2, <3>1
    <3>2. CASE ~ (p >= KernelStart)
      <4>1. p \in OwnPages
        BY <2>1, <3>2, Constants DEF SysPages, OwnPages
      <4>2. Entry(t, p) = RESERVED
        BY <1>1, <4>1 DEF BootEffect
      <4> QED
        BY <1>2, <3>2, <4>2 DEF SameEntry
    <3> QED
      BY <3>1, <3>2
  <2> QED
    BY <2>1 DEF SysReserved
<1> QED
  BY <1>4, <1>5, FreshSound

(* One that a loader makes for another task. *)
LEMMA GetSound ==
  ASSUME NEW s, Fresh(s), NEW b, b = "child" \/ b = "empty",
         NEW t, t = IF b = "child" THEN common_init_post_bootstrap(s) ELSE s
  PROVE  Sound(t, SysPages(b))
<1>1. CASE b = "child"
  <2>1. /\ t \in States /\ SameKernel(s, t)
        /\ \A p \in Pages : IF p >= KernelStart THEN Entry(t, p) = RESERVED ELSE SameEntry(s, t, p)
    BY <1>1, KernelRegion DEF Fresh
  <2>2. RESERVED \notin Caps
    BY DEF RESERVED, Caps
  <2>3. Fresh(t)
    BY <2>1, <2>2 DEF Fresh, SameKernel, SameEntry
  <2>4. SysReserved(t, SysPages(b))
    BY <1>1, <2>1, Constants DEF SysReserved, SysPages
  <2> QED
    BY <2>3, <2>4, FreshSound
<1>2. CASE b = "empty"
  <2>1. t = s /\ SysReserved(s, SysPages(b))
    BY <1>2 DEF SysReserved, SysPages
  <2> QED
    BY <2>1, FreshSound
<1> QED
  BY <1>1, <1>2

-----------------------------------------------------------------------------
(* The invariant                                                           *)

(* Nothing is recorded before the vspace is made, nor after it is torn     *)
(* down; between, it is sound. *)
Inv ==
  /\ bootstrap \in {"own", "child", "empty"} /\ phase \in {"raw", "up", "gone"}
  /\ phase = "raw" => Fresh(Now)
  /\ phase = "up" => Sound(Now, SysPages(bootstrap))
  /\ phase = "gone" => reservations = {} /\ \A p \in Pages : Entry(Now, p) \notin Caps

(* What a step must achieve. *)
Step == Inv' /\ (phase' = "gone" \/ Kept(Now, Now'))

(* The state that a call ends in is the next one. *)
LEMMA BecomesNext ==
  ASSUME NEW t, t \in States, Becomes(t)
  PROVE  /\ ~ t.dead /\ bootstrap' = bootstrap /\ SlotsChanged(t, Now')
         /\ (Now').slot = t.slot /\ (Now').at = t.at /\ (Now').size = t.size
<1>1. ~ t.dead /\ bootstrap' = bootstrap
  BY DEF Becomes
<1>2. PICK z \in Nat : z = 0
  OBVIOUS
<1>3. PICK no \in BOOLEAN : no = FALSE
  OBVIOUS
<1>4. Now' = [top |-> t.top, cap |-> t.cap, cookie |-> t.cookie, last |-> t.last, res |-> t.res,
              levels |-> t.levels, slot |-> t.slot, size |-> t.size, at |-> t.at, kpt |-> t.kpt,
              err |-> no, dead |-> no, done |-> z]
  BY <1>2, <1>3 DEF Becomes, Now
<1>5. PICK u : u = Now'
  OBVIOUS
<1>6. /\ u \in States /\ u.res = t.res /\ u.levels = t.levels /\ u.dead = no
      /\ u.top = t.top /\ u.cap = t.cap /\ u.cookie = t.cookie
      /\ u.slot = t.slot /\ u.at = t.at /\ u.size = t.size
  BY <1>4, <1>5 DEF States
<1>7. t.dead = no
  BY <1>1, <1>3 DEF States
<1>8. SlotsChanged(t, u)
  BY <1>6, <1>7 DEF SlotsChanged, SameEntry, Entry, get_cookie
<1> QED
  BY <1>1, <1>5, <1>6, <1>8

(* A call keeps the invariant if the state it ends in is sound. *)
LEMMA CallKeeps ==
  ASSUME Inv, NEW t, Call(t), ~ t.dead => Safe(Now, t, SysPages(bootstrap))
  PROVE  Step
<1>1. phase = "up" /\ phase' = "up" /\ Becomes(t) /\ ~ t.dead
  BY DEF Call, Becomes
<1>2. Sound(t, SysPages(bootstrap)) /\ Kept(Now, t)
  BY <1>1 DEF Safe
<1>3. /\ bootstrap' = bootstrap /\ SlotsChanged(t, Now') /\ (Now').at = t.at
  BY <1>1, <1>2, BecomesNext DEF Sound
<1>4. PICK u : u = Now'
  OBVIOUS
<1>5. Sound(u, SysPages(bootstrap))
  BY <1>2, <1>3, <1>4, SoundSlots
<1>6. Kept(Now, u)
  BY <1>2, <1>3, <1>4 DEF Kept, SlotsChanged, SameEntry
<1>7. Sound(Now', SysPages(bootstrap'))
  BY <1>3, <1>4, <1>5
<1>8. Inv'
  BY <1>1, <1>3, <1>7 DEF Inv
<1> QED
  BY <1>4, <1>6, <1>8 DEF Step

-----------------------------------------------------------------------------
(* Every action keeps the invariant                                        *)

(* A call of the interface starts in a sound state. *)
LEMMA CallSound ==
  ASSUME Inv, NEW t, Call(t)
  PROVE  Sound(Now, SysPages(bootstrap))
BY DEF Call, Inv

(* A call that unmaps nothing. *)
LEMMA CallGrows ==
  ASSUME Inv, NEW s, s = Now, NEW sys, sys = SysPages(bootstrap), NEW t, Call(t),
         ~ t.dead => Grows(s, t, sys)
  PROVE  Step
<1>1. ~ t.dead => Safe(Now, t, SysPages(bootstrap))
  BY KeepsThenKept DEF Grows, Safe
<1> QED
  BY <1>1, CallKeeps

(* A call that is refused. *)
LEMMA CallRefused ==
  ASSUME Inv, NEW s, s = Now, NEW sys, sys = SysPages(bootstrap), Sound(s, sys),
         NEW t, t = [s EXCEPT !.err = TRUE], Call(t)
  PROVE  Step
<1>1. Grows(s, t, sys)
  BY Refused
<1> QED
  BY <1>1, CallGrows

(* vspace_new_pages. *)
LEMMA NewPagesStep ==
  ASSUME Inv, NEW n \in Nat, n >= 1, NEW sz \in Sizes, NEW mem, NewPages(n, sz, mem)
  PROVE  Step
<1>1. PICK s : s = Now
  OBVIOUS
<1>2. PICK sys : sys = SysPages(bootstrap)
  OBVIOUS
<1>3. PICK t : t = new_pages(s, n, sz, mem)
  OBVIOUS
<1>4. Call(t)
  BY <1>1, <1>3 DEF NewPages
<1>5. Sound(s, sys)
  BY <1>1, <1>2, <1>4, CallSound
<1>6. ~ t.dead => Grows(s, t, sys)
  BY <1>3, <1>5, NewPagesGrows
<1> QED
  BY <1>1, <1>2, <1>4, <1>6, CallGrows

(* sel4utils_new_pages_at_vaddr. *)
LEMMA NewPagesAtStep ==
  ASSUME Inv, NEW r \in reservations, NEW n \in Nat, n >= 1, NEW sz \in Sizes, NEW mem,
         NEW v \in Nat, v % sz = 0, NewPagesAt(r, v, n, sz, mem)
  PROVE  Step
<1>1. PICK s : s = Now
  OBVIOUS
<1>2. PICK sys : sys = SysPages(bootstrap)
  OBVIOUS
<1>3. r \in s.res
  BY <1>1 DEF Now
<1>4. CASE check_reservation(s, r, v, v + n * sz)
  <2>1. PICK t : t = new_pages_at_vaddr(s, v, n, sz, mem)
    OBVIOUS
  <2>2. Call(t)
    BY <1>1, <1>4, <2>1 DEF NewPagesAt
  <2>3. Sound(s, sys)
    BY <1>1, <1>2, <2>2, CallSound
  <2>4. ~ t.dead => Grows(s, t, sys)
    BY <1>3, <1>4, <2>1, <2>3, NewPagesInReservation
  <2> QED
    BY <1>1, <1>2, <2>2, <2>4, CallGrows
<1>5. CASE ~ check_reservation(s, r, v, v + n * sz)
  <2>1. PICK t : t = [s EXCEPT !.err = TRUE]
    OBVIOUS
  <2>2. Call(t)
    BY <1>1, <1>5, <2>1 DEF NewPagesAt
  <2>3. Sound(s, sys)
    BY <1>1, <1>2, <2>2, CallSound
  <2> QED
    BY <1>1, <1>2, <2>1, <2>2, <2>3, CallRefused
<1> QED
  BY <1>4, <1>5

(* vspace_map_pages. *)
LEMMA MapPagesStep ==
  ASSUME Inv, NEW n, n \in 1 .. 2, NEW cookies \in BOOLEAN, NEW sz \in Sizes, NEW mem,
         MapPages(n, cookies, sz, mem)
  PROVE  Step
<1>1. PICK s : s = Now
  OBVIOUS
<1>2. PICK sys : sys = SysPages(bootstrap)
  OBVIOUS
<1>3. PICK caps : caps = Brought(s, n)
  OBVIOUS
<1>4. PICK a : a = Bringing(s, caps)
  OBVIOUS
<1>5. PICK t : t = map_pages(a, caps, cookies, sz, mem)
  OBVIOUS
<1>6. Call(t) /\ Cardinality(FreeSlots(s)) >= n
  BY <1>1, <1>3, <1>4, <1>5 DEF MapPages
<1>7. Sound(s, sys) /\ EnoughSlots(s, n)
  BY <1>1, <1>2, <1>6, CallSound DEF EnoughSlots
<1>8. /\ Sound(a, sys) /\ Grows(s, a, sys)
      /\ Len(caps) = n /\ n \in Nat /\ n >= 1
      /\ \A k \in 1 .. n : caps[k] \in Caps /\ a.slot[caps[k]] \in {"frame", "copy"}
  BY <1>3, <1>4, <1>7, BroughtFrames
<1>9. Ready(a, caps, n)
  BY <1>8 DEF Ready
<1>10. Grows(a, t, sys)
  BY <1>5, <1>8, <1>9, MapPagesGrows
<1>11. Grows(s, t, sys)
  BY <1>8, <1>10 DEF Grows, Keeps
<1> QED
  BY <1>1, <1>2, <1>6, <1>11, CallGrows

(* sel4utils_map_pages_at_vaddr, and its deferred variant. *)
LEMMA MapPagesAtStep ==
  ASSUME Inv, NEW r \in reservations, NEW deferred, NEW n, n \in 1 .. 2, NEW sz \in Sizes, NEW mem,
         NEW v \in Nat, v % sz = 0, MapPagesAt(r, deferred, v, n, sz, mem)
  PROVE  Step
<1>1. PICK s : s = Now
  OBVIOUS
<1>2. PICK sys : sys = SysPages(bootstrap)
  OBVIOUS
<1>3. r \in s.res
  BY <1>1 DEF Now
<1>4. PICK caps : caps = Brought(s, n)
  OBVIOUS
<1>5. PICK no \in BOOLEAN : no = FALSE
  OBVIOUS
<1>6. Cardinality(FreeSlots(s)) >= n
  BY <1>1 DEF MapPagesAt
<1>7. CASE check_reservation(s, r, v, v + n * sz) /\ r.deferred = deferred
  <2>1. PICK t : t = map_pages_at_vaddr(Bringing(s, caps), caps, no, v, sz, mem)
    OBVIOUS
  <2>2. Call(t)
    BY <1>1, <1>4, <1>5, <1>7, <2>1 DEF MapPagesAt
  <2>3. Sound(s, sys) /\ EnoughSlots(s, n)
    BY <1>1, <1>2, <1>6, <2>2, CallSound DEF EnoughSlots
  <2>4. Grows(s, t, sys)
    BY <1>3, <1>4, <1>7, <2>1, <2>3, MapPagesInReservation
  <2> QED
    BY <1>1, <1>2, <2>2, <2>4, CallGrows
<1>8. CASE ~ (check_reservation(s, r, v, v + n * sz) /\ r.deferred = deferred)
  <2>1. PICK t : t = [s EXCEPT !.err = TRUE]
    OBVIOUS
  <2>2. Call(t)
    BY <1>1, <1>8, <2>1 DEF MapPagesAt
  <2>3. Sound(s, sys)
    BY <1>1, <1>2, <2>2, CallSound
  <2> QED
    BY <1>1, <1>2, <2>1, <2>2, <2>3, CallRefused
<1> QED
  BY <1>7, <1>8

(* The capability recorded for a page, whichever way it is read. *)
LEMMA CapOfEntry ==
  ASSUME NEW s, NEW p
  PROVE  /\ get_cap(s, p) \in Caps <=> Entry(s, p) \in Caps
         /\ get_cap(s, p) \in Caps => get_cap(s, p) = Entry(s, p)
BY DEF get_cap, Entry, Caps, RESERVED, EMPTY

(* A call that may unmap. *)
LEMMA CallSafe ==
  ASSUME Inv, NEW s, s = Now, NEW sys, sys = SysPages(bootstrap), NEW t, Call(t),
         ~ t.dead => Safe(s, t, sys)
  PROVE  Step
BY CallKeeps

(* The caller frees a frame of its own. *)
LEMMA CallerFreesStep ==
  ASSUME Inv, NEW c \in Caps, CallerFrees(c)
  PROVE  Step
<1>1. PICK s : s = Now
  OBVIOUS
<1>2. PICK sys : sys = SysPages(bootstrap)
  OBVIOUS
<1>3. PICK t : t = FreeCap(s, c)
  OBVIOUS
<1>4. Call(t) /\ \A p \in Pages : get_cap(s, p) # c
  BY <1>1, <1>3 DEF CallerFrees
<1>5. Sound(s, sys)
  BY <1>1, <1>2, <1>4, CallSound
<1>6. \A p \in Pages : Entry(s, p) # c
  BY <1>4, CapOfEntry
<1>7. Grows(s, t, sys)
  BY <1>3, <1>5, <1>6, FreeUnrecorded
<1> QED
  BY <1>1, <1>2, <1>4, <1>7, CallGrows

(* sel4utils_unmap_pages. *)
LEMMA UnmapPagesStep ==
  ASSUME Inv, NEW v, NEW n, NEW sz, Fits(v, n, sz), NEW free \in BOOLEAN,
         UnmapPages(v, n, sz, free)
  PROVE  Step
<1>1. PICK s : s = Now
  OBVIOUS
<1>2. PICK sys : sys = SysPages(bootstrap)
  OBVIOUS
<1>3. PICK t : t = unmap_pages(s, v, n, sz, free)
  OBVIOUS
<1>4. Call(t)
  BY <1>1, <1>3 DEF UnmapPages
<1>5. Sound(s, sys)
  BY <1>1, <1>2, <1>4, CallSound
<1>6. ASSUME NEW k \in 1 .. n
      PROVE  /\ get_cap(s, Nth(v, k, sz)) \in Caps
             /\ s.at[get_cap(s, Nth(v, k, sz))] = Nth(v, k, sz)
             /\ s.size[get_cap(s, Nth(v, k, sz))] = sz
             /\ \A q \in FrameAt(Nth(v, k, sz), sz) : (find_reserve(s, q) = {}) = (find_reserve(s, v) = {})
  <2>1. s.at = at /\ s.size = size
    BY <1>1 DEF Now
  <2> QED
    BY <1>1, <2>1 DEF UnmapPages, Nth, FrameAt
<1>7. \A j \in 1 .. n : Whole(s, Nth(v, j, sz), sz)
  BY <1>6, CapOfEntry DEF Whole
<1>8. Uniform(s, v, n, sz)
  <2>1. ASSUME ~ Occupied(s, v), NEW q \in Run(v, n, sz)
        PROVE  find_reserve(s, q) = {}
    <3>1. PICK k \in 1 .. n : q \in FrameAt(Nth(v, k, sz), sz)
      BY RunFrames
    <3>2. (find_reserve(s, q) = {}) = (find_reserve(s, v) = {})
      BY <1>6, <3>1
    <3> QED
      BY <2>1, <3>2 DEF Occupied
  <2> QED
    BY <2>1 DEF Uniform, RunUnreserved
<1>9. ~ t.dead => Safe(s, t, sys)
  BY <1>3, <1>5, <1>7, <1>8, UnmapPagesSafe
<1> QED
  BY <1>1, <1>2, <1>4, <1>9, CallSafe

(* sel4utils_reserve_range_aligned. *)
LEMMA ReserveStep ==
  ASSUME Inv, NEW n \in Nat, n >= 1, NEW sz \in Sizes, Reserve(n, sz)
  PROVE  Step
<1>1. PICK s : s = Now
  OBVIOUS
<1>2. PICK sys : sys = SysPages(bootstrap)
  OBVIOUS
<1>3. PICK t : t = reserve_range_aligned(s, n, sz)
  OBVIOUS
<1>4. Call(t)
  BY <1>1, <1>3 DEF Reserve
<1>5. Sound(s, sys)
  BY <1>1, <1>2, <1>4, CallSound
<1>6. PICK no \in BOOLEAN : ~ no
  OBVIOUS
<1>7. PICK v : v = find_range(s, (n + sz - 1) \div sz, sz)
  OBVIOUS
<1>8. ~ t.dead => Grows(s, t, sys)
  BY <1>3, <1>5, <1>6, <1>7, ReserveAligned
<1> QED
  BY <1>1, <1>2, <1>4, <1>8, CallGrows

(* sel4utils_reserve_range_at. *)
LEMMA ReserveAtStep ==
  ASSUME Inv, NEW v \in Nat, NEW n \in Nat, n >= 1, v + n <= KernelStart,
         NEW deferred \in BOOLEAN, ReserveAt(v, n, deferred)
  PROVE  Step
<1>1. PICK s : s = Now
  OBVIOUS
<1>2. PICK sys : sys = SysPages(bootstrap)
  OBVIOUS
<1>3. CASE is_available_range(s, v, v + n)
  <2>1. PICK t : t = perform_reservation(s, v, n, deferred)
    OBVIOUS
  <2>2. Call(t)
    BY <1>1, <1>3, <2>1 DEF ReserveAt
  <2>3. Sound(s, sys)
    BY <1>1, <1>2, <2>2, CallSound
  <2>4. ~ t.dead => Grows(s, t, sys)
    BY <1>3, <2>1, <2>3, ReserveAtGrows
  <2> QED
    BY <1>1, <1>2, <2>2, <2>4, CallGrows
<1>4. CASE ~ is_available_range(s, v, v + n)
  <2>1. PICK t : t = [s EXCEPT !.err = TRUE]
    OBVIOUS
  <2>2. Call(t)
    BY <1>1, <1>4, <2>1 DEF ReserveAt
  <2>3. Sound(s, sys)
    BY <1>1, <1>2, <2>2, CallSound
  <2> QED
    BY <1>1, <1>2, <2>1, <2>2, <2>3, CallRefused
<1> QED
  BY <1>3, <1>4

(* sel4utils_free_reservation. *)
LEMMA FreeReservationStep ==
  ASSUME Inv, NEW r \in reservations, FreeReservation(r)
  PROVE  Step
<1>1. PICK s : s = Now
  OBVIOUS
<1>2. PICK sys : sys = SysPages(bootstrap)
  OBVIOUS
<1>3. PICK t : t = free_reservation(s, r)
  OBVIOUS
<1>4. Call(t) /\ r \in s.res
  BY <1>1, <1>3 DEF FreeReservation, Now
<1>5. Sound(s, sys)
  BY <1>1, <1>2, <1>4, CallSound
<1>6. Unreserving(s, t, sys, r)
  BY <1>3, <1>4, <1>5, FreeReservationEffect
<1>7. Grows(s, t, sys)
  BY <1>6 DEF Unreserving
<1> QED
  BY <1>1, <1>2, <1>4, <1>7, CallGrows

(* sel4utils_move_resize_reservation. *)
LEMMA MoveResizeStep ==
  ASSUME Inv, NEW r \in reservations, NEW v \in Nat, NEW n \in Nat, n >= 1, v + n <= KernelStart,
         MoveResize(r, v, n)
  PROVE  Step
<1>1. PICK s : s = Now
  OBVIOUS
<1>2. PICK sys : sys = SysPages(bootstrap)
  OBVIOUS
<1>3. PICK t : t = move_resize(s, r, v, n)
  OBVIOUS
<1>4. Call(t) /\ r \in s.res
  BY <1>1, <1>3 DEF MoveResize, Now
<1>5. Sound(s, sys)
  BY <1>1, <1>2, <1>4, CallSound
<1>6. ~ t.dead => Grows(s, t, sys)
  BY <1>3, <1>4, <1>5, MoveResizeGrows
<1> QED
  BY <1>1, <1>2, <1>4, <1>6, CallGrows

(* vspace_new_sized_stack. *)
LEMMA NewSizedStackStep ==
  ASSUME Inv, NEW n \in Nat, n >= 1, NEW mem, NewSizedStack(n, mem)
  PROVE  Step
<1>1. PICK s : s = Now
  OBVIOUS
<1>2. PICK sys : sys = SysPages(bootstrap)
  OBVIOUS
<1>3. PICK v : v = find_range(s, n + 1, 1)
  OBVIOUS
<1>4. PICK r : r = [start |-> v, end |-> v + n + 1, deferred |-> FALSE]
  OBVIOUS
<1>5. PICK b : b = reserve_range_aligned(s, n + 1, 1)
  OBVIOUS
<1>6. PICK p : p = new_pages_at_vaddr(b, v + 1, n, 1, mem)
  OBVIOUS
<1>7. PICK u : u = free_reservation(p, r)
  OBVIOUS
<1>8. PICK t : t = IF b.err \/ b.dead THEN b ELSE IF p.dead \/ ~ p.err THEN p ELSE u
  OBVIOUS
<1>9. Call(t)
  BY <1>1, <1>3, <1>4, <1>5, <1>6, <1>7, <1>8 DEF NewSizedStack, Unless
<1>10. Sound(s, sys)
  BY <1>1, <1>2, <1>9, CallSound
<1>11. ASSUME ~ t.dead
       PROVE  Grows(s, t, sys)
  <2>1. CASE b.err \/ b.dead
    <3>1. t = b /\ ~ b.dead
      BY <1>8, <1>11, <2>1
    <3>2. PICK m \in Nat : m = n + 1
      OBVIOUS
    <3>3. PICK one \in Sizes : one = 1
      BY DEF Sizes
    <3>4. PICK w : w = find_range(s, (m + one - 1) \div one, one)
      OBVIOUS
    <3>5. PICK no \in BOOLEAN : ~ no
      OBVIOUS
    <3>6. b = reserve_range_aligned(s, m, one) /\ m >= 1
      BY <1>5, <3>2, <3>3
    <3>7. Grows(s, b, sys)
      BY <1>10, <3>1, <3>4, <3>5, <3>6, ReserveAligned
    <3> QED
      BY <3>1, <3>7
  <2>2. CASE ~ (b.err \/ b.dead) /\ ~ p.dead
    <3>1. /\ Grows(s, p, sys)
          /\ \A x : x = free_reservation(p, r) => Grows(s, x, sys)
      BY <1>3, <1>4, <1>5, <1>6, <1>10, <2>2, NewSizedStackGrows
    <3>2. Grows(s, u, sys)
      BY <1>7, <3>1
    <3> QED
      BY <1>8, <2>2, <3>1, <3>2
  <2>3. CASE ~ (b.err \/ b.dead) /\ p.dead
    BY <1>8, <1>11, <2>3
  <2> QED
    BY <2>1, <2>2, <2>3
<1> QED
  BY <1>1, <1>2, <1>9, <1>11, CallGrows

(* vspace_new_pages_with_config. *)
LEMMA NewPagesWithConfigStep ==
  ASSUME Inv, NEW n \in Nat, n >= 1, NEW sz \in Sizes, NEW mem, NewPagesWithConfig(n, sz, mem)
  PROVE  Step
<1>1. PICK s : s = Now
  OBVIOUS
<1>2. PICK sys : sys = SysPages(bootstrap)
  OBVIOUS
<1>3. PICK v : v = find_range(s, n, sz)
  OBVIOUS
<1>4. PICK r : r = [start |-> v, end |-> v + n * sz, deferred |-> FALSE]
  OBVIOUS
<1>5. PICK b : b = reserve_range_aligned(s, n * sz, sz)
  OBVIOUS
<1>6. PICK p : p = new_pages_at_vaddr(b, v, n, sz, mem)
  OBVIOUS
<1>7. PICK u : u = free_reservation(p, r)
  OBVIOUS
<1>8. PICK t : t = IF b.err \/ b.dead THEN b ELSE IF p.dead THEN p ELSE u
  OBVIOUS
<1>9. Call(t)
  BY <1>1, <1>3, <1>4, <1>5, <1>6, <1>7, <1>8 DEF NewPagesWithConfig, Unless
<1>10. Sound(s, sys)
  BY <1>1, <1>2, <1>9, CallSound
<1>11. ASSUME ~ t.dead
       PROVE  Grows(s, t, sys)
  <2>1. CASE b.err \/ b.dead
    <3>1. t = b /\ ~ b.dead
      BY <1>8, <1>11, <2>1
    <3>2. PICK m \in Nat : m = n * sz /\ m >= 1
      BY Constants DEF Sizes
    <3>3. PICK w : w = find_range(s, (m + sz - 1) \div sz, sz)
      OBVIOUS
    <3>4. PICK no \in BOOLEAN : ~ no
      OBVIOUS
    <3>5. b = reserve_range_aligned(s, m, sz)
      BY <1>5, <3>2
    <3>6. Grows(s, b, sys)
      BY <1>10, <3>1, <3>2, <3>3, <3>4, <3>5, ReserveAligned
    <3> QED
      BY <3>1, <3>6
  <2>2. CASE ~ (b.err \/ b.dead) /\ ~ p.dead
    <3>1. \A x : x = free_reservation(p, r) => Grows(s, x, sys)
      BY <1>3, <1>4, <1>5, <1>6, <1>10, <2>2, NewPagesWithConfigGrows
    <3>2. Grows(s, u, sys)
      BY <1>7, <3>1
    <3> QED
      BY <1>8, <2>2, <3>2
  <2>3. CASE ~ (b.err \/ b.dead) /\ p.dead
    BY <1>8, <1>11, <2>3
  <2> QED
    BY <2>1, <2>2, <2>3
<1> QED
  BY <1>1, <1>2, <1>9, <1>11, CallGrows

(* vspace_share_mem. *)
LEMMA ShareMemStep ==
  ASSUME Inv, NEW n \in Nat, n >= 1, NEW sz \in Sizes, NEW mem, NEW from, ShareMem(from, n, sz, mem)
  PROVE  Step
<1>1. PICK s : s = Now
  OBVIOUS
<1>2. PICK sys : sys = SysPages(bootstrap)
  OBVIOUS
<1>3. PICK t : t = share_mem(s, from, n, sz, mem)
  OBVIOUS
<1>4. Call(t)
  BY <1>1, <1>3 DEF ShareMem
<1>5. Sound(s, sys)
  BY <1>1, <1>2, <1>4, CallSound
<1>6. PICK v : v = find_range(s, n, sz)
  OBVIOUS
<1>7. ~ t.dead => Grows(s, t, sys)
  BY <1>3, <1>5, <1>6, ShareMemGrows
<1> QED
  BY <1>1, <1>2, <1>4, <1>7, CallGrows

(* vspace_access_page_with_callback. *)
LEMMA AccessPageStep ==
  ASSUME Inv, NEW from, NEW mem, AccessPage(from, mem)
  PROVE  Step
<1>1. PICK s : s = Now
  OBVIOUS
<1>2. PICK sys : sys = SysPages(bootstrap)
  OBVIOUS
<1>3. PICK one \in Nat : one = 1
  OBVIOUS
<1>4. PICK sz \in Sizes : sz = 1
  BY DEF Sizes
<1>5. PICK yes \in BOOLEAN : yes = TRUE
  OBVIOUS
<1>6. PICK v : v = find_range(s, one, sz)
  OBVIOUS
<1>7. PICK b : b = share_mem(s, from, one, sz, mem)
  OBVIOUS
<1>8. PICK u : u = unmap_pages(b, v, one, sz, yes)
  OBVIOUS
<1>9. PICK t : t = IF b.err \/ b.dead THEN b ELSE u
  OBVIOUS
<1>10. Call(t)
  <2>1. v = find_range(Now, 1, 1) /\ b = share_mem(Now, from, 1, 1, mem) /\ u = unmap_pages(b, v, 1, 1, TRUE)
    BY <1>1, <1>3, <1>4, <1>5, <1>6, <1>7, <1>8
  <2> QED
    BY <1>9, <2>1 DEF AccessPage, Unless
<1>11. Sound(s, sys)
  BY <1>1, <1>2, <1>10, CallSound
<1>12. ASSUME ~ t.dead
       PROVE  Safe(s, t, sys)
  <2>1. CASE b.err \/ b.dead
    <3>1. t = b /\ ~ b.dead
      BY <1>9, <1>12, <2>1
    <3>2. one >= 1
      BY <1>3
    <3>3. Grows(s, b, sys)
      BY <1>6, <1>7, <1>11, <3>1, <3>2, ShareMemGrows
    <3> QED
      BY <3>1, <3>3, KeepsThenKept DEF Grows, Safe
  <2>2. CASE ~ (b.err \/ b.dead)
    <3>1. t = u /\ ~ u.dead
      BY <1>9, <1>12, <2>2
    <3>2. Safe(s, u, sys)
      BY <1>3, <1>4, <1>6, <1>7, <1>8, <1>11, <2>2, <3>1, AccessPageSafe
    <3> QED
      BY <3>1, <3>2
  <2> QED
    BY <2>1, <2>2
<1> QED
  BY <1>1, <1>2, <1>10, <1>12, CallSafe

(* A recorded frame of one page is mapped at the page. *)
LEMMA SmallFrame ==
  ASSUME NEW s, NEW sys, Sound(s, sys), NEW p \in Pages, get_cap(s, p) \in Caps,
         NEW sz, sz = 1, s.size[get_cap(s, p)] = sz
  PROVE  Whole(s, p, sz)
<1>1. PICK c \in Caps : c = get_cap(s, p)
  OBVIOUS
<1>2. Entry(s, p) = c
  BY <1>1, CapOfEntry
<1>3. s.at[c] # NOWHERE /\ p \in s.at[c] .. s.at[c] + s.size[c] - 1
  BY <1>2 DEF Sound, RecordsMapped, MapsPage
<1>4. s.at[c] \in Nat
  BY <1>3 DEF Sound, States, Pages
<1>5. s.at[c] = p
  BY <1>1, <1>3, <1>4
<1> QED
  BY <1>1, <1>2, <1>5 DEF Whole

(* vspace_free_sized_stack. *)
LEMMA FreeSizedStackStep ==
  ASSUME Inv, NEW r \in reservations, FreeSizedStack(r)
  PROVE  Step
<1>1. PICK s : s = Now
  OBVIOUS
<1>2. PICK sys : sys = SysPages(bootstrap)
  OBVIOUS
<1>3. r \in s.res /\ s.size = size
  BY <1>1 DEF Now
<1>4. phase = "up"
  BY DEF FreeSizedStack, Call
<1>5. Sound(s, sys)
  BY <1>1, <1>2, <1>4 DEF Inv
<1>6. r.start \in Nat /\ r.end \in Nat /\ r.end <= KernelStart
  BY <1>3, <1>5 DEF Sound, States, Reservations, ReservationsKept
<1>7. r.end > r.start + 1
  BY DEF FreeSizedStack
<1>8. PICK v \in Nat : v = r.start + 1
  BY <1>6
<1>9. PICK n \in Nat : n = r.end - r.start - 1
  BY <1>6, <1>7
<1>10. PICK sz \in Sizes : sz = 1
  BY DEF Sizes
<1>11. PICK yes \in BOOLEAN : yes = TRUE
  OBVIOUS
<1>12. PICK u : u = unmap_pages(s, v, n, sz, yes)
  OBVIOUS
<1>13. PICK t : t = IF u.dead THEN u ELSE free_reservation(u, r)
  OBVIOUS
<1>14. Call(t)
  <2>1. u = unmap_pages(Now, r.start + 1, r.end - r.start - 1, 1, TRUE)
    BY <1>1, <1>8, <1>9, <1>10, <1>11, <1>12
  <2> QED
    BY <1>13, <2>1 DEF FreeSizedStack
<1>15. Fits(v, n, sz)
  BY <1>6, <1>7, <1>8, <1>9, <1>10, Constants DEF Fits
<1>16. \A j \in 1 .. n : Whole(s, Nth(v, j, sz), sz)
  <2>1. ASSUME NEW j \in 1 .. n
        PROVE  Whole(s, Nth(v, j, sz), sz)
    <3>1. PICK p : p = Nth(v, j, sz)
      OBVIOUS
    <3>2. p \in r.start + 1 .. r.end - 1
      BY <1>6, <1>7, <1>8, <1>9, <1>10, <3>1 DEF Nth
    <3>3. get_cap(s, p) \in Caps /\ s.size[get_cap(s, p)] = sz
      BY <1>1, <1>3, <1>10, <3>2 DEF FreeSizedStack
    <3>4. p \in Pages
      BY <1>6, <3>2, Constants DEF Pages
    <3> QED
      BY <1>5, <1>10, <3>1, <3>3, <3>4, SmallFrame
  <2> QED
    BY <2>1
<1>17. Uniform(s, v, n, sz)
  <2>1. r \in find_reserve(s, v)
    BY <1>3, <1>6, <1>7, <1>8 DEF find_reserve
  <2> QED
    BY <2>1 DEF Uniform, Occupied
<1>18. ASSUME ~ t.dead
       PROVE  Safe(s, t, sys)
  <2>1. CASE u.dead
    BY <1>13, <1>18, <2>1
  <2>2. CASE ~ u.dead
    <3>1. t = free_reservation(u, r)
      BY <1>13, <2>2
    <3> QED
      BY <1>3, <1>5, <1>12, <1>15, <1>16, <1>17, <2>2, <3>1, FreeSizedStackSafe
  <2> QED
    BY <2>1, <2>2
<1> QED
  BY <1>1, <1>2, <1>14, <1>18, CallSafe

(* sel4utils_unmap_dup. *)
LEMMA UnmapDupStep ==
  ASSUME Inv, NEW p \in Pages, UnmapDup(p)
  PROVE  Step
<1>1. PICK s : s = Now
  OBVIOUS
<1>2. PICK sys : sys = SysPages(bootstrap)
  OBVIOUS
<1>3. phase = "up"
  BY DEF UnmapDup, Call
<1>4. Sound(s, sys)
  BY <1>1, <1>2, <1>3 DEF Inv
<1>5. PICK n \in Nat : n = 1
  OBVIOUS
<1>6. PICK sz \in Sizes : sz = 1
  BY DEF Sizes
<1>7. PICK no \in BOOLEAN : no = FALSE
  OBVIOUS
<1>8. PICK c \in Caps : c = get_cap(s, p)
  BY <1>1 DEF UnmapDup
<1>9. PICK u : u = unmap_pages(s, p, n, sz, no)
  OBVIOUS
<1>10. PICK t : t = FreeCap(u, c)
  OBVIOUS
<1>11. Call(t) /\ s.size[c] = sz
  <2>1. u = unmap_pages(Now, p, 1, 1, FALSE) /\ s.size = size
    BY <1>1, <1>5, <1>6, <1>7, <1>9 DEF Now
  <2> QED
    BY <1>1, <1>6, <1>8, <1>10, <2>1 DEF UnmapDup
<1>12. Fits(p, n, sz)
  BY <1>5, <1>6, Constants DEF Fits, Pages
<1>13. \A j \in 1 .. n : Nth(p, j, sz) = p
  BY <1>5, <1>6 DEF Nth, Pages
<1>14. Whole(s, p, sz)
  BY <1>4, <1>6, <1>8, <1>11, SmallFrame
<1>15. Uniform(s, p, n, sz)
  <2>1. Run(p, n, sz) = {p}
    BY <1>5, <1>6, Constants DEF Run, Pages
  <2> QED
    BY <2>1 DEF Uniform, RunUnreserved, Occupied
<1>16. Entry(s, p) = c
  BY <1>8, CapOfEntry
<1>17. \A j \in 1 .. n : Whole(s, Nth(p, j, sz), sz)
  BY <1>13, <1>14
<1>18. n >= 1
  BY <1>5
<1>19. ~ t.dead => Safe(s, t, sys)
  BY <1>4, <1>9, <1>10, <1>12, <1>15, <1>16, <1>17, <1>18, UnmapDupSafe
<1> QED
  BY <1>1, <1>2, <1>11, <1>19, CallSafe

(* sel4utils_dup_and_map. *)
LEMMA DupAndMapStep ==
  ASSUME Inv, NEW p, NEW mem, DupAndMap(p, mem)
  PROVE  Step
<1>1. PICK s : s = Now
  OBVIOUS
<1>2. PICK sys : sys = SysPages(bootstrap)
  OBVIOUS
<1>3. PICK c : c = TakeSlot(s)
  OBVIOUS
<1>4. PICK x : x = "copy"
  OBVIOUS
<1>5. PICK a : a = WithSlot(s, c, x)
  OBVIOUS
<1>6. PICK caps : caps = <<c>>
  OBVIOUS
<1>7. PICK no \in BOOLEAN : no = FALSE
  OBVIOUS
<1>8. PICK sz \in Sizes : sz = 1
  BY DEF Sizes
<1>9. PICK m : m = map_pages(a, caps, no, sz, mem)
  OBVIOUS
<1>10. PICK t : t = DupUndone(m, c)
  OBVIOUS
<1>11. Call(t) /\ FreeSlots(s) # {}
  <2>1. m = map_pages([Now EXCEPT !.slot[c] = "copy"], <<c>>, FALSE, 1, mem)
    BY <1>1, <1>4, <1>5, <1>6, <1>7, <1>8, <1>9 DEF WithSlot
  <2> QED
    BY <1>1, <1>3, <1>10, <2>1 DEF DupAndMap, DupUndone
<1>12. Sound(s, sys)
  BY <1>1, <1>2, <1>11, CallSound
<1>13. Grows(s, t, sys)
  BY <1>3, <1>4, <1>5, <1>6, <1>9, <1>10, <1>11, <1>12, DupAndMapGrows
<1> QED
  BY <1>1, <1>2, <1>11, <1>13, CallGrows

(* sel4utils_bootstrap_clone_into_vspace. *)
LEMMA CloneIntoStep ==
  ASSUME Inv, NEW r \in reservations, NEW k \in Nat, NEW mem, CloneInto(r, k, mem)
  PROVE  Step
<1>1. PICK s : s = Now
  OBVIOUS
<1>2. PICK sys : sys = SysPages(bootstrap)
  OBVIOUS
<1>3. phase = "up" /\ r \in s.res
  BY <1>1 DEF CloneInto, Call, Now
<1>4. Sound(s, sys)
  BY <1>1, <1>2, <1>3 DEF Inv
<1>5. r.start \in Nat /\ r.end \in Nat /\ r.start < r.end
  BY <1>3, <1>4 DEF Sound, States, Reservations, ReservationsKept
<1>6. k <= r.end - r.start /\ FreeSlots(s) # {} /\ is_reserved_range(s, r.start, r.end)
  <2>1. /\ FreeSlots(Now) # {} /\ is_reserved_range(Now, r.start, r.end)
        /\ k \in 0 .. r.end - r.start
    BY Zenon DEF CloneInto
  <2>2. k <= r.end - r.start
    BY <1>5, <2>1
  <2> QED
    BY <1>1, <2>1, <2>2, Zenon
<1>7. PICK c : c = TakeSlot(s)
  OBVIOUS
<1>8. PICK n \in Nat : n = IF k = 0 THEN r.end - r.start ELSE k
  BY <1>5
<1>9. PICK x : x = "bare"
  OBVIOUS
<1>10. PICK b : b = WithSlot(s, c, x)
  OBVIOUS
<1>11. PICK f : f = Cloned(b, r.start, n, mem)
  OBVIOUS
<1>12. PICK y : y = IF k = 0 THEN "free" ELSE "copy"
  OBVIOUS
<1>13. PICK e \in BOOLEAN : e = (k # 0)
  OBVIOUS
<1>14. PICK t : t = LeftIn(f, c, y, e)
  OBVIOUS
<1>15. Call(t) /\ ~ f.err
  <2>1. f = Cloned([Now EXCEPT !.slot[c] = "bare"], r.start, n, mem)
    BY <1>1, <1>9, <1>10, <1>11 DEF WithSlot
  <2> QED
    BY <1>1, <1>7, <1>8, <1>12, <1>13, <1>14, <2>1 DEF CloneInto, Cloned, LeftIn
<1>16. n <= r.end - r.start /\ SlotKind(y)
  BY <1>5, <1>6, <1>8, <1>12 DEF SlotKind
<1>17. Grows(s, t, sys)
  BY <1>3, <1>4, <1>6, <1>7, <1>9, <1>10, <1>11, <1>14, <1>15, <1>16, CloneIntoGrows
<1> QED
  BY <1>1, <1>2, <1>15, <1>17, CallGrows

(* sel4utils_bootstrap_vspace. *)
LEMMA BootstrapStep ==
  ASSUME Inv, BootstrapVSpace
  PROVE  Step
<1>1. PICK s : s = Now
  OBVIOUS
<1>2. Fresh(s) /\ bootstrap = "own"
  BY <1>1 DEF BootstrapVSpace, Inv
<1>3. PICK r : r = reserve_initial_task_regions(bootstrap_page_table(s))
  OBVIOUS
<1>4. PICK t : t = IF r.err THEN r ELSE common_init_post_bootstrap(r)
  OBVIOUS
<1>5. Becomes(t) /\ phase' = IF r.err THEN "gone" ELSE "up"
  BY <1>1, <1>3, <1>4 DEF BootstrapVSpace
<1>6. Fresh(r)
  BY <1>2, <1>3, BootstrapFresh
<1>7. CASE r.err
  <2>1. t = r /\ phase' = "gone"
    BY <1>4, <1>5, <1>7
  <2>2. t \in States /\ t.res = {} /\ \A p \in Pages : Entry(t, p) \notin Caps
    BY <1>6, <2>1 DEF Fresh
  <2>3. bootstrap' = bootstrap /\ SlotsChanged(t, Now')
    BY <1>5, <2>2, BecomesNext
  <2>4. reservations' = {}
    BY <1>5, <2>2 DEF Becomes
  <2>5. \A p \in Pages : Entry(Now', p) \notin Caps
    BY <2>2, <2>3 DEF SlotsChanged, SameEntry
  <2>6. Inv'
    BY <1>2, <2>1, <2>3, <2>4, <2>5 DEF Inv
  <2> QED
    BY <2>1, <2>6 DEF Step
<1>8. CASE ~ r.err
  <2>1. t = common_init_post_bootstrap(r) /\ phase' = "up"
    BY <1>4, <1>5, <1>8
  <2>2. Sound(t, SysPages("own"))
    BY <1>2, <1>3, <1>8, <2>1, BootstrapSound
  <2>3. bootstrap' = bootstrap /\ SlotsChanged(t, Now')
    BY <1>5, <2>2, BecomesNext DEF Sound
  <2>4. Sound(Now', SysPages("own"))
    BY <2>2, <2>3, SoundSlots
  <2>5. Inv'
    BY <1>2, <2>1, <2>3, <2>4 DEF Inv
  <2>6. Kept(Now, Now')
    BY <1>1, <1>2 DEF Fresh, Kept
  <2> QED
    BY <2>5, <2>6 DEF Step
<1> QED
  BY <1>7, <1>8

(* sel4utils_get_vspace and sel4utils_get_empty_vspace. *)
LEMMA GetVSpaceStep ==
  ASSUME Inv, GetVSpace
  PROVE  Step
<1>1. PICK s : s = Now
  OBVIOUS
<1>2. PICK b : b = bootstrap
  OBVIOUS
<1>3. Fresh(s) /\ (b = "child" \/ b = "empty")
  BY <1>1, <1>2 DEF GetVSpace, Inv
<1>4. PICK t : t = IF b = "child" THEN common_init_post_bootstrap(s) ELSE s
  OBVIOUS
<1>5. Becomes(t) /\ phase' = "up"
  BY <1>1, <1>2, <1>4 DEF GetVSpace
<1>6. Sound(t, SysPages(b))
  BY <1>3, <1>4, GetSound
<1>7. bootstrap' = b /\ SlotsChanged(t, Now')
  BY <1>2, <1>5, <1>6, BecomesNext DEF Sound
<1>8. Sound(Now', SysPages(b))
  BY <1>6, <1>7, SoundSlots
<1>9. Inv'
  BY <1>3, <1>5, <1>7, <1>8 DEF Inv
<1>10. Kept(Now, Now')
  BY <1>1, <1>3 DEF Fresh, Kept
<1> QED
  BY <1>9, <1>10 DEF Step

(* sel4utils_tear_down. *)
LEMMA TearDownStep ==
  ASSUME Inv, TearDown
  PROVE  Step
<1>1. PICK s : s = Now
  OBVIOUS
<1>2. phase = "up" /\ phase' = "gone"
  BY DEF TearDown
<1>3. s \in States
  BY <1>1, <1>2 DEF Inv, Sound
<1>4. PICK t : t = tear_down(s)
  OBVIOUS
<1>5. Becomes(t)
  BY <1>1, <1>4 DEF TearDown
<1>6. t.res = {} /\ t.top = [i \in Tables |-> "empty"]
  BY <1>3, <1>4 DEF tear_down, States
<1>7. reservations' = {} /\ top' = [i \in Tables |-> "empty"] /\ bootstrap' = bootstrap
  BY <1>5, <1>6 DEF Becomes
<1>8. \A p \in Pages : Entry(Now', p) \notin Caps
  <2>1. ASSUME NEW p \in Pages
        PROVE  Entry(Now', p) \notin Caps
    <3>1. INDEX(p) \in Tables /\ (Now').top = top'
      BY TablesCover DEF Now
    <3>2. (Now').top[INDEX(p)] = "empty"
      BY <1>7, <3>1
    <3> QED
      BY <3>2 DEF Entry, EMPTY, Caps
  <2> QED
    BY <2>1
<1>9. Inv'
  BY <1>2, <1>7, <1>8 DEF Inv
<1> QED
  BY <1>2, <1>9 DEF Step

(* The vspace before it is made. *)
LEMMA InitInv ==
  Init => Inv
<1> SUFFICES ASSUME Init
             PROVE  Inv
  OBVIOUS
<1>1. levels \in Nat
  <2>1. INDEX(KernelStart) \in Nat /\ MinLevels \in Nat
    BY Constants, IndexOf
  <2> QED
    BY <2>1 DEF Init
<1>2. PICK s : s = Now
  OBVIOUS
<1>3. /\ s.top = [i \in Tables |-> "empty"] /\ s.cap = [p \in Pages |-> EMPTY]
      /\ s.cookie = [p \in Pages |-> 0] /\ s.last = FirstPage /\ s.res = {} /\ s.levels = levels
      /\ s.slot = [c \in Caps |-> "free"] /\ s.size = [c \in Caps |-> 1]
      /\ s.at = [c \in Caps |-> NOWHERE] /\ s.kpt = {}
  BY <1>2 DEF Now, Init
<1>4. s \in States
  BY <1>1, <1>2, Constants DEF Now, Init, States, Sizes
<1>5. \A p \in Pages : Entry(s, p) \notin Caps
  BY <1>3, TablesCover DEF Entry, EMPTY, Caps
<1>6. Fresh(s)
  BY <1>3, <1>4, <1>5 DEF Fresh
<1> QED
  BY <1>2, <1>6 DEF Init, Inv

(* Where the calls that Next makes may be. *)
LEMMA PlacesFit ==
  ASSUME NEW n \in Nat, NEW sz \in Sizes, NEW v \in Places(n, sz)
  PROVE  v \in Nat /\ v % sz = 0 /\ v + n * sz <= KernelStart /\ Fits(v, n, sz)
<1>1. v \in Pages /\ v % sz = 0 /\ v + n * sz <= KernelStart
  BY DEF Places
<1>2. sz \in Nat /\ n * sz \in Nat
  BY Constants DEF Sizes
<1> QED
  BY <1>1, <1>2, Constants DEF Fits, Pages

(* Every step keeps the invariant, and what is recorded is lost only with  *)
(* its mapping. *)
LEMMA NextStep ==
  ASSUME Inv, Next
  PROVE  Step
<1>1. CASE BootstrapVSpace
  BY <1>1, BootstrapStep
<1>2. CASE GetVSpace
  BY <1>2, GetVSpaceStep
<1>3. CASE TearDown
  BY <1>3, TearDownStep
<1>4. MaxRun \in Nat
  BY VSpaceAssumption
<1>5. ASSUME NEW n \in 1 .. MaxRun, NEW sz \in Sizes, Reserve(n, sz)
      PROVE  Step
  BY <1>4, <1>5, ReserveStep
<1>6. ASSUME NEW n \in 1 .. MaxRun, NEW sz \in Sizes, NEW mem \in Memory,
             \/ NewPages(n, sz, mem)
             \/ NewPagesWithConfig(n, sz, mem)
             \/ sz = 1 /\ NewSizedStack(n, mem)
             \/ \E v \in Places(n, sz) : ShareMem(v, n, sz, mem)
      PROVE  Step
  <2>1. n \in Nat /\ n >= 1
    BY <1>4
  <2> QED
    BY <1>6, <2>1, NewPagesStep, NewPagesWithConfigStep, NewSizedStackStep, ShareMemStep
<1>7. ASSUME NEW n \in 1 .. MaxRun, NEW sz \in Sizes, NEW mem \in Memory, NEW cookies \in BOOLEAN,
             n <= 2, MapPages(n, cookies, sz, mem)
      PROVE  Step
  <2>1. n \in 1 .. 2
    BY <1>4, <1>7
  <2> QED
    BY <1>7, <2>1, MapPagesStep
<1>8. ASSUME NEW n \in 1 .. MaxRun, NEW sz \in Sizes, NEW v \in Places(n, sz), NEW free \in BOOLEAN,
             UnmapPages(v, n, sz, free)
      PROVE  Step
  <2>1. n \in Nat
    BY <1>4
  <2>2. Fits(v, n, sz)
    BY <2>1, PlacesFit
  <2> QED
    BY <1>8, <2>2, UnmapPagesStep
<1>9. ASSUME NEW n \in 1 .. MaxRun, NEW sz \in Sizes, NEW r \in reservations, NEW mem \in Memory,
             NEW v \in Places(n, sz) \cap r.start .. r.end - 1,
             \/ NewPagesAt(r, v, n, sz, mem)
             \/ \E deferred \in BOOLEAN : n <= 2 /\ MapPagesAt(r, deferred, v, n, sz, mem)
      PROVE  Step
  <2>1. n \in Nat /\ n >= 1
    BY <1>4
  <2>2. v \in Nat /\ v % sz = 0
    BY <2>1, PlacesFit
  <2>3. CASE NewPagesAt(r, v, n, sz, mem)
    BY <2>1, <2>2, <2>3, NewPagesAtStep
  <2>4. CASE \E deferred \in BOOLEAN : n <= 2 /\ MapPagesAt(r, deferred, v, n, sz, mem)
    <3>1. PICK deferred \in BOOLEAN : n <= 2 /\ MapPagesAt(r, deferred, v, n, sz, mem)
      BY <2>4
    <3>2. n \in 1 .. 2
      BY <2>1, <3>1
    <3> QED
      BY <2>2, <3>1, <3>2, MapPagesAtStep
  <2> QED
    BY <1>9, <2>3, <2>4
<1>10. ASSUME NEW n \in 1 .. MaxRun, NEW v \in Places(n, 1),
              \/ \E deferred \in BOOLEAN : (deferred => bootstrap = "own") /\ ReserveAt(v, n, deferred)
              \/ \E r \in reservations : MoveResize(r, v, n)
       PROVE  Step
  <2>1. n \in Nat /\ n >= 1
    BY <1>4
  <2>2. v \in Nat /\ v + n <= KernelStart
    BY <2>1, Constants DEF Places, Pages
  <2> QED
    BY <1>10, <2>1, <2>2, ReserveAtStep, MoveResizeStep
<1>11. ASSUME NEW r \in reservations,
              \/ FreeReservation(r) \/ FreeSizedStack(r)
              \/ \E k \in 0 .. MaxRun, mem \in Memory : CloneInto(r, k, mem)
       PROVE  Step
  BY <1>11, FreeReservationStep, FreeSizedStackStep, CloneIntoStep
<1>12. ASSUME NEW c \in Caps, CallerFrees(c)
       PROVE  Step
  BY <1>12, CallerFreesStep
<1>13. ASSUME NEW p \in 0 .. KernelStart - 1,
              \/ UnmapDup(p)
              \/ \E mem \in Memory : AccessPage(p, mem) \/ DupAndMap(p, mem)
       PROVE  Step
  <2>1. p \in Pages
    BY Constants DEF Pages
  <2> QED
    BY <1>13, <2>1, UnmapDupStep, AccessPageStep, DupAndMapStep
<1> QED
  BY <1>1, <1>2, <1>3, <1>5, <1>6, <1>7, <1>8, <1>9, <1>10, <1>11, <1>12, <1>13 DEF Next

(* Stuttering changes nothing. *)
LEMMA NextOrStutter ==
  ASSUME Inv, [Next]_vars
  PROVE  Step
<1>1. CASE Next
  BY <1>1, NextStep
<1>2. CASE UNCHANGED vars
  <2>1. Now' = Now /\ bootstrap' = bootstrap /\ phase' = phase /\ reservations' = reservations
    BY <1>2 DEF vars, Now
  <2>2. Kept(Now, Now')
    BY <2>1 DEF Kept
  <2>3. Inv'
    BY <2>1 DEF Inv
  <2> QED
    BY <2>2, <2>3 DEF Step
<1> QED
  BY <1>1, <1>2

(* What a sound vspace promises. *)
LEMMA InvPromises ==
  Inv => VSpaceInv
<1> SUFFICES ASSUME Inv
             PROVE  VSpaceInv
  OBVIOUS
<1>1. PICK s : s = Now
  OBVIOUS
<1>2. PICK sys : sys = SysPages(bootstrap)
  OBVIOUS
<1>3. s.res = reservations /\ s.slot = slot /\ s.at = at /\ s.size = size
  BY <1>1 DEF Now
<1>4. CASE phase # "up"
  <2>1. reservations = {} /\ \A p \in Pages : Entry(s, p) \notin Caps
    BY <1>1, <1>3, <1>4 DEF Inv, Fresh
  <2>2. \A p \in Pages : get_cap(Now, p) \notin Caps
    BY <1>1, <2>1, CapOfEntry
  <2> QED
    BY <1>4, <2>1, <2>2 DEF VSpaceInv
<1>5. CASE phase = "up"
  <2>1. Sound(s, sys) /\ s \in States
    BY <1>1, <1>2, <1>5 DEF Inv, Sound
  <2>2. ASSUME NEW r \in reservations
        PROVE  /\ r.start >= 0 /\ r.start < r.end /\ r.end <= KernelStart
               /\ \A q \in reservations : q = r \/ q.end <= r.start \/ r.end <= q.start
               /\ \A p \in r.start .. r.end - 1 : ~ is_available_range(Now, p, p + 1)
    <3>1. /\ r.start \in Nat /\ r.end \in Nat /\ r.start < r.end /\ r.end <= KernelStart
          /\ \A q \in reservations : q = r \/ q.end <= r.start \/ r.end <= q.start
          /\ \A p \in r.start .. r.end - 1 : Entry(s, p) # EMPTY
      BY <1>3, <2>1 DEF Sound, States, Reservations, ReservationsKept
    <3>2. ASSUME NEW p \in r.start .. r.end - 1
          PROVE  ~ is_available_range(s, p, p + 1)
      <4>1. PICK e \in Nat : e = p + 1
        BY <3>1
      <4>2. \A q \in p .. e - 1 : q \in Pages
        BY <3>1, <4>1, Constants DEF Pages
      <4>3. ~ is_available_range(s, p, e)
        BY <2>1, <3>1, <4>1, <4>2, Available
      <4> QED
        BY <4>1, <4>3
    <3> QED
      BY <1>1, <3>1, <3>2
  <2>3. ASSUME NEW p \in Pages, get_cap(s, p) \in Caps
        PROVE  /\ slot[get_cap(s, p)] \in {"frame", "copy"} /\ MapsPage(s, get_cap(s, p), p)
               /\ cookie[p] \in {0, get_cap(s, p)}
    <3>1. PICK c \in Caps : c = get_cap(s, p)
      BY <2>3
    <3>2. Entry(s, p) = c
      BY <3>1, CapOfEntry
    <3>3. MapsPage(s, c, p) /\ get_cookie(s, p) \in {0, c}
      BY <2>1, <3>2 DEF Sound, RecordsMapped
    <3>4. s.slot[c] \in {"frame", "copy"}
      BY <2>1, <3>3 DEF Sound, FramesPlaced, MapsPage
    <3>5. get_cookie(s, p) = cookie[p]
      BY <1>1, <3>1 DEF get_cookie, get_cap, Now, Caps
    <3> QED
      BY <1>3, <3>1, <3>3, <3>4, <3>5
  <2>4. ASSUME NEW a \in Nat, NEW b \in Nat, b <= NumPages, \A p \in a .. b - 1 : p \in sys
        PROVE  is_reserved_range(s, a, b)
    <3>1. \A p \in a .. b - 1 : p \in Pages
      BY <2>4, Constants DEF Pages
    <3> QED
      BY <2>1, <2>4, <3>1, Available DEF Sound, SysReserved
  <2>5. is_reserved_range(s, IF bootstrap = "empty" THEN NumPages ELSE KernelStart, NumPages)
    <3>1. CASE bootstrap = "empty"
      <4>1. is_reserved_range(s, NumPages, NumPages)
        BY Constants DEF is_reserved_range
      <4> QED
        BY <3>1, <4>1
    <3>2. CASE bootstrap # "empty"
      <4>1. \A p \in KernelStart .. NumPages - 1 : p \in sys
        BY <1>2, <3>2 DEF SysPages
      <4>2. is_reserved_range(s, KernelStart, NumPages)
        BY <2>4, <4>1, Constants
      <4> QED
        BY <3>2, <4>2
    <3> QED
      BY <3>1, <3>2
  <2>6. ASSUME bootstrap = "own"
        PROVE  /\ is_reserved_range(s, 0, ImageEnd) /\ is_reserved_range(s, BootFrame, BootFrame + 1)
               /\ is_reserved_range(s, ReserveStart, KernelStart)
    <3>1. /\ \A p \in 0 .. ImageEnd - 1 : p \in sys
          /\ \A p \in ReserveStart .. KernelStart - 1 : p \in sys
          /\ BootFrame \in sys
      BY <1>2, <2>6 DEF SysPages
    <3>2. is_reserved_range(s, 0, ImageEnd)
      BY <2>4, <3>1, Constants
    <3>3. is_reserved_range(s, ReserveStart, KernelStart)
      BY <2>4, <3>1, Constants
    <3>4. is_reserved_range(s, BootFrame, BootFrame + 1)
      <4>1. PICK e \in Nat : e = BootFrame + 1
        BY Constants
      <4>2. \A p \in BootFrame .. e - 1 : p \in sys
        BY <3>1, <4>1, Constants
      <4>3. is_reserved_range(s, BootFrame, e)
        BY <2>4, <4>1, <4>2, Constants
      <4> QED
        BY <4>1, <4>3
    <3> QED
      BY <3>2, <3>3, <3>4
  <2> QED
    BY <1>1, <1>5, <2>2, <2>3, <2>5, <2>6 DEF VSpaceInv
<1> QED
  BY <1>4, <1>5

(* Reservations keep apart and out of the search, the tables name live     *)
(* frames that the kernel maps there, and what the bootstrap reserved      *)
(* stays reserved: of every vspace, after any sequence of calls. *)
THEOREM VSpaceCorrect == Spec => []VSpaceInv
<1>1. Inv /\ [Next]_vars => Inv'
  BY NextOrStutter DEF Step
<1> QED
  BY <1>1, InitInv, InvPromises, PTL DEF Spec

(* No call overwrites the record of another's page: it goes only with the  *)
(* mapping that it stands for, or with the vspace. *)
THEOREM VSpaceKeepsMappings == Spec => MappingsKept
<1>1. Inv /\ [Next]_vars => Inv'
  BY NextOrStutter DEF Step
<1>2. Inv /\ [Next]_vars =>
        \A p \in Pages : LET c == get_cap(Now, p) IN
          c \in Caps => \/ get_cap(Now, p)' = c
                        \/ at'[c] = NOWHERE
                        \/ phase' = "gone"
  <2> SUFFICES ASSUME Inv, [Next]_vars, NEW p \in Pages, get_cap(Now, p) \in Caps
               PROVE  \/ get_cap(Now, p)' = get_cap(Now, p)
                      \/ at'[get_cap(Now, p)] = NOWHERE
                      \/ phase' = "gone"
    OBVIOUS
  <2>1. PICK s : s = Now
    OBVIOUS
  <2>2. PICK t : t = Now'
    OBVIOUS
  <2>3. phase' = "gone" \/ Kept(s, t)
    BY <2>1, <2>2, NextOrStutter DEF Step
  <2>4. PICK c \in Caps : c = get_cap(s, p)
    BY <2>1
  <2>5. Entry(s, p) = c
    BY <2>4, CapOfEntry
  <2>6. phase' = "gone" \/ Entry(t, p) = c \/ t.at[c] = NOWHERE
    BY <2>3, <2>5 DEF Kept
  <2>7. Entry(t, p) = c => get_cap(t, p) = c
    BY <2>4, CapOfEntry
  <2>8. t.at = at' /\ get_cap(t, p) = get_cap(Now, p)'
    BY <2>2 DEF Now, get_cap
  <2> QED
    BY <2>1, <2>4, <2>6, <2>7, <2>8
<1> QED
  BY <1>1, <1>2, InitInv, PTL DEF Spec, MappingsKept

-----------------------------------------------------------------------------
(* A call that creates pages creates all of them, or none                  *)

(* The turns of new_pages_at_vaddr took slots that were free, and recorded *)
(* each of them. *)
Created(s, t, v, sz) ==
  /\ \A q \in Pages : q \notin Run(v, t.done, sz) => Entry(t, q) = Entry(s, q)
  /\ \A q \in Run(v, t.done, sz) : Entry(t, q) \in Caps /\ s.slot[Entry(t, q)] = "free"
  /\ \A d \in Caps :
       \/ t.slot[d] = s.slot[d] /\ t.at[d] = s.at[d]
       \/ s.slot[d] = "free" /\ \E q \in Run(v, t.done, sz) : Entry(t, q) = d

(* A call has left the slots, the mappings and what is recorded. *)
NothingMade(s, t) ==
  /\ t.slot = s.slot /\ t.at = s.at
  /\ \A p \in Pages : Entry(t, p) \in Caps => Entry(t, p) = Entry(s, p)

(* One more turn. *)
LEMMA CreatedStep ==
  ASSUME NEW s, NEW v, NEW n, NEW sz, Fits(v, n, sz), NEW k \in 1 .. n,
         NEW a, a.done \in 0 .. k - 1, a.levels > 0 => Created(s, a, v, sz),
         NEW sys, NEW b, Placed(a, b, sys, Nth(v, k, sz), sz),
         NewPageEffect(a, b, k, Nth(v, k, sz), sz),
         a.levels \in Nat, b.levels \in Nat
  PROVE  b.levels > 0 => Created(s, b, v, sz) /\ (b.err => b.done < k)
<1> SUFFICES ASSUME b.levels > 0
             PROVE  Created(s, b, v, sz) /\ (b.err => b.done < k)
  OBVIOUS
<1>1. PICK p \in Nat : p = Nth(v, k, sz)
  BY RunGrows
<1>2. k \in Nat /\ k >= 1 /\ k - 1 \in Nat
  BY DEF Fits
<1>3. Created(s, a, v, sz)
  <2>1. b.levels <= a.levels
    BY DEF Placed
  <2> QED
    BY <2>1
<1>4. CASE /\ b.done = a.done /\ b.slot = a.slot /\ b.at = a.at
           /\ \A q \in Pages : SameEntry(a, b, q)
  <2>1. \A q \in Run(v, b.done, sz) : q \in Pages
    <3>1. PICK m \in 0 .. n : m = a.done
      BY <1>2 DEF Fits
    <3> QED
      BY <1>4, <3>1, Shorter
  <2>2. \A q \in Pages : Entry(b, q) = Entry(a, q)
    BY <1>4 DEF SameEntry
  <2>3. b.done < k
    BY <1>2, <1>4
  <2>4. Created(s, b, v, sz)
    <3>1. \A q \in Pages : q \notin Run(v, b.done, sz) => Entry(b, q) = Entry(s, q)
      BY <1>3, <1>4, <2>2 DEF Created
    <3>2. \A q \in Run(v, b.done, sz) : Entry(b, q) \in Caps /\ s.slot[Entry(b, q)] = "free"
      BY <1>3, <1>4, <2>1, <2>2 DEF Created
    <3>3. \A d \in Caps :
            \/ b.slot[d] = s.slot[d] /\ b.at[d] = s.at[d]
            \/ s.slot[d] = "free" /\ \E q \in Run(v, b.done, sz) : Entry(b, q) = d
      BY <1>3, <1>4, <2>1, <2>2 DEF Created
    <3> QED
      BY <3>1, <3>2, <3>3 DEF Created
  <2> QED
    BY <2>3, <2>4
<1>5. CASE b.done = k /\ a.done >= k - 1
  <2>1. PICK c \in Caps :
          /\ a.slot[c] = "free" /\ ~ b.err
          /\ \A d \in Caps : d # c => b.slot[d] = a.slot[d] /\ b.at[d] = a.at[d]
          /\ \A q \in FrameAt(p, sz) : Entry(b, q) = c
    <3>1. PICK c \in Caps :
            /\ a.slot[c] = "free"
            /\ \A d \in Caps : d # c => b.slot[d] = a.slot[d] /\ b.at[d] = a.at[d]
            /\ b.err => b.levels = 0
            /\ b.levels > 0 => \A q \in FrameAt(p, sz) : Entry(b, q) = c
      BY <1>1, <1>2, <1>5 DEF NewPageEffect
    <3> QED
      BY <3>1
  <2>2. a.done = k - 1
    BY <1>2, <1>5
  <2>3. /\ \A q : q \in Run(v, b.done, sz) <=> q \in Run(v, a.done, sz) \/ q \in FrameAt(p, sz)
        /\ \A q : ~ (q \in Run(v, a.done, sz) /\ q \in FrameAt(p, sz))
        /\ \A q \in Run(v, b.done, sz) : q \in Pages
        /\ p \in FrameAt(p, sz)
    BY <1>1, <1>5, <2>2, RunGrows
  <2>4. \A q \in Pages : q \notin FrameAt(p, sz) => Entry(b, q) = Entry(a, q)
    BY <1>1 DEF Placed, SameEntry
  <2>5. s.slot[c] = "free"
    BY <1>3, <2>1 DEF Created
  <2>6. \A q \in Pages : q \notin Run(v, b.done, sz) => Entry(b, q) = Entry(s, q)
    BY <1>3, <2>3, <2>4 DEF Created
  <2>7. \A q \in Run(v, b.done, sz) : Entry(b, q) \in Caps /\ s.slot[Entry(b, q)] = "free"
    BY <1>3, <2>1, <2>3, <2>4, <2>5 DEF Created
  <2>8. ASSUME NEW d \in Caps
        PROVE  \/ b.slot[d] = s.slot[d] /\ b.at[d] = s.at[d]
               \/ s.slot[d] = "free" /\ \E q \in Run(v, b.done, sz) : Entry(b, q) = d
    <3>1. CASE d = c
      BY <2>1, <2>3, <2>5, <3>1
    <3>2. CASE d # c
      BY <1>3, <2>1, <2>3, <2>4, <3>2 DEF Created
    <3> QED
      BY <3>1, <3>2
  <2> QED
    BY <2>1, <2>6, <2>7, <2>8 DEF Created
<1> QED
  BY <1>4, <1>5 DEF NewPageEffect

(* All the turns. *)
LEMMA NewLoopCreated ==
  ASSUME NEW s, NEW sys, Sound(s, sys), NEW v, NEW n, NEW sz, Fits(v, n, sz),
         RunFree(s, sys, v, n, sz), NEW mem, NEW t, t = NewLoop(s, v, n, sz, mem), t.levels > 0
  PROVE  Created(s, t, v, sz) /\ (t.err => t.done < n)
<1>1. n \in Nat /\ s \in States /\ v \in Nat /\ sz \in Nat
  BY Aligned DEF Fits, Sound
<1>2. PICK f : /\ f[0] = Started(s)
               /\ \A k \in 1 .. n : f[k] = NewPage(f[k - 1], k, v, sz, mem)
               /\ NewLoop(s, v, n, sz, mem) = f[n]
  BY <1>1, NewTurns
<1> DEFINE Good(k) == /\ Filled(s, f[k], sys, v, k, sz) /\ f[k].done \in 0 .. k
                      /\ f[k].levels > 0 => Created(s, f[k], v, sz) /\ (f[k].err => f[k].done < k)
           A == {k \in 0 .. n : Good(k)}
<1>3. 0 \in A
  <2>1. PICK no \in BOOLEAN : no = FALSE
    OBVIOUS
  <2>2. PICK z \in Nat : z = 0
    OBVIOUS
  <2>3. PICK g : g = f[0]
    OBVIOUS
  <2>4. g = Flagged(s, no, z)
    BY <1>2, <2>1, <2>2, <2>3 DEF Flagged, Started
  <2>5. SlotsChanged(s, g) /\ g.err = no /\ g.done = z /\ LeftAlone(s, g)
    BY <1>1, <2>4, FlagsSet
  <2>6. Filled(s, g, sys, v, 0, sz)
    BY <2>5, FilledNothing DEF LeftAlone
  <2>7. \A q : q \notin Run(v, g.done, sz)
    BY <1>1, <2>2, <2>5, RunEmpty
  <2>8. Created(s, g, v, sz)
    BY <2>5, <2>7 DEF Created, SlotsChanged, SameEntry, LeftAlone
  <2> QED
    BY <1>1, <2>1, <2>2, <2>3, <2>5, <2>6, <2>8
<1>4. ASSUME NEW k \in 1 .. n, k - 1 \in A
      PROVE  k \in A
  <2>1. PICK a : a = f[k - 1]
    OBVIOUS
  <2>2. PICK b : b = f[k]
    OBVIOUS
  <2>3. b = NewPage(a, k, v, sz, mem)
    BY <1>2, <2>1, <2>2
  <2>4. /\ Filled(s, a, sys, v, k - 1, sz) /\ a.done \in 0 .. k - 1
        /\ a.levels > 0 => Created(s, a, v, sz)
    BY <1>4, <2>1
  <2>5. PICK p \in Nat : p = Nth(v, k, sz)
    BY RunGrows
  <2>6. FramePlace(p, sz) /\ sz \in Nat /\ k \in Nat
    BY <1>1, <2>5, RunGrows
  <2>7. /\ Sound(a, sys) /\ FrameFree(a, sys, p, sz)
        /\ \A u : Placed(a, u, sys, p, sz) => Filled(s, u, sys, v, k, sz)
    BY <1>1, <2>4, <2>5, FilledStep
  <2>8. Placed(a, b, sys, p, sz) /\ NewPageEffect(a, b, k, p, sz)
    BY <2>3, <2>5, <2>6, <2>7, NewPagePlaced DEF Nth
  <2>9. Filled(s, b, sys, v, k, sz)
    BY <2>7, <2>8
  <2>10. b.done \in 0 .. k
    BY <2>4, <2>6, <2>8 DEF NewPageEffect
  <2>11. a.levels \in Nat /\ b.levels \in Nat
    BY <2>7, <2>9 DEF Filled, Sound, States
  <2>12. b.levels > 0 => Created(s, b, v, sz) /\ (b.err => b.done < k)
    BY <2>4, <2>5, <2>8, <2>11, CreatedStep
  <2> QED
    BY <2>2, <2>9, <2>10, <2>12
<1>5. n \in A
  <2> HIDE DEF A
  <2> QED
    BY <1>1, <1>3, <1>4, Climb
<1> QED
  BY <1>2, <1>5

(* What was created is freed again, if not all of it could be. *)
LEMMA UndoneNothingMade ==
  ASSUME NEW s, NEW sys, Sound(s, sys), NEW v, NEW n, NEW sz, Fits(v, n, sz),
         NEW r, Sound(r, sys), Created(s, r, v, sz), NEW k \in 0 .. n, r.done = k,
         NEW yes \in BOOLEAN, yes, NEW x, x \notin Caps,
         NEW u, Emptied(r, u, sys, v, k, sz, x, yes)
  PROVE  NothingMade(s, u)
<1>1. \A q \in Run(v, k, sz) : q \in Pages
  BY Shorter
<1>2. /\ s.slot \in [Caps -> {"free", "bare", "frame", "copy"}] /\ s.at \in [Caps -> Pages \cup {NOWHERE}]
      /\ u.slot \in [Caps -> {"free", "bare", "frame", "copy"}] /\ u.at \in [Caps -> Pages \cup {NOWHERE}]
  BY DEF Sound, States, Emptied
<1>3. ASSUME NEW d \in Caps
      PROVE  u.slot[d] = s.slot[d] /\ u.at[d] = s.at[d]
  <2>1. CASE \E q \in Run(v, k, sz) : Entry(r, q) = d
    <3>1. PICK q \in Run(v, k, sz) : Entry(r, q) = d
      BY <2>1
    <3>2. s.slot[d] = "free"
      BY <3>1 DEF Created
    <3>3. s.at[d] = NOWHERE
      BY <3>2 DEF Sound, FramesPlaced
    <3>4. u.at[d] = NOWHERE /\ u.slot[d] = "free"
      BY <3>1 DEF Emptied
    <3> QED
      BY <3>2, <3>3, <3>4
  <2>2. CASE \A q \in Run(v, k, sz) : Entry(r, q) # d
    <3>1. u.slot[d] = r.slot[d] /\ u.at[d] = r.at[d]
      BY <2>2 DEF Emptied
    <3>2. r.slot[d] = s.slot[d] /\ r.at[d] = s.at[d]
      BY <2>2 DEF Created
    <3> QED
      BY <3>1, <3>2
  <2> QED
    BY <2>1, <2>2
<1>4. ASSUME NEW p \in Pages, Entry(u, p) \in Caps
      PROVE  Entry(u, p) = Entry(s, p)
  <2>1. p \notin Run(v, k, sz)
    BY <1>4 DEF Emptied
  <2>2. Entry(u, p) = Entry(r, p)
    BY <2>1 DEF Emptied, SameEntry
  <2>3. Entry(r, p) = Entry(s, p)
    BY <2>1 DEF Created
  <2> QED
    BY <2>2, <2>3
<1> QED
  BY <1>2, <1>3, <1>4 DEF NothingMade

(* new_pages_at_vaddr, where the entries are empty. *)
LEMMA NewPagesAtAllOrNothing ==
  ASSUME NEW s, NEW sys, Sound(s, sys), NEW v, NEW n, NEW sz, Fits(v, n, sz),
         RunFree(s, sys, v, n, sz), Uniform(s, v, n, sz), NEW mem,
         NEW t, t = new_pages_at_vaddr(s, v, n, sz, mem), ~ t.dead
  PROVE  t.levels > 0 /\ t.err => NothingMade(s, t)
<1>1. PICK r : r = NewLoop(s, v, n, sz, mem)
  OBVIOUS
<1>2. PICK yes \in BOOLEAN : yes = TRUE
  OBVIOUS
<1>3. PICK u : u = IF r.done < n THEN unmap_pages(r, v, r.done, sz, yes) ELSE r
  OBVIOUS
<1>4. t = [u EXCEPT !.err = r.err, !.done = 0]
  <2> DEFINE Looped == NewLoop(s, v, n, sz, mem)
             Undone == IF Looped.done < n THEN unmap_pages(Looped, v, Looped.done, sz, TRUE) ELSE Looped
  <2>1. t = [Undone EXCEPT !.err = Looped.err, !.done = 0]
    BY DEF new_pages_at_vaddr, NewLoop, Started
  <2>2. Looped = r
    BY <1>1
  <2> HIDE DEF Looped
  <2>3. Undone = u
    BY <1>2, <1>3, <2>2
  <2> HIDE DEF Undone
  <2> QED
    BY <2>1, <2>2, <2>3
<1>5. Filled(s, r, sys, v, n, sz) /\ r.done \in 0 .. n /\ s \in States
  BY <1>1, NewLoopFilled DEF Sound
<1>6. PICK k \in 0 .. n : k = r.done
  BY <1>5
<1>7. Sound(r, sys) /\ r \in States
  BY <1>5 DEF Filled, Sound
<1>8. u \in States
  <2>1. Fits(v, k, sz)
    BY Shorter
  <2>2. CASE r.done < n
    <3>1. u = unmap_pages(r, v, k, sz, yes)
      BY <1>3, <1>6, <2>2
    <3> QED
      BY <1>7, <2>1, <3>1, UnmapPagesStates
  <2> QED
    BY <1>3, <1>7, <2>2
<1>9. PICK e \in BOOLEAN : e = r.err
  BY <1>7 DEF States
<1>10. PICK z \in Nat : z = 0
  OBVIOUS
<1>11. t = Flagged(u, e, z)
  BY <1>4, <1>9, <1>10 DEF Flagged
<1>12. SlotsChanged(u, t) /\ LeftAlone(u, t) /\ t.err = e
  BY <1>8, <1>11, FlagsSet
<1> HAVE t.levels > 0 /\ t.err
<1>13. ~ u.dead /\ u.levels > 0 /\ r.err
  BY <1>9, <1>12 DEF LeftAlone
<1>14. NothingMade(s, u)
  <2>1. CASE r.done < n
    <3>1. u = unmap_pages(r, v, k, sz, yes)
      BY <1>3, <1>6, <2>1
    <3>2. PICK x : x = LeftBy(Occupied(s, v))
      OBVIOUS
    <3>3. Emptied(r, u, sys, v, k, sz, x, yes)
      BY <1>5, <1>13, <3>1, <3>2, UndoEffect
    <3>4. x \notin Caps
      BY <3>2 DEF LeftBy, RESERVED, EMPTY, Caps
    <3>5. r.levels > 0
      <4>1. r.levels \in Nat /\ u.levels \in Nat /\ u.levels <= r.levels
        BY <1>7, <1>8, <3>3 DEF States, Emptied
      <4> QED
        BY <1>13, <4>1
    <3>6. Created(s, r, v, sz)
      BY <1>1, <3>5, NewLoopCreated
    <3> QED
      BY <1>2, <1>6, <1>7, <3>3, <3>4, <3>6, UndoneNothingMade
  <2>2. CASE ~ (r.done < n)
    <3>1. r.levels > 0
      BY <1>3, <1>13, <2>2
    <3>2. r.done < n
      BY <1>1, <1>13, <3>1, NewLoopCreated
    <3> QED
      BY <2>2, <3>2
  <2> QED
    BY <2>1, <2>2
<1> QED
  BY <1>12, <1>14 DEF NothingMade, LeftAlone, SlotsChanged, SameEntry

(* vspace_new_pages. *)
LEMMA NewPagesAllOrNothing ==
  ASSUME NEW s, NEW sys, Sound(s, sys), NEW n \in Nat, n >= 1, NEW sz \in Sizes, NEW mem,
         NEW t, t = new_pages(s, n, sz, mem), ~ t.dead
  PROVE  t.levels > 0 /\ t.err => NothingMade(s, t)
<1>1. CASE RangesFrom(s, n, sz) = {}
  <2>1. t = [s EXCEPT !.err = TRUE]
    BY <1>1 DEF new_pages
  <2>2. LeftAlone(s, t) /\ SlotsChanged(s, t)
    BY <2>1, Refused
  <2> QED
    BY <2>2 DEF LeftAlone, SlotsChanged, SameEntry, NothingMade
<1>2. CASE RangesFrom(s, n, sz) # {}
  <2>1. PICK v : v = find_range(s, n, sz)
    OBVIOUS
  <2>2. /\ Fits(v, n, sz) /\ v + n * sz \in Nat /\ \A q \in Run(v, n, sz) : Entry(s, q) = EMPTY
        /\ \A q \in Run(v, n, sz) : q \in Pages
    <3>1. Fits(v, n, sz) /\ v + n * sz \in Nat /\ \A q \in Run(v, n, sz) : Entry(s, q) = EMPTY
      BY <1>2, <2>1, FoundRange
    <3> QED
      BY <3>1, Shorter DEF Fits
  <2>3. PICK e \in Nat : e = v + n * sz
    BY <2>2
  <2>4. PICK a : a = LookedBack(s, e)
    OBVIOUS
  <2>5. a = TookRange(s, n, sz)
    BY <2>1, <2>3, <2>4 DEF TookRange, LookedBack
  <2>6. SlotsChanged(s, a) /\ Sound(a, sys) /\ a.slot = s.slot /\ a.at = s.at
    BY <2>4, LastSet
  <2>7. \A q \in Run(v, n, sz) : Entry(a, q) = EMPTY
    BY <2>2, <2>6 DEF SlotsChanged, SameEntry
  <2>8. RunFree(a, sys, v, n, sz) /\ Uniform(a, v, n, sz)
    BY <2>2, <2>6, <2>7, EmptyRun DEF Uniform
  <2>9. PICK r : r = new_pages_at_vaddr(a, v, n, sz, mem)
    OBVIOUS
  <2>10. t = ClearedFirst(r, v, sz)
    BY <1>2, <2>1, <2>5, <2>9 DEF new_pages
  <2>11. r \in States
    BY <2>2, <2>6, <2>8, <2>9, NewPagesAtStates
  <2>12. ~ r.dead
    BY <2>2, <2>10, <2>11, ClearedFirstDead
  <2>13. PagesEffect(a, r, sys, v, n, sz)
    BY <2>2, <2>6, <2>8, <2>9, <2>12, NewPagesAtEffect
  <2>14. /\ t.err = r.err /\ t.slot = r.slot /\ t.at = r.at /\ t.levels = r.levels
         /\ \A p \in Pages : Entry(t, p) = Entry(r, p) \/ Entry(t, p) = EMPTY
    BY <2>2, <2>6, <2>7, <2>10, <2>13, ClearedFirstEffect
  <2> HAVE t.levels > 0 /\ t.err
  <2>15. NothingMade(a, r)
    BY <2>2, <2>6, <2>8, <2>9, <2>12, <2>14, NewPagesAtAllOrNothing
  <2>16. EMPTY \notin Caps
    BY DEF EMPTY, Caps
  <2> QED
    BY <2>6, <2>14, <2>15, <2>16 DEF NothingMade, SlotsChanged, SameEntry
<1> QED
  BY <1>1, <1>2

(* What AllOrNothing says of every reachable state. *)
LEMMA InvAllOrNothing ==
  Inv => AllOrNothing
<1> SUFFICES ASSUME Inv, phase = "up", NEW n \in 1 .. MaxRun, NEW sz \in Sizes, NEW mem \in BOOLEAN,
                    NEW r, r = new_pages(Now, n, sz, mem), r.err /\ ~ r.dead /\ r.levels > 0
             PROVE  /\ r.slot = slot /\ r.at = at
                    /\ \A p \in Pages : get_cap(r, p) \in Caps => get_cap(r, p) = get_cap(Now, p)
  BY DEF AllOrNothing
<1>1. PICK s : s = Now
  OBVIOUS
<1>2. PICK sys : sys = SysPages(bootstrap)
  OBVIOUS
<1>3. Sound(s, sys)
  BY <1>1, <1>2 DEF Inv
<1>4. n \in Nat /\ n >= 1
  BY VSpaceAssumption
<1>5. r = new_pages(s, n, sz, mem)
  BY <1>1
<1>6. NothingMade(s, r)
  BY <1>3, <1>4, <1>5, NewPagesAllOrNothing
<1>7. s.slot = slot /\ s.at = at
  BY <1>1 DEF Now
<1>8. \A p \in Pages : Entry(r, p) \in Caps => Entry(r, p) = Entry(s, p)
  BY <1>6 DEF NothingMade
<1> HIDE DEF Now
<1>9. \A p \in Pages : get_cap(r, p) \in Caps => get_cap(r, p) = get_cap(s, p)
  BY <1>8, CapOfEntry
<1> QED
  BY <1>1, <1>6, <1>7, <1>9 DEF NothingMade

(* A call that creates pages and fails, at whichever page, leaves nothing  *)
(* behind, whatever state it is made in, as long as there is memory for    *)
(* levels. *)
THEOREM VSpaceAllOrNothing ==
  Spec => []AllOrNothing
<1>1. Inv /\ [Next]_vars => Inv'
  BY NextOrStutter DEF Step
<1> QED
  BY <1>1, InitInv, InvAllOrNothing, PTL DEF Spec

================================================================================
