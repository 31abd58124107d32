----------------------------- MODULE MemoryFrames -----------------------------
(***************************************************************************)
(* Every frame has one use: proofs about the frame allocator and the page  *)
(* tables, as their callers in Memory drive them.                          *)
(*                                                                         *)
(* MMAP_LOCK orders the calls of mmap only.  So the theorems are about     *)
(* workloads in which at most one processor at a time is inside the        *)
(* allocator or the mapper: all calls are mmap, or one processor makes     *)
(* them all.  From that follows that a word of the bitmap does not change  *)
(* between its read and its store, and the rest is bookkeeping: each frame *)
(* is free, held, in the hands of a call, or linked by one entry.          *)
(***************************************************************************)
EXTENDS Memory, TLAPS

\* MMAP_LOCK covers all calls, or there is one caller.
Serial ==
  \A w \in Workloads :
    \/ \A c \in CPU : w[c] \subseteq {"mmap"}
    \/ \E c \in CPU : \A d \in CPU \ {c} : w[d] = {}

-----------------------------------------------------------------------------
(* Shapes *)

PmmRecord == [at : {"out", "scan", "store"}, from : Nat, scanned : Nat, word : SUBSET Bit]
WalkRecord == [at : {"out", "down", "grow"}, va : Int, frame : Int, user : BOOLEAN,
               level : 1 .. Levels, tab : Int]
Entry == [frame : Int, user : BOOLEAN]

\* Labels at which next counts pages from zero, a file is being loaded, one of its segments is.
Counting == {"kheap", "kheap_map", "fb_map"}
Loading == {"image", "segment", "seg_page", "seg_copy"}
Copying == Loading \ {"image"}

\* The locals of a call at a label.
JobFits(j, label) ==
  /\ DOMAIN j = DOMAIN NoJob
  /\ j.base \in Int /\ j.pages \in Int /\ j.next \in Int
  /\ label \in {"idle", "off", "pmm_init"} => j = NoJob
  /\ label \in Counting => j.next \in Nat
  /\ label \in Loading => j.image \in DOMAIN Images
  /\ label \in Copying => j.seg \in Nat \ {0}

JobShape ==
  /\ pc = [c \in CPU |-> pc[c]]
  /\ job = [c \in CPU |-> job[c]]
  /\ \A c \in CPU : JobFits(job[c], pc[c])
  /\ mmap_next \in Int /\ next_stack \in Int

Shape ==
  /\ memmap \in MemMaps
  /\ pmm \in [CPU -> PmmRecord]
  /\ page \in [CPU -> Int]
  /\ walk \in [CPU -> WalkRecord]
  /\ \A c \in CPU : walk[c].at = "grow" => walk[c].level < Levels
  /\ IsFiniteSet(DOMAIN table) /\ PML4 \in DOMAIN table
  /\ table \in [DOMAIN table -> [0 .. Radix - 1 -> Entry]]
  /\ JobShape

-----------------------------------------------------------------------------
(* Turns *)

Busy(c) == pc[c] \notin {"idle", "off"}

\* While c is busy, d makes no call.
Waits(d, c) ==
  \/ pc[d] = "off"
  \/ /\ pc[d] = "idle"
     /\ workload[d] = {} \/ (mmap_lock = c /\ workload[d] \subseteq {"mmap"})

\* The places at which a call looks at what pmm_alloc_page has returned.
AwaitsPage == {"kheap_map", "mmap_page", "seg_page", "stack_page", "frame"}

Turns ==
  /\ workload \in Workloads
  /\ \A c, d \in CPU : Busy(c) /\ d # c => Waits(d, c)
  /\ \A c \in CPU : InPmm(c) \/ InWalk(c) => Busy(c)
  /\ \A c \in CPU : InWalk(c) => pc[c] \notin AwaitsPage

-----------------------------------------------------------------------------
(* The bitmap *)

Up == DOMAIN bitmap # {}
Ram == UsablePages(memmap) \ BitmapOwn(memmap)

\* What processor c has seen of the bitmap is still so.
ScanRight(c) ==
  LET s == pmm[c] IN
  /\ s.from < Entries /\ s.scanned < Entries
  /\ \A k \in 0 .. s.scanned - 1 : bitmap[(s.from + k) % Entries] = Bit
  /\ s.at = "store" => s.word = bitmap[Index(s)] /\ s.word # Bit

\* Clear bits are pages of RAM that pmm_init freed.
BitsRight ==
  Up =>
    /\ Entries \in Nat \ {0} /\ DOMAIN bitmap = 0 .. Entries - 1
    /\ bitmap \in [DOMAIN bitmap -> SUBSET Bit]
    /\ hint \in 0 .. Entries - 1
    /\ \A i \in DOMAIN bitmap : \A b \in Bit \ bitmap[i] : PageAt(i, b) \in Ram
    /\ \A c \in CPU : InPmm(c) => ScanRight(c)

\* Before pmm_init nothing has happened.
StartRight ==
  /\ \A c \in CPU : pc[c] = "pmm_init" => ~Up
  /\ ~Up => /\ \A c \in CPU : pc[c] \in {"pmm_init", "off", "panic"} /\ ~InPmm(c) /\ ~InWalk(c)
            /\ Links = {} /\ DOMAIN table = {PML4} /\ held = {}

-----------------------------------------------------------------------------
(* Ownership *)

OnScreen == Range(FbFrames)
Linked(f) == \E l \in Links : LinkedFrame(l) = f

\* In use by somebody else than the holder of single frames.
Taken(f) == f \in Ram /\ f \in UsedPages /\ f \notin held

\* In the hands of a call, and of nobody else.
Pending(f) == (Taken(f) \/ f \in OnScreen) /\ f \notin DOMAIN table /\ ~Linked(f)

\* The call on c has a frame that it has not mapped yet.
HoldsPage(c) ==
  /\ ~InPmm(c)
  /\ page[c] # PMM_NO_PAGE
  /\ \/ walk[c].at = "grow"
     \/ walk[c].at = "out" /\ pc[c] \in AwaitsPage

Hands ==
  \A c \in CPU :
    /\ HoldsPage(c) => Pending(page[c]) /\ Taken(page[c])
    /\ InWalk(c) => Pending(walk[c].frame)
    /\ InWalk(c) /\ HoldsPage(c) => page[c] # walk[c].frame

LinksRight ==
  /\ \A l, k \in Links : LinkedFrame(l) = LinkedFrame(k) => l = k
  /\ \A l \in Links : LinkedFrame(l) \in OnScreen \/ Taken(LinkedFrame(l))

TablesRight == \A f \in DOMAIN table : f = PML4 \/ Taken(f)

HeldRight == \A f \in held : f \in Ram /\ f \in UsedPages

\* How far map_framebuffer has come.
ScreenRight ==
  /\ \A i \in DOMAIN FbFrames :
       Linked(FbFrames[i]) \/ (\E c \in CPU : InWalk(c) /\ walk[c].frame = FbFrames[i]) =>
         \/ fb_mapped
         \/ \E c \in CPU : \/ pc[c] = "panic"
                           \/ pc[c] = "fb_map" /\ i <= job[c].next
  /\ \A c \in CPU : pc[c] = "fb_map" => ~fb_mapped

\* Each table has a level; an entry above the leaves leads to a table one level down, and a
\* walk is at a table of its level.
LevelsRight(lv) ==
  /\ lv \in [DOMAIN table -> 1 .. Levels]
  /\ lv[PML4] = 1
  /\ \A l \in Links : lv[l[1]] < Levels =>
       LinkedFrame(l) \in DOMAIN table /\ lv[LinkedFrame(l)] = lv[l[1]] + 1
  /\ \A c \in CPU : InWalk(c) => walk[c].tab \in DOMAIN table /\ lv[walk[c].tab] = walk[c].level
Levelled == \E lv \in [DOMAIN table -> 1 .. Levels] : LevelsRight(lv)

Owned == BitsRight /\ Hands /\ LinksRight /\ TablesRight /\ HeldRight

FrameInv == Shape /\ Turns /\ StartRight /\ Owned /\ Levelled /\ ScreenRight

-----------------------------------------------------------------------------
(* Arithmetic of the bitmap *)

\* What the library says of least elements and of finite sets.  The steps assume it and
\* MemoryProofs derives it, so that only there the theorems of the library are in view.
SetFacts ==
  /\ \A S \in SUBSET Nat : S # {} => Min(S) \in S /\ \A y \in S : Min(S) <= y
  /\ \A n \in Nat \ {0} : Cardinality(0 .. n - 1) = n
  /\ \A S, x : IsFiniteSet(S) => IsFiniteSet(S \cup {x})

\* Every nonempty set of naturals has a least element, which Min picks.
LEMMA MinInSet ==
  ASSUME SetFacts, NEW S, S \subseteq Nat, S # {}
  PROVE  Min(S) \in S /\ \A y \in S : Min(S) <= y
BY Zenon DEF SetFacts

\* A page has one word and one bit (pmm_free_page computes them back).
LEMMA PageUnique ==
  ASSUME NEW i \in Nat, NEW j \in Nat, NEW a \in Bit, NEW b \in Bit, PageAt(i, a) = PageAt(j, b)
  PROVE  i = j /\ a = b
<1>1. WordBits \in Nat /\ WordBits > 0 /\ a \in 0 .. WordBits - 1 /\ b \in 0 .. WordBits - 1
  BY FrameAssumption DEF Bit, FrameAssumption
<1>2. i * WordBits + a = j * WordBits + b BY Zenon DEF PageAt
<1>3. ASSUME i < j PROVE FALSE
  <2>1. (j - i) * WordBits = a - b BY <1>1, <1>2
  <2>2. (j - i) * WordBits >= WordBits BY <1>1, <1>3
  <2> QED BY <1>1, <2>1, <2>2
<1>4. ASSUME j < i PROVE FALSE
  <2>1. (i - j) * WordBits = b - a BY <1>1, <1>2
  <2>2. (i - j) * WordBits >= WordBits BY <1>1, <1>4
  <2> QED BY <1>1, <2>1, <2>2
<1>5. i = j BY <1>3, <1>4
<1> QED BY <1>1, <1>2, <1>5

LEMMA PageSplit ==
  ASSUME NEW i \in Nat, NEW b \in Bit
  PROVE  PageAt(i, b) \in Nat /\ PageAt(i, b) \div WordBits = i /\ PageAt(i, b) % WordBits = b
BY FrameAssumption DEF Bit, PageAt, FrameAssumption

LEMMA IndexInRange ==
  ASSUME NEW a \in Nat, NEW n \in Nat \ {0}
  PROVE  a % n \in 0 .. n - 1
OBVIOUS

\* A scan of n words, from any of them, comes to every word.
LEMMA FullRound ==
  ASSUME NEW n \in Nat \ {0}, NEW from \in 0 .. n - 1, NEW i \in 0 .. n - 1
  PROVE  \E k \in 0 .. n - 1 : (from + k) % n = i
<1>1. CASE i >= from
  <2>1. i - from \in 0 .. n - 1 /\ (from + (i - from)) % n = i BY <1>1
  <2> QED BY <2>1, Zenon
<1>2. CASE i < from
  <2>1. i - from + n \in 0 .. n - 1 /\ from + (i - from + n) = i + n BY <1>2
  <2>2. (i + n) % n = i OBVIOUS
  <2> QED BY <2>1, <2>2, Zenon
<1> QED BY <1>1, <1>2

-----------------------------------------------------------------------------
(* pmm_init *)

\* The highest page is the end of a region, and none ends beyond it.
LEMMA HighestPageFacts ==
  ASSUME SetFacts, NEW m \in MemMaps, Usable(m) # {}
  PROVE  HighestPage(m) \in Nat \ {0} /\ \A i \in Usable(m) : m[i].base + m[i].length <= HighestPage(m)
<1> DEFINE End(i) == m[i].base + m[i].length
           Bounds(n) == {u \in Nat : \A i \in 1 .. n : End(i) <= u}
           C == {n \in 0 .. Len(m) : Bounds(n) = {}}
           E == {End(i) : i \in Usable(m)}
           U == {u \in Nat : \A e \in E : e <= u}
<1>1. m \in Seq([base : Nat, length : Nat, usable : BOOLEAN]) BY FrameAssumption, Zenon DEF FrameAssumption
<1>2. /\ Len(m) \in Nat /\ DOMAIN m = 1 .. Len(m)
      /\ \A i \in 1 .. Len(m) : m[i].base \in Nat /\ m[i].length \in Nat
  <2> DEFINE R == [base : Nat, length : Nat, usable : BOOLEAN]
  <2>1. \A r \in R : r.base \in Nat /\ r.length \in Nat BY Zenon
  <2>2. m \in Seq(R) BY <1>1, Zenon
  <2> HIDE DEF R
  <2>3. Len(m) \in Nat /\ DOMAIN m = 1 .. Len(m) /\ \A i \in 1 .. Len(m) : m[i] \in R BY <2>2
  <2> QED BY <2>1, <2>3, Zenon
<1>3. \A i \in 1 .. Len(m) : End(i) \in Nat BY <1>2
<1>4. Usable(m) \subseteq 1 .. Len(m) /\ \A i \in Usable(m) : End(i) > 0 BY <1>2 DEF Usable
<1>5. C = {}
  <2>1. SUFFICES ASSUME C # {} PROVE FALSE BY Zenon
  <2>2. C \subseteq Nat BY <1>2
  <2> DEFINE n == Min(C)
  <2>3. n \in C /\ \A y \in C : n <= y BY <2>1, <2>2, MinInSet, Zenon
  <2>4. n \in 0 .. Len(m) /\ Bounds(n) = {} BY <2>3, Zenon
  <2> HIDE DEF n
  <2>5. n # 0
    <3>1. 0 \in Bounds(0) OBVIOUS
    <3> QED BY <2>4, <3>1, Zenon
  <2>6. n - 1 \in 0 .. Len(m) /\ n - 1 \notin C
    <3>1. n - 1 \in 0 .. Len(m) /\ ~(n <= n - 1) BY <1>2, <2>4, <2>5
    <3> HIDE DEF C
    <3> QED BY <2>3, <3>1, Zenon
  <2>7. PICK u \in Nat : \A i \in 1 .. n - 1 : End(i) <= u BY <2>6, Zenon
  <2>8. n \in 1 .. Len(m) /\ End(n) \in Nat BY <1>2, <1>3, <2>4, <2>5
  <2>9. \A i \in 1 .. n : End(i) <= u + End(n)
    <3>1. SUFFICES ASSUME NEW i \in 1 .. n PROVE End(i) <= u + End(n) BY Zenon
    <3>2. End(i) \in Nat BY <1>2, <1>3, <2>8
    <3>3. CASE i = n BY <2>8, <3>2, <3>3
    <3>4. CASE i # n
      <4>1. i \in 1 .. n - 1 BY <2>8, <3>4
      <4>2. End(i) <= u BY <2>7, <4>1, Zenon
      <4> HIDE DEF End
      <4> QED BY <2>8, <3>2, <4>2
    <3> QED BY <3>3, <3>4, Zenon
  <2>10. u + End(n) \in Bounds(n) BY <2>8, <2>9
  <2> QED BY <2>4, <2>10, Zenon
<1>6. PICK v \in Nat : \A i \in 1 .. Len(m) : End(i) <= v
  <2>1. Bounds(Len(m)) # {} BY <1>2, <1>5
  <2> QED BY <2>1, Zenon
<1>7. v \in U BY <1>4, <1>6, Zenon
<1> DEFINE b == Min(U)
<1>8. b \in U /\ \A y \in U : b <= y BY <1>7, MinInSet, Zenon
<1>9. PICK i \in Usable(m) : TRUE BY Zenon
<1>10. End(i) \in E /\ End(i) \in Nat /\ End(i) > 0 BY <1>3, <1>4, <1>9, Zenon
<1>11. b \in Nat /\ b > 0 /\ \A e \in E : e <= b
  <2> HIDE DEF End, b
  <2> QED BY <1>8, <1>10
<1>12. b \in E
  <2>1. SUFFICES ASSUME b \notin E PROVE FALSE BY Zenon
  <2>2. \A e \in E : e \in Nat BY <1>3, <1>4, Zenon
  <2>3. b - 1 \in U
    <3> HIDE DEF E, b
    <3> QED BY <1>11, <2>1, <2>2
  <2> HIDE DEF U, b
  <2> QED BY <1>8, <1>11, <2>3
<1>13. /\ Max(E) \in E
       /\ \A y \in E : Max(E) >= y
  <2>1. \E x \in E : \A y \in E : x >= y
    <3>1. \A e \in E : e \in Nat BY <1>3, <1>4, Zenon
    <3> HIDE DEF E, b
    <3> QED BY <1>11, <1>12, <3>1, Zenon
  <2> HIDE DEF E
  <2> QED BY <2>1, Zenon DEF Max
<1>14. HighestPage(m) = Max(E) BY Zenon DEF HighestPage
<1>15. Max(E) \in Nat \ {0}
  <2>1. \A e \in E : e \in Nat /\ e > 0 BY <1>3, <1>4, Zenon
  <2> HIDE DEF E
  <2> QED BY <1>13, <2>1
<1>16. ASSUME NEW k \in Usable(m) PROVE End(k) <= Max(E)
  <2>1. End(k) \in E /\ End(k) \in Nat BY <1>3, <1>4, Zenon
  <2> HIDE DEF E, End
  <2> QED BY <1>13, <1>15, <2>1, Zenon
<1> QED BY <1>14, <1>15, <1>16, Zenon

\* There is at least one word, and as many as there are entries.
LEMMA BootBitmapFacts ==
  ASSUME SetFacts, NEW m \in MemMaps, PmmInitSucceeds(m)
  PROVE  /\ BitmapEntries(m) \in Nat \ {0}
         /\ DOMAIN BootBitmap(m) = 0 .. BitmapEntries(m) - 1
         /\ Cardinality(DOMAIN BootBitmap(m)) = BitmapEntries(m)
         /\ BootBitmap(m) \in [DOMAIN BootBitmap(m) -> SUBSET Bit]
         /\ \A i \in DOMAIN BootBitmap(m) : \A b \in Bit \ BootBitmap(m)[i] :
              PageAt(i, b) \in UsablePages(m) \ BitmapOwn(m)
<1>1. HighestPage(m) \in Nat \ {0} BY HighestPageFacts, Zenon DEF PmmInitSucceeds
<1>2. BitmapEntries(m) \in Nat \ {0}
  <2> DEFINE h == HighestPage(m)
  <2> HIDE DEF h
  <2>1. h \in Nat /\ h > 0 /\ WordBits \in Nat /\ WordBits > 0
    BY <1>1, FrameAssumption DEF FrameAssumption, h
  <2>2. (h + WordBits - 1) \div WordBits \in Int BY <2>1
  <2>3. (h + WordBits - 1) \div WordBits >= 1 BY <2>1
  <2> QED BY <2>2, <2>3 DEF BitmapEntries, h
<1>3. DOMAIN BootBitmap(m) = 0 .. BitmapEntries(m) - 1 BY Zenon DEF BootBitmap
<1>4. Cardinality(0 .. BitmapEntries(m) - 1) = BitmapEntries(m)
  <2> DEFINE n == BitmapEntries(m)
  <2> HIDE DEF n
  <2>1. n \in Nat \ {0} BY <1>2, Zenon DEF n
  <2>2. Cardinality(0 .. n - 1) = n BY <2>1, Zenon DEF SetFacts
  <2> QED BY <2>2, Zenon DEF n
<1> HIDE DEF BitmapEntries
<1> QED BY <1>2, <1>3, <1>4, Zenon DEF BootBitmap

-----------------------------------------------------------------------------
(* Frames and entries *)

\* A page is marked when its bit is set.
LEMMA UsedPage ==
  ASSUME NEW f
  PROVE  f \in UsedPages <=> \E i \in DOMAIN bitmap : \E b \in bitmap[i] : f = PageAt(i, b)
BY DEF UsedPages

\* RAM is neither the boot loader's root table nor the framebuffer.
LEMMA RamFacts ==
  ASSUME memmap \in MemMaps, NEW f \in Ram
  PROVE  f # PML4 /\ f \notin OnScreen /\ f \in Nat
<1>1. f \in UsablePages(memmap) BY Zenon DEF Ram
<1>2. PICK i \in Usable(memmap) : f \in Pages(memmap[i]) BY <1>1, Zenon DEF UsablePages
<1>3. memmap[i].base \in Nat /\ memmap[i].length \in Nat
  <2> DEFINE R == [base : Nat, length : Nat, usable : BOOLEAN]
  <2>1. \A r \in R : r.base \in Nat /\ r.length \in Nat BY Zenon
  <2>2. memmap \in Seq(R) BY FrameAssumption, Zenon DEF FrameAssumption
  <2> HIDE DEF R
  <2>3. i \in DOMAIN memmap BY Zenon DEF Usable
  <2>4. memmap[i] \in R BY <2>2, <2>3
  <2> QED BY <2>1, <2>4, Zenon
<1>4. f \in Nat BY <1>2, <1>3 DEF Pages
<1> QED BY <1>1, <1>4, TableAssumption, MemoryAssumption, Zenon DEF TableAssumption, MemoryAssumption, OnScreen

\* A frame that is free in the bitmap is in nobody's hands.
LEMMA FreeFrame ==
  ASSUME Shape, Owned, NEW f \in Ram, f \notin UsedPages
  PROVE  /\ f \notin DOMAIN table /\ f \notin held /\ ~Linked(f)
         /\ \A g : Pending(g) => g # f
<1>1. f # PML4 /\ f \notin OnScreen BY RamFacts, Zenon DEF Shape
<1>2. \A g : Taken(g) => g # f BY Zenon DEF Taken
<1> QED BY <1>1, <1>2, Zenon DEF Owned, LinksRight, TablesRight, HeldRight, Linked, Pending

\* Tables with entry s of table t set to e, and with an empty table g.
Put(tbl, t, s, e) == [tbl EXCEPT ![t][s] = e]
Grown(tbl, g) == [f \in DOMAIN tbl \cup {g} |-> IF f = g THEN EmptyTable ELSE tbl[f]]

\* An entry is set; all others stay, also when the place does not exist.
IsPut(new, D, tbl, t, s, e) ==
  /\ new \in [D -> [0 .. Radix - 1 -> Entry]]
  /\ \A f \in D, i \in 0 .. Radix - 1 : new[f][i] = IF f = t /\ i = s THEN e ELSE tbl[f][i]

LEMMA EntrySet ==
  ASSUME NEW D, NEW tbl \in [D -> [0 .. Radix - 1 -> Entry]], NEW t, NEW s, NEW e \in Entry,
         NEW new, new = Put(tbl, t, s, e)
  PROVE  IsPut(new, D, tbl, t, s, e)
<1>1. \A f \in D : new[f] = IF f = t THEN [tbl[f] EXCEPT ![s] = e] ELSE tbl[f] BY Zenon DEF Put
<1>2. ASSUME NEW f \in D
      PROVE  /\ new[f] \in [0 .. Radix - 1 -> Entry]
             /\ \A i \in 0 .. Radix - 1 : new[f][i] = IF f = t /\ i = s THEN e ELSE tbl[f][i]
  <2>1. tbl[f] \in [0 .. Radix - 1 -> Entry] BY Zenon
  <2>2. CASE f = t BY <1>1, <2>1, <2>2, Zenon
  <2>3. CASE f # t BY <1>1, <2>1, <2>3, Zenon
  <2> QED BY <2>2, <2>3, Zenon
<1>3. new = [f \in D |-> new[f]] BY Zenon DEF Put
<1>4. new \in [D -> [0 .. Radix - 1 -> Entry]] BY <1>2, <1>3, Zenon
<1> QED BY <1>2, <1>4, Zenon DEF IsPut

\* Links keep their frames in a step; at most x is new, and leads to g that was not linked.
Relinked(x, g) ==
  \A l \in Links' : \/ l \in Links /\ LinkedFrame(l)' = LinkedFrame(l)
                    \/ /\ l = x /\ LinkedFrame(l)' = g
                       /\ ~Linked(g) /\ (g \in OnScreen \/ Taken(g)')
StaysTaken == \A f : Taken(f) => Taken(f)'

LEMMA LinksStayApart ==
  ASSUME LinksRight, NEW x, NEW g, Relinked(x, g), StaysTaken
  PROVE  LinksRight' /\ \A f : Linked(f)' => Linked(f) \/ f = g
<1>0. \A l \in Links' : \/ l \in Links /\ LinkedFrame(l)' = LinkedFrame(l)
                        \/ /\ l = x /\ LinkedFrame(l)' = g
                           /\ ~Linked(g) /\ (g \in OnScreen \/ Taken(g)')
  BY Zenon DEF Relinked
<1>1. ASSUME NEW l \in Links', NEW k \in Links', LinkedFrame(l)' = LinkedFrame(k)' PROVE l = k
  BY <1>0, <1>1, Zenon DEF LinksRight, Linked
<1>2. ASSUME NEW l \in Links' PROVE LinkedFrame(l)' \in OnScreen \/ Taken(LinkedFrame(l))'
  <2>1. CASE l \in Links /\ LinkedFrame(l)' = LinkedFrame(l)
    <3>1. LinkedFrame(l) \in OnScreen \/ Taken(LinkedFrame(l)) BY <2>1, Zenon DEF LinksRight
    <3>2. Taken(LinkedFrame(l)) => (LET f == LinkedFrame(l) IN f \in Ram' /\ f \in UsedPages' /\ f \notin held')
      BY Zenon DEF Taken, StaysTaken
    <3> QED BY <2>1, <3>1, <3>2, Zenon DEF Taken
  <2>2. CASE LinkedFrame(l)' = g /\ (g \in OnScreen \/ Taken(g)')
    BY <2>2, Zenon DEF Taken
  <2> QED BY <1>0, <2>1, <2>2, Zenon
<1>3. LinksRight' BY <1>1, <1>2, Zenon DEF LinksRight, OnScreen
<1>4. ASSUME NEW f, Linked(f)' PROVE Linked(f) \/ f = g
  BY <1>0, <1>4, Zenon DEF Linked
<1> QED BY <1>3, <1>4, Zenon

-----------------------------------------------------------------------------
(* Steps that leave the frames where they are *)

LEMMA SameFrames ==
  ASSUME UNCHANGED <<memmap, bitmap, held>>
  PROVE  /\ UsedPages' = UsedPages /\ Ram' = Ram /\ Entries' = Entries /\ Up' = Up
         /\ \A f : Taken(f)' = Taken(f)
<1>1. UsedPages' = UsedPages BY DEF UsedPages
<1>2. Ram' = Ram BY Zenon DEF Ram
<1>3. Entries' = Entries /\ Up' = Up BY Zenon DEF Entries, Up
<1> QED BY <1>1, <1>2, <1>3, Zenon DEF Taken

LEMMA SameTables ==
  ASSUME UNCHANGED <<memmap, bitmap, held, table>>
  PROVE  /\ Links' = Links /\ \A f : Linked(f)' = Linked(f) /\ Pending(f)' = Pending(f)
         /\ LinksRight' = LinksRight /\ TablesRight' = TablesRight /\ HeldRight' = HeldRight
<1>1. Links' = Links /\ \A l : LinkedFrame(l)' = LinkedFrame(l) BY Zenon DEF Links, LinkedFrame
<1>2. \A f : Linked(f)' = Linked(f) BY <1>1, Zenon DEF Linked
<1>3. UsedPages' = UsedPages /\ Ram' = Ram /\ \A f : Taken(f)' = Taken(f) BY SameFrames, Zenon
<1>4. \A f : Pending(f)' = Pending(f) BY <1>2, <1>3, Zenon DEF Pending, OnScreen
<1>5. LinksRight' = LinksRight
  BY <1>1, <1>3, Zenon DEF LinksRight, Taken, OnScreen
<1>6. TablesRight' = TablesRight BY <1>3, Zenon DEF TablesRight, Taken
<1>7. HeldRight' = HeldRight BY <1>3, Zenon DEF HeldRight
<1> QED BY <1>1, <1>2, <1>4, <1>5, <1>6, <1>7, Zenon

\* The call goes on, holding no frame that it did not hold.
LEMMA QuietOwned ==
  ASSUME Owned, UNCHANGED <<memmap, bitmap, hint, pmm, page, table, walk, held>>,
         \A d \in CPU : HoldsPage(d)' => HoldsPage(d)
  PROVE  Owned'
<1>1. BitsRight'
  BY SameFrames, Zenon DEF Owned, BitsRight, ScanRight, Index, InPmm, PageAt, Bit
<1>2. Hands'
  BY SameTables, SameFrames, Zenon DEF Owned, Hands, Pending, Taken, Linked, InWalk, OnScreen
<1> QED BY <1>1, <1>2, SameTables, Zenon DEF Owned

\* The call enters pmm_alloc_page, and has no page until that returns.
LEMMA EnterOwned ==
  ASSUME Shape, Owned, NEW c \in CPU, Up, PmmEnter(c), UNCHANGED <<table, held>>,
         \A d \in CPU : InWalk(d)' => InWalk(d) /\ walk'[d].frame = walk[d].frame,
         \A d \in CPU : d # c => (HoldsPage(d)' => HoldsPage(d))
  PROVE  Owned'
<1>0. /\ pmm' = [pmm EXCEPT ![c] = [at |-> "scan", from |-> hint, scanned |-> 0, word |-> {}]]
      /\ UNCHANGED <<memmap, bitmap, hint, page>> /\ pmm \in [CPU -> PmmRecord]
  BY Zenon DEF PmmEnter, Shape
<1>1. BitsRight'
  <2>1. Entries \in Nat \ {0} /\ hint \in 0 .. Entries - 1 BY Zenon DEF Owned, BitsRight
  <2>2. Entries' = Entries /\ Ram' = Ram BY <1>0, SameFrames, Zenon
  <2>3. ASSUME NEW d \in CPU, InPmm(d)' PROVE ScanRight(d)'
    <3>1. CASE d = c
      <4>1. pmm'[d] = [at |-> "scan", from |-> hint, scanned |-> 0, word |-> {}] BY <1>0, <3>1, Zenon
      <4> QED BY <2>1, <2>2, <4>1 DEF ScanRight
    <3>2. CASE d # c
      <4>1. pmm'[d] = pmm[d] /\ bitmap' = bitmap BY <1>0, <3>2, Zenon
      <4>2. ScanRight(d) BY <2>3, <4>1, Zenon DEF Owned, BitsRight, InPmm
      <4> QED BY <2>2, <4>1, <4>2, Zenon DEF ScanRight, Index, Bit
    <3> QED BY <3>1, <3>2, Zenon
  <2> QED BY <1>0, <2>2, <2>3, Zenon DEF Owned, BitsRight, Up, PageAt, Bit
<1>2. Hands'
  <2>1. ~HoldsPage(c)'
    <3>1. pmm'[c].at = "scan" BY <1>0, Zenon
    <3> QED BY <3>1, Zenon DEF HoldsPage, InPmm
  <2>2. \A d \in CPU : HoldsPage(d)' => HoldsPage(d) /\ page'[d] = page[d] BY <1>0, <2>1, Zenon
  <2>3. /\ \A f : Pending(f)' = Pending(f) /\ Taken(f)' = Taken(f)
    BY <1>0, SameFrames, SameTables, Zenon
  <2>4. ASSUME NEW d \in CPU PROVE /\ HoldsPage(d)' => Pending(page[d])' /\ Taken(page[d])'
                                   /\ InWalk(d)' => Pending(walk[d].frame)'
                                   /\ InWalk(d)' /\ HoldsPage(d)' => page'[d] # walk'[d].frame
    <3>1. HoldsPage(d)' => Pending(page[d])' /\ Taken(page[d])'
      BY <1>0, <2>2, SameTables, SameFrames, Zenon DEF Owned, Hands, Pending, Linked, Taken, OnScreen
    <3>2. InWalk(d)' => Pending(walk[d].frame)'
      <4>1. PICK g : g = walk[d].frame BY Zenon
      <4>2. InWalk(d)' => Pending(g)' /\ walk'[d].frame = g BY <2>3, <4>1, Zenon DEF Owned, Hands
      <4> QED BY <4>2, Zenon DEF Pending, Linked, Taken, OnScreen
    <3>3. InWalk(d)' /\ HoldsPage(d)' => page'[d] # walk'[d].frame
      BY <2>2, Zenon DEF Owned, Hands
    <3> QED BY <3>1, <3>2, <3>3, Zenon
  <2> QED BY <2>4, Zenon DEF Hands
<1> QED BY <1>0, <1>1, <1>2, SameTables, Zenon DEF Owned

-----------------------------------------------------------------------------
(* pmm_alloc_page and pmm_free_page *)

\* A call that is inside the allocator is at a word of the bitmap.
LEMMA AtWord ==
  ASSUME Shape, Owned, Up, NEW c \in CPU, InPmm(c)
  PROVE  /\ Entries \in Nat \ {0} /\ pmm[c].from \in 0 .. Entries - 1
         /\ pmm[c].scanned \in 0 .. Entries - 1
         /\ Index(pmm[c]) \in DOMAIN bitmap /\ Index(pmm[c]) \in Nat
         /\ bitmap[Index(pmm[c])] \subseteq Bit
<1>1. pmm[c] \in PmmRecord BY Zenon DEF Shape
<1>2. pmm[c].from \in Nat /\ pmm[c].scanned \in Nat BY <1>1, Zenon DEF PmmRecord
<1>3. ScanRight(c) /\ Entries \in Nat \ {0} /\ DOMAIN bitmap = 0 .. Entries - 1
      /\ bitmap \in [DOMAIN bitmap -> SUBSET Bit]
  BY Zenon DEF Owned, BitsRight
<1>4. pmm[c].from < Entries /\ pmm[c].scanned < Entries BY <1>3, Zenon DEF ScanRight
<1>5. pmm[c].from + pmm[c].scanned \in Nat BY <1>2
<1>6. (pmm[c].from + pmm[c].scanned) % Entries \in 0 .. Entries - 1 BY <1>3, <1>5, IndexInRange, Zenon
<1> QED BY <1>2, <1>3, <1>4, <1>6 DEF Index

\* One more word is seen to be full, or one with a clear bit is found.
LEMMA ReadOwned ==
  ASSUME Shape, Owned, Up, NEW c \in CPU, PmmRead(c), UNCHANGED <<table, walk, held, pc>>
  PROVE  Owned'
<1> DEFINE s == pmm[c]
<1>0. /\ UNCHANGED <<memmap, bitmap, hint>> /\ pmm \in [CPU -> PmmRecord] /\ page \in [CPU -> Int]
      /\ s.at = "scan" /\ InPmm(c)
  BY Zenon DEF PmmRead, Shape, InPmm
<1>1. Entries' = Entries /\ Ram' = Ram BY <1>0, SameFrames, Zenon
<1>2. /\ Entries \in Nat \ {0} /\ s.from \in Nat /\ s.scanned \in 0 .. Entries - 1
      /\ Index(s) \in DOMAIN bitmap
  BY <1>0, AtWord
<1>3. \A d \in CPU : d # c => pmm'[d] = pmm[d] /\ page'[d] = page[d]
  BY <1>0, Zenon DEF PmmRead, PmmGiveUp
<1>4. ScanRight(c) BY <1>0, Zenon DEF Owned, BitsRight
<1>5. ASSUME InPmm(c)' PROVE ScanRight(c)' /\ page'[c] = page[c]
  <2>1. CASE /\ bitmap[Index(s)] # Bit
             /\ pmm' = [pmm EXCEPT ![c].at = "store", ![c].word = bitmap[Index(s)]]
             /\ UNCHANGED page
    <3>1. /\ pmm'[c].from = s.from /\ pmm'[c].scanned = s.scanned
          /\ pmm'[c].word = bitmap[Index(s)]
      BY <1>0, <2>1, Zenon DEF PmmRecord
    <3>2. Index(pmm'[c]) = Index(s) BY <3>1, Zenon DEF Index
    <3>3. (Index(pmm[c]))' = Index(s) BY <1>1, <3>1, Zenon DEF Index
    <3> QED BY <1>0, <1>1, <1>4, <2>1, <3>1, <3>3, Zenon DEF ScanRight
  <2>2. CASE /\ bitmap[Index(s)] = Bit
             /\ ~ScanEnds(s)
             /\ pmm' = [pmm EXCEPT ![c].scanned = @ + 1]
             /\ UNCHANGED page
    <3>1. pmm'[c].from = s.from /\ pmm'[c].scanned = s.scanned + 1 /\ pmm'[c].at = "scan"
      BY <1>0, <2>2, Zenon DEF PmmRecord
    <3>2. s.scanned + 1 < Entries BY <1>2, <2>2 DEF ScanEnds
    <3>3. ASSUME NEW k \in 0 .. s.scanned PROVE bitmap[(s.from + k) % Entries] = Bit
      <4>1. CASE k = s.scanned BY <2>2, <4>1, Zenon DEF Index
      <4>2. CASE k # s.scanned
        <5>1. k \in 0 .. s.scanned - 1 BY <1>2, <4>2
        <5> QED BY <1>4, <5>1, Zenon DEF ScanRight
      <4> QED BY <4>1, <4>2, Zenon
    <3>4. \A k \in 0 .. pmm'[c].scanned - 1 : bitmap'[(pmm'[c].from + k) % Entries'] = Bit
      <4>1. pmm'[c].scanned - 1 = s.scanned BY <1>2, <3>1
      <4>2. bitmap' = bitmap BY <1>0, Zenon
      <4> QED BY <1>1, <3>1, <3>3, <4>1, <4>2, Zenon
    <3> QED BY <1>1, <1>4, <2>2, <3>1, <3>2, <3>4, Zenon DEF ScanRight
  <2>3. CASE PmmGiveUp(c)
    <3>1. pmm'[c].at = "out" BY <1>0, <2>3, Zenon DEF PmmGiveUp, Outside
    <3> QED BY <1>5, <3>1, Zenon DEF InPmm
  <2> QED BY <2>1, <2>2, <2>3, Zenon DEF PmmRead
<1>6. ASSUME NEW d \in CPU, InPmm(d)' PROVE ScanRight(d)'
  <2>1. CASE d = c BY <1>5, <1>6, <2>1, Zenon
  <2>2. CASE d # c
    <3>1. pmm'[d] = pmm[d] BY <1>3, <2>2, Zenon
    <3>2. ScanRight(d) BY <1>6, <3>1, Zenon DEF Owned, BitsRight, InPmm
    <3> QED BY <1>0, <1>1, <3>1, <3>2, Zenon DEF ScanRight, Index, Bit
  <2> QED BY <2>1, <2>2, Zenon
<1>7. BitsRight'
  BY <1>0, <1>1, <1>6, Zenon DEF Owned, BitsRight, Up, PageAt, Bit
<1>8. \A d \in CPU : HoldsPage(d)' => d # c
  <2>1. ASSUME HoldsPage(c)' PROVE FALSE
    <3>1. ~InPmm(c)' /\ page'[c] # PMM_NO_PAGE BY <2>1, Zenon DEF HoldsPage
    <3>2. pmm'[c].at = "out" BY <3>1, Zenon DEF InPmm
    <3>3. page'[c] = PMM_NO_PAGE
      BY <1>0, <3>2 DEF PmmRead, PmmGiveUp, PmmRecord
    <3> QED BY <3>1, <3>3, Zenon
  <2> QED BY <2>1, Zenon
<1>9. \A d \in CPU : HoldsPage(d)' => HoldsPage(d) /\ page'[d] = page[d]
  BY <1>3, <1>8, Zenon DEF HoldsPage, InPmm
<1>10. Hands'
  BY <1>0, <1>9, SameTables, SameFrames, Zenon
     DEF Owned, Hands, Pending, Taken, Linked, InWalk, OnScreen
<1> QED BY <1>0, <1>7, <1>10, SameTables, Zenon DEF Owned

LEMMA UsedPageNext ==
  ASSUME NEW f
  PROVE  f \in UsedPages' <=> \E i \in DOMAIN bitmap' : \E b \in bitmap'[i] : f = PageAt(i, b)
BY DEF UsedPages

\* What is taken stays so, and the links and tables with it, when no taken frame is cleared.
LEMMA TakenKept ==
  ASSUME Owned, UNCHANGED <<memmap, table>>, \A f : Taken(f) => Taken(f)'
  PROVE  LinksRight' /\ TablesRight' /\ \A f : Pending(f) => Pending(f)'
<1>1. Links' = Links /\ \A l : LinkedFrame(l)' = LinkedFrame(l) BY Zenon DEF Links, LinkedFrame
<1>2. \A f : Linked(f)' = Linked(f) BY <1>1, Zenon DEF Linked
<1>3. \A f : Taken(f) => f \in Ram' /\ f \in UsedPages' /\ f \notin held' BY Zenon DEF Taken
<1>4. LinksRight' BY <1>1, <1>3, Zenon DEF Owned, LinksRight, Taken, OnScreen
<1>5. TablesRight' BY <1>3, Zenon DEF Owned, TablesRight, Taken
<1>6. \A f : Pending(f) => Pending(f)' BY <1>2, Zenon DEF Pending, OnScreen
<1> QED BY <1>4, <1>5, <1>6, Zenon

\* The page that pmm_alloc_page returns was free, and is marked with the word it read.
LEMMA StoreFacts ==
  ASSUME SetFacts, Shape, Owned, Up, NEW c \in CPU, PmmStore(c)
  PROVE  \E n \in Ram :
           /\ n \notin UsedPages /\ page' = [page EXCEPT ![c] = n]
           /\ UsedPages' = UsedPages \cup {n}
           /\ DOMAIN bitmap' = DOMAIN bitmap /\ bitmap' \in [DOMAIN bitmap -> SUBSET Bit]
           /\ \A i \in DOMAIN bitmap : bitmap[i] \subseteq bitmap'[i]
           /\ hint' \in 0 .. Entries - 1
<1> DEFINE s == pmm[c]
           index == Index(s)
           bit == Min(Bit \ s.word)
           n == PageAt(index, bit)
<1>1. /\ s.at = "store" /\ InPmm(c)
      /\ bitmap' = [bitmap EXCEPT ![index] = s.word \cup {bit}]
      /\ hint' = (n + 1) % Entries
      /\ page' = [page EXCEPT ![c] = n]
  BY Zenon DEF PmmStore, InPmm
<1>2. /\ Entries \in Nat \ {0} /\ index \in DOMAIN bitmap /\ index \in Nat
      /\ bitmap[index] \subseteq Bit
  BY <1>1, AtWord, Zenon
<1>3. s.word = bitmap[index] /\ s.word # Bit
  BY <1>1, Zenon DEF Owned, BitsRight, ScanRight
<1>4. /\ bitmap \in [DOMAIN bitmap -> SUBSET Bit] /\ DOMAIN bitmap = 0 .. Entries - 1
      /\ \A i \in DOMAIN bitmap : \A b \in Bit \ bitmap[i] : PageAt(i, b) \in Ram
  BY Zenon DEF Owned, BitsRight
<1>5. Bit \subseteq Nat BY DEF Bit
<1>6. bit \in Bit \ s.word
  <2>1. Bit \ s.word # {} /\ Bit \ s.word \subseteq Nat BY <1>2, <1>3, <1>5, Zenon
  <2> QED BY <2>1, MinInSet, Zenon
<1> HIDE DEF bit, index
<1>7. n \in Ram BY <1>2, <1>3, <1>4, <1>6, Zenon
<1>8. n \notin UsedPages
  <2>1. SUFFICES ASSUME NEW i \in DOMAIN bitmap, NEW b \in bitmap[i], n = PageAt(i, b) PROVE FALSE
    BY UsedPage, Zenon
  <2>2. i \in Nat /\ b \in Bit BY <1>2, <1>4
  <2>3. i = index /\ b = bit BY <1>2, <1>6, <2>1, <2>2, PageUnique, Zenon
  <2> QED BY <1>3, <1>6, <2>1, <2>3, Zenon
<1>9. /\ DOMAIN bitmap' = DOMAIN bitmap
      /\ \A i \in DOMAIN bitmap : bitmap'[i] = IF i = index THEN bitmap[i] \cup {bit} ELSE bitmap[i]
  BY <1>1, <1>3, <1>4, Zenon
<1>10. bitmap' \in [DOMAIN bitmap -> SUBSET Bit] BY <1>1, <1>2, <1>3, <1>4, <1>6, Zenon
<1>11. UsedPages' = UsedPages \cup {n}
  <2>1. ASSUME NEW f \in UsedPages' PROVE f \in UsedPages \cup {n}
    <3>0. PICK i \in DOMAIN bitmap' : \E b \in bitmap'[i] : f = PageAt(i, b) BY <2>1, UsedPageNext, Zenon
    <3>1. PICK b \in bitmap'[i] : f = PageAt(i, b) BY <3>0, Zenon
    <3>2. CASE b \in bitmap[i] BY <1>9, <3>1, <3>2, UsedPage, Zenon
    <3>3. CASE b \notin bitmap[i]
      <4>1. i = index /\ b = bit BY <1>9, <3>1, <3>3, Zenon
      <4> QED BY <3>1, <4>1, Zenon
    <3> QED BY <3>2, <3>3, Zenon
  <2>2. ASSUME NEW f \in UsedPages PROVE f \in UsedPages'
    <3>0. PICK i \in DOMAIN bitmap : \E b \in bitmap[i] : f = PageAt(i, b) BY <2>2, UsedPage, Zenon
    <3>1. PICK b \in bitmap[i] : f = PageAt(i, b) BY <3>0, Zenon
    <3>2. i \in DOMAIN bitmap' /\ b \in bitmap'[i] BY <1>9, <3>1, Zenon
    <3> QED BY <3>1, <3>2, UsedPageNext, Zenon
  <2>3. n \in UsedPages'
    <3>1. index \in DOMAIN bitmap' /\ bit \in bitmap'[index] BY <1>2, <1>9, Zenon
    <3> QED BY <3>1, UsedPageNext, Zenon
  <2> QED BY <2>1, <2>2, <2>3, Zenon
<1>12. hint' \in 0 .. Entries - 1
  <2>1. n \in Nat BY <1>2, <1>6, PageSplit, Zenon
  <2>2. n + 1 \in Nat BY <2>1
  <2> HIDE DEF n
  <2> QED BY <1>1, <1>2, <2>2, IndexInRange, Zenon
<1>13. \A i \in DOMAIN bitmap : bitmap[i] \subseteq bitmap'[i] BY <1>9, Zenon
<1> QED BY <1>1, <1>7, <1>8, <1>9, <1>10, <1>11, <1>12, <1>13, Zenon

\* pmm_alloc_page returns: its caller has a frame that nobody has.
LEMMA StoreOwned ==
  ASSUME SetFacts, Shape, Owned, Up, NEW c \in CPU, PmmStore(c), UNCHANGED <<table, walk, held, pc>>,
         \A d \in CPU : d # c => ~InPmm(d)
  PROVE  Owned'
<1>1. PICK n \in Ram :
           /\ n \notin UsedPages /\ page' = [page EXCEPT ![c] = n]
           /\ UsedPages' = UsedPages \cup {n}
           /\ DOMAIN bitmap' = DOMAIN bitmap /\ bitmap' \in [DOMAIN bitmap -> SUBSET Bit]
           /\ \A i \in DOMAIN bitmap : bitmap[i] \subseteq bitmap'[i]
           /\ hint' \in 0 .. Entries - 1
  BY StoreFacts, Zenon
<1>2. /\ UNCHANGED memmap /\ pmm' = [pmm EXCEPT ![c] = Outside]
      /\ page \in [CPU -> Int] /\ pmm \in [CPU -> PmmRecord]
  BY Zenon DEF PmmStore, Shape
<1>3. Ram' = Ram BY <1>2, Zenon DEF Ram
<1>4. /\ n \notin DOMAIN table /\ n \notin held /\ ~Linked(n)
      /\ \A g : Pending(g) => g # n
  BY <1>1, FreeFrame, Zenon
<1>5. \A f : Taken(f) => Taken(f)' BY <1>1, <1>3, Zenon DEF Taken
<1>6. Taken(n)' BY <1>1, <1>3, <1>4, Zenon DEF Taken
<1>7. LinksRight' /\ TablesRight' /\ \A f : Pending(f) => Pending(f)'
  BY <1>2, <1>5, TakenKept, Zenon
<1>8. \A d \in CPU : ~InPmm(d)'
  <2>1. \A d \in CPU : pmm'[d].at = "out" BY <1>2, Zenon DEF InPmm, Outside
  <2> QED BY <2>1, Zenon DEF InPmm
<1>9. BitsRight'
  <2>1. Entries' = Entries BY <1>1, Zenon DEF Entries
  <2>2. ASSUME NEW i \in DOMAIN bitmap', NEW b \in Bit \ bitmap'[i] PROVE PageAt(i, b) \in Ram'
    <3>1. i \in DOMAIN bitmap /\ b \in Bit \ bitmap[i] BY <1>1, <2>2, Zenon
    <3> QED BY <1>3, <3>1, Zenon DEF Owned, BitsRight
  <2>3. Entries \in Nat \ {0} /\ DOMAIN bitmap = 0 .. Entries - 1 BY Zenon DEF Owned, BitsRight
  <2> QED BY <1>1, <1>8, <2>1, <2>2, <2>3, Zenon DEF BitsRight, Bit, PageAt
<1>10. Linked(n)' = Linked(n)
  BY Zenon DEF Linked, Links, LinkedFrame
<1>11. Pending(n)' BY <1>4, <1>6, <1>10, Zenon DEF Pending
<1>12. ASSUME NEW d \in CPU
       PROVE  /\ HoldsPage(d)' => Pending(page[d])' /\ Taken(page[d])'
              /\ InWalk(d)' => Pending(walk[d].frame)'
              /\ InWalk(d)' /\ HoldsPage(d)' => page'[d] # walk'[d].frame
  <2>1. InWalk(d)' => InWalk(d) /\ Pending(walk[d].frame) BY Zenon DEF InWalk, Owned, Hands
  <2>2. InWalk(d)' => Pending(walk[d].frame)' BY <1>7, <2>1, Zenon DEF Pending, Taken, Linked, OnScreen
  <2>3. CASE d = c
    <3>1. page'[d] = n BY <1>1, <1>2, <2>3, Zenon
    <3>2. Pending(page[d])' /\ Taken(page[d])'
      BY <1>6, <1>11, <3>1, Zenon DEF Pending, Taken, Linked, OnScreen
    <3>3. InWalk(d)' => walk'[d].frame # n BY <1>4, <2>1, Zenon
    <3> QED BY <2>2, <3>1, <3>2, <3>3, Zenon
  <2>4. CASE d # c
    <3>1. page'[d] = page[d] /\ pmm'[d] = pmm[d] BY <1>1, <1>2, <2>4, Zenon
    <3>2. HoldsPage(d)' => HoldsPage(d) BY <3>1, Zenon DEF HoldsPage, InPmm
    <3>3. HoldsPage(d)' => Pending(page[d]) /\ Taken(page[d]) BY <3>2, Zenon DEF Owned, Hands
    <3>4. HoldsPage(d)' => Pending(page[d])' /\ Taken(page[d])'
      BY <1>5, <1>7, <3>1, <3>3, Zenon DEF Pending, Taken, Linked, OnScreen
    <3>5. InWalk(d)' /\ HoldsPage(d)' => page'[d] # walk'[d].frame
      BY <2>1, <3>1, <3>2, Zenon DEF Owned, Hands
    <3> QED BY <2>2, <3>4, <3>5, Zenon
  <2> QED BY <2>3, <2>4, Zenon
<1>13. Hands' BY <1>12, Zenon DEF Hands
<1>14. HeldRight' BY <1>1, <1>3, Zenon DEF Owned, HeldRight
<1> QED BY <1>7, <1>9, <1>13, <1>14, Zenon DEF Owned

\* A held frame is given back: it is marked nowhere and nobody has it.
LEMMA FreeOwned ==
  ASSUME Shape, Owned, Up, NEW c \in CPU, NEW p \in held, PmmFree(c, p), held' = held \ {p},
         UNCHANGED <<table, walk, pc>>, \A d \in CPU : ~InPmm(d) /\ ~InWalk(d) /\ ~HoldsPage(d)
  PROVE  Owned'
<1>1. p \in Ram /\ p \in UsedPages BY Zenon DEF Owned, HeldRight
<1>2. PICK i \in DOMAIN bitmap : \E b \in bitmap[i] : p = PageAt(i, b) BY <1>1, UsedPage, Zenon
<1>3. PICK b \in bitmap[i] : p = PageAt(i, b) BY <1>2, Zenon
<1>4. /\ Entries \in Nat \ {0} /\ DOMAIN bitmap = 0 .. Entries - 1
      /\ bitmap \in [DOMAIN bitmap -> SUBSET Bit] /\ hint \in 0 .. Entries - 1
      /\ \A k \in DOMAIN bitmap : \A a \in Bit \ bitmap[k] : PageAt(k, a) \in Ram
  BY Zenon DEF Owned, BitsRight
<1>5. i \in Nat /\ b \in Bit BY <1>2, <1>3, <1>4
<1>6. p \div WordBits = i /\ p % WordBits = b BY <1>3, <1>5, PageSplit, Zenon
<1>7. /\ bitmap' = [bitmap EXCEPT ![i] = @ \ {b}]
      /\ hint' = IF i < hint THEN i ELSE hint
      /\ UNCHANGED <<memmap, pmm, page>>
  BY <1>6, Zenon DEF PmmFree
<1>8. /\ DOMAIN bitmap' = DOMAIN bitmap
      /\ \A k \in DOMAIN bitmap : bitmap'[k] = IF k = i THEN bitmap[k] \ {b} ELSE bitmap[k]
  BY <1>4, <1>7, Zenon
<1>9. bitmap' \in [DOMAIN bitmap -> SUBSET Bit] BY <1>2, <1>4, <1>7, Zenon
<1>10. Ram' = Ram /\ Entries' = Entries BY <1>7, <1>8, Zenon DEF Ram, Entries
<1>11. ASSUME NEW f \in UsedPages, f # p PROVE f \in UsedPages'
  <2>1. PICK k \in DOMAIN bitmap : \E a \in bitmap[k] : f = PageAt(k, a) BY <1>11, UsedPage, Zenon
  <2>2. PICK a \in bitmap[k] : f = PageAt(k, a) BY <2>1, Zenon
  <2>3. ~(k = i /\ a = b) BY <1>3, <1>11, <2>2, Zenon
  <2>4. k \in DOMAIN bitmap' /\ a \in bitmap'[k] BY <1>8, <2>2, <2>3, Zenon
  <2> QED BY <2>2, <2>4, UsedPageNext, Zenon
<1>12. \A f : Taken(f) => Taken(f)' BY <1>10, <1>11, Zenon DEF Taken
<1>13. LinksRight' /\ TablesRight' BY <1>7, <1>12, TakenKept, Zenon
<1>14. \A d \in CPU : ~InPmm(d)' /\ ~InWalk(d)' /\ ~HoldsPage(d)'
  BY <1>7, Zenon DEF InPmm, InWalk, HoldsPage
<1>15. Hands' BY <1>14, Zenon DEF Hands
<1>16. HeldRight' BY <1>10, <1>11, Zenon DEF Owned, HeldRight
<1>17. ASSUME NEW k \in DOMAIN bitmap', NEW a \in Bit \ bitmap'[k] PROVE PageAt(k, a) \in Ram'
  <2>1. CASE k = i /\ a = b BY <1>1, <1>3, <1>10, <2>1, Zenon
  <2>2. CASE ~(k = i /\ a = b)
    <3>1. k \in DOMAIN bitmap /\ a \in Bit \ bitmap[k] BY <1>8, <1>17, <2>2, Zenon
    <3> QED BY <1>4, <1>10, <3>1, Zenon
  <2> QED BY <2>1, <2>2, Zenon
<1>18. hint' \in 0 .. Entries - 1 BY <1>4, <1>7, Zenon
<1>19. BitsRight'
  BY <1>4, <1>8, <1>9, <1>10, <1>14, <1>17, <1>18, Zenon DEF BitsRight, Bit, PageAt
<1> QED BY <1>13, <1>15, <1>16, <1>19, Zenon DEF Owned

\* A caller keeps the frame it was given.
LEMMA TakenOwned ==
  ASSUME Shape, Owned, NEW c \in CPU, pc[c] = "frame", ~InPmm(c), ~InWalk(c),
         held' = held \cup ({page[c]} \ {PMM_NO_PAGE}),
         UNCHANGED <<memmap, bitmap, hint, pmm, page, table, walk>>,
         \A d \in CPU : d # c => ~InWalk(d) /\ ~HoldsPage(d), \A d \in CPU : ~HoldsPage(d)'
  PROVE  Owned'
<1>1. CASE page[c] = PMM_NO_PAGE
  <2>1. held' = held BY <1>1, Zenon
  <2> QED BY <2>1, QuietOwned, Zenon
<1>2. CASE page[c] # PMM_NO_PAGE
  <2>1. Pending(page[c]) /\ Taken(page[c])
    <3>1. HoldsPage(c) BY <1>2, Zenon DEF HoldsPage, InWalk, AwaitsPage
    <3> QED BY <3>1, Zenon DEF Owned, Hands
  <2>2. held' = held \cup {page[c]} BY <1>2, Zenon
  <2>3. UsedPages' = UsedPages /\ Ram' = Ram /\ Entries' = Entries /\ Up' = Up
    BY DEF UsedPages, Ram, Entries, Up
  <2>4. \A f : Taken(f) /\ f # page[c] => Taken(f)' BY <2>2, <2>3, Zenon DEF Taken
  <2>5. Links' = Links /\ \A l : LinkedFrame(l)' = LinkedFrame(l) BY Zenon DEF Links, LinkedFrame
  <2>6. page[c] \notin DOMAIN table /\ \A l \in Links : LinkedFrame(l) # page[c]
    BY <2>1, Zenon DEF Pending, Linked
  <2>7. LinksRight'
    BY <2>2, <2>3, <2>5, <2>6, Zenon DEF Owned, LinksRight, Taken, OnScreen
  <2>8. TablesRight' BY <2>4, <2>6, Zenon DEF Owned, TablesRight, Taken
  <2>9. HeldRight' BY <2>1, <2>2, <2>3, Zenon DEF Owned, HeldRight, Taken
  <2>10. Hands' BY Zenon DEF Hands, InWalk
  <2>11. BitsRight'
    BY <2>3, Zenon DEF Owned, BitsRight, ScanRight, Index, InPmm, PageAt, Bit
  <2> QED BY <2>7, <2>8, <2>9, <2>10, <2>11, Zenon DEF Owned
<1> QED BY <1>1, <1>2, Zenon

\* pmm_init: what the boot loader reports usable is free, but for the bitmap itself.
LEMMA BootOwned ==
  ASSUME SetFacts, Shape, Owned, StartRight, ~Up, PmmInit, UNCHANGED <<table, walk, held>>,
         \A d \in CPU : ~HoldsPage(d)'
  PROVE  Owned' /\ Up'
<1>1. /\ PmmInitSucceeds(memmap) /\ bitmap' = BootBitmap(memmap) /\ hint' = 0 /\ memmap \in MemMaps
      /\ UNCHANGED <<memmap, pmm, page>>
  BY Zenon DEF PmmInit, Shape
<1>2. /\ \A d \in CPU : ~InPmm(d)' /\ ~InWalk(d)'
      /\ Links = {} /\ DOMAIN table = {PML4} /\ held = {}
  BY <1>1, Zenon DEF StartRight, InPmm, InWalk
<1>3. Hands' BY <1>2, Zenon DEF Hands
<1>4. LinksRight' /\ TablesRight' /\ HeldRight'
  <2>1. Links' = {} BY <1>2, Zenon DEF Links
  <2> QED BY <1>2, <2>1, Zenon DEF LinksRight, TablesRight, HeldRight
<1>5. /\ BitmapEntries(memmap) \in Nat \ {0}
      /\ DOMAIN bitmap' = 0 .. BitmapEntries(memmap) - 1
      /\ Cardinality(DOMAIN bitmap') = BitmapEntries(memmap)
      /\ bitmap' \in [DOMAIN bitmap' -> SUBSET Bit]
      /\ \A i \in DOMAIN bitmap' : \A b \in Bit \ bitmap'[i] :
           PageAt(i, b) \in UsablePages(memmap) \ BitmapOwn(memmap)
  BY <1>1, BootBitmapFacts, Zenon
<1>6. Entries' = BitmapEntries(memmap) BY <1>5, Zenon DEF Entries
<1>7. Ram' = UsablePages(memmap) \ BitmapOwn(memmap) BY <1>1, Zenon DEF Ram
<1>8. hint' \in 0 .. BitmapEntries(memmap) - 1
  <2> HIDE DEF BitmapEntries
  <2> QED BY <1>1, <1>5
<1>9. BitsRight'
  BY <1>2, <1>5, <1>6, <1>7, <1>8, Zenon DEF BitsRight, Bit, PageAt
<1>10. Up' BY <1>5, <1>8, Zenon DEF Up
<1> QED BY <1>3, <1>4, <1>9, <1>10, Zenon DEF Owned
-----------------------------------------------------------------------------
(* vmm_map_page_flags and vmm_unmap_page *)

LEMMA SlotInRange ==
  ASSUME NEW va \in Int, NEW level \in 1 .. Levels
  PROVE  Slot(va, level) \in 0 .. Radix - 1
<1>1. Levels - level \in 0 .. Levels /\ Radix \in Nat \ {0} BY TableAssumption DEF TableAssumption
<1>2. Radix ^ (Levels - level) \in Nat \ {0} BY <1>1, TableAssumption, Zenon DEF TableAssumption
<1> DEFINE n == Radix ^ (Levels - level)
<1> HIDE DEF n
<1>3. va \div n \in Int BY <1>2 DEF n
<1>4. (va \div n) % Radix \in 0 .. Radix - 1 BY <1>1, <1>3
<1> QED BY <1>4, Zenon DEF Slot, n

\* A walk is at an entry of a table of its level.
LEMMA WalkPlace ==
  ASSUME Shape, NEW lv, LevelsRight(lv), NEW c \in CPU, InWalk(c)
  PROVE  /\ walk[c] \in WalkRecord /\ walk[c].level \in 1 .. Levels
         /\ walk[c].tab \in DOMAIN table /\ lv[walk[c].tab] = walk[c].level
         /\ Slot(walk[c].va, walk[c].level) \in 0 .. Radix - 1
         /\ Here(c) \in Entry
<1>1. walk[c] \in WalkRecord BY Zenon DEF Shape
<1>2. walk[c].level \in 1 .. Levels /\ walk[c].va \in Int BY <1>1, Zenon DEF WalkRecord
<1>3. walk[c].tab \in DOMAIN table /\ lv[walk[c].tab] = walk[c].level BY Zenon DEF LevelsRight
<1>4. Slot(walk[c].va, walk[c].level) \in 0 .. Radix - 1 BY <1>2, SlotInRange, Zenon
<1>5. table \in [DOMAIN table -> [0 .. Radix - 1 -> Entry]] BY Zenon DEF Shape
<1>6. Here(c) \in Entry
  <2>1. table[walk[c].tab] \in [0 .. Radix - 1 -> Entry] BY <1>3, <1>5, Zenon
  <2> QED BY <1>4, <2>1, Zenon DEF Here
<1> QED BY <1>1, <1>2, <1>3, <1>4, <1>6, Zenon

\* The links after entry s of table t is set to e.
LEMMA EntryLinks ==
  ASSUME Shape, NEW t, NEW s, NEW e \in Entry,
         table' = Put(table, t, s, e)
  PROVE  /\ DOMAIN table' = DOMAIN table /\ table' \in [DOMAIN table -> [0 .. Radix - 1 -> Entry]]
         /\ \A l \in Links' : \/ /\ l \in Links /\ l # <<t, s>> /\ LinkedFrame(l)' = LinkedFrame(l)
                              \/ l = <<t, s>> /\ e # Absent /\ LinkedFrame(l)' = e.frame
<1>1. table \in [DOMAIN table -> [0 .. Radix - 1 -> Entry]] BY Zenon DEF Shape
<1>2. /\ table' \in [DOMAIN table -> [0 .. Radix - 1 -> Entry]]
      /\ \A f \in DOMAIN table, i \in 0 .. Radix - 1 :
           table'[f][i] = IF f = t /\ i = s THEN e ELSE table[f][i]
  <2>1. IsPut(table', DOMAIN table, table, t, s, e) BY <1>1, EntrySet, Zenon
  <2> QED BY <2>1, Zenon DEF IsPut
<1>3. DOMAIN table' = DOMAIN table BY <1>2, Zenon
<1>4. ASSUME NEW l \in Links'
      PROVE  \/ l \in Links /\ l # <<t, s>> /\ LinkedFrame(l)' = LinkedFrame(l)
             \/ l = <<t, s>> /\ e # Absent /\ LinkedFrame(l)' = e.frame
  <2>1. l \in (DOMAIN table) \X (0 .. Radix - 1) /\ table'[l[1]][l[2]] # Absent
    <3>1. Links' = {k \in (DOMAIN table') \X (0 .. Radix - 1) : table'[k[1]][k[2]] # Absent}
      BY Zenon DEF Links, Absent
    <3> QED BY <1>3, <3>1, Zenon
  <2>2. l[1] \in DOMAIN table /\ l[2] \in 0 .. Radix - 1 /\ l = <<l[1], l[2]>> BY <2>1
  <2>3. table'[l[1]][l[2]] = IF l[1] = t /\ l[2] = s THEN e ELSE table[l[1]][l[2]]
    BY <1>2, <2>2, Zenon
  <2>4. LinkedFrame(l)' = table'[l[1]][l[2]].frame /\ LinkedFrame(l) = table[l[1]][l[2]].frame
    BY Zenon DEF LinkedFrame
  <2>5. CASE l[1] = t /\ l[2] = s
    <3>1. l = <<t, s>> BY <2>2, <2>5, Zenon
    <3> QED BY <2>1, <2>3, <2>4, <2>5, <3>1, Zenon
  <2>6. CASE ~(l[1] = t /\ l[2] = s)
    <3>1. l # <<t, s>> BY <2>6
    <3>2. l \in Links BY <2>1, <2>3, <2>6, Zenon DEF Links
    <3> QED BY <2>3, <2>4, <2>6, <3>1, <3>2, Zenon
  <2> QED BY <2>5, <2>6, Zenon
<1> QED BY <1>2, <1>3, <1>4, Zenon

\* The tables change and the bitmap does not.
LEMMA TablesOwned ==
  ASSUME Owned, UNCHANGED <<memmap, bitmap, hint, pmm, page, held>>,
         LinksRight', TablesRight', Hands'
  PROVE  Owned'
<1>1. BitsRight'
  BY SameFrames, Zenon DEF Owned, BitsRight, ScanRight, Index, InPmm, PageAt, Bit
<1>2. HeldRight' BY SameFrames, Zenon DEF Owned, HeldRight
<1> QED BY <1>1, <1>2, Zenon DEF Owned

\* vmm_map_page_flags is called with a frame that nobody else has.
LEMMA MapEnterOwned ==
  ASSUME Shape, Owned, Levelled, NEW c \in CPU, NEW va, NEW g, NEW user, MapEnter(c, va, g, user),
         UNCHANGED <<memmap, bitmap, hint, pmm, page, held>>, Pending(g),
         \A d \in CPU \ {c} : ~InWalk(d) /\ ~HoldsPage(d)'
  PROVE  Owned' /\ Levelled'
<1>1. /\ walk' = [walk EXCEPT ![c] = [at |-> "down", va |-> va, frame |-> g, user |-> user,
                                      level |-> 1, tab |-> PML4]]
      /\ table' = table /\ walk \in [CPU -> WalkRecord]
  BY Zenon DEF MapEnter, Shape
<1>2. walk'[c].at = "down" /\ walk'[c].frame = g /\ walk'[c].tab = PML4 /\ walk'[c].level = 1
  BY <1>1, Zenon
<1>3. \A d \in CPU \ {c} : walk'[d] = walk[d] BY <1>1, Zenon
<1>4. \A d \in CPU : InWalk(d)' <=> d = c BY <1>2, <1>3, Zenon DEF InWalk
<1>5. \A d \in CPU : ~HoldsPage(d)' BY <1>2, Zenon DEF HoldsPage
<1>6. Pending(g)' BY <1>1, SameTables, SameFrames, Zenon DEF Pending, Linked, Taken, OnScreen
<1>7. Hands' BY <1>2, <1>4, <1>5, <1>6, Zenon DEF Hands, Pending, Linked, Taken, OnScreen
<1>8. LinksRight' /\ TablesRight' BY <1>1, SameTables, Zenon DEF Owned
<1>9. Owned' BY <1>7, <1>8, TablesOwned, Zenon
<1>10. PICK lv \in [DOMAIN table -> 1 .. Levels] : LevelsRight(lv) BY Zenon DEF Levelled
<1>11. LevelsRight(lv)'
  <2>1. Links' = Links /\ \A l : LinkedFrame(l)' = LinkedFrame(l)
    BY <1>1, Zenon DEF Links, LinkedFrame
  <2>2. PML4 \in DOMAIN table /\ lv[PML4] = 1 BY <1>10, Zenon DEF Shape, LevelsRight
  <2> QED BY <1>1, <1>2, <1>4, <1>10, <2>1, <2>2, Zenon DEF LevelsRight
<1>12. Levelled' BY <1>1, <1>10, <1>11, Zenon DEF Levelled
<1> QED BY <1>9, <1>12, Zenon

\* A level whose table exists: its entry keeps the frame.
LEMMA DownOwned ==
  ASSUME Shape, Owned, Levelled, NEW c \in CPU, MapDown(c), UNCHANGED <<held, pc>>
  PROVE  Owned' /\ Levelled' /\ DOMAIN table' = DOMAIN table
         /\ table' \in [DOMAIN table -> [0 .. Radix - 1 -> Entry]]
         /\ walk'[c].tab \in DOMAIN table
         /\ \A f : Linked(f)' => Linked(f)
<1> DEFINE t == walk[c].tab
           s == Slot(walk[c].va, walk[c].level)
           e == UpperFlags(Here(c), walk[c].user)
<1>1. /\ walk[c].at = "down" /\ walk[c].level < Levels /\ Here(c) # Absent
      /\ table' = Put(table, t, s, e)
      /\ walk' = [walk EXCEPT ![c].at = "down", ![c].tab = Here(c).frame, ![c].level = @ + 1]
      /\ UNCHANGED <<memmap, bitmap, hint, pmm, page>>
  BY Zenon DEF MapDown, SetHere, Put, Descend, frameVars
<1>2. PICK lv \in [DOMAIN table -> 1 .. Levels] : LevelsRight(lv) BY Zenon DEF Levelled
<1>3. InWalk(c) BY <1>1, Zenon DEF InWalk
<1>4. /\ walk[c] \in WalkRecord /\ t \in DOMAIN table /\ lv[t] = walk[c].level
      /\ s \in 0 .. Radix - 1 /\ Here(c) \in Entry /\ walk[c].level \in 1 .. Levels
  BY <1>2, <1>3, WalkPlace, Zenon
<1>5. Here(c) = table[t][s] BY Zenon DEF Here
<1>6. e \in Entry /\ e.frame = Here(c).frame
  <2>1. walk[c].user \in BOOLEAN BY <1>4, Zenon DEF WalkRecord
  <2> QED BY <1>4, <2>1, Zenon DEF UpperFlags, Entry
<1>7. <<t, s>> \in Links /\ LinkedFrame(<<t, s>>) = Here(c).frame
  <2> HIDE DEF t, s
  <2>1. table[t][s] # Absent BY <1>1, <1>5, Zenon
  <2> QED BY <1>4, <1>5, <2>1, Zenon DEF Links, LinkedFrame
<1> HIDE DEF t, s, e
<1>8. /\ DOMAIN table' = DOMAIN table /\ table' \in [DOMAIN table -> [0 .. Radix - 1 -> Entry]]
      /\ \A l \in Links' : \/ /\ l \in Links /\ l # <<t, s>> /\ LinkedFrame(l)' = LinkedFrame(l)
                           \/ l = <<t, s>> /\ e # Absent /\ LinkedFrame(l)' = e.frame
  BY <1>1, <1>4, <1>6, EntryLinks, Zenon
<1>9. \A l \in Links' : l \in Links /\ LinkedFrame(l)' = LinkedFrame(l)
  BY <1>6, <1>7, <1>8, Zenon
<1>10. \A f : Taken(f)' = Taken(f) BY <1>1, SameFrames, Zenon
<1>11. LinksRight'
  <2>1. Relinked(0, 0)
    BY <1>9, Zenon DEF Relinked
  <2>2. LinksRight /\ StaysTaken BY <1>10, Zenon DEF Owned, StaysTaken
  <2> QED BY <2>1, <2>2, LinksStayApart, Zenon
<1>12. \A f : Linked(f)' => Linked(f) BY <1>9, Zenon DEF Linked
<1>13. TablesRight' BY <1>8, <1>10, Zenon DEF Owned, TablesRight, Taken
<1>14. \A f : Pending(f) => Pending(f)' BY <1>8, <1>10, <1>12, Zenon DEF Pending, OnScreen
<1>15. walk \in [CPU -> WalkRecord] BY Zenon DEF Shape
<1>16. /\ walk'[c].at = "down" /\ walk'[c].frame = walk[c].frame /\ walk'[c].tab = Here(c).frame
       /\ walk'[c].level = walk[c].level + 1
       /\ \A d \in CPU : d # c => walk'[d] = walk[d]
  <2>1. walk'[c] = [walk[c] EXCEPT !.at = "down", !.tab = Here(c).frame, !.level = @ + 1]
    BY <1>1, <1>15, Zenon
  <2>2. \A d \in CPU : d # c => walk'[d] = walk[d] BY <1>1, <1>15, Zenon
  <2> QED BY <1>4, <2>1, <2>2, Zenon DEF WalkRecord
<1>17. ASSUME NEW d \in CPU
       PROVE  /\ HoldsPage(d)' => HoldsPage(d)
              /\ InWalk(d)' => InWalk(d)
              /\ walk'[d].frame = walk[d].frame
  BY <1>1, <1>3, <1>16, Zenon DEF HoldsPage, InWalk, InPmm
<1>18. Hands'
  BY <1>1, <1>10, <1>14, <1>17, Zenon DEF Owned, Hands, Pending, Linked, Taken, OnScreen
<1>19. Owned' BY <1>1, <1>11, <1>13, <1>18, TablesOwned, Zenon
<1>20. Here(c).frame \in DOMAIN table /\ lv[Here(c).frame] = walk[c].level + 1
  <2>1. <<t, s>>[1] = t BY Zenon
  <2> QED BY <1>1, <1>2, <1>4, <1>7, <2>1, Zenon DEF LevelsRight
<1>21. LevelsRight(lv)'
  <2>1. \A l \in Links' : lv[l[1]] < Levels =>
          LinkedFrame(l)' \in DOMAIN table /\ lv[LinkedFrame(l)'] = lv[l[1]] + 1
    BY <1>2, <1>9, Zenon DEF LevelsRight
  <2>2. \A d \in CPU : InWalk(d)' => walk'[d].tab \in DOMAIN table /\ lv[walk'[d].tab] = walk'[d].level
    BY <1>2, <1>16, <1>17, <1>20, Zenon DEF LevelsRight
  <2> QED BY <1>2, <1>8, <2>1, <2>2, Zenon DEF LevelsRight
<1>22. Levelled' BY <1>2, <1>8, <1>21, Zenon DEF Levelled
<1> QED BY <1>8, <1>12, <1>16, <1>19, <1>20, <1>22, Zenon

\* The leaf is written: the frame is linked, and the call no longer has it.
LEMMA LeafOwned ==
  ASSUME Shape, Owned, Levelled, NEW c \in CPU, MapLeaf(c), UNCHANGED <<held, pc>>,
         NEW g, g = walk[c].frame, pc[c] \notin AwaitsPage, \A d \in CPU \ {c} : ~InWalk(d) /\ ~HoldsPage(d)
  PROVE  Owned' /\ Levelled' /\ DOMAIN table' = DOMAIN table
         /\ table' \in [DOMAIN table -> [0 .. Radix - 1 -> Entry]]
         /\ \A f : Linked(f)' => Linked(f) \/ f = g
<1> DEFINE t == walk[c].tab
           s == Slot(walk[c].va, walk[c].level)
           e == [frame |-> g, user |-> walk[c].user]
<1>1. /\ walk[c].at = "down" /\ walk[c].level = Levels
      /\ table' = Put(table, t, s, e)
      /\ walk' = [walk EXCEPT ![c].at = "out"]
      /\ UNCHANGED <<memmap, bitmap, hint, pmm, page>>
  BY Zenon DEF MapLeaf, SetHere, Put, frameVars
<1>2. PICK lv \in [DOMAIN table -> 1 .. Levels] : LevelsRight(lv) BY Zenon DEF Levelled
<1>3. InWalk(c) BY <1>1, Zenon DEF InWalk
<1>4. /\ walk[c] \in WalkRecord /\ t \in DOMAIN table /\ lv[t] = walk[c].level
      /\ s \in 0 .. Radix - 1
  BY <1>2, <1>3, WalkPlace, Zenon
<1>5. e \in Entry /\ e.frame = g BY <1>4, Zenon DEF WalkRecord, Entry
<1> HIDE DEF t, s, e
<1>6. /\ DOMAIN table' = DOMAIN table /\ table' \in [DOMAIN table -> [0 .. Radix - 1 -> Entry]]
      /\ \A l \in Links' : \/ /\ l \in Links /\ l # <<t, s>> /\ LinkedFrame(l)' = LinkedFrame(l)
                           \/ l = <<t, s>> /\ e # Absent /\ LinkedFrame(l)' = e.frame
  BY <1>1, <1>4, <1>5, EntryLinks, Zenon
<1>7. \A f : Taken(f)' = Taken(f) BY <1>1, SameFrames, Zenon
<1>8. Pending(g) BY <1>3, Zenon DEF Owned, Hands
<1>9. ~Linked(g) /\ (g \in OnScreen \/ Taken(g)') BY <1>7, <1>8, Zenon DEF Pending
<1>10. LinksRight' /\ \A f : Linked(f)' => Linked(f) \/ f = g
  <2>1. Relinked(<<t, s>>, g)
    BY <1>5, <1>6, <1>9, Zenon DEF Relinked
  <2>2. LinksRight /\ StaysTaken BY <1>7, Zenon DEF Owned, StaysTaken
  <2> QED BY <2>1, <2>2, LinksStayApart, Zenon
<1>11. TablesRight' BY <1>6, <1>7, Zenon DEF Owned, TablesRight, Taken
<1>12. walk \in [CPU -> WalkRecord] BY Zenon DEF Shape
<1>13. walk'[c].at = "out" /\ \A d \in CPU : d # c => walk'[d] = walk[d]
  <2>1. walk'[c] = [walk[c] EXCEPT !.at = "out"] BY <1>1, <1>12, Zenon
  <2>2. \A d \in CPU : d # c => walk'[d] = walk[d] BY <1>1, <1>12, Zenon
  <2> QED BY <1>4, <2>1, <2>2, Zenon DEF WalkRecord
<1>14. \A d \in CPU : ~InWalk(d)' /\ ~HoldsPage(d)'
  BY <1>1, <1>13, Zenon DEF HoldsPage, InWalk, InPmm
<1>15. Hands' BY <1>14, Zenon DEF Hands
<1>16. Owned' BY <1>1, <1>10, <1>11, <1>15, TablesOwned, Zenon
<1>17. LevelsRight(lv)'
  <2>1. ASSUME NEW l \in Links', lv[l[1]] < Levels
        PROVE  LinkedFrame(l)' \in DOMAIN table /\ lv[LinkedFrame(l)'] = lv[l[1]] + 1
    <3>1. l # <<t, s>>
      <4>1. ASSUME l = <<t, s>> PROVE FALSE
        <5>1. lv[t] < Levels BY <2>1, <4>1, Zenon
        <5>2. Levels \in Nat BY TableAssumption, Zenon DEF TableAssumption
        <5> QED BY <1>1, <1>4, <5>1, <5>2
      <4> QED BY <4>1, Zenon
    <3>2. l \in Links /\ LinkedFrame(l)' = LinkedFrame(l) BY <1>6, <3>1, Zenon
    <3> QED BY <1>2, <2>1, <3>2, Zenon DEF LevelsRight
  <2> QED BY <1>2, <1>6, <1>14, <2>1, Zenon DEF LevelsRight
<1>18. Levelled' BY <1>2, <1>6, <1>17, Zenon DEF Levelled
<1> QED BY <1>6, <1>10, <1>16, <1>18, Zenon

\* The tables after entry s of table t is set to e and table g is added, empty.
LEMMA TableAdded ==
  ASSUME Shape, NEW t \in DOMAIN table, NEW s \in 0 .. Radix - 1, NEW e \in Entry,
         NEW g, g \notin DOMAIN table, NEW linked, linked = Put(table, t, s, e),
         table' = Grown(linked, g)
  PROVE  /\ DOMAIN table' = DOMAIN table \cup {g}
         /\ table' \in [DOMAIN table \cup {g} -> [0 .. Radix - 1 -> Entry]]
         /\ \A l \in Links' : \/ l \in Links /\ LinkedFrame(l)' = LinkedFrame(l)
                              \/ l = <<t, s>> /\ LinkedFrame(l)' = e.frame
<1>1. table \in [DOMAIN table -> [0 .. Radix - 1 -> Entry]] BY Zenon DEF Shape
<1>2. /\ linked \in [DOMAIN table -> [0 .. Radix - 1 -> Entry]]
      /\ \A f \in DOMAIN table, i \in 0 .. Radix - 1 :
           linked[f][i] = IF f = t /\ i = s THEN e ELSE table[f][i]
  <2>1. IsPut(linked, DOMAIN table, table, t, s, e) BY <1>1, EntrySet, Zenon
  <2> QED BY <2>1, Zenon DEF IsPut
<1>3. table' = [f \in DOMAIN linked \cup {g} |-> IF f = g THEN EmptyTable ELSE linked[f]]
  BY Zenon DEF Grown
<1>4. DOMAIN linked = DOMAIN table BY <1>2, Zenon
<1>5. /\ DOMAIN table' = DOMAIN table \cup {g}
      /\ table'[g] = EmptyTable
      /\ \A f \in DOMAIN table : table'[f] = linked[f]
  BY <1>3, <1>4, Zenon
<1>6. EmptyTable \in [0 .. Radix - 1 -> Entry] BY DEF EmptyTable, Absent, Entry, VMM_NO_PHYS
<1>7. table' \in [DOMAIN table \cup {g} -> [0 .. Radix - 1 -> Entry]]
  <2> DEFINE T == [0 .. Radix - 1 -> Entry]
  <2>1. \A f \in DOMAIN table : linked[f] \in T BY <1>2, Zenon
  <2>2. EmptyTable \in T BY <1>6, Zenon
  <2> HIDE DEF T
  <2>3. table' \in [DOMAIN table \cup {g} -> T] BY <1>3, <1>4, <2>1, <2>2, Zenon
  <2> QED BY <2>3, Zenon DEF T
<1>8. ASSUME NEW l \in Links'
      PROVE  \/ l \in Links /\ LinkedFrame(l)' = LinkedFrame(l)
             \/ l = <<t, s>> /\ LinkedFrame(l)' = e.frame
  <2>1. l \in (DOMAIN table') \X (0 .. Radix - 1) /\ table'[l[1]][l[2]] # Absent
    <3>1. Links' = {k \in (DOMAIN table') \X (0 .. Radix - 1) : table'[k[1]][k[2]] # Absent}
      BY Zenon DEF Links, Absent
    <3> QED BY <3>1, Zenon
  <2>2. l[1] \in DOMAIN table \cup {g} /\ l[2] \in 0 .. Radix - 1 /\ l = <<l[1], l[2]>>
    BY <1>5, <2>1
  <2>3. l[1] # g
    <3>1. EmptyTable[l[2]] = Absent BY <2>2, Zenon DEF EmptyTable
    <3> QED BY <1>5, <2>1, <3>1, Zenon
  <2>4. l[1] \in DOMAIN table BY <2>2, <2>3, Zenon
  <2>5. table'[l[1]][l[2]] = IF l[1] = t /\ l[2] = s THEN e ELSE table[l[1]][l[2]]
    <3>1. table'[l[1]] = linked[l[1]] BY <1>5, <2>4, Zenon
    <3>2. linked[l[1]][l[2]] = IF l[1] = t /\ l[2] = s THEN e ELSE table[l[1]][l[2]]
      BY <1>2, <2>2, <2>4, Zenon
    <3> QED BY <3>1, <3>2, Zenon
  <2>6. LinkedFrame(l)' = table'[l[1]][l[2]].frame /\ LinkedFrame(l) = table[l[1]][l[2]].frame
    BY Zenon DEF LinkedFrame
  <2>7. CASE l[1] = t /\ l[2] = s
    <3>1. l = <<t, s>> BY <2>2, <2>7, Zenon
    <3> QED BY <2>5, <2>6, <2>7, <3>1, Zenon
  <2>8. CASE ~(l[1] = t /\ l[2] = s)
    <3>1. l \in (DOMAIN table) \X (0 .. Radix - 1) BY <2>2, <2>4, Zenon
    <3>2. l \in Links BY <2>1, <2>5, <2>8, <3>1, Zenon DEF Links
    <3> QED BY <2>5, <2>6, <2>8, <3>2, Zenon
  <2> QED BY <2>7, <2>8, Zenon
<1> QED BY <1>5, <1>7, <1>8, Zenon

\* The missing table is linked and cleared.
LEMMA GrowOwned ==
  ASSUME Shape, Owned, Levelled, NEW c \in CPU, MapGrow(c), UNCHANGED <<held, pc>>,
         NEW g, g = page[c], \A d \in CPU \ {c} : ~InWalk(d) /\ ~HoldsPage(d)
  PROVE  Owned' /\ Levelled' /\ DOMAIN table' = DOMAIN table \cup {g}
         /\ table' \in [DOMAIN table' -> [0 .. Radix - 1 -> Entry]]
         /\ g \in Ram
         /\ \A f : Linked(f)' => Linked(f) \/ f = g
<1> DEFINE t == walk[c].tab
           s == Slot(walk[c].va, walk[c].level)
           e == [frame |-> g, user |-> walk[c].user]
<1>1. /\ walk[c].at = "grow" /\ ~InPmm(c) /\ g # PMM_NO_PAGE
      /\ table' = Grown(Put(table, t, s, e), g)
      /\ walk' = [walk EXCEPT ![c].at = "down", ![c].tab = g, ![c].level = @ + 1]
      /\ UNCHANGED <<memmap, bitmap, hint, pmm, page>>
  BY Zenon DEF MapGrow, SetHere, Put, Grown, Descend, frameVars
<1>2. PICK lv \in [DOMAIN table -> 1 .. Levels] : LevelsRight(lv) BY Zenon DEF Levelled
<1>3. InWalk(c) BY <1>1, Zenon DEF InWalk
<1>4. /\ walk[c] \in WalkRecord /\ t \in DOMAIN table /\ lv[t] = walk[c].level
      /\ s \in 0 .. Radix - 1 /\ walk[c].level \in 1 .. Levels
  BY <1>2, <1>3, WalkPlace, Zenon
<1>5. walk[c].level < Levels BY <1>1, Zenon DEF Shape
<1>6. Pending(g) /\ Taken(g) /\ Pending(walk[c].frame) /\ g # walk[c].frame
  <2>1. HoldsPage(c) BY <1>1, Zenon DEF HoldsPage
  <2> QED BY <1>3, <2>1, Zenon DEF Owned, Hands
<1>7. g \in Ram /\ g \notin DOMAIN table BY <1>6, Zenon DEF Pending, Taken
<1>8. e \in Entry /\ e.frame = g
  <2>1. g \in Int BY <1>7, RamFacts, Zenon DEF Shape
  <2> QED BY <1>4, <2>1, Zenon DEF WalkRecord, Entry
<1> HIDE DEF t, s, e
<1>9. /\ DOMAIN table' = DOMAIN table \cup {g}
      /\ table' \in [DOMAIN table \cup {g} -> [0 .. Radix - 1 -> Entry]]
      /\ \A l \in Links' : \/ l \in Links /\ LinkedFrame(l)' = LinkedFrame(l)
                           \/ l = <<t, s>> /\ LinkedFrame(l)' = e.frame
  BY <1>1, <1>4, <1>7, <1>8, TableAdded, Zenon
<1>10. \A f : Taken(f)' = Taken(f) BY <1>1, SameFrames, Zenon
<1>11. ~Linked(g) /\ Taken(g)' BY <1>6, <1>10, Zenon DEF Pending
<1>12. LinksRight' /\ \A f : Linked(f)' => Linked(f) \/ f = g
  <2>1. Relinked(<<t, s>>, g)
    BY <1>8, <1>9, <1>11, Zenon DEF Relinked
  <2>2. LinksRight /\ StaysTaken BY <1>10, Zenon DEF Owned, StaysTaken
  <2> QED BY <2>1, <2>2, LinksStayApart, Zenon
<1>13. TablesRight' BY <1>6, <1>9, <1>10, Zenon DEF Owned, TablesRight, Taken
<1>14. walk \in [CPU -> WalkRecord] BY Zenon DEF Shape
<1>15. /\ walk'[c].at = "down" /\ walk'[c].frame = walk[c].frame /\ walk'[c].tab = g
       /\ walk'[c].level = walk[c].level + 1
       /\ \A d \in CPU : d # c => walk'[d] = walk[d]
  <2>1. walk'[c] = [walk[c] EXCEPT !.at = "down", !.tab = g, !.level = @ + 1] BY <1>1, <1>14, Zenon
  <2>2. \A d \in CPU : d # c => walk'[d] = walk[d] BY <1>1, <1>14, Zenon
  <2> QED BY <1>4, <2>1, <2>2, Zenon DEF WalkRecord
<1>16. \A d \in CPU : ~HoldsPage(d)' /\ (InWalk(d)' => d = c)
  BY <1>1, <1>15 DEF HoldsPage, InWalk, InPmm
<1>17. Pending(walk[c].frame)'
  <2> DEFINE h == walk[c].frame
  <2>1. (Taken(h) \/ h \in OnScreen) /\ h \notin DOMAIN table /\ ~Linked(h) BY <1>6, Zenon DEF Pending
  <2>2. PICK k : k = h BY Zenon
  <2>3. Taken(k)' \/ k \in OnScreen BY <1>10, <2>1, <2>2, Zenon
  <2>4. k \notin DOMAIN table' BY <1>6, <1>9, <2>1, <2>2, Zenon
  <2>5. ~Linked(k)' BY <1>6, <1>12, <2>1, <2>2, Zenon
  <2>6. Pending(k)' BY <2>3, <2>4, <2>5, Zenon DEF Pending, OnScreen
  <2>7. walk'[c].frame = k BY <1>15, <2>2, Zenon
  <2> QED BY <2>6, <2>7, Zenon DEF Pending, Linked, Taken
<1>18. Hands' BY <1>16, <1>17, Zenon DEF Hands
<1>19. Owned' BY <1>1, <1>12, <1>13, <1>18, TablesOwned, Zenon
<1> DEFINE lw == [f \in DOMAIN table' |-> IF f = g THEN walk[c].level + 1 ELSE lv[f]]
<1>20. /\ lw[g] = walk[c].level + 1
       /\ \A f \in DOMAIN table : lw[f] = lv[f]
       /\ lw \in [DOMAIN table' -> 1 .. Levels]
  <2>1. walk[c].level + 1 \in 1 .. Levels BY <1>4, <1>5, TableAssumption DEF TableAssumption
  <2> QED BY <1>2, <1>7, <1>9, <2>1, Zenon
<1> HIDE DEF lw
<1>21. PICK m : m = lw BY Zenon
<1>22. LevelsRight(m)'
  <2>1. m[PML4] = 1
    <3>1. PML4 \in DOMAIN table BY Zenon DEF Shape
    <3> QED BY <1>2, <1>20, <1>21, <3>1, Zenon DEF LevelsRight
  <2>2. ASSUME NEW l \in Links', m[l[1]] < Levels
        PROVE  LinkedFrame(l)' \in DOMAIN table' /\ m[LinkedFrame(l)'] = m[l[1]] + 1
    <3>1. CASE l \in Links /\ LinkedFrame(l)' = LinkedFrame(l)
      <4>1. l[1] \in DOMAIN table BY <3>1, Zenon DEF Links
      <4>2. m[l[1]] = lv[l[1]] BY <1>20, <1>21, <4>1, Zenon
      <4>3. LinkedFrame(l) \in DOMAIN table /\ lv[LinkedFrame(l)] = lv[l[1]] + 1
        BY <1>2, <2>2, <3>1, <4>2, Zenon DEF LevelsRight
      <4> QED BY <1>9, <1>20, <1>21, <3>1, <4>2, <4>3, Zenon
    <3>2. CASE l = <<t, s>> /\ LinkedFrame(l)' = e.frame
      <4>1. l[1] = t BY <3>2, Zenon
      <4>2. m[l[1]] = walk[c].level BY <1>4, <1>20, <1>21, <4>1, Zenon
      <4> QED BY <1>8, <1>9, <1>20, <1>21, <3>2, <4>2, Zenon
    <3> QED BY <1>9, <3>1, <3>2, Zenon
  <2>3. \A d \in CPU : InWalk(d)' => walk'[d].tab \in DOMAIN table' /\ m[walk'[d].tab] = walk'[d].level
    BY <1>9, <1>15, <1>16, <1>20, <1>21, Zenon
  <2> QED BY <1>20, <1>21, <2>1, <2>2, <2>3, Zenon DEF LevelsRight
<1>23. Levelled' BY <1>20, <1>21, <1>22, Zenon DEF Levelled
<1> QED BY <1>7, <1>9, <1>12, <1>19, <1>23, Zenon

\* An entry of the granted range is cleared, and neither frame nor table is given back.
LEMMA UnmapOwned ==
  ASSUME Shape, Owned, Levelled, NEW va, vmm_unmap_page(va),
         UNCHANGED <<memmap, bitmap, hint, pmm, page, held, walk, pc>>,
         \A d \in CPU : ~InWalk(d) /\ ~HoldsPage(d)
  PROVE  Owned' /\ Levelled' /\ DOMAIN table' = DOMAIN table
         /\ table' \in [DOMAIN table -> [0 .. Radix - 1 -> Entry]]
         /\ \A f : Linked(f)' => Linked(f)
<1>1. PICK t : t = LeafTable(va) BY Zenon
<1>2. PICK s : s = Slot(va, Levels) BY Zenon
<1>3. /\ DOMAIN table' = DOMAIN table /\ table' \in [DOMAIN table -> [0 .. Radix - 1 -> Entry]]
      /\ \A l \in Links' : l \in Links /\ LinkedFrame(l)' = LinkedFrame(l)
  <2>1. CASE table' = table
    <3>1. Links' = Links /\ \A l : LinkedFrame(l)' = LinkedFrame(l)
      BY <2>1, Zenon DEF Links, LinkedFrame
    <3> QED BY <2>1, <3>1, Zenon DEF Shape
  <2>2. CASE table' = Put(table, t, s, Absent)
    <3>1. Absent \in Entry BY DEF Absent, Entry, VMM_NO_PHYS
    <3> QED BY <2>2, <3>1, EntryLinks, Zenon
  <2>3. table' = table \/ table' = Put(table, t, s, Absent)
    BY <1>1, <1>2, Zenon DEF vmm_unmap_page, Put
  <2> QED BY <2>1, <2>2, <2>3, Zenon
<1>4. \A f : Taken(f)' = Taken(f) BY SameFrames, Zenon
<1>5. LinksRight'
  <2>1. Relinked(0, 0)
    BY <1>3, Zenon DEF Relinked
  <2>2. LinksRight /\ StaysTaken BY <1>4, Zenon DEF Owned, StaysTaken
  <2> QED BY <2>1, <2>2, LinksStayApart, Zenon
<1>6. \A f : Linked(f)' => Linked(f) BY <1>3, Zenon DEF Linked
<1>7. TablesRight' BY <1>3, <1>4, Zenon DEF Owned, TablesRight, Taken
<1>8. \A d \in CPU : ~InWalk(d)' /\ ~HoldsPage(d)' BY Zenon DEF InWalk, HoldsPage, InPmm
<1>9. Hands' BY <1>8, Zenon DEF Hands
<1>10. Owned' BY <1>5, <1>7, <1>9, TablesOwned, Zenon
<1>11. PICK lv \in [DOMAIN table -> 1 .. Levels] : LevelsRight(lv) BY Zenon DEF Levelled
<1>12. LevelsRight(lv)' BY <1>3, <1>8, <1>11, Zenon DEF LevelsRight
<1>13. Levelled' BY <1>3, <1>11, <1>12, Zenon DEF Levelled
<1> QED BY <1>3, <1>6, <1>10, <1>13, Zenon

\* Steps that leave the tables and the walks alone.
LEMMA SameLevels ==
  ASSUME Levelled, UNCHANGED table,
         \A d \in CPU : InWalk(d)' => InWalk(d) /\ walk'[d].tab = walk[d].tab
                                      /\ walk'[d].level = walk[d].level
  PROVE  Levelled'
<1>1. PICK lv \in [DOMAIN table -> 1 .. Levels] : LevelsRight(lv) BY Zenon DEF Levelled
<1>2. Links' = Links /\ \A l : LinkedFrame(l)' = LinkedFrame(l) BY Zenon DEF Links, LinkedFrame
<1>3. LevelsRight(lv)' BY <1>1, <1>2, Zenon DEF LevelsRight
<1> QED BY <1>1, <1>3, Zenon DEF Levelled

-----------------------------------------------------------------------------
(* Turns *)

\* While a call runs, nobody else is in the kernel's memory code.
LEMMA BusyAlone ==
  ASSUME Turns, NEW c \in CPU, Busy(c), NEW d \in CPU, d # c
  PROVE  ~Busy(d) /\ ~InPmm(d) /\ ~InWalk(d) /\ ~HoldsPage(d)
<1>1. Waits(d, c) BY Zenon DEF Turns
<1>2. pc[d] \in {"off", "idle"} BY <1>1, Zenon DEF Waits
<1>3. ~Busy(d) BY <1>2, Zenon DEF Busy
<1>4. ~InPmm(d) /\ ~InWalk(d) BY <1>3, Zenon DEF Turns
<1>5. pc[d] \notin AwaitsPage BY <1>2, Zenon DEF AwaitsPage
<1> QED BY <1>3, <1>4, <1>5, Zenon DEF HoldsPage, InWalk

\* A call begins when no other runs.
LEMMA CallerAlone ==
  ASSUME Turns, NEW c \in CPU, NEW op, Calls(c, op), op # "mmap" \/ mmap_lock = NoOne
  PROVE  \A d \in CPU : ~Busy(d) /\ ~InPmm(d) /\ ~InWalk(d) /\ ~HoldsPage(d)
<1>1. pc[c] = "idle" /\ op \in workload[c] BY Zenon DEF Calls, Running
<1>2. ASSUME NEW d \in CPU, Busy(d) PROVE FALSE
  <2>1. d # c BY <1>1, <1>2, Zenon DEF Busy
  <2>2. Waits(c, d) BY <1>2, <2>1, Zenon DEF Turns
  <2>3. mmap_lock = d /\ workload[c] \subseteq {"mmap"} BY <1>1, <2>2, Zenon DEF Waits
  <2>4. d \in Nat BY FrameAssumption, Zenon DEF FrameAssumption
  <2> QED BY <1>1, <2>3, <2>4 DEF NoOne
<1>3. \A d \in CPU : ~Busy(d) /\ ~InPmm(d) /\ ~InWalk(d) BY <1>2, Zenon DEF Turns
<1>4. \A d \in CPU : pc[d] \notin AwaitsPage BY <1>3, Zenon DEF Busy, AwaitsPage
<1> QED BY <1>3, <1>4, Zenon DEF HoldsPage, InWalk

\* Processor c goes on to another label, with locals that fit it.
Moves(c) ==
  /\ pc' = [d \in CPU |-> pc'[d]] /\ job' = [d \in CPU |-> job'[d]]
  /\ \A d \in CPU \ {c} : pc'[d] = pc[d] /\ job'[d] = job[d]
  /\ JobFits(job'[c], pc'[c])
  /\ workload' = workload /\ memmap' = memmap
  /\ mmap_next' \in Int /\ next_stack' \in Int

\* Only c is moved in the allocator and in the mapper.
OthersRest(c) == \A d \in CPU \ {c} : pmm'[d] = pmm[d] /\ walk'[d] = walk[d]

\* Where c is inside the allocator or the mapper, its label says that a call runs.
Inside(c) ==
  /\ InPmm(c)' \/ InWalk(c)' => Busy(c)'
  /\ InWalk(c)' => pc'[c] \notin AwaitsPage

\* A call that runs goes on, or ends and gives MMAP_LOCK back.
LEMMA TurnsGoOn ==
  ASSUME Turns, NEW c \in CPU, Busy(c), Moves(c), OthersRest(c), Inside(c),
         mmap_lock' = mmap_lock \/ pc'[c] = "idle"
  PROVE  Turns'
<1>1. \A d \in CPU \ {c} : /\ pc'[d] = pc[d] /\ pmm'[d] = pmm[d] /\ walk'[d] = walk[d]
                           /\ ~Busy(d) /\ ~InPmm(d) /\ ~InWalk(d)
  BY BusyAlone, Zenon DEF Moves, OthersRest
<1>2. \A d \in CPU \ {c} : ~Busy(d)' /\ ~InPmm(d)' /\ ~InWalk(d)'
  BY <1>1, Zenon DEF Busy, InPmm, InWalk
<1>3. workload' = workload BY Zenon DEF Moves
<1>4. ASSUME NEW d \in CPU, Busy(c)', d # c PROVE Waits(d, c)'
  <2>1. mmap_lock' = mmap_lock BY <1>4, Zenon DEF Busy
  <2>2. Waits(d, c) BY <1>4, Zenon DEF Turns
  <2> QED BY <1>1, <1>3, <1>4, <2>1, <2>2, Zenon DEF Waits
<1>5. \A b, d \in CPU : Busy(b)' /\ d # b => Waits(d, b)' BY <1>2, <1>4, Zenon
<1>6. \A d \in CPU : InPmm(d)' \/ InWalk(d)' => Busy(d)' BY <1>2, Zenon DEF Inside
<1>7. \A d \in CPU : InWalk(d)' => pc'[d] \notin AwaitsPage BY <1>2, Zenon DEF Inside
<1> QED BY <1>3, <1>5, <1>6, <1>7, Zenon DEF Turns, AwaitsPage

\* A call begins: the others have no calls to make, or wait for MMAP_LOCK.
LEMMA TurnsBegin ==
  ASSUME Serial, Turns, NEW c \in CPU, NEW op, Calls(c, op), Moves(c), OthersRest(c), Inside(c),
         \/ op = "mmap" /\ mmap_lock = NoOne /\ mmap_lock' = c
         \/ op # "mmap" /\ mmap_lock' = mmap_lock
  PROVE  Turns'
<1>1. \A d \in CPU : ~Busy(d) /\ ~InPmm(d) /\ ~InWalk(d) BY CallerAlone, Zenon
<1>2. \A d \in CPU \ {c} : pc'[d] = pc[d] /\ pmm'[d] = pmm[d] /\ walk'[d] = walk[d]
  BY Zenon DEF Moves, OthersRest
<1>3. \A d \in CPU \ {c} : ~Busy(d)' /\ ~InPmm(d)' /\ ~InWalk(d)'
  BY <1>1, <1>2, Zenon DEF Busy, InPmm, InWalk
<1>4. workload' = workload /\ workload \in Workloads BY Zenon DEF Moves, Turns
<1>5. op \in workload[c] BY Zenon DEF Calls
<1>6. ASSUME NEW d \in CPU, d # c PROVE Waits(d, c)'
  <2>1. pc'[d] \in {"idle", "off"} BY <1>1, <1>2, <1>6, Zenon DEF Busy
  <2>2. workload[d] = {} \/ (op = "mmap" /\ workload[d] \subseteq {"mmap"})
    <3>1. CASE \A b \in CPU : workload[b] \subseteq {"mmap"} BY <1>5, <3>1, Zenon
    <3>2. CASE \E e \in CPU : \A b \in CPU \ {e} : workload[b] = {} BY <1>5, <1>6, <3>2
    <3> QED BY <1>4, <3>1, <3>2, Zenon DEF Serial
  <2> QED BY <1>4, <2>1, <2>2, Zenon DEF Waits
<1>7. \A b, d \in CPU : Busy(b)' /\ d # b => Waits(d, b)' BY <1>3, <1>6, Zenon
<1>8. \A d \in CPU : InPmm(d)' \/ InWalk(d)' => Busy(d)' BY <1>3, Zenon DEF Inside
<1>9. \A d \in CPU : InWalk(d)' => pc'[d] \notin AwaitsPage BY <1>3, Zenon DEF Inside
<1> QED BY <1>4, <1>7, <1>8, <1>9, Zenon DEF Turns, AwaitsPage

-----------------------------------------------------------------------------
(* Shapes, the start, and the screen *)

LEMMA JobsFit ==
  ASSUME JobShape, NEW c \in CPU, Moves(c)
  PROVE  JobShape'
<1>1. \A d \in CPU : JobFits(job'[d], pc'[d])
  BY Zenon DEF Moves, JobShape
<1>2. \A d \in CPU : JobFits(job[d], pc[d])' BY <1>1, Zenon DEF JobFits, NoJob, Counting, Loading, Copying
<1> QED BY <1>2, Zenon DEF Moves, JobShape

\* After pmm_init the bitmap stays, and pmm_init is not run again.
LEMMA StartKept ==
  ASSUME StartRight, Up, Up', NEW c \in CPU, Moves(c), pc'[c] # "pmm_init"
  PROVE  StartRight'
<1>1. \A d \in CPU : pc'[d] # "pmm_init" BY Zenon DEF StartRight, Moves
<1> QED BY <1>1, Zenon DEF StartRight

\* A frame of the screen is mapped, or about to be.
Shown(f) == Linked(f) \/ (\E c \in CPU : InWalk(c) /\ walk[c].frame = f)

\* Everything but map_framebuffer.
LEMMA ScreenKept ==
  ASSUME ScreenRight, NEW c \in CPU, Moves(c), fb_mapped' = fb_mapped,
         \A f \in OnScreen : Shown(f)' => Shown(f),
         pc[c] = "panic" => pc'[c] = "panic",
         pc'[c] = "fb_map" => pc[c] = "fb_map" /\ job'[c].next = job[c].next,
         pc[c] = "fb_map" => pc'[c] \in {"fb_map", "panic"}
  PROVE  ScreenRight'
<1>1. \A d \in CPU \ {c} : pc'[d] = pc[d] /\ job'[d] = job[d] BY Zenon DEF Moves
<1>2. ASSUME NEW i \in DOMAIN FbFrames, Shown(FbFrames[i])'
      PROVE  fb_mapped' \/ \E d \in CPU : \/ pc'[d] = "panic"
                                          \/ pc'[d] = "fb_map" /\ i <= job'[d].next
  <2>1. FbFrames[i] \in OnScreen BY Zenon DEF OnScreen, Range
  <2>2. Shown(FbFrames[i]) BY <1>2, <2>1, Zenon
  <2>3. fb_mapped \/ \E d \in CPU : \/ pc[d] = "panic"
                                    \/ pc[d] = "fb_map" /\ i <= job[d].next
    BY <2>2, Zenon DEF ScreenRight, Shown
  <2>4. CASE fb_mapped BY <2>4, Zenon
  <2>5. ASSUME NEW d \in CPU, pc[d] = "panic" \/ (pc[d] = "fb_map" /\ i <= job[d].next)
        PROVE  pc'[d] = "panic" \/ (pc'[d] = "fb_map" /\ i <= job'[d].next)
    BY <1>1, <2>5, Zenon
  <2> QED BY <2>3, <2>4, <2>5, Zenon
<1>3. \A d \in CPU : pc'[d] = "fb_map" => ~fb_mapped' BY <1>1, Zenon DEF ScreenRight
<1> QED BY <1>2, <1>3, Zenon DEF ScreenRight, Shown

-----------------------------------------------------------------------------
(* The kinds of steps *)

\* After kmain has run pmm_init.
LEMMA IsUp ==
  ASSUME StartRight, NEW c \in CPU,
         pc[c] \notin {"pmm_init", "off", "panic"} \/ InPmm(c) \/ InWalk(c)
  PROVE  Up
BY Zenon DEF StartRight

Hardware == Shape /\ StartRight /\ Owned /\ Levelled

\* The call goes on without touching frames or tables.
LEMMA QuietStep ==
  ASSUME Hardware, Up, NEW c \in CPU, Moves(c), pc'[c] # "pmm_init",
         UNCHANGED <<bitmap, hint, pmm, page, table, walk, held>>,
         pc'[c] \notin AwaitsPage
  PROVE  Hardware' /\ OthersRest(c) /\ \A f : Shown(f)' = Shown(f)
<1>1. memmap' = memmap /\ \A d \in CPU \ {c} : pc'[d] = pc[d] BY Zenon DEF Moves
<1>2. JobShape' BY JobsFit, Zenon DEF Hardware, Shape
<1>3. Shape' BY <1>1, <1>2, Zenon DEF Hardware, Shape, WalkRecord, PmmRecord, Entry
<1>4. Up' BY Zenon DEF Up
<1>5. StartRight' BY <1>4, StartKept, Zenon DEF Hardware
<1>6. \A d \in CPU : HoldsPage(d)' => HoldsPage(d)
  BY <1>1, Zenon DEF HoldsPage, InPmm, AwaitsPage
<1>7. Owned' BY <1>1, <1>6, QuietOwned, Zenon DEF Hardware
<1>8. Levelled' BY SameLevels, Zenon DEF Hardware, InWalk
<1>9. OthersRest(c) BY Zenon DEF OthersRest
<1>10. \A f : Shown(f)' = Shown(f)
  <2>1. \A f : Linked(f)' = Linked(f) BY Zenon DEF Linked, Links, LinkedFrame
  <2> QED BY <2>1, Zenon DEF Shown, InWalk
<1> QED BY <1>3, <1>5, <1>7, <1>8, <1>9, <1>10, Zenon DEF Hardware

\* The call enters pmm_alloc_page.
LEMMA AllocStep ==
  ASSUME Hardware, Up, NEW c \in CPU, Moves(c), pc'[c] # "pmm_init",
         PmmEnter(c), UNCHANGED <<table, walk, held>>
  PROVE  Hardware' /\ OthersRest(c) /\ InPmm(c)' /\ \A f : Shown(f)' = Shown(f)
<1>1. memmap' = memmap /\ \A d \in CPU \ {c} : pc'[d] = pc[d] BY Zenon DEF Moves
<1>2. /\ pmm' = [pmm EXCEPT ![c] = [at |-> "scan", from |-> hint, scanned |-> 0, word |-> {}]]
      /\ bitmap' = bitmap /\ hint' = hint /\ page' = page
  BY Zenon DEF PmmEnter
<1>3. pmm \in [CPU -> PmmRecord] /\ hint \in Nat
  <2>1. Entries \in Nat \ {0} /\ hint \in 0 .. Entries - 1 BY Zenon DEF Hardware, Owned, BitsRight
  <2> QED BY <2>1 DEF Hardware, Shape
<1>4. pmm' \in [CPU -> PmmRecord] /\ pmm'[c].at = "scan" /\ \A d \in CPU \ {c} : pmm'[d] = pmm[d]
  <2>1. [at |-> "scan", from |-> hint, scanned |-> 0, word |-> {}] \in PmmRecord
    BY <1>3, Zenon DEF PmmRecord
  <2> QED BY <1>2, <1>3, <2>1, Zenon
<1>5. JobShape' BY JobsFit, Zenon DEF Hardware, Shape
<1>6. Shape' BY <1>1, <1>2, <1>4, <1>5, Zenon DEF Hardware, Shape, WalkRecord, PmmRecord, Entry, Bit
<1>7. Up' BY <1>2, Zenon DEF Up
<1>8. StartRight' BY <1>7, StartKept, Zenon DEF Hardware
<1>9. \A d \in CPU : d # c => (HoldsPage(d)' => HoldsPage(d))
  BY <1>1, <1>2, <1>4, Zenon DEF HoldsPage, InPmm, AwaitsPage
<1>10. \A d \in CPU : InWalk(d)' => InWalk(d) /\ walk'[d].frame = walk[d].frame BY Zenon DEF InWalk
<1>11. Owned' BY <1>9, <1>10, EnterOwned, Zenon DEF Hardware
<1>12. Levelled' BY SameLevels, Zenon DEF Hardware, InWalk
<1>13. OthersRest(c) BY <1>4, Zenon DEF OthersRest
<1>14. InPmm(c)' BY <1>4, Zenon DEF InPmm
<1>15. \A f : Shown(f)' = Shown(f)
  <2>1. \A f : Linked(f)' = Linked(f) BY Zenon DEF Linked, Links, LinkedFrame
  <2> QED BY <2>1, Zenon DEF Shown, InWalk
<1> QED BY <1>6, <1>8, <1>11, <1>12, <1>13, <1>14, <1>15, Zenon DEF Hardware

\* The call enters vmm_map_page_flags with a frame that only it has.
LEMMA MapCallStep ==
  ASSUME Hardware, Up, NEW c \in CPU, Moves(c), pc'[c] # "pmm_init",
         NEW va \in Int, NEW g \in Int, NEW user \in BOOLEAN, MapEnter(c, va, g, user), Pending(g),
         UNCHANGED <<bitmap, hint, pmm, page, held>>,
         \A d \in CPU \ {c} : ~InWalk(d) /\ ~HoldsPage(d)
  PROVE  Hardware' /\ OthersRest(c) /\ \A f : Shown(f)' => Shown(f) \/ f = g
<1>1. memmap' = memmap /\ \A d \in CPU \ {c} : pc'[d] = pc[d] BY Zenon DEF Moves
<1>2. /\ walk' = [walk EXCEPT ![c] = [at |-> "down", va |-> va, frame |-> g, user |-> user,
                                      level |-> 1, tab |-> PML4]]
      /\ table' = table /\ walk \in [CPU -> WalkRecord]
  BY Zenon DEF MapEnter, Hardware, Shape
<1>3. /\ walk' \in [CPU -> WalkRecord] /\ walk'[c].at = "down" /\ walk'[c].frame = g
      /\ \A d \in CPU \ {c} : walk'[d] = walk[d]
  <2> DEFINE w == [at |-> "down", va |-> va, frame |-> g, user |-> user, level |-> 1, tab |-> PML4]
  <2>1. w \in WalkRecord BY TableAssumption DEF WalkRecord, PML4, TableAssumption
  <2>2. w.at = "down" /\ w.frame = g BY Zenon
  <2> HIDE DEF w
  <2> QED BY <1>2, <2>1, <2>2, Zenon DEF w
<1>4. \A d \in CPU : walk'[d].at = "grow" => walk'[d].level < Levels
  BY <1>3, Zenon DEF Hardware, Shape
<1>5. JobShape' BY JobsFit, Zenon DEF Hardware, Shape
<1>6. Shape'
  BY <1>1, <1>2, <1>3, <1>4, <1>5, Zenon DEF Hardware, Shape, WalkRecord, PmmRecord, Entry, Bit
<1>7. Up' BY Zenon DEF Up
<1>8. StartRight' BY <1>7, StartKept, Zenon DEF Hardware
<1>9. \A d \in CPU \ {c} : ~InWalk(d) /\ ~HoldsPage(d)'
  BY <1>1, <1>3, Zenon DEF HoldsPage, InPmm, AwaitsPage
<1>10. Owned' /\ Levelled' BY <1>1, <1>9, MapEnterOwned, Zenon DEF Hardware
<1>11. OthersRest(c) BY <1>3, Zenon DEF OthersRest
<1>12. \A f : Shown(f)' => Shown(f) \/ f = g
  <2>1. \A f : Linked(f)' = Linked(f) BY <1>2, Zenon DEF Linked, Links, LinkedFrame
  <2> QED BY <1>3, <2>1, Zenon DEF Shown, InWalk
<1> QED BY <1>6, <1>8, <1>10, <1>11, <1>12, Zenon DEF Hardware

-----------------------------------------------------------------------------
(* Steps inside pmm_alloc_page and vmm_map_page_flags *)

\* The call itself does not move.
LEMMA SteadyStep ==
  ASSUME FrameInv, NEW c \in CPU, Busy(c), UNCHANGED <<clientVars, pc, job, memmap>>,
         OthersRest(c), InWalk(c)' => InWalk(c), \A f \in OnScreen : Shown(f)' => Shown(f)
  PROVE  Moves(c) /\ Turns' /\ ScreenRight' /\ JobShape'
<1>1. /\ pc' = pc /\ job' = job /\ workload' = workload /\ memmap' = memmap
      /\ mmap_next' = mmap_next /\ next_stack' = next_stack /\ mmap_lock' = mmap_lock
      /\ fb_mapped' = fb_mapped
  BY Zenon DEF clientVars
<1>2. Moves(c) BY <1>1, Zenon DEF FrameInv, Shape, JobShape, Moves
<1>3. Inside(c) BY <1>1, Zenon DEF Inside, Busy, FrameInv, Turns
<1>4. Turns' BY <1>1, <1>2, <1>3, TurnsGoOn, Zenon DEF FrameInv
<1>5. ScreenRight' BY <1>1, <1>2, ScreenKept, Zenon DEF FrameInv
<1>6. JobShape' BY <1>2, JobsFit, Zenon DEF FrameInv, Shape
<1> QED BY <1>2, <1>4, <1>5, <1>6, Zenon

\* A step of pmm_alloc_page: a word is read, or stored with one more bit.
LEMMA AllocatingStep ==
  ASSUME SetFacts, FrameInv, NEW c \in CPU, Allocating(c)
  PROVE  FrameInv'
<1>1. PmmStep(c) /\ UNCHANGED <<table, walk, clientVars, pc, job, held>>
  BY Zenon DEF Allocating, tableVars, clientVars
<1>2. InPmm(c) BY <1>1, Zenon DEF PmmStep, PmmRead, PmmStore, InPmm
<1>3. Busy(c) /\ Up BY <1>2, IsUp, Zenon DEF FrameInv, Turns
<1>4. pmm[c] \in PmmRecord /\ pmm \in [CPU -> PmmRecord] /\ page \in [CPU -> Int]
  BY Zenon DEF FrameInv, Shape
<1>5. Outside \in PmmRecord BY Zenon DEF Outside, PmmRecord
<1>6. /\ memmap' = memmap /\ pmm' \in [CPU -> PmmRecord] /\ page' \in [CPU -> Int]
      /\ \A d \in CPU \ {c} : pmm'[d] = pmm[d]
      /\ Up' /\ Owned'
  <2>1. CASE PmmRead(c)
    <3>1. memmap' = memmap /\ bitmap' = bitmap BY <2>1, Zenon DEF PmmRead
    <3>2. Owned' BY <1>1, <1>3, <2>1, ReadOwned, Zenon DEF FrameInv
    <3>3. Up' BY <1>3, <3>1, Zenon DEF Up
    <3>4. \/ pmm' = [pmm EXCEPT ![c].at = "store", ![c].word = bitmap[Index(pmm[c])]] /\ page' = page
          \/ pmm' = [pmm EXCEPT ![c].scanned = @ + 1] /\ page' = page
          \/ pmm' = [pmm EXCEPT ![c] = Outside] /\ page' = [page EXCEPT ![c] = PMM_NO_PAGE]
      BY <2>1, Zenon DEF PmmRead, PmmGiveUp
    <3>5. bitmap[Index(pmm[c])] \subseteq Bit BY <1>2, <1>3, AtWord, Zenon DEF FrameInv
    <3> DEFINE w == bitmap[Index(pmm[c])]
    <3>6. [pmm[c] EXCEPT !.at = "store", !.word = w] \in PmmRecord
      <4> HIDE DEF w
      <4>1. w \in SUBSET Bit BY <3>5, Zenon DEF w
      <4> QED BY <1>4, <4>1, Zenon DEF PmmRecord
    <3>7. [pmm[c] EXCEPT !.scanned = @ + 1] \in PmmRecord BY <1>4 DEF PmmRecord
    <3> HIDE DEF w
    <3>8. \/ pmm' = [pmm EXCEPT ![c] = [pmm[c] EXCEPT !.at = "store", !.word = w]] /\ page' = page
          \/ pmm' = [pmm EXCEPT ![c] = [pmm[c] EXCEPT !.scanned = @ + 1]] /\ page' = page
          \/ pmm' = [pmm EXCEPT ![c] = Outside] /\ page' = [page EXCEPT ![c] = PMM_NO_PAGE]
      BY <1>4, <3>4, Zenon DEF w
    <3>9. \E r \in PmmRecord : pmm' = [pmm EXCEPT ![c] = r]
      BY <1>5, <3>6, <3>7, <3>8, Zenon
    <3>10. page' \in [CPU -> Int] BY <1>4, <3>8 DEF PMM_NO_PAGE
    <3>11. pmm' \in [CPU -> PmmRecord] /\ \A d \in CPU \ {c} : pmm'[d] = pmm[d] BY <1>4, <3>9, Zenon
    <3> QED BY <3>1, <3>2, <3>3, <3>10, <3>11, Zenon
  <2>2. CASE PmmStore(c)
    <3>1. memmap' = memmap /\ pmm' = [pmm EXCEPT ![c] = Outside] BY <2>2, Zenon DEF PmmStore
    <3>2. \A d \in CPU : d # c => ~InPmm(d) BY <1>3, BusyAlone, Zenon DEF FrameInv
    <3>3. Owned' BY <1>1, <1>3, <2>2, <3>2, StoreOwned, Zenon DEF FrameInv
    <3>4. PICK n \in Ram : page' = [page EXCEPT ![c] = n] /\ DOMAIN bitmap' = DOMAIN bitmap
      BY <1>3, <2>2, StoreFacts, Zenon DEF FrameInv
    <3>5. n \in Int BY RamFacts DEF FrameInv, Shape
    <3>6. Up' BY <1>3, <3>4, Zenon DEF Up
    <3> QED BY <1>4, <1>5, <3>1, <3>3, <3>4, <3>5, <3>6, Zenon
  <2> QED BY <1>1, <2>1, <2>2, Zenon DEF PmmStep
<1>7. OthersRest(c) BY <1>1, <1>6, Zenon DEF OthersRest
<1>8. \A f : Shown(f)' = Shown(f)
  <2>1. \A f : Linked(f)' = Linked(f) BY <1>1, Zenon DEF Linked, Links, LinkedFrame
  <2> QED BY <1>1, <2>1, Zenon DEF Shown, InWalk
<1>9. InWalk(c)' => InWalk(c) BY <1>1, Zenon DEF InWalk
<1>10. Moves(c) /\ Turns' /\ ScreenRight' /\ JobShape'
  BY <1>1, <1>3, <1>6, <1>7, <1>8, <1>9, SteadyStep, Zenon
<1>11. Shape' BY <1>1, <1>6, <1>10, Zenon DEF FrameInv, Shape, WalkRecord, Entry, PmmRecord, Bit
<1>12. pc'[c] # "pmm_init" BY <1>1, <1>3, Zenon DEF FrameInv, StartRight
<1>13. StartRight' BY <1>3, <1>6, <1>10, <1>12, StartKept, Zenon DEF FrameInv
<1>14. Levelled' BY <1>1, SameLevels, Zenon DEF FrameInv, InWalk
<1> QED BY <1>6, <1>10, <1>11, <1>13, <1>14, Zenon DEF FrameInv

\* What a step of the mapper leaves to show.
LEMMA WalkStep ==
  ASSUME FrameInv, NEW c \in CPU, InWalk(c), UNCHANGED <<clientVars, pc, job, memmap>>,
         OthersRest(c), Up', \A f \in OnScreen : Linked(f)' => Shown(f),
         InWalk(c)' => walk'[c].frame = walk[c].frame
  PROVE  Turns' /\ ScreenRight' /\ JobShape' /\ StartRight'
<1>1. Busy(c) /\ Up BY IsUp, Zenon DEF FrameInv, Turns
<1>2. \A d \in CPU : InWalk(d)' => InWalk(d) /\ walk'[d].frame = walk[d].frame
  BY Zenon DEF OthersRest, InWalk
<1>3. \A f \in OnScreen : Shown(f)' => Shown(f)
  <2>1. ASSUME NEW f \in OnScreen, Shown(f)' PROVE Shown(f)
    <3>1. CASE Linked(f)' BY <3>1, Zenon
    <3>2. CASE \E d \in CPU : InWalk(d)' /\ walk'[d].frame = f
      <4>1. PICK d \in CPU : InWalk(d)' /\ walk'[d].frame = f BY <3>2, Zenon
      <4> QED BY <1>2, <4>1, Zenon DEF Shown
    <3> QED BY <2>1, <3>1, <3>2, Zenon DEF Shown
  <2> QED BY <2>1, Zenon
<1>4. Moves(c) /\ Turns' /\ ScreenRight' /\ JobShape' BY <1>1, <1>3, SteadyStep, Zenon
<1>5. pc'[c] # "pmm_init" BY <1>1, Zenon DEF FrameInv, StartRight
<1>6. StartRight' BY <1>1, <1>4, <1>5, StartKept, Zenon DEF FrameInv
<1> QED BY <1>4, <1>6, Zenon

\* A step of vmm_map_page_flags: a level down, a table asked for or linked, the leaf.
LEMMA MappingStep ==
  ASSUME SetFacts, FrameInv, NEW c \in CPU, Mapping(c)
  PROVE  FrameInv'
<1>1. MapStep(c) /\ UNCHANGED <<clientVars, pc, job, held>> BY Zenon DEF Mapping, clientVars
<1>2. InWalk(c) BY <1>1, Zenon DEF MapStep, MapDown, MapNeedsTable, MapGrow, MapLeaf, InWalk
<1>3. Busy(c) /\ Up /\ pc[c] \notin AwaitsPage BY <1>2, IsUp, Zenon DEF FrameInv, Turns
<1>4. \A d \in CPU \ {c} : ~InWalk(d) /\ ~HoldsPage(d)
  BY <1>3, BusyAlone, Zenon DEF FrameInv
<1>5. walk[c] \in WalkRecord /\ walk \in [CPU -> WalkRecord] BY Zenon DEF FrameInv, Shape
<1>6. \A d \in CPU : walk[d].at = "grow" => walk[d].level < Levels BY Zenon DEF FrameInv, Shape
<1>7. \A f \in DOMAIN table : f \in Int
  BY RamFacts DEF FrameInv, Shape, Owned, TablesRight, Taken, PML4
<1>8. CASE MapDown(c)
  <2>1. /\ walk[c].level < Levels
        /\ walk' = [walk EXCEPT ![c].at = "down", ![c].tab = Here(c).frame, ![c].level = @ + 1]
        /\ UNCHANGED frameVars
    BY <1>8, Zenon DEF MapDown, Descend
  <2>2. /\ Owned' /\ Levelled' /\ DOMAIN table' = DOMAIN table
        /\ table' \in [DOMAIN table -> [0 .. Radix - 1 -> Entry]]
        /\ walk'[c].tab \in DOMAIN table
        /\ \A f : Linked(f)' => Linked(f)
    BY <1>1, <1>8, DownOwned, Zenon DEF FrameInv
  <2>3. /\ walk'[c] = [walk[c] EXCEPT !.at = "down", !.tab = Here(c).frame, !.level = @ + 1]
        /\ \A d \in CPU \ {c} : walk'[d] = walk[d]
        /\ walk' = [d \in CPU |-> walk'[d]]
    BY <1>5, <2>1, Zenon
  <2>4. Here(c).frame \in Int
    <3>1. walk'[c].tab = Here(c).frame BY <1>5, <2>3, Zenon DEF WalkRecord
    <3> QED BY <1>7, <2>2, <3>1, Zenon
  <2>5. walk'[c] \in WalkRecord /\ walk'[c].at = "down" /\ walk'[c].frame = walk[c].frame
    <3>1. walk[c].level + 1 \in 1 .. Levels
      BY <1>5, <2>1, TableAssumption DEF TableAssumption, WalkRecord
    <3> DEFINE h == Here(c).frame
               n == walk[c].level + 1
    <3>2. walk'[c] = [walk[c] EXCEPT !.at = "down", !.tab = h, !.level = n] BY <2>3, Zenon
    <3> HIDE DEF h, n
    <3>3. h \in Int /\ n \in 1 .. Levels BY <2>4, <3>1, Zenon DEF h, n
    <3> QED BY <1>5, <3>2, <3>3, Zenon DEF WalkRecord
  <2>6. walk' \in [CPU -> WalkRecord] /\ \A d \in CPU : walk'[d].at = "grow" => walk'[d].level < Levels
    BY <1>5, <1>6, <2>3, <2>5, Zenon
  <2>7. OthersRest(c) BY <2>1, <2>3, Zenon DEF OthersRest, frameVars
  <2>8. memmap' = memmap /\ bitmap' = bitmap /\ pmm' = pmm /\ page' = page BY <2>1, Zenon DEF frameVars
  <2>9. Up' BY <1>3, <2>8, Zenon DEF Up
  <2>10. Turns' /\ ScreenRight' /\ JobShape' /\ StartRight'
    BY <1>1, <1>2, <2>2, <2>5, <2>7, <2>8, <2>9, WalkStep, Zenon DEF Shown
  <2>11. Shape'
    BY <2>2, <2>6, <2>8, <2>10, Zenon DEF FrameInv, Shape, WalkRecord, Entry, PmmRecord, Bit
  <2> QED BY <2>2, <2>10, <2>11, Zenon DEF FrameInv
<1>9. CASE MapNeedsTable(c)
  <2>1. /\ walk[c].at = "down" /\ walk[c].level < Levels /\ PmmEnter(c) /\ table' = table
        /\ walk' = [walk EXCEPT ![c].at = "grow"]
    BY <1>9, Zenon DEF MapNeedsTable
  <2>2. /\ pmm' = [pmm EXCEPT ![c] = [at |-> "scan", from |-> hint, scanned |-> 0, word |-> {}]]
        /\ memmap' = memmap /\ bitmap' = bitmap /\ hint' = hint /\ page' = page
    BY <2>1, Zenon DEF PmmEnter
  <2>3. /\ walk'[c] = [walk[c] EXCEPT !.at = "grow"]
        /\ \A d \in CPU \ {c} : walk'[d] = walk[d]
        /\ walk' = [d \in CPU |-> walk'[d]]
    BY <1>5, <2>1, Zenon
  <2>4. /\ walk'[c] \in WalkRecord /\ walk'[c].frame = walk[c].frame /\ walk'[c].at = "grow"
        /\ walk'[c].level = walk[c].level /\ walk'[c].tab = walk[c].tab
    BY <1>5, <2>3, Zenon DEF WalkRecord
  <2>5. walk' \in [CPU -> WalkRecord] /\ \A d \in CPU : walk'[d].at = "grow" => walk'[d].level < Levels
    BY <1>5, <1>6, <2>1, <2>3, <2>4, Zenon
  <2>6. pmm' \in [CPU -> PmmRecord] /\ \A d \in CPU \ {c} : pmm'[d] = pmm[d]
    <3>1. Entries \in Nat \ {0} /\ hint \in 0 .. Entries - 1
      BY <1>3, Zenon DEF FrameInv, Owned, BitsRight
    <3>2. [at |-> "scan", from |-> hint, scanned |-> 0, word |-> {}] \in PmmRecord
      BY <3>1 DEF PmmRecord
    <3>3. pmm \in [CPU -> PmmRecord] BY Zenon DEF FrameInv, Shape
    <3> QED BY <2>2, <3>2, <3>3, Zenon
  <2>7. OthersRest(c) BY <2>3, <2>6, Zenon DEF OthersRest
  <2>8. \A d \in CPU : /\ InWalk(d)' => InWalk(d)
                       /\ walk'[d].frame = walk[d].frame /\ walk'[d].tab = walk[d].tab
                       /\ walk'[d].level = walk[d].level
    BY <1>2, <2>3, <2>4, Zenon DEF InWalk
  <2>9. \A d \in CPU : d # c => (HoldsPage(d)' => HoldsPage(d))
    BY <1>1, <2>2, <2>3, <2>6, Zenon DEF HoldsPage, InPmm, AwaitsPage
  <2>10. Owned' BY <1>1, <1>3, <2>1, <2>8, <2>9, EnterOwned, Zenon DEF FrameInv
  <2>11. Levelled' BY <2>1, <2>8, SameLevels, Zenon DEF FrameInv
  <2>12. \A f : Linked(f)' = Linked(f) BY <2>1, Zenon DEF Linked, Links, LinkedFrame
  <2>13. Up' BY <1>3, <2>2, Zenon DEF Up
  <2>14. Turns' /\ ScreenRight' /\ JobShape' /\ StartRight'
    BY <1>1, <1>2, <2>2, <2>4, <2>7, <2>12, <2>13, WalkStep, Zenon DEF Shown
  <2>15. Shape'
    BY <2>1, <2>2, <2>5, <2>6, <2>14, Zenon DEF FrameInv, Shape, WalkRecord, Entry, PmmRecord, Bit
  <2> QED BY <2>10, <2>11, <2>14, <2>15, Zenon DEF FrameInv
<1>10. CASE MapGrow(c)
  <2>1. /\ walk[c].at = "grow"
        /\ walk' = [walk EXCEPT ![c].at = "down", ![c].tab = page[c], ![c].level = @ + 1]
        /\ UNCHANGED frameVars
    BY <1>10, Zenon DEF MapGrow, Descend
  <2>2. PICK g : g = page[c] BY Zenon
  <2>3. /\ Owned' /\ Levelled' /\ DOMAIN table' = DOMAIN table \cup {g}
        /\ table' \in [DOMAIN table' -> [0 .. Radix - 1 -> Entry]]
        /\ g \in Ram
        /\ \A f : Linked(f)' => Linked(f) \/ f = g
    BY <1>1, <1>4, <1>10, <2>2, GrowOwned, Zenon DEF FrameInv
  <2>4. /\ walk'[c] = [walk[c] EXCEPT !.at = "down", !.tab = g, !.level = @ + 1]
        /\ \A d \in CPU \ {c} : walk'[d] = walk[d]
        /\ walk' = [d \in CPU |-> walk'[d]]
    BY <1>5, <2>1, <2>2, Zenon
  <2>5. g \in Int /\ g \notin OnScreen BY <2>3, RamFacts DEF FrameInv, Shape
  <2>6. walk'[c] \in WalkRecord /\ walk'[c].at = "down" /\ walk'[c].frame = walk[c].frame
    <3>1. walk[c].level + 1 \in 1 .. Levels
      BY <1>5, <1>6, <2>1, TableAssumption DEF TableAssumption, WalkRecord
    <3> DEFINE n == walk[c].level + 1
    <3>2. walk'[c] = [walk[c] EXCEPT !.at = "down", !.tab = g, !.level = n] BY <2>4, Zenon
    <3> HIDE DEF n
    <3>3. n \in 1 .. Levels BY <3>1, Zenon DEF n
    <3> QED BY <1>5, <2>5, <3>2, <3>3, Zenon DEF WalkRecord
  <2>7. walk' \in [CPU -> WalkRecord] /\ \A d \in CPU : walk'[d].at = "grow" => walk'[d].level < Levels
    BY <1>5, <1>6, <2>4, <2>6, Zenon
  <2>8. OthersRest(c) BY <2>1, <2>4, Zenon DEF OthersRest, frameVars
  <2>9. memmap' = memmap /\ bitmap' = bitmap /\ pmm' = pmm /\ page' = page BY <2>1, Zenon DEF frameVars
  <2>10. Up' BY <1>3, <2>9, Zenon DEF Up
  <2>11. Turns' /\ ScreenRight' /\ JobShape' /\ StartRight'
    BY <1>1, <1>2, <2>3, <2>5, <2>6, <2>8, <2>9, <2>10, WalkStep, Zenon DEF Shown
  <2>12. IsFiniteSet(DOMAIN table') /\ PML4 \in DOMAIN table'
    <3>1. IsFiniteSet(DOMAIN table) /\ PML4 \in DOMAIN table BY Zenon DEF FrameInv, Shape
    <3>2. IsFiniteSet(DOMAIN table \cup {g}) BY <3>1, Zenon DEF SetFacts
    <3> QED BY <2>3, <3>1, <3>2, Zenon
  <2>13. Shape'
    BY <2>3, <2>7, <2>9, <2>11, <2>12, Zenon DEF FrameInv, Shape, WalkRecord, Entry, PmmRecord, Bit
  <2> QED BY <2>3, <2>11, <2>13, Zenon DEF FrameInv
<1>11. CASE MapLeaf(c)
  <2>1. walk' = [walk EXCEPT ![c].at = "out"] /\ UNCHANGED frameVars BY <1>11, Zenon DEF MapLeaf
  <2>2. PICK g : g = walk[c].frame BY Zenon
  <2>3. /\ Owned' /\ Levelled' /\ DOMAIN table' = DOMAIN table
        /\ table' \in [DOMAIN table -> [0 .. Radix - 1 -> Entry]]
        /\ \A f : Linked(f)' => Linked(f) \/ f = g
    BY <1>1, <1>3, <1>4, <1>11, <2>2, LeafOwned, Zenon DEF FrameInv
  <2>4. /\ walk'[c] = [walk[c] EXCEPT !.at = "out"]
        /\ \A d \in CPU \ {c} : walk'[d] = walk[d]
        /\ walk' = [d \in CPU |-> walk'[d]]
    BY <1>5, <2>1, Zenon
  <2>5. walk'[c] \in WalkRecord /\ walk'[c].at = "out" BY <1>5, <2>4, Zenon DEF WalkRecord
  <2>6. walk' \in [CPU -> WalkRecord] /\ \A d \in CPU : walk'[d].at = "grow" => walk'[d].level < Levels
    BY <1>5, <1>6, <2>4, <2>5, Zenon
  <2>7. OthersRest(c) BY <2>1, <2>4, Zenon DEF OthersRest, frameVars
  <2>8. memmap' = memmap /\ bitmap' = bitmap /\ pmm' = pmm /\ page' = page BY <2>1, Zenon DEF frameVars
  <2>9. Up' BY <1>3, <2>8, Zenon DEF Up
  <2>10. \A f \in OnScreen : Linked(f)' => Shown(f) BY <1>2, <2>2, <2>3, Zenon DEF Shown
  <2>11. ~InWalk(c)' BY <2>5, Zenon DEF InWalk
  <2>12. Turns' /\ ScreenRight' /\ JobShape' /\ StartRight'
    BY <1>1, <1>2, <2>7, <2>8, <2>9, <2>10, <2>11, WalkStep, Zenon
  <2>13. Shape'
    BY <2>3, <2>6, <2>8, <2>12, Zenon DEF FrameInv, Shape, WalkRecord, Entry, PmmRecord, Bit
  <2> QED BY <2>3, <2>12, <2>13, Zenon DEF FrameInv
<1> QED BY <1>1, <1>8, <1>9, <1>10, <1>11, Zenon DEF MapStep
-----------------------------------------------------------------------------
(* The locals of the calls *)

\* A label from which another is reached with the same locals, or with the next page.
Follows(k, l) ==
  /\ k \notin {"idle", "off", "pmm_init"}
  /\ k \in Counting => l \in Counting
  /\ k \in Loading => l \in Loading
  /\ k \in Copying => l \in Copying

LEMMA FitsNext ==
  ASSUME NEW j, NEW l, NEW k, JobFits(j, l), Follows(k, l)
  PROVE  JobFits(j, k) /\ JobFits([j EXCEPT !.next = @ + 1], k)
         /\ [j EXCEPT !.next = @ + 1].next = j.next + 1
<1>1. /\ DOMAIN j = DOMAIN NoJob /\ j.base \in Int /\ j.pages \in Int /\ j.next \in Int
      /\ k \in Counting => j.next \in Nat
      /\ k \in Loading => j.image \in DOMAIN Images
      /\ k \in Copying => j.seg \in Nat \ {0}
      /\ k \notin {"idle", "off", "pmm_init"}
  BY Zenon DEF JobFits, Follows
<1>2. DOMAIN NoJob = {"base", "pages", "next", "image", "seg", "buffer"} BY Zenon DEF NoJob
<1> DEFINE n == [j EXCEPT !.next = @ + 1]
<1>3. /\ DOMAIN n = DOMAIN j /\ n.next = j.next + 1 /\ n.base = j.base /\ n.pages = j.pages
      /\ n.image = j.image /\ n.seg = j.seg
  BY <1>1, <1>2, Zenon
<1> HIDE DEF n
<1>4. n.next \in Int /\ (j.next \in Nat => n.next \in Nat) BY <1>1, <1>3
<1>5. JobFits(j, k) BY <1>1, Zenon DEF JobFits
<1>6. JobFits(n, k) BY <1>1, <1>3, <1>4, Zenon DEF JobFits
<1> QED BY <1>3, <1>5, <1>6, Zenon DEF n

\* A call begins, or ends, with no locals.
LEMMA FitsNoJob ==
  ASSUME NEW k, k \notin Loading
  PROVE  JobFits(NoJob, k)
BY DEF JobFits, NoJob, Loading, Copying

LEMMA MovesTo ==
  ASSUME JobShape, NEW c \in CPU, NEW k, NEW j, JobFits(j, k),
         pc' = [pc EXCEPT ![c] = k], job' = [job EXCEPT ![c] = j],
         UNCHANGED <<workload, memmap>>, mmap_next' \in Int, next_stack' \in Int
  PROVE  Moves(c) /\ pc'[c] = k /\ job'[c] = j
<1>1. pc = [d \in CPU |-> pc[d]] /\ job = [d \in CPU |-> job[d]] BY Zenon DEF JobShape
<1>2. pc'[c] = k /\ \A d \in CPU \ {c} : pc'[d] = pc[d] BY <1>1, Zenon
<1>3. job'[c] = j /\ \A d \in CPU \ {c} : job'[d] = job[d] BY <1>1, Zenon
<1>4. pc' = [d \in CPU |-> pc'[d]] /\ job' = [d \in CPU |-> job'[d]] BY <1>1, Zenon
<1> QED BY <1>2, <1>3, <1>4, Zenon DEF Moves

\* The locals as they are, and with the next page.
LEMMA MovesOn ==
  ASSUME JobShape, NEW c \in CPU, NEW k, Follows(k, pc[c]), pc' = [pc EXCEPT ![c] = k],
         job' = job \/ NextPage(c),
         UNCHANGED <<workload, memmap>>, mmap_next' \in Int, next_stack' \in Int
  PROVE  /\ Moves(c) /\ pc'[c] = k
         /\ job' = job => job'[c] = job[c]
         /\ NextPage(c) => job'[c].next = job[c].next + 1
<1>1. job = [d \in CPU |-> job[d]] /\ JobFits(job[c], pc[c]) BY Zenon DEF JobShape
<1> DEFINE n == [job[c] EXCEPT !.next = @ + 1]
<1>2. JobFits(job[c], k) /\ JobFits(n, k) /\ n.next = job[c].next + 1 BY <1>1, FitsNext, Zenon
<1>3. NextPage(c) => job' = [job EXCEPT ![c] = n] BY <1>1, Zenon DEF NextPage
<1>4. job = [job EXCEPT ![c] = job[c]] BY <1>1, Zenon
<1> HIDE DEF n
<1>5. CASE job' = job
  <2>1. PICK j : j = job[c] BY Zenon
  <2>2. Moves(c) /\ pc'[c] = k BY <1>2, <1>4, <1>5, <2>1, MovesTo, Zenon
  <2>3. NextPage(c) => job'[c].next = job[c].next + 1 BY <1>1, <1>2, <1>3, Zenon
  <2> QED BY <1>5, <2>2, <2>3, Zenon
<1>6. CASE NextPage(c)
  <2>1. PICK j : j = n BY Zenon
  <2>2. Moves(c) /\ pc'[c] = k /\ job'[c] = j BY <1>2, <1>3, <1>6, <2>1, MovesTo, Zenon
  <2> QED BY <1>2, <1>6, <2>1, <2>2, Zenon
<1> QED BY <1>5, <1>6, Zenon

\* The call returns.
LEMMA MovesHome ==
  ASSUME JobShape, NEW c \in CPU, Return(c),
         UNCHANGED <<workload, memmap>>, mmap_next' \in Int, next_stack' \in Int
  PROVE  Moves(c) /\ pc'[c] = "idle"
<1>1. JobFits(NoJob, "idle") BY FitsNoJob DEF Loading
<1> QED BY <1>1, MovesTo, Zenon DEF Return, Goto

\* The loader turns to segment i.
LEMMA MovesToSegment ==
  ASSUME JobShape, NEW c \in CPU, pc[c] \in Loading, NEW i \in Nat \ {0}, SegmentThen(c, i),
         pc' = [pc EXCEPT ![c] = "segment"],
         UNCHANGED <<workload, memmap, mmap_next, next_stack>>
  PROVE  Moves(c) /\ pc'[c] = "segment"
<1>1. job = [d \in CPU |-> job[d]] /\ JobFits(job[c], pc[c]) BY Zenon DEF JobShape
<1>2. job[c].image \in DOMAIN Images /\ DOMAIN job[c] = DOMAIN NoJob
      /\ job[c].base \in Int /\ job[c].pages \in Int
  BY <1>1, Zenon DEF JobFits
<1> DEFINE S == [vaddr : Nat, filesz : Nat, memsz : Nat, inside : BOOLEAN]
           n == IF i <= Len(Segs(c)) THEN PageOf(Segs(c)[i].vaddr) ELSE 0
<1>3. n \in Int
  <2>1. \A s \in S : s.vaddr \in Nat BY Zenon
  <2>2. Segs(c) \in Seq(S) BY <1>2, MemoryAssumption, Zenon DEF MemoryAssumption, Segs
  <2> HIDE DEF S
  <2>3. ASSUME i <= Len(Segs(c)) PROVE PageOf(Segs(c)[i].vaddr) \in Int
    <3>1. i \in 1 .. Len(Segs(c)) BY <2>2, <2>3
    <3>2. Segs(c)[i] \in S BY <2>2, <3>1
    <3>3. Segs(c)[i].vaddr \in Nat BY <2>1, <3>2, Zenon
    <3> QED BY <3>3, MemoryAssumption DEF MemoryAssumption, PageOf
  <2> QED BY <2>3
<1> HIDE DEF n
<1>4. PICK m : m = n BY Zenon
<1> DEFINE j == [job[c] EXCEPT !.seg = i, !.next = m]
<1>5. DOMAIN NoJob = {"base", "pages", "next", "image", "seg", "buffer"} BY Zenon DEF NoJob
<1>6. /\ DOMAIN j = DOMAIN NoJob /\ j.base = job[c].base /\ j.pages = job[c].pages
      /\ j.next = m /\ j.image = job[c].image /\ j.seg = i
  BY <1>2, <1>5, Zenon
<1>7. job' = [job EXCEPT ![c] = j] BY <1>1, <1>4, Zenon DEF SegmentThen, n
<1> HIDE DEF j
<1>8. JobFits(j, "segment") BY <1>2, <1>3, <1>4, <1>6, Zenon DEF JobFits, Counting, Loading, Copying
<1>9. mmap_next' \in Int /\ next_stack' \in Int BY Zenon DEF JobShape
<1>10. PICK k : k = j BY Zenon
<1> QED BY <1>7, <1>8, <1>9, <1>10, MovesTo, Zenon

-----------------------------------------------------------------------------
(* Steps of the calls *)

\* Not map_framebuffer, or its panic.
OffScreen(c) ==
  /\ fb_mapped' = fb_mapped
  /\ pc[c] = "panic" => pc'[c] = "panic"
  /\ pc'[c] # "fb_map"
  /\ pc[c] = "fb_map" => pc'[c] = "panic"

LEMMA OffScreenKept ==
  ASSUME ScreenRight, NEW c \in CPU, Moves(c), OffScreen(c), \A f \in OnScreen : Shown(f)' => Shown(f)
  PROVE  ScreenRight'
<1>1. pc[c] = "fb_map" => pc'[c] \in {"fb_map", "panic"} BY Zenon DEF OffScreen
<1> QED BY <1>1, ScreenKept, Zenon DEF OffScreen

LEMMA QuietGoesOn ==
  ASSUME FrameInv, NEW c \in CPU, Busy(c), Up, Moves(c), OffScreen(c),
         UNCHANGED <<bitmap, hint, pmm, page, table, walk, held>>,
         pc'[c] \notin AwaitsPage \cup {"pmm_init"},
         InPmm(c) \/ InWalk(c) => Busy(c)',
         mmap_lock' = mmap_lock \/ pc'[c] = "idle"
  PROVE  FrameInv'
<1>1. Hardware BY Zenon DEF Hardware, FrameInv
<1>2. pc'[c] # "pmm_init" /\ pc'[c] \notin AwaitsPage BY Zenon
<1>3. Hardware' /\ OthersRest(c) /\ \A f : Shown(f)' = Shown(f) BY <1>1, <1>2, QuietStep, Zenon
<1>4. Inside(c) BY <1>2, Zenon DEF Inside, InPmm, InWalk
<1>5. Turns' BY <1>3, <1>4, TurnsGoOn, Zenon DEF FrameInv
<1>6. ScreenRight' BY <1>3, OffScreenKept, Zenon DEF FrameInv
<1> QED BY <1>3, <1>5, <1>6, Zenon DEF FrameInv, Hardware

LEMMA AllocGoesOn ==
  ASSUME FrameInv, NEW c \in CPU, Busy(c), Up, Moves(c), OffScreen(c),
         PmmEnter(c), ~InWalk(c), UNCHANGED <<table, walk, held, mmap_lock>>, pc'[c] \in AwaitsPage
  PROVE  FrameInv'
<1>1. Hardware BY Zenon DEF Hardware, FrameInv
<1>2. pc'[c] # "pmm_init" /\ pc'[c] \notin {"idle", "off"} BY Zenon DEF AwaitsPage
<1>3. Hardware' /\ OthersRest(c) /\ \A f : Shown(f)' = Shown(f) BY <1>1, <1>2, AllocStep, Zenon
<1>4. Inside(c) BY <1>2, Zenon DEF Inside, InWalk, Busy
<1>5. Turns' BY <1>3, <1>4, TurnsGoOn, Zenon DEF FrameInv
<1>6. ScreenRight' BY <1>3, OffScreenKept, Zenon DEF FrameInv
<1> QED BY <1>3, <1>5, <1>6, Zenon DEF FrameInv, Hardware

\* The page that pmm_alloc_page has returned goes to vmm_map_page_flags.
LEMMA MapGoesOn ==
  ASSUME FrameInv, NEW c \in CPU, pc[c] \in AwaitsPage, Moves(c), OffScreen(c),
         ~InPmm(c), ~InWalk(c), page[c] # PMM_NO_PAGE,
         NEW va \in Int, NEW user \in BOOLEAN, MapEnter(c, va, page[c], user),
         UNCHANGED <<bitmap, hint, pmm, page, held, mmap_lock>>,
         pc'[c] \notin AwaitsPage \cup {"pmm_init", "idle", "off"}
  PROVE  FrameInv'
<1>1. Hardware BY Zenon DEF Hardware, FrameInv
<1>2. pc[c] \notin {"idle", "off", "pmm_init", "panic"} BY Zenon DEF AwaitsPage
<1>3. Busy(c) /\ Up BY <1>2, IsUp, Zenon DEF FrameInv, Busy
<1>4. pc'[c] # "pmm_init" /\ pc'[c] \notin AwaitsPage /\ Busy(c)' BY Zenon DEF Busy
<1>5. HoldsPage(c) BY Zenon DEF HoldsPage, InWalk
<1>6. PICK g : g = page[c] BY Zenon
<1>7. Pending(g) /\ Taken(g) BY <1>5, <1>6, Zenon DEF FrameInv, Owned, Hands
<1>8. g \in Int /\ g \notin OnScreen BY <1>7, RamFacts DEF FrameInv, Shape, Taken
<1>9. \A d \in CPU \ {c} : ~InWalk(d) /\ ~HoldsPage(d) BY <1>3, BusyAlone, Zenon DEF FrameInv
<1>10. Hardware' /\ OthersRest(c) /\ \A f : Shown(f)' => Shown(f) \/ f = g
  <2>1. MapEnter(c, va, g, user) BY <1>6, Zenon
  <2> QED BY <1>1, <1>3, <1>4, <1>7, <1>8, <1>9, <2>1, MapCallStep
<1>11. Inside(c) BY <1>4, Zenon DEF Inside
<1>12. Turns' BY <1>3, <1>10, <1>11, TurnsGoOn, Zenon DEF FrameInv
<1>13. ScreenRight' BY <1>8, <1>10, OffScreenKept, Zenon DEF FrameInv
<1> QED BY <1>10, <1>12, <1>13, Zenon DEF FrameInv, Hardware

\* Labels at which a call other than map_framebuffer runs.
Working(l) == l \notin {"idle", "off", "pmm_init", "panic", "fb_map"}

LEMMA RunningFacts ==
  ASSUME FrameInv, NEW c \in CPU, NEW l, Running(c, l), Working(l)
  PROVE  pc[c] = l /\ Busy(c) /\ Up /\ ~InPmm(c) /\ ~InWalk(c) /\ JobShape
         /\ mmap_next \in Int /\ next_stack \in Int
         /\ job[c].base \in Int /\ job[c].pages \in Int /\ job[c].next \in Int
<1>1. pc[c] = l /\ ~InPmm(c) /\ ~InWalk(c) BY Zenon DEF Running
<1>2. pc[c] \notin {"idle", "off", "pmm_init", "panic"} BY <1>1, Zenon DEF Working
<1>3. Busy(c) BY <1>2, Zenon DEF Busy
<1>4. Up BY <1>2, IsUp, Zenon DEF FrameInv
<1>5. JobShape /\ JobFits(job[c], pc[c]) BY Zenon DEF FrameInv, Shape, JobShape
<1> QED BY <1>1, <1>3, <1>4, <1>5, Zenon DEF JobShape, JobFits

\* What the calls leave alone, but for the variables that only they use.
Untouched == UNCHANGED <<workload, mmap_next, next_stack, mmap_lock, fb_mapped, held>>

LEMMA AllocThenGoesOn ==
  ASSUME FrameInv, NEW c \in CPU, NEW l, Running(c, l), Working(l), NEW k \in AwaitsPage,
         AllocThen(c, k), Follows(k, l), UNCHANGED <<clientVars, job>>
  PROVE  FrameInv'
<1>1. pc[c] = l /\ Busy(c) /\ Up /\ ~InWalk(c) /\ JobShape /\ mmap_next \in Int /\ next_stack \in Int
  BY RunningFacts, Zenon
<1>2. /\ PmmEnter(c) /\ pc' = [pc EXCEPT ![c] = k] /\ job' = job /\ memmap' = memmap
      /\ UNCHANGED <<table, walk>> /\ Untouched
  BY Zenon DEF AllocThen, Goto, tableVars, clientVars, PmmEnter, Untouched
<1>3. Moves(c) /\ pc'[c] = k
  <2>1. UNCHANGED <<workload, memmap>> /\ mmap_next' \in Int /\ next_stack' \in Int
    BY <1>1, <1>2, Zenon DEF Untouched
  <2> QED BY <1>1, <1>2, <2>1, MovesOn, Zenon
<1>4. OffScreen(c) BY <1>1, <1>2, <1>3, Zenon DEF OffScreen, Working, Untouched, AwaitsPage
<1> QED BY <1>1, <1>2, <1>3, <1>4, AllocGoesOn, Zenon DEF Untouched

LEMMA MapThenGoesOn ==
  ASSUME FrameInv, NEW c \in CPU, NEW l \in AwaitsPage, Running(c, l), page[c] # PMM_NO_PAGE,
         NEW va \in Int, NEW user \in BOOLEAN, NEW k, MapThen(c, va, page[c], user, k),
         Follows(k, l), k \notin AwaitsPage, Working(k), job' = job \/ NextPage(c), Untouched
  PROVE  FrameInv'
<1>0. Working(l) BY Zenon DEF Working, AwaitsPage
<1>1. /\ pc[c] = l /\ Busy(c) /\ Up /\ ~InPmm(c) /\ ~InWalk(c) /\ JobShape
      /\ mmap_next \in Int /\ next_stack \in Int
  BY <1>0, RunningFacts, Zenon
<1>2. /\ MapEnter(c, va, page[c], user) /\ pc' = [pc EXCEPT ![c] = k]
      /\ UNCHANGED <<memmap, bitmap, hint, pmm, page>>
  BY Zenon DEF MapThen, Goto, frameVars
<1>3. Moves(c) /\ pc'[c] = k
  <2>1. UNCHANGED <<workload, memmap>> /\ mmap_next' \in Int /\ next_stack' \in Int
    BY <1>1, <1>2, Zenon DEF Untouched
  <2> QED BY <1>1, <1>2, <2>1, MovesOn, Zenon
<1>4. OffScreen(c) BY <1>0, <1>1, <1>3, Zenon DEF OffScreen, Working, Untouched
<1>5. pc'[c] \notin AwaitsPage \cup {"pmm_init", "idle", "off"} BY <1>3, Zenon DEF Working
<1>6. UNCHANGED <<bitmap, hint, pmm, page, held, mmap_lock>> BY <1>2, Zenon DEF Untouched
<1> QED BY <1>1, <1>2, <1>3, <1>4, <1>5, <1>6, MapGoesOn, Zenon

\* The call goes on, or fails, without touching frames or tables.
LEMMA QuietFollows ==
  ASSUME FrameInv, NEW c \in CPU, NEW l, Running(c, l), Working(l), Moves(c),
         pc'[c] \notin AwaitsPage \cup {"pmm_init", "fb_map"},
         UNCHANGED <<frameVars, tableVars, fb_mapped, held>>,
         mmap_lock' = mmap_lock \/ pc'[c] = "idle"
  PROVE  FrameInv'
<1>1. pc[c] = l /\ Busy(c) /\ Up /\ ~InPmm(c) /\ ~InWalk(c) BY RunningFacts, Zenon
<1>2. UNCHANGED <<bitmap, hint, pmm, page, table, walk, held>> BY Zenon DEF frameVars, tableVars
<1>3. OffScreen(c) BY <1>1, Zenon DEF OffScreen, Working
<1>4. pc'[c] \notin AwaitsPage \cup {"pmm_init"} BY Zenon
<1> QED BY <1>1, <1>2, <1>3, <1>4, QuietGoesOn, Zenon

LEMMA ReturnGoesOn ==
  ASSUME FrameInv, NEW c \in CPU, NEW l, Running(c, l), Working(l), Return(c),
         UNCHANGED <<frameVars, tableVars, mmap_next, fb_mapped, next_stack, workload, held>>
  PROVE  FrameInv'
<1>1. JobShape /\ mmap_next \in Int /\ next_stack \in Int BY RunningFacts, Zenon
<1>2. UNCHANGED <<workload, memmap>> /\ mmap_next' \in Int /\ next_stack' \in Int
  BY <1>1, Zenon DEF frameVars
<1>3. Moves(c) /\ pc'[c] = "idle" BY <1>1, <1>2, MovesHome, Zenon
<1>4. pc'[c] \notin AwaitsPage \cup {"pmm_init", "fb_map"} BY <1>3, Zenon DEF AwaitsPage
<1> QED BY <1>3, <1>4, QuietFollows, Zenon

-----------------------------------------------------------------------------
(* kmain *)

LEMMA BootStep ==
  ASSUME SetFacts, FrameInv, NEW c \in CPU, Boot(c)
  PROVE  FrameInv'
<1>1. /\ pc[c] = "pmm_init" /\ job' = job /\ UNCHANGED <<table, walk, clientVars>>
      /\ \/ PmmInit /\ pc' = [pc EXCEPT ![c] = "kheap"]
         \/ UNCHANGED frameVars /\ pc' = [pc EXCEPT ![c] = "panic"]
  BY Zenon DEF Boot, Goto, Panic, tableVars
<1>2. Untouched /\ UNCHANGED held BY <1>1, Zenon DEF clientVars, Untouched
<1>3. ~Up /\ Busy(c) BY <1>1, Zenon DEF FrameInv, StartRight, Busy
<1>4. \A d \in CPU : pc[d] \in {"pmm_init", "off", "panic"} /\ ~InPmm(d) /\ ~InWalk(d)
  BY <1>3, Zenon DEF FrameInv, StartRight
<1>5. /\ UNCHANGED <<memmap, pmm, page>> /\ (pc' = [pc EXCEPT ![c] = "kheap"] => PmmInit)
      /\ (pc' = [pc EXCEPT ![c] = "panic"] => UNCHANGED frameVars)
      /\ \E k \in {"kheap", "panic"} : pc' = [pc EXCEPT ![c] = k]
  <2>1. pc = [d \in CPU |-> pc[d]] BY Zenon DEF FrameInv, Shape, JobShape
  <2>2. [pc EXCEPT ![c] = "kheap"] # [pc EXCEPT ![c] = "panic"] BY <2>1, Zenon
  <2> QED BY <1>1, <2>2, Zenon DEF PmmInit, frameVars
<1>6. PICK k \in {"kheap", "panic"} : pc' = [pc EXCEPT ![c] = k] BY <1>5, Zenon
<1>7. Moves(c) /\ pc'[c] = k
  <2>1. JobShape /\ JobFits(job[c], pc[c]) /\ job = [d \in CPU |-> job[d]]
        /\ mmap_next \in Int /\ next_stack \in Int
    BY Zenon DEF FrameInv, Shape, JobShape
  <2>2. job[c] = NoJob BY <1>1, <2>1, Zenon DEF JobFits
  <2>3. JobFits(NoJob, k) BY FitsNoJob, Zenon DEF Loading
  <2>4. job' = [job EXCEPT ![c] = NoJob] BY <1>1, <2>1, <2>2, Zenon
  <2>5. UNCHANGED <<workload, memmap>> /\ mmap_next' \in Int /\ next_stack' \in Int
    BY <1>2, <1>5, <2>1, Zenon DEF Untouched
  <2> QED BY <1>6, <2>1, <2>3, <2>4, <2>5, MovesTo, Zenon
<1>8. \A d \in CPU : ~InPmm(d)' /\ ~InWalk(d)' BY <1>1, <1>4, <1>5, Zenon DEF InPmm, InWalk
<1>9. \A d \in CPU : ~HoldsPage(d)'
  <2>1. \A d \in CPU : pc'[d] \in {"pmm_init", "off", "panic", "kheap"}
    BY <1>4, <1>7, Zenon DEF Moves
  <2> QED BY <1>8, <2>1, Zenon DEF HoldsPage, InWalk, AwaitsPage
<1>10. OthersRest(c) BY <1>1, <1>5, Zenon DEF OthersRest
<1>11. Inside(c) BY <1>8, Zenon DEF Inside
<1>12. Turns' BY <1>2, <1>3, <1>7, <1>10, <1>11, TurnsGoOn, Zenon DEF FrameInv, Untouched
<1>13. Levelled' BY <1>1, <1>8, SameLevels, Zenon DEF FrameInv
<1>14. ScreenRight'
  <2>1. \A f : Linked(f)' = Linked(f) BY <1>1, Zenon DEF Linked, Links, LinkedFrame
  <2>2. \A f \in OnScreen : Shown(f)' => Shown(f) BY <1>8, <2>1, Zenon DEF Shown
  <2>3. OffScreen(c) BY <1>1, <1>2, <1>7, Zenon DEF OffScreen, Untouched
  <2> QED BY <1>7, <2>2, <2>3, OffScreenKept, Zenon DEF FrameInv
<1>15. JobShape' BY <1>7, JobsFit, Zenon DEF FrameInv, Shape
<1>16. Shape' BY <1>1, <1>5, <1>15, Zenon DEF FrameInv, Shape, WalkRecord, Entry, PmmRecord, Bit
<1>17. StartRight' /\ Owned'
  <2>1. CASE k = "kheap"
    <3>1. PmmInit BY <1>5, <1>6, <2>1, Zenon
    <3>2. Owned' /\ Up' BY <1>1, <1>2, <1>3, <1>9, <3>1, BootOwned, Zenon DEF FrameInv
    <3>3. \A d \in CPU \ {c} : pc'[d] # "pmm_init"
      <4>1. ASSUME NEW d \in CPU \ {c} PROVE pc'[d] # "pmm_init"
        <5>1. ~Busy(d) BY <1>3, BusyAlone, Zenon DEF FrameInv
        <5> QED BY <1>7, <5>1, Zenon DEF Busy, Moves
      <4> QED BY <4>1, Zenon
    <3> QED BY <1>7, <2>1, <3>2, <3>3, Zenon DEF StartRight
  <2>2. CASE k = "panic"
    <3>1. UNCHANGED frameVars BY <1>5, <1>6, <2>2, Zenon
    <3>2. UNCHANGED <<memmap, bitmap, hint, pmm, page>> BY <3>1, Zenon DEF frameVars
    <3>3. Owned' BY <1>1, <1>2, <1>9, <3>2, QuietOwned, Zenon DEF FrameInv
    <3>4. Up' = Up /\ Links' = Links BY <1>1, <3>2, Zenon DEF Up, Links
    <3>5. \A d \in CPU : pc'[d] \in {"pmm_init", "off", "panic"} BY <1>4, <1>7, <2>2, Zenon DEF Moves
    <3>6. Links = {} /\ DOMAIN table = {PML4} /\ held = {} BY <1>3, Zenon DEF FrameInv, StartRight
    <3> QED BY <1>1, <1>2, <1>3, <1>8, <3>3, <3>4, <3>5, <3>6, Zenon DEF StartRight
  <2> QED BY <2>1, <2>2, Zenon
<1> QED BY <1>12, <1>13, <1>14, <1>16, <1>17, Zenon DEF FrameInv

\* kheap_init returns, and the other processors are released; or it panics.
LEMMA HeapReadyStep ==
  ASSUME FrameInv, NEW c \in CPU, HeapReady(c)
  PROVE  FrameInv'
<1>1. PICK l \in {"kheap", "kheap_map"} : Running(c, l) /\ (l = "kheap_map" => page[c] = PMM_NO_PAGE)
  BY Zenon DEF HeapReady
<1>2. Working(l) BY Zenon DEF Working
<1>3. /\ pc[c] = l /\ Busy(c) /\ Up /\ ~InPmm(c) /\ ~InWalk(c) /\ JobShape
      /\ mmap_next \in Int /\ next_stack \in Int
  BY <1>1, <1>2, RunningFacts, Zenon
<1>4. UNCHANGED <<frameVars, tableVars, mmap_next, mmap_lock, fb_mapped, next_stack, workload, held>>
  BY Zenon DEF HeapReady
<1>5. CASE Panic(c) /\ job' = job
  <2>1. Follows("panic", pc[c]) BY Zenon DEF Follows, Counting, Loading, Copying
  <2>2. UNCHANGED <<workload, memmap>> /\ mmap_next' \in Int /\ next_stack' \in Int
    BY <1>3, <1>4, Zenon DEF frameVars
  <2>3. Moves(c) /\ pc'[c] = "panic" BY <1>3, <1>5, <2>1, <2>2, MovesOn, Zenon DEF Panic, Goto
  <2>4. pc'[c] \notin AwaitsPage \cup {"pmm_init", "fb_map"} BY <2>3, Zenon DEF AwaitsPage
  <2> QED BY <1>1, <1>2, <1>4, <2>3, <2>4, QuietFollows, Zenon
<1>6. CASE pc' = [d \in CPU |-> "idle"] /\ job' = [job EXCEPT ![c] = NoJob]
  <2>1. /\ UNCHANGED <<memmap, bitmap, hint, pmm, page, table, walk, held>>
        /\ UNCHANGED <<workload, fb_mapped, mmap_next, next_stack>>
    BY <1>4, Zenon DEF frameVars, tableVars
  <2>2. \A d \in CPU \ {c} : pc[d] \in {"idle", "off"} /\ ~InPmm(d) /\ ~InWalk(d)
    BY <1>3, BusyAlone, Zenon DEF FrameInv, Busy
  <2>3. \A d \in CPU : pc'[d] = "idle" BY <1>6, Zenon
  <2>4. \A d \in CPU : ~InPmm(d)' /\ ~InWalk(d)' /\ ~HoldsPage(d)' /\ ~Busy(d)'
    <3>1. \A d \in CPU : ~InPmm(d)' /\ ~InWalk(d)' BY <1>3, <2>1, <2>2, Zenon DEF InPmm, InWalk
    <3> QED BY <2>3, <3>1, Zenon DEF HoldsPage, InWalk, AwaitsPage, Busy
  <2>5. Turns' BY <2>1, <2>4, Zenon DEF FrameInv, Turns
  <2>6. JobShape'
    <3>1. \A d \in CPU : JobFits(job'[d], pc'[d])
      <4>1. job = [d \in CPU |-> job[d]] /\ \A d \in CPU : JobFits(job[d], pc[d])
        BY Zenon DEF FrameInv, Shape, JobShape
      <4>2. \A d \in CPU \ {c} : job[d] = NoJob BY <2>2, <4>1, Zenon DEF JobFits
      <4>3. \A d \in CPU : job'[d] = NoJob BY <1>6, <4>1, <4>2, Zenon
      <4>4. JobFits(NoJob, "idle") BY FitsNoJob DEF Loading
      <4> QED BY <2>3, <4>3, <4>4, Zenon
    <3>2. \A d \in CPU : JobFits(job[d], pc[d])'
      BY <3>1, Zenon DEF JobFits, NoJob, Counting, Loading, Copying
    <3>3. job' = [d \in CPU |-> job'[d]] BY <1>6, Zenon DEF FrameInv, Shape, JobShape
    <3>4. pc' = [d \in CPU |-> pc'[d]] BY <1>6, Zenon
    <3> QED BY <1>3, <2>1, <3>2, <3>3, <3>4, Zenon DEF JobShape
  <2>7. Shape' BY <2>1, <2>6, Zenon DEF FrameInv, Shape, WalkRecord, Entry, PmmRecord, Bit
  <2>8. StartRight' BY <1>3, <2>1, <2>3, Zenon DEF StartRight, Up
  <2>9. Owned' BY <2>1, <2>4, QuietOwned, Zenon DEF FrameInv
  <2>10. Levelled' BY <2>1, SameLevels, Zenon DEF FrameInv, InWalk
  <2>11. ScreenRight'
    <3>1. \A f : Linked(f)' = Linked(f) BY <2>1, Zenon DEF Linked, Links, LinkedFrame
    <3>2. \A d \in CPU : pc[d] # "panic" /\ pc[d] # "fb_map" BY <1>3, <2>2, Zenon
    <3> QED BY <2>1, <2>3, <2>4, <3>1, <3>2, Zenon DEF FrameInv, ScreenRight
  <2> QED BY <2>5, <2>7, <2>8, <2>9, <2>10, <2>11, Zenon DEF FrameInv
<1> QED BY <1>5, <1>6, Zenon DEF HeapReady

-----------------------------------------------------------------------------
(* map_framebuffer *)

\* map_framebuffer runs alone, and has mapped the frames before the next.
LEMMA ScreenFacts ==
  ASSUME FrameInv, NEW c \in CPU, Running(c, "fb_map")
  PROVE  /\ Busy(c) /\ Up /\ ~InPmm(c) /\ ~InWalk(c) /\ ~fb_mapped
         /\ job[c].next \in Nat /\ mmap_next \in Int /\ next_stack \in Int
         /\ \A i \in DOMAIN FbFrames : Shown(FbFrames[i]) => i <= job[c].next
         /\ \A d \in CPU \ {c} : pc[d] \notin {"fb_map", "panic"}
<1>1. pc[c] = "fb_map" /\ ~InPmm(c) /\ ~InWalk(c) BY Zenon DEF Running
<1>2. Busy(c) BY <1>1, Zenon DEF Busy
<1>3. Up BY <1>1, IsUp, Zenon DEF FrameInv
<1>4. ~fb_mapped BY <1>1, Zenon DEF FrameInv, ScreenRight
<1>5. job[c].next \in Nat /\ mmap_next \in Int /\ next_stack \in Int
  BY <1>1, Zenon DEF FrameInv, Shape, JobShape, JobFits, Counting
<1>6. \A d \in CPU \ {c} : pc[d] \notin {"fb_map", "panic"}
  <2>1. \A d \in CPU \ {c} : ~Busy(d) BY <1>2, BusyAlone, Zenon DEF FrameInv
  <2> QED BY <2>1, Zenon DEF Busy
<1>7. ASSUME NEW i \in DOMAIN FbFrames, Shown(FbFrames[i]) PROVE i <= job[c].next
  <2>1. PICK d \in CPU : pc[d] = "panic" \/ (pc[d] = "fb_map" /\ i <= job[d].next)
    BY <1>4, <1>7, Zenon DEF FrameInv, ScreenRight, Shown
  <2>2. d = c BY <1>6, <2>1, Zenon
  <2> QED BY <1>1, <2>1, <2>2, Zenon
<1> QED BY <1>1, <1>2, <1>3, <1>4, <1>5, <1>6, <1>7, Zenon

\* The next frame of the screen is mapped.
LEMMA FbMapPageStep ==
  ASSUME FrameInv, NEW c \in CPU, FbMapPage(c)
  PROVE  FrameInv'
<1> DEFINE n == job[c].next
<1>1. /\ Running(c, "fb_map") /\ n < Len(FbFrames)
      /\ MapEnter(c, FB_USER_BASE + n, FbFrames[n + 1], TRUE) /\ pc' = [pc EXCEPT ![c] = "fb_map"]
      /\ UNCHANGED <<memmap, bitmap, hint, pmm, page>> /\ NextPage(c) /\ Untouched
  BY Zenon DEF FbMapPage, MapThen, Goto, frameVars, clientVars, Untouched
<1>2. /\ Busy(c) /\ Up /\ ~InPmm(c) /\ ~InWalk(c) /\ ~fb_mapped
      /\ n \in Nat /\ mmap_next \in Int /\ next_stack \in Int
      /\ \A i \in DOMAIN FbFrames : Shown(FbFrames[i]) => i <= n
      /\ \A d \in CPU \ {c} : pc[d] \notin {"fb_map", "panic"}
  BY <1>1, ScreenFacts, Zenon
<1>3. /\ n + 1 \in DOMAIN FbFrames /\ FbFrames[n + 1] \in Nat /\ FB_USER_BASE + n \in Int
      /\ FbFrames[n + 1] \in OnScreen
  <2>1. FbFrames \in Seq(Nat) /\ FB_USER_BASE \in Nat BY MemoryAssumption, Zenon DEF MemoryAssumption
  <2>2. n + 1 \in 1 .. Len(FbFrames) BY <1>1, <1>2, <2>1
  <2> QED BY <1>2, <2>1, <2>2 DEF OnScreen, Range
<1>4. PICK g : g = FbFrames[n + 1] BY Zenon
<1>5. PICK va : va = FB_USER_BASE + n BY Zenon
<1>6. Pending(g)
  <2>1. g \notin DOMAIN table
    <3>1. g # PML4 BY <1>3, <1>4, MemoryAssumption, Zenon DEF MemoryAssumption, OnScreen
    <3>2. \A f \in Ram : f # g BY <1>3, <1>4, RamFacts, Zenon DEF FrameInv, Shape
    <3> QED BY <3>1, <3>2, Zenon DEF FrameInv, Owned, TablesRight, Taken
  <2>2. ~Shown(g)
    <3>1. ASSUME Shown(g) PROVE FALSE
      <4>1. n + 1 <= n BY <1>2, <1>3, <1>4, <3>1, Zenon
      <4> QED BY <1>2, <4>1
    <3> QED BY <3>1, Zenon
  <2> QED BY <1>3, <1>4, <2>1, <2>2, Zenon DEF Pending, Shown
<1>7. Follows("fb_map", pc[c]) BY <1>1, Zenon DEF Follows, Running, Counting, Loading, Copying
<1>8. Moves(c) /\ pc'[c] = "fb_map" /\ job'[c].next = n + 1
  <2>1. UNCHANGED <<workload, memmap>> /\ mmap_next' \in Int /\ next_stack' \in Int
    BY <1>1, <1>2, Zenon DEF Untouched
  <2>2. JobShape BY Zenon DEF FrameInv, Shape
  <2> QED BY <1>1, <1>7, <2>1, <2>2, MovesOn, Zenon
<1>9. Hardware' /\ OthersRest(c) /\ \A f : Shown(f)' => Shown(f) \/ f = g
  <2>1. va \in Int /\ g \in Int BY <1>3, <1>4, <1>5
  <2>2. PICK user : user = TRUE BY Zenon
  <2>3. user \in BOOLEAN /\ MapEnter(c, va, g, user) BY <1>1, <1>4, <1>5, <2>2, Zenon
  <2>4. \A d \in CPU \ {c} : ~InWalk(d) /\ ~HoldsPage(d) BY <1>2, BusyAlone, Zenon DEF FrameInv
  <2>5. Hardware /\ Up /\ Moves(c) BY <1>2, <1>8, Zenon DEF Hardware, FrameInv
  <2>6. pc'[c] # "pmm_init" BY <1>8, Zenon
  <2>7. UNCHANGED <<bitmap, hint, pmm, page, held>> BY <1>1, Zenon DEF Untouched
  <2> QED BY <1>6, <2>1, <2>3, <2>4, <2>5, <2>6, <2>7, MapCallStep
<1>10. Inside(c) BY <1>8, Zenon DEF Inside, Busy, AwaitsPage
<1>11. Turns' BY <1>1, <1>2, <1>8, <1>9, <1>10, TurnsGoOn, Zenon DEF FrameInv, Untouched
<1>12. ScreenRight'
  <2>1. ASSUME NEW i \in DOMAIN FbFrames, Shown(FbFrames[i])' PROVE i <= job'[c].next
    <3>1. CASE Shown(FbFrames[i])
      <4>1. i <= n /\ i \in Nat BY <1>2, <3>1, MemoryAssumption DEF MemoryAssumption
      <4> QED BY <1>2, <1>8, <4>1
    <3>2. CASE FbFrames[i] = g
      <4>1. i = n + 1 BY <1>3, <1>4, <3>2, MemoryAssumption, Zenon DEF MemoryAssumption
      <4> QED BY <1>2, <1>8, <4>1
    <3> QED BY <1>9, <2>1, <3>1, <3>2, Zenon
  <2>2. \A d \in CPU : ~fb_mapped' BY <1>1, <1>2, Zenon DEF Untouched
  <2> QED BY <1>8, <2>1, <2>2, Zenon DEF ScreenRight, Shown
<1> QED BY <1>9, <1>11, <1>12, Zenon DEF FrameInv, Hardware

\* map_framebuffer sets FB_MAPPED and returns.
LEMMA FbMapReturnStep ==
  ASSUME FrameInv, NEW c \in CPU, FbMapReturn(c)
  PROVE  FrameInv'
<1>1. /\ Running(c, "fb_map") /\ Return(c) /\ fb_mapped'
      /\ UNCHANGED <<memmap, bitmap, hint, pmm, page, table, walk, held>>
      /\ UNCHANGED <<mmap_next, next_stack, workload, mmap_lock>>
  BY Zenon DEF FbMapReturn, frameVars, tableVars
<1>2. /\ Busy(c) /\ Up /\ ~InPmm(c) /\ ~InWalk(c) /\ mmap_next \in Int /\ next_stack \in Int
      /\ \A d \in CPU \ {c} : pc[d] # "fb_map"
  BY <1>1, ScreenFacts, Zenon
<1>3. Moves(c) /\ pc'[c] = "idle"
  <2>1. JobShape /\ UNCHANGED <<workload, memmap>> /\ mmap_next' \in Int /\ next_stack' \in Int
    BY <1>1, <1>2, Zenon DEF FrameInv, Shape
  <2> QED BY <1>1, <2>1, MovesHome, Zenon
<1>4. Hardware' /\ OthersRest(c)
  <2>1. Hardware BY Zenon DEF Hardware, FrameInv
  <2>2. pc'[c] # "pmm_init" /\ pc'[c] \notin AwaitsPage BY <1>3, Zenon DEF AwaitsPage
  <2> QED BY <1>1, <1>2, <1>3, <2>1, <2>2, QuietStep, Zenon
<1>5. Inside(c) BY <1>1, <1>2, Zenon DEF Inside, InPmm, InWalk
<1>6. Turns' BY <1>1, <1>2, <1>3, <1>4, <1>5, TurnsGoOn, Zenon DEF FrameInv
<1>7. \A d \in CPU : pc'[d] # "fb_map" BY <1>2, <1>3, Zenon DEF Moves
<1>8. ScreenRight' BY <1>1, <1>7, Zenon DEF ScreenRight
<1> QED BY <1>4, <1>6, <1>8, Zenon DEF FrameInv, Hardware

-----------------------------------------------------------------------------
(* Pages for the heap, for mmap and for stacks *)

\* get_or_create_table panics when no page is left for a table.
LEMMA OutOfTablesStep ==
  ASSUME FrameInv, NEW c \in CPU, OutOfTables(c)
  PROVE  FrameInv'
<1>1. /\ InWalk(c) /\ pc[c] # "panic" /\ pc' = [pc EXCEPT ![c] = "panic"] /\ job' = job
      /\ UNCHANGED <<memmap, bitmap, hint, pmm, page, table, walk>> /\ Untouched
  BY Zenon DEF OutOfTables, MapPanics, InWalk, Panic, Goto, frameVars, tableVars, clientVars, Untouched
<1>2. Busy(c) /\ Up BY <1>1, IsUp, Zenon DEF FrameInv, Turns
<1>3. Moves(c) /\ pc'[c] = "panic"
  <2>1. Follows("panic", pc[c]) BY Zenon DEF Follows, Counting, Loading, Copying
  <2>2. JobShape BY Zenon DEF FrameInv, Shape
  <2>3. UNCHANGED <<workload, memmap>> /\ mmap_next' \in Int /\ next_stack' \in Int
    BY <1>1, <2>2, Zenon DEF Untouched, JobShape
  <2> QED BY <1>1, <2>1, <2>2, <2>3, MovesOn, Zenon
<1>4. OffScreen(c) BY <1>1, <1>3, Zenon DEF OffScreen, Untouched
<1>5. Busy(c)' /\ pc'[c] \notin AwaitsPage \cup {"pmm_init"} BY <1>3, Zenon DEF Busy, AwaitsPage
<1>6. UNCHANGED <<bitmap, hint, pmm, page, table, walk, held, mmap_lock>> BY <1>1, Zenon DEF Untouched
<1> QED BY <1>2, <1>3, <1>4, <1>5, <1>6, QuietGoesOn, Zenon

\* The loops of kheap_init, sys_mmap and load_and_spawn ask for their next page.
LEMMA AllocActions ==
  ASSUME FrameInv, NEW c \in CPU, HeapAlloc(c) \/ MmapAlloc(c) \/ StackAlloc(c)
  PROVE  FrameInv'
<1>1. CASE HeapAlloc(c)
  <2>1. Running(c, "kheap") /\ AllocThen(c, "kheap_map") /\ UNCHANGED <<clientVars, job>>
    BY <1>1, Zenon DEF HeapAlloc
  <2>2. Working("kheap") /\ "kheap_map" \in AwaitsPage /\ Follows("kheap_map", "kheap")
    BY Zenon DEF Working, AwaitsPage, Follows, Counting, Loading, Copying
  <2> QED BY <2>1, <2>2, AllocThenGoesOn, Zenon
<1>2. CASE MmapAlloc(c)
  <2>1. Running(c, "mmap") /\ AllocThen(c, "mmap_page") /\ UNCHANGED <<clientVars, job>>
    BY <1>2, Zenon DEF MmapAlloc
  <2>2. Working("mmap") /\ "mmap_page" \in AwaitsPage /\ Follows("mmap_page", "mmap")
    BY Zenon DEF Working, AwaitsPage, Follows, Counting, Loading, Copying
  <2> QED BY <2>1, <2>2, AllocThenGoesOn, Zenon
<1>3. CASE StackAlloc(c)
  <2>1. Running(c, "stack") /\ AllocThen(c, "stack_page") /\ UNCHANGED <<clientVars, job>>
    BY <1>3, Zenon DEF StackAlloc
  <2>2. Working("stack") /\ "stack_page" \in AwaitsPage /\ Follows("stack_page", "stack")
    BY Zenon DEF Working, AwaitsPage, Follows, Counting, Loading, Copying
  <2> QED BY <2>1, <2>2, AllocThenGoesOn, Zenon
<1> QED BY <1>1, <1>2, <1>3, Zenon

LEMMA HeapMapStep ==
  ASSUME FrameInv, NEW c \in CPU, HeapMap(c)
  PROVE  FrameInv'
<1>1. Running(c, "kheap_map") /\ page[c] # PMM_NO_PAGE /\ NextPage(c) /\ Untouched
  BY Zenon DEF HeapMap, clientVars, Untouched
<1>2. /\ Working("kheap_map") /\ Working("kheap") /\ Follows("kheap", "kheap_map")
      /\ "kheap_map" \in AwaitsPage /\ "kheap" \notin AwaitsPage
  BY Zenon DEF Working, AwaitsPage, Follows, Counting, Loading, Copying
<1>3. job[c].next \in Int BY <1>1, <1>2, RunningFacts, Zenon
<1>4. PICK va : va = KHEAP_START + job[c].next BY Zenon
<1>5. va \in Int BY <1>3, <1>4, MemoryAssumption DEF MemoryAssumption
<1>6. PICK user : user = FALSE BY Zenon
<1>7. user \in BOOLEAN /\ MapThen(c, va, page[c], user, "kheap") BY <1>4, <1>6, Zenon DEF HeapMap
<1> QED BY <1>1, <1>2, <1>5, <1>7, MapThenGoesOn, Zenon

LEMMA MmapMapStep ==
  ASSUME FrameInv, NEW c \in CPU, MmapMap(c)
  PROVE  FrameInv'
<1>1. Running(c, "mmap_page") /\ page[c] # PMM_NO_PAGE /\ NextPage(c) /\ Untouched
  BY Zenon DEF MmapMap, Untouched
<1>2. /\ Working("mmap_page") /\ Working("mmap") /\ Follows("mmap", "mmap_page")
      /\ "mmap_page" \in AwaitsPage /\ "mmap" \notin AwaitsPage
  BY Zenon DEF Working, AwaitsPage, Follows, Counting, Loading, Copying
<1>3. job[c].base \in Int /\ job[c].next \in Int BY <1>1, <1>2, RunningFacts, Zenon
<1>4. PICK va : va = job[c].base + job[c].next BY Zenon
<1>5. va \in Int BY <1>3, <1>4
<1>6. PICK user : user = TRUE BY Zenon
<1>7. user \in BOOLEAN /\ MapThen(c, va, page[c], user, "mmap") BY <1>4, <1>6, Zenon DEF MmapMap
<1> QED BY <1>1, <1>2, <1>5, <1>7, MapThenGoesOn, SMTT(20), Zenon

\* sys_mmap returns, with the range or without.
LEMMA MmapReturns ==
  ASSUME FrameInv, NEW c \in CPU, MmapReturn(c) \/ MmapOutOfMemory(c)
  PROVE  FrameInv'
<1>1. /\ Running(c, "mmap") \/ Running(c, "mmap_page")
      /\ Return(c)
      /\ UNCHANGED <<frameVars, tableVars, mmap_next, fb_mapped, next_stack, workload, held>>
  BY Zenon DEF MmapReturn, MmapOutOfMemory
<1>2. Working("mmap") /\ Working("mmap_page") BY Zenon DEF Working
<1> QED BY <1>1, <1>2, ReturnGoesOn, Zenon

\* A page of the user stack is mapped, or there is none: a panic.
LEMMA StackMapStep ==
  ASSUME FrameInv, NEW c \in CPU, StackMap(c)
  PROVE  FrameInv'
<1>1. Running(c, "stack_page") BY Zenon DEF StackMap
<1>2. /\ Working("stack_page") /\ Working("stack") /\ Follows("stack", "stack_page")
      /\ "stack_page" \in AwaitsPage /\ "stack" \notin AwaitsPage
  BY Zenon DEF Working, AwaitsPage, Follows, Counting, Loading, Copying
<1>3. /\ job[c].base \in Int /\ job[c].next \in Int /\ JobShape /\ pc[c] = "stack_page"
      /\ mmap_next \in Int /\ next_stack \in Int
  BY <1>1, <1>2, RunningFacts, Zenon
<1>4. CASE page[c] = PMM_NO_PAGE
  <2>1. Panic(c) /\ UNCHANGED <<frameVars, tableVars, clientVars, job>> BY <1>4, Zenon DEF StackMap
  <2>2. Follows("panic", pc[c]) BY Zenon DEF Follows, Counting, Loading, Copying
  <2>3. UNCHANGED <<workload, memmap>> /\ mmap_next' \in Int /\ next_stack' \in Int /\ job' = job
    BY <1>3, <2>1, Zenon DEF frameVars, clientVars
  <2>4. Moves(c) /\ pc'[c] = "panic" BY <1>3, <2>1, <2>2, <2>3, MovesOn, Zenon DEF Panic, Goto
  <2>5. /\ pc'[c] \notin AwaitsPage \cup {"pmm_init", "fb_map"}
        /\ UNCHANGED <<frameVars, tableVars, fb_mapped, held, mmap_lock>>
    BY <2>1, <2>4, Zenon DEF AwaitsPage, clientVars
  <2> QED BY <1>1, <1>2, <2>4, <2>5, QuietFollows, Zenon
<1>5. CASE page[c] # PMM_NO_PAGE
  <2>1. PICK va : va = job[c].base + job[c].next BY Zenon
  <2>2. va \in Int BY <1>3, <2>1
  <2>3. PICK user : user = TRUE BY Zenon
  <2>4. user \in BOOLEAN /\ MapThen(c, va, page[c], user, "stack")
    BY <1>5, <2>1, <2>3, Zenon DEF StackMap
  <2>5. NextPage(c) /\ Untouched BY <1>5, Zenon DEF StackMap, Untouched
  <2> QED BY <1>1, <1>2, <1>5, <2>2, <2>4, <2>5, MapThenGoesOn, Zenon
<1> QED BY <1>4, <1>5, Zenon
=============================================================================
