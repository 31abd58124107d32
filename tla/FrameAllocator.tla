--------------------------- MODULE FrameAllocator ---------------------------
(***************************************************************************)
(* The physical frame allocator of mm.rs: one bit per page, 64 to a word,  *)
(* and a hint from which the scan for a clear bit resumes.                 *)
(*                                                                         *)
(* pmm_alloc_page runs with interrupts off and takes no lock, so another   *)
(* processor may run between the read of a word and the store of the word  *)
(* with its bit set.  These are two steps.  Addresses count pages.         *)
(***************************************************************************)
EXTENDS Integers, Sequences, FiniteSetsExt

CONSTANTS
  CPU,          \* the processors that call the allocator
  MemMaps,      \* the memory maps the boot loader may report
  WordBits,     \* bits in a word of the bitmap: 64
  WordsPerPage  \* words in a page: 512

ASSUME FrameAssumption ==
  /\ CPU \subseteq Nat
  /\ MemMaps \subseteq Seq([base : Nat, length : Nat, usable : BOOLEAN])
  /\ WordBits \in Nat \ {0}
  /\ WordsPerPage \in Nat \ {0}

PMM_NO_PAGE == -1
Bit == 0 .. WordBits - 1

VARIABLES
  memmap,  \* the boot loader's map: a sequence of [base, length, usable]
  bitmap,  \* BITMAP: the set bits of every word; empty before pmm_init
  hint,    \* ALLOC_HINT
  pmm,     \* each processor's progress in pmm_alloc_page
  page     \* what pmm_alloc_page last returned to each processor

frameVars == <<memmap, bitmap, hint, pmm, page>>

Entries == Cardinality(DOMAIN bitmap)   \* BITMAP_ENTRIES
PageAt(index, bit) == index * WordBits + bit

\* The pages whose bit is set, and those that pmm_alloc_page can still return.
UsedPages == UNION {{PageAt(i, b) : b \in bitmap[i]} : i \in DOMAIN bitmap}
FreePages == UNION {{PageAt(i, b) : b \in Bit \ bitmap[i]} : i \in DOMAIN bitmap}

-----------------------------------------------------------------------------
(* pmm_init *)

Usable(m) == {i \in DOMAIN m : m[i].usable /\ m[i].length > 0}
Pages(r) == r.base .. r.base + r.length - 1
UsablePages(m) == UNION {Pages(m[i]) : i \in Usable(m)}

\* The first of the longest usable regions.
LargestRegion(m) ==
  m[CHOOSE i \in Usable(m) : \A j \in Usable(m) :
      m[j].length < m[i].length \/ (m[j].length = m[i].length /\ i <= j)]

HighestPage(m) == Max({m[i].base + m[i].length : i \in Usable(m)})
BitmapEntries(m) == (HighestPage(m) + WordBits - 1) \div WordBits
BitmapPages(m) == (BitmapEntries(m) + WordsPerPage - 1) \div WordsPerPage

\* The bitmap lies at the end of the largest region.
BitmapOwn(m) ==
  LET r == LargestRegion(m) IN Pages([base |-> r.base + r.length - BitmapPages(m),
                                      length |-> BitmapPages(m)])

\* Otherwise pmm_init panics: nothing usable, or no room for the bitmap.
PmmInitSucceeds(m) == Usable(m) # {} /\ BitmapPages(m) <= LargestRegion(m).length

\* Mutant: the pages of the bitmap itself stay free.
BootBitmapUnreserved(m) ==
  [w \in 0 .. BitmapEntries(m) - 1 |-> {b \in Bit : PageAt(w, b) \notin UsablePages(m)}]

\* Everything reserved, then the usable pages freed, then the bitmap's taken back.
BootBitmap(m) ==
  [w \in 0 .. BitmapEntries(m) - 1 |->
     {b \in Bit : PageAt(w, b) \notin UsablePages(m) \ BitmapOwn(m)}]

PmmInit ==
  /\ PmmInitSucceeds(memmap)
  /\ bitmap' = BootBitmap(memmap)
  /\ hint' = 0
  /\ UNCHANGED <<memmap, pmm, page>>

-----------------------------------------------------------------------------
(* pmm_alloc_page *)

Outside == [at |-> "out", from |-> 0, scanned |-> 0, word |-> {}]
InPmm(c) == pmm[c].at # "out"

\* Index of the word the scan is at.
Index(s) == (s.from + s.scanned) % Entries

\* The entry of pmm_alloc_page: the hint is read once.
PmmEnter(c) ==
  /\ pmm[c].at = "out"
  /\ pmm' = [pmm EXCEPT ![c] = [at |-> "scan", from |-> hint, scanned |-> 0, word |-> {}]]
  /\ UNCHANGED <<memmap, bitmap, hint, page>>

PmmGiveUp(c) ==
  /\ pmm' = [pmm EXCEPT ![c] = Outside]
  /\ page' = [page EXCEPT ![c] = PMM_NO_PAGE]

\* Mutant: the scan stops at the end of the bitmap instead of wrapping around.
ScanEndsEarly(s) == s.from + s.scanned + 1 = Entries

\* Mutant: the scan goes round once and then some.
ScanEndsLate(s) == s.scanned = Entries

\* Whether the word the scan is at is the last of the round.
ScanEnds(s) == s.scanned + 1 = Entries

\* One iteration reads one word; a full one is passed over.
PmmRead(c) ==
  LET s == pmm[c]
      word == bitmap[Index(s)] IN
  /\ s.at = "scan"
  /\ \/ /\ word # Bit
        /\ pmm' = [pmm EXCEPT ![c].at = "store", ![c].word = word]
        /\ UNCHANGED page
     \/ /\ word = Bit
        /\ ~ScanEnds(s)
        /\ pmm' = [pmm EXCEPT ![c].scanned = @ + 1]
        /\ UNCHANGED page
     \/ /\ word = Bit
        /\ ScanEnds(s)
        /\ PmmGiveUp(c)
  /\ UNCHANGED <<memmap, bitmap, hint>>

\* The word that was read goes back with its lowest clear bit set.  The new
\* hint is a page number reduced modulo a number of words, as in the code.
PmmStore(c) ==
  LET s == pmm[c]
      index == Index(s)
      bit == Min(Bit \ s.word) IN
  /\ s.at = "store"
  /\ bitmap' = [bitmap EXCEPT ![index] = s.word \cup {bit}]
  /\ hint' = (PageAt(index, bit) + 1) % Entries
  /\ page' = [page EXCEPT ![c] = PageAt(index, bit)]
  /\ pmm' = [pmm EXCEPT ![c] = Outside]
  /\ UNCHANGED memmap

PmmStep(c) == PmmRead(c) \/ PmmStore(c)

(* pmm_free_page: p is one of the frames the allocator has handed out. *)
PmmFree(c, p) ==
  /\ pmm[c].at = "out"
  /\ bitmap' = [bitmap EXCEPT ![p \div WordBits] = @ \ {p % WordBits}]
  /\ hint' = IF p \div WordBits < hint THEN p \div WordBits ELSE hint
  /\ UNCHANGED <<memmap, pmm, page>>

-----------------------------------------------------------------------------
FrameInit ==
  /\ memmap \in MemMaps
  /\ bitmap = <<>>
  /\ hint = 0
  /\ pmm = [c \in CPU |-> Outside]
  /\ page = [c \in CPU |-> PMM_NO_PAGE]
=============================================================================
