------------------------------ MODULE MCMemory ------------------------------
(* Instances of Memory: memory maps, images, and who makes which calls. *)
EXTENDS Memory

Region(b, n, u) == [base |-> b, length |-> n, usable |-> u]

\* Two usable regions with a hole; half a heap; room for the bitmap alone; nothing
\* usable; no room for the bitmap.
Maps ==
  {<<Region(0, 1, FALSE), Region(1, 4, TRUE), Region(5, 2, FALSE), Region(7, 14, TRUE)>>,
   <<Region(0, 1, FALSE), Region(1, 5, TRUE)>>,
   <<Region(0, 1, FALSE), Region(1, 1, TRUE)>>,
   <<Region(0, 1, FALSE)>>,
   <<Region(0, 40, FALSE), Region(40, 1, TRUE)>>}

OneMap == {<<Region(0, 1, FALSE), Region(1, 24, TRUE)>>}

Segment(v, f, m, ok) == [vaddr |-> v, filesz |-> f, memsz |-> m, inside |-> ok]

\* 1: two segments that share a page, the second with a tail of zeroes.
\* 2: a segment that loads and one that does not.  3: no PINX header.
Files ==
  <<[size |-> 5, header |-> TRUE, segs |-> <<Segment(0, 1, 1, TRUE), Segment(1, 1, 3, TRUE)>>],
    [size |-> 3, header |-> TRUE, segs |-> <<Segment(4, 1, 2, TRUE), Segment(6, 2, 2, FALSE)>>],
    [size |-> 3, header |-> FALSE, segs |-> <<>>]>>

\* Every processor calls mmap, or only the first makes calls, of two kinds.
Alone(ops) == [c \in CPU |-> IF c = BSP THEN ops ELSE {}]
SerialCalls ==
  {[c \in CPU |-> {"mmap"}], Alone({"mmap", "spawn"}), Alone({"mmap", "fb_map", "unmap"}),
   Alone({"spawn", "frame"})}

\* mmap on one processor while another loads a program.
MmapAndSpawn == {[c \in CPU |-> IF c = BSP THEN {"mmap"} ELSE {"spawn"}]}

Screen == <<30>>
=============================================================================
