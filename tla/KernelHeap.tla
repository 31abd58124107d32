----------------------------- MODULE KernelHeap -----------------------------
(***************************************************************************)
(* The kernel heap of mm.rs as operators on its list of blocks.            *)
(*                                                                         *)
(* A heap is the sequence of blocks that HEAP_HEAD and the next pointers   *)
(* chain together.  A block records where its header lies, the size of     *)
(* what follows the header, and whether it is free.                        *)
(***************************************************************************)
EXTENDS Integers, Sequences, FiniteSetsExt

CONSTANTS
  HEAP_ALIGN,       \* 16
  HEAP_BLOCK_SIZE   \* size of a header: 32

ASSUME HeapAssumption ==
  /\ HEAP_ALIGN \in Nat \ {0}
  /\ HEAP_BLOCK_SIZE \in Nat \ {0}
  /\ HEAP_BLOCK_SIZE % HEAP_ALIGN = 0

null == -1

RoundUp(size) == ((size + HEAP_ALIGN - 1) \div HEAP_ALIGN) * HEAP_ALIGN

\* kheap_init: one free block over everything that was mapped.
HeapOver(bytes) == <<[at |-> 0, size |-> bytes - HEAP_BLOCK_SIZE, free |-> TRUE]>>

\* Mutant: the header of the remainder is not paid for.
RemainderTooLong(b, want) ==
  [at |-> b.at + HEAP_BLOCK_SIZE + want, size |-> b.size - want, free |-> TRUE]

\* The block that a split leaves behind the want bytes taken from b.
Remainder(b, want) ==
  [at   |-> b.at + HEAP_BLOCK_SIZE + want,
   size |-> b.size - want - HEAP_BLOCK_SIZE,
   free |-> TRUE]

\* Block i is taken; it is split when more than a header would be left over.
Split(h, i, want) ==
  LET b == h[i] IN
  IF b.size > want + HEAP_BLOCK_SIZE
  THEN SubSeq(h, 1, i - 1)
         \o <<[b EXCEPT !.size = want, !.free = FALSE], Remainder(b, want)>>
         \o SubSeq(h, i + 1, Len(h))
  ELSE [h EXCEPT ![i].free = FALSE]

\* First fit.  The result is the heap and the address returned.
kmalloc(h, size) ==
  LET want == RoundUp(size)
      fits == {i \in DOMAIN h : h[i].free /\ h[i].size >= want}
  IN IF size = 0 \/ fits = {}
     THEN [heap |-> h, ptr |-> null]
     ELSE [heap |-> Split(h, Min(fits), want), ptr |-> h[Min(fits)].at + HEAP_BLOCK_SIZE]

EndOf(b) == b.at + HEAP_BLOCK_SIZE + b.size

\* One step of coalesce: block b joins the block before it or follows it.
Join(h, b) ==
  IF h # <<>> /\ h[Len(h)].free /\ b.free /\ EndOf(h[Len(h)]) = b.at
  THEN [h EXCEPT ![Len(h)].size = @ + HEAP_BLOCK_SIZE + b.size]
  ELSE Append(h, b)

coalesce(h) ==
  LET joined[n \in 0 .. Len(h)] == IF n = 0 THEN <<>> ELSE Join(joined[n - 1], h[n])
  IN joined[Len(h)]

\* The block whose header lies before ptr.
BlockOf(h, ptr) == CHOOSE i \in DOMAIN h : h[i].at + HEAP_BLOCK_SIZE = ptr

\* Freeing null or a block that is free already changes nothing.
kfree(h, ptr) ==
  IF ptr = null \/ h[BlockOf(h, ptr)].free
  THEN h
  ELSE coalesce([h EXCEPT ![BlockOf(h, ptr)].free = TRUE])
=============================================================================
