------------------------------- MODULE Memory -------------------------------
(***************************************************************************)
(* The users of the frame allocator, the page tables and the kernel heap:  *)
(* kheap_init at boot, then the system calls mmap and map_framebuffer and  *)
(* the program loader, on any processor.                                   *)
(*                                                                         *)
(* A call is a sequence of steps at the label pc[c], with its locals in    *)
(* job[c].  While the processor is inside pmm_alloc_page or                *)
(* vmm_map_page_flags the label stays, and the call continues when both    *)
(* have returned.  mmap runs under MMAP_LOCK; the loader and               *)
(* map_framebuffer take no lock.                                           *)
(***************************************************************************)
EXTENDS PageTables, KernelHeap

CONSTANTS
  BSP,                \* the processor that boots
  Workloads,          \* the calls each processor may make: one is chosen
  UnmapPages,         \* bound: the pages vmm_unmap_page is called with
  MmapPages,          \* the sizes mmap is called with, in pages
  USER_ADDRESS_MAX, MMAP_BASE, FB_USER_BASE, USER_STACK_TOP, KHEAP_START,
  USER_STACK_PAGES,
  GuardPages,         \* unmapped pages between two stacks: 2
  FbFrames,           \* the frames of the framebuffer, in order
  HeapPages,          \* pages kheap_init asks for: 2048
  PageBytes,          \* PAGE_SIZE
  CellsPerPage,       \* the grain of segment addresses within a page
  Images,             \* the files that may be spawned
  KERNEL_STACK_SIZE, MAX_TASKS

ASSUME MemoryAssumption ==
  /\ BSP \in CPU
  /\ {USER_ADDRESS_MAX, MMAP_BASE, FB_USER_BASE, USER_STACK_TOP, KHEAP_START} \subseteq Nat
  /\ {USER_STACK_PAGES, GuardPages, HeapPages, KERNEL_STACK_SIZE} \subseteq Nat
  /\ MmapPages \subseteq Nat
  /\ MMAP_BASE <= USER_ADDRESS_MAX
  /\ USER_STACK_TOP <= USER_ADDRESS_MAX
  /\ CellsPerPage \in Nat \ {0}
  \* The frames of the framebuffer are distinct, and none is usable memory or the root table.
  /\ FbFrames \in Seq(Nat)
  /\ PML4 \notin Range(FbFrames)
  /\ \A i, j \in DOMAIN FbFrames : FbFrames[i] = FbFrames[j] => i = j
  /\ \A m \in MemMaps : Range(FbFrames) \cap UsablePages(m) = {}
  /\ \A i \in DOMAIN Images :
       Images[i].segs \in Seq([vaddr : Nat, filesz : Nat, memsz : Nat, inside : BOOLEAN])

USER_STACK_SPAN == USER_STACK_PAGES + GuardPages
NoOne == -1
Zero == <<>>          \* a cell of zeroes; <<image, x>> is byte x of an image
NoJob == [base |-> 0, pages |-> 0, next |-> 0, image |-> 0, seg |-> 0, buffer |-> null]

VARIABLES
  pc,         \* where each processor is
  job,        \* the locals of its call
  workload,   \* the calls each processor may make
  heap,       \* the kernel heap; empty before kheap_init
  mmap_next,  \* MMAP_NEXT
  mmap_lock,  \* the holder of MMAP_LOCK
  fb_mapped,  \* FB_MAPPED
  next_stack, \* NEXT_STACK
  tasks,      \* the kernel stacks of the tasks in the table
  content,    \* the cells of every frame the calls have written
  granted,    \* history: the ranges mmap has returned
  loaded,     \* history: the images loaded completely
  held,       \* frames that a caller has taken and may give back
  dropped     \* history: the kernel stacks of tasks the full table refused

clientVars == <<mmap_next, mmap_lock, fb_mapped, next_stack, tasks, heap, content,
                granted, loaded, dropped, workload, held>>
vars == <<frameVars, tableVars, clientVars, pc, job>>

Init ==
  /\ FrameInit
  /\ TableInit
  /\ pc = [c \in CPU |-> IF c = BSP THEN "pmm_init" ELSE "off"]
  /\ job = [c \in CPU |-> NoJob]
  /\ workload \in Workloads
  /\ heap = <<>>
  /\ mmap_next = MMAP_BASE
  /\ mmap_lock = NoOne
  /\ fb_mapped = FALSE
  /\ next_stack = USER_STACK_TOP
  /\ tasks = {}
  /\ content = <<>>
  /\ granted = {}
  /\ loaded = {}
  /\ dropped = {}
  /\ held = {}

-----------------------------------------------------------------------------
(* Control *)

\* The call has the processor: the allocator and the mapper have returned.
Running(c, label) == pc[c] = label /\ ~InPmm(c) /\ ~InWalk(c)

Goto(c, label) == pc' = [pc EXCEPT ![c] = label]
Panic(c) == Goto(c, "panic")
Return(c) == Goto(c, "idle") /\ job' = [job EXCEPT ![c] = NoJob]

\* The call named op begins: the kernel is up and the workload allows it.
Calls(c, op) == Running(c, "idle") /\ op \in workload[c]

\* pmm_alloc_page, to continue at label.
AllocThen(c, label) == PmmEnter(c) /\ Goto(c, label) /\ UNCHANGED tableVars

\* vmm_map_page_flags, to continue at label.
MapThen(c, va, frame, user, label) ==
  MapEnter(c, va, frame, user) /\ Goto(c, label) /\ UNCHANGED frameVars

NextPage(c) == job' = [job EXCEPT ![c].next = @ + 1]

\* A step inside the allocator, one inside the mapper, and the mapper's panic.
Allocating(c) == PmmStep(c) /\ UNCHANGED <<tableVars, clientVars, pc, job>>
Mapping(c) == MapStep(c) /\ UNCHANGED <<clientVars, pc, job>>
OutOfTables(c) ==
  /\ MapPanics(c)
  /\ pc[c] # "panic"
  /\ Panic(c)
  /\ UNCHANGED <<frameVars, tableVars, clientVars, job>>

\* content after frame f is filled with zeroes, or its cells with values.
Written(f, cells) ==
  [g \in DOMAIN content \cup {f} |-> IF g = f THEN cells ELSE content[g]]
Zeroed(f) == Written(f, [k \in 0 .. CellsPerPage - 1 |-> Zero])

-----------------------------------------------------------------------------
(* kmain: pmm_init, vmm_init, kheap_init *)

Boot(c) ==
  /\ pc[c] = "pmm_init"
  /\ \/ PmmInit /\ Goto(c, "kheap")
     \/ ~PmmInitSucceeds(memmap) /\ Panic(c) /\ UNCHANGED frameVars
  /\ UNCHANGED <<tableVars, clientVars, job>>

\* The loop over the pages of the heap.
HeapAlloc(c) ==
  /\ Running(c, "kheap")
  /\ job[c].next < HeapPages
  /\ AllocThen(c, "kheap_map")
  /\ UNCHANGED <<clientVars, job>>

HeapMap(c) ==
  /\ Running(c, "kheap_map")
  /\ page[c] # PMM_NO_PAGE
  /\ MapThen(c, KHEAP_START + job[c].next, page[c], FALSE, "kheap")
  /\ NextPage(c)
  /\ UNCHANGED clientVars

\* The heap covers what was mapped; not even one page is a panic.
HeapReady(c) ==
  LET mapped == job[c].next IN
  /\ \/ Running(c, "kheap") /\ mapped = HeapPages
     \/ Running(c, "kheap_map") /\ page[c] = PMM_NO_PAGE
  /\ \/ /\ mapped = 0
        /\ Panic(c)
        /\ UNCHANGED <<heap, job>>
     \/ /\ mapped > 0
        /\ heap' = HeapOver(mapped * PageBytes)
        /\ pc' = [d \in CPU |-> "idle"]   \* the other processors are released
        /\ job' = [job EXCEPT ![c] = NoJob]
  /\ UNCHANGED <<frameVars, tableVars, mmap_next, mmap_lock, fb_mapped, next_stack, tasks,
                 content, granted, loaded, dropped, workload, held>>

-----------------------------------------------------------------------------
(* sys_mmap *)

MmapUnlock == mmap_lock' = NoOne

\* Mutant: the reservation is forgotten until the pages are there.
ReserveNothing(end) == UNCHANGED mmap_next

\* The range is reserved before the first frame is taken.
Reserve(end) == mmap_next' = end

\* MMAP_LOCK is taken and a range carved; one that does not fit is refused.
MmapCarve(c, pages) ==
  LET end == mmap_next + pages IN
  /\ Calls(c, "mmap")
  /\ pages > 0
  /\ mmap_lock = NoOne
  /\ end <= USER_ADDRESS_MAX
  /\ mmap_lock' = c
  /\ Reserve(end)
  /\ job' = [job EXCEPT ![c].base = mmap_next, ![c].pages = pages]
  /\ Goto(c, "mmap")
  /\ UNCHANGED <<frameVars, tableVars, fb_mapped, next_stack, tasks, heap, content, granted,
                 loaded, dropped, workload, held>>

MmapAlloc(c) ==
  /\ Running(c, "mmap")
  /\ job[c].next < job[c].pages
  /\ AllocThen(c, "mmap_page")
  /\ UNCHANGED <<clientVars, job>>

\* Mutant: the frame keeps what its last owner left in it.
MmapZeroedNot(f) == Written(f, [k \in 0 .. CellsPerPage - 1 |-> <<0>>])

MmapZeroed(f) == Zeroed(f)

MmapMap(c) ==
  /\ Running(c, "mmap_page")
  /\ page[c] # PMM_NO_PAGE
  /\ content' = MmapZeroed(page[c])
  /\ MapThen(c, job[c].base + job[c].next, page[c], TRUE, "mmap")
  /\ NextPage(c)
  /\ UNCHANGED <<mmap_next, mmap_lock, fb_mapped, next_stack, tasks, heap, granted, loaded,
                 dropped, workload, held>>

MmapReturn(c) ==
  /\ Running(c, "mmap")
  /\ job[c].next = job[c].pages
  /\ granted' = granted \cup {job[c].base .. job[c].base + job[c].pages - 1}
  /\ MmapUnlock
  /\ Return(c)
  /\ UNCHANGED <<frameVars, tableVars, mmap_next, fb_mapped, next_stack, tasks, heap, content,
                 loaded, dropped, workload, held>>

\* Mutant: the early return leaves the lock taken.
MmapFailedLocked(c) == UNCHANGED mmap_lock

\* The guard is dropped on the early return too.
MmapFailed(c) == MmapUnlock

\* Out of frames: EINVAL; the range stays reserved and the pages stay mapped.
MmapOutOfMemory(c) ==
  /\ Running(c, "mmap_page")
  /\ page[c] = PMM_NO_PAGE
  /\ MmapFailed(c)
  /\ Return(c)
  /\ UNCHANGED <<frameVars, tableVars, mmap_next, fb_mapped, next_stack, tasks, heap, content,
                 granted, loaded, dropped, workload, held>>

-----------------------------------------------------------------------------
(* user_range_valid and sys_fb_map *)

user_range_valid(pages) ==
  \A va \in pages : va < USER_ADDRESS_MAX /\ vmm_virt_to_phys(va) # VMM_NO_PHYS

\* The frames are mapped on the first call only.  The answer, written to page info, is data
\* of the caller.
FbMap(c, info) ==
  /\ Calls(c, "fb_map")
  /\ user_range_valid({info})
  /\ ~fb_mapped
  /\ Goto(c, "fb_map")
  /\ UNCHANGED <<frameVars, tableVars, clientVars, job>>

FbMapPage(c) ==
  /\ Running(c, "fb_map")
  /\ job[c].next < Len(FbFrames)
  /\ MapThen(c, FB_USER_BASE + job[c].next, FbFrames[job[c].next + 1], TRUE, "fb_map")
  /\ NextPage(c)
  /\ UNCHANGED clientVars

FbMapReturn(c) ==
  /\ Running(c, "fb_map")
  /\ job[c].next = Len(FbFrames)
  /\ fb_mapped' = TRUE
  /\ Return(c)
  /\ UNCHANGED <<frameVars, tableVars, mmap_next, mmap_lock, next_stack, tasks, heap, content,
                 granted, loaded, dropped, workload, held>>

-----------------------------------------------------------------------------
(* load_and_spawn.  An image is [size, header, segs], where header says     *)
(* that its PINX and ELF headers are right; a segment is [vaddr, filesz,    *)
(* memsz, inside] in cells, where inside says that the file holds its bytes *)
(* and that its end does not overflow.                                      *)

Segs(c) == Images[job[c].image].segs
Seg(c) == Segs(c)[job[c].seg]
PageOf(cell) == cell \div CellsPerPage

\* read_file: a buffer for the whole image.
SpawnRead(c, image) ==
  LET got == kmalloc(heap, Images[image].size) IN
  /\ Calls(c, "spawn")
  /\ got.ptr # null
  /\ heap' = got.heap
  /\ job' = [job EXCEPT ![c].image = image, ![c].buffer = got.ptr]
  /\ Goto(c, "image")
  /\ UNCHANGED <<frameVars, tableVars, mmap_next, mmap_lock, fb_mapped, next_stack, tasks,
                 content, granted, loaded, dropped, workload, held>>

\* Every failure up to the last segment frees the buffer and returns.
SpawnFails(c) ==
  /\ heap' = kfree(heap, job[c].buffer)
  /\ Return(c)
  /\ UNCHANGED <<frameVars, tableVars, mmap_next, mmap_lock, fb_mapped, next_stack, tasks,
                 content, granted, loaded, dropped, workload, held>>

\* Segment i is next, from its first page on.
SegmentThen(c, i) ==
  job' = [job EXCEPT ![c].seg = i,
                     ![c].next = IF i <= Len(Segs(c)) THEN PageOf(Segs(c)[i].vaddr) ELSE 0]

\* The read may fail or come up short; then the header is looked for.
SpawnCheck(c) ==
  /\ Running(c, "image")
  /\ \/ SpawnFails(c)
     \/ /\ Images[job[c].image].header
        /\ Goto(c, "segment")
        /\ SegmentThen(c, 1)
        /\ UNCHANGED <<frameVars, tableVars, clientVars>>

\* The cells of page va that the file provides, as offsets into the page.
Copied(c, va) ==
  {k \in 0 .. CellsPerPage - 1 :
     va * CellsPerPage + k \in Seg(c).vaddr .. Seg(c).vaddr + Seg(c).filesz - 1}

\* content after the file's part of page va is copied into frame f.
CopyInto(c, va, f) ==
  Written(f, [k \in 0 .. CellsPerPage - 1 |->
                IF k \in Copied(c, va)
                THEN <<job[c].image, va * CellsPerPage + k>>
                ELSE content[f][k]])

SegmentOk(s) == s.filesz <= s.memsz /\ s.inside
SegmentDone(c) == job[c].next * CellsPerPage >= Seg(c).vaddr + Seg(c).memsz

\* Mutant: the frame of an earlier segment is not looked for.
FrameBehindIgnored(va) == VMM_NO_PHYS

\* The frame an earlier segment has put behind this page.
FrameBehind(va) == vmm_virt_to_phys(va)

\* One iteration of the loops over segments and pages.
SpawnSegment(c) ==
  LET va == job[c].next IN
  /\ Running(c, "segment")
  /\ job[c].seg <= Len(Segs(c))
  /\ \/ ~SegmentOk(Seg(c)) /\ SpawnFails(c)
     \/ /\ SegmentOk(Seg(c))
        /\ Seg(c).memsz = 0 \/ SegmentDone(c)
        /\ SegmentThen(c, job[c].seg + 1)
        /\ UNCHANGED <<frameVars, tableVars, clientVars, pc>>
     \/ /\ SegmentOk(Seg(c))
        /\ ~SegmentDone(c)
        /\ FrameBehind(va) # VMM_NO_PHYS
        /\ content' = CopyInto(c, va, FrameBehind(va))
        /\ NextPage(c)
        /\ UNCHANGED <<frameVars, tableVars, mmap_next, mmap_lock, fb_mapped, next_stack, tasks,
                       heap, granted, loaded, dropped, workload, held, pc>>
     \/ /\ SegmentOk(Seg(c))
        /\ ~SegmentDone(c)
        /\ FrameBehind(va) = VMM_NO_PHYS
        /\ AllocThen(c, "seg_page")
        /\ UNCHANGED <<clientVars, job>>

\* The new frame is cleared and mapped, or the load is given up.
SpawnPage(c) ==
  /\ Running(c, "seg_page")
  /\ \/ page[c] = PMM_NO_PAGE /\ SpawnFails(c)
     \/ /\ page[c] # PMM_NO_PAGE
        /\ content' = Zeroed(page[c])
        /\ MapThen(c, job[c].next, page[c], TRUE, "seg_copy")
        /\ UNCHANGED <<mmap_next, mmap_lock, fb_mapped, next_stack, tasks, heap, granted, loaded,
                       dropped, workload, held, job>>

SpawnCopy(c) ==
  /\ Running(c, "seg_copy")
  /\ content' = CopyInto(c, job[c].next, walk[c].frame)
  /\ NextPage(c)
  /\ Goto(c, "segment")
  /\ UNCHANGED <<frameVars, tableVars, mmap_next, mmap_lock, fb_mapped, next_stack, tasks, heap,
                 granted, loaded, dropped, workload, held>>

\* All segments are in place: the image goes, and a stack is carved.
SpawnLoaded(c) ==
  /\ Running(c, "segment")
  /\ job[c].seg > Len(Segs(c))
  /\ heap' = kfree(heap, job[c].buffer)
  /\ loaded' = loaded \cup {job[c].image}
  /\ next_stack' = next_stack - USER_STACK_SPAN
  /\ job' = [job EXCEPT ![c] = [NoJob EXCEPT !.base = next_stack - USER_STACK_PAGES]]
  /\ Goto(c, "stack")
  /\ UNCHANGED <<frameVars, tableVars, mmap_next, mmap_lock, fb_mapped, tasks, content, granted,
                 dropped, workload, held>>

StackAlloc(c) ==
  /\ Running(c, "stack")
  /\ job[c].next < USER_STACK_PAGES
  /\ AllocThen(c, "stack_page")
  /\ UNCHANGED <<clientVars, job>>

StackMap(c) ==
  /\ Running(c, "stack_page")
  /\ \/ /\ page[c] = PMM_NO_PAGE
        /\ Panic(c)
        /\ UNCHANGED <<frameVars, tableVars, clientVars, job>>
     \/ /\ page[c] # PMM_NO_PAGE
        /\ content' = Zeroed(page[c])
        /\ MapThen(c, job[c].base + job[c].next, page[c], TRUE, "stack")
        /\ NextPage(c)
        /\ UNCHANGED <<mmap_next, mmap_lock, fb_mapped, next_stack, tasks, heap, granted, loaded,
                       dropped, workload, held>>

\* spawn_user: the kernel stack is allocated before the table is looked at ...
SpawnUserStack(c) ==
  LET got == kmalloc(heap, KERNEL_STACK_SIZE) IN
  /\ Running(c, "stack")
  /\ job[c].next = USER_STACK_PAGES
  /\ heap' = got.heap
  /\ \/ got.ptr = null /\ Return(c)
     \/ got.ptr # null /\ Goto(c, "enlist") /\ job' = [job EXCEPT ![c].buffer = got.ptr]
  /\ UNCHANGED <<frameVars, tableVars, mmap_next, mmap_lock, fb_mapped, next_stack, tasks,
                 content, granted, loaded, dropped, workload, held>>

\* ... and is not given back when the table is full.
Enlist(c) ==
  /\ Running(c, "enlist")
  /\ \/ /\ Cardinality(tasks) < MAX_TASKS
        /\ tasks' = tasks \cup {job[c].buffer}
        /\ UNCHANGED dropped
     \/ /\ Cardinality(tasks) = MAX_TASKS
        /\ dropped' = dropped \cup {job[c].buffer}
        /\ UNCHANGED tasks
  /\ Return(c)
  /\ UNCHANGED <<frameVars, tableVars, mmap_next, mmap_lock, fb_mapped, next_stack, heap,
                 content, granted, loaded, workload, held>>
-----------------------------------------------------------------------------
(* pmm_free_page and vmm_unmap_page, which nothing in the kernel calls yet: *)
(* a caller that takes a frame and gives it back, and one that unmaps a     *)
(* page of a range that mmap returned.                                      *)

FrameAlloc(c) ==
  /\ Calls(c, "frame")
  /\ held = {}
  /\ AllocThen(c, "frame")
  /\ UNCHANGED <<clientVars, job>>

FrameTaken(c) ==
  /\ Running(c, "frame")
  /\ held' = held \cup ({page[c]} \ {PMM_NO_PAGE})
  /\ Return(c)
  /\ UNCHANGED <<frameVars, tableVars, mmap_next, mmap_lock, fb_mapped, next_stack, tasks, heap,
                 content, granted, loaded, dropped, workload>>

FrameFree(c) ==
  /\ Calls(c, "frame")
  /\ \E p \in held : PmmFree(c, p) /\ held' = held \ {p}
  /\ UNCHANGED <<tableVars, mmap_next, mmap_lock, fb_mapped, next_stack, tasks, heap, content,
                 granted, loaded, dropped, workload, pc, job>>

Unmap(c) ==
  /\ Calls(c, "unmap")
  /\ \E r \in granted : \E va \in r \cap UnmapPages :
       /\ vmm_unmap_page(va)
       /\ granted' = granted \ {r}
  /\ UNCHANGED <<frameVars, walk, mmap_next, mmap_lock, fb_mapped, next_stack, tasks, heap,
                 content, loaded, dropped, workload, held, pc, job>>

-----------------------------------------------------------------------------
\* What a processor does once a call has begun.
Step(c) ==
  \/ Allocating(c) \/ Mapping(c) \/ OutOfTables(c)
  \/ Boot(c) \/ HeapAlloc(c) \/ HeapMap(c) \/ HeapReady(c)
  \/ MmapAlloc(c) \/ MmapMap(c) \/ MmapReturn(c) \/ MmapOutOfMemory(c)
  \/ FbMapPage(c) \/ FbMapReturn(c)
  \/ SpawnCheck(c) \/ SpawnSegment(c) \/ SpawnPage(c) \/ SpawnCopy(c) \/ SpawnLoaded(c)
  \/ StackAlloc(c) \/ StackMap(c) \/ SpawnUserStack(c) \/ Enlist(c)
  \/ FrameTaken(c)

\* The calls that tasks make.
Call(c) ==
  \/ \E n \in MmapPages : MmapCarve(c, n)
  \/ FbMap(c, MMAP_BASE)
  \/ \E i \in DOMAIN Images : SpawnRead(c, i)
  \/ FrameAlloc(c) \/ FrameFree(c)
  \/ Unmap(c)

Next == \E c \in CPU : Step(c) \/ Call(c)

\* System calls run with interrupts off: a processor inside one goes on.
Spec == Init /\ [][Next]_vars /\ \A c \in CPU : WF_vars(Step(c))

-----------------------------------------------------------------------------
(* Properties *)

Vpn == 0 .. Radix ^ Levels - 1
Frame == 0 .. Max({PML4} \cup {HighestPage(m) : m \in {n \in MemMaps : Usable(n) # {}}})

\* The allocator's scan stays inside the bitmap (pmm_alloc_page), a walk stays inside the
\* tables (vmm_map_page_flags), and the shared counters and lists have their types.
TypeOK ==
  /\ DOMAIN bitmap \subseteq Nat
  /\ \A w \in DOMAIN bitmap : bitmap[w] \subseteq Bit
  /\ hint \in Nat
  /\ page \in [CPU -> Frame \cup {PMM_NO_PAGE}]
  /\ \A c \in CPU : bitmap # <<>> => pmm[c].from < Entries /\ pmm[c].scanned < Entries
  /\ DOMAIN table \subseteq Frame
  /\ \A c \in CPU : walk[c].tab \in DOMAIN table /\ walk[c].level \in 1 .. Levels
  /\ \A i \in DOMAIN heap : heap[i].size \in Nat /\ heap[i].free \in BOOLEAN
  /\ mmap_next \in MMAP_BASE .. USER_ADDRESS_MAX
  /\ mmap_lock \in CPU \cup {NoOne}
  /\ DOMAIN content \subseteq Frame

\* The entries in use, as pairs of a table and an index.
Links == {l \in (DOMAIN table) \X (0 .. Radix - 1) : table[l[1]][l[2]] # Absent}
LinkedFrame(l) == table[l[1]][l[2]].frame

\* A frame is handed out once: no two page table entries lead to the same
\* frame, be it a table or a page, and every frame of RAM in use is usable
\* memory outside the bitmap, marked in it, and not held by anyone else.
FramesOwnedOnce ==
  LET linked == {LinkedFrame(l) : l \in Links}
      screen == {FbFrames[i] : i \in DOMAIN FbFrames}
  IN linked # {} =>
       /\ Cardinality(linked) = Cardinality(Links)
       /\ linked \ screen \subseteq ((UsablePages(memmap) \ BitmapOwn(memmap)) \cap UsedPages) \ held

\* A virtual page that is mapped is never silently given another frame, and
\* disappears only when vmm_unmap_page takes it out of a granted range.
MappingStable ==
  [][UNCHANGED table \/ \A va \in Vpn :
       LET f == vmm_virt_to_phys(va) IN
       \/ f = VMM_NO_PHYS
       \/ vmm_virt_to_phys(va)' = f
       \/ /\ vmm_virt_to_phys(va)' = VMM_NO_PHYS
          /\ va \in UNION granted
          /\ va \notin UNION granted']_vars

\* What mmap has returned is the caller's: the ranges are disjoint, every page
\* is reachable from ring 3 at every level, and reads as zero.
GrantedRanges ==
  /\ \A r, s \in granted : r = s \/ r \cap s = {}
  /\ \A r \in granted : \A va \in r :
       /\ UserCanReach(va)
       /\ content[vmm_virt_to_phys(va)] = [k \in 0 .. CellsPerPage - 1 |-> Zero]

\* The heap's blocks tile the mapped pages, no two neighbours are both free,
\* and the taken ones are exactly the images being loaded, the kernel stacks
\* of the tasks, and the stacks that a full task table has stranded.
HeapSound ==
  heap # <<>> =>
    /\ heap[1].at = 0
    /\ \A i \in 1 .. Len(heap) - 1 :
         /\ EndOf(heap[i]) = heap[i + 1].at
         /\ ~(heap[i].free /\ heap[i + 1].free)
    /\ \A p \in 0 .. (EndOf(heap[Len(heap)]) - 1) \div PageBytes :
         vmm_virt_to_phys(KHEAP_START + p) # VMM_NO_PHYS
    /\ {b.at + HEAP_BLOCK_SIZE : b \in {heap[i] : i \in {j \in DOMAIN heap : ~heap[j].free}}}
         = (tasks \cup dropped \cup {job[c].buffer : c \in CPU}) \ {null}

\* pmm_alloc_page reports that no page is left only when none is, although the
\* hint it starts from is a page number reduced modulo a number of words.
AllocComplete ==
  [][\A c \in CPU : InPmm(c) /\ ~InPmm(c)' /\ page'[c] = PMM_NO_PAGE => FreePages = {}]_vars

\* An image loaded once stays in place: each cell of each segment is mapped for
\* ring 3 and holds the file's byte, or zero in the tail that the file does not
\* provide, also where two segments share a page.
LoadedIntact ==
  \A im \in loaded : \A i \in DOMAIN Images[im].segs :
    LET s == Images[im].segs[i]
        FromFile(x) == \E j \in DOMAIN Images[im].segs :
                         LET r == Images[im].segs[j] IN x \in r.vaddr .. r.vaddr + r.filesz - 1
    IN \A x \in s.vaddr .. s.vaddr + s.memsz - 1 :
         /\ UserCanReach(PageOf(x))
         /\ content[vmm_virt_to_phys(PageOf(x))][x % CellsPerPage]
              = (IF FromFile(x) THEN <<im, x>> ELSE Zero)

\* MMAP_LOCK is given back by every call that takes it, also when it fails,
\* unless the kernel has panicked for lack of a page table.
MmapReleases ==
  \A c \in CPU : mmap_lock = c ~> (mmap_lock # c \/ pc[c] = "panic")
=============================================================================
