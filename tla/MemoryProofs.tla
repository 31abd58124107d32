----------------------------- MODULE MemoryProofs -----------------------------
(***************************************************************************)
(* Every step of Memory keeps the invariant of MemoryFrames, so no frame   *)
(* has two uses, and pmm_alloc_page reports that no page is left only when *)
(* none is.                                                                *)
(***************************************************************************)
EXTENDS MemoryFrames

-----------------------------------------------------------------------------
(* load_and_spawn *)

LEMMA SpawnFailsStep ==
  ASSUME FrameInv, NEW c \in CPU, NEW l, Running(c, l), Working(l), SpawnFails(c)
  PROVE  FrameInv'
<1>1. Return(c) /\ UNCHANGED <<frameVars, tableVars, mmap_next, fb_mapped, next_stack, workload, held>>
  BY Zenon DEF SpawnFails
<1> QED BY <1>1, ReturnGoesOn, Zenon

\* The loader goes to the label "segment" without touching frames or tables.
LEMMA SegmentNext ==
  ASSUME FrameInv, NEW c \in CPU, NEW l, Running(c, l), Working(l), Moves(c), pc'[c] = "segment",
         UNCHANGED <<frameVars, tableVars, fb_mapped, held, mmap_lock>>
  PROVE  FrameInv'
<1>1. pc'[c] \notin AwaitsPage \cup {"pmm_init", "fb_map"} BY Zenon DEF AwaitsPage
<1> QED BY <1>1, QuietFollows, Zenon

LEMMA SpawnCheckStep ==
  ASSUME FrameInv, NEW c \in CPU, SpawnCheck(c)
  PROVE  FrameInv'
<1>1. Running(c, "image") /\ Working("image") BY Zenon DEF SpawnCheck, Working
<1>2. CASE SpawnFails(c) BY <1>1, <1>2, SpawnFailsStep, Zenon
<1>3. CASE /\ Goto(c, "segment") /\ SegmentThen(c, 1)
           /\ UNCHANGED <<frameVars, tableVars, clientVars>>
  <2>1. pc[c] = "image" /\ JobShape BY <1>1, RunningFacts, Zenon
  <2>2. pc[c] \in Loading /\ 1 \in Nat \ {0} BY <2>1 DEF Loading
  <2>3. /\ UNCHANGED <<workload, memmap, mmap_next, next_stack>>
        /\ UNCHANGED <<frameVars, tableVars, fb_mapped, held, mmap_lock>>
    BY <1>3, Zenon DEF frameVars, tableVars, clientVars
  <2>4. PICK i : i = 1 BY Zenon
  <2>5. i \in Nat \ {0} /\ SegmentThen(c, i) BY <1>3, <2>2, <2>4, Zenon
  <2>6. Moves(c) /\ pc'[c] = "segment"
    BY <1>3, <2>1, <2>2, <2>3, <2>5, MovesToSegment, Zenon DEF Goto
  <2> QED BY <1>1, <2>3, <2>6, SegmentNext, Zenon
<1> QED BY <1>2, <1>3, Zenon DEF SpawnCheck

\* One iteration of the loops over segments and pages.
LEMMA SpawnSegmentStep ==
  ASSUME FrameInv, NEW c \in CPU, SpawnSegment(c)
  PROVE  FrameInv'
<1>1. Running(c, "segment") /\ Working("segment") BY Zenon DEF SpawnSegment, Working
<1>2. pc[c] = "segment" /\ JobShape /\ mmap_next \in Int /\ next_stack \in Int
  BY <1>1, RunningFacts, Zenon
<1>3. pc[c] \in Loading BY <1>2, Zenon DEF Loading
<1>4. UNCHANGED pc => pc' = [pc EXCEPT ![c] = "segment"] BY <1>2, Zenon DEF JobShape
<1>5. CASE SpawnFails(c) BY <1>1, <1>5, SpawnFailsStep, Zenon
<1>6. CASE SegmentThen(c, job[c].seg + 1) /\ UNCHANGED <<frameVars, tableVars, clientVars, pc>>
  <2>1. job[c].seg \in Nat \ {0} BY <1>2, Zenon DEF JobShape, JobFits, Copying, Loading
  <2>2. PICK i : i = job[c].seg + 1 BY Zenon
  <2>3. i \in Nat \ {0} BY <2>1, <2>2
  <2>4. SegmentThen(c, i) BY <1>6, <2>2, Zenon
  <2>5. /\ UNCHANGED <<workload, memmap, mmap_next, next_stack>>
        /\ UNCHANGED <<frameVars, tableVars, fb_mapped, held, mmap_lock>> /\ UNCHANGED pc
    BY <1>6, Zenon DEF frameVars, tableVars, clientVars
  <2>6. Moves(c) /\ pc'[c] = "segment"
    BY <1>2, <1>3, <1>4, <2>3, <2>4, <2>5, MovesToSegment, Zenon
  <2> QED BY <1>1, <2>5, <2>6, SegmentNext, Zenon
<1>7. CASE /\ NextPage(c) /\ UNCHANGED pc
           /\ UNCHANGED <<frameVars, tableVars, mmap_next, mmap_lock, fb_mapped, next_stack>>
           /\ UNCHANGED <<workload, held>>
  <2>1. Follows("segment", pc[c]) BY <1>2, Zenon DEF Follows, Counting, Loading, Copying
  <2>2. /\ UNCHANGED <<workload, memmap>> /\ mmap_next' \in Int /\ next_stack' \in Int
        /\ UNCHANGED <<frameVars, tableVars, fb_mapped, held, mmap_lock>>
    BY <1>2, <1>7, Zenon DEF frameVars
  <2>3. Moves(c) /\ pc'[c] = "segment" BY <1>2, <1>4, <1>7, <2>1, <2>2, MovesOn, Zenon
  <2> QED BY <1>1, <2>2, <2>3, SegmentNext, Zenon
<1>8. CASE AllocThen(c, "seg_page") /\ UNCHANGED <<clientVars, job>>
  <2>1. "seg_page" \in AwaitsPage /\ Follows("seg_page", "segment")
    BY Zenon DEF AwaitsPage, Follows, Counting, Loading, Copying
  <2> QED BY <1>1, <1>8, <2>1, AllocThenGoesOn, Zenon
<1> QED BY <1>5, <1>6, <1>7, <1>8, Zenon DEF SpawnSegment

LEMMA SpawnPageStep ==
  ASSUME FrameInv, NEW c \in CPU, SpawnPage(c)
  PROVE  FrameInv'
<1>1. /\ Running(c, "seg_page") /\ Working("seg_page") /\ Working("seg_copy")
      /\ "seg_page" \in AwaitsPage /\ "seg_copy" \notin AwaitsPage /\ Follows("seg_copy", "seg_page")
  BY Zenon DEF SpawnPage, Working, AwaitsPage, Follows, Counting, Loading, Copying
<1>2. CASE SpawnFails(c) BY <1>1, <1>2, SpawnFailsStep, Zenon
<1>3. CASE ~SpawnFails(c)
  <2>1. /\ page[c] # PMM_NO_PAGE /\ MapThen(c, job[c].next, page[c], TRUE, "seg_copy")
        /\ Untouched /\ job' = job
    BY <1>3, Zenon DEF SpawnPage, Untouched
  <2>2. PICK va : va = job[c].next BY Zenon
  <2>3. va \in Int BY <1>1, <2>2, RunningFacts, Zenon
  <2>4. PICK user : user = TRUE BY Zenon
  <2>5. user \in BOOLEAN /\ MapThen(c, va, page[c], user, "seg_copy") BY <2>1, <2>2, <2>4, Zenon
  <2> QED BY <1>1, <2>1, <2>3, <2>5, MapThenGoesOn, SMTT(20), Zenon
<1> QED BY <1>2, <1>3, Zenon

LEMMA SpawnCopyStep ==
  ASSUME FrameInv, NEW c \in CPU, SpawnCopy(c)
  PROVE  FrameInv'
<1>1. Running(c, "seg_copy") /\ Working("seg_copy") BY Zenon DEF SpawnCopy, Working
<1>2. pc[c] = "seg_copy" /\ JobShape /\ mmap_next \in Int /\ next_stack \in Int
  BY <1>1, RunningFacts, Zenon
<1>3. Follows("segment", pc[c]) BY <1>2, Zenon DEF Follows, Counting, Loading, Copying
<1>4. /\ NextPage(c) /\ pc' = [pc EXCEPT ![c] = "segment"]
      /\ UNCHANGED <<workload, memmap>> /\ mmap_next' \in Int /\ next_stack' \in Int
      /\ UNCHANGED <<frameVars, tableVars, fb_mapped, held, mmap_lock>>
  BY <1>2, Zenon DEF SpawnCopy, Goto, frameVars
<1>5. Moves(c) /\ pc'[c] = "segment" BY <1>2, <1>3, <1>4, MovesOn, Zenon
<1> QED BY <1>1, <1>4, <1>5, SegmentNext, Zenon

\* The image is in place and a stack is carved below the last one.
LEMMA SpawnLoadedStep ==
  ASSUME FrameInv, NEW c \in CPU, SpawnLoaded(c)
  PROVE  FrameInv'
<1> DEFINE j == [NoJob EXCEPT !.base = next_stack - USER_STACK_PAGES]
<1>1. Running(c, "segment") /\ Working("segment") BY Zenon DEF SpawnLoaded, Working
<1>2. JobShape /\ mmap_next \in Int /\ next_stack \in Int BY <1>1, RunningFacts, Zenon
<1>3. USER_STACK_PAGES \in Nat /\ GuardPages \in Nat BY MemoryAssumption, Zenon DEF MemoryAssumption
<1>4. JobFits(j, "stack") BY <1>2, <1>3 DEF JobFits, NoJob, Counting, Loading, Copying
<1>5. /\ pc' = [pc EXCEPT ![c] = "stack"] /\ job' = [job EXCEPT ![c] = j]
      /\ UNCHANGED <<workload, memmap>> /\ mmap_next' \in Int
      /\ UNCHANGED <<frameVars, tableVars, fb_mapped, held, mmap_lock>>
  BY <1>2, Zenon DEF SpawnLoaded, Goto, frameVars
<1>6. next_stack' \in Int BY <1>2, <1>3 DEF SpawnLoaded, USER_STACK_SPAN
<1>7. PICK k : k = j BY Zenon
<1>8. Moves(c) /\ pc'[c] = "stack"
  BY <1>2, <1>4, <1>5, <1>6, <1>7, MovesTo, Zenon
<1>9. pc'[c] \notin AwaitsPage \cup {"pmm_init", "fb_map"} BY <1>8, Zenon DEF AwaitsPage
<1> QED BY <1>1, <1>5, <1>8, <1>9, QuietFollows, Zenon

\* spawn_user: a kernel stack, or none.
LEMMA SpawnUserStackStep ==
  ASSUME FrameInv, NEW c \in CPU, SpawnUserStack(c)
  PROVE  FrameInv'
<1>1. Running(c, "stack") /\ Working("stack") BY Zenon DEF SpawnUserStack, Working
<1>2. pc[c] = "stack" /\ JobShape /\ mmap_next \in Int /\ next_stack \in Int
  BY <1>1, RunningFacts, Zenon
<1>3. UNCHANGED <<frameVars, tableVars, mmap_next, mmap_lock, fb_mapped, next_stack, workload, held>>
  BY Zenon DEF SpawnUserStack
<1>4. CASE Return(c) BY <1>1, <1>3, <1>4, ReturnGoesOn, Zenon
<1>5. CASE \E b : pc' = [pc EXCEPT ![c] = "enlist"] /\ job' = [job EXCEPT ![c].buffer = b]
  <2>1. PICK b : pc' = [pc EXCEPT ![c] = "enlist"] /\ job' = [job EXCEPT ![c].buffer = b]
    BY <1>5, Zenon
  <2>2. PICK j : j = [job[c] EXCEPT !.buffer = b] BY Zenon
  <2>3. job' = [job EXCEPT ![c] = j] BY <2>1, <2>2, Zenon
  <2>4. JobFits(j, "enlist")
    <3>1. JobFits(job[c], "stack") BY <1>2, Zenon DEF JobShape
    <3> QED BY <2>2, <3>1, Zenon DEF JobFits, NoJob, Counting, Loading, Copying
  <2>5. UNCHANGED <<workload, memmap>> /\ mmap_next' \in Int /\ next_stack' \in Int
    BY <1>2, <1>3, Zenon DEF frameVars
  <2>6. Moves(c) /\ pc'[c] = "enlist" BY <1>2, <2>1, <2>3, <2>4, <2>5, MovesTo, Zenon
  <2>7. pc'[c] \notin AwaitsPage \cup {"pmm_init", "fb_map"} BY <2>6, Zenon DEF AwaitsPage
  <2> QED BY <1>1, <1>3, <2>6, <2>7, QuietFollows, Zenon
<1> QED BY <1>4, <1>5, Zenon DEF SpawnUserStack, Goto

\* The task enters the table, or its stack is dropped.
LEMMA EnlistStep ==
  ASSUME FrameInv, NEW c \in CPU, Enlist(c)
  PROVE  FrameInv'
<1>1. /\ Running(c, "enlist") /\ Working("enlist") /\ Return(c)
      /\ UNCHANGED <<frameVars, tableVars, mmap_next, fb_mapped, next_stack, workload, held>>
  BY Zenon DEF Enlist, Working
<1> QED BY <1>1, ReturnGoesOn, Zenon

-----------------------------------------------------------------------------
(* Calls begin *)

LEMMA IdleFacts ==
  ASSUME FrameInv, NEW c \in CPU, NEW op, Calls(c, op)
  PROVE  /\ pc[c] = "idle" /\ Up /\ ~InPmm(c) /\ ~InWalk(c) /\ JobShape /\ job[c] = NoJob
         /\ mmap_next \in Int /\ next_stack \in Int /\ Hardware /\ Turns
<1>1. pc[c] = "idle" /\ ~InPmm(c) /\ ~InWalk(c) BY Zenon DEF Calls, Running
<1>2. Up BY <1>1, IsUp, Zenon DEF FrameInv
<1>3. JobShape /\ job[c] = NoJob /\ mmap_next \in Int /\ next_stack \in Int
  BY <1>1, Zenon DEF FrameInv, Shape, JobShape, JobFits
<1> QED BY <1>1, <1>2, <1>3, Zenon DEF FrameInv, Hardware

\* A call begins without touching frames or tables.
LEMMA QuietBegins ==
  ASSUME Serial, FrameInv, NEW c \in CPU, NEW op, Calls(c, op), Moves(c),
         pc'[c] \notin AwaitsPage \cup {"pmm_init", "idle", "off"},
         UNCHANGED <<frameVars, tableVars, fb_mapped, held>>,
         \/ op = "mmap" /\ mmap_lock = NoOne /\ mmap_lock' = c
         \/ op # "mmap" /\ mmap_lock' = mmap_lock
  PROVE  Hardware' /\ Turns' /\ \A f : Shown(f)' = Shown(f)
<1>1. Up /\ Hardware /\ Turns /\ ~InPmm(c) /\ ~InWalk(c) BY IdleFacts, Zenon
<1>2. UNCHANGED <<bitmap, hint, pmm, page, table, walk, held>> BY Zenon DEF frameVars, tableVars
<1>3. pc'[c] # "pmm_init" /\ pc'[c] \notin AwaitsPage BY Zenon
<1>4. Hardware' /\ OthersRest(c) /\ \A f : Shown(f)' = Shown(f) BY <1>1, <1>2, <1>3, QuietStep, Zenon
<1>5. Inside(c) BY <1>1, <1>2, Zenon DEF Inside, InPmm, InWalk
<1>6. Turns' BY <1>1, <1>4, <1>5, TurnsBegin, Zenon
<1> QED BY <1>4, <1>6, Zenon

LEMMA MmapCarveStep ==
  ASSUME Serial, FrameInv, NEW c \in CPU, NEW n \in MmapPages, MmapCarve(c, n)
  PROVE  FrameInv'
<1> DEFINE j == [NoJob EXCEPT !.base = mmap_next, !.pages = n]
<1>1. Calls(c, "mmap") BY Zenon DEF MmapCarve
<1>2. pc[c] = "idle" /\ JobShape /\ job[c] = NoJob /\ mmap_next \in Int /\ next_stack \in Int
  BY <1>1, IdleFacts, Zenon
<1>3. n \in Nat BY MemoryAssumption, Zenon DEF MemoryAssumption
<1>4. /\ pc' = [pc EXCEPT ![c] = "mmap"] /\ mmap_lock = NoOne /\ mmap_lock' = c
      /\ job' = [job EXCEPT ![c].base = mmap_next, ![c].pages = n]
      /\ UNCHANGED <<frameVars, tableVars, fb_mapped, held, next_stack, workload>>
      /\ mmap_next' = mmap_next + n
  BY Zenon DEF MmapCarve, Goto, Reserve
<1>5. job' = [job EXCEPT ![c] = j] BY <1>2, <1>4, Zenon DEF JobShape
<1>6. JobFits(j, "mmap") BY <1>2, <1>3 DEF JobFits, NoJob, Counting, Loading, Copying
<1>7. UNCHANGED <<workload, memmap>> /\ mmap_next' \in Int /\ next_stack' \in Int
  BY <1>2, <1>3, <1>4 DEF frameVars
<1>8. PICK k : k = j BY Zenon
<1>9. Moves(c) /\ pc'[c] = "mmap" BY <1>2, <1>4, <1>5, <1>6, <1>7, <1>8, MovesTo, Zenon
<1>10. pc'[c] \notin AwaitsPage \cup {"pmm_init", "idle", "off"} BY <1>9, Zenon DEF AwaitsPage
<1>11. Hardware' /\ Turns' /\ \A f : Shown(f)' = Shown(f)
  BY <1>1, <1>4, <1>9, <1>10, QuietBegins, Zenon
<1>12. OffScreen(c) BY <1>2, <1>4, <1>9, Zenon DEF OffScreen
<1>13. ScreenRight' BY <1>9, <1>11, <1>12, OffScreenKept, Zenon DEF FrameInv
<1> QED BY <1>11, <1>13, Zenon DEF FrameInv, Hardware

\* map_framebuffer begins, if it has not run.
LEMMA FbMapStep ==
  ASSUME Serial, FrameInv, NEW c \in CPU, NEW info, FbMap(c, info)
  PROVE  FrameInv'
<1>1. Calls(c, "fb_map") BY Zenon DEF FbMap
<1>2. pc[c] = "idle" /\ JobShape /\ job[c] = NoJob /\ mmap_next \in Int /\ next_stack \in Int
  BY <1>1, IdleFacts, Zenon
<1>3. /\ pc' = [pc EXCEPT ![c] = "fb_map"] /\ job' = job /\ ~fb_mapped
      /\ UNCHANGED <<frameVars, tableVars, fb_mapped, held, mmap_lock>>
      /\ UNCHANGED <<mmap_next, next_stack, workload, memmap>>
  BY Zenon DEF FbMap, Goto, clientVars, frameVars
<1>4. job' = [job EXCEPT ![c] = NoJob] BY <1>2, <1>3, Zenon DEF JobShape
<1>5. JobFits(NoJob, "fb_map") BY FitsNoJob DEF Loading
<1>6. Moves(c) /\ pc'[c] = "fb_map" BY <1>2, <1>3, <1>4, <1>5, MovesTo, Zenon
<1>7. pc'[c] \notin AwaitsPage \cup {"pmm_init", "idle", "off"} /\ "fb_map" # "mmap"
  BY <1>6, Zenon DEF AwaitsPage
<1>8. Hardware' /\ Turns' /\ \A f : Shown(f)' = Shown(f)
  BY <1>1, <1>3, <1>6, <1>7, QuietBegins, Zenon
<1>9. ScreenRight'
  <2>1. ASSUME NEW i \in DOMAIN FbFrames, Shown(FbFrames[i])'
        PROVE  \E d \in CPU : pc'[d] = "panic" \/ (pc'[d] = "fb_map" /\ i <= job'[d].next)
    <3>1. PICK d \in CPU : pc[d] = "panic" \/ (pc[d] = "fb_map" /\ i <= job[d].next)
      BY <1>3, <1>8, <2>1, Zenon DEF FrameInv, ScreenRight, Shown
    <3>2. d # c BY <1>2, <3>1, Zenon
    <3> QED BY <1>6, <3>1, <3>2, Zenon DEF Moves
  <2> QED BY <1>3, <2>1, Zenon DEF ScreenRight, Shown
<1> QED BY <1>8, <1>9, Zenon DEF FrameInv, Hardware

LEMMA SpawnReadStep ==
  ASSUME Serial, FrameInv, NEW c \in CPU, NEW i \in DOMAIN Images, SpawnRead(c, i)
  PROVE  FrameInv'
<1>1. Calls(c, "spawn") BY Zenon DEF SpawnRead
<1>2. pc[c] = "idle" /\ JobShape /\ job[c] = NoJob /\ mmap_next \in Int /\ next_stack \in Int
  BY <1>1, IdleFacts, Zenon
<1>3. PICK b : b = kmalloc(heap, Images[i].size).ptr BY Zenon
<1>4. /\ pc' = [pc EXCEPT ![c] = "image"] /\ job' = [job EXCEPT ![c].image = i, ![c].buffer = b]
      /\ UNCHANGED <<frameVars, tableVars, fb_mapped, held, mmap_lock>>
      /\ UNCHANGED <<mmap_next, next_stack, workload, memmap>>
  BY <1>3, Zenon DEF SpawnRead, Goto, frameVars
<1>5. PICK j : j = [NoJob EXCEPT !.image = i, !.buffer = b] BY Zenon
<1>6. job' = [job EXCEPT ![c] = j] BY <1>2, <1>4, <1>5, Zenon DEF JobShape
<1>7. JobFits(j, "image") BY <1>5 DEF JobFits, NoJob, Counting, Loading, Copying
<1>8. Moves(c) /\ pc'[c] = "image" BY <1>2, <1>4, <1>6, <1>7, MovesTo, Zenon
<1>9. pc'[c] \notin AwaitsPage \cup {"pmm_init", "idle", "off"} /\ "spawn" # "mmap"
  BY <1>8, Zenon DEF AwaitsPage
<1>10. Hardware' /\ Turns' /\ \A f : Shown(f)' = Shown(f)
  BY <1>1, <1>4, <1>8, <1>9, QuietBegins, Zenon
<1>11. OffScreen(c) BY <1>2, <1>4, <1>8, Zenon DEF OffScreen
<1>12. ScreenRight' BY <1>8, <1>10, <1>11, OffScreenKept, Zenon DEF FrameInv
<1> QED BY <1>10, <1>12, Zenon DEF FrameInv, Hardware

-----------------------------------------------------------------------------
(* Single frames, and vmm_unmap_page *)

LEMMA FrameAllocStep ==
  ASSUME Serial, FrameInv, NEW c \in CPU, FrameAlloc(c)
  PROVE  FrameInv'
<1>1. Calls(c, "frame") BY Zenon DEF FrameAlloc
<1>2. /\ pc[c] = "idle" /\ Up /\ ~InWalk(c) /\ JobShape /\ job[c] = NoJob
      /\ mmap_next \in Int /\ next_stack \in Int /\ Hardware /\ Turns
  BY <1>1, IdleFacts, Zenon
<1>3. /\ pc' = [pc EXCEPT ![c] = "frame"] /\ job' = job /\ PmmEnter(c)
      /\ UNCHANGED <<table, walk, held, mmap_lock, fb_mapped>>
      /\ UNCHANGED <<mmap_next, next_stack, workload, memmap>>
  BY Zenon DEF FrameAlloc, AllocThen, Goto, PmmEnter, clientVars, tableVars
<1>4. job' = [job EXCEPT ![c] = NoJob] BY <1>2, <1>3, Zenon DEF JobShape
<1>5. JobFits(NoJob, "frame") BY FitsNoJob DEF Loading
<1>6. Moves(c) /\ pc'[c] = "frame" BY <1>2, <1>3, <1>4, <1>5, MovesTo, Zenon
<1>7. pc'[c] # "pmm_init" /\ Busy(c)' /\ "frame" # "mmap" BY <1>6, Zenon DEF Busy
<1>8. Hardware' /\ OthersRest(c) /\ \A f : Shown(f)' = Shown(f)
  BY <1>2, <1>3, <1>6, <1>7, AllocStep, Zenon
<1>9. Inside(c) BY <1>2, <1>3, <1>7, Zenon DEF Inside, InWalk
<1>10. Turns' BY <1>1, <1>2, <1>3, <1>6, <1>7, <1>8, <1>9, TurnsBegin, Zenon
<1>11. OffScreen(c) BY <1>2, <1>3, <1>6, Zenon DEF OffScreen
<1>12. ScreenRight' BY <1>6, <1>8, <1>11, OffScreenKept, Zenon DEF FrameInv
<1> QED BY <1>8, <1>10, <1>12, Zenon DEF FrameInv, Hardware

\* The caller has its frame.
LEMMA FrameTakenStep ==
  ASSUME FrameInv, NEW c \in CPU, FrameTaken(c)
  PROVE  FrameInv'
<1>1. /\ Running(c, "frame") /\ Return(c) /\ held' = held \cup ({page[c]} \ {PMM_NO_PAGE})
      /\ UNCHANGED <<memmap, bitmap, hint, pmm, page, table, walk>>
      /\ UNCHANGED <<mmap_next, mmap_lock, fb_mapped, next_stack, workload>>
  BY Zenon DEF FrameTaken, frameVars, tableVars
<1>2. Working("frame") BY Zenon DEF Working
<1>3. /\ pc[c] = "frame" /\ Busy(c) /\ Up /\ ~InPmm(c) /\ ~InWalk(c) /\ JobShape
      /\ mmap_next \in Int /\ next_stack \in Int
  BY <1>1, <1>2, RunningFacts, Zenon
<1>4. Moves(c) /\ pc'[c] = "idle" BY <1>1, <1>3, MovesHome, Zenon
<1>5. \A d \in CPU \ {c} : ~InWalk(d) /\ ~HoldsPage(d) BY <1>3, BusyAlone, Zenon DEF FrameInv
<1>6. \A d \in CPU : ~HoldsPage(d)'
  <2>1. \A d \in CPU \ {c} : ~HoldsPage(d)' BY <1>1, <1>4, <1>5, Zenon DEF HoldsPage, InPmm, Moves
  <2>2. ~HoldsPage(c)' BY <1>1, <1>3, <1>4, Zenon DEF HoldsPage, InWalk, AwaitsPage
  <2> QED BY <2>1, <2>2, Zenon
<1>7. Owned' BY <1>1, <1>3, <1>5, <1>6, TakenOwned, Zenon DEF FrameInv
<1>8. JobShape' BY <1>3, <1>4, JobsFit, Zenon
<1>9. Shape' BY <1>1, <1>8, Zenon DEF FrameInv, Shape, WalkRecord, Entry, PmmRecord, Bit
<1>10. Up' BY <1>1, <1>3, Zenon DEF Up
<1>11. StartRight' BY <1>3, <1>4, <1>10, StartKept, Zenon DEF FrameInv
<1>12. Levelled' BY <1>1, SameLevels, Zenon DEF FrameInv, InWalk
<1>13. OthersRest(c) BY <1>1, Zenon DEF OthersRest
<1>14. Inside(c) BY <1>1, <1>3, Zenon DEF Inside, InPmm, InWalk
<1>15. Turns' BY <1>1, <1>3, <1>4, <1>13, <1>14, TurnsGoOn, Zenon DEF FrameInv
<1>16. \A f : Shown(f)' = Shown(f) BY <1>1, Zenon DEF Shown, Linked, Links, LinkedFrame, InWalk
<1>17. OffScreen(c) BY <1>1, <1>3, <1>4, Zenon DEF OffScreen
<1>18. ScreenRight' BY <1>4, <1>16, <1>17, OffScreenKept, Zenon DEF FrameInv
<1> QED BY <1>7, <1>9, <1>11, <1>12, <1>15, <1>18, Zenon DEF FrameInv

\* A step that leaves the calls where they are, when nobody is in the allocator or the mapper.
LEMMA StillTurns ==
  ASSUME FrameInv, UNCHANGED <<pc, job, workload, mmap_lock, memmap, mmap_next, next_stack, walk>>,
         fb_mapped' = fb_mapped, Up, Up', \A f : Linked(f)' => Linked(f),
         \A d \in CPU : ~InPmm(d) /\ ~InWalk(d) /\ ~InPmm(d)'
  PROVE  Turns' /\ JobShape' /\ ScreenRight' /\ StartRight'
<1>1. \A d \in CPU : ~InWalk(d)' BY Zenon DEF InWalk
<1>2. Turns' BY <1>1, Zenon DEF FrameInv, Turns, Busy, Waits, AwaitsPage
<1>3. JobShape' BY Zenon DEF FrameInv, Shape, JobShape, JobFits, NoJob, Counting, Loading, Copying
<1>4. ScreenRight' BY <1>1, Zenon DEF FrameInv, ScreenRight
<1>5. StartRight' BY Zenon DEF FrameInv, StartRight
<1> QED BY <1>2, <1>3, <1>4, <1>5, Zenon

\* A frame is given back (pmm_free_page).
LEMMA FrameFreeStep ==
  ASSUME FrameInv, NEW c \in CPU, FrameFree(c)
  PROVE  FrameInv'
<1>1. PICK p \in held : PmmFree(c, p) /\ held' = held \ {p} BY Zenon DEF FrameFree
<1>2. /\ Calls(c, "frame") /\ "frame" # "mmap" /\ UNCHANGED <<table, walk>>
      /\ UNCHANGED <<pc, job, workload, mmap_lock, mmap_next, next_stack, fb_mapped>>
  BY Zenon DEF FrameFree, tableVars
<1>3. Up BY <1>2, IdleFacts, Zenon
<1>4. \A d \in CPU : ~InPmm(d) /\ ~InWalk(d) /\ ~HoldsPage(d)
  BY <1>2, CallerAlone, Zenon DEF FrameInv
<1>5. Owned' BY <1>1, <1>2, <1>3, <1>4, FreeOwned, Zenon DEF FrameInv
<1>6. UNCHANGED <<memmap, pmm, page>> /\ DOMAIN bitmap' = DOMAIN bitmap BY <1>1, Zenon DEF PmmFree
<1>7. Up' BY <1>3, <1>6, Zenon DEF Up
<1>8. \A f : Linked(f)' => Linked(f) BY <1>2, Zenon DEF Linked, Links, LinkedFrame
<1>9. \A d \in CPU : ~InPmm(d)' BY <1>4, <1>6, Zenon DEF InPmm
<1>10. Turns' /\ JobShape' /\ ScreenRight' /\ StartRight'
  BY <1>2, <1>3, <1>4, <1>6, <1>7, <1>8, <1>9, StillTurns, Zenon
<1>11. Shape' BY <1>2, <1>6, <1>10, Zenon DEF FrameInv, Shape, WalkRecord, Entry, PmmRecord, Bit
<1>12. Levelled' BY <1>2, SameLevels, Zenon DEF FrameInv, InWalk
<1> QED BY <1>5, <1>10, <1>11, <1>12, Zenon DEF FrameInv

LEMMA UnmapStep ==
  ASSUME FrameInv, NEW c \in CPU, Unmap(c)
  PROVE  FrameInv'
<1>1. PICK va : vmm_unmap_page(va) BY Zenon DEF Unmap
<1>2. /\ Calls(c, "unmap") /\ "unmap" # "mmap"
      /\ UNCHANGED <<memmap, bitmap, hint, pmm, page, held, walk, pc>>
      /\ UNCHANGED <<job, workload, mmap_lock, mmap_next, next_stack, fb_mapped>>
  BY Zenon DEF Unmap, frameVars
<1>3. Up BY <1>2, IdleFacts, Zenon
<1>4. \A d \in CPU : ~InPmm(d) /\ ~InWalk(d) /\ ~HoldsPage(d)
  BY <1>2, CallerAlone, Zenon DEF FrameInv
<1>5. /\ Owned' /\ Levelled' /\ DOMAIN table' = DOMAIN table
      /\ table' \in [DOMAIN table -> [0 .. Radix - 1 -> Entry]]
      /\ \A f : Linked(f)' => Linked(f)
  BY <1>1, <1>2, <1>4, UnmapOwned, Zenon DEF FrameInv
<1>6. Up' BY <1>2, <1>3, Zenon DEF Up
<1>7. \A d \in CPU : ~InPmm(d)' BY <1>2, <1>4, Zenon DEF InPmm
<1>8. Turns' /\ JobShape' /\ ScreenRight' /\ StartRight'
  BY <1>2, <1>3, <1>4, <1>5, <1>6, <1>7, StillTurns, Zenon
<1>9. Shape' BY <1>2, <1>5, <1>8, Zenon DEF FrameInv, Shape, WalkRecord, Entry, PmmRecord, Bit
<1> QED BY <1>5, <1>8, <1>9, Zenon DEF FrameInv

-----------------------------------------------------------------------------
(* From the library *)

INSTANCE FiniteSetTheorems

\* Every nonempty set of naturals has a least element, which Min picks.
LEMMA LeastElement ==
  ASSUME NEW S, S \subseteq Nat, S # {}
  PROVE  Min(S) \in S /\ \A y \in S : Min(S) <= y
<1>1. PICK m \in S : \A y \in S : ~(<<y, m>> \in OpToRel(<, Nat))
  BY NatLessThanWellFounded, WFMin, Zenon
<1>2. OpToRel(<, Nat) = {ss \in Nat \X Nat : ss[1] < ss[2]} BY Zenon DEF OpToRel
<1>3. ASSUME NEW y \in S PROVE m <= y
  <2>1. <<y, m>> \notin {ss \in Nat \X Nat : ss[1] < ss[2]} BY <1>1, <1>2, Zenon
  <2>2. <<y, m>> \in Nat \X Nat /\ y \in Nat /\ m \in Nat BY Zenon
  <2> QED BY <2>1, <2>2
<1> QED BY <1>3, Zenon DEF Min

LEMMA SetFactsHold == SetFacts
<1>1. ASSUME NEW S \in SUBSET Nat, S # {} PROVE Min(S) \in S /\ \A y \in S : Min(S) <= y
  BY <1>1, LeastElement, Zenon
<1>2. ASSUME NEW n \in Nat \ {0} PROVE Cardinality(0 .. n - 1) = n
  <2>1. Cardinality(0 .. n - 1) = IF 0 > n - 1 THEN 0 ELSE n - 1 - 0 + 1 BY FS_Interval
  <2> QED BY <2>1
<1>3. ASSUME NEW S, NEW x, IsFiniteSet(S) PROVE IsFiniteSet(S \cup {x})
  BY <1>3, FS_AddElement, Zenon
<1> QED BY <1>1, <1>2, <1>3, Zenon DEF SetFacts

-----------------------------------------------------------------------------
(* The invariant *)

LEMMA InitFrameInv ==
  ASSUME Init
  PROVE  FrameInv
<1>1. /\ memmap \in MemMaps /\ bitmap = <<>> /\ pmm = [c \in CPU |-> Outside]
      /\ page = [c \in CPU |-> PMM_NO_PAGE] /\ walk = [c \in CPU |-> NoWalk]
      /\ table = [f \in {PML4} |-> EmptyTable] /\ held = {} /\ workload \in Workloads
      /\ pc = [c \in CPU |-> IF c = BSP THEN "pmm_init" ELSE "off"]
      /\ job = [c \in CPU |-> NoJob] /\ mmap_next = MMAP_BASE /\ next_stack = USER_STACK_TOP
  BY Zenon DEF Init, FrameInit, TableInit
<1>2. \A c \in CPU : ~InPmm(c) /\ ~InWalk(c) /\ pc[c] \in {"pmm_init", "off"}
  BY <1>1, Zenon DEF InPmm, Outside, InWalk, NoWalk
<1>3. ~Up BY <1>1 DEF Up
<1>4. Levels \in Nat \ {0} /\ Radix \in Nat \ {0} BY TableAssumption, Zenon DEF TableAssumption
<1>5. DOMAIN table = {PML4} /\ table[PML4] = EmptyTable BY <1>1, Zenon
<1>6. Links = {}
  <2>1. ASSUME NEW l \in Links PROVE FALSE
    <3>1. l \in (DOMAIN table) \X (0 .. Radix - 1) /\ table[l[1]][l[2]] # Absent BY Zenon DEF Links
    <3>2. l[1] = PML4 /\ l[2] \in 0 .. Radix - 1 BY <1>5, <3>1, Zenon
    <3>3. EmptyTable[l[2]] = Absent BY <3>2, Zenon DEF EmptyTable
    <3> QED BY <1>5, <3>1, <3>2, <3>3, Zenon
  <2> QED BY <2>1, Zenon
<1>7. Shape
  <2>1. pmm \in [CPU -> PmmRecord] BY <1>1, Zenon DEF PmmRecord, Outside
  <2>2. page \in [CPU -> Int] BY <1>1 DEF PMM_NO_PAGE
  <2>3. NoWalk \in WalkRecord BY <1>4 DEF WalkRecord, NoWalk, PML4
  <2>4. walk \in [CPU -> WalkRecord] BY <1>1, <2>3, Zenon
  <2>5. \A c \in CPU : walk[c].at # "grow" BY <1>1, Zenon DEF NoWalk
  <2>6. IsFiniteSet(DOMAIN table) /\ PML4 \in DOMAIN table BY <1>5, FS_Singleton, Zenon
  <2>7. table \in [DOMAIN table -> [0 .. Radix - 1 -> Entry]]
    <3>1. Absent \in Entry BY DEF Absent, Entry, VMM_NO_PHYS
    <3>2. EmptyTable \in [0 .. Radix - 1 -> Entry] BY <3>1, Zenon DEF EmptyTable
    <3> QED BY <1>1, <3>2, Zenon
  <2>8. JobShape
    <3>1. MMAP_BASE \in Int /\ USER_STACK_TOP \in Int BY MemoryAssumption DEF MemoryAssumption
    <3>2. \A c \in CPU : job[c] = NoJob /\ pc[c] \notin Loading BY <1>1, Zenon DEF Loading
    <3>3. \A c \in CPU : JobFits(job[c], pc[c]) BY <3>2, FitsNoJob, Zenon
    <3> QED BY <1>1, <3>1, <3>3, Zenon DEF JobShape
  <2> QED BY <1>1, <2>1, <2>2, <2>4, <2>5, <2>6, <2>7, <2>8, Zenon DEF Shape
<1>8. Turns
  <2>1. \A c, d \in CPU : Busy(c) /\ d # c => pc[d] = "off" BY <1>1, Zenon DEF Busy
  <2> QED BY <1>1, <1>2, <2>1, Zenon DEF Turns, Waits
<1>9. StartRight
  <2>1. \A c \in CPU : pc[c] \in {"pmm_init", "off", "panic"} BY <1>2, Zenon
  <2> QED BY <1>1, <1>2, <1>3, <1>5, <1>6, <2>1, Zenon DEF StartRight
<1>10. Owned
  <2>1. \A c \in CPU : ~HoldsPage(c) BY <1>1, Zenon DEF HoldsPage
  <2>2. Hands BY <1>2, <2>1, Zenon DEF Hands
  <2>3. BitsRight BY <1>3, Zenon DEF BitsRight
  <2>4. LinksRight BY <1>6, Zenon DEF LinksRight
  <2>5. TablesRight BY <1>5, Zenon DEF TablesRight
  <2>6. HeldRight BY <1>1, Zenon DEF HeldRight
  <2> QED BY <2>2, <2>3, <2>4, <2>5, <2>6, Zenon DEF Owned
<1>11. Levelled
  <2> DEFINE lv == [f \in {PML4} |-> 1]
  <2>1. lv \in [DOMAIN table -> 1 .. Levels] BY <1>4, <1>5
  <2>2. LevelsRight(lv) BY <1>2, <1>6, <2>1, Zenon DEF LevelsRight
  <2> QED BY <2>1, <2>2, Zenon DEF Levelled
<1>12. ScreenRight
  <2>1. \A f : ~Linked(f) BY <1>6, Zenon DEF Linked
  <2>2. \A c \in CPU : pc[c] # "fb_map" BY <1>2, Zenon
  <2> QED BY <1>2, <2>1, <2>2, Zenon DEF ScreenRight
<1> QED BY <1>7, <1>8, <1>9, <1>10, <1>11, <1>12, Zenon DEF FrameInv

LEMMA NextFrameInv ==
  ASSUME SetFacts, Serial, FrameInv, [Next]_vars
  PROVE  FrameInv'
<1>1. ASSUME NEW c \in CPU, Step(c) PROVE FrameInv'
  <2>1. CASE Allocating(c) BY <2>1, AllocatingStep, Zenon
  <2>2. CASE Mapping(c) BY <2>2, MappingStep, Zenon
  <2>3. CASE OutOfTables(c) BY <2>3, OutOfTablesStep, Zenon
  <2>4. CASE Boot(c) BY <2>4, BootStep, Zenon
  <2>5. CASE HeapAlloc(c) \/ MmapAlloc(c) \/ StackAlloc(c) BY <2>5, AllocActions, Zenon
  <2>6. CASE HeapMap(c) BY <2>6, HeapMapStep, Zenon
  <2>7. CASE HeapReady(c) BY <2>7, HeapReadyStep, Zenon
  <2>8. CASE MmapMap(c) BY <2>8, MmapMapStep, Zenon
  <2>9. CASE MmapReturn(c) \/ MmapOutOfMemory(c) BY <2>9, MmapReturns, Zenon
  <2>10. CASE FbMapPage(c) BY <2>10, FbMapPageStep, Zenon
  <2>11. CASE FbMapReturn(c) BY <2>11, FbMapReturnStep, Zenon
  <2>12. CASE SpawnCheck(c) BY <2>12, SpawnCheckStep, Zenon
  <2>13. CASE SpawnSegment(c) BY <2>13, SpawnSegmentStep, Zenon
  <2>14. CASE SpawnPage(c) BY <2>14, SpawnPageStep, Zenon
  <2>15. CASE SpawnCopy(c) BY <2>15, SpawnCopyStep, Zenon
  <2>16. CASE SpawnLoaded(c) BY <2>16, SpawnLoadedStep, Zenon
  <2>17. CASE StackMap(c) BY <2>17, StackMapStep, Zenon
  <2>18. CASE SpawnUserStack(c) BY <2>18, SpawnUserStackStep, Zenon
  <2>19. CASE Enlist(c) BY <2>19, EnlistStep, Zenon
  <2>20. CASE FrameTaken(c) BY <2>20, FrameTakenStep, Zenon
  <2> QED BY <1>1, <2>1, <2>2, <2>3, <2>4, <2>5, <2>6, <2>7, <2>8, <2>9, <2>10, <2>11, <2>12,
             <2>13, <2>14, <2>15, <2>16, <2>17, <2>18, <2>19, <2>20, Zenon DEF Step
<1>2. ASSUME NEW c \in CPU, Call(c) PROVE FrameInv'
  <2>1. CASE \E n \in MmapPages : MmapCarve(c, n) BY <2>1, MmapCarveStep, Zenon
  <2>2. CASE FbMap(c, MMAP_BASE) BY <2>2, FbMapStep, Zenon
  <2>3. CASE \E i \in DOMAIN Images : SpawnRead(c, i) BY <2>3, SpawnReadStep, Zenon
  <2>4. CASE FrameAlloc(c) BY <2>4, FrameAllocStep, Zenon
  <2>5. CASE FrameFree(c) BY <2>5, FrameFreeStep, Zenon
  <2>6. CASE Unmap(c) BY <2>6, UnmapStep, Zenon
  <2> QED BY <1>2, <2>1, <2>2, <2>3, <2>4, <2>5, <2>6, Zenon DEF Call
<1>3. CASE UNCHANGED vars
  <2>1. /\ UNCHANGED <<memmap, bitmap, hint, pmm, page, table, walk, held>>
        /\ UNCHANGED <<pc, job, workload, mmap_next, mmap_lock, fb_mapped, next_stack>>
    BY <1>3, Zenon DEF vars, frameVars, tableVars, clientVars
  <2>2. Owned' BY <2>1, QuietOwned, Zenon DEF FrameInv, HoldsPage, InPmm, AwaitsPage
  <2>3. Levelled' BY <2>1, SameLevels, Zenon DEF FrameInv, InWalk
  <2>4. Turns' BY <2>1, Zenon DEF FrameInv, Turns, Busy, Waits, AwaitsPage, InPmm, InWalk
  <2>5. JobShape' BY <2>1, Zenon DEF FrameInv, Shape, JobShape, JobFits, NoJob, Counting, Loading, Copying
  <2>6. Shape' BY <2>1, <2>5, Zenon DEF FrameInv, Shape, WalkRecord, Entry, PmmRecord, Bit
  <2>7. Links' = Links /\ \A l : LinkedFrame(l)' = LinkedFrame(l)
    BY <2>1, Zenon DEF Links, LinkedFrame
  <2>8. StartRight' BY <2>1, <2>7, Zenon DEF FrameInv, StartRight, Up, InPmm, InWalk
  <2>9. ScreenRight' BY <2>1, <2>7, Zenon DEF FrameInv, ScreenRight, Linked, InWalk
  <2> QED BY <2>2, <2>3, <2>4, <2>6, <2>8, <2>9, Zenon DEF FrameInv
<1> QED BY <1>1, <1>2, <1>3, Zenon DEF Next

-----------------------------------------------------------------------------
(* Theorems *)

\* Where MMAP_LOCK covers all calls or one processor makes them all, the invariant holds of mm.rs.
THEOREM FramesInvariant == Serial => (Spec => []FrameInv)
<1>1. SUFFICES ASSUME Serial PROVE Spec => []FrameInv BY Zenon
<1>2. Init => FrameInv BY InitFrameInv, Zenon
<1>3. FrameInv /\ [Next]_vars => FrameInv' BY <1>1, SetFactsHold, NextFrameInv, Zenon
<1> QED BY <1>2, <1>3, PTL DEF Spec

\* The entries of the page tables lead to as many frames, and each frame that is not the
\* screen's is RAM, marked in the bitmap, and no caller's.
LEMMA OwnedOnce ==
  ASSUME FrameInv
  PROVE  FramesOwnedOnce
<1> DEFINE linked == {LinkedFrame(l) : l \in Links}
           map == [l \in Links |-> LinkedFrame(l)]
<1>1. IsFiniteSet(Links)
  <2>1. IsFiniteSet(DOMAIN table) BY Zenon DEF FrameInv, Shape
  <2>2. Radix \in Nat \ {0} BY TableAssumption, Zenon DEF TableAssumption
  <2>3. IsFiniteSet(0 .. Radix - 1) BY <2>2, FS_Interval
  <2>4. IsFiniteSet((DOMAIN table) \X (0 .. Radix - 1)) BY <2>1, <2>3, FS_Product, Zenon
  <2>5. Links \subseteq (DOMAIN table) \X (0 .. Radix - 1) BY Zenon DEF Links
  <2> QED BY <2>4, <2>5, FS_Subset, Zenon
<1>2. LinksRight /\ memmap \in MemMaps BY Zenon DEF FrameInv, Owned, Shape
<1>3. Cardinality(linked) = Cardinality(Links)
  <2>1. map \in Bijection(Links, linked)
    <3>1. map \in [Links -> linked] BY Zenon
    <3>2. \A l, k \in Links : map[l] = map[k] => l = k BY <1>2, Zenon DEF LinksRight
    <3>3. \A f \in linked : \E l \in Links : map[l] = f BY Zenon
    <3> QED BY <3>1, <3>2, <3>3, Zenon DEF Bijection, Injection, Surjection, IsInjective
  <2> QED BY <1>1, <2>1, FS_Bijection, Zenon DEF ExistsBijection
<1>4. ASSUME NEW f \in linked, f \notin {FbFrames[i] : i \in DOMAIN FbFrames}
      PROVE  f \in ((UsablePages(memmap) \ BitmapOwn(memmap)) \cap UsedPages) \ held
  <2>1. PICK l \in Links : f = LinkedFrame(l) BY Zenon
  <2>2. f \notin OnScreen BY <1>4, Zenon DEF OnScreen, Range
  <2>3. Taken(f) BY <1>2, <2>1, <2>2, Zenon DEF LinksRight
  <2> QED BY <2>3, Zenon DEF Taken, Ram
<1> QED BY <1>3, <1>4, Zenon DEF FramesOwnedOnce

\* pmm_alloc_page hands out a frame once, when all processors call only mmap, which holds
\* MMAP_LOCK, or one processor makes all the calls: what the run checks on small instances
\* holds of every memory map, every number of processors and every tree.
THEOREM FramesOwnedOnceHolds == Serial => (Spec => []FramesOwnedOnce)
<1>1. FrameInv => FramesOwnedOnce BY OwnedOnce, Zenon
<1> QED BY <1>1, FramesInvariant, PTL

\* What an action of c does to the calls of pmm_alloc_page.
LEMMA PmmMoves ==
  ASSUME NEW c \in CPU, Step(c) \/ Call(c)
  PROVE  PmmStep(c) \/ PmmEnter(c) \/ pmm' = pmm
<1>1. CASE Allocating(c) \/ OutOfTables(c) \/ Boot(c)
  BY <1>1, Zenon DEF Allocating, OutOfTables, Boot, PmmInit, frameVars
<1>2. CASE Mapping(c)
  BY <1>2, Zenon DEF Mapping, MapStep, MapDown, MapNeedsTable, MapGrow, MapLeaf, frameVars
<1>3. CASE HeapAlloc(c) \/ MmapAlloc(c) \/ StackAlloc(c) \/ FrameAlloc(c)
  BY <1>3, Zenon DEF HeapAlloc, MmapAlloc, StackAlloc, FrameAlloc, AllocThen
<1>4. CASE HeapMap(c) \/ MmapMap(c) \/ FbMapPage(c) \/ SpawnPage(c) \/ StackMap(c)
  BY <1>4, Zenon DEF HeapMap, MmapMap, FbMapPage, SpawnPage, SpawnFails, StackMap, MapThen, frameVars
<1>5. CASE HeapReady(c) \/ MmapReturn(c) \/ MmapOutOfMemory(c) \/ FbMapReturn(c)
  BY <1>5, Zenon DEF HeapReady, MmapReturn, MmapOutOfMemory, FbMapReturn, frameVars
<1>6. CASE SpawnSegment(c)
  BY <1>6, Zenon DEF SpawnSegment, SpawnFails, AllocThen, frameVars
<1>7. CASE SpawnCheck(c) \/ SpawnCopy(c) \/ SpawnLoaded(c)
  BY <1>7, Zenon DEF SpawnCheck, SpawnFails, SpawnCopy, SpawnLoaded, frameVars
<1>8. CASE SpawnUserStack(c) \/ Enlist(c) \/ FrameTaken(c)
  BY <1>8, Zenon DEF SpawnUserStack, Enlist, FrameTaken, frameVars
<1>9. CASE (\E n \in MmapPages : MmapCarve(c, n)) \/ FbMap(c, MMAP_BASE)
  BY <1>9, Zenon DEF MmapCarve, FbMap, frameVars
<1>10. CASE (\E i \in DOMAIN Images : SpawnRead(c, i)) \/ FrameFree(c) \/ Unmap(c)
  BY <1>10, Zenon DEF SpawnRead, FrameFree, PmmFree, Unmap, frameVars
<1> QED BY <1>1, <1>2, <1>3, <1>4, <1>5, <1>6, <1>7, <1>8, <1>9, <1>10, Zenon DEF Step, Call

\* A scan that ends without a page has seen every word, and every word was full.
LEMMA ScanComplete ==
  ASSUME FrameInv, [Next]_vars, NEW c \in CPU, InPmm(c), ~InPmm(c)', page'[c] = PMM_NO_PAGE
  PROVE  FreePages = {}
<1>1. pmm \in [CPU -> PmmRecord] /\ page \in [CPU -> Int] BY Zenon DEF FrameInv, Shape
<1>2. pmm' # pmm BY Zenon DEF InPmm
<1>3. PICK d \in CPU : Step(d) \/ Call(d) BY <1>2, Zenon DEF Next, vars, frameVars
<1>4. PmmStep(c)
  <2>1. PmmStep(d) \/ PmmEnter(d) BY <1>2, <1>3, PmmMoves, Zenon
  <2>2. CASE PmmEnter(d) BY <1>1, <2>2, Zenon DEF PmmEnter, InPmm
  <2>3. CASE PmmStep(d)
    <3>1. d # c => pmm'[c] = pmm[c]
      BY <1>1, <2>3, Zenon DEF PmmStep, PmmRead, PmmStore, PmmGiveUp
    <3> QED BY <2>3, <3>1, Zenon DEF InPmm
  <2> QED BY <2>1, <2>2, <2>3, Zenon
<1>5. Up BY IsUp, Zenon DEF FrameInv
<1>6. /\ Entries \in Nat \ {0} /\ DOMAIN bitmap = 0 .. Entries - 1
      /\ bitmap \in [DOMAIN bitmap -> SUBSET Bit] /\ ScanRight(c)
  BY <1>5, Zenon DEF FrameInv, Owned, BitsRight
<1>7. /\ bitmap[Index(pmm[c])] = Bit /\ ScanEnds(pmm[c])
  <2>1. CASE PmmStore(c)
    <3>1. page'[c] = PageAt(Index(pmm[c]), Min(Bit \ pmm[c].word)) BY <1>1, <2>1, Zenon DEF PmmStore
    <3>2. pmm[c].at = "store" BY <2>1, Zenon DEF PmmStore
    <3>3. PICK i : i = Index(pmm[c]) BY Zenon
    <3>4. pmm[c].from \in Nat /\ pmm[c].scanned \in Nat BY <1>1, Zenon DEF PmmRecord
    <3>5. i \in Nat BY <1>6, <3>3, <3>4 DEF Index
    <3>6. pmm[c].word \subseteq Bit /\ pmm[c].word # Bit BY <1>1, <1>6, <3>2, Zenon DEF ScanRight, PmmRecord
    <3>7. PICK S : S = Bit \ pmm[c].word BY Zenon
    <3>8. S # {} /\ S \subseteq Nat
      <4>1. Bit \subseteq Nat BY FrameAssumption DEF Bit, FrameAssumption
      <4> QED BY <3>6, <3>7, <4>1, Zenon
    <3>9. Min(S) \in Bit
      <4>1. Min(S) \in S BY <3>8, SetFactsHold, MinInSet, Zenon
      <4> QED BY <3>7, <4>1, Zenon
    <3>10. PageAt(i, Min(S)) \in Nat BY <3>5, <3>9, PageSplit, Zenon
    <3> QED BY <3>1, <3>3, <3>7, <3>10 DEF PMM_NO_PAGE
  <2>2. CASE PmmRead(c)
    <3>1. pmm[c].at = "scan" BY <2>2, Zenon DEF PmmRead
    <3>2. CASE bitmap[Index(pmm[c])] # Bit
      <4>1. pmm' = [pmm EXCEPT ![c].at = "store", ![c].word = bitmap[Index(pmm[c])]]
        BY <2>2, <3>2, Zenon DEF PmmRead
      <4> QED BY <1>1, <4>1, Zenon DEF InPmm, PmmRecord
    <3>3. CASE bitmap[Index(pmm[c])] = Bit /\ ~ScanEnds(pmm[c])
      <4>1. pmm' = [pmm EXCEPT ![c].scanned = @ + 1] BY <2>2, <3>3, Zenon DEF PmmRead
      <4> QED BY <1>1, <3>1, <4>1, Zenon DEF InPmm, PmmRecord
    <3> QED BY <3>2, <3>3, Zenon
  <2> QED BY <1>4, <2>1, <2>2, Zenon DEF PmmStep
<1>8. PICK n : n = Entries BY Zenon
<1>9. PICK from : from = pmm[c].from BY Zenon
<1>10. n \in Nat \ {0} /\ from \in 0 .. n - 1 /\ pmm[c].scanned = n - 1
  <2>1. pmm[c].from \in Nat /\ pmm[c].scanned \in Nat BY <1>1, Zenon DEF PmmRecord
  <2> QED BY <1>6, <1>7, <1>8, <1>9, <2>1 DEF ScanRight, ScanEnds
<1>11. ASSUME NEW i \in DOMAIN bitmap PROVE bitmap[i] = Bit
  <2>1. PICK k \in 0 .. n - 1 : (from + k) % n = i BY <1>6, <1>8, <1>10, FullRound
  <2>2. CASE k = n - 1
    <3>1. Index(pmm[c]) = i BY <1>8, <1>9, <1>10, <2>1, <2>2, Zenon DEF Index
    <3> QED BY <1>7, <3>1, Zenon
  <2>3. CASE k < n - 1
    <3>1. k \in 0 .. pmm[c].scanned - 1 BY <1>10, <2>1, <2>3
    <3> QED BY <1>6, <1>8, <1>9, <2>1, <3>1, Zenon DEF ScanRight
  <2> QED BY <1>10, <2>2, <2>3
<1> QED BY <1>11, Zenon DEF FreePages

\* pmm_alloc_page answers PMM_NO_PAGE only when the bitmap has no clear bit, although its hint is
\* a page number reduced modulo a number of words.
THEOREM AllocCompleteHolds == Serial => (Spec => AllocComplete)
<1>1. FrameInv /\ [Next]_vars =>
        [\A c \in CPU : InPmm(c) /\ ~InPmm(c)' /\ page'[c] = PMM_NO_PAGE => FreePages = {}]_vars
  BY ScanComplete, Zenon
<1> QED BY <1>1, FramesInvariant, PTL DEF Spec, AllocComplete
=============================================================================
