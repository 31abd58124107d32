# A TLA+ model of the Pinx kernel

Pinx is a small x86-64 kernel in Rust: symmetric multiprocessing, ring-3 tasks
in one shared address space, a PS/2 keyboard, and ext4 on an AHCI disk. This
directory holds TLA+ models of its parts, the TLC configurations that check
them on small instances, and proofs, checked by TLAPS, of many of the safety
properties for instances of any size. `PROJECT.json` links every definition to the lines
of source it models.

## The system

| Part | Source | Concurrency | Here |
| --- | --- | --- | --- |
| Spinlock | `spinlock.rs` | processors, and a handler above each | `SpinLock` |
| Scheduler | `scheduler.rs` | all processors, under `RUNQ` | `Scheduler` |
| Interrupt path | `interrupts.rs`, `asm.rs`, `idt.rs` | timer on every processor, keyboard on the boot processor (BSP) | in `Scheduler` |
| System calls | `syscall.rs` | the calling task's processor, interrupts off | exit, yield, spawn, event_read, sleep in `Scheduler`; mmap, map_framebuffer, spawn in `Memory` |
| Bring-up | `main.rs`, `smp.rs` | `kmain` with interrupts on, released processors (APs) | `Scheduler`; its memory and disk calls in `Memory`, `Storage` |
| Clock | `apic.rs`, `delay.rs` | BSP writes, all read | in `Scheduler` |
| Keyboard | `keyboard.rs` | handler on the BSP, readers anywhere | key count in `Scheduler` |
| Frames | `mm.rs` | interrupts off, no lock across processors | `FrameAllocator` |
| Page tables | `mm.rs` | no lock | `PageTables` |
| Kernel heap | `mm.rs` | interrupts off, no lock | `KernelHeap` |
| Loader | `user.rs`, `pinx_abi.rs` | `spawn` on any processor | `Memory`; outcome in `Scheduler` |
| Disk driver | `ahci.rs`, `pci.rs` | the drive runs beside the kernel; timeouts | `Ahci` |
| Partitions, mount | `gpt.rs`, `crc.rs`, `block.rs`, `fs.rs` | one processor | `Storage` |
| File system | `ext4.rs` | crashes and errors between disk writes | `Ext4` |
| Console, shell, exceptions, ports | the rest | | not modelled |

An interrupt or `int 0x80` enters `irq_common`, which saves the registers as a
frame on the current kernel stack and calls `irq_common_handler`. The handler
returns the frame to resume. A timer tick, `yield`, `sleep`, `exit` and a
blocking `event_read` go through `schedule`, which may return another task's
frame; `irq_common` moves `rsp` to it and executes `iretq`. Until that
instruction the processor still uses the stack of the task it is leaving, and
this is what most of the scheduler's properties are about.

## Modules

**`AbstractLock`** is what a lock promises: at most one processor inside.

**`SpinLock`** models `lock()` and the guard's `drop()` one instruction at a
time (`pushfq`, `cli`, `swap`, `store`, `popfq`), together with each
processor's interrupt flag and a handler that may run above the interrupted
code and take the lock too. `pushfq; pop; cli` is two steps, since an interrupt
can arrive before `cli`. The atomics are sequentially consistent: x86 and the
Acquire/Release pair give the critical section that strength.

**`Scheduler`** models the task table, the per-processor pointers and every
function of `scheduler.rs`.

* State: `state`, `frame`, `wake_tick`, `wait_input` are the fields of `Task`;
  `current` and `deferred` those of `PerCpu`; `rsp0` is the stack that the next
  trap from ring 3 uses; `on` is the flow whose stack and registers the
  processor is using; `resume` is the frame a handler has returned. A frame is
  abstracted to the flow it resumes: a slot, or `kmain`.
* A critical section under `RUNQ` is one action, which `SpinLock` justifies.
  The gaps between two sections of one handler are step boundaries: between
  `timer_irq` and `wake_sleepers`, between `wake_sleepers` and `schedule`,
  between the empty read of `event_read` and `block_current_input`, between
  reading the clock and `block_current_until`, between either and `schedule`,
  and between `schedule` and `iretq`.
* `schedule` is one action with its own operators in the order of the code:
  `Published`, `Saved`, `Pick`, then `KeepCurrent`, `ContinueIdle` or
  `SwitchTo`.
* `Kmain` is the tail of `kmain` with interrupts on, where a tick can arrive
  between any two calls. What `init_global` writes before it sets
  `INITIALIZED` is invisible to the other code, so it is one step, and so is
  `init_cpu(0)`: a tick between its stores finds `current` null or finds the
  idle slot, the cases before and after the step.
* `Program[t]` is the set of calls that the program in slot `t` may make, in
  any order and any number.
* The drain loop of `event_read` is one step. Keys that arrive during the loop
  are those of an earlier or a later keyboard interrupt. Two readers racing on
  the tail of the ring are not modelled.

**`FrameAllocator`** models the bitmap of `mm.rs`. `pmm_init` is one step on a
memory map chosen from `MemMaps`. `pmm_alloc_page` is a step per bitmap word:
a word that is full is passed over, another is read in one step and written
back with a bit more in the next. `pmm_free_page` is one step.

**`PageTables`** models `vmm_map_page_flags` one level at a time. A level whose
table is missing enters the allocator; the new table is linked and cleared in
one step. `vmm_virt_to_phys` is the operator the properties use. Addresses are
page numbers, with `Levels` levels of `Radix` entries. Present, user and frame
are kept of an entry, since the properties distinguish those.

**`KernelHeap`** gives `kmalloc`, `coalesce` and `kfree` as operators on the
list of blocks.

**`Memory`** composes the three with their callers: `kheap_init` at boot, then
`mmap` under `MMAP_LOCK`, `map_framebuffer`, and `load_and_spawn` with its file
buffer, segments, user stack and kernel stack, all page by page. `pc[c]` and
`job[c]` are the place and the locals of the call on processor `c`; while it is
inside the allocator or the mapper the place stays. `workload` says which calls
each processor makes. `FrameFree` and `Unmap` are driven directly, because
`pmm_free_page` and `vmm_unmap_page` have no callers in the kernel. An ELF file
is abstracted to whether its headers are right and to its segments; a page has
two cells, so that two segments can share it.

**`Ahci`** models `xfer`: the staging window, the two polls and their
time-outs, the command slot and the status check. The drives are external: a
drive with a command moves one sector after another through the window at any
time, completes, fails with or without releasing the slot, or does nothing for
ever. The data of a command that `xfer` gave up on moves when the drive likes.
The command header that the code builds never sets the direction bit; the
modelled drive takes the direction from the command.

**`Storage`** models what runs above it on one processor: `ahci::init` for
each port, `gpt::detect` sector by sector, the loop of `fs::init` over Linux
partitions, and reads, writes and flushes of the mounted partition. A checksum
is modelled by the data it was computed from.

**`Ext4`** models `create` and `write_file` with one step for each device
write: bitmap, group descriptor, superblock, tree node, data, inode, directory
block. `op` is the call in progress with the inode it holds in memory. A device
operation may fail, and the call returns; the machine may stop, and the disk is
mounted again. Sizes are in blocks and files are written in whole blocks. A
directory block has room for `DirMax` units, of which the entries of `.` and
`..` take one each and that of name `n` takes `NameSize[n]`. A checksum stored with what it
covers is written with it; those of the bitmaps, in the group descriptor, are
modelled by the bitmap they were computed from, or as nothing where the driver
stores zero (`meta_csum`). The history variables say which calls succeeded
(`acked`, `named`), which files were written past their end (`sparse`), which
inodes had a tree on disk ahead of them when a call ended (`torn`), and which
blocks such a call had mapped and not written (`unwritten`).

**`FileStore`** is what its user sees: names that appear once and stay, unless
a call ended while it rearranged the directory's tree, and files that only grow.

**`MCSpinLock`, `MCScheduler`, `MCMemory`, `MCStorage`, `MCExt4`** give the
instances their constants.

**`SpinLockProofs`, `SchedulerProofs`, `StorageProofs`, `MemoryFrames`,
`MemoryProofs`, `Ext4Trees`, `Ext4Kinds`, `Ext4Proofs`** hold the proofs.

Operators marked *Mutant* are wrong variants of the definition that follows
them. They are not part of any specification; replacing a definition by its
mutant must break the property named in `PROJECT.json`.

## What is checked

A task is *sheltered* when its wake-up cannot race with its own parking: its
program makes no blocking call, or there is one processor. The exclusion
properties hold for sheltered tasks and fail for the others, as the runs below
show.

| Run | Instance | Shows |
| --- | --- | --- |
| `spinlock` | 3 processors | `MutualExclusion`, `NoSelfDeadlock`, `HandlerStaysMasked`, `InterruptsBack`, `LockReleased`, and refinement of `AbstractLock` |
| `sched_smp` | 2 processors, 3 tasks, the last never blocks | `ReadyIsOffCpu`, `ExclusiveExecution`, `NoTaskLost`, `TrapsOnOwnStack`, `FrameIsOwn`, `DeadStaysDead`, and the inductive invariant `IInv` |
| `sched_up` | 1 processor, 2 tasks, any calls | `ReadyIsOffCpu`, `NoLostWakeup`, `NoEarlyWake`; with fairness `NoStarvation`, `SleepersWake` |
| `sched_one_cpu` | 2 processors, 2 tasks | `RunsOnOneCpu` is violated |
| `sched_wakeup` | 2 processors, 2 tasks | `ParkedMeansNothingBuffered` is violated |
| `sched_round_robin` | 1 processor, 3 tasks | `NoStarvation` is violated |
| `sched_boot` | 1 processor, 1 task | `BootCompletes` is violated |
| `memory` | 2 processors, 5 memory maps, 3 files | `FramesOwnedOnce`, `GrantedRanges`, `HeapSound`, `LoadedIntact`, `MappingStable`, `AllocComplete`; with fairness `MmapReleases` |
| `memory_race` | 2 processors, mmap beside spawn | `FramesOwnedOnce` is violated |
| `storage` | 2 drives, 5 layouts | `TransfersFaithful`, `MountSound`, `SlotQuiet`, `PartitionConfined`; with fairness `XferReturns` |
| `ext4` | 27 blocks, 5 inodes, 4 calls, 1 failure or crash | `RefsAllocated`, `BlocksOwnedOnce`, `AckedKept`, `OwnData`, `CountsTrack`, and refinement of `FileStore` |
| `ext4_sparse` | the same disk, single blocks written in any order, no faults | `AllAckedKept` is violated |

`memory` takes the calls one processor at a time, or `mmap` on both: that is the
use `MMAP_LOCK` covers, and there every frame has one user, ranges that `mmap`
returned are disjoint, mapped and zero, and a program stays as it was loaded.
The memory maps include ones too small for the heap or the bitmap, so every
failure path of boot is taken, and the larger `mmap` runs out of frames
half-way.

`storage` lets a drive act at any moment of the kernel's run. A call that
starts with nothing in flight is faithful. A late command can spoil the data
of a later call, and the run shows what survives that: no table or superblock
is taken for good that is not on the drive, and no sector outside the mounted
partition changes.

`ext4` puts a failed device operation or a crash between any two device writes.
The disk refers only to what its bitmaps mark, no block has two owners, and the
counters and bitmap checksums lag behind the bitmaps by at most one allocation
for each failure (`CountsTrack`). Three properties have exceptions, because the
code has no journal. Each is confined to one inode:

* A call that ends between the write of a tree node and the write of its inode
  leaves the inode `torn`. A leaf that was cut while its upper half had no index
  yet has lost those blocks. The same happens without any fault when the root
  has no room for the index of the new leaf (`ext4.rs` 1047-1051). A directory
  whose leaf grew before its size was stored maps the same position twice
  later. `AckedKept` says nothing of the blocks or names of a torn inode, and in
  `FileStore` names of that directory alone may be lost (`Tear`).
* A file that was written past its end is `sparse`. Its blocks are left to
  `AllAckedKept`, which `ext4_sparse` shows to be false.
* `OwnData` lets a sparse or torn file show old contents in one kind of place:
  a block that a call mapped below the size of the file and did not get to
  write. For a file in order and whole it has no exception: there the size,
  written last, covers no such block.

The violated properties record where the code and its comments disagree:

1. **A parked task can run twice.** `block_current_*` releases `RUNQ` with the
   task `Blocked` but still executing. Another processor's tick or the keyboard
   handler can make it `Ready`, and a third section can resume its old frame,
   before the first processor reaches `schedule`. A deferred wake-up, like the
   deferred publication, would close the gap.
2. **A wake-up can be lost.** `event_read` decides that the ring is empty before
   it takes `RUNQ`. A key that arrives on the BSP in between wakes nobody, and
   the reader waits for the next key.
3. **The policy is not round-robin.** `pick` starts at slot 0 every time. With
   three tasks that never block, the first two alternate.
4. **Boot can stop.** Between `init_global` and `init_cpu(0)` a tick finds
   `INITIALIZED` set and no current task; `schedule` switches to the idle frame
   and `kmain` is gone.
5. **Two callers can get one frame.** The comment on `MMAP_LOCK` says it
   serialises frame allocation across processors. Only `mmap` takes it; the
   loader allocates without it, and the read and the write of a bitmap word on
   two processors overlap.
6. **A file written out of order can lose a block.** `insert_extent` appends at
   the end of the rightmost leaf whatever the position, and a full leaf is split
   by place in the list. After writing blocks 0, 2, 1, 3 the index no longer
   covers an acknowledged block, which then reads as zeroes.

Also met while modelling, and not stated as properties: on a volume with
`METADATA_CSUM` but not `CSUM_SEED` every allocation replaces the bitmap's
checksum by zero, while `ext4.rs` 16-17 says that "every touched checksum is
recomputed"; filling a hole of a file with a leaf on disk writes the leaf before
the data, so a crash in between shows the block's old contents (`OwnData`
confines it); a `header_size` above 512 in a partition table's header panics at
`gpt.rs` 113, where the model answers that there is no table; the comment in `fs.rs`
says `PART` is written once, and it is written for every Linux partition tried;
`recount_blocks` leaves out the blocks of the tree itself; a call that fails
after allocating keeps the block or inode marked; loading a program a second
time does not clear the part of its segments that the file does not provide; a
panic inside the mapper leaves `MMAP_LOCK` held.

### Bounds

`TickLimit` stops the clock, not the timer interrupts; `sleep` is offered only
deadlines within it. `SleepMs` holds one or two values, so that deadlines of two
tasks meet and cross. `KeyLimit` is the capacity of the ring; one key is enough
to separate an empty ring from a non-empty one and three let a read leave keys
behind. Two processors are enough for every race in the scheduler, since each
involves one processor in a gap and one in a critical section; the third task
makes a deferred task, a running one and a ready one exist at once. The proofs
do not depend on these bounds.

`EventMax` is positive: `event_read` with `max = 0` and the block flag parks its
caller whatever the ring holds, by the first line of `sys_event_read`.

Both scheduler instances are closed: a processor always has an interrupt to
take, so deadlock is checked. The memory, storage and ext4 instances may stop:
a kernel that panicked, a table of tasks, a disk or a number of requests that
is used up.

`Memory`: words of 4 bits and 4 words to a page make the bitmap span several
words and make the hint, a page number reduced modulo the number of words, start
the scan in the wrong place. Four levels as in the code, with 3 entries each, so
that mappings share upper tables and need new ones. `MmapPages` has one size
that fits and one that does not. One slot in the task table (`MAX_TASKS`) makes
the second `spawn` find it full.

`Storage`: a window of two sectors and a capacity of eight, so that a partition
can end before, at and after the end of a request; `XFER_SPINS` of two gives a
poll that succeeds at once, late or never. The layouts hold a good table, one
with an entry that ends before it starts and more partitions than
`MAX_PARTITIONS`, one whose entries do not match their checksum, one whose
header is wrong, and one with a partition beyond the drive. `MaxRequests` of two
lets a late command meet the next call.

`Ext4`: with `RootMax` 2 and `LeafMax` 4 a tree deepens, places an extent into
a leaf on disk, splits it and runs out of room in the root; a smaller leaf would
be split by the first extent it gets after the call that made it. The occupied
blocks leave the free space in pieces, most of one block, so that trees grow,
and a few of two, so that extents also merge. With `DirMax` 3 a name of
size 1 finds room in every directory block that has none yet, and of the four
names of size 2 each needs a new block, so that together they give the root
directory a leaf on disk and split that leaf. `MaxCalls` bounds a run to four calls
(making a directory counts as two), `MaxLen` a write to three blocks; `MaxGap`
of one lets a write leave a hole. One file may be written, the others have
`MaxSize` 0; the names of size 2 are interchangeable and declared symmetric, which is sound as
the run checks no liveness. `MaxFaults`
of one puts a single failure or crash at each place. Among the states reached
are a split of a directory's leaf, cut short and completed, a hole that shows
old contents after a crash, and a full root that loses a file's blocks without a
fault. `ext4_sparse` takes five calls of one block each, with `LeafMax` 3.

### Fairness

`SpinLock`: a processor inside the lock's code executes its next instruction;
nothing is assumed of interrupts or of when code asks for the lock, and no
spinning processor is promised the lock. `Scheduler`: a handler runs to its end
(weak fairness), a timer interrupt that stays pending in the local APIC is taken
when interrupts are on again (strong fairness, because interrupts go off and on
again), and `kmain` executes instructions between interrupts (strong fairness).
Programs, keys and the bootloader's release of a processor owe nothing.
`Memory`: system calls run with interrupts off, so each processor inside one
goes on (weak fairness of its steps). `Storage`: the processor goes on; nothing
is assumed of the drives, so `XferReturns` holds for one that never answers.
`Ext4` states no liveness.

## What is proved

The theorems hold for any number of processors, tasks, ports, blocks and inodes,
any programs and any bounds. The assumptions on the constants are the named
`ASSUME`s of the modules.

* `SpinLockProofs`: `MutualExclusion`, `NoSelfDeadlock`, `HandlerStaysMasked`,
  `InterruptsBack`, and that `SpinLock` implements `AbstractLock`. The invariant adds what makes
  them inductive: code between `cli` and `popfq` has interrupts off and no
  handler above it, a handler's guard has saved a cleared flag and the base
  code's a set one, and whoever is in the critical section has left the lock's
  `AtomicBool` set.
* `SchedulerProofs`: `TypeOK`, and an invariant `IInv` with two further parts.
  `CpuInv`, for one processor: its `current` pointer, `rsp0`, the flow it
  executes or is about to resume, and the frame in its idle slot agree.
  `FrameIsOwn` needs it, because `schedule` saves the interrupted frame in
  `current` without looking whose it is. Most actions are covered by one lemma,
  `GoesOnCpuInv`: a processor that stays in its handler keeps `CpuInv` as long
  as the frames of tasks in use are kept. `ShelterInv`, for one sheltered task:
  at most one processor refers to it (executes it, or has it as current or
  deferred), and then it is `Running`, or has just died or parked on its way
  out. So a `Ready` task is referred to by nobody, and `pick` can take it. From
  `IInv` follow
  `ReadyIsOffCpu`, `ExclusiveExecution`, `NoTaskLost`, `TrapsOnOwnStack`,
  `FrameIsOwn`, and the action properties `DeadStaysDead` and `NoEarlyWake`.
  `NoLostWakeup` is proved under the hypothesis that programs ask `event_read`
  for at least one key. With several processors a sheltered task never parks;
  on one, interrupts are off from the empty read to the parking, so the ring is
  still empty when the task is marked (`ParksOnEmptyRing`).
* `StorageProofs`: `TypeOK`, `TransfersFaithful`, `MountSound`,
  `PartitionConfined` and `SlotQuiet`, for any drives and any delay. The
  invariant `IInv` has four parts. `Inv`: every write command, being built or
  issued, finished or given up on, is for sectors of the mounted partition on
  the first disk, and there is none before the mount. `Typed`: the types, and
  that the slot holds the command of the call that waits for it, all its sectors
  moved once it is over without error. `Faithful`: a call that began with
  nothing in flight stays alone with the window, and what the drive has moved so
  far is right. `Booted`: what the boot sequence has in hand at each place is a
  sector of the drive's table, or the IDENTIFY data that a command given up on
  put into the window late. Such data passes no check of `gpt::detect` or
  `Ext4::mount`, and that is why boot believes nothing false. `TableAssumption`
  says that numbers in a table that passes its checksum are natural numbers, as
  their Rust type `u64` ensures. `MountSound` is proved without hypotheses for
  the end of boot (`BootMountsSoundly`). That it lasts (`MountStaysSound`) has
  the hypothesis `TablesApart`: no partition covers the table that describes it,
  or writing files may overwrite the table.
* `MemoryFrames` and `MemoryProofs`: `FramesOwnedOnce` and the
  action property `AllocComplete`, for any memory maps, tables, files and sizes,
  under the hypothesis `Serial` on the workloads: every processor only calls
  `mmap`, or one processor makes all the calls. That is the use `MMAP_LOCK`
  covers; without it the first property is false (`memory_race`). The invariant
  `FrameInv` says what the bookkeeping of `mm.rs` amounts to. `Turns`: at most
  one processor is between the entry of a call and its end, so a word of the
  bitmap does not change between its read and its store. `BitsRight` and
  `StartRight`: what the scan has passed is still full, and only usable pages
  outside the bitmap itself are ever free. `Hands`: a frame that a call has been
  given and has not entered yet is used, is no table and is linked nowhere.
  `LinksRight`, `TablesRight`: every frame is linked by one entry at most, and
  every table but the root is one that the allocator gave out. `Levelled`: the
  tables have levels and entries lead one level down, so a walk never takes a
  page for a table. `ScreenRight`: the frames of the framebuffer, which are not
  usable memory, are linked by `map_framebuffer` alone.
  `FrameAssumption`, `TableAssumption` and `MemoryAssumption` state what the
  boot loader guarantees: numbers in the memory map are naturals, the root table
  and the framebuffer are not usable memory, and the frames of the framebuffer
  are distinct.
* `Ext4Trees`, `Ext4Kinds` and `Ext4Proofs`: `BlocksOwnedOnce` and
  `RefsAllocated`, at every moment and so after a failure or crash at any
  moment. The invariant has three layers. `Inv` is `DiskSound`, that every list
  of extents on disk refers to marked, unreserved blocks, whether an inode leads
  to it or not, and `OpSound`, the same of the inode and the half leaf the call
  holds in memory, and of the block it has just allocated. It is needed because
  a node is written before anything leads to it, and a split holds extents in
  memory while their leaf is cut. `OwnInv` is `DiskOnce`, that no tree on disk
  uses a block twice and no two trees share one, and `OpOnce`, what must be true
  of the call in progress for that to last: the tree of the inode in memory
  shares blocks with no inode but the one it will be written to (`HeldOnce`),
  the blocks just allocated are in no tree (`NewBlocks`), and the extents a
  split has cut are in no node any more except under the old root (`MovedOnce`).
  `KindInv` is `DiskKinds`, that nodes are leaves, directories map blocks of
  entries, and entries name written inodes before the unused tail of their
  group, and `OpKinds`: a call writes a file (`Writing`), makes an inode that
  nothing names yet (`Making`), or enters the name of an inode that is ready
  (`Naming`). `Ext4Assumption` says what `alloc_bit` and `group_descriptor` make
  of a superblock: every inode number belongs to one of the groups.

Facts about sets that need the library's induction (a nonempty set of naturals
has a least element; cardinalities) are named definitions, `Least` and
`SetFacts`, which the lemmas about steps assume and the last module of each
component proves. That keeps the modules with the long proofs small for the
provers.

Model-checked only:

* The liveness properties (`LockReleased`, `NoStarvation`, `SleepersWake`,
  `MmapReleases`, `XferReturns`), which need fairness.
* `TypeOK`, `GrantedRanges`, `HeapSound`, `LoadedIntact` and `MappingStable` of
  `Memory`: they follow the contents of pages and the list of the heap, which
  `FrameInv` does not describe.
* `TypeOK`, `AckedKept`, `OwnData` and `CountsTrack` of `Ext4`, and its
  refinement of `FileStore`. `TypeOK` and `CountsTrack` count bits, names and
  links with cardinalities; the others follow the contents of blocks through
  splits.

## Not modelled

* Configuration-space access, exceptions, the descriptor tables, the LAPIC's
  registers and the boot protocol: static data or single instructions. Drawing,
  fonts and the shell: nothing else depends on what they write.
* The keyboard's scancode state, and two processors inside `event_read` at once.
* Two processors inside the heap, the disk driver or ext4 at once. `spawn`
  reaches all three from any processor without a lock. A call of the heap is one
  step, and `Storage` and `Ext4` have one processor.
* A new page table that another processor walks between its being linked and
  being cleared; stale entries in the TLB of another processor.
* Huge pages: the kernel installs none and panics when it meets one.
* A device that reorders writes. `Ext4` assumes that writes become durable in
  the order in which they are issued. The code flushes the drive's cache only in
  `sync` (`ext4.rs` 440), so on a drive with a volatile cache a crash can lose
  an earlier write and keep a later one, and what `ext4` and the proofs say of
  crashes does not apply.
* Writes of part of a block: `write_file` reads, changes and writes the block
  (`ext4.rs` 1301-1311); the model writes whole blocks. A descriptor that
  cannot be read inside `block_reserved` (689) makes the code pass over the
  block; in the model a failed read ends the call. The refusals at the start of
  `add_dirent` (1181-1191) appear only as `Fail`.
* The age of the clock value in `wake_sleepers`: `interrupts.rs` 47 reads the
  uptime before `RUNQ` is taken, the action uses the uptime of its own step. A
  tick in between only delays a wake-up to the next tick.
* The arithmetic of `crc.rs`, and what the metadata checks of `Ext4::mount`
  compare: a superblock is acceptable or not.
* `Ext4::read_file`, which changes nothing; `map_block`, on which it rests, is
  an operator of the model. Trees that another system made deeper than one
  index level: the code reads them but never makes one. Directories with a hash
  index: `add_dirent` refuses them.
* Arithmetic at the width of its type: the deadline of `sleep`, and an extent
  that grows to 0x8000 blocks.

## Running

    tlc -workers 2 -config SchedulerSmp.cfg MCScheduler
    tlapm SchedulerProofs.tla

`sched_smp` has about 860,000 states, `storage` 407,000, `ext4` 258,000 and
`memory` 48,000; none takes more than about two minutes. The proofs take about
an hour from nothing, most of it in the modules about memory and the disk.
