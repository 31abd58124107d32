-------------------------------- MODULE Ext4 --------------------------------
(***************************************************************************)
(* ext4.rs: creating and writing files on the live file system.            *)
(*                                                                         *)
(* There is no journal, so the order of the device writes is all that      *)
(* protects the disk.  Each device write is a step.  Between two of them   *)
(* a read or write may fail, which makes the call return at once, or the   *)
(* machine may stop and mount the disk again.  The device is assumed to    *)
(* make writes durable in the order in which they are issued: the code     *)
(* flushes its cache only in sync().                                       *)
(*                                                                         *)
(* A block holds file data, a leaf of an extent tree or directory entries. *)
(* Files are written in whole blocks and sizes count blocks.  Checksums    *)
(* that are stored with what they cover are written with it; those of the  *)
(* bitmaps are in the group descriptor.                                    *)
(***************************************************************************)
EXTENDS Integers, Sequences, FiniteSetsExt

CONSTANTS
  BlocksTotal, BlocksPerGroup,
  InodesTotal, InodesPerGroup,
  Reserved,     \* superblock, descriptors, bitmaps and inode tables
  Occupied,     \* blocks of files that are there already
  ROOT_INO,
  RootDirBlock, \* the block of the freshly made root directory
  RootMax,      \* entries of the tree root in the inode: 4
  LeafMax,      \* entries of a leaf: (bs - 12) / 12
  DirMax,       \* room of a directory block, in units of the entry of "."
  NameSize,     \* the same units: what the entry of each name takes
  Name,         \* names that are created
  METADATA_CSUM, CSUM_SEED, \* features of the volume
  MaxLen,       \* bound: blocks written by one call
  MaxSize,      \* bound: the size of each file
  MaxGap,       \* bound: how far past the end of a file a write begins
  MaxCalls,     \* bound: calls, of which making a directory counts as two
  MaxFaults     \* bound: failed device operations and crashes

ASSUME Ext4Assumption ==
  /\ {BlocksTotal, BlocksPerGroup, InodesTotal, InodesPerGroup, RootMax, LeafMax, DirMax,
      MaxLen} \subseteq Nat \ {0}
  /\ 2 <= DirMax /\ NameSize \in [Name -> 1 .. DirMax]
  /\ METADATA_CSUM \in BOOLEAN /\ CSUM_SEED \in BOOLEAN
  /\ {".", ".."} \cap Name = {}
  /\ Reserved \subseteq 0 .. BlocksTotal - 1
  /\ Occupied \subseteq 0 .. BlocksTotal - 1
  /\ RootDirBlock \in (0 .. BlocksTotal - 1) \ (Reserved \cup Occupied)
  /\ ROOT_INO \in 1 .. InodesTotal
  /\ \A i \in 1 .. InodesTotal :
       /\ MaxSize[i] \in Nat
       /\ (i - 1) \div InodesPerGroup \in 0 .. (BlocksTotal - 1) \div BlocksPerGroup

Fsb == 0 .. BlocksTotal - 1
Ino == 1 .. InodesTotal
Group == 0 .. (BlocksTotal - 1) \div BlocksPerGroup
GroupOfBlock(b) == b \div BlocksPerGroup
GroupOfInode(i) == (i - 1) \div InodesPerGroup
BlocksOf(g) == {b \in Fsb : GroupOfBlock(b) = g}
InodesOf(g) == {i \in Ino : GroupOfInode(i) = g}

VARIABLES
  bbm,      \* on disk: blocks marked in the block bitmaps
  ibm,      \* on disk: inodes marked in the inode bitmaps
  gd,       \* on disk: the group descriptors
  sb,       \* on disk: the counters of the superblock
  itable,   \* on disk: the inode tables
  block,    \* on disk: the contents of the blocks
  mem,      \* free_blocks and free_inodes of the mounted file system
  op,       \* the call in progress
  calls,    \* bound: calls so far
  faults,   \* bound: faults so far
  acked,    \* history: the <<inode, block>> pairs that a successful call wrote
  named,    \* history: the <<directory, name, inode>> triples of successful creates
  sparse,   \* history: the inodes that were written past their end
  torn,     \* history: the inodes whose tree on disk was ahead of them when a call ended
  unwritten \* history: the blocks mapped by calls that ended before writing them

disk == <<bbm, ibm, gd, sb, itable, block>>
history == <<acked, named, sparse, torn, unwritten>>
spent == <<calls, faults>>
vars == <<disk, mem, op, spent, history>>

FreeInode == [kind |-> "free", size |-> 0, links |-> 0, blocks |-> 0, depth |-> 0, ents |-> <<>>]
Content(kind, val, ents, names) == [kind |-> kind, val |-> val, ents |-> ents, names |-> names]
Stale == Content("stale", <<>>, <<>>, {})
Data(i, lb) == Content("data", <<i, lb>>, <<>>, {})
Leaf(ents) == Content("leaf", <<>>, ents, {})
Dir(names) == Content("dir", <<>>, <<>>, names)

\* An extent of len blocks; an index has len 0 and leads to a leaf.
Extent(lb, len, pb) == [lb |-> lb, len |-> len, pb |-> pb]
IndexTo(lb, leaf) == Extent(lb, 0, leaf)

\* A call: where it is, the inode it holds in memory, the blocks it has yet to write,
\* the block last allocated (got), the block being mapped at lb (pb), where to go on after
\* an allocation and after an insertion, the extents that a split moves, whether the tree on
\* disk is ahead of its inode (dirty), and for create the new inode, its name and kind.
NoOp == [at |-> "idle", ino |-> 0, inode |-> FreeInode, lb |-> 0, first |-> 0, end |-> 0,
         got |-> 0, pb |-> 0, after_alloc |-> "none", after_insert |-> "none", tries |-> 0,
         moved |-> <<>>, dirty |-> FALSE, target |-> 0, name |-> "none", kind |-> "none"]

Counts(free_blocks, free_inodes) == [blocks |-> free_blocks, inodes |-> free_inodes]

\* Whether the driver computes checksums (mount).
meta_csum == METADATA_CSUM /\ CSUM_SEED

\* The checksum of a bitmap is modelled as the set of the bitmap it was computed from.  The
\* empty set is the zero that is stored where no checksum is computed.
BitmapCsum(bitmap) == IF meta_csum THEN {bitmap} ELSE {}

\* A freshly made file system, mounted.
Init ==
  /\ bbm = Reserved \cup Occupied \cup {RootDirBlock}
  /\ ibm = {ROOT_INO}
  /\ gd = [g \in Group |->
             [free_blocks |-> Cardinality(BlocksOf(g) \ bbm),
              free_inodes |-> Cardinality(InodesOf(g) \ ibm),
              dirs        |-> IF ROOT_INO \in InodesOf(g) THEN 1 ELSE 0,
              unused      |-> InodesPerGroup - Max({0} \cup {((i - 1) % InodesPerGroup) + 1 :
                                                             i \in InodesOf(g) \cap ibm}),
              bb_csum     |-> IF METADATA_CSUM THEN {BlocksOf(g) \cap bbm} ELSE {},
              ib_csum     |-> IF METADATA_CSUM THEN {InodesOf(g) \cap ibm} ELSE {}]]
  /\ sb = Counts(Cardinality(Fsb \ bbm), Cardinality(Ino \ ibm))
  /\ itable = [i \in Ino |->
                 IF i = ROOT_INO
                 THEN [kind |-> "dir", size |-> 1, links |-> 2, blocks |-> 1, depth |-> 0,
                       ents |-> <<Extent(0, 1, RootDirBlock)>>]
                 ELSE FreeInode]
  /\ block = [b \in Fsb |-> IF b = RootDirBlock
                            THEN Dir({<<".", ROOT_INO>>, <<"..", ROOT_INO>>})
                            ELSE Stale]
  /\ mem = sb
  /\ op = NoOp
  /\ calls = 0
  /\ faults = 0
  /\ acked = {}
  /\ named = {}
  /\ sparse = {}
  /\ torn = {}
  /\ unwritten = {}

-----------------------------------------------------------------------------
(* Extent trees *)

\* The block that a sequence of extents gives for lb, or none: {} or one block.
InExtents(ents, lb) ==
  LET hits == {i \in DOMAIN ents : ents[i].lb <= lb /\ lb < ents[i].lb + ents[i].len} IN
  IF hits = {} THEN {} ELSE LET e == ents[Min(hits)] IN {e.pb + lb - e.lb}

\* The leaf whose index covers lb: the first whose range, up to the next, does.
LeafFor(ents, lb) ==
  LET covers == {i \in DOMAIN ents : /\ ents[i].lb <= lb
                                     /\ i < Len(ents) => lb < ents[i + 1].lb} IN
  IF covers = {} THEN {} ELSE {ents[Min(covers)].pb}

map_block(inode, lb) ==
  IF inode.depth = 0
  THEN InExtents(inode.ents, lb)
  ELSE UNION {InExtents(block[leaf].ents, lb) : leaf \in LeafFor(inode.ents, lb)}

\* The extents below an inode, and the number of their blocks (recount_blocks).
Leaves(inode) == IF inode.depth = 0 THEN {} ELSE {inode.ents[i].pb : i \in DOMAIN inode.ents}
ExtentLists(inode) ==
  IF inode.depth = 0
  THEN <<inode.ents>>
  ELSE [i \in DOMAIN inode.ents |-> block[inode.ents[i].pb].ents]
recount_blocks(inode) ==
  LET blocks(ents) == SumFunction([k \in DOMAIN ents |-> ents[k].len])
      lists == ExtentLists(inode)
  IN SumFunction([k \in DOMAIN lists |-> blocks(lists[k])])

\* The last extent of a list.
Last(ents) == ents[Len(ents)]

\* Whether lb -> pb continues the last extent of a list.
Continues(ents, lb, pb) ==
  ents # <<>> /\ Last(ents).lb + Last(ents).len = lb /\ Last(ents).pb + Last(ents).len = pb

\* The list with lb -> pb at its end, joined to the last extent if it continues it.
Extended(ents, lb, pb) ==
  IF Continues(ents, lb, pb)
  THEN [ents EXCEPT ![Len(ents)].len = @ + 1]
  ELSE Append(ents, Extent(lb, 1, pb))

\* Mutant: one entry more than the node holds.
FitsOneMore(ents, max, lb, pb) == Continues(ents, lb, pb) \/ Len(ents) <= max

Fits(ents, max, lb, pb) == Continues(ents, lb, pb) \/ Len(ents) < max

-----------------------------------------------------------------------------
(* Directories *)

DirBlocks(inode) == UNION {map_block(inode, lb) : lb \in 0 .. inode.size - 1}
EntriesOf(inode) == UNION {block[b].names : b \in DirBlocks(inode)}
lookup(dir, name) == \E e \in EntriesOf(itable[dir]) : e[1] = name

\* The inodes that a caller can come by: the root and those that lookup returns.
Known ==
  {i \in Ino : i = ROOT_INO \/ \E d \in Ino : /\ itable[d].kind = "dir"
                                              /\ \E e \in EntriesOf(itable[d]) :
                                                   e[1] \in Name /\ e[2] = i}

-----------------------------------------------------------------------------
(* Control *)

\* The inodes whose tree on disk is ahead of them, now or since a call ended, and the block
\* that the call has mapped and not written yet.
Unsettled == torn \cup {i \in {op.ino} : op.dirty}
Pending == {b \in {op.pb} : op.at = "mapped"}

\* The call returns an error; what it has written stays.
Return ==
  /\ op' = NoOp
  /\ torn' = Unsettled
  /\ unwritten' = unwritten \cup Pending
  /\ UNCHANGED <<acked, named, sparse>>

Abort == Return /\ UNCHANGED <<disk, mem, spent>>

-----------------------------------------------------------------------------
(* Allocation: the bitmap, then the group descriptor, then the superblock *)

FreeBlocks == Fsb \ (bbm \cup Reserved)

\* alloc_bit for a block: the first free one of the first group that has one.
AllocBlock(after) ==
  IF FreeBlocks = {}
  THEN Abort
  ELSE LET b == Min(FreeBlocks) IN
       /\ bbm' = bbm \cup {b}
       /\ op' = [op EXCEPT !.at = "group", !.after_alloc = after, !.got = b,
                           !.pb = IF after \in {"deepen", "split"} THEN @ ELSE b]
       /\ UNCHANGED <<ibm, gd, sb, itable, block, mem, spent, history>>

\* Mutant: the checksum of the bitmap is not recomputed.
GroupAfterBlockStale(d, g) == [d EXCEPT !.free_blocks = @ - 1]

\* The group descriptor after an allocation of a block (alloc_block and commit_alloc).
GroupAfterBlock(d, g) ==
  [d EXCEPT !.free_blocks = @ - 1, !.bb_csum = BitmapCsum(BlocksOf(g) \cap bbm)]

\* Mutant: the unused tail of the inode table keeps its length.
GroupAfterInodeTail(d, g, i, kind) ==
  [d EXCEPT !.free_inodes = @ - 1,
            !.dirs = IF kind = "dir" THEN @ + 1 ELSE @,
            !.ib_csum = BitmapCsum(InodesOf(g) \cap ibm)]

\* The group descriptor after an allocation of an inode (alloc_inode and commit_alloc).
GroupAfterInode(d, g, i, kind) ==
  [d EXCEPT !.free_inodes = @ - 1,
            !.dirs = IF kind = "dir" THEN @ + 1 ELSE @,
            !.ib_csum = BitmapCsum(InodesOf(g) \cap ibm),
            !.unused = Min({@, InodesPerGroup - ((i - 1) % InodesPerGroup) - 1})]

\* with_group writes the descriptor; the counters in memory follow.
CommitGroup ==
  /\ op.at = "group"
  /\ IF op.after_alloc = "new_inode"
     THEN LET g == GroupOfInode(op.target) IN
          /\ gd' = [gd EXCEPT ![g] = GroupAfterInode(@, g, op.target, op.kind)]
          /\ mem' = [mem EXCEPT !.inodes = Max({0, @ - 1})]
     ELSE LET g == GroupOfBlock(op.got) IN
          /\ gd' = [gd EXCEPT ![g] = GroupAfterBlock(@, g)]
          /\ mem' = [mem EXCEPT !.blocks = Max({0, @ - 1})]
  /\ op' = [op EXCEPT !.at = "super"]
  /\ UNCHANGED <<bbm, ibm, sb, itable, block, spent, history>>

persist_super_counts ==
  /\ op.at = "super"
  /\ sb' = mem
  /\ op' = [op EXCEPT !.at = op.after_alloc]
  /\ UNCHANGED <<bbm, ibm, gd, itable, block, mem, spent, history>>

-----------------------------------------------------------------------------
(* Growing an extent tree: insert_extent and place_in_rightmost_leaf *)

WriteBlock(b, content) ==
  /\ block' = [block EXCEPT ![b] = content]
  /\ UNCHANGED <<bbm, ibm, gd, sb, itable, mem, spent>>

\* The root is a leaf: the extent goes into the inode in memory, or into a new leaf.
InsertRoot ==
  /\ op.at = "insert" /\ op.inode.depth = 0
  /\ IF Fits(op.inode.ents, RootMax, op.lb, op.pb)
     THEN /\ op' = [op EXCEPT !.at = op.after_insert,
                              !.inode.ents = Extended(@, op.lb, op.pb)]
          /\ UNCHANGED <<disk, mem, spent, history>>
     ELSE AllocBlock("deepen")

Deepen ==
  /\ op.at = "deepen"
  /\ WriteBlock(op.got, Leaf(op.inode.ents))
  /\ op' = [op EXCEPT !.at = "place", !.inode.depth = 1,
                      !.inode.ents = <<IndexTo(0, op.got)>>]
  /\ UNCHANGED history

Rightmost == Last(op.inode.ents).pb

\* The number of extents that stay in a leaf that is split.
Half(ents) == Len(ents) \div 2

\* insert_extent tries the rightmost leaf twice, splitting it in between.
Place ==
  /\ op.at = "place" \/ (op.at = "insert" /\ op.inode.depth = 1)
  /\ LET ents == block[Rightmost].ents IN
     IF op.tries # 2 /\ Fits(ents, LeafMax, op.lb, op.pb)
     THEN /\ WriteBlock(Rightmost, Leaf(Extended(ents, op.lb, op.pb)))
          /\ op' = [op EXCEPT !.at = op.after_insert, !.tries = 0,
                              !.dirty = @ \/ (/\ op.after_insert = "dir_inode"
                                              /\ Rightmost \in Leaves(itable[op.ino]))]
          /\ UNCHANGED history
     ELSE IF op.tries = 2 \/ Half(ents) = 0 THEN Abort ELSE AllocBlock("split")

\* Mutants: the leaf is not cut; the copy of the upper half starts one entry late.
KeptAll(ents) == ents
MovedLate(ents) == SubSeq(ents, Half(ents) + 2, Len(ents))

\* The extents that the rightmost leaf keeps, and the ones that move to the new leaf.
Kept(ents) == SubSeq(ents, 1, Half(ents))
Moved(ents) == SubSeq(ents, Half(ents) + 1, Len(ents))

\* The upper half is in memory while the leaf is cut.
SplitCut ==
  /\ op.at = "split"
  /\ LET ents == block[Rightmost].ents IN
     /\ WriteBlock(Rightmost, Leaf(Kept(ents)))
     /\ op' = [op EXCEPT !.at = "split_new", !.moved = Moved(ents),
                         !.dirty = @ \/ Rightmost \in Leaves(itable[op.ino])]
  /\ UNCHANGED history

\* The new leaf is written, then entered in the root, which may have no room for it.
SplitNew ==
  /\ op.at = "split_new"
  /\ WriteBlock(op.got, Leaf(op.moved))
  /\ IF Len(op.inode.ents) >= RootMax
     THEN Return
     ELSE /\ op' = [op EXCEPT !.at = "place", !.tries = @ + 1, !.moved = <<>>,
                              !.inode.ents = Append(@, IndexTo(Head(op.moved).lb, op.got))]
          /\ UNCHANGED history

InsertStep ==
  InsertRoot \/ Deepen \/ Place \/ SplitCut \/ SplitNew

-----------------------------------------------------------------------------
(* Writing a file *)

WriteEnter(i, lb, n) ==
  /\ op.at = "idle" /\ calls < MaxCalls
  /\ itable[i].kind = "file"
  /\ lb <= itable[i].size + MaxGap /\ lb + n <= MaxSize[i]
  /\ op' = [NoOp EXCEPT !.at = "write", !.ino = i, !.inode = itable[i], !.lb = lb,
                        !.first = lb, !.end = lb + n, !.after_insert = "mapped"]
  /\ sparse' = IF lb > itable[i].size THEN sparse \cup {i} ELSE sparse
  /\ calls' = calls + 1
  /\ UNCHANGED <<disk, mem, faults, acked, named, torn, unwritten>>

\* A block without a place on disk gets one.
WriteUnmapped ==
  /\ op.at = "write"
  /\ map_block(op.inode, op.lb) = {}
  /\ AllocBlock("insert")

StoreData(b) ==
  /\ WriteBlock(b, Data(op.ino, op.lb))
  /\ op' = [op EXCEPT !.at = IF op.lb + 1 = op.end THEN "write_inode" ELSE "write",
                      !.lb = @ + 1]
  /\ unwritten' = (unwritten \cup Pending) \ {b}
  /\ UNCHANGED <<acked, named, sparse, torn>>

WriteOver ==
  /\ op.at = "write"
  /\ \E b \in map_block(op.inode, op.lb) : StoreData(b)

\* The block just inserted is looked up again; not finding it is Corrupt.
WriteFresh ==
  /\ op.at = "mapped"
  /\ LET found == map_block(op.inode, op.lb) IN
     IF found = {} THEN Abort ELSE \E b \in found : StoreData(b)

\* write_inode stores the whole inode.
write_inode(i, inode) ==
  /\ itable' = [itable EXCEPT ![i] = inode]
  /\ UNCHANGED <<bbm, ibm, gd, sb, block, mem, spent>>

\* Mutant: the size counts the block after the last one written.
NewSizeOver(inode) == Max({inode.size, op.end + 1})

NewSize(inode) == Max({inode.size, op.end})

WriteEnd ==
  /\ op.at = "write_inode"
  /\ write_inode(op.ino, [op.inode EXCEPT !.size = NewSize(op.inode),
                                          !.blocks = recount_blocks(op.inode)])
  /\ op' = NoOp
  /\ acked' = acked \cup {op.ino} \X (op.first .. op.end - 1)
  /\ UNCHANGED <<named, sparse, torn, unwritten>>

WriteStep == WriteUnmapped \/ WriteOver \/ WriteFresh \/ WriteEnd

-----------------------------------------------------------------------------
(* Creating a file or a directory *)

\* What a call of create takes of the bound on calls.
Cost(kind) == IF kind = "dir" THEN 2 ELSE 1

\* create, up to the write of the inode bitmap: the first free inode.
CreateEnter(dir, name, kind) ==
  /\ op.at = "idle" /\ calls + Cost(kind) <= MaxCalls
  /\ itable[dir].kind = "dir"
  /\ ~lookup(dir, name)
  /\ Ino \ ibm # {}
  /\ LET i == Min(Ino \ ibm) IN
     /\ ibm' = ibm \cup {i}
     /\ op' = [NoOp EXCEPT !.at = "group", !.after_alloc = "new_inode", !.ino = dir,
                           !.target = i, !.name = name, !.kind = kind,
                           !.inode = [FreeInode EXCEPT !.kind = kind,
                                                       !.links = IF kind = "dir" THEN 2 ELSE 1]]
  /\ calls' = calls + Cost(kind)
  /\ UNCHANGED <<bbm, gd, sb, itable, block, mem, faults, history>>

\* A directory starts with a block of its own.
NewDirBlock ==
  /\ op.at = "new_inode" /\ op.kind = "dir"
  /\ AllocBlock("new_dir")

NewDir ==
  /\ op.at = "new_dir"
  /\ WriteBlock(op.got, Dir({<<".", op.target>>, <<"..", op.ino>>}))
  /\ op' = [op EXCEPT !.at = "init_inode", !.inode.size = 1, !.inode.blocks = 1,
                      !.inode.ents = <<Extent(0, 1, op.got)>>]
  /\ UNCHANGED history

InitInode ==
  /\ op.at = "init_inode" \/ (op.at = "new_inode" /\ op.kind = "file")
  /\ write_inode(op.target, op.inode)
  /\ op' = [op EXCEPT !.at = "add_dirent", !.inode = itable[op.ino]]
  /\ UNCHANGED history

\* create once the name is in the directory: a new directory is also a link to its parent.
Created == named \cup {<<op.ino, op.name, op.target>>}
Named == IF op.kind = "dir" THEN [op EXCEPT !.at = "link", !.dirty = FALSE] ELSE NoOp

\* The room that the entries of a directory block take.
Taken(names) ==
  MapThenSumSet(LAMBDA e : IF e[1] \in Name THEN NameSize[e[1]] ELSE 1, names)

\* The blocks of the directory that have room for one more entry, by position.
WithRoom ==
  {lb \in 0 .. op.inode.size - 1 :
     \E b \in map_block(op.inode, lb) : Taken(block[b].names) + NameSize[op.name] <= DirMax}

AddDirent ==
  /\ op.at = "add_dirent"
  /\ WithRoom # {}
  /\ \E b \in map_block(op.inode, Min(WithRoom)) :
       WriteBlock(b, Dir(block[b].names \cup {<<op.name, op.target>>}))
  /\ op' = Named
  /\ named' = IF op.kind = "dir" THEN named ELSE Created
  /\ UNCHANGED <<acked, sparse, torn, unwritten>>

AddDirentGrow ==
  /\ op.at = "add_dirent"
  /\ WithRoom = {}
  /\ AllocBlock("dir_block")

AddDirentBlock ==
  /\ op.at = "dir_block"
  /\ WriteBlock(op.pb, Dir({<<op.name, op.target>>}))
  /\ op' = [op EXCEPT !.at = "insert", !.lb = op.inode.size, !.after_insert = "dir_inode"]
  /\ UNCHANGED history

AddDirentEnd ==
  /\ op.at = "dir_inode"
  /\ write_inode(op.ino, [op.inode EXCEPT !.size = @ + 1, !.blocks = recount_blocks(op.inode)])
  /\ op' = Named
  /\ named' = IF op.kind = "dir" THEN named ELSE Created
  /\ UNCHANGED <<acked, sparse, torn, unwritten>>

\* The parent is read again and gets a link from the new "..".
LinkParent ==
  /\ op.at = "link"
  /\ write_inode(op.ino, [itable[op.ino] EXCEPT !.links = @ + 1])
  /\ op' = NoOp
  /\ named' = Created
  /\ UNCHANGED <<acked, sparse, torn, unwritten>>

CreateStep ==
  NewDirBlock \/ NewDir \/ InitInode \/ AddDirent \/ AddDirentGrow \/ AddDirentBlock
    \/ AddDirentEnd \/ LinkParent

-----------------------------------------------------------------------------
(* Faults *)

\* A device operation fails and the call returns the error.
Fail ==
  /\ op.at # "idle" /\ faults < MaxFaults
  /\ faults' = faults + 1
  /\ Return
  /\ UNCHANGED <<disk, mem, calls>>

\* The machine stops; mount reads the counters from the superblock.
Crash ==
  /\ op.at # "idle" \/ mem # sb
  /\ faults < MaxFaults
  /\ faults' = faults + 1
  /\ mem' = sb
  /\ Return
  /\ UNCHANGED <<disk, calls>>

Step == CommitGroup \/ persist_super_counts \/ InsertStep \/ WriteStep \/ CreateStep

Next ==
  \/ \E i \in Known : \E lb \in 0 .. MaxSize[i] - 1, n \in 1 .. MaxLen : WriteEnter(i, lb, n)
  \/ \E dir \in Known, name \in Name, kind \in {"file", "dir"} : CreateEnter(dir, name, kind)
  \/ Step
  \/ Fail
  \/ Crash

Spec == Init /\ [][Next]_vars
-----------------------------------------------------------------------------
(* Properties *)

\* The state of the disk and of the call in progress has its type.  No list of extents
\* outgrows its node (insert_extent, place_in_rightmost_leaf), no directory block its size.
TypeOK ==
  /\ bbm \subseteq Fsb /\ ibm \subseteq Ino
  /\ \A g \in Group : /\ gd[g].free_blocks \in 0 .. BlocksPerGroup
                      /\ gd[g].free_inodes \in 0 .. InodesPerGroup
                      /\ gd[g].unused \in 0 .. InodesPerGroup
  /\ sb.blocks \in 0 .. BlocksTotal /\ sb.inodes \in 0 .. InodesTotal
  /\ mem.blocks \in 0 .. BlocksTotal /\ mem.inodes \in 0 .. InodesTotal
  /\ \A i \in Ino : Len(itable[i].ents) <= RootMax
  /\ Len(op.inode.ents) <= RootMax
  /\ \A b \in Fsb : Len(block[b].ents) <= LeafMax /\ Taken(block[b].names) <= DirMax

\* The blocks that the tree of an inode on disk refers to.
Mapped(inode) ==
  UNION {UNION {{e.pb + k : k \in 0 .. e.len - 1} : e \in Range(ents)} :
           ents \in Range(ExtentLists(inode))}
Refers(inode) == Leaves(inode) \cup Mapped(inode)
InUse == {i \in Ino : itable[i].kind # "free"}

\* An inode in use is marked in its bitmap, and so are the blocks below it; none is reserved.
RefsMarked ==
  \A i \in InUse : i \in ibm /\ Refers(itable[i]) \subseteq bbm \ Reserved

\* At every moment, and so after a crash at any moment, the metadata on disk leads only to
\* what is allocated and initialised: bitmaps are ahead of what refers to them, the nodes of
\* a tree are leaves, and a directory entry names an inode that has been written and lies
\* outside the unused tail of its inode table (alloc_block before insert_extent,
\* write_inode before add_dirent in create).
RefsAllocated ==
  /\ RefsMarked
  /\ \A i \in InUse :
       /\ \A b \in Leaves(itable[i]) : block[b].kind = "leaf"
       /\ itable[i].kind = "dir" =>
            \A b \in DirBlocks(itable[i]) :
              /\ block[b].kind = "dir"
              /\ \A e \in block[b].names :
                   /\ e[2] \in InUse
                   /\ (e[2] - 1) % InodesPerGroup < InodesPerGroup - gd[GroupOfInode(e[2])].unused

\* The places on disk that refer to a block, each with the block.
References ==
  UNION {LET inode == itable[i]
             lists == ExtentLists(inode)
             at == UNION {{<<m, n>> : n \in DOMAIN lists[m]} : m \in DOMAIN lists} IN
         {<<i, b, 0, 0, b>> : b \in Leaves(inode)}
           \cup UNION {LET e == lists[p[1]][p[2]] IN
                       {<<i, p[1], p[2], k, e.pb + k>> : k \in 0 .. e.len - 1} : p \in at} :
         i \in InUse}

\* No block has two owners: the inodes, nodes and extents on disk refer to as many blocks as
\* there are references (alloc_bit marks a block before anything refers to it).
BlocksOwnedOnce == LET refs == References IN Cardinality(refs) = Cardinality({r[5] : r \in refs})

\* The data of position p[2] of file p[1] is found where it was written.
Stored(p) == \E b \in map_block(itable[p[1]], p[2]) : block[b] = Data(p[1], p[2])

\* What a successful call wrote stays on disk whatever happens later: the block of a file
\* that is written in order is mapped and holds that data, and a created name is found
\* (write_file, create).  Excepted are the inodes whose tree a call rearranges or was
\* rearranging when it ended: a leaf on disk has been cut, or a directory's leaf has
\* grown, and the inode has not been written since.
AckedKept ==
  /\ \A p \in acked : p[1] \notin sparse \cup Unsettled => Stored(p)
  /\ \A t \in named : t[1] \notin Unsettled => <<t[2], t[3]>> \in EntriesOf(itable[t[1]])

\* The same of every file, whatever the order in which it is written (insert_extent grows
\* the tree on demand).
AllAckedKept == \A p \in acked : p[1] \notin Unsettled => Stored(p)

\* What a file shows below its size is its own data for that position, although the tree
\* may refer to a block before its data is written: write_file stores the size last.  Only
\* where the mapped position lies below the size already, in a hole of a sparse file or in
\* what a torn file has lost, a file shows a block's earlier contents: the block that a
\* call is mapping, or was mapping when it ended, until a later call writes it.
OwnData ==
  \A i \in InUse : itable[i].kind = "file" =>
    \A lb \in 0 .. itable[i].size - 1 : \A b \in map_block(itable[i], lb) :
      \/ block[b] = Data(i, lb)
      \/ i \in sparse \cup torn /\ b \in unwritten \cup Pending

\* How far a counter may lag behind a bitmap: by one for each failure or crash, and by one
\* while an allocation is between its bitmap and the superblock.
Lag == 0 .. faults + (IF op.at \in {"group", "super"} THEN 1 ELSE 0)

\* A checksum of the bitmap that covers all but the units that lag.
CsumTracks(csum, bitmap) ==
  \E covered \in csum : covered \subseteq bitmap /\ Cardinality(bitmap \ covered) \in Lag

\* Whatever fails and wherever a crash cuts an allocation short, the counters of the groups,
\* of the superblock and in memory never fall below what the bitmaps leave free, and exceed
\* it by one at most for each failure: between calls without failures they are exact, also
\* after calls that ran out of space.  The bitmap checksums, where the driver computes them,
\* lag in the same way.  The links of a directory are its own two and one for each
\* subdirectory, less one at most for each failure (alloc_bit, commit_alloc, create).
CountsTrack ==
  /\ \A g \in Group :
       /\ gd[g].free_blocks - Cardinality(BlocksOf(g) \ bbm) \in Lag
       /\ gd[g].free_inodes - Cardinality(InodesOf(g) \ ibm) \in Lag
       /\ meta_csum => /\ CsumTracks(gd[g].bb_csum, BlocksOf(g) \cap bbm)
                       /\ CsumTracks(gd[g].ib_csum, InodesOf(g) \cap ibm)
  /\ {sb.blocks - Cardinality(Fsb \ bbm), mem.blocks - Cardinality(Fsb \ bbm),
      sb.inodes - Cardinality(Ino \ ibm), mem.inodes - Cardinality(Ino \ ibm)} \subseteq Lag
  /\ \A i \in InUse \ Unsettled : itable[i].kind = "dir" =>
       2 + Cardinality({e \in EntriesOf(itable[i]) : e[1] \in Name /\ itable[e[2]].kind = "dir"})
         - itable[i].links \in 0 .. faults + (IF op.at = "link" /\ op.ino = i THEN 1 ELSE 0)

\* What a user sees of the disk between calls: the names that lead from the directories in
\* use to inodes, and the sizes of the files among them.  While a call rearranges the tree
\* of a directory, its names are those that the call will put back.
HeldBlocks ==
  UNION {map_block(op.inode, lb) \cup InExtents(op.moved, lb) : lb \in 0 .. op.inode.size - 1}
Shown(d) == IF op.dirty /\ d = op.ino THEN HeldBlocks ELSE DirBlocks(itable[d])
Bound ==
  UNION {{<<d, e[1], e[2]>> : e \in {x \in UNION {block[b].names : b \in Shown(d)} :
                                       x[1] \in Name}} :
           d \in {i \in InUse : itable[i].kind = "dir"}}
Sizes == [i \in {t[3] : t \in Bound} \cap {j \in InUse : itable[j].kind = "file"} |-> itable[i].size]

Store == INSTANCE FileStore WITH bound <- Bound, size <- Sizes

\* Whatever the step and wherever a crash or a failure cuts a call short, the disk shows a
\* file store in which a name appears by one step, bound to an inode of its own that is
\* ready, and files only grow.  A name stays for good unless a call ends while it
\* rearranges the tree of the directory; then names of that directory alone are lost
\* (create, add_dirent, insert_extent, write_file).
ImplementsFileStore == Store!Spec

=============================================================================
