------------------------------ MODULE Ext4Trees ------------------------------
(***************************************************************************)
(* What every step of the ext4 driver keeps of the trees on disk, for      *)
(* every size of the disk and of its nodes, every number and order of      *)
(* calls, in order or not, and any number of failures and crashes.         *)
(*                                                                         *)
(* Inv: the trees refer only to what the bitmaps mark.  A bitmap never     *)
(* loses a mark, so the argument needs no tree: every list of extents      *)
(* there is, in an inode, in any block, in the inode held in memory and    *)
(* among the extents that a split moves, consists of extents over marked   *)
(* blocks.  The blocks that a call has allocated and not yet entered       *)
(* anywhere are marked as well.                                            *)
(*                                                                         *)
(* OwnInv: no tree uses a block twice and no two trees share one, although *)
(* the inode in memory and the one on disk it will replace share theirs,   *)
(* and the nodes on disk are already those of the new tree.                *)
(***************************************************************************)
EXTENDS Ext4, TLAPS

Marked == bbm \ Reserved

\* The extents and indexes over a set of blocks.
Over(U) == {e \in [lb : Int, len : Nat, pb : U] : \A k \in 0 .. e.len - 1 : e.pb + k \in U}

Lists == Seq(Over(Marked))

\* An inode whose extents lie over marked blocks and whose index, if it has one, is not empty.
Sound(inode) ==
  /\ {"size", "depth", "ents"} \subseteq DOMAIN inode
  /\ inode.size \in Int
  /\ inode.ents \in Lists
  /\ inode.depth # 0 => inode.ents # <<>>

DiskSound ==
  /\ bbm \subseteq Fsb
  /\ DOMAIN itable = Ino
  /\ DOMAIN block = Fsb
  /\ \A i \in Ino : Sound(itable[i]) /\ (itable[i].kind # "free" => i \in ibm)
  /\ \A b \in Fsb : block[b].ents \in Lists

\* Where the block that is being mapped and the one last allocated are needed.
Holding == {"insert", "deepen", "place", "split", "split_new", "dir_block", "new_dir"}
AllocFor == {"insert", "deepen", "split", "dir_block", "new_dir", "new_inode"}
InAlloc == op.at \in {"group", "super"}
Splitting == op.at = "split" \/ (InAlloc /\ op.after_alloc = "split")

OpSound ==
  /\ DOMAIN op = DOMAIN NoOp
  /\ InAlloc => op.after_alloc \in AllocFor
  /\ op.after_insert \in {"none", "mapped", "dir_inode"}
  /\ Sound(op.inode)
  /\ op.lb \in Int /\ op.end \in Int
  /\ op.moved \in Lists
  /\ op.at # "idle" => op.ino \in Ino \cap ibm /\ op.target \in ibm \cup {0}
  /\ op.at \in Holding \/ (InAlloc /\ op.after_alloc \in Holding) =>
       op.pb \in Marked /\ op.got \in Marked
  /\ op.at \in {"place", "split_new"} \/ Splitting => op.inode.ents # <<>>
  /\ Splitting => block[Rightmost].ents # <<>>
  /\ op.at = "split_new" => op.moved # <<>>

Inv == DiskSound /\ OpSound

-----------------------------------------------------------------------------
(* Lists of extents *)

\* Every nonempty set of naturals has a least element, which Min picks.  The steps assume it;
\* Ext4Proofs derives it from the library.
Least == \A S \in SUBSET Nat : S # {} => Min(S) \in S

\* More marks leave every list sound.
LEMMA ListsGrow ==
  ASSUME NEW U, NEW V, U \subseteq V
  PROVE  Seq(Over(U)) \subseteq Seq(Over(V))
<1>1. Over(U) \subseteq Over(V) BY Zenon DEF Over
<1> QED BY <1>1

\* A part of a list is a list (the two halves of a split).
LEMMA PartOfList ==
  ASSUME NEW S, NEW s \in Seq(S), NEW m \in 1 .. Len(s) + 1, NEW n \in m - 1 .. Len(s)
  PROVE  SubSeq(s, m, n) \in Seq(S) /\ Len(SubSeq(s, m, n)) = n - m + 1
OBVIOUS

\* insert_extent and place_in_rightmost_leaf add only the block they are given.
LEMMA ExtendedList ==
  ASSUME NEW U, U \subseteq Int, NEW s \in Seq(Over(U)), NEW lb \in Int, NEW pb \in U
  PROVE  Extended(s, lb, pb) \in Seq(Over(U))
<1>1. CASE Continues(s, lb, pb)
  <2> DEFINE e == Last(s)
             f == [e EXCEPT !.len = @ + 1]
  <2>1. s # <<>> /\ Len(s) \in Nat /\ Len(s) >= 1 BY <1>1 DEF Continues
  <2>2. e \in Over(U) BY <2>1 DEF Last
  <2>3. f \in Over(U)
    <3>1. /\ e \in [lb : Int, len : Nat, pb : U]
          /\ \A k \in 0 .. e.len - 1 : e.pb + k \in U
          /\ e.pb + e.len = pb
      BY <1>1, <2>2, Zenon DEF Over, Continues
    <3>2. f \in [lb : Int, len : Nat, pb : U] /\ f.len = e.len + 1 /\ f.pb = e.pb BY <3>1
    <3> HIDE DEF e, f
    <3>3. ASSUME NEW k \in 0 .. f.len - 1 PROVE f.pb + k \in U
      <4>1. CASE k = e.len BY <3>1, <3>2, <4>1, Zenon
      <4>2. CASE k # e.len BY <3>1, <3>2, <4>2
      <4> QED BY <4>1, <4>2, Zenon
    <3> QED BY <3>2, <3>3, Zenon DEF Over
  <2>4. Extended(s, lb, pb) = [s EXCEPT ![Len(s)] = f] BY <1>1, Zenon DEF Extended, Last
  <2> HIDE DEF e, f
  <2> QED BY <2>1, <2>3, <2>4
<1>2. CASE ~Continues(s, lb, pb)
  <2>1. Extent(lb, 1, pb) \in Over(U) BY DEF Extent, Over
  <2> QED BY <1>2, <2>1 DEF Extended
<1> QED BY <1>1, <1>2, Zenon
-----------------------------------------------------------------------------
(* What steps have in common *)

\* An inode stays sound when blocks are marked.
LEMMA SoundKept ==
  ASSUME NEW r, Sound(r), bbm \subseteq bbm'
  PROVE  Sound(r)'
<1>1. Marked \subseteq Marked' BY Zenon DEF Marked
<1>2. Lists \subseteq Lists' BY <1>1, ListsGrow, Zenon DEF Lists
<1> QED BY <1>2, Zenon DEF Sound

\* Setting bits of the bitmaps keeps the disk sound.
LEMMA MarksKept ==
  ASSUME DiskSound, bbm \subseteq bbm', bbm' \subseteq Fsb, ibm \subseteq ibm',
         UNCHANGED <<itable, block>>
  PROVE  DiskSound'
<1>1. Marked \subseteq Marked' BY Zenon DEF Marked
<1>2. Lists \subseteq Lists' BY <1>1, ListsGrow, Zenon DEF Lists
<1>3. \A i \in Ino : Sound(itable[i])'
  <2> TAKE i \in Ino
  <2>1. Sound(itable[i]) BY Zenon DEF DiskSound
  <2> QED BY <1>2, <2>1, Zenon DEF Sound
<1> QED BY <1>2, <1>3, Zenon DEF DiskSound

\* Writing a block keeps the disk sound if its extents are.
LEMMA BlockKept ==
  ASSUME DiskSound, NEW b, NEW c, WriteBlock(b, c), c.ents \in Lists
  PROVE  DiskSound' /\ Lists' = Lists /\ Marked' = Marked
<1>1. Lists' = Lists /\ Marked' = Marked BY Zenon DEF WriteBlock, Lists, Marked
<1>2. \A i \in Ino : Sound(itable[i])' BY <1>1, Zenon DEF DiskSound, WriteBlock, Sound
<1>3. \A a \in Fsb : block'[a].ents \in Lists BY Zenon DEF DiskSound, WriteBlock
<1> QED BY <1>1, <1>2, <1>3, Zenon DEF DiskSound, WriteBlock

\* Writing an inode keeps the disk sound if the inode is and has been allocated.
LEMMA InodeKept ==
  ASSUME DiskSound, NEW i, NEW r, write_inode(i, r), Sound(r), i \in ibm \cup {0}
  PROVE  DiskSound' /\ Lists' = Lists /\ Marked' = Marked
<1>1. Lists' = Lists /\ Marked' = Marked BY Zenon DEF write_inode, Lists, Marked
<1>2. 0 \notin Ino BY DEF Ino
<1>3. \A j \in Ino : itable'[j] = IF j = i THEN r ELSE itable[j] BY Zenon DEF DiskSound, write_inode
<1>4. \A j \in Ino : Sound(itable'[j]) BY <1>3, Zenon DEF DiskSound
<1>5. \A j \in Ino : Sound(itable[j])' BY <1>1, <1>4, Zenon DEF Sound
<1>6. \A j \in Ino : itable'[j].kind # "free" => j \in ibm BY <1>2, <1>3, Zenon DEF DiskSound
<1> QED BY <1>1, <1>5, <1>6, Zenon DEF DiskSound, write_inode

\* No call in progress.
LEMMA IdleSound == op' = NoOp => OpSound'
<1> SUFFICES ASSUME op' = NoOp PROVE OpSound' BY Zenon
<1>1. <<>> \in Lists' BY DEF Lists
<1>2. Sound(FreeInode)' BY <1>1 DEF Sound, FreeInode
<1>3. /\ op'.at = "idle" /\ op'.inode = FreeInode /\ op'.lb = 0 /\ op'.end = 0
      /\ op'.moved = <<>> /\ op'.after_insert = "none" /\ DOMAIN op' = DOMAIN NoOp
  BY Zenon DEF NoOp
<1>4. Sound(op.inode)' BY <1>2, <1>3, Zenon
<1>5. ~InAlloc' /\ ~Splitting' /\ op'.at \notin Holding BY <1>3, Zenon DEF InAlloc, Splitting, Holding
<1> QED BY <1>1, <1>3, <1>4, <1>5 DEF OpSound

\* A call that returns leaves the disk as it is.
LEMMA ReturnInv ==
  ASSUME DiskSound, op' = NoOp, UNCHANGED disk
  PROVE  Inv'
<1>1. DiskSound' BY MarksKept, Zenon DEF disk, DiskSound
<1> QED BY <1>1, IdleSound, Zenon DEF Inv
-----------------------------------------------------------------------------
(* Allocation *)

\* The part of the invariant that holds wherever the call is.
LEMMA OpFacts ==
  ASSUME Inv
  PROVE  /\ DOMAIN op = DOMAIN NoOp
         /\ op.after_insert \in {"none", "mapped", "dir_inode"}
         /\ Sound(op.inode) /\ op.lb \in Int /\ op.end \in Int /\ op.moved \in Lists
         /\ op.at # "idle" => op.ino \in Ino \cap ibm /\ op.target \in ibm \cup {0}
BY Zenon DEF Inv, OpSound

\* alloc_bit marks a block that is free and not reserved before anyone can refer to it.
LEMMA AllocInv ==
  ASSUME Least, Inv, op.at # "idle", NEW after \in AllocFor \ {"new_inode"}, AllocBlock(after),
         after = "split" => op.inode.ents # <<>> /\ block[Rightmost].ents # <<>>,
         after \in {"deepen", "split"} => op.pb \in Marked
  PROVE  Inv'
<1>1. CASE FreeBlocks = {}
  BY <1>1, ReturnInv, Zenon DEF Inv, AllocBlock, Abort, Return
<1>2. CASE FreeBlocks # {}
  <2> DEFINE b == Min(FreeBlocks)
  <2>1. FreeBlocks \subseteq Nat BY Ext4Assumption DEF Ext4Assumption, FreeBlocks, Fsb
  <2>2. b \in FreeBlocks BY <1>2, <2>1, Zenon DEF Least
  <2>3. /\ bbm' = bbm \cup {b}
        /\ op' = [op EXCEPT !.at = "group", !.after_alloc = after, !.got = b,
                            !.pb = IF after \in {"deepen", "split"} THEN @ ELSE b]
        /\ UNCHANGED <<ibm, itable, block>>
    BY <1>2, Zenon DEF AllocBlock
  <2> HIDE DEF b
  <2>4. b \in Marked' /\ Marked \subseteq Marked' /\ bbm' \subseteq Fsb
    BY <2>2, <2>3, Zenon DEF Marked, FreeBlocks, Inv, DiskSound
  <2>5. DiskSound' BY <2>3, <2>4, MarksKept, Zenon DEF Inv
  <2>6. /\ DOMAIN op' = DOMAIN NoOp
        /\ op'.at = "group" /\ op'.after_alloc = after /\ op'.got = b
        /\ op'.pb = IF after \in {"deepen", "split"} THEN op.pb ELSE b
        /\ op'.inode = op.inode /\ op'.lb = op.lb /\ op'.end = op.end /\ op'.moved = op.moved
        /\ op'.ino = op.ino /\ op'.target = op.target /\ op'.after_insert = op.after_insert
    BY <2>3, OpFacts, Zenon DEF NoOp
  <2>7. Sound(op.inode)' BY <2>3, <2>6, SoundKept, Zenon DEF Inv, OpSound, Sound, Lists, Marked
  <2>8. op'.moved \in Lists'
    BY <2>4, <2>6, ListsGrow, Zenon DEF Inv, OpSound, Lists
  <2>9. op'.pb \in Marked' /\ op'.got \in Marked' BY <2>4, <2>6, Zenon
  <2>10. Rightmost' = Rightmost BY <2>6, Zenon DEF Rightmost
  <2>11. OpSound'
    BY <2>3, <2>6, <2>7, <2>8, <2>9, <2>10, Zenon
       DEF Inv, OpSound, InAlloc, Splitting, Holding, AllocFor
  <2> QED BY <2>5, <2>11, Zenon DEF Inv
<1> QED BY <1>1, <1>2, Zenon

\* The two later writes of an allocation change neither trees nor bitmaps.
LEMMA CommitInv ==
  ASSUME Inv, CommitGroup \/ persist_super_counts
  PROVE  Inv'
<1>1. UNCHANGED <<bbm, ibm, itable, block>> /\ InAlloc
  BY Zenon DEF CommitGroup, persist_super_counts, InAlloc
<1>2. DiskSound' /\ Lists' = Lists /\ Marked' = Marked
  BY <1>1, MarksKept, Zenon DEF Inv, DiskSound, Lists, Marked
<1>3. \E l \in {"super", op.after_alloc} : op' = [op EXCEPT !.at = l]
  BY Zenon DEF CommitGroup, persist_super_counts
<1>4. PICK l \in {"super", op.after_alloc} : op' = [op EXCEPT !.at = l] BY <1>3, Zenon
<1>5. /\ DOMAIN op' = DOMAIN NoOp
      /\ op'.at = l /\ op'.after_alloc = op.after_alloc /\ op'.got = op.got /\ op'.pb = op.pb
      /\ op'.inode = op.inode /\ op'.lb = op.lb /\ op'.end = op.end /\ op'.moved = op.moved
      /\ op'.ino = op.ino /\ op'.target = op.target /\ op'.after_insert = op.after_insert
  BY <1>4, OpFacts, Zenon DEF NoOp
<1>6. Sound(op.inode)' BY <1>2, <1>5, OpFacts, Zenon DEF Sound
<1>7. Rightmost' = Rightmost BY <1>5, Zenon DEF Rightmost
<1>8. CASE l = "super"
  <2>1. InAlloc' /\ (Splitting' <=> Splitting) BY <1>1, <1>5, <1>8, Zenon DEF InAlloc, Splitting
  <2>2. l \notin Holding /\ op.at \notin Holding /\ op.at # "idle"
    BY <1>1, <1>8, Zenon DEF Holding, InAlloc
  <2> QED BY <1>1, <1>2, <1>5, <1>6, <1>7, <1>8, <2>1, <2>2, Zenon DEF Inv, OpSound
<1>9. CASE l # "super"
  <2>1. l = op.after_alloc /\ l \in AllocFor BY <1>1, <1>4, <1>9, Zenon DEF Inv, OpSound
  <2>2. ~InAlloc' /\ (Splitting' <=> Splitting)
    BY <1>1, <1>5, <2>1, Zenon DEF InAlloc, Splitting, AllocFor
  <2>3. l \notin {"place", "split_new"} /\ op.at # "idle" BY <1>1, <2>1, Zenon DEF AllocFor, InAlloc
  <2> QED BY <1>1, <1>2, <1>5, <1>6, <1>7, <2>1, <2>2, <2>3, Zenon DEF Inv, OpSound
<1> QED BY <1>2, <1>8, <1>9, Zenon DEF Inv
-----------------------------------------------------------------------------
(* Growing an extent tree *)

\* What has to be shown of a call that goes on to a step other than an allocation.
LEMMA OpIntro ==
  ASSUME DOMAIN op' = DOMAIN NoOp, op'.at \notin {"group", "super", "split"},
         op'.after_insert \in {"none", "mapped", "dir_inode"},
         Sound(op.inode)', op'.lb \in Int, op'.end \in Int, op'.moved \in Lists',
         op'.ino \in Ino \cap ibm', op'.target \in ibm' \cup {0},
         op'.at \in Holding => op'.pb \in Marked' /\ op'.got \in Marked',
         op'.at \in {"place", "split_new"} => op'.inode.ents # <<>>,
         op'.at = "split_new" => op'.moved # <<>>
  PROVE  OpSound'
<1>1. ~InAlloc' /\ ~Splitting' BY Zenon DEF InAlloc, Splitting
<1> QED BY <1>1, Zenon DEF OpSound

\* The extents of an inode may be replaced by others over marked blocks.
LEMMA EntsReplaced ==
  ASSUME NEW r, Sound(r), NEW l \in Lists, r.depth # 0 => l # <<>>
  PROVE  Sound([r EXCEPT !.ents = l])
BY Zenon DEF Sound

LEMMA MarkedInt == ASSUME DiskSound PROVE Marked \subseteq Int /\ Marked \subseteq Fsb
BY Ext4Assumption DEF DiskSound, Marked, Fsb, Ext4Assumption

\* Lists never shrink to nothing when they are extended.
LEMMA ExtendedNonempty ==
  ASSUME NEW U, U \subseteq Int, NEW s \in Seq(Over(U)), NEW lb \in Int, NEW pb \in U
  PROVE  Extended(s, lb, pb) # <<>>
<1>1. CASE Continues(s, lb, pb)
  <2>1. s # <<>> /\ DOMAIN Extended(s, lb, pb) = DOMAIN s BY <1>1, Zenon DEF Continues, Extended
  <2> QED BY <2>1
<1>2. CASE ~Continues(s, lb, pb)
  <2>1. Extent(lb, 1, pb) \in Over(U) BY DEF Extent, Over
  <2> QED BY <1>2, <2>1 DEF Extended
<1> QED BY <1>1, <1>2, Zenon

LEMMA InsertRootInv ==
  ASSUME Least, Inv, InsertRoot
  PROVE  Inv'
<1>1. op.at = "insert" /\ op.pb \in Marked /\ op.got \in Marked
  BY Zenon DEF InsertRoot, Inv, OpSound, Holding
<1>2. CASE Fits(op.inode.ents, RootMax, op.lb, op.pb)
  <2> DEFINE l == Extended(op.inode.ents, op.lb, op.pb)
  <2>1. l \in Lists /\ l # <<>>
    BY <1>1, MarkedInt, ExtendedList, ExtendedNonempty, Zenon DEF Inv, OpSound, Sound, Lists
  <2>2. /\ op' = [op EXCEPT !.at = op.after_insert, !.inode.ents = l]
        /\ UNCHANGED disk
    BY <1>2, Zenon DEF InsertRoot
  <2> HIDE DEF l
  <2>3. /\ DOMAIN op' = DOMAIN NoOp
        /\ op'.at = op.after_insert /\ op'.inode = [op.inode EXCEPT !.ents = l]
        /\ op'.lb = op.lb /\ op'.end = op.end /\ op'.moved = op.moved
        /\ op'.ino = op.ino /\ op'.target = op.target /\ op'.after_insert = op.after_insert
    BY <2>2, OpFacts, Zenon DEF NoOp
  <2>4. DiskSound' /\ Lists' = Lists /\ Marked' = Marked /\ ibm' = ibm
    BY <2>2, MarksKept, Zenon DEF disk, Inv, DiskSound, Lists, Marked
  <2>5. Sound(op'.inode) BY <2>1, <2>3, EntsReplaced, OpFacts
  <2>6. Sound(op.inode)' BY <2>4, <2>5, Zenon DEF Sound
  <2>7. op.after_insert \in {"none", "mapped", "dir_inode"} BY Zenon DEF Inv, OpSound
  <2>8. op'.at \notin Holding /\ op'.at \notin {"group", "super", "split", "place", "split_new"}
    BY <2>3, <2>7, Zenon DEF Holding
  <2>9. OpSound' BY <1>1, <2>3, <2>4, <2>6, <2>7, <2>8, OpIntro, OpFacts, Zenon
  <2> QED BY <2>4, <2>9, Zenon DEF Inv
<1>3. CASE ~Fits(op.inode.ents, RootMax, op.lb, op.pb)
  <2>1. AllocBlock("deepen") BY <1>3, Zenon DEF InsertRoot
  <2>2. "deepen" \in AllocFor \ {"new_inode"} BY Zenon DEF AllocFor
  <2> QED BY <1>1, <2>1, <2>2, AllocInv, Zenon
<1> QED BY <1>2, <1>3, Zenon
-----------------------------------------------------------------------------
\* A single entry over marked blocks is a list.
LEMMA OneEntry ==
  ASSUME NEW U, NEW lb \in Int, NEW pb \in U, U \subseteq Int, NEW n \in {0, 1}
  PROVE  Extent(lb, n, pb) \in Over(U) /\ <<Extent(lb, n, pb)>> \in Seq(Over(U))
<1>1. Extent(lb, n, pb) \in Over(U) BY DEF Extent, Over
<1> QED BY <1>1

LEMMA DeepenInv ==
  ASSUME Inv, Deepen
  PROVE  Inv'
<1>1. op.at = "deepen" /\ op.pb \in Marked /\ op.got \in Marked
  BY Zenon DEF Deepen, Inv, OpSound, Holding
<1>2. WriteBlock(op.got, Leaf(op.inode.ents)) BY Zenon DEF Deepen
<1>3. Leaf(op.inode.ents).ents \in Lists BY Zenon DEF Leaf, Content, Inv, OpSound, Sound
<1>4. DiskSound' /\ Lists' = Lists /\ Marked' = Marked /\ ibm' = ibm
  BY <1>2, <1>3, BlockKept, Zenon DEF Inv, WriteBlock
<1> DEFINE l == <<IndexTo(0, op.got)>>
<1>5. l \in Lists /\ l # <<>> BY <1>1, MarkedInt, OneEntry DEF IndexTo, Inv, Lists
<1>6. op' = [op EXCEPT !.at = "place", !.inode.depth = 1, !.inode.ents = l] BY Zenon DEF Deepen
<1> HIDE DEF l
<1>7. /\ DOMAIN op' = DOMAIN NoOp /\ op'.at = "place"
      /\ op'.inode = [[op.inode EXCEPT !.depth = 1] EXCEPT !.ents = l]
      /\ op'.lb = op.lb /\ op'.end = op.end /\ op'.moved = op.moved
      /\ op'.ino = op.ino /\ op'.target = op.target /\ op'.after_insert = op.after_insert
      /\ op'.pb = op.pb /\ op'.got = op.got
  BY <1>6, OpFacts, Zenon DEF NoOp
<1>8. Sound(op'.inode) /\ op'.inode.ents = l BY <1>5, <1>7, Zenon DEF Inv, OpSound, Sound
<1>9. Sound(op.inode)' BY <1>4, <1>8, Zenon DEF Sound
<1>10. OpSound' BY <1>1, <1>4, <1>5, <1>7, <1>8, <1>9, OpIntro, OpFacts, Zenon
<1> QED BY <1>4, <1>10, Zenon DEF Inv

\* The rightmost leaf of a tree that has one is a marked block.
LEMMA RightmostMarked ==
  ASSUME Inv, op.inode.ents # <<>>
  PROVE  Rightmost \in Marked /\ Rightmost \in Fsb /\ block[Rightmost].ents \in Lists
<1>1. op.inode.ents \in Seq(Over(Marked)) BY Zenon DEF Inv, OpSound, Sound, Lists
<1>2. Last(op.inode.ents) \in Over(Marked) BY <1>1 DEF Last
<1>3. Rightmost \in Marked BY <1>2, Zenon DEF Rightmost, Over
<1> QED BY <1>3, MarkedInt, Zenon DEF Inv, DiskSound

LEMMA PlaceInv ==
  ASSUME Least, Inv, Place
  PROVE  Inv'
<1>1. op.at \in {"place", "insert"} /\ op.at # "idle" BY Zenon DEF Place
<1>2. op.inode.ents # <<>> BY DEF Place, Inv, OpSound, Sound
<1>3. op.pb \in Marked /\ op.got \in Marked BY <1>1, Zenon DEF Inv, OpSound, Holding
<1> DEFINE ents == block[Rightmost].ents
<1>4. ents \in Lists BY <1>2, RightmostMarked, Zenon
<1>5. CASE op.tries # 2 /\ Fits(ents, LeafMax, op.lb, op.pb)
  <2> DEFINE l == Extended(ents, op.lb, op.pb)
             d == op.dirty \/ (op.after_insert = "dir_inode"
                                 /\ Rightmost \in Leaves(itable[op.ino]))
  <2>1. WriteBlock(Rightmost, Leaf(l)) BY <1>5, Zenon DEF Place
  <2>2. op' = [op EXCEPT !.at = op.after_insert, !.tries = 0, !.dirty = d] BY <1>5, Zenon DEF Place
  <2>3. l \in Lists BY <1>3, <1>4, MarkedInt, ExtendedList, Zenon DEF Inv, OpSound, Lists
  <2> HIDE DEF l, d, ents
  <2>4. Leaf(l).ents \in Lists BY <2>3, Zenon DEF Leaf, Content
  <2>5. DiskSound' /\ Lists' = Lists /\ Marked' = Marked /\ ibm' = ibm
    BY <2>1, <2>4, BlockKept, Zenon DEF Inv, WriteBlock
  <2>6. /\ DOMAIN op' = DOMAIN NoOp /\ op'.at = op.after_insert /\ op'.inode = op.inode
        /\ op'.lb = op.lb /\ op'.end = op.end /\ op'.moved = op.moved
        /\ op'.ino = op.ino /\ op'.target = op.target /\ op'.after_insert = op.after_insert
    BY <2>2, OpFacts, Zenon DEF NoOp
  <2>7. Sound(op.inode)' BY <2>5, <2>6, OpFacts, Zenon DEF Sound
  <2>8. op.after_insert \in {"none", "mapped", "dir_inode"} BY Zenon DEF Inv, OpSound
  <2>9. op'.at \notin Holding /\ op'.at \notin {"group", "super", "split", "place", "split_new"}
    BY <2>6, <2>8, Zenon DEF Holding
  <2>10. OpSound' BY <1>1, <2>5, <2>6, <2>7, <2>8, <2>9, OpIntro, OpFacts, Zenon
  <2> QED BY <2>5, <2>10, Zenon DEF Inv
<1>6. CASE ~(op.tries # 2 /\ Fits(ents, LeafMax, op.lb, op.pb)) /\ (op.tries = 2 \/ Half(ents) = 0)
  <2>1. Abort BY <1>6, Zenon DEF Place
  <2> QED BY <2>1, ReturnInv, Zenon DEF Abort, Return, Inv
<1>7. CASE ~(op.tries # 2 /\ Fits(ents, LeafMax, op.lb, op.pb)) /\ ~(op.tries = 2 \/ Half(ents) = 0)
  <2>1. AllocBlock("split") BY <1>7, Zenon DEF Place
  <2>2. ents # <<>>
    <3>1. Len(<<>>) = 0 /\ 0 \div 2 = 0 OBVIOUS
    <3>2. Half(<<>>) = 0 BY <3>1, Zenon DEF Half
    <3> HIDE DEF ents
    <3> QED BY <1>7, <3>2, Zenon
  <2>3. "split" \in AllocFor \ {"new_inode"} BY Zenon DEF AllocFor
  <2> QED BY <1>1, <1>2, <1>3, <2>1, <2>2, <2>3, AllocInv, Zenon
<1> QED BY <1>5, <1>6, <1>7, Zenon

LEMMA SplitCutInv ==
  ASSUME Inv, SplitCut
  PROVE  Inv'
<1>1. op.at = "split" /\ op.pb \in Marked /\ op.got \in Marked
  BY Zenon DEF SplitCut, Inv, OpSound, Holding
<1> DEFINE ents == block[Rightmost].ents
<1>2. op.inode.ents # <<>> /\ ents # <<>> BY <1>1, Zenon DEF Inv, OpSound, Splitting
<1>3. ents \in Lists BY <1>2, RightmostMarked, Zenon
<1>4. WriteBlock(Rightmost, Leaf(Kept(ents))) BY Zenon DEF SplitCut
<1> DEFINE d == op.dirty \/ Rightmost \in Leaves(itable[op.ino])
           l == Moved(ents)
<1>5. op' = [op EXCEPT !.at = "split_new", !.moved = l, !.dirty = d] BY Zenon DEF SplitCut
<1>6. Kept(ents) \in Lists /\ l \in Lists /\ l # <<>>
  <2> HIDE DEF ents
  <2>1. Len(ents) \in Nat /\ Len(ents) >= 1 BY <1>2, <1>3 DEF Lists
  <2>2. Half(ents) \in 0 .. Len(ents) - 1 BY <2>1 DEF Half
  <2>3. Kept(ents) \in Lists BY <1>3, <2>1, <2>2, PartOfList DEF Kept, Lists
  <2>4. l \in Lists /\ Len(l) = Len(ents) - Half(ents)
    BY <1>3, <2>1, <2>2, PartOfList DEF Moved, Lists
  <2>5. l # <<>> BY <2>1, <2>2, <2>4
  <2> QED BY <2>3, <2>4, <2>5, Zenon
<1> HIDE DEF l, d, ents
<1>7. Leaf(Kept(ents)).ents \in Lists BY <1>6, Zenon DEF Leaf, Content
<1>8. DiskSound' /\ Lists' = Lists /\ Marked' = Marked /\ ibm' = ibm
  BY <1>4, <1>7, BlockKept, Zenon DEF Inv, WriteBlock
<1>9. /\ DOMAIN op' = DOMAIN NoOp /\ op'.at = "split_new" /\ op'.inode = op.inode
      /\ op'.lb = op.lb /\ op'.end = op.end /\ op'.moved = l
      /\ op'.ino = op.ino /\ op'.target = op.target /\ op'.after_insert = op.after_insert
      /\ op'.pb = op.pb /\ op'.got = op.got
  BY <1>5, OpFacts, Zenon DEF NoOp
<1>10. Sound(op.inode)' BY <1>8, <1>9, OpFacts, Zenon DEF Sound
<1>11. OpSound' BY <1>1, <1>2, <1>6, <1>8, <1>9, <1>10, OpIntro, OpFacts, Zenon
<1> QED BY <1>8, <1>11, Zenon DEF Inv

LEMMA SplitNewInv ==
  ASSUME Inv, SplitNew
  PROVE  Inv'
<1>1. /\ op.at = "split_new" /\ op.pb \in Marked /\ op.got \in Marked
      /\ op.moved \in Lists /\ op.moved # <<>>
  BY Zenon DEF SplitNew, Inv, OpSound, Holding
<1>2. WriteBlock(op.got, Leaf(op.moved)) BY Zenon DEF SplitNew
<1>3. Leaf(op.moved).ents \in Lists BY <1>1, Zenon DEF Leaf, Content
<1>4. DiskSound' /\ Lists' = Lists /\ Marked' = Marked /\ ibm' = ibm
  BY <1>2, <1>3, BlockKept, Zenon DEF Inv, WriteBlock
<1>5. CASE Len(op.inode.ents) >= RootMax
  <2>1. op' = NoOp BY <1>5, Zenon DEF SplitNew, Return
  <2> QED BY <1>4, <2>1, IdleSound, Zenon DEF Inv
<1>6. CASE ~(Len(op.inode.ents) >= RootMax)
  <2> DEFINE l == Append(op.inode.ents, IndexTo(Head(op.moved).lb, op.got))
  <2>1. op' = [op EXCEPT !.at = "place", !.tries = @ + 1, !.moved = <<>>, !.inode.ents = l]
    BY <1>6, Zenon DEF SplitNew
  <2>2. Head(op.moved).lb \in Int BY <1>1 DEF Lists, Over
  <2>3. IndexTo(Head(op.moved).lb, op.got) \in Over(Marked)
    BY <1>1, <2>2, MarkedInt, OneEntry, Zenon DEF IndexTo, Inv
  <2>4. l \in Lists /\ l # <<>>
    <3>1. op.inode.ents \in Seq(Over(Marked)) BY Zenon DEF Inv, OpSound, Sound, Lists
    <3>2. l \in Seq(Over(Marked)) /\ Len(l) = Len(op.inode.ents) + 1 BY <2>3, <3>1
    <3> QED BY <3>1, <3>2 DEF Lists
  <2> HIDE DEF l
  <2>5. /\ DOMAIN op' = DOMAIN NoOp /\ op'.at = "place"
        /\ op'.inode = [op.inode EXCEPT !.ents = l]
        /\ op'.lb = op.lb /\ op'.end = op.end /\ op'.moved = <<>>
        /\ op'.ino = op.ino /\ op'.target = op.target /\ op'.after_insert = op.after_insert
        /\ op'.pb = op.pb /\ op'.got = op.got
    BY <2>1, OpFacts, Zenon DEF NoOp
  <2>6. Sound(op'.inode) /\ op'.inode.ents = l
    BY <2>4, <2>5, EntsReplaced, Zenon DEF Inv, OpSound, Sound
  <2>7. Sound(op.inode)' BY <1>4, <2>6, Zenon DEF Sound
  <2>8. op'.moved \in Lists' BY <2>5 DEF Lists
  <2>9. OpSound' BY <1>1, <1>4, <2>4, <2>5, <2>6, <2>7, <2>8, OpIntro, OpFacts, Zenon
  <2> QED BY <1>4, <2>9, Zenon DEF Inv
<1> QED BY <1>5, <1>6, Zenon

-----------------------------------------------------------------------------
(* Writing a file *)

LEMMA MaxOfTwo ==
  ASSUME NEW a \in Int, NEW b \in Int
  PROVE  Max({a, b}) \in Int /\ a <= Max({a, b}) /\ b <= Max({a, b})
<1>1. \E x \in {a, b} : \A y \in {a, b} : x >= y
  <2>1. CASE a <= b BY <2>1
  <2>2. CASE ~(a <= b) BY <2>2
  <2> QED BY <2>1, <2>2, Zenon
<1>2. Max({a, b}) \in {a, b} /\ \A y \in {a, b} : Max({a, b}) >= y BY <1>1, Zenon DEF Max
<1>3. Max({a, b}) \in Int BY <1>2, Zenon
<1> QED BY <1>2, <1>3

LEMMA WriteEnterInv ==
  ASSUME Inv, NEW i \in Ino, NEW lb \in Int, NEW n \in Int, WriteEnter(i, lb, n)
  PROVE  Inv'
<1>1. UNCHANGED disk BY Zenon DEF WriteEnter
<1>2. DiskSound' /\ Lists' = Lists /\ Marked' = Marked /\ ibm' = ibm
  BY <1>1, MarksKept, Zenon DEF disk, Inv, DiskSound, Lists, Marked
<1>3. i \in ibm /\ Sound(itable[i]) BY Zenon DEF WriteEnter, Inv, DiskSound
<1>4. op' = [NoOp EXCEPT !.at = "write", !.ino = i, !.inode = itable[i], !.lb = lb,
                         !.first = lb, !.end = lb + n, !.after_insert = "mapped"]
  BY Zenon DEF WriteEnter
<1>5. /\ DOMAIN op' = DOMAIN NoOp /\ op'.at = "write" /\ op'.inode = itable[i]
      /\ op'.lb = lb /\ op'.end = lb + n /\ op'.moved = <<>>
      /\ op'.ino = i /\ op'.target = 0 /\ op'.after_insert = "mapped"
  BY <1>4, Zenon DEF NoOp
<1>6. Sound(op.inode)' BY <1>2, <1>3, <1>5, Zenon DEF Sound
<1>7. op'.moved \in Lists' BY <1>5 DEF Lists
<1>8. op'.at \notin Holding BY <1>5, Zenon DEF Holding
<1>9. OpSound' BY <1>2, <1>3, <1>5, <1>6, <1>7, <1>8, OpIntro
<1> QED BY <1>2, <1>9, Zenon DEF Inv

LEMMA StoreDataInv ==
  ASSUME Inv, op.at # "idle", NEW b, StoreData(b)
  PROVE  Inv'
<1>1. WriteBlock(b, Data(op.ino, op.lb)) BY Zenon DEF StoreData
<1>2. Data(op.ino, op.lb).ents \in Lists BY DEF Data, Content, Lists
<1>3. DiskSound' /\ Lists' = Lists /\ Marked' = Marked /\ ibm' = ibm
  BY <1>1, <1>2, BlockKept, Zenon DEF Inv, WriteBlock
<1> DEFINE l == IF op.lb + 1 = op.end THEN "write_inode" ELSE "write"
<1>4. op' = [op EXCEPT !.at = l, !.lb = @ + 1] BY Zenon DEF StoreData
<1>5. l \in {"write", "write_inode"} BY Zenon
<1> HIDE DEF l
<1>6. /\ DOMAIN op' = DOMAIN NoOp /\ op'.at = l /\ op'.inode = op.inode
      /\ op'.lb = op.lb + 1 /\ op'.end = op.end /\ op'.moved = op.moved
      /\ op'.ino = op.ino /\ op'.target = op.target /\ op'.after_insert = op.after_insert
  BY <1>4, OpFacts, Zenon DEF NoOp
<1>7. Sound(op.inode)' BY <1>3, <1>6, OpFacts, Zenon DEF Sound
<1>8. op'.at \notin Holding /\ op'.at \notin {"group", "super", "split", "place", "split_new"}
  BY <1>5, <1>6, Zenon DEF Holding
<1>9. OpSound' BY <1>3, <1>6, <1>7, <1>8, OpIntro, OpFacts
<1> QED BY <1>3, <1>9, Zenon DEF Inv

LEMMA WriteEndInv ==
  ASSUME Inv, WriteEnd
  PROVE  Inv'
<1> DEFINE r == [op.inode EXCEPT !.size = NewSize(op.inode), !.blocks = recount_blocks(op.inode)]
<1>1. write_inode(op.ino, r) /\ op' = NoOp /\ op.ino \in ibm BY Zenon DEF WriteEnd, Inv, OpSound
<1>2. NewSize(op.inode) \in Int BY MaxOfTwo, Zenon DEF NewSize, Inv, OpSound, Sound
<1>3. Sound(r) BY <1>2, Zenon DEF Inv, OpSound, Sound
<1> HIDE DEF r
<1>4. DiskSound' BY <1>1, <1>3, InodeKept, Zenon DEF Inv
<1> QED BY <1>1, <1>4, IdleSound, Zenon DEF Inv

LEMMA WriteStepInv ==
  ASSUME Least, Inv, WriteStep
  PROVE  Inv'
<1>1. CASE WriteUnmapped
  <2>1. "insert" \in AllocFor \ {"new_inode"} BY Zenon DEF AllocFor
  <2>2. op.at # "idle" /\ AllocBlock("insert") BY <1>1, Zenon DEF WriteUnmapped
  <2> QED BY <2>1, <2>2, AllocInv, Zenon
<1>2. CASE WriteOver BY <1>2, StoreDataInv, Zenon DEF WriteOver
<1>3. CASE WriteFresh
  <2>1. CASE map_block(op.inode, op.lb) = {}
    BY <1>3, <2>1, ReturnInv, Zenon DEF WriteFresh, Abort, Return, Inv
  <2>2. CASE map_block(op.inode, op.lb) # {} BY <1>3, <2>2, StoreDataInv, Zenon DEF WriteFresh
  <2> QED BY <2>1, <2>2, Zenon
<1>4. CASE WriteEnd BY <1>4, WriteEndInv, Zenon
<1> QED BY <1>1, <1>2, <1>3, <1>4, Zenon DEF WriteStep

-----------------------------------------------------------------------------
(* Creating a file or a directory *)

LEMMA CreateEnterInv ==
  ASSUME Inv, NEW dir \in Ino, NEW name, NEW kind, CreateEnter(dir, name, kind)
  PROVE  Inv'
<1> DEFINE i == Min(Ino \ ibm)
           r == [FreeInode EXCEPT !.kind = kind, !.links = IF kind = "dir" THEN 2 ELSE 1]
<1>1. ibm' = ibm \cup {i} /\ UNCHANGED <<bbm, itable, block>> BY Zenon DEF CreateEnter
<1>2. op' = [NoOp EXCEPT !.at = "group", !.after_alloc = "new_inode", !.ino = dir,
                         !.target = i, !.name = name, !.kind = kind, !.inode = r]
  BY Zenon DEF CreateEnter
<1>3. r.size = 0 /\ r.depth = 0 /\ r.ents = <<>> /\ {"size", "depth", "ents"} \subseteq DOMAIN r
  BY Zenon DEF FreeInode
<1> HIDE DEF i, r
<1>4. DiskSound' /\ Lists' = Lists
  BY <1>1, MarksKept, Zenon DEF Inv, DiskSound, Lists, Marked
<1>5. dir \in ibm' BY <1>1, Zenon DEF CreateEnter, Inv, DiskSound
<1>6. /\ DOMAIN op' = DOMAIN NoOp /\ op'.at = "group" /\ op'.after_alloc = "new_inode"
      /\ op'.inode = r /\ op'.lb = 0 /\ op'.end = 0 /\ op'.moved = <<>>
      /\ op'.ino = dir /\ op'.target = i /\ op'.after_insert = "none"
  BY <1>2, Zenon DEF NoOp
<1>7. <<>> \in Lists' BY DEF Lists
<1>8. Sound(op.inode)' BY <1>3, <1>6, <1>7 DEF Sound
<1>9. InAlloc' /\ ~Splitting' /\ "new_inode" \in AllocFor
  BY <1>6, Zenon DEF InAlloc, Splitting, AllocFor
<1>10. "new_inode" \notin Holding /\ "group" \notin Holding BY Zenon DEF Holding
<1>11. OpSound' BY <1>1, <1>5, <1>6, <1>7, <1>8, <1>9, <1>10 DEF OpSound
<1> QED BY <1>4, <1>11, Zenon DEF Inv

LEMMA NewDirInv ==
  ASSUME Inv, NewDir
  PROVE  Inv'
<1> DEFINE c == Dir({<<".", op.target>>, <<"..", op.ino>>})
           l == <<Extent(0, 1, op.got)>>
<1>1. op.at = "new_dir" /\ op.got \in Marked BY Zenon DEF NewDir, Inv, OpSound, Holding
<1>2. WriteBlock(op.got, c) BY Zenon DEF NewDir
<1>3. c.ents \in Lists BY DEF Dir, Content, Lists
<1>4. l \in Lists BY <1>1, MarkedInt, OneEntry DEF Inv, Lists
<1>5. op' = [op EXCEPT !.at = "init_inode", !.inode.size = 1, !.inode.blocks = 1,
                       !.inode.ents = l]
  BY Zenon DEF NewDir
<1> HIDE DEF c, l
<1>6. DiskSound' /\ Lists' = Lists /\ Marked' = Marked /\ ibm' = ibm
  BY <1>2, <1>3, BlockKept, Zenon DEF Inv, WriteBlock
<1>7. /\ DOMAIN op' = DOMAIN NoOp /\ op'.at = "init_inode"
      /\ op'.inode = [[[op.inode EXCEPT !.size = 1] EXCEPT !.blocks = 1] EXCEPT !.ents = l]
      /\ op'.lb = op.lb /\ op'.end = op.end /\ op'.moved = op.moved
      /\ op'.ino = op.ino /\ op'.target = op.target /\ op'.after_insert = op.after_insert
  BY <1>5, OpFacts, Zenon DEF NoOp
<1>8. l # <<>> BY Zenon DEF l
<1>9. Sound(op'.inode) BY <1>4, <1>7, <1>8 DEF Inv, OpSound, Sound
<1>10. Sound(op.inode)' BY <1>6, <1>9, Zenon DEF Sound
<1>11. op'.at \notin Holding BY <1>7, Zenon DEF Holding
<1>12. OpSound' BY <1>1, <1>6, <1>7, <1>10, <1>11, OpIntro, OpFacts, Zenon
<1> QED BY <1>6, <1>12, Zenon DEF Inv

LEMMA InitInodeInv ==
  ASSUME Inv, InitInode
  PROVE  Inv'
<1>1. op.at # "idle" /\ write_inode(op.target, op.inode) BY Zenon DEF InitInode
<1>2. Sound(op.inode) /\ op.target \in ibm \cup {0} /\ op.ino \in Ino \cap ibm
  BY <1>1, Zenon DEF Inv, OpSound
<1>3. DiskSound' /\ Lists' = Lists /\ Marked' = Marked /\ ibm' = ibm
  BY <1>1, <1>2, InodeKept, Zenon DEF Inv, write_inode
<1>4. op' = [op EXCEPT !.at = "add_dirent", !.inode = itable[op.ino]] BY Zenon DEF InitInode
<1>5. /\ DOMAIN op' = DOMAIN NoOp /\ op'.at = "add_dirent" /\ op'.inode = itable[op.ino]
      /\ op'.lb = op.lb /\ op'.end = op.end /\ op'.moved = op.moved
      /\ op'.ino = op.ino /\ op'.target = op.target /\ op'.after_insert = op.after_insert
  BY <1>4, OpFacts, Zenon DEF NoOp
<1>6. Sound(itable[op.ino]) BY <1>2, Zenon DEF Inv, DiskSound
<1>7. Sound(op.inode)' BY <1>3, <1>5, <1>6, Zenon DEF Sound
<1>8. op'.at \notin Holding BY <1>5, Zenon DEF Holding
<1>9. OpSound' BY <1>2, <1>3, <1>5, <1>7, <1>8, OpIntro, OpFacts, Zenon
<1> QED BY <1>3, <1>9, Zenon DEF Inv
\* create goes on to the link of the parent, or returns.
LEMMA NamedSound ==
  ASSUME OpSound, op.at # "idle", op' = Named, UNCHANGED <<bbm, ibm>>
  PROVE  OpSound'
<1>1. Lists' = Lists BY Zenon DEF Lists, Marked
<1>2. CASE op.kind = "dir"
  <2>1. op' = [op EXCEPT !.at = "link", !.dirty = FALSE] BY <1>2, Zenon DEF Named
  <2>2. /\ DOMAIN op' = DOMAIN NoOp /\ op'.at = "link" /\ op'.inode = op.inode
        /\ op'.lb = op.lb /\ op'.end = op.end /\ op'.moved = op.moved
        /\ op'.ino = op.ino /\ op'.target = op.target /\ op'.after_insert = op.after_insert
    BY <2>1, Zenon DEF OpSound, NoOp
  <2>3. Sound(op.inode)' BY <1>1, <2>2, Zenon DEF OpSound, Sound
  <2>4. op'.at \notin Holding BY <2>2, Zenon DEF Holding
  <2> QED BY <1>1, <2>2, <2>3, <2>4, OpIntro, Zenon DEF OpSound
<1>3. CASE op.kind # "dir" BY <1>3, IdleSound, Zenon DEF Named
<1> QED BY <1>2, <1>3, Zenon

LEMMA AddDirentInv ==
  ASSUME Inv, AddDirent
  PROVE  Inv'
<1>1. op.at # "idle" /\ op' = Named BY Zenon DEF AddDirent
<1>2. PICK b : WriteBlock(b, Dir(block[b].names \cup {<<op.name, op.target>>}))
  BY Zenon DEF AddDirent
<1> DEFINE c == Dir(block[b].names \cup {<<op.name, op.target>>})
<1>3. c.ents \in Lists BY DEF Dir, Content, Lists
<1>4. WriteBlock(b, c) BY <1>2, Zenon
<1> HIDE DEF c
<1>5. DiskSound' BY <1>3, <1>4, BlockKept, Zenon DEF Inv
<1>6. OpSound' BY <1>1, <1>4, NamedSound, Zenon DEF Inv, WriteBlock
<1> QED BY <1>5, <1>6, Zenon DEF Inv

LEMMA AddDirentBlockInv ==
  ASSUME Inv, AddDirentBlock
  PROVE  Inv'
<1> DEFINE c == Dir({<<op.name, op.target>>})
<1>1. /\ op.at = "dir_block" /\ op.pb \in Marked /\ op.got \in Marked
      /\ op.inode.size \in Int
  BY Zenon DEF AddDirentBlock, Inv, OpSound, Holding, Sound
<1>2. WriteBlock(op.pb, c) BY Zenon DEF AddDirentBlock
<1>3. c.ents \in Lists BY DEF Dir, Content, Lists
<1> HIDE DEF c
<1>4. DiskSound' /\ Lists' = Lists /\ Marked' = Marked /\ ibm' = ibm
  BY <1>2, <1>3, BlockKept, Zenon DEF Inv, WriteBlock
<1>5. op' = [op EXCEPT !.at = "insert", !.lb = op.inode.size, !.after_insert = "dir_inode"]
  BY Zenon DEF AddDirentBlock
<1>6. /\ DOMAIN op' = DOMAIN NoOp /\ op'.at = "insert" /\ op'.inode = op.inode
      /\ op'.lb = op.inode.size /\ op'.end = op.end /\ op'.moved = op.moved
      /\ op'.ino = op.ino /\ op'.target = op.target /\ op'.after_insert = "dir_inode"
      /\ op'.pb = op.pb /\ op'.got = op.got
  BY <1>5, OpFacts, Zenon DEF NoOp
<1>7. Sound(op.inode)' BY <1>4, <1>6, OpFacts, Zenon DEF Sound
<1>8. OpSound' BY <1>1, <1>4, <1>6, <1>7, OpIntro, OpFacts, Zenon
<1> QED BY <1>4, <1>8, Zenon DEF Inv

LEMMA AddDirentEndInv ==
  ASSUME Inv, AddDirentEnd
  PROVE  Inv'
<1> DEFINE r == [op.inode EXCEPT !.size = @ + 1, !.blocks = recount_blocks(op.inode)]
<1>1. op.at # "idle" /\ op' = Named /\ write_inode(op.ino, r) BY Zenon DEF AddDirentEnd
<1>2. Sound(r) BY DEF Inv, OpSound, Sound
<1> HIDE DEF r
<1>3. op.ino \in ibm BY <1>1, Zenon DEF Inv, OpSound
<1>4. DiskSound' BY <1>1, <1>2, <1>3, InodeKept, Zenon DEF Inv
<1>5. OpSound' BY <1>1, NamedSound, Zenon DEF Inv, write_inode
<1> QED BY <1>4, <1>5, Zenon DEF Inv

LEMMA LinkParentInv ==
  ASSUME Inv, LinkParent
  PROVE  Inv'
<1> DEFINE r == [itable[op.ino] EXCEPT !.links = @ + 1]
<1>1. op.at # "idle" /\ op' = NoOp /\ write_inode(op.ino, r) BY Zenon DEF LinkParent
<1>2. op.ino \in Ino \cap ibm BY <1>1, Zenon DEF Inv, OpSound
<1>3. Sound(itable[op.ino]) BY <1>2, Zenon DEF Inv, DiskSound
<1>4. Sound(r) BY <1>3, Zenon DEF Sound
<1> HIDE DEF r
<1>5. DiskSound' BY <1>1, <1>2, <1>4, InodeKept, Zenon DEF Inv
<1> QED BY <1>1, <1>5, IdleSound, Zenon DEF Inv

LEMMA CreateStepInv ==
  ASSUME Least, Inv, CreateStep
  PROVE  Inv'
<1>1. CASE NewDirBlock
  <2>1. "new_dir" \in AllocFor \ {"new_inode"} BY Zenon DEF AllocFor
  <2>2. op.at # "idle" /\ AllocBlock("new_dir") BY <1>1, Zenon DEF NewDirBlock
  <2> QED BY <2>1, <2>2, AllocInv, Zenon
<1>2. CASE AddDirentGrow
  <2>1. "dir_block" \in AllocFor \ {"new_inode"} BY Zenon DEF AllocFor
  <2>2. op.at # "idle" /\ AllocBlock("dir_block") BY <1>2, Zenon DEF AddDirentGrow
  <2> QED BY <2>1, <2>2, AllocInv, Zenon
<1> QED BY <1>1, <1>2, NewDirInv, InitInodeInv, AddDirentInv, AddDirentBlockInv,
           AddDirentEndInv, LinkParentInv, Zenon DEF CreateStep

-----------------------------------------------------------------------------
(* The theorem *)

LEMMA InitInv == Init => Inv
<1> SUFFICES ASSUME Init PROVE Inv BY Zenon
<1>1. RootDirBlock \in Marked /\ bbm \subseteq Fsb /\ Marked \subseteq Int
  BY Ext4Assumption DEF Init, Marked, Fsb, Ext4Assumption
<1>2. <<>> \in Lists BY DEF Lists
<1>3. <<Extent(0, 1, RootDirBlock)>> \in Lists
  <2>1. 0 \in Int /\ 1 \in {0, 1} OBVIOUS
  <2> QED BY <1>1, <2>1, OneEntry, Zenon DEF Lists
<1>4. Sound(FreeInode) BY <1>2 DEF Sound, FreeInode
<1> DEFINE r == [kind |-> "dir", size |-> 1, links |-> 2, blocks |-> 1, depth |-> 0,
                 ents |-> <<Extent(0, 1, RootDirBlock)>>]
<1>5. Sound(r) BY <1>3 DEF Sound
<1> HIDE DEF r
<1>6. DOMAIN itable = Ino /\ \A i \in Ino : itable[i] = IF i = ROOT_INO THEN r ELSE FreeInode
  BY Zenon DEF Init, r
<1>7. FreeInode.kind = "free" /\ ibm = {ROOT_INO} BY Zenon DEF FreeInode, Init
<1>8. \A i \in Ino : Sound(itable[i]) /\ (itable[i].kind # "free" => i \in ibm)
  BY <1>4, <1>5, <1>6, <1>7, Zenon
<1>9. DOMAIN block = Fsb /\ \A b \in Fsb : block[b].ents = <<>>
  BY Zenon DEF Init, Dir, Stale, Content
<1>10. DiskSound BY <1>1, <1>2, <1>6, <1>8, <1>9, Zenon DEF DiskSound
<1>11. op = NoOp BY Zenon DEF Init
<1>12. /\ op.at = "idle" /\ op.inode = FreeInode /\ op.lb = 0 /\ op.end = 0
       /\ op.moved = <<>> /\ op.after_insert = "none"
  BY <1>11, Zenon DEF NoOp
<1>13. ~InAlloc /\ ~Splitting /\ op.at \notin Holding BY <1>12, Zenon DEF InAlloc, Splitting, Holding
<1>14. DOMAIN op = DOMAIN NoOp /\ Sound(op.inode) BY <1>4, <1>11, <1>12, Zenon
<1>15. OpSound BY <1>2, <1>12, <1>13, <1>14 DEF OpSound
<1> QED BY <1>10, <1>15, Zenon DEF Inv

LEMMA NextInv ==
  ASSUME Least, Inv, [Next]_vars
  PROVE  Inv'
<1>1. ASSUME NEW i \in Known, NEW lb \in 0 .. MaxSize[i] - 1, NEW n \in 1 .. MaxLen,
             WriteEnter(i, lb, n)
      PROVE  Inv'
  <2>1. i \in Ino BY Zenon DEF Known
  <2>2. lb \in Int /\ n \in Int OBVIOUS
  <2> QED BY <1>1, <2>1, <2>2, WriteEnterInv, Zenon
<1>2. ASSUME NEW dir \in Known, NEW name \in Name, NEW kind \in {"file", "dir"},
             CreateEnter(dir, name, kind)
      PROVE  Inv'
  <2>1. dir \in Ino BY Zenon DEF Known
  <2> QED BY <1>2, <2>1, CreateEnterInv, Zenon
<1>3. CASE Step
  BY <1>3, CommitInv, InsertRootInv, DeepenInv, PlaceInv, SplitCutInv, SplitNewInv,
     WriteStepInv, CreateStepInv, Zenon DEF Step, InsertStep
<1>4. CASE Fail \/ Crash BY <1>4, ReturnInv, Zenon DEF Fail, Crash, Return, Inv
<1>5. CASE UNCHANGED vars
  <2>1. UNCHANGED <<bbm, ibm, itable, block, op>> BY <1>5, Zenon DEF vars, disk
  <2>2. Lists' = Lists /\ Marked' = Marked BY <2>1, Zenon DEF Lists, Marked
  <2>3. DiskSound' BY <2>1, MarksKept, Zenon DEF Inv, DiskSound
  <2>4. Sound(op.inode)' BY <2>1, <2>2, OpFacts, Zenon DEF Sound
  <2>5. (InAlloc' <=> InAlloc) /\ (Splitting' <=> Splitting) /\ Rightmost' = Rightmost
    BY <2>1, Zenon DEF InAlloc, Splitting, Rightmost
  <2>6. OpSound' BY <2>1, <2>2, <2>4, <2>5, Zenon DEF Inv, OpSound
  <2> QED BY <2>3, <2>6, Zenon DEF Inv
<1> QED BY <1>1, <1>2, <1>3, <1>4, <1>5, Zenon DEF Next

\* The extents below an inode in use are among the lists the invariant speaks of.
LEMMA InvRefs == Inv => RefsMarked
<1> SUFFICES ASSUME Inv, NEW i \in Ino, itable[i].kind # "free"
             PROVE  i \in ibm /\ Refers(itable[i]) \subseteq Marked
  BY Zenon DEF RefsMarked, InUse, Marked
<1> DEFINE r == itable[i]
<1>1. i \in ibm /\ r.ents \in Seq(Over(Marked)) BY Zenon DEF Inv, DiskSound, Sound, Lists
<1> HIDE DEF r
<1>2. \A k \in DOMAIN r.ents : r.ents[k] \in Over(Marked)
  <2>1. DOMAIN r.ents = 1 .. Len(r.ents) BY <1>1
  <2> QED BY <1>1, <2>1
<1>3. \A k \in DOMAIN r.ents : r.ents[k].pb \in Marked BY <1>2, Zenon DEF Over
<1>4. Leaves(r) \subseteq Marked BY <1>3, Zenon DEF Leaves
<1>5. ASSUME NEW l \in Range(ExtentLists(r)), NEW e \in Range(l)
      PROVE  {e.pb + k : k \in 0 .. e.len - 1} \subseteq Marked
  <2>1. l \in Lists
    <3>1. CASE r.depth = 0
      <4>1. l = r.ents BY <3>1 DEF ExtentLists, Range
      <4> QED BY <1>1, <4>1, Zenon DEF Lists
    <3>2. CASE r.depth # 0
      <4>1. PICK k \in DOMAIN r.ents : l = block[r.ents[k].pb].ents
        BY <3>2, Zenon DEF ExtentLists, Range
      <4>2. r.ents[k].pb \in Fsb BY <1>3, MarkedInt, Zenon DEF Inv
      <4> QED BY <4>1, <4>2, Zenon DEF Inv, DiskSound
    <3> QED BY <3>1, <3>2, Zenon
  <2>2. e \in Over(Marked)
    <3>1. l \in Seq(Over(Marked)) BY <2>1, Zenon DEF Lists
    <3>2. PICK k \in DOMAIN l : e = l[k] BY Zenon DEF Range
    <3>3. DOMAIN l = 1 .. Len(l) BY <3>1
    <3> QED BY <3>1, <3>2, <3>3
  <2> QED BY <2>2, Zenon DEF Over
<1>6. Mapped(r) \subseteq Marked BY <1>5 DEF Mapped
<1> QED BY <1>1, <1>4, <1>6, Zenon DEF Refers, r

-----------------------------------------------------------------------------
(* Trees that use no block twice *)

\* The blocks of an extent, and those of a list of extents.
Run(e) == {e.pb + k : k \in 0 .. e.len - 1}
Blocks(ents) == UNION {Run(ents[n]) : n \in DOMAIN ents}

\* No block occurs in two extents of a list.
Once(ents) == \A m, n \in DOMAIN ents : m # n => Run(ents[m]) \cap Run(ents[n]) = {}

\* What the tree of an inode maps and uses when the blocks hold blk.
MappedIn(blk, r) ==
  IF r.depth = 0 THEN Blocks(r.ents) ELSE UNION {Blocks(blk[x].ents) : x \in Leaves(r)}
Uses(blk, r) == Leaves(r) \cup MappedIn(blk, r)

\* A tree that uses no block twice.
TreeOnce(blk, r) ==
  IF r.depth = 0
  THEN Once(r.ents)
  ELSE /\ \A m, n \in DOMAIN r.ents : r.ents[m].pb = r.ents[n].pb => m = n
       /\ \A x \in Leaves(r) : /\ Once(blk[x].ents)
                               /\ Blocks(blk[x].ents) \cap Leaves(r) = {}
       /\ \A x, y \in Leaves(r) : x # y => Blocks(blk[x].ents) \cap Blocks(blk[y].ents) = {}

\* The content of a block that is not a node of a tree is nothing to the tree.
LEMMA SameTree ==
  ASSUME NEW blk, NEW new, NEW r, \A y \in Leaves(r) : new[y] = blk[y]
  PROVE  /\ MappedIn(new, r) = MappedIn(blk, r)
         /\ Uses(new, r) = Uses(blk, r)
         /\ TreeOnce(blk, r) => TreeOnce(new, r)
<1>1. MappedIn(new, r) = MappedIn(blk, r) BY Zenon DEF MappedIn
<1>2. Uses(new, r) = Uses(blk, r) BY <1>1, Zenon DEF Uses
<1>3. TreeOnce(blk, r) => TreeOnce(new, r) BY Zenon DEF TreeOnce
<1> QED BY <1>1, <1>2, <1>3, Zenon

\* A node rewritten with some of its extents and perhaps blocks that the tree did not use.
LEMMA NodeRewritten ==
  ASSUME NEW blk, NEW new, NEW r, NEW x, NEW P, TreeOnce(blk, r),
         \A y \in Leaves(r) : y # x => new[y] = blk[y],
         Once(new[x].ents), Blocks(new[x].ents) \subseteq Blocks(blk[x].ents) \cup P, P \cap Uses(blk, r) = {}
  PROVE  /\ MappedIn(new, r) \subseteq MappedIn(blk, r) \cup P
         /\ Uses(new, r) \subseteq Uses(blk, r) \cup P
         /\ TreeOnce(new, r)
<1>1. CASE x \notin Leaves(r)
  <2>1. \A y \in Leaves(r) : new[y] = blk[y] BY <1>1, Zenon
  <2> QED BY <2>1, SameTree, Zenon
<1>2. CASE x \in Leaves(r)
  <2>1. \A y \in Leaves(r) : y # x => new[y] = blk[y] BY Zenon
  <2>2. r.depth # 0 BY <1>2, Zenon DEF Leaves
  <2>3. ASSUME NEW y \in Leaves(r) PROVE Blocks(new[y].ents) \subseteq Blocks(blk[y].ents) \cup P
    BY <2>1, Zenon
  <2>4. MappedIn(new, r) \subseteq MappedIn(blk, r) \cup P BY <2>2, <2>3, Zenon DEF MappedIn
  <2>5. Uses(new, r) \subseteq Uses(blk, r) \cup P BY <2>4, Zenon DEF Uses
  <2>6. ASSUME NEW y \in Leaves(r)
        PROVE  Once(new[y].ents) /\ Blocks(new[y].ents) \cap Leaves(r) = {}
    <3>1. Once(new[y].ents) BY <2>1, <2>2, Zenon DEF TreeOnce
    <3>2. Blocks(blk[y].ents) \cap Leaves(r) = {} BY <2>2, Zenon DEF TreeOnce
    <3>3. P \cap Leaves(r) = {} BY Zenon DEF Uses
    <3> QED BY <2>3, <3>1, <3>2, <3>3, Zenon
  <2>7. ASSUME NEW y \in Leaves(r), NEW z \in Leaves(r), y # z
        PROVE  Blocks(new[y].ents) \cap Blocks(new[z].ents) = {}
    <3>1. Blocks(blk[y].ents) \cap Blocks(blk[z].ents) = {} BY <2>2, <2>7, Zenon DEF TreeOnce
    <3>2. P \cap Blocks(blk[y].ents) = {} /\ P \cap Blocks(blk[z].ents) = {}
      BY <2>2, Zenon DEF Uses, MappedIn
    <3>3. CASE y = x
      <4>1. new[z] = blk[z] BY <2>1, <2>7, <3>3, Zenon
      <4> QED BY <2>3, <3>1, <3>2, <4>1, Zenon
    <3>4. CASE y # x
      <4>1. new[y] = blk[y] BY <2>1, <2>7, <3>4, Zenon
      <4> QED BY <2>3, <3>1, <3>2, <4>1, Zenon
    <3> QED BY <3>3, <3>4, Zenon
  <2>8. TreeOnce(new, r) BY <2>2, <2>6, <2>7, Zenon DEF TreeOnce
  <2> QED BY <2>4, <2>5, <2>8, Zenon
<1> QED BY <1>1, <1>2, Zenon

\* Only the kind of root and its entries make the tree.
LEMMA SameRoot ==
  ASSUME NEW blk, NEW r, NEW q, q.depth = r.depth, q.ents = r.ents
  PROVE  /\ Leaves(q) = Leaves(r) /\ MappedIn(blk, q) = MappedIn(blk, r) /\ Uses(blk, q) = Uses(blk, r)
         /\ TreeOnce(blk, r) => TreeOnce(blk, q)
<1>1. Leaves(q) = Leaves(r) BY Zenon DEF Leaves
<1>2. MappedIn(blk, q) = MappedIn(blk, r) BY <1>1, Zenon DEF MappedIn
<1> QED BY <1>1, <1>2, Zenon DEF Uses, TreeOnce
-----------------------------------------------------------------------------
\* insert_extent and place_in_rightmost_leaf add their block once.
LEMMA ExtendedOnce ==
  ASSUME NEW U, U \subseteq Int, NEW s \in Seq(Over(U)), NEW lb \in Int, NEW pb \in U,
         Once(s), pb \notin Blocks(s)
  PROVE  Once(Extended(s, lb, pb)) /\ Blocks(Extended(s, lb, pb)) \subseteq Blocks(s) \cup {pb}
<1>1. Len(s) \in Nat /\ DOMAIN s = 1 .. Len(s) OBVIOUS
<1>2. \A n \in DOMAIN s : s[n] \in [lb : Int, len : Nat, pb : U] BY <1>1 DEF Over
<1> DEFINE t == Extended(s, lb, pb)
           z == IF Continues(s, lb, pb) THEN Len(s) ELSE Len(s) + 1
<1>3. /\ DOMAIN t = 1 .. z /\ z \in Nat
      /\ \A n \in 1 .. z : n # z => n \in DOMAIN s /\ t[n] = s[n]
      /\ Run(t[z]) \subseteq (IF z \in DOMAIN s THEN Run(s[z]) ELSE {}) \cup {pb}
  <2>1. CASE Continues(s, lb, pb)
    <3>1. s # <<>> /\ Last(s).pb + Last(s).len = pb BY <2>1, Zenon DEF Continues
    <3>2. z = Len(s) /\ z >= 1 /\ z \in DOMAIN s
      <4>1. z = Len(s) BY <2>1, Zenon
      <4>2. Len(s) >= 1 BY <3>1
      <4>3. Len(s) \in 1 .. Len(s) BY <1>1, <4>2
      <4> QED BY <1>1, <4>1, <4>2, <4>3, Zenon
    <3>3. Last(s) = s[z] BY <3>2, Zenon DEF Last
    <3>4. t = [s EXCEPT ![z] = [s[z] EXCEPT !.len = s[z].len + 1]]
      <4>1. t = [s EXCEPT ![Len(s)] = [s[Len(s)] EXCEPT !.len = s[Len(s)].len + 1]]
        BY <2>1, Zenon DEF Extended
      <4> QED BY <3>2, <4>1, Zenon
    <3> HIDE DEF t, z
    <3>5. t[z].len = s[z].len + 1 /\ t[z].pb = s[z].pb BY <1>2, <3>2, <3>4, Zenon
    <3>6. s[z].len \in Nat /\ s[z].pb \in Int /\ s[z].pb + s[z].len = pb
      BY <1>2, <3>1, <3>2, <3>3, Zenon
    <3>7. Run(t[z]) \subseteq Run(s[z]) \cup {pb}
      <4> SUFFICES ASSUME NEW k \in 0 .. s[z].len, s[z].pb + k # pb
                   PROVE  s[z].pb + k \in Run(s[z])
        BY <3>5, <3>6 DEF Run
      <4>1. k \in 0 .. s[z].len - 1 BY <3>6
      <4> QED BY <4>1, Zenon DEF Run
    <3>8. DOMAIN t = 1 .. z BY <1>1, <3>2, <3>4, <2>1, Zenon DEF z
    <3>9. \A n \in 1 .. z : n # z => n \in DOMAIN s /\ t[n] = s[n] BY <3>2, <3>4, <3>8, Zenon
    <3> QED BY <3>2, <3>7, <3>8, <3>9, <1>1, Zenon
  <2>2. CASE ~Continues(s, lb, pb)
    <3>1. z = Len(s) + 1 /\ z \notin DOMAIN s BY <1>1, <2>2
    <3>2. Extent(lb, 1, pb) \in Over(U) BY OneEntry, Zenon
    <3>3. t = Append(s, Extent(lb, 1, pb)) BY <2>2, Zenon DEF Extended
    <3> HIDE DEF t, z
    <3>4. DOMAIN t = 1 .. z /\ t[z] = Extent(lb, 1, pb) /\ \A n \in DOMAIN s : t[n] = s[n]
      BY <3>1, <3>2, <3>3
    <3>5. Run(t[z]) \subseteq {pb} BY <3>4 DEF Run, Extent
    <3> QED BY <1>1, <3>1, <3>4, <3>5
  <2> QED BY <2>1, <2>2, Zenon
<1> HIDE DEF t, z
<1>4. \A n \in DOMAIN s : Run(s[n]) \subseteq Blocks(s) BY Zenon DEF Blocks
<1>5. Blocks(t) \subseteq Blocks(s) \cup {pb}
  <2> SUFFICES ASSUME NEW n \in DOMAIN t PROVE Run(t[n]) \subseteq Blocks(s) \cup {pb}
    BY Zenon DEF Blocks
  <2>1. CASE n = z BY <1>3, <1>4, <2>1, Zenon
  <2>2. CASE n # z BY <1>3, <1>4, <2>2, Zenon
  <2> QED BY <2>1, <2>2, Zenon
<1>6. ASSUME NEW m \in 1 .. z, m # z PROVE Run(t[m]) \cap Run(t[z]) = {}
  <2>1. m \in DOMAIN s /\ t[m] = s[m] BY <1>3, <1>6, Zenon
  <2>2. pb \notin Run(s[m]) BY <1>4, <2>1, Zenon
  <2>3. z \in DOMAIN s => Run(s[m]) \cap Run(s[z]) = {} BY <1>6, <2>1, Zenon DEF Once
  <2> QED BY <1>3, <2>1, <2>2, <2>3, Zenon
<1>7. ASSUME NEW m \in DOMAIN t, NEW n \in DOMAIN t, m # n PROVE Run(t[m]) \cap Run(t[n]) = {}
  <2>1. CASE n = z BY <1>3, <1>6, <1>7, <2>1, Zenon
  <2>2. CASE m = z BY <1>3, <1>6, <1>7, <2>2, Zenon
  <2>3. CASE m # z /\ n # z BY <1>3, <1>7, <2>3, Zenon DEF Once
  <2> QED BY <2>1, <2>2, <2>3, Zenon
<1>8. Once(t) BY <1>7, Zenon DEF Once
<1> QED BY <1>5, <1>8, Zenon DEF t

\* The two halves of a split share out the blocks of the leaf.
LEMMA HalvesOnce ==
  ASSUME NEW S, NEW s \in Seq(S), Once(s)
  PROVE  /\ Once(Kept(s)) /\ Once(Moved(s))
         /\ Blocks(Kept(s)) \subseteq Blocks(s) /\ Blocks(Moved(s)) \subseteq Blocks(s)
         /\ Blocks(Kept(s)) \cap Blocks(Moved(s)) = {}
<1>1. Len(s) \in Nat /\ DOMAIN s = 1 .. Len(s) OBVIOUS
<1>2. PICK h : h = Half(s) BY Zenon
<1>3. h \in 0 .. Len(s) BY <1>1, <1>2 DEF Half
<1>4. PICK k, m : k = Kept(s) /\ m = Moved(s) BY Zenon
<1>5. /\ DOMAIN k = 1 .. h /\ \A n \in 1 .. h : n \in DOMAIN s /\ k[n] = s[n]
  BY <1>1, <1>2, <1>3, <1>4 DEF Kept
<1>6. /\ DOMAIN m = 1 .. Len(s) - h
      /\ \A n \in 1 .. Len(s) - h : h + n \in DOMAIN s /\ m[n] = s[h + n]
  BY <1>1, <1>2, <1>3, <1>4 DEF Moved
<1>7. Once(k) BY <1>5, Zenon DEF Once
<1>8. Once(m)
  <2> SUFFICES ASSUME NEW a \in 1 .. Len(s) - h, NEW b \in 1 .. Len(s) - h, a # b
               PROVE  Run(s[h + a]) \cap Run(s[h + b]) = {}
    BY <1>6, Zenon DEF Once
  <2>1. h + a # h + b BY <1>3
  <2> QED BY <1>6, <2>1, Zenon DEF Once
<1>9. Blocks(k) \subseteq Blocks(s) BY <1>5, Zenon DEF Blocks
<1>10. Blocks(m) \subseteq Blocks(s) BY <1>6, Zenon DEF Blocks
<1>11. Blocks(k) \cap Blocks(m) = {}
  <2> SUFFICES ASSUME NEW a \in DOMAIN k, NEW b \in DOMAIN m PROVE Run(k[a]) \cap Run(m[b]) = {}
    BY DEF Blocks
  <2>1. a # h + b BY <1>1, <1>3, <1>5, <1>6
  <2> QED BY <1>5, <1>6, <2>1, Zenon DEF Once
<1> QED BY <1>4, <1>7, <1>8, <1>9, <1>10, <1>11, Zenon

\* insert_extent puts a root that is full into a leaf of its own.
LEMMA Deepened ==
  ASSUME NEW blk, NEW new, NEW r, NEW q, NEW x, NEW e, new[x].ents = r.ents, r.depth = 0, TreeOnce(blk, r),
         x \notin Uses(blk, r), q.depth = 1, q.ents = <<e>>, e.pb = x
  PROVE  /\ TreeOnce(new, q) /\ Leaves(q) = {x}
         /\ MappedIn(new, q) = MappedIn(blk, r)
<1>1. new[x].ents = r.ents BY Zenon
<1>2. Leaves(q) = {x} BY DEF Leaves
<1>3. MappedIn(blk, r) = Blocks(r.ents) /\ Once(r.ents) BY Zenon DEF MappedIn, TreeOnce
<1>4. MappedIn(new, q) = Blocks(r.ents) BY <1>1, <1>2 DEF MappedIn
<1>5. x \notin Blocks(r.ents) BY <1>3, Zenon DEF Uses
<1>6. TreeOnce(new, q) BY <1>1, <1>2, <1>3, <1>5 DEF TreeOnce
<1> QED BY <1>2, <1>3, <1>4, <1>6, Zenon

\* q is r with one leaf more, x, whose blocks r did not use.
LeafMore(blk, new, r, q, x) ==
  /\ r.depth # 0 /\ q.depth # 0
  /\ \E k \in Nat : /\ DOMAIN r.ents = 1 .. k /\ DOMAIN q.ents = 1 .. k + 1
                    /\ q.ents[k + 1].pb = x /\ \A n \in 1 .. k : q.ents[n] = r.ents[n]
  /\ \A y \in Leaves(r) : new[y] = blk[y]
  /\ Once(new[x].ents) /\ x \notin Blocks(new[x].ents)
  /\ x \notin Uses(blk, r) /\ Blocks(new[x].ents) \cap Uses(blk, r) = {}

\* place_in_rightmost_leaf gives the tree a new leaf with extents that left an old one.
LEMMA LeafAdded ==
  ASSUME NEW blk, NEW new, NEW r, NEW q, NEW x, LeafMore(blk, new, r, q, x), TreeOnce(blk, r)
  PROVE  /\ TreeOnce(new, q) /\ Leaves(q) = Leaves(r) \cup {x}
         /\ MappedIn(new, q) = MappedIn(blk, r) \cup Blocks(new[x].ents)
<1>0. PICK k \in Nat : /\ DOMAIN r.ents = 1 .. k /\ DOMAIN q.ents = 1 .. k + 1
                      /\ q.ents[k + 1].pb = x /\ \A n \in 1 .. k : q.ents[n] = r.ents[n]
  BY Zenon DEF LeafMore
<1>1. DOMAIN r.ents = 1 .. k BY <1>0, Zenon
<1>2. /\ DOMAIN q.ents = 1 .. k + 1
      /\ q.ents[k + 1].pb = x /\ \A n \in 1 .. k : q.ents[n] = r.ents[n]
  BY <1>0, Zenon
<1> USE DEF LeafMore
<1>3. \A b : b \in Leaves(q) <=> b \in Leaves(r) \/ b = x
  <2>1. Leaves(r) = {r.ents[n].pb : n \in 1 .. k} BY <1>1, Zenon DEF Leaves
  <2>2. Leaves(q) = {q.ents[n].pb : n \in 1 .. k + 1} BY <1>2, Zenon DEF Leaves
  <2>3. \A n \in 1 .. k + 1 : n \in 1 .. k \/ n = k + 1 BY <1>1
  <2>4. \A n \in 1 .. k : n \in 1 .. k + 1 BY <1>1
  <2>5. k + 1 \in 1 .. k + 1 BY <1>1
  <2> QED BY <1>2, <2>1, <2>2, <2>3, <2>4, <2>5
<1>4. x \notin Leaves(r) /\  \A y \in Leaves(r) : new[y] = blk[y] BY Zenon DEF Uses
<1>5. MappedIn(new, q) = MappedIn(blk, r) \cup Blocks(new[x].ents)
  <2>1. MappedIn(blk, r) = UNION {Blocks(blk[y].ents) : y \in Leaves(r)} BY Zenon DEF MappedIn
  <2>2. MappedIn(new, q) = UNION {Blocks(new[y].ents) : y \in Leaves(q)} BY Zenon DEF MappedIn
  <2>3. \A b : b \in MappedIn(new, q) <=> b \in MappedIn(blk, r) \/ b \in Blocks(new[x].ents)
    BY <1>3, <1>4, <2>1, <2>2
  <2> QED BY <2>3, Zenon
<1>6. \A y \in Leaves(r) : Blocks(blk[y].ents) \subseteq Uses(blk, r) BY Zenon DEF Uses, MappedIn
<1>7. ASSUME NEW m \in DOMAIN q.ents, NEW n \in DOMAIN q.ents, q.ents[m].pb = q.ents[n].pb
      PROVE  m = n
  <2>1. \A m1 \in 1 .. k : q.ents[m1].pb # x
    <3>1. \A m1 \in 1 .. k : r.ents[m1].pb \in Leaves(r) BY <1>1, Zenon DEF Leaves
    <3> QED BY <1>2, <1>4, <3>1, Zenon
  <2>2. CASE m = k + 1 BY <1>1, <1>2, <1>7, <2>1, <2>2
  <2>3. CASE n = k + 1 BY <1>1, <1>2, <1>7, <2>1, <2>3
  <2>4. CASE m # k + 1 /\ n # k + 1
    <3>1. m \in DOMAIN r.ents /\ n \in DOMAIN r.ents BY <1>1, <1>2, <2>4
    <3>2. r.ents[m].pb = r.ents[n].pb BY <1>1, <1>2, <1>7, <3>1, Zenon
    <3> QED BY <3>1, <3>2, Zenon DEF TreeOnce
  <2> QED BY <2>2, <2>3, <2>4, Zenon
<1>8. ASSUME NEW y \in Leaves(q)
      PROVE  Once(new[y].ents) /\ Blocks(new[y].ents) \cap Leaves(q) = {}
  <2>1. CASE y = x BY <1>3, <1>4, <2>1, Zenon DEF Uses
  <2>2. CASE y # x
    <3>1. y \in Leaves(r) /\ new[y] = blk[y] BY <1>3, <1>4, <2>2, Zenon
    <3>2. Once(blk[y].ents) /\ Blocks(blk[y].ents) \cap Leaves(r) = {} BY <3>1, Zenon DEF TreeOnce
    <3> QED BY <1>3, <1>6, <3>1, <3>2, Zenon
  <2> QED BY <2>1, <2>2, Zenon
<1>9. ASSUME NEW y \in Leaves(q), NEW z \in Leaves(q), y # z
       PROVE  Blocks(new[y].ents) \cap Blocks(new[z].ents) = {}
  <2>1. CASE y = x BY <1>3, <1>4, <1>6, <1>9, <2>1, Zenon
  <2>2. CASE z = x BY <1>3, <1>4, <1>6, <1>9, <2>2, Zenon
  <2>3. CASE y # x /\ z # x BY <1>3, <1>4, <1>9, <2>3, Zenon DEF TreeOnce
  <2> QED BY <2>1, <2>2, <2>3, Zenon
<1>10. TreeOnce(new, q) BY <1>7, <1>8, <1>9, Zenon DEF TreeOnce
<1> QED BY <1>3, <1>5, <1>10, Zenon

-----------------------------------------------------------------------------
(* No block has two owners *)

\* Where the call is, or goes on to when its allocation is over.
Goal == IF InAlloc THEN op.after_alloc ELSE op.at

\* While create makes an inode, the inode in memory will be the new one; otherwise it is that
\* of the file or directory the call works on.
Creating == Goal \in {"new_inode", "new_dir", "init_inode"}
Owner == IF Creating THEN op.target ELSE op.ino

\* A block that neither the disk nor the inode in memory uses.
Fresh(b) == b \notin Uses(block, op.inode) /\ \A j \in InUse : b \notin Uses(block, itable[j])

DiskOnce ==
  /\ \A i \in InUse : TreeOnce(block, itable[i])
  /\ \A i, j \in InUse : i # j => Uses(block, itable[i]) \cap Uses(block, itable[j]) = {}

\* The tree in memory shares its blocks only with the inode it will be written to, and takes no
\* node of that one for data.
HeldOnce ==
  /\ TreeOnce(block, op.inode)
  /\ \A j \in InUse \ {Owner} : Uses(block, op.inode) \cap Uses(block, itable[j]) = {}
  /\ Creating => op.target \in Ino \ InUse /\ op.ino \in InUse /\ op.inode.depth = 0
  /\ \A j \in InUse : MappedIn(block, op.inode) \cap Leaves(itable[j]) = {}

\* The block being mapped and the one allocated for a node are new.
NewBlocks ==
  /\ Goal \in {"insert", "place", "deepen", "split", "split_new", "dir_block"} => Fresh(op.pb)
  /\ Goal \in {"deepen", "split", "split_new", "new_dir"} => Fresh(op.got)
  /\ Goal \in {"deepen", "split", "split_new"} => op.got # op.pb
  /\ Goal = "deepen" => op.inode.depth = 0
  /\ Goal \in {"place", "split", "split_new"} => op.inode.depth # 0

\* The extents that a split has in memory are in no tree but the one on disk they came from.
MovedOnce ==
  op.at = "split_new" =>
    /\ Once(op.moved) /\ op.pb \notin Blocks(op.moved) /\ op.got \notin Blocks(op.moved)
    /\ Blocks(op.moved) \cap Uses(block, op.inode) = {}
    /\ \A j \in InUse : Blocks(op.moved) \cap Leaves(itable[j]) = {}
    /\ \A j \in InUse \ {op.ino} : Blocks(op.moved) \cap Uses(block, itable[j]) = {}

OpOnce == op.at # "idle" => HeldOnce /\ NewBlocks /\ MovedOnce

OwnInv == DiskOnce /\ OpOnce

\* A sound tree uses marked blocks.
LEMMA UsesMarked ==
  ASSUME DiskSound, NEW r, Sound(r)
  PROVE  Leaves(r) \subseteq Marked /\ Leaves(r) \subseteq DOMAIN block /\ Uses(block, r) \subseteq Marked
<1>1. \A l \in Lists : Blocks(l) \subseteq Marked
  <2> SUFFICES ASSUME NEW l \in Seq(Over(Marked)), NEW n \in DOMAIN l PROVE Run(l[n]) \subseteq Marked
    BY Zenon DEF Lists, Blocks
  <2>1. l[n] \in Over(Marked) OBVIOUS
  <2> QED BY <2>1, Zenon DEF Over, Run
<1>2. r.ents \in Seq(Over(Marked)) BY Zenon DEF Sound, Lists
<1>3. \A n \in DOMAIN r.ents : r.ents[n].pb \in Marked BY <1>2 DEF Over
<1>4. Leaves(r) \subseteq Marked BY <1>3, Zenon DEF Leaves
<1>5. Leaves(r) \subseteq Fsb BY <1>4, MarkedInt, Zenon
<1>6. \A x \in Leaves(r) : Blocks(block[x].ents) \subseteq Marked BY <1>1, <1>5, Zenon DEF DiskSound
<1>7. MappedIn(block, r) \subseteq Marked BY <1>1, <1>2, <1>6, Zenon DEF MappedIn, Lists
<1> QED BY <1>4, <1>5, <1>7, Zenon DEF Uses, DiskSound

\* The same of the inodes on disk and the one in memory.
LEMMA AllMarked ==
  ASSUME Inv
  PROVE  /\ Leaves(op.inode) \subseteq DOMAIN block /\ Uses(block, op.inode) \subseteq Marked
         /\ \A j \in Ino : Leaves(itable[j]) \subseteq DOMAIN block /\ Uses(block, itable[j]) \subseteq Marked
<1>1. \A j \in Ino : Sound(itable[j]) BY Zenon DEF Inv, DiskSound
<1>2. Sound(op.inode) BY Zenon DEF Inv, OpSound
<1>3. DiskSound BY Zenon DEF Inv
<1> QED BY <1>1, <1>2, <1>3, UsesMarked, Zenon

\* A call that ends leaves nothing to show of it.
LEMMA IdleOwn == ASSUME DiskOnce', op' = NoOp PROVE OwnInv'
<1>1. op'.at = "idle" BY Zenon DEF NoOp
<1> QED BY <1>1, Zenon DEF OwnInv, OpOnce

LEMMA ReturnOwn ==
  ASSUME OwnInv, op' = NoOp, UNCHANGED <<itable, block>>
  PROVE  OwnInv'
<1>1. DiskOnce' BY Zenon DEF OwnInv, DiskOnce, InUse
<1> QED BY <1>1, IdleOwn, Zenon

\* alloc_bit returns a block that no tree uses, because trees use marked blocks.
LEMMA AllocOwn ==
  ASSUME Least, Inv, OwnInv, op.at # "idle", NEW after \in AllocFor \ {"new_inode"}, AllocBlock(after),
         after = "new_dir" <=> Creating,
         after \in {"deepen", "split"} => Fresh(op.pb) /\ op.pb \in Marked,
         after = "deepen" => op.inode.depth = 0, after = "split" => op.inode.depth # 0
  PROVE  OwnInv'
<1>1. CASE FreeBlocks = {}
  BY <1>1, ReturnOwn, Zenon DEF AllocBlock, Abort, Return, disk
<1>2. CASE FreeBlocks # {}
  <2> DEFINE b == Min(FreeBlocks)
  <2>1. FreeBlocks \subseteq Nat BY Ext4Assumption DEF Ext4Assumption, FreeBlocks, Fsb
  <2>2. b \in FreeBlocks BY <1>2, <2>1, Zenon DEF Least
  <2>3. /\ op' = [op EXCEPT !.at = "group", !.after_alloc = after, !.got = b,
                            !.pb = IF after \in {"deepen", "split"} THEN @ ELSE b]
        /\ UNCHANGED <<itable, block>>
    BY <1>2, Zenon DEF AllocBlock
  <2> HIDE DEF b
  <2>4. b \notin Marked BY <2>2, Zenon DEF Marked, FreeBlocks
  <2>5. Fresh(b) BY <2>4, AllMarked, Zenon DEF Fresh, InUse
  <2>6. /\ op'.at = "group" /\ op'.after_alloc = after /\ op'.got = b
        /\ op'.pb = IF after \in {"deepen", "split"} THEN op.pb ELSE b
        /\ op'.inode = op.inode /\ op'.ino = op.ino /\ op'.target = op.target
    BY <2>3, OpFacts, Zenon DEF NoOp
  <2>7. InUse' = InUse /\ Goal' = after BY <2>3, <2>6, Zenon DEF InUse, Goal, InAlloc
  <2>8. after \notin {"new_inode", "init_inode"} BY Zenon DEF AllocFor
  <2>9. Creating' = Creating /\ Owner' = Owner BY <2>6, <2>7, <2>8 DEF Creating, Owner
  <2>10. HeldOnce BY Zenon DEF OwnInv, OpOnce
  <2>11. HeldOnce' BY <2>3, <2>6, <2>7, <2>9, <2>10 DEF HeldOnce
  <2>12. Fresh(op.got)' BY <2>3, <2>5, <2>6, <2>7, Zenon DEF Fresh
  <2>13. Fresh(op.pb)' BY <2>3, <2>5, <2>6, <2>7, Zenon DEF Fresh
  <2>14. NewBlocks' BY <2>4, <2>6, <2>7, <2>12, <2>13, Zenon DEF NewBlocks, AllocFor
  <2>15. MovedOnce' BY <2>6, Zenon DEF MovedOnce
  <2>16. DiskOnce' BY <2>3, <2>7, Zenon DEF OwnInv, DiskOnce
  <2> QED BY <2>11, <2>14, <2>15, <2>16, Zenon DEF OwnInv, OpOnce
<1> QED BY <1>1, <1>2, Zenon

\* The two later writes of an allocation touch no tree.
LEMMA CommitOwn ==
  ASSUME Inv, OwnInv, CommitGroup \/ persist_super_counts
  PROVE  OwnInv'
<1>1. UNCHANGED <<itable, block>> /\ InAlloc BY Zenon DEF CommitGroup, persist_super_counts, InAlloc
<1>2. op.after_alloc \in AllocFor BY <1>1, Zenon DEF Inv, OpSound
<1>3. PICK l \in {"super", op.after_alloc} : op' = [op EXCEPT !.at = l]
  BY Zenon DEF CommitGroup, persist_super_counts
<1>4. /\ op'.at = l /\ op'.after_alloc = op.after_alloc /\ op'.got = op.got /\ op'.pb = op.pb
      /\ op'.inode = op.inode /\ op'.ino = op.ino /\ op'.target = op.target
  BY <1>3, OpFacts, Zenon DEF NoOp
<1>5. InUse' = InUse /\ op.at # "idle" BY <1>1, Zenon DEF InUse, InAlloc
<1>6. Goal' = Goal /\ op'.at # "split_new" BY <1>1, <1>2, <1>3, <1>4, Zenon DEF Goal, InAlloc, AllocFor
<1>7. Creating' = Creating /\ Owner' = Owner BY <1>4, <1>6, Zenon DEF Creating, Owner
<1>8. HeldOnce /\ NewBlocks /\ DiskOnce BY <1>5, Zenon DEF OwnInv, OpOnce
<1>9. HeldOnce' BY <1>1, <1>4, <1>5, <1>7, <1>8, Zenon DEF HeldOnce
<1>10. (Fresh(op.pb)' <=> Fresh(op.pb)) /\ (Fresh(op.got)' <=> Fresh(op.got))
  BY <1>1, <1>4, <1>5, Zenon DEF Fresh
<1>11. NewBlocks' BY <1>4, <1>6, <1>8, <1>10, Zenon DEF NewBlocks
<1>12. DiskOnce' BY <1>1, <1>5, <1>8, Zenon DEF DiskOnce
<1> QED BY <1>6, <1>9, <1>11, <1>12, Zenon DEF OwnInv, OpOnce, MovedOnce

\* A block that is no node of any tree is written.
LEMMA OutsideWrite ==
  ASSUME Inv, DiskOnce, NEW b, NEW c, WriteBlock(b, c), b \notin Leaves(op.inode),
         \A j \in InUse : b \notin Leaves(itable[j])
  PROVE  /\ DiskOnce' /\ InUse' = InUse /\ itable' = itable
         /\ \A j \in InUse : Uses(block', itable[j]) = Uses(block, itable[j])
         /\ Uses(block', op.inode) = Uses(block, op.inode)
         /\ MappedIn(block', op.inode) = MappedIn(block, op.inode)
         /\ TreeOnce(block, op.inode) => TreeOnce(block', op.inode)
<1>1. block' = [block EXCEPT ![b] = c] /\ itable' = itable BY Zenon DEF WriteBlock
<1>2. InUse' = InUse BY <1>1, Zenon DEF InUse
<1>3. /\ Uses(block', op.inode) = Uses(block, op.inode)
      /\ MappedIn(block', op.inode) = MappedIn(block, op.inode)
      /\ TreeOnce(block, op.inode) => TreeOnce(block', op.inode)
  <2>1. \A y \in Leaves(op.inode) : block'[y] = block[y] BY <1>1, AllMarked, Zenon
  <2> QED BY <2>1, SameTree, Zenon
<1>4. \A j \in InUse : /\ Uses(block', itable[j]) = Uses(block, itable[j])
                       /\ TreeOnce(block, itable[j]) => TreeOnce(block', itable[j])
  <2> TAKE j \in InUse
  <2>1. \A y \in Leaves(itable[j]) : block'[y] = block[y] BY <1>1, AllMarked, Zenon DEF InUse
  <2> QED BY <2>1, SameTree, Zenon
<1>5. DiskOnce' BY <1>1, <1>2, <1>4, Zenon DEF DiskOnce
<1> QED BY <1>1, <1>2, <1>3, <1>4, <1>5, Zenon

\* Then a call that goes on with its inode still has it to itself.
LEMMA OutsideHeld ==
  ASSUME Inv, OwnInv, op.at # "idle", NEW b, NEW c, WriteBlock(b, c), b \notin Leaves(op.inode),
         \A j \in InUse : b \notin Leaves(itable[j]),
         op'.inode = op.inode, op'.ino = op.ino, op'.target = op.target, Creating' = Creating
  PROVE  DiskOnce' /\ HeldOnce' /\ \A x : Fresh(x) => Fresh(x)'
<1>1. DiskOnce /\ HeldOnce BY Zenon DEF OwnInv, OpOnce
<1>2. /\ DiskOnce' /\ InUse' = InUse /\ itable' = itable
      /\ \A j \in InUse : Uses(block', itable[j]) = Uses(block, itable[j])
      /\ Uses(block', op.inode) = Uses(block, op.inode)
      /\ MappedIn(block', op.inode) = MappedIn(block, op.inode)
      /\ TreeOnce(block, op.inode) => TreeOnce(block', op.inode)
  BY <1>1, OutsideWrite, Zenon
<1>3. Owner' = Owner BY Zenon DEF Owner
<1>4. HeldOnce' BY <1>1, <1>2, <1>3, Zenon DEF HeldOnce
<1>5. \A x : Fresh(x) => Fresh(x)' BY <1>2, Zenon DEF Fresh
<1> QED BY <1>2, <1>4, <1>5, Zenon

\* A node of the tree in memory is rewritten: the tree on disk may have it too, and no other has.
LEMMA NodeWrite ==
  ASSUME Inv, OwnInv, op.at # "idle", ~Creating, NEW x \in Leaves(op.inode), NEW c, WriteBlock(x, c),
         NEW P, Once(c.ents), Blocks(c.ents) \subseteq Blocks(block[x].ents) \cup P,
         \A p \in P : Fresh(p)
  PROVE  /\ DiskOnce' /\ InUse' = InUse /\ itable' = itable
         /\ TreeOnce(block', op.inode)
         /\ Uses(block', op.inode) \subseteq Uses(block, op.inode) \cup P
         /\ MappedIn(block', op.inode) \subseteq MappedIn(block, op.inode) \cup P
         /\ \A j \in InUse \ {op.ino} : Uses(block', itable[j]) = Uses(block, itable[j])
         /\ \A j \in InUse : Uses(block', itable[j]) \subseteq Uses(block, itable[j]) \cup P
<1>1. block' = [block EXCEPT ![x] = c] /\ itable' = itable BY Zenon DEF WriteBlock
<1>2. InUse' = InUse BY <1>1, Zenon DEF InUse
<1>3. block'[x] = c BY <1>1, AllMarked, Zenon
<1>4. DiskOnce /\ HeldOnce BY Zenon DEF OwnInv, OpOnce
<1>5. Owner = op.ino /\ x \in Uses(block, op.inode) BY Zenon DEF Owner, Uses
<1>6. P \cap Uses(block, op.inode) = {} BY Zenon DEF Fresh
<1>7. TreeOnce(block, op.inode) BY <1>4, Zenon DEF HeldOnce
<1>8. /\ TreeOnce(block', op.inode)
      /\ Uses(block', op.inode) \subseteq Uses(block, op.inode) \cup P
      /\ MappedIn(block', op.inode) \subseteq MappedIn(block, op.inode) \cup P
  <2>1. \A y \in Leaves(op.inode) : y # x => block'[y] = block[y] BY <1>1, AllMarked, Zenon
  <2> QED BY <1>3, <1>6, <1>7, <2>1, NodeRewritten, Zenon
<1>9. \A j \in InUse : /\ \A y \in Leaves(itable[j]) : y # x => block'[y] = block[y]
                       /\ TreeOnce(block, itable[j])
                       /\ P \cap Uses(block, itable[j]) = {}
  BY <1>1, <1>4, AllMarked, Zenon DEF InUse, DiskOnce, Fresh
<1>10. ASSUME NEW j \in InUse \ {op.ino}
      PROVE  Uses(block', itable[j]) = Uses(block, itable[j])
  <2>1. x \notin Leaves(itable[j]) BY <1>4, <1>5, Zenon DEF HeldOnce, Uses
  <2>2. \A y \in Leaves(itable[j]) : block'[y] = block[y] BY <1>9, <2>1, Zenon
  <2> QED BY <2>2, SameTree, Zenon
<1>11. \A j \in InUse : /\ TreeOnce(block', itable[j])
                        /\ Uses(block', itable[j]) \subseteq Uses(block, itable[j]) \cup P
  <2> TAKE j \in InUse
  <2>1. PICK r : r = itable[j] BY Zenon
  <2>2. /\ \A y \in Leaves(r) : y # x => block'[y] = block[y]
        /\ TreeOnce(block, r) /\ P \cap Uses(block, r) = {}
    BY <1>9, <2>1, Zenon
  <2>3. TreeOnce(block', r) /\ Uses(block', r) \subseteq Uses(block, r) \cup P
    BY <1>3, <2>2, NodeRewritten
  <2> QED BY <2>1, <2>3, Zenon
<1>12. ASSUME NEW i \in InUse, NEW j \in InUse, i # j
       PROVE  Uses(block', itable[i]) \cap Uses(block', itable[j]) = {}
  <2>1. Uses(block, itable[i]) \cap Uses(block, itable[j]) = {} BY <1>4, <1>12, Zenon DEF DiskOnce
  <2>2. CASE i = op.ino BY <1>9, <1>10, <1>11, <1>12, <2>1, <2>2, Zenon
  <2>3. CASE i # op.ino BY <1>9, <1>10, <1>11, <1>12, <2>1, <2>3, Zenon
  <2> QED BY <2>2, <2>3, Zenon
<1>13. DiskOnce' BY <1>1, <1>2, <1>11, <1>12, Zenon DEF DiskOnce
<1> QED BY <1>1, <1>2, <1>8, <1>10, <1>11, <1>13, Zenon

\* map_block gives a block that the tree maps.
LEMMA MapsInside ==
  ASSUME Least, DiskSound, NEW r, Sound(r), NEW lb \in Int
  PROVE  map_block(r, lb) \subseteq MappedIn(block, r)
<1>1. ASSUME NEW l \in Lists PROVE InExtents(l, lb) \subseteq Blocks(l)
  <2>1. l \in Seq(Over(Marked)) BY Zenon DEF Lists
  <2> DEFINE hits == {i \in DOMAIN l : l[i].lb <= lb /\ lb < l[i].lb + l[i].len}
             n == Min(hits)
  <2>2. CASE hits = {} BY <2>2, Zenon DEF InExtents
  <2>3. CASE hits # {}
    <3>1. hits \in SUBSET Nat BY <2>1
    <3>2. n \in hits BY <2>3, <3>1, Zenon DEF Least
    <3>3. InExtents(l, lb) = {l[n].pb + lb - l[n].lb} BY <2>3, Zenon DEF InExtents
    <3>4. n \in DOMAIN l /\ l[n].lb <= lb /\ lb < l[n].lb + l[n].len BY <3>2, Zenon
    <3> HIDE DEF hits, n
    <3>5. l[n] \in Over(Marked) BY <2>1, <3>4
    <3>6. l[n].lb \in Int /\ l[n].len \in Nat /\ l[n].pb \in Int BY <3>5, MarkedInt, Zenon DEF Over
    <3>7. lb - l[n].lb \in 0 .. l[n].len - 1 BY <3>4, <3>6
    <3>8. l[n].pb + lb - l[n].lb = l[n].pb + (lb - l[n].lb) BY <3>6, Zenon
    <3>9. l[n].pb + lb - l[n].lb \in Run(l[n]) BY <3>7, <3>8, Zenon DEF Run
    <3> QED BY <3>3, <3>4, <3>9, Zenon DEF Blocks
  <2> QED BY <2>2, <2>3, Zenon
<1>2. CASE r.depth = 0 BY <1>1, <1>2, Zenon DEF map_block, MappedIn, Sound
<1>3. CASE r.depth # 0
  <2>1. r.ents \in Seq(Over(Marked)) BY Zenon DEF Sound, Lists
  <2>2. LeafFor(r.ents, lb) \subseteq Leaves(r)
    <3> DEFINE covers == {i \in DOMAIN r.ents : /\ r.ents[i].lb <= lb
                                                /\ i < Len(r.ents) => lb < r.ents[i + 1].lb}
    <3>1. CASE covers = {} BY <3>1, Zenon DEF LeafFor
    <3>2. CASE covers # {}
      <4>1. covers \in SUBSET Nat BY <2>1
      <4>2. Min(covers) \in covers BY <3>2, <4>1, Zenon DEF Least
      <4>3. LeafFor(r.ents, lb) = {r.ents[Min(covers)].pb} BY <3>2, Zenon DEF LeafFor
      <4>4. Min(covers) \in DOMAIN r.ents BY <4>2, Zenon
      <4> HIDE DEF covers
      <4> QED BY <1>3, <4>3, <4>4, Zenon DEF Leaves
    <3> QED BY <3>1, <3>2, Zenon
  <2>3. \A x \in Leaves(r) : block[x].ents \in Lists BY UsesMarked, Zenon DEF DiskSound
  <2>4. \A x \in Leaves(r) : InExtents(block[x].ents, lb) \subseteq Blocks(block[x].ents) BY <1>1, <2>3, Zenon
  <2> QED BY <1>3, <2>2, <2>4, Zenon DEF map_block, MappedIn
<1> QED BY <1>2, <1>3, Zenon

\* A block that the tree in memory maps is a node of no tree.
LEMMA MappedIsNoNode ==
  ASSUME Least, Inv, OwnInv, op.at # "idle", ~Creating, NEW lb \in Int, NEW b \in map_block(op.inode, lb)
  PROVE  b \notin Leaves(op.inode) /\ \A j \in InUse : b \notin Leaves(itable[j])
<1>1. b \in MappedIn(block, op.inode) BY MapsInside, Zenon DEF Inv, OpSound
<1>2. b \in Uses(block, op.inode) BY <1>1, Zenon DEF Uses
<1>3. HeldOnce /\ Owner = op.ino BY Zenon DEF OwnInv, OpOnce, Owner
<1>4. \A j \in InUse : b \notin Leaves(itable[j]) BY <1>1, <1>3, Zenon DEF HeldOnce
<1>5. b \notin Leaves(op.inode)
  <2>1. TreeOnce(block, op.inode) BY <1>3, Zenon DEF HeldOnce
  <2>2. CASE op.inode.depth = 0 BY <2>2, Zenon DEF Leaves
  <2>3. CASE op.inode.depth # 0 BY <1>1, <2>1, <2>3, Zenon DEF TreeOnce, MappedIn
  <2> QED BY <2>2, <2>3, Zenon
<1> QED BY <1>4, <1>5, Zenon
-----------------------------------------------------------------------------
LEMMA InsertRootOwn ==
  ASSUME Least, Inv, OwnInv, InsertRoot
  PROVE  OwnInv'
<1>1. op.at = "insert" /\ op.inode.depth = 0 /\ op.pb \in Marked BY Zenon DEF InsertRoot, Inv, OpSound, Holding
<1>2. Goal = "insert" /\ ~Creating /\ Owner = op.ino BY <1>1, Zenon DEF Goal, InAlloc, Creating, Owner
<1>3. DiskOnce /\ HeldOnce /\ Fresh(op.pb) BY <1>1, <1>2, Zenon DEF OwnInv, OpOnce, NewBlocks
<1>4. CASE Fits(op.inode.ents, RootMax, op.lb, op.pb)
  <2> DEFINE l == Extended(op.inode.ents, op.lb, op.pb)
  <2>1. TreeOnce(block, op.inode) BY <1>3, Zenon DEF HeldOnce
  <2>2. Once(op.inode.ents) /\ Uses(block, op.inode) = Blocks(op.inode.ents)
    BY <1>1, <2>1, Zenon DEF TreeOnce, Uses, MappedIn, Leaves
  <2>3. Once(l) /\ Blocks(l) \subseteq Blocks(op.inode.ents) \cup {op.pb}
    BY <1>1, <1>3, <2>2, MarkedInt, ExtendedOnce DEF Inv, OpSound, Sound, Lists, Fresh
  <2>4. op' = [op EXCEPT !.at = op.after_insert, !.inode.ents = l] /\ UNCHANGED disk
    BY <1>4, Zenon DEF InsertRoot
  <2> HIDE DEF l
  <2>5. /\ op'.at = op.after_insert /\ op'.inode = [op.inode EXCEPT !.ents = l]
        /\ op'.ino = op.ino /\ op'.target = op.target
    BY <2>4, OpFacts, Zenon DEF NoOp
  <2>6. op'.inode.ents = l /\ op'.inode.depth = 0 BY <1>1, <2>5, OpFacts, Zenon DEF Sound
  <2>7. op'.at \in {"none", "mapped", "dir_inode"} BY <2>5, OpFacts, Zenon
  <2>8. /\ Goal' = op'.at /\ ~Creating' /\ Owner' = op.ino /\ InUse' = InUse
        /\ itable' = itable /\ block' = block
    BY <2>4, <2>5, <2>7, Zenon DEF Goal, InAlloc, Creating, Owner, InUse, disk
  <2>9. /\ TreeOnce(block', op'.inode) /\ Leaves(op'.inode) = {}
        /\ MappedIn(block', op'.inode) = Blocks(l) /\ Uses(block', op'.inode) = Blocks(l)
    BY <2>3, <2>6, Zenon DEF TreeOnce, Leaves, MappedIn, Uses
  <2>10. HeldOnce'
    <3>1. \A j \in InUse \ {op.ino} : Blocks(l) \cap Uses(block, itable[j]) = {}
      BY <1>2, <1>3, <2>2, <2>3, Zenon DEF HeldOnce, Fresh
    <3>2. \A j \in InUse : Blocks(l) \cap Leaves(itable[j]) = {}
      <4>1. Blocks(op.inode.ents) = MappedIn(block, op.inode) BY <1>1, Zenon DEF MappedIn
      <4>2. \A j \in InUse : op.pb \notin Leaves(itable[j]) BY <1>3, Zenon DEF Fresh, Uses
      <4> QED BY <1>3, <2>3, <4>1, <4>2, Zenon DEF HeldOnce
    <3> QED BY <2>5, <2>8, <2>9, <3>1, <3>2, Zenon DEF HeldOnce
  <2>11. NewBlocks' /\ MovedOnce' BY <2>7, <2>8, Zenon DEF NewBlocks, MovedOnce
  <2>12. DiskOnce' BY <1>3, <2>8, Zenon DEF DiskOnce
  <2> QED BY <2>10, <2>11, <2>12, Zenon DEF OwnInv, OpOnce
<1>5. CASE ~Fits(op.inode.ents, RootMax, op.lb, op.pb)
  <2>1. AllocBlock("deepen") BY <1>5, Zenon DEF InsertRoot
  <2>2. "deepen" \in AllocFor \ {"new_inode"} /\ op.at # "idle" BY <1>1, Zenon DEF AllocFor
  <2> QED BY <1>1, <1>2, <1>3, <2>1, <2>2, AllocOwn, Zenon
<1> QED BY <1>4, <1>5, Zenon

LEMMA DeepenOwn ==
  ASSUME Inv, OwnInv, Deepen
  PROVE  OwnInv'
<1>1. /\ op.at = "deepen" /\ op.got \in Marked
      /\ WriteBlock(op.got, Leaf(op.inode.ents))
      /\ op' = [op EXCEPT !.at = "place", !.inode.depth = 1, !.inode.ents = <<IndexTo(0, op.got)>>]
  BY Zenon DEF Deepen, Inv, OpSound, Holding
<1>2. Goal = "deepen" /\ ~Creating /\ Owner = op.ino BY <1>1, Zenon DEF Goal, InAlloc, Creating, Owner
<1>3. /\ DiskOnce /\ HeldOnce /\ Fresh(op.pb) /\ Fresh(op.got) /\ op.got # op.pb
      /\ op.inode.depth = 0
  BY <1>1, <1>2, Zenon DEF OwnInv, OpOnce, NewBlocks
<1>4. op.got \notin Leaves(op.inode) /\ \A j \in InUse : op.got \notin Leaves(itable[j])
  BY <1>3, Zenon DEF Fresh, Uses
<1>5. /\ DiskOnce' /\ InUse' = InUse /\ itable' = itable
      /\ \A j \in InUse : Uses(block', itable[j]) = Uses(block, itable[j])
  BY <1>1, <1>3, <1>4, OutsideWrite, Zenon
<1> DEFINE e == IndexTo(0, op.got)
<1>6. /\ op'.at = "place" /\ op'.inode = [[op.inode EXCEPT !.depth = 1] EXCEPT !.ents = <<e>>]
      /\ op'.ino = op.ino /\ op'.target = op.target /\ op'.pb = op.pb
  BY <1>1, OpFacts, Zenon DEF NoOp
<1>7. op'.inode.depth = 1 /\ op'.inode.ents = <<e>> BY <1>6, OpFacts, Zenon DEF Sound
<1>8. e.pb = op.got BY Zenon DEF IndexTo, Extent
<1> HIDE DEF e
<1>9. block'[op.got].ents = op.inode.ents
  BY <1>1, MarkedInt, Zenon DEF WriteBlock, Leaf, Content, Inv, DiskSound
<1>10. TreeOnce(block, op.inode) /\ op.got \notin Uses(block, op.inode) BY <1>3, Zenon DEF HeldOnce, Fresh
<1>11. /\ TreeOnce(block', op'.inode) /\ Leaves(op'.inode) = {op.got}
       /\ MappedIn(block', op'.inode) = MappedIn(block, op.inode)
  BY <1>3, <1>7, <1>8, <1>9, <1>10, Deepened
<1>12. Uses(block', op'.inode) \subseteq Uses(block, op.inode) \cup {op.got} BY <1>11, Zenon DEF Uses
<1>13. Goal' = "place" /\ ~Creating' /\ Owner' = op.ino
  BY <1>6, Zenon DEF Goal, InAlloc, Creating, Owner
<1>14. HeldOnce'
  <2>1. \A j \in InUse \ {op.ino} : Uses(block', op'.inode) \cap Uses(block', itable[j]) = {}
    BY <1>2, <1>3, <1>5, <1>12, Zenon DEF HeldOnce, Fresh
  <2>2. \A j \in InUse : MappedIn(block', op'.inode) \cap Leaves(itable[j]) = {}
    BY <1>3, <1>11, Zenon DEF HeldOnce
  <2> QED BY <1>5, <1>6, <1>11, <1>13, <2>1, <2>2, Zenon DEF HeldOnce
<1>15. Fresh(op.pb)' BY <1>3, <1>5, <1>6, <1>12, Zenon DEF Fresh
<1>16. NewBlocks' /\ MovedOnce' BY <1>6, <1>7, <1>13, <1>15 DEF NewBlocks, MovedOnce
<1> QED BY <1>5, <1>14, <1>16, Zenon DEF OwnInv, OpOnce

\* The rightmost leaf is a node of the tree in memory, and its extents are a list.
LEMMA RightmostNode ==
  ASSUME Inv, op.inode.ents # <<>>, op.inode.depth # 0
  PROVE  Rightmost \in Leaves(op.inode) /\ Rightmost \in DOMAIN block /\ block[Rightmost].ents \in Lists
<1>1. op.inode.ents \in Seq(Over(Marked)) BY Zenon DEF Inv, OpSound, Sound, Lists
<1>2. Len(op.inode.ents) \in DOMAIN op.inode.ents BY <1>1
<1>3. Rightmost \in Leaves(op.inode) BY <1>2, Zenon DEF Rightmost, Last, Leaves
<1> QED BY <1>3, RightmostMarked, Zenon DEF Inv, DiskSound

LEMMA PlaceOwn ==
  ASSUME Least, Inv, OwnInv, Place
  PROVE  OwnInv'
<1>1. op.at \in {"place", "insert"} /\ op.at # "idle" BY Zenon DEF Place
<1>2. Goal = op.at /\ ~Creating /\ Owner = op.ino BY <1>1, Zenon DEF Goal, InAlloc, Creating, Owner
<1>3. DiskOnce /\ HeldOnce /\ Fresh(op.pb) BY <1>1, <1>2, Zenon DEF OwnInv, OpOnce, NewBlocks
<1>4. op.inode.ents # <<>> /\ op.inode.depth # 0
  BY <1>1, <1>2 DEF Place, OwnInv, OpOnce, NewBlocks, Inv, OpSound, Sound
<1>5. op.pb \in Marked BY <1>1, Zenon DEF Inv, OpSound, Holding
<1> DEFINE ents == block[Rightmost].ents
<1>6. Rightmost \in Leaves(op.inode) /\ Rightmost \in DOMAIN block /\ ents \in Lists
  BY <1>4, RightmostNode, Zenon
<1>7. CASE op.tries # 2 /\ Fits(ents, LeafMax, op.lb, op.pb)
  <2> DEFINE l == Extended(ents, op.lb, op.pb)
             d == op.dirty \/ (op.after_insert = "dir_inode"
                                 /\ Rightmost \in Leaves(itable[op.ino]))
  <2>1. WriteBlock(Rightmost, Leaf(l)) BY <1>7, Zenon DEF Place
  <2>2. op' = [op EXCEPT !.at = op.after_insert, !.tries = 0, !.dirty = d] BY <1>7, Zenon DEF Place
  <2>3. Once(ents) /\ Blocks(ents) \subseteq Uses(block, op.inode)
    BY <1>3, <1>4, <1>6, Zenon DEF HeldOnce, TreeOnce, Uses, MappedIn
  <2>4. Once(l) /\ Blocks(l) \subseteq Blocks(ents) \cup {op.pb}
    BY <1>3, <1>5, <1>6, <2>3, MarkedInt, ExtendedOnce DEF Inv, OpSound, Lists, Fresh
  <2>5. Leaf(l).ents = l BY Zenon DEF Leaf, Content
  <2> HIDE DEF l, d
  <2>6. /\ DiskOnce' /\ InUse' = InUse /\ itable' = itable /\ TreeOnce(block', op.inode)
        /\ Uses(block', op.inode) \subseteq Uses(block, op.inode) \cup {op.pb}
        /\ MappedIn(block', op.inode) \subseteq MappedIn(block, op.inode) \cup {op.pb}
        /\ \A j \in InUse \ {op.ino} : Uses(block', itable[j]) = Uses(block, itable[j])
    <3>1. PICK x : x = Rightmost BY Zenon
    <3>2. PICK c : c = Leaf(l) BY Zenon
    <3>3. PICK P : P = {op.pb} BY Zenon
    <3>4. x \in Leaves(op.inode) /\ WriteBlock(x, c) BY <1>6, <2>1, <3>1, <3>2, Zenon
    <3>5. Once(c.ents) /\ Blocks(c.ents) \subseteq Blocks(block[x].ents) \cup P
      BY <2>4, <2>5, <3>1, <3>2, <3>3, Zenon
    <3>6. \A p \in P : Fresh(p) BY <1>3, <3>3, Zenon
    <3> QED BY <1>1, <1>2, <3>3, <3>4, <3>5, <3>6, NodeWrite, Zenon
  <2>7. op'.at = op.after_insert /\ op'.inode = op.inode /\ op'.ino = op.ino
    BY <2>2, OpFacts, Zenon DEF NoOp
  <2>8. op'.at \in {"none", "mapped", "dir_inode"} BY <2>7, OpFacts, Zenon
  <2>9. Goal' = op'.at /\ ~Creating' /\ Owner' = op.ino
    BY <2>7, <2>8, Zenon DEF Goal, InAlloc, Creating, Owner
  <2>10. HeldOnce'
    <3>1. \A j \in InUse \ {op.ino} : Uses(block', op.inode) \cap Uses(block', itable[j]) = {}
      BY <1>2, <1>3, <2>6, Zenon DEF HeldOnce, Fresh
    <3>2. \A j \in InUse : MappedIn(block', op.inode) \cap Leaves(itable[j]) = {}
      BY <1>3, <2>6 DEF HeldOnce, Fresh, Uses
    <3> QED BY <2>6, <2>7, <2>9, <3>1, <3>2, Zenon DEF HeldOnce
  <2>11. NewBlocks' /\ MovedOnce' BY <2>8, <2>9, Zenon DEF NewBlocks, MovedOnce
  <2> QED BY <2>6, <2>10, <2>11, Zenon DEF OwnInv, OpOnce
<1>8. CASE ~(op.tries # 2 /\ Fits(ents, LeafMax, op.lb, op.pb)) /\ (op.tries = 2 \/ Half(ents) = 0)
  <2>1. Abort BY <1>8, Zenon DEF Place
  <2> QED BY <2>1, ReturnOwn, Zenon DEF Abort, Return, disk
<1>9. CASE ~(op.tries # 2 /\ Fits(ents, LeafMax, op.lb, op.pb)) /\ ~(op.tries = 2 \/ Half(ents) = 0)
  <2>1. AllocBlock("split") BY <1>9, Zenon DEF Place
  <2>2. "split" \in AllocFor \ {"new_inode"} BY Zenon DEF AllocFor
  <2> QED BY <1>1, <1>2, <1>3, <1>4, <1>5, <2>1, <2>2, AllocOwn, Zenon
<1> QED BY <1>7, <1>8, <1>9, Zenon

LEMMA SplitCutOwn ==
  ASSUME Inv, OwnInv, SplitCut
  PROVE  OwnInv'
<1>1. op.at = "split" BY Zenon DEF SplitCut
<1>2. Goal = "split" /\ ~Creating /\ Owner = op.ino BY <1>1, Zenon DEF Goal, InAlloc, Creating, Owner
<1>3. /\ DiskOnce /\ HeldOnce /\ Fresh(op.pb) /\ Fresh(op.got) /\ op.got # op.pb
      /\ op.inode.depth # 0
  BY <1>1, <1>2, Zenon DEF OwnInv, OpOnce, NewBlocks
<1>4. op.inode.ents # <<>> BY <1>1, Zenon DEF Inv, OpSound, Splitting
<1> DEFINE ents == block[Rightmost].ents
           d == op.dirty \/ Rightmost \in Leaves(itable[op.ino])
<1>5. Rightmost \in Leaves(op.inode) /\ Rightmost \in DOMAIN block /\ ents \in Lists
  BY <1>3, <1>4, RightmostNode, Zenon
<1>6. WriteBlock(Rightmost, Leaf(Kept(ents))) BY Zenon DEF SplitCut
<1>7. op' = [op EXCEPT !.at = "split_new", !.moved = Moved(ents), !.dirty = d] BY Zenon DEF SplitCut
<1>8. Once(ents) BY <1>3, <1>5, Zenon DEF HeldOnce, TreeOnce
<1>9. /\ Once(Kept(ents)) /\ Once(Moved(ents))
      /\ Blocks(Kept(ents)) \subseteq Blocks(ents) /\ Blocks(Moved(ents)) \subseteq Blocks(ents)
      /\ Blocks(Kept(ents)) \cap Blocks(Moved(ents)) = {}
  BY <1>5, <1>8, HalvesOnce, Zenon DEF Lists
<1>10. Leaf(Kept(ents)).ents = Kept(ents) BY Zenon DEF Leaf, Content
<1>11. /\ DiskOnce' /\ InUse' = InUse /\ itable' = itable /\ TreeOnce(block', op.inode)
       /\ Uses(block', op.inode) \subseteq Uses(block, op.inode)
       /\ MappedIn(block', op.inode) \subseteq MappedIn(block, op.inode)
       /\ \A j \in InUse \ {op.ino} : Uses(block', itable[j]) = Uses(block, itable[j])
       /\ \A j \in InUse : Uses(block', itable[j]) \subseteq Uses(block, itable[j])
  <2>1. PICK P : P = {} BY Zenon
  <2>2. PICK x : x = Rightmost BY Zenon
  <2>3. PICK c : c = Leaf(Kept(ents)) BY Zenon
  <2>4. x \in Leaves(op.inode) /\ WriteBlock(x, c) BY <1>5, <1>6, <2>2, <2>3, Zenon
  <2>5. Once(c.ents) /\ Blocks(c.ents) \subseteq Blocks(block[x].ents) \cup P
    BY <1>9, <1>10, <2>2, <2>3, Zenon
  <2>6. \A p \in P : Fresh(p) BY <2>1, Zenon
  <2> QED BY <1>1, <1>2, <2>1, <2>4, <2>5, <2>6, NodeWrite, Zenon
<1> HIDE DEF d
<1>12. /\ op'.at = "split_new" /\ op'.moved = Moved(ents) /\ op'.inode = op.inode
       /\ op'.ino = op.ino /\ op'.pb = op.pb /\ op'.got = op.got
  BY <1>7, OpFacts, Zenon DEF NoOp
<1>13. Goal' = "split_new" /\ ~Creating' /\ Owner' = op.ino
  BY <1>12, Zenon DEF Goal, InAlloc, Creating, Owner
<1>14. HeldOnce' BY <1>2, <1>3, <1>11, <1>12, <1>13, Zenon DEF HeldOnce
<1>15. Fresh(op.pb)' /\ Fresh(op.got)' BY <1>3, <1>11, <1>12, Zenon DEF Fresh
<1>16. NewBlocks' BY <1>3, <1>12, <1>13, <1>15, Zenon DEF NewBlocks
<1>17. MovedOnce'
  <2>1. Blocks(ents) \subseteq MappedIn(block, op.inode) BY <1>3, <1>5, Zenon DEF MappedIn
  <2>2. Blocks(ents) \subseteq Uses(block, op.inode) BY <2>1, Zenon DEF Uses
  <2>3. op.pb \notin Blocks(Moved(ents)) /\ op.got \notin Blocks(Moved(ents))
    BY <1>3, <1>9, <2>2, Zenon DEF Fresh
  <2>4. \A j \in InUse : Blocks(Moved(ents)) \cap Leaves(itable[j]) = {}
    BY <1>3, <1>9, <2>1, Zenon DEF HeldOnce
  <2>5. \A j \in InUse \ {op.ino} : Blocks(Moved(ents)) \cap Uses(block', itable[j]) = {}
    BY <1>2, <1>3, <1>9, <1>11, <2>2, Zenon DEF HeldOnce
  <2>6. Blocks(Moved(ents)) \cap Uses(block', op.inode) = {}
    <3>1. \A y \in Leaves(op.inode) : y # Rightmost => block'[y] = block[y]
      BY <1>6, AllMarked, Zenon DEF WriteBlock
    <3>2. block'[Rightmost].ents = Kept(ents) BY <1>5, <1>6, <1>10, Zenon DEF WriteBlock
    <3>3. TreeOnce(block, op.inode) BY <1>3, Zenon DEF HeldOnce
    <3>4. Blocks(ents) \cap Leaves(op.inode) = {} BY <1>3, <1>5, <3>3, Zenon DEF TreeOnce
    <3>5. ASSUME NEW y \in Leaves(op.inode) PROVE Blocks(Moved(ents)) \cap Blocks(block'[y].ents) = {}
      <4>1. CASE y = Rightmost BY <1>9, <3>2, <4>1, Zenon
      <4>2. CASE y # Rightmost
        <5>1. Blocks(ents) \cap Blocks(block[y].ents) = {} BY <1>3, <1>5, <3>3, <4>2, Zenon DEF TreeOnce
        <5> QED BY <1>9, <3>1, <4>2, <5>1, Zenon
      <4> QED BY <4>1, <4>2, Zenon
    <3>6. MappedIn(block', op.inode) = UNION {Blocks(block'[y].ents) : y \in Leaves(op.inode)}
      BY <1>3, Zenon DEF MappedIn
    <3> QED BY <1>9, <3>4, <3>5, <3>6 DEF Uses
  <2> QED BY <1>9, <1>11, <1>12, <2>3, <2>4, <2>5, <2>6, Zenon DEF MovedOnce
<1> QED BY <1>11, <1>14, <1>16, <1>17, Zenon DEF OwnInv, OpOnce

LEMMA SplitNewOwn ==
  ASSUME Inv, OwnInv, SplitNew
  PROVE  OwnInv'
<1>1. /\ op.at = "split_new" /\ op.got \in Marked /\ op.moved \in Lists /\ op.moved # <<>>
      /\ WriteBlock(op.got, Leaf(op.moved))
  BY Zenon DEF SplitNew, Inv, OpSound, Holding
<1>2. Goal = "split_new" /\ ~Creating /\ Owner = op.ino BY <1>1, Zenon DEF Goal, InAlloc, Creating, Owner
<1>3. /\ DiskOnce /\ HeldOnce /\ Fresh(op.pb) /\ Fresh(op.got) /\ op.got # op.pb
      /\ op.inode.depth # 0
      /\ Once(op.moved) /\ op.pb \notin Blocks(op.moved) /\ op.got \notin Blocks(op.moved)
      /\ Blocks(op.moved) \cap Uses(block, op.inode) = {}
      /\ \A j \in InUse : Blocks(op.moved) \cap Leaves(itable[j]) = {}
      /\ \A j \in InUse \ {op.ino} : Blocks(op.moved) \cap Uses(block, itable[j]) = {}
  BY <1>1, <1>2, Zenon DEF OwnInv, OpOnce, NewBlocks, MovedOnce
<1>4. op.got \notin Leaves(op.inode) /\ \A j \in InUse : op.got \notin Leaves(itable[j])
  BY <1>3, Zenon DEF Fresh, Uses
<1>5. /\ DiskOnce' /\ InUse' = InUse /\ itable' = itable
      /\ \A j \in InUse : Uses(block', itable[j]) = Uses(block, itable[j])
  BY <1>1, <1>3, <1>4, OutsideWrite, Zenon
<1>6. CASE Len(op.inode.ents) >= RootMax
  <2>1. op' = NoOp BY <1>6, Zenon DEF SplitNew, Return
  <2> QED BY <1>5, <2>1, IdleOwn, Zenon
<1>7. CASE ~(Len(op.inode.ents) >= RootMax)
  <2> DEFINE e == IndexTo(Head(op.moved).lb, op.got)
             l == Append(op.inode.ents, e)
             c == Leaf(op.moved)
  <2>1. op' = [op EXCEPT !.at = "place", !.tries = @ + 1, !.moved = <<>>, !.inode.ents = l]
    BY <1>7, Zenon DEF SplitNew
  <2>2. Head(op.moved).lb \in Int BY <1>1 DEF Lists, Over
  <2>3. e \in Over(Marked) BY <1>1, <2>2, MarkedInt, OneEntry, Zenon DEF IndexTo, Inv
  <2>4. e.pb = op.got /\ c.ents = op.moved BY Zenon DEF IndexTo, Extent, Leaf, Content
  <2>5. op.inode.ents \in Seq(Over(Marked)) BY OpFacts, Zenon DEF Sound, Lists
  <2>6. block'[op.got] = c BY <1>1, MarkedInt, Zenon DEF WriteBlock, Inv, DiskSound
  <2>7. \A y \in Leaves(op.inode) : block'[y] = block[y] BY <1>1, <1>4, AllMarked, Zenon DEF WriteBlock
  <2> HIDE DEF c, e
  <2>8. /\ op'.at = "place" /\ op'.inode = [op.inode EXCEPT !.ents = l]
        /\ op'.ino = op.ino /\ op'.pb = op.pb
    <3> HIDE DEF l
    <3> QED BY <2>1, OpFacts, Zenon DEF NoOp
  <2>9. op'.inode.ents = l /\ op'.inode.depth = op.inode.depth BY <2>8, OpFacts, Zenon DEF Sound
  <2>10. TreeOnce(block, op.inode) /\ op.got \notin Uses(block, op.inode)
    BY <1>3, Zenon DEF HeldOnce, Fresh
  <2>11. /\ TreeOnce(block', op'.inode) /\ Leaves(op'.inode) = Leaves(op.inode) \cup {op.got}
         /\ MappedIn(block', op'.inode) = MappedIn(block, op.inode) \cup Blocks(op.moved)
    <3>1. PICK q : q = op'.inode BY Zenon
    <3>2. PICK r : r = op.inode BY Zenon
    <3>3. PICK new : new = block' BY Zenon
    <3>4. PICK x : x = op.got BY Zenon
    <3>5. PICK k \in Nat : k = Len(r.ents) BY <2>5, <3>2
    <3>6. /\ q.depth # 0 /\ r.depth # 0
          /\ DOMAIN r.ents = 1 .. k /\ DOMAIN q.ents = 1 .. k + 1 /\ q.ents[k + 1].pb = x
          /\ \A n \in 1 .. k : q.ents[n] = r.ents[n]
      <4>1. /\ DOMAIN l = 1 .. k + 1 /\ l[k + 1] = e
            /\ \A n \in 1 .. k : l[n] = op.inode.ents[n]
            /\ DOMAIN op.inode.ents = 1 .. k
        BY <2>3, <2>5, <3>2, <3>5
      <4> HIDE DEF l
      <4> QED BY <1>3, <2>4, <2>9, <3>1, <3>2, <3>4, <4>1, Zenon
    <3>7. /\ \A y \in Leaves(r) : new[y] = block[y]
          /\ TreeOnce(block, r) /\ x \notin Uses(block, r)
          /\ Once(new[x].ents) /\ x \notin Blocks(new[x].ents) /\ Blocks(new[x].ents) \cap Uses(block, r) = {}
      BY <1>3, <2>4, <2>6, <2>7, <2>10, <3>2, <3>3, <3>4, Zenon
    <3>8. /\ TreeOnce(new, q) /\ Leaves(q) = Leaves(r) \cup {x}
          /\ MappedIn(new, q) = MappedIn(block, r) \cup Blocks(new[x].ents)
      <4>1. LeafMore(block, new, r, q, x) BY <3>5, <3>6, <3>7, Zenon DEF LeafMore
      <4> QED BY <3>7, <4>1, LeafAdded
    <3> QED BY <2>4, <2>6, <3>1, <3>2, <3>3, <3>4, <3>8, Zenon
  <2>12. Uses(block', op'.inode) = Uses(block, op.inode) \cup Blocks(op.moved) \cup {op.got}
    BY <2>11, Zenon DEF Uses
  <2>13. Goal' = "place" /\ ~Creating' /\ Owner' = op.ino
    BY <2>8, Zenon DEF Goal, InAlloc, Creating, Owner
  <2>14. HeldOnce'
    <3>1. \A j \in InUse \ {op.ino} : Uses(block', op'.inode) \cap Uses(block', itable[j]) = {}
      BY <1>2, <1>3, <1>5, <2>12, Zenon DEF HeldOnce, Fresh
    <3>2. \A j \in InUse : MappedIn(block', op'.inode) \cap Leaves(itable[j]) = {}
      BY <1>3, <2>11, Zenon DEF HeldOnce
    <3> QED BY <1>5, <2>8, <2>11, <2>13, <3>1, <3>2, Zenon DEF HeldOnce
  <2>15. Fresh(op.pb)' BY <1>3, <1>5, <2>8, <2>12, Zenon DEF Fresh
  <2>16. NewBlocks' /\ MovedOnce' BY <1>3, <2>8, <2>9, <2>13, <2>15, Zenon DEF NewBlocks, MovedOnce
  <2> QED BY <1>5, <2>14, <2>16, Zenon DEF OwnInv, OpOnce
<1> QED BY <1>6, <1>7, Zenon

-----------------------------------------------------------------------------
(* What the calls do to the owners *)

\* No tree maps a block that is a node of it.
LEMMA TreeApart ==
  ASSUME NEW blk, NEW r, TreeOnce(blk, r)
  PROVE  MappedIn(blk, r) \cap Leaves(r) = {}
<1>1. CASE r.depth = 0 BY <1>1, Zenon DEF Leaves
<1>2. CASE r.depth # 0
  <2>1. \A x \in Leaves(r) : Blocks(blk[x].ents) \cap Leaves(r) = {} BY <1>2, Zenon DEF TreeOnce
  <2>2. MappedIn(blk, r) = UNION {Blocks(blk[x].ents) : x \in Leaves(r)} BY <1>2, Zenon DEF MappedIn
  <2> QED BY <2>1, <2>2, Zenon
<1> QED BY <1>1, <1>2, Zenon

\* A call reads the inode it works on from the disk.
LEMMA ReadOwn ==
  ASSUME DiskOnce', NEW i, i \in InUse', op'.inode = itable'[i], op'.ino = i,
         op'.at \in {"write", "add_dirent"}
  PROVE  OwnInv'
<1>1. Goal' = op'.at /\ ~Creating' /\ Owner' = i BY Zenon DEF Goal, InAlloc, Creating, Owner
<1>2. TreeOnce(block', op'.inode) BY Zenon DEF DiskOnce
<1>3. \A j \in InUse' \ {i} : Uses(block', op'.inode) \cap Uses(block', itable'[j]) = {} BY Zenon DEF DiskOnce
<1>4. ASSUME NEW j \in InUse' PROVE MappedIn(block', op'.inode) \cap Leaves(itable'[j]) = {}
  <2>1. CASE j = i BY <1>2, <2>1, TreeApart, Zenon
  <2>2. CASE j # i BY <1>3, <2>2, Zenon DEF Uses
  <2> QED BY <2>1, <2>2, Zenon
<1>5. HeldOnce' BY <1>1, <1>2, <1>3, <1>4, Zenon DEF HeldOnce
<1>6. NewBlocks' /\ MovedOnce' BY <1>1, Zenon DEF NewBlocks, MovedOnce
<1> QED BY <1>5, <1>6, Zenon DEF OwnInv, OpOnce

\* write_inode puts the tree in memory on the disk, in its owner's place.
LEMMA PutOwn ==
  ASSUME Inv, OwnInv, op.at # "idle", Owner \in Ino, NEW r, r.depth = op.inode.depth, r.ents = op.inode.ents,
         itable' = [itable EXCEPT ![Owner] = r], block' = block
  PROVE  /\ DiskOnce' /\ InUse \ {Owner} \subseteq InUse'
         /\ \A j \in InUse' \ {Owner} : j \in InUse /\ itable'[j] = itable[j]
         /\ Leaves(itable'[Owner]) = Leaves(op.inode)
<1>1. DiskOnce /\ HeldOnce BY Zenon DEF OwnInv, OpOnce
<1>2. DOMAIN itable = Ino BY Zenon DEF Inv, DiskSound
<1>3. itable'[Owner] = r /\ \A j \in Ino \ {Owner} : itable'[j] = itable[j] BY <1>2, Zenon
<1>4. InUse \ {Owner} \subseteq InUse' /\ \A j \in InUse' \ {Owner} : j \in InUse /\ itable'[j] = itable[j]
  BY <1>3, Zenon DEF InUse
<1>5. /\ Leaves(r) = Leaves(op.inode) /\ Uses(block, r) = Uses(block, op.inode) /\ TreeOnce(block, r)
  BY <1>1, SameRoot, Zenon DEF HeldOnce
<1>6. ASSUME NEW j \in InUse' PROVE TreeOnce(block, itable'[j])
  <2>1. CASE j = Owner BY <1>3, <1>5, <2>1, Zenon
  <2>2. CASE j # Owner BY <1>1, <1>4, <2>2, Zenon DEF DiskOnce
  <2> QED BY <2>1, <2>2, Zenon
<1>7. ASSUME NEW i \in InUse', NEW j \in InUse', i # j
      PROVE  Uses(block, itable'[i]) \cap Uses(block, itable'[j]) = {}
  <2>1. CASE i = Owner BY <1>1, <1>3, <1>4, <1>5, <1>7, <2>1 DEF HeldOnce
  <2>2. CASE j = Owner BY <1>1, <1>3, <1>4, <1>5, <1>7, <2>2 DEF HeldOnce
  <2>3. CASE i # Owner /\ j # Owner BY <1>1, <1>4, <1>7, <2>3, Zenon DEF DiskOnce
  <2> QED BY <2>1, <2>2, <2>3, Zenon
<1>8. DiskOnce' BY <1>6, <1>7, Zenon DEF DiskOnce
<1> QED BY <1>3, <1>4, <1>5, <1>8, Zenon

LEMMA WriteEnterOwn ==
  ASSUME Inv, OwnInv, NEW i \in Ino, NEW lb, NEW n, WriteEnter(i, lb, n)
  PROVE  OwnInv'
<1>1. itable[i].kind = "file" /\ UNCHANGED <<itable, block>> BY Zenon DEF WriteEnter, disk
<1>2. op' = [NoOp EXCEPT !.at = "write", !.ino = i, !.inode = itable[i], !.lb = lb,
                         !.first = lb, !.end = lb + n, !.after_insert = "mapped"]
  BY Zenon DEF WriteEnter
<1>3. op'.at = "write" /\ op'.ino = i /\ op'.inode = itable[i] BY <1>2, Zenon DEF NoOp
<1>4. DiskOnce' BY <1>1, Zenon DEF OwnInv, DiskOnce, InUse
<1>5. i \in InUse' BY <1>1, Zenon DEF InUse
<1> QED BY <1>1, <1>3, <1>4, <1>5, ReadOwn, Zenon

LEMMA StoreDataOwn ==
  ASSUME Least, Inv, OwnInv, op.at \in {"write", "mapped"}, NEW b \in map_block(op.inode, op.lb), StoreData(b)
  PROVE  OwnInv'
<1>1. Goal = op.at /\ ~Creating BY Zenon DEF Goal, InAlloc, Creating
<1>2. WriteBlock(b, Data(op.ino, op.lb)) BY Zenon DEF StoreData
<1>3. PICK a \in {"write_inode", "write"} : op' = [op EXCEPT !.at = a, !.lb = op.lb + 1]
  BY Zenon DEF StoreData
<1>4. op'.at = a /\ op'.inode = op.inode /\ op'.ino = op.ino /\ op'.target = op.target
  BY <1>3, OpFacts, Zenon DEF NoOp
<1>5. Goal' = a /\ ~Creating' BY <1>4, Zenon DEF Goal, InAlloc, Creating
<1>6. b \notin Leaves(op.inode) /\ \A j \in InUse : b \notin Leaves(itable[j])
  BY <1>1, OpFacts, MappedIsNoNode, Zenon
<1>7. Creating' = Creating BY <1>1, <1>5 DEF Creating
<1>8. DiskOnce' /\ HeldOnce'
  <2>1. PICK c : c = Data(op.ino, op.lb) BY Zenon
  <2>2. WriteBlock(b, c) BY <1>2, <2>1, Zenon
  <2> QED BY <1>4, <1>6, <1>7, <2>2, OutsideHeld, Zenon
<1>9. NewBlocks' /\ MovedOnce' BY <1>4, <1>5, Zenon DEF NewBlocks, MovedOnce
<1> QED BY <1>8, <1>9, Zenon DEF OwnInv, OpOnce

LEMMA WriteEndOwn ==
  ASSUME Inv, OwnInv, WriteEnd
  PROVE  OwnInv'
<1> DEFINE r == [op.inode EXCEPT !.size = NewSize(op.inode), !.blocks = recount_blocks(op.inode)]
<1>1. op.at = "write_inode" /\ op' = NoOp BY Zenon DEF WriteEnd
<1>2. itable' = [itable EXCEPT ![op.ino] = r] /\ block' = block BY Zenon DEF WriteEnd, write_inode
<1>3. r.depth = op.inode.depth /\ r.ents = op.inode.ents BY OpFacts, Zenon DEF Sound
<1> HIDE DEF r
<1>4. Owner = op.ino /\ op.ino \in Ino BY <1>1, OpFacts, Zenon DEF Goal, InAlloc, Creating, Owner
<1>5. DiskOnce' BY <1>1, <1>2, <1>3, <1>4, PutOwn, Zenon
<1> QED BY <1>1, <1>5, IdleOwn, Zenon

LEMMA WriteStepOwn ==
  ASSUME Least, Inv, OwnInv, WriteStep
  PROVE  OwnInv'
<1>1. CASE WriteUnmapped
  <2>1. "insert" \in AllocFor \ {"new_inode"} BY Zenon DEF AllocFor
  <2>2. op.at = "write" /\ AllocBlock("insert") BY <1>1, Zenon DEF WriteUnmapped
  <2>3. ~Creating BY <2>2, Zenon DEF Goal, InAlloc, Creating
  <2> QED BY <2>1, <2>2, <2>3, AllocOwn, Zenon
<1>2. CASE WriteOver BY <1>2, StoreDataOwn, Zenon DEF WriteOver
<1>3. CASE WriteFresh
  <2>1. CASE map_block(op.inode, op.lb) = {}
    BY <1>3, <2>1, ReturnOwn, Zenon DEF WriteFresh, Abort, Return, disk
  <2>2. CASE map_block(op.inode, op.lb) # {} BY <1>3, <2>2, StoreDataOwn, Zenon DEF WriteFresh
  <2> QED BY <2>1, <2>2, Zenon
<1>4. CASE WriteEnd BY <1>4, WriteEndOwn, Zenon
<1> QED BY <1>1, <1>2, <1>3, <1>4, Zenon DEF WriteStep

LEMMA OneExtent ==
  ASSUME NEW blk, NEW r, NEW b \in Int, r.depth = 0, r.ents = <<Extent(0, 1, b)>>
  PROVE  TreeOnce(blk, r) /\ Leaves(r) = {} /\ Uses(blk, r) = {b}
<1>1. DOMAIN r.ents = {1} /\ r.ents[1].pb = b /\ r.ents[1].len = 1 BY DEF Extent
<1>2. Run(r.ents[1]) = {b} BY <1>1 DEF Run
<1>3. Blocks(r.ents) = {b} BY <1>1, <1>2, Zenon DEF Blocks
<1>4. Once(r.ents) BY <1>1, Zenon DEF Once
<1>5. Leaves(r) = {} BY Zenon DEF Leaves
<1> QED BY <1>3, <1>4, <1>5, Zenon DEF TreeOnce, MappedIn, Uses

LEMMA CreateEnterOwn ==
  ASSUME Least, Inv, OwnInv, NEW dir \in Ino, NEW name, NEW kind, CreateEnter(dir, name, kind)
  PROVE  OwnInv'
<1> DEFINE i == Min(Ino \ ibm)
           r == [FreeInode EXCEPT !.kind = kind, !.links = IF kind = "dir" THEN 2 ELSE 1]
<1>1. ibm' = ibm \cup {i} /\ UNCHANGED <<itable, block>> /\ itable[dir].kind = "dir"
  BY Zenon DEF CreateEnter
<1>2. op' = [NoOp EXCEPT !.at = "group", !.after_alloc = "new_inode", !.ino = dir,
                         !.target = i, !.name = name, !.kind = kind, !.inode = r]
  BY Zenon DEF CreateEnter
<1>3. r.depth = 0 /\ r.ents = <<>> BY Zenon DEF FreeInode
<1>4. i \in Ino \ ibm
  <2>1. Ino \ ibm \in SUBSET Nat BY Ext4Assumption DEF Ext4Assumption, Ino
  <2>2. Ino \ ibm # {} BY Zenon DEF CreateEnter
  <2> QED BY <2>1, <2>2, Zenon DEF Least
<1>5. i \in Ino \ InUse BY <1>4, Zenon DEF Inv, DiskSound, InUse
<1> HIDE DEF i, r
<1>6. /\ op'.at = "group" /\ op'.after_alloc = "new_inode" /\ op'.ino = dir /\ op'.target = i
      /\ op'.inode = r
  BY <1>2, Zenon DEF NoOp
<1>7. InUse' = InUse /\ dir \in InUse /\ DiskOnce' BY <1>1, Zenon DEF OwnInv, DiskOnce, InUse
<1>8. Leaves(r) = {} /\ Blocks(r.ents) = {} /\ Once(r.ents)
  <2>1. DOMAIN r.ents = {} BY <1>3
  <2> QED BY <1>3, <2>1, Zenon DEF Leaves, Blocks, Once
<1>9. TreeOnce(block', r) /\ Uses(block', r) = {} /\ MappedIn(block', r) = {}
  BY <1>3, <1>8, Zenon DEF TreeOnce, Uses, MappedIn
<1>10. Goal' = "new_inode" /\ Creating' BY <1>6, Zenon DEF Goal, InAlloc, Creating
<1>11. HeldOnce' BY <1>3, <1>5, <1>6, <1>7, <1>9, Zenon DEF HeldOnce
<1>12. NewBlocks' /\ MovedOnce' BY <1>6, <1>10, Zenon DEF NewBlocks, MovedOnce
<1> QED BY <1>7, <1>11, <1>12, Zenon DEF OwnInv, OpOnce

LEMMA NewDirOwn ==
  ASSUME Inv, OwnInv, NewDir
  PROVE  OwnInv'
<1>1. op.at = "new_dir" /\ op.got \in Marked BY Zenon DEF NewDir, Inv, OpSound, Holding
<1>2. Goal = "new_dir" /\ Creating /\ Owner = op.target BY <1>1, Zenon DEF Goal, InAlloc, Creating, Owner
<1>3. DiskOnce /\ HeldOnce /\ Fresh(op.got) BY <1>1, <1>2, Zenon DEF OwnInv, OpOnce, NewBlocks
<1>4. op.inode.depth = 0 /\ op.target \in Ino \ InUse /\ op.ino \in InUse BY <1>2, <1>3, Zenon DEF HeldOnce
<1>5. PICK c : WriteBlock(op.got, c) BY Zenon DEF NewDir
<1>6. op.got \notin Leaves(op.inode) /\ \A j \in InUse : op.got \notin Leaves(itable[j])
  BY <1>3, Zenon DEF Fresh, Uses
<1>7. /\ DiskOnce' /\ InUse' = InUse /\ itable' = itable
      /\ \A j \in InUse : Uses(block', itable[j]) = Uses(block, itable[j])
  BY <1>3, <1>5, <1>6, OutsideWrite, Zenon
<1>8. op' = [op EXCEPT !.at = "init_inode", !.inode.size = 1, !.inode.blocks = 1,
                       !.inode.ents = <<Extent(0, 1, op.got)>>]
  BY Zenon DEF NewDir
<1>9. /\ op'.at = "init_inode" /\ op'.ino = op.ino /\ op'.target = op.target
      /\ op'.inode.depth = 0 /\ op'.inode.ents = <<Extent(0, 1, op.got)>>
  <2>1. {"size", "depth", "ents"} \subseteq DOMAIN op.inode /\ DOMAIN op = DOMAIN NoOp
    BY OpFacts, Zenon DEF Sound
  <2>2. PICK l : l = <<Extent(0, 1, op.got)>> BY Zenon
  <2>3. op' = [op EXCEPT !.at = "init_inode",
                         !.inode = [[[op.inode EXCEPT !.size = 1] EXCEPT !.blocks = 1] EXCEPT !.ents = l]]
    BY <1>8, <2>1, <2>2, Zenon DEF NoOp
  <2>4. PICK q : q = [[[op.inode EXCEPT !.size = 1] EXCEPT !.blocks = 1] EXCEPT !.ents = l] BY Zenon
  <2>5. q.depth = op.inode.depth /\ q.ents = l BY <2>1, <2>4, Zenon
  <2>6. op' = [op EXCEPT !.at = "init_inode", !.inode = q] BY <2>3, <2>4, Zenon
  <2> QED BY <1>4, <2>1, <2>2, <2>5, <2>6, Zenon DEF NoOp
<1>10. TreeOnce(block', op'.inode) /\ Leaves(op'.inode) = {} /\ Uses(block', op'.inode) = {op.got}
  <2>1. op.got \in Int BY <1>1, MarkedInt, Zenon DEF Inv
  <2>2. PICK q : q = op'.inode BY Zenon
  <2> QED BY <1>9, <2>1, <2>2, OneExtent
<1>11. Goal' = "init_inode" /\ Creating' BY <1>9, Zenon DEF Goal, InAlloc, Creating
<1>12. HeldOnce'
  <2>1. \A j \in InUse : op.got \notin Uses(block', itable[j]) BY <1>3, <1>7, Zenon DEF Fresh
  <2>2. \A j \in InUse : MappedIn(block', op'.inode) \cap Leaves(itable[j]) = {}
    BY <1>10, <2>1 DEF Uses
  <2> QED BY <1>4, <1>7, <1>9, <1>10, <2>1, <2>2, Zenon DEF HeldOnce
<1>13. NewBlocks' /\ MovedOnce' BY <1>9, <1>11, Zenon DEF NewBlocks, MovedOnce
<1> QED BY <1>7, <1>12, <1>13, Zenon DEF OwnInv, OpOnce

LEMMA InitInodeOwn ==
  ASSUME Inv, OwnInv, InitInode
  PROVE  OwnInv'
<1>1. /\ op.at \in {"init_inode", "new_inode"} /\ op' = [op EXCEPT !.at = "add_dirent", !.inode = itable[op.ino]]
      /\ itable' = [itable EXCEPT ![op.target] = op.inode] /\ block' = block
  BY Zenon DEF InitInode, write_inode
<1>2. Creating /\ Owner = op.target BY <1>1, Zenon DEF Goal, InAlloc, Creating, Owner
<1>3. op.target \in Ino \ InUse /\ op.ino \in InUse BY <1>1, <1>2, Zenon DEF OwnInv, OpOnce, HeldOnce
<1>4. PICK r : r = op.inode BY Zenon
<1>5. itable' = [itable EXCEPT ![Owner] = r] /\ r.depth = op.inode.depth /\ r.ents = op.inode.ents
  BY <1>1, <1>2, <1>4, Zenon
<1>6. /\ DiskOnce' /\ InUse \ {Owner} \subseteq InUse'
      /\ \A j \in InUse' \ {Owner} : itable'[j] = itable[j]
  BY <1>1, <1>2, <1>3, <1>5, PutOwn, Zenon
<1>7. op.ino \in InUse' /\ itable'[op.ino] = itable[op.ino] BY <1>2, <1>3, <1>6, Zenon
<1>8. op'.at = "add_dirent" /\ op'.ino = op.ino /\ op'.inode = itable'[op.ino]
  BY <1>1, <1>7, OpFacts, Zenon DEF NoOp
<1> QED BY <1>6, <1>7, <1>8, ReadOwn, Zenon

\* A call that has entered its name goes on to the parent's link, or is over.
LEMMA NamedOwn ==
  ASSUME Inv, op' = Named, DiskOnce', TreeOnce(block', op.inode),
         \A j \in InUse' \ {op.ino} : Uses(block', op.inode) \cap Uses(block', itable'[j]) = {},
         \A j \in InUse' : MappedIn(block', op.inode) \cap Leaves(itable'[j]) = {}
  PROVE  OwnInv'
<1>1. CASE op.kind = "dir"
  <2>1. op' = [op EXCEPT !.at = "link", !.dirty = FALSE] BY <1>1, Zenon DEF Named
  <2>2. op'.at = "link" /\ op'.inode = op.inode /\ op'.ino = op.ino BY <2>1, OpFacts, Zenon DEF NoOp
  <2>3. Goal' = "link" /\ ~Creating' /\ Owner' = op.ino BY <2>2, Zenon DEF Goal, InAlloc, Creating, Owner
  <2>4. HeldOnce' BY <2>2, <2>3, Zenon DEF HeldOnce
  <2>5. NewBlocks' /\ MovedOnce' BY <2>2, <2>3, Zenon DEF NewBlocks, MovedOnce
  <2> QED BY <2>4, <2>5, Zenon DEF OwnInv, OpOnce
<1>2. CASE op.kind # "dir" BY <1>2, IdleOwn, Zenon DEF Named
<1> QED BY <1>1, <1>2, Zenon

LEMMA AddDirentOwn ==
  ASSUME Least, Inv, OwnInv, AddDirent
  PROVE  OwnInv'
<1>1. op.at = "add_dirent" /\ op' = Named /\ WithRoom # {} BY Zenon DEF AddDirent
<1>2. ~Creating /\ Owner = op.ino BY <1>1, Zenon DEF Goal, InAlloc, Creating, Owner
<1>3. DiskOnce /\ HeldOnce BY <1>1, Zenon DEF OwnInv, OpOnce
<1>4. Min(WithRoom) \in Int
  <2>1. WithRoom \in SUBSET Nat BY OpFacts DEF WithRoom, Sound
  <2>2. \A x \in WithRoom : x \in Int BY <2>1
  <2>3. Min(WithRoom) \in WithRoom BY <1>1, <2>1, Zenon DEF Least
  <2> QED BY <2>2, <2>3, Zenon
<1>5. PICK lb \in Int : lb = Min(WithRoom) BY <1>4, Zenon
<1>6. PICK b \in map_block(op.inode, lb) : \E c : WriteBlock(b, c) BY <1>5, Zenon DEF AddDirent
<1>7. PICK c : WriteBlock(b, c) BY <1>6, Zenon
<1>8. b \notin Leaves(op.inode) /\ \A j \in InUse : b \notin Leaves(itable[j])
  BY <1>1, <1>2, MappedIsNoNode, Zenon
<1>9. /\ DiskOnce' /\ InUse' = InUse /\ itable' = itable
      /\ \A j \in InUse : Uses(block', itable[j]) = Uses(block, itable[j])
      /\ Uses(block', op.inode) = Uses(block, op.inode)
      /\ MappedIn(block', op.inode) = MappedIn(block, op.inode) /\ TreeOnce(block', op.inode)
  BY <1>3, <1>7, <1>8, OutsideWrite, Zenon DEF HeldOnce
<1>10. /\ \A j \in InUse' \ {op.ino} : Uses(block', op.inode) \cap Uses(block', itable'[j]) = {}
       /\ \A j \in InUse' : MappedIn(block', op.inode) \cap Leaves(itable'[j]) = {}
  BY <1>2, <1>3, <1>9, Zenon DEF HeldOnce
<1> QED BY <1>1, <1>9, <1>10, NamedOwn, Zenon

LEMMA AddDirentBlockOwn ==
  ASSUME Inv, OwnInv, AddDirentBlock
  PROVE  OwnInv'
<1>1. op.at = "dir_block" BY Zenon DEF AddDirentBlock
<1>2. Goal = "dir_block" /\ ~Creating BY <1>1, Zenon DEF Goal, InAlloc, Creating
<1>3. Fresh(op.pb) BY <1>1, <1>2, Zenon DEF OwnInv, OpOnce, NewBlocks
<1>4. op' = [op EXCEPT !.at = "insert", !.lb = op.inode.size, !.after_insert = "dir_inode"]
  BY Zenon DEF AddDirentBlock
<1>5. /\ op'.at = "insert" /\ op'.inode = op.inode /\ op'.ino = op.ino /\ op'.target = op.target
      /\ op'.pb = op.pb
  BY <1>4, OpFacts, Zenon DEF NoOp
<1>6. Goal' = "insert" /\ ~Creating' BY <1>5, Zenon DEF Goal, InAlloc, Creating
<1>7. Creating' = Creating BY <1>2, <1>6 DEF Creating
<1>8. PICK b : b = op.pb BY Zenon
<1>9. PICK c : WriteBlock(b, c) BY <1>8, Zenon DEF AddDirentBlock
<1>10. b \notin Leaves(op.inode) /\ \A j \in InUse : b \notin Leaves(itable[j])
  BY <1>3, <1>8, Zenon DEF Fresh, Uses
<1>11. DiskOnce' /\ HeldOnce' /\ \A x : Fresh(x) => Fresh(x)'
  BY <1>1, <1>5, <1>7, <1>9, <1>10, OutsideHeld, Zenon
<1>12. Fresh(op.pb)'
  <2>1. Fresh(b)' BY <1>3, <1>8, <1>11, Zenon
  <2> QED BY <1>5, <1>8, <2>1, Zenon DEF Fresh
<1>13. NewBlocks' /\ MovedOnce' BY <1>5, <1>6, <1>12, Zenon DEF NewBlocks, MovedOnce
<1> QED BY <1>11, <1>13, Zenon DEF OwnInv, OpOnce

LEMMA AddDirentEndOwn ==
  ASSUME Inv, OwnInv, AddDirentEnd
  PROVE  OwnInv'
<1> DEFINE r == [op.inode EXCEPT !.size = @ + 1, !.blocks = recount_blocks(op.inode)]
<1>1. op.at = "dir_inode" /\ op' = Named BY Zenon DEF AddDirentEnd
<1>2. itable' = [itable EXCEPT ![op.ino] = r] /\ block' = block BY Zenon DEF AddDirentEnd, write_inode
<1>3. r.depth = op.inode.depth /\ r.ents = op.inode.ents BY OpFacts, Zenon DEF Sound
<1> HIDE DEF r
<1>4. Owner = op.ino /\ op.ino \in Ino BY <1>1, OpFacts, Zenon DEF Goal, InAlloc, Creating, Owner
<1>5. /\ DiskOnce' /\ \A j \in InUse' \ {op.ino} : j \in InUse /\ itable'[j] = itable[j]
      /\ Leaves(itable'[op.ino]) = Leaves(op.inode)
  BY <1>1, <1>2, <1>3, <1>4, PutOwn, Zenon
<1>6. HeldOnce BY <1>1, Zenon DEF OwnInv, OpOnce
<1>7. TreeOnce(block', op.inode) BY <1>2, <1>6, Zenon DEF HeldOnce
<1>8. \A j \in InUse' \ {op.ino} : Uses(block', op.inode) \cap Uses(block', itable'[j]) = {}
  BY <1>2, <1>4, <1>5, <1>6, Zenon DEF HeldOnce
<1>9. ASSUME NEW j \in InUse' PROVE MappedIn(block', op.inode) \cap Leaves(itable'[j]) = {}
  <2>1. CASE j = op.ino BY <1>5, <1>7, <2>1, TreeApart, Zenon
  <2>2. CASE j # op.ino BY <1>2, <1>5, <1>6, <2>2, Zenon DEF HeldOnce
  <2> QED BY <2>1, <2>2, Zenon
<1> QED BY <1>1, <1>5, <1>7, <1>8, <1>9, NamedOwn, Zenon

LEMMA LinkParentOwn ==
  ASSUME Inv, OwnInv, LinkParent
  PROVE  OwnInv'
<1> DEFINE r == [itable[op.ino] EXCEPT !.links = @ + 1]
<1>1. op.at = "link" /\ op' = NoOp BY Zenon DEF LinkParent
<1>2. itable' = [itable EXCEPT ![op.ino] = r] /\ block' = block BY Zenon DEF LinkParent, write_inode
<1>3. op.ino \in Ino /\ DOMAIN itable = Ino /\ Sound(itable[op.ino])
  BY <1>1, OpFacts, Zenon DEF Inv, DiskSound
<1>4. r.depth = itable[op.ino].depth /\ r.ents = itable[op.ino].ents /\ r.kind = itable[op.ino].kind
  BY <1>3 DEF Sound
<1> HIDE DEF r
<1>5. itable'[op.ino] = r /\ \A j \in Ino \ {op.ino} : itable'[j] = itable[j] BY <1>2, <1>3, Zenon
<1>6. InUse' = InUse BY <1>3, <1>4, <1>5, Zenon DEF InUse
<1>7. \A j \in InUse : Uses(block, itable'[j]) = Uses(block, itable[j])
                       /\ (TreeOnce(block, itable[j]) => TreeOnce(block, itable'[j]))
  <2> SUFFICES ASSUME NEW j \in InUse
               PROVE  /\ Uses(block, itable'[j]) = Uses(block, itable[j])
                      /\ TreeOnce(block, itable[j]) => TreeOnce(block, itable'[j])
    BY Zenon
  <2>1. j \in Ino BY Zenon DEF InUse
  <2>2. PICK p : p = itable[j] BY Zenon
  <2>3. PICK q : q = itable'[j] BY Zenon
  <2>4. q.depth = p.depth /\ q.ents = p.ents BY <1>4, <1>5, <2>1, <2>2, <2>3, Zenon
  <2> QED BY <2>2, <2>3, <2>4, SameRoot
<1>8. DiskOnce' BY <1>2, <1>6, <1>7, Zenon DEF OwnInv, DiskOnce
<1> QED BY <1>1, <1>8, IdleOwn, Zenon

LEMMA CreateStepOwn ==
  ASSUME Least, Inv, OwnInv, CreateStep
  PROVE  OwnInv'
<1>1. CASE NewDirBlock
  <2>1. "new_dir" \in AllocFor \ {"new_inode"} BY Zenon DEF AllocFor
  <2>2. op.at = "new_inode" /\ AllocBlock("new_dir") BY <1>1, Zenon DEF NewDirBlock
  <2>3. Creating BY <2>2, Zenon DEF Goal, InAlloc, Creating
  <2> QED BY <2>1, <2>2, <2>3, AllocOwn, Zenon
<1>2. CASE AddDirentGrow
  <2>1. "dir_block" \in AllocFor \ {"new_inode"} BY Zenon DEF AllocFor
  <2>2. op.at = "add_dirent" /\ AllocBlock("dir_block") BY <1>2, Zenon DEF AddDirentGrow
  <2>3. ~Creating BY <2>2, Zenon DEF Goal, InAlloc, Creating
  <2> QED BY <2>1, <2>2, <2>3, AllocOwn, Zenon
<1> QED BY <1>1, <1>2, NewDirOwn, InitInodeOwn, AddDirentOwn, AddDirentBlockOwn,
           AddDirentEndOwn, LinkParentOwn, Zenon DEF CreateStep

LEMMA InitOwn == Init => OwnInv
<1> SUFFICES ASSUME Init PROVE OwnInv BY Zenon
<1>1. op.at = "idle" BY Zenon DEF Init, NoOp
<1>2. ROOT_INO \in Ino /\ RootDirBlock \in Int BY Ext4Assumption DEF Ext4Assumption, Ino, Fsb
<1>3. itable[ROOT_INO].depth = 0 /\ itable[ROOT_INO].ents = <<Extent(0, 1, RootDirBlock)>>
  BY <1>2, Zenon DEF Init
<1>4. InUse \subseteq {ROOT_INO}
  <2>1. \A i \in Ino \ {ROOT_INO} : itable[i] = FreeInode BY Zenon DEF Init
  <2> QED BY <2>1 DEF InUse, FreeInode
<1>5. PICK r : r = itable[ROOT_INO] BY Zenon
<1>6. TreeOnce(block, r) BY <1>2, <1>3, <1>5, OneExtent, Zenon
<1>7. DiskOnce BY <1>4, <1>5, <1>6, Zenon DEF DiskOnce
<1> QED BY <1>1, <1>7, Zenon DEF OwnInv, OpOnce

LEMMA NextOwn ==
  ASSUME Least, Inv, OwnInv, [Next]_vars
  PROVE  OwnInv'
<1>1. ASSUME NEW i \in Known, NEW lb \in 0 .. MaxSize[i] - 1, NEW n \in 1 .. MaxLen,
             WriteEnter(i, lb, n)
      PROVE  OwnInv'
  <2>1. i \in Ino BY Zenon DEF Known
  <2> QED BY <1>1, <2>1, WriteEnterOwn, Zenon
<1>2. ASSUME NEW dir \in Known, NEW name \in Name, NEW kind \in {"file", "dir"},
             CreateEnter(dir, name, kind)
      PROVE  OwnInv'
  <2>1. dir \in Ino BY Zenon DEF Known
  <2> QED BY <1>2, <2>1, CreateEnterOwn, Zenon
<1>3. CASE Step
  BY <1>3, CommitOwn, InsertRootOwn, DeepenOwn, PlaceOwn, SplitCutOwn, SplitNewOwn,
     WriteStepOwn, CreateStepOwn, Zenon DEF Step, InsertStep
<1>4. CASE Fail \/ Crash BY <1>4, ReturnOwn, Zenon DEF Fail, Crash, Return, disk
<1>5. CASE UNCHANGED vars
  <2>1. UNCHANGED <<itable, block, op>> BY <1>5, Zenon DEF vars, disk
  <2>2. Goal' = Goal /\ InUse' = InUse BY <2>1, Zenon DEF Goal, InAlloc, InUse
  <2>3. (Creating' <=> Creating) /\ Owner' = Owner BY <2>1, <2>2, Zenon DEF Creating, Owner
  <2>4. \A x : Fresh(x)' <=> Fresh(x) BY <2>1, <2>2, Zenon DEF Fresh
  <2>5. DiskOnce' BY <2>1, <2>2, Zenon DEF OwnInv, DiskOnce
  <2>6. CASE op.at # "idle"
    <3>1. HeldOnce' BY <2>1, <2>2, <2>3, <2>6, Zenon DEF OwnInv, OpOnce, HeldOnce
    <3>2. NewBlocks' BY <2>1, <2>2, <2>4, <2>6, Zenon DEF OwnInv, OpOnce, NewBlocks, Fresh
    <3>3. MovedOnce' BY <2>1, <2>2, <2>6, Zenon DEF OwnInv, OpOnce, MovedOnce
    <3> QED BY <2>5, <3>1, <3>2, <3>3, Zenon DEF OwnInv, OpOnce
  <2>7. CASE op.at = "idle" BY <2>1, <2>5, <2>7, Zenon DEF OwnInv, OpOnce
  <2> QED BY <2>6, <2>7, Zenon
<1> QED BY <1>1, <1>2, <1>3, <1>4, <1>5, Zenon DEF Next

-----------------------------------------------------------------------------
(* The references on disk *)

\* A reference is a node of a tree or a block of an extent in one of its lists.
LEMMA ReferenceOf ==
  ASSUME NEW r \in References
  PROVE  \E i \in InUse :
           \/ \E b \in Leaves(itable[i]) : r = <<i, b, 0, 0, b>>
           \/ \E l \in {ExtentLists(itable[i])} :
                \E m \in DOMAIN l : \E n \in DOMAIN l[m] : \E k \in 0 .. l[m][n].len - 1 :
                  r = <<i, m, n, k, l[m][n].pb + k>>
<1>1. PICK i \in InUse :
        r \in {<<i, b, 0, 0, b>> : b \in Leaves(itable[i])}
                \cup UNION {{<<i, p[1], p[2], k, ExtentLists(itable[i])[p[1]][p[2]].pb + k>> :
                               k \in 0 .. ExtentLists(itable[i])[p[1]][p[2]].len - 1} :
                            p \in UNION {{<<m, n>> : n \in DOMAIN ExtentLists(itable[i])[m]} :
                                           m \in DOMAIN ExtentLists(itable[i])}}
  BY Zenon DEF References
<1>2. CASE r \in {<<i, b, 0, 0, b>> : b \in Leaves(itable[i])} BY <1>2, Zenon
<1>3. CASE r \notin {<<i, b, 0, 0, b>> : b \in Leaves(itable[i])}
  <2> DEFINE l == ExtentLists(itable[i])
             at == UNION {{<<m, n>> : n \in DOMAIN l[m]} : m \in DOMAIN l}
  <2>1. r \in UNION {{<<i, p[1], p[2], k, l[p[1]][p[2]].pb + k>> : k \in 0 .. l[p[1]][p[2]].len - 1} :
                     p \in at}
    BY <1>1, <1>3, Zenon
  <2> HIDE DEF l
  <2>2. PICK p \in at :
          r \in {<<i, p[1], p[2], k, l[p[1]][p[2]].pb + k>> : k \in 0 .. l[p[1]][p[2]].len - 1}
    BY <2>1, Zenon
  <2>3. PICK m \in DOMAIN l : p \in {<<m, n>> : n \in DOMAIN l[m]} BY <2>2, Zenon
  <2>4. PICK n \in DOMAIN l[m] : p = <<m, n>> BY <2>3, Zenon
  <2>5. p[1] = m /\ p[2] = n BY <2>4, Zenon
  <2>6. PICK k \in 0 .. l[m][n].len - 1 : r = <<i, m, n, k, l[m][n].pb + k>> BY <2>2, <2>5, Zenon
  <2>7. l \in {ExtentLists(itable[i])} BY Zenon DEF l
  <2> QED BY <2>6, <2>7, Zenon
<1> QED BY <1>2, <1>3, Zenon

\* The lists below an inode in use have no block in common.
LEMMA ListsApart ==
  ASSUME Inv, DiskOnce, NEW i \in InUse, NEW l, l = ExtentLists(itable[i])
  PROVE  /\ \A m \in DOMAIN l : /\ Once(l[m]) /\ l[m] \in Lists
                                /\ Blocks(l[m]) \subseteq MappedIn(block, itable[i])
         /\ \A m, n \in DOMAIN l : m # n => Blocks(l[m]) \cap Blocks(l[n]) = {}
<1>1. PICK r : r = itable[i] BY Zenon
<1>2. TreeOnce(block, r) BY <1>1, Zenon DEF DiskOnce
<1>3. r.ents \in Lists BY <1>1, Zenon DEF InUse, Inv, DiskSound, Sound
<1>4. CASE r.depth = 0
  <2>1. l = <<r.ents>> BY <1>1, <1>4, Zenon DEF ExtentLists
  <2>2. DOMAIN l = {1} /\ l[1] = r.ents BY <2>1
  <2> QED BY <1>1, <1>2, <1>3, <1>4, <2>2, Zenon DEF TreeOnce, MappedIn
<1>5. CASE r.depth # 0
  <2>1. l = [m \in DOMAIN r.ents |-> block[r.ents[m].pb].ents] BY <1>1, <1>5, Zenon DEF ExtentLists
  <2>2. \A m \in DOMAIN l : m \in DOMAIN r.ents /\ l[m] = block[r.ents[m].pb].ents BY <2>1, Zenon
  <2>3. \A m \in DOMAIN r.ents : r.ents[m].pb \in Leaves(r) BY <1>5, Zenon DEF Leaves
  <2>4. Leaves(r) \subseteq Fsb BY <1>1, AllMarked, Zenon DEF InUse, Inv, DiskSound
  <2>5. \A m \in DOMAIN l : l[m] \in Lists BY <2>2, <2>3, <2>4, Zenon DEF Inv, DiskSound
  <2>6. \A m \in DOMAIN l : Once(l[m]) BY <1>2, <1>5, <2>2, <2>3, Zenon DEF TreeOnce
  <2>7. \A m \in DOMAIN l : Blocks(l[m]) \subseteq MappedIn(block, r) BY <1>5, <2>2, <2>3 DEF MappedIn
  <2>8. \A m, n \in DOMAIN l : m # n => Blocks(l[m]) \cap Blocks(l[n]) = {}
    <3> SUFFICES ASSUME NEW m \in DOMAIN l, NEW n \in DOMAIN l, m # n
                 PROVE  Blocks(l[m]) \cap Blocks(l[n]) = {}
      BY Zenon
    <3>1. r.ents[m].pb # r.ents[n].pb BY <1>2, <1>5, <2>2, Zenon DEF TreeOnce
    <3>2. \A x, y \in Leaves(r) : x # y => Blocks(block[x].ents) \cap Blocks(block[y].ents) = {}
      BY <1>2, <1>5, Zenon DEF TreeOnce
    <3> QED BY <2>2, <2>3, <3>1, <3>2, Zenon
  <2> QED BY <1>1, <2>5, <2>6, <2>7, <2>8, Zenon
<1> QED BY <1>4, <1>5, Zenon

\* The block that an extent gives position k.
LEMMA BlockAt ==
  ASSUME Inv, NEW s \in Lists, NEW n \in DOMAIN s, NEW k \in 0 .. s[n].len - 1
  PROVE  s[n].pb \in Int /\ s[n].pb + k \in Run(s[n]) /\ s[n].pb + k \in Blocks(s)
<1>1. s[n] \in Over(Marked) BY DEF Lists
<1>2. s[n].pb \in Int BY <1>1, MarkedInt, Zenon DEF Over, Inv
<1>3. s[n].pb + k \in Run(s[n]) BY Zenon DEF Run
<1> QED BY <1>2, <1>3, Zenon DEF Blocks

\* A reference is to a block that the inode it starts from uses.
LEMMA ReferredUsed ==
  ASSUME Inv, DiskOnce, NEW q \in References
  PROVE  \E i \in InUse : q[1] = i /\ q[5] \in Uses(block, itable[i])
<1>1. PICK i \in InUse :
         \/ \E b \in Leaves(itable[i]) : q = <<i, b, 0, 0, b>>
         \/ \E l \in {ExtentLists(itable[i])} :
              \E m \in DOMAIN l : \E n \in DOMAIN l[m] : \E k \in 0 .. l[m][n].len - 1 :
                q = <<i, m, n, k, l[m][n].pb + k>>
  BY ReferenceOf, Zenon
<1>2. CASE \E b \in Leaves(itable[i]) : q = <<i, b, 0, 0, b>> BY <1>2 DEF Uses
<1>3. ASSUME NEW l, l = ExtentLists(itable[i]), NEW m \in DOMAIN l, NEW n \in DOMAIN l[m],
             NEW k \in 0 .. l[m][n].len - 1, q = <<i, m, n, k, l[m][n].pb + k>>
      PROVE  q[1] = i /\ q[5] \in Uses(block, itable[i])
  <2>1. l[m] \in Lists /\ Blocks(l[m]) \subseteq MappedIn(block, itable[i]) BY <1>3, ListsApart, Zenon
  <2>2. l[m][n].pb + k \in Blocks(l[m]) BY <2>1, BlockAt, Zenon
  <2>3. q[1] = i /\ q[5] = l[m][n].pb + k BY <1>3, Zenon
  <2> QED BY <2>1, <2>2, <2>3, Zenon DEF Uses
<1> QED BY <1>1, <1>2, <1>3, Zenon

\* Every reference is to a marked block.
LEMMA ReferredMarked ==
  ASSUME Inv, DiskOnce, NEW r \in References
  PROVE  r[5] \in Marked
<1>1. PICK i \in InUse : r[5] \in Uses(block, itable[i]) BY ReferredUsed, Zenon
<1> QED BY <1>1, AllMarked, Zenon DEF InUse

\* Two references to one block are the same.
LEMMA RefersOnce ==
  ASSUME Inv, DiskOnce, NEW r \in References, NEW s \in References, r[5] = s[5]
  PROVE  r = s
<1>1. \A q \in References : \E i \in InUse : q[1] = i /\ q[5] \in Uses(block, itable[i])
  BY ReferredUsed, Zenon
<1>2. PICK i \in InUse : r[1] = i /\ r[5] \in Uses(block, itable[i]) BY <1>1, Zenon
<1>3. s[1] = i BY <1>1, <1>2, Zenon DEF DiskOnce
<1>4. PICK l : l = ExtentLists(itable[i]) BY Zenon
<1>5. ASSUME NEW q \in References, q[1] = i
      PROVE  \/ q[5] \in Leaves(itable[i]) /\ q = <<i, q[5], 0, 0, q[5]>>
             \/ \E m \in DOMAIN l : \E n \in DOMAIN l[m] : \E k \in 0 .. l[m][n].len - 1 :
                  q = <<i, m, n, k, l[m][n].pb + k>>
  <2>1. PICK j \in InUse :
           \/ \E b \in Leaves(itable[j]) : q = <<j, b, 0, 0, b>>
           \/ \E e \in {ExtentLists(itable[j])} :
                \E m \in DOMAIN e : \E n \in DOMAIN e[m] : \E k \in 0 .. e[m][n].len - 1 :
                  q = <<j, m, n, k, e[m][n].pb + k>>
    BY ReferenceOf, Zenon
  <2>2. j = i BY <1>5, <2>1
  <2> QED BY <1>4, <2>1, <2>2
<1>6. /\ \A m \in DOMAIN l : Once(l[m]) /\ l[m] \in Lists /\ Blocks(l[m]) \cap Leaves(itable[i]) = {}
      /\ \A m, n \in DOMAIN l : m # n => Blocks(l[m]) \cap Blocks(l[n]) = {}
  <2>1. TreeOnce(block, itable[i]) BY Zenon DEF DiskOnce
  <2>2. MappedIn(block, itable[i]) \cap Leaves(itable[i]) = {} BY <2>1, TreeApart, Zenon
  <2> QED BY <1>4, <2>2, ListsApart, Zenon
<1>7. \A m \in DOMAIN l : \A n \in DOMAIN l[m] : \A k \in 0 .. l[m][n].len - 1 :
        /\ l[m][n].pb \in Int /\ l[m][n].pb + k \in Run(l[m][n]) /\ l[m][n].pb + k \in Blocks(l[m])
        /\ l[m][n].pb + k \notin Leaves(itable[i])
  BY <1>6, BlockAt, Zenon
<1>8. CASE r[5] \in Leaves(itable[i])
  <2>1. \A m \in DOMAIN l : \A n \in DOMAIN l[m] : \A k \in 0 .. l[m][n].len - 1 :
          r # <<i, m, n, k, l[m][n].pb + k>> /\ s # <<i, m, n, k, l[m][n].pb + k>>
    BY <1>7, <1>8
  <2> QED BY <1>2, <1>3, <1>5, <2>1, Zenon
<1>9. CASE r[5] \notin Leaves(itable[i])
  <2>1. PICK m \in DOMAIN l : \E n \in DOMAIN l[m] : \E k \in 0 .. l[m][n].len - 1 :
          r = <<i, m, n, k, l[m][n].pb + k>>
    BY <1>2, <1>5, <1>9, Zenon
  <2>2. PICK n \in DOMAIN l[m] : \E k \in 0 .. l[m][n].len - 1 : r = <<i, m, n, k, l[m][n].pb + k>>
    BY <2>1, Zenon
  <2>3. PICK k \in 0 .. l[m][n].len - 1 : r = <<i, m, n, k, l[m][n].pb + k>> BY <2>2, Zenon
  <2>4. PICK m1 \in DOMAIN l : \E n1 \in DOMAIN l[m1] : \E k1 \in 0 .. l[m1][n1].len - 1 :
          s = <<i, m1, n1, k1, l[m1][n1].pb + k1>>
    BY <1>3, <1>5, <1>9, Zenon
  <2>5. PICK n1 \in DOMAIN l[m1] : \E k1 \in 0 .. l[m1][n1].len - 1 :
          s = <<i, m1, n1, k1, l[m1][n1].pb + k1>>
    BY <2>4, Zenon
  <2>6. PICK k1 \in 0 .. l[m1][n1].len - 1 : s = <<i, m1, n1, k1, l[m1][n1].pb + k1>> BY <2>5, Zenon
  <2>7. l[m][n].pb + k = l[m1][n1].pb + k1 BY <2>3, <2>6, Zenon
  <2>8. m1 = m BY <1>6, <1>7, <2>7
  <2>9. n1 = n BY <1>6, <1>7, <2>7, <2>8 DEF Once
  <2>10. k1 = k BY <1>7, <2>7, <2>8, <2>9
  <2> QED BY <2>3, <2>6, <2>8, <2>9, <2>10, Zenon
<1> QED BY <1>8, <1>9, Zenon
=============================================================================
