------------------------------ MODULE Ext4Kinds ------------------------------
(***************************************************************************)
(* What every step of the ext4 driver keeps of the contents of the blocks  *)
(* that the trees lead to.  KindInv: the nodes of a tree are leaves, the   *)
(* blocks of a directory hold entries, and an entry names an inode that    *)
(* has been written and lies before the unused tail of its inode table.    *)
(*                                                                         *)
(* A call in progress is one of three: write_file holds the inode of a     *)
(* file, so it never maps a block that has to hold entries; create makes   *)
(* an inode that nothing names yet; or it enters the name, into a block    *)
(* that is a directory block before it is mapped.  That the write of one   *)
(* block leaves the other trees alone is OwnInv of Ext4Trees.              *)
(***************************************************************************)
EXTENDS Ext4Trees

-----------------------------------------------------------------------------
(* What the blocks and inodes of the trees hold *)

\* An inode lies before the unused tail of its group's inode table.
OutsideTail(i) == (i - 1) % InodesPerGroup < InodesPerGroup - gd[GroupOfInode(i)].unused

\* A directory block whose entries name inodes of U.
Names(blk, U, b) == blk[b].kind = "dir" /\ \A e \in blk[b].names : e[2] \in U

\* A tree whose nodes are leaves and which, for a directory, maps directory blocks.
TreeKinds(blk, U, r) ==
  /\ \A x \in Leaves(r) : blk[x].kind = "leaf"
  /\ r.kind = "dir" => \A b \in MappedIn(blk, r) : Names(blk, U, b)

DiskKinds ==
  /\ \A i \in InUse : TreeKinds(block, InUse, itable[i])
  /\ DOMAIN gd = Group
  /\ \A g \in Group : "unused" \in DOMAIN gd[g] /\ gd[g].unused \in Int
  /\ \A i \in InUse : OutsideTail(i)

Inserting == {"insert", "deepen", "place", "split", "split_new"}

\* A call of write_file has the inode of a file.
Writing ==
  /\ op.after_insert = "mapped"
  /\ Goal \in Inserting \cup {"write", "mapped", "write_inode"}
  /\ op.inode.kind = "file" /\ itable[op.ino].kind = "file"

\* create makes an inode, and has taken it out of the unused tail once the group is written.
Making ==
  /\ op.after_insert = "none" /\ Creating
  /\ op.inode.kind \in {"file", "dir"} /\ itable[op.ino].kind = "dir"
  /\ ~(op.at = "group" /\ op.after_alloc = "new_inode") => OutsideTail(op.target)

\* create has written the inode and enters its name: the directory block for it is ready when
\* it is inserted into the tree of the directory.
Naming ==
  /\ Goal \in Inserting \cup {"add_dirent", "dir_block", "dir_inode", "link"}
  /\ op.after_insert # "mapped"
  /\ op.inode.kind = "dir" /\ itable[op.ino].kind = "dir" /\ op.target \in InUse
  /\ Goal \in Inserting => op.after_insert = "dir_inode" /\ Names(block, InUse, op.pb)

\* The inodes there are, counting the one that create is about to write.
Owners == IF Creating THEN InUse \cup {op.target} ELSE InUse

HeldKinds ==
  /\ TreeKinds(block, Owners, op.inode)
  /\ op.at = "split_new" /\ op.inode.kind = "dir" =>
       \A b \in Blocks(op.moved) : Names(block, InUse, b)

OpKinds == op.at # "idle" => HeldKinds /\ (Writing \/ Making \/ Naming)

KindInv == DiskKinds /\ OpKinds

-----------------------------------------------------------------------------
\* A tree keeps its kinds when one of its blocks is rewritten in kind, and every block that it
\* maps from now on is in kind as well.
LEMMA TreeWritten ==
  ASSUME NEW blk, NEW new, NEW U, NEW V, U \subseteq V, NEW r, TreeKinds(blk, U, r), NEW b,
         \A y \in Uses(blk, r) : y # b => new[y] = blk[y],
         b \in Leaves(r) => new[b].kind = "leaf",
         r.kind = "dir" /\ b \in MappedIn(blk, r) => Names(new, V, b),
         r.kind = "dir" => \A x \in MappedIn(new, r) : x \in MappedIn(blk, r) \/ Names(new, V, x)
  PROVE  TreeKinds(new, V, r)
<1>1. \A y \in Leaves(r) : y \in Uses(blk, r) BY Zenon DEF Uses
<1>2. \A y \in MappedIn(blk, r) : y \in Uses(blk, r) BY Zenon DEF Uses
<1>3. \A x \in Leaves(r) : new[x].kind = "leaf" BY <1>1, Zenon DEF TreeKinds
<1>4. ASSUME r.kind = "dir", NEW x \in MappedIn(new, r) PROVE Names(new, V, x)
  <2>1. CASE x = b BY <1>4, <2>1, Zenon
  <2>2. CASE x # b /\ x \in MappedIn(blk, r)
    <3>1. new[x] = blk[x] BY <1>2, <2>2, Zenon
    <3>2. Names(blk, U, x) BY <1>4, <2>2, Zenon DEF TreeKinds
    <3> QED BY <3>1, <3>2, Zenon DEF Names
  <2>3. CASE x \notin MappedIn(blk, r) BY <1>4, <2>3, Zenon
  <2> QED BY <2>1, <2>2, <2>3, Zenon
<1> QED BY <1>3, <1>4, Zenon DEF TreeKinds

\* With the same blocks, more inodes only help.
LEMMA MoreInodes ==
  ASSUME NEW blk, NEW U, NEW V, U \subseteq V, NEW r, NEW q, TreeKinds(blk, U, r),
         q.depth = r.depth, q.ents = r.ents, q.kind = r.kind
  PROVE  TreeKinds(blk, V, q)
<1>1. Leaves(q) = Leaves(r) /\ MappedIn(blk, q) = MappedIn(blk, r) BY SameRoot, Zenon
<1> QED BY <1>1, Zenon DEF TreeKinds, Names

\* What the calls in progress say of where they are.
LEMMA KindFacts ==
  ASSUME Inv, OwnInv, KindInv
  PROVE  /\ DiskSound /\ DiskOnce /\ DiskKinds
         /\ op.at # "idle" => HeldOnce /\ NewBlocks /\ MovedOnce /\ HeldKinds /\ (Writing \/ Making \/ Naming)
BY Zenon DEF Inv, OwnInv, OpOnce, KindInv, OpKinds

\* A call that ends leaves nothing to show of it.
LEMMA IdleKinds == ASSUME DiskKinds', op' = NoOp PROVE KindInv'
<1>1. op'.at = "idle" BY Zenon DEF NoOp
<1> QED BY <1>1, Zenon DEF KindInv, OpKinds

\* The disk keeps its kinds with its trees and its groups.
LEMMA SameDisk ==
  ASSUME DiskKinds, UNCHANGED <<gd, itable, block>>
  PROVE  DiskKinds' /\ InUse' = InUse /\ \A i : OutsideTail(i)' <=> OutsideTail(i)
<1>1. InUse' = InUse BY Zenon DEF InUse
<1>2. \A i : OutsideTail(i)' <=> OutsideTail(i) BY Zenon DEF OutsideTail
<1> QED BY <1>1, <1>2, Zenon DEF DiskKinds

LEMMA ReturnKinds ==
  ASSUME KindInv, op' = NoOp, UNCHANGED <<gd, itable, block>>
  PROVE  KindInv'
<1>1. DiskKinds' BY SameDisk, Zenon DEF KindInv
<1> QED BY <1>1, IdleKinds, Zenon

\* An allocation touches no tree until its block is used.
LEMMA AllocKinds ==
  ASSUME Inv, KindInv, op.at \notin {"idle", "group", "super"},
         NEW after \in AllocFor \ {"new_inode"}, AllocBlock(after),
         after = "new_dir" <=> Creating,
         after \in {"deepen", "split"} => op.at \in Inserting,
         after = "insert" <=> op.at = "write",
         after = "dir_block" => op.at = "add_dirent"
  PROVE  KindInv'
<1>1. CASE FreeBlocks = {}
  BY <1>1, ReturnKinds, Zenon DEF AllocBlock, Abort, Return, disk
<1>2. CASE FreeBlocks # {}
  <2>1. PICK b : b = Min(FreeBlocks) BY Zenon
  <2>2. /\ op' = [op EXCEPT !.at = "group", !.after_alloc = after, !.got = b,
                            !.pb = IF after \in {"deepen", "split"} THEN @ ELSE b]
        /\ UNCHANGED <<gd, itable, block>>
    BY <1>2, <2>1, Zenon DEF AllocBlock
  <2>3. /\ op'.at = "group" /\ op'.after_alloc = after
        /\ op'.pb = IF after \in {"deepen", "split"} THEN op.pb ELSE b
        /\ op'.inode = op.inode /\ op'.ino = op.ino /\ op'.target = op.target
        /\ op'.after_insert = op.after_insert
    BY <2>2, OpFacts, Zenon DEF NoOp
  <2>4. DiskKinds' /\ InUse' = InUse /\ \A i : OutsideTail(i)' <=> OutsideTail(i)
    BY <2>2, SameDisk, Zenon DEF KindInv
  <2>5. Goal' = after /\ Goal = op.at BY <2>3, Zenon DEF Goal, InAlloc
  <2>6. after \notin {"new_inode", "init_inode"} BY Zenon DEF AllocFor
  <2>7. (Creating' <=> Creating) BY <2>5, <2>6, Zenon DEF Creating
  <2>8. Owners' = Owners BY <2>3, <2>4, <2>7, Zenon DEF Owners
  <2>9. HeldKinds' BY <2>2, <2>3, <2>8, Zenon DEF KindInv, OpKinds, HeldKinds
  <2>10. Writing \/ Making \/ Naming BY Zenon DEF KindInv, OpKinds
  <2>11. CASE Writing
    <3>1. Writing'
      BY <2>2, <2>3, <2>5, <2>7, <2>11, Zenon DEF Writing, Inserting, AllocFor, Creating
    <3> QED BY <2>4, <2>9, <3>1, Zenon DEF KindInv, OpKinds
  <2>12. CASE Making
    <3>1. OutsideTail(op.target)' BY <2>3, <2>4, <2>12, Zenon DEF Making, OutsideTail
    <3>2. Making' BY <2>2, <2>3, <2>7, <2>12, <3>1, Zenon DEF Making
    <3> QED BY <2>4, <2>9, <3>2, Zenon DEF KindInv, OpKinds
  <2>13. CASE Naming
    <3>1. after \in {"deepen", "split", "dir_block"}
      BY <2>5, <2>13, Zenon DEF Naming, Inserting, AllocFor, Creating
    <3>2. itable' = itable BY <2>2, Zenon
    <3>3. Naming'
      <4>1. CASE after = "dir_block"
        BY <2>3, <2>4, <2>5, <2>13, <3>2, <4>1, Zenon DEF Naming, Inserting
      <4>2. CASE after \in {"deepen", "split"}
        <5>1. op'.pb = op.pb /\ block' = block BY <2>2, <2>3, <4>2, Zenon
        <5>2. op.after_insert = "dir_inode" /\ Names(block, InUse, op.pb)
          BY <2>5, <2>13, <4>2, Zenon DEF Naming
        <5>3. Names(block', InUse', op'.pb) BY <2>4, <5>1, <5>2, Zenon
        <5> QED BY <2>3, <2>4, <2>5, <2>13, <3>2, <4>2, <5>2, <5>3, Zenon DEF Naming, Inserting
      <4> QED BY <3>1, <4>1, <4>2, Zenon
    <3> QED BY <2>4, <2>9, <3>3, Zenon DEF KindInv, OpKinds
  <2> QED BY <2>10, <2>11, <2>12, <2>13, Zenon
<1> QED BY <1>1, <1>2, Zenon

\* The smaller of two numbers.
LEMMA MinOfTwo ==
  ASSUME NEW a \in Int, NEW b \in Int
  PROVE  Min({a, b}) \in Int /\ Min({a, b}) <= a /\ Min({a, b}) <= b
<1>1. \E x \in {a, b} : \A y \in {a, b} : x <= y
  <2>1. CASE a <= b BY <2>1
  <2>2. CASE ~(a <= b) BY <2>2
  <2> QED BY <2>1, <2>2, Zenon
<1>2. Min({a, b}) \in {a, b} /\ \A y \in {a, b} : Min({a, b}) <= y BY <1>1, Zenon DEF Min
<1> QED BY <1>2, Zenon

\* alloc_inode shortens the unused tail to what follows the new inode; no group's tail grows.
LEMMA TailsShrink ==
  ASSUME Inv, OwnInv, KindInv, CommitGroup
  PROVE  /\ DOMAIN gd' = Group
         /\ \A h \in Group : /\ "unused" \in DOMAIN gd'[h] /\ gd'[h].unused \in Int
                             /\ gd'[h].unused <= gd[h].unused
         /\ op.after_alloc = "new_inode" => OutsideTail(op.target)'
<1>1. /\ DOMAIN gd = Group
      /\ \A h \in Group : "unused" \in DOMAIN gd[h] /\ gd[h].unused \in Int
  BY Zenon DEF KindInv, DiskKinds
<1>2. InodesPerGroup \in Nat \ {0} BY Ext4Assumption, Zenon DEF Ext4Assumption
<1>3. CASE op.after_alloc = "new_inode"
  <2>1. PICK g : g = GroupOfInode(op.target) BY Zenon
  <2>2. PICK d : d = gd[g] BY Zenon
  <2>3. PICK p : p = (op.target - 1) % InodesPerGroup BY Zenon
  <2>4. PICK n : n = GroupAfterInode(d, g, op.target, op.kind) BY Zenon
  <2>5. gd' = [gd EXCEPT ![g] = n] BY <1>3, <2>1, <2>2, <2>4, Zenon DEF CommitGroup
  <2>6. op.target \in Ino
    <3>1. op.at = "group" BY Zenon DEF CommitGroup
    <3>2. Creating BY <1>3, <3>1, Zenon DEF Creating, Goal, InAlloc
    <3> QED BY <3>1, <3>2, Zenon DEF OwnInv, OpOnce, HeldOnce
  <2>7. g \in Group
    BY <2>1, <2>6, Ext4Assumption, Zenon DEF Ext4Assumption, Ino, Group, GroupOfInode
  <2>8. d.unused \in Int /\ "unused" \in DOMAIN d BY <1>1, <2>2, <2>7, Zenon
  <2>9. p \in Int BY <1>2, <2>3, <2>6 DEF Ino
  <2>10. n.unused = Min({d.unused, InodesPerGroup - p - 1}) /\ "unused" \in DOMAIN n
    BY <2>3, <2>4, <2>8 DEF GroupAfterInode
  <2>11. PICK t \in Int : t = InodesPerGroup - p - 1 BY <1>2, <2>9
  <2>12. n.unused \in Int /\ n.unused <= d.unused /\ n.unused <= t
    BY <2>8, <2>10, <2>11, MinOfTwo, Zenon
  <2>13. gd'[g] = n /\ \A h \in Group \ {g} : gd'[h] = gd[h] BY <1>1, <2>5, <2>7, Zenon
  <2>14. OutsideTail(op.target)'
    <3>1. p < InodesPerGroup - n.unused BY <1>2, <2>9, <2>11, <2>12
    <3>2. op'.target = op.target
      <4>1. op' = [op EXCEPT !.at = "super"] BY Zenon DEF CommitGroup
      <4> QED BY <4>1, OpFacts, Zenon DEF NoOp
    <3> QED BY <2>1, <2>3, <2>13, <3>1, <3>2, Zenon DEF OutsideTail
  <2>15. DOMAIN gd' = Group BY <1>1, <2>5, Zenon
  <2>16. \A h \in Group : gd[h].unused <= gd[h].unused BY <1>1
  <2>17. ASSUME NEW h \in Group
         PROVE  "unused" \in DOMAIN gd'[h] /\ gd'[h].unused \in Int /\ gd'[h].unused <= gd[h].unused
    <3>1. CASE h = g BY <2>2, <2>10, <2>12, <2>13, <3>1, Zenon
    <3>2. CASE h # g BY <1>1, <2>13, <2>16, <3>2, Zenon
    <3> QED BY <3>1, <3>2, Zenon
  <2> QED BY <2>14, <2>15, <2>17, Zenon
<1>4. CASE op.after_alloc # "new_inode"
  <2>1. PICK g : g = GroupOfBlock(op.got) BY Zenon
  <2>2. gd' = [gd EXCEPT ![g] = GroupAfterBlock(gd[g], g)] BY <1>4, <2>1, Zenon DEF CommitGroup
  <2>3. \A h \in Group : /\ "unused" \in DOMAIN gd'[h] /\ gd'[h].unused = gd[h].unused
    <3> TAKE h \in Group
    <3>1. CASE h = g BY <1>1, <2>2, <3>1, Zenon DEF GroupAfterBlock
    <3>2. CASE h # g BY <1>1, <2>2, <3>2, Zenon
    <3> QED BY <3>1, <3>2, Zenon
  <2>4. DOMAIN gd' = Group BY <1>1, <2>2, Zenon
  <2> QED BY <1>1, <1>4, <2>3, <2>4
<1> QED BY <1>3, <1>4, Zenon

\* The two later writes of an allocation.
LEMMA CommitKinds ==
  ASSUME Inv, OwnInv, KindInv, CommitGroup \/ persist_super_counts
  PROVE  KindInv'
<1>1. UNCHANGED <<itable, block>> /\ InAlloc BY Zenon DEF CommitGroup, persist_super_counts, InAlloc
<1>2. op.after_alloc \in AllocFor BY <1>1, Zenon DEF Inv, OpSound
<1>3. PICK l \in {"super", op.after_alloc} : op' = [op EXCEPT !.at = l]
  BY Zenon DEF CommitGroup, persist_super_counts
<1>4. /\ op'.at = l /\ op'.after_alloc = op.after_alloc /\ op'.pb = op.pb
      /\ op'.inode = op.inode /\ op'.ino = op.ino /\ op'.target = op.target
      /\ op'.after_insert = op.after_insert
  BY <1>3, OpFacts, Zenon DEF NoOp
<1>5. InUse' = InUse /\ op.at # "idle" BY <1>1, Zenon DEF InUse, InAlloc
<1>6. Goal' = Goal /\ op'.at # "split_new"
  BY <1>1, <1>2, <1>3, <1>4, Zenon DEF Goal, InAlloc, AllocFor
<1>7. (Creating' <=> Creating) /\ Owners' = Owners BY <1>4, <1>5, <1>6, Zenon DEF Creating, Owners
<1>8. /\ DOMAIN gd' = Group
      /\ \A h \in Group : "unused" \in DOMAIN gd'[h] /\ gd'[h].unused \in Int
      /\ \A i \in Ino : OutsideTail(i) => OutsideTail(i)'
      /\ Making => OutsideTail(op.target)'
  <2>1. CASE CommitGroup
    <3>1. /\ DOMAIN gd' = Group
          /\ \A h \in Group : /\ "unused" \in DOMAIN gd'[h] /\ gd'[h].unused \in Int
                              /\ gd'[h].unused <= gd[h].unused
          /\ op.after_alloc = "new_inode" => OutsideTail(op.target)'
      BY <2>1, TailsShrink, Zenon
    <3>2. ASSUME NEW i \in Ino, OutsideTail(i) PROVE OutsideTail(i)'
      <4>1. PICK g : g = GroupOfInode(i) BY Zenon
      <4>2. g \in Group BY <4>1, Ext4Assumption, Zenon DEF Ext4Assumption, Ino, Group, GroupOfInode
      <4>3. PICK p : p = (i - 1) % InodesPerGroup BY Zenon
      <4>4. InodesPerGroup \in Nat \ {0} BY Ext4Assumption, Zenon DEF Ext4Assumption
      <4>5. p \in Int BY <4>3, <4>4 DEF Ino
      <4>6. gd[g].unused \in Int /\ gd'[g].unused \in Int /\ gd'[g].unused <= gd[g].unused
        BY <3>1, <4>2, Zenon DEF KindInv, DiskKinds
      <4>7. p < InodesPerGroup - gd[g].unused BY <3>2, <4>1, <4>3, Zenon DEF OutsideTail
      <4>8. p < InodesPerGroup - gd'[g].unused BY <4>4, <4>5, <4>6, <4>7
      <4> QED BY <4>1, <4>3, <4>8, Zenon DEF OutsideTail
    <3>3. Making => OutsideTail(op.target)'
      <4>1. SUFFICES ASSUME Making, op.after_alloc # "new_inode" PROVE OutsideTail(op.target)'
        BY <3>1, Zenon
      <4>2. op.target \in Ino BY <1>5, <4>1, Zenon DEF Making, OwnInv, OpOnce, HeldOnce
      <4>3. PICK t \in Ino : t = op.target BY <4>2, Zenon
      <4>4. OutsideTail(t)' BY <3>2, <4>1, <4>3, Zenon DEF Making
      <4> QED BY <1>4, <4>3, <4>4, Zenon DEF OutsideTail
    <3> QED BY <3>1, <3>2, <3>3, Zenon
  <2>2. CASE persist_super_counts
    <3>1. gd' = gd /\ op.at = "super" BY <2>2, Zenon DEF persist_super_counts
    <3> QED BY <1>4, <3>1, Zenon DEF KindInv, DiskKinds, OutsideTail, Making
  <2> QED BY <2>1, <2>2, Zenon
<1>9. DiskKinds' BY <1>1, <1>5, <1>8, Zenon DEF KindInv, DiskKinds, InUse
<1>10. HeldKinds' BY <1>1, <1>4, <1>5, <1>6, <1>7, Zenon DEF KindInv, OpKinds, HeldKinds
<1>11. Writing => Writing' BY <1>1, <1>4, <1>6, Zenon DEF Writing
<1>12. Making => Making' BY <1>1, <1>4, <1>7, <1>8, Zenon DEF Making
<1>13. Naming => Naming' BY <1>1, <1>4, <1>5, <1>6, Zenon DEF Naming
<1> QED BY <1>5, <1>9, <1>10, <1>11, <1>12, <1>13, Zenon DEF KindInv, OpKinds

-----------------------------------------------------------------------------
(* What writing a block does to the kinds *)

\* The blocks of a list of extents over marked blocks.
LEMMA ListMarked ==
  ASSUME NEW l \in Lists
  PROVE  Blocks(l) \subseteq Marked
<1> SUFFICES ASSUME NEW n \in DOMAIN l PROVE Run(l[n]) \subseteq Marked
  BY Zenon DEF Blocks
<1>1. l \in Seq(Over(Marked)) BY Zenon DEF Lists
<1>2. l[n] \in Over(Marked) BY <1>1
<1> QED BY <1>2, Zenon DEF Over, Run

\* A write changes the block that is written.
LEMMA Written ==
  ASSUME Inv, NEW b, NEW c, WriteBlock(b, c)
  PROVE  /\ b \in Fsb => block'[b] = c
         /\ \A y \in Fsb : y # b => block'[y] = block[y]
         /\ \A i \in InUse : \A y \in Uses(block, itable[i]) : y # b => block'[y] = block[y]
         /\ \A y \in Uses(block, op.inode) : y # b => block'[y] = block[y]
<1>1. DOMAIN block = Fsb /\ Marked \subseteq Fsb BY MarkedInt, Zenon DEF Inv, DiskSound
<1>2. \A y \in Fsb : y # b => block'[y] = block[y] BY <1>1, Zenon DEF WriteBlock
<1>3. \A i \in InUse : Uses(block, itable[i]) \subseteq Marked BY AllMarked, Zenon DEF InUse
<1>4. Uses(block, op.inode) \subseteq Marked BY AllMarked, Zenon
<1> QED BY <1>1, <1>2, <1>3, <1>4, Zenon DEF WriteBlock

\* The trees on disk keep their kinds when a block is rewritten in kind.
LEMMA DiskWritten ==
  ASSUME Inv, DiskKinds, NEW b, NEW c, WriteBlock(b, c), b \in Fsb,
         \A i \in InUse : b \in Leaves(itable[i]) => c.kind = "leaf",
         \A i \in InUse : itable[i].kind = "dir" =>
           /\ b \in MappedIn(block, itable[i]) => Names(block', InUse, b)
           /\ \A x \in MappedIn(block', itable[i]) :
                x \in MappedIn(block, itable[i]) \/ Names(block', InUse, x)
  PROVE  DiskKinds' /\ InUse' = InUse /\ itable' = itable /\ gd' = gd
<1>1. itable' = itable /\ gd' = gd BY Zenon DEF WriteBlock
<1>2. InUse' = InUse BY <1>1, Zenon DEF InUse
<1>3. ASSUME NEW i \in InUse PROVE TreeKinds(block', InUse, itable[i])
  <2>1. PICK r : r = itable[i] BY Zenon
  <2>2. TreeKinds(block, InUse, r) BY <2>1, Zenon DEF DiskKinds
  <2>3. /\ \A y \in Uses(block, r) : y # b => block'[y] = block[y]
        /\ b \in Leaves(r) => block'[b].kind = "leaf"
    BY <2>1, Written, Zenon
  <2>4. r.kind = "dir" => /\ b \in MappedIn(block, r) => Names(block', InUse, b)
                          /\ \A x \in MappedIn(block', r) :
                               x \in MappedIn(block, r) \/ Names(block', InUse, x)
    BY <2>1, Zenon
  <2>5. TreeKinds(block', InUse, r) BY <2>2, <2>3, <2>4, TreeWritten, Zenon
  <2> QED BY <2>1, <2>5, Zenon
<1>4. \A i \in InUse : OutsideTail(i)' BY <1>1, Zenon DEF DiskKinds, OutsideTail
<1> QED BY <1>1, <1>2, <1>3, <1>4, Zenon DEF DiskKinds

\* A write outside the nodes of all trees changes no tree; it must keep directories in kind.
LEMMA OutsideKinds ==
  ASSUME Inv, DiskKinds, NEW b, NEW c, WriteBlock(b, c), b \in Fsb, b \notin Leaves(op.inode),
         \A j \in InUse : b \notin Leaves(itable[j]),
         \A j \in InUse : itable[j].kind = "dir" /\ b \in MappedIn(block, itable[j]) =>
                            Names(block', InUse, b),
         NEW U, TreeKinds(block, U, op.inode),
         op.inode.kind = "dir" /\ b \in MappedIn(block, op.inode) => Names(block', U, b)
  PROVE  /\ DiskKinds' /\ InUse' = InUse /\ itable' = itable /\ gd' = gd
         /\ MappedIn(block', op.inode) = MappedIn(block, op.inode)
         /\ TreeKinds(block', U, op.inode)
<1>1. \A j \in InUse : MappedIn(block', itable[j]) = MappedIn(block, itable[j])
  <2> TAKE j \in InUse
  <2>1. \A y \in Leaves(itable[j]) : block'[y] = block[y] BY Written, Zenon DEF Uses
  <2> QED BY <2>1, SameTree, Zenon
<1>2. \A y \in Leaves(op.inode) : block'[y] = block[y] BY Written, Zenon DEF Uses
<1>3. MappedIn(block', op.inode) = MappedIn(block, op.inode) BY <1>2, SameTree, Zenon
<1>4. DiskKinds' /\ InUse' = InUse /\ itable' = itable /\ gd' = gd BY <1>1, DiskWritten, Zenon
<1>5. TreeKinds(block', U, op.inode)
  <2>1. PICK r : r = op.inode BY Zenon
  <2>2. \A y \in Uses(block, r) : y # b => block'[y] = block[y] BY <2>1, Written, Zenon
  <2>3. /\ TreeKinds(block, U, r) /\ b \notin Leaves(r)
        /\ MappedIn(block', r) = MappedIn(block, r)
        /\ r.kind = "dir" /\ b \in MappedIn(block, r) => Names(block', U, b)
    BY <1>3, <2>1, Zenon
  <2>4. r.kind = "dir" => \A x \in MappedIn(block', r) : x \in MappedIn(block, r) \/ Names(block', U, x)
    BY <2>3, Zenon
  <2>5. TreeKinds(block', U, r) BY <2>2, <2>3, <2>4, TreeWritten, Zenon
  <2> QED BY <2>1, <2>5, Zenon
<1> QED BY <1>3, <1>4, <1>5, Zenon

\* Rewriting a node as a leaf hits no directory block.
LEMMA NodeKinds ==
  ASSUME Inv, OwnInv, KindInv, op.at # "idle", ~Creating, NEW x \in Leaves(op.inode), NEW c,
         WriteBlock(x, c), c.kind = "leaf", NEW P,
         Once(c.ents), Blocks(c.ents) \subseteq Blocks(block[x].ents) \cup P, \A p \in P : Fresh(p),
         \A p \in P : p \in Fsb,
         op.inode.kind = "dir" => \A p \in P : Names(block, InUse, p),
         itable[op.ino].kind = "dir" => \A p \in P : Names(block, InUse, p)
  PROVE  /\ DiskKinds' /\ InUse' = InUse /\ itable' = itable /\ gd' = gd
         /\ TreeKinds(block', InUse, op.inode)
         /\ \A p \in Fsb : Names(block, InUse, p) => Names(block', InUse, p)
<1>1. DiskKinds /\ TreeKinds(block, InUse, op.inode)
  BY Zenon DEF KindInv, OpKinds, HeldKinds, Owners
<1>2. x \in Fsb
  <2>1. Leaves(op.inode) \subseteq DOMAIN block BY AllMarked, Zenon
  <2> QED BY <2>1, Zenon DEF Inv, DiskSound
<1>3. block[x].kind = "leaf" BY <1>1, Zenon DEF TreeKinds
<1>4. ASSUME NEW p \in Fsb, Names(block, InUse, p) PROVE p # x /\ Names(block', InUse, p)
  <2>1. p # x BY <1>3, <1>4 DEF Names
  <2>2. block'[p] = block[p] BY <2>1, Written, Zenon
  <2> QED BY <1>4, <2>1, <2>2, Zenon DEF Names
<1>5. /\ MappedIn(block', op.inode) \subseteq MappedIn(block, op.inode) \cup P
      /\ \A j \in InUse \ {op.ino} : Uses(block', itable[j]) = Uses(block, itable[j])
      /\ \A j \in InUse : Uses(block', itable[j]) \subseteq Uses(block, itable[j]) \cup P
  BY NodeWrite, Zenon
<1>6. \A j \in InUse : itable[j].kind = "dir" => x \notin MappedIn(block, itable[j])
  <2> SUFFICES ASSUME NEW j \in InUse, itable[j].kind = "dir", x \in MappedIn(block, itable[j])
               PROVE  FALSE
    BY Zenon
  <2>1. Names(block, InUse, x) BY <1>1, Zenon DEF DiskKinds, TreeKinds
  <2> QED BY <1>2, <1>4, <2>1, Zenon
<1>7. ASSUME NEW j \in InUse, itable[j].kind = "dir", NEW y \in MappedIn(block', itable[j])
      PROVE  y \in MappedIn(block, itable[j]) \/ Names(block', InUse, y)
  <2>1. y \in P \/ y \in Uses(block, itable[j])
    BY <1>5, <1>7, Zenon DEF Uses
  <2>2. CASE y \in P
    <3>1. CASE j = op.ino BY <1>4, <1>7, <2>2, <3>1, Zenon
    <3>2. CASE j # op.ino
      <4>1. y \in Uses(block, itable[j]) BY <1>5, <3>2, Zenon DEF Uses
      <4> QED BY <2>2, <4>1, Zenon DEF Fresh
    <3> QED BY <3>1, <3>2, Zenon
  <2>3. CASE y \in Leaves(itable[j])
    <3>1. DiskOnce' /\ itable' = itable /\ InUse' = InUse BY NodeWrite, Zenon
    <3>2. TreeOnce(block', itable[j]) BY <3>1, Zenon DEF DiskOnce
    <3> QED BY <1>7, <2>3, <3>2, TreeApart, Zenon
  <2> QED BY <2>1, <2>2, <2>3, Zenon DEF Uses
<1>8. DiskKinds' /\ InUse' = InUse /\ itable' = itable /\ gd' = gd
  BY <1>1, <1>2, <1>6, <1>7, DiskWritten, Zenon
<1>9. TreeKinds(block', InUse, op.inode)
  <2>1. PICK r : r = op.inode BY Zenon
  <2>2. /\ TreeKinds(block, InUse, r) /\ x \in Leaves(r) /\ block'[x].kind = "leaf"
        /\ \A y \in Uses(block, r) : y # x => block'[y] = block[y]
    BY <1>1, <1>2, <2>1, Written, Zenon
  <2>3. r.kind = "dir" => x \notin MappedIn(block, r)
    BY <1>2, <1>4, <2>2, Zenon DEF TreeKinds
  <2>4. r.kind = "dir" => \A y \in MappedIn(block', r) : y \in MappedIn(block, r) \/ Names(block', InUse, y)
    BY <1>4, <1>5, <2>1, Zenon
  <2>5. TreeKinds(block', InUse, r) BY <2>2, <2>3, <2>4, TreeWritten, Zenon
  <2> QED BY <2>1, <2>5, Zenon
<1> QED BY <1>4, <1>8, <1>9, Zenon

-----------------------------------------------------------------------------
(* Inserting an extent keeps the kinds *)

\* A call that inserts is a write of a file, or create with its directory block ready.
LEMMA InsertFacts ==
  ASSUME Inv, OwnInv, KindInv, op.at \in Inserting
  PROVE  /\ op.at # "idle" /\ Goal = op.at /\ ~Creating /\ Owner = op.ino
         /\ DiskKinds /\ HeldKinds /\ TreeKinds(block, InUse, op.inode) /\ (Writing \/ Naming)
         /\ op.pb \in Fsb /\ op.after_insert \in {"mapped", "dir_inode"}
         /\ op.inode.kind = "dir" => Names(block, InUse, op.pb)
         /\ itable[op.ino].kind = "dir" => Names(block, InUse, op.pb)
<1>1. op.at # "idle" /\ Goal = op.at /\ ~Creating /\ Owner = op.ino
  BY Zenon DEF Inserting, Goal, InAlloc, Creating, Owner
<1>2. DiskKinds /\ HeldKinds /\ (Writing \/ Making \/ Naming) BY <1>1, Zenon DEF KindInv, OpKinds
<1>3. Writing \/ Naming BY <1>1, <1>2, Zenon DEF Making
<1>4. TreeKinds(block, InUse, op.inode) BY <1>1, <1>2, Zenon DEF HeldKinds, Owners
<1>5. op.pb \in Marked BY Zenon DEF Inserting, Inv, OpSound, Holding
<1>6. op.pb \in Fsb BY <1>5, MarkedInt, Zenon DEF Inv
<1>7. CASE Writing
  <2>1. op.inode.kind = "file" /\ itable[op.ino].kind = "file" /\ op.after_insert = "mapped"
    BY <1>7, Zenon DEF Writing
  <2> QED BY <1>1, <1>2, <1>3, <1>4, <1>6, <2>1
<1>8. CASE Naming
  <2>1. Names(block, InUse, op.pb) /\ op.after_insert = "dir_inode" BY <1>1, <1>8, Zenon DEF Naming
  <2> QED BY <1>1, <1>2, <1>3, <1>4, <1>6, <2>1, Zenon
<1> QED BY <1>3, <1>7, <1>8, Zenon

\* It goes on with the same blocks in kind.
LEMMA InsertGoesOn ==
  ASSUME Inv, OwnInv, KindInv, op.at \in Inserting, op'.at \in Inserting \cup {op.after_insert},
         op'.ino = op.ino, op'.target = op.target, op'.pb = op.pb,
         op'.after_insert = op.after_insert, op'.inode.kind = op.inode.kind,
         InUse' = InUse, itable' = itable, DiskKinds', TreeKinds(block', InUse, op'.inode),
         Names(block, InUse, op.pb) => Names(block', InUse, op.pb),
         op'.at = "split_new" /\ op.inode.kind = "dir" =>
           \A b \in Blocks(op'.moved) : Names(block', InUse, b)
  PROVE  KindInv'
<1>1. Goal = op.at /\ (Writing \/ Naming) /\ op.after_insert \in {"mapped", "dir_inode"}
  BY InsertFacts, Zenon
<1>2. Goal' = op'.at /\ ~Creating' BY <1>1, Zenon DEF Inserting, Goal, InAlloc, Creating
<1>3. HeldKinds' BY <1>2, Zenon DEF HeldKinds, Owners
<1>4. Writing => Writing' BY <1>2, Zenon DEF Writing
<1>5. Naming => Naming'
  <2>1. SUFFICES ASSUME Naming PROVE Naming' BY Zenon
  <2>2. op.after_insert = "dir_inode" /\ Names(block, InUse, op.pb) BY <1>1, <2>1, Zenon DEF Naming
  <2>3. Names(block', InUse', op'.pb) BY <2>2, Zenon
  <2>4. Goal' \in Inserting \cup {"dir_inode"} BY <1>2, <2>2, Zenon
  <2> QED BY <1>2, <2>1, <2>2, <2>3, <2>4, Zenon DEF Naming
<1> QED BY <1>1, <1>3, <1>4, <1>5, Zenon DEF KindInv, OpKinds

LEMMA InsertRootKinds ==
  ASSUME Inv, OwnInv, KindInv, InsertRoot
  PROVE  KindInv'
<1>1. op.at = "insert" /\ op.inode.depth = 0 /\ op.pb \in Marked
  BY Zenon DEF InsertRoot, Inv, OpSound, Holding
<1>2. op.at \in Inserting BY <1>1, Zenon DEF Inserting
<1>3. CASE Fits(op.inode.ents, RootMax, op.lb, op.pb)
  <2> DEFINE l == Extended(op.inode.ents, op.lb, op.pb)
  <2>1. Fresh(op.pb) /\ TreeOnce(block, op.inode)
    BY <1>1, <1>2, InsertFacts, Zenon DEF OwnInv, OpOnce, HeldOnce, NewBlocks
  <2>2. Once(op.inode.ents) /\ MappedIn(block, op.inode) = Blocks(op.inode.ents)
        /\ op.pb \notin Blocks(op.inode.ents)
    BY <1>1, <2>1, Zenon DEF TreeOnce, Uses, MappedIn, Leaves, Fresh
  <2>3. Blocks(l) \subseteq Blocks(op.inode.ents) \cup {op.pb}
    BY <1>1, <2>2, MarkedInt, ExtendedOnce DEF Inv, OpSound, Sound, Lists
  <2>4. op' = [op EXCEPT !.at = op.after_insert, !.inode.ents = l] /\ UNCHANGED disk
    BY <1>3, Zenon DEF InsertRoot
  <2> HIDE DEF l
  <2>5. /\ op'.at = op.after_insert /\ op'.inode = [op.inode EXCEPT !.ents = l]
        /\ op'.ino = op.ino /\ op'.target = op.target /\ op'.pb = op.pb
        /\ op'.after_insert = op.after_insert
    BY <2>4, OpFacts, Zenon DEF NoOp
  <2>6. op'.inode.ents = l /\ op'.inode.depth = 0 /\ op'.inode.kind = op.inode.kind
    BY <1>1, <2>5, OpFacts DEF Sound
  <2>7. gd' = gd /\ itable' = itable /\ block' = block BY <2>4, Zenon DEF disk
  <2>8. DiskKinds' /\ InUse' = InUse BY <2>7, SameDisk, Zenon DEF KindInv
  <2>9. Leaves(op'.inode) = {} /\ MappedIn(block', op'.inode) = Blocks(l)
    BY <2>6, Zenon DEF Leaves, MappedIn
  <2>10. TreeKinds(block, InUse, op.inode) /\ (op.inode.kind = "dir" => Names(block, InUse, op.pb))
    BY <1>2, InsertFacts, Zenon
  <2>11. TreeKinds(block', InUse, op'.inode)
    <3>1. ASSUME op'.inode.kind = "dir", NEW b \in Blocks(l) PROVE Names(block', InUse, b)
      BY <2>2, <2>3, <2>6, <2>7, <2>10, <3>1, Zenon DEF TreeKinds
    <3> QED BY <2>9, <3>1, Zenon DEF TreeKinds
  <2>12. op'.at # "split_new" BY <1>2, <2>5, InsertFacts
  <2> QED BY <1>2, <2>5, <2>6, <2>7, <2>8, <2>11, <2>12, InsertGoesOn, Zenon
<1>4. CASE ~Fits(op.inode.ents, RootMax, op.lb, op.pb)
  <2>1. AllocBlock("deepen") BY <1>4, Zenon DEF InsertRoot
  <2>2. "deepen" \in AllocFor \ {"new_inode"} BY Zenon DEF AllocFor
  <2>3. ~Creating BY <1>2, InsertFacts, Zenon
  <2> QED BY <1>1, <1>2, <2>1, <2>2, <2>3, AllocKinds, Zenon
<1> QED BY <1>3, <1>4, Zenon

LEMMA DeepenKinds ==
  ASSUME Inv, OwnInv, KindInv, Deepen
  PROVE  KindInv'
<1>1. /\ op.at = "deepen" /\ op.got \in Marked
      /\ WriteBlock(op.got, Leaf(op.inode.ents))
      /\ op' = [op EXCEPT !.at = "place", !.inode.depth = 1, !.inode.ents = <<IndexTo(0, op.got)>>]
  BY Zenon DEF Deepen, Inv, OpSound, Holding
<1>2. op.at \in Inserting BY <1>1, Zenon DEF Inserting
<1>3. /\ HeldOnce /\ Fresh(op.got) /\ op.got # op.pb /\ op.inode.depth = 0
  BY <1>1, <1>2, InsertFacts, Zenon DEF OwnInv, OpOnce, NewBlocks
<1> DEFINE e == IndexTo(0, op.got)
           c == Leaf(op.inode.ents)
<1>4. /\ op'.at = "place" /\ op'.inode = [[op.inode EXCEPT !.depth = 1] EXCEPT !.ents = <<e>>]
      /\ op'.ino = op.ino /\ op'.target = op.target /\ op'.pb = op.pb
      /\ op'.after_insert = op.after_insert
  BY <1>1, OpFacts, Zenon DEF NoOp
<1>5. op'.inode.depth = 1 /\ op'.inode.ents = <<e>> /\ op'.inode.kind = op.inode.kind
  BY <1>4, OpFacts DEF Sound
<1>6. e.pb = op.got /\ c.ents = op.inode.ents /\ c.kind = "leaf"
  BY Zenon DEF IndexTo, Extent, Leaf, Content
<1> HIDE DEF e, c
<1>7. op.got \in Fsb BY <1>1, MarkedInt, Zenon DEF Inv
<1>8. WriteBlock(op.got, c) BY <1>1, Zenon DEF c
<1>9. block'[op.got] = c BY <1>7, <1>8, Written, Zenon
<1>10. /\ op.got \notin Uses(block, op.inode) /\ \A j \in InUse : op.got \notin Uses(block, itable[j])
  BY <1>3, Zenon DEF Fresh
<1>11. /\ DiskKinds' /\ InUse' = InUse /\ itable' = itable /\ gd' = gd
       /\ MappedIn(block', op.inode) = MappedIn(block, op.inode)
       /\ TreeKinds(block', InUse, op.inode)
  <2>1. PICK b : b = op.got BY Zenon
  <2>2. /\ WriteBlock(b, c) /\ b \in Fsb /\ b \notin Leaves(op.inode) /\ b \notin MappedIn(block, op.inode)
        /\ \A j \in InUse : b \notin Leaves(itable[j]) /\ b \notin MappedIn(block, itable[j])
    BY <1>7, <1>8, <1>10, <2>1, Zenon DEF Uses
  <2>3. DiskKinds /\ TreeKinds(block, InUse, op.inode) BY <1>2, InsertFacts, Zenon
  <2> QED BY <2>2, <2>3, OutsideKinds, Zenon
<1>12. Leaves(op'.inode) = {op.got} /\ MappedIn(block', op'.inode) = MappedIn(block, op.inode)
  <2>1. TreeOnce(block, op.inode) BY <1>3, Zenon DEF HeldOnce
  <2>2. block'[op.got].ents = op.inode.ents BY <1>6, <1>9, Zenon
  <2>3. op'.inode.depth = 1 /\ op'.inode.ents = <<e>> /\ e.pb = op.got BY <1>5, <1>6, Zenon
  <2>4. op.inode.depth = 0 /\ op.got \notin Uses(block, op.inode) BY <1>3, <1>10, Zenon
  <2> QED BY <2>1, <2>2, <2>3, <2>4, Deepened
<1>13. TreeKinds(block', InUse, op'.inode) BY <1>5, <1>6, <1>9, <1>11, <1>12 DEF TreeKinds
<1>14. Names(block, InUse, op.pb) => Names(block', InUse, op.pb)
  <2>1. op.pb \in Fsb BY <1>2, InsertFacts, Zenon
  <2>2. block'[op.pb] = block[op.pb] BY <1>3, <1>8, <2>1, Written, Zenon
  <2> QED BY <2>2, Zenon DEF Names
<1>15. op'.at # "split_new" /\ op'.at \in Inserting BY <1>4, Zenon DEF Inserting
<1> QED BY <1>2, <1>4, <1>5, <1>11, <1>13, <1>14, <1>15, InsertGoesOn, Zenon

LEMMA PlaceKinds ==
  ASSUME Inv, OwnInv, KindInv, Place
  PROVE  KindInv'
<1>1. op.at \in {"place", "insert"} /\ op.at # "idle" BY Zenon DEF Place
<1>2. op.at \in Inserting BY <1>1, Zenon DEF Inserting
<1>3. /\ Goal = op.at /\ ~Creating /\ op.pb \in Fsb
      /\ op.inode.kind = "dir" => Names(block, InUse, op.pb)
      /\ itable[op.ino].kind = "dir" => Names(block, InUse, op.pb)
      /\ op.after_insert \in {"mapped", "dir_inode"}
  BY <1>2, InsertFacts, Zenon
<1>4. HeldOnce /\ Fresh(op.pb) BY <1>1, <1>3, Zenon DEF OwnInv, OpOnce, NewBlocks
<1>5. op.inode.ents # <<>> /\ op.inode.depth # 0
  BY <1>1, <1>3 DEF Place, OwnInv, OpOnce, NewBlocks, Inv, OpSound, Sound
<1>6. op.pb \in Marked BY <1>1, Zenon DEF Inv, OpSound, Holding
<1> DEFINE ents == block[Rightmost].ents
<1>7. Rightmost \in Leaves(op.inode) /\ ents \in Lists BY <1>5, RightmostNode, Zenon
<1>8. CASE op.tries # 2 /\ Fits(ents, LeafMax, op.lb, op.pb)
  <2> DEFINE l == Extended(ents, op.lb, op.pb)
             d == op.dirty \/ (op.after_insert = "dir_inode"
                                 /\ Rightmost \in Leaves(itable[op.ino]))
  <2>1. WriteBlock(Rightmost, Leaf(l)) BY <1>8, Zenon DEF Place
  <2>2. op' = [op EXCEPT !.at = op.after_insert, !.tries = 0, !.dirty = d] BY <1>8, Zenon DEF Place
  <2>3. Once(ents) /\ Blocks(ents) \subseteq Uses(block, op.inode)
    BY <1>4, <1>5, <1>7, Zenon DEF HeldOnce, TreeOnce, Uses, MappedIn
  <2>4. Once(l) /\ Blocks(l) \subseteq Blocks(ents) \cup {op.pb}
    BY <1>4, <1>6, <1>7, <2>3, MarkedInt, ExtendedOnce DEF Inv, OpSound, Lists, Fresh
  <2>5. Leaf(l).ents = l /\ Leaf(l).kind = "leaf" BY Zenon DEF Leaf, Content
  <2> HIDE DEF l, d
  <2>6. /\ DiskKinds' /\ InUse' = InUse /\ itable' = itable /\ TreeKinds(block', InUse, op.inode)
        /\ \A p \in Fsb : Names(block, InUse, p) => Names(block', InUse, p)
    <3>1. PICK x : x = Rightmost BY Zenon
    <3>2. PICK c : c = Leaf(l) BY Zenon
    <3>3. PICK P : P = {op.pb} BY Zenon
    <3>4. x \in Leaves(op.inode) /\ WriteBlock(x, c) /\ c.kind = "leaf"
      BY <1>7, <2>1, <2>5, <3>1, <3>2, Zenon
    <3>5. Once(c.ents) /\ Blocks(c.ents) \subseteq Blocks(block[x].ents) \cup P
      BY <2>4, <2>5, <3>1, <3>2, <3>3, Zenon
    <3>6. /\ \A p \in P : Fresh(p)
          /\ \A p \in P : p \in Fsb
          /\ op.inode.kind = "dir" => \A p \in P : Names(block, InUse, p)
          /\ itable[op.ino].kind = "dir" => \A p \in P : Names(block, InUse, p)
      BY <1>3, <1>4, <3>3, Zenon
    <3> QED BY <1>1, <1>3, <3>4, <3>5, <3>6, NodeKinds, Zenon
  <2>7. /\ op'.at = op.after_insert /\ op'.inode = op.inode /\ op'.ino = op.ino
        /\ op'.target = op.target /\ op'.pb = op.pb /\ op'.after_insert = op.after_insert
    BY <2>2, OpFacts, Zenon DEF NoOp
  <2>8. op'.at # "split_new" BY <1>3, <2>7
  <2> QED BY <1>2, <1>3, <2>6, <2>7, <2>8, InsertGoesOn, Zenon
<1>9. CASE ~(op.tries # 2 /\ Fits(ents, LeafMax, op.lb, op.pb))
  <2>1. CASE op.tries = 2 \/ Half(ents) = 0
    BY <1>9, <2>1, ReturnKinds, Zenon DEF Place, Abort, Return, disk
  <2>2. CASE ~(op.tries = 2 \/ Half(ents) = 0)
    <3>1. AllocBlock("split") BY <1>9, <2>2, Zenon DEF Place
    <3>2. "split" \in AllocFor \ {"new_inode"} BY Zenon DEF AllocFor
    <3> QED BY <1>1, <1>2, <1>3, <3>1, <3>2, AllocKinds, Zenon
  <2> QED BY <2>1, <2>2, Zenon
<1> QED BY <1>8, <1>9, Zenon

LEMMA SplitCutKinds ==
  ASSUME Inv, OwnInv, KindInv, SplitCut
  PROVE  KindInv'
<1>1. op.at = "split" /\ op.inode.ents # <<>> BY Zenon DEF SplitCut, Inv, OpSound, Splitting
<1>2. op.at \in Inserting BY <1>1, Zenon DEF Inserting
<1>3. /\ op.at # "idle" /\ Goal = op.at /\ ~Creating /\ op.pb \in Fsb /\ TreeKinds(block, InUse, op.inode)
  BY <1>2, InsertFacts, Zenon
<1>4. HeldOnce /\ op.inode.depth # 0 BY <1>1, <1>3, Zenon DEF OwnInv, OpOnce, NewBlocks
<1> DEFINE ents == block[Rightmost].ents
           d == op.dirty \/ Rightmost \in Leaves(itable[op.ino])
<1>5. Rightmost \in Leaves(op.inode) /\ ents \in Lists BY <1>1, <1>4, RightmostNode, Zenon
<1>6. WriteBlock(Rightmost, Leaf(Kept(ents))) BY Zenon DEF SplitCut
<1>7. op' = [op EXCEPT !.at = "split_new", !.moved = Moved(ents), !.dirty = d] BY Zenon DEF SplitCut
<1>8. Once(ents) BY <1>4, <1>5, Zenon DEF HeldOnce, TreeOnce
<1>9. /\ Once(Kept(ents)) /\ Blocks(Kept(ents)) \subseteq Blocks(ents)
      /\ Blocks(Moved(ents)) \subseteq Blocks(ents)
  BY <1>5, <1>8, HalvesOnce, Zenon DEF Lists
<1>10. Leaf(Kept(ents)).ents = Kept(ents) /\ Leaf(Kept(ents)).kind = "leaf"
  BY Zenon DEF Leaf, Content
<1>11. /\ DiskKinds' /\ InUse' = InUse /\ itable' = itable /\ TreeKinds(block', InUse, op.inode)
       /\ \A p \in Fsb : Names(block, InUse, p) => Names(block', InUse, p)
  <2>1. PICK P : P = {} BY Zenon
  <2>2. PICK x : x = Rightmost BY Zenon
  <2>3. PICK c : c = Leaf(Kept(ents)) BY Zenon
  <2>4. x \in Leaves(op.inode) /\ WriteBlock(x, c) /\ c.kind = "leaf"
    BY <1>5, <1>6, <1>10, <2>2, <2>3, Zenon
  <2>5. Once(c.ents) /\ Blocks(c.ents) \subseteq Blocks(block[x].ents) \cup P
    BY <1>9, <1>10, <2>2, <2>3, Zenon
  <2>6. \A p \in P : Fresh(p) /\ p \in Fsb /\ Names(block, InUse, p) BY <2>1, Zenon
  <2> QED BY <1>3, <2>4, <2>5, <2>6, NodeKinds, Zenon
<1> HIDE DEF d
<1>12. /\ op'.at = "split_new" /\ op'.moved = Moved(ents) /\ op'.inode = op.inode
       /\ op'.ino = op.ino /\ op'.target = op.target /\ op'.pb = op.pb
       /\ op'.after_insert = op.after_insert
  BY <1>7, OpFacts, Zenon DEF NoOp
<1>13. ASSUME op.inode.kind = "dir", NEW b \in Blocks(op'.moved) PROVE Names(block', InUse, b)
  <2>1. b \in Blocks(ents) BY <1>9, <1>12, Zenon
  <2>2. b \in MappedIn(block, op.inode) BY <1>4, <1>5, <2>1, Zenon DEF MappedIn
  <2>3. Names(block, InUse, b) BY <1>3, <1>13, <2>2, Zenon DEF TreeKinds
  <2>4. b \in Fsb BY <1>5, <2>1, ListMarked, MarkedInt, Zenon DEF Inv
  <2> QED BY <1>11, <2>3, <2>4, Zenon
<1>14. op'.at \in Inserting BY <1>12, Zenon DEF Inserting
<1> QED BY <1>2, <1>3, <1>11, <1>12, <1>13, <1>14, InsertGoesOn, Zenon

LEMMA SplitNewKinds ==
  ASSUME Inv, OwnInv, KindInv, SplitNew
  PROVE  KindInv'
<1>1. /\ op.at = "split_new" /\ op.got \in Marked /\ op.moved \in Lists /\ op.moved # <<>>
      /\ WriteBlock(op.got, Leaf(op.moved))
  BY Zenon DEF SplitNew, Inv, OpSound, Holding
<1>2. op.at \in Inserting BY <1>1, Zenon DEF Inserting
<1>3. /\ op.at # "idle" /\ Goal = op.at /\ ~Creating /\ op.pb \in Fsb /\ DiskKinds /\ HeldKinds
      /\ TreeKinds(block, InUse, op.inode)
  BY <1>2, InsertFacts, Zenon
<1>4. /\ HeldOnce /\ Fresh(op.got) /\ op.got # op.pb /\ op.inode.depth # 0
      /\ Once(op.moved) /\ op.got \notin Blocks(op.moved)
      /\ Blocks(op.moved) \cap Uses(block, op.inode) = {}
  BY <1>1, <1>3, Zenon DEF OwnInv, OpOnce, NewBlocks, MovedOnce
<1> DEFINE c == Leaf(op.moved)
<1>5. WriteBlock(op.got, c) /\ c.ents = op.moved /\ c.kind = "leaf" BY <1>1, Zenon DEF Leaf, Content
<1> HIDE DEF c
<1>6. op.got \in Fsb /\ Blocks(op.moved) \subseteq Fsb BY <1>1, ListMarked, MarkedInt, Zenon DEF Inv
<1>7. /\ DiskKinds' /\ InUse' = InUse /\ itable' = itable /\ gd' = gd
      /\ MappedIn(block', op.inode) = MappedIn(block, op.inode)
      /\ TreeKinds(block', InUse, op.inode)
  <2>1. PICK b : b = op.got BY Zenon
  <2>2. /\ WriteBlock(b, c) /\ b \in Fsb /\ b \notin Leaves(op.inode) /\ b \notin MappedIn(block, op.inode)
        /\ \A j \in InUse : b \notin Leaves(itable[j]) /\ b \notin MappedIn(block, itable[j])
    BY <1>4, <1>5, <1>6, <2>1, Zenon DEF Uses, Fresh
  <2> QED BY <1>3, <2>2, OutsideKinds, Zenon
<1>8. CASE Len(op.inode.ents) >= RootMax
  <2>1. op' = NoOp BY <1>8, Zenon DEF SplitNew, Return
  <2> QED BY <1>7, <2>1, IdleKinds, Zenon
<1>9. CASE ~(Len(op.inode.ents) >= RootMax)
  <2> DEFINE e == IndexTo(Head(op.moved).lb, op.got)
             l == Append(op.inode.ents, e)
  <2>1. op' = [op EXCEPT !.at = "place", !.tries = @ + 1, !.moved = <<>>, !.inode.ents = l]
    BY <1>9, Zenon DEF SplitNew
  <2>2. Head(op.moved).lb \in Int BY <1>1 DEF Lists, Over
  <2>3. e \in Over(Marked) BY <1>1, <2>2, MarkedInt, OneEntry, Zenon DEF IndexTo, Inv
  <2>4. e.pb = op.got BY Zenon DEF IndexTo, Extent
  <2>5. op.inode.ents \in Seq(Over(Marked)) BY OpFacts, Zenon DEF Sound, Lists
  <2>6. block'[op.got] = c BY <1>5, <1>6, Written, Zenon
  <2>7. \A y \in Uses(block, op.inode) : block'[y] = block[y]
    BY <1>4, <1>5, Written, Zenon DEF Fresh
  <2> HIDE DEF e
  <2>8. /\ op'.at = "place" /\ op'.inode = [op.inode EXCEPT !.ents = l]
        /\ op'.ino = op.ino /\ op'.target = op.target /\ op'.pb = op.pb
        /\ op'.after_insert = op.after_insert
    <3> HIDE DEF l
    <3> QED BY <2>1, OpFacts, Zenon DEF NoOp
  <2>9. op'.inode.ents = l /\ op'.inode.depth = op.inode.depth BY <2>8, OpFacts, Zenon DEF Sound
  <2>10. op'.inode.kind = op.inode.kind
    <3> HIDE DEF l
    <3> QED BY <2>8, OpFacts DEF Sound
  <2>11. /\ Leaves(op'.inode) = Leaves(op.inode) \cup {op.got}
         /\ MappedIn(block', op'.inode) = MappedIn(block, op.inode) \cup Blocks(op.moved)
    <3>1. PICK q : q = op'.inode BY Zenon
    <3>2. PICK r : r = op.inode BY Zenon
    <3>3. PICK new : new = block' BY Zenon
    <3>4. PICK x : x = op.got BY Zenon
    <3>5. PICK k \in Nat : k = Len(r.ents) BY <2>5, <3>2
    <3>6. /\ q.depth # 0 /\ r.depth # 0
          /\ DOMAIN r.ents = 1 .. k /\ DOMAIN q.ents = 1 .. k + 1 /\ q.ents[k + 1].pb = x
          /\ \A n \in 1 .. k : q.ents[n] = r.ents[n]
      <4>1. /\ DOMAIN l = 1 .. k + 1 /\ l[k + 1] = e
            /\ \A n \in 1 .. k : l[n] = op.inode.ents[n]
            /\ DOMAIN op.inode.ents = 1 .. k
        BY <2>3, <2>5, <3>2, <3>5
      <4> HIDE DEF l
      <4> QED BY <1>4, <2>4, <2>9, <3>1, <3>2, <3>4, <4>1, Zenon
    <3>7. /\ \A y \in Leaves(r) : new[y] = block[y]
          /\ TreeOnce(block, r) /\ x \notin Uses(block, r)
          /\ Once(new[x].ents) /\ x \notin Blocks(new[x].ents) /\ Blocks(new[x].ents) \cap Uses(block, r) = {}
      BY <1>4, <1>5, <2>6, <2>7, <3>2, <3>3, <3>4, Zenon DEF Uses, HeldOnce, Fresh
    <3>8. /\ Leaves(q) = Leaves(r) \cup {x}
          /\ MappedIn(new, q) = MappedIn(block, r) \cup Blocks(new[x].ents)
      <4>1. LeafMore(block, new, r, q, x) BY <3>5, <3>6, <3>7, Zenon DEF LeafMore
      <4> QED BY <3>7, <4>1, LeafAdded
    <3> QED BY <1>5, <2>6, <3>1, <3>2, <3>3, <3>4, <3>8, Zenon
  <2>12. TreeKinds(block', InUse, op'.inode)
    <3>1. \A y \in Leaves(op'.inode) : block'[y].kind = "leaf"
      BY <1>5, <1>7, <2>6, <2>11, Zenon DEF TreeKinds
    <3>2. ASSUME op'.inode.kind = "dir", NEW b \in MappedIn(block', op'.inode) PROVE Names(block', InUse, b)
      <4>1. CASE b \in MappedIn(block, op.inode) BY <1>7, <2>10, <3>2, <4>1, Zenon DEF TreeKinds
      <4>2. CASE b \in Blocks(op.moved)
        <5>1. Names(block, InUse, b) BY <1>1, <1>3, <2>10, <3>2, <4>2, Zenon DEF HeldKinds
        <5>2. block'[b] = block[b]
          <6>1. b \in Fsb /\ b # op.got BY <1>4, <1>6, <4>2, Zenon
          <6> QED BY <1>5, <6>1, Written, Zenon
        <5> QED BY <5>1, <5>2, Zenon DEF Names
      <4> QED BY <2>11, <3>2, <4>1, <4>2, Zenon
    <3> QED BY <3>1, <3>2, Zenon DEF TreeKinds
  <2>13. Names(block, InUse, op.pb) => Names(block', InUse, op.pb)
    <3>1. block'[op.pb] = block[op.pb] BY <1>3, <1>4, <1>5, Written, Zenon
    <3> QED BY <3>1, Zenon DEF Names
  <2>14. op'.at # "split_new" /\ op'.at \in Inserting BY <2>8, Zenon DEF Inserting
  <2> QED BY <1>2, <1>7, <2>8, <2>10, <2>12, <2>13, <2>14, InsertGoesOn, Zenon
<1> QED BY <1>8, <1>9, Zenon

-----------------------------------------------------------------------------
(* What the calls do to the kinds *)

\* write_inode puts a tree in kind in place of an inode outside the unused tail.
LEMMA PutKinds ==
  ASSUME Inv, DiskKinds, NEW i \in Ino, NEW r, r.kind # "free", OutsideTail(i),
         TreeKinds(block, InUse \cup {i}, r), itable' = [itable EXCEPT ![i] = r],
         block' = block, gd' = gd
  PROVE  /\ DiskKinds' /\ InUse' = InUse \cup {i} /\ itable'[i] = r
         /\ \A j \in InUse \ {i} : itable'[j] = itable[j]
<1>1. DOMAIN itable = Ino BY Zenon DEF Inv, DiskSound
<1>2. itable'[i] = r /\ \A j \in Ino \ {i} : itable'[j] = itable[j] BY <1>1, Zenon
<1>3. InUse' = InUse \cup {i} BY <1>2, Zenon DEF InUse
<1>4. ASSUME NEW j \in InUse' PROVE TreeKinds(block', InUse', itable'[j])
  <2>1. CASE j = i BY <1>2, <1>3, <2>1, Zenon
  <2>2. CASE j # i
    <3>1. j \in InUse /\ itable'[j] = itable[j] BY <1>2, <1>3, <2>2, Zenon DEF InUse
    <3>2. TreeKinds(block, InUse, itable[j]) /\ InUse \subseteq InUse'
      BY <1>3, <3>1, Zenon DEF DiskKinds
    <3> QED BY <3>1, <3>2, Zenon DEF TreeKinds, Names
  <2> QED BY <2>1, <2>2, Zenon
<1>5. \A j \in InUse' : OutsideTail(j)' BY <1>3, Zenon DEF DiskKinds, OutsideTail
<1> QED BY <1>2, <1>3, <1>4, <1>5, Zenon DEF DiskKinds, InUse

LEMMA WriteEnterKinds ==
  ASSUME Inv, KindInv, NEW i \in Ino, NEW lb, NEW n, WriteEnter(i, lb, n)
  PROVE  KindInv'
<1>1. itable[i].kind = "file" /\ UNCHANGED <<gd, itable, block>> BY Zenon DEF WriteEnter, disk
<1>2. op' = [NoOp EXCEPT !.at = "write", !.ino = i, !.inode = itable[i], !.lb = lb,
                         !.first = lb, !.end = lb + n, !.after_insert = "mapped"]
  BY Zenon DEF WriteEnter
<1>3. op'.at = "write" /\ op'.ino = i /\ op'.inode = itable[i] /\ op'.after_insert = "mapped"
  BY <1>2, Zenon DEF NoOp
<1>4. DiskKinds' /\ InUse' = InUse BY <1>1, SameDisk, Zenon DEF KindInv
<1>5. i \in InUse' BY <1>1, Zenon DEF InUse
<1>6. Goal' = "write" /\ ~Creating' BY <1>3, Zenon DEF Goal, InAlloc, Creating
<1>7. HeldKinds' BY <1>1, <1>3, <1>4, <1>5, <1>6, Zenon DEF HeldKinds, Owners, DiskKinds
<1>8. Writing' BY <1>1, <1>3, <1>6, Zenon DEF Writing
<1> QED BY <1>4, <1>7, <1>8, Zenon DEF KindInv, OpKinds

\* write_file puts data only into blocks of its own file.
LEMMA StoreDataKinds ==
  ASSUME Least, Inv, OwnInv, KindInv, op.at \in {"write", "mapped"},
         NEW b \in map_block(op.inode, op.lb), StoreData(b)
  PROVE  KindInv'
<1>1. Goal = op.at /\ ~Creating /\ Owner = op.ino BY Zenon DEF Goal, InAlloc, Creating, Owner
<1>2. PICK c : WriteBlock(b, c) BY Zenon DEF StoreData
<1>3. PICK a \in {"write_inode", "write"} : op' = [op EXCEPT !.at = a, !.lb = op.lb + 1]
  BY Zenon DEF StoreData
<1>4. /\ op'.at = a /\ op'.inode = op.inode /\ op'.ino = op.ino /\ op'.target = op.target
      /\ op'.after_insert = op.after_insert
  BY <1>3, OpFacts, Zenon DEF NoOp
<1>5. Goal' = a /\ ~Creating' BY <1>4, Zenon DEF Goal, InAlloc, Creating
<1>6. b \notin Leaves(op.inode) /\ \A j \in InUse : b \notin Leaves(itable[j])
  BY <1>1, OpFacts, MappedIsNoNode, Zenon
<1>7. Writing
  <2>1. Writing \/ Making \/ Naming BY Zenon DEF KindInv, OpKinds
  <2>2. ~Making BY <1>1, Zenon DEF Making
  <2>3. ~Naming BY <1>1, Zenon DEF Naming, Inserting
  <2> QED BY <2>1, <2>2, <2>3, Zenon
<1>8. op.inode.kind = "file" /\ itable[op.ino].kind = "file" BY <1>7, Zenon DEF Writing
<1>9. b \in Uses(block, op.inode)
  <2>1. b \in MappedIn(block, op.inode) BY OpFacts, MapsInside, Zenon DEF Inv
  <2> QED BY <2>1, Zenon DEF Uses
<1>10. b \in Fsb BY <1>9, AllMarked, MarkedInt, Zenon DEF Inv
<1>11. ASSUME NEW j \in InUse, itable[j].kind = "dir" PROVE b \notin MappedIn(block, itable[j])
  <2>1. j # op.ino BY <1>8, <1>11
  <2>2. HeldOnce BY Zenon DEF OwnInv, OpOnce
  <2>3. Uses(block, op.inode) \cap Uses(block, itable[j]) = {}
    BY <1>1, <2>1, <2>2, Zenon DEF HeldOnce
  <2> QED BY <1>9, <2>3, Zenon DEF Uses
<1>12. DiskKinds /\ TreeKinds(block, InUse, op.inode)
  BY <1>1, Zenon DEF KindInv, OpKinds, HeldKinds, Owners
<1>13. op.inode.kind # "dir" BY <1>8
<1>14. /\ DiskKinds' /\ InUse' = InUse /\ itable' = itable
       /\ TreeKinds(block', InUse, op.inode)
  BY <1>2, <1>6, <1>10, <1>11, <1>12, <1>13, OutsideKinds, Zenon
<1>15. HeldKinds' BY <1>4, <1>5, <1>14, Zenon DEF HeldKinds, Owners
<1>16. Writing' BY <1>4, <1>5, <1>7, <1>14, Zenon DEF Writing
<1> QED BY <1>14, <1>15, <1>16, Zenon DEF KindInv, OpKinds

LEMMA WriteEndKinds ==
  ASSUME Inv, OwnInv, KindInv, WriteEnd
  PROVE  KindInv'
<1> DEFINE r == [op.inode EXCEPT !.size = NewSize(op.inode), !.blocks = recount_blocks(op.inode)]
<1>1. op.at = "write_inode" /\ op' = NoOp BY Zenon DEF WriteEnd
<1>2. itable' = [itable EXCEPT ![op.ino] = r] /\ block' = block /\ gd' = gd
  BY Zenon DEF WriteEnd, write_inode
<1>3. r.depth = op.inode.depth /\ r.ents = op.inode.ents BY OpFacts, Zenon DEF Sound
<1>4. r.kind = op.inode.kind BY OpFacts DEF Sound
<1> HIDE DEF r
<1>5. Goal = "write_inode" /\ ~Creating BY <1>1, Zenon DEF Goal, InAlloc, Creating
<1>6. Writing \/ Making \/ Naming BY <1>1, Zenon DEF KindInv, OpKinds
<1>7. op.inode.kind = "file" /\ itable[op.ino].kind = "file"
  BY <1>5, <1>6, Zenon DEF Writing, Making, Naming, Inserting
<1>8. op.ino \in Ino BY <1>1, OpFacts, Zenon
<1>9. op.ino \in InUse BY <1>7, <1>8, Zenon DEF InUse
<1>10. DiskKinds /\ OutsideTail(op.ino) /\ TreeKinds(block, InUse, op.inode)
  BY <1>1, <1>5, <1>9, Zenon DEF KindInv, DiskKinds, OpKinds, HeldKinds, Owners
<1>11. PICK i \in Ino : i = op.ino BY <1>8, Zenon
<1>12. TreeKinds(block, InUse \cup {i}, r) BY <1>3, <1>4, <1>10, MoreInodes, Zenon
<1>13. r.kind # "free" /\ OutsideTail(i) BY <1>4, <1>7, <1>10, <1>11
<1>14. DiskKinds' BY <1>2, <1>10, <1>11, <1>12, <1>13, PutKinds, Zenon
<1> QED BY <1>1, <1>14, IdleKinds, Zenon

LEMMA WriteStepKinds ==
  ASSUME Least, Inv, OwnInv, KindInv, WriteStep
  PROVE  KindInv'
<1>1. CASE WriteUnmapped
  <2>1. "insert" \in AllocFor \ {"new_inode"} BY Zenon DEF AllocFor
  <2>2. op.at = "write" /\ AllocBlock("insert") BY <1>1, Zenon DEF WriteUnmapped
  <2>3. ~Creating BY <2>2, Zenon DEF Goal, InAlloc, Creating
  <2> QED BY <2>1, <2>2, <2>3, AllocKinds, Zenon
<1>2. CASE WriteOver BY <1>2, StoreDataKinds, Zenon DEF WriteOver
<1>3. CASE WriteFresh
  <2>1. CASE map_block(op.inode, op.lb) = {}
    BY <1>3, <2>1, ReturnKinds, Zenon DEF WriteFresh, Abort, Return, disk
  <2>2. CASE map_block(op.inode, op.lb) # {} BY <1>3, <2>2, StoreDataKinds, Zenon DEF WriteFresh
  <2> QED BY <2>1, <2>2, Zenon
<1>4. CASE WriteEnd BY <1>4, WriteEndKinds, Zenon
<1> QED BY <1>1, <1>2, <1>3, <1>4, Zenon DEF WriteStep

LEMMA CreateEnterKinds ==
  ASSUME Inv, KindInv, NEW dir \in Ino, NEW name, NEW kind \in {"file", "dir"},
         CreateEnter(dir, name, kind)
  PROVE  KindInv'
<1> DEFINE r == [FreeInode EXCEPT !.kind = kind, !.links = IF kind = "dir" THEN 2 ELSE 1]
<1>1. UNCHANGED <<gd, itable, block>> /\ itable[dir].kind = "dir" BY Zenon DEF CreateEnter
<1>2. PICK i : op' = [NoOp EXCEPT !.at = "group", !.after_alloc = "new_inode", !.ino = dir,
                                  !.target = i, !.name = name, !.kind = kind, !.inode = r]
  BY Zenon DEF CreateEnter
<1>3. r.depth = 0 /\ r.ents = <<>> /\ r.kind = kind BY Zenon DEF FreeInode
<1> HIDE DEF r
<1>4. /\ op'.at = "group" /\ op'.after_alloc = "new_inode" /\ op'.ino = dir
      /\ op'.inode = r /\ op'.after_insert = "none"
  BY <1>2, Zenon DEF NoOp
<1>5. DiskKinds' BY <1>1, SameDisk, Zenon DEF KindInv
<1>6. Leaves(r) = {} /\ MappedIn(block', r) = {}
  <2>1. DOMAIN r.ents = {} BY <1>3
  <2> QED BY <1>3, <2>1, Zenon DEF Leaves, Blocks, MappedIn
<1>7. Creating' BY <1>4, Zenon DEF Goal, InAlloc, Creating
<1>8. HeldKinds' BY <1>4, <1>6, Zenon DEF HeldKinds, TreeKinds
<1>9. Making' BY <1>1, <1>3, <1>4, <1>7, Zenon DEF Making
<1> QED BY <1>5, <1>8, <1>9, Zenon DEF KindInv, OpKinds

\* create is making an inode.
LEMMA MakingFacts ==
  ASSUME Inv, OwnInv, KindInv, op.at \in {"new_inode", "new_dir", "init_inode"}
  PROVE  /\ op.at # "idle" /\ Goal = op.at /\ Creating /\ Making /\ OutsideTail(op.target)
         /\ op.target \in Ino \ InUse /\ op.ino \in InUse /\ op.inode.depth = 0
         /\ DiskKinds /\ TreeKinds(block, InUse \cup {op.target}, op.inode)
<1>1. op.at # "idle" /\ Goal = op.at /\ Creating BY Zenon DEF Goal, InAlloc, Creating
<1>2. Writing \/ Making \/ Naming BY <1>1, Zenon DEF KindInv, OpKinds
<1>3. ~Writing BY <1>1, Zenon DEF Writing, Inserting
<1>4. ~Naming BY <1>1, Zenon DEF Naming, Inserting
<1>5. Making /\ OutsideTail(op.target) BY <1>2, <1>3, <1>4, Zenon DEF Making
<1>6. op.target \in Ino \ InUse /\ op.ino \in InUse /\ op.inode.depth = 0
  BY <1>1, Zenon DEF OwnInv, OpOnce, HeldOnce
<1> QED BY <1>1, <1>5, <1>6, Zenon DEF KindInv, OpKinds, HeldKinds, Owners

\* The first block of a directory names the directory itself and its parent.
LEMMA NewDirKinds ==
  ASSUME Inv, OwnInv, KindInv, NewDir
  PROVE  KindInv'
<1>1. op.at = "new_dir" /\ op.got \in Marked BY Zenon DEF NewDir, Inv, OpSound, Holding
<1>2. op.at \in {"new_inode", "new_dir", "init_inode"} BY <1>1, Zenon
<1>3. /\ Goal = op.at /\ Making /\ OutsideTail(op.target) /\ op.ino \in InUse /\ op.inode.depth = 0
      /\ DiskKinds /\ TreeKinds(block, InUse \cup {op.target}, op.inode)
  BY <1>2, MakingFacts, Zenon
<1>4. Fresh(op.got) BY <1>1, <1>3, Zenon DEF OwnInv, OpOnce, NewBlocks
<1>5. PICK c : c = Dir({<<".", op.target>>, <<"..", op.ino>>}) BY Zenon
<1>6. c.kind = "dir" /\ c.names = {<<".", op.target>>, <<"..", op.ino>>}
  BY <1>5, Zenon DEF Dir, Content
<1>7. PICK U : U = InUse \cup {op.target} BY Zenon
<1>8. PICK b : b = op.got BY Zenon
<1>9. WriteBlock(b, c) BY <1>5, <1>8, Zenon DEF NewDir
<1>10. b \in Fsb BY <1>1, <1>8, MarkedInt, Zenon DEF Inv
<1>11. \A e \in c.names : e[2] \in U BY <1>3, <1>6, <1>7
<1>12. Names(block', U, b)
  <2>1. block'[b] = c BY <1>9, <1>10, Written, Zenon
  <2> QED BY <1>6, <1>11, <2>1, Zenon DEF Names
<1>13. /\ DiskKinds' /\ InUse' = InUse /\ itable' = itable /\ gd' = gd
  <2>1. /\ b \notin Leaves(op.inode) /\ b \notin MappedIn(block, op.inode)
        /\ \A j \in InUse : b \notin Leaves(itable[j]) /\ b \notin MappedIn(block, itable[j])
    BY <1>4, <1>8, Zenon DEF Fresh, Uses
  <2>2. TreeKinds(block, U, op.inode) BY <1>3, <1>7, Zenon
  <2> QED BY <1>3, <1>9, <1>10, <2>1, <2>2, OutsideKinds, Zenon
<1>14. op' = [op EXCEPT !.at = "init_inode", !.inode.size = 1, !.inode.blocks = 1,
                        !.inode.ents = <<Extent(0, 1, op.got)>>]
  BY Zenon DEF NewDir
<1>15. /\ op'.at = "init_inode" /\ op'.ino = op.ino /\ op'.target = op.target
       /\ op'.after_insert = op.after_insert /\ op'.inode.kind = op.inode.kind
       /\ op'.inode.depth = 0 /\ op'.inode.ents = <<Extent(0, 1, op.got)>>
  <2>1. {"size", "depth", "ents"} \subseteq DOMAIN op.inode /\ DOMAIN op = DOMAIN NoOp
    BY OpFacts, Zenon DEF Sound
  <2>2. PICK l : l = <<Extent(0, 1, op.got)>> BY Zenon
  <2>3. op' = [op EXCEPT !.at = "init_inode",
                         !.inode = [[[op.inode EXCEPT !.size = 1] EXCEPT !.blocks = 1] EXCEPT !.ents = l]]
    BY <1>14, <2>1, <2>2, Zenon DEF NoOp
  <2>4. PICK q : q = [[[op.inode EXCEPT !.size = 1] EXCEPT !.blocks = 1] EXCEPT !.ents = l] BY Zenon
  <2>5. q.depth = op.inode.depth /\ q.ents = l BY <2>1, <2>4, Zenon
  <2>6. q.kind = op.inode.kind BY <2>1, <2>4
  <2>7. op' = [op EXCEPT !.at = "init_inode", !.inode = q] BY <2>3, <2>4, Zenon
  <2> QED BY <1>3, <2>1, <2>2, <2>5, <2>6, <2>7, Zenon DEF NoOp
<1>16. Leaves(op'.inode) = {} /\ MappedIn(block', op'.inode) \subseteq {b}
  <2>1. b \in Int BY <1>1, <1>8, MarkedInt, Zenon DEF Inv
  <2>2. PICK q : q = op'.inode BY Zenon
  <2>3. PICK new : new = block' BY Zenon
  <2>4. q.depth = 0 /\ q.ents = <<Extent(0, 1, b)>> BY <1>8, <1>15, <2>2, Zenon
  <2>5. Leaves(q) = {} /\ Uses(new, q) = {b} BY <2>1, <2>4, OneExtent
  <2> QED BY <2>2, <2>3, <2>5, Zenon DEF Uses
<1>17. Goal' = "init_inode" /\ Creating' BY <1>15, Zenon DEF Goal, InAlloc, Creating
<1>18. Owners' = U BY <1>7, <1>13, <1>15, <1>17, Zenon DEF Owners
<1>19. HeldKinds' BY <1>12, <1>15, <1>16, <1>18, Zenon DEF HeldKinds, TreeKinds
<1>20. OutsideTail(op.target)' BY <1>3, <1>13, <1>15, Zenon DEF OutsideTail
<1>21. Making' BY <1>3, <1>13, <1>15, <1>17, <1>20, Zenon DEF Making
<1> QED BY <1>13, <1>19, <1>21, Zenon DEF KindInv, OpKinds

\* The new inode is written before its name: then its name may be entered.
LEMMA InitInodeKinds ==
  ASSUME Inv, OwnInv, KindInv, InitInode
  PROVE  KindInv'
<1>1. /\ op.at \in {"init_inode", "new_inode"} /\ op' = [op EXCEPT !.at = "add_dirent", !.inode = itable[op.ino]]
      /\ itable' = [itable EXCEPT ![op.target] = op.inode] /\ block' = block /\ gd' = gd
  BY Zenon DEF InitInode, write_inode
<1>2. op.at \in {"new_inode", "new_dir", "init_inode"} BY <1>1, Zenon
<1>3. /\ Goal = op.at /\ Making /\ OutsideTail(op.target) /\ op.target \in Ino \ InUse /\ op.ino \in InUse
      /\ DiskKinds /\ TreeKinds(block, InUse \cup {op.target}, op.inode)
  BY <1>2, MakingFacts, Zenon
<1>4. op.inode.kind # "free" BY <1>3 DEF Making
<1>5. PICK i \in Ino : i = op.target BY <1>3, Zenon
<1>6. PICK r : r = op.inode BY Zenon
<1>7. /\ r.kind # "free" /\ OutsideTail(i) /\ TreeKinds(block, InUse \cup {i}, r)
      /\ itable' = [itable EXCEPT ![i] = r]
  BY <1>1, <1>3, <1>4, <1>5, <1>6, Zenon
<1>8. /\ DiskKinds' /\ InUse' = InUse \cup {i}
      /\ \A j \in InUse \ {i} : itable'[j] = itable[j]
  BY <1>1, <1>3, <1>7, PutKinds, Zenon
<1>9. itable'[op.ino] = itable[op.ino] /\ itable[op.ino].kind = "dir"
  BY <1>3, <1>5, <1>8, Zenon DEF Making
<1>10. /\ op'.at = "add_dirent" /\ op'.ino = op.ino /\ op'.target = op.target
       /\ op'.inode = itable[op.ino] /\ op'.after_insert = op.after_insert
  BY <1>1, OpFacts, Zenon DEF NoOp
<1>11. Goal' = "add_dirent" /\ ~Creating' BY <1>10, Zenon DEF Goal, InAlloc, Creating
<1>12. HeldKinds'
  <2>1. TreeKinds(block', InUse', itable'[op.ino]) BY <1>3, <1>8, Zenon DEF DiskKinds
  <2> QED BY <1>9, <1>10, <1>11, <2>1, Zenon DEF HeldKinds, Owners
<1>13. Naming'
  <2>1. op'.target \in InUse' BY <1>5, <1>8, <1>10, Zenon
  <2>2. op'.after_insert # "mapped" BY <1>3, <1>10, Zenon DEF Making
  <2>3. Goal' \notin Inserting BY <1>11, Zenon DEF Inserting
  <2> QED BY <1>9, <1>10, <1>11, <2>1, <2>2, <2>3, Zenon DEF Naming
<1> QED BY <1>8, <1>12, <1>13, Zenon DEF KindInv, OpKinds

\* create is entering the name of the inode it has made.
LEMMA NamingFacts ==
  ASSUME Inv, OwnInv, KindInv, op.at \in {"add_dirent", "dir_block", "dir_inode", "link"}
  PROVE  /\ op.at # "idle" /\ Goal = op.at /\ ~Creating /\ Naming /\ op.ino \in InUse
         /\ DiskKinds /\ TreeKinds(block, InUse, op.inode) /\ OutsideTail(op.ino)
<1>1. op.at # "idle" /\ Goal = op.at /\ ~Creating BY Zenon DEF Goal, InAlloc, Creating
<1>2. Writing \/ Making \/ Naming BY <1>1, Zenon DEF KindInv, OpKinds
<1>3. ~Writing BY <1>1, Zenon DEF Writing, Inserting
<1>4. Naming BY <1>1, <1>2, <1>3, Zenon DEF Making
<1>5. op.ino \in InUse
  <2>1. op.ino \in Ino BY <1>1, OpFacts, Zenon
  <2>2. itable[op.ino].kind # "free" BY <1>4 DEF Naming
  <2> QED BY <2>1, <2>2, Zenon DEF InUse
<1>6. DiskKinds /\ TreeKinds(block, InUse, op.inode)
  BY <1>1, Zenon DEF KindInv, OpKinds, HeldKinds, Owners
<1> QED BY <1>1, <1>4, <1>5, <1>6, Zenon DEF DiskKinds

\* A call that has entered its name goes on to the parent's link, or is over.
LEMMA NamedKinds ==
  ASSUME Inv, Naming, op' = Named, DiskKinds', TreeKinds(block', InUse', op.inode),
         InUse' = InUse, itable'[op.ino].kind = "dir"
  PROVE  KindInv'
<1>1. CASE op.kind = "dir"
  <2>1. op' = [op EXCEPT !.at = "link", !.dirty = FALSE] BY <1>1, Zenon DEF Named
  <2>2. /\ op'.at = "link" /\ op'.inode = op.inode /\ op'.ino = op.ino /\ op'.target = op.target
        /\ op'.after_insert = op.after_insert
    BY <2>1, OpFacts, Zenon DEF NoOp
  <2>3. Goal' = "link" /\ ~Creating' BY <2>2, Zenon DEF Goal, InAlloc, Creating
  <2>4. HeldKinds' BY <2>2, <2>3, Zenon DEF HeldKinds, Owners
  <2>5. Goal' \notin Inserting BY <2>3, Zenon DEF Inserting
  <2>6. Naming' BY <2>2, <2>3, <2>5, Zenon DEF Naming
  <2> QED BY <2>4, <2>6, Zenon DEF KindInv, OpKinds
<1>2. CASE op.kind # "dir" BY <1>2, IdleKinds, Zenon DEF Named
<1> QED BY <1>1, <1>2, Zenon

LEMMA AddDirentKinds ==
  ASSUME Least, Inv, OwnInv, KindInv, AddDirent
  PROVE  KindInv'
<1>1. op.at = "add_dirent" /\ op' = Named /\ WithRoom # {} BY Zenon DEF AddDirent
<1>2. op.at \in {"add_dirent", "dir_block", "dir_inode", "link"} BY <1>1, Zenon
<1>3. op.at # "idle" /\ ~Creating /\ Naming /\ DiskKinds /\ TreeKinds(block, InUse, op.inode)
  BY <1>2, NamingFacts, Zenon
<1>4. Min(WithRoom) \in Int
  <2>1. WithRoom \in SUBSET Nat BY OpFacts DEF WithRoom, Sound
  <2>2. \A x \in WithRoom : x \in Int BY <2>1
  <2>3. Min(WithRoom) \in WithRoom BY <1>1, <2>1, Zenon DEF Least
  <2> QED BY <2>2, <2>3, Zenon
<1>5. PICK lb \in Int : lb = Min(WithRoom) BY <1>4, Zenon
<1>6. PICK b \in map_block(op.inode, lb) :
        WriteBlock(b, Dir(block[b].names \cup {<<op.name, op.target>>}))
  BY <1>5, Zenon DEF AddDirent
<1>7. PICK c : c = Dir(block[b].names \cup {<<op.name, op.target>>}) BY Zenon
<1>8. WriteBlock(b, c) /\ c.kind = "dir" /\ c.names = block[b].names \cup {<<op.name, op.target>>}
  BY <1>6, <1>7, Zenon DEF Dir, Content
<1>9. b \notin Leaves(op.inode) /\ \A j \in InUse : b \notin Leaves(itable[j])
  BY <1>3, MappedIsNoNode, Zenon
<1>10. b \in MappedIn(block, op.inode) BY OpFacts, MapsInside, Zenon DEF Inv
<1>11. b \in Fsb
  <2>1. b \in Uses(block, op.inode) BY <1>10, Zenon DEF Uses
  <2> QED BY <2>1, AllMarked, MarkedInt, Zenon DEF Inv
<1>12. op.inode.kind = "dir" /\ op.target \in InUse /\ itable[op.ino].kind = "dir"
  BY <1>3, Zenon DEF Naming
<1>13. Names(block', InUse, b)
  <2>1. block'[b] = c BY <1>8, <1>11, Written, Zenon
  <2>2. Names(block, InUse, b) BY <1>3, <1>10, <1>12, Zenon DEF TreeKinds
  <2>3. \A e \in c.names : e[2] \in InUse BY <1>8, <1>12, <2>2 DEF Names
  <2> QED BY <1>8, <2>1, <2>3, Zenon DEF Names
<1>14. /\ DiskKinds' /\ InUse' = InUse /\ itable' = itable
       /\ TreeKinds(block', InUse, op.inode)
  BY <1>3, <1>8, <1>9, <1>11, <1>13, OutsideKinds, Zenon
<1> QED BY <1>1, <1>3, <1>12, <1>14, NamedKinds, Zenon

LEMMA AddDirentBlockKinds ==
  ASSUME Inv, OwnInv, KindInv, AddDirentBlock
  PROVE  KindInv'
<1>1. op.at = "dir_block" /\ op.pb \in Marked BY Zenon DEF AddDirentBlock, Inv, OpSound, Holding
<1>2. op.at \in {"add_dirent", "dir_block", "dir_inode", "link"} BY <1>1, Zenon
<1>3. Goal = op.at /\ Naming /\ DiskKinds /\ TreeKinds(block, InUse, op.inode)
  BY <1>2, NamingFacts, Zenon
<1>4. Fresh(op.pb) BY <1>1, <1>3, Zenon DEF OwnInv, OpOnce, NewBlocks
<1>5. op' = [op EXCEPT !.at = "insert", !.lb = op.inode.size, !.after_insert = "dir_inode"]
  BY Zenon DEF AddDirentBlock
<1>6. /\ op'.at = "insert" /\ op'.inode = op.inode /\ op'.ino = op.ino /\ op'.target = op.target
      /\ op'.pb = op.pb /\ op'.after_insert = "dir_inode"
  BY <1>5, OpFacts, Zenon DEF NoOp
<1>7. Goal' = "insert" /\ ~Creating' BY <1>6, Zenon DEF Goal, InAlloc, Creating
<1>8. PICK b : b = op.pb BY Zenon
<1>9. PICK c : c = Dir({<<op.name, op.target>>}) BY Zenon
<1>10. WriteBlock(b, c) /\ c.kind = "dir" /\ c.names = {<<op.name, op.target>>}
  BY <1>8, <1>9, Zenon DEF AddDirentBlock, Dir, Content
<1>11. b \in Fsb BY <1>1, <1>8, MarkedInt, Zenon DEF Inv
<1>12. Names(block', InUse, b)
  <2>1. block'[b] = c BY <1>10, <1>11, Written, Zenon
  <2>2. op.target \in InUse BY <1>3, Zenon DEF Naming
  <2>3. \A e \in c.names : e[2] \in InUse BY <1>10, <2>2
  <2> QED BY <1>10, <2>1, <2>3, Zenon DEF Names
<1>13. /\ DiskKinds' /\ InUse' = InUse /\ itable' = itable
       /\ TreeKinds(block', InUse, op.inode)
  <2>1. b \notin Leaves(op.inode) /\ \A j \in InUse : b \notin Leaves(itable[j])
    BY <1>4, <1>8, Zenon DEF Fresh, Uses
  <2> QED BY <1>3, <1>10, <1>11, <1>12, <2>1, OutsideKinds, Zenon
<1>14. HeldKinds' BY <1>6, <1>7, <1>13, Zenon DEF HeldKinds, Owners
<1>15. Naming'
  <2>1. Goal' \in Inserting BY <1>7, Zenon DEF Inserting
  <2>2. Names(block', InUse', op'.pb) BY <1>6, <1>8, <1>12, <1>13, Zenon
  <2> QED BY <1>3, <1>6, <1>13, <2>1, <2>2, Zenon DEF Naming
<1> QED BY <1>13, <1>14, <1>15, Zenon DEF KindInv, OpKinds

LEMMA AddDirentEndKinds ==
  ASSUME Inv, OwnInv, KindInv, AddDirentEnd
  PROVE  KindInv'
<1> DEFINE r == [op.inode EXCEPT !.size = @ + 1, !.blocks = recount_blocks(op.inode)]
<1>1. op.at = "dir_inode" /\ op' = Named BY Zenon DEF AddDirentEnd
<1>2. itable' = [itable EXCEPT ![op.ino] = r] /\ block' = block /\ gd' = gd
  BY Zenon DEF AddDirentEnd, write_inode
<1>3. r.depth = op.inode.depth /\ r.ents = op.inode.ents BY OpFacts, Zenon DEF Sound
<1>4. r.kind = op.inode.kind BY OpFacts DEF Sound
<1> HIDE DEF r
<1>5. op.at \in {"add_dirent", "dir_block", "dir_inode", "link"} BY <1>1, Zenon
<1>6. Naming /\ op.ino \in InUse /\ DiskKinds /\ TreeKinds(block, InUse, op.inode) /\ OutsideTail(op.ino)
  BY <1>5, NamingFacts, Zenon
<1>7. r.kind = "dir" BY <1>4, <1>6, Zenon DEF Naming
<1>8. PICK i \in Ino : i = op.ino BY <1>6, Zenon DEF InUse
<1>9. InUse \cup {i} = InUse BY <1>6, <1>8, Zenon
<1>10. TreeKinds(block, InUse \cup {i}, r) BY <1>3, <1>4, <1>6, MoreInodes, Zenon
<1>11. r.kind # "free" /\ OutsideTail(i) BY <1>6, <1>7, <1>8
<1>12. DiskKinds' /\ InUse' = InUse /\ itable'[i] = r
  BY <1>2, <1>6, <1>8, <1>9, <1>10, <1>11, PutKinds, Zenon
<1>13. TreeKinds(block', InUse', op.inode) /\ itable'[op.ino].kind = "dir"
  BY <1>2, <1>6, <1>7, <1>8, <1>12, Zenon
<1> QED BY <1>1, <1>6, <1>12, <1>13, NamedKinds, Zenon

LEMMA LinkParentKinds ==
  ASSUME Inv, OwnInv, KindInv, LinkParent
  PROVE  KindInv'
<1> DEFINE r == [itable[op.ino] EXCEPT !.links = @ + 1]
<1>1. op.at = "link" /\ op' = NoOp BY Zenon DEF LinkParent
<1>2. itable' = [itable EXCEPT ![op.ino] = r] /\ block' = block /\ gd' = gd
  BY Zenon DEF LinkParent, write_inode
<1>3. op.at \in {"add_dirent", "dir_block", "dir_inode", "link"} BY <1>1, Zenon
<1>4. Naming /\ op.ino \in InUse /\ DiskKinds /\ OutsideTail(op.ino) BY <1>3, NamingFacts, Zenon
<1>5. PICK i \in Ino : i = op.ino BY <1>4, Zenon DEF InUse
<1>6. Sound(itable[i]) BY <1>5, Zenon DEF Inv, DiskSound
<1>7. r.depth = itable[i].depth /\ r.ents = itable[i].ents /\ r.kind = itable[i].kind
  BY <1>5, <1>6 DEF Sound
<1> HIDE DEF r
<1>8. TreeKinds(block, InUse, itable[i]) BY <1>4, <1>5, Zenon DEF DiskKinds
<1>9. TreeKinds(block, InUse \cup {i}, r) BY <1>7, <1>8, MoreInodes, Zenon
<1>10. r.kind # "free" /\ OutsideTail(i) BY <1>4, <1>5, <1>7 DEF Naming
<1>11. DiskKinds' BY <1>2, <1>4, <1>5, <1>9, <1>10, PutKinds, Zenon
<1> QED BY <1>1, <1>11, IdleKinds, Zenon

LEMMA CreateStepKinds ==
  ASSUME Least, Inv, OwnInv, KindInv, CreateStep
  PROVE  KindInv'
<1>1. CASE NewDirBlock
  <2>1. "new_dir" \in AllocFor \ {"new_inode"} BY Zenon DEF AllocFor
  <2>2. op.at = "new_inode" /\ AllocBlock("new_dir") BY <1>1, Zenon DEF NewDirBlock
  <2>3. Creating BY <2>2, Zenon DEF Goal, InAlloc, Creating
  <2> QED BY <2>1, <2>2, <2>3, AllocKinds, Zenon
<1>2. CASE AddDirentGrow
  <2>1. "dir_block" \in AllocFor \ {"new_inode"} BY Zenon DEF AllocFor
  <2>2. op.at = "add_dirent" /\ AllocBlock("dir_block") BY <1>2, Zenon DEF AddDirentGrow
  <2>3. ~Creating BY <2>2, Zenon DEF Goal, InAlloc, Creating
  <2> QED BY <2>1, <2>2, <2>3, AllocKinds, Zenon
<1> QED BY <1>1, <1>2, NewDirKinds, InitInodeKinds, AddDirentKinds, AddDirentBlockKinds,
           AddDirentEndKinds, LinkParentKinds, Zenon DEF CreateStep

\* The root directory is before the tail of its group, and has a directory block.
LEMMA InitKinds == Init => KindInv
<1> SUFFICES ASSUME Init PROVE KindInv BY Zenon
<1>1. op.at = "idle" /\ ibm = {ROOT_INO} BY Zenon DEF Init, NoOp
<1>2. /\ ROOT_INO \in Ino /\ ROOT_INO \in Int /\ RootDirBlock \in Fsb /\ RootDirBlock \in Int
      /\ InodesPerGroup \in Nat \ {0}
  BY Ext4Assumption DEF Ext4Assumption, Ino, Fsb
<1>3. PICK p : p = (ROOT_INO - 1) % InodesPerGroup BY Zenon
<1>4. p \in Int BY <1>2, <1>3
<1>5. PICK h : h = GroupOfInode(ROOT_INO) BY Zenon
<1>6. h \in Group BY <1>2, <1>5, Ext4Assumption, Zenon DEF Ext4Assumption, GroupOfInode, Group, Ino
<1> DEFINE used(g) == {0} \cup {((i - 1) % InodesPerGroup) + 1 : i \in InodesOf(g) \cap ibm}
<1>7. /\ DOMAIN gd = Group
      /\ \A g \in Group : "unused" \in DOMAIN gd[g] /\ gd[g].unused = InodesPerGroup - Max(used(g))
  BY Zenon DEF Init
<1>8. used(h) = {0, p + 1}
  <2>1. InodesOf(h) \cap ibm = {ROOT_INO} BY <1>1, <1>2, <1>5, Zenon DEF InodesOf
  <2> QED BY <1>3, <2>1, Zenon
<1>9. ASSUME NEW g \in Group, g # h PROVE used(g) = {0, 0}
  <2>1. InodesOf(g) \cap ibm = {} BY <1>1, <1>5, <1>9, Zenon DEF InodesOf
  <2> QED BY <2>1, Zenon
<1> HIDE DEF used
<1>10. Max(used(h)) \in Int /\ p + 1 <= Max(used(h))
  <2>1. PICK q : q = p + 1 BY Zenon
  <2>2. q \in Int /\ 0 \in Int BY <1>4, <2>1
  <2> QED BY <1>8, <2>1, <2>2, MaxOfTwo, Zenon
<1>11. ASSUME NEW g \in Group PROVE gd[g].unused \in Int
  <2>1. Max({0, 0}) \in Int BY MaxOfTwo
  <2>2. Max(used(g)) \in Int BY <1>9, <1>10, <2>1, Zenon
  <2> QED BY <1>2, <1>7, <2>2
<1>12. OutsideTail(ROOT_INO)
  <2>1. gd[h].unused = InodesPerGroup - Max(used(h)) BY <1>6, <1>7, Zenon
  <2>2. p < InodesPerGroup - gd[h].unused BY <1>2, <1>4, <1>10, <2>1
  <2> QED BY <1>3, <1>5, <2>2, Zenon DEF OutsideTail
<1>13. InUse = {ROOT_INO}
  <2>1. \A i \in Ino \ {ROOT_INO} : itable[i] = FreeInode BY Zenon DEF Init
  <2>2. itable[ROOT_INO].kind = "dir" BY <1>2, Zenon DEF Init
  <2>3. FreeInode.kind = "free" BY Zenon DEF FreeInode
  <2>4. "dir" # "free" OBVIOUS
  <2> QED BY <1>2, <2>1, <2>2, <2>3, <2>4, Zenon DEF InUse
<1>14. PICK r : r = itable[ROOT_INO] BY Zenon
<1>15. r.depth = 0 /\ r.ents = <<Extent(0, 1, RootDirBlock)>> BY <1>2, <1>14, Zenon DEF Init
<1>16. Names(block, InUse, RootDirBlock)
  <2>1. block[RootDirBlock] = Dir({<<".", ROOT_INO>>, <<"..", ROOT_INO>>}) BY <1>2, Zenon DEF Init
  <2>2. /\ block[RootDirBlock].kind = "dir"
        /\ block[RootDirBlock].names = {<<".", ROOT_INO>>, <<"..", ROOT_INO>>}
    BY <2>1 DEF Dir, Content
  <2> QED BY <1>13, <2>2 DEF Names
<1>17. TreeKinds(block, InUse, r)
  <2>1. Uses(block, r) = {RootDirBlock} /\ Leaves(r) = {} BY <1>2, <1>15, OneExtent, Zenon
  <2>2. \A b \in MappedIn(block, r) : b = RootDirBlock BY <2>1, Zenon DEF Uses
  <2> QED BY <1>16, <2>1, <2>2, Zenon DEF TreeKinds
<1>18. DiskKinds BY <1>7, <1>11, <1>12, <1>13, <1>14, <1>17, Zenon DEF DiskKinds
<1> QED BY <1>1, <1>18, Zenon DEF KindInv, OpKinds

LEMMA NextKinds ==
  ASSUME Least, Inv, OwnInv, KindInv, [Next]_vars
  PROVE  KindInv'
<1>1. ASSUME NEW i \in Known, NEW lb \in 0 .. MaxSize[i] - 1, NEW n \in 1 .. MaxLen,
             WriteEnter(i, lb, n)
      PROVE  KindInv'
  <2>1. i \in Ino BY Zenon DEF Known
  <2> QED BY <1>1, <2>1, WriteEnterKinds, Zenon
<1>2. ASSUME NEW dir \in Known, NEW name \in Name, NEW kind \in {"file", "dir"},
             CreateEnter(dir, name, kind)
      PROVE  KindInv'
  <2>1. dir \in Ino BY Zenon DEF Known
  <2> QED BY <1>2, <2>1, CreateEnterKinds, Zenon
<1>3. CASE Step
  BY <1>3, CommitKinds, InsertRootKinds, DeepenKinds, PlaceKinds, SplitCutKinds, SplitNewKinds,
     WriteStepKinds, CreateStepKinds, Zenon DEF Step, InsertStep
<1>4. CASE Fail \/ Crash BY <1>4, ReturnKinds, Zenon DEF Fail, Crash, Return, disk
<1>5. CASE UNCHANGED vars
  <2>1. UNCHANGED <<gd, itable, block, op>> BY <1>5, Zenon DEF vars, disk
  <2>2. DiskKinds' /\ InUse' = InUse /\ \A i : OutsideTail(i)' <=> OutsideTail(i)
    BY <2>1, SameDisk, Zenon DEF KindInv
  <2>3. Goal' = Goal BY <2>1, Zenon DEF Goal, InAlloc
  <2>4. Creating' <=> Creating BY <2>3, Zenon DEF Creating
  <2>5. Owners' = Owners BY <2>1, <2>2, <2>4, Zenon DEF Owners
  <2>6. CASE op.at # "idle"
    <3>1. HeldKinds' BY <2>1, <2>2, <2>5, <2>6, Zenon DEF KindInv, OpKinds, HeldKinds
    <3>2. Writing => Writing' BY <2>1, <2>3, Zenon DEF Writing
    <3>3. Making => Making'
      <4>1. OutsideTail(op.target)' <=> OutsideTail(op.target) BY <2>1, Zenon DEF OutsideTail
      <4> QED BY <2>1, <2>4, <4>1, Zenon DEF Making
    <3>4. Naming => Naming' BY <2>1, <2>2, <2>3, Zenon DEF Naming
    <3> QED BY <2>2, <2>6, <3>1, <3>2, <3>3, <3>4, Zenon DEF KindInv, OpKinds
  <2>7. CASE op.at = "idle" BY <2>1, <2>2, <2>7, Zenon DEF KindInv, OpKinds
  <2> QED BY <2>6, <2>7, Zenon
<1> QED BY <1>1, <1>2, <1>3, <1>4, <1>5, Zenon DEF Next

\* What the names of a directory lead to.
LEMMA KindsRefs == ASSUME Least, Inv, KindInv PROVE RefsAllocated
<1>1. RefsMarked BY InvRefs, Zenon
<1>2. ASSUME NEW i \in InUse
      PROVE  /\ \A b \in Leaves(itable[i]) : block[b].kind = "leaf"
             /\ itable[i].kind = "dir" =>
                  \A b \in DirBlocks(itable[i]) :
                    block[b].kind = "dir" /\ \A e \in block[b].names : e[2] \in InUse
  <2>1. TreeKinds(block, InUse, itable[i]) BY Zenon DEF KindInv, DiskKinds
  <2>2. DiskSound /\ Sound(itable[i]) BY Zenon DEF Inv, DiskSound, InUse
  <2>3. DirBlocks(itable[i]) \subseteq MappedIn(block, itable[i])
    <3> SUFFICES ASSUME NEW lb \in 0 .. itable[i].size - 1
                 PROVE  map_block(itable[i], lb) \subseteq MappedIn(block, itable[i])
      BY Zenon DEF DirBlocks
    <3>1. lb \in Int OBVIOUS
    <3> QED BY <2>2, <3>1, MapsInside, Zenon
  <2> QED BY <2>1, <2>3, Zenon DEF TreeKinds, Names
<1>3. \A j \in InUse : (j - 1) % InodesPerGroup < InodesPerGroup - gd[GroupOfInode(j)].unused
  BY Zenon DEF KindInv, DiskKinds, OutsideTail
<1> QED BY <1>1, <1>2, <1>3, Zenon DEF RefsAllocated
=============================================================================
