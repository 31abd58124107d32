----------------------------- MODULE Ext4Proofs -----------------------------
(***************************************************************************)
(* The theorems about the ext4 driver.  Ext4Trees and Ext4Kinds prove what *)
(* every step keeps; this module adds the facts about finite sets the      *)
(* steps assume and states the results.                                    *)
(***************************************************************************)
EXTENDS Ext4Kinds, FiniteSetTheorems

\* Every nonempty set of naturals has a least element, which Min picks.
LEMMA LeastHolds == Least
<1> SUFFICES ASSUME NEW S \in SUBSET Nat, S # {} PROVE Min(S) \in S BY DEF Least
<1>1. PICK m \in S : \A y \in S : ~(<<y, m>> \in OpToRel(<, Nat))
  BY NatLessThanWellFounded, WFMin, Zenon
<1>2. OpToRel(<, Nat) = {ss \in Nat \X Nat : ss[1] < ss[2]} BY DEF OpToRel
<1>3. ASSUME NEW y \in S PROVE m <= y
  <2>1. <<y, m>> \notin {ss \in Nat \X Nat : ss[1] < ss[2]} BY <1>1, <1>2, Zenon
  <2>2. <<y, m>> \in Nat \X Nat /\ y \in Nat /\ m \in Nat OBVIOUS
  <2> QED BY <2>1, <2>2
<1> QED BY <1>3, Zenon DEF Min

\* References that tell their blocks apart are as many as the blocks.
LEMMA OwnedOnce == Inv /\ OwnInv => BlocksOwnedOnce
<1> SUFFICES ASSUME Inv, OwnInv PROVE BlocksOwnedOnce OBVIOUS
<1> DEFINE R == References
           T == {r[5] : r \in R}
           f == [r \in R |-> r[5]]
<1>1. \A r, s \in R : r[5] = s[5] => r = s BY RefersOnce DEF OwnInv
<1>2. \A r \in R : r[5] \in Fsb BY ReferredMarked, MarkedInt DEF Inv, OwnInv
<1>3. IsFiniteSet(Fsb) BY Ext4Assumption, FS_Interval DEF Ext4Assumption, Fsb
<1>4. IsFiniteSet(T)
  <2>1. T \in SUBSET Fsb BY <1>2
  <2> QED BY <1>3, <2>1, FS_Subset
<1> HIDE DEF R
<1>5. f \in [R -> T] /\ \A r \in R : f[r] = r[5] OBVIOUS
<1>6. f \in Injection(R, T) BY <1>1, <1>5 DEF Injection, IsInjective
<1>7. f \in Surjection(R, T) BY <1>5 DEF Surjection
<1> HIDE DEF f, T
<1>8. Cardinality(R) = Cardinality(T) BY <1>4, <1>6, <1>7, FS_Injection
<1> QED BY <1>8 DEF BlocksOwnedOnce, R, T

\* At every moment the trees of the inodes on disk refer only to blocks and inodes that their
\* bitmaps mark, and to no reserved block: alloc_bit writes the bitmap before insert_extent,
\* write_inode or add_dirent can refer to what it allocated, and nothing clears a bit.
THEOREM ReferencesMarked == Spec => []RefsMarked
BY LeastHolds, InitInv, NextInv, InvRefs, PTL DEF Spec

\* At every moment no block has two owners: the inodes in use, the nodes of their trees and
\* their extents refer to every block at most once, although insert_extent, deepen and
\* place_in_rightmost_leaf write nodes of the tree on disk before write_inode stores the root,
\* and whichever failure or crash leaves the two apart.
THEOREM BlocksOwnedOnceHolds == Spec => []BlocksOwnedOnce
<1>1. Init => Inv /\ OwnInv BY InitInv, InitOwn
<1>2. Inv /\ OwnInv /\ [Next]_vars => (Inv /\ OwnInv)' BY LeastHolds, NextInv, NextOwn
<1> QED BY <1>1, <1>2, OwnedOnce, PTL DEF Spec

\* At every moment, and so after a crash at any moment, what the metadata on disk leads to is
\* allocated and initialised: nodes of trees are leaves that have been written, the blocks of
\* a directory hold entries, and an entry names an inode that write_inode has written and that
\* lies before the unused tail of its group's inode table.  deepen and
\* place_in_rightmost_leaf write a node before the index that leads to it, add_dirent a block
\* of entries before insert_extent maps it, and create the inode before the entry.
THEOREM RefsAllocatedHolds == Spec => []RefsAllocated
<1>1. Init => Inv /\ OwnInv /\ KindInv BY InitInv, InitOwn, InitKinds
<1>2. Inv /\ OwnInv /\ KindInv /\ [Next]_vars => (Inv /\ OwnInv /\ KindInv)'
  BY LeastHolds, NextInv, NextOwn, NextKinds
<1>3. Inv /\ OwnInv /\ KindInv => RefsAllocated BY LeastHolds, KindsRefs
<1> QED BY <1>1, <1>2, <1>3, PTL DEF Spec
=============================================================================
