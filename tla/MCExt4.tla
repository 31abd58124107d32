------------------------------- MODULE MCExt4 -------------------------------
(***************************************************************************)
(* Instances of Ext4 for TLC: two groups that begin with metadata, free    *)
(* space in pieces so that files soon have several extents, and trees and  *)
(* directories whose nodes are full after two or three entries.            *)
(***************************************************************************)
EXTENDS Ext4, TLC

CONSTANT Short  \* the names that fit beside what a directory starts with

MCReserved == {0, 14}
MCOccupied == {2, 4, 6, 8, 10, 12, 13, 15, 18, 20, 22, 24}
MCMaxSize == <<0, 9, 0, 0, 0>>
MCNameSize == [n \in Name |-> IF n \in Short THEN 1 ELSE 2]
Symmetry == Permutations(Name \ Short)

=============================================================================
