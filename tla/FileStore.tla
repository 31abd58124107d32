------------------------------ MODULE FileStore ------------------------------
(***************************************************************************)
(* What a user of the file system sees: directories that bind names to     *)
(* inodes and files that have a size.  There is no operation that removes  *)
(* a name or shortens a file, and a name is bound to one inode that no     *)
(* other name has, by one step.  A directory that a call left torn may     *)
(* lose names; the other directories keep theirs.  Ext4 shows that its     *)
(* device writes, with crashes between them, never show anything else.     *)
(***************************************************************************)
EXTENDS Integers

CONSTANTS Ino, Name, ROOT_INO

VARIABLES
  bound,   \* the <<directory, name, inode>> triples
  size,    \* the sizes of the files that are bound
  torn     \* the inodes that a call left torn

vars == <<bound, size, torn>>

Init ==
  /\ bound = {}
  /\ size = [i \in {} |-> 0]
  /\ torn = {}

Unbound(i) == \A t \in bound : t[3] # i
IsFree(dir, name) == \A t \in bound : t[1] # dir \/ t[2] # name

\* A name comes into existence for a directory or for an empty file.
Bind(dir, name, i) ==
  /\ dir = ROOT_INO \/ ~Unbound(dir)
  /\ i # ROOT_INO /\ Unbound(i)
  /\ IsFree(dir, name)
  /\ bound' = bound \cup {<<dir, name, i>>}
  /\ size' \in {size, [j \in DOMAIN size \cup {i} |-> IF j = i THEN 0 ELSE size[j]]}
  /\ UNCHANGED torn

Grow(i) ==
  /\ DOMAIN size' = DOMAIN size
  /\ size'[i] > size[i]
  /\ size' = [size EXCEPT ![i] = size'[i]]
  /\ UNCHANGED <<bound, torn>>

\* A call ends and leaves an inode torn.  A torn directory loses names, and the sizes of the
\* files they led to are no longer seen.
Tear(i) ==
  /\ torn' = torn \cup {i}
  /\ bound' \subseteq bound
  /\ \A t \in bound \ bound' : t[1] = i
  /\ size' = [j \in DOMAIN size \cap {t[3] : t \in bound'} |-> size[j]]

Next ==
  \/ /\ bound' # bound
     /\ \E dir, i \in Ino, name \in Name : Bind(dir, name, i)
  \/ /\ size' # size
     /\ \E i \in DOMAIN size : Grow(i)
  \/ /\ torn' # torn
     /\ \E i \in Ino : Tear(i)

Spec == Init /\ [][Next]_vars

=============================================================================
