---------------------------- MODULE AbstractLock ----------------------------
(***************************************************************************)
(* What a lock promises its callers: the set of processors inside a        *)
(* critical section, of which there is never more than one.                *)
(***************************************************************************)
CONSTANT CPU

VARIABLE holders

Init == holders = {}

Acquire(c) ==
  /\ holders = {}
  /\ holders' = {c}

Release(c) ==
  /\ holders = {c}
  /\ holders' = {}

Next == \E c \in CPU : Acquire(c) \/ Release(c)

Spec == Init /\ [][Next]_holders
=============================================================================
