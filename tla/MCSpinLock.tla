----------------------------- MODULE MCSpinLock -----------------------------
(* A few processors competing for one lock. *)
EXTENDS SpinLock
=============================================================================
