--------------------------- MODULE SpinLockProofs ---------------------------
(***************************************************************************)
(* The spinlock is correct for any set of processors.  IInv of SpinLock is *)
(* inductive; the four safety properties and the refinement follow.       *)
(***************************************************************************)
EXTENDS SpinLock, TLAPS

(* Initially nobody is in the lock's code and every conjunct of IInv holds. *)
LEMMA InitIInv == Init => IInv
<1> SUFFICES ASSUME Init PROVE IInv
  OBVIOUS
<1>1. TypeOK
  BY DEF Init, TypeOK, Level, Place, Bit
<1>2. \A c \in CPU : Holding(c) = {}
  BY DEF Init, Holding
<1> QED
  BY <1>1, <1>2 DEF Init, IInv, HandlerStaysMasked, MutualExclusion, Level

(* Each instruction of lock(), drop() and of the interrupt path preserves IInv. *)
LEMMA NextIInv == IInv /\ [Next]_vars => IInv'
<1> SUFFICES ASSUME IInv, [Next]_vars PROVE IInv'
  OBVIOUS
<1> USE DEF IInv, TypeOK, HandlerStaysMasked, MutualExclusion, Holding, Level, Place, Bit,
            At, Goto, Active
<1>1. ASSUME NEW c \in CPU, Interrupt(c) PROVE IInv'
  BY <1>1 DEF Interrupt
<1>2. ASSUME NEW c \in CPU, Iret(c) PROVE IInv'
  BY <1>2 DEF Iret
<1>3. ASSUME NEW c \in CPU, PushFlags(c) PROVE IInv'
  BY <1>3 DEF PushFlags
<1>4. ASSUME NEW c \in CPU, Cli(c) PROVE IInv'
  BY <1>4 DEF Cli
<1>5. ASSUME NEW c \in CPU, Swap(c) PROVE IInv'
  BY <1>5 DEF Swap
<1>6. ASSUME NEW c \in CPU, Unlock(c) PROVE IInv'
  <2>1. TypeOK'
    BY <1>6 DEF Unlock
  <2>2. \A d \in CPU : Holding(d)' = {}
    BY <1>6 DEF Unlock
  <2> QED
    BY <1>6, <2>1, <2>2 DEF Unlock
<1>7. ASSUME NEW c \in CPU, PopFlags(c) PROVE IInv'
  BY <1>7 DEF PopFlags
<1>8. CASE UNCHANGED vars
  BY <1>8 DEF vars
<1> QED
  BY <1>1, <1>2, <1>3, <1>4, <1>5, <1>6, <1>7, <1>8 DEF Next

(* IInv holds in every reachable state. *)
THEOREM Invariance == Spec => []IInv
  BY InitIInv, NextIInv, PTL DEF Spec

(* SpinLock::lock: two guards of one lock are never alive together. *)
THEOREM LockExcludes == Spec => []MutualExclusion
<1>1. IInv => MutualExclusion
  BY DEF IInv
<1> QED
  BY <1>1, Invariance, PTL

(* spinlock.rs 4-6: no handler runs on top of code that holds, or waits for, the lock. *)
THEOREM LockNeverSelfDeadlocks == Spec => []NoSelfDeadlock
<1>1. IInv => NoSelfDeadlock
  BY DEF IInv, TypeOK, NoSelfDeadlock
<1> QED
  BY <1>1, Invariance, PTL

(* SpinLockGuard::drop never turns interrupts on inside a handler. *)
THEOREM HandlersStayMasked == Spec => []HandlerStaysMasked
<1>1. IInv => HandlerStaysMasked
  BY DEF IInv
<1> QED
  BY <1>1, Invariance, PTL

(* SpinLockGuard::drop gives back the flag that lock() found: base code outside the
   lock always runs with interrupts on. *)
THEOREM InterruptsComeBack == Spec => []InterruptsBack
<1>1. IInv => InterruptsBack
  BY DEF IInv, InterruptsBack
<1> QED
  BY <1>1, Invariance, PTL

(* The lock that callers may assume, AbstractLock, is implemented: taking the   *)
(* lock is the Swap that finds false, giving it back is the store of drop(), and *)
(* no other instruction changes who is in the critical section.                  *)
THEOREM LockRefines == Spec => ImplementsAbstractLock
<1> DEFINE holders == {c \in CPU : Holding(c) # {}}
<1>1. Init => holders = {}
  BY DEF Init, Holding
<1>2. IInv /\ IInv' /\ [Next]_vars => [Abstract!Next]_holders
  <2> SUFFICES ASSUME IInv, IInv', [Next]_vars PROVE [Abstract!Next]_holders
    OBVIOUS
  <2> USE DEF IInv, TypeOK, Holding, Level, Place, At, Goto, Active
  <2>1. ASSUME NEW c \in CPU, Swap(c), ~locked PROVE Abstract!Acquire(c)
    <3>1. holders = {}
      BY <2>1
    <3>2. holders' = {c}
      BY <2>1 DEF Swap
    <3> QED
      BY <3>1, <3>2 DEF Abstract!Acquire
  <2>2. ASSUME NEW c \in CPU, Swap(c), locked PROVE holders' = holders
    BY <2>2 DEF Swap
  <2>3. ASSUME NEW c \in CPU, Unlock(c) PROVE Abstract!Release(c)
    <3>1. holders = {c}
      BY <2>3 DEF Unlock, MutualExclusion
    <3>2. holders' = {}
      BY <2>3 DEF Unlock, MutualExclusion
    <3> QED
      BY <3>1, <3>2 DEF Abstract!Release
  <2>4. ASSUME NEW c \in CPU,
               Interrupt(c) \/ Iret(c) \/ PushFlags(c) \/ Cli(c) \/ PopFlags(c)
        PROVE  holders' = holders
    BY <2>4 DEF Interrupt, Iret, PushFlags, Cli, PopFlags
  <2>5. CASE UNCHANGED vars
    BY <2>5 DEF vars
  <2> QED
    BY <2>1, <2>2, <2>3, <2>4, <2>5 DEF Next, Abstract!Next
<1> QED
  BY <1>1, <1>2, Invariance, PTL DEF Spec, ImplementsAbstractLock, Abstract!Spec, Abstract!Init
=============================================================================
