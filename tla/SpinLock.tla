------------------------------ MODULE SpinLock ------------------------------
(***************************************************************************)
(* spinlock.rs: the test-and-set lock behind RUNQ and MMAP_LOCK, together  *)
(* with the processor's interrupt flag it manipulates.  A processor runs   *)
(* code at two levels: "base", the code that was entered with interrupts   *)
(* on, and "irq", a handler behind an interrupt gate.  Both take the lock. *)
(***************************************************************************)
EXTENDS Naturals

CONSTANT CPU

Bit == {0, 1}

Level == {"base", "irq"}

\* Places in lock() and in the guard's drop():
\*   out       not in the lock's code
\*   saved     flags read by pushfq, cli not yet executed
\*   spin      interrupts off, in the swap loop
\*   held      lock() returned, the guard is alive
\*   unlocked  drop() stored false, popfq not yet executed
Place == {"out", "saved", "spin", "held", "unlocked"}

VARIABLES
  locked,   \* the AtomicBool
  iflag,    \* RFLAGS.IF of each processor
  inIrq,    \* the processors inside an interrupt handler
  pc,       \* where each level of each processor is in the lock's code
  flags     \* the IF bit saved by lock() in the guard

vars == <<locked, iflag, inIrq, pc, flags>>

TypeOK ==
  /\ locked \in BOOLEAN
  /\ iflag \in [CPU -> Bit]
  /\ inIrq \subseteq CPU
  /\ pc \in [CPU -> [Level -> Place]]
  /\ flags \in [CPU -> [Level -> Bit]]

Init ==
  /\ locked = FALSE
  /\ iflag = [c \in CPU |-> 1]
  /\ inIrq = {}
  /\ pc = [c \in CPU |-> [l \in Level |-> "out"]]
  /\ flags = [c \in CPU |-> [l \in Level |-> 0]]

\* The level whose instructions the processor executes.
Active(c) == IF c \in inIrq THEN "irq" ELSE "base"

At(c, place) == pc[c][Active(c)] = place

Goto(c, place) == pc' = [pc EXCEPT ![c][Active(c)] = place]

-----------------------------------------------------------------------------
(* The processor: an interrupt gate clears IF, iretq gives it back.        *)

Interrupt(c) ==
  /\ iflag[c] = 1
  /\ inIrq' = inIrq \cup {c}
  /\ iflag' = [iflag EXCEPT ![c] = 0]
  /\ UNCHANGED <<locked, pc, flags>>

Iret(c) ==
  /\ c \in inIrq
  /\ At(c, "out")
  /\ inIrq' = inIrq \ {c}
  /\ iflag' = [iflag EXCEPT ![c] = 1]
  /\ UNCHANGED <<locked, pc, flags>>

-----------------------------------------------------------------------------
(* SpinLock::lock *)

\* Mutant: cli comes before pushfq, so the guard keeps a cleared flag.
PushFlagsMasked(c) ==
  /\ At(c, "out")
  /\ iflag' = [iflag EXCEPT ![c] = 0]
  /\ flags' = [flags EXCEPT ![c][Active(c)] = 0]
  /\ Goto(c, "saved")
  /\ UNCHANGED <<locked, inIrq>>

PushFlags(c) ==
  /\ At(c, "out")
  /\ flags' = [flags EXCEPT ![c][Active(c)] = iflag[c]]
  /\ Goto(c, "saved")
  /\ UNCHANGED <<locked, iflag, inIrq>>

\* Mutant: lock() forgets to disable interrupts.
CliForgotten(c) ==
  /\ At(c, "saved")
  /\ Goto(c, "spin")
  /\ UNCHANGED <<locked, iflag, inIrq, flags>>

Cli(c) ==
  /\ At(c, "saved")
  /\ iflag' = [iflag EXCEPT ![c] = 0]
  /\ Goto(c, "spin")
  /\ UNCHANGED <<locked, inIrq, flags>>

\* Mutant: the value swap() returns is ignored.
SwapUntested(c) ==
  /\ At(c, "spin")
  /\ locked' = TRUE
  /\ Goto(c, "held")
  /\ UNCHANGED <<iflag, inIrq, flags>>

\* swap(true) stores true whatever it found; finding false ends the loop.
Swap(c) ==
  /\ At(c, "spin")
  /\ locked' = TRUE
  /\ Goto(c, IF locked THEN "spin" ELSE "held")
  /\ UNCHANGED <<iflag, inIrq, flags>>

-----------------------------------------------------------------------------
(* SpinLockGuard::drop *)

Unlock(c) ==
  /\ At(c, "held")
  /\ locked' = FALSE
  /\ Goto(c, "unlocked")
  /\ UNCHANGED <<iflag, inIrq, flags>>

\* Mutant: drop() enables interrupts instead of restoring the saved flag.
PopFlagsSti(c) ==
  /\ At(c, "unlocked")
  /\ iflag' = [iflag EXCEPT ![c] = 1]
  /\ Goto(c, "out")
  /\ UNCHANGED <<locked, inIrq, flags>>

PopFlags(c) ==
  /\ At(c, "unlocked")
  /\ iflag' = [iflag EXCEPT ![c] = flags[c][Active(c)]]
  /\ Goto(c, "out")
  /\ UNCHANGED <<locked, inIrq, flags>>

-----------------------------------------------------------------------------
Next ==
  \E c \in CPU :
    \/ Interrupt(c)
    \/ Iret(c)
    \/ PushFlags(c)
    \/ Cli(c)
    \/ Swap(c)
    \/ Unlock(c)
    \/ PopFlags(c)

Spec == Init /\ [][Next]_vars

\* A processor that is inside the lock's code keeps executing it.
Fairness == \A c \in CPU : WF_vars(Cli(c) \/ Swap(c) \/ Unlock(c) \/ PopFlags(c))

FairSpec == Spec /\ Fairness
-----------------------------------------------------------------------------
\* The levels of processor c that are inside the critical section.
Holding(c) == {l \in Level : pc[c][l] = "held"}

\* Two guards of the same lock are never alive at once, on different processors
\* or on the two levels of one (spinlock.rs, SpinLock::lock).
MutualExclusion ==
  \A c, d \in CPU : \A l \in Holding(c), m \in Holding(d) : c = d /\ l = m

\* A handler never interrupts code between the cli of lock() and the popfq of
\* drop(): it could wait for a lock that the code under it holds, the deadlock
\* that spinlock.rs 4-6 is written to avoid.
NoSelfDeadlock ==
  \A c \in inIrq : pc[c]["base"] \notin {"spin", "held", "unlocked"}

\* A handler runs with interrupts off from the gate to iretq, whatever locks it
\* takes and drops on the way: drop() gives back the flag that lock() found.
HandlerStaysMasked == \A c \in inIrq : iflag[c] = 0

\* Code that was entered with interrupts on runs with interrupts on whenever it is
\* outside the lock's code, however often it took the lock and wherever a handler
\* that takes the same lock came in between: the guard restores the previous flag
\* (spinlock.rs 3-4).  A flag lost once would mask the processor for good, and the
\* timer would never preempt it again.
InterruptsBack ==
  \A c \in CPU : c \notin inIrq /\ pc[c]["base"] = "out" => iflag[c] = 1

\* A lock that is taken is given back: the holder is never kept from drop() by
\* an interrupt on its own processor.
LockReleased == locked ~> ~locked

-----------------------------------------------------------------------------
\* Why the properties above are preserved: code between cli and popfq cannot be
\* interrupted, a handler's guard has saved a cleared flag and the base code's a
\* set one, and whoever is in the critical section is the one that left the
\* AtomicBool set.
IInv ==
  /\ TypeOK
  /\ HandlerStaysMasked
  /\ MutualExclusion
  /\ \A c \in CPU :
       /\ pc[c]["base"] \in {"spin", "held", "unlocked"} => iflag[c] = 0 /\ c \notin inIrq
       /\ c \notin inIrq /\ pc[c]["base"] \in {"out", "saved"} => iflag[c] = 1
       /\ pc[c]["base"] # "out" => flags[c]["base"] = 1
       /\ c \notin inIrq => pc[c]["irq"] = "out"
       /\ pc[c]["irq"] # "out" => flags[c]["irq"] = 0
       /\ Holding(c) # {} => locked

-----------------------------------------------------------------------------
\* The lock seen by its callers.
Abstract == INSTANCE AbstractLock WITH holders <- {c \in CPU : Holding(c) # {}}

\* Every step of the lock is a step of the abstract lock, or none.
ImplementsAbstractLock == Abstract!Spec
=============================================================================
