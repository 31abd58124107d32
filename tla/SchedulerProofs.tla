-------------------------- MODULE SchedulerProofs ---------------------------
(***************************************************************************)
(* The safety properties of Scheduler, for any number of processors and    *)
(* tasks and any programs.  First type correctness and the conjuncts of    *)
(* the inductive invariant IInv, one lemma per conjunct and in each one    *)
(* step per action: CpuInv, which speaks of one processor, NoTaskLost, and *)
(* last ShelterInv, which relates the state of a task to the processors    *)
(* that refer to it.  Then IInv is inductive, and implies the properties.  *)
(***************************************************************************)
EXTENDS Scheduler, TLAPS

(* What the proofs use of the numbering of slots and processors. *)
LEMMA SlotFacts ==
  /\ null \notin Slot /\ kmain \notin Slot /\ kmain # null
  /\ Task \subseteq Slot
  /\ BSP \in CPU
  /\ \A c \in CPU : Idle(c) \in Slot /\ Idle(c) \notin Task
  /\ \A c, d \in CPU : Idle(c) = Idle(d) => c = d
  /\ NCpu = 1 => \A c, d \in CPU : c = d
  BY SchedulerAssumption DEF null, kmain, Slot, Task, BSP, CPU, Idle

(* A scan finds one of the elements it scans. *)
LEMMA FirstIsMember == \A S : First(S) \subseteq S
  BY Zenon DEF First

(* spawn_user fills one unused slot or leaves the table as it is. *)
LEMMA SpawnUserCases ==
  SpawnUser => \/ UNCHANGED <<state, frame, wake_tick, wait_input>>
               \/ \E t \in Task : state[t] = "Unused" /\ SpawnInto(t)
<1> DEFINE free == {t \in Task : state[t] = "Unused"}
<1>1. First(free) \subseteq free
  BY FirstIsMember, Zenon
<1> QED
  BY <1>1, Zenon DEF SpawnUser

-----------------------------------------------------------------------------
(* Actions that leave the scheduler's tables alone, and actions that write only *)
(* the states of tasks: used to treat many actions at once below.               *)

Quiet(c) ==
  StartAps \/ KeyboardIrq \/ TimerIrq(c) \/ SysYield(c) \/ SysEventRead(c)
    \/ SysSleep(c) \/ ScheduleTooEarly(c) \/ Iret(c)

(* The next-state relation, regrouped. *)
LEMMA NextCases ==
  ASSUME [Next]_vars
  PROVE  \/ UNCHANGED vars
         \/ InitGlobal \/ InitBsp \/ TryStart \/ WakeInputWaiters
         \/ \E c \in CPU :
              \/ Quiet(c) \/ ApEntry(c) \/ SysExit(c) \/ SysSpawn(c) \/ WakeSleepers(c)
              \/ BlockCurrentInput(c) \/ BlockCurrentUntil(c) \/ Schedule(c)
  BY SlotFacts, Zenon DEF Next, Kmain, SystemCall, KernelStep, Quiet

LEMMA QuietLeavesTables == ASSUME NEW c \in CPU, Quiet(c) PROVE UNCHANGED tables
  BY Zenon DEF Quiet, StartAps, KeyboardIrq, TimerIrq, SysYield, SysEventRead, SysSleep,
         ScheduleTooEarly, Iret, tables

-----------------------------------------------------------------------------
(* CpuInv: a processor's current pointer, its rsp0, the flow it executes or is *)
(* about to resume, and the frames it may resume stay in step.                 *)

(* Processor d goes on with the handler it is in: it keeps its pointers and its *)
(* flow, and if it decides to return it returns to that flow.                   *)
GoesOn(d) ==
  /\ current'[d] = current[d] /\ deferred'[d] = deferred[d] /\ rsp0'[d] = rsp0[d]
  /\ on'[d] = on[d]
  /\ \/ pc'[d] = pc[d] /\ resume'[d] = resume[d]
     \/ /\ pc[d] \notin {"off", "iret"} /\ pc'[d] \notin {"off", "iret"}
        /\ pc'[d] \in {"park_input", "park_sleep"} => on[d] \in Task /\ ~NeverBlocks(on[d])
     \/ pc[d] \notin {"off", "iret"} /\ pc'[d] = "iret" /\ resume'[d] = on[d]

(* A step that keeps the frames of tasks in use, and the idle frames, and boots on. *)
KeepsFrames ==
  /\ boot' = "discover" <=> boot = "discover"
  /\ boot \in {"released", "done"} => boot' \in {"released", "done"}
  /\ \A t \in Task : state[t] # "Unused" =>
       state'[t] # "Unused" /\ (frame[t] = t => frame'[t] = t)
  /\ \A d \in CPU : frame'[Idle(d)] = frame[Idle(d)]

(* CpuInv survives every step of that kind. *)
LEMMA GoesOnCpuInv ==
  ASSUME NEW d \in CPU, CpuInv(d), GoesOn(d), KeepsFrames
  PROVE  CpuInv(d)'
<1>1. /\ current'[d] \in Task \cup {Idle(d), null}
      /\ current'[d] # null => rsp0'[d] = current'[d] /\ boot' # "discover"
      /\ current'[d] = null => deferred'[d] = null
      /\ boot' # "discover" => frame'[Idle(d)] \in Flows(d, Idle(d))
  BY Zenon DEF CpuInv, GoesOn, KeepsFrames
<1>2. \A t \in Task : t \in {current'[d], deferred'[d]} => frame'[t] = t /\ state'[t] # "Unused"
  BY Zenon DEF CpuInv, GoesOn, KeepsFrames
<1>3. pc'[d] = "off" => current'[d] = null /\ on'[d] = Idle(d)
  BY Zenon DEF CpuInv, GoesOn
<1>4. pc'[d] # "off" /\ d # BSP => boot' \in {"released", "done"}
  BY Zenon DEF CpuInv, GoesOn, KeepsFrames
<1>5. /\ pc'[d] \notin {"off", "iret"} => on'[d] \in Flows(d, current'[d])
      /\ pc'[d] = "iret" => resume'[d] \in Flows(d, current'[d])
  BY Zenon DEF CpuInv, GoesOn
<1>6. pc'[d] \in {"park_input", "park_sleep"} => on'[d] \in Task /\ ~NeverBlocks(on'[d])
  BY Zenon DEF CpuInv, GoesOn
<1> QED
  BY <1>1, <1>2, <1>3, <1>4, <1>5, <1>6, Zenon DEF CpuInv

(* schedule on c: the frames it saves and the flow it resumes. *)
LEMMA ScheduleCpuInv ==
  ASSUME IInv, TypeOK', FrameIsOwn', NEW c \in CPU, Schedule(c), NEW d \in CPU
  PROVE  CpuInv(d)'
<1>0. TypeOK /\ FrameIsOwn /\ CpuInv(c) /\ CpuInv(d)
  BY Zenon DEF IInv
<1>1. frame' = Saved(c) /\ UNCHANGED <<boot, on>> /\ boot # "discover"
  BY <1>0, SlotFacts, Zenon DEF TypeOK, Schedule, SwitchTo, Marked, Deferral, KernelStack, ContinueIdle
<1>2. on[c] \in Flows(c, current[c])
  BY <1>0, SlotFacts, Zenon DEF TypeOK, Schedule, CpuInv
<1>3. frame'[Idle(d)] \in Flows(d, Idle(d))
  BY <1>0, SlotFacts, <1>1, <1>2 DEF TypeOK, Saved, CpuInv, Flows
<1>4. \A t \in Task : frame'[t] = frame[t] \/ frame'[t] = t
  BY <1>0, SlotFacts, <1>1, <1>2 DEF TypeOK, Saved, Flows
<1>5. Pick(c) \subseteq {t \in Task : Published(c)[t] = "Ready"}
  BY <1>0, SlotFacts, FirstIsMember, Zenon DEF TypeOK, Pick
<1>6. \A t \in Task : state[t] # "Unused" => state'[t] # "Unused"
  BY <1>0, SlotFacts
     DEF TypeOK, Schedule, SwitchTo, Marked, Deferral, KernelStack, ContinueIdle, Published
<1>7. pc[c] = "sched" /\ pc' = [pc EXCEPT ![c] = "iret"]
  BY <1>0, SlotFacts, Zenon DEF TypeOK, Schedule
<1>8. CASE d # c
  <2>1. /\ current'[d] = current[d] /\ deferred'[d] = deferred[d] /\ rsp0'[d] = rsp0[d]
        /\ resume'[d] = resume[d] /\ on'[d] = on[d] /\ pc'[d] = pc[d]
    BY <1>0, SlotFacts, <1>8
       DEF TypeOK, Schedule, SwitchTo, Marked, Deferral, KernelStack, ContinueIdle
  <2> QED
    BY <1>0, SlotFacts, <1>1, <1>3, <1>4, <1>6, <2>1 DEF TypeOK, CpuInv
<1>9. CASE d = c
  <2>1. ASSUME NEW next \in Task \cup {Idle(c)}, SwitchTo(c, next),
               next \in Task => Published(c)[next] # "Unused"
        PROVE  CpuInv(c)'
    <3>1. current'[c] = next /\ rsp0'[c] = next
      BY <1>0, SlotFacts, <2>1 DEF TypeOK, SwitchTo, Marked, Deferral, KernelStack, CpuInv
    <3>2. state'[next] = "Running"
      BY <1>0, SlotFacts, <2>1 DEF TypeOK, SwitchTo, Marked, Deferral, KernelStack, Published
    <3>3. deferred'[c] = null \/ (deferred'[c] = current[c] /\ current[c] \in Task)
      BY <1>0, SlotFacts, <2>1, Zenon DEF TypeOK, SwitchTo, Marked, Deferral, KernelStack, KeepCurrent
    <3>4. \A t \in Task : t \in {current'[c], deferred'[c]} => frame'[t] = t /\ state'[t] # "Unused"
      BY <1>0, SlotFacts, <1>4, <1>6, <3>1, <3>2, <3>3 DEF TypeOK, CpuInv, FrameIsOwn
    <3>5. resume'[c] \in Flows(c, next)
      <4>1. resume'[c] = frame'[next]
        BY <1>0, SlotFacts, <1>1, <2>1, Zenon DEF TypeOK, SwitchTo, Marked, Deferral, KernelStack
      <4>2. CASE next \in Task
        BY <1>0, SlotFacts, <3>1, <3>4, <4>1, <4>2, Zenon DEF TypeOK, Flows
      <4>3. CASE next = Idle(c)
        BY <1>3, <1>9, <4>1, <4>3, Zenon
      <4> QED
        BY <4>2, <4>3, Zenon
    <3>6. /\ pc'[c] = "iret" /\ boot' # "discover" /\ next # null /\ next \in Task \cup {Idle(c), null}
          /\ (c # BSP => boot' \in {"released", "done"}) /\ frame'[Idle(c)] \in Flows(c, Idle(c))
      BY <1>0, <1>1, <1>3, <1>7, <1>9, <2>1, SlotFacts DEF TypeOK, CpuInv
    <3> QED
      BY <3>1, <3>4, <3>5, <3>6, Zenon DEF CpuInv
  <2>2. CASE ContinueIdle(c)
    <3>1. /\ current'[c] = current[c] /\ rsp0'[c] = rsp0[c] /\ deferred'[c] = null
          /\ resume'[c] = on[c] /\ pc'[c] = "iret" /\ current[c] \notin Task
      BY <1>0, SlotFacts, <1>7, <2>2, Zenon DEF TypeOK, ContinueIdle
    <3>2. /\ boot' # "discover" /\ (c # BSP => boot' \in {"released", "done"})
          /\ frame'[Idle(c)] \in Flows(c, Idle(c))
      BY <1>0, <1>1, <1>3, <1>7, <1>9, Zenon DEF CpuInv
    <3>3. \A t \in Task : t # null /\ t # current[c] BY <3>1, SlotFacts, Zenon
    <3>4. current'[c] # null => rsp0'[c] = current'[c] BY <1>0, <3>1, Zenon DEF CpuInv
    <3>5. resume'[c] \in Flows(c, current'[c]) /\ current'[c] \in Task \cup {Idle(c), null}
      BY <1>0, <1>2, <3>1, Zenon DEF CpuInv
    <3> QED
      BY <1>9, <3>1, <3>2, <3>3, <3>4, <3>5, Zenon DEF CpuInv
  <2> QED
    BY <1>0, SlotFacts, <1>5, <1>9, <2>1, <2>2, Zenon DEF TypeOK, Schedule, KeepCurrent
<1> QED
  BY <1>8, <1>9, Zenon

(* Quiet actions move a processor between places and, at iretq, onto the flow *)
(* that schedule chose.                                                       *)
LEMMA QuietCpuInv ==
  ASSUME IInv, NEW c \in CPU, Quiet(c), NEW d \in CPU
  PROVE  CpuInv(d)'
<1>0. CpuInv(c) /\ CpuInv(d) /\ pc \in [CPU -> Place]
      /\ on \in [CPU -> Flow] /\ resume \in [CPU -> Flow]
  BY Zenon DEF IInv, TypeOK
<1>1. KeepsFrames
  <2>1. UNCHANGED <<state, frame>>
    BY QuietLeavesTables, Zenon DEF tables
  <2>2. boot' = boot \/ (boot = "cpu0" /\ boot' = "released")
    BY Zenon DEF Quiet, StartAps, KeyboardIrq, TimerIrq, SysYield, SysEventRead, SysSleep,
           ScheduleTooEarly, Iret
  <2> QED
    BY <2>1, <2>2, Zenon DEF KeepsFrames
<1>2. current'[d] = current[d] /\ deferred'[d] = deferred[d] /\ rsp0'[d] = rsp0[d]
  BY QuietLeavesTables, Zenon DEF tables
<1>3. ASSUME GoesOn(d) PROVE CpuInv(d)'
  BY <1>0, <1>1, <1>3, GoesOnCpuInv, Zenon
<1>4. CASE StartAps
  <2>1. GoesOn(d)
    BY <1>2, <1>4, Zenon DEF GoesOn, StartAps
  <2> QED
    BY <1>3, <2>1, Zenon
<1>5. CASE KeyboardIrq
  <2>1. GoesOn(d)
    BY <1>0, <1>2, <1>5, Zenon DEF GoesOn, KeyboardIrq
  <2> QED
    BY <1>3, <2>1, Zenon
<1>6. CASE TimerIrq(c)
  <2>1. GoesOn(d)
    BY <1>0, <1>2, <1>6, Zenon DEF GoesOn, TimerIrq
  <2> QED
    BY <1>3, <2>1, Zenon
<1>7. CASE SysYield(c)
  <2>1. GoesOn(d)
    BY <1>0, <1>2, <1>7, Zenon DEF GoesOn, SysYield, Calls
  <2> QED
    BY <1>3, <2>1, Zenon
<1>8. CASE SysEventRead(c)
  <2>1. pc[c] = "run" /\ on[c] \in Task /\ ~NeverBlocks(on[c])
    BY <1>8, Zenon DEF SysEventRead, Calls, NeverBlocks
  <2>2. UNCHANGED <<on, resume>> /\ (pc' = pc \/ pc' = [pc EXCEPT ![c] = "park_input"])
    BY <1>8, Zenon DEF SysEventRead
  <2>3. GoesOn(d)
    BY <1>0, <1>2, <2>1, <2>2, Zenon DEF GoesOn
  <2> QED
    BY <1>3, <2>3, Zenon
<1>9. CASE SysSleep(c)
  <2>1. pc[c] = "run" /\ on[c] \in Task /\ ~NeverBlocks(on[c])
    BY <1>9, Zenon DEF SysSleep, Calls, NeverBlocks
  <2>2. UNCHANGED <<on, resume>> /\ pc' = [pc EXCEPT ![c] = "park_sleep"]
    BY <1>9, Zenon DEF SysSleep
  <2>3. GoesOn(d)
    BY <1>0, <1>2, <2>1, <2>2, Zenon DEF GoesOn
  <2> QED
    BY <1>3, <2>3, Zenon
<1>10. CASE ScheduleTooEarly(c)
  <2>1. GoesOn(d)
    BY <1>0, <1>2, <1>10, Zenon DEF GoesOn, ScheduleTooEarly
  <2> QED
    BY <1>3, <2>1, Zenon
<1>11. CASE Iret(c)
  <2>1. CASE d # c
    <3>1. GoesOn(d)
      BY <1>0, <1>2, <1>11, <2>1, Zenon DEF GoesOn, Iret
    <3> QED
      BY <1>3, <3>1, Zenon
  <2>2. CASE d = c
    <3>1. /\ pc'[c] = "run" /\ on'[c] = resume[c] /\ pc[c] = "iret"
          /\ UNCHANGED <<boot, state, frame, current, deferred, rsp0>>
      BY <1>0, <1>11, Zenon DEF Iret, tables
    <3> QED
      BY <1>0, <2>2, <3>1, Zenon DEF CpuInv
  <2> QED
    BY <2>1, <2>2, Zenon
<1> QED
  BY <1>4, <1>5, <1>6, <1>7, <1>8, <1>9, <1>10, <1>11, Zenon DEF Quiet

(* A processor that has just been given its idle task. *)
LEMMA IdleCpuInv ==
  ASSUME NEW d \in CPU, current'[d] = Idle(d), deferred'[d] = null, rsp0'[d] = Idle(d),
         pc'[d] = "run", on'[d] \in Flows(d, Idle(d)), frame'[Idle(d)] \in Flows(d, Idle(d)),
         boot' # "discover", d # BSP => boot' \in {"released", "done"}
  PROVE  CpuInv(d)'
<1>1. \A t \in Task : t \notin {Idle(d), null}
  BY SlotFacts, Zenon
<1> QED
  BY <1>1, Zenon DEF CpuInv

LEMMA NextCpuInv ==
  ASSUME IInv, TypeOK', FrameIsOwn', [Next]_vars, NEW d \in CPU
  PROVE  CpuInv(d)'
<1>0. /\ CpuInv(d)
      /\ state \in [Slot -> TaskState] /\ frame \in [Slot -> Flow]
      /\ pc \in [CPU -> Place] /\ resume \in [CPU -> Flow]
      /\ current \in [CPU -> Slot \cup {null}]
      /\ deferred \in [CPU -> Task \cup {null}] /\ rsp0 \in [CPU -> Slot]
  BY Zenon DEF IInv, TypeOK
<1>1. ASSUME GoesOn(d), KeepsFrames PROVE CpuInv(d)'
  BY <1>0, <1>1, GoesOnCpuInv, Zenon
<1>2. CASE UNCHANGED vars
  <2>1. GoesOn(d)
    BY <1>0, <1>2, Zenon DEF GoesOn, vars, tables
  <2>2. KeepsFrames
    BY <1>0, SlotFacts, <1>2, Zenon DEF KeepsFrames, vars, tables
  <2> QED
    BY <1>1, <2>1, <2>2, Zenon
<1>3. CASE InitGlobal
  <2>1. /\ boot = "discover" /\ UNCHANGED <<current, deferred, rsp0, pc, on, resume>>
        /\ frame'[Idle(d)] \in Flows(d, Idle(d))
    BY <1>0, SlotFacts, <1>3 DEF Flows, InitGlobal
  <2>2. current[d] = null /\ deferred[d] = null /\ (pc[d] # "off" => d = BSP)
    BY <1>0, <2>1, Zenon DEF CpuInv
  <2>3. \A t \in Task : t # null
    BY SlotFacts, Zenon
  <2> QED
    BY <1>0, <2>1, <2>2, <2>3, Zenon DEF CpuInv
<1>4. CASE InitBsp
  <2>1. CASE d # BSP
    <3>1. GoesOn(d)
      BY <1>0, <1>4, <2>1, SlotFacts DEF GoesOn, InitBsp, InitCpu
    <3>2. KeepsFrames
      BY <1>0, <1>4, SlotFacts, Zenon DEF KeepsFrames, InitBsp, InitCpu
    <3> QED
      BY <1>1, <3>1, <3>2, Zenon
  <2>2. CASE d = BSP
    <3>1. /\ current'[d] = Idle(d) /\ deferred'[d] = null /\ rsp0'[d] = Idle(d)
          /\ boot = "global" /\ boot' = "cpu0" /\ UNCHANGED <<frame, pc, on>>
          /\ pc[d] = "run" /\ on[d] = kmain
      BY <1>0, <1>4, <2>2, SlotFacts, Zenon DEF InitBsp, InitCpu, InKmain
    <3>2. kmain \in Flows(d, Idle(d))
      BY <2>2, Zenon DEF Flows
    <3>3. frame'[Idle(d)] \in Flows(d, Idle(d))
      BY <1>0, <3>1, Zenon DEF CpuInv
    <3> QED
      BY <2>2, <3>1, <3>2, <3>3, IdleCpuInv, Zenon
  <2> QED
    BY <2>1, <2>2, Zenon
<1>5. CASE TryStart
  <2>1. GoesOn(d)
    BY <1>0, <1>5, Zenon DEF GoesOn, TryStart
  <2>2. KeepsFrames
    BY <1>0, SlotFacts, <1>5, SpawnUserCases DEF KeepsFrames, TryStart, SpawnInto
  <2> QED
    BY <1>1, <2>1, <2>2, Zenon
<1>6. CASE WakeInputWaiters
  <2>1. GoesOn(d)
    BY <1>0, <1>6, Zenon DEF GoesOn, WakeInputWaiters
  <2>2. KeepsFrames
    BY <1>0, SlotFacts, <1>6, Zenon DEF KeepsFrames, WakeInputWaiters
  <2> QED
    BY <1>1, <2>1, <2>2, Zenon
<1>7. ASSUME NEW c \in CPU, Quiet(c) PROVE CpuInv(d)'
  BY <1>7, QuietCpuInv, Zenon
<1>8. ASSUME NEW c \in CPU, ApEntry(c) PROVE CpuInv(d)'
  <2>1. CASE d # c
    <3>1. GoesOn(d)
      BY <1>0, <1>8, <2>1, Zenon DEF GoesOn, ApEntry, InitCpu
    <3>2. KeepsFrames
      BY <1>0, <1>8, SlotFacts, Zenon DEF KeepsFrames, ApEntry, InitCpu
    <3> QED
      BY <1>1, <3>1, <3>2, Zenon
  <2>2. CASE d = c
    <3>1. /\ current'[d] = Idle(d) /\ deferred'[d] = null /\ rsp0'[d] = Idle(d)
          /\ boot \in {"released", "done"} /\ UNCHANGED <<boot, frame, on>>
          /\ pc[d] = "off" /\ pc'[d] = "run"
      BY <1>0, <1>8, <2>2, Zenon DEF ApEntry, InitCpu
    <3>2. on[d] = Idle(d) /\ Idle(d) \in Flows(d, Idle(d))
      BY <1>0, <3>1, SlotFacts DEF CpuInv, Flows
    <3>3. frame'[Idle(d)] \in Flows(d, Idle(d)) /\ boot' # "discover"
      BY <1>0, <3>1, Zenon DEF CpuInv
    <3> QED
      BY <3>1, <3>2, <3>3, IdleCpuInv, Zenon
  <2> QED
    BY <2>1, <2>2, Zenon
<1>9. ASSUME NEW c \in CPU, SysExit(c) PROVE CpuInv(d)'
  <2>1. GoesOn(d)
    BY <1>0, <1>9, Zenon DEF GoesOn, SysExit, Calls
  <2>2. KeepsFrames
    BY <1>0, SlotFacts, <1>9, Zenon DEF KeepsFrames, SysExit, MarkCurrentDead
  <2> QED
    BY <1>1, <2>1, <2>2, Zenon
<1>10. ASSUME NEW c \in CPU, SysSpawn(c) PROVE CpuInv(d)'
  <2>1. GoesOn(d)
    BY <1>0, <1>10, Zenon DEF GoesOn, SysSpawn
  <2>2. KeepsFrames
    BY <1>0, SlotFacts, <1>10, SpawnUserCases DEF KeepsFrames, SysSpawn, SpawnInto
  <2> QED
    BY <1>1, <2>1, <2>2, Zenon
<1>11. ASSUME NEW c \in CPU, WakeSleepers(c) PROVE CpuInv(d)'
  <2>1. GoesOn(d)
    BY <1>0, <1>11, Zenon DEF GoesOn, WakeSleepers
  <2>2. KeepsFrames
    BY <1>0, SlotFacts, <1>11, Zenon DEF KeepsFrames, WakeSleepers
  <2> QED
    BY <1>1, <2>1, <2>2, Zenon
<1>12. ASSUME NEW c \in CPU, BlockCurrentInput(c) PROVE CpuInv(d)'
  <2>1. GoesOn(d)
    BY <1>0, <1>12, Zenon DEF GoesOn, BlockCurrentInput
  <2>2. KeepsFrames
    BY <1>0, SlotFacts, <1>12 DEF KeepsFrames, BlockCurrentInput
  <2> QED
    BY <1>1, <2>1, <2>2, Zenon
<1>13. ASSUME NEW c \in CPU, BlockCurrentUntil(c) PROVE CpuInv(d)'
  <2>1. GoesOn(d)
    BY <1>0, <1>13, Zenon DEF GoesOn, BlockCurrentUntil
  <2>2. KeepsFrames
    BY <1>0, SlotFacts, <1>13, Zenon DEF KeepsFrames, BlockCurrentUntil
  <2> QED
    BY <1>1, <2>1, <2>2, Zenon
<1>14. ASSUME NEW c \in CPU, Schedule(c) PROVE CpuInv(d)'
  BY <1>14, ScheduleCpuInv, Zenon
<1> QED
  BY NextCases, <1>2, <1>3, <1>4, <1>5, <1>6, <1>7, <1>8, <1>9, <1>10, <1>11, <1>12, <1>13, <1>14, Zenon
-----------------------------------------------------------------------------
(* schedule never forgets a Running task: it becomes the current one, stays it, *)
(* or is remembered as deferred.  Nothing else makes a task Running.            *)
LEMMA NextNoTaskLost ==
  ASSUME IInv, [Next]_vars
  PROVE  NoTaskLost'
<1>0. TypeOK /\ NoTaskLost /\ \A c \in CPU : CpuInv(c)
  BY Zenon DEF IInv
<1>1. ASSUME UNCHANGED <<current, deferred>>,
             \A t \in Task : state'[t] = "Running" => state[t] = "Running"
      PROVE  NoTaskLost'
  BY <1>0, <1>1, Zenon DEF NoTaskLost
<1>2. CASE UNCHANGED vars
  BY <1>0, SlotFacts, <1>1, <1>2, Zenon DEF TypeOK, vars, tables
<1>3. CASE InitGlobal
  BY <1>0, SlotFacts, <1>1, <1>3, Zenon DEF TypeOK, InitGlobal
<1>4. CASE InitBsp
  <2>1. boot # "done" /\ \A t \in Task : state'[t] = state[t]
    BY <1>0, <1>4, SlotFacts DEF TypeOK, InitBsp, InitCpu
  <2> QED
    BY <2>1, Zenon DEF IInv, NoTaskLost
<1>5. CASE TryStart
  BY <1>0, SlotFacts, <1>1, <1>5, SpawnUserCases, Zenon DEF TypeOK, TryStart, SpawnInto
<1>6. CASE WakeInputWaiters
  BY <1>0, SlotFacts, <1>1, <1>6, Zenon DEF TypeOK, WakeInputWaiters
<1>7. ASSUME NEW c \in CPU, Quiet(c) PROVE NoTaskLost'
  BY <1>0, SlotFacts, <1>1, <1>7, QuietLeavesTables, Zenon DEF TypeOK, tables
<1>8. ASSUME NEW c \in CPU, ApEntry(c) PROVE NoTaskLost'
  BY <1>0, SlotFacts, <1>8 DEF TypeOK, NoTaskLost, ApEntry, InitCpu, CpuInv
<1>9. ASSUME NEW c \in CPU, SysExit(c) PROVE NoTaskLost'
  BY <1>0, SlotFacts, <1>1, <1>9, Zenon DEF TypeOK, SysExit, MarkCurrentDead
<1>10. ASSUME NEW c \in CPU, SysSpawn(c) PROVE NoTaskLost'
  BY <1>0, SlotFacts, <1>1, <1>10, SpawnUserCases, Zenon DEF TypeOK, SysSpawn, SpawnInto
<1>11. ASSUME NEW c \in CPU, WakeSleepers(c) PROVE NoTaskLost'
  BY <1>0, SlotFacts, <1>1, <1>11, Zenon DEF TypeOK, WakeSleepers
<1>12. ASSUME NEW c \in CPU, BlockCurrentInput(c) PROVE NoTaskLost'
  BY <1>0, SlotFacts, <1>1, <1>12 DEF TypeOK, BlockCurrentInput
<1>13. ASSUME NEW c \in CPU, BlockCurrentUntil(c) PROVE NoTaskLost'
  BY <1>0, SlotFacts, <1>1, <1>13 DEF TypeOK, BlockCurrentUntil
<1>14. ASSUME NEW c \in CPU, Schedule(c) PROVE NoTaskLost'
  <2> SUFFICES ASSUME NEW t \in Task, state'[t] = "Running"
               PROVE  \E d \in CPU : t \in {current'[d], deferred'[d]}
    BY <1>0, SlotFacts, Zenon DEF TypeOK, NoTaskLost
  <2>1. Pick(c) \subseteq Task
    BY <1>0, SlotFacts, FirstIsMember, Zenon DEF TypeOK, Pick
  <2>2. \A d \in CPU : d # c => current'[d] = current[d] /\ deferred'[d] = deferred[d]
    BY <1>0, SlotFacts, <1>14
       DEF TypeOK, Schedule, SwitchTo, Marked, Deferral, KernelStack, ContinueIdle
  <2>3. Published(c)[t] = "Running" => state[t] = "Running" /\ t # deferred[c]
    BY <1>0, SlotFacts DEF TypeOK, Published
  <2>4. ASSUME NEW next \in Slot, SwitchTo(c, next)
        PROVE  \E d \in CPU : t \in {current'[d], deferred'[d]}
    <3>1. current'[c] = next
      BY <1>0, SlotFacts, <2>4, Zenon DEF TypeOK, SwitchTo, Marked, Deferral, KernelStack
    <3>2. t # next => Published(c)[t] = "Running"
      BY <1>0, SlotFacts, <2>4, Zenon
         DEF TypeOK, SwitchTo, Marked, Deferral, KernelStack, Published
    <3>3. t = current[c] /\ t # next /\ Published(c)[t] = "Running" => deferred'[c] = t
      BY <1>0, SlotFacts, <2>4
         DEF TypeOK, SwitchTo, Marked, Deferral, KernelStack, KeepCurrent
    <3>4. CASE t = next
      BY <3>1, <3>4, Zenon
    <3>5. CASE t # next /\ t = current[c]
      BY <3>2, <3>3, <3>5, Zenon
    <3>6. CASE t # next /\ t # current[c]
      <4>1. PICK d \in CPU : t \in {current[d], deferred[d]}
        BY <1>0, <2>3, <3>2, <3>6, Zenon DEF NoTaskLost
      <4> QED
        BY <2>2, <2>3, <3>2, <3>6, <4>1, Zenon
    <3> QED
      BY <3>4, <3>5, <3>6, Zenon
  <2>5. CASE ContinueIdle(c)
    <3>1. state[t] = "Running" /\ t # deferred[c] /\ current' = current
      BY <2>3, <2>5, Zenon DEF ContinueIdle
    <3> QED
      BY <1>0, <2>2, <3>1, Zenon DEF NoTaskLost
  <2> QED
    BY <1>0, SlotFacts, <1>14, <2>1, <2>4, <2>5, Zenon DEF TypeOK, Schedule, KeepCurrent
<1> QED
  BY NextCases, <1>2, <1>3, <1>4, <1>5, <1>6, <1>7, <1>8, <1>9, <1>10, <1>11, <1>12, <1>13, <1>14, Zenon

-----------------------------------------------------------------------------
(* Type correctness. *)

LEMMA InitTypeOK == Init => TypeOK
  BY SlotFacts, SchedulerAssumption DEF Init, TypeOK, Boot, TaskState, Place, Flow

(* schedule writes well-typed tables. *)
LEMMA ScheduleTypeOK ==
  ASSUME TypeOK, NEW c \in CPU, Schedule(c)
  PROVE  TypeOK'
<1>1. Published(c) \in [Slot -> TaskState]
  BY SlotFacts, Zenon DEF TypeOK, Published, TaskState
<1>2. Saved(c) \in [Slot -> Flow]
  BY SlotFacts, Zenon DEF TypeOK, Saved
<1>3. KeepCurrent(c) => current[c] \in Task
  BY SlotFacts, Zenon DEF TypeOK, KeepCurrent
<1>4. ASSUME NEW next \in Slot, SwitchTo(c, next) PROVE TypeOK'
  BY SlotFacts, <1>1, <1>2, <1>3, <1>4, Zenon
     DEF TypeOK, Schedule, SwitchTo, Marked, Deferral, KernelStack, TaskState, Place
<1>5. CASE ContinueIdle(c)
  BY SlotFacts, <1>1, <1>2, <1>5, Zenon DEF TypeOK, Schedule, ContinueIdle, Place
<1>6. Pick(c) \subseteq Task
  BY SlotFacts, FirstIsMember, Zenon DEF TypeOK, Pick
<1> QED
  BY SlotFacts, <1>3, <1>4, <1>5, <1>6, Zenon DEF TypeOK, Schedule

LEMMA NextTypeOK == TypeOK /\ [Next]_vars => TypeOK'
<1> SUFFICES ASSUME TypeOK, [Next]_vars PROVE TypeOK'
  BY Zenon
<1>1. CASE Kmain
  <2>1. CASE InitGlobal
    BY SlotFacts, <2>1, Zenon DEF TypeOK, tables, InitGlobal, Boot, TaskState, Flow
  <2>2. CASE InitBsp
    BY SlotFacts, <2>2, Zenon DEF TypeOK, tables, InitBsp, InitCpu, Boot, TaskState
  <2>3. CASE StartAps
    BY SlotFacts, <2>3, Zenon DEF TypeOK, tables, StartAps, Boot
  <2>4. CASE TryStart
    BY SlotFacts, <2>4, SpawnUserCases
       DEF TypeOK, tables, TryStart, SpawnInto, Boot, TaskState, Flow
  <2> QED
    BY SlotFacts, <1>1, <2>1, <2>2, <2>3, <2>4, Zenon DEF TypeOK, tables, Kmain
<1>2. CASE KeyboardIrq
  BY SlotFacts, <1>2, Zenon DEF TypeOK, tables, KeyboardIrq, Place
<1>3. CASE WakeInputWaiters
  BY SlotFacts, <1>3, Zenon DEF TypeOK, tables, WakeInputWaiters, Place, TaskState
<1>4. ASSUME NEW c \in CPU, ApEntry(c) PROVE TypeOK'
  BY SlotFacts, <1>4, Zenon DEF TypeOK, tables, ApEntry, InitCpu, TaskState, Place
<1>5. ASSUME NEW c \in CPU, TimerIrq(c) PROVE TypeOK'
  BY SlotFacts, <1>5 DEF TypeOK, tables, TimerIrq, Place
<1>6. ASSUME NEW c \in CPU, SystemCall(c) PROVE TypeOK'
  <2>1. CASE SysYield(c)
    BY SlotFacts, <2>1, Zenon DEF TypeOK, tables, SysYield, Place
  <2>2. CASE SysExit(c)
    BY SlotFacts, <2>2, Zenon DEF TypeOK, tables, SysExit, MarkCurrentDead, Place, TaskState
  <2>3. CASE SysSpawn(c)
    BY SlotFacts, <2>3, SpawnUserCases DEF TypeOK, tables, SysSpawn, SpawnInto, TaskState, Flow
  <2>4. CASE SysEventRead(c)
    BY SlotFacts, <2>4, SchedulerAssumption DEF TypeOK, tables, SysEventRead, Place
  <2>5. CASE SysSleep(c)
    BY SlotFacts, <2>5, SchedulerAssumption DEF TypeOK, tables, SysSleep, Place
  <2> QED
    BY SlotFacts, <1>6, <2>1, <2>2, <2>3, <2>4, <2>5, Zenon DEF TypeOK, tables, SystemCall
<1>7. ASSUME NEW c \in CPU, KernelStep(c) PROVE TypeOK'
  <2>1. CASE WakeSleepers(c)
    BY SlotFacts, <2>1, Zenon DEF TypeOK, tables, WakeSleepers, Place, TaskState
  <2>2. CASE BlockCurrentInput(c)
    BY SlotFacts, <2>2 DEF TypeOK, tables, BlockCurrentInput, Place, TaskState
  <2>3. CASE BlockCurrentUntil(c)
    BY SlotFacts, <2>3 DEF TypeOK, tables, BlockCurrentUntil, Place, TaskState
  <2>4. CASE Schedule(c)
    BY <2>4, ScheduleTypeOK, Zenon
  <2>5. CASE ScheduleTooEarly(c)
    BY SlotFacts, <2>5, Zenon DEF TypeOK, tables, ScheduleTooEarly, Place
  <2>6. CASE Iret(c)
    BY SlotFacts, <2>6, Zenon DEF TypeOK, tables, Iret, Place, Flow
  <2> QED
    BY SlotFacts, <1>7, <2>1, <2>2, <2>3, <2>4, <2>5, <2>6, Zenon DEF TypeOK, tables, KernelStep
<1>8. CASE UNCHANGED vars
  BY SlotFacts, <1>8, Zenon DEF TypeOK, tables, vars
<1> QED
  BY SlotFacts, <1>1, <1>2, <1>3, <1>4, <1>5, <1>6, <1>7, <1>8, Zenon DEF TypeOK, tables, Next

(* Every variable keeps its type, whatever the programs call. *)
THEOREM TypeCorrect == Spec => []TypeOK
  BY InitTypeOK, NextTypeOK, PTL DEF Spec

-----------------------------------------------------------------------------
(* A task's frame resumes that task: the frame schedule stores in the current *)
(* task is the one of the flow on this processor, which is that task's.       *)
LEMMA NextFrameIsOwn ==
  ASSUME IInv, [Next]_vars
  PROVE  FrameIsOwn'
<1>0. TypeOK /\ FrameIsOwn /\ \A c \in CPU : CpuInv(c)
  BY Zenon DEF IInv
<1>a. \A c \in CPU : current[c] \in Task => frame[current[c]] = current[c]
  BY <1>0, Zenon DEF CpuInv
<1>1. ASSUME UNCHANGED frame,
             \A t \in Task : state'[t] # "Unused" => state[t] # "Unused" \/ frame[t] = t
      PROVE  FrameIsOwn'
  BY <1>0, <1>1, Zenon DEF FrameIsOwn
<1>2. CASE UNCHANGED vars
  BY <1>0, SlotFacts, <1>1, <1>2, Zenon DEF TypeOK, vars, tables
<1>3. CASE InitGlobal
  BY <1>0, SlotFacts, <1>3, Zenon DEF TypeOK, FrameIsOwn, InitGlobal
<1>4. CASE InitBsp
  BY <1>0, SlotFacts, <1>1, <1>4 DEF TypeOK, InitBsp, InitCpu
<1>5. CASE TryStart
  BY <1>0, SlotFacts, <1>5, SpawnUserCases DEF TypeOK, FrameIsOwn, TryStart, SpawnInto
<1>6. CASE WakeInputWaiters
  BY <1>0, SlotFacts, <1>1, <1>6, Zenon DEF TypeOK, WakeInputWaiters
<1>7. ASSUME NEW c \in CPU, Quiet(c) PROVE FrameIsOwn'
  BY <1>0, SlotFacts, <1>1, <1>7, QuietLeavesTables, Zenon DEF TypeOK, tables
<1>8. ASSUME NEW c \in CPU, ApEntry(c) PROVE FrameIsOwn'
  BY <1>0, SlotFacts, <1>1, <1>8 DEF TypeOK, ApEntry, InitCpu
<1>9. ASSUME NEW c \in CPU, SysExit(c) PROVE FrameIsOwn'
  BY <1>0, <1>a, SlotFacts, <1>1, <1>9 DEF TypeOK, SysExit, MarkCurrentDead
<1>10. ASSUME NEW c \in CPU, SysSpawn(c) PROVE FrameIsOwn'
  BY <1>0, SlotFacts, <1>10, SpawnUserCases DEF TypeOK, FrameIsOwn, SysSpawn, SpawnInto
<1>11. ASSUME NEW c \in CPU, WakeSleepers(c) PROVE FrameIsOwn'
  BY <1>0, SlotFacts, <1>1, <1>11, Zenon DEF TypeOK, WakeSleepers, Expired
<1>12. ASSUME NEW c \in CPU, BlockCurrentInput(c) PROVE FrameIsOwn'
  BY <1>0, <1>a, SlotFacts, <1>1, <1>12 DEF TypeOK, BlockCurrentInput
<1>13. ASSUME NEW c \in CPU, BlockCurrentUntil(c) PROVE FrameIsOwn'
  BY <1>0, <1>a, SlotFacts, <1>1, <1>13 DEF TypeOK, BlockCurrentUntil
<1>14. ASSUME NEW c \in CPU, Schedule(c) PROVE FrameIsOwn'
  <2>1. frame' = Saved(c)
    BY <1>0, SlotFacts, <1>14, Zenon
       DEF TypeOK, Schedule, SwitchTo, Marked, Deferral, KernelStack, ContinueIdle
  <2>2. \A t \in Task : Saved(c)[t] = frame[t] \/ (t = current[c] /\ Saved(c)[t] = t)
    <3>1. current[c] \in Task => on[c] = current[c]
      <4>1. pc[c] = "sched" /\ on[c] \in Flows(c, current[c])
        BY <1>0, <1>14, Zenon DEF CpuInv, Schedule
      <4> QED
        BY <4>1, SlotFacts, Zenon DEF Flows
    <3>2. frame \in [Slot -> Flow] /\ Task \subseteq Slot
      BY <1>0, SlotFacts, Zenon DEF TypeOK
    <3>3. CASE current[c] = null
      BY <3>3, Zenon DEF Saved
    <3>4. CASE current[c] # null
      BY <3>1, <3>2, <3>4, Zenon DEF Saved
    <3> QED
      BY <3>3, <3>4, Zenon
  <2>3. Pick(c) \subseteq {t \in Task : Published(c)[t] = "Ready"}
    BY <1>0, SlotFacts, FirstIsMember, Zenon DEF TypeOK, Pick
  <2>4. \A t \in Task : Published(c)[t] # "Unused" => frame[t] = t
    <3>1. deferred[c] \in Task => frame[deferred[c]] = deferred[c]
      BY <1>0, Zenon DEF CpuInv
    <3> QED
      BY <1>0, SlotFacts, <3>1, Zenon DEF TypeOK, FrameIsOwn, Published
  <2>5. \A t \in Task : state'[t] # "Unused" => Published(c)[t] # "Unused"
    <3>1. ASSUME NEW next \in Slot, SwitchTo(c, next), next \in Task => Published(c)[next] # "Unused"
          PROVE  \A t \in Task : state'[t] # "Unused" => Published(c)[t] # "Unused"
      BY <1>0, SlotFacts, <3>1, Zenon
         DEF TypeOK, SwitchTo, Marked, Deferral, KernelStack, Published
    <3>2. CASE ContinueIdle(c)
      BY <1>0, SlotFacts, <3>2, Zenon DEF TypeOK, ContinueIdle
    <3> QED
      BY <1>0, SlotFacts, <1>14, <2>3, <3>1, <3>2, Zenon DEF TypeOK, Schedule, KeepCurrent
  <2> QED
    BY <1>0, <2>1, <2>2, <2>4, <2>5, Zenon DEF FrameIsOwn
<1> QED
  BY NextCases, <1>2, <1>3, <1>4, <1>5, <1>6, <1>7, <1>8, <1>9, <1>10, <1>11, <1>12, <1>13, <1>14, Zenon

-----------------------------------------------------------------------------
(* No task exists before try_start: spawn comes from kmain or from a task. *)
LEMMA NextBootInv ==
  ASSUME IInv, [Next]_vars
  PROVE  (boot # "done" => \A t \in Task : state[t] = "Unused")'
<1> SUFFICES ASSUME boot' # "done" PROVE \A t \in Task : state'[t] = "Unused"
  BY Zenon
<1>0. TypeOK /\ \A c \in CPU : CpuInv(c)
  BY Zenon DEF IInv
<1>1. boot # "done"
  <2>1. ASSUME NEW c \in CPU, Quiet(c) PROVE boot # "done"
    BY <2>1, Zenon DEF Quiet, StartAps, KeyboardIrq, TimerIrq, SysYield, SysEventRead, SysSleep,
                ScheduleTooEarly, Iret
  <2>2. ASSUME NEW c \in CPU, ~Quiet(c),
               \/ ApEntry(c) \/ SysExit(c) \/ SysSpawn(c) \/ WakeSleepers(c)
               \/ BlockCurrentInput(c) \/ BlockCurrentUntil(c) \/ Schedule(c)
        PROVE  boot # "done"
    BY <2>2, Zenon DEF ApEntry, SysExit, SysSpawn, WakeSleepers, BlockCurrentInput,
                BlockCurrentUntil, Schedule
  <2>3. InitGlobal \/ InitBsp \/ WakeInputWaiters \/ UNCHANGED vars => boot # "done"
    BY Zenon DEF InitGlobal, InitBsp, WakeInputWaiters, vars
  <2>4. ~TryStart
    BY Zenon DEF TryStart
  <2> QED
    BY NextCases, <2>1, <2>2, <2>3, <2>4, Zenon
<1>2. \A t \in Task : state[t] = "Unused"
  BY <1>1, Zenon DEF IInv
<1>3. \A c \in CPU : current[c] \notin Task /\ deferred[c] = null
  BY <1>0, <1>2, SlotFacts DEF TypeOK, CpuInv
<1>4. \A c \in CPU : pc[c] \notin {"off", "iret"} => on[c] \notin Task
  BY <1>0, <1>3, SlotFacts DEF CpuInv, Flows
<1>5. CASE UNCHANGED vars
  BY <1>0, SlotFacts, <1>2, <1>5, Zenon DEF TypeOK, vars, tables
<1>6. CASE InitGlobal
  BY <1>0, SlotFacts, <1>6, Zenon DEF TypeOK, InitGlobal
<1>7. CASE InitBsp
  BY <1>0, SlotFacts, <1>2, <1>7 DEF TypeOK, InitBsp, InitCpu
<1>8. CASE TryStart
  BY <1>0, SlotFacts, <1>8, Zenon DEF TypeOK, TryStart
<1>9. CASE WakeInputWaiters
  BY <1>0, SlotFacts, <1>2, <1>9, Zenon DEF TypeOK, WakeInputWaiters
<1>10. ASSUME NEW c \in CPU, Quiet(c) PROVE \A t \in Task : state'[t] = "Unused"
  BY <1>0, SlotFacts, <1>2, <1>10, QuietLeavesTables, Zenon DEF TypeOK, tables
<1>11. ASSUME NEW c \in CPU, ApEntry(c) PROVE \A t \in Task : state'[t] = "Unused"
  BY <1>0, SlotFacts, <1>2, <1>11 DEF TypeOK, ApEntry, InitCpu
<1>12. ASSUME NEW c \in CPU, SysExit(c) \/ SysSpawn(c) PROVE FALSE
  BY <1>4, <1>12, Zenon DEF SysExit, SysSpawn, Calls
<1>13. ASSUME NEW c \in CPU, WakeSleepers(c) PROVE \A t \in Task : state'[t] = "Unused"
  BY <1>0, SlotFacts, <1>2, <1>13, Zenon DEF TypeOK, WakeSleepers, Expired
<1>14. ASSUME NEW c \in CPU, BlockCurrentInput(c) \/ BlockCurrentUntil(c) PROVE FALSE
  <2>1. pc[c] \in {"park_input", "park_sleep"}
    BY <1>14, Zenon DEF BlockCurrentInput, BlockCurrentUntil
  <2> QED
    BY <1>0, <1>4, <2>1, Zenon DEF CpuInv
<1>15. ASSUME NEW c \in CPU, Schedule(c) PROVE \A t \in Task : state'[t] = "Unused"
  <2>1. Published(c) = state
    BY <1>0, SlotFacts, <1>3, Zenon DEF TypeOK, Published
  <2>2. Pick(c) = {}
    BY <1>2, <2>1, FirstIsMember, Zenon DEF Pick
  <2>3. state' = state \/ state' = [state EXCEPT ![Idle(c)] = "Running"]
    BY <1>0, SlotFacts, <1>3, <1>15, <2>1, <2>2, Zenon
       DEF TypeOK, Schedule, SwitchTo, Marked, Deferral, KernelStack, ContinueIdle, KeepCurrent
  <2> QED
    BY <1>0, <1>2, <2>3, SlotFacts DEF TypeOK
<1> QED
  BY NextCases, <1>5, <1>6, <1>7, <1>8, <1>9, <1>10, <1>11, <1>12, <1>13, <1>14, <1>15, Zenon

-----------------------------------------------------------------------------
(* ShelterInv: only one processor refers to a sheltered task, and while it does *)
(* the task is not up for grabs.                                                *)

(* schedule on c.  The deferred task is published only now that c executes      *)
(* another flow; the task it picks is Ready, hence referred to by nobody.       *)
LEMMA ScheduleShelterInv ==
  ASSUME IInv, NEW c \in CPU, Schedule(c), NEW t \in Task, Sheltered(t)
  PROVE  ShelterInv(t)'
<1>0. /\ state \in [Slot -> TaskState] /\ pc \in [CPU -> Place] /\ on \in [CPU -> Flow]
      /\ current \in [CPU -> Slot \cup {null}] /\ deferred \in [CPU -> Task \cup {null}]
  BY Zenon DEF IInv, TypeOK
<1>1. pc[c] = "sched" /\ pc' = [pc EXCEPT ![c] = "iret"] /\ on' = on
  BY <1>0, SlotFacts, Zenon DEF Schedule
<1>2. ShelterInv(t)
  BY <1>0, SlotFacts, Zenon DEF IInv
<1>3. on[c] = t => current[c] = t
  BY <1>0, SlotFacts, <1>1, <1>2, Zenon DEF ShelterInv
<1>4. /\ Published(c)[t] = IF deferred[c] = t THEN "Ready" ELSE state[t]
      /\ deferred[c] = t => state[t] = "Running" /\ current[c] # t
  BY <1>0, SlotFacts, <1>2, Zenon DEF Published, ShelterInv
<1>5. \A d \in CPU : d # c => /\ current'[d] = current[d] /\ deferred'[d] = deferred[d]
                             /\ pc'[d] = pc[d]
  BY <1>0, SlotFacts, <1>1, Zenon
     DEF Schedule, SwitchTo, Marked, Deferral, KernelStack, ContinueIdle
<1>6. deferred[c] = t \/ current[c] = t => \A d \in CPU : d # c => ~Touches(d, t)
  BY <1>0, SlotFacts, <1>2, Zenon DEF ShelterInv, Touches
<1>7. ASSUME Published(c)[t] = "Ready", current[c] # t
      PROVE  \A d \in CPU : d # c => ~Touches(d, t)
  BY <1>0, SlotFacts, <1>2, <1>4, <1>6, <1>7, Zenon DEF ShelterInv, Touches
<1>8. Pick(c) \subseteq {s \in Task : Published(c)[s] = "Ready" /\ s # current[c]}
  BY <1>0, SlotFacts, FirstIsMember, Zenon DEF Pick
<1>9. ASSUME NEW next \in Task \cup {Idle(c)}, SwitchTo(c, next),
             next = t => \/ Published(c)[t] = "Ready" /\ current[c] # t
                         \/ Published(c)[t] = "Running" /\ current[c] = t
      PROVE  ShelterInv(t)'
  <2>1. /\ current'[c] = next
        /\ deferred'[c] = IF next # current[c] /\ KeepCurrent(c) THEN current[c] ELSE null
    BY <1>0, SlotFacts, <1>9 DEF SwitchTo, Marked, Deferral, KernelStack
  <2>2. state'[t] = IF next = t THEN "Running" ELSE Published(c)[t]
    BY <1>0, SlotFacts, <1>9, Zenon DEF SwitchTo, Marked, Deferral, KernelStack, Published
  <2>3. CASE next = t
    <3>1. \A d \in CPU : d # c => ~Touches(d, t)
      BY <1>6, <1>7, <1>9, <2>3, Zenon
    <3>2. \A d \in CPU : d # c => ~Touches(d, t)'
      BY <1>0, SlotFacts, <1>1, <1>5, <3>1, Zenon DEF Touches
    <3>3. on[c] = t => current'[c] = t
      BY <2>1, <2>3, Zenon
    <3>4. deferred'[c] # t
      BY <2>1, <2>3, SlotFacts, Zenon
    <3> QED
      BY <1>0, SlotFacts, <1>1, <2>1, <2>2, <2>3, <3>2, <3>3, <3>4, Zenon DEF ShelterInv, Touches
  <2>4. CASE next # t /\ current[c] = t
    <3>1. \A d \in CPU : d # c => ~Touches(d, t)'
      BY <1>0, SlotFacts, <1>1, <1>5, <1>6, <2>4, Zenon DEF Touches
    <3>2. state'[t] = state[t] /\ current'[c] # t
      BY <1>4, <2>1, <2>2, <2>4, Zenon
    <3>3. CASE state[t] = "Running"
      <4>1. deferred'[c] = t
        BY <1>0, SlotFacts, <1>4, <2>1, <2>4, <3>3, Zenon DEF KeepCurrent
      <4> QED
        BY <1>0, SlotFacts, <1>1, <3>1, <3>2, <3>3, <4>1, Zenon DEF ShelterInv, Touches
    <3>4. CASE state[t] # "Running"
      <4>1. deferred'[c] # t
        BY <1>0, SlotFacts, <1>4, <2>1, <2>4, <3>4 DEF KeepCurrent
      <4>2. state[t] \in {"Dead", "Blocked"}
        BY <1>0, SlotFacts, <1>2, <2>4, <3>4, Zenon DEF ShelterInv
      <4> QED
        BY <1>0, SlotFacts, <1>1, <1>2, <3>1, <3>2, <4>1, <4>2, Zenon DEF ShelterInv, Touches
    <3> QED
      BY <3>3, <3>4, Zenon
  <2>5. CASE next # t /\ current[c] # t
    <3>1. ~Touches(c, t)'
      BY <1>0, SlotFacts, <1>1, <1>3, <2>1, <2>5, Zenon DEF Touches
    <3>2. CASE deferred[c] = t
      <4>1. \A d \in CPU : ~Touches(d, t)'
        BY <1>0, SlotFacts, <1>1, <1>5, <1>6, <3>1, <3>2, Zenon DEF Touches
      <4> QED
        BY <1>0, SlotFacts, <1>4, <2>2, <2>5, <3>2, <4>1, Zenon DEF ShelterInv, Touches
    <3>3. CASE deferred[c] # t
      <4>1. state'[t] = state[t]
        BY <1>4, <2>2, <2>5, <3>3, Zenon
      <4> QED
        BY <1>0, SlotFacts, <1>1, <1>2, <1>5, <3>1, <4>1 DEF ShelterInv, Touches
    <3> QED
      BY <3>2, <3>3, Zenon
  <2> QED
    BY <2>3, <2>4, <2>5, Zenon
<1>10. CASE ContinueIdle(c)
  <2>1. /\ state' = Published(c) /\ current'[c] = current[c] /\ deferred'[c] = null
        /\ current[c] # t
    BY <1>0, SlotFacts, <1>10, Zenon DEF ContinueIdle
  <2>2. ~Touches(c, t)'
    BY <1>0, SlotFacts, <1>1, <1>3, <2>1, Zenon DEF Touches
  <2>3. CASE deferred[c] = t
    <3>1. \A d \in CPU : ~Touches(d, t)'
      BY <1>0, SlotFacts, <1>1, <1>5, <1>6, <2>2, <2>3, Zenon DEF Touches
    <3> QED
      BY <1>0, SlotFacts, <1>4, <2>1, <2>3, <3>1, Zenon DEF ShelterInv, Touches
  <2>4. CASE deferred[c] # t
    BY <1>0, SlotFacts, <1>1, <1>2, <1>4, <1>5, <2>1, <2>2, <2>4 DEF ShelterInv, Touches
  <2> QED
    BY <2>3, <2>4, Zenon
<1> QED
  <2>1. current[c] \in Task \cup {Idle(c), null}
    BY <1>0, SlotFacts, Zenon DEF IInv, CpuInv
  <2> QED
    BY <1>0, SlotFacts, <1>8, <1>9, <1>10, <2>1 DEF Schedule, KeepCurrent

(* A processor refers to a sheltered task only while it is Running, Dead or Blocked. *)
LEMMA IdleTasksUntouched ==
  ASSUME IInv, NEW t \in Task, Sheltered(t), state[t] \in {"Unused", "Ready"}
  PROVE  \A c \in CPU : ~Touches(c, t)
  BY DEF IInv, ShelterInv, Touches

LEMMA NextShelterInv ==
  ASSUME IInv, [Next]_vars, NEW t \in Task, Sheltered(t)
  PROVE  ShelterInv(t)'
<1>0. /\ state \in [Slot -> TaskState] /\ pc \in [CPU -> Place] /\ on \in [CPU -> Flow]
      /\ current \in [CPU -> Slot \cup {null}] /\ deferred \in [CPU -> Task \cup {null}]
      /\ \A c \in CPU : CpuInv(c)
      /\ boot # "done" => state[t] = "Unused"
  BY Zenon DEF IInv, TypeOK
<1>1. ShelterInv(t)
  BY <1>0, SlotFacts, Zenon DEF IInv
<1>2. ASSUME state'[t] = state[t], UNCHANGED <<current, deferred, on>>,
             \A d \in CPU : pc'[d] = pc[d] \/ pc[d] \notin {"sched", "iret"}
      PROVE  ShelterInv(t)'
  BY <1>0, SlotFacts, <1>1, <1>2 DEF ShelterInv, Touches
<1>3. ASSUME \A d \in CPU : ~Touches(d, t), \A d \in CPU : ~Touches(d, t)',
             NeverBlocks(t) => state'[t] # "Blocked"
      PROVE  ShelterInv(t)'
  BY <1>0, SlotFacts, <1>3, Zenon DEF ShelterInv, Touches
<1>4. CASE UNCHANGED vars
  BY <1>0, SlotFacts, <1>2, <1>4, Zenon DEF vars, tables
<1>5. CASE InitGlobal
  <2>1. \A d \in CPU : ~Touches(d, t)
    BY <1>0, SlotFacts, <1>5, IdleTasksUntouched, Zenon DEF InitGlobal
  <2> QED
    BY <1>0, SlotFacts, <1>3, <1>5, <2>1, Zenon DEF InitGlobal, Touches
<1>6. CASE InitBsp
  <2>1. \A d \in CPU : ~Touches(d, t)
    BY <1>0, SlotFacts, <1>6, IdleTasksUntouched, Zenon DEF InitBsp
  <2>2. \A d \in CPU : ~Touches(d, t)'
    BY <1>0, SlotFacts, <1>6, <2>1 DEF InitBsp, InitCpu, Touches
  <2>3. state'[t] = state[t]
    BY <1>0, SlotFacts, <1>6 DEF InitBsp, InitCpu
  <2> QED
    BY <1>0, SlotFacts, <1>1, <1>3, <2>1, <2>2, <2>3, Zenon DEF ShelterInv
<1>7. ASSUME SpawnUser, UNCHANGED <<current, deferred, on, pc>> PROVE ShelterInv(t)'
  <2>1. state'[t] = state[t] \/ (state[t] = "Unused" /\ state'[t] = "Ready")
    BY <1>0, SlotFacts, <1>7, SpawnUserCases, Zenon DEF SpawnInto
  <2>2. CASE state[t] = "Unused" /\ state'[t] = "Ready"
    <3>1. \A d \in CPU : ~Touches(d, t)
      BY <2>2, IdleTasksUntouched, Zenon
    <3> QED
      BY <1>0, SlotFacts, <1>3, <1>7, <2>2, <3>1, Zenon DEF Touches
  <2> QED
    BY <1>2, <1>7, <2>1, <2>2, Zenon
<1>8. CASE TryStart
  BY <1>0, SlotFacts, <1>2, <1>7, <1>8, Zenon DEF TryStart
<1>9. ASSUME state[t] = "Blocked",
             NEW c \in CPU, pc[c] \in {"tick", "pressed"}
      PROVE  \A d \in CPU : ~Touches(d, t)
  <2>1. \A d \in CPU : d = c
    BY <1>0, SlotFacts, <1>1, <1>9, Zenon DEF Sheltered, ShelterInv
  <2> QED
    BY <1>0, SlotFacts, <1>1, <1>9, <2>1, Zenon DEF ShelterInv, Touches
<1>10. CASE WakeInputWaiters
  <2>1. /\ UNCHANGED <<current, deferred, on>> /\ pc[BSP] = "pressed"
        /\ \A d \in CPU : pc'[d] = pc[d] \/ pc[d] \notin {"sched", "iret"}
    BY <1>0, SlotFacts, <1>10, Zenon DEF WakeInputWaiters
  <2>2. state'[t] = state[t] \/ (state[t] = "Blocked" /\ state'[t] = "Ready")
    BY <1>0, SlotFacts, <1>10, Zenon DEF WakeInputWaiters
  <2>3. CASE state[t] = "Blocked" /\ state'[t] = "Ready"
    BY <1>0, SlotFacts, <1>3, <1>9, <2>1, <2>3, Zenon DEF Touches
  <2> QED
    BY <1>2, <2>1, <2>2, <2>3, Zenon
<1>11. ASSUME NEW c \in CPU, WakeSleepers(c) PROVE ShelterInv(t)'
  <2>1. /\ UNCHANGED <<current, deferred, on>> /\ pc[c] = "tick"
        /\ \A d \in CPU : pc'[d] = pc[d] \/ pc[d] \notin {"sched", "iret"}
    BY <1>0, SlotFacts, <1>11, Zenon DEF WakeSleepers
  <2>2. state'[t] = state[t] \/ (state[t] = "Blocked" /\ state'[t] = "Ready")
    BY <1>0, SlotFacts, <1>11, Zenon DEF WakeSleepers, Expired
  <2>3. CASE state[t] = "Blocked" /\ state'[t] = "Ready"
    BY <1>0, SlotFacts, <1>3, <1>9, <2>1, <2>3, Zenon DEF Touches
  <2> QED
    BY <1>2, <2>1, <2>2, <2>3, Zenon
<1>12. ASSUME NEW c \in CPU, Quiet(c) PROVE ShelterInv(t)'
  <2>1. UNCHANGED tables
    BY <1>12, QuietLeavesTables, Zenon
  <2>2. CASE Iret(c)
    <3>1. resume[c] = t => current[c] = t
      BY <1>0, SlotFacts, <2>2 DEF Iret, CpuInv, Flows
    <3>2. on'[c] = resume[c] /\ pc'[c] = "run" /\ pc[c] = "iret"
      BY <1>0, SlotFacts, <2>2, Zenon DEF Iret
    <3>3. \A d \in CPU : d # c => on'[d] = on[d] /\ pc'[d] = pc[d]
      BY <1>0, SlotFacts, <2>2, Zenon DEF Iret
    <3>4. \A d \in CPU : Touches(d, t)' => Touches(d, t)
      BY <1>0, SlotFacts, <2>1, <3>1, <3>2, <3>3, Zenon DEF Touches, tables
    <3> QED
      BY <1>0, SlotFacts, <1>1, <2>1, <3>1, <3>2, <3>3, <3>4, Zenon DEF ShelterInv, tables
  <2>3. CASE ScheduleTooEarly(c)
    <3>1. \A d \in CPU : ~Touches(d, t)
      BY <1>0, SlotFacts, <2>3, IdleTasksUntouched, Zenon DEF ScheduleTooEarly
    <3> QED
      BY <1>0, SlotFacts, <1>1, <1>3, <2>1, <2>3, <3>1, Zenon
         DEF ScheduleTooEarly, Touches, tables, ShelterInv
  <2>4. CASE ~Iret(c) /\ ~ScheduleTooEarly(c)
    <3>1. on' = on /\ \A d \in CPU : pc'[d] = pc[d] \/ pc[d] \notin {"sched", "iret"}
      BY <1>0, SlotFacts, <1>12, <2>4, Zenon
         DEF Quiet, StartAps, KeyboardIrq, TimerIrq, SysYield, SysEventRead, SysSleep,
             Calls
    <3> QED
      BY <1>0, SlotFacts, <1>2, <2>1, <3>1, Zenon DEF tables
  <2> QED
    BY <2>2, <2>3, <2>4, Zenon
<1>13. ASSUME NEW c \in CPU, ApEntry(c) PROVE ShelterInv(t)'
  <2>1. current[c] = null /\ deferred[c] = null /\ on[c] = Idle(c) /\ pc[c] = "off"
    BY <1>0, SlotFacts, <1>13, Zenon DEF ApEntry, CpuInv
  <2>2. /\ state'[t] = state[t] /\ on' = on /\ current'[c] = Idle(c) /\ deferred'[c] = null
        /\ \A d \in CPU : d # c => /\ current'[d] = current[d] /\ deferred'[d] = deferred[d]
                                  /\ pc'[d] = pc[d]
    BY <1>0, SlotFacts, <1>13 DEF ApEntry, InitCpu
  <2>3. ~Touches(c, t)'
    BY <1>0, SlotFacts, <2>1, <2>2 DEF Touches
  <2> QED
    BY <1>0, SlotFacts, <1>1, <2>1, <2>2, <2>3 DEF ShelterInv, Touches
<1>14. ASSUME NEW c \in CPU, pc[c] \in {"run", "park_input", "park_sleep"}, on[c] \in Task,
              pc' = [pc EXCEPT ![c] = "sched"], UNCHANGED <<current, deferred, on>>,
              NEW s \in {"Dead", "Blocked"}, s = "Blocked" => ~NeverBlocks(on[c]),
              state' = [state EXCEPT ![current[c]] = s]
       PROVE  ShelterInv(t)'
  <2>1. current[c] = on[c]
    BY <1>0, SlotFacts, <1>14 DEF CpuInv, Flows
  <2>2. CASE t = on[c]
    BY <1>0, SlotFacts, <1>1, <1>14, <2>1, <2>2, Zenon DEF ShelterInv, Touches
  <2>3. CASE t # on[c]
    BY <1>2, <1>14, <2>1, <2>3
  <2> QED
    BY <2>2, <2>3, Zenon
<1>15. \A c \in CPU : pc[c] \in {"run", "park_input", "park_sleep"} /\ on[c] \in Task
                       => current[c] # null
  BY <1>0, SlotFacts DEF CpuInv, Flows
<1>16. ASSUME NEW c \in CPU, SysExit(c) PROVE ShelterInv(t)'
  <2>1. /\ pc[c] = "run" /\ on[c] \in Task /\ pc' = [pc EXCEPT ![c] = "sched"]
        /\ UNCHANGED <<current, deferred, on>>
    BY <1>16, Zenon DEF SysExit, Calls
  <2>2. state' = [state EXCEPT ![current[c]] = "Dead"]
    BY <1>15, <1>16, <2>1, Zenon DEF SysExit, MarkCurrentDead
  <2> QED
    BY <1>14, <2>1, <2>2, Zenon
<1>17. ASSUME NEW c \in CPU, SysSpawn(c) PROVE ShelterInv(t)'
  BY <1>0, SlotFacts, <1>7, <1>17, Zenon DEF SysSpawn
<1>18. ASSUME NEW c \in CPU, BlockCurrentInput(c) PROVE ShelterInv(t)'
  <2>1. on[c] \in Task /\ ~NeverBlocks(on[c])
    BY <1>0, SlotFacts, <1>18, Zenon DEF BlockCurrentInput, CpuInv
  <2>2. /\ pc[c] = "park_input" /\ pc' = [pc EXCEPT ![c] = "sched"]
        /\ UNCHANGED <<current, deferred, on>>
    BY <1>18, Zenon DEF BlockCurrentInput
  <2>3. state' = [state EXCEPT ![current[c]] = "Blocked"]
    BY <1>15, <1>18, <2>1, <2>2, Zenon DEF BlockCurrentInput
  <2> QED
    BY <1>14, <2>1, <2>2, <2>3, Zenon
<1>19. ASSUME NEW c \in CPU, BlockCurrentUntil(c) PROVE ShelterInv(t)'
  <2>1. on[c] \in Task /\ ~NeverBlocks(on[c])
    BY <1>0, SlotFacts, <1>19, Zenon DEF BlockCurrentUntil, CpuInv
  <2>2. /\ pc[c] = "park_sleep" /\ pc' = [pc EXCEPT ![c] = "sched"]
        /\ UNCHANGED <<current, deferred, on>>
    BY <1>19, Zenon DEF BlockCurrentUntil
  <2>3. state' = [state EXCEPT ![current[c]] = "Blocked"]
    BY <1>15, <1>19, <2>1, <2>2, Zenon DEF BlockCurrentUntil
  <2> QED
    BY <1>14, <2>1, <2>2, <2>3, Zenon
<1>20. ASSUME NEW c \in CPU, Schedule(c) PROVE ShelterInv(t)'
  BY <1>20, ScheduleShelterInv, Zenon
<1> QED
  BY NextCases, <1>4, <1>5, <1>6, <1>8, <1>10, <1>11, <1>12, <1>13, <1>16, <1>17, <1>18, <1>19, <1>20, Zenon

-----------------------------------------------------------------------------
LEMMA InitIInv == Init => IInv
<1> SUFFICES ASSUME Init PROVE IInv
  BY Zenon
<1> USE SlotFacts DEF Init
<1>1. TypeOK
  BY InitTypeOK, Zenon
<1>2. NoTaskLost /\ FrameIsOwn /\ \A t \in Task : state[t] = "Unused"
  BY Zenon DEF NoTaskLost, FrameIsOwn
<1>3. \A c \in CPU : CpuInv(c)
  BY Zenon DEF CpuInv, Flows
<1>4. \A t \in Task : ShelterInv(t)
  BY DEF ShelterInv, Touches
<1> QED
  BY <1>1, <1>2, <1>3, <1>4, Zenon DEF IInv

LEMMA NextIInv == IInv /\ [Next]_vars => IInv'
<1> SUFFICES ASSUME IInv, [Next]_vars PROVE IInv'
  BY Zenon
<1>1. TypeOK'
  BY NextTypeOK, Zenon DEF IInv
<1>2. FrameIsOwn' /\ NoTaskLost'
  BY NextFrameIsOwn, NextNoTaskLost, Zenon
<1>3. \A c \in CPU : CpuInv(c)'
  BY <1>1, <1>2, NextCpuInv, Zenon
<1>4. \A t \in Task : Sheltered(t) => ShelterInv(t)'
  BY NextShelterInv, Zenon
<1> QED
  BY <1>1, <1>2, <1>3, <1>4, NextBootInv, Zenon DEF IInv, Sheltered, NeverBlocks

(* The invariant the other theorems are read off from. *)
THEOREM Invariance == Spec => []IInv
  BY InitIInv, NextIInv, PTL DEF Spec

(* No sequence of passes of schedule forgets a Running task: some processor *)
(* keeps it as current or deferred.                                         *)
THEOREM TasksAreKept == Spec => []NoTaskLost
  BY Invariance, PTL DEF IInv

(* The frame saved in a task resumes that task, with any programs on any *)
(* number of processors.                                                 *)
THEOREM FramesAreOwn == Spec => []FrameIsOwn
  BY Invariance, PTL DEF IInv

(* A processor that runs a flow traps onto the kernel stack that schedule *)
(* installed for the task it runs.                                        *)
THEOREM StacksAreOwn == Spec => []TrapsOnOwnStack
<1>1. ASSUME IInv PROVE TrapsOnOwnStack
  <2> SUFFICES ASSUME NEW c \in CPU, pc[c] = "run", current[c] # null
               PROVE  /\ rsp0[c] = current[c]
                      /\ on[c] = current[c] \/ (on[c] = kmain /\ current[c] = Idle(BSP))
    BY Zenon DEF TrapsOnOwnStack
  <2>1. rsp0[c] = current[c] /\ on[c] \in Flows(c, current[c])
    BY <1>1, Zenon DEF IInv, CpuInv
  <2> QED
    BY <2>1, Zenon DEF Flows
<1> QED
  BY <1>1, Invariance, PTL

(* A Ready task that is sheltered from early wake-ups is on no processor's *)
(* stack: the purpose of PerCpu.deferred.                                  *)
THEOREM ReadyTasksAreOffCpu == Spec => []ReadyIsOffCpu
<1>1. ASSUME IInv PROVE ReadyIsOffCpu
  <2> SUFFICES ASSUME NEW t \in Task, Sheltered(t), state[t] = "Ready", NEW c \in CPU, on[c] = t
               PROVE  FALSE
    BY Zenon DEF ReadyIsOffCpu, Executing
  <2>1. ~Touches(c, t)
    BY <1>1, IdleTasksUntouched, Zenon
  <2> QED
    BY <2>1, Zenon DEF Touches
<1> QED
  BY <1>1, Invariance, PTL

(* A sheltered task executes on one processor at a time. *)
THEOREM ExecutionIsExclusive == Spec => []ExclusiveExecution
<1>1. ASSUME IInv PROVE ExclusiveExecution
  <2> SUFFICES ASSUME NEW t \in Task, Sheltered(t), NEW c \in CPU, NEW d \in CPU,
                      on[c] = t, on[d] = t
               PROVE  c = d
    BY Zenon DEF ExclusiveExecution, Executing
  <2>1. ShelterInv(t) /\ Touches(c, t) /\ Touches(d, t)
    BY <1>1, Zenon DEF IInv, Touches
  <2> QED
    BY <2>1, Zenon DEF ShelterInv
<1> QED
  BY <1>1, Invariance, PTL

-----------------------------------------------------------------------------
(* What a step may do to a sheltered task that is Dead or Blocked: nothing,   *)
(* but for the two wake-ups, and exit or schedule cannot reach it.            *)
LEMMA NotRunnableSteps ==
  ASSUME IInv, [Next]_vars, NEW t \in Task, Sheltered(t), state[t] \in {"Dead", "Blocked"},
         state'[t] # state[t]
  PROVE  \/ WakeInputWaiters
         \/ \E c \in CPU : WakeSleepers(c)
<1>0. /\ state \in [Slot -> TaskState] /\ pc \in [CPU -> Place] /\ on \in [CPU -> Flow]
      /\ current \in [CPU -> Slot \cup {null}] /\ deferred \in [CPU -> Task \cup {null}]
  BY Zenon DEF IInv, TypeOK
<1>1. ShelterInv(t) /\ boot = "done" /\ \A c \in CPU : CpuInv(c)
  BY <1>0, SlotFacts, Zenon DEF IInv
<1>2. \A c \in CPU : pc[c] \in {"run", "park_input", "park_sleep"} => current[c] # t
  BY <1>0, SlotFacts, <1>1, Zenon DEF ShelterInv
<1>3. ASSUME NEW c \in CPU, Schedule(c) PROVE FALSE
  <2>1. deferred[c] # t
    BY <1>0, SlotFacts, <1>1, Zenon DEF ShelterInv
  <2>2. Published(c)[t] = state[t]
    BY <1>0, SlotFacts, <2>1, Zenon DEF Published
  <2>3. Pick(c) \subseteq {s \in Task : Published(c)[s] = "Ready"}
    BY <1>0, SlotFacts, FirstIsMember, Zenon DEF Pick
  <2>4. ASSUME NEW next \in Slot, next # t, SwitchTo(c, next) PROVE FALSE
    BY <1>0, SlotFacts, <2>2, <2>4, Zenon DEF SwitchTo, Marked, Deferral, KernelStack, Published
  <2>5. ~ContinueIdle(c)
    BY <1>0, SlotFacts, <2>2, Zenon DEF ContinueIdle
  <2>6. current[c] \in Slot \cup {null} /\ Idle(c) \in Slot /\ Idle(c) # t
    BY <1>0, SlotFacts
  <2>7. PICK next \in Slot : /\ SwitchTo(c, next)
                             /\ \/ next \in Pick(c) \cup {Idle(c)}
                                \/ KeepCurrent(c) /\ next = current[c]
    BY <1>0, SlotFacts, <1>3, <2>3, <2>5, <2>6, Zenon DEF Schedule, KeepCurrent
  <2> QED
    BY <1>0, SlotFacts, <2>2, <2>3, <2>4, <2>6, <2>7, Zenon DEF KeepCurrent
<1>4. ~InitGlobal /\ ~InitBsp /\ ~TryStart /\ ~UNCHANGED vars
  BY <1>0, SlotFacts, <1>1, Zenon DEF InitGlobal, InitBsp, TryStart, vars, tables
<1>5. ASSUME NEW c \in CPU, Quiet(c) PROVE FALSE
  BY <1>0, SlotFacts, <1>5, QuietLeavesTables, Zenon DEF tables
<1>6. ASSUME NEW c \in CPU, ApEntry(c) \/ SysSpawn(c) PROVE FALSE
  <2>1. CASE ApEntry(c)
    BY <1>0, SlotFacts, <2>1 DEF ApEntry, InitCpu
  <2>2. CASE SysSpawn(c)
    BY <1>0, SlotFacts, <2>2, SpawnUserCases, Zenon DEF SysSpawn, SpawnInto
  <2> QED
    BY <1>6, <2>1, <2>2, Zenon
<1>7. ASSUME NEW c \in CPU, SysExit(c) \/ BlockCurrentInput(c) \/ BlockCurrentUntil(c)
      PROVE  FALSE
  BY <1>0, SlotFacts, <1>2, <1>7, Zenon
     DEF SysExit, MarkCurrentDead, Calls, BlockCurrentInput, BlockCurrentUntil
<1> QED
  BY NextCases, <1>3, <1>4, <1>5, <1>6, <1>7, Zenon

(* exit is final: nothing makes a sheltered dead task runnable. *)
THEOREM DeathIsFinal == Spec => DeadStaysDead
<1>1. ASSUME IInv, [Next]_vars, NEW t \in Task, Sheltered(t), state[t] = "Dead"
      PROVE  state'[t] = "Dead"
  BY <1>1, NotRunnableSteps, SlotFacts
     DEF WakeInputWaiters, WakeSleepers, Expired, IInv, TypeOK
<1>2. IInv /\ [Next]_vars =>
        [\A t \in Task : Sheltered(t) /\ state[t] = "Dead" => state'[t] = "Dead"]_vars
  BY <1>1, Zenon
<1> QED
  BY <1>2, Invariance, PTL DEF Spec, DeadStaysDead

(* A sheltered sleeping task wakes only once its deadline has passed. *)
THEOREM SleepIsNotCutShort == Spec => NoEarlyWake
<1>1. ASSUME IInv, [Next]_vars, NEW t \in Task, Sheltered(t), state[t] = "Blocked",
             t \notin wait_input, state'[t] # "Blocked"
      PROVE  wake_tick[t] <= uptime
  BY <1>1, NotRunnableSteps, SlotFacts, Zenon
     DEF WakeInputWaiters, WakeSleepers, Expired, IInv, TypeOK
<1>2. IInv /\ [Next]_vars =>
        [\A t \in Task :
           Sheltered(t) /\ state[t] = "Blocked" /\ t \notin wait_input /\ state'[t] # "Blocked"
             => wake_tick[t] <= uptime]_vars
  BY <1>1, Zenon
<1> QED
  BY <1>2, Invariance, PTL DEF Spec, NoEarlyWake

-----------------------------------------------------------------------------
(* On a single processor no wake-up is lost.                                  *)

(* event_read finds the ring empty and parks before an interrupt can fill it; *)
(* who is parked while keys wait is about to be woken.                        *)
ParksOnEmptyRing ==
  /\ pc[BSP] = "park_input" => keys = 0
  /\ \A t \in Task : state[t] = "Blocked" /\ t \in wait_input /\ keys > 0 => pc[BSP] = "pressed"

(* Every step of a single processor keeps that: the only step that adds a key *)
(* enters the keyboard handler, and its wake-up leaves nobody parked.         *)
LEMMA NextParksOnEmptyRing ==
  ASSUME IInv, [Next]_vars, NCpu = 1, 0 \notin EventMax, ParksOnEmptyRing
  PROVE  ParksOnEmptyRing'
<1>0. /\ state \in [Slot -> TaskState] /\ pc \in [CPU -> Place] /\ keys \in Nat
      /\ current \in [CPU -> Slot \cup {null}] /\ deferred \in [CPU -> Task \cup {null}]
  BY SchedulerAssumption DEF IInv, TypeOK
<1>1. \A c \in CPU : c = BSP
  BY SlotFacts, Zenon
<1>2. ASSUME keys' = keys, pc'[BSP] # "park_input", pc[BSP] # "pressed",
             \A t \in Task : state'[t] = "Blocked" /\ t \in wait_input'
                             => state[t] = "Blocked" /\ t \in wait_input
      PROVE  ParksOnEmptyRing'
  BY <1>2, Zenon DEF ParksOnEmptyRing
<1>3. CASE UNCHANGED vars
  BY <1>3, Zenon DEF vars, tables, ParksOnEmptyRing
<1>4. CASE InitGlobal
  BY <1>0, <1>4, <1>2, SlotFacts, Zenon DEF InitGlobal, InKmain
<1>5. CASE InitBsp
  BY <1>0, <1>5, <1>2, SlotFacts, Zenon DEF InitBsp, InitCpu, InKmain
<1>6. ASSUME SpawnUser, UNCHANGED <<pc, keys>>, pc[BSP] = "run" PROVE ParksOnEmptyRing'
  BY <1>0, <1>6, <1>2, SpawnUserCases, SlotFacts, Zenon DEF SpawnInto
<1>7. CASE TryStart
  BY <1>0, <1>6, <1>7, <1>2, Zenon DEF TryStart, InKmain
<1>8. CASE WakeInputWaiters
  BY <1>0, <1>8, SlotFacts, Zenon DEF WakeInputWaiters, ParksOnEmptyRing
<1>9. ASSUME NEW c \in CPU, Quiet(c) PROVE ParksOnEmptyRing'
  <2>1. c = BSP /\ UNCHANGED <<state, wait_input>>
    BY <1>1, <1>9, QuietLeavesTables, Zenon DEF tables
  <2>2. CASE StartAps
    BY <2>1, <2>2, Zenon DEF StartAps, ParksOnEmptyRing
  <2>3. CASE KeyboardIrq
    BY <1>0, <2>1, <2>3, SlotFacts, Zenon DEF KeyboardIrq, ParksOnEmptyRing
  <2>4. CASE SysEventRead(c)
    BY <1>0, <2>1, <2>4, SlotFacts, SchedulerAssumption
       DEF SysEventRead, Calls, ParksOnEmptyRing
  <2>5. CASE TimerIrq(c) \/ SysYield(c) \/ SysSleep(c) \/ ScheduleTooEarly(c) \/ Iret(c)
    BY <1>0, <1>2, <2>1, <2>5, SlotFacts, Zenon
       DEF TimerIrq, SysYield, SysSleep, ScheduleTooEarly, Iret, Calls
  <2> QED
    BY <1>9, <2>2, <2>3, <2>4, <2>5, Zenon DEF Quiet
<1>10. ASSUME NEW c \in CPU, ApEntry(c) PROVE ParksOnEmptyRing'
  BY <1>0, <1>1, <1>2, <1>10, SlotFacts, Zenon DEF ApEntry, InitCpu
<1>11. ASSUME NEW c \in CPU, SysExit(c) PROVE ParksOnEmptyRing'
  BY <1>0, <1>1, <1>2, <1>11, SlotFacts, Zenon DEF SysExit, Calls, MarkCurrentDead
<1>12. ASSUME NEW c \in CPU, SysSpawn(c) PROVE ParksOnEmptyRing'
  BY <1>1, <1>6, <1>12, Zenon DEF SysSpawn, Calls
<1>13. ASSUME NEW c \in CPU, WakeSleepers(c) PROVE ParksOnEmptyRing'
  BY <1>0, <1>1, <1>2, <1>13, SlotFacts, Zenon DEF WakeSleepers
<1>14. ASSUME NEW c \in CPU, BlockCurrentInput(c) PROVE ParksOnEmptyRing'
  BY <1>0, <1>1, <1>14, SlotFacts DEF BlockCurrentInput, ParksOnEmptyRing
<1>15. ASSUME NEW c \in CPU, BlockCurrentUntil(c) PROVE ParksOnEmptyRing'
  BY <1>0, <1>1, <1>2, <1>15, SlotFacts, Zenon DEF BlockCurrentUntil
<1>16. ASSUME NEW c \in CPU, Schedule(c) PROVE ParksOnEmptyRing'
  <2>1. /\ DOMAIN Published(c) = Slot
        /\ \A t \in Task : Published(c)[t] = "Blocked" => state[t] = "Blocked"
    BY <1>0, SlotFacts, Zenon DEF Published
  <2>2. state' = Published(c) \/ \E next : state' = Marked(c, next)
    BY <1>16, Zenon DEF Schedule, SwitchTo, ContinueIdle
  <2>3. \A next : \A t \in Task : Marked(c, next)[t] = "Blocked" => Published(c)[t] = "Blocked"
    BY <2>1, SlotFacts, Zenon DEF Marked
  <2>4. \A t \in Task : state'[t] = "Blocked" => state[t] = "Blocked"
    BY <2>1, <2>2, <2>3, Zenon
  <2> QED
    BY <1>0, <1>1, <1>2, <1>16, <2>4, SlotFacts, Zenon DEF Schedule
<1> QED
  BY NextCases, <1>3, <1>4, <1>5, <1>7, <1>8, <1>9, <1>10, <1>11, <1>12, <1>13, <1>14, <1>15, <1>16, Zenon

(* No task that is sheltered from the other processors stays parked in event_read *)
(* while a key waits, if no program asks for zero keys: with one processor the     *)
(* interrupt cannot come between the look at the ring and block_current_input.     *)
THEOREM WakeupsAreNotLost == 0 \notin EventMax => (Spec => []NoLostWakeup)
<1> DEFINE P == NCpu = 1 => ParksOnEmptyRing
<1> SUFFICES ASSUME 0 \notin EventMax PROVE Spec => []NoLostWakeup
  BY Zenon
<1>1. Init => P
  BY SlotFacts, Zenon DEF Init, ParksOnEmptyRing
<1>2. IInv /\ P /\ [Next]_vars => P'
  BY NextParksOnEmptyRing, Zenon
<1>3. IInv /\ P => NoLostWakeup
  BY Zenon DEF IInv, NoLostWakeup, Sheltered, ShelterInv, ParksOnEmptyRing
<1> QED
  BY <1>1, <1>2, <1>3, Invariance, PTL DEF Spec
=============================================================================
