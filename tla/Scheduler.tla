----------------------------- MODULE Scheduler ------------------------------
(***************************************************************************)
(* scheduler.rs and the trap paths that drive it: the timer and keyboard   *)
(* branches of irq_common_handler, the system calls that reschedule, and   *)
(* the part of kmain that brings the scheduler up.                         *)
(*                                                                         *)
(* Every critical section under RUNQ is one action: SpinLock shows that    *)
(* such sections exclude each other and cannot be interrupted.  What lies  *)
(* between two sections of one handler is a step boundary here, because    *)
(* the other processors run there.                                         *)
(***************************************************************************)
EXTENDS Integers

CONSTANTS
  NCpu,       \* smp::cpu_count(); processor 0 is the BSP
  MAX_TASKS,  \* length of TASKS
  Program,    \* Program[t]: the system calls made by the program in slot t
  SleepMs,    \* the non-zero arguments sleep is called with
  EventMax,   \* the max arguments event_read is called with
  TickLimit,  \* bound: the clock stops here
  KeyLimit    \* keys the keyboard ring holds (BUFFER_SIZE - 1)

ASSUME SchedulerAssumption ==
  /\ NCpu \in Nat \ {0}
  /\ MAX_TASKS \in Nat
  /\ SleepMs \subseteq Nat \ {0}
  /\ EventMax \subseteq Nat
  /\ TickLimit \in Nat
  /\ KeyLimit \in Nat

CPU == 0 .. NCpu - 1
BSP == 0

(***************************************************************************)
(* A slot is a *mut Task: the entries of TASKS, then the entries of IDLE.  *)
(* Only TASKS holds tasks of kind User that are ever scheduled.            *)
(***************************************************************************)
Task    == 0 .. MAX_TASKS - 1
Idle(c) == MAX_TASKS + c
Slot    == 0 .. MAX_TASKS + NCpu - 1
null    == -1

\* A flow of control that a frame resumes: that of a slot, or kmain's own.
kmain == -2
Flow  == Slot \cup {null, kmain}

TaskState == {"Unused", "Ready", "Running", "Blocked", "Dead"}

\* Progress of kmain: before init_global, after it, after init_cpu(0), after
\* start_aps, after try_start.
Boot == {"discover", "global", "cpu0", "released", "done"}

\* Where a processor is:
\*   off         not released yet
\*   run         executing a flow with interrupts on
\*   tick        in the timer handler, timer_irq done
\*   pressed     in the keyboard handler, keyboard::irq done
\*   park_input  in event_read, found nothing, block_current_input is next
\*   park_sleep  in sleep, deadline computed, block_current_until is next
\*   sched       schedule is next
\*   iret        the handler returned a frame, still on the interrupted stack
Place == {"off", "run", "tick", "pressed", "park_input", "park_sleep", "sched", "iret"}

VARIABLES
  boot,        \* how far kmain is; INITIALIZED is boot # "discover"
  state,       \* Task.state
  frame,       \* Task.frame: the flow that loading it resumes
  wake_tick,   \* Task.wake_tick
  wait_input,  \* the slots whose wait_input flag is set
  current,     \* PerCpu.current
  deferred,    \* PerCpu.deferred
  rsp0,        \* the slot whose kernel stack the next trap from ring 3 uses
  pc,          \* where each processor is
  on,          \* the flow whose kernel stack and registers the processor uses
  resume,      \* the frame a handler has returned; null once adopted
  deadline,    \* uptime_ms() + ms, computed by sleep before it parks; then 0
  uptime,      \* apic::UPTIME_MS
  keys         \* number of keys in the keyboard ring

tables == <<state, frame, wake_tick, wait_input, current, deferred, rsp0>>
vars == <<boot, tables, pc, on, resume, deadline, uptime, keys>>

TypeOK ==
  /\ boot \in Boot
  /\ state \in [Slot -> TaskState]
  /\ frame \in [Slot -> Flow]
  /\ wake_tick \in [Slot -> Nat]
  /\ wait_input \subseteq Slot
  /\ current \in [CPU -> Slot \cup {null}]
  /\ deferred \in [CPU -> Task \cup {null}]
  /\ rsp0 \in [CPU -> Slot]
  /\ pc \in [CPU -> Place]
  /\ on \in [CPU -> Flow]
  /\ resume \in [CPU -> Flow]
  /\ deadline \in [CPU -> Nat]
  /\ uptime \in Nat
  /\ keys \in 0 .. KeyLimit

\* The BSP runs kmain with interrupts on and its timer started; gdt::init_cpu
\* has pointed rsp0 at the stack that becomes the idle task's.
Init ==
  /\ boot = "discover"
  /\ state = [s \in Slot |-> "Unused"]
  /\ frame = [s \in Slot |-> null]
  /\ wake_tick = [s \in Slot |-> 0]
  /\ wait_input = {}
  /\ current = [c \in CPU |-> null]
  /\ deferred = [c \in CPU |-> null]
  /\ rsp0 = [c \in CPU |-> Idle(c)]
  /\ pc = [c \in CPU |-> IF c = BSP THEN "run" ELSE "off"]
  /\ on = [c \in CPU |-> IF c = BSP THEN kmain ELSE Idle(c)]
  /\ resume = [c \in CPU |-> null]
  /\ deadline = [c \in CPU |-> 0]
  /\ uptime = 0
  /\ keys = 0

-----------------------------------------------------------------------------
(* Helpers of scheduler.rs *)

\* The elements that a scan in index order meets first: at most one.
First(S) == {s \in S : \A r \in S : s <= r}

SpawnInto(t) ==
  /\ state' = [state EXCEPT ![t] = "Ready"]
  /\ frame' = [frame EXCEPT ![t] = t]
  /\ wake_tick' = [wake_tick EXCEPT ![t] = 0]
  /\ wait_input' = wait_input \ {t}

\* spawn_user under RUNQ: the first unused slot, or nothing when the table is full.
SpawnUser ==
  LET free == {t \in Task : state[t] = "Unused"} IN
  \/ /\ free = {}
     /\ UNCHANGED <<state, frame, wake_tick, wait_input>>
  \/ \E t \in First(free) : SpawnInto(t)

-----------------------------------------------------------------------------
(* kmain and ap_entry *)

InKmain == pc[BSP] = "run" /\ on[BSP] = kmain

InitGlobal ==
  /\ InKmain
  /\ boot = "discover"
  /\ boot' = "global"
  /\ state' = [s \in Slot |-> "Unused"]
  /\ frame' = [s \in Slot |-> IF s \in Task THEN null ELSE s]
  /\ wake_tick' = [s \in Slot |-> 0]
  /\ wait_input' = {}
  /\ UNCHANGED <<current, deferred, rsp0, pc, on, resume, deadline, uptime, keys>>

InitCpu(c) ==
  /\ state' = [state EXCEPT ![Idle(c)] = "Running"]
  /\ current' = [current EXCEPT ![c] = Idle(c)]
  /\ deferred' = [deferred EXCEPT ![c] = null]
  /\ rsp0' = [rsp0 EXCEPT ![c] = Idle(c)]
  /\ UNCHANGED <<frame, wake_tick, wait_input, on, resume, deadline, uptime, keys>>

InitBsp ==
  /\ InKmain
  /\ boot = "global"
  /\ boot' = "cpu0"
  /\ InitCpu(BSP)
  /\ UNCHANGED pc

StartAps ==
  /\ InKmain
  /\ boot = "cpu0"
  /\ boot' = "released"
  /\ UNCHANGED <<tables, pc, on, resume, deadline, uptime, keys>>

\* try_start spawns /init, or finds nothing to run.
TryStart ==
  /\ InKmain
  /\ boot = "released"
  /\ boot' = "done"
  /\ \/ SpawnUser
     \/ UNCHANGED <<state, frame, wake_tick, wait_input>>
  /\ UNCHANGED <<current, deferred, rsp0, pc, on, resume, deadline, uptime, keys>>

\* A released processor runs ap_entry with interrupts off up to irq_enable.
ApEntry(c) ==
  /\ pc[c] = "off"
  /\ boot \in {"released", "done"}
  /\ InitCpu(c)
  /\ pc' = [pc EXCEPT ![c] = "run"]
  /\ UNCHANGED boot

-----------------------------------------------------------------------------
(* irq_common_handler: the timer on every processor, the keyboard on the BSP *)

\* timer_irq: only the BSP advances the clock.
TimerIrq(c) ==
  /\ pc[c] = "run"
  /\ pc' = [pc EXCEPT ![c] = "tick"]
  /\ uptime' = IF c = BSP /\ uptime < TickLimit THEN uptime + 1 ELSE uptime
  /\ UNCHANGED <<boot, tables, on, resume, deadline, keys>>

\* Mutant: the deadline is compared with the next tick.
ExpiredEarly == {t \in Task : /\ state[t] = "Blocked"
                              /\ t \notin wait_input
                              /\ wake_tick[t] # 0
                              /\ wake_tick[t] <= uptime + 1}

\* wake_sleepers(uptime_ms()).
Expired == {t \in Task : /\ state[t] = "Blocked"
                         /\ t \notin wait_input
                         /\ wake_tick[t] # 0
                         /\ wake_tick[t] <= uptime}

WakeSleepers(c) ==
  /\ pc[c] = "tick"
  /\ state' = [s \in Slot |-> IF s \in Expired THEN "Ready" ELSE state[s]]
  /\ wake_tick' = [s \in Slot |-> IF s \in Expired THEN 0 ELSE wake_tick[s]]
  /\ pc' = [pc EXCEPT ![c] = "sched"]
  /\ UNCHANGED <<boot, frame, wait_input, current, deferred, rsp0, on, resume, deadline, uptime, keys>>

\* Mutant: the push does not test for a full ring.
KeyboardIrqUnchecked ==
  /\ pc[BSP] = "run"
  /\ pc' = [pc EXCEPT ![BSP] = "pressed"]
  /\ keys' \in {keys, keys + 1}
  /\ UNCHANGED <<boot, tables, on, resume, deadline, uptime>>

\* keyboard::irq buffers a key, unless the scancode is not a key or the ring is full.
KeyboardIrq ==
  /\ pc[BSP] = "run"
  /\ pc' = [pc EXCEPT ![BSP] = "pressed"]
  /\ keys' \in {keys} \cup ({keys + 1} \cap (0 .. KeyLimit))
  /\ UNCHANGED <<boot, tables, on, resume, deadline, uptime>>

\* Mutant: the scan stops at the first waiter.
WakeFirstInputWaiter ==
  /\ pc[BSP] = "pressed"
  /\ LET woken == First({t \in Task : state[t] = "Blocked" /\ t \in wait_input}) IN
       /\ state' = [s \in Slot |-> IF s \in woken THEN "Ready" ELSE state[s]]
       /\ wait_input' = wait_input \ woken
  /\ resume' = [resume EXCEPT ![BSP] = on[BSP]]
  /\ pc' = [pc EXCEPT ![BSP] = "iret"]
  /\ UNCHANGED <<boot, frame, wake_tick, current, deferred, rsp0, on, deadline, uptime, keys>>

\* wake_input_waiters; the handler then returns the frame it was given.
WakeInputWaiters ==
  /\ pc[BSP] = "pressed"
  /\ LET woken == {t \in Task : state[t] = "Blocked" /\ t \in wait_input} IN
       /\ state' = [s \in Slot |-> IF s \in woken THEN "Ready" ELSE state[s]]
       /\ wait_input' = wait_input \ woken
  /\ resume' = [resume EXCEPT ![BSP] = on[BSP]]
  /\ pc' = [pc EXCEPT ![BSP] = "iret"]
  /\ UNCHANGED <<boot, frame, wake_tick, current, deferred, rsp0, on, deadline, uptime, keys>>

-----------------------------------------------------------------------------
(* dispatch: the system calls that touch the scheduler.  Interrupts stay off *)
(* from int 0x80 to iretq.                                                   *)

Calls(c, call) ==
  /\ pc[c] = "run"
  /\ on[c] \in Task
  /\ call \in Program[on[c]]

\* SYS_YIELD, and SYS_SLEEP of zero milliseconds.
SysYield(c) ==
  /\ Calls(c, "yield")
  /\ pc' = [pc EXCEPT ![c] = "sched"]
  /\ UNCHANGED <<boot, tables, on, resume, deadline, uptime, keys>>

MarkCurrentDead(c) ==
  state' = IF current[c] = null THEN state ELSE [state EXCEPT ![current[c]] = "Dead"]

\* SYS_EXIT: mark_current_dead, then schedule.
SysExit(c) ==
  /\ Calls(c, "exit")
  /\ MarkCurrentDead(c)
  /\ pc' = [pc EXCEPT ![c] = "sched"]
  /\ UNCHANGED <<boot, frame, wake_tick, wait_input, current, deferred, rsp0,
                 on, resume, deadline, uptime, keys>>

\* SYS_SPAWN of a program that loads; the caller continues.
SysSpawn(c) ==
  /\ Calls(c, "spawn")
  /\ SpawnUser
  /\ UNCHANGED <<boot, current, deferred, rsp0, pc, on, resume, deadline, uptime, keys>>

\* SYS_EVENT_READ with the block flag: take up to max keys, or decide to park.
SysEventRead(c) ==
  /\ Calls(c, "event_read")
  /\ \E max \in EventMax :
       IF max = 0 \/ keys = 0
       THEN /\ pc' = [pc EXCEPT ![c] = "park_input"]
            /\ UNCHANGED keys
       ELSE /\ keys' = IF keys <= max THEN 0 ELSE keys - max
            /\ UNCHANGED pc
  /\ UNCHANGED <<boot, tables, on, resume, deadline, uptime>>

BlockCurrentInput(c) ==
  /\ pc[c] = "park_input"
  /\ IF current[c] # null
     THEN /\ state' = [state EXCEPT ![current[c]] = "Blocked"]
          /\ wake_tick' = [wake_tick EXCEPT ![current[c]] = 0]
          /\ wait_input' = wait_input \cup {current[c]}
     ELSE UNCHANGED <<state, wake_tick, wait_input>>
  /\ pc' = [pc EXCEPT ![c] = "sched"]
  /\ UNCHANGED <<boot, frame, current, deferred, rsp0, on, resume, deadline, uptime, keys>>

\* SYS_SLEEP reads the clock before it takes RUNQ.
SysSleep(c) ==
  /\ Calls(c, "sleep")
  /\ \E ms \in SleepMs :
       /\ uptime + ms <= TickLimit
       /\ deadline' = [deadline EXCEPT ![c] = uptime + ms]
  /\ pc' = [pc EXCEPT ![c] = "park_sleep"]
  /\ UNCHANGED <<boot, tables, on, resume, uptime, keys>>

\* Mutant: the deadline is not stored.
BlockCurrentForever(c) ==
  /\ pc[c] = "park_sleep"
  /\ IF current[c] # null
     THEN /\ state' = [state EXCEPT ![current[c]] = "Blocked"]
          /\ wait_input' = wait_input \ {current[c]}
     ELSE UNCHANGED <<state, wait_input>>
  /\ deadline' = [deadline EXCEPT ![c] = 0]
  /\ pc' = [pc EXCEPT ![c] = "sched"]
  /\ UNCHANGED <<boot, frame, wake_tick, current, deferred, rsp0, on, resume, uptime, keys>>

BlockCurrentUntil(c) ==
  /\ pc[c] = "park_sleep"
  /\ IF current[c] # null
     THEN /\ state' = [state EXCEPT ![current[c]] = "Blocked"]
          /\ wake_tick' = [wake_tick EXCEPT ![current[c]] = deadline[c]]
          /\ wait_input' = wait_input \ {current[c]}
     ELSE UNCHANGED <<state, wake_tick, wait_input>>
  /\ deadline' = [deadline EXCEPT ![c] = 0]
  /\ pc' = [pc EXCEPT ![c] = "sched"]
  /\ UNCHANGED <<boot, frame, current, deferred, rsp0, on, resume, uptime, keys>>

-----------------------------------------------------------------------------
(* schedule, in the order of the code: publish, save, pick, switch. *)

\* Mutant: the deferred task is dropped without being made Ready.
PublishedNever(c) == state

\* The task states once the task deferred by the last pass is published.
Published(c) ==
  IF deferred[c] = null THEN state ELSE [state EXCEPT ![deferred[c]] = "Ready"]

\* Mutant: the interrupted context is saved after current has moved on.
SavedLate(c) ==
  [s \in Slot |-> IF s \in First({t \in Task : Published(c)[t] = "Ready" /\ t # current[c]})
                  THEN on[c] ELSE frame[s]]

\* The frames once the interrupted context is saved in the current task.
Saved(c) ==
  IF current[c] = null THEN frame ELSE [frame EXCEPT ![current[c]] = on[c]]

\* pick(cur): the first ready task other than the current one.
Pick(c) == First({t \in Task : Published(c)[t] = "Ready" /\ t # current[c]})

\* Mutant: a current task is kept whatever its state.
KeepCurrentDead(c) == current[c] \in Task

KeepCurrent(c) == current[c] \in Task /\ Published(c)[current[c]] = "Running"

\* Nothing to pick and the current task is this processor's idle context:
\* return the frame that was passed in.
ContinueIdle(c) ==
  /\ Pick(c) = {}
  /\ current[c] \notin Task \cup {null}
  /\ state' = Published(c)
  /\ deferred' = [deferred EXCEPT ![c] = null]
  /\ frame' = Saved(c)
  /\ resume' = [resume EXCEPT ![c] = on[c]]
  /\ UNCHANGED <<current, rsp0>>

\* Mutant: the task switched away from is made Ready at once.
MarkedEarly(c, next) ==
  [s \in Slot |-> IF s = next THEN "Running"
                  ELSE IF s = current[c] /\ KeepCurrent(c) THEN "Ready" ELSE Published(c)[s]]

Marked(c, next) == [Published(c) EXCEPT ![next] = "Running"]

\* Mutant: the task switched away from is not remembered.
DeferralForgotten(c, next) == null

\* A task that is switched away from while Running is only deferred: it uses
\* this processor's stack until iretq.
Deferral(c, next) == IF next # current[c] /\ KeepCurrent(c) THEN current[c] ELSE null

\* Mutant: set_kernel_stack is not called.
KernelStackKept(c, next) == rsp0[c]

KernelStack(c, next) == IF next # current[c] THEN next ELSE rsp0[c]

\* Resume slot next.
SwitchTo(c, next) ==
  /\ state' = Marked(c, next)
  /\ frame' = Saved(c)
  /\ deferred' = [deferred EXCEPT ![c] = Deferral(c, next)]
  /\ current' = [current EXCEPT ![c] = next]
  /\ rsp0' = [rsp0 EXCEPT ![c] = KernelStack(c, next)]
  /\ resume' = [resume EXCEPT ![c] = Saved(c)[next]]

Schedule(c) ==
  /\ pc[c] = "sched"
  /\ boot # "discover"
  /\ \/ \E next \in Pick(c) : SwitchTo(c, next)
     \/ ContinueIdle(c)
     \/ /\ Pick(c) = {}
        /\ current[c] \in Task \cup {null}
        /\ SwitchTo(c, IF KeepCurrent(c) THEN current[c] ELSE Idle(c))
  /\ pc' = [pc EXCEPT ![c] = "iret"]
  /\ UNCHANGED <<boot, wake_tick, wait_input, on, deadline, uptime, keys>>

\* Before init_global the interrupted context is left alone.
ScheduleTooEarly(c) ==
  /\ pc[c] = "sched"
  /\ boot = "discover"
  /\ resume' = [resume EXCEPT ![c] = on[c]]
  /\ pc' = [pc EXCEPT ![c] = "iret"]
  /\ UNCHANGED <<boot, tables, on, deadline, uptime, keys>>

\* irq_common: adopt the returned frame, pop the registers, iretq.
Iret(c) ==
  /\ pc[c] = "iret"
  /\ on' = [on EXCEPT ![c] = resume[c]]
  /\ resume' = [resume EXCEPT ![c] = null]
  /\ pc' = [pc EXCEPT ![c] = "run"]
  /\ UNCHANGED <<boot, tables, deadline, uptime, keys>>

-----------------------------------------------------------------------------
KernelStep(c) ==
  \/ WakeSleepers(c)
  \/ BlockCurrentInput(c)
  \/ BlockCurrentUntil(c)
  \/ Schedule(c)
  \/ ScheduleTooEarly(c)
  \/ Iret(c)

SystemCall(c) ==
  \/ SysYield(c)
  \/ SysExit(c)
  \/ SysSpawn(c)
  \/ SysEventRead(c)
  \/ SysSleep(c)

Kmain == InitGlobal \/ InitBsp \/ StartAps \/ TryStart

Next ==
  \/ Kmain
  \/ KeyboardIrq
  \/ WakeInputWaiters
  \/ \E c \in CPU : ApEntry(c) \/ TimerIrq(c) \/ SystemCall(c) \/ KernelStep(c)

Spec == Init /\ [][Next]_vars

\* Handlers run to their end; a pending timer interrupt is latched by the LAPIC
\* and taken when the processor next enables interrupts; a processor executes
\* kmain between the interrupts it takes.  Programs, keys and the bootloader's
\* release of a processor owe nothing.
Fairness ==
  /\ \A c \in CPU : WF_vars(KernelStep(c)) /\ SF_vars(TimerIrq(c))
  /\ WF_vars(WakeInputWaiters)
  /\ SF_vars(Kmain)

FairSpec == Spec /\ Fairness

-----------------------------------------------------------------------------
NeverBlocks(t) == Program[t] \cap {"sleep", "event_read"} = {}

\* A task whose wake-up cannot race with its own parking: its program makes no
\* blocking call, or there is no other processor to wake it.
Sheltered(t) == NCpu = 1 \/ NeverBlocks(t)

Executing(t) == {c \in CPU : on[c] = t}

\* A sheltered task that is Ready is on no processor's stack: the reason why
\* schedule defers a task it switches away from (scheduler.rs 74-77, 324-325).
ReadyIsOffCpu ==
  \A t \in Task : Sheltered(t) /\ state[t] = "Ready" => Executing(t) = {}

\* A sheltered task executes on one processor at a time (scheduler.rs 4-5).
ExclusiveExecution ==
  \A t \in Task : Sheltered(t) => \A c, d \in Executing(t) : c = d

\* The same for every task: what scheduler.rs 4-5 says of all of them.
RunsOnOneCpu ==
  \A t \in Task : \A c, d \in Executing(t) : c = d

\* A task marked Running is reachable from the processor that owes it a turn:
\* no sequence of passes forgets a runnable task (schedule, 355-363).
NoTaskLost ==
  \A t \in Task : state[t] = "Running" => \E c \in CPU : t \in {current[c], deferred[c]}

\* A processor that runs a flow traps onto the kernel stack of that very flow's
\* task, and its current pointer names it (gdt::set_kernel_stack in schedule).
TrapsOnOwnStack ==
  \A c \in CPU : pc[c] = "run" /\ current[c] # null =>
    /\ rsp0[c] = current[c]
    /\ on[c] = current[c] \/ (on[c] = kmain /\ current[c] = Idle(BSP))

\* The frame saved in a user task resumes that task and no other flow.
FrameIsOwn ==
  \A t \in Task : frame[t] \in {t, null} /\ (state[t] # "Unused" => frame[t] = t)

\* exit is final: a dead task is never made runnable again (mark_current_dead, 231).
DeadStaysDead ==
  [][\A t \in Task : Sheltered(t) /\ state[t] = "Dead" => state'[t] = "Dead"]_vars

\* A sleeping task leaves Blocked only when its deadline has passed (wake_sleepers).
NoEarlyWake ==
  [][\A t \in Task :
       Sheltered(t) /\ state[t] = "Blocked" /\ t \notin wait_input /\ state'[t] # "Blocked"
         => wake_tick[t] <= uptime]_vars

\* A sheltered task is not parked for input while a key waits in the ring, except
\* between the push and the wake-up of one keyboard interrupt.  (A program that asks
\* for zero keys parks whatever the ring holds: EventMax is to leave zero out.)
NoLostWakeup ==
  \A t \in Task : Sheltered(t) /\ state[t] = "Blocked" /\ t \in wait_input /\ keys > 0
                   => pc[BSP] = "pressed"

\* The same for every task: syscall.rs 72, "Nothing buffered and the caller asked
\* to block: park the task".
ParkedMeansNothingBuffered ==
  \A t \in Task : state[t] = "Blocked" /\ t \in wait_input /\ keys > 0
                   => pc[BSP] = "pressed"

\* Every runnable task gets a processor: "round-robin" (scheduler.rs 1).
NoStarvation ==
  \A t \in Task : state[t] \in {"Ready", "Running"} ~> Executing(t) # {}

\* A task that sleeps wakes up.
SleepersWake ==
  \A t \in Task : state[t] = "Blocked" /\ t \notin wait_input ~> state[t] # "Blocked"

\* kmain gets past the start of the application processors and of /init.
BootCompletes == <>(boot = "done")

-----------------------------------------------------------------------------
(***************************************************************************)
(* The inductive invariant behind the safety properties.                   *)
(***************************************************************************)

\* The flows that processor c may execute while its current pointer is s.  The
\* idle slot of the BSP stands for kmain too; so does no current task at all.
Flows(c, s) ==
  (IF s = null THEN {} ELSE {s})
    \cup (IF c = BSP /\ s \in {null, Idle(BSP)} THEN {kmain} ELSE {})

\* Processor c's pointers, flows and stack agree.
CpuInv(c) ==
  /\ current[c] \in Task \cup {Idle(c), null}
  /\ current[c] # null => rsp0[c] = current[c] /\ boot # "discover"
  /\ current[c] = null => deferred[c] = null
  /\ \A t \in Task : t \in {current[c], deferred[c]} => frame[t] = t /\ state[t] # "Unused"
  /\ pc[c] = "off" => current[c] = null /\ on[c] = Idle(c)
  /\ pc[c] # "off" /\ c # BSP => boot \in {"released", "done"}
  /\ pc[c] \notin {"off", "iret"} => on[c] \in Flows(c, current[c])
  /\ pc[c] = "iret" => resume[c] \in Flows(c, current[c])
  /\ pc[c] \in {"park_input", "park_sleep"} => on[c] \in Task /\ ~NeverBlocks(on[c])
  /\ boot # "discover" => frame[Idle(c)] \in Flows(c, Idle(c))

\* Processor c refers to task t.
Touches(c, t) == t \in {on[c], current[c], deferred[c]}

\* A sheltered task that some processor refers to is Running, unless it has just
\* died or parked and the processor is on its way out of it.
ShelterInv(t) ==
  /\ NeverBlocks(t) => state[t] # "Blocked"
  /\ \A c \in CPU :
       /\ current[c] = t =>
            state[t] = "Running" \/ (pc[c] = "sched" /\ state[t] \in {"Dead", "Blocked"})
       /\ deferred[c] = t => state[t] = "Running" /\ current[c] # t
       /\ on[c] = t /\ current[c] # t =>
            pc[c] = "iret" /\ (deferred[c] = t \/ state[t] \in {"Dead", "Blocked"})
  /\ \A c, d \in CPU : Touches(c, t) /\ Touches(d, t) => c = d

IInv ==
  /\ TypeOK
  /\ NoTaskLost
  /\ FrameIsOwn
  /\ boot # "done" => \A t \in Task : state[t] = "Unused"
  /\ \A c \in CPU : CpuInv(c)
  /\ \A t \in Task : Sheltered(t) => ShelterInv(t)
=============================================================================
