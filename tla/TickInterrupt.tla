---------------------------- MODULE TickInterrupt ----------------------------
(***************************************************************************)
(* The tick interrupt against the critical sections of the kernel          *)
(* (port.c, xTaskResumeAll of tasks.c).  The thread is one: critical       *)
(* sections belong to whichever task runs, and PendSV cannot interrupt     *)
(* one.  It executes in the steps that the tick can come between; the      *)
(* handler itself runs to its end before the thread goes on.               *)
(*                                                                         *)
(* TickPriority is the priority of the interrupt.  The port gives SysTick  *)
(* the lowest one (port.c:328); the priority of TIMER1, which takes the    *)
(* place of SysTick here, is never set and stays at its reset value, 0.    *)
(***************************************************************************)
EXTENDS Naturals

CONSTANTS
  TickPriority,   \* of the tick interrupt; 0 is the most urgent
  MaxSyscallPriority,  \* configMAX_SYSCALL_INTERRUPT_PRIORITY: BASEPRI when masked
  MaxNesting,     \* bound: nested critical sections, nested vTaskSuspendAll
  MaxInterrupts   \* bound: tick interrupts

ASSUME TickInterruptAssumption ==
  /\ TickPriority \in Nat
  /\ MaxSyscallPriority \in Nat \ {0}
  /\ MaxNesting \in Nat /\ MaxInterrupts \in Nat

VARIABLES
  pc,                    \* next step of the thread
  BASEPRI,
  uxCriticalNesting,
  uxSchedulerSuspended,
  xTickCount,
  uxPendedTicks,
  uxPendedCounts,        \* xTaskResumeAll's copy of it
  xConstTickCount,       \* xTaskIncrementTick's copy of xTickCount, plus one
  interrupts             \* history: tick interrupts taken

masking == <<BASEPRI, uxCriticalNesting>>
counts == <<xTickCount, uxPendedTicks>>
copies == <<uxPendedCounts, xConstTickCount>>
vars == <<pc, masking, uxSchedulerSuspended, counts, copies, interrupts>>

Init ==
  /\ pc = "run"
  /\ BASEPRI = 0 /\ uxCriticalNesting = 0 /\ uxSchedulerSuspended = 0
  /\ xTickCount = 0 /\ uxPendedTicks = 0
  /\ uxPendedCounts = 0 /\ xConstTickCount = 0
  /\ interrupts = 0

Goto(from, to) == pc = from /\ pc' = to

portDISABLE_INTERRUPTS == BASEPRI' = MaxSyscallPriority
portENABLE_INTERRUPTS == BASEPRI' = 0

vTaskSuspendAll ==
  /\ Goto("run", "run")
  /\ uxSchedulerSuspended < MaxNesting
  /\ uxSchedulerSuspended' = uxSchedulerSuspended + 1
  /\ UNCHANGED <<masking, counts, copies, interrupts>>
-----------------------------------------------------------------------------
\* A critical section that does not mask.
EnterCritical_Mask_Forgotten(from, to) ==
  /\ Goto(from, to)
  /\ uxCriticalNesting < MaxNesting
  /\ UNCHANGED <<masking, uxSchedulerSuspended, counts, copies, interrupts>>

\* vPortEnterCritical masks first and counts then.
EnterCritical_Mask(from, to) ==
  /\ Goto(from, to)
  /\ uxCriticalNesting < MaxNesting
  /\ portDISABLE_INTERRUPTS
  /\ UNCHANGED <<uxCriticalNesting, uxSchedulerSuspended, counts, copies, interrupts>>

EnterCritical_Count(from, to) ==
  /\ Goto(from, to)
  /\ uxCriticalNesting' = uxCriticalNesting + 1
  /\ UNCHANGED <<BASEPRI, uxSchedulerSuspended, counts, copies, interrupts>>

\* A critical section of a task, or one nested in it.
vPortEnterCritical ==
  \/ EnterCritical_Mask("run", "enter") \/ EnterCritical_Mask("critical", "enter")
  \/ EnterCritical_Count("enter", "critical")

\* Every exit unmasks.
vPortExitCritical_AlwaysUnmasks ==
  /\ pc = "critical"
  /\ uxCriticalNesting' = uxCriticalNesting - 1
  /\ portENABLE_INTERRUPTS
  /\ pc' = IF uxCriticalNesting' = 0 THEN "run" ELSE "critical"
  /\ UNCHANGED <<uxSchedulerSuspended, counts, copies, interrupts>>

\* Only the outermost exit unmasks.
vPortExitCritical ==
  /\ pc = "critical"
  /\ uxCriticalNesting' = uxCriticalNesting - 1
  /\ IF uxCriticalNesting' = 0
     THEN portENABLE_INTERRUPTS /\ pc' = "run"
     ELSE UNCHANGED <<BASEPRI, pc>>
  /\ UNCHANGED <<uxSchedulerSuspended, counts, copies, interrupts>>

\* xPortPendSVHandler masks around vTaskSwitchContext without counting.
xPortPendSVHandler ==
  \/ /\ Goto("run", "switch") /\ portDISABLE_INTERRUPTS
     /\ UNCHANGED <<uxCriticalNesting, uxSchedulerSuspended, counts, copies, interrupts>>
  \/ /\ Goto("switch", "run") /\ portENABLE_INTERRUPTS
     /\ UNCHANGED <<uxCriticalNesting, uxSchedulerSuspended, counts, copies, interrupts>>

-----------------------------------------------------------------------------
\* xTaskResumeAll: a critical section in which the pended ticks are replayed.
ResumeAll_Enter ==
  \/ uxSchedulerSuspended > 0 /\ EnterCritical_Mask("run", "resumeEnter")
  \/ EnterCritical_Count("resumeEnter", "resume")

ResumeAll_Copy ==
  /\ pc = "resume"
  /\ uxSchedulerSuspended' = uxSchedulerSuspended - 1
  /\ IF uxSchedulerSuspended' = 0 /\ uxPendedTicks > 0
     THEN uxPendedCounts' = uxPendedTicks /\ pc' = "replay"
     ELSE UNCHANGED uxPendedCounts /\ pc' = "critical"
  /\ UNCHANGED <<masking, counts, xConstTickCount, interrupts>>

\* xTaskIncrementTick, called by the thread: xTickCount is read, then written.
ReplayTick_Read ==
  /\ Goto("replay", "write")
  /\ uxPendedCounts > 0
  /\ xConstTickCount' = xTickCount + 1
  /\ UNCHANGED <<masking, uxSchedulerSuspended, counts, uxPendedCounts, interrupts>>

ReplayTick_Write ==
  /\ Goto("write", "replay")
  /\ xTickCount' = xConstTickCount
  /\ uxPendedCounts' = uxPendedCounts - 1
  /\ UNCHANGED <<masking, uxSchedulerSuspended, uxPendedTicks, xConstTickCount, interrupts>>

ResumeAll_Done ==
  /\ Goto("replay", "critical")
  /\ uxPendedCounts = 0
  /\ uxPendedTicks' = 0
  /\ UNCHANGED <<masking, uxSchedulerSuspended, xTickCount, copies, interrupts>>

xTaskResumeAll ==
  \/ ResumeAll_Enter \/ ResumeAll_Copy
  \/ ReplayTick_Read \/ ReplayTick_Write \/ ResumeAll_Done
-----------------------------------------------------------------------------
\* The processor takes an interrupt that is more urgent than BASEPRI.
Unmasked == BASEPRI = 0 \/ TickPriority < BASEPRI

\* dynamicFrequencySysTickHandler: mask, count the tick, and unmask, without
\* regard to the mask it found.
TickHandler ==
  /\ Unmasked
  /\ interrupts < MaxInterrupts
  /\ interrupts' = interrupts + 1
  /\ IF uxSchedulerSuspended = 0
     THEN xTickCount' = xTickCount + 1 /\ UNCHANGED uxPendedTicks
     ELSE uxPendedTicks' = uxPendedTicks + 1 /\ UNCHANGED xTickCount
  /\ portENABLE_INTERRUPTS
  /\ UNCHANGED <<pc, uxCriticalNesting, uxSchedulerSuspended, copies>>

Next ==
  \/ vTaskSuspendAll \/ vPortEnterCritical \/ vPortExitCritical
  \/ xPortPendSVHandler \/ xTaskResumeAll \/ TickHandler

Spec == Init /\ [][Next]_vars
-----------------------------------------------------------------------------
Places ==
  {"run", "enter", "critical", "switch", "resumeEnter", "resume", "replay", "write"}

\* Every variable stays in its type; counters do not go below zero.
TypeOK ==
  /\ pc \in Places
  /\ BASEPRI \in {0, MaxSyscallPriority}
  /\ uxCriticalNesting \in Nat /\ uxSchedulerSuspended \in Nat
  /\ xTickCount \in Nat /\ uxPendedTicks \in Nat
  /\ uxPendedCounts \in Nat /\ xConstTickCount \in Nat
  /\ interrupts \in Nat

\* Whenever a task runs, every tick interrupt so far is in the tick count or
\* still pended: none is lost or counted twice in the replay of xTaskResumeAll.
\* tasks.c:2077-2080: the replay "ensures the tick count does not slip".
TicksConserved == pc = "run" => xTickCount + uxPendedTicks = interrupts

\* Outside of critical sections and of the context switch, interrupts are
\* enabled: no exit leaves the tick locked out.
UnmaskedOutside == pc = "run" => BASEPRI = 0 /\ uxCriticalNesting = 0

\* The handler changes the task lists and the tick count: it never comes between
\* two steps of a critical section or of a context switch.
KernelNotInterrupted == [][interrupts' # interrupts => pc = "run"]_vars
=============================================================================
