------------------------- MODULE TickInterruptProofs -------------------------
(***************************************************************************)
(* Proofs for TickInterrupt: with a tick interrupt that BASEPRI masks, no  *)
(* tick is lost, however many there are and however deep the nesting.      *)
(***************************************************************************)
EXTENDS TickInterrupt, TLAPS

\* Where the thread is tells what is masked and how far the replay has come.
Masked == {"enter", "critical", "switch", "resumeEnter", "resume", "replay", "write"}

Masking ==
  /\ pc = "run" => BASEPRI = 0
  /\ pc \in {"run", "switch"} => uxCriticalNesting = 0
  /\ pc \in Masked => BASEPRI = MaxSyscallPriority
  /\ pc \in {"critical", "resume", "replay", "write"} => uxCriticalNesting > 0

Replaying == pc \in {"replay", "write"}

Counting ==
  /\ ~Replaying => xTickCount + uxPendedTicks = interrupts
  /\ Replaying => xTickCount + uxPendedCounts = interrupts /\ uxSchedulerSuspended = 0
  /\ pc = "write" => xConstTickCount = xTickCount + 1 /\ uxPendedCounts > 0

Suspending ==
  /\ pc \in {"resumeEnter", "resume"} => uxSchedulerSuspended > 0
  /\ pc \in Masked \ {"resumeEnter", "resume"} \/ pc = "run" =>
       (uxSchedulerSuspended = 0 /\ ~Replaying => uxPendedTicks = 0)

Inv == TypeOK /\ Masking /\ Counting /\ Suspending

\* The initial state satisfies the invariant.
LEMMA InitInv == Init => Inv
  BY TickInterruptAssumption DEF Init, Inv, TypeOK, Places, Masking, Masked, Counting, Replaying, Suspending

\* Every step of the thread and of the tick preserves it, if BASEPRI masks the tick.
LEMMA NextInv ==
  ASSUME TickPriority >= MaxSyscallPriority, Inv, [Next]_vars
  PROVE  Inv'
<1> USE TickInterruptAssumption
<1> USE DEF Inv, TypeOK, Places, Masking, Masked, Counting, Replaying, Suspending, Goto,
            masking, counts, copies, portDISABLE_INTERRUPTS, portENABLE_INTERRUPTS
<1>1. CASE vTaskSuspendAll
  BY <1>1 DEF vTaskSuspendAll
<1>2. CASE vPortEnterCritical
  <2>1. CASE EnterCritical_Mask("run", "enter")
    BY <2>1 DEF EnterCritical_Mask
  <2>2. CASE EnterCritical_Mask("critical", "enter")
    BY <2>2 DEF EnterCritical_Mask
  <2>3. CASE EnterCritical_Count("enter", "critical")
    BY <2>3 DEF EnterCritical_Count
  <2> QED BY <1>2, <2>1, <2>2, <2>3 DEF vPortEnterCritical
<1>3. CASE vPortExitCritical
  <2>1. uxCriticalNesting' \in Nat
    BY <1>3 DEF vPortExitCritical
  <2>2. CASE uxCriticalNesting' = 0
    BY <1>3, <2>1, <2>2 DEF vPortExitCritical
  <2>3. CASE uxCriticalNesting' # 0
    BY <1>3, <2>1, <2>3 DEF vPortExitCritical
  <2> QED BY <2>2, <2>3
<1>4. CASE xPortPendSVHandler
  <2>1. CASE pc = "run"
    BY <1>4, <2>1 DEF xPortPendSVHandler
  <2>2. CASE pc = "switch"
    <3>1. /\ pc' = "run" /\ BASEPRI' = 0
          /\ UNCHANGED <<uxCriticalNesting, uxSchedulerSuspended, counts, copies, interrupts>>
      BY <1>4, <2>2 DEF xPortPendSVHandler
    <3> QED BY <2>2, <3>1
  <2> QED BY <1>4, <2>1, <2>2 DEF xPortPendSVHandler
<1>5. CASE xTaskResumeAll
  <2>1. CASE uxSchedulerSuspended > 0 /\ EnterCritical_Mask("run", "resumeEnter")
    BY <2>1 DEF EnterCritical_Mask
  <2>2. CASE EnterCritical_Count("resumeEnter", "resume")
    BY <2>2 DEF EnterCritical_Count
  <2>3. CASE ResumeAll_Copy
    BY <2>3 DEF ResumeAll_Copy
  <2>4. CASE ReplayTick_Read
    BY <2>4 DEF ReplayTick_Read
  <2>5. CASE ReplayTick_Write
    BY <2>5 DEF ReplayTick_Write
  <2>6. CASE ResumeAll_Done
    BY <2>6 DEF ResumeAll_Done
  <2> QED BY <1>5, <2>1, <2>2, <2>3, <2>4, <2>5, <2>6 DEF xTaskResumeAll, ResumeAll_Enter
<1>6. CASE TickHandler
  BY <1>6 DEF TickHandler, Unmasked
<1>7. CASE UNCHANGED vars
  BY <1>7 DEF vars
<1> QED BY <1>1, <1>2, <1>3, <1>4, <1>5, <1>6, <1>7 DEF Next

\* The invariant holds in every reachable state.
LEMMA AlwaysInv ==
  ASSUME TickPriority >= MaxSyscallPriority
  PROVE  Spec => []Inv
<1>1. Init => Inv
  BY InitInv
<1>2. Inv /\ [Next]_vars => Inv'
  BY NextInv
<1> QED BY <1>1, <1>2, PTL DEF Spec

\* The counters of nesting, of pended ticks and of their replay never go below zero.
THEOREM TypeCorrect ==
  ASSUME TickPriority >= MaxSyscallPriority
  PROVE  Spec => []TypeOK
<1>1. Inv => TypeOK
  BY DEF Inv
<1> QED BY AlwaysInv, <1>1, PTL

\* No tick is lost or counted twice: every tick interrupt is in the tick count
\* or pended whenever a task runs.
THEOREM NoTickLost ==
  ASSUME TickPriority >= MaxSyscallPriority
  PROVE  Spec => []TicksConserved
<1>1. Inv => TicksConserved
  BY DEF Inv, Counting, Replaying, Suspending, TicksConserved
<1> QED BY AlwaysInv, <1>1, PTL

\* No exit from a critical section leaves the interrupts masked.
THEOREM ExitsUnmask ==
  ASSUME TickPriority >= MaxSyscallPriority
  PROVE  Spec => []UnmaskedOutside
<1>1. Inv => UnmaskedOutside
  BY DEF Inv, Masking, UnmaskedOutside
<1> QED BY AlwaysInv, <1>1, PTL

\* The tick handler never comes between two steps that it could disturb.
THEOREM CriticalSectionsHold ==
  ASSUME TickPriority >= MaxSyscallPriority
  PROVE  Spec => KernelNotInterrupted
<1>1. Inv /\ [Next]_vars => [interrupts' # interrupts => pc = "run"]_vars
  <2> SUFFICES ASSUME Inv, [Next]_vars, interrupts' # interrupts
               PROVE  pc = "run"
    OBVIOUS
  <2>1. TickHandler
    BY DEF Next, vTaskSuspendAll, vPortEnterCritical, EnterCritical_Mask, EnterCritical_Count,
           vPortExitCritical, xPortPendSVHandler, xTaskResumeAll, ResumeAll_Enter,
           ResumeAll_Copy, ReplayTick_Read, ReplayTick_Write, ResumeAll_Done, vars
  <2> QED BY <2>1, TickInterruptAssumption
          DEF TickHandler, Unmasked, Inv, Masking, Masked, TypeOK, Places
<1> QED BY AlwaysInv, <1>1, PTL DEF Spec, KernelNotInterrupted
=============================================================================
