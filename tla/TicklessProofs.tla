---------------------------- MODULE TicklessProofs ----------------------------
(***************************************************************************)
(* Proofs for Tickless, for every length of the tick period, every longest *)
(* sleep and every set of frequencies.                                     *)
(*                                                                         *)
(* The argument accounts for the counts of TIMER1.  While the scheduler is *)
(* suspended, since grows with TC, and what the counter loses when it      *)
(* matches or is reset is in the match value or in a tick.                 *)
(***************************************************************************)
EXTENDS Tickless, TLAPS

\* The ticks held back, and the one that waits to be.
Ticks == uxPendedTicks + (IF "TIMER1" \in pending THEN 1 ELSE 0)

Before == {"stop", "disable", "mask", "confirm"}
Armed == {"wfi", "window", "stopAgain", "measure"}

\* The counts of the whole sleep.
Whole == Period * xExpectedIdleTime

\* While tasks run the counter is set for a tick, and nothing is left of a sleep.
RunningInv ==
  /\ TCR /\ NVIC /\ ~PRIMASK /\ MR0 \in {Period, Period + 1} /\ TC <= MR0
  /\ uxPendedTicks = 0 /\ ulCompleteTickPeriods = 0 /\ ~slack

\* Until the sleep is armed at most one tick comes, with the only count.
BeforeInv ==
  /\ MR0 \in {Period, Period + 1} /\ TC <= MR0
  /\ xExpectedIdleTime >= 2 /\ xExpectedIdleTime <= idleTime /\ ulCompleteTickPeriods = 0
  /\ TCR <=> pc = "stop"
  /\ NVIC <=> pc \in {"stop", "disable"}
  /\ PRIMASK <=> pc = "confirm"
  /\ pc \in {"mask", "confirm"} => "TIMER1" \notin pending /\ ulReloadValue = Whole
  /\ pc = "confirm" => ~ulTickFlag
  /\ \/ Ticks = 0 /\ TC = since
     \/ Ticks = 1 /\ TC = 0 /\ since > Period /\ ~slack

\* The counter has matched the value for the whole sleep.
Matched == ulTickFlag \/ "TIMER1" \in pending

\* From then on the counter and the match value make up the sleep; after the match
\* the sleep is over, and the counter has moved by at most one.
ArmedInv ==
  /\ xExpectedIdleTime >= 2 /\ xExpectedIdleTime <= idleTime
  /\ MR0 = ulReloadValue /\ MR0 >= 1
  /\ TCR <=> pc # "measure"
  /\ NVIC <=> pc # "measure"
  /\ PRIMASK <=> pc # "window"
  /\ pc = "wfi" => ~ulTickFlag
  /\ "TIMER1" \in pending => TC = 0 /\ ~ulTickFlag /\ (pc = "stopAgain" => ~slack)
  /\ ~Matched =>
       /\ TC <= MR0
       /\ \/ Ticks = 0 /\ MR0 + since - TC = Whole /\ TC <= since
          \/ Ticks = 1 /\ MR0 = Whole /\ since - TC > Period
  /\ Matched =>
       /\ TC <= 1
       /\ slack => TC = 0
       /\ \/ Ticks = 1 /\ since - TC = Whole + 1
          \/ Ticks = 2 /\ since - TC > Whole + Period

\* No tick comes between the measurement and the step.
StepInv ==
  /\ TCR /\ NVIC /\ PRIMASK
  /\ MR0 >= 1 /\ TC <= 1 /\ (slack => TC = 0)
  /\ Period * (ulCompleteTickPeriods + Ticks) <= since + Period
  /\ ulCompleteTickPeriods <= idleTime => Ticks <= idleTime - ulCompleteTickPeriods + 1

ResumeInv ==
  /\ TCR /\ NVIC /\ ~PRIMASK /\ MR0 \in {Period, Period + 1} /\ TC <= MR0
  /\ slack => TC = 0 \/ (ulCompleteTickPeriods = 0 /\ Ticks = 0)
  /\ Period * (ulCompleteTickPeriods + Ticks) <= since + Period
  /\ Ticks <= idleTime + 1

HaltedInv == PRIMASK /\ TC <= MR0

Inv ==
  /\ TypeOK /\ PrescalerFollowsClock
  /\ pc \in Running => RunningInv
  /\ pc \in Before => BeforeInv
  /\ pc \in Armed => ArmedInv
  /\ pc = "stepTick" => StepInv
  /\ pc = "resumeAll" => ResumeInv
  /\ pc = "halted" => HaltedInv
-----------------------------------------------------------------------------

\* The period is long enough to count.
LEMMA PeriodType == Period \in Nat /\ Period >= 2
BY TicklessAssumption DEF Period

\* What multiples of the period are.
LEMMA Products ==
  ASSUME NEW n \in Nat
  PROVE  /\ Period * n \in Nat /\ Period * (n + 1) = Period * n + Period
         /\ Period * (n + 2) = Period * n + 2 * Period
         /\ Period * (n + 3) = Period * n + 3 * Period
         /\ n >= 1 => Period * (n - 1) = Period * n - Period
BY TicklessAssumption DEF Period

\* What the division by the period gives.
LEMMA Division ==
  ASSUME NEW n \in Nat
  PROVE  /\ n % Period \in 0 .. Period - 1 /\ n \div Period \in Nat
         /\ Period * (n \div Period) <= n
         /\ n < Period => n \div Period = 0
BY TicklessAssumption DEF Period

\* A sleep lasts two periods at least.
LEMMA WholeSleep ==
  ASSUME TypeOK, xExpectedIdleTime >= 2
  PROVE  Whole \in Nat /\ Whole >= 2 * Period
BY TicklessAssumption DEF TypeOK, Whole, Period

\* The ticks to come are those held back, and one more at most.
LEMMA TicksType ==
  ASSUME TypeOK
  PROVE  Ticks \in Nat /\ uxPendedTicks <= Ticks /\ Ticks <= uxPendedTicks + 1
BY DEF TypeOK, Ticks

\* The periods that a part of a sleep is rounded to, and the tick before it, are
\* covered by its counts.
LEMMA PartCovered ==
  ASSUME NEW counts \in Nat, NEW elapsed \in Nat, NEW ticks \in {0, 1}, NEW q \in Nat,
         Period * q <= counts, NEW u \in {q, q + 1},
         ticks = 0 => counts <= elapsed,
         ticks = 1 => counts + Period < elapsed
  PROVE  Period * (u + ticks) <= elapsed + Period
<1>1. /\ Period \in Nat /\ Period * q \in Nat
      /\ Period * (q + 1) = Period * q + Period /\ Period * (q + 2) = Period * q + 2 * Period
  BY PeriodType, Products
<1>2. CASE ticks = 0
  <2>1. u + ticks = q \/ u + ticks = q + 1
    BY <1>2
  <2> QED BY <1>1, <1>2, <2>1
<1>3. CASE ticks = 1
  <2>1. u + ticks = q + 1 \/ u + ticks = q + 2
    BY <1>3
  <2> QED BY <1>1, <1>3, <2>1
<1> QED BY <1>2, <1>3

\* So are those of a whole sleep that is taken for a part.
LEMMA WholeCovered ==
  ASSUME NEW elapsed \in Nat, NEW u \in {0, 1}, NEW ticks \in {1, 2}, elapsed > 2 * Period,
         ticks = 2 => elapsed > 3 * Period
  PROVE  Period * (u + ticks) <= elapsed + Period
<1>1. Period \in Nat /\ Period * 1 = Period /\ Period * 2 = 2 * Period /\ Period * 3 = 3 * Period
  BY PeriodType
<1>2. CASE ticks = 1
  <2>1. u + ticks \in {1, 2}
    BY <1>2
  <2> QED BY <1>1, <2>1
<1>3. CASE ticks = 2
  <2>1. u + ticks \in {2, 3}
    BY <1>3
  <2> QED BY <1>1, <1>3, <2>1
<1> QED BY <1>2, <1>3

\* Nothing of a sleep is there when the kernel starts.
LEMMA InitInv ==
  ASSUME Init
  PROVE  Inv
<1>1. pc = "run"
  BY DEF Init
<1>2. TypeOK
  <2>1. MR0 \in Nat
    BY PeriodType DEF Init
  <2>2. pc \in Places /\ pending \subseteq Interrupts
    BY DEF Init, Interrupts, Running, Places
  <2> QED BY <2>1, <2>2 DEF Init, TypeOK
<1>3. RunningInv /\ PrescalerFollowsClock
  BY TicklessAssumption DEF Init, RunningInv, PrescalerFollowsClock, Period
<1> QED BY <1>1, <1>2, <1>3 DEF Inv, Running, Before, Armed

\* The steps that need no arithmetic, or only comparisons of counts.
LEMMA PlainStepInv ==
  ASSUME Inv,
         \/ \E n \in 0 .. MaxIdle : TasksRun(n)
         \/ frequencyLevelSelector \/ prvIdleTask
         \/ Sleep_StopTimer \/ Sleep_Mask \/ Sleep_Arm \/ Sleep_Wake \/ Sleep_MaskAgain
         \/ Sleep_StopTimerAgain \/ Sleep_MeasureWhole \/ StepTick_AssertFails
         \/ OtherRequest \/ OtherHandler
  PROVE  Inv'
<1> USE TicklessAssumption
<1> USE DEF Inv, TypeOK, PrescalerFollowsClock, RunningInv, BeforeInv, ArmedInv, StepInv, ResumeInv,
            HaltedInv, Ticks, Matched, Whole, Before, Armed, Running, Asleep, Places, Interrupts,
            Period, Executes, Interrupted, Presented, kernel, timer, locals, frequency
<1>1. ASSUME NEW n \in 0 .. MaxIdle, TasksRun(n) PROVE Inv'
  <2>1. n \in Nat
    OBVIOUS
  <2> QED BY <1>1, <2>1 DEF TasksRun
<1>2. CASE frequencyLevelSelector
  BY <1>2 DEF frequencyLevelSelector
<1>3. CASE prvIdleTask
  BY <1>3 DEF prvIdleTask, AtMost
<1>4. CASE Sleep_StopTimer
  BY <1>4 DEF Sleep_StopTimer
<1>5. CASE Sleep_Mask
  BY <1>5 DEF Sleep_Mask
<1>6. CASE Sleep_Arm
  BY <1>6 DEF Sleep_Arm, enableTIMER1
<1>7. CASE Sleep_Wake
  BY <1>7 DEF Sleep_Wake
<1>8. CASE Sleep_MaskAgain
  BY <1>8 DEF Sleep_MaskAgain
<1>9. CASE Sleep_StopTimerAgain
  BY <1>9 DEF Sleep_StopTimerAgain, disableTIMER1
<1>10. CASE Sleep_MeasureWhole
  BY <1>10 DEF Sleep_MeasureWhole, enableTIMER1
<1>11. CASE StepTick_AssertFails
  BY <1>11 DEF StepTick_AssertFails
<1>12. CASE OtherRequest
  BY <1>12 DEF OtherRequest
<1>13. CASE OtherHandler
  BY <1>13 DEF OtherHandler, SchedulerSuspended
<1> QED BY <1>1, <1>2, <1>3, <1>4, <1>5, <1>6, <1>7,
          <1>8, <1>9, <1>10, <1>11, <1>12, <1>13

\* The reload value is set to the whole sleep.
LEMMA DisableInterruptInv ==
  ASSUME Inv, Sleep_DisableInterrupt
  PROVE  Inv'
<1>1. /\ pc = "disable" /\ pc' = "mask" /\ "TIMER1" \notin pending
      /\ NVIC' = FALSE /\ ulReloadValue' = Whole
      /\ UNCHANGED <<kernel, TC, MR0, TCR, pending, PRIMASK, ulTickFlag, xExpectedIdleTime,
                     ulCompleteTickPeriods, frequency, since, slack>>
  BY DEF Inv, Before, BeforeInv, Sleep_DisableInterrupt, Executes, Interrupted, Presented, Whole
<1>2. BeforeInv /\ TypeOK /\ PrescalerFollowsClock
  BY <1>1 DEF Inv, Before
<1>3. Whole' = Whole /\ Ticks' = Ticks
  BY <1>1 DEF Whole, Ticks, kernel
<1>4. TypeOK' /\ PrescalerFollowsClock'
  BY <1>1, <1>2, WholeSleep DEF BeforeInv, TypeOK, PrescalerFollowsClock, Places, kernel, frequency
<1>5. BeforeInv'
  BY <1>1, <1>2, <1>3 DEF BeforeInv, kernel, frequency
<1> QED BY <1>1, <1>4, <1>5 DEF Inv, Running, Armed

\* An aborted sleep has had one tick at most.
LEMMA AbortInv ==
  ASSUME Inv, Sleep_Abort
  PROVE  Inv'
<1>1. /\ pc = "confirm" /\ pc' = "resumeAll" /\ TCR' = TRUE /\ NVIC' = TRUE /\ PRIMASK' = FALSE
      /\ UNCHANGED <<kernel, TC, MR0, pending, ulTickFlag, locals, frequency, since, slack>>
  BY DEF Sleep_Abort, Executes, enableTIMER1
<1>2. BeforeInv /\ TypeOK /\ PrescalerFollowsClock
  BY <1>1 DEF Inv, Before
<1>3. Ticks' = Ticks /\ Ticks \in {0, 1} /\ since \in Nat
  BY <1>1, <1>2 DEF Ticks, kernel, BeforeInv, TypeOK
<1>4. TypeOK' /\ PrescalerFollowsClock'
  BY <1>1, <1>2 DEF TypeOK, PrescalerFollowsClock, Places, kernel, locals, frequency
<1>5. ulCompleteTickPeriods' = 0
  BY <1>1, <1>2 DEF BeforeInv, locals
<1>6. Period * (ulCompleteTickPeriods' + Ticks') <= since' + Period
  <2>1. Period * (0 + 0) = 0 /\ Period * (0 + 1) = Period
    BY PeriodType
  <2>2. Period * (0 + Ticks) <= since + Period
    BY <1>3, <2>1, PeriodType
  <2> QED BY <1>1, <1>3, <1>5, <2>2
<1>7. ResumeInv'
  BY <1>1, <1>2, <1>3, <1>5, <1>6 DEF BeforeInv, ResumeInv, TypeOK, kernel
<1> QED BY <1>1, <1>4, <1>7 DEF Inv, Running, Before, Armed

\* A sleep that another interrupt ended is measured.
LEMMA MeasurePartInv ==
  ASSUME Inv, Sleep_MeasurePart
  PROVE  Inv'
<1>1. /\ pc = "measure" /\ pc' = "stepTick" /\ ~ulTickFlag /\ TC' = 0 /\ TCR' = TRUE /\ NVIC' = TRUE
      /\ UNCHANGED <<kernel, pending, PRIMASK, ulTickFlag, xExpectedIdleTime, ulReloadValue,
                     frequency, since, slack>>
  BY DEF Sleep_MeasurePart, Executes, enableTIMER1
<1>2. ArmedInv /\ TypeOK /\ PrescalerFollowsClock
  BY <1>1 DEF Inv, Armed
<1>3. PICK q \in Nat : q = TC \div Period
  BY <1>2, Division DEF TypeOK
<1>4. /\ Period * q <= TC
      /\ TC = 0 => q = 0
  BY <1>2, <1>3, Division, PeriodType DEF TypeOK
<1>5. /\ MR0' \in Nat /\ MR0' >= 1
      /\ ulCompleteTickPeriods' \in {q, q + 1}
  BY <1>2, <1>3, Division, PeriodType DEF Sleep_MeasurePart, TypeOK
<1>6. TypeOK' /\ PrescalerFollowsClock'
  BY <1>1, <1>2, <1>5 DEF TypeOK, PrescalerFollowsClock, Places, kernel, frequency
<1>7. Ticks' = Ticks /\ Ticks \in Nat
  BY <1>1, <1>2, TicksType DEF Ticks, kernel
<1>8. PICK u \in {q, q + 1} : u = ulCompleteTickPeriods'
  BY <1>5
<1>9. since \in Nat /\ TC \in Nat /\ Whole \in Nat /\ Whole >= 2 * Period /\ idleTime \in Nat
      /\ idleTime >= 2 /\ Period \in Nat
  BY <1>2, WholeSleep, PeriodType DEF ArmedInv, TypeOK
<1>10. /\ Period * (u + Ticks) <= since + Period
       /\ u <= idleTime => Ticks <= idleTime - u + 1
  <2>1. CASE Matched
    <3>1. TC = 0 /\ q = 0
      BY <1>1, <1>2, <1>4, <2>1 DEF Matched, ArmedInv
    <3>2. u \in {0, 1}
      BY <3>1
    <3>3. /\ Ticks \in {1, 2} /\ since > 2 * Period
          /\ Ticks = 2 => since > 3 * Period
      BY <1>2, <1>9, <2>1, <3>1 DEF ArmedInv
    <3>4. Period * (u + Ticks) <= since + Period
      BY <1>9, <3>2, <3>3, WholeCovered
    <3> QED BY <1>9, <3>2, <3>3, <3>4
  <2>2. CASE ~Matched
    <3>1. /\ Ticks \in {0, 1}
          /\ Ticks = 0 => TC <= since
          /\ Ticks = 1 => TC + Period < since
      BY <1>2, <1>9, <2>2 DEF ArmedInv, TypeOK
    <3>2. Period * (u + Ticks) <= since + Period
      BY <1>4, <1>9, <3>1, PartCovered
    <3> QED BY <1>9, <3>1, <3>2
  <2> QED BY <2>1, <2>2
<1>11. StepInv'
  BY <1>1, <1>2, <1>5, <1>7, <1>8, <1>10 DEF ArmedInv, StepInv, kernel
<1> QED BY <1>1, <1>6, <1>11 DEF Inv, Running, Before, Armed

\* The kernel's time is moved.
LEMMA StepTickInv ==
  ASSUME Inv, vTaskStepTick
  PROVE  Inv'
<1>1. /\ pc = "stepTick" /\ pc' = "resumeAll" /\ MR0' = Period /\ PRIMASK' = FALSE
      /\ ulCompleteTickPeriods <= idleTime /\ idleTime' = idleTime - ulCompleteTickPeriods
      /\ UNCHANGED <<uxPendedTicks, abortSleep, TC, TCR, NVIC, pending, ulTickFlag, locals,
                     frequency, since, slack>>
  BY DEF vTaskStepTick, Executes
<1>2. StepInv /\ TypeOK /\ PrescalerFollowsClock
  BY <1>1 DEF Inv
<1>3. Ticks' = Ticks
  BY <1>1 DEF Ticks
<1>4. TypeOK' /\ PrescalerFollowsClock'
  <2>1. idleTime' \in Nat /\ MR0' \in Nat
    BY <1>1, <1>2, PeriodType DEF TypeOK
  <2>2. TypeOK'
    BY <1>1, <1>2, <2>1 DEF TypeOK, Places, locals, frequency
  <2>3. PrescalerFollowsClock'
    BY <1>1, <1>2 DEF PrescalerFollowsClock, frequency
  <2> QED BY <2>2, <2>3
<1>5. /\ Period * (ulCompleteTickPeriods' + Ticks') <= since' + Period
      /\ Ticks' <= idleTime' + 1
  <2>1. /\ ulCompleteTickPeriods' = ulCompleteTickPeriods /\ since' = since
        /\ Period * (ulCompleteTickPeriods + Ticks) <= since + Period
        /\ Ticks <= idleTime - ulCompleteTickPeriods + 1
    BY <1>1, <1>2 DEF StepInv, locals
  <2> QED BY <1>1, <1>3, <2>1
<1>6. ResumeInv'
  BY <1>1, <1>2, <1>5, PeriodType DEF StepInv, ResumeInv, TypeOK
<1> QED BY <1>1, <1>4, <1>6 DEF Inv, Running, Before, Armed

\* The ticks held back are dealt with.
LEMMA ResumeAllInv ==
  ASSUME Inv, xTaskResumeAll
  PROVE  Inv'
<1>1. /\ pc = "resumeAll" /\ pc' = "run"
      /\ uxPendedTicks' = 0 /\ abortSleep' = FALSE /\ since' = 0 /\ slack' = FALSE
      /\ xExpectedIdleTime' = 0 /\ ulReloadValue' = 0 /\ ulCompleteTickPeriods' = 0
      /\ UNCHANGED <<timer, pending, PRIMASK, ulTickFlag, frequency>>
  BY DEF xTaskResumeAll, Executes
<1>2. ResumeInv /\ TypeOK /\ PrescalerFollowsClock
  BY <1>1 DEF Inv
<1>3. idleTime' \in Nat
  BY <1>2 DEF xTaskResumeAll, OrZero, TypeOK
<1>4. TypeOK' /\ PrescalerFollowsClock'
  <2>1. TypeOK'
    BY <1>1, <1>2, <1>3 DEF TypeOK, Places, Running, timer, frequency
  <2>2. PrescalerFollowsClock'
    BY <1>1, <1>2 DEF PrescalerFollowsClock, frequency
  <2> QED BY <2>1, <2>2
<1>5. RunningInv'
  BY <1>1, <1>2 DEF ResumeInv, RunningInv, timer
<1> QED BY <1>1, <1>4, <1>5 DEF Inv, Before, Armed

\* The handler moves a tick from the NVIC to the kernel.
LEMMA HandlerInv ==
  ASSUME Inv, TIMER1_IRQHandler
  PROVE  Inv'
<1>1. /\ ~PRIMASK /\ "TIMER1" \in pending /\ NVIC /\ pending' = pending \ {"TIMER1"}
      /\ ulTickFlag' = TRUE /\ frequencyChanged' = FALSE
      /\ PR' = IF frequencyChanged THEN clock ELSE PR
      /\ UNCHANGED <<pc, abortSleep, timer, PRIMASK, locals, clock, since, slack>>
  BY DEF TIMER1_IRQHandler, Presented
<1>2. TypeOK /\ PrescalerFollowsClock
  BY DEF Inv
<1>3. /\ pc \in Running => idleTime' \in Nat /\ uxPendedTicks' = uxPendedTicks
      /\ pc \notin Running => /\ idleTime' = idleTime /\ uxPendedTicks' = uxPendedTicks + 1
                              /\ Ticks' = Ticks
  BY <1>1, <1>2 DEF TIMER1_IRQHandler, SchedulerSuspended, OrZero, TypeOK, Ticks
<1>4. TypeOK' /\ PrescalerFollowsClock'
  <2>1. PR' \in Levels /\ pending' \subseteq Interrupts /\ idleTime' \in Nat /\ uxPendedTicks' \in Nat
    BY <1>1, <1>2, <1>3 DEF TypeOK, Interrupts
  <2>2. TypeOK'
    BY <1>1, <1>2, <2>1 DEF TypeOK, timer, locals
  <2>3. PrescalerFollowsClock'
    BY <1>1, <1>2 DEF PrescalerFollowsClock
  <2> QED BY <2>2, <2>3
<1>5. CASE pc \in Running
  BY <1>1, <1>3, <1>4, <1>5 DEF Inv, Running, Before, Armed, RunningInv, timer, locals
<1>6. CASE pc \in Before
  <2>1. BeforeInv'
    BY <1>1, <1>3, <1>6 DEF Inv, Running, Before, BeforeInv, Whole, timer, locals
  <2> QED BY <1>1, <1>4, <1>6, <2>1 DEF Inv, Running, Before, Armed
<1>7. CASE pc \in Armed
  <2>1. ArmedInv'
    BY <1>1, <1>3, <1>7 DEF Inv, Running, Armed, ArmedInv, Matched, Whole, timer, locals
  <2> QED BY <1>1, <1>4, <1>7, <2>1 DEF Inv, Running, Before, Armed
<1>8. CASE pc = "resumeAll"
  <2>1. ResumeInv'
    BY <1>1, <1>3, <1>8 DEF Inv, Running, ResumeInv, timer, locals
  <2> QED BY <1>1, <1>4, <1>8, <2>1 DEF Inv, Running, Before, Armed
<1>9. pc \notin {"stepTick", "halted"}
  BY <1>1 DEF Inv, StepInv, HaltedInv
<1> QED BY <1>2, <1>5, <1>6, <1>7, <1>8, <1>9 DEF TypeOK, Places, Running, Asleep, Before, Armed

\* The counter counts, or matches.
LEMMA CountInv ==
  ASSUME Inv, TIMER1_Count
  PROVE  Inv'
<1>1. /\ TCR /\ MayCount /\ ~Interrupted
      /\ \/ TC = MR0 /\ TC' = 0 /\ pending' = pending \cup {"TIMER1"}
         \/ TC # MR0 /\ TC' = TC + 1 /\ pending' = pending
      /\ UNCHANGED <<pc, kernel, MR0, TCR, NVIC, PRIMASK, ulTickFlag, locals, frequency>>
  BY DEF TIMER1_Count, MayCount, Interrupted
<1>2. TypeOK /\ PrescalerFollowsClock
  BY DEF Inv
<1>3. /\ pc \in Running => since' = since
      /\ pc \notin Running => since' = since + 1
      /\ slack' \in BOOLEAN /\ (slack' => slack) /\ (pc \notin Asleep => ~slack')
  BY DEF TIMER1_Count, SchedulerSuspended
<1>4. TypeOK' /\ PrescalerFollowsClock'
  <2>1. TC' \in Nat /\ since' \in Nat
    BY <1>1, <1>2, <1>3 DEF TypeOK
  <2>2. pending' \subseteq Interrupts
    BY <1>1, <1>2 DEF TypeOK, Interrupts
  <2>3. TypeOK'
    BY <1>1, <1>2, <1>3, <2>1, <2>2 DEF TypeOK, kernel, locals, frequency
  <2>4. PrescalerFollowsClock'
    BY <1>1, <1>2 DEF PrescalerFollowsClock, frequency
  <2> QED BY <2>3, <2>4
<1>5. CASE pc \in Running
  BY <1>1, <1>2, <1>3, <1>4, <1>5
  DEF Inv, Running, Asleep, Before, Armed, RunningInv, TypeOK, kernel, locals
<1>6. CASE pc \in Before
  <2>1. BeforeInv /\ pc = "stop" /\ slack /\ Ticks = 0 /\ TC = since
    BY <1>1, <1>2, <1>6 DEF Inv, Before, BeforeInv, MayCount, Running, Asleep, TypeOK
  <2>2. "TIMER1" \notin pending /\ uxPendedTicks = 0
    BY <1>2, <2>1 DEF Ticks, TypeOK
  <2>3. \/ Ticks' = 0 /\ TC' = since'
        \/ Ticks' = 1 /\ TC' = 0 /\ since' > Period /\ ~slack'
    BY <1>1, <1>2, <1>3, <2>1, <2>2, PeriodType
    DEF Ticks, BeforeInv, TypeOK, Running, Asleep, kernel
  <2>4. BeforeInv'
    BY <1>1, <1>2, <2>1, <2>3, PeriodType DEF BeforeInv, TypeOK, kernel, locals
  <2> QED BY <1>1, <1>4, <2>1, <2>4 DEF Inv, Running, Before, Armed
<1>7. CASE pc \in Armed
  <2>1. ArmedInv /\ pc # "measure" /\ NVIC /\ (PRIMASK <=> pc # "window")
    BY <1>1, <1>7 DEF Inv, Armed, ArmedInv
  <2>2. "TIMER1" \notin pending
    <3>1. CASE pc = "wfi"
      BY <1>1, <2>1, <3>1 DEF MayCount, Running, Asleep, Presented
    <3>2. CASE pc = "window"
      BY <1>1, <2>1, <3>2 DEF Interrupted, Presented
    <3>3. CASE pc = "stopAgain"
      BY <1>1, <2>1, <3>3 DEF MayCount, Running, Asleep, ArmedInv
    <3> QED BY <1>7, <2>1, <3>1, <3>2, <3>3 DEF Armed
  <2>3. Ticks = uxPendedTicks /\ Whole' = Whole /\ Whole \in Nat
    BY <1>1, <1>2, <2>1, <2>2, WholeSleep DEF Ticks, Whole, ArmedInv, locals, TypeOK
  <2>4. since' = since + 1 /\ (pc # "wfi" => slack /\ ~slack')
    BY <1>1, <1>3, <1>7 DEF MayCount, Running, Asleep, Armed
  <2>5. CASE TC = MR0 /\ ~ulTickFlag
    <3>1. /\ TC' = 0 /\ pending' = pending \cup {"TIMER1"} /\ ~ulTickFlag'
          /\ Ticks' = Ticks + 1
      BY <1>1, <2>3, <2>5 DEF Ticks, kernel
    <3>2. Matched' /\ ~Matched
      BY <2>2, <2>5, <3>1 DEF Matched
    <3>3. \/ Ticks' = 1 /\ since' - TC' = Whole' + 1
          \/ Ticks' = 2 /\ since' - TC' > Whole' + Period
      BY <1>2, <2>1, <2>3, <2>4, <2>5, <3>1, <3>2, PeriodType DEF ArmedInv, TypeOK
    <3> HIDE DEF Ticks, Whole, Matched
    <3>4. ArmedInv'
      BY <1>1, <1>3, <2>1, <2>4, <3>1, <3>2, <3>3 DEF ArmedInv, kernel, locals
    <3> QED BY <1>1, <1>4, <1>7, <3>4 DEF Inv, Running, Before, Armed
  <2>6. CASE TC # MR0 /\ ~ulTickFlag
    <3>1. TC' = TC + 1 /\ pending' = pending /\ Ticks' = Ticks
      BY <1>1, <2>6 DEF Ticks, kernel
    <3>2. ~Matched' /\ ~Matched
      BY <1>1, <2>2, <2>6, <3>1 DEF Matched
    <3>3. ArmedInv'
      BY <1>1, <1>2, <1>3, <2>1, <2>2, <2>3, <2>4, <2>6, <3>1, <3>2 DEF ArmedInv, TypeOK, kernel, locals
    <3> QED BY <1>1, <1>4, <1>7, <3>3 DEF Inv, Running, Before, Armed
  <2>7. CASE ulTickFlag
    <3>1. pc # "wfi" /\ Matched /\ slack /\ TC = 0 /\ TC # MR0 /\ MR0 >= 1
      BY <2>1, <2>4, <2>7 DEF ArmedInv, Matched
    <3>2. TC' = 1 /\ pending' = pending /\ Ticks' = Ticks /\ Matched' /\ ~slack'
      BY <1>1, <2>4, <2>7, <3>1 DEF Ticks, Matched, kernel
    <3>3. ArmedInv'
      BY <1>1, <1>2, <2>1, <2>2, <2>3, <2>4, <3>1, <3>2 DEF ArmedInv, TypeOK, kernel, locals
    <3> QED BY <1>1, <1>4, <1>7, <3>3 DEF Inv, Running, Before, Armed
  <2> QED BY <1>2, <2>5, <2>6, <2>7
<1>8. CASE pc = "stepTick"
  <2>1. StepInv /\ slack /\ TC = 0 /\ TC # MR0 /\ MR0 >= 1
    BY <1>1, <1>2, <1>8 DEF Inv, StepInv, MayCount, Running, Asleep, TypeOK
  <2>2. TC' = 1 /\ since' = since + 1 /\ Ticks' = Ticks /\ ~slack'
    BY <1>1, <1>3, <1>8, <2>1 DEF Running, Asleep, Ticks, kernel
  <2>3. Period * (ulCompleteTickPeriods' + Ticks') <= since' + Period
    <3>1. PICK n : n = Period * (ulCompleteTickPeriods + Ticks)
      OBVIOUS
    <3>2. n \in Nat
      <4>1. ulCompleteTickPeriods + Ticks \in Nat
        BY <1>2, TicksType DEF TypeOK
      <4> QED BY <3>1, <4>1, Products
    <3> QED BY <1>1, <1>2, <2>1, <2>2, <3>1, <3>2, PeriodType DEF StepInv, TypeOK, locals
  <2>4. StepInv'
    BY <1>1, <2>1, <2>2, <2>3 DEF StepInv, kernel, locals
  <2> QED BY <1>1, <1>4, <1>8, <2>4 DEF Inv, Running, Before, Armed
<1>9. CASE pc = "resumeAll"
  <2>1. ResumeInv /\ slack /\ since' = since + 1 /\ ~slack'
    BY <1>1, <1>3, <1>9 DEF Inv, MayCount, Running, Asleep
  <2>2. "TIMER1" \notin pending
    BY <1>1, <2>1 DEF ResumeInv, Interrupted, Presented
  <2>3. PICK u \in Nat : u = ulCompleteTickPeriods
    BY <1>2 DEF TypeOK
  <2>4. Ticks \in Nat /\ since \in Nat /\ idleTime \in Nat /\ Period * (u + Ticks) \in Nat
    <3>1. u + Ticks \in Nat
      BY <1>2, TicksType
    <3> QED BY <1>2, <3>1, TicksType, Products DEF TypeOK
  <2>5. /\ Period * (u + Ticks') <= since + 1 + Period /\ Ticks' <= idleTime + 1
        /\ TC' <= MR0
    <3>1. CASE TC = 0
      <4>1. TC' = 1 /\ Ticks' = Ticks
        BY <1>1, <2>1, <3>1, PeriodType DEF ResumeInv, Ticks, kernel
      <4> QED BY <2>1, <2>3, <2>4, <4>1, PeriodType DEF ResumeInv
    <3>2. CASE u = 0 /\ Ticks = 0
      <4>1. \/ u + Ticks' = 0 + 0 /\ Ticks' = 0
            \/ u + Ticks' = 0 + 1 /\ Ticks' = 1
        BY <1>1, <1>2, <2>2, <3>2 DEF Ticks, TypeOK, kernel
      <4>2. Period * (0 + 0) = 0 /\ Period * (0 + 1) = Period
        BY PeriodType
      <4>3. TC' <= MR0
        BY <1>1, <1>2, <2>1 DEF ResumeInv, TypeOK
      <4> QED BY <2>4, <3>2, <4>1, <4>2, <4>3, PeriodType
    <3> QED BY <2>1, <2>3, <3>1, <3>2 DEF ResumeInv
  <2>6. ResumeInv'
    BY <1>1, <2>1, <2>3, <2>5 DEF ResumeInv, kernel, locals
  <2> QED BY <1>1, <1>4, <1>9, <2>6 DEF Inv, Running, Before, Armed
<1>10. pc # "halted"
  BY <1>1 DEF MayCount, Running, Asleep
<1> QED BY <1>2, <1>5, <1>6, <1>7, <1>8, <1>9, <1>10
        DEF TypeOK, Places, Running, Asleep, Before, Armed

\* Every step preserves the invariant.
LEMMA NextInv ==
  ASSUME Inv, [Next]_vars
  PROVE  Inv'
<1>1. CASE UNCHANGED vars
  BY <1>1
  DEF vars, kernel, timer, locals, frequency, Inv, TypeOK, PrescalerFollowsClock, RunningInv,
      BeforeInv, ArmedInv, StepInv, ResumeInv, HaltedInv, Ticks, Matched, Whole
<1>2. CASE Halted
  BY <1>1, <1>2 DEF Halted
<1>3. CASE SleepStep
  BY <1>3, PlainStepInv, DisableInterruptInv, AbortInv, MeasurePartInv, StepTickInv, ResumeAllInv
  DEF SleepStep
<1> QED BY <1>1, <1>2, <1>3, PlainStepInv, HandlerInv, CountInv DEF Next

\* The invariant holds in every reachable state.
LEMMA AlwaysInv == Spec => []Inv
<1>1. Init => Inv
  BY InitInv
<1>2. Inv /\ [Next]_vars => Inv'
  BY NextInv
<1> QED BY <1>1, <1>2, PTL DEF Spec
-----------------------------------------------------------------------------
\* No count, match value or step of the sleep's arithmetic becomes negative.
THEOREM TypeCorrect == Spec => []TypeOK
<1>1. Inv => TypeOK
  BY DEF Inv
<1> QED BY AlwaysInv, <1>1, PTL

\* The counter never starts above its match value: no tick is 2^32 counts late.
THEOREM CounterMatches == Spec => []CounterBelowMatch
<1>1. Inv => CounterBelowMatch
  <2> SUFFICES ASSUME Inv, TCR PROVE TC <= MR0
    BY DEF CounterBelowMatch
  <2> QED BY DEF Inv, TypeOK, Places, Running, Asleep, Before, Armed, RunningInv, BeforeInv,
                 ArmedInv, StepInv, ResumeInv, HaltedInv
<1> QED BY AlwaysInv, <1>1, PTL

\* However a sleep ends, the kernel's time is ahead of the counter by a tick at most.
THEOREM NeverAhead == Spec => []NeverAheadByMoreThanATick
<1>1. Inv => NeverAheadByMoreThanATick
  <2> SUFFICES ASSUME Inv, pc = "resumeAll"
               PROVE  Period * (ulCompleteTickPeriods + uxPendedTicks) <= since + Period
    BY DEF NeverAheadByMoreThanATick, Advance
  <2>1. PICK n \in Nat : n = ulCompleteTickPeriods + uxPendedTicks
    BY DEF Inv, TypeOK
  <2>2. ulCompleteTickPeriods + Ticks = n \/ ulCompleteTickPeriods + Ticks = n + 1
    BY <2>1 DEF Inv, TypeOK, Ticks
  <2>3. Period * (ulCompleteTickPeriods + Ticks) <= since + Period /\ since \in Nat
    BY DEF Inv, TypeOK, ResumeInv
  <2>4. Period * n <= Period * (ulCompleteTickPeriods + Ticks)
    BY <2>2, Products, PeriodType
  <2>5. Period * n \in Nat /\ Period * (ulCompleteTickPeriods + Ticks) \in Nat /\ Period \in Nat
    BY <2>1, <2>2, Products, PeriodType
  <2> QED BY <2>1, <2>3, <2>4, <2>5
<1> QED BY AlwaysInv, <1>1, PTL

\* When the scheduler is resumed no task has been due for more than a tick.
THEOREM WakesInTime == Spec => []AtMostOneTickLate
<1>1. Inv => AtMostOneTickLate
  BY TicksType DEF Inv, TypeOK, ResumeInv, AtMostOneTickLate
<1> QED BY AlwaysInv, <1>1, PTL

\* No interleaving of a frequency change with the tick loses the prescaler's update.
THEOREM PrescalerUpdated == Spec => []PrescalerFollowsClock
<1>1. Inv => PrescalerFollowsClock
  BY DEF Inv
<1> QED BY AlwaysInv, <1>1, PTL
=============================================================================
