------------------------------- MODULE Tickless -------------------------------
(***************************************************************************)
(* The tick on TIMER1 and the sleep of the idle task                       *)
(* (LPC1768_LOW_POWER_TICK_MANAGEMENT.c with configUSE_TICKLESS_IDLE 2).   *)
(*                                                                         *)
(* The thread of control is that of the tasks and the idle task: pc names  *)
(* the next statement of prvIdleTask and vApplicationSleep.  It competes   *)
(* with the counter, with the tick interrupt and with other interrupts.    *)
(* The kernel is reduced to what the sleep sees of it: the ticks left      *)
(* until a task is due, the ticks held back while the scheduler is         *)
(* suspended, and the reasons not to sleep.  Tasks.tla has the rest.       *)
(*                                                                         *)
(* TC counts the input of TIMER1 (100 us at the nominal prescaler).  A     *)
(* stretch of straight code before the sleep, or after it, takes less than *)
(* a count, so that it sees at most one step of TC (slack).                *)
(***************************************************************************)
EXTENDS Integers

CONSTANTS
  ulReloadValueForOneTick,          \* counts of TIMER1 in one tick period
  xMaximumPossibleSuppressedTicks,  \* longest sleep the counter allows
  IdleThreshold,  \* configEXPECTED_IDLE_TIME_BEFORE_SLEEP
  MaxIdle,        \* bound: longest wait for the next task, in ticks
  Levels          \* clock frequencies that can be selected

ASSUME TicklessAssumption ==
  /\ ulReloadValueForOneTick \in Nat \ {0, 1}
  /\ xMaximumPossibleSuppressedTicks \in Nat
  /\ IdleThreshold \in Nat \ {0, 1}
  /\ xMaximumPossibleSuppressedTicks >= IdleThreshold
  /\ MaxIdle \in Nat
  /\ Levels # {}

VARIABLES
  pc,              \* next statement of the thread
  idleTime,        \* xNextTaskUnblockTime - xTickCount; 0: a task is ready
  uxPendedTicks,   \* ticks that came while the scheduler was suspended
  abortSleep,      \* xPendingReadyList not empty, or xYieldPending
  TC, MR0, TCR,    \* TIMER1: counter, match value, counter enable
  NVIC,            \* TIMER1's interrupt is enabled
  pending,         \* interrupts that wait to be taken
  PRIMASK,         \* cpsid i
  ulTickFlag,
  xExpectedIdleTime, ulReloadValue, ulCompleteTickPeriods,  \* vApplicationSleep
  clock,           \* frequency the processor runs at
  PR,              \* frequency the prescaler was computed for
  frequencyChanged,
  since,           \* history: counts since the tick before the idle time was sampled
  slack            \* the current stretch of code has not yet seen a count

kernel == <<idleTime, uxPendedTicks, abortSleep>>
timer == <<TC, MR0, TCR, NVIC>>
locals == <<xExpectedIdleTime, ulReloadValue, ulCompleteTickPeriods>>
frequency == <<clock, PR, frequencyChanged>>
vars == <<pc, kernel, timer, pending, PRIMASK, ulTickFlag, locals, frequency, since, slack>>

Interrupts == {"TIMER1", "other"}
Running == {"run", "selector"}
Asleep == {"wfi"}
Places == Running \cup Asleep \cup
  {"stop", "disable", "mask", "confirm", "window", "stopAgain", "measure",
   "stepTick", "resumeAll", "halted"}

\* Tick periods of the counter before it matches, after it was armed.
Period == ulReloadValueForOneTick
AtMost(a, b) == IF a <= b THEN a ELSE b
OrZero(n) == IF n < 0 THEN 0 ELSE n
-----------------------------------------------------------------------------
\* vPortSetupTimerInterrupt: the first period is one count longer than
\* ulReloadValueForOneTick, until the first sleep sets MR0 anew.
Init ==
  /\ pc = "run" /\ idleTime = 0 /\ uxPendedTicks = 0 /\ abortSleep = FALSE
  /\ TC = 0 /\ MR0 = Period + 1 /\ TCR = TRUE /\ NVIC = TRUE
  /\ pending = {} /\ PRIMASK = FALSE /\ ulTickFlag = FALSE
  /\ xExpectedIdleTime = 0 /\ ulReloadValue = 0 /\ ulCompleteTickPeriods = 0
  /\ clock \in Levels /\ PR = clock /\ frequencyChanged = FALSE
  /\ since = 0 /\ slack = FALSE

SchedulerSuspended == pc \notin Running

\* What the NVIC presents to the processor: it ends WFI even under PRIMASK.
Presented == {i \in pending : i = "TIMER1" => NVIC}
Interrupted == ~PRIMASK /\ Presented # {}

\* The thread executes one statement; interrupts that are not masked come first.
Executes(from, to) == pc = from /\ ~Interrupted /\ pc' = to

disableTIMER1 == TCR' = FALSE /\ NVIC' = FALSE
enableTIMER1 == TCR' = TRUE /\ NVIC' = TRUE
-----------------------------------------------------------------------------
\* The tasks run, yield and block again: the next one is due in n ticks.
TasksRun(n) ==
  /\ Executes("run", "run")
  /\ idleTime' = n /\ abortSleep' = FALSE
  /\ UNCHANGED <<uxPendedTicks, timer, pending, PRIMASK, ulTickFlag, locals, frequency, since, slack>>

\* The flag is set before the frequency changes.
frequencyLevelSelector_FlagFirst ==
  /\ \/ /\ Executes("run", "selector")
        /\ frequencyChanged' = TRUE
        /\ UNCHANGED clock
     \/ /\ Executes("selector", "run")
        /\ \E level \in Levels : clock' = level
        /\ UNCHANGED frequencyChanged
  /\ UNCHANGED <<kernel, timer, pending, PRIMASK, ulTickFlag, locals, PR, since, slack>>

\* A task changes the frequency; the prescaler is left to the next tick.
frequencyLevelSelector ==
  /\ \/ /\ Executes("run", "selector")
        /\ \E level \in Levels : clock' = level
        /\ UNCHANGED frequencyChanged
     \/ /\ Executes("selector", "run")
        /\ frequencyChanged' = TRUE
        /\ UNCHANGED clock
  /\ UNCHANGED <<kernel, timer, pending, PRIMASK, ulTickFlag, locals, PR, since, slack>>

\* prvIdleTask suspends the scheduler, samples the expected idle time, and
\* calls vApplicationSleep, which limits it to what the counter can hold.
prvIdleTask ==
  /\ Executes("run", "stop")
  /\ idleTime >= IdleThreshold
  /\ xExpectedIdleTime' = AtMost(idleTime, xMaximumPossibleSuppressedTicks)
  /\ since' = TC /\ slack' = TRUE
  /\ UNCHANGED <<kernel, timer, pending, PRIMASK, ulTickFlag, ulReloadValue,
                 ulCompleteTickPeriods, frequency>>

\* The two writes of disableTIMER1, with interrupts still enabled.
Sleep_StopTimer ==
  /\ Executes("stop", "disable")
  /\ TCR' = FALSE
  /\ UNCHANGED <<kernel, TC, MR0, NVIC, pending, PRIMASK, ulTickFlag, locals, frequency, since, slack>>

Sleep_DisableInterrupt ==
  /\ Executes("disable", "mask")
  /\ NVIC' = FALSE
  /\ ulReloadValue' = Period * xExpectedIdleTime
  /\ UNCHANGED <<kernel, TC, MR0, TCR, pending, PRIMASK, ulTickFlag, xExpectedIdleTime,
                 ulCompleteTickPeriods, frequency, since, slack>>

\* The tick flag of an earlier tick is kept.
Sleep_Mask_FlagKept ==
  /\ Executes("mask", "confirm")
  /\ PRIMASK' = TRUE
  /\ UNCHANGED <<ulTickFlag, kernel, timer, pending, locals, frequency, since, slack>>

Sleep_Mask ==
  /\ Executes("mask", "confirm")
  /\ PRIMASK' = TRUE /\ ulTickFlag' = FALSE
  /\ UNCHANGED <<kernel, timer, pending, locals, frequency, since, slack>>

\* eTaskConfirmSleepModeStatus finds a task made ready or a yield pended.
Sleep_Abort ==
  /\ Executes("confirm", "resumeAll")
  /\ abortSleep
  /\ enableTIMER1 /\ PRIMASK' = FALSE
  /\ UNCHANGED <<kernel, TC, MR0, pending, ulTickFlag, locals, frequency, since, slack>>

\* enableTIMER1 without the write to TCR.
Sleep_Arm_NotStarted ==
  /\ Executes("confirm", "wfi")
  /\ ~abortSleep
  /\ ulReloadValue' = ulReloadValue - TC
  /\ MR0' = ulReloadValue' /\ TC' = 0 /\ NVIC' = TRUE
  /\ UNCHANGED <<TCR, kernel, pending, PRIMASK, ulTickFlag, xExpectedIdleTime,
                 ulCompleteTickPeriods, frequency, since, slack>>

\* The counter is armed for the whole idle time, less what has passed of this tick.
Sleep_Arm ==
  /\ Executes("confirm", "wfi")
  /\ ~abortSleep
  /\ ulReloadValue' = ulReloadValue - TC
  /\ MR0' = ulReloadValue' /\ TC' = 0 /\ enableTIMER1
  /\ UNCHANGED <<kernel, pending, PRIMASK, ulTickFlag, xExpectedIdleTime,
                 ulCompleteTickPeriods, frequency, since, slack>>

\* Sleep() and the wfi after it: both end at once when an interrupt waits.
Sleep_Wake ==
  /\ Executes("wfi", "window")
  /\ Presented # {}
  /\ PRIMASK' = FALSE /\ slack' = TRUE
  /\ UNCHANGED <<kernel, timer, pending, ulTickFlag, locals, frequency, since>>

\* The interrupt that ended the sleep has been taken.
Sleep_MaskAgain ==
  /\ Executes("window", "stopAgain")
  /\ PRIMASK' = TRUE
  /\ UNCHANGED <<kernel, timer, pending, ulTickFlag, locals, frequency, since, slack>>

Sleep_StopTimerAgain ==
  /\ Executes("stopAgain", "measure")
  /\ disableTIMER1
  /\ UNCHANGED <<kernel, TC, MR0, pending, PRIMASK, ulTickFlag, locals, frequency, since, slack>>

\* The tick that ended the sleep is counted once more.
Sleep_MeasureWhole_TickTwice ==
  /\ Executes("measure", "stepTick")
  /\ ulTickFlag
  /\ MR0' = Period - TC /\ TC' = 0 /\ enableTIMER1
  /\ ulCompleteTickPeriods' = xExpectedIdleTime
  /\ UNCHANGED <<kernel, pending, PRIMASK, ulTickFlag, xExpectedIdleTime, ulReloadValue,
                 frequency, since, slack>>

\* The tick interrupt ended the sleep: it is one of the ticks slept through,
\* and already counted in uxPendedTicks.
Sleep_MeasureWhole ==
  /\ Executes("measure", "stepTick")
  /\ ulTickFlag
  /\ MR0' = Period - TC /\ TC' = 0 /\ enableTIMER1
  /\ ulCompleteTickPeriods' = xExpectedIdleTime - 1
  /\ UNCHANGED <<kernel, pending, PRIMASK, ulTickFlag, xExpectedIdleTime, ulReloadValue,
                 frequency, since, slack>>

\* TC is left as it is when the counter is restarted.
Sleep_MeasurePart_CounterKept ==
  /\ Executes("measure", "stepTick")
  /\ ~ulTickFlag
  /\ LET fraction == TC % Period IN
     IF fraction = 0
     THEN MR0' = Period /\ ulCompleteTickPeriods' = (TC \div Period) + 1
     ELSE MR0' = fraction /\ ulCompleteTickPeriods' = TC \div Period
  /\ UNCHANGED TC /\ enableTIMER1
  /\ UNCHANGED <<kernel, pending, PRIMASK, ulTickFlag, xExpectedIdleTime, ulReloadValue,
                 frequency, since, slack>>

\* Something else did: count the complete periods.  MR0 gets the fraction of a
\* period that has passed.
Sleep_MeasurePart ==
  /\ Executes("measure", "stepTick")
  /\ ~ulTickFlag
  /\ LET fraction == TC % Period IN
     IF fraction = 0
     THEN MR0' = Period /\ ulCompleteTickPeriods' = (TC \div Period) + 1
     ELSE MR0' = fraction /\ ulCompleteTickPeriods' = TC \div Period
  /\ TC' = 0 /\ enableTIMER1
  /\ UNCHANGED <<kernel, pending, PRIMASK, ulTickFlag, xExpectedIdleTime, ulReloadValue,
                 frequency, since, slack>>

\* A step past the time the next task is due goes unnoticed.
vTaskStepTick_Unchecked ==
  /\ Executes("stepTick", "resumeAll")
  /\ idleTime' = idleTime - ulCompleteTickPeriods
  /\ MR0' = Period /\ PRIMASK' = FALSE
  /\ UNCHANGED <<uxPendedTicks, abortSleep, TC, TCR, NVIC, pending, ulTickFlag, locals,
                 frequency, since, slack>>

vTaskStepTick ==
  /\ Executes("stepTick", "resumeAll")
  /\ ulCompleteTickPeriods <= idleTime
  /\ idleTime' = idleTime - ulCompleteTickPeriods
  /\ MR0' = Period /\ PRIMASK' = FALSE
  /\ UNCHANGED <<uxPendedTicks, abortSleep, TC, TCR, NVIC, pending, ulTickFlag, locals,
                 frequency, since, slack>>

\* vTaskStepTick's configASSERT: the processor stays in its loop, interrupts masked.
StepTick_AssertFails ==
  /\ Executes("stepTick", "halted")
  /\ ulCompleteTickPeriods > idleTime
  /\ UNCHANGED <<kernel, timer, pending, PRIMASK, ulTickFlag, locals, frequency, since, slack>>

Halted == pc = "halted" /\ UNCHANGED vars

\* The pended ticks are processed, and the tasks made ready enter the ready lists.
xTaskResumeAll ==
  /\ Executes("resumeAll", "run")
  /\ idleTime' = IF abortSleep THEN 0 ELSE OrZero(idleTime - uxPendedTicks)
  /\ uxPendedTicks' = 0 /\ abortSleep' = FALSE
  /\ since' = 0 /\ slack' = FALSE
  /\ xExpectedIdleTime' = 0 /\ ulReloadValue' = 0 /\ ulCompleteTickPeriods' = 0
  /\ UNCHANGED <<timer, pending, PRIMASK, ulTickFlag, frequency>>
-----------------------------------------------------------------------------
\* TIMER1 (external): a count, or the match that resets the counter and
\* requests the interrupt.  The handlers take much less than a count.
MayCount ==
  \/ pc \in Running /\ ~Interrupted
  \/ pc \in Asleep /\ Presented = {}
  \/ pc \notin {"run", "selector", "wfi", "halted"} /\ slack /\ ~Interrupted

TIMER1_Count ==
  /\ TCR /\ MayCount
  /\ IF TC = MR0
     THEN TC' = 0 /\ pending' = pending \cup {"TIMER1"}
     ELSE TC' = TC + 1 /\ UNCHANGED pending
  /\ since' = IF SchedulerSuspended THEN since + 1 ELSE since
  /\ slack' = (slack /\ pc \in Asleep)
  /\ UNCHANGED <<pc, kernel, MR0, TCR, NVIC, PRIMASK, ulTickFlag, locals, frequency>>

\* TIMER1_IRQHandler and dynamicFrequencySysTickHandler, with the part of
\* xTaskIncrementTick that the sleep sees.
TIMER1_IRQHandler ==
  /\ ~PRIMASK /\ "TIMER1" \in Presented
  /\ pending' = pending \ {"TIMER1"}
  /\ IF SchedulerSuspended
     THEN uxPendedTicks' = uxPendedTicks + 1 /\ UNCHANGED idleTime
     ELSE idleTime' = OrZero(idleTime - 1) /\ UNCHANGED uxPendedTicks
  /\ PR' = IF frequencyChanged THEN clock ELSE PR
  /\ frequencyChanged' = FALSE
  /\ ulTickFlag' = TRUE
  /\ UNCHANGED <<pc, abortSleep, timer, PRIMASK, locals, clock, since, slack>>

\* Any other interrupt; its handler may make a task ready.
OtherRequest ==
  /\ pc # "halted"
  /\ "other" \notin pending
  /\ pending' = pending \cup {"other"}
  /\ UNCHANGED <<pc, kernel, timer, PRIMASK, ulTickFlag, locals, frequency, since, slack>>

OtherHandler ==
  /\ ~PRIMASK /\ "other" \in Presented
  /\ pending' = pending \ {"other"}
  /\ \/ UNCHANGED <<idleTime, abortSleep>>
     \/ SchedulerSuspended /\ abortSleep' = TRUE /\ UNCHANGED idleTime
     \/ ~SchedulerSuspended /\ idleTime' = 0 /\ UNCHANGED abortSleep
  /\ UNCHANGED <<pc, uxPendedTicks, timer, PRIMASK, ulTickFlag, locals, frequency, since, slack>>

SleepStep ==
  \/ Sleep_StopTimer \/ Sleep_DisableInterrupt \/ Sleep_Mask \/ Sleep_Abort
  \/ Sleep_Arm \/ Sleep_Wake \/ Sleep_MaskAgain \/ Sleep_StopTimerAgain
  \/ Sleep_MeasureWhole \/ Sleep_MeasurePart \/ vTaskStepTick
  \/ StepTick_AssertFails \/ xTaskResumeAll

Next ==
  \/ \E n \in 0 .. MaxIdle : TasksRun(n)
  \/ frequencyLevelSelector \/ prvIdleTask \/ SleepStep \/ Halted
  \/ TIMER1_Count \/ TIMER1_IRQHandler \/ OtherRequest \/ OtherHandler

Spec == Init /\ [][Next]_vars

\* Between interrupts the processor executes; the counter counts.
Fairness ==
  /\ SF_vars(SleepStep) /\ WF_vars(TIMER1_Count)
  /\ WF_vars(TIMER1_IRQHandler) /\ WF_vars(OtherHandler)

FairSpec == Spec /\ Fairness
-----------------------------------------------------------------------------
\* Every variable stays in its type; no count or step becomes negative.
TypeOK ==
  /\ pc \in Places
  /\ idleTime \in Nat /\ uxPendedTicks \in Nat /\ abortSleep \in BOOLEAN
  /\ TC \in Nat /\ MR0 \in Nat /\ TCR \in BOOLEAN /\ NVIC \in BOOLEAN
  /\ pending \subseteq Interrupts /\ PRIMASK \in BOOLEAN /\ ulTickFlag \in BOOLEAN
  /\ xExpectedIdleTime \in Nat /\ ulReloadValue \in Nat /\ ulCompleteTickPeriods \in Nat
  /\ clock \in Levels /\ PR \in Levels /\ frequencyChanged \in BOOLEAN
  /\ since \in Nat /\ slack \in BOOLEAN

\* A counter above its match value would run through its 32 bits before the
\* next tick.  However the counter is stopped, reset and re-armed by the sleep,
\* it is never above the match value while it counts.
CounterBelowMatch == TCR => TC <= MR0

\* Ticks by which the sleep moves the kernel's time.
Advance == ulCompleteTickPeriods + uxPendedTicks

\* The kernel never runs ahead of the counter by more than a tick over a sleep,
\* whatever ended it.
NeverAheadByMoreThanATick ==
  pc = "resumeAll" => Period * Advance <= since + Period

\* When the scheduler is resumed the kernel's time has passed the wake time of
\* the next task by at most one tick.
AtMostOneTickLate == pc = "resumeAll" => uxPendedTicks <= idleTime + 1

\* Outside of a frequency change, a prescaler that does not fit the clock is
\* known to the tick handler: no interleaving of the change and the tick
\* loses the update.
PrescalerFollowsClock == pc # "selector" /\ ~frequencyChanged => PR = clock

\* Every sleep ends, in the idle task's loop or in vTaskStepTick's assertion.
SleepEnds == pc = "stop" ~> pc \in {"run", "halted"}

\* tasks.c:2420-2423: "Correct the tick count value after a period during which
\* the tick was suppressed" must not pass the time the next task is due.
StepFitsIdleTime == pc = "stepTick" => ulCompleteTickPeriods <= idleTime
=============================================================================
