-------------------------------- MODULE Dvfs --------------------------------
(***************************************************************************)
(* Voltage and frequency scaling                                           *)
(* (LPC1768_LOW_POWER_TICK_MANAGEMENT.c, lines 476-717) for a set of       *)
(* periodic tasks in the loop of main.cpp's vTask2: TaskReady, the         *)
(* computation, TaskComplete, vTaskDelayUntil.  Scheduling is cooperative  *)
(* (configUSE_PREEMPTION 0): a job runs from its start to its end.         *)
(*                                                                         *)
(* Tasks are numbered from 1, in the order of their priorities and         *)
(* periods.  Time is counted in parts of a tick, so that every job takes a *)
(* whole number of them at every frequency.  The float quotients of the    *)
(* code are compared as exact fractions.                                   *)
(***************************************************************************)
EXTENDS Integers, FiniteSetsExt

CONSTANTS
  numberOfTasks,
  availableFrequencyLevels,
  frequencyStages,   \* speed the code assumes at each level, from the fastest
  mValues,           \* PLL factor setSystemFrequency sets for each level
  TickParts,         \* parts of a tick that time is counted in
  PeriodChoices, ComputeChoices,  \* periods and worst cases of the tasks, in ticks
  Horizon            \* bound: ticks of a run

Tasks == 1 .. numberOfTasks
Levels == 0 .. availableFrequencyLevels - 1
Modes == {"SVS", "CycleConserving"}

ASSUME DvfsAssumption ==
  /\ numberOfTasks \in Nat \ {0} /\ availableFrequencyLevels \in Nat \ {0, 1}
  /\ frequencyStages \in [Levels -> Nat \ {0}] /\ mValues \in [Levels -> Nat \ {0}]
  /\ TickParts \in Nat \ {0}
  /\ \A l \in Levels :
       /\ mValues[l] * frequencyStages[0] >= frequencyStages[l] * mValues[0]
       /\ (TickParts * mValues[0]) % mValues[l] = 0
       /\ l > 0 => frequencyStages[l] < frequencyStages[l - 1]
  /\ PeriodChoices \subseteq Nat \ {0} /\ ComputeChoices \subseteq Nat \ {0}

VARIABLES
  mode,                       \* which of the two algorithms the setup chooses
  period,                     \* the tasks' periods
  taskWorstCaseComputeTime, taskDeadlines,
  d_i, c_lefti,               \* cycle conserving: cycles allocated, and left
  currentFrequencyLevel,
  clock,                      \* level of the last setSystemFrequency
  returned,                   \* result of the last call
  phase,                      \* "setup", "running", or "failed" when the setup is
  now,                        \* time, in parts of a tick
  wake,                       \* xLastWakeTime of each task
  running                     \* task whose job has the processor, or 0

taskSet == <<mode, period, taskWorstCaseComputeTime>>
vars == <<taskSet, taskDeadlines, d_i, c_lefti, currentFrequencyLevel, clock, returned,
          phase, now, wake, running>>

\* As the code rounds up: truncate towards 0, and add 1 if that was not exact.
CeilAux(n, d) ==
  CASE n % d = 0 -> n \div d
    [] n % d # 0 /\ n > 0 -> (n \div d) + 1
    [] n % d # 0 /\ n < 0 -> (n \div d) + 2

Init ==
  /\ mode \in Modes
  /\ period \in {p \in [Tasks -> PeriodChoices] : \A i \in Tasks : i > 1 => p[i - 1] <= p[i]}
  /\ taskWorstCaseComputeTime \in [Tasks -> ComputeChoices]
  /\ taskDeadlines = period
  /\ d_i = [i \in Tasks |-> 0] /\ c_lefti = [i \in Tasks |-> 0]
  /\ currentFrequencyLevel = 0 /\ clock = 0 /\ returned = 0
  /\ phase = "setup" /\ now = 0 /\ running = 0
  /\ wake = [i \in Tasks |-> 0]

Tick == now \div TickParts
-----------------------------------------------------------------------------
\* Incomplete periods are not counted.
DemandUpTo_NotRoundedUp(j) ==
  MapThenSumSet(LAMBDA i : (taskDeadlines[j] \div taskDeadlines[i]) * taskWorstCaseComputeTime[i],
                1 .. j)

\* Demand of the tasks up to j within the period of task j, at full speed.
DemandUpTo(j) ==
  MapThenSumSet(LAMBDA i : CeilAux(taskDeadlines[j], taskDeadlines[i]) * taskWorstCaseComputeTime[i],
                1 .. j)

staticVoltageScalingRM_Test(level) ==
  \A j \in Tasks :
    frequencyStages[level] * taskDeadlines[j] >= frequencyStages[0] * DemandUpTo(j)

\* The levels are tried from the fastest on, until one fails.
ValidPrefix == {l \in Levels : \A k \in 0 .. l : staticVoltageScalingRM_Test(k)}

\* The failure of the first level is not noticed.
staticVoltageScalingFrequencyLevelSelector_NoFailure ==
  LET level == Max(ValidPrefix \cup {-1})
  IN  currentFrequencyLevel' = level /\ clock' = level /\ returned' = level

staticVoltageScalingFrequencyLevelSelector ==
  IF ValidPrefix = {}
  THEN returned' = -1 /\ UNCHANGED <<currentFrequencyLevel, clock>>
  ELSE LET level == Max(ValidPrefix)
       IN  currentFrequencyLevel' = level /\ clock' = level /\ returned' = level

\* The setup; the scheduler starts next.  pvPortMalloc hands out memory that
\* was never used, so d_i starts from zero.
Setup ==
  /\ phase = "setup"
  /\ staticVoltageScalingFrequencyLevelSelector
  /\ phase' = IF returned' = -1 THEN "failed" ELSE "running"
  /\ c_lefti' = IF mode = "CycleConserving" /\ returned' # -1
                THEN taskWorstCaseComputeTime ELSE c_lefti
  /\ UNCHANGED <<taskSet, taskDeadlines, d_i, now, wake, running>>

Failed == phase = "failed" /\ UNCHANGED vars
-----------------------------------------------------------------------------
\* The parameters are the values of the arrays at the call.
findNextDeadline(deadlines) == Min({deadlines[i] : i \in Tasks})

TotalD(d) == MapThenSumSet(LAMBDA i : d[i], Tasks)

\* totalD / ticks * frequencyStages[0] > frequencyStages[l], in floats: the
\* quotient by zero is infinite, or not a number.
MinimumExceeds(l, totalD, ticks) ==
  \/ ticks > 0 /\ totalD * frequencyStages[0] > frequencyStages[l] * ticks
  \/ ticks = 0 /\ totalD > 0
  \/ ticks < 0 /\ totalD * frequencyStages[0] < frequencyStages[l] * ticks

\* The loop stops one level late.
cycleConservingDVSFrequencySelector_OneTooSlow(deadlines, d) ==
  LET ticks == findNextDeadline(deadlines) - Tick'
      exceeds(l) == MinimumExceeds(l, TotalD(d), ticks)
      level == Max({l \in Levels : \A k \in 1 .. l - 1 : ~exceeds(k)})
  IN  IF exceeds(1)
      THEN returned' = 0 /\ UNCHANGED currentFrequencyLevel
      ELSE returned' = level /\ currentFrequencyLevel' = level

\* Result and effect on currentFrequencyLevel; the frequency is not changed.
cycleConservingDVSFrequencySelector(deadlines, d) ==
  LET ticks == findNextDeadline(deadlines) - Tick'
      exceeds(l) == MinimumExceeds(l, TotalD(d), ticks)
      level == Max({l \in Levels : \A k \in 1 .. l : ~exceeds(k)})
  IN  IF exceeds(1)
      THEN returned' = 0 /\ UNCHANGED currentFrequencyLevel
      ELSE returned' = level /\ currentFrequencyLevel' = level

\* A task is allocated all that is left of k.
cycleConservingDVSAllocateCycles_Unlimited(cycles, k) ==
  LET before[i \in Tasks] ==
        IF i = 1 THEN k
        ELSE IF cycles[i - 1] < before[i - 1] THEN before[i - 1] - cycles[i - 1] ELSE 0
  IN  [i \in Tasks |-> before[i]]

\* Each task in turn gets the cycles it has left, as long as k lasts.
cycleConservingDVSAllocateCycles(cycles, k) ==
  LET before[i \in Tasks] ==
        IF i = 1 THEN k
        ELSE IF cycles[i - 1] < before[i - 1] THEN before[i - 1] - cycles[i - 1] ELSE 0
  IN  [i \in Tasks |-> IF cycles[i] < before[i] THEN cycles[i] ELSE before[i]]

cycleConservingDVSTaskReady(i) ==
  LET deadlines == [taskDeadlines EXCEPT ![i] = wake[i] + period[i]]
      cycles == [c_lefti EXCEPT ![i] = taskWorstCaseComputeTime[i]]
      s_m == findNextDeadline(deadlines) - Tick
      s_j == CeilAux(s_m * frequencyStages[currentFrequencyLevel], frequencyStages[0])
      d == cycleConservingDVSAllocateCycles(cycles, s_j)
  IN  /\ taskDeadlines' = deadlines /\ c_lefti' = cycles /\ d_i' = d
      /\ cycleConservingDVSFrequencySelector(deadlines, d)

cycleConservingDVSTaskComplete(i) ==
  LET d == [d_i EXCEPT ![i] = 0]
  IN  /\ c_lefti' = [c_lefti EXCEPT ![i] = 0] /\ d_i' = d
      /\ cycleConservingDVSFrequencySelector(taskDeadlines, d)
      /\ UNCHANGED taskDeadlines

\* The calls are made in the cycle conserving mode only.
Unscaled == UNCHANGED <<taskDeadlines, d_i, c_lefti, currentFrequencyLevel, returned>>
-----------------------------------------------------------------------------
Due(i) == wake[i] * TickParts <= now
Duration(work) == (work * TickParts * mValues[0]) \div mValues[clock]

\* A task that is due gets the processor before those of lower priority.
Start(i) ==
  /\ phase = "running" /\ running = 0 /\ Tick < Horizon
  /\ Due(i) /\ \A j \in Tasks : j < i => ~Due(j)
  /\ running' = i
  /\ UNCHANGED <<taskSet, clock, phase, now, wake>>
  /\ IF mode = "CycleConserving" THEN cycleConservingDVSTaskReady(i) ELSE Unscaled

\* Its computation takes at most its worst case; then it waits for its next period.
Complete(i) ==
  /\ running = i
  /\ \E work \in 1 .. taskWorstCaseComputeTime[i] : now' = now + Duration(work)
  /\ wake' = [wake EXCEPT ![i] = @ + period[i]]
  /\ running' = 0
  /\ UNCHANGED <<taskSet, clock, phase>>
  /\ IF mode = "CycleConserving" THEN cycleConservingDVSTaskComplete(i) ELSE Unscaled

\* The idle task, until the next task is due.
IdleUntilDue ==
  /\ phase = "running" /\ running = 0 /\ Tick < Horizon
  /\ \A i \in Tasks : ~Due(i)
  /\ now' = TickParts * Min({wake[i] : i \in Tasks})
  /\ UNCHANGED <<taskSet, taskDeadlines, d_i, c_lefti, currentFrequencyLevel, clock, returned,
                 phase, wake, running>>

\* End of the run (bound).
Stop == running = 0 /\ Tick >= Horizon /\ UNCHANGED vars

Next ==
  \/ Setup \/ Failed \/ IdleUntilDue \/ Stop
  \/ \E i \in Tasks : Start(i) \/ Complete(i)

Spec == Init /\ [][Next]_vars
-----------------------------------------------------------------------------
\* Every variable stays in its type; d_i alone may be negative, after a deadline.
TypeOK ==
  /\ mode \in Modes /\ phase \in {"setup", "running", "failed"}
  /\ period \in [Tasks -> PeriodChoices]
  /\ taskWorstCaseComputeTime \in [Tasks -> ComputeChoices]
  /\ taskDeadlines \in [Tasks -> Nat] /\ wake \in [Tasks -> Nat]
  /\ d_i \in [Tasks -> Int] /\ c_lefti \in [Tasks -> Nat]
  /\ currentFrequencyLevel \in Levels /\ clock \in Levels
  /\ returned \in Levels \cup {-1}
  /\ now \in Nat /\ running \in Tasks \cup {0}

\* Longest job that can hold up task i: one of lower priority.
Blocking(i) ==
  Max({0} \cup {Duration(taskWorstCaseComputeTime[j]) : j \in {k \in Tasks : k > i}})

\* At the frequency of the static test no job is late by more than the one job
\* of lower priority that the cooperative scheduler lets finish first.  In
\* particular the task of lowest priority, or a single one, meets all its deadlines.
LateByOneJobAtMost ==
  [][\A i \in Tasks : running = i /\ running' = 0 =>
       now' <= (wake[i] + period[i]) * TickParts + Blocking(i)]_vars

\* However starts and completions follow one another, no task is allocated more
\* cycles than it may still need, and no more than its worst case.
BudgetWithinJob ==
  phase = "running" /\ mode = "CycleConserving" =>
    \A i \in Tasks : d_i[i] <= c_lefti[i] /\ c_lefti[i] <= taskWorstCaseComputeTime[i]

\* The level a call returns is fast enough to execute all allocated cycles before
\* the next deadline, unless that has passed or no level is.
LevelSuffices ==
  [][mode = "CycleConserving" /\ running' # running =>
       LET ticks == findNextDeadline(taskDeadlines') - Tick'
       IN  ticks > 0 /\ returned' > 0 =>
             TotalD(d_i') * frequencyStages[0] <= frequencyStages[returned'] * ticks]_vars
=============================================================================
