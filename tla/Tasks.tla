-------------------------------- MODULE Tasks --------------------------------
(***************************************************************************)
(* The task scheduler of tasks.c as FreeRTOSConfig.h configures it:        *)
(* cooperative (configUSE_PREEMPTION 0), tickless (configUSE_TICKLESS_IDLE *)
(* 2), the port-optimised ready bitmap, task notifications, no software    *)
(* timers.                                                                 *)
(*                                                                         *)
(* A step is what one task or one interrupt handler does while nothing     *)
(* else can run: the body of a critical section, or the code between two   *)
(* points at which an interrupt can be taken.  pc[t] says where task t is  *)
(* in a kernel call that spans several steps ("run" is its own code), and  *)
(* mode says which loop is running with interrupts masked, one iteration   *)
(* per step: "resume" for xTaskResumeAll, "tick" for xTaskIncrementTick    *)
(* called by the tick interrupt, "replay" for the same called by           *)
(* xTaskResumeAll, "open" when interrupts are enabled, "halted" after a    *)
(* configASSERT failed.                                                    *)
(***************************************************************************)
EXTENDS Lists

CONSTANTS
  Tasks,          \* the application's tasks
  Idle,           \* the idle task
  NoTask,         \* the NULL of pxCurrentTCB
  MaxPriority,    \* configMAX_PRIORITIES - 1
  InitialPriority,\* the priority each task is created with
  MaxDelay,       \* portMAX_DELAY: the tick count wraps after it
  IdleThreshold,  \* configEXPECTED_IDLE_TIME_BEFORE_SLEEP
  SleepMargin,    \* a sleep for n expected ticks steps at most n - SleepMargin
  Calls,          \* the API calls the application makes
  Delays,         \* the block times and periods it uses, in ticks
  MaxNesting,     \* bound: nested vTaskSuspendAll calls
  MaxPended       \* bound: ticks held in uxPendedTicks

AllTasks == Tasks \cup {Idle}
Priorities == 0 .. MaxPriority
Ticks == 0 .. MaxDelay

ASSUME TasksAssumption ==
  /\ IsFiniteSet(Tasks) /\ Idle \notin Tasks /\ NoTask \notin AllTasks
  /\ MaxPriority \in Nat
  /\ InitialPriority \in [AllTasks -> Priorities] /\ InitialPriority[Idle] = 0
  /\ MaxDelay \in Nat \ {0}
  /\ IdleThreshold \in Nat \ {0, 1} /\ SleepMargin \in {0, 1}
  /\ Delays \subseteq 1 .. MaxDelay
  /\ MaxNesting \in Nat \ {0} /\ MaxPended \in Nat

VARIABLES
  xSchedulerRunning,
  xTickCount,
  xNextTaskUnblockTime,
  uxPendedTicks,
  uxSchedulerSuspended,
  xYieldPending,
  uxTopReadyPriority,   \* the set of priorities whose bit is set
  pxCurrentTCB,
  pxDelayedTaskList,    \* which of xDelayedTaskList1 and 2 it points at
  stateLists,           \* the lists that hold tasks' xStateListItem
  eventLists,           \* the lists that hold tasks' xEventListItem
  xItemValue,           \* the wake time in each task's xStateListItem
  uxPriority,
  ucNotifyState,
  ulNotifiedValue,
  pxPreviousWakeTime,   \* the variable each task passes to vTaskDelayUntil
  pc, arg,
  mode,
  pendSV,               \* the PendSV exception is pending
  failedAssert,         \* the configASSERT that stopped the system, or "none"
  suspendCalls          \* history: suspended by vTaskSuspend, not resumed since

timeVars == <<xTickCount, xNextTaskUnblockTime, pxDelayedTaskList, xItemValue>>
listVars == <<stateLists, eventLists, uxTopReadyPriority>>
notifyVars == <<ucNotifyState, ulNotifiedValue>>
schedVars == <<uxPendedTicks, uxSchedulerSuspended, xYieldPending>>
cpuVars == <<pxCurrentTCB, pendSV, mode>>
callVars == <<pc, arg, pxPreviousWakeTime>>
restVars == <<xSchedulerRunning, uxPriority, failedAssert, suspendCalls>>
vars == <<timeVars, listVars, notifyVars, schedVars, cpuVars, callVars, restVars>>
-----------------------------------------------------------------------------
(* The lists *)

ReadyList(p) == <<"pxReadyTasksLists", p>>
DelayedList(i) == <<"xDelayedTaskList", i>>
SuspendedList == <<"xSuspendedTaskList", 0>>
StateListNames ==
  {ReadyList(p) : p \in Priorities} \cup {DelayedList(1), DelayedList(2), SuspendedList}

PendingReadyList == "xPendingReadyList"
EventList == "xTasksWaitingToReceive"
EventListNames == {PendingReadyList, EventList}

Current == DelayedList(pxDelayedTaskList)
Overflow == DelayedList(3 - pxDelayedTaskList)

IsIn(lists, name, t) == t \in Owners(lists[name])
Container(lists, t) == CHOOSE name \in DOMAIN lists : IsIn(lists, name, t)
IsLinked(lists, t) == \E name \in DOMAIN lists : IsIn(lists, name, t)

\* Mutants of the list helpers: the item left where it was, a list kept in the
\* order of arrival.
UnlinkIfLinked_Forgotten(lists, t) == lists
Unlink(lists, t) == [lists EXCEPT ![Container(lists, t)] = uxListRemove(@, t)]
UnlinkIfLinked(lists, t) == IF IsLinked(lists, t) THEN Unlink(lists, t) ELSE lists
LinkEnd(lists, name, t) == [lists EXCEPT ![name] = vListInsertEnd(@, t)]
LinkByValue(lists, name, value, t, new) ==
  [lists EXCEPT ![name] = vListInsert(@, value, t, new)]

\* Mutants: the item is linked twice; the bit is not recorded.
MoveToReady_LinkedTwice(t) ==
  /\ stateLists' = LinkEnd(stateLists, ReadyList(uxPriority[t]), t)
  /\ uxTopReadyPriority' = uxTopReadyPriority \cup {uxPriority[t]}
MoveToReady_NotRecorded(t) ==
  /\ stateLists' = LinkEnd(Unlink(stateLists, t), ReadyList(uxPriority[t]), t)
  /\ UNCHANGED uxTopReadyPriority

\* prvAddTaskToReadyList for a task whose state item sits in another list.
MoveToReady(t) ==
  /\ stateLists' = LinkEnd(Unlink(stateLists, t), ReadyList(uxPriority[t]), t)
  /\ uxTopReadyPriority' = uxTopReadyPriority \cup {uxPriority[t]}

\* Mutant: the bit goes although other tasks of the priority remain.
ResetReadyPriority_Always(lists, p) == uxTopReadyPriority \ {p}

\* The bitmap after t's item left its list and lists is what remains.
ResetReadyPriority(lists, p) ==
  IF IsEmpty(lists[ReadyList(p)]) THEN uxTopReadyPriority \ {p} ELSE uxTopReadyPriority

\* prvResetNextTaskUnblockTime, for a delayed list that holds what list holds.
EarliestWake(list) == IF IsEmpty(list) THEN MaxDelay ELSE xItemValue[HeadOwner(list)]

\* The event list item's value orders waiters by priority, highest first.
EventItemValue == [t \in AllTasks |-> MaxPriority + 1 - uxPriority[t]]

\* configASSERT failed: interrupts stay disabled and the program loops for ever.
AssertFails(what) ==
  /\ failedAssert' = what
  /\ mode' = "halted"
  /\ UNCHANGED <<timeVars, listVars, notifyVars, uxSchedulerSuspended, xYieldPending,
                 pxCurrentTCB, pendSV, callVars, xSchedulerRunning, uxPriority, suspendCalls>>
-----------------------------------------------------------------------------
Init ==
  /\ xSchedulerRunning = FALSE
  /\ xTickCount = 0 /\ xNextTaskUnblockTime = 0 /\ uxPendedTicks = 0
  /\ uxSchedulerSuspended = 0 /\ xYieldPending = FALSE
  /\ uxTopReadyPriority = {}
  /\ pxCurrentTCB = NoTask
  /\ pxDelayedTaskList = 1
  /\ stateLists = [name \in StateListNames |-> vListInitialise]
  /\ eventLists = [name \in EventListNames |-> vListInitialise]
  /\ xItemValue = [t \in AllTasks |-> 0]
  /\ uxPriority = InitialPriority
  /\ ucNotifyState = [t \in AllTasks |-> "notWaiting"]
  /\ ulNotifiedValue = [t \in AllTasks |-> "zero"]
  /\ pxPreviousWakeTime = [t \in AllTasks |-> 0]
  /\ pc = [t \in AllTasks |-> "none"]
  /\ arg = [t \in AllTasks |-> 0]
  /\ mode = "open" /\ pendSV = FALSE
  /\ failedAssert = "none"
  /\ suspendCalls = {}

\* Interrupt handlers run whenever interrupts are enabled.
Interruptible == xSchedulerRunning /\ mode = "open"

\* Task t executes: it is current, and no exception is waiting to preempt it.
Executes(t, at) == Interruptible /\ ~pendSV /\ pxCurrentTCB = t /\ pc[t] = at

\* t, in its own code, makes a call of the kernel.
Calling(t, call) == call \in Calls /\ Executes(t, "run")

\* Blocking calls are made with the scheduler running (they assert it).
MayBlock == uxSchedulerSuspended = 0

Goto(t, to) == pc' = [pc EXCEPT ![t] = to]

SetArg(t, value) == arg' = [arg EXCEPT ![t] = value]
-----------------------------------------------------------------------------
(* Creation and start *)

\* prvAddNewTaskToReadyList: t's items enter the ready list of its priority.
AddNewTask(t) ==
  /\ pc[t] = "none"
  /\ stateLists' = LinkEnd(stateLists, ReadyList(uxPriority[t]), t)
  /\ uxTopReadyPriority' = uxTopReadyPriority \cup {uxPriority[t]}
  /\ pxCurrentTCB' =
       IF pxCurrentTCB = NoTask \/ (~xSchedulerRunning /\ uxPriority[pxCurrentTCB] <= uxPriority[t])
       THEN t ELSE pxCurrentTCB
  /\ Goto(t, IF t = Idle THEN "idle" ELSE "run")

CreateBeforeStart(t) ==
  /\ ~xSchedulerRunning
  /\ AddNewTask(t)
  /\ UNCHANGED <<timeVars, eventLists, notifyVars, schedVars, pendSV, mode, arg,
                 pxPreviousWakeTime, restVars>>

vTaskStartScheduler ==
  /\ ~xSchedulerRunning
  /\ AddNewTask(Idle)
  /\ xNextTaskUnblockTime' = MaxDelay
  /\ xSchedulerRunning' = TRUE
  /\ xTickCount' = 0
  /\ UNCHANGED <<pxDelayedTaskList, xItemValue, eventLists, notifyVars, schedVars, pendSV,
                 mode, arg, pxPreviousWakeTime, uxPriority, failedAssert, suspendCalls>>

xTaskCreate(self, t) ==
  /\ Calling(self, "xTaskCreate")
  /\ t \in Tasks
  /\ AddNewTask(t)
  /\ UNCHANGED <<timeVars, eventLists, notifyVars, schedVars, pendSV, mode, arg,
                 pxPreviousWakeTime, restVars>>
-----------------------------------------------------------------------------
(* Delaying *)

\* Mutant: a wake time beyond the wrap is taken for one before it.
WakesAfterWrap_Ignored(xTimeToWake) == FALSE

WakesAfterWrap(xTimeToWake) == xTimeToWake < xTickCount

\* prvAddCurrentTaskToDelayedList, called by t, the current task.
AddCurrentTaskToDelayedList(t, xTicksToWait, xCanBlockIndefinitely) ==
  LET left == Unlink(stateLists, t)
      xTimeToWake == (xTickCount + xTicksToWait) % (MaxDelay + 1)
      wraps == WakesAfterWrap(xTimeToWake)
      target == IF wraps THEN Overflow ELSE Current
  IN  /\ uxTopReadyPriority' = ResetReadyPriority(left, uxPriority[t])
      /\ IF xTicksToWait = MaxDelay /\ xCanBlockIndefinitely
         THEN /\ stateLists' = LinkEnd(left, SuspendedList, t)
              /\ UNCHANGED <<xItemValue, xNextTaskUnblockTime>>
         ELSE /\ xItemValue' = [xItemValue EXCEPT ![t] = xTimeToWake]
              /\ stateLists' = LinkByValue(left, target, xItemValue, t, xTimeToWake)
              /\ xNextTaskUnblockTime' =
                   IF ~wraps /\ xTimeToWake < xNextTaskUnblockTime
                   THEN xTimeToWake ELSE xNextTaskUnblockTime
      /\ UNCHANGED <<xTickCount, pxDelayedTaskList>>

\* The calls that block start by suspending the scheduler.
BeginBlocking(t, call, wait, next) ==
  /\ Calling(t, call)
  /\ MayBlock
  /\ uxSchedulerSuspended' = uxSchedulerSuspended + 1
  /\ Goto(t, next) /\ SetArg(t, wait)
  /\ UNCHANGED <<timeVars, listVars, notifyVars, uxPendedTicks, xYieldPending, cpuVars,
                 pxPreviousWakeTime, restVars>>

vTaskDelay(t) == \E n \in Delays : BeginBlocking(t, "vTaskDelay", n, "delay")

Delay_AddToList(t) ==
  /\ Executes(t, "delay")
  /\ AddCurrentTaskToDelayedList(t, arg[t], FALSE)
  /\ Goto(t, "resumeAll") /\ SetArg(t, 0)
  /\ UNCHANGED <<eventLists, notifyVars, schedVars, cpuVars, pxPreviousWakeTime, restVars>>

vTaskDelayUntil(t) ==
  \E increment \in Delays : BeginBlocking(t, "vTaskDelayUntil", increment, "delayUntil")

\* Mutant: no case for a wake time beyond the wrap.
ShouldDelay_NoWrap(previous, xTimeToWake) == xTimeToWake > xTickCount

ShouldDelay(previous, xTimeToWake) ==
  IF xTickCount < previous
  THEN xTimeToWake < previous /\ xTimeToWake > xTickCount
  ELSE xTimeToWake < previous \/ xTimeToWake > xTickCount

DelayUntil_AddToList(t) ==
  LET xTimeToWake == (pxPreviousWakeTime[t] + arg[t]) % (MaxDelay + 1)
      xShouldDelay == ShouldDelay(pxPreviousWakeTime[t], xTimeToWake)
  IN  /\ Executes(t, "delayUntil")
      /\ pxPreviousWakeTime' = [pxPreviousWakeTime EXCEPT ![t] = xTimeToWake]
      /\ IF xShouldDelay
         THEN AddCurrentTaskToDelayedList(t, (xTimeToWake - xTickCount) % (MaxDelay + 1), FALSE)
         ELSE UNCHANGED <<timeVars, stateLists, uxTopReadyPriority>>
      /\ Goto(t, "resumeAll") /\ SetArg(t, 0)
      /\ UNCHANGED <<eventLists, notifyVars, schedVars, cpuVars, restVars>>

\* A task that is going to call vTaskDelayUntil first records the time.
xTaskGetTickCount(t) ==
  /\ Calling(t, "vTaskDelayUntil")
  /\ pxPreviousWakeTime' = [pxPreviousWakeTime EXCEPT ![t] = xTickCount]
  /\ UNCHANGED <<timeVars, listVars, notifyVars, schedVars, cpuVars, pc, arg, restVars>>

\* taskYIELD and portYIELD_WITHIN_API: the switch follows at once.
Yield(t) ==
  /\ \/ Calling(t, "taskYIELD") /\ UNCHANGED pc
     \/ Executes(t, "yield") /\ Goto(t, "run")
  /\ pendSV' = TRUE
  /\ UNCHANGED <<timeVars, listVars, notifyVars, schedVars, pxCurrentTCB, mode, arg,
                 pxPreviousWakeTime, restVars>>
-----------------------------------------------------------------------------
(* Suspending and resuming the scheduler *)

vTaskSuspendAll(t) ==
  /\ Calling(t, "vTaskSuspendAll")
  /\ uxSchedulerSuspended < MaxNesting
  /\ uxSchedulerSuspended' = uxSchedulerSuspended + 1
  /\ UNCHANGED <<timeVars, listVars, notifyVars, uxPendedTicks, xYieldPending, cpuVars,
                 callVars, restVars>>

\* Mutant: what was held back is not looked at.
xTaskResumeAll_NoLoops(t) ==
  /\ \/ Calling(t, "vTaskSuspendAll") /\ UNCHANGED pc
     \/ Executes(t, "resumeAll") /\ Goto(t, "yield")
     \/ Executes(t, "idleResumeAll") /\ Goto(t, "idle")
  /\ uxSchedulerSuspended > 0
  /\ uxSchedulerSuspended' = uxSchedulerSuspended - 1
  /\ UNCHANGED <<timeVars, listVars, notifyVars, uxPendedTicks, xYieldPending, cpuVars, arg,
                 pxPreviousWakeTime, restVars>>

\* xTaskResumeAll, called by the application, by a blocking call and by the
\* idle task; its critical section goes on in the steps with mode "resume".
xTaskResumeAll(t) ==
  /\ \/ Calling(t, "vTaskSuspendAll") /\ UNCHANGED pc
     \/ Executes(t, "resumeAll") /\ Goto(t, "yield")
     \/ Executes(t, "idleResumeAll") /\ Goto(t, "idle")
  /\ uxSchedulerSuspended > 0
  /\ uxSchedulerSuspended' = uxSchedulerSuspended - 1
  /\ mode' = IF uxSchedulerSuspended = 1 THEN "resume" ELSE "open"
  /\ UNCHANGED <<timeVars, listVars, notifyVars, uxPendedTicks, xYieldPending, pxCurrentTCB,
                 pendSV, arg, pxPreviousWakeTime, restVars>>

\* One turn of the first loop.  The code resets xNextTaskUnblockTime once,
\* after the last turn: no one can see the values it has in between.
ResumeAll_MovePending ==
  LET t == HeadOwner(eventLists[PendingReadyList])
  IN  /\ mode = "resume"
      /\ ~IsEmpty(eventLists[PendingReadyList])
      /\ eventLists' = Unlink(eventLists, t)
      /\ MoveToReady(t)
      /\ xYieldPending' = (xYieldPending \/ uxPriority[t] >= uxPriority[pxCurrentTCB])
      /\ xNextTaskUnblockTime' = EarliestWake(stateLists'[Current])
      /\ UNCHANGED <<xTickCount, pxDelayedTaskList, xItemValue, notifyVars, uxPendedTicks,
                     uxSchedulerSuspended, cpuVars, callVars, restVars>>

\* Mutant: leaves with ticks still pended.
ResumeAll_Leave_TicksLeft ==
  /\ mode = "resume"
  /\ IsEmpty(eventLists[PendingReadyList])
  /\ mode' = "open"
  /\ UNCHANGED <<timeVars, listVars, notifyVars, schedVars, pxCurrentTCB, pendSV, callVars,
                 restVars>>

ResumeAll_Leave ==
  /\ mode = "resume"
  /\ IsEmpty(eventLists[PendingReadyList])
  /\ uxPendedTicks = 0
  /\ mode' = "open"
  /\ UNCHANGED <<timeVars, listVars, notifyVars, schedVars, pxCurrentTCB, pendSV, callVars,
                 restVars>>
-----------------------------------------------------------------------------
(* The tick *)

\* Mutants: the count never wraps; the lists are not switched.
NextTick_NoWrap == xTickCount + 1
DelayedListAt_Same(tick) == pxDelayedTaskList

NextTick == (xTickCount + 1) % (MaxDelay + 1)

\* taskSWITCH_DELAYED_LISTS, when the count has come to 0.
DelayedListAt(tick) == IF tick = 0 THEN 3 - pxDelayedTaskList ELSE pxDelayedTaskList

\* xTaskIncrementTick up to its loop, which runs in the steps with mode loop.
IncrementTick(loop, done) ==
  LET xConstTickCount == NextTick
      wraps == xConstTickCount = 0
      unblock == IF wraps THEN EarliestWake(stateLists[Overflow]) ELSE xNextTaskUnblockTime
  IN  IF wraps /\ ~IsEmpty(stateLists[Current])
      THEN AssertFails("delayed list empty at the switch")
      ELSE /\ xTickCount' = xConstTickCount
           /\ pxDelayedTaskList' = DelayedListAt(xConstTickCount)
           /\ xNextTaskUnblockTime' = unblock
           /\ mode' = IF xConstTickCount >= unblock THEN loop ELSE done
           /\ UNCHANGED <<xItemValue, listVars, notifyVars, xYieldPending,
                          uxSchedulerSuspended, pxCurrentTCB, pendSV, callVars, restVars>>

\* The tick interrupt.
Tick ==
  /\ Interruptible
  /\ IF uxSchedulerSuspended = 0
     THEN IncrementTick("tick", "open") /\ UNCHANGED uxPendedTicks
     ELSE /\ uxPendedTicks < MaxPended
          /\ uxPendedTicks' = uxPendedTicks + 1
          /\ UNCHANGED <<timeVars, listVars, notifyVars, uxSchedulerSuspended, xYieldPending,
                         cpuVars, callVars, restVars>>

\* xTaskResumeAll replays a tick that came while the scheduler was suspended.
ResumeAll_ReplayTick ==
  /\ mode = "resume"
  /\ IsEmpty(eventLists[PendingReadyList])
  /\ uxPendedTicks > 0
  /\ IncrementTick("replay", "resume")
  /\ uxPendedTicks' = uxPendedTicks - 1

Unblocking == mode \in {"tick", "replay"}

DueTask == HeadOwner(stateLists[Current])
\* Mutant: a task due now is left for the next tick.
SomeTaskDue_TooLate ==
  /\ ~IsEmpty(stateLists[Current])
  /\ xTickCount > xItemValue[DueTask]

SomeTaskDue ==
  /\ ~IsEmpty(stateLists[Current])
  /\ xTickCount >= xItemValue[DueTask]

IncrementTick_Unblock ==
  /\ Unblocking
  /\ SomeTaskDue
  /\ MoveToReady(DueTask)
  /\ eventLists' = UnlinkIfLinked(eventLists, DueTask)
  /\ UNCHANGED <<timeVars, notifyVars, schedVars, cpuVars, callVars, restVars>>

IncrementTick_Leave ==
  /\ Unblocking
  /\ ~SomeTaskDue
  /\ xNextTaskUnblockTime' = EarliestWake(stateLists[Current])
  /\ mode' = IF mode = "tick" THEN "open" ELSE "resume"
  /\ UNCHANGED <<xTickCount, pxDelayedTaskList, xItemValue, listVars, notifyVars, schedVars,
                 pxCurrentTCB, pendSV, callVars, restVars>>
-----------------------------------------------------------------------------
(* The context switch *)

\* PendSV: vTaskSwitchContext with taskSELECT_HIGHEST_PRIORITY_TASK.
vTaskSwitchContext ==
  LET top == ReadyList(Max(uxTopReadyPriority))
      ready == AdvanceIndex(stateLists[top])
  IN  /\ Interruptible /\ pendSV
      /\ IF uxSchedulerSuspended # 0
         THEN /\ pendSV' = FALSE /\ xYieldPending' = TRUE
              /\ UNCHANGED <<stateLists, pxCurrentTCB, mode, failedAssert>>
         ELSE IF IsEmpty(stateLists[top])
         THEN /\ mode' = "halted" /\ failedAssert' = "no task in the top ready list"
              /\ UNCHANGED <<stateLists, pxCurrentTCB, pendSV, xYieldPending>>
         ELSE /\ pendSV' = FALSE /\ xYieldPending' = FALSE
              /\ stateLists' = [stateLists EXCEPT ![top] = ready]
              /\ pxCurrentTCB' = IndexOwner(ready)
              /\ UNCHANGED <<mode, failedAssert>>
      /\ UNCHANGED <<timeVars, eventLists, uxTopReadyPriority, notifyVars, uxPendedTicks,
                     uxSchedulerSuspended, callVars, xSchedulerRunning, uxPriority,
                     suspendCalls>>
-----------------------------------------------------------------------------
(* Suspending, resuming and re-prioritising tasks *)

\* The first critical section of vTaskSuspend.
vTaskSuspend(t, target) ==
  LET left == Unlink(stateLists, target)
  IN  /\ Calling(t, "vTaskSuspend")
      /\ IsLinked(stateLists, target)
      /\ target = t => MayBlock
      /\ stateLists' = LinkEnd(left, SuspendedList, target)
      /\ uxTopReadyPriority' = ResetReadyPriority(left, uxPriority[target])
      /\ eventLists' = UnlinkIfLinked(eventLists, target)
      /\ suspendCalls' = suspendCalls \cup {target}
      /\ Goto(t, IF target = t THEN "suspendedSelf" ELSE "suspendedOther")
      /\ UNCHANGED <<timeVars, notifyVars, schedVars, cpuVars, arg, pxPreviousWakeTime,
                     xSchedulerRunning, uxPriority, failedAssert>>

\* Its second one, and the yield of a task that suspended itself.
Suspend_ResetUnblockTime(t) ==
  /\ \/ Executes(t, "suspendedOther") /\ UNCHANGED pendSV
     \/ Executes(t, "suspendedSelf") /\ pendSV' = TRUE
  /\ Goto(t, "run")
  /\ xNextTaskUnblockTime' = EarliestWake(stateLists[Current])
  /\ UNCHANGED <<xTickCount, pxDelayedTaskList, xItemValue, listVars, notifyVars, schedVars,
                 pxCurrentTCB, mode, arg, pxPreviousWakeTime, restVars>>

\* prvTaskIsTaskSuspended
TaskIsSuspended(t) == IsIn(stateLists, SuspendedList, t) /\ ~IsLinked(eventLists, t)

vTaskResume(t, target) ==
  /\ Calling(t, "vTaskResume")
  /\ target # pxCurrentTCB
  /\ TaskIsSuspended(target)
  /\ MoveToReady(target)
  /\ suspendCalls' = suspendCalls \ {target}
  /\ UNCHANGED <<timeVars, eventLists, notifyVars, schedVars, cpuVars, callVars,
                 xSchedulerRunning, uxPriority, failedAssert>>

\* An interrupt handler that woke a task may ask for a switch on its way out.
MayRequestSwitch(woken) == pendSV' \in {pendSV, pendSV \/ woken}

xTaskResumeFromISR(target) ==
  /\ "xTaskResumeFromISR" \in Calls /\ Interruptible
  /\ TaskIsSuspended(target)
  /\ suspendCalls' = suspendCalls \ {target}
  /\ IF uxSchedulerSuspended = 0
     THEN /\ MoveToReady(target)
          /\ MayRequestSwitch(uxPriority[target] >= uxPriority[pxCurrentTCB])
          /\ UNCHANGED eventLists
     ELSE /\ eventLists' = LinkEnd(eventLists, PendingReadyList, target)
          /\ UNCHANGED <<stateLists, uxTopReadyPriority, pendSV>>
  /\ UNCHANGED <<timeVars, notifyVars, schedVars, pxCurrentTCB, mode, callVars,
                 xSchedulerRunning, uxPriority, failedAssert>>

vTaskPrioritySet(t, target, uxNewPriority) ==
  LET old == uxPriority[target]
      left == Unlink(stateLists, target)
      top == IF IsEmpty(left[ReadyList(old)]) THEN uxTopReadyPriority \ {old}
             ELSE uxTopReadyPriority
  IN  /\ Calling(t, "vTaskPrioritySet")
      /\ IsLinked(stateLists, target)
      /\ uxNewPriority # old
      /\ uxPriority' = [uxPriority EXCEPT ![target] = uxNewPriority]
      /\ IF IsIn(stateLists, ReadyList(old), target)
         THEN /\ stateLists' = LinkEnd(left, ReadyList(uxNewPriority), target)
              /\ uxTopReadyPriority' = top \cup {uxNewPriority}
         ELSE UNCHANGED <<stateLists, uxTopReadyPriority>>
      /\ UNCHANGED <<timeVars, eventLists, notifyVars, schedVars, cpuVars, callVars,
                     xSchedulerRunning, failedAssert, suspendCalls>>
-----------------------------------------------------------------------------
(* Notifications.  Of a notification's value only whether it is zero steers *)
(* the kernel.                                                              *)

NotifiedValues == {"zero", "nonzero"}
NotifyActions ==
  [eAction : {"eSetBits", "eSetValueWithOverwrite", "eSetValueWithoutOverwrite"},
   ulValue : NotifiedValues]
  \cup [eAction : {"eIncrement", "eNoAction"}, ulValue : {"zero"}]

\* The values ulNotifiedValue can have after a notification (an increment of
\* the greatest value gives zero).
NotifiedAfter(t, n) ==
  CASE n.eAction = "eSetBits" ->
         {IF n.ulValue = "zero" THEN ulNotifiedValue[t] ELSE "nonzero"}
    [] n.eAction = "eIncrement" ->
         IF ulNotifiedValue[t] = "zero" THEN {"nonzero"} ELSE NotifiedValues
    [] n.eAction = "eSetValueWithOverwrite" -> {n.ulValue}
    [] n.eAction = "eSetValueWithoutOverwrite" ->
         {IF ucNotifyState[t] = "received" THEN ulNotifiedValue[t] ELSE n.ulValue}
    [] n.eAction = "eNoAction" -> {ulNotifiedValue[t]}

\* Mutant: the task stays marked as waiting.
Receive_StillWaiting(t, n) ==
  /\ UNCHANGED ucNotifyState
  /\ \E v \in NotifiedAfter(t, n) : ulNotifiedValue' = [ulNotifiedValue EXCEPT ![t] = v]

Receive(t, n) ==
  /\ ucNotifyState' = [ucNotifyState EXCEPT ![t] = "received"]
  /\ \E v \in NotifiedAfter(t, n) : ulNotifiedValue' = [ulNotifiedValue EXCEPT ![t] = v]

\* The first critical section of ulTaskNotifyTake and of xTaskNotifyWait: the
\* task blocks when it must wait and gave a block time.  (The mutant does not
\* record that it waits.)
WaitForNotification_StateNotSet(t, ticks, next) ==
  /\ UNCHANGED ucNotifyState
  /\ IF ticks > 0
     THEN AddCurrentTaskToDelayedList(t, ticks, TRUE) /\ pendSV' = TRUE
     ELSE UNCHANGED <<timeVars, stateLists, uxTopReadyPriority, pendSV>>
  /\ Goto(t, next)
  /\ UNCHANGED <<eventLists, schedVars, pxCurrentTCB, mode, arg, pxPreviousWakeTime, restVars>>

WaitForNotification(t, ticks, next) ==
  /\ ucNotifyState' = [ucNotifyState EXCEPT ![t] = "waiting"]
  /\ IF ticks > 0
     THEN AddCurrentTaskToDelayedList(t, ticks, TRUE) /\ pendSV' = TRUE
     ELSE UNCHANGED <<timeVars, stateLists, uxTopReadyPriority, pendSV>>
  /\ Goto(t, next)
  /\ UNCHANGED <<eventLists, schedVars, pxCurrentTCB, mode, arg, pxPreviousWakeTime, restVars>>

NotifyWaits == {0, MaxDelay} \cup Delays

ulTaskNotifyTake(t) ==
  /\ Calling(t, "ulTaskNotifyTake")
  /\ MayBlock
  /\ \/ /\ ulNotifiedValue[t] = "zero"
        /\ \E ticks \in NotifyWaits : WaitForNotification(t, ticks, "notifyTake")
        /\ UNCHANGED ulNotifiedValue
     \/ /\ ulNotifiedValue[t] # "zero"
        /\ Goto(t, "notifyTake")
        /\ UNCHANGED <<timeVars, listVars, notifyVars, schedVars, cpuVars, arg,
                       pxPreviousWakeTime, restVars>>

xTaskNotifyWait(t) ==
  /\ Calling(t, "xTaskNotifyWait")
  /\ MayBlock
  /\ \/ /\ ucNotifyState[t] # "received"
        /\ \E ticks \in NotifyWaits : WaitForNotification(t, ticks, "notifyWait")
        /\ \E v \in {"zero", ulNotifiedValue[t]} :
             ulNotifiedValue' = [ulNotifiedValue EXCEPT ![t] = v]
     \/ /\ ucNotifyState[t] = "received"
        /\ Goto(t, "notifyWait")
        /\ UNCHANGED <<timeVars, listVars, notifyVars, schedVars, cpuVars, arg,
                       pxPreviousWakeTime, restVars>>

\* Their second critical section.  A take of a nonzero value clears it or
\* counts it down; a wait clears some bits when it was notified.
Notify_Return(t) ==
  /\ \/ Executes(t, "notifyTake") /\ ulNotifiedValue[t] = "zero" /\ UNCHANGED ulNotifiedValue
     \/ /\ Executes(t, "notifyTake") /\ ulNotifiedValue[t] = "nonzero"
        /\ \E v \in NotifiedValues : ulNotifiedValue' = [ulNotifiedValue EXCEPT ![t] = v]
     \/ Executes(t, "notifyWait") /\ ucNotifyState[t] = "waiting" /\ UNCHANGED ulNotifiedValue
     \/ /\ Executes(t, "notifyWait") /\ ucNotifyState[t] # "waiting"
        /\ \E v \in {"zero", ulNotifiedValue[t]} :
             ulNotifiedValue' = [ulNotifiedValue EXCEPT ![t] = v]
  /\ ucNotifyState' = [ucNotifyState EXCEPT ![t] = "notWaiting"]
  /\ Goto(t, "run")
  /\ UNCHANGED <<timeVars, listVars, schedVars, cpuVars, arg, pxPreviousWakeTime, restVars>>

\* xTaskGenericNotify
xTaskNotify(t, target) ==
  /\ Calling(t, "xTaskNotify")
  /\ IsLinked(stateLists, target)
  /\ IF ucNotifyState[target] # "waiting"
     THEN /\ \E n \in NotifyActions : Receive(target, n)
          /\ UNCHANGED <<timeVars, listVars, mode, failedAssert>>
     ELSE IF IsLinked(eventLists, target)
     THEN /\ mode' = "halted" /\ failedAssert' = "event list item in use"
          /\ UNCHANGED <<timeVars, listVars, notifyVars>>
     ELSE /\ \E n \in NotifyActions : Receive(target, n)
          /\ MoveToReady(target)
          /\ xNextTaskUnblockTime' = EarliestWake(stateLists'[Current])
          /\ UNCHANGED <<xTickCount, pxDelayedTaskList, xItemValue, eventLists, mode,
                         failedAssert>>
  /\ UNCHANGED <<schedVars, pxCurrentTCB, pendSV, callVars, xSchedulerRunning, uxPriority,
                 suspendCalls>>

\* xTaskGenericNotifyFromISR and vTaskNotifyGiveFromISR.  The handler passes
\* pxHigherPriorityTaskWoken, or NULL and leaves the yield to the kernel.
xTaskNotifyFromISR(target) ==
  LET higher == uxPriority[target] > uxPriority[pxCurrentTCB]
  IN  /\ "xTaskNotifyFromISR" \in Calls /\ Interruptible
      /\ IsLinked(stateLists, target)
      /\ IF ucNotifyState[target] # "waiting"
         THEN /\ \E n \in NotifyActions : Receive(target, n)
              /\ UNCHANGED <<listVars, xYieldPending, pendSV, mode, failedAssert>>
         ELSE IF IsLinked(eventLists, target)
         THEN /\ mode' = "halted" /\ failedAssert' = "event list item in use"
              /\ UNCHANGED <<listVars, notifyVars, xYieldPending, pendSV>>
         ELSE /\ \E n \in NotifyActions : Receive(target, n)
              /\ IF uxSchedulerSuspended = 0
                 THEN MoveToReady(target) /\ UNCHANGED eventLists
                 ELSE /\ eventLists' = LinkEnd(eventLists, PendingReadyList, target)
                      /\ UNCHANGED <<stateLists, uxTopReadyPriority>>
              /\ \/ MayRequestSwitch(higher) /\ UNCHANGED xYieldPending
                 \/ xYieldPending' = (xYieldPending \/ higher) /\ UNCHANGED pendSV
              /\ UNCHANGED <<mode, failedAssert>>
      /\ UNCHANGED <<timeVars, uxPendedTicks, uxSchedulerSuspended, pxCurrentTCB, callVars,
                     xSchedulerRunning, uxPriority, suspendCalls>>

xTaskNotifyStateClear(t, target) ==
  /\ Calling(t, "xTaskNotifyStateClear")
  /\ ucNotifyState[target] = "received"
  /\ ucNotifyState' = [ucNotifyState EXCEPT ![target] = "notWaiting"]
  /\ UNCHANGED <<timeVars, listVars, ulNotifiedValue, schedVars, cpuVars, callVars, restVars>>
-----------------------------------------------------------------------------
(* Event lists, as queues and semaphores use them *)

\* A call that waits for an event: it suspends the scheduler, then
\* vTaskPlaceOnEventList and prvAddCurrentTaskToDelayedList.
BlockOnEvent(t) ==
  \E ticks \in Delays \cup {MaxDelay} :
    BeginBlocking(t, "vTaskPlaceOnEventList", ticks, "placeOnEventList")

vTaskPlaceOnEventList(t) ==
  /\ Executes(t, "placeOnEventList")
  /\ eventLists' = LinkByValue(eventLists, EventList, EventItemValue, t, EventItemValue[t])
  /\ AddCurrentTaskToDelayedList(t, arg[t], TRUE)
  /\ Goto(t, "resumeAll") /\ SetArg(t, 0)
  /\ UNCHANGED <<notifyVars, schedVars, cpuVars, pxPreviousWakeTime, restVars>>

\* Called by a task in a critical section, or by an interrupt handler, when the
\* list is not empty.
xTaskRemoveFromEventList ==
  LET t == HeadOwner(eventLists[EventList])
      left == Unlink(eventLists, t)
  IN  /\ "xTaskRemoveFromEventList" \in Calls /\ Interruptible
      /\ ~IsEmpty(eventLists[EventList])
      /\ IF uxSchedulerSuspended = 0
         THEN MoveToReady(t) /\ eventLists' = left
         ELSE /\ eventLists' = LinkEnd(left, PendingReadyList, t)
              /\ UNCHANGED <<stateLists, uxTopReadyPriority>>
      /\ LET higher == uxPriority[t] > uxPriority[pxCurrentTCB]
         IN  xYieldPending' = (xYieldPending \/ higher) /\ MayRequestSwitch(higher)
      /\ xNextTaskUnblockTime' = EarliestWake(stateLists'[Current])
      /\ UNCHANGED <<xTickCount, pxDelayedTaskList, xItemValue, notifyVars, uxPendedTicks,
                     uxSchedulerSuspended, pxCurrentTCB, mode, callVars, restVars>>
-----------------------------------------------------------------------------
(* The idle task and tickless sleep *)

Idle_Yield ==
  /\ Executes(Idle, "idle")
  /\ pendSV' = TRUE
  /\ Goto(Idle, "idleSample")
  /\ UNCHANGED <<timeVars, listVars, notifyVars, schedVars, pxCurrentTCB, mode, arg,
                 pxPreviousWakeTime, restVars>>

\* prvGetExpectedIdleTime: a task other than idle could run.
\* (The mutant does not look at the bitmap.)
OthersReady_SamePriority == Len(stateLists[ReadyList(0)].items) > 1

OthersReady ==
  \/ \E p \in uxTopReadyPriority : p > 0
  \/ uxPriority[pxCurrentTCB] > 0
  \/ Len(stateLists[ReadyList(0)].items) > 1

\* Its first call is outside any critical section: the tick may come between
\* the read of xNextTaskUnblockTime and that of xTickCount.
Idle_SampleUnblockTime ==
  /\ Executes(Idle, "idleSample")
  /\ IF OthersReady
     THEN Goto(Idle, "idle") /\ UNCHANGED arg
     ELSE Goto(Idle, "idleSubtract") /\ SetArg(Idle, xNextTaskUnblockTime)
  /\ UNCHANGED <<timeVars, listVars, notifyVars, schedVars, cpuVars, pxPreviousWakeTime,
                 restVars>>

Idle_SuspendAll ==
  /\ Executes(Idle, "idleSubtract")
  /\ SetArg(Idle, 0)
  /\ IF (arg[Idle] - xTickCount) % (MaxDelay + 1) >= IdleThreshold
     THEN Goto(Idle, "idleConfirm") /\ uxSchedulerSuspended' = uxSchedulerSuspended + 1
     ELSE Goto(Idle, "idle") /\ UNCHANGED uxSchedulerSuspended
  /\ UNCHANGED <<timeVars, listVars, notifyVars, uxPendedTicks, xYieldPending, cpuVars,
                 pxPreviousWakeTime, restVars>>

\* With the scheduler suspended the expected idle time is sampled again.
Idle_ConfirmIdleTime ==
  LET xExpectedIdleTime == IF OthersReady THEN 0 ELSE xNextTaskUnblockTime - xTickCount
  IN  /\ Executes(Idle, "idleConfirm")
      /\ IF xNextTaskUnblockTime < xTickCount
         THEN AssertFails("unblock time has passed") /\ UNCHANGED uxPendedTicks
         ELSE /\ IF xExpectedIdleTime >= IdleThreshold
                 THEN Goto(Idle, "idleSleep") /\ SetArg(Idle, xExpectedIdleTime)
                 ELSE Goto(Idle, "idleResumeAll") /\ UNCHANGED arg
              /\ UNCHANGED <<timeVars, listVars, notifyVars, schedVars, cpuVars,
                             pxPreviousWakeTime, restVars>>

\* vApplicationSleep has disabled interrupts and asks whether to sleep.
eTaskConfirmSleepModeStatus ==
  IF ~IsEmpty(eventLists[PendingReadyList]) \/ xYieldPending
  THEN "eAbortSleep" ELSE "eStandardSleep"

Idle_Sleep ==
  /\ Executes(Idle, "idleSleep")
  /\ IF eTaskConfirmSleepModeStatus = "eAbortSleep"
     THEN Goto(Idle, "idleResumeAll") /\ SetArg(Idle, 0)
     ELSE Goto(Idle, "asleep") /\ UNCHANGED arg
  /\ UNCHANGED <<timeVars, listVars, notifyVars, schedVars, cpuVars, pxPreviousWakeTime,
                 restVars>>

\* Any interrupt ends the sleep; vTaskStepTick is told the ticks that passed.
vTaskStepTick ==
  /\ Executes(Idle, "asleep")
  /\ \E xTicksToJump \in 0 .. arg[Idle] - SleepMargin :
       IF xTickCount + xTicksToJump > xNextTaskUnblockTime
       THEN AssertFails("stepped over the unblock time") /\ UNCHANGED uxPendedTicks
       ELSE /\ xTickCount' = xTickCount + xTicksToJump
            /\ Goto(Idle, "idleResumeAll") /\ SetArg(Idle, 0)
            /\ UNCHANGED <<xNextTaskUnblockTime, pxDelayedTaskList, xItemValue, listVars,
                           notifyVars, schedVars, cpuVars, pxPreviousWakeTime, restVars>>
-----------------------------------------------------------------------------
InterruptHandler ==
  \/ Tick
  \/ xTaskRemoveFromEventList
  \/ \E target \in Tasks : xTaskResumeFromISR(target) \/ xTaskNotifyFromISR(target)

MaskedLoop ==
  \/ ResumeAll_MovePending \/ ResumeAll_ReplayTick \/ ResumeAll_Leave
  \/ IncrementTick_Unblock \/ IncrementTick_Leave

IdleTask ==
  \/ Idle_Yield \/ Idle_SampleUnblockTime \/ Idle_SuspendAll \/ Idle_ConfirmIdleTime
  \/ Idle_Sleep \/ vTaskStepTick \/ xTaskResumeAll(Idle)

\* The steps that finish a call t is in.
CallInProgress(t) ==
  \/ Delay_AddToList(t) \/ DelayUntil_AddToList(t) \/ vTaskPlaceOnEventList(t)
  \/ Suspend_ResetUnblockTime(t) \/ Notify_Return(t)
  \/ xTaskResumeAll(t) \/ Yield(t)

CallOn(t, target) ==
  \/ xTaskCreate(t, target) \/ vTaskSuspend(t, target) \/ vTaskResume(t, target)
  \/ xTaskNotify(t, target) \/ xTaskNotifyStateClear(t, target)
  \/ \E p \in Priorities : vTaskPrioritySet(t, target, p)

NewCall(t) ==
  \/ vTaskDelay(t) \/ vTaskDelayUntil(t) \/ xTaskGetTickCount(t) \/ vTaskSuspendAll(t)
  \/ ulTaskNotifyTake(t) \/ xTaskNotifyWait(t) \/ BlockOnEvent(t)
  \/ \E target \in Tasks : CallOn(t, target)

Next ==
  \/ \E t \in Tasks : CreateBeforeStart(t) \/ CallInProgress(t) \/ NewCall(t)
  \/ vTaskStartScheduler
  \/ IdleTask \/ MaskedLoop \/ InterruptHandler \/ vTaskSwitchContext

Spec == Init /\ [][Next]_vars
-----------------------------------------------------------------------------
(* Properties *)

Modes == {"open", "resume", "tick", "replay", "halted"}
CallPoints ==
  {"none", "run", "delay", "delayUntil", "placeOnEventList", "resumeAll", "yield",
   "suspendedSelf", "suspendedOther", "notifyTake", "notifyWait", "idle", "idleSample",
   "idleSubtract", "idleConfirm", "idleSleep", "asleep", "idleResumeAll"}

\* Every variable has the type the kernel declares it with.
TypeOK ==
  /\ xSchedulerRunning \in BOOLEAN
  /\ xTickCount \in Ticks /\ xNextTaskUnblockTime \in Ticks
  /\ uxPendedTicks \in 0 .. MaxPended
  /\ uxSchedulerSuspended \in Nat
  /\ xYieldPending \in BOOLEAN
  /\ uxTopReadyPriority \subseteq Priorities
  /\ pxCurrentTCB \in AllTasks \cup {NoTask}
  /\ pxDelayedTaskList \in {1, 2}
  /\ stateLists \in [StateListNames -> ListOf(AllTasks)]
  /\ eventLists \in [EventListNames -> ListOf(AllTasks)]
  /\ xItemValue \in [AllTasks -> Ticks]
  /\ uxPriority \in [AllTasks -> Priorities]
  /\ ucNotifyState \in [AllTasks -> {"notWaiting", "waiting", "received"}]
  /\ ulNotifiedValue \in [AllTasks -> NotifiedValues]
  /\ pxPreviousWakeTime \in [AllTasks -> Ticks]
  /\ pc \in [AllTasks -> CallPoints]
  /\ arg \in [AllTasks -> Ticks]
  /\ mode \in Modes
  /\ pendSV \in BOOLEAN
  /\ suspendCalls \subseteq AllTasks

IsReady(t) == \E p \in Priorities : IsIn(stateLists, ReadyList(p), t)
IsDelayed(t) == IsIn(stateLists, Current, t) \/ IsIn(stateLists, Overflow, t)
IsBlocked(t) == IsDelayed(t) \/ IsIn(stateLists, SuspendedList, t)

\* A task's state item is in exactly one list from its creation on, and its
\* event item in at most one: no call or interrupt links an item that is still
\* linked elsewhere or loses it (every caller of uxListRemove and vListInsertEnd).
OneListPerItem ==
  \A t \in AllTasks :
    /\ IsLinked(stateLists, t) <=> pc[t] # "none"
    /\ \A m, n \in StateListNames :
         IsIn(stateLists, m, t) /\ IsIn(stateLists, n, t) => m = n
    /\ \A m, n \in EventListNames :
         IsIn(eventLists, m, t) /\ IsIn(eventLists, n, t) => m = n

\* A ready task is in the ready list of the priority it has now, so that the
\* callers that look for it there find it (vTaskPrioritySet moves it).
ReadyAtOwnPriority ==
  \A t \in AllTasks, p \in Priorities :
    IsIn(stateLists, ReadyList(p), t) => p = uxPriority[t]

\* The bitmap uxTopReadyPriority, set and reset at a dozen places, has exactly
\* the bits of the ready lists that are not empty: the selection of the next
\* task reads nothing else.
TopReadyPriorityExact ==
  uxTopReadyPriority = {p \in Priorities : ~IsEmpty(stateLists[ReadyList(p)])}

\* Whenever tasks run, no task in the delayed list is past its wake time, and
\* the tasks in the overflow list wake only after the count has wrapped.
NoTaskOverdue ==
  mode = "open" =>
    \A t \in AllTasks :
      /\ IsIn(stateLists, Current, t) => xTickCount + SleepMargin <= xItemValue[t]
      /\ IsIn(stateLists, Overflow, t) => xItemValue[t] < xTickCount

\* What interrupts left behind while the scheduler was suspended is dealt with
\* before tasks run again: no readied task waits in xPendingReadyList and no
\* tick in uxPendedTicks.
NothingPendingWhenRunning ==
  uxSchedulerSuspended = 0 /\ mode = "open" =>
    IsEmpty(eventLists[PendingReadyList]) /\ uxPendedTicks = 0

\* A task that is blocked on its notification is still waiting for one: a
\* notification that arrives between the test of the value and the block, or
\* while the scheduler is suspended, has taken it out of the blocked lists.
NotificationNotLost ==
  \A t \in Tasks :
    /\ pc[t] \in {"notifyTake", "notifyWait"}
    /\ IsBlocked(t) /\ t \notin suspendCalls /\ ~IsLinked(eventLists, t)
    => /\ ucNotifyState[t] = "waiting"
       /\ pc[t] = "notifyTake" => ulNotifiedValue[t] = "zero"

\* The processor sleeps only while no task but the idle task is ready, and not
\* for longer than until the next timeout.
SleepsOnlyWhenIdle ==
  pc[Idle] = "asleep" =>
    /\ \A t \in Tasks : ~IsReady(t)
    /\ xTickCount + arg[Idle] <= xNextTaskUnblockTime

\* No configASSERT of the scheduler fails.
NoAssertFails == failedAssert = "none"

\* The points of a call at which the scheduler is suspended by that call.
HoldingPoints ==
  {"delay", "delayUntil", "placeOnEventList", "resumeAll", "idleConfirm", "idleSleep",
   "asleep", "idleResumeAll"}
NotifyPoints == {"notifyTake", "notifyWait"}

\* From the start of the scheduler some task is current and the idle task is ready.
Started ==
  IF xSchedulerRunning THEN pxCurrentTCB \in AllTasks /\ IsReady(Idle)
  ELSE uxSchedulerSuspended = 0

\* Only the current task is inside a call that suspended the scheduler.
SchedulerHeld ==
  /\ \A t \in AllTasks : pc[t] \in HoldingPoints => pxCurrentTCB = t /\ uxSchedulerSuspended = 1
  /\ uxSchedulerSuspended # 0 => pc[pxCurrentTCB] \in HoldingPoints \cup {"run", "suspendedOther"}

\* The current task is ready unless it has just blocked and the switch is due.
CurrentReady ==
  /\ pxCurrentTCB # NoTask
  /\ pc[pxCurrentTCB] \notin {"resumeAll", "yield", "suspendedSelf"}
  /\ ~pendSV \/ uxSchedulerSuspended # 0
  => IsReady(pxCurrentTCB)

\* A linked event item belongs to a task that is blocked, or is about to return
\* from a wait for a notification that ended while the scheduler was suspended.
EventItemsOfBlocked ==
  \A t \in AllTasks :
    /\ IsIn(eventLists, EventList, t) => IsBlocked(t)
    /\ IsIn(eventLists, PendingReadyList, t) => IsBlocked(t) \/ pc[t] \in NotifyPoints

\* Only a task inside a wait for a notification is marked as waiting for one.
WaitersInNotifyCalls ==
  \A t \in AllTasks : ucNotifyState[t] = "waiting" => pc[t] \in NotifyPoints

\* Ticks and readied tasks are held back only while the scheduler is suspended
\* or xTaskResumeAll deals with them.
HeldBackOnlyWhileSuspended ==
  uxSchedulerSuspended = 0 /\ mode \in {"open", "tick"} =>
    IsEmpty(eventLists[PendingReadyList]) /\ uxPendedTicks = 0

\* The inductive invariant: what the code between two critical sections relies
\* on, from the calls in progress to the lists and the bitmap.
IInv ==
  /\ TypeOK /\ OneListPerItem /\ ReadyAtOwnPriority /\ TopReadyPriorityExact
  /\ Started /\ SchedulerHeld /\ CurrentReady
  /\ EventItemsOfBlocked /\ WaitersInNotifyCalls /\ HeldBackOnlyWhileSuspended

\* The ticks a delayed task has still to wait.
Remaining(t) ==
  IF IsIn(stateLists, Current, t) THEN xItemValue[t] - xTickCount
  ELSE xItemValue[t] + MaxDelay + 1 - xTickCount

\* The time a delayed task has left goes down by one with every tick and with
\* nothing else: neither the wrap of the count, with its exchange of the two
\* lists, nor a step of several ticks after a sleep shifts its wake time.
TimeoutsKeepTime ==
  [][\A t \in Tasks : IsDelayed(t) /\ IsDelayed(t)' =>
       Remaining(t)' = Remaining(t) - ((xTickCount' - xTickCount) % (MaxDelay + 1))]_vars

\* vTaskDelayUntil moves the previous wake time on by exactly one period, and
\* blocks until then if and only if less than a period has passed since the
\* previous one, however the count wrapped in between.
PeriodKept ==
  [][\A t \in Tasks :
       LET late == (xTickCount - pxPreviousWakeTime[t]) % (MaxDelay + 1)
       IN  pc[t] = "delayUntil" /\ pc[t]' # "delayUntil" =>
             /\ pxPreviousWakeTime[t]' = (pxPreviousWakeTime[t] + arg[t]) % (MaxDelay + 1)
             /\ IsDelayed(t)' <=> late < arg[t]
             /\ IsDelayed(t)' => Remaining(t)' = arg[t] - late]_vars

\* The tasks that an event or a notification may end the wait of: the event item
\* is linked, or the task is marked as waiting for a notification.
Waiting ==
  {t \in AllTasks : (IsLinked(eventLists, t) \/ ucNotifyState[t] = "waiting") /\ IsBlocked(t)}

StateOf(t) ==
  IF IsReady(t) THEN "ready"
  ELSE IF IsDelayed(t) THEN "delayed"
  ELSE IF IsBlocked(t) THEN "blocked" ELSE "none"

LeftOf(t) == IF IsDelayed(t) THEN Remaining(t) ELSE 0

Abstract == INSTANCE Scheduler WITH
  started <- xSchedulerRunning,
  state <- [t \in AllTasks |-> StateOf(t)],
  left <- [t \in AllTasks |-> LeftOf(t)],
  waiting <- Waiting,
  priority <- uxPriority,
  running <- pxCurrentTCB

\* All that tasks.c does with lists, bitmap, counts and flags is a scheduler in
\* which ready tasks run by priority and waits end when they are due or for a
\* reason, whatever interrupts come between the steps of its calls.
IsScheduler == Abstract!Spec

\* After a context switch no ready task has a higher priority than the one that
\* runs.
SwitchToHighest ==
  [][pendSV /\ ~pendSV' /\ uxSchedulerSuspended = 0 =>
       \A t \in AllTasks : IsReady(t) => uxPriority[t] <= uxPriority[pxCurrentTCB']]_vars

\* A task that vTaskSuspend suspended gets no processor time before it is resumed.
SuspendedNeverRuns ==
  [][pxCurrentTCB' # pxCurrentTCB => pxCurrentTCB' \notin suspendCalls]_vars
-----------------------------------------------------------------------------
(* Liveness.  The processor has time between two interrupts (strong         *)
(* fairness of the steps they can preempt), the timer keeps ticking, and,   *)
(* since scheduling is cooperative, every task delays or yields in the end. *)

FairSpec ==
  /\ Spec
  /\ WF_vars(vTaskStartScheduler) /\ WF_vars(MaskedLoop)
  /\ SF_vars(vTaskSwitchContext) /\ SF_vars(IdleTask) /\ SF_vars(Tick)
  /\ \A t \in Tasks :
       SF_vars(CallInProgress(t)) /\ SF_vars(vTaskDelay(t) \/ Yield(t))

IsTopReady(t) == IsReady(t) /\ \A u \in AllTasks : IsReady(u) => uxPriority[u] <= uxPriority[t]

\* Round robin: a ready task that no ready task outranks gets the processor,
\* however the others come and go in its ready list.
ReadyTaskRuns ==
  \A t \in Tasks : IsTopReady(t) ~> (pxCurrentTCB = t \/ ~IsTopReady(t))

\* Every delay ends.
DelayedTaskWakes == \A t \in Tasks : IsDelayed(t) ~> IsReady(t)
=============================================================================
