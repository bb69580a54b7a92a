# A TLA+ model of LowPower-FreeRTOS on the mbed LPC1768

The repository runs FreeRTOS V9 on an LPC1768 and adds to it a tick on TIMER1 instead
of SysTick, a tickless sleep of its own, and voltage and frequency scaling by the load
of the tasks. The kernel is built as `freertos-cm3/FreeRTOSConfig.h` says: cooperative
(`configUSE_PREEMPTION 0`), tickless (`configUSE_TICKLESS_IDLE 2`), five priorities,
`heap_1`, no software timers. The models are of that build.

## The system

| Component | State | Operations | Hard behaviour | What makes it correct |
|---|---|---|---|---|
| Scheduler, `tasks.c` | ready, delayed, overflow, suspended, pending lists; ready bitmap; tick count; next unblock time; pended ticks; notification state | create, delay, delay until, suspend, resume, priority, notify, event lists, suspend and resume all, tick, switch, idle | interrupts between critical sections, the tick count's wrap, calls while the scheduler is suspended | lists and bitmap agree; no task lost, forgotten or late; no notification lost |
| Lists, `list.c` | items in order, `pxIndex` | initialise, insert, insert at end, remove, next owner | removal of the item `pxIndex` points at | an owner is linked once, the others stay |
| Tick on TIMER1 and tickless sleep, `LPC1768_LOW_POWER_TICK_MANAGEMENT.c` 123-465 | TC, MR0, TCR, PR; tick flag; frequency-changed flag | tick handler, sleep, change of frequency | the counter and interrupts run on between the statements of the sleep | the kernel's time follows the counter; every sleep ends |
| Masking, `port.c`, `portmacro.h` | BASEPRI, critical nesting | enter and exit critical, switch, replay of pended ticks | the tick's priority | critical sections are not interrupted; no tick lost |
| Voltage and frequency scaling, same file 476-783 | deadlines, cycles allocated and left, level | static and cycle-conserving selection, task ready, task complete | rounding, deadlines that have passed, jobs that are not preempted | the level suffices; deadlines |
| Queues and semaphores, `queue.c` | ring storage, counts, lock counts, two waiting lists | send, receive, peek, overwrite, reset, from tasks and interrupts | posts to a locked queue; woken tasks that lose the race | first in, first out; no waiter beside a message |
| Mutexes, `queue.c`, `tasks.c` 3715-3990 | holder, counts of recursion and of mutexes held, base and inherited priority, waiting lists | take, give, recursive take and give, inherit, disinherit, against timeouts, suspensions, changes of priority | gives in another order than the takes; a holder that is ready, delayed, suspended or waits itself | the holder is not outranked by a waiter; its own priority comes back; no waiter beside a free mutex |
| Event groups, `event_groups.c` | bits, waiting list, event item values | set, clear, wait, sync | timeout against set; the item value used for two ends | no waiter beside its bits; a released task has its bits |
| Heap, `heap_1.c` | next free byte | allocate | alignment, exhaustion, `vPortFree` asserts | blocks disjoint and aligned |
| Real-time clock, `RTC`, `LPC1768_RTC` | callbacks, CIIR, AMR, ILR | attach, detach, handler, read the time | interrupt during the handler; rollover during a read | callbacks called once per event |
| Boot and application, `main.cpp` | reset source, NVIC, arrays of the setup | reset sequence, two tasks | | |

Tasks, interrupts and the idle task meet in the scheduler's lists. Queues and event
groups block their callers through the scheduler's event lists and are called with the
scheduler suspended or in critical sections. The idle task suspends the scheduler and
calls the sleep; the tick handler calls the scheduler, and the sleep gives it the ticks
that were suppressed (`vTaskStepTick`). Frequency scaling changes the clock and leaves a
flag by which the next tick adapts the prescaler. PROJECT.json lists the hazards, each
at its line.

## The modules

`Lists` gives list.c's operations as operators on values: the owners in the order of the
`pxNext` pointers and the place of `pxIndex`. The other kernel modules extend it.

`Tasks` is the scheduler. A step is what one task or interrupt does while nothing else
can come between: the body of a critical section, or the code between two points at
which an interrupt can be taken. `pc[t]` is a task's place in a call; `mode` is the loop
that runs with interrupts masked, one iteration per step. A constant, `Calls`, selects
the API calls that the application makes, so that a run can concentrate on some of
them; everything else (tick, idle task, sleep, switch) is always there. Interrupts come
between any two steps of `mode = "open"`. The module assumes that critical sections
mask the tick; `TickInterrupt` is about that assumption. The sleep is one step here, of
at most `idle time - SleepMargin` ticks: the tick that ends a sleep is pended, not
stepped, so the margin is 1; `Tickless` is about when the code exceeds it. One event list stands
for those of all objects. Not in the module: deletion, `vTaskPlaceOnEventListRestricted`, statistics;
the inheritance of priorities is in `Mutex`.

`Scheduler` says what `Tasks` promises: each task is ready, delayed with some ticks to go, blocked or not
created; the one chosen is ready and not outranked by a ready task; a delay ends when its ticks have passed and no
other way but by an event, a notification or a suspension; a blocked task becomes ready when what it
waits for happens or when it is resumed. There are no lists, no bitmap, no wrap, nothing held back while
the scheduler is suspended and no steps inside of a call. `Tasks` implements it (`IsScheduler`): the state is read from the lists
and from `ucNotifyState`, the ticks left from the wake time and the two counts.

`Tickless` is the sleep statement by statement. `pc` is the next statement of
`prvIdleTask` and `vApplicationSleep`; the counter, the tick and other interrupts come
between any two, under PRIMASK and the NVIC's enable bit as the processor has them: a
pending interrupt ends WFI although it is masked. The kernel is reduced to the ticks
left until a task is due, the pended ticks and the reasons not to sleep. Straight code
before and after the sleep takes less than one count (100 us), hence sees at most one
step of the counter (`slack`).

`TickInterrupt` is one thread of critical sections, switches and the replay of pended
ticks, and the tick interrupt at a priority that is a parameter.

`Dvfs` is lines 476-717 with the loop of `vTask2` in main.cpp as its caller, for any
number of tasks. Time is in parts of a tick so that every job takes a whole number of
parts at every level. Float quotients are compared exactly, as fractions, and the division by
zero of line 657 as floats have it. The hardware frequency is the one of the static
selection: the cycle-conserving selection only returns a level (its call that would set the
frequency, line 671, is commented out).

`Queue` is a queue or a counting semaphore with blocking tasks and interrupts. `pc` follows
`xQueueGenericSend` and `xQueueGenericReceive` from the first critical section over
lock, second look, place, unlock and resume to the retry. Of the kernel there is which
task is blocked, whose block time is over, and which runs. Items are model values;
the storage is a ring of them, and the two pointers are indices, from storage that is
not initialised. A semaphore has item size 0 and no storage. `xTaskCheckForTimeOut`
is a choice wherever time may have passed. A woken task counts as about to look at the queue
from its retry on, and also while it is still in the locked section in which it placed itself in
the event list: the unlock may wake the task that performs it.

`Fifo` says what a queue promises: a sequence of bounded length, taken from at its head.
`Queue` implements it (`IsFifo`), with the items between the two pointers for contents.

`Mutex` is a set of mutexes and recursive mutexes with the priorities of the tasks. A mutex is a queue
of one item without data, free exactly while `pxMutexHolder` is NULL. Interrupts do not use mutexes, so
a step is a critical section, or a whole section with the scheduler suspended. `pc` is `"try"` before
the first critical section of `xQueueGenericReceive`, `"lock"` before the locked section and `"last"`
before the look at the queue after the time is over. `Block` is `vTaskPriorityInherit` with
`vTaskPlaceOnEventList`, `Give` is the send with `xTaskPriorityDisinherit` and the wake of the first waiter.
Holders delay, wait for other mutexes, are suspended, resumed and given other priorities. The
ready lists are sets per priority: which task of the highest priority runs is left open. The
history variable `owed` is the priority with which a task began to wait, until the mutex is given or
the priority of its holder set: what inheritance owes it.

`EventGroups` is an event group with the kernel's part of it: the event item whose value
is a priority, or the bits a task waits for, or those that ended its wait. A step is a
whole call up to where it blocks: event groups are not used by interrupts and every call
holds the scheduler. What follows a wait runs unprotected: `uxTaskResetEventItemValue` reads the item and the
priority in one step (`ResetEventItem_Read`) and stores the item in another (`ResetEventItem_Store`), with `loaded` for what it read;
looking again after a timeout is a third. Priorities change, tasks are suspended and resumed. The waiting list is
a set: a set of bits walks all of it, so that its order decides nothing. A value returned to a caller
that did not block is not kept.

`MC*` modules give constants their values for TLC; `*Proofs` modules hold the theorems.

## The runs

| Run | Bounds | Shows |
|---|---|---|
| tasks_time | 2 tasks, delays of 1-3 ticks, wrap after tick 3, 2 pended ticks | creation, delays and periods keep time across the wrap and sleep, also of tasks that suspend and resume one another; the idle task sleeps only when nothing is ready; every step is one of `Scheduler`, or a stutter |
| tasks_notify | 2 tasks, 1 nested suspension, 1 pended tick | no notification is lost, nothing stays pended, and no assertion fails when interrupts notify |
| tasks_suspend | 2 tasks, 2 priorities, wrap after tick 2, no tick while the scheduler is suspended | lists, bitmap and priorities agree; event, timeout and suspension of one wait do not collide; the switch takes the highest |
| tasks_live | 2 tasks that delay or yield | every ready task runs, every delay ends |
| tickless_sleep | tick of 3 counts, 3 ticks of sleep, idle times to 4, 2 frequencies | the counter stays below its match, the kernel is never ahead by more than a tick nor late by more than one, the prescaler is not forgotten, the sleep ends |
| tick_interrupt | 2 nestings, 6 interrupts | with SysTick's priority: no tick lost, no critical section interrupted |
| dvfs_deadlines | 3 tasks, periods of 2-12, worst cases of 1-3 ticks, the 8 levels of the source, two hyperperiods | at the selected level no job is later than one job of lower priority makes it; cycles suffice |
| queue | 2 tasks of different priorities, length 1-2, 2 items, 2 posts to a locked queue | no task waits beside a message or room; first in, first out |
| mutex | 3 tasks, 2 recursive mutexes, each taken up to twice, 2 priorities beside the idle task's | the holder is not outranked by its waiters; its own priority comes back with its last give; no task waits beside a free mutex |
| event_groups | 3 tasks, 2 bits, 2 priorities, finite waits, one reset of an item at a time | no task waits beside its bits; equals are released together; a released task has its bits; an item not in use is at its task's priority, but for a priority set during the reset |
| tickless_step | as tickless_sleep | violation: `vTaskStepTick` passes the next wake time |
| tick_priority | as tick_interrupt, priority 0 | violation: ticks are lost |

The bounds reach the cases that matter. Two tasks and the idle task suffice for a
call of one task that changes another, for round robin, and for a list with a neighbour; the tick count
wraps within a delay; a queue of one place is always both full or empty, one of two
wraps each pointer; two posts to a locked queue are one more than there can be
waiters when the other task holds the lock. A sender, and two waiters with the same or different
conditions, need three tasks for an event group. A wait without limit differs
from a finite one only in that it does not time out: queue and event_groups leave it out, as
its steps are among those of finite waits. Waits for bits have both options, as at a rendezvous,
or none. The constraint `OneReset` of event_groups keeps all but one task from being between the two
steps of the reset; each task resets an item of its own from values that it alone has read, and the other two tasks still do everything else in between. A tick of 3 counts has a first, a middle
and a last count. `MaxInterrupts`, `Horizon`, `MaxIdle`, `MaxPended` and `MaxNesting` are guards of
the actions they bound. Every run checks for deadlock but `mutex`,
where tasks may wait for each other's mutexes for ever. Plain mutexes are recursive ones that are taken once.

Symmetry is used where no liveness is checked: of tasks that have the same initial priority, of
items, mutexes and bits.

### Fairness

tasks_live: the processor has time between two interrupts (strong fairness of the steps
of the running task, which interrupts disable again and again), masked loops go on and the
timer ticks (weak and strong fairness of the hardware). That each task delays or yields in the end is a
duty of the application under cooperative scheduling; the tasks of main.cpp do.
tickless_sleep: the processor executes between interrupts, the enabled counter counts,
and pending, unmasked interrupts are taken.

### Findings

* `tick_priority`: `vPortSetupTimerInterrupt` (line 201) sets no priority for TIMER1. Its
  reset value 0 is above `configMAX_SYSCALL_INTERRUPT_PRIORITY`, BASEPRI does not mask it,
  and the handler's `portENABLE_INTERRUPTS` (line 195) unmasks inside critical sections.
* `tickless_step`: another interrupt that ends the sleep when TC stands at the whole idle time makes
  the fraction of line 442 zero and the step one period too long; the assertion of
  `vTaskStepTick` stops the processor.

Met while modelling, without a run of their own.

Time and frequency: a tick between the idle task's sample and
the `cpsid` makes the sleep one tick too long (`AtMostOneTickLate` allows that tick); a
match between the second `cpsid` and the stop of the timer leaves the flag clear, so that the sleep is measured by the
counter, and a whole sleep counts as one tick; MR0 is set to the elapsed instead of the remaining fraction, then overwritten (438-449); the
static test's "deadlines are not violated" (line 583) holds for preemptive scheduling, here a job may be late by
one of lower priority; `setupPowerSaving` takes level 0 for a failure and the -1 of a failure for success (759); a deadline that has passed makes the quotient of line 657 negative, for which the slowest level is returned;
main.cpp indexes arrays of one element with 1.

Kernel: a notification readies a task that was suspended while it waited for one (tasks.c:4412), though task.h:959 says that
a suspended task "will never get any microcontroller processing time" (`SuspendedNeverRuns`
is checked and proved for calls other than notifications); a task that waits for a notification without limit and is
resumed with `xTaskResumeFromISR` while the scheduler is suspended goes to `xPendingReadyList` still marked as waiting, so that a
notification fails the assertion "The task should not have been on an event list." (4420, 4539), as TLC
finds with that call among the `Calls` of tasks_notify; `xQueueGenericReset` wakes one sender only; an event list is not sorted anew when
the priority of a waiter changes; `uxTaskResetEventItemValue`, which should "reset the event list item to its normal value - so it can be used
with queues and semaphores" (tasks.c:4181), does so in no critical section: if an interrupt's yield switches tasks between its read of the
priority and its store, and the priority is set then, the item keeps the old one ("Event lists are always in priority order", 880) until the priority is set
again or the next wait ends. `OnlyResetMissesPriority` states that there is no other way.

Priority inheritance, of which `HolderNotOutranked` states what is left: a change of priority of a holder that
has not inherited one puts it below its waiters; one above the inherited priority, of a holder that has, is without effect until
it gives its last mutex; the holder of a mutex that the holder waits for does not inherit what the latter does;
a waiter that times out leaves the holder its priority; a task that takes a mutex while others wait for it, before
the one that was woken runs, inherits nothing until one of them waits anew.

RTC: `RTC.cpp` calls the month and year callbacks on `DOM == 0` and the like (205), but the register counts
from 1, so they are never called ("when the specified time unit increases", RTC.h:64); `detach` writes CIIR without a lock;
the handler clears both flags at its end, also one raised while it ran.

## The proofs

All theorems hold for every value of the constants that satisfies the named assumption
of its module. `ListsProofs` says what the operations of list.c do to the set of owners, to the
head and to the order by item value that `vListInsert` keeps, so that no other proof looks inside a list.

`TasksProofs`: `Spec => []IInv`. The invariants that matter are not inductive: that a switch finds a
task, for instance, needs the bitmap to be exact, which needs each task to be linked once and in the
list of its priority, which needs that only the current task is inside a call and that it is ready
unless it has just blocked. `IInv` is the conjunction of these named parts. The proof carries
it as `PInv`, an equivalent in terms of which list each item is in, one
lemma per action. From the invariant follow the type,
`OneListPerItem`, `TopReadyPriorityExact`, `ReadyAtOwnPriority`, `NothingPendingWhenRunning`, that
the tasks in the event list are blocked, and `SwitchToHighest` as a property of steps. `NotificationNotLost` takes an
invariant of its own beside it (`NotLost`): the task that waits was marked in the step that tested its value, and
each step spares the tasks other than the one it is about (`Spared`), so only a notification of the task itself counts.

The second part of `TasksProofs` is about time. The delayed list is in the order of wake times, so that its head is the first task to wake and
`xNextTaskUnblockTime` a lower bound of all (`ClockInv`); outside of the loop that unblocks tasks, the wake times of the current list are ahead of
the count and those of the overflow list behind it, which the wrap exchanges. While the idle task is between its
second look and the end of the sleep, no task but it is ready (`TimeInv`). From these follow `NoTaskOverdue`,
`SleepsOnlyWhenIdle`, `NoAssertFails` and `TimeoutsKeepTime`; `PeriodKept` needs only that counts are taken modulo the wrap. All but
`PeriodKept` have the hypothesis `SleepMargin = 1`: a step over the whole idle time, as in `tickless_step`, leaves a due
task in its list. `NoAssertFails` also excludes `xTaskResumeFromISR` (see the findings). `SuspendedNeverRuns`: a suspended task is in
`xSuspendedTaskList` and in no event list (`SuspendedStay`), provided that no task is notified.

The last part is the refinement, `ImplementsScheduler`, again for `SleepMargin = 1`. The abstract state depends on the lists, the clock and
a few fields of each task (`Views`), so most steps, those of the counters and of the places in calls, leave it alone (`Unnoticed`). Each other step is one
abstract step or a stutter, with one lemma for each: an abstract step changes one task (`OneMoves`) or the clock (`TicksPass`). What
that takes of the invariant (`RefInv`): no wake time of the current delayed list is behind the count (`NotPast`), also inside of the loop that unblocks tasks, so that the ticks left
are never negative and do not jump at the wrap, and the task chosen while tasks are created before the start is the highest (`FirstTask`). Abstract time passes when `xTickCount` moves, so a pended tick passes
when it is replayed; the tasks that a tick makes ready time out one by one, one per iteration of the loop. A task that interrupts ready while the scheduler is suspended stays where it is, and wakes when `xTaskResumeAll` moves it.

`TicklessProofs`, for every length of the tick, longest sleep and set of frequencies: where the counts of
TIMER1 are, for each place in the sleep. `since` grows with TC; what TC loses when it matches
or is reset is in the match value or in a tick that is pended or pending. Before the sleep is armed
at most one tick can come; from then on TC and MR0 make up the whole sleep, until the match after which
TC is at most one; and the step accounts for the counts to within a period. The invariant is
one conjunct per group of places (`RunningInv`, `BeforeInv`, `ArmedInv`, `StepInv`, `ResumeInv`,
`HaltedInv`), and all safety properties of the run follow.

`TickInterruptProofs`: for a tick priority that BASEPRI masks (`TickPriority >= MaxSyscallPriority`, a
hypothesis, as TIMER1 does not meet it), an invariant over masking, nesting and the two copies of
the replay gives `TicksConserved`, `KernelNotInterrupted` and, without a run of its own, `UnmaskedOutside`: no exit leaves the tick locked out.

`QueueProofs`, for every length, any tasks, priorities and posts to the locked queue. The data: the items are
the slots that follow `pcReadFrom`, and `pcWriteTo` is the one behind the last; each operation on the
pointers is then an Append, a push to the front or a Tail, and every step a step of `Fifo`
or a stutter. The tasks: those woken and on their way to the queue, with those that the lock counts will wake
(`Held`), are as many as the messages, or the free places, while somebody waits. A task
that is about to place itself in a list has seen the queue empty, or full, and what came since
was counted (`PlacedRightly`).

`MutexProofs`, for any tasks, mutexes and priorities: the three properties of the run are inductive together with the type,
with the ready lists as a function of who is ready and of the priorities (`ReadyExact`), and with
who may be in an event list (`WaitsRightly`).

`EventGroupsProofs`: an invariant of each task alone: a task in the event list is blocked and its
event item says what it waits for, which `uxEventBits` does not meet; one that has left the list has its bits or gave up;
the item is in use just while the task is in a wait or between the two steps of the reset. The item carries the argument: a set decides from it, and
`vTaskPrioritySet` may not touch it. `NoWaiterForgotten`, `ReleasedWithItsBits`, `SameWaitSameRelease` and the type follow,
and `OnlyResetMissesPriority`, by what each step does to an item and to the priority beside it: all but the store of the reset change both or neither,
or leave the item in use.

`DvfsProofs`, for any number of tasks, periods, worst cases and levels: the sum of the allocated cycles and the
allocation walk the tasks by recursive functions; that such a function exists and takes the values of its definition is shown by
induction, over the set of the numbers up to which it does. Then `BudgetWithinJob` is inductive with the type, because an
allocation is at most what is left of each job, and `LevelSuffices` follows from the loop of the selection, which goes to slower levels only
while they meet the demand. The parts of a tick are one or more (`DvfsAssumption`).

Only model-checked: liveness (`ReadyTaskRuns`, `DelayedTaskWakes`, `SleepEnds`), which is beyond the prover, and
`LateByOneJobAtMost`, which needs a response-time analysis over all jobs of a busy period, not an invariant of single states.
Of the two properties that runs violate, `TicksConserved` is proved for the tick priorities with which it holds; `StepFitsIdleTime` is not true of this code.

## Not modelled

Software timers and co-routines are compiled out. The mbed library, the startup code, drivers and CMSIS headers are
vendored: they are most of the lines of the repository. PowerControl writes single registers; ClockControl's PLL sequence is one step of
`Tickless` and `Dvfs`. Workload, cycle counter and prints carry no state of the system.
`vEventGroupDelete`, `vQueueDelete` and `vTaskDelete` end in `vPortFree`, which asserts under heap_1.
An interrupt that calls event groups needs the timer task, which is not configured. The application
only sets and reads the real-time clock; the callbacks of `RTC` have no user. Of mutexes: `xQueuePeek`,
`xQueueGetMutexHolder` and gives while the scheduler is suspended.

## Plan

In order of importance:

1. An abstract clock (`TickKeeper`: kernel time follows true time within a tick) that `Tickless` implements.
2. `Heap1`: the bump allocator with alignment and overflow of sizes, blocks disjoint and inside the heap, with
   task creation that fails half-way.
3. `TimeOut`: `vTaskSetTimeOutState` and `xTaskCheckForTimeOut` against true elapsed time across the wrap.
4. `Rtc`: attach, detach and the handler, interrupts during the handler; reads of the time across a rollover.
5. The reset sequence of main.cpp.
6. The lists by pointers, implementing `Lists`.

The runs are one per question; a violation run whose question a later module settles
better gives way to it.
