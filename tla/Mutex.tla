-------------------------------- MODULE Mutex --------------------------------
(***************************************************************************)
(* The mutexes and recursive mutexes of queue.c, and the priority          *)
(* inheritance that tasks.c gives their holders.                           *)
(*                                                                         *)
(* A mutex is a queue of one item without data: the item is there exactly  *)
(* while pxMutexHolder is NULL, and no task ever waits to send it.         *)
(*                                                                         *)
(* Interrupts do not use mutexes, so a step is a critical section or the   *)
(* whole of a section in which the scheduler is suspended.  The processor  *)
(* may go to another task after any step, on a yield of the running task   *)
(* or of an interrupt.                                                     *)
(*                                                                         *)
(* A ready list is modelled as the set of its tasks: which of several      *)
(* tasks of the highest priority runs is left open.                        *)
(***************************************************************************)
EXTENDS Lists

CONSTANTS
  Tasks,
  NoTask,               \* no holder; as pxCurrentTCB, the idle task
  Mutexes,
  Recursive,            \* those made by xSemaphoreCreateRecursiveMutex
  configMAX_PRIORITIES,
  InitialPriority,
  BlockTimes,           \* of the takes
  MaxRecursion          \* bound: takes of one recursive mutex

Priorities == 1 .. configMAX_PRIORITIES - 1  \* 0 is left to the idle task

ASSUME MutexAssumption ==
  /\ NoTask \notin Tasks /\ IsFiniteSet(Mutexes) /\ Recursive \subseteq Mutexes
  /\ configMAX_PRIORITIES \in Nat /\ InitialPriority \in [Tasks -> Priorities]
  /\ BlockTimes \subseteq {"finite", "forever"}
  /\ MaxRecursion \in Nat \ {0}

VARIABLES
  pxMutexHolder, uxRecursiveCallCount, xTasksWaitingToReceive,  \* of each mutex
  uxPriority, uxBasePriority, uxMutexesHeld, xItemValue,        \* of each task
  pxReadyTasksLists, xDelayedTaskList, xSuspendedTaskList, pxCurrentTCB,
  pc, call,    \* of each task: its place in a take, and which
  owed         \* history: the priority with which a task began to wait, until the
               \* mutex is given or the priority of its holder is set

mutexes == <<pxMutexHolder, uxRecursiveCallCount, xTasksWaitingToReceive>>
priorities == <<uxPriority, uxBasePriority, uxMutexesHeld, xItemValue>>
lists == <<pxReadyTasksLists, xDelayedTaskList, xSuspendedTaskList>>
vars == <<mutexes, priorities, lists, pxCurrentTCB, pc, call, owed>>

NoPriority == 0
NoCall == [mutex |-> "none", wait |-> "none"]
Takes == [mutex : Mutexes, wait : BlockTimes]
Calls == [mutex : Mutexes, wait : BlockTimes \cup {"over"}]

ItemValue(priority) == configMAX_PRIORITIES - priority

Init ==
  /\ pxMutexHolder = [m \in Mutexes |-> NoTask]
  /\ uxRecursiveCallCount = [m \in Mutexes |-> 0]
  /\ xTasksWaitingToReceive = [m \in Mutexes |-> vListInitialise]
  /\ uxPriority = InitialPriority /\ uxBasePriority = InitialPriority
  /\ uxMutexesHeld = [t \in Tasks |-> 0]
  /\ xItemValue = [t \in Tasks |-> ItemValue(InitialPriority[t])]
  /\ pxReadyTasksLists = [p \in Priorities |-> {t \in Tasks : InitialPriority[t] = p}]
  /\ xDelayedTaskList = {} /\ xSuspendedTaskList = {} /\ pxCurrentTCB = NoTask
  /\ pc = [t \in Tasks |-> "run"] /\ call = [t \in Tasks |-> NoCall]
  /\ owed = [t \in Tasks |-> NoPriority]

Ready == Tasks \ (xDelayedTaskList \cup xSuspendedTaskList)

Waiters(m) == Owners(xTasksWaitingToReceive[m])

IsRunning(t, place) == pxCurrentTCB = t /\ t \in Ready /\ pc[t] = place

\* uxListRemove and prvAddTaskToReadyList, and uxListRemove alone.
ReadyAt(readyLists, t, priority) ==
  [p \in Priorities |-> IF p = priority THEN readyLists[p] \cup {t} ELSE readyLists[p] \ {t}]

NotReady(readyLists, t) == [p \in Priorities |-> readyLists[p] \ {t}]
-----------------------------------------------------------------------------
\* The first critical section of xQueueGenericReceive: of a take that begins, or
\* of one that comes round again.
Attempts(t, c) ==
  /\ pxCurrentTCB = t /\ t \in Ready
  /\ \/ pc[t] = "run" /\ c \in Takes
     \/ pc[t] = "try" /\ c = call[t]

\* xQueueTakeMutexRecursive counts the take after the critical section, when no
\* other task can change the count.
Take(t, c) ==
  /\ Attempts(t, c) /\ pxMutexHolder[c.mutex] = NoTask
  /\ pxMutexHolder' = [pxMutexHolder EXCEPT ![c.mutex] = t]
  /\ uxMutexesHeld' = [uxMutexesHeld EXCEPT ![t] = @ + 1]
  /\ uxRecursiveCallCount' =
       [uxRecursiveCallCount EXCEPT ![c.mutex] = IF c.mutex \in Recursive THEN @ + 1 ELSE @]
  /\ pc' = [pc EXCEPT ![t] = "run"] /\ call' = [call EXCEPT ![t] = NoCall]
  /\ UNCHANGED <<xTasksWaitingToReceive, uxPriority, uxBasePriority, xItemValue,
                 lists, pxCurrentTCB, owed>>

TakeAgain(t, m) ==
  /\ IsRunning(t, "run") /\ m \in Recursive /\ pxMutexHolder[m] = t
  /\ uxRecursiveCallCount[m] < MaxRecursion
  /\ uxRecursiveCallCount' = [uxRecursiveCallCount EXCEPT ![m] = @ + 1]
  /\ UNCHANGED <<pxMutexHolder, xTasksWaitingToReceive, priorities, lists,
                 pxCurrentTCB, pc, call, owed>>

\* The take goes on to wait; one without a block time fails and changes nothing.
GoOnToWait(t, c) ==
  /\ Attempts(t, c) /\ pxMutexHolder[c.mutex] # NoTask
  /\ c.mutex \in Recursive => pxMutexHolder[c.mutex] # t
  /\ pc' = [pc EXCEPT ![t] = "lock"] /\ call' = [call EXCEPT ![t] = c]
  /\ UNCHANGED <<mutexes, priorities, lists, pxCurrentTCB, owed>>

\* Mutant: the holder is left in the ready list of its old priority.
vTaskPriorityInherit_ListKept(holder, t) ==
  IF uxPriority[holder] < uxPriority[t]
  THEN /\ uxPriority' = [uxPriority EXCEPT ![holder] = uxPriority[t]]
       /\ xItemValue' = [xItemValue EXCEPT ![holder] = ItemValue(uxPriority[t])]
       /\ pxReadyTasksLists' = NotReady(pxReadyTasksLists, t)
  ELSE /\ UNCHANGED <<uxPriority, xItemValue>>
       /\ pxReadyTasksLists' = NotReady(pxReadyTasksLists, t)

\* The holder takes over the priority of the task that blocks, which then leaves
\* the ready lists itself.
vTaskPriorityInherit(holder, t) ==
  IF uxPriority[holder] < uxPriority[t]
  THEN /\ uxPriority' = [uxPriority EXCEPT ![holder] = uxPriority[t]]
       /\ xItemValue' = [xItemValue EXCEPT ![holder] = ItemValue(uxPriority[t])]
       /\ pxReadyTasksLists' =
            NotReady(IF holder \in pxReadyTasksLists[uxPriority[holder]]
                     THEN ReadyAt(pxReadyTasksLists, holder, uxPriority[t])
                     ELSE pxReadyTasksLists, t)
  ELSE /\ UNCHANGED <<uxPriority, xItemValue>>
       /\ pxReadyTasksLists' = NotReady(pxReadyTasksLists, t)

\* The mutex is still taken and the time is not over: vTaskPriorityInherit and
\* vTaskPlaceOnEventList.  A task that waits for ever goes to the suspended list.
Block(t) ==
  LET m == call[t].mutex
  IN  /\ IsRunning(t, "lock") /\ call[t].wait # "over" /\ pxMutexHolder[m] # NoTask
      /\ vTaskPriorityInherit(pxMutexHolder[m], t)
      /\ xTasksWaitingToReceive' =
           [xTasksWaitingToReceive EXCEPT ![m] = vListInsert(@, xItemValue', t, xItemValue'[t])]
      /\ IF call[t].wait = "forever"
         THEN /\ xSuspendedTaskList' = xSuspendedTaskList \cup {t}
              /\ UNCHANGED xDelayedTaskList
         ELSE /\ xDelayedTaskList' = xDelayedTaskList \cup {t}
              /\ UNCHANGED xSuspendedTaskList
      /\ pc' = [pc EXCEPT ![t] = "try"] /\ owed' = [owed EXCEPT ![t] = uxPriority[t]]
      /\ UNCHANGED <<pxMutexHolder, uxRecursiveCallCount, uxBasePriority, uxMutexesHeld,
                     pxCurrentTCB, call>>

\* The mutex was given in the meantime.
TryAgain(t) ==
  /\ IsRunning(t, "lock") /\ call[t].wait # "over" /\ pxMutexHolder[call[t].mutex] = NoTask
  /\ pc' = [pc EXCEPT ![t] = "try"]
  /\ UNCHANGED <<mutexes, priorities, lists, pxCurrentTCB, call, owed>>

\* xTaskCheckForTimeOut finds the time over: of a task that the tick woke, or of
\* one that was woken by a give, or never blocked, and is late.
GiveUp(t) ==
  /\ IsRunning(t, "lock") /\ call[t].wait # "forever"
  /\ pc' = [pc EXCEPT ![t] = "last"] /\ call' = [call EXCEPT ![t].wait = "over"]
  /\ UNCHANGED <<mutexes, priorities, lists, pxCurrentTCB, owed>>

\* One more look at the mutex, without a critical section.
LastLook(t) ==
  /\ IsRunning(t, "last")
  /\ IF pxMutexHolder[call[t].mutex] = NoTask
     THEN pc' = [pc EXCEPT ![t] = "try"] /\ UNCHANGED call
     ELSE pc' = [pc EXCEPT ![t] = "run"] /\ call' = [call EXCEPT ![t] = NoCall]
  /\ UNCHANGED <<mutexes, priorities, lists, pxCurrentTCB, owed>>
-----------------------------------------------------------------------------
\* Mutant: the count is tested before it is decremented.
Disinherits_OneEarly(t) ==
  uxPriority[t] # uxBasePriority[t] /\ uxMutexesHeld[t] = 0

\* Mutant: other mutexes that the task holds are forgotten.
Disinherits_Always(t) == uxPriority[t] # uxBasePriority[t]

\* xTaskPriorityDisinherit takes the inherited priority back with the last mutex.
Disinherits(t) == uxPriority[t] # uxBasePriority[t] /\ uxMutexesHeld[t] = 1

xTaskPriorityDisinherit(t) ==
  /\ uxMutexesHeld' = [uxMutexesHeld EXCEPT ![t] = @ - 1]
  /\ IF Disinherits(t)
     THEN /\ uxPriority' = [uxPriority EXCEPT ![t] = uxBasePriority[t]]
          /\ xItemValue' = [xItemValue EXCEPT ![t] = ItemValue(uxBasePriority[t])]
     ELSE UNCHANGED <<uxPriority, xItemValue>>
  /\ UNCHANGED uxBasePriority

\* Mutant: no waiter is woken when the giver's priority falls.
Wake_InsteadOfYield(m, t) ==
  IF IsEmpty(xTasksWaitingToReceive[m]) \/ Disinherits(t)
  THEN /\ pxReadyTasksLists' = ReadyAt(pxReadyTasksLists, t, uxPriority'[t])
       /\ UNCHANGED <<xTasksWaitingToReceive, xDelayedTaskList, xSuspendedTaskList>>
  ELSE LET first == HeadOwner(xTasksWaitingToReceive[m])
       IN  /\ xTasksWaitingToReceive' =
                [xTasksWaitingToReceive EXCEPT ![m] = uxListRemove(@, first)]
           /\ xDelayedTaskList' = xDelayedTaskList \ {first}
           /\ xSuspendedTaskList' = xSuspendedTaskList \ {first}
           /\ pxReadyTasksLists' =
                ReadyAt(ReadyAt(pxReadyTasksLists, t, uxPriority'[t]), first, uxPriority[first])

\* The giver is in the ready list of the priority it now has, and
\* xTaskRemoveFromEventList wakes the first waiter.
Wake(m, t) ==
  IF IsEmpty(xTasksWaitingToReceive[m])
  THEN /\ pxReadyTasksLists' = ReadyAt(pxReadyTasksLists, t, uxPriority'[t])
       /\ UNCHANGED <<xTasksWaitingToReceive, xDelayedTaskList, xSuspendedTaskList>>
  ELSE LET first == HeadOwner(xTasksWaitingToReceive[m])
       IN  /\ xTasksWaitingToReceive' =
                [xTasksWaitingToReceive EXCEPT ![m] = uxListRemove(@, first)]
           /\ xDelayedTaskList' = xDelayedTaskList \ {first}
           /\ xSuspendedTaskList' = xSuspendedTaskList \ {first}
           /\ pxReadyTasksLists' =
                ReadyAt(ReadyAt(pxReadyTasksLists, t, uxPriority'[t]), first, uxPriority[first])

\* xQueueGenericSend to the mutex: by its holder only, which the code asserts.
Give(t, m) ==
  /\ IsRunning(t, "run") /\ pxMutexHolder[m] = t
  /\ m \in Recursive => uxRecursiveCallCount[m] = 1
  /\ uxRecursiveCallCount' = [uxRecursiveCallCount EXCEPT ![m] = 0]
  /\ xTaskPriorityDisinherit(t)
  /\ pxMutexHolder' = [pxMutexHolder EXCEPT ![m] = NoTask]
  /\ Wake(m, t)
  /\ owed' = [u \in Tasks |-> IF u \in Waiters(m) THEN NoPriority ELSE owed[u]]
  /\ UNCHANGED <<pxCurrentTCB, pc, call>>

\* xQueueGiveMutexRecursive, of a mutex that was taken more than once.
GiveOnce(t, m) ==
  /\ IsRunning(t, "run") /\ m \in Recursive /\ pxMutexHolder[m] = t
  /\ uxRecursiveCallCount[m] > 1
  /\ uxRecursiveCallCount' = [uxRecursiveCallCount EXCEPT ![m] = @ - 1]
  /\ UNCHANGED <<pxMutexHolder, xTasksWaitingToReceive, priorities, lists,
                 pxCurrentTCB, pc, call, owed>>
-----------------------------------------------------------------------------
vTaskDelay(t) ==
  /\ IsRunning(t, "run")
  /\ xDelayedTaskList' = xDelayedTaskList \cup {t}
  /\ pxReadyTasksLists' = NotReady(pxReadyTasksLists, t)
  /\ UNCHANGED <<mutexes, priorities, xSuspendedTaskList, pxCurrentTCB, pc, call, owed>>

LeaveEventLists(t) ==
  /\ xTasksWaitingToReceive' =
       [m \in Mutexes |-> IF t \in Waiters(m) THEN uxListRemove(xTasksWaitingToReceive[m], t)
                                              ELSE xTasksWaitingToReceive[m]]
  /\ owed' = [owed EXCEPT ![t] = NoPriority]

\* xTaskIncrementTick finds that a delay, or the block time of a take, is over.
TimeOut(t) ==
  /\ t \in xDelayedTaskList /\ xDelayedTaskList' = xDelayedTaskList \ {t}
  /\ pxReadyTasksLists' = ReadyAt(pxReadyTasksLists, t, uxPriority[t])
  /\ call' = IF pc[t] = "try" THEN [call EXCEPT ![t].wait = "over"] ELSE call
  /\ LeaveEventLists(t)
  /\ UNCHANGED <<pxMutexHolder, uxRecursiveCallCount, priorities, xSuspendedTaskList,
                 pxCurrentTCB, pc>>

vTaskSuspend(t, other) ==
  /\ IsRunning(t, "run")
  /\ xSuspendedTaskList' = xSuspendedTaskList \cup {other}
  /\ xDelayedTaskList' = xDelayedTaskList \ {other}
  /\ pxReadyTasksLists' = NotReady(pxReadyTasksLists, other)
  /\ LeaveEventLists(other)
  /\ UNCHANGED <<pxMutexHolder, uxRecursiveCallCount, priorities, pxCurrentTCB, pc, call>>

\* vTaskResume or, from an interrupt, xTaskResumeFromISR: not of a task that is in
\* the suspended list because it waits for ever.
vTaskResume(t) ==
  /\ t \in xSuspendedTaskList /\ \A m \in Mutexes : t \notin Waiters(m)
  /\ xSuspendedTaskList' = xSuspendedTaskList \ {t}
  /\ pxReadyTasksLists' = ReadyAt(pxReadyTasksLists, t, uxPriority[t])
  /\ UNCHANGED <<mutexes, priorities, xDelayedTaskList, pxCurrentTCB, pc, call, owed>>

\* A task that runs with an inherited priority keeps it.
PrioritySet(other, priority) ==
  IF uxBasePriority[other] = uxPriority[other] THEN priority ELSE uxPriority[other]

vTaskPrioritySet(t, other, priority) ==
  /\ IsRunning(t, "run") /\ priority # uxBasePriority[other]
  /\ uxPriority' = [uxPriority EXCEPT ![other] = PrioritySet(other, priority)]
  /\ uxBasePriority' = [uxBasePriority EXCEPT ![other] = priority]
  /\ xItemValue' = [xItemValue EXCEPT ![other] = ItemValue(priority)]
  /\ pxReadyTasksLists' =
       IF other \in pxReadyTasksLists[uxPriority[other]]
       THEN ReadyAt(pxReadyTasksLists, other, PrioritySet(other, priority))
       ELSE pxReadyTasksLists
  /\ owed' =
       [u \in Tasks |->
          IF /\ uxBasePriority[other] = uxPriority[other]
             /\ \E m \in Mutexes : pxMutexHolder[m] = other /\ u \in Waiters(m)
          THEN NoPriority ELSE owed[u]]
  /\ UNCHANGED <<mutexes, uxMutexesHeld, xDelayedTaskList, xSuspendedTaskList,
                 pxCurrentTCB, pc, call>>

vTaskSwitchContext ==
  /\ IF Ready = {}
     THEN pxCurrentTCB' = NoTask
     ELSE \E p \in Priorities :
            /\ pxCurrentTCB' \in pxReadyTasksLists[p]
            /\ \A q \in Priorities : q > p => pxReadyTasksLists[q] = {}
  /\ pxCurrentTCB' # pxCurrentTCB
  /\ UNCHANGED <<mutexes, priorities, lists, pc, call, owed>>

TaskStep(t) ==
  \/ \E c \in Calls : Take(t, c) \/ GoOnToWait(t, c)
  \/ Block(t) \/ TryAgain(t) \/ GiveUp(t) \/ LastLook(t)
  \/ \E m \in Mutexes : TakeAgain(t, m) \/ Give(t, m) \/ GiveOnce(t, m)
  \/ vTaskDelay(t)
  \/ \E other \in Tasks :
       \/ vTaskSuspend(t, other)
       \/ \E p \in Priorities : vTaskPrioritySet(t, other, p)

Next ==
  \/ \E t \in Tasks : TaskStep(t) \/ TimeOut(t) \/ vTaskResume(t)
  \/ vTaskSwitchContext

Spec == Init /\ [][Next]_vars
-----------------------------------------------------------------------------
HeldBy(t) == {m \in Mutexes : pxMutexHolder[m] = t}

\* Every variable stays in its type; a task is in the ready list of the priority it
\* runs with, inherited or not, or blocked; and only blocked tasks are in event lists.
TypeOK ==
  /\ pxMutexHolder \in [Mutexes -> Tasks \cup {NoTask}]
  /\ uxRecursiveCallCount \in [Mutexes -> 0 .. MaxRecursion]
  /\ uxPriority \in [Tasks -> Priorities] /\ uxBasePriority \in [Tasks -> Priorities]
  /\ uxMutexesHeld \in [Tasks -> Nat] /\ xItemValue \in [Tasks -> Priorities]
  /\ pxReadyTasksLists = [p \in Priorities |-> {t \in Ready : uxPriority[t] = p}]
  /\ xDelayedTaskList \subseteq Tasks /\ xSuspendedTaskList \subseteq Tasks \ xDelayedTaskList
  /\ \A m \in Mutexes : xTasksWaitingToReceive[m] \in ListOf(Tasks \ Ready)
  /\ pxCurrentTCB \in Tasks \cup {NoTask}
  /\ pc \in [Tasks -> {"run", "lock", "try", "last"}]
  /\ call \in [Tasks -> Calls \cup {NoCall}]
  /\ owed \in [Tasks -> Priorities \cup {NoPriority}]

\* A task never keeps a priority it inherited beyond its last mutex, in whatever
\* order it gives them and whatever is done to its priority: uxMutexesHeld, by which
\* xTaskPriorityDisinherit decides, is the number of mutexes it holds.
BasePriorityRestored ==
  \A t \in Tasks :
    /\ uxMutexesHeld[t] = Cardinality(HeldBy(t))
    /\ HeldBy(t) = {} => uxPriority[t] = uxBasePriority[t]

\* Priority inheritance bounds the inversion: until it gives the mutex, its holder
\* runs at no lower priority than a waiter had when it began to wait, also while it
\* blocks, takes more mutexes and gives others; only vTaskPrioritySet may change that.
HolderNotOutranked ==
  \A m \in Mutexes : \A t \in Waiters(m) :
    owed[t] # NoPriority =>
      /\ pxMutexHolder[m] # NoTask
      /\ uxPriority[pxMutexHolder[m]] >= owed[t]

\* No task waits for a mutex that is free, unless another one was woken for it and
\* has yet to look: not after timeouts, suspensions and mutexes taken in between.
NoWaiterForgotten ==
  \A m \in Mutexes :
    pxMutexHolder[m] = NoTask /\ Waiters(m) # {} =>
      \E t \in Tasks \ Waiters(m) : pc[t] = "try" /\ call[t].mutex = m
=============================================================================
