----------------------------- MODULE EventGroups -----------------------------
(***************************************************************************)
(* An event group of event_groups.c, and what the kernel keeps for the     *)
(* tasks that wait for its bits.                                           *)
(*                                                                         *)
(* The value of a task's event item serves two ends: to order the task by  *)
(* priority in the event lists of queues, and, while a bit marks it as in  *)
(* use, to hold the bits a task waits for and later those that ended its   *)
(* wait.  It is modelled as the set of its event bits, the set of its      *)
(* control bits, and the priority.                                         *)
(*                                                                         *)
(* The list of waiting tasks is modelled as their set: a call adds to it   *)
(* at its index or walks all of it, and the order decides nothing.         *)
(*                                                                         *)
(* Interrupts do not use event groups, and every call holds the scheduler  *)
(* for all of its work on the group: a step is a whole call, up to the     *)
(* point where it blocks.  What follows a wait is done with the scheduler  *)
(* running and interrupts enabled, and is one step for each access to what *)
(* others change.  The processor may go to another task after any step, on *)
(* a yield of the running task or of an interrupt.                         *)
(*                                                                         *)
(* vEventGroupDelete is left out: under heap_1 its vPortFree asserts.      *)
(***************************************************************************)
EXTENDS Naturals, FiniteSets

CONSTANTS
  Tasks,
  NoTask,             \* pxCurrentTCB is the idle task
  Bits,               \* the event bits in use
  Priorities,
  InitialPriority,
  BlockTimes,         \* of the waits
  WaitOptions         \* the combinations of their options

ASSUME EventGroupsAssumption ==
  /\ NoTask \notin Tasks
  /\ BlockTimes \subseteq {"none", "finite", "forever"}
  /\ WaitOptions \subseteq SUBSET {"clear", "all"}  \* xClearOnExit, xWaitForAllBits
  /\ Priorities \subseteq Nat /\ InitialPriority \in [Tasks -> Priorities]

VARIABLES
  uxEventBits, xTasksWaitingForBits,
  itemValue,          \* xItemValue of each task's xEventListItem
  uxPriority,
  state,              \* of each task: the kind of list its state item is in
  pxCurrentTCB,
  pc,                 \* of each task: its place in a call
  call,               \* the arguments of the wait it is in
  loaded,             \* what uxTaskResetEventItemValue has read and not yet used
  gaveUp              \* history: tasks whose wait a timeout or a suspension ended

group == <<uxEventBits, xTasksWaitingForBits>>
kernel == <<state, uxPriority, pxCurrentTCB>>
local == <<pc, call, loaded>>
vars == <<group, itemValue, kernel, local, gaveUp>>

None == 0
ControlBits == {"clear", "all", "unblocked", "inUse"}

PriorityValue(p) == [bits |-> {}, control |-> {}, priority |-> p]
BitsValue(bits, control) ==
  [bits |-> bits, control |-> control \cup {"inUse"}, priority |-> None]

NoCall == [bits |-> {}, options |-> {}, wait |-> "none"]
NothingLoaded == [value |-> PriorityValue(None), priority |-> None]
Waits == [bits : SUBSET Bits \ {{}}, options : WaitOptions, wait : BlockTimes]

Init ==
  /\ uxEventBits = {} /\ xTasksWaitingForBits = {}
  /\ uxPriority = InitialPriority
  /\ itemValue = [t \in Tasks |-> PriorityValue(InitialPriority[t])]
  /\ state = [t \in Tasks |-> "ready"] /\ pxCurrentTCB = NoTask
  /\ pc = [t \in Tasks |-> "run"] /\ call = [t \in Tasks |-> NoCall]
  /\ loaded = [t \in Tasks |-> NothingLoaded]
  /\ gaveUp = {}

IsRunning(t, place) == pxCurrentTCB = t /\ state[t] = "ready" /\ pc[t] = place

prvTestWaitCondition(current, waited, options) ==
  IF "all" \in options THEN waited \subseteq current ELSE waited \cap current # {}
-----------------------------------------------------------------------------
\* xEventGroupSetBits: the waiters whose condition the new bits meet, the bits
\* they clear, and the group and the kernel after it.
WithBits(set) == uxEventBits \cup set

\* Mutant: a waiter that clears the bits takes them from the others.
Matches_ClearedAtOnce(set) ==
  LET met == {t \in xTasksWaitingForBits :
                prvTestWaitCondition(WithBits(set), itemValue[t].bits, itemValue[t].control)}
      first == CHOOSE t \in met : TRUE
  IN  IF met # {} /\ "clear" \in itemValue[first].control
      THEN {t \in met : itemValue[t].bits \cap itemValue[first].bits = {}} \cup {first}
      ELSE met

\* Mutant: the walk ends with the first waiter it releases.
Matches_FirstOnly(set) ==
  LET met == {t \in xTasksWaitingForBits :
                prvTestWaitCondition(WithBits(set), itemValue[t].bits, itemValue[t].control)}
  IN  IF met = {} THEN {} ELSE {CHOOSE t \in met : TRUE}

Matches(set) ==
  {t \in xTasksWaitingForBits :
     prvTestWaitCondition(WithBits(set), itemValue[t].bits, itemValue[t].control)}

BitsToClear(set) ==
  UNION {itemValue[t].bits : t \in {u \in Matches(set) : "clear" \in itemValue[u].control}}

BitsAfter(set) == WithBits(set) \ BitsToClear(set)

StillWaiting(set) == xTasksWaitingForBits \ Matches(set)

\* xTaskRemoveFromUnorderedEventList.
ItemValuesAfter(set) ==
  [t \in Tasks |->
     IF t \in Matches(set) THEN BitsValue(WithBits(set), {"unblocked"}) ELSE itemValue[t]]

StatesAfter(set) == [t \in Tasks |-> IF t \in Matches(set) THEN "ready" ELSE state[t]]

xEventGroupSetBits(t, set) ==
  /\ IsRunning(t, "run")
  /\ uxEventBits' = BitsAfter(set) /\ xTasksWaitingForBits' = StillWaiting(set)
  /\ itemValue' = ItemValuesAfter(set) /\ state' = StatesAfter(set)
  /\ UNCHANGED <<uxPriority, pxCurrentTCB, local, gaveUp>>

xEventGroupClearBits(t, bits) ==
  /\ IsRunning(t, "run")
  /\ uxEventBits' = uxEventBits \ bits
  /\ UNCHANGED <<xTasksWaitingForBits, itemValue, kernel, local, gaveUp>>
-----------------------------------------------------------------------------
\* vTaskPlaceOnUnorderedEventList, for a call that blocks after it set bits.
BlockAfter(t, set, wait) ==
  /\ itemValue' = [ItemValuesAfter(set) EXCEPT ![t] = BitsValue(wait.bits, wait.options)]
  /\ xTasksWaitingForBits' = StillWaiting(set) \cup {t}
  /\ state' = [StatesAfter(set) EXCEPT ![t] = "blocked"]
  /\ pc' = [pc EXCEPT ![t] = "waiting"] /\ call' = [call EXCEPT ![t] = wait]
  /\ UNCHANGED <<uxPriority, pxCurrentTCB, loaded, gaveUp>>

\* A wait whose condition is met already.
WaitBits_Met(t, wait) ==
  /\ IsRunning(t, "run")
  /\ prvTestWaitCondition(uxEventBits, wait.bits, wait.options)
  /\ uxEventBits' = IF "clear" \in wait.options THEN uxEventBits \ wait.bits ELSE uxEventBits
  /\ UNCHANGED <<xTasksWaitingForBits, itemValue, kernel, local, gaveUp>>

\* One whose condition is not met blocks, unless it has no block time: it then
\* returns and changes nothing.
WaitBits_Block(t, wait) ==
  /\ IsRunning(t, "run")
  /\ ~prvTestWaitCondition(uxEventBits, wait.bits, wait.options) /\ wait.wait # "none"
  /\ uxEventBits' = uxEventBits /\ BlockAfter(t, {}, wait)

\* xEventGroupSync sets bits of its own; the last one to come clears them all.
xEventGroupSync(t, set, wait) ==
  /\ IsRunning(t, "run") /\ wait.options = {"clear", "all"}
  /\ IF wait.bits \subseteq WithBits(set) \/ wait.wait = "none"
     THEN /\ uxEventBits' = IF wait.bits \subseteq WithBits(set)
                            THEN BitsAfter(set) \ wait.bits ELSE BitsAfter(set)
          /\ xTasksWaitingForBits' = StillWaiting(set)
          /\ itemValue' = ItemValuesAfter(set) /\ state' = StatesAfter(set)
          /\ UNCHANGED <<uxPriority, pxCurrentTCB, local, gaveUp>>
     ELSE uxEventBits' = BitsAfter(set) /\ BlockAfter(t, set, wait)

\* uxTaskResetEventItemValue, first half: the task runs again and reads the value
\* of its event item, and its priority.  (No other step changes an item in use that
\* is in no list, so the two reads are one.)
ResetEventItem_Read(t) ==
  /\ IsRunning(t, "waiting")
  /\ loaded' = [loaded EXCEPT ![t] = [value |-> itemValue[t], priority |-> uxPriority[t]]]
  /\ pc' = [pc EXCEPT ![t] = "reset"] /\ gaveUp' = gaveUp \ {t}
  /\ UNCHANGED <<group, itemValue, kernel, call>>

\* Second half: the item goes back to its normal use, with the priority that was
\* read.  The call returns, or finds that its wait was not met.
ResetEventItem_Store(t) ==
  /\ IsRunning(t, "reset")
  /\ itemValue' = [itemValue EXCEPT ![t] = PriorityValue(loaded[t].priority)]
  /\ loaded' = [loaded EXCEPT ![t] = NothingLoaded]
  /\ IF "unblocked" \in loaded[t].value.control
     THEN pc' = [pc EXCEPT ![t] = "run"] /\ call' = [call EXCEPT ![t] = NoCall]
     ELSE pc' = [pc EXCEPT ![t] = "timedOut"] /\ UNCHANGED call
  /\ UNCHANGED <<group, kernel, gaveUp>>

\* The bits may have been set since the timeout.
TestAgain(t) ==
  /\ IsRunning(t, "timedOut")
  /\ uxEventBits' =
       IF /\ prvTestWaitCondition(uxEventBits, call[t].bits, call[t].options)
          /\ "clear" \in call[t].options
       THEN uxEventBits \ call[t].bits ELSE uxEventBits
  /\ pc' = [pc EXCEPT ![t] = "run"] /\ call' = [call EXCEPT ![t] = NoCall]
  /\ UNCHANGED <<xTasksWaitingForBits, itemValue, kernel, loaded, gaveUp>>
-----------------------------------------------------------------------------
\* Mutant: the task stays in the event list.
LeaveEventList_Kept(t) ==
  UNCHANGED xTasksWaitingForBits /\ gaveUp' = gaveUp \cup {t}

\* A task leaves the event list without its bits.
LeaveEventList(t) ==
  IF t \in xTasksWaitingForBits
  THEN /\ xTasksWaitingForBits' = xTasksWaitingForBits \ {t}
       /\ gaveUp' = gaveUp \cup {t}
  ELSE UNCHANGED <<xTasksWaitingForBits, gaveUp>>

\* The tick, or xTaskResumeAll for a tick it held back.
TimeOut(t) ==
  /\ state[t] = "blocked" /\ call[t].wait = "finite"
  /\ state' = [state EXCEPT ![t] = "ready"] /\ LeaveEventList(t)
  /\ UNCHANGED <<uxEventBits, itemValue, uxPriority, pxCurrentTCB, local>>

vTaskSuspend(t, other) ==
  /\ IsRunning(t, "run")
  /\ state' = [state EXCEPT ![other] = "suspended"] /\ LeaveEventList(other)
  /\ UNCHANGED <<uxEventBits, itemValue, uxPriority, pxCurrentTCB, local>>

\* vTaskResume or, from an interrupt, xTaskResumeFromISR.
vTaskResume(t) ==
  /\ state[t] = "suspended" /\ state' = [state EXCEPT ![t] = "ready"]
  /\ UNCHANGED <<group, itemValue, uxPriority, pxCurrentTCB, local, gaveUp>>

\* Mutant: the event item is set although it is in use.
vTaskPrioritySet_AnyItem(t, other, p) ==
  /\ IsRunning(t, "run")
  /\ uxPriority' = [uxPriority EXCEPT ![other] = p]
  /\ itemValue' = [itemValue EXCEPT ![other] = PriorityValue(p)]
  /\ UNCHANGED <<group, state, pxCurrentTCB, local, gaveUp>>

\* Mutant: the event item is left to the task's next wait.
vTaskPrioritySet_NoItem(t, other, p) ==
  /\ IsRunning(t, "run")
  /\ uxPriority' = [uxPriority EXCEPT ![other] = p]
  /\ UNCHANGED <<group, itemValue, state, pxCurrentTCB, local, gaveUp>>

vTaskPrioritySet(t, other, p) ==
  /\ IsRunning(t, "run")
  /\ uxPriority' = [uxPriority EXCEPT ![other] = p]
  /\ itemValue' = [itemValue EXCEPT ![other] =
                     IF "inUse" \in @.control THEN @ ELSE PriorityValue(p)]
  /\ UNCHANGED <<group, state, pxCurrentTCB, local, gaveUp>>

Ready == {t \in Tasks : state[t] = "ready"}

vTaskSwitchContext ==
  /\ IF Ready = {}
     THEN pxCurrentTCB' = NoTask
     ELSE pxCurrentTCB' \in {t \in Ready : \A u \in Ready : uxPriority[u] <= uxPriority[t]}
  /\ pxCurrentTCB' # pxCurrentTCB
  /\ UNCHANGED <<group, itemValue, state, uxPriority, local, gaveUp>>

TaskStep(t) ==
  \/ \E bits \in SUBSET Bits : xEventGroupSetBits(t, bits) \/ xEventGroupClearBits(t, bits)
  \/ \E wait \in Waits :
       \/ WaitBits_Met(t, wait) \/ WaitBits_Block(t, wait)
       \/ \E set \in SUBSET Bits : xEventGroupSync(t, set, wait)
  \/ ResetEventItem_Read(t) \/ ResetEventItem_Store(t) \/ TestAgain(t)
  \/ \E other \in Tasks :
       vTaskSuspend(t, other) \/ \E p \in Priorities : vTaskPrioritySet(t, other, p)

Next ==
  \/ \E t \in Tasks : TaskStep(t) \/ TimeOut(t) \/ vTaskResume(t)
  \/ vTaskSwitchContext

Spec == Init /\ [][Next]_vars
-----------------------------------------------------------------------------
ItemValues ==
  [bits : SUBSET Bits, control : SUBSET ControlBits, priority : Priorities \cup {None}]

\* Every variable stays in its type, and the blocked tasks are those in the event list.
TypeOK ==
  /\ uxEventBits \subseteq Bits
  /\ xTasksWaitingForBits = {t \in Tasks : state[t] = "blocked"}
  /\ itemValue \in [Tasks -> ItemValues]
  /\ uxPriority \in [Tasks -> Priorities]
  /\ state \in [Tasks -> {"ready", "blocked", "suspended"}]
  /\ pxCurrentTCB \in Tasks \cup {NoTask}
  /\ pc \in [Tasks -> {"run", "waiting", "reset", "timedOut"}]
  /\ call \in [Tasks -> Waits \cup {NoCall}]
  /\ loaded \in [Tasks -> [value : ItemValues, priority : Priorities \cup {None}]]
  /\ gaveUp \subseteq Tasks

\* No task is left to wait for bits that are set: no order of sets, clears, waits
\* and timeouts leaves a task in the event list whose condition is met.
NoWaiterForgotten ==
  \A t \in xTasksWaitingForBits :
    ~prvTestWaitCondition(uxEventBits, call[t].bits, call[t].options)

\* A task that was released by a set runs with the bits that met its condition,
\* whatever is done to it and to the group before it does: they are in its event
\* item, marked as such, and no clear, suspension or change of priority takes them.
ReleasedWithItsBits ==
  \A t \in Tasks \ xTasksWaitingForBits :
    pc[t] = "waiting" =>
      IF t \in gaveUp THEN "unblocked" \notin itemValue[t].control
      ELSE /\ "unblocked" \in itemValue[t].control
           /\ prvTestWaitCondition(itemValue[t].bits, call[t].bits, call[t].options)

IsReleased(t) ==
  t \in xTasksWaitingForBits \ xTasksWaitingForBits' /\ t \notin gaveUp'

\* Tasks that wait for the same bits in the same way, as at a rendezvous, are
\* released together, also when the first of them clears the bits for all.
SameWaitSameRelease ==
  [][\A t, u \in xTasksWaitingForBits :
       /\ call[t].bits = call[u].bits /\ call[t].options = call[u].options
       => (IsReleased(t) => IsReleased(u))]_vars

\* The event item is in use, or has the value for which queues and semaphores take
\* it: the priority of its task.
ItemUpToDate(t) ==
  "inUse" \in itemValue[t].control \/ itemValue[t] = PriorityValue(uxPriority[t])

\* The item's two uses do not get in each other's way: through waits, releases,
\* timeouts and changes of priority the item is back at the task's priority whenever
\* it is not in use.  There is one exception, in uxTaskResetEventItemValue: the
\* priority was set after it was read and before the item is stored.
OnlyResetMissesPriority ==
  [][\A t \in Tasks :
       ItemUpToDate(t) /\ ~ItemUpToDate(t)' =>
         pc[t] = "reset" /\ loaded[t].priority # uxPriority[t]]_vars
=============================================================================
