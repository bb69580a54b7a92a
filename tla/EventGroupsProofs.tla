-------------------------- MODULE EventGroupsProofs --------------------------
(***************************************************************************)
(* EventGroups proved for any tasks, bits, priorities and waits.           *)
(***************************************************************************)
EXTENDS EventGroups, TLAPS

\* The types of the variables.
Types ==
  /\ uxEventBits \subseteq Bits /\ xTasksWaitingForBits \subseteq Tasks /\ gaveUp \subseteq Tasks
  /\ itemValue \in [Tasks -> ItemValues] /\ uxPriority \in [Tasks -> Priorities]
  /\ state \in [Tasks -> {"ready", "blocked", "suspended"}]
  /\ pxCurrentTCB \in Tasks \cup {NoTask}
  /\ pc \in [Tasks -> {"run", "waiting", "reset", "timedOut"}]
  /\ call \in [Tasks -> Waits \cup {NoCall}]
  /\ loaded \in [Tasks -> [value : ItemValues, priority : Priorities \cup {None}]]

\* A task in the event list waits for bits that are not set, and its event item
\* says what it waits for.
WaitsRightly(t) ==
  /\ state[t] = "blocked" /\ pc[t] = "waiting" /\ t \notin gaveUp
  /\ itemValue[t] = BitsValue(call[t].bits, call[t].options)
  /\ ~prvTestWaitCondition(uxEventBits, call[t].bits, call[t].options)

\* One that has left the list, and has not run yet, has its bits or gave up.
LeftRightly(t) ==
  IF t \in gaveUp THEN "unblocked" \notin itemValue[t].control
  ELSE /\ "unblocked" \in itemValue[t].control
       /\ prvTestWaitCondition(itemValue[t].bits, call[t].bits, call[t].options)

\* The event item is in use just while the task is in a wait or resets the item.
ItemInUse(t) ==
  IF pc[t] \in {"waiting", "reset"} THEN "inUse" \in itemValue[t].control
  ELSE "inUse" \notin itemValue[t].control

TaskInv(t) ==
  /\ state[t] = "blocked" => t \in xTasksWaitingForBits
  /\ t \in xTasksWaitingForBits => WaitsRightly(t)
  /\ t \notin xTasksWaitingForBits /\ pc[t] = "waiting" => LeftRightly(t)
  /\ ItemInUse(t)
  /\ t \in gaveUp => pc[t] = "waiting"
  /\ pc[t] # "run" => call[t] \in Waits
  /\ pc[t] = "reset" => loaded[t].priority \in Priorities

\* The inductive invariant.
Inv == Types /\ \A t \in Tasks : TaskInv(t)
-----------------------------------------------------------------------------
\* A condition that is not met is not met by fewer bits either.
LEMMA TestMonotone ==
  ASSUME NEW current, NEW fewer \in SUBSET current, NEW waited, NEW options,
         ~prvTestWaitCondition(current, waited, options)
  PROVE  ~prvTestWaitCondition(fewer, waited, options)
BY Zenon DEF prvTestWaitCondition

\* The mark that the item is in use does not change the condition.
LEMMA TestMarked ==
  ASSUME NEW current, NEW waited, NEW options
  PROVE  prvTestWaitCondition(current, waited, options \cup {"inUse"})
           <=> prvTestWaitCondition(current, waited, options)
BY DEF prvTestWaitCondition

\* The strengthening implies the invariants that the runs check.
LEMMA InvImplies ==
  Inv => TypeOK /\ NoWaiterForgotten /\ ReleasedWithItsBits
<1> SUFFICES ASSUME Inv PROVE TypeOK /\ NoWaiterForgotten /\ ReleasedWithItsBits
  OBVIOUS
<1>1. xTasksWaitingForBits = {t \in Tasks : state[t] = "blocked"}
  BY DEF Inv, Types, TaskInv, WaitsRightly
<1>2. TypeOK
  BY <1>1 DEF Inv, Types, TypeOK
<1>3. NoWaiterForgotten
  BY DEF Inv, Types, TaskInv, WaitsRightly, NoWaiterForgotten
<1>4. ReleasedWithItsBits
  BY DEF Inv, TaskInv, LeftRightly, ReleasedWithItsBits
<1> QED BY <1>2, <1>3, <1>4

LEMMA InitInv == Init => Inv
<1> SUFFICES ASSUME Init PROVE Inv
  OBVIOUS
<1>1. \A t \in Tasks : PriorityValue(InitialPriority[t]) \in ItemValues
  BY EventGroupsAssumption DEF PriorityValue, ItemValues
<1>2. NothingLoaded \in [value : ItemValues, priority : Priorities \cup {None}]
  BY DEF NothingLoaded, PriorityValue, ItemValues
<1>3. Types
  BY <1>1, <1>2, EventGroupsAssumption DEF Init, Types
<1>4. \A t \in Tasks : TaskInv(t)
  BY DEF Init, TaskInv, ItemInUse, PriorityValue
<1> QED BY <1>3, <1>4 DEF Inv
-----------------------------------------------------------------------------
\* What a set does to one task, once the bits of some waiters are cleared.
LEMMA AfterSetTypes ==
  ASSUME Inv, NEW set \in SUBSET Bits
  PROVE  /\ WithBits(set) \subseteq Bits /\ BitsAfter(set) \in SUBSET WithBits(set)
         /\ StillWaiting(set) \subseteq xTasksWaitingForBits
         /\ ItemValuesAfter(set) \in [Tasks -> ItemValues]
         /\ StatesAfter(set) \in [Tasks -> {"ready", "blocked", "suspended"}]
<1>1. WithBits(set) \subseteq Bits
  BY DEF Inv, Types, WithBits
<1>2. BitsValue(WithBits(set), {"unblocked"}) \in ItemValues
  BY <1>1 DEF BitsValue, ItemValues, ControlBits
<1>3. ItemValuesAfter(set) \in [Tasks -> ItemValues]
  BY <1>2 DEF Inv, Types, ItemValuesAfter
<1>4. StatesAfter(set) \in [Tasks -> {"ready", "blocked", "suspended"}]
  BY DEF Inv, Types, StatesAfter
<1> QED BY <1>1, <1>3, <1>4 DEF BitsAfter, StillWaiting

\* A waiter that the set does not release stays, and waits for bits not set.
LEMMA NotReleased ==
  ASSUME Inv, NEW set \in SUBSET Bits, NEW t \in Tasks, t \notin Matches(set)
  PROVE  /\ t \in StillWaiting(set) <=> t \in xTasksWaitingForBits
         /\ ItemValuesAfter(set)[t] = itemValue[t] /\ StatesAfter(set)[t] = state[t]
         /\ t \in xTasksWaitingForBits =>
              ~prvTestWaitCondition(BitsAfter(set), call[t].bits, call[t].options)
<1>1. /\ t \in StillWaiting(set) <=> t \in xTasksWaitingForBits
      /\ ItemValuesAfter(set)[t] = itemValue[t] /\ StatesAfter(set)[t] = state[t]
  BY DEF StillWaiting, ItemValuesAfter, StatesAfter
<1>2. ASSUME t \in xTasksWaitingForBits
      PROVE  ~prvTestWaitCondition(BitsAfter(set), call[t].bits, call[t].options)
  <2>1. itemValue[t] = BitsValue(call[t].bits, call[t].options)
    BY <1>2 DEF Inv, TaskInv, WaitsRightly
  <2>2. ~prvTestWaitCondition(WithBits(set), itemValue[t].bits, itemValue[t].control)
    BY <1>2 DEF Matches
  <2>3. ~prvTestWaitCondition(WithBits(set), call[t].bits, call[t].options)
    BY <2>1, <2>2, TestMarked DEF BitsValue
  <2> QED BY <2>3, TestMonotone, AfterSetTypes
<1> QED BY <1>1, <1>2

\* One that it releases becomes ready and has, in its event item, the bits that
\* met its condition.
LEMMA Released ==
  ASSUME Inv, NEW set \in SUBSET Bits, NEW t \in Matches(set)
  PROVE  /\ t \in xTasksWaitingForBits /\ t \notin StillWaiting(set) /\ t \in Tasks
         /\ StatesAfter(set)[t] = "ready"
         /\ ItemValuesAfter(set)[t] = BitsValue(WithBits(set), {"unblocked"})
         /\ prvTestWaitCondition(WithBits(set), call[t].bits, call[t].options)
<1>1. t \in xTasksWaitingForBits /\ t \in Tasks
  BY DEF Inv, Types, Matches
<1>2. /\ t \notin StillWaiting(set) /\ StatesAfter(set)[t] = "ready"
      /\ ItemValuesAfter(set)[t] = BitsValue(WithBits(set), {"unblocked"})
  BY <1>1 DEF StillWaiting, StatesAfter, ItemValuesAfter
<1>3. itemValue[t] = BitsValue(call[t].bits, call[t].options)
  BY <1>1 DEF Inv, TaskInv, WaitsRightly
<1>4. prvTestWaitCondition(WithBits(set), call[t].bits, call[t].options)
  BY <1>3, TestMarked DEF Matches, BitsValue
<1> QED BY <1>1, <1>2, <1>4

\* The tasks that another task's set does not block keep their invariant.
LEMMA AfterSet ==
  ASSUME Inv, NEW set \in SUBSET Bits, NEW t \in Tasks,
         uxEventBits' \subseteq BitsAfter(set),
         t \in xTasksWaitingForBits' <=> t \in StillWaiting(set),
         itemValue'[t] = ItemValuesAfter(set)[t], state'[t] = StatesAfter(set)[t],
         pc'[t] = pc[t], call'[t] = call[t], loaded'[t] = loaded[t],
         gaveUp' = gaveUp
  PROVE  TaskInv(t)'
<1>1. CASE t \in Matches(set)
  <2>1. WaitsRightly(t)
    BY <1>1, Released DEF Inv, TaskInv
  <2>2. itemValue'[t] = BitsValue(WithBits(set), {"unblocked"})
    BY <1>1, Released
  <2>3. /\ itemValue'[t].bits = WithBits(set)
        /\ "unblocked" \in itemValue'[t].control /\ "inUse" \in itemValue'[t].control
    BY <2>2 DEF BitsValue
  <2>4. prvTestWaitCondition(itemValue'[t].bits, call'[t].bits, call'[t].options)
    BY <1>1, <2>3, Released
  <2>5. LeftRightly(t)' /\ ItemInUse(t)'
    BY <2>1, <2>3, <2>4 DEF LeftRightly, ItemInUse, WaitsRightly
  <2> QED BY <1>1, <2>5, Released DEF Inv, TaskInv
<1>2. CASE t \notin Matches(set)
  <2>1. t \in xTasksWaitingForBits' => WaitsRightly(t)'
    <3> SUFFICES ASSUME t \in xTasksWaitingForBits' PROVE WaitsRightly(t)'
      OBVIOUS
    <3>1. t \in xTasksWaitingForBits /\ WaitsRightly(t)
      BY <1>2, NotReleased DEF Inv, TaskInv
    <3>2. ~prvTestWaitCondition(uxEventBits', call[t].bits, call[t].options)
      BY <1>2, <3>1, NotReleased, TestMonotone
    <3> QED BY <1>2, <3>1, <3>2, NotReleased DEF WaitsRightly
  <2>2. t \notin xTasksWaitingForBits' /\ pc'[t] = "waiting" => LeftRightly(t)'
    BY <1>2, NotReleased DEF Inv, TaskInv, LeftRightly
  <2>3. ItemInUse(t)'
    BY <1>2, NotReleased DEF Inv, TaskInv, ItemInUse
  <2> QED BY <1>2, <2>1, <2>2, <2>3, NotReleased DEF Inv, TaskInv
<1> QED BY <1>1, <1>2

\* A task that none of its variables changes keeps its invariant while bits are
\* only cleared.
LEMMA Untouched ==
  ASSUME Inv, NEW t \in Tasks, uxEventBits' \subseteq uxEventBits,
         t \in xTasksWaitingForBits' <=> t \in xTasksWaitingForBits,
         itemValue'[t] = itemValue[t], state'[t] = state[t],
         pc'[t] = pc[t], call'[t] = call[t], loaded'[t] = loaded[t],
         t \in gaveUp' <=> t \in gaveUp
  PROVE  TaskInv(t)'
<1>1. t \in xTasksWaitingForBits => WaitsRightly(t)'
  <2> SUFFICES ASSUME t \in xTasksWaitingForBits PROVE WaitsRightly(t)'
    OBVIOUS
  <2>1. WaitsRightly(t)
    BY DEF Inv, TaskInv
  <2>2. ~prvTestWaitCondition(uxEventBits', call[t].bits, call[t].options)
    BY <2>1, TestMonotone DEF WaitsRightly
  <2> QED BY <2>1, <2>2 DEF WaitsRightly
<1> QED BY <1>1 DEF Inv, TaskInv, LeftRightly, ItemInUse
-----------------------------------------------------------------------------
\* The invariant is kept by each call in turn.
LEMMA SetBitsInv ==
  ASSUME Inv, NEW t \in Tasks, NEW set \in SUBSET Bits, xEventGroupSetBits(t, set)
  PROVE  Inv'
<1>1. Types'
  BY AfterSetTypes DEF Inv, Types, xEventGroupSetBits, local
<1>2. ASSUME NEW u \in Tasks PROVE TaskInv(u)'
  BY AfterSet DEF xEventGroupSetBits, local
<1> QED BY <1>1, <1>2 DEF Inv

LEMMA ClearBitsInv ==
  ASSUME Inv, NEW t \in Tasks, NEW bits \in SUBSET Bits, xEventGroupClearBits(t, bits)
  PROVE  Inv'
<1>1. Types'
  BY DEF Inv, Types, xEventGroupClearBits, kernel, local
<1>2. ASSUME NEW u \in Tasks PROVE TaskInv(u)'
  BY Untouched DEF xEventGroupClearBits, kernel, local
<1> QED BY <1>1, <1>2 DEF Inv

LEMMA BlockInv ==
  ASSUME Inv, NEW t \in Tasks, NEW set \in SUBSET Bits, NEW wait \in Waits,
         IsRunning(t, "run"), BlockAfter(t, set, wait), uxEventBits' \subseteq BitsAfter(set),
         ~prvTestWaitCondition(uxEventBits', wait.bits, wait.options)
  PROVE  Inv'
<1>1. BitsValue(wait.bits, wait.options) \in ItemValues
  BY EventGroupsAssumption DEF BitsValue, ItemValues, Waits, ControlBits
<1>2. Types'
  BY <1>1, AfterSetTypes DEF Inv, Types, BlockAfter
<1>3. TaskInv(t)'
  <2>1. t \notin gaveUp
    BY DEF Inv, TaskInv, IsRunning
  <2>2. /\ itemValue'[t] = BitsValue(wait.bits, wait.options) /\ t \in xTasksWaitingForBits'
        /\ state'[t] = "blocked" /\ pc'[t] = "waiting" /\ call'[t] = wait /\ gaveUp' = gaveUp
    BY AfterSetTypes DEF BlockAfter, Inv, Types
  <2>3. WaitsRightly(t)'
    BY <2>1, <2>2 DEF WaitsRightly
  <2>4. ItemInUse(t)'
    BY <2>2 DEF ItemInUse, BitsValue
  <2> QED BY <2>2, <2>3, <2>4 DEF TaskInv
<1>4. ASSUME NEW u \in Tasks, u # t PROVE TaskInv(u)'
  <2>1. /\ u \in xTasksWaitingForBits' <=> u \in StillWaiting(set)
        /\ pc'[u] = pc[u] /\ call'[u] = call[u] /\ loaded'[u] = loaded[u] /\ gaveUp' = gaveUp
    BY <1>4 DEF BlockAfter, Inv, Types
  <2>2. itemValue'[u] = ItemValuesAfter(set)[u] /\ state'[u] = StatesAfter(set)[u]
    BY <1>4, AfterSetTypes DEF BlockAfter
  <2> QED BY <2>1, <2>2, AfterSet
<1> QED BY <1>2, <1>3, <1>4 DEF Inv

LEMMA WaitBitsInv ==
  ASSUME Inv, NEW t \in Tasks, NEW wait \in Waits,
         WaitBits_Met(t, wait) \/ WaitBits_Block(t, wait)
  PROVE  Inv'
<1>1. CASE WaitBits_Met(t, wait)
  <2>1. uxEventBits' \subseteq uxEventBits
    BY <1>1 DEF WaitBits_Met
  <2>2. Types'
    BY <1>1, <2>1 DEF Inv, Types, WaitBits_Met, kernel, local
  <2>3. ASSUME NEW u \in Tasks PROVE TaskInv(u)'
    BY <1>1, <2>1, Untouched DEF WaitBits_Met, kernel, local
  <2> QED BY <2>2, <2>3 DEF Inv
<1>2. CASE WaitBits_Block(t, wait)
  <2>1. IsRunning(t, "run") /\ BlockAfter(t, {}, wait) /\ uxEventBits' = uxEventBits
    BY <1>2 DEF WaitBits_Block
  <2>2. ~prvTestWaitCondition(uxEventBits', wait.bits, wait.options)
    BY <1>2 DEF WaitBits_Block
  <2>3. Matches({}) = {}
    <3> SUFFICES ASSUME NEW u \in Matches({}) PROVE FALSE
      OBVIOUS
    <3>1. u \in Tasks /\ u \in xTasksWaitingForBits
      BY Released
    <3>2. prvTestWaitCondition(WithBits({}), call[u].bits, call[u].options)
      BY Released
    <3> QED BY <3>1, <3>2 DEF Inv, TaskInv, WaitsRightly, WithBits
  <2>4. uxEventBits' \subseteq BitsAfter({})
    BY <2>1, <2>3 DEF BitsAfter, BitsToClear, WithBits
  <2> QED BY <2>1, <2>2, <2>4, BlockInv
<1> QED BY <1>1, <1>2

LEMMA SyncInv ==
  ASSUME Inv, NEW t \in Tasks, NEW set \in SUBSET Bits, NEW wait \in Waits,
         xEventGroupSync(t, set, wait)
  PROVE  Inv'
<1>1. CASE wait.bits \subseteq WithBits(set) \/ wait.wait = "none"
  <2>1. uxEventBits' \subseteq BitsAfter(set)
    BY <1>1 DEF xEventGroupSync
  <2>2. /\ xTasksWaitingForBits' = StillWaiting(set)
        /\ itemValue' = ItemValuesAfter(set) /\ state' = StatesAfter(set)
        /\ UNCHANGED <<uxPriority, pxCurrentTCB, pc, call, loaded, gaveUp>>
    BY <1>1 DEF xEventGroupSync, local
  <2>3. Types'
    BY <2>1, <2>2, AfterSetTypes DEF Inv, Types
  <2>4. ASSUME NEW u \in Tasks PROVE TaskInv(u)'
    BY <2>1, <2>2, AfterSet
  <2> QED BY <2>3, <2>4 DEF Inv
<1>2. CASE ~(wait.bits \subseteq WithBits(set) \/ wait.wait = "none")
  <2>1. /\ IsRunning(t, "run") /\ BlockAfter(t, set, wait) /\ uxEventBits' = BitsAfter(set)
        /\ wait.options = {"clear", "all"}
    BY <1>2 DEF xEventGroupSync
  <2>2. ~prvTestWaitCondition(uxEventBits', wait.bits, wait.options)
    BY <1>2, <2>1, AfterSetTypes DEF prvTestWaitCondition
  <2> QED BY <2>1, <2>2, BlockInv
<1> QED BY <1>1, <1>2

LEMMA ResetReadInv ==
  ASSUME Inv, NEW t \in Tasks, ResetEventItem_Read(t)
  PROVE  Inv'
<1>1. /\ pc[t] = "waiting" /\ state[t] = "ready" /\ pc' = [pc EXCEPT ![t] = "reset"]
      /\ loaded' = [loaded EXCEPT ![t] = [value |-> itemValue[t], priority |-> uxPriority[t]]]
      /\ gaveUp' = gaveUp \ {t} /\ UNCHANGED <<group, itemValue, kernel, call>>
  BY DEF ResetEventItem_Read, IsRunning
<1>2. [value |-> itemValue[t], priority |-> uxPriority[t]]
        \in [value : ItemValues, priority : Priorities \cup {None}]
  BY DEF Inv, Types
<1>3. Types'
  BY <1>1, <1>2 DEF Inv, Types, group, kernel
<1>4. TaskInv(t)'
  <2>1. t \notin xTasksWaitingForBits /\ call[t] \in Waits /\ "inUse" \in itemValue[t].control
    BY <1>1 DEF Inv, TaskInv, WaitsRightly, ItemInUse
  <2>2. pc'[t] = "reset" /\ loaded'[t].priority = uxPriority[t] /\ uxPriority[t] \in Priorities
    BY <1>1 DEF Inv, Types
  <2> QED BY <1>1, <2>1, <2>2 DEF TaskInv, ItemInUse, group, kernel
<1>5. ASSUME NEW u \in Tasks, u # t PROVE TaskInv(u)'
  <2>1. pc'[u] = pc[u] /\ loaded'[u] = loaded[u] /\ (u \in gaveUp' <=> u \in gaveUp)
    BY <1>1, <1>5 DEF Inv, Types
  <2> QED BY <1>1, <2>1, Untouched DEF group, kernel
<1> QED BY <1>3, <1>4, <1>5 DEF Inv

LEMMA ResetStoreInv ==
  ASSUME Inv, NEW t \in Tasks, ResetEventItem_Store(t)
  PROVE  Inv'
<1>1. /\ pc[t] = "reset" /\ state[t] = "ready"
      /\ itemValue' = [itemValue EXCEPT ![t] = PriorityValue(loaded[t].priority)]
      /\ loaded' = [loaded EXCEPT ![t] = NothingLoaded]
      /\ UNCHANGED <<group, kernel, gaveUp>>
  BY DEF ResetEventItem_Store, IsRunning
<1>2. \/ pc' = [pc EXCEPT ![t] = "run"] /\ call' = [call EXCEPT ![t] = NoCall]
      \/ pc' = [pc EXCEPT ![t] = "timedOut"] /\ call' = call
  BY Zenon DEF ResetEventItem_Store
<1>3. PriorityValue(loaded[t].priority) \in ItemValues
  BY DEF Inv, Types, PriorityValue, ItemValues
<1>4. NothingLoaded \in [value : ItemValues, priority : Priorities \cup {None}]
  BY DEF NothingLoaded, PriorityValue, ItemValues
<1>5. Types'
  BY <1>1, <1>2, <1>3, <1>4 DEF Inv, Types, group, kernel
<1>6. TaskInv(t)'
  <2>1. t \notin xTasksWaitingForBits /\ call[t] \in Waits /\ t \notin gaveUp
    BY <1>1 DEF Inv, TaskInv, WaitsRightly
  <2>2. /\ pc'[t] \in {"run", "timedOut"} /\ state'[t] = "ready"
        /\ t \notin xTasksWaitingForBits' /\ t \notin gaveUp'
        /\ pc'[t] # "run" => call'[t] = call[t]
    BY <1>1, <1>2, <2>1 DEF Inv, Types, group, kernel
  <2>3. "inUse" \notin itemValue'[t].control
    BY <1>1 DEF Inv, Types, PriorityValue
  <2> QED BY <2>1, <2>2, <2>3 DEF TaskInv, ItemInUse
<1>7. ASSUME NEW u \in Tasks, u # t PROVE TaskInv(u)'
  <2>1. /\ itemValue'[u] = itemValue[u] /\ pc'[u] = pc[u] /\ call'[u] = call[u]
        /\ loaded'[u] = loaded[u]
    BY <1>1, <1>2, <1>7 DEF Inv, Types
  <2> QED BY <1>1, <2>1, Untouched DEF group, kernel
<1> QED BY <1>5, <1>6, <1>7 DEF Inv

LEMMA TestAgainInv ==
  ASSUME Inv, NEW t \in Tasks, TestAgain(t)
  PROVE  Inv'
<1>1. uxEventBits' \subseteq uxEventBits
  BY DEF TestAgain
<1>2. Types'
  BY <1>1 DEF Inv, Types, TestAgain, kernel
<1>3. TaskInv(t)'
  <2>1. t \notin xTasksWaitingForBits /\ pc[t] = "timedOut" /\ state[t] = "ready"
    BY DEF Inv, TaskInv, WaitsRightly, TestAgain, IsRunning
  <2>2. pc'[t] = "run"
    BY DEF TestAgain, Inv, Types
  <2> QED BY <2>1, <2>2 DEF Inv, TaskInv, ItemInUse, TestAgain, kernel
<1>4. ASSUME NEW u \in Tasks, u # t PROVE TaskInv(u)'
  <2>1. pc'[u] = pc[u] /\ call'[u] = call[u]
    BY <1>4 DEF TestAgain, Inv, Types
  <2> QED BY <1>1, <2>1, Untouched DEF TestAgain, kernel
<1> QED BY <1>2, <1>3, <1>4 DEF Inv

\* A task that leaves the event list without its bits, or was not in it.
LEMMA LeaveInv ==
  ASSUME Inv, NEW t \in Tasks, NEW s \in {"ready", "suspended"}, LeaveEventList(t),
         state' = [state EXCEPT ![t] = s],
         UNCHANGED <<uxEventBits, itemValue, uxPriority, pxCurrentTCB, pc, call, loaded>>
  PROVE  Inv'
<1>1. \/ /\ t \in xTasksWaitingForBits /\ gaveUp' = gaveUp \cup {t}
         /\ xTasksWaitingForBits' = xTasksWaitingForBits \ {t}
      \/ /\ t \notin xTasksWaitingForBits /\ gaveUp' = gaveUp
         /\ xTasksWaitingForBits' = xTasksWaitingForBits
  BY Zenon DEF LeaveEventList
<1>2. Types'
  BY <1>1 DEF Inv, Types
<1>3. state'[t] # "blocked" /\ t \notin xTasksWaitingForBits'
  BY <1>1 DEF Inv, Types
<1>4. CASE t \in xTasksWaitingForBits
  <2>1. gaveUp' = gaveUp \cup {t}
    BY <1>1, <1>4
  <2>2. WaitsRightly(t) /\ call[t] \in Waits
    BY <1>4 DEF Inv, TaskInv, WaitsRightly
  <2>3. "unblocked" \notin itemValue[t].control
    BY <2>2, EventGroupsAssumption DEF WaitsRightly, BitsValue, Waits
  <2>4. TaskInv(t)'
    BY <1>3, <2>1, <2>2, <2>3 DEF Inv, TaskInv, LeftRightly, ItemInUse, WaitsRightly
  <2>5. ASSUME NEW u \in Tasks, u # t PROVE TaskInv(u)'
    <3>1. /\ state'[u] = state[u]
          /\ u \in gaveUp' <=> u \in gaveUp
          /\ u \in xTasksWaitingForBits' <=> u \in xTasksWaitingForBits
      BY <1>1, <2>5 DEF Inv, Types
    <3> QED BY <3>1, Untouched
  <2> QED BY <1>2, <2>4, <2>5 DEF Inv
<1>5. CASE t \notin xTasksWaitingForBits
  <2>1. TaskInv(t)'
    BY <1>1, <1>3, <1>5 DEF Inv, TaskInv, LeftRightly, ItemInUse
  <2>2. ASSUME NEW u \in Tasks, u # t PROVE TaskInv(u)'
    <3>1. state'[u] = state[u]
      BY <2>2 DEF Inv, Types
    <3> QED BY <1>1, <1>5, <3>1, Untouched
  <2> QED BY <1>2, <2>1, <2>2 DEF Inv
<1> QED BY <1>4, <1>5

LEMMA TimeOutSuspendInv ==
  ASSUME Inv, NEW t \in Tasks, NEW other \in Tasks, TimeOut(t) \/ vTaskSuspend(t, other)
  PROVE  Inv'
<1>1. CASE TimeOut(t)
  BY <1>1, LeaveInv DEF TimeOut, local
<1>2. CASE vTaskSuspend(t, other)
  BY <1>2, LeaveInv DEF vTaskSuspend, local
<1> QED BY <1>1, <1>2

LEMMA ResumeInv ==
  ASSUME Inv, NEW t \in Tasks, vTaskResume(t)
  PROVE  Inv'
<1>1. Types'
  BY DEF Inv, Types, vTaskResume, group, local
<1>2. TaskInv(t)'
  <2>1. t \notin xTasksWaitingForBits /\ state'[t] = "ready"
    BY DEF Inv, Types, TaskInv, WaitsRightly, vTaskResume
  <2> QED BY <2>1 DEF Inv, TaskInv, LeftRightly, ItemInUse, vTaskResume, group, local
<1>3. ASSUME NEW u \in Tasks, u # t PROVE TaskInv(u)'
  <2>1. state'[u] = state[u]
    BY <1>3 DEF Inv, Types, vTaskResume
  <2> QED BY <2>1, Untouched DEF vTaskResume, group, local
<1> QED BY <1>1, <1>2, <1>3 DEF Inv

LEMMA PrioritySetInv ==
  ASSUME Inv, NEW t \in Tasks, NEW other \in Tasks, NEW p \in Priorities,
         vTaskPrioritySet(t, other, p)
  PROVE  Inv'
<1>1. PriorityValue(p) \in ItemValues
  BY DEF PriorityValue, ItemValues
<1>2. Types'
  BY <1>1 DEF Inv, Types, vTaskPrioritySet, group, local
<1>3. /\ UNCHANGED <<group, state, local, gaveUp>>
      /\ \A u \in Tasks \ {other} : itemValue'[u] = itemValue[u]
      /\ itemValue'[other] = IF "inUse" \in itemValue[other].control THEN itemValue[other]
                             ELSE PriorityValue(p)
  BY DEF Inv, Types, vTaskPrioritySet
<1>4. ASSUME NEW u \in Tasks, itemValue'[u] = itemValue[u] PROVE TaskInv(u)'
  BY <1>3, <1>4, Untouched DEF group, local
<1>5. TaskInv(other)'
  <2>1. CASE "inUse" \in itemValue[other].control
    BY <1>3, <1>4, <2>1
  <2>2. CASE "inUse" \notin itemValue[other].control
    <3>1. pc[other] \notin {"waiting", "reset"}
      BY <2>2 DEF Inv, TaskInv, ItemInUse
    <3>2. "inUse" \notin itemValue'[other].control
      BY <1>3, <2>2 DEF PriorityValue
    <3>3. other \notin xTasksWaitingForBits
      BY <3>1 DEF Inv, TaskInv, WaitsRightly
    <3> QED BY <1>3, <3>1, <3>2, <3>3 DEF Inv, TaskInv, ItemInUse, group, local
  <2> QED BY <2>1, <2>2
<1> QED BY <1>2, <1>3, <1>4, <1>5 DEF Inv

\* A switch of tasks, or a step of the rest of the system.
LEMMA SwitchInv ==
  ASSUME Inv, vTaskSwitchContext \/ UNCHANGED vars
  PROVE  Inv'
<1>1. /\ UNCHANGED <<group, itemValue, state, uxPriority, local, gaveUp>>
      /\ pxCurrentTCB' \in Tasks \cup {NoTask}
  BY DEF vTaskSwitchContext, vars, kernel, Inv, Types, Ready
<1>2. Types'
  BY <1>1 DEF Inv, Types, group, local
<1>3. ASSUME NEW u \in Tasks PROVE TaskInv(u)'
  BY <1>1, Untouched DEF group, local
<1> QED BY <1>2, <1>3 DEF Inv

LEMMA NextInv == Inv /\ [Next]_vars => Inv'
<1> SUFFICES ASSUME Inv, [Next]_vars PROVE Inv'
  OBVIOUS
<1>1. CASE vTaskSwitchContext \/ UNCHANGED vars
  BY <1>1, SwitchInv
<1>2. ASSUME NEW t \in Tasks, TimeOut(t) \/ vTaskResume(t) PROVE Inv'
  BY <1>2, TimeOutSuspendInv, ResumeInv
<1>3. ASSUME NEW t \in Tasks, TaskStep(t) PROVE Inv'
  <2>1. CASE \E bits \in SUBSET Bits : xEventGroupSetBits(t, bits) \/ xEventGroupClearBits(t, bits)
    BY <2>1, SetBitsInv, ClearBitsInv
  <2>2. CASE \E wait \in Waits : WaitBits_Met(t, wait) \/ WaitBits_Block(t, wait)
    BY <2>2, WaitBitsInv
  <2>3. CASE \E wait \in Waits, set \in SUBSET Bits : xEventGroupSync(t, set, wait)
    BY <2>3, SyncInv
  <2>4. CASE ResetEventItem_Read(t) \/ ResetEventItem_Store(t) \/ TestAgain(t)
    BY <2>4, ResetReadInv, ResetStoreInv, TestAgainInv
  <2>5. CASE \E other \in Tasks :
               vTaskSuspend(t, other) \/ \E p \in Priorities : vTaskPrioritySet(t, other, p)
    BY <2>5, TimeOutSuspendInv, PrioritySetInv
  <2> QED BY <1>3, <2>1, <2>2, <2>3, <2>4, <2>5 DEF TaskStep
<1> QED BY <1>1, <1>2, <1>3 DEF Next

LEMMA Invariance == Spec => []Inv
BY InitInv, NextInv, PTL DEF Spec
-----------------------------------------------------------------------------
\* The event list holds just the blocked tasks, and every variable has its type.
THEOREM TypeCorrect == Spec => []TypeOK
BY Invariance, InvImplies, PTL

\* No calls, timeouts, suspensions and changes of priority, in any order, leave a
\* task in the event list with its condition met.
THEOREM NoneForgotten == Spec => []NoWaiterForgotten
BY Invariance, InvImplies, PTL

\* A task that xEventGroupSetBits released keeps the bits that met its condition
\* until it takes them from its event item.
THEOREM KeepsItsBits == Spec => []ReleasedWithItsBits
BY Invariance, InvImplies, PTL

\* xEventGroupSetBits releases all tasks that wait alike, or none.
THEOREM AlikeReleased == Spec => SameWaitSameRelease
<1> DEFINE Alike == \A t, u \in xTasksWaitingForBits :
             /\ call[t].bits = call[u].bits /\ call[t].options = call[u].options
             => (IsReleased(t) => IsReleased(u))
<1>1. ASSUME Inv, NEW set \in SUBSET Bits, NEW t, NEW u \in xTasksWaitingForBits,
             call[t].bits = call[u].bits, call[t].options = call[u].options, t \in Matches(set)
      PROVE  u \in Matches(set) /\ u \notin gaveUp
  <2>1. WaitsRightly(t) /\ WaitsRightly(u)
    BY <1>1, Released DEF Inv, Types, TaskInv
  <2>2. itemValue[t] = itemValue[u]
    BY <1>1, <2>1 DEF WaitsRightly
  <2> QED BY <1>1, <2>1, <2>2 DEF Matches, WaitsRightly
<1>2. ASSUME Inv, NEW set \in SUBSET Bits, xTasksWaitingForBits' = StillWaiting(set),
             gaveUp' = gaveUp
      PROVE  Alike
  BY <1>1, <1>2 DEF IsReleased, StillWaiting
<1>3. ASSUME Inv, NEW s \in Tasks, NEW set \in SUBSET Bits, NEW wait, BlockAfter(s, set, wait),
             IsRunning(s, "run")
      PROVE  Alike
  <2>1. s \notin xTasksWaitingForBits
    BY <1>3 DEF Inv, TaskInv, WaitsRightly, IsRunning
  <2> QED BY <1>1, <1>3, <2>1 DEF IsReleased, StillWaiting, BlockAfter
<1>4. ASSUME NEW s, LeaveEventList(s) PROVE Alike
  BY <1>4 DEF LeaveEventList, IsReleased
<1>5. ASSUME UNCHANGED xTasksWaitingForBits PROVE Alike
  BY <1>5 DEF IsReleased
<1>6. Inv /\ [Next]_vars => Alike
  <2> SUFFICES ASSUME Inv, [Next]_vars PROVE Alike
    OBVIOUS
  <2> HIDE DEF Alike
  <2>1. CASE vTaskSwitchContext \/ UNCHANGED vars
    BY <1>5, <2>1 DEF vTaskSwitchContext, vars, group
  <2>2. ASSUME NEW t \in Tasks, TimeOut(t) \/ vTaskResume(t) PROVE Alike
    BY <1>4, <1>5, <2>2 DEF TimeOut, vTaskResume, group
  <2>3. ASSUME NEW t \in Tasks, TaskStep(t) PROVE Alike
    <3>1. ASSUME NEW bits \in SUBSET Bits,
                 xEventGroupSetBits(t, bits) \/ xEventGroupClearBits(t, bits)
          PROVE  Alike
      BY <1>2, <1>5, <3>1 DEF xEventGroupSetBits, xEventGroupClearBits
    <3>2. ASSUME NEW wait \in Waits, WaitBits_Met(t, wait) \/ WaitBits_Block(t, wait)
          PROVE  Alike
      BY <1>3, <1>5, <3>2 DEF WaitBits_Met, WaitBits_Block
    <3>3. ASSUME NEW wait \in Waits, NEW set \in SUBSET Bits, xEventGroupSync(t, set, wait)
          PROVE  Alike
      BY <1>2, <1>3, <3>3 DEF xEventGroupSync
    <3>4. CASE ResetEventItem_Read(t) \/ ResetEventItem_Store(t) \/ TestAgain(t)
      BY <1>5, <3>4 DEF ResetEventItem_Read, ResetEventItem_Store, TestAgain, group
    <3>5. ASSUME NEW other \in Tasks,
                 vTaskSuspend(t, other) \/ \E p \in Priorities : vTaskPrioritySet(t, other, p)
          PROVE  Alike
      BY <1>4, <1>5, <3>5 DEF vTaskSuspend, vTaskPrioritySet, group
    <3> QED BY <2>3, <3>1, <3>2, <3>3, <3>4, <3>5 DEF TaskStep
  <2> QED BY <2>1, <2>2, <2>3 DEF Next
<1> QED BY <1>6, Invariance, PTL DEF Spec, SameWaitSameRelease

\* The event items of tasks in and out of waits follow the priorities, but for what
\* uxTaskResetEventItemValue stores after the priority it read was changed.
THEOREM ItemsKeepPriority == Spec => OnlyResetMissesPriority
<1> DEFINE Missed(t) == pc[t] = "reset" /\ loaded[t].priority # uxPriority[t]
           Keeps(t) == ItemUpToDate(t) /\ ~ItemUpToDate(t)' => Missed(t)
<1>1. ASSUME NEW t, itemValue'[t] = itemValue[t], uxPriority'[t] = uxPriority[t] PROVE Keeps(t)
  BY <1>1 DEF ItemUpToDate
<1>2. ASSUME NEW t, "inUse" \in itemValue'[t].control PROVE Keeps(t)
  BY <1>2 DEF ItemUpToDate
<1>3. ASSUME Inv, NEW set \in SUBSET Bits, NEW t \in Tasks,
             itemValue'[t] = ItemValuesAfter(set)[t], uxPriority' = uxPriority
      PROVE  Keeps(t)
  <2>1. CASE t \in Matches(set)
    <3>1. itemValue'[t] = BitsValue(WithBits(set), {"unblocked"})
      BY <1>3, <2>1, Released
    <3> QED BY <1>2, <3>1 DEF BitsValue
  <2>2. CASE t \notin Matches(set)
    BY <1>1, <1>3, <2>2, NotReleased
  <2> QED BY <2>1, <2>2
<1>4. ASSUME Inv, NEW s \in Tasks, NEW set \in SUBSET Bits, NEW wait, BlockAfter(s, set, wait),
             NEW t \in Tasks
      PROVE  Keeps(t)
  <2>1. CASE t = s
    <3>1. itemValue'[t] = BitsValue(wait.bits, wait.options)
      BY <1>4, <2>1, AfterSetTypes DEF BlockAfter
    <3> QED BY <1>2, <3>1 DEF BitsValue
  <2>2. CASE t # s
    BY <1>3, <1>4, <2>2, AfterSetTypes DEF BlockAfter
  <2> QED BY <2>1, <2>2
<1>5. ASSUME Inv, NEW s \in Tasks, ResetEventItem_Store(s), NEW t \in Tasks PROVE Keeps(t)
  <2>1. CASE t = s
    <3>1. itemValue'[t] = PriorityValue(loaded[t].priority) /\ pc[t] = "reset"
      BY <1>5, <2>1 DEF ResetEventItem_Store, IsRunning, Inv, Types
    <3>2. uxPriority' = uxPriority
      BY <1>5 DEF ResetEventItem_Store, kernel
    <3> QED BY <3>1, <3>2 DEF ItemUpToDate
  <2>2. CASE t # s
    BY <1>1, <1>5, <2>2 DEF ResetEventItem_Store, kernel, Inv, Types
  <2> QED BY <2>1, <2>2
<1>6. ASSUME Inv, NEW s, NEW other \in Tasks, NEW p \in Priorities,
             vTaskPrioritySet(s, other, p), NEW t \in Tasks
      PROVE  Keeps(t)
  <2>1. CASE t = other
    <3>1. /\ uxPriority'[t] = p
          /\ itemValue'[t] = IF "inUse" \in itemValue[t].control THEN itemValue[t]
                             ELSE PriorityValue(p)
      BY <1>6, <2>1 DEF vTaskPrioritySet, Inv, Types
    <3> QED BY <3>1 DEF ItemUpToDate
  <2>2. CASE t # other
    BY <1>1, <1>6, <2>2 DEF vTaskPrioritySet, Inv, Types
  <2> QED BY <2>1, <2>2
<1>7. ASSUME NEW t, UNCHANGED <<itemValue, uxPriority>> PROVE Keeps(t)
  BY <1>1, <1>7
<1>8. Inv /\ [Next]_vars => \A t \in Tasks : Keeps(t)
  <2> SUFFICES ASSUME Inv, [Next]_vars, NEW t \in Tasks PROVE Keeps(t)
    OBVIOUS
  <2> HIDE DEF Keeps
  <2>1. CASE vTaskSwitchContext \/ UNCHANGED vars
    BY <1>7, <2>1 DEF vTaskSwitchContext, vars, kernel
  <2>2. ASSUME NEW s \in Tasks, TimeOut(s) \/ vTaskResume(s) PROVE Keeps(t)
    BY <1>7, <2>2 DEF TimeOut, vTaskResume
  <2>3. ASSUME NEW s \in Tasks, TaskStep(s) PROVE Keeps(t)
    <3>1. ASSUME NEW bits \in SUBSET Bits,
                 xEventGroupSetBits(s, bits) \/ xEventGroupClearBits(s, bits)
          PROVE  Keeps(t)
      BY <1>3, <1>7, <3>1 DEF xEventGroupSetBits, xEventGroupClearBits, kernel
    <3>2. ASSUME NEW wait \in Waits, WaitBits_Met(s, wait) \/ WaitBits_Block(s, wait)
          PROVE  Keeps(t)
      BY <1>4, <1>7, <2>3, <3>2 DEF WaitBits_Met, WaitBits_Block, kernel
    <3>3. ASSUME NEW wait \in Waits, NEW set \in SUBSET Bits, xEventGroupSync(s, set, wait)
          PROVE  Keeps(t)
      BY <1>3, <1>4, <2>3, <3>3 DEF xEventGroupSync
    <3>4. CASE ResetEventItem_Read(s) \/ ResetEventItem_Store(s) \/ TestAgain(s)
      BY <1>5, <1>7, <2>3, <3>4 DEF ResetEventItem_Read, TestAgain, kernel
    <3>5. ASSUME NEW other \in Tasks,
                 vTaskSuspend(s, other) \/ \E p \in Priorities : vTaskPrioritySet(s, other, p)
          PROVE  Keeps(t)
      BY <1>6, <1>7, <3>5 DEF vTaskSuspend
    <3> QED BY <2>3, <3>1, <3>2, <3>3, <3>4, <3>5 DEF TaskStep
  <2> QED BY <2>1, <2>2, <2>3 DEF Next
<1> QED BY <1>8, Invariance, PTL DEF Spec, OnlyResetMissesPriority
=============================================================================
