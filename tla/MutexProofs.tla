----------------------------- MODULE MutexProofs -----------------------------
(***************************************************************************)
(* Mutex proved for any tasks, mutexes, priorities and block times.        *)
(***************************************************************************)
EXTENDS Mutex, ListsProofs

\* The ready lists, when just these tasks are ready, with these priorities.
ReadyLists(ready, priority) == [p \in Priorities |-> {t \in ready : priority[t] = p}]

Types ==
  /\ pxMutexHolder \in [Mutexes -> Tasks \cup {NoTask}]
  /\ uxRecursiveCallCount \in [Mutexes -> 0 .. MaxRecursion]
  /\ xTasksWaitingToReceive \in [Mutexes -> ListOf(Tasks)]
  /\ uxPriority \in [Tasks -> Priorities] /\ uxBasePriority \in [Tasks -> Priorities]
  /\ uxMutexesHeld \in [Tasks -> Nat] /\ xItemValue \in [Tasks -> Priorities]
  /\ xDelayedTaskList \subseteq Tasks /\ xSuspendedTaskList \subseteq Tasks \ xDelayedTaskList
  /\ pxCurrentTCB \in Tasks \cup {NoTask}
  /\ pc \in [Tasks -> {"run", "lock", "try", "last"}]
  /\ call \in [Tasks -> Calls \cup {NoCall}]
  /\ owed \in [Tasks -> Priorities \cup {NoPriority}]

ReadyExact == pxReadyTasksLists = ReadyLists(Ready, uxPriority)

\* A mutex that nobody holds was not taken; a task in a take has its arguments; a task
\* in an event list waits there for that mutex.
NotTaken == \A m \in Mutexes : pxMutexHolder[m] = NoTask => uxRecursiveCallCount[m] = 0

InCall == \A t \in Tasks : pc[t] # "run" => call[t] \in Calls

WaitsRightly ==
  \A m \in Mutexes : \A t \in Waiters(m) :
    pc[t] = "try" /\ call[t].mutex = m /\ t \notin Ready

\* The inductive invariant.
Inv ==
  /\ Types /\ ReadyExact /\ NotTaken /\ InCall /\ WaitsRightly
  /\ BasePriorityRestored /\ HolderNotOutranked /\ NoWaiterForgotten
-----------------------------------------------------------------------------
LEMMA ItemValueType == \A p \in Priorities : ItemValue(p) \in Priorities
BY MutexAssumption DEF ItemValue, Priorities

LEMMA WaitersAreTasks ==
  ASSUME Types, NEW m \in Mutexes
  PROVE  /\ xTasksWaitingToReceive[m] \in ListOf(Tasks) /\ Waiters(m) \subseteq Tasks
         /\ IsEmpty(xTasksWaitingToReceive[m]) <=> Waiters(m) = {}
         /\ ~IsEmpty(xTasksWaitingToReceive[m]) =>
              HeadOwner(xTasksWaitingToReceive[m]) \in Waiters(m)
<1>1. xTasksWaitingToReceive[m] \in ListOf(Tasks)
  BY DEF Types
<1>2. Waiters(m) \subseteq Tasks
  BY <1>1, ListFields, SeqPositions DEF Waiters
<1> QED BY <1>1, <1>2, IsEmptyIffNoOwner DEF Waiters

\* What uxListRemove and prvAddTaskToReadyList do to exact ready lists.
LEMMA ReadyAtLists ==
  ASSUME NEW R \in SUBSET Tasks, NEW prio \in [Tasks -> Priorities],
         NEW t \in Tasks, NEW q \in Priorities
  PROVE  ReadyAt(ReadyLists(R, prio), t, q) = ReadyLists(R \cup {t}, [prio EXCEPT ![t] = q])
BY DEF ReadyAt, ReadyLists

LEMMA NotReadyLists ==
  ASSUME NEW R, NEW prio, NEW t
  PROVE  NotReady(ReadyLists(R, prio), t) = ReadyLists(R \ {t}, prio)
BY DEF NotReady, ReadyLists

\* The priority of a task that is not ready does not show in them.
LEMMA BlockedInNoList ==
  ASSUME NEW R \in SUBSET Tasks, NEW prio \in [Tasks -> Priorities],
         NEW t \in Tasks \ R, NEW q \in Priorities
  PROVE  ReadyLists(R, [prio EXCEPT ![t] = q]) = ReadyLists(R, prio)
BY DEF ReadyLists

LEMMA InReadyList ==
  ASSUME Types, ReadyExact, NEW t \in Tasks
  PROVE  t \in pxReadyTasksLists[uxPriority[t]] <=> t \in Ready
BY DEF Types, ReadyExact, ReadyLists

\* uxMutexesHeld says how many mutexes a task holds.
LEMMA HeldCounts ==
  ASSUME Types, BasePriorityRestored, NEW t \in Tasks
  PROVE  /\ IsFiniteSet(HeldBy(t)) /\ uxMutexesHeld[t] = Cardinality(HeldBy(t))
         /\ uxMutexesHeld[t] = 0 <=> HeldBy(t) = {}
         /\ \A m \in HeldBy(t) :
              /\ uxMutexesHeld[t] >= 1
              /\ Cardinality(HeldBy(t) \ {m}) = uxMutexesHeld[t] - 1
              /\ uxMutexesHeld[t] = 1 => HeldBy(t) = {m}
<1>1. HeldBy(t) \subseteq Mutexes /\ IsFiniteSet(HeldBy(t))
  BY MutexAssumption, FS_Subset DEF HeldBy
<1>2. uxMutexesHeld[t] = Cardinality(HeldBy(t)) /\ uxMutexesHeld[t] \in Nat
  BY DEF BasePriorityRestored, Types
<1>3. uxMutexesHeld[t] = 0 <=> HeldBy(t) = {}
  BY <1>1, <1>2, FS_EmptySet
<1>4. ASSUME NEW m \in HeldBy(t)
      PROVE  /\ uxMutexesHeld[t] >= 1
             /\ Cardinality(HeldBy(t) \ {m}) = uxMutexesHeld[t] - 1
             /\ uxMutexesHeld[t] = 1 => HeldBy(t) = {m}
  <2>1. /\ IsFiniteSet(HeldBy(t) \ {m})
        /\ Cardinality(HeldBy(t) \ {m}) = Cardinality(HeldBy(t)) - 1
    BY <1>1, FS_RemoveElement
  <2>2. uxMutexesHeld[t] = 1 => HeldBy(t) \ {m} = {}
    BY <1>2, <2>1, FS_EmptySet
  <2> QED BY <1>2, <1>3, <2>1, <2>2
<1> QED BY <1>1, <1>2, <1>3, <1>4

\* A task that leaves all event lists.
LEMMA LeaveWaiters ==
  ASSUME Types, NEW t \in Tasks, LeaveEventLists(t)
  PROVE  /\ xTasksWaitingToReceive' \in [Mutexes -> ListOf(Tasks)]
         /\ \A m \in Mutexes : Waiters(m)' = Waiters(m) \ {t}
         /\ owed' \in [Tasks -> Priorities \cup {NoPriority}]
         /\ \A u \in Tasks : u # t => owed'[u] = owed[u]
<1>1. ASSUME NEW m \in Mutexes
      PROVE  xTasksWaitingToReceive'[m] \in ListOf(Tasks) /\ Waiters(m)' = Waiters(m) \ {t}
  <2>1. CASE t \in Waiters(m)
    <3>1. xTasksWaitingToReceive'[m] = uxListRemove(xTasksWaitingToReceive[m], t)
      BY <2>1 DEF LeaveEventLists
    <3> QED BY <2>1, <3>1, RemoveOwners, WaitersAreTasks DEF Waiters
  <2>2. CASE t \notin Waiters(m)
    <3>1. xTasksWaitingToReceive'[m] = xTasksWaitingToReceive[m]
      BY <2>2 DEF LeaveEventLists
    <3> QED BY <2>2, <3>1, WaitersAreTasks DEF Waiters
  <2> QED BY <2>1, <2>2
<1>2. xTasksWaitingToReceive' = [m \in Mutexes |-> xTasksWaitingToReceive'[m]]
  BY DEF LeaveEventLists
<1> QED BY <1>1, <1>2 DEF Types, LeaveEventLists
-----------------------------------------------------------------------------
LEMMA InitInv == Init => Inv
<1> SUFFICES ASSUME Init PROVE Inv
  OBVIOUS
<1>1. \A m \in Mutexes : xTasksWaitingToReceive[m] \in ListOf(Tasks) /\ Waiters(m) = {}
  BY EmptyList DEF Init, Waiters
<1>2. Types
  BY <1>1, MutexAssumption, ItemValueType DEF Init, Types
<1>3. ReadyExact /\ NotTaken /\ InCall /\ WaitsRightly
  BY <1>1, MutexAssumption DEF Init, ReadyExact, ReadyLists, Ready, NotTaken, InCall, WaitsRightly
<1>4. BasePriorityRestored
  <2>1. \A t \in Tasks : HeldBy(t) = {}
    BY MutexAssumption DEF Init, HeldBy
  <2> QED BY <2>1, FS_EmptySet DEF Init, BasePriorityRestored
<1>5. HolderNotOutranked /\ NoWaiterForgotten
  BY <1>1 DEF HolderNotOutranked, NoWaiterForgotten
<1> QED BY <1>2, <1>3, <1>4, <1>5 DEF Inv
-----------------------------------------------------------------------------
\* What concerns mutexes and priorities holds while those do not change, and tasks
\* only leave event lists.
LEMMA SameMutexes ==
  ASSUME Inv, UNCHANGED <<pxMutexHolder, priorities>>,
         \A m \in Mutexes : Waiters(m)' \subseteq Waiters(m),
         \A m \in Mutexes : \A t \in Waiters(m)' : owed'[t] = owed[t]
  PROVE  BasePriorityRestored' /\ HolderNotOutranked'
<1>1. BasePriorityRestored'
  BY DEF Inv, BasePriorityRestored, HeldBy, priorities
<1>2. HolderNotOutranked'
  BY DEF Inv, HolderNotOutranked, priorities
<1> QED BY <1>1, <1>2

\* The calls of a take that change only where the task is in it.
LEMMA QuietInv ==
  ASSUME Inv, NEW t \in Tasks, NEW c \in Calls,
         GoOnToWait(t, c) \/ TryAgain(t) \/ GiveUp(t) \/ LastLook(t)
  PROVE  Inv'
<1>1. UNCHANGED <<mutexes, priorities, lists, pxCurrentTCB, owed>> /\ t \in Ready
  BY DEF GoOnToWait, TryAgain, GiveUp, LastLook, Attempts, IsRunning
<1>2. \/ pc' = [pc EXCEPT ![t] = "lock"] /\ call' = [call EXCEPT ![t] = c]
      \/ pc' = [pc EXCEPT ![t] = "try"] /\ call' = call /\ pc[t] # "run"
      \/ pc' = [pc EXCEPT ![t] = "last"] /\ call' = [call EXCEPT ![t].wait = "over"] /\ pc[t] = "lock"
      \/ pc' = [pc EXCEPT ![t] = "run"] /\ call' = [call EXCEPT ![t] = NoCall]
  BY Zenon DEF GoOnToWait, TryAgain, GiveUp, LastLook, IsRunning
<1>3. call[t] \in Calls => [call[t] EXCEPT !.wait = "over"] \in Calls
  BY DEF Calls
<1>4. Types' /\ InCall'
  BY <1>1, <1>2, <1>3 DEF Inv, Types, InCall, mutexes, priorities, lists
<1>5. ReadyExact' /\ NotTaken'
  BY <1>1 DEF Inv, ReadyExact, NotTaken, Ready, mutexes, priorities, lists
<1>6. \A m \in Mutexes : Waiters(m)' = Waiters(m)
  BY <1>1 DEF Waiters, mutexes
<1>7. \A u \in Tasks : u # t => pc'[u] = pc[u] /\ call'[u] = call[u]
  BY <1>2 DEF Inv, Types
<1>8. WaitsRightly'
  <2> SUFFICES ASSUME NEW m \in Mutexes, NEW u \in Waiters(m)'
               PROVE  pc'[u] = "try" /\ call'[u].mutex = m /\ u \notin Ready'
    BY DEF WaitsRightly
  <2>1. /\ u \in Waiters(m) /\ pc[u] = "try" /\ call[u].mutex = m /\ u \notin Ready
        /\ u \in Tasks
    BY <1>6, WaitersAreTasks DEF Inv, WaitsRightly
  <2> QED BY <1>1, <1>7, <2>1 DEF Ready, lists
<1>9. NoWaiterForgotten'
  <2> SUFFICES ASSUME NEW m \in Mutexes, pxMutexHolder[m] = NoTask, Waiters(m) # {}
               PROVE  \E u \in Tasks \ Waiters(m) : pc'[u] = "try" /\ call'[u].mutex = m
    BY <1>1, <1>6 DEF NoWaiterForgotten, mutexes
  <2>1. PICK u \in Tasks \ Waiters(m) : pc[u] = "try" /\ call[u].mutex = m
    BY DEF Inv, NoWaiterForgotten
  <2>2. u # t
    BY <2>1 DEF GoOnToWait, TryAgain, GiveUp, LastLook, Attempts, IsRunning
  <2> QED BY <1>7, <2>1, <2>2
<1>10. BasePriorityRestored' /\ HolderNotOutranked'
  BY <1>1, <1>6, SameMutexes DEF mutexes
<1> QED BY <1>4, <1>5, <1>8, <1>9, <1>10 DEF Inv

\* The further takes and gives of a recursive mutex.
LEMMA CountInv ==
  ASSUME Inv, NEW t \in Tasks, NEW m \in Mutexes, TakeAgain(t, m) \/ GiveOnce(t, m)
  PROVE  Inv'
<1>1. /\ UNCHANGED <<pxMutexHolder, xTasksWaitingToReceive, priorities, lists,
                     pxCurrentTCB, pc, call, owed>>
      /\ pxMutexHolder[m] = t
  BY DEF TakeAgain, GiveOnce
<1>2. \E n \in 0 .. MaxRecursion : uxRecursiveCallCount' = [uxRecursiveCallCount EXCEPT ![m] = n]
  <2>1. uxRecursiveCallCount[m] \in 0 .. MaxRecursion /\ MaxRecursion \in Nat
    BY MutexAssumption DEF Inv, Types
  <2>2. CASE TakeAgain(t, m)
    <3>1. uxRecursiveCallCount[m] + 1 \in 0 .. MaxRecursion
      BY <2>1, <2>2 DEF TakeAgain
    <3>2. uxRecursiveCallCount' = [uxRecursiveCallCount EXCEPT ![m] = uxRecursiveCallCount[m] + 1]
      BY <2>2 DEF TakeAgain
    <3> QED BY <3>1, <3>2
  <2>3. CASE GiveOnce(t, m)
    <3>1. uxRecursiveCallCount[m] - 1 \in 0 .. MaxRecursion
      BY <2>1, <2>3 DEF GiveOnce
    <3>2. uxRecursiveCallCount' = [uxRecursiveCallCount EXCEPT ![m] = uxRecursiveCallCount[m] - 1]
      BY <2>3 DEF GiveOnce
    <3> QED BY <3>1, <3>2
  <2> QED BY <2>2, <2>3
<1>3. Types'
  BY <1>1, <1>2 DEF Inv, Types, priorities, lists
<1>4. NotTaken'
  BY <1>1, <1>2, MutexAssumption DEF Inv, Types, NotTaken
<1>5. \A k \in Mutexes : Waiters(k)' = Waiters(k)
  BY <1>1 DEF Waiters
<1>6. ReadyExact' /\ InCall' /\ WaitsRightly' /\ NoWaiterForgotten'
  BY <1>1, <1>5 DEF Inv, ReadyExact, InCall, WaitsRightly, NoWaiterForgotten, Ready, priorities, lists
<1>7. BasePriorityRestored' /\ HolderNotOutranked'
  BY <1>1, <1>5, SameMutexes
<1> QED BY <1>3, <1>4, <1>6, <1>7 DEF Inv

\* A switch of tasks, or a step of the rest of the system.
LEMMA SwitchInv ==
  ASSUME Inv, vTaskSwitchContext \/ UNCHANGED vars
  PROVE  Inv'
<1>1. UNCHANGED <<mutexes, priorities, lists, pc, call, owed>>
  BY DEF vTaskSwitchContext, vars
<1>2. pxCurrentTCB' \in Tasks \cup {NoTask}
  <2>1. \A p \in Priorities : pxReadyTasksLists[p] \subseteq Tasks
    BY DEF Inv, ReadyExact, ReadyLists, Ready
  <2>2. CASE UNCHANGED vars
    BY <2>2 DEF Inv, Types, vars
  <2>3. CASE vTaskSwitchContext
    BY <2>1, <2>3 DEF vTaskSwitchContext
  <2> QED BY <2>2, <2>3
<1>3. Types'
  BY <1>1, <1>2 DEF Inv, Types, mutexes, priorities, lists
<1>4. \A m \in Mutexes : Waiters(m)' = Waiters(m)
  BY <1>1 DEF Waiters, mutexes
<1>5. ReadyExact' /\ NotTaken' /\ InCall' /\ WaitsRightly' /\ NoWaiterForgotten'
  BY <1>1, <1>4 DEF Inv, ReadyExact, NotTaken, InCall, WaitsRightly, NoWaiterForgotten, Ready,
                    mutexes, priorities, lists
<1>6. BasePriorityRestored' /\ HolderNotOutranked'
  BY <1>1, <1>4, SameMutexes DEF mutexes
<1> QED BY <1>3, <1>5, <1>6 DEF Inv

\* Delays and resumptions only change which tasks are ready.
LEMMA DelayResumeInv ==
  ASSUME Inv, NEW t \in Tasks, vTaskDelay(t) \/ vTaskResume(t)
  PROVE  Inv'
<1>1. UNCHANGED <<mutexes, priorities, pxCurrentTCB, pc, call, owed>>
  BY DEF vTaskDelay, vTaskResume
<1>2. Types'
  BY <1>1 DEF Inv, Types, vTaskDelay, vTaskResume, Ready, IsRunning, mutexes, priorities
<1>3. \A m \in Mutexes : Waiters(m)' = Waiters(m) /\ t \notin Waiters(m)
  BY <1>1 DEF Waiters, mutexes, Inv, WaitsRightly, vTaskDelay, vTaskResume, IsRunning
<1>4. ReadyExact'
  <2>1. CASE vTaskDelay(t)
    <3>1. Ready' = Ready \ {t}
      BY <2>1 DEF vTaskDelay, Ready
    <3> QED BY <1>1, <2>1, <3>1, NotReadyLists DEF vTaskDelay, Inv, ReadyExact, priorities
  <2>2. CASE vTaskResume(t)
    <3>1. Ready' = Ready \cup {t} /\ Ready \subseteq Tasks
      BY <2>2 DEF vTaskResume, Ready, Inv, Types
    <3>2. uxPriority = [uxPriority EXCEPT ![t] = uxPriority[t]]
      BY DEF Inv, Types
    <3>3. ReadyAt(ReadyLists(Ready, uxPriority), t, uxPriority[t]) = ReadyLists(Ready \cup {t}, uxPriority)
      BY <3>1, <3>2, ReadyAtLists DEF Inv, Types
    <3> QED BY <1>1, <2>2, <3>1, <3>3 DEF vTaskResume, Inv, ReadyExact, priorities
  <2> QED BY <2>1, <2>2
<1>5. WaitsRightly'
  <2>1. \A u \in Tasks : u # t /\ u \notin Ready => u \notin Ready'
    BY DEF vTaskDelay, vTaskResume, Ready
  <2> QED BY <1>1, <1>3, <2>1, WaitersAreTasks DEF Inv, WaitsRightly
<1>6. NotTaken' /\ InCall' /\ NoWaiterForgotten'
  BY <1>1, <1>3 DEF Inv, NotTaken, InCall, NoWaiterForgotten, mutexes
<1>7. BasePriorityRestored' /\ HolderNotOutranked'
  BY <1>1, <1>3, SameMutexes DEF mutexes
<1> QED BY <1>2, <1>4, <1>5, <1>6, <1>7 DEF Inv

\* A task that a timeout or a suspension takes out of the event lists.
LEMMA LeaveInv ==
  ASSUME Inv, NEW t \in Tasks, NEW other \in Tasks, TimeOut(t) \/ vTaskSuspend(other, t)
  PROVE  Inv'
<1>1. /\ UNCHANGED <<pxMutexHolder, uxRecursiveCallCount, priorities, pxCurrentTCB, pc>>
      /\ LeaveEventLists(t)
  BY DEF TimeOut, vTaskSuspend
<1>2. /\ xTasksWaitingToReceive' \in [Mutexes -> ListOf(Tasks)]
      /\ \A m \in Mutexes : Waiters(m)' = Waiters(m) \ {t}
      /\ owed' \in [Tasks -> Priorities \cup {NoPriority}]
      /\ \A u \in Tasks : u # t => owed'[u] = owed[u]
  BY <1>1, LeaveWaiters DEF Inv
<1>3. \/ call' = call
      \/ call' = [call EXCEPT ![t].wait = "over"] /\ call[t] \in Calls
  BY Zenon DEF TimeOut, vTaskSuspend, Inv, InCall
<1>4. call[t] \in Calls => [call[t] EXCEPT !.wait = "over"] \in Calls
  BY DEF Calls
<1>5. /\ call' \in [Tasks -> Calls \cup {NoCall}]
      /\ \A u \in Tasks : call[u] \in Calls =>
           call'[u] \in Calls /\ call'[u].mutex = call[u].mutex
  BY <1>3, <1>4 DEF Inv, Types, Calls
<1>6. \/ /\ TimeOut(t) /\ t \in xDelayedTaskList /\ Ready' = Ready \cup {t}
         /\ xDelayedTaskList' = xDelayedTaskList \ {t} /\ xSuspendedTaskList' = xSuspendedTaskList
      \/ /\ vTaskSuspend(other, t) /\ Ready' = Ready \ {t}
         /\ xDelayedTaskList' = xDelayedTaskList \ {t}
         /\ xSuspendedTaskList' = xSuspendedTaskList \cup {t}
  BY DEF TimeOut, vTaskSuspend, Ready, Inv, Types
<1>7. Types'
  BY <1>1, <1>2, <1>5, <1>6 DEF Inv, Types, priorities
<1>8. ReadyExact'
  <2>1. CASE vTaskSuspend(other, t) /\ Ready' = Ready \ {t}
    BY <1>1, <2>1, NotReadyLists DEF vTaskSuspend, Inv, ReadyExact, priorities
  <2>2. CASE TimeOut(t) /\ Ready' = Ready \cup {t}
    <3>1. uxPriority = [uxPriority EXCEPT ![t] = uxPriority[t]] /\ Ready \subseteq Tasks
      BY DEF Inv, Types, Ready
    <3>2. ReadyAt(ReadyLists(Ready, uxPriority), t, uxPriority[t]) = ReadyLists(Ready \cup {t}, uxPriority)
      BY <3>1, ReadyAtLists DEF Inv, Types
    <3> QED BY <1>1, <2>2, <3>2 DEF TimeOut, Inv, ReadyExact, priorities
  <2> QED BY <1>6, <2>1, <2>2
<1>9. NotTaken' /\ InCall'
  BY <1>1, <1>5 DEF Inv, NotTaken, InCall
<1>10. WaitsRightly'
  <2> SUFFICES ASSUME NEW m \in Mutexes, NEW u \in Waiters(m)'
               PROVE  pc'[u] = "try" /\ call'[u].mutex = m /\ u \notin Ready'
    BY DEF WaitsRightly
  <2>1. /\ u \in Waiters(m) /\ u # t /\ pc[u] = "try" /\ call[u].mutex = m /\ u \notin Ready
        /\ u \in Tasks
    BY <1>2, WaitersAreTasks DEF Inv, WaitsRightly
  <2> QED BY <1>1, <1>5, <1>6, <2>1 DEF Inv, InCall
<1>11. NoWaiterForgotten'
  <2> SUFFICES ASSUME NEW m \in Mutexes, pxMutexHolder[m] = NoTask, Waiters(m) # {}
               PROVE  \E u \in Tasks \ Waiters(m)' : pc[u] = "try" /\ call'[u].mutex = m
    BY <1>1, <1>2 DEF NoWaiterForgotten
  <2>1. PICK u \in Tasks \ Waiters(m) : pc[u] = "try" /\ call[u].mutex = m
    BY DEF Inv, NoWaiterForgotten
  <2> QED BY <1>2, <1>5, <2>1 DEF Inv, InCall
<1>12. BasePriorityRestored' /\ HolderNotOutranked'
  <2>1. \A m \in Mutexes : Waiters(m)' \subseteq Waiters(m)
    BY <1>2
  <2>2. \A m \in Mutexes : \A u \in Waiters(m)' : owed'[u] = owed[u]
    BY <1>2, WaitersAreTasks DEF Inv
  <2> QED BY <1>1, <2>1, <2>2, SameMutexes
<1> QED BY <1>7, <1>8, <1>9, <1>10, <1>11, <1>12 DEF Inv

\* A take that finds the mutex free.
LEMMA TakeInv ==
  ASSUME Inv, NEW t \in Tasks, NEW c \in Calls, Take(t, c)
  PROVE  Inv'
<1>1. /\ c.mutex \in Mutexes /\ pxMutexHolder[c.mutex] = NoTask /\ t \in Ready
      /\ pxMutexHolder' = [pxMutexHolder EXCEPT ![c.mutex] = t]
      /\ uxMutexesHeld' = [uxMutexesHeld EXCEPT ![t] = @ + 1]
      /\ pc' = [pc EXCEPT ![t] = "run"] /\ call' = [call EXCEPT ![t] = NoCall]
      /\ UNCHANGED <<xTasksWaitingToReceive, uxPriority, uxBasePriority, xItemValue,
                     lists, pxCurrentTCB, owed>>
  BY DEF Take, Attempts, Calls
<1>2. \A m \in Mutexes : Waiters(m)' = Waiters(m)
  BY <1>1 DEF Waiters
<1>3. uxRecursiveCallCount' \in [Mutexes -> 0 .. MaxRecursion]
  <2>1. uxRecursiveCallCount[c.mutex] = 0 /\ {0, 1} \subseteq 0 .. MaxRecursion
    BY <1>1, MutexAssumption DEF Inv, NotTaken
  <2> QED BY <1>1, <2>1 DEF Inv, Types, Take
<1>4. Types' /\ InCall'
  <2>1. pxMutexHolder' \in [Mutexes -> Tasks \cup {NoTask}]
    BY <1>1 DEF Inv, Types
  <2>2. uxMutexesHeld' \in [Tasks -> Nat]
    BY <1>1 DEF Inv, Types
  <2>3. /\ pc' \in [Tasks -> {"run", "lock", "try", "last"}]
        /\ call' \in [Tasks -> Calls \cup {NoCall}]
    BY <1>1 DEF Inv, Types
  <2>4. InCall'
    BY <1>1 DEF Inv, Types, InCall
  <2> QED BY <1>1, <1>3, <2>1, <2>2, <2>3, <2>4 DEF Inv, Types, lists
<1>5. NotTaken'
  <2> SUFFICES ASSUME NEW m \in Mutexes, pxMutexHolder'[m] = NoTask
               PROVE  uxRecursiveCallCount'[m] = 0
    BY DEF NotTaken
  <2>1. m # c.mutex /\ pxMutexHolder[m] = NoTask
    BY <1>1, MutexAssumption DEF Inv, Types
  <2> QED BY <2>1 DEF Inv, NotTaken, Types, Take
<1>6. ReadyExact'
  BY <1>1 DEF Inv, ReadyExact, Ready, lists
<1>7. \A m \in Mutexes : \A u \in Waiters(m) : u # t /\ u \in Tasks
  BY <1>1, WaitersAreTasks DEF Inv, WaitsRightly
<1>8. WaitsRightly'
  BY <1>1, <1>2, <1>7 DEF Inv, WaitsRightly, Types, Ready, lists
<1>9. NoWaiterForgotten'
  <2> SUFFICES ASSUME NEW m \in Mutexes, pxMutexHolder'[m] = NoTask, Waiters(m) # {}
               PROVE  \E u \in Tasks \ Waiters(m) : pc'[u] = "try" /\ call'[u].mutex = m
    BY <1>2 DEF NoWaiterForgotten
  <2>1. m # c.mutex /\ pxMutexHolder[m] = NoTask
    BY <1>1, MutexAssumption DEF Inv, Types
  <2>2. PICK u \in Tasks \ Waiters(m) : pc[u] = "try" /\ call[u].mutex = m
    BY <2>1 DEF Inv, NoWaiterForgotten
  <2>3. u # t
    BY <2>1, <2>2 DEF Take, Attempts
  <2> QED BY <1>1, <2>2, <2>3 DEF Inv, Types
<1>10. BasePriorityRestored'
  <2>1. HeldBy(t)' = HeldBy(t) \cup {c.mutex} /\ c.mutex \notin HeldBy(t)
    BY <1>1, MutexAssumption DEF HeldBy, Inv, Types
  <2>2. /\ IsFiniteSet(HeldBy(t)) /\ uxMutexesHeld[t] = Cardinality(HeldBy(t))
        /\ uxMutexesHeld'[t] = uxMutexesHeld[t] + 1
    BY <1>1, HeldCounts DEF Inv, Types
  <2>3. uxMutexesHeld'[t] = Cardinality(HeldBy(t)') /\ HeldBy(t)' # {}
    BY <2>1, <2>2, FS_AddElement
  <2>4. ASSUME NEW u \in Tasks, u # t
        PROVE  HeldBy(u)' = HeldBy(u) /\ uxMutexesHeld'[u] = uxMutexesHeld[u]
    BY <1>1, <2>4, MutexAssumption DEF HeldBy, Inv, Types
  <2> QED BY <1>1, <2>3, <2>4 DEF Inv, BasePriorityRestored
<1>11. HolderNotOutranked'
  <2> SUFFICES ASSUME NEW m \in Mutexes, NEW u \in Waiters(m), owed[u] # NoPriority
               PROVE  /\ pxMutexHolder'[m] # NoTask
                      /\ uxPriority[pxMutexHolder'[m]] >= owed[u]
    BY <1>1, <1>2 DEF HolderNotOutranked
  <2>1. pxMutexHolder[m] # NoTask /\ uxPriority[pxMutexHolder[m]] >= owed[u]
    BY DEF Inv, HolderNotOutranked
  <2> QED BY <1>1, <2>1 DEF Inv, Types
<1> QED BY <1>4, <1>5, <1>6, <1>8, <1>9, <1>10, <1>11 DEF Inv

\* What inheritance does: the holder's priority rises to the waiter's at least.
LEMMA Inherited ==
  ASSUME Inv, NEW h \in Tasks, NEW t \in Ready, vTaskPriorityInherit(h, t)
  PROVE  /\ uxPriority' \in [Tasks -> Priorities] /\ xItemValue' \in [Tasks -> Priorities]
         /\ \A u \in Tasks : u # h => uxPriority'[u] = uxPriority[u]
         /\ uxPriority'[h] >= uxPriority[h] /\ uxPriority'[h] >= uxPriority[t]
         /\ pxReadyTasksLists' = ReadyLists(Ready \ {t}, uxPriority')
<1>1. /\ t \in Tasks /\ Ready \subseteq Tasks
      /\ uxPriority \in [Tasks -> Priorities] /\ uxPriority[t] \in Priorities
      /\ ItemValue(uxPriority[t]) \in Priorities
      /\ \A u \in Tasks : uxPriority[u] \in Int
      /\ pxReadyTasksLists = ReadyLists(Ready, uxPriority)
  BY ItemValueType, MutexAssumption DEF Inv, Types, ReadyExact, Ready, Priorities
<1>2. CASE uxPriority[h] < uxPriority[t]
  <2>1. /\ uxPriority' = [uxPriority EXCEPT ![h] = uxPriority[t]]
        /\ xItemValue' = [xItemValue EXCEPT ![h] = ItemValue(uxPriority[t])]
    BY <1>2 DEF vTaskPriorityInherit
  <2>2. CASE h \in Ready
    <3>1. pxReadyTasksLists' = NotReady(ReadyAt(pxReadyTasksLists, h, uxPriority[t]), t)
      BY <1>2, <2>2, InReadyList DEF vTaskPriorityInherit, Inv
    <3>2. ReadyAt(ReadyLists(Ready, uxPriority), h, uxPriority[t])
            = ReadyLists(Ready \cup {h}, [uxPriority EXCEPT ![h] = uxPriority[t]])
      <4>1. /\ Ready \in SUBSET Tasks /\ uxPriority \in [Tasks -> Priorities]
            /\ uxPriority[t] \in Priorities
        BY <1>1
      <4> QED BY <4>1, ReadyAtLists
    <3>3. Ready \cup {h} = Ready
      BY <2>2
    <3>4. pxReadyTasksLists' = NotReady(ReadyLists(Ready, uxPriority'), t)
      BY <1>1, <2>1, <3>1, <3>2, <3>3
    <3> QED BY <1>1, <1>2, <2>1, <3>4, NotReadyLists DEF Inv, Types
  <2>3. CASE h \notin Ready
    <3>1. pxReadyTasksLists' = NotReady(pxReadyTasksLists, t)
      BY <1>2, <2>3, InReadyList DEF vTaskPriorityInherit, Inv
    <3>2. ReadyLists(Ready, uxPriority') = ReadyLists(Ready, uxPriority)
      BY <1>1, <2>1, <2>3, BlockedInNoList
    <3> QED BY <1>1, <1>2, <2>1, <3>1, <3>2, NotReadyLists DEF Inv, Types
  <2> QED BY <2>2, <2>3
<1>3. CASE ~(uxPriority[h] < uxPriority[t])
  <2>1. /\ uxPriority' = uxPriority /\ xItemValue' = xItemValue
        /\ pxReadyTasksLists' = NotReady(pxReadyTasksLists, t)
    BY <1>3 DEF vTaskPriorityInherit
  <2> QED BY <1>1, <1>3, <2>1, NotReadyLists DEF Inv, Types
<1> QED BY <1>2, <1>3

\* A take that blocks.
LEMMA BlockInv ==
  ASSUME Inv, NEW t \in Tasks, Block(t)
  PROVE  Inv'
<1>0. PICK m \in Mutexes, h \in Tasks : m = call[t].mutex /\ h = pxMutexHolder[m]
  BY DEF Block, IsRunning, Inv, Types, InCall, Calls
<1>1. /\ pc[t] = "lock" /\ t \in Ready /\ call[t] \in Calls /\ h # NoTask
  BY <1>0, MutexAssumption DEF Block, IsRunning, Inv, InCall
<1>2. /\ vTaskPriorityInherit(h, t)
      /\ xTasksWaitingToReceive' =
           [xTasksWaitingToReceive EXCEPT ![m] = vListInsert(@, xItemValue', t, xItemValue'[t])]
      /\ pc' = [pc EXCEPT ![t] = "try"] /\ owed' = [owed EXCEPT ![t] = uxPriority[t]]
      /\ UNCHANGED <<pxMutexHolder, uxRecursiveCallCount, uxBasePriority, uxMutexesHeld,
                     pxCurrentTCB, call>>
  BY <1>0 DEF Block
<1>3. /\ Ready' = Ready \ {t} /\ xDelayedTaskList' \subseteq Tasks
      /\ xSuspendedTaskList' \subseteq Tasks \ xDelayedTaskList'
  BY <1>1 DEF Block, Ready, Inv, Types
<1>4. /\ uxPriority' \in [Tasks -> Priorities] /\ xItemValue' \in [Tasks -> Priorities]
      /\ \A u \in Tasks : u # h => uxPriority'[u] = uxPriority[u]
      /\ uxPriority'[h] >= uxPriority[h] /\ uxPriority'[h] >= uxPriority[t]
      /\ pxReadyTasksLists' = ReadyLists(Ready \ {t}, uxPriority')
  BY <1>1, <1>2, Inherited
<1>5. \A k \in Mutexes : t \notin Waiters(k) /\ Waiters(k) \subseteq Tasks
  BY <1>1, WaitersAreTasks DEF Inv, WaitsRightly
<1>6. /\ xTasksWaitingToReceive' \in [Mutexes -> ListOf(Tasks)]
      /\ Waiters(m)' = Waiters(m) \cup {t}
      /\ \A k \in Mutexes : k # m => Waiters(k)' = Waiters(k)
  <2>1. xTasksWaitingToReceive[m] \in ListOf(Tasks) /\ t \notin Owners(xTasksWaitingToReceive[m])
    BY <1>1, <1>5, WaitersAreTasks DEF Inv, Waiters
  <2> DEFINE new == vListInsert(xTasksWaitingToReceive[m], xItemValue', t, xItemValue'[t])
  <2>2. new \in ListOf(Tasks) /\ Owners(new) = Owners(xTasksWaitingToReceive[m]) \cup {t}
    BY <2>1, InsertOwners
  <2>3. xTasksWaitingToReceive' = [xTasksWaitingToReceive EXCEPT ![m] = new]
    BY <1>2
  <2> HIDE DEF new
  <2> QED BY <1>1, <2>2, <2>3 DEF Inv, Types, Waiters
<1>7. Types'
  BY <1>1, <1>2, <1>3, <1>4, <1>6 DEF Inv, Types
<1>8. ReadyExact' /\ NotTaken' /\ InCall'
  BY <1>1, <1>2, <1>3, <1>4 DEF Inv, ReadyExact, NotTaken, InCall, Types
<1>9. WaitsRightly'
  <2> SUFFICES ASSUME NEW k \in Mutexes, NEW u \in Waiters(k)'
               PROVE  pc'[u] = "try" /\ call[u].mutex = k /\ u \notin Ready'
    BY <1>2 DEF WaitsRightly
  <2>1. CASE u = t
    BY <1>0, <1>2, <1>3, <1>5, <1>6, <2>1 DEF Inv, Types
  <2>2. CASE u # t
    <3>1. u \in Waiters(k) /\ u \in Tasks
      BY <1>5, <1>6, <2>2
    <3> QED BY <1>2, <1>3, <2>2, <3>1 DEF Inv, Types, WaitsRightly
  <2> QED BY <2>1, <2>2
<1>10. NoWaiterForgotten'
  <2> SUFFICES ASSUME NEW k \in Mutexes, pxMutexHolder[k] = NoTask, Waiters(k)' # {}
               PROVE  \E u \in Tasks \ Waiters(k)' : pc'[u] = "try" /\ call[u].mutex = k
    BY <1>2 DEF NoWaiterForgotten
  <2>1. k # m /\ Waiters(k)' = Waiters(k)
    BY <1>0, <1>1, <1>6
  <2>2. PICK u \in Tasks \ Waiters(k) : pc[u] = "try" /\ call[u].mutex = k
    BY <2>1 DEF Inv, NoWaiterForgotten
  <2> QED BY <1>1, <1>2, <2>1, <2>2 DEF Inv, Types
<1>11. BasePriorityRestored'
  <2>1. m \in HeldBy(h)
    BY <1>0 DEF HeldBy
  <2> QED BY <1>2, <1>4, <2>1 DEF Inv, BasePriorityRestored, HeldBy
<1>12. HolderNotOutranked'
  <2> SUFFICES ASSUME NEW k \in Mutexes, NEW u \in Waiters(k)', owed'[u] # NoPriority
               PROVE  /\ pxMutexHolder[k] # NoTask
                      /\ uxPriority'[pxMutexHolder[k]] >= owed'[u]
    BY <1>2 DEF HolderNotOutranked
  <2>1. CASE u = t
    <3>1. k = m /\ owed'[u] = uxPriority[t]
      BY <1>1, <1>2, <1>5, <1>6, <2>1 DEF Inv, Types
    <3> QED BY <1>0, <1>1, <1>4, <3>1
  <2>2. CASE u # t
    <3>1. u \in Waiters(k) /\ u \in Tasks /\ owed'[u] = owed[u]
      BY <1>2, <1>5, <1>6, <2>2 DEF Inv, Types
    <3>2. /\ pxMutexHolder[k] # NoTask /\ pxMutexHolder[k] \in Tasks
          /\ uxPriority[pxMutexHolder[k]] >= owed[u]
      BY <2>2, <3>1 DEF Inv, Types, HolderNotOutranked
    <3>3. /\ uxPriority'[pxMutexHolder[k]] >= uxPriority[pxMutexHolder[k]]
          /\ uxPriority[pxMutexHolder[k]] \in Int /\ uxPriority'[pxMutexHolder[k]] \in Int
          /\ owed[u] \in Int
      BY <1>4, <3>1, <3>2, MutexAssumption DEF Inv, Types, Priorities, NoPriority
    <3> QED BY <3>1, <3>2, <3>3
  <2> QED BY <2>1, <2>2
<1> QED BY <1>7, <1>8, <1>9, <1>10, <1>11, <1>12 DEF Inv

\* What giving back a mutex does to the giver's priority: it falls only with the last
\* mutex, and then to the base priority.
LEMMA Disinherited ==
  ASSUME Inv, NEW t \in Tasks, NEW m \in HeldBy(t), xTaskPriorityDisinherit(t)
  PROVE  /\ uxPriority' \in [Tasks -> Priorities] /\ xItemValue' \in [Tasks -> Priorities]
         /\ uxPriority' = [uxPriority EXCEPT ![t] = uxPriority'[t]]
         /\ uxMutexesHeld' \in [Tasks -> Nat] /\ uxMutexesHeld'[t] = uxMutexesHeld[t] - 1
         /\ \A u \in Tasks : u # t => uxMutexesHeld'[u] = uxMutexesHeld[u]
         /\ uxBasePriority' = uxBasePriority
         /\ IF HeldBy(t) = {m} THEN uxPriority'[t] = uxBasePriority[t]
                               ELSE uxPriority'[t] = uxPriority[t]
<1>1. uxMutexesHeld[t] - 1 \in Nat /\ (uxMutexesHeld[t] = 1 <=> HeldBy(t) = {m})
  <2>1. /\ uxMutexesHeld[t] \in Nat /\ uxMutexesHeld[t] >= 1
        /\ uxMutexesHeld[t] = 1 => HeldBy(t) = {m}
        /\ uxMutexesHeld[t] = Cardinality(HeldBy(t))
    BY HeldCounts DEF Inv, Types
  <2>2. Cardinality({m}) = 1
    BY FS_Singleton
  <2> QED BY <2>1, <2>2
<1>2. /\ uxMutexesHeld' = [uxMutexesHeld EXCEPT ![t] = uxMutexesHeld[t] - 1]
      /\ uxBasePriority' = uxBasePriority
  BY DEF xTaskPriorityDisinherit
<1>3. CASE Disinherits(t)
  <2>1. /\ uxPriority' = [uxPriority EXCEPT ![t] = uxBasePriority[t]]
        /\ xItemValue' = [xItemValue EXCEPT ![t] = ItemValue(uxBasePriority[t])]
        /\ HeldBy(t) = {m}
    BY <1>1, <1>3 DEF xTaskPriorityDisinherit, Disinherits
  <2> QED BY <1>1, <1>2, <2>1, ItemValueType DEF Inv, Types
<1>4. CASE ~Disinherits(t)
  <2>1. uxPriority' = uxPriority /\ xItemValue' = xItemValue
    BY <1>4 DEF xTaskPriorityDisinherit
  <2>2. HeldBy(t) = {m} => uxPriority[t] = uxBasePriority[t]
    BY <1>1, <1>4 DEF Disinherits
  <2> QED BY <1>1, <1>2, <2>1, <2>2 DEF Inv, Types
<1> QED BY <1>3, <1>4

\* The first waiter, if there is one, leaves the event list and becomes ready.
LEMMA Woken ==
  ASSUME Inv, NEW t \in Ready, NEW m \in Mutexes, Wake(m, t),
         uxPriority' \in [Tasks -> Priorities],
         uxPriority' = [uxPriority EXCEPT ![t] = uxPriority'[t]]
  PROVE  /\ xTasksWaitingToReceive' \in [Mutexes -> ListOf(Tasks)]
         /\ xDelayedTaskList' \subseteq Tasks
         /\ xSuspendedTaskList' \subseteq Tasks \ xDelayedTaskList'
         /\ pxReadyTasksLists' = ReadyLists(Ready', uxPriority')
         /\ \A k \in Mutexes : k # m => Waiters(k)' = Waiters(k)
         /\ IF Waiters(m) = {} THEN Waiters(m)' = {} /\ Ready' = Ready
            ELSE \E first \in Waiters(m) :
                   Waiters(m)' = Waiters(m) \ {first} /\ Ready' = Ready \cup {first}
<1>1. /\ t \in Tasks /\ Ready \in SUBSET Tasks /\ uxPriority \in [Tasks -> Priorities]
      /\ uxPriority'[t] \in Priorities /\ pxReadyTasksLists = ReadyLists(Ready, uxPriority)
      /\ Ready \cup {t} = Ready
  BY DEF Inv, Types, ReadyExact, Ready
<1>2. ReadyAt(pxReadyTasksLists, t, uxPriority'[t]) = ReadyLists(Ready, uxPriority')
  BY <1>1, ReadyAtLists
<1>3. IsEmpty(xTasksWaitingToReceive[m]) <=> Waiters(m) = {}
  BY WaitersAreTasks DEF Inv
<1>4. CASE Waiters(m) = {}
  <2>1. /\ pxReadyTasksLists' = ReadyLists(Ready, uxPriority')
        /\ UNCHANGED <<xTasksWaitingToReceive, xDelayedTaskList, xSuspendedTaskList>>
    BY <1>2, <1>3, <1>4 DEF Wake
  <2> QED BY <1>4, <2>1 DEF Inv, Types, Waiters, Ready
<1>5. CASE Waiters(m) # {}
  <2>1. PICK first \in Waiters(m) : first = HeadOwner(xTasksWaitingToReceive[m])
    BY <1>3, <1>5, WaitersAreTasks DEF Inv
  <2>2. /\ xTasksWaitingToReceive' =
             [xTasksWaitingToReceive EXCEPT ![m] = uxListRemove(xTasksWaitingToReceive[m], first)]
        /\ xDelayedTaskList' = xDelayedTaskList \ {first}
        /\ xSuspendedTaskList' = xSuspendedTaskList \ {first}
        /\ pxReadyTasksLists' = ReadyAt(ReadyLists(Ready, uxPriority'), first, uxPriority[first])
    BY <1>2, <1>3, <1>5, <2>1 DEF Wake
  <2>3. first \in Tasks /\ first # t /\ first \notin Ready
    BY WaitersAreTasks DEF Inv, WaitsRightly
  <2>4. Ready' = Ready \cup {first}
    BY <2>2, <2>3 DEF Ready
  <2>5. uxPriority' = [uxPriority' EXCEPT ![first] = uxPriority[first]]
    BY <1>1, <2>3
  <2>6. pxReadyTasksLists' = ReadyLists(Ready', uxPriority')
    <3>1. uxPriority[first] \in Priorities
      BY <1>1, <2>3
    <3> QED BY <1>1, <2>2, <2>3, <2>4, <2>5, <3>1, ReadyAtLists
  <2>7. /\ xTasksWaitingToReceive[m] \in ListOf(Tasks)
        /\ first \in Owners(xTasksWaitingToReceive[m])
    BY WaitersAreTasks DEF Inv, Waiters
  <2> DEFINE rest == uxListRemove(xTasksWaitingToReceive[m], first)
  <2>8. rest \in ListOf(Tasks) /\ Owners(rest) = Owners(xTasksWaitingToReceive[m]) \ {first}
    BY <2>7, RemoveOwners
  <2>9. xTasksWaitingToReceive' = [xTasksWaitingToReceive EXCEPT ![m] = rest]
    BY <2>2
  <2> HIDE DEF rest
  <2>10. /\ xTasksWaitingToReceive' \in [Mutexes -> ListOf(Tasks)]
         /\ Waiters(m)' = Waiters(m) \ {first}
         /\ \A k \in Mutexes : k # m => Waiters(k)' = Waiters(k)
    BY <2>8, <2>9 DEF Inv, Types, Waiters
  <2> QED BY <1>5, <2>2, <2>4, <2>6, <2>10 DEF Inv, Types
<1> QED BY <1>4, <1>5

\* The last give of a mutex.
LEMMA GiveInv ==
  ASSUME Inv, NEW t \in Tasks, NEW m \in Mutexes, Give(t, m)
  PROVE  Inv'
<1>1. /\ t \in Ready /\ pc[t] = "run" /\ pxMutexHolder[m] = t /\ m \in HeldBy(t) /\ t # NoTask
      /\ uxRecursiveCallCount' = [uxRecursiveCallCount EXCEPT ![m] = 0]
      /\ pxMutexHolder' = [pxMutexHolder EXCEPT ![m] = NoTask]
      /\ owed' = [u \in Tasks |-> IF u \in Waiters(m) THEN NoPriority ELSE owed[u]]
      /\ UNCHANGED <<pxCurrentTCB, pc, call>>
  BY MutexAssumption DEF Give, IsRunning, HeldBy
<1>2. /\ uxPriority' \in [Tasks -> Priorities] /\ xItemValue' \in [Tasks -> Priorities]
      /\ uxPriority' = [uxPriority EXCEPT ![t] = uxPriority'[t]]
      /\ uxMutexesHeld' \in [Tasks -> Nat] /\ uxMutexesHeld'[t] = uxMutexesHeld[t] - 1
      /\ \A u \in Tasks : u # t => uxMutexesHeld'[u] = uxMutexesHeld[u]
      /\ uxBasePriority' = uxBasePriority
      /\ IF HeldBy(t) = {m} THEN uxPriority'[t] = uxBasePriority[t]
                            ELSE uxPriority'[t] = uxPriority[t]
  BY <1>1, Disinherited DEF Give
<1>3. /\ xTasksWaitingToReceive' \in [Mutexes -> ListOf(Tasks)]
      /\ xDelayedTaskList' \subseteq Tasks /\ xSuspendedTaskList' \subseteq Tasks \ xDelayedTaskList'
      /\ pxReadyTasksLists' = ReadyLists(Ready', uxPriority')
      /\ \A k \in Mutexes : k # m => Waiters(k)' = Waiters(k)
      /\ IF Waiters(m) = {} THEN Waiters(m)' = {} /\ Ready' = Ready
         ELSE \E first \in Waiters(m) :
                Waiters(m)' = Waiters(m) \ {first} /\ Ready' = Ready \cup {first}
  BY <1>1, <1>2, Woken DEF Give
<1>4. Types' /\ ReadyExact'
  <2>1. /\ pxMutexHolder' \in [Mutexes -> Tasks \cup {NoTask}]
        /\ uxRecursiveCallCount' \in [Mutexes -> 0 .. MaxRecursion]
    BY <1>1, MutexAssumption DEF Inv, Types
  <2>2. owed' \in [Tasks -> Priorities \cup {NoPriority}]
    BY <1>1 DEF Inv, Types
  <2> QED BY <1>1, <1>2, <1>3, <2>1, <2>2 DEF Inv, Types, ReadyExact
<1>5. NotTaken' /\ InCall'
  BY <1>1 DEF Inv, Types, NotTaken, InCall
<1>6. \A k \in Mutexes : Waiters(k)' \subseteq Waiters(k) /\ Waiters(k) \subseteq Tasks
  <2>1. \A k \in Mutexes : Waiters(k) \subseteq Tasks
    BY WaitersAreTasks DEF Inv
  <2>2. Waiters(m)' \subseteq Waiters(m)
    BY <1>3
  <2> QED BY <1>3, <2>1, <2>2
<1>7. WaitsRightly'
  <2> SUFFICES ASSUME NEW k \in Mutexes, NEW u \in Waiters(k)'
               PROVE  pc[u] = "try" /\ call[u].mutex = k /\ u \notin Ready'
    BY <1>1 DEF WaitsRightly
  <2>1. u \in Waiters(k) /\ pc[u] = "try" /\ call[u].mutex = k /\ u \notin Ready
    BY <1>6 DEF Inv, WaitsRightly
  <2>2. ASSUME NEW first \in Waiters(m), Waiters(m)' = Waiters(m) \ {first}
        PROVE  u # first
    <3>1. call[first].mutex = m
      BY DEF Inv, WaitsRightly
    <3>2. u = first => k = m
      BY <2>1, <3>1
    <3> QED BY <2>2, <3>2
  <2> QED BY <1>3, <2>1, <2>2
<1>8. NoWaiterForgotten'
  <2> SUFFICES ASSUME NEW k \in Mutexes, pxMutexHolder'[k] = NoTask, Waiters(k)' # {}
               PROVE  \E u \in Tasks \ Waiters(k)' : pc[u] = "try" /\ call[u].mutex = k
    BY <1>1 DEF NoWaiterForgotten
  <2>1. CASE k = m
    <3>1. PICK first \in Waiters(m) : Waiters(m)' = Waiters(m) \ {first}
      BY <1>3, <2>1
    <3>2. pc[first] = "try" /\ call[first].mutex = m /\ first \in Tasks
      BY <1>6 DEF Inv, WaitsRightly
    <3> QED BY <2>1, <3>1, <3>2
  <2>2. CASE k # m
    BY <1>1, <1>3, <2>2 DEF Inv, Types, NoWaiterForgotten
  <2> QED BY <2>1, <2>2
<1>9. BasePriorityRestored'
  <2>1. HeldBy(t)' = HeldBy(t) \ {m}
    BY <1>1 DEF HeldBy, Inv, Types
  <2>2. uxMutexesHeld'[t] = Cardinality(HeldBy(t)')
    BY <1>1, <1>2, <2>1, HeldCounts DEF Inv
  <2>3. HeldBy(t)' = {} => uxPriority'[t] = uxBasePriority'[t]
    BY <1>1, <1>2, <2>1
  <2>4. ASSUME NEW u \in Tasks, u # t
        PROVE  /\ HeldBy(u)' = HeldBy(u) /\ uxMutexesHeld'[u] = uxMutexesHeld[u]
               /\ uxPriority'[u] = uxPriority[u]
    <3>1. HeldBy(u)' = HeldBy(u)
      BY <1>1, <2>4, MutexAssumption DEF HeldBy, Inv, Types
    <3> QED BY <1>2, <2>4, <3>1 DEF Inv, Types
  <2> QED BY <1>2, <2>2, <2>3, <2>4 DEF Inv, BasePriorityRestored
<1>10. HolderNotOutranked'
  <2> SUFFICES ASSUME NEW k \in Mutexes, NEW u \in Waiters(k)', owed'[u] # NoPriority
               PROVE  /\ pxMutexHolder'[k] # NoTask
                      /\ uxPriority'[pxMutexHolder'[k]] >= owed'[u]
    BY DEF HolderNotOutranked
  <2>1. u \in Waiters(k) /\ u \in Tasks
    BY <1>6
  <2>2. k # m /\ owed'[u] = owed[u]
    BY <1>1, <2>1
  <2>3. /\ pxMutexHolder'[k] = pxMutexHolder[k] /\ pxMutexHolder[k] # NoTask
        /\ uxPriority[pxMutexHolder[k]] >= owed[u] /\ pxMutexHolder[k] \in Tasks
    BY <1>1, <2>1, <2>2 DEF Inv, Types, HolderNotOutranked
  <2>4. uxPriority'[pxMutexHolder[k]] = uxPriority[pxMutexHolder[k]]
    <3>1. CASE pxMutexHolder[k] = t
      <4>1. k \in HeldBy(t)
        BY <3>1 DEF HeldBy
      <4> QED BY <1>2, <2>2, <3>1, <4>1
    <3>2. CASE pxMutexHolder[k] # t
      BY <1>2, <2>3, <3>2 DEF Inv, Types
    <3> QED BY <3>1, <3>2
  <2> QED BY <2>2, <2>3, <2>4
<1> QED BY <1>4, <1>5, <1>7, <1>8, <1>9, <1>10 DEF Inv

\* The ready lists once a task is moved to another one of them.
LEMMA MovedInLists ==
  ASSUME Inv, NEW t \in Ready, NEW p \in Priorities
  PROVE  ReadyAt(pxReadyTasksLists, t, p) = ReadyLists(Ready, [uxPriority EXCEPT ![t] = p])
<1>1. /\ Ready \in SUBSET Tasks /\ uxPriority \in [Tasks -> Priorities]
      /\ pxReadyTasksLists = ReadyLists(Ready, uxPriority) /\ t \in Tasks
  BY DEF Inv, Types, ReadyExact, Ready
<1>2. ReadyAt(ReadyLists(Ready, uxPriority), t, p)
        = ReadyLists(Ready \cup {t}, [uxPriority EXCEPT ![t] = p])
  BY <1>1, ReadyAtLists
<1>3. Ready \cup {t} = Ready
  OBVIOUS
<1> QED BY <1>1, <1>2, <1>3

LEMMA PrioritySetInv ==
  ASSUME Inv, NEW t \in Tasks, NEW other \in Tasks, NEW priority \in Priorities,
         vTaskPrioritySet(t, other, priority)
  PROVE  Inv'
<1> DEFINE new == PrioritySet(other, priority)
<1>1. /\ uxPriority' = [uxPriority EXCEPT ![other] = new]
      /\ uxBasePriority' = [uxBasePriority EXCEPT ![other] = priority]
      /\ xItemValue' = [xItemValue EXCEPT ![other] = ItemValue(priority)]
      /\ UNCHANGED <<mutexes, uxMutexesHeld, xDelayedTaskList, xSuspendedTaskList,
                     pxCurrentTCB, pc, call>>
  BY DEF vTaskPrioritySet
<1>2. /\ uxBasePriority[other] = uxPriority[other] => new = priority
      /\ uxBasePriority[other] # uxPriority[other] => new = uxPriority[other]
      /\ new \in Priorities
  BY DEF PrioritySet, Inv, Types
<1> HIDE DEF new
<1>3. \A u \in Tasks : owed'[u] = owed[u] \/ owed'[u] = NoPriority
  BY DEF vTaskPrioritySet
<1>4. owed' \in [Tasks -> Priorities \cup {NoPriority}]
  BY DEF vTaskPrioritySet, Inv, Types
<1>5. Types'
  BY <1>1, <1>2, <1>4, ItemValueType DEF Inv, Types, mutexes
<1>6. Ready' = Ready /\ Ready \in SUBSET Tasks
  BY <1>1 DEF Ready
<1>7. \A m \in Mutexes : Waiters(m)' = Waiters(m)
  BY <1>1 DEF Waiters, mutexes
<1>8. ReadyExact'
  <2>1. pxReadyTasksLists = ReadyLists(Ready, uxPriority) /\ uxPriority \in [Tasks -> Priorities]
    BY DEF Inv, Types, ReadyExact
  <2>2. CASE other \in Ready
    <3>1. pxReadyTasksLists' = ReadyAt(pxReadyTasksLists, other, new)
      BY <2>2, InReadyList DEF vTaskPrioritySet, Inv, new
    <3>2. ReadyAt(pxReadyTasksLists, other, new)
            = ReadyLists(Ready, [uxPriority EXCEPT ![other] = new])
      BY <1>2, <2>2, MovedInLists
    <3> QED BY <1>1, <1>6, <3>1, <3>2 DEF ReadyExact
  <2>3. CASE other \notin Ready
    <3>1. pxReadyTasksLists' = pxReadyTasksLists
      BY <2>3, InReadyList DEF vTaskPrioritySet, Inv
    <3>2. ReadyLists(Ready, [uxPriority EXCEPT ![other] = new]) = ReadyLists(Ready, uxPriority)
      BY <1>2, <1>6, <2>1, <2>3, BlockedInNoList
    <3> QED BY <1>1, <1>6, <2>1, <3>1, <3>2 DEF ReadyExact
  <2> QED BY <2>2, <2>3
<1>9. NotTaken' /\ InCall' /\ WaitsRightly' /\ NoWaiterForgotten'
  BY <1>1, <1>6, <1>7 DEF Inv, NotTaken, InCall, WaitsRightly, NoWaiterForgotten, mutexes
<1>10. BasePriorityRestored'
  <2>1. \A u \in Tasks : HeldBy(u)' = HeldBy(u) /\ uxMutexesHeld'[u] = uxMutexesHeld[u]
    BY <1>1 DEF HeldBy, mutexes
  <2>2. HeldBy(other) = {} => uxPriority'[other] = uxBasePriority'[other]
    BY <1>1, <1>2 DEF Inv, Types, BasePriorityRestored
  <2>3. \A u \in Tasks : u # other => /\ uxPriority'[u] = uxPriority[u]
                                      /\ uxBasePriority'[u] = uxBasePriority[u]
    BY <1>1 DEF Inv, Types
  <2> QED BY <2>1, <2>2, <2>3 DEF Inv, BasePriorityRestored
<1>11. HolderNotOutranked'
  <2> SUFFICES ASSUME NEW m \in Mutexes, NEW u \in Waiters(m), owed'[u] # NoPriority
               PROVE  /\ pxMutexHolder[m] # NoTask
                      /\ uxPriority'[pxMutexHolder[m]] >= owed'[u]
    BY <1>1, <1>7 DEF HolderNotOutranked, mutexes
  <2>1. u \in Tasks
    BY WaitersAreTasks DEF Inv
  <2>2. /\ owed'[u] = owed[u] /\ pxMutexHolder[m] # NoTask /\ pxMutexHolder[m] \in Tasks
        /\ uxPriority[pxMutexHolder[m]] >= owed[u]
    BY <1>3, <2>1 DEF Inv, Types, HolderNotOutranked
  <2>3. uxPriority'[pxMutexHolder[m]] = uxPriority[pxMutexHolder[m]]
    <3>1. CASE pxMutexHolder[m] = other
      <4>1. ~(uxBasePriority[other] = uxPriority[other])
        BY <2>1, <3>1 DEF vTaskPrioritySet
      <4> QED BY <1>1, <1>2, <3>1, <4>1 DEF Inv, Types
    <3>2. CASE pxMutexHolder[m] # other
      BY <1>1, <2>2, <3>2 DEF Inv, Types
    <3> QED BY <3>1, <3>2
  <2> QED BY <2>2, <2>3
<1> QED BY <1>5, <1>8, <1>9, <1>10, <1>11 DEF Inv

LEMMA NextInv == Inv /\ [Next]_vars => Inv'
<1> SUFFICES ASSUME Inv, [Next]_vars PROVE Inv'
  OBVIOUS
<1>1. CASE vTaskSwitchContext \/ UNCHANGED vars
  BY <1>1, SwitchInv
<1>2. ASSUME NEW t \in Tasks, TimeOut(t) \/ vTaskResume(t) PROVE Inv'
  BY <1>2, LeaveInv, DelayResumeInv
<1>3. ASSUME NEW t \in Tasks, TaskStep(t) PROVE Inv'
  <2>1. CASE \E c \in Calls : Take(t, c) \/ GoOnToWait(t, c)
    BY <2>1, TakeInv, QuietInv
  <2>2. CASE Block(t)
    BY <2>2, BlockInv
  <2>3. CASE TryAgain(t) \/ GiveUp(t) \/ LastLook(t)
    <3>1. call[t] \in Calls
      BY <2>3 DEF Inv, InCall, TryAgain, GiveUp, LastLook, IsRunning
    <3> QED BY <2>3, <3>1, QuietInv
  <2>4. CASE \E m \in Mutexes : TakeAgain(t, m) \/ Give(t, m) \/ GiveOnce(t, m)
    BY <2>4, CountInv, GiveInv
  <2>5. CASE vTaskDelay(t)
    BY <2>5, DelayResumeInv
  <2>6. CASE \E other \in Tasks :
               vTaskSuspend(t, other) \/ \E p \in Priorities : vTaskPrioritySet(t, other, p)
    BY <2>6, LeaveInv, PrioritySetInv
  <2> QED BY <1>3, <2>1, <2>2, <2>3, <2>4, <2>5, <2>6 DEF TaskStep
<1> QED BY <1>1, <1>2, <1>3 DEF Next

LEMMA Invariance == Spec => []Inv
BY InitInv, NextInv, PTL DEF Spec

LEMMA InvTypeOK == Inv => TypeOK
<1> SUFFICES ASSUME Inv PROVE TypeOK
  OBVIOUS
<1>1. \A m \in Mutexes : xTasksWaitingToReceive[m] \in ListOf(Tasks \ Ready)
  <2> SUFFICES ASSUME NEW m \in Mutexes
               PROVE  xTasksWaitingToReceive[m] \in ListOf(Tasks \ Ready)
    OBVIOUS
  <2>1. /\ xTasksWaitingToReceive[m] \in ListOf(Tasks)
        /\ Owners(xTasksWaitingToReceive[m]) \subseteq Tasks \ Ready
    BY WaitersAreTasks DEF Inv, WaitsRightly, Waiters
  <2> QED BY <2>1, ListOfItsOwners
<1> QED BY <1>1 DEF Inv, Types, ReadyExact, ReadyLists, TypeOK
-----------------------------------------------------------------------------
\* The ready lists follow every inherited and restored priority, and only blocked tasks
\* are in the event lists of mutexes.
THEOREM TypeCorrect == Spec => []TypeOK
BY Invariance, InvTypeOK, PTL

\* In whatever order tasks take and give mutexes, time out, are suspended and have their
\* priorities set, a task without a mutex has its base priority.
THEOREM PriorityRestored == Spec => []BasePriorityRestored
BY Invariance, PTL DEF Inv

\* Until it gives the mutex, a holder whose priority nobody sets does not fall below
\* the priority with which a waiter of it began to wait.
THEOREM InversionBounded == Spec => []HolderNotOutranked
BY Invariance, PTL DEF Inv

\* No task waits for a free mutex for which no other task was woken.
THEOREM NoneForgotten == Spec => []NoWaiterForgotten
BY Invariance, PTL DEF Inv
=============================================================================
