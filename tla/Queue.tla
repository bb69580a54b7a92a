-------------------------------- MODULE Queue --------------------------------
(***************************************************************************)
(* A queue or a counting semaphore of queue.c, used by tasks that block    *)
(* on it and by interrupts.  (Mutexes, which add priority inheritance, are *)
(* not in this module.)                                                    *)
(*                                                                         *)
(* A step of a task is a critical section, or the code between two points  *)
(* at which an interrupt can come.  Of the kernel there is what the queue  *)
(* needs: which tasks are blocked and which one runs.  While a task is in  *)
(* its locked section the scheduler is suspended: no other task runs, and  *)
(* no timeout is processed.  A context switch elsewhere may be the task's  *)
(* own, or one that an interrupt asked for.                                *)
(*                                                                         *)
(* The storage is counted in items; the pointers are indices into it.      *)
(***************************************************************************)
EXTENDS Lists

CONSTANTS
  Tasks,
  NoTask,        \* pxCurrentTCB is the idle task
  uxPriority,    \* of each task
  Items,         \* what the application sends
  Token,         \* the unit of a semaphore
  BlockTimes,    \* of the calls
  MaxLength,     \* bound: length of the queue
  MaxLocked      \* bound: interrupts that use the queue while it is locked

ASSUME QueueAssumption ==
  /\ IsFiniteSet(Tasks) /\ NoTask \notin Tasks /\ uxPriority \in [Tasks -> Nat]
  /\ Items # {} /\ Token \notin Items
  /\ BlockTimes \subseteq {"none", "finite", "forever"}
  /\ MaxLength \in Nat \ {0}
  /\ MaxLocked \in 1 .. 127  \* the lock counts are int8_t

VARIABLES
  uxLength, uxItemSize,       \* item size 0: a semaphore
  uxMessagesWaiting,
  storage, pcWriteTo, pcReadFrom,
  cTxLock, cRxLock,
  xTasksWaitingToSend, xTasksWaitingToReceive,
  blocked,                    \* tasks in the delayed or suspended list
  expired,                    \* tasks whose block time is over
  pxCurrentTCB,
  pc, call,                   \* of each task: its place in the call, the arguments
  delivered,                  \* what the last receive or peek copied out
  wasReset                    \* history: xQueueGenericReset was called

creation == <<uxLength, uxItemSize>>
buffer == <<uxMessagesWaiting, storage, pcWriteTo, pcReadFrom>>
locks == <<cTxLock, cRxLock>>
waiting == <<xTasksWaitingToSend, xTasksWaitingToReceive>>
kernel == <<blocked, expired, pxCurrentTCB>>
vars == <<creation, buffer, locks, waiting, kernel, pc, call, delivered, wasReset>>

queueUNLOCKED == -1
queueLOCKED_UNMODIFIED == 0

Slots == 0 .. MaxLength - 1
Places == {"run", "try", "lock", "check", "place", "unlockTx", "unlockRx", "resume",
           "gaveUpTx", "gaveUpRx", "gaveUp", "last"}
Locked == Places \ {"run", "try", "lock", "last"}

Positions == {"back", "front", "overwrite"}
NoCall == [op |-> "none"]
Calls ==
  [op : {"send"}, item : Items \cup {Token}, position : Positions, wait : BlockTimes]
    \cup [op : {"receive"}, peek : BOOLEAN, wait : BlockTimes]

\* xQueueOverwrite asserts that the queue has one place; a semaphore is given
\* to the back and never peeked at.
SendAllowed(item, position) ==
  /\ item \in IF uxItemSize = 0 THEN {Token} ELSE Items
  /\ position \in IF uxItemSize = 0 THEN {"back"} ELSE Positions
  /\ position = "overwrite" => uxLength = 1

CallAllowed(c) ==
  IF c.op = "send" THEN SendAllowed(c.item, c.position) ELSE c.peek => uxItemSize > 0
-----------------------------------------------------------------------------
\* xQueueGenericCreate and xQueueCreateCountingSemaphore.
Init ==
  /\ uxLength \in 1 .. MaxLength /\ uxItemSize \in {0, 1}
  /\ uxMessagesWaiting \in IF uxItemSize = 0 THEN 0 .. uxLength ELSE {0}
  /\ storage \in {[s \in Slots |-> item] : item \in Items}  \* not initialised
  /\ pcWriteTo = 0 /\ pcReadFrom = uxLength - 1
  /\ cTxLock = queueUNLOCKED /\ cRxLock = queueUNLOCKED
  /\ xTasksWaitingToSend = vListInitialise /\ xTasksWaitingToReceive = vListInitialise
  /\ blocked = {} /\ expired = {} /\ pxCurrentTCB = NoTask
  /\ pc = [t \in Tasks |-> "run"] /\ call = [t \in Tasks |-> NoCall]
  /\ delivered = Token /\ wasReset = FALSE

SchedulerSuspended == \E t \in Tasks : pc[t] \in Locked

\* The running task goes from one place to the next.
Goes(t, from, to) ==
  pxCurrentTCB = t /\ t \notin blocked /\ pc[t] = from /\ pc' = [pc EXCEPT ![t] = to]

Return(t) ==
  /\ pc' = [pc EXCEPT ![t] = "run"] /\ call' = [call EXCEPT ![t] = NoCall]
  /\ expired' = expired \ {t}

prvIsQueueEmpty == uxMessagesWaiting = 0
prvIsQueueFull == uxMessagesWaiting = uxLength

\* Mutant: the pointer is not set back to the start of the storage.
Forward_NoWrap(slot) == slot + 1

Forward(slot) == IF slot + 1 >= uxLength THEN 0 ELSE slot + 1
Backward(slot) == IF slot = 0 THEN uxLength - 1 ELSE slot - 1

CanSend(position) == uxMessagesWaiting < uxLength \/ position = "overwrite"

prvCopyDataToQueue(item, position) ==
  /\ uxMessagesWaiting' =
       IF position = "overwrite" /\ uxMessagesWaiting > 0
       THEN uxMessagesWaiting ELSE uxMessagesWaiting + 1
  /\ \/ uxItemSize = 0 /\ UNCHANGED <<storage, pcWriteTo, pcReadFrom>>
     \/ /\ uxItemSize > 0 /\ position = "back"
        /\ storage' = [storage EXCEPT ![pcWriteTo] = item]
        /\ pcWriteTo' = Forward(pcWriteTo) /\ UNCHANGED pcReadFrom
     \/ /\ uxItemSize > 0 /\ position # "back"
        /\ storage' = [storage EXCEPT ![pcReadFrom] = item]
        /\ pcReadFrom' = Backward(pcReadFrom) /\ UNCHANGED pcWriteTo

\* Mutant: a peek leaves the read pointer on the item it read.
CopyOut_PointerKept(peek) ==
  /\ uxMessagesWaiting' = IF peek THEN uxMessagesWaiting ELSE uxMessagesWaiting - 1
  /\ IF uxItemSize = 0
     THEN delivered' = Token /\ UNCHANGED pcReadFrom
     ELSE delivered' = storage[Forward(pcReadFrom)] /\ pcReadFrom' = Forward(pcReadFrom)
  /\ UNCHANGED <<storage, pcWriteTo>>

\* prvCopyDataFromQueue, and the count or the pointer set back after a peek.
CopyOut(peek) ==
  /\ uxMessagesWaiting' = IF peek THEN uxMessagesWaiting ELSE uxMessagesWaiting - 1
  /\ IF uxItemSize = 0
     THEN delivered' = Token /\ UNCHANGED pcReadFrom
     ELSE /\ delivered' = storage[Forward(pcReadFrom)]
          /\ pcReadFrom' = IF peek THEN pcReadFrom ELSE Forward(pcReadFrom)
  /\ UNCHANGED <<storage, pcWriteTo>>
-----------------------------------------------------------------------------
\* xTaskRemoveFromEventList, called up to n times while tasks wait.
FirstOf(list, n) == {list.items[i] : i \in {j \in 1 .. Len(list.items) : j <= n}}

WithoutFirst(list, n) ==
  [items |-> SubSeq(list.items, n + 1, Len(list.items)),
   index |-> IF list.index > n THEN list.index - n ELSE 0]

WakeReceivers(n) ==
  /\ blocked' = blocked \ FirstOf(xTasksWaitingToReceive, n)
  /\ xTasksWaitingToReceive' = WithoutFirst(xTasksWaitingToReceive, n)
  /\ UNCHANGED xTasksWaitingToSend

WakeSenders(n) ==
  /\ blocked' = blocked \ FirstOf(xTasksWaitingToSend, n)
  /\ xTasksWaitingToSend' = WithoutFirst(xTasksWaitingToSend, n)
  /\ UNCHANGED xTasksWaitingToReceive

\* vTaskPlaceOnEventList; the item value of a task's event item is lower the
\* higher its priority is.
PlaceOnEventList(list, t) ==
  LET highest == Max({uxPriority[u] : u \in Tasks})
      value == [u \in Tasks |-> highest - uxPriority[u]]
  IN  vListInsert(list, value, t, value[t])
-----------------------------------------------------------------------------
\* The first critical section of xQueueGenericSend and xQueueGenericReceive: of a
\* call that begins, also by one of the macros and semaphore functions, or of one
\* that comes round again.
Attempts(t, c) ==
  /\ pxCurrentTCB = t /\ t \notin blocked
  /\ \/ pc[t] = "run" /\ c \in Calls /\ CallAllowed(c)
     \/ pc[t] = "try" /\ c = call[t]

Send(t, c) ==
  /\ Attempts(t, c) /\ c.op = "send" /\ CanSend(c.position)
  /\ prvCopyDataToQueue(c.item, c.position)
  /\ WakeReceivers(1) /\ Return(t)
  /\ UNCHANGED <<creation, locks, pxCurrentTCB, delivered, wasReset>>

Receive(t, c) ==
  /\ Attempts(t, c) /\ c.op = "receive" /\ ~prvIsQueueEmpty
  /\ CopyOut(c.peek)
  /\ IF c.peek THEN WakeReceivers(1) ELSE WakeSenders(1)
  /\ Return(t)
  /\ UNCHANGED <<creation, locks, pxCurrentTCB, wasReset>>

\* The call goes on to wait; one without a block time fails and changes nothing.
GoOnToWait(t, c) ==
  /\ Attempts(t, c) /\ c.wait # "none"
  /\ IF c.op = "send" THEN ~CanSend(c.position) ELSE prvIsQueueEmpty
  /\ pc' = [pc EXCEPT ![t] = "lock"] /\ call' = [call EXCEPT ![t] = c]
  /\ UNCHANGED <<creation, buffer, locks, waiting, kernel, delivered, wasReset>>

\* vTaskSuspendAll and prvLockQueue.  An interrupt between the two finds what it
\* would find before them.
LockQueue(t) ==
  /\ Goes(t, "lock", "check")
  /\ cRxLock' = IF cRxLock = queueUNLOCKED THEN queueLOCKED_UNMODIFIED ELSE cRxLock
  /\ cTxLock' = IF cTxLock = queueUNLOCKED THEN queueLOCKED_UNMODIFIED ELSE cTxLock
  /\ UNCHANGED <<creation, buffer, waiting, kernel, call, delivered, wasReset>>

\* xTaskCheckForTimeOut: the time may also be over for a task that was woken,
\* and then found the queue full, or empty, once more.
TimedOut(t) ==
  IF t \in expired THEN {TRUE} ELSE IF call[t].wait = "forever" THEN {FALSE} ELSE BOOLEAN

CheckForTimeOut(t) ==
  /\ pxCurrentTCB = t /\ pc[t] = "check"
  /\ \E timedOut \in TimedOut(t) :
       pc' = [pc EXCEPT ![t] =
                CASE timedOut -> "gaveUpTx"
                  [] ~timedOut /\ (IF call[t].op = "send" THEN prvIsQueueFull
                                                          ELSE prvIsQueueEmpty) -> "place"
                  [] OTHER -> "unlockTx"]
  /\ UNCHANGED <<creation, buffer, locks, waiting, kernel, call, delivered, wasReset>>

\* vTaskPlaceOnEventList.  Interrupts leave the lists of a locked queue alone.
Place(t) ==
  /\ Goes(t, "place", "unlockTx")
  /\ blocked' = blocked \cup {t}
  /\ IF call[t].op = "send"
     THEN /\ xTasksWaitingToSend' = PlaceOnEventList(xTasksWaitingToSend, t)
          /\ UNCHANGED xTasksWaitingToReceive
     ELSE /\ xTasksWaitingToReceive' = PlaceOnEventList(xTasksWaitingToReceive, t)
          /\ UNCHANGED xTasksWaitingToSend
  /\ UNCHANGED <<creation, buffer, locks, expired, pxCurrentTCB, call, delivered, wasReset>>

\* prvUnlockQueue, in two critical sections: wake one waiter for every item that
\* interrupts sent, then one for every item they received.  The running task is
\* blocked already when it placed itself on an event list.
Unlocks(t, froms, tos) ==
  /\ pxCurrentTCB = t
  /\ \E i \in 1 .. 2 : pc[t] = froms[i] /\ pc' = [pc EXCEPT ![t] = tos[i]]

UnlockTx(t) ==
  /\ Unlocks(t, <<"unlockTx", "gaveUpTx">>, <<"unlockRx", "gaveUpRx">>)
  /\ WakeReceivers(cTxLock) /\ cTxLock' = queueUNLOCKED
  /\ UNCHANGED <<creation, buffer, cRxLock, expired, pxCurrentTCB, call, delivered, wasReset>>

\* Mutant: senders are left to wait for the next receive.
UnlockRx_NoneWoken(t) ==
  /\ Unlocks(t, <<"unlockRx", "gaveUpRx">>, <<"resume", "gaveUp">>)
  /\ cRxLock' = queueUNLOCKED
  /\ UNCHANGED <<waiting, blocked>>
  /\ UNCHANGED <<creation, buffer, cTxLock, expired, pxCurrentTCB, call, delivered, wasReset>>

UnlockRx(t) ==
  /\ Unlocks(t, <<"unlockRx", "gaveUpRx">>, <<"resume", "gaveUp">>)
  /\ WakeSenders(cRxLock) /\ cRxLock' = queueUNLOCKED
  /\ UNCHANGED <<creation, buffer, cTxLock, expired, pxCurrentTCB, call, delivered, wasReset>>

\* xTaskResumeAll, then from the top; a task that is still blocked yields.
Resume(t) ==
  /\ pxCurrentTCB = t /\ pc[t] = "resume" /\ pc' = [pc EXCEPT ![t] = "try"]
  /\ UNCHANGED <<creation, buffer, locks, waiting, kernel, call, delivered, wasReset>>

\* A send that timed out fails; a receive looks at the queue once more.
GiveUp(t) ==
  /\ pxCurrentTCB = t
  /\ \/ pc[t] = "gaveUp" /\ call[t].op = "send" /\ Return(t)
     \/ /\ pc[t] = "gaveUp" /\ call[t].op = "receive"
        /\ pc' = [pc EXCEPT ![t] = "last"] /\ UNCHANGED <<call, expired>>
     \/ pc[t] = "last" /\ prvIsQueueEmpty /\ Return(t)
     \/ /\ pc[t] = "last" /\ ~prvIsQueueEmpty
        /\ pc' = [pc EXCEPT ![t] = "try"] /\ UNCHANGED <<call, expired>>
  /\ UNCHANGED <<creation, buffer, locks, waiting, blocked, pxCurrentTCB, delivered, wasReset>>

\* The tasks that wait to receive stay blocked; one that waits to send is woken.
xQueueGenericReset(t) ==
  /\ Goes(t, "run", "run")
  /\ uxMessagesWaiting' = 0 /\ pcWriteTo' = 0 /\ pcReadFrom' = uxLength - 1
  /\ cRxLock' = queueUNLOCKED /\ cTxLock' = queueUNLOCKED
  /\ WakeSenders(1) /\ wasReset' = TRUE
  /\ UNCHANGED <<creation, storage, expired, pxCurrentTCB, call, delivered>>
-----------------------------------------------------------------------------
\* Mutant: a post to a locked queue is not counted.
TellReceivers_NotCounted ==
  /\ UNCHANGED cTxLock
  /\ IF cTxLock = queueUNLOCKED THEN WakeReceivers(1) ELSE UNCHANGED <<waiting, blocked>>

\* An interrupt wakes a waiter, or counts what it did while the queue is locked.
TellReceivers ==
  IF cTxLock = queueUNLOCKED
  THEN WakeReceivers(1) /\ UNCHANGED cTxLock
  ELSE cTxLock < MaxLocked /\ cTxLock' = cTxLock + 1 /\ UNCHANGED <<waiting, blocked>>

TellSenders ==
  IF cRxLock = queueUNLOCKED
  THEN WakeSenders(1) /\ UNCHANGED cRxLock
  ELSE cRxLock < MaxLocked /\ cRxLock' = cRxLock + 1 /\ UNCHANGED <<waiting, blocked>>

\* xQueueGenericSendFromISR and xQueueGiveFromISR.
SendFromISR ==
  /\ \E item \in Items \cup {Token}, position \in Positions :
       /\ SendAllowed(item, position) /\ CanSend(position)
       /\ prvCopyDataToQueue(item, position)
  /\ TellReceivers
  /\ UNCHANGED <<creation, cRxLock, expired, pxCurrentTCB, pc, call, delivered, wasReset>>

xQueueReceiveFromISR ==
  /\ ~prvIsQueueEmpty
  /\ CopyOut(FALSE) /\ TellSenders
  /\ UNCHANGED <<creation, cTxLock, expired, pxCurrentTCB, pc, call, wasReset>>

xQueuePeekFromISR ==
  /\ ~prvIsQueueEmpty /\ uxItemSize > 0
  /\ CopyOut(TRUE)
  /\ UNCHANGED <<creation, locks, waiting, kernel, pc, call, wasReset>>

\* The tick finds that the block time of a task is over.
TimeOut(t) ==
  /\ ~SchedulerSuspended
  /\ t \in blocked /\ call[t].wait = "finite"
  /\ blocked' = blocked \ {t} /\ expired' = expired \cup {t}
  /\ IF t \in Owners(xTasksWaitingToSend)
     THEN /\ xTasksWaitingToSend' = uxListRemove(xTasksWaitingToSend, t)
          /\ UNCHANGED xTasksWaitingToReceive
     ELSE /\ xTasksWaitingToReceive' = uxListRemove(xTasksWaitingToReceive, t)
          /\ UNCHANGED xTasksWaitingToSend
  /\ UNCHANGED <<creation, buffer, locks, pxCurrentTCB, pc, call, delivered, wasReset>>

Ready == Tasks \ blocked

vTaskSwitchContext ==
  /\ ~SchedulerSuspended
  /\ IF Ready = {}
     THEN pxCurrentTCB' = NoTask
     ELSE pxCurrentTCB' \in {t \in Ready : \A u \in Ready : uxPriority[u] <= uxPriority[t]}
  /\ pxCurrentTCB' # pxCurrentTCB
  /\ UNCHANGED <<creation, buffer, locks, waiting, blocked, expired, pc, call, delivered, wasReset>>

TaskStep(t) ==
  \/ \E c \in Calls : Send(t, c) \/ Receive(t, c) \/ GoOnToWait(t, c)
  \/ LockQueue(t)
  \/ CheckForTimeOut(t) \/ Place(t) \/ UnlockTx(t) \/ UnlockRx(t) \/ Resume(t)
  \/ GiveUp(t) \/ xQueueGenericReset(t)

Next ==
  \/ \E t \in Tasks : TaskStep(t) \/ TimeOut(t)
  \/ SendFromISR \/ xQueueReceiveFromISR \/ xQueuePeekFromISR \/ vTaskSwitchContext

Spec == Init /\ [][Next]_vars
-----------------------------------------------------------------------------
\* Every variable stays in its type: no pointer leaves the storage, and a task is
\* in an event list only while it is blocked.
TypeOK ==
  /\ uxLength \in 1 .. MaxLength /\ uxItemSize \in {0, 1}
  /\ uxMessagesWaiting \in 0 .. uxLength
  /\ storage \in [Slots -> Items]
  /\ pcWriteTo \in 0 .. uxLength - 1 /\ pcReadFrom \in 0 .. uxLength - 1
  /\ cTxLock \in queueUNLOCKED .. MaxLocked /\ cRxLock \in queueUNLOCKED .. MaxLocked
  /\ xTasksWaitingToSend \in ListOf(blocked) /\ xTasksWaitingToReceive \in ListOf(blocked)
  /\ blocked \subseteq Tasks /\ expired \subseteq Tasks
  /\ pxCurrentTCB \in Tasks \cup {NoTask}
  /\ pc \in [Tasks -> Places] /\ call \in [Tasks -> Calls \cup {NoCall}]
  /\ delivered \in Items \cup {Token} /\ wasReset \in BOOLEAN

\* The items between the read pointer and the write pointer.
Contents ==
  [i \in 1 .. uxMessagesWaiting |->
     IF uxItemSize = 0 THEN Token ELSE storage[(pcReadFrom + i) % uxLength]]

Abstract == INSTANCE Fifo WITH
  Items <- Items \cup {Token}, capacity <- uxLength, contents <- Contents

\* The ring of items between the two pointers is a first-in first-out queue:
\* through every wrap of either pointer, sends to the front, peeks and resets, the
\* item that a receive copies out is the one whose turn it is.
IsFifo == Abstract!Spec

\* Tasks that will look at the queue before they block: woken ones, also a task that
\* has placed itself in an event list and is woken before it has left the locked
\* section.
AboutTo(op) ==
  {t \in Ready : pc[t] \in {"unlockRx", "resume", "try"} /\ call[t].op = op}

\* No message is left lying while a task waits for one: whenever the queue is
\* unlocked and some task waits to receive, as many have been woken as there are
\* messages, however interrupts, timeouts and the locked sections interleave.
NoReceiverForgotten ==
  cTxLock = queueUNLOCKED /\ ~IsEmpty(xTasksWaitingToReceive) =>
    uxMessagesWaiting <= Cardinality(AboutTo("receive"))

\* The same for tasks that wait for room, until a reset, which wakes one only.
NoSenderForgotten ==
  cRxLock = queueUNLOCKED /\ ~IsEmpty(xTasksWaitingToSend) /\ ~wasReset =>
    uxLength - uxMessagesWaiting <= Cardinality(AboutTo("send"))
=============================================================================
