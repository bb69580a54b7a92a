----------------------------- MODULE TasksProofs -----------------------------
(***************************************************************************)
(* The inductive invariant of the scheduler, for any number of tasks, any  *)
(* priorities and any tick count width, and what follows from it.          *)
(*                                                                         *)
(* The first part says what the list operations do to the relation "t is   *)
(* in the list named n" (IsIn); the proofs about the steps use only that   *)
(* relation and never look into a sequence.                                *)
(***************************************************************************)
EXTENDS Tasks, ListsProofs

\* The lists have the right type and no item is in two of them.
Separate(lists, names) ==
  /\ lists \in [names -> ListOf(AllTasks)]
  /\ \A t \in AllTasks, m, n \in names : IsIn(lists, m, t) /\ IsIn(lists, n, t) => m = n

\* What new holds is what lists held, with t moved to, added to or taken from.
Moved(lists, names, t, name, new) ==
  \A m \in names, u \in AllTasks :
    IsIn(new, m, u) <=> IF u = t THEN m = name ELSE IsIn(lists, m, u)
Left(lists, names, t, new) ==
  \A m \in names, u \in AllTasks : IsIn(new, m, u) <=> u # t /\ IsIn(lists, m, u)

\* A linked item is in one of the lists.
LEMMA LinkedIff ==
  ASSUME NEW names, NEW lists, Separate(lists, names), NEW t
  PROVE  IsLinked(lists, t) <=> \E n \in names : IsIn(lists, n, t)
BY DEF Separate, IsLinked

\* A list is empty when it has no owner; the head of another is one of its owners.
LEMMA EmptyIff ==
  ASSUME NEW names, NEW lists, Separate(lists, names), NEW name \in names
  PROVE  /\ IsEmpty(lists[name]) <=> \A t \in AllTasks : ~IsIn(lists, name, t)
         /\ ~IsEmpty(lists[name]) => /\ HeadOwner(lists[name]) \in AllTasks
                                     /\ IsIn(lists, name, HeadOwner(lists[name]))
<1>1. lists[name] \in ListOf(AllTasks)
  BY DEF Separate
<1>2. Owners(lists[name]) \subseteq AllTasks
  BY <1>1, ListFields, SeqPositions
<1> QED BY <1>1, <1>2, IsEmptyIffNoOwner DEF IsIn

\* vListInsertEnd of an unlinked item adds it to that list and to no other.
LEMMA LinkEndEffect ==
  ASSUME NEW names, NEW lists, Separate(lists, names), NEW name \in names,
         NEW t \in AllTasks, \A n \in names : ~IsIn(lists, n, t)
  PROVE  /\ Separate(LinkEnd(lists, name, t), names)
         /\ Moved(lists, names, t, name, LinkEnd(lists, name, t))
<1> DEFINE new == LinkEnd(lists, name, t)
<1>1. /\ vListInsertEnd(lists[name], t) \in ListOf(AllTasks)
      /\ Owners(vListInsertEnd(lists[name], t)) = Owners(lists[name]) \cup {t}
  BY InsertEndOwners DEF Separate, IsIn
<1>2. /\ new \in [names -> ListOf(AllTasks)]
      /\ new[name] = vListInsertEnd(lists[name], t)
      /\ \A n \in names : n # name => new[n] = lists[n]
  BY <1>1 DEF Separate, LinkEnd
<1> HIDE DEF new
<1>3. Moved(lists, names, t, name, new)
  BY <1>1, <1>2 DEF Moved, IsIn
<1> QED BY <1>2, <1>3 DEF Separate, Moved, new

\* So does vListInsert.
LEMMA LinkByValueEffect ==
  ASSUME NEW names, NEW lists, Separate(lists, names), NEW name \in names,
         NEW t \in AllTasks, \A n \in names : ~IsIn(lists, n, t), NEW value, NEW at
  PROVE  /\ Separate(LinkByValue(lists, name, value, t, at), names)
         /\ Moved(lists, names, t, name, LinkByValue(lists, name, value, t, at))
<1> DEFINE new == LinkByValue(lists, name, value, t, at)
<1>1. /\ vListInsert(lists[name], value, t, at) \in ListOf(AllTasks)
      /\ Owners(vListInsert(lists[name], value, t, at)) = Owners(lists[name]) \cup {t}
  BY InsertOwners DEF Separate, IsIn
<1>2. /\ new \in [names -> ListOf(AllTasks)]
      /\ new[name] = vListInsert(lists[name], value, t, at)
      /\ \A n \in names : n # name => new[n] = lists[n]
  BY <1>1 DEF Separate, LinkByValue
<1> HIDE DEF new
<1>3. Moved(lists, names, t, name, new)
  BY <1>1, <1>2 DEF Moved, IsIn
<1> QED BY <1>2, <1>3 DEF Separate, Moved, new

\* uxListRemove takes an item out of its list and leaves the others alone.
LEMMA UnlinkEffect ==
  ASSUME NEW names, NEW lists, Separate(lists, names), NEW t \in AllTasks, IsLinked(lists, t)
  PROVE  /\ Separate(Unlink(lists, t), names)
         /\ Left(lists, names, t, Unlink(lists, t))
<1> DEFINE name == Container(lists, t)
           new == Unlink(lists, t)
<1>1. name \in names /\ IsIn(lists, name, t)
  BY DEF Container, IsLinked, Separate
<1>2. /\ uxListRemove(lists[name], t) \in ListOf(AllTasks)
      /\ Owners(uxListRemove(lists[name], t)) = Owners(lists[name]) \ {t}
  BY <1>1, RemoveOwners DEF Separate, IsIn
<1>3. /\ new \in [names -> ListOf(AllTasks)]
      /\ new[name] = uxListRemove(lists[name], t)
      /\ \A n \in names : n # name => new[n] = lists[n]
  BY <1>1, <1>2 DEF Separate, Unlink
<1> HIDE DEF new, name
<1>4. Left(lists, names, t, new)
  BY <1>1, <1>2, <1>3 DEF Left, IsIn, Separate
<1> QED BY <1>3, <1>4 DEF Separate, Left, new

\* The same for an item that may be in no list.
LEMMA UnlinkIfLinkedEffect ==
  ASSUME NEW names, NEW lists, Separate(lists, names), NEW t \in AllTasks
  PROVE  /\ Separate(UnlinkIfLinked(lists, t), names)
         /\ Left(lists, names, t, UnlinkIfLinked(lists, t))
<1>1. CASE IsLinked(lists, t)
  BY <1>1, UnlinkEffect DEF UnlinkIfLinked
<1>2. CASE ~IsLinked(lists, t)
  BY <1>2, LinkedIff DEF UnlinkIfLinked, Left
<1> QED BY <1>1, <1>2

\* Leaving one list and entering another.
LEMMA MoveEffect ==
  ASSUME NEW names, NEW lists, Separate(lists, names), NEW name \in names,
         NEW t \in AllTasks, IsLinked(lists, t)
  PROVE  /\ Separate(LinkEnd(Unlink(lists, t), name, t), names)
         /\ Moved(lists, names, t, name, LinkEnd(Unlink(lists, t), name, t))
<1>1. Separate(Unlink(lists, t), names) /\ Left(lists, names, t, Unlink(lists, t))
  BY UnlinkEffect
<1> QED BY <1>1, LinkEndEffect DEF Left, Moved

Advanced(lists, name) == [lists EXCEPT ![name] = AdvanceIndex(lists[name])]

\* Advancing pxIndex changes no membership and lands on an owner of the list.
LEMMA AdvanceEffect ==
  ASSUME NEW names, NEW lists, Separate(lists, names), NEW name \in names,
         ~IsEmpty(lists[name])
  PROVE  /\ Separate(Advanced(lists, name), names)
         /\ \A m \in names, u \in AllTasks : IsIn(Advanced(lists, name), m, u) <=> IsIn(lists, m, u)
         /\ IsIn(lists, name, IndexOwner(AdvanceIndex(lists[name])))
<1> DEFINE new == Advanced(lists, name)
<1>1. /\ AdvanceIndex(lists[name]) \in ListOf(AllTasks)
      /\ Owners(AdvanceIndex(lists[name])) = Owners(lists[name])
      /\ IndexOwner(AdvanceIndex(lists[name])) \in Owners(lists[name])
  BY AdvanceIndexOwners DEF Separate
<1>2. /\ new \in [names -> ListOf(AllTasks)]
      /\ new[name] = AdvanceIndex(lists[name])
      /\ \A n \in names : n # name => new[n] = lists[n]
  BY <1>1 DEF Separate, Advanced
<1> HIDE DEF new
<1>3. \A m \in names, u \in AllTasks : IsIn(new, m, u) <=> IsIn(lists, m, u)
  BY <1>1, <1>2 DEF IsIn
<1> QED BY <1>1, <1>2, <1>3 DEF Separate, IsIn, new
-----------------------------------------------------------------------------
(* The lists of state items and the bitmap *)

BlockedNames == {DelayedList(1), DelayedList(2), SuspendedList}

\* The lists of state items are distinct, and each is a ready list or one for
\* blocked tasks.
LEMMA StateListNamesDistinct ==
  /\ \A p, q \in Priorities : ReadyList(p) = ReadyList(q) => p = q
  /\ \A p \in Priorities : ReadyList(p) \notin BlockedNames
  /\ \A p \in Priorities : ReadyList(p) \in StateListNames
  /\ BlockedNames \subseteq StateListNames
  /\ \A n \in StateListNames : n \in BlockedNames \/ \E p \in Priorities : n = ReadyList(p)
BY DEF ReadyList, DelayedList, SuspendedList, BlockedNames, StateListNames

\* pxDelayedTaskList and pxOverflowDelayedTaskList are the two delayed lists.
LEMMA CurrentAndOverflow ==
  ASSUME pxDelayedTaskList \in {1, 2}
  PROVE  /\ Current \in BlockedNames /\ Overflow \in BlockedNames
         /\ {Current, Overflow} = {DelayedList(1), DelayedList(2)}
BY DEF Current, Overflow, BlockedNames

StateOK ==
  /\ Separate(stateLists, StateListNames)
  /\ uxPriority \in [AllTasks -> Priorities]
  /\ uxTopReadyPriority \subseteq Priorities
  /\ ReadyAtOwnPriority
  /\ TopReadyPriorityExact

\* The priorities with a ready task, in terms of the lists and of the tasks.
LEMMA ReadyPriorities ==
  ASSUME NEW lists, Separate(lists, StateListNames)
  PROVE  {p \in Priorities : ~IsEmpty(lists[ReadyList(p)])} =
           {p \in Priorities : \E t \in AllTasks : IsIn(lists, ReadyList(p), t)}
<1>1. \A p \in Priorities :
        IsEmpty(lists[ReadyList(p)]) <=> \A t \in AllTasks : ~IsIn(lists, ReadyList(p), t)
  BY EmptyIff, StateListNamesDistinct
<1> QED BY <1>1

\* A linked task enters the ready list of its priority.
LEMMA ReadyKeeps ==
  ASSUME StateOK, UNCHANGED uxPriority, NEW t \in AllTasks,
         Separate(stateLists', StateListNames),
         Moved(stateLists, StateListNames, t, ReadyList(uxPriority[t]), stateLists'),
         uxTopReadyPriority' = uxTopReadyPriority \cup {uxPriority[t]}
  PROVE  StateOK'
<1> DEFINE p0 == uxPriority[t]
<1>1. p0 \in Priorities /\ uxPriority' \in [AllTasks -> Priorities]
  BY DEF StateOK
<1>2. \A p \in Priorities, u \in AllTasks :
        IsIn(stateLists', ReadyList(p), u) <=>
          IF u = t THEN p = p0 ELSE IsIn(stateLists, ReadyList(p), u)
  BY <1>1, StateListNamesDistinct DEF Moved
<1>3. ReadyAtOwnPriority'
  BY <1>2 DEF ReadyAtOwnPriority, StateOK
<1>4. uxTopReadyPriority' =
        {p \in Priorities : \E u \in AllTasks : IsIn(stateLists', ReadyList(p), u)}
  <2>1. uxTopReadyPriority =
          {p \in Priorities : \E u \in AllTasks : IsIn(stateLists, ReadyList(p), u)}
    BY ReadyPriorities DEF StateOK, TopReadyPriorityExact
  <2>2. \A p \in Priorities : IsIn(stateLists, ReadyList(p), t) => p = p0
    BY DEF StateOK, ReadyAtOwnPriority
  <2> QED BY <1>1, <1>2, <2>1, <2>2
<1>5. TopReadyPriorityExact'
  BY <1>4, ReadyPriorities DEF TopReadyPriorityExact
<1> QED BY <1>1, <1>3, <1>4, <1>5 DEF StateOK

\* prvAddTaskToReadyList.
LEMMA MoveToReadyKeeps ==
  ASSUME StateOK, UNCHANGED uxPriority, NEW t \in AllTasks, IsLinked(stateLists, t),
         MoveToReady(t)
  PROVE  /\ StateOK'
         /\ Moved(stateLists, StateListNames, t, ReadyList(uxPriority[t]), stateLists')
<1> DEFINE name == ReadyList(uxPriority[t])
<1>1. name \in StateListNames
  BY StateListNamesDistinct DEF StateOK
<1>2. Separate(stateLists', StateListNames) /\ Moved(stateLists, StateListNames, t, name, stateLists')
  BY <1>1, MoveEffect DEF MoveToReady, StateOK
<1> QED BY <1>2, ReadyKeeps DEF MoveToReady

\* A task leaves its list for one that is not a ready list.
LEMMA BlockKeeps ==
  ASSUME StateOK, UNCHANGED uxPriority, NEW t \in AllTasks, IsLinked(stateLists, t),
         NEW name \in BlockedNames,
         Separate(stateLists', StateListNames),
         Moved(stateLists, StateListNames, t, name, stateLists'),
         uxTopReadyPriority' = ResetReadyPriority(Unlink(stateLists, t), uxPriority[t])
  PROVE  StateOK'
<1> DEFINE p0 == uxPriority[t]
           left == Unlink(stateLists, t)
<1>1. p0 \in Priorities /\ uxPriority' \in [AllTasks -> Priorities]
  BY DEF StateOK
<1>2. Separate(left, StateListNames) /\ Left(stateLists, StateListNames, t, left)
  BY UnlinkEffect DEF StateOK
<1> HIDE DEF left
<1>3. \A p \in Priorities, u \in AllTasks :
        /\ IsIn(stateLists', ReadyList(p), u) <=> u # t /\ IsIn(stateLists, ReadyList(p), u)
        /\ IsIn(left, ReadyList(p), u) <=> u # t /\ IsIn(stateLists, ReadyList(p), u)
  BY <1>2, StateListNamesDistinct DEF Moved, Left
<1>4. ReadyAtOwnPriority'
  BY <1>3 DEF ReadyAtOwnPriority, StateOK
<1>5. IsEmpty(left[ReadyList(p0)]) <=>
        \A u \in AllTasks : u # t => ~IsIn(stateLists, ReadyList(p0), u)
  BY <1>1, <1>2, <1>3, EmptyIff, StateListNamesDistinct
<1>6. uxTopReadyPriority' =
        {p \in Priorities : \E u \in AllTasks : IsIn(stateLists', ReadyList(p), u)}
  <2>1. uxTopReadyPriority =
          {p \in Priorities : \E u \in AllTasks : IsIn(stateLists, ReadyList(p), u)}
    BY ReadyPriorities DEF StateOK, TopReadyPriorityExact
  <2>2. \A p \in Priorities : IsIn(stateLists, ReadyList(p), t) => p = p0
    BY DEF StateOK, ReadyAtOwnPriority
  <2>3. uxTopReadyPriority' =
          IF IsEmpty(left[ReadyList(p0)]) THEN uxTopReadyPriority \ {p0} ELSE uxTopReadyPriority
    BY DEF ResetReadyPriority, left
  <2> QED BY <1>1, <1>3, <1>5, <2>1, <2>2, <2>3
<1>7. TopReadyPriorityExact' /\ uxTopReadyPriority' \subseteq Priorities
  BY <1>6, ReadyPriorities DEF TopReadyPriorityExact
<1> QED BY <1>1, <1>4, <1>7 DEF StateOK

\* prvAddCurrentTaskToDelayedList.
LEMMA AddToDelayedListKeeps ==
  ASSUME StateOK, UNCHANGED uxPriority, pxDelayedTaskList \in {1, 2},
         NEW t \in AllTasks, IsLinked(stateLists, t), NEW n, NEW forever,
         AddCurrentTaskToDelayedList(t, n, forever)
  PROVE  /\ StateOK'
         /\ \E name \in BlockedNames : Moved(stateLists, StateListNames, t, name, stateLists')
<1> DEFINE left == Unlink(stateLists, t)
           wake == (xTickCount + n) % (MaxDelay + 1)
           target == IF WakesAfterWrap(wake) THEN Overflow ELSE Current
<1>1. Separate(left, StateListNames) /\ Left(stateLists, StateListNames, t, left)
  BY UnlinkEffect DEF StateOK
<1>2. \A m \in StateListNames : ~IsIn(left, m, t)
  BY <1>1 DEF Left
<1>3. SuspendedList \in BlockedNames /\ target \in BlockedNames /\ BlockedNames \subseteq StateListNames
  BY CurrentAndOverflow, StateListNamesDistinct DEF BlockedNames
<1>4. uxTopReadyPriority' = ResetReadyPriority(left, uxPriority[t])
  BY DEF AddCurrentTaskToDelayedList
<1>5. \/ stateLists' = LinkEnd(left, SuspendedList, t)
      \/ stateLists' = LinkByValue(left, target, xItemValue, t, wake)
  BY Zenon DEF AddCurrentTaskToDelayedList
<1> HIDE DEF target, wake
<1>6. \E name \in BlockedNames :
        Separate(stateLists', StateListNames) /\ Moved(left, StateListNames, t, name, stateLists')
  <2>1. CASE stateLists' = LinkEnd(left, SuspendedList, t)
    BY <1>1, <1>2, <1>3, <2>1, LinkEndEffect
  <2>2. CASE stateLists' = LinkByValue(left, target, xItemValue, t, wake)
    BY <1>1, <1>2, <1>3, <2>2, LinkByValueEffect
  <2> QED BY <1>5, <2>1, <2>2
<1>7. PICK name \in BlockedNames :
        Separate(stateLists', StateListNames) /\ Moved(left, StateListNames, t, name, stateLists')
  BY <1>6
<1>8. Moved(stateLists, StateListNames, t, name, stateLists')
  BY <1>1, <1>7 DEF Moved, Left
<1> QED BY <1>4, <1>7, <1>8, BlockKeeps

\* prvAddNewTaskToReadyList, for a task whose item is in no list.
LEMMA CreateKeeps ==
  ASSUME StateOK, UNCHANGED uxPriority, NEW t \in AllTasks, ~IsLinked(stateLists, t),
         AddNewTask(t)
  PROVE  /\ StateOK'
         /\ Moved(stateLists, StateListNames, t, ReadyList(uxPriority[t]), stateLists')
<1> DEFINE name == ReadyList(uxPriority[t])
<1>1. name \in StateListNames
  BY StateListNamesDistinct DEF StateOK
<1>2. \A n \in StateListNames : ~IsIn(stateLists, n, t)
  BY LinkedIff DEF StateOK
<1>3. Separate(stateLists', StateListNames) /\ Moved(stateLists, StateListNames, t, name, stateLists')
  BY <1>1, <1>2, LinkEndEffect DEF AddNewTask, StateOK
<1> QED BY <1>3, ReadyKeeps DEF AddNewTask

\* vTaskPrioritySet moves a ready task to the list of its new priority.
LEMMA PrioritySetKeeps ==
  ASSUME StateOK, NEW self, NEW t \in AllTasks, NEW new \in Priorities,
         vTaskPrioritySet(self, t, new)
  PROVE  /\ StateOK'
         /\ \/ stateLists' = stateLists
            \/ /\ IsIn(stateLists, ReadyList(uxPriority[t]), t)
               /\ Moved(stateLists, StateListNames, t, ReadyList(new), stateLists')
<1> DEFINE old == uxPriority[t]
           left == Unlink(stateLists, t)
<1>1. old \in Priorities /\ uxPriority' \in [AllTasks -> Priorities] /\ new # old
      /\ uxPriority' = [uxPriority EXCEPT ![t] = new] /\ IsLinked(stateLists, t)
  BY DEF StateOK, vTaskPrioritySet
<1>2. CASE ~IsIn(stateLists, ReadyList(old), t)
  <2>1. UNCHANGED <<stateLists, uxTopReadyPriority>>
    BY <1>2 DEF vTaskPrioritySet
  <2>2. \A p \in Priorities : ~IsIn(stateLists, ReadyList(p), t)
    BY <1>2 DEF StateOK, ReadyAtOwnPriority
  <2>3. ReadyAtOwnPriority'
    BY <1>1, <2>1, <2>2 DEF StateOK, ReadyAtOwnPriority, IsIn
  <2> QED BY <1>1, <2>1, <2>3 DEF StateOK, TopReadyPriorityExact
<1>3. CASE IsIn(stateLists, ReadyList(old), t)
  <2>1. stateLists' = LinkEnd(left, ReadyList(new), t)
    BY <1>3, Zenon DEF vTaskPrioritySet
  <2>2. uxTopReadyPriority' =
          (IF IsEmpty(left[ReadyList(old)]) THEN uxTopReadyPriority \ {old}
           ELSE uxTopReadyPriority) \cup {new}
    BY <1>3, Zenon DEF vTaskPrioritySet
  <2>3. Separate(left, StateListNames) /\ Left(stateLists, StateListNames, t, left)
    BY <1>1, UnlinkEffect DEF StateOK
  <2>4. /\ Separate(stateLists', StateListNames)
        /\ Moved(stateLists, StateListNames, t, ReadyList(new), stateLists')
    BY <1>1, <2>1, MoveEffect, StateListNamesDistinct DEF StateOK
  <2> HIDE DEF left
  <2>5. \A p \in Priorities, u \in AllTasks :
          IsIn(stateLists', ReadyList(p), u) <=>
            IF u = t THEN p = new ELSE IsIn(stateLists, ReadyList(p), u)
    BY <2>4, StateListNamesDistinct DEF Moved
  <2>6. IsEmpty(left[ReadyList(old)]) <=>
          \A u \in AllTasks : u # t => ~IsIn(stateLists, ReadyList(old), u)
    <3>1. \A u \in AllTasks :
            IsIn(left, ReadyList(old), u) <=> u # t /\ IsIn(stateLists, ReadyList(old), u)
      BY <1>1, <2>3, StateListNamesDistinct DEF Left
    <3> QED BY <1>1, <2>3, <3>1, EmptyIff, StateListNamesDistinct
  <2>7. ReadyAtOwnPriority'
    BY <1>1, <2>5 DEF ReadyAtOwnPriority, StateOK
  <2>8. uxTopReadyPriority' =
          {p \in Priorities : \E u \in AllTasks : IsIn(stateLists', ReadyList(p), u)}
    <3>1. uxTopReadyPriority =
            {p \in Priorities : \E u \in AllTasks : IsIn(stateLists, ReadyList(p), u)}
      BY ReadyPriorities DEF StateOK, TopReadyPriorityExact
    <3>2. \A p \in Priorities : IsIn(stateLists, ReadyList(p), t) => p = old
      BY DEF StateOK, ReadyAtOwnPriority
    <3> QED BY <1>1, <2>2, <2>5, <2>6, <3>1, <3>2
  <2>9. TopReadyPriorityExact' /\ uxTopReadyPriority' \subseteq Priorities
    BY <2>4, <2>8, ReadyPriorities DEF TopReadyPriorityExact
  <2> QED BY <1>1, <1>3, <2>4, <2>7, <2>9 DEF StateOK
<1> QED BY <1>2, <1>3
-----------------------------------------------------------------------------
(* Ready and blocked tasks *)

Ready(lists, t) == \E p \in Priorities : IsIn(lists, ReadyList(p), t)
Blocked(lists, t) == \E n \in BlockedNames : IsIn(lists, n, t)

\* A linked task is ready or blocked, and never both.
LEMMA ReadyOrBlocked ==
  ASSUME NEW lists, Separate(lists, StateListNames), NEW t \in AllTasks
  PROVE  /\ IsLinked(lists, t) <=> Ready(lists, t) \/ Blocked(lists, t)
         /\ ~(Ready(lists, t) /\ Blocked(lists, t))
<1>1. IsLinked(lists, t) <=> \E n \in StateListNames : IsIn(lists, n, t)
  BY LinkedIff
<1> QED BY <1>1, StateListNamesDistinct DEF Ready, Blocked, Separate

\* A move into a ready list makes just that task ready.
LEMMA MovedToReady ==
  ASSUME NEW lists, NEW new, NEW t, NEW p \in Priorities,
         Moved(lists, StateListNames, t, ReadyList(p), new)
  PROVE  \A u \in AllTasks : /\ Ready(new, u) <=> u = t \/ Ready(lists, u)
                             /\ Blocked(new, u) <=> u # t /\ Blocked(lists, u)
<1>1. \A q \in Priorities, u \in AllTasks :
        IsIn(new, ReadyList(q), u) <=> IF u = t THEN q = p ELSE IsIn(lists, ReadyList(q), u)
  BY StateListNamesDistinct DEF Moved
<1>2. \A n \in BlockedNames, u \in AllTasks : IsIn(new, n, u) <=> u # t /\ IsIn(lists, n, u)
  BY StateListNamesDistinct DEF Moved
<1> QED BY <1>1, <1>2 DEF Ready, Blocked

\* A move into another list blocks just that task.
LEMMA MovedToBlocked ==
  ASSUME NEW lists, NEW new, NEW t, NEW name \in BlockedNames,
         Moved(lists, StateListNames, t, name, new)
  PROVE  \A u \in AllTasks : /\ Ready(new, u) <=> u # t /\ Ready(lists, u)
                             /\ Blocked(new, u) <=> u = t \/ Blocked(lists, u)
<1>1. \A q \in Priorities, u \in AllTasks :
        IsIn(new, ReadyList(q), u) <=> u # t /\ IsIn(lists, ReadyList(q), u)
  BY StateListNamesDistinct DEF Moved
<1>2. \A n \in BlockedNames, u \in AllTasks :
        IsIn(new, n, u) <=> IF u = t THEN n = name ELSE IsIn(lists, n, u)
  BY StateListNamesDistinct DEF Moved
<1> QED BY <1>1, <1>2 DEF Ready, Blocked
-----------------------------------------------------------------------------
(* The inductive invariant in terms of ready and blocked tasks *)

Scalars ==
  /\ xSchedulerRunning \in BOOLEAN
  /\ xTickCount \in Ticks /\ xNextTaskUnblockTime \in Ticks
  /\ uxPendedTicks \in 0 .. MaxPended
  /\ uxSchedulerSuspended \in Nat
  /\ xYieldPending \in BOOLEAN
  /\ pxCurrentTCB \in AllTasks \cup {NoTask}
  /\ pxDelayedTaskList \in {1, 2}
  /\ xItemValue \in [AllTasks -> Ticks]
  /\ ucNotifyState \in [AllTasks -> {"notWaiting", "waiting", "received"}]
  /\ ulNotifiedValue \in [AllTasks -> NotifiedValues]
  /\ pxPreviousWakeTime \in [AllTasks -> Ticks]
  /\ pc \in [AllTasks -> CallPoints]
  /\ arg \in [AllTasks -> Ticks]
  /\ mode \in Modes
  /\ pendSV \in BOOLEAN
  /\ suspendCalls \subseteq AllTasks

ListsOK == StateOK /\ Separate(eventLists, EventListNames)

\* The conjuncts of IInv that relate the calls in progress to the lists.
Created == \A t \in AllTasks : pc[t] # "none" <=> Ready(stateLists, t) \/ Blocked(stateLists, t)
StartedR ==
  IF xSchedulerRunning THEN pxCurrentTCB \in AllTasks /\ Ready(stateLists, Idle)
  ELSE uxSchedulerSuspended = 0
CurrentR ==
  /\ pxCurrentTCB # NoTask
  /\ pc[pxCurrentTCB] \notin {"resumeAll", "yield", "suspendedSelf"}
  /\ ~pendSV \/ uxSchedulerSuspended # 0
  => Ready(stateLists, pxCurrentTCB)
EventsR ==
  \A t \in AllTasks :
    /\ IsIn(eventLists, EventList, t) => Blocked(stateLists, t)
    /\ IsIn(eventLists, PendingReadyList, t) => Blocked(stateLists, t) \/ pc[t] \in NotifyPoints
HeldBackR ==
  uxSchedulerSuspended = 0 /\ mode \in {"open", "tick"} =>
    (\A t \in AllTasks : ~IsIn(eventLists, PendingReadyList, t)) /\ uxPendedTicks = 0

CallsOK ==
  Created /\ StartedR /\ SchedulerHeld /\ CurrentR /\ EventsR /\ WaitersInNotifyCalls /\ HeldBackR

PInv == Scalars /\ ListsOK /\ CallsOK

\* The two ways to say that a task is blocked agree.
LEMMA BlockedAreInBlockedLists ==
  ASSUME pxDelayedTaskList \in {1, 2}
  PROVE  \A t : IsBlocked(t) <=> Blocked(stateLists, t)
BY CurrentAndOverflow DEF IsBlocked, IsDelayed, Blocked, BlockedNames

\* The invariant gives the form of it that the proofs use,
LEMMA IInvUnfolds ==
  ASSUME IInv
  PROVE  PInv
<1>1. Scalars
  BY DEF IInv, TypeOK, Scalars
<1>2. ListsOK
  BY DEF IInv, TypeOK, OneListPerItem, ListsOK, StateOK, Separate
<1>3. \A t \in AllTasks : IsLinked(stateLists, t) <=> Ready(stateLists, t) \/ Blocked(stateLists, t)
  BY <1>2, ReadyOrBlocked DEF ListsOK, StateOK
<1>4. Created
  BY <1>3 DEF IInv, OneListPerItem, Created
<1>5. \A t : (IsReady(t) <=> Ready(stateLists, t)) /\ (IsBlocked(t) <=> Blocked(stateLists, t))
  BY <1>1, BlockedAreInBlockedLists DEF IsReady, Ready, Scalars
<1>6. StartedR /\ CurrentR /\ EventsR
  BY <1>5 DEF IInv, Started, StartedR, CurrentReady, CurrentR, EventItemsOfBlocked, EventsR
<1>7. HeldBackR
  BY <1>2, EmptyIff DEF IInv, HeldBackOnlyWhileSuspended, HeldBackR, ListsOK, EventListNames
<1> QED BY <1>1, <1>2, <1>4, <1>6, <1>7 DEF IInv, CallsOK, PInv

\* and follows from it.
LEMMA IInvFolds ==
  ASSUME PInv
  PROVE  IInv
<1>1. TypeOK
  BY DEF PInv, TypeOK, Scalars, ListsOK, StateOK, Separate
<1>2. \A t \in AllTasks : IsLinked(stateLists, t) <=> Ready(stateLists, t) \/ Blocked(stateLists, t)
  BY ReadyOrBlocked DEF PInv, ListsOK, StateOK
<1>3. OneListPerItem
  BY <1>2 DEF PInv, CallsOK, Created, ListsOK, StateOK, Separate, OneListPerItem
<1>4. \A t : (IsReady(t) <=> Ready(stateLists, t)) /\ (IsBlocked(t) <=> Blocked(stateLists, t))
  BY BlockedAreInBlockedLists DEF IsReady, Ready, PInv, Scalars
<1>5. Started /\ CurrentReady /\ EventItemsOfBlocked
  BY <1>4 DEF PInv, CallsOK, Started, StartedR, CurrentReady, CurrentR, EventItemsOfBlocked, EventsR
<1>6. HeldBackOnlyWhileSuspended
  BY EmptyIff
  DEF PInv, CallsOK, HeldBackOnlyWhileSuspended, HeldBackR, ListsOK, EventListNames
<1> QED BY <1>1, <1>3, <1>5, <1>6 DEF IInv, PInv, CallsOK, ListsOK, StateOK

\* The invariant holds at boot.
LEMMA InitPInv == Init => PInv
<1> SUFFICES ASSUME Init PROVE PInv
  OBVIOUS
<1>1. Scalars
  <2>1. 0 \in Ticks /\ 0 \in 0 .. MaxPended
    BY TasksAssumption DEF Ticks
  <2>2. xSchedulerRunning \in BOOLEAN /\ xYieldPending \in BOOLEAN /\ pendSV \in BOOLEAN
    BY Zenon DEF Init
  <2> QED BY <2>1, <2>2 DEF Init, Scalars, NotifiedValues, CallPoints, Modes
<1>2. /\ Separate(stateLists, StateListNames) /\ Separate(eventLists, EventListNames)
      /\ \A n \in StateListNames : \A t : ~IsIn(stateLists, n, t)
      /\ \A n \in EventListNames : \A t : ~IsIn(eventLists, n, t)
  BY EmptyList DEF Init, Separate, IsIn
<1>3. ReadyAtOwnPriority
  BY <1>2, StateListNamesDistinct DEF ReadyAtOwnPriority
<1>4. TopReadyPriorityExact
  BY <1>2, ReadyPriorities, StateListNamesDistinct DEF TopReadyPriorityExact, Init
<1>5. ListsOK
  BY <1>2, <1>3, <1>4, TasksAssumption DEF ListsOK, StateOK, Init
<1>6. CallsOK
  BY <1>2, StateListNamesDistinct
  DEF CallsOK, Created, StartedR, SchedulerHeld, CurrentR, EventsR, WaitersInNotifyCalls,
      HeldBackR, Init, Ready, Blocked, EventListNames, HoldingPoints
<1> QED BY <1>1, <1>5, <1>6 DEF PInv
-----------------------------------------------------------------------------
(* Steps that leave the lists alone *)

Quiet == UNCHANGED <<stateLists, eventLists, uxTopReadyPriority, uxPriority>>

\* A step that touches no list keeps what is said about the lists.
LEMMA QuietKeepsLists ==
  ASSUME ListsOK, Quiet
  PROVE  ListsOK'
BY DEF Quiet, ListsOK, StateOK, ReadyAtOwnPriority, TopReadyPriorityExact, IsIn

\* A list's first wake time is a tick count.
LEMMA EarliestWakeType ==
  ASSUME Scalars, NEW lists, Separate(lists, StateListNames), NEW name \in BlockedNames
  PROVE  EarliestWake(lists[name]) \in Ticks
<1>1. MaxDelay \in Ticks
  BY TasksAssumption DEF Ticks
<1>2. ~IsEmpty(lists[name]) => HeadOwner(lists[name]) \in AllTasks
  BY EmptyIff, StateListNamesDistinct
<1> QED BY <1>1, <1>2 DEF EarliestWake, Scalars

\* In what follows the tuples of variables and the program counter's
\* abbreviations are expanded everywhere.
USE DEF timeVars, listVars, notifyVars, schedVars, cpuVars, callVars, restVars,
        Goto, SetArg, Executes, Calling, Interruptible

\* The first step of vTaskDelay, vTaskDelayUntil and a wait for an event.
LEMMA BeginBlockingStep ==
  ASSUME PInv, NEW t \in AllTasks, NEW call, NEW wait \in Ticks,
         NEW next \in {"delay", "delayUntil", "placeOnEventList"},
         BeginBlocking(t, call, wait, next)
  PROVE  PInv'
<1>1. Quiet
  BY DEF BeginBlocking, Quiet
<1>2. Scalars'
  BY DEF PInv, Scalars, BeginBlocking, CallPoints
<1>3. CallsOK'
  BY <1>1
  DEF PInv, CallsOK, Scalars, BeginBlocking, MayBlock, Quiet,
      Created, StartedR, SchedulerHeld, CurrentR, EventsR, WaitersInNotifyCalls, HeldBackR,
      HoldingPoints, NotifyPoints
<1> QED BY <1>1, <1>2, <1>3, QuietKeepsLists DEF PInv

\* xTaskGetTickCount changes nothing but the caller's variable.
LEMMA GetTickCountStep ==
  ASSUME PInv, NEW t \in AllTasks, xTaskGetTickCount(t)
  PROVE  PInv'
<1>1. Quiet
  BY DEF xTaskGetTickCount, Quiet
<1>2. Scalars'
  BY DEF PInv, Scalars, xTaskGetTickCount
<1>3. CallsOK'
  BY <1>1
  DEF PInv, CallsOK, Scalars, xTaskGetTickCount, Quiet,
      Created, StartedR, SchedulerHeld, CurrentR, EventsR, WaitersInNotifyCalls, HeldBackR
<1> QED BY <1>1, <1>2, <1>3, QuietKeepsLists DEF PInv

\* taskYIELD, and the yield at the end of a call.
LEMMA YieldStep ==
  ASSUME PInv, NEW t \in AllTasks, Yield(t)
  PROVE  PInv'
<1>1. Quiet
  BY DEF Yield, Quiet
<1>2. Scalars'
  BY DEF PInv, Scalars, Yield, CallPoints
<1>3. CallsOK'
  BY <1>1
  DEF PInv, CallsOK, Scalars, Yield, Quiet,
      Created, StartedR, SchedulerHeld, CurrentR, EventsR, WaitersInNotifyCalls, HeldBackR,
      HoldingPoints, NotifyPoints
<1> QED BY <1>1, <1>2, <1>3, QuietKeepsLists DEF PInv

\* vTaskSuspendAll, nested or not.
LEMMA SuspendAllStep ==
  ASSUME PInv, NEW t \in AllTasks, vTaskSuspendAll(t)
  PROVE  PInv'
<1>1. Quiet
  BY DEF vTaskSuspendAll, Quiet
<1>2. Scalars'
  BY DEF PInv, Scalars, vTaskSuspendAll
<1>3. CallsOK'
  BY <1>1
  DEF PInv, CallsOK, Scalars, vTaskSuspendAll, Quiet,
      Created, StartedR, SchedulerHeld, CurrentR, EventsR, WaitersInNotifyCalls, HeldBackR,
      HoldingPoints, NotifyPoints
<1> QED BY <1>1, <1>2, <1>3, QuietKeepsLists DEF PInv

\* xTaskResumeAll up to its loops.
LEMMA ResumeAllStep ==
  ASSUME PInv, NEW t \in AllTasks, xTaskResumeAll(t)
  PROVE  PInv'
<1>1. Quiet
  BY DEF xTaskResumeAll, Quiet
<1>2. Scalars'
  BY DEF PInv, Scalars, xTaskResumeAll, CallPoints, Modes
<1>3. CallsOK'
  BY <1>1
  DEF PInv, CallsOK, Scalars, xTaskResumeAll, Quiet,
      Created, StartedR, SchedulerHeld, CurrentR, EventsR, WaitersInNotifyCalls, HeldBackR,
      HoldingPoints, NotifyPoints
<1> QED BY <1>1, <1>2, <1>3, QuietKeepsLists DEF PInv

\* The end of xTaskResumeAll: nothing is pending any more.
LEMMA ResumeAllLeaveStep ==
  ASSUME PInv, ResumeAll_Leave
  PROVE  PInv'
<1>1. Quiet
  BY DEF ResumeAll_Leave, Quiet
<1>2. Scalars'
  BY DEF PInv, Scalars, ResumeAll_Leave, Modes
<1>3. \A t \in AllTasks : ~IsIn(eventLists, PendingReadyList, t)
  BY EmptyIff DEF ResumeAll_Leave, PInv, ListsOK, EventListNames
<1>4. CallsOK'
  BY <1>1, <1>3
  DEF PInv, CallsOK, Scalars, ResumeAll_Leave, Quiet,
      Created, StartedR, SchedulerHeld, CurrentR, EventsR, WaitersInNotifyCalls, HeldBackR
<1> QED BY <1>1, <1>2, <1>4, QuietKeepsLists DEF PInv

\* The second critical section of vTaskSuspend.
LEMMA ResetUnblockTimeStep ==
  ASSUME PInv, NEW t \in AllTasks, Suspend_ResetUnblockTime(t)
  PROVE  PInv'
<1>1. Quiet
  BY DEF Suspend_ResetUnblockTime, Quiet
<1>2. EarliestWake(stateLists[Current]) \in Ticks
  BY EarliestWakeType, CurrentAndOverflow DEF PInv, Scalars, ListsOK, StateOK
<1>3. Scalars'
  BY <1>2 DEF PInv, Scalars, Suspend_ResetUnblockTime, CallPoints
<1>4. CallsOK'
  BY <1>1
  DEF PInv, CallsOK, Scalars, Suspend_ResetUnblockTime, Quiet,
      Created, StartedR, SchedulerHeld, CurrentR, EventsR, WaitersInNotifyCalls, HeldBackR,
      HoldingPoints, NotifyPoints
<1> QED BY <1>1, <1>3, <1>4, QuietKeepsLists DEF PInv

\* The second critical section of the calls that wait for a notification.
LEMMA NotifyReturnStep ==
  ASSUME PInv, NEW t \in AllTasks, Notify_Return(t)
  PROVE  PInv'
<1>1. Quiet
  BY DEF Notify_Return, Quiet
<1>2. Scalars'
  BY DEF PInv, Scalars, Notify_Return, CallPoints, NotifiedValues
<1>3. CallsOK'
  BY <1>1
  DEF PInv, CallsOK, Scalars, Notify_Return, Quiet,
      Created, StartedR, SchedulerHeld, CurrentR, EventsR, WaitersInNotifyCalls, HeldBackR,
      HoldingPoints, NotifyPoints
<1> QED BY <1>1, <1>2, <1>3, QuietKeepsLists DEF PInv

\* xTaskNotifyStateClear never makes a task wait.
LEMMA StateClearStep ==
  ASSUME PInv, NEW t, NEW target \in AllTasks, xTaskNotifyStateClear(t, target)
  PROVE  PInv'
<1>1. Quiet
  BY DEF xTaskNotifyStateClear, Quiet
<1>2. Scalars'
  BY DEF PInv, Scalars, xTaskNotifyStateClear
<1>3. CallsOK'
  BY <1>1
  DEF PInv, CallsOK, Scalars, xTaskNotifyStateClear, Quiet,
      Created, StartedR, SchedulerHeld, CurrentR, EventsR, WaitersInNotifyCalls, HeldBackR
<1> QED BY <1>1, <1>2, <1>3, QuietKeepsLists DEF PInv

\* Tick counts are closed under the sums and differences the kernel forms.
LEMMA TickArithmetic ==
  ASSUME Scalars
  PROVE  /\ NextTick \in Ticks /\ MaxDelay \in Ticks
         /\ \A m, n \in Ticks : (m + n) % (MaxDelay + 1) \in Ticks /\ (m - n) % (MaxDelay + 1) \in Ticks
BY TasksAssumption DEF NextTick, Ticks, Scalars

\* xTaskIncrementTick up to its loop, from either caller.
LEMMA IncrementTickStep ==
  ASSUME PInv, NEW loop \in Modes, NEW done \in Modes, IncrementTick(loop, done)
  PROVE  /\ Quiet /\ UNCHANGED <<uxSchedulerSuspended, pxCurrentTCB, pendSV, callVars, xSchedulerRunning, notifyVars>>
         /\ mode' \in {loop, done, "halted"}
         /\ uxPendedTicks' \in 0 .. MaxPended => Scalars'
<1>1. CASE AssertFails("delayed list empty at the switch")
  BY <1>1 DEF AssertFails, Quiet, PInv, Scalars, Modes
<1>2. CASE ~AssertFails("delayed list empty at the switch")
  <2>1. /\ xTickCount' = NextTick /\ pxDelayedTaskList' = DelayedListAt(NextTick)
        /\ xNextTaskUnblockTime' \in {EarliestWake(stateLists[Overflow]), xNextTaskUnblockTime}
        /\ mode' \in {loop, done}
        /\ UNCHANGED <<xItemValue, listVars, notifyVars, xYieldPending,
                       uxSchedulerSuspended, pxCurrentTCB, pendSV, callVars, restVars>>
    BY <1>2 DEF IncrementTick
  <2>2. EarliestWake(stateLists[Overflow]) \in Ticks
    BY EarliestWakeType, CurrentAndOverflow DEF PInv, Scalars, ListsOK, StateOK
  <2>3. DelayedListAt(NextTick) \in {1, 2}
    BY DEF PInv, Scalars, DelayedListAt
  <2> QED BY <2>1, <2>2, <2>3, TickArithmetic DEF PInv, Scalars, Quiet
<1> QED BY <1>1, <1>2

\* The tick interrupt, with the scheduler running or suspended.
LEMMA TickStep ==
  ASSUME PInv, Tick
  PROVE  PInv'
<1>1. CASE uxSchedulerSuspended = 0
  <2>1. IncrementTick("tick", "open") /\ UNCHANGED uxPendedTicks
    BY <1>1 DEF Tick
  <2>2. /\ Quiet /\ UNCHANGED <<uxSchedulerSuspended, pxCurrentTCB, pendSV, callVars, xSchedulerRunning, notifyVars>>
        /\ mode' \in {"tick", "open", "halted"} /\ Scalars'
    BY <2>1, IncrementTickStep DEF PInv, Scalars, Modes
  <2>3. CallsOK'
    BY <1>1, <2>1, <2>2
    DEF Tick, PInv, CallsOK, Scalars, Quiet,
        Created, StartedR, SchedulerHeld, CurrentR, EventsR, WaitersInNotifyCalls, HeldBackR
  <2> QED BY <2>2, <2>3, QuietKeepsLists DEF PInv
<1>2. CASE uxSchedulerSuspended # 0
  <2>1. Quiet
    BY <1>2 DEF Tick, Quiet
  <2>2. Scalars'
    BY <1>2, TasksAssumption DEF Tick, PInv, Scalars
  <2>3. CallsOK'
    BY <1>2, <2>1
    DEF Tick, PInv, CallsOK, Scalars, Quiet,
        Created, StartedR, SchedulerHeld, CurrentR, EventsR, WaitersInNotifyCalls, HeldBackR
  <2> QED BY <2>1, <2>2, <2>3, QuietKeepsLists DEF PInv
<1> QED BY <1>1, <1>2

\* A pended tick replayed by xTaskResumeAll.
LEMMA ReplayTickStep ==
  ASSUME PInv, ResumeAll_ReplayTick
  PROVE  PInv'
<1>1. IncrementTick("replay", "resume") /\ uxPendedTicks' = uxPendedTicks - 1 /\ uxPendedTicks > 0
  BY DEF ResumeAll_ReplayTick
<1>2. uxPendedTicks' \in 0 .. MaxPended
  BY <1>1, TasksAssumption DEF PInv, Scalars
<1>3. /\ Quiet /\ UNCHANGED <<uxSchedulerSuspended, pxCurrentTCB, pendSV, callVars, xSchedulerRunning, notifyVars>>
      /\ mode' \in {"replay", "resume", "halted"} /\ Scalars'
  BY <1>1, <1>2, IncrementTickStep DEF Modes
<1>4. CallsOK'
  BY <1>3
  DEF PInv, CallsOK, Scalars, Quiet,
      Created, StartedR, SchedulerHeld, CurrentR, EventsR, WaitersInNotifyCalls, HeldBackR
<1> QED BY <1>3, <1>4, QuietKeepsLists DEF PInv

\* The end of the loop of xTaskIncrementTick.
LEMMA TickLeaveStep ==
  ASSUME PInv, IncrementTick_Leave
  PROVE  PInv'
<1>1. Quiet
  BY DEF IncrementTick_Leave, Quiet
<1>2. EarliestWake(stateLists[Current]) \in Ticks
  BY EarliestWakeType, CurrentAndOverflow DEF PInv, Scalars, ListsOK, StateOK
<1>3. Scalars'
  BY <1>2 DEF PInv, Scalars, IncrementTick_Leave, Modes
<1>4. CallsOK'
  BY <1>1
  DEF PInv, CallsOK, Scalars, IncrementTick_Leave, Unblocking, Quiet,
      Created, StartedR, SchedulerHeld, CurrentR, EventsR, WaitersInNotifyCalls, HeldBackR
<1> QED BY <1>1, <1>3, <1>4, QuietKeepsLists DEF PInv
-----------------------------------------------------------------------------
(* The idle task *)

\* The idle task: its yield, its two samples of the idle time, the sleep.
LEMMA IdleStep ==
  ASSUME PInv,
         Idle_Yield \/ Idle_SampleUnblockTime \/ Idle_SuspendAll \/ Idle_ConfirmIdleTime
           \/ Idle_Sleep \/ vTaskStepTick
  PROVE  PInv'
<1> USE DEF CallPoints, Modes
<1>0. Idle \in AllTasks /\ 0 \in Ticks
  BY TasksAssumption DEF AllTasks, Ticks
<1>1. Quiet
  BY DEF Quiet, AssertFails, Idle_Yield, Idle_SampleUnblockTime, Idle_SuspendAll,
         Idle_ConfirmIdleTime, Idle_Sleep, vTaskStepTick
<1>2. CASE Idle_Yield
  <2>1. Scalars'
    BY <1>2 DEF PInv, Scalars, Idle_Yield
  <2>2. CallsOK'
    BY <1>0, <1>1, <1>2
    DEF PInv, CallsOK, Scalars, Idle_Yield, Quiet, HoldingPoints, NotifyPoints,
        Created, StartedR, SchedulerHeld, CurrentR, EventsR, WaitersInNotifyCalls, HeldBackR
  <2> QED BY <1>1, <2>1, <2>2, QuietKeepsLists DEF PInv
<1>3. CASE Idle_SampleUnblockTime
  <2>1. Scalars'
    BY <1>3 DEF PInv, Scalars, Idle_SampleUnblockTime
  <2>2. CallsOK'
    BY <1>0, <1>1, <1>3
    DEF PInv, CallsOK, Scalars, Idle_SampleUnblockTime, Quiet, HoldingPoints, NotifyPoints,
        Created, StartedR, SchedulerHeld, CurrentR, EventsR, WaitersInNotifyCalls, HeldBackR
  <2> QED BY <1>1, <2>1, <2>2, QuietKeepsLists DEF PInv
<1>4. CASE Idle_SuspendAll
  <2>1. Scalars'
    BY <1>0, <1>4 DEF PInv, Scalars, Idle_SuspendAll
  <2>2. CallsOK'
    BY <1>0, <1>1, <1>4
    DEF PInv, CallsOK, Scalars, Idle_SuspendAll, Quiet, HoldingPoints, NotifyPoints,
        Created, StartedR, SchedulerHeld, CurrentR, EventsR, WaitersInNotifyCalls, HeldBackR
  <2> QED BY <1>1, <2>1, <2>2, QuietKeepsLists DEF PInv
<1>5. CASE Idle_ConfirmIdleTime
  <2>1. CASE xNextTaskUnblockTime < xTickCount
    <3>1. AssertFails("unblock time has passed") /\ UNCHANGED uxPendedTicks
      BY <1>5, <2>1 DEF Idle_ConfirmIdleTime
    <3>2. Scalars'
      BY <3>1 DEF PInv, Scalars, AssertFails
    <3>3. CallsOK'
      BY <1>1, <3>1
      DEF PInv, CallsOK, Scalars, AssertFails, Quiet,
          Created, StartedR, SchedulerHeld, CurrentR, EventsR, WaitersInNotifyCalls, HeldBackR
    <3> QED BY <1>1, <3>2, <3>3, QuietKeepsLists DEF PInv
  <2>2. CASE ~(xNextTaskUnblockTime < xTickCount)
    <3>1. xNextTaskUnblockTime - xTickCount \in Ticks
      BY <2>2, TasksAssumption DEF PInv, Scalars, Ticks
    <3>2. /\ Executes(Idle, "idleConfirm")
          /\ \/ Goto(Idle, "idleSleep") /\ \E n \in Ticks : SetArg(Idle, n)
             \/ Goto(Idle, "idleResumeAll") /\ UNCHANGED arg
          /\ UNCHANGED <<timeVars, listVars, notifyVars, schedVars, cpuVars,
                         pxPreviousWakeTime, restVars>>
      BY <1>0, <1>5, <2>2, <3>1, Zenon DEF Idle_ConfirmIdleTime
    <3>3. Scalars'
      BY <1>0, <3>2 DEF PInv, Scalars
    <3>4. CallsOK'
      BY <1>0, <1>1, <3>2
      DEF PInv, CallsOK, Scalars, Quiet, HoldingPoints, NotifyPoints,
          Created, StartedR, SchedulerHeld, CurrentR, EventsR, WaitersInNotifyCalls, HeldBackR
    <3> QED BY <1>1, <3>3, <3>4, QuietKeepsLists DEF PInv
  <2> QED BY <2>1, <2>2
<1>6. CASE Idle_Sleep
  <2>1. Scalars'
    BY <1>6, TasksAssumption DEF PInv, Scalars, Idle_Sleep, Ticks
  <2>2. CallsOK'
    BY <1>0, <1>1, <1>6
    DEF PInv, CallsOK, Scalars, Idle_Sleep, Quiet, HoldingPoints, NotifyPoints,
        Created, StartedR, SchedulerHeld, CurrentR, EventsR, WaitersInNotifyCalls, HeldBackR
  <2> QED BY <1>1, <2>1, <2>2, QuietKeepsLists DEF PInv
<1>7. CASE vTaskStepTick
  <2>1. Scalars'
    <3>1. PICK n \in 0 .. arg[Idle] - SleepMargin :
            \/ AssertFails("stepped over the unblock time") /\ UNCHANGED uxPendedTicks
            \/ /\ xTickCount + n <= xNextTaskUnblockTime
               /\ xTickCount' = xTickCount + n
               /\ Goto(Idle, "idleResumeAll") /\ SetArg(Idle, 0)
               /\ UNCHANGED <<xNextTaskUnblockTime, pxDelayedTaskList, xItemValue, listVars,
                              notifyVars, schedVars, cpuVars, pxPreviousWakeTime, restVars>>
      <4>1. \A n \in 0 .. arg[Idle] - SleepMargin :
              ~(xTickCount + n > xNextTaskUnblockTime) => xTickCount + n <= xNextTaskUnblockTime
        BY TasksAssumption DEF PInv, Scalars, Ticks
      <4> QED BY <1>7, <4>1, Zenon DEF vTaskStepTick
    <3>2. xTickCount + n <= xNextTaskUnblockTime => xTickCount + n \in Ticks
      BY TasksAssumption DEF PInv, Scalars, Ticks
    <3> QED BY <1>0, <3>1, <3>2 DEF PInv, Scalars, AssertFails
  <2>2. CallsOK'
    BY <1>0, <1>1, <1>7
    DEF PInv, CallsOK, Scalars, vTaskStepTick, AssertFails, Quiet, HoldingPoints, NotifyPoints,
        Created, StartedR, SchedulerHeld, CurrentR, EventsR, WaitersInNotifyCalls, HeldBackR
  <2> QED BY <1>1, <2>1, <2>2, QuietKeepsLists DEF PInv
<1> QED BY <1>2, <1>3, <1>4, <1>5, <1>6, <1>7
-----------------------------------------------------------------------------
(* Steps that ready a task *)

\* What the lists say after a step that readied t and did not touch the event
\* items of the others.
LEMMA AddNewTaskEffect ==
  ASSUME PInv, NEW t \in AllTasks, AddNewTask(t), UNCHANGED <<eventLists, uxPriority>>
  PROVE  /\ ListsOK'
         /\ \A u \in AllTasks : /\ Ready(stateLists', u) <=> u = t \/ Ready(stateLists, u)
                                /\ Blocked(stateLists', u) <=> Blocked(stateLists, u)
<1>1. ~Ready(stateLists, t) /\ ~Blocked(stateLists, t)
  BY DEF PInv, CallsOK, Created, AddNewTask
<1>2. ~IsLinked(stateLists, t)
  BY <1>1, ReadyOrBlocked DEF PInv, ListsOK, StateOK
<1>3. StateOK' /\ Moved(stateLists, StateListNames, t, ReadyList(uxPriority[t]), stateLists')
  BY <1>2, CreateKeeps DEF PInv, ListsOK
<1>4. uxPriority[t] \in Priorities
  BY DEF PInv, ListsOK, StateOK
<1> QED BY <1>1, <1>3, <1>4, MovedToReady DEF PInv, ListsOK

\* Task creation, before and after the start of the scheduler.
LEMMA CreateStep ==
  ASSUME PInv,
         \/ \E t \in Tasks : CreateBeforeStart(t)
         \/ \E self \in AllTasks, t \in Tasks : xTaskCreate(self, t)
  PROVE  PInv'
<1>1. PICK t \in AllTasks :
        /\ AddNewTask(t) /\ t # Idle
        /\ UNCHANGED <<timeVars, eventLists, notifyVars, schedVars, pendSV, mode, arg,
                       pxPreviousWakeTime, restVars>>
  BY TasksAssumption DEF CreateBeforeStart, xTaskCreate, AllTasks
<1>2. /\ ListsOK'
      /\ \A u \in AllTasks : /\ Ready(stateLists', u) <=> u = t \/ Ready(stateLists, u)
                             /\ Blocked(stateLists', u) <=> Blocked(stateLists, u)
  BY <1>1, AddNewTaskEffect
<1>3. Scalars'
  BY <1>1 DEF PInv, Scalars, AddNewTask, CallPoints
<1>4. CallsOK'
  BY <1>1, <1>2, TasksAssumption
  DEF AddNewTask, PInv, CallsOK, Scalars, HoldingPoints, NotifyPoints, AllTasks,
      Created, StartedR, SchedulerHeld, CurrentR, EventsR, WaitersInNotifyCalls, HeldBackR, IsIn
<1> QED BY <1>2, <1>3, <1>4 DEF PInv

\* vTaskStartScheduler creates the idle task and starts.
LEMMA StartStep ==
  ASSUME PInv, vTaskStartScheduler
  PROVE  PInv'
<1>1. Idle \in AllTasks /\ MaxDelay \in Ticks /\ 0 \in Ticks
  BY TasksAssumption DEF AllTasks, Ticks
<1>2. /\ ListsOK'
      /\ \A u \in AllTasks : /\ Ready(stateLists', u) <=> u = Idle \/ Ready(stateLists, u)
                             /\ Blocked(stateLists', u) <=> Blocked(stateLists, u)
  BY <1>1, AddNewTaskEffect DEF vTaskStartScheduler
<1>3. Scalars'
  BY <1>1 DEF PInv, Scalars, AddNewTask, vTaskStartScheduler, CallPoints
<1>4. CallsOK'
  BY <1>1, <1>2, TasksAssumption
  DEF vTaskStartScheduler, AddNewTask, PInv, CallsOK, Scalars, HoldingPoints, NotifyPoints,
      Created, StartedR, SchedulerHeld, CurrentR, EventsR, WaitersInNotifyCalls, HeldBackR, IsIn
<1> QED BY <1>2, <1>3, <1>4 DEF PInv

\* MoveToReady of a task that exists.
LEMMA MoveToReadyEffect ==
  ASSUME PInv, NEW t \in AllTasks, Ready(stateLists, t) \/ Blocked(stateLists, t),
         MoveToReady(t), UNCHANGED uxPriority
  PROVE  /\ StateOK'
         /\ \A u \in AllTasks : /\ Ready(stateLists', u) <=> u = t \/ Ready(stateLists, u)
                                /\ Blocked(stateLists', u) <=> u # t /\ Blocked(stateLists, u)
<1>1. IsLinked(stateLists, t)
  BY ReadyOrBlocked DEF PInv, ListsOK, StateOK
<1>2. StateOK' /\ Moved(stateLists, StateListNames, t, ReadyList(uxPriority[t]), stateLists')
  BY <1>1, MoveToReadyKeeps DEF PInv, ListsOK
<1>3. uxPriority[t] \in Priorities
  BY DEF PInv, ListsOK, StateOK
<1> QED BY <1>2, <1>3, MovedToReady

\* xTaskResumeAll readies a task from xPendingReadyList.
LEMMA MovePendingStep ==
  ASSUME PInv, ResumeAll_MovePending
  PROVE  PInv'
<1> DEFINE t == HeadOwner(eventLists[PendingReadyList])
<1>1. t \in AllTasks /\ IsIn(eventLists, PendingReadyList, t)
  BY EmptyIff DEF ResumeAll_MovePending, PInv, ListsOK, EventListNames
<1>2. /\ MoveToReady(t) /\ eventLists' = Unlink(eventLists, t) /\ mode = "resume"
      /\ xYieldPending' = (xYieldPending \/ uxPriority[t] >= uxPriority[pxCurrentTCB])
      /\ xNextTaskUnblockTime' = EarliestWake(stateLists'[Current])
      /\ UNCHANGED <<xTickCount, pxDelayedTaskList, xItemValue, notifyVars, uxPendedTicks,
                     uxSchedulerSuspended, cpuVars, callVars, restVars>>
  BY DEF ResumeAll_MovePending
<1> HIDE DEF t
<1>3. Ready(stateLists, t) \/ Blocked(stateLists, t)
  BY <1>1 DEF PInv, CallsOK, EventsR, Created, NotifyPoints
<1>4. /\ StateOK'
      /\ \A u \in AllTasks : /\ Ready(stateLists', u) <=> u = t \/ Ready(stateLists, u)
                             /\ Blocked(stateLists', u) <=> u # t /\ Blocked(stateLists, u)
  BY <1>1, <1>2, <1>3, MoveToReadyEffect
<1>5. IsLinked(eventLists, t)
  BY <1>1, LinkedIff DEF PInv, ListsOK, EventListNames
<1>6. Separate(eventLists', EventListNames) /\ Left(eventLists, EventListNames, t, eventLists')
  BY <1>1, <1>2, <1>5, UnlinkEffect DEF PInv, ListsOK
<1>7. xNextTaskUnblockTime' \in Ticks
  BY <1>2, <1>4, EarliestWakeType, CurrentAndOverflow DEF PInv, Scalars, StateOK
<1>8. Scalars'
  BY <1>2, <1>7 DEF PInv, Scalars
<1>9. CallsOK'
  <2>1. Created'
    BY <1>2, <1>3, <1>4 DEF PInv, CallsOK, Created
  <2>2. StartedR' /\ SchedulerHeld'
    BY <1>2, <1>4, TasksAssumption DEF PInv, CallsOK, StartedR, SchedulerHeld, AllTasks
  <2>3. CurrentR'
    BY <1>2, <1>4 DEF PInv, CallsOK, Scalars, CurrentR
  <2>4. EventsR'
    BY <1>2, <1>4, <1>6 DEF PInv, CallsOK, EventsR, Left, EventListNames
  <2>5. WaitersInNotifyCalls' /\ HeldBackR'
    BY <1>2 DEF PInv, CallsOK, WaitersInNotifyCalls, HeldBackR
  <2> QED BY <2>1, <2>2, <2>3, <2>4, <2>5 DEF CallsOK
<1> QED BY <1>4, <1>6, <1>8, <1>9 DEF PInv, ListsOK

\* A tick readies a task whose time has come and ends its wait for an event.
LEMMA UnblockStep ==
  ASSUME PInv, IncrementTick_Unblock
  PROVE  PInv'
<1> DEFINE t == DueTask
<1>1. t \in AllTasks /\ IsIn(stateLists, Current, t)
  BY EmptyIff, CurrentAndOverflow, StateListNamesDistinct
  DEF IncrementTick_Unblock, SomeTaskDue, DueTask, PInv, Scalars, ListsOK, StateOK
<1>2. /\ MoveToReady(t) /\ eventLists' = UnlinkIfLinked(eventLists, t)
      /\ mode \in {"tick", "replay"}
      /\ UNCHANGED <<timeVars, notifyVars, schedVars, cpuVars, callVars, restVars>>
  BY DEF IncrementTick_Unblock, Unblocking
<1> HIDE DEF t
<1>3. Blocked(stateLists, t)
  BY <1>1, CurrentAndOverflow DEF Blocked, PInv, Scalars
<1>4. /\ StateOK'
      /\ \A u \in AllTasks : /\ Ready(stateLists', u) <=> u = t \/ Ready(stateLists, u)
                             /\ Blocked(stateLists', u) <=> u # t /\ Blocked(stateLists, u)
  BY <1>1, <1>2, <1>3, MoveToReadyEffect
<1>5. Separate(eventLists', EventListNames) /\ Left(eventLists, EventListNames, t, eventLists')
  BY <1>1, <1>2, UnlinkIfLinkedEffect DEF PInv, ListsOK
<1>6. Scalars'
  BY <1>2 DEF PInv, Scalars
<1>7. CallsOK'
  <2>1. Created'
    BY <1>2, <1>3, <1>4 DEF PInv, CallsOK, Created
  <2>2. StartedR' /\ SchedulerHeld'
    BY <1>2, <1>4, TasksAssumption DEF PInv, CallsOK, StartedR, SchedulerHeld, AllTasks
  <2>3. CurrentR'
    BY <1>2, <1>4 DEF PInv, CallsOK, Scalars, CurrentR
  <2>4. EventsR'
    BY <1>2, <1>4, <1>5 DEF PInv, CallsOK, EventsR, Left, EventListNames
  <2>5. WaitersInNotifyCalls' /\ HeldBackR'
    BY <1>2, <1>5 DEF PInv, CallsOK, WaitersInNotifyCalls, HeldBackR, Left, EventListNames
  <2> QED BY <2>1, <2>2, <2>3, <2>4, <2>5 DEF CallsOK
<1> QED BY <1>4, <1>5, <1>6, <1>7 DEF PInv, ListsOK
-----------------------------------------------------------------------------
(* Steps that block a task *)

\* prvAddCurrentTaskToDelayedList of a ready task.
LEMMA AddToDelayedListEffect ==
  ASSUME PInv, NEW t \in AllTasks, Ready(stateLists, t), NEW n \in Ticks, NEW forever,
         AddCurrentTaskToDelayedList(t, n, forever), UNCHANGED uxPriority
  PROVE  /\ StateOK'
         /\ \A u \in AllTasks : /\ Ready(stateLists', u) <=> u # t /\ Ready(stateLists, u)
                                /\ Blocked(stateLists', u) <=> u = t \/ Blocked(stateLists, u)
         /\ xItemValue' \in [AllTasks -> Ticks] /\ xNextTaskUnblockTime' \in Ticks
         /\ UNCHANGED <<xTickCount, pxDelayedTaskList>>
<1>1. IsLinked(stateLists, t)
  BY ReadyOrBlocked DEF PInv, ListsOK, StateOK
<1>2. /\ StateOK'
      /\ \E name \in BlockedNames : Moved(stateLists, StateListNames, t, name, stateLists')
  BY <1>1, AddToDelayedListKeeps DEF PInv, ListsOK, Scalars
<1>3. \A u \in AllTasks : /\ Ready(stateLists', u) <=> u # t /\ Ready(stateLists, u)
                          /\ Blocked(stateLists', u) <=> u = t \/ Blocked(stateLists, u)
  BY <1>2, MovedToBlocked
<1>4. xItemValue' \in [AllTasks -> Ticks] /\ xNextTaskUnblockTime' \in Ticks
  <2> DEFINE wake == (xTickCount + n) % (MaxDelay + 1)
  <2>1. wake \in Ticks
    BY TickArithmetic DEF PInv, Scalars
  <2>2. xItemValue' \in {xItemValue, [xItemValue EXCEPT ![t] = wake]}
        /\ xNextTaskUnblockTime' \in {wake, xNextTaskUnblockTime}
    BY DEF AddCurrentTaskToDelayedList
  <2> HIDE DEF wake
  <2> QED BY <2>1, <2>2 DEF PInv, Scalars
<1>5. UNCHANGED <<xTickCount, pxDelayedTaskList>>
  BY DEF AddCurrentTaskToDelayedList
<1> QED BY <1>2, <1>3, <1>4, <1>5

\* A task that executes a call and has not blocked yet is ready.
LEMMA CurrentIsReady ==
  ASSUME PInv, NEW t \in AllTasks, NEW at, at \notin {"resumeAll", "yield", "suspendedSelf"},
         Executes(t, at)
  PROVE  Ready(stateLists, t)
BY TasksAssumption DEF PInv, CallsOK, CurrentR

\* vTaskDelay blocks its caller.
LEMMA DelayStep ==
  ASSUME PInv, NEW t \in Tasks, Delay_AddToList(t)
  PROVE  PInv'
<1>1. t \in AllTasks /\ t # Idle
  BY TasksAssumption DEF AllTasks
<1>2. Ready(stateLists, t)
  BY <1>1, CurrentIsReady DEF Delay_AddToList
<1>3. arg[t] \in Ticks /\ 0 \in Ticks
  BY <1>1, TasksAssumption DEF PInv, Scalars, Ticks
<1>4. /\ StateOK'
      /\ \A u \in AllTasks : /\ Ready(stateLists', u) <=> u # t /\ Ready(stateLists, u)
                             /\ Blocked(stateLists', u) <=> u = t \/ Blocked(stateLists, u)
      /\ xItemValue' \in [AllTasks -> Ticks] /\ xNextTaskUnblockTime' \in Ticks
      /\ UNCHANGED <<xTickCount, pxDelayedTaskList>>
  BY <1>1, <1>2, <1>3, AddToDelayedListEffect DEF Delay_AddToList
<1>5. /\ Executes(t, "delay") /\ Goto(t, "resumeAll") /\ SetArg(t, 0)
      /\ UNCHANGED <<eventLists, notifyVars, schedVars, cpuVars, pxPreviousWakeTime, restVars>>
  BY DEF Delay_AddToList
<1>6. Scalars'
  BY <1>1, <1>3, <1>4, <1>5 DEF PInv, Scalars, CallPoints
<1>7. Separate(eventLists', EventListNames)
  BY <1>5 DEF PInv, ListsOK
<1>8. CallsOK'
  BY <1>1, <1>2, <1>4, <1>5, TasksAssumption
  DEF PInv, CallsOK, Scalars, HoldingPoints, NotifyPoints, AllTasks,
      Created, StartedR, SchedulerHeld, CurrentR, EventsR, WaitersInNotifyCalls, HeldBackR, IsIn
<1> QED BY <1>4, <1>6, <1>7, <1>8 DEF PInv, ListsOK

\* vTaskDelayUntil blocks its caller or finds that the time has passed.
LEMMA DelayUntilStep ==
  ASSUME PInv, NEW t \in Tasks, DelayUntil_AddToList(t)
  PROVE  PInv'
<1> DEFINE wake == (pxPreviousWakeTime[t] + arg[t]) % (MaxDelay + 1)
           n == (wake - xTickCount) % (MaxDelay + 1)
<1>1. t \in AllTasks /\ t # Idle
  BY TasksAssumption DEF AllTasks
<1>2. Ready(stateLists, t)
  BY <1>1, CurrentIsReady DEF DelayUntil_AddToList
<1>3. arg[t] \in Ticks /\ pxPreviousWakeTime[t] \in Ticks /\ xTickCount \in Ticks /\ 0 \in Ticks
  BY <1>1, TasksAssumption DEF PInv, Scalars, Ticks
<1>4. wake \in Ticks
  BY <1>3, TickArithmetic DEF PInv
<1>5. n \in Ticks
  <2> HIDE DEF wake
  <2> QED BY <1>3, <1>4, TickArithmetic DEF PInv
<1>6. /\ Executes(t, "delayUntil") /\ Goto(t, "resumeAll") /\ SetArg(t, 0)
      /\ UNCHANGED <<eventLists, notifyVars, schedVars, cpuVars, restVars>>
      /\ pxPreviousWakeTime' = [pxPreviousWakeTime EXCEPT ![t] = wake]
      /\ \/ AddCurrentTaskToDelayedList(t, n, FALSE)
         \/ UNCHANGED <<timeVars, stateLists, uxTopReadyPriority>>
  BY Zenon DEF DelayUntil_AddToList
<1> HIDE DEF wake, n
<1>7. CASE AddCurrentTaskToDelayedList(t, n, FALSE)
  <2>1. /\ StateOK'
        /\ \A u \in AllTasks : /\ Ready(stateLists', u) <=> u # t /\ Ready(stateLists, u)
                               /\ Blocked(stateLists', u) <=> u = t \/ Blocked(stateLists, u)
        /\ xItemValue' \in [AllTasks -> Ticks] /\ xNextTaskUnblockTime' \in Ticks
        /\ UNCHANGED <<xTickCount, pxDelayedTaskList>>
    BY <1>1, <1>2, <1>5, <1>6, <1>7, AddToDelayedListEffect
  <2>2. Scalars'
    BY <1>1, <1>3, <1>4, <1>6, <2>1 DEF PInv, Scalars, CallPoints
  <2>3. Separate(eventLists', EventListNames)
    BY <1>6 DEF PInv, ListsOK
  <2>4. CallsOK'
    BY <1>1, <1>2, <1>6, <2>1, TasksAssumption
    DEF PInv, CallsOK, Scalars, HoldingPoints, NotifyPoints, AllTasks,
        Created, StartedR, SchedulerHeld, CurrentR, EventsR, WaitersInNotifyCalls, HeldBackR, IsIn
  <2> QED BY <2>1, <2>2, <2>3, <2>4 DEF PInv, ListsOK
<1>8. CASE UNCHANGED <<timeVars, stateLists, uxTopReadyPriority>>
  <2>1. Quiet
    BY <1>6, <1>8 DEF Quiet
  <2>2. Scalars'
    BY <1>1, <1>3, <1>4, <1>6, <1>8 DEF PInv, Scalars, CallPoints
  <2>3. CallsOK'
    BY <1>1, <1>6, <1>8, <2>1
    DEF PInv, CallsOK, Scalars, HoldingPoints, NotifyPoints, Quiet,
        Created, StartedR, SchedulerHeld, CurrentR, EventsR, WaitersInNotifyCalls, HeldBackR
  <2> QED BY <2>1, <2>2, <2>3, QuietKeepsLists DEF PInv
<1> QED BY <1>6, <1>7, <1>8

\* A wait for an event links the event item and blocks the caller.
LEMMA PlaceOnEventListStep ==
  ASSUME PInv, NEW t \in Tasks, vTaskPlaceOnEventList(t)
  PROVE  PInv'
<1>1. t \in AllTasks /\ t # Idle
  BY TasksAssumption DEF AllTasks
<1>2. Ready(stateLists, t)
  BY <1>1, CurrentIsReady DEF vTaskPlaceOnEventList
<1>3. arg[t] \in Ticks /\ 0 \in Ticks
  BY <1>1, TasksAssumption DEF PInv, Scalars, Ticks
<1>4. /\ StateOK'
      /\ \A u \in AllTasks : /\ Ready(stateLists', u) <=> u # t /\ Ready(stateLists, u)
                             /\ Blocked(stateLists', u) <=> u = t \/ Blocked(stateLists, u)
      /\ xItemValue' \in [AllTasks -> Ticks] /\ xNextTaskUnblockTime' \in Ticks
      /\ UNCHANGED <<xTickCount, pxDelayedTaskList>>
  BY <1>1, <1>2, <1>3, AddToDelayedListEffect DEF vTaskPlaceOnEventList
<1>5. /\ Executes(t, "placeOnEventList") /\ Goto(t, "resumeAll") /\ SetArg(t, 0)
      /\ eventLists' = LinkByValue(eventLists, EventList, EventItemValue, t, EventItemValue[t])
      /\ UNCHANGED <<notifyVars, schedVars, cpuVars, pxPreviousWakeTime, restVars>>
  BY DEF vTaskPlaceOnEventList
<1>6. ~Blocked(stateLists, t)
  BY <1>1, <1>2, ReadyOrBlocked DEF PInv, ListsOK, StateOK
<1>7. \A n \in EventListNames : ~IsIn(eventLists, n, t)
  BY <1>1, <1>5, <1>6 DEF PInv, CallsOK, EventsR, EventListNames, NotifyPoints
<1>8. /\ Separate(eventLists', EventListNames)
      /\ Moved(eventLists, EventListNames, t, EventList, eventLists')
  BY <1>1, <1>5, <1>7, LinkByValueEffect DEF PInv, ListsOK, EventListNames
<1>9. Scalars'
  BY <1>1, <1>3, <1>4, <1>5 DEF PInv, Scalars, CallPoints
<1>10. CallsOK'
  <2>1. Created' /\ StartedR' /\ SchedulerHeld' /\ CurrentR'
    BY <1>1, <1>2, <1>4, <1>5, TasksAssumption
    DEF PInv, CallsOK, Scalars, HoldingPoints, AllTasks, Created, StartedR, SchedulerHeld, CurrentR
  <2>2. \A u \in AllTasks :
          /\ IsIn(eventLists', EventList, u) <=> u = t \/ IsIn(eventLists, EventList, u)
          /\ IsIn(eventLists', PendingReadyList, u) <=> u # t /\ IsIn(eventLists, PendingReadyList, u)
    BY <1>8 DEF Moved, EventListNames, EventList, PendingReadyList
  <2>3. EventsR'
    BY <1>4, <1>5, <2>2 DEF PInv, CallsOK, Scalars, EventsR, NotifyPoints
  <2>4. WaitersInNotifyCalls' /\ HeldBackR'
    BY <1>1, <1>5, <2>2 DEF PInv, CallsOK, Scalars, WaitersInNotifyCalls, HeldBackR, NotifyPoints
  <2> QED BY <2>1, <2>3, <2>4 DEF CallsOK
<1> QED BY <1>4, <1>8, <1>9, <1>10 DEF PInv, ListsOK

\* A wait for a notification marks the caller and may block it.
LEMMA WaitForNotificationStep ==
  ASSUME PInv, NEW t \in Tasks, NEW ticks \in Ticks, NEW next \in NotifyPoints,
         Executes(t, "run"), MayBlock, WaitForNotification(t, ticks, next),
         ulNotifiedValue' \in [AllTasks -> NotifiedValues]
  PROVE  PInv'
<1>1. t \in AllTasks /\ t # Idle
  BY TasksAssumption DEF AllTasks
<1>2. Ready(stateLists, t)
  BY <1>1, CurrentIsReady
<1>3. /\ ucNotifyState' = [ucNotifyState EXCEPT ![t] = "waiting"]
      /\ Goto(t, next)
      /\ UNCHANGED <<eventLists, schedVars, pxCurrentTCB, mode, arg, pxPreviousWakeTime, restVars>>
      /\ \/ AddCurrentTaskToDelayedList(t, ticks, TRUE) /\ pendSV' = TRUE
         \/ UNCHANGED <<timeVars, stateLists, uxTopReadyPriority, pendSV>>
  BY DEF WaitForNotification
<1>4. CASE AddCurrentTaskToDelayedList(t, ticks, TRUE) /\ pendSV' = TRUE
  <2>1. /\ StateOK'
        /\ \A u \in AllTasks : /\ Ready(stateLists', u) <=> u # t /\ Ready(stateLists, u)
                               /\ Blocked(stateLists', u) <=> u = t \/ Blocked(stateLists, u)
        /\ xItemValue' \in [AllTasks -> Ticks] /\ xNextTaskUnblockTime' \in Ticks
        /\ UNCHANGED <<xTickCount, pxDelayedTaskList>>
    BY <1>1, <1>2, <1>3, <1>4, AddToDelayedListEffect
  <2>2. Scalars'
    BY <1>1, <1>3, <1>4, <2>1 DEF PInv, Scalars, CallPoints, NotifyPoints
  <2>3. Separate(eventLists', EventListNames)
    BY <1>3 DEF PInv, ListsOK
  <2>4. CallsOK'
    BY <1>1, <1>2, <1>3, <1>4, <2>1, TasksAssumption
    DEF PInv, CallsOK, Scalars, HoldingPoints, NotifyPoints, AllTasks, MayBlock,
        Created, StartedR, SchedulerHeld, CurrentR, EventsR, WaitersInNotifyCalls, HeldBackR, IsIn
  <2> QED BY <2>1, <2>2, <2>3, <2>4 DEF PInv, ListsOK
<1>5. CASE UNCHANGED <<timeVars, stateLists, uxTopReadyPriority, pendSV>>
  <2>1. Quiet
    BY <1>3, <1>5 DEF Quiet
  <2>2. Scalars'
    BY <1>1, <1>3, <1>5 DEF PInv, Scalars, CallPoints, NotifyPoints
  <2>3. CallsOK'
    BY <1>1, <1>3, <1>5, <2>1
    DEF PInv, CallsOK, Scalars, HoldingPoints, NotifyPoints, Quiet, MayBlock,
        Created, StartedR, SchedulerHeld, CurrentR, EventsR, WaitersInNotifyCalls, HeldBackR
  <2> QED BY <2>1, <2>2, <2>3, QuietKeepsLists DEF PInv
<1> QED BY <1>3, <1>4, <1>5

\* ulTaskNotifyTake and xTaskNotifyWait, whether or not they have to wait.
LEMMA NotifyWaitStep ==
  ASSUME PInv, NEW t \in Tasks, ulTaskNotifyTake(t) \/ xTaskNotifyWait(t)
  PROVE  PInv'
<1>1. t \in AllTasks /\ NotifyWaits \subseteq Ticks
  BY TasksAssumption DEF AllTasks, NotifyWaits, Ticks
<1>2. /\ Executes(t, "run") /\ MayBlock
      /\ \/ /\ \E ticks \in NotifyWaits, next \in NotifyPoints : WaitForNotification(t, ticks, next)
            /\ ulNotifiedValue' \in [AllTasks -> NotifiedValues]
         \/ /\ \E next \in NotifyPoints : Goto(t, next)
            /\ UNCHANGED <<timeVars, listVars, notifyVars, schedVars, cpuVars, arg,
                           pxPreviousWakeTime, restVars>>
  <2>1. ulNotifiedValue \in [AllTasks -> NotifiedValues] /\ "zero" \in NotifiedValues
    BY DEF PInv, Scalars, NotifiedValues
  <2>2. \A v \in {"zero", ulNotifiedValue[t]} :
          [ulNotifiedValue EXCEPT ![t] = v] \in [AllTasks -> NotifiedValues]
    BY <1>1, <2>1
  <2>3. {"notifyTake", "notifyWait"} \subseteq NotifyPoints
    BY DEF NotifyPoints
  <2> QED BY <2>1, <2>2, <2>3, Zenon DEF ulTaskNotifyTake, xTaskNotifyWait
<1>3. CASE \E ticks \in NotifyWaits, next \in NotifyPoints :
             /\ WaitForNotification(t, ticks, next)
             /\ ulNotifiedValue' \in [AllTasks -> NotifiedValues]
  BY <1>1, <1>2, <1>3, WaitForNotificationStep
<1>4. CASE /\ \E next \in NotifyPoints : Goto(t, next)
           /\ UNCHANGED <<timeVars, listVars, notifyVars, schedVars, cpuVars, arg,
                          pxPreviousWakeTime, restVars>>
  <2>1. Quiet
    BY <1>4 DEF Quiet
  <2>2. Scalars'
    BY <1>1, <1>4 DEF PInv, Scalars, CallPoints, NotifyPoints
  <2>3. CallsOK'
    BY <1>1, <1>2, <1>4, <2>1
    DEF PInv, CallsOK, Scalars, HoldingPoints, NotifyPoints, Quiet, MayBlock,
        Created, StartedR, SchedulerHeld, CurrentR, EventsR, WaitersInNotifyCalls, HeldBackR
  <2> QED BY <2>1, <2>2, <2>3, QuietKeepsLists DEF PInv
<1> QED BY <1>2, <1>3, <1>4
-----------------------------------------------------------------------------
(* The context switch *)

\* The highest of some priorities exists.
LEMMA HighestPriority ==
  ASSUME NEW S \in SUBSET Priorities, S # {}
  PROVE  Max(S) \in S /\ \A p \in S : p <= Max(S)
<1> DEFINE below == {MaxPriority - p : p \in S}
<1>1. below \in SUBSET Nat /\ below # {}
  <2>1. \A p \in S : MaxPriority - p \in Nat
    BY TasksAssumption DEF Priorities
  <2> QED BY <2>1
<1>2. Min(below) \in below /\ \A x \in below : Min(below) <= x
  BY <1>1, MinProperties
<1> DEFINE least == Min(below)
<1> HIDE DEF least
<1>3. PICK m \in S : least = MaxPriority - m
  BY <1>2 DEF least
<1>4. \A p \in S : p <= m
  <2>1. \A p \in S : least <= MaxPriority - p
    BY <1>2 DEF least
  <2> QED BY <1>3, <2>1, TasksAssumption DEF Priorities
<1>5. \E x \in S : \A y \in S : x >= y
  BY <1>4 DEF Priorities
<1>6. Max(S) \in S /\ \A y \in S : Max(S) >= y
  BY <1>5, Zenon DEF Max
<1> QED BY <1>6 DEF Priorities

\* Whenever the scheduler runs, the bitmap leads to a ready list with a task in
\* it, and no ready task has a higher priority than that list's tasks.
LEMMA TopReadyList ==
  ASSUME ListsOK, Ready(stateLists, Idle)
  PROVE  /\ Max(uxTopReadyPriority) \in Priorities
         /\ ~IsEmpty(stateLists[ReadyList(Max(uxTopReadyPriority))])
         /\ \A t \in AllTasks : Ready(stateLists, t) => uxPriority[t] <= Max(uxTopReadyPriority)
<1>1. uxTopReadyPriority =
        {p \in Priorities : \E t \in AllTasks : IsIn(stateLists, ReadyList(p), t)}
  BY ReadyPriorities DEF ListsOK, StateOK, TopReadyPriorityExact
<1>2. \A t \in AllTasks : Ready(stateLists, t) => uxPriority[t] \in uxTopReadyPriority
  BY <1>1 DEF Ready, ListsOK, StateOK, ReadyAtOwnPriority
<1>3. uxTopReadyPriority # {} /\ uxTopReadyPriority \in SUBSET Priorities
  BY <1>1, <1>2 DEF AllTasks
<1>4. /\ Max(uxTopReadyPriority) \in uxTopReadyPriority
      /\ \A p \in uxTopReadyPriority : p <= Max(uxTopReadyPriority)
  BY <1>3, HighestPriority
<1> QED BY <1>2, <1>3, <1>4 DEF ListsOK, StateOK, TopReadyPriorityExact

\* The context switch keeps the invariant, fails no assertion and selects a task
\* of the highest priority in the bitmap.
LEMMA SwitchContextStep ==
  ASSUME PInv, vTaskSwitchContext
  PROVE  /\ PInv'
         /\ failedAssert' = failedAssert
         /\ uxSchedulerSuspended = 0 =>
              /\ pxCurrentTCB' \in AllTasks
              /\ uxPriority[pxCurrentTCB'] = Max(uxTopReadyPriority)
              /\ \A t \in AllTasks : Ready(stateLists', t) <=> Ready(stateLists, t)
<1> DEFINE top == ReadyList(Max(uxTopReadyPriority))
           ready == AdvanceIndex(stateLists[top])
<1>0. Interruptible /\ pendSV
      /\ UNCHANGED <<timeVars, eventLists, uxTopReadyPriority, notifyVars, uxPendedTicks,
                     uxSchedulerSuspended, callVars, xSchedulerRunning, uxPriority, suspendCalls>>
  BY DEF vTaskSwitchContext
<1>1. /\ Max(uxTopReadyPriority) \in Priorities
      /\ ~IsEmpty(stateLists[ReadyList(Max(uxTopReadyPriority))])
  BY <1>0, TopReadyList DEF PInv, CallsOK, StartedR
<1>2. CASE uxSchedulerSuspended # 0
  <2>1. /\ pendSV' = FALSE /\ xYieldPending' = TRUE
        /\ UNCHANGED <<stateLists, pxCurrentTCB, mode, failedAssert>>
    BY <1>2 DEF vTaskSwitchContext
  <2>2. Quiet
    BY <1>0, <2>1 DEF Quiet
  <2>3. Scalars'
    BY <1>0, <2>1 DEF PInv, Scalars
  <2>4. CallsOK'
    BY <1>0, <1>2, <2>1, <2>2
    DEF PInv, CallsOK, Scalars, Quiet,
        Created, StartedR, SchedulerHeld, CurrentR, EventsR, WaitersInNotifyCalls, HeldBackR
  <2> QED BY <1>2, <2>1, <2>2, <2>3, <2>4, QuietKeepsLists DEF PInv
<1>3. CASE uxSchedulerSuspended = 0
  <2>1. /\ pendSV' = FALSE /\ xYieldPending' = FALSE
        /\ stateLists' = [stateLists EXCEPT ![top] = ready]
        /\ pxCurrentTCB' = IndexOwner(ready)
        /\ UNCHANGED <<mode, failedAssert>>
    BY <1>1, <1>3 DEF vTaskSwitchContext
  <2>2. top \in StateListNames /\ Separate(stateLists, StateListNames) /\ ~IsEmpty(stateLists[top])
    BY <1>1, StateListNamesDistinct DEF PInv, ListsOK, StateOK
  <2> HIDE DEF top
  <2>3. /\ Separate(stateLists', StateListNames)
        /\ \A m \in StateListNames, u \in AllTasks : IsIn(stateLists', m, u) <=> IsIn(stateLists, m, u)
        /\ IsIn(stateLists, top, pxCurrentTCB')
    <3> DEFINE new == stateLists'
    <3>1. new = Advanced(stateLists, top)
      BY <2>1 DEF Advanced
    <3> HIDE DEF new
    <3>2. /\ Separate(new, StateListNames)
          /\ \A m \in StateListNames, u \in AllTasks : IsIn(new, m, u) <=> IsIn(stateLists, m, u)
          /\ IsIn(stateLists, top, IndexOwner(AdvanceIndex(stateLists[top])))
      BY <2>2, <3>1, AdvanceEffect
    <3> QED BY <2>1, <3>2 DEF new
  <2>4. pxCurrentTCB' \in AllTasks
    <3>1. Owners(stateLists[top]) \subseteq AllTasks
      BY <2>2, ListFields, SeqPositions DEF Separate
    <3> QED BY <2>3, <3>1 DEF IsIn
  <2> HIDE DEF ready
  <2>5. uxPriority[pxCurrentTCB'] = Max(uxTopReadyPriority)
    BY <1>1, <2>3, <2>4 DEF PInv, ListsOK, StateOK, ReadyAtOwnPriority, top
  <2>6. \A u \in AllTasks : /\ Ready(stateLists', u) <=> Ready(stateLists, u)
                            /\ Blocked(stateLists', u) <=> Blocked(stateLists, u)
    BY <2>3, StateListNamesDistinct DEF Ready, Blocked
  <2>7. StateOK'
    <3>1. ReadyAtOwnPriority'
      BY <1>0, <2>3, StateListNamesDistinct DEF PInv, ListsOK, StateOK, ReadyAtOwnPriority
    <3>2. {p \in Priorities : \E u \in AllTasks : IsIn(stateLists', ReadyList(p), u)}
            = {p \in Priorities : \E u \in AllTasks : IsIn(stateLists, ReadyList(p), u)}
      BY <2>3, StateListNamesDistinct
    <3>3. TopReadyPriorityExact'
      BY <1>0, <2>2, <2>3, <3>2, ReadyPriorities
      DEF PInv, ListsOK, StateOK, TopReadyPriorityExact
    <3> QED BY <1>0, <2>3, <3>1, <3>3 DEF PInv, ListsOK, StateOK
  <2>8. Separate(eventLists', EventListNames)
    BY <1>0 DEF PInv, ListsOK
  <2>9. Scalars'
    BY <1>0, <2>1, <2>4 DEF PInv, Scalars
  <2>10. Ready(stateLists', pxCurrentTCB')
    BY <1>1, <2>3, <2>4, <2>6 DEF Ready, top
  <2>11. CallsOK'
    <3>1. Created' /\ EventsR' /\ WaitersInNotifyCalls'
      BY <1>0, <2>6 DEF PInv, CallsOK, Created, EventsR, WaitersInNotifyCalls, IsIn
    <3>2. StartedR' /\ CurrentR'
      BY <1>0, <2>4, <2>6, <2>10, TasksAssumption DEF PInv, CallsOK, StartedR, CurrentR, AllTasks
    <3>3. SchedulerHeld' /\ HeldBackR'
      BY <1>0, <1>3, <2>1 DEF PInv, CallsOK, SchedulerHeld, HeldBackR, IsIn
    <3> QED BY <3>1, <3>2, <3>3 DEF CallsOK
  <2> QED BY <2>1, <2>4, <2>5, <2>6, <2>7, <2>8, <2>9, <2>11 DEF PInv, ListsOK
<1> QED BY <1>2, <1>3
-----------------------------------------------------------------------------
(* Suspending, resuming and re-prioritising *)

\* vTaskSuspend of the caller or of another task, in whatever list it is.
LEMMA SuspendStep ==
  ASSUME PInv, NEW t \in AllTasks, NEW target \in Tasks, vTaskSuspend(t, target)
  PROVE  PInv'
<1>0. target \in AllTasks /\ target # Idle
  BY TasksAssumption DEF AllTasks
<1>1. /\ Executes(t, "run") /\ IsLinked(stateLists, target) /\ (target = t => MayBlock)
      /\ stateLists' = LinkEnd(Unlink(stateLists, target), SuspendedList, target)
      /\ uxTopReadyPriority' = ResetReadyPriority(Unlink(stateLists, target), uxPriority[target])
      /\ eventLists' = UnlinkIfLinked(eventLists, target)
      /\ suspendCalls' = suspendCalls \cup {target}
      /\ pc' = [pc EXCEPT ![t] = IF target = t THEN "suspendedSelf" ELSE "suspendedOther"]
      /\ UNCHANGED <<timeVars, notifyVars, schedVars, cpuVars, arg, pxPreviousWakeTime,
                     xSchedulerRunning, uxPriority, failedAssert>>
  BY DEF vTaskSuspend
<1>2. Separate(stateLists, StateListNames) /\ SuspendedList \in BlockedNames
      /\ SuspendedList \in StateListNames
  BY StateListNamesDistinct DEF PInv, ListsOK, StateOK, BlockedNames
<1>3. /\ Separate(stateLists', StateListNames)
      /\ Moved(stateLists, StateListNames, target, SuspendedList, stateLists')
  BY <1>0, <1>1, <1>2, MoveEffect
<1>4. StateOK'
  BY <1>0, <1>1, <1>2, <1>3, BlockKeeps DEF PInv, ListsOK
<1>5. \A u \in AllTasks : /\ Ready(stateLists', u) <=> u # target /\ Ready(stateLists, u)
                          /\ Blocked(stateLists', u) <=> u = target \/ Blocked(stateLists, u)
  BY <1>0, <1>2, <1>3, MovedToBlocked
<1>6. Separate(eventLists', EventListNames) /\ Left(eventLists, EventListNames, target, eventLists')
  BY <1>0, <1>1, UnlinkIfLinkedEffect DEF PInv, ListsOK
<1>7. Ready(stateLists, t) /\ (Ready(stateLists, target) \/ Blocked(stateLists, target))
  BY <1>0, <1>1, <1>2, CurrentIsReady, ReadyOrBlocked
<1>8. Scalars'
  BY <1>0, <1>1 DEF PInv, Scalars, CallPoints
<1>9. CallsOK'
  <2>1. Created'
    BY <1>0, <1>1, <1>5, <1>7 DEF PInv, CallsOK, Scalars, Created
  <2>2. StartedR' /\ SchedulerHeld' /\ CurrentR'
    BY <1>0, <1>1, <1>5, <1>7, TasksAssumption
    DEF PInv, CallsOK, Scalars, StartedR, SchedulerHeld, CurrentR, HoldingPoints, MayBlock, AllTasks
  <2>3. \A n \in EventListNames, u \in AllTasks :
          IsIn(eventLists', n, u) <=> u # target /\ IsIn(eventLists, n, u)
    BY <1>6 DEF Left
  <2>4. EventsR'
    BY <1>0, <1>1, <1>5, <2>3 DEF PInv, CallsOK, Scalars, EventsR, EventListNames, NotifyPoints
  <2>5. WaitersInNotifyCalls' /\ HeldBackR'
    BY <1>0, <1>1, <2>3
    DEF PInv, CallsOK, Scalars, WaitersInNotifyCalls, HeldBackR, NotifyPoints, EventListNames
  <2> QED BY <2>1, <2>2, <2>4, <2>5 DEF CallsOK
<1> QED BY <1>4, <1>6, <1>8, <1>9 DEF PInv, ListsOK

\* A suspended task that is resumed by a task or, with the scheduler running,
\* by an interrupt handler.
LEMMA ResumedToReady ==
  ASSUME PInv, NEW target \in AllTasks, TaskIsSuspended(target), MoveToReady(target),
         pendSV' \in BOOLEAN, pendSV => pendSV', suspendCalls' \in SUBSET suspendCalls,
         UNCHANGED <<timeVars, eventLists, notifyVars, schedVars, pxCurrentTCB, mode, callVars,
                     xSchedulerRunning, uxPriority>>
  PROVE  PInv'
<1>1. Blocked(stateLists, target)
  BY DEF TaskIsSuspended, Blocked, BlockedNames
<1>2. \A n \in EventListNames : ~IsIn(eventLists, n, target)
  BY LinkedIff DEF TaskIsSuspended, PInv, ListsOK
<1>3. /\ StateOK'
      /\ \A u \in AllTasks : /\ Ready(stateLists', u) <=> u = target \/ Ready(stateLists, u)
                             /\ Blocked(stateLists', u) <=> u # target /\ Blocked(stateLists, u)
  BY <1>1, MoveToReadyEffect
<1>4. Scalars'
  BY DEF PInv, Scalars
<1>5. Separate(eventLists', EventListNames)
  BY DEF PInv, ListsOK
<1>6. CallsOK'
  <2>1. Created'
    BY <1>1, <1>3 DEF PInv, CallsOK, Created
  <2>2. StartedR' /\ SchedulerHeld' /\ CurrentR'
    BY <1>3 DEF PInv, CallsOK, Scalars, StartedR, SchedulerHeld, CurrentR, AllTasks
  <2>3. EventsR'
    BY <1>2, <1>3 DEF PInv, CallsOK, EventsR, EventListNames, IsIn
  <2>4. WaitersInNotifyCalls' /\ HeldBackR'
    BY DEF PInv, CallsOK, WaitersInNotifyCalls, HeldBackR, IsIn
  <2> QED BY <2>1, <2>2, <2>3, <2>4 DEF CallsOK
<1> QED BY <1>3, <1>4, <1>5, <1>6 DEF PInv, ListsOK

\* vTaskResume.
LEMMA ResumeStep ==
  ASSUME PInv, NEW t, NEW target \in AllTasks, vTaskResume(t, target)
  PROVE  PInv'
<1>1. pendSV \in BOOLEAN
  BY DEF PInv, Scalars
<1> QED BY <1>1, ResumedToReady DEF vTaskResume

\* A task with a free event item enters xPendingReadyList from an interrupt.
LEMMA HeldBack ==
  ASSUME PInv, NEW target \in AllTasks, uxSchedulerSuspended # 0,
         ~IsLinked(eventLists, target),
         Blocked(stateLists, target) \/ pc[target] \in NotifyPoints,
         eventLists' = LinkEnd(eventLists, PendingReadyList, target),
         Scalars', pendSV => pendSV', WaitersInNotifyCalls',
         UNCHANGED <<stateLists, uxTopReadyPriority, uxSchedulerSuspended, pxCurrentTCB,
                     callVars, xSchedulerRunning, uxPriority>>
  PROVE  PInv'
<1>1. \A n \in EventListNames : ~IsIn(eventLists, n, target)
  BY LinkedIff DEF PInv, ListsOK
<1>2. /\ Separate(eventLists', EventListNames)
      /\ Moved(eventLists, EventListNames, target, PendingReadyList, eventLists')
  BY <1>1, LinkEndEffect DEF PInv, ListsOK, EventListNames
<1>3. StateOK'
  BY DEF PInv, ListsOK, StateOK, ReadyAtOwnPriority, TopReadyPriorityExact, IsIn
<1>4. Created' /\ StartedR' /\ SchedulerHeld' /\ CurrentR'
  BY DEF PInv, CallsOK, Scalars, Created, StartedR, SchedulerHeld, CurrentR, HoldingPoints
<1>5. EventsR'
  <2>1. \A u \in AllTasks :
          /\ IsIn(eventLists', PendingReadyList, u)
               <=> u = target \/ IsIn(eventLists, PendingReadyList, u)
          /\ IsIn(eventLists', EventList, u) <=> u # target /\ IsIn(eventLists, EventList, u)
    BY <1>2 DEF Moved, EventListNames, EventList, PendingReadyList
  <2> QED BY <2>1 DEF PInv, CallsOK, EventsR
<1>6. HeldBackR'
  BY DEF HeldBackR
<1> QED BY <1>2, <1>3, <1>4, <1>5, <1>6 DEF PInv, ListsOK, CallsOK

\* xTaskResumeFromISR, with the scheduler running or suspended.
LEMMA ResumeFromISRStep ==
  ASSUME PInv, NEW target \in AllTasks, xTaskResumeFromISR(target)
  PROVE  PInv'
<1>1. pendSV \in BOOLEAN /\ suspendCalls \subseteq AllTasks
  BY DEF PInv, Scalars
<1>2. /\ TaskIsSuspended(target) /\ suspendCalls' = suspendCalls \ {target}
      /\ UNCHANGED <<timeVars, notifyVars, schedVars, pxCurrentTCB, mode, callVars,
                     xSchedulerRunning, uxPriority, failedAssert>>
  BY DEF xTaskResumeFromISR
<1>3. CASE uxSchedulerSuspended = 0
  <2>1. /\ MoveToReady(target) /\ UNCHANGED eventLists
        /\ MayRequestSwitch(uxPriority[target] >= uxPriority[pxCurrentTCB])
    BY <1>3 DEF xTaskResumeFromISR
  <2>2. pendSV' \in BOOLEAN /\ (pendSV => pendSV')
    BY <1>1, <2>1, Zenon DEF MayRequestSwitch
  <2> QED BY <1>2, <2>1, <2>2, ResumedToReady
<1>4. CASE uxSchedulerSuspended # 0
  <2>1. /\ eventLists' = LinkEnd(eventLists, PendingReadyList, target)
        /\ UNCHANGED <<stateLists, uxTopReadyPriority, pendSV>>
    BY <1>4 DEF xTaskResumeFromISR
  <2>2. Scalars' /\ WaitersInNotifyCalls'
    BY <1>1, <1>2, <2>1 DEF PInv, Scalars, CallsOK, WaitersInNotifyCalls
  <2>3. Blocked(stateLists, target) /\ ~IsLinked(eventLists, target)
    BY <1>2 DEF TaskIsSuspended, Blocked, BlockedNames
  <2> QED BY <1>2, <1>4, <2>1, <2>2, <2>3, HeldBack
<1> QED BY <1>3, <1>4

\* vTaskPrioritySet of a ready or a blocked task.
LEMMA PrioritySetStep ==
  ASSUME PInv, NEW t, NEW target \in AllTasks, NEW p \in Priorities,
         vTaskPrioritySet(t, target, p)
  PROVE  PInv'
<1>1. UNCHANGED <<timeVars, eventLists, notifyVars, schedVars, cpuVars, callVars,
                  xSchedulerRunning, failedAssert, suspendCalls>>
  BY DEF vTaskPrioritySet
<1>2. /\ StateOK'
      /\ \/ stateLists' = stateLists
         \/ /\ IsIn(stateLists, ReadyList(uxPriority[target]), target)
            /\ Moved(stateLists, StateListNames, target, ReadyList(p), stateLists')
  BY PrioritySetKeeps DEF PInv, ListsOK
<1>3. \A u \in AllTasks : /\ Ready(stateLists', u) <=> Ready(stateLists, u)
                          /\ Blocked(stateLists', u) <=> Blocked(stateLists, u)
  <2>1. CASE stateLists' = stateLists
    BY <2>1 DEF Ready, Blocked, IsIn
  <2>2. CASE /\ IsIn(stateLists, ReadyList(uxPriority[target]), target)
             /\ Moved(stateLists, StateListNames, target, ReadyList(p), stateLists')
    <3>1. Ready(stateLists, target)
      BY <2>2 DEF Ready, PInv, ListsOK, StateOK
    <3>2. ~Blocked(stateLists, target)
      BY <3>1, ReadyOrBlocked DEF PInv, ListsOK, StateOK
    <3> QED BY <2>2, <3>1, <3>2, MovedToReady
  <2> QED BY <1>2, <2>1, <2>2
<1>4. Scalars'
  BY <1>1 DEF PInv, Scalars
<1>5. Separate(eventLists', EventListNames)
  BY <1>1 DEF PInv, ListsOK
<1>6. CallsOK'
  BY <1>1, <1>3
  DEF PInv, CallsOK, Scalars, AllTasks, HoldingPoints, NotifyPoints,
      Created, StartedR, SchedulerHeld, CurrentR, EventsR, WaitersInNotifyCalls, HeldBackR, IsIn
<1> QED BY <1>2, <1>4, <1>5, <1>6 DEF PInv, ListsOK
-----------------------------------------------------------------------------
(* Notifications and events *)

\* What Receive makes of the notification state.
LEMMA ReceiveEffect ==
  ASSUME Scalars, NEW t \in AllTasks, NEW n \in NotifyActions, Receive(t, n)
  PROVE  /\ ucNotifyState' = [ucNotifyState EXCEPT ![t] = "received"]
         /\ ulNotifiedValue' \in [AllTasks -> NotifiedValues]
<1>1. n.ulValue \in NotifiedValues /\ ulNotifiedValue[t] \in NotifiedValues
  BY DEF NotifyActions, NotifiedValues, Scalars
<1>2. "zero" \in NotifiedValues /\ "nonzero" \in NotifiedValues
  BY DEF NotifiedValues
<1>3. n.eAction \in {"eSetBits", "eIncrement", "eSetValueWithOverwrite",
                     "eSetValueWithoutOverwrite", "eNoAction"}
  BY DEF NotifyActions
<1>4. NotifiedAfter(t, n) \subseteq NotifiedValues
  BY <1>1, <1>2, <1>3 DEF NotifiedAfter
<1>5. PICK v \in NotifiedAfter(t, n) : ulNotifiedValue' = [ulNotifiedValue EXCEPT ![t] = v]
  BY DEF Receive
<1> QED BY <1>4, <1>5 DEF Receive, Scalars

\* A notification of a task that does not wait, or a failed assertion.
LEMMA NotifyWithoutWaking ==
  ASSUME PInv, NEW target \in AllTasks,
         ucNotifyState' \in {ucNotifyState, [ucNotifyState EXCEPT ![target] = "received"]},
         ulNotifiedValue' \in [AllTasks -> NotifiedValues],
         mode' \in {mode, "halted"},
         UNCHANGED <<timeVars, listVars, schedVars, pxCurrentTCB, pendSV, callVars,
                     xSchedulerRunning, uxPriority, suspendCalls>>
  PROVE  PInv'
<1>1. Quiet
  BY DEF Quiet
<1>2. Scalars'
  BY DEF PInv, Scalars, Modes
<1>3. CallsOK'
  BY <1>1
  DEF PInv, CallsOK, Scalars, Quiet,
      Created, StartedR, SchedulerHeld, CurrentR, EventsR, WaitersInNotifyCalls, HeldBackR
<1> QED BY <1>1, <1>2, <1>3, QuietKeepsLists DEF PInv

\* A notification that wakes its task.
LEMMA NotifiedToReady ==
  ASSUME PInv, NEW target \in AllTasks, IsLinked(stateLists, target),
         ~IsLinked(eventLists, target), MoveToReady(target),
         ucNotifyState' = [ucNotifyState EXCEPT ![target] = "received"],
         ulNotifiedValue' \in [AllTasks -> NotifiedValues],
         xNextTaskUnblockTime' \in {xNextTaskUnblockTime, EarliestWake(stateLists'[Current])},
         xYieldPending' \in BOOLEAN, pendSV' \in BOOLEAN, pendSV => pendSV',
         UNCHANGED <<xTickCount, pxDelayedTaskList, xItemValue, eventLists, mode, uxPendedTicks,
                     uxSchedulerSuspended, pxCurrentTCB, callVars, xSchedulerRunning, uxPriority,
                     suspendCalls>>
  PROVE  PInv'
<1>1. Ready(stateLists, target) \/ Blocked(stateLists, target)
  BY ReadyOrBlocked DEF PInv, ListsOK, StateOK
<1>2. \A n \in EventListNames : ~IsIn(eventLists, n, target)
  BY LinkedIff DEF PInv, ListsOK
<1>3. /\ StateOK'
      /\ \A u \in AllTasks : /\ Ready(stateLists', u) <=> u = target \/ Ready(stateLists, u)
                             /\ Blocked(stateLists', u) <=> u # target /\ Blocked(stateLists, u)
  BY <1>1, MoveToReadyEffect
<1>4. EarliestWake(stateLists'[Current]) \in Ticks
  BY <1>3, EarliestWakeType, CurrentAndOverflow DEF PInv, Scalars, StateOK
<1>5. Scalars'
  BY <1>4 DEF PInv, Scalars
<1>6. Separate(eventLists', EventListNames)
  BY DEF PInv, ListsOK
<1>7. CallsOK'
  <2>1. Created'
    BY <1>1, <1>3 DEF PInv, CallsOK, Created
  <2>2. StartedR' /\ SchedulerHeld' /\ CurrentR'
    BY <1>3 DEF PInv, CallsOK, Scalars, StartedR, SchedulerHeld, CurrentR, AllTasks
  <2>3. EventsR'
    BY <1>2, <1>3 DEF PInv, CallsOK, EventsR, EventListNames, IsIn
  <2>4. WaitersInNotifyCalls' /\ HeldBackR'
    BY DEF PInv, CallsOK, Scalars, WaitersInNotifyCalls, HeldBackR, IsIn
  <2> QED BY <2>1, <2>2, <2>3, <2>4 DEF CallsOK
<1> QED BY <1>3, <1>5, <1>6, <1>7 DEF PInv, ListsOK

\* xTaskNotify.
LEMMA NotifyStep ==
  ASSUME PInv, NEW t, NEW target \in AllTasks, xTaskNotify(t, target)
  PROVE  PInv'
<1>1. ulNotifiedValue \in [AllTasks -> NotifiedValues] /\ xYieldPending \in BOOLEAN /\ pendSV \in BOOLEAN
  BY DEF PInv, Scalars
<1>2. /\ IsLinked(stateLists, target)
      /\ UNCHANGED <<schedVars, pxCurrentTCB, pendSV, callVars, xSchedulerRunning, uxPriority,
                     suspendCalls>>
  BY DEF xTaskNotify
<1>3. CASE ucNotifyState[target] # "waiting"
  <2>1. /\ \E n \in NotifyActions : Receive(target, n)
        /\ UNCHANGED <<timeVars, listVars, mode, failedAssert>>
    BY <1>3, Zenon DEF xTaskNotify
  <2>2. /\ ucNotifyState' = [ucNotifyState EXCEPT ![target] = "received"]
        /\ ulNotifiedValue' \in [AllTasks -> NotifiedValues]
    BY <2>1, ReceiveEffect DEF PInv
  <2> QED BY <1>2, <2>1, <2>2, NotifyWithoutWaking
<1>4. CASE ucNotifyState[target] = "waiting" /\ IsLinked(eventLists, target)
  <2>1. mode' = "halted" /\ UNCHANGED <<timeVars, listVars, notifyVars>>
    BY <1>4, Zenon DEF xTaskNotify
  <2> QED BY <1>1, <1>2, <2>1, NotifyWithoutWaking
<1>5. CASE ucNotifyState[target] = "waiting" /\ ~IsLinked(eventLists, target)
  <2>1. /\ \E n \in NotifyActions : Receive(target, n)
        /\ MoveToReady(target)
        /\ xNextTaskUnblockTime' = EarliestWake(stateLists'[Current])
        /\ UNCHANGED <<xTickCount, pxDelayedTaskList, xItemValue, eventLists, mode, failedAssert>>
    BY <1>5, Zenon DEF xTaskNotify
  <2>2. /\ ucNotifyState' = [ucNotifyState EXCEPT ![target] = "received"]
        /\ ulNotifiedValue' \in [AllTasks -> NotifiedValues]
    BY <2>1, ReceiveEffect DEF PInv
  <2> QED BY <1>1, <1>2, <1>5, <2>1, <2>2, NotifiedToReady
<1> QED BY <1>3, <1>4, <1>5

\* A notification from an interrupt, with the scheduler running or suspended.
LEMMA NotifyFromISRStep ==
  ASSUME PInv, NEW target \in AllTasks, xTaskNotifyFromISR(target)
  PROVE  PInv'
<1> DEFINE higher == uxPriority[target] > uxPriority[pxCurrentTCB]
<1>1. ulNotifiedValue \in [AllTasks -> NotifiedValues] /\ xYieldPending \in BOOLEAN /\ pendSV \in BOOLEAN
  BY DEF PInv, Scalars
<1>2. /\ IsLinked(stateLists, target)
      /\ UNCHANGED <<timeVars, uxPendedTicks, uxSchedulerSuspended, pxCurrentTCB, callVars,
                     xSchedulerRunning, uxPriority, suspendCalls>>
  BY DEF xTaskNotifyFromISR
<1>3. CASE ucNotifyState[target] # "waiting"
  <2>1. /\ \E n \in NotifyActions : Receive(target, n)
        /\ UNCHANGED <<listVars, xYieldPending, pendSV, mode, failedAssert>>
    BY <1>3, Zenon DEF xTaskNotifyFromISR
  <2>2. /\ ucNotifyState' = [ucNotifyState EXCEPT ![target] = "received"]
        /\ ulNotifiedValue' \in [AllTasks -> NotifiedValues]
    BY <2>1, ReceiveEffect DEF PInv
  <2> QED BY <1>2, <2>1, <2>2, NotifyWithoutWaking
<1>4. CASE ucNotifyState[target] = "waiting" /\ IsLinked(eventLists, target)
  <2>1. mode' = "halted" /\ UNCHANGED <<listVars, notifyVars, xYieldPending, pendSV>>
    BY <1>4, Zenon DEF xTaskNotifyFromISR
  <2> QED BY <1>1, <1>2, <2>1, NotifyWithoutWaking
<1>5. CASE ucNotifyState[target] = "waiting" /\ ~IsLinked(eventLists, target)
  <2>1. /\ \E n \in NotifyActions : Receive(target, n)
        /\ IF uxSchedulerSuspended = 0
           THEN MoveToReady(target) /\ UNCHANGED eventLists
           ELSE /\ eventLists' = LinkEnd(eventLists, PendingReadyList, target)
                /\ UNCHANGED <<stateLists, uxTopReadyPriority>>
        /\ \/ MayRequestSwitch(higher) /\ UNCHANGED xYieldPending
           \/ xYieldPending' = (xYieldPending \/ higher) /\ UNCHANGED pendSV
        /\ UNCHANGED <<mode, failedAssert>>
    BY <1>5, Zenon DEF xTaskNotifyFromISR
  <2>2. /\ ucNotifyState' = [ucNotifyState EXCEPT ![target] = "received"]
        /\ ulNotifiedValue' \in [AllTasks -> NotifiedValues]
    BY <2>1, ReceiveEffect DEF PInv
  <2> HIDE DEF higher
  <2>3. xYieldPending' \in BOOLEAN /\ pendSV' \in BOOLEAN /\ (pendSV => pendSV')
    <3>1. \/ pendSV' \in {pendSV, pendSV \/ higher} /\ xYieldPending' = xYieldPending
          \/ xYieldPending' = (xYieldPending \/ higher) /\ pendSV' = pendSV
      BY <2>1 DEF MayRequestSwitch
    <3> QED BY <1>1, <3>1, Zenon
  <2>4. CASE uxSchedulerSuspended = 0
    <3>1. MoveToReady(target) /\ UNCHANGED <<eventLists, mode>>
      BY <2>1, <2>4
    <3> QED BY <1>2, <1>5, <2>2, <2>3, <3>1, NotifiedToReady
  <2>5. CASE uxSchedulerSuspended # 0
    <3>1. /\ eventLists' = LinkEnd(eventLists, PendingReadyList, target)
          /\ UNCHANGED <<stateLists, uxTopReadyPriority, mode>>
      BY <2>1, <2>5
    <3>2. pc[target] \in NotifyPoints
      BY <1>5 DEF PInv, CallsOK, WaitersInNotifyCalls
    <3>3. Scalars'
      BY <1>2, <2>2, <2>3, <3>1 DEF PInv, Scalars
    <3>4. WaitersInNotifyCalls'
      BY <1>2, <2>2 DEF PInv, CallsOK, Scalars, WaitersInNotifyCalls
    <3> QED BY <1>2, <1>5, <2>3, <2>5, <3>1, <3>2, <3>3, <3>4, HeldBack
  <2> QED BY <2>4, <2>5
<1> QED BY <1>3, <1>4, <1>5

\* An event readies the first waiter, or puts it into xPendingReadyList.
LEMMA RemoveFromEventListStep ==
  ASSUME PInv, xTaskRemoveFromEventList
  PROVE  PInv'
<1> DEFINE t == HeadOwner(eventLists[EventList])
           left == Unlink(eventLists, t)
           higher == uxPriority[t] > uxPriority[pxCurrentTCB]
<1>1. t \in AllTasks /\ IsIn(eventLists, EventList, t)
  BY EmptyIff DEF xTaskRemoveFromEventList, PInv, ListsOK, EventListNames
<1>2. /\ IF uxSchedulerSuspended = 0
         THEN MoveToReady(t) /\ eventLists' = left
         ELSE /\ eventLists' = LinkEnd(left, PendingReadyList, t)
              /\ UNCHANGED <<stateLists, uxTopReadyPriority>>
      /\ xYieldPending' = (xYieldPending \/ higher)
      /\ MayRequestSwitch(higher)
      /\ xNextTaskUnblockTime' = EarliestWake(stateLists'[Current])
      /\ UNCHANGED <<xTickCount, pxDelayedTaskList, xItemValue, notifyVars, uxPendedTicks,
                     uxSchedulerSuspended, pxCurrentTCB, mode, callVars, restVars>>
  BY Zenon DEF xTaskRemoveFromEventList
<1> HIDE DEF t, higher
<1>3. xYieldPending' \in BOOLEAN /\ pendSV' \in BOOLEAN /\ (pendSV => pendSV')
  <2>1. xYieldPending \in BOOLEAN /\ pendSV \in BOOLEAN
    BY DEF PInv, Scalars
  <2> QED BY <1>2, <2>1, Zenon DEF MayRequestSwitch
<1>4. Blocked(stateLists, t)
  BY <1>1 DEF PInv, CallsOK, EventsR
<1>5. IsLinked(eventLists, t) /\ EventList \in EventListNames /\ PendingReadyList \in EventListNames
  BY <1>1, LinkedIff DEF PInv, ListsOK, EventListNames
<1>6. CASE uxSchedulerSuspended = 0
  <2>1. MoveToReady(t) /\ eventLists' = left
    BY <1>2, <1>6
  <2>2. /\ StateOK'
        /\ \A u \in AllTasks : /\ Ready(stateLists', u) <=> u = t \/ Ready(stateLists, u)
                               /\ Blocked(stateLists', u) <=> u # t /\ Blocked(stateLists, u)
    BY <1>1, <1>2, <1>4, <2>1, MoveToReadyEffect
  <2>3. Separate(eventLists', EventListNames) /\ Left(eventLists, EventListNames, t, eventLists')
    BY <1>1, <1>5, <2>1, UnlinkEffect DEF PInv, ListsOK
  <2>4. EarliestWake(stateLists'[Current]) \in Ticks
    BY <2>2, EarliestWakeType, CurrentAndOverflow DEF PInv, Scalars, StateOK
  <2>5. Scalars'
    BY <1>2, <1>3, <2>4 DEF PInv, Scalars
  <2>6. CallsOK'
    <3>1. Created'
      BY <1>2, <1>4, <2>2 DEF PInv, CallsOK, Created
    <3>2. StartedR' /\ SchedulerHeld' /\ CurrentR'
      BY <1>2, <1>3, <2>2 DEF PInv, CallsOK, Scalars, StartedR, SchedulerHeld, CurrentR, AllTasks
    <3>3. EventsR'
      BY <1>2, <2>2, <2>3 DEF PInv, CallsOK, EventsR, Left, EventListNames
    <3>4. WaitersInNotifyCalls' /\ HeldBackR'
      BY <1>2, <2>3 DEF PInv, CallsOK, WaitersInNotifyCalls, HeldBackR, Left, EventListNames
    <3> QED BY <3>1, <3>2, <3>3, <3>4 DEF CallsOK
  <2> QED BY <2>2, <2>3, <2>5, <2>6 DEF PInv, ListsOK
<1>7. CASE uxSchedulerSuspended # 0
  <2>1. eventLists' = LinkEnd(left, PendingReadyList, t) /\ UNCHANGED <<stateLists, uxTopReadyPriority>>
    BY <1>2, <1>7
  <2>2. /\ Separate(eventLists', EventListNames)
        /\ Moved(eventLists, EventListNames, t, PendingReadyList, eventLists')
    BY <1>1, <1>5, <2>1, MoveEffect DEF PInv, ListsOK
  <2>3. StateOK'
    BY <1>2, <2>1 DEF PInv, ListsOK, StateOK, ReadyAtOwnPriority, TopReadyPriorityExact, IsIn
  <2>4. EarliestWake(stateLists'[Current]) \in Ticks
    BY <2>3, EarliestWakeType, CurrentAndOverflow DEF PInv, Scalars, StateOK
  <2>5. Scalars'
    BY <1>2, <1>3, <2>4 DEF PInv, Scalars
  <2>6. CallsOK'
    <3>1. Created' /\ StartedR' /\ SchedulerHeld' /\ CurrentR' /\ WaitersInNotifyCalls'
      BY <1>2, <1>3, <2>1
      DEF PInv, CallsOK, Scalars, Created, StartedR, SchedulerHeld, CurrentR, WaitersInNotifyCalls
    <3>2. \A u \in AllTasks :
            /\ IsIn(eventLists', PendingReadyList, u) <=> u = t \/ IsIn(eventLists, PendingReadyList, u)
            /\ IsIn(eventLists', EventList, u) <=> u # t /\ IsIn(eventLists, EventList, u)
      BY <1>5, <2>2 DEF Moved, EventList, PendingReadyList
    <3>3. EventsR'
      BY <1>2, <1>4, <2>1, <3>2 DEF PInv, CallsOK, EventsR
    <3>4. HeldBackR'
      BY <1>2, <1>7 DEF HeldBackR
    <3> QED BY <3>1, <3>3, <3>4 DEF CallsOK
  <2> QED BY <2>2, <2>3, <2>5, <2>6 DEF PInv, ListsOK
<1> QED BY <1>6, <1>7
-----------------------------------------------------------------------------
(* The invariant *)

\* Every step of the scheduler, of a task or of an interrupt handler, and every
\* stuttering step, preserves the invariant.
LEMMA NextKeepsPInv ==
  ASSUME PInv, [Next]_vars
  PROVE  PInv'
<1> USE DEF Next
<1>0. Tasks \subseteq AllTasks /\ Idle \in AllTasks /\ Delays \cup {MaxDelay} \subseteq Ticks
  BY TasksAssumption DEF AllTasks, Ticks
<1>1. ASSUME NEW t \in Tasks, CallInProgress(t) PROVE PInv'
  <2>1. CASE Delay_AddToList(t)            BY <2>1, DelayStep
  <2>2. CASE DelayUntil_AddToList(t)       BY <2>2, DelayUntilStep
  <2>3. CASE vTaskPlaceOnEventList(t)      BY <2>3, PlaceOnEventListStep
  <2>4. CASE Suspend_ResetUnblockTime(t)   BY <1>0, <2>4, ResetUnblockTimeStep
  <2>5. CASE Notify_Return(t)              BY <1>0, <2>5, NotifyReturnStep
  <2>6. CASE xTaskResumeAll(t)             BY <1>0, <2>6, ResumeAllStep
  <2>7. CASE Yield(t)                      BY <1>0, <2>7, YieldStep
  <2> QED BY <1>1, <2>1, <2>2, <2>3, <2>4, <2>5, <2>6, <2>7 DEF CallInProgress
<1>2. ASSUME NEW t \in Tasks, NEW target \in Tasks, CallOn(t, target) PROVE PInv'
  <2>1. CASE xTaskCreate(t, target)              BY <1>0, <2>1, CreateStep
  <2>2. CASE vTaskSuspend(t, target)             BY <1>0, <2>2, SuspendStep
  <2>3. CASE vTaskResume(t, target)              BY <1>0, <2>3, ResumeStep
  <2>4. CASE xTaskNotify(t, target)              BY <1>0, <2>4, NotifyStep
  <2>5. CASE xTaskNotifyStateClear(t, target)    BY <1>0, <2>5, StateClearStep
  <2>6. CASE \E p \in Priorities : vTaskPrioritySet(t, target, p)
    BY <1>0, <2>6, PrioritySetStep
  <2> QED BY <1>2, <2>1, <2>2, <2>3, <2>4, <2>5, <2>6 DEF CallOn
<1>3. ASSUME NEW t \in Tasks, NewCall(t) PROVE PInv'
  <2>1. CASE vTaskDelay(t)         BY <1>0, <2>1, BeginBlockingStep DEF vTaskDelay
  <2>2. CASE vTaskDelayUntil(t)    BY <1>0, <2>2, BeginBlockingStep DEF vTaskDelayUntil
  <2>3. CASE BlockOnEvent(t)       BY <1>0, <2>3, BeginBlockingStep DEF BlockOnEvent
  <2>4. CASE xTaskGetTickCount(t)  BY <1>0, <2>4, GetTickCountStep
  <2>5. CASE vTaskSuspendAll(t)    BY <1>0, <2>5, SuspendAllStep
  <2>6. CASE ulTaskNotifyTake(t) \/ xTaskNotifyWait(t)
    BY <2>6, NotifyWaitStep
  <2>7. CASE \E target \in Tasks : CallOn(t, target)
    BY <1>2, <2>7
  <2> QED BY <1>3, <2>1, <2>2, <2>3, <2>4, <2>5, <2>6, <2>7 DEF NewCall
<1>4. CASE \E t \in Tasks : CreateBeforeStart(t)
  BY <1>4, CreateStep
<1>5. CASE vTaskStartScheduler
  BY <1>5, StartStep
<1>6. CASE IdleTask
  BY <1>0, <1>6, IdleStep, ResumeAllStep DEF IdleTask
<1>7. CASE MaskedLoop
  BY <1>7, MovePendingStep, ReplayTickStep, ResumeAllLeaveStep, UnblockStep, TickLeaveStep
  DEF MaskedLoop
<1>8. CASE InterruptHandler
  BY <1>0, <1>8, TickStep, RemoveFromEventListStep, ResumeFromISRStep, NotifyFromISRStep
  DEF InterruptHandler
<1>9. CASE vTaskSwitchContext
  BY <1>9, SwitchContextStep
<1>10. CASE UNCHANGED vars
  <2>1. Quiet
    BY <1>10 DEF vars, Quiet
  <2>2. Scalars'
    BY <1>10 DEF vars, PInv, Scalars
  <2>3. CallsOK'
    BY <1>10, <2>1
    DEF vars, PInv, CallsOK, Scalars, Quiet,
        Created, StartedR, SchedulerHeld, CurrentR, EventsR, WaitersInNotifyCalls, HeldBackR
  <2> QED BY <2>1, <2>2, <2>3, QuietKeepsLists DEF PInv
<1> QED BY <1>1, <1>3, <1>4, <1>5, <1>6, <1>7, <1>8, <1>9, <1>10

\* The invariant holds at boot and after every step.
THEOREM InductiveInvariant == Spec => []IInv
<1>1. Init => IInv
  BY InitPInv, IInvFolds
<1>2. IInv /\ [Next]_vars => IInv'
  <2>1. IInv /\ [Next]_vars => PInv'
    BY IInvUnfolds, NextKeepsPInv
  <2>2. PInv' => IInv'
    BY IInvFolds, PTL
  <2> QED BY <2>1, <2>2
<1> QED BY <1>1, <1>2, PTL DEF Spec

\* Every variable keeps the type the kernel declares it with.
THEOREM TypeCorrect == Spec => []TypeOK
<1>1. IInv => TypeOK
  BY DEF IInv
<1> QED BY <1>1, InductiveInvariant, PTL

\* No call and no interrupt ever links a task's item into a second list or
\* loses it.
THEOREM ListItemsSafe == Spec => []OneListPerItem
<1>1. IInv => OneListPerItem
  BY DEF IInv
<1> QED BY <1>1, InductiveInvariant, PTL

\* The bitmap that selects the next task always agrees with the ready lists.
THEOREM ReadyListsExact == Spec => []TopReadyPriorityExact
<1>1. IInv => TopReadyPriorityExact
  BY DEF IInv
<1> QED BY <1>1, InductiveInvariant, PTL

\* xTaskResumeAll leaves no tick and no readied task behind.
THEOREM NothingLeftPending == Spec => []NothingPendingWhenRunning
<1>1. IInv => NothingPendingWhenRunning
  BY DEF IInv, HeldBackOnlyWhileSuspended, NothingPendingWhenRunning
<1> QED BY <1>1, InductiveInvariant, PTL
-----------------------------------------------------------------------------
(* The context switch always finds the right task *)

\* A pending PendSV goes away only with the context switch it stands for.
LEMMA OnlySwitchClearsPendSV ==
  ASSUME PInv, [Next]_vars, pendSV, ~pendSV'
  PROVE  vTaskSwitchContext
<1>1. ASSUME NEW t PROVE ~CallInProgress(t) /\ ~NewCall(t)
  BY DEF CallInProgress, Delay_AddToList, DelayUntil_AddToList, vTaskPlaceOnEventList,
         Suspend_ResetUnblockTime, Notify_Return, xTaskResumeAll, Yield,
         NewCall, vTaskDelay, vTaskDelayUntil, BlockOnEvent, BeginBlocking, xTaskGetTickCount,
         vTaskSuspendAll, ulTaskNotifyTake, xTaskNotifyWait, CallOn, xTaskCreate, vTaskSuspend,
         vTaskResume, xTaskNotify, xTaskNotifyStateClear, vTaskPrioritySet
<1>2. ~IdleTask
  BY DEF IdleTask, Idle_Yield, Idle_SampleUnblockTime, Idle_SuspendAll, Idle_ConfirmIdleTime,
         Idle_Sleep, vTaskStepTick, xTaskResumeAll
<1>3. ~MaskedLoop
  BY DEF MaskedLoop, ResumeAll_MovePending, ResumeAll_ReplayTick, ResumeAll_Leave,
         IncrementTick_Unblock, IncrementTick_Leave, IncrementTick, AssertFails
<1>4. ~InterruptHandler
  <2>1. pendSV \in BOOLEAN
    BY DEF PInv, Scalars
  <2>2. ASSUME NEW woken, MayRequestSwitch(woken) PROVE FALSE
    BY <2>1, <2>2, Zenon DEF MayRequestSwitch
  <2>3. ~Tick
    BY DEF Tick, IncrementTick, AssertFails
  <2>4. ~xTaskRemoveFromEventList
    BY <2>2 DEF xTaskRemoveFromEventList
  <2>5. ASSUME NEW target PROVE ~xTaskResumeFromISR(target) /\ ~xTaskNotifyFromISR(target)
    BY <2>2, Zenon DEF xTaskResumeFromISR, xTaskNotifyFromISR
  <2> QED BY <2>3, <2>4, <2>5 DEF InterruptHandler
<1>5. ~UNCHANGED vars /\ ~vTaskStartScheduler /\ \A t : ~CreateBeforeStart(t)
  BY DEF vars, vTaskStartScheduler, CreateBeforeStart
<1> QED BY <1>1, <1>2, <1>3, <1>4, <1>5 DEF Next

\* After a context switch no ready task outranks the one that runs: the bitmap
\* led to the highest ready list.
THEOREM HighestPriorityRuns == Spec => SwitchToHighest
<1> DEFINE Switches == pendSV /\ ~pendSV' /\ uxSchedulerSuspended = 0
           Highest == \A t \in AllTasks : IsReady(t) => uxPriority[t] <= uxPriority[pxCurrentTCB']
<1>1. IInv /\ [Next]_vars => [Switches => Highest]_vars
  <2> SUFFICES ASSUME IInv, [Next]_vars, Switches PROVE Highest
    OBVIOUS
  <2>1. PInv
    BY IInvUnfolds
  <2>2. vTaskSwitchContext
    BY <2>1, OnlySwitchClearsPendSV
  <2>3. uxPriority[pxCurrentTCB'] = Max(uxTopReadyPriority)
    BY <2>1, <2>2, SwitchContextStep
  <2>4. \A t \in AllTasks : Ready(stateLists, t) => uxPriority[t] <= Max(uxTopReadyPriority)
    BY <2>1, <2>2, TopReadyList DEF vTaskSwitchContext, PInv, CallsOK, StartedR
  <2> QED BY <2>3, <2>4 DEF IsReady, Ready
<1> QED BY <1>1, InductiveInvariant, PTL DEF Spec, SwitchToHighest

\* Every ready task is in the ready list of the priority it has now.
THEOREM ReadyWhereLookedFor == Spec => []ReadyAtOwnPriority
<1>1. IInv => ReadyAtOwnPriority
  BY DEF IInv
<1> QED BY InductiveInvariant, <1>1, PTL

\* An event never readies a task that is not blocked: timeouts and suspensions
\* take their task out of the event list.
THEOREM EventWaitersBlocked == Spec => []EventItemsOfBlocked
<1>1. IInv => EventItemsOfBlocked
  BY DEF IInv
<1> QED BY InductiveInvariant, <1>1, PTL

\* The configASSERT in taskSELECT_HIGHEST_PRIORITY_TASK and the read through
\* pxIndex after it: the list that the bitmap names is never empty.
ReadyListFound == failedAssert # "no task in the top ready list"

\* No step lets the assertion of the context switch fail.
LEMMA ReadyListFoundStep ==
  ASSUME PInv, [Next]_vars, ReadyListFound
  PROVE  ReadyListFound'
<1>1. CASE vTaskSwitchContext
  BY <1>1, SwitchContextStep DEF ReadyListFound
<1>2. ASSUME NEW t, CallInProgress(t) \/ NewCall(t) \/ CreateBeforeStart(t) PROVE ReadyListFound'
  BY <1>2
  DEF ReadyListFound, CreateBeforeStart,
      CallInProgress, Delay_AddToList, DelayUntil_AddToList, vTaskPlaceOnEventList,
      Suspend_ResetUnblockTime, Notify_Return, xTaskResumeAll, Yield,
      NewCall, vTaskDelay, vTaskDelayUntil, BlockOnEvent, BeginBlocking, xTaskGetTickCount,
      vTaskSuspendAll, ulTaskNotifyTake, xTaskNotifyWait, WaitForNotification,
      CallOn, xTaskCreate, vTaskSuspend, vTaskResume, xTaskNotify, xTaskNotifyStateClear,
      vTaskPrioritySet
<1>3. CASE IdleTask
  BY <1>3
  DEF ReadyListFound, IdleTask, Idle_Yield, Idle_SampleUnblockTime, Idle_SuspendAll,
      Idle_ConfirmIdleTime, Idle_Sleep, vTaskStepTick, xTaskResumeAll, AssertFails
<1>4. CASE MaskedLoop
  BY <1>4
  DEF ReadyListFound, MaskedLoop, ResumeAll_MovePending, ResumeAll_ReplayTick, ResumeAll_Leave,
      IncrementTick_Unblock, IncrementTick_Leave, IncrementTick, AssertFails
<1>5. CASE InterruptHandler
  BY <1>5
  DEF ReadyListFound, InterruptHandler, Tick, IncrementTick, AssertFails,
      xTaskRemoveFromEventList, xTaskResumeFromISR, xTaskNotifyFromISR
<1>6. CASE UNCHANGED vars \/ vTaskStartScheduler
  BY <1>6 DEF ReadyListFound, vars, vTaskStartScheduler
<1> QED BY <1>1, <1>2, <1>3, <1>4, <1>5, <1>6 DEF Next

\* vTaskSwitchContext always finds a task: its configASSERT never fails.
THEOREM SwitchFindsTask == Spec => []ReadyListFound
<1>1. Init => ReadyListFound
  BY DEF Init, ReadyListFound
<1>2. IInv /\ ReadyListFound /\ [Next]_vars => ReadyListFound'
  BY IInvUnfolds, ReadyListFoundStep
<1> QED BY <1>1, <1>2, InductiveInvariant, PTL DEF Spec
-----------------------------------------------------------------------------
(* No notification is lost *)

\* The task waits in a blocked list for a notification, and for nothing else.
Waits(t) ==
  /\ pc[t] \in NotifyPoints /\ Blocked(stateLists, t) /\ t \notin suspendCalls
  /\ \A n \in EventListNames : ~IsIn(eventLists, n, t)

NoneCame(t) ==
  ucNotifyState[t] = "waiting" /\ (pc[t] = "notifyTake" => ulNotifiedValue[t] = "zero")

NotLost == \A t \in Tasks : Waits(t) => NoneCame(t)

\* This is what the runs check.
LEMMA NotLostIff ==
  ASSUME PInv
  PROVE  NotificationNotLost <=> NotLost
<1>1. \A t \in Tasks : IsBlocked(t) <=> Blocked(stateLists, t)
  BY BlockedAreInBlockedLists DEF PInv, Scalars
<1>2. \A t \in Tasks : IsLinked(eventLists, t) <=> \E n \in EventListNames : IsIn(eventLists, n, t)
  BY LinkedIff DEF PInv, ListsOK
<1> QED BY <1>1, <1>2 DEF NotificationNotLost, NotLost, Waits, NoneCame, NotifyPoints

\* What a step does not do to the tasks other than t: make them wait, or notify them.
Spared(t) ==
  \A u \in Tasks \ {t} :
    /\ Blocked(stateLists', u) => Blocked(stateLists, u)
    /\ \A n \in EventListNames : IsIn(eventLists, n, u) => IsIn(eventLists', n, u)
    /\ u \in suspendCalls => u \in suspendCalls'
    /\ pc'[u] \in NotifyPoints => pc'[u] = pc[u]
    /\ ucNotifyState'[u] = ucNotifyState[u] /\ ulNotifiedValue'[u] = ulNotifiedValue[u]

LEMMA SparedNotLost ==
  ASSUME NotLost, NEW t, Spared(t), t \in Tasks /\ Waits(t)' => NoneCame(t)'
  PROVE  NotLost'
<1>1. ASSUME NEW u \in Tasks \ {t}, Waits(u)' PROVE NoneCame(u)'
  <2>1. Waits(u)
    BY <1>1 DEF Spared, Waits
  <2>2. NoneCame(u)
    BY <2>1 DEF NotLost
  <2> QED BY <1>1, <2>2 DEF Spared, Waits, NoneCame
<1> QED BY <1>1 DEF NotLost

\* Steps that leave the lists alone, and the notifications too.
LEMMA QuietNotLost ==
  ASSUME NotLost, Quiet, UNCHANGED <<notifyVars, suspendCalls>>,
         \A u \in Tasks : pc'[u] \in NotifyPoints => pc'[u] = pc[u]
  PROVE  NotLost'
<1>1. ASSUME NEW u \in Tasks, Waits(u)' PROVE NoneCame(u)'
  <2>1. Waits(u)
    BY <1>1 DEF Quiet, Waits, Blocked, IsIn
  <2> QED BY <1>1, <2>1 DEF NotLost, NoneCame, Waits
<1> QED BY <1>1 DEF NotLost

\* Calls that begin, yield or go on without touching a list.
LEMMA CallsNotLost ==
  ASSUME PInv, NotLost, NEW t \in Tasks,
         \/ vTaskDelay(t) \/ vTaskDelayUntil(t) \/ BlockOnEvent(t)
         \/ xTaskGetTickCount(t) \/ Yield(t) \/ vTaskSuspendAll(t) \/ xTaskResumeAll(t)
         \/ Suspend_ResetUnblockTime(t)
  PROVE  NotLost'
<1>1. Quiet /\ UNCHANGED <<notifyVars, suspendCalls>>
  BY DEF Quiet, vTaskDelay, vTaskDelayUntil, BlockOnEvent, BeginBlocking, xTaskGetTickCount,
         Yield, vTaskSuspendAll, xTaskResumeAll, Suspend_ResetUnblockTime
<1>2. \A u \in Tasks : pc'[u] \in NotifyPoints => pc'[u] = pc[u]
  <2>1. pc \in [AllTasks -> CallPoints] /\ Tasks \subseteq AllTasks
    BY DEF PInv, Scalars, AllTasks
  <2>2. pc' = pc \/ \E next \in {"delay", "delayUntil", "placeOnEventList", "run", "yield", "idle"} :
                      pc' = [pc EXCEPT ![t] = next]
    BY DEF vTaskDelay, vTaskDelayUntil, BlockOnEvent, BeginBlocking, xTaskGetTickCount, Yield,
           vTaskSuspendAll, xTaskResumeAll, Suspend_ResetUnblockTime
  <2> QED BY <2>1, <2>2 DEF NotifyPoints
<1> QED BY <1>1, <1>2, QuietNotLost

\* The tick, the loops and the idle task where they touch no list.
LEMMA SystemNotLost ==
  ASSUME PInv, NotLost,
         \/ Tick \/ ResumeAll_ReplayTick \/ ResumeAll_Leave \/ IncrementTick_Leave \/ IdleTask
         \/ UNCHANGED vars
  PROVE  NotLost'
<1>1. CASE Tick \/ ResumeAll_ReplayTick
  <2>1. CASE \E loop, done : IncrementTick(loop, done)
    <3>1. Quiet /\ UNCHANGED <<notifyVars, suspendCalls, pc>>
      BY <2>1, Zenon DEF IncrementTick, AssertFails, Quiet
    <3> QED BY <3>1, QuietNotLost
  <2>2. CASE UNCHANGED <<timeVars, listVars, notifyVars, uxSchedulerSuspended, xYieldPending,
                         cpuVars, callVars, restVars>>
    BY <2>2, QuietNotLost DEF Quiet
  <2> QED BY <1>1, <2>1, <2>2, Zenon DEF Tick, ResumeAll_ReplayTick
<1>2. CASE ResumeAll_Leave \/ IncrementTick_Leave \/ UNCHANGED vars
  BY <1>2, QuietNotLost DEF Quiet, ResumeAll_Leave, IncrementTick_Leave, vars
<1>3. CASE IdleTask
  <2>1. Quiet /\ UNCHANGED <<notifyVars, suspendCalls>>
    <3>1. CASE xTaskResumeAll(Idle)
      BY <3>1 DEF xTaskResumeAll, Quiet
    <3>2. CASE Idle_Yield \/ Idle_SampleUnblockTime \/ Idle_SuspendAll \/ Idle_Sleep
      BY <3>2 DEF Quiet, Idle_Yield, Idle_SampleUnblockTime, Idle_SuspendAll, Idle_Sleep
    <3>3. CASE Idle_ConfirmIdleTime
      BY <3>3, Zenon DEF Quiet, Idle_ConfirmIdleTime, AssertFails
    <3>4. CASE vTaskStepTick
      BY <3>4, Zenon DEF Quiet, vTaskStepTick, AssertFails
    <3> QED BY <1>3, <3>1, <3>2, <3>3, <3>4 DEF IdleTask
  <2>2. pc' = pc \/ \E next : pc' = [pc EXCEPT ![Idle] = next]
    <3>1. CASE xTaskResumeAll(Idle)
      BY <3>1 DEF xTaskResumeAll
    <3>2. CASE Idle_Yield \/ Idle_SampleUnblockTime \/ Idle_SuspendAll \/ Idle_Sleep
      BY <3>2 DEF Idle_Yield, Idle_SampleUnblockTime, Idle_SuspendAll, Idle_Sleep
    <3>3. CASE Idle_ConfirmIdleTime
      BY <3>3, Zenon DEF Idle_ConfirmIdleTime, AssertFails
    <3>4. CASE vTaskStepTick
      BY <3>4, Zenon DEF vTaskStepTick, AssertFails
    <3> QED BY <1>3, <3>1, <3>2, <3>3, <3>4 DEF IdleTask
  <2>3. \A u \in Tasks : pc'[u] = pc[u]
    <3>1. pc \in [AllTasks -> CallPoints] /\ Tasks \subseteq AllTasks /\ Idle \notin Tasks
      BY TasksAssumption DEF PInv, Scalars, AllTasks
    <3> QED BY <2>2, <3>1
  <2> QED BY <2>1, <2>3, QuietNotLost
<1> QED BY <1>1, <1>2, <1>3

\* Task creation: a new task does not wait.
LEMMA CreateNotLost ==
  ASSUME PInv, NotLost,
         \/ \E t \in Tasks : CreateBeforeStart(t)
         \/ \E self, t \in Tasks : xTaskCreate(self, t)
         \/ vTaskStartScheduler
  PROVE  NotLost'
<1>1. PICK t \in AllTasks :
        AddNewTask(t) /\ UNCHANGED <<eventLists, notifyVars, uxPriority, suspendCalls>>
  BY DEF CreateBeforeStart, xTaskCreate, vTaskStartScheduler, AllTasks
<1>2. \A u \in AllTasks : Blocked(stateLists', u) <=> Blocked(stateLists, u)
  BY <1>1, AddNewTaskEffect
<1>3. \A u \in Tasks : pc'[u] = pc[u] \/ pc'[u] \in {"run", "idle"}
  BY <1>1 DEF AddNewTask, PInv, Scalars, AllTasks
<1>4. Spared(t) /\ (t \in Tasks => pc'[t] \notin NotifyPoints \/ pc'[t] = pc[t])
  BY <1>1, <1>2, <1>3 DEF Spared, NotifyPoints, AllTasks, IsIn
<1>5. t \in Tasks => ~Waits(t)'
  <2>1. t \in Tasks => pc'[t] \in {"run", "idle"}
    BY <1>1 DEF AddNewTask, PInv, Scalars
  <2> QED BY <2>1 DEF Waits, NotifyPoints
<1> QED BY <1>4, <1>5, SparedNotLost

\* A step that readies t, with t's event item free or freed.
LEMMA ReadiedNotLost ==
  ASSUME PInv, NotLost, NEW t \in AllTasks, Ready(stateLists, t) \/ Blocked(stateLists, t),
         MoveToReady(t), UNCHANGED <<uxPriority, pc>>,
         \A u \in Tasks \ {t} :
           /\ \A n \in EventListNames : IsIn(eventLists, n, u) => IsIn(eventLists', n, u)
           /\ u \in suspendCalls => u \in suspendCalls'
           /\ ucNotifyState'[u] = ucNotifyState[u] /\ ulNotifiedValue'[u] = ulNotifiedValue[u]
  PROVE  NotLost'
<1>1. \A u \in AllTasks : Blocked(stateLists', u) <=> u # t /\ Blocked(stateLists, u)
  BY MoveToReadyEffect
<1>2. Spared(t) /\ ~Waits(t)'
  BY <1>1 DEF Spared, Waits, AllTasks
<1> QED BY <1>2, SparedNotLost

\* xTaskResumeAll and the tick ready a task and take its event item out of its list.
LEMMA LoopsNotLost ==
  ASSUME PInv, NotLost, ResumeAll_MovePending \/ IncrementTick_Unblock
  PROVE  NotLost'
<1>1. CASE ResumeAll_MovePending
  <2> DEFINE t == HeadOwner(eventLists[PendingReadyList])
  <2>1. t \in AllTasks /\ IsIn(eventLists, PendingReadyList, t)
    BY <1>1, EmptyIff DEF ResumeAll_MovePending, PInv, ListsOK, EventListNames
  <2>2. /\ MoveToReady(t) /\ eventLists' = Unlink(eventLists, t)
        /\ UNCHANGED <<notifyVars, callVars, restVars>>
    BY <1>1 DEF ResumeAll_MovePending
  <2> HIDE DEF t
  <2>3. Ready(stateLists, t) \/ Blocked(stateLists, t)
    BY <2>1 DEF PInv, CallsOK, EventsR, Created, NotifyPoints
  <2>4. Left(eventLists, EventListNames, t, eventLists')
    BY <2>1, <2>2, LinkedIff, UnlinkEffect DEF PInv, ListsOK, EventListNames
  <2> QED BY <2>1, <2>2, <2>3, <2>4, ReadiedNotLost DEF Left, AllTasks
<1>2. CASE IncrementTick_Unblock
  <2> DEFINE t == DueTask
  <2>1. t \in AllTasks /\ IsIn(stateLists, Current, t)
    BY <1>2, EmptyIff, CurrentAndOverflow, StateListNamesDistinct
    DEF IncrementTick_Unblock, SomeTaskDue, DueTask, PInv, Scalars, ListsOK, StateOK
  <2>2. /\ MoveToReady(t) /\ eventLists' = UnlinkIfLinked(eventLists, t)
        /\ UNCHANGED <<notifyVars, callVars, restVars>>
    BY <1>2 DEF IncrementTick_Unblock
  <2> HIDE DEF t
  <2>3. Blocked(stateLists, t)
    BY <2>1, CurrentAndOverflow DEF Blocked, PInv, Scalars
  <2>4. Left(eventLists, EventListNames, t, eventLists')
    BY <2>1, <2>2, UnlinkIfLinkedEffect DEF PInv, ListsOK
  <2> QED BY <2>1, <2>2, <2>3, <2>4, ReadiedNotLost DEF Left, AllTasks
<1> QED BY <1>1, <1>2

\* An interrupt puts the task into xPendingReadyList: it will be readied.
LEMMA HeldBackNotLost ==
  ASSUME PInv, NotLost, NEW t \in AllTasks,
         Moved(eventLists, EventListNames, t, PendingReadyList, eventLists'),
         UNCHANGED <<stateLists, pc>>,
         \A u \in Tasks \ {t} :
           /\ u \in suspendCalls => u \in suspendCalls'
           /\ ucNotifyState'[u] = ucNotifyState[u] /\ ulNotifiedValue'[u] = ulNotifiedValue[u]
  PROVE  NotLost'
<1>1. \A n \in EventListNames, u \in AllTasks \ {t} :
        IsIn(eventLists', n, u) <=> IsIn(eventLists, n, u)
  BY DEF Moved
<1>2. IsIn(eventLists', PendingReadyList, t)
  BY DEF Moved, EventListNames
<1>3. Spared(t) /\ ~Waits(t)'
  BY <1>1, <1>2 DEF Spared, Waits, AllTasks, EventListNames, Blocked, IsIn
<1> QED BY <1>3, SparedNotLost

\* An event ends the wait for it.
LEMMA EventNotLost ==
  ASSUME PInv, NotLost, xTaskRemoveFromEventList
  PROVE  NotLost'
<1> DEFINE t == HeadOwner(eventLists[EventList])
           left == Unlink(eventLists, t)
<1>1. t \in AllTasks /\ IsIn(eventLists, EventList, t)
  BY EmptyIff DEF xTaskRemoveFromEventList, PInv, ListsOK, EventListNames
<1>2. /\ \/ MoveToReady(t) /\ eventLists' = left
         \/ eventLists' = LinkEnd(left, PendingReadyList, t) /\ UNCHANGED stateLists
      /\ UNCHANGED <<notifyVars, callVars, restVars>>
  BY Zenon DEF xTaskRemoveFromEventList
<1> HIDE DEF t
<1>3. Blocked(stateLists, t)
  BY <1>1 DEF PInv, CallsOK, EventsR
<1>4. IsLinked(eventLists, t) /\ PendingReadyList \in EventListNames
  BY <1>1, LinkedIff DEF PInv, ListsOK, EventListNames
<1>5. CASE MoveToReady(t) /\ eventLists' = left
  <2>1. Left(eventLists, EventListNames, t, eventLists')
    BY <1>1, <1>4, <1>5, UnlinkEffect DEF PInv, ListsOK
  <2> QED BY <1>1, <1>2, <1>3, <1>5, <2>1, ReadiedNotLost DEF Left, AllTasks
<1>6. CASE eventLists' = LinkEnd(left, PendingReadyList, t) /\ UNCHANGED stateLists
  <2>1. Moved(eventLists, EventListNames, t, PendingReadyList, eventLists')
    BY <1>1, <1>4, <1>6, MoveEffect DEF PInv, ListsOK
  <2> QED BY <1>1, <1>2, <1>6, <2>1, HeldBackNotLost
<1> QED BY <1>2, <1>5, <1>6

\* vTaskSuspend unlinks the event item, but the task is suspended then.
LEMMA SuspendNotLost ==
  ASSUME PInv, NotLost, NEW t \in Tasks, NEW target \in Tasks, vTaskSuspend(t, target)
  PROVE  NotLost'
<1>1. t \in AllTasks /\ target \in AllTasks
  BY DEF AllTasks
<1>2. /\ stateLists' = LinkEnd(Unlink(stateLists, target), SuspendedList, target)
      /\ eventLists' = UnlinkIfLinked(eventLists, target)
      /\ IsLinked(stateLists, target) /\ suspendCalls' = suspendCalls \cup {target}
      /\ pc' = [pc EXCEPT ![t] = IF target = t THEN "suspendedSelf" ELSE "suspendedOther"]
      /\ UNCHANGED notifyVars
  BY DEF vTaskSuspend
<1>3. SuspendedList \in BlockedNames /\ SuspendedList \in StateListNames
  BY StateListNamesDistinct DEF BlockedNames
<1>4. Moved(stateLists, StateListNames, target, SuspendedList, stateLists')
  BY <1>1, <1>2, <1>3, MoveEffect DEF PInv, ListsOK, StateOK
<1>5. \A u \in AllTasks : Blocked(stateLists', u) <=> u = target \/ Blocked(stateLists, u)
  BY <1>1, <1>3, <1>4, MovedToBlocked
<1>6. Left(eventLists, EventListNames, target, eventLists')
  BY <1>1, <1>2, UnlinkIfLinkedEffect DEF PInv, ListsOK
<1>7. \A u \in Tasks : pc'[u] \in NotifyPoints => pc'[u] = pc[u]
  BY <1>1, <1>2 DEF PInv, Scalars, AllTasks, NotifyPoints
<1>8. Spared(target) /\ ~Waits(target)'
  BY <1>2, <1>5, <1>6, <1>7 DEF Spared, Left, Waits, AllTasks
<1> QED BY <1>8, SparedNotLost

\* vTaskResume and xTaskResumeFromISR.
LEMMA ResumeNotLost ==
  ASSUME PInv, NotLost, NEW target \in Tasks,
         (\E t : vTaskResume(t, target)) \/ xTaskResumeFromISR(target)
  PROVE  NotLost'
<1>1. target \in AllTasks
  BY DEF AllTasks
<1>2. /\ TaskIsSuspended(target) /\ suspendCalls' = suspendCalls \ {target}
      /\ UNCHANGED <<notifyVars, pc, uxPriority>>
      /\ \/ MoveToReady(target) /\ UNCHANGED eventLists
         \/ eventLists' = LinkEnd(eventLists, PendingReadyList, target) /\ UNCHANGED stateLists
  BY Zenon DEF vTaskResume, xTaskResumeFromISR
<1>3. Blocked(stateLists, target)
  BY <1>2 DEF TaskIsSuspended, Blocked, BlockedNames
<1>4. CASE MoveToReady(target) /\ UNCHANGED eventLists
  BY <1>1, <1>2, <1>3, <1>4, ReadiedNotLost
<1>5. CASE eventLists' = LinkEnd(eventLists, PendingReadyList, target) /\ UNCHANGED stateLists
  <2>1. \A n \in EventListNames : ~IsIn(eventLists, n, target)
    BY <1>2, LinkedIff DEF TaskIsSuspended, PInv, ListsOK
  <2>2. Moved(eventLists, EventListNames, target, PendingReadyList, eventLists')
    BY <1>1, <1>5, <2>1, LinkEndEffect DEF PInv, ListsOK, EventListNames
  <2> QED BY <1>1, <1>2, <1>5, <2>2, HeldBackNotLost
<1> QED BY <1>2, <1>4, <1>5

\* A change of priority moves ready tasks only.
LEMMA PrioritySetNotLost ==
  ASSUME PInv, NotLost, NEW t, NEW target \in AllTasks, NEW p \in Priorities,
         vTaskPrioritySet(t, target, p)
  PROVE  NotLost'
<1>1. UNCHANGED <<eventLists, notifyVars, pc, suspendCalls>>
  BY DEF vTaskPrioritySet
<1>2. \A u \in AllTasks : Blocked(stateLists', u) => Blocked(stateLists, u)
  <2>1. CASE stateLists' = stateLists
    BY <2>1 DEF Blocked, IsIn
  <2>2. CASE Moved(stateLists, StateListNames, target, ReadyList(p), stateLists')
    BY <2>2, MovedToReady
  <2> QED BY <2>1, <2>2, PrioritySetKeeps DEF PInv, ListsOK
<1>3. Spared(target) /\ (target \in Tasks /\ Waits(target)' => Waits(target))
  BY <1>1, <1>2 DEF Spared, AllTasks, Waits, IsIn
<1>4. target \in Tasks /\ Waits(target)' => NoneCame(target)'
  BY <1>1, <1>3 DEF NotLost, NoneCame
<1> QED BY <1>3, <1>4, SparedNotLost

\* The context switch moves an index.
LEMMA SwitchNotLost ==
  ASSUME PInv, NotLost, vTaskSwitchContext
  PROVE  NotLost'
<1>1. UNCHANGED <<eventLists, notifyVars, pc, suspendCalls>>
  BY Zenon DEF vTaskSwitchContext
<1>2. \A u \in AllTasks : Blocked(stateLists', u) => Blocked(stateLists, u)
  <2>1. CASE uxSchedulerSuspended = 0
    <3>1. PInv' /\ \A u \in AllTasks : Ready(stateLists', u) <=> Ready(stateLists, u)
      BY <2>1, SwitchContextStep
    <3>2. \A u \in AllTasks : Blocked(stateLists', u) => ~Ready(stateLists', u) /\ pc'[u] # "none"
      BY <3>1, ReadyOrBlocked DEF PInv, ListsOK, StateOK, CallsOK, Created
    <3> QED BY <1>1, <3>1, <3>2 DEF PInv, CallsOK, Created
  <2>2. CASE uxSchedulerSuspended # 0
    BY <2>2 DEF vTaskSwitchContext, Blocked, IsIn
  <2> QED BY <2>1, <2>2
<1>3. \A u \in Tasks : Waits(u)' => Waits(u)
  BY <1>1, <1>2 DEF Waits, AllTasks, IsIn
<1> QED BY <1>1, <1>3 DEF NotLost, NoneCame
-----------------------------------------------------------------------------
\* Waiting for a notification: the mark and the block are one step, in which the
\* value is tested.
LEMMA WaitNotLost ==
  ASSUME PInv, NotLost, NEW t \in Tasks, ulTaskNotifyTake(t) \/ xTaskNotifyWait(t)
  PROVE  NotLost'
<1>1. t \in AllTasks /\ NotifyWaits \subseteq Ticks
  BY TasksAssumption DEF AllTasks, NotifyWaits, Ticks
<1>2. Ready(stateLists, t)
  BY <1>1, CurrentIsReady DEF ulTaskNotifyTake, xTaskNotifyWait
<1>3. ~Blocked(stateLists, t)
  BY <1>1, <1>2, ReadyOrBlocked DEF PInv, ListsOK, StateOK
<1>4. /\ \A u \in AllTasks \ {t} : /\ pc'[u] = pc[u] /\ ucNotifyState'[u] = ucNotifyState[u]
                                   /\ ulNotifiedValue'[u] = ulNotifiedValue[u]
      /\ UNCHANGED <<eventLists, suspendCalls>>
  BY <1>1 DEF ulTaskNotifyTake, xTaskNotifyWait, WaitForNotification, PInv, Scalars
<1>5. CASE UNCHANGED stateLists
  BY <1>3, <1>4, <1>5, SparedNotLost DEF Spared, Waits, Blocked, IsIn, AllTasks
<1>6. CASE /\ \E ticks \in NotifyWaits : AddCurrentTaskToDelayedList(t, ticks, TRUE)
           /\ NoneCame(t)' /\ UNCHANGED uxPriority
  <2>1. \A u \in AllTasks : Blocked(stateLists', u) <=> u = t \/ Blocked(stateLists, u)
    BY <1>1, <1>2, <1>6, AddToDelayedListEffect
  <2> QED BY <1>4, <1>6, <2>1, SparedNotLost DEF Spared, IsIn, AllTasks
<1>7. ASSUME NEW ticks \in NotifyWaits, NEW next, WaitForNotification(t, ticks, next)
      PROVE  /\ ucNotifyState'[t] = "waiting" /\ pc'[t] = next /\ UNCHANGED uxPriority
             /\ AddCurrentTaskToDelayedList(t, ticks, TRUE) \/ UNCHANGED stateLists
  BY <1>1, <1>7 DEF WaitForNotification, PInv, Scalars
<1>8. CASE ulTaskNotifyTake(t)
  <2>1. ASSUME NEW ticks \in NotifyWaits, WaitForNotification(t, ticks, "notifyTake"),
               ulNotifiedValue[t] = "zero", UNCHANGED ulNotifiedValue
        PROVE  NotLost'
    <3>1. NoneCame(t)'
      BY <1>7, <2>1 DEF NoneCame
    <3> QED BY <1>5, <1>6, <1>7, <2>1, <3>1
  <2> QED BY <1>5, <1>8, <2>1 DEF ulTaskNotifyTake
<1>9. CASE xTaskNotifyWait(t)
  <2>1. ASSUME NEW ticks \in NotifyWaits, WaitForNotification(t, ticks, "notifyWait")
        PROVE  NotLost'
    <3>1. pc'[t] = "notifyWait" /\ ucNotifyState'[t] = "waiting"
      BY <1>7, <2>1
    <3>2. NoneCame(t)'
      BY <3>1 DEF NoneCame
    <3> QED BY <1>5, <1>6, <1>7, <2>1, <3>2
  <2> QED BY <1>5, <1>9, <2>1 DEF xTaskNotifyWait
<1> QED BY <1>8, <1>9

\* The other calls that block leave the places where a task waits for a notification.
LEMMA BlockNotLost ==
  ASSUME PInv, NotLost, NEW t \in Tasks,
         Delay_AddToList(t) \/ DelayUntil_AddToList(t) \/ vTaskPlaceOnEventList(t)
  PROVE  NotLost'
<1>1. t \in AllTasks
  BY DEF AllTasks
<1>2. Ready(stateLists, t)
  BY <1>1, CurrentIsReady DEF Delay_AddToList, DelayUntil_AddToList, vTaskPlaceOnEventList
<1>3. /\ pc' = [pc EXCEPT ![t] = "resumeAll"] /\ UNCHANGED <<notifyVars, uxPriority, suspendCalls>>
      /\ \/ UNCHANGED stateLists
         \/ \E n \in Ticks, forever \in BOOLEAN : AddCurrentTaskToDelayedList(t, n, forever)
  <2>1. arg[t] \in Ticks /\ pxPreviousWakeTime[t] \in Ticks /\ xTickCount \in Ticks
    BY <1>1 DEF PInv, Scalars
  <2>2. (((pxPreviousWakeTime[t] + arg[t]) % (MaxDelay + 1)) - xTickCount) % (MaxDelay + 1) \in Ticks
    BY <2>1, TickArithmetic DEF PInv
  <2> QED BY <2>1, <2>2, Zenon DEF Delay_AddToList, DelayUntil_AddToList, vTaskPlaceOnEventList
<1>4. \A u \in AllTasks \ {t} : Blocked(stateLists', u) <=> Blocked(stateLists, u)
  <2>1. CASE UNCHANGED stateLists
    BY <2>1 DEF Blocked, IsIn
  <2>2. CASE \E n \in Ticks, forever \in BOOLEAN : AddCurrentTaskToDelayedList(t, n, forever)
    BY <1>1, <1>2, <1>3, <2>2, AddToDelayedListEffect
  <2> QED BY <1>3, <2>1, <2>2
<1>5. \A n \in EventListNames, u \in AllTasks \ {t} :
        IsIn(eventLists, n, u) => IsIn(eventLists', n, u)
  <2>1. CASE vTaskPlaceOnEventList(t)
    <3>1. ~Blocked(stateLists, t)
      BY <1>1, <1>2, ReadyOrBlocked DEF PInv, ListsOK, StateOK
    <3>2. pc[t] = "placeOnEventList"
      BY <2>1 DEF vTaskPlaceOnEventList
    <3>3. \A n \in EventListNames : ~IsIn(eventLists, n, t)
      BY <1>1, <3>1, <3>2 DEF PInv, CallsOK, EventsR, EventListNames, NotifyPoints
    <3>4. Moved(eventLists, EventListNames, t, EventList, eventLists')
      BY <1>1, <2>1, <3>3, LinkByValueEffect
      DEF vTaskPlaceOnEventList, PInv, ListsOK, EventListNames
    <3> QED BY <3>4 DEF Moved
  <2>2. CASE UNCHANGED eventLists
    BY <2>2 DEF IsIn
  <2> QED BY <2>1, <2>2 DEF Delay_AddToList, DelayUntil_AddToList
<1>6. Spared(t) /\ ~Waits(t)'
  BY <1>1, <1>3, <1>4, <1>5 DEF Spared, Waits, NotifyPoints, PInv, Scalars, AllTasks
<1> QED BY <1>6, SparedNotLost

\* The return from the wait, and xTaskNotifyStateClear of a task that does not wait.
LEMMA ReturnNotLost ==
  ASSUME PInv, NotLost, NEW t \in Tasks,
         Notify_Return(t) \/ \E self : xTaskNotifyStateClear(self, t)
  PROVE  NotLost'
<1>1. t \in AllTasks
  BY DEF AllTasks
<1>2. UNCHANGED <<stateLists, eventLists, suspendCalls>>
  BY DEF Notify_Return, xTaskNotifyStateClear
<1>3. /\ pc' = [pc EXCEPT ![t] = "run"] \/ pc' = pc
      /\ ucNotifyState' = [ucNotifyState EXCEPT ![t] = "notWaiting"]
      /\ \A u \in AllTasks \ {t} : ulNotifiedValue'[u] = ulNotifiedValue[u]
  BY <1>1 DEF Notify_Return, xTaskNotifyStateClear, PInv, Scalars
<1>4. Spared(t)
  BY <1>1, <1>2, <1>3 DEF Spared, PInv, Scalars, AllTasks, Blocked, IsIn
<1>5. ~Waits(t)'
  <2>1. CASE Notify_Return(t)
    BY <1>1, <2>1 DEF Notify_Return, Waits, NotifyPoints, PInv, Scalars
  <2>2. CASE \E self : xTaskNotifyStateClear(self, t)
    <3>1. ucNotifyState[t] = "received" /\ pc' = pc
      BY <2>2 DEF xTaskNotifyStateClear
    <3>2. ~Waits(t)
      BY <3>1 DEF NotLost, NoneCame
    <3> QED BY <1>2, <3>1, <3>2 DEF Waits, Blocked, IsIn
  <2> QED BY <2>1, <2>2
<1> QED BY <1>4, <1>5, SparedNotLost

\* A notification readies a task that waits for one, or will have it readied; a task
\* that is not marked does not wait.
LEMMA NotifyNotLost ==
  ASSUME PInv, NotLost, NEW target \in Tasks,
         (\E t : xTaskNotify(t, target)) \/ xTaskNotifyFromISR(target)
  PROVE  NotLost'
<1>1. target \in AllTasks
  BY DEF AllTasks
<1>2. IsLinked(stateLists, target) /\ UNCHANGED <<callVars, uxPriority, suspendCalls>>
  BY Zenon DEF xTaskNotify, xTaskNotifyFromISR
<1>3. \A n \in NotifyActions : Receive(target, n) =>
        \A u \in AllTasks \ {target} :
          ucNotifyState'[u] = ucNotifyState[u] /\ ulNotifiedValue'[u] = ulNotifiedValue[u]
  BY <1>1 DEF Receive, PInv, Scalars
<1>4. CASE ucNotifyState[target] # "waiting"
  <2>1. (\E n \in NotifyActions : Receive(target, n)) /\ UNCHANGED <<stateLists, eventLists>>
    BY <1>4, Zenon DEF xTaskNotify, xTaskNotifyFromISR
  <2>2. Spared(target)
    BY <1>2, <1>3, <2>1 DEF Spared, AllTasks, Blocked, IsIn
  <2>3. ~Waits(target)'
    BY <1>2, <1>4, <2>1 DEF NotLost, NoneCame, Waits, Blocked, IsIn
  <2> QED BY <2>2, <2>3, SparedNotLost
<1>5. CASE ucNotifyState[target] = "waiting" /\ IsLinked(eventLists, target)
  <2>1. UNCHANGED <<stateLists, eventLists, uxTopReadyPriority, notifyVars>>
    BY <1>5, Zenon DEF xTaskNotify, xTaskNotifyFromISR
  <2> QED BY <1>2, <2>1, QuietNotLost DEF Quiet
<1>6. CASE ucNotifyState[target] = "waiting" /\ ~IsLinked(eventLists, target)
  <2>1. /\ \E n \in NotifyActions : Receive(target, n)
        /\ \/ MoveToReady(target) /\ UNCHANGED eventLists
           \/ eventLists' = LinkEnd(eventLists, PendingReadyList, target) /\ UNCHANGED stateLists
    BY <1>6, Zenon DEF xTaskNotify, xTaskNotifyFromISR
  <2>2. CASE MoveToReady(target) /\ UNCHANGED eventLists
    <3>1. Ready(stateLists, target) \/ Blocked(stateLists, target)
      BY <1>1, <1>2, ReadyOrBlocked DEF PInv, ListsOK, StateOK
    <3> QED BY <1>1, <1>2, <1>3, <2>1, <2>2, <3>1, ReadiedNotLost DEF AllTasks
  <2>3. CASE eventLists' = LinkEnd(eventLists, PendingReadyList, target) /\ UNCHANGED stateLists
    <3>1. \A n \in EventListNames : ~IsIn(eventLists, n, target)
      BY <1>6, LinkedIff DEF PInv, ListsOK
    <3>2. Moved(eventLists, EventListNames, target, PendingReadyList, eventLists')
      BY <1>1, <2>3, <3>1, LinkEndEffect DEF PInv, ListsOK, EventListNames
    <3> QED BY <1>1, <1>2, <1>3, <2>1, <2>3, <3>2, HeldBackNotLost DEF AllTasks
  <2> QED BY <2>1, <2>2, <2>3
<1> QED BY <1>4, <1>5, <1>6

\* No step loses a notification.
LEMMA NextNotLost ==
  ASSUME PInv, NotLost, [Next]_vars
  PROVE  NotLost'
<1>1. ASSUME NEW t \in Tasks, CallInProgress(t) PROVE NotLost'
  BY <1>1, BlockNotLost, CallsNotLost, ReturnNotLost DEF CallInProgress
<1>2. ASSUME NEW t \in Tasks, NEW target \in Tasks, CallOn(t, target) PROVE NotLost'
  <2>1. target \in AllTasks
    BY DEF AllTasks
  <2> QED BY <1>2, <2>1, CreateNotLost, SuspendNotLost, ResumeNotLost, NotifyNotLost, ReturnNotLost,
             PrioritySetNotLost
          DEF CallOn
<1>3. ASSUME NEW t \in Tasks, NewCall(t) PROVE NotLost'
  <2>1. CASE vTaskDelay(t) \/ vTaskDelayUntil(t) \/ BlockOnEvent(t)
    BY <2>1, CallsNotLost
  <2>2. CASE xTaskGetTickCount(t) \/ vTaskSuspendAll(t)
    BY <2>2, CallsNotLost
  <2>3. CASE ulTaskNotifyTake(t) \/ xTaskNotifyWait(t)
    BY <2>3, WaitNotLost
  <2> QED BY <1>2, <1>3, <2>1, <2>2, <2>3 DEF NewCall
<1>4. CASE (\E t \in Tasks : CreateBeforeStart(t)) \/ vTaskStartScheduler
  BY <1>4, CreateNotLost
<1>5. CASE IdleTask \/ UNCHANGED vars
  BY <1>5, SystemNotLost
<1>6. CASE MaskedLoop
  BY <1>6, SystemNotLost, LoopsNotLost DEF MaskedLoop
<1>7. CASE InterruptHandler
  BY <1>7, SystemNotLost, EventNotLost, ResumeNotLost, NotifyNotLost DEF InterruptHandler
<1>8. CASE vTaskSwitchContext
  BY <1>8, SwitchNotLost
<1> QED BY <1>1, <1>3, <1>4, <1>5, <1>6, <1>7, <1>8 DEF Next

\* No notification is lost between the test of its value and the block, nor while the
\* scheduler is suspended: who is blocked on it has none.
THEOREM NoNotificationLost == Spec => []NotificationNotLost
<1>1. Init => NotLost
  BY DEF Init, NotLost, Waits, NotifyPoints, AllTasks
<1>2. IInv /\ NotLost /\ [Next]_vars => NotLost'
  BY IInvUnfolds, NextNotLost
<1>3. IInv /\ NotLost => NotificationNotLost
  BY IInvUnfolds, NotLostIff
<1> QED BY <1>1, <1>2, <1>3, InductiveInvariant, PTL DEF Spec
-----------------------------------------------------------------------------
(***************************************************************************)
(* Time in the scheduler: delayed tasks wake when they are due, the        *)
(* processor sleeps no longer than until then, and no configASSERT fails,  *)
(* for any number of tasks and any width of the tick count.                *)
(*                                                                         *)
(* What these rest on is the order of the delayed lists, which makes the   *)
(* head the first task to wake, and the place of every wake time and of    *)
(* xNextTaskUnblockTime relative to the tick count.                        *)
(***************************************************************************)

DelayedNames == {DelayedList(1), DelayedList(2)}

\* The delayed lists are in the order of their wake times.
DelayedInOrder == \A n \in DelayedNames : Ordered(stateLists[n], xItemValue)

\* Nobody is delayed before the scheduler runs.
NoneBeforeStart ==
  ~xSchedulerRunning => \A n \in DelayedNames, t \in AllTasks : ~IsIn(stateLists, n, t)

\* No delayed task wakes before xNextTaskUnblockTime, unless after the wrap.
UnblockTimeBounds ==
  \A t \in AllTasks : IsIn(stateLists, Current, t) => xNextTaskUnblockTime <= xItemValue[t]

\* Except in the loop that unblocks tasks, all wake times are still to come.
CurrentAhead ==
  mode \in {"open", "resume"} =>
    /\ \A t \in AllTasks : IsIn(stateLists, Current, t) => xTickCount < xItemValue[t]
    /\ xSchedulerRunning => xTickCount <= xNextTaskUnblockTime

\* Who wakes after the wrap has a wake time that the count has left behind.
OverflowBehind ==
  \A t \in AllTasks : IsIn(stateLists, Overflow, t) => xItemValue[t] < xTickCount

ClockInv ==
  DelayedInOrder /\ NoneBeforeStart /\ UnblockTimeBounds /\ CurrentAhead /\ OverflowBehind
-----------------------------------------------------------------------------
(* The delayed lists *)

\* The delayed lists are none of the other lists of state items.
LEMMA DelayedNamesApart ==
  /\ DelayedNames \subseteq StateListNames
  /\ SuspendedList \in StateListNames \ DelayedNames
  /\ \A p \in Priorities : ReadyList(p) \in StateListNames \ DelayedNames
  /\ DelayedList(1) # DelayedList(2)
BY DEF DelayedNames, StateListNames, ReadyList, DelayedList, SuspendedList

\* Current and Overflow name one of them each.
LEMMA CurrentIsDelayed ==
  ASSUME pxDelayedTaskList \in {1, 2}
  PROVE  Current \in DelayedNames /\ Overflow \in DelayedNames /\ Current # Overflow
BY DelayedNamesApart DEF Current, Overflow, DelayedNames

\* In a list in order nobody wakes before EarliestWake says.
LEMMA EarliestWakeBounds ==
  ASSUME NEW lists, Separate(lists, StateListNames), xItemValue \in [AllTasks -> Ticks],
         NEW n \in DelayedNames, Ordered(lists[n], xItemValue)
  PROVE  /\ EarliestWake(lists[n]) \in Ticks
         /\ \A t \in AllTasks : IsIn(lists, n, t) => EarliestWake(lists[n]) <= xItemValue[t]
         /\ \/ EarliestWake(lists[n]) = MaxDelay
            \/ \E t \in AllTasks : IsIn(lists, n, t) /\ EarliestWake(lists[n]) = xItemValue[t]
<1>1. n \in StateListNames /\ lists[n] \in ListOf(AllTasks) /\ MaxDelay \in Ticks
  BY DelayedNamesApart, TasksAssumption DEF Separate, Ticks
<1>2. CASE IsEmpty(lists[n])
  BY <1>1, <1>2, EmptyIff DEF EarliestWake
<1>3. CASE ~IsEmpty(lists[n])
  <2>1. HeadOwner(lists[n]) \in AllTasks /\ IsIn(lists, n, HeadOwner(lists[n]))
    BY <1>1, <1>3, EmptyIff
  <2>2. \A t \in Owners(lists[n]) : xItemValue[HeadOwner(lists[n])] <= xItemValue[t]
    BY <1>1, <1>3, HeadIsFirst
  <2> QED BY <1>3, <2>1, <2>2 DEF EarliestWake, IsIn
<1> QED BY <1>2, <1>3

\* What most steps do: no task enters a delayed list.
DelaysNobody ==
  \A n \in DelayedNames :
    /\ Ordered(stateLists'[n], xItemValue)
    /\ \A t \in AllTasks : IsIn(stateLists', n, t) => IsIn(stateLists, n, t)

\* Taking an item out of its list delays nobody,
LEMMA UnlinkOrdered ==
  ASSUME Separate(stateLists, StateListNames), DelayedInOrder,
         NEW t \in AllTasks, IsLinked(stateLists, t)
  PROVE  \A n \in DelayedNames : Ordered(Unlink(stateLists, t)[n], xItemValue)
<1> DEFINE name == Container(stateLists, t)
<1>1. name \in StateListNames /\ IsIn(stateLists, name, t)
  BY DEF Container, IsLinked, Separate
<1>2. \A n \in StateListNames : Unlink(stateLists, t)[n] =
        IF n = name THEN uxListRemove(stateLists[n], t) ELSE stateLists[n]
  BY DEF Unlink, Separate
<1> HIDE DEF name
<1>3. ASSUME NEW n \in DelayedNames PROVE Ordered(Unlink(stateLists, t)[n], xItemValue)
  <2>1. /\ n \in StateListNames /\ stateLists[n] \in ListOf(AllTasks)
        /\ Ordered(stateLists[n], xItemValue)
    BY DelayedNamesApart DEF Separate, DelayedInOrder
  <2>2. CASE n = name
    <3>1. Ordered(uxListRemove(stateLists[n], t), xItemValue)
      BY <1>1, <2>1, <2>2, RemoveOrdered DEF IsIn
    <3> QED BY <1>2, <2>1, <2>2, <3>1
  <2>3. CASE n # name
    BY <1>2, <2>1, <2>3
  <2> QED BY <2>2, <2>3
<1> QED BY <1>3

\* nor does a move to another list,
LEMMA MoveDelaysNobody ==
  ASSUME Separate(stateLists, StateListNames), DelayedInOrder,
         NEW t \in AllTasks, IsLinked(stateLists, t), NEW name \in StateListNames \ DelayedNames,
         stateLists' = LinkEnd(Unlink(stateLists, t), name, t)
  PROVE  DelaysNobody
<1> DEFINE left == Unlink(stateLists, t)
<1>1. /\ left \in [StateListNames -> ListOf(AllTasks)]
      /\ Left(stateLists, StateListNames, t, left)
      /\ \A n \in DelayedNames : Ordered(left[n], xItemValue)
  BY UnlinkEffect, UnlinkOrdered DEF Separate
<1> HIDE DEF left
<1>2. \A n \in DelayedNames : stateLists'[n] = left[n] /\ n \in StateListNames
  BY <1>1, DelayedNamesApart DEF LinkEnd, left
<1> QED BY <1>1, <1>2 DEF DelaysNobody, IsIn, Left

\* nor a step that leaves the delayed lists alone.
LEMMA SameDelaysNobody ==
  ASSUME DelayedInOrder, \A n \in DelayedNames : stateLists'[n] = stateLists[n]
  PROVE  DelaysNobody
BY DEF DelaysNobody, DelayedInOrder, IsIn

\* prvAddTaskToReadyList takes a task out of the delayed lists.
LEMMA MoveToReadyDelaysNobody ==
  ASSUME StateOK, DelayedInOrder, NEW t \in AllTasks, IsLinked(stateLists, t), MoveToReady(t)
  PROVE  DelaysNobody
<1>1. ReadyList(uxPriority[t]) \in StateListNames \ DelayedNames
  BY DelayedNamesApart DEF StateOK
<1> QED BY <1>1, MoveDelaysNobody DEF StateOK, MoveToReady
-----------------------------------------------------------------------------
\* What a step has to do for TimeoutsKeepTime: the time that a delayed task has left
\* goes down by the ticks that passed.
TimesKept ==
  \A t \in Tasks : IsDelayed(t) /\ IsDelayed(t)' =>
    Remaining(t)' = Remaining(t) - ((xTickCount' - xTickCount) % (MaxDelay + 1))

ClockKept == ClockInv' /\ TimesKept

\* While the count stands, the delayed tasks only have to keep their wake times and lists.
LEMMA SameTimes ==
  ASSUME PInv, UNCHANGED <<xTickCount, pxDelayedTaskList>>,
         \A t \in Tasks : IsDelayed(t) =>
           /\ xItemValue'[t] = xItemValue[t]
           /\ \A n \in DelayedNames : IsIn(stateLists', n, t) => IsIn(stateLists, n, t)
  PROVE  TimesKept
<1>1. /\ Current \in DelayedNames /\ Overflow \in DelayedNames /\ Current # Overflow
      /\ Current' = Current /\ Overflow' = Overflow
      /\ xTickCount \in Nat /\ MaxDelay \in Nat
  BY CurrentIsDelayed, TasksAssumption DEF PInv, Scalars, Current, Overflow, Ticks
<1>2. SUFFICES ASSUME NEW t \in Tasks, IsDelayed(t), IsDelayed(t)'
               PROVE  Remaining(t)' = Remaining(t) - ((xTickCount' - xTickCount) % (MaxDelay + 1))
  BY DEF TimesKept
<1>3. IsIn(stateLists', Current, t) <=> IsIn(stateLists, Current, t)
  <2>1. ~(IsIn(stateLists, Current, t) /\ IsIn(stateLists, Overflow, t))
    BY <1>1, DelayedNamesApart DEF AllTasks, PInv, ListsOK, StateOK, Separate
  <2> QED BY <1>1, <1>2, <2>1 DEF IsDelayed
<1>4. Remaining(t)' = Remaining(t) /\ Remaining(t) \in Int
  BY <1>1, <1>2, <1>3 DEF Remaining, PInv, Scalars, Ticks, AllTasks
<1>5. (xTickCount' - xTickCount) % (MaxDelay + 1) = 0
  BY <1>1
<1> QED BY <1>4, <1>5
\* A step that delays nobody and leaves the count alone keeps the clock's
\* invariant, if it keeps xNextTaskUnblockTime or resets it.
LEMMA NobodyDelayed ==
  ASSUME PInv, ClockInv, DelaysNobody, Separate(stateLists', StateListNames),
         UNCHANGED <<xTickCount, pxDelayedTaskList, xItemValue, xSchedulerRunning>>,
         xNextTaskUnblockTime' \in {xNextTaskUnblockTime, EarliestWake(stateLists'[Current])},
         mode' \in {"open", "resume"} => mode \in {"open", "resume"}
  PROVE  ClockKept
<1>1. /\ xItemValue \in [AllTasks -> Ticks] /\ Current \in DelayedNames /\ Overflow \in DelayedNames
      /\ Current' = Current /\ Overflow' = Overflow
      /\ xTickCount \in Ticks /\ xNextTaskUnblockTime \in Ticks
  BY CurrentIsDelayed DEF PInv, Scalars, Current, Overflow
<1>2. DelayedInOrder'
  BY DEF DelaysNobody, DelayedInOrder
<1>3. NoneBeforeStart'
  BY DEF ClockInv, NoneBeforeStart, DelaysNobody
<1>4. OverflowBehind'
  BY <1>1 DEF ClockInv, OverflowBehind, DelaysNobody
<1>5. \A t \in AllTasks : IsIn(stateLists', Current, t) => IsIn(stateLists, Current, t)
  BY <1>1 DEF DelaysNobody
<1> DEFINE wake == EarliestWake(stateLists'[Current])
<1>6. /\ wake \in Ticks
      /\ \A t \in AllTasks : IsIn(stateLists', Current, t) => wake <= xItemValue[t]
      /\ \/ wake = MaxDelay
         \/ \E t \in AllTasks : IsIn(stateLists', Current, t) /\ wake = xItemValue[t]
  BY <1>1, EarliestWakeBounds DEF DelaysNobody
<1>7. xNextTaskUnblockTime' \in {xNextTaskUnblockTime, wake}
  OBVIOUS
<1> HIDE DEF wake
<1>8. UnblockTimeBounds'
  BY <1>1, <1>5, <1>6, <1>7 DEF ClockInv, UnblockTimeBounds
<1>9. CurrentAhead'
  <2> SUFFICES ASSUME mode' \in {"open", "resume"} PROVE CurrentAhead'
    BY DEF CurrentAhead
  <2>1. /\ \A t \in AllTasks : IsIn(stateLists, Current, t) => xTickCount < xItemValue[t]
        /\ xSchedulerRunning => xTickCount <= xNextTaskUnblockTime
    BY DEF ClockInv, CurrentAhead
  <2>2. xTickCount <= MaxDelay /\ xTickCount \in Nat /\ MaxDelay \in Nat
    BY <1>1, TasksAssumption DEF Ticks
  <2>3. xTickCount <= wake
    BY <1>1, <1>5, <1>6, <2>1, <2>2 DEF Ticks
  <2> QED BY <1>1, <1>5, <1>7, <2>1, <2>3 DEF CurrentAhead
<1>10. TimesKept
  BY SameTimes DEF DelaysNobody, AllTasks
<1> QED BY <1>2, <1>3, <1>4, <1>8, <1>9, <1>10 DEF ClockInv, ClockKept
-----------------------------------------------------------------------------
(* Blocking *)

\* The wake time: ahead of the count, or behind it when it comes after the wrap.
LEMMA WakeTime ==
  ASSUME NEW now \in Ticks, NEW n \in Ticks, n # 0
  PROVE  (now + n) % (MaxDelay + 1) \in Ticks \ {now}
<1>1. MaxDelay \in Nat /\ now \in 0 .. MaxDelay /\ n \in 1 .. MaxDelay
  BY TasksAssumption DEF Ticks
<1>2. CASE now + n <= MaxDelay
  <2>1. (now + n) % (MaxDelay + 1) = now + n
    BY <1>1, <1>2
  <2> QED BY <1>1, <1>2, <2>1 DEF Ticks
<1>3. CASE now + n > MaxDelay
  <2>1. (now + n) % (MaxDelay + 1) = now + n - (MaxDelay + 1)
    BY <1>1, <1>3
  <2> QED BY <1>1, <1>3, <2>1 DEF Ticks
<1> QED BY <1>1, <1>2, <1>3

\* prvAddCurrentTaskToDelayedList keeps the lists in order and the wake times
\* where they belong.
LEMMA AddToDelayedListClock ==
  ASSUME PInv, ClockInv, NEW t \in AllTasks, Ready(stateLists, t),
         NEW n \in Ticks, n # 0, NEW forever, AddCurrentTaskToDelayedList(t, n, forever),
         UNCHANGED xSchedulerRunning, xSchedulerRunning, mode = "open"
  PROVE  ClockKept
<1> DEFINE left == Unlink(stateLists, t)
           wake == (xTickCount + n) % (MaxDelay + 1)
           wraps == WakesAfterWrap(wake)
           target == IF wraps THEN Overflow ELSE Current
<1>1. /\ Separate(stateLists, StateListNames) /\ IsLinked(stateLists, t)
      /\ pxDelayedTaskList \in {1, 2} /\ xItemValue \in [AllTasks -> Ticks]
      /\ xTickCount \in Ticks /\ xNextTaskUnblockTime \in Ticks /\ Ticks \subseteq Nat
  BY ReadyOrBlocked, TasksAssumption DEF PInv, ListsOK, StateOK, Scalars, Ticks
<1>2. /\ Separate(left, StateListNames) /\ Left(stateLists, StateListNames, t, left)
      /\ \A m \in DelayedNames : Ordered(left[m], xItemValue)
  BY <1>1, UnlinkEffect, UnlinkOrdered DEF ClockInv
<1>3. UNCHANGED <<xTickCount, pxDelayedTaskList>> /\ Current' = Current /\ Overflow' = Overflow
  BY DEF AddCurrentTaskToDelayedList, Current, Overflow
<1>4. wake \in Ticks /\ wake # xTickCount
  BY <1>1, WakeTime
<1>5. wraps <=> wake < xTickCount
  BY DEF WakesAfterWrap
<1>6. \/ stateLists' = LinkEnd(left, SuspendedList, t) /\ UNCHANGED <<xItemValue, xNextTaskUnblockTime>>
      \/ /\ xItemValue' = [xItemValue EXCEPT ![t] = wake]
         /\ stateLists' = LinkByValue(left, target, xItemValue, t, wake)
         /\ xNextTaskUnblockTime' =
              IF ~wraps /\ wake < xNextTaskUnblockTime THEN wake ELSE xNextTaskUnblockTime
  BY Zenon DEF AddCurrentTaskToDelayedList
<1>7. target \in DelayedNames /\ DelayedNames \subseteq StateListNames /\ Current # Overflow
      /\ Current \in DelayedNames /\ Overflow \in DelayedNames
  BY <1>1, CurrentIsDelayed, DelayedNamesApart
<1>8. target = IF wraps THEN Overflow ELSE Current
  OBVIOUS
<1> HIDE DEF left, wake, wraps, target
<1>9. CASE stateLists' = LinkEnd(left, SuspendedList, t) /\ UNCHANGED <<xItemValue, xNextTaskUnblockTime>>
  <2>1. /\ stateLists' = LinkEnd(Unlink(stateLists, t), SuspendedList, t)
        /\ SuspendedList \in StateListNames \ DelayedNames
    BY <1>9, DelayedNamesApart DEF left
  <2>2. DelaysNobody
    BY <1>1, <2>1, MoveDelaysNobody DEF ClockInv
  <2>3. Separate(stateLists', StateListNames)
    BY <1>1, <2>1, MoveEffect
  <2> QED BY <1>3, <1>9, <2>2, <2>3, NobodyDelayed
<1>10. CASE /\ xItemValue' = [xItemValue EXCEPT ![t] = wake]
            /\ stateLists' = LinkByValue(left, target, xItemValue, t, wake)
            /\ xNextTaskUnblockTime' =
                 IF ~wraps /\ wake < xNextTaskUnblockTime THEN wake ELSE xNextTaskUnblockTime
  <2>1. /\ \A m \in StateListNames : ~IsIn(left, m, t)
        /\ \A m \in StateListNames : left[m] \in ListOf(AllTasks)
    BY <1>2 DEF Left, Separate
  <2>2. /\ stateLists'[target] = vListInsert(left[target], xItemValue, t, wake)
        /\ \A m \in DelayedNames : m # target => stateLists'[m] = left[m]
    BY <1>2, <1>7, <1>10 DEF LinkByValue, Separate
  <2>3. Ordered(stateLists'[target], xItemValue')
    <3>1. /\ left[target] \in ListOf(AllTasks) /\ t \notin Owners(left[target])
          /\ Ordered(left[target], xItemValue) /\ xItemValue \in [AllTasks -> Nat] /\ wake \in Nat
      BY <1>1, <1>2, <1>4, <1>7, <2>1 DEF IsIn
    <3>2. Ordered(vListInsert(left[target], xItemValue, t, wake), [xItemValue EXCEPT ![t] = wake])
      BY <3>1, InsertOrdered
    <3> QED BY <1>10, <2>2, <3>2
  <2>4. \A m \in DelayedNames : m # target => Ordered(stateLists'[m], xItemValue')
    <3> SUFFICES ASSUME NEW m \in DelayedNames, m # target PROVE Ordered(left[m], xItemValue')
      BY <2>2
    <3>1. /\ left[m] \in ListOf(AllTasks) /\ Ordered(left[m], xItemValue)
          /\ Owners(left[m]) \subseteq AllTasks /\ t \notin Owners(left[m])
      BY <1>2, <1>7, <2>1, ListFields, SeqPositions DEF IsIn
    <3>2. \A o \in Owners(left[m]) : xItemValue'[o] = xItemValue[o]
      BY <1>1, <1>10, <3>1
    <3> QED BY <3>1, <3>2, OrderOfOwners
  <2>5. DelayedInOrder'
    BY <2>3, <2>4 DEF DelayedInOrder
  <2>6. Moved(left, StateListNames, t, target, stateLists')
    BY <1>2, <1>7, <1>10, <2>1, LinkByValueEffect
  <2>7. \A m \in DelayedNames, u \in AllTasks :
          IsIn(stateLists', m, u) <=> IF u = t THEN m = target ELSE IsIn(stateLists, m, u)
    BY <1>2, <1>7, <2>6 DEF Moved, Left
  <2>8. \A u \in AllTasks : xItemValue'[u] = IF u = t THEN wake ELSE xItemValue[u]
    BY <1>1, <1>10
  <2>9. /\ \A u \in AllTasks : IsIn(stateLists, Current, u) =>
             xNextTaskUnblockTime <= xItemValue[u] /\ xTickCount < xItemValue[u]
        /\ \A u \in AllTasks : IsIn(stateLists, Overflow, u) => xItemValue[u] < xTickCount
        /\ xTickCount <= xNextTaskUnblockTime
    BY DEF ClockInv, UnblockTimeBounds, CurrentAhead, OverflowBehind
  <2>10. xNextTaskUnblockTime' <= xNextTaskUnblockTime /\ xTickCount <= xNextTaskUnblockTime'
         /\ (~wraps => xNextTaskUnblockTime' <= wake)
    BY <1>1, <1>4, <1>5, <1>10, <2>9
  <2>11. UnblockTimeBounds'
    <3> SUFFICES ASSUME NEW u \in AllTasks, IsIn(stateLists', Current, u)
                 PROVE  xNextTaskUnblockTime' <= xItemValue'[u]
      BY <1>3 DEF UnblockTimeBounds
    <3>1. CASE u = t
      BY <1>7, <1>8, <2>7, <2>8, <2>10, <3>1
    <3>2. CASE u # t
      <4>1. xNextTaskUnblockTime <= xItemValue[u] /\ xItemValue'[u] = xItemValue[u]
            /\ xItemValue[u] \in Nat
        BY <1>1, <1>7, <2>7, <2>8, <2>9, <3>2
      <4>2. xNextTaskUnblockTime' \in Nat
        BY <1>1, <1>4, <1>10
      <4> QED BY <1>1, <2>10, <4>1, <4>2
    <3> QED BY <3>1, <3>2
  <2>12. \A u \in AllTasks : IsIn(stateLists', Current, u) => xTickCount < xItemValue'[u]
    BY <1>1, <1>4, <1>5, <1>7, <1>8, <2>7, <2>8, <2>9
  <2>13. OverflowBehind'
    BY <1>1, <1>3, <1>5, <1>7, <1>8, <2>7, <2>8, <2>9 DEF OverflowBehind
  <2>14. CurrentAhead'
    BY <1>3, <2>10, <2>12 DEF CurrentAhead
  <2>15. TimesKept
    <3>1. ~IsDelayed(t)
      BY <1>1, ReadyOrBlocked, BlockedAreInBlockedLists DEF Blocked, IsDelayed, IsBlocked
    <3>2. \A u \in Tasks : IsDelayed(u) => u # t /\ u \in AllTasks
      BY <3>1 DEF AllTasks
    <3> QED BY <1>3, <2>7, <2>8, <3>2, SameTimes
  <2> QED BY <2>5, <2>11, <2>13, <2>14, <2>15 DEF ClockInv, NoneBeforeStart, ClockKept
<1> QED BY <1>6, <1>9, <1>10
-----------------------------------------------------------------------------
(* The passing of time *)

\* The count goes up by one or wraps.
LEMMA NextTickIs ==
  ASSUME xTickCount \in Ticks
  PROVE  NextTick = IF xTickCount = MaxDelay THEN 0 ELSE xTickCount + 1
<1>1. MaxDelay \in Nat /\ xTickCount \in 0 .. MaxDelay
  BY TasksAssumption DEF Ticks
<1>2. CASE xTickCount = MaxDelay
  BY <1>1, <1>2 DEF NextTick
<1>3. CASE xTickCount # MaxDelay
  <2>1. xTickCount + 1 \in 0 .. MaxDelay
    BY <1>1, <1>3
  <2>2. (xTickCount + 1) % (MaxDelay + 1) = xTickCount + 1
    BY <1>1, <2>1
  <2> QED BY <1>3, <2>2 DEF NextTick
<1> QED BY <1>2, <1>3

\* When the count goes on without a wrap, all delays get shorter by the same.
LEMMA CountGoesOn ==
  ASSUME PInv, NEW n \in Nat, xTickCount' = xTickCount + n, xTickCount + n <= MaxDelay,
         UNCHANGED <<xItemValue, stateLists>>, Current' = Current, Overflow' = Overflow
  PROVE  TimesKept
<1> SUFFICES ASSUME NEW t \in Tasks, IsDelayed(t), IsDelayed(t)'
             PROVE  Remaining(t)' = Remaining(t) - ((xTickCount' - xTickCount) % (MaxDelay + 1))
  BY DEF TimesKept
<1>1. t \in AllTasks /\ xItemValue[t] \in Nat /\ xTickCount \in Nat /\ MaxDelay \in Nat
  BY TasksAssumption DEF AllTasks, PInv, Scalars, Ticks
<1>2. (xTickCount' - xTickCount) % (MaxDelay + 1) = n
  BY <1>1
<1>3. IsIn(stateLists', Current', t) <=> IsIn(stateLists, Current, t)
  BY DEF IsIn
<1> QED BY <1>1, <1>2, <1>3 DEF Remaining

\* xTaskIncrementTick finds the delayed list empty when the count wraps: its
\* assertion holds, and after the exchange all wake times are ahead again.
LEMMA IncrementTickClock ==
  ASSUME PInv, ClockInv, NEW loop \in {"tick", "replay"}, NEW done \in {"open", "resume"},
         mode \in {"open", "resume"}, IncrementTick(loop, done)
  PROVE  ClockKept /\ UNCHANGED <<stateLists, failedAssert>>
<1>1. /\ Separate(stateLists, StateListNames) /\ MaxDelay \in Nat
      /\ pxDelayedTaskList \in {1, 2} /\ xItemValue \in [AllTasks -> Ticks]
      /\ xTickCount \in 0 .. MaxDelay /\ xNextTaskUnblockTime \in 0 .. MaxDelay
  BY TasksAssumption DEF PInv, ListsOK, StateOK, Scalars, Ticks
<1>2. /\ Current \in DelayedNames /\ Overflow \in DelayedNames
      /\ Current \in StateListNames
  BY <1>1, CurrentIsDelayed, DelayedNamesApart
<1>3. \A u \in AllTasks :
        /\ IsIn(stateLists, Current, u) => xNextTaskUnblockTime <= xItemValue[u] /\ xTickCount < xItemValue[u]
        /\ IsIn(stateLists, Overflow, u) => xItemValue[u] < xTickCount
  BY DEF ClockInv, UnblockTimeBounds, CurrentAhead, OverflowBehind
<1>4. NextTick = IF xTickCount = MaxDelay THEN 0 ELSE xTickCount + 1
  BY NextTickIs DEF PInv, Scalars
<1>5. NextTick = 0 => IsEmpty(stateLists[Current]) /\ \A u \in AllTasks : ~IsIn(stateLists, Current, u)
  <2>1. NextTick = 0 => \A u \in AllTasks : ~IsIn(stateLists, Current, u)
    BY <1>1, <1>3, <1>4 DEF Ticks
  <2> QED BY <1>1, <1>2, <2>1, EmptyIff
<1> DEFINE unblock == IF NextTick = 0 THEN EarliestWake(stateLists[Overflow]) ELSE xNextTaskUnblockTime
<1>6. /\ xTickCount' = NextTick
      /\ pxDelayedTaskList' = DelayedListAt(NextTick)
      /\ xNextTaskUnblockTime' = unblock
      /\ mode' = IF NextTick >= unblock THEN loop ELSE done
      /\ UNCHANGED <<xItemValue, stateLists, xSchedulerRunning, failedAssert>>
  BY <1>5, Zenon DEF IncrementTick
<1>7. DelayedInOrder' /\ NoneBeforeStart'
  BY <1>6 DEF ClockInv, DelayedInOrder, NoneBeforeStart, IsIn
<1>8. CASE NextTick = 0
  <2>1. Current' = Overflow /\ Overflow' = Current
    BY <1>1, <1>6, <1>8 DEF DelayedListAt, Current, Overflow
  <2>2. /\ EarliestWake(stateLists[Overflow]) \in Ticks
        /\ \A u \in AllTasks :
             IsIn(stateLists, Overflow, u) => EarliestWake(stateLists[Overflow]) <= xItemValue[u]
    BY <1>1, <1>2, EarliestWakeBounds DEF ClockInv, DelayedInOrder
  <2>3. \A u \in AllTasks : IsIn(stateLists', Current', u) => xNextTaskUnblockTime' <= xItemValue'[u]
    BY <1>6, <1>8, <2>1, <2>2 DEF IsIn
  <2>4. mode' \in {"open", "resume"} => xTickCount' < xNextTaskUnblockTime'
    BY <1>1, <1>6, <1>8, <2>2 DEF Ticks
  <2>5. \A u \in AllTasks : ~IsIn(stateLists', Overflow', u)
    BY <1>5, <1>6, <1>8, <2>1 DEF IsIn
  <2>6. xNextTaskUnblockTime' \in Nat /\ xTickCount' = 0
    BY <1>1, <1>6, <1>8, <2>2 DEF Ticks
  <2> DEFINE first == xNextTaskUnblockTime'
  <2>7. CurrentAhead'
    <3>1. \A u \in AllTasks : xItemValue'[u] \in Nat
      BY <1>1, <1>6 DEF Ticks
    <3> QED BY <2>3, <2>4, <2>6, <3>1 DEF CurrentAhead
  <2>8. TimesKept
    <3> SUFFICES ASSUME NEW t \in Tasks, IsDelayed(t), IsDelayed(t)'
                 PROVE  Remaining(t)' = Remaining(t) - ((xTickCount' - xTickCount) % (MaxDelay + 1))
      BY DEF TimesKept
    <3>1. t \in AllTasks /\ xItemValue[t] \in Nat
      BY <1>1 DEF AllTasks, Ticks
    <3>2. xTickCount = MaxDelay /\ (xTickCount' - xTickCount) % (MaxDelay + 1) = 1
      <4>1. xTickCount = MaxDelay /\ xTickCount' = 0 /\ MaxDelay \in Nat \ {0}
        BY <1>1, <1>4, <1>8, <2>6, TasksAssumption
      <4>2. (0 - MaxDelay) % (MaxDelay + 1) = 1
        BY <4>1
      <4> QED BY <4>1, <4>2
    <3>3. ~IsIn(stateLists, Current, t) /\ IsIn(stateLists', Current', t)
      BY <1>5, <1>6, <1>8, <2>1, <3>1 DEF IsDelayed, IsIn
    <3> QED BY <1>1, <1>6, <2>6, <3>1, <3>2, <3>3 DEF Remaining
  <2> QED BY <1>6, <1>7, <2>3, <2>5, <2>7, <2>8
          DEF ClockInv, UnblockTimeBounds, OverflowBehind, ClockKept
<1>9. CASE NextTick # 0
  <2>1. Current' = Current /\ Overflow' = Overflow
    BY <1>6, <1>9 DEF DelayedListAt, Current, Overflow
  <2>2. xTickCount' = xTickCount + 1 /\ UNCHANGED xNextTaskUnblockTime
    BY <1>4, <1>6, <1>9
  <2>3. \A u \in AllTasks : IsIn(stateLists', Current', u) => xNextTaskUnblockTime' <= xItemValue'[u]
    BY <1>3, <1>6, <2>1, <2>2 DEF IsIn
  <2>4. \A u \in AllTasks : IsIn(stateLists', Overflow', u) => xItemValue'[u] < xTickCount'
    BY <1>1, <1>3, <1>6, <2>1, <2>2 DEF IsIn, Ticks
  <2>5. mode' \in {"open", "resume"} => xTickCount' < xNextTaskUnblockTime'
    BY <1>1, <1>6, <1>9, <2>2
  <2>6. CurrentAhead'
    <3>1. \A u \in AllTasks : xItemValue'[u] \in Nat
      BY <1>1, <1>6 DEF Ticks
    <3> QED BY <1>1, <2>2, <2>3, <2>5, <3>1 DEF CurrentAhead
  <2>7. TimesKept
    <3>1. 1 \in Nat /\ xTickCount + 1 <= MaxDelay
      BY <1>1, <1>4, <1>9
    <3> QED BY <1>6, <2>1, <2>2, <3>1, CountGoesOn
  <2> QED BY <1>6, <1>7, <2>3, <2>4, <2>6, <2>7
          DEF ClockInv, UnblockTimeBounds, OverflowBehind, ClockKept
<1> QED BY <1>6, <1>8, <1>9

\* The loop of xTaskIncrementTick ends when the head's time is to come, and
\* with it that of all others.
LEMMA LeaveClock ==
  ASSUME PInv, ClockInv, IncrementTick_Leave
  PROVE  ClockKept
<1>1. /\ Separate(stateLists, StateListNames) /\ MaxDelay \in Nat
      /\ pxDelayedTaskList \in {1, 2} /\ xItemValue \in [AllTasks -> Ticks]
      /\ xTickCount \in 0 .. MaxDelay
      /\ Current \in DelayedNames
  BY TasksAssumption, CurrentIsDelayed DEF PInv, ListsOK, StateOK, Scalars, Ticks
<1>2. /\ UNCHANGED <<xTickCount, pxDelayedTaskList, xItemValue, stateLists, xSchedulerRunning>>
      /\ xNextTaskUnblockTime' = EarliestWake(stateLists[Current])
      /\ ~SomeTaskDue
  BY DEF IncrementTick_Leave
<1>3. Current' = Current /\ Overflow' = Overflow
  BY <1>2 DEF Current, Overflow
<1> DEFINE wake == EarliestWake(stateLists[Current])
<1>4. /\ wake \in Ticks
      /\ \A u \in AllTasks : IsIn(stateLists, Current, u) => wake <= xItemValue[u]
  BY <1>1, EarliestWakeBounds DEF ClockInv, DelayedInOrder
<1>5. xTickCount <= wake /\ (wake = xTickCount => IsEmpty(stateLists[Current]))
  <2>1. CASE IsEmpty(stateLists[Current])
    BY <1>1, <2>1 DEF EarliestWake
  <2>2. CASE ~IsEmpty(stateLists[Current])
    <3>1. ~(xTickCount >= xItemValue[HeadOwner(stateLists[Current])])
      BY <1>2, <2>2 DEF SomeTaskDue, DueTask
    <3>2. wake = xItemValue[HeadOwner(stateLists[Current])]
      BY <2>2 DEF EarliestWake
    <3> QED BY <1>1, <1>4, <3>1, <3>2 DEF Ticks
  <2> QED BY <2>1, <2>2
<1>6. IsEmpty(stateLists[Current]) => \A u \in AllTasks : ~IsIn(stateLists, Current, u)
  BY <1>1, EmptyIff, DelayedNamesApart
<1> HIDE DEF wake
<1>7. \A u \in AllTasks : IsIn(stateLists, Current, u) => xTickCount < xItemValue[u]
  BY <1>1, <1>4, <1>5, <1>6 DEF Ticks
<1>8. TimesKept
  BY <1>2, SameTimes
<1> QED BY <1>2, <1>3, <1>4, <1>5, <1>7, <1>8
        DEF wake, ClockInv, DelayedInOrder, NoneBeforeStart, UnblockTimeBounds, CurrentAhead,
            OverflowBehind, IsIn, ClockKept

\* vTaskStepTick stays below xNextTaskUnblockTime.
LEMMA StepTickClock ==
  ASSUME PInv, ClockInv, NEW jump \in Nat, xTickCount + jump < xNextTaskUnblockTime,
         xTickCount' = xTickCount + jump,
         UNCHANGED <<xNextTaskUnblockTime, pxDelayedTaskList, xItemValue, stateLists, xSchedulerRunning>>
  PROVE  ClockKept
<1>1. /\ xItemValue \in [AllTasks -> Nat] /\ xTickCount \in Nat /\ xNextTaskUnblockTime \in Nat
  BY TasksAssumption DEF PInv, Scalars, Ticks
<1>2. Current' = Current /\ Overflow' = Overflow
  BY DEF Current, Overflow
<1>3. \A u \in AllTasks : IsIn(stateLists', Overflow', u) => xItemValue'[u] < xTickCount'
  BY <1>1, <1>2 DEF IsIn, ClockInv, OverflowBehind
<1>4. \A u \in AllTasks : IsIn(stateLists', Current', u) =>
        xNextTaskUnblockTime' <= xItemValue'[u] /\ xTickCount' < xItemValue'[u]
  BY <1>1, <1>2 DEF IsIn, ClockInv, UnblockTimeBounds
<1>5. xTickCount' <= xNextTaskUnblockTime'
  BY <1>1
<1>6. TimesKept
  <2>1. xTickCount + jump <= MaxDelay
    BY <1>1, TasksAssumption DEF PInv, Scalars, Ticks
  <2> QED BY <1>2, <2>1, CountGoesOn
<1> QED BY <1>3, <1>4, <1>5, <1>6
        DEF ClockInv, DelayedInOrder, NoneBeforeStart, UnblockTimeBounds, CurrentAhead,
            OverflowBehind, IsIn, ClockKept
-----------------------------------------------------------------------------
(* The clock's invariant is kept by every step *)

Sleeping == {"idleSleep", "asleep"}

\* The loops of xTaskResumeAll and of the tick run with the scheduler resumed.
LoopsUnsuspended == mode \in {"tick", "resume", "replay"} => uxSchedulerSuspended = 0

\* Nobody blocks for no time.
WaitsPositive == \A t \in Tasks : pc[t] \in {"delay", "placeOnEventList"} => arg[t] # 0

\* From the decision to sleep on only the idle task is ready, and the sleep
\* does not reach past the next wake time.
SleepsAlone ==
  pc[Idle] \in Sleeping =>
    /\ \A t \in Tasks : ~Ready(stateLists, t)
    /\ arg[Idle] # 0
    /\ xTickCount + arg[Idle] <= xNextTaskUnblockTime

TimeInv == ClockInv /\ LoopsUnsuspended /\ WaitsPositive /\ SleepsAlone

\* Steps that leave the delayed lists alone.
LEMMA QuietClock ==
  ASSUME PInv, ClockInv, Separate(stateLists', StateListNames),
         \A n \in DelayedNames : stateLists'[n] = stateLists[n],
         UNCHANGED <<xTickCount, pxDelayedTaskList, xItemValue, xSchedulerRunning>>,
         xNextTaskUnblockTime' \in {xNextTaskUnblockTime, EarliestWake(stateLists'[Current])},
         mode' \in {"open", "resume"} => mode \in {"open", "resume"}
  PROVE  ClockKept
BY SameDelaysNobody, NobodyDelayed DEF ClockInv

\* Steps that ready a task.
LEMMA ReadiedClock ==
  ASSUME PInv, ClockInv, Separate(stateLists', StateListNames),
         NEW t \in AllTasks, IsLinked(stateLists, t), MoveToReady(t),
         UNCHANGED <<xTickCount, pxDelayedTaskList, xItemValue, xSchedulerRunning>>,
         xNextTaskUnblockTime' \in {xNextTaskUnblockTime, EarliestWake(stateLists'[Current])},
         mode' \in {"open", "resume"} => mode \in {"open", "resume"}
  PROVE  ClockKept
BY MoveToReadyDelaysNobody, NobodyDelayed DEF ClockInv, PInv, ListsOK

\* The distance to a later or earlier count is not zero.
LEMMA DifferentCounts ==
  ASSUME NEW m \in Ticks, NEW n \in Ticks, m # n
  PROVE  (m - n) % (MaxDelay + 1) \in Ticks \ {0}
<1>1. MaxDelay \in Nat /\ m \in 0 .. MaxDelay /\ n \in 0 .. MaxDelay
  BY TasksAssumption DEF Ticks
<1>2. CASE m > n
  <2>1. (m - n) % (MaxDelay + 1) = m - n
    BY <1>1, <1>2
  <2> QED BY <1>1, <1>2, <2>1 DEF Ticks
<1>3. CASE m < n
  <2>1. (m - n) % (MaxDelay + 1) = m - n + (MaxDelay + 1)
    BY <1>1, <1>3
  <2> QED BY <1>1, <1>3, <2>1 DEF Ticks
<1> QED BY <1>1, <1>2, <1>3

\* The calls that block.
LEMMA BlockClock ==
  ASSUME PInv, TimeInv, PInv', NEW t \in Tasks,
         \/ Delay_AddToList(t) \/ DelayUntil_AddToList(t) \/ vTaskPlaceOnEventList(t)
         \/ ulTaskNotifyTake(t) \/ xTaskNotifyWait(t)
  PROVE  ClockKept
<1>1. t \in AllTasks /\ arg[t] \in Ticks /\ xTickCount \in Ticks /\ pxPreviousWakeTime[t] \in Ticks
  BY DEF AllTasks, PInv, Scalars
<1>2. /\ Ready(stateLists, t) /\ mode = "open" /\ xSchedulerRunning
      /\ UNCHANGED <<xSchedulerRunning, mode>>
  BY <1>1, CurrentIsReady
  DEF Delay_AddToList, DelayUntil_AddToList, vTaskPlaceOnEventList, ulTaskNotifyTake,
      xTaskNotifyWait, WaitForNotification
<1>3. ASSUME NEW n \in Ticks, n # 0, NEW forever \in BOOLEAN, AddCurrentTaskToDelayedList(t, n, forever)
      PROVE  ClockKept
  BY <1>1, <1>2, <1>3, AddToDelayedListClock DEF TimeInv
<1>4. CASE UNCHANGED <<timeVars, stateLists>>
  BY <1>2, <1>4, QuietClock DEF TimeInv, PInv, ListsOK, StateOK
<1>5. CASE Delay_AddToList(t) \/ vTaskPlaceOnEventList(t)
  <2>1. arg[t] # 0
    BY <1>5 DEF Delay_AddToList, vTaskPlaceOnEventList, TimeInv, WaitsPositive
  <2>2. \E forever \in BOOLEAN : AddCurrentTaskToDelayedList(t, arg[t], forever)
    BY <1>5, Zenon DEF Delay_AddToList, vTaskPlaceOnEventList
  <2> QED BY <1>1, <1>3, <2>1, <2>2
<1>6. CASE DelayUntil_AddToList(t)
  <2> DEFINE wake == (pxPreviousWakeTime[t] + arg[t]) % (MaxDelay + 1)
  <2>1. wake \in Ticks
    BY <1>1, TickArithmetic DEF PInv
  <2>2. \/ UNCHANGED <<timeVars, stateLists>>
        \/ /\ ShouldDelay(pxPreviousWakeTime[t], wake)
           /\ AddCurrentTaskToDelayedList(t, (wake - xTickCount) % (MaxDelay + 1), FALSE)
    BY <1>6, Zenon DEF DelayUntil_AddToList
  <2> HIDE DEF wake
  <2>3. ShouldDelay(pxPreviousWakeTime[t], wake) => wake # xTickCount
    BY <1>1, <2>1, TasksAssumption DEF ShouldDelay, Ticks
  <2>4. CASE wake # xTickCount /\ AddCurrentTaskToDelayedList(t, (wake - xTickCount) % (MaxDelay + 1), FALSE)
    BY <1>1, <1>3, <2>1, <2>4, DifferentCounts
  <2> QED BY <1>4, <2>2, <2>3, <2>4
<1>7. CASE ulTaskNotifyTake(t) \/ xTaskNotifyWait(t)
  <2>1. NotifyWaits \subseteq Ticks
    BY TasksAssumption DEF NotifyWaits, Ticks
  <2>2. \/ UNCHANGED <<timeVars, stateLists>>
        \/ \E n \in NotifyWaits : n > 0 /\ AddCurrentTaskToDelayedList(t, n, TRUE)
    <3>1. ASSUME NEW n \in NotifyWaits, NEW next, WaitForNotification(t, n, next)
          PROVE  \/ UNCHANGED <<timeVars, stateLists>>
                 \/ n > 0 /\ AddCurrentTaskToDelayedList(t, n, TRUE)
      BY <3>1, Zenon DEF WaitForNotification
    <3>2. \/ \E n \in NotifyWaits : WaitForNotification(t, n, "notifyTake")
          \/ \E n \in NotifyWaits : WaitForNotification(t, n, "notifyWait")
          \/ UNCHANGED <<timeVars, stateLists>>
      BY <1>7, Zenon DEF ulTaskNotifyTake, xTaskNotifyWait
    <3> QED BY <3>1, <3>2
  <2>3. \A n \in NotifyWaits : n > 0 => n # 0
    BY <2>1, TasksAssumption DEF Ticks
  <2> QED BY <1>3, <1>4, <2>1, <2>2, <2>3
<1> QED BY <1>5, <1>6, <1>7

\* The other steps of tasks and interrupts that end no wait.
LEMMA CallsClock ==
  ASSUME PInv, TimeInv, PInv', NEW t \in AllTasks,
         \/ Suspend_ResetUnblockTime(t) \/ Notify_Return(t) \/ xTaskResumeAll(t) \/ Yield(t)
         \/ vTaskDelay(t) \/ vTaskDelayUntil(t) \/ xTaskGetTickCount(t) \/ vTaskSuspendAll(t)
         \/ BlockOnEvent(t) \/ \E target \in Tasks : xTaskNotifyStateClear(t, target)
  PROVE  ClockKept
<1>1. /\ UNCHANGED <<stateLists, xTickCount, pxDelayedTaskList, xItemValue, xSchedulerRunning>>
      /\ xNextTaskUnblockTime' \in {xNextTaskUnblockTime, EarliestWake(stateLists[Current])}
      /\ mode = "open"
  BY DEF Suspend_ResetUnblockTime, Notify_Return, xTaskResumeAll, Yield, vTaskDelay,
         vTaskDelayUntil, BeginBlocking, xTaskGetTickCount, vTaskSuspendAll, BlockOnEvent,
         xTaskNotifyStateClear
<1> QED BY <1>1, QuietClock DEF TimeInv, PInv, ListsOK, StateOK

\* Creation: the new task is ready.
LEMMA CreateClock ==
  ASSUME PInv, TimeInv, PInv', NEW t \in AllTasks, AddNewTask(t),
         UNCHANGED <<xTickCount, pxDelayedTaskList, xItemValue, xSchedulerRunning,
                     xNextTaskUnblockTime, mode>>
  PROVE  ClockKept
<1>1. ReadyList(uxPriority[t]) \in StateListNames \ DelayedNames
  BY DelayedNamesApart DEF PInv, ListsOK, StateOK
<1>2. \A n \in DelayedNames : stateLists'[n] = stateLists[n]
  BY <1>1, DelayedNamesApart DEF AddNewTask, LinkEnd, PInv, ListsOK, StateOK, Separate
<1> QED BY <1>2, QuietClock DEF TimeInv, PInv, ListsOK, StateOK

\* The scheduler starts the count with nobody delayed.
LEMMA StartClock ==
  ASSUME PInv, TimeInv, PInv', vTaskStartScheduler
  PROVE  ClockKept
<1>1. Idle \in AllTasks /\ ReadyList(uxPriority[Idle]) \in StateListNames \ DelayedNames
  BY DelayedNamesApart DEF PInv, ListsOK, StateOK, AllTasks
<1>2. \A n \in DelayedNames : stateLists'[n] = stateLists[n]
  BY <1>1, DelayedNamesApart
  DEF vTaskStartScheduler, AddNewTask, LinkEnd, PInv, ListsOK, StateOK, Separate
<1>3. \A n \in DelayedNames, u \in AllTasks : ~IsIn(stateLists', n, u)
  BY <1>2 DEF vTaskStartScheduler, TimeInv, ClockInv, NoneBeforeStart, IsIn
<1>4. Current' \in DelayedNames /\ Overflow' \in DelayedNames
  BY CurrentIsDelayed DEF PInv, Scalars, vTaskStartScheduler, Current, Overflow
<1>5. 0 <= MaxDelay /\ xTickCount' = 0 /\ xNextTaskUnblockTime' = MaxDelay /\ UNCHANGED xItemValue
  BY TasksAssumption DEF vTaskStartScheduler
<1>6. ~xSchedulerRunning /\ UNCHANGED pxDelayedTaskList
  BY DEF vTaskStartScheduler
<1>7. \A u \in Tasks : ~IsDelayed(u)
  BY <1>2, <1>3, <1>6, CurrentIsDelayed DEF IsDelayed, IsIn, PInv, Scalars, AllTasks
<1> QED BY <1>2, <1>3, <1>4, <1>5, <1>7
        DEF TimeInv, ClockInv, DelayedInOrder, NoneBeforeStart, UnblockTimeBounds, CurrentAhead,
            OverflowBehind, ClockKept, TimesKept

\* Steps that end a wait.
LEMMA WakeClock ==
  ASSUME PInv, TimeInv, PInv',
         \/ ResumeAll_MovePending \/ IncrementTick_Unblock \/ xTaskRemoveFromEventList
         \/ \E t, target \in Tasks : vTaskResume(t, target) \/ xTaskNotify(t, target)
         \/ \E target \in Tasks : xTaskResumeFromISR(target) \/ xTaskNotifyFromISR(target)
  PROVE  ClockKept
<1>1. UNCHANGED <<xTickCount, pxDelayedTaskList, xItemValue, xSchedulerRunning>>
  BY DEF ResumeAll_MovePending, IncrementTick_Unblock, xTaskRemoveFromEventList, vTaskResume,
         xTaskNotify, xTaskResumeFromISR, xTaskNotifyFromISR
<1>2. mode' = mode \/ mode' = "halted"
  BY Zenon DEF ResumeAll_MovePending, IncrementTick_Unblock, xTaskRemoveFromEventList, vTaskResume,
         xTaskNotify, xTaskResumeFromISR, xTaskNotifyFromISR
<1>3. xNextTaskUnblockTime' \in {xNextTaskUnblockTime, EarliestWake(stateLists'[Current])}
  BY DEF ResumeAll_MovePending, IncrementTick_Unblock, xTaskRemoveFromEventList, vTaskResume,
         xTaskNotify, xTaskResumeFromISR, xTaskNotifyFromISR
<1>4. \/ UNCHANGED stateLists
      \/ \E t \in AllTasks : IsLinked(stateLists, t) /\ MoveToReady(t)
  <2>1. CASE ResumeAll_MovePending
    <3>1. HeadOwner(eventLists[PendingReadyList]) \in AllTasks
          /\ IsIn(eventLists, PendingReadyList, HeadOwner(eventLists[PendingReadyList]))
      BY <2>1, EmptyIff DEF ResumeAll_MovePending, PInv, ListsOK, EventListNames
    <3>2. MoveToReady(HeadOwner(eventLists[PendingReadyList]))
      BY <2>1, Zenon DEF ResumeAll_MovePending
    <3>3. IsLinked(stateLists, HeadOwner(eventLists[PendingReadyList]))
      BY <3>1, ReadyOrBlocked
      DEF PInv, ListsOK, StateOK, CallsOK, EventsR, Created, NotifyPoints
    <3> QED BY <3>1, <3>2, <3>3
  <2>2. CASE IncrementTick_Unblock
    <3>1. Current \in StateListNames
      BY CurrentIsDelayed, DelayedNamesApart DEF PInv, Scalars
    <3>2. DueTask \in AllTasks /\ IsIn(stateLists, Current, DueTask) /\ MoveToReady(DueTask)
      BY <2>2, <3>1, EmptyIff DEF IncrementTick_Unblock, SomeTaskDue, DueTask, PInv, ListsOK, StateOK
    <3>3. IsLinked(stateLists, DueTask)
      BY <3>1, <3>2, LinkedIff DEF PInv, ListsOK, StateOK
    <3> QED BY <3>2, <3>3
  <2>3. CASE xTaskRemoveFromEventList
    <3> DEFINE t == HeadOwner(eventLists[EventList])
    <3>1. t \in AllTasks /\ IsIn(eventLists, EventList, t)
      BY <2>3, EmptyIff DEF xTaskRemoveFromEventList, PInv, ListsOK, EventListNames
    <3>2. MoveToReady(t) \/ UNCHANGED stateLists
      BY <2>3, Zenon DEF xTaskRemoveFromEventList
    <3>3. IsLinked(stateLists, t)
      BY <3>1, ReadyOrBlocked DEF PInv, ListsOK, StateOK, CallsOK, EventsR
    <3> QED BY <3>1, <3>2, <3>3
  <2>4. ASSUME NEW t, NEW target \in Tasks,
               \/ vTaskResume(t, target) \/ xTaskNotify(t, target)
               \/ xTaskResumeFromISR(target) \/ xTaskNotifyFromISR(target)
        PROVE  UNCHANGED stateLists \/ (IsLinked(stateLists, target) /\ MoveToReady(target))
    <3>1. MoveToReady(target) \/ UNCHANGED stateLists
      BY <2>4, Zenon DEF vTaskResume, xTaskNotify, xTaskResumeFromISR, xTaskNotifyFromISR
    <3>2. IsLinked(stateLists, target)
      <4>1. IsIn(stateLists, SuspendedList, target) => IsLinked(stateLists, target)
        BY LinkedIff, DelayedNamesApart DEF PInv, ListsOK, StateOK
      <4>2. IsIn(stateLists, SuspendedList, target) \/ IsLinked(stateLists, target)
        BY <2>4, Zenon
        DEF vTaskResume, xTaskNotify, xTaskResumeFromISR, xTaskNotifyFromISR, TaskIsSuspended
      <4> QED BY <4>1, <4>2
    <3> QED BY <3>1, <3>2
  <2> QED BY <2>1, <2>2, <2>3, <2>4, Zenon DEF AllTasks
<1>5. Separate(stateLists', StateListNames) /\ ClockInv
  BY DEF PInv, ListsOK, StateOK, TimeInv
<1> QED BY <1>1, <1>2, <1>3, <1>4, <1>5, QuietClock, ReadiedClock

\* Steps that move a task between lists that are not delayed lists.
LEMMA MoveClock ==
  ASSUME PInv, TimeInv, PInv', NEW t \in Tasks, NEW target \in Tasks,
         vTaskSuspend(t, target) \/ \E p \in Priorities : vTaskPrioritySet(t, target, p)
  PROVE  ClockKept
<1>1. /\ UNCHANGED <<xTickCount, pxDelayedTaskList, xItemValue, xSchedulerRunning,
                     xNextTaskUnblockTime, mode>>
      /\ target \in AllTasks /\ IsLinked(stateLists, target)
      /\ Separate(stateLists, StateListNames) /\ Separate(stateLists', StateListNames)
      /\ ClockInv
  BY DEF vTaskSuspend, vTaskPrioritySet, AllTasks, PInv, ListsOK, StateOK, TimeInv
<1>2. \/ UNCHANGED stateLists
      \/ \E name \in StateListNames \ DelayedNames :
           stateLists' = LinkEnd(Unlink(stateLists, target), name, target)
  <2>1. CASE vTaskSuspend(t, target)
    BY <2>1, DelayedNamesApart DEF vTaskSuspend
  <2>2. CASE \E p \in Priorities : vTaskPrioritySet(t, target, p)
    <3>1. PICK p \in Priorities : vTaskPrioritySet(t, target, p)
      BY <2>2
    <3>2. \/ UNCHANGED stateLists
          \/ stateLists' = LinkEnd(Unlink(stateLists, target), ReadyList(p), target)
      BY <3>1, Zenon DEF vTaskPrioritySet
    <3> QED BY <3>2, DelayedNamesApart
  <2> QED BY <2>1, <2>2
<1>3. DelaysNobody
  BY <1>1, <1>2, MoveDelaysNobody, SameDelaysNobody DEF ClockInv
<1> QED BY <1>1, <1>3, NobodyDelayed

\* The context switch moves an index of a ready list.
LEMMA SwitchClock ==
  ASSUME PInv, TimeInv, PInv', vTaskSwitchContext
  PROVE  ClockKept
<1>1. /\ UNCHANGED <<xTickCount, pxDelayedTaskList, xItemValue, xSchedulerRunning,
                     xNextTaskUnblockTime>>
      /\ mode = "open"
  BY DEF vTaskSwitchContext
<1>2. \/ UNCHANGED stateLists
      \/ stateLists' = [stateLists EXCEPT ![ReadyList(Max(uxTopReadyPriority))] =
                          AdvanceIndex(stateLists[ReadyList(Max(uxTopReadyPriority))])]
  BY Zenon DEF vTaskSwitchContext
<1>3. ReadyList(Max(uxTopReadyPriority)) \notin DelayedNames
  BY DEF ReadyList, DelayedNames, DelayedList
<1>4. \A n \in DelayedNames : stateLists'[n] = stateLists[n]
  BY <1>2, <1>3, DelayedNamesApart DEF PInv, ListsOK, StateOK, Separate
<1> QED BY <1>1, <1>4, QuietClock DEF TimeInv, PInv, ListsOK, StateOK

\* The ticks, and the end of the loops.
LEMMA LoopsClock ==
  ASSUME PInv, TimeInv, PInv',
         Tick \/ ResumeAll_ReplayTick \/ ResumeAll_Leave \/ IncrementTick_Leave
  PROVE  ClockKept
<1>1. CASE Tick
  <2>1. CASE uxSchedulerSuspended = 0
    BY <1>1, <2>1, IncrementTickClock DEF Tick, TimeInv
  <2>2. CASE uxSchedulerSuspended # 0
    BY <1>1, <2>2, QuietClock DEF Tick, TimeInv, PInv, ListsOK, StateOK
  <2> QED BY <2>1, <2>2
<1>2. CASE ResumeAll_ReplayTick
  BY <1>2, IncrementTickClock DEF ResumeAll_ReplayTick, TimeInv
<1>3. CASE ResumeAll_Leave
  BY <1>3, QuietClock DEF ResumeAll_Leave, TimeInv, PInv, ListsOK, StateOK
<1>4. CASE IncrementTick_Leave
  BY <1>4, LeaveClock DEF TimeInv
<1> QED BY <1>1, <1>2, <1>3, <1>4

\* The idle task.  The step after a sleep relies on its margin.
LEMMA IdleClock ==
  ASSUME PInv, TimeInv, PInv', IdleTask, SleepMargin = 1
  PROVE  ClockKept
<1>1. CASE xTaskResumeAll(Idle)
  BY <1>1, CallsClock DEF AllTasks
<1>2. CASE Idle_Yield \/ Idle_SampleUnblockTime \/ Idle_SuspendAll \/ Idle_Sleep
  <2>1. UNCHANGED <<timeVars, stateLists, xSchedulerRunning, mode>>
    BY <1>2 DEF Idle_Yield, Idle_SampleUnblockTime, Idle_SuspendAll, Idle_Sleep
  <2> QED BY <2>1, QuietClock DEF TimeInv, PInv, ListsOK, StateOK
<1>3. CASE Idle_ConfirmIdleTime
  <2>1. UNCHANGED <<timeVars, stateLists, xSchedulerRunning>> /\ mode = "open"
    BY <1>3, Zenon DEF Idle_ConfirmIdleTime, AssertFails
  <2> QED BY <2>1, QuietClock DEF TimeInv, PInv, ListsOK, StateOK
<1>4. CASE vTaskStepTick
  <2>1. /\ pc[Idle] = "asleep" /\ mode = "open"
        /\ \/ UNCHANGED <<timeVars, stateLists, xSchedulerRunning>>
           \/ \E jump \in 0 .. arg[Idle] - SleepMargin :
                /\ xTickCount' = xTickCount + jump
                /\ UNCHANGED <<xNextTaskUnblockTime, pxDelayedTaskList, xItemValue, stateLists,
                               xSchedulerRunning>>
    BY <1>4, Zenon DEF vTaskStepTick, AssertFails
  <2>2. CASE UNCHANGED <<timeVars, stateLists, xSchedulerRunning>>
    BY <2>1, <2>2, QuietClock DEF TimeInv, PInv, ListsOK, StateOK
  <2>3. ASSUME NEW jump \in 0 .. arg[Idle] - SleepMargin,
               xTickCount' = xTickCount + jump,
               UNCHANGED <<xNextTaskUnblockTime, pxDelayedTaskList, xItemValue, stateLists,
                           xSchedulerRunning>>
        PROVE  ClockKept
    <3>1. /\ arg[Idle] \in Nat /\ xTickCount \in Nat /\ xNextTaskUnblockTime \in Nat
          /\ xTickCount + arg[Idle] <= xNextTaskUnblockTime
      BY <2>1, TasksAssumption DEF PInv, Scalars, Ticks, AllTasks, TimeInv, SleepsAlone, Sleeping
    <3>2. jump \in Nat /\ xTickCount + jump < xNextTaskUnblockTime
      BY <2>3, <3>1
    <3> QED BY <2>3, <3>2, StepTickClock DEF TimeInv
  <2> QED BY <2>1, <2>2, <2>3
<1> QED BY <1>1, <1>2, <1>3, <1>4 DEF IdleTask

\* Together.
LEMMA ClockStep ==
  ASSUME PInv, TimeInv, PInv', [Next]_vars, SleepMargin = 1
  PROVE  ClockKept
<1>1. ASSUME NEW t \in Tasks, CallInProgress(t) PROVE ClockKept
  <2>1. t \in AllTasks
    BY DEF AllTasks
  <2> QED BY <1>1, <2>1, BlockClock, CallsClock DEF CallInProgress
<1>2. ASSUME NEW t \in Tasks, NEW target \in Tasks, CallOn(t, target) PROVE ClockKept
  <2>1. t \in AllTasks /\ target \in AllTasks
    BY DEF AllTasks
  <2>2. CASE xTaskCreate(t, target)
    BY <2>1, <2>2, CreateClock DEF xTaskCreate
  <2>3. CASE vTaskResume(t, target) \/ xTaskNotify(t, target)
    BY <2>3, WakeClock
  <2>4. CASE vTaskSuspend(t, target) \/ \E p \in Priorities : vTaskPrioritySet(t, target, p)
    BY <2>4, MoveClock
  <2>5. CASE xTaskNotifyStateClear(t, target)
    BY <2>1, <2>5, CallsClock
  <2> QED BY <1>2, <2>2, <2>3, <2>4, <2>5 DEF CallOn
<1>3. ASSUME NEW t \in Tasks, NewCall(t) PROVE ClockKept
  <2>1. t \in AllTasks
    BY DEF AllTasks
  <2> QED BY <1>2, <1>3, <2>1, BlockClock, CallsClock DEF NewCall
<1>4. CASE \E t \in Tasks : CreateBeforeStart(t)
  BY <1>4, CreateClock DEF CreateBeforeStart, AllTasks
<1>5. CASE vTaskStartScheduler
  BY <1>5, StartClock
<1>6. CASE IdleTask
  BY <1>6, IdleClock
<1>7. CASE MaskedLoop
  BY <1>7, LoopsClock, WakeClock DEF MaskedLoop
<1>8. CASE InterruptHandler
  BY <1>8, LoopsClock, WakeClock DEF InterruptHandler
<1>9. CASE vTaskSwitchContext
  BY <1>9, SwitchClock
<1>10. CASE UNCHANGED vars
  BY <1>10, QuietClock DEF vars, TimeInv, PInv, ListsOK, StateOK
<1> QED BY <1>1, <1>3, <1>4, <1>5, <1>6, <1>7, <1>8, <1>9, <1>10 DEF Next
-----------------------------------------------------------------------------
(* Sleep *)

\* While the idle task sleeps no other task executes.
LEMMA AsleepAlone ==
  ASSUME PInv, pc[Idle] \in Sleeping
  PROVE  /\ pxCurrentTCB = Idle /\ uxSchedulerSuspended = 1 /\ xSchedulerRunning
         /\ \A t \in Tasks : pxCurrentTCB # t
<1>1. Idle \in AllTasks /\ pc[Idle] \in HoldingPoints
  BY DEF AllTasks, Sleeping, HoldingPoints
<1>2. pxCurrentTCB = Idle /\ uxSchedulerSuspended = 1
  BY <1>1 DEF PInv, CallsOK, SchedulerHeld
<1> QED BY <1>2, TasksAssumption DEF PInv, CallsOK, StartedR, Scalars

\* The idle task finds no other task ready when it is alone in its list and no
\* other list has a task.
LEMMA NoneReady ==
  ASSUME PInv, ~OthersReady, pxCurrentTCB = Idle, Ready(stateLists, Idle)
  PROVE  \A t \in Tasks : ~Ready(stateLists, t)
<1>1. SUFFICES ASSUME NEW t \in Tasks, NEW p \in Priorities, IsIn(stateLists, ReadyList(p), t)
               PROVE  FALSE
  BY DEF Ready
<1>2. t \in AllTasks /\ Idle \in AllTasks /\ t # Idle /\ 0 \in Priorities /\ Priorities \subseteq Nat
  BY TasksAssumption DEF AllTasks, Priorities
<1>3. stateLists[ReadyList(p)] \in ListOf(AllTasks) /\ ReadyList(p) \in StateListNames
  BY DelayedNamesApart DEF PInv, ListsOK, StateOK, Separate
<1>4. ~IsEmpty(stateLists[ReadyList(p)])
  BY <1>1, <1>2, <1>3, EmptyIff DEF PInv, ListsOK, StateOK
<1>5. p \in uxTopReadyPriority
  BY <1>4 DEF PInv, ListsOK, StateOK, TopReadyPriorityExact
<1>6. p = 0 /\ uxPriority[Idle] = 0
  <2>1. ~(p > 0) /\ ~(uxPriority[Idle] > 0)
    BY <1>5 DEF OthersReady
  <2>2. p \in Nat /\ uxPriority[Idle] \in Nat
    BY <1>2 DEF PInv, ListsOK, StateOK
  <2> QED BY <2>1, <2>2
<1>7. IsIn(stateLists, ReadyList(0), Idle)
  BY <1>2, <1>6 DEF Ready, PInv, ListsOK, StateOK, ReadyAtOwnPriority
<1> DEFINE s == stateLists[ReadyList(p)].items
<1>8. s \in Seq(AllTasks) /\ Len(s) \in Nat /\ t \in ToSet(s) /\ Idle \in ToSet(s)
  BY <1>1, <1>3, <1>6, <1>7, ListFields DEF IsIn
<1>9. ~(Len(s) > 1)
  BY <1>6 DEF OthersReady
<1> HIDE DEF s
<1>10. PICK j, k \in 1 .. Len(s) : s[j] = t /\ s[k] = Idle
  BY <1>8, SeqPositions
<1>11. j = k
  BY <1>8, <1>9
<1> QED BY <1>2, <1>10, <1>11

\* Steps of the tasks: they take place while the idle task is not asleep.
LEMMA TasksSleep ==
  ASSUME PInv, NEW t \in Tasks, CreateBeforeStart(t) \/ CallInProgress(t) \/ NewCall(t)
  PROVE  SleepsAlone' /\ pc'[Idle] \notin Sleeping
<1>1. pc[Idle] \notin Sleeping
  <2>1. ~xSchedulerRunning \/ pxCurrentTCB = t
    BY DEF CreateBeforeStart,
      CallInProgress, Delay_AddToList, DelayUntil_AddToList, vTaskPlaceOnEventList,
      Suspend_ResetUnblockTime, Notify_Return, xTaskResumeAll, Yield,
      NewCall, vTaskDelay, vTaskDelayUntil, BlockOnEvent, BeginBlocking, xTaskGetTickCount,
      vTaskSuspendAll, ulTaskNotifyTake, xTaskNotifyWait, WaitForNotification,
      CallOn, xTaskCreate, vTaskSuspend, vTaskResume, xTaskNotify, xTaskNotifyStateClear,
      vTaskPrioritySet
  <2> QED BY <2>1, AsleepAlone
<1>2. pc' = pc \/ \E u \in Tasks : \E to : pc' = [pc EXCEPT ![u] = to]
  BY DEF CreateBeforeStart, AddNewTask,
      CallInProgress, Delay_AddToList, DelayUntil_AddToList, vTaskPlaceOnEventList,
      Suspend_ResetUnblockTime, Notify_Return, xTaskResumeAll, Yield,
      NewCall, vTaskDelay, vTaskDelayUntil, BlockOnEvent, BeginBlocking, xTaskGetTickCount,
      vTaskSuspendAll, ulTaskNotifyTake, xTaskNotifyWait, WaitForNotification,
      CallOn, xTaskCreate, vTaskSuspend, vTaskResume, xTaskNotify, xTaskNotifyStateClear,
      vTaskPrioritySet
<1>3. pc'[Idle] = pc[Idle]
  BY <1>2, TasksAssumption DEF PInv, Scalars, AllTasks
<1> QED BY <1>1, <1>3 DEF SleepsAlone

\* Interrupts during the sleep ready nobody and move the next wake time only to
\* the head of the delayed list.
LEMMA InterruptsSleep ==
  ASSUME PInv, TimeInv, InterruptHandler \/ vTaskSwitchContext \/ MaskedLoop \/ UNCHANGED vars
  PROVE  SleepsAlone'
<1>1. pc' = pc /\ arg' = arg
  BY Zenon DEF InterruptHandler, Tick, IncrementTick, AssertFails, xTaskRemoveFromEventList,
      xTaskResumeFromISR, xTaskNotifyFromISR, vTaskSwitchContext, MaskedLoop,
      ResumeAll_MovePending, ResumeAll_ReplayTick, ResumeAll_Leave, IncrementTick_Unblock,
      IncrementTick_Leave, vars
<1> SUFFICES ASSUME pc[Idle] \in Sleeping PROVE SleepsAlone'
  BY <1>1 DEF SleepsAlone
<1>2. uxSchedulerSuspended = 1 /\ uxSchedulerSuspended # 0
  BY AsleepAlone
<1>3. /\ \A t \in Tasks : ~Ready(stateLists, t)
      /\ arg[Idle] # 0
      /\ xTickCount + arg[Idle] <= xNextTaskUnblockTime
  BY DEF TimeInv, SleepsAlone
<1>4. ~MaskedLoop
  BY <1>2 DEF MaskedLoop, ResumeAll_MovePending, ResumeAll_ReplayTick, ResumeAll_Leave,
      IncrementTick_Unblock, IncrementTick_Leave, Unblocking, TimeInv, LoopsUnsuspended
<1>5. /\ UNCHANGED <<stateLists, xTickCount>>
      /\ xNextTaskUnblockTime' \in {xNextTaskUnblockTime, EarliestWake(stateLists[Current])}
  <2>1. CASE InterruptHandler
    BY <1>2, <2>1, Zenon
    DEF InterruptHandler, Tick, xTaskRemoveFromEventList, xTaskResumeFromISR, xTaskNotifyFromISR
  <2>2. CASE vTaskSwitchContext
    BY <1>2, <2>2, Zenon DEF vTaskSwitchContext
  <2> QED BY <1>4, <2>1, <2>2 DEF vars
<1>6. xTickCount + arg[Idle] <= EarliestWake(stateLists[Current])
  <2> DEFINE wake == EarliestWake(stateLists[Current])
  <2>1. /\ wake \in Ticks
        /\ \/ wake = MaxDelay
           \/ \E u \in AllTasks : IsIn(stateLists, Current, u) /\ wake = xItemValue[u]
    BY EarliestWakeBounds, CurrentIsDelayed
    DEF PInv, Scalars, ListsOK, StateOK, TimeInv, ClockInv, DelayedInOrder
  <2>2. \A u \in AllTasks : IsIn(stateLists, Current, u) => xNextTaskUnblockTime <= xItemValue[u]
    BY DEF TimeInv, ClockInv, UnblockTimeBounds
  <2>3. /\ xNextTaskUnblockTime \in 0 .. MaxDelay /\ MaxDelay \in Nat /\ wake \in 0 .. MaxDelay
        /\ xTickCount \in Nat /\ arg[Idle] \in Nat
    BY <2>1, TasksAssumption DEF PInv, Scalars, Ticks, AllTasks
  <2> HIDE DEF wake
  <2>4. xNextTaskUnblockTime <= wake
    BY <2>1, <2>2, <2>3
  <2>5. xTickCount + arg[Idle] <= wake
    BY <1>3, <2>3, <2>4
  <2> QED BY <2>5 DEF wake
<1> QED BY <1>1, <1>3, <1>5, <1>6 DEF SleepsAlone, Ready, IsIn

\* The idle task goes to sleep until xNextTaskUnblockTime when nobody else is ready.
LEMMA IdleSleep ==
  ASSUME PInv, TimeInv, IdleTask \/ vTaskStartScheduler
  PROVE  SleepsAlone'
<1>0. Idle \in AllTasks /\ pc \in [AllTasks -> CallPoints] /\ arg \in [AllTasks -> Ticks]
  BY DEF AllTasks, PInv, Scalars
<1>1. CASE vTaskStartScheduler \/ Idle_Yield \/ Idle_SampleUnblockTime \/ Idle_SuspendAll
             \/ xTaskResumeAll(Idle)
  <2>1. pc'[Idle] \notin Sleeping
    BY <1>0, <1>1 DEF vTaskStartScheduler, AddNewTask, Idle_Yield, Idle_SampleUnblockTime,
       Idle_SuspendAll, xTaskResumeAll, Sleeping
  <2> QED BY <2>1 DEF SleepsAlone
<1>2. CASE Idle_ConfirmIdleTime
  <2>1. /\ pc[Idle] = "idleConfirm" /\ pxCurrentTCB = Idle /\ mode = "open" /\ xSchedulerRunning
        /\ ~pendSV
    BY <1>2 DEF Idle_ConfirmIdleTime
  <2> DEFINE expected == IF OthersReady THEN 0 ELSE xNextTaskUnblockTime - xTickCount
  <2>2. \/ pc' = pc
        \/ pc' = [pc EXCEPT ![Idle] = "idleResumeAll"]
        \/ /\ expected >= IdleThreshold /\ arg' = [arg EXCEPT ![Idle] = expected]
           /\ UNCHANGED <<timeVars, stateLists>>
    BY <1>2, Zenon DEF Idle_ConfirmIdleTime, AssertFails
  <2>3. CASE /\ expected >= IdleThreshold /\ arg' = [arg EXCEPT ![Idle] = expected]
             /\ UNCHANGED <<timeVars, stateLists>>
    <3>1. ~OthersReady /\ expected = xNextTaskUnblockTime - xTickCount
      BY <2>3, TasksAssumption
    <3>2. xNextTaskUnblockTime \in Nat /\ xTickCount \in Nat
      BY TasksAssumption DEF PInv, Scalars, Ticks
    <3>3. arg'[Idle] = expected /\ expected # 0
      BY <1>0, <2>3, <3>1, <3>2, TasksAssumption
    <3>4. xTickCount' + arg'[Idle] <= xNextTaskUnblockTime'
      BY <2>3, <3>1, <3>2, <3>3
    <3>5. Ready(stateLists, Idle)
      BY <1>0, <2>1, CurrentIsReady
    <3>6. \A t \in Tasks : ~Ready(stateLists', t)
      BY <2>1, <2>3, <3>1, <3>5, NoneReady DEF Ready, IsIn
    <3> QED BY <3>3, <3>4, <3>6 DEF SleepsAlone
  <2>4. CASE pc' = pc \/ pc' = [pc EXCEPT ![Idle] = "idleResumeAll"]
    BY <1>0, <2>1, <2>4 DEF SleepsAlone, Sleeping
  <2> QED BY <2>2, <2>3, <2>4
<1>3. CASE Idle_Sleep
  <2>1. /\ pc[Idle] = "idleSleep" /\ UNCHANGED <<timeVars, stateLists>>
        /\ \/ UNCHANGED arg
           \/ pc' = [pc EXCEPT ![Idle] = "idleResumeAll"]
    BY <1>3, Zenon DEF Idle_Sleep
  <2> QED BY <1>0, <2>1 DEF SleepsAlone, Sleeping, TimeInv, Ready, IsIn
<1>4. CASE vTaskStepTick
  <2>1. /\ pc[Idle] = "asleep"
        /\ \/ UNCHANGED <<timeVars, stateLists, pc, arg>>
           \/ pc' = [pc EXCEPT ![Idle] = "idleResumeAll"]
    BY <1>4, Zenon DEF vTaskStepTick, AssertFails
  <2> QED BY <1>0, <2>1 DEF SleepsAlone, Sleeping, TimeInv, Ready, IsIn
<1> QED BY <1>1, <1>2, <1>3, <1>4 DEF IdleTask
-----------------------------------------------------------------------------
(* The invariant *)

\* The scheduler is suspended only by steps outside the loops.
LEMMA LoopsStep ==
  ASSUME PInv, TimeInv, [Next]_vars
  PROVE  LoopsUnsuspended'
<1>1. ASSUME NEW t, CallInProgress(t) \/ NewCall(t) \/ CreateBeforeStart(t) PROVE LoopsUnsuspended'
  <2>1. CASE xTaskResumeAll(t)
    BY <2>1 DEF xTaskResumeAll, LoopsUnsuspended, PInv, Scalars
  <2>2. CASE ~xTaskResumeAll(t)
    <3>1. \/ mode' = mode /\ UNCHANGED uxSchedulerSuspended
          \/ mode' \in {"open", "halted"}
      BY <1>1, <2>2
      DEF CreateBeforeStart,
      CallInProgress, Delay_AddToList, DelayUntil_AddToList, vTaskPlaceOnEventList,
      Suspend_ResetUnblockTime, Notify_Return, Yield,
      NewCall, vTaskDelay, vTaskDelayUntil, BlockOnEvent, BeginBlocking, xTaskGetTickCount,
      vTaskSuspendAll, ulTaskNotifyTake, xTaskNotifyWait, WaitForNotification,
      CallOn, xTaskCreate, vTaskSuspend, vTaskResume, xTaskNotify, xTaskNotifyStateClear,
      vTaskPrioritySet
    <3> QED BY <3>1 DEF TimeInv, LoopsUnsuspended
  <2> QED BY <2>1, <2>2
<1>2. CASE IdleTask
  <2>1. CASE xTaskResumeAll(Idle)
    BY <2>1 DEF xTaskResumeAll, LoopsUnsuspended, PInv, Scalars
  <2>2. CASE ~xTaskResumeAll(Idle)
    <3>1. mode' \in {"open", "halted"}
      BY <1>2, <2>2, Zenon
      DEF IdleTask, Idle_Yield, Idle_SampleUnblockTime, Idle_SuspendAll,
      Idle_ConfirmIdleTime, Idle_Sleep, vTaskStepTick, AssertFails
    <3> QED BY <3>1 DEF LoopsUnsuspended
  <2> QED BY <2>1, <2>2
<1>3. CASE MaskedLoop
  <2>1. uxSchedulerSuspended = 0
    BY <1>3 DEF MaskedLoop, ResumeAll_MovePending, ResumeAll_ReplayTick, ResumeAll_Leave,
      IncrementTick_Unblock, IncrementTick_Leave, Unblocking, TimeInv, LoopsUnsuspended
  <2>2. UNCHANGED uxSchedulerSuspended
    BY <1>3, Zenon DEF MaskedLoop, ResumeAll_MovePending, ResumeAll_ReplayTick, ResumeAll_Leave,
      IncrementTick_Unblock, IncrementTick_Leave, IncrementTick, AssertFails
  <2> QED BY <2>1, <2>2 DEF LoopsUnsuspended
<1>4. CASE InterruptHandler
  <2>1. CASE Tick
    <3>1. UNCHANGED uxSchedulerSuspended /\ (uxSchedulerSuspended = 0 \/ mode' = "open")
      BY <2>1, Zenon DEF Tick, IncrementTick, AssertFails
    <3> QED BY <3>1 DEF LoopsUnsuspended
  <2>2. CASE ~Tick
    <3>1. mode' \in {"open", "halted"}
      BY <1>4, <2>2, Zenon
      DEF InterruptHandler, xTaskRemoveFromEventList, xTaskResumeFromISR, xTaskNotifyFromISR
    <3> QED BY <3>1 DEF LoopsUnsuspended
  <2> QED BY <2>1, <2>2
<1>5. CASE vTaskSwitchContext
  <2>1. mode' \in {"open", "halted"}
    BY <1>5, Zenon DEF vTaskSwitchContext
  <2> QED BY <2>1 DEF LoopsUnsuspended
<1>6. CASE UNCHANGED vars \/ vTaskStartScheduler
  BY <1>6 DEF TimeInv, LoopsUnsuspended, vars, vTaskStartScheduler
<1> QED BY <1>1, <1>2, <1>3, <1>4, <1>5, <1>6 DEF Next

\* The calls that block are begun with a wait that is not zero.
LEMMA WaitsStep ==
  ASSUME PInv, TimeInv, [Next]_vars
  PROVE  WaitsPositive'
<1>0. /\ pc \in [AllTasks -> CallPoints] /\ arg \in [AllTasks -> Ticks] /\ Tasks \subseteq AllTasks
      /\ Idle \notin Tasks
  BY TasksAssumption DEF PInv, Scalars, AllTasks
<1>1. ASSUME NEW t \in Tasks, vTaskDelay(t) \/ vTaskDelayUntil(t) \/ BlockOnEvent(t)
      PROVE  WaitsPositive'
  <2>1. \E n \in Delays \cup {MaxDelay} : \E next :
          pc' = [pc EXCEPT ![t] = next] /\ arg' = [arg EXCEPT ![t] = n]
    BY <1>1 DEF vTaskDelay, vTaskDelayUntil, BlockOnEvent, BeginBlocking
  <2>2. \A n \in Delays \cup {MaxDelay} : n # 0
    BY TasksAssumption
  <2> QED BY <1>0, <2>1, <2>2 DEF TimeInv, WaitsPositive
<1>2. ASSUME NEW u \in AllTasks, NEW to, to \notin {"delay", "placeOnEventList"},
             \/ arg' = arg /\ (pc' = pc \/ pc' = [pc EXCEPT ![u] = to])
             \/ arg' = [arg EXCEPT ![u] = 0] /\ pc' = [pc EXCEPT ![u] = to]
      PROVE  WaitsPositive'
  BY <1>0, <1>2 DEF TimeInv, WaitsPositive
<1>3. ASSUME NEW t \in Tasks, CallInProgress(t) \/ NewCall(t) \/ CreateBeforeStart(t),
             ~(vTaskDelay(t) \/ vTaskDelayUntil(t) \/ BlockOnEvent(t))
      PROVE  WaitsPositive'
  <2>0. t \in AllTasks
    BY <1>0
  <2>1. CASE Delay_AddToList(t) \/ DelayUntil_AddToList(t) \/ vTaskPlaceOnEventList(t)
    <3>1. pc' = [pc EXCEPT ![t] = "resumeAll"] /\ arg' = [arg EXCEPT ![t] = 0]
      BY <2>1 DEF Delay_AddToList, DelayUntil_AddToList, vTaskPlaceOnEventList
    <3> QED BY <1>2, <2>0, <3>1
  <2>2. CASE \/ Suspend_ResetUnblockTime(t) \/ Notify_Return(t) \/ xTaskResumeAll(t) \/ Yield(t)
            \/ xTaskGetTickCount(t) \/ vTaskSuspendAll(t)
    <3>1. /\ arg' = arg
          /\ \/ pc' = pc \/ pc' = [pc EXCEPT ![t] = "run"] \/ pc' = [pc EXCEPT ![t] = "yield"]
             \/ pc' = [pc EXCEPT ![t] = "idle"]
      BY <2>2 DEF Suspend_ResetUnblockTime, Notify_Return, xTaskResumeAll, Yield,
        xTaskGetTickCount, vTaskSuspendAll
    <3> QED BY <1>2, <2>0, <3>1
  <2>3. CASE ulTaskNotifyTake(t) \/ xTaskNotifyWait(t)
    <3>1. /\ arg' = arg
          /\ pc' = [pc EXCEPT ![t] = "notifyTake"] \/ pc' = [pc EXCEPT ![t] = "notifyWait"]
      BY <2>3 DEF ulTaskNotifyTake, xTaskNotifyWait, WaitForNotification
    <3> QED BY <1>2, <2>0, <3>1
  <2>4. CASE CreateBeforeStart(t) \/ \E target \in Tasks : xTaskCreate(t, target)
    <3>1. /\ arg' = arg
          /\ \E u \in Tasks : \/ pc' = [pc EXCEPT ![u] = "run"]
                              \/ pc' = [pc EXCEPT ![u] = "idle"]
      BY <2>4 DEF CreateBeforeStart, xTaskCreate, AddNewTask
    <3> QED BY <1>0, <1>2, <3>1
  <2>5. CASE \E target \in Tasks : CallOn(t, target) /\ ~xTaskCreate(t, target)
    <3>1. /\ arg' = arg
          /\ \/ pc' = pc \/ pc' = [pc EXCEPT ![t] = "suspendedSelf"]
             \/ pc' = [pc EXCEPT ![t] = "suspendedOther"]
      BY <2>5 DEF CallOn, vTaskSuspend, vTaskResume, xTaskNotify, xTaskNotifyStateClear,
        vTaskPrioritySet
    <3> QED BY <1>2, <2>0, <3>1
  <2> QED BY <1>3, <2>1, <2>2, <2>3, <2>4, <2>5 DEF CallInProgress, NewCall
<1>4. CASE InterruptHandler \/ vTaskSwitchContext \/ MaskedLoop \/ UNCHANGED vars
  <2>1. pc' = pc /\ arg' = arg
    BY <1>4, Zenon DEF InterruptHandler, Tick, IncrementTick, AssertFails, xTaskRemoveFromEventList,
      xTaskResumeFromISR, xTaskNotifyFromISR, vTaskSwitchContext, MaskedLoop,
      ResumeAll_MovePending, ResumeAll_ReplayTick, ResumeAll_Leave, IncrementTick_Unblock,
      IncrementTick_Leave, vars
  <2> QED BY <2>1 DEF TimeInv, WaitsPositive
<1>5. CASE IdleTask \/ vTaskStartScheduler
  <2>1. /\ pc' = pc \/ \E to : pc' = [pc EXCEPT ![Idle] = to]
        /\ arg' = arg \/ \E n : arg' = [arg EXCEPT ![Idle] = n]
    BY <1>5, Zenon
    DEF vTaskStartScheduler, AddNewTask, IdleTask, Idle_Yield, Idle_SampleUnblockTime,
      Idle_SuspendAll, xTaskResumeAll, Idle_ConfirmIdleTime, Idle_Sleep, vTaskStepTick, AssertFails
  <2> QED BY <1>0, <2>1 DEF TimeInv, WaitsPositive
<1> QED BY <1>1, <1>2, <1>3, <1>4, <1>5 DEF Next

\* Together, for the margin of one tick that the sleep keeps.
LEMMA TimeStep ==
  ASSUME PInv, TimeInv, [Next]_vars, SleepMargin = 1
  PROVE  TimeInv'
<1>1. PInv'
  BY NextKeepsPInv
<1>2. ClockInv'
  BY <1>1, ClockStep DEF ClockKept
<1>3. SleepsAlone'
  BY TasksSleep, InterruptsSleep, IdleSleep DEF Next
<1> QED BY <1>2, <1>3, LoopsStep, WaitsStep DEF TimeInv

\* The invariant holds at boot.
LEMMA TimeInit == Init => TimeInv
<1> SUFFICES ASSUME Init PROVE TimeInv
  OBVIOUS
<1>1. /\ PInv /\ \A n \in StateListNames : stateLists[n] = vListInitialise
      /\ \A n \in StateListNames, t \in AllTasks : ~IsIn(stateLists, n, t)
  <2>1. \A n \in StateListNames : stateLists[n] = vListInitialise
    BY DEF Init
  <2> QED BY <2>1, InitPInv, EmptyList DEF IsIn
<1>2. DelayedInOrder
  <2>1. Len(vListInitialise.items) = 0
    BY EmptySeq DEF vListInitialise
  <2>2. \A n \in DelayedNames : Len(stateLists[n].items) = 0
    BY <1>1, <2>1, DelayedNamesApart
  <2> QED BY <2>2 DEF DelayedInOrder, Ordered
<1>3. Current \in StateListNames /\ Overflow \in StateListNames
  BY <1>1, CurrentIsDelayed, DelayedNamesApart DEF PInv, Scalars
<1>4. ClockInv
  BY <1>1, <1>2, <1>3, DelayedNamesApart
  DEF ClockInv, NoneBeforeStart, UnblockTimeBounds, CurrentAhead, OverflowBehind, Init
<1> QED BY <1>4 DEF TimeInv, LoopsUnsuspended, WaitsPositive, SleepsAlone, Sleeping, Init, AllTasks
-----------------------------------------------------------------------------
(* What the time invariant says of the properties *)

\* The invariant holds in every state, for the margin of one tick that the sleep
\* keeps.
LEMMA TimeInvariant ==
  ASSUME SleepMargin = 1
  PROVE  Spec => [](PInv /\ TimeInv)
<1>1. Init => PInv /\ TimeInv
  BY InitPInv, TimeInit
<1>2. PInv /\ TimeInv /\ [Next]_vars => PInv' /\ TimeInv'
  BY NextKeepsPInv, TimeStep
<1> QED BY <1>1, <1>2, PTL DEF Spec

\* No delay lasts too long: whenever tasks run, no delayed task is past its wake
\* time, whatever ticks were held back, replayed or slept through, and those beyond
\* the wrap of the count wait in the other list (xTaskIncrementTick, vTaskStepTick).
THEOREM NoDelayOverrun ==
  ASSUME SleepMargin = 1
  PROVE  Spec => []NoTaskOverdue
<1>1. PInv /\ TimeInv => NoTaskOverdue
  <2> SUFFICES ASSUME PInv, TimeInv, mode = "open", NEW t \in AllTasks
               PROVE  /\ IsIn(stateLists, Current, t) => xTickCount + 1 <= xItemValue[t]
                      /\ IsIn(stateLists, Overflow, t) => xItemValue[t] < xTickCount
    BY DEF NoTaskOverdue
  <2>1. xTickCount \in Nat /\ xItemValue[t] \in Nat
    BY TasksAssumption DEF PInv, Scalars, Ticks
  <2> QED BY <2>1 DEF TimeInv, ClockInv, CurrentAhead, OverflowBehind
<1> QED BY <1>1, TimeInvariant, PTL

\* The processor sleeps only with no task ready but the idle task, and no longer than
\* until the next wake time (prvIdleTask, vApplicationSleep).
THEOREM SleepsInTime ==
  ASSUME SleepMargin = 1
  PROVE  Spec => []SleepsOnlyWhenIdle
<1>1. TimeInv => SleepsOnlyWhenIdle
  BY DEF TimeInv, SleepsAlone, Sleeping, SleepsOnlyWhenIdle, IsReady, Ready
<1> QED BY <1>1, TimeInvariant, PTL
-----------------------------------------------------------------------------
(* No configASSERT fails *)

Unlinked(t) == \A n \in EventListNames : ~IsIn(eventLists, n, t)

\* A task that is marked as waiting for a notification is in no event list.
WaitersUnlinked == \A t \in AllTasks : ucNotifyState[t] = "waiting" => Unlinked(t)

\* A step that links and marks nobody keeps them apart.
LEMMA NobodyLinked ==
  ASSUME WaitersUnlinked,
         \A t \in AllTasks : ucNotifyState'[t] = "waiting" => ucNotifyState[t] = "waiting",
         \A t \in AllTasks : Unlinked(t) => Unlinked(t)'
  PROVE  WaitersUnlinked'
BY DEF WaitersUnlinked

\* The steps of tasks.
LEMMA TasksUnlinked ==
  ASSUME PInv, WaitersUnlinked, NEW t \in Tasks, CreateBeforeStart(t) \/ CallInProgress(t) \/ NewCall(t)
  PROVE  WaitersUnlinked'
<1>0. t \in AllTasks /\ Tasks \subseteq AllTasks /\ ucNotifyState \in [AllTasks -> {"notWaiting", "waiting", "received"}]
      /\ Separate(eventLists, EventListNames)
  BY DEF AllTasks, PInv, Scalars, ListsOK
<1>1. CASE UNCHANGED <<eventLists, ucNotifyState>>
  BY <1>1 DEF WaitersUnlinked, Unlinked, IsIn
<1>2. CASE vTaskPlaceOnEventList(t)
  <2>1. pc[t] = "placeOnEventList" /\ UNCHANGED ucNotifyState
    BY <1>2 DEF vTaskPlaceOnEventList
  <2>2. ucNotifyState[t] # "waiting"
    BY <1>0, <2>1 DEF PInv, CallsOK, WaitersInNotifyCalls, NotifyPoints
  <2>3. Ready(stateLists, t)
    BY <1>0, <1>2, CurrentIsReady DEF vTaskPlaceOnEventList
  <2>4. Unlinked(t)
    BY <1>0, <2>1, <2>3, ReadyOrBlocked
    DEF PInv, CallsOK, ListsOK, StateOK, EventsR, EventListNames, NotifyPoints, Unlinked
  <2>5. Moved(eventLists, EventListNames, t, EventList, eventLists')
    BY <1>0, <1>2, <2>4, LinkByValueEffect DEF vTaskPlaceOnEventList, EventListNames, Unlinked
  <2>6. \A u \in AllTasks \ {t} : Unlinked(u) => Unlinked(u)'
    BY <2>5 DEF Moved, Unlinked, IsIn
  <2> QED BY <2>1, <2>2, <2>6 DEF WaitersUnlinked
<1>3. CASE (ulTaskNotifyTake(t) \/ xTaskNotifyWait(t)) /\ ~UNCHANGED <<eventLists, ucNotifyState>>
  <2>1. /\ Executes(t, "run") /\ UNCHANGED eventLists
        /\ ucNotifyState' = [ucNotifyState EXCEPT ![t] = "waiting"]
    BY <1>3 DEF ulTaskNotifyTake, xTaskNotifyWait, WaitForNotification
  <2>2. Ready(stateLists, t) /\ pc[t] = "run"
    BY <1>0, <2>1, CurrentIsReady
  <2>3. Unlinked(t)
    BY <1>0, <2>2, ReadyOrBlocked
    DEF PInv, CallsOK, ListsOK, StateOK, EventsR, EventListNames, NotifyPoints, Unlinked
  <2>4. \A u \in AllTasks : Unlinked(u) => Unlinked(u)'
    BY <2>1 DEF Unlinked, IsIn
  <2> QED BY <1>0, <2>1, <2>3, <2>4 DEF WaitersUnlinked
<1>4. CASE Notify_Return(t) \/ \E target \in Tasks : xTaskNotifyStateClear(t, target)
  <2>1. /\ UNCHANGED eventLists
        /\ \E u \in AllTasks : ucNotifyState' = [ucNotifyState EXCEPT ![u] = "notWaiting"]
    BY <1>0, <1>4 DEF Notify_Return, xTaskNotifyStateClear
  <2> QED BY <1>0, <2>1 DEF WaitersUnlinked, Unlinked, IsIn
<1>5. ASSUME NEW target \in Tasks, vTaskSuspend(t, target)
      PROVE  WaitersUnlinked'
  <2>1. eventLists' = UnlinkIfLinked(eventLists, target) /\ UNCHANGED ucNotifyState
    BY <1>5 DEF vTaskSuspend
  <2>2. Left(eventLists, EventListNames, target, eventLists')
    BY <1>0, <2>1, UnlinkIfLinkedEffect
  <2>3. \A u \in AllTasks : Unlinked(u) => Unlinked(u)'
    BY <2>2 DEF Left, Unlinked, IsIn
  <2> QED BY <2>1, <2>3 DEF WaitersUnlinked
<1>6. ASSUME NEW target \in Tasks, xTaskNotify(t, target)
      PROVE  WaitersUnlinked'
  <2>1. /\ UNCHANGED eventLists
        /\ UNCHANGED ucNotifyState \/ ucNotifyState' = [ucNotifyState EXCEPT ![target] = "received"]
    BY <1>6, Zenon DEF xTaskNotify, Receive
  <2> QED BY <1>0, <2>1 DEF WaitersUnlinked, Unlinked, IsIn
<1>7. CASE \/ CreateBeforeStart(t)
           \/ CallInProgress(t) /\ ~vTaskPlaceOnEventList(t) /\ ~Notify_Return(t)
           \/ vTaskDelay(t) \/ vTaskDelayUntil(t) \/ xTaskGetTickCount(t) \/ vTaskSuspendAll(t)
           \/ BlockOnEvent(t)
  BY <1>1, <1>7
  DEF CreateBeforeStart, CallInProgress, Delay_AddToList, DelayUntil_AddToList,
    Suspend_ResetUnblockTime, xTaskResumeAll, Yield, vTaskDelay, vTaskDelayUntil, BlockOnEvent,
    BeginBlocking, xTaskGetTickCount, vTaskSuspendAll
<1>8. CASE \E target \in Tasks :
             \/ xTaskCreate(t, target) \/ vTaskResume(t, target)
             \/ \E p \in Priorities : vTaskPrioritySet(t, target, p)
  BY <1>1, <1>8 DEF xTaskCreate, vTaskResume, vTaskPrioritySet
<1> QED BY <1>1, <1>2, <1>3, <1>4, <1>5, <1>6, <1>7, <1>8 DEF CallInProgress, NewCall, CallOn

\* The steps of the system.
LEMMA SystemUnlinked ==
  ASSUME PInv, WaitersUnlinked, "xTaskResumeFromISR" \notin Calls,
         MaskedLoop \/ InterruptHandler \/ IdleTask \/ vTaskStartScheduler \/ vTaskSwitchContext
  PROVE  WaitersUnlinked'
<1>0. /\ Tasks \subseteq AllTasks /\ Separate(eventLists, EventListNames)
      /\ ucNotifyState \in [AllTasks -> {"notWaiting", "waiting", "received"}]
  BY DEF AllTasks, PInv, Scalars, ListsOK
<1>1. CASE UNCHANGED <<eventLists, ucNotifyState>>
  BY <1>1 DEF WaitersUnlinked, Unlinked, IsIn
<1>2. CASE ResumeAll_MovePending \/ IncrementTick_Unblock
  <2>1. UNCHANGED ucNotifyState
    BY <1>2 DEF ResumeAll_MovePending, IncrementTick_Unblock
  <2>2. \E t \in AllTasks : Left(eventLists, EventListNames, t, eventLists')
    <3>1. CASE ResumeAll_MovePending
      <4> DEFINE t == HeadOwner(eventLists[PendingReadyList])
      <4>1. t \in AllTasks /\ IsIn(eventLists, PendingReadyList, t)
        BY <1>0, <3>1, EmptyIff DEF ResumeAll_MovePending, EventListNames
      <4>2. IsLinked(eventLists, t) /\ eventLists' = Unlink(eventLists, t)
        BY <1>0, <3>1, <4>1, LinkedIff DEF ResumeAll_MovePending, EventListNames
      <4> QED BY <1>0, <4>1, <4>2, UnlinkEffect
    <3>2. CASE IncrementTick_Unblock
      <4>1. Current \in StateListNames
        BY CurrentAndOverflow, StateListNamesDistinct DEF PInv, Scalars
      <4>2. DueTask \in AllTasks /\ eventLists' = UnlinkIfLinked(eventLists, DueTask)
        BY <3>2, <4>1, EmptyIff DEF IncrementTick_Unblock, SomeTaskDue, DueTask, PInv, ListsOK, StateOK
      <4> QED BY <1>0, <4>2, UnlinkIfLinkedEffect
    <3> QED BY <1>2, <3>1, <3>2
  <2>3. \A u \in AllTasks : Unlinked(u) => Unlinked(u)'
    BY <2>2 DEF Left, Unlinked, IsIn
  <2> QED BY <2>1, <2>3 DEF WaitersUnlinked
<1>3. CASE xTaskRemoveFromEventList
  <2> DEFINE t == HeadOwner(eventLists[EventList])
             left == Unlink(eventLists, t)
  <2>1. t \in AllTasks /\ IsIn(eventLists, EventList, t)
    BY <1>0, <1>3, EmptyIff DEF xTaskRemoveFromEventList, EventListNames
  <2>2. IsLinked(eventLists, t) /\ ~Unlinked(t)
    BY <1>0, <2>1, LinkedIff DEF EventListNames, Unlinked
  <2>3. /\ UNCHANGED ucNotifyState
        /\ eventLists' = left \/ eventLists' = LinkEnd(left, PendingReadyList, t)
    BY <1>3, Zenon DEF xTaskRemoveFromEventList
  <2>4. /\ Left(eventLists, EventListNames, t, left)
        /\ Moved(eventLists, EventListNames, t, PendingReadyList,
                 LinkEnd(left, PendingReadyList, t))
    BY <1>0, <2>1, <2>2, UnlinkEffect, MoveEffect DEF EventListNames
  <2>5. ASSUME NEW u \in AllTasks, Unlinked(u) PROVE Unlinked(u)'
    <3>1. CASE eventLists' = left
      BY <2>4, <2>5, <3>1 DEF Left, Unlinked, IsIn
    <3>2. CASE eventLists' = LinkEnd(left, PendingReadyList, t)
      BY <2>2, <2>4, <2>5, <3>2 DEF Moved, Unlinked, IsIn
    <3> QED BY <2>3, <3>1, <3>2
  <2> QED BY <2>3, <2>5 DEF WaitersUnlinked
<1>4. ASSUME NEW target \in Tasks, xTaskNotifyFromISR(target)
      PROVE  WaitersUnlinked'
  <2>1. CASE UNCHANGED <<eventLists, ucNotifyState>>
    BY <1>1, <2>1
  <2>2. CASE ~UNCHANGED <<eventLists, ucNotifyState>>
    <3>1. /\ ucNotifyState' = [ucNotifyState EXCEPT ![target] = "received"]
          /\ \/ UNCHANGED eventLists
             \/ /\ ~IsLinked(eventLists, target)
                /\ eventLists' = LinkEnd(eventLists, PendingReadyList, target)
      BY <1>4, <2>2, Zenon DEF xTaskNotifyFromISR, Receive
    <3>2. ASSUME NEW u \in AllTasks \ {target}, Unlinked(u) PROVE Unlinked(u)'
      <4>1. CASE UNCHANGED eventLists
        BY <3>2, <4>1 DEF Unlinked, IsIn
      <4>2. CASE ~UNCHANGED eventLists
        <5>1. \A n \in EventListNames : ~IsIn(eventLists, n, target)
          BY <1>0, <3>1, <4>2, LinkedIff
        <5>2. Moved(eventLists, EventListNames, target, PendingReadyList, eventLists')
          BY <1>0, <3>1, <4>2, <5>1, LinkEndEffect DEF EventListNames
        <5> QED BY <3>2, <5>2 DEF Moved, Unlinked, IsIn
      <4> QED BY <4>1, <4>2
    <3> QED BY <1>0, <3>1, <3>2 DEF WaitersUnlinked
  <2> QED BY <2>1, <2>2
<1>5. CASE \/ ResumeAll_ReplayTick \/ ResumeAll_Leave \/ IncrementTick_Leave \/ Tick
           \/ vTaskSwitchContext
  <2>1. UNCHANGED <<eventLists, ucNotifyState>>
    BY <1>5, Zenon
    DEF ResumeAll_ReplayTick, ResumeAll_Leave, IncrementTick_Leave, Tick, IncrementTick,
      AssertFails, vTaskSwitchContext
  <2> QED BY <1>1, <2>1
<1>6. CASE IdleTask \/ vTaskStartScheduler
  <2>1. UNCHANGED <<eventLists, ucNotifyState>>
    BY <1>6, Zenon
    DEF IdleTask, Idle_Yield, Idle_SampleUnblockTime, Idle_SuspendAll, Idle_ConfirmIdleTime,
      Idle_Sleep, vTaskStepTick, xTaskResumeAll, AssertFails, vTaskStartScheduler
  <2> QED BY <1>1, <2>1
<1>7. \A target \in Tasks : ~xTaskResumeFromISR(target)
  BY DEF xTaskResumeFromISR
<1> QED BY <1>2, <1>3, <1>4, <1>5, <1>6, <1>7 DEF MaskedLoop, InterruptHandler

\* A notification of a task that is marked finds its event item free.
LEMMA NotifyKeepsRunning ==
  ASSUME PInv, WaitersUnlinked, NEW target \in Tasks,
         xTaskNotifyFromISR(target) \/ \E t \in Tasks : xTaskNotify(t, target)
  PROVE  UNCHANGED failedAssert
<1>1. ucNotifyState[target] = "waiting" => ~IsLinked(eventLists, target)
  BY LinkedIff DEF WaitersUnlinked, Unlinked, AllTasks, PInv, ListsOK
<1> QED BY <1>1, Zenon DEF xTaskNotifyFromISR, xTaskNotify

\* The idle task finds the next wake time ahead of the count, and does not step over it.
LEMMA IdleKeepsRunning ==
  ASSUME PInv, TimeInv, IdleTask, SleepMargin = 1
  PROVE  UNCHANGED failedAssert
<1>1. /\ Idle \in AllTasks /\ xTickCount \in Nat /\ xNextTaskUnblockTime \in Nat
      /\ arg \in [AllTasks -> Nat]
  BY TasksAssumption DEF PInv, Scalars, Ticks, AllTasks
<1>2. CASE Idle_ConfirmIdleTime
  <2>1. mode = "open" /\ xSchedulerRunning
    BY <1>2 DEF Idle_ConfirmIdleTime
  <2>2. ~(xNextTaskUnblockTime < xTickCount)
    BY <1>1, <2>1 DEF TimeInv, ClockInv, CurrentAhead
  <2> QED BY <1>2, <2>2, Zenon DEF Idle_ConfirmIdleTime
<1>3. CASE vTaskStepTick
  <2>1. xTickCount + arg[Idle] <= xNextTaskUnblockTime
    BY <1>3 DEF vTaskStepTick, TimeInv, SleepsAlone, Sleeping
  <2>2. \A jump \in 0 .. arg[Idle] - SleepMargin : ~(xTickCount + jump > xNextTaskUnblockTime)
    BY <1>1, <2>1
  <2> QED BY <1>3, <2>2, Zenon DEF vTaskStepTick
<1>4. CASE \/ Idle_Yield \/ Idle_SampleUnblockTime \/ Idle_SuspendAll \/ Idle_Sleep
           \/ xTaskResumeAll(Idle)
  BY <1>4 DEF Idle_Yield, Idle_SampleUnblockTime, Idle_SuspendAll, Idle_Sleep, xTaskResumeAll
<1> QED BY <1>2, <1>3, <1>4 DEF IdleTask

\* No step makes a configASSERT fail.
LEMMA StepKeepsRunning ==
  ASSUME PInv, TimeInv, WaitersUnlinked, [Next]_vars, SleepMargin = 1,
         "xTaskResumeFromISR" \notin Calls
  PROVE  UNCHANGED failedAssert
<1>1. ASSUME NEW t \in Tasks, CreateBeforeStart(t) \/ CallInProgress(t) \/ NewCall(t)
      PROVE  UNCHANGED failedAssert
  <2>1. CASE \E target \in Tasks : xTaskNotify(t, target)
    BY <2>1, NotifyKeepsRunning
  <2>2. CASE CreateBeforeStart(t) \/ CallInProgress(t)
    BY <2>2 DEF CreateBeforeStart, CallInProgress, Delay_AddToList, DelayUntil_AddToList,
      vTaskPlaceOnEventList, Suspend_ResetUnblockTime, Notify_Return, xTaskResumeAll, Yield
  <2>3. CASE \/ vTaskDelay(t) \/ vTaskDelayUntil(t) \/ xTaskGetTickCount(t) \/ vTaskSuspendAll(t)
             \/ BlockOnEvent(t) \/ ulTaskNotifyTake(t) \/ xTaskNotifyWait(t)
    BY <2>3 DEF vTaskDelay, vTaskDelayUntil, BlockOnEvent, BeginBlocking, xTaskGetTickCount,
      vTaskSuspendAll, ulTaskNotifyTake, xTaskNotifyWait, WaitForNotification
  <2>4. CASE \E target \in Tasks : CallOn(t, target) /\ ~xTaskNotify(t, target)
    BY <2>4 DEF CallOn, xTaskCreate, vTaskSuspend, vTaskResume, xTaskNotifyStateClear,
      vTaskPrioritySet
  <2> QED BY <1>1, <2>1, <2>2, <2>3, <2>4 DEF NewCall
<1>2. CASE Tick
  <2>1. CASE uxSchedulerSuspended = 0
    BY <1>2, <2>1, IncrementTickClock DEF Tick, TimeInv
  <2>2. CASE uxSchedulerSuspended # 0
    BY <1>2, <2>2 DEF Tick
  <2> QED BY <2>1, <2>2
<1>3. CASE ResumeAll_ReplayTick
  BY <1>3, IncrementTickClock DEF ResumeAll_ReplayTick, TimeInv
<1>4. CASE \/ ResumeAll_MovePending \/ ResumeAll_Leave \/ IncrementTick_Unblock
           \/ IncrementTick_Leave \/ xTaskRemoveFromEventList \/ vTaskStartScheduler
           \/ UNCHANGED vars
  BY <1>4 DEF ResumeAll_MovePending, ResumeAll_Leave, IncrementTick_Unblock, IncrementTick_Leave,
    xTaskRemoveFromEventList, vTaskStartScheduler, vars
<1>5. CASE \E target \in Tasks : xTaskResumeFromISR(target) \/ xTaskNotifyFromISR(target)
  BY <1>5, NotifyKeepsRunning DEF xTaskResumeFromISR
<1>6. CASE vTaskSwitchContext
  BY <1>6, SwitchContextStep
<1> QED BY <1>1, <1>2, <1>3, <1>4, <1>5, <1>6, IdleKeepsRunning
        DEF Next, MaskedLoop, InterruptHandler

\* No configASSERT of the scheduler fails: the delayed list is empty when the lists are
\* switched, some task is ready at a switch, no sleep reaches past the next wake time,
\* and a notified task's event item is free.  The last one needs that interrupts do not
\* resume tasks: with xTaskResumeFromISR it can fail.
THEOREM NoConfigAssertFails ==
  ASSUME SleepMargin = 1, "xTaskResumeFromISR" \notin Calls
  PROVE  Spec => []NoAssertFails
<1>1. Init => WaitersUnlinked /\ NoAssertFails
  BY DEF Init, WaitersUnlinked, NoAssertFails
<1>2. PInv /\ TimeInv /\ WaitersUnlinked /\ NoAssertFails /\ [Next]_vars
        => WaitersUnlinked' /\ NoAssertFails'
  <2> SUFFICES ASSUME PInv, TimeInv, WaitersUnlinked, NoAssertFails, [Next]_vars
               PROVE  WaitersUnlinked' /\ NoAssertFails'
    OBVIOUS
  <2>1. WaitersUnlinked'
    <3>1. CASE UNCHANGED vars
      BY <3>1 DEF WaitersUnlinked, Unlinked, IsIn, vars
    <3>2. CASE Next
      BY <3>2, TasksUnlinked, SystemUnlinked DEF Next
    <3> QED BY <3>1, <3>2
  <2>2. NoAssertFails'
    BY StepKeepsRunning DEF NoAssertFails
  <2> QED BY <2>1, <2>2
<1> QED BY <1>1, <1>2, TimeInvariant, PTL DEF Spec
-----------------------------------------------------------------------------
(* Time as a property of steps *)

\* The time that a delayed task has left goes down with the ticks, and with nothing
\* else, through the wrap of the count and the steps after a sleep.
THEOREM DelaysKeepTime ==
  ASSUME SleepMargin = 1
  PROVE  Spec => TimeoutsKeepTime
<1>1. PInv /\ TimeInv /\ PInv' /\ [Next]_vars =>
        [\A t \in Tasks : IsDelayed(t) /\ IsDelayed(t)' =>
           Remaining(t)' = Remaining(t) - ((xTickCount' - xTickCount) % (MaxDelay + 1))]_vars
  BY ClockStep DEF ClockKept, TimesKept
<1> QED BY <1>1, TimeInvariant, PTL DEF Spec, TimeoutsKeepTime

\* Three counts modulo the wrap: the previous wake time, the next one a period of n ticks
\* later, and the present.
LEMMA PeriodArithmetic ==
  ASSUME NEW previous \in Ticks, NEW n \in Ticks, NEW now \in Ticks, NEW wake, NEW late,
         wake = (previous + n) % (MaxDelay + 1), late = (now - previous) % (MaxDelay + 1)
  PROVE  /\ wake \in Ticks
         /\ (IF now < previous THEN wake < previous /\ wake > now ELSE wake < previous \/ wake > now)
              <=> late < n
         /\ late < n => n - late = IF wake < now THEN wake + MaxDelay + 1 - now ELSE wake - now
<1>1. MaxDelay \in Nat /\ previous \in 0 .. MaxDelay /\ n \in 0 .. MaxDelay /\ now \in 0 .. MaxDelay
  BY TasksAssumption DEF Ticks
<1>2. wake = IF previous + n <= MaxDelay THEN previous + n ELSE previous + n - (MaxDelay + 1)
  <2>1. CASE previous + n <= MaxDelay
    BY <1>1, <2>1
  <2>2. CASE previous + n > MaxDelay
    BY <1>1, <2>2
  <2> QED BY <1>1, <2>1, <2>2
<1>3. late = IF now >= previous THEN now - previous ELSE now - previous + MaxDelay + 1
  <2>1. CASE now >= previous
    BY <1>1, <2>1
  <2>2. CASE now < previous
    BY <1>1, <2>2
  <2> QED BY <1>1, <2>1, <2>2
<1>4. wake \in Ticks
  BY <1>1, <1>2 DEF Ticks
<1>5. CASE now >= previous
  <2>1. late = now - previous
    BY <1>3, <1>5
  <2>2. CASE previous + n <= MaxDelay
    BY <1>1, <1>2, <1>4, <1>5, <2>1, <2>2
  <2>3. CASE previous + n > MaxDelay
    BY <1>1, <1>2, <1>4, <1>5, <2>1, <2>3
  <2> QED BY <1>1, <2>2, <2>3
<1>6. CASE now < previous
  <2>1. late = now - previous + MaxDelay + 1
    BY <1>1, <1>3, <1>6
  <2>2. CASE previous + n <= MaxDelay
    BY <1>1, <1>2, <1>4, <1>6, <2>1, <2>2
  <2>3. CASE previous + n > MaxDelay
    BY <1>1, <1>2, <1>4, <1>6, <2>1, <2>3
  <2> QED BY <1>1, <2>2, <2>3
<1> QED BY <1>1, <1>5, <1>6

\* To wait for the ticks up to a count is to wake at it.
LEMMA WakeAtCount ==
  ASSUME NEW wake \in Ticks, NEW now \in Ticks
  PROVE  (now + ((wake - now) % (MaxDelay + 1))) % (MaxDelay + 1) = wake
<1>1. MaxDelay \in Nat /\ wake \in 0 .. MaxDelay /\ now \in 0 .. MaxDelay
  BY TasksAssumption DEF Ticks
<1>2. CASE wake >= now
  <2>1. (wake - now) % (MaxDelay + 1) = wake - now
    BY <1>1, <1>2
  <2>2. now + (wake - now) = wake /\ wake % (MaxDelay + 1) = wake
    BY <1>1
  <2> QED BY <2>1, <2>2
<1>3. CASE wake < now
  <2>1. (wake - now) % (MaxDelay + 1) = wake - now + (MaxDelay + 1)
    BY <1>1, <1>3
  <2>2. now + (wake - now + (MaxDelay + 1)) = wake + (MaxDelay + 1)
        /\ (wake + (MaxDelay + 1)) % (MaxDelay + 1) = wake
    BY <1>1
  <2> QED BY <2>1, <2>2
<1> QED BY <1>1, <1>2, <1>3

\* Where prvAddCurrentTaskToDelayedList puts a task that does not wait for ever.
LEMMA AddedAtWakeTime ==
  ASSUME PInv, NEW t \in AllTasks, Ready(stateLists, t), NEW n \in Ticks,
         AddCurrentTaskToDelayedList(t, n, FALSE),
         NEW wake \in Ticks, wake = (xTickCount + n) % (MaxDelay + 1)
  PROVE  /\ UNCHANGED <<xTickCount, pxDelayedTaskList>> /\ xItemValue'[t] = wake
         /\ \A m \in DelayedNames :
              IsIn(stateLists', m, t) <=> m = IF wake < xTickCount THEN Overflow ELSE Current
<1> DEFINE left == Unlink(stateLists, t)
           target == IF wake < xTickCount THEN Overflow ELSE Current
<1>1. /\ Separate(stateLists, StateListNames) /\ IsLinked(stateLists, t)
      /\ xItemValue \in [AllTasks -> Ticks]
  BY ReadyOrBlocked DEF PInv, ListsOK, StateOK, Scalars
<1>2. /\ UNCHANGED <<xTickCount, pxDelayedTaskList>>
      /\ xItemValue' = [xItemValue EXCEPT ![t] = wake]
      /\ stateLists' = LinkByValue(left, target, xItemValue, t, wake)
  BY Zenon DEF AddCurrentTaskToDelayedList, WakesAfterWrap
<1>3. target \in DelayedNames /\ DelayedNames \subseteq StateListNames
  BY CurrentIsDelayed, DelayedNamesApart DEF PInv, Scalars
<1>4. /\ Separate(left, StateListNames) /\ Left(stateLists, StateListNames, t, left)
  BY <1>1, UnlinkEffect
<1> HIDE DEF left, target
<1>5. \A m \in StateListNames : ~IsIn(left, m, t)
  BY <1>4 DEF Left
<1>6. Moved(left, StateListNames, t, target, stateLists')
  BY <1>2, <1>3, <1>4, <1>5, LinkByValueEffect
<1>7. \A m \in DelayedNames : IsIn(stateLists', m, t) <=> m = target
  BY <1>3, <1>6 DEF Moved
<1> QED BY <1>1, <1>2, <1>7 DEF target

\* The step of vTaskDelayUntil that delays.
LEMMA DelayUntilKeepsPeriod ==
  ASSUME PInv, PInv', NEW t \in Tasks, DelayUntil_AddToList(t),
         NEW late, late = (xTickCount - pxPreviousWakeTime[t]) % (MaxDelay + 1)
  PROVE  /\ pxPreviousWakeTime[t]' = (pxPreviousWakeTime[t] + arg[t]) % (MaxDelay + 1)
         /\ IsDelayed(t)' <=> late < arg[t]
         /\ IsDelayed(t)' => Remaining(t)' = arg[t] - late
<1> DEFINE wake == (pxPreviousWakeTime[t] + arg[t]) % (MaxDelay + 1)
           n == (wake - xTickCount) % (MaxDelay + 1)
<1>1. /\ t \in AllTasks /\ arg[t] \in Ticks /\ xTickCount \in Ticks /\ pxPreviousWakeTime[t] \in Ticks
      /\ pxPreviousWakeTime \in [AllTasks -> Ticks] /\ Ready(stateLists, t)
  BY CurrentIsReady DEF AllTasks, PInv, Scalars, DelayUntil_AddToList
<1>2. wake \in Ticks /\ n \in Ticks
  BY <1>1, TickArithmetic DEF PInv
<1>3. pxPreviousWakeTime'[t] = wake
  BY <1>1 DEF DelayUntil_AddToList
<1>4. IF ShouldDelay(pxPreviousWakeTime[t], wake)
      THEN AddCurrentTaskToDelayedList(t, n, FALSE)
      ELSE UNCHANGED <<timeVars, stateLists>>
  BY Zenon DEF DelayUntil_AddToList
<1>5. /\ ShouldDelay(pxPreviousWakeTime[t], wake) <=> late < arg[t]
      /\ late < arg[t] => arg[t] - late = IF wake < xTickCount THEN wake + MaxDelay + 1 - xTickCount
                                          ELSE wake - xTickCount
  BY <1>1, PeriodArithmetic DEF ShouldDelay
<1>6. wake = (xTickCount + n) % (MaxDelay + 1)
  BY <1>1, <1>2, WakeAtCount
<1> HIDE DEF wake, n
<1>7. CASE ShouldDelay(pxPreviousWakeTime[t], wake)
  <2>1. /\ UNCHANGED <<xTickCount, pxDelayedTaskList>> /\ xItemValue'[t] = wake
        /\ \A m \in DelayedNames :
             IsIn(stateLists', m, t) <=> m = IF wake < xTickCount THEN Overflow ELSE Current
    BY <1>1, <1>2, <1>4, <1>6, <1>7, AddedAtWakeTime
  <2>2. /\ Current \in DelayedNames /\ Overflow \in DelayedNames /\ Current # Overflow
        /\ Current' = Current /\ Overflow' = Overflow
    BY <2>1, CurrentIsDelayed DEF PInv, Scalars, Current, Overflow
  <2>3. IsIn(stateLists', Current', t) <=> ~(wake < xTickCount)
    BY <2>1, <2>2
  <2>4. IsIn(stateLists', Overflow', t) <=> wake < xTickCount
    BY <2>1, <2>2
  <2>5. IsDelayed(t)'
    BY <2>3, <2>4 DEF IsDelayed
  <2>6. Remaining(t)' = IF wake < xTickCount THEN wake + MaxDelay + 1 - xTickCount ELSE wake - xTickCount
    BY <2>1, <2>3 DEF Remaining
  <2> QED BY <1>3, <1>5, <1>7, <2>5, <2>6 DEF wake
<1>8. CASE ~ShouldDelay(pxPreviousWakeTime[t], wake)
  <2>1. ~IsDelayed(t)
    BY <1>1, ReadyOrBlocked, BlockedAreInBlockedLists
    DEF Blocked, IsDelayed, IsBlocked, PInv, ListsOK, StateOK, Scalars
  <2>2. ~IsDelayed(t)'
    BY <1>4, <1>8, <2>1 DEF IsDelayed, Current, Overflow, IsIn
  <2> QED BY <1>3, <1>5, <1>8, <2>2 DEF wake
<1> QED BY <1>7, <1>8

\* A task leaves vTaskDelayUntil's suspended section by that step alone.
LEMMA DelayUntilLeaves ==
  ASSUME PInv, [Next]_vars, NEW t \in Tasks, pc[t] = "delayUntil", pc'[t] # "delayUntil"
  PROVE  DelayUntil_AddToList(t)
<1>0. /\ pc \in [AllTasks -> CallPoints] /\ Tasks \subseteq AllTasks /\ t # Idle
      /\ pc' # pc
  BY TasksAssumption DEF AllTasks, PInv, Scalars
<1>1. ASSUME NEW u, NEW to, pc' = [pc EXCEPT ![u] = to] PROVE u = t
  BY <1>0, <1>1
<1>2. ASSUME NEW u \in Tasks, CreateBeforeStart(u) \/ CallInProgress(u) \/ NewCall(u)
      PROVE  DelayUntil_AddToList(t)
  <2>1. CASE CreateBeforeStart(u) \/ \E target \in Tasks : xTaskCreate(u, target)
    <3>1. \E v \in Tasks : pc[v] = "none" /\ \E to : pc' = [pc EXCEPT ![v] = to]
      BY <2>1 DEF CreateBeforeStart, xTaskCreate, AddNewTask
    <3> QED BY <1>1, <3>1
  <2>2. CASE \/ Delay_AddToList(u) \/ vTaskPlaceOnEventList(u) \/ Suspend_ResetUnblockTime(u)
             \/ Notify_Return(u) \/ xTaskResumeAll(u) \/ Yield(u)
    <3>1. pc[u] # "delayUntil" /\ \E to : pc' \in {pc, [pc EXCEPT ![u] = to]}
      BY <2>2 DEF Delay_AddToList, vTaskPlaceOnEventList, Suspend_ResetUnblockTime, Notify_Return,
        xTaskResumeAll, Yield
    <3> QED BY <1>0, <1>1, <3>1
  <2>3. CASE \/ vTaskDelay(u) \/ vTaskDelayUntil(u) \/ xTaskGetTickCount(u) \/ vTaskSuspendAll(u)
             \/ ulTaskNotifyTake(u) \/ xTaskNotifyWait(u) \/ BlockOnEvent(u)
    <3>1. pc[u] # "delayUntil" /\ \E to : pc' \in {pc, [pc EXCEPT ![u] = to]}
      BY <2>3 DEF vTaskDelay, vTaskDelayUntil, BlockOnEvent, BeginBlocking, xTaskGetTickCount,
        vTaskSuspendAll, ulTaskNotifyTake, xTaskNotifyWait, WaitForNotification
    <3> QED BY <1>0, <1>1, <3>1
  <2>4. CASE \E target \in Tasks : CallOn(u, target) /\ ~xTaskCreate(u, target)
    <3>1. pc[u] # "delayUntil" /\ \E to : pc' \in {pc, [pc EXCEPT ![u] = to]}
      BY <2>4 DEF CallOn, vTaskSuspend, vTaskResume, xTaskNotify, xTaskNotifyStateClear,
        vTaskPrioritySet
    <3> QED BY <1>0, <1>1, <3>1
  <2>5. CASE DelayUntil_AddToList(u)
    <3>1. pc' = [pc EXCEPT ![u] = "resumeAll"]
      BY <2>5 DEF DelayUntil_AddToList
    <3> QED BY <1>1, <2>5, <3>1
  <2> QED BY <1>2, <2>1, <2>2, <2>3, <2>4, <2>5 DEF CallInProgress, NewCall, CallOn
<1>3. ~(InterruptHandler \/ vTaskSwitchContext \/ MaskedLoop \/ UNCHANGED vars)
  <2> SUFFICES ASSUME InterruptHandler \/ vTaskSwitchContext \/ MaskedLoop \/ UNCHANGED vars
               PROVE  pc' = pc
    BY <1>0
  <2> QED BY Zenon DEF InterruptHandler, Tick, IncrementTick, AssertFails, xTaskRemoveFromEventList,
      xTaskResumeFromISR, xTaskNotifyFromISR, vTaskSwitchContext, MaskedLoop,
      ResumeAll_MovePending, ResumeAll_ReplayTick, ResumeAll_Leave, IncrementTick_Unblock,
      IncrementTick_Leave, vars
<1>4. ~(IdleTask \/ vTaskStartScheduler)
  <2> SUFFICES ASSUME IdleTask \/ vTaskStartScheduler
               PROVE  pc' = pc \/ \E to : pc' = [pc EXCEPT ![Idle] = to]
    BY <1>0, <1>1
  <2> QED BY Zenon
    DEF vTaskStartScheduler, AddNewTask, IdleTask, Idle_Yield, Idle_SampleUnblockTime,
      Idle_SuspendAll, xTaskResumeAll, Idle_ConfirmIdleTime, Idle_Sleep, vTaskStepTick, AssertFails
<1> QED BY <1>2, <1>3, <1>4 DEF Next

\* vTaskDelayUntil keeps the period: it moves the previous wake time on by one period and
\* blocks until then just when less than a period has passed, however the count wrapped.
THEOREM PeriodsKept == Spec => PeriodKept
<1>1. PInv /\ PInv' /\ [Next]_vars =>
        [\A t \in Tasks :
           LET late == (xTickCount - pxPreviousWakeTime[t]) % (MaxDelay + 1)
           IN  pc[t] = "delayUntil" /\ pc[t]' # "delayUntil" =>
                 /\ pxPreviousWakeTime[t]' = (pxPreviousWakeTime[t] + arg[t]) % (MaxDelay + 1)
                 /\ IsDelayed(t)' <=> late < arg[t]
                 /\ IsDelayed(t)' => Remaining(t)' = arg[t] - late]_vars
  BY DelayUntilLeaves, DelayUntilKeepsPeriod
<1>2. IInv => PInv
  BY IInvUnfolds
<1> QED BY <1>1, <1>2, InductiveInvariant, PTL DEF Spec, PeriodKept
-----------------------------------------------------------------------------
(* Suspended tasks *)

\* A suspended task is in xSuspendedTaskList and in no event list.
SuspendedStay == \A t \in suspendCalls : IsIn(stateLists, SuspendedList, t) /\ Unlinked(t)

\* A step about task x leaves the other suspended tasks where they are.
Others(x) ==
  \A u \in AllTasks \ {x} :
    /\ IsIn(stateLists, SuspendedList, u) => IsIn(stateLists', SuspendedList, u)
    /\ Unlinked(u) => Unlinked(u)'

LEMMA OthersStay ==
  ASSUME PInv, SuspendedStay, NEW x, Others(x), suspendCalls' \subseteq suspendCalls,
         x \notin suspendCalls'
  PROVE  SuspendedStay'
BY DEF SuspendedStay, Others, PInv, Scalars

\* Steps that leave all items where they are.
LEMMA ItemsStay ==
  ASSUME SuspendedStay, UNCHANGED <<stateLists, eventLists>>, suspendCalls' \subseteq suspendCalls
  PROVE  SuspendedStay'
BY DEF SuspendedStay, Unlinked, IsIn

\* A task in another list of state items or in an event list is not a suspended one.
LEMMA NotSuspended ==
  ASSUME PInv, SuspendedStay, NEW t \in AllTasks,
         \/ Ready(stateLists, t) \/ \E n \in DelayedNames : IsIn(stateLists, n, t)
         \/ ~Unlinked(t) \/ pc[t] = "none"
  PROVE  t \notin suspendCalls
<1>1. SUFFICES ASSUME IsIn(stateLists, SuspendedList, t), Unlinked(t) PROVE FALSE
  BY DEF SuspendedStay
<1>2. SuspendedList \in BlockedNames
  BY DEF BlockedNames
<1>3. Blocked(stateLists, t)
  BY <1>1, <1>2 DEF Blocked
<1>4. ~Ready(stateLists, t) /\ pc[t] # "none"
  BY <1>3, ReadyOrBlocked DEF PInv, ListsOK, StateOK, CallsOK, Created
<1>5. \A n \in DelayedNames : ~IsIn(stateLists, n, t)
  BY <1>1, DelayedNamesApart DEF PInv, ListsOK, StateOK, Separate
<1> QED BY <1>1, <1>4, <1>5

\* Moving the state item of one task leaves the others in xSuspendedTaskList.
LEMMA MovedSparesOthers ==
  ASSUME NEW x, NEW name, Moved(stateLists, StateListNames, x, name, stateLists'),
         \A u \in AllTasks \ {x} : Unlinked(u) => Unlinked(u)'
  PROVE  Others(x)
BY DelayedNamesApart DEF Moved, Others

\* A task is readied, because it was resumed or was not suspended.
LEMMA ReadiedStay ==
  ASSUME PInv, SuspendedStay, NEW t \in AllTasks, IsLinked(stateLists, t), MoveToReady(t),
         suspendCalls' \subseteq suspendCalls, t \notin suspendCalls',
         \A u \in AllTasks \ {t} : Unlinked(u) => Unlinked(u)'
  PROVE  SuspendedStay'
<1>1. ReadyList(uxPriority[t]) \in StateListNames /\ Separate(stateLists, StateListNames)
  BY StateListNamesDistinct DEF PInv, ListsOK, StateOK
<1>2. Moved(stateLists, StateListNames, t, ReadyList(uxPriority[t]), stateLists')
  BY <1>1, MoveEffect DEF MoveToReady
<1> QED BY <1>2, MovedSparesOthers, OthersStay

\* Steps that wake a task.
LEMMA WokenStay ==
  ASSUME PInv, SuspendedStay,
         ResumeAll_MovePending \/ IncrementTick_Unblock \/ xTaskRemoveFromEventList
  PROVE  SuspendedStay'
<1>0. Separate(eventLists, EventListNames) /\ UNCHANGED suspendCalls
  BY DEF PInv, ListsOK, ResumeAll_MovePending, IncrementTick_Unblock, xTaskRemoveFromEventList
<1>1. ASSUME NEW name \in EventListNames, ~IsEmpty(eventLists[name])
      PROVE  LET t == HeadOwner(eventLists[name])
             IN  /\ t \in AllTasks /\ t \notin suspendCalls
                 /\ IsLinked(eventLists, t) /\ IsLinked(stateLists, t)
  <2> DEFINE t == HeadOwner(eventLists[name])
  <2>1. t \in AllTasks /\ IsIn(eventLists, name, t)
    BY <1>0, <1>1, EmptyIff
  <2>2. t \notin suspendCalls
    BY <2>1, NotSuspended DEF Unlinked
  <2>3. IsLinked(stateLists, t)
    BY <2>1, ReadyOrBlocked
    DEF PInv, ListsOK, StateOK, CallsOK, EventsR, Created, NotifyPoints, EventListNames
  <2> QED BY <1>0, <2>1, <2>2, <2>3, LinkedIff
<1>2. CASE ResumeAll_MovePending
  <2> DEFINE t == HeadOwner(eventLists[PendingReadyList])
  <2>1. /\ ~IsEmpty(eventLists[PendingReadyList]) /\ MoveToReady(t)
        /\ eventLists' = Unlink(eventLists, t)
    BY <1>2, Zenon DEF ResumeAll_MovePending
  <2>2. /\ t \in AllTasks /\ t \notin suspendCalls
        /\ IsLinked(eventLists, t) /\ IsLinked(stateLists, t)
    BY <1>1, <2>1 DEF EventListNames
  <2> HIDE DEF t
  <2>3. Left(eventLists, EventListNames, t, eventLists')
    BY <1>0, <2>1, <2>2, UnlinkEffect
  <2>4. \A u \in AllTasks \ {t} : Unlinked(u) => Unlinked(u)'
    BY <2>3 DEF Left, Unlinked, IsIn
  <2> QED BY <1>0, <2>1, <2>2, <2>4, ReadiedStay
<1>3. CASE IncrementTick_Unblock
  <2>1. Current \in StateListNames /\ Current \in DelayedNames
    BY CurrentIsDelayed, DelayedNamesApart DEF PInv, Scalars
  <2>2. DueTask \in AllTasks /\ IsIn(stateLists, Current, DueTask) /\ MoveToReady(DueTask)
    BY <1>3, <2>1, EmptyIff DEF IncrementTick_Unblock, SomeTaskDue, DueTask, PInv, ListsOK, StateOK
  <2>3. IsLinked(stateLists, DueTask)
    BY <2>1, <2>2, LinkedIff DEF PInv, ListsOK, StateOK
  <2>4. DueTask \notin suspendCalls
    BY <2>1, <2>2, NotSuspended
  <2>5. eventLists' = UnlinkIfLinked(eventLists, DueTask)
    BY <1>3 DEF IncrementTick_Unblock
  <2>6. Left(eventLists, EventListNames, DueTask, eventLists')
    BY <1>0, <2>2, <2>5, UnlinkIfLinkedEffect
  <2>7. \A u \in AllTasks \ {DueTask} : Unlinked(u) => Unlinked(u)'
    BY <2>6 DEF Left, Unlinked, IsIn
  <2> QED BY <1>0, <2>2, <2>3, <2>4, <2>7, ReadiedStay
<1>4. CASE xTaskRemoveFromEventList
  <2> DEFINE t == HeadOwner(eventLists[EventList])
             left == Unlink(eventLists, t)
  <2>1. /\ ~IsEmpty(eventLists[EventList])
        /\ \/ MoveToReady(t) /\ eventLists' = left
           \/ eventLists' = LinkEnd(left, PendingReadyList, t) /\ UNCHANGED stateLists
    BY <1>4, Zenon DEF xTaskRemoveFromEventList
  <2>2. /\ t \in AllTasks /\ t \notin suspendCalls
        /\ IsLinked(eventLists, t) /\ IsLinked(stateLists, t)
    BY <1>1, <2>1 DEF EventListNames
  <2>3. /\ Left(eventLists, EventListNames, t, left)
        /\ Moved(eventLists, EventListNames, t, PendingReadyList,
                 LinkEnd(left, PendingReadyList, t))
    BY <1>0, <2>2, UnlinkEffect, MoveEffect DEF EventListNames
  <2> HIDE DEF t, left
  <2>4. CASE MoveToReady(t) /\ eventLists' = left
    <3>1. \A u \in AllTasks \ {t} : Unlinked(u) => Unlinked(u)'
      BY <2>3, <2>4 DEF Left, Unlinked, IsIn
    <3> QED BY <1>0, <2>2, <2>4, <3>1, ReadiedStay
  <2>5. CASE eventLists' = LinkEnd(left, PendingReadyList, t) /\ UNCHANGED stateLists
    <3>1. Others(t)
      BY <2>3, <2>5 DEF Moved, Others, Unlinked, IsIn
    <3> QED BY <1>0, <2>2, <3>1, OthersStay
  <2> QED BY <2>1, <2>4, <2>5
<1> QED BY <1>2, <1>3, <1>4

\* A task that blocks is ready, so not suspended.
LEMMA BlockStay ==
  ASSUME PInv, SuspendedStay, NEW t \in Tasks,
         \/ Delay_AddToList(t) \/ DelayUntil_AddToList(t) \/ vTaskPlaceOnEventList(t)
         \/ ulTaskNotifyTake(t) \/ xTaskNotifyWait(t)
  PROVE  SuspendedStay'
<1>1. t \in AllTasks /\ Ready(stateLists, t)
  BY CurrentIsReady
  DEF AllTasks, Delay_AddToList, DelayUntil_AddToList, vTaskPlaceOnEventList, ulTaskNotifyTake,
      xTaskNotifyWait, WaitForNotification
<1>2. t \notin suspendCalls /\ IsLinked(stateLists, t)
  BY <1>1, NotSuspended, ReadyOrBlocked DEF PInv, ListsOK, StateOK
<1>3. /\ UNCHANGED <<suspendCalls, uxPriority>>
      /\ UNCHANGED stateLists \/ \E n, forever : AddCurrentTaskToDelayedList(t, n, forever)
  <2>1. CASE Delay_AddToList(t) \/ DelayUntil_AddToList(t) \/ vTaskPlaceOnEventList(t)
    BY <2>1, Zenon DEF Delay_AddToList, DelayUntil_AddToList, vTaskPlaceOnEventList
  <2>2. CASE ulTaskNotifyTake(t) \/ xTaskNotifyWait(t)
    BY <2>2, Zenon DEF ulTaskNotifyTake, xTaskNotifyWait, WaitForNotification
  <2> QED BY <2>1, <2>2
<1>4. \A u \in AllTasks \ {t} : Unlinked(u) => Unlinked(u)'
  <2>1. CASE UNCHANGED eventLists
    BY <2>1 DEF Unlinked, IsIn
  <2>2. CASE vTaskPlaceOnEventList(t)
    <3>1. pc[t] = "placeOnEventList"
      BY <2>2 DEF vTaskPlaceOnEventList
    <3>2. \A n \in EventListNames : ~IsIn(eventLists, n, t)
      BY <1>1, <3>1, ReadyOrBlocked
      DEF PInv, CallsOK, ListsOK, StateOK, EventsR, EventListNames, NotifyPoints
    <3>3. Moved(eventLists, EventListNames, t, EventList, eventLists')
      BY <1>1, <2>2, <3>2, LinkByValueEffect DEF vTaskPlaceOnEventList, EventListNames, PInv, ListsOK
    <3> QED BY <3>3 DEF Moved, Unlinked, IsIn
  <2> QED BY <2>1, <2>2
      DEF Delay_AddToList, DelayUntil_AddToList, ulTaskNotifyTake, xTaskNotifyWait,
          WaitForNotification
<1>5. Others(t)
  <2>1. CASE UNCHANGED stateLists
    BY <1>4, <2>1 DEF Others, IsIn
  <2>2. CASE \E n, forever : AddCurrentTaskToDelayedList(t, n, forever)
    <3>1. \E name \in BlockedNames : Moved(stateLists, StateListNames, t, name, stateLists')
      BY <1>1, <1>2, <1>3, <2>2, AddToDelayedListKeeps DEF PInv, ListsOK, Scalars
    <3> QED BY <1>4, <3>1, MovedSparesOthers
  <2> QED BY <1>3, <2>1, <2>2
<1> QED BY <1>2, <1>3, <1>5, OthersStay

\* vTaskSuspend takes its task out of every event list.
LEMMA SuspendStay ==
  ASSUME PInv, SuspendedStay, NEW t \in Tasks, NEW target \in Tasks, vTaskSuspend(t, target)
  PROVE  SuspendedStay'
<1>0. target \in AllTasks
  BY DEF AllTasks
<1>1. /\ stateLists' = LinkEnd(Unlink(stateLists, target), SuspendedList, target)
      /\ eventLists' = UnlinkIfLinked(eventLists, target)
      /\ IsLinked(stateLists, target) /\ suspendCalls' = suspendCalls \cup {target}
  BY DEF vTaskSuspend
<1>2. SuspendedList \in StateListNames /\ Separate(stateLists, StateListNames)
  BY DEF StateListNames, PInv, ListsOK, StateOK
<1>3. Moved(stateLists, StateListNames, target, SuspendedList, stateLists')
  BY <1>0, <1>1, <1>2, MoveEffect
<1>4. Left(eventLists, EventListNames, target, eventLists')
  BY <1>0, <1>1, UnlinkIfLinkedEffect DEF PInv, ListsOK
<1>5. IsIn(stateLists', SuspendedList, target) /\ Unlinked(target)'
  BY <1>0, <1>2, <1>3, <1>4 DEF Moved, Left, Unlinked
<1>6. \A u \in AllTasks \ {target} : Unlinked(u) => Unlinked(u)'
  BY <1>4 DEF Left, Unlinked
<1>7. Others(target)
  BY <1>3, <1>6, MovedSparesOthers
<1> QED BY <1>1, <1>5, <1>7 DEF SuspendedStay, Others, PInv, Scalars

\* vTaskResume and xTaskResumeFromISR end the suspension of their task.
LEMMA ResumeStay ==
  ASSUME PInv, SuspendedStay, NEW target \in Tasks,
         (\E t : vTaskResume(t, target)) \/ xTaskResumeFromISR(target)
  PROVE  SuspendedStay'
<1>0. target \in AllTasks
  BY DEF AllTasks
<1>1. /\ TaskIsSuspended(target) /\ suspendCalls' = suspendCalls \ {target}
      /\ \/ MoveToReady(target) /\ UNCHANGED eventLists
         \/ eventLists' = LinkEnd(eventLists, PendingReadyList, target) /\ UNCHANGED stateLists
  BY Zenon DEF vTaskResume, xTaskResumeFromISR
<1>2. /\ IsLinked(stateLists, target)
      /\ \A n \in EventListNames : ~IsIn(eventLists, n, target)
  BY <1>0, <1>1, LinkedIff DEF TaskIsSuspended, StateListNames, PInv, ListsOK, StateOK
<1>3. CASE MoveToReady(target) /\ UNCHANGED eventLists
  <2>1. \A u \in AllTasks \ {target} : Unlinked(u) => Unlinked(u)'
    BY <1>3 DEF Unlinked, IsIn
  <2> QED BY <1>0, <1>1, <1>2, <1>3, <2>1, ReadiedStay
<1>4. CASE eventLists' = LinkEnd(eventLists, PendingReadyList, target) /\ UNCHANGED stateLists
  <2>1. Moved(eventLists, EventListNames, target, PendingReadyList, eventLists')
    BY <1>0, <1>2, <1>4, LinkEndEffect DEF PInv, ListsOK, EventListNames
  <2>2. Others(target)
    BY <1>4, <2>1 DEF Moved, Others, Unlinked, IsIn
  <2> QED BY <1>1, <2>2, OthersStay
<1> QED BY <1>1, <1>3, <1>4

\* A change of priority moves ready tasks only, creation a new one.
LEMMA RelinkedStay ==
  ASSUME PInv, SuspendedStay, NEW target \in AllTasks,
         \/ \E t : \E p \in Priorities : vTaskPrioritySet(t, target, p)
         \/ AddNewTask(target) /\ UNCHANGED <<eventLists, uxPriority, suspendCalls>>
  PROVE  SuspendedStay'
<1>1. ASSUME NEW t, NEW p \in Priorities, vTaskPrioritySet(t, target, p)
      PROVE  SuspendedStay'
  <2>1. UNCHANGED <<eventLists, suspendCalls>>
    BY <1>1 DEF vTaskPrioritySet
  <2>2. CASE stateLists' = stateLists
    BY <2>1, <2>2, ItemsStay
  <2>3. CASE /\ IsIn(stateLists, ReadyList(uxPriority[target]), target)
             /\ Moved(stateLists, StateListNames, target, ReadyList(p), stateLists')
    <3>1. target \notin suspendCalls
      BY <2>3, NotSuspended DEF Ready, PInv, ListsOK, StateOK
    <3>2. \A u \in AllTasks \ {target} : Unlinked(u) => Unlinked(u)'
      BY <2>1 DEF Unlinked, IsIn
    <3> QED BY <2>1, <2>3, <3>1, <3>2, MovedSparesOthers, OthersStay
  <2> QED BY <1>1, <2>2, <2>3, PrioritySetKeeps DEF PInv, ListsOK
<1>2. CASE AddNewTask(target) /\ UNCHANGED <<eventLists, uxPriority, suspendCalls>>
  <2>1. pc[target] = "none"
    BY <1>2 DEF AddNewTask
  <2>2. target \notin suspendCalls /\ ~IsLinked(stateLists, target)
    BY <2>1, NotSuspended, ReadyOrBlocked DEF PInv, ListsOK, StateOK, CallsOK, Created
  <2>3. Moved(stateLists, StateListNames, target, ReadyList(uxPriority[target]), stateLists')
    BY <1>2, <2>2, CreateKeeps DEF PInv, ListsOK
  <2>4. \A u \in AllTasks \ {target} : Unlinked(u) => Unlinked(u)'
    BY <1>2 DEF Unlinked, IsIn
  <2> QED BY <1>2, <2>2, <2>3, <2>4, MovedSparesOthers, OthersStay
<1> QED BY <1>1, <1>2

\* The context switch selects a ready task, and moves no item.
LEMMA SwitchStay ==
  ASSUME PInv, SuspendedStay, vTaskSwitchContext
  PROVE  SuspendedStay' /\ (pxCurrentTCB' # pxCurrentTCB => pxCurrentTCB' \notin suspendCalls)
<1> DEFINE top == ReadyList(Max(uxTopReadyPriority))
<1>0. UNCHANGED <<eventLists, suspendCalls>> /\ xSchedulerRunning
  BY DEF vTaskSwitchContext
<1>1. CASE UNCHANGED <<stateLists, pxCurrentTCB>>
  BY <1>0, <1>1, ItemsStay
<1>2. CASE /\ uxSchedulerSuspended = 0
           /\ stateLists' = Advanced(stateLists, top)
           /\ pxCurrentTCB' = IndexOwner(AdvanceIndex(stateLists[top]))
  <2>1. Max(uxTopReadyPriority) \in Priorities /\ ~IsEmpty(stateLists[top])
    BY <1>0, TopReadyList DEF PInv, CallsOK, StartedR
  <2>2. top \in StateListNames /\ Separate(stateLists, StateListNames)
    BY <2>1, StateListNamesDistinct DEF PInv, ListsOK, StateOK
  <2> DEFINE new == Advanced(stateLists, top)
  <2> HIDE DEF top, new
  <2>3. /\ \A m \in StateListNames, u \in AllTasks : IsIn(new, m, u) <=> IsIn(stateLists, m, u)
        /\ IsIn(stateLists, top, pxCurrentTCB')
    BY <1>2, <2>1, <2>2, AdvanceEffect DEF new
  <2>4. SuspendedStay'
    BY <1>0, <1>2, <2>3 DEF SuspendedStay, Unlinked, IsIn, StateListNames, PInv, Scalars, new
  <2>5. pxCurrentTCB' \in AllTasks /\ Ready(stateLists, pxCurrentTCB')
    BY <1>2, <2>1, <2>3, SwitchContextStep DEF Ready, top
  <2> QED BY <2>4, <2>5, NotSuspended
<1> QED BY <1>1, <1>2, Zenon DEF vTaskSwitchContext, Advanced

\* Steps that leave the items where they are.
LEMMA QuietStay ==
  ASSUME SuspendedStay, NEW t,
         \/ UNCHANGED vars \/ IdleTask
         \/ ResumeAll_ReplayTick \/ ResumeAll_Leave \/ IncrementTick_Leave \/ Tick
         \/ Suspend_ResetUnblockTime(t) \/ Notify_Return(t) \/ xTaskResumeAll(t) \/ Yield(t)
         \/ vTaskDelay(t) \/ vTaskDelayUntil(t) \/ BlockOnEvent(t)
         \/ xTaskGetTickCount(t) \/ vTaskSuspendAll(t)
         \/ \E target \in Tasks : xTaskNotifyStateClear(t, target)
  PROVE  SuspendedStay' /\ UNCHANGED pxCurrentTCB
<1>1. UNCHANGED <<stateLists, eventLists, suspendCalls, pxCurrentTCB>>
  <2>1. CASE UNCHANGED vars \/ IdleTask
    BY <2>1, Zenon DEF vars, IdleTask, Idle_Yield, Idle_SampleUnblockTime, Idle_SuspendAll,
      Idle_ConfirmIdleTime, Idle_Sleep, vTaskStepTick, AssertFails, xTaskResumeAll
  <2>2. CASE ResumeAll_ReplayTick \/ ResumeAll_Leave \/ IncrementTick_Leave \/ Tick
    BY <2>2, Zenon DEF ResumeAll_ReplayTick, ResumeAll_Leave, IncrementTick_Leave, Tick,
      IncrementTick, AssertFails
  <2>3. CASE \/ Suspend_ResetUnblockTime(t) \/ Notify_Return(t) \/ xTaskResumeAll(t) \/ Yield(t)
    BY <2>3, Zenon DEF Suspend_ResetUnblockTime, Notify_Return, xTaskResumeAll, Yield
  <2>4. CASE vTaskDelay(t) \/ vTaskDelayUntil(t) \/ BlockOnEvent(t)
    BY <2>4, Zenon DEF vTaskDelay, vTaskDelayUntil, BlockOnEvent, BeginBlocking
  <2>5. CASE \/ xTaskGetTickCount(t) \/ vTaskSuspendAll(t)
             \/ \E target \in Tasks : xTaskNotifyStateClear(t, target)
    BY <2>5, Zenon DEF xTaskGetTickCount, vTaskSuspendAll, xTaskNotifyStateClear
  <2> QED BY <2>1, <2>2, <2>3, <2>4, <2>5
<1> QED BY <1>1, ItemsStay

LEMMA StepStay ==
  ASSUME PInv, SuspendedStay, [Next]_vars,
         "xTaskNotify" \notin Calls, "xTaskNotifyFromISR" \notin Calls
  PROVE  SuspendedStay' /\ (pxCurrentTCB' # pxCurrentTCB => pxCurrentTCB' \notin suspendCalls)
<1>0. Tasks \subseteq AllTasks /\ Idle \in AllTasks
  BY DEF AllTasks
<1>1. ASSUME NEW target \in AllTasks, AddNewTask(target),
             UNCHANGED <<eventLists, uxPriority, suspendCalls>>
      PROVE  SuspendedStay' /\ (pxCurrentTCB' # pxCurrentTCB => pxCurrentTCB' \notin suspendCalls)
  <2>1. target \notin suspendCalls /\ pxCurrentTCB' \in {pxCurrentTCB, target}
    BY <1>1, NotSuspended DEF AddNewTask
  <2> QED BY <1>1, <2>1, RelinkedStay
<1>2. ASSUME NEW t \in Tasks, CreateBeforeStart(t) \/ CallInProgress(t) \/ NewCall(t)
      PROVE  SuspendedStay' /\ (pxCurrentTCB' # pxCurrentTCB => pxCurrentTCB' \notin suspendCalls)
  <2>1. CASE CreateBeforeStart(t) \/ \E target \in Tasks : xTaskCreate(t, target)
    BY <1>0, <1>1, <2>1 DEF CreateBeforeStart, xTaskCreate
  <2>2. CASE \/ Delay_AddToList(t) \/ DelayUntil_AddToList(t) \/ vTaskPlaceOnEventList(t)
             \/ ulTaskNotifyTake(t) \/ xTaskNotifyWait(t)
    <3>1. UNCHANGED pxCurrentTCB
      BY <2>2, Zenon DEF Delay_AddToList, DelayUntil_AddToList, vTaskPlaceOnEventList,
        ulTaskNotifyTake, xTaskNotifyWait, WaitForNotification
    <3> QED BY <2>2, <3>1, BlockStay
  <2>3. CASE \/ Suspend_ResetUnblockTime(t) \/ Notify_Return(t) \/ xTaskResumeAll(t) \/ Yield(t)
             \/ vTaskDelay(t) \/ vTaskDelayUntil(t) \/ BlockOnEvent(t)
             \/ xTaskGetTickCount(t) \/ vTaskSuspendAll(t)
             \/ \E target \in Tasks : xTaskNotifyStateClear(t, target)
    BY <2>3, QuietStay
  <2>4. ASSUME NEW target \in Tasks,
               \/ vTaskSuspend(t, target) \/ vTaskResume(t, target)
               \/ \E p \in Priorities : vTaskPrioritySet(t, target, p)
        PROVE  SuspendedStay' /\ UNCHANGED pxCurrentTCB
    <3>1. UNCHANGED pxCurrentTCB
      BY <2>4, Zenon DEF vTaskSuspend, vTaskResume, vTaskPrioritySet
    <3>2. CASE vTaskSuspend(t, target)
      BY <3>1, <3>2, SuspendStay
    <3>3. CASE vTaskResume(t, target)
      BY <3>1, <3>3, ResumeStay
    <3>4. CASE \E p \in Priorities : vTaskPrioritySet(t, target, p)
      BY <1>0, <3>1, <3>4, RelinkedStay
    <3> QED BY <2>4, <3>2, <3>3, <3>4
  <2>5. ASSUME NEW target \in Tasks PROVE ~xTaskNotify(t, target)
    BY DEF xTaskNotify
  <2> QED BY <1>2, <2>1, <2>2, <2>3, <2>4, <2>5 DEF CallInProgress, NewCall, CallOn
<1>3. CASE vTaskStartScheduler
  BY <1>0, <1>1, <1>3 DEF vTaskStartScheduler
<1>4. CASE MaskedLoop \/ xTaskRemoveFromEventList
  <2>1. CASE ResumeAll_MovePending \/ IncrementTick_Unblock \/ xTaskRemoveFromEventList
    BY <2>1, WokenStay DEF ResumeAll_MovePending, IncrementTick_Unblock, xTaskRemoveFromEventList
  <2>2. CASE ResumeAll_ReplayTick \/ ResumeAll_Leave \/ IncrementTick_Leave
    BY <2>2, QuietStay
  <2> QED BY <1>4, <2>1, <2>2 DEF MaskedLoop
<1>5. CASE \E target \in Tasks : xTaskResumeFromISR(target) \/ xTaskNotifyFromISR(target)
  BY <1>5, ResumeStay DEF xTaskResumeFromISR, xTaskNotifyFromISR
<1>6. CASE IdleTask \/ Tick \/ UNCHANGED vars
  BY <1>6, QuietStay
<1> QED BY <1>2, <1>3, <1>4, <1>5, <1>6, SwitchStay DEF Next, InterruptHandler

\* Without notifications, a task that vTaskSuspend suspended gets no processor time before
\* it is resumed: no tick, no event and no other task's call takes it out of
\* xSuspendedTaskList.  (A notification does, when the task was suspended while waiting.)
THEOREM SuspensionHolds ==
  ASSUME "xTaskNotify" \notin Calls, "xTaskNotifyFromISR" \notin Calls
  PROVE  Spec => SuspendedNeverRuns
<1>1. Init => SuspendedStay
  BY DEF Init, SuspendedStay
<1>2. PInv /\ SuspendedStay /\ [Next]_vars => SuspendedStay'
  BY StepStay
<1>3. PInv /\ SuspendedStay /\ [Next]_vars =>
        [pxCurrentTCB' # pxCurrentTCB => pxCurrentTCB' \notin suspendCalls]_vars
  BY StepStay
<1>4. IInv => PInv
  BY IInvUnfolds
<1> QED BY <1>1, <1>2, <1>3, <1>4, InductiveInvariant, PTL DEF Spec, SuspendedNeverRuns
-----------------------------------------------------------------------------
(***************************************************************************)
(* The kernel implements the abstract scheduler of module Scheduler.  Each *)
(* step of the kernel is a step of that scheduler or goes unnoticed: what  *)
(* the abstract state says of a task depends only on the lists it is in,   *)
(* on its wake time and on whether it waits for something (Views), and a   *)
(* step moves one task at most.                                            *)
(***************************************************************************)

\* An event or a notification may end t's wait, if it is blocked.
Awaits(t) == ~Unlinked(t) \/ ucNotifyState[t] = "waiting"

\* What the refinement mapping says of a task, in terms of the lists it is in.
Views ==
  \A t \in AllTasks :
    /\ StateOf(t) \in {"none", "ready", "delayed", "blocked"}
    /\ StateOf(t) = "ready" <=> Ready(stateLists, t)
    /\ StateOf(t) = "delayed" <=> \E n \in DelayedNames : IsIn(stateLists, n, t)
    /\ StateOf(t) = "blocked" <=> IsIn(stateLists, SuspendedList, t)
    /\ StateOf(t) = "delayed" <=> IsDelayed(t)
    /\ StateOf(t) # "delayed" => LeftOf(t) = 0
    /\ t \in Waiting <=> Blocked(stateLists, t) /\ Awaits(t)

\* The invariant gives this reading of the mapping.
LEMMA ViewsHold == PInv => Views
<1> SUFFICES ASSUME PInv, NEW t \in AllTasks
             PROVE  /\ StateOf(t) \in {"none", "ready", "delayed", "blocked"}
                    /\ StateOf(t) = "ready" <=> Ready(stateLists, t)
                    /\ StateOf(t) = "delayed" <=> \E n \in DelayedNames : IsIn(stateLists, n, t)
                    /\ StateOf(t) = "blocked" <=> IsIn(stateLists, SuspendedList, t)
                    /\ StateOf(t) = "delayed" <=> IsDelayed(t)
                    /\ StateOf(t) # "delayed" => LeftOf(t) = 0
                    /\ t \in Waiting <=> Blocked(stateLists, t) /\ Awaits(t)
  BY DEF Views
<1>1. IsReady(t) <=> Ready(stateLists, t)
  BY DEF IsReady, Ready
<1>2. IsDelayed(t) <=> \E n \in DelayedNames : IsIn(stateLists, n, t)
  BY CurrentAndOverflow DEF IsDelayed, DelayedNames, PInv, Scalars
<1>3. /\ IsBlocked(t) <=> Blocked(stateLists, t)
      /\ Blocked(stateLists, t) <=> IsDelayed(t) \/ IsIn(stateLists, SuspendedList, t)
  BY <1>2, BlockedAreInBlockedLists DEF PInv, Scalars, Blocked, BlockedNames, DelayedNames
<1>4. ~(Ready(stateLists, t) /\ Blocked(stateLists, t))
  BY ReadyOrBlocked DEF PInv, ListsOK, StateOK
<1>5. ~(IsDelayed(t) /\ IsIn(stateLists, SuspendedList, t))
  BY <1>2, DelayedNamesApart DEF PInv, ListsOK, StateOK, Separate
<1>6. IsLinked(eventLists, t) <=> ~Unlinked(t)
  BY LinkedIff DEF PInv, ListsOK, Unlinked
<1> QED BY <1>1, <1>2, <1>3, <1>4, <1>5, <1>6 DEF StateOf, LeftOf, Waiting, Awaits

\* A step that leaves the abstract state of task t as it is, and its wake time,
SamePlace(t) ==
  /\ Ready(stateLists', t) <=> Ready(stateLists, t)
  /\ \A n \in BlockedNames : IsIn(stateLists', n, t) <=> IsIn(stateLists, n, t)
  /\ xItemValue'[t] = xItemValue[t]

\* and whether it waits for something.
SameWait(t) == Blocked(stateLists, t) => (Awaits(t)' <=> Awaits(t))

ClockStands == UNCHANGED <<xTickCount, pxDelayedTaskList>>

\* leaves what the abstract scheduler sees of t.
LEMMA SameView ==
  ASSUME PInv, PInv', ClockStands, NEW t \in AllTasks, SamePlace(t)
  PROVE  /\ StateOf(t)' = StateOf(t) /\ LeftOf(t)' = LeftOf(t)
         /\ SameWait(t) => (t \in Waiting' <=> t \in Waiting)
<1>1. Views /\ Views'
  <2>1. PInv' => Views'
    BY ViewsHold, PTL
  <2> QED BY <2>1, ViewsHold
<1>2. SuspendedList \in BlockedNames /\ DelayedNames \subseteq BlockedNames
  BY DEF BlockedNames, DelayedNames
<1>3. StateOf(t)' = StateOf(t)
  BY <1>1, <1>2 DEF Views, SamePlace
<1>4. LeftOf(t)' = LeftOf(t)
  <2>1. CASE StateOf(t) # "delayed"
    BY <1>1, <1>3, <2>1 DEF Views
  <2>2. CASE StateOf(t) = "delayed"
    <3>1. IsDelayed(t) /\ IsDelayed(t)'
      BY <1>1, <1>3, <2>2 DEF Views
    <3>2. Current' = Current /\ Current \in BlockedNames
      BY CurrentAndOverflow DEF ClockStands, Current, DelayedList, PInv, Scalars
    <3>3. Remaining(t)' = Remaining(t)
      BY <3>2 DEF Remaining, SamePlace, ClockStands
    <3> QED BY <3>1, <3>3 DEF LeftOf
  <2> QED BY <2>1, <2>2
<1>5. Blocked(stateLists', t) <=> Blocked(stateLists, t)
  BY DEF SamePlace, Blocked
<1>6. SameWait(t) => (t \in Waiting' <=> t \in Waiting)
  BY <1>1, <1>5 DEF Views, SameWait
<1> QED BY <1>3, <1>4, <1>6

\* A step that concerns task t alone.
LEMMA OneMoves ==
  ASSUME PInv, PInv', ClockStands, NEW t \in AllTasks,
         \A u \in AllTasks \ {t} : SamePlace(u) /\ SameWait(u)
  PROVE  Abstract!Enter(t, StateOf(t)', LeftOf(t)') /\ Waiting' \ {t} = Waiting \ {t}
<1>1. \A u \in AllTasks \ {t} :
        StateOf(u)' = StateOf(u) /\ LeftOf(u)' = LeftOf(u) /\ (u \in Waiting' <=> u \in Waiting)
  BY SameView
<1>2. Waiting \subseteq AllTasks /\ Waiting' \subseteq AllTasks
  BY DEF Waiting
<1> QED BY <1>1, <1>2 DEF Abstract!Enter

\* A step that concerns nobody.
LEMMA NoneMoves ==
  ASSUME PInv, PInv', ClockStands, \A u \in AllTasks : SamePlace(u) /\ SameWait(u)
  PROVE  /\ [t \in AllTasks |-> StateOf(t)]' = [t \in AllTasks |-> StateOf(t)]
         /\ [t \in AllTasks |-> LeftOf(t)]' = [t \in AllTasks |-> LeftOf(t)]
         /\ Waiting' = Waiting
<1>1. \A u \in AllTasks :
        StateOf(u)' = StateOf(u) /\ LeftOf(u)' = LeftOf(u) /\ (u \in Waiting' <=> u \in Waiting)
  BY SameView
<1>2. Waiting \subseteq AllTasks /\ Waiting' \subseteq AllTasks
  BY DEF Waiting
<1> QED BY <1>1, <1>2

-----------------------------------------------------------------------------
(* The steps of the abstract scheduler *)

\* What the abstract scheduler keeps besides the tasks' states.
RestStands == UNCHANGED <<xSchedulerRunning, uxPriority, pxCurrentTCB>>

Simulated == Abstract!Next \/ UNCHANGED Abstract!vars

\* Most steps go unnoticed.
LEMMA Unnoticed ==
  ASSUME PInv, PInv', ClockStands, RestStands, \A u \in AllTasks : SamePlace(u) /\ SameWait(u)
  PROVE  Simulated
BY NoneMoves DEF Simulated, RestStands, Abstract!vars

\* Which tasks are ready and which blocked, in terms of a move of one item.
LEMMA MovedPlaces ==
  ASSUME NEW t \in AllTasks, NEW name \in StateListNames,
         Moved(stateLists, StateListNames, t, name, stateLists')
  PROVE  \A u \in AllTasks \ {t} :
           /\ Ready(stateLists', u) <=> Ready(stateLists, u)
           /\ \A n \in BlockedNames : IsIn(stateLists', n, u) <=> IsIn(stateLists, n, u)
BY StateListNamesDistinct DEF Moved, Ready

\* A task is made ready: it was blocked, or was ready already and nobody notices.
LEMMA Readied ==
  ASSUME PInv, PInv', ClockStands, UNCHANGED xItemValue, UNCHANGED uxPriority,
         NEW t \in AllTasks, Ready(stateLists, t) \/ Blocked(stateLists, t), MoveToReady(t),
         \A u \in AllTasks \ {t} : SameWait(u)
  PROVE  IF Ready(stateLists, t)
         THEN \A u \in AllTasks : SamePlace(u) /\ SameWait(u)
         ELSE Abstract!Enter(t, "ready", 0) /\ Waiting' = Waiting \ {t}
<1>1. /\ Moved(stateLists, StateListNames, t, ReadyList(uxPriority[t]), stateLists')
      /\ ReadyList(uxPriority[t]) \in StateListNames /\ uxPriority[t] \in Priorities
  <2>1. IsLinked(stateLists, t)
    BY ReadyOrBlocked DEF PInv, ListsOK, StateOK
  <2> QED BY <2>1, MoveToReadyKeeps, StateListNamesDistinct DEF PInv, ListsOK, StateOK
<1>2. \A u \in AllTasks \ {t} : SamePlace(u)
  BY <1>1, MovedPlaces DEF SamePlace
<1>3. Ready(stateLists', t) /\ \A n \in BlockedNames : ~IsIn(stateLists', n, t)
  BY <1>1, MovedToReady DEF Blocked
<1>4. CASE Ready(stateLists, t)
  <2>1. ~Blocked(stateLists, t)
    BY <1>4, ReadyOrBlocked DEF PInv, ListsOK, StateOK
  <2>2. SamePlace(t) /\ SameWait(t)
    BY <1>3, <1>4, <2>1 DEF SamePlace, SameWait, Blocked
  <2> QED BY <1>2, <1>4, <2>2
<1>5. CASE ~Ready(stateLists, t)
  <2>1. Abstract!Enter(t, StateOf(t)', LeftOf(t)') /\ Waiting' \ {t} = Waiting \ {t}
    BY <1>2, OneMoves
  <2>2. Views'
    <3>1. PInv' => Views'
      BY ViewsHold, PTL
    <3> QED BY <3>1
  <2>3. StateOf(t)' = "ready" /\ LeftOf(t)' = 0 /\ t \notin Waiting'
    BY <1>3, <2>2 DEF Views, Blocked
  <2> QED BY <1>5, <2>1, <2>3
<1> QED BY <1>4, <1>5

\* A task that waits for an event or a notification is made ready.
LEMMA Woken ==
  ASSUME PInv, PInv', ClockStands, RestStands, UNCHANGED xItemValue, xSchedulerRunning,
         NEW t \in AllTasks, Ready(stateLists, t) \/ Blocked(stateLists, t), MoveToReady(t),
         Awaits(t), \A u \in AllTasks \ {t} : SameWait(u)
  PROVE  Simulated
<1>1. CASE Ready(stateLists, t)
  BY <1>1, Readied, Unnoticed DEF RestStands
<1>2. CASE ~Ready(stateLists, t)
  <2>1. Abstract!Enter(t, "ready", 0) /\ Waiting' = Waiting \ {t}
    BY <1>2, Readied DEF RestStands
  <2>2. t \in Waiting
    BY <1>2, ViewsHold DEF Views
  <2>3. Abstract!Wake(t)
    BY <2>1, <2>2 DEF Abstract!Wake, RestStands
  <2> QED BY <2>3 DEF Simulated, Abstract!Next
<1> QED BY <1>1, <1>2

\* Steps that leave all lists and the clock alone, and the marks of the waiting tasks.
LEMMA ListsUntouched ==
  ASSUME PInv, PInv', ClockStands, RestStands, UNCHANGED <<stateLists, eventLists, xItemValue>>,
         \A u \in AllTasks : Blocked(stateLists, u) =>
           (ucNotifyState'[u] = "waiting" <=> ucNotifyState[u] = "waiting")
  PROVE  Simulated
<1>1. \A u \in AllTasks : SamePlace(u) /\ SameWait(u)
  BY DEF SamePlace, SameWait, Awaits, Unlinked, Ready, Blocked
<1> QED BY <1>1, Unnoticed

-----------------------------------------------------------------------------
(* The steps that go unnoticed *)

\* The steps of a task that neither block nor ready one.
LEMMA TasksUnnoticed ==
  ASSUME PInv, PInv', NEW t \in AllTasks,
         \/ Suspend_ResetUnblockTime(t) \/ xTaskResumeAll(t) \/ Yield(t)
         \/ vTaskDelay(t) \/ vTaskDelayUntil(t) \/ BlockOnEvent(t)
         \/ xTaskGetTickCount(t) \/ vTaskSuspendAll(t)
         \/ Notify_Return(t) \/ \E target \in Tasks : xTaskNotifyStateClear(t, target)
  PROVE  Simulated
<1>1. ClockStands /\ RestStands /\ UNCHANGED <<stateLists, eventLists, xItemValue>>
  BY DEF ClockStands, RestStands, Suspend_ResetUnblockTime, xTaskResumeAll, Yield, vTaskDelay,
         vTaskDelayUntil, BlockOnEvent, BeginBlocking, xTaskGetTickCount, vTaskSuspendAll,
         Notify_Return, xTaskNotifyStateClear
<1>2. ASSUME NEW u \in AllTasks, Blocked(stateLists, u)
      PROVE  ucNotifyState'[u] = "waiting" <=> ucNotifyState[u] = "waiting"
  <2>1. CASE Notify_Return(t)
    <3>1. Executes(t, "notifyTake") \/ Executes(t, "notifyWait")
      BY <2>1 DEF Notify_Return
    <3>2. Ready(stateLists, t)
      BY <3>1, CurrentIsReady
    <3>3. u # t
      BY <1>2, <3>2, ReadyOrBlocked DEF PInv, ListsOK, StateOK
    <3> QED BY <2>1, <3>3 DEF Notify_Return, PInv, Scalars
  <2>2. CASE \E target \in Tasks : xTaskNotifyStateClear(t, target)
    BY <2>2 DEF xTaskNotifyStateClear, PInv, Scalars
  <2>3. CASE ~Notify_Return(t) /\ ~ \E target \in Tasks : xTaskNotifyStateClear(t, target)
    <3>1. UNCHANGED ucNotifyState
      BY <2>3 DEF Suspend_ResetUnblockTime, xTaskResumeAll, Yield, vTaskDelay,
         vTaskDelayUntil, BlockOnEvent, BeginBlocking, xTaskGetTickCount, vTaskSuspendAll
    <3> QED BY <3>1
  <2> QED BY <2>1, <2>2, <2>3
<1> QED BY <1>1, <1>2, ListsUntouched

\* Those of the loops and of the idle task, and failed assertions.
LEMMA SystemUnnoticed ==
  ASSUME PInv, PInv',
         \/ UNCHANGED vars \/ ResumeAll_Leave \/ IncrementTick_Leave
         \/ Idle_Yield \/ Idle_SampleUnblockTime \/ Idle_SuspendAll \/ Idle_ConfirmIdleTime
         \/ Idle_Sleep \/ \E what : AssertFails(what)
  PROVE  Simulated
<1>1. /\ ClockStands /\ RestStands
      /\ UNCHANGED <<stateLists, eventLists, xItemValue, ucNotifyState>>
  BY Zenon DEF ClockStands, RestStands, vars, ResumeAll_Leave, IncrementTick_Leave, Idle_Yield,
         Idle_SampleUnblockTime, Idle_SuspendAll, Idle_ConfirmIdleTime, Idle_Sleep, AssertFails
<1> QED BY <1>1, ListsUntouched
-----------------------------------------------------------------------------
(* Time *)

\* No task in the delayed list is past its wake time, whatever loop runs.
NotPast == \A t \in AllTasks : IsIn(stateLists, Current, t) => xTickCount <= xItemValue[t]

\* Only created tasks change the lists before the start, and the first to run is the
\* one that outranks the others.
FirstTask ==
  ~xSchedulerRunning =>
    /\ mode = "open"
    /\ pxCurrentTCB # NoTask => Ready(stateLists, pxCurrentTCB)
    /\ \A t \in AllTasks : Ready(stateLists, t) =>
         pxCurrentTCB # NoTask /\ uxPriority[t] <= uxPriority[pxCurrentTCB]

RefInv == PInv /\ TimeInv /\ NotPast /\ FirstTask

\* n ticks pass.
LEMMA TicksPass ==
  ASSUME PInv, PInv', RestStands, xSchedulerRunning, NEW n \in 1 .. MaxDelay,
         UNCHANGED <<stateLists, eventLists, ucNotifyState>>,
         (xTickCount' - xTickCount) % (MaxDelay + 1) = n, TimesKept,
         \A t \in Tasks : IsDelayed(t) => n <= Remaining(t)
  PROVE  Simulated
<1>1. Views /\ Views'
  <2>1. PInv' => Views'
    BY ViewsHold, PTL
  <2> QED BY <2>1, ViewsHold
<1>2. \A t \in AllTasks : StateOf(t)' = StateOf(t) /\ (t \in Waiting' <=> t \in Waiting)
  <2>1. \A t : (Ready(stateLists, t) <=> Ready(stateLists', t))
               /\ (Blocked(stateLists, t) <=> Blocked(stateLists', t))
               /\ (Awaits(t) <=> Awaits(t)')
    BY DEF Awaits, Unlinked
  <2> QED BY <1>1, <2>1 DEF Views
<1>3. Waiting' = Waiting
  BY <1>2 DEF Waiting
<1>4. \A t \in AllTasks : StateOf(t) = "delayed" => t \in Tasks
  <2>1. Ready(stateLists, Idle)
    BY DEF PInv, CallsOK, StartedR
  <2>2. StateOf(Idle) # "delayed"
    BY <1>1, <2>1 DEF Views, AllTasks
  <2> QED BY <2>2 DEF AllTasks
<1>5. \A t \in AllTasks :
        IF StateOf(t) = "delayed" THEN n <= LeftOf(t) /\ LeftOf(t)' = LeftOf(t) - n
        ELSE LeftOf(t)' = LeftOf(t)
  <2> SUFFICES ASSUME NEW t \in AllTasks
               PROVE  IF StateOf(t) = "delayed" THEN n <= LeftOf(t) /\ LeftOf(t)' = LeftOf(t) - n
                      ELSE LeftOf(t)' = LeftOf(t)
    OBVIOUS
  <2>1. CASE StateOf(t) # "delayed"
    BY <1>1, <1>2, <2>1 DEF Views
  <2>2. CASE StateOf(t) = "delayed"
    <3>1. IsDelayed(t) /\ IsDelayed(t)' /\ t \in Tasks
      BY <1>1, <1>2, <1>4, <2>2 DEF Views
    <3>2. n <= Remaining(t) /\ Remaining(t)' = Remaining(t) - n
      BY <3>1 DEF TimesKept
    <3> QED BY <2>2, <3>1, <3>2 DEF LeftOf
  <2> QED BY <2>1, <2>2
<1>6. Abstract!Pass(n)
  BY <1>2, <1>3, <1>5 DEF Abstract!Pass, RestStands
<1> QED BY <1>6 DEF Simulated, Abstract!Next

\* The tick, counted at once or replayed.
LEMMA TickSimulated ==
  ASSUME RefInv, PInv', TimeInv', Tick \/ ResumeAll_ReplayTick
  PROVE  Simulated
<1>1. mode \in {"open", "resume"} /\ xSchedulerRunning
  BY DEF Tick, ResumeAll_ReplayTick, RefInv, FirstTask
<1>2. CASE \E loop \in {"tick", "replay"}, done \in {"open", "resume"} : IncrementTick(loop, done)
  <2>1. PICK loop \in {"tick", "replay"}, done \in {"open", "resume"} : IncrementTick(loop, done)
    BY <1>2
  <2>2. CASE \E what : AssertFails(what)
    BY <2>2, SystemUnnoticed DEF RefInv
  <2>3. CASE ~ \E what : AssertFails(what)
    <3>1. /\ xTickCount' = NextTick
          /\ RestStands /\ UNCHANGED <<stateLists, eventLists, ucNotifyState>>
      BY <2>1, <2>3, Zenon DEF IncrementTick, RestStands
    <3>2. TimesKept
      BY <1>1, <2>1, IncrementTickClock DEF RefInv, TimeInv, ClockKept
    <3>3. 1 \in 1 .. MaxDelay /\ (xTickCount' - xTickCount) % (MaxDelay + 1) = 1
      BY <3>1, NextTickIs, TasksAssumption DEF RefInv, PInv, Scalars, Ticks
    <3>4. ASSUME NEW t \in Tasks, IsDelayed(t) PROVE 1 <= Remaining(t)
      <4>1. t \in AllTasks /\ xItemValue[t] \in 0 .. MaxDelay /\ xTickCount \in 0 .. MaxDelay
        BY DEF AllTasks, RefInv, PInv, Scalars, Ticks
      <4>2. IsIn(stateLists, Current, t) => xTickCount < xItemValue[t]
        BY <1>1, <4>1 DEF RefInv, TimeInv, ClockInv, CurrentAhead
      <4> QED BY <4>1, <4>2, TasksAssumption DEF Remaining
    <3> QED BY <1>1, <3>1, <3>2, <3>3, <3>4, TicksPass DEF RefInv
  <2> QED BY <2>2, <2>3
<1>3. CASE ~ \E loop \in {"tick", "replay"}, done \in {"open", "resume"} : IncrementTick(loop, done)
  <2>1. Tick /\ uxSchedulerSuspended # 0
    BY <1>3 DEF Tick, ResumeAll_ReplayTick
  <2>2. ClockStands /\ RestStands /\ UNCHANGED <<stateLists, eventLists, xItemValue, ucNotifyState>>
    BY <2>1, Zenon DEF Tick, ClockStands, RestStands
  <2> QED BY <2>2, ListsUntouched DEF RefInv
<1> QED BY <1>2, <1>3

\* The ticks of a sleep, none of them beyond the end of a delay.
LEMMA StepTickSimulated ==
  ASSUME RefInv, PInv', TimeInv', vTaskStepTick, SleepMargin = 1
  PROVE  Simulated
<1> USE DEF RefInv
<1>1. PICK xTicksToJump \in 0 .. arg[Idle] - SleepMargin :
        IF xTickCount + xTicksToJump > xNextTaskUnblockTime
        THEN AssertFails("stepped over the unblock time") /\ UNCHANGED uxPendedTicks
        ELSE /\ xTickCount' = xTickCount + xTicksToJump
             /\ Goto(Idle, "idleResumeAll") /\ SetArg(Idle, 0)
             /\ UNCHANGED <<xNextTaskUnblockTime, pxDelayedTaskList, xItemValue, listVars,
                            notifyVars, schedVars, cpuVars, pxPreviousWakeTime, restVars>>
  BY DEF vTaskStepTick
<1>2. CASE xTickCount + xTicksToJump > xNextTaskUnblockTime
  BY <1>1, <1>2, SystemUnnoticed
<1>3. CASE ~(xTickCount + xTicksToJump > xNextTaskUnblockTime)
  <2>1. /\ xTickCount' = xTickCount + xTicksToJump /\ UNCHANGED <<pxDelayedTaskList, xItemValue>>
        /\ RestStands /\ UNCHANGED <<stateLists, eventLists, ucNotifyState>>
    BY <1>1, <1>3 DEF RestStands
  <2>2. /\ xTicksToJump \in Nat /\ MaxDelay \in Nat /\ xTickCount \in Nat
        /\ xNextTaskUnblockTime \in Nat /\ xNextTaskUnblockTime <= MaxDelay
        /\ xTickCount + xTicksToJump <= xNextTaskUnblockTime
    BY <1>3, TasksAssumption DEF PInv, Scalars, Ticks
  <2>3. CASE xTicksToJump = 0
    <3>1. ClockStands
      BY <2>1, <2>2, <2>3 DEF ClockStands
    <3> QED BY <2>1, <3>1, ListsUntouched
  <2>4. CASE xTicksToJump # 0
    <3>1. xTicksToJump \in 1 .. MaxDelay /\ (xTickCount' - xTickCount) % (MaxDelay + 1) = xTicksToJump
      BY <2>1, <2>2, <2>4
    <3>2. TimesKept
      <4>1. Current' = Current /\ Overflow' = Overflow
        BY <2>1 DEF Current, Overflow, DelayedList
      <4> QED BY <2>1, <2>2, <4>1, CountGoesOn
    <3>3. ASSUME NEW t \in Tasks, IsDelayed(t) PROVE xTicksToJump <= Remaining(t)
      <4>1. t \in AllTasks /\ xItemValue[t] \in Nat
        BY DEF AllTasks, PInv, Scalars, Ticks
      <4>2. IsIn(stateLists, Current, t) => xNextTaskUnblockTime <= xItemValue[t]
        BY <4>1 DEF TimeInv, ClockInv, UnblockTimeBounds
      <4> QED BY <2>2, <4>1, <4>2 DEF Remaining
    <3>4. xSchedulerRunning
      BY DEF vTaskStepTick
    <3> QED BY <2>1, <3>1, <3>2, <3>3, <3>4, TicksPass
  <2> QED BY <2>3, <2>4
<1> QED BY <1>2, <1>3

\* The tick ends the delay of a task when its time has come, and not before.
LEMMA UnblockSimulated ==
  ASSUME RefInv, PInv', IncrementTick_Unblock
  PROVE  Simulated
<1> USE DEF RefInv
<1>1. DueTask \in AllTasks /\ IsIn(stateLists, Current, DueTask) /\ Current \in BlockedNames
  <2>1. Current \in StateListNames /\ Current \in BlockedNames
    BY CurrentIsDelayed, DelayedNamesApart, CurrentAndOverflow DEF PInv, Scalars
  <2> QED BY <2>1, EmptyIff DEF IncrementTick_Unblock, SomeTaskDue, DueTask, PInv, ListsOK, StateOK
<1>2. /\ MoveToReady(DueTask) /\ eventLists' = UnlinkIfLinked(eventLists, DueTask)
      /\ ClockStands /\ RestStands /\ UNCHANGED <<xItemValue, ucNotifyState>>
      /\ xTickCount >= xItemValue[DueTask]
  BY DEF IncrementTick_Unblock, SomeTaskDue, ClockStands, RestStands
<1> HIDE DEF DueTask
<1>3. Blocked(stateLists, DueTask) /\ ~Ready(stateLists, DueTask)
  BY <1>1, ReadyOrBlocked DEF Blocked, PInv, ListsOK, StateOK
<1>4. \A u \in AllTasks \ {DueTask} : SameWait(u)
  <2>1. Left(eventLists, EventListNames, DueTask, eventLists')
    BY <1>1, <1>2, UnlinkIfLinkedEffect DEF PInv, ListsOK
  <2> QED BY <1>2, <2>1 DEF SameWait, Awaits, Unlinked, Left
<1>5. Abstract!Enter(DueTask, "ready", 0) /\ Waiting' = Waiting \ {DueTask}
  BY <1>1, <1>2, <1>3, <1>4, Readied DEF RestStands
<1>6. StateOf(DueTask) = "delayed" /\ LeftOf(DueTask) = 0
  <2>1. IsDelayed(DueTask) /\ Remaining(DueTask) = 0
    <3>1. xTickCount <= xItemValue[DueTask]
      BY <1>1 DEF NotPast
    <3> QED BY <1>1, <1>2, <3>1 DEF IsDelayed, Remaining, PInv, Scalars, Ticks
  <2> QED BY <1>1, <2>1, ViewsHold DEF Views, LeftOf
<1>7. Abstract!TimeOut(DueTask)
  BY <1>1, <1>2, <1>5, <1>6 DEF Abstract!TimeOut, RestStands
<1>8. xSchedulerRunning
  BY DEF IncrementTick_Unblock, Unblocking, FirstTask
<1> QED BY <1>1, <1>7, <1>8 DEF Simulated, Abstract!Next
-----------------------------------------------------------------------------
(* Events *)

\* xTaskResumeAll readies a task that was held back.
LEMMA MovePendingSimulated ==
  ASSUME RefInv, PInv', ResumeAll_MovePending
  PROVE  Simulated
<1> DEFINE t == HeadOwner(eventLists[PendingReadyList])
<1> USE DEF RefInv
<1>1. t \in AllTasks /\ IsIn(eventLists, PendingReadyList, t)
  BY EmptyIff DEF ResumeAll_MovePending, PInv, ListsOK, EventListNames
<1>2. /\ MoveToReady(t) /\ eventLists' = Unlink(eventLists, t)
      /\ ClockStands /\ RestStands /\ UNCHANGED <<xItemValue, ucNotifyState>>
  BY Zenon DEF ResumeAll_MovePending, ClockStands, RestStands
<1> HIDE DEF t
<1>3. Ready(stateLists, t) \/ Blocked(stateLists, t)
  BY <1>1 DEF PInv, CallsOK, EventsR, Created, NotifyPoints
<1>4. Awaits(t) /\ IsLinked(eventLists, t)
  BY <1>1, LinkedIff DEF Awaits, Unlinked, EventListNames, PInv, ListsOK
<1>5. \A u \in AllTasks \ {t} : SameWait(u)
  <2>1. Left(eventLists, EventListNames, t, eventLists')
    BY <1>1, <1>2, <1>4, UnlinkEffect DEF PInv, ListsOK
  <2> QED BY <1>2, <2>1 DEF SameWait, Awaits, Unlinked, Left
<1>6. xSchedulerRunning
  BY DEF ResumeAll_MovePending, FirstTask
<1> QED BY <1>1, <1>2, <1>3, <1>4, <1>5, <1>6, Woken

\* An event ends the wait of the first waiter, at once or later.
LEMMA RemoveFromEventListSimulated ==
  ASSUME RefInv, PInv', xTaskRemoveFromEventList
  PROVE  Simulated
<1> DEFINE t == HeadOwner(eventLists[EventList])
<1> USE DEF RefInv
<1>1. t \in AllTasks /\ IsIn(eventLists, EventList, t)
  BY EmptyIff DEF xTaskRemoveFromEventList, PInv, ListsOK, EventListNames
<1>2. /\ ClockStands /\ RestStands /\ UNCHANGED <<xItemValue, ucNotifyState>> /\ xSchedulerRunning
      /\ \/ MoveToReady(t) /\ eventLists' = Unlink(eventLists, t)
         \/ /\ eventLists' = LinkEnd(Unlink(eventLists, t), PendingReadyList, t)
            /\ UNCHANGED stateLists
  BY Zenon DEF xTaskRemoveFromEventList, ClockStands, RestStands
<1> HIDE DEF t
<1>3. Blocked(stateLists, t)
  BY <1>1 DEF PInv, CallsOK, EventsR
<1>4. Awaits(t) /\ IsLinked(eventLists, t)
  BY <1>1, LinkedIff DEF Awaits, Unlinked, EventListNames, PInv, ListsOK
<1>5. CASE MoveToReady(t) /\ eventLists' = Unlink(eventLists, t)
  <2>1. \A u \in AllTasks \ {t} : SameWait(u)
    <3>1. Left(eventLists, EventListNames, t, eventLists')
      BY <1>1, <1>4, <1>5, UnlinkEffect DEF PInv, ListsOK
    <3> QED BY <1>2, <3>1 DEF SameWait, Awaits, Unlinked, Left
  <2> QED BY <1>1, <1>2, <1>3, <1>4, <1>5, <2>1, Woken
<1>6. CASE /\ eventLists' = LinkEnd(Unlink(eventLists, t), PendingReadyList, t)
           /\ UNCHANGED stateLists
  <2>1. Moved(eventLists, EventListNames, t, PendingReadyList, eventLists')
    BY <1>1, <1>4, <1>6, MoveEffect DEF PInv, ListsOK, EventListNames
  <2>2. \A u \in AllTasks : Unlinked(u)' <=> Unlinked(u)
    BY <1>1, <2>1 DEF Unlinked, Moved, EventListNames
  <2>3. \A u \in AllTasks : SamePlace(u) /\ SameWait(u)
    BY <1>2, <1>6, <2>2 DEF SamePlace, SameWait, Awaits, Ready
  <2> QED BY <1>2, <2>3, Unnoticed
<1> QED BY <1>2, <1>5, <1>6

-----------------------------------------------------------------------------
(* Suspension, priorities and notifications *)

\* A suspended task is resumed, or held back until the scheduler is resumed.
LEMMA ResumeSimulated ==
  ASSUME RefInv, PInv', NEW target \in Tasks,
         (\E t : vTaskResume(t, target)) \/ xTaskResumeFromISR(target)
  PROVE  Simulated
<1> USE DEF RefInv
<1>1. target \in AllTasks /\ IsIn(stateLists, SuspendedList, target) /\ ~IsLinked(eventLists, target)
  BY Zenon DEF vTaskResume, xTaskResumeFromISR, TaskIsSuspended, AllTasks
<1>2. /\ ClockStands /\ RestStands /\ UNCHANGED <<xItemValue, ucNotifyState>> /\ xSchedulerRunning
      /\ \/ MoveToReady(target) /\ UNCHANGED eventLists
         \/ eventLists' = LinkEnd(eventLists, PendingReadyList, target) /\ UNCHANGED stateLists
  BY Zenon DEF vTaskResume, xTaskResumeFromISR, ClockStands, RestStands
<1>3. /\ Blocked(stateLists, target) /\ ~Ready(stateLists, target)
      /\ StateOf(target) = "blocked"
  <2>1. Blocked(stateLists, target)
    BY <1>1 DEF Blocked, BlockedNames
  <2> QED BY <1>1, <2>1, ReadyOrBlocked, ViewsHold DEF Views, PInv, ListsOK, StateOK
<1>4. CASE MoveToReady(target) /\ UNCHANGED eventLists
  <2>1. \A u \in AllTasks \ {target} : SameWait(u)
    BY <1>2, <1>4 DEF SameWait, Awaits, Unlinked
  <2>2. Abstract!Enter(target, "ready", 0) /\ Waiting' = Waiting \ {target}
    BY <1>1, <1>2, <1>3, <1>4, <2>1, Readied DEF RestStands
  <2>3. Abstract!Resume(target)
    BY <1>1, <1>2, <1>3, <2>2 DEF Abstract!Resume, RestStands
  <2> QED BY <1>1, <1>2, <2>3 DEF Simulated, Abstract!Next
<1>5. CASE eventLists' = LinkEnd(eventLists, PendingReadyList, target) /\ UNCHANGED stateLists
  <2>1. Moved(eventLists, EventListNames, target, PendingReadyList, eventLists')
    BY <1>1, <1>5, LinkEndEffect, LinkedIff DEF PInv, ListsOK, EventListNames
  <2>2. \A u \in AllTasks : SamePlace(u)
    BY <1>2, <1>5 DEF SamePlace, Ready
  <2>3. \A u \in AllTasks \ {target} : SameWait(u)
    BY <1>2, <2>1 DEF SameWait, Awaits, Unlinked, Moved
  <2>4. \A u \in AllTasks : StateOf(u)' = StateOf(u) /\ LeftOf(u)' = LeftOf(u)
                            /\ (u # target => (u \in Waiting' <=> u \in Waiting))
    BY <1>2, <2>2, <2>3, SameView
  <2>5. target \in Waiting'
    <3>1. Views'
      <4>1. PInv' => Views'
        BY ViewsHold, PTL
      <4> QED BY <4>1
    <3>2. Awaits(target)' /\ Blocked(stateLists', target)
      BY <1>1, <1>3, <1>5, <2>1 DEF Awaits, Unlinked, Moved, EventListNames
    <3> QED BY <1>1, <3>1, <3>2 DEF Views
  <2>6. Waiting' = Waiting \cup {target}
    BY <1>1, <2>4, <2>5 DEF Waiting
  <2>7. Abstract!Resume(target)
    BY <1>1, <1>2, <1>3, <2>4, <2>6 DEF Abstract!Resume, RestStands
  <2> QED BY <1>1, <1>2, <2>7 DEF Simulated, Abstract!Next
<1> QED BY <1>2, <1>4, <1>5

\* vTaskSuspend of any task.
LEMMA SuspendSimulated ==
  ASSUME RefInv, PInv', NEW t, NEW target \in Tasks, vTaskSuspend(t, target)
  PROVE  Simulated
<1> USE DEF RefInv
<1>1. /\ target \in AllTasks /\ IsLinked(stateLists, target)
      /\ ClockStands /\ RestStands /\ UNCHANGED <<xItemValue, ucNotifyState>> /\ xSchedulerRunning
      /\ stateLists' = LinkEnd(Unlink(stateLists, target), SuspendedList, target)
      /\ eventLists' = UnlinkIfLinked(eventLists, target)
  BY Zenon DEF vTaskSuspend, ClockStands, RestStands, AllTasks
<1>2. Moved(stateLists, StateListNames, target, SuspendedList, stateLists')
  BY <1>1, MoveEffect, DelayedNamesApart DEF PInv, ListsOK, StateOK
<1>3. Left(eventLists, EventListNames, target, eventLists')
  BY <1>1, UnlinkIfLinkedEffect DEF PInv, ListsOK
<1>4. \A u \in AllTasks \ {target} : SamePlace(u) /\ SameWait(u)
  <2>1. \A u \in AllTasks \ {target} :
           /\ Ready(stateLists', u) <=> Ready(stateLists, u)
           /\ \A n \in BlockedNames : IsIn(stateLists', n, u) <=> IsIn(stateLists, n, u)
    BY <1>1, <1>2, MovedPlaces, DelayedNamesApart
  <2> QED BY <1>1, <1>3, <2>1 DEF SamePlace, SameWait, Awaits, Unlinked, Left
<1>5. Abstract!Enter(target, StateOf(target)', LeftOf(target)') /\ Waiting' \ {target} = Waiting \ {target}
  BY <1>1, <1>4, OneMoves
<1>6. StateOf(target)' = "blocked" /\ LeftOf(target)' = 0
  <2>1. Views'
    <3>1. PInv' => Views'
      BY ViewsHold, PTL
    <3> QED BY <3>1
  <2>2. IsIn(stateLists', SuspendedList, target)
    BY <1>1, <1>2, DelayedNamesApart DEF Moved
  <2> QED BY <1>1, <2>1, <2>2 DEF Views
<1>7. StateOf(target) # "none"
  <2>1. Ready(stateLists, target) \/ Blocked(stateLists, target)
    BY <1>1, ReadyOrBlocked DEF PInv, ListsOK, StateOK
  <2> QED BY <1>1, <2>1, ViewsHold DEF Views, Blocked, BlockedNames, DelayedNames
<1>8. Abstract!Suspend(target)
  BY <1>1, <1>5, <1>6, <1>7 DEF Abstract!Suspend, RestStands
<1> QED BY <1>1, <1>8 DEF Simulated, Abstract!Next

\* vTaskPrioritySet.
LEMMA PrioritySetSimulated ==
  ASSUME RefInv, PInv', NEW t, NEW target \in Tasks, NEW p \in Priorities,
         vTaskPrioritySet(t, target, p)
  PROVE  Simulated
<1> USE DEF RefInv
<1>1. /\ target \in AllTasks /\ xSchedulerRunning
      /\ uxPriority' = [uxPriority EXCEPT ![target] = p]
      /\ ClockStands
      /\ UNCHANGED <<xItemValue, ucNotifyState, eventLists, xSchedulerRunning, pxCurrentTCB>>
  BY Zenon DEF vTaskPrioritySet, ClockStands, AllTasks
<1>2. \/ stateLists' = stateLists
      \/ /\ IsIn(stateLists, ReadyList(uxPriority[target]), target)
         /\ Moved(stateLists, StateListNames, target, ReadyList(p), stateLists')
  BY <1>1, PrioritySetKeeps DEF PInv, ListsOK
<1>3. \A u \in AllTasks : SamePlace(u)
  <2>1. CASE stateLists' = stateLists
    BY <1>1, <2>1 DEF SamePlace, Ready
  <2>2. CASE /\ IsIn(stateLists, ReadyList(uxPriority[target]), target)
             /\ Moved(stateLists, StateListNames, target, ReadyList(p), stateLists')
    <3>1. Ready(stateLists, target) /\ ~Blocked(stateLists, target)
      BY <1>1, <2>2, ReadyOrBlocked DEF Ready, PInv, ListsOK, StateOK
    <3>2. Ready(stateLists', target) /\ ~Blocked(stateLists', target)
      BY <1>1, <2>2, MovedToReady
    <3>3. \A u \in AllTasks \ {target} :
           /\ Ready(stateLists', u) <=> Ready(stateLists, u)
           /\ \A n \in BlockedNames : IsIn(stateLists', n, u) <=> IsIn(stateLists, n, u)
      BY <1>1, <2>2, MovedPlaces, StateListNamesDistinct
    <3> QED BY <1>1, <3>1, <3>2, <3>3 DEF SamePlace, Blocked
  <2> QED BY <1>2, <2>1, <2>2
<1>4. \A u \in AllTasks : SameWait(u)
  BY <1>1 DEF SameWait, Awaits, Unlinked
<1>5. Abstract!SetPriority(target, p)
  BY <1>1, <1>3, <1>4, NoneMoves DEF Abstract!SetPriority
<1> QED BY <1>1, <1>5 DEF Simulated, Abstract!Next

\* A notification, of a task that waits for one or of another.
LEMMA NotifySimulated ==
  ASSUME RefInv, PInv', NEW target \in Tasks,
         (\E t : xTaskNotify(t, target)) \/ xTaskNotifyFromISR(target)
  PROVE  Simulated
<1> USE DEF RefInv
<1>1. /\ target \in AllTasks /\ IsLinked(stateLists, target)
      /\ ClockStands /\ RestStands /\ UNCHANGED xItemValue /\ xSchedulerRunning
  BY Zenon DEF xTaskNotify, xTaskNotifyFromISR, ClockStands, RestStands, AllTasks
<1>2. Ready(stateLists, target) \/ Blocked(stateLists, target)
  BY <1>1, ReadyOrBlocked DEF PInv, ListsOK, StateOK
<1>3. \/ /\ ucNotifyState[target] # "waiting" /\ (\E n \in NotifyActions : Receive(target, n))
         /\ UNCHANGED <<stateLists, eventLists>>
      \/ UNCHANGED <<stateLists, eventLists, ucNotifyState>>
      \/ /\ ucNotifyState[target] = "waiting" /\ (\E n \in NotifyActions : Receive(target, n))
         /\ ~IsLinked(eventLists, target)
         /\ \/ MoveToReady(target) /\ UNCHANGED eventLists
            \/ eventLists' = LinkEnd(eventLists, PendingReadyList, target) /\ UNCHANGED stateLists
  BY Zenon DEF xTaskNotify, xTaskNotifyFromISR
<1>4. (\E n \in NotifyActions : Receive(target, n)) =>
        \A u \in AllTasks : ucNotifyState'[u] = IF u = target THEN "received" ELSE ucNotifyState[u]
  BY <1>1, ReceiveEffect DEF PInv, Scalars
<1>5. CASE /\ ucNotifyState[target] # "waiting" /\ (\E n \in NotifyActions : Receive(target, n))
           /\ UNCHANGED <<stateLists, eventLists>>
  BY <1>1, <1>4, <1>5, ListsUntouched
<1>6. CASE UNCHANGED <<stateLists, eventLists, ucNotifyState>>
  BY <1>1, <1>6, ListsUntouched
<1>7. CASE /\ ucNotifyState[target] = "waiting" /\ (\E n \in NotifyActions : Receive(target, n))
           /\ MoveToReady(target) /\ UNCHANGED eventLists
  <2>1. \A u \in AllTasks \ {target} : SameWait(u)
    BY <1>4, <1>7 DEF SameWait, Awaits, Unlinked
  <2> QED BY <1>1, <1>2, <1>7, <2>1, Woken DEF Awaits
<1>8. CASE /\ ucNotifyState[target] = "waiting" /\ (\E n \in NotifyActions : Receive(target, n))
           /\ ~IsLinked(eventLists, target)
           /\ eventLists' = LinkEnd(eventLists, PendingReadyList, target) /\ UNCHANGED stateLists
  <2>1. Moved(eventLists, EventListNames, target, PendingReadyList, eventLists')
    BY <1>1, <1>8, LinkEndEffect, LinkedIff DEF PInv, ListsOK, EventListNames
  <2>2. \A u \in AllTasks : SamePlace(u)
    BY <1>1, <1>8 DEF SamePlace, Ready
  <2>3. Awaits(target) /\ Awaits(target)'
    BY <1>1, <1>8, <2>1 DEF Awaits, Unlinked, Moved, EventListNames
  <2>4. \A u \in AllTasks : SameWait(u)
    BY <1>4, <1>8, <2>1, <2>3 DEF SameWait, Awaits, Unlinked, Moved
  <2> QED BY <1>1, <2>2, <2>4, Unnoticed
<1> QED BY <1>3, <1>5, <1>6, <1>7, <1>8

-----------------------------------------------------------------------------
(* The context switch, creation and blocking *)

\* The context switch chooses a ready task of the highest priority.
LEMMA SwitchSimulated ==
  ASSUME RefInv, PInv', vTaskSwitchContext
  PROVE  Simulated
<1> DEFINE top == ReadyList(Max(uxTopReadyPriority))
           ready == AdvanceIndex(stateLists[top])
<1> USE DEF RefInv
<1>1. /\ ClockStands /\ UNCHANGED <<xItemValue, eventLists, ucNotifyState, uxPriority, xSchedulerRunning>>
      /\ xSchedulerRunning
  BY Zenon DEF vTaskSwitchContext, ClockStands
<1>2. /\ Max(uxTopReadyPriority) \in Priorities /\ ~IsEmpty(stateLists[top])
      /\ \A t \in AllTasks : Ready(stateLists, t) => uxPriority[t] <= Max(uxTopReadyPriority)
  BY <1>1, TopReadyList DEF PInv, CallsOK, StartedR
<1>3. CASE uxSchedulerSuspended # 0
  BY <1>1, <1>3, ListsUntouched DEF vTaskSwitchContext, RestStands
<1>4. CASE uxSchedulerSuspended = 0
  <2>1. stateLists' = Advanced(stateLists, top) /\ pxCurrentTCB' = IndexOwner(ready)
    BY <1>2, <1>4 DEF vTaskSwitchContext, Advanced
  <2>2. /\ top \in StateListNames /\ Separate(stateLists, StateListNames)
    BY <1>2, StateListNamesDistinct DEF PInv, ListsOK, StateOK
  <2> HIDE DEF top
  <2>3. /\ \A m \in StateListNames, u \in AllTasks :
             IsIn(Advanced(stateLists, top), m, u) <=> IsIn(stateLists, m, u)
        /\ IsIn(stateLists, top, pxCurrentTCB')
    BY <1>2, <2>1, <2>2, AdvanceEffect
  <2>4. \A m \in StateListNames, u \in AllTasks : IsIn(stateLists', m, u) <=> IsIn(stateLists, m, u)
    BY <2>1, <2>3 DEF IsIn
  <2>5. \A u \in AllTasks : SamePlace(u) /\ SameWait(u)
    BY <1>1, <2>4, StateListNamesDistinct DEF SamePlace, SameWait, Awaits, Unlinked, Ready
  <2>6. pxCurrentTCB' \in AllTasks
    <3>1. Owners(stateLists[top]) \subseteq AllTasks
      BY <2>2, ListFields, SeqPositions DEF Separate
    <3> QED BY <2>3, <3>1 DEF IsIn
  <2>7. Ready(stateLists, pxCurrentTCB') /\ uxPriority[pxCurrentTCB'] = Max(uxTopReadyPriority)
    BY <1>2, <2>3, <2>6 DEF Ready, top, PInv, ListsOK, StateOK, ReadyAtOwnPriority
  <2>8. \A u \in AllTasks : StateOf(u) = "ready" <=> Ready(stateLists, u)
    BY ViewsHold DEF Views
  <2>9. Abstract!Highest(pxCurrentTCB')
    BY <1>2, <2>6, <2>7, <2>8 DEF Abstract!Highest, Abstract!Ready
  <2>10. Abstract!Choose
    BY <1>1, <2>5, <2>6, <2>9, NoneMoves DEF Abstract!Choose
  <2> QED BY <1>1, <2>10 DEF Simulated, Abstract!Next
<1> QED BY <1>3, <1>4

\* Of the tasks created before the start one of the highest priority is to run first.
LEMMA FirstIsHighest ==
  ASSUME RefInv, PInv', ~xSchedulerRunning, NEW t \in AllTasks, AddNewTask(t), UNCHANGED uxPriority
  PROVE  /\ pxCurrentTCB' \in AllTasks /\ Ready(stateLists', pxCurrentTCB')
         /\ \A u \in AllTasks : Ready(stateLists', u) => uxPriority'[u] <= uxPriority'[pxCurrentTCB']
<1> USE DEF RefInv
<1>1. pxCurrentTCB' # NoTask /\ pxCurrentTCB' \in AllTasks
  BY TasksAssumption DEF AddNewTask, PInv, Scalars
<1>2. /\ pxCurrentTCB # NoTask => Ready(stateLists, pxCurrentTCB)
      /\ \A u \in AllTasks : Ready(stateLists, u) =>
           pxCurrentTCB # NoTask /\ uxPriority[u] <= uxPriority[pxCurrentTCB]
  BY DEF FirstTask
<1>3. \A u \in AllTasks : Ready(stateLists', u) <=> u = t \/ Ready(stateLists, u)
  <2>1. ~IsLinked(stateLists, t)
    BY ReadyOrBlocked DEF AddNewTask, PInv, CallsOK, Created, ListsOK, StateOK
  <2>2. Moved(stateLists, StateListNames, t, ReadyList(uxPriority[t]), stateLists')
    BY <2>1, CreateKeeps DEF PInv, ListsOK
  <2> QED BY <2>2, MovedToReady DEF PInv, ListsOK, StateOK
<1>4. pxCurrentTCB' = IF pxCurrentTCB = NoTask \/ uxPriority[pxCurrentTCB] <= uxPriority[t]
                      THEN t ELSE pxCurrentTCB
  BY DEF AddNewTask
<1>5. \A u \in AllTasks : uxPriority[u] \in Nat
  BY TasksAssumption DEF PInv, ListsOK, StateOK, Priorities
<1>6. CASE pxCurrentTCB = NoTask
  BY <1>1, <1>2, <1>3, <1>4, <1>5, <1>6
<1>7. CASE pxCurrentTCB # NoTask
  <2>1. pxCurrentTCB \in AllTasks
    BY <1>7 DEF PInv, Scalars
  <2> QED BY <1>1, <1>2, <1>3, <1>4, <1>5, <1>7, <2>1
<1> QED BY <1>6, <1>7

\* prvAddNewTaskToReadyList: the new task is ready, and before the start the first to run
\* if no other outranks it.
LEMMA AddNewTaskSimulated ==
  ASSUME RefInv, PInv', NEW t \in AllTasks, AddNewTask(t),
         UNCHANGED <<pxDelayedTaskList, xItemValue, eventLists, ucNotifyState, uxPriority>>,
         xSchedulerRunning => xTickCount' = xTickCount
  PROVE  Abstract!Create(t)
<1> USE DEF RefInv
<1>1. ~IsLinked(stateLists, t) /\ ~Ready(stateLists, t) /\ ~Blocked(stateLists, t)
  BY ReadyOrBlocked DEF AddNewTask, PInv, CallsOK, Created, ListsOK, StateOK
<1>2. Moved(stateLists, StateListNames, t, ReadyList(uxPriority[t]), stateLists')
  BY <1>1, CreateKeeps DEF PInv, ListsOK
<1>3. uxPriority[t] \in Priorities /\ ReadyList(uxPriority[t]) \in StateListNames
  BY StateListNamesDistinct DEF PInv, ListsOK, StateOK
<1>4. \A u \in AllTasks \ {t} : SamePlace(u) /\ SameWait(u)
  BY <1>2, <1>3, MovedPlaces DEF SamePlace, SameWait, Awaits, Unlinked
<1>5. Views /\ Views'
  <2>1. PInv' => Views'
    BY ViewsHold, PTL
  <2> QED BY <2>1, ViewsHold
<1>6. StateOf(t) = "none" /\ t \notin Waiting
  BY <1>1, <1>5 DEF Views, Blocked, BlockedNames, DelayedNames
<1>7. Ready(stateLists', t) /\ ~Blocked(stateLists', t)
  BY <1>2, <1>3, MovedToReady
<1>8. StateOf(t)' = "ready" /\ LeftOf(t)' = 0 /\ t \notin Waiting'
  BY <1>5, <1>7 DEF Views
<1>9. Abstract!Enter(t, "ready", 0) /\ UNCHANGED Waiting
  <2>1. CASE xSchedulerRunning
    <3>1. ClockStands
      BY <2>1 DEF ClockStands
    <3>2. Abstract!Enter(t, StateOf(t)', LeftOf(t)') /\ Waiting' \ {t} = Waiting \ {t}
      BY <1>4, <3>1, OneMoves
    <3> QED BY <1>6, <1>8, <3>2
  <2>2. CASE ~xSchedulerRunning
    <3>1. \A u \in AllTasks, n \in DelayedNames : ~IsIn(stateLists, n, u) /\ ~IsIn(stateLists', n, u)
      <4>1. \A u \in AllTasks, n \in DelayedNames : ~IsIn(stateLists, n, u)
        BY <2>2 DEF TimeInv, ClockInv, NoneBeforeStart
      <4>2. DelayedNames \subseteq BlockedNames
        BY DEF DelayedNames, BlockedNames
      <4> QED BY <1>4, <1>7, <4>1, <4>2 DEF SamePlace, Blocked
    <3>2. \A u \in AllTasks \ {t} :
             StateOf(u)' = StateOf(u) /\ LeftOf(u)' = LeftOf(u) /\ (u \in Waiting' <=> u \in Waiting)
      BY <1>4, <1>5, <3>1
      DEF Views, SamePlace, SameWait, Blocked, BlockedNames
    <3>3. Waiting' = Waiting
      BY <1>6, <1>8, <3>2 DEF Waiting
    <3> QED BY <1>8, <3>2, <3>3 DEF Abstract!Enter
  <2> QED BY <2>1, <2>2
<1>10. pxCurrentTCB' \in {pxCurrentTCB, t} /\ (xSchedulerRunning => UNCHANGED pxCurrentTCB)
  BY TasksAssumption DEF AddNewTask, PInv, CallsOK, StartedR
<1>11. ~xSchedulerRunning => pxCurrentTCB' # NoTask /\ Abstract!Highest(pxCurrentTCB)'
  <2> SUFFICES ASSUME ~xSchedulerRunning
               PROVE  pxCurrentTCB' # NoTask /\ Abstract!Highest(pxCurrentTCB)'
    OBVIOUS
  <2>1. /\ pxCurrentTCB' \in AllTasks /\ Ready(stateLists', pxCurrentTCB')
        /\ \A u \in AllTasks : Ready(stateLists', u) => uxPriority'[u] <= uxPriority'[pxCurrentTCB']
    BY FirstIsHighest
  <2>2. \A u \in AllTasks : StateOf(u)' = "ready" <=> Ready(stateLists', u)
    BY <1>5 DEF Views
  <2>3. pxCurrentTCB' # NoTask
    BY <2>1, TasksAssumption
  <2> QED BY <2>1, <2>2, <2>3 DEF Abstract!Highest, Abstract!Ready
<1> QED BY <1>6, <1>9, <1>10, <1>11 DEF Abstract!Create

\* Creation by a task or before the start, and the start.
LEMMA CreateSimulated ==
  ASSUME RefInv, PInv',
         \/ \E t \in Tasks : CreateBeforeStart(t)
         \/ \E self \in AllTasks, t \in Tasks : xTaskCreate(self, t)
  PROVE  Simulated
<1>1. PICK t \in Tasks :
        AddNewTask(t) /\ UNCHANGED <<timeVars, eventLists, notifyVars, uxPriority, xSchedulerRunning>>
  BY Zenon DEF CreateBeforeStart, xTaskCreate
<1>2. t \in AllTasks \ {Idle}
  BY TasksAssumption DEF AllTasks
<1>3. Abstract!Create(t)
  BY <1>1, <1>2, AddNewTaskSimulated
<1> QED BY <1>1, <1>2, <1>3 DEF Simulated, Abstract!Next

\* The start creates the idle task.
LEMMA StartSimulated ==
  ASSUME RefInv, PInv', vTaskStartScheduler
  PROVE  Simulated
<1>1. /\ AddNewTask(Idle) /\ ~xSchedulerRunning /\ xSchedulerRunning' = TRUE
      /\ UNCHANGED <<pxDelayedTaskList, xItemValue, eventLists, ucNotifyState, uxPriority>>
  BY DEF vTaskStartScheduler
<1>2. Abstract!Create(Idle)
  BY <1>1, AddNewTaskSimulated DEF AllTasks
<1> QED BY <1>1, <1>2 DEF Simulated, Abstract!Next, Abstract!Start

\* The current task blocks, for some ticks or until something happens.
LEMMA BlockSimulated ==
  ASSUME RefInv, PInv', TimeInv', RestStands, xSchedulerRunning, mode' = "open",
         NEW t \in Tasks, t = pxCurrentTCB, Ready(stateLists, t),
         NEW n \in Ticks, n # 0, NEW forever \in BOOLEAN, AddCurrentTaskToDelayedList(t, n, forever),
         \A u \in AllTasks \ {t} : SameWait(u), forever => Awaits(t)'
  PROVE  Simulated
<1> USE DEF RefInv
<1>1. /\ t \in AllTasks /\ IsLinked(stateLists, t) /\ ~Blocked(stateLists, t)
  BY ReadyOrBlocked DEF AllTasks, PInv, ListsOK, StateOK
<1>2. PICK name \in BlockedNames : Moved(stateLists, StateListNames, t, name, stateLists')
  BY <1>1, AddToDelayedListKeeps DEF PInv, ListsOK, Scalars, RestStands
<1>3. ClockStands /\ \A u \in AllTasks \ {t} : xItemValue'[u] = xItemValue[u]
  <2> DEFINE wake == (xTickCount + n) % (MaxDelay + 1)
  <2>1. xItemValue' \in {xItemValue, [xItemValue EXCEPT ![t] = wake]}
        /\ UNCHANGED <<xTickCount, pxDelayedTaskList>>
    BY DEF AddCurrentTaskToDelayedList
  <2> HIDE DEF wake
  <2> QED BY <1>1, <2>1 DEF ClockStands, PInv, Scalars
<1>4. \A u \in AllTasks \ {t} : SamePlace(u)
  BY <1>1, <1>2, <1>3, MovedPlaces, StateListNamesDistinct DEF SamePlace
<1>5. Abstract!Enter(t, StateOf(t)', LeftOf(t)') /\ Waiting' \ {t} = Waiting \ {t}
  BY <1>1, <1>3, <1>4, OneMoves
<1>6. Views /\ Views'
  <2>1. PInv' => Views'
    BY ViewsHold, PTL
  <2> QED BY <2>1, ViewsHold
<1>7. /\ StateOf(t) = "ready" /\ t \notin Waiting
      /\ IsIn(stateLists', name, t) /\ Blocked(stateLists', t)
  BY <1>1, <1>2, <1>6, StateListNamesDistinct DEF Views, Moved, Blocked
<1>8. Waiting' \in {Waiting, Waiting \cup {t}} /\ (forever => Waiting' = Waiting \cup {t})
  <2>1. forever => t \in Waiting'
    BY <1>1, <1>6, <1>7 DEF Views
  <2> QED BY <1>5, <1>7, <2>1
<1>9. CASE name = SuspendedList
  <2>1. StateOf(t)' = "blocked" /\ LeftOf(t)' = 0
    BY <1>1, <1>6, <1>7, <1>9 DEF Views
  <2>2. forever
    <3> SUFFICES ASSUME ~forever PROVE FALSE
      OBVIOUS
    <3> DEFINE wake == (xTickCount + n) % (MaxDelay + 1)
    <3>1. wake \in Ticks /\ forever = FALSE
      BY TickArithmetic DEF PInv, Scalars
    <3>2. \A m \in DelayedNames :
            IsIn(stateLists', m, t) <=> m = IF wake < xTickCount THEN Overflow ELSE Current
      BY <1>1, <3>1, AddedAtWakeTime
    <3>3. Current \in DelayedNames /\ Overflow \in DelayedNames
      BY CurrentIsDelayed DEF PInv, Scalars
    <3>4. \E m \in DelayedNames : IsIn(stateLists', m, t)
      BY <3>2, <3>3
    <3> QED BY <1>1, <1>7, <1>9, <3>4, DelayedNamesApart DEF PInv, ListsOK, StateOK, Separate
  <2>3. Abstract!Wait
    BY <1>1, <1>5, <1>7, <1>8, <2>1, <2>2 DEF Abstract!Wait, Abstract!Ready, RestStands
  <2> QED BY <2>3 DEF Simulated, Abstract!Next
<1>10. CASE name # SuspendedList
  <2>1. name \in DelayedNames
    BY <1>10 DEF BlockedNames, DelayedNames
  <2>2. StateOf(t)' = "delayed" /\ IsDelayed(t)'
    BY <1>1, <1>6, <1>7, <2>1 DEF Views
  <2>3. LeftOf(t)' \in 1 .. MaxDelay
    <3>1. xItemValue'[t] \in 0 .. MaxDelay /\ xTickCount' \in 0 .. MaxDelay /\ MaxDelay \in Nat
      BY <1>1, TasksAssumption DEF PInv, Scalars, Ticks
    <3>2. IsIn(stateLists', Current', t) => xTickCount' < xItemValue'[t]
      BY <1>1 DEF TimeInv, ClockInv, CurrentAhead
    <3>3. IsIn(stateLists', Overflow', t) => xItemValue'[t] < xTickCount'
      BY <1>1 DEF TimeInv, ClockInv, OverflowBehind
    <3>4. LeftOf(t)' = IF IsIn(stateLists', Current', t) THEN xItemValue'[t] - xTickCount'
                       ELSE xItemValue'[t] + MaxDelay + 1 - xTickCount'
      <4>1. LeftOf(t)' = Remaining(t)'
        BY <2>2 DEF LeftOf
      <4> QED BY <4>1 DEF Remaining
    <3>5. IsIn(stateLists', Current', t) \/ IsIn(stateLists', Overflow', t)
      BY <2>2 DEF IsDelayed
    <3> QED BY <3>1, <3>2, <3>3, <3>4, <3>5
  <2>4. PICK left \in 1 .. MaxDelay : LeftOf(t)' = left
    BY <2>3
  <2>5. Abstract!Delay(left)
    BY <1>1, <1>5, <1>7, <1>8, <2>2, <2>4 DEF Abstract!Delay, Abstract!Ready, RestStands
  <2> QED BY <2>5 DEF Simulated, Abstract!Next
<1> QED BY <1>9, <1>10

\* The calls that block, when they do and when they do not.
LEMMA BlockingCallSimulated ==
  ASSUME RefInv, PInv', TimeInv', NEW t \in Tasks,
         \/ Delay_AddToList(t) \/ DelayUntil_AddToList(t) \/ vTaskPlaceOnEventList(t)
         \/ ulTaskNotifyTake(t) \/ xTaskNotifyWait(t)
  PROVE  Simulated
<1> USE DEF RefInv
<1>1. /\ t \in AllTasks /\ arg[t] \in Ticks /\ xTickCount \in Ticks
      /\ pxPreviousWakeTime[t] \in Ticks
  BY DEF AllTasks, PInv, Scalars
<1>2. /\ Ready(stateLists, t) /\ t = pxCurrentTCB /\ mode' = "open" /\ xSchedulerRunning
      /\ RestStands
  BY <1>1, CurrentIsReady
  DEF Delay_AddToList, DelayUntil_AddToList, vTaskPlaceOnEventList, ulTaskNotifyTake,
      xTaskNotifyWait, WaitForNotification, RestStands
<1>3. ~Blocked(stateLists, t)
  BY <1>1, <1>2, ReadyOrBlocked DEF PInv, ListsOK, StateOK
<1>4. CASE Delay_AddToList(t)
  <2>1. /\ arg[t] # 0 /\ AddCurrentTaskToDelayedList(t, arg[t], FALSE)
        /\ UNCHANGED <<eventLists, ucNotifyState>>
    BY <1>4 DEF Delay_AddToList, TimeInv, WaitsPositive
  <2>2. \A u \in AllTasks \ {t} : SameWait(u)
    BY <2>1 DEF SameWait, Awaits, Unlinked
  <2> QED BY <1>1, <1>2, <2>1, <2>2, BlockSimulated
<1>5. CASE DelayUntil_AddToList(t)
  <2> DEFINE wake == (pxPreviousWakeTime[t] + arg[t]) % (MaxDelay + 1)
  <2>1. wake \in Ticks
    BY <1>1, TickArithmetic DEF PInv
  <2>2. /\ UNCHANGED <<eventLists, ucNotifyState>>
        /\ \/ UNCHANGED <<timeVars, stateLists>>
           \/ /\ ShouldDelay(pxPreviousWakeTime[t], wake)
              /\ AddCurrentTaskToDelayedList(t, (wake - xTickCount) % (MaxDelay + 1), FALSE)
    BY <1>5, Zenon DEF DelayUntil_AddToList
  <2> HIDE DEF wake
  <2>3. ShouldDelay(pxPreviousWakeTime[t], wake) => wake # xTickCount
    BY <1>1, <2>1, TasksAssumption DEF ShouldDelay, Ticks
  <2>4. CASE wake # xTickCount /\ AddCurrentTaskToDelayedList(t, (wake - xTickCount) % (MaxDelay + 1), FALSE)
    <3>1. \A u \in AllTasks \ {t} : SameWait(u)
      BY <2>2 DEF SameWait, Awaits, Unlinked
    <3> QED BY <1>1, <1>2, <2>1, <2>4, <3>1, DifferentCounts, BlockSimulated
  <2>5. CASE UNCHANGED <<timeVars, stateLists>>
    BY <1>2, <2>2, <2>5, ListsUntouched DEF ClockStands
  <2> QED BY <2>2, <2>3, <2>4, <2>5
<1>6. CASE vTaskPlaceOnEventList(t)
  <2>1. /\ arg[t] # 0 /\ AddCurrentTaskToDelayedList(t, arg[t], TRUE)
        /\ eventLists' = LinkByValue(eventLists, EventList, EventItemValue, t, EventItemValue[t])
        /\ UNCHANGED ucNotifyState
    BY <1>6 DEF vTaskPlaceOnEventList, TimeInv, WaitsPositive
  <2>2. \A n \in EventListNames : ~IsIn(eventLists, n, t)
    <3>1. pc[t] = "placeOnEventList"
      BY <1>6 DEF vTaskPlaceOnEventList
    <3> QED BY <1>1, <1>3, <3>1 DEF PInv, CallsOK, EventsR, EventListNames, NotifyPoints
  <2>3. Moved(eventLists, EventListNames, t, EventList, eventLists')
    BY <1>1, <2>1, <2>2, LinkByValueEffect DEF PInv, ListsOK, EventListNames
  <2>4. \A u \in AllTasks \ {t} : SameWait(u)
    BY <2>1, <2>3 DEF SameWait, Awaits, Unlinked, Moved
  <2>5. Awaits(t)'
    BY <1>1, <2>3 DEF Awaits, Unlinked, Moved, EventListNames
  <2> QED BY <1>1, <1>2, <2>1, <2>4, <2>5, BlockSimulated
<1>7. CASE ulTaskNotifyTake(t) \/ xTaskNotifyWait(t)
  <2>1. NotifyWaits \subseteq Ticks
    BY TasksAssumption DEF NotifyWaits, Ticks
  <2>2. /\ UNCHANGED eventLists
        /\ \/ UNCHANGED <<timeVars, stateLists, ucNotifyState>>
           \/ /\ ucNotifyState' = [ucNotifyState EXCEPT ![t] = "waiting"]
              /\ \/ UNCHANGED <<timeVars, stateLists>>
                 \/ \E n \in NotifyWaits : n > 0 /\ AddCurrentTaskToDelayedList(t, n, TRUE)
    <3>1. ASSUME NEW n \in NotifyWaits, NEW next, WaitForNotification(t, n, next)
          PROVE  /\ UNCHANGED eventLists
                 /\ ucNotifyState' = [ucNotifyState EXCEPT ![t] = "waiting"]
                 /\ \/ UNCHANGED <<timeVars, stateLists>>
                    \/ n > 0 /\ AddCurrentTaskToDelayedList(t, n, TRUE)
      BY <3>1, Zenon DEF WaitForNotification
    <3>2. \/ \E n \in NotifyWaits : WaitForNotification(t, n, "notifyTake")
          \/ \E n \in NotifyWaits : WaitForNotification(t, n, "notifyWait")
          \/ UNCHANGED <<timeVars, stateLists, eventLists, ucNotifyState>>
      BY <1>7, Zenon DEF ulTaskNotifyTake, xTaskNotifyWait
    <3> QED BY <3>1, <3>2, Zenon
  <2>3. \A u \in AllTasks : u # t => (ucNotifyState'[u] = "waiting" <=> ucNotifyState[u] = "waiting")
    BY <2>2 DEF PInv, Scalars
  <2>4. CASE UNCHANGED <<timeVars, stateLists>>
    BY <1>2, <1>3, <2>2, <2>3, <2>4, ListsUntouched DEF ClockStands
  <2>5. ASSUME NEW n \in NotifyWaits, n > 0, AddCurrentTaskToDelayedList(t, n, TRUE),
               ucNotifyState' = [ucNotifyState EXCEPT ![t] = "waiting"]
        PROVE  Simulated
    <3>1. \A u \in AllTasks \ {t} : SameWait(u)
      BY <2>2, <2>3 DEF SameWait, Awaits, Unlinked
    <3>2. Awaits(t)'
      BY <1>1, <2>5 DEF Awaits, PInv, Scalars
    <3>3. n \in Ticks /\ n # 0
      BY <2>1, <2>5, TasksAssumption DEF Ticks
    <3> QED BY <1>1, <1>2, <2>5, <3>1, <3>2, <3>3, BlockSimulated
  <2> QED BY <2>2, <2>4, <2>5
<1> QED BY <1>4, <1>5, <1>6, <1>7
-----------------------------------------------------------------------------
(* The invariant that the refinement rests on *)

\* A step that does not end with interrupts enabled or in the loop of xTaskResumeAll is a
\* tick, takes a task out of the delayed list or leaves the clock and the lists alone.
LEMMA LoopSteps ==
  ASSUME RefInv, [Next]_vars, mode' \notin {"open", "resume"}
  PROVE  UNCHANGED <<timeVars, stateLists>> \/ IncrementTick_Unblock \/ Tick \/ ResumeAll_ReplayTick
<1>1. ASSUME NEW t, CreateBeforeStart(t) \/ CallInProgress(t) \/ NewCall(t)
      PROVE  UNCHANGED <<timeVars, stateLists>>
  <2>1. CASE \E target \in Tasks : xTaskNotify(t, target)
    <3>1. PICK target \in Tasks : xTaskNotify(t, target)
      BY <2>1
    <3>2. mode = "open"
      BY <3>1 DEF xTaskNotify
    <3> QED BY <3>1, <3>2, Zenon DEF xTaskNotify
  <2>2. CASE ~ \E target \in Tasks : xTaskNotify(t, target)
    <3>1. mode' \in {"open", "resume"}
      BY <1>1, <2>2
      DEF CreateBeforeStart, RefInv, FirstTask,
      CallInProgress, Delay_AddToList, DelayUntil_AddToList, vTaskPlaceOnEventList,
      Suspend_ResetUnblockTime, Notify_Return, Yield, xTaskResumeAll,
      NewCall, vTaskDelay, vTaskDelayUntil, BlockOnEvent, BeginBlocking, xTaskGetTickCount,
      vTaskSuspendAll, ulTaskNotifyTake, xTaskNotifyWait, WaitForNotification,
      CallOn, xTaskCreate, vTaskSuspend, vTaskResume, xTaskNotifyStateClear,
      vTaskPrioritySet
    <3> QED BY <3>1
  <2> QED BY <2>1, <2>2
<1>2. CASE IdleTask
  BY <1>2, Zenon
  DEF IdleTask, Idle_Yield, Idle_SampleUnblockTime, Idle_SuspendAll, Idle_ConfirmIdleTime,
      Idle_Sleep, vTaskStepTick, AssertFails, xTaskResumeAll
<1>3. CASE MaskedLoop
  BY <1>3, Zenon DEF MaskedLoop, ResumeAll_MovePending, ResumeAll_Leave, IncrementTick_Leave
<1>4. CASE InterruptHandler
  BY <1>4, Zenon DEF InterruptHandler, xTaskRemoveFromEventList, xTaskResumeFromISR, xTaskNotifyFromISR
<1>5. CASE vTaskSwitchContext
  BY <1>5, Zenon DEF vTaskSwitchContext
<1>6. CASE UNCHANGED vars
  BY <1>6 DEF vars
<1>7. CASE vTaskStartScheduler
  BY <1>7 DEF vTaskStartScheduler, RefInv, FirstTask
<1> QED BY <1>1, <1>2, <1>3, <1>4, <1>5, <1>6, <1>7 DEF Next

\* No step leaves a task of the delayed list behind the count.
LEMMA NotPastStep ==
  ASSUME RefInv, PInv', TimeInv', [Next]_vars
  PROVE  NotPast'
<1> USE DEF RefInv
<1>1. CASE mode' \in {"open", "resume"}
  <2>1. \A t \in AllTasks : IsIn(stateLists', Current', t) => xTickCount' < xItemValue'[t]
    BY <1>1 DEF TimeInv, ClockInv, CurrentAhead
  <2>2. \A t \in AllTasks : xItemValue'[t] \in Nat /\ xTickCount' \in Nat
    BY DEF PInv, Scalars, Ticks
  <2> QED BY <2>1, <2>2 DEF NotPast
<1>2. CASE UNCHANGED <<timeVars, stateLists>>
  BY <1>2 DEF NotPast, Current, DelayedList
<1>3. CASE IncrementTick_Unblock
  <2>1. DueTask \in AllTasks /\ Current \in StateListNames /\ Current \in BlockedNames
        /\ IsIn(stateLists, Current, DueTask)
    <3>1. Current \in StateListNames /\ Current \in BlockedNames
      BY CurrentIsDelayed, DelayedNamesApart, CurrentAndOverflow DEF PInv, Scalars
    <3> QED BY <1>3, <3>1, EmptyIff DEF IncrementTick_Unblock, SomeTaskDue, DueTask, PInv, ListsOK, StateOK
  <2>2. MoveToReady(DueTask) /\ UNCHANGED timeVars /\ UNCHANGED uxPriority
    BY <1>3 DEF IncrementTick_Unblock
  <2> HIDE DEF DueTask
  <2>3. Moved(stateLists, StateListNames, DueTask, ReadyList(uxPriority[DueTask]), stateLists')
    BY <2>1, <2>2, LinkedIff, MoveToReadyKeeps DEF PInv, ListsOK, StateOK
  <2>4. \A u \in AllTasks : IsIn(stateLists', Current, u) => IsIn(stateLists, Current, u)
    BY <2>1, <2>3 DEF Moved
  <2>5. Current' = Current
    BY <2>2 DEF Current, DelayedList
  <2> QED BY <2>2, <2>4, <2>5 DEF NotPast
<1>4. CASE Tick \/ ResumeAll_ReplayTick
  <2>1. mode \in {"open", "resume"} /\ xSchedulerRunning
    BY <1>4 DEF Tick, ResumeAll_ReplayTick, FirstTask
  <2>2. CASE \E loop \in {"tick", "replay"}, done \in {"open", "resume"} : IncrementTick(loop, done)
    <3>1. PICK loop \in {"tick", "replay"}, done \in {"open", "resume"} : IncrementTick(loop, done)
      BY <2>2
    <3>2. CASE \E what : AssertFails(what)
      BY <1>2, <3>2 DEF AssertFails
    <3>3. CASE ~ \E what : AssertFails(what)
      <4>1. /\ xTickCount' = NextTick /\ pxDelayedTaskList' = DelayedListAt(NextTick)
            /\ UNCHANGED <<stateLists, xItemValue>>
        BY <3>1, <3>3, Zenon DEF IncrementTick
      <4>2. \A t \in AllTasks : xItemValue[t] \in Nat /\ xTickCount \in Nat
        BY DEF PInv, Scalars, Ticks
      <4>3. CASE NextTick = 0
        BY <4>1, <4>2, <4>3 DEF NotPast
      <4>4. CASE NextTick # 0
        <5>1. Current' = Current /\ xTickCount' = xTickCount + 1
          BY <4>1, <4>4, NextTickIs DEF Current, DelayedList, DelayedListAt, PInv, Scalars
        <5>2. \A t \in AllTasks : IsIn(stateLists, Current, t) => xTickCount < xItemValue[t]
          BY <2>1 DEF TimeInv, ClockInv, CurrentAhead
        <5> QED BY <4>1, <4>2, <5>1, <5>2 DEF NotPast
      <4> QED BY <4>3, <4>4
    <3> QED BY <3>2, <3>3
  <2>3. CASE ~ \E loop \in {"tick", "replay"}, done \in {"open", "resume"} : IncrementTick(loop, done)
    BY <1>2, <1>4, <2>3 DEF Tick, ResumeAll_ReplayTick
  <2> QED BY <2>2, <2>3
<1> QED BY <1>1, <1>2, <1>3, <1>4, LoopSteps

\* The scheduler does not stop once it runs, and before that only creations happen.
LEMMA OnlyCreationBeforeStart ==
  ASSUME RefInv, [Next]_vars, ~xSchedulerRunning'
  PROVE  /\ ~xSchedulerRunning
         /\ UNCHANGED vars \/ \E t \in Tasks : CreateBeforeStart(t)
<1>1. ~xSchedulerRunning => mode = "open"
  BY DEF RefInv, FirstTask
<1>2. ASSUME NEW t, CallInProgress(t) \/ NewCall(t) PROVE xSchedulerRunning /\ UNCHANGED xSchedulerRunning
  BY <1>2
  DEF CallInProgress, Delay_AddToList, DelayUntil_AddToList, vTaskPlaceOnEventList,
      Suspend_ResetUnblockTime, Notify_Return, Yield, xTaskResumeAll,
      NewCall, vTaskDelay, vTaskDelayUntil, BlockOnEvent, BeginBlocking, xTaskGetTickCount,
      vTaskSuspendAll, ulTaskNotifyTake, xTaskNotifyWait, WaitForNotification,
      CallOn, xTaskCreate, vTaskSuspend, vTaskResume, xTaskNotify, xTaskNotifyStateClear,
      vTaskPrioritySet
<1>3. IdleTask => xSchedulerRunning /\ UNCHANGED xSchedulerRunning
  BY Zenon
  DEF IdleTask, Idle_Yield, Idle_SampleUnblockTime, Idle_SuspendAll, Idle_ConfirmIdleTime,
      Idle_Sleep, vTaskStepTick, AssertFails, xTaskResumeAll
<1>4. MaskedLoop => mode # "open" /\ UNCHANGED xSchedulerRunning
  <2>1. MaskedLoop => mode # "open"
    BY DEF MaskedLoop, ResumeAll_MovePending, ResumeAll_Leave, ResumeAll_ReplayTick,
           IncrementTick_Leave, IncrementTick_Unblock, Unblocking
  <2>2. MaskedLoop => UNCHANGED xSchedulerRunning
    BY Zenon DEF MaskedLoop, ResumeAll_MovePending, ResumeAll_Leave, ResumeAll_ReplayTick,
           IncrementTick, AssertFails, IncrementTick_Leave, IncrementTick_Unblock
  <2> QED BY <2>1, <2>2
<1>5. InterruptHandler => xSchedulerRunning /\ UNCHANGED xSchedulerRunning
  BY Zenon DEF InterruptHandler, Tick, IncrementTick, AssertFails, xTaskRemoveFromEventList,
               xTaskResumeFromISR, xTaskNotifyFromISR
<1>6. vTaskSwitchContext => xSchedulerRunning /\ UNCHANGED xSchedulerRunning
  BY Zenon DEF vTaskSwitchContext
<1>7. vTaskStartScheduler => xSchedulerRunning'
  BY DEF vTaskStartScheduler
<1>8. UNCHANGED vars => UNCHANGED xSchedulerRunning
  BY DEF vars
<1>9. ASSUME NEW t \in Tasks, CreateBeforeStart(t) PROVE ~xSchedulerRunning
  BY <1>9 DEF CreateBeforeStart
<1> QED BY <1>1, <1>2, <1>3, <1>4, <1>5, <1>6, <1>7, <1>8, <1>9 DEF Next

\* The first task to run is kept up to date until the start.
LEMMA FirstTaskStep ==
  ASSUME RefInv, PInv', [Next]_vars
  PROVE  FirstTask'
<1>1. CASE xSchedulerRunning'
  BY <1>1 DEF FirstTask
<1>2. CASE ~xSchedulerRunning'
  <2>1. ~xSchedulerRunning /\ (UNCHANGED vars \/ \E t \in Tasks : CreateBeforeStart(t))
    BY <1>2, OnlyCreationBeforeStart
  <2>2. CASE UNCHANGED vars
    BY <2>2 DEF vars, FirstTask, Ready, RefInv
  <2>3. CASE \E t \in Tasks : CreateBeforeStart(t)
    <3>1. PICK t \in AllTasks : AddNewTask(t) /\ UNCHANGED <<mode, uxPriority>>
      BY <2>3 DEF CreateBeforeStart, AllTasks
    <3>2. /\ pxCurrentTCB' \in AllTasks /\ Ready(stateLists', pxCurrentTCB')
          /\ \A u \in AllTasks : Ready(stateLists', u) => uxPriority'[u] <= uxPriority'[pxCurrentTCB']
      BY <2>1, <3>1, FirstIsHighest
    <3>3. mode' = "open"
      BY <2>1, <3>1 DEF RefInv, FirstTask
    <3> QED BY <3>2, <3>3, TasksAssumption DEF FirstTask
  <2> QED BY <2>1, <2>2, <2>3
<1> QED BY <1>1, <1>2

\* The invariant holds at boot and is kept, for the margin of one tick that the sleep
\* keeps.
LEMMA RefInvInit == Init => RefInv
<1> SUFFICES ASSUME Init PROVE RefInv
  OBVIOUS
<1>1. \A n \in StateListNames, t \in AllTasks : ~IsIn(stateLists, n, t)
  BY DEF Init, IsIn, Owners, vListInitialise, ToSet
<1>2. PInv /\ TimeInv
  BY InitPInv, TimeInit
<1>3. NotPast
  BY <1>1, <1>2, CurrentIsDelayed, DelayedNamesApart DEF NotPast, PInv, Scalars
<1>4. FirstTask
  BY <1>1, StateListNamesDistinct DEF FirstTask, Ready, Init
<1> QED BY <1>2, <1>3, <1>4 DEF RefInv

\* Every step keeps it.
LEMMA RefInvStep ==
  ASSUME RefInv, [Next]_vars, SleepMargin = 1
  PROVE  RefInv'
<1>1. PInv' /\ TimeInv'
  BY NextKeepsPInv, TimeStep DEF RefInv
<1> QED BY <1>1, NotPastStep, FirstTaskStep DEF RefInv
-----------------------------------------------------------------------------
\* At boot there is no task in any list.
LEMMA InitIsScheduler == Init => Abstract!Init
<1> SUFFICES ASSUME Init PROVE Abstract!Init
  OBVIOUS
<1>1. \A n \in StateListNames, t \in AllTasks : ~IsIn(stateLists, n, t)
  BY DEF Init, IsIn, Owners, vListInitialise, ToSet
<1>2. Views
  BY InitPInv, ViewsHold
<1>3. \A t \in AllTasks : ~Ready(stateLists, t) /\ ~Blocked(stateLists, t)
  BY <1>1, StateListNamesDistinct DEF Ready, Blocked
<1>4. \A t \in AllTasks : StateOf(t) = "none" /\ LeftOf(t) = 0 /\ t \notin Waiting
  BY <1>2, <1>3 DEF Views, Blocked, BlockedNames, DelayedNames
<1>5. Waiting = {}
  BY <1>4 DEF Waiting
<1>6. uxPriority \in [AllTasks -> Priorities] /\ ~xSchedulerRunning /\ pxCurrentTCB = NoTask
  BY TasksAssumption DEF Init
<1> QED BY <1>4, <1>5, <1>6 DEF Abstract!Init, Init

\* Every step of the kernel is one of the abstract scheduler, or goes unnoticed.
LEMMA NextIsScheduler ==
  ASSUME RefInv, RefInv', [Next]_vars, SleepMargin = 1
  PROVE  Simulated
<1>0. PInv /\ PInv' /\ TimeInv' /\ Tasks \subseteq AllTasks /\ Idle \in AllTasks
  BY DEF RefInv, AllTasks
<1>1. ASSUME NEW t \in Tasks, CreateBeforeStart(t) \/ CallInProgress(t) \/ NewCall(t)
      PROVE  Simulated
  <2>1. CASE \/ Delay_AddToList(t) \/ DelayUntil_AddToList(t) \/ vTaskPlaceOnEventList(t)
             \/ ulTaskNotifyTake(t) \/ xTaskNotifyWait(t)
    BY <1>0, <2>1, BlockingCallSimulated
  <2>2. CASE \/ Suspend_ResetUnblockTime(t) \/ xTaskResumeAll(t) \/ Yield(t)
             \/ vTaskDelay(t) \/ vTaskDelayUntil(t) \/ BlockOnEvent(t)
             \/ xTaskGetTickCount(t) \/ vTaskSuspendAll(t)
             \/ Notify_Return(t) \/ \E target \in Tasks : xTaskNotifyStateClear(t, target)
    BY <1>0, <2>2, TasksUnnoticed
  <2>3. ASSUME NEW target \in Tasks, xTaskCreate(t, target) PROVE Simulated
    BY <1>0, <2>3, CreateSimulated
  <2>4. ASSUME NEW target \in Tasks, vTaskSuspend(t, target) PROVE Simulated
    BY <1>0, <2>4, SuspendSimulated
  <2>5. ASSUME NEW target \in Tasks, vTaskResume(t, target) PROVE Simulated
    BY <1>0, <2>5, ResumeSimulated
  <2>6. ASSUME NEW target \in Tasks, xTaskNotify(t, target) PROVE Simulated
    BY <1>0, <2>6, NotifySimulated
  <2>7. ASSUME NEW target \in Tasks, NEW p \in Priorities, vTaskPrioritySet(t, target, p)
        PROVE  Simulated
    BY <1>0, <2>7, PrioritySetSimulated
  <2>8. CASE CreateBeforeStart(t)
    BY <1>0, <2>8, CreateSimulated
  <2> QED BY <1>1, <2>1, <2>2, <2>3, <2>4, <2>5, <2>6, <2>7, <2>8 DEF CallInProgress, NewCall, CallOn
<1>2. CASE vTaskStartScheduler
  BY <1>0, <1>2, StartSimulated
<1>3. CASE IdleTask
  BY <1>0, <1>3, SystemUnnoticed, StepTickSimulated, TasksUnnoticed DEF IdleTask
<1>4. CASE MaskedLoop
  BY <1>0, <1>4, MovePendingSimulated, TickSimulated, SystemUnnoticed, UnblockSimulated DEF MaskedLoop
<1>5. CASE InterruptHandler
  BY <1>0, <1>5, TickSimulated, RemoveFromEventListSimulated, ResumeSimulated, NotifySimulated
  DEF InterruptHandler
<1>6. CASE vTaskSwitchContext
  BY <1>0, <1>6, SwitchSimulated
<1>7. CASE UNCHANGED vars
  BY <1>0, <1>7, SystemUnnoticed
<1> QED BY <1>1, <1>2, <1>3, <1>4, <1>5, <1>6, <1>7 DEF Next

\* The kernel implements the abstract scheduler: the ready task that runs outranks the
\* others, delays end when their ticks have passed, no wait ends without a reason, for any
\* number of tasks and priorities and any width of the tick count, if the sleep leaves its
\* last tick to the interrupt.
THEOREM ImplementsScheduler ==
  ASSUME SleepMargin = 1
  PROVE  Spec => IsScheduler
<1>1. Init => RefInv /\ Abstract!Init
  BY RefInvInit, InitIsScheduler
<1>2. RefInv /\ [Next]_vars => RefInv'
  BY RefInvStep
<1>3. RefInv /\ RefInv' /\ [Next]_vars => [Abstract!Next]_(Abstract!vars)
  BY NextIsScheduler DEF Simulated
<1> QED BY <1>1, <1>2, <1>3, PTL DEF Spec, IsScheduler, Abstract!Spec
=============================================================================
