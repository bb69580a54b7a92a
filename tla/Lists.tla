-------------------------------- MODULE Lists --------------------------------
(***************************************************************************)
(* The kernel's doubly linked lists (list.c, list.h) as values.            *)
(*                                                                         *)
(* A List_t is the record [items, index]: items are the owners of the list *)
(* items in the order in which the pxNext pointers visit them from         *)
(* xListEnd, and index is where pxIndex points: 0 for the xListEnd marker, *)
(* i for the i-th item.  The module gives the effect of each list.c        *)
(* operation on that value.                                                *)
(***************************************************************************)
EXTENDS Integers, SequencesExt

\* The lists over a set of owners in which no owner occurs twice.
ListOf(Owners) ==
  {list \in [items : Seq(Owners), index : Nat] :
     /\ IsInjective(list.items)
     /\ list.index \in 0 .. Len(list.items)}

Owners(list) == ToSet(list.items)

IsEmpty(list) == list.items = << >>

vListInitialise == [items |-> << >>, index |-> 0]

PositionOf(list, owner) ==
  CHOOSE i \in 1 .. Len(list.items) : list.items[i] = owner

\* An owner enters at position i; pxIndex keeps pointing at the same item.
LinkAt(list, i, owner) ==
  [items |-> InsertAt(list.items, i, owner),
   index |-> IF i <= list.index THEN list.index + 1 ELSE list.index]

\* The new item goes just before the one pxIndex points at, which makes it the
\* last one listGET_OWNER_OF_NEXT_ENTRY will come to.
vListInsertEnd(list, owner) ==
  LinkAt(list, IF list.index = 0 THEN Len(list.items) + 1 ELSE list.index, owner)

\* The first position whose item has a greater value, or the end of the list.
InsertionPoint(list, value, new) ==
  LET greater == {i \in 1 .. Len(list.items) : value[list.items[i]] > new}
  IN  IF greater = {} THEN Len(list.items) + 1 ELSE Min(greater)

\* value[o] is the xItemValue of the item o owns, new the value it enters with.
vListInsert(list, value, owner, new) ==
  LinkAt(list, InsertionPoint(list, value, new), owner)

\* pxIndex steps back when it points at the item that leaves.
uxListRemove(list, owner) ==
  LET i == PositionOf(list, owner)
  IN  [items |-> RemoveAt(list.items, i),
       index |-> IF i <= list.index THEN list.index - 1 ELSE list.index]

\* Mutant: always the first item.
AdvanceIndex_First(list) == [list EXCEPT !.index = 1]

\* listGET_OWNER_OF_NEXT_ENTRY first moves pxIndex on, skipping xListEnd, and
\* then reads the owner it points at.
AdvanceIndex(list) == [list EXCEPT !.index = (@ % Len(list.items)) + 1]

IndexOwner(list) == list.items[list.index]

HeadOwner(list) == list.items[1]
=============================================================================
