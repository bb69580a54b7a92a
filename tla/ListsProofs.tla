----------------------------- MODULE ListsProofs -----------------------------
(***************************************************************************)
(* What the list operations do to the set of owners, for lists of any      *)
(* length: the facts that the proofs about the scheduler rest on.          *)
(***************************************************************************)
EXTENDS Lists, SequenceTheorems, FiniteSetTheorems, TLAPS

\* InsertAt shifts what lies behind the new element.
LEMMA InsertAtProperties ==
  ASSUME NEW S, NEW s \in Seq(S), NEW i \in 1 .. Len(s) + 1, NEW e \in S
  PROVE  /\ InsertAt(s, i, e) \in Seq(S)
         /\ Len(InsertAt(s, i, e)) = Len(s) + 1
         /\ \A k \in 1 .. Len(s) + 1 :
              InsertAt(s, i, e)[k] = IF k < i THEN s[k] ELSE IF k = i THEN e ELSE s[k - 1]
<1> DEFINE front == SubSeq(s, 1, i - 1)
           back == SubSeq(s, i, Len(s))
<1>0. Len(s) \in Nat /\ \A k \in 1 .. Len(s) : s[k] \in S
  BY LenProperties
<1>1. front \in Seq(S) /\ Len(front) = i - 1 /\ \A k \in 1 .. i - 1 : front[k] = s[k]
  BY <1>0, SubSeqProperties
<1>2. /\ back \in Seq(S) /\ Len(back) = Len(s) - i + 1
      /\ \A k \in 1 .. Len(s) - i + 1 : back[k] = s[k + i - 1]
  <2>1. \A k \in i .. Len(s) : s[k] \in S
    BY <1>0
  <2> QED BY <1>0, <2>1, SubSeqProperties
<1>3. <<e>> \in Seq(S) /\ Len(<<e>>) = 1 /\ <<e>>[1] = e
  OBVIOUS
<1> DEFINE upTo == front \o <<e>>
           whole == upTo \o back
<1> HIDE DEF front, back
<1>4. /\ upTo \in Seq(S) /\ Len(upTo) = i
      /\ \A k \in 1 .. i : upTo[k] = IF k < i THEN s[k] ELSE e
  BY <1>0, <1>1, <1>3, ConcatProperties
<1> HIDE DEF upTo
<1>5. /\ whole \in Seq(S)
      /\ Len(whole) = i + (Len(s) - i + 1)
      /\ \A k \in 1 .. i + (Len(s) - i + 1) :
           whole[k] = IF k <= i THEN upTo[k] ELSE back[k - i]
  BY <1>2, <1>4, ConcatProperties
<1>6. InsertAt(s, i, e) = whole
  BY DEF InsertAt, front, back, upTo
<1> HIDE DEF whole
<1>7. i + (Len(s) - i + 1) = Len(s) + 1
  BY <1>0
<1>8. ASSUME NEW k \in 1 .. Len(s) + 1
      PROVE  whole[k] = IF k < i THEN s[k] ELSE IF k = i THEN e ELSE s[k - 1]
  <2>1. CASE k <= i
    BY <1>0, <1>4, <1>5, <1>7, <2>1
  <2>2. CASE k > i
    <3>1. k - i \in 1 .. Len(s) - i + 1 /\ (k - i) + i - 1 = k - 1
      BY <1>0, <2>2
    <3> QED BY <1>0, <1>2, <1>5, <1>7, <2>2, <3>1
  <2> QED BY <1>0, <2>1, <2>2
<1> QED BY <1>5, <1>6, <1>7, <1>8

\* RemoveAt closes the gap.
LEMMA RemoveAtProperties ==
  ASSUME NEW S, NEW s \in Seq(S), NEW i \in 1 .. Len(s)
  PROVE  /\ RemoveAt(s, i) \in Seq(S)
         /\ Len(RemoveAt(s, i)) = Len(s) - 1
         /\ \A k \in 1 .. Len(s) - 1 : RemoveAt(s, i)[k] = IF k < i THEN s[k] ELSE s[k + 1]
<1> DEFINE front == SubSeq(s, 1, i - 1)
           back == SubSeq(s, i + 1, Len(s))
<1>0. Len(s) \in Nat /\ \A k \in 1 .. Len(s) : s[k] \in S
  BY LenProperties
<1>1. front \in Seq(S) /\ Len(front) = i - 1 /\ \A k \in 1 .. i - 1 : front[k] = s[k]
  BY <1>0, SubSeqProperties
<1>2. /\ back \in Seq(S) /\ Len(back) = Len(s) - i
      /\ \A k \in 1 .. Len(s) - i : back[k] = s[k + i]
  <2>1. \A k \in i + 1 .. Len(s) : s[k] \in S
    BY <1>0
  <2> QED BY <1>0, <2>1, SubSeqProperties
<1> DEFINE whole == front \o back
<1> HIDE DEF front, back
<1>3. /\ whole \in Seq(S)
      /\ Len(whole) = Len(front) + Len(back)
      /\ \A k \in 1 .. Len(front) + Len(back) :
           whole[k] = IF k <= Len(front) THEN front[k] ELSE back[k - Len(front)]
  BY <1>1, <1>2, ConcatProperties
<1>4. RemoveAt(s, i) = whole
  BY DEF RemoveAt, front, back
<1> HIDE DEF whole
<1>5. Len(front) + Len(back) = Len(s) - 1
  BY <1>0, <1>1, <1>2
<1>6. ASSUME NEW k \in 1 .. Len(s) - 1
      PROVE  whole[k] = IF k < i THEN s[k] ELSE s[k + 1]
  <2>1. CASE k < i
    BY <1>0, <1>1, <1>3, <1>5, <2>1
  <2>2. CASE k >= i
    <3>1. /\ k - Len(front) \in 1 .. Len(s) - i /\ (k - Len(front)) + i = k + 1
          /\ ~(k <= Len(front))
      BY <1>0, <1>1, <2>2
    <3>2. whole[k] = back[k - Len(front)]
      BY <1>3, <1>5, <3>1
    <3>3. back[k - Len(front)] = s[k + 1]
      BY <1>2, <3>1
    <3>4. ~(k < i)
      BY <1>0, <2>2
    <3> QED BY <3>2, <3>3, <3>4
  <2> QED BY <1>0, <2>1, <2>2
<1> QED BY <1>3, <1>4, <1>5, <1>6
-----------------------------------------------------------------------------
\* ToSet and IsInjective in terms of positions.
LEMMA SeqPositions ==
  ASSUME NEW S, NEW s \in Seq(S)
  PROVE  /\ Len(s) \in Nat
         /\ \A k \in 1 .. Len(s) : s[k] \in ToSet(s) /\ s[k] \in S
         /\ \A x \in ToSet(s) : \E k \in 1 .. Len(s) : s[k] = x
         /\ IsInjective(s) <=> \A j, k \in 1 .. Len(s) : s[j] = s[k] => j = k
         /\ ToSet(s) \subseteq S
<1>1. DOMAIN s = 1 .. Len(s) /\ Len(s) \in Nat /\ \A k \in 1 .. Len(s) : s[k] \in S
  BY LenProperties
<1> QED BY <1>1 DEF ToSet, IsInjective

\* An element that is new to a sequence without repetitions enters it.
LEMMA InsertAtElements ==
  ASSUME NEW S, NEW s \in Seq(S), NEW i \in 1 .. Len(s) + 1, NEW e \in S,
         IsInjective(s), e \notin ToSet(s),
         NEW new, new = InsertAt(s, i, e)
  PROVE  /\ new \in Seq(S) /\ Len(new) = Len(s) + 1
         /\ IsInjective(new) /\ ToSet(new) = ToSet(s) \cup {e}
<1>1. Len(s) \in Nat /\ \A j, k \in 1 .. Len(s) : s[j] = s[k] => j = k
  BY SeqPositions
<1>2. /\ new \in Seq(S) /\ Len(new) = Len(s) + 1
      /\ \A k \in 1 .. Len(s) + 1 :
           new[k] = IF k < i THEN s[k] ELSE IF k = i THEN e ELSE s[k - 1]
  <2>1. /\ InsertAt(s, i, e) \in Seq(S) /\ Len(InsertAt(s, i, e)) = Len(s) + 1
        /\ \A k \in 1 .. Len(s) + 1 :
             InsertAt(s, i, e)[k] = IF k < i THEN s[k] ELSE IF k = i THEN e ELSE s[k - 1]
    BY InsertAtProperties
  <2> QED BY <2>1
<1> DEFINE from(k) == IF k < i THEN k ELSE k - 1
           to(k) == IF k < i THEN k ELSE k + 1
<1>3. \A k \in 1 .. Len(new) : k # i => from(k) \in 1 .. Len(s) /\ new[k] = s[from(k)]
  BY <1>1, <1>2
<1>4. new[i] = e /\ i \in 1 .. Len(new)
  BY <1>1, <1>2
<1>5. ASSUME NEW j \in 1 .. Len(new), NEW k \in 1 .. Len(new), new[j] = new[k]
      PROVE  j = k
  <2>1. CASE j # i /\ k # i
    <3>1. from(j) = from(k)
      BY <1>1, <1>3, <1>5, <2>1
    <3> QED BY <1>1, <1>2, <2>1, <3>1
  <2>2. CASE j = i \/ k = i
    BY <1>3, <1>4, <1>5, <2>2, SeqPositions
  <2> QED BY <2>1, <2>2
<1>6. \A k \in 1 .. Len(s) : to(k) \in 1 .. Len(new) /\ new[to(k)] = s[k]
  <2> TAKE k \in 1 .. Len(s)
  <2>1. to(k) \in 1 .. Len(new) /\ to(k) # i /\ from(to(k)) = k
    BY <1>1, <1>2
  <2> QED BY <1>3, <2>1
<1>7. ASSUME NEW k \in 1 .. Len(new)
      PROVE  new[k] \in ToSet(s) \cup {e}
  BY <1>3, <1>4, SeqPositions
<1>8. ASSUME NEW k \in 1 .. Len(s)
      PROVE  s[k] \in ToSet(new)
  BY <1>2, <1>6, SeqPositions
<1>9. e \in ToSet(new)
  BY <1>2, <1>4, SeqPositions
<1> HIDE DEF from, to
<1>10. ToSet(new) = ToSet(s) \cup {e}
  BY <1>2, <1>7, <1>8, <1>9, SeqPositions
<1>11. IsInjective(new)
  BY <1>2, <1>5, SeqPositions
<1> QED BY <1>2, <1>10, <1>11

\* An element of a sequence without repetitions leaves it.
LEMMA RemoveAtElements ==
  ASSUME NEW S, NEW s \in Seq(S), NEW i \in 1 .. Len(s),
         IsInjective(s),
         NEW new, new = RemoveAt(s, i)
  PROVE  /\ new \in Seq(S) /\ Len(new) = Len(s) - 1
         /\ IsInjective(new) /\ ToSet(new) = ToSet(s) \ {s[i]}
<1> DEFINE from(k) == IF k < i THEN k ELSE k + 1
           to(k) == IF k < i THEN k ELSE k - 1
<1>1. Len(s) \in Nat /\ \A j, k \in 1 .. Len(s) : s[j] = s[k] => j = k
  BY SeqPositions
<1>2. /\ new \in Seq(S) /\ Len(new) = Len(s) - 1
      /\ \A k \in 1 .. Len(s) - 1 : new[k] = IF k < i THEN s[k] ELSE s[k + 1]
  BY RemoveAtProperties
<1>3. \A k \in 1 .. Len(new) :
        from(k) \in 1 .. Len(s) /\ from(k) # i /\ new[k] = s[from(k)]
  BY <1>1, <1>2
<1>4. ASSUME NEW j \in 1 .. Len(new), NEW k \in 1 .. Len(new), new[j] = new[k]
      PROVE  j = k
  <2>1. from(j) = from(k)
    BY <1>1, <1>3, <1>4
  <2> QED BY <1>1, <1>2, <2>1
<1>5. \A k \in 1 .. Len(s) : k # i => to(k) \in 1 .. Len(new) /\ new[to(k)] = s[k]
  <2> SUFFICES ASSUME NEW k \in 1 .. Len(s), k # i
               PROVE  to(k) \in 1 .. Len(new) /\ new[to(k)] = s[k]
    OBVIOUS
  <2>1. to(k) \in 1 .. Len(new) /\ from(to(k)) = k
    BY <1>1, <1>2
  <2> QED BY <1>3, <2>1
<1>6. ASSUME NEW k \in 1 .. Len(new)
      PROVE  new[k] \in ToSet(s) \ {s[i]}
  BY <1>3, SeqPositions
<1>7. ASSUME NEW k \in 1 .. Len(s), s[k] # s[i]
      PROVE  s[k] \in ToSet(new)
  BY <1>2, <1>5, <1>7, SeqPositions
<1> HIDE DEF from, to
<1>8. ToSet(new) = ToSet(s) \ {s[i]}
  BY <1>2, <1>6, <1>7, SeqPositions
<1>9. IsInjective(new)
  BY <1>2, <1>4, SeqPositions
<1> QED BY <1>2, <1>8, <1>9
-----------------------------------------------------------------------------
\* What a list is, field by field.
LEMMA ListFields ==
  ASSUME NEW S, NEW list \in ListOf(S)
  PROVE  /\ list.items \in Seq(S)
         /\ Len(list.items) \in Nat
         /\ list.index \in 0 .. Len(list.items)
         /\ IsInjective(list.items)
         /\ Owners(list) = ToSet(list.items)
BY LenProperties DEF ListOf, Owners

\* Conversely, a record with such fields is a list.
LEMMA ListOfFields ==
  ASSUME NEW S, NEW items \in Seq(S), NEW index \in 0 .. Len(items), IsInjective(items)
  PROVE  /\ [items |-> items, index |-> index] \in ListOf(S)
         /\ Owners([items |-> items, index |-> index]) = ToSet(items)
BY LenProperties DEF ListOf, Owners

\* A list is a list over any set that has its owners.
LEMMA ListOfItsOwners ==
  ASSUME NEW S, NEW list \in ListOf(S), NEW T, Owners(list) \subseteq T
  PROVE  list \in ListOf(T)
<1>1. /\ list.items \in Seq(S) /\ list.index \in 0 .. Len(list.items) /\ IsInjective(list.items)
      /\ Owners(list) = ToSet(list.items)
  BY ListFields
<1>2. list.items \in Seq(T)
  <2>1. Len(list.items) \in Nat /\ \A k \in 1 .. Len(list.items) : list.items[k] \in T
    BY <1>1, SeqPositions
  <2>2. list.items = [k \in 1 .. Len(list.items) |-> list.items[k]]
    BY <1>1
  <2> QED BY <2>1, <2>2, IsASeq
<1>3. list = [items |-> list.items, index |-> list.index]
  BY DEF ListOf
<1> QED BY <1>1, <1>2, <1>3, ListOfFields

\* A list just initialised has no owner.
LEMMA EmptyList ==
  ASSUME NEW S
  PROVE  vListInitialise \in ListOf(S) /\ Owners(vListInitialise) = {}
<1> DEFINE none == << >>
<1>1. none \in Seq(S) /\ Len(none) = 0
  BY EmptySeq
<1> HIDE DEF none
<1>2. 0 \in 0 .. Len(none) /\ IsInjective(none) /\ ToSet(none) = {}
  <2>1. \A k \in 1 .. Len(none) : FALSE
    BY <1>1
  <2>2. IsInjective(none) <=> \A j, k \in 1 .. Len(none) : none[j] = none[k] => j = k
    BY <1>1, SeqPositions
  <2>3. \A x \in ToSet(none) : \E k \in 1 .. Len(none) : none[k] = x
    BY <1>1, SeqPositions
  <2> QED BY <1>1, <2>1, <2>2, <2>3
<1> QED BY <1>1, <1>2, ListOfFields DEF vListInitialise, none

\* listLIST_IS_EMPTY, in terms of the owners; the head is an owner.
LEMMA IsEmptyIffNoOwner ==
  ASSUME NEW S, NEW list \in ListOf(S)
  PROVE  /\ IsEmpty(list) <=> Owners(list) = {}
         /\ ~IsEmpty(list) => HeadOwner(list) \in Owners(list)
<1>1. /\ list.items \in Seq(S) /\ Len(list.items) \in Nat
      /\ Owners(list) = ToSet(list.items)
  BY ListFields
<1>2. IsEmpty(list) <=> Len(list.items) = 0
  BY <1>1, EmptySeq DEF IsEmpty
<1>3. ASSUME ~IsEmpty(list) PROVE list.items[1] \in Owners(list)
  BY <1>1, <1>2, <1>3, SeqPositions
<1>4. ASSUME IsEmpty(list) PROVE Owners(list) = {}
  BY <1>1, <1>2, <1>4, SeqPositions
<1> QED BY <1>3, <1>4 DEF HeadOwner

\* An owner that is new to the list enters, the others stay.
LEMMA LinkAtOwners ==
  ASSUME NEW S, NEW list \in ListOf(S), NEW i \in 1 .. Len(list.items) + 1,
         NEW owner \in S, owner \notin Owners(list)
  PROVE  /\ LinkAt(list, i, owner) \in ListOf(S)
         /\ Owners(LinkAt(list, i, owner)) = Owners(list) \cup {owner}
<1> DEFINE items == InsertAt(list.items, i, owner)
           index == IF i <= list.index THEN list.index + 1 ELSE list.index
<1>1. /\ items \in Seq(S) /\ Len(items) = Len(list.items) + 1
      /\ IsInjective(items) /\ ToSet(items) = Owners(list) \cup {owner}
  BY ListFields, InsertAtElements
<1>2. index \in 0 .. Len(items)
  BY <1>1, ListFields
<1>3. LinkAt(list, i, owner) = [items |-> items, index |-> index]
  BY DEF LinkAt
<1> HIDE DEF items, index
<1> QED BY <1>1, <1>2, <1>3, ListOfFields

\* vListInsertEnd adds the owner.
LEMMA InsertEndOwners ==
  ASSUME NEW S, NEW list \in ListOf(S), NEW owner \in S, owner \notin Owners(list)
  PROVE  /\ vListInsertEnd(list, owner) \in ListOf(S)
         /\ Owners(vListInsertEnd(list, owner)) = Owners(list) \cup {owner}
<1> DEFINE i == IF list.index = 0 THEN Len(list.items) + 1 ELSE list.index
<1>1. i \in 1 .. Len(list.items) + 1
  BY ListFields
<1>2. vListInsertEnd(list, owner) = LinkAt(list, i, owner)
  BY DEF vListInsertEnd
<1> HIDE DEF i
<1> QED BY <1>1, <1>2, LinkAtOwners

\* The smallest element of a set of numbers.
LEMMA MinProperties ==
  ASSUME NEW T \in SUBSET Nat, T # {}
  PROVE  Min(T) \in T /\ \A x \in T : Min(T) <= x
<1> DEFINE upTo == {0 .. k : k \in T}
<1>1. upTo \subseteq FiniteSubsetsOf(Nat) /\ upTo # {}
  <2>1. ASSUME NEW k \in T PROVE 0 .. k \in FiniteSubsetsOf(Nat)
    <3>1. k \in Nat
      OBVIOUS
    <3>2. IsFiniteSet(0 .. k) /\ 0 .. k \subseteq Nat
      BY <3>1, FS_Interval
    <3> QED BY <3>2 DEF FiniteSubsetsOf
  <2> QED BY <2>1
<1>2. PICK least \in upTo : \A other \in upTo : <<other, least>> \notin StrictSubsetOrdering(Nat)
  BY <1>1, FS_StrictSubsetOrderingWellFounded, WFMin
<1>3. PICK m \in T : least = 0 .. m
  OBVIOUS
<1>4. ASSUME NEW x \in T, ~(m <= x) PROVE FALSE
  <2>1. 0 .. x \subseteq 0 .. m /\ m \in 0 .. m /\ m \notin 0 .. x
    BY <1>4
  <2>2. <<0 .. x, 0 .. m>> \in StrictSubsetOrdering(Nat)
    BY <2>1 DEF StrictSubsetOrdering
  <2> QED BY <1>2, <1>3, <2>2
<1>5. \A x \in T : m <= x
  BY <1>4
<1> QED BY <1>5 DEF Min

\* vListInsert adds the owner.
LEMMA InsertOwners ==
  ASSUME NEW S, NEW list \in ListOf(S), NEW owner \in S, owner \notin Owners(list),
         NEW value, NEW new
  PROVE  /\ vListInsert(list, value, owner, new) \in ListOf(S)
         /\ Owners(vListInsert(list, value, owner, new)) = Owners(list) \cup {owner}
<1> DEFINE greater == {i \in 1 .. Len(list.items) : value[list.items[i]] > new}
           i == InsertionPoint(list, value, new)
<1>1. Len(list.items) \in Nat
  BY ListFields
<1>2. greater \subseteq Nat /\ greater \subseteq 1 .. Len(list.items)
  BY <1>1
<1>3. i = IF greater = {} THEN Len(list.items) + 1 ELSE Min(greater)
  BY DEF InsertionPoint
<1> HIDE DEF greater, i
<1>4. i \in 1 .. Len(list.items) + 1
  BY <1>1, <1>2, <1>3, MinProperties
<1>5. vListInsert(list, value, owner, new) = LinkAt(list, i, owner)
  BY DEF vListInsert, i
<1> QED BY <1>4, <1>5, LinkAtOwners

\* uxListRemove takes the owner out, the others stay.
LEMMA RemoveOwners ==
  ASSUME NEW S, NEW list \in ListOf(S), NEW owner \in Owners(list)
  PROVE  /\ uxListRemove(list, owner) \in ListOf(S)
         /\ Owners(uxListRemove(list, owner)) = Owners(list) \ {owner}
<1> DEFINE i == PositionOf(list, owner)
           items == RemoveAt(list.items, i)
           index == IF i <= list.index THEN list.index - 1 ELSE list.index
<1>1. \E k \in 1 .. Len(list.items) : list.items[k] = owner
  BY ListFields, SeqPositions
<1>2. i \in 1 .. Len(list.items) /\ list.items[i] = owner
  BY <1>1 DEF PositionOf
<1>3. uxListRemove(list, owner) = [items |-> items, index |-> index]
  BY DEF uxListRemove
<1> HIDE DEF i
<1>4. /\ items \in Seq(S) /\ Len(items) = Len(list.items) - 1
      /\ IsInjective(items) /\ ToSet(items) = Owners(list) \ {owner}
  BY <1>2, ListFields, RemoveAtElements
<1>5. index \in 0 .. Len(items)
  BY <1>2, <1>4, ListFields
<1> HIDE DEF items, index
<1> QED BY <1>3, <1>4, <1>5, ListOfFields

\* listGET_OWNER_OF_NEXT_ENTRY moves pxIndex to one of the owners and changes
\* nothing else.
LEMMA AdvanceIndexOwners ==
  ASSUME NEW S, NEW list \in ListOf(S), ~IsEmpty(list)
  PROVE  /\ AdvanceIndex(list) \in ListOf(S)
         /\ Owners(AdvanceIndex(list)) = Owners(list)
         /\ IndexOwner(AdvanceIndex(list)) \in Owners(list)
<1> DEFINE n == Len(list.items)
           index == (list.index % n) + 1
<1>1. n \in Nat /\ n # 0 /\ list.index \in Nat /\ list.items \in Seq(S) /\ IsInjective(list.items)
  BY ListFields, EmptySeq DEF IsEmpty
<1>2. index \in 1 .. n
  BY <1>1
<1>3. AdvanceIndex(list) = [items |-> list.items, index |-> index]
  BY DEF AdvanceIndex, ListOf
<1> HIDE DEF index
<1>4. index \in 0 .. Len(list.items)
  BY <1>1, <1>2
<1>5. /\ [items |-> list.items, index |-> index] \in ListOf(S)
      /\ Owners([items |-> list.items, index |-> index]) = Owners(list)
  BY <1>1, <1>4, ListOfFields, ListFields
<1>6. list.items[index] \in Owners(list)
  BY <1>1, <1>2, ListFields, SeqPositions
<1> QED BY <1>3, <1>5, <1>6 DEF IndexOwner
-----------------------------------------------------------------------------
(* Lists in the order of their items' values, as vListInsert keeps them *)

Ordered(list, value) ==
  \A i, j \in 1 .. Len(list.items) : i <= j => value[list.items[i]] <= value[list.items[j]]

\* In an ordered list the head has the smallest value.
LEMMA HeadIsFirst ==
  ASSUME NEW S, NEW list \in ListOf(S), NEW value, Ordered(list, value), ~IsEmpty(list)
  PROVE  \A o \in Owners(list) : value[HeadOwner(list)] <= value[o]
<1>1. /\ list.items \in Seq(S) /\ Len(list.items) \in Nat
      /\ Owners(list) = ToSet(list.items)
  BY ListFields
<1>2. TAKE o \in Owners(list)
<1>3. PICK k \in 1 .. Len(list.items) : list.items[k] = o
  BY <1>1, SeqPositions
<1>4. 1 \in 1 .. Len(list.items) /\ 1 <= k
  BY <1>1, <1>3
<1> QED BY <1>3, <1>4 DEF Ordered, HeadOwner

\* The order depends on the values of the owners only.
LEMMA OrderOfOwners ==
  ASSUME NEW S, NEW list \in ListOf(S), NEW value, Ordered(list, value),
         NEW other, \A o \in Owners(list) : other[o] = value[o]
  PROVE  Ordered(list, other)
BY ListFields, SeqPositions DEF Ordered

\* vListInsert keeps the order.
LEMMA InsertOrdered ==
  ASSUME NEW S, NEW list \in ListOf(S), NEW value \in [S -> Nat], Ordered(list, value),
         NEW owner \in S, owner \notin Owners(list), NEW new \in Nat,
         NEW other, other = [value EXCEPT ![owner] = new]
  PROVE  Ordered(vListInsert(list, value, owner, new), other)
<1> DEFINE s == list.items
           greater == {i \in 1 .. Len(list.items) : value[list.items[i]] > new}
           i == InsertionPoint(list, value, new)
           after == vListInsert(list, value, owner, new)
<1>1. s \in Seq(S) /\ Len(s) \in Nat /\ \A k \in 1 .. Len(s) : s[k] \in S /\ s[k] # owner
  BY ListFields, SeqPositions
<1>2. greater \subseteq Nat /\ greater \subseteq 1 .. Len(s)
  BY <1>1
<1>3. i = IF greater = {} THEN Len(s) + 1 ELSE Min(greater)
  BY DEF InsertionPoint
<1>4. \A k \in 1 .. Len(s) : k \in greater <=> value[s[k]] > new
  OBVIOUS
<1> HIDE DEF greater, i
<1>5. i \in 1 .. Len(s) + 1 /\ \A k \in 1 .. Len(s) : k < i => k \notin greater
  BY <1>1, <1>2, <1>3, MinProperties
<1>6. i # Len(s) + 1 => i \in greater
  BY <1>2, <1>3, MinProperties
<1>7. \A k \in 1 .. Len(s) : value[s[k]] \in Nat /\ other[s[k]] = value[s[k]]
  BY <1>1
<1>8. other[owner] = new
  OBVIOUS
<1>9. \A k \in 1 .. Len(s) : k < i => value[s[k]] <= new
  BY <1>4, <1>5, <1>7
<1>10. \A k \in 1 .. Len(s) : i <= k => new <= value[s[k]]
  <2> TAKE k \in 1 .. Len(s)
  <2> HAVE i <= k
  <2>1. i \in 1 .. Len(s) /\ value[s[i]] > new
    BY <1>1, <1>2, <1>4, <1>5, <1>6
  <2>2. value[s[i]] <= value[s[k]]
    BY <2>1 DEF Ordered
  <2> QED BY <1>7, <2>1, <2>2
<1>11. /\ Len(after.items) = Len(s) + 1
       /\ \A k \in 1 .. Len(s) + 1 :
            after.items[k] = IF k < i THEN s[k] ELSE IF k = i THEN owner ELSE s[k - 1]
  <2>1. after.items = InsertAt(s, i, owner)
    BY DEF vListInsert, LinkAt, i
  <2>2. /\ Len(InsertAt(s, i, owner)) = Len(s) + 1
        /\ \A k \in 1 .. Len(s) + 1 :
             InsertAt(s, i, owner)[k] = IF k < i THEN s[k] ELSE IF k = i THEN owner ELSE s[k - 1]
    <3> HIDE DEF s
    <3>1. s \in Seq(S) /\ i \in 1 .. Len(s) + 1
      BY <1>1, <1>5
    <3> QED BY <3>1, InsertAtProperties
  <2> HIDE DEF after
  <2> QED BY <2>1, <2>2
<1> HIDE DEF after
<1> DEFINE from(k) == IF k < i THEN k ELSE k - 1
<1>12. \A k \in 1 .. Len(s) + 1 :
         k # i => /\ from(k) \in 1 .. Len(s) /\ (k < i <=> from(k) < i)
                  /\ other[after.items[k]] = value[s[from(k)]]
  <2> TAKE k \in 1 .. Len(s) + 1
  <2> HAVE k # i
  <2>1. from(k) \in 1 .. Len(s) /\ (k < i <=> from(k) < i)
    BY <1>1, <1>5
  <2>2. after.items[k] = s[from(k)]
    BY <1>11
  <2> QED BY <1>7, <2>1, <2>2
<1>13. \A j, k \in 1 .. Len(s) + 1 : j # i /\ k # i /\ j <= k => from(j) <= from(k)
  BY <1>1, <1>5
<1>14. other[after.items[i]] = new
  BY <1>1, <1>5, <1>8, <1>11
<1>15. \A k \in 1 .. Len(s) : k < i \/ i <= k
  BY <1>1, <1>5
<1>16. i \in 1 .. Len(s) + 1 /\ new <= new
  BY <1>5
<1>17. \A j, k \in 1 .. Len(s) + 1 : j <= k => (j = i => ~(k < i)) /\ (k = i => j < i \/ j = i)
  BY <1>1, <1>5
<1> HIDE DEF from, s
<1>18. ASSUME NEW j \in 1 .. Len(s) + 1, NEW k \in 1 .. Len(s) + 1, j <= k
       PROVE  other[after.items[j]] <= other[after.items[k]]
  <2>1. CASE j # i /\ k # i
    <3>1. value[s[from(j)]] <= value[s[from(k)]]
      BY <1>12, <1>13, <1>18, <2>1 DEF Ordered, s
    <3> QED BY <1>12, <2>1, <3>1
  <2>2. CASE j = i /\ k # i
    BY <1>10, <1>12, <1>14, <1>15, <1>17, <1>18, <2>2
  <2>3. CASE j # i /\ k = i
    BY <1>9, <1>12, <1>14, <1>17, <1>18, <2>3
  <2>4. CASE j = i /\ k = i
    BY <1>14, <1>16, <2>4
  <2> QED BY <2>1, <2>2, <2>3, <2>4
<1>19. Len(after.items) = Len(s) + 1
  BY <1>11
<1> QED BY <1>18, <1>19 DEF Ordered, after

\* uxListRemove keeps the order.
LEMMA RemoveOrdered ==
  ASSUME NEW S, NEW list \in ListOf(S), NEW value, Ordered(list, value),
         NEW owner \in Owners(list)
  PROVE  Ordered(uxListRemove(list, owner), value)
<1> DEFINE s == list.items
           i == PositionOf(list, owner)
           after == uxListRemove(list, owner)
<1>1. s \in Seq(S) /\ Len(s) \in Nat
  BY ListFields
<1>2. i \in 1 .. Len(s)
  <2>1. \E k \in 1 .. Len(list.items) : list.items[k] = owner
    BY ListFields, SeqPositions
  <2> QED BY <2>1 DEF PositionOf
<1>3. after.items = RemoveAt(s, i)
  BY DEF uxListRemove
<1> HIDE DEF i, after
<1>4. /\ Len(after.items) = Len(s) - 1
      /\ \A k \in 1 .. Len(s) - 1 : after.items[k] = IF k < i THEN s[k] ELSE s[k + 1]
  BY <1>1, <1>2, <1>3, RemoveAtProperties
<1> DEFINE from(k) == IF k < i THEN k ELSE k + 1
<1>5. \A k \in 1 .. Len(s) - 1 : from(k) \in 1 .. Len(s) /\ after.items[k] = s[from(k)]
  BY <1>1, <1>2, <1>4
<1>6. \A j, k \in 1 .. Len(s) - 1 : j <= k => from(j) <= from(k)
  BY <1>1, <1>2
<1> HIDE DEF from
<1> QED BY <1>4, <1>5, <1>6 DEF Ordered, after
=============================================================================
