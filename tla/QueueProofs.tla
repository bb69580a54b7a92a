----------------------------- MODULE QueueProofs -----------------------------
(***************************************************************************)
(* Proofs about the queue, for every length, number of tasks and priority. *)
(*                                                                         *)
(* The data first.  The items are the n slots that follow pcReadFrom in    *)
(* the ring, and pcWriteTo is the slot behind the last one (Data).  Slot   *)
(* says which slot that is without a modulus, and every operation on the   *)
(* pointers is then shown to be one on the sequence of items: an Append, a *)
(* push to the front, a Tail.  This gives the refinement.                  *)
(*                                                                         *)
(* Then the tasks.  TaskInv says where in its call a task can be that is   *)
(* in an event list, and that only the running task is in its locked       *)
(* section.  While the queue is locked an interrupt wakes nobody, but      *)
(* counts: what the unlocking task will wake (Held) is added to the tasks  *)
(* woken already, and the sum is never less than the number of messages,   *)
(* or of free places, while a task waits.  A task that is about to place   *)
(* itself in an event list has seen the queue empty, or full: what is      *)
(* there now came after it had locked the queue, and was counted           *)
(* (PlacedRightly).                                                        *)
(***************************************************************************)
EXTENDS Queue, ListsProofs

\* Arithmetic of the ring: at most one turn is taken off.
LEMMA Modulus ==
  ASSUME NEW L \in Nat \ {0}, NEW x \in 0 .. 2 * L - 1
  PROVE  x % L = IF x < L THEN x ELSE x - L
OBVIOUS

\* The tasks that n calls of xTaskRemoveFromEventList wake: n of them, if any is left.
LEMMA FirstOnes ==
  ASSUME NEW S, NEW list \in ListOf(S), NEW n \in Nat
  PROVE  /\ WithoutFirst(list, n) \in ListOf(S)
         /\ Owners(WithoutFirst(list, n)) = Owners(list) \ FirstOf(list, n)
         /\ FirstOf(list, n) \subseteq Owners(list)
         /\ ~IsEmpty(WithoutFirst(list, n)) =>
              ~IsEmpty(list) /\ \E f : f \in Injection(1 .. n, FirstOf(list, n))
<1> DEFINE s == list.items
           rest == SubSeq(s, n + 1, Len(s))
           index == IF list.index > n THEN list.index - n ELSE 0
<1>1. /\ s \in Seq(S) /\ Len(s) \in Nat /\ list.index \in 0 .. Len(s)
      /\ IsInjective(s) /\ Owners(list) = ToSet(s)
  BY ListFields
<1>2. /\ \A k \in 1 .. Len(s) : s[k] \in ToSet(s) /\ s[k] \in S
      /\ \A x \in ToSet(s) : \E k \in 1 .. Len(s) : s[k] = x
      /\ \A j, k \in 1 .. Len(s) : s[j] = s[k] => j = k
  BY <1>1, SeqPositions
<1>3. /\ rest \in Seq(S) /\ Len(rest) = IF n <= Len(s) THEN Len(s) - n ELSE 0
      /\ \A k \in 1 .. Len(s) - n : rest[k] = s[k + n]
  <2>1. \A k \in n + 1 .. Len(s) : s[k] \in S
    BY <1>2
  <2> QED BY <1>1, <2>1, SubSeqProperties
<1>4. WithoutFirst(list, n) = [items |-> rest, index |-> index]
  BY DEF WithoutFirst
<1> HIDE DEF rest
<1>5. index \in 0 .. Len(rest)
  BY <1>1, <1>3
<1>6. ASSUME NEW j \in 1 .. Len(rest), NEW k \in 1 .. Len(rest), rest[j] = rest[k]
      PROVE  j = k
  <2>1. j \in 1 .. Len(s) - n /\ k \in 1 .. Len(s) - n
    BY <1>1, <1>3
  <2>2. j + n \in 1 .. Len(s) /\ k + n \in 1 .. Len(s) /\ s[j + n] = s[k + n]
    BY <1>1, <1>3, <1>6, <2>1
  <2>3. j + n = k + n
    BY <1>2, <2>2
  <2> QED BY <2>1, <2>3
<1>7. IsInjective(rest)
  <2>1. IsInjective(rest) <=> \A j, k \in 1 .. Len(rest) : rest[j] = rest[k] => j = k
    BY <1>3, SeqPositions
  <2> QED BY <1>6, <2>1
<1>8. WithoutFirst(list, n) \in ListOf(S) /\ Owners(WithoutFirst(list, n)) = ToSet(rest)
  BY <1>3, <1>4, <1>5, <1>7, ListOfFields
<1>9. FirstOf(list, n) = {s[i] : i \in {j \in 1 .. Len(s) : j <= n}}
  BY DEF FirstOf
<1>10. ToSet(rest) = ToSet(s) \ FirstOf(list, n)
  <2>1. \A x \in ToSet(rest) : \E k \in 1 .. Len(rest) : rest[k] = x
    BY <1>3, SeqPositions
  <2>2. \A k \in 1 .. Len(rest) : rest[k] \in ToSet(rest)
    BY <1>3, SeqPositions
  <2>3. ASSUME NEW x \in ToSet(rest) PROVE x \in ToSet(s) \ FirstOf(list, n)
    <3>1. PICK k \in 1 .. Len(rest) : rest[k] = x
      BY <2>1
    <3>2. k + n \in 1 .. Len(s) /\ x = s[k + n] /\ ~(k + n <= n)
      BY <1>1, <1>3, <3>1
    <3> QED BY <1>2, <1>9, <3>2
  <2>4. ASSUME NEW x \in ToSet(s) \ FirstOf(list, n) PROVE x \in ToSet(rest)
    <3>1. PICK k \in 1 .. Len(s) : s[k] = x
      BY <1>2
    <3>2. ~(k <= n)
      BY <1>9, <3>1
    <3>3. k - n \in 1 .. Len(rest) /\ k - n \in 1 .. Len(s) - n /\ (k - n) + n = k
      BY <1>1, <1>3, <3>2
    <3>4. rest[k - n] = x
      BY <1>3, <3>1, <3>3
    <3> QED BY <2>2, <3>3, <3>4
  <2> QED BY <2>3, <2>4
<1>11. FirstOf(list, n) \subseteq ToSet(s)
  BY <1>2, <1>9
<1>12. ASSUME ~IsEmpty(WithoutFirst(list, n))
       PROVE  ~IsEmpty(list) /\ \E f : f \in Injection(1 .. n, FirstOf(list, n))
  <2>1. Len(rest) # 0
    BY <1>3, <1>4, <1>12, EmptySeq DEF IsEmpty
  <2>2. n < Len(s)
    BY <1>1, <1>3, <2>1
  <2>3. ~IsEmpty(list)
    BY <1>1, <2>2, EmptySeq DEF IsEmpty
  <2> DEFINE f == [i \in 1 .. n |-> s[i]]
  <2>4. f \in [1 .. n -> FirstOf(list, n)]
    BY <1>1, <1>9, <2>2
  <2>5. \A i, j \in 1 .. n : f[i] = f[j] => i = j
    BY <1>1, <1>2, <2>2
  <2>6. f \in Injection(1 .. n, FirstOf(list, n))
    BY <2>4, <2>5 DEF Injection, IsInjective
  <2> QED BY <2>3, <2>6
<1> QED BY <1>1, <1>8, <1>10, <1>11, <1>12

\* A set that takes in n more, and loses one at most.
LEMMA Enough ==
  ASSUME NEW A \in SUBSET Tasks, NEW B \in SUBSET Tasks, NEW W \in SUBSET Tasks, NEW n \in Nat,
         A \cap W = {}, \E f : f \in Injection(1 .. n, W), NEW gone,
         (A \ {gone}) \cup W \subseteq B
  PROVE  /\ Cardinality(A) \in Nat /\ Cardinality(B) \in Nat
         /\ Cardinality(B) >= Cardinality(A) + n - 1
         /\ gone \notin A => Cardinality(B) >= Cardinality(A) + n
<1>1. IsFiniteSet(A) /\ IsFiniteSet(B) /\ IsFiniteSet(W) /\ IsFiniteSet(A \ {gone})
  BY QueueAssumption, FS_Subset
<1>2. Cardinality(A) \in Nat /\ Cardinality(B) \in Nat /\ Cardinality(W) \in Nat
  BY <1>1, FS_CardinalityType
<1>3. n <= Cardinality(W)
  <2>1. Cardinality(1 .. n) = n
    BY FS_Interval
  <2>2. PICK f : f \in Injection(1 .. n, W)
    OBVIOUS
  <2> QED BY <1>1, <2>1, <2>2, FS_Injection
<1>4. Cardinality(A \ {gone}) = IF gone \in A THEN Cardinality(A) - 1 ELSE Cardinality(A)
  BY <1>1, FS_RemoveElement
<1> DEFINE left == A \ {gone}
<1>5. Cardinality(left \cup W) = Cardinality(left) + Cardinality(W)
  <2>1. left \cap W = {}
    OBVIOUS
  <2>2. IsFiniteSet(left)
    BY <1>1
  <2> HIDE DEF left
  <2>3. Cardinality(left \cup W) = Cardinality(left) + Cardinality(W) - Cardinality(left \cap W)
    BY <1>1, <2>2, FS_Union
  <2>4. Cardinality(left \cap W) = 0
    BY <2>1, FS_EmptySet
  <2>5. Cardinality(left) \in Nat /\ Cardinality(W) \in Nat
    BY <1>1, <2>2, FS_CardinalityType
  <2> QED BY <2>3, <2>4, <2>5
<1>6. Cardinality(left \cup W) <= Cardinality(B)
  <2>1. left \cup W \in SUBSET B
    OBVIOUS
  <2> HIDE DEF left
  <2> QED BY <1>1, <2>1, FS_Subset
<1> QED BY <1>2, <1>3, <1>4, <1>5, <1>6

LEMMA NoneNeeded ==
  \E f : f \in Injection(1 .. 0, {})
<1> DEFINE f == [i \in 1 .. 0 |-> i]
<1>1. f \in Injection(1 .. 0, {})
  BY DEF Injection, IsInjective
<1> QED BY <1>1
-----------------------------------------------------------------------------
\* Of a ring of L places, the one that is i places on from R.
Slot(L, R, i) == IF R + i < L THEN R + i ELSE R + i - L

\* The n items that follow R.
Ring(size, L, n, st, R) ==
  [i \in 1 .. n |-> IF size = 0 THEN Token ELSE st[Slot(L, R, i)]]

\* The write pointer stands behind the last item.
Data ==
  /\ uxLength \in 1 .. MaxLength /\ uxItemSize \in {0, 1}
  /\ uxMessagesWaiting \in 0 .. uxLength
  /\ storage \in [Slots -> Items]
  /\ pcWriteTo \in 0 .. uxLength - 1 /\ pcReadFrom \in 0 .. uxLength - 1
  /\ delivered \in Items \cup {Token}
  /\ uxItemSize # 0 =>
       pcWriteTo = IF uxMessagesWaiting = uxLength
                   THEN Slot(uxLength, pcReadFrom, 1)
                   ELSE Slot(uxLength, pcReadFrom, uxMessagesWaiting + 1)

\* The slots are in the storage, and are those of the modulus.
LEMMA SlotType ==
  ASSUME NEW L \in 1 .. MaxLength, NEW R \in 0 .. L - 1, NEW i \in 1 .. L
  PROVE  /\ Slot(L, R, i) \in 0 .. L - 1 /\ Slot(L, R, i) \in Slots
         /\ (R + i) % L = Slot(L, R, i)
<1>1. L \in Nat \ {0} /\ MaxLength \in Nat /\ R + i \in 0 .. 2 * L - 1
  BY QueueAssumption
<1>2. (R + i) % L = IF R + i < L THEN R + i ELSE R + i - L
  <2> DEFINE x == R + i
  <2>1. L \in Nat \ {0} /\ x \in 0 .. 2 * L - 1
    BY <1>1
  <2> HIDE DEF x
  <2>2. x % L = IF x < L THEN x ELSE x - L
    BY <2>1, Modulus
  <2> QED BY <2>2 DEF x
<1> QED BY <1>1, <1>2 DEF Slot, Slots

\* The items between the pointers are a sequence.
LEMMA RingIsSeq ==
  ASSUME NEW size \in {0, 1}, NEW L \in 1 .. MaxLength, NEW n \in 0 .. L,
         NEW st \in [Slots -> Items], NEW R \in 0 .. L - 1
  PROVE  /\ Ring(size, L, n, st, R) \in Seq(Items \cup {Token})
         /\ Len(Ring(size, L, n, st, R)) = n
         /\ \A i \in 1 .. n : Ring(size, L, n, st, R)[i]
                               = IF size = 0 THEN Token ELSE st[Slot(L, R, i)]
<1>1. n \in Nat /\ L \in Nat
  BY QueueAssumption
<1>2. ASSUME NEW i \in 1 .. n
      PROVE  Slot(L, R, i) \in Slots /\ (R + i) % L = Slot(L, R, i)
  <2>1. i \in 1 .. L
    BY <1>1
  <2> QED BY <2>1, SlotType
<1> DEFINE ring == Ring(size, L, n, st, R)
<1>3. /\ ring \in [1 .. n -> Items \cup {Token}]
      /\ \A i \in 1 .. n : ring[i] = IF size = 0 THEN Token ELSE st[Slot(L, R, i)]
  BY <1>2 DEF Ring
<1> HIDE DEF ring
<1>5. ring \in Seq(Items \cup {Token})
  BY <1>1, <1>3
<1>6. Len(ring) = n
  BY <1>1, <1>3, <1>5, LenProperties
<1> QED BY <1>3, <1>5, <1>6 DEF ring

LEMMA RingByModulus ==
  ASSUME NEW size, NEW L \in 1 .. MaxLength, NEW n \in 0 .. L, NEW st, NEW R \in 0 .. L - 1
  PROVE  [i \in 1 .. n |-> IF size = 0 THEN Token ELSE st[(R + i) % L]]
           = Ring(size, L, n, st, R)
<1>1. ASSUME NEW i \in 1 .. n PROVE (R + i) % L = Slot(L, R, i)
  <2>1. i \in 1 .. L
    BY QueueAssumption
  <2> QED BY <2>1, SlotType
<1> QED BY <1>1 DEF Ring

LEMMA ContentsAreRing ==
  /\ Data => Contents = Ring(uxItemSize, uxLength, uxMessagesWaiting, storage, pcReadFrom)
  /\ Data' => Contents' = Ring(uxItemSize', uxLength', uxMessagesWaiting', storage', pcReadFrom')
<1>1. ASSUME Data
      PROVE  Contents = Ring(uxItemSize, uxLength, uxMessagesWaiting, storage, pcReadFrom)
  BY <1>1, RingByModulus DEF Data, Contents
<1>2. ASSUME Data'
      PROVE  Contents' = Ring(uxItemSize', uxLength', uxMessagesWaiting', storage', pcReadFrom')
  <2>1. /\ uxLength' \in 1 .. MaxLength /\ uxMessagesWaiting' \in 0 .. uxLength'
        /\ pcReadFrom' \in 0 .. uxLength' - 1
    BY <1>2 DEF Data
  <2>2. Contents' = [i \in 1 .. uxMessagesWaiting' |->
                     IF uxItemSize' = 0 THEN Token ELSE storage'[(pcReadFrom' + i) % uxLength']]
    BY DEF Contents
  <2>3. PICK size, L, n, st, R :
          /\ size = uxItemSize' /\ L = uxLength' /\ n = uxMessagesWaiting'
          /\ st = storage' /\ R = pcReadFrom'
    OBVIOUS
  <2>4. L \in 1 .. MaxLength /\ n \in 0 .. L /\ R \in 0 .. L - 1
    BY <2>1, <2>3
  <2>5. [i \in 1 .. n |-> IF size = 0 THEN Token ELSE st[(R + i) % L]] = Ring(size, L, n, st, R)
    BY <2>4, RingByModulus
  <2> QED BY <2>2, <2>3, <2>5
<1> QED BY <1>1, <1>2
\* The items are a sequence, as long as the count says.
LEMMA ContentsLen ==
  ASSUME Data
  PROVE  Contents \in Seq(Items \cup {Token}) /\ Len(Contents) = uxMessagesWaiting
<1>1. PICK size \in {0, 1}, L \in 1 .. MaxLength, n \in 0 .. uxLength,
           st \in [Slots -> Items], R \in 0 .. uxLength - 1 :
        /\ size = uxItemSize /\ L = uxLength /\ n = uxMessagesWaiting
        /\ st = storage /\ R = pcReadFrom
  BY DEF Data
<1>2. Ring(size, L, n, st, R) \in Seq(Items \cup {Token}) /\ Len(Ring(size, L, n, st, R)) = n
  <2>1. n \in 0 .. L /\ R \in 0 .. L - 1
    BY <1>1
  <2> QED BY <2>1, RingIsSeq
<1>3. Contents = Ring(size, L, n, st, R)
  BY <1>1, ContentsAreRing
<1> QED BY <1>1, <1>2, <1>3
-----------------------------------------------------------------------------
\* Names that keep the provers from computing with the arguments of Ring.
Messages == Items \cup {Token}
Sizes == {0, 1}
Longer(new, old, item) == new = Append(old, item)
Follows(m, n) == m = n + 1
Stored(size, new, st, slot, item) ==
  IF size = 0 THEN item = Token ELSE new = [st EXCEPT ![slot] = item]

LEMMA SentToBack ==
  ASSUME NEW size \in Sizes, NEW L \in 1 .. MaxLength, NEW n \in 0 .. L, NEW m \in 0 .. L,
         Follows(m, n), NEW st \in [Slots -> Items], NEW R \in 0 .. L - 1,
         NEW item \in Messages, NEW new \in [Slots -> Items],
         Stored(size, new, st, Slot(L, R, m), item)
  PROVE  Longer(Ring(size, L, m, new, R), Ring(size, L, n, st, R), item)
<1> DEFINE before == Ring(size, L, n, st, R)
           after == Ring(size, L, m, new, R)
<1>1. L \in Nat /\ n \in Nat /\ m = n + 1
  BY QueueAssumption DEF Follows
<1>2. /\ before \in Seq(Items \cup {Token}) /\ Len(before) = n
      /\ \A i \in 1 .. n : before[i] = IF size = 0 THEN Token ELSE st[Slot(L, R, i)]
  BY RingIsSeq DEF Sizes
<1>3. /\ after \in Seq(Items \cup {Token}) /\ Len(after) = m
      /\ \A i \in 1 .. m : after[i] = IF size = 0 THEN Token ELSE new[Slot(L, R, i)]
  BY RingIsSeq DEF Sizes
<1> HIDE DEF before, after
<1> DEFINE longer == Append(before, item)
<1>4. /\ longer \in Seq(Items \cup {Token}) /\ Len(longer) = n + 1
      /\ \A i \in 1 .. n : longer[i] = before[i]
      /\ longer[n + 1] = item
  BY <1>1, <1>2, AppendProperties DEF Messages
<1> HIDE DEF longer
<1>5. ASSUME NEW i \in 1 .. n PROVE after[i] = before[i]
  <2>1. Slot(L, R, i) # Slot(L, R, m)
    BY <1>1 DEF Slot
  <2>2. i \in 1 .. L /\ i \in 1 .. m
    BY <1>1
  <2>3. Slot(L, R, i) \in Slots
    BY <2>2, SlotType
  <2> QED BY <1>2, <1>3, <2>1, <2>2, <2>3 DEF Stored
<1>6. after[m] = item
  <2>1. m \in 1 .. L /\ m \in 1 .. m
    BY <1>1
  <2>2. Slot(L, R, m) \in Slots
    BY <2>1, SlotType
  <2> QED BY <1>3, <2>1, <2>2 DEF Stored
<1>7. \A i \in 1 .. m : after[i] = longer[i]
  BY <1>1, <1>4, <1>5, <1>6
<1>8. Len(after) = Len(longer)
  BY <1>1, <1>3, <1>4
<1>9. after = longer
  BY <1>3, <1>4, <1>7, <1>8, SeqEqual
<1> QED BY <1>9 DEF before, after, longer, Longer

LEMMA SentToFront ==
  ASSUME NEW size \in {0, 1}, size # 0, NEW L \in 1 .. MaxLength, NEW n \in 0 .. L,
         NEW m \in 0 .. L, Follows(m, n),
         NEW st \in [Slots -> Items], NEW R \in 0 .. L - 1, NEW item \in Items,
         NEW Q \in 0 .. L - 1, Slot(L, Q, 1) = R,
         NEW new \in [Slots -> Items], Stored(size, new, st, R, item)
  PROVE  Ring(size, L, m, new, Q) = <<item>> \o Ring(size, L, n, st, R)
<1> DEFINE before == Ring(size, L, n, st, R)
           after == Ring(size, L, m, new, Q)
           whole == <<item>> \o before
<1>1. L \in Nat /\ n \in Nat /\ m = n + 1
  BY QueueAssumption DEF Follows
<1>2. /\ before \in Seq(Items \cup {Token}) /\ Len(before) = n
      /\ \A i \in 1 .. n : before[i] = IF size = 0 THEN Token ELSE st[Slot(L, R, i)]
  BY RingIsSeq
<1>3. /\ after \in Seq(Items \cup {Token}) /\ Len(after) = m
      /\ \A i \in 1 .. m : after[i] = IF size = 0 THEN Token ELSE new[Slot(L, Q, i)]
  BY RingIsSeq
<1> HIDE DEF before, after
<1>4. <<item>> \in Seq(Items \cup {Token}) /\ Len(<<item>>) = 1 /\ <<item>>[1] = item
  OBVIOUS
<1>5. /\ whole \in Seq(Items \cup {Token}) /\ Len(whole) = 1 + n
      /\ \A i \in 1 .. 1 + n : whole[i] = IF i <= 1 THEN <<item>>[i] ELSE before[i - 1]
  BY <1>2, <1>4, ConcatProperties
<1> HIDE DEF whole
<1>6. ASSUME NEW i \in 1 .. m PROVE after[i] = whole[i]
  <2>1. CASE i = 1
    <3>1. R \in Slots
      BY <1>1, QueueAssumption DEF Slots
    <3>2. new[R] = item
      BY <3>1 DEF Stored
    <3> QED BY <1>1, <1>3, <1>4, <1>5, <2>1, <3>2
  <2>2. CASE i # 1
    <3>1. i - 1 \in 1 .. n /\ i - 1 \in 1 .. L
      BY <1>1, <2>2
    <3>2. Slot(L, Q, i) = Slot(L, R, i - 1) /\ Slot(L, R, i - 1) # R
      BY <1>1, <2>2 DEF Slot
    <3>3. Slot(L, R, i - 1) \in Slots
      BY <3>1, SlotType
    <3>4. new[Slot(L, Q, i)] = st[Slot(L, R, i - 1)]
      BY <3>2, <3>3 DEF Stored
    <3>5. whole[i] = before[i - 1]
      BY <1>1, <1>5, <2>2
    <3> QED BY <1>2, <1>3, <3>1, <3>4, <3>5
  <2> QED BY <2>1, <2>2
<1>7. after = whole
  <2>1. Len(after) = Len(whole)
    BY <1>1, <1>3, <1>5
  <2> QED BY <1>3, <1>5, <1>6, <2>1, SeqEqual
<1> QED BY <1>7 DEF before, after, whole

LEMMA Taken ==
  ASSUME NEW size \in {0, 1}, NEW L \in 1 .. MaxLength, NEW n \in 1 .. L,
         NEW st \in [Slots -> Items], NEW R \in 0 .. L - 1,
         NEW Q, Q = IF size = 0 THEN R ELSE Slot(L, R, 1)
  PROVE  /\ Q \in 0 .. L - 1
         /\ Ring(size, L, n, st, R) # << >>
         /\ Head(Ring(size, L, n, st, R)) = IF size = 0 THEN Token ELSE st[Slot(L, R, 1)]
         /\ Ring(size, L, n - 1, st, Q) = Tail(Ring(size, L, n, st, R))
<1>0. L \in Nat /\ n \in Nat /\ n \in 0 .. L /\ n - 1 \in 0 .. L /\ 1 \in 1 .. L /\ 1 \in 1 .. n
  BY QueueAssumption
<1>1. Q \in 0 .. L - 1
  BY <1>0, SlotType
<1> DEFINE before == Ring(size, L, n, st, R)
           after == Ring(size, L, n - 1, st, Q)
<1>2. /\ before \in Seq(Items \cup {Token}) /\ Len(before) = n
      /\ \A i \in 1 .. n : before[i] = IF size = 0 THEN Token ELSE st[Slot(L, R, i)]
  BY <1>0, RingIsSeq
<1>3. /\ after \in Seq(Items \cup {Token}) /\ Len(after) = n - 1
      /\ \A i \in 1 .. n - 1 : after[i] = IF size = 0 THEN Token ELSE st[Slot(L, Q, i)]
  <2> DEFINE m == n - 1
  <2>1. m \in 0 .. L
    BY <1>0
  <2> HIDE DEF m
  <2>2. /\ Ring(size, L, m, st, Q) \in Seq(Items \cup {Token})
        /\ Len(Ring(size, L, m, st, Q)) = m
        /\ \A i \in 1 .. m : Ring(size, L, m, st, Q)[i]
                              = IF size = 0 THEN Token ELSE st[Slot(L, Q, i)]
    BY <1>1, <2>1, RingIsSeq
  <2> QED BY <2>2 DEF m
<1> HIDE DEF before, after
<1>4. before # << >>
  BY <1>0, <1>2, EmptySeq
<1>5. /\ Tail(before) \in Seq(Items \cup {Token}) /\ Len(Tail(before)) = n - 1
      /\ \A i \in 1 .. n - 1 : Tail(before)[i] = before[i + 1]
  BY <1>2, <1>4, HeadTailProperties
<1>6. ASSUME NEW i \in 1 .. n - 1 PROVE after[i] = Tail(before)[i]
  <2>1. i + 1 \in 1 .. n
    BY <1>0
  <2>2. size # 0 => Slot(L, Q, i) = Slot(L, R, i + 1)
    BY <1>0 DEF Slot
  <2> QED BY <1>2, <1>3, <1>5, <2>1, <2>2
<1>7. after = Tail(before)
  BY <1>3, <1>5, <1>6, SeqEqual
<1>8. Head(before) = before[1]
  BY <1>2, <1>4
<1> QED BY <1>0, <1>1, <1>2, <1>4, <1>7, <1>8 DEF before, after
-----------------------------------------------------------------------------
\* A send is a step of the abstract queue, and keeps the pointers together.
LEMMA SendIsFifo ==
  ASSUME Data, NEW item \in Items \cup {Token}, NEW position \in Positions,
         SendAllowed(item, position), CanSend(position),
         prvCopyDataToQueue(item, position), UNCHANGED <<creation, delivered>>
  PROVE  Data' /\ Abstract!Next
<1> DEFINE L == uxLength
           n == uxMessagesWaiting
           R == pcReadFrom
           W == pcWriteTo
<1>1. /\ uxLength' = uxLength /\ uxItemSize' = uxItemSize /\ delivered' = delivered
      /\ L \in 1 .. MaxLength /\ uxItemSize \in {0, 1} /\ n \in 0 .. L /\ R \in 0 .. L - 1
      /\ W \in 0 .. L - 1 /\ storage \in [Slots -> Items] /\ delivered \in Items \cup {Token}
  BY DEF Data, creation
<1>2. /\ L \in Nat \ {0} /\ MaxLength \in Nat /\ n \in Nat /\ R \in Nat /\ W \in Nat
      /\ W \in Slots /\ R \in Slots
  BY <1>1, QueueAssumption DEF Slots
<1>3. CASE uxItemSize = 0 \/ position = "back"
  <2>1. n \in 0 .. L - 1 /\ n' = n + 1
    BY <1>2, <1>3 DEF SendAllowed, CanSend, prvCopyDataToQueue
  <2>2. /\ storage' \in [Slots -> Items] /\ R' = R /\ W' \in 0 .. L - 1
        /\ IF uxItemSize = 0 THEN item = Token
           ELSE storage' = [storage EXCEPT ![Slot(L, R, n + 1)] = item]
        /\ uxItemSize # 0 => W' = Forward(W) /\ W = Slot(L, R, n + 1)
    <3>1. CASE uxItemSize = 0
      BY <1>1, <3>1 DEF SendAllowed, prvCopyDataToQueue
    <3>2. CASE uxItemSize # 0
      <4>1. W = Slot(L, R, n + 1)
        BY <1>2, <2>1, <3>2 DEF Data
      <4>2. /\ storage' = [storage EXCEPT ![W] = item] /\ W' = Forward(W) /\ R' = R
        BY <1>3, <3>2 DEF prvCopyDataToQueue
      <4>a. item \in Items
        BY <3>2 DEF SendAllowed
      <4>3. W' \in 0 .. L - 1
        BY <1>1, <1>2, <4>2 DEF Forward
      <4> QED BY <1>1, <3>2, <4>a, <4>1, <4>2, <4>3
    <3> QED BY <3>1, <3>2
  <2>3. Data'
    <3>1. uxItemSize # 0 => W' = IF n + 1 = L THEN Slot(L, R, 1) ELSE Slot(L, R, n + 2)
      BY <1>1, <1>2, <2>1, <2>2 DEF Forward, Slot
    <3> QED BY <1>1, <1>2, <2>1, <2>2, <3>1 DEF Data
  <2>4. Ring(uxItemSize, L, n + 1, storage', R) = Append(Ring(uxItemSize, L, n, storage, R), item)
    <3> DEFINE m == n + 1
    <3>1. n \in 0 .. L /\ m \in 0 .. L /\ Follows(m, n) /\ item \in Messages
          /\ uxItemSize \in Sizes
      BY <1>1, <1>2, <2>1 DEF Follows, Messages, Sizes
    <3>2. Stored(uxItemSize, storage', storage, Slot(L, R, m), item)
      BY <2>2 DEF Stored
    <3> HIDE DEF m
    <3>3. PICK new \in [Slots -> Items] : new = storage'
      BY <2>2
    <3>4. Stored(uxItemSize, new, storage, Slot(L, R, m), item)
      BY <3>2, <3>3
    <3>5. Longer(Ring(uxItemSize, L, m, new, R), Ring(uxItemSize, L, n, storage, R), item)
      BY <1>1, <3>1, <3>4, SentToBack
    <3> QED BY <3>3, <3>5 DEF m, Longer
  <2>5. Contents' = Append(Contents, item)
    BY <1>1, <2>1, <2>2, <2>3, <2>4, ContentsAreRing
  <2>6. Len(Contents) = n
    BY ContentsLen
  <2>7. Abstract!SendToBack(item)
    BY <1>1, <1>2, <2>1, <2>5, <2>6 DEF Abstract!SendToBack, Abstract!HasRoom
  <2> QED BY <2>3, <2>7 DEF Abstract!Next
<1>4. CASE uxItemSize # 0 /\ position = "front"
  <2>1. /\ n \in 0 .. L - 1 /\ n' = n + 1 /\ item \in Items /\ uxItemSize \in {1}
        /\ storage' = [storage EXCEPT ![R] = item] /\ R' = Backward(R) /\ W' = W
    <3>1. /\ storage' = [storage EXCEPT ![R] = item] /\ R' = Backward(R) /\ W' = W
          /\ n' = n + 1
      BY <1>4 DEF prvCopyDataToQueue
    <3>2. item \in Items /\ n < L
      BY <1>4 DEF SendAllowed, CanSend
    <3> QED BY <1>1, <1>2, <1>4, <3>1, <3>2
  <2>2. R' = IF R = 0 THEN L - 1 ELSE R - 1
    BY <2>1 DEF Backward
  <2>3. /\ storage' \in [Slots -> Items] /\ R' \in 0 .. L - 1
        /\ Ring(uxItemSize, L, n + 1, storage', R')
              = <<item>> \o Ring(uxItemSize, L, n, storage, R)
    <3> DEFINE m == n + 1
    <3>1. n \in 0 .. L /\ m \in 0 .. L /\ Follows(m, n) /\ uxItemSize # 0 /\ item \in Items
      BY <1>2, <2>1 DEF Follows
    <3>2. storage' \in [Slots -> Items] /\ Stored(uxItemSize, storage', storage, R, item)
      BY <1>1, <1>4, <2>1 DEF Stored
    <3>3. R' \in 0 .. L - 1 /\ Slot(L, R', 1) = R
      BY <1>1, <1>2, <2>2 DEF Slot
    <3> HIDE DEF m
    <3>4. PICK new \in [Slots -> Items], Q \in 0 .. L - 1 : new = storage' /\ Q = R'
      BY <3>2, <3>3
    <3>5. Stored(uxItemSize, new, storage, R, item) /\ Slot(L, Q, 1) = R
      BY <3>2, <3>3, <3>4
    <3>6. Ring(uxItemSize, L, m, new, Q) = <<item>> \o Ring(uxItemSize, L, n, storage, R)
      BY <1>1, <3>1, <3>5, SentToFront
    <3> QED BY <3>2, <3>3, <3>4, <3>6 DEF m
  <2>4. Data'
    <3>1. W = Slot(L, R, n + 1)
      BY <1>2, <1>4, <2>1 DEF Data
    <3>2. W = IF n + 1 = L THEN Slot(L, R', 1) ELSE Slot(L, R', n + 2)
      BY <1>1, <1>2, <2>1, <2>2, <3>1 DEF Slot
    <3> QED BY <1>1, <1>2, <2>1, <2>3, <3>2 DEF Data
  <2>5. Contents' = <<item>> \o Contents
    BY <1>1, <2>1, <2>3, <2>4, ContentsAreRing
  <2>6. Len(Contents) = n
    BY ContentsLen
  <2>7. Abstract!SendToFront(item)
    BY <1>1, <1>2, <2>1, <2>5, <2>6 DEF Abstract!SendToFront, Abstract!HasRoom
  <2> QED BY <2>4, <2>7 DEF Abstract!Next
<1>5. CASE uxItemSize # 0 /\ position = "overwrite"
  <2>1. /\ L = 1 /\ n' = 1 /\ item \in Items /\ R = 0 /\ W = 0
        /\ storage' = [storage EXCEPT ![0] = item] /\ R' = 0 /\ W' = 0
    <3>1. /\ storage' = [storage EXCEPT ![R] = item] /\ R' = Backward(R) /\ W' = W
          /\ n' = IF n > 0 THEN n ELSE n + 1
      BY <1>5 DEF prvCopyDataToQueue
    <3>2. item \in Items /\ L = 1
      BY <1>5 DEF SendAllowed
    <3>3. R = 0 /\ W = 0 /\ (n = 0 \/ n = 1)
      BY <1>1, <1>2, <3>2
    <3> QED BY <3>1, <3>2, <3>3 DEF Backward
  <2>2. storage' \in [Slots -> Items] /\ 0 \in Slots /\ storage'[0] = item
    BY <1>1, <1>2, <2>1
  <2>3. Slot(1, 0, 1) = 0
    BY DEF Slot
  <2>4. Data'
    BY <1>1, <1>2, <2>1, <2>2, <2>3 DEF Data
  <2>5. Contents' = Ring(uxItemSize, 1, 1, storage', 0)
    BY <1>1, <2>1, <2>4, ContentsAreRing
  <2>6. Contents' = [i \in 1 .. 1 |-> item]
    BY <1>5, <2>2, <2>3, <2>5 DEF Ring
  <2>7. Contents' = <<item>>
    BY <2>6
  <2>8. Abstract!Overwrite(item)
    BY <1>1, <2>1, <2>7 DEF Abstract!Overwrite
  <2> QED BY <2>4, <2>8 DEF Abstract!Next
<1> QED BY <1>3, <1>4, <1>5 DEF Positions

\* So is a receive or a peek.
LEMMA CopyOutIsFifo ==
  ASSUME Data, ~prvIsQueueEmpty, NEW peek \in BOOLEAN, CopyOut(peek), UNCHANGED creation
  PROVE  Data' /\ Abstract!Next
<1> DEFINE L == uxLength
           n == uxMessagesWaiting
           R == pcReadFrom
           Q == IF uxItemSize = 0 THEN R ELSE Slot(L, R, 1)
<1>1. /\ uxLength' = uxLength /\ uxItemSize' = uxItemSize
      /\ L \in 1 .. MaxLength /\ uxItemSize \in {0, 1} /\ n \in 1 .. L /\ R \in 0 .. L - 1
      /\ pcWriteTo \in 0 .. L - 1 /\ storage \in [Slots -> Items]
      /\ storage' = storage /\ pcWriteTo' = pcWriteTo
  BY DEF Data, creation, prvIsQueueEmpty, CopyOut
<1>2. L \in Nat \ {0} /\ n \in Nat /\ R \in Nat
  BY <1>1, QueueAssumption
<1>3. Forward(R) = Slot(L, R, 1)
  BY <1>1, <1>2 DEF Forward, Slot
<1>4. /\ n' = IF peek THEN n ELSE n - 1
      /\ R' = IF peek THEN R ELSE Q
      /\ delivered' = IF uxItemSize = 0 THEN Token ELSE storage[Slot(L, R, 1)]
  BY <1>3 DEF CopyOut
<1>5. /\ Q \in 0 .. L - 1
      /\ Ring(uxItemSize, L, n, storage, R) # << >>
      /\ Head(Ring(uxItemSize, L, n, storage, R))
           = IF uxItemSize = 0 THEN Token ELSE storage[Slot(L, R, 1)]
      /\ Ring(uxItemSize, L, n - 1, storage, Q) = Tail(Ring(uxItemSize, L, n, storage, R))
  <2>1. PICK size \in {0, 1}, len \in 1 .. MaxLength, k \in 1 .. L, at \in 0 .. L - 1,
             st \in [Slots -> Items] :
          size = uxItemSize /\ len = L /\ k = n /\ at = R /\ st = storage
    BY <1>1
  <2>2. PICK to : to = Q
    OBVIOUS
  <2>3. /\ k \in 1 .. len /\ at \in 0 .. len - 1
        /\ to = IF size = 0 THEN at ELSE Slot(len, at, 1)
    BY <2>1, <2>2
  <2>4. /\ to \in 0 .. len - 1
        /\ Ring(size, len, k, st, at) # << >>
        /\ Head(Ring(size, len, k, st, at)) = IF size = 0 THEN Token ELSE st[Slot(len, at, 1)]
        /\ Ring(size, len, k - 1, st, to) = Tail(Ring(size, len, k, st, at))
    BY <2>3, Taken
  <2> QED BY <2>1, <2>2, <2>4
<1>6. Contents = Ring(uxItemSize, L, n, storage, R)
  BY ContentsAreRing
<1>7. delivered' \in Items \cup {Token}
  <2>1. 1 \in 1 .. L
    BY <1>2
  <2>2. Slot(L, R, 1) \in Slots
    BY <1>1, <2>1, SlotType
  <2> QED BY <1>1, <1>4, <2>2
<1>8. Data'
  <2>1. n' \in 0 .. L /\ R' \in 0 .. L - 1
    BY <1>1, <1>2, <1>4, <1>5
  <2>2. ASSUME uxItemSize # 0
        PROVE  pcWriteTo = IF n' = L THEN Slot(L, R', 1) ELSE Slot(L, R', n' + 1)
    <3>1. pcWriteTo = IF n = L THEN Slot(L, R, 1) ELSE Slot(L, R, n + 1)
      BY <2>2 DEF Data
    <3>2. CASE peek
      BY <1>4, <3>1, <3>2
    <3>3. CASE ~peek
      <4>1. n' = n - 1 /\ R' = Slot(L, R, 1)
        BY <1>4, <2>2, <3>3
      <4> QED BY <1>1, <1>2, <3>1, <4>1 DEF Slot
    <3> QED BY <3>2, <3>3
  <2> QED BY <1>1, <1>7, <2>1, <2>2 DEF Data
<1>9. Contents' = Ring(uxItemSize, L, n', storage, R')
  BY <1>1, <1>8, ContentsAreRing
<1>10. CASE peek
  <2>1. Abstract!Peek
    BY <1>1, <1>4, <1>5, <1>6, <1>9, <1>10 DEF Abstract!Peek
  <2> QED BY <1>8, <2>1 DEF Abstract!Next
<1>11. CASE ~peek
  <2>1. Abstract!Receive
    BY <1>1, <1>4, <1>5, <1>6, <1>9, <1>11 DEF Abstract!Receive
  <2> QED BY <1>8, <2>1 DEF Abstract!Next
<1> QED BY <1>10, <1>11

LEMMA ResetIsFifo ==
  ASSUME Data, NEW t \in Tasks, xQueueGenericReset(t)
  PROVE  Data' /\ Abstract!Next
<1>1. /\ uxLength' = uxLength /\ uxItemSize' = uxItemSize /\ delivered' = delivered
      /\ storage' = storage /\ uxMessagesWaiting' = 0 /\ pcWriteTo' = 0
      /\ pcReadFrom' = uxLength - 1
  BY DEF xQueueGenericReset, creation
<1>2. uxLength \in Nat \ {0} /\ uxLength \in 1 .. MaxLength
  BY QueueAssumption DEF Data
<1>3. Slot(uxLength, uxLength - 1, 1) = 0
  BY <1>2 DEF Slot
<1>4. Data'
  BY <1>1, <1>2, <1>3 DEF Data
<1>5. Contents' = [i \in 1 .. 0 |-> IF uxItemSize = 0 THEN Token
                                     ELSE storage[Slot(uxLength, uxLength - 1, i)]]
  BY <1>1, <1>4, ContentsAreRing DEF Ring
<1>6. Contents' = << >>
  BY <1>5
<1>7. Abstract!Reset
  BY <1>1, <1>6 DEF Abstract!Reset
<1> QED BY <1>4, <1>7 DEF Abstract!Next
-----------------------------------------------------------------------------
Waiting(list, op) ==
  \A t \in Owners(list) :
    pc[t] \in {"unlockTx", "unlockRx", "resume", "try"} /\ call[t].op = op

TxHeld == {"check", "place", "unlockTx", "gaveUpTx"}
RxHeld == TxHeld \cup {"unlockRx", "gaveUpRx"}

Types ==
  /\ cTxLock \in queueUNLOCKED .. MaxLocked /\ cRxLock \in queueUNLOCKED .. MaxLocked
  /\ xTasksWaitingToSend \in ListOf(Tasks) /\ xTasksWaitingToReceive \in ListOf(Tasks)
  /\ blocked = Owners(xTasksWaitingToSend) \cup Owners(xTasksWaitingToReceive)
  /\ expired \subseteq Tasks /\ pxCurrentTCB \in Tasks \cup {NoTask}
  /\ pc \in [Tasks -> Places] /\ call \in [Tasks -> Calls \cup {NoCall}]
  /\ wasReset \in BOOLEAN

\* A task in a call has arguments that the queue allows.
InCall == \A t \in Tasks : pc[t] # "run" => call[t] \in Calls /\ CallAllowed(call[t])

\* Only the running task is in a locked section, where the queue is locked.
LocksHeld ==
  \A t \in Tasks :
    /\ pc[t] \in Locked => t = pxCurrentTCB
    /\ pc[t] \in TxHeld => cTxLock # queueUNLOCKED
    /\ pc[t] \in RxHeld => cRxLock # queueUNLOCKED

\* The tasks in the event lists are in a call of that kind.
WaitsRightly ==
  Waiting(xTasksWaitingToSend, "send") /\ Waiting(xTasksWaitingToReceive, "receive")

TaskInv == Types /\ InCall /\ LocksHeld /\ WaitsRightly

\* What the release of the lock will wake counts as woken.
Held(lock) == IF lock = queueUNLOCKED THEN 0 ELSE lock

ReceiversWoken ==
  ~IsEmpty(xTasksWaitingToReceive) =>
    uxMessagesWaiting <= Cardinality(AboutTo("receive")) + Held(cTxLock)

SendersWoken ==
  ~IsEmpty(xTasksWaitingToSend) /\ ~wasReset =>
    uxLength - uxMessagesWaiting <= Cardinality(AboutTo("send")) + Held(cRxLock)

\* Between the second look and the event list the unlocking task will be told.
PlacedRightly ==
  \A t \in Tasks : pc[t] = "place" =>
    IF call[t].op = "receive" THEN uxMessagesWaiting <= Held(cTxLock)
                              ELSE uxLength - uxMessagesWaiting <= Held(cRxLock)

\* The inductive invariant.
Inv == Data /\ TaskInv /\ ReceiversWoken /\ SendersWoken /\ PlacedRightly
-----------------------------------------------------------------------------
LEMMA CallFields ==
  ASSUME NEW c \in Calls
  PROVE  /\ c.op \in {"send", "receive"} /\ c.wait \in BlockTimes
         /\ c.op = "send" => c.item \in Items \cup {Token} /\ c.position \in Positions
         /\ c.op = "receive" => c.peek \in BOOLEAN
BY DEF Calls

\* A waiting task that does not run has been through its call up to the retry.
LEMMA WaitersTry ==
  ASSUME TaskInv
  PROVE  /\ Owners(xTasksWaitingToSend) \subseteq Tasks
         /\ Owners(xTasksWaitingToReceive) \subseteq Tasks
         /\ Owners(xTasksWaitingToSend) \cap Owners(xTasksWaitingToReceive) = {}
         /\ blocked \subseteq Tasks
         /\ \A t \in blocked : t # pxCurrentTCB => pc[t] = "try"
<1>1. /\ Owners(xTasksWaitingToSend) \subseteq Tasks
      /\ Owners(xTasksWaitingToReceive) \subseteq Tasks
  BY ListFields, SeqPositions DEF TaskInv, Types
<1>2. Owners(xTasksWaitingToSend) \cap Owners(xTasksWaitingToReceive) = {}
  BY DEF TaskInv, WaitsRightly, Waiting
<1>3. ASSUME NEW t \in blocked, t # pxCurrentTCB PROVE pc[t] = "try"
  BY <1>1, <1>3 DEF TaskInv, Types, LocksHeld, WaitsRightly, Waiting, Locked, Places
<1> QED BY <1>1, <1>2, <1>3 DEF TaskInv, Types

\* The running task's step to its next place.
LEMMA StepOfCall ==
  ASSUME LocksHeld, NEW t \in Tasks, pxCurrentTCB = t, pxCurrentTCB' = t,
         pc \in [Tasks -> Places], NEW p, pc' = [pc EXCEPT ![t] = p],
         p \in TxHeld => cTxLock' # queueUNLOCKED, p \in RxHeld => cRxLock' # queueUNLOCKED
  PROVE  LocksHeld'
<1>1. ASSUME NEW u \in Tasks, u # t PROVE pc'[u] \notin Locked \cup TxHeld \cup RxHeld
  BY <1>1 DEF LocksHeld, Locked, TxHeld, RxHeld, Places
<1>2. pc'[t] = p
  OBVIOUS
<1> QED BY <1>1, <1>2 DEF LocksHeld

LEMMA WakeReceiversOwners ==
  ASSUME TaskInv, NEW n \in Nat, WakeReceivers(n)
  PROVE  \E W \in SUBSET Owners(xTasksWaitingToReceive) :
           /\ xTasksWaitingToReceive' \in ListOf(Tasks)
           /\ Owners(xTasksWaitingToReceive') = Owners(xTasksWaitingToReceive) \ W
           /\ blocked' = blocked \ W /\ xTasksWaitingToSend' = xTasksWaitingToSend
           /\ W \subseteq Tasks /\ W \subseteq blocked
           /\ W \cap Owners(xTasksWaitingToSend) = {}
           /\ ~IsEmpty(xTasksWaitingToReceive') =>
                ~IsEmpty(xTasksWaitingToReceive) /\ \E f : f \in Injection(1 .. n, W)
<1> DEFINE list == xTasksWaitingToReceive
           W == FirstOf(list, n)
<1>1. list \in ListOf(Tasks)
  BY DEF TaskInv, Types
<1>2. /\ WithoutFirst(list, n) \in ListOf(Tasks)
      /\ Owners(WithoutFirst(list, n)) = Owners(list) \ W
      /\ W \subseteq Owners(list)
      /\ ~IsEmpty(WithoutFirst(list, n)) =>
           ~IsEmpty(list) /\ \E f : f \in Injection(1 .. n, W)
  BY <1>1, FirstOnes
<1>3. /\ blocked' = blocked \ W /\ xTasksWaitingToReceive' = WithoutFirst(list, n)
      /\ xTasksWaitingToSend' = xTasksWaitingToSend
  BY DEF WakeReceivers
<1>4. Owners(list) \subseteq blocked /\ blocked \subseteq Tasks
  BY WaitersTry DEF TaskInv, Types
<1>5. W \cap Owners(xTasksWaitingToSend) = {}
  BY <1>2, WaitersTry
<1> HIDE DEF W
<1> QED BY <1>2, <1>3, <1>4, <1>5

LEMMA WakeSendersOwners ==
  ASSUME TaskInv, NEW n \in Nat, WakeSenders(n)
  PROVE  \E W \in SUBSET Owners(xTasksWaitingToSend) :
           /\ xTasksWaitingToSend' \in ListOf(Tasks)
           /\ Owners(xTasksWaitingToSend') = Owners(xTasksWaitingToSend) \ W
           /\ blocked' = blocked \ W /\ xTasksWaitingToReceive' = xTasksWaitingToReceive
           /\ W \subseteq Tasks /\ W \subseteq blocked
           /\ W \cap Owners(xTasksWaitingToReceive) = {}
           /\ ~IsEmpty(xTasksWaitingToSend') =>
                ~IsEmpty(xTasksWaitingToSend) /\ \E f : f \in Injection(1 .. n, W)
<1> DEFINE list == xTasksWaitingToSend
           W == FirstOf(list, n)
<1>1. list \in ListOf(Tasks)
  BY DEF TaskInv, Types
<1>2. /\ WithoutFirst(list, n) \in ListOf(Tasks)
      /\ Owners(WithoutFirst(list, n)) = Owners(list) \ W
      /\ W \subseteq Owners(list)
      /\ ~IsEmpty(WithoutFirst(list, n)) =>
           ~IsEmpty(list) /\ \E f : f \in Injection(1 .. n, W)
  BY <1>1, FirstOnes
<1>3. /\ blocked' = blocked \ W /\ xTasksWaitingToSend' = WithoutFirst(list, n)
      /\ xTasksWaitingToReceive' = xTasksWaitingToReceive
  BY DEF WakeSenders
<1>4. Owners(list) \subseteq blocked /\ blocked \subseteq Tasks
  BY WaitersTry DEF TaskInv, Types
<1>5. W \cap Owners(xTasksWaitingToReceive) = {}
  BY <1>2, WaitersTry
<1> HIDE DEF W
<1> QED BY <1>2, <1>3, <1>4, <1>5

\* A count of the tasks about to look, over a step that wakes W.
LEMMA Counted ==
  ASSUME TaskInv, TaskInv', NEW op, NEW W \in SUBSET Tasks, NEW n \in Nat,
         \E f : f \in Injection(1 .. n, W), W \subseteq blocked,
         NEW gone, (AboutTo(op) \ {gone}) \cup W \subseteq AboutTo(op)'
  PROVE  /\ Cardinality(AboutTo(op)) \in Nat /\ Cardinality(AboutTo(op)') \in Nat
         /\ Cardinality(AboutTo(op)') >= Cardinality(AboutTo(op)) + n - 1
         /\ gone \notin AboutTo(op) => Cardinality(AboutTo(op)') >= Cardinality(AboutTo(op)) + n
<1>1. AboutTo(op) \in SUBSET Tasks /\ AboutTo(op)' \in SUBSET Tasks
  BY DEF AboutTo, Ready
<1>2. AboutTo(op) \cap W = {}
  BY DEF AboutTo, Ready
<1> QED BY <1>1, <1>2, Enough

LEMMA CountedSame ==
  ASSUME TaskInv, TaskInv', NEW op, NEW gone, AboutTo(op) \ {gone} \subseteq AboutTo(op)'
  PROVE  /\ Cardinality(AboutTo(op)) \in Nat /\ Cardinality(AboutTo(op)') \in Nat
         /\ Cardinality(AboutTo(op)') >= Cardinality(AboutTo(op)) - 1
         /\ gone \notin AboutTo(op) => Cardinality(AboutTo(op)') >= Cardinality(AboutTo(op))
<1> DEFINE none == {}
<1>1. \E f : f \in Injection(1 .. 0, none)
  BY NoneNeeded
<1>2. none \in SUBSET Tasks /\ none \subseteq blocked
      /\ (AboutTo(op) \ {gone}) \cup none \subseteq AboutTo(op)'
  OBVIOUS
<1> HIDE DEF none
<1>3. /\ Cardinality(AboutTo(op)) \in Nat /\ Cardinality(AboutTo(op)') \in Nat
      /\ Cardinality(AboutTo(op)') >= Cardinality(AboutTo(op)) + 0 - 1
      /\ gone \notin AboutTo(op) => Cardinality(AboutTo(op)') >= Cardinality(AboutTo(op)) + 0
  BY <1>1, <1>2, Counted
<1> QED BY <1>3
-----------------------------------------------------------------------------
LEMMA InitInv == Init => Inv
<1> SUFFICES ASSUME Init PROVE Inv
  OBVIOUS
<1>1. /\ xTasksWaitingToSend \in ListOf(Tasks) /\ Owners(xTasksWaitingToSend) = {}
      /\ xTasksWaitingToReceive \in ListOf(Tasks) /\ Owners(xTasksWaitingToReceive) = {}
  BY EmptyList DEF Init
<1>2. TaskInv
  <2>1. Types
    <3>1. /\ cTxLock \in queueUNLOCKED .. MaxLocked /\ cRxLock \in queueUNLOCKED .. MaxLocked
      BY QueueAssumption DEF Init, queueUNLOCKED
    <3>2. pc \in [Tasks -> Places] /\ call \in [Tasks -> Calls \cup {NoCall}]
      BY DEF Init, Places
    <3> QED BY <1>1, <3>1, <3>2 DEF Init, Types
  <2>2. InCall /\ WaitsRightly
    BY <1>1 DEF Init, InCall, WaitsRightly, Waiting
  <2>3. LocksHeld
    BY DEF Init, LocksHeld, TxHeld, RxHeld, Locked
  <2> QED BY <2>1, <2>2, <2>3 DEF TaskInv
<1>3. IsEmpty(xTasksWaitingToSend) /\ IsEmpty(xTasksWaitingToReceive)
  BY <1>1, IsEmptyIffNoOwner
<1>4. Data
  <2>1. uxLength \in Nat \ {0} /\ uxLength \in 1 .. MaxLength /\ uxItemSize \in {0, 1}
    BY QueueAssumption DEF Init
  <2>2. /\ uxMessagesWaiting \in 0 .. uxLength /\ (uxItemSize # 0 => uxMessagesWaiting = 0)
        /\ pcWriteTo = 0 /\ pcReadFrom = uxLength - 1 /\ delivered = Token
        /\ storage \in [Slots -> Items]
    BY <2>1 DEF Init
  <2>3. Slot(uxLength, uxLength - 1, 1) = 0 /\ Slot(uxLength, uxLength - 1, 0 + 1) = 0
    BY <2>1 DEF Slot
  <2> QED BY <2>1, <2>2, <2>3 DEF Data
<1>5. PlacedRightly
  BY DEF Init, PlacedRightly
<1> QED BY <1>2, <1>3, <1>4, <1>5 DEF Inv, ReceiversWoken, SendersWoken

\* Steps by which no task begins to wait and no message or room appears.
LEMMA NoneMore ==
  ASSUME Inv, Data', TaskInv', UNCHANGED <<uxLength, uxMessagesWaiting, wasReset>>,
         Held(cTxLock)' = Held(cTxLock), Held(cRxLock)' = Held(cRxLock),
         IsEmpty(xTasksWaitingToReceive) => IsEmpty(xTasksWaitingToReceive)',
         IsEmpty(xTasksWaitingToSend) => IsEmpty(xTasksWaitingToSend)',
         AboutTo("receive") \subseteq AboutTo("receive")' \/ uxMessagesWaiting = 0,
         AboutTo("send") \subseteq AboutTo("send")' \/ uxMessagesWaiting = uxLength,
         \A u \in Tasks : pc'[u] = "place" =>
           \/ pc[u] = "place" /\ call'[u] = call[u]
           \/ IF call'[u].op = "receive" THEN uxMessagesWaiting = 0
                                         ELSE uxMessagesWaiting = uxLength
  PROVE  Inv'
<1>1. /\ uxLength \in Int /\ uxMessagesWaiting \in Int
      /\ Held(cTxLock) \in Nat /\ Held(cRxLock) \in Nat
  BY QueueAssumption DEF Inv, Data, TaskInv, Types, Held, queueUNLOCKED
<1>2. /\ Cardinality(AboutTo("send")') \in Nat /\ Cardinality(AboutTo("receive")') \in Nat
  <2>1. AboutTo("send")' \in SUBSET Tasks /\ AboutTo("receive")' \in SUBSET Tasks
    BY DEF AboutTo, Ready
  <2> QED BY <2>1, QueueAssumption, FS_Subset, FS_CardinalityType
<1>3. ReceiversWoken'
  <2>1. CASE uxMessagesWaiting = 0
    BY <1>1, <1>2, <2>1 DEF ReceiversWoken
  <2>2. CASE AboutTo("receive") \subseteq AboutTo("receive")'
    <3>1. PICK gone : gone \notin Tasks
      BY QueueAssumption
    <3>2. gone \notin AboutTo("receive") /\ AboutTo("receive") \ {gone} \subseteq AboutTo("receive")'
      BY <2>2, <3>1 DEF AboutTo, Ready
    <3>3. /\ Cardinality(AboutTo("receive")) \in Nat
          /\ Cardinality(AboutTo("receive")') >= Cardinality(AboutTo("receive"))
      BY <3>2, CountedSame DEF Inv
    <3> QED BY <1>1, <1>2, <3>3 DEF Inv, ReceiversWoken
  <2> QED BY <2>1, <2>2
<1>4. SendersWoken'
  <2>1. CASE uxMessagesWaiting = uxLength
    BY <1>1, <1>2, <2>1 DEF SendersWoken
  <2>2. CASE AboutTo("send") \subseteq AboutTo("send")'
    <3>1. PICK gone : gone \notin Tasks
      BY QueueAssumption
    <3>2. gone \notin AboutTo("send") /\ AboutTo("send") \ {gone} \subseteq AboutTo("send")'
      BY <2>2, <3>1 DEF AboutTo, Ready
    <3>3. /\ Cardinality(AboutTo("send")) \in Nat
          /\ Cardinality(AboutTo("send")') >= Cardinality(AboutTo("send"))
      BY <3>2, CountedSame DEF Inv
    <3> QED BY <1>1, <1>2, <3>3 DEF Inv, SendersWoken
  <2> QED BY <2>1, <2>2
<1>5. PlacedRightly'
  BY <1>1 DEF Inv, PlacedRightly
<1> QED BY <1>3, <1>4, <1>5 DEF Inv

LEMMA StutterInv ==
  ASSUME Inv, vTaskSwitchContext \/ UNCHANGED vars
  PROVE  Inv'
<1>1. UNCHANGED <<creation, buffer, locks, waiting, blocked, expired, pc, call, delivered, wasReset>>
  BY DEF vTaskSwitchContext, vars, kernel
<1>2. \/ pxCurrentTCB' = pxCurrentTCB
      \/ ~SchedulerSuspended /\ pxCurrentTCB' \in Tasks \cup {NoTask}
  BY DEF vTaskSwitchContext, vars, kernel, Ready
<1>3. TaskInv'
  <2>1. Types'
    BY <1>1, <1>2 DEF Inv, TaskInv, Types, locks, waiting
  <2>2. InCall' /\ WaitsRightly'
    BY <1>1 DEF Inv, TaskInv, InCall, WaitsRightly, Waiting, waiting, CallAllowed, SendAllowed, creation
  <2>3. LocksHeld'
    BY <1>1, <1>2 DEF Inv, TaskInv, LocksHeld, SchedulerSuspended, locks
  <2> QED BY <2>1, <2>2, <2>3 DEF TaskInv
<1>4. Data'
  BY <1>1 DEF Inv, Data, creation, buffer
<1>5. AboutTo("send")' = AboutTo("send") /\ AboutTo("receive")' = AboutTo("receive")
  BY <1>1 DEF AboutTo, Ready
<1> QED BY <1>1, <1>3, <1>4, <1>5, NoneMore DEF creation, buffer, locks, waiting, Held, IsEmpty

\* Steps that let no task in to the event lists.
LEMMA FewerWaiters ==
  ASSUME TaskInv, UNCHANGED creation,
         xTasksWaitingToSend' \in ListOf(Tasks), xTasksWaitingToReceive' \in ListOf(Tasks),
         Owners(xTasksWaitingToSend') \subseteq Owners(xTasksWaitingToSend),
         Owners(xTasksWaitingToReceive') \subseteq Owners(xTasksWaitingToReceive),
         blocked' = Owners(xTasksWaitingToSend') \cup Owners(xTasksWaitingToReceive'),
         expired' \subseteq Tasks, wasReset' \in BOOLEAN, UNCHANGED pxCurrentTCB,
         cTxLock' \in queueUNLOCKED .. MaxLocked, cRxLock' \in queueUNLOCKED .. MaxLocked,
         pc' \in [Tasks -> Places], call' \in [Tasks -> Calls \cup {NoCall}],
         \A u \in Tasks : pc'[u] # "run" => call'[u] \in Calls /\ CallAllowed(call'[u]),
         \A u \in blocked' : /\ pc'[u] \in {"unlockTx", "unlockRx", "resume", "try"}
                            /\ call'[u] = call[u],
         LocksHeld'
  PROVE  TaskInv'
<1>1. Types'
  BY DEF TaskInv, Types
<1>2. InCall'
  BY DEF InCall, CallAllowed, SendAllowed, creation
<1>3. WaitsRightly'
  BY DEF TaskInv, WaitsRightly, Waiting
<1> QED BY <1>1, <1>2, <1>3 DEF TaskInv

\* Such a step of the running task, to its place p.
LEMMA RunningStep ==
  ASSUME TaskInv, NEW t \in Tasks, NEW p \in Places, UNCHANGED <<creation, pxCurrentTCB>>,
         xTasksWaitingToSend' \in ListOf(Tasks), xTasksWaitingToReceive' \in ListOf(Tasks),
         Owners(xTasksWaitingToSend') \subseteq Owners(xTasksWaitingToSend),
         Owners(xTasksWaitingToReceive') \subseteq Owners(xTasksWaitingToReceive),
         blocked' = Owners(xTasksWaitingToSend') \cup Owners(xTasksWaitingToReceive'),
         pxCurrentTCB = t, pc' = [pc EXCEPT ![t] = p],
         call' \in [Tasks -> Calls \cup {NoCall}],
         \A u \in Tasks : u # t => call'[u] = call[u],
         p # "run" => call'[t] \in Calls /\ CallAllowed(call'[t]),
         t \in blocked' => p \in {"unlockTx", "unlockRx", "resume", "try"} /\ call'[t] = call[t],
         cTxLock' \in queueUNLOCKED .. MaxLocked, cRxLock' \in queueUNLOCKED .. MaxLocked,
         expired' \subseteq Tasks, wasReset' \in BOOLEAN,
         p \in TxHeld => cTxLock' # queueUNLOCKED, p \in RxHeld => cRxLock' # queueUNLOCKED
  PROVE  TaskInv'
<1>1. pc \in [Tasks -> Places] /\ LocksHeld
  BY DEF TaskInv, Types
<1>2. LocksHeld'
  BY <1>1, StepOfCall
<1>3. pc' \in [Tasks -> Places] /\ pc'[t] = p /\ \A u \in Tasks : u # t => pc'[u] = pc[u]
  BY <1>1
<1>4. \A u \in Tasks : pc'[u] # "run" => call'[u] \in Calls /\ CallAllowed(call'[u])
  BY <1>3 DEF TaskInv, InCall
<1>5. \A u \in blocked' : /\ pc'[u] \in {"unlockTx", "unlockRx", "resume", "try"}
                         /\ call'[u] = call[u]
  <2>1. blocked' \subseteq blocked /\ blocked \subseteq Tasks
    BY WaitersTry DEF TaskInv, Types
  <2>2. \A u \in blocked : u # t => pc[u] = "try"
    BY WaitersTry
  <2> QED BY <1>3, <2>1, <2>2
<1> QED BY <1>2, <1>3, <1>4, <1>5, FewerWaiters

\* One that leaves the event lists as they are.
LEMMA SameLists ==
  ASSUME TaskInv, NEW t \in Tasks, NEW p \in Places,
         UNCHANGED <<creation, waiting, blocked, pxCurrentTCB, wasReset>>,
         pxCurrentTCB = t, pc' = [pc EXCEPT ![t] = p],
         call' \in [Tasks -> Calls \cup {NoCall}],
         \A u \in Tasks : u # t => call'[u] = call[u],
         p # "run" => call'[t] \in Calls /\ CallAllowed(call'[t]),
         t \in blocked => p \in {"unlockTx", "unlockRx", "resume", "try"} /\ call'[t] = call[t],
         cTxLock' \in queueUNLOCKED .. MaxLocked, cRxLock' \in queueUNLOCKED .. MaxLocked,
         expired' \subseteq Tasks,
         p \in TxHeld => cTxLock' # queueUNLOCKED, p \in RxHeld => cRxLock' # queueUNLOCKED
  PROVE  TaskInv'
<1>1. /\ xTasksWaitingToSend' = xTasksWaitingToSend
      /\ xTasksWaitingToReceive' = xTasksWaitingToReceive
      /\ xTasksWaitingToSend \in ListOf(Tasks) /\ xTasksWaitingToReceive \in ListOf(Tasks)
      /\ blocked = Owners(xTasksWaitingToSend) \cup Owners(xTasksWaitingToReceive)
      /\ wasReset \in BOOLEAN
  BY DEF TaskInv, Types, waiting
<1> QED BY <1>1, RunningStep

LEMMA GoOnToWaitInv ==
  ASSUME Inv, NEW t \in Tasks, NEW c \in Calls, GoOnToWait(t, c)
  PROVE  Inv'
<1>1. /\ pxCurrentTCB = t /\ t \notin blocked
      /\ pc' = [pc EXCEPT ![t] = "lock"] /\ call' = [call EXCEPT ![t] = c]
      /\ UNCHANGED <<creation, buffer, locks, waiting, blocked, expired, pxCurrentTCB,
                     delivered, wasReset>>
      /\ IF c.op = "send" THEN ~CanSend(c.position) ELSE prvIsQueueEmpty
      /\ \/ pc[t] = "run" /\ CallAllowed(c)
         \/ pc[t] = "try" /\ c = call[t]
  BY DEF GoOnToWait, Attempts, kernel
<1>2. CallAllowed(c) /\ CallAllowed(c)'
  BY <1>1 DEF Inv, TaskInv, InCall, CallAllowed, SendAllowed, creation
<1>3. TaskInv'
  <2>1. /\ TaskInv /\ call \in [Tasks -> Calls \cup {NoCall}] /\ expired \subseteq Tasks
        /\ cTxLock \in queueUNLOCKED .. MaxLocked /\ cRxLock \in queueUNLOCKED .. MaxLocked
    BY DEF Inv, TaskInv, Types
  <2>2. /\ call' \in [Tasks -> Calls \cup {NoCall}] /\ call'[t] = c
        /\ \A u \in Tasks : u # t => call'[u] = call[u]
    BY <1>1, <2>1
  <2>3. "lock" \in Places \ (TxHeld \cup RxHeld)
    BY DEF Places, TxHeld, RxHeld
  <2> QED BY <1>1, <1>2, <2>1, <2>2, <2>3, SameLists DEF locks
<1>4. Data'
  BY <1>1 DEF Inv, Data, creation, buffer
<1>5. /\ c.op = "receive" => uxMessagesWaiting = 0
      /\ c.op # "receive" => uxMessagesWaiting = uxLength
  BY <1>1, CallFields, QueueAssumption DEF CanSend, prvIsQueueEmpty, Inv, Data
<1>6. \A op \in {"send", "receive"} : c.op # op => AboutTo(op) \subseteq AboutTo(op)'
  BY <1>1 DEF AboutTo, Ready
<1>7. \A u \in Tasks : pc'[u] = "place" => pc[u] = "place" /\ call'[u] = call[u]
  BY <1>1 DEF Inv, TaskInv, Types
<1> QED BY <1>1, <1>3, <1>4, <1>5, <1>6, <1>7, CallFields, NoneMore
    DEF creation, buffer, locks, waiting, Held, IsEmpty

LEMMA ResumeInv ==
  ASSUME Inv, NEW t \in Tasks, Resume(t) \/ GiveUp(t)
  PROVE  Inv'
<1>1. /\ pxCurrentTCB = t
      /\ UNCHANGED <<creation, buffer, locks, waiting, blocked, pxCurrentTCB, delivered, wasReset>>
      /\ pc[t] \in {"resume", "gaveUp", "last"} /\ (pc[t] # "resume" => t \notin blocked)
  BY WaitersTry DEF Resume, GiveUp, kernel, Inv, TaskInv, Types, WaitsRightly, Waiting
<1>2. PICK p \in {"run", "last", "try"} :
        /\ pc' = [pc EXCEPT ![t] = p] /\ (pc[t] = "resume" => p = "try")
        /\ \/ call' = call /\ expired' = expired
           \/ p = "run" /\ call' = [call EXCEPT ![t] = NoCall] /\ expired' = expired \ {t}
  BY <1>1 DEF Resume, GiveUp, Return, kernel
<1>3. /\ TaskInv /\ call \in [Tasks -> Calls \cup {NoCall}] /\ expired \subseteq Tasks
      /\ pc \in [Tasks -> Places]
      /\ cTxLock \in queueUNLOCKED .. MaxLocked /\ cRxLock \in queueUNLOCKED .. MaxLocked
  BY DEF Inv, TaskInv, Types
<1>4. TaskInv'
  <2>1. /\ call' \in [Tasks -> Calls \cup {NoCall}] /\ expired' \subseteq Tasks
        /\ \A u \in Tasks : u # t => call'[u] = call[u]
        /\ p # "run" => call'[t] = call[t]
    BY <1>2, <1>3
  <2>2. p \in Places \ (TxHeld \cup RxHeld)
    BY <1>2 DEF Places, TxHeld, RxHeld
  <2>3. p # "run" => call'[t] \in Calls /\ CallAllowed(call'[t])
    BY <1>1, <2>1 DEF Inv, TaskInv, InCall
  <2>4. t \in blocked => p = "try" /\ call'[t] = call[t]
    BY <1>1, <1>2, <2>1
  <2> QED BY <1>1, <1>2, <1>3, <2>1, <2>2, <2>3, <2>4, SameLists DEF locks
<1>5. Data'
  BY <1>1 DEF Inv, Data, creation, buffer
<1>6. AboutTo("send") \subseteq AboutTo("send")' /\ AboutTo("receive") \subseteq AboutTo("receive")'
  BY <1>1, <1>2, <1>3 DEF AboutTo, Ready
<1>7. \A u \in Tasks : pc'[u] = "place" => pc[u] = "place" /\ call'[u] = call[u]
  BY <1>2, <1>3
<1> QED BY <1>1, <1>4, <1>5, <1>6, <1>7, NoneMore
    DEF creation, buffer, locks, waiting, Held, IsEmpty

LEMMA LockInv ==
  ASSUME Inv, NEW t \in Tasks, LockQueue(t)
  PROVE  Inv'
<1>1. /\ pxCurrentTCB = t /\ t \notin blocked /\ pc[t] = "lock" /\ pc' = [pc EXCEPT ![t] = "check"]
      /\ UNCHANGED <<creation, buffer, waiting, blocked, expired, pxCurrentTCB, call,
                     delivered, wasReset>>
      /\ cRxLock' = IF cRxLock = queueUNLOCKED THEN queueLOCKED_UNMODIFIED ELSE cRxLock
      /\ cTxLock' = IF cTxLock = queueUNLOCKED THEN queueLOCKED_UNMODIFIED ELSE cTxLock
  BY DEF LockQueue, Goes, kernel
<1>2. /\ TaskInv /\ call \in [Tasks -> Calls \cup {NoCall}] /\ expired \subseteq Tasks
      /\ pc \in [Tasks -> Places]
      /\ call[t] \in Calls /\ CallAllowed(call[t])
  BY <1>1 DEF Inv, TaskInv, Types, InCall
<1>3. /\ cTxLock' \in queueUNLOCKED .. MaxLocked /\ cRxLock' \in queueUNLOCKED .. MaxLocked
      /\ cTxLock' # queueUNLOCKED /\ cRxLock' # queueUNLOCKED
      /\ Held(cTxLock)' = Held(cTxLock) /\ Held(cRxLock)' = Held(cRxLock)
  BY <1>1, QueueAssumption
  DEF Inv, TaskInv, Types, queueUNLOCKED, queueLOCKED_UNMODIFIED, Held
<1>4. TaskInv'
  <2>1. "check" \in Places
    BY DEF Places
  <2>2. CallAllowed(call'[t])
    BY <1>1, <1>2
  <2> QED BY <1>1, <1>2, <1>3, <2>1, <2>2, SameLists
<1>5. Data'
  BY <1>1 DEF Inv, Data, creation, buffer
<1>6. AboutTo("send") \subseteq AboutTo("send")' /\ AboutTo("receive") \subseteq AboutTo("receive")'
  BY <1>1, <1>2 DEF AboutTo, Ready
<1>7. \A u \in Tasks : pc'[u] = "place" => pc[u] = "place" /\ call'[u] = call[u]
  BY <1>1, <1>2
<1> QED BY <1>1, <1>3, <1>4, <1>5, <1>6, <1>7, NoneMore DEF creation, buffer, waiting, IsEmpty

LEMMA CheckInv ==
  ASSUME Inv, NEW t \in Tasks, CheckForTimeOut(t)
  PROVE  Inv'
<1>1. /\ pxCurrentTCB = t /\ pc[t] = "check"
      /\ UNCHANGED <<creation, buffer, locks, waiting, blocked, expired, pxCurrentTCB, call,
                     delivered, wasReset>>
  BY DEF CheckForTimeOut, kernel
<1>2. PICK p \in {"gaveUpTx", "place", "unlockTx"} :
        /\ pc' = [pc EXCEPT ![t] = p]
        /\ p = "place" => IF call[t].op = "send" THEN prvIsQueueFull ELSE prvIsQueueEmpty
  BY DEF CheckForTimeOut
<1>3. /\ TaskInv /\ call \in [Tasks -> Calls \cup {NoCall}] /\ expired \subseteq Tasks
      /\ pc \in [Tasks -> Places]
      /\ call[t] \in Calls /\ CallAllowed(call[t])
      /\ cTxLock \in queueUNLOCKED .. MaxLocked /\ cRxLock \in queueUNLOCKED .. MaxLocked
  BY <1>1 DEF Inv, TaskInv, Types, InCall
<1>4. t \notin blocked
  BY <1>1 DEF Inv, TaskInv, Types, WaitsRightly, Waiting
<1>5. cTxLock # queueUNLOCKED /\ cRxLock # queueUNLOCKED
  BY <1>1 DEF Inv, TaskInv, LocksHeld, TxHeld, RxHeld
<1>6. TaskInv'
  <2>1. p \in Places
    BY <1>2 DEF Places
  <2>2. CallAllowed(call'[t])
    BY <1>1, <1>3
  <2> QED BY <1>1, <1>2, <1>3, <1>4, <1>5, <2>1, <2>2, SameLists DEF locks
<1>7. Data'
  BY <1>1 DEF Inv, Data, creation, buffer
<1>8. AboutTo("send") \subseteq AboutTo("send")' /\ AboutTo("receive") \subseteq AboutTo("receive")'
  BY <1>1, <1>2, <1>3 DEF AboutTo, Ready
<1>9. \A u \in Tasks : pc'[u] = "place" =>
        \/ pc[u] = "place" /\ call'[u] = call[u]
        \/ IF call'[u].op = "receive" THEN uxMessagesWaiting = 0
                                      ELSE uxMessagesWaiting = uxLength
  <2>1. ASSUME p = "place"
        PROVE  IF call'[t].op = "receive" THEN uxMessagesWaiting = 0
                                          ELSE uxMessagesWaiting = uxLength
    BY <1>1, <1>2, <1>3, <2>1, CallFields DEF prvIsQueueFull, prvIsQueueEmpty
  <2>2. ASSUME NEW u \in Tasks, u # t PROVE pc'[u] = pc[u] /\ call'[u] = call[u]
    BY <1>1, <1>2, <1>3, <2>2
  <2>3. pc'[t] = p
    BY <1>2, <1>3
  <2> QED BY <2>1, <2>2, <2>3
<1> QED BY <1>1, <1>6, <1>7, <1>8, <1>9, NoneMore
    DEF creation, buffer, locks, waiting, Held, IsEmpty
-----------------------------------------------------------------------------
LEMMA NoneAtPlace ==
  ASSUME TaskInv, NEW t \in Tasks, pxCurrentTCB = t, NEW p, pc' = [pc EXCEPT ![t] = p], p # "place"
  PROVE  PlacedRightly'
<1>1. ASSUME NEW u \in Tasks PROVE pc'[u] # "place"
  BY DEF TaskInv, Types, LocksHeld, Locked, Places
<1> QED BY <1>1 DEF PlacedRightly

LEMMA Numbers ==
  ASSUME Inv
  PROVE  /\ uxLength \in Nat \ {0} /\ uxMessagesWaiting \in 0 .. uxLength
         /\ Held(cTxLock) \in Nat /\ Held(cRxLock) \in Nat
         /\ cTxLock \in Int /\ cRxLock \in Int /\ MaxLocked \in Nat
         /\ cTxLock # queueUNLOCKED => cTxLock \in Nat /\ Held(cTxLock) = cTxLock
         /\ cRxLock # queueUNLOCKED => cRxLock \in Nat /\ Held(cRxLock) = cRxLock
BY QueueAssumption DEF Inv, Data, TaskInv, Types, Held, queueUNLOCKED

\* What the queue's count becomes.
LEMMA SendCount ==
  ASSUME Data, NEW item, NEW position, SendAllowed(item, position), CanSend(position),
         prvCopyDataToQueue(item, position)
  PROVE  \/ uxMessagesWaiting' = uxMessagesWaiting + 1
         \/ uxMessagesWaiting' = uxMessagesWaiting /\ uxMessagesWaiting = uxLength
<1>1. uxLength \in Nat /\ uxMessagesWaiting \in 0 .. uxLength
  BY QueueAssumption DEF Data
<1>2. uxMessagesWaiting' = IF position = "overwrite" /\ uxMessagesWaiting > 0
                           THEN uxMessagesWaiting ELSE uxMessagesWaiting + 1
  BY DEF prvCopyDataToQueue
<1>3. position = "overwrite" => uxLength = 1
  BY DEF SendAllowed
<1> QED BY <1>1, <1>2, <1>3

\* The call of a task that is at the first critical section.
LEMMA AttemptCall ==
  ASSUME TaskInv, NEW t \in Tasks, NEW c \in Calls, Attempts(t, c)
  PROVE  /\ pxCurrentTCB = t /\ t \notin blocked /\ CallAllowed(c)
         /\ \A op : op # c.op => t \notin AboutTo(op)
         /\ "run" \in Places \ (TxHeld \cup RxHeld)
BY DEF TaskInv, InCall, Attempts, AboutTo, Places, TxHeld, RxHeld

\* One lemma for each step: it keeps the invariant.
LEMMA SendInv ==
  ASSUME Inv, NEW t \in Tasks, NEW c \in Calls, Send(t, c)
  PROVE  Inv'
<1>1. /\ pxCurrentTCB = t /\ t \notin blocked /\ CallAllowed(c) /\ c.op = "send"
      /\ t \notin AboutTo("receive") /\ "run" \in Places \ (TxHeld \cup RxHeld)
  BY AttemptCall DEF Inv, Send
<1>2. /\ pc' = [pc EXCEPT ![t] = "run"] /\ call' = [call EXCEPT ![t] = NoCall]
      /\ expired' = expired \ {t}
      /\ UNCHANGED <<creation, locks, pxCurrentTCB, delivered, wasReset>>
      /\ prvCopyDataToQueue(c.item, c.position) /\ CanSend(c.position)
      /\ SendAllowed(c.item, c.position) /\ c.item \in Items \cup {Token} /\ c.position \in Positions
      /\ WakeReceivers(1)
  BY <1>1, CallFields DEF Send, Return, CallAllowed
<1>3. Data'
  BY <1>2, SendIsFifo DEF Inv
<1>4. PICK W \in SUBSET Owners(xTasksWaitingToReceive) :
           /\ xTasksWaitingToReceive' \in ListOf(Tasks)
           /\ Owners(xTasksWaitingToReceive') = Owners(xTasksWaitingToReceive) \ W
           /\ blocked' = blocked \ W /\ xTasksWaitingToSend' = xTasksWaitingToSend
           /\ W \subseteq Tasks /\ W \subseteq blocked
           /\ W \cap Owners(xTasksWaitingToSend) = {}
           /\ ~IsEmpty(xTasksWaitingToReceive') =>
                ~IsEmpty(xTasksWaitingToReceive) /\ \E f : f \in Injection(1 .. 1, W)
  <2>1. 1 \in Nat
    OBVIOUS
  <2> QED BY <1>2, <2>1, WakeReceiversOwners DEF Inv
<1>5. /\ TaskInv /\ call \in [Tasks -> Calls \cup {NoCall}] /\ expired \subseteq Tasks
      /\ pc \in [Tasks -> Places] /\ wasReset \in BOOLEAN
      /\ cTxLock \in queueUNLOCKED .. MaxLocked /\ cRxLock \in queueUNLOCKED .. MaxLocked
      /\ xTasksWaitingToSend \in ListOf(Tasks)
      /\ blocked = Owners(xTasksWaitingToSend) \cup Owners(xTasksWaitingToReceive)
  BY DEF Inv, TaskInv, Types
<1>6. TaskInv'
  <2>1. /\ call' \in [Tasks -> Calls \cup {NoCall}] /\ expired' \subseteq Tasks
        /\ \A u \in Tasks : u # t => call'[u] = call[u]
    BY <1>2, <1>5
  <2>2. /\ Owners(xTasksWaitingToSend') \subseteq Owners(xTasksWaitingToSend)
        /\ Owners(xTasksWaitingToReceive') \subseteq Owners(xTasksWaitingToReceive)
        /\ blocked' = Owners(xTasksWaitingToSend') \cup Owners(xTasksWaitingToReceive')
        /\ t \notin blocked'
    BY <1>1, <1>4, <1>5
  <2> QED BY <1>1, <1>2, <1>4, <1>5, <2>1, <2>2, RunningStep DEF locks
<1>7. PlacedRightly'
  BY <1>1, <1>2, <1>5, NoneAtPlace
<1>8. ReceiversWoken'
  <2>1. ASSUME ~IsEmpty(xTasksWaitingToReceive')
        PROVE  uxMessagesWaiting' <= Cardinality(AboutTo("receive")') + Held(cTxLock)'
    <3>1. \A w \in W : pc[w] = "try" /\ w # t /\ call[w].op = "receive"
      BY <1>1, <1>4, <1>5, WaitersTry DEF TaskInv, WaitsRightly, Waiting
    <3>2. (AboutTo("receive") \ {t}) \cup W \subseteq AboutTo("receive")'
      BY <1>2, <1>4, <1>5, <3>1 DEF AboutTo, Ready
    <3>3. /\ Cardinality(AboutTo("receive")) \in Nat /\ Cardinality(AboutTo("receive")') \in Nat
          /\ Cardinality(AboutTo("receive")') >= Cardinality(AboutTo("receive")) + 1
      <4>1. 1 \in Nat /\ W \in SUBSET Tasks /\ \E f : f \in Injection(1 .. 1, W)
        BY <1>4, <2>1
      <4> QED BY <1>1, <1>4, <1>5, <1>6, <3>2, <4>1, Counted
    <3>4. uxMessagesWaiting <= Cardinality(AboutTo("receive")) + Held(cTxLock)
      BY <1>4, <2>1 DEF Inv, ReceiversWoken
    <3>5. Held(cTxLock)' = Held(cTxLock)
      BY <1>2 DEF Held, locks
    <3> QED BY <1>2, <3>3, <3>4, <3>5, Numbers, SendCount DEF Inv
  <2> QED BY <2>1 DEF ReceiversWoken
<1>9. SendersWoken'
  <2>1. AboutTo("send") \ {t} \subseteq AboutTo("send")'
    BY <1>2, <1>4, <1>5 DEF AboutTo, Ready
  <2>2. /\ Cardinality(AboutTo("send")) \in Nat /\ Cardinality(AboutTo("send")') \in Nat
        /\ Cardinality(AboutTo("send")') >= Cardinality(AboutTo("send")) - 1
    BY <1>5, <1>6, <2>1, CountedSame
  <2>3. Held(cRxLock)' = Held(cRxLock) /\ uxLength' = uxLength /\ wasReset' = wasReset
    BY <1>2 DEF Held, locks, creation
  <2>4. \/ uxMessagesWaiting' = uxMessagesWaiting + 1
        \/ uxMessagesWaiting' = uxMessagesWaiting /\ uxMessagesWaiting = uxLength
    BY <1>2, SendCount DEF Inv
  <2> QED BY <1>4, <2>2, <2>3, <2>4, Numbers DEF Inv, SendersWoken
<1> QED BY <1>3, <1>6, <1>7, <1>8, <1>9 DEF Inv

LEMMA PeekInv ==
  ASSUME Inv, NEW t \in Tasks, NEW c \in Calls, Receive(t, c), c.peek
  PROVE  Inv'
<1>1. /\ pxCurrentTCB = t /\ t \notin blocked /\ c.op = "receive"
      /\ t \notin AboutTo("send") /\ "run" \in Places \ (TxHeld \cup RxHeld)
  BY AttemptCall DEF Inv, Receive
<1>2. /\ pc' = [pc EXCEPT ![t] = "run"] /\ call' = [call EXCEPT ![t] = NoCall]
      /\ expired' = expired \ {t}
      /\ UNCHANGED <<creation, locks, pxCurrentTCB, wasReset>>
      /\ ~prvIsQueueEmpty /\ CopyOut(TRUE) /\ uxMessagesWaiting' = uxMessagesWaiting
      /\ WakeReceivers(1)
  <2>1. c.peek = TRUE
    BY <1>1, CallFields
  <2> QED BY <2>1 DEF Receive, Return, CopyOut
<1>3. Data'
  BY <1>2, CopyOutIsFifo DEF Inv
<1>4. PICK W \in SUBSET Owners(xTasksWaitingToReceive) :
           /\ xTasksWaitingToReceive' \in ListOf(Tasks)
           /\ Owners(xTasksWaitingToReceive') = Owners(xTasksWaitingToReceive) \ W
           /\ blocked' = blocked \ W /\ xTasksWaitingToSend' = xTasksWaitingToSend
           /\ W \subseteq Tasks /\ W \subseteq blocked
           /\ W \cap Owners(xTasksWaitingToSend) = {}
           /\ ~IsEmpty(xTasksWaitingToReceive') =>
                ~IsEmpty(xTasksWaitingToReceive) /\ \E f : f \in Injection(1 .. 1, W)
  <2>1. 1 \in Nat
    OBVIOUS
  <2> QED BY <1>2, <2>1, WakeReceiversOwners DEF Inv
<1>5. /\ TaskInv /\ call \in [Tasks -> Calls \cup {NoCall}] /\ expired \subseteq Tasks
      /\ pc \in [Tasks -> Places] /\ wasReset \in BOOLEAN
      /\ cTxLock \in queueUNLOCKED .. MaxLocked /\ cRxLock \in queueUNLOCKED .. MaxLocked
      /\ xTasksWaitingToSend \in ListOf(Tasks)
      /\ blocked = Owners(xTasksWaitingToSend) \cup Owners(xTasksWaitingToReceive)
  BY DEF Inv, TaskInv, Types
<1>6. TaskInv'
  <2>1. /\ call' \in [Tasks -> Calls \cup {NoCall}] /\ expired' \subseteq Tasks
        /\ \A u \in Tasks : u # t => call'[u] = call[u]
    BY <1>2, <1>5
  <2>2. /\ Owners(xTasksWaitingToSend') \subseteq Owners(xTasksWaitingToSend)
        /\ Owners(xTasksWaitingToReceive') \subseteq Owners(xTasksWaitingToReceive)
        /\ blocked' = Owners(xTasksWaitingToSend') \cup Owners(xTasksWaitingToReceive')
        /\ t \notin blocked'
    BY <1>1, <1>4, <1>5
  <2> QED BY <1>1, <1>2, <1>4, <1>5, <2>1, <2>2, RunningStep DEF locks
<1>7. PlacedRightly'
  BY <1>1, <1>2, <1>5, NoneAtPlace
<1>8. ReceiversWoken'
  <2>1. ASSUME ~IsEmpty(xTasksWaitingToReceive')
        PROVE  uxMessagesWaiting' <= Cardinality(AboutTo("receive")') + Held(cTxLock)'
    <3>1. \A w \in W : pc[w] = "try" /\ w # t /\ call[w].op = "receive"
      BY <1>1, <1>4, <1>5, WaitersTry DEF TaskInv, WaitsRightly, Waiting
    <3>2. (AboutTo("receive") \ {t}) \cup W \subseteq AboutTo("receive")'
      BY <1>2, <1>4, <1>5, <3>1 DEF AboutTo, Ready
    <3>3. /\ Cardinality(AboutTo("receive")) \in Nat /\ Cardinality(AboutTo("receive")') \in Nat
          /\ Cardinality(AboutTo("receive")') >= Cardinality(AboutTo("receive")) + 1 - 1
      <4>1. 1 \in Nat /\ W \in SUBSET Tasks /\ \E f : f \in Injection(1 .. 1, W)
        BY <1>4, <2>1
      <4> QED BY <1>1, <1>4, <1>5, <1>6, <3>2, <4>1, Counted
    <3>4. uxMessagesWaiting <= Cardinality(AboutTo("receive")) + Held(cTxLock)
      BY <1>4, <2>1 DEF Inv, ReceiversWoken
    <3>5. Held(cTxLock)' = Held(cTxLock)
      BY <1>2 DEF Held, locks
    <3> QED BY <1>2, <3>3, <3>4, <3>5, Numbers
  <2> QED BY <2>1 DEF ReceiversWoken
<1>9. SendersWoken'
  <2>1. AboutTo("send") \ {t} \subseteq AboutTo("send")'
    BY <1>2, <1>4, <1>5 DEF AboutTo, Ready
  <2>2. /\ Cardinality(AboutTo("send")) \in Nat /\ Cardinality(AboutTo("send")') \in Nat
        /\ Cardinality(AboutTo("send")') >= Cardinality(AboutTo("send"))
    BY <1>1, <1>5, <1>6, <2>1, CountedSame
  <2>3. Held(cRxLock)' = Held(cRxLock) /\ uxLength' = uxLength /\ wasReset' = wasReset
    BY <1>2 DEF Held, locks, creation
  <2> QED BY <1>2, <1>4, <2>2, <2>3, Numbers DEF Inv, SendersWoken
<1> QED BY <1>3, <1>6, <1>7, <1>8, <1>9 DEF Inv

LEMMA ReceiveInv ==
  ASSUME Inv, NEW t \in Tasks, NEW c \in Calls, Receive(t, c), ~c.peek
  PROVE  Inv'
<1>1. /\ pxCurrentTCB = t /\ t \notin blocked /\ c.op = "receive"
      /\ t \notin AboutTo("send") /\ "run" \in Places \ (TxHeld \cup RxHeld)
  BY AttemptCall DEF Inv, Receive
<1>2. /\ pc' = [pc EXCEPT ![t] = "run"] /\ call' = [call EXCEPT ![t] = NoCall]
      /\ expired' = expired \ {t}
      /\ UNCHANGED <<creation, locks, pxCurrentTCB, wasReset>>
      /\ ~prvIsQueueEmpty /\ CopyOut(FALSE) /\ uxMessagesWaiting' = uxMessagesWaiting - 1
      /\ WakeSenders(1)
  <2>1. c.peek = FALSE
    BY <1>1, CallFields
  <2> QED BY <2>1 DEF Receive, Return, CopyOut
<1>3. Data'
  BY <1>2, CopyOutIsFifo DEF Inv
<1>4. PICK W \in SUBSET Owners(xTasksWaitingToSend) :
           /\ xTasksWaitingToSend' \in ListOf(Tasks)
           /\ Owners(xTasksWaitingToSend') = Owners(xTasksWaitingToSend) \ W
           /\ blocked' = blocked \ W /\ xTasksWaitingToReceive' = xTasksWaitingToReceive
           /\ W \subseteq Tasks /\ W \subseteq blocked
           /\ W \cap Owners(xTasksWaitingToReceive) = {}
           /\ ~IsEmpty(xTasksWaitingToSend') =>
                ~IsEmpty(xTasksWaitingToSend) /\ \E f : f \in Injection(1 .. 1, W)
  <2>1. 1 \in Nat
    OBVIOUS
  <2> QED BY <1>2, <2>1, WakeSendersOwners DEF Inv
<1>5. /\ TaskInv /\ call \in [Tasks -> Calls \cup {NoCall}] /\ expired \subseteq Tasks
      /\ pc \in [Tasks -> Places] /\ wasReset \in BOOLEAN
      /\ cTxLock \in queueUNLOCKED .. MaxLocked /\ cRxLock \in queueUNLOCKED .. MaxLocked
      /\ xTasksWaitingToReceive \in ListOf(Tasks)
      /\ blocked = Owners(xTasksWaitingToSend) \cup Owners(xTasksWaitingToReceive)
  BY DEF Inv, TaskInv, Types
<1>6. TaskInv'
  <2>1. /\ call' \in [Tasks -> Calls \cup {NoCall}] /\ expired' \subseteq Tasks
        /\ \A u \in Tasks : u # t => call'[u] = call[u]
    BY <1>2, <1>5
  <2>2. /\ Owners(xTasksWaitingToSend') \subseteq Owners(xTasksWaitingToSend)
        /\ Owners(xTasksWaitingToReceive') \subseteq Owners(xTasksWaitingToReceive)
        /\ blocked' = Owners(xTasksWaitingToSend') \cup Owners(xTasksWaitingToReceive')
        /\ t \notin blocked'
    BY <1>1, <1>4, <1>5
  <2> QED BY <1>1, <1>2, <1>4, <1>5, <2>1, <2>2, RunningStep DEF locks
<1>7. PlacedRightly'
  BY <1>1, <1>2, <1>5, NoneAtPlace
<1>8. SendersWoken'
  <2>1. ASSUME ~IsEmpty(xTasksWaitingToSend'), ~wasReset'
        PROVE  uxLength' - uxMessagesWaiting' <= Cardinality(AboutTo("send")') + Held(cRxLock)'
    <3>1. \A w \in W : pc[w] = "try" /\ w # t /\ call[w].op = "send"
      BY <1>1, <1>4, <1>5, WaitersTry DEF TaskInv, WaitsRightly, Waiting
    <3>2. (AboutTo("send") \ {t}) \cup W \subseteq AboutTo("send")'
      BY <1>2, <1>4, <1>5, <3>1 DEF AboutTo, Ready
    <3>3. /\ Cardinality(AboutTo("send")) \in Nat /\ Cardinality(AboutTo("send")') \in Nat
          /\ Cardinality(AboutTo("send")') >= Cardinality(AboutTo("send")) + 1
      <4>1. 1 \in Nat /\ W \in SUBSET Tasks /\ \E f : f \in Injection(1 .. 1, W)
        BY <1>4, <2>1
      <4> QED BY <1>1, <1>4, <1>5, <1>6, <3>2, <4>1, Counted
    <3>4. uxLength - uxMessagesWaiting <= Cardinality(AboutTo("send")) + Held(cRxLock)
      BY <1>2, <1>4, <2>1 DEF Inv, SendersWoken
    <3>5. Held(cRxLock)' = Held(cRxLock) /\ uxLength' = uxLength
      BY <1>2 DEF Held, locks, creation
    <3> QED BY <1>2, <3>3, <3>4, <3>5, Numbers
  <2> QED BY <2>1 DEF SendersWoken
<1>9. ReceiversWoken'
  <2>1. AboutTo("receive") \ {t} \subseteq AboutTo("receive")'
    BY <1>2, <1>4, <1>5 DEF AboutTo, Ready
  <2>2. /\ Cardinality(AboutTo("receive")) \in Nat /\ Cardinality(AboutTo("receive")') \in Nat
        /\ Cardinality(AboutTo("receive")') >= Cardinality(AboutTo("receive")) - 1
    BY <1>5, <1>6, <2>1, CountedSame
  <2>3. Held(cTxLock)' = Held(cTxLock)
    BY <1>2 DEF Held, locks
  <2> QED BY <1>2, <1>4, <2>2, <2>3, Numbers DEF Inv, ReceiversWoken
<1> QED BY <1>3, <1>6, <1>7, <1>8, <1>9 DEF Inv

\* The places of prvUnlockQueue in the two ways through it.
LEMMA Pair ==
  ASSUME NEW a, NEW b, NEW i \in 1 .. 2
  PROVE  <<a, b>>[i] = IF i = 1 THEN a ELSE b
<1> i = 1 \/ i = 2
  OBVIOUS
<1> QED OBVIOUS

LEMMA UnlockTxInv ==
  ASSUME Inv, NEW t \in Tasks, UnlockTx(t)
  PROVE  Inv'
<1>1. PICK p \in {"unlockRx", "gaveUpRx"} :
        /\ pxCurrentTCB = t /\ pc' = [pc EXCEPT ![t] = p]
        /\ \/ pc[t] = "unlockTx" /\ p = "unlockRx"
           \/ pc[t] = "gaveUpTx" /\ p = "gaveUpRx"
        /\ UNCHANGED <<creation, buffer, cRxLock, expired, pxCurrentTCB, call, delivered,
                       wasReset>>
        /\ WakeReceivers(cTxLock) /\ cTxLock' = queueUNLOCKED
  <2>1. /\ pxCurrentTCB = t /\ Unlocks(t, <<"unlockTx", "gaveUpTx">>, <<"unlockRx", "gaveUpRx">>)
        /\ UNCHANGED <<creation, buffer, cRxLock, expired, pxCurrentTCB, call, delivered, wasReset>>
        /\ WakeReceivers(cTxLock) /\ cTxLock' = queueUNLOCKED
    BY DEF UnlockTx, Unlocks
  <2>2. \/ pc[t] = "unlockTx" /\ pc' = [pc EXCEPT ![t] = "unlockRx"]
        \/ pc[t] = "gaveUpTx" /\ pc' = [pc EXCEPT ![t] = "gaveUpRx"]
    <3>1. PICK i \in 1 .. 2 : /\ pc[t] = <<"unlockTx", "gaveUpTx">>[i]
                             /\ pc' = [pc EXCEPT ![t] = <<"unlockRx", "gaveUpRx">>[i]]
      BY <2>1 DEF Unlocks
    <3>2. /\ <<"unlockTx", "gaveUpTx">>[i] = IF i = 1 THEN "unlockTx" ELSE "gaveUpTx"
          /\ <<"unlockRx", "gaveUpRx">>[i] = IF i = 1 THEN "unlockRx" ELSE "gaveUpRx"
      BY Pair
    <3> QED BY <3>1, <3>2
  <2> QED BY <2>1, <2>2
<1>2. /\ TaskInv /\ call \in [Tasks -> Calls \cup {NoCall}] /\ expired \subseteq Tasks
      /\ pc \in [Tasks -> Places] /\ wasReset \in BOOLEAN
      /\ cTxLock \in queueUNLOCKED .. MaxLocked /\ cRxLock \in queueUNLOCKED .. MaxLocked
      /\ xTasksWaitingToSend \in ListOf(Tasks) /\ xTasksWaitingToReceive \in ListOf(Tasks)
      /\ blocked = Owners(xTasksWaitingToSend) \cup Owners(xTasksWaitingToReceive)
      /\ call[t] \in Calls /\ CallAllowed(call[t])
  BY <1>1 DEF Inv, TaskInv, Types, InCall
<1>3. cTxLock # queueUNLOCKED /\ cRxLock # queueUNLOCKED
  BY <1>1 DEF Inv, TaskInv, LocksHeld, TxHeld, RxHeld
<1>4. cTxLock \in Nat /\ Held(cTxLock) = cTxLock /\ Held(cTxLock)' = 0
  BY <1>1, <1>3, Numbers DEF Held
<1>5. PICK W \in SUBSET Owners(xTasksWaitingToReceive) :
           /\ xTasksWaitingToReceive' \in ListOf(Tasks)
           /\ Owners(xTasksWaitingToReceive') = Owners(xTasksWaitingToReceive) \ W
           /\ blocked' = blocked \ W /\ xTasksWaitingToSend' = xTasksWaitingToSend
           /\ W \subseteq Tasks /\ W \subseteq blocked
           /\ W \cap Owners(xTasksWaitingToSend) = {}
           /\ ~IsEmpty(xTasksWaitingToReceive') =>
                ~IsEmpty(xTasksWaitingToReceive) /\ \E f : f \in Injection(1 .. cTxLock, W)
  BY <1>1, <1>2, <1>4, WakeReceiversOwners
<1>6. t \in blocked => pc[t] = "unlockTx"
  BY <1>1, <1>2 DEF TaskInv, WaitsRightly, Waiting
<1>7. TaskInv'
  <2>1. /\ Owners(xTasksWaitingToSend') \subseteq Owners(xTasksWaitingToSend)
        /\ Owners(xTasksWaitingToReceive') \subseteq Owners(xTasksWaitingToReceive)
        /\ blocked' = Owners(xTasksWaitingToSend') \cup Owners(xTasksWaitingToReceive')
        /\ blocked' \subseteq blocked
    BY <1>2, <1>5
  <2>2. t \in blocked' => p = "unlockRx"
    BY <1>1, <1>6, <2>1
  <2>3. cTxLock' \in queueUNLOCKED .. MaxLocked
    BY <1>1, QueueAssumption DEF queueUNLOCKED
  <2>4. p \in Places /\ p \notin TxHeld
    BY <1>1 DEF Places, TxHeld, RxHeld
  <2>5. CallAllowed(call'[t])
    BY <1>1, <1>2
  <2> QED BY <1>1, <1>2, <1>3, <1>5, <2>1, <2>2, <2>3, <2>4, <2>5, RunningStep
<1>8. PlacedRightly'
  <2>1. p # "place"
    BY <1>1
  <2> QED BY <1>1, <1>2, <2>1, NoneAtPlace
<1>9. ReceiversWoken'
  <2>1. ASSUME ~IsEmpty(xTasksWaitingToReceive')
        PROVE  uxMessagesWaiting' <= Cardinality(AboutTo("receive")') + Held(cTxLock)'
    <3>1. \A w \in W : (w # t => pc[w] = "try") /\ (w = t => p = "unlockRx") /\ call[w].op = "receive"
      BY <1>1, <1>2, <1>5, <1>6, WaitersTry DEF TaskInv, WaitsRightly, Waiting
    <3>2. (AboutTo("receive") \ {t}) \cup W \subseteq AboutTo("receive")'
      BY <1>1, <1>2, <1>5, <3>1 DEF AboutTo, Ready
    <3>3. /\ Cardinality(AboutTo("receive")) \in Nat /\ Cardinality(AboutTo("receive")') \in Nat
          /\ Cardinality(AboutTo("receive")') >= Cardinality(AboutTo("receive")) + cTxLock
      <4>1. W \in SUBSET Tasks /\ \E f : f \in Injection(1 .. cTxLock, W)
        BY <1>5, <2>1
      <4>2. t \notin AboutTo("receive")
        BY <1>1 DEF AboutTo
      <4> QED BY <1>2, <1>4, <1>5, <1>7, <3>2, <4>1, <4>2, Counted
    <3>4. uxMessagesWaiting <= Cardinality(AboutTo("receive")) + Held(cTxLock)
      BY <1>1, <1>5, <2>1 DEF Inv, ReceiversWoken
    <3>5. uxMessagesWaiting' = uxMessagesWaiting /\ uxLength' = uxLength
      BY <1>1 DEF buffer, creation
    <3> QED BY <1>4, <3>3, <3>4, <3>5, Numbers
  <2> QED BY <2>1 DEF ReceiversWoken
<1>10. SendersWoken'
  <2>1. AboutTo("send") \subseteq AboutTo("send")'
    BY <1>1, <1>2, <1>5 DEF AboutTo, Ready
  <2>2. PICK gone : gone \notin Tasks
    BY QueueAssumption
  <2>3. gone \notin AboutTo("send") /\ AboutTo("send") \ {gone} \subseteq AboutTo("send")'
    BY <2>1, <2>2 DEF AboutTo, Ready
  <2>4. /\ Cardinality(AboutTo("send")) \in Nat /\ Cardinality(AboutTo("send")') \in Nat
        /\ Cardinality(AboutTo("send")') >= Cardinality(AboutTo("send"))
    BY <1>2, <1>7, <2>3, CountedSame
  <2>5. /\ Held(cRxLock)' = Held(cRxLock) /\ uxLength' = uxLength /\ wasReset' = wasReset
        /\ uxMessagesWaiting' = uxMessagesWaiting
    BY <1>1 DEF Held, creation, buffer
  <2> QED BY <1>5, <2>4, <2>5, Numbers DEF Inv, SendersWoken
<1>11. Data'
  BY <1>1 DEF Inv, Data, creation, buffer
<1> QED BY <1>7, <1>8, <1>9, <1>10, <1>11 DEF Inv

LEMMA UnlockRxInv ==
  ASSUME Inv, NEW t \in Tasks, UnlockRx(t)
  PROVE  Inv'
<1>1. PICK p \in {"resume", "gaveUp"} :
        /\ pxCurrentTCB = t /\ pc' = [pc EXCEPT ![t] = p]
        /\ \/ pc[t] = "unlockRx" /\ p = "resume"
           \/ pc[t] = "gaveUpRx" /\ p = "gaveUp"
        /\ UNCHANGED <<creation, buffer, cTxLock, expired, pxCurrentTCB, call, delivered,
                       wasReset>>
        /\ WakeSenders(cRxLock) /\ cRxLock' = queueUNLOCKED
  <2>1. /\ pxCurrentTCB = t /\ Unlocks(t, <<"unlockRx", "gaveUpRx">>, <<"resume", "gaveUp">>)
        /\ UNCHANGED <<creation, buffer, cTxLock, expired, pxCurrentTCB, call, delivered, wasReset>>
        /\ WakeSenders(cRxLock) /\ cRxLock' = queueUNLOCKED
    BY DEF UnlockRx, Unlocks
  <2>2. \/ pc[t] = "unlockRx" /\ pc' = [pc EXCEPT ![t] = "resume"]
        \/ pc[t] = "gaveUpRx" /\ pc' = [pc EXCEPT ![t] = "gaveUp"]
    <3>1. PICK i \in 1 .. 2 : /\ pc[t] = <<"unlockRx", "gaveUpRx">>[i]
                             /\ pc' = [pc EXCEPT ![t] = <<"resume", "gaveUp">>[i]]
      BY <2>1 DEF Unlocks
    <3>2. /\ <<"unlockRx", "gaveUpRx">>[i] = IF i = 1 THEN "unlockRx" ELSE "gaveUpRx"
          /\ <<"resume", "gaveUp">>[i] = IF i = 1 THEN "resume" ELSE "gaveUp"
      BY Pair
    <3> QED BY <3>1, <3>2
  <2> QED BY <2>1, <2>2
<1>2. /\ TaskInv /\ call \in [Tasks -> Calls \cup {NoCall}] /\ expired \subseteq Tasks
      /\ pc \in [Tasks -> Places] /\ wasReset \in BOOLEAN
      /\ cTxLock \in queueUNLOCKED .. MaxLocked /\ cRxLock \in queueUNLOCKED .. MaxLocked
      /\ xTasksWaitingToSend \in ListOf(Tasks) /\ xTasksWaitingToReceive \in ListOf(Tasks)
      /\ blocked = Owners(xTasksWaitingToSend) \cup Owners(xTasksWaitingToReceive)
      /\ call[t] \in Calls /\ CallAllowed(call[t])
  BY <1>1 DEF Inv, TaskInv, Types, InCall
<1>3. cRxLock # queueUNLOCKED
  BY <1>1 DEF Inv, TaskInv, LocksHeld, TxHeld, RxHeld
<1>4. cRxLock \in Nat /\ Held(cRxLock) = cRxLock /\ Held(cRxLock)' = 0
  BY <1>1, <1>3, Numbers DEF Held
<1>5. PICK W \in SUBSET Owners(xTasksWaitingToSend) :
           /\ xTasksWaitingToSend' \in ListOf(Tasks)
           /\ Owners(xTasksWaitingToSend') = Owners(xTasksWaitingToSend) \ W
           /\ blocked' = blocked \ W /\ xTasksWaitingToReceive' = xTasksWaitingToReceive
           /\ W \subseteq Tasks /\ W \subseteq blocked
           /\ W \cap Owners(xTasksWaitingToReceive) = {}
           /\ ~IsEmpty(xTasksWaitingToSend') =>
                ~IsEmpty(xTasksWaitingToSend) /\ \E f : f \in Injection(1 .. cRxLock, W)
  BY <1>1, <1>2, <1>4, WakeSendersOwners
<1>6. t \in blocked => pc[t] = "unlockRx"
  BY <1>1, <1>2 DEF TaskInv, WaitsRightly, Waiting
<1>7. TaskInv'
  <2>1. /\ Owners(xTasksWaitingToSend') \subseteq Owners(xTasksWaitingToSend)
        /\ Owners(xTasksWaitingToReceive') \subseteq Owners(xTasksWaitingToReceive)
        /\ blocked' = Owners(xTasksWaitingToSend') \cup Owners(xTasksWaitingToReceive')
        /\ blocked' \subseteq blocked
    BY <1>2, <1>5
  <2>2. t \in blocked' => p = "resume"
    BY <1>1, <1>6, <2>1
  <2>3. cRxLock' \in queueUNLOCKED .. MaxLocked
    BY <1>1, QueueAssumption DEF queueUNLOCKED
  <2>4. p \in Places /\ p \notin RxHeld \cup TxHeld
    BY <1>1 DEF Places, TxHeld, RxHeld
  <2>5. CallAllowed(call'[t])
    BY <1>1, <1>2
  <2> QED BY <1>1, <1>2, <1>3, <1>5, <2>1, <2>2, <2>3, <2>4, <2>5, RunningStep
<1>8. PlacedRightly'
  <2>1. p # "place"
    BY <1>1
  <2> QED BY <1>1, <1>2, <2>1, NoneAtPlace
<1>9. SendersWoken'
  <2>1. ASSUME ~IsEmpty(xTasksWaitingToSend'), ~wasReset'
        PROVE  uxLength' - uxMessagesWaiting' <= Cardinality(AboutTo("send")') + Held(cRxLock)'
    <3>1. \A w \in W : (w # t => pc[w] = "try") /\ (w = t => p = "resume") /\ call[w].op = "send"
      BY <1>1, <1>2, <1>5, <1>6, WaitersTry DEF TaskInv, WaitsRightly, Waiting
    <3>2. AboutTo("send") \cup W \subseteq AboutTo("send")'
      BY <1>1, <1>2, <1>5, <3>1 DEF AboutTo, Ready
    <3>3. /\ Cardinality(AboutTo("send")) \in Nat /\ Cardinality(AboutTo("send")') \in Nat
          /\ Cardinality(AboutTo("send")') >= Cardinality(AboutTo("send")) + cRxLock
      <4>1. W \in SUBSET Tasks /\ \E f : f \in Injection(1 .. cRxLock, W)
        BY <1>5, <2>1
      <4>2. PICK gone : gone \notin Tasks
        BY QueueAssumption
      <4>3. /\ gone \notin AboutTo("send")
            /\ (AboutTo("send") \ {gone}) \cup W \subseteq AboutTo("send")'
        BY <3>2, <4>2 DEF AboutTo, Ready
      <4> QED BY <1>2, <1>4, <1>5, <1>7, <4>1, <4>3, Counted
    <3>4. uxLength - uxMessagesWaiting <= Cardinality(AboutTo("send")) + Held(cRxLock)
      BY <1>1, <1>5, <2>1 DEF Inv, SendersWoken
    <3>5. uxMessagesWaiting' = uxMessagesWaiting /\ uxLength' = uxLength
      BY <1>1 DEF buffer, creation
    <3> QED BY <1>4, <3>3, <3>4, <3>5, Numbers
  <2> QED BY <2>1 DEF SendersWoken
<1>10. ReceiversWoken'
  <2>1. AboutTo("receive") \subseteq AboutTo("receive")'
    BY <1>1, <1>2, <1>5 DEF AboutTo, Ready
  <2>2. PICK gone : gone \notin Tasks
    BY QueueAssumption
  <2>3. gone \notin AboutTo("receive") /\ AboutTo("receive") \ {gone} \subseteq AboutTo("receive")'
    BY <2>1, <2>2 DEF AboutTo, Ready
  <2>4. /\ Cardinality(AboutTo("receive")) \in Nat /\ Cardinality(AboutTo("receive")') \in Nat
        /\ Cardinality(AboutTo("receive")') >= Cardinality(AboutTo("receive"))
    BY <1>2, <1>7, <2>3, CountedSame
  <2>5. /\ Held(cTxLock)' = Held(cTxLock) /\ uxLength' = uxLength /\ wasReset' = wasReset
        /\ uxMessagesWaiting' = uxMessagesWaiting
    BY <1>1 DEF Held, creation, buffer
  <2> QED BY <1>5, <2>4, <2>5, Numbers DEF Inv, ReceiversWoken
<1>11. Data'
  BY <1>1 DEF Inv, Data, creation, buffer
<1> QED BY <1>7, <1>8, <1>9, <1>10, <1>11 DEF Inv

LEMMA ResetInv ==
  ASSUME Inv, NEW t \in Tasks, xQueueGenericReset(t)
  PROVE  Inv'
<1>1. /\ pxCurrentTCB = t /\ t \notin blocked /\ pc[t] = "run" /\ pc' = [pc EXCEPT ![t] = "run"]
      /\ uxMessagesWaiting' = 0 /\ cRxLock' = queueUNLOCKED /\ cTxLock' = queueUNLOCKED
      /\ wasReset' = TRUE /\ WakeSenders(1)
      /\ UNCHANGED <<creation, expired, pxCurrentTCB, call>>
  BY DEF xQueueGenericReset, Goes
<1>2. Data'
  BY ResetIsFifo DEF Inv
<1>3. PICK W \in SUBSET Owners(xTasksWaitingToSend) :
           /\ xTasksWaitingToSend' \in ListOf(Tasks)
           /\ Owners(xTasksWaitingToSend') = Owners(xTasksWaitingToSend) \ W
           /\ blocked' = blocked \ W /\ xTasksWaitingToReceive' = xTasksWaitingToReceive
           /\ W \subseteq Tasks /\ W \subseteq blocked
           /\ W \cap Owners(xTasksWaitingToReceive) = {}
           /\ ~IsEmpty(xTasksWaitingToSend') =>
                ~IsEmpty(xTasksWaitingToSend) /\ \E f : f \in Injection(1 .. 1, W)
  <2>1. 1 \in Nat
    OBVIOUS
  <2> QED BY <1>1, <2>1, WakeSendersOwners DEF Inv
<1>4. /\ TaskInv /\ call \in [Tasks -> Calls \cup {NoCall}] /\ expired \subseteq Tasks
      /\ pc \in [Tasks -> Places]
      /\ xTasksWaitingToReceive \in ListOf(Tasks)
      /\ blocked = Owners(xTasksWaitingToSend) \cup Owners(xTasksWaitingToReceive)
  BY DEF Inv, TaskInv, Types
<1>5. TaskInv'
  <2>1. /\ Owners(xTasksWaitingToSend') \subseteq Owners(xTasksWaitingToSend)
        /\ Owners(xTasksWaitingToReceive') \subseteq Owners(xTasksWaitingToReceive)
        /\ blocked' = Owners(xTasksWaitingToSend') \cup Owners(xTasksWaitingToReceive')
        /\ t \notin blocked'
    BY <1>1, <1>3, <1>4
  <2>2. cTxLock' \in queueUNLOCKED .. MaxLocked /\ cRxLock' \in queueUNLOCKED .. MaxLocked
    BY <1>1, QueueAssumption DEF queueUNLOCKED
  <2>3. "run" \in Places \ (TxHeld \cup RxHeld)
    BY DEF Places, TxHeld, RxHeld
  <2> QED BY <1>1, <1>3, <1>4, <2>1, <2>2, <2>3, RunningStep
<1>6. PlacedRightly'
  BY <1>1, <1>4, NoneAtPlace
<1>7. ReceiversWoken'
  <2>1. AboutTo("receive") \ Tasks \subseteq AboutTo("receive")' /\ AboutTo("receive")' \in SUBSET Tasks
    BY DEF AboutTo, Ready
  <2>2. Cardinality(AboutTo("receive")') \in Nat
    BY <2>1, QueueAssumption, FS_Subset, FS_CardinalityType
  <2> QED BY <1>1, <2>2 DEF ReceiversWoken, Held
<1>8. SendersWoken'
  BY <1>1 DEF SendersWoken
<1> QED BY <1>2, <1>5, <1>6, <1>7, <1>8 DEF Inv

LEMMA PlaceInv ==
  ASSUME Inv, NEW t \in Tasks, Place(t)
  PROVE  Inv'
<1>1. /\ pxCurrentTCB = t /\ t \notin blocked /\ pc[t] = "place"
      /\ pc' = [pc EXCEPT ![t] = "unlockTx"] /\ blocked' = blocked \cup {t}
      /\ UNCHANGED <<creation, buffer, locks, expired, pxCurrentTCB, call, delivered, wasReset>>
  BY DEF Place, Goes
<1>2. /\ TaskInv /\ call \in [Tasks -> Calls \cup {NoCall}] /\ expired \subseteq Tasks
      /\ pc \in [Tasks -> Places] /\ wasReset \in BOOLEAN /\ LocksHeld
      /\ cTxLock \in queueUNLOCKED .. MaxLocked /\ cRxLock \in queueUNLOCKED .. MaxLocked
      /\ xTasksWaitingToSend \in ListOf(Tasks) /\ xTasksWaitingToReceive \in ListOf(Tasks)
      /\ blocked = Owners(xTasksWaitingToSend) \cup Owners(xTasksWaitingToReceive)
      /\ call[t] \in Calls /\ CallAllowed(call[t])
      /\ cTxLock # queueUNLOCKED /\ cRxLock # queueUNLOCKED
  BY <1>1 DEF Inv, TaskInv, Types, InCall, LocksHeld, TxHeld, RxHeld
<1>3. call[t].op \in {"send", "receive"}
  BY <1>2, CallFields
<1>4. \/ /\ call[t].op = "send"
         /\ xTasksWaitingToSend' \in ListOf(Tasks)
         /\ Owners(xTasksWaitingToSend') = Owners(xTasksWaitingToSend) \cup {t}
         /\ xTasksWaitingToReceive' = xTasksWaitingToReceive
      \/ /\ call[t].op = "receive"
         /\ xTasksWaitingToReceive' \in ListOf(Tasks)
         /\ Owners(xTasksWaitingToReceive') = Owners(xTasksWaitingToReceive) \cup {t}
         /\ xTasksWaitingToSend' = xTasksWaitingToSend
  <2>1. t \notin Owners(xTasksWaitingToSend) /\ t \notin Owners(xTasksWaitingToReceive)
    BY <1>1, <1>2
  <2>2. CASE call[t].op = "send"
    <3>1. /\ xTasksWaitingToSend' = PlaceOnEventList(xTasksWaitingToSend, t)
          /\ xTasksWaitingToReceive' = xTasksWaitingToReceive
      BY <2>2 DEF Place
    <3> QED BY <1>2, <2>1, <2>2, <3>1, InsertOwners DEF PlaceOnEventList
  <2>3. CASE call[t].op = "receive"
    <3>1. /\ xTasksWaitingToReceive' = PlaceOnEventList(xTasksWaitingToReceive, t)
          /\ xTasksWaitingToSend' = xTasksWaitingToSend
      BY <2>3 DEF Place
    <3> QED BY <1>2, <2>1, <2>3, <3>1, InsertOwners DEF PlaceOnEventList
  <2> QED BY <1>3, <2>2, <2>3
<1>5. /\ pc' \in [Tasks -> Places] /\ pc'[t] = "unlockTx"
      /\ \A u \in Tasks : u # t => pc'[u] = pc[u]
  BY <1>1, <1>2 DEF Places
<1>6. TaskInv'
  <2>1. Types'
    <3>1. /\ xTasksWaitingToSend' \in ListOf(Tasks) /\ xTasksWaitingToReceive' \in ListOf(Tasks)
          /\ blocked' = Owners(xTasksWaitingToSend') \cup Owners(xTasksWaitingToReceive')
      BY <1>1, <1>2, <1>4
    <3> QED BY <1>1, <1>2, <1>5, <3>1 DEF Types, TaskInv, locks
  <2>2. InCall'
    BY <1>1, <1>2, <1>5 DEF TaskInv, InCall, CallAllowed, SendAllowed, creation
  <2>3. LocksHeld'
    BY <1>1, <1>2, StepOfCall DEF locks
  <2>4. WaitsRightly'
    <3>1. /\ Owners(xTasksWaitingToSend) \subseteq Tasks
          /\ Owners(xTasksWaitingToReceive) \subseteq Tasks
      BY <1>2, WaitersTry
    <3> QED BY <1>1, <1>2, <1>4, <1>5, <3>1 DEF TaskInv, WaitsRightly, Waiting
  <2> QED BY <2>1, <2>2, <2>3, <2>4 DEF TaskInv
<1>7. PlacedRightly'
  <2>1. "unlockTx" # "place"
    OBVIOUS
  <2> QED BY <1>1, <1>2, <2>1, NoneAtPlace
<1>8. AboutTo("send") \subseteq AboutTo("send")' /\ AboutTo("receive") \subseteq AboutTo("receive")'
  BY <1>1, <1>2 DEF AboutTo, Ready
<1>9. PICK gone : gone \notin Tasks
  BY QueueAssumption
<1>10. /\ uxMessagesWaiting' = uxMessagesWaiting /\ uxLength' = uxLength /\ wasReset' = wasReset
       /\ Held(cTxLock)' = Held(cTxLock) /\ Held(cRxLock)' = Held(cRxLock)
  BY <1>1 DEF buffer, creation, locks, Held
<1>11. ReceiversWoken'
  <2>1. gone \notin AboutTo("receive") /\ AboutTo("receive") \ {gone} \subseteq AboutTo("receive")'
    BY <1>8, <1>9 DEF AboutTo, Ready
  <2>2. /\ Cardinality(AboutTo("receive")) \in Nat /\ Cardinality(AboutTo("receive")') \in Nat
        /\ Cardinality(AboutTo("receive")') >= Cardinality(AboutTo("receive"))
    BY <1>2, <1>6, <2>1, CountedSame
  <2>3. CASE call[t].op = "send"
    BY <1>4, <1>10, <2>2, <2>3, Numbers DEF Inv, ReceiversWoken
  <2>4. CASE call[t].op = "receive"
    <3>1. uxMessagesWaiting <= Held(cTxLock)
      BY <1>1, <2>4 DEF Inv, PlacedRightly
    <3> QED BY <1>10, <2>2, <3>1, Numbers DEF ReceiversWoken
  <2> QED BY <1>3, <2>3, <2>4
<1>12. SendersWoken'
  <2>1. gone \notin AboutTo("send") /\ AboutTo("send") \ {gone} \subseteq AboutTo("send")'
    BY <1>8, <1>9 DEF AboutTo, Ready
  <2>2. /\ Cardinality(AboutTo("send")) \in Nat /\ Cardinality(AboutTo("send")') \in Nat
        /\ Cardinality(AboutTo("send")') >= Cardinality(AboutTo("send"))
    BY <1>2, <1>6, <2>1, CountedSame
  <2>3. CASE call[t].op = "receive"
    BY <1>4, <1>10, <2>2, <2>3, Numbers DEF Inv, SendersWoken
  <2>4. CASE call[t].op = "send"
    <3>1. uxLength - uxMessagesWaiting <= Held(cRxLock)
      BY <1>1, <2>4 DEF Inv, PlacedRightly
    <3> QED BY <1>10, <2>2, <3>1, Numbers DEF SendersWoken
  <2> QED BY <1>3, <2>3, <2>4
<1>13. Data'
  BY <1>1 DEF Inv, Data, creation, buffer
<1> QED BY <1>6, <1>7, <1>11, <1>12, <1>13 DEF Inv
-----------------------------------------------------------------------------
\* A step of an interrupt, which moves no task on in its call.
LEMMA InterruptStep ==
  ASSUME TaskInv, UNCHANGED <<creation, pxCurrentTCB, pc, call, wasReset>>,
         xTasksWaitingToSend' \in ListOf(Tasks), xTasksWaitingToReceive' \in ListOf(Tasks),
         Owners(xTasksWaitingToSend') \subseteq Owners(xTasksWaitingToSend),
         Owners(xTasksWaitingToReceive') \subseteq Owners(xTasksWaitingToReceive),
         blocked' = Owners(xTasksWaitingToSend') \cup Owners(xTasksWaitingToReceive'),
         expired' \subseteq Tasks,
         cTxLock' \in queueUNLOCKED .. MaxLocked, cRxLock' \in queueUNLOCKED .. MaxLocked,
         cTxLock # queueUNLOCKED => cTxLock' # queueUNLOCKED,
         cRxLock # queueUNLOCKED => cRxLock' # queueUNLOCKED
  PROVE  TaskInv'
<1>1. /\ pc' = pc /\ call' = call /\ pc \in [Tasks -> Places]
      /\ call \in [Tasks -> Calls \cup {NoCall}] /\ wasReset' = wasReset /\ wasReset \in BOOLEAN
      /\ pxCurrentTCB' = pxCurrentTCB
  BY DEF TaskInv, Types
<1>2. LocksHeld'
  BY <1>1 DEF TaskInv, LocksHeld
<1>3. \A u \in Tasks : pc'[u] # "run" => call'[u] \in Calls /\ CallAllowed(call'[u])
  BY <1>1 DEF TaskInv, InCall
<1>4. \A u \in blocked' : /\ pc'[u] \in {"unlockTx", "unlockRx", "resume", "try"}
                         /\ call'[u] = call[u]
  <2>1. blocked' \subseteq blocked
    BY DEF TaskInv, Types
  <2>2. \A u \in blocked : pc[u] \in {"unlockTx", "unlockRx", "resume", "try"}
    BY DEF TaskInv, Types, WaitsRightly, Waiting
  <2> QED BY <1>1, <2>1, <2>2
<1> QED BY <1>1, <1>2, <1>3, <1>4, FewerWaiters

LEMMA UnlockedNoneAtPlace ==
  ASSUME TaskInv, cTxLock = queueUNLOCKED \/ cRxLock = queueUNLOCKED, pc' = pc
  PROVE  PlacedRightly'
BY DEF TaskInv, LocksHeld, TxHeld, RxHeld, PlacedRightly

\* The count of the tasks about to look does not change with the queue alone.
LEMMA CountedAlike ==
  ASSUME TaskInv, TaskInv', NEW op, UNCHANGED <<pc, call, blocked>>
  PROVE  /\ Cardinality(AboutTo(op)) \in Nat
         /\ Cardinality(AboutTo(op)') = Cardinality(AboutTo(op))
<1>1. AboutTo(op)' = AboutTo(op) /\ AboutTo(op) \in SUBSET Tasks
  BY DEF AboutTo, Ready
<1>2. IsFiniteSet(AboutTo(op))
  BY <1>1, QueueAssumption, FS_Subset
<1> QED BY <1>1, <1>2, FS_CardinalityType

\* It does not shrink when the interrupt wakes tasks W.
LEMMA CountedWoken ==
  ASSUME TaskInv, TaskInv', NEW op, UNCHANGED <<pc, call>>,
         NEW W \in SUBSET Tasks, W \subseteq blocked, blocked' = blocked \ W
  PROVE  /\ Cardinality(AboutTo(op)) \in Nat /\ Cardinality(AboutTo(op)') \in Nat
         /\ Cardinality(AboutTo(op)') >= Cardinality(AboutTo(op))
<1>1. PICK gone : gone \notin Tasks
  BY QueueAssumption
<1>2. gone \notin AboutTo(op) /\ AboutTo(op) \ {gone} \subseteq AboutTo(op)'
  BY <1>1 DEF AboutTo, Ready
<1> QED BY <1>2, CountedSame

LEMMA TellReceiversUnlocked ==
  ASSUME Inv, Data', 
         \/ uxMessagesWaiting' = uxMessagesWaiting + 1
         \/ uxMessagesWaiting' = uxMessagesWaiting /\ uxMessagesWaiting = uxLength, cTxLock = queueUNLOCKED, cTxLock' = cTxLock, WakeReceivers(1),
         UNCHANGED <<creation, cRxLock, expired, pxCurrentTCB, pc, call, wasReset>>
  PROVE  Inv'
<1>1. /\ TaskInv /\ expired \subseteq Tasks
      /\ cTxLock \in queueUNLOCKED .. MaxLocked /\ cRxLock \in queueUNLOCKED .. MaxLocked
      /\ xTasksWaitingToSend \in ListOf(Tasks) /\ xTasksWaitingToReceive \in ListOf(Tasks)
      /\ blocked = Owners(xTasksWaitingToSend) \cup Owners(xTasksWaitingToReceive)
  BY DEF Inv, TaskInv, Types
<1>2. PICK W \in SUBSET Owners(xTasksWaitingToReceive) :
           /\ xTasksWaitingToReceive' \in ListOf(Tasks)
           /\ Owners(xTasksWaitingToReceive') = Owners(xTasksWaitingToReceive) \ W
           /\ blocked' = blocked \ W /\ xTasksWaitingToSend' = xTasksWaitingToSend
           /\ W \subseteq Tasks /\ W \subseteq blocked
           /\ W \cap Owners(xTasksWaitingToSend) = {}
           /\ ~IsEmpty(xTasksWaitingToReceive') =>
                ~IsEmpty(xTasksWaitingToReceive) /\ \E f : f \in Injection(1 .. 1, W)
  <2>1. 1 \in Nat
    OBVIOUS
  <2> QED BY <1>1, <2>1, WakeReceiversOwners
<1>3. TaskInv'
  <2>1. /\ Owners(xTasksWaitingToSend') \subseteq Owners(xTasksWaitingToSend)
        /\ Owners(xTasksWaitingToReceive') \subseteq Owners(xTasksWaitingToReceive)
        /\ blocked' = Owners(xTasksWaitingToSend') \cup Owners(xTasksWaitingToReceive')
    BY <1>1, <1>2
  <2> QED BY <1>1, <1>2, <2>1, InterruptStep
<1>4. PlacedRightly'
  BY <1>1, UnlockedNoneAtPlace
<1>5. /\ Held(cTxLock)' = Held(cTxLock) /\ Held(cRxLock)' = Held(cRxLock)
      /\ uxLength' = uxLength /\ wasReset' = wasReset
  BY DEF Held, creation
<1>6. ReceiversWoken'
  <2>1. ASSUME ~IsEmpty(xTasksWaitingToReceive')
        PROVE  uxMessagesWaiting' <= Cardinality(AboutTo("receive")') + Held(cTxLock)'
    <3>1. \A w \in W : pc[w] \in {"unlockRx", "resume", "try"} /\ call[w].op = "receive"
      BY <1>1, <1>2 DEF TaskInv, WaitsRightly, Waiting, LocksHeld, TxHeld, RxHeld
    <3>2. PICK gone : gone \notin Tasks
      BY QueueAssumption
    <3>3. /\ gone \notin AboutTo("receive")
          /\ (AboutTo("receive") \ {gone}) \cup W \subseteq AboutTo("receive")'
      BY <1>2, <3>1, <3>2 DEF AboutTo, Ready
    <3>4. /\ Cardinality(AboutTo("receive")) \in Nat /\ Cardinality(AboutTo("receive")') \in Nat
          /\ Cardinality(AboutTo("receive")') >= Cardinality(AboutTo("receive")) + 1
      <4>1. 1 \in Nat /\ W \in SUBSET Tasks /\ \E f : f \in Injection(1 .. 1, W)
        BY <1>2, <2>1
      <4> QED BY <1>1, <1>2, <1>3, <3>3, <4>1, Counted
    <3>5. uxMessagesWaiting <= Cardinality(AboutTo("receive")) + Held(cTxLock)
      BY <1>2, <1>5, <2>1 DEF Inv, ReceiversWoken
    <3> QED BY <1>5, <3>4, <3>5, Numbers
  <2> QED BY <2>1 DEF ReceiversWoken
<1>7. SendersWoken'
  <2>1. /\ Cardinality(AboutTo("send")) \in Nat /\ Cardinality(AboutTo("send")') \in Nat
        /\ Cardinality(AboutTo("send")') >= Cardinality(AboutTo("send"))
    <3>1. W \in SUBSET Tasks /\ W \subseteq blocked /\ blocked' = blocked \ W
      BY <1>2
    <3> QED BY <1>1, <1>3, <3>1, CountedWoken
  <2> QED BY <1>2, <1>5, <2>1, Numbers DEF Inv, SendersWoken
<1> QED BY <1>3, <1>4, <1>6, <1>7 DEF Inv

LEMMA TellReceiversLocked ==
  ASSUME Inv, Data', 
         \/ uxMessagesWaiting' = uxMessagesWaiting + 1
         \/ uxMessagesWaiting' = uxMessagesWaiting /\ uxMessagesWaiting = uxLength, cTxLock # queueUNLOCKED, cTxLock < MaxLocked,
         cTxLock' = cTxLock + 1,
         UNCHANGED <<creation, cRxLock, waiting, blocked, expired, pxCurrentTCB, pc, call,
                     wasReset>>
  PROVE  Inv'
<1>1. /\ TaskInv /\ expired \subseteq Tasks
      /\ cTxLock \in queueUNLOCKED .. MaxLocked /\ cRxLock \in queueUNLOCKED .. MaxLocked
      /\ xTasksWaitingToSend \in ListOf(Tasks) /\ xTasksWaitingToReceive \in ListOf(Tasks)
      /\ blocked = Owners(xTasksWaitingToSend) \cup Owners(xTasksWaitingToReceive)
  BY DEF Inv, TaskInv, Types
<1>2. /\ cTxLock' \in queueUNLOCKED .. MaxLocked /\ cTxLock' # queueUNLOCKED
      /\ Held(cTxLock)' = Held(cTxLock) + 1 /\ Held(cRxLock)' = Held(cRxLock)
      /\ uxLength' = uxLength /\ wasReset' = wasReset
  BY <1>1, QueueAssumption DEF queueUNLOCKED, Held, creation
<1>3. TaskInv'
  <2>1. /\ xTasksWaitingToSend' = xTasksWaitingToSend
        /\ xTasksWaitingToReceive' = xTasksWaitingToReceive
    BY DEF waiting
  <2> QED BY <1>1, <1>2, <2>1, InterruptStep
<1>4. /\ Cardinality(AboutTo("send")) \in Nat /\ Cardinality(AboutTo("receive")) \in Nat
      /\ Cardinality(AboutTo("send")') = Cardinality(AboutTo("send"))
      /\ Cardinality(AboutTo("receive")') = Cardinality(AboutTo("receive"))
  BY <1>1, <1>3, CountedAlike
<1>5. ReceiversWoken'
  BY <1>2, <1>4, Numbers DEF Inv, ReceiversWoken, IsEmpty, waiting
<1>6. SendersWoken'
  BY <1>2, <1>4, Numbers DEF Inv, SendersWoken, IsEmpty, waiting
<1>7. PlacedRightly'
  BY <1>2, Numbers DEF Inv, PlacedRightly
<1> QED BY <1>3, <1>5, <1>6, <1>7 DEF Inv

LEMMA TellSendersUnlocked ==
  ASSUME Inv, Data', uxMessagesWaiting' = uxMessagesWaiting - 1, cRxLock = queueUNLOCKED, cRxLock' = cRxLock, WakeSenders(1),
         UNCHANGED <<creation, cTxLock, expired, pxCurrentTCB, pc, call, wasReset>>
  PROVE  Inv'
<1>1. /\ TaskInv /\ expired \subseteq Tasks
      /\ cTxLock \in queueUNLOCKED .. MaxLocked /\ cRxLock \in queueUNLOCKED .. MaxLocked
      /\ xTasksWaitingToSend \in ListOf(Tasks) /\ xTasksWaitingToReceive \in ListOf(Tasks)
      /\ blocked = Owners(xTasksWaitingToSend) \cup Owners(xTasksWaitingToReceive)
  BY DEF Inv, TaskInv, Types
<1>2. PICK W \in SUBSET Owners(xTasksWaitingToSend) :
           /\ xTasksWaitingToSend' \in ListOf(Tasks)
           /\ Owners(xTasksWaitingToSend') = Owners(xTasksWaitingToSend) \ W
           /\ blocked' = blocked \ W /\ xTasksWaitingToReceive' = xTasksWaitingToReceive
           /\ W \subseteq Tasks /\ W \subseteq blocked
           /\ W \cap Owners(xTasksWaitingToReceive) = {}
           /\ ~IsEmpty(xTasksWaitingToSend') =>
                ~IsEmpty(xTasksWaitingToSend) /\ \E f : f \in Injection(1 .. 1, W)
  <2>1. 1 \in Nat
    OBVIOUS
  <2> QED BY <1>1, <2>1, WakeSendersOwners
<1>3. TaskInv'
  <2>1. /\ Owners(xTasksWaitingToSend') \subseteq Owners(xTasksWaitingToSend)
        /\ Owners(xTasksWaitingToReceive') \subseteq Owners(xTasksWaitingToReceive)
        /\ blocked' = Owners(xTasksWaitingToSend') \cup Owners(xTasksWaitingToReceive')
    BY <1>1, <1>2
  <2> QED BY <1>1, <1>2, <2>1, InterruptStep
<1>4. PlacedRightly'
  BY <1>1, UnlockedNoneAtPlace
<1>5. /\ Held(cTxLock)' = Held(cTxLock) /\ Held(cRxLock)' = Held(cRxLock)
      /\ uxLength' = uxLength /\ wasReset' = wasReset
  BY DEF Held, creation
<1>6. SendersWoken'
  <2>1. ASSUME ~IsEmpty(xTasksWaitingToSend'), ~wasReset'
        PROVE  uxLength' - uxMessagesWaiting' <= Cardinality(AboutTo("send")') + Held(cRxLock)'
    <3>1. \A w \in W : pc[w] \in {"unlockRx", "resume", "try"} /\ call[w].op = "send"
      BY <1>1, <1>2 DEF TaskInv, WaitsRightly, Waiting, LocksHeld, TxHeld, RxHeld
    <3>2. PICK gone : gone \notin Tasks
      BY QueueAssumption
    <3>3. /\ gone \notin AboutTo("send")
          /\ (AboutTo("send") \ {gone}) \cup W \subseteq AboutTo("send")'
      BY <1>2, <3>1, <3>2 DEF AboutTo, Ready
    <3>4. /\ Cardinality(AboutTo("send")) \in Nat /\ Cardinality(AboutTo("send")') \in Nat
          /\ Cardinality(AboutTo("send")') >= Cardinality(AboutTo("send")) + 1
      <4>1. 1 \in Nat /\ W \in SUBSET Tasks /\ \E f : f \in Injection(1 .. 1, W)
        BY <1>2, <2>1
      <4> QED BY <1>1, <1>2, <1>3, <3>3, <4>1, Counted
    <3>5. uxLength - uxMessagesWaiting <= Cardinality(AboutTo("send")) + Held(cRxLock)
      BY <1>2, <1>5, <2>1 DEF Inv, SendersWoken
    <3> QED BY <1>5, <3>4, <3>5, Numbers
  <2> QED BY <2>1 DEF SendersWoken
<1>7. ReceiversWoken'
  <2>1. /\ Cardinality(AboutTo("receive")) \in Nat /\ Cardinality(AboutTo("receive")') \in Nat
        /\ Cardinality(AboutTo("receive")') >= Cardinality(AboutTo("receive"))
    <3>1. W \in SUBSET Tasks /\ W \subseteq blocked /\ blocked' = blocked \ W
      BY <1>2
    <3> QED BY <1>1, <1>3, <3>1, CountedWoken
  <2> QED BY <1>2, <1>5, <2>1, Numbers DEF Inv, ReceiversWoken
<1> QED BY <1>3, <1>4, <1>6, <1>7 DEF Inv

LEMMA TellSendersLocked ==
  ASSUME Inv, Data', uxMessagesWaiting' = uxMessagesWaiting - 1, cRxLock # queueUNLOCKED, cRxLock < MaxLocked,
         cRxLock' = cRxLock + 1,
         UNCHANGED <<creation, cTxLock, waiting, blocked, expired, pxCurrentTCB, pc, call,
                     wasReset>>
  PROVE  Inv'
<1>1. /\ TaskInv /\ expired \subseteq Tasks
      /\ cTxLock \in queueUNLOCKED .. MaxLocked /\ cRxLock \in queueUNLOCKED .. MaxLocked
      /\ xTasksWaitingToSend \in ListOf(Tasks) /\ xTasksWaitingToReceive \in ListOf(Tasks)
      /\ blocked = Owners(xTasksWaitingToSend) \cup Owners(xTasksWaitingToReceive)
  BY DEF Inv, TaskInv, Types
<1>2. /\ cRxLock' \in queueUNLOCKED .. MaxLocked /\ cRxLock' # queueUNLOCKED
      /\ Held(cRxLock)' = Held(cRxLock) + 1 /\ Held(cTxLock)' = Held(cTxLock)
      /\ uxLength' = uxLength /\ wasReset' = wasReset
  BY <1>1, QueueAssumption DEF queueUNLOCKED, Held, creation
<1>3. TaskInv'
  <2>1. /\ xTasksWaitingToSend' = xTasksWaitingToSend
        /\ xTasksWaitingToReceive' = xTasksWaitingToReceive
    BY DEF waiting
  <2> QED BY <1>1, <1>2, <2>1, InterruptStep
<1>4. /\ Cardinality(AboutTo("send")) \in Nat /\ Cardinality(AboutTo("receive")) \in Nat
      /\ Cardinality(AboutTo("send")') = Cardinality(AboutTo("send"))
      /\ Cardinality(AboutTo("receive")') = Cardinality(AboutTo("receive"))
  BY <1>1, <1>3, CountedAlike
<1>5. ReceiversWoken'
  BY <1>2, <1>4, Numbers DEF Inv, ReceiversWoken, IsEmpty, waiting
<1>6. SendersWoken'
  BY <1>2, <1>4, Numbers DEF Inv, SendersWoken, IsEmpty, waiting
<1>7. PlacedRightly'
  BY <1>2, Numbers DEF Inv, PlacedRightly
<1> QED BY <1>3, <1>5, <1>6, <1>7 DEF Inv

LEMMA SendFromISRInv ==
  ASSUME Inv, SendFromISR
  PROVE  Inv'
<1>1. PICK item \in Items \cup {Token}, position \in Positions :
        /\ SendAllowed(item, position) /\ CanSend(position)
        /\ prvCopyDataToQueue(item, position)
  BY DEF SendFromISR
<1>2. /\ TellReceivers
      /\ UNCHANGED <<creation, cRxLock, expired, pxCurrentTCB, pc, call, delivered, wasReset>>
  BY DEF SendFromISR
<1>3. Data'
  BY <1>1, <1>2, SendIsFifo DEF Inv
<1>4. \/ uxMessagesWaiting' = uxMessagesWaiting + 1
      \/ uxMessagesWaiting' = uxMessagesWaiting /\ uxMessagesWaiting = uxLength
  BY <1>1, SendCount DEF Inv
<1>5. CASE cTxLock = queueUNLOCKED
  <2>1. WakeReceivers(1) /\ cTxLock' = cTxLock
    BY <1>2, <1>5 DEF TellReceivers
  <2> QED BY <1>2, <1>3, <1>4, <1>5, <2>1, TellReceiversUnlocked
<1>6. CASE cTxLock # queueUNLOCKED
  <2>1. cTxLock < MaxLocked /\ cTxLock' = cTxLock + 1 /\ UNCHANGED <<waiting, blocked>>
    BY <1>2, <1>6 DEF TellReceivers
  <2> QED BY <1>2, <1>3, <1>4, <1>6, <2>1, TellReceiversLocked
<1> QED BY <1>5, <1>6

LEMMA ReceiveFromISRInv ==
  ASSUME Inv, xQueueReceiveFromISR
  PROVE  Inv'
<1>1. /\ ~prvIsQueueEmpty /\ CopyOut(FALSE) /\ TellSenders
      /\ UNCHANGED <<creation, cTxLock, expired, pxCurrentTCB, pc, call, wasReset>>
  BY DEF xQueueReceiveFromISR
<1>2. Data'
  BY <1>1, CopyOutIsFifo DEF Inv
<1>3. uxMessagesWaiting' = uxMessagesWaiting - 1
  BY <1>1 DEF CopyOut
<1>4. CASE cRxLock = queueUNLOCKED
  <2>1. WakeSenders(1) /\ cRxLock' = cRxLock
    BY <1>1, <1>4 DEF TellSenders
  <2> QED BY <1>1, <1>2, <1>3, <1>4, <2>1, TellSendersUnlocked
<1>5. CASE cRxLock # queueUNLOCKED
  <2>1. cRxLock < MaxLocked /\ cRxLock' = cRxLock + 1 /\ UNCHANGED <<waiting, blocked>>
    BY <1>1, <1>5 DEF TellSenders
  <2> QED BY <1>1, <1>2, <1>3, <1>5, <2>1, TellSendersLocked
<1> QED BY <1>4, <1>5

LEMMA PeekFromISRInv ==
  ASSUME Inv, xQueuePeekFromISR
  PROVE  Inv'
<1>1. /\ ~prvIsQueueEmpty /\ CopyOut(TRUE) /\ uxMessagesWaiting' = uxMessagesWaiting
      /\ UNCHANGED <<creation, locks, waiting, blocked, expired, pxCurrentTCB, pc, call, wasReset>>
  BY DEF xQueuePeekFromISR, CopyOut, kernel
<1>2. Data'
  BY <1>1, CopyOutIsFifo DEF Inv
<1>3. TaskInv'
  <2>1. /\ TaskInv /\ expired \subseteq Tasks
        /\ cTxLock \in queueUNLOCKED .. MaxLocked /\ cRxLock \in queueUNLOCKED .. MaxLocked
        /\ xTasksWaitingToSend \in ListOf(Tasks) /\ xTasksWaitingToReceive \in ListOf(Tasks)
        /\ blocked = Owners(xTasksWaitingToSend) \cup Owners(xTasksWaitingToReceive)
    BY DEF Inv, TaskInv, Types
  <2>2. /\ xTasksWaitingToSend' = xTasksWaitingToSend
        /\ xTasksWaitingToReceive' = xTasksWaitingToReceive
        /\ cTxLock' = cTxLock /\ cRxLock' = cRxLock
    BY <1>1 DEF waiting, locks
  <2> QED BY <1>1, <2>1, <2>2, InterruptStep
<1>4. AboutTo("send")' = AboutTo("send") /\ AboutTo("receive")' = AboutTo("receive")
  BY <1>1 DEF AboutTo, Ready
<1>5. \A u \in Tasks : pc'[u] = "place" => pc[u] = "place" /\ call'[u] = call[u]
  BY <1>1
<1> QED BY <1>1, <1>2, <1>3, <1>4, <1>5, NoneMore DEF creation, locks, waiting, Held, IsEmpty

LEMMA TimeOutInv ==
  ASSUME Inv, NEW t \in Tasks, TimeOut(t)
  PROVE  Inv'
<1>1. /\ t \in blocked /\ blocked' = blocked \ {t} /\ expired' = expired \cup {t}
      /\ UNCHANGED <<creation, buffer, locks, pxCurrentTCB, pc, call, delivered, wasReset>>
  BY DEF TimeOut
<1>2. /\ TaskInv /\ expired \subseteq Tasks
      /\ cTxLock \in queueUNLOCKED .. MaxLocked /\ cRxLock \in queueUNLOCKED .. MaxLocked
      /\ xTasksWaitingToSend \in ListOf(Tasks) /\ xTasksWaitingToReceive \in ListOf(Tasks)
      /\ blocked = Owners(xTasksWaitingToSend) \cup Owners(xTasksWaitingToReceive)
      /\ Owners(xTasksWaitingToSend) \cap Owners(xTasksWaitingToReceive) = {}
  BY WaitersTry DEF Inv, TaskInv, Types
<1>3. /\ xTasksWaitingToSend' \in ListOf(Tasks) /\ xTasksWaitingToReceive' \in ListOf(Tasks)
      /\ Owners(xTasksWaitingToSend') = Owners(xTasksWaitingToSend) \ {t}
      /\ Owners(xTasksWaitingToReceive') = Owners(xTasksWaitingToReceive) \ {t}
  <2>1. CASE t \in Owners(xTasksWaitingToSend)
    <3>1. /\ xTasksWaitingToSend' = uxListRemove(xTasksWaitingToSend, t)
          /\ xTasksWaitingToReceive' = xTasksWaitingToReceive
          /\ t \notin Owners(xTasksWaitingToReceive)
      BY <1>2, <2>1 DEF TimeOut
    <3> QED BY <1>2, <2>1, <3>1, RemoveOwners
  <2>2. CASE t \notin Owners(xTasksWaitingToSend)
    <3>1. /\ xTasksWaitingToReceive' = uxListRemove(xTasksWaitingToReceive, t)
          /\ xTasksWaitingToSend' = xTasksWaitingToSend
          /\ t \in Owners(xTasksWaitingToReceive)
      BY <1>1, <1>2, <2>2 DEF TimeOut
    <3> QED BY <1>2, <2>2, <3>1, RemoveOwners
  <2> QED BY <2>1, <2>2
<1>4. TaskInv'
  <2>1. /\ Owners(xTasksWaitingToSend') \subseteq Owners(xTasksWaitingToSend)
        /\ Owners(xTasksWaitingToReceive') \subseteq Owners(xTasksWaitingToReceive)
        /\ blocked' = Owners(xTasksWaitingToSend') \cup Owners(xTasksWaitingToReceive')
        /\ expired' \subseteq Tasks /\ cTxLock' = cTxLock /\ cRxLock' = cRxLock
    BY <1>1, <1>2, <1>3 DEF locks
  <2> QED BY <1>1, <1>2, <1>3, <2>1, InterruptStep
<1>5. Data'
  BY <1>1 DEF Inv, Data, creation, buffer
<1>6. AboutTo("send") \subseteq AboutTo("send")' /\ AboutTo("receive") \subseteq AboutTo("receive")'
  BY <1>1 DEF AboutTo, Ready
<1>7. /\ IsEmpty(xTasksWaitingToReceive) => IsEmpty(xTasksWaitingToReceive)'
      /\ IsEmpty(xTasksWaitingToSend) => IsEmpty(xTasksWaitingToSend)'
  <2>1. /\ IsEmpty(xTasksWaitingToReceive) => IsEmpty(xTasksWaitingToReceive')
        /\ IsEmpty(xTasksWaitingToSend) => IsEmpty(xTasksWaitingToSend')
    BY <1>2, <1>3, IsEmptyIffNoOwner
  <2> QED BY <2>1 DEF IsEmpty
<1>8. \A u \in Tasks : pc'[u] = "place" => pc[u] = "place" /\ call'[u] = call[u]
  BY <1>1
<1> QED BY <1>1, <1>4, <1>5, <1>6, <1>7, <1>8, NoneMore DEF creation, buffer, locks, Held

LEMMA NextInv == Inv /\ [Next]_vars => Inv'
<1> SUFFICES ASSUME Inv, [Next]_vars PROVE Inv'
  OBVIOUS
<1>1. CASE UNCHANGED vars \/ vTaskSwitchContext
  BY <1>1, StutterInv
<1>2. CASE SendFromISR \/ xQueueReceiveFromISR \/ xQueuePeekFromISR
  BY <1>2, SendFromISRInv, ReceiveFromISRInv, PeekFromISRInv
<1>3. CASE \E t \in Tasks : TimeOut(t)
  BY <1>3, TimeOutInv
<1>4. CASE \E t \in Tasks : TaskStep(t)
  <2>1. PICK t \in Tasks : TaskStep(t)
    BY <1>4
  <2>2. CASE \E c \in Calls : Send(t, c) \/ Receive(t, c) \/ GoOnToWait(t, c)
    BY <2>2, SendInv, PeekInv, ReceiveInv, GoOnToWaitInv
  <2>3. CASE LockQueue(t) \/ CheckForTimeOut(t) \/ Place(t)
    BY <2>3, LockInv, CheckInv, PlaceInv
  <2>4. CASE UnlockTx(t) \/ UnlockRx(t) \/ Resume(t) \/ GiveUp(t) \/ xQueueGenericReset(t)
    BY <2>4, UnlockTxInv, UnlockRxInv, ResumeInv, ResetInv
  <2> QED BY <2>1, <2>2, <2>3, <2>4 DEF TaskStep
<1> QED BY <1>1, <1>2, <1>3, <1>4 DEF Next

LEMMA Invariance == Spec => []Inv
BY InitInv, NextInv, PTL DEF Spec

LEMMA InvTypeOK == Inv => TypeOK
<1> SUFFICES ASSUME Inv PROVE TypeOK
  OBVIOUS
<1>1. xTasksWaitingToSend \in ListOf(blocked) /\ xTasksWaitingToReceive \in ListOf(blocked)
  <2>1. /\ xTasksWaitingToSend \in ListOf(Tasks) /\ xTasksWaitingToReceive \in ListOf(Tasks)
        /\ Owners(xTasksWaitingToSend) \subseteq blocked
        /\ Owners(xTasksWaitingToReceive) \subseteq blocked
    BY DEF Inv, TaskInv, Types
  <2> QED BY <2>1, ListOfItsOwners
<1>2. blocked \subseteq Tasks
  BY WaitersTry DEF Inv
<1> QED BY <1>1, <1>2 DEF Inv, Data, TaskInv, Types, TypeOK

LEMMA InvNoneForgotten == Inv => NoReceiverForgotten /\ NoSenderForgotten
<1> SUFFICES ASSUME Inv PROVE NoReceiverForgotten /\ NoSenderForgotten
  OBVIOUS
<1>1. /\ Cardinality(AboutTo("send")) \in Nat /\ Cardinality(AboutTo("receive")) \in Nat
  <2>1. AboutTo("send") \in SUBSET Tasks /\ AboutTo("receive") \in SUBSET Tasks
    BY DEF AboutTo, Ready
  <2> QED BY <2>1, QueueAssumption, FS_Subset, FS_CardinalityType
<1>2. NoReceiverForgotten
  BY <1>1, Numbers DEF Inv, ReceiversWoken, NoReceiverForgotten, Held
<1>3. NoSenderForgotten
  BY <1>1, Numbers DEF Inv, SendersWoken, NoSenderForgotten, Held
<1> QED BY <1>2, <1>3

LEMMA InitIsFifo == Init => Abstract!Init
<1> SUFFICES ASSUME Init PROVE Abstract!Init
  OBVIOUS
<1>1. Data
  BY InitInv DEF Inv
<1>2. /\ uxLength \in Nat \ {0} /\ uxMessagesWaiting \in 0 .. uxLength
      /\ Contents \in Seq(Items \cup {Token}) /\ Len(Contents) = uxMessagesWaiting
  BY <1>1, ContentsLen, QueueAssumption DEF Data
<1> QED BY <1>2 DEF Abstract!Init

\* Every step is one of the abstract queue, or leaves it as it is.
LEMMA NextIsFifo == Inv /\ [Next]_vars => [Abstract!Next]_(Abstract!vars)
<1> SUFFICES ASSUME Inv, [Next]_vars PROVE Abstract!Next \/ UNCHANGED Abstract!vars
  OBVIOUS
<1>1. ASSUME UNCHANGED <<creation, buffer, delivered>> PROVE UNCHANGED Abstract!vars
  BY <1>1 DEF creation, buffer, Contents, Abstract!vars
<1>2. CASE UNCHANGED vars \/ vTaskSwitchContext \/ \E t \in Tasks : TimeOut(t)
  <2>1. UNCHANGED <<creation, buffer, delivered>>
    BY <1>2 DEF vars, vTaskSwitchContext, TimeOut
  <2> QED BY <1>1, <2>1
<1>3. CASE SendFromISR
  <2>1. PICK item \in Items \cup {Token}, position \in Positions :
          /\ SendAllowed(item, position) /\ CanSend(position)
          /\ prvCopyDataToQueue(item, position) /\ UNCHANGED <<creation, delivered>>
    BY <1>3 DEF SendFromISR
  <2> QED BY <2>1, SendIsFifo DEF Inv
<1>4. CASE xQueueReceiveFromISR \/ xQueuePeekFromISR
  <2>1. PICK peek \in BOOLEAN : ~prvIsQueueEmpty /\ CopyOut(peek) /\ UNCHANGED creation
    BY <1>4 DEF xQueueReceiveFromISR, xQueuePeekFromISR
  <2> QED BY <2>1, CopyOutIsFifo DEF Inv
<1>5. CASE \E t \in Tasks : TaskStep(t)
  <2>1. PICK t \in Tasks : TaskStep(t)
    BY <1>5
  <2>2. CASE \E c \in Calls : Send(t, c)
    <3>1. PICK c \in Calls : Send(t, c)
      BY <2>2
    <3>2. /\ c.item \in Items \cup {Token} /\ c.position \in Positions
          /\ SendAllowed(c.item, c.position) /\ CanSend(c.position)
          /\ prvCopyDataToQueue(c.item, c.position) /\ UNCHANGED <<creation, delivered>>
      BY <3>1, CallFields, AttemptCall DEF Send, Inv, CallAllowed
    <3> QED BY <3>2, SendIsFifo DEF Inv
  <2>3. CASE \E c \in Calls : Receive(t, c)
    <3>1. PICK c \in Calls : Receive(t, c)
      BY <2>3
    <3>2. c.peek \in BOOLEAN /\ ~prvIsQueueEmpty /\ CopyOut(c.peek) /\ UNCHANGED creation
      BY <3>1, CallFields DEF Receive
    <3> QED BY <3>2, CopyOutIsFifo DEF Inv
  <2>4. CASE xQueueGenericReset(t)
    BY <2>4, ResetIsFifo DEF Inv
  <2>5. CASE \/ \E c \in Calls : GoOnToWait(t, c)
             \/ LockQueue(t) \/ CheckForTimeOut(t) \/ Place(t)
             \/ UnlockTx(t) \/ UnlockRx(t) \/ Resume(t) \/ GiveUp(t)
    <3>1. UNCHANGED <<creation, buffer, delivered>>
      BY <2>5 DEF GoOnToWait, LockQueue, CheckForTimeOut, Place, UnlockTx, UnlockRx, Resume, GiveUp
    <3> QED BY <1>1, <3>1
  <2> QED BY <2>1, <2>2, <2>3, <2>4, <2>5 DEF TaskStep
<1> QED BY <1>2, <1>3, <1>4, <1>5 DEF Next
-----------------------------------------------------------------------------
\* No pointer leaves the storage and no count its range, and only blocked tasks are in
\* the event lists: for every length of the queue and any number of tasks.
THEOREM TypeCorrect == Spec => []TypeOK
BY Invariance, InvTypeOK, PTL

\* No message is left lying while a task waits for one: a task that placed itself in
\* the event list while interrupts posted is told of every post.
THEOREM NoReceiverLeft == Spec => []NoReceiverForgotten
BY Invariance, InvNoneForgotten, PTL

\* No room is left while a task waits for it, until a reset.
THEOREM NoSenderLeft == Spec => []NoSenderForgotten
BY Invariance, InvNoneForgotten, PTL

\* The ring of items between two pointers implements the first-in first-out queue,
\* through every wrap, send to the front, overwrite, peek and reset.
THEOREM ImplementsFifo == Spec => IsFifo
<1>1. Init => Abstract!Init
  BY InitIsFifo
<1>2. Inv /\ [Next]_vars => [Abstract!Next]_(Abstract!vars)
  BY NextIsFifo
<1> QED BY <1>1, <1>2, Invariance, PTL DEF Spec, IsFifo, Abstract!Spec
=============================================================================
