----------------------------- MODULE DvfsProofs -----------------------------
(***************************************************************************)
(* The types of frequency scaling, the cycles it allocates and the levels  *)
(* it selects, for any number of tasks, any periods and worst cases, any   *)
(* table of levels and runs of any length.                                 *)
(*                                                                         *)
(* The sums and the allocation are recursive functions.  The first part    *)
(* shows that those functions exist and what values they have.             *)
(***************************************************************************)
EXTENDS Dvfs, FiniteSetTheorems, TLAPS

\* Every set of numbers that is not empty has a least element.
LEMMA LeastNumber ==
  ASSUME NEW T \in SUBSET Nat, T # {}
  PROVE  \E m \in T : \A x \in T : m <= x
<1> DEFINE upTo == {0 .. k : k \in T}
<1>1. upTo \subseteq FiniteSubsetsOf(Nat) /\ upTo # {}
  <2>1. ASSUME NEW k \in T PROVE 0 .. k \in FiniteSubsetsOf(Nat)
    <3>1. IsFiniteSet(0 .. k) /\ 0 .. k \subseteq Nat
      BY FS_Interval
    <3> QED BY <3>1 DEF FiniteSubsetsOf
  <2> QED BY <2>1
<1>2. PICK least \in upTo : \A other \in upTo : <<other, least>> \notin StrictSubsetOrdering(Nat)
  BY <1>1, FS_StrictSubsetOrderingWellFounded, WFMin
<1>3. PICK m \in T : least = 0 .. m
  OBVIOUS
<1>4. ASSUME NEW x \in T, ~(m <= x) PROVE FALSE
  <2>1. 0 .. x \subseteq 0 .. m /\ m \in 0 .. m /\ m \notin 0 .. x
    BY <1>4
  <2>2. <<0 .. x, 0 .. m>> \in StrictSubsetOrdering(Nat)
    BY <2>1 DEF StrictSubsetOrdering
  <2> QED BY <1>2, <1>3, <2>2
<1> QED BY <1>4

\* Induction over the numbers, in terms of the set of those that have the property.
LEMMA NumbersByInduction ==
  ASSUME NEW S, 0 \in S, \A n \in Nat : n \in S => n + 1 \in S
  PROVE  Nat \subseteq S
<1> SUFFICES ASSUME Nat \ S # {} PROVE FALSE
  OBVIOUS
<1>1. PICK m \in Nat \ S : \A x \in Nat \ S : m <= x
  BY LeastNumber
<1>2. m # 0 /\ m - 1 \in Nat
  BY <1>1
<1>3. m - 1 \in S
  BY <1>1, <1>2
<1> QED BY <1>2, <1>3

\* The least of some numbers.
LEMMA LeastOfSet ==
  ASSUME NEW T \in SUBSET Nat, T # {}
  PROVE  Min(T) \in T /\ \A x \in T : Min(T) <= x
BY LeastNumber DEF Min

\* The slowest of some levels.
LEMMA GreatestOfLevels ==
  ASSUME NEW T \in SUBSET Levels, T # {}
  PROVE  Max(T) \in T /\ \A x \in T : x <= Max(T)
<1> DEFINE below == {availableFrequencyLevels - l : l \in T}
<1>1. below \in SUBSET Nat /\ below # {}
  <2>1. \A l \in T : availableFrequencyLevels - l \in Nat
    BY DvfsAssumption DEF Levels
  <2> QED BY <2>1
<1>2. PICK least \in below : \A x \in below : least <= x
  BY <1>1, LeastNumber
<1>3. PICK m \in T : least = availableFrequencyLevels - m
  OBVIOUS
<1>4. \A l \in T : l <= m
  <2> TAKE l \in T
  <2>1. availableFrequencyLevels - m <= availableFrequencyLevels - l
    BY <1>2, <1>3
  <2> QED BY <2>1, DvfsAssumption DEF Levels
<1>5. \E x \in T : \A y \in T : x >= y
  BY <1>4 DEF Levels
<1>6. Max(T) \in T /\ \A y \in T : Max(T) >= y
  BY <1>5, Zenon DEF Max
<1> QED BY <1>6 DEF Levels

\* The sum of the allocated cycles is a number, however many tasks there are.
LEMMA TotalDType ==
  ASSUME NEW d \in [Tasks -> Int]
  PROVE  TotalD(d) \in Int
<1> DEFINE chosen(s) == CHOOSE x \in s : TRUE
           Small(n) == {s \in SUBSET Tasks : Cardinality(s) <= n}
           Sum(f, s) == IF s = {} THEN 0 ELSE d[chosen(s)] + f[s \ {chosen(s)}]
           Sums(f, n) == f = [s \in Small(n) |-> Sum(f, s)]
           Reached == {n \in Nat : \E f : Sums(f, n) /\ f \in [Small(n) -> Int]}
<1>1. IsFiniteSet(Tasks)
  BY FS_Interval, DvfsAssumption DEF Tasks
<1>2. \A s \in SUBSET Tasks :
         /\ IsFiniteSet(s) /\ Cardinality(s) \in Nat
         /\ Cardinality(s) <= Cardinality(Tasks)
         /\ Cardinality(s) = 0 <=> s = {}
  BY <1>1, FS_Subset, FS_CardinalityType, FS_EmptySet
<1>3. \A s \in SUBSET Tasks : s # {} =>
         /\ chosen(s) \in s /\ s \ {chosen(s)} \in SUBSET Tasks
         /\ Cardinality(s \ {chosen(s)}) = Cardinality(s) - 1
  <2> TAKE s \in SUBSET Tasks
  <2> HAVE s # {}
  <2>1. chosen(s) \in s
    OBVIOUS
  <2> QED BY <2>1, <1>2, FS_RemoveElement
<1> HIDE DEF chosen
<1>4. 0 \in Reached
  <2>1. Small(0) = {{}}
    BY <1>2, {} \in SUBSET Tasks
  <2>2. Sums([s \in Small(0) |-> 0], 0) /\ [s \in Small(0) |-> 0] \in [Small(0) -> Int]
    BY <2>1
  <2> QED BY <2>2
<1>5. ASSUME NEW n \in Nat, n \in Reached PROVE n + 1 \in Reached
  <2>1. PICK f : Sums(f, n) /\ f \in [Small(n) -> Int]
    BY <1>5
  <2> DEFINE g == [s \in Small(n + 1) |-> Sum(f, s)]
  <2>2. \A s \in Small(n + 1) : s # {} =>
           s \ {chosen(s)} \in Small(n) /\ chosen(s) \in Tasks
    BY <1>2, <1>3
  <2>3. \A s \in Small(n) : s \in Small(n + 1) /\ g[s] = f[s]
    <3> TAKE s \in Small(n)
    <3>1. s \in Small(n + 1)
      BY <1>2
    <3>2. f[s] = Sum(f, s)
      BY <2>1
    <3> QED BY <3>1, <3>2
  <2>4. \A s \in Small(n + 1) : Sum(f, s) = Sum(g, s) /\ Sum(f, s) \in Int
    <3> TAKE s \in Small(n + 1)
    <3>1. CASE s = {}
      BY <3>1
    <3>2. CASE s # {}
      <4> DEFINE r == s \ {chosen(s)}
      <4>1. r \in Small(n) /\ d[chosen(s)] \in Int
        BY <2>2, <3>2
      <4>2. g[r] = f[r] /\ f[r] \in Int
        BY <2>1, <2>3, <4>1
      <4> HIDE DEF r, g
      <4>3. d[chosen(s)] + f[r] \in Int
        BY <4>1, <4>2
      <4> QED BY <3>2, <4>2, <4>3 DEF r
    <3> QED BY <3>1, <3>2
  <2>5. g = [s \in Small(n + 1) |-> Sum(g, s)]
    <3>1. \A s \in Small(n + 1) : g[s] = Sum(g, s)
      BY <2>4
    <3> HIDE DEF Sum, Small
    <3> QED BY <3>1
  <2>6. g \in [Small(n + 1) -> Int]
    BY <2>4
  <2> HIDE DEF g, Sum, Small
  <2> QED BY <2>5, <2>6
<1>6. Cardinality(Tasks) \in Reached
  BY <1>2, <1>4, <1>5, NumbersByInduction
<1> DEFINE all == CHOOSE f : f = [s \in SUBSET Tasks |-> Sum(f, s)]
<1>7. all = [s \in SUBSET Tasks |-> Sum(all, s)]
  <2>1. Small(Cardinality(Tasks)) = SUBSET Tasks
    BY <1>2
  <2>2. \E f : f = [s \in SUBSET Tasks |-> Sum(f, s)]
    BY <1>6, <2>1
  <2> QED BY <2>2
<1> HIDE DEF all
<1> DEFINE Typed == {n \in Nat : \A s \in SUBSET Tasks : Cardinality(s) = n => all[s] \in Int}
<1>8. 0 \in Typed
  BY <1>2, <1>7
<1>9. ASSUME NEW n \in Nat, n \in Typed PROVE n + 1 \in Typed
  <2> SUFFICES ASSUME NEW s \in SUBSET Tasks, Cardinality(s) = n + 1 PROVE all[s] \in Int
    OBVIOUS
  <2>1. s # {} /\ chosen(s) \in Tasks /\ all[s \ {chosen(s)}] \in Int
    BY <1>2, <1>3, <1>9
  <2>2. all[s] = d[chosen(s)] + all[s \ {chosen(s)}]
    BY <2>1, <1>7
  <2>3. d[chosen(s)] \in Int
    BY <2>1
  <2> QED BY <2>1, <2>2, <2>3
<1>10. Cardinality(Tasks) \in Typed
  BY <1>2, <1>8, <1>9, NumbersByInduction
<1>11. TotalD(d) = all[Tasks]
  BY DEF TotalD, MapThenSumSet, MapThenFoldSet, all, chosen
<1> QED BY <1>10, <1>11

\* Every task is allocated a number of cycles, and no more than it has left.
LEMMA AllocatedWithin ==
  ASSUME NEW cycles \in [Tasks -> Int], NEW k \in Int
  PROVE  LET d == cycleConservingDVSAllocateCycles(cycles, k)
         IN  d \in [Tasks -> Int] /\ \A i \in Tasks : d[i] <= cycles[i]
<1> DEFINE Left(f, i) ==
             IF i = 1 THEN k
             ELSE IF cycles[i - 1] < f[i - 1] THEN f[i - 1] - cycles[i - 1] ELSE 0
           Reached == {n \in Nat : n <= numberOfTasks =>
                         \E f : f = [i \in 1 .. n |-> Left(f, i)] /\ f \in [1 .. n -> Int]}
<1>1. 0 \in Reached
  <2> DEFINE f == [i \in 1 .. 0 |-> 0]
  <2>1. f = [i \in 1 .. 0 |-> Left(f, i)] /\ f \in [1 .. 0 -> Int]
    OBVIOUS
  <2> QED BY <2>1
<1>2. ASSUME NEW n \in Nat, n \in Reached PROVE n + 1 \in Reached
  <2> SUFFICES ASSUME n + 1 <= numberOfTasks
               PROVE  \E f : f = [i \in 1 .. n + 1 |-> Left(f, i)] /\ f \in [1 .. n + 1 -> Int]
    OBVIOUS
  <2>1. PICK f : f = [i \in 1 .. n |-> Left(f, i)] /\ f \in [1 .. n -> Int]
    <3>1. n <= numberOfTasks
      BY DvfsAssumption
    <3> HIDE DEF Left
    <3> QED BY <1>2, <3>1
  <2> DEFINE g == [i \in 1 .. n + 1 |-> Left(f, i)]
  <2>2. \A i \in 1 .. n : g[i] = f[i]
    <3> TAKE i \in 1 .. n
    <3>1. f[i] = Left(f, i)
      BY <2>1
    <3> QED BY <3>1
  <2>3. \A i \in 1 .. n + 1 : Left(f, i) = Left(g, i) /\ Left(f, i) \in Int
    <3> TAKE i \in 1 .. n + 1
    <3>1. CASE i = 1
      BY <3>1
    <3>2. CASE i # 1
      <4>1. i - 1 \in 1 .. n /\ i - 1 \in Tasks
        BY <3>2, DvfsAssumption DEF Tasks
      <4>2. g[i - 1] = f[i - 1] /\ f[i - 1] \in Int /\ cycles[i - 1] \in Int
        BY <2>1, <2>2, <4>1
      <4> HIDE DEF g
      <4> QED BY <3>2, <4>2
    <3> QED BY <3>1, <3>2
  <2>4. g = [i \in 1 .. n + 1 |-> Left(g, i)]
    <3>1. \A i \in 1 .. n + 1 : g[i] = Left(g, i)
      BY <2>3
    <3> HIDE DEF Left
    <3> QED BY <3>1
  <2>5. g \in [1 .. n + 1 -> Int]
    BY <2>3
  <2> HIDE DEF g, Left
  <2> QED BY <2>4, <2>5
<1>3. numberOfTasks \in Reached
  BY <1>1, <1>2, NumbersByInduction, DvfsAssumption
<1> DEFINE before == CHOOSE f : f = [i \in Tasks |-> Left(f, i)]
<1>4. before = [i \in Tasks |-> Left(before, i)]
  <2>1. \E f : f = [i \in Tasks |-> Left(f, i)]
    <3>1. numberOfTasks \in Nat /\ numberOfTasks <= numberOfTasks
      BY DvfsAssumption
    <3> HIDE DEF Left
    <3> QED BY <1>3, <3>1 DEF Tasks
  <2> QED BY <2>1
<1> HIDE DEF before
<1> DEFINE Typed == {n \in Nat : n + 1 \in Tasks => before[n + 1] \in Int}
<1>5. 0 \in Typed
  BY <1>4
<1>6. ASSUME NEW n \in Nat, n \in Typed PROVE n + 1 \in Typed
  <2> SUFFICES ASSUME n + 2 \in Tasks PROVE before[n + 2] \in Int
    OBVIOUS
  <2>1. n + 1 \in Tasks /\ before[n + 1] \in Int /\ cycles[n + 1] \in Int
    BY <1>6, DvfsAssumption DEF Tasks
  <2>2. before[n + 2] = Left(before, n + 2)
    BY <1>4
  <2> QED BY <2>1, <2>2
<1>7. \A i \in Tasks : before[i] \in Int
  <2>1. Nat \subseteq Typed
    BY <1>5, <1>6, NumbersByInduction
  <2>2. ASSUME NEW i \in Tasks PROVE before[i] \in Int
    <3>1. i - 1 \in Nat /\ (i - 1) + 1 = i
      BY DvfsAssumption DEF Tasks
    <3>2. i - 1 \in Typed
      BY <2>1, <3>1, Zenon
    <3> QED BY <3>1, <3>2
  <2> QED BY <2>2
<1>8. cycleConservingDVSAllocateCycles(cycles, k) =
        [i \in Tasks |-> IF cycles[i] < before[i] THEN cycles[i] ELSE before[i]]
  BY DEF cycleConservingDVSAllocateCycles, before
<1> QED BY <1>7, <1>8
-----------------------------------------------------------------------------
(* The selection of a level *)

\* The next deadline is a number.
LEMMA NextDeadlineType ==
  ASSUME NEW deadlines \in [Tasks -> Nat]
  PROVE  findNextDeadline(deadlines) \in Nat
<1> DEFINE all == {deadlines[i] : i \in Tasks}
<1>1. all \in SUBSET Nat /\ all # {}
  BY DvfsAssumption DEF Tasks
<1>2. Min(all) \in all
  BY <1>1, LeastOfSet
<1> QED BY <1>1, <1>2 DEF findNextDeadline

\* The level returned is one of the table, and fast enough for the cycles
\* allocated, unless the deadline has passed or no level below the fastest is.
LEMMA SelectedLevel ==
  ASSUME NEW deadlines \in [Tasks -> Nat], NEW d \in [Tasks -> Int],
         Tick' \in Int, currentFrequencyLevel \in Levels,
         cycleConservingDVSFrequencySelector(deadlines, d)
  PROVE  /\ returned' \in Levels /\ currentFrequencyLevel' \in Levels
         /\ LET ticks == findNextDeadline(deadlines) - Tick'
            IN  ticks > 0 /\ returned' > 0 =>
                  TotalD(d) * frequencyStages[0] <= frequencyStages[returned'] * ticks
<1> DEFINE ticks == findNextDeadline(deadlines) - Tick'
           exceeds(l) == MinimumExceeds(l, TotalD(d), ticks)
           enough == {l \in Levels : \A k \in 1 .. l : ~exceeds(k)}
<1>1. 0 \in Levels /\ 0 \in enough
  BY DvfsAssumption DEF Levels
<1>2. Max(enough) \in enough
  BY <1>1, GreatestOfLevels
<1>3. TotalD(d) \in Int /\ ticks \in Int
  BY TotalDType, NextDeadlineType
<1>4. CASE exceeds(1)
  BY <1>1, <1>4 DEF cycleConservingDVSFrequencySelector
<1>5. CASE ~exceeds(1)
  <2>1. returned' = Max(enough) /\ currentFrequencyLevel' = Max(enough)
    BY <1>5 DEF cycleConservingDVSFrequencySelector
  <2>2. returned' \in Levels /\ \A k \in 1 .. returned' : ~exceeds(k)
    BY <1>2, <2>1
  <2>3. ASSUME ticks > 0, returned' > 0
        PROVE  TotalD(d) * frequencyStages[0] <= frequencyStages[returned'] * ticks
    <3>1. ~exceeds(returned')
      BY <2>2, <2>3 DEF Levels
    <3>2. ~(TotalD(d) * frequencyStages[0] > frequencyStages[returned'] * ticks)
      BY <2>3, <3>1 DEF MinimumExceeds
    <3>3. frequencyStages[0] \in Int /\ frequencyStages[returned'] \in Int
      BY <1>1, <2>2, DvfsAssumption
    <3>4. TotalD(d) * frequencyStages[0] \in Int /\ frequencyStages[returned'] * ticks \in Int
      BY <1>3, <3>3
    <3> HIDE DEF ticks
    <3> QED BY <3>2, <3>4
  <2> QED BY <2>1, <2>2, <2>3
<1> QED BY <1>4, <1>5

-----------------------------------------------------------------------------
(* The invariant and the steps *)

\* A quotient rounded up is a number, also of a negative one.
LEMMA CeilAuxType ==
  ASSUME NEW n \in Int, NEW d \in Nat \ {0}
  PROVE  CeilAux(n, d) \in Int
<1>1. n \div d \in Int
  OBVIOUS
<1>2. n % d # 0 => n # 0
  OBVIOUS
<1> QED BY <1>1, <1>2 DEF CeilAux

\* Nothing is allocated before the setup.
BudgetInv ==
  TypeOK /\ BudgetWithinJob /\ (phase = "setup" => d_i = [i \in Tasks |-> 0])

\* The times of the model are numbers.
LEMMA TimeTypes ==
  ASSUME TypeOK
  PROVE  /\ Tick \in Int
         /\ \A i \in Tasks : period[i] \in Nat /\ taskWorstCaseComputeTime[i] \in Nat
         /\ \A work \in Nat : Duration(work) \in Nat
<1>1. Tick \in Int
  BY DvfsAssumption DEF Tick, TypeOK
<1>2. \A i \in Tasks : period[i] \in Nat /\ taskWorstCaseComputeTime[i] \in Nat
  BY DvfsAssumption DEF TypeOK
<1>3. ASSUME NEW work \in Nat PROVE Duration(work) \in Nat
  <2>1. 0 \in Levels /\ mValues[0] \in Nat /\ mValues[clock] \in Nat \ {0} /\ TickParts \in Nat
    BY DvfsAssumption DEF Levels, TypeOK
  <2>2. work * TickParts * mValues[0] \in Nat
    BY <2>1
  <2> QED BY <2>1, <2>2 DEF Duration
<1> QED BY <1>1, <1>2, <1>3

\* The setup selects a level of the table, or fails.
LEMMA SetupStep ==
  ASSUME BudgetInv, Setup
  PROVE  BudgetInv'
<1> USE DEF BudgetInv
<1>1. /\ currentFrequencyLevel' \in Levels /\ clock' \in Levels
      /\ returned' \in Levels \cup {-1}
  <2>1. CASE ValidPrefix = {}
    BY <2>1 DEF Setup, staticVoltageScalingFrequencyLevelSelector, TypeOK
  <2>2. CASE ValidPrefix # {}
    <3>1. Max(ValidPrefix) \in Levels
      BY <2>2, GreatestOfLevels DEF ValidPrefix
    <3> QED BY <2>2, <3>1 DEF Setup, staticVoltageScalingFrequencyLevelSelector
  <2> QED BY <2>1, <2>2
<1>2. /\ phase' \in {"failed", "running"}
      /\ phase' = "running" => returned' # -1
  BY DEF Setup
<1>3. /\ UNCHANGED <<mode, period, taskWorstCaseComputeTime, taskDeadlines, d_i, now, wake,
                     running>>
      /\ c_lefti' = IF mode = "CycleConserving" /\ returned' # -1
                    THEN taskWorstCaseComputeTime ELSE c_lefti
      /\ phase = "setup"
  BY DEF Setup, taskSet
<1>4. taskWorstCaseComputeTime \in [Tasks -> Nat]
  BY DvfsAssumption DEF TypeOK
<1>5. TypeOK'
  BY <1>1, <1>2, <1>3, <1>4 DEF TypeOK
<1>6. BudgetWithinJob'
  BY <1>2, <1>3, <1>4 DEF BudgetWithinJob
<1> QED BY <1>2, <1>5, <1>6

\* What LevelSuffices says of a step.
LevelSufficient ==
  mode = "CycleConserving" /\ running' # running =>
    LET ticks == findNextDeadline(taskDeadlines') - Tick'
    IN  ticks > 0 /\ returned' > 0 =>
          TotalD(d_i') * frequencyStages[0] <= frequencyStages[returned'] * ticks

\* A job that starts has its worst case left, and all tasks are allocated anew.
LEMMA StartStep ==
  ASSUME BudgetInv, NEW i \in Tasks, Start(i)
  PROVE  BudgetInv' /\ LevelSufficient
<1> USE DEF BudgetInv
<1>1. /\ phase = "running" /\ running' = i
      /\ UNCHANGED <<mode, period, taskWorstCaseComputeTime, clock, phase, now, wake>>
  BY DEF Start, taskSet
<1>2. CASE mode = "CycleConserving"
  <2> DEFINE deadlines == [taskDeadlines EXCEPT ![i] = wake[i] + period[i]]
             cycles == [c_lefti EXCEPT ![i] = taskWorstCaseComputeTime[i]]
             s_m == findNextDeadline(deadlines) - Tick
             s_j == CeilAux(s_m * frequencyStages[currentFrequencyLevel], frequencyStages[0])
             d == cycleConservingDVSAllocateCycles(cycles, s_j)
  <2>1. /\ taskDeadlines' = deadlines /\ c_lefti' = cycles /\ d_i' = d
        /\ cycleConservingDVSFrequencySelector(deadlines, d)
    BY <1>2 DEF Start, cycleConservingDVSTaskReady
  <2>2. deadlines \in [Tasks -> Nat] /\ cycles \in [Tasks -> Nat]
    BY TimeTypes DEF TypeOK
  <2>3. s_j \in Int
    <3>1. s_m \in Int
      <4> HIDE DEF deadlines
      <4>1. findNextDeadline(deadlines) \in Nat
        BY <2>2, NextDeadlineType
      <4> QED BY <4>1, TimeTypes
    <3>2. 0 \in Levels
      BY DvfsAssumption DEF Levels
    <3>3. /\ frequencyStages[currentFrequencyLevel] \in Int
          /\ frequencyStages[0] \in Nat \ {0}
      BY <3>2, DvfsAssumption DEF TypeOK
    <3> HIDE DEF s_m
    <3> QED BY <3>1, <3>3, CeilAuxType
  <2>4. Tick' \in Int /\ currentFrequencyLevel \in Levels
    BY <1>1, TimeTypes DEF Tick, TypeOK
  <2> HIDE DEF deadlines, s_j
  <2>5. d \in [Tasks -> Int] /\ \A j \in Tasks : d[j] <= cycles[j]
    <3>1. cycles \in [Tasks -> Int]
      BY <2>2
    <3> HIDE DEF cycles
    <3> QED BY <2>3, <3>1, AllocatedWithin
  <2> HIDE DEF d
  <2>6. /\ returned' \in Levels /\ currentFrequencyLevel' \in Levels
        /\ LevelSufficient
    BY <2>1, <2>2, <2>4, <2>5, SelectedLevel DEF LevelSufficient
  <2>7. TypeOK'
    BY <1>1, <2>1, <2>2, <2>5, <2>6 DEF TypeOK
  <2>8. \A j \in Tasks : cycles[j] <= taskWorstCaseComputeTime[j]
    BY <1>1, <1>2, TimeTypes DEF TypeOK, BudgetWithinJob
  <2>9. BudgetWithinJob'
    BY <1>1, <2>1, <2>5, <2>8 DEF BudgetWithinJob
  <2> QED BY <1>1, <2>6, <2>7, <2>9
<1>3. CASE mode # "CycleConserving"
  <2>1. UNCHANGED <<taskDeadlines, d_i, c_lefti, currentFrequencyLevel, returned>>
    BY <1>3 DEF Start, Unscaled
  <2>2. TypeOK'
    BY <1>1, <2>1 DEF TypeOK
  <2> QED BY <1>1, <1>3, <2>2 DEF BudgetWithinJob, LevelSufficient
<1> QED BY <1>2, <1>3

\* The end of a job takes its cycles back.
LEMMA CompleteStep ==
  ASSUME BudgetInv, NEW i \in Tasks, Complete(i)
  PROVE  BudgetInv' /\ LevelSufficient
<1> USE DEF BudgetInv
<1>1. /\ running = i /\ running' = 0
      /\ UNCHANGED <<mode, period, taskWorstCaseComputeTime, clock, phase>>
      /\ wake' = [wake EXCEPT ![i] = @ + period[i]]
  BY DEF Complete, taskSet
<1>2. now' \in Nat /\ wake' \in [Tasks -> Nat]
  <2>1. PICK work \in 1 .. taskWorstCaseComputeTime[i] : now' = now + Duration(work)
    BY DEF Complete
  <2>2. Duration(work) \in Nat
    BY <2>1, TimeTypes DEF TypeOK
  <2> QED BY <1>1, <2>1, <2>2, TimeTypes DEF TypeOK
<1>3. CASE mode = "CycleConserving"
  <2> DEFINE d == [d_i EXCEPT ![i] = 0]
  <2>1. /\ taskDeadlines' = taskDeadlines /\ c_lefti' = [c_lefti EXCEPT ![i] = 0] /\ d_i' = d
        /\ cycleConservingDVSFrequencySelector(taskDeadlines, d)
    BY <1>3 DEF Complete, cycleConservingDVSTaskComplete
  <2>2. d \in [Tasks -> Int] /\ c_lefti' \in [Tasks -> Nat]
    BY <2>1 DEF TypeOK
  <2>3. Tick' \in Int /\ currentFrequencyLevel \in Levels
    BY <1>2, DvfsAssumption DEF Tick, TypeOK
  <2>4. /\ returned' \in Levels /\ currentFrequencyLevel' \in Levels
        /\ LevelSufficient
    <3>1. taskDeadlines \in [Tasks -> Nat]
      BY DEF TypeOK
    <3> HIDE DEF d
    <3> QED BY <2>1, <2>2, <2>3, <3>1, SelectedLevel DEF LevelSufficient
  <2>5. TypeOK'
    BY <1>1, <1>2, <2>1, <2>2, <2>4 DEF TypeOK
  <2>6. BudgetWithinJob'
    BY <1>1, <2>1, TimeTypes DEF BudgetWithinJob, TypeOK
  <2>7. phase = "setup" => d_i' = [j \in Tasks |-> 0]
    BY <2>1
  <2> QED BY <1>1, <2>4, <2>5, <2>6, <2>7
<1>4. CASE mode # "CycleConserving"
  <2>1. UNCHANGED <<taskDeadlines, d_i, c_lefti, currentFrequencyLevel, returned>>
    BY <1>4 DEF Complete, Unscaled
  <2>2. TypeOK'
    BY <1>1, <1>2, <2>1 DEF TypeOK
  <2> QED BY <1>1, <1>4, <2>1, <2>2 DEF BudgetWithinJob, LevelSufficient
<1> QED BY <1>3, <1>4

\* The idle task only lets time pass.
LEMMA IdleStep ==
  ASSUME BudgetInv, IdleUntilDue
  PROVE  BudgetInv'
<1> USE DEF BudgetInv
<1>1. now' \in Nat
  <2> DEFINE wakes == {wake[i] : i \in Tasks}
  <2>1. wakes \in SUBSET Nat /\ wakes # {}
    BY DvfsAssumption DEF Tasks, TypeOK
  <2>2. Min(wakes) \in Nat
    BY <2>1, LeastOfSet
  <2> QED BY <2>2, DvfsAssumption DEF IdleUntilDue
<1>2. UNCHANGED <<mode, period, taskWorstCaseComputeTime, taskDeadlines, d_i, c_lefti,
                  currentFrequencyLevel, clock, returned, phase, wake, running>>
  BY DEF IdleUntilDue, taskSet
<1> QED BY <1>1, <1>2 DEF TypeOK, BudgetWithinJob

\* Every step keeps the invariant, and a selection is sufficient.
LEMMA NextStep ==
  ASSUME BudgetInv, [Next]_vars
  PROVE  BudgetInv' /\ (LevelSufficient \/ UNCHANGED vars)
<1>1. CASE UNCHANGED vars
  BY <1>1 DEF vars, taskSet, BudgetInv, TypeOK, BudgetWithinJob
<1>2. CASE Setup
  BY <1>2, SetupStep DEF Setup, LevelSufficient
<1>3. CASE IdleUntilDue
  BY <1>3, IdleStep DEF IdleUntilDue, LevelSufficient
<1>4. CASE \E i \in Tasks : Start(i) \/ Complete(i)
  BY <1>4, StartStep, CompleteStep
<1> QED BY <1>1, <1>2, <1>3, <1>4 DEF Next, Failed, Stop

\* The invariant holds from the start.
LEMMA InitInv == Init => BudgetInv
<1> SUFFICES ASSUME Init PROVE BudgetInv
  OBVIOUS
<1>1. 0 \in Levels /\ period \in [Tasks -> PeriodChoices]
  BY DvfsAssumption DEF Init, Levels
<1>2. taskDeadlines \in [Tasks -> Nat]
  BY <1>1, DvfsAssumption DEF Init
<1> QED BY <1>1, <1>2 DEF Init, BudgetInv, TypeOK, BudgetWithinJob

LEMMA AlwaysBudgetInv == Spec => []BudgetInv
BY InitInv, NextStep, PTL DEF Spec

\* Every variable stays in its type, in runs of any length.
THEOREM TypeCorrect == Spec => []TypeOK
<1>1. BudgetInv => TypeOK
  BY DEF BudgetInv
<1> QED BY <1>1, AlwaysBudgetInv, PTL

\* However starts and completions follow one another, no task is allocated more
\* cycles than it may still need, nor more than its worst case.
THEOREM BudgetsKept == Spec => []BudgetWithinJob
<1>1. BudgetInv => BudgetWithinJob
  BY DEF BudgetInv
<1> QED BY <1>1, AlwaysBudgetInv, PTL

\* The level a call returns executes all allocated cycles before the next
\* deadline, unless that has passed or no level does.
THEOREM LevelsSuffice == Spec => LevelSuffices
<1>1. BudgetInv /\ [Next]_vars => LevelSufficient \/ UNCHANGED vars
  BY NextStep
<1> QED BY <1>1, AlwaysBudgetInv, PTL DEF Spec, LevelSuffices, LevelSufficient

=============================================================================
