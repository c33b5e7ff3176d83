---------------------------- MODULE DiggingProofs ----------------------------
(***************************************************************************)
(* A proof of what the three loops compute, exactly, for any calendar and  *)
(* any additions: the loops' results against their definitions.  What      *)
(* a loop adds up, the recursive function of the model, is guessed in      *)
(* closed form; a least argument for which the guess is wrong is refuted.  *)
(***************************************************************************)
EXTENDS Digging, FiniteSetTheorems, TLAPS

Calendar ==
    /\ today \in Nat
    /\ added \in [Days -> 0..MaxPerDay]
    /\ \A d \in Dates : d <= today + 1

-----------------------------------------------------------------------------
(* Least and largest numbers *)

LEMMA LeastIn ==
    ASSUME NEW S \in SUBSET Nat, S # {}
    PROVE  \E m \in S : \A y \in S : m <= y
<1>1. PICK m \in S : \A y \in S : ~(<<y, m>> \in OpToRel(<, Nat))
  BY NatLessThanWellFounded, WFMin
<1>2. \A y \in S : ~(y < m)
  BY <1>1 DEF OpToRel
<1> QED
  BY <1>2

LEMMA MaxIn ==
    ASSUME NEW n \in Nat, NEW S \in SUBSET (0..n), S # {}
    PROVE  Max(S) \in S /\ \A y \in S : y <= Max(S)
<1> DEFINE T == {k \in 0..n : n - k \in S}
<1>1. T \in SUBSET Nat
  OBVIOUS
<1>2. T # {}
  <2>1. PICK y \in S : TRUE
    OBVIOUS
  <2>2. n - y \in T
    <3>1. n - (n - y) = y /\ n - y \in 0..n
      OBVIOUS
    <3> QED
      BY <3>1
  <2> QED
    BY <2>2
<1>3. PICK k \in T : \A l \in T : k <= l
  <2> HIDE DEF T
  <2> QED
    BY <1>1, <1>2, LeastIn
<1>4. n - k \in S /\ \A y \in S : n - k >= y
  <2>1. \A y \in S : n - y \in T
    <3>1. \A y \in S : n - (n - y) = y /\ n - y \in 0..n
      OBVIOUS
    <3> QED
      BY <3>1
  <2> QED
    BY <1>3, <2>1
<1>5. \E x \in S : \A y \in S : x >= y
  BY <1>4
<1>6. Max(S) \in S /\ \A y \in S : Max(S) >= y
  BY <1>5 DEF Max
<1> QED
  BY <1>6

LEMMA IntervalSize ==
    ASSUME NEW a \in Nat, NEW b \in Nat, a <= b + 1
    PROVE  IsFiniteSet(a..b) /\ Cardinality(a..b) = b - a + 1
<1>1. /\ IsFiniteSet(a..b)
      /\ Cardinality(a..b) = IF a > b THEN 0 ELSE b - a + 1
  BY FS_Interval
<1>2. a > b => b - a + 1 = 0
  OBVIOUS
<1> QED
  BY <1>1, <1>2

LEMMA SmallerSize ==
    ASSUME NEW S, IsFiniteSet(S), NEW T, T \subseteq S
    PROVE  Cardinality(T) \in Nat /\ Cardinality(S) \in Nat /\ Cardinality(T) <= Cardinality(S)
BY FS_Subset, FS_CardinalityType

-----------------------------------------------------------------------------
(* The first loop *)

\* The last day before d without additions.
Gap(d) == Max({e \in 0..(d - 1) : e \notin Dates})

LEMMA DatesInNat ==
    ASSUME MaxDay \in Nat, MaxPerDay \in Nat, Calendar
    PROVE  Dates \subseteq 1..(MaxDay + 1) /\ 0 \notin Dates
BY DEF Dates, Days

LEMMA GapBefore ==
    ASSUME MaxDay \in Nat, MaxPerDay \in Nat, Calendar, NEW d \in Dates
    PROVE  /\ Gap(d) \in 0..(d - 1)
           /\ Gap(d) \notin Dates
           /\ (Gap(d) + 1)..d \subseteq Dates
<1> DEFINE S == {e \in 0..(d - 1) : e \notin Dates}
<1>1. d \in Nat \ {0}
  BY DatesInNat
<1>2. d - 1 \in Nat /\ S \in SUBSET (0..(d - 1)) /\ 0 \in S
  BY <1>1, DatesInNat
<1>3. Max(S) \in S /\ \A y \in S : y <= Max(S)
  BY <1>2, MaxIn
<1>4. Gap(d) = Max(S)
  BY DEF Gap
<1>5. ASSUME NEW e \in (Gap(d) + 1)..d PROVE e \in Dates
  <2>1. CASE e = d
    BY <2>1
  <2>2. CASE e # d
    <3>1. e \in 0..(d - 1) /\ ~(e <= Max(S))
      BY <1>1, <1>3, <1>4, <2>2
    <3> QED
      BY <1>3, <3>1
  <2> QED
    BY <2>1, <2>2
<1> QED
  BY <1>3, <1>4, <1>5

LEMMA LastBefore ==
    ASSUME MaxDay \in Nat, MaxPerDay \in Nat, Calendar, NEW d \in Dates, Before(d) # {}
    PROVE  /\ Max(Before(d)) \in Dates
           /\ Max(Before(d)) \in Nat
           /\ Max(Before(d)) < d
           /\ \A e \in Before(d) : e <= Max(Before(d))
<1>1. MaxDay + 1 \in Nat /\ Before(d) \in SUBSET (0..(MaxDay + 1))
  BY DatesInNat DEF Before
<1>2. Max(Before(d)) \in Before(d) /\ \A e \in Before(d) : e <= Max(Before(d))
  BY <1>1, MaxIn
<1>3. Max(Before(d)) \in Dates /\ Max(Before(d)) < d
  BY <1>2 DEF Before
<1> QED
  BY <1>2, <1>3, DatesInNat

\* The length of the run that ends in d is what the loop makes of it.
LEMMA RunStep ==
    ASSUME MaxDay \in Nat, MaxPerDay \in Nat, Calendar, NEW d \in Dates
    PROVE  d - Gap(d) = IF Before(d) # {} /\ Consecutive(Max(Before(d)), d)
                        THEN Max(Before(d)) - Gap(Max(Before(d))) + 1 ELSE 1
<1>1. d \in Nat \ {0} /\ d <= MaxDay + 1
  BY DatesInNat
<1>3. CASE d - 1 \in Dates
  <2>1. d - 1 \in Before(d)
    BY <1>1, <1>3 DEF Before
  <2>2. Max(Before(d)) \in Nat /\ Max(Before(d)) < d /\ d - 1 <= Max(Before(d))
    BY <2>1, LastBefore
  <2>4. Max(Before(d)) = d - 1
    BY <1>1, <2>2
  <2>5. {e \in 0..(d - 1) : e \notin Dates} = {e \in 0..((d - 1) - 1) : e \notin Dates}
    BY <1>1, <1>3
  <2>6. Gap(d) = Gap(d - 1)
    BY <2>5 DEF Gap
  <2>7. Gap(d) \in Nat
    BY <1>1, GapBefore
  <2> QED
    BY <1>1, <2>1, <2>4, <2>6, <2>7 DEF Consecutive
<1>4. CASE d - 1 \notin Dates
  <2>1. Gap(d) = d - 1
    <3>1. Gap(d) \in 0..(d - 1) /\ (Gap(d) + 1)..d \subseteq Dates
      BY GapBefore
    <3>2. ~(Gap(d) < d - 1)
      BY <1>1, <1>4, <3>1
    <3> QED
      BY <1>1, <3>1, <3>2
  <2>2. ~(Before(d) # {} /\ Consecutive(Max(Before(d)), d))
    <3> SUFFICES ASSUME Before(d) # {}, Consecutive(Max(Before(d)), d) PROVE FALSE
      OBVIOUS
    <3>1. Max(Before(d)) \in Dates /\ Max(Before(d)) \in Nat /\ Max(Before(d)) < d
      BY LastBefore
    <3>2. d - Max(Before(d)) <= 1
      BY DEF Consecutive
    <3>3. Max(Before(d)) = d - 1
      BY <1>1, <3>1, <3>2
    <3> QED
      BY <1>4, <3>1, <3>3
  <2> QED
    BY <1>1, <2>1, <2>2
<1> QED
  BY <1>3, <1>4

\* The equation that RunTo is defined by has a solution, hence RunTo solves it.
LEMMA RunToDef ==
    ASSUME MaxDay \in Nat, MaxPerDay \in Nat, Calendar
    PROVE  \A d \in Dates :
              RunTo[d] = IF Before(d) # {} /\ Consecutive(Max(Before(d)), d)
                         THEN RunTo[Max(Before(d))] + 1 ELSE 1
<1> DEFINE f == [d \in Dates |-> d - Gap(d)]
<1>1. ASSUME NEW d \in Dates
      PROVE  f[d] = IF Before(d) # {} /\ Consecutive(Max(Before(d)), d)
                    THEN f[Max(Before(d))] + 1 ELSE 1
  <2>1. f[d] = d - Gap(d)
    OBVIOUS
  <2>2. Before(d) # {} => Max(Before(d)) \in Dates
    BY LastBefore
  <2>3. Before(d) # {} => f[Max(Before(d))] = Max(Before(d)) - Gap(Max(Before(d)))
    BY <2>2
  <2> HIDE DEF f
  <2> QED
    BY <2>1, <2>3, RunStep
<1>2. f = [d \in Dates |-> IF Before(d) # {} /\ Consecutive(Max(Before(d)), d)
                           THEN f[Max(Before(d))] + 1 ELSE 1]
  <2>1. \A d \in Dates : f[d] = IF Before(d) # {} /\ Consecutive(Max(Before(d)), d)
                                THEN f[Max(Before(d))] + 1 ELSE 1
    BY <1>1
  <2>2. f = [d \in Dates |-> f[d]]
    OBVIOUS
  <2> HIDE DEF f
  <2> QED
    BY <2>1, <2>2, Zenon
<1>3. RunTo = [d \in Dates |-> IF Before(d) # {} /\ Consecutive(Max(Before(d)), d)
                               THEN RunTo[Max(Before(d))] + 1 ELSE 1]
  <2> HIDE DEF f
  <2> QED
    BY <1>2, Zenon DEF RunTo
<1> QED
  BY <1>3, Zenon

LEMMA RunToIsLength ==
    ASSUME MaxDay \in Nat, MaxPerDay \in Nat, Calendar
    PROVE  \A d \in Dates : RunTo[d] = d - Gap(d)
<1> DEFINE Wrong == {d \in Dates : RunTo[d] # d - Gap(d)}
<1> SUFFICES ASSUME Wrong # {} PROVE FALSE
  OBVIOUS
<1>1. Wrong \in SUBSET Nat
  BY DatesInNat
<1>2. PICK d \in Wrong : \A e \in Wrong : d <= e
  <2> HIDE DEF Wrong
  <2> QED
    BY <1>1, LeastIn
<1>3. d \in Dates
  OBVIOUS
<1>4. CASE Before(d) # {} /\ Consecutive(Max(Before(d)), d)
  <2>3. Max(Before(d)) \in Dates /\ Max(Before(d)) < d
    BY <1>3, <1>4, LastBefore
  <2>4. Max(Before(d)) \notin Wrong
    BY <1>1, <1>2, <2>3, DatesInNat
  <2>5. RunTo[Max(Before(d))] = Max(Before(d)) - Gap(Max(Before(d)))
    BY <2>3, <2>4
  <2> QED
    BY <1>3, <1>4, <2>5, RunToDef, RunStep
<1>5. CASE ~(Before(d) # {} /\ Consecutive(Max(Before(d)), d))
  BY <1>3, <1>5, RunToDef, RunStep
<1> QED
  BY <1>4, <1>5

\* The longest of the loop's runs is the longest run there is.
LEMMA LongestIsRight ==
    ASSUME MaxDay \in Nat, MaxPerDay \in Nat, Calendar
    PROVE  Longest = Max({Length(r) : r \in Runs} \cup {0})
<1> DEFINE A == {RunTo[d] : d \in Dates} \cup {0}
           B == {Length(r) : r \in Runs} \cup {0}
<1>1. ASSUME NEW d \in Dates PROVE RunTo[d] \in B
  <2>1. Gap(d) \in 0..(d - 1) /\ (Gap(d) + 1)..d \subseteq Dates /\ RunTo[d] = d - Gap(d)
    BY GapBefore, RunToIsLength
  <2>2. <<Gap(d) + 1, d>> \in Runs
    BY <2>1, DatesInNat DEF Runs, Dates, Days
  <2>3. Length(<<Gap(d) + 1, d>>) = RunTo[d]
    BY <2>1, DatesInNat DEF Length
  <2> QED
    BY <2>2, <2>3
<1>2. ASSUME NEW r \in Runs
      PROVE  Length(r) \in 0..(MaxDay + 1) /\ r[2] \in Dates /\ Length(r) <= RunTo[r[2]]
  <2>1. /\ r[1] \in 1..(MaxDay + 1) /\ r[2] \in 1..(MaxDay + 1) /\ r[1] <= r[2]
        /\ r[1]..r[2] \subseteq Dates
    BY DEF Runs, Dates, Days
  <2>2. r[2] \in Dates /\ Length(r) \in 0..(MaxDay + 1)
    BY <2>1 DEF Length
  <2>3. Gap(r[2]) \in 0..(r[2] - 1) /\ Gap(r[2]) \notin Dates /\ RunTo[r[2]] = r[2] - Gap(r[2])
    BY <2>2, GapBefore, RunToIsLength
  <2>4. Gap(r[2]) < r[1]
    BY <2>1, <2>3
  <2> QED
    BY <2>1, <2>2, <2>3, <2>4 DEF Length
<1>3. B \in SUBSET (0..(MaxDay + 1)) /\ MaxDay + 1 \in Nat
  BY <1>2
<1>4. A \subseteq B
  <2> HIDE DEF B
  <2>1. 0 \in B
    BY DEF B
  <2> QED
    BY <1>1, <2>1
<1>5. \A b \in B : \E a \in A : b <= a
  <2>1. ASSUME NEW r \in Runs PROVE \E a \in A : Length(r) <= a
    BY <1>2
  <2> QED
    BY <2>1
<1> HIDE DEF A, B
<1>6. /\ Max(A) \in A /\ \A a \in A : a <= Max(A)
      /\ Max(B) \in B /\ \A b \in B : b <= Max(B)
  <2>1. A # {} /\ B # {}
    BY DEF A, B
  <2>2. A \in SUBSET (0..(MaxDay + 1))
    BY <1>3, <1>4
  <2> QED
    BY <1>3, <2>1, <2>2, MaxIn
<1>7. Max(A) = Max(B)
  <2>1. Max(A) <= Max(B)
    BY <1>4, <1>6
  <2>2. PICK a \in A : Max(B) <= a
    BY <1>5, <1>6
  <2>3. A \subseteq Nat /\ B \subseteq Nat
    BY <1>3, <1>4
  <2>4. a <= Max(A) /\ Max(A) \in Nat /\ Max(B) \in Nat
    BY <1>6, <2>3
  <2>5. a \in Nat
    BY <2>3
  <2>6. Max(B) <= Max(A)
    BY <2>2, <2>4, <2>5
  <2> QED
    BY <2>1, <2>4, <2>6
<1> QED
  BY <1>7 DEF A, B, Longest

-----------------------------------------------------------------------------
(* The second loop *)

LEMMA Countable ==
    ASSUME MaxDay \in Nat, MaxPerDay \in Nat, Calendar
    PROVE  /\ IsFiniteSet(Dates)
           /\ IsFiniteSet(CurrentRun)
           /\ Current \in Nat
           /\ \A d \in Dates : IsFiniteSet(After(d)) /\ Cardinality(After(d)) \in Nat
<1>1. IsFiniteSet(Dates)
  <2>1. MaxDay + 1 \in Nat
    OBVIOUS
  <2>2. IsFiniteSet(1..(MaxDay + 1))
    BY <2>1, FS_Interval
  <2> QED
    BY <2>2, DatesInNat, FS_Subset
<1>2. IsFiniteSet(CurrentRun)
  BY <1>1, FS_Subset DEF CurrentRun
<1>3. \A d \in Dates : IsFiniteSet(After(d))
  BY <1>1, FS_Subset DEF After
<1> QED
  BY <1>1, <1>2, <1>3, FS_CardinalityType DEF Current

\* A date is in its place when it is no more days old than there are dates
\* after it, and one.
LEMMA InRunMeans ==
    ASSUME MaxDay \in Nat, MaxPerDay \in Nat, Calendar, NEW d \in Dates
    PROVE  InRun(d) <=> today - d <= Cardinality(After(d)) + 1
<1>1. d \in Nat /\ today \in Nat /\ Cardinality(After(d)) \in Nat
  BY DatesInNat, Countable DEF Calendar
<1> QED
  BY <1>1 DEF InRun

\* The dates from k days ago on.
Recent(k) == {d \in Dates : d >= today - k}

\* The days from then to tomorrow are dates or idle.
LEMMA IdleMeans ==
    ASSUME MaxDay \in Nat, MaxPerDay \in Nat, Calendar, NEW k \in Nat
    PROVE  /\ IsFiniteSet(Recent(k)) /\ Cardinality(Recent(k)) \in Nat
           /\ Cardinality(Idle(k)) <= 2 <=> Cardinality(Recent(k)) >= k
<1> DEFINE I == (today - k)..(today + 1)
<1>1. today \in Nat
  BY DEF Calendar
<1>2. IsFiniteSet(I) /\ Cardinality(I) = k + 2
  <2>1. today - k \in Int /\ today + 1 \in Int /\ ~(today - k > today + 1)
    BY <1>1
  <2>2. (today + 1) - (today - k) + 1 = k + 2
    BY <1>1
  <2> QED
    BY <2>1, <2>2, FS_Interval
<1>3. Recent(k) \subseteq I /\ Idle(k) = I \ Recent(k)
  <2>1. \A d \in Dates : d \in Nat /\ d <= today + 1
    BY DatesInNat DEF Calendar
  <2> QED
    BY <1>1, <2>1 DEF Recent, Idle
<1>4. /\ IsFiniteSet(Recent(k)) /\ Cardinality(Recent(k)) \in Nat
      /\ IsFiniteSet(Idle(k)) /\ Cardinality(Idle(k)) \in Nat
  <2> HIDE DEF I
  <2>1. Recent(k) \subseteq I /\ Idle(k) \subseteq I
    BY <1>3
  <2> QED
    BY <1>2, <2>1, FS_Subset, FS_CardinalityType
<1>5. Cardinality(Idle(k)) = Cardinality(I) - Cardinality(I \cap Recent(k))
  <2> HIDE DEF I
  <2> QED
    BY <1>2, <1>3, FS_Difference
<1>6. I \cap Recent(k) = Recent(k)
  BY <1>3
<1>7. Cardinality(Idle(k)) = (k + 2) - Cardinality(Recent(k))
  BY <1>2, <1>5, <1>6
<1> QED
  BY <1>4, <1>7

\* What is after a date of the current run is of it too.
LEMMA CurrentRunGoesOn ==
    ASSUME MaxDay \in Nat, MaxPerDay \in Nat, Calendar, NEW d \in CurrentRun
    PROVE  After(d) \subseteq CurrentRun
<1> SUFFICES ASSUME NEW e \in After(d) PROVE e \in CurrentRun
  OBVIOUS
<1>1. d \in Dates /\ (\A f \in After(d) : InRun(f))
  BY DEF CurrentRun
<1>2. e \in Dates /\ e > d
  BY DEF After
<1>3. After(e) \subseteq After(d)
  BY <1>1, <1>2, DatesInNat DEF After
<1> QED
  BY <1>1, <1>2, <1>3 DEF CurrentRun

\* The latest date of a set that has any.
LEMMA LatestOf ==
    ASSUME MaxDay \in Nat, MaxPerDay \in Nat, Calendar, NEW S \in SUBSET Dates, S # {}
    PROVE  \E d \in S : S \cap After(d) = {}
<1>1. MaxDay + 1 \in Nat /\ S \in SUBSET (0..(MaxDay + 1))
  BY DatesInNat
<1>2. PICK m \in S : \A e \in S : e <= m
  BY <1>1, MaxIn
<1>3. \A e \in S : e \in Nat
  BY DatesInNat
<1>4. \A e \in S : ~(e > m)
  BY <1>2, <1>3
<1> QED
  BY <1>2, <1>4 DEF After

\* The current run is within reach: its first date from k days ago back would be
\* out of its place, had fewer than k dates come since.
LEMMA CurrentIsInReach ==
    ASSUME MaxDay \in Nat, MaxPerDay \in Nat, Calendar
    PROVE  Current \in Reach
<1>1. /\ IsFiniteSet(Dates) /\ IsFiniteSet(CurrentRun) /\ CurrentRun \subseteq Dates
      /\ Current = Cardinality(CurrentRun) /\ Current \in Nat
  BY Countable DEF CurrentRun, Current
<1>2. Current \in 0..(MaxDay + 1)
  <2>1. 1 \in Nat /\ MaxDay + 1 \in Nat /\ 1 <= (MaxDay + 1) + 1 /\ (MaxDay + 1) - 1 + 1 = MaxDay + 1
    OBVIOUS
  <2>2. IsFiniteSet(1..(MaxDay + 1)) /\ Cardinality(1..(MaxDay + 1)) = MaxDay + 1
    BY <2>1, IntervalSize
  <2>3. CurrentRun \subseteq 1..(MaxDay + 1)
    BY <1>1, DatesInNat
  <2>4. Cardinality(CurrentRun) <= MaxDay + 1
    BY <2>2, <2>3, SmallerSize
  <2> QED
    BY <1>1, <2>4
<1>3. ASSUME NEW k \in 1..Current PROVE Cardinality(Idle(k)) <= 2
  <2>1. k \in Nat /\ k <= Current
    BY <1>1
  <2>2. SUFFICES ASSUME Cardinality(Recent(k)) < k PROVE FALSE
    <3>1. Cardinality(Recent(k)) \in Nat
      BY <2>1, IdleMeans
    <3> QED
      BY <2>1, <2>2, <3>1, IdleMeans
  <2>3. IsFiniteSet(Recent(k)) /\ Cardinality(Recent(k)) \in Nat
    BY <2>1, IdleMeans
  <2>4. ~(CurrentRun \subseteq Recent(k))
    <3> SUFFICES ASSUME CurrentRun \subseteq Recent(k) PROVE FALSE
      OBVIOUS
    <3>1. Cardinality(CurrentRun) <= Cardinality(Recent(k))
      BY <2>3, SmallerSize
    <3> QED
      BY <1>1, <2>1, <2>2, <2>3, <3>1
  <2>5. PICK d \in CurrentRun \ Recent(k) : (CurrentRun \ Recent(k)) \cap After(d) = {}
    BY <1>1, <2>4, LatestOf
  <2>6. d \in Dates /\ d \in Nat /\ today \in Nat /\ today - d > k
    BY <1>1, <2>1, <2>5, DatesInNat DEF Recent, Calendar
  <2>7. After(d) \subseteq Recent(k)
    BY <2>5, CurrentRunGoesOn
  <2>8. Cardinality(After(d)) \in Nat /\ Cardinality(After(d)) <= Cardinality(Recent(k))
    BY <2>3, <2>7, SmallerSize
  <2>9. today - d <= Cardinality(After(d)) + 1
    <3>1. InRun(d)
      BY <2>5 DEF CurrentRun
    <3> QED
      BY <2>6, <3>1, InRunMeans
  <2> QED
    BY <2>1, <2>2, <2>3, <2>6, <2>8, <2>9
<1> QED
  BY <1>2, <1>3 DEF Reach

\* Nothing reaches further: one more date in reach would be in its place.
LEMMA ReachIsCurrent ==
    ASSUME MaxDay \in Nat, MaxPerDay \in Nat, Calendar, NEW n \in Reach
    PROVE  n <= Current
<1>1. /\ IsFiniteSet(CurrentRun) /\ CurrentRun \subseteq Dates
      /\ Current = Cardinality(CurrentRun) /\ Current \in Nat
  BY Countable DEF CurrentRun, Current
<1>2. n \in Nat /\ \A k \in 1..n : Cardinality(Idle(k)) <= 2
  BY DEF Reach
<1> SUFFICES ASSUME n > Current PROVE FALSE
  BY <1>1, <1>2
<1> DEFINE k == Current + 1
<1>3. k \in Nat /\ k \in 1..n
  BY <1>1, <1>2
<1>4. IsFiniteSet(Recent(k)) /\ Cardinality(Recent(k)) \in Nat /\ Cardinality(Recent(k)) >= k
  <2> HIDE DEF k
  <2> QED
    BY <1>2, <1>3, IdleMeans
<1>5. ~(Recent(k) \subseteq CurrentRun)
  <2> SUFFICES ASSUME Recent(k) \subseteq CurrentRun PROVE FALSE
    OBVIOUS
  <2>1. Cardinality(Recent(k)) <= Cardinality(CurrentRun)
    BY <1>1, SmallerSize
  <2> QED
    BY <1>1, <1>4, <2>1
<1>6. PICK d \in Recent(k) \ CurrentRun : (Recent(k) \ CurrentRun) \cap After(d) = {}
  <2>1. Recent(k) \ CurrentRun \in SUBSET Dates
    BY DEF Recent
  <2> HIDE DEF k
  <2> QED
    BY <1>5, <2>1, LatestOf
<1>7. d \in Dates /\ d \in Nat /\ today \in Nat /\ today - d <= k
  BY <1>1, <1>6, DatesInNat DEF Recent, Calendar
<1>8. After(d) \subseteq CurrentRun
  <2>1. After(d) \subseteq Recent(k)
    <3>1. \A e \in After(d) : e \in Dates /\ e \in Nat /\ e > d
      BY DatesInNat DEF After
    <3> QED
      BY <1>3, <1>7, <3>1 DEF Recent
  <2> QED
    BY <1>6, <2>1
<1>9. ~InRun(d)
  BY <1>6, <1>7, <1>8 DEF CurrentRun
<1>10. CurrentRun \subseteq After(d)
  <2> SUFFICES ASSUME NEW e \in CurrentRun PROVE e \in After(d)
    OBVIOUS
  <2>1. e \in Dates /\ e \in Nat /\ e # d
    BY <1>1, <1>6, DatesInNat
  <2>2. d \notin After(e)
    BY <1>6, CurrentRunGoesOn
  <2> QED
    BY <1>7, <2>1, <2>2 DEF After
<1>11. Cardinality(After(d)) \in Nat /\ Current <= Cardinality(After(d))
  <2>1. IsFiniteSet(After(d))
    BY <1>7, Countable
  <2> QED
    BY <1>1, <1>10, <2>1, SmallerSize
<1>12. ~(today - d <= Cardinality(After(d)) + 1)
  BY <1>7, <1>9, InRunMeans
<1> QED
  BY <1>1, <1>7, <1>11, <1>12

LEMMA CurrentIsRight ==
    ASSUME MaxDay \in Nat, MaxPerDay \in Nat, Calendar
    PROVE  Current = Max(Reach)
<1>1. MaxDay + 1 \in Nat /\ Reach \in SUBSET (0..(MaxDay + 1))
  BY DEF Reach
<1>2. Current \in Reach
  BY CurrentIsInReach
<1>3. Max(Reach) \in Reach /\ \A n \in Reach : n <= Max(Reach)
  BY <1>1, <1>2, MaxIn
<1>4. Current <= Max(Reach) /\ Max(Reach) <= Current
  BY <1>2, <1>3, ReachIsCurrent
<1>5. Current \in Nat /\ Max(Reach) \in Nat
  <2>1. \A n \in Reach : n \in Nat
    BY <1>1
  <2> QED
    BY <1>2, <1>3, <2>1, Zenon
<1> QED
  BY <1>4, <1>5

-----------------------------------------------------------------------------
(* The best week *)

\* The tracks of the days of S, each a day and a number.
Tracks(S) == {p \in S \X (1..MaxPerDay) : p[2] <= added[p[1]]}

LEMMA TracksOf ==
    ASSUME MaxDay \in Nat, MaxPerDay \in Nat, Calendar, NEW S \in SUBSET Days
    PROVE  IsFiniteSet(S) /\ IsFiniteSet(Tracks(S)) /\ Cardinality(Tracks(S)) \in Nat
<1>1. IsFiniteSet(Days)
  <2>1. MaxDay + 1 \in Nat
    OBVIOUS
  <2> QED
    BY <2>1, FS_Interval DEF Days
<1>2. IsFiniteSet(S)
  BY <1>1, FS_Subset
<1>3. IsFiniteSet(1..MaxPerDay)
  BY FS_Interval
<1>4. IsFiniteSet(S \X (1..MaxPerDay))
  BY <1>2, <1>3, FS_Product
<1>5. IsFiniteSet(Tracks(S))
  BY <1>4, FS_Subset DEF Tracks
<1> QED
  BY <1>2, <1>5, FS_CardinalityType

LEMMA TracksOfADay ==
    ASSUME MaxDay \in Nat, MaxPerDay \in Nat, Calendar, NEW x \in Days
    PROVE  Cardinality(Tracks({x})) = added[x]
<1>1. added[x] \in 0..MaxPerDay
  BY DEF Calendar
<1>2. Tracks({x}) = {x} \X (1..added[x])
  BY <1>1 DEF Tracks
<1>3. IsFiniteSet({x}) /\ Cardinality({x}) = 1
  BY FS_Singleton
<1>4. IsFiniteSet(1..added[x]) /\ Cardinality(1..added[x]) = added[x]
  <2>1. 1 \in Nat /\ added[x] \in Nat /\ 1 <= added[x] + 1 /\ added[x] - 1 + 1 = added[x]
    BY <1>1
  <2> QED
    BY <2>1, IntervalSize
<1>5. Cardinality({x} \X (1..added[x])) = Cardinality({x}) * Cardinality(1..added[x])
  BY <1>3, <1>4, FS_Product, Zenon
<1>6. 1 * added[x] = added[x]
  BY <1>1
<1> QED
  BY <1>2, <1>3, <1>4, <1>5, <1>6, Zenon

LEMMA TracksOfMore ==
    ASSUME MaxDay \in Nat, MaxPerDay \in Nat, Calendar, NEW S \in SUBSET Days, NEW x \in S
    PROVE  Cardinality(Tracks(S)) = added[x] + Cardinality(Tracks(S \ {x}))
<1>1. Tracks(S) = Tracks({x}) \cup Tracks(S \ {x})
  BY DEF Tracks
<1>2. Tracks({x}) \cap Tracks(S \ {x}) = {}
  BY DEF Tracks
<1>3. /\ IsFiniteSet(Tracks({x})) /\ IsFiniteSet(Tracks(S \ {x}))
      /\ Cardinality(Tracks({x})) \in Nat /\ Cardinality(Tracks(S \ {x})) \in Nat
  BY TracksOf
<1>4. Cardinality(Tracks({x}) \cup Tracks(S \ {x})) =
        Cardinality(Tracks({x})) + Cardinality(Tracks(S \ {x}))
          - Cardinality(Tracks({x}) \cap Tracks(S \ {x}))
  BY <1>3, FS_Union
<1>5. Cardinality(Tracks({x}) \cap Tracks(S \ {x})) = 0
  BY <1>2, FS_EmptySet
<1>6. Cardinality(Tracks({x})) = added[x]
  BY TracksOfADay
<1>7. Cardinality(Tracks({x}) \cup Tracks(S \ {x})) =
        Cardinality(Tracks({x})) + Cardinality(Tracks(S \ {x}))
  BY <1>3, <1>4, <1>5
<1> QED
  BY <1>1, <1>6, <1>7, Zenon

\* The sum of the days' additions is the number of their tracks.
LEMMA SumIsTracks ==
    ASSUME MaxDay \in Nat, MaxPerDay \in Nat, Calendar, NEW S \in SUBSET Days
    PROVE  SumFunctionOnSet(added, S) = Cardinality(Tracks(S))
<1> DEFINE x(s) == CHOOSE y \in s : TRUE
           f == [s \in SUBSET S |-> Cardinality(Tracks(s))]
           g == CHOOSE h : h = [s \in SUBSET S |->
                                  IF s = {} THEN 0 ELSE added[x(s)] + h[s \ {x(s)}]]
<1>1. SumFunctionOnSet(added, S) = g[S]
  BY Zenon DEF SumFunctionOnSet, FoldFunctionOnSet, MapThenFoldSet
<1>2. \A s \in SUBSET S : s # {} => x(s) \in s
  OBVIOUS
<1> HIDE DEF x
<1>3. ASSUME NEW s \in SUBSET S
      PROVE  f[s] = IF s = {} THEN 0 ELSE added[x(s)] + f[s \ {x(s)}]
  <2>1. CASE s = {}
    <3>1. Tracks(s) = {}
      BY <2>1 DEF Tracks
    <3> QED
      BY <2>1, <3>1, FS_EmptySet
  <2>2. CASE s # {}
    <3>1. x(s) \in s /\ s \in SUBSET Days
      BY <1>2, <2>2
    <3>2. Cardinality(Tracks(s)) = added[x(s)] + Cardinality(Tracks(s \ {x(s)}))
      BY <3>1, TracksOfMore
    <3> QED
      BY <2>2, <3>2
  <2> QED
    BY <2>1, <2>2
<1>4. f = [s \in SUBSET S |-> IF s = {} THEN 0 ELSE added[x(s)] + f[s \ {x(s)}]]
  <2>1. f = [s \in SUBSET S |-> f[s]]
    OBVIOUS
  <2> HIDE DEF f
  <2> QED
    BY <1>3, <2>1, Zenon
<1>5. g = [s \in SUBSET S |-> IF s = {} THEN 0 ELSE added[x(s)] + g[s \ {x(s)}]]
  <2> HIDE DEF f
  <2> QED
    BY <1>4, Zenon
<1>6. \A s \in SUBSET S : g[s] = IF s = {} THEN 0 ELSE added[x(s)] + g[s \ {x(s)}]
  <2> HIDE DEF g
  <2> QED
    BY <1>5, Zenon
<1> HIDE DEF f, g
<1> DEFINE Wrong == {s \in SUBSET S : g[s] # f[s]}
<1>7. Wrong = {}
  <2> SUFFICES ASSUME Wrong # {} PROVE FALSE
    OBVIOUS
  <2>1. Wrong \subseteq FiniteSubsetsOf(S)
    BY TracksOf DEF FiniteSubsetsOf
  <2>2. PICK s \in Wrong : \A t \in Wrong : ~(<<t, s>> \in StrictSubsetOrdering(S))
    <3> HIDE DEF Wrong
    <3> QED
      BY <2>1, FS_StrictSubsetOrderingWellFounded, WFMin
  <2>3. s # {}
    BY <1>3, <1>6
  <2>4. x(s) \in s /\ s \ {x(s)} \in SUBSET S
    BY <1>2, <2>3
  <2>5. <<s \ {x(s)}, s>> \in StrictSubsetOrdering(S)
    BY <2>4 DEF StrictSubsetOrdering
  <2>6. g[s \ {x(s)}] = f[s \ {x(s)}]
    BY <2>2, <2>4, <2>5
  <2> QED
    BY <1>3, <1>6, <2>3, <2>6
<1>8. g[S] = f[S]
  BY <1>7
<1> QED
  BY <1>1, <1>8 DEF f

LEMMA SameMax ==
    ASSUME NEW n \in Nat, NEW A \in SUBSET (0..n), NEW B \in SUBSET (0..n), A # {}, B # {},
           \A a \in A : \E b \in B : a <= b,
           \A b \in B : \E a \in A : b <= a
    PROVE  Max(A) = Max(B)
<1>1. /\ Max(A) \in A /\ \A a \in A : a <= Max(A)
      /\ Max(B) \in B /\ \A b \in B : b <= Max(B)
  BY MaxIn
<1>2. PICK b \in B : Max(A) <= b
  BY <1>1
<1>3. PICK a \in A : Max(B) <= a
  BY <1>1
<1>4. a <= Max(A) /\ b <= Max(B)
  BY <1>1
<1>5. a \in Nat /\ b \in Nat /\ Max(A) \in Nat /\ Max(B) \in Nat
  <2>1. (\A x \in A : x \in Nat) /\ (\A x \in B : x \in Nat)
    OBVIOUS
  <2> QED
    BY <1>1, <2>1, Zenon
<1> QED
  BY <1>2, <1>3, <1>4, <1>5

\* Eight days that have any date have no more than those from their first date on.
LEMMA EightFromADate ==
    ASSUME MaxDay \in Nat, MaxPerDay \in Nat, Calendar, NEW d \in Days,
           NEW e \in Dates, e \in d..(d + 7),
           \A y \in Dates : y \in d..(d + 7) => e <= y
    PROVE  EightDays(d) <= WeekFrom(e)
<1> DEFINE Eight == {y \in Days : y \in d..(d + 7)}
           Week == {y \in Days : y >= e /\ y - e <= 7}
<1>1. Tracks(Eight) \subseteq Tracks(Week)
  <2>1. \A y \in Eight : added[y] > 0 => y \in Week
    BY DatesInNat DEF Dates, Days
  <2>2. \A p \in Tracks(Eight) : added[p[1]] > 0
    BY DEF Tracks, Calendar
  <2> QED
    BY <2>1, <2>2 DEF Tracks
<1>2. EightDays(d) = Cardinality(Tracks(Eight))
  BY SumIsTracks DEF EightDays
<1>3. WeekFrom(e) = Cardinality(Tracks(Week)) /\ IsFiniteSet(Tracks(Week))
  BY SumIsTracks, TracksOf DEF WeekFrom
<1> QED
  BY <1>1, <1>2, <1>3, SmallerSize

LEMMA NoDateNoTracks ==
    ASSUME MaxDay \in Nat, MaxPerDay \in Nat, Calendar, NEW d \in Days,
           \A y \in Dates : y \notin d..(d + 7)
    PROVE  EightDays(d) = 0
<1> DEFINE Eight == {y \in Days : y \in d..(d + 7)}
<1>1. \A y \in Eight : added[y] = 0
  BY DEF Dates, Calendar
<1>2. Tracks(Eight) = {}
  BY <1>1 DEF Tracks
<1>3. EightDays(d) = Cardinality(Tracks(Eight))
  BY SumIsTracks DEF EightDays
<1> QED
  BY <1>2, <1>3, FS_EmptySet

LEMMA BestWeekIsRight ==
    ASSUME MaxDay \in Nat, MaxPerDay \in Nat, Calendar
    PROVE  BestWeek = Max({EightDays(d) : d \in Days})
<1> DEFINE W == {WeekFrom(e) : e \in Dates} \cup {0}
           E == {EightDays(d) : d \in Days}
           n == Cardinality(Tracks(Days))
<1>1. n \in Nat /\ IsFiniteSet(Tracks(Days))
  BY TracksOf
<1>2. ASSUME NEW S \in SUBSET Days
      PROVE  SumFunctionOnSet(added, S) \in 0..n
  <2>1. Tracks(S) \subseteq Tracks(Days)
    BY DEF Tracks
  <2>2. Cardinality(Tracks(S)) \in Nat /\ Cardinality(Tracks(S)) <= n
    BY <1>1, <2>1, SmallerSize
  <2> QED
    BY <1>1, <2>2, SumIsTracks
<1>3. W \in SUBSET (0..n) /\ W # {}
  <2>1. \A e \in Dates : WeekFrom(e) \in 0..n
    BY <1>2 DEF WeekFrom
  <2> HIDE DEF n
  <2> QED
    BY <1>1, <2>1
<1>4. E \in SUBSET (0..n) /\ E # {}
  <2>1. \A d \in Days : EightDays(d) \in 0..n
    BY <1>2 DEF EightDays
  <2>2. 1 \in Days
    BY DEF Days
  <2> HIDE DEF n
  <2> QED
    BY <2>1, <2>2
<1>5. ASSUME NEW w \in W PROVE \E x \in E : w <= x
  <2>1. CASE w = 0
    <3>1. PICK x \in E : TRUE
      BY <1>4
    <3>2. x \in 0..n
      BY <1>4, <3>1
    <3>3. 0 <= x
      <4> HIDE DEF n, E
      <4> QED
        BY <1>1, <3>2
    <3> QED
      BY <2>1, <3>1, <3>3
  <2>2. ASSUME NEW e \in Dates, w = WeekFrom(e) PROVE \E x \in E : w <= x
    <3>1. e \in Days /\ e \in Nat
      BY DatesInNat DEF Dates
    <3>2. {y \in Days : y >= e /\ y - e <= 7} = {y \in Days : y \in e..(e + 7)}
      BY <3>1 DEF Days
    <3>3. w = EightDays(e)
      BY <2>2, <3>2 DEF WeekFrom, EightDays
    <3>4. w \in 0..n
      BY <1>3
    <3>5. w <= w
      <4> HIDE DEF n, W
      <4> QED
        BY <1>1, <3>4
    <3> QED
      BY <3>1, <3>3, <3>5
  <2> QED
    BY <2>1, <2>2
<1>6. ASSUME NEW d \in Days PROVE \E w \in W : EightDays(d) <= w
  <2> DEFINE S == {y \in Dates : y \in d..(d + 7)}
  <2>1. CASE S = {}
    <3>1. EightDays(d) = 0
      BY <2>1, NoDateNoTracks
    <3> QED
      BY <3>1
  <2>2. CASE S # {}
    <3>1. S \in SUBSET Nat
      BY DatesInNat
    <3>2. PICK e \in S : \A y \in S : e <= y
      <4> HIDE DEF S
      <4> QED
        BY <2>2, <3>1, LeastIn
    <3>3. EightDays(d) <= WeekFrom(e)
      BY <3>2, EightFromADate
    <3> QED
      BY <3>2, <3>3
  <2> QED
    BY <2>1, <2>2
<1>7. Max(W) = Max(E)
  <2>1. \A x \in E : \E w \in W : x <= w
    BY <1>6
  <2> HIDE DEF W, E, n
  <2> QED
    BY <1>1, <1>3, <1>4, <1>5, <2>1, SameMax
<1> QED
  BY <1>7 DEF BestWeek

-----------------------------------------------------------------------------

LEMMA CalendarStep == ASSUME MaxPerDay \in Nat, Calendar, [Next]_vars PROVE Calendar'
<1>1. today \in Nat /\ added \in [Days -> 0..MaxPerDay] /\ (\A d \in Dates : d <= today + 1)
  BY DEF Calendar
<1>2. CASE Midnight
  <2>1. today' = today + 1 /\ added' = added /\ Dates' = Dates
    BY <1>2 DEF Midnight, Dates, Days
  <2>2. \A d \in Dates : d \in Int
    BY DEF Dates, Days
  <2>3. \A d \in Dates : d <= today' + 1
    BY <1>1, <2>1, <2>2
  <2> QED
    BY <1>1, <2>1, <2>3 DEF Calendar
<1>3. CASE \E d \in Days : AddTrack(d)
  <2>1. PICK d \in Days : AddTrack(d)
    BY <1>3
  <2>2. today' = today /\ added' = [added EXCEPT ![d] = @ + 1] /\ d <= today + 1
    BY <2>1 DEF AddTrack
  <2>3. added' \in [Days -> 0..MaxPerDay]
    BY <1>1, <2>1 DEF AddTrack
  <2>4. Dates' \subseteq Dates \cup {d}
    BY <1>1, <2>2 DEF Dates
  <2>5. \A e \in Dates' : e <= today + 1
    BY <1>1, <2>2, <2>4
  <2> QED
    BY <1>1, <2>2, <2>3, <2>5 DEF Calendar
<1>4. CASE UNCHANGED vars
  BY <1>1, <1>4 DEF Calendar, Dates, vars
<1> QED
  BY <1>2, <1>3, <1>4 DEF Next

LEMMA CalendarMakesRight ==
    ASSUME MaxDay \in Nat, MaxPerDay \in Nat, Calendar
    PROVE  StreaksRight
BY LongestIsRight, CurrentIsRight, BestWeekIsRight DEF StreaksRight

\* The three numbers of computeStreaks and computeBestWeek are exactly these,
\* however the additions lie: the longest run of days with additions, how far
\* back no more than two days up to tomorrow have none, and the most there is in
\* eight days in a row (digging.go:302-369).
THEOREM StreaksAreRight ==
    ASSUME MaxDay \in Nat, MaxPerDay \in Nat
    PROVE  Spec => []StreaksRight
<1>1. Init => Calendar
  BY DEF Init, Calendar, Dates
<1>2. Calendar /\ [Next]_vars => Calendar'
  BY CalendarStep
<1>3. Calendar => StreaksRight
  BY CalendarMakesRight
<1> QED
  BY <1>1, <1>2, <1>3, PTL DEF Spec
=============================================================================
