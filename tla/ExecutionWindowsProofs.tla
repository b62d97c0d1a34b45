----------------------- MODULE ExecutionWindowsProofs -----------------------
(***************************************************************************)
(* Proofs about ExecutionWindows, for any executions, any contracts, any   *)
(* faults, any durations and any resolution of the bounds.                 *)
(***************************************************************************)
EXTENDS ExecutionWindows, TLAPS, FiniteSetTheorems, WellFoundedInduction
-----------------------------------------------------------------------------
(***************************************************************************)
(* Times and windows.                                                      *)
(***************************************************************************)

\* Quotient and remainder.
LEMMA Division ==
  ASSUME NEW t \in Nat, NEW d \in Nat \ {0}
  PROVE  /\ t % d \in Nat /\ t % d < d /\ t \div d \in Nat
         /\ t - (t % d) = (t \div d) * d
  <1>1. t % d \in Nat /\ t % d < d
    OBVIOUS
  <1>2. t \div d \in Nat
    OBVIOUS
  <1>3. t - (t % d) = (t \div d) * d
    OBVIOUS
  <1>4. QED
    BY <1>1, <1>2, <1>3

\* A multiple leaves no remainder.
LEMMA Remainder ==
  ASSUME NEW d \in Nat \ {0}, NEW q \in Nat
  PROVE  (q * d) % d = 0
  OBVIOUS

\* What is left of a number without its remainder is whole.
LEMMA WholePart ==
  ASSUME NEW d \in Nat \ {0}, NEW t \in Nat
  PROVE  /\ t - (t % d) \in Nat /\ t - (t % d) <= t
         /\ (t - (t % d)) % d = 0
  <1>1. t % d \in Nat /\ t % d <= t
    OBVIOUS
  <1>2. (t - (t % d)) % d = 0
    BY Division, Remainder
  <1>3. QED
    BY <1>1, <1>2

LEMMA WholePartMonotone ==
  ASSUME NEW d \in Nat \ {0}, NEW t \in Nat, NEW u \in Nat, t <= u
  PROVE  t - (t % d) <= u - (u % d)
  OBVIOUS

\* _format_datetime of a formatted text is the text.
LEMMA TruncatedWhole ==
  ASSUME NEW t \in Nat
  PROVE  /\ Truncated(t) \in Nat /\ Truncated(t) <= t
         /\ Truncated(Truncated(t)) = Truncated(t)
         /\ Truncated(0) = 0
  <1>1. Second \in Nat \ {0}
    BY SecondAssumption
  <1>2. /\ t - (t % Second) \in Nat /\ t - (t % Second) <= t
        /\ (t - (t % Second)) % Second = 0
    BY <1>1, WholePart
  <1>3. 0 - (0 % Second) \in Nat /\ 0 - (0 % Second) <= 0
    BY <1>1, WholePart
  <1>4. Truncated(t) \in Nat /\ Truncated(t) <= t
    BY <1>2 DEF Truncated
  <1>5. Truncated(Truncated(t)) = Truncated(t)
    <2> DEFINE u == t - (t % Second)
    <2>1. u \in Nat /\ u % Second = 0
      BY <1>2
    <2> HIDE DEF u
    <2>2. u - (u % Second) = u
      BY <2>1
    <2>3. QED
      BY <2>2 DEF Truncated, u
  <1>6. Truncated(0) = 0
    BY <1>3 DEF Truncated
  <1>7. QED
    BY <1>4, <1>5, <1>6

LEMMA TruncatedMonotone ==
  ASSUME NEW t \in Nat, NEW u \in Nat, t <= u
  PROVE  Truncated(t) <= Truncated(u)
  BY SecondAssumption, WholePartMonotone DEF Truncated

LEMMA TruncatedLess ==
  ASSUME NEW t \in Nat, NEW u \in Nat, t <= u
  PROVE  Truncated(t) <= u
  BY TruncatedWhole

\* The division rounded up.
LEMMA Ceiling ==
  ASSUME NEW n \in Nat \ {0}, NEW d \in Nat \ {0}
  PROVE  /\ (n + d - 1) \div d \in Nat \ {0}
         /\ ((n + d - 1) \div d) * d >= n
  <1>1. PICK m \in Nat : m = n + d - 1 /\ m >= d
    OBVIOUS
  <1>2. m \div d \in Nat
    OBVIOUS
  <1>3. (m \div d) * d > m - d
    OBVIOUS
  <1>4. (m \div d) * d >= n
    BY <1>1, <1>2, <1>3
  <1>5. m \div d # 0
    BY <1>1, <1>2, <1>4
  <1>6. QED
    BY <1>1, <1>2, <1>4, <1>5

LEMMA ProductMonotone ==
  ASSUME NEW i \in Nat, NEW j \in Nat, NEW d \in Nat, i <= j
  PROVE  i * d \in Nat /\ i * d <= j * d
  OBVIOUS

LEMMA BoundType ==
  ASSUME NEW a \in Nat, NEW z \in Nat, a < z, NEW d \in Nat \ {0}, NEW i \in Nat
  PROVE  Bound(a, z, d, i) \in Nat /\ a <= Bound(a, z, d, i) /\ Bound(a, z, d, i) <= z
  BY ProductMonotone DEF Bound, Lesser

LEMMA BoundMonotone ==
  ASSUME NEW a \in Nat, NEW z \in Nat, NEW d \in Nat \ {0}, NEW i \in Nat, NEW j \in Nat, i <= j
  PROVE  Bound(a, z, d, i) <= Bound(a, z, d, j)
  <1>1. i * d \in Nat /\ j * d \in Nat /\ i * d <= j * d
    BY ProductMonotone
  <1>2. QED
    BY <1>1 DEF Bound, Lesser

LEMMA FirstBound ==
  ASSUME NEW a \in Nat, NEW z \in Nat, a < z, NEW d \in Nat \ {0}
  PROVE  Bound(a, z, d, 0) = a
  BY DEF Bound, Lesser

\* The last window ends where the range does.
LEMMA LastBound ==
  ASSUME NEW a \in Nat, NEW z \in Nat, a < z, NEW d \in Nat \ {0}
  PROVE  Count(a, z, d) \in Nat \ {0} /\ Bound(a, z, d, Count(a, z, d)) = z
  <1>1. PICK n \in Nat \ {0} : n = z - a
    OBVIOUS
  <1>2. PICK c \in Nat \ {0} : c = (n + d - 1) \div d /\ c * d >= n
    BY Ceiling
  <1>3. Count(a, z, d) = c
    BY <1>1, <1>2 DEF Count
  <1>4. c * d \in Nat
    BY ProductMonotone
  <1>5. Bound(a, z, d, c) = z
    BY <1>1, <1>2, <1>4 DEF Bound, Lesser
  <1>6. QED
    BY <1>3, <1>5

LEMMA TruncatedBounds ==
  ASSUME NEW a \in Nat, NEW z \in Nat, a < z, NEW d \in Nat \ {0},
         NEW i \in Nat, NEW j \in Nat, i <= j
  PROVE  /\ Truncated(Bound(a, z, d, i)) \in Nat
         /\ Truncated(Bound(a, z, d, i)) <= Truncated(Bound(a, z, d, j))
         /\ Truncated(a) <= Truncated(Bound(a, z, d, i))
         /\ Truncated(Bound(a, z, d, i)) <= Truncated(z)
         /\ Truncated(Bound(a, z, d, i)) <= z
  <1>1. /\ Bound(a, z, d, i) \in Nat /\ Bound(a, z, d, j) \in Nat
        /\ a <= Bound(a, z, d, i) /\ Bound(a, z, d, i) <= z
        /\ Bound(a, z, d, i) <= Bound(a, z, d, j)
    BY BoundType, BoundMonotone
  <1>2. QED
    BY <1>1, TruncatedWhole, TruncatedMonotone, TruncatedLess

\* The windows of a range, by their bounds.
LEMMA GeneratedWindows ==
  ASSUME NEW a \in Nat, NEW z \in Nat, a < z, NEW d \in Nat \ {0}
  PROVE  /\ BuildTimeWindows(a, z, d) \in Seq(Nat \X Nat) /\ BuildTimeWindows(a, z, d) # <<>>
         /\ Len(BuildTimeWindows(a, z, d)) = Count(a, z, d)
         /\ DOMAIN BuildTimeWindows(a, z, d) = 1 .. Count(a, z, d)
         /\ \A i \in 1 .. Count(a, z, d) :
               /\ BuildTimeWindows(a, z, d)[i][1] = Truncated(Bound(a, z, d, i - 1))
               /\ BuildTimeWindows(a, z, d)[i][2] = Truncated(Bound(a, z, d, i))
         /\ BuildTimeWindows(a, z, d)[1][1] = Truncated(a)
  <1> DEFINE W == BuildTimeWindows(a, z, d)
             n == Count(a, z, d)
  <1>1. n \in Nat \ {0}
    BY LastBound
  <1> HIDE DEF n
  <1>2. W = [i \in 1 .. n |-> <<Truncated(Bound(a, z, d, i - 1)), Truncated(Bound(a, z, d, i))>>]
    BY DEF BuildTimeWindows, n
  <1> HIDE DEF W
  <1>3. \A i \in 1 .. n :
           W[i] = <<Truncated(Bound(a, z, d, i - 1)), Truncated(Bound(a, z, d, i))>>
    BY <1>2
  <1>4. \A i \in 1 .. n : W[i] \in Nat \X Nat
    <2>1. TAKE i \in 1 .. n
    <2>2. i \in Nat /\ i - 1 \in Nat
      BY <1>1
    <2>3. Truncated(Bound(a, z, d, i - 1)) \in Nat /\ Truncated(Bound(a, z, d, i)) \in Nat
      BY <2>2, TruncatedBounds
    <2>4. QED
      BY <1>3, <2>3
  <1>5. W \in [1 .. n -> Nat \X Nat]
    BY <1>2, <1>3, <1>4
  <1>6. W \in Seq(Nat \X Nat) /\ Len(W) = n /\ DOMAIN W = 1 .. n
    BY <1>1, <1>5
  <1>7. W # <<>>
    BY <1>1, <1>6
  <1>8. \A i \in 1 .. n : W[i][1] = Truncated(Bound(a, z, d, i - 1)) /\ W[i][2] = Truncated(Bound(a, z, d, i))
    BY <1>3
  <1>9. W[1][1] = Truncated(a)
    <2>1. 1 \in 1 .. n /\ 1 - 1 = 0
      BY <1>1
    <2>2. W[1][1] = Truncated(Bound(a, z, d, 0))
      BY <1>8, <2>1
    <2>3. QED
      BY <2>2, FirstBound
  <1>10. QED
    BY <1>6, <1>7, <1>8, <1>9 DEF W, n

\* The filter of a generated window formats what is formatted already.
LEMMA GeneratedSelects ==
  ASSUME NEW a \in Nat, NEW z \in Nat, a < z, NEW d \in Nat \ {0},
         NEW i \in 1 .. Count(a, z, d), NEW t \in Nat
  PROVE  Selects(BuildTimeWindows(a, z, d)[i], t) <=>
             /\ Truncated(Bound(a, z, d, i - 1)) <= t
             /\ t < Truncated(Bound(a, z, d, i))
  <1>1. Count(a, z, d) \in Nat \ {0}
    BY LastBound
  <1>2. i \in Nat /\ i - 1 \in Nat
    BY <1>1
  <1>3. Bound(a, z, d, i - 1) \in Nat /\ Bound(a, z, d, i) \in Nat
    BY <1>2, BoundType
  <1>4. /\ BuildTimeWindows(a, z, d)[i][1] = Truncated(Bound(a, z, d, i - 1))
        /\ BuildTimeWindows(a, z, d)[i][2] = Truncated(Bound(a, z, d, i))
    BY GeneratedWindows
  <1>5. /\ Truncated(Truncated(Bound(a, z, d, i - 1))) = Truncated(Bound(a, z, d, i - 1))
        /\ Truncated(Truncated(Bound(a, z, d, i))) = Truncated(Bound(a, z, d, i))
    BY <1>3, TruncatedWhole
  <1>6. QED
    BY <1>4, <1>5 DEF Selects

\* No time is in two windows.
LEMMA SelectedOnce ==
  ASSUME NEW a \in Nat, NEW z \in Nat, a < z, NEW d \in Nat \ {0}, NEW t \in Nat,
         NEW i \in 1 .. Count(a, z, d), NEW j \in 1 .. Count(a, z, d),
         Selects(BuildTimeWindows(a, z, d)[i], t), Selects(BuildTimeWindows(a, z, d)[j], t)
  PROVE  i = j
  <1>1. ASSUME NEW k \in 1 .. Count(a, z, d), NEW l \in 1 .. Count(a, z, d), k < l,
               Selects(BuildTimeWindows(a, z, d)[k], t), Selects(BuildTimeWindows(a, z, d)[l], t)
        PROVE  FALSE
    <2>1. Count(a, z, d) \in Nat \ {0}
      BY LastBound
    <2>2. k \in Nat /\ l - 1 \in Nat /\ k <= l - 1
      BY <1>1, <2>1
    <2>3. /\ Truncated(Bound(a, z, d, k)) \in Nat /\ Truncated(Bound(a, z, d, l - 1)) \in Nat
          /\ Truncated(Bound(a, z, d, k)) <= Truncated(Bound(a, z, d, l - 1))
      BY <2>2, TruncatedBounds
    <2>4. t < Truncated(Bound(a, z, d, k)) /\ Truncated(Bound(a, z, d, l - 1)) <= t
      BY <1>1, GeneratedSelects
    <2>5. QED
      BY <2>3, <2>4
  <1>2. Count(a, z, d) \in Nat
    BY LastBound
  <1>3. QED
    BY <1>1, <1>2

LEMMA SelectedInRange ==
  ASSUME NEW a \in Nat, NEW z \in Nat, a < z, NEW d \in Nat \ {0}, NEW t \in Nat,
         NEW i \in 1 .. Count(a, z, d), Selects(BuildTimeWindows(a, z, d)[i], t)
  PROVE  Truncated(a) <= t /\ t < Truncated(z)
  <1>1. Count(a, z, d) \in Nat \ {0}
    BY LastBound
  <1>2. i \in Nat /\ i - 1 \in Nat
    BY <1>1
  <1>3. /\ Truncated(Bound(a, z, d, i)) \in Nat /\ Truncated(Bound(a, z, d, i - 1)) \in Nat
        /\ Truncated(a) <= Truncated(Bound(a, z, d, i - 1))
        /\ Truncated(Bound(a, z, d, i)) <= Truncated(z)
    BY <1>2, TruncatedBounds
  <1>4. Truncated(a) \in Nat /\ Truncated(z) \in Nat
    BY TruncatedWhole
  <1>5. QED
    BY <1>3, <1>4, GeneratedSelects

\* A nonempty set of naturals has a least element.
LEMMA LeastExists ==
  ASSUME NEW S, S \subseteq Nat, S # {}
  PROVE  \E x \in S : \A y \in S : x <= y
  <1>1. PICK x \in S : \A u \in S : ~ (<<u, x>> \in OpToRel(<, Nat))
    BY NatLessThanWellFounded, WFMin
  <1>2. ASSUME NEW y \in S PROVE x <= y
    <2>1. x \in Nat /\ y \in Nat
      OBVIOUS
    <2>2. ~ (y < x)
      BY <1>1, <2>1 DEF OpToRel
    <2>3. QED
      BY <2>1, <2>2
  <1>3. QED
    BY <1>2

\* Every time of the range is in a window: the first one that ends after it.
LEMMA SelectedSome ==
  ASSUME NEW a \in Nat, NEW z \in Nat, a < z, NEW d \in Nat \ {0}, NEW t \in Nat,
         Truncated(a) <= t, t < Truncated(z)
  PROVE  \E i \in 1 .. Count(a, z, d) : Selects(BuildTimeWindows(a, z, d)[i], t)
  <1> DEFINE n == Count(a, z, d)
             S == {k \in 1 .. n : t < Truncated(Bound(a, z, d, k))}
  <1>1. n \in Nat \ {0} /\ Bound(a, z, d, n) = z
    BY LastBound
  <1> HIDE DEF n
  <1>2. n \in S
    BY <1>1
  <1>3. S \subseteq Nat
    BY <1>1
  <1>4. PICK k \in S : \A y \in S : k <= y
    <2> HIDE DEF S
    <2> QED BY <1>2, <1>3, LeastExists
  <1>5. k \in 1 .. n /\ t < Truncated(Bound(a, z, d, k))
    OBVIOUS
  <1>6. Truncated(Bound(a, z, d, k - 1)) <= t
    <2>1. CASE k = 1
      <3>1. Bound(a, z, d, k - 1) = a
        BY <2>1, FirstBound
      <3>2. QED
        BY <3>1
    <2>2. CASE k # 1
      <3>1. k - 1 \in 1 .. n /\ k - 1 \in Nat /\ k \in Nat
        BY <1>1, <1>5, <2>2
      <3>2. k - 1 \notin S
        <4>1. ~ (k <= k - 1)
          BY <3>1
        <4>2. QED
          BY <4>1, <1>4
      <3>3. Truncated(Bound(a, z, d, k - 1)) \in Nat
        BY <3>1, TruncatedBounds
      <3>4. QED
        BY <3>1, <3>2, <3>3
    <2>3. QED
      BY <2>1, <2>2
  <1>7. QED
    BY <1>5, <1>6, GeneratedSelects DEF n

\* The windows of a range are a partition of it.
LEMMA Partition ==
  ASSUME NEW a \in Nat, NEW z \in Nat, a < z, NEW d \in Nat \ {0}, NEW t \in Nat
  PROVE  LET W == BuildTimeWindows(a, z, d) IN
         Cardinality({i \in DOMAIN W : Selects(W[i], t)})
             = IF Truncated(a) <= t /\ t < Truncated(z) THEN 1 ELSE 0
  <1> DEFINE W == BuildTimeWindows(a, z, d)
             chosen == {i \in DOMAIN W : Selects(W[i], t)}
  <1>1. DOMAIN W = 1 .. Count(a, z, d)
    BY GeneratedWindows
  <1>2. CASE Truncated(a) <= t /\ t < Truncated(z)
    <2>1. PICK i \in 1 .. Count(a, z, d) : Selects(W[i], t)
      BY <1>2, SelectedSome
    <2>2. \A j \in chosen : j = i
      <3> SUFFICES ASSUME NEW j \in chosen PROVE j = i
        OBVIOUS
      <3>1. j \in 1 .. Count(a, z, d) /\ Selects(W[j], t)
        BY <1>1
      <3>2. QED
        BY <2>1, <3>1, SelectedOnce
    <2>3. chosen = {i}
      BY <1>1, <2>1, <2>2
    <2>4. Cardinality(chosen) = 1
      BY <2>3, FS_Singleton
    <2>5. QED
      BY <1>2, <2>4
  <1>3. CASE ~ (Truncated(a) <= t /\ t < Truncated(z))
    <2>1. \A i \in 1 .. Count(a, z, d) : ~ Selects(W[i], t)
      BY <1>3, SelectedInRange
    <2>2. chosen = {}
      BY <1>1, <2>1
    <2>3. Cardinality(chosen) = 0
      BY <2>2, FS_EmptySet
    <2>4. QED
      BY <1>3, <2>3
  <1>4. QED
    BY <1>2, <1>3

-----------------------------------------------------------------------------
(***************************************************************************)
(* Types.                                                                  *)
(***************************************************************************)

\* A nonempty set of bounded naturals has a greatest element.
LEMMA GreatestExists ==
  ASSUME NEW n \in Nat, NEW S, S \subseteq 0 .. n, S # {}
  PROVE  \E x \in S : \A y \in S : x >= y
  <1> DEFINE T == {n - x : x \in S}
  <1>1. T \subseteq Nat /\ T # {}
    <2>1. ASSUME NEW x \in S PROVE n - x \in Nat
      <3>1. x \in 0 .. n
        OBVIOUS
      <3>2. QED
        BY <3>1
    <2>2. QED
      BY <2>1
  <1>2. PICK t \in T : \A u \in T : t <= u
    <2> HIDE DEF T
    <2> QED BY <1>1, LeastExists
  <1>3. PICK x \in S : t = n - x
    BY <1>2
  <1>4. ASSUME NEW y \in S PROVE x >= y
    <2>1. x \in 0 .. n /\ y \in 0 .. n
      OBVIOUS
    <2>2. n - x <= n - y
      BY <1>2, <1>3
    <2>3. QED
      BY <2>1, <2>2
  <1>5. QED
    BY <1>4

\* MaxOrNone of rows is a watermark, and bounds the rows from above.
LEMMA MaxOrNoneBounds ==
  ASSUME NEW S, S \subseteq Times
  PROVE  /\ MaxOrNone(S) \in 0 .. MaxTime
         /\ \A x \in S : x <= MaxOrNone(S)
         /\ S # {} => MaxOrNone(S) \in S
         /\ S # {} => MaxOrNone(S) = Max(S)
  <1>1. CASE S = {}
    BY <1>1, TimeAssumption DEF MaxOrNone, None
  <1>2. CASE S # {}
    <2>1. S \subseteq 0 .. MaxTime /\ MaxTime \in Nat
      BY TimeAssumption DEF Times
    <2>2. \E x \in S : \A y \in S : x >= y
      BY <1>2, <2>1, GreatestExists
    <2>3. Max(S) \in S /\ \A y \in S : Max(S) >= y
      BY <2>2 DEF Max
    <2>4. MaxOrNone(S) = Max(S)
      BY <1>2 DEF MaxOrNone
    <2>5. \A x \in S : x <= Max(S)
      <3>1. TAKE x \in S
      <3>2. x \in 0 .. MaxTime /\ Max(S) \in 0 .. MaxTime
        BY <2>1, <2>3
      <3>3. Max(S) >= x
        BY <2>3
      <3>4. QED
        BY <2>1, <3>2, <3>3
    <2>6. QED
      BY <2>1, <2>3, <2>4, <2>5
  <1>3. QED
    BY <1>1, <1>2

LEMMA PlansAreOK ==
  ASSUME TypeOK, NEW e \in Executions
  PROVE  PlanOK(plan[e])
  BY ContractsAssumption DEF TypeOK

LEMMA ResolvedWindows ==
  ASSUME NEW p, PlanOK(p), NEW start \in Nat
  PROVE  Resolved(p, start) \in Seq(Nat \X Nat)
  <1>1. p.kind = "plain" => Resolved(p, start) = <<Everything>>
    BY DEF Resolved
  <1>2. Everything \in Nat \X Nat
    BY TimeAssumption, SecondAssumption DEF Everything
  <1>3. <<Everything>> \in Seq(Nat \X Nat)
    BY <1>2
  <1>4. p.kind = "explicit" => Resolved(p, start) = p.list
    BY DEF Resolved
  <1>5. p.list \in Seq(Nat \X Nat) /\ p.end \in Nat /\ p.every \in Nat \ {0}
    BY DEF PlanOK, Durations
  <1>6. start < p.end => BuildTimeWindows(start, p.end, p.every) \in Seq(Nat \X Nat)
    BY <1>5, GeneratedWindows
  <1>7. <<>> \in Seq(Nat \X Nat)
    OBVIOUS
  <1>8. p.kind \notin {"plain", "explicit"} =>
           Resolved(p, start) = IF start < p.end THEN BuildTimeWindows(start, p.end, p.every) ELSE <<>>
    BY DEF Resolved
  <1>9. QED
    BY <1>1, <1>3, <1>4, <1>5, <1>6, <1>7, <1>8

LEMMA WatermarkType ==
  ASSUME TypeOK
  PROVE  /\ Target \subseteq Times
         /\ MaxOrNone(Target) \in 0 .. MaxTime
         /\ CurrentWatermark \in 0 .. MaxTime
  <1>1. Target \subseteq Times
    BY DEF TypeOK, Target
  <1>2. MaxOrNone(Target) \in 0 .. MaxTime
    BY <1>1, MaxOrNoneBounds
  <1>3. state \in 0 .. MaxTime
    BY DEF TypeOK
  <1>4. QED
    BY <1>1, <1>2, <1>3 DEF CurrentWatermark

LEMMA StartsType ==
  ASSUME TypeOK, NEW e \in Executions
  PROVE  Starts(plan[e]) \subseteq Nat
  <1>1. plan[e].start \in Nat
    BY PlansAreOK DEF PlanOK
  <1>2. QED
    BY <1>1, WatermarkType, TimeAssumption DEF Starts

\* What a child reads, and above which watermark.
LEMMA WatermarkRead ==
  ASSUME TypeOK, NEW e \in Executions, ReadSource(e)
  PROVE  \E wm \in 0 .. MaxTime :
            /\ wm = None \/ wm = CurrentWatermark \/ wm = MaxOrNone(Target)
            /\ plan[e].watermarked \/ wm = None
            /\ wmPrev' = [wmPrev EXCEPT ![e] = wm]
            /\ batch' = [batch EXCEPT ![e] = {t \in source : t > wm /\ Selects(Window(e), t)}]
  <1> DEFINE Marks == IF ~plan[e].watermarked THEN {None}
                      ELSE {CurrentWatermark}
                           \cup (IF "control" \in contract.faults THEN {MaxOrNone(Target)} ELSE {})
  <1>1. PICK wm \in Marks :
            /\ wmPrev' = [wmPrev EXCEPT ![e] = wm]
            /\ batch' = [batch EXCEPT ![e] = {t \in source : t > wm /\ Selects(Window(e), t)}]
    BY DEF ReadSource
  <1>2. /\ wm = None \/ wm = CurrentWatermark \/ wm = MaxOrNone(Target)
        /\ plan[e].watermarked \/ wm = None
    OBVIOUS
  <1>3. None \in 0 .. MaxTime
    BY TimeAssumption DEF None
  <1>4. wm \in 0 .. MaxTime
    BY <1>2, <1>3, WatermarkType
  <1>5. QED
    BY <1>1, <1>2, <1>4

LEMMA TypeInit == Init => TypeOK
  BY TimeAssumption DEF Init, TypeOK, None, ChildPCs, Ended, Statuses

LEMMA TypeNext == TypeOK /\ [Next]_vars => TypeOK'
  <1> SUFFICES ASSUME TypeOK, [Next]_vars PROVE TypeOK'
    OBVIOUS
  <1>1. ASSUME NEW e \in Executions, ResolveWindows(e) PROVE TypeOK'
    <2>1. PICK start \in Starts(plan[e]) :
             \/ /\ Goto(e, "raised")
                /\ UNCHANGED <<windows, index, due>>
             \/ /\ Resolved(plan[e], start) # <<>>
                /\ windows' = [windows EXCEPT ![e] = Resolved(plan[e], start)]
                /\ due' = [due EXCEPT ![e] = source \cap Asked(plan[e], start)]
                /\ index' = [index EXCEPT ![e] = 1]
                /\ Goto(e, "check")
      BY <1>1 DEF ResolveWindows
    <2>2. UNCHANGED <<contract, source, state, runLog, appended, plan, outcome, childVars>>
      BY <1>1 DEF ResolveWindows
    <2>3. start \in Nat /\ PlanOK(plan[e])
      BY StartsType, PlansAreOK
    <2>4. Resolved(plan[e], start) \in Seq(Nat \X Nat)
      BY <2>3, ResolvedWindows
    <2>5. Resolved(plan[e], start) # <<>> => 1 \in DOMAIN Resolved(plan[e], start)
      BY <2>4
    <2>6. source \cap Asked(plan[e], start) \in SUBSET Times
      BY DEF TypeOK
    <2>7. CASE Goto(e, "raised") /\ UNCHANGED <<windows, index, due>>
      BY <2>2, <2>7 DEF TypeOK, Goto, ChildPCs, Ended, childVars
    <2>8. CASE /\ Resolved(plan[e], start) # <<>>
               /\ windows' = [windows EXCEPT ![e] = Resolved(plan[e], start)]
               /\ due' = [due EXCEPT ![e] = source \cap Asked(plan[e], start)]
               /\ index' = [index EXCEPT ![e] = 1]
               /\ Goto(e, "check")
      <3>1. windows' \in [Executions -> Seq(Nat \X Nat)]
        BY <2>4, <2>8 DEF TypeOK
      <3>2. index' \in [Executions -> Nat] /\ due' \in [Executions -> SUBSET Times]
        BY <2>6, <2>8 DEF TypeOK
      <3>3. pc' \in [Executions -> {"start"} \cup ChildPCs \cup Ended]
        BY <2>8 DEF TypeOK, Goto, ChildPCs
      <3>4. \A f \in Executions : pc'[f] \in ChildPCs => index'[f] \in DOMAIN windows'[f]
        BY <2>5, <2>8 DEF TypeOK, Goto
      <3>5. QED
        BY <2>2, <3>1, <3>2, <3>3, <3>4 DEF TypeOK, childVars
    <2>9. QED
      BY <2>1, <2>7, <2>8
  <1>2. ASSUME NEW e \in Executions, CheckIdempotency(e) PROVE TypeOK'
    BY <1>2 DEF CheckIdempotency, ChildRaises, Goto, TypeOK, ChildPCs, Statuses
  <1>3. ASSUME NEW e \in Executions, ReadSource(e) PROVE TypeOK'
    <2>1. PICK wm \in 0 .. MaxTime :
            /\ wmPrev' = [wmPrev EXCEPT ![e] = wm]
            /\ batch' = [batch EXCEPT ![e] = {t \in source : t > wm /\ Selects(Window(e), t)}]
      BY <1>3, WatermarkRead
    <2>2. wmPrev' \in [Executions -> 0 .. MaxTime] /\ batch' \in [Executions -> SUBSET Times]
      BY <2>1 DEF TypeOK
    <2>3. QED
      BY <1>3, <2>2 DEF ReadSource, Goto, TypeOK, ChildPCs
  <1>4. ASSUME NEW e \in Executions, Write(e) PROVE TypeOK'
    BY <1>4 DEF Write, Goto, TypeOK, ChildPCs, childVars
  <1>5. ASSUME NEW e \in Executions, SaveState(e) PROVE TypeOK'
    <2>1. batch[e] \subseteq Times /\ wmPrev[e] \in 0 .. MaxTime
      BY DEF TypeOK
    <2>2. batch[e] # {} => Max(batch[e]) \in 0 .. MaxTime
      BY <2>1, MaxOrNoneBounds
    <2>3. state' \in 0 .. MaxTime
      BY <1>5, <2>1, <2>2 DEF SaveState
    <2>4. QED
      BY <1>5, <2>3 DEF SaveState, Goto, TypeOK, ChildPCs, childVars
  <1>6. ASSUME NEW e \in Executions, RecordFailure(e) PROVE TypeOK'
    BY <1>6 DEF RecordFailure, Goto, TypeOK, ChildPCs, childVars
  <1>7. ASSUME NEW e \in Executions, LogChild(e) PROVE TypeOK'
    <2>1. pc[e] \in ChildPCs /\ index[e] \in DOMAIN windows[e] /\ index[e] \in Nat
      BY <1>7 DEF LogChild, TypeOK, ChildPCs
    <2>2. \A c \in runLog' : c.execution \in Executions /\ c.index \in Nat /\ c.status \in Statuses
      BY <1>7, <2>1 DEF LogChild, TypeOK
    <2>3. outcome' \in [Executions -> {"SUCCESS", "FAILED"}]
      BY <1>7 DEF LogChild, Combined, TypeOK
    <2>4. UNCHANGED <<contract, source, state, appended, plan, windows, due>>
      BY <1>7 DEF LogChild
    <2>5. CASE GoesOn(e)
      <3>1. /\ pc' = [pc EXCEPT ![e] = "check"]
            /\ index' = [index EXCEPT ![e] = @ + 1]
            /\ BeginChild(e)
        BY <1>7, <2>5 DEF LogChild, Goto
      <3>2. index[e] + 1 \in DOMAIN windows[e]
        <4>1. windows[e] \in Seq(Nat \X Nat) /\ index[e] < Len(windows[e])
          BY <2>5 DEF TypeOK, GoesOn
        <4>2. QED
          BY <2>1, <4>1
      <3>3. \A f \in Executions : pc'[f] \in ChildPCs => index'[f] \in DOMAIN windows'[f]
        BY <2>4, <3>1, <3>2 DEF TypeOK
      <3>4. pc' \in [Executions -> {"start"} \cup ChildPCs \cup Ended] /\ index' \in [Executions -> Nat]
        BY <2>1, <3>1 DEF TypeOK, ChildPCs
      <3>5. /\ status' \in [Executions -> Statuses] /\ wmPrev' \in [Executions -> 0 .. MaxTime]
            /\ batch' \in [Executions -> SUBSET Times]
        BY <3>1, TimeAssumption DEF BeginChild, TypeOK, Statuses, None
      <3>6. QED
        BY <2>2, <2>3, <2>4, <3>3, <3>4, <3>5 DEF TypeOK
    <2>6. CASE ~ GoesOn(e)
      <3>1. pc' = [pc EXCEPT ![e] = "done"] /\ UNCHANGED <<index, childVars>>
        BY <1>7, <2>6 DEF LogChild, Goto
      <3>2. QED
        BY <2>2, <2>3, <2>4, <3>1 DEF TypeOK, childVars, Ended, ChildPCs
    <2>7. QED
      BY <2>5, <2>6
  <1>8. ASSUME NEW e \in Executions, ChildFails(e) PROVE TypeOK'
    BY <1>8 DEF ChildFails, ChildRaises, Goto, TypeOK, ChildPCs, Statuses
  <1>9. ASSUME NEW e \in Executions, Crash(e) PROVE TypeOK'
    BY <1>9 DEF Crash, Goto, TypeOK, ChildPCs, Ended, childVars
  <1>10. ASSUME NEW t \in Times, Arrive(t) PROVE TypeOK'
    BY <1>10 DEF Arrive, TypeOK, childVars
  <1>11. CASE UNCHANGED vars
    BY <1>11 DEF TypeOK, vars, childVars
  <1>12. QED
    BY <1>1, <1>2, <1>3, <1>4, <1>5, <1>6, <1>7, <1>8, <1>9, <1>10, <1>11 DEF Next, Advance

\* The variables of ingest_execution_plan and of its children stay in their
\* types.
THEOREM TypeCorrect == Spec => []TypeOK
  <1>1. QED
    BY TypeInit, TypeNext, PTL DEF Spec

-----------------------------------------------------------------------------
(***************************************************************************)
(* Windows.                                                                *)
(*                                                                         *)
(* WindowsPartition speaks of the windows an execution has; ResolvedInv    *)
(* says where they come from, and that they stay.                          *)
(***************************************************************************)

Windowed(e) == plan[e].kind # "plain"

\* The windows of e are those of its plan from start; it found rows in that
\* range, and no more of them will arrive.
ResolvedFrom(e, start) ==
    /\ pc[e] # "start" /\ windows[e] # <<>>
    /\ windows[e] = Resolved(plan[e], start)
    /\ plan[e].start # None => start = plan[e].start
    /\ due[e] \subseteq source \cap Asked(plan[e], start)
    /\ RangeHasPassed(plan[e])

\* The inductive invariant: windows are resolved once.
ResolvedInv ==
    \A e \in Executions :
        \/ windows[e] = <<>> /\ due[e] = {}
        \/ \E start \in Nat : ResolvedFrom(e, start)

\* Every other step leaves the windows alone.
LEMMA StepKinds ==
  ASSUME TypeOK, [Next]_vars
  PROVE  \/ \E e \in Executions : ResolveWindows(e)
         \/ /\ UNCHANGED <<contract, plan, windows, due>>
            /\ source \subseteq source'
            /\ \A e \in Executions : pc'[e] = "start" <=> pc[e] = "start"
  <1>1. pc \in [Executions -> {"start"} \cup ChildPCs \cup Ended]
    BY DEF TypeOK
  <1>2. ASSUME NEW e \in Executions,
               CheckIdempotency(e) \/ ReadSource(e) \/ Write(e) \/ SaveState(e)
        PROVE  /\ UNCHANGED <<contract, plan, windows, due, source>>
               /\ \A f \in Executions : pc'[f] = "start" <=> pc[f] = "start"
    BY <1>1, <1>2 DEF CheckIdempotency, ReadSource, Write, SaveState, ChildRaises, Goto
  <1>3. ASSUME NEW e \in Executions,
               RecordFailure(e) \/ LogChild(e) \/ ChildFails(e) \/ Crash(e)
        PROVE  /\ UNCHANGED <<contract, plan, windows, due, source>>
               /\ \A f \in Executions : pc'[f] = "start" <=> pc[f] = "start"
    BY <1>1, <1>3 DEF RecordFailure, LogChild, ChildFails, Crash, ChildRaises, Goto, ChildPCs
  <1>4. ASSUME NEW t \in Times, Arrive(t)
        PROVE  UNCHANGED <<contract, plan, windows, due, pc>> /\ source \subseteq source'
    BY <1>4 DEF Arrive
  <1>5. CASE UNCHANGED vars
    BY <1>5 DEF vars
  <1>6. QED
    BY <1>2, <1>3, <1>4, <1>5 DEF Next, Advance

LEMMA Resolving ==
  ASSUME TypeOK, NEW e \in Executions, ResolveWindows(e)
  PROVE  /\ pc[e] = "start" /\ pc'[e] \in {"raised", "check"}
         /\ \A f \in Executions \ {e} : /\ pc'[f] = pc[f] /\ windows'[f] = windows[f]
                                        /\ due'[f] = due[f] /\ index'[f] = index[f]
         /\ UNCHANGED <<contract, source, state, runLog, appended, plan, outcome, childVars>>
         /\ \/ pc'[e] = "raised" /\ windows'[e] = windows[e] /\ due'[e] = due[e]
            \/ /\ pc'[e] = "check" /\ index'[e] = 1
               /\ \E start \in Starts(plan[e]) :
                     /\ start \in Nat
                     /\ windows'[e] = Resolved(plan[e], start) /\ windows'[e] # <<>>
                     /\ due'[e] = source \cap Asked(plan[e], start)
               /\ RangeHasPassed(plan[e])
  <1>1. /\ pc \in [Executions -> {"start"} \cup ChildPCs \cup Ended]
        /\ windows \in [Executions -> Seq(Nat \X Nat)]
        /\ due \in [Executions -> SUBSET Times]
        /\ index \in [Executions -> Nat]
    BY DEF TypeOK
  <1>2. pc[e] = "start" /\ RangeHasPassed(plan[e])
    BY DEF ResolveWindows
  <1>3. UNCHANGED <<contract, source, state, runLog, appended, plan, outcome, childVars>>
    BY DEF ResolveWindows
  <1>4. PICK start \in Starts(plan[e]) :
             \/ /\ Goto(e, "raised")
                /\ UNCHANGED <<windows, index, due>>
             \/ /\ Resolved(plan[e], start) # <<>>
                /\ windows' = [windows EXCEPT ![e] = Resolved(plan[e], start)]
                /\ due' = [due EXCEPT ![e] = source \cap Asked(plan[e], start)]
                /\ index' = [index EXCEPT ![e] = 1]
                /\ Goto(e, "check")
    BY DEF ResolveWindows
  <1>5. start \in Nat
    BY StartsType
  <1>6. CASE Goto(e, "raised") /\ UNCHANGED <<windows, index, due>>
    BY <1>1, <1>2, <1>3, <1>6 DEF Goto
  <1>7. CASE /\ Resolved(plan[e], start) # <<>>
             /\ windows' = [windows EXCEPT ![e] = Resolved(plan[e], start)]
             /\ due' = [due EXCEPT ![e] = source \cap Asked(plan[e], start)]
             /\ index' = [index EXCEPT ![e] = 1]
             /\ Goto(e, "check")
    <2>1. pc'[e] = "check" /\ \A f \in Executions \ {e} : pc'[f] = pc[f]
      BY <1>1, <1>7 DEF Goto
    <2>2. /\ windows'[e] = Resolved(plan[e], start) /\ windows'[e] # <<>>
          /\ due'[e] = source \cap Asked(plan[e], start) /\ index'[e] = 1
          /\ \A f \in Executions \ {e} :
                windows'[f] = windows[f] /\ due'[f] = due[f] /\ index'[f] = index[f]
      BY <1>1, <1>7
    <2>3. QED
      BY <1>2, <1>3, <1>5, <2>1, <2>2
  <1>8. QED
    BY <1>4, <1>6, <1>7

LEMMA ResolvedInvNext == TypeOK /\ ResolvedInv /\ [Next]_vars => ResolvedInv'
  <1> SUFFICES ASSUME TypeOK, ResolvedInv, [Next]_vars,
                      NEW f \in Executions
               PROVE  \/ windows'[f] = <<>> /\ due'[f] = {}
                      \/ \E start \in Nat : ResolvedFrom(f, start)'
    BY DEF ResolvedInv
  <1>1. ASSUME UNCHANGED <<plan, windows, due>>, source \subseteq source',
               pc'[f] = "start" => pc[f] = "start"
        PROVE  \/ windows'[f] = <<>> /\ due'[f] = {}
               \/ \E start \in Nat : ResolvedFrom(f, start)'
    <2>1. CASE windows[f] = <<>> /\ due[f] = {}
      BY <1>1, <2>1
    <2>2. CASE \E start \in Nat : ResolvedFrom(f, start)
      <3>1. PICK start \in Nat : ResolvedFrom(f, start)
        BY <2>2
      <3>2. RangeHasPassed(plan[f])'
        BY <1>1, <3>1 DEF ResolvedFrom, RangeHasPassed
      <3>3. ResolvedFrom(f, start)'
        BY <1>1, <3>1, <3>2 DEF ResolvedFrom, Resolved, Asked
      <3>4. QED
        BY <3>3
    <2>3. QED
      BY <2>1, <2>2 DEF ResolvedInv
  <1>2. ASSUME NEW e \in Executions, ResolveWindows(e)
        PROVE  \/ windows'[f] = <<>> /\ due'[f] = {}
               \/ \E start \in Nat : ResolvedFrom(f, start)'
    <2>0. /\ pc[e] = "start" /\ UNCHANGED <<source, plan>>
          /\ f # e => pc'[f] = pc[f] /\ windows'[f] = windows[f] /\ due'[f] = due[f]
      BY <1>2, Resolving
    <2>1. CASE f # e
      <3>1. CASE windows[f] = <<>> /\ due[f] = {}
        BY <2>0, <2>1, <3>1
      <3>2. CASE \E start \in Nat : ResolvedFrom(f, start)
        <4>1. PICK start \in Nat : ResolvedFrom(f, start)
          BY <3>2
        <4>2. ResolvedFrom(f, start)'
          BY <2>0, <2>1, <4>1 DEF ResolvedFrom, RangeHasPassed, Resolved, Asked
        <4>3. QED
          BY <4>2
      <3>3. QED
        BY <3>1, <3>2 DEF ResolvedInv
    <2>2. CASE f = e
      <3>1. windows[e] = <<>> /\ due[e] = {}
        BY <2>0 DEF ResolvedInv, ResolvedFrom
      <3>2. CASE pc'[e] = "raised" /\ windows'[e] = windows[e] /\ due'[e] = due[e]
        BY <2>2, <3>1, <3>2
      <3>3. CASE ~ (pc'[e] = "raised" /\ windows'[e] = windows[e] /\ due'[e] = due[e])
        <4>1. /\ pc'[e] = "check" /\ RangeHasPassed(plan[e])
              /\ \E start \in Starts(plan[e]) :
                    /\ start \in Nat
                    /\ windows'[e] = Resolved(plan[e], start) /\ windows'[e] # <<>>
                    /\ due'[e] = source \cap Asked(plan[e], start)
          BY <1>2, <3>3, Resolving
        <4>2. PICK start \in Starts(plan[e]) :
                    /\ start \in Nat
                    /\ windows'[e] = Resolved(plan[e], start) /\ windows'[e] # <<>>
                    /\ due'[e] = source \cap Asked(plan[e], start)
          BY <4>1
        <4>3. plan[e].start # None => start = plan[e].start
          BY <4>2 DEF Starts
        <4>4. RangeHasPassed(plan[e])'
          BY <2>0, <4>1 DEF RangeHasPassed
        <4>5. ResolvedFrom(e, start)'
          BY <2>0, <4>1, <4>2, <4>3, <4>4 DEF ResolvedFrom, Resolved, Asked
        <4>6. QED
          BY <2>2, <4>2, <4>5
      <3>4. QED
        BY <3>2, <3>3
    <2>3. QED
      BY <2>1, <2>2
  <1>3. QED
    BY <1>1, <1>2, StepKinds

LEMMA ResolvedInvAlways == Spec => [](TypeOK /\ ResolvedInv)
  <1>1. Init => ResolvedInv
    BY DEF Init, ResolvedInv
  <1>2. QED
    BY <1>1, TypeInit, TypeNext, ResolvedInvNext, PTL DEF Spec

\* build_time_windows neither leaves a gap nor selects a row twice, whatever
\* the range, the duration and the resolution of the bounds:
\* WindowsPartition.
THEOREM WindowsArePartition == Spec => []WindowsPartition
  <1>1. TypeOK /\ ResolvedInv => WindowsPartition
    <2> SUFFICES ASSUME TypeOK, ResolvedInv, NEW e \in Executions,
                        plan[e].kind \in {"window", "catchup"}, windows[e] # <<>>
                 PROVE  /\ plan[e].start # None => windows[e][1][1] = Truncated(plan[e].start)
                        /\ \A t \in 0 .. MaxTime :
                              Cardinality({i \in DOMAIN windows[e] : Selects(windows[e][i], t)}) =
                                 IF windows[e][1][1] <= t /\ t < Truncated(plan[e].end) THEN 1 ELSE 0
      BY Zenon DEF WindowsPartition
    <2>1. PICK start \in Nat : ResolvedFrom(e, start)
      BY DEF ResolvedInv
    <2>2. plan[e].end \in Nat /\ plan[e].every \in Nat \ {0}
      BY PlansAreOK DEF PlanOK, Durations
    <2>3. windows[e] = IF start < plan[e].end THEN BuildTimeWindows(start, plan[e].end, plan[e].every) ELSE <<>>
      BY <2>1 DEF ResolvedFrom, Resolved
    <2>4. /\ start < plan[e].end
          /\ windows[e] = BuildTimeWindows(start, plan[e].end, plan[e].every)
      BY <2>3
    <2>5. windows[e][1][1] = Truncated(start)
      <3>1. BuildTimeWindows(start, plan[e].end, plan[e].every)[1][1] = Truncated(start)
        BY <2>2, <2>4, GeneratedWindows
      <3>2. QED
        BY <2>4, <3>1
    <2>6. ASSUME NEW t \in 0 .. MaxTime
          PROVE  Cardinality({i \in DOMAIN windows[e] : Selects(windows[e][i], t)}) =
                    IF windows[e][1][1] <= t /\ t < Truncated(plan[e].end) THEN 1 ELSE 0
      <3>1. t \in Nat
        BY TimeAssumption
      <3>2. Cardinality({i \in DOMAIN BuildTimeWindows(start, plan[e].end, plan[e].every) :
                            Selects(BuildTimeWindows(start, plan[e].end, plan[e].every)[i], t)}) =
               IF Truncated(start) <= t /\ t < Truncated(plan[e].end) THEN 1 ELSE 0
        BY <2>2, <2>4, <3>1, Partition
      <3>3. QED
        BY <2>4, <2>5, <3>2
    <2>7. QED
      BY <2>1, <2>5, <2>6 DEF ResolvedFrom
  <1>2. QED
    BY <1>1, ResolvedInvAlways, PTL

-----------------------------------------------------------------------------
(***************************************************************************)
(* The run log.                                                            *)
(***************************************************************************)

\* The local state of an execution.
Own(e) == <<pc[e], windows[e], index[e], outcome[e], status[e], wmPrev[e], batch[e], due[e], appended[e]>>

LEMMA OthersKept ==
  ASSUME TypeOK, NEW e \in Executions, Advance(e) \/ ChildFails(e) \/ Crash(e),
         NEW f \in Executions, f # e
  PROVE  Own(f)' = Own(f) /\ UNCHANGED <<contract, source, plan>>
  <1>1. /\ pc \in [Executions -> {"start"} \cup ChildPCs \cup Ended]
        /\ windows \in [Executions -> Seq(Nat \X Nat)]
        /\ index \in [Executions -> Nat]
        /\ outcome \in [Executions -> {"SUCCESS", "FAILED"}]
        /\ status \in [Executions -> Statuses]
        /\ wmPrev \in [Executions -> 0 .. MaxTime]
        /\ batch \in [Executions -> SUBSET Times]
        /\ due \in [Executions -> SUBSET Times]
        /\ appended \in [Executions -> SUBSET Times]
    BY DEF TypeOK
  <1>2. CASE ResolveWindows(e)
    BY <1>2, Resolving DEF ResolveWindows, Own, childVars
  <1>3. CASE CheckIdempotency(e)
    BY <1>1, <1>3 DEF CheckIdempotency, ChildRaises, Goto, Own
  <1>4. CASE ReadSource(e)
    BY <1>1, <1>4 DEF ReadSource, Goto, Own
  <1>5. CASE Write(e)
    BY <1>1, <1>5 DEF Write, Goto, Own, childVars
  <1>6. CASE SaveState(e)
    BY <1>1, <1>6 DEF SaveState, Goto, Own, childVars
  <1>7. CASE RecordFailure(e)
    BY <1>1, <1>7 DEF RecordFailure, Goto, Own, childVars
  <1>8. CASE LogChild(e)
    <2>1. /\ outcome'[f] = outcome[f]
          /\ UNCHANGED <<contract, source, state, appended, plan, windows, due>>
      BY <1>1, <1>8 DEF LogChild
    <2>2. CASE GoesOn(e)
      BY <1>1, <1>8, <2>1, <2>2 DEF LogChild, BeginChild, Goto, Own
    <2>3. CASE ~ GoesOn(e)
      BY <1>1, <1>8, <2>1, <2>3 DEF LogChild, Goto, Own, childVars
    <2>4. QED
      BY <2>2, <2>3
  <1>9. CASE ChildFails(e) \/ Crash(e)
    BY <1>1, <1>9 DEF ChildFails, Crash, ChildRaises, Goto, Own, childVars
  <1>10. QED
    BY <1>2, <1>3, <1>4, <1>5, <1>6, <1>7, <1>8, <1>9 DEF Advance

\* The key of the i-th child of e.
KeyOf(e, i) ==
    IF plan[e].key = NoKey THEN <<NoKey>>
    ELSE <<plan[e].key, IF plan[e].kind = "plain" THEN <<>>
                        ELSE IF plan[e].kind = "explicit" THEN <<i>> ELSE windows[e][i]>>

\* A logged child is one of its execution, with the key of its window.
EntryOK(c) ==
    /\ c.execution \in Executions
    /\ pc[c.execution] # "start"
    /\ c.index \in DOMAIN windows[c.execution]
    /\ c.window = windows[c.execution][c.index]
    /\ c.key = KeyOf(c.execution, c.index)

\* The inductive invariant.
LogInv == \A c \in runLog : EntryOK(c)

Entry(e) == [execution |-> e, index |-> index[e], key |-> ChildKey(e),
             window |-> Window(e), status |-> status[e]]

LEMMA LogGrows ==
  ASSUME TypeOK, [Next]_vars
  PROVE  \/ runLog' = runLog
         \/ \E e \in Executions : LogChild(e) /\ runLog' = runLog \cup {Entry(e)}
  <1>1. ASSUME NEW e \in Executions, LogChild(e)
        PROVE  runLog' = runLog \/ runLog' = runLog \cup {Entry(e)}
    BY <1>1 DEF LogChild, Entry
  <1>2. ASSUME NEW e \in Executions,
               \/ ResolveWindows(e) \/ CheckIdempotency(e) \/ ReadSource(e) \/ Write(e)
               \/ SaveState(e) \/ RecordFailure(e) \/ ChildFails(e) \/ Crash(e)
        PROVE  runLog' = runLog
    BY <1>2 DEF ResolveWindows, CheckIdempotency, ReadSource, Write, SaveState, RecordFailure,
                ChildFails, Crash
  <1>3. ASSUME NEW t \in Times, Arrive(t) PROVE runLog' = runLog
    BY <1>3 DEF Arrive
  <1>4. CASE UNCHANGED vars
    BY <1>4 DEF vars
  <1>5. QED
    BY <1>1, <1>2, <1>3, <1>4 DEF Next, Advance

LEMMA LogInvNext == TypeOK /\ LogInv /\ [Next]_vars => LogInv'
  <1> SUFFICES ASSUME TypeOK, LogInv, [Next]_vars, NEW c \in runLog'
               PROVE  EntryOK(c)'
    BY DEF LogInv
  <1>1. CASE c \in runLog
    <2>1. /\ c.execution \in Executions /\ pc[c.execution] # "start"
          /\ EntryOK(c)
      BY <1>1 DEF LogInv, EntryOK
    <2>2. ASSUME NEW e \in Executions, ResolveWindows(e)
          PROVE  EntryOK(c)'
      <3>1. pc[e] = "start" /\ plan' = plan
        BY <2>2, Resolving
      <3>2. c.execution # e
        BY <2>1, <3>1
      <3>3. pc'[c.execution] = pc[c.execution] /\ windows'[c.execution] = windows[c.execution]
        BY <2>1, <2>2, <3>2, Resolving
      <3>4. QED
        BY <2>1, <3>1, <3>3 DEF EntryOK, KeyOf
    <2>3. CASE /\ UNCHANGED <<plan, windows>>
               /\ \A e \in Executions : pc'[e] = "start" <=> pc[e] = "start"
      BY <2>1, <2>3 DEF EntryOK, KeyOf
    <2>4. QED
      BY <2>2, <2>3, StepKinds
  <1>2. CASE c \notin runLog
    <2>1. PICK e \in Executions : LogChild(e) /\ c = Entry(e)
      BY <1>2, LogGrows
    <2>2. pc[e] = "log" /\ UNCHANGED <<plan, windows>>
      BY <2>1 DEF LogChild
    <2>3. index[e] \in DOMAIN windows[e]
      BY <2>2 DEF TypeOK, ChildPCs
    <2>4. pc'[e] # "start"
      BY <2>1 DEF LogChild, Goto, TypeOK
    <2>5. /\ c.execution = e /\ c.index = index[e] /\ c.window = windows[e][index[e]]
          /\ c.key = ChildKey(e)
      BY <2>1 DEF Entry, Window
    <2>6. ChildKey(e) = KeyOf(e, index[e])
      BY DEF ChildKey, KeyOf, Label, Window
    <2>7. c.key = KeyOf(c.execution, c.index)'
      BY <2>2, <2>5, <2>6 DEF KeyOf
    <2>8. QED
      BY <2>2, <2>3, <2>4, <2>5, <2>7 DEF EntryOK
  <1>3. QED
    BY <1>1, <1>2

-----------------------------------------------------------------------------
(***************************************************************************)
(* Keys.                                                                   *)
(*                                                                         *)
(* NoWindowTwice speaks of logged successes. NotYet says the same of a     *)
(* child that has looked its key up and not been logged yet. It needs that *)
(* nobody else is between look-up and log (Alone): with overlapping        *)
(* executions it is false.                                                 *)
(***************************************************************************)

\* Where executions follow each other, a key is looked up, and log and look-
\* up do not fail.
KeysAreChecked ==
    \A c \in Contracts : ~c.overlap =>
        /\ "control" \notin c.faults
        /\ \A p \in c.plans : p.key # NoKey => p.policy # "always_run"

\* A key is given to one job: the plans it is used with differ in nothing
\* that a list of windows depends on.
OneJobPerKey ==
    \A c \in Contracts : \A p, q \in c.plans :
        p.key = q.key /\ p.key # NoKey => p.kind = q.kind /\ p.list = q.list

\* No window is listed twice.
ListsAreInjective ==
    \A c \in Contracts : \A p \in c.plans : \A i, j \in DOMAIN p.list : p.list[i] = p.list[j] => i = j

Active(e) == pc[e] \in ChildPCs

\* At most one execution is under way.
Alone == \A e, f \in Executions : Active(e) /\ Active(f) => e = f

\* The child of e may still be logged as a success.
Committing(e) == pc[e] \in {"read", "write", "save"} \/ (pc[e] = "log" /\ status[e] = "SUCCESS")

\* A child that may become a success has not been one.
NotYet(e) ==
    /\ plan[e].key # NoKey /\ Committing(e) => ~Succeeded(ChildKey(e))
    /\ pc[e] = "except" => status[e] = "FAILED"

\* At most one success per key.
Once == \A c, d \in runLog :
    c.status = "SUCCESS" /\ d.status = "SUCCESS" /\ c.key = d.key /\ c.key # <<NoKey>> => c = d

\* The inductive invariant.
KeyInv == ~contract.overlap => Alone /\ (\A e \in Executions : NotYet(e)) /\ Once

LEMMA AloneNext == TypeOK /\ ~contract.overlap /\ Alone /\ [Next]_vars => Alone'
  <1> SUFFICES ASSUME TypeOK, ~contract.overlap, Alone, [Next]_vars PROVE Alone'
    OBVIOUS
  <1>0. pc \in [Executions -> {"start"} \cup ChildPCs \cup Ended]
    BY DEF TypeOK
  <1>1. ASSUME NEW e \in Executions, ResolveWindows(e) PROVE Alone'
    <2>1. \A f \in Executions : ~Active(f)
      BY <1>1 DEF ResolveWindows, Active, ChildPCs, Ended
    <2>2. \A f \in Executions \ {e} : pc'[f] = pc[f]
      BY <1>1, Resolving
    <2>3. QED
      BY <2>1, <2>2 DEF Alone, Active
  <1>2. ASSUME NEW e \in Executions,
               \/ CheckIdempotency(e) \/ ReadSource(e) \/ Write(e) \/ SaveState(e)
               \/ RecordFailure(e) \/ LogChild(e) \/ ChildFails(e) \/ Crash(e)
        PROVE  Alone'
    <2>1. Active(e)
      BY <1>2 DEF CheckIdempotency, ReadSource, Write, SaveState, RecordFailure, LogChild,
                  ChildFails, Crash, Active, ChildPCs
    <2>2. \A f \in Executions \ {e} : pc'[f] = pc[f]
      BY <1>2, OthersKept DEF Own, Advance
    <2>3. QED
      BY <2>1, <2>2 DEF Alone, Active
  <1>3. ASSUME NEW t \in Times, Arrive(t) PROVE Alone'
    BY <1>3 DEF Arrive, Alone, Active
  <1>4. CASE UNCHANGED vars
    BY <1>4 DEF vars, Alone, Active
  <1>5. QED
    BY <1>1, <1>2, <1>3, <1>4 DEF Next, Advance

LEMMA NotYetKept ==
  ASSUME NEW e \in Executions, NotYet(e), Own(e)' = Own(e), plan' = plan, runLog' = runLog
  PROVE  NotYet(e)'
  BY DEF NotYet, Own, Committing, Succeeded, ChildKey, Label, Window

LEMMA NotYetNext ==
  ASSUME KeysAreChecked
  PROVE  TypeOK /\ ~contract.overlap /\ Alone /\ (\A e \in Executions : NotYet(e)) /\ [Next]_vars
            => \A e \in Executions : NotYet(e)'
  <1> SUFFICES ASSUME TypeOK, ~contract.overlap, Alone, \A e \in Executions : NotYet(e), [Next]_vars,
                      NEW f \in Executions
               PROVE  NotYet(f)'
    OBVIOUS
  <1>0. pc \in [Executions -> {"start"} \cup ChildPCs \cup Ended] /\ status \in [Executions -> Statuses]
    BY DEF TypeOK
  <1>1. ASSUME NEW e \in Executions, e # f, Advance(e) \/ ChildFails(e) \/ Crash(e) PROVE NotYet(f)'
    <2>1. Own(f)' = Own(f) /\ plan' = plan
      BY <1>1, OthersKept
    <2>2. CASE runLog' = runLog
      BY <2>1, <2>2, NotYetKept
    <2>3. CASE runLog' # runLog
      <3>1. PICK g \in Executions : LogChild(g)
        BY <2>3, LogGrows
      <3>2. CASE g = f
        <4>1. pc[f] = "log" /\ pc'[f] # "log"
          BY <3>1, <3>2, <1>0 DEF LogChild, Goto
        <4>2. QED
          BY <4>1, <2>1 DEF Own
      <3>3. CASE g # f
        <4>1. ~Active(f)
          BY <3>1, <3>3 DEF LogChild, Alone, Active, ChildPCs
        <4>2. ~Active(f)'
          BY <4>1, <2>1 DEF Active, Own
        <4>3. QED
          BY <4>2 DEF Active, NotYet, Committing, ChildPCs
      <3>4. QED
        BY <3>2, <3>3
    <2>4. QED
      BY <2>2, <2>3
  <1>2. CASE ResolveWindows(f)
    BY <1>2, Resolving DEF NotYet, Committing
  <1>3. CASE CheckIdempotency(f)
    <2>1. /\ pc[f] = "check" /\ ChildKey(f)' = ChildKey(f)
          /\ UNCHANGED <<contract, plan, runLog>>
      BY <1>3 DEF CheckIdempotency, ChildKey, Label, Window
    <2>2. contract \in Contracts /\ plan[f] \in contract.plans
      BY DEF TypeOK
    <2>3. "control" \notin contract.faults /\ (plan[f].key # NoKey => plan[f].policy # "always_run")
      BY <2>2 DEF KeysAreChecked
    <2>4. \/ pc'[f] = "log" /\ status'[f] = "SKIPPED"
          \/ pc'[f] = "except" /\ status'[f] = "FAILED"
          \/ pc'[f] = "read" /\ (~Succeeded(ChildKey(f)) \/ plan[f].policy = "always_run")
      BY <1>0, <1>3, <2>3 DEF CheckIdempotency, ChildRaises, Goto
    <2>5. Succeeded(ChildKey(f))' = Succeeded(ChildKey(f))
      BY <2>1 DEF Succeeded
    <2>6. QED
      BY <2>1, <2>3, <2>4, <2>5 DEF NotYet, Committing
  <1>4. CASE ReadSource(f) \/ Write(f) \/ SaveState(f)
    <2>1. /\ Committing(f) /\ pc'[f] # "except"
          /\ ChildKey(f)' = ChildKey(f) /\ UNCHANGED <<plan, runLog>>
      BY <1>0, <1>4 DEF ReadSource, Write, SaveState, Goto, Committing, ChildKey, Label, Window
    <2>2. QED
      BY <2>1 DEF NotYet, Succeeded
  <1>5. CASE RecordFailure(f)
    <2>1. status'[f] = "FAILED" /\ pc'[f] = "log"
      BY <1>0, <1>5 DEF RecordFailure, NotYet, Goto, childVars
    <2>2. QED
      BY <2>1 DEF NotYet, Committing
  <1>6. CASE LogChild(f)
    <2>1. pc'[f] \in {"check", "done"}
      BY <1>0, <1>6 DEF LogChild, Goto
    <2>2. QED
      BY <2>1 DEF NotYet, Committing
  <1>7. CASE ChildFails(f) \/ Crash(f)
    <2>1. (pc'[f] = "except" /\ status'[f] = "FAILED") \/ pc'[f] = "crashed"
      BY <1>0, <1>7 DEF ChildFails, Crash, ChildRaises, Goto
    <2>2. QED
      BY <2>1 DEF NotYet, Committing
  <1>8. ASSUME NEW t \in Times, Arrive(t) PROVE NotYet(f)'
    BY <1>8, NotYetKept DEF Arrive, Own, childVars
  <1>9. CASE UNCHANGED vars
    BY <1>9, NotYetKept DEF vars, Own, childVars
  <1>10. QED
    BY <1>1, <1>2, <1>3, <1>4, <1>5, <1>6, <1>7, <1>8, <1>9 DEF Next, Advance

LEMMA OnceNext ==
  TypeOK /\ Alone /\ (\A e \in Executions : NotYet(e)) /\ Once /\ [Next]_vars => Once'
  <1> SUFFICES ASSUME TypeOK, \A e \in Executions : NotYet(e), Once, [Next]_vars PROVE Once'
    OBVIOUS
  <1>1. CASE runLog' = runLog
    BY <1>1 DEF Once
  <1>2. ASSUME NEW e \in Executions, LogChild(e), runLog' = runLog \cup {Entry(e)} PROVE Once'
    <2>1. Entry(e).status = status[e] /\ Entry(e).key = ChildKey(e)
      BY DEF Entry
    <2>2. status[e] = "SUCCESS" /\ ChildKey(e) # <<NoKey>> => ~Succeeded(ChildKey(e))
      BY <1>2 DEF LogChild, NotYet, Committing, ChildKey
    <2>3. status[e] = "SUCCESS" /\ ChildKey(e) # <<NoKey>> =>
             \A c \in runLog : ~ (c.key = ChildKey(e) /\ c.status = "SUCCESS")
      BY <2>2 DEF Succeeded
    <2>4. QED
      BY <1>2, <2>1, <2>3 DEF Once
  <1>3. QED
    BY <1>1, <1>2, LogGrows

LEMMA ContractKept == [Next]_vars => contract' = contract /\ plan' = plan
  BY DEF Next, Advance, ResolveWindows, CheckIdempotency, ReadSource, Write, SaveState,
         RecordFailure, LogChild, ChildFails, Crash, Arrive, vars

LEMMA KeyInvAlways == ASSUME KeysAreChecked PROVE Spec => [](TypeOK /\ LogInv /\ KeyInv)
  <1>1. Init => LogInv /\ KeyInv
    BY DEF Init, LogInv, KeyInv, Alone, Active, ChildPCs, NotYet, Committing, Once
  <1>2. TypeOK /\ KeyInv /\ [Next]_vars => KeyInv'
    BY AloneNext, NotYetNext, OnceNext, ContractKept DEF KeyInv
  <1>3. QED
    BY <1>1, <1>2, TypeInit, TypeNext, LogInvNext, PTL DEF Spec

\* Between executions that follow each other and check their keys, a window
\* is ingested with success once, however often it is retried: NoWindowTwice.
THEOREM WindowsSucceedOnce ==
  ASSUME KeysAreChecked, OneJobPerKey, ListsAreInjective
  PROVE  Spec => []NoWindowTwice
  <1>1. TypeOK /\ ResolvedInv /\ LogInv /\ KeyInv => NoWindowTwice
    <2> SUFFICES ASSUME TypeOK, ResolvedInv, LogInv, KeyInv, ~contract.overlap,
                        NEW c \in runLog, NEW d \in runLog,
                        c.status = "SUCCESS", d.status = "SUCCESS", c.window = d.window,
                        plan[c.execution].key = plan[d.execution].key,
                        plan[c.execution].key # NoKey
                 PROVE  c = d
      BY DEF NoWindowTwice
    <2> DEFINE e == c.execution
               f == d.execution
    <2>1. EntryOK(c) /\ EntryOK(d)
      BY DEF LogInv
    <2>2. e \in Executions /\ f \in Executions
      BY <2>1 DEF EntryOK
    <2>3. plan[e] \in contract.plans /\ plan[f] \in contract.plans /\ contract \in Contracts
      BY <2>2 DEF TypeOK
    <2>4. plan[e].kind = plan[f].kind /\ plan[e].list = plan[f].list
      BY <2>3 DEF OneJobPerKey
    <2>5. /\ c.index \in DOMAIN windows[e] /\ windows[e][c.index] = c.window
          /\ d.index \in DOMAIN windows[f] /\ windows[f][d.index] = d.window
          /\ c.key = KeyOf(e, c.index) /\ d.key = KeyOf(f, d.index)
      BY <2>1 DEF EntryOK
    <2>6. plan[e].kind = "explicit" => c.index = d.index
      <3>1. SUFFICES ASSUME plan[e].kind = "explicit" PROVE c.index = d.index
        OBVIOUS
      <3>2. windows[e] # <<>> /\ windows[f] # <<>>
        BY <2>5
      <3>3. windows[e] = plan[e].list /\ windows[f] = plan[f].list
        BY <2>2, <2>4, <3>1, <3>2 DEF ResolvedInv, ResolvedFrom, Resolved
      <3>4. QED
        BY <2>3, <2>4, <2>5, <3>3 DEF ListsAreInjective
    <2>7. KeyOf(e, c.index) = KeyOf(f, d.index)
      BY <2>4, <2>5, <2>6 DEF KeyOf
    <2>8. c.key # <<NoKey>>
      BY <2>5 DEF KeyOf
    <2>9. QED
      BY <2>5, <2>7, <2>8 DEF KeyInv, Once
  <1>2. QED
    BY <1>1, ResolvedInvAlways, KeyInvAlways, PTL

-----------------------------------------------------------------------------
(***************************************************************************)
(* Rows.                                                                   *)
(*                                                                         *)
(* NoRowLost speaks of the watermark the next run reads. MarksInv says of  *)
(* every watermark around (the saved one, the maximum of the target, what  *)
(* each child has read) that the rows up to it are in the target. For the  *)
(* maximum of the target that is a question of what a child appends: its   *)
(* batch has to be closed, and that is so when nothing below its window is *)
(* missing (Below). A catchup begins at a watermark, and goes on to a      *)
(* window when the one before it is complete (Done) or was so when it was  *)
(* skipped (LogDone). No lock and no order of the executions is needed for *)
(* any of it.                                                              *)
(*                                                                         *)
(* BackfillIsComplete adds the windows behind (Before).                    *)
(***************************************************************************)

\* Where rows are read above a watermark, a failed window ends the execution,
\* and no plan starts beyond the first row: a catchup that gives its start,
\* or a list with a gap, passes over the rows before it by intention.
FromTheBeginning ==
    \A c \in Contracts : \A p \in c.plans : p.watermarked =>
        /\ p.kind # "plain" => p.stopOnFailure
        /\ p.kind = "window" \/ (p.kind = "catchup" /\ p.start # None) => Truncated(p.start) <= 1
        /\ p.kind = "explicit" =>
              /\ Truncated(p.list[1][1]) <= 1
              /\ \A i \in DOMAIN p.list : i > 1 => Truncated(p.list[i][1]) <= Truncated(p.list[i - 1][2])

\* Generated windows end at whole seconds, within the range, each where the
\* next one starts.
LEMMA GeneratedBounds ==
  ASSUME NEW a \in Nat, NEW z \in Nat, a < z, NEW d \in Nat \ {0},
         NEW w, w = BuildTimeWindows(a, z, d), NEW i \in DOMAIN w
  PROVE  /\ w[i][1] \in Nat /\ w[i][1] <= z /\ Truncated(w[i][1]) = w[i][1]
         /\ w[i][2] \in Nat /\ w[i][2] <= z /\ Truncated(w[i][2]) = w[i][2]
         /\ i > 1 => i - 1 \in DOMAIN w /\ w[i - 1][2] = w[i][1]
  <1> DEFINE n == Count(a, z, d)
             B(k) == Truncated(Bound(a, z, d, k))
  <1>1. DOMAIN BuildTimeWindows(a, z, d) = 1 .. n /\ n \in Nat
    BY GeneratedWindows, LastBound
  <1>2. \A k \in 1 .. n : BuildTimeWindows(a, z, d)[k][1] = B(k - 1) /\ BuildTimeWindows(a, z, d)[k][2] = B(k)
    BY GeneratedWindows
  <1>3. \A k \in Nat : B(k) \in Nat /\ B(k) <= z /\ Truncated(B(k)) = B(k)
    BY BoundType, TruncatedWhole
  <1> HIDE DEF n, B
  <1>4. i \in 1 .. n /\ i \in Nat /\ i - 1 \in Nat
    BY <1>1
  <1>5. w[i][1] = B(i - 1) /\ w[i][2] = B(i)
    BY <1>2, <1>4
  <1>6. i > 1 => i - 1 \in 1 .. n /\ w[i - 1][2] = B(i - 1)
    BY <1>1, <1>2, <1>4
  <1>7. QED
    BY <1>1, <1>3, <1>4, <1>5, <1>6

\* No row will arrive in a window.
LEMMA WindowEnds ==
  ASSUME TypeOK, ResolvedInv, NEW e \in Executions, Windowed(e), NEW i \in DOMAIN windows[e]
  PROVE  /\ Truncated(windows[e][i][2]) \in Nat /\ Truncated(windows[e][i][2]) <= plan[e].end
         /\ \E u \in source : u >= plan[e].end - 1
  <1>1. PICK start \in Nat : ResolvedFrom(e, start)
    BY DEF ResolvedInv
  <1>2. RangeHasPassed(plan[e]) /\ windows[e] = Resolved(plan[e], start)
    BY <1>1 DEF ResolvedFrom
  <1>3. \E u \in source : u >= plan[e].end - 1
    BY <1>2 DEF RangeHasPassed, Windowed
  <1>4. PlanOK(plan[e])
    BY PlansAreOK
  <1>5. plan[e].end \in Nat /\ plan[e].every \in Nat \ {0}
    BY <1>4 DEF PlanOK, Durations
  <1>6. CASE plan[e].kind = "explicit"
    <2>1. windows[e] = plan[e].list
      BY <1>2, <1>6 DEF Resolved
    <2>2. plan[e].list \in Seq(Nat \X Nat) /\ plan[e].list[i][2] <= plan[e].end
      BY <1>4, <2>1 DEF PlanOK
    <2>3. windows[e][i][2] \in Nat
      BY <2>1, <2>2
    <2>4. QED
      BY <1>3, <1>5, <2>1, <2>2, <2>3, TruncatedLess, TruncatedWhole
  <1>7. CASE plan[e].kind # "explicit"
    <2>1. start < plan[e].end /\ windows[e] = BuildTimeWindows(start, plan[e].end, plan[e].every)
      BY <1>1, <1>2, <1>7 DEF Resolved, Windowed, ResolvedFrom
    <2>2. /\ windows[e][i][2] \in Nat /\ Truncated(windows[e][i][2]) = windows[e][i][2]
          /\ windows[e][i][2] <= plan[e].end
      BY <1>5, <2>1, GeneratedBounds
    <2>3. QED
      BY <1>3, <2>2
  <1>8. QED
    BY <1>6, <1>7

\* Where rows are read above a watermark, a window starts no later than the
\* one before it ends.
LEMMA WindowStarts ==
  ASSUME TypeOK, ResolvedInv, FromTheBeginning,
         NEW e \in Executions, plan[e].watermarked, NEW i \in DOMAIN windows[e]
  PROVE  /\ Truncated(windows[e][i][1]) \in Nat
         /\ Windowed(e) /\ i > 1 => /\ i - 1 \in DOMAIN windows[e]
                                    /\ Truncated(windows[e][i][1]) <= Truncated(windows[e][i - 1][2])
         /\ ~Windowed(e) => windows[e] = <<Everything>> /\ Truncated(windows[e][i][1]) = 0
         /\ Windowed(e) => \/ Truncated(windows[e][i][1]) <= 1
                           \/ Truncated(windows[e][i][1]) <= plan[e].end
  <1>1. PICK start \in Nat : ResolvedFrom(e, start)
    BY DEF ResolvedInv
  <1>2. windows[e] = Resolved(plan[e], start)
    BY <1>1 DEF ResolvedFrom
  <1>3. PlanOK(plan[e]) /\ plan[e] \in contract.plans /\ contract \in Contracts
    BY PlansAreOK DEF TypeOK
  <1>4. plan[e].end \in Nat /\ plan[e].every \in Nat \ {0}
    BY <1>3 DEF PlanOK, Durations
  <1>5. CASE plan[e].kind = "plain"
    <2>1. windows[e] = <<Everything>>
      BY <1>2, <1>5 DEF Resolved
    <2>2. i = 1
      BY <2>1
    <2>3. windows[e][i][1] = 0
      BY <2>1, <2>2 DEF Everything
    <2>4. Truncated(windows[e][i][1]) = 0
      BY <2>3, TruncatedWhole
    <2>5. QED
      BY <1>5, <2>1, <2>4 DEF Windowed
  <1>6. CASE plan[e].kind = "explicit"
    <2>1. windows[e] = plan[e].list
      BY <1>2, <1>6 DEF Resolved
    <2>2. plan[e].list \in Seq(Nat \X Nat) /\ i \in DOMAIN plan[e].list
      BY <1>3, <2>1 DEF PlanOK
    <2>3. windows[e][i][1] \in Nat
      BY <2>1, <2>2
    <2>4. i > 1 => i - 1 \in DOMAIN windows[e]
      BY <2>1, <2>2
    <2>5. /\ Truncated(plan[e].list[1][1]) <= 1
          /\ i > 1 => Truncated(plan[e].list[i][1]) <= Truncated(plan[e].list[i - 1][2])
      BY <1>3, <1>6, <2>2 DEF FromTheBeginning
    <2>6. i > 1 => Truncated(windows[e][i - 1][2]) <= plan[e].end /\ Truncated(windows[e][i - 1][2]) \in Nat
      BY <1>6, <2>4, WindowEnds DEF Windowed
    <2>7. Truncated(windows[e][i][1]) \in Nat
      BY <2>3, TruncatedWhole
    <2>8. i = 1 \/ i > 1
      BY <2>2
    <2>9. QED
      BY <1>4, <1>6, <2>1, <2>4, <2>5, <2>6, <2>7, <2>8 DEF Windowed
  <1>7. CASE plan[e].kind \notin {"plain", "explicit"}
    <2>1. start < plan[e].end /\ windows[e] = BuildTimeWindows(start, plan[e].end, plan[e].every)
      BY <1>1, <1>2, <1>7 DEF Resolved, ResolvedFrom
    <2>2. /\ windows[e][i][1] \in Nat /\ Truncated(windows[e][i][1]) = windows[e][i][1]
          /\ windows[e][i][1] <= plan[e].end
      BY <1>4, <2>1, GeneratedBounds
    <2>3. i > 1 => i - 1 \in DOMAIN windows[e] /\ windows[e][i - 1][2] = windows[e][i][1]
      BY <1>4, <2>1, GeneratedBounds
    <2>4. QED
      BY <1>7, <2>2, <2>3 DEF Windowed
  <1>8. QED
    BY <1>5, <1>6, <1>7

\* What has been read and written is part of the source.
KnownInv ==
    /\ Target \subseteq source /\ state \in source \cup {None}
    /\ \A e \in Executions : wmPrev[e] \in source \cup {None} /\ batch[e] \subseteq source

LEMMA TargetGrows ==
  ASSUME TypeOK, [Next]_vars
  PROVE  /\ Target \subseteq Target'
         /\ \/ Target' = Target
            \/ \E e \in Executions : Write(e) /\ Target' = Target \cup batch[e]
  <1>1. CASE appended' = appended
    BY <1>1 DEF Target
  <1>2. ASSUME NEW e \in Executions, Write(e) PROVE Target' = Target \cup batch[e]
    <2>1. appended' = [appended EXCEPT ![e] = @ \cup batch[e]]
      BY <1>2 DEF Write
    <2>2. appended \in [Executions -> SUBSET Times]
      BY DEF TypeOK
    <2>3. /\ appended'[e] = appended[e] \cup batch[e]
          /\ \A f \in Executions \ {e} : appended'[f] = appended[f]
      BY <2>1, <2>2
    <2>4. QED
      BY <2>3 DEF Target
  <1>3. appended' = appended \/ \E e \in Executions : Write(e)
    BY DEF Next, Advance, ResolveWindows, CheckIdempotency, ReadSource, SaveState,
           RecordFailure, LogChild, ChildFails, Crash, Arrive, vars
  <1>4. QED
    BY <1>1, <1>2, <1>3

LEMMA SourceGrows ==
  ASSUME [Next]_vars
  PROVE  \/ source' = source
         \/ \E t \in Times : Arrive(t)
  BY DEF Next, Advance, ResolveWindows, CheckIdempotency, ReadSource, Write, SaveState,
         RecordFailure, LogChild, ChildFails, Crash, Arrive, vars, childVars

LEMMA KnownInvNext == TypeOK /\ KnownInv /\ [Next]_vars => KnownInv'
  <1> SUFFICES ASSUME TypeOK, KnownInv, [Next]_vars PROVE KnownInv'
    OBVIOUS
  <1>1. source \subseteq source'
    BY SourceGrows DEF Arrive
  <1>2. Target' \subseteq source'
    BY <1>1, TargetGrows DEF KnownInv
  <1>3. /\ wmPrev \in [Executions -> 0 .. MaxTime] /\ batch \in [Executions -> SUBSET Times]
        /\ MaxOrNone(Target) \in source \cup {None} /\ CurrentWatermark \in source \cup {None}
    <2>1. Target \subseteq Times /\ (Target # {} => MaxOrNone(Target) \in Target)
      BY WatermarkType, MaxOrNoneBounds
    <2>2. Target = {} => MaxOrNone(Target) = None
      BY DEF MaxOrNone
    <2>3. QED
      BY <2>1, <2>2 DEF TypeOK, KnownInv, CurrentWatermark
  <1>4. ASSUME NEW e \in Executions, NEW w, NEW b, w \in source \cup {None}, b \subseteq source,
               wmPrev' = [wmPrev EXCEPT ![e] = w], batch' = [batch EXCEPT ![e] = b], state' = state
        PROVE  KnownInv'
    BY <1>1, <1>2, <1>3, <1>4 DEF KnownInv
  <1>5. ASSUME UNCHANGED childVars, state' \in source \cup {None} PROVE KnownInv'
    BY <1>1, <1>2, <1>5 DEF KnownInv, childVars
  <1>6. ASSUME NEW e \in Executions, ReadSource(e) PROVE KnownInv'
    <2>1. PICK wm \in 0 .. MaxTime :
            /\ wm = None \/ wm = CurrentWatermark \/ wm = MaxOrNone(Target)
            /\ wmPrev' = [wmPrev EXCEPT ![e] = wm]
            /\ batch' = [batch EXCEPT ![e] = {t \in source : t > wm /\ Selects(Window(e), t)}]
      BY <1>6, WatermarkRead
    <2>2. state' = state
      BY <1>6 DEF ReadSource
    <2>3. wm \in source \cup {None} /\ {t \in source : t > wm /\ Selects(Window(e), t)} \subseteq source
      BY <1>3, <2>1
    <2>4. QED
      BY <1>4, <2>1, <2>2, <2>3
  <1>7. ASSUME NEW e \in Executions, SaveState(e) PROVE KnownInv'
    <2>1. batch[e] # {} => Max(batch[e]) \in source
      <3>1. batch[e] \subseteq Times /\ batch[e] \subseteq source
        BY <1>3 DEF KnownInv
      <3>2. QED
        BY <3>1, MaxOrNoneBounds
    <2>2. state' \in source \cup {None}
      BY <1>7, <2>1 DEF SaveState, KnownInv
    <2>3. QED
      BY <1>5, <1>7, <2>2 DEF SaveState
  <1>8. ASSUME NEW e \in Executions, RecordFailure(e) PROVE KnownInv'
    BY <1>5, <1>8 DEF RecordFailure, KnownInv
  <1>9. ASSUME NEW e \in Executions, LogChild(e) PROVE KnownInv'
    <2>1. state' = state
      BY <1>9 DEF LogChild
    <2>2. CASE GoesOn(e)
      <3>1. wmPrev' = [wmPrev EXCEPT ![e] = None] /\ batch' = [batch EXCEPT ![e] = {}]
        BY <1>9, <2>2 DEF LogChild, BeginChild
      <3>2. QED
        BY <1>4, <2>1, <3>1
    <2>3. CASE ~ GoesOn(e)
      BY <1>5, <1>9, <2>1, <2>3 DEF LogChild, KnownInv
    <2>4. QED
      BY <2>2, <2>3
  <1>10. ASSUME NEW e \in Executions, CheckIdempotency(e) \/ ChildFails(e) PROVE KnownInv'
    BY <1>1, <1>2, <1>10 DEF CheckIdempotency, ChildFails, KnownInv
  <1>11. ASSUME NEW e \in Executions, ResolveWindows(e) \/ Write(e) \/ Crash(e) PROVE KnownInv'
    BY <1>5, <1>11 DEF ResolveWindows, Write, Crash, KnownInv
  <1>12. ASSUME NEW t \in Times, Arrive(t) PROVE KnownInv'
    BY <1>5, <1>12 DEF Arrive, KnownInv
  <1>13. CASE UNCHANGED vars
    BY <1>5, <1>13 DEF vars, KnownInv
  <1>14. QED
    BY <1>6, <1>7, <1>8, <1>9, <1>10, <1>11, <1>12, <1>13 DEF Next, Advance

LEMMA OwnStep ==
  ASSUME TypeOK, [Next]_vars, NEW f \in Executions
  PROVE  Own(f)' = Own(f) \/ Advance(f) \/ ChildFails(f) \/ Crash(f)
  <1>1. ASSUME NEW t \in Times, Arrive(t) PROVE Own(f)' = Own(f)
    BY <1>1 DEF Arrive, Own, childVars
  <1>2. CASE UNCHANGED vars
    BY <1>2 DEF vars, Own, childVars
  <1>3. QED
    BY <1>1, <1>2, OthersKept DEF Next

\* Every row of window w is in the target.
Landed(w) == \A t \in source : Selects(w, t) => t \in Target

LEMMA NoneArrives ==
  ASSUME TypeOK, ResolvedInv, NEW e \in Executions, Windowed(e), NEW i \in DOMAIN windows[e],
         NEW t \in Times, Arrive(t)
  PROVE  ~ Selects(windows[e][i], t) /\ ~ (t < plan[e].end)
  <1>1. PICK u \in source : u >= plan[e].end - 1
    BY WindowEnds
  <1>2. u < t /\ u \in Nat /\ t \in Nat /\ plan[e].end \in Nat
    <2>1. plan[e].end \in Nat
      BY PlansAreOK DEF PlanOK
    <2>2. source \subseteq Times /\ Times \subseteq Nat
      BY TimeAssumption DEF TypeOK, Times
    <2>3. QED
      BY <2>1, <2>2 DEF Arrive
  <1>3. ~ (t < plan[e].end)
    BY <1>1, <1>2
  <1>4. Truncated(windows[e][i][2]) \in Nat /\ Truncated(windows[e][i][2]) <= plan[e].end
    BY WindowEnds
  <1>5. QED
    BY <1>2, <1>3, <1>4 DEF Selects

LEMMA LandedKept ==
  ASSUME TypeOK, ResolvedInv, [Next]_vars, NEW e \in Executions, Windowed(e),
         NEW i \in DOMAIN windows[e], NEW w, w = windows[e][i], Landed(w)
  PROVE  Landed(w)'
  <1>1. CASE source' = source
    BY <1>1, TargetGrows DEF Landed
  <1>2. ASSUME NEW t \in Times, Arrive(t) PROVE Landed(w)'
    <2>1. source' = source \cup {t} /\ ~ Selects(w, t)
      BY <1>2, NoneArrives DEF Arrive
    <2>2. QED
      BY <2>1, TargetGrows DEF Landed
  <1>3. QED
    BY <1>1, <1>2, SourceGrows

\* What a child knows of itself at a statement.
StepInv ==
    \A e \in Executions :
        /\ pc[e] = "save" => batch[e] \subseteq Target
        /\ pc[e] = "except" => status[e] = "FAILED"

LEMMA StepInvNext == TypeOK /\ StepInv /\ [Next]_vars => StepInv'
  <1> SUFFICES ASSUME TypeOK, StepInv, [Next]_vars, NEW f \in Executions
               PROVE  /\ pc'[f] = "save" => batch'[f] \subseteq Target'
                      /\ pc'[f] = "except" => status'[f] = "FAILED"
    BY DEF StepInv
  <1>0. /\ pc \in [Executions -> {"start"} \cup ChildPCs \cup Ended] /\ status \in [Executions -> Statuses]
        /\ Target \subseteq Target'
    BY TargetGrows DEF TypeOK
  <1>1. CASE Own(f)' = Own(f)
    BY <1>0, <1>1 DEF StepInv, Own
  <1>2. CASE Write(f)
    <2>1. pc'[f] = "save" /\ batch' = batch
      BY <1>0, <1>2 DEF Write, Goto, childVars
    <2>2. appended'[f] = appended[f] \cup batch[f]
      BY <1>2 DEF Write, TypeOK
    <2>3. QED
      BY <2>1, <2>2 DEF Target
  <1>3. CASE CheckIdempotency(f) \/ ChildFails(f)
    BY <1>0, <1>3 DEF CheckIdempotency, ChildFails, ChildRaises, Goto
  <1>4. CASE ResolveWindows(f)
    BY <1>4, Resolving
  <1>5. CASE ReadSource(f) \/ SaveState(f) \/ RecordFailure(f) \/ LogChild(f) \/ Crash(f)
    BY <1>0, <1>5 DEF ReadSource, SaveState, RecordFailure, LogChild, Crash, Goto
  <1>6. QED
    BY <1>1, <1>2, <1>3, <1>4, <1>5, OwnStep DEF Advance

\* Every row up to x is in the target: x may be saved as watermark.
Covered(x) == \A t \in source : t <= x => t \in Target

LEMMA CoveredKept ==
  ASSUME TypeOK, [Next]_vars, NEW x \in source \cup {None}, Covered(x)
  PROVE  Covered(x)'
  <1>1. CASE source' = source
    BY <1>1, TargetGrows DEF Covered
  <1>2. ASSUME NEW t \in Times, Arrive(t) PROVE Covered(x)'
    <2>1. source' = source \cup {t} /\ \A u \in source : u < t
      BY <1>2 DEF Arrive
    <2>2. t \in Nat /\ t > 0 /\ source \subseteq Nat
      BY TimeAssumption DEF Times, TypeOK
    <2>3. ~ (t <= x)
      BY <2>1, <2>2 DEF None
    <2>4. QED
      BY <2>1, <2>3, TargetGrows DEF Covered
  <1>3. QED
    BY <1>1, <1>2, SourceGrows

\* The batch of e leaves no row behind: what is below one of its rows is in
\* it, or in the target.
Closed(e) == pc[e] \in {"write", "save"} =>
    \A b \in batch[e], t \in source : t <= b => t \in Target \cup batch[e]

\* The rows before the window of e are in the target.
Below(e) == Active(e) => \A t \in source : t < Truncated(Window(e)[1]) => t \in Target

\* Every execution reads above the watermark.
Incremental == \A e \in Executions : plan[e].watermarked

\* Every watermark around is covered.
MarksInv == Covered(state) /\ Covered(MaxOrNone(Target)) /\ \A e \in Executions : Covered(wmPrev[e])

\* The child of e brings all rows of its window.
Done(e) == Windowed(e) =>
    /\ pc[e] \in {"write", "save"} =>
          \A t \in source : Selects(Window(e), t) => t \in Target \cup batch[e]
    /\ pc[e] = "log" /\ status[e] # "FAILED" => Landed(Window(e))

LEMMA MarksKnown ==
  ASSUME TypeOK, KnownInv
  PROVE  /\ state \in source \cup {None} /\ MaxOrNone(Target) \in source \cup {None}
         /\ CurrentWatermark \in {state, MaxOrNone(Target)}
         /\ \A e \in Executions : wmPrev[e] \in source \cup {None}
  <1>1. Target \subseteq Times /\ (Target # {} => MaxOrNone(Target) \in Target)
    BY WatermarkType, MaxOrNoneBounds
  <1>2. Target = {} => MaxOrNone(Target) = None
    BY DEF MaxOrNone
  <1>3. QED
    BY <1>1, <1>2 DEF KnownInv, CurrentWatermark

LEMMA NoneCovered == ASSUME TypeOK PROVE Covered(None)
  <1>1. \A t \in source : ~ (t <= None)
    BY TimeAssumption DEF TypeOK, Times, None
  <1>2. QED
    BY <1>1 DEF Covered

LEMMA SavedMarkCovered ==
  ASSUME TypeOK, StepInv, MarksInv, NEW e \in Executions, Closed(e), SaveState(e)
  PROVE  Covered(state')
  <1>1. pc[e] = "save" /\ batch[e] \subseteq Target /\ batch[e] \subseteq Times
    BY DEF SaveState, StepInv, TypeOK
  <1>2. CASE state' = wmPrev[e]
    BY <1>2 DEF MarksInv
  <1>3. CASE state' # wmPrev[e]
    <2>1. batch[e] # {} /\ state' = Max(batch[e])
      BY <1>3 DEF SaveState
    <2>2. state' \in batch[e]
      BY <1>1, <2>1, MaxOrNoneBounds
    <2>3. QED
      BY <1>1, <2>2 DEF Closed, Covered
  <1>4. QED
    BY <1>2, <1>3

LEMMA MarksInvNext ==
  TypeOK /\ KnownInv /\ StepInv /\ MarksInv /\ (\A e \in Executions : Closed(e)) /\ [Next]_vars
     => MarksInv'
  <1> SUFFICES ASSUME TypeOK, KnownInv, StepInv, MarksInv, \A e \in Executions : Closed(e), [Next]_vars
               PROVE  MarksInv'
    OBVIOUS
  <1>1. \A x \in source \cup {None} : Covered(x) => Covered(x)'
    BY CoveredKept
  <1>2. Covered(MaxOrNone(Target))'
    <2>1. CASE Target' = Target
      <3>1. PICK x \in source \cup {None} : x = MaxOrNone(Target)
        BY MarksKnown
      <3>2. Covered(x)'
        BY <1>1, <3>1 DEF MarksInv
      <3>3. x = MaxOrNone(Target')
        BY <2>1, <3>1
      <3>4. QED
        BY <3>2, <3>3 DEF Covered
    <2>2. ASSUME NEW e \in Executions, Write(e), Target' = Target \cup batch[e]
          PROVE  Covered(MaxOrNone(Target))'
      <3>1. source' = source /\ pc[e] = "write" /\ batch[e] \subseteq Times /\ source \subseteq Times
        BY <2>2 DEF Write, TypeOK
      <3>2. Target \subseteq Times /\ Target' \subseteq Times
        BY <2>2, <3>1, WatermarkType
      <3>3. PICK m : m = MaxOrNone(Target')
        OBVIOUS
      <3>4. m \in 0 .. MaxTime /\ (Target' # {} => m \in Target')
        BY <3>2, <3>3, MaxOrNoneBounds
      <3>5. ASSUME NEW t \in source, t <= m PROVE t \in Target'
        <4>1. CASE Target' = {}
          <5>1. m = None
            BY <3>3, <4>1 DEF MaxOrNone
          <5>2. QED
            BY <3>5, <5>1, NoneCovered, <2>2 DEF Covered
        <4>2. CASE m \in Target
          <5>1. m <= MaxOrNone(Target) /\ MaxOrNone(Target) \in 0 .. MaxTime
            BY <3>2, <4>2, MaxOrNoneBounds
          <5>2. t <= MaxOrNone(Target)
            BY <3>1, <3>4, <3>5, <5>1, TimeAssumption DEF Times
          <5>3. QED
            BY <5>2, <2>2 DEF MarksInv, Covered
        <4>3. CASE m \in batch[e]
          BY <2>2, <3>1, <3>5, <4>3 DEF Closed
        <4>4. QED
          BY <2>2, <3>4, <4>1, <4>2, <4>3
      <3>6. QED
        BY <3>1, <3>3, <3>5 DEF Covered
    <2>3. QED
      BY <2>1, <2>2, TargetGrows
  <1>3. ASSUME Covered(state'), state' \in source \cup {None} PROVE Covered(state)'
    <2>1. PICK x : x = state'
      OBVIOUS
    <2>2. Covered(x)'
      BY <1>1, <1>3, <2>1
    <2>3. QED
      BY <2>1, <2>2 DEF Covered
  <1>4. Covered(state)'
    <2>1. CASE state' = state
      BY <2>1, <1>3, MarksKnown DEF MarksInv
    <2>2. ASSUME NEW e \in Executions, SaveState(e) PROVE Covered(state)'
      <3>1. Covered(state')
        BY <2>2, SavedMarkCovered
      <3>2. state' \in source \cup {None}
        <4>1. batch[e] \subseteq Times /\ batch[e] \subseteq source
          BY DEF TypeOK, KnownInv
        <4>2. batch[e] # {} => Max(batch[e]) \in source
          BY <4>1, MaxOrNoneBounds
        <4>3. QED
          BY <2>2, <4>2, MarksKnown DEF SaveState
      <3>3. QED
        BY <3>1, <3>2, <1>3
    <2>3. ASSUME NEW e \in Executions, RecordFailure(e) PROVE Covered(state)'
      BY <2>3, <1>3, MarksKnown DEF RecordFailure, MarksInv
    <2>4. \/ state' = state \/ \E e \in Executions : SaveState(e) \/ RecordFailure(e)
      BY DEF Next, Advance, ResolveWindows, CheckIdempotency, ReadSource, Write,
             LogChild, ChildFails, Crash, Arrive, vars
    <2>5. QED
      BY <2>1, <2>2, <2>3, <2>4
  <1>5. ASSUME NEW f \in Executions PROVE Covered(wmPrev[f])'
    <2>1. ASSUME NEW x \in source \cup {None}, Covered(x), wmPrev'[f] = x PROVE Covered(wmPrev[f])'
      <3>1. Covered(x)'
        BY <1>1, <2>1
      <3>2. QED
        BY <2>1, <3>1 DEF Covered
    <2>2. CASE wmPrev'[f] = wmPrev[f]
      BY <2>1, <2>2, MarksKnown DEF MarksInv
    <2>3. CASE wmPrev'[f] = None
      BY <2>1, <2>3, NoneCovered
    <2>4. CASE ReadSource(f)
      <3>1. PICK wm \in 0 .. MaxTime :
               /\ wm = None \/ wm = CurrentWatermark \/ wm = MaxOrNone(Target)
               /\ wmPrev' = [wmPrev EXCEPT ![f] = wm]
        BY <2>4, WatermarkRead
      <3>2. wmPrev'[f] = wm
        BY <3>1 DEF TypeOK
      <3>3. wm \in source \cup {None} /\ Covered(wm)
        BY <3>1, MarksKnown, NoneCovered DEF MarksInv
      <3>4. QED
        BY <2>1, <3>2, <3>3
    <2>5. \/ wmPrev'[f] = wmPrev[f] \/ wmPrev'[f] = None \/ ReadSource(f)
      <3>1. CASE LogChild(f)
        BY <3>1 DEF LogChild, BeginChild, TypeOK, childVars
      <3>2. CASE Own(f)' = Own(f)
        BY <3>2 DEF Own
      <3>3. QED
        BY <3>1, <3>2, OwnStep DEF Advance, ResolveWindows, CheckIdempotency, Write, SaveState,
               RecordFailure, ChildFails, Crash, childVars
    <2>6. QED
      BY <2>2, <2>3, <2>4, <2>5
  <1>6. QED
    BY <1>2, <1>4, <1>5 DEF MarksInv

LEMMA ClosedNext ==
  TypeOK /\ KnownInv /\ MarksInv /\ (\A e \in Executions : Closed(e) /\ Below(e)) /\ [Next]_vars
     => \A e \in Executions : Closed(e)'
  <1> SUFFICES ASSUME TypeOK, KnownInv, MarksInv, \A e \in Executions : Closed(e) /\ Below(e), [Next]_vars,
                      NEW f \in Executions
               PROVE  Closed(f)'
    OBVIOUS
  <1>0. /\ pc \in [Executions -> {"start"} \cup ChildPCs \cup Ended]
        /\ Target \subseteq Target' /\ source \subseteq Times /\ Times \subseteq Nat
    BY TargetGrows, TimeAssumption DEF TypeOK, Times
  <1>1. ASSUME pc'[f] \in {"write", "save"} => pc[f] \in {"write", "save"}, batch'[f] = batch[f],
               source' = source
        PROVE  Closed(f)'
    BY <1>0, <1>1 DEF Closed
  <1>2. CASE Own(f)' = Own(f)
    <2>1. CASE source' = source
      BY <1>1, <1>2, <2>1 DEF Own
    <2>2. ASSUME NEW t \in Times, Arrive(t) PROVE Closed(f)'
      <3>1. batch[f] \subseteq source /\ source' = source \cup {t} /\ \A u \in source : u < t
        BY <2>2 DEF KnownInv, Arrive
      <3>2. ASSUME NEW b \in batch[f] PROVE ~ (t <= b)
        <4>1. b < t /\ b \in Nat /\ t \in Nat
          BY <1>0, <3>1
        <4>2. QED
          BY <4>1
      <3>3. QED
        BY <1>0, <1>2, <3>1, <3>2 DEF Closed, Own
    <2>3. QED
      BY <2>1, <2>2, SourceGrows
  <1>3. CASE ReadSource(f)
    <2>1. PICK wm \in 0 .. MaxTime :
            /\ wm = None \/ wm = CurrentWatermark \/ wm = MaxOrNone(Target)
            /\ batch' = [batch EXCEPT ![f] = {t \in source : t > wm /\ Selects(Window(f), t)}]
      BY <1>3, WatermarkRead
    <2>2. /\ batch'[f] = {t \in source : t > wm /\ Selects(Window(f), t)}
          /\ source' = source /\ pc[f] = "read"
      BY <1>3, <2>1 DEF ReadSource, TypeOK
    <2>3. Covered(wm)
      BY <2>1, MarksKnown, NoneCovered DEF MarksInv
    <2>4. \A t \in source : t < Truncated(Window(f)[1]) => t \in Target
      BY <2>2 DEF Below, Active, ChildPCs
    <2>5. Truncated(Window(f)[1]) \in Nat /\ Truncated(Window(f)[2]) \in Nat
      <3>1. index[f] \in DOMAIN windows[f] /\ windows[f] \in Seq(Nat \X Nat)
        BY <2>2 DEF TypeOK, ChildPCs
      <3>2. Window(f) \in Nat \X Nat
        BY <3>1 DEF Window
      <3>3. QED
        BY <3>2, TruncatedWhole
    <2>6. ASSUME NEW b \in batch'[f], NEW t \in source, t <= b PROVE t \in Target \cup batch'[f]
      <3>1. CASE t <= wm
        BY <2>3, <3>1 DEF Covered
      <3>2. CASE t < Truncated(Window(f)[1])
        BY <2>4, <3>2
      <3>3. CASE ~ (t <= wm) /\ ~ (t < Truncated(Window(f)[1]))
        <4>0. b \in source
          BY <2>2, <2>6
        <4>1. t \in Nat /\ b \in Nat /\ wm \in Nat
          BY <1>0, <4>0, TimeAssumption
        <4>2. b < Truncated(Window(f)[2])
          BY <2>2 DEF Selects
        <4>3. t > wm /\ Selects(Window(f), t)
          BY <2>5, <2>6, <3>3, <4>1, <4>2 DEF Selects
        <4>4. QED
          BY <2>2, <4>3
      <3>4. QED
        BY <3>1, <3>2, <3>3
    <2>7. QED
      BY <1>0, <2>2, <2>6 DEF Closed
  <1>4. CASE Write(f)
    BY <1>0, <1>1, <1>4 DEF Write, childVars
  <1>5. CASE ResolveWindows(f)
    BY <1>5, Resolving DEF Closed
  <1>6. CASE CheckIdempotency(f) \/ SaveState(f) \/ RecordFailure(f) \/ LogChild(f) \/ ChildFails(f) \/ Crash(f)
    <2>1. pc'[f] \notin {"write", "save"}
      BY <1>0, <1>6 DEF CheckIdempotency, SaveState, RecordFailure, LogChild, ChildFails, Crash, ChildRaises, Goto
    <2>2. QED
      BY <2>1 DEF Closed
  <1>7. QED
    BY <1>2, <1>3, <1>4, <1>5, <1>6, OwnStep DEF Advance

LEMMA PlainWindow ==
  ASSUME TypeOK, ResolvedInv, NEW e \in Executions, ~Windowed(e), windows[e] # <<>>
  PROVE  windows[e] = <<Everything>> /\ Len(windows[e]) = 1
  BY DEF ResolvedInv, ResolvedFrom, Resolved, Windowed

LEMMA BelowNext ==
  ASSUME FromTheBeginning
  PROVE  TypeOK /\ ResolvedInv /\ KnownInv /\ Incremental /\ MarksInv
         /\ (\A e \in Executions : Below(e) /\ Done(e)) /\ [Next]_vars
            => \A e \in Executions : Below(e)'
  <1> SUFFICES ASSUME TypeOK, ResolvedInv, KnownInv, Incremental, MarksInv,
                      \A e \in Executions : Below(e) /\ Done(e), [Next]_vars,
                      NEW f \in Executions
               PROVE  Below(f)'
    OBVIOUS
  <1>0. /\ pc \in [Executions -> {"start"} \cup ChildPCs \cup Ended]
        /\ Target \subseteq Target' /\ source \subseteq Times /\ Times \subseteq Nat
        /\ \A t \in Times : t >= 1
        /\ plan[f].watermarked
    BY TargetGrows, TimeAssumption DEF TypeOK, Times, Incremental
  <1>1. ASSUME Active(f)' => Active(f), windows'[f] = windows[f], index'[f] = index[f],
               source' = source
        PROVE  Below(f)'
    BY <1>0, <1>1 DEF Below, Window
  <1>2. CASE Own(f)' = Own(f)
    <2>1. CASE source' = source
      BY <1>1, <1>2, <2>1 DEF Own, Active
    <2>2. ASSUME NEW t \in Times, Arrive(t), Active(f) PROVE Below(f)'
      <3>1. index[f] \in DOMAIN windows[f]
        BY <2>2 DEF Active, TypeOK
      <3>2. t \in Nat /\ t >= 1 /\ source' = source \cup {t}
        BY <1>0, <2>2 DEF Arrive
      <3>3. ~ (t < Truncated(Window(f)[1]))
        <4>1. Truncated(Window(f)[1]) \in Nat
          BY <1>0, <3>1, WindowStarts DEF Window
        <4>2. CASE ~ Windowed(f)
          <5>1. Truncated(Window(f)[1]) = 0
            BY <1>0, <3>1, <4>2, WindowStarts DEF Window
          <5>2. QED
            BY <3>2, <5>1
        <4>3. CASE Windowed(f)
          <5>1. Truncated(Window(f)[1]) <= 1 \/ Truncated(Window(f)[1]) <= plan[f].end
            BY <1>0, <3>1, <4>3, WindowStarts DEF Window
          <5>2. ~ (t < plan[f].end) /\ plan[f].end \in Nat
            BY <2>2, <3>1, <4>3, NoneArrives, PlansAreOK DEF PlanOK
          <5>3. QED
            BY <3>2, <4>1, <5>1, <5>2
        <4>4. QED
          BY <4>2, <4>3
      <3>4. QED
        BY <1>0, <1>2, <2>2, <3>2, <3>3 DEF Below, Own, Window
    <2>3. CASE ~ Active(f)
      BY <1>2, <2>3 DEF Below, Active, Own
    <2>4. QED
      BY <2>1, <2>2, <2>3, SourceGrows
  <1>3. CASE ResolveWindows(f)
    <2>1. /\ pc[f] = "start" /\ source' = source
          /\ \/ pc'[f] = "raised"
             \/ /\ pc'[f] = "check" /\ index'[f] = 1
                /\ \E start \in Starts(plan[f]) :
                      start \in Nat /\ windows'[f] = Resolved(plan[f], start) /\ windows'[f] # <<>>
      BY <1>3, Resolving
    <2>2. CASE pc'[f] = "raised"
      BY <2>2 DEF Below, Active, ChildPCs
    <2>3. CASE pc'[f] = "check"
      <3>1. PICK start \in Starts(plan[f]) :
               start \in Nat /\ windows'[f] = Resolved(plan[f], start) /\ windows'[f] # <<>>
        BY <2>1, <2>3
      <3>2. PlanOK(plan[f]) /\ plan[f] \in contract.plans /\ contract \in Contracts
        BY PlansAreOK DEF TypeOK
      <3>3. plan[f].end \in Nat /\ plan[f].every \in Nat \ {0}
        BY <3>2 DEF PlanOK, Durations
      <3>4. PICK w : w = windows'[f][1][1]
        OBVIOUS
      <3>5. \A t \in source : t < Truncated(w) => t \in Target
        <4>1. CASE plan[f].kind = "plain"
          <5>1. w = 0
            BY <3>1, <3>4, <4>1 DEF Resolved, Everything
          <5>2. Truncated(w) = 0
            BY <5>1, TruncatedWhole
          <5>3. QED
            BY <1>0, <5>2
        <4>2. CASE plan[f].kind = "explicit"
          <5>1. w = plan[f].list[1][1]
            BY <3>1, <3>4, <4>2 DEF Resolved
          <5>2. Truncated(w) <= 1
            BY <1>0, <3>2, <4>2, <5>1 DEF FromTheBeginning
          <5>3. plan[f].list \in Seq(Nat \X Nat) /\ plan[f].list # <<>>
            BY <3>2, <4>2 DEF PlanOK
          <5>4. w \in Nat
            BY <5>1, <5>3
          <5>5. Truncated(w) \in Nat
            BY <5>4, TruncatedWhole
          <5>6. QED
            BY <1>0, <5>2, <5>5
        <4>3. CASE plan[f].kind \notin {"plain", "explicit"}
          <5>1. windows'[f] = IF start < plan[f].end
                              THEN BuildTimeWindows(start, plan[f].end, plan[f].every) ELSE <<>>
            BY <3>1, <4>3 DEF Resolved
          <5>2. start < plan[f].end /\ windows'[f] = BuildTimeWindows(start, plan[f].end, plan[f].every)
            BY <3>1, <5>1
          <5>3. BuildTimeWindows(start, plan[f].end, plan[f].every)[1][1] = Truncated(start)
            BY <3>1, <3>3, <5>2, GeneratedWindows
          <5>4. Truncated(w) = Truncated(start) /\ Truncated(start) <= start /\ Truncated(start) \in Nat
            BY <3>1, <3>4, <5>2, <5>3, TruncatedWhole
          <5>5. CASE start = plan[f].start /\ (plan[f].kind = "window" \/ plan[f].start # None)
            <6>1. plan[f].kind \in {"window", "catchup"}
              BY <3>2, <4>3 DEF PlanOK
            <6>2. Truncated(start) <= 1
              BY <1>0, <3>2, <5>5, <6>1 DEF FromTheBeginning
            <6>3. QED
              BY <1>0, <5>4, <6>2
          <5>6. CASE start \in {CurrentWatermark, MaxOrNone(Target)}
            <6>1. Covered(start)
              BY <5>6, MarksKnown DEF MarksInv
            <6>2. QED
              BY <1>0, <3>1, <5>4, <6>1 DEF Covered
          <5>7. QED
            BY <3>1, <5>5, <5>6, <3>2, <4>3 DEF Starts, PlanOK
        <4>4. QED
          BY <4>1, <4>2, <4>3
      <3>6. QED
        BY <1>0, <2>1, <2>3, <3>4, <3>5 DEF Below, Window
    <2>4. QED
      BY <2>1, <2>2, <2>3
  <1>4. CASE LogChild(f)
    <2>1. pc[f] = "log" /\ UNCHANGED <<source, windows>>
      BY <1>4 DEF LogChild
    <2>2. CASE GoesOn(f)
      <3>1. index'[f] = index[f] + 1 /\ index[f] < Len(windows[f])
        BY <1>4, <2>2 DEF LogChild, GoesOn, TypeOK
      <3>2. index[f] \in DOMAIN windows[f] /\ windows[f] \in Seq(Nat \X Nat) /\ index[f] \in Nat
        BY <2>1 DEF TypeOK, ChildPCs
      <3>3. windows[f] # <<>> /\ index[f] >= 1 /\ index[f] + 1 \in DOMAIN windows[f]
        BY <3>1, <3>2
      <3>4. Windowed(f)
        BY <3>1, <3>2, <3>3, PlainWindow
      <3>5. plan[f].stopOnFailure
        BY <1>0, <3>4 DEF TypeOK, FromTheBeginning, Windowed
      <3>6. status[f] # "FAILED"
        BY <2>2, <3>5 DEF GoesOn
      <3>7. Landed(Window(f))
        BY <2>1, <3>4, <3>6 DEF Done
      <3>8. /\ Truncated(windows[f][index[f] + 1][1]) \in Nat
            /\ Truncated(windows[f][index[f] + 1][1]) <= Truncated(windows[f][index[f]][2])
        <4>1. index[f] + 1 > 1 /\ index[f] + 1 - 1 = index[f]
          BY <3>2, <3>3
        <4>2. PICK k \in DOMAIN windows[f] : k = index[f] + 1
          BY <3>3
        <4>3. /\ Truncated(windows[f][k][1]) \in Nat
              /\ Truncated(windows[f][k][1]) <= Truncated(windows[f][k - 1][2])
          BY <1>0, <3>4, <4>1, <4>2, WindowStarts
        <4>4. k - 1 = index[f]
          BY <3>2, <4>2
        <4>5. windows[f][k - 1] = windows[f][index[f]] /\ windows[f][k] = windows[f][index[f] + 1]
          BY <4>2, <4>4
        <4>6. QED
          BY <4>3, <4>5
      <3>9. /\ Truncated(Window(f)[2]) \in Nat /\ Truncated(Window(f)[1]) \in Nat
        <4>1. Window(f) \in Nat \X Nat
          BY <3>2 DEF Window
        <4>2. QED
          BY <4>1, TruncatedWhole
      <3>10. ASSUME NEW t \in source, t < Truncated(windows[f][index[f] + 1][1]) PROVE t \in Target
        <4>1. t \in Nat
          BY <1>0
        <4>2. t < Truncated(Window(f)[2])
          BY <3>8, <3>9, <3>10, <4>1 DEF Window
        <4>3. CASE t < Truncated(Window(f)[1])
          BY <2>1, <4>3 DEF Below, Active, ChildPCs
        <4>4. CASE ~ (t < Truncated(Window(f)[1]))
          BY <3>7, <3>9, <4>1, <4>2, <4>4 DEF Landed, Selects
        <4>5. QED
          BY <4>3, <4>4
      <3>11. QED
        BY <1>0, <2>1, <3>1, <3>10 DEF Below, Window
    <2>3. CASE ~ GoesOn(f)
      <3>1. pc'[f] = "done"
        BY <1>4, <2>3 DEF LogChild, Goto, TypeOK
      <3>2. QED
        BY <3>1 DEF Below, Active, ChildPCs
    <2>4. QED
      BY <2>2, <2>3
  <1>5. CASE CheckIdempotency(f) \/ ReadSource(f) \/ Write(f) \/ SaveState(f) \/ RecordFailure(f)
             \/ ChildFails(f) \/ Crash(f)
    <2>1. /\ Active(f) /\ UNCHANGED <<windows, index, source>>
      BY <1>5 DEF CheckIdempotency, ReadSource, Write, SaveState, RecordFailure, ChildFails, Crash, Active, ChildPCs
    <2>2. QED
      BY <1>1, <2>1
  <1>6. QED
    BY <1>2, <1>3, <1>4, <1>5, OwnStep DEF Advance

\* No execution reads above a watermark.
Unmarked == \A e \in Executions : ~plan[e].watermarked

\* The rows of a window that was ingested with success are in the target.
LogDone == \A c \in runLog : c.status = "SUCCESS" /\ Windowed(c.execution) => Landed(c.window)

\* Until a window fails, those that e has behind it have landed.
Before(e) == Windowed(e) /\ outcome[e] = "SUCCESS" =>
    /\ Active(e) => \A j \in DOMAIN windows[e] : j < index[e] => Landed(windows[e][j])
    /\ pc[e] = "done" => \A j \in DOMAIN windows[e] : Landed(windows[e][j])

\* A window that is skipped has landed.
LEMMA SkippedHasLanded ==
  ASSUME OneJobPerKey
  PROVE  TypeOK /\ ResolvedInv /\ LogInv /\ LogDone =>
            \A e \in Executions :
                Active(e) /\ Windowed(e) /\ Succeeded(ChildKey(e)) => Landed(Window(e))
  <1> SUFFICES ASSUME TypeOK, ResolvedInv, LogInv, LogDone,
                      NEW e \in Executions, Active(e), Windowed(e), Succeeded(ChildKey(e))
               PROVE  Landed(Window(e))
    OBVIOUS
  <1>1. PICK c \in runLog : c.key = ChildKey(e) /\ c.status = "SUCCESS"
    BY DEF Succeeded
  <1>2. EntryOK(c)
    BY DEF LogInv
  <1> DEFINE f == c.execution
  <1>3. /\ f \in Executions /\ c.index \in DOMAIN windows[f]
        /\ c.window = windows[f][c.index] /\ KeyOf(f, c.index) = ChildKey(e)
    BY <1>1, <1>2 DEF EntryOK
  <1>4. index[e] \in DOMAIN windows[e]
    BY DEF Active, TypeOK
  <1>5. plan[e].key # NoKey
    BY DEF Succeeded, ChildKey
  <1>6. ChildKey(e) = <<plan[e].key, Label(e)>>
    BY <1>5 DEF ChildKey
  <1>7. plan[f].key = plan[e].key
    BY <1>3, <1>6 DEF KeyOf
  <1>8. plan[f].kind = plan[e].kind /\ plan[f].list = plan[e].list
    <2>1. contract \in Contracts /\ plan[e] \in contract.plans /\ plan[f] \in contract.plans
      BY <1>3 DEF TypeOK
    <2>2. QED
      BY <1>5, <1>7, <2>1 DEF OneJobPerKey
  <1>9. c.window = Window(e)
    <2>1. CASE plan[e].kind = "explicit"
      <3>1. windows[e] # <<>> /\ windows[f] # <<>>
        BY <1>3, <1>4
      <3>2. windows[e] = plan[e].list /\ windows[f] = plan[e].list
        BY <1>3, <1>8, <2>1, <3>1 DEF ResolvedInv, ResolvedFrom, Resolved
      <3>3. c.index = index[e]
        BY <1>3, <1>5, <1>6, <1>7, <1>8, <2>1 DEF KeyOf, Label
      <3>4. QED
        BY <1>3, <3>2, <3>3 DEF Window
    <2>2. CASE plan[e].kind # "explicit"
      BY <1>3, <1>5, <1>6, <1>7, <1>8, <2>2 DEF KeyOf, Label, Windowed
    <2>3. QED
      BY <2>1, <2>2
  <1>10. Windowed(f)
    BY <1>8 DEF Windowed
  <1>11. Landed(c.window)
    BY <1>1, <1>10 DEF LogDone
  <1>12. QED
    BY <1>9, <1>11 DEF Landed

LEMMA ReadIsDone ==
  ASSUME TypeOK, KnownInv, Unmarked \/ MarksInv, NEW f \in Executions, ReadSource(f)
  PROVE  \A t \in source : Selects(Window(f), t) => t \in Target \cup batch'[f]
  <1>1. PICK wm \in 0 .. MaxTime :
            /\ wm = None \/ wm = CurrentWatermark \/ wm = MaxOrNone(Target)
            /\ plan[f].watermarked \/ wm = None
            /\ batch' = [batch EXCEPT ![f] = {t \in source : t > wm /\ Selects(Window(f), t)}]
    BY WatermarkRead
  <1>2. batch'[f] = {t \in source : t > wm /\ Selects(Window(f), t)}
    BY <1>1 DEF TypeOK
  <1>3. Covered(wm)
    <2>1. CASE Unmarked
      BY <1>1, <2>1, NoneCovered DEF Unmarked
    <2>2. CASE MarksInv
      BY <1>1, <2>2, MarksKnown, NoneCovered DEF MarksInv
    <2>3. QED
      BY <2>1, <2>2
  <1>4. ASSUME NEW t \in source, Selects(Window(f), t) PROVE t \in Target \cup batch'[f]
    <2>1. t \in Nat /\ wm \in Nat
      BY TimeAssumption DEF TypeOK, Times
    <2>2. t <= wm \/ t > wm
      BY <2>1
    <2>3. QED
      BY <1>2, <1>3, <1>4, <2>2 DEF Covered
  <1>5. QED
    BY <1>4

LEMMA DoneNext ==
  ASSUME OneJobPerKey
  PROVE  TypeOK /\ ResolvedInv /\ LogInv /\ KnownInv /\ StepInv /\ (Unmarked \/ MarksInv)
         /\ LogDone /\ (\A e \in Executions : Done(e)) /\ [Next]_vars
            => \A e \in Executions : Done(e)'
  <1> SUFFICES ASSUME TypeOK, ResolvedInv, LogInv, KnownInv, StepInv, Unmarked \/ MarksInv,
                      LogDone, \A e \in Executions : Done(e), [Next]_vars,
                      NEW f \in Executions, Windowed(f)'
               PROVE  Done(f)'
    BY DEF Done
  <1>0. /\ pc \in [Executions -> {"start"} \cup ChildPCs \cup Ended]
        /\ status \in [Executions -> Statuses]
        /\ Target \subseteq Target' /\ Windowed(f) /\ plan' = plan
    BY TargetGrows, ContractKept DEF TypeOK, Windowed
  <1>1. CASE Own(f)' = Own(f)
    <2>1. UNCHANGED <<pc[f], status[f], batch[f], Window(f), windows[f], index[f]>>
      BY <1>1 DEF Own, Window
    <2>2. CASE source' = source
      BY <1>0, <2>1, <2>2 DEF Done, Landed
    <2>3. ASSUME NEW t \in Times, Arrive(t), Active(f) PROVE Done(f)'
      <3>1. index[f] \in DOMAIN windows[f]
        BY <2>3 DEF Active, TypeOK
      <3>2. source' = source \cup {t} /\ ~ Selects(Window(f), t)
        BY <1>0, <2>3, <3>1, NoneArrives DEF Arrive, Window
      <3>3. QED
        BY <1>0, <2>1, <3>2 DEF Done, Landed
    <2>4. CASE ~ Active(f)
      BY <2>1, <2>4 DEF Done, Active, ChildPCs
    <2>5. QED
      BY <2>2, <2>3, <2>4, SourceGrows
  <1>2. CASE CheckIdempotency(f)
    <2>1. /\ pc[f] = "check" /\ UNCHANGED <<source, windows, index>> /\ Target' = Target
      BY <1>2 DEF CheckIdempotency, Target
    <2>2. \/ pc'[f] = "log" /\ Succeeded(ChildKey(f))
          \/ pc'[f] \in {"except", "read"}
      BY <1>0, <1>2 DEF CheckIdempotency, ChildRaises, Goto
    <2>3. CASE pc'[f] \in {"except", "read"}
      BY <2>3 DEF Done
    <2>4. CASE pc'[f] = "log" /\ Succeeded(ChildKey(f))
      <3>1. Landed(Window(f))
        BY <1>0, <2>1, <2>4, SkippedHasLanded DEF Active, ChildPCs
      <3>2. QED
        BY <2>1, <2>4, <3>1 DEF Done, Landed, Window
    <2>5. QED
      BY <2>2, <2>3, <2>4
  <1>3. CASE ReadSource(f)
    <2>1. pc'[f] = "write" /\ UNCHANGED <<source, windows, index, appended>>
      BY <1>0, <1>3 DEF ReadSource, Goto
    <2>2. \A t \in source : Selects(Window(f), t) => t \in Target \cup batch'[f]
      BY <1>3, ReadIsDone
    <2>3. QED
      BY <2>1, <2>2 DEF Done, Window, Target
  <1>4. CASE Write(f)
    <2>1. /\ pc[f] = "write" /\ pc'[f] = "save" /\ UNCHANGED <<source, windows, index, batch>>
      BY <1>0, <1>4 DEF Write, Goto, childVars
    <2>2. QED
      BY <1>0, <2>1 DEF Done, Window
  <1>5. CASE SaveState(f)
    <2>1. /\ pc[f] = "save" /\ pc'[f] = "log" /\ UNCHANGED <<source, windows, index>>
      BY <1>0, <1>5 DEF SaveState, Goto
    <2>2. batch[f] \subseteq Target
      BY <2>1 DEF StepInv
    <2>3. QED
      BY <1>0, <2>1, <2>2 DEF Done, Window, Landed
  <1>6. CASE RecordFailure(f)
    <2>1. pc'[f] = "log" /\ status'[f] = "FAILED"
      BY <1>0, <1>6 DEF RecordFailure, Goto, StepInv, childVars
    <2>2. QED
      BY <2>1 DEF Done
  <1>7. CASE LogChild(f) \/ ChildFails(f) \/ Crash(f)
    <2>1. pc'[f] \in {"check", "done", "except", "crashed"}
      BY <1>0, <1>7 DEF LogChild, ChildFails, Crash, ChildRaises, Goto
    <2>2. QED
      BY <2>1 DEF Done
  <1>8. CASE ResolveWindows(f)
    BY <1>8, Resolving DEF Done
  <1>9. QED
    BY <1>1, <1>2, <1>3, <1>4, <1>5, <1>6, <1>7, <1>8, OwnStep DEF Advance

LEMMA LogDoneNext ==
  TypeOK /\ ResolvedInv /\ LogInv /\ LogDone /\ (\A e \in Executions : Done(e)) /\ [Next]_vars => LogDone'
  <1> SUFFICES ASSUME TypeOK, ResolvedInv, LogInv, LogDone, \A e \in Executions : Done(e), [Next]_vars,
                      NEW c \in runLog', c.status = "SUCCESS", Windowed(c.execution)'
               PROVE  Landed(c.window)'
    BY DEF LogDone
  <1>0. Windowed(c.execution)
    BY ContractKept DEF Windowed
  <1>1. CASE c \in runLog
    <2>1. EntryOK(c) /\ Landed(c.window)
      BY <1>0, <1>1 DEF LogInv, LogDone
    <2>2. QED
      BY <1>0, <2>1, LandedKept DEF EntryOK
  <1>2. CASE c \notin runLog
    <2>1. PICK e \in Executions : LogChild(e) /\ c = Entry(e)
      BY <1>2, LogGrows
    <2>2. /\ pc[e] = "log" /\ c.execution = e /\ c.status = status[e]
          /\ c.window = windows[e][index[e]]
      BY <2>1 DEF LogChild, Entry, Window
    <2>3. index[e] \in DOMAIN windows[e]
      BY <2>2 DEF TypeOK, ChildPCs
    <2>4. Landed(windows[e][index[e]])
      BY <1>0, <2>2 DEF Done, Window
    <2>5. Landed(c.window)
      BY <2>2, <2>4 DEF Landed
    <2>6. QED
      BY <1>0, <2>2, <2>3, <2>5, LandedKept
  <1>3. QED
    BY <1>1, <1>2

LEMMA WindowLandedKept ==
  ASSUME TypeOK, ResolvedInv, [Next]_vars, NEW f \in Executions, Windowed(f),
         windows'[f] = windows[f], NEW j \in DOMAIN windows[f], Landed(windows[f][j])
  PROVE  Landed(windows[f][j])'
  <1>1. PICK w : w = windows[f][j]
    OBVIOUS
  <1>2. Landed(w)
    BY <1>1 DEF Landed
  <1>3. Landed(w)'
    BY <1>1, <1>2, LandedKept
  <1>4. QED
    BY <1>1, <1>3 DEF Landed

LEMMA BeforeNext ==
  TypeOK /\ ResolvedInv /\ (\A e \in Executions : Done(e) /\ Before(e)) /\ [Next]_vars
     => \A e \in Executions : Before(e)'
  <1> SUFFICES ASSUME TypeOK, ResolvedInv, \A e \in Executions : Done(e) /\ Before(e), [Next]_vars,
                      NEW f \in Executions, Windowed(f)', outcome'[f] = "SUCCESS"
               PROVE  Before(f)'
    BY DEF Before
  <1>0. /\ pc \in [Executions -> {"start"} \cup ChildPCs \cup Ended]
        /\ outcome \in [Executions -> {"SUCCESS", "FAILED"}]
        /\ Windowed(f)
    BY ContractKept DEF TypeOK, Windowed
  <1>1. ASSUME windows'[f] = windows[f], index'[f] = index[f], outcome'[f] = outcome[f],
               Active(f)' => Active(f), pc'[f] = "done" => pc[f] = "done"
        PROVE  Before(f)'
    BY <1>0, <1>1, WindowLandedKept DEF Before
  <1>2. CASE Own(f)' = Own(f)
    BY <1>1, <1>2 DEF Own, Active
  <1>3. CASE ResolveWindows(f)
    <2>1. pc'[f] = "raised" \/ (pc'[f] = "check" /\ index'[f] = 1)
      BY <1>3, Resolving
    <2>2. CASE pc'[f] = "raised"
      BY <2>2 DEF Before, Active, ChildPCs
    <2>3. CASE pc'[f] = "check" /\ index'[f] = 1
      <3>1. windows'[f] \in Seq(Nat \X Nat)
        BY TypeNext DEF TypeOK
      <3>2. \A j \in DOMAIN windows'[f] : ~ (j < index'[f])
        BY <2>3, <3>1
      <3>3. QED
        BY <2>3, <3>2 DEF Before
    <2>4. QED
      BY <2>1, <2>2, <2>3
  <1>4. CASE LogChild(f)
    <2>1. /\ pc[f] = "log" /\ windows' = windows /\ outcome'[f] = Combined(f)
      BY <1>0, <1>4 DEF LogChild
    <2>2. status[f] # "FAILED" /\ outcome[f] = "SUCCESS"
      BY <2>1 DEF Combined
    <2>3. Landed(windows[f][index[f]])
      BY <1>0, <2>1, <2>2 DEF Done, Window
    <2>4. Active(f) /\ index[f] \in DOMAIN windows[f] /\ windows[f] \in Seq(Nat \X Nat) /\ index[f] \in Nat
      BY <2>1 DEF Active, ChildPCs, TypeOK
    <2>5. \A j \in DOMAIN windows[f] : j < index[f] => Landed(windows[f][j])
      BY <1>0, <2>2, <2>4 DEF Before
    <2>6. \A j \in DOMAIN windows[f] : j <= index[f] => Landed(windows[f][j])'
      <3>1. ASSUME NEW j \in DOMAIN windows[f], j <= index[f] PROVE Landed(windows[f][j])'
        <4>1. j < index[f] \/ j = index[f]
          BY <2>4, <3>1
        <4>2. Landed(windows[f][j])
          BY <2>3, <2>5, <4>1
        <4>3. QED
          BY <1>0, <2>1, <4>2, WindowLandedKept
      <3>2. QED
        BY <3>1
    <2>7. CASE GoesOn(f)
      <3>1. index'[f] = index[f] + 1 /\ pc'[f] = "check"
        BY <1>0, <1>4, <2>4, <2>7 DEF LogChild, Goto, TypeOK
      <3>2. \A j \in DOMAIN windows[f] : j < index'[f] => j <= index[f]
        BY <2>4, <3>1
      <3>3. QED
        BY <2>1, <2>6, <3>1, <3>2 DEF Before
    <2>8. CASE ~ GoesOn(f)
      <3>1. pc'[f] = "done"
        BY <1>0, <1>4, <2>8 DEF LogChild, Goto
      <3>2. ~ (index[f] < Len(windows[f]))
        BY <2>2, <2>8 DEF GoesOn
      <3>3. \A j \in DOMAIN windows[f] : j <= index[f]
        BY <2>4, <3>2
      <3>4. QED
        BY <2>1, <2>6, <3>1, <3>3 DEF Before, Active, ChildPCs
    <2>9. QED
      BY <2>7, <2>8
  <1>5. CASE CheckIdempotency(f) \/ ReadSource(f) \/ Write(f) \/ SaveState(f) \/ RecordFailure(f)
             \/ ChildFails(f) \/ Crash(f)
    <2>1. /\ Active(f) /\ UNCHANGED <<windows, index, outcome>> /\ pc'[f] # "done"
      BY <1>0, <1>5 DEF CheckIdempotency, ReadSource, Write, SaveState, RecordFailure, ChildFails,
                        Crash, ChildRaises, Goto, Active, ChildPCs
    <2>2. QED
      BY <1>1, <2>1
  <1>6. QED
    BY <1>2, <1>3, <1>4, <1>5, OwnStep DEF Advance

\* watermark_columns are those of the target, not of a call.
OneKindOfRead ==
    \A c \in Contracts : \A p, q \in c.plans : p.watermarked = q.watermarked

\* A list loses no row to the rounding of its bounds.
ListsReachTheirEnds ==
    \A c \in Contracts : \A p \in c.plans : p.kind = "explicit" =>
        \A t \in Times, i \in DOMAIN p.list : p.list[i][1] <= t /\ t < p.list[i][2] =>
            \E j \in DOMAIN p.list : Selects(p.list[j], t)

\* The inductive invariant: with watermarks, nothing is passed over,
WaterInv == Incremental => MarksInv /\ \A e \in Executions : Closed(e) /\ Below(e)

\* and a window is complete before the next one is started.
LoadInv == Incremental \/ Unmarked => LogDone /\ \A e \in Executions : Done(e) /\ Before(e)

\* What both rest on.
CommonInv == TypeOK /\ ResolvedInv /\ LogInv /\ KnownInv /\ StepInv

LEMMA CommonInvAlways == Spec => []CommonInv
  <1>1. Init => KnownInv /\ StepInv /\ LogInv
    BY DEF Init, KnownInv, StepInv, LogInv, Target
  <1>2. QED
    BY <1>1, TypeInit, TypeNext, ResolvedInvAlways, LogInvNext, KnownInvNext, StepInvNext, PTL
       DEF Spec, CommonInv

LEMMA InitialLoad == Init => WaterInv /\ LoadInv
  <1>1. Init => MarksInv
    BY DEF Init, MarksInv, Covered
  <1>2. Init => \A e \in Executions : Closed(e) /\ Below(e) /\ Done(e) /\ Before(e)
    BY DEF Init, Closed, Below, Done, Before, Active, ChildPCs
  <1>3. Init => LogDone
    BY DEF Init, LogDone
  <1>4. QED
    BY <1>1, <1>2, <1>3 DEF WaterInv, LoadInv

LEMMA LoadNext ==
  ASSUME OneJobPerKey, FromTheBeginning
  PROVE  CommonInv /\ WaterInv /\ LoadInv /\ [Next]_vars => (WaterInv /\ LoadInv)'
  <1> SUFFICES ASSUME CommonInv, WaterInv, LoadInv, [Next]_vars PROVE (WaterInv /\ LoadInv)'
    OBVIOUS
  <1>1. /\ Incremental' <=> Incremental
        /\ Unmarked' <=> Unmarked
    BY ContractKept DEF Incremental, Unmarked
  <1>2. WaterInv'
    <2>1. CASE Incremental
      <3>1. MarksInv'
        BY <2>1, MarksInvNext DEF WaterInv, CommonInv
      <3>2. \A e \in Executions : Closed(e)'
        BY <2>1, ClosedNext DEF WaterInv, CommonInv
      <3>3. \A e \in Executions : Below(e)'
        BY <2>1, BelowNext DEF WaterInv, LoadInv, CommonInv
      <3>4. QED
        BY <3>1, <3>2, <3>3 DEF WaterInv
    <2>2. CASE ~ Incremental
      BY <1>1, <2>2 DEF WaterInv
    <2>3. QED
      BY <2>1, <2>2
  <1>3. LoadInv'
    <2>1. CASE Incremental \/ Unmarked
      <3>1. Unmarked \/ MarksInv
        BY <2>1 DEF WaterInv
      <3>2. \A e \in Executions : Done(e)'
        BY <2>1, <3>1, DoneNext DEF LoadInv, CommonInv
      <3>3. LogDone'
        BY <2>1, LogDoneNext DEF LoadInv, CommonInv
      <3>4. \A e \in Executions : Before(e)'
        BY <2>1, BeforeNext DEF LoadInv, CommonInv
      <3>5. QED
        BY <3>2, <3>3, <3>4 DEF LoadInv
    <2>2. CASE ~ (Incremental \/ Unmarked)
      BY <1>1, <2>2 DEF LoadInv
    <2>3. QED
      BY <2>1, <2>2
  <1>4. QED
    BY <1>2, <1>3

LEMMA LoadAlways ==
  ASSUME OneJobPerKey, FromTheBeginning
  PROVE  Spec => [](CommonInv /\ WaterInv /\ LoadInv)
  <1>1. CommonInv /\ WaterInv /\ LoadInv /\ [Next]_vars => (WaterInv /\ LoadInv)'
    BY LoadNext
  <1>2. QED
    BY <1>1, CommonInvAlways, InitialLoad, PTL DEF Spec

\* However backfills, catchups and ordinary runs interleave, fail, crash and
\* are retried, the watermark of the target passes no row that is not in it:
\* NoRowLost.
THEOREM NoRowIsPassedOver ==
  ASSUME OneJobPerKey, FromTheBeginning
  PROVE  Spec => []NoRowLost
  <1>1. CommonInv /\ WaterInv => NoRowLost
    <2> SUFFICES ASSUME CommonInv, WaterInv, Incremental,
                        NEW t \in source, t <= CurrentWatermark
                 PROVE  t \in Target
      BY DEF NoRowLost, Incremental
    <2>1. CurrentWatermark \in {state, MaxOrNone(Target)}
      BY DEF CurrentWatermark
    <2>2. Covered(state) /\ Covered(MaxOrNone(Target))
      BY DEF WaterInv, MarksInv
    <2>3. QED
      BY <2>1, <2>2 DEF Covered
  <1>2. QED
    BY <1>1, LoadAlways, PTL

\* A backfill or catchup that returns SUCCESS has its whole range in the
\* target, also beside executions it overlaps: BackfillIsComplete.
THEOREM BackfillsAreComplete ==
  ASSUME OneJobPerKey, FromTheBeginning, OneKindOfRead, ListsReachTheirEnds
  PROVE  Spec => []BackfillIsComplete
  <1>1. CommonInv /\ LoadInv => BackfillIsComplete
    <2> SUFFICES ASSUME CommonInv, LoadInv, NEW e \in Executions,
                        Windowed(e), pc[e] = "done", outcome[e] = "SUCCESS",
                        NEW t \in due[e]
                 PROVE  t \in Target
      BY DEF BackfillIsComplete, Windowed
    <2>1. /\ TypeOK /\ ResolvedInv
          /\ contract \in Contracts /\ \A f \in Executions : plan[f] \in contract.plans
      BY DEF CommonInv, TypeOK
    <2>2. Incremental \/ Unmarked
      BY <2>1 DEF OneKindOfRead, Incremental, Unmarked
    <2>3. \A j \in DOMAIN windows[e] : Landed(windows[e][j])
      BY <2>2 DEF LoadInv, Before
    <2>4. PICK start \in Nat : ResolvedFrom(e, start)
      BY <2>1 DEF ResolvedInv
    <2>5. t \in source /\ t \in Asked(plan[e], start) /\ windows[e] = Resolved(plan[e], start)
      BY <2>4 DEF ResolvedFrom
    <2>6. t \in Times /\ t \in Nat
      BY <2>1, <2>5, TimeAssumption DEF TypeOK, Times
    <2>7. \E j \in DOMAIN windows[e] : Selects(windows[e][j], t)
      <3>1. CASE plan[e].kind = "explicit"
        <4>1. windows[e] = plan[e].list
          BY <2>5, <3>1 DEF Resolved
        <4>2. \E i \in DOMAIN plan[e].list : plan[e].list[i][1] <= t /\ t < plan[e].list[i][2]
          BY <2>5, <3>1 DEF Asked
        <4>3. QED
          BY <2>1, <2>6, <3>1, <4>1, <4>2 DEF ListsReachTheirEnds
      <3>2. CASE plan[e].kind # "explicit"
        <4>1. plan[e].end \in Nat /\ plan[e].every \in Nat \ {0}
          BY <2>1, PlansAreOK DEF PlanOK, Durations
        <4>2. start <= t /\ t < Truncated(plan[e].end)
          BY <2>5, <3>2 DEF Asked, Windowed
        <4>3. Truncated(start) <= t
          BY <2>6, <4>2, TruncatedWhole
        <4>4. windows[e] = IF start < plan[e].end
                           THEN BuildTimeWindows(start, plan[e].end, plan[e].every) ELSE <<>>
          BY <2>5, <3>2 DEF Resolved, Windowed
        <4>5. windows[e] # <<>>
          BY <2>4 DEF ResolvedFrom
        <4>6. start < plan[e].end /\ windows[e] = BuildTimeWindows(start, plan[e].end, plan[e].every)
          BY <4>4, <4>5
        <4>7. PICK j \in 1 .. Count(start, plan[e].end, plan[e].every) :
                 Selects(BuildTimeWindows(start, plan[e].end, plan[e].every)[j], t)
          BY <2>6, <4>1, <4>2, <4>3, <4>6, SelectedSome
        <4>8. DOMAIN BuildTimeWindows(start, plan[e].end, plan[e].every)
                 = 1 .. Count(start, plan[e].end, plan[e].every)
          BY <4>1, <4>6, GeneratedWindows
        <4>9. QED
          BY <4>6, <4>7, <4>8
      <3>3. QED
        BY <3>1, <3>2
    <2>8. QED
      BY <2>3, <2>5, <2>7 DEF Landed
  <1>2. QED
    BY <1>1, LoadAlways, PTL
=============================================================================
