----------------------------- MODULE SourceReadProofs -----------------------------
(***************************************************************************)
(* Proofs about SourceRead, for any contracts, records, values and faults: *)
(* what a load reads of a source that changes under it, and what the       *)
(* watermark and snapshot_soft_delete make of it.                          *)
(***************************************************************************)
EXTENDS SourceRead, FiniteSetTheorems, SequenceTheorems, NaturalsInduction, TLAPS

-----------------------------------------------------------------------------
(***************************************************************************)
(* The natural numbers are well founded, so a set of them that holds 0 and *)
(* every successor is all of them: induction over a set, which needs no    *)
(* operator for a parameter.                                               *)
(***************************************************************************)
\* The pairs of natural numbers in order.
Less == {p \in Nat \X Nat : p[1] < p[2]}

\* The order of the natural numbers.
LEMMA LessIsWellFounded == IsWellFoundedOn(Less, Nat)
<1>1. OpToRel(<, Nat) = Less
  BY DEF OpToRel, Less
<1> QED
  BY <1>1, NatLessThanWellFounded

\* A set with 0 and every successor has every natural number.
LEMMA SetInduction ==
    ASSUME NEW S \in SUBSET Nat, 0 \in S, \A n \in S : n + 1 \in S
    PROVE  S = Nat
<1> SUFFICES ASSUME S # Nat
             PROVE  FALSE
  OBVIOUS
<1>1. Nat \ S # {} /\ Nat \ S \subseteq Nat
  OBVIOUS
<1>2. PICK x \in Nat \ S : \A y \in Nat \ S : <<y, x>> \notin Less
  BY <1>1, LessIsWellFounded, WFMin
<1>3. x # 0 /\ x - 1 \in Nat /\ (x - 1) + 1 = x /\ x - 1 < x
  OBVIOUS
<1>4. x - 1 \in S
  BY <1>2, <1>3 DEF Less
<1> QED
  BY <1>3, <1>4

\* A function to the natural numbers has a maximum on a set of positions.
LEMMA MaximumExists ==
    ASSUME NEW N \in Nat, NEW S, S \subseteq 1 .. N, S # {}, NEW f, \A k \in S : f[k] \in Nat
    PROVE  \E m \in S : \A k \in S : f[k] <= f[m]
<1> DEFINE Holds(n) == \/ S \cap (1 .. n) = {}
                       \/ \E m \in S \cap (1 .. n) : \A k \in S \cap (1 .. n) : f[k] <= f[m]
           K == {n \in Nat : Holds(n)}
<1>1. 0 \in K
  OBVIOUS
<1>2. ASSUME NEW n \in K PROVE n + 1 \in K
  <2>0. n \in Nat /\ n + 1 \in Nat /\ Holds(n)
    OBVIOUS
  <2>1. S \cap (1 .. n + 1) = (S \cap (1 .. n)) \cup (S \cap {n + 1})
    BY <2>0
  <2>2. CASE n + 1 \notin S
    BY <2>0, <2>1, <2>2
  <2>3. CASE n + 1 \in S /\ S \cap (1 .. n) = {}
    <3>1. S \cap (1 .. n + 1) = {n + 1}
      BY <2>1, <2>3
    <3>2. f[n + 1] <= f[n + 1]
      BY <2>3
    <3> QED BY <2>0, <3>1, <3>2
  <2>4. CASE n + 1 \in S /\ S \cap (1 .. n) # {}
    <3>1. PICK m \in S \cap (1 .. n) : \A k \in S \cap (1 .. n) : f[k] <= f[m]
      BY <2>0, <2>4
    <3>2. f[m] \in Nat /\ f[n + 1] \in Nat
      BY <2>4
    <3>3. CASE f[n + 1] <= f[m]
      <4>1. \A k \in S \cap (1 .. n + 1) : f[k] <= f[m]
        BY <2>1, <3>1, <3>3
      <4> QED BY <2>0, <2>1, <4>1
    <3>4. CASE f[m] < f[n + 1]
      <4>1. \A k \in S \cap (1 .. n + 1) : f[k] <= f[n + 1]
        BY <2>1, <3>1, <3>2, <3>4
      <4>2. n + 1 \in S \cap (1 .. n + 1)
        BY <2>1, <2>4
      <4> QED BY <2>0, <4>1, <4>2
    <3> QED BY <3>2, <3>3, <3>4
  <2> QED BY <2>2, <2>3, <2>4
<1>3. K = Nat
  <2>1. K \in SUBSET Nat
    OBVIOUS
  <2> HIDE DEF K
  <2> QED BY <1>1, <1>2, <2>1, SetInduction
<1>4. Holds(N)
  BY <1>3
<1>5. S \cap (1 .. N) = S
  OBVIOUS
<1> QED BY <1>4, <1>5

-----------------------------------------------------------------------------
(***************************************************************************)
(* The order of the source: what Position and Ordered compute.             *)
(***************************************************************************)
\* Behind is a strict total order of the records.
LEMMA BehindOrders ==
    ASSUME NEW i \in Int, NEW j \in Int
    PROVE  /\ i = j \/ Behind(i, j) \/ Behind(j, i)
           /\ Behind(i, j) => i # j /\ ~Behind(j, i)
BY DEF Behind

\* The records of a set up to one of them, in the order of the source.
UpTo(ids, id) == {k \in ids : ~Behind(id, k)}

\* The position of a record counts the records up to it.
LEMMA PositionIs ==
    ASSUME NEW ids \in SUBSET Int, NEW id \in Int
    PROVE  Position(ids, id) = Cardinality(UpTo(ids, id))
<1>1. {k \in ids : IF contract.newest THEN k >= id ELSE k <= id} = UpTo(ids, id)
  <2>1. ASSUME NEW k \in ids
        PROVE  (IF contract.newest THEN k >= id ELSE k <= id) <=> ~Behind(id, k)
    <3>1. k \in Int
      OBVIOUS
    <3>2. CASE contract.newest
      BY <3>1, <3>2 DEF Behind
    <3>3. CASE ~contract.newest
      BY <3>1, <3>3 DEF Behind
    <3> QED BY <3>2, <3>3
  <2> QED BY <2>1 DEF UpTo
<1> QED BY <1>1 DEF Position

\* The position of a record grows along the order.
LEMMA PositionGrows ==
    ASSUME NEW ids \in SUBSET Int, IsFiniteSet(ids), NEW i \in ids, NEW j \in ids
    PROVE  /\ Position(ids, i) \in 1 .. Cardinality(ids)
           /\ Cardinality(ids) \in Nat
           /\ Behind(i, j) => Position(ids, i) < Position(ids, j)
           /\ Position(ids, i) = Position(ids, j) => i = j
           /\ Position(ids, i) < Position(ids, j) => Behind(i, j)
<1>1. ASSUME NEW k \in ids
      PROVE  /\ UpTo(ids, k) \in SUBSET ids /\ k \in UpTo(ids, k)
             /\ IsFiniteSet(UpTo(ids, k))
             /\ Position(ids, k) = Cardinality(UpTo(ids, k))
             /\ Position(ids, k) \in 1 .. Cardinality(ids)
  <2>1. UpTo(ids, k) \in SUBSET ids /\ k \in UpTo(ids, k) /\ k \in Int
    BY DEF UpTo, Behind
  <2>2. IsFiniteSet(UpTo(ids, k)) /\ Cardinality(UpTo(ids, k)) <= Cardinality(ids)
    BY <2>1, FS_Subset
  <2>3. Cardinality(UpTo(ids, k)) \in Nat /\ Cardinality(ids) \in Nat
    BY <2>2, FS_CardinalityType
  <2>4. Cardinality(UpTo(ids, k)) # 0
    BY <2>1, <2>2, FS_EmptySet
  <2> QED BY <2>1, <2>2, <2>3, <2>4, PositionIs
<1>2. ASSUME NEW x \in ids, NEW y \in ids, Behind(x, y)
      PROVE  Position(ids, x) < Position(ids, y)
  <2>0. x \in Int /\ y \in Int
    OBVIOUS
  <2>3. ASSUME NEW k \in ids, ~Behind(x, k) PROVE ~Behind(y, k)
    <3>1. k \in Int
      OBVIOUS
    <3>2. CASE contract.newest
      BY <1>2, <2>0, <2>3, <3>1, <3>2 DEF Behind
    <3>3. CASE ~contract.newest
      BY <1>2, <2>0, <2>3, <3>1, <3>3 DEF Behind
    <3> QED BY <3>2, <3>3
  <2>1. UpTo(ids, x) \subseteq UpTo(ids, y) /\ y \in UpTo(ids, y) /\ y \notin UpTo(ids, x)
    BY <1>1, <1>2, <2>3 DEF UpTo
  <2>2. /\ Cardinality(UpTo(ids, x)) <= Cardinality(UpTo(ids, y))
        /\ Cardinality(UpTo(ids, x)) # Cardinality(UpTo(ids, y))
    BY <2>1, <1>1, FS_Subset
  <2> QED BY <2>2, <1>1
<1>3. Cardinality(ids) \in Nat
  BY FS_CardinalityType
<1>4. i \in Int /\ j \in Int
  OBVIOUS
<1>5. i = j \/ Behind(i, j) \/ Behind(j, i)
  BY <1>4, BehindOrders
<1>6. Position(ids, i) \in Int /\ Position(ids, j) \in Int
  BY <1>1
<1> QED BY <1>1, <1>2, <1>3, <1>5, <1>6

\* Ordered enumerates a finite set.
LEMMA OrderedEnumerates ==
    ASSUME NEW ids \in SUBSET Int, IsFiniteSet(ids)
    PROVE  /\ Cardinality(ids) \in Nat
           /\ Ordered(ids) \in Seq(ids)
           /\ Len(Ordered(ids)) = Cardinality(ids)
           /\ \A n \in 1 .. Cardinality(ids) :
                 Ordered(ids)[n] \in ids /\ Position(ids, Ordered(ids)[n]) = n
           /\ \A id \in ids : /\ Position(ids, id) \in 1 .. Cardinality(ids)
                              /\ Ordered(ids)[Position(ids, id)] = id
<1> DEFINE N == Cardinality(ids)
<1>0. N \in Nat
  BY FS_CardinalityType
<1> DEFINE pos == [id \in ids |-> Position(ids, id)]
<1>1. \A id \in ids : Position(ids, id) \in 1 .. N
  BY PositionGrows
<1>2. IsFiniteSet(1 .. N) /\ Cardinality(1 .. N) = N
  BY <1>0, FS_Interval
<1>3. pos \in [ids -> 1 .. N]
  BY <1>1
<1>4. pos \in Injection(ids, 1 .. N)
  <2>1. \A x, y \in ids : pos[x] = pos[y] => x = y
    BY PositionGrows
  <2> QED BY <2>1, <1>3 DEF Injection, IsInjective
<1>5. pos \in Surjection(ids, 1 .. N)
  <2> HIDE DEF pos
  <2> QED BY <1>2, <1>4, FS_Injection
<1>6. \A n \in 1 .. N : \E id \in ids : Position(ids, id) = n
  BY <1>5 DEF Surjection
<1>7. \A n \in 1 .. N : Ordered(ids)[n] \in ids /\ Position(ids, Ordered(ids)[n]) = n
  BY <1>6 DEF Ordered
<1>8. \A id \in ids : Ordered(ids)[Position(ids, id)] = id
  BY <1>1, <1>7, PositionGrows
<1>9. Ordered(ids) \in Seq(ids) /\ Len(Ordered(ids)) = N
  <2>1. Ordered(ids) = [n \in 1 .. N |-> Ordered(ids)[n]]
    BY DEF Ordered
  <2>2. Ordered(ids) \in [1 .. N -> ids]
    BY <2>1, <1>7
  <2> QED BY <2>2, <1>0
<1> QED BY <1>0, <1>1, <1>7, <1>8, <1>9

\* It is the only sequence of the set in the order of the source.
LEMMA OrderedIsUnique ==
    ASSUME NEW ids \in SUBSET Int, NEW s \in Seq(ids),
           \A id \in ids : \E n \in 1 .. Len(s) : s[n] = id,
           \A m, n \in 1 .. Len(s) : m < n => Behind(s[m], s[n])
    PROVE  IsFiniteSet(ids) /\ Ordered(ids) = s
<1>0. Len(s) \in Nat /\ \A n \in 1 .. Len(s) : s[n] \in ids /\ s[n] \in Int
  <2>1. Len(s) \in Nat /\ \A n \in 1 .. Len(s) : s[n] \in ids
    BY LenProperties
  <2> QED BY <2>1
<1>1. \A m, n \in 1 .. Len(s) : s[m] = s[n] => m = n
  <2> SUFFICES ASSUME NEW m \in 1 .. Len(s), NEW n \in 1 .. Len(s), s[m] = s[n], m # n
               PROVE  FALSE
    OBVIOUS
  <2>1. m < n \/ n < m
    BY <1>0
  <2>2. ~Behind(s[m], s[n]) /\ ~Behind(s[n], s[m])
    BY <1>0, BehindOrders
  <2> QED BY <2>1, <2>2
<1>2. ASSUME NEW n \in 0 .. Len(s)
      PROVE  LET T == {s[m] : m \in 1 .. n} IN IsFiniteSet(T) /\ Cardinality(T) = n
  <2> DEFINE T == {s[m] : m \in 1 .. n}
             f == [m \in 1 .. n |-> s[m]]
  <2>1. \A x, y \in 1 .. n : f[x] = f[y] => x = y
    BY <1>0, <1>1
  <2>2. f \in [1 .. n -> T] /\ \A t \in T : \E m \in 1 .. n : f[m] = t
    OBVIOUS
  <2>3. f \in Bijection(1 .. n, T)
    BY <2>1, <2>2 DEF Bijection, Injection, IsInjective, Surjection
  <2>4. IsFiniteSet(1 .. n) /\ Cardinality(1 .. n) = n
    BY <1>0, FS_Interval
  <2> HIDE DEF f
  <2>5. ExistsBijection(1 .. n, T)
    BY <2>3 DEF ExistsBijection
  <2> HIDE DEF T
  <2>6. IsFiniteSet(T) /\ Cardinality(T) = n
    BY <2>4, <2>5, FS_Bijection
  <2> QED BY <2>6 DEF T
<1>3. ids = {s[m] : m \in 1 .. Len(s)}
  BY <1>0
<1>4. IsFiniteSet(ids) /\ Cardinality(ids) = Len(s)
  <2>1. Len(s) \in 0 .. Len(s)
    BY <1>0
  <2> QED BY <1>2, <1>3, <2>1
<1>5. ASSUME NEW n \in 1 .. Len(s) PROVE Position(ids, s[n]) = n
  <2>1. \A m \in 1 .. Len(s) : ~Behind(s[n], s[m]) <=> m <= n
    <3> SUFFICES ASSUME NEW m \in 1 .. Len(s) PROVE ~Behind(s[n], s[m]) <=> m <= n
      OBVIOUS
    <3>1. m < n => Behind(s[m], s[n])
      OBVIOUS
    <3>2. n < m => Behind(s[n], s[m])
      OBVIOUS
    <3>3. Behind(s[m], s[n]) => ~Behind(s[n], s[m])
      BY <1>0, BehindOrders
    <3>4. ~Behind(s[n], s[n])
      BY <1>0, BehindOrders
    <3> QED BY <1>0, <3>1, <3>2, <3>3, <3>4
  <2>2. UpTo(ids, s[n]) = {s[m] : m \in 1 .. n}
    <3>1. \A k : k \in UpTo(ids, s[n]) <=> \E m \in 1 .. Len(s) : k = s[m] /\ m <= n
      BY <1>3, <2>1 DEF UpTo
    <3>2. \A m : m \in 1 .. n <=> m \in 1 .. Len(s) /\ m <= n
      BY <1>0
    <3> QED BY <3>1, <3>2
  <2>3. n \in 0 .. Len(s) /\ s[n] \in Int
    BY <1>0
  <2> QED BY <1>2, <2>2, <2>3, PositionIs
<1>6. /\ Ordered(ids) \in Seq(ids) /\ Len(Ordered(ids)) = Len(s)
      /\ \A id \in ids : Ordered(ids)[Position(ids, id)] = id
  BY <1>4, OrderedEnumerates
<1>7. \A n \in 1 .. Len(s) : Ordered(ids)[n] = s[n]
  BY <1>0, <1>5, <1>6
<1> QED BY <1>4, <1>6, <1>7, SeqEqual

-----------------------------------------------------------------------------
(***************************************************************************)
(* Watermarks: the order of structs with NULLs, the comparison of          *)
(* apply_watermark, and the maximum compute_watermark takes.               *)
(***************************************************************************)
\* The stamps and the contract, as far as watermarks depend on them.
StampsOK == contract \in Contracts /\ stamps \in Seq(Nat \X Nat)

\* What IsContract says of a contract that the model checks.
LEMMA ContractFacts ==
    ASSUME contract \in Contracts
    PROVE  /\ contract.kind \in {"rest", "http_file", "jdbc", "table", "files"}
           /\ contract.paging \in {"none", "page", "offset", "cursor", "link_header"}
           /\ contract.size \in Nat \ {0} /\ contract.maxPages \in Nat \ {0}
           /\ contract.attempts \in Nat \ {0} /\ contract.parts \in Nat \ {0}
           /\ contract.initial \in Nat /\ contract.columns \in 0 .. 2
           /\ contract.raw \in BOOLEAN /\ contract.newest \in BOOLEAN
           /\ contract.kind # "rest" => contract.paging = "none"
           /\ contract.kind # "jdbc" => contract.parts = 1
           /\ contract.push => contract.kind \in {"rest", "jdbc"}
           /\ contract.snapshot => contract.columns = 0
           /\ contract.regex => contract.kind = "files"
<1>1. IsContract(contract)
  BY ContractsAssumption
<1> QED BY <1>1 DEF IsContract

\* Records are positive numbers, and their stamps pairs of numbers.
LEMMA StampFacts ==
    ASSUME StampsOK
    PROVE  /\ Len(stamps) \in Nat
           /\ \A id \in Records : /\ id \in Nat /\ id >= 1
                                  /\ stamps[id] \in Nat \X Nat
                                  /\ stamps[id][1] \in Nat /\ stamps[id][2] \in Nat
<1>1. Len(stamps) \in Nat /\ \A id \in 1 .. Len(stamps) : stamps[id] \in Nat \X Nat
  BY LenProperties DEF StampsOK
<1>2. ASSUME NEW id \in Records
      PROVE  /\ id \in Nat /\ id >= 1 /\ stamps[id] \in Nat \X Nat
             /\ stamps[id][1] \in Nat /\ stamps[id][2] \in Nat
  <2>1. stamps[id] \in Nat \X Nat /\ id \in Nat /\ id >= 1
    BY <1>1 DEF Records
  <2> QED BY <2>1
<1> QED BY <1>1, <1>2

\* The first columns of a stamp.
LEMMA ColumnsOf ==
    ASSUME NEW s \in Nat \X Nat, NEW n \in 0 .. 2
    PROVE  /\ DOMAIN SubSeq(s, 1, n) = 1 .. n
           /\ \A i \in 1 .. n : SubSeq(s, 1, n)[i] = s[i]
           /\ SubSeq(s, 1, n) = <<>> <=> n = 0
<1>1. s[1] \in Nat /\ s[2] \in Nat
  OBVIOUS
<1>2. n \in Int /\ \A i \in 1 .. n : s[i] \in Nat
  BY <1>1
<1> DEFINE w == SubSeq(s, 1, n)
<1>3. /\ w \in Seq(Nat) /\ Len(w) = n
      /\ \A i \in 1 .. n - 1 + 1 : w[i] = s[1 + i - 1]
  BY <1>2, SubSeqProperties
<1> HIDE DEF w
<1>4. DOMAIN w = 1 .. n
  BY <1>3, LenProperties
<1>5. ASSUME NEW i \in 1 .. n PROVE w[i] = s[i]
  <2>1. i \in 1 .. n - 1 + 1 /\ 1 + i - 1 = i
    OBVIOUS
  <2> QED BY <1>3, <2>1
<1>6. w = <<>> <=> n = 0
  BY <1>3, EmptySeq
<1> QED BY <1>4, <1>5, <1>6 DEF w

\* The watermark of a record has the columns of the contract.
LEMMA WatermarkIs ==
    ASSUME StampsOK, NEW id \in Records
    PROVE  /\ contract.columns \in 0 .. 2
           /\ DOMAIN Watermark(id) = 1 .. contract.columns
           /\ \A i \in 1 .. contract.columns : Watermark(id)[i] = stamps[id][i]
           /\ Watermark(id) = NoWatermark <=> contract.columns = 0
<1>1. contract.columns \in 0 .. 2
  BY ContractFacts DEF StampsOK
<1>2. stamps[id] \in Nat \X Nat
  BY StampFacts
<1> QED BY <1>1, <1>2, ColumnsOf DEF Watermark, NoWatermark

\* The order of two watermarks, column by column.
LEMMA BelowIs ==
    ASSUME StampsOK, NEW i \in Records, NEW k \in Records
    PROVE  Below(Watermark(i), Watermark(k)) <=>
             \/ contract.columns >= 1 /\ stamps[i][1] < stamps[k][1]
             \/ contract.columns = 2 /\ stamps[i][1] = stamps[k][1] /\ stamps[i][2] < stamps[k][2]
<1> DEFINE u == Watermark(i)
           v == Watermark(k)
<1>1. /\ contract.columns \in 0 .. 2 /\ DOMAIN u = 1 .. contract.columns
      /\ \A n \in 1 .. contract.columns : u[n] = stamps[i][n] /\ v[n] = stamps[k][n]
  BY WatermarkIs
<1> HIDE DEF u, v
<1>2. CASE contract.columns = 0
  <2>1. DOMAIN u = {}
    BY <1>1, <1>2
  <2>2. ~Below(u, v)
    BY <2>1 DEF Below
  <2> QED BY <1>2, <2>2 DEF u, v
<1>3. CASE contract.columns = 1
  <2>1. DOMAIN u = {1} /\ u[1] = stamps[i][1] /\ v[1] = stamps[k][1]
    BY <1>1, <1>3
  <2>2. Below(u, v) <=> u[1] < v[1]
    BY <2>1 DEF Below
  <2> QED BY <1>3, <2>1, <2>2 DEF u, v
<1>4. CASE contract.columns = 2
  <2>1. /\ DOMAIN u = {1, 2} /\ u[1] = stamps[i][1] /\ v[1] = stamps[k][1]
        /\ u[2] = stamps[i][2] /\ v[2] = stamps[k][2]
    BY <1>1, <1>4
  <2>2. 1 .. 1 - 1 = {} /\ 1 .. 2 - 1 = {1}
    OBVIOUS
  <2>3. Below(u, v) <=> u[1] < v[1] \/ (u[2] < v[2] /\ u[1] = v[1])
    BY <2>1, <2>2 DEF Below
  <2> QED BY <1>4, <2>1, <2>3 DEF u, v
<1> QED BY <1>1, <1>2, <1>3, <1>4

\* apply_watermark's WHERE clause, column by column and without its NULLs.
LEMMA AfterIs ==
    ASSUME StampsOK, NEW i \in Records, NEW k \in Records
    PROVE  After(Watermark(i), Watermark(k)) <=>
             \/ /\ contract.columns >= 1
                /\ stamps[i][1] # Null /\ stamps[k][1] # Null /\ stamps[i][1] > stamps[k][1]
             \/ /\ contract.columns = 2
                /\ stamps[i][1] = stamps[k][1] /\ stamps[i][1] # Null
                /\ stamps[i][2] # Null /\ stamps[k][2] # Null /\ stamps[i][2] > stamps[k][2]
<1> DEFINE u == Watermark(i)
           v == Watermark(k)
<1>1. /\ contract.columns \in 0 .. 2 /\ DOMAIN u = 1 .. contract.columns
      /\ \A n \in 1 .. contract.columns : u[n] = stamps[i][n] /\ v[n] = stamps[k][n]
  BY WatermarkIs
<1> HIDE DEF u, v
<1>2. CASE contract.columns = 0
  <2>1. DOMAIN u = {}
    BY <1>1, <1>2
  <2>2. ~After(u, v)
    BY <2>1 DEF After
  <2> QED BY <1>2, <2>2 DEF u, v
<1>3. CASE contract.columns = 1
  <2>1. DOMAIN u = {1} /\ u[1] = stamps[i][1] /\ v[1] = stamps[k][1]
    BY <1>1, <1>3
  <2>2. After(u, v) <=> u[1] # Null /\ v[1] # Null /\ u[1] > v[1]
    BY <2>1 DEF After
  <2> QED BY <1>3, <2>1, <2>2 DEF u, v
<1>4. CASE contract.columns = 2
  <2>1. /\ DOMAIN u = {1, 2} /\ u[1] = stamps[i][1] /\ v[1] = stamps[k][1]
        /\ u[2] = stamps[i][2] /\ v[2] = stamps[k][2]
    BY <1>1, <1>4
  <2>2. 1 .. 1 - 1 = {} /\ 1 .. 2 - 1 = {1}
    OBVIOUS
  <2>3. After(u, v) <=>
          \/ u[1] # Null /\ v[1] # Null /\ u[1] > v[1]
          \/ u[1] = v[1] /\ u[1] # Null /\ u[2] # Null /\ v[2] # Null /\ u[2] > v[2]
    BY <2>1, <2>2 DEF After
  <2> QED BY <1>4, <2>1, <2>3 DEF u, v
<1> QED BY <1>1, <1>2, <1>3, <1>4

\* A maximum of watermarks, NULLs included.
LEMMA MaximalWatermark ==
    ASSUME StampsOK, NEW ids, ids \subseteq Records, ids # {}
    PROVE  \E m \in ids : \A k \in ids : ~Below(Watermark(m), Watermark(k))
<1>0. Len(stamps) \in Nat /\ ids \subseteq 1 .. Len(stamps) /\ contract.columns \in 0 .. 2
  BY StampFacts, ContractFacts DEF StampsOK, Records
<1> DEFINE f == [id \in Records |-> stamps[id][1]]
           g == [id \in Records |-> stamps[id][2]]
<1>1. \A k \in ids : /\ f[k] = stamps[k][1] /\ f[k] \in Nat
                     /\ g[k] = stamps[k][2] /\ g[k] \in Nat
  BY StampFacts
<1> HIDE DEF f, g
<1>2. PICK m \in ids : \A k \in ids : f[k] <= f[m]
  BY <1>0, <1>1, MaximumExists
<1> DEFINE top == {k \in ids : f[k] = f[m]}
<1>3. top # {} /\ top \subseteq 1 .. Len(stamps) /\ \A k \in top : g[k] \in Nat
  BY <1>0, <1>1
<1> HIDE DEF top
<1>4. PICK n \in top : \A k \in top : g[k] <= g[n]
  BY <1>0, <1>3, MaximumExists
<1>5. n \in ids /\ f[n] = f[m]
  BY <1>4 DEF top
<1>6. ASSUME NEW k \in ids PROVE ~Below(Watermark(n), Watermark(k))
  <2>1. /\ n \in Records /\ k \in Records /\ f[k] <= f[n] /\ f[k] \in Nat /\ f[n] \in Nat
        /\ g[k] \in Nat /\ g[n] \in Nat
    BY <1>1, <1>2, <1>5
  <2>2. f[k] = f[n] => g[k] <= g[n]
    BY <1>4, <1>5 DEF top
  <2>3. ~(f[n] < f[k]) /\ ~(f[n] = f[k] /\ g[n] < g[k])
    BY <2>1, <2>2
  <2>4. f[n] = stamps[n][1] /\ f[k] = stamps[k][1] /\ g[n] = stamps[n][2] /\ g[k] = stamps[k][2]
    BY <1>1, <1>5
  <2> QED BY <2>1, <2>3, <2>4, BelowIs
<1> QED BY <1>5, <1>6

\* What compute_watermark returns is None or the watermark of a row that no
\* other row exceeds.
LEMMA ComputedWatermark ==
    ASSUME StampsOK, NEW ids, ids \subseteq Records
    PROVE  \/ ComputeWatermark(ids) = NoWatermark
           \/ /\ contract.columns # 0
              /\ \E m \in ids : /\ ComputeWatermark(ids) = Watermark(m) /\ Watermark(m) # <<Null>>
                                /\ \A k \in ids : ~Below(Watermark(m), Watermark(k))
<1> DEFINE ws == {Watermark(id) : id \in ids}
           max == CHOOSE w \in ws : \A v \in ws : ~Below(w, v)
<1>1. ComputeWatermark(ids) =
        IF contract.columns = 0 \/ ws = {} \/ max = <<Null>> THEN NoWatermark ELSE max
  BY DEF ComputeWatermark
<1>2. CASE contract.columns = 0 \/ ids = {}
  BY <1>1, <1>2
<1>3. CASE contract.columns # 0 /\ ids # {}
  <2>1. \E w \in ws : \A v \in ws : ~Below(w, v)
    <3>1. PICK m \in ids : \A k \in ids : ~Below(Watermark(m), Watermark(k))
      BY <1>3, MaximalWatermark
    <3> QED BY <3>1
  <2>2. max \in ws /\ \A v \in ws : ~Below(max, v)
    BY <2>1
  <2>3. PICK m \in ids : max = Watermark(m)
    BY <2>2
  <2>4. \A k \in ids : ~Below(Watermark(m), Watermark(k))
    BY <2>2, <2>3
  <2>5. ws # {}
    BY <1>3
  <2> QED BY <1>1, <1>3, <2>3, <2>4, <2>5
<1> QED BY <1>2, <1>3

\* The state row, a failed look-up and a new maximum give None or the
\* watermark of some record.
LEMMA ComputedIsWatermark ==
    ASSUME StampsOK, NEW ids, ids \subseteq Records
    PROVE  ComputeWatermark(ids) \in {NoWatermark} \cup {Watermark(id) : id \in Records}
<1>1. CASE ComputeWatermark(ids) = NoWatermark
  BY <1>1
<1>2. CASE \E m \in ids : ComputeWatermark(ids) = Watermark(m)
  BY <1>2
<1> QED BY <1>1, <1>2, ComputedWatermark

-----------------------------------------------------------------------------
(***************************************************************************)
(* Pieces of the enumeration, and the reply to a request as one of them.   *)
(***************************************************************************)
\* The elements of a sequence.
Members(s) == {s[n] : n \in DOMAIN s}

\* What OrderedEnumerates says, in terms of the order.
LEMMA OrderedRises ==
    ASSUME NEW ids \in SUBSET Int, IsFiniteSet(ids)
    PROVE  \A m, n \in 1 .. Cardinality(ids) : m < n => Behind(Ordered(ids)[m], Ordered(ids)[n])
<1>1. ASSUME NEW m \in 1 .. Cardinality(ids), NEW n \in 1 .. Cardinality(ids), m < n
      PROVE  Behind(Ordered(ids)[m], Ordered(ids)[n])
  <2>1. /\ Ordered(ids)[m] \in ids /\ Position(ids, Ordered(ids)[m]) = m
        /\ Ordered(ids)[n] \in ids /\ Position(ids, Ordered(ids)[n]) = n
    BY OrderedEnumerates
  <2>2. Position(ids, Ordered(ids)[m]) < Position(ids, Ordered(ids)[n])
    BY <1>1, <2>1
  <2> QED BY <2>1, <2>2, PositionGrows
<1> QED BY <1>1

\* A piece of the enumeration has the records between two positions.
LEMMA PieceOfOrdered ==
    ASSUME NEW ids \in SUBSET Int, IsFiniteSet(ids),
           NEW from \in Nat \ {0}, NEW until \in Nat, until <= Cardinality(ids)
    PROVE  LET piece == SubSeq(Ordered(ids), from, until)
           IN  /\ piece \in Seq(ids)
               /\ Len(piece) = IF from <= until THEN until - from + 1 ELSE 0
               /\ \A n \in 1 .. Len(piece) : piece[n] = Ordered(ids)[from + n - 1]
               /\ Members(piece) = {id \in ids : Position(ids, id) \in from .. until}
<1> DEFINE O == Ordered(ids)
           piece == SubSeq(O, from, until)
<1>1. /\ Cardinality(ids) \in Nat /\ O \in Seq(ids) /\ Len(O) = Cardinality(ids)
      /\ \A n \in 1 .. Cardinality(ids) : O[n] \in ids /\ Position(ids, O[n]) = n
      /\ \A id \in ids : Position(ids, id) \in 1 .. Cardinality(ids) /\ O[Position(ids, id)] = id
  BY OrderedEnumerates
<1> HIDE DEF O
<1>2. \A n \in from .. until : n \in 1 .. Cardinality(ids) /\ O[n] \in ids
  BY <1>1
<1>3. /\ piece \in Seq(ids)
      /\ Len(piece) = IF from <= until THEN until - from + 1 ELSE 0
      /\ \A n \in 1 .. until - from + 1 : piece[n] = O[from + n - 1]
  BY <1>2, SubSeqProperties
<1>4. \A n \in 1 .. Len(piece) : n \in 1 .. until - from + 1
  BY <1>3
<1> HIDE DEF piece
<1>5. \A n \in 1 .. Len(piece) : piece[n] = O[from + n - 1]
  BY <1>3, <1>4
<1>6. DOMAIN piece = 1 .. Len(piece)
  BY <1>3, LenProperties
<1>7. ASSUME NEW id \in Members(piece)
      PROVE  id \in ids /\ Position(ids, id) \in from .. until
  <2>1. PICK n \in 1 .. Len(piece) : id = piece[n]
    BY <1>6 DEF Members
  <2>2. from + n - 1 \in from .. until
    BY <1>3, <2>1
  <2> QED BY <1>1, <1>2, <1>5, <2>1, <2>2
<1>8. ASSUME NEW id \in ids, Position(ids, id) \in from .. until
      PROVE  id \in Members(piece)
  <2> DEFINE n == Position(ids, id) - from + 1
  <2>1. n \in 1 .. Len(piece) /\ from + n - 1 = Position(ids, id)
    BY <1>3, <1>8
  <2>2. piece[n] = id
    BY <1>1, <1>5, <2>1
  <2> QED BY <1>6, <2>1, <2>2 DEF Members
<1> QED BY <1>3, <1>5, <1>7, <1>8 DEF piece, O

-----------------------------------------------------------------------------
\* Records of the source are positions in stamps, and finite sets of them.
LEMMA RecordSets ==
    ASSUME StampsOK, NEW ids, ids \subseteq Records
    PROVE  /\ ids \in SUBSET Int /\ IsFiniteSet(ids)
           /\ Cardinality(ids) \in Nat /\ Cardinality(ids) <= Len(stamps)
           /\ Len(stamps) \in Nat
<1>1. Len(stamps) \in Nat
  BY StampFacts
<1>2. IsFiniteSet(Records) /\ Cardinality(Records) = Len(stamps) /\ Records \subseteq Int
  BY <1>1, FS_Interval DEF Records
<1> QED BY <1>1, <1>2, FS_Subset, FS_CardinalityType

\* What a cursor leaves to ask for; all of it for the other paginations.
Remaining == {id \in Selected(read.value) : ByCursor /\ read.cursor # Null => Behind(read.cursor, id)}

\* The first and the last position of the page a request asks for.
First == IF ByPosition THEN read.pages * contract.size + 1 ELSE 1

Last == IF contract.paging = "none" \/ Cardinality(Remaining) <= First + contract.size - 1
        THEN Cardinality(Remaining) ELSE First + contract.size - 1

\* A reply is a piece of what remains.
LEMMA ReplyIs ==
    ASSUME StampsOK, listing \subseteq Records, read.pages \in Nat
    PROVE  /\ Remaining \subseteq Records
           /\ First \in Nat \ {0} /\ Last \in Nat /\ Last <= Cardinality(Remaining)
           /\ Cardinality(Remaining) \in Nat
           /\ Reply.records = SubSeq(Ordered(Remaining), First, Last)
           /\ Reply.records \in Seq(Remaining)
           /\ Len(Reply.records) = IF First <= Last THEN Last - First + 1 ELSE 0
           /\ \A n \in 1 .. Len(Reply.records) : Reply.records[n] = Ordered(Remaining)[First + n - 1]
           /\ Members(Reply.records) = {id \in Remaining : Position(Remaining, id) \in First .. Last}
           /\ Reply.more <=> Last < Cardinality(Remaining)
<1> DEFINE N == Cardinality(Remaining)
<1>1. Remaining \subseteq Records
  BY DEF Remaining, Selected
<1>2. Remaining \in SUBSET Int /\ IsFiniteSet(Remaining) /\ N \in Nat
  BY <1>1, RecordSets
<1>3. contract.size \in Nat \ {0}
  BY ContractFacts DEF StampsOK
<1>4. read.pages * contract.size \in Nat
  BY <1>3
<1>5. First \in Nat \ {0}
  BY <1>4 DEF First
<1>6. Last \in Nat /\ Last <= N
  BY <1>2, <1>3, <1>5 DEF Last
<1>7. Len(Ordered(Remaining)) = N
  BY <1>2, OrderedEnumerates
<1>8. Last = IF contract.paging = "none" THEN N
             ELSE IF First + contract.size - 1 < N THEN First + contract.size - 1 ELSE N
  BY <1>2, <1>3, <1>5 DEF Last
<1>9. Reply = [records |-> SubSeq(Ordered(Remaining), First, Last), more |-> Last < N]
  BY <1>7, <1>8 DEF Reply, Remaining, First
<1>10. Reply.records = SubSeq(Ordered(Remaining), First, Last) /\ (Reply.more <=> Last < N)
  BY <1>9
<1> QED BY <1>1, <1>2, <1>5, <1>6, <1>10, PieceOfOrdered

-----------------------------------------------------------------------------
(***************************************************************************)
(* Types, and what each step does to a load.                               *)
(***************************************************************************)
\* A record with a value in every watermark column.
NonNull(id) == \A i \in 1 .. contract.columns : stamps[id][i] # Null

\* The watermarks there can be.
Marks == {NoWatermark} \cup {Watermark(id) : id \in Records}

\* A load from Begin until its batch is written, and after that.
StartedReads ==
    [pc : {"refused", "reading", "evaluated"}, last : Marks, value : Nat, pages : Nat,
     attempt : Nat, cursor : Nat, todo : SUBSET (0 .. contract.parts - 1), files : SUBSET Records,
     got : Seq(Records), start : SUBSET Records, still : BOOLEAN]

WrittenReads == [pc : {"written"}, last : Marks, batch : SUBSET Records, still : BOOLEAN]

\* Requests or queries are left to make; the source has been resolved.
Reading == read.pc = "reading"
UnderWay == read.pc \in {"reading", "evaluated"}

\* What TypeOK says, with the fields of every kind of load.
TypeInv ==
    /\ StampsOK /\ Len(stamps) <= MaxRecords
    /\ listing \subseteq Records /\ target \subseteq Records /\ active \subseteq target
    /\ saved \in Marks
    /\ faults \in 0 .. MaxFaults
    /\ read \in {Idle} \cup StartedReads \cup WrittenReads
    /\ Reading => /\ read.attempt \in 1 .. contract.attempts
                  /\ read.pages \in 0 .. contract.maxPages - 1

\* It is the type invariant TLC checks, and more.
LEMMA TypeInvImplies == TypeInv => TypeOK
<1> SUFFICES ASSUME TypeInv PROVE TypeOK
  OBVIOUS
<1>1. \A id \in Records : stamps[id] \in Nat \X Nat
  BY StampFacts DEF TypeInv
<1>2. read.pc \in {"idle", "refused", "reading", "evaluated", "written"}
  BY DEF TypeInv, Idle, StartedReads, WrittenReads
<1>3. saved = NoWatermark \/ saved \in {Watermark(id) : id \in Records}
  BY DEF TypeInv, Marks
<1>4. ASSUME Reading
      PROVE  /\ read.attempt \in 1 .. contract.attempts /\ read.pages \in 0 .. contract.maxPages - 1
             /\ Got \subseteq Records /\ read.todo \subseteq 0 .. contract.parts - 1
  <2>1. read \in StartedReads
    BY <1>4 DEF TypeInv, Idle, WrittenReads, Reading
  <2>2. read.got \in Seq(Records) /\ read.todo \subseteq 0 .. contract.parts - 1
    BY <2>1 DEF StartedReads
  <2>3. Got \subseteq Records
    BY <2>2, LenProperties DEF Got
  <2> QED BY <1>4, <2>2, <2>3 DEF TypeInv
<1> QED BY <1>1, <1>2, <1>3, <1>4 DEF TypeOK, TypeInv, StampsOK, Reading

\* The kind of a read by its place.
LEMMA ReadKinds ==
    ASSUME TypeInv
    PROVE  /\ read # Idle => read \in StartedReads \cup WrittenReads
           /\ read.pc \in {"refused", "reading", "evaluated"} => read \in StartedReads /\ read # Idle
           /\ read.pc = "written" => read \in WrittenReads /\ read # Idle
           /\ read \in StartedReads => read.got \in Seq(Records) /\ Got \subseteq Records
           /\ read # Idle => read.last \in Marks
<1>1. read \in StartedReads => read.got \in Seq(Records) /\ Got \subseteq Records
  <2> SUFFICES ASSUME read \in StartedReads PROVE read.got \in Seq(Records) /\ Got \subseteq Records
    OBVIOUS
  <2>1. read.got \in Seq(Records)
    BY DEF StartedReads
  <2> QED BY <2>1, LenProperties DEF Got
<1>2. read.pc \in {"refused", "reading", "evaluated"} => read \in StartedReads /\ read # Idle
  BY DEF TypeInv, Idle, WrittenReads
<1>3. read.pc = "written" => read \in WrittenReads /\ read # Idle
  BY DEF TypeInv, Idle, StartedReads
<1>4. read # Idle => read.last \in Marks
  BY DEF TypeInv, WrittenReads, StartedReads
<1> QED BY <1>1, <1>2, <1>3, <1>4 DEF TypeInv

\* What arrives has a stamp.
LEMMA StampsAreStamps ==
    ASSUME StampsOK, NEW stamp \in Stamps
    PROVE  stamp \in Nat \X Nat
<1>1. Len(stamps) \in Nat /\ contract.columns \in 0 .. 2
  BY StampFacts, ContractFacts DEF StampsOK
<1>2. CASE contract.columns = 0
  BY <1>2 DEF Stamps
<1>3. CASE contract.columns = 1
  <2>1. stamp \in {<<Null, 1>>, <<Len(stamps) + 1, 1>>}
    BY <1>3 DEF Stamps
  <2> QED BY <1>1, <2>1 DEF Null
<1>4. CASE contract.columns = 2
  <2>1. stamp \in Values \X Values
    BY <1>4 DEF Stamps
  <2> QED BY <2>1, BoundsAssumption
<1> QED BY <1>1, <1>2, <1>3, <1>4

\* A record that arrives changes nothing about the others.
LEMMA ArriveFacts ==
    ASSUME TypeInv, NEW stamp \in Stamps, Arrive(stamp)
    PROVE  /\ StampsOK' /\ contract' = contract
           /\ Len(stamps) \in Nat /\ Len(stamps') = Len(stamps) + 1
           /\ Records' = Records \cup {Len(stamps) + 1} /\ Len(stamps) + 1 \notin Records
           /\ \A id \in Records : /\ stamps'[id] = stamps[id] /\ Watermark(id)' = Watermark(id)
                                  /\ id < Len(stamps) + 1
           /\ stamps'[Len(stamps) + 1] = stamp
<1>1. stamps \in Seq(Nat \X Nat) /\ stamp \in Nat \X Nat
  BY StampsAreStamps DEF TypeInv, StampsOK
<1>2. stamps' = Append(stamps, stamp) /\ contract' = contract
  BY DEF Arrive
<1>3. /\ Len(stamps) \in Nat /\ stamps' \in Seq(Nat \X Nat) /\ Len(stamps') = Len(stamps) + 1
      /\ \A id \in 1 .. Len(stamps) : stamps'[id] = stamps[id]
      /\ stamps'[Len(stamps) + 1] = stamp
  BY <1>1, <1>2
<1>4. StampsOK'
  BY <1>2, <1>3 DEF TypeInv, StampsOK
<1>5. /\ Records' = Records \cup {Len(stamps) + 1} /\ Len(stamps) + 1 \notin Records
      /\ \A id \in Records : id < Len(stamps) + 1
  BY <1>3 DEF Records
<1>6. \A id \in Records : stamps'[id] = stamps[id] /\ Watermark(id)' = Watermark(id)
  BY <1>2, <1>3 DEF Records, Watermark
<1> QED BY <1>2, <1>3, <1>4, <1>5, <1>6

\* Where the source does not change.
LEMMA QuietFacts ==
    ASSUME TypeInv, UNCHANGED sourceVars
    PROVE  /\ StampsOK' /\ Len(stamps') <= MaxRecords /\ listing' \subseteq Records'
           /\ Records' = Records /\ Marks' = Marks
           /\ \A id : Watermark(id)' = Watermark(id) /\ (NonNull(id)' <=> NonNull(id))
           /\ StartedReads' = StartedReads /\ WrittenReads' = WrittenReads
BY DEF sourceVars, TypeInv, StampsOK, Records, Marks, Watermark, StartedReads, WrittenReads, NonNull

\* A load that fails, for whatever reason.
Failed == read # Idle /\ Fail /\ faults' \in 0 .. MaxFaults

\* The steps, with all the ways to fail taken as one.
LEMMA StepCases ==
    ASSUME TypeInv, [Next]_vars
    PROVE  \/ \E stamp \in Stamps : Arrive(stamp)
           \/ \E id \in listing : Vanish(id)
           \/ \E readable \in BOOLEAN : Begin(readable)
           \/ Failed
           \/ ReadPage \/ Retry \/ OpenFiles \/ Write \/ Save
           \/ \E p \in 0 .. contract.parts - 1 : ReadPartition(p)
           \/ UNCHANGED vars
<1>0. MaxFaults \in Nat /\ faults \in 0 .. MaxFaults
  BY BoundsAssumption DEF TypeInv
<1>1. \A kind : Fault(kind) => faults' \in 0 .. MaxFaults
  BY <1>0 DEF Fault
<1>2. Refuse => Failed
  BY <1>0, ReadKinds DEF Refuse, Failed
<1>3. RefusePage => Failed
  BY <1>0, ReadKinds DEF RefusePage, Asking, Failed
<1>4. FileIsGone => Failed
  BY <1>0, ReadKinds DEF FileIsGone, Failed
<1>5. GiveUp => Failed
  BY <1>1, ReadKinds DEF GiveUp, Asking, Failed
<1>6. QueryFails => Failed
  BY <1>1, ReadKinds DEF QueryFails, Querying, Failed
<1>7. FailLate => Failed
  BY <1>1, ReadKinds DEF FailLate, Failed
<1>8. CASE Load
  BY <1>2, <1>3, <1>4, <1>8 DEF Load
<1>9. CASE Next
  BY <1>5, <1>6, <1>7, <1>8, <1>9 DEF Next
<1> QED BY <1>9

\* The watermark a load begins with.
LEMMA PreviousIsMark ==
    ASSUME TypeInv, NEW readable
    PROVE  Previous(readable) \in Marks
BY ComputedIsWatermark DEF Previous, TypeInv, Marks

\* The value pushed down with a watermark, to the sources that take one.
ValueOf(last) == IF contract.kind \in {"rest", "jdbc"} THEN PushedValue(last) ELSE Null

\* The value pushed down is a value or NULL.
LEMMA ValueIsNat ==
    ASSUME TypeInv, NEW last \in Marks
    PROVE  PushedValue(last) \in Nat /\ ValueOf(last) \in Nat
<1>1. contract.initial \in Nat /\ Null \in Nat
  BY ContractFacts DEF TypeInv, StampsOK, Null
<1>2. last # NoWatermark => last[1] \in Nat
  <2> SUFFICES ASSUME last # NoWatermark PROVE last[1] \in Nat
    OBVIOUS
  <2>1. PICK id \in Records : last = Watermark(id)
    BY DEF Marks
  <2>2. contract.columns \in 0 .. 2 /\ contract.columns # 0 /\ stamps[id][1] \in Nat
    BY <2>1, WatermarkIs, StampFacts DEF TypeInv
  <2>3. 1 \in 1 .. contract.columns
    BY <2>2
  <2> QED BY <2>1, <2>2, <2>3, WatermarkIs DEF TypeInv
<1> QED BY <1>1, <1>2 DEF ValueOf, PushedValue

\* How a load begins.
LEMMA BeginFacts ==
    ASSUME TypeInv, NEW readable \in BOOLEAN, Begin(readable)
    PROVE  /\ read = Idle /\ UNCHANGED <<sourceVars, target, active, saved>>
           /\ faults' \in 0 .. MaxFaults
           /\ read' \in StartedReads
           /\ read'.last = Previous(readable) /\ read'.last \in Marks
           /\ read'.value = ValueOf(read'.last)
           /\ read'.pages = 0 /\ read'.attempt = 1 /\ read'.cursor = Null
           /\ read'.got = <<>> /\ read'.start = Selected(read'.value) /\ read'.still = TRUE
           /\ contract.kind = "jdbc" => read'.todo = 0 .. contract.parts - 1
           /\ contract.kind = "table" => read'.todo = {0}
           /\ contract.kind = "files" => read'.files = Named
           /\ read'.pc \in {"refused", "reading"}
<1>1. MaxFaults \in Nat /\ faults \in 0 .. MaxFaults
  BY BoundsAssumption DEF TypeInv
<1>2. faults' \in 0 .. MaxFaults
  BY <1>1 DEF Begin, Fault
<1> DEFINE last == Previous(readable)
<1>3. last \in Marks
  BY PreviousIsMark
<1>4. PushedValue(last) \in Nat /\ ValueOf(last) \in Nat /\ Null \in Nat
  BY <1>3, ValueIsNat DEF Null
<1>5. /\ contract.parts \in Nat \ {0}
      /\ contract.kind # "jdbc" => contract.parts = 1
      /\ contract.kind \in {"rest", "http_file", "jdbc", "table", "files"}
  BY ContractFacts DEF TypeInv, StampsOK
<1>6. \A value : Selected(value) \subseteq Records
  BY DEF Selected, TypeInv
<1>7. Named \subseteq Records
  BY DEF Named, TypeInv
<1>8. \A value \in Nat : Resolved(last, value) \in StartedReads
  BY <1>3, <1>6 DEF Resolved, StartedReads, Null
<1> HIDE DEF last
<1>9. read' = CASE contract.kind = "rest"      -> RestRead(last)
                [] contract.kind = "http_file" -> HttpFileRead(last)
                [] contract.kind = "jdbc"      -> JdbcRead(last)
                [] contract.kind = "table"     -> TableRead(last)
                [] contract.kind = "files"     -> FilesRead(last)
  BY DEF Begin, last
<1> DEFINE v == ValueOf(last)
           Result(r) == /\ r \in StartedReads /\ r.last = last /\ r.value = v
                        /\ r.pages = 0 /\ r.attempt = 1 /\ r.cursor = Null
                        /\ r.got = <<>> /\ r.start = Selected(v) /\ r.still = TRUE
                        /\ contract.kind = "jdbc" => r.todo = 0 .. contract.parts - 1
                        /\ contract.kind = "table" => r.todo = {0}
                        /\ contract.kind = "files" => r.files = Named
                        /\ r.pc \in {"refused", "reading"}
<1>10. CASE contract.kind = "rest"
  <2>1. read' = Resolved(last, v) /\ v \in Nat
    BY <1>4, <1>9, <1>10 DEF RestRead, ValueOf
  <2>2. Result(read')
    BY <1>8, <1>10, <2>1 DEF Resolved
  <2> QED BY <1>2, <1>3, <2>2 DEF Begin, last
<1>11. CASE contract.kind = "http_file"
  <2>1. read' = Resolved(last, v) /\ v \in Nat
    BY <1>4, <1>9, <1>11 DEF HttpFileRead, ValueOf
  <2>2. Result(read')
    BY <1>8, <1>11, <2>1 DEF Resolved
  <2> QED BY <1>2, <1>3, <2>2 DEF Begin, last
<1>12. CASE contract.kind = "jdbc"
  <2>1. read' = [Resolved(last, v) EXCEPT !.todo = 0 .. contract.parts - 1] /\ v \in Nat
    BY <1>4, <1>9, <1>12 DEF JdbcRead, ValueOf
  <2>2. Resolved(last, v) \in StartedReads
    BY <1>8, <2>1
  <2>3. Result(read')
    BY <1>12, <2>1, <2>2 DEF Resolved, StartedReads
  <2> QED BY <1>2, <1>3, <2>3 DEF Begin, last
<1>13. CASE contract.kind = "table"
  <2>1. read' = [Resolved(last, v) EXCEPT !.todo = {0}] /\ v \in Nat
    BY <1>4, <1>9, <1>13 DEF TableRead, ValueOf
  <2>2. Resolved(last, v) \in StartedReads
    BY <1>8, <2>1
  <2>4. {0} \in SUBSET (0 .. contract.parts - 1)
    BY <1>5
  <2>3. Result(read')
    BY <1>13, <2>1, <2>2, <2>4 DEF Resolved, StartedReads
  <2> QED BY <1>2, <1>3, <2>3 DEF Begin, last
<1>14. CASE contract.kind = "files"
  <2>1. /\ read' = [Resolved(last, v) EXCEPT !.pc = IF NamingFails THEN "refused" ELSE "reading",
                                             !.files = Named]
        /\ v \in Nat
    BY <1>4, <1>9, <1>14 DEF FilesRead, ValueOf
  <2>2. Resolved(last, v) \in StartedReads
    BY <1>8, <2>1
  <2>3. Result(read')
    BY <1>7, <1>14, <2>1, <2>2 DEF Resolved, StartedReads
  <2> QED BY <1>2, <1>3, <2>3 DEF Begin, last
<1> QED BY <1>5, <1>10, <1>11, <1>12, <1>13, <1>14

\* A page that is appended adds its records.
LEMMA MembersOfConcat ==
    ASSUME NEW S, NEW s \in Seq(S), NEW t \in Seq(S)
    PROVE  Members(s \o t) = Members(s) \cup Members(t)
<1> DEFINE c == s \o t
<1>1. /\ DOMAIN c = 1 .. Len(s) + Len(t) /\ Len(s) \in Nat /\ Len(t) \in Nat
      /\ DOMAIN s = 1 .. Len(s) /\ DOMAIN t = 1 .. Len(t)
      /\ \A i \in 1 .. Len(s) + Len(t) : c[i] = IF i <= Len(s) THEN s[i] ELSE t[i - Len(s)]
  BY ConcatProperties, LenProperties
<1> HIDE DEF c
<1>2. ASSUME NEW x \in Members(c) PROVE x \in Members(s) \cup Members(t)
  <2>1. PICK i \in 1 .. Len(s) + Len(t) : x = c[i]
    BY <1>1 DEF Members
  <2>2. CASE i <= Len(s)
    <3>1. i \in 1 .. Len(s)
      BY <1>1, <2>2
    <3> QED BY <1>1, <2>1, <2>2, <3>1 DEF Members
  <2>3. CASE ~(i <= Len(s))
    <3>1. i - Len(s) \in 1 .. Len(t) /\ x = t[i - Len(s)]
      BY <1>1, <2>1, <2>3
    <3> QED BY <1>1, <3>1 DEF Members
  <2> QED BY <2>2, <2>3
<1>3. ASSUME NEW x \in Members(s) PROVE x \in Members(c)
  <2>1. PICK i \in 1 .. Len(s) : x = s[i]
    BY <1>1 DEF Members
  <2>2. i \in 1 .. Len(s) + Len(t) /\ i <= Len(s)
    BY <1>1
  <2> QED BY <1>1, <2>1, <2>2 DEF Members
<1>4. ASSUME NEW x \in Members(t) PROVE x \in Members(c)
  <2>1. PICK i \in 1 .. Len(t) : x = t[i]
    BY <1>1 DEF Members
  <2>2. /\ Len(s) + i \in 1 .. Len(s) + Len(t) /\ ~(Len(s) + i <= Len(s))
        /\ Len(s) + i - Len(s) = i
    BY <1>1
  <2>3. c[Len(s) + i] = x
    BY <1>1, <2>1, <2>2
  <2> QED BY <1>1, <2>2, <2>3 DEF Members
<1> QED BY <1>2, <1>3, <1>4 DEF c

\* What a request does to the load.
LEMMA ReadPageFacts ==
    ASSUME TypeInv, ReadPage
    PROVE  /\ Reading /\ contract.kind \in {"rest", "http_file"} /\ ~Exceeds(Reply.records)
           /\ read \in StartedReads /\ read.got \in Seq(Records) /\ Reply.records \in Seq(Records)
           /\ read' \in StartedReads
           /\ read'.pc = IF IsLast(Reply) THEN "evaluated" ELSE "reading"
           /\ read'.pages = read.pages + 1 /\ read'.attempt = 1
           /\ read'.got = read.got \o Reply.records /\ read'.cursor = NextCursor(Reply.records)
           /\ read'.last = read.last /\ read'.value = read.value /\ read'.start = read.start
           /\ read'.still = read.still /\ read'.todo = read.todo /\ read'.files = read.files
           /\ Got' = Got \cup Members(Reply.records)
           /\ UNCHANGED <<sourceVars, target, active, saved, faults>>
<1>1. Reading /\ contract.kind \in {"rest", "http_file"} /\ read \in StartedReads
  BY ReadKinds DEF ReadPage, Asking, Reading
<1>2. read.pages \in Nat /\ read.got \in Seq(Records)
  BY <1>1 DEF StartedReads
<1>3. Reply.records \in Seq(Records)
  BY <1>2, ReplyIs, SeqMonotonic DEF TypeInv
<1>4. read.got \o Reply.records \in Seq(Records)
  BY <1>2, <1>3, ConcatProperties
<1>5. NextCursor(Reply.records) \in Nat
  <2> DEFINE p == Reply.records
  <2> HIDE DEF p
  <2>1. p \in Seq(Records) /\ Len(p) \in Nat /\ (p # <<>> => Len(p) \in 1 .. Len(p))
    BY <1>3, EmptySeq, LenProperties DEF p
  <2>2. p # <<>> => p[Len(p)] \in Records
    BY <2>1, ElementOfSeq
  <2>3. \A id \in Records : id \in Nat
    BY StampFacts DEF TypeInv
  <2>4. NextCursor(p) \in Nat
    BY <2>2, <2>3 DEF NextCursor, Null
  <2> QED BY <2>4 DEF p
<1> DEFINE page == Reply.records
           done == IsLast(Reply)
<1>6. read' = [read EXCEPT !.pc = IF done THEN "evaluated" ELSE "reading",
                            !.pages = @ + 1,
                            !.attempt = 1,
                            !.got = @ \o page,
                            !.cursor = NextCursor(page)]
  BY DEF ReadPage
<1> HIDE DEF page, done
<1>7. /\ read' \in StartedReads
      /\ read'.pc = IF done THEN "evaluated" ELSE "reading"
      /\ read'.pages = read.pages + 1 /\ read'.attempt = 1
      /\ read'.got = read.got \o page /\ read'.cursor = NextCursor(page)
      /\ read'.last = read.last /\ read'.value = read.value /\ read'.start = read.start
      /\ read'.still = read.still /\ read'.todo = read.todo /\ read'.files = read.files
  <2>1. UNCHANGED sourceVars
    BY DEF ReadPage
  <2>2. StartedReads' = StartedReads
    BY <2>1, QuietFacts
  <2>3. read.got \o page \in Seq(Records) /\ NextCursor(page) \in Nat /\ read.pages + 1 \in Nat
    BY <1>2, <1>4, <1>5 DEF page
  <2>4. read' \in StartedReads
    BY <1>1, <1>6, <2>3 DEF StartedReads
  <2>5. read' = [pc |-> IF done THEN "evaluated" ELSE "reading", last |-> read.last,
                 value |-> read.value, pages |-> read.pages + 1, attempt |-> 1,
                 cursor |-> NextCursor(page), todo |-> read.todo, files |-> read.files,
                 got |-> read.got \o page, start |-> read.start, still |-> read.still]
    BY <1>1, <1>6 DEF StartedReads
  <2> QED BY <2>4, <2>5
<1>8. Got' = Got \cup Members(page)
  <2>1. Members(read.got \o page) = Members(read.got) \cup Members(page)
    BY <1>2, <1>3, MembersOfConcat DEF page
  <2> QED BY <1>7, <2>1 DEF Got, Members
<1> QED BY <1>1, <1>2, <1>3, <1>7, <1>8 DEF ReadPage, page, done

\* The records of one partition.
Partition(p) == {id \in Selected(read.value) : id % contract.parts = p}

\* The query of a partition returns its records.
LEMMA PartitionIs ==
    ASSUME TypeInv, NEW p
    PROVE  /\ Partition(p) \subseteq Records
           /\ Ordered(Partition(p)) \in Seq(Records)
           /\ Len(Ordered(Partition(p))) = Cardinality(Partition(p))
           /\ Members(Ordered(Partition(p))) = Partition(p)
<1>1. Partition(p) \subseteq Records
  BY DEF Partition, Selected, TypeInv
<1> DEFINE ids == Partition(p)
<1> HIDE DEF ids
<1>2. ids \in SUBSET Int /\ IsFiniteSet(ids) /\ ids \subseteq Records
  BY <1>1, RecordSets DEF TypeInv, ids
<1>3. /\ Cardinality(ids) \in Nat /\ Ordered(ids) \in Seq(ids) /\ Len(Ordered(ids)) = Cardinality(ids)
      /\ \A n \in 1 .. Cardinality(ids) : Ordered(ids)[n] \in ids
      /\ \A id \in ids : /\ Position(ids, id) \in 1 .. Cardinality(ids)
                         /\ Ordered(ids)[Position(ids, id)] = id
  BY <1>2, OrderedEnumerates
<1>4. Ordered(ids) \in Seq(Records)
  BY <1>2, <1>3, SeqMonotonic
<1>5. DOMAIN Ordered(ids) = 1 .. Cardinality(ids)
  BY <1>3, LenProperties
<1>6. Members(Ordered(ids)) = ids
  BY <1>3, <1>5 DEF Members
<1> QED BY <1>1, <1>3, <1>4, <1>6 DEF ids

\* What the query of a partition does to the load.
LEMMA ReadPartitionFacts ==
    ASSUME TypeInv, NEW p \in 0 .. contract.parts - 1, ReadPartition(p)
    PROVE  /\ Reading /\ contract.kind \in {"jdbc", "table"} /\ p \in read.todo
           /\ read \in StartedReads /\ read' \in StartedReads
           /\ read'.pc = IF read.todo = {p} THEN "evaluated" ELSE "reading"
           /\ read'.todo = read.todo \ {p}
           /\ read'.got = read.got \o Ordered(Partition(p))
           /\ read'.pages = read.pages /\ read'.attempt = read.attempt /\ read'.cursor = read.cursor
           /\ read'.last = read.last /\ read'.value = read.value /\ read'.start = read.start
           /\ read'.still = read.still /\ read'.files = read.files
           /\ Got' = Got \cup Partition(p)
           /\ UNCHANGED <<sourceVars, target, active, saved, faults>>
<1>1. Reading /\ contract.kind \in {"jdbc", "table"} /\ p \in read.todo /\ read \in StartedReads
  BY ReadKinds DEF ReadPartition, Querying, Reading
<1> DEFINE part == Ordered(Partition(p))
<1>2. read.got \in Seq(Records) /\ part \in Seq(Records) /\ read.got \o part \in Seq(Records)
  BY <1>1, PartitionIs, ConcatProperties DEF StartedReads
<1>3. read' = [read EXCEPT !.todo = @ \ {p},
                           !.pc = IF read.todo = {p} THEN "evaluated" ELSE "reading",
                           !.got = @ \o part]
  BY DEF ReadPartition, Partition
<1>4. Members(part) = Partition(p)
  BY PartitionIs
<1> HIDE DEF part
<1>5. StartedReads' = StartedReads
  BY QuietFacts DEF ReadPartition
<1>6. read' = [pc |-> IF read.todo = {p} THEN "evaluated" ELSE "reading", last |-> read.last,
               value |-> read.value, pages |-> read.pages, attempt |-> read.attempt,
               cursor |-> read.cursor, todo |-> read.todo \ {p}, files |-> read.files,
               got |-> read.got \o part, start |-> read.start, still |-> read.still]
  BY <1>1, <1>3 DEF StartedReads
<1>7. read.todo \ {p} \in SUBSET (0 .. contract.parts - 1)
  BY <1>1 DEF StartedReads
<1>8. read' \in StartedReads
  BY <1>1, <1>2, <1>5, <1>6, <1>7 DEF StartedReads
<1>9. Members(read.got \o part) = Got \cup Partition(p)
  <2>1. Members(read.got \o part) = Members(read.got) \cup Members(part)
    BY <1>2, MembersOfConcat
  <2>2. Members(read.got) = Got
    BY DEF Members, Got
  <2> QED BY <1>4, <2>1, <2>2
<1>10. Got' = Got \cup Partition(p)
  BY <1>6, <1>9 DEF Got, Members
<1>11. UNCHANGED <<sourceVars, target, active, saved, faults>>
  BY DEF ReadPartition
<1> QED BY <1>1, <1>6, <1>8, <1>10, <1>11 DEF part

\* What opening the files does to the load.
LEMMA OpenFilesFacts ==
    ASSUME TypeInv, OpenFiles
    PROVE  /\ Reading /\ contract.kind = "files" /\ read.files \subseteq listing
           /\ read \in StartedReads /\ read' \in StartedReads
           /\ read'.pc = "evaluated" /\ read'.got = Ordered(read.files)
           /\ read'.pages = read.pages /\ read'.attempt = read.attempt /\ read'.cursor = read.cursor
           /\ read'.last = read.last /\ read'.value = read.value /\ read'.start = read.start
           /\ read'.still = read.still /\ read'.files = read.files /\ read'.todo = read.todo
           /\ Got' = read.files
           /\ UNCHANGED <<sourceVars, target, active, saved, faults>>
<1>1. Reading /\ contract.kind = "files" /\ read.files \subseteq listing /\ read \in StartedReads
  BY ReadKinds DEF OpenFiles, Reading
<1> DEFINE ids == read.files
<1>2. ids \subseteq Records
  BY <1>1 DEF StartedReads
<1> DEFINE O == Ordered(ids)
<1>3. read' = [read EXCEPT !.pc = "evaluated", !.got = O]
  BY DEF OpenFiles
<1>4. O \in Seq(Records) /\ Members(O) = ids
  <2> HIDE DEF ids
  <2>2. ids \in SUBSET Int /\ IsFiniteSet(ids)
    BY <1>2, RecordSets DEF TypeInv
  <2>3. /\ Cardinality(ids) \in Nat /\ Ordered(ids) \in Seq(ids) /\ Len(Ordered(ids)) = Cardinality(ids)
        /\ \A n \in 1 .. Cardinality(ids) : Ordered(ids)[n] \in ids
        /\ \A id \in ids : /\ Position(ids, id) \in 1 .. Cardinality(ids)
                           /\ Ordered(ids)[Position(ids, id)] = id
    BY <2>2, OrderedEnumerates
  <2>4. DOMAIN O = 1 .. Cardinality(ids)
    BY <2>3, LenProperties
  <2>5. Members(O) = ids
    BY <2>3, <2>4 DEF Members
  <2> QED BY <1>2, <2>3, <2>5, SeqMonotonic
<1> HIDE DEF O
<1>5. StartedReads' = StartedReads
  BY QuietFacts DEF OpenFiles
<1>6. read' = [pc |-> "evaluated", last |-> read.last, value |-> read.value, pages |-> read.pages,
               attempt |-> read.attempt, cursor |-> read.cursor, todo |-> read.todo,
               files |-> read.files, got |-> O, start |-> read.start, still |-> read.still]
  BY <1>1, <1>3 DEF StartedReads
<1>7. read' \in StartedReads
  BY <1>1, <1>4, <1>5, <1>6 DEF StartedReads
<1>8. Got' = ids
  BY <1>4, <1>6 DEF Got, Members
<1> QED BY <1>1, <1>6, <1>7, <1>8 DEF OpenFiles, O

\* What a write stores.
Batch == ApplyWatermark(Got, read.last)

\* What a write does to the target.
LEMMA WriteFacts ==
    ASSUME TypeInv, Write
    PROVE  /\ read.pc = "evaluated" /\ read \in StartedReads
           /\ Batch \subseteq Got /\ Batch \subseteq Records
           /\ target' = target \cup Batch
           /\ active' = IF contract.snapshot /\ Batch # {} THEN Batch ELSE active
           /\ read' = [pc |-> "written", last |-> read.last, batch |-> Batch, still |-> read.still]
           /\ read' \in WrittenReads
           /\ UNCHANGED <<sourceVars, saved, faults>>
<1>1. read.pc = "evaluated" /\ read \in StartedReads /\ Got \subseteq Records
  BY ReadKinds DEF Write
<1>2. Batch \subseteq Got
  BY DEF Batch, ApplyWatermark
<1>3. /\ target' = target \cup Batch
      /\ active' = IF contract.snapshot /\ Batch # {} THEN Batch ELSE active
      /\ read' = [pc |-> "written", last |-> read.last, batch |-> Batch, still |-> read.still]
      /\ UNCHANGED <<sourceVars, saved, faults>>
  BY DEF Write, Batch
<1>4. read.last \in Marks /\ read.still \in BOOLEAN
  BY <1>1 DEF StartedReads
<1>5. WrittenReads' = WrittenReads
  BY <1>3, QuietFacts
<1>6. read' \in WrittenReads
  BY <1>1, <1>2, <1>3, <1>4, <1>5 DEF WrittenReads
<1> QED BY <1>1, <1>2, <1>3, <1>6

\* The invariant holds before the first load.
LEMMA TypeInvInit == Init => TypeInv
<1> SUFFICES ASSUME Init PROVE TypeInv
  OBVIOUS
<1>1. StampsOK /\ Len(stamps) = 0
  BY EmptySeq DEF Init, StampsOK
<1>2. MaxRecords \in Nat /\ MaxFaults \in Nat
  BY BoundsAssumption
<1> QED BY <1>1, <1>2 DEF Init, TypeInv, Marks, Reading, Idle

\* A load that is disturbed is the same load.
LEMMA DisturbedFacts ==
    ASSUME TypeInv, read' = Disturbed
    PROVE  /\ read = Idle => read' = Idle
           /\ read # Idle => read' # Idle
           /\ read'.pc = read.pc
           /\ read # Idle => read'.last = read.last /\ ~read'.still
           /\ read \in StartedReads =>
                /\ read' \in StartedReads
                /\ read'.value = read.value /\ read'.pages = read.pages /\ read'.attempt = read.attempt
                /\ read'.cursor = read.cursor /\ read'.todo = read.todo /\ read'.files = read.files
                /\ read'.got = read.got /\ read'.start = read.start
                /\ Got' = Got
           /\ read \in WrittenReads => read' \in WrittenReads /\ read'.batch = read.batch
<1>1. CASE read = Idle
  BY <1>1 DEF Disturbed, Idle, StartedReads, WrittenReads
<1>2. CASE read \in StartedReads
  <2>1. read # Idle
    BY <1>2 DEF Idle, StartedReads
  <2>2. read' = [read EXCEPT !.still = FALSE]
    BY <2>1 DEF Disturbed
  <2>3. read' = [pc |-> read.pc, last |-> read.last, value |-> read.value, pages |-> read.pages,
                 attempt |-> read.attempt, cursor |-> read.cursor, todo |-> read.todo,
                 files |-> read.files, got |-> read.got, start |-> read.start, still |-> FALSE]
    BY <1>2, <2>2 DEF StartedReads
  <2>4. read' \in StartedReads
    BY <1>2, <2>3 DEF StartedReads
  <2>5. Got' = Got
    BY <2>3 DEF Got
  <2>6. read \notin WrittenReads /\ read' # Idle
    BY <1>2, <2>3 DEF StartedReads, WrittenReads, Idle
  <2> QED BY <1>2, <2>1, <2>3, <2>4, <2>5, <2>6
<1>3. CASE read \in WrittenReads
  <2>1. read # Idle
    BY <1>3 DEF Idle, WrittenReads
  <2>2. read' = [read EXCEPT !.still = FALSE]
    BY <2>1 DEF Disturbed
  <2>3. read' = [pc |-> "written", last |-> read.last, batch |-> read.batch, still |-> FALSE]
        /\ read.pc = "written"
    BY <1>3, <2>2 DEF WrittenReads
  <2>4. read' \in WrittenReads
    BY <1>3, <2>3 DEF WrittenReads
  <2>5. read \notin StartedReads /\ read' # Idle
    BY <1>3, <2>3 DEF StartedReads, WrittenReads, Idle
  <2> QED BY <2>1, <2>3, <2>4, <2>5
<1> QED BY <1>1, <1>2, <1>3 DEF TypeInv

\* The watermark a load saves is a watermark.
LEMMA CurrentIsMark ==
    ASSUME TypeInv, NEW ids, ids \subseteq Records, NEW last \in Marks
    PROVE  CurrentWatermark(ids, last) \in Marks
BY ComputedIsWatermark DEF CurrentWatermark, TypeInv, Marks

\* Every step keeps the types.
LEMMA TypeInvNext == TypeInv /\ [Next]_vars => TypeInv'
<1> SUFFICES ASSUME TypeInv, [Next]_vars PROVE TypeInv'
  OBVIOUS
<1>1. ASSUME NEW stamp \in Stamps, Arrive(stamp) PROVE TypeInv'
  <2>0. /\ StampsOK' /\ contract' = contract /\ Len(stamps) \in Nat /\ Len(stamps') = Len(stamps) + 1
        /\ Records' = Records \cup {Len(stamps) + 1}
        /\ \A id \in Records : Watermark(id)' = Watermark(id)
    BY <1>1, ArriveFacts
  <2>1. MaxRecords \in Nat /\ Len(stamps') <= MaxRecords
    BY <1>1, <2>0, BoundsAssumption DEF Arrive
  <2>2. /\ listing' = listing \cup {Len(stamps) + 1} /\ read' = Disturbed
        /\ UNCHANGED <<target, active, saved, faults>>
    BY <1>1 DEF Arrive
  <2>3. Marks \subseteq Marks'
    BY <2>0 DEF Marks
  <2>4. Seq(Records) \subseteq Seq(Records')
    BY <2>0, SeqMonotonic
  <2>5. StartedReads \subseteq StartedReads'
    BY <2>0, <2>3, <2>4 DEF StartedReads
  <2>6. WrittenReads \subseteq WrittenReads'
    BY <2>0, <2>3 DEF WrittenReads
  <2>7. read' \in {Idle} \cup StartedReads' \cup WrittenReads'
    BY <2>2, <2>5, <2>6, DisturbedFacts DEF TypeInv
  <2>8. Reading' => read'.attempt \in 1 .. contract'.attempts /\ read'.pages \in 0 .. contract'.maxPages - 1
    BY <2>0, <2>2, DisturbedFacts, ReadKinds DEF TypeInv, Reading
  <2> QED BY <2>0, <2>1, <2>2, <2>3, <2>7, <2>8 DEF TypeInv
<1>2. ASSUME NEW id \in listing, Vanish(id) PROVE TypeInv'
  <2>1. /\ listing' = listing \ {id} /\ read' = Disturbed
        /\ UNCHANGED <<contract, stamps, target, active, saved, faults>>
    BY <1>2 DEF Vanish
  <2>2. StartedReads' = StartedReads /\ WrittenReads' = WrittenReads /\ Records' = Records
        /\ Marks' = Marks /\ StampsOK'
    BY <2>1 DEF StartedReads, WrittenReads, Records, Marks, Watermark, StampsOK, TypeInv
  <2>7. read' \in {Idle} \cup StartedReads' \cup WrittenReads'
    BY <2>1, <2>2, DisturbedFacts DEF TypeInv
  <2>8. Reading' => read'.attempt \in 1 .. contract'.attempts /\ read'.pages \in 0 .. contract'.maxPages - 1
    BY <2>1, DisturbedFacts, ReadKinds DEF TypeInv, Reading
  <2> QED BY <2>1, <2>2, <2>7, <2>8 DEF TypeInv
<1> DEFINE Quiet == /\ StampsOK' /\ Len(stamps') <= MaxRecords /\ listing' \subseteq Records'
                    /\ Records' = Records /\ Marks' = Marks
                    /\ StartedReads' = StartedReads /\ WrittenReads' = WrittenReads
<1>q. UNCHANGED sourceVars => Quiet
  BY QuietFacts
<1>3. ASSUME NEW readable \in BOOLEAN, Begin(readable) PROVE TypeInv'
  <2>1. /\ UNCHANGED <<sourceVars, target, active, saved>> /\ faults' \in 0 .. MaxFaults
        /\ read' \in StartedReads /\ read'.pages = 0 /\ read'.attempt = 1
    BY <1>3, BeginFacts
  <2>2. contract.attempts \in Nat \ {0} /\ contract.maxPages \in Nat \ {0} /\ contract' = contract
    BY <2>1, ContractFacts DEF TypeInv, StampsOK, sourceVars
  <2> QED BY <1>q, <2>1, <2>2 DEF TypeInv, Reading
<1>4. CASE Failed
  <2>1. UNCHANGED <<sourceVars, target, active>> /\ faults' \in 0 .. MaxFaults
        /\ saved' = read.last /\ read' = Idle /\ read.last \in Marks
    BY <1>4, ReadKinds DEF Failed, Fail
  <2> QED BY <1>q, <2>1 DEF TypeInv, Reading, Idle
<1>5. CASE ReadPage
  <2>1. /\ Reading /\ UNCHANGED <<sourceVars, target, active, saved, faults>>
        /\ read' \in StartedReads /\ read'.pages = read.pages + 1 /\ read'.attempt = 1
        /\ read'.pc = IF IsLast(Reply) THEN "evaluated" ELSE "reading"
    BY <1>5, ReadPageFacts
  <2>2. contract.attempts \in Nat \ {0} /\ contract.maxPages \in Nat \ {0} /\ contract' = contract
    BY <2>1, ContractFacts DEF TypeInv, StampsOK, sourceVars
  <2>3. Reading' => read.pages + 1 # contract.maxPages
    BY <2>1 DEF Reading, IsLast
  <2>4. read.pages \in 0 .. contract.maxPages - 1
    BY <2>1 DEF TypeInv
  <2> QED BY <1>q, <2>1, <2>2, <2>3, <2>4 DEF TypeInv, Reading
<1>6. CASE Retry
  <2>1. /\ Reading /\ read \in StartedReads /\ UNCHANGED <<sourceVars, target, active, saved>>
        /\ read' = [read EXCEPT !.attempt = @ + 1] /\ read.attempt < contract.attempts
        /\ faults' \in 0 .. MaxFaults
    <3>1. MaxFaults \in Nat /\ faults \in 0 .. MaxFaults
      BY BoundsAssumption DEF TypeInv
    <3>2. faults' \in 0 .. MaxFaults
      BY <1>6, <3>1 DEF Retry, Fault
    <3> QED BY <1>6, <3>2, ReadKinds DEF Retry, Asking, Reading
  <2>2. read.attempt \in 1 .. contract.attempts /\ read.pages \in 0 .. contract.maxPages - 1
        /\ contract.attempts \in Nat /\ contract' = contract
    BY <2>1, ContractFacts DEF TypeInv, StampsOK, sourceVars
  <2>3. read' \in StartedReads /\ read'.attempt = read.attempt + 1 /\ read'.pages = read.pages
    <3>1. read.attempt + 1 \in Nat \ {0}
      BY <2>2
    <3> DEFINE next == read.attempt + 1
    <3>2. read' = [read EXCEPT !.attempt = next]
      BY <2>1
    <3>3. next \in Nat \ {0}
      BY <3>1
    <3> HIDE DEF next
    <3>4. read' \in StartedReads /\ read'.attempt = next /\ read'.pages = read.pages
      BY <2>1, <3>2, <3>3 DEF StartedReads
    <3> QED BY <3>4 DEF next
  <2> QED BY <1>q, <2>1, <2>2, <2>3 DEF TypeInv
<1>7. CASE OpenFiles
  <2>1. /\ read' \in StartedReads /\ read'.pc = "evaluated"
        /\ UNCHANGED <<sourceVars, target, active, saved, faults>>
    BY <1>7, OpenFilesFacts
  <2> QED BY <1>q, <2>1 DEF TypeInv, Reading
<1>8. CASE Write
  <2>1. /\ Batch \subseteq Records /\ target' = target \cup Batch
        /\ active' = IF contract.snapshot /\ Batch # {} THEN Batch ELSE active
        /\ read' \in WrittenReads /\ read'.pc = "written" /\ UNCHANGED <<sourceVars, saved, faults>>
    BY <1>8, WriteFacts
  <2>2. target' \subseteq Records /\ active' \subseteq target'
    BY <2>1 DEF TypeInv
  <2> QED BY <1>q, <2>1, <2>2 DEF TypeInv, Reading
<1>9. CASE Save
  <2>1. /\ read.pc = "written" /\ saved' = CurrentWatermark(read.batch, read.last) /\ read' = Idle
        /\ UNCHANGED <<sourceVars, target, active, faults>>
    BY <1>9 DEF Save
  <2>2. read.batch \subseteq Records /\ read.last \in Marks
    BY <2>1, ReadKinds DEF WrittenReads
  <2>3. saved' \in Marks
    BY <2>1, <2>2, CurrentIsMark
  <2> QED BY <1>q, <2>1, <2>3 DEF TypeInv, Reading, Idle
<1>10. ASSUME NEW p \in 0 .. contract.parts - 1, ReadPartition(p) PROVE TypeInv'
  <2>1. /\ Reading /\ read' \in StartedReads /\ read'.pages = read.pages /\ read'.attempt = read.attempt
        /\ UNCHANGED <<sourceVars, target, active, saved, faults>>
    BY <1>10, ReadPartitionFacts
  <2> QED BY <1>q, <2>1 DEF TypeInv, sourceVars
<1>11. CASE UNCHANGED vars
  <2>1. UNCHANGED sourceVars /\ UNCHANGED <<target, active, saved, read, faults>>
    BY <1>11 DEF vars, sourceVars
  <2> QED BY <1>q, <2>1 DEF TypeInv, Reading, sourceVars
<1> QED BY <1>1, <1>2, <1>3, <1>4, <1>5, <1>6, <1>7, <1>8, <1>9, <1>10, <1>11, StepCases

\* The types of the state.
THEOREM SourceTypeCorrect == Spec => []TypeOK
<1>1. Spec => []TypeInv
  BY TypeInvInit, TypeInvNext, PTL DEF Spec
<1> QED BY <1>1, TypeInvImplies, PTL

-----------------------------------------------------------------------------
(***************************************************************************)
(* Stamps rise: what incremental loads require of the source, and Arrive   *)
(* grants.                                                                 *)
(***************************************************************************)
\* Records without a NULL come above all earlier ones.
StampsRise ==
    contract.columns # 0 =>
        \A j \in Records : NonNull(j) => \A i \in 1 .. j - 1 : Below(Watermark(i), Watermark(j))

\* No record, no order.
LEMMA StampsRiseInit == Init => StampsRise
<1> SUFFICES ASSUME Init PROVE StampsRise
  OBVIOUS
<1>1. Records = {}
  BY DEF Init, Records
<1> QED BY <1>1 DEF StampsRise

\* Arrive lets a record without a NULL come only above those before it.
LEMMA StampsRiseNext == TypeInv /\ StampsRise /\ [Next]_vars => StampsRise'
<1> SUFFICES ASSUME TypeInv, StampsRise, [Next]_vars PROVE StampsRise'
  OBVIOUS
<1>1. ASSUME NEW stamp \in Stamps, Arrive(stamp) PROVE StampsRise'
  <2>z. Len(stamps) + 1 \in Nat
    BY StampFacts DEF TypeInv
  <2> PICK n \in Nat : n = Len(stamps) + 1
    BY <2>z
  <2> DEFINE new == SubSeq(stamp, 1, contract.columns)
  <2>0. /\ contract' = contract /\ Len(stamps) \in Nat
        /\ Records' = Records \cup {n} /\ n \notin Records /\ stamps'[n] = stamp
        /\ \A id \in Records : /\ stamps'[id] = stamps[id] /\ Watermark(id)' = Watermark(id) /\ id < n
    BY <1>1, ArriveFacts
  <2>1. stamp \in Nat \X Nat /\ contract.columns \in 0 .. 2
    BY StampsAreStamps, ContractFacts DEF TypeInv, StampsOK
  <2>2. DOMAIN new = 1 .. contract.columns /\ (new = <<>> <=> contract.columns = 0)
        /\ \A i \in 1 .. contract.columns : new[i] = stamp[i]
    BY <2>1, ColumnsOf
  <2>3. Watermark(n)' = new
    BY <2>0 DEF Watermark, new
  <2>4. \/ \E i \in DOMAIN new : new[i] = Null
        \/ \A id \in Records : new # <<>> => Below(Watermark(id), new)
    BY <1>1 DEF Arrive
  <2> HIDE DEF new
  <2>7. ASSUME contract.columns # 0, NEW j \in Records', NonNull(j)', NEW i \in 1 .. j - 1
        PROVE  Below(Watermark(i)', Watermark(j)')
    <3>1. CASE j \in Records
      <4>1. NonNull(j)
        BY <2>0, <2>7, <3>1 DEF NonNull
      <4>2. i \in Records
        BY <2>0, <3>1 DEF Records
      <4>3. Below(Watermark(i), Watermark(j))
        BY <2>7, <3>1, <4>1 DEF StampsRise
      <4>4. Watermark(i)' = Watermark(i) /\ Watermark(j)' = Watermark(j)
        BY <2>0, <3>1, <4>2
      <4> QED BY <4>3, <4>4
    <3>2. CASE j = n
      <4>1. \A k \in DOMAIN new : new[k] # Null
        BY <2>0, <2>2, <2>7, <3>2 DEF NonNull
      <4>2. i \in Records
        BY <2>0, <3>2 DEF Records
      <4>3. Below(Watermark(i), new)
        BY <2>2, <2>4, <2>7, <4>1, <4>2
      <4>4. Watermark(i)' = Watermark(i) /\ Watermark(j)' = new
        BY <2>0, <2>3, <3>2, <4>2
      <4> QED BY <4>3, <4>4
    <3> QED BY <2>0, <2>7, <3>1, <3>2
  <2>8. contract.columns # 0 =>
           \A j \in Records' : NonNull(j)' => \A i \in 1 .. j - 1 : Below(Watermark(i)', Watermark(j)')
    BY <2>7
  <2> QED BY <2>0, <2>8 DEF StampsRise, Below
<1>2. CASE UNCHANGED <<contract, stamps>>
  <2>1. Records' = Records
    BY <1>2 DEF Records
  <2>2. \A i : Watermark(i)' = Watermark(i) /\ (NonNull(i)' <=> NonNull(i))
    BY <1>2 DEF Watermark, NonNull
  <2>3. contract.columns # 0 =>
           \A j \in Records' : NonNull(j)' => \A i \in 1 .. j - 1 : Below(Watermark(i)', Watermark(j)')
    BY <2>1, <2>2 DEF StampsRise
  <2> QED BY <1>2, <2>3 DEF StampsRise, Below
<1>3. ASSUME NEW id \in listing, Vanish(id) PROVE UNCHANGED <<contract, stamps>>
  BY <1>3 DEF Vanish
<1>4. ASSUME NEW readable \in BOOLEAN, Begin(readable) PROVE UNCHANGED <<contract, stamps>>
  BY <1>4 DEF Begin, sourceVars
<1>5. Failed \/ ReadPage \/ Retry \/ OpenFiles \/ Write \/ Save => UNCHANGED <<contract, stamps>>
  BY DEF Failed, Fail, ReadPage, Retry, OpenFiles, Write, Save, sourceVars
<1>6. ASSUME NEW p \in 0 .. contract.parts - 1, ReadPartition(p) PROVE UNCHANGED <<contract, stamps>>
  BY <1>6 DEF ReadPartition, sourceVars
<1>7. UNCHANGED vars => UNCHANGED <<contract, stamps>>
  BY DEF vars
<1> QED BY <1>1, <1>2, <1>3, <1>4, <1>5, <1>6, <1>7, StepCases

\* Of two records without a NULL the later one is after the earlier one.
LEMMA AfterIsLater ==
    ASSUME TypeInv, StampsRise, contract.columns # 0,
           NEW i \in Records, NEW k \in Records, NonNull(i), NonNull(k)
    PROVE  After(Watermark(i), Watermark(k)) <=> i > k
<1>0. /\ i \in Nat /\ k \in Nat /\ i >= 1 /\ k >= 1
      /\ stamps[i][1] \in Nat /\ stamps[i][2] \in Nat /\ stamps[k][1] \in Nat /\ stamps[k][2] \in Nat
  BY StampFacts DEF TypeInv
<1>1. contract.columns \in {1, 2}
  BY ContractFacts DEF TypeInv, StampsOK
<1>2. /\ stamps[i][1] # Null /\ stamps[k][1] # Null
      /\ contract.columns = 2 => stamps[i][2] # Null /\ stamps[k][2] # Null
  BY <1>1 DEF NonNull
<1>3. StampsOK
  BY DEF TypeInv
<1>4. After(Watermark(i), Watermark(k)) <=>
         \/ stamps[i][1] > stamps[k][1]
         \/ contract.columns = 2 /\ stamps[i][1] = stamps[k][1] /\ stamps[i][2] > stamps[k][2]
  BY <1>1, <1>2, <1>3, AfterIs
<1>5. CASE k < i
  <2>1. k \in 1 .. i - 1
    BY <1>0, <1>5
  <2>2. Below(Watermark(k), Watermark(i))
    BY <2>1 DEF StampsRise
  <2> QED BY <1>0, <1>1, <1>3, <1>4, <1>5, <2>2, BelowIs
<1>6. CASE i < k
  <2>1. i \in 1 .. k - 1
    BY <1>0, <1>6
  <2>2. Below(Watermark(i), Watermark(k))
    BY <2>1 DEF StampsRise
  <2> QED BY <1>0, <1>1, <1>3, <1>4, <1>6, <2>2, BelowIs
<1>7. CASE i = k
  BY <1>0, <1>4, <1>7
<1> QED BY <1>0, <1>5, <1>6, <1>7

\* A new watermark is that of the latest record without a NULL.
LEMMA ComputedIsLatest ==
    ASSUME TypeInv, StampsRise, contract.columns # 0,
           contract.columns = 2 => \A id \in Records : NonNull(id),
           NEW ids, ids \subseteq Records, ComputeWatermark(ids) # NoWatermark
    PROVE  \E m \in ids : /\ NonNull(m) /\ ComputeWatermark(ids) = Watermark(m)
                          /\ \A k \in ids : NonNull(k) => k <= m
<1>0. StampsOK /\ contract.columns \in {1, 2}
  BY ContractFacts DEF TypeInv, StampsOK
<1>1. PICK m \in ids : /\ ComputeWatermark(ids) = Watermark(m) /\ Watermark(m) # <<Null>>
                       /\ \A k \in ids : ~Below(Watermark(m), Watermark(k))
  BY <1>0, ComputedWatermark
<1>2. m \in Records
  OBVIOUS
<1>3. NonNull(m)
  <2>1. CASE contract.columns = 2
    BY <1>2, <2>1
  <2>2. CASE contract.columns = 1
    <3> SUFFICES ASSUME stamps[m][1] = Null PROVE FALSE
      BY <2>2 DEF NonNull
    <3>1. stamps[m] \in Nat \X Nat /\ stamps[m][1] \in Nat
      BY <1>0, <1>2, StampFacts
    <3>2. SubSeq(stamps[m], 1, 1) = <<stamps[m][1]>>
      <4> DEFINE s == stamps[m]
                 w == SubSeq(s, 1, 1)
      <4>1. /\ w \in Seq(Nat) /\ Len(w) = 1
            /\ \A i \in 1 .. 1 - 1 + 1 : w[i] = s[1 + i - 1]
        <5>1. \A i \in 1 .. 1 : s[i] \in Nat
          BY <3>1
        <5> QED BY <5>1, SubSeqProperties
      <4>2. w[1] = s[1]
        BY <4>1
      <4> DEFINE v == <<s[1]>>
      <4>3. v \in Seq(Nat) /\ Len(v) = 1 /\ v[1] = s[1]
        BY <3>1
      <4> HIDE DEF w, v
      <4>4. \A i \in 1 .. Len(w) : w[i] = v[i]
        BY <4>1, <4>2, <4>3
      <4>5. w = v
        BY <4>1, <4>3, <4>4, SeqEqual
      <4> QED BY <4>5 DEF w, v
    <3> QED BY <1>1, <2>2, <3>2 DEF Watermark
  <2> QED BY <1>0, <2>1, <2>2
<1>4. ASSUME NEW k \in ids, NonNull(k) PROVE k <= m
  <2> SUFFICES ASSUME ~(k <= m) PROVE FALSE
    OBVIOUS
  <2>1. k \in Nat /\ m \in Nat /\ m >= 1 /\ k \in Records
    BY <1>0, StampFacts
  <2>2. m \in 1 .. k - 1
    BY <2>1
  <2>3. Below(Watermark(m), Watermark(k))
    BY <1>4, <2>1, <2>2 DEF StampsRise
  <2> QED BY <1>1, <2>3
<1> QED BY <1>1, <1>3, <1>4

-----------------------------------------------------------------------------
(***************************************************************************)
(* ReadIsExact.  While the source holds still, the pages so far are a      *)
(* prefix of what the load would return (SoFar): a cursor is the last      *)
(* record of it, so the next page continues there, and a retry changes     *)
(* nothing. The invariant is about loads that are still "still"; it needs  *)
(* no assumption on the source.                                            *)
(***************************************************************************)
\* The first n records of a set, all of them if there are fewer.
Prefix(ids, n) == SubSeq(Ordered(ids), 1, IF n <= Cardinality(ids) THEN n ELSE Cardinality(ids))

\* Pages that follow each other make a longer prefix.
LEMMA PrefixGrows ==
    ASSUME NEW ids \in SUBSET Int, IsFiniteSet(ids), NEW a \in Nat, NEW b \in Nat, a <= b
    PROVE  /\ Prefix(ids, 0) = <<>>
           /\ Cardinality(ids) <= b => Prefix(ids, b) = Ordered(ids)
           /\ Prefix(ids, a) \o SubSeq(Ordered(ids), a + 1, IF b <= Cardinality(ids) THEN b ELSE Cardinality(ids))
                = Prefix(ids, b)
<1> DEFINE O == Ordered(ids)
           N == Cardinality(ids)
           until == IF b <= N THEN b ELSE N
<1>1. N \in Nat /\ O \in Seq(ids) /\ Len(O) = N
  BY OrderedEnumerates
<1>2. SubSeq(O, 1, N) = O
  BY <1>1, SubSeqFull
<1>3. Prefix(ids, a) = SubSeq(O, 1, IF a <= N THEN a ELSE N) /\ Prefix(ids, b) = SubSeq(O, 1, until)
  BY DEF Prefix
<1>4. Prefix(ids, 0) = <<>>
  BY <1>1, SubSeqEmpty DEF Prefix
<1> HIDE DEF O, N
<1>5. CASE a <= N
  <2>1. 1 \in 1 .. Len(O) + 1 /\ a \in 1 - 1 .. Len(O) /\ until \in a .. Len(O)
    BY <1>1, <1>5
  <2>2. SubSeq(O, 1, a) \o SubSeq(O, a + 1, until) = SubSeq(O, 1, until)
    BY <1>1, <2>1, ConcatAdjacentSubSeq
  <2>3. N <= b => until = N
    BY <1>1
  <2> QED BY <1>2, <1>3, <1>4, <1>5, <2>2, <2>3 DEF O, N
<1>6. CASE ~(a <= N)
  <2>1. ~(b <= N) \/ b = N
    BY <1>1, <1>6
  <2>2. until = N /\ N < a + 1
    BY <1>1, <1>6, <2>1
  <2>3. SubSeq(O, a + 1, N) = <<>>
    BY <1>1, <2>2, SubSeqEmpty
  <2>4. O \o <<>> = O
    BY <1>1, ConcatEmptySeq
  <2> QED BY <1>2, <1>3, <1>4, <1>6, <2>2, <2>3, <2>4 DEF O, N
<1> QED BY <1>5, <1>6

\* What a load has read, if the source held still.
SoFar ==
    /\ contract.paging # "none" => read.got = Prefix(read.start, read.pages * contract.size)
    /\ ByCursor => IF read.pages = 0 THEN read.cursor = Null
                   ELSE /\ read.pages * contract.size <= Cardinality(read.start)
                        /\ read.cursor = Ordered(read.start)[read.pages * contract.size]
    /\ contract.kind \in {"rest", "http_file"} /\ contract.paging = "none" => read.got = <<>>
    /\ contract.kind \in {"jdbc", "table"} =>
          LET part == {id \in read.start : id % contract.parts \notin read.todo}
          IN  Len(read.got) = Cardinality(part) /\ Got = part

\* What is behind the n-th record is the rest of the enumeration.
LEMMA RestOfOrdered ==
    ASSUME NEW ids \in SUBSET Int, IsFiniteSet(ids), NEW n \in 1 .. Cardinality(ids)
    PROVE  LET rest == {id \in ids : Behind(Ordered(ids)[n], id)}
           IN  /\ Ordered(rest) = SubSeq(Ordered(ids), n + 1, Cardinality(ids))
               /\ IsFiniteSet(rest)
<1> DEFINE O == Ordered(ids)
           N == Cardinality(ids)
           rest == {id \in ids : Behind(O[n], id)}
           s == SubSeq(O, n + 1, N)
<1>1. /\ N \in Nat /\ O[n] \in ids /\ Position(ids, O[n]) = n
      /\ \A id \in ids : Position(ids, id) \in 1 .. N
  BY OrderedEnumerates
<1>2. n + 1 \in Nat \ {0} /\ N <= N
  BY <1>1
<1>3. /\ s \in Seq(ids) /\ Len(s) = (IF n + 1 <= N THEN N - (n + 1) + 1 ELSE 0)
      /\ \A k \in 1 .. Len(s) : s[k] = O[n + 1 + k - 1]
      /\ Members(s) = {id \in ids : Position(ids, id) \in n + 1 .. N}
  BY <1>1, <1>2, PieceOfOrdered
<1>4. \A id \in ids : Behind(O[n], id) <=> n < Position(ids, id)
  <2> SUFFICES ASSUME NEW id \in ids PROVE Behind(O[n], id) <=> n < Position(ids, id)
    OBVIOUS
  <2> DEFINE x == O[n]
  <2>1. x \in ids /\ Position(ids, x) = n
    BY <1>1
  <2> HIDE DEF x
  <2>2. /\ Behind(x, id) => Position(ids, x) < Position(ids, id)
        /\ Position(ids, x) < Position(ids, id) => Behind(x, id)
    BY <2>1, PositionGrows
  <2> QED BY <2>1, <2>2 DEF x
<1>5. rest = Members(s)
  <2>1. \A id \in ids : Position(ids, id) \in n + 1 .. N <=> Behind(O[n], id)
    <3> SUFFICES ASSUME NEW id \in ids
                 PROVE  Position(ids, id) \in n + 1 .. N <=> n < Position(ids, id)
      BY <1>4
    <3> QED BY <1>1
  <2> HIDE DEF O, N, s
  <2> QED BY <1>3, <2>1
<1>6. \A i, k \in 1 .. N : i < k => Behind(O[i], O[k])
  BY OrderedRises
<1> HIDE DEF O, N, s, rest
<1>7. Len(s) \in Nat /\ DOMAIN s = 1 .. Len(s)
  BY <1>3, LenProperties
<1>8. \A i, k \in 1 .. Len(s) : i < k => Behind(s[i], s[k])
  <2> SUFFICES ASSUME NEW i \in 1 .. Len(s), NEW k \in 1 .. Len(s), i < k PROVE Behind(s[i], s[k])
    OBVIOUS
  <2>1. n + 1 + i - 1 \in 1 .. N /\ n + 1 + k - 1 \in 1 .. N /\ n + 1 + i - 1 < n + 1 + k - 1
    BY <1>1, <1>3, <1>7
  <2> QED BY <1>3, <1>6, <2>1
<1>9. s \in Seq(rest)
  <2>1. \A k \in 1 .. Len(s) : s[k] \in rest
    BY <1>5, <1>7 DEF Members
  <2>2. s \in [1 .. Len(s) -> ids]
    BY <1>3, LenProperties
  <2>3. s \in [1 .. Len(s) -> rest]
    BY <2>1, <2>2
  <2> QED BY <1>7, <2>3
<1>10. \A id \in rest : \E k \in 1 .. Len(s) : s[k] = id
  BY <1>5, <1>7 DEF Members
<1>11. rest \in SUBSET Int
  <2>1. rest \subseteq ids
    BY DEF rest
  <2> QED BY <2>1
<1>12. IsFiniteSet(rest) /\ Ordered(rest) = s
  BY <1>8, <1>9, <1>10, <1>11, OrderedIsUnique
<1> QED BY <1>12 DEF rest, s, O, N

\* A page continues where the pages before it ended.
LEMMA PageIsNext ==
    ASSUME TypeInv, Reading, contract.paging # "none", read.start = Selected(read.value), SoFar
    PROVE  LET ids == read.start
               N == Cardinality(ids)
               done == read.pages * contract.size
               until == IF done + contract.size <= N THEN done + contract.size ELSE N
           IN  /\ ids \in SUBSET Int /\ IsFiniteSet(ids) /\ N \in Nat /\ done \in Nat
               /\ contract.size \in Nat /\ done + contract.size = (read.pages + 1) * contract.size
               /\ Reply.records = SubSeq(Ordered(ids), done + 1, until)
               /\ Len(Reply.records) = IF done + 1 <= until THEN until - done ELSE 0
               /\ Reply.more <=> done + contract.size < N
<1> DEFINE ids == read.start
           N == Cardinality(ids)
           done == read.pages * contract.size
           until == IF done + contract.size <= N THEN done + contract.size ELSE N
           O == Ordered(ids)
           page == Reply.records
<1>1. /\ contract.size \in Nat \ {0} /\ contract.maxPages \in Nat
      /\ contract.kind # "rest" => contract.paging = "none"
      /\ contract.paging \in {"none", "page", "offset", "cursor", "link_header"}
  BY ContractFacts DEF TypeInv, StampsOK
<1>2. read \in StartedReads /\ read.pages \in 0 .. contract.maxPages - 1
  BY ReadKinds DEF TypeInv, Reading
<1>3. done \in Nat /\ read.pages \in Nat /\ done + contract.size = (read.pages + 1) * contract.size
  BY <1>1, <1>2
<1>4. ids \subseteq Records /\ StampsOK /\ listing \subseteq Records
  BY <1>2 DEF StartedReads, TypeInv
<1>5. ids \in SUBSET Int /\ IsFiniteSet(ids) /\ N \in Nat
  BY <1>4, RecordSets
<1>6. /\ First \in Nat \ {0} /\ Last \in Nat /\ Last <= Cardinality(Remaining)
      /\ Cardinality(Remaining) \in Nat
      /\ page = SubSeq(Ordered(Remaining), First, Last)
      /\ Len(page) = IF First <= Last THEN Last - First + 1 ELSE 0
      /\ Remaining \subseteq Records /\ page \in Seq(Remaining)
      /\ \A n \in 1 .. Len(page) : page[n] = Ordered(Remaining)[First + n - 1]
      /\ Reply.more <=> Last < Cardinality(Remaining)
  BY <1>3, <1>4, ReplyIs
<1> HIDE DEF done, N, page
<1>7. CASE ByPosition \/ read.pages = 0
  <2>1. ~ByCursor \/ read.cursor = Null
    BY <1>7 DEF ByPosition, ByCursor, SoFar
  <2>2. Remaining = ids
    BY <2>1 DEF Remaining
  <2>3. First = done + 1
    BY <1>1, <1>3, <1>7 DEF First, done
  <2>4. Last = IF N <= done + 1 + contract.size - 1 THEN N ELSE done + 1 + contract.size - 1
    BY <2>2, <2>3 DEF Last, N
  <2>5. Last = until
    BY <1>1, <1>3, <1>5, <2>4
  <2>6. Last < N <=> done + contract.size < N
    BY <1>1, <1>3, <1>5, <2>4
  <2> QED BY <1>1, <1>3, <1>5, <1>6, <2>2, <2>3, <2>5, <2>6 DEF done, N, page
<1>8. CASE ~ByPosition /\ read.pages # 0
  <2>1. ByCursor
    BY <1>1, <1>8 DEF ByPosition, ByCursor
  <2>2. done <= N /\ read.cursor = O[done]
    BY <1>8, <2>1 DEF SoFar, done, N
  <2>3. done >= 1
    BY <1>1, <1>2, <1>8 DEF done
  <2>4. done \in 1 .. N
    BY <1>3, <1>5, <2>2, <2>3
  <2>5. O[done] \in ids
    BY <1>5, <2>4, OrderedEnumerates DEF N
  <2>6. read.cursor # Null
    BY <1>4, <2>2, <2>5, StampFacts DEF Null
  <2>7. Remaining = {id \in ids : Behind(O[done], id)}
    BY <2>1, <2>2, <2>6 DEF Remaining
  <2>8. Ordered(Remaining) = SubSeq(O, done + 1, N)
    BY <1>5, <2>4, <2>7, RestOfOrdered DEF N
  <2> DEFINE s == SubSeq(O, done + 1, N)
  <2>9. /\ s \in Seq(ids) /\ Len(s) = (IF done + 1 <= N THEN N - (done + 1) + 1 ELSE 0)
        /\ \A n \in 1 .. Len(s) : s[n] = O[done + 1 + n - 1]
    <3>1. done + 1 \in Nat \ {0} /\ N <= N
      BY <1>3, <1>5
    <3> QED BY <1>5, <3>1, PieceOfOrdered DEF N
  <2>10. Len(Ordered(Remaining)) = Cardinality(Remaining)
    <3>1. Remaining \in SUBSET Int /\ IsFiniteSet(Remaining)
      BY <1>4, <1>6, RecordSets
    <3> QED BY <3>1, OrderedEnumerates
  <2>11. Cardinality(Remaining) = N - done
    BY <1>3, <1>5, <2>4, <2>8, <2>9, <2>10
  <2>12. First = 1
    BY <1>8 DEF First
  <2>13. Last = IF N - done <= 1 + contract.size - 1 THEN N - done ELSE 1 + contract.size - 1
    BY <1>8, <2>1, <2>11, <2>12 DEF Last, ByCursor
  <2>14. Last = until - done /\ (Last < N - done <=> done + contract.size < N)
    BY <1>1, <1>3, <1>5, <2>4, <2>13
  <2> DEFINE t == SubSeq(O, done + 1, until)
  <2>15. /\ t \in Seq(ids) /\ Len(t) = (IF done + 1 <= until THEN until - (done + 1) + 1 ELSE 0)
         /\ \A n \in 1 .. Len(t) : t[n] = O[done + 1 + n - 1]
    <3>1. done + 1 \in Nat \ {0} /\ until \in Nat /\ until <= N
      BY <1>1, <1>3, <1>5
    <3> HIDE DEF until
    <3> QED BY <1>5, <3>1, PieceOfOrdered DEF N
  <2> HIDE DEF s, t, O
  <2>16. Len(page) = Len(t) /\ Len(t) \in Nat /\ Len(t) = IF done + 1 <= until THEN until - done ELSE 0
    <3>1. /\ done \in Nat /\ N \in Nat /\ done <= N /\ contract.size \in Nat \ {0}
          /\ Last \in Nat /\ Last = until - done
      BY <1>1, <1>3, <1>5, <1>6, <2>4, <2>14
    <3>2. until \in Nat /\ done <= until
      BY <3>1
    <3>3. Len(page) = IF 1 <= until - done THEN until - done ELSE 0
      <4>1. Len(page) = IF 1 <= Last THEN Last - 1 + 1 ELSE 0
        BY <1>6, <2>12
      <4> HIDE DEF until
      <4> QED BY <3>1, <3>2, <4>1
    <3> HIDE DEF until
    <3>4. Len(t) = IF done + 1 <= until THEN until - done ELSE 0
      BY <2>15, <3>1, <3>2
    <3> QED BY <3>1, <3>2, <3>3, <3>4
  <2>17. \A n \in 1 .. Len(page) : page[n] = t[n]
    <3> SUFFICES ASSUME NEW n \in 1 .. Len(page) PROVE page[n] = t[n]
      OBVIOUS
    <3>0. First + n - 1 = n
      BY <2>12
    <3>1. page[n] = s[n]
      BY <1>6, <2>8, <3>0 DEF s
    <3>2. n \in 1 .. Len(s)
      <4>1. done \in Nat /\ N \in Nat /\ done <= N /\ Last \in Nat /\ Last <= N - done
        BY <1>3, <1>5, <1>6, <2>4, <2>11
      <4>2. Len(page) = IF 1 <= Last THEN Last - 1 + 1 ELSE 0
        BY <1>6, <2>12
      <4>3. n \in Nat /\ 1 <= n /\ n <= Last
        BY <4>1, <4>2
      <4>4. Len(s) = N - done
        BY <2>9, <4>1
      <4> QED BY <4>1, <4>3, <4>4
    <3> QED BY <2>9, <2>15, <2>16, <3>1, <3>2
  <2>18. page \in Seq(ids)
    <3>1. Remaining \subseteq ids
      BY <2>7
    <3> QED BY <1>6, <3>1, SeqMonotonic
  <2>19. page = t
    BY <2>15, <2>16, <2>17, <2>18, SeqEqual
  <2> QED BY <1>1, <1>3, <1>5, <1>6, <2>11, <2>14, <2>16, <2>19 DEF done, N, page, t, O
<1> QED BY <1>7, <1>8

\* The order of the source is that of the contract, which does not change.
LEMMA OrderIsFixed ==
    ASSUME contract' = contract
    PROVE  /\ \A ids, id : Position(ids, id)' = Position(ids, id)
           /\ \A ids : Ordered(ids)' = Ordered(ids)
           /\ \A ids, n : Prefix(ids, n)' = Prefix(ids, n)
<1>1. \A ids, id : Position(ids, id)' = Position(ids, id)
  BY DEF Position
<1>2. \A ids : Ordered(ids)' = Ordered(ids)
  BY DEF Ordered, Position
<1>3. \A ids, n : Prefix(ids, n)' = Prefix(ids, n)
  BY DEF Prefix, Ordered, Position
<1> QED BY <1>1, <1>2, <1>3

\* What it has when the read has ended.
InTheEnd ==
    /\ contract.paging # "none" => read.got = Prefix(read.start, contract.maxPages * contract.size)
    /\ contract.paging = "none" /\ contract.kind \in {"rest", "http_file"} =>
          read.got = Ordered(read.start)
    /\ contract.kind = "files" => read.got = Ordered(read.files)
    /\ contract.kind \in {"jdbc", "table"} =>
          Len(read.got) = Cardinality(read.start) /\ Got = read.start

\* The read of a load that the source holds still for.
ExactInv ==
    UnderWay /\ read.still =>
        /\ read.start = Selected(read.value)
        /\ Reading => SoFar
        /\ ~Reading => InTheEnd

\* From the invariant to the property.
LEMMA ExactWhen ==
    ASSUME TypeInv, ExactInv
    PROVE  ReadIsExact
<1>1. /\ contract.size \in Nat /\ contract.maxPages \in Nat
      /\ contract.kind # "rest" => contract.paging = "none"
  BY ContractFacts DEF TypeInv, StampsOK
<1>2. contract.maxPages * contract.size \in Nat
  BY <1>1
<1>3. CASE ~(read.pc = "evaluated" /\ read.still)
  BY <1>3 DEF ReadIsExact
<1>4. CASE read.pc = "evaluated" /\ read.still
  <2>1. read \in StartedReads
    BY <1>4, ReadKinds
  <2>2. read.start \subseteq Records /\ read.files \subseteq Records
    BY <2>1 DEF StartedReads
  <2>3. read.start \in SUBSET Int /\ IsFiniteSet(read.start)
    BY <2>2, RecordSets DEF TypeInv
  <2> DEFINE O == Ordered(read.start)
             N == Cardinality(read.start)
             limit == contract.maxPages * contract.size
  <2>4. /\ N \in Nat /\ O \in Seq(read.start) /\ Len(O) = N
        /\ \A n \in 1 .. N : O[n] \in read.start
        /\ \A id \in read.start : Position(read.start, id) \in 1 .. N /\ O[Position(read.start, id)] = id
    BY <2>3, OrderedEnumerates
  <2>5. O = SubSeq(O, 1, N)
    BY <2>4, SubSeqFull
  <2>6. Members(O) = read.start
    <3>1. DOMAIN O = 1 .. N
      BY <2>4, LenProperties
    <3> HIDE DEF O, N
    <3> QED BY <2>4, <3>1 DEF Members
  <2>7. Prefix(read.start, limit) = IF N <= limit THEN O ELSE SubSeq(O, 1, limit)
    <3>1. N <= limit => (IF limit <= N THEN limit ELSE N) = N
      BY <1>2, <2>4
    <3>2. ~(N <= limit) => (IF limit <= N THEN limit ELSE N) = limit
      BY <1>2, <2>4
    <3> HIDE DEF O, N, limit
    <3>3. Prefix(read.start, limit) = SubSeq(O, 1, IF limit <= N THEN limit ELSE N)
      BY DEF Prefix, O, N
    <3> QED BY <2>5, <3>1, <3>2, <3>3
  <2>8. ASSUME contract.paging # "none", read.got = Prefix(read.start, limit)
        PROVE  ReadIsExact
    <3>1. contract.kind \notin {"files", "jdbc", "table"}
      BY <1>1, <2>8
    <3> HIDE DEF O, N, limit
    <3>2. read.got = IF Len(O) <= limit THEN O ELSE SubSeq(O, 1, limit)
      BY <2>4, <2>7, <2>8
    <3> QED BY <2>8, <3>1, <3>2 DEF ReadIsExact, O, limit
  <2>9. ASSUME contract.paging = "none", contract.kind \notin {"files", "jdbc", "table"}, read.got = O
        PROVE  ReadIsExact
    BY <2>9 DEF ReadIsExact
  <2>10. ASSUME contract.kind = "files", read.got = Ordered(read.files)
         PROVE  ReadIsExact
    BY <1>1, <2>10 DEF ReadIsExact
  <2>11. ASSUME contract.kind \in {"jdbc", "table"}, Got = read.start, Len(read.got) = N
         PROVE  ReadIsExact
    <3>1. contract.paging = "none" /\ contract.kind # "files"
      BY <1>1, <2>11
    <3>2. Len(read.got) = Len(O) /\ Got = {O[n] : n \in DOMAIN O}
      BY <2>4, <2>6, <2>11 DEF Members
    <3> QED BY <2>11, <3>1, <3>2 DEF ReadIsExact
  <2>12. InTheEnd
    BY <1>4 DEF ExactInv, UnderWay, Reading
  <2>13. contract.kind \in {"rest", "http_file", "jdbc", "table", "files"}
    BY ContractFacts DEF TypeInv, StampsOK
  <2> QED BY <2>8, <2>9, <2>10, <2>11, <2>12, <2>13 DEF InTheEnd
<1> QED BY <1>3, <1>4

\* Pages times page size, for the provers.
LEMMA TimesGrows ==
    ASSUME NEW a \in Nat, NEW b \in Nat, NEW c \in Nat, a <= b
    PROVE  /\ a * c \in Nat /\ b * c \in Nat /\ a * c <= b * c
           /\ (a + 1) * c = a * c + c
<1>1. b - a \in Nat /\ (b - a) * c \in Nat /\ (b - a) * c = b * c - a * c
  OBVIOUS
<1>2. a * c \in Nat /\ b * c \in Nat
  OBVIOUS
<1>3. (a + 1) * c = a * c + c
  OBVIOUS
<1> QED BY <1>1, <1>2, <1>3

\* A load begins with nothing read.
LEMMA BeginIsExact ==
    ASSUME TypeInv, NEW readable \in BOOLEAN, Begin(readable)
    PROVE  ExactInv'
<1>1. /\ read' \in StartedReads /\ read'.pages = 0 /\ read'.cursor = Null /\ read'.got = <<>>
      /\ read'.start = Selected(read'.value)
      /\ contract.kind = "jdbc" => read'.todo = 0 .. contract.parts - 1
      /\ contract.kind = "table" => read'.todo = {0}
      /\ read'.pc \in {"refused", "reading"}
      /\ UNCHANGED <<contract, stamps, listing>>
  BY BeginFacts DEF sourceVars
<1>2. contract.parts \in Nat \ {0} /\ contract.size \in Nat /\ (contract.kind # "jdbc" => contract.parts = 1)
  BY ContractFacts DEF TypeInv, StampsOK
<1>3. (read.start = Selected(read.value))'
  BY <1>1 DEF Selected
<1>4. read'.start \subseteq Records
  BY <1>1 DEF Selected, TypeInv
<1>5. \A id \in read'.start : id \in Nat
  BY <1>4, StampFacts DEF TypeInv
<1>6. ASSUME contract.kind \in {"jdbc", "table"}
      PROVE  {id \in read'.start : id % contract.parts \notin read'.todo} = {}
  <2>1. read'.todo = 0 .. contract.parts - 1
    <3>1. CASE contract.kind = "jdbc"
      BY <1>1, <3>1
    <3>2. CASE contract.kind = "table"
      <4>1. contract.parts = 1 /\ read'.todo = {0}
        BY <1>1, <1>2, <3>2
      <4>2. 0 .. 1 - 1 = {0}
        OBVIOUS
      <4> QED BY <4>1, <4>2
    <3> QED BY <1>6, <3>1, <3>2
  <2>2. \A id \in read'.start : id % contract.parts \in 0 .. contract.parts - 1
    BY <1>2, <1>5
  <2> QED BY <2>1, <2>2
<1>7. Len(read'.got) = 0 /\ Cardinality({}) = 0 /\ Got' = {}
  <2>1. Got' = Members(read'.got)
    BY DEF Got, Members
  <2>2. <<>> \in Seq(Nat) /\ Len(<<>>) = 0
    BY EmptySeq
  <2>3. DOMAIN <<>> = {}
    OBVIOUS
  <2> QED BY <1>1, <2>1, <2>2, <2>3, FS_EmptySet DEF Members
<1>8. Prefix(read'.start, 0) = <<>>
  <2>1. read'.start \in SUBSET Int /\ IsFiniteSet(read'.start)
    BY <1>4, RecordSets DEF TypeInv
  <2>2. 0 \in Nat /\ 0 <= 0
    OBVIOUS
  <2> QED BY <2>1, <2>2, PrefixGrows
<1>9. read'.pages * contract.size = 0
  BY <1>1, <1>2
<1>10. /\ contract.paging # "none" => read'.got = Prefix(read'.start, read'.pages * contract.size)
       /\ contract.kind \in {"jdbc", "table"} =>
            LET part == {id \in read'.start : id % contract.parts \notin read'.todo}
            IN  Len(read'.got) = Cardinality(part) /\ Got' = part
  BY <1>1, <1>6, <1>7, <1>8, <1>9
<1>11. contract' = contract /\ \A ids, n : Prefix(ids, n)' = Prefix(ids, n)
  BY <1>1, OrderIsFixed
<1>12. SoFar'
  BY <1>1, <1>10, <1>11 DEF SoFar, ByCursor
<1> QED BY <1>1, <1>3, <1>12 DEF ExactInv, UnderWay, Reading

\* A page adds the next records, and the last page the last ones.
LEMMA ReadPageIsExact ==
    ASSUME TypeInv, ExactInv, ReadPage
    PROVE  ExactInv'
<1>1. /\ Reading /\ contract.kind \in {"rest", "http_file"}
      /\ read \in StartedReads
      /\ read'.pc = IF IsLast(Reply) THEN "evaluated" ELSE "reading"
      /\ read'.pages = read.pages + 1
      /\ read'.got = read.got \o Reply.records /\ read'.cursor = NextCursor(Reply.records)
      /\ read'.value = read.value /\ read'.start = read.start
      /\ read'.still = read.still
      /\ UNCHANGED <<contract, stamps, listing>>
  BY ReadPageFacts DEF sourceVars
<1> SUFFICES ASSUME read.still PROVE ExactInv'
  BY <1>1 DEF ExactInv
<1>2. read.start = Selected(read.value) /\ SoFar
  BY <1>1 DEF ExactInv, UnderWay, Reading
<1>3. (read.start = Selected(read.value))'
  BY <1>1, <1>2 DEF Selected
<1>4. /\ contract' = contract /\ \A ids : Ordered(ids)' = Ordered(ids)
      /\ \A ids, n : Prefix(ids, n)' = Prefix(ids, n)
  BY <1>1, OrderIsFixed
<1>5. CASE contract.paging = "none"
  <2>1. IsLast(Reply) /\ ~ByCursor /\ ~ByPosition
    BY <1>5 DEF IsLast, ByCursor, ByPosition
  <2>2. Remaining = read.start
    BY <1>2, <2>1 DEF Remaining
  <2>3. First = 1 /\ Last = Cardinality(read.start)
    BY <1>5, <2>1, <2>2 DEF First, Last
  <2>4. read.start \in SUBSET Int /\ IsFiniteSet(read.start) /\ StampsOK /\ listing \subseteq Records
        /\ read.pages \in Nat
    BY <1>1, RecordSets DEF TypeInv, StartedReads
  <2>5. /\ Ordered(read.start) \in Seq(read.start)
        /\ Len(Ordered(read.start)) = Cardinality(read.start)
    BY <2>4, OrderedEnumerates
  <2>6. Reply.records = Ordered(read.start)
    BY <2>2, <2>3, <2>4, <2>5, ReplyIs, SubSeqFull
  <2>7. read.got = <<>>
    BY <1>1, <1>2, <1>5 DEF SoFar
  <2>8. read'.got = Ordered(read.start)
    BY <1>1, <2>5, <2>6, <2>7, ConcatEmptySeq
  <2>9. InTheEnd'
    BY <1>1, <1>4, <1>5, <2>8 DEF InTheEnd
  <2>10. ~Reading'
    BY <1>1, <2>1 DEF Reading
  <2> QED BY <1>3, <2>9, <2>10 DEF ExactInv
<1>6. CASE contract.paging # "none"
  <2> DEFINE ids == read.start
             N == Cardinality(ids)
             size == contract.size
             done == read.pages * size
             until == IF done + size <= N THEN done + size ELSE N
             O == Ordered(ids)
             page == Reply.records
  <2>1. /\ ids \in SUBSET Int /\ IsFiniteSet(ids) /\ N \in Nat /\ done \in Nat
        /\ size \in Nat /\ done + size = (read.pages + 1) * size
        /\ page = SubSeq(O, done + 1, until)
        /\ Len(page) = IF done + 1 <= until THEN until - done ELSE 0
        /\ Reply.more <=> done + size < N
    BY <1>1, <1>2, <1>6, PageIsNext
  <2>u. until = IF done + size <= N THEN done + size ELSE N
    OBVIOUS
  <2>2. read.got = Prefix(ids, done)
    BY <1>2, <1>6 DEF SoFar
  <2>3. read'.got = Prefix(ids, done + size)
    <3>1. done + size \in Nat /\ done <= done + size
      BY <2>1
    <3>2. read'.got = read.got \o page
      BY <1>1
    <3> HIDE DEF done, size, ids, page
    <3> QED BY <2>1, <2>2, <3>1, <3>2, PrefixGrows
  <2>4. read'.pages * size = done + size
    BY <1>1, <2>1
  <2>5. read'.start = ids
    BY <1>1
  <2>6. contract.size \in Nat \ {0} /\ contract.maxPages \in Nat \ {0} /\ contract.kind = "rest"
        /\ read.pages \in 0 .. contract.maxPages - 1
        /\ (ByCursor \/ ByPosition) /\ ~(ByCursor /\ ByPosition)
    <3>1. /\ contract.size \in Nat \ {0} /\ contract.maxPages \in Nat \ {0} /\ contract.kind = "rest"
          /\ contract.paging \in {"none", "page", "offset", "cursor", "link_header"}
      BY <1>6, ContractFacts DEF TypeInv, StampsOK
    <3> QED BY <1>1, <1>6, <3>1 DEF TypeInv, ByCursor, ByPosition
  <2> DEFINE limit == contract.maxPages * size
  <2>l. limit \in Nat /\ done + size <= limit /\ done + size \in Nat /\ size >= 1
        /\ (read.pages + 1 = contract.maxPages => done + size = limit)
    <3>1. read.pages + 1 \in Nat /\ contract.maxPages \in Nat /\ read.pages + 1 <= contract.maxPages
          /\ contract.size >= 1
      BY <2>6
    <3>2. contract.size \in Nat
      BY <2>6
    <3>3. (read.pages + 1) * contract.size \in Nat /\ limit \in Nat
          /\ (read.pages + 1) * contract.size <= limit
      BY <3>1, <3>2, TimesGrows
    <3>4. done + size = (read.pages + 1) * contract.size
      BY <2>1
    <3>5. read.pages + 1 = contract.maxPages => done + size = limit
      BY <3>4
    <3> QED BY <3>1, <3>3, <3>4, <3>5
  <2> HIDE DEF done, N, size, until, O, limit
  <2>7. CASE IsLast(Reply)
    <3>1. ~Reading'
      BY <1>1, <2>7 DEF Reading
    <3>2. Prefix(ids, done + size) = Prefix(ids, limit)
      <4>1. limit \in Nat /\ done + size <= limit /\ done + size \in Nat
        BY <2>l
      <4>2. CASE read.pages + 1 = contract.maxPages
        BY <2>l, <4>2
      <4>3. CASE N <= done + size
        <5>1. N <= limit
          BY <2>1, <4>1, <4>3
        <5> HIDE DEF ids
        <5>2. Prefix(ids, done + size) = Ordered(ids)
          BY <2>1, <4>1, <4>3, PrefixGrows DEF N
        <5>3. Prefix(ids, limit) = Ordered(ids)
          <6>1. limit <= limit
            BY <4>1
          <6> QED BY <2>1, <4>1, <5>1, <6>1, PrefixGrows DEF N
        <5> QED BY <5>2, <5>3
      <4>4. read.pages + 1 = contract.maxPages \/ N <= done + size
        <5> SUFFICES ASSUME read.pages + 1 # contract.maxPages, done + size < N PROVE FALSE
          BY <2>1
        <5>1. Reply.more
          BY <2>1
        <5>2. ByPosition /\ page = <<>>
          BY <1>6, <2>7, <5>1 DEF IsLast
        <5>3. Len(page) = 0
          BY <5>2
        <5>4. until = done + size
          BY <2>u, <2>l, <2>1
        <5> QED BY <2>1, <2>l, <5>3, <5>4
      <4> QED BY <4>2, <4>3, <4>4
    <3>3. read'.got = Prefix(read'.start, contract.maxPages * contract.size)
      BY <2>3, <2>5, <3>2 DEF limit, size
    <3>4. InTheEnd'
      BY <1>4, <1>6, <2>6, <3>3 DEF InTheEnd
    <3> QED BY <1>3, <3>1, <3>4 DEF ExactInv
  <2>8. CASE ~IsLast(Reply)
    <3>1. read'.got = Prefix(read'.start, read'.pages * contract.size)
      BY <2>3, <2>4, <2>5 DEF size
    <3>2. ASSUME ByCursor
          PROVE  /\ read'.pages # 0 /\ read'.pages * contract.size <= Cardinality(read'.start)
                 /\ read'.cursor = Ordered(read'.start)[read'.pages * contract.size]
      <4>1. Reply.more
        BY <2>8, <3>2 DEF IsLast
      <4>2. done + size <= N /\ until = done + size /\ done + 1 <= until
        BY <2>1, <2>u, <2>l, <4>1
      <4>3. Len(page) = size /\ Len(page) >= 1
        BY <2>1, <2>l, <4>2
      <4>4. read'.cursor = page[Len(page)]
        BY <1>1, <4>3 DEF NextCursor
      <4>5. page[size] = O[done + size]
        <5>1. done + 1 \in Nat \ {0} /\ until \in Nat /\ until <= N
          BY <2>1, <4>2
        <5> HIDE DEF ids, page
        <5>2. size \in 1 .. Len(page) /\ done + 1 + size - 1 = done + size
          <6>1. size \in Nat /\ done \in Nat
            BY <2>1
          <6> QED BY <2>l, <4>3, <6>1
        <5>3. \A n \in 1 .. Len(page) : page[n] = O[done + 1 + n - 1]
          BY <2>1, <5>1, PieceOfOrdered DEF O
        <5> QED BY <5>2, <5>3
      <4>6. read'.pages # 0
        BY <1>1, <2>6
      <4> QED BY <2>4, <2>5, <4>2, <4>3, <4>4, <4>5, <4>6 DEF size, N, O
    <3>3. SoFar'
      BY <1>1, <1>4, <1>6, <2>6, <3>1, <3>2 DEF SoFar, ByCursor
    <3>4. Reading'
      BY <1>1, <2>8 DEF Reading
    <3> QED BY <1>3, <3>3, <3>4 DEF ExactInv
  <2> QED BY <2>7, <2>8
<1> QED BY <1>5, <1>6

\* A query adds its partition, in whatever order they run.
LEMMA ReadPartitionIsExact ==
    ASSUME TypeInv, ExactInv, NEW p \in 0 .. contract.parts - 1, ReadPartition(p)
    PROVE  ExactInv'
<1>1. /\ Reading /\ contract.kind \in {"jdbc", "table"} /\ p \in read.todo
      /\ read \in StartedReads
      /\ read'.pc = IF read.todo = {p} THEN "evaluated" ELSE "reading"
      /\ read'.todo = read.todo \ {p}
      /\ read'.got = read.got \o Ordered(Partition(p))
      /\ read'.value = read.value /\ read'.start = read.start /\ read'.still = read.still
      /\ Got' = Got \cup Partition(p)
      /\ UNCHANGED <<contract, stamps, listing>>
  BY ReadPartitionFacts DEF sourceVars
<1> SUFFICES ASSUME read.still PROVE ExactInv'
  BY <1>1 DEF ExactInv
<1>2. read.start = Selected(read.value) /\ SoFar
  BY <1>1 DEF ExactInv, UnderWay, Reading
<1>3. (read.start = Selected(read.value))'
  BY <1>1, <1>2 DEF Selected
<1>4. contract.paging = "none" /\ contract.kind \notin {"rest", "http_file", "files"}
      /\ contract.parts \in Nat \ {0}
  BY <1>1, ContractFacts DEF TypeInv, StampsOK
<1> DEFINE parts == contract.parts
           start == read.start
           todo == read.todo
           part == {id \in start : id % parts \notin todo}
           after == {id \in start : id % parts \notin todo \ {p}}
<1>5. Len(read.got) = Cardinality(part) /\ Got = part
  BY <1>1, <1>2 DEF SoFar
<1>6. start \subseteq Records /\ read.got \in Seq(Records) /\ todo \subseteq 0 .. parts - 1
  BY <1>1 DEF StartedReads
<1>7. Partition(p) = {id \in start : id % parts = p}
  BY <1>2 DEF Partition
<1>8. part \cup Partition(p) = after /\ part \cap Partition(p) = {}
  BY <1>1, <1>7
<1>9. IsFiniteSet(part) /\ IsFiniteSet(Partition(p))
  <2>1. part \subseteq Records /\ Partition(p) \subseteq Records
    BY <1>6, <1>7
  <2> HIDE DEF part
  <2> QED BY <2>1, RecordSets DEF TypeInv
<1>10. Cardinality(after) = Cardinality(part) + Cardinality(Partition(p))
  <2>1. Cardinality({}) = 0 /\ Cardinality(part) \in Nat /\ Cardinality(Partition(p)) \in Nat
    BY <1>9, FS_EmptySet, FS_CardinalityType
  <2> HIDE DEF part, after
  <2>2. Cardinality(part \cup Partition(p)) =
          Cardinality(part) + Cardinality(Partition(p)) - Cardinality(part \cap Partition(p))
    <3> DEFINE A == part
               B == Partition(p)
    <3>1. IsFiniteSet(A) /\ IsFiniteSet(B)
      BY <1>9
    <3> HIDE DEF A, B
    <3>2. Cardinality(A \cup B) = Cardinality(A) + Cardinality(B) - Cardinality(A \cap B)
      BY <3>1, FS_Union
    <3> QED BY <3>2 DEF A, B
  <2>3. Cardinality(part \cap Partition(p)) = 0
    BY <1>8, <2>1
  <2>4. Cardinality(after) = Cardinality(part \cup Partition(p))
    BY <1>8
  <2> QED BY <2>1, <2>2, <2>3, <2>4
<1>11. Len(read'.got) = Cardinality(after) /\ Got' = after
  <2>1. Len(read.got \o Ordered(Partition(p))) = Len(read.got) + Len(Ordered(Partition(p)))
    BY <1>6, PartitionIs, ConcatProperties
  <2>2. Len(Ordered(Partition(p))) = Cardinality(Partition(p))
    BY PartitionIs
  <2> HIDE DEF part, after
  <2> QED BY <1>1, <1>5, <1>8, <1>10, <2>1, <2>2
<1>12. CASE todo = {p}
  <2>1. after = start
    BY <1>12
  <2>2. ~Reading'
    BY <1>1, <1>12 DEF Reading
  <2> HIDE DEF after
  <2>3. InTheEnd'
    BY <1>1, <1>4, <1>11, <2>1 DEF InTheEnd
  <2> QED BY <1>3, <2>2, <2>3 DEF ExactInv
<1>13. CASE todo # {p}
  <2>1. Reading'
    BY <1>1, <1>13 DEF Reading
  <2>2. after = {id \in read'.start : id % contract'.parts \notin read'.todo}
    BY <1>1
  <2> HIDE DEF after
  <2>3. SoFar'
    BY <1>1, <1>4, <1>11, <2>2 DEF SoFar, ByCursor
  <2> QED BY <1>3, <2>1, <2>3 DEF ExactInv
<1> QED BY <1>12, <1>13

\* The files named are the ones read.
LEMMA OpenFilesIsExact ==
    ASSUME TypeInv, ExactInv, OpenFiles
    PROVE  ExactInv'
<1>1. /\ Reading /\ contract.kind = "files"
      /\ read'.pc = "evaluated" /\ read'.got = Ordered(read.files)
      /\ read'.value = read.value /\ read'.start = read.start
      /\ read'.still = read.still /\ read'.files = read.files
      /\ UNCHANGED <<contract, stamps, listing>>
  BY OpenFilesFacts DEF sourceVars
<1>2. contract.paging = "none"
  BY <1>1, ContractFacts DEF TypeInv, StampsOK
<1>3. \A ids : Ordered(ids)' = Ordered(ids)
  BY <1>1, OrderIsFixed
<1>4. InTheEnd'
  BY <1>1, <1>2, <1>3 DEF InTheEnd
<1>5. read.still => (read.start = Selected(read.value))'
  BY <1>1 DEF ExactInv, UnderWay, Reading, Selected
<1>6. ~Reading'
  BY <1>1 DEF Reading
<1> QED BY <1>1, <1>4, <1>5, <1>6 DEF ExactInv

\* No load, nothing read.
LEMMA ExactInvInit == Init => ExactInv
BY DEF Init, ExactInv, UnderWay, Idle

\* Arrivals and disappearances end the claim, the other steps keep it.
LEMMA ExactInvNext == TypeInv /\ ExactInv /\ [Next]_vars => ExactInv'
<1> SUFFICES ASSUME TypeInv, ExactInv, [Next]_vars PROVE ExactInv'
  OBVIOUS
<1>1. ASSUME read' = Disturbed PROVE ExactInv'
  BY <1>1, DisturbedFacts DEF ExactInv, UnderWay, Idle
<1>2. ASSUME NEW stamp \in Stamps, Arrive(stamp) PROVE ExactInv'
  BY <1>1, <1>2 DEF Arrive
<1>3. ASSUME NEW id \in listing, Vanish(id) PROVE ExactInv'
  BY <1>1, <1>3 DEF Vanish
<1>4. ASSUME NEW readable \in BOOLEAN, Begin(readable) PROVE ExactInv'
  BY <1>4, BeginIsExact
<1>5. CASE Failed
  BY <1>5 DEF Failed, Fail, ExactInv, UnderWay, Idle
<1>6. CASE ReadPage
  BY <1>6, ReadPageIsExact
<1>7. CASE Retry
  <2>1. /\ Reading /\ read \in StartedReads /\ UNCHANGED <<contract, stamps, listing>>
        /\ read' = [read EXCEPT !.attempt = @ + 1]
    BY <1>7, ReadKinds DEF Retry, Asking, Reading, sourceVars
  <2>2. /\ read'.pc = read.pc /\ read'.still = read.still /\ read'.start = read.start
        /\ read'.value = read.value /\ read'.got = read.got /\ read'.pages = read.pages
        /\ read'.cursor = read.cursor /\ read'.todo = read.todo /\ Got' = Got
    BY <2>1 DEF StartedReads, Got
  <2>3. /\ \A ids : Ordered(ids)' = Ordered(ids)
        /\ \A ids, n : Prefix(ids, n)' = Prefix(ids, n)
        /\ \A value : Selected(value)' = Selected(value)
    BY <2>1, OrderIsFixed DEF Selected
  <2>4. Reading' /\ read.still => read.start = Selected(read.value) /\ SoFar
    BY <2>1 DEF ExactInv, Reading, UnderWay
  <2>5. SoFar => SoFar'
    BY <2>1, <2>2, <2>3 DEF SoFar, ByCursor
  <2>6. read.start = Selected(read.value) => (read.start = Selected(read.value))'
    BY <2>1, <2>2 DEF Selected
  <2>7. Reading'
    BY <2>1, <2>2 DEF Reading
  <2> QED BY <2>2, <2>4, <2>5, <2>6, <2>7 DEF ExactInv
<1>8. CASE OpenFiles
  BY <1>8, OpenFilesIsExact
<1>9. CASE Write
  <2>1. read'.pc = "written"
    BY <1>9, WriteFacts
  <2> QED BY <2>1 DEF ExactInv, UnderWay
<1>10. CASE Save
  BY <1>10 DEF Save, ExactInv, UnderWay, Idle
<1>11. ASSUME NEW p \in 0 .. contract.parts - 1, ReadPartition(p) PROVE ExactInv'
  BY <1>11, ReadPartitionIsExact
<1>12. CASE UNCHANGED vars
  <2>1. UNCHANGED <<contract, stamps, listing, read>>
    BY <1>12 DEF vars
  <2>2. /\ \A ids : Ordered(ids)' = Ordered(ids)
        /\ \A ids, n : Prefix(ids, n)' = Prefix(ids, n)
    BY <2>1, OrderIsFixed
  <2>3. /\ UnderWay' <=> UnderWay
        /\ Reading' <=> Reading
        /\ Got' = Got
        /\ (read.start = Selected(read.value))' <=> (read.start = Selected(read.value))
    BY <2>1 DEF UnderWay, Reading, Selected, Got
  <2>4. (SoFar => SoFar') /\ (InTheEnd => InTheEnd')
    BY <2>1, <2>2, <2>3 DEF SoFar, InTheEnd, ByCursor
  <2> QED BY <2>1, <2>3, <2>4 DEF ExactInv
<1> QED BY <1>2, <1>3, <1>4, <1>5, <1>6, <1>7, <1>8, <1>9, <1>10, <1>11, <1>12, StepCases

\* What a read returns when the source held still.
THEOREM ReadsAreExact == Spec => []ReadIsExact
<1>1. Spec => [](TypeInv /\ ExactInv)
  BY TypeInvInit, TypeInvNext, ExactInvInit, ExactInvNext, PTL DEF Spec
<1>2. TypeInv /\ ExactInv => ReadIsExact
  BY ExactWhen
<1> QED BY <1>1, <1>2, PTL

-----------------------------------------------------------------------------
(***************************************************************************)
(* What a load may miss when the source moves under it.  ReadInv says, of  *)
(* a load that is under way, where it stands (PlaceInv), that pages from   *)
(* the oldest on come in order (OrderInv), and that a record which must    *)
(* not be missed has been read or is still pending (DueInv); when nothing  *)
(* is pending any more, that the read is complete (CompleteInv).  A record *)
(* that arrives between two pages of a source that lists the newest first  *)
(* is not due; one that disappears while pages are counted by position     *)
(* shifts the others, which is why the source must hold still there        *)
(* (~Moves).                                                               *)
(***************************************************************************)
\* The position of a record is bounded by how many records come before it.
LEMMA PositionBound ==
    ASSUME NEW ids \in SUBSET Int, IsFiniteSet(ids), NEW id \in ids
    PROVE  /\ \A low \in Int : ~contract.newest /\ (\A k \in ids : k > low) => Position(ids, id) <= id - low
           /\ \A high \in Int : contract.newest /\ (\A k \in ids : k < high) => Position(ids, id) <= high - id
<1>0. id \in Int /\ Position(ids, id) = Cardinality(UpTo(ids, id)) /\ UpTo(ids, id) \subseteq ids
      /\ Position(ids, id) \in Int
  BY PositionIs, PositionGrows DEF UpTo
<1>1. ASSUME NEW low \in Int, ~contract.newest, \A k \in ids : k > low
      PROVE  Position(ids, id) <= id - low
  <2>1. UpTo(ids, id) \in SUBSET (low + 1 .. id)
    <3>1. \A k \in UpTo(ids, id) : k \in Int /\ k > low /\ k <= id
      <4> SUFFICES ASSUME NEW k \in ids, ~Behind(id, k) PROVE k \in Int /\ k > low /\ k <= id
        BY DEF UpTo
      <4> QED BY <1>0, <1>1 DEF Behind
    <3> QED BY <1>0, <3>1
  <2>2. IsFiniteSet(low + 1 .. id) /\ Cardinality(low + 1 .. id) = IF low + 1 > id THEN 0 ELSE id - (low + 1) + 1
    BY <1>0, FS_Interval
  <2>3. Cardinality(UpTo(ids, id)) <= Cardinality(low + 1 .. id)
    BY <2>1, <2>2, FS_Subset
  <2>4. id > low
    BY <1>1
  <2> QED BY <1>0, <2>2, <2>3, <2>4
<1>2. ASSUME NEW high \in Int, contract.newest, \A k \in ids : k < high
      PROVE  Position(ids, id) <= high - id
  <2>1. UpTo(ids, id) \in SUBSET (id .. high - 1)
    <3>1. \A k \in UpTo(ids, id) : k \in Int /\ k < high /\ k >= id
      <4> SUFFICES ASSUME NEW k \in ids, ~Behind(id, k) PROVE k \in Int /\ k < high /\ k >= id
        BY DEF UpTo
      <4> QED BY <1>0, <1>2 DEF Behind
    <3> QED BY <1>0, <3>1
  <2>2. IsFiniteSet(id .. high - 1) /\ Cardinality(id .. high - 1) = IF id > high - 1 THEN 0 ELSE high - 1 - id + 1
    BY <1>0, FS_Interval
  <2>3. Cardinality(UpTo(ids, id)) <= Cardinality(id .. high - 1)
    BY <2>1, <2>2, FS_Subset
  <2>4. id < high
    BY <1>2
  <2> QED BY <1>0, <2>2, <2>3, <2>4
<1> QED BY <1>1, <1>2

-----------------------------------------------------------------------------
\* What the source would return of the records it has now.
Candidates == {id \in Selected(read.value) : contract.regex => id \in Matching}

\* What the requests that are left to make may return.
Pending(id) ==
    /\ contract.kind = "files" => id \in read.files
    /\ contract.kind \in {"jdbc", "table"} => id % contract.parts \in read.todo
    /\ ByCursor /\ read.cursor # Null => Behind(read.cursor, id)
    /\ ByPosition => Position(Candidates, id) > read.pages * contract.size

\* What a load must not miss: the records it began with, those before one it
\* has, and unless the newest come first whatever a query can still see.
Due(id) ==
    \/ id \in read.start
    \/ \E m \in Got : id < m
    \/ contract.kind # "files" /\ (~contract.newest \/ contract.paging = "none")

\* What the place of a read says about it.
PlaceInv ==
    /\ contract.kind \in {"rest", "http_file"} /\ contract.paging = "none" => Got = {}
    /\ contract.kind = "files" => Got = {}
    /\ contract.kind \in {"jdbc", "table"} => read.todo # {}
    /\ ByCursor => IF read.cursor = Null THEN read.pages = 0 /\ Got = {}
                   ELSE /\ read.cursor \in Records
                        /\ IF contract.newest
                           THEN read.cursor + read.pages * contract.size <= MaxRecords + 1
                           ELSE read.cursor >= read.pages * contract.size
    /\ ByPosition /\ ~contract.raw /\ contract.size = 1 => read.pages <= Cardinality(Candidates)

\* Pages from the oldest on: what is pending comes after what was read.
OrderInv ==
    contract.paging # "none" /\ ~contract.newest =>
        \A m \in Got, id \in Candidates : Pending(id) => m < id

\* What must not be missed has been read, or will be.
DueInv == \A id \in Candidates : Due(id) => id \in Got \/ Pending(id)

\* Nothing is cut off.
Uncut == contract.paging # "none" => contract.maxPages * contract.size >= MaxRecords

\* What a read that is over has.
CompleteInv ==
    /\ Uncut => read.start \cap Candidates \subseteq Got
    /\ CutsLatest => \A m \in Got, id \in Candidates : id < m => id \in Got

\* How a load that is under way began.
StartInv ==
    /\ \A m \in read.start, id \in Candidates : id < m => id \in read.start
    /\ read.value = ValueOf(read.last)
    /\ contract.kind = "files" =>
          read.files \subseteq read.start /\ (contract.regex => read.files \subseteq Matching)
    /\ \A id \in Got : /\ read.value = Null \/ stamps[id][1] > read.value
                       /\ contract.regex => id \in Matching

\* The parts, each for the time it is about.
ReadInv ==
    /\ UnderWay => StartInv
    /\ Reading => PlaceInv /\ OrderInv /\ DueInv
    /\ read.pc = "evaluated" => CompleteInv

-----------------------------------------------------------------------------
\* The candidates are records the source has.
LEMMA CandidateFacts ==
    ASSUME TypeInv
    PROVE  /\ Candidates \subseteq Records /\ Candidates \subseteq listing
           /\ Candidates \in SUBSET Int /\ IsFiniteSet(Candidates)
           /\ Cardinality(Candidates) \in Nat /\ Cardinality(Candidates) <= MaxRecords
           /\ \A id \in Records : id \in Nat /\ id >= 1 /\ id <= MaxRecords
           /\ contract.kind # "files" => Candidates = Selected(read.value)
           /\ \A id \in Candidates : read.value = Null \/ stamps[id][1] > read.value
           /\ \A id \in Candidates : contract.regex => id \in Matching
<1>1. Candidates \subseteq Records /\ Candidates \subseteq listing
  BY DEF Candidates, Selected, TypeInv
<1>2. /\ Candidates \in SUBSET Int /\ IsFiniteSet(Candidates)
      /\ Cardinality(Candidates) \in Nat /\ Cardinality(Candidates) <= Len(stamps)
      /\ Len(stamps) \in Nat
  BY <1>1, RecordSets DEF TypeInv
<1>3. Len(stamps) <= MaxRecords /\ MaxRecords \in Nat
  BY BoundsAssumption DEF TypeInv
<1>4. \A id \in Records : id \in Nat /\ id >= 1 /\ id <= MaxRecords
  BY <1>2, <1>3 DEF Records
<1>5. contract.regex => contract.kind = "files"
  BY ContractFacts DEF TypeInv, StampsOK
<1>6. contract.kind # "files" => Candidates = Selected(read.value)
  BY <1>5 DEF Candidates
<1>7. \A id \in Candidates : read.value = Null \/ stamps[id][1] > read.value
  BY DEF Candidates, Selected
<1>8. \A id \in Candidates : contract.regex => id \in Matching
  BY DEF Candidates
<1> QED BY <1>1, <1>2, <1>3, <1>4, <1>6, <1>7, <1>8

\* What a page takes of what is pending, and what it leaves.
PageSet == Members(Reply.records)
Left == {id \in Candidates : Pending(id) /\ id \notin PageSet}

\* What is pending in a paginated read is what the request may return, from
\* its first position on.
LEMMA PendingIs ==
    ASSUME TypeInv, Reading, contract.paging # "none"
    PROVE  /\ Remaining \subseteq Candidates
           /\ \A id \in Candidates :
                 Pending(id) <=> id \in Remaining /\ Position(Remaining, id) >= First
<1>1. /\ contract.kind = "rest"
      /\ contract.paging \in {"none", "page", "offset", "cursor", "link_header"}
      /\ contract.size \in Nat /\ contract.maxPages \in Nat
  BY ContractFacts DEF TypeInv, StampsOK
<1>2. /\ Candidates \in SUBSET Int /\ IsFiniteSet(Candidates) /\ Candidates = Selected(read.value)
  BY <1>1, CandidateFacts
<1>3. read.pages \in Nat /\ read.pages * contract.size \in Nat
  BY <1>1 DEF TypeInv
<1>4. Remaining \subseteq Candidates
  BY <1>2 DEF Remaining
<1>5. IsFiniteSet(Remaining) /\ Remaining \in SUBSET Int
  BY <1>2, <1>4, FS_Subset
<1>6. ASSUME NEW id \in Candidates
      PROVE  Pending(id) <=> id \in Remaining /\ Position(Remaining, id) >= First
  <2>1. CASE ByCursor
    <3>1. ~ByPosition /\ First = 1
      BY <2>1 DEF ByCursor, ByPosition, First
    <3>2. Pending(id) <=> id \in Remaining
      BY <1>1, <1>2, <2>1, <3>1 DEF Pending, Remaining
    <3>3. id \in Remaining => Position(Remaining, id) \in 1 .. Cardinality(Remaining) /\ Cardinality(Remaining) \in Nat
      BY <1>5, PositionGrows
    <3> QED BY <3>1, <3>2, <3>3
  <2>2. CASE ~ByCursor
    <3>1. ByPosition /\ First = read.pages * contract.size + 1
      BY <1>1, <2>2 DEF ByCursor, ByPosition, First
    <3>2. Remaining = Candidates
      BY <1>2, <2>2 DEF Remaining
    <3>3. Pending(id) <=> Position(Candidates, id) > read.pages * contract.size
      BY <1>1, <2>2, <3>1 DEF Pending
    <3>4. Position(Candidates, id) \in 1 .. Cardinality(Candidates) /\ Cardinality(Candidates) \in Nat
      BY <1>2, PositionGrows
    <3> QED BY <1>3, <3>1, <3>2, <3>3, <3>4
  <2> QED BY <2>1, <2>2
<1> QED BY <1>4, <1>6

\* A page takes the first records of what is pending.
LEMMA PageTakes ==
    ASSUME TypeInv, PlaceInv, ReadPage, contract.paging # "none"
    PROVE  /\ contract.size \in Nat \ {0} /\ read.pages \in Nat
           /\ read.pages * contract.size \in Nat
           /\ (read.pages + 1) * contract.size = read.pages * contract.size + contract.size
           /\ First = (IF ByPosition THEN read.pages * contract.size + 1 ELSE 1)
           /\ Last \in Nat /\ First \in Nat \ {0}
           /\ Candidates \in SUBSET Int /\ IsFiniteSet(Candidates)
           /\ Remaining \subseteq Candidates /\ IsFiniteSet(Remaining) /\ Remaining \in SUBSET Int
           /\ PageSet = {id \in Remaining : Position(Remaining, id) \in First .. Last}
           /\ Left = {id \in Remaining : Position(Remaining, id) >= First /\ Position(Remaining, id) > Last}
           /\ \A id \in PageSet : Pending(id)
           /\ \A m \in PageSet, id \in Left : Behind(m, id)
           /\ Left # {} => Last = First + contract.size - 1
<1>1. /\ contract.kind = "rest" /\ contract.size \in Nat \ {0} /\ contract.maxPages \in Nat
  BY ContractFacts DEF TypeInv, StampsOK
<1>2. Reading
  BY ReadPageFacts
<1>3. read.pages \in Nat
  BY <1>1, <1>2 DEF TypeInv
<1>4. /\ read.pages * contract.size \in Nat
      /\ (read.pages + 1) * contract.size = read.pages * contract.size + contract.size
  <2>1. contract.size \in Nat /\ read.pages <= read.pages
    BY <1>1, <1>3
  <2> QED BY <1>3, <2>1, TimesGrows
<1>5. First = IF ByPosition THEN read.pages * contract.size + 1 ELSE 1
  BY DEF First
<1>6. /\ Last \in Nat /\ First \in Nat \ {0} /\ Last <= Cardinality(Remaining)
      /\ Cardinality(Remaining) \in Nat
      /\ Members(Reply.records) = {id \in Remaining : Position(Remaining, id) \in First .. Last}
  BY <1>3, ReplyIs DEF TypeInv
<1>7. /\ Candidates \in SUBSET Int /\ IsFiniteSet(Candidates)
      /\ Remaining \subseteq Candidates
      /\ \A id \in Candidates :
                 Pending(id) <=> id \in Remaining /\ Position(Remaining, id) >= First
  BY <1>2, CandidateFacts, PendingIs
<1>8. IsFiniteSet(Remaining) /\ Remaining \in SUBSET Int
  BY <1>7, FS_Subset
<1>9. \A id \in Remaining : Position(Remaining, id) \in 1 .. Cardinality(Remaining)
  BY <1>8, PositionGrows
<1>10. PageSet = {id \in Remaining : Position(Remaining, id) \in First .. Last}
  BY <1>6 DEF PageSet
<1>11. Left = {id \in Remaining : Position(Remaining, id) >= First /\ Position(Remaining, id) > Last}
  <2>1. ASSUME NEW id \in Remaining
        PROVE  Position(Remaining, id) >= First /\ Position(Remaining, id) \notin First .. Last
               <=> Position(Remaining, id) >= First /\ Position(Remaining, id) > Last
    BY <1>6, <1>9
  <2> QED BY <1>7, <1>10, <2>1 DEF Left
<1>12. ASSUME NEW id \in PageSet PROVE Pending(id)
  <2>1. id \in Remaining /\ Position(Remaining, id) >= First
    BY <1>6, <1>10
  <2> QED BY <1>7, <2>1
<1>13. ASSUME NEW m \in PageSet, NEW id \in Left PROVE Behind(m, id)
  <2>1. /\ m \in Remaining /\ id \in Remaining
        /\ Position(Remaining, m) \in 1 .. Cardinality(Remaining)
        /\ Position(Remaining, id) \in 1 .. Cardinality(Remaining)
        /\ Position(Remaining, m) <= Last /\ Position(Remaining, id) > Last
    BY <1>6, <1>9, <1>10, <1>11
  <2>2. Position(Remaining, m) < Position(Remaining, id)
    BY <1>6, <2>1
  <2> QED BY <1>8, <2>1, <2>2, PositionGrows
<1>14. ASSUME Left # {} PROVE Last = First + contract.size - 1
  <2>1. PICK id \in Left : TRUE
    BY <1>14
  <2>2. Position(Remaining, id) > Last /\ Position(Remaining, id) \in 1 .. Cardinality(Remaining)
    BY <1>9, <1>11, <2>1
  <2>3. Last < Cardinality(Remaining)
    BY <1>6, <2>2
  <2>4. Last # Cardinality(Remaining)
    BY <1>6, <2>3
  <2> QED BY <2>4 DEF Last
<1> QED BY <1>1, <1>3, <1>4, <1>5, <1>6, <1>7, <1>8, <1>10, <1>11, <1>12, <1>13, <1>14

\* A record at some position has as many records between itself and the
\* oldest one, or the newest one there may ever be.
LEMMA PageBound ==
    ASSUME TypeInv, PlaceInv, ReadPage, contract.paging # "none", NEW id \in Remaining
    PROVE  LET done == IF ByPosition THEN 0 ELSE read.pages * contract.size
           IN  IF contract.newest THEN id + done + Position(Remaining, id) <= MaxRecords + 1
               ELSE id >= done + Position(Remaining, id)
<1> DEFINE done == IF ByPosition THEN 0 ELSE read.pages * contract.size
<1>1. /\ read.pages \in Nat /\ read.pages * contract.size \in Nat /\ contract.size \in Nat
      /\ Remaining \subseteq Candidates /\ IsFiniteSet(Remaining) /\ Remaining \in SUBSET Int
  BY PageTakes
<1>2. done \in Nat /\ MaxRecords \in Nat
  BY <1>1, BoundsAssumption
<1>3. /\ Candidates \subseteq Records
      /\ \A k \in Records : k \in Nat /\ k >= 1 /\ k <= MaxRecords
  BY CandidateFacts
<1>4. ByPosition \/ ByCursor
  BY ContractFacts DEF TypeInv, StampsOK, ByPosition, ByCursor
<1>5. CASE ~contract.newest
  <2>1. \A k \in Remaining : k > done
    <3> SUFFICES ASSUME NEW k \in Remaining PROVE k > done
      OBVIOUS
    <3>0. k \in Nat /\ k >= 1
      BY <1>1, <1>3
    <3>1. CASE ByPosition
      BY <3>0, <3>1
    <3>2. CASE ~ByPosition /\ read.cursor = Null
      <4>1. read.pages = 0
        BY <1>4, <3>2 DEF PlaceInv
      <4>2. done = 0
        BY <1>1, <3>2, <4>1
      <4> QED BY <3>0, <4>2
    <3>3. CASE ~ByPosition /\ read.cursor # Null
      <4>1. read.cursor \in Records /\ read.cursor >= read.pages * contract.size
        BY <1>4, <1>5, <3>3 DEF PlaceInv
      <4>2. Behind(read.cursor, k)
        BY <1>4, <3>3 DEF Remaining
      <4>3. k > read.cursor /\ read.cursor \in Nat
        BY <1>3, <1>5, <4>1, <4>2 DEF Behind
      <4> HIDE DEF done
      <4>4. done = read.pages * contract.size
        BY <3>3 DEF done
      <4> QED BY <1>2, <3>0, <4>1, <4>3, <4>4
    <3> QED BY <3>1, <3>2, <3>3
  <2> HIDE DEF done
  <2>2. Position(Remaining, id) <= id - done /\ Position(Remaining, id) \in Nat /\ id \in Nat
    <3>1. Position(Remaining, id) \in 1 .. Cardinality(Remaining) /\ Cardinality(Remaining) \in Nat
      BY <1>1, PositionGrows
    <3>2. done \in Int
      BY <1>2
    <3>3. \A low \in Int : (\A k \in Remaining : k > low) => Position(Remaining, id) <= id - low
      BY <1>1, <1>5, PositionBound
    <3>4. Position(Remaining, id) <= id - done
      BY <2>1, <3>2, <3>3
    <3> QED BY <1>1, <1>3, <3>1, <3>4
  <2> QED BY <1>2, <1>5, <2>2 DEF done
<1>6. CASE contract.newest
  <2>1. \A k \in Remaining : k < MaxRecords + 1 - done
    <3> SUFFICES ASSUME NEW k \in Remaining PROVE k < MaxRecords + 1 - done
      OBVIOUS
    <3>0. k \in Nat /\ k <= MaxRecords
      BY <1>1, <1>3
    <3>1. CASE ByPosition
      BY <1>2, <3>0, <3>1
    <3>2. CASE ~ByPosition /\ read.cursor = Null
      <4>1. read.pages = 0
        BY <1>4, <3>2 DEF PlaceInv
      <4>2. done = 0
        BY <1>1, <3>2, <4>1
      <4> QED BY <1>2, <3>0, <4>2
    <3>3. CASE ~ByPosition /\ read.cursor # Null
      <4>1. read.cursor \in Records /\ read.cursor + read.pages * contract.size <= MaxRecords + 1
        BY <1>4, <1>6, <3>3 DEF PlaceInv
      <4>2. Behind(read.cursor, k)
        BY <1>4, <3>3 DEF Remaining
      <4>3. k < read.cursor /\ read.cursor \in Nat
        BY <1>3, <1>6, <4>1, <4>2 DEF Behind
      <4> HIDE DEF done
      <4>4. done = read.pages * contract.size
        BY <3>3 DEF done
      <4> QED BY <1>2, <3>0, <4>1, <4>3, <4>4
    <3> QED BY <3>1, <3>2, <3>3
  <2> HIDE DEF done
  <2>2. Position(Remaining, id) <= MaxRecords + 1 - done - id /\ Position(Remaining, id) \in Nat /\ id \in Nat
    <3>1. Position(Remaining, id) \in 1 .. Cardinality(Remaining) /\ Cardinality(Remaining) \in Nat
      BY <1>1, PositionGrows
    <3>2. MaxRecords + 1 - done \in Int
      BY <1>2
    <3>3. \A high \in Int : (\A k \in Remaining : k < high) => Position(Remaining, id) <= high - id
      BY <1>1, <1>6, PositionBound
    <3> DEFINE top == MaxRecords + 1 - done
    <3>5. top \in Int /\ \A k \in Remaining : k < top
      BY <2>1, <3>2
    <3>7. top = MaxRecords + 1 - done
      OBVIOUS
    <3> HIDE DEF top
    <3>6. Position(Remaining, id) <= top - id
      BY <3>3, <3>5
    <3>4. Position(Remaining, id) <= MaxRecords + 1 - done - id
      BY <1>1, <1>2, <1>3, <3>1, <3>6, <3>7
    <3> QED BY <1>1, <1>3, <3>1, <3>4
  <2> QED BY <1>2, <1>6, <2>2 DEF done
<1> QED BY <1>5, <1>6

\* A read that may return every record leaves none when it stops at max_pages.
LEMMA LeftIsCut ==
    ASSUME TypeInv, PlaceInv, ReadPage, contract.paging # "none", Left # {},
           read.pages + 1 = contract.maxPages
    PROVE  ~(contract.maxPages * contract.size >= MaxRecords)
<1>1. /\ contract.size \in Nat \ {0} /\ read.pages \in Nat
      /\ read.pages * contract.size \in Nat
      /\ (read.pages + 1) * contract.size = read.pages * contract.size + contract.size
      /\ First = (IF ByPosition THEN read.pages * contract.size + 1 ELSE 1)
      /\ Left = {id \in Remaining : Position(Remaining, id) >= First /\ Position(Remaining, id) > Last}
      /\ Last = First + contract.size - 1
      /\ Remaining \subseteq Candidates /\ IsFiniteSet(Remaining) /\ Remaining \in SUBSET Int
  BY PageTakes
<1>2. PICK id \in Remaining : Position(Remaining, id) > Last
  BY <1>1
<1>3. id \in Nat /\ id >= 1 /\ id <= MaxRecords /\ MaxRecords \in Nat
  BY <1>1, CandidateFacts, BoundsAssumption
<1>4. Position(Remaining, id) \in 1 .. Cardinality(Remaining) /\ Cardinality(Remaining) \in Nat
  BY <1>1, PositionGrows
<1> DEFINE total == contract.maxPages * contract.size
           before == read.pages * contract.size
           size == contract.size
           pos == Position(Remaining, id)
           done == IF ByPosition THEN 0 ELSE before
<1>5. total = before + size
  BY <1>1
<1>6. IF contract.newest THEN id + done + pos <= MaxRecords + 1 ELSE id >= done + pos
  BY PageBound
<1>7. size \in Nat /\ before \in Nat /\ pos \in Nat /\ pos > Last
  BY <1>1, <1>2, <1>4
<1>8. Last = (IF ByPosition THEN before + 1 ELSE 1) + size - 1
  BY <1>1
<1> HIDE DEF total, before, size, pos
<1>9. done + pos > before + size
  BY <1>7, <1>8
<1> QED BY <1>3, <1>5, <1>6, <1>7, <1>9 DEF total

\* What is behind a pending record is pending.
LEMMA PendingSpreads ==
    ASSUME TypeInv, Reading, contract.paging # "none",
           NEW m \in Candidates, NEW id \in Candidates, Pending(m), Behind(m, id)
    PROVE  Pending(id)
<1>1. contract.kind = "rest" /\ contract.size \in Nat /\ contract.maxPages \in Nat
  BY ContractFacts DEF TypeInv, StampsOK
<1>2. Candidates \in SUBSET Int /\ IsFiniteSet(Candidates)
  BY CandidateFacts
<1>3. ByCursor /\ read.cursor # Null => Behind(read.cursor, id)
  <2> SUFFICES ASSUME ByCursor, read.cursor # Null PROVE Behind(read.cursor, id)
    OBVIOUS
  <2>1. Behind(read.cursor, m)
    BY DEF Pending
  <2>2. read.cursor \in Int /\ m \in Int /\ id \in Int
    BY <1>2, ReadKinds DEF Reading, StartedReads
  <2>3. CASE contract.newest
    BY <2>1, <2>2, <2>3 DEF Behind
  <2>4. CASE ~contract.newest
    BY <2>1, <2>2, <2>4 DEF Behind
  <2> QED BY <2>3, <2>4
<1>4. ByPosition => Position(Candidates, id) > read.pages * contract.size
  <2> SUFFICES ASSUME ByPosition PROVE Position(Candidates, id) > read.pages * contract.size
    OBVIOUS
  <2>1. Position(Candidates, m) > read.pages * contract.size
    BY DEF Pending
  <2>2. /\ Position(Candidates, m) \in 1 .. Cardinality(Candidates)
        /\ Position(Candidates, id) \in 1 .. Cardinality(Candidates) /\ Cardinality(Candidates) \in Nat
        /\ Position(Candidates, m) < Position(Candidates, id)
    BY <1>2, PositionGrows
  <2>3. read.pages * contract.size \in Nat
    <3>1. read.pages \in Nat
      BY <1>1 DEF TypeInv
    <3> QED BY <1>1, <3>1
  <2> QED BY <2>1, <2>2, <2>3
<1> QED BY <1>1, <1>3, <1>4 DEF Pending

\* Between two pages: what the page left is pending, and the cursor names
\* the last record of the page.
LEMMA CursorMoves ==
    ASSUME TypeInv, PlaceInv, ReadPage, contract.paging # "none", Reading', ByCursor
    PROVE  /\ Left = {id \in Remaining : Position(Remaining, id) > contract.size}
           /\ read'.cursor \in Remaining /\ read'.cursor \in PageSet
           /\ Position(Remaining, read'.cursor) = contract.size
           /\ read'.cursor # Null
<1>1. /\ contract.size \in Nat \ {0} /\ read.pages \in Nat
      /\ Last \in Nat /\ First \in Nat \ {0}
      /\ First = (IF ByPosition THEN read.pages * contract.size + 1 ELSE 1)
      /\ Remaining \subseteq Candidates /\ IsFiniteSet(Remaining) /\ Remaining \in SUBSET Int
      /\ PageSet = {id \in Remaining : Position(Remaining, id) \in First .. Last}
      /\ Left = {id \in Remaining : Position(Remaining, id) >= First /\ Position(Remaining, id) > Last}
  BY PageTakes
<1>2. ~ByPosition /\ First = 1
  BY <1>1 DEF ByPosition, ByCursor
<1>3. /\ Cardinality(Remaining) \in Nat
      /\ Len(Reply.records) = IF First <= Last THEN Last - First + 1 ELSE 0
      /\ \A n \in 1 .. Len(Reply.records) : Reply.records[n] = Ordered(Remaining)[First + n - 1]
      /\ Reply.more <=> Last < Cardinality(Remaining)
  BY <1>1, ReplyIs DEF TypeInv
<1>4. ~IsLast(Reply) /\ read'.cursor = NextCursor(Reply.records)
  BY ReadPageFacts DEF Reading
<1>5. Reply.more /\ Last < Cardinality(Remaining)
  BY <1>3, <1>4 DEF IsLast
<1>6. Last = contract.size
  <2>1. Last # Cardinality(Remaining)
    BY <1>1, <1>3, <1>5
  <2>2. Last = First + contract.size - 1
    BY <2>1 DEF Last
  <2> QED BY <1>1, <1>2, <2>2
<1> DEFINE page == Reply.records
           size == contract.size
           O == Ordered(Remaining)
<1> HIDE DEF page, size, O
<1>7. size \in Nat \ {0} /\ size \in 1 .. Cardinality(Remaining)
  BY <1>1, <1>3, <1>5, <1>6 DEF size
<1>8. Len(page) = size /\ \A n \in 1 .. size : page[n] = O[n]
  <2>1. Len(page) = size
    BY <1>2, <1>3, <1>6, <1>7 DEF page, size
  <2>2. ASSUME NEW n \in 1 .. size PROVE page[n] = O[n]
    <3>1. First + n - 1 = n
      BY <1>2
    <3> QED BY <1>3, <2>1, <3>1 DEF page, O
  <2> QED BY <2>1, <2>2
<1>9. read'.cursor = O[size]
  <2>1. page # <<>>
    <3> SUFFICES ASSUME page = <<>> PROVE FALSE
      OBVIOUS
    <3>1. Len(page) = 0
      OBVIOUS
    <3> QED BY <1>7, <1>8, <3>1
  <2>2. read'.cursor = page[size] /\ size \in 1 .. size
    BY <1>4, <1>7, <1>8, <2>1 DEF NextCursor, page
  <2> QED BY <1>8, <2>2
<1>10. O[size] \in Remaining /\ Position(Remaining, O[size]) = size
  BY <1>1, <1>7, OrderedEnumerates DEF O
<1>11. size \in First .. Last
  BY <1>2, <1>6, <1>7 DEF size
<1>12. O[size] \in PageSet
  BY <1>1, <1>10, <1>11
<1>13. O[size] # Null
  <2>1. O[size] \in Records
    BY <1>1, <1>10, CandidateFacts
  <2> QED BY <2>1, CandidateFacts DEF Null
<1>14. Left = {id \in Remaining : Position(Remaining, id) > contract.size}
  <2>1. \A id \in Remaining : Position(Remaining, id) \in 1 .. Cardinality(Remaining)
    BY <1>1, PositionGrows
  <2>2. \A id \in Remaining : Position(Remaining, id) >= First
    BY <1>2, <1>3, <2>1
  <2> QED BY <1>1, <1>6, <2>2
<1> QED BY <1>9, <1>10, <1>12, <1>13, <1>14 DEF size

\* What a page changes about what can be read.
LEMMA PageFrame ==
    ASSUME TypeInv, ReadPage
    PROVE  /\ contract' = contract /\ stamps' = stamps /\ Records' = Records
           /\ Candidates' = Candidates
           /\ \A ids, id : Position(ids, id)' = Position(ids, id)
           /\ \A i, j : Behind(i, j)' <=> Behind(i, j)
           /\ ByCursor' <=> ByCursor
           /\ ByPosition' <=> ByPosition
<1>1. UNCHANGED <<contract, stamps, listing>> /\ read'.value = read.value
  BY ReadPageFacts DEF sourceVars
<1>2. Candidates' = Candidates
  BY <1>1 DEF Candidates, Selected
<1> QED BY <1>1, <1>2, OrderIsFixed DEF Records, Behind, ByCursor, ByPosition

\* What is pending after a page is what it left.
LEMMA PendingAfter ==
    ASSUME TypeInv, PlaceInv, ReadPage, contract.paging # "none", Reading'
    PROVE  \A id \in Candidates : Pending(id)' <=> id \in Left
<1>1. contract.kind = "rest"
      /\ contract.paging \in {"none", "page", "offset", "cursor", "link_header"}
  BY ContractFacts DEF TypeInv, StampsOK
<1>2. /\ contract.size \in Nat \ {0} /\ read.pages \in Nat
      /\ read.pages * contract.size \in Nat
      /\ (read.pages + 1) * contract.size = read.pages * contract.size + contract.size
      /\ First = (IF ByPosition THEN read.pages * contract.size + 1 ELSE 1)
      /\ Last \in Nat /\ First \in Nat \ {0}
      /\ Candidates \in SUBSET Int /\ IsFiniteSet(Candidates)
      /\ Remaining \subseteq Candidates /\ IsFiniteSet(Remaining) /\ Remaining \in SUBSET Int
      /\ Left = {id \in Remaining : Position(Remaining, id) >= First /\ Position(Remaining, id) > Last}
      /\ Left # {} => Last = First + contract.size - 1
  BY PageTakes
<1>3. /\ contract' = contract /\ Candidates' = Candidates
      /\ \A ids, id : Position(ids, id)' = Position(ids, id)
      /\ \A i, j : Behind(i, j)' <=> Behind(i, j)
      /\ ByCursor' <=> ByCursor
      /\ ByPosition' <=> ByPosition
      /\ read'.pages = read.pages + 1
  BY PageFrame, ReadPageFacts
<1>4. CASE ByCursor
  <2>1. /\ Left = {id \in Remaining : Position(Remaining, id) > contract.size}
        /\ read'.cursor \in Remaining
        /\ Position(Remaining, read'.cursor) = contract.size
        /\ read'.cursor # Null
    BY <1>4, CursorMoves
  <2> DEFINE c == read'.cursor
  <2>2. ASSUME NEW id \in Candidates PROVE Pending(id)' <=> Behind(c, id)
    BY <1>1, <1>3, <1>4, <2>1 DEF Pending, ByPosition, ByCursor, Behind
  <2> HIDE DEF c
  <2>3. ASSUME NEW id \in Left PROVE Behind(c, id)
    <3>1. id \in Remaining /\ Position(Remaining, c) < Position(Remaining, id) /\ c \in Remaining
      <4>1. id \in Remaining /\ Position(Remaining, id) > contract.size
        BY <2>1
      <4>2. Position(Remaining, id) \in 1 .. Cardinality(Remaining) /\ Cardinality(Remaining) \in Nat
        BY <1>2, <4>1, PositionGrows
      <4> QED BY <1>2, <2>1, <4>1, <4>2 DEF c
    <3> QED BY <1>2, <3>1, PositionGrows
  <2>4. ASSUME NEW id \in Candidates, Behind(c, id) PROVE id \in Left
    <3>1. c \in Remaining /\ c \in Candidates /\ c \in Int /\ id \in Int
      BY <1>2, <2>1 DEF c
    <3>2. id \in Selected(read.value)
      BY DEF Candidates
    <3>3. ASSUME read.cursor # Null PROVE Behind(read.cursor, id)
      <4>1. Behind(read.cursor, c)
        BY <1>4, <3>1, <3>3 DEF Remaining
      <4>2. read.cursor \in Int
        BY ReadPageFacts DEF StartedReads
      <4>3. CASE contract.newest
        BY <2>4, <3>1, <4>1, <4>2, <4>3 DEF Behind
      <4>4. CASE ~contract.newest
        BY <2>4, <3>1, <4>1, <4>2, <4>4 DEF Behind
      <4> QED BY <4>3, <4>4
    <3>4. id \in Remaining
      BY <3>2, <3>3 DEF Remaining
    <3>5. Position(Remaining, c) < Position(Remaining, id)
      BY <1>2, <2>4, <3>1, <3>4, PositionGrows
    <3>6. Position(Remaining, id) \in 1 .. Cardinality(Remaining) /\ Cardinality(Remaining) \in Nat
      BY <1>2, <3>4, PositionGrows
    <3>7. Position(Remaining, id) > contract.size
      BY <1>2, <2>1, <3>5, <3>6 DEF c
    <3> QED BY <2>1, <3>4, <3>7
  <2>5. ASSUME NEW id \in Candidates PROVE Behind(c, id) <=> id \in Left
    BY <2>3, <2>4
  <2> QED BY <2>2, <2>5 DEF c
<1>5. CASE ~ByCursor
  <2>1. ByPosition
    BY <1>1, <1>5 DEF ByCursor, ByPosition
  <2>2. Remaining = Candidates
    BY <1>1, <1>5, CandidateFacts DEF Remaining
  <2>3. ASSUME NEW id \in Candidates
        PROVE  Pending(id)' <=> Position(Candidates, id) > read.pages * contract.size + contract.size
    <3>2. Position(Candidates, id)' = Position(Candidates, id)
      BY <1>3 DEF Position
    <3>3. read'.pages * contract'.size = read.pages * contract.size + contract.size
      BY <1>2, <1>3
    <3>4. contract'.kind = "rest" /\ ~ByCursor' /\ ByPosition'
      BY <1>1, <1>3, <1>5, <2>1
    <3> QED BY <3>2, <3>3, <3>4 DEF Pending
  <2>4. ASSUME NEW id \in Candidates
        PROVE  id \in Left <=> Position(Candidates, id) > read.pages * contract.size + contract.size
    <3> DEFINE pos == Position(Candidates, id)
               done == read.pages * contract.size
               size == contract.size
    <3>1. pos \in 1 .. Cardinality(Candidates) /\ Cardinality(Candidates) \in Nat
      BY <1>2, PositionGrows
    <3>2. id \in Left <=> pos >= First /\ pos > Last
      BY <1>2, <2>2
    <3>3. done \in Nat /\ size \in Nat \ {0} /\ First = done + 1
      BY <1>2, <2>1
    <3>4. Last = IF Cardinality(Candidates) <= First + size - 1 THEN Cardinality(Candidates) ELSE First + size - 1
      BY <1>1, <2>2, <2>1 DEF Last, ByPosition
    <3> HIDE DEF pos, done, size
    <3>5. id \in Left <=> pos > done + size
      BY <1>2, <3>1, <3>2, <3>3, <3>4
    <3> QED BY <3>5 DEF pos, done, size
  <2> QED BY <2>3, <2>4
<1> QED BY <1>4, <1>5

\* Whatever is due is in the pages so far, or left.
LEMMA DueAfterPage ==
    ASSUME TypeInv, ReadInv, ReadPage, contract.paging # "none"
    PROVE  \A id \in Candidates : Due(id)' => id \in Got' \/ id \in Left
<1>1. /\ Reading /\ read'.start = read.start /\ Got' = Got \cup PageSet
  BY ReadPageFacts DEF PageSet
<1>2. PlaceInv /\ DueInv
  BY <1>1 DEF ReadInv
<1>3. contract.kind = "rest" /\ contract' = contract
  BY PageFrame, ContractFacts DEF TypeInv, StampsOK
<1>4. /\ \A m \in PageSet : Pending(m)
      /\ PageSet \subseteq Candidates /\ Candidates \in SUBSET Int
  BY <1>2, PageTakes
<1>5. ASSUME NEW id \in Candidates, Due(id)' PROVE id \in Got' \/ id \in Left
  <2>1. ASSUME Due(id) PROVE id \in Got' \/ id \in Left
    <3>1. id \in Got \/ Pending(id)
      BY <1>2, <2>1 DEF DueInv
    <3> QED BY <1>1, <3>1 DEF Left
  <2>2. ASSUME NEW m \in PageSet, id < m, contract.newest PROVE id \in Got' \/ id \in Left
    <3>1. Behind(m, id)
      BY <2>2 DEF Behind
    <3>2. Pending(m) /\ m \in Candidates
      BY <1>4
    <3>3. Pending(id)
      BY <1>1, <3>1, <3>2, PendingSpreads
    <3> QED BY <1>1, <3>3 DEF Left
  <2>3. \/ Due(id)
        \/ \E m \in PageSet : id < m /\ contract.newest
    <3>1. \/ id \in read.start
          \/ \E m \in Got \cup PageSet : id < m
          \/ contract.kind # "files" /\ (~contract.newest \/ contract.paging = "none")
      BY <1>1, <1>3, <1>5 DEF Due
    <3> QED BY <1>3, <3>1 DEF Due
  <2> QED BY <2>1, <2>2, <2>3
<1> QED BY <1>5

\* A page has only records that were asked for.
LEMMA ReadPageStarts ==
    ASSUME TypeInv, ReadInv, ReadPage
    PROVE  StartInv'
<1>1. /\ Reading /\ read'.start = read.start /\ Got' = Got \cup PageSet
      /\ read'.last = read.last /\ read'.value = read.value /\ read'.files = read.files
      /\ contract.kind \in {"rest", "http_file"}
  BY ReadPageFacts DEF PageSet
<1>2. StartInv
  BY <1>1 DEF ReadInv, UnderWay, Reading
<1>3. contract' = contract /\ stamps' = stamps /\ Candidates' = Candidates
  BY PageFrame
<1>4. PageSet \subseteq Candidates
  <2>1. Remaining \subseteq Candidates
    BY <1>1, CandidateFacts DEF Remaining
  <2>2. PageSet \subseteq Remaining
    BY <1>1, ReplyIs DEF PageSet, TypeInv
  <2> QED BY <2>1, <2>2
<1>5. ValueOf(read.last)' = ValueOf(read.last)
  BY <1>1, <1>3 DEF ValueOf, PushedValue
<1>6. \A id \in PageSet : /\ read.value = Null \/ stamps[id][1] > read.value
                          /\ contract.regex => id \in Matching
  BY <1>4, CandidateFacts
<1> QED BY <1>1, <1>2, <1>3, <1>5, <1>6 DEF StartInv

\* The read goes on behind the page.
LEMMA ReadPageGoesOn ==
    ASSUME TypeInv, ReadInv, ReadPage, Reading'
    PROVE  PlaceInv' /\ OrderInv' /\ DueInv'
<1>1. /\ Reading /\ contract.kind \in {"rest", "http_file"} /\ Got' = Got \cup PageSet
      /\ ~IsLast(Reply) /\ read'.pages = read.pages + 1
  BY ReadPageFacts DEF Reading, PageSet
<1>2. PlaceInv /\ DueInv /\ OrderInv
  BY <1>1 DEF ReadInv
<1>3. contract.paging # "none"
  BY <1>1 DEF IsLast
<1>4. /\ contract' = contract /\ Candidates' = Candidates /\ Records' = Records
      /\ ByCursor' <=> ByCursor
      /\ ByPosition' <=> ByPosition
  BY PageFrame
<1>5. /\ contract.size \in Nat \ {0} /\ read.pages \in Nat
      /\ read.pages * contract.size \in Nat
      /\ (read.pages + 1) * contract.size = read.pages * contract.size + contract.size
      /\ First = (IF ByPosition THEN read.pages * contract.size + 1 ELSE 1)
      /\ Candidates \in SUBSET Int /\ IsFiniteSet(Candidates)
      /\ Remaining \subseteq Candidates /\ Remaining \in SUBSET Int
      /\ \A id \in PageSet : Pending(id)
      /\ \A m \in PageSet, id \in Left : Behind(m, id)
      /\ PageSet = {id \in Remaining : Position(Remaining, id) \in First .. Last}
  BY <1>2, <1>3, PageTakes
<1>6. \A id \in Candidates : Pending(id)' <=> id \in Left
  BY <1>2, <1>3, PendingAfter
<1>7. contract.kind = "rest"
  BY <1>3, ContractFacts DEF TypeInv, StampsOK
<1>8. DueInv'
  BY <1>2, <1>3, <1>4, <1>6, DueAfterPage DEF DueInv
<1>9. ASSUME ~contract.newest, NEW m \in Got', NEW id \in Candidates, Pending(id)' PROVE m < id
  <2>1. id \in Left /\ Pending(id)
    BY <1>6, <1>9 DEF Left
  <2>2. CASE m \in Got
    BY <1>2, <1>3, <1>9, <2>1, <2>2 DEF OrderInv
  <2>3. CASE m \in PageSet
    <3>1. Behind(m, id)
      BY <1>5, <2>1, <2>3
    <3>2. m \in Int /\ id \in Int
      BY <1>5, <2>3
    <3> QED BY <1>9, <3>1, <3>2 DEF Behind
  <2> QED BY <1>1, <2>2, <2>3
<1>10. OrderInv'
  BY <1>4, <1>9 DEF OrderInv
<1>11. ASSUME ByCursor
       PROVE  /\ read'.cursor # Null /\ read'.cursor \in Records
              /\ IF contract.newest
                 THEN read'.cursor + read'.pages * contract.size <= MaxRecords + 1
                 ELSE read'.cursor >= read'.pages * contract.size
  <2> DEFINE c == read'.cursor
             done == read.pages * contract.size
             size == contract.size
  <2>1. c \in Remaining /\ Position(Remaining, c) = size /\ c # Null
    BY <1>2, <1>3, <1>11, CursorMoves
  <2>2. ~ByPosition
    BY <1>11 DEF ByPosition, ByCursor
  <2> HIDE DEF c
  <2>3. IF contract.newest THEN c + done + Position(Remaining, c) <= MaxRecords + 1
        ELSE c >= done + Position(Remaining, c)
    BY <1>2, <1>3, <2>1, <2>2, PageBound
  <2>4. c \in Records /\ c \in Nat /\ MaxRecords \in Nat
    BY <1>5, <2>1, CandidateFacts, BoundsAssumption
  <2>5. read'.pages * size = done + size /\ done \in Nat /\ size \in Nat
    BY <1>1, <1>5
  <2> HIDE DEF done, size
  <2>6. IF contract.newest THEN c + (done + size) <= MaxRecords + 1 ELSE c >= done + size
    BY <2>1, <2>3, <2>4, <2>5
  <2> QED BY <2>1, <2>4, <2>5, <2>6 DEF c, size
<1>12. ASSUME ByPosition, ~contract.raw, contract.size = 1 PROVE read'.pages <= Cardinality(Candidates)
  <2>1. Reply.records # <<>>
    BY <1>1, <1>12 DEF IsLast
  <2>2. /\ Last \in Nat /\ Last <= Cardinality(Remaining) /\ Cardinality(Remaining) \in Nat
        /\ Len(Reply.records) = IF First <= Last THEN Last - First + 1 ELSE 0
        /\ Reply.records \in Seq(Remaining)
    BY <1>5, ReplyIs DEF TypeInv
  <2>3. Len(Reply.records) # 0
    BY <2>1, <2>2, EmptySeq
  <2>4. First <= Last
    BY <2>2, <2>3
  <2>5. First = read.pages + 1
    BY <1>5, <1>12
  <2>6. Remaining = Candidates
    BY <1>7, <1>12, CandidateFacts DEF Remaining, ByPosition, ByCursor
  <2> QED BY <1>1, <1>5, <2>2, <2>4, <2>5, <2>6
<1>13. PlaceInv'
  BY <1>1, <1>3, <1>4, <1>7, <1>11, <1>12 DEF PlaceInv
<1> QED BY <1>8, <1>10, <1>13

\* The read ends with the page.
LEMMA ReadPageEnds ==
    ASSUME TypeInv, ReadInv, ReadPage, ~Reading'
    PROVE  CompleteInv'
<1>1. /\ Reading /\ contract.kind \in {"rest", "http_file"} /\ Got' = Got \cup PageSet
      /\ IsLast(Reply) /\ read'.pages = read.pages + 1 /\ read'.start = read.start
      /\ contract' = contract
  BY PageFrame, ReadPageFacts DEF Reading, PageSet
<1>2. PlaceInv /\ DueInv /\ OrderInv
  BY <1>1 DEF ReadInv
<1>3. Candidates' = Candidates
  BY PageFrame
<1>4. CASE contract.paging = "none"
  <2>1. ~ByCursor /\ ~ByPosition
    BY <1>4 DEF ByCursor, ByPosition
  <2>2. Remaining = Candidates
    BY <1>1, <2>1, CandidateFacts DEF Remaining
  <2>3. First = 1 /\ Last = Cardinality(Remaining)
    BY <1>4, <2>1 DEF First, Last
  <2>4. PageSet = {id \in Remaining : Position(Remaining, id) \in First .. Last}
    BY <1>1, ReplyIs DEF PageSet, TypeInv
  <2>5. \A id \in Candidates : Position(Candidates, id) \in 1 .. Cardinality(Candidates)
    BY CandidateFacts, PositionGrows
  <2>6. PageSet = Candidates
    BY <2>2, <2>3, <2>4, <2>5
  <2> QED BY <1>1, <1>3, <2>6 DEF CompleteInv
<1>5. CASE contract.paging # "none"
  <2>1. /\ \A id \in PageSet : Pending(id)
        /\ \A m \in PageSet, id \in Left : Behind(m, id)
        /\ PageSet = {id \in Remaining : Position(Remaining, id) \in First .. Last}
        /\ Left = {id \in Remaining : Position(Remaining, id) >= First /\ Position(Remaining, id) > Last}
        /\ Left # {} => Last = First + contract.size - 1
        /\ Candidates \in SUBSET Int /\ Remaining \subseteq Candidates
        /\ Remaining \in SUBSET Int /\ IsFiniteSet(Remaining)
        /\ contract.size \in Nat \ {0} /\ read.pages \in Nat
    BY <1>2, <1>5, PageTakes
  <2>2. \A id \in Candidates : Due(id)' => id \in Got' \/ id \in Left
    BY <1>5, DueAfterPage
  <2>3. Left = {} \/ read.pages + 1 = contract.maxPages
    <3> SUFFICES ASSUME Left # {}, read.pages + 1 # contract.maxPages PROVE FALSE
      OBVIOUS
    <3>1. /\ First \in Nat \ {0} /\ Last \in Nat
          /\ Cardinality(Remaining) \in Nat
          /\ Len(Reply.records) = IF First <= Last THEN Last - First + 1 ELSE 0
          /\ Reply.more <=> Last < Cardinality(Remaining)
      BY <2>1, ReplyIs DEF TypeInv
    <3>2. PICK id \in Remaining : Position(Remaining, id) > Last
      BY <2>1
    <3>3. Position(Remaining, id) \in 1 .. Cardinality(Remaining)
      BY <2>1, <3>2, PositionGrows
    <3>4. Reply.more
      BY <3>1, <3>2, <3>3
    <3>5. Reply.records = <<>>
      BY <1>1, <1>5, <3>4 DEF IsLast
    <3>6. Len(Reply.records) = 0
      BY <3>5
    <3> QED BY <2>1, <3>1, <3>6
  <2>4. Left # {} => ~(contract.maxPages * contract.size >= MaxRecords)
    BY <1>2, <1>5, <2>3, LeftIsCut
  <2>5. ASSUME Uncut, NEW id \in read.start, id \in Candidates PROVE id \in Got'
    <3>1. Left = {}
      BY <1>5, <2>4, <2>5 DEF Uncut
    <3>2. Due(id)'
      BY <1>1 DEF Due
    <3> QED BY <2>2, <2>5, <3>1, <3>2
  <2>6. ASSUME CutsLatest, NEW m \in Got', NEW id \in Candidates, id < m PROVE id \in Got'
    <3>1. Due(id)'
      BY <2>6 DEF Due
    <3>2. CASE Left = {}
      BY <2>2, <3>1, <3>2
    <3>3. CASE Left # {}
      <4>1. ~contract.newest
        BY <1>5, <2>4, <2>6, <3>3 DEF CutsLatest
      <4> SUFFICES ASSUME id \in Left PROVE FALSE
        BY <2>2, <3>1
      <4>2. Pending(id) /\ id \in Int
        BY <2>1 DEF Left
      <4>3. CASE m \in Got
        <5>1. m < id
          BY <1>2, <1>5, <4>1, <4>2, <4>3 DEF OrderInv
        <5>2. m \in Int
          <6>1. Got \subseteq Records
            BY <1>1, ReadKinds DEF Reading
          <6> QED BY <4>3, <6>1, CandidateFacts
        <5> QED BY <2>6, <4>2, <5>1, <5>2
      <4>4. CASE m \in PageSet
        <5>1. Behind(m, id) /\ m \in Int
          BY <2>1, <4>4
        <5> QED BY <2>6, <4>1, <4>2, <5>1 DEF Behind
      <4> QED BY <1>1, <4>3, <4>4
    <3> QED BY <3>2, <3>3
  <2> QED BY <1>1, <1>3, <2>5, <2>6 DEF CompleteInv, Uncut, CutsLatest
<1> QED BY <1>4, <1>5

\* A page keeps the invariant, whether it is the last one or not.
LEMMA ReadPageKeeps ==
    ASSUME TypeInv, ReadInv, ReadPage
    PROVE  ReadInv'
<1>1. StartInv'
  BY ReadPageStarts
<1>2. Reading' => PlaceInv' /\ OrderInv' /\ DueInv'
  BY ReadPageGoesOn
<1>3. ~Reading' => CompleteInv'
  BY ReadPageEnds
<1>4. read'.pc = "evaluated" => ~Reading'
  BY DEF Reading
<1> QED BY <1>1, <1>2, <1>3, <1>4 DEF ReadInv

\* A load begins with everything pending that it must not miss.
LEMMA BeginKeeps ==
    ASSUME TypeInv, NEW readable \in BOOLEAN, Begin(readable)
    PROVE  ReadInv'
<1>1. /\ UNCHANGED <<contract, stamps, listing>>
      /\ read' \in StartedReads
      /\ read'.last \in Marks /\ read'.value = ValueOf(read'.last)
      /\ read'.pages = 0 /\ read'.cursor = Null
      /\ read'.got = <<>> /\ read'.start = Selected(read'.value)
      /\ contract.kind = "jdbc" => read'.todo = 0 .. contract.parts - 1
      /\ contract.kind = "table" => read'.todo = {0}
      /\ contract.kind = "files" => read'.files = Named
      /\ read'.pc \in {"refused", "reading"}
  BY BeginFacts DEF sourceVars
<1>2. /\ contract.parts \in Nat \ {0} /\ contract.size \in Nat
      /\ contract.kind # "jdbc" => contract.parts = 1
      /\ contract.kind # "rest" => contract.paging = "none"
  BY ContractFacts DEF TypeInv, StampsOK
<1>3. Got' = {}
  <2>1. Got' = {read'.got[n] : n \in DOMAIN read'.got}
    BY DEF Got
  <2>2. DOMAIN <<>> = {}
    OBVIOUS
  <2> QED BY <1>1, <2>1, <2>2
<1>4. /\ Candidates' = {id \in Selected(read'.value) : contract.regex => id \in Matching}
      /\ Candidates' \subseteq Records
  BY <1>1 DEF Candidates, Selected, TypeInv
<1>5. /\ Candidates' \subseteq read'.start
      /\ Candidates' \subseteq listing
      /\ \A id \in Candidates' : contract.regex => id \in Matching
  BY <1>1, <1>4 DEF Selected
<1>6. /\ Candidates' \in SUBSET Int /\ IsFiniteSet(Candidates') /\ Cardinality(Candidates') \in Nat
      /\ \A id \in Candidates' : id \in Nat
  <2>1. \A id \in Records : id \in Nat
    BY CandidateFacts
  <2> QED BY <1>4, <2>1, RecordSets DEF TypeInv
<1>7. ValueOf(read.last)' = ValueOf(read'.last)
  BY <1>1 DEF ValueOf, PushedValue
<1>8. contract.kind = "files" =>
         read'.files \subseteq read'.start /\ (contract.regex => read'.files \subseteq Matching)
  <2> SUFFICES ASSUME contract.kind = "files"
               PROVE  read'.files \subseteq read'.start /\ (contract.regex => read'.files \subseteq Matching)
    OBVIOUS
  <2>1. read'.value = Null
    BY <1>1 DEF ValueOf
  <2>2. read'.start = listing
    BY <1>1, <2>1 DEF Selected
  <2> QED BY <1>1, <2>2 DEF Named
<1>9. StartInv'
  BY <1>1, <1>3, <1>5, <1>7, <1>8 DEF StartInv
<1>10. contract.kind \in {"jdbc", "table"} => read'.todo = 0 .. contract.parts - 1
  <2>1. CASE contract.kind = "table"
    <3>1. contract.parts = 1 /\ read'.todo = {0}
      BY <1>1, <1>2, <2>1
    <3>2. 0 .. 1 - 1 = {0}
      OBVIOUS
    <3> QED BY <3>1, <3>2
  <2> QED BY <1>1, <2>1
<1>11. PlaceInv'
  <2>1. contract.kind \in {"jdbc", "table"} => read'.todo # {}
    <3>1. 0 \in 0 .. contract.parts - 1
      BY <1>2
    <3> QED BY <1>10, <3>1
  <2>2. 0 <= Cardinality(Candidates')
    BY <1>6
  <2> QED BY <1>1, <1>3, <2>1, <2>2 DEF PlaceInv, ByCursor
<1>12. OrderInv'
  BY <1>3 DEF OrderInv
<1>13. ASSUME NEW id \in Candidates' PROVE Pending(id)'
  <2>1. contract.kind = "files" => id \in read'.files
    BY <1>1, <1>5 DEF Named
  <2>2. contract.kind \in {"jdbc", "table"} => id % contract.parts \in read'.todo
    BY <1>2, <1>6, <1>10
  <2>3. Position(Candidates, id)' > 0
    <3> DEFINE C == Candidates'
    <3>1. Position(C, id) \in 1 .. Cardinality(C)
      <4>1. C \in SUBSET Int /\ IsFiniteSet(C) /\ id \in C
        BY <1>6
      <4> HIDE DEF C
      <4> QED BY <4>1, PositionGrows
    <3>2. Position(Candidates, id)' = Position(C, id)
      BY <1>1 DEF Position
    <3> QED BY <1>6, <3>1, <3>2
  <2>4. read'.pages * contract'.size = 0
    BY <1>1, <1>2
  <2> QED BY <1>1, <2>1, <2>2, <2>3, <2>4 DEF Pending
<1>14. DueInv'
  BY <1>13 DEF DueInv
<1> QED BY <1>1, <1>9, <1>11, <1>12, <1>14 DEF ReadInv

\* So does a query of a partition.
LEMMA ReadPartitionKeeps ==
    ASSUME TypeInv, ReadInv, NEW p \in 0 .. contract.parts - 1, ReadPartition(p)
    PROVE  ReadInv'
<1>1. /\ Reading /\ contract.kind \in {"jdbc", "table"} /\ p \in read.todo
      /\ read'.pc = IF read.todo = {p} THEN "evaluated" ELSE "reading"
      /\ read'.todo = read.todo \ {p}
      /\ read'.last = read.last /\ read'.value = read.value /\ read'.start = read.start
      /\ read'.files = read.files
      /\ Got' = Got \cup Partition(p)
      /\ UNCHANGED <<contract, stamps, listing>>
  BY ReadPartitionFacts DEF sourceVars
<1>2. contract.paging = "none" /\ contract.kind \notin {"rest", "http_file", "files"}
  BY <1>1, ContractFacts DEF TypeInv, StampsOK
<1>3. StartInv /\ PlaceInv /\ DueInv
  BY <1>1 DEF ReadInv, UnderWay, Reading
<1>4. Candidates' = Candidates
  BY <1>1 DEF Candidates, Selected
<1>5. Candidates = Selected(read.value) /\ Partition(p) = {id \in Candidates : id % contract.parts = p}
  BY <1>2, CandidateFacts DEF Partition
<1>6. ValueOf(read.last)' = ValueOf(read.last)
  BY <1>1 DEF ValueOf, PushedValue
<1>7. \A id \in Partition(p) : /\ read.value = Null \/ stamps[id][1] > read.value
                               /\ contract.regex => id \in Matching
  BY <1>5, CandidateFacts
<1>8. StartInv'
  BY <1>1, <1>2, <1>3, <1>4, <1>6, <1>7 DEF StartInv
<1>9. ASSUME NEW id \in Candidates PROVE id \in Got' \/ id % contract.parts \in read.todo \ {p}
  <2>1. id \in Got \/ Pending(id)
    BY <1>2, <1>3 DEF DueInv, Due
  <2>2. Pending(id) => id % contract.parts \in read.todo
    BY <1>1 DEF Pending
  <2> QED BY <1>1, <1>5, <2>1, <2>2
<1>10. CASE read.todo = {p}
  <2>1. \A id \in Candidates : id \in Got'
    BY <1>9, <1>10
  <2>2. CompleteInv'
    BY <1>4, <2>1 DEF CompleteInv
  <2> QED BY <1>1, <1>8, <1>10, <2>2 DEF ReadInv, Reading
<1>11. CASE read.todo # {p}
  <2>1. PlaceInv'
    BY <1>1, <1>2, <1>11 DEF PlaceInv, ByCursor, ByPosition
  <2>2. OrderInv'
    BY <1>1, <1>2 DEF OrderInv
  <2>3. \A id \in Candidates : id \in Got' \/ Pending(id)'
    BY <1>1, <1>2, <1>9 DEF Pending, ByCursor, ByPosition
  <2>4. DueInv'
    BY <1>4, <2>3 DEF DueInv
  <2> QED BY <1>1, <1>8, <1>11, <2>1, <2>2, <2>4 DEF ReadInv
<1> QED BY <1>10, <1>11

\* So does opening the files, all of which are there.
LEMMA OpenFilesKeeps ==
    ASSUME TypeInv, ReadInv, OpenFiles
    PROVE  ReadInv'
<1>1. /\ Reading /\ contract.kind = "files" /\ read \in StartedReads
      /\ read'.pc = "evaluated"
      /\ read'.last = read.last /\ read'.value = read.value /\ read'.start = read.start
      /\ read'.files = read.files /\ Got' = read.files
      /\ UNCHANGED <<contract, stamps, listing>>
  BY OpenFilesFacts DEF sourceVars
<1>2. StartInv /\ PlaceInv /\ DueInv
  BY <1>1 DEF ReadInv, UnderWay, Reading
<1>3. Candidates' = Candidates /\ ValueOf(read.last)' = ValueOf(read.last)
  BY <1>1 DEF Candidates, Selected, ValueOf, PushedValue
<1>4. read.value = Null /\ read.files \subseteq read.start
      /\ (contract.regex => read.files \subseteq Matching)
  BY <1>1, <1>2 DEF StartInv, ValueOf
<1>5. StartInv'
  BY <1>1, <1>2, <1>3, <1>4 DEF StartInv
<1>6. ASSUME NEW id \in Candidates, id \in read.start PROVE id \in read.files
  <2>1. id \in Got \/ Pending(id)
    BY <1>2, <1>6 DEF DueInv, Due
  <2>2. Got = {}
    BY <1>1, <1>2 DEF PlaceInv
  <2> QED BY <1>1, <2>1, <2>2 DEF Pending
<1>7. ASSUME NEW m \in read.files, NEW id \in Candidates, id < m PROVE id \in read.files
  <2>1. id \in read.start
    BY <1>2, <1>4, <1>7 DEF StartInv
  <2> QED BY <1>6, <2>1
<1>8. CompleteInv'
  BY <1>1, <1>3, <1>6, <1>7 DEF CompleteInv
<1> QED BY <1>1, <1>5, <1>8 DEF ReadInv, Reading

\* More records move a record back in the order, those behind it do not.
LEMMA PositionOfMore ==
    ASSUME NEW more \in SUBSET Int, IsFiniteSet(more), NEW ids, ids \subseteq more, NEW id \in ids
    PROVE  /\ Position(ids, id) <= Position(more, id)
           /\ (\A k \in more \ ids : Behind(id, k)) => Position(ids, id) = Position(more, id)
           /\ Position(ids, id) \in Nat /\ Position(more, id) \in Nat
<1>1. IsFiniteSet(ids) /\ ids \in SUBSET Int /\ id \in Int /\ id \in more
  BY FS_Subset
<1>2. /\ Position(ids, id) = Cardinality(UpTo(ids, id))
      /\ Position(more, id) = Cardinality(UpTo(more, id))
  BY <1>1, PositionIs
<1>3. UpTo(ids, id) \subseteq UpTo(more, id) /\ UpTo(more, id) \subseteq more
  BY DEF UpTo
<1>4. IsFiniteSet(UpTo(more, id))
  BY <1>3, FS_Subset
<1>5. /\ IsFiniteSet(UpTo(ids, id))
      /\ Cardinality(UpTo(ids, id)) <= Cardinality(UpTo(more, id))
  BY <1>3, <1>4, FS_Subset
<1>6. Cardinality(UpTo(ids, id)) \in Nat /\ Cardinality(UpTo(more, id)) \in Nat
  BY <1>4, <1>5, FS_CardinalityType
<1>7. (\A k \in more \ ids : Behind(id, k)) => UpTo(ids, id) = UpTo(more, id)
  BY DEF UpTo
<1> QED BY <1>2, <1>5, <1>6, <1>7

\* Where neither the source nor what a read has and may get changes.
LEMMA SameRead ==
    ASSUME ReadInv, UNCHANGED <<contract, stamps, listing>>,
           read'.pc = read.pc, read'.start = read.start, read'.last = read.last,
           read'.value = read.value, read'.files = read.files, read'.cursor = read.cursor,
           read'.pages = read.pages, read'.todo = read.todo, Got' = Got
    PROVE  ReadInv'
<1>1. Candidates' = Candidates /\ ValueOf(read.last)' = ValueOf(read.last) /\ Records' = Records
  BY DEF Candidates, Selected, ValueOf, PushedValue, Records
<1>2. /\ ByCursor' <=> ByCursor
      /\ ByPosition' <=> ByPosition
      /\ UnderWay' <=> UnderWay
      /\ Reading' <=> Reading
      /\ Uncut' <=> Uncut
      /\ CutsLatest' <=> CutsLatest
  BY DEF ByCursor, ByPosition, UnderWay, Reading, Uncut, CutsLatest
<1>3. \A id : Position(Candidates, id)' = Position(Candidates, id)
  BY <1>1 DEF Position
<1>4. \A id : (Pending(id)' <=> Pending(id)) /\ (Due(id)' <=> Due(id))
  BY <1>1, <1>2, <1>3 DEF Pending, Due, Behind
<1>5. StartInv => StartInv'
  BY <1>1 DEF StartInv
<1>6. PlaceInv => PlaceInv'
  BY <1>1, <1>2 DEF PlaceInv
<1>7. OrderInv => OrderInv'
  BY <1>1, <1>4 DEF OrderInv
<1>8. DueInv => DueInv'
  BY <1>1, <1>4 DEF DueInv
<1>9. CompleteInv => CompleteInv'
  BY <1>1, <1>2 DEF CompleteInv
<1> QED BY <1>2, <1>5, <1>6, <1>7, <1>8, <1>9 DEF ReadInv

\* A record that arrives while a load is under way.
LEMMA ArriveKeeps ==
    ASSUME TypeInv, ReadInv, ~Moves, NEW stamp \in Stamps, Arrive(stamp)
    PROVE  ReadInv'
<1>z. Len(stamps) + 1 \in Nat
  BY StampFacts DEF TypeInv
<1> PICK n \in Nat : n = Len(stamps) + 1
  BY <1>z
<1>1. /\ contract' = contract /\ Records' = Records \cup {n} /\ n \notin Records
      /\ StampsOK'
      /\ \A id \in Records : stamps'[id] = stamps[id] /\ id < n
  BY ArriveFacts
<1>2. read' = Disturbed /\ listing' = listing \cup {n} /\ (read = Idle \/ ~Splits)
  BY DEF Arrive
<1>3. CASE ~UnderWay
  <2>1. read'.pc = read.pc
    BY <1>2, DisturbedFacts
  <2> QED BY <1>3, <2>1 DEF ReadInv, UnderWay, Reading
<1>4. CASE UnderWay
  <2>1. read \in StartedReads /\ read # Idle /\ Got \subseteq Records
    BY <1>4, ReadKinds DEF UnderWay
  <2>2. /\ read'.pc = read.pc /\ read'.last = read.last /\ read'.value = read.value
        /\ read'.pages = read.pages /\ read'.cursor = read.cursor /\ read'.todo = read.todo
        /\ read'.files = read.files /\ read'.start = read.start /\ Got' = Got
    BY <1>2, <2>1, DisturbedFacts
  <2>3. ~Splits /\ read.start \subseteq Records /\ read.todo \subseteq 0 .. contract.parts - 1
        /\ read.cursor \in Nat /\ read.pages \in Nat
    BY <1>2, <2>1 DEF StartedReads
  <2> DEFINE C == Candidates
             D == Candidates'
  <2>4. /\ C \subseteq D /\ D \subseteq C \cup {n}
        /\ C \subseteq Records /\ C \in SUBSET Int /\ IsFiniteSet(C) /\ Cardinality(C) \in Nat
    <3>1. C \subseteq Records /\ C \in SUBSET Int /\ IsFiniteSet(C) /\ Cardinality(C) \in Nat
      BY CandidateFacts
    <3>2. \A id \in listing : stamps'[id] = stamps[id]
      BY <1>1 DEF TypeInv
    <3>3. C = {id \in listing : (read.value = Null \/ stamps[id][1] > read.value) /\ (contract.regex => id \in Matching)}
      BY DEF Candidates, Selected
    <3>4. D = {id \in listing \cup {n} : (read.value = Null \/ stamps'[id][1] > read.value) /\ (contract.regex => id \in Matching)}
      BY <1>1, <1>2, <2>2 DEF Candidates, Selected
    <3> HIDE DEF C, D
    <3> QED BY <3>1, <3>2, <3>3, <3>4
  <2>5. D \in SUBSET Int /\ IsFiniteSet(D)
    <3> HIDE DEF C, D
    <3>0. IsFiniteSet(C \cup {n})
      BY <2>4, FS_AddElement
    <3>1. IsFiniteSet(C \cup {n}) /\ C \cup {n} \in SUBSET Int
      <4>1. n \in Int
        OBVIOUS
      <4>2. \A k \in C \cup {n} : k \in Int
        BY <2>4, <4>1
      <4> QED BY <3>0, <4>2
    <3> QED BY <2>4, <3>1, FS_Subset
  <2>6. Cardinality(C) <= Cardinality(D) /\ Cardinality(D) \in Nat
    <3> HIDE DEF C, D
    <3> QED BY <2>4, <2>5, FS_Subset, FS_CardinalityType
  <2>7. \A id \in C : id \in Records /\ id # n /\ id < n /\ id \in Nat
    BY <1>1, <2>4, CandidateFacts
  <2>8. StartInv'
    <3>1. StartInv
      BY <1>4 DEF ReadInv
    <3>2. ValueOf(read.last)' = ValueOf(read.last)
      BY <1>1, <2>2 DEF ValueOf, PushedValue
    <3>3. \A m \in read.start, id \in D : id < m => id \in read.start
      <4> SUFFICES ASSUME NEW m \in read.start, NEW id \in D, id < m PROVE id \in read.start
        OBVIOUS
      <4>1. m < n /\ m \in Nat
        BY <1>1, <2>3, CandidateFacts
      <4>2. id \in C
        BY <2>4, <4>1
      <4> QED BY <3>1, <4>2 DEF StartInv
    <3>4. \A id \in Got : stamps'[id] = stamps[id]
      BY <1>1, <2>1
    <3> QED BY <1>1, <2>2, <3>1, <3>2, <3>3, <3>4 DEF StartInv
  <2>9. CASE Reading
    <3>1. PlaceInv /\ OrderInv /\ DueInv
      BY <2>9 DEF ReadInv
    <3>2. PlaceInv'
      <4>1. /\ ByCursor' <=> ByCursor
            /\ ByPosition' <=> ByPosition
        BY <1>1 DEF ByCursor, ByPosition
      <4>2. ByPosition /\ ~contract.raw /\ contract.size = 1 => read.pages <= Cardinality(D)
        BY <2>3, <2>4, <2>6, <3>1 DEF PlaceInv
      <4>3. read.cursor \in Records => read.cursor \in Records'
        BY <1>1
      <4> HIDE DEF D
      <4>4. D = Candidates'
        BY DEF D
      <4> QED BY <1>1, <2>2, <3>1, <4>1, <4>2, <4>3, <4>4 DEF PlaceInv
    <3>3. /\ contract.size \in Nat \ {0} /\ contract.parts \in Nat \ {0}
          /\ contract.kind # "rest" => contract.paging = "none"
          /\ contract.paging \in {"none", "page", "offset", "cursor", "link_header"}
      BY ContractFacts DEF TypeInv, StampsOK
    <3>4. ASSUME NEW id \in C
          PROVE  /\ Position(C, id) <= Position(D, id)
                 /\ ~contract.newest => Position(C, id) = Position(D, id)
                 /\ Position(C, id) \in Nat /\ Position(D, id) \in Nat
      <4>1. ~contract.newest => \A k \in D \ C : Behind(id, k)
        <5> SUFFICES ASSUME ~contract.newest, NEW k \in D, k \notin C PROVE Behind(id, k)
          OBVIOUS
        <5>1. k = n
          BY <2>4
        <5> QED BY <2>7, <5>1 DEF Behind
      <4> HIDE DEF C, D
      <4> QED BY <2>4, <2>5, <4>1, PositionOfMore
    <3>5. \A id : Position(Candidates, id)' = Position(D, id)
      BY <1>1 DEF Position
    <3>6. read.pages * contract.size \in Nat
      <4>1. contract.size \in Nat /\ read.pages \in Nat
        BY <2>3, <3>3
      <4> QED BY <4>1
    <3>7. ASSUME NEW id \in C, Pending(id) PROVE Pending(id)'
      <4>1. ByPosition => Position(D, id) > read.pages * contract.size
        BY <3>4, <3>6, <3>7 DEF Pending
      <4> HIDE DEF D
      <4> QED BY <1>1, <2>2, <3>5, <3>7, <4>1 DEF Pending, ByCursor, ByPosition, Behind
    <3>8. ASSUME ~contract.newest, NEW id \in C, Pending(id)' PROVE Pending(id)
      <4>1. ByPosition => Position(D, id) > read.pages * contract.size
        <5> HIDE DEF D
        <5> QED BY <1>1, <2>2, <3>5, <3>8 DEF Pending, ByPosition
      <4>2. ByPosition => Position(C, id) > read.pages * contract.size
        BY <3>4, <3>8, <4>1
      <4> QED BY <1>1, <2>2, <3>8, <4>2 DEF Pending, ByCursor, ByPosition, Behind
    <3>9. OrderInv'
      <4> SUFFICES ASSUME contract.paging # "none", ~contract.newest, NEW m \in Got, NEW id \in D, Pending(id)'
                   PROVE  m < id
        BY <1>1, <2>2 DEF OrderInv
      <4>1. CASE id = n
        BY <1>1, <2>1, <4>1
      <4>2. CASE id \in C
        BY <3>1, <3>8, <4>2 DEF OrderInv
      <4> QED BY <2>4, <4>1, <4>2
    <3>10. ASSUME NEW id \in D, Due(id)' PROVE id \in Got \/ Pending(id)'
      <4>1. Due(id)
        BY <1>1, <2>2, <3>10 DEF Due
      <4>2. CASE id \in C
        BY <3>1, <3>7, <4>1, <4>2 DEF DueInv
      <4>3. CASE id \notin C
        <5>1. id = n /\ D = C \cup {n}
          BY <2>4, <4>3
        <5>2. contract.kind # "files" /\ (~contract.newest \/ contract.paging = "none")
          <6>1. \A m \in Got : m < n /\ m \in Nat
            BY <1>1, <2>1, CandidateFacts
          <6> QED BY <1>1, <2>3, <4>1, <5>1, <6>1 DEF Due
        <5>3. contract.kind \in {"jdbc", "table"} => n % contract.parts \in read.todo
          <6> SUFFICES ASSUME contract.kind \in {"jdbc", "table"} PROVE n % contract.parts \in read.todo
            OBVIOUS
          <6>1. contract.parts = 1
            BY <2>3, <3>3 DEF Splits
          <6>2. read.todo # {} /\ read.todo \subseteq {0}
            <7>1. 0 .. 1 - 1 = {0}
              OBVIOUS
            <7> QED BY <2>3, <3>1, <6>1, <7>1 DEF PlaceInv
          <6>3. n % 1 = 0
            OBVIOUS
          <6> QED BY <6>1, <6>2, <6>3
        <5>4. ByCursor /\ read.cursor # Null => Behind(read.cursor, n)
          <6> SUFFICES ASSUME ByCursor, read.cursor # Null PROVE Behind(read.cursor, n)
            OBVIOUS
          <6>1. read.cursor \in Records /\ ~contract.newest
            BY <3>1, <5>2 DEF PlaceInv, ByCursor
          <6> QED BY <1>1, <6>1 DEF Behind
        <5>5. ByPosition => Position(D, n) > read.pages * contract.size
          <6> SUFFICES ASSUME ByPosition PROVE Position(D, n) > read.pages * contract.size
            OBVIOUS
          <6>1. ~contract.newest
            BY <5>2 DEF ByPosition
          <6>2. contract.size = 1 /\ ~contract.raw
            BY <2>3, <3>3, <6>1 DEF Splits
          <6>3. read.pages <= Cardinality(C)
            BY <3>1, <6>2 DEF PlaceInv
          <6> HIDE DEF C, D
          <6>4. n \in D /\ n \in Int /\ Position(D, n) = Cardinality(UpTo(D, n))
            BY <2>5, <5>1, PositionIs
          <6>5. UpTo(D, n) = D
            <7>1. \A k \in D : ~Behind(n, k)
              BY <2>7, <5>1, <6>1 DEF Behind
            <7> QED BY <7>1 DEF UpTo
          <6>6. Cardinality(D) = Cardinality(C) + 1
            BY <2>4, <2>7, <5>1, FS_AddElement
          <6> QED BY <2>3, <2>4, <6>2, <6>3, <6>4, <6>5, <6>6
        <5>6. Position(Candidates, n)' = Position(D, n)
          BY <3>5
        <5> HIDE DEF D
        <5>7. Pending(n)'
          BY <1>1, <2>2, <5>2, <5>3, <5>4, <5>5, <5>6 DEF Pending, ByCursor, ByPosition, Behind
        <5> QED BY <5>1, <5>7
      <4> QED BY <4>2, <4>3
    <3>11. DueInv'
      BY <2>2, <3>10 DEF DueInv
    <3> QED BY <2>2, <2>8, <2>9, <3>2, <3>9, <3>11 DEF ReadInv, Reading
  <2>10. CASE ~Reading
    <3>1. CompleteInv
      BY <1>4, <2>10 DEF ReadInv, UnderWay, Reading
    <3>2. ASSUME Uncut, NEW id \in read.start, id \in D PROVE id \in Got
      <4>1. id \in C
        BY <1>1, <2>3, <2>4, <3>2
      <4> QED BY <3>1, <3>2, <4>1 DEF CompleteInv
    <3>3. ASSUME CutsLatest, NEW m \in Got, NEW id \in D, id < m PROVE id \in Got
      <4>1. m < n /\ m \in Nat
        BY <1>1, <2>1, CandidateFacts
      <4>2. id \in C
        BY <2>4, <3>3, <4>1
      <4> QED BY <3>1, <3>3, <4>2 DEF CompleteInv
    <3>4. CompleteInv'
      BY <1>1, <2>2, <3>2, <3>3 DEF CompleteInv, Uncut, CutsLatest
    <3> QED BY <2>2, <2>8, <2>10, <3>4 DEF ReadInv, Reading
  <2> QED BY <2>9, <2>10
<1> QED BY <1>3, <1>4

\* A record that disappears while a load is under way.
LEMMA VanishKeeps ==
    ASSUME TypeInv, ReadInv, ~Moves, NEW v \in listing, Vanish(v)
    PROVE  ReadInv'
<1>1. /\ contract' = contract /\ stamps' = stamps /\ listing' = listing \ {v} /\ read' = Disturbed
      /\ read = Idle \/ ~ByPosition
  BY DEF Vanish
<1>2. Records' = Records
  BY <1>1 DEF Records
<1>3. CASE ~UnderWay
  <2>1. read'.pc = read.pc
    BY <1>1, DisturbedFacts
  <2> QED BY <1>3, <2>1 DEF ReadInv, UnderWay, Reading
<1>4. CASE UnderWay
  <2>1. read \in StartedReads /\ read # Idle /\ Got \subseteq Records
    BY <1>4, ReadKinds DEF UnderWay
  <2>2. /\ read'.pc = read.pc /\ read'.last = read.last /\ read'.value = read.value
        /\ read'.pages = read.pages /\ read'.cursor = read.cursor /\ read'.todo = read.todo
        /\ read'.files = read.files /\ read'.start = read.start /\ Got' = Got
    BY <1>1, <2>1, DisturbedFacts
  <2>3. ~ByPosition
    BY <1>1, <2>1
  <2>4. Candidates' \subseteq Candidates
    BY <1>1, <2>2 DEF Candidates, Selected
  <2>5. /\ ByCursor' <=> ByCursor
        /\ ByPosition' <=> ByPosition
        /\ Uncut' <=> Uncut
        /\ CutsLatest' <=> CutsLatest
    BY <1>1 DEF ByCursor, ByPosition, Uncut, CutsLatest
  <2>6. ValueOf(read.last)' = ValueOf(read.last)
    BY <1>1, <2>2 DEF ValueOf, PushedValue
  <2>7. \A id : (Pending(id)' <=> Pending(id)) /\ (Due(id)' <=> Due(id))
    BY <1>1, <2>2, <2>3, <2>5 DEF Pending, Due, Behind
  <2>8. StartInv'
    <3>1. StartInv
      BY <1>4 DEF ReadInv
    <3> QED BY <1>1, <2>2, <2>4, <2>6, <3>1 DEF StartInv
  <2>9. Reading => PlaceInv' /\ OrderInv' /\ DueInv'
    <3> SUFFICES ASSUME Reading PROVE PlaceInv' /\ OrderInv' /\ DueInv'
      OBVIOUS
    <3>1. PlaceInv /\ OrderInv /\ DueInv
      BY DEF ReadInv
    <3>2. PlaceInv'
      BY <1>1, <1>2, <2>2, <2>3, <2>5, <3>1 DEF PlaceInv
    <3>3. OrderInv'
      BY <1>1, <2>2, <2>4, <2>7, <3>1 DEF OrderInv
    <3>4. DueInv'
      BY <2>2, <2>4, <2>7, <3>1 DEF DueInv
    <3> QED BY <3>2, <3>3, <3>4
  <2>10. CompleteInv => CompleteInv'
    BY <2>2, <2>4, <2>5 DEF CompleteInv
  <2> QED BY <2>2, <2>8, <2>9, <2>10 DEF ReadInv, Reading
<1> QED BY <1>3, <1>4

\* No load is under way at first.
LEMMA ReadInvInit == Init => ReadInv
BY DEF Init, Idle, ReadInv, UnderWay, Reading

\* Of a source that holds still where the code relies on it.
LEMMA ReadInvNext ==
    ASSUME ~Moves, TypeInv, ReadInv, [Next]_vars
    PROVE  ReadInv'
<1>1. ASSUME NEW stamp \in Stamps, Arrive(stamp) PROVE ReadInv'
  BY <1>1, ArriveKeeps
<1>2. ASSUME NEW id \in listing, Vanish(id) PROVE ReadInv'
  BY <1>2, VanishKeeps
<1>3. ASSUME NEW readable \in BOOLEAN, Begin(readable) PROVE ReadInv'
  BY <1>3, BeginKeeps
<1>4. CASE Failed
  BY <1>4 DEF Failed, Fail, Idle, ReadInv, UnderWay, Reading
<1>5. CASE ReadPage
  BY <1>5, ReadPageKeeps
<1>6. CASE Retry
  <2>1. /\ Reading /\ read \in StartedReads /\ UNCHANGED <<contract, stamps, listing>>
        /\ read' = [read EXCEPT !.attempt = @ + 1]
    BY <1>6, ReadKinds DEF Retry, Asking, Reading, sourceVars
  <2>2. /\ read'.pc = read.pc /\ read'.start = read.start /\ read'.last = read.last
        /\ read'.value = read.value /\ read'.files = read.files /\ read'.cursor = read.cursor
        /\ read'.pages = read.pages /\ read'.todo = read.todo /\ Got' = Got
    BY <2>1 DEF StartedReads, Got
  <2> QED BY <2>1, <2>2, SameRead
<1>7. CASE OpenFiles
  BY <1>7, OpenFilesKeeps
<1>8. CASE Write
  <2>1. read'.pc = "written"
    BY <1>8, WriteFacts
  <2> QED BY <2>1 DEF ReadInv, UnderWay, Reading
<1>9. CASE Save
  BY <1>9 DEF Save, Idle, ReadInv, UnderWay, Reading
<1>10. ASSUME NEW p \in 0 .. contract.parts - 1, ReadPartition(p) PROVE ReadInv'
  BY <1>10, ReadPartitionKeeps
<1>11. CASE UNCHANGED vars
  <2>1. UNCHANGED <<contract, stamps, listing, read>>
    BY <1>11 DEF vars
  <2>2. Got' = Got
    BY <2>1 DEF Got
  <2> QED BY <2>1, <2>2, SameRead
<1> QED BY <1>1, <1>2, <1>3, <1>4, <1>5, <1>6, <1>7, <1>8, <1>9, <1>10, <1>11, StepCases

-----------------------------------------------------------------------------
(***************************************************************************)
(* NothingPassedOver.  The property alone is not inductive: that a record  *)
(* below the saved watermark is loaded needs that the watermark was taken  *)
(* from a record that was loaded (Reached), and that whatever was loaded   *)
(* was loaded with everything before it (PassInv).                         *)
(***************************************************************************)
\* The contracts and stamps that NothingPassedOver is about.
Incremental ==
    /\ contract.columns # 0 /\ (contract.push => contract.columns = 1)
    /\ CutsLatest
    /\ contract.columns = 2 => \A id \in Records : NonNull(id)

\* No watermark, or that of a record that was loaded.
Reached(w) == w = NoWatermark \/ \E m \in target : NonNull(m) /\ w = Watermark(m)

\* Whatever was loaded, what came before it was loaded too.
PassInv ==
    Incremental =>
        /\ \A m \in target, id \in Wanted : NonNull(m) /\ id < m => id \in target
        /\ Reached(saved)
        /\ read # Idle => Reached(read.last)
        /\ read.pc = "written" => read.batch \subseteq target

\* A record that is wanted has no NULL.
LEMMA WantedFacts ==
    ASSUME TypeInv, NEW id \in Wanted
    PROVE  id \in listing /\ id \in Records /\ NonNull(id) /\ id \in Nat /\ id >= 1
BY StampFacts DEF TypeInv, Wanted, NonNull

\* What no step changes.
LEMMA StepsKeep ==
    ASSUME TypeInv, [Next]_vars
    PROVE  /\ contract' = contract /\ Records \subseteq Records' /\ target \subseteq target'
           /\ \A id \in Records : /\ stamps'[id] = stamps[id]
                                  /\ Watermark(id)' = Watermark(id)
                                  /\ NonNull(id)' <=> NonNull(id)
           /\ listing' \cap Records \subseteq listing
<1>1. ASSUME NEW stamp \in Stamps, Arrive(stamp)
      PROVE  /\ contract' = contract /\ Records \subseteq Records' /\ target \subseteq target'
             /\ \A id \in Records : /\ stamps'[id] = stamps[id]
                                    /\ Watermark(id)' = Watermark(id)
                                    /\ NonNull(id)' <=> NonNull(id)
             /\ listing' \cap Records \subseteq listing
  <2>1. /\ contract' = contract /\ target' = target /\ Len(stamps) + 1 \notin Records
        /\ Records' = Records \cup {Len(stamps) + 1} /\ listing' = listing \cup {Len(stamps) + 1}
        /\ \A id \in Records : stamps'[id] = stamps[id] /\ Watermark(id)' = Watermark(id)
    BY <1>1, ArriveFacts DEF Arrive
  <2>2. \A id \in Records : NonNull(id)' <=> NonNull(id)
    BY <2>1 DEF NonNull
  <2> QED BY <2>1, <2>2
<1>2. CASE UNCHANGED <<contract, stamps>> /\ target \subseteq target' /\ listing' \subseteq listing
  BY <1>2 DEF Records, Watermark, NonNull
<1>3. ASSUME NEW id \in listing, Vanish(id)
      PROVE  UNCHANGED <<contract, stamps>> /\ target \subseteq target' /\ listing' \subseteq listing
  BY <1>3 DEF Vanish
<1>4. ASSUME NEW readable \in BOOLEAN, Begin(readable)
      PROVE  UNCHANGED <<contract, stamps>> /\ target \subseteq target' /\ listing' \subseteq listing
  BY <1>4 DEF Begin, sourceVars
<1>5. Failed \/ ReadPage \/ Retry \/ OpenFiles \/ Write \/ Save
         => UNCHANGED <<contract, stamps>> /\ target \subseteq target' /\ listing' \subseteq listing
  BY DEF Failed, Fail, ReadPage, Retry, OpenFiles, Write, Save, sourceVars
<1>6. ASSUME NEW p \in 0 .. contract.parts - 1, ReadPartition(p)
      PROVE  UNCHANGED <<contract, stamps>> /\ target \subseteq target' /\ listing' \subseteq listing
  BY <1>6 DEF ReadPartition, sourceVars
<1>7. UNCHANGED vars => UNCHANGED <<contract, stamps>> /\ target \subseteq target' /\ listing' \subseteq listing
  BY DEF vars
<1> QED BY <1>1, <1>2, <1>3, <1>4, <1>5, <1>6, <1>7, StepCases

\* The load adds, before a record of its batch, what was not loaded yet:
\* apply_watermark and the pushdown leave out what the target has.
LEMMA BatchFillsUp ==
    ASSUME TypeInv, StampsRise, ReadInv, PassInv, Incremental, read.pc = "evaluated",
           NEW m \in Batch, NEW id \in Wanted, id < m
    PROVE  id \in target \cup Batch
<1>1. /\ read \in StartedReads /\ read # Idle /\ Got \subseteq Records /\ read.last \in Marks
  BY ReadKinds
<1>2. m \in Got
  BY DEF Batch, ApplyWatermark
<1>3. /\ id \in listing /\ id \in Records /\ NonNull(id) /\ id \in Nat
  BY WantedFacts
<1>4. StartInv /\ CompleteInv
  BY DEF ReadInv, UnderWay
<1>5. contract.columns # 0 /\ CutsLatest /\ (contract.push => contract.columns = 1)
  BY DEF Incremental
<1>6. ASSUME NEW k \in target, NonNull(k), ~(id > k) PROVE id \in target
  <2>1. k \in Records /\ k \in Nat
    BY StampFacts DEF TypeInv
  <2>2. id < k \/ id = k
    BY <1>3, <1>6, <2>1
  <2> QED BY <1>6, <2>2 DEF PassInv
<1>7. read.last # NoWatermark =>
         \E k \in target : NonNull(k) /\ read.last = Watermark(k) /\ k \in Records
  BY <1>1 DEF PassInv, Reached, TypeInv
<1>8. CASE id \in Candidates
  <2>1. id \in Got
    BY <1>2, <1>4, <1>5, <1>8 DEF CompleteInv
  <2>2. CASE read.last = NoWatermark
    BY <2>1, <2>2 DEF Batch, ApplyWatermark
  <2>3. CASE read.last # NoWatermark
    <3>1. PICK k \in target : NonNull(k) /\ read.last = Watermark(k) /\ k \in Records
      BY <1>7, <2>3
    <3>2. After(Watermark(id), Watermark(k)) <=> id > k
      BY <1>3, <1>5, <3>1, AfterIsLater
    <3>3. CASE id > k
      BY <2>1, <2>3, <3>1, <3>2, <3>3 DEF Batch, ApplyWatermark
    <3> QED BY <1>6, <3>1, <3>3
  <2> QED BY <2>2, <2>3
<1>9. CASE id \notin Candidates
  <2>1. read.value # Null /\ ~(stamps[id][1] > read.value)
    BY <1>3, <1>9 DEF Candidates, Selected, Wanted
  <2>2. read.value = PushedValue(read.last) /\ contract.push
    BY <1>4, <2>1 DEF StartInv, ValueOf, PushedValue
  <2>3. contract.columns = 1
    BY <1>5, <2>2
  <2>4. read.last # NoWatermark
    BY <2>1, <2>2 DEF PushedValue, Wanted
  <2>5. PICK k \in target : NonNull(k) /\ read.last = Watermark(k) /\ k \in Records
    BY <1>7, <2>4
  <2>6. StampsOK
    BY DEF TypeInv
  <2>7. read.value = stamps[k][1]
    <3>1. read.value = Watermark(k)[1]
      BY <2>2, <2>4, <2>5 DEF PushedValue
    <3> QED BY <2>3, <2>5, <2>6, <3>1, WatermarkIs
  <2>8. ~After(Watermark(id), Watermark(k))
    BY <1>3, <2>1, <2>3, <2>5, <2>6, <2>7, AfterIs
  <2>9. ~(id > k)
    BY <1>3, <1>5, <2>5, <2>8, AfterIsLater
  <2> QED BY <1>6, <2>5, <2>9
<1> QED BY <1>8, <1>9

\* Nothing was loaded at first.
LEMMA PassInvInit == Init => PassInv
BY DEF Init, Idle, PassInv, Reached

\* What is wanted before a record that was loaded has been there all along.
LEMMA WantedBefore ==
    ASSUME TypeInv, TypeInv', [Next]_vars, NEW m \in Records, NEW id \in Wanted', id < m
    PROVE  id \in Wanted
<1>1. /\ contract' = contract /\ listing' \cap Records \subseteq listing
      /\ \A k \in Records : stamps'[k] = stamps[k]
  BY StepsKeep
<1>2. id \in listing' /\ id \in Records'
  BY DEF Wanted, TypeInv
<1>3. id \in Records
  <2>1. Len(stamps) \in Nat /\ Len(stamps') \in Nat
    <3>1. StampsOK /\ StampsOK'
      BY DEF TypeInv
    <3> QED BY <3>1 DEF StampsOK
  <2> QED BY <1>2, <2>1 DEF Records
<1>4. id \in listing /\ stamps'[id] = stamps[id]
  BY <1>1, <1>2, <1>3
<1> QED BY <1>1, <1>4 DEF Wanted

\* The watermark a load starts with, and the one it saves, were reached.
LEMMA ComputedIsReached ==
    ASSUME TypeInv, StampsRise, Incremental, NEW ids, ids \subseteq target
    PROVE  Reached(ComputeWatermark(ids))
<1>1. ids \subseteq Records
  BY DEF TypeInv
<1>2. contract.columns # 0 /\ (contract.columns = 2 => \A id \in Records : NonNull(id))
  BY DEF Incremental
<1>3. ASSUME ComputeWatermark(ids) # NoWatermark
      PROVE  \E m \in ids : NonNull(m) /\ ComputeWatermark(ids) = Watermark(m)
  BY <1>1, <1>2, <1>3, ComputedIsLatest
<1> QED BY <1>3 DEF Reached

\* A load fills up before what it adds, and the watermark follows the target.
LEMMA PassInvNext ==
    ASSUME ~Moves, TypeInv, TypeInv', StampsRise, ReadInv, PassInv, [Next]_vars
    PROVE  PassInv'
<1> SUFFICES ASSUME Incremental'
             PROVE  /\ \A m \in target', id \in Wanted' : NonNull(m)' /\ id < m => id \in target'
                    /\ Reached(saved)'
                    /\ read' # Idle => Reached(read.last)'
                    /\ read'.pc = "written" => read'.batch \subseteq target'
  BY DEF PassInv, Idle
<1>1. /\ contract' = contract /\ Records \subseteq Records' /\ target \subseteq target'
      /\ \A id \in Records : /\ Watermark(id)' = Watermark(id)
                             /\ NonNull(id)' <=> NonNull(id)
  BY StepsKeep
<1>2. Incremental
  BY <1>1 DEF Incremental, CutsLatest
<1>3. /\ \A m \in target, id \in Wanted : NonNull(m) /\ id < m => id \in target
      /\ Reached(saved)
      /\ read # Idle => Reached(read.last)
      /\ read.pc = "written" => read.batch \subseteq target
  BY <1>2 DEF PassInv
<1>4. target \subseteq Records
  BY DEF TypeInv
<1>5. ASSUME NEW w, Reached(w)
      PROVE  w = NoWatermark \/ \E m \in target' : NonNull(m)' /\ w = Watermark(m)'
  BY <1>1, <1>4, <1>5 DEF Reached
<1>6. saved' = saved => Reached(saved)'
  BY <1>3, <1>5 DEF Reached
<1>7. (read # Idle /\ read'.last = read.last) => Reached(read.last)'
  BY <1>3, <1>5 DEF Reached
<1>8. ASSUME target' = target
      PROVE  \A m \in target', id \in Wanted' : NonNull(m)' /\ id < m => id \in target'
  <2> SUFFICES ASSUME NEW m \in target, NEW id \in Wanted', NonNull(m)', id < m PROVE id \in target
    BY <1>8
  <2>1. m \in Records /\ NonNull(m)
    BY <1>1, <1>4
  <2>2. id \in Wanted
    BY <2>1, WantedBefore
  <2> QED BY <1>3, <2>1, <2>2
<1>9. CASE /\ UNCHANGED <<target, saved>> /\ read'.pc = read.pc
           /\ read' # Idle => read # Idle /\ read'.last = read.last
           /\ read.pc = "written" => read'.batch = read.batch
  BY <1>3, <1>6, <1>7, <1>8, <1>9
<1>10. CASE UNCHANGED <<target, saved>> /\ read' = Disturbed
  <2>1. /\ read'.pc = read.pc /\ (read' # Idle => read # Idle)
        /\ read # Idle => read'.last = read.last
        /\ read.pc = "written" => read'.batch = read.batch
    BY <1>10, DisturbedFacts, ReadKinds
  <2> QED BY <1>9, <1>10, <2>1
<1>11. ASSUME NEW stamp \in Stamps, Arrive(stamp) PROVE UNCHANGED <<target, saved>> /\ read' = Disturbed
  BY <1>11 DEF Arrive
<1>12. ASSUME NEW id \in listing, Vanish(id) PROVE UNCHANGED <<target, saved>> /\ read' = Disturbed
  BY <1>12 DEF Vanish
<1>13. CASE \E readable \in BOOLEAN : Begin(readable)
  <2> PICK readable \in BOOLEAN : Begin(readable)
    BY <1>13
  <2>1. /\ UNCHANGED <<target, saved>> /\ read'.last = Previous(readable)
        /\ read'.pc \in {"refused", "reading"}
    BY BeginFacts
  <2>2. Reached(Previous(readable))
    <3>1. Reached(ComputeWatermark(target))
      BY <1>2, ComputedIsReached
    <3> QED BY <1>3, <3>1 DEF Previous
  <2>3. Reached(read.last)'
    BY <1>5, <2>1, <2>2 DEF Reached
  <2> QED BY <1>6, <1>8, <2>1, <2>3
<1>14. CASE Failed
  <2>1. /\ read # Idle /\ target' = target /\ saved' = read.last /\ read' = Idle
    BY <1>14 DEF Failed, Fail
  <2>2. Reached(saved)'
    BY <1>3, <1>5, <2>1 DEF Reached
  <2> QED BY <1>8, <2>1, <2>2 DEF Idle
<1>15. CASE ReadPage
  <2>1. /\ UNCHANGED <<target, saved>> /\ read # Idle /\ read'.last = read.last
        /\ read'.pc = IF IsLast(Reply) THEN "evaluated" ELSE "reading"
    BY <1>15, ReadPageFacts DEF Reading, Idle
  <2> QED BY <1>6, <1>7, <1>8, <2>1
<1>16. CASE Retry
  <2>1. /\ Reading /\ read \in StartedReads /\ UNCHANGED <<target, saved>>
        /\ read' = [read EXCEPT !.attempt = @ + 1]
    BY <1>16, ReadKinds DEF Retry, Asking, Reading
  <2>2. /\ read'.pc = "reading" /\ read'.last = read.last /\ read # Idle
    BY <2>1 DEF StartedReads, Reading, Idle
  <2> QED BY <1>6, <1>7, <1>8, <2>1, <2>2
<1>17. CASE OpenFiles
  <2>1. /\ UNCHANGED <<target, saved>> /\ read # Idle /\ read'.last = read.last
        /\ read'.pc = "evaluated"
    BY <1>17, OpenFilesFacts DEF Reading, Idle
  <2> QED BY <1>6, <1>7, <1>8, <2>1
<1>18. CASE \E p \in 0 .. contract.parts - 1 : ReadPartition(p)
  <2> PICK p \in 0 .. contract.parts - 1 : ReadPartition(p)
    BY <1>18
  <2>1. /\ UNCHANGED <<target, saved>> /\ read # Idle /\ read'.last = read.last
        /\ read'.pc = IF read.todo = {p} THEN "evaluated" ELSE "reading"
    BY ReadPartitionFacts DEF Reading, Idle
  <2> QED BY <1>6, <1>7, <1>8, <2>1
<1>19. CASE Write
  <2>1. /\ read.pc = "evaluated" /\ read # Idle /\ Batch \subseteq Records
        /\ target' = target \cup Batch /\ saved' = saved
        /\ read'.last = read.last /\ read'.batch = Batch
    BY <1>19, WriteFacts DEF Idle
  <2>2. ASSUME NEW m \in target', NEW id \in Wanted', NonNull(m)', id < m PROVE id \in target'
    <3>1. m \in Records /\ NonNull(m)
      BY <1>1, <1>4, <2>1, <2>2
    <3>2. id \in Wanted
      BY <2>2, <3>1, WantedBefore
    <3>3. CASE m \in target
      BY <1>3, <2>1, <2>2, <3>1, <3>2, <3>3
    <3>4. CASE m \in Batch
      BY <1>2, <2>1, <2>2, <3>2, <3>4, BatchFillsUp
    <3> QED BY <2>1, <3>3, <3>4
  <2> QED BY <1>6, <1>7, <2>1, <2>2
<1>20. CASE Save
  <2>1. /\ read.pc = "written" /\ saved' = CurrentWatermark(read.batch, read.last)
        /\ read' = Idle /\ target' = target
    BY <1>20 DEF Save
  <2>2. Reached(CurrentWatermark(read.batch, read.last))
    <3>1. read # Idle /\ read.batch \subseteq target
      BY <1>3, <2>1 DEF Idle
    <3>2. Reached(ComputeWatermark(read.batch))
      BY <1>2, <3>1, ComputedIsReached
    <3> QED BY <1>3, <3>1, <3>2 DEF CurrentWatermark
  <2>3. Reached(saved)'
    BY <1>5, <2>1, <2>2 DEF Reached
  <2> QED BY <1>8, <2>1, <2>3 DEF Idle
<1>21. CASE UNCHANGED vars
  BY <1>9, <1>21 DEF vars
<1> QED BY <1>10, <1>11, <1>12, <1>13, <1>14, <1>15, <1>16, <1>17, <1>18, <1>19, <1>20, <1>21, StepCases

\* From the invariant to the property.
LEMMA PassInvImplies == TypeInv /\ StampsRise /\ PassInv => NothingPassedOver
<1> SUFFICES ASSUME TypeInv, StampsRise, PassInv,
                    CutsLatest, saved # NoWatermark, contract.push => contract.columns < 2,
                    contract.columns = 2 => \A id \in Records : Null \notin {stamps[id][1], stamps[id][2]},
                    NEW id \in Wanted
             PROVE  After(Watermark(id), saved) \/ id \in target
  BY DEF NothingPassedOver
<1>1. contract.columns \in 0 .. 2 /\ StampsOK
  BY ContractFacts DEF TypeInv, StampsOK
<1>2. contract.columns # 0
  <2>1. PICK k \in Records : saved = Watermark(k)
    BY DEF TypeInv, Marks
  <2> QED BY <1>1, <2>1, WatermarkIs
<1>3. contract.columns = 2 => \A k \in Records : NonNull(k)
  <2> SUFFICES ASSUME contract.columns = 2, NEW k \in Records, NEW i \in 1 .. 2 PROVE stamps[k][i] # Null
    BY DEF NonNull
  <2>1. i = 1 \/ i = 2
    OBVIOUS
  <2> QED BY <2>1
<1>4. Incremental
  BY <1>1, <1>2, <1>3 DEF Incremental
<1>5. PICK m \in target : NonNull(m) /\ saved = Watermark(m)
  BY <1>4 DEF PassInv, Reached
<1>6. m \in Records /\ m \in Nat
  BY <1>1, StampFacts DEF TypeInv
<1>7. id \in Records /\ NonNull(id) /\ id \in Nat
  BY WantedFacts
<1>8. CASE id > m
  BY <1>2, <1>5, <1>6, <1>7, <1>8, AfterIsLater
<1>9. CASE ~(id > m)
  <2>1. id = m \/ id < m
    BY <1>6, <1>7, <1>9
  <2> QED BY <1>4, <1>5, <2>1 DEF PassInv
<1> QED BY <1>8, <1>9

\* For every source that holds still where the code relies on it: apply_watermark
\* and the pushdown never leave out what was not loaded.
THEOREM NothingIsPassedOver == ASSUME ~Moves PROVE Spec => []NothingPassedOver
<1>1. Init => TypeInv /\ StampsRise /\ ReadInv /\ PassInv
  BY TypeInvInit, StampsRiseInit, ReadInvInit, PassInvInit
<1>2. TypeInv /\ StampsRise /\ ReadInv /\ PassInv /\ [Next]_vars
        => (TypeInv /\ StampsRise /\ ReadInv /\ PassInv)'
  <2>1. TypeInv /\ [Next]_vars => TypeInv'
    BY TypeInvNext
  <2> QED BY <2>1, StampsRiseNext, ReadInvNext, PassInvNext
<1>3. TypeInv /\ StampsRise /\ PassInv => NothingPassedOver
  BY PassInvImplies
<1> QED BY <1>1, <1>2, <1>3, PTL DEF Spec

-----------------------------------------------------------------------------
(***************************************************************************)
(* InactiveIsGone.                                                         *)
(***************************************************************************)
\* What every load of a snapshot asks for, whatever was loaded before.
InScope(id) ==
    /\ contract.push /\ contract.initial # Null => stamps[id][1] > contract.initial
    /\ contract.regex => id \in Matching

\* What is stored and still listed is asked for by every load.
SnapshotInv ==
    contract.snapshot =>
        /\ \A id \in target : InScope(id)
        /\ UnderWay => target \cap listing \subseteq read.start
        /\ Uncut => target \ active \subseteq Records \ listing

\* snapshot_soft_delete takes no watermark columns: nothing but initial_value
\* is pushed down, and nothing is filtered.
LEMMA SnapshotsAreWhole ==
    ASSUME TypeInv, contract.snapshot, NEW last \in Marks
    PROVE  /\ last = NoWatermark
           /\ ValueOf(last) = IF contract.push THEN contract.initial ELSE Null
<1>1. contract.columns = 0 /\ StampsOK /\ (contract.push => contract.kind \in {"rest", "jdbc"})
  BY ContractFacts DEF TypeInv, StampsOK
<1>2. \A id \in Records : Watermark(id) = NoWatermark
  BY <1>1, WatermarkIs
<1>3. last = NoWatermark
  BY <1>2 DEF Marks
<1> QED BY <1>1, <1>3 DEF ValueOf, PushedValue

\* Nothing was loaded at first.
LEMMA SnapshotInvInit == Init => SnapshotInv
BY DEF Init, Idle, SnapshotInv, UnderWay

\* A write deactivates only what the load asked for and did not get.
LEMMA SnapshotInvNext ==
    ASSUME ~Moves, TypeInv, ReadInv, SnapshotInv, [Next]_vars
    PROVE  SnapshotInv'
<1>1. /\ contract' = contract /\ Records \subseteq Records' /\ target \subseteq target'
      /\ listing' \cap Records \subseteq listing
      /\ \A id \in Records : stamps'[id] = stamps[id]
  BY StepsKeep
<1> SUFFICES ASSUME contract.snapshot
             PROVE  /\ \A id \in target' : InScope(id)'
                    /\ UnderWay' => target' \cap listing' \subseteq read'.start
                    /\ Uncut => target' \ active' \subseteq Records' \ listing'
  BY <1>1 DEF SnapshotInv, Uncut
<1>2. target \subseteq Records /\ active \subseteq target /\ listing \subseteq Records
  BY DEF TypeInv
<1>3. /\ \A id \in target : InScope(id)
      /\ UnderWay => target \cap listing \subseteq read.start
      /\ Uncut => target \ active \subseteq Records \ listing
  BY DEF SnapshotInv
<1>4. \A id \in Records : InScope(id)' <=> InScope(id)
  BY <1>1 DEF InScope
<1>5. CASE /\ UNCHANGED <<target, active>>
           /\ UnderWay' => UnderWay /\ read'.start = read.start
  BY <1>1, <1>2, <1>3, <1>4, <1>5
<1>6. CASE UNCHANGED <<target, active>> /\ read' = Disturbed
  <2>1. UnderWay' => UnderWay /\ read'.start = read.start
    BY <1>6, DisturbedFacts, ReadKinds DEF UnderWay
  <2> QED BY <1>5, <1>6, <2>1
<1>7. ASSUME NEW stamp \in Stamps, Arrive(stamp) PROVE UNCHANGED <<target, active>> /\ read' = Disturbed
  BY <1>7 DEF Arrive
<1>8. ASSUME NEW id \in listing, Vanish(id) PROVE UNCHANGED <<target, active>> /\ read' = Disturbed
  BY <1>8 DEF Vanish
<1>9. CASE \E readable \in BOOLEAN : Begin(readable)
  <2> PICK readable \in BOOLEAN : Begin(readable)
    BY <1>9
  <2>1. /\ UNCHANGED <<contract, stamps, listing, target, active>>
        /\ read'.start = Selected(read'.value) /\ read'.value = ValueOf(read'.last)
        /\ read'.last \in Marks
    BY BeginFacts DEF sourceVars
  <2>2. read'.value = IF contract.push THEN contract.initial ELSE Null
    BY <2>1, SnapshotsAreWhole
  <2>3. target \cap listing \subseteq read'.start
    BY <1>3, <2>1, <2>2 DEF Selected, InScope
  <2> QED BY <1>1, <1>2, <1>3, <1>4, <2>1, <2>3
<1>10. CASE Failed
  BY <1>5, <1>10 DEF Failed, Fail, Idle, UnderWay
<1>11. CASE ReadPage
  <2>1. UNCHANGED <<target, active>> /\ UnderWay /\ read'.start = read.start
    BY <1>11, ReadPageFacts DEF Reading, UnderWay
  <2> QED BY <1>5, <2>1
<1>12. CASE Retry
  <2>1. /\ Reading /\ read \in StartedReads /\ UNCHANGED <<target, active>>
        /\ read' = [read EXCEPT !.attempt = @ + 1]
    BY <1>12, ReadKinds DEF Retry, Asking, Reading
  <2>2. UnderWay /\ read'.start = read.start
    BY <2>1 DEF StartedReads, Reading, UnderWay
  <2> QED BY <1>5, <2>1, <2>2
<1>13. CASE OpenFiles
  <2>1. UNCHANGED <<target, active>> /\ UnderWay /\ read'.start = read.start
    BY <1>13, OpenFilesFacts DEF Reading, UnderWay
  <2> QED BY <1>5, <2>1
<1>14. CASE \E p \in 0 .. contract.parts - 1 : ReadPartition(p)
  <2>1. UNCHANGED <<target, active>> /\ UnderWay /\ read'.start = read.start
    BY <1>14, ReadPartitionFacts DEF Reading, UnderWay
  <2> QED BY <1>5, <2>1
<1>15. CASE Write
  <2>1. /\ read.pc = "evaluated" /\ read.last \in Marks /\ UnderWay
        /\ target' = target \cup Batch /\ read'.pc = "written" /\ listing' = listing
        /\ active' = IF contract.snapshot /\ Batch # {} THEN Batch ELSE active
        /\ Got \subseteq Records
    BY <1>15, WriteFacts, ReadKinds DEF UnderWay, sourceVars
  <2>2. read.last = NoWatermark /\ ValueOf(read.last) = IF contract.push THEN contract.initial ELSE Null
    BY <2>1, SnapshotsAreWhole
  <2>3. Batch = Got
    BY <2>2 DEF Batch, ApplyWatermark
  <2>4. StartInv /\ CompleteInv
    BY <2>1 DEF ReadInv
  <2>5. read.value = IF contract.push THEN contract.initial ELSE Null
    BY <2>2, <2>4 DEF StartInv
  <2>6. \A id \in Got : InScope(id)
    BY <2>4, <2>5 DEF StartInv, InScope
  <2>7. \A id \in target' : InScope(id)'
    BY <1>2, <1>3, <1>4, <2>1, <2>3, <2>6
  <2>8. ASSUME Uncut, NEW id \in target', id \notin active' PROVE id \in Records' /\ id \notin listing'
    <3>1. CASE Got = {}
      BY <1>1, <1>2, <1>3, <2>1, <2>3, <2>8, <3>1
    <3>2. CASE Got # {}
      <4>1. id \in target /\ id \notin Got
        BY <2>1, <2>3, <2>8, <3>2
      <4>2. id \in listing => id \in read.start /\ id \in Candidates
        BY <1>3, <2>1, <2>5, <4>1 DEF Candidates, Selected, InScope
      <4>3. id \notin listing
        BY <2>4, <2>8, <4>1, <4>2 DEF CompleteInv
      <4> QED BY <1>1, <1>2, <2>1, <4>1, <4>3
    <3> QED BY <3>1, <3>2
  <2> QED BY <2>1, <2>7, <2>8 DEF UnderWay
<1>16. CASE Save
  BY <1>5, <1>16 DEF Save, Idle, UnderWay
<1>17. CASE UNCHANGED vars
  BY <1>5, <1>17 DEF vars, UnderWay
<1> QED BY <1>6, <1>7, <1>8, <1>9, <1>10, <1>11, <1>12, <1>13, <1>14, <1>15, <1>16, <1>17, StepCases

\* From the invariant to the property.
LEMMA SnapshotInvImplies == SnapshotInv => InactiveIsGone
BY DEF SnapshotInv, InactiveIsGone, Uncut

\* For every source that holds still where the code relies on it: a load of
\* snapshot_soft_delete deactivates what the source no longer has, and nothing else.
THEOREM InactiveAreGone == ASSUME ~Moves PROVE Spec => []InactiveIsGone
<1>1. Init => TypeInv /\ ReadInv /\ SnapshotInv
  BY TypeInvInit, ReadInvInit, SnapshotInvInit
<1>2. TypeInv /\ ReadInv /\ SnapshotInv /\ [Next]_vars => (TypeInv /\ ReadInv /\ SnapshotInv)'
  BY TypeInvNext, ReadInvNext, SnapshotInvNext
<1> QED BY <1>1, <1>2, SnapshotInvImplies, PTL DEF Spec
=============================================================================
