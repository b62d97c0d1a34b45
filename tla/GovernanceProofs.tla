-------------------------- MODULE GovernanceProofs --------------------------
(***************************************************************************)
(* Proofs about Governance, for any calls, contracts, grants and faults.   *)
(***************************************************************************)
EXTENDS Governance, FiniteSetTheorems, NaturalsInduction, TLAPS
-----------------------------------------------------------------------------
(***************************************************************************)
(* Sequences and their ranges.  The natural numbers are well founded, so a *)
(* set of them that holds 0 and every successor is all of them: induction  *)
(* over a set, which needs no operator for a parameter.                    *)
(***************************************************************************)

Less == {p \in Nat \X Nat : p[1] < p[2]}

\* The order of the natural numbers.
LEMMA LessIsWellFounded == IsWellFoundedOn(Less, Nat)
<1>1. OpToRel(<, Nat) = Less
  BY DEF OpToRel, Less
<1> QED
  BY <1>1, NatLessThanWellFounded

\* A set with 0 and every successor has every natural number.
LEMMA SetInduction ==
    ASSUME NEW S \in SUBSET Nat, 0 \in S, \A n \in S : n + 1 \in S
    PROVE  S = Nat
<1> SUFFICES ASSUME S # Nat
             PROVE  FALSE
  OBVIOUS
<1>1. Nat \ S # {} /\ Nat \ S \subseteq Nat
  OBVIOUS
<1>2. PICK x \in Nat \ S : \A y \in Nat \ S : <<y, x>> \notin Less
  BY <1>1, LessIsWellFounded, WFMin
<1>3. x # 0 /\ x - 1 \in Nat /\ (x - 1) + 1 = x /\ x - 1 < x
  OBVIOUS
<1>4. x - 1 \in S
  BY <1>2, <1>3 DEF Less
<1> QED
  BY <1>3, <1>4

\* f[i] is the concatenation of the first i elements of s.
Upto(s, f, k) == f = [i \in 1 .. k |-> IF i = 1 THEN s[i] ELSE f[i - 1] \o s[i]]

\* The partial concatenations of s exist, however many.
LEMMA UptoExists == ASSUME NEW s PROVE \A k \in Nat : \E f : Upto(s, f, k)
<1> DEFINE K == {k \in Nat : \E f : Upto(s, f, k)}
<1>1. 0 \in K
  <2>1. Upto(s, [i \in 1 .. 0 |-> IF i = 1 THEN s[i] ELSE <<>>], 0) BY DEF Upto
  <2> QED BY <2>1
<1>2. ASSUME NEW k \in K PROVE k + 1 \in K
  <2>1. PICK f : Upto(s, f, k) OBVIOUS
  <2>0. k \in Nat OBVIOUS
  <2> DEFINE g == [i \in 1 .. k + 1 |-> IF i = 1 THEN s[i] ELSE f[i - 1] \o s[i]]
  <2>2. ASSUME NEW i \in 1 .. k + 1, i # 1 PROVE g[i - 1] = f[i - 1]
    <3>1. i - 1 \in 1 .. k /\ i - 1 \in 1 .. k + 1 BY <2>0, <2>2
    <3>2. f[i - 1] = IF i - 1 = 1 THEN s[i - 1] ELSE f[i - 1 - 1] \o s[i - 1] BY <2>1, <3>1 DEF Upto
    <3> QED BY <3>1, <3>2
  <2>3. g = [i \in 1 .. k + 1 |-> IF i = 1 THEN s[i] ELSE g[i - 1] \o s[i]]
    <3> DEFINE e == [i \in 1 .. k + 1 |-> IF i = 1 THEN s[i] ELSE g[i - 1] \o s[i]]
    <3>1. \A i \in 1 .. k + 1 : g[i] = e[i] BY <2>2
    <3>2. g = [i \in 1 .. k + 1 |-> g[i]] /\ e = [i \in 1 .. k + 1 |-> e[i]] OBVIOUS
    <3> HIDE DEF g, e
    <3>3. g = e BY <3>1, <3>2
    <3> QED BY <3>3 DEF e
  <2>4. Upto(s, g, k + 1) BY <2>3 DEF Upto
  <2> HIDE DEF g
  <2> QED BY <2>0, <2>4
<1> HIDE DEF K
<1>3. K \in SUBSET Nat BY DEF K
<1>4. K = Nat BY <1>1, <1>2, <1>3, SetInduction
<1> QED BY <1>4 DEF K

\* The elements of a concatenation.
LEMMA RangeOfConcat ==
    ASSUME NEW S, NEW T, NEW s \in Seq(S), NEW t \in Seq(T)
    PROVE  Range(s \o t) = Range(s) \cup Range(t)
<1>0. Len(s) \in Nat /\ Len(t) \in Nat /\ DOMAIN s = 1 .. Len(s) /\ DOMAIN t = 1 .. Len(t)
  OBVIOUS
<1>2. /\ DOMAIN (s \o t) = 1 .. Len(s) + Len(t)
      /\ \A i \in 1 .. Len(s) + Len(t) : (s \o t)[i] = IF i <= Len(s) THEN s[i] ELSE t[i - Len(s)]
  OBVIOUS
<1>3. ASSUME NEW x \in Range(s \o t) PROVE x \in Range(s) \cup Range(t)
  <2>1. PICK i \in 1 .. Len(s) + Len(t) : x = (s \o t)[i] BY <1>2 DEF Range
  <2>2. CASE i <= Len(s) BY <1>0, <1>2, <2>1, <2>2 DEF Range
  <2>3. CASE ~ (i <= Len(s)) 
    <3>1. i - Len(s) \in DOMAIN t BY <1>0, <2>3
    <3> QED BY <1>2, <2>1, <2>3, <3>1 DEF Range
  <2> QED BY <2>2, <2>3
<1>4. ASSUME NEW x \in Range(s) PROVE x \in Range(s \o t)
  <2>1. PICK i \in DOMAIN s : x = s[i] BY DEF Range
  <2>2. i \in 1 .. Len(s) + Len(t) /\ i <= Len(s) BY <1>0
  <2> QED BY <1>2, <2>1, <2>2 DEF Range
<1>5. ASSUME NEW x \in Range(t) PROVE x \in Range(s \o t)
  <2>1. PICK i \in DOMAIN t : x = t[i] BY DEF Range
  <2>2. i + Len(s) \in 1 .. Len(s) + Len(t) /\ ~ (i + Len(s) <= Len(s)) /\ (i + Len(s)) - Len(s) = i BY <1>0
  <2> QED BY <1>2, <2>1, <2>2 DEF Range
<1> QED BY <1>3, <1>4, <1>5

\* The elements of a flattened sequence are those of its elements.
LEMMA RangeOfFlat ==
    ASSUME NEW T, NEW s \in Seq(Seq(T))
    PROVE  /\ FlattenSeq(s) \in Seq(T)
           /\ Range(FlattenSeq(s)) = UNION {Range(s[i]) : i \in DOMAIN s}
<1> DEFINE n == Len(s)
           R(k) == UNION {Range(s[i]) : i \in 1 .. k}
<1>0. n \in Nat /\ DOMAIN s = 1 .. n /\ \A i \in 1 .. n : s[i] \in Seq(T) OBVIOUS
<1>a. CASE n = 0
  <2>1. s = <<>> /\ s \in Seq(T) BY <1>a
  <2>2. FlattenSeq(s) = s BY <1>a DEF FlattenSeq
  <2>3. Range(s) = {} /\ DOMAIN s = {} BY <2>1 DEF Range
  <2> QED BY <2>1, <2>2, <2>3
<1>b. CASE n # 0
  <2>5. \E f : Upto(s, f, n) BY UptoExists, <1>0
  <2> DEFINE h == CHOOSE h : h = [i \in 1 .. n |-> IF i = 1 THEN s[i] ELSE h[i - 1] \o s[i]]
  <2>6. h = [i \in 1 .. n |-> IF i = 1 THEN s[i] ELSE h[i - 1] \o s[i]] BY <2>5 DEF Upto
  <2>7. FlattenSeq(s) = h[n]
    BY <1>b DEF FlattenSeq
  <2> HIDE DEF h
  <2>a. \A i \in 1 .. n : h[i] = IF i = 1 THEN s[i] ELSE h[i - 1] \o s[i] BY <2>6
  <2> DEFINE H == {k \in Nat : k + 1 <= n => h[k + 1] \in Seq(T) /\ Range(h[k + 1]) = R(k + 1)}
  <2>8. 0 \in H 
     <3>1. ASSUME 1 <= n PROVE h[1] = s[1] /\ 1 \in 1 .. n BY <2>a, <1>0, <3>1
     <3>2. 1 .. 1 = {1} OBVIOUS
     <3>3. R(1) = Range(s[1]) BY <3>2
     <3> HIDE DEF R, n
     <3> QED BY <3>1, <3>3, <1>0
  <2>9. ASSUME NEW k \in H PROVE k + 1 \in H
    <3>0. k \in Nat OBVIOUS
    <3>1. ASSUME k + 1 + 1 <= n PROVE h[k + 1 + 1] \in Seq(T) /\ Range(h[k + 1 + 1]) = R(k + 1 + 1)
      <4>0. k + 1 <= n /\ k + 1 + 1 \in 1 .. n /\ k + 1 + 1 # 1 /\ k + 1 + 1 - 1 = k + 1 BY <3>0, <3>1, <1>0
      <4>1. h[k + 1] \in Seq(T) /\ Range(h[k + 1]) = R(k + 1) BY <4>0
      <4>2. h[k + 1 + 1] = h[k + 1] \o s[k + 1 + 1] 
        <5> DEFINE j == k + 1 + 1
        <5>1. j \in 1 .. n /\ j # 1 /\ j - 1 = k + 1 BY <4>0
        <5> HIDE DEF j, n, H, R
        <5>2. h[j] = h[j - 1] \o s[j] BY <5>1, <2>a
        <5> QED BY <5>1, <5>2 DEF j
      <4>3. s[k + 1 + 1] \in Seq(T) BY <1>0, <4>0
      <4>5. R(k + 1 + 1) = R(k + 1) \cup Range(s[k + 1 + 1])
        <5>1. 1 .. k + 1 + 1 = (1 .. k + 1) \cup {k + 1 + 1} BY <3>0
        <5> QED BY <5>1
      <4> HIDE DEF H, n, R
      <4>4. h[k + 1] \o s[k + 1 + 1] \in Seq(T) BY <4>1, <4>3
      <4>6. Range(h[k + 1] \o s[k + 1 + 1]) = Range(h[k + 1]) \cup Range(s[k + 1 + 1])
        BY <4>1, <4>3, RangeOfConcat
      <4> QED BY <4>1, <4>2, <4>4, <4>5, <4>6
    <3> HIDE DEF R, n
    <3> QED BY <3>0, <3>1
  <2> HIDE DEF H
  <2>10. H = Nat
    <3>1. H \in SUBSET Nat BY DEF H
    <3> QED BY <2>8, <2>9, <3>1, SetInduction
  <2>11. n - 1 \in H /\ n - 1 + 1 = n /\ n <= n BY <1>0, <1>b, <2>10
  <2>12. h[n] \in Seq(T) /\ Range(h[n]) = R(n) 
     <3> DEFINE k == n - 1
     <3>1. k \in H /\ k + 1 = n /\ k + 1 <= n BY <2>11
     <3> HIDE DEF k, n, R
     <3>2. h[k + 1] \in Seq(T) /\ Range(h[k + 1]) = R(k + 1) BY <3>1 DEF H
     <3> QED BY <3>1, <3>2
  <2> QED BY <2>7, <2>12, <1>0
<1> QED BY <1>a, <1>b

\* SetToSeq lists each element of a finite set.
LEMMA RangeOfSetToSeq ==
    ASSUME NEW S, IsFiniteSet(S)
    PROVE  /\ Cardinality(S) \in Nat
           /\ SetToSeq(S) \in [1 .. Cardinality(S) -> S]
           /\ \A x \in S : \E i \in 1 .. Cardinality(S) : SetToSeq(S)[i] = x
<1> DEFINE n == Cardinality(S)
<1>1. n \in Nat /\ ExistsBijection(1 .. n, S) BY FS_CardinalityType
<1>2. \E f \in [1 .. n -> S] : IsInjective(f)
  BY <1>1 DEF ExistsBijection, Bijection, Injection
<1> DEFINE g == SetToSeq(S)
<1>3. g \in [1 .. n -> S] /\ IsInjective(g) BY <1>2 DEF SetToSeq
<1> HIDE DEF g
<1>4. g \in Injection(1 .. n, S) BY <1>3 DEF Injection
<1>5. IsFiniteSet(1 .. n) /\ Cardinality(1 .. n) = n
  BY <1>1, FS_Interval
<1>6. g \in Surjection(1 .. n, S) BY <1>4, <1>5, FS_Injection
<1> QED BY <1>1, <1>3, <1>6 DEF Surjection, g
-----------------------------------------------------------------------------
(***************************************************************************)
(* The statements of a contract, as a set, and the sequences of            *)
(* AnnotationSteps, AccessSteps and RevokeSteps that put them in an order. *)
(***************************************************************************)

\* What an annotations contract says of the table or of one of its columns.
About(c, x) == IF x = Table THEN c.table ELSE c.columns[x]

\* The statements a contract stands for, as a set.
Annotated(c) == UNION {Range(Describe(x, About(c, x))) : x \in {Table} \cup DOMAIN c.columns}
Granted(c) == {Step("grant", g, Unset) : g \in Declared(c)}
Filtered(c) == {Step("row_filter", Table, f.function) : f \in Range(c.filters)}
Masking(c) == {Step("mask", m.column, m.function) : m \in Range(c.masks)}
Revoked(gs) == {Step("revoke", g, Unset) : g \in gs}

\* A function from 1 .. n is a sequence of what it maps to.
LEMMA SeqOfFunction ==
    ASSUME NEW s, NEW n \in Nat, s = [i \in 1 .. n |-> s[i]]
    PROVE  s \in Seq(Range(s))
<1>1. \A i \in 1 .. n : s[i] \in Range(s)
  BY DEF Range
<1>2. s \in [1 .. n -> Range(s)]
  BY <1>1
<1> QED
  BY <1>2

\* The sequences of one element and of none.
LEMMA RangeOfOptional ==
    ASSUME NEW x
    PROVE  /\ <<x>> \in Seq({x}) /\ Range(<<x>>) = {x}
           /\ <<>> \in Seq({}) /\ Range(<<>>) = {}
<1>1. DOMAIN <<x>> = 1 .. 1 /\ 1 .. 1 = {1} /\ <<x>>[1] = x
  OBVIOUS
<1>2. DOMAIN <<>> = {}
  OBVIOUS
<1>3. Range(<<x>>) = {x}
  BY <1>1 DEF Range
<1>4. Range(<<>>) = {}
  BY <1>2 DEF Range
<1> QED
  BY <1>3, <1>4

\* Describe: a comment where there is a description, tags where there are any.
LEMMA RangeOfDescribe ==
    ASSUME NEW x, NEW a
    PROVE  /\ Describe(x, a) \in Seq(Range(Describe(x, a)))
           /\ Range(Describe(x, a)) =
                (IF a.description # Unset THEN {Step("comment", x, a.description)} ELSE {})
                \cup (IF DOMAIN AllTags(a) # {} THEN {Step("tags", x, AllTags(a))} ELSE {})
<1> DEFINE C == Step("comment", x, a.description)
           G == Step("tags", x, AllTags(a))
           P == IF a.description # Unset THEN <<C>> ELSE <<>>
           Q == IF DOMAIN AllTags(a) # {} THEN <<G>> ELSE <<>>
           PR == IF a.description # Unset THEN {C} ELSE {}
           QR == IF DOMAIN AllTags(a) # {} THEN {G} ELSE {}
<1>1. Describe(x, a) = P \o Q
  BY DEF Describe
<1>2. P \in Seq(PR) /\ Range(P) = PR
  <2> HIDE DEF C
  <2>1. CASE a.description # Unset
    BY <2>1, RangeOfOptional
  <2>2. CASE ~ (a.description # Unset)
    BY <2>2, RangeOfOptional
  <2> QED
    BY <2>1, <2>2
<1>3. Q \in Seq(QR) /\ Range(Q) = QR
  <2> DEFINE D == DOMAIN AllTags(a)
  <2> HIDE DEF G, D
  <2>1. CASE D # {}
    BY <2>1, RangeOfOptional DEF D
  <2>2. CASE ~ (D # {})
    BY <2>2, RangeOfOptional DEF D
  <2> QED
    BY <2>1, <2>2
<1> HIDE DEF P, Q
<1>4. P \o Q \in Seq(PR \cup QR) /\ Range(P \o Q) = PR \cup QR
  <2> HIDE DEF PR, QR
  <2>1. P \in Seq(PR) /\ Q \in Seq(QR)
    BY <1>2, <1>3
  <2>2. Range(P \o Q) = Range(P) \cup Range(Q)
    BY <2>1, RangeOfConcat
  <2>3. P \in Seq(PR \cup QR) /\ Q \in Seq(PR \cup QR)
    BY <2>1
  <2>4. P \o Q \in Seq(PR \cup QR)
    BY <2>3
  <2> QED
    BY <1>2, <1>3, <2>2, <2>4
<1>5. P \o Q \in Seq(Range(P \o Q))
  BY <1>4
<1> QED
  BY <1>1, <1>4, <1>5

\* AnnotationSteps send what the contract says of the table and its columns.
LEMMA RangeOfAnnotationSteps ==
    ASSUME NEW c, DOMAIN c.columns \subseteq Columns
    PROVE  /\ AnnotationSteps(c) \in Seq(Annotated(c))
           /\ Range(AnnotationSteps(c)) = Annotated(c)
<1> DEFINE D == DOMAIN c.columns
           n == Cardinality(D)
           g == SetToSeq(D)
           T == Annotated(c)
           s == [i \in 1 .. n |-> LET col == g[i] IN Describe(col, c.columns[col])]
<1>1. IsFiniteSet(D)
  BY FinitenessAssumption, FS_Subset
<1>2. n \in Nat /\ g \in [1 .. n -> D] /\ \A x \in D : \E i \in 1 .. n : g[i] = x
  BY <1>1, RangeOfSetToSeq
<1>3. \A x \in D : x # Table /\ About(c, x) = c.columns[x]
  BY TableAssumption DEF About
<1>4. About(c, Table) = c.table
  BY DEF About
<1>5. \A S, W : \A t \in Seq(S) : S \subseteq W => t \in Seq(W)
  OBVIOUS
<1>6. \A x \in {Table} \cup D : /\ Range(Describe(x, About(c, x))) \subseteq T
                                /\ Describe(x, About(c, x)) \in Seq(T)
  <2> TAKE x \in {Table} \cup D
  <2>1. Range(Describe(x, About(c, x))) \subseteq T
    BY DEF Annotated
  <2>2. Describe(x, About(c, x)) \in Seq(Range(Describe(x, About(c, x))))
    BY RangeOfDescribe
  <2> HIDE DEF T
  <2> QED
    BY <2>1, <2>2, <1>5
<1>7. \A i \in 1 .. n : s[i] = Describe(g[i], About(c, g[i]))
  BY <1>2, <1>3
<1>8. s \in Seq(Seq(T)) /\ DOMAIN s = 1 .. n
  <2>1. \A i \in 1 .. n : s[i] \in Seq(T)
    BY <1>2, <1>6, <1>7
  <2>2. DOMAIN s = 1 .. n /\ s = [i \in 1 .. n |-> s[i]]
    OBVIOUS
  <2> HIDE DEF s, T
  <2>3. s \in [1 .. n -> Seq(T)]
    BY <2>1, <2>2
  <2> QED
    BY <1>2, <2>2, <2>3
<1>9. FlattenSeq(s) \in Seq(T) /\ Range(FlattenSeq(s)) = UNION {Range(s[i]) : i \in DOMAIN s}
  <2> HIDE DEF s, T
  <2> QED
    BY <1>8, RangeOfFlat
<1>10. AnnotationSteps(c) = Describe(Table, c.table) \o FlattenSeq(s)
  BY DEF AnnotationSteps
<1>11. Describe(Table, c.table) \in Seq(T)
  BY <1>4, <1>6
<1>12. UNION {Range(s[i]) : i \in 1 .. n} = UNION {Range(Describe(x, About(c, x))) : x \in D}
  <2>1. ASSUME NEW y \in UNION {Range(s[i]) : i \in 1 .. n}
        PROVE  y \in UNION {Range(Describe(x, About(c, x))) : x \in D}
    <3>1. PICK i \in 1 .. n : y \in Range(s[i])
      OBVIOUS
    <3>2. s[i] = Describe(g[i], About(c, g[i])) /\ g[i] \in D
      BY <1>2, <1>7
    <3> HIDE DEF s
    <3> QED
      BY <3>1, <3>2
  <2>2. ASSUME NEW y \in UNION {Range(Describe(x, About(c, x))) : x \in D}
        PROVE  y \in UNION {Range(s[i]) : i \in 1 .. n}
    <3>1. PICK x \in D : y \in Range(Describe(x, About(c, x)))
      OBVIOUS
    <3>2. PICK i \in 1 .. n : g[i] = x
      BY <1>2
    <3>3. s[i] = Describe(x, About(c, x))
      BY <1>7, <3>2
    <3> HIDE DEF s
    <3> QED
      BY <3>1, <3>3
  <2> QED
    BY <2>1, <2>2
<1> HIDE DEF s
<1>13. Annotated(c) = Range(Describe(Table, c.table)) \cup UNION {Range(Describe(x, About(c, x))) : x \in D}
  BY <1>4 DEF Annotated
<1>14. /\ Describe(Table, c.table) \o FlattenSeq(s) \in Seq(T)
       /\ Range(Describe(Table, c.table) \o FlattenSeq(s)) = Range(Describe(Table, c.table)) \cup Range(FlattenSeq(s))
  <2> HIDE DEF T
  <2> QED
    BY <1>9, <1>11, RangeOfConcat
<1> QED
  BY <1>8, <1>9, <1>10, <1>12, <1>13, <1>14

\* AccessSteps send the grants, the row filters and the masks.
LEMMA RangeOfAccessSteps ==
    ASSUME NEW c, IsAccessContract(c)
    PROVE  /\ AccessSteps(c) \in Seq(Range(AccessSteps(c)))
           /\ Range(AccessSteps(c)) = Granted(c) \cup Filtered(c) \cup Masking(c)
<1> DEFINE g == [i \in DOMAIN c.grants |-> Step("grant", c.grants[i], Unset)]
           f == [i \in DOMAIN c.filters |-> Step("row_filter", Table, c.filters[i].function)]
           m == [i \in DOMAIN c.masks |-> Step("mask", c.masks[i].column, c.masks[i].function)]
<1>1. \A S : \A s \in Seq(S) : Len(s) \in Nat /\ DOMAIN s = 1 .. Len(s)
  OBVIOUS
<1>2. g \in Seq(Granted(c)) /\ Range(g) = Granted(c)
  <2>1. PICK n \in Nat : DOMAIN c.grants = 1 .. n
    BY <1>1 DEF IsAccessContract
  <2>2. g = [i \in 1 .. n |-> g[i]]
    BY <2>1
  <2>3. Range(g) = Granted(c)
    BY DEF Range, Granted, Declared
  <2> HIDE DEF g
  <2> QED
    BY <2>1, <2>2, <2>3, SeqOfFunction
<1>3. f \in Seq(Filtered(c)) /\ Range(f) = Filtered(c)
  <2>1. PICK n \in Nat : DOMAIN c.filters = 1 .. n
    BY <1>1 DEF IsAccessContract
  <2>2. f = [i \in 1 .. n |-> f[i]]
    BY <2>1
  <2>3. Range(f) = Filtered(c)
    BY DEF Range, Filtered
  <2> HIDE DEF f
  <2> QED
    BY <2>1, <2>2, <2>3, SeqOfFunction
<1>4. m \in Seq(Masking(c)) /\ Range(m) = Masking(c)
  <2>1. PICK n \in Nat : DOMAIN c.masks = 1 .. n
    BY <1>1 DEF IsAccessContract
  <2>2. m = [i \in 1 .. n |-> m[i]]
    BY <2>1
  <2>3. Range(m) = Masking(c)
    BY DEF Range, Masking
  <2> HIDE DEF m
  <2> QED
    BY <2>1, <2>2, <2>3, SeqOfFunction
<1>5. AccessSteps(c) = (g \o f) \o m
  BY DEF AccessSteps
<1> HIDE DEF g, f, m
<1> DEFINE S == Granted(c) \cup Filtered(c) \cup Masking(c)
<1>6. g \in Seq(S) /\ f \in Seq(S) /\ m \in Seq(S)
  BY <1>2, <1>3, <1>4
<1> HIDE DEF S
<1>a. g \o f \in Seq(S) /\ (g \o f) \o m \in Seq(S)
  BY <1>6
<1>b. Range(g \o f) = Range(g) \cup Range(f)
  BY <1>6, RangeOfConcat
<1>7. Range((g \o f) \o m) = Range(g \o f) \cup Range(m)
  <2> DEFINE h == g \o f
  <2>1. h \in Seq(S)
    BY <1>a
  <2> HIDE DEF h
  <2>2. Range(h \o m) = Range(h) \cup Range(m)
    BY <1>6, <2>1, RangeOfConcat
  <2> QED
    BY <2>2 DEF h
<1> QED
  BY <1>2, <1>3, <1>4, <1>5, <1>a, <1>b, <1>7 DEF S

\* RevokeSteps revoke the unmanaged grants.
LEMMA RangeOfRevokeSteps ==
    ASSUME NEW d, d.unmanaged \subseteq Grants
    PROVE  /\ RevokeSteps(d) \in Seq(Revoked(d.unmanaged))
           /\ Range(RevokeSteps(d)) = Revoked(d.unmanaged)
<1> DEFINE U == d.unmanaged
           n == Cardinality(U)
           g == SetToSeq(U)
           r == [i \in 1 .. n |-> Step("revoke", g[i], Unset)]
<1>1. IsFiniteSet(U)
  BY FinitenessAssumption, FS_Subset
<1>2. n \in Nat /\ g \in [1 .. n -> U] /\ \A x \in U : \E i \in 1 .. n : g[i] = x
  BY <1>1, RangeOfSetToSeq
<1>3. RevokeSteps(d) = r
  BY DEF RevokeSteps
<1>4. Range(r) = Revoked(U)
  BY <1>2 DEF Range, Revoked
<1>5. DOMAIN r = 1 .. n
  OBVIOUS
<1>6. r \in Seq(Range(r))
  <2>1. r = [i \in 1 .. n |-> r[i]]
    OBVIOUS
  <2> HIDE DEF r, n
  <2> QED
    BY <1>2, <2>1, SeqOfFunction
<1> QED
  BY <1>3, <1>4, <1>6
-----------------------------------------------------------------------------
(***************************************************************************)
(* The invariants, one conjunct for a call.                                *)
(***************************************************************************)

Calm == {"validate", "operations", "annotate", "drift"}

\* The statements of a call.
Statements(q, d) ==
    IF OnAccess(q)
    THEN Granted(q.access) \cup Filtered(q.access) \cup Masking(q.access)
         \cup (IF q.access.revoke /\ d.status # "FAILED" THEN Revoked(d.unmanaged) ELSE {})
    ELSE Annotated(q.annotations)

\* The reports of access_drift_report.
Drifts ==
    [status : {"NOT_CONFIGURED", "FAILED", "DRIFTED", "IN_SYNC"}, current : SUBSET Grants,
     missing : SUBSET Grants, unmanaged : SUBSET Grants]

\* What the calls keep.
Typed ==
    /\ request \in Schedules
    /\ pc \in [Calls -> PCs]
    /\ drift \in [Calls -> Drifts]
    /\ steps = [c \in Calls |-> steps[c]]
    /\ entries \in [Calls -> Seq(EntryStatuses)]
    /\ audit = [c \in Calls |-> audit[c]]
    /\ result \in [Calls -> Statuses]
    /\ checked \in [Calls -> {"NONE", "SUCCESS", "WARNED", "FAILED"}]
    /\ executed \in [Calls -> SUBSET Nat]

\* What they share.
CatalogTyped ==
    /\ grants \subseteq Grants
    /\ rowFilter \in Words \cup {Unset}
    /\ masks \in [Columns -> Words \cup {Unset}]
    /\ comments \in [Objects -> Words \cup {Unset}]
    /\ DOMAIN tags = Objects /\ \A x \in Objects : DOMAIN tags[x] \subseteq TagKeys
    /\ byHand \in 0 .. MaxByHand
    /\ disturbed \subseteq Calls
    /\ recorded \subseteq Calls

\* A call that has nothing to send, or not yet.
Idle(c) ==
    /\ pc[c] \notin {"apply", "log", "log_raise"}
    /\ steps[c] = <<>> /\ entries[c] = <<>>
    /\ result[c] = "NOT_CONFIGURED"

\* What apply_access_contract has made sure of when it plans.
Confirmed(q, d) ==
    /\ q.access.onDrift = "fail" => d.status = "IN_SYNC"
    /\ q.access.revoke => q.force
    /\ d.status # "FAILED" => d.unmanaged = d.current \ Declared(q.access)

\* A call that works off its statements, or has.
Planned(c) ==
    /\ pc[c] \notin Calm
    /\ request[c].kind # "validate_access" /\ Contract(request[c]) # Unset
    /\ steps[c] \in Seq(Statements(request[c], drift[c]))
    /\ Range(steps[c]) = Statements(request[c], drift[c])
    /\ OnAccess(request[c]) => Confirmed(request[c], drift[c])
    /\ Len(entries[c]) <= Len(steps[c])
    /\ pc[c] = "apply" => /\ Len(entries[c]) < Len(steps[c])
                          /\ OnAccess(request[c]) => request[c].access.mode = "apply"
    /\ pc[c] \in {"log", "check", "returned"} => Len(entries[c]) = Len(steps[c])

PlanInv == \A c \in Calls : Idle(c) \/ Planned(c)

\* APPLIED is the status of the statements the catalog accepted.
Accepted(c) == executed[c] = {i \in DOMAIN entries[c] : entries[c][i] = "APPLIED"}

LogInv == \A c \in Calls : Accepted(c)

\* The rows of the first n entries are in the audit table.
Logged(c, n) == audit[c] = [i \in 1 .. n |-> Row(c, i)]

Audited(c) ==
    /\ \E n \in 0 .. Len(entries[c]) : Logged(c, n)
    /\ pc[c] \notin Ended \cup {"check"} => audit[c] = <<>>
    /\ pc[c] \in {"check", "returned", "raised"} => Logged(c, Len(entries[c]))

AuditInv == \A c \in Calls : Audited(c)

\* The statement, once accepted, is still in force.
Holds(s) ==
    /\ s.type = "grant" => s.object \in grants
    /\ s.type = "revoke" => s.object \notin grants
    /\ s.type = "row_filter" => rowFilter = s.value
    /\ s.type = "mask" => masks[s.object] = s.value
    /\ s.type = "comment" => comments[s.object] = s.value
    /\ s.type = "tags" => \A k \in DOMAIN s.value : k \in DOMAIN tags[s.object] /\ tags[s.object][k] = s.value[k]

\* A call that may still return SUCCESS, or has.
Succeeding(c) ==
    /\ result[c] = "SUCCESS" /\ pc[c] \in {"apply", "log", "check", "returned"}

\* One nobody has disturbed, and whose drift report did not fail.
Undisturbed(c) == Succeeding(c) /\ c \notin disturbed /\ drift[c].status # "FAILED"

\* What it got accepted is in force.
Standing(c) == Undisturbed(c) => \A i \in DOMAIN entries[c] : Holds(steps[c][i])

StandInv == \A c \in Calls : Standing(c)

\* The grants it has still to revoke.
ToRevoke(c) ==
    {steps[c][i].object : i \in {j \in DOMAIN steps[c] : j > Len(entries[c]) /\ steps[c][j].type = "revoke"}}

\* An unmanaged grant is one it has still to revoke.
Revoking(c) ==
    Undisturbed(c) /\ OnAccess(request[c]) /\ request[c].access.revoke
    => grants \ Declared(request[c].access) \subseteq ToRevoke(c)

RevokeInv == \A c \in Calls : Revoking(c)

\* governance_check runs last, and finds nothing where all is in force.
Checked(c) ==
    /\ pc[c] # "returned" => checked[c] = "NONE"
    /\ Undisturbed(c) /\ pc[c] = "returned" =>
           checked[c] # "WARNED" /\ (checked[c] = "FAILED" => "read" \in Faults)

CheckInv == \A c \in Calls : Checked(c)

\* A call that is to apply its contract, and has planned, succeeds or warns.
Decided(c) ==
    ToApply(request[c]) /\ pc[c] \in {"apply", "log", "log_raise", "check", "returned"}
    => result[c] \in {"SUCCESS", "WARNED"}

DecidedInv == \A c \in Calls : Decided(c)

\* What only the call itself changes.
Own(c) ==
    <<request, pc[c], drift[c], steps[c], entries[c], audit[c], result[c], checked[c], executed[c]>>
-----------------------------------------------------------------------------
(***************************************************************************)
(* The types of contracts and statements.                                  *)
(***************************************************************************)

LEMMA AliasKeysAreTagKeys == ASSUME NEW aliases \in BoundedSeq(Words, Len(AliasKeys))
      PROVE DOMAIN AliasTags(aliases) \subseteq TagKeys
<1>0. Len(AliasKeys) = 2 /\ DOMAIN AliasKeys = 1 .. 2
  BY DEF AliasKeys
<1>1. PICK m \in 0 .. 2 : aliases \in [1 .. m -> Words]
  <2>1. aliases \in UNION {[1 .. m -> Words] : m \in 0 .. Len(AliasKeys)}
    BY DEF BoundedSeq, SeqOf
  <2> QED
    BY <1>0, <2>1
<1>2. \A i \in DOMAIN aliases : AliasKeys[i] \in Range(AliasKeys)
  <2>1. DOMAIN aliases \subseteq 1 .. 2
    BY <1>1
  <2> QED
    BY <1>0, <2>1 DEF Range
<1>3. DOMAIN AliasTags(aliases) = {AliasKeys[i] : i \in DOMAIN aliases}
  BY DEF AliasTags
<1> QED
  BY <1>2, <1>3 DEF TagKeys

\* Overlay has the keys of both.
LEMMA DomainOfOverlay == ASSUME NEW f, NEW g PROVE DOMAIN Overlay(f, g) = DOMAIN f \cup DOMAIN g
BY DEF Overlay

\* The tags of an annotation are among TagKeys.
LEMMA TagsHaveKeys == ASSUME NEW a \in Annotation PROVE DOMAIN AllTags(a) \subseteq TagKeys
<1>1. DOMAIN AliasTags(a.aliases) \subseteq TagKeys
  BY AliasKeysAreTagKeys DEF Annotation
<1>2. DOMAIN a.tags \subseteq TagKeys
  <2>1. PICK K \in SUBSET {"team", "contains_pii"} : a.tags \in [K -> Words]
    BY DEF Annotation
  <2> QED
    BY <2>1 DEF TagKeys
<1>3. DOMAIN PiiTags(a.pii) \subseteq TagKeys
  BY DEF PiiTags, TagKeys
<1>4. DOMAIN DeprecatedTags(a.deprecated) \subseteq TagKeys
  BY DEF DeprecatedTags, TagKeys
<1> DEFINE B == Overlay(a.tags, AliasTags(a.aliases))
           C == Overlay(B, PiiTags(a.pii))
<1>5. DOMAIN B \subseteq TagKeys
  BY <1>1, <1>2, DomainOfOverlay
<1>6. DOMAIN C \subseteq TagKeys
  <2> HIDE DEF B
  <2> QED
    BY <1>3, <1>5, DomainOfOverlay
<1>7. AllTags(a) = Overlay(C, DeprecatedTags(a.deprecated))
  BY DEF AllTags
<1> HIDE DEF C
<1> QED
  BY <1>4, <1>6, <1>7, DomainOfOverlay

\* What a contract says of the table or of a column it names.
LEMMA AnnotationIsTyped ==
    ASSUME NEW c, IsAnnotationsContract(c), NEW x \in {Table} \cup DOMAIN c.columns
    PROVE  About(c, x) \in Annotation /\ x \in Objects
BY DEF About, IsAnnotationsContract, Objects

\* The statements of an annotations contract.
LEMMA AnnotatedIsTyped ==
    ASSUME NEW c, IsAnnotationsContract(c), NEW s \in Annotated(c)
    PROVE  /\ s.object \in {Table} \cup DOMAIN c.columns /\ s.object \in Objects
           /\ \/ /\ s.type = "comment" /\ s.value = About(c, s.object).description /\ s.value \in Words
              \/ /\ s.type = "tags" /\ s.value = AllTags(About(c, s.object)) /\ DOMAIN s.value \subseteq TagKeys
<1>1. PICK x \in {Table} \cup DOMAIN c.columns : s \in Range(Describe(x, About(c, x)))
  BY DEF Annotated
<1> DEFINE a == About(c, x)
<1>2. a \in Annotation /\ x \in Objects
  BY AnnotationIsTyped
<1>3. \/ a.description # Unset /\ s = Step("comment", x, a.description)
      \/ s = Step("tags", x, AllTags(a))
  <2> HIDE DEF a
  <2> QED
    BY <1>1, RangeOfDescribe DEF a
<1>4. a.description \in Words \cup {Unset}
  BY <1>2 DEF Annotation
<1>5. DOMAIN AllTags(a) \subseteq TagKeys
  BY <1>2, TagsHaveKeys
<1> QED
  BY <1>2, <1>3, <1>4, <1>5 DEF Step

\* The elements of a sequence over S are in S.
LEMMA InRange == ASSUME NEW S, NEW s \in Seq(S), NEW x \in Range(s) PROVE x \in S
BY DEF Range

\* The statements of an access contract, revocations apart.
LEMMA AccessIsTyped ==
    ASSUME NEW c, IsAccessContract(c), NEW s \in Granted(c) \cup Filtered(c) \cup Masking(c)
    PROVE  \/ s.type = "grant" /\ s.object \in Declared(c) /\ s.object \in Grants
           \/ s.type = "row_filter" /\ s.value \in Words /\ \E f \in Range(c.filters) : s.value = f.function
           \/ s.type = "mask" /\ s.object \in Columns /\ s.value \in Words
              /\ \E m \in Range(c.masks) : s.object = m.column /\ s.value = m.function
<1>1. Declared(c) \subseteq Grants
  BY DEF Declared, Range, IsAccessContract
<1>2. \A f \in Range(c.filters) : f.function \in Words
  <2> DEFINE F == [function : Words, columns : (SUBSET Columns) \ {{}}]
  <2>1. c.filters \in Seq(F)
    BY DEF IsAccessContract
  <2>2. \A f \in F : f.function \in Words
    OBVIOUS
  <2> HIDE DEF F
  <2> QED
    BY <2>1, <2>2, InRange
<1>3. \A m \in Range(c.masks) : m.column \in Columns /\ m.function \in Words
  <2> DEFINE M == [column : Columns, function : Words, using : SUBSET Columns]
  <2>1. c.masks \in Seq(M)
    BY DEF IsAccessContract
  <2>2. \A m \in M : m.column \in Columns /\ m.function \in Words
    OBVIOUS
  <2> HIDE DEF M
  <2> QED
    BY <2>1, <2>2, InRange
<1>4. CASE s \in Granted(c)
  BY <1>1, <1>4 DEF Granted, Step
<1>5. CASE s \in Filtered(c)
  BY <1>2, <1>5 DEF Filtered, Step
<1>6. CASE s \in Masking(c)
  BY <1>3, <1>6 DEF Masking, Step
<1> QED
  BY <1>4, <1>5, <1>6

\* Every call has been asked for something well formed.
LEMMA RequestsAreTyped ==
    ASSUME Typed, NEW c \in Calls
    PROVE  IsRequest(request[c])
BY SchedulesAssumption DEF Typed

\* So is the contract it works to.
LEMMA ContractsAreTyped ==
    ASSUME Typed, NEW c \in Calls, Contract(request[c]) # Unset
    PROVE  /\ OnAccess(request[c]) => IsAccessContract(request[c].access)
           /\ ~OnAccess(request[c]) => IsAnnotationsContract(request[c].annotations)
BY RequestsAreTyped DEF IsRequest, Contract

\* What a statement of a call can be, and that its contract declares it.
LEMMA StatementsAreTyped ==
    ASSUME Typed, NEW c \in Calls, Contract(request[c]) # Unset, OnAccess(request[c]) => Confirmed(request[c], drift[c]),
           NEW s \in Statements(request[c], drift[c])
    PROVE  \/ /\ OnAccess(request[c])
              /\ \/ s.type = "grant" /\ s.object \in Declared(request[c].access) /\ s.object \in Grants
                 \/ /\ s.type = "revoke" /\ request[c].access.revoke /\ drift[c].status # "FAILED"
                    /\ s.object \in drift[c].current \ Declared(request[c].access)
                 \/ /\ s.type = "row_filter" /\ s.value \in Words
                    /\ \E f \in Range(request[c].access.filters) : s.value = f.function
                 \/ /\ s.type = "mask" /\ s.object \in Columns /\ s.value \in Words
                    /\ \E m \in Range(request[c].access.masks) : s.object = m.column /\ s.value = m.function
           \/ /\ ~OnAccess(request[c])
              /\ s.object \in Objects
              /\ \/ /\ s.type = "comment" /\ s.value \in Words
                    /\ s.value = About(request[c].annotations, s.object).description
                 \/ /\ s.type = "tags" /\ DOMAIN s.value \subseteq TagKeys
                    /\ s.value = AllTags(About(request[c].annotations, s.object))
<1> DEFINE q == request[c]
           d == drift[c]
<1>1. CASE OnAccess(q)
  <2>1. IsAccessContract(q.access)
    BY <1>1, ContractsAreTyped
  <2>2. CASE s \in Granted(q.access) \cup Filtered(q.access) \cup Masking(q.access)
    BY <1>1, <2>1, <2>2, AccessIsTyped
  <2>3. CASE q.access.revoke /\ d.status # "FAILED" /\ s \in Revoked(d.unmanaged)
    <3>1. d.unmanaged = d.current \ Declared(q.access)
      BY <1>1, <2>3 DEF Confirmed
    <3> QED
      BY <1>1, <2>3, <3>1 DEF Revoked, Step
  <2> QED
    BY <1>1, <2>2, <2>3 DEF Statements
<1>2. CASE ~OnAccess(q)
  <2>1. IsAnnotationsContract(q.annotations) /\ s \in Annotated(q.annotations)
    BY <1>2, ContractsAreTyped DEF Statements
  <2> QED
    BY <1>2, <2>1, AnnotatedIsTyped
<1> QED
  BY <1>1, <1>2
-----------------------------------------------------------------------------
(***************************************************************************)
(* The plans of the calls, and what a call leaves to the others.           *)
(***************************************************************************)

LEMMA ReportsAreTyped ==
    ASSUME Typed, CatalogTyped, NEW c \in Calls, NEW d \in Reports(request[c].access),
           OnAccess(request[c])
    PROVE  /\ d \in Drifts
           /\ request[c].access # Unset /\ d.status # "FAILED" => d = DriftReport(request[c].access)
<1>1. NoDrift("NOT_CONFIGURED") \in Drifts /\ NoDrift("FAILED") \in Drifts
  BY DEF NoDrift, Drifts
<1>2. CASE request[c].access = Unset
  BY <1>1, <1>2 DEF Reports
<1>3. CASE request[c].access # Unset
  <2> DEFINE a == request[c].access
  <2>1. Declared(a) \subseteq Grants
    <3>1. IsAccessContract(a)
      BY <1>3, ContractsAreTyped DEF Contract
    <3> QED
      BY <3>1, InRange DEF Declared, IsAccessContract
  <2>2. DriftReport(a) \in Drifts
    BY <2>1 DEF DriftReport, Drifts, CatalogTyped
  <2>3. NoDrift("FAILED").status = "FAILED"
    BY DEF NoDrift
  <2> QED
    BY <1>1, <1>3, <2>2, <2>3 DEF Reports
<1> QED
  BY <1>2, <1>3

\* The steps a planning call works off.
LEMMA StepsOfAnnotations ==
    ASSUME Typed, NEW c \in Calls, request[c].kind \in {"ingest", "governance", "annotations"},
           request[c].annotations # Unset, NEW d
    PROVE  /\ AnnotationSteps(request[c].annotations) \in Seq(Statements(request[c], d))
           /\ Range(AnnotationSteps(request[c].annotations)) = Statements(request[c], d)
<1>1. ~OnAccess(request[c]) /\ Contract(request[c]) # Unset
  BY DEF OnAccess, Contract
<1>2. DOMAIN request[c].annotations.columns \subseteq Columns
  BY <1>1, ContractsAreTyped DEF IsAnnotationsContract
<1>3. Statements(request[c], d) = Annotated(request[c].annotations)
  BY <1>1 DEF Statements
<1> QED
  BY <1>2, <1>3, RangeOfAnnotationSteps

\* Those of apply_access_contract are, revocations included.
LEMMA StepsOfAccess ==
    ASSUME Typed, NEW c \in Calls, request[c].kind = "access", request[c].access # Unset,
           NEW d \in Drifts
    PROVE  LET a == request[c].access
               ss == AccessSteps(a) \o (IF a.revoke /\ d.status # "FAILED" THEN RevokeSteps(d) ELSE <<>>)
           IN  /\ ss \in Seq(Statements(request[c], d))
               /\ Range(ss) = Statements(request[c], d)
<1> DEFINE a == request[c].access
           r == IF a.revoke /\ d.status # "FAILED" THEN RevokeSteps(d) ELSE <<>>
           R == IF a.revoke /\ d.status # "FAILED" THEN Revoked(d.unmanaged) ELSE {}
           S == Statements(request[c], d)
<1>1. OnAccess(request[c]) /\ IsAccessContract(a)
  BY ContractsAreTyped DEF OnAccess, Contract
<1>2. S = Granted(a) \cup Filtered(a) \cup Masking(a) \cup R
  BY <1>1 DEF Statements
<1>3. AccessSteps(a) \in Seq(Range(AccessSteps(a))) /\ Range(AccessSteps(a)) = Granted(a) \cup Filtered(a) \cup Masking(a)
  BY <1>1, RangeOfAccessSteps
<1>4. r \in Seq(R) /\ Range(r) = R
  <2>1. d.unmanaged \subseteq Grants
    BY DEF Drifts
  <2>2. RevokeSteps(d) \in Seq(Revoked(d.unmanaged)) /\ Range(RevokeSteps(d)) = Revoked(d.unmanaged)
    BY <2>1, RangeOfRevokeSteps
  <2>3. <<>> \in Seq({}) /\ Range(<<>>) = {}
    BY RangeOfOptional
  <2>4. CASE a.revoke /\ d.status # "FAILED"
    BY <2>2, <2>4
  <2>5. CASE ~ (a.revoke /\ d.status # "FAILED")
    BY <2>3, <2>5
  <2> QED
    BY <2>4, <2>5
<1> DEFINE s == AccessSteps(a)
<1> HIDE DEF r, S, R, s, a
<1>5. s \in Seq(S) /\ r \in Seq(S)
  BY <1>2, <1>3, <1>4 DEF s
<1>6. s \o r \in Seq(S)
  BY <1>5
<1>7. Range(s \o r) = Range(s) \cup Range(r)
  BY <1>5, RangeOfConcat
<1>8. s \o r \in Seq(S) /\ Range(s \o r) = S
  BY <1>2, <1>3, <1>4, <1>6, <1>7 DEF s
<1> QED
  BY <1>8 DEF s, r, S, a

\* A step of one call changes nothing of another.
LEMMA OthersKept ==
    ASSUME Typed, NEW c \in Calls, CallNext(c), NEW d \in Calls \ {c}
    PROVE  Own(d)' = Own(d)
<1> USE DEF Typed, Goto, Own
<1>1. CASE Validate(c)
  BY <1>1 DEF Validate, progress, ghosts
<1>2. CASE RecordOperations(c)
  BY <1>2 DEF RecordOperations, ghosts
<1>3. CASE PlanAnnotations(c)
  BY <1>3 DEF PlanAnnotations, Skip, Send, ghosts
<1>4. CASE PlanAccess(c)
  BY <1>4 DEF PlanAccess, Skip, Send, ghosts
<1>5. CASE ValidateAccess(c)
  BY <1>5 DEF ValidateAccess, ghosts
<1>6. CASE Execute(c)
  BY <1>6 DEF Execute, Advance
<1>7. CASE ExecuteFails(c)
  BY <1>7 DEF ExecuteFails, Advance, FailFast, Warn, ghosts
<1>8. CASE LogEntries(c)
  BY <1>8 DEF LogEntries, ghosts
<1>9. CASE Check(c)
  BY <1>9 DEF Check, ghosts
<1>10. CASE Crash(c)
  BY <1>10 DEF Crash, progress, ghosts
<1> QED
  BY <1>1, <1>2, <1>3, <1>4, <1>5, <1>6, <1>7, <1>8, <1>9, <1>10 DEF CallNext

\* The environment changes nothing of any.
LEMMA AllKept ==
    ASSUME ByHand \/ Finished, NEW d \in Calls
    PROVE  Own(d)' = Own(d)
BY DEF ByHand, Finished, vars, progress, ghosts, Own
-----------------------------------------------------------------------------
(***************************************************************************)
(* The types of the local state.                                           *)
(***************************************************************************)

LEMMA TypedInit == Init => Typed
BY DEF Init, Typed, NoDrift, Drifts, PCs, Statuses, EntryStatuses

\* A status for each step.
LEMMA SkippedIsTyped ==
    ASSUME NEW S, NEW ss \in Seq(S), NEW status \in EntryStatuses
    PROVE  [i \in DOMAIN ss |-> status] \in Seq(EntryStatuses) /\ Len([i \in DOMAIN ss |-> status]) = Len(ss)
<1>1. Len(ss) \in Nat /\ DOMAIN ss = 1 .. Len(ss)
  OBVIOUS
<1> QED
  BY <1>1

\* The kinds of a call that works to an access contract.
LEMMA KindsOfCalls ==
    ASSUME Typed, NEW c \in Calls
    PROVE  /\ request[c].kind \in Kinds
           /\ OnAccess(request[c]) <=> request[c].kind \in {"access", "validate_access"}
BY RequestsAreTyped DEF IsRequest, OnAccess

\* A call never plans annotations of an access contract.
PlaceInv ==
    \A c \in Calls :
        /\ pc[c] \in {"operations", "annotate"} => ~OnAccess(request[c])
        /\ pc[c] = "check" => OnAccess(request[c])

\* PlaceInv is inductive.
LEMMA PlaceInvStep ==
    ASSUME Typed, PlaceInv, [Next]_vars
    PROVE  PlaceInv'
<1>1. CASE \E c \in Calls : CallNext(c)
  <2> PICK c \in Calls : CallNext(c)
    BY <1>1
  <2>1. request' = request /\ \A d \in Calls \ {c} : pc'[d] = pc[d]
    BY OthersKept DEF Own, CallNext, Validate, RecordOperations, PlanAnnotations, PlanAccess, ValidateAccess,
       Execute, ExecuteFails, LogEntries, Check, Crash
  <2>2. /\ pc'[c] \in {"operations", "annotate"} => ~OnAccess(request[c])
        /\ pc'[c] = "check" => OnAccess(request[c])
    <3> USE DEF Goto, Typed
    <3>1. CASE Validate(c)
      BY <3>1 DEF Validate
    <3>2. CASE RecordOperations(c)
      BY <3>2 DEF RecordOperations, PlaceInv
    <3>3. CASE PlanAnnotations(c)
      BY <3>3 DEF PlanAnnotations, Skip, Send
    <3>4. CASE PlanAccess(c)
      BY <3>4 DEF PlanAccess, Skip, Send, OnAccess
    <3>5. CASE ValidateAccess(c)
      BY <3>5 DEF ValidateAccess
    <3>6. CASE Execute(c)
      BY <3>6 DEF Execute, Advance
    <3>7. CASE ExecuteFails(c)
      BY <3>7 DEF ExecuteFails, Advance, FailFast
    <3>8. CASE LogEntries(c)
      BY <3>8 DEF LogEntries
    <3>9. CASE Check(c)
      BY <3>9 DEF Check
    <3>10. CASE Crash(c)
      BY <3>10 DEF Crash
    <3> QED
      BY <3>1, <3>2, <3>3, <3>4, <3>5, <3>6, <3>7, <3>8, <3>9, <3>10 DEF CallNext
  <2> QED
    BY <2>1, <2>2 DEF PlaceInv
<1>2. CASE ByHand \/ Finished \/ UNCHANGED vars
  BY <1>2 DEF ByHand, Finished, vars, PlaceInv
<1> QED
  BY <1>1, <1>2 DEF Next

\* Typed is inductive, given the other two.
LEMMA TypedStep ==
    ASSUME Typed, CatalogTyped, PlaceInv, [Next]_vars
    PROVE  Typed'
<1>1. CASE \E c \in Calls : CallNext(c)
  <2> PICK c \in Calls : CallNext(c)
    BY <1>1
  <2>1. CASE Validate(c)
    BY <2>1 DEF Typed, Validate, Goto, PCs, Ended, progress, ghosts
  <2>2. CASE RecordOperations(c)
    BY <2>2 DEF Typed, RecordOperations, Goto, PCs, Ended, ghosts
  <2>3. CASE PlanAnnotations(c)
    <3> DEFINE a == request[c].annotations
    <3>1. CASE a = Unset
      BY <2>3, <3>1 DEF PlanAnnotations, Typed, Goto, PCs, Ended, ghosts
    <3>2. CASE a # Unset
      <4>0. request[c].kind \in {"ingest", "governance", "annotations"}
        BY <2>3, KindsOfCalls DEF PlaceInv, PlanAnnotations, Kinds
      <4>1. AnnotationSteps(a) \in Seq(Statements(request[c], drift[c]))
        BY <3>2, <4>0, StepsOfAnnotations
      <4>2. [i \in DOMAIN AnnotationSteps(a) |-> "IGNORED"] \in Seq(EntryStatuses)
        BY <4>1, SkippedIsTyped DEF EntryStatuses
      <4>3. steps' = [steps EXCEPT ![c] = AnnotationSteps(a)] /\ steps'[c] = AnnotationSteps(a)
        BY <2>3, <3>2 DEF PlanAnnotations, Typed
      <4>4. UNCHANGED <<request, drift, audit, checked, executed>>
        BY <2>3 DEF PlanAnnotations, ghosts
      <4>5. \/ Skip(c, steps'[c], "IGNORED") \/ Send(c, steps'[c])
        BY <2>3, <3>2 DEF PlanAnnotations
      <4>6. pc' \in [Calls -> PCs] /\ result' \in [Calls -> Statuses]
        BY <4>5 DEF Skip, Send, Goto, Typed, PCs, Statuses
      <4>7. entries' \in [Calls -> Seq(EntryStatuses)]
        <5>1. CASE Skip(c, steps'[c], "IGNORED")
          <6>1. entries' = [entries EXCEPT ![c] = [i \in DOMAIN AnnotationSteps(a) |-> "IGNORED"]]
            BY <4>3, <5>1 DEF Skip
          <6> QED
            BY <4>2, <6>1 DEF Typed
        <5>2. CASE Send(c, steps'[c])
          BY <5>2 DEF Send, Typed
        <5> QED
          BY <4>5, <5>1, <5>2
      <4>8. steps' = [x \in Calls |-> steps'[x]]
        BY <4>3 DEF Typed
      <4> QED
        BY <4>4, <4>6, <4>7, <4>8 DEF Typed
    <3> QED
      BY <3>1, <3>2
  <2>4. CASE PlanAccess(c)
    <3> DEFINE a == request[c].access
    <3>1. PICK d \in Reports(a) :
          \/ /\ Goto(c, "check") \/ Goto(c, "raised")
             /\ UNCHANGED <<drift, steps, entries, result>>
          \/ /\ a # Unset
             /\ drift' = [drift EXCEPT ![c] = d]
             /\ steps' = [steps EXCEPT ![c] =
                    AccessSteps(a) \o (IF a.revoke /\ d.status # "FAILED" THEN RevokeSteps(d) ELSE <<>>)]
             /\ \/ Skip(c, steps'[c], "IGNORED")
                \/ Skip(c, steps'[c], "VALIDATED")
                \/ Send(c, steps'[c])
      BY <2>4 DEF PlanAccess
    <3>2. UNCHANGED <<request, audit, checked, executed>>
      BY <2>4 DEF PlanAccess, ghosts
    <3>3. CASE (Goto(c, "check") \/ Goto(c, "raised")) /\ UNCHANGED <<drift, steps, entries, result>>
      BY <3>2, <3>3 DEF Goto, Typed, PCs, Ended
    <3>4. ASSUME a # Unset, drift' = [drift EXCEPT ![c] = d],
                 steps' = [steps EXCEPT ![c] =
                    AccessSteps(a) \o (IF a.revoke /\ d.status # "FAILED" THEN RevokeSteps(d) ELSE <<>>)],
                 \/ Skip(c, steps'[c], "IGNORED")
                 \/ Skip(c, steps'[c], "VALIDATED")
                 \/ Send(c, steps'[c])
          PROVE  Typed'
      <4> DEFINE ss == AccessSteps(a) \o (IF a.revoke /\ d.status # "FAILED" THEN RevokeSteps(d) ELSE <<>>)
      <4>0. request[c].kind = "access"
        BY <2>4 DEF PlanAccess
      <4>1. d \in Drifts
        BY <4>0, ReportsAreTyped DEF OnAccess
      <4>2. ss \in Seq(Statements(request[c], d))
        BY <3>4, <4>0, <4>1, StepsOfAccess
      <4>3. steps' = [steps EXCEPT ![c] = ss]
        BY <3>4
      <4> HIDE DEF ss
      <4>4. steps'[c] = ss /\ steps' = [x \in Calls |-> steps'[x]]
        BY <4>3 DEF Typed
      <4>5. \A status \in {"IGNORED", "VALIDATED"} : [i \in DOMAIN ss |-> status] \in Seq(EntryStatuses)
        BY <4>2, SkippedIsTyped DEF EntryStatuses
      <4>6. pc' \in [Calls -> PCs] /\ result' \in [Calls -> Statuses]
        BY <3>4 DEF Skip, Send, Goto, Typed, PCs, Statuses
      <4>7. entries' \in [Calls -> Seq(EntryStatuses)]
        <5>1. CASE Send(c, steps'[c])
          BY <5>1 DEF Send, Typed
        <5>2. ASSUME NEW status \in {"IGNORED", "VALIDATED"}, Skip(c, steps'[c], status)
              PROVE  entries' \in [Calls -> Seq(EntryStatuses)]
          <6>1. entries' = [entries EXCEPT ![c] = [i \in DOMAIN ss |-> status]]
            BY <4>4, <5>2 DEF Skip
          <6> QED
            BY <4>5, <6>1 DEF Typed
        <5> QED
          BY <3>4, <5>1, <5>2
      <4>8. drift' \in [Calls -> Drifts]
        BY <3>4, <4>1 DEF Typed
      <4> QED
        BY <3>2, <4>4, <4>6, <4>7, <4>8 DEF Typed
    <3> QED
      BY <3>1, <3>3, <3>4
  <2>5. CASE ValidateAccess(c)
    <3>1. PICK d \in Reports(request[c].access) :
            /\ drift' = [drift EXCEPT ![c] = d]
            /\ checked' = [checked EXCEPT ![c] =
                            IF Invalid(request[c]) THEN "FAILED" ELSE CheckStatus(request[c].access, d)]
      BY <2>5 DEF ValidateAccess
    <3>2. d \in Drifts
      BY <2>5, ReportsAreTyped DEF OnAccess, ValidateAccess
    <3>3. CheckStatus(request[c].access, d) \in {"SUCCESS", "WARNED", "FAILED"}
      BY DEF CheckStatus
    <3> QED
      BY <2>5, <3>1, <3>2, <3>3 DEF ValidateAccess, Typed, Goto, PCs, Ended, ghosts
  <2>6. CASE Execute(c)
    <3>1. entries' = [entries EXCEPT ![c] = Append(entries[c], "APPLIED")] /\ Len(entries[c]) + 1 \in Nat
      BY <2>6 DEF Execute, Advance, Typed
    <3>2. entries' \in [Calls -> Seq(EntryStatuses)]
      BY <3>1 DEF Typed, EntryStatuses
    <3>3. executed' \in [Calls -> SUBSET Nat]
      BY <2>6, <3>1 DEF Execute, Typed
    <3>4. pc' \in [Calls -> PCs]
      BY <2>6 DEF Execute, Advance, Goto, Typed, PCs
    <3> QED
      BY <2>6, <3>2, <3>3, <3>4 DEF Execute, Typed
  <2>7. CASE ExecuteFails(c)
    <3>1. PICK status \in {"FAILED", "WARNED"} : entries' = [entries EXCEPT ![c] = Append(entries[c], status)]
      BY <2>7 DEF ExecuteFails, FailFast, Advance
    <3>2. entries' \in [Calls -> Seq(EntryStatuses)]
      BY <3>1 DEF Typed, EntryStatuses
    <3>3. pc' \in [Calls -> PCs] /\ result' \in [Calls -> Statuses]
      BY <2>7 DEF ExecuteFails, FailFast, Advance, Warn, Goto, Typed, PCs, Statuses
    <3> QED
      BY <2>7, <3>2, <3>3 DEF ExecuteFails, Typed, ghosts
  <2>8. CASE LogEntries(c)
    <3>1. audit' = [x \in Calls |-> audit'[x]]
      BY <2>8 DEF LogEntries, Typed
    <3>2. pc' \in [Calls -> PCs]
      BY <2>8 DEF LogEntries, Goto, Typed, PCs, Ended
    <3> QED
      BY <2>8, <3>1, <3>2 DEF LogEntries, Typed, ghosts
  <2>9. CASE Check(c)
    <3>1. \A d : CheckStatus(request[c].access, d) \in {"SUCCESS", "WARNED", "FAILED"}
      BY DEF CheckStatus
    <3> QED
      BY <2>9, <3>1 DEF Check, Typed, Goto, PCs, Ended, ghosts
  <2>10. CASE Crash(c)
    BY <2>10 DEF Crash, Typed, Goto, PCs, Ended, progress, ghosts
  <2> QED
    BY <2>1, <2>2, <2>3, <2>4, <2>5, <2>6, <2>7, <2>8, <2>9, <2>10 DEF CallNext
<1>2. CASE ByHand
  BY <1>2 DEF ByHand, Typed, progress
<1>3. CASE Finished \/ UNCHANGED vars
  BY <1>3 DEF Finished, vars, Typed, progress, ghosts
<1> QED
  BY <1>1, <1>2, <1>3 DEF Next
-----------------------------------------------------------------------------
(***************************************************************************)
(* A call sends the statements of its contract and no other: PlanInv.      *)
(***************************************************************************)

LEMMA PlanInit == Init => PlanInv
BY DEF Init, PlanInv, Idle

\* It depends on what only the call changes.
LEMMA PlanKept ==
    ASSUME NEW d, Own(d)' = Own(d)
    PROVE  (Idle(d) => Idle(d)') /\ (Planned(d) => Planned(d)')
BY DEF Own, Idle, Planned

\* One more entry.
LEMMA Appended ==
    ASSUME Typed, NEW c \in Calls, NEW status \in EntryStatuses
    PROVE  /\ Len(entries[c]) \in Nat /\ DOMAIN entries[c] = 1 .. Len(entries[c])
           /\ Len(Append(entries[c], status)) = Len(entries[c]) + 1
           /\ DOMAIN Append(entries[c], status) = 1 .. Len(entries[c]) + 1
           /\ \A i \in 1 .. Len(entries[c]) : Append(entries[c], status)[i] = entries[c][i]
           /\ Append(entries[c], status)[Len(entries[c]) + 1] = status
BY DEF Typed

\* What a call that plans leaves behind, skipping its steps or about to send them.
LEMMA PlannedAfter ==
    ASSUME Typed, NEW c \in Calls, Idle(c), NEW ss, steps' = [steps EXCEPT ![c] = ss],
           ss \in Seq(Statements(request[c], drift'[c])), Range(ss) = Statements(request[c], drift'[c]),
           request' = request, Contract(request[c]) # Unset, request[c].kind # "validate_access",
           OnAccess(request[c]) => Confirmed(request[c], drift'[c]),
           \/ \E status \in {"IGNORED", "VALIDATED"} : Skip(c, ss, status)
           \/ Send(c, ss) /\ (OnAccess(request[c]) => request[c].access.mode = "apply")
    PROVE  Planned(c)'
<1>1. steps'[c] = ss /\ Len(ss) \in Nat
  BY DEF Typed
<1>2. ASSUME NEW status \in {"IGNORED", "VALIDATED"}, Skip(c, ss, status)
      PROVE  Planned(c)'
  <2>1. entries'[c] = [i \in DOMAIN ss |-> status] /\ pc'[c] = "log"
    BY <1>2 DEF Skip, Goto, Typed
  <2>2. Len(entries'[c]) = Len(ss)
    BY <2>1, SkippedIsTyped DEF EntryStatuses
  <2> QED
    BY <1>1, <2>1, <2>2 DEF Planned, Calm
<1>3. ASSUME Send(c, ss), OnAccess(request[c]) => request[c].access.mode = "apply"
      PROVE  Planned(c)'
  <2>1. entries'[c] = <<>> /\ pc'[c] = IF ss = <<>> THEN "log" ELSE "apply"
    BY <1>3 DEF Send, Goto, Typed, Idle
  <2>2. Len(entries'[c]) = 0 /\ (ss # <<>> => Len(ss) > 0) /\ (ss = <<>> => Len(ss) = 0)
    BY <1>1, <2>1
  <2> QED
    BY <1>1, <1>3, <2>1, <2>2 DEF Planned, Calm
<1> QED
  BY <1>2, <1>3

\* PlanInv is inductive.
LEMMA PlanStep ==
    ASSUME Typed, CatalogTyped, PlaceInv, PlanInv, [Next]_vars
    PROVE  PlanInv'
<1>1. CASE \E c \in Calls : CallNext(c)
  <2> PICK c \in Calls : CallNext(c)
    BY <1>1
  <2>0. \A d \in Calls \ {c} : (Idle(d) \/ Planned(d))'
    BY OthersKept, PlanKept DEF PlanInv
  <2>a. Idle(c) \/ Planned(c)
    BY DEF PlanInv
  <2> SUFFICES (Idle(c) \/ Planned(c))'
    BY <2>0 DEF PlanInv
  <2>1. CASE Validate(c)
    BY <2>a, <2>1 DEF Validate, Idle, Planned, Calm, Goto, Typed, progress, ghosts
  <2>2. CASE RecordOperations(c)
    BY <2>a, <2>2 DEF RecordOperations, Idle, Planned, Calm, Goto, Typed, ghosts
  <2>3. CASE PlanAnnotations(c)
    <3> DEFINE a == request[c].annotations
    <3>0. Idle(c)
      BY <2>a, <2>3 DEF PlanAnnotations, Planned, Calm
    <3>1. CASE a = Unset
      BY <2>3, <3>0, <3>1 DEF PlanAnnotations, Idle, Goto, Typed, ghosts
    <3>2. CASE a # Unset
      <4>0. request[c].kind \in {"ingest", "governance", "annotations"}
        BY <2>3, KindsOfCalls DEF PlaceInv, PlanAnnotations, Kinds
      <4>1. drift' = drift /\ request' = request
        BY <2>3 DEF PlanAnnotations
      <4>2. /\ AnnotationSteps(a) \in Seq(Statements(request[c], drift'[c]))
            /\ Range(AnnotationSteps(a)) = Statements(request[c], drift'[c])
        BY <3>2, <4>0, StepsOfAnnotations
      <4>3. steps' = [steps EXCEPT ![c] = AnnotationSteps(a)] /\ steps'[c] = AnnotationSteps(a)
        BY <2>3, <3>2 DEF PlanAnnotations, Typed
      <4>4. Skip(c, AnnotationSteps(a), "IGNORED") \/ Send(c, AnnotationSteps(a))
        BY <2>3, <3>2, <4>3 DEF PlanAnnotations
      <4>5. ~OnAccess(request[c]) /\ Contract(request[c]) # Unset
        BY <3>2, <4>0 DEF OnAccess, Contract
      <4> HIDE DEF a
      <4> QED
        BY <3>0, <4>0, <4>1, <4>2, <4>3, <4>4, <4>5, PlannedAfter
    <3> QED
      BY <3>1, <3>2
  <2>4. CASE PlanAccess(c)
    <3> DEFINE a == request[c].access
    <3>0. Idle(c) /\ request[c].kind = "access" /\ request' = request
      BY <2>a, <2>4 DEF PlanAccess, Planned, Calm
    <3>1. PICK d \in Reports(a) :
          \/ /\ Goto(c, "check") \/ Goto(c, "raised")
             /\ UNCHANGED <<drift, steps, entries, result>>
          \/ /\ a # Unset /\ MayRevoke(request[c])
             /\ a.onDrift = "fail" => d.status = "IN_SYNC"
             /\ drift' = [drift EXCEPT ![c] = d]
             /\ steps' = [steps EXCEPT ![c] =
                    AccessSteps(a) \o (IF a.revoke /\ d.status # "FAILED" THEN RevokeSteps(d) ELSE <<>>)]
             /\ \/ Skip(c, steps'[c], "IGNORED")
                \/ Skip(c, steps'[c], "VALIDATED")
                \/ a.mode = "apply" /\ Send(c, steps'[c])
      BY <2>4 DEF PlanAccess
    <3>2. CASE (Goto(c, "check") \/ Goto(c, "raised")) /\ UNCHANGED <<drift, steps, entries, result>>
      BY <3>0, <3>2 DEF Idle, Goto, Typed
    <3>3. ASSUME a # Unset, MayRevoke(request[c]), a.onDrift = "fail" => d.status = "IN_SYNC",
                 drift' = [drift EXCEPT ![c] = d],
                 steps' = [steps EXCEPT ![c] =
                    AccessSteps(a) \o (IF a.revoke /\ d.status # "FAILED" THEN RevokeSteps(d) ELSE <<>>)],
                 \/ Skip(c, steps'[c], "IGNORED")
                 \/ Skip(c, steps'[c], "VALIDATED")
                 \/ a.mode = "apply" /\ Send(c, steps'[c])
          PROVE  Planned(c)'
      <4> DEFINE ss == AccessSteps(a) \o (IF a.revoke /\ d.status # "FAILED" THEN RevokeSteps(d) ELSE <<>>)
      <4>0. OnAccess(request[c]) /\ Contract(request[c]) # Unset
        BY <3>0, <3>3 DEF OnAccess, Contract
      <4>1. d \in Drifts /\ (d.status # "FAILED" => d = DriftReport(a)) /\ drift'[c] = d
        BY <3>3, <4>0, ReportsAreTyped DEF Typed
      <4>2. ss \in Seq(Statements(request[c], d)) /\ Range(ss) = Statements(request[c], d)
        BY <3>0, <3>3, <4>1, StepsOfAccess
      <4>3. Confirmed(request[c], d)
        BY <3>3, <4>1 DEF Confirmed, MayRevoke, DriftReport
      <4>4. steps' = [steps EXCEPT ![c] = ss]
        BY <3>3
      <4> HIDE DEF ss
      <4>5. steps'[c] = ss
        BY <4>4 DEF Typed
      <4>6. \/ \E status \in {"IGNORED", "VALIDATED"} : Skip(c, ss, status)
            \/ Send(c, ss) /\ (OnAccess(request[c]) => request[c].access.mode = "apply")
        BY <3>3, <4>5
      <4> HIDE DEF a
      <4> QED
        BY <3>0, <4>0, <4>1, <4>2, <4>3, <4>4, <4>6, PlannedAfter
    <3> QED
      BY <3>1, <3>2, <3>3
  <2>5. CASE ValidateAccess(c)
    BY <2>a, <2>5 DEF ValidateAccess, Idle, Planned, Calm, Goto, Typed, ghosts
  <2>6. CASE Execute(c)
    <3>1. Planned(c)
      BY <2>a, <2>6 DEF Execute, Idle
    <3>2. entries'[c] = Append(entries[c], "APPLIED") /\ Len(entries'[c]) = Len(entries[c]) + 1
      BY <2>6, Appended DEF Execute, Advance, Typed, EntryStatuses
    <3>3. pc'[c] = IF Len(entries[c]) + 1 = Len(steps[c]) THEN "log" ELSE "apply"
      BY <2>6 DEF Execute, Advance, Goto, Typed
    <3>4. UNCHANGED <<request, drift, steps>> /\ pc[c] = "apply"
      BY <2>6 DEF Execute
    <3>5. Len(entries[c]) \in Nat /\ Len(steps[c]) \in Nat
      BY <3>1 DEF Typed, Planned
    <3> QED
      BY <3>1, <3>2, <3>3, <3>4, <3>5 DEF Planned, Calm
  <2>7. CASE ExecuteFails(c)
    <3>1. Planned(c)
      BY <2>a, <2>7 DEF ExecuteFails, Idle
    <3>2. Len(entries'[c]) = Len(entries[c]) + 1
      BY <2>7, Appended DEF ExecuteFails, Advance, FailFast, Typed, EntryStatuses
    <3>3. \/ pc'[c] = IF Len(entries[c]) + 1 = Len(steps[c]) THEN "log" ELSE "apply"
          \/ pc'[c] = "log_raise"
      BY <2>7 DEF ExecuteFails, Advance, FailFast, Goto, Typed
    <3>4. UNCHANGED <<request, drift, steps>> /\ pc[c] = "apply"
      BY <2>7 DEF ExecuteFails
    <3>5. Len(entries[c]) \in Nat /\ Len(steps[c]) \in Nat
      BY <3>1 DEF Typed, Planned
    <3> QED
      BY <3>1, <3>2, <3>3, <3>4, <3>5 DEF Planned, Calm
  <2>8. CASE LogEntries(c)
    BY <2>a, <2>8 DEF LogEntries, Idle, Planned, Calm, Goto, Typed, ghosts
  <2>9. CASE Check(c)
    BY <2>a, <2>9 DEF Check, Idle, Planned, Calm, Goto, Typed, ghosts
  <2>10. CASE Crash(c)
    BY <2>a, <2>10 DEF Crash, Idle, Planned, Calm, Goto, Typed, progress, ghosts
  <2> QED
    BY <2>1, <2>2, <2>3, <2>4, <2>5, <2>6, <2>7, <2>8, <2>9, <2>10 DEF CallNext
<1>2. CASE ByHand \/ Finished
  BY <1>2, AllKept, PlanKept DEF PlanInv
<1>3. CASE UNCHANGED vars
  <2>1. \A c : Own(c)' = Own(c)
    BY <1>3 DEF vars, progress, ghosts, Own
  <2> QED
    BY <2>1, PlanKept DEF PlanInv
<1> QED
  BY <1>1, <1>2, <1>3 DEF Next
-----------------------------------------------------------------------------
(***************************************************************************)
(* The entries and the audit rows: LogInv and AuditInv.                    *)
(***************************************************************************)

LEMMA LogInit == Init => LogInv
BY DEF Init, LogInv, Accepted

\* Steps that were skipped were not accepted.
LEMMA NothingAccepted ==
    ASSUME Typed, NEW c \in Calls, NEW ss, NEW status, status # "APPLIED",
           entries' = [entries EXCEPT ![c] = [i \in DOMAIN ss |-> status]], executed'[c] = {}
    PROVE  Accepted(c)'
<1>1. entries'[c] = [i \in DOMAIN ss |-> status]
  BY DEF Typed
<1> QED
  BY <1>1 DEF Accepted

\* LogInv is inductive: Execute alone accepts, and writes APPLIED.
LEMMA LogStep ==
    ASSUME Typed, PlanInv, LogInv, [Next]_vars
    PROVE  LogInv'
<1>1. CASE \E c \in Calls : CallNext(c)
  <2> PICK c \in Calls : CallNext(c)
    BY <1>1
  <2>0. \A d \in Calls \ {c} : Accepted(d)'
    BY OthersKept DEF LogInv, Accepted, Own
  <2>a. Accepted(c)
    BY DEF LogInv
  <2>b. pc[c] \in Calm => executed[c] = {} /\ entries[c] = <<>>
    BY <2>a DEF PlanInv, Planned, Idle, Accepted
  <2> SUFFICES Accepted(c)'
    BY <2>0 DEF LogInv
  <2>1. CASE \/ Validate(c) \/ RecordOperations(c) \/ ValidateAccess(c) \/ LogEntries(c) \/ Check(c) \/ Crash(c)
    <3>1. UNCHANGED <<entries, executed>>
      BY <2>1 DEF Validate, RecordOperations, ValidateAccess, LogEntries, Check, Crash, progress, ghosts
    <3> QED
      BY <2>a, <3>1 DEF Accepted
  <2>2. CASE PlanAnnotations(c) \/ PlanAccess(c)
    <3>1. executed'[c] = {}
      BY <2>b, <2>2 DEF PlanAnnotations, PlanAccess, ghosts, Calm
    <3>2. \/ entries' = entries
          \/ \E status \in {"IGNORED", "VALIDATED"} : entries' = [entries EXCEPT ![c] = [i \in DOMAIN steps'[c] |-> status]]
      BY <2>2 DEF PlanAnnotations, PlanAccess, Skip, Send
    <3>3. CASE entries' = entries
      <4>1. executed'[c] = executed[c]
        BY <2>b, <2>2, <3>1 DEF PlanAnnotations, PlanAccess, Calm
      <4> QED
        BY <2>a, <3>3, <4>1 DEF Accepted
    <3>4. ASSUME NEW status \in {"IGNORED", "VALIDATED"},
                 entries' = [entries EXCEPT ![c] = [i \in DOMAIN steps'[c] |-> status]]
          PROVE  Accepted(c)'
      BY <3>1, <3>4, NothingAccepted
    <3> QED
      BY <3>2, <3>3, <3>4
  <2>3. CASE Execute(c)
    <3>1. entries'[c] = Append(entries[c], "APPLIED")
      BY <2>3 DEF Execute, Advance, Typed
    <3>2. executed'[c] = executed[c] \cup {Len(entries[c]) + 1}
      BY <2>3 DEF Execute, Typed
    <3>3. /\ Len(entries[c]) \in Nat /\ DOMAIN entries[c] = 1 .. Len(entries[c])
          /\ DOMAIN entries'[c] = 1 .. Len(entries[c]) + 1
          /\ \A i \in 1 .. Len(entries[c]) : entries'[c][i] = entries[c][i]
          /\ entries'[c][Len(entries[c]) + 1] = "APPLIED"
      BY <3>1, Appended DEF EntryStatuses
    <3> QED
      BY <2>a, <3>2, <3>3 DEF Accepted
  <2>4. CASE ExecuteFails(c)
    <3>1. PICK status \in {"FAILED", "WARNED"} : entries'[c] = Append(entries[c], status)
      BY <2>4 DEF ExecuteFails, FailFast, Advance, Typed
    <3>2. executed'[c] = executed[c]
      BY <2>4 DEF ExecuteFails, ghosts
    <3>3. /\ Len(entries[c]) \in Nat /\ DOMAIN entries[c] = 1 .. Len(entries[c])
          /\ DOMAIN entries'[c] = 1 .. Len(entries[c]) + 1
          /\ \A i \in 1 .. Len(entries[c]) : entries'[c][i] = entries[c][i]
          /\ entries'[c][Len(entries[c]) + 1] = status
      BY <3>1, Appended DEF EntryStatuses
    <3> QED
      BY <2>a, <3>2, <3>3 DEF Accepted
  <2> QED
    BY <2>1, <2>2, <2>3, <2>4 DEF CallNext
<1>2. CASE ByHand \/ Finished
  BY <1>2, AllKept DEF LogInv, Accepted, Own
<1>3. CASE UNCHANGED vars
  BY <1>3 DEF vars, progress, ghosts, LogInv, Accepted
<1> QED
  BY <1>1, <1>2, <1>3 DEF Next

\* No row has been written.
LEMMA LoggedNothing == \A c : Logged(c, 0) <=> audit[c] = <<>>
BY DEF Logged

\* Nor is one at first.
LEMMA AuditInit == Init => AuditInv
<1> SUFFICES ASSUME Init, NEW c \in Calls PROVE Audited(c)
  BY DEF AuditInv
<1>1. audit[c] = <<>> /\ entries[c] = <<>> /\ pc[c] = "validate"
  BY DEF Init
<1>2. Logged(c, 0) /\ Len(entries[c]) = 0 /\ 0 \in 0 .. 0
  BY <1>1, LoggedNothing
<1> QED
  BY <1>1, <1>2 DEF Audited, Ended

\* AuditInv is inductive: the rows are those of the entries, from the first.
LEMMA AuditStep ==
    ASSUME Typed, Typed', PlanInv, AuditInv, [Next]_vars
    PROVE  AuditInv'
<1>0. (\A c : Logged(c, 0) <=> audit[c] = <<>>)'
  BY LoggedNothing, PTL
<1>a. \A d : (Own(d)' = Own(d)) => (\A n : Logged(d, n)' <=> Logged(d, n))
  BY DEF Own, Logged, Row
<1>b. \A d : (Own(d)' = Own(d)) /\ Audited(d) => Audited(d)'
  BY <1>a DEF Own, Audited
<1>1. CASE \E c \in Calls : CallNext(c)
  <2> PICK c \in Calls : CallNext(c)
    BY <1>1
  <2>0. \A d \in Calls \ {c} : Audited(d)'
    BY <1>b, OthersKept DEF AuditInv
  <2>a. Audited(c) /\ (Idle(c) \/ Planned(c))
    BY DEF AuditInv, PlanInv
  <2> SUFFICES Audited(c)'
    BY <2>0 DEF AuditInv
  <2>1. CASE \/ Validate(c) \/ RecordOperations(c) \/ PlanAnnotations(c) \/ PlanAccess(c)
             \/ ValidateAccess(c) \/ Execute(c) \/ ExecuteFails(c)
    <3>1. audit'[c] = <<>>
      BY <2>a, <2>1 DEF Validate, RecordOperations, PlanAnnotations, PlanAccess, ValidateAccess, Execute,
         ExecuteFails, Audited, Ended, progress
    <3>2. Logged(c, 0)'
      BY <1>0, <3>1
    <3>3. Len(entries'[c]) \in Nat
      BY DEF Typed
    <3>4. ASSUME pc'[c] \in {"check", "returned", "raised"}
          PROVE  Len(entries'[c]) = 0
      <4>1. pc[c] \in Calm /\ entries' = entries
        BY <2>1, <3>4 DEF Validate, RecordOperations, PlanAnnotations, PlanAccess, ValidateAccess, Execute,
           ExecuteFails, Skip, Send, Advance, FailFast, Goto, Typed, Calm, progress
      <4>2. entries'[c] = <<>>
        BY <2>a, <4>1 DEF Idle, Planned
      <4> QED
        BY <4>2
    <3> QED
      BY <3>1, <3>2, <3>3, <3>4 DEF Audited
  <2>2. CASE LogEntries(c)
    <3>1. PICK n \in 0 .. Len(entries[c]) :
            /\ audit' = [audit EXCEPT ![c] = [i \in 1 .. n |-> Row(c, i)]]
            /\ \/ n = Len(entries[c]) /\ pc'[c] \in Ended \cup {"check"}
               \/ pc'[c] = "unlogged"
      BY <2>2 DEF LogEntries, Goto, Typed, Ended
    <3>2. UNCHANGED <<steps, entries, drift>>
      BY <2>2 DEF LogEntries
    <3>3. audit'[c] = [i \in 1 .. n |-> Row(c, i)]
      BY <3>1 DEF Typed
    <3>4. Logged(c, n)'
      BY <3>2, <3>3 DEF Logged, Row
    <3> QED
      BY <3>1, <3>2, <3>4 DEF Audited, Ended
  <2>3. CASE Check(c) \/ Crash(c)
    <3>1. UNCHANGED <<steps, entries, drift, audit>>
      BY <2>3 DEF Check, Crash, progress
    <3>2. \A n : Logged(c, n)' <=> Logged(c, n)
      BY <3>1 DEF Logged, Row
    <3>3. \/ pc[c] = "check" /\ pc'[c] = "returned"
          \/ pc'[c] = "crashed"
      BY <2>3 DEF Check, Crash, Goto, Typed
    <3> QED
      BY <2>a, <3>1, <3>2, <3>3 DEF Audited, Ended
  <2> QED
    BY <2>1, <2>2, <2>3 DEF CallNext
<1>2. CASE ByHand \/ Finished
  BY <1>2, <1>b, AllKept DEF AuditInv
<1>3. CASE UNCHANGED vars
  <2>1. \A c : Own(c)' = Own(c)
    BY <1>3 DEF vars, progress, ghosts, Own
  <2> QED
    BY <2>1, <1>b DEF AuditInv
<1> QED
  BY <1>1, <1>2, <1>3 DEF Next
-----------------------------------------------------------------------------
(***************************************************************************)
(* The catalog, and the invariant of every execution.                      *)
(***************************************************************************)

LEMMA NextIsStatement ==
    ASSUME Typed, PlanInv, NEW c \in Calls, pc[c] = "apply"
    PROVE  /\ Planned(c) /\ Contract(request[c]) # Unset
           /\ Len(entries[c]) + 1 \in DOMAIN steps[c]
           /\ NextStep(c) \in Statements(request[c], drift[c])
           /\ OnAccess(request[c]) => Confirmed(request[c], drift[c])
<1>1. Planned(c)
  BY DEF PlanInv, Idle
<1> DEFINE S == Statements(request[c], drift[c])
<1>2. steps[c] \in Seq(S) /\ Len(entries[c]) < Len(steps[c]) /\ Contract(request[c]) # Unset
  BY <1>1 DEF Planned
<1>3. Len(entries[c]) \in Nat
  BY DEF Typed
<1> HIDE DEF S
<1>4. Len(entries[c]) + 1 \in DOMAIN steps[c] /\ steps[c][Len(entries[c]) + 1] \in S
  BY <1>2, <1>3
<1> QED
  BY <1>1, <1>2, <1>4 DEF NextStep, Planned, S

\* The catalog is typed at first.
LEMMA CatalogInit == Init => CatalogTyped
BY InitialAssumption, BoundAssumption DEF Init, CatalogTyped

\* The statements of a typed contract leave the catalog typed.
LEMMA CatalogStep ==
    ASSUME Typed, CatalogTyped, PlanInv, [Next]_vars
    PROVE  CatalogTyped'
<1>1. ASSUME NEW c \in Calls, Execute(c)
      PROVE  CatalogTyped'
  <2> DEFINE s == NextStep(c)
  <2>0. pc[c] = "apply" /\ Effect(s) /\ Disturb(c, Contract(request[c])) /\ byHand' = byHand /\ recorded' = recorded
    BY <1>1 DEF Execute
  <2>1. \/ s.type = "grant" /\ s.object \in Grants
        \/ s.type = "revoke"
        \/ s.type = "row_filter" /\ s.value \in Words
        \/ s.type = "mask" /\ s.object \in Columns /\ s.value \in Words
        \/ s.type = "comment" /\ s.object \in Objects /\ s.value \in Words
        \/ s.type = "tags" /\ s.object \in Objects /\ DOMAIN s.value \subseteq TagKeys
    BY <2>0, NextIsStatement, StatementsAreTyped
  <2> HIDE DEF s
  <2>2. grants' \subseteq Grants /\ rowFilter' \in Words \cup {Unset}
    BY <2>0, <2>1 DEF Effect, CatalogTyped
  <2>3. masks' \in [Columns -> Words \cup {Unset}]
    BY <2>0, <2>1 DEF Effect, CatalogTyped
  <2>4. comments' \in [Objects -> Words \cup {Unset}]
    BY <2>0, <2>1 DEF Effect, CatalogTyped
  <2>5. DOMAIN tags' = Objects /\ \A x \in Objects : DOMAIN tags'[x] \subseteq TagKeys
    <3>1. CASE s.type # "tags"
      BY <2>0, <3>1 DEF Effect, CatalogTyped
    <3>2. CASE s.type = "tags"
      <4>1. tags' = [tags EXCEPT ![s.object] = Overlay(tags[s.object], s.value)]
        BY <2>0, <3>2 DEF Effect
      <4>2. DOMAIN Overlay(tags[s.object], s.value) \subseteq TagKeys
        <5>1. DOMAIN tags[s.object] \subseteq TagKeys
          BY <2>1, <3>2 DEF CatalogTyped
        <5>2. DOMAIN Overlay(tags[s.object], s.value) = DOMAIN tags[s.object] \cup DOMAIN s.value
          BY DomainOfOverlay
        <5>3. DOMAIN s.value \subseteq TagKeys
          BY <2>1, <3>2
        <5> QED
          BY <5>1, <5>2, <5>3
      <4> QED
        BY <4>1, <4>2 DEF CatalogTyped
    <3> QED
      BY <3>1, <3>2
  <2>6. disturbed' \subseteq Calls
    BY <2>0 DEF Disturb, CatalogTyped
  <2> QED
    BY <2>0, <2>2, <2>3, <2>4, <2>5, <2>6 DEF CatalogTyped
<1>2. ASSUME NEW c \in Calls, CallNext(c), ~Execute(c)
      PROVE  CatalogTyped'
  <2>1. UNCHANGED <<catalog, byHand, disturbed>>
    BY <1>2 DEF CallNext, Validate, RecordOperations, PlanAnnotations, PlanAccess, ValidateAccess, ExecuteFails,
       LogEntries, Check, Crash, ghosts
  <2>2. recorded' \in {recorded, recorded \cup {c}}
    BY <1>2 DEF CallNext, Validate, RecordOperations, PlanAnnotations, PlanAccess, ValidateAccess, ExecuteFails,
       LogEntries, Check, Crash, progress
  <2> QED
    BY <2>1, <2>2 DEF CatalogTyped, catalog
<1>3. CASE ByHand
  <2>1. grants' \subseteq Grants
    BY <1>3 DEF ByHand, CatalogTyped
  <2>2. byHand' \in 0 .. MaxByHand /\ disturbed' \subseteq Calls
    BY <1>3, BoundAssumption DEF ByHand, CatalogTyped
  <2> QED
    BY <1>3, <2>1, <2>2 DEF ByHand, CatalogTyped, progress
<1>4. CASE Finished \/ UNCHANGED vars
  BY <1>4 DEF Finished, vars, catalog, progress, ghosts, CatalogTyped
<1> QED
  BY <1>1, <1>2, <1>3, <1>4 DEF Next

\* The conjunction that holds whatever the contracts say.
Inv == Typed /\ CatalogTyped /\ PlaceInv /\ PlanInv /\ LogInv /\ AuditInv

\* It does.
LEMMA InvAlways == Spec => []Inv
<1>1. Init => Inv
  <2>1. Init => PlaceInv
    BY DEF Init, PlaceInv
  <2> QED
    BY <2>1, TypedInit, CatalogInit, PlanInit, LogInit, AuditInit DEF Inv
<1>2. Inv /\ [Next]_vars => Inv'
  BY TypedStep, CatalogStep, PlaceInvStep, PlanStep, LogStep, AuditStep DEF Inv
<1> QED
  BY <1>1, <1>2, PTL DEF Spec

\* The rows say of each statement what has become of it.
LEMMA AuditFromInv == Inv => AuditIsTruthful
<1> SUFFICES ASSUME Inv, NEW c \in Calls
             PROVE  /\ \A i \in DOMAIN audit[c] :
                          /\ audit[c][i].status = "APPLIED" <=> i \in executed[c]
                          /\ audit[c][i].step.type = "revoke" => audit[c][i].granted \/ i \notin executed[c]
                    /\ pc[c] \in {"returned", "raised"} => executed[c] \subseteq DOMAIN audit[c]
  BY DEF AuditIsTruthful
<1> USE DEF Inv
<1>1. Accepted(c) /\ Audited(c) /\ (Idle(c) \/ Planned(c))
  BY DEF LogInv, AuditInv, PlanInv
<1>2. Len(entries[c]) \in Nat /\ DOMAIN entries[c] = 1 .. Len(entries[c])
  BY DEF Typed
<1>3. PICK n \in 0 .. Len(entries[c]) : audit[c] = [i \in 1 .. n |-> Row(c, i)]
  BY <1>1 DEF Audited, Logged
<1>4. ASSUME NEW i \in DOMAIN audit[c]
      PROVE  /\ audit[c][i].status = "APPLIED" <=> i \in executed[c]
             /\ audit[c][i].step.type = "revoke" => audit[c][i].granted \/ i \notin executed[c]
  <2>1. i \in 1 .. n /\ audit[c][i] = Row(c, i) /\ i \in DOMAIN entries[c]
    BY <1>2, <1>3
  <2>2. audit[c][i].status = entries[c][i] /\ audit[c][i].step = steps[c][i]
    BY <2>1 DEF Row
  <2>3. audit[c][i].status = "APPLIED" <=> i \in executed[c]
    BY <1>1, <2>1, <2>2 DEF Accepted
  <2>4. ASSUME steps[c][i].type = "revoke", i \in executed[c]
        PROVE  audit[c][i].granted
    <3>1. Planned(c)
      BY <1>1, <2>1 DEF Idle
    <3>2. steps[c][i] \in Statements(request[c], drift[c])
      <4>1. i \in 1 .. Len(steps[c])
        BY <1>2, <2>1, <3>1 DEF Planned
      <4> QED
        BY <3>1, <4>1 DEF Planned
    <3>3. steps[c][i].object \in drift[c].current
      BY <2>4, <3>1, <3>2, StatementsAreTyped DEF Planned
    <3> QED
      BY <2>1, <2>2, <2>3, <2>4, <3>3 DEF Row
  <2> QED
    BY <2>2, <2>3, <2>4
<1>5. ASSUME pc[c] \in {"returned", "raised"}
      PROVE  executed[c] \subseteq DOMAIN audit[c]
  <2>1. audit[c] = [i \in 1 .. Len(entries[c]) |-> Row(c, i)]
    BY <1>1, <1>5 DEF Audited, Logged
  <2> QED
    BY <1>1, <1>2, <2>1 DEF Accepted
<1> QED
  BY <1>4, <1>5

(***************************************************************************)
(* The audit tables can be believed, whatever the contracts, the faults    *)
(* and the interleaving of the calls: a row says APPLIED exactly for a     *)
(* statement the catalog accepted, a revocation only of a grant the call   *)
(* had seen, and a call that has returned or raised has a row for every    *)
(* statement it got accepted (apply_annotations_contract and               *)
(* apply_access_contract log before an exception leaves them).             *)
(***************************************************************************)
THEOREM AuditIsBelievable == Spec => []AuditIsTruthful
BY InvAlways, AuditFromInv, PTL

\* A change of the grants other than by hand is an Execute of a planned call.
LEMMA GrantsChangeAsAsked ==
    ASSUME Inv, [Next]_vars, grants' # grants, byHand' = byHand
    PROVE  \E c \in Calls : /\ request[c].kind = "access"
                            /\ executed'[c] # executed[c]
                            /\ Asked(c, grants, grants')
<1> USE DEF Inv
<1>1. PICK c \in Calls : Execute(c)
  <2>1. ~ByHand
    BY DEF ByHand, CatalogTyped
  <2>2. ~Finished /\ ~UNCHANGED vars
    BY DEF Finished, vars, catalog
  <2>3. ASSUME NEW c \in Calls, CallNext(c), ~Execute(c)
        PROVE  FALSE
    BY <2>3 DEF CallNext, Validate, RecordOperations, PlanAnnotations, PlanAccess, ValidateAccess, ExecuteFails,
       LogEntries, Check, Crash, catalog
  <2> QED
    BY <2>1, <2>2, <2>3 DEF Next
<1> DEFINE s == NextStep(c)
           a == request[c].access
<1>2. pc[c] = "apply" /\ Effect(s) /\ executed' = [executed EXCEPT ![c] = @ \cup {Len(entries[c]) + 1}]
  BY <1>1 DEF Execute
<1>3. executed'[c] # executed[c]
  <2>1. Len(entries[c]) + 1 \notin executed[c]
    <3>1. Len(entries[c]) \in Nat /\ DOMAIN entries[c] = 1 .. Len(entries[c])
      BY DEF Typed
    <3> QED
      BY <3>1 DEF LogInv, Accepted
  <2> QED
    BY <1>2, <2>1 DEF Typed
<1>4. s.type \in {"grant", "revoke"}
  BY <1>2 DEF Effect
<1>5. /\ OnAccess(request[c]) /\ Confirmed(request[c], drift[c]) /\ Planned(c)
      /\ \/ s.type = "grant" /\ s.object \in Declared(a)
         \/ /\ s.type = "revoke" /\ a.revoke
            /\ s.object \in drift[c].current \ Declared(a)
  BY <1>2, <1>4, NextIsStatement, StatementsAreTyped
<1>6. request[c].kind = "access" /\ a.mode = "apply"
  BY <1>2, <1>5 DEF Planned, OnAccess
<1>7. \/ s.type = "grant" /\ grants' = grants \cup {s.object}
      \/ s.type = "revoke" /\ grants' = grants \ {s.object}
  BY <1>2, <1>4 DEF Effect
<1> HIDE DEF s
<1>8. Asked(c, grants, grants')
  BY <1>5, <1>6, <1>7 DEF Asked, Confirmed
<1> QED
  BY <1>3, <1>6, <1>8

(***************************************************************************)
(* The grants change as some contract asks: only a call of                 *)
(* apply_access_bundle in mode apply changes them, it adds what is         *)
(* declared, takes away what the report saw and nobody declares, only      *)
(* under revoke_unmanaged and --force-revoke, and under on_drift = fail    *)
(* only when the report found the table in sync.                           *)
(***************************************************************************)
THEOREM GrantsAreAskedFor == Spec => OnlyAskedFor
<1>1. Inv /\ [Next]_vars => [grants' # grants /\ byHand' = byHand
        => \E c \in Calls : /\ request[c].kind = "access"
                            /\ executed'[c] # executed[c]
                            /\ Asked(c, grants, grants')]_vars
  BY GrantsChangeAsAsked
<1> QED
  BY <1>1, InvAlways, PTL DEF Spec, OnlyAskedFor

(***************************************************************************)
(* The variables have their types: the catalog holds the grants, words     *)
(* and tags that contracts and administrators can put there, and no call   *)
(* has more rows than entries or more entries than steps.                  *)
(***************************************************************************)
THEOREM GovernanceTypeCorrect == Spec => []TypeOK
<1>1. Inv => TypeOK
  <2> SUFFICES ASSUME Inv
               PROVE  TypeOK
    OBVIOUS
  <2>1. Typed /\ CatalogTyped
    BY DEF Inv
  <2>2. \A c \in Calls : drift[c].current \subseteq Grants
    BY <2>1 DEF Typed, Drifts
  <2>3. ASSUME NEW c \in Calls
        PROVE  Len(audit[c]) <= Len(entries[c]) /\ Len(entries[c]) <= Len(steps[c])
    <3>1. Len(entries[c]) \in Nat /\ Audited(c) /\ (Idle(c) \/ Planned(c))
      BY DEF Inv, Typed, AuditInv, PlanInv
    <3>2. PICK n \in 0 .. Len(entries[c]) : audit[c] = [i \in 1 .. n |-> Row(c, i)]
      BY <3>1 DEF Audited, Logged
    <3>3. Len(audit[c]) = n
      BY <3>1, <3>2
    <3>4. Len(entries[c]) <= Len(steps[c])
      BY <3>1 DEF Idle, Planned
    <3> QED
      BY <3>1, <3>2, <3>3, <3>4
  <2> QED
    BY <2>1, <2>2, <2>3 DEF TypeOK, Typed, CatalogTyped
<1> QED
  BY <1>1, InvAlways, PTL
-----------------------------------------------------------------------------
(***************************************************************************)
(* What a call has brought about stands.  A table has one row filter and a *)
(* column one mask, ALTER TABLE replaces the one before: the contracts do  *)
(* not ask for two.                                                        *)
(***************************************************************************)

Coherent ==
    \A s \in Schedules : \A c \in Calls : s[c].access # Unset =>
        /\ \A f, g \in Range(s[c].access.filters) : f.function = g.function
        /\ \A m, n \in Range(s[c].access.masks) : m.column = n.column => m.function = n.function

\* The contracts of the calls are coherent.
LEMMA CoherentContracts ==
    ASSUME Typed, Coherent, NEW c \in Calls, request[c].access # Unset
    PROVE  /\ \A f, g \in Range(request[c].access.filters) : f.function = g.function
           /\ \A m, n \in Range(request[c].access.masks) : m.column = n.column => m.function = n.function
BY DEF Typed, Coherent

\* A statement that has been accepted is in force.
LEMMA EffectHolds ==
    ASSUME Typed, CatalogTyped, NEW c \in Calls, Planned(c), NEW s \in Statements(request[c], drift[c]), Effect(s)
    PROVE  Holds(s)'
<1>1. \/ s.type \in {"grant", "revoke", "row_filter"}
      \/ s.type = "mask" /\ s.object \in Columns
      \/ s.type \in {"comment", "tags"} /\ s.object \in Objects
  BY StatementsAreTyped DEF Planned
<1>2. CASE s.type \in {"grant", "revoke", "row_filter"}
  BY <1>2 DEF Effect, Holds
<1>3. CASE s.type = "mask" /\ s.object \in Columns
  BY <1>3 DEF Effect, Holds, CatalogTyped
<1>4. CASE s.type = "comment" /\ s.object \in Objects
  BY <1>4 DEF Effect, Holds, CatalogTyped
<1>5. CASE s.type = "tags" /\ s.object \in Objects
  <2>1. tags'[s.object] = Overlay(tags[s.object], s.value)
    BY <1>5 DEF Effect, CatalogTyped
  <2>2. \A k \in DOMAIN s.value : k \in DOMAIN tags'[s.object] /\ tags'[s.object][k] = s.value[k]
    BY <2>1 DEF Overlay
  <2> QED
    BY <1>5, <2>2 DEF Holds
<1> QED
  BY <1>1, <1>2, <1>3, <1>4, <1>5

\* No statement to the same contract undoes another.
LEMMA EffectKeeps ==
    ASSUME Typed, CatalogTyped, Coherent, NEW c \in Calls, NEW d \in Calls, Planned(c), Planned(d),
           Contract(request[c]) = Contract(request[d]),
           NEW s \in Statements(request[c], drift[c]), NEW t \in Statements(request[d], drift[d]),
           Effect(t), Holds(s)
    PROVE  Holds(s)'
<1> DEFINE a == request[c].access
           b == request[c].annotations
<1>1. \/ /\ OnAccess(request[c])
         /\ \/ s.type = "grant" /\ s.object \in Declared(a)
            \/ s.type = "revoke" /\ s.object \notin Declared(a)
            \/ s.type = "row_filter" /\ \E f \in Range(a.filters) : s.value = f.function
            \/ s.type = "mask" /\ s.object \in Columns
               /\ \E m \in Range(a.masks) : s.object = m.column /\ s.value = m.function
      \/ /\ ~OnAccess(request[c]) /\ s.object \in Objects
         /\ \/ s.type = "comment" /\ s.value = About(b, s.object).description
            \/ s.type = "tags" /\ s.value = AllTags(About(b, s.object))
  BY StatementsAreTyped DEF Planned
<1>2. \/ /\ OnAccess(request[d])
         /\ \/ t.type = "grant" /\ t.object \in Declared(request[d].access)
            \/ t.type = "revoke" /\ t.object \notin Declared(request[d].access)
            \/ t.type = "row_filter" /\ \E f \in Range(request[d].access.filters) : t.value = f.function
            \/ t.type = "mask" /\ t.object \in Columns
               /\ \E m \in Range(request[d].access.masks) : t.object = m.column /\ t.value = m.function
      \/ /\ ~OnAccess(request[d]) /\ t.object \in Objects
         /\ \/ t.type = "comment" /\ t.value = About(request[d].annotations, t.object).description
            \/ t.type = "tags" /\ t.value = AllTags(About(request[d].annotations, t.object))
  BY StatementsAreTyped DEF Planned
<1>3. CASE OnAccess(request[c]) /\ OnAccess(request[d])
  <2>1. request[d].access = a /\ a # Unset
    BY <1>3 DEF Contract, Planned
  <2>2. /\ \A f, g \in Range(a.filters) : f.function = g.function
        /\ \A m, n \in Range(a.masks) : m.column = n.column => m.function = n.function
    BY <2>1, CoherentContracts
  <2> HIDE DEF a
  <2>3. CASE s.type \in {"grant", "revoke"}
    BY <1>1, <1>2, <1>3, <2>1, <2>3 DEF Effect, Holds
  <2>4. CASE s.type = "row_filter"
    <3>1. t.type = "row_filter" => t.value = s.value
      BY <1>1, <1>2, <1>3, <2>1, <2>2, <2>4
    <3> QED
      BY <2>4, <3>1 DEF Effect, Holds
  <2>5. CASE s.type = "mask"
    <3>1. t.type = "mask" /\ t.object = s.object => t.value = s.value
      BY <1>1, <1>2, <1>3, <2>1, <2>2, <2>5
    <3>2. t.type = "mask" => t.object \in Columns
      BY <1>2
    <3> QED
      BY <1>1, <1>3, <2>5, <3>1, <3>2 DEF Effect, Holds, CatalogTyped
  <2> QED
    BY <1>1, <1>3, <2>3, <2>4, <2>5
<1>4. CASE ~OnAccess(request[c]) /\ ~OnAccess(request[d])
  <2>1. request[d].annotations = b
    BY <1>4 DEF Contract
  <2> HIDE DEF b
  <2>2. s.type = t.type /\ s.object = t.object => s.value = t.value
    BY <1>1, <1>2, <1>4, <2>1
  <2>3. CASE s.type = "comment"
    BY <1>1, <1>2, <1>4, <2>2, <2>3 DEF Effect, Holds, CatalogTyped
  <2>4. CASE s.type = "tags"
    <3>1. CASE t.type = "tags" /\ t.object = s.object
      <4>1. tags'[s.object] = Overlay(tags[s.object], s.value)
        BY <3>1, <1>1, <1>4, <2>2, <2>4 DEF Effect, CatalogTyped
      <4>2. \A k \in DOMAIN s.value : k \in DOMAIN tags'[s.object] /\ tags'[s.object][k] = s.value[k]
        BY <4>1 DEF Overlay
      <4> QED
        BY <2>4, <4>2 DEF Holds
    <3>2. CASE ~ (t.type = "tags" /\ t.object = s.object)
      <4>1. tags'[s.object] = tags[s.object]
        BY <3>2, <1>1, <1>2, <1>4, <2>4 DEF Effect, CatalogTyped
      <4> QED
        BY <2>4, <4>1 DEF Holds
    <3> QED
      BY <3>1, <3>2
  <2> QED
    BY <1>1, <1>4, <2>3, <2>4
<1>5. CASE OnAccess(request[c]) /\ ~OnAccess(request[d])
  <2>1. UNCHANGED <<grants, rowFilter, masks>>
    BY <1>2, <1>5 DEF Effect
  <2> QED
    BY <1>1, <1>5, <2>1 DEF Holds
<1>6. CASE ~OnAccess(request[c]) /\ OnAccess(request[d])
  <2>1. UNCHANGED <<comments, tags>>
    BY <1>2, <1>6 DEF Effect
  <2> QED
    BY <1>1, <1>6, <2>1 DEF Holds
<1> QED
  BY <1>3, <1>4, <1>5, <1>6

\* Such a call has a plan.
LEMMA UndisturbedIsPlanned ==
    ASSUME PlanInv, NEW c \in Calls, Undisturbed(c)
    PROVE  Planned(c)
BY DEF PlanInv, Undisturbed, Succeeding, Idle

\* What the other calls, and calls that do not send a statement, leave alone.
LEMMA StandingKept ==
    ASSUME NEW d \in Calls, Own(d)' = Own(d), disturbed \subseteq disturbed', UNCHANGED catalog
    PROVE  (Standing(d) => Standing(d)') /\ (Revoking(d) => Revoking(d)')
<1>1. Undisturbed(d)' => Undisturbed(d)
  BY DEF Own, Undisturbed, Succeeding
<1>2. \A s : Holds(s)' <=> Holds(s)
  BY DEF catalog, Holds
<1>3. ToRevoke(d)' = ToRevoke(d)
  BY DEF Own, ToRevoke
<1> QED
  BY <1>1, <1>2, <1>3 DEF Own, Standing, Revoking, catalog

\* A call that plans: it has sent nothing, and knows what is to be revoked.
LEMMA StandingPlanned ==
    ASSUME Typed, CatalogTyped, PlaceInv, PlanInv, PlanInv', NEW c \in Calls, PlanAnnotations(c) \/ PlanAccess(c)
    PROVE  Standing(c)' /\ Revoking(c)'
<1>0. Idle(c) /\ UNCHANGED <<catalog, request, disturbed>>
  BY DEF PlanInv, Planned, Calm, PlanAnnotations, PlanAccess, ghosts
<1>1. SUFFICES ASSUME Undisturbed(c)'
               PROVE  /\ entries'[c] = <<>>
                      /\ OnAccess(request[c]) /\ request[c].access.revoke
                         => grants \ Declared(request[c].access) \subseteq ToRevoke(c)'
  <2>1. entries'[c] = <<>> => DOMAIN entries'[c] = {}
    OBVIOUS
  <2> QED
    BY <1>0, <2>1 DEF Standing, Revoking, catalog
<1>2. result'[c] = "SUCCESS" /\ drift'[c].status # "FAILED"
  BY <1>1 DEF Undisturbed, Succeeding
<1>3. \E ss : Send(c, ss)
  BY <1>0, <1>2 DEF PlanAnnotations, PlanAccess, Skip, Idle, Typed
<1>4. entries'[c] = <<>>
  BY <1>0, <1>3 DEF Send, Idle
<1>5. ASSUME OnAccess(request[c]), request[c].access.revoke
      PROVE  grants \ Declared(request[c].access) \subseteq ToRevoke(c)'
  <2> DEFINE a == request[c].access
  <2>1. PlanAccess(c)
    BY <1>5 DEF PlaceInv, PlanAnnotations
  <2>2. PICK d \in Reports(a) : drift' = [drift EXCEPT ![c] = d] /\ a # Unset
    BY <1>0, <1>2, <2>1 DEF PlanAccess, Idle
  <2>3. drift'[c] = d
    BY <2>2 DEF Typed
  <2>4. d = DriftReport(a)
    BY <1>2, <1>5, <2>2, <2>3, ReportsAreTyped
  <2>5. d.unmanaged = grants \ Declared(a)
    BY <2>4 DEF DriftReport
  <2>6. Planned(c)'
    BY <1>1 DEF PlanInv, Undisturbed, Succeeding, Idle
  <2>7. Range(steps'[c]) = Statements(request[c], d)
    BY <1>0, <2>3, <2>6 DEF Planned
  <2>8. Revoked(d.unmanaged) \subseteq Statements(request[c], d)
    BY <1>2, <1>5, <2>3 DEF Statements
  <2>9. ASSUME NEW g \in grants \ Declared(a)
        PROVE  g \in ToRevoke(c)'
    <3>1. Step("revoke", g, Unset) \in Range(steps'[c])
      BY <2>5, <2>7, <2>8 DEF Revoked
    <3>2. PICK j \in DOMAIN steps'[c] : steps'[c][j] = Step("revoke", g, Unset)
      BY <3>1 DEF Range
    <3>3. steps'[c][j].type = "revoke" /\ steps'[c][j].object = g
      BY <3>2 DEF Step
    <3>4. Len(entries'[c]) = 0 /\ j > 0
      <4>1. steps'[c] \in Seq(Statements(request'[c], drift'[c]))
        BY <2>6 DEF Planned
      <4> QED
        BY <1>4, <3>2, <4>1
    <3> QED
      BY <3>2, <3>3, <3>4 DEF ToRevoke
  <2> QED
    BY <2>9
<1> QED
  BY <1>4, <1>5

\* A statement of the call itself: one more is in force, one fewer to be revoked.
LEMMA StandingExecuted ==
    ASSUME Typed, CatalogTyped, PlaceInv, PlanInv, Coherent, NEW c \in Calls, Execute(c), Standing(c), Revoking(c)
    PROVE  Standing(c)' /\ Revoking(c)'
<1> DEFINE s == NextStep(c)
           n == Len(entries[c])
<1>0. pc[c] = "apply" /\ Effect(s) /\ UNCHANGED <<request, drift, steps, result>> /\ disturbed \subseteq disturbed'
  BY DEF Execute, Disturb
<1>1. Planned(c) /\ s \in Statements(request[c], drift[c]) /\ n + 1 \in DOMAIN steps[c] /\ n \in Nat
      /\ DOMAIN entries[c] = 1 .. n
  BY <1>0, NextIsStatement DEF Typed
<1>2. entries'[c] = Append(entries[c], "APPLIED") /\ DOMAIN entries'[c] = 1 .. n + 1 /\ Len(entries'[c]) = n + 1
  BY Appended DEF Execute, Advance, Typed, EntryStatuses
<1>3. SUFFICES ASSUME Undisturbed(c)'
               PROVE  /\ \A i \in 1 .. n + 1 : Holds(steps[c][i])'
                      /\ OnAccess(request[c]) /\ request[c].access.revoke
                         => grants' \ Declared(request[c].access) \subseteq ToRevoke(c)'
  BY <1>0, <1>2 DEF Standing, Revoking
<1>4. Undisturbed(c)
  BY <1>0, <1>3 DEF Undisturbed, Succeeding
<1>5. ASSUME NEW i \in 1 .. n + 1
      PROVE  Holds(steps[c][i])'
  <2>1. steps[c][i] \in Statements(request[c], drift[c])
    <3>1. i \in 1 .. Len(steps[c])
      BY <1>1 DEF Planned
    <3> QED
      BY <1>1, <3>1 DEF Planned
  <2>2. CASE i = n + 1
    <3>1. steps[c][i] = s
      BY <2>2 DEF NextStep
    <3> QED
      BY <1>0, <1>1, <3>1, EffectHolds
  <2>3. CASE i \in 1 .. n
    <3>1. Holds(steps[c][i])
      BY <1>1, <1>4, <2>3 DEF Standing
    <3> HIDE DEF s
    <3> QED
      BY <1>0, <1>1, <2>1, <3>1, EffectKeeps
  <2> QED
    BY <1>1, <2>2, <2>3
<1>6. ASSUME OnAccess(request[c]), request[c].access.revoke, NEW g \in grants' \ Declared(request[c].access)
      PROVE  g \in ToRevoke(c)'
  <2>1. s.type = "grant" => s.object \in Declared(request[c].access)
    BY <1>1, <1>6, StatementsAreTyped DEF Planned
  <2>2. g \in grants /\ ~ (s.type = "revoke" /\ s.object = g)
    BY <1>0, <1>6, <2>1 DEF Effect
  <2>3. g \in ToRevoke(c)
    BY <1>4, <1>6, <2>2 DEF Revoking
  <2>4. PICK j \in DOMAIN steps[c] : j > n /\ steps[c][j].type = "revoke" /\ steps[c][j].object = g
    BY <2>3 DEF ToRevoke
  <2>5. j # n + 1
    BY <2>2, <2>4 DEF NextStep
  <2>6. j > n + 1
    <3>1. j \in Nat
      BY <1>1 DEF Planned
    <3> QED
      BY <1>1, <2>4, <2>5, <3>1
  <2> QED
    BY <1>0, <1>2, <2>4, <2>6 DEF ToRevoke
<1> QED
  BY <1>5, <1>6

\* A statement of one call and what another one has brought about.
LEMMA StandingBeside ==
    ASSUME Typed, CatalogTyped, PlaceInv, PlanInv, Coherent, NEW c \in Calls, Execute(c),
           NEW d \in Calls \ {c}, Standing(d), Revoking(d)
    PROVE  Standing(d)' /\ Revoking(d)'
<1> DEFINE s == NextStep(c)
<1>0. pc[c] = "apply" /\ Effect(s) /\ disturbed \subseteq disturbed' /\ Disturb(c, Contract(request[c]))
  BY DEF Execute, Disturb
<1>1. Own(d)' = Own(d)
  BY OthersKept DEF CallNext
<1>2. CASE UNCHANGED catalog
  BY <1>0, <1>1, <1>2, StandingKept
<1>3. CASE ~ (UNCHANGED catalog)
  <2>1. SUFFICES ASSUME Undisturbed(d)'
                 PROVE  /\ \A i \in DOMAIN entries[d] : Holds(steps[d][i])'
                        /\ OnAccess(request[d]) /\ request[d].access.revoke
                           => grants' \ Declared(request[d].access) \subseteq ToRevoke(d)
    <3>1. ToRevoke(d)' = ToRevoke(d)
      BY <1>1 DEF Own, ToRevoke
    <3> QED
      BY <1>1, <3>1 DEF Own, Standing, Revoking
  <2>2. Undisturbed(d)
    BY <1>0, <1>1, <2>1 DEF Own, Undisturbed, Succeeding
  <2>3. Planned(d)
    BY <2>2, UndisturbedIsPlanned
  <2>4. Contract(request[c]) = Contract(request[d])
    <3>1. Started(d)
      BY <2>3 DEF Planned, Calm, Started
    <3>2. d \notin disturbed'
      BY <2>1 DEF Undisturbed
    <3> QED
      BY <1>0, <1>3, <3>1, <3>2 DEF Disturb
  <2>5. Planned(c) /\ s \in Statements(request[c], drift[c])
    BY <1>0, NextIsStatement
  <2>6. ASSUME NEW i \in DOMAIN entries[d]
        PROVE  Holds(steps[d][i])'
    <3>1. steps[d][i] \in Statements(request[d], drift[d])
      <4>1. DOMAIN entries[d] = 1 .. Len(entries[d]) /\ Len(entries[d]) \in Nat
        BY DEF Typed
      <4>2. i \in 1 .. Len(steps[d])
        BY <2>3, <4>1 DEF Planned
      <4> QED
        BY <2>3, <4>2 DEF Planned
    <3>2. Holds(steps[d][i])
      BY <2>2 DEF Standing
    <3>3. steps'[d] = steps[d]
      BY <1>1 DEF Own
    <3> HIDE DEF s
    <3> QED
      BY <1>0, <2>3, <2>4, <2>5, <3>1, <3>2, <3>3, EffectKeeps
  <2>7. ASSUME OnAccess(request[d]), request[d].access.revoke
        PROVE  grants' \ Declared(request[d].access) \subseteq ToRevoke(d)
    <3>1. grants \ Declared(request[d].access) \subseteq ToRevoke(d)
      BY <2>2, <2>7 DEF Revoking
    <3>2. s.type = "grant" => OnAccess(request[c]) /\ s.object \in Declared(request[c].access)
      BY <2>5, StatementsAreTyped DEF Planned
    <3>3. s.type = "grant" => s.object \in Declared(request[d].access)
      BY <2>4, <2>7, <3>2 DEF Contract
    <3> QED
      BY <1>0, <3>1, <3>3 DEF Effect
  <2> QED
    BY <2>6, <2>7
<1> QED
  BY <1>2, <1>3

\* StandInv and RevokeInv are inductive.
LEMMA StandStep ==
    ASSUME Inv, Inv', Coherent, StandInv, RevokeInv, [Next]_vars
    PROVE  StandInv' /\ RevokeInv'
<1> USE DEF Inv
<1>0. \A d \in Calls : Standing(d) /\ Revoking(d)
  BY DEF StandInv, RevokeInv
<1>1. ASSUME NEW c \in Calls, CallNext(c), NEW d \in Calls \ {c}
      PROVE  Standing(d)' /\ Revoking(d)'
  <2>1. CASE Execute(c)
    BY <1>0, <1>1, <2>1, StandingBeside
  <2>2. CASE ~Execute(c)
    <3>1. UNCHANGED <<catalog, disturbed>>
      BY <1>1, <2>2 DEF CallNext, Validate, RecordOperations, PlanAnnotations, PlanAccess, ValidateAccess, ExecuteFails,
         LogEntries, Check, Crash, ghosts
    <3>2. Own(d)' = Own(d)
      BY <1>1, OthersKept
    <3> QED
      BY <1>0, <3>1, <3>2, StandingKept
  <2> QED
    BY <2>1, <2>2
<1>2. ASSUME NEW c \in Calls, CallNext(c)
      PROVE  Standing(c)' /\ Revoking(c)'
  <2>1. CASE Execute(c)
    BY <1>0, <2>1, StandingExecuted
  <2>2. CASE PlanAnnotations(c) \/ PlanAccess(c)
    BY <2>2, StandingPlanned
  <2>3. CASE LogEntries(c) \/ Check(c)
    <3>1. UNCHANGED <<catalog, request, drift, steps, entries, result, disturbed>>
      BY <2>3 DEF LogEntries, Check, ghosts
    <3>2. pc'[c] \in {"apply", "log", "check", "returned"} => pc[c] \in {"apply", "log", "check", "returned"}
      BY <2>3 DEF LogEntries, Check, Goto, Typed
    <3>3. Undisturbed(c)' => Undisturbed(c)
      BY <3>1, <3>2 DEF Undisturbed, Succeeding
    <3>4. ToRevoke(c)' = ToRevoke(c) /\ \A s : Holds(s)' <=> Holds(s)
      BY <3>1 DEF ToRevoke, Holds, catalog
    <3> QED
      BY <1>0, <3>1, <3>3, <3>4 DEF Standing, Revoking, catalog
  <2>4. CASE Validate(c) \/ RecordOperations(c) \/ ValidateAccess(c) \/ ExecuteFails(c) \/ Crash(c)
    <3>1. Idle(c) \/ Planned(c)
      BY DEF PlanInv
    <3>2. ~Undisturbed(c)'
      <4>1. CASE Validate(c) \/ RecordOperations(c) \/ ValidateAccess(c)
        <5>1. result' = result /\ result[c] = "NOT_CONFIGURED"
          BY <3>1, <4>1 DEF Validate, RecordOperations, ValidateAccess, progress, Idle, Planned, Calm
        <5> QED
          BY <5>1 DEF Undisturbed, Succeeding
      <4>2. CASE ExecuteFails(c)
        <5>1. result'[c] = "WARNED" \/ pc'[c] = "log_raise"
          BY <4>2 DEF ExecuteFails, Warn, FailFast, Goto, Typed
        <5> QED
          BY <5>1 DEF Undisturbed, Succeeding
      <4>3. CASE Crash(c)
        BY <4>3 DEF Crash, Goto, Typed, Undisturbed, Succeeding
      <4> QED
        BY <2>4, <4>1, <4>2, <4>3
    <3> QED
      BY <3>2 DEF Standing, Revoking
  <2> QED
    BY <1>2, <2>1, <2>2, <2>3, <2>4 DEF CallNext
<1>3. ASSUME ByHand, NEW d \in Calls
      PROVE  Standing(d)' /\ Revoking(d)'
  <2>1. ~Undisturbed(d)'
    BY <1>3 DEF ByHand, Undisturbed, Succeeding, Started, progress
  <2> QED
    BY <2>1 DEF Standing, Revoking
<1>4. ASSUME Finished \/ UNCHANGED vars, NEW d \in Calls
      PROVE  Standing(d)' /\ Revoking(d)'
  <2>1. Own(d)' = Own(d) /\ UNCHANGED <<catalog, disturbed>>
    BY <1>4 DEF Finished, vars, progress, ghosts, Own
  <2> QED
    BY <1>0, <2>1, StandingKept
<1> QED
  BY <1>1, <1>2, <1>3, <1>4 DEF Next, StandInv, RevokeInv

\* All the statements of a call are through.
LEMMA AllInForce ==
    ASSUME Inv, StandInv, RevokeInv, NEW c \in Calls, Undisturbed(c), pc[c] \in {"check", "returned"}
    PROVE  InForce(request[c])
<1> USE DEF Inv
<1> DEFINE q == request[c]
           d == drift[c]
<1>1. Planned(c)
  BY UndisturbedIsPlanned
<1>2. DOMAIN steps[c] = 1 .. Len(steps[c]) /\ DOMAIN entries[c] = DOMAIN steps[c] /\ Len(entries[c]) = Len(steps[c])
  BY <1>1 DEF Planned, Typed
<1>3. ASSUME NEW s \in Statements(q, d)
      PROVE  Holds(s)
  <2>1. PICK i \in DOMAIN steps[c] : steps[c][i] = s
    BY <1>1 DEF Planned, Range
  <2> QED
    BY <1>2, <2>1 DEF StandInv, Standing
<1>4. CASE OnAccess(q)
  <2> DEFINE a == q.access
  <2>0. Granted(a) \cup Filtered(a) \cup Masking(a) \subseteq Statements(q, d)
    BY <1>4 DEF Statements
  <2>1. Declared(a) \subseteq grants
    <3>1. \A g \in Declared(a) : Holds(Step("grant", g, Unset))
      BY <1>3, <2>0 DEF Granted
    <3> QED
      BY <3>1 DEF Holds, Step
  <2>2. \A f \in Range(a.filters) : rowFilter = f.function
    <3>1. \A f \in Range(a.filters) : Holds(Step("row_filter", Table, f.function))
      BY <1>3, <2>0 DEF Filtered
    <3> QED
      BY <3>1 DEF Holds, Step
  <2>3. \A m \in Range(a.masks) : masks[m.column] = m.function
    <3>1. \A m \in Range(a.masks) : Holds(Step("mask", m.column, m.function))
      BY <1>3, <2>0 DEF Masking
    <3> QED
      BY <3>1 DEF Holds, Step
  <2>4. ASSUME a.revoke
        PROVE  grants \subseteq Declared(a)
    <3>1. ToRevoke(c) = {}
      <4>1. Len(steps[c]) \in Nat
        BY <1>1 DEF Planned
      <4> QED
        BY <1>2, <4>1 DEF ToRevoke
    <3> QED
      BY <1>4, <2>4, <3>1 DEF RevokeInv, Revoking
  <2> QED
    BY <1>4, <2>1, <2>2, <2>3, <2>4 DEF InForce
<1>5. CASE ~OnAccess(q)
  <2> DEFINE b == q.annotations
  <2>1. ASSUME NEW x \in {Table} \cup DOMAIN b.columns
        PROVE  /\ About(b, x).description # Unset => comments[x] = About(b, x).description
               /\ \A k \in DOMAIN AllTags(About(b, x)) : k \in DOMAIN tags[x] /\ tags[x][k] = AllTags(About(b, x))[k]
    <3> DEFINE y == About(b, x)
    <3>1. Range(Describe(x, y)) \subseteq Statements(q, d)
      BY <1>5 DEF Statements, Annotated
    <3> HIDE DEF y
    <3>2. y.description # Unset => Holds(Step("comment", x, y.description))
      BY <1>3, <3>1, RangeOfDescribe
    <3>3. DOMAIN AllTags(y) # {} => Holds(Step("tags", x, AllTags(y)))
      BY <1>3, <3>1, RangeOfDescribe
    <3>4. y.description # Unset => comments[x] = y.description
      BY <3>2 DEF Holds, Step
    <3>5. \A k \in DOMAIN AllTags(y) : k \in DOMAIN tags[x] /\ tags[x][k] = AllTags(y)[k]
      BY <3>3 DEF Holds, Step
    <3> QED
      BY <3>4, <3>5 DEF y
  <2> QED
    BY <1>5, <2>1 DEF InForce, About
<1> QED
  BY <1>4, <1>5

\* CheckInv is inductive: at its end all is in force, so the report is IN_SYNC.
LEMMA CheckStep ==
    ASSUME Inv, Inv', StandInv, RevokeInv, CheckInv, [Next]_vars
    PROVE  CheckInv'
<1> USE DEF Inv
<1>0. \A d \in Calls : Checked(d)
  BY DEF CheckInv
<1>1. ASSUME NEW d \in Calls, Own(d)' = Own(d), disturbed \subseteq disturbed'
      PROVE  Checked(d)'
  BY <1>0, <1>1 DEF Own, Checked, Undisturbed, Succeeding
<1>2. ASSUME NEW c \in Calls, CallNext(c)
      PROVE  disturbed \subseteq disturbed' /\ Checked(c)'
  <2>0. disturbed \subseteq disturbed'
    BY <1>2 DEF CallNext, Validate, RecordOperations, PlanAnnotations, PlanAccess, ValidateAccess, Execute, ExecuteFails,
       LogEntries, Check, Crash, ghosts, Disturb
  <2>1. pc[c] # "returned"
    BY <1>2 DEF CallNext, Validate, RecordOperations, PlanAnnotations, PlanAccess, ValidateAccess, Execute, ExecuteFails,
       LogEntries, Check, Crash, Ended
  <2>2. checked[c] = "NONE"
    BY <1>0, <2>1 DEF Checked
  <2>3. CASE ~ValidateAccess(c) /\ ~Check(c)
    <3>1. checked' = checked
      BY <1>2, <2>3 DEF CallNext, Validate, RecordOperations, PlanAnnotations, PlanAccess, Execute, ExecuteFails,
         LogEntries, Crash, progress
    <3> QED
      BY <2>0, <2>2, <3>1 DEF Checked
  <2>4. CASE ValidateAccess(c)
    <3>1. pc'[c] = "returned" /\ result'[c] = "NOT_CONFIGURED"
      BY <2>4 DEF ValidateAccess, Goto, Typed, PlanInv, Idle, Planned, Calm
    <3> QED
      BY <2>0, <3>1 DEF Checked, Undisturbed, Succeeding
  <2>5. CASE Check(c)
    <3>1. PICK d \in Reports(request[c].access) :
             checked' = [checked EXCEPT ![c] = CheckStatus(request[c].access, d)]
      BY <2>5 DEF Check
    <3>2. pc'[c] = "returned" /\ pc[c] = "check" /\ UNCHANGED <<result, disturbed, drift>>
      BY <2>5 DEF Check, Goto, Typed, ghosts
    <3>3. ASSUME Undisturbed(c)'
          PROVE  checked'[c] # "WARNED" /\ (checked'[c] = "FAILED" => "read" \in Faults)
      <4>1. Undisturbed(c)
        BY <3>2, <3>3 DEF Undisturbed, Succeeding
      <4>2. OnAccess(request[c]) /\ InForce(request[c])
        BY <3>2, <4>1, AllInForce DEF PlaceInv
      <4>3. request[c].access # Unset
        BY <4>1, <4>2, UndisturbedIsPlanned DEF Planned, Contract
      <4>4. CASE d = DriftReport(request[c].access)
        <5>1. d.status = "IN_SYNC"
          BY <4>2, <4>4 DEF DriftReport, InForce
        <5>2. checked'[c] = "SUCCESS"
          BY <3>1, <5>1 DEF CheckStatus, Typed
        <5> QED
          BY <5>2
      <4>5. CASE "read" \in Faults /\ d = NoDrift("FAILED")
        <5>1. checked'[c] = "FAILED"
          BY <3>1, <4>5 DEF CheckStatus, NoDrift, Typed
        <5> QED
          BY <4>5, <5>1
      <4> QED
        BY <4>3, <4>4, <4>5 DEF Reports
    <3> QED
      BY <2>0, <3>2, <3>3 DEF Checked
  <2> QED
    BY <2>0, <2>3, <2>4, <2>5
<1>3. CASE \E c \in Calls : CallNext(c)
  <2> PICK c \in Calls : CallNext(c)
    BY <1>3
  <2>1. \A d \in Calls \ {c} : Own(d)' = Own(d)
    BY OthersKept
  <2> QED
    BY <1>1, <1>2, <2>1 DEF CheckInv
<1>4. CASE ByHand \/ Finished \/ UNCHANGED vars
  <2>1. disturbed \subseteq disturbed' /\ \A d \in Calls : Own(d)' = Own(d)
    BY <1>4, AllKept DEF ByHand, Finished, vars, progress, ghosts, Own
  <2> QED
    BY <1>1, <2>1 DEF CheckInv
<1> QED
  BY <1>3, <1>4 DEF Next

\* DecidedInv is inductive: what is skipped is not to be applied.
LEMMA DecidedStep ==
    ASSUME Typed, PlaceInv, DecidedInv, [Next]_vars
    PROVE  DecidedInv'
<1>1. ASSUME NEW d \in Calls, Own(d)' = Own(d)
      PROVE  Decided(d)'
  BY <1>1 DEF DecidedInv, Decided, Own
<1>2. ASSUME NEW c \in Calls, CallNext(c)
      PROVE  Decided(c)'
  <2>0. request' = request /\ Decided(c)
    BY <1>2 DEF DecidedInv, CallNext, Validate, RecordOperations, PlanAnnotations, PlanAccess, ValidateAccess,
       Execute, ExecuteFails, LogEntries, Check, Crash
  <2> USE DEF Goto, Typed
  <2>1. CASE Validate(c)
    BY <2>1 DEF Validate, Decided
  <2>2. CASE RecordOperations(c)
    BY <2>2 DEF RecordOperations, Decided
  <2>3. CASE PlanAnnotations(c)
    <3>1. ~OnAccess(request[c])
      BY <2>3 DEF PlanAnnotations, PlaceInv
    <3>2. ToApply(request[c]) => request[c].annotations # Unset /\ request[c].annotations.policy # "ignore"
      BY <3>1 DEF ToApply, Contract
    <3>3. ToApply(request[c]) => result'[c] = "SUCCESS"
      BY <2>3, <3>2 DEF PlanAnnotations, Send
    <3> QED
      BY <2>0, <3>3 DEF Decided
  <2>4. CASE PlanAccess(c)
    <3>1. OnAccess(request[c])
      BY <2>4 DEF PlanAccess, OnAccess
    <3>2. ToApply(request[c]) => request[c].access # Unset /\ request[c].access.mode = "apply"
      BY <3>1 DEF ToApply, Contract
    <3>3. ToApply(request[c]) => pc'[c] = "raised" \/ result'[c] = "SUCCESS"
      BY <2>4, <3>2 DEF PlanAccess, Send
    <3> QED
      BY <2>0, <3>3 DEF Decided
  <2>5. CASE ValidateAccess(c)
    BY <2>0, <2>5 DEF ValidateAccess, Decided, ToApply
  <2>6. CASE Execute(c)
    BY <2>0, <2>6 DEF Execute, Decided
  <2>7. CASE ExecuteFails(c)
    BY <2>0, <2>7 DEF ExecuteFails, Warn, Decided
  <2>8. CASE LogEntries(c)
    BY <2>0, <2>8 DEF LogEntries, Decided
  <2>9. CASE Check(c)
    BY <2>0, <2>9 DEF Check, Decided
  <2>10. CASE Crash(c)
    BY <2>10 DEF Crash, Decided
  <2> QED
    BY <1>2, <2>1, <2>2, <2>3, <2>4, <2>5, <2>6, <2>7, <2>8, <2>9, <2>10 DEF CallNext
<1>3. CASE \E c \in Calls : CallNext(c)
  <2> PICK c \in Calls : CallNext(c)
    BY <1>3
  <2>1. \A d \in Calls \ {c} : Own(d)' = Own(d)
    BY OthersKept
  <2> QED
    BY <1>1, <1>2, <2>1 DEF DecidedInv
<1>4. CASE ByHand \/ Finished \/ UNCHANGED vars
  <2>1. \A d \in Calls : Own(d)' = Own(d)
    BY <1>4, AllKept DEF ByHand, Finished, vars, progress, ghosts, Own
  <2> QED
    BY <1>1, <2>1 DEF DecidedInv
<1> QED
  BY <1>3, <1>4 DEF Next

\* A call that says SUCCESS of a contract it was to apply sent it all: none of
\* the statuses that the bundles turn into SUCCESS is left by then.
LEMMA ToldIsResult ==
    ASSUME DecidedInv, NEW c \in Calls, pc[c] = "returned", ToApply(request[c]), ToldStatus(c) = "SUCCESS"
    PROVE  result[c] = "SUCCESS"
<1>1. result[c] \in {"SUCCESS", "WARNED"}
  BY DEF DecidedInv, Decided
<1>2. CASE request[c].kind \in {"ingest", "governance"}
  BY <1>2 DEF ToldStatus
<1>3. CASE request[c].kind \notin {"ingest", "governance"}
  <2>1. ReportedStatus(c) = "SUCCESS" /\ request[c].kind # "validate_access"
    BY <1>3 DEF ToldStatus, ToApply
  <2>2. ReportedStatus(c) = IF result[c] \in {"FAILED", "WARNED"} THEN result[c] ELSE "SUCCESS"
    BY <1>3, <2>1 DEF ReportedStatus
  <2> QED
    BY <1>1, <2>1, <2>2
<1> QED
  BY <1>2, <1>3

(***************************************************************************)
(* A call to apply a contract that says SUCCESS, by the status it returns  *)
(* or, of an ingestion and apply_governance_bundle, which cannot say       *)
(* otherwise, by the status of its annotations, and that was undisturbed   *)
(* by hand or by a call to another contract, has brought the catalog to    *)
(* its contract, and the governance_check it ends with finds no drift;     *)
(* failed, crashed and repeated calls to the same contract may run         *)
(* meanwhile.  Coherent is needed: of two row filters in one contract only *)
(* the last is in force.                                                   *)
(***************************************************************************)
THEOREM SuccessIsInForce ==
    ASSUME Coherent
    PROVE  Spec => []AppliedStands
<1> DEFINE SInv == StandInv /\ RevokeInv /\ CheckInv /\ DecidedInv
<1>1. Init => SInv
  BY DEF Init, StandInv, Standing, RevokeInv, Revoking, CheckInv, Checked, DecidedInv, Decided, Undisturbed, Succeeding
<1>2. Inv /\ Inv' /\ SInv /\ [Next]_vars => SInv'
  BY StandStep, CheckStep, DecidedStep DEF Inv
<1>3. Inv /\ SInv => AppliedStands
  <2> SUFFICES ASSUME Inv, SInv, NEW c \in Calls, pc[c] = "returned", ToApply(request[c]),
                      ToldStatus(c) = "SUCCESS", c \notin disturbed, drift[c].status # "FAILED"
               PROVE  /\ InForce(request[c])
                      /\ checked[c] # "WARNED"
                      /\ checked[c] = "FAILED" => "read" \in Faults
    BY DEF AppliedStands
  <2>1. Undisturbed(c)
    BY ToldIsResult DEF Undisturbed, Succeeding
  <2> QED
    BY <2>1, AllInForce DEF CheckInv, Checked
<1> HIDE DEF SInv
<1> QED
  BY <1>1, <1>2, <1>3, InvAlways, PTL DEF Spec
=============================================================================
