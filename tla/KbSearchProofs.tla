---------------------------- MODULE KbSearchProofs ----------------------------
(***************************************************************************)
(* Theorems about the scan of SqlScanIndex, for any number of rows, any    *)
(* partition size, limit and floor.                                        *)
(***************************************************************************)
EXTENDS KbSearch, FiniteSetTheorems, FunctionTheorems, TLAPS

-----------------------------------------------------------------------------
(* Ranks: where an order puts the elements of a finite set.                *)

Rank(S, R, x) == Cardinality({y \in S : <<y, x>> \in R})

StrictOrder(S, R) ==
  /\ \A x \in S : <<x, x>> \notin R
  /\ \A x, y, z \in S : <<x, y>> \in R /\ <<y, z>> \in R => <<x, z>> \in R
  /\ \A x, y \in S : x # y => <<x, y>> \in R \/ <<y, x>> \in R

\* A strict order ranks its elements from zero, without a gap.
LEMMA Ranks ==
  ASSUME NEW S, IsFiniteSet(S), NEW R, StrictOrder(S, R)
  PROVE  /\ Cardinality(S) \in Nat
         /\ \A x \in S : Rank(S, R, x) \in 0 .. Cardinality(S) - 1
         /\ \A x, y \in S : <<x, y>> \in R <=> Rank(S, R, x) < Rank(S, R, y)
         /\ \A m \in 0 .. Cardinality(S) - 1 : \E x \in S : Rank(S, R, x) = m
<1> DEFINE n == Cardinality(S)
           below(x) == {y \in S : <<y, x>> \in R}
           f == [x \in S |-> Rank(S, R, x)]
<1>1. n \in Nat
  BY FS_CardinalityType
<1>2. ASSUME NEW x \in S
      PROVE  /\ IsFiniteSet(below(x)) /\ Rank(S, R, x) = Cardinality(below(x))
             /\ Rank(S, R, x) \in 0 .. n - 1
  <2>1. below(x) \in SUBSET (S \ {x})
    BY DEF StrictOrder
  <2>2. IsFiniteSet(S \ {x}) /\ Cardinality(S \ {x}) = n - 1
    BY FS_RemoveElement
  <2>3. /\ IsFiniteSet(below(x)) /\ Cardinality(below(x)) <= n - 1
        /\ Cardinality(below(x)) \in Nat
    <3> HIDE DEF below, n
    <3>1. IsFiniteSet(below(x)) /\ Cardinality(below(x)) <= Cardinality(S \ {x})
      BY <2>1, <2>2, FS_Subset
    <3> QED BY <2>2, <3>1, FS_CardinalityType
  <2>4. Rank(S, R, x) = Cardinality(below(x))
    BY DEF Rank
  <2> QED BY <1>1, <2>3, <2>4
<1>3. ASSUME NEW x \in S, NEW y \in S, <<x, y>> \in R
      PROVE  Rank(S, R, x) < Rank(S, R, y)
  <2>1. below(x) \in SUBSET below(y) /\ x \in below(y) /\ x \notin below(x)
    BY <1>3 DEF StrictOrder
  <2>2. /\ Cardinality(below(x)) <= Cardinality(below(y))
        /\ Cardinality(below(x)) # Cardinality(below(y))
    BY <1>2, <2>1, FS_Subset
  <2>3. /\ Rank(S, R, x) = Cardinality(below(x)) /\ Rank(S, R, x) \in 0 .. n - 1
        /\ Rank(S, R, y) = Cardinality(below(y)) /\ Rank(S, R, y) \in 0 .. n - 1
    BY <1>2
  <2> QED BY <1>1, <2>2, <2>3
<1>4. ASSUME NEW x \in S, NEW y \in S, Rank(S, R, x) < Rank(S, R, y)
      PROVE  <<x, y>> \in R
  <2>1. x # y /\ ~ (Rank(S, R, y) < Rank(S, R, x))
    <3> HIDE DEF n
    <3>1. Rank(S, R, x) \in 0 .. n - 1 /\ Rank(S, R, y) \in 0 .. n - 1
      BY <1>2
    <3> QED BY <1>1, <1>4, <3>1
  <2> QED BY <1>3, <2>1 DEF StrictOrder
<1>5. f \in Injection(S, 0 .. n - 1)
  <2>1. f \in [S -> 0 .. n - 1]
    BY <1>2
  <2>2. ASSUME NEW x \in S, NEW y \in S, f[x] = f[y]
        PROVE  x = y
    <3>1. Rank(S, R, x) = Rank(S, R, y) /\ Rank(S, R, x) \in Int /\ Rank(S, R, y) \in Int
      <4>1. Rank(S, R, x) \in 0 .. n - 1 /\ Rank(S, R, y) \in 0 .. n - 1
        BY <1>2
      <4> HIDE DEF n
      <4> QED BY <1>1, <2>2, <4>1
    <3>2. ~ (Rank(S, R, x) < Rank(S, R, y)) /\ ~ (Rank(S, R, y) < Rank(S, R, x))
      BY <3>1
    <3> QED BY <1>3, <3>2 DEF StrictOrder
  <2> HIDE DEF f
  <2> QED BY <2>1, <2>2, Fun_IsInj
<1>6. f \in Surjection(S, 0 .. n - 1)
  <2>1. IsFiniteSet(0 .. n - 1) /\ Cardinality(0 .. n - 1) = n
    BY <1>1, FS_Interval
  <2> HIDE DEF f
  <2> QED BY <1>5, <2>1, FS_Injection
<1>7. \A m \in 0 .. n - 1 : \E x \in S : Rank(S, R, x) = m
  BY <1>6 DEF Surjection
<1> QED BY <1>1, <1>2, <1>3, <1>4, <1>7

ByRank(n, R) ==
  [m \in 1 .. n |-> CHOOSE k \in 1 .. n : Rank(1 .. n, R, k) = m - 1]

\* Listing 1 .. n by rank permutes it, and lists it in the order.
LEMMA ByRankPermutes ==
  ASSUME NEW n \in Nat, NEW R, StrictOrder(1 .. n, R)
  PROVE  /\ ByRank(n, R) \in Bijection(1 .. n, 1 .. n)
         /\ \A k \in 1 .. n : ByRank(n, R)[k] \in 1 .. n
         /\ \A l, m \in 1 .. n : l < m => <<ByRank(n, R)[l], ByRank(n, R)[m]>> \in R
<1> DEFINE S == 1 .. n
           p == ByRank(n, R)
<1>1. IsFiniteSet(S) /\ Cardinality(S) = n
  BY FS_Interval
<1>2. p = [m \in S |-> CHOOSE k \in S : Rank(S, R, k) = m - 1] /\ StrictOrder(S, R)
  BY DEF ByRank
<1>3. \A m \in S : m \in Int /\ m - 1 \in 0 .. n - 1
  OBVIOUS
<1>4. \A r \in 0 .. n - 1 : r \in Int /\ r + 1 \in S /\ r + 1 - 1 = r
  OBVIOUS
<1> HIDE DEF S, p
<1>5. /\ \A x, y \in S : <<x, y>> \in R <=> Rank(S, R, x) < Rank(S, R, y)
      /\ \A m \in 0 .. n - 1 : \E x \in S : Rank(S, R, x) = m
      /\ \A x \in S : Rank(S, R, x) \in 0 .. n - 1
  BY <1>1, <1>2, Ranks
<1>6. ASSUME NEW m \in S
      PROVE  p[m] \in S /\ Rank(S, R, p[m]) = m - 1
  <2>1. \E k \in S : Rank(S, R, k) = m - 1
    BY <1>3, <1>5
  <2>2. p[m] = CHOOSE k \in S : Rank(S, R, k) = m - 1
    BY <1>2
  <2> QED BY <2>1, <2>2
<1>7. p \in Bijection(S, S)
  <2>1. p \in [S -> S]
    BY <1>2, <1>6
  <2>2. ASSUME NEW l \in S, NEW m \in S, p[l] = p[m]
        PROVE  l = m
    <3>1. l - 1 = m - 1
      BY <1>6, <2>2
    <3> QED BY <1>3, <3>1
  <2>3. ASSUME NEW x \in S
        PROVE  \E m \in S : p[m] = x
    <3> DEFINE m == Rank(S, R, x) + 1
    <3>1. Rank(S, R, x) \in 0 .. n - 1
      BY <1>5
    <3>2. m \in S /\ m - 1 = Rank(S, R, x)
      BY <1>4, <3>1
    <3>3. Rank(S, R, p[m]) = Rank(S, R, x) /\ p[m] \in S
      BY <1>6, <3>2
    <3>4. ~ (Rank(S, R, x) < Rank(S, R, x))
      BY <1>4, <3>1
    <3>5. p[m] = x
      BY <1>2, <1>5, <3>3, <3>4 DEF StrictOrder
    <3> QED BY <3>2, <3>5
  <2> QED BY <2>1, <2>2, <2>3, Fun_IsBij
<1>8. ASSUME NEW l \in S, NEW m \in S, l < m
      PROVE  <<p[l], p[m]>> \in R
  <2>1. l - 1 < m - 1
    BY <1>3, <1>8
  <2> QED BY <1>5, <1>6, <2>1
<1> QED BY <1>6, <1>7, <1>8 DEF S, p

-----------------------------------------------------------------------------
(* The `n' best of a set of rows.                                          *)

\* H holds n of E, or all of them, and none left out is better than one held.
TopOf(H, E, n) ==
  /\ H \subseteq E
  /\ Cardinality(H) = Lower(n, Cardinality(E))
  /\ \A i \in E \ H, j \in H : rows[j].score >= rows[i].score

LEMMA TopIsFinite ==
  ASSUME NEW E, IsFiniteSet(E), NEW n \in Nat, NEW H, TopOf(H, E, n)
  PROVE  /\ IsFiniteSet(H) /\ Cardinality(H) \in Nat /\ Cardinality(E) \in Nat
         /\ Cardinality(H) <= n /\ Cardinality(H) <= Cardinality(E)
         /\ Cardinality(H) = n \/ H = E
<1>1. H \in SUBSET E
  BY DEF TopOf
<1>2. IsFiniteSet(H) /\ Cardinality(H) \in Nat /\ Cardinality(E) \in Nat
  BY <1>1, FS_Subset, FS_CardinalityType
<1>3. Cardinality(H) = Lower(n, Cardinality(E))
  BY DEF TopOf
<1>4. Cardinality(H) = Cardinality(E) => H = E
  BY <1>1, FS_Subset
<1> QED BY <1>2, <1>3, <1>4 DEF Lower

\* The best of two parts, cut to the best of both, are the best of the whole:
\* what lets a scan forget.
LEMMA MergeTop ==
  ASSUME NEW n \in Nat \ {0},
         NEW E, IsFiniteSet(E), NEW F, IsFiniteSet(F), E \cap F = {},
         NEW H, TopOf(H, E, n), NEW J, TopOf(J, F, n),
         NEW T, TopOf(T, H \cup J, n),
         \A i \in E \cup F : rows[i].score \in Int
  PROVE  TopOf(T, E \cup F, n)
<1>h. /\ IsFiniteSet(H) /\ Cardinality(H) \in Nat /\ Cardinality(E) \in Nat
      /\ Cardinality(H) <= n /\ Cardinality(H) <= Cardinality(E)
      /\ Cardinality(H) = n \/ H = E
      /\ H \subseteq E
  BY TopIsFinite DEF TopOf
<1>j. /\ IsFiniteSet(J) /\ Cardinality(J) \in Nat /\ Cardinality(F) \in Nat
      /\ Cardinality(J) <= n /\ Cardinality(J) <= Cardinality(F)
      /\ Cardinality(J) = n \/ J = F
      /\ J \subseteq F
  BY TopIsFinite DEF TopOf
<1>1. /\ IsFiniteSet(H \cup J) /\ Cardinality(H \cup J) = Cardinality(H) + Cardinality(J)
      /\ IsFiniteSet(E \cup F) /\ Cardinality(E \cup F) = Cardinality(E) + Cardinality(F)
  <2>1. H \cap J = {}
    BY <1>h, <1>j
  <2>2. Cardinality(H \cap J) = 0 /\ Cardinality(E \cap F) = 0
    BY <2>1, FS_EmptySet, Zenon
  <2>3. /\ IsFiniteSet(H \cup J)
        /\ Cardinality(H \cup J) = Cardinality(H) + Cardinality(J) - Cardinality(H \cap J)
    BY <1>h, <1>j, FS_Union
  <2>4. /\ IsFiniteSet(E \cup F)
        /\ Cardinality(E \cup F) = Cardinality(E) + Cardinality(F) - Cardinality(E \cap F)
    BY FS_Union
  <2> QED BY <1>h, <1>j, <2>2, <2>3, <2>4
<1>t. /\ IsFiniteSet(T) /\ Cardinality(T) \in Nat
      /\ Cardinality(T) = n \/ T = H \cup J
      /\ T \subseteq H \cup J
      /\ Cardinality(T) = Lower(n, Cardinality(H \cup J))
      /\ \A i \in (H \cup J) \ T, k \in T : rows[k].score >= rows[i].score
  BY <1>1, TopIsFinite DEF TopOf
<1>2. Cardinality(T) = Lower(n, Cardinality(E \cup F))
  <2>1. Cardinality(H) = Lower(n, Cardinality(E)) /\ Cardinality(J) = Lower(n, Cardinality(F))
    BY DEF TopOf
  <2> QED BY <1>h, <1>j, <1>1, <1>t, <2>1 DEF Lower
<1>3. ASSUME NEW A, NEW K, TopOf(K, A, n), IsFiniteSet(A), A \subseteq E \cup F,
             K \subseteq H \cup J, NEW i \in A \ K, NEW k \in T
      PROVE  rows[k].score >= rows[i].score
  <2>1. IsFiniteSet(K) /\ Cardinality(K) = n
    BY <1>3, TopIsFinite
  <2>2. CASE K \subseteq T
    <3>1. K = T
      <4>1. Cardinality(K) <= Cardinality(T)
        BY <1>t, <2>2, FS_Subset
      <4>2. Cardinality(T) = Cardinality(K)
        <5>1. Cardinality(T) = n \/ Cardinality(T) = Cardinality(H \cup J)
          BY <1>h, <1>j, <1>1, <1>t DEF Lower
        <5>2. Cardinality(T) <= n
          BY <1>h, <1>j, <1>1, <1>t DEF Lower
        <5> QED BY <1>t, <2>1, <4>1, <5>2
      <4> QED BY <1>t, <2>2, <4>2, FS_Subset
    <3> QED BY <1>3, <3>1 DEF TopOf
  <2>3. CASE ~ (K \subseteq T)
    <3>1. PICK h \in K : h \notin T
      BY <2>3
    <3>2. rows[k].score >= rows[h].score
      BY <1>3, <1>t, <3>1
    <3>3. rows[h].score >= rows[i].score
      BY <1>3, <3>1 DEF TopOf
    <3>4. /\ rows[k].score \in Int /\ rows[h].score \in Int /\ rows[i].score \in Int
      BY <1>3, <1>h, <1>j, <1>t, <3>1
    <3> QED BY <3>2, <3>3, <3>4
  <2> QED BY <2>2, <2>3
<1>4. ASSUME NEW i \in (E \cup F) \ T, NEW k \in T
      PROVE  rows[k].score >= rows[i].score
  <2>1. CASE i \in H \cup J
    BY <1>t, <1>4, <2>1
  <2>2. CASE i \notin H \cup J /\ i \in E
    BY <1>3, <2>2
  <2>3. CASE i \notin H \cup J /\ i \in F
    BY <1>3, <2>3
  <2> QED BY <2>1, <2>2, <2>3
<1> QED BY <1>h, <1>j, <1>t, <1>2, <1>4 DEF TopOf

-----------------------------------------------------------------------------
(* list.sort, and the rows of a partition.                                 *)

\* j comes before k when b is sorted: by the key, or as they stand.
Precedes(b) ==
  {p \in (1 .. Len(b)) \X (1 .. Len(b)) :
     \/ Before(b[p[1]], b[p[2]])
     \/ p[1] < p[2] /\ ~ Before(b[p[2]], b[p[1]])}

Comparable(b) == \A k \in 1 .. Len(b) : b[k].score \in Int /\ b[k].order \in Int

LEMMA PrecedesIsStrict ==
  ASSUME NEW A, NEW b \in Seq(A), Comparable(b)
  PROVE  /\ StrictOrder(1 .. Len(b), Precedes(b))
         /\ \A j, k \in 1 .. Len(b) : <<j, k>> \in Precedes(b) => ~ Before(b[k], b[j])
<1> DEFINE n == Len(b)
<1>1. \A j, k \in 1 .. n : <<j, k>> \in Precedes(b) <=>
        Before(b[j], b[k]) \/ (j < k /\ ~ Before(b[k], b[j]))
  <2> SUFFICES ASSUME NEW j \in 1 .. n, NEW k \in 1 .. n
               PROVE  <<j, k>> \in Precedes(b) <=>
                        Before(b[j], b[k]) \/ (j < k /\ ~ Before(b[k], b[j]))
    OBVIOUS
  <2>1. <<j, k>> \in (1 .. n) \X (1 .. n) /\ <<j, k>>[1] = j /\ <<j, k>>[2] = k
    OBVIOUS
  <2> QED BY <2>1 DEF Precedes
<1>2. n \in Nat /\ \A k \in 1 .. n : k \in Int /\ b[k].score \in Int /\ b[k].order \in Int
  BY DEF Comparable
<1> HIDE DEF n
<1>3. \A j, k \in 1 .. n : ~ (Before(b[j], b[k]) /\ Before(b[k], b[j]))
  BY <1>2 DEF Before
<1>4. \A k \in 1 .. n : <<k, k>> \notin Precedes(b)
  BY <1>1, <1>2, <1>3
<1>5. ASSUME NEW i \in 1 .. n, NEW j \in 1 .. n, NEW k \in 1 .. n,
             <<i, j>> \in Precedes(b), <<j, k>> \in Precedes(b)
      PROVE  <<i, k>> \in Precedes(b)
  <2>1. /\ Before(b[i], b[j]) \/ (i < j /\ ~ Before(b[j], b[i]))
        /\ Before(b[j], b[k]) \/ (j < k /\ ~ Before(b[k], b[j]))
    BY <1>1, <1>5
  <2>2. /\ i \in Int /\ b[i].score \in Int /\ b[i].order \in Int
        /\ j \in Int /\ b[j].score \in Int /\ b[j].order \in Int
        /\ k \in Int /\ b[k].score \in Int /\ b[k].order \in Int
    BY <1>2
  <2>3. Before(b[i], b[k]) \/ (i < k /\ ~ Before(b[k], b[i]))
    <3> DEFINE s1 == b[i].score  o1 == b[i].order
               s2 == b[j].score  o2 == b[j].order
               s3 == b[k].score  o3 == b[k].order
    <3>1. \/ s1 > s2 \/ (s1 = s2 /\ o1 < o2)
          \/ i < j /\ ~ (s2 > s1 \/ (s2 = s1 /\ o2 < o1))
      BY <2>1 DEF Before
    <3>2. \/ s2 > s3 \/ (s2 = s3 /\ o2 < o3)
          \/ j < k /\ ~ (s3 > s2 \/ (s3 = s2 /\ o3 < o2))
      BY <2>1 DEF Before
    <3>3. s1 \in Int /\ o1 \in Int /\ s2 \in Int /\ o2 \in Int /\ s3 \in Int /\ o3 \in Int
      BY <2>2
    <3> HIDE DEF s1, o1, s2, o2, s3, o3
    <3>4. \/ s1 > s3 \/ (s1 = s3 /\ o1 < o3)
          \/ i < k /\ ~ (s3 > s1 \/ (s3 = s1 /\ o3 < o1))
      BY <2>2, <3>1, <3>2, <3>3
    <3> QED BY <3>4 DEF Before, s1, o1, s3, o3
  <2> QED BY <1>1, <2>3
<1>6. ASSUME NEW j \in 1 .. n, NEW k \in 1 .. n, j # k
      PROVE  <<j, k>> \in Precedes(b) \/ <<k, j>> \in Precedes(b)
  <2>1. j < k \/ k < j
    BY <1>2, <1>6
  <2> QED BY <1>1, <2>1
<1>7. \A j, k \in 1 .. n : <<j, k>> \in Precedes(b) => ~ Before(b[k], b[j])
  BY <1>1, <1>3
<1> QED BY <1>4, <1>5, <1>6, <1>7 DEF StrictOrder, n

\* Sorting permutes a list and leaves no later hit before an earlier one.
LEMMA SortedIsSorted ==
  ASSUME NEW A, NEW b \in Seq(A), Comparable(b)
  PROVE  /\ Sorted(b) \in Seq(A) /\ Len(Sorted(b)) = Len(b)
         /\ \E p \in Bijection(1 .. Len(b), 1 .. Len(b)) :
              \A m \in 1 .. Len(b) : Sorted(b)[m] = b[p[m]]
         /\ \A l, m \in 1 .. Len(b) : l < m => ~ Before(Sorted(b)[m], Sorted(b)[l])
<1> DEFINE n == Len(b)
           S == 1 .. Len(b)
           R == Precedes(b)
           p == [m \in S |-> CHOOSE k \in S : Rank(S, R, k) = m - 1]
<1>1. n \in Nat /\ IsFiniteSet(S) /\ Cardinality(S) = n
  <2>1. n \in Nat
    OBVIOUS
  <2> HIDE DEF n
  <2>2. IsFiniteSet(1 .. n) /\ Cardinality(1 .. n) = n
    BY <2>1, FS_Interval
  <2> QED BY <2>1, <2>2 DEF n
<1>2. StrictOrder(S, R) /\ \A j, k \in S : <<j, k>> \in R => ~ Before(b[k], b[j])
  BY PrecedesIsStrict
<1>3. Sorted(b) = [m \in S |-> b[p[m]]]
  <2>1. \A k \in S : Rank(S, R, k) =
          Cardinality({j \in S : Before(b[j], b[k]) \/ (j < k /\ ~ Before(b[k], b[j]))})
    <3> SUFFICES ASSUME NEW k \in S
                 PROVE  {y \in S : <<y, k>> \in R} =
                        {j \in S : Before(b[j], b[k]) \/ (j < k /\ ~ Before(b[k], b[j]))}
      BY DEF Rank
    <3>1. ASSUME NEW j \in S
          PROVE  <<j, k>> \in R <=> Before(b[j], b[k]) \/ (j < k /\ ~ Before(b[k], b[j]))
      <4>1. <<j, k>> \in S \X S /\ <<j, k>>[1] = j /\ <<j, k>>[2] = k
        OBVIOUS
      <4> QED BY <4>1 DEF Precedes
    <3> QED BY <3>1
  <2>2. \A m \in S : p[m] = CHOOSE k \in S :
          Cardinality({j \in S : Before(b[j], b[k]) \/ (j < k /\ ~ Before(b[k], b[j]))}) = m - 1
    <3> HIDE DEF R
    <3> QED BY <2>1
  <2>3. Sorted(b) =
          [m \in S |-> b[CHOOSE k \in S : Cardinality({j \in S :
             Before(b[j], b[k]) \/ (j < k /\ ~ Before(b[k], b[j]))}) = m - 1]]
    BY DEF Sorted
  <2> HIDE DEF p, S, R
  <2> QED BY <2>2, <2>3
<1>4. /\ p \in Bijection(S, S)
      /\ \A k \in S : p[k] \in S
      /\ \A l, m \in S : l < m => <<p[l], p[m]>> \in R
  <2>1. S = 1 .. n /\ StrictOrder(1 .. n, R)
    BY <1>2
  <2>2. p = ByRank(n, R)
    BY DEF ByRank
  <2> HIDE DEF p, R, n, S
  <2> QED BY <1>1, <2>1, <2>2, ByRankPermutes
<1> HIDE DEF S, R, p
<1>5. ASSUME NEW l \in S, NEW m \in S, l < m
      PROVE  ~ Before(b[p[m]], b[p[l]])
  BY <1>2, <1>4, <1>5
<1>6. Sorted(b) \in Seq(A) /\ Len(Sorted(b)) = n
  <2>1. \A m \in S : b[p[m]] \in A
    BY <1>4 DEF S
  <2> QED BY <1>1, <1>3, <2>1 DEF S
<1>7. \A m \in S : Sorted(b)[m] = b[p[m]]
  BY <1>3
<1> QED BY <1>4, <1>5, <1>6, <1>7 DEF S

-----------------------------------------------------------------------------
(* Lists of hits.                                                          *)

Held(b) == {b[k].row : k \in 1 .. Len(b)}

\* Hits with the scores of their rows, no row twice.
Listed(b) ==
  /\ \A k \in 1 .. Len(b) : b[k].score = rows[b[k].row].score
  /\ \A j, k \in 1 .. Len(b) : j # k => b[j].row # b[k].row

LEMMA UpTo ==
  ASSUME NEW n \in Nat
  PROVE  IsFiniteSet(1 .. n) /\ Cardinality(1 .. n) = n
BY FS_Interval

LEMMA HeldSize ==
  ASSUME NEW A, NEW b \in Seq(A), Listed(b)
  PROVE  IsFiniteSet(Held(b)) /\ Cardinality(Held(b)) = Len(b)
<1> DEFINE f == [k \in 1 .. Len(b) |-> b[k].row]
<1>1. f \in [1 .. Len(b) -> Held(b)]
  BY DEF Held
<1>2. \A j, k \in 1 .. Len(b) : f[j] = f[k] => j = k
  BY DEF Listed
<1>3. \A r \in Held(b) : \E k \in 1 .. Len(b) : f[k] = r
  BY DEF Held
<1> HIDE DEF f
<1>4. f \in Bijection(1 .. Len(b), Held(b))
  BY <1>1, <1>2, <1>3, Fun_IsBij
<1>5. IsFiniteSet(1 .. Len(b)) /\ Cardinality(1 .. Len(b)) = Len(b)
  BY UpTo
<1> QED BY <1>4, <1>5, FS_Bijection DEF ExistsBijection

\* Sorting keeps the hits of a list.
LEMMA SortedKeeps ==
  ASSUME NEW A, NEW b \in Seq(A), Comparable(b), Listed(b)
  PROVE  Listed(Sorted(b)) /\ Held(Sorted(b)) = Held(b)
<1>1. Len(Sorted(b)) = Len(b)
  BY SortedIsSorted
<1>2. PICK p \in Bijection(1 .. Len(b), 1 .. Len(b)) :
        \A m \in 1 .. Len(b) : Sorted(b)[m] = b[p[m]]
  BY SortedIsSorted
<1>3. /\ \A m \in 1 .. Len(b) : p[m] \in 1 .. Len(b)
      /\ \A l, m \in 1 .. Len(b) : p[l] = p[m] => l = m
      /\ \A k \in 1 .. Len(b) : \E m \in 1 .. Len(b) : p[m] = k
  BY DEF Bijection, Injection, Surjection, IsInjective
<1> DEFINE s == Sorted(b)
           n == Len(b)
<1>4. /\ Len(s) = n /\ \A m \in 1 .. n : s[m] = b[p[m]]
      /\ \A k \in 1 .. n : b[k].score = rows[b[k].row].score
      /\ \A j, k \in 1 .. n : j # k => b[j].row # b[k].row
  BY <1>1, <1>2 DEF Listed
<1>5. /\ \A r : r \in Held(s) <=> \E m \in 1 .. Len(s) : r = s[m].row
      /\ \A r : r \in Held(b) <=> \E k \in 1 .. n : r = b[k].row
  BY DEF Held
<1>6. Listed(s) <=> /\ \A k \in 1 .. Len(s) : s[k].score = rows[s[k].row].score
                    /\ \A j, k \in 1 .. Len(s) : j # k => s[j].row # s[k].row
  BY DEF Listed
<1> HIDE DEF s, n
<1>7. Listed(s)
  <2>1. ASSUME NEW m \in 1 .. n PROVE s[m].score = rows[s[m].row].score
    <3>1. p[m] \in 1 .. n /\ s[m] = b[p[m]]
      BY <1>3, <1>4 DEF n
    <3> QED BY <1>4, <3>1
  <2>2. ASSUME NEW l \in 1 .. n, NEW m \in 1 .. n, l # m
        PROVE  s[l].row # s[m].row
    <3>1. /\ p[l] \in 1 .. n /\ s[l] = b[p[l]]
          /\ p[m] \in 1 .. n /\ s[m] = b[p[m]]
          /\ p[l] # p[m]
      BY <1>3, <1>4, <2>2 DEF n
    <3> QED BY <1>4, <3>1
  <2> QED BY <1>4, <1>6, <2>1, <2>2
<1>8. ASSUME NEW r PROVE r \in Held(s) <=> r \in Held(b)
  <2>1. ASSUME r \in Held(s) PROVE r \in Held(b)
    <3>1. PICK m \in 1 .. n : r = s[m].row
      BY <1>4, <1>5, <2>1
    <3>2. r = b[p[m]].row /\ p[m] \in 1 .. n
      BY <1>3, <1>4, <3>1 DEF n
    <3> QED BY <1>5, <3>2
  <2>2. ASSUME r \in Held(b) PROVE r \in Held(s)
    <3>1. PICK k \in 1 .. n : r = b[k].row
      BY <1>5, <2>2
    <3>2. PICK m \in 1 .. n : p[m] = k
      BY <1>3 DEF n
    <3>3. r = s[m].row
      BY <1>4, <3>1, <3>2
    <3> QED BY <1>4, <1>5, <3>3
  <2> QED BY <2>1, <2>2
<1> QED BY <1>7, <1>8 DEF s

\* What Trim leaves are the best of the list.
LEMMA TrimIsTop ==
  ASSUME NEW A, NEW b \in Seq(A), Comparable(b), Listed(b), limit \in Nat \ {0}
  PROVE  /\ Trim(b) \in Seq(A) /\ Len(Trim(b)) <= limit
         /\ Listed(Trim(b)) /\ TopOf(Held(Trim(b)), Held(b), limit)
<1>b. /\ IsFiniteSet(Held(b)) /\ Cardinality(Held(b)) = Len(b) /\ Len(b) \in Nat
  BY HeldSize
<1>1. CASE ~ (Len(b) > limit)
  <2>1. Trim(b) = b /\ Len(b) <= limit
    BY <1>b, <1>1 DEF Trim
  <2>2. TopOf(Held(b), Held(b), limit)
    BY <1>b, <2>1 DEF TopOf, Lower
  <2> QED BY <2>1, <2>2
<1>2. CASE Len(b) > limit
  <2> DEFINE s == Sorted(b)
             t == Trim(b)
  <2>1. s \in Seq(A) /\ Len(s) = Len(b) /\ Listed(s) /\ Held(s) = Held(b)
        /\ \A l, m \in 1 .. Len(b) : l < m => ~ Before(s[m], s[l])
    BY SortedIsSorted, SortedKeeps
  <2>2. t = SubSeq(s, 1, limit)
    BY <1>2 DEF Trim
  <2> HIDE DEF s, t
  <2>3. t \in Seq(A) /\ Len(t) = limit /\ \A k \in 1 .. limit : t[k] = s[k]
    BY <1>b, <1>2, <2>1, <2>2
  <2>4. \A k \in 1 .. limit : k \in 1 .. Len(b)
    BY <1>b, <1>2
  <2>5. Listed(t)
    <3>1. \A k \in 1 .. Len(b) : s[k].score = rows[s[k].row].score
      BY <2>1 DEF Listed
    <3>2. \A j, k \in 1 .. Len(b) : j # k => s[j].row # s[k].row
      BY <2>1 DEF Listed
    <3>3. \A k \in 1 .. limit : t[k].score = rows[t[k].row].score
      BY <2>3, <2>4, <3>1
    <3>4. \A j, k \in 1 .. limit : j # k => t[j].row # t[k].row
      BY <2>3, <2>4, <3>2
    <3> QED BY <2>3, <3>3, <3>4 DEF Listed
  <2>6. Held(t) \subseteq Held(b)
    BY <2>1, <2>3, <2>4 DEF Held
  <2>7. Cardinality(Held(t)) = Lower(limit, Cardinality(Held(b)))
    BY <1>b, <1>2, <2>3, <2>5, HeldSize DEF Lower
  <2>8. ASSUME NEW i \in Held(b) \ Held(t), NEW j \in Held(t)
        PROVE  rows[j].score >= rows[i].score
    <3>1. PICK m \in 1 .. Len(b) : i = s[m].row
      BY <2>1 DEF Held
    <3>2. PICK l \in 1 .. limit : j = s[l].row
      BY <2>3 DEF Held
    <3>3. m \notin 1 .. limit
      BY <2>3, <2>8, <3>1 DEF Held
    <3>4. l < m /\ l \in 1 .. Len(b)
      BY <1>b, <2>4, <3>3
    <3>5. ~ (s[m].score > s[l].score)
      BY <2>1, <3>4 DEF Before
    <3>6. s[m].score = rows[i].score /\ s[l].score = rows[j].score
      BY <2>1, <3>1, <3>2, <3>4 DEF Listed
    <3>7. s[m].score \in Int /\ s[l].score \in Int
      <4>1. PICK p \in Bijection(1 .. Len(b), 1 .. Len(b)) :
              \A k \in 1 .. Len(b) : s[k] = b[p[k]]
        BY SortedIsSorted DEF s
      <4>2. p[m] \in 1 .. Len(b) /\ p[l] \in 1 .. Len(b)
        BY <3>4, <4>1 DEF Bijection, Injection
      <4> QED BY <3>4, <4>1, <4>2 DEF Comparable
    <3> QED BY <3>5, <3>6, <3>7
  <2>9. TopOf(Held(t), Held(b), limit)
    BY <2>6, <2>7, <2>8 DEF TopOf
  <2> QED BY <2>3, <2>5, <2>9 DEF t
<1> QED BY <1>1, <1>2

-----------------------------------------------------------------------------
(* _score_batch.                                                           *)

\* The rows kept of a partition can be put in the order they were read.
LEMMA InOrderExists ==
  ASSUME NEW S \in SUBSET Nat, IsFiniteSet(S)
  PROVE  /\ InOrder(S) \in [1 .. Cardinality(S) -> S]
         /\ \A j, k \in 1 .. Cardinality(S) : j < k => InOrder(S)[j] < InOrder(S)[k]
<1> DEFINE n == Cardinality(S)
           R == {p \in S \X S : p[1] < p[2]}
           s == [k \in 1 .. n |-> CHOOSE x \in S : Rank(S, R, x) = k - 1]
<1>1. \A x, y \in S : <<x, y>> \in R <=> x < y
  <2> SUFFICES ASSUME NEW x \in S, NEW y \in S PROVE <<x, y>> \in R <=> x < y
    OBVIOUS
  <2>1. <<x, y>> \in S \X S /\ <<x, y>>[1] = x /\ <<x, y>>[2] = y
    OBVIOUS
  <2> QED BY <2>1
<1> HIDE DEF R
<1>2. StrictOrder(S, R)
  <2>1. \A x \in S : x \in Nat
    OBVIOUS
  <2> QED BY <1>1, <2>1 DEF StrictOrder
<1>3. /\ n \in Nat
      /\ \A x, y \in S : <<x, y>> \in R <=> Rank(S, R, x) < Rank(S, R, y)
      /\ \A m \in 0 .. n - 1 : \E x \in S : Rank(S, R, x) = m
  BY <1>2, Ranks
<1> HIDE DEF n
<1>4. \A k \in 1 .. n : s[k] \in S /\ Rank(S, R, s[k]) = k - 1
  <2> SUFFICES ASSUME NEW k \in 1 .. n
               PROVE  s[k] \in S /\ Rank(S, R, s[k]) = k - 1
    OBVIOUS
  <2>1. k - 1 \in 0 .. n - 1
    BY <1>3
  <2>2. s[k] = CHOOSE x \in S : Rank(S, R, x) = k - 1
    OBVIOUS
  <2> HIDE DEF s
  <2> QED BY <1>3, <2>1, <2>2
<1>5. s \in [1 .. n -> S]
  BY <1>4
<1> HIDE DEF s
<1>6. ASSUME NEW j \in 1 .. n, NEW k \in 1 .. n, j < k
      PROVE  s[j] < s[k]
  <2>1. j - 1 < k - 1
    BY <1>6
  <2> QED BY <1>1, <1>3, <1>4, <2>1
<1> QED BY <1>5, <1>6 DEF InOrder, n

\* What _score_batch picks: as many as there are, or the limit, none twice, and
\* none left out better than one picked.
LEMMA ScoreBatchPicks ==
  ASSUME rows \in Seq(Row), limit \in Nat \ {0},
         NEW batch \in SUBSET (1 .. Len(rows)), IsFiniteSet(batch),
         NEW hits \in ScoreBatch(batch)
  PROVE  LET S == Survivors(batch) IN
         /\ IsFiniteSet(S) /\ S \subseteq batch
         /\ hits \in Seq(S) /\ Len(hits) = Lower(limit, Cardinality(S))
         /\ Len(hits) <= Cardinality(batch)
         /\ \A j, k \in 1 .. Len(hits) : j # k => hits[j] # hits[k]
         /\ \A i \in S : (\A k \in 1 .. Len(hits) : hits[k] # i) =>
              \A k \in 1 .. Len(hits) : rows[hits[k]].score >= rows[i].score
<1> DEFINE S == Survivors(batch)
           n == Cardinality(S)
<1>1. S \in SUBSET batch
  BY DEF Survivors
<1>2. /\ IsFiniteSet(S) /\ n \in Nat /\ Cardinality(batch) \in Nat
      /\ n <= Cardinality(batch)
  BY <1>1, FS_Subset, FS_CardinalityType
<1>3. S \in SUBSET Nat
  <2>1. ASSUME NEW i \in 1 .. Len(rows) PROVE i \in Nat
    OBVIOUS
  <2> HIDE DEF S
  <2> QED BY <1>1, <2>1
<1>4. hits \in IF n > limit THEN TopInAnyOrder(S) ELSE {InOrder(S)}
  BY DEF ScoreBatch
<1>5. CASE n > limit
  <2>1. /\ hits \in [1 .. limit -> S]
        /\ \A j, k \in 1 .. limit : j # k => hits[j] # hits[k]
        /\ \A i \in S : (\A k \in 1 .. limit : hits[k] # i) =>
             \A k \in 1 .. limit : rows[hits[k]].score >= rows[i].score
    <3> HIDE DEF S
    <3> QED BY <1>4, <1>5 DEF TopInAnyOrder
  <2> HIDE DEF S, n
  <2>2. hits \in Seq(S) /\ Len(hits) = limit
    BY <2>1
  <2>3. limit = Lower(limit, n) /\ limit <= Cardinality(batch)
    BY <1>2, <1>5 DEF Lower
  <2> QED BY <1>1, <1>2, <2>1, <2>2, <2>3 DEF S, n
<1>6. CASE ~ (n > limit)
  <2>1. /\ hits \in [1 .. n -> S]
        /\ \A j, k \in 1 .. n : j < k => hits[j] < hits[k]
    <3>1. hits = InOrder(S)
      BY <1>4, <1>6
    <3> HIDE DEF S
    <3> QED BY <1>2, <1>3, <3>1, InOrderExists
  <2> HIDE DEF S, n
  <2>2. hits \in Seq(S) /\ Len(hits) = n
    BY <1>2, <2>1
  <2>3. n = Lower(limit, n)
    BY <1>2, <1>6 DEF Lower
  <2>4. ASSUME NEW j \in 1 .. n, NEW k \in 1 .. n, j # k
        PROVE  hits[j] # hits[k]
    <3>1. hits[j] \in Nat /\ hits[k] \in Nat
      BY <1>3, <2>1
    <3>2. j < k \/ k < j
      BY <1>2, <2>4
    <3>3. hits[j] < hits[k] \/ hits[k] < hits[j]
      BY <2>1, <3>2
    <3> QED BY <3>1, <3>3
  <2>5. \A i \in S : \E k \in 1 .. n : hits[k] = i
    <3>1. hits \in Injection(1 .. n, S)
      BY <2>1, <2>4, Fun_IsInj
    <3>2. IsFiniteSet(1 .. n) /\ Cardinality(1 .. n) = n
      BY <1>2, UpTo
    <3>3. hits \in Surjection(1 .. n, S)
      BY <1>2, <3>1, <3>2, FS_Injection DEF n
    <3> QED BY <3>3 DEF Surjection
  <2> QED BY <1>1, <1>2, <2>2, <2>3, <2>4, <2>5 DEF S, n
<1> QED BY <1>5, <1>6

\* The hits of a partition: its best rows, with their positions.
LEMMA RankedKeeps ==
  ASSUME rows \in Seq(Row), limit \in Nat \ {0}, scanned \in Nat,
         NEW batch \in SUBSET (1 .. Len(rows)), IsFiniteSet(batch),
         NEW hits \in ScoreBatch(batch)
  PROVE  /\ Ranked(hits) \in Seq(Hit) /\ Listed(Ranked(hits))
         /\ IsFiniteSet(Survivors(batch))
         /\ TopOf(Held(Ranked(hits)), Survivors(batch), limit)
         /\ \A k \in 1 .. Len(Ranked(hits)) :
              /\ Ranked(hits)[k].row \in batch
              /\ Ranked(hits)[k].order = scanned + k - 1
         /\ Len(Ranked(hits)) <= Cardinality(batch)
<1> DEFINE S == Survivors(batch)
           r == Ranked(hits)
           n == Len(hits)
<1>1. /\ IsFiniteSet(S) /\ S \subseteq batch
      /\ hits \in Seq(S) /\ n = Lower(limit, Cardinality(S))
      /\ n <= Cardinality(batch)
      /\ \A j, k \in 1 .. n : j # k => hits[j] # hits[k]
      /\ \A i \in S : (\A k \in 1 .. n : hits[k] # i) =>
           \A k \in 1 .. n : rows[hits[k]].score >= rows[i].score
  <2> HIDE DEF n, S
  <2> QED BY ScoreBatchPicks DEF n, S
<1>2. n \in Nat /\ \A k \in 1 .. n : hits[k] \in S
  BY <1>1
<1>3. r = [k \in 1 .. n |-> [score |-> rows[hits[k]].score, order |-> scanned + k - 1,
                             row |-> hits[k]]]
  BY DEF Ranked
<1>4. \A i \in 1 .. Len(rows) : rows[i].score \in Scores
  BY DEF Row
<1> HIDE DEF S, r, n
<1>5. \A k \in 1 .. n :
        /\ r[k] = [score |-> rows[hits[k]].score, order |-> scanned + k - 1, row |-> hits[k]]
        /\ r[k].score = rows[hits[k]].score /\ r[k].row = hits[k]
        /\ r[k].order = scanned + k - 1 /\ r[k].row \in batch
  BY <1>1, <1>2, <1>3
<1>6. r \in Seq(Hit) /\ Len(r) = n
  <2>1. \A k \in 1 .. n : [score |-> rows[hits[k]].score, order |-> scanned + k - 1,
                           row |-> hits[k]] \in Hit
    <3> SUFFICES ASSUME NEW k \in 1 .. n
                 PROVE  [score |-> rows[hits[k]].score, order |-> scanned + k - 1,
                         row |-> hits[k]] \in Hit
      OBVIOUS
    <3>1. hits[k] \in 1 .. Len(rows)
      BY <1>1, <1>2
    <3>2. scanned + k - 1 \in Nat
      BY <1>2
    <3> QED BY <1>4, <3>1, <3>2 DEF Hit
  <2> QED BY <1>2, <1>3, <2>1
<1>7. Listed(r)
  <2>1. \A k \in 1 .. n : r[k].score = rows[r[k].row].score
    BY <1>5
  <2>2. ASSUME NEW j \in 1 .. n, NEW k \in 1 .. n, j # k
        PROVE  r[j].row # r[k].row
    <3>1. r[j].row = hits[j] /\ r[k].row = hits[k]
      BY <1>5
    <3> QED BY <1>1, <2>2, <3>1
  <2> QED BY <1>6, <2>1, <2>2 DEF Listed
<1>8. Held(r) = {hits[k] : k \in 1 .. n}
  BY <1>5, <1>6 DEF Held
<1>9. Cardinality(Held(r)) = Lower(limit, Cardinality(S))
  BY <1>1, <1>6, <1>7, HeldSize
<1>10. TopOf(Held(r), S, limit)
  <2>1. Held(r) \subseteq S
    BY <1>2, <1>8
  <2>2. \A i \in S \ Held(r), j \in Held(r) : rows[j].score >= rows[i].score
    BY <1>1, <1>8
  <2> QED BY <1>9, <2>1, <2>2 DEF TopOf
<1> QED BY <1>1, <1>5, <1>6, <1>7, <1>10 DEF r, S

-----------------------------------------------------------------------------
(* The invariant of the scan.                                              *)

\* A partition is read whole before the next, so a scan that has more to read
\* stands at a boundary.
Aligned == scanned = Len(rows) \/ scanned % PARTITION_SIZE = 0

\* A hit's position lies in the partition its row was read with: the order of
\* the positions is the order of the partitions, whatever argpartition did.
Placed(b) ==
  \A k \in 1 .. Len(b) : PartitionOf(b[k].row) = b[k].order \div PARTITION_SIZE

\* Nothing has been returned, or nothing is to be, or all that is held, ranked.
AnswerInv ==
  /\ ~ answered \/ blank => answer = <<>>
  /\ answered /\ ~ blank =>
       /\ answer = best /\ scanned = Len(rows)
       /\ \A j, k \in 1 .. Len(best) : j < k => ~ Before(best[k], best[j])

SearchInv ==
  /\ SearchTypeOK
  /\ Aligned
  /\ Listed(best) /\ Placed(best)
  /\ TopOf(Held(best), Eligible, limit)
  /\ AnswerInv

\* A hit whose position lies in the partition of its row.
PlacedHit == {h \in Hit : PartitionOf(h.row) = h.order \div PARTITION_SIZE}

LEMMA PlacedHits ==
  ASSUME NEW b
  PROVE  b \in Seq(Hit) /\ Placed(b) <=> b \in Seq(PlacedHit)
<1>1. ASSUME b \in Seq(Hit), Placed(b) PROVE b \in Seq(PlacedHit)
  <2>1. \A k \in 1 .. Len(b) : b[k] \in PlacedHit
    BY <1>1 DEF Placed, PlacedHit
  <2> QED BY <1>1, <2>1
<1>2. ASSUME b \in Seq(PlacedHit) PROVE b \in Seq(Hit) /\ Placed(b)
  <2>1. \A k \in 1 .. Len(b) : b[k] \in PlacedHit
    BY <1>2
  <2>2. \A k \in 1 .. Len(b) :
          b[k] \in Hit /\ PartitionOf(b[k].row) = b[k].order \div PARTITION_SIZE
    BY <2>1 DEF PlacedHit
  <2> QED BY <1>2, <2>2 DEF Placed
<1> QED BY <1>1, <1>2

\* What the requests assume, of the state.
LEMMA Requests ==
  ASSUME SearchTypeOK
  PROVE  /\ rows \in Seq(Row) /\ Len(rows) \in Nat
         /\ limit \in Nat \ {0} /\ min_score \in Nat
         /\ PARTITION_SIZE \in Nat \ {0} /\ scanned \in 0 .. Len(rows)
         /\ \A i \in 1 .. Len(rows) : rows[i].score \in Int
         /\ \A b \in Seq(Hit) : Comparable(b)
<1>1. rows \in Seq(Row) /\ Len(rows) \in Nat /\ scanned \in 0 .. Len(rows)
  BY DEF SearchTypeOK
<1>2. limit \in Nat \ {0} /\ min_score \in Nat /\ PARTITION_SIZE \in Nat \ {0}
  BY RequestsAssumption, PartitionAssumption DEF SearchTypeOK
<1>3. \A r \in Row : r.score \in Int
  BY RequestsAssumption DEF Row
<1>4. \A h \in Hit : h.score \in Int /\ h.order \in Int
  <2> SUFFICES ASSUME NEW h \in Hit PROVE h.score \in Int /\ h.order \in Int
    OBVIOUS
  <2> DEFINE R == 1 .. Len(rows)
  <2>1. h \in [score : Scores, order : Nat, row : R]
    BY DEF Hit
  <2> HIDE DEF R
  <2>2. h.score \in Scores /\ h.order \in Nat
    BY <2>1
  <2>3. \A x \in Scores : x \in Int
    BY RequestsAssumption
  <2>4. h.score \in Int
    BY <2>2, <2>3
  <2>5. h.order \in Int
    BY <2>2
  <2> QED BY <2>4, <2>5
<1>5. \A i \in 1 .. Len(rows) : rows[i].score \in Int
  BY <1>1, <1>3
<1>6. \A b \in Seq(Hit) : Comparable(b)
  <2> SUFFICES ASSUME NEW b \in Seq(Hit), NEW k \in 1 .. Len(b)
               PROVE  b[k] \in Hit
    BY <1>4 DEF Comparable
  <2> QED OBVIOUS
<1> QED BY <1>1, <1>2, <1>5, <1>6

LEMMA NextMultiple ==
  ASSUME NEW P \in Nat \ {0}, NEW s \in Nat, s % P = 0
  PROVE  (s + P) % P = 0
<1> DEFINE q == s \div P
<1>1. q \in Int /\ s = q * P
  OBVIOUS
<1> HIDE DEF q
<1>2. s + P \in Int /\ (q + 1) * P <= s + P /\ s + P < (q + 1) * P + P
  BY <1>1
<1>3. (s + P) \div P = q + 1
  BY <1>1, <1>2
<1>4. s + P = P * ((s + P) \div P) + ((s + P) % P)
  BY <1>2
<1> QED BY <1>1, <1>2, <1>3, <1>4

\* The next partition: an interval, and what it leaves read.
LEMMA NextPartition ==
  ASSUME SearchTypeOK, Aligned, scanned < Len(rows)
  PROVE  LET next == scanned + Cardinality(Partition) IN
         /\ Partition \in SUBSET (1 .. Len(rows)) /\ IsFiniteSet(Partition)
         /\ next \in scanned + 1 .. Len(rows)
         /\ next = Len(rows) \/ next % PARTITION_SIZE = 0
         /\ Partition = scanned + 1 .. next
         /\ Cardinality(Partition) <= PARTITION_SIZE
         /\ scanned % PARTITION_SIZE = 0
<1> DEFINE last == Lower(scanned + PARTITION_SIZE, Len(rows))
<1>1. /\ Len(rows) \in Nat /\ PARTITION_SIZE \in Nat \ {0} /\ scanned \in Nat
  BY Requests
<1>2. /\ last \in Nat /\ scanned < last /\ last <= Len(rows)
      /\ last <= scanned + PARTITION_SIZE
      /\ last = Len(rows) \/ last = scanned + PARTITION_SIZE
  BY <1>1 DEF Lower
<1>3. Partition = scanned + 1 .. last
  <2>1. ASSUME NEW i PROVE i \in Partition <=> i \in scanned + 1 .. last
    BY <1>1, <1>2 DEF Partition
  <2> QED BY <2>1
<1> HIDE DEF last
<1>4. IsFiniteSet(scanned + 1 .. last) /\ Cardinality(scanned + 1 .. last) = last - scanned
  <2>1. scanned + 1 \in Int /\ last \in Int /\ ~ (scanned + 1 > last)
    BY <1>1, <1>2
  <2>2. /\ IsFiniteSet(scanned + 1 .. last)
        /\ Cardinality(scanned + 1 .. last) = last - (scanned + 1) + 1
    BY <2>1, FS_Interval
  <2> QED BY <1>1, <1>2, <2>2
<1>5. scanned + Cardinality(Partition) = last
  BY <1>1, <1>2, <1>3, <1>4
<1>6. scanned % PARTITION_SIZE = 0
  BY <1>1 DEF Aligned
<1>7. (scanned + PARTITION_SIZE) % PARTITION_SIZE = 0
  BY <1>1, <1>6, NextMultiple
<1>8. Partition \in SUBSET (1 .. Len(rows))
  BY DEF Partition
<1>9. Cardinality(Partition) <= PARTITION_SIZE
  BY <1>1, <1>2, <1>3, <1>4
<1> QED BY <1>1, <1>2, <1>3, <1>4, <1>5, <1>6, <1>7, <1>8, <1>9

\* A position within a partition that starts at s is of that partition.
LEMMA WithinPartition ==
  ASSUME NEW P \in Nat \ {0}, NEW s \in Nat, s % P = 0, NEW x \in s .. s + P - 1
  PROVE  x \div P = s \div P
<1> DEFINE q == s \div P
<1>1. q \in Int /\ s = q * P
  OBVIOUS
<1> HIDE DEF q
<1>2. x \in Int /\ q * P <= x /\ x < q * P + P
  BY <1>1
<1>3. x \div P = q
  BY <1>1, <1>2
<1> QED BY <1>3 DEF q

\* The rows read so far, and those of the next partition, are all that was read
\* after it.
LEMMA EligibleGrows ==
  ASSUME SearchTypeOK, NEW next \in scanned .. Len(rows), scanned' = next,
         Partition = scanned + 1 .. next,
         UNCHANGED <<rows, min_score>>
  PROVE  /\ Eligible' = Eligible \cup Survivors(Partition)
         /\ Eligible \cap Survivors(Partition) = {}
         /\ IsFiniteSet(Eligible) /\ Eligible \subseteq 1 .. scanned
<1>1. scanned \in Nat /\ next \in Nat /\ scanned <= next
  BY Requests
<1>2. ASSUME NEW i PROVE i \in 1 .. next <=> i \in 1 .. scanned \/ i \in scanned + 1 .. next
  BY <1>1
<1>3. ASSUME NEW i PROVE ~ (i \in 1 .. scanned /\ i \in scanned + 1 .. next)
  BY <1>1
<1>4. Eligible' = {i \in 1 .. next : rows[i].wide /\ rows[i].score >= min_score}
  BY DEF Eligible
<1>5. Survivors(Partition) =
        {i \in scanned + 1 .. next : rows[i].wide /\ rows[i].score >= min_score}
  BY DEF Survivors
<1>6. Eligible \in SUBSET (1 .. scanned)
  BY DEF Eligible
<1>7. IsFiniteSet(Eligible)
  BY <1>1, <1>6, UpTo, FS_Subset
<1>8. Eligible' = Eligible \cup Survivors(Partition)
  BY <1>2, <1>4, <1>5 DEF Eligible
<1>9. Eligible \cap Survivors(Partition) = {}
  BY <1>3, <1>5, <1>6
<1> QED BY <1>6, <1>7, <1>8, <1>9

\* Two lists of different rows, one after the other.
LEMMA Joined ==
  ASSUME NEW A, NEW b \in Seq(A), NEW c \in Seq(A), Listed(b), Listed(c),
         Held(b) \cap Held(c) = {}
  PROVE  /\ b \o c \in Seq(A) /\ Listed(b \o c)
         /\ Held(b \o c) = Held(b) \cup Held(c)
<1> DEFINE d == b \o c
           m == Len(b)
           n == Len(c)
<1>1. /\ m \in Nat /\ n \in Nat /\ d \in Seq(A) /\ Len(d) = m + n
      /\ \A k \in 1 .. m : d[k] = b[k]
      /\ \A k \in 1 .. n : d[m + k] = c[k]
  OBVIOUS
<1>2. /\ \A k \in 1 .. m : b[k].score = rows[b[k].row].score /\ b[k].row \in Held(b)
      /\ \A k \in 1 .. n : c[k].score = rows[c[k].row].score /\ c[k].row \in Held(c)
      /\ \A j, k \in 1 .. m : j # k => b[j].row # b[k].row
      /\ \A j, k \in 1 .. n : j # k => c[j].row # c[k].row
  BY DEF Listed, Held
<1>3. /\ \A r : r \in Held(b) <=> \E k \in 1 .. m : r = b[k].row
      /\ \A r : r \in Held(c) <=> \E k \in 1 .. n : r = c[k].row
      /\ \A r : r \in Held(d) <=> \E k \in 1 .. Len(d) : r = d[k].row
  BY DEF Held
<1>4. Listed(d) <=> /\ \A k \in 1 .. Len(d) : d[k].score = rows[d[k].row].score
                    /\ \A j, k \in 1 .. Len(d) : j # k => d[j].row # d[k].row
  BY DEF Listed
<1> HIDE DEF d, m, n
<1>5. ASSUME NEW k \in 1 .. Len(d)
      PROVE  \/ k \in 1 .. m /\ d[k] = b[k]
             \/ k - m \in 1 .. n /\ d[k] = c[k - m]
  <2>1. CASE k <= m
    BY <1>1, <2>1
  <2>2. CASE ~ (k <= m)
    <3>1. k - m \in 1 .. n /\ m + (k - m) = k
      BY <1>1, <2>2
    <3>2. d[m + (k - m)] = c[k - m]
      BY <1>1, <3>1
    <3> QED BY <3>1, <3>2
  <2> QED BY <2>1, <2>2
<1>6. Listed(d)
  <2>1. ASSUME NEW k \in 1 .. Len(d) PROVE d[k].score = rows[d[k].row].score
    BY <1>2, <1>5
  <2>2. ASSUME NEW j \in 1 .. Len(d), NEW k \in 1 .. Len(d), j # k
        PROVE  d[j].row # d[k].row
    <3>1. CASE j \in 1 .. m /\ d[j] = b[j] /\ k \in 1 .. m /\ d[k] = b[k]
      BY <1>2, <2>2, <3>1
    <3>2. CASE j - m \in 1 .. n /\ d[j] = c[j - m] /\ k - m \in 1 .. n /\ d[k] = c[k - m]
      <4>1. j - m # k - m
        BY <1>1, <2>2
      <4> QED BY <1>2, <3>2, <4>1
    <3>3. CASE j \in 1 .. m /\ d[j] = b[j] /\ k - m \in 1 .. n /\ d[k] = c[k - m]
      <4>1. d[j].row \in Held(b) /\ d[k].row \in Held(c)
        BY <1>2, <3>3
      <4> QED BY <4>1
    <3>4. CASE j - m \in 1 .. n /\ d[j] = c[j - m] /\ k \in 1 .. m /\ d[k] = b[k]
      <4>1. d[j].row \in Held(c) /\ d[k].row \in Held(b)
        BY <1>2, <3>4
      <4> QED BY <4>1
    <3> QED BY <1>5, <3>1, <3>2, <3>3, <3>4
  <2> QED BY <1>4, <2>1, <2>2
<1>7. ASSUME NEW r PROVE r \in Held(d) <=> r \in Held(b) \/ r \in Held(c)
  <2>1. ASSUME r \in Held(d) PROVE r \in Held(b) \/ r \in Held(c)
    <3>1. PICK k \in 1 .. Len(d) : r = d[k].row
      BY <1>3, <2>1
    <3> QED BY <1>2, <1>5, <3>1
  <2>2. ASSUME r \in Held(b) PROVE r \in Held(d)
    <3>1. PICK k \in 1 .. m : r = b[k].row
      BY <1>3, <2>2
    <3>2. k \in 1 .. Len(d) /\ d[k] = b[k]
      BY <1>1
    <3> QED BY <1>3, <3>1, <3>2
  <2>3. ASSUME r \in Held(c) PROVE r \in Held(d)
    <3>1. PICK k \in 1 .. n : r = c[k].row
      BY <1>3, <2>3
    <3>2. m + k \in 1 .. Len(d) /\ d[m + k] = c[k]
      BY <1>1
    <3> QED BY <1>3, <3>1, <3>2
  <2> QED BY <2>1, <2>2, <2>3
<1> QED BY <1>1, <1>6, <1>7 DEF d

\* Scoring a partition, merging its best and cutting the list keeps the best.
LEMMA PartitionStep ==
  ASSUME SearchInv, ScorePartition
  PROVE  SearchInv'
<1>1. /\ ~ answered /\ ~ blank /\ scanned < Len(rows)
      /\ scanned' = scanned + Cardinality(Partition)
      /\ rows' = rows /\ limit' = limit /\ min_score' = min_score /\ blank' = blank
      /\ answer' = answer /\ answered' = answered
  BY DEF ScorePartition, request
<1>2. PICK hits \in ScoreBatch(Partition) : best' = Trim(best \o Ranked(hits))
  BY DEF ScorePartition
<1>3. /\ SearchTypeOK /\ Aligned /\ Listed(best) /\ Placed(best)
      /\ TopOf(Held(best), Eligible, limit) /\ AnswerInv /\ best \in Seq(Hit)
  BY DEF SearchInv, SearchTypeOK
<1>4. /\ rows \in Seq(Row) /\ Len(rows) \in Nat
      /\ limit \in Nat \ {0} /\ min_score \in Nat
      /\ PARTITION_SIZE \in Nat \ {0} /\ scanned \in 0 .. Len(rows)
      /\ \A i \in 1 .. Len(rows) : rows[i].score \in Int
      /\ \A b \in Seq(Hit) : Comparable(b)
  BY <1>3, Requests
<1> DEFINE next == scanned + Cardinality(Partition)
           c == Cardinality(Partition)
           r == Ranked(hits)
           b == best \o r
           S == Survivors(Partition)
<1>5. /\ Partition \in SUBSET (1 .. Len(rows)) /\ IsFiniteSet(Partition)
      /\ next \in scanned + 1 .. Len(rows)
      /\ next = Len(rows) \/ next % PARTITION_SIZE = 0
      /\ Partition = scanned + 1 .. next
      /\ c <= PARTITION_SIZE /\ c \in Nat
      /\ scanned % PARTITION_SIZE = 0
  BY <1>1, <1>3, NextPartition, FS_CardinalityType
<1>6. /\ r \in Seq(Hit) /\ Listed(r) /\ IsFiniteSet(S)
      /\ TopOf(Held(r), S, limit)
      /\ \A k \in 1 .. Len(r) : r[k].row \in Partition /\ r[k].order = scanned + k - 1
      /\ Len(r) <= c
  BY <1>4, <1>5, RankedKeeps
<1>7. /\ Eligible' = Eligible \cup S /\ Eligible \cap S = {}
      /\ IsFiniteSet(Eligible) /\ Eligible \subseteq 1 .. scanned
  <2>1. next \in scanned .. Len(rows) /\ scanned' = next
    BY <1>1, <1>4, <1>5
  <2> QED BY <1>1, <1>3, <1>5, <2>1, EligibleGrows
<1>8. S \subseteq Partition
  BY DEF Survivors
<1> HIDE DEF next, c, r, b, S
<1>9. Placed(r)
  <2> SUFFICES ASSUME NEW k \in 1 .. Len(r)
               PROVE  PartitionOf(r[k].row) = r[k].order \div PARTITION_SIZE
    BY DEF Placed
  <2> DEFINE i == r[k].row
  <2>1. /\ i - 1 \in scanned .. scanned + PARTITION_SIZE - 1
        /\ scanned + k - 1 \in scanned .. scanned + PARTITION_SIZE - 1
    <3>1. i \in scanned + 1 .. scanned + c /\ k \in 1 .. c
      BY <1>4, <1>5, <1>6 DEF next, c
    <3>2. scanned \in Int /\ PARTITION_SIZE \in Int /\ c \in Int /\ c <= PARTITION_SIZE
      BY <1>4, <1>5
    <3> HIDE DEF i
    <3> QED BY <3>1, <3>2
  <2>2. scanned \in Nat /\ PARTITION_SIZE \in Nat \ {0} /\ scanned % PARTITION_SIZE = 0
    BY <1>4, <1>5
  <2> HIDE DEF i
  <2>3. (i - 1) \div PARTITION_SIZE = (scanned + k - 1) \div PARTITION_SIZE
    BY <2>1, <2>2, WithinPartition
  <2> QED BY <1>6, <2>3 DEF PartitionOf, i
<1>10. best \in Seq(PlacedHit) /\ r \in Seq(PlacedHit)
  BY <1>3, <1>6, <1>9, PlacedHits
<1>11. Held(best) \cap Held(r) = {}
  <2>1. Held(best) \subseteq Eligible /\ Held(r) \subseteq S
    BY <1>3, <1>6 DEF TopOf
  <2> QED BY <1>7, <2>1
<1>12. b \in Seq(PlacedHit) /\ Listed(b) /\ Held(b) = Held(best) \cup Held(r)
  BY <1>3, <1>6, <1>10, <1>11, Joined DEF b
<1>13. Comparable(b)
  BY <1>4, <1>12, PlacedHits
<1>14. /\ best' \in Seq(PlacedHit) /\ Len(best') <= limit
       /\ Listed(best') /\ TopOf(Held(best'), Held(b), limit)
  <2>1. best' = Trim(b)
    BY <1>2 DEF b, r
  <2> QED BY <1>4, <1>12, <1>13, <2>1, TrimIsTop
<1>15. TopOf(Held(best'), Eligible \cup S, limit)
  <2>1. \A i \in Eligible \cup S : rows[i].score \in Int
    <3>1. Eligible \subseteq 1 .. Len(rows)
      BY DEF Eligible, SearchTypeOK, SearchInv
    <3> QED BY <1>4, <1>5, <1>8, <3>1
  <2>2. TopOf(Held(best'), Held(best) \cup Held(r), limit)
    BY <1>12, <1>14
  <2> QED BY <1>3, <1>4, <1>6, <1>7, <2>1, <2>2, MergeTop
<1>16. best' \in Seq(Hit) /\ Placed(best')
  BY <1>14, PlacedHits
<1>17. SearchTypeOK'
  <2>1. scanned' \in 0 .. Len(rows)
    BY <1>1, <1>4, <1>5 DEF next
  <2>2. Hit' = Hit
    BY <1>1 DEF Hit
  <2> QED BY <1>1, <1>3, <1>14, <1>16, <2>1, <2>2 DEF SearchTypeOK
<1>18. Aligned'
  BY <1>1, <1>5 DEF Aligned, next
<1>19. Listed(best)' /\ Placed(best)' /\ TopOf(Held(best), Eligible, limit)'
  <2>1. Listed(best)'
    BY <1>1, <1>14 DEF Listed
  <2>2. Placed(best)'
    BY <1>16 DEF Placed, PartitionOf
  <2>3. Held(best)' = Held(best')
    BY DEF Held
  <2>4. TopOf(Held(best), Eligible, limit)'
    BY <1>1, <1>7, <1>15, <2>3 DEF TopOf
  <2> QED BY <2>1, <2>2, <2>4
<1>20. AnswerInv'
  BY <1>1, <1>3 DEF AnswerInv
<1> QED BY <1>17, <1>18, <1>19, <1>20 DEF SearchInv

\* Sorting what is held, and returning it, changes nothing that is held.
LEMMA AnswerStep ==
  ASSUME SearchInv, AnswerQuery
  PROVE  SearchInv'
<1>1. /\ ~ blank /\ scanned = Len(rows)
      /\ best' = Sorted(best) /\ answer' = Cut(best') /\ answered' = TRUE
      /\ rows' = rows /\ limit' = limit /\ min_score' = min_score /\ blank' = blank
      /\ scanned' = scanned
  BY DEF AnswerQuery, request
<1>2. /\ SearchTypeOK /\ Listed(best) /\ Placed(best)
      /\ TopOf(Held(best), Eligible, limit) /\ best \in Seq(Hit)
      /\ Len(best) <= limit /\ Comparable(best) /\ limit \in Nat \ {0}
  BY Requests DEF SearchInv, SearchTypeOK
<1>3. best \in Seq(PlacedHit)
  BY <1>2, PlacedHits
<1>4. /\ best' \in Seq(PlacedHit) /\ Len(best') = Len(best)
      /\ \A l, m \in 1 .. Len(best) : l < m => ~ Before(best'[m], best'[l])
  BY <1>1, <1>2, <1>3, SortedIsSorted
<1>5. Listed(best') /\ Held(best') = Held(best)
  BY <1>1, <1>2, <1>3, SortedKeeps
<1>6. best' \in Seq(Hit) /\ Placed(best')
  BY <1>4, PlacedHits
<1>7. answer' = best'
  BY <1>1, <1>2, <1>4 DEF Cut
<1>8. SearchTypeOK'
  <2>1. Hit' = Hit
    BY <1>1 DEF Hit
  <2> QED BY <1>1, <1>2, <1>4, <1>6, <1>7, <2>1 DEF SearchTypeOK
<1>9. Listed(best)' /\ Placed(best)' /\ TopOf(Held(best), Eligible, limit)'
  <2>1. Listed(best)'
    BY <1>1, <1>5 DEF Listed
  <2>2. Placed(best)'
    BY <1>6 DEF Placed, PartitionOf
  <2>3. Held(best)' = Held(best) /\ Eligible' = Eligible
    BY <1>1, <1>5 DEF Held, Eligible
  <2>4. TopOf(Held(best), Eligible, limit)'
    BY <1>1, <1>2, <2>3 DEF TopOf
  <2> QED BY <2>1, <2>2, <2>4
<1>10. AnswerInv'
  BY <1>1, <1>4, <1>7 DEF AnswerInv, Before
<1> QED BY <1>1, <1>8, <1>9, <1>10 DEF SearchInv, Aligned

THEOREM SearchIsInvariant == SearchSpec => []SearchInv
<1>1. SearchInit => SearchInv
  <2> SUFFICES ASSUME SearchInit PROVE SearchInv
    OBVIOUS
  <2>1. SearchTypeOK
    <3>1. rows \in Seq(Row) /\ limit \in Nat
      BY ReadsAssumption, RequestsAssumption DEF SearchInit
    <3>2. 0 \in 0 .. Len(rows)
      BY <3>1
    <3>3. <<>> \in Seq(Hit) /\ Len(<<>>) <= limit
      BY <3>1
    <3> QED BY <3>1, <3>2, <3>3 DEF SearchInit, SearchTypeOK
  <2>2. limit \in Nat \ {0} /\ PARTITION_SIZE \in Nat \ {0}
    BY <2>1, Requests
  <2>3. Aligned /\ Listed(best) /\ Placed(best) /\ AnswerInv
    BY <2>2 DEF SearchInit, Aligned, Listed, Placed, AnswerInv
  <2>4. Held(best) = {} /\ Eligible = {}
    BY DEF SearchInit, Held, Eligible
  <2>5. Cardinality({}) = 0
    BY FS_EmptySet, Zenon
  <2>6. TopOf(Held(best), Eligible, limit)
    BY <2>2, <2>4, <2>5 DEF TopOf, Lower
  <2> QED BY <2>1, <2>3, <2>6 DEF SearchInv
<1>2. SearchInv /\ [SearchNext]_qvars => SearchInv'
  <2> SUFFICES ASSUME SearchInv, [SearchNext]_qvars PROVE SearchInv'
    OBVIOUS
  <2>1. CASE ScorePartition
    BY <2>1, PartitionStep
  <2>2. CASE AnswerQuery
    BY <2>2, AnswerStep
  <2>3. CASE AnswerNothing
    BY <2>3 DEF AnswerNothing, request, SearchInv, SearchTypeOK, Hit, Aligned, Listed,
      Placed, PartitionOf, TopOf, Held, Eligible, AnswerInv
  <2>4. CASE UNCHANGED qvars
    BY <2>4 DEF qvars, SearchInv, SearchTypeOK, Hit, Aligned, Listed, Placed,
      PartitionOf, TopOf, Held, Eligible, AnswerInv, Before
  <2> QED BY <2>1, <2>2, <2>3, <2>4 DEF SearchNext
<1> QED BY <1>1, <1>2, PTL DEF SearchSpec

-----------------------------------------------------------------------------
(* What the invariant gives.                                               *)

LEMMA TopIsTopOfRead ==
  ASSUME NEW A, NEW b \in Seq(A), Listed(b), TopOf(Held(b), Eligible, limit)
  PROVE  TopOfRead(b)
<1>1. Cardinality(Held(b)) = Len(b)
  BY HeldSize
<1> QED BY <1>1 DEF TopOfRead, TopOf, Held, Listed

\* Between partitions no more than `limit' hits are held, and never more are
\* answered.
THEOREM SearchTypeCorrect == SearchSpec => []SearchTypeOK
<1>1. SearchInv => SearchTypeOK
  BY DEF SearchInv
<1> QED BY <1>1, SearchIsInvariant, PTL

\* However the rows are cut into partitions, what SqlScanIndex.query holds after
\* any number of them, and what it answers, are the best rows read so far.
THEOREM ScanKeepsTheBest == SearchSpec => []KeepsTheBest
<1>1. SearchInv => KeepsTheBest
  <2> SUFFICES ASSUME SearchInv PROVE KeepsTheBest
    OBVIOUS
  <2>1. TopOfRead(best)
    BY TopIsTopOfRead DEF SearchInv, SearchTypeOK
  <2>2. answered /\ ~ blank => answer = best /\ scanned = Len(rows)
    BY DEF SearchInv, AnswerInv
  <2> QED BY <2>1, <2>2 DEF KeepsTheBest
<1> QED BY <1>1, SearchIsInvariant, PTL

LEMMA DivisionIsMonotone ==
  ASSUME NEW x \in Int, NEW y \in Int, x <= y, NEW P \in Nat \ {0}
  PROVE  x \div P <= y \div P
OBVIOUS

\* The answer descends, and of two equal scores the partition read first wins:
\* argpartition may shuffle a partition, never two.
THEOREM AnswersAreRanked == SearchSpec => []Ranking
<1>1. SearchInv => Ranking
  <2> SUFFICES ASSUME SearchInv, NEW j \in 1 .. Len(answer), NEW k \in 1 .. Len(answer), j < k
               PROVE  \/ answer[j].score > answer[k].score
                      \/ /\ answer[j].score = answer[k].score
                         /\ PartitionOf(answer[j].row) <= PartitionOf(answer[k].row)
    BY DEF Ranking
  <2>1. answer = best /\ ~ Before(best[k], best[j])
    BY DEF SearchInv, AnswerInv, SearchTypeOK
  <2>2. best \in Seq(Hit) /\ Comparable(best) /\ PARTITION_SIZE \in Nat \ {0}
    BY Requests DEF SearchInv, SearchTypeOK
  <2>3. /\ best[j].score \in Int /\ best[j].order \in Int
        /\ best[k].score \in Int /\ best[k].order \in Int
    BY <2>1, <2>2 DEF Comparable
  <2>4. /\ PartitionOf(best[j].row) = best[j].order \div PARTITION_SIZE
        /\ PartitionOf(best[k].row) = best[k].order \div PARTITION_SIZE
    BY <2>1 DEF SearchInv, Placed
  <2> DEFINE s == best[j].score  x == best[j].order
             t == best[k].score  y == best[k].order
  <2>5. ~ (t > s \/ (t = s /\ y < x))
    BY <2>1 DEF Before
  <2> HIDE DEF s, t, x, y
  <2>6. s > t \/ (s = t /\ x <= y)
    BY <2>3, <2>5 DEF s, t, x, y
  <2>7. x <= y => x \div PARTITION_SIZE <= y \div PARTITION_SIZE
    <3>1. x \in Int /\ y \in Int
      BY <2>3 DEF x, y
    <3> QED BY <2>2, <3>1, DivisionIsMonotone
  <2> QED BY <2>1, <2>4, <2>6, <2>7 DEF s, t, x, y
<1> QED BY <1>1, SearchIsInvariant, PTL

-----------------------------------------------------------------------------
(* The two backends.                                                       *)

\* s names the n best of E, or all of them, the best first.
RankedTop(s, E, n) ==
  LET m == Lower(n, Cardinality(E)) IN
  /\ s \in [1 .. m -> E]
  /\ \A j, k \in 1 .. m : j < k =>
       s[j] # s[k] /\ rows[s[j]].score >= rows[s[k]].score
  /\ \A i \in E : (\A k \in 1 .. m : s[k] # i) =>
       \A k \in 1 .. m : rows[s[k]].score >= rows[i].score

\* No place of one such list can be better than the same place of another: the
\* rows up to there are too many to be all among those before it in the other.
LEMMA NoPlaceIsBetter ==
  ASSUME NEW E, IsFiniteSet(E), NEW n \in Nat,
         \A i \in E : rows[i].score \in Int,
         NEW a, RankedTop(a, E, n), NEW b, RankedTop(b, E, n),
         NEW k \in 1 .. Lower(n, Cardinality(E))
  PROVE  rows[a[k]].score <= rows[b[k]].score
<1> DEFINE m == Lower(n, Cardinality(E))
<1>1. m \in Nat /\ k \in 1 .. m
  <2>1. Cardinality(E) \in Nat
    BY FS_CardinalityType
  <2> QED BY <2>1 DEF Lower
<1>2. /\ a \in [1 .. m -> E] /\ b \in [1 .. m -> E]
      /\ \A i, j \in 1 .. m : i < j =>
           /\ a[i] # a[j] /\ rows[a[i]].score >= rows[a[j]].score
           /\ rows[b[i]].score >= rows[b[j]].score
      /\ \A i \in E : (\A j \in 1 .. m : b[j] # i) =>
           \A j \in 1 .. m : rows[b[j]].score >= rows[i].score
  BY DEF RankedTop
<1> HIDE DEF m
<1> SUFFICES ASSUME rows[a[k]].score > rows[b[k]].score
             PROVE  FALSE
  <2>1. rows[a[k]].score \in Int /\ rows[b[k]].score \in Int
    BY <1>1, <1>2
  <2> QED BY <2>1
<1> DEFINE A == {a[j] : j \in 1 .. k}
           B == {b[j] : j \in 1 .. k - 1}
<1>3. IsFiniteSet(A) /\ Cardinality(A) = k
  <2> DEFINE f == [j \in 1 .. k |-> a[j]]
  <2>1. \A i, j \in 1 .. k : f[i] = f[j] => i = j
    <3> SUFFICES ASSUME NEW i \in 1 .. k, NEW j \in 1 .. k, a[i] = a[j]
                 PROVE  i = j
      OBVIOUS
    <3>1. i \in 1 .. m /\ j \in 1 .. m
      BY <1>1
    <3>2. ~ (i < j) /\ ~ (j < i)
      BY <1>2, <3>1
    <3> QED BY <3>1, <3>2
  <2>2. f \in [1 .. k -> A] /\ \A x \in A : \E j \in 1 .. k : f[j] = x
    OBVIOUS
  <2> HIDE DEF f, A
  <2>3. f \in Bijection(1 .. k, A)
    BY <2>1, <2>2, Fun_IsBij
  <2>4. k \in Nat
    BY <1>1
  <2>5. IsFiniteSet(1 .. k) /\ Cardinality(1 .. k) = k
    BY <2>4, UpTo
  <2> QED BY <2>3, <2>5, FS_Bijection DEF ExistsBijection
<1>4. IsFiniteSet(B) /\ Cardinality(B) <= k - 1 /\ Cardinality(B) \in Nat
  <2> DEFINE g == [j \in 1 .. k - 1 |-> b[j]]
  <2>1. g \in [1 .. k - 1 -> B] /\ \A x \in B : \E j \in 1 .. k - 1 : g[j] = x
    OBVIOUS
  <2>2. k - 1 \in Nat
    BY <1>1
  <2>3. IsFiniteSet(1 .. k - 1) /\ Cardinality(1 .. k - 1) = k - 1
    BY <2>2, UpTo
  <2> HIDE DEF g, B
  <2>4. g \in Surjection(1 .. k - 1, B)
    BY <2>1, Fun_IsSurj
  <2> QED BY <2>3, <2>4, FS_Surjection, FS_CardinalityType
<1>5. PICK j \in 1 .. k : a[j] \notin B
  <2>1. ~ (A \subseteq B)
    <3> HIDE DEF A, B
    <3>1. A \in SUBSET B => Cardinality(A) <= Cardinality(B)
      BY <1>4, FS_Subset
    <3>2. ~ (Cardinality(A) <= Cardinality(B))
      BY <1>1, <1>3, <1>4
    <3> QED BY <3>1, <3>2
  <2> QED BY <2>1
<1>6. j \in 1 .. m /\ a[j] \in E /\ b[k] \in E /\ a[k] \in E
  BY <1>1, <1>2
<1>7. rows[a[j]].score > rows[b[k]].score
  <2>1. rows[a[j]].score >= rows[a[k]].score
    <3>1. CASE j = k
      BY <1>6, <3>1
    <3>2. CASE j < k
      BY <1>1, <1>2, <1>6, <3>2
    <3> QED BY <1>1, <3>1, <3>2
  <2>2. rows[a[j]].score \in Int /\ rows[a[k]].score \in Int /\ rows[b[k]].score \in Int
    BY <1>6
  <2> QED BY <2>1, <2>2
<1>8. \A i \in 1 .. m : b[i] # a[j]
  <2> SUFFICES ASSUME NEW i \in 1 .. m, b[i] = a[j]
               PROVE  FALSE
    OBVIOUS
  <2>1. ~ (i \in 1 .. k - 1)
    BY <1>5
  <2>2. rows[b[k]].score >= rows[b[i]].score
    <3>1. i = k \/ k < i
      BY <1>1, <2>1
    <3>2. rows[b[k]].score \in Int
      BY <1>6
    <3> QED BY <1>1, <1>2, <3>1, <3>2
  <2>3. rows[a[j]].score \in Int /\ rows[b[k]].score \in Int
    BY <1>6
  <2> QED BY <1>7, <2>2, <2>3
<1>9. rows[b[k]].score >= rows[a[j]].score
  BY <1>1, <1>2, <1>6, <1>8
<1>10. rows[a[j]].score \in Int /\ rows[b[k]].score \in Int
  BY <1>6
<1> QED BY <1>7, <1>9, <1>10

LEMMA OneRanking ==
  ASSUME NEW E, IsFiniteSet(E), NEW n \in Nat,
         \A i \in E : rows[i].score \in Int,
         NEW a, RankedTop(a, E, n), NEW b, RankedTop(b, E, n)
  PROVE  \A k \in 1 .. Lower(n, Cardinality(E)) : rows[a[k]].score = rows[b[k]].score
<1> SUFFICES ASSUME NEW k \in 1 .. Lower(n, Cardinality(E))
             PROVE  rows[a[k]].score = rows[b[k]].score
  OBVIOUS
<1>1. /\ rows[a[k]].score <= rows[b[k]].score
      /\ rows[b[k]].score <= rows[a[k]].score
  BY NoPlaceIsBetter
<1>2. a[k] \in E /\ b[k] \in E
  BY DEF RankedTop
<1> QED BY <1>1, <1>2

\* The order of the rows in the database, equals by position.
NearerFirst ==
  {p \in (1 .. Len(rows)) \X (1 .. Len(rows)) :
     Nearer(p[1], p[2]) \/ (~ Nearer(p[2], p[1]) /\ p[1] < p[2])}

LEMMA NearerIsStrict ==
  ASSUME SearchTypeOK
  PROVE  /\ StrictOrder(1 .. Len(rows), NearerFirst)
         /\ \A i, j \in 1 .. Len(rows) :
              /\ <<i, j>> \in NearerFirst <=>
                   Nearer(i, j) \/ (~ Nearer(j, i) /\ i < j)
              /\ <<i, j>> \in NearerFirst => ~ Nearer(j, i)
              /\ ~ Nearer(i, i)
<1> DEFINE S == 1 .. Len(rows)
<1>1. \A i \in S : /\ i \in Int /\ rows[i].score \in Int
                   /\ rows[i].zero \in BOOLEAN
  <2>1. rows \in Seq(Row) /\ \A i \in S : rows[i].score \in Int
    BY Requests
  <2> QED BY <2>1 DEF Row
<1>2. \A i, j \in S : <<i, j>> \in NearerFirst <=>
                        Nearer(i, j) \/ (~ Nearer(j, i) /\ i < j)
  <2> SUFFICES ASSUME NEW i \in S, NEW j \in S
               PROVE  <<i, j>> \in NearerFirst <=>
                        Nearer(i, j) \/ (~ Nearer(j, i) /\ i < j)
    OBVIOUS
  <2>1. <<i, j>> \in S \X S /\ <<i, j>>[1] = i /\ <<i, j>>[2] = j
    OBVIOUS
  <2> QED BY <2>1 DEF NearerFirst
<1> HIDE DEF S
<1>3. \A i, j \in S : ~ (Nearer(i, j) /\ Nearer(j, i))
  BY <1>1 DEF Nearer
<1>4. \A i \in S : <<i, i>> \notin NearerFirst /\ ~ Nearer(i, i)
  BY <1>1, <1>2, <1>3
<1>5. ASSUME NEW i \in S, NEW j \in S, NEW k \in S,
             <<i, j>> \in NearerFirst, <<j, k>> \in NearerFirst
      PROVE  <<i, k>> \in NearerFirst
  <2>1. /\ Nearer(i, j) \/ (i < j /\ ~ Nearer(j, i))
        /\ Nearer(j, k) \/ (j < k /\ ~ Nearer(k, j))
    BY <1>2, <1>5
  <2>2. Nearer(i, k) \/ (i < k /\ ~ Nearer(k, i))
    BY <1>1, <2>1 DEF Nearer
  <2> QED BY <1>2, <2>2
<1>6. ASSUME NEW i \in S, NEW j \in S, i # j
      PROVE  <<i, j>> \in NearerFirst \/ <<j, i>> \in NearerFirst
  <2>1. i < j \/ j < i
    BY <1>1, <1>6
  <2> QED BY <1>2, <2>1
<1>7. \A i, j \in S : <<i, j>> \in NearerFirst => ~ Nearer(j, i)
  BY <1>2, <1>3
<1> QED BY <1>2, <1>4, <1>5, <1>6, <1>7 DEF StrictOrder, S

\* The database lists every row once, none before a nearer one.
LEMMA OrderedIsOrdered ==
  ASSUME SearchTypeOK
  PROVE  /\ Ordered \in Bijection(1 .. Len(rows), 1 .. Len(rows))
         /\ Ordered \in [1 .. Len(rows) -> 1 .. Len(rows)]
         /\ \A l, m \in 1 .. Len(rows) : l < m => ~ Nearer(Ordered[m], Ordered[l])
<1> DEFINE n == Len(rows)
           S == 1 .. Len(rows)
           R == NearerFirst
           upto(i) == {j \in S : Nearer(j, i) \/ (~ Nearer(i, j) /\ j <= i)}
<1>1. n \in Nat /\ IsFiniteSet(S) /\ Cardinality(S) = n
  BY Requests, UpTo
<1>2. /\ StrictOrder(S, R)
      /\ \A i, j \in S : /\ <<i, j>> \in R <=> Nearer(i, j) \/ (~ Nearer(j, i) /\ i < j)
                         /\ <<i, j>> \in R => ~ Nearer(j, i)
                         /\ ~ Nearer(i, i)
  BY NearerIsStrict
<1>3. ASSUME NEW i \in S
      PROVE  Cardinality(upto(i)) = Rank(S, R, i) + 1 /\ Rank(S, R, i) \in Nat
  <2> DEFINE below == {j \in S : <<j, i>> \in R}
  <2>1. upto(i) = below \cup {i}
    <3>1. ASSUME NEW j \in S
          PROVE  Nearer(j, i) \/ (~ Nearer(i, j) /\ j <= i) <=> <<j, i>> \in R \/ j = i
      <4>1. j <= i <=> j < i \/ j = i
        BY <1>1
      <4> HIDE DEF S, R
      <4>2. CASE j = i
        BY <1>2, <4>1, <4>2
      <4>3. CASE j # i
        BY <1>2, <4>1, <4>3
      <4> QED BY <4>2, <4>3
    <3> HIDE DEF S, R
    <3> QED BY <3>1
  <2>2. i \notin below
    BY <1>2 DEF StrictOrder
  <2>3. IsFiniteSet(below)
    <3>1. below \in SUBSET S
      OBVIOUS
    <3> HIDE DEF below, S
    <3> QED BY <1>1, <3>1, FS_Subset
  <2>4. Rank(S, R, i) = Cardinality(below)
    BY DEF Rank
  <2> HIDE DEF below, S, R, upto
  <2> QED BY <2>1, <2>2, <2>3, <2>4, FS_AddElement, FS_CardinalityType
<1>4. Ordered = ByRank(n, R)
  <2>1. Ordered = [k \in S |-> CHOOSE i \in S : Cardinality(upto(i)) = k]
    BY DEF Ordered
  <2>2. ByRank(n, R) = [k \in S |-> CHOOSE i \in S : Rank(S, R, i) = k - 1]
    BY DEF ByRank
  <2>3. \A k \in S : k \in Int
    OBVIOUS
  <2> HIDE DEF S, R, upto, n
  <2>4. \A k \in S, i \in S : Cardinality(upto(i)) = k <=> Rank(S, R, i) = k - 1
    BY <1>3, <2>3
  <2>5. \A k \in S : (CHOOSE i \in S : Cardinality(upto(i)) = k)
                       = (CHOOSE i \in S : Rank(S, R, i) = k - 1)
    BY <2>4
  <2> QED BY <2>1, <2>2, <2>5
<1>5. StrictOrder(1 .. n, R)
  BY <1>2
<1> HIDE DEF R, n
<1>6. /\ ByRank(n, R) \in Bijection(1 .. n, 1 .. n)
      /\ \A k \in 1 .. n : ByRank(n, R)[k] \in 1 .. n
      /\ \A l, m \in 1 .. n : l < m => <<ByRank(n, R)[l], ByRank(n, R)[m]>> \in R
  BY <1>1, <1>5, ByRankPermutes
<1>7. ByRank(n, R) \in [1 .. n -> 1 .. n]
  BY <1>6 DEF Bijection, Injection
<1> QED BY <1>2, <1>4, <1>6, <1>7 DEF n

\* What reaches the floor, of rows that can all be compared, comes first in the
\* database's order: cut and then floored is floored and then cut.
LEMMA PgQueryIsTop ==
  ASSUME SearchTypeOK, scanned = Len(rows), Convertible, ZeroIsFloored, ~ blank
  PROVE  /\ RankedTop(PgQuery, Eligible, limit)
         /\ PgQuery \in Seq(Eligible)
         /\ Len(PgQuery) = Lower(limit, Cardinality(Eligible))
<1> DEFINE n == Len(rows)
           E == Eligible
           o == Ordered
           L == Lower(limit, n)
           P == {k \in 1 .. L : o[k] \in E}
           c == Cardinality(P)
           kept == InOrder(P)
           q == PgQuery
<1>1. /\ n \in Nat /\ limit \in Nat \ {0} /\ L \in Nat /\ L <= n /\ L <= limit
      /\ L = limit \/ L = n
  BY Requests DEF Lower
<1>2. /\ \A i \in 1 .. n : /\ rows[i].score \in Int /\ rows[i].zero \in BOOLEAN
                           /\ rows[i].zero => rows[i].score = 0
      /\ min_score \in Nat
  <2>1. rows \in Seq(Row) /\ min_score \in Nat /\ \A i \in 1 .. n : rows[i].score \in Int
    BY Requests
  <2> QED BY <2>1 DEF Row
<1>3. /\ E \subseteq 1 .. n /\ IsFiniteSet(E)
      /\ \A i \in 1 .. n : i \in E <=> ~ rows[i].zero /\ rows[i].score >= min_score
  <2>1. E \in SUBSET (1 .. n)
    BY DEF Eligible
  <2>2. IsFiniteSet(1 .. n)
    BY <1>1, UpTo
  <2>3. ASSUME NEW i \in 1 .. n
        PROVE  i \in E <=> ~ rows[i].zero /\ rows[i].score >= min_score
    <3>1. i \in E <=> rows[i].score >= min_score
      BY DEF Eligible, Convertible
    <3>2. rows[i].zero => ~ (rows[i].score >= min_score)
      <4>1. min_score > 0 \/ ~ rows[i].zero
        BY DEF ZeroIsFloored
      <4> QED BY <1>2, <4>1
    <3> QED BY <3>1, <3>2
  <2> HIDE DEF E, n
  <2> QED BY <2>1, <2>2, <2>3, FS_Subset
<1>4. /\ o \in [1 .. n -> 1 .. n]
      /\ \A j, k \in 1 .. n : j # k => o[j] # o[k]
      /\ \A i \in 1 .. n : \E k \in 1 .. n : o[k] = i
      /\ \A l, m \in 1 .. n : l < m => ~ Nearer(o[m], o[l])
  <2>1. o \in Bijection(1 .. n, 1 .. n)
    BY OrderedIsOrdered
  <2> HIDE DEF o, n
  <2>2. /\ \A j, k \in 1 .. n : o[j] = o[k] => j = k
        /\ \A i \in 1 .. n : \E k \in 1 .. n : o[k] = i
    BY <2>1 DEF Bijection, Injection, IsInjective, Surjection
  <2> QED BY <2>2, OrderedIsOrdered DEF o, n
<1> HIDE DEF n, E, o
<1>5. ASSUME NEW l \in 1 .. n, NEW m \in 1 .. n, l < m, o[m] \in E
      PROVE  o[l] \in E /\ rows[o[l]].score >= rows[o[m]].score
  <2>1. /\ ~ Nearer(o[m], o[l]) /\ o[l] \in 1 .. n /\ o[m] \in 1 .. n
        /\ ~ rows[o[m]].zero /\ rows[o[m]].score >= min_score
    BY <1>3, <1>4, <1>5
  <2>2. ~ rows[o[l]].zero /\ rows[o[l]].score >= rows[o[m]].score
    BY <1>2, <2>1 DEF Nearer
  <2> QED BY <1>2, <1>3, <2>1, <2>2
<1>6. /\ P \in SUBSET (1 .. L) /\ IsFiniteSet(P) /\ c \in Nat /\ c <= L
      /\ c = L => P = 1 .. L
  <2>1. IsFiniteSet(1 .. L) /\ Cardinality(1 .. L) = L
    BY <1>1, UpTo
  <2> HIDE DEF L
  <2>2. P \in SUBSET (1 .. L)
    OBVIOUS
  <2> HIDE DEF P
  <2> QED BY <2>1, <2>2, FS_Subset, FS_CardinalityType
<1>7. /\ kept \in [1 .. c -> P]
      /\ \A j, k \in 1 .. c : j < k => kept[j] < kept[k]
  <2>1. P \in SUBSET Nat
    BY <1>1
  <2> HIDE DEF P
  <2> QED BY <1>6, <2>1, InOrderExists
<1>8. q = [k \in 1 .. c |-> o[kept[k]]]
  <2> DEFINE nearest == SubSeq(Ordered, 1, Lower(limit, Len(rows)))
  <2>1. Len(nearest) = L /\ \A k \in 1 .. L : nearest[k] = o[k]
    <3>1. o \in Seq(1 .. n) /\ Len(o) = n
      BY <1>1, <1>4
    <3>2. nearest = SubSeq(o, 1, L)
      BY DEF o, n
    <3> HIDE DEF nearest, L
    <3> QED BY <1>1, <3>1, <3>2
  <2>2. P = {k \in 1 .. Len(nearest) : /\ ~ rows[nearest[k]].zero
                                       /\ rows[nearest[k]].score >= min_score}
    <3>1. ASSUME NEW k \in 1 .. L
          PROVE  o[k] \in E <=> ~ rows[o[k]].zero /\ rows[o[k]].score >= min_score
      <4>1. k \in 1 .. n
        BY <1>1
      <4> QED BY <1>3, <1>4, <4>1
    <3> HIDE DEF nearest, L
    <3> QED BY <2>1, <3>1
  <2>3. q = [k \in 1 .. Len(kept) |-> nearest[kept[k]]]
    <3> HIDE DEF P
    <3> QED BY <2>2 DEF PgQuery
  <2>4. Len(kept) = c
    <3> HIDE DEF c, P, kept
    <3> QED BY <1>6, <1>7
  <2> HIDE DEF kept, nearest, P, c, L, q
  <2>5. \A k \in 1 .. c : nearest[kept[k]] = o[kept[k]]
    BY <1>6, <1>7, <2>1
  <2> QED BY <2>3, <2>4, <2>5
<1> HIDE DEF kept, c, q
<1>9. ASSUME NEW k \in 1 .. c
      PROVE  /\ kept[k] \in 1 .. n /\ kept[k] <= L
             /\ q[k] = o[kept[k]] /\ q[k] \in E
  <2>1. kept[k] \in P
    BY <1>7
  <2>2. kept[k] \in 1 .. n /\ kept[k] <= L /\ o[kept[k]] \in E
    BY <1>1, <2>1
  <2> QED BY <1>8, <2>2
<1>10. ASSUME NEW k \in P
       PROVE  \E j \in 1 .. c : q[j] = o[k]
  <2>1. kept \in Injection(1 .. c, P)
    <3>1. ASSUME NEW i \in 1 .. c, NEW j \in 1 .. c, kept[i] = kept[j]
          PROVE  i = j
      <4>1. i < j \/ j < i \/ i = j
        BY <1>6
      <4>2. kept[i] \in Int /\ kept[j] \in Int
        BY <1>9
      <4> QED BY <1>7, <3>1, <4>1, <4>2
    <3> HIDE DEF P
    <3> QED BY <1>7, <3>1, Fun_IsInj
  <2>2. IsFiniteSet(1 .. c) /\ Cardinality(1 .. c) = c
    BY <1>6, UpTo
  <2>3. kept \in Surjection(1 .. c, P)
    <3>1. Cardinality(P) = Cardinality(1 .. c)
      BY <2>2 DEF c
    <3> HIDE DEF P
    <3> QED BY <1>6, <2>1, <2>2, <3>1, FS_Injection
  <2> HIDE DEF P
  <2>4. PICK j \in 1 .. c : kept[j] = k
    BY <2>3 DEF Surjection
  <2> QED BY <1>8, <2>4
<1>11. ASSUME NEW j \in 1 .. c, NEW k \in 1 .. c, j < k
       PROVE  q[j] # q[k] /\ rows[q[j]].score >= rows[q[k]].score
  <2>1. /\ kept[j] \in 1 .. n /\ kept[k] \in 1 .. n /\ kept[j] < kept[k]
        /\ o[kept[k]] \in E /\ q[j] = o[kept[j]] /\ q[k] = o[kept[k]]
    BY <1>7, <1>9, <1>11
  <2>2. kept[j] # kept[k]
    BY <2>1
  <2> QED BY <1>4, <1>5, <2>1, <2>2
\* A row that reaches the floor and is not in the answer was cut.
<1>12. ASSUME NEW i \in E, \A k \in 1 .. c : q[k] # i
       PROVE  /\ c = limit
              /\ \A k \in 1 .. c : rows[q[k]].score >= rows[i].score
  <2>1. PICK m \in 1 .. n : o[m] = i
    BY <1>3, <1>4
  <2>2. L < m
    <3>1. m \notin P
      BY <1>10, <1>12, <2>1
    <3> HIDE DEF L
    <3> QED BY <1>1, <2>1, <3>1
  <2>3. L = limit
    BY <1>1, <2>2
  <2>4. P = 1 .. L
    <3> SUFFICES ASSUME NEW k \in 1 .. L PROVE o[k] \in E
      OBVIOUS
    <3> HIDE DEF L
    <3>1. k \in 1 .. n /\ k < m
      BY <1>1, <2>2
    <3> QED BY <1>5, <2>1, <3>1
  <2>5. c = L
    <3> HIDE DEF P, L
    <3> QED BY <1>1, <2>4, UpTo DEF c
  <2>6. ASSUME NEW k \in 1 .. c PROVE rows[q[k]].score >= rows[i].score
    <3>1. kept[k] \in 1 .. n /\ kept[k] < m /\ q[k] = o[kept[k]]
      <4> HIDE DEF L
      <4> QED BY <1>1, <1>9, <2>2
    <3> QED BY <1>5, <2>1, <3>1
  <2> QED BY <2>3, <2>5, <2>6
<1>13. c = Lower(limit, Cardinality(E))
  <2> DEFINE Q == {q[k] : k \in 1 .. c}
  <2>1. IsFiniteSet(Q) /\ Cardinality(Q) = c
    <3>1. q \in [1 .. c -> Q] /\ \A x \in Q : \E k \in 1 .. c : q[k] = x
      BY <1>8
    <3>2. ASSUME NEW j \in 1 .. c, NEW k \in 1 .. c, q[j] = q[k]
          PROVE  j = k
      <4>1. ~ (j < k) /\ ~ (k < j)
        BY <1>11, <3>2
      <4> QED BY <1>6, <4>1
    <3> HIDE DEF Q
    <3>3. q \in Bijection(1 .. c, Q)
      BY <3>1, <3>2, Fun_IsBij
    <3> QED BY <1>6, <3>3, UpTo, FS_Bijection DEF ExistsBijection
  <2>2. Q \in SUBSET E
    BY <1>9
  <2>3. Cardinality(E) \in Nat /\ c <= Cardinality(E)
    <3> HIDE DEF Q
    <3> QED BY <1>3, <2>1, <2>2, FS_Subset, FS_CardinalityType
  <2>4. CASE Q = E
    <3>1. c = Cardinality(E)
      BY <2>1, <2>4
    <3>2. c <= limit /\ limit \in Nat
      <4> HIDE DEF L, P
      <4> QED BY <1>1, <1>6
    <3> QED BY <2>3, <3>1, <3>2 DEF Lower
  <2>5. CASE Q # E
    <3>1. PICK i \in E : i \notin Q
      BY <2>2, <2>5
    <3>2. \A k \in 1 .. c : q[k] # i
      BY <3>1
    <3>3. c = limit
      BY <1>12, <3>2
    <3> QED BY <1>1, <2>3, <3>3 DEF Lower
  <2> QED BY <2>4, <2>5
<1>14. q \in [1 .. c -> E]
  BY <1>8, <1>9
<1>15. q \in Seq(E) /\ Len(q) = c
  BY <1>6, <1>14
<1>16. RankedTop(q, E, limit)
  BY <1>11, <1>12, <1>13, <1>14 DEF RankedTop
<1> QED BY <1>13, <1>15, <1>16 DEF q, E

\* What the scan answers is the same list, of hits.
LEMMA AnswerIsTop ==
  ASSUME SearchInv, answered, ~ blank
  PROVE  /\ scanned = Len(rows)
         /\ answer \in Seq(Hit) /\ Len(answer) = Lower(limit, Cardinality(Eligible))
         /\ RankedTop([k \in 1 .. Len(answer) |-> answer[k].row], Eligible, limit)
         /\ \A k \in 1 .. Len(answer) : answer[k].score = rows[answer[k].row].score
<1> DEFINE s == [k \in 1 .. Len(answer) |-> answer[k].row]
           m == Len(answer)
<1>1. /\ answer = best /\ scanned = Len(rows)
      /\ \A j, k \in 1 .. m : j < k => ~ Before(answer[k], answer[j])
      /\ SearchTypeOK /\ Listed(answer) /\ TopOf(Held(answer), Eligible, limit)
      /\ answer \in Seq(Hit)
  BY DEF SearchInv, AnswerInv, SearchTypeOK
<1>2. m = Lower(limit, Cardinality(Eligible))
  <2>1. Cardinality(Held(answer)) = m
    BY <1>1, HeldSize
  <2> QED BY <1>1, <2>1 DEF TopOf
<1>3. Comparable(answer)
  BY <1>1, Requests
<1>4. m \in Nat /\ \A k \in 1 .. m : s[k] = answer[k].row
  BY <1>1
<1>5. \A k \in 1 .. m : answer[k].score = rows[answer[k].row].score
  BY <1>1 DEF Listed
<1> HIDE DEF s, m
<1>6. s \in [1 .. m -> Eligible]
  <2>1. \A k \in 1 .. m : answer[k].row \in Eligible
    BY <1>1 DEF TopOf, Held, m
  <2> QED BY <2>1 DEF s, m
<1>7. ASSUME NEW j \in 1 .. m, NEW k \in 1 .. m, j < k
      PROVE  s[j] # s[k] /\ rows[s[j]].score >= rows[s[k]].score
  <2>1. j # k
    BY <1>4, <1>7
  <2>2. s[j] # s[k]
    BY <1>1, <1>4, <2>1 DEF Listed, m
  <2>3. ~ (answer[k].score > answer[j].score)
    BY <1>1, <1>7 DEF Before
  <2>4. answer[j].score \in Int /\ answer[k].score \in Int
    BY <1>3 DEF Comparable, m
  <2> QED BY <1>4, <1>5, <2>2, <2>3, <2>4
<1>8. ASSUME NEW i \in Eligible, \A k \in 1 .. m : s[k] # i, NEW k \in 1 .. m
      PROVE  rows[s[k]].score >= rows[i].score
  <2>1. i \notin Held(answer)
    BY <1>4, <1>8 DEF Held, m
  <2>2. s[k] \in Held(answer)
    BY <1>4 DEF Held, m
  <2> QED BY <1>1, <2>1, <2>2 DEF TopOf
<1>9. RankedTop(s, Eligible, limit)
  BY <1>2, <1>6, <1>7, <1>8 DEF RankedTop
<1> QED BY <1>1, <1>2, <1>5, <1>9 DEF s, m

\* Where every vector has the column's width and no vector of norm zero reaches
\* the floor, SqlScanIndex and PgVectorIndex answer with the same scores: "equivalent
\* to the scan's floor-then-top-k", whatever either does with equals.
THEOREM BackendsGiveOneAnswer == SearchSpec => []BackendsAgree
<1>1. SearchInv => BackendsAgree
  <2> SUFFICES ASSUME SearchInv, answered, Convertible, ZeroIsFloored
               PROVE  [k \in 1 .. Len(answer) |-> answer[k].score]
                        = [k \in 1 .. Len(PgQuery) |-> rows[PgQuery[k]].score]
    BY DEF BackendsAgree
  <2>1. CASE blank
    <3>1. answer = <<>> /\ PgQuery = <<>>
      BY <2>1 DEF SearchInv, AnswerInv, PgQuery
    <3>2. Len(<<>>) = 0 /\ 1 .. 0 = {}
      OBVIOUS
    <3> QED BY <3>1, <3>2
  <2>2. CASE ~ blank
    <3> DEFINE m == Lower(limit, Cardinality(Eligible))
               s == [k \in 1 .. Len(answer) |-> answer[k].row]
    <3>1. /\ scanned = Len(rows) /\ Len(answer) = m
          /\ RankedTop(s, Eligible, limit)
          /\ \A k \in 1 .. m : answer[k].score = rows[s[k]].score
      BY <2>2, AnswerIsTop
    <3>2. RankedTop(PgQuery, Eligible, limit) /\ Len(PgQuery) = m
      BY <2>2, <3>1, PgQueryIsTop DEF SearchInv
    <3>3. /\ IsFiniteSet(Eligible) /\ limit \in Nat
          /\ \A i \in Eligible : rows[i].score \in Int
      <4>1. /\ Len(rows) \in Nat /\ limit \in Nat /\ scanned \in 0 .. Len(rows)
            /\ \A i \in 1 .. Len(rows) : rows[i].score \in Int
        BY Requests DEF SearchInv
      <4>2. Eligible \in SUBSET (1 .. Len(rows))
        BY <4>1 DEF Eligible
      <4> QED BY <4>1, <4>2, UpTo, FS_Subset
    <3> HIDE DEF m, s
    <3>4. \A k \in 1 .. m : rows[s[k]].score = rows[PgQuery[k]].score
      BY <3>1, <3>2, <3>3, OneRanking DEF m
    <3>5. \A k \in 1 .. m : answer[k].score = rows[PgQuery[k]].score
      BY <3>1, <3>4
    <3> QED BY <3>1, <3>2, <3>5
  <2> QED BY <2>1, <2>2
<1> QED BY <1>1, SearchIsInvariant, PTL
=============================================================================
