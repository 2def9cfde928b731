----------------------------- MODULE DataLemmas -----------------------------
(* Induction for data, and what it gives about the sequences and sets that   *)
(* the models compute with.  The induction theorems of the library take the  *)
(* statement as an operator; here it is a set, so that the facts below can   *)
(* be used by every back end.                                                *)
EXTENDS Integers, FiniteSets, Sequences, FiniteSetTheorems,
        SequenceTheorems, WellFoundedInduction, TLAPS

-----------------------------------------------------------------------------
(* Induction over the naturals.                                              *)

LEMMA SmallestMember ==
  ASSUME NEW T \in SUBSET Nat, T # {}
  PROVE  \E m \in T : \A k \in T : m <= k
<1> DEFINE Segments == {0..k : k \in T}
<1>1. IsWellFoundedOn(StrictSubsetOrdering(Nat), FiniteSubsetsOf(Nat))
  BY FS_StrictSubsetOrderingWellFounded
<1>2. Segments \subseteq FiniteSubsetsOf(Nat) /\ Segments # {}
  <2>1. \A k \in T : IsFiniteSet(0..k) /\ 0..k \in SUBSET Nat
    BY FS_Interval
  <2> QED BY <2>1 DEF FiniteSubsetsOf
<1>3. PICK x \in Segments : \A y \in Segments : ~(<<y, x>> \in StrictSubsetOrdering(Nat))
  <2> HIDE DEF Segments
  <2> QED BY <1>1, <1>2, WFMin
<1>4. PICK m \in T : x = 0..m
  BY <1>3
<1>5. ASSUME NEW k \in T, k < m PROVE FALSE
  <2>1. 0..k \in Segments /\ 0..k \subseteq 0..m /\ 0..k # 0..m
    <3>1. m \in 0..m /\ m \notin 0..k
      BY <1>5
    <3> QED BY <1>5, <3>1
  <2>2. <<0..k, 0..m>> \in StrictSubsetOrdering(Nat)
    BY <2>1 DEF StrictSubsetOrdering
  <2> QED BY <1>3, <1>4, <2>1, <2>2
<1> QED BY <1>5

LEMMA SetInduction ==
  ASSUME NEW S, 0 \in S, \A n \in Nat : n \in S => n + 1 \in S
  PROVE  \A n \in Nat : n \in S
<1> DEFINE T == Nat \ S
<1> SUFFICES ASSUME T # {} PROVE FALSE
  OBVIOUS
<1>1. PICK m \in T : \A k \in T : m <= k
  <2>1. T \in SUBSET Nat /\ T # {}
    OBVIOUS
  <2> HIDE DEF T
  <2> QED BY <2>1, SmallestMember
<1>2. m # 0 /\ m - 1 \in Nat
  BY <1>1
<1>3. m - 1 \in S
  BY <1>1, <1>2
<1> QED BY <1>1, <1>2, <1>3

-----------------------------------------------------------------------------
(* The place of a member of a set of naturals among the others.              *)

Rank(S, i) == Cardinality({j \in S : j <= i})

LEMMA RankAdded ==
  ASSUME NEW n \in Nat, NEW S \in SUBSET (1..n)
  PROVE  /\ IsFiniteSet(S) /\ Cardinality(S) \in Nat
         /\ Cardinality(S \cup {n + 1}) = Cardinality(S) + 1
         /\ Rank(S \cup {n + 1}, n + 1) = Cardinality(S) + 1
         /\ \A i \in S : Rank(S \cup {n + 1}, i) = Rank(S, i) /\ Rank(S, i) \in 1..Cardinality(S)
<1>1. IsFiniteSet(S)
  <2>1. IsFiniteSet(1..n)
    BY FS_Interval
  <2> QED BY <2>1, FS_Subset
<1>2. Cardinality(S) \in Nat
  BY <1>1, FS_CardinalityType
<1>3. n + 1 \notin S
  OBVIOUS
<1>4. Cardinality(S \cup {n + 1}) = Cardinality(S) + 1
  BY <1>1, <1>3, FS_AddElement
<1>5. {j \in S \cup {n + 1} : j <= n + 1} = S \cup {n + 1}
  <2>1. \A j \in S \cup {n + 1} : j <= n + 1
    OBVIOUS
  <2> QED BY <2>1
<1>6. ASSUME NEW i \in S
      PROVE  Rank(S \cup {n + 1}, i) = Rank(S, i) /\ Rank(S, i) \in 1..Cardinality(S)
  <2> DEFINE T == {j \in S : j <= i}
  <2>1. {j \in S \cup {n + 1} : j <= i} = T
    OBVIOUS
  <2>2. T \in SUBSET S /\ T # {}
    OBVIOUS
  <2> HIDE DEF T
  <2>3. IsFiniteSet(T) /\ Cardinality(T) \in Nat /\ Cardinality(T) <= Cardinality(S)
    BY <1>1, <2>2, FS_Subset, FS_CardinalityType
  <2>4. Cardinality(T) # 0
    BY <2>2, <2>3, FS_EmptySet
  <2>5. Cardinality(T) \in 1..Cardinality(S)
    BY <1>2, <2>3, <2>4
  <2> QED BY <2>1, <2>5 DEF Rank, T
<1> QED BY <1>1, <1>2, <1>4, <1>5, <1>6 DEF Rank

(* Each place is taken, ...                                                  *)
LEMMA RankTaken ==
  \A n \in Nat : \A S \in SUBSET (1..n) : \A k \in 1..Cardinality(S) : \E i \in S : Rank(S, i) = k
<1> DEFINE Good == {n \in Nat : \A S \in SUBSET (1..n) : \A k \in 1..Cardinality(S) :
                                  \E i \in S : Rank(S, i) = k}
<1>1. 0 \in Good
  <2>1. \A S \in SUBSET (1..0) : S = {}
    OBVIOUS
  <2> QED BY <2>1, FS_EmptySet
<1>2. ASSUME NEW n \in Nat, n \in Good PROVE n + 1 \in Good
  <2> SUFFICES ASSUME NEW S \in SUBSET (1..n + 1), NEW k \in 1..Cardinality(S)
               PROVE  \E i \in S : Rank(S, i) = k
    OBVIOUS
  <2>1. CASE n + 1 \notin S
    <3>1. S \in SUBSET (1..n)
      BY <2>1
    <3> QED BY <1>2, <3>1
  <2>2. CASE n + 1 \in S
    <3> DEFINE T == S \ {n + 1}
    <3>1. T \in SUBSET (1..n) /\ S = T \cup {n + 1}
      BY <2>2
    <3> HIDE DEF T
    <3>2. /\ Cardinality(S) = Cardinality(T) + 1 /\ Cardinality(T) \in Nat
          /\ Rank(S, n + 1) = Cardinality(T) + 1
          /\ \A i \in T : Rank(S, i) = Rank(T, i)
      BY <3>1, RankAdded
    <3>3. CASE k = Cardinality(T) + 1
      BY <2>2, <3>2, <3>3
    <3>4. CASE k # Cardinality(T) + 1
      <4>1. k \in 1..Cardinality(T)
        BY <3>2, <3>4
      <4>2. PICK i \in T : Rank(T, i) = k
        BY <1>2, <3>1, <4>1
      <4> QED BY <3>1, <3>2, <4>2
    <3> QED BY <3>3, <3>4
  <2> QED BY <2>1, <2>2
<1> HIDE DEF Good
<1>3. \A n \in Nat : n \in Good
  BY <1>1, <1>2, SetInduction
<1> QED BY <1>3 DEF Good

(* ... and by one member.                                                    *)
LEMMA RankOrders ==
  ASSUME NEW S \in SUBSET Int, IsFiniteSet(S)
  PROVE  /\ \A i \in S : Rank(S, i) \in Nat
         /\ \A i, j \in S : i < j => Rank(S, i) < Rank(S, j)
<1>0. ASSUME NEW i \in S PROVE Rank(S, i) \in Nat
  <2>1. {k \in S : k <= i} \in SUBSET S
    OBVIOUS
  <2> QED BY <2>1, FS_Subset, FS_CardinalityType DEF Rank
<1> SUFFICES ASSUME NEW i \in S, NEW j \in S, i < j PROVE Rank(S, i) < Rank(S, j)
  BY <1>0
<1> DEFINE T == {k \in S : k <= i}
           U == {k \in S : k <= j}
<1>1. T \in SUBSET U /\ T # U /\ U \in SUBSET S
  <2>1. i \in Int /\ j \in Int /\ \A k \in S : k \in Int
    OBVIOUS
  <2>2. j \in U /\ j \notin T
    BY <2>1
  <2>3. \A k \in T : k \in U
    BY <2>1
  <2> QED BY <2>2, <2>3
<1> HIDE DEF T, U
<1>2. IsFiniteSet(U) /\ IsFiniteSet(T)
  <2>1. IsFiniteSet(U)
    BY <1>1, FS_Subset
  <2> QED BY <1>1, <2>1, FS_Subset
<1>3. Cardinality(T) \in Nat /\ Cardinality(U) \in Nat
  BY <1>2, FS_CardinalityType
<1>4. Cardinality(T) <= Cardinality(U) /\ Cardinality(T) # Cardinality(U)
  BY <1>1, <1>2, FS_Subset
<1> QED BY <1>3, <1>4 DEF Rank, T, U

(* A set whose members have different numbers up to m is finite.             *)
LEMMA NumberedFinite ==
  ASSUME NEW m \in Nat, NEW S, NEW f \in [S -> 1..m], \A x, y \in S : f[x] = f[y] => x = y
  PROVE  IsFiniteSet(S)
<1>1. f \in Injection(S, 1..m)
  BY DEF Injection, IsInjective
<1>2. IsFiniteSet(1..m)
  BY FS_Interval
<1> QED BY <1>1, <1>2, FS_Injection

-----------------------------------------------------------------------------
(* Sorting.  R holds the pairs whose first member comes before the second.   *)

EarlierIn(S, R, x) == {y \in S : <<y, x>> \in R}

StrictOrderOn(S, R) ==
  /\ \A x \in S : <<x, x>> \notin R
  /\ \A x, y, z \in S : <<x, y>> \in R /\ <<y, z>> \in R => <<x, z>> \in R
  /\ \A x, y \in S : x = y \/ <<x, y>> \in R \/ <<y, x>> \in R

(* Of two members the later one has more before it.                          *)
LEMMA EarlierFewer ==
  ASSUME NEW S, NEW R, IsFiniteSet(S), StrictOrderOn(S, R)
  PROVE  /\ \A x \in S : Cardinality(EarlierIn(S, R, x)) \in 0..Cardinality(S) - 1
         /\ \A x, y \in S : <<x, y>> \in R <=>
              Cardinality(EarlierIn(S, R, x)) < Cardinality(EarlierIn(S, R, y))
         /\ \A x, y \in S :
              Cardinality(EarlierIn(S, R, x)) = Cardinality(EarlierIn(S, R, y)) => x = y
<1>0. Cardinality(S) \in Nat
  BY FS_CardinalityType
<1>1. ASSUME NEW x \in S
      PROVE  /\ IsFiniteSet(EarlierIn(S, R, x))
             /\ Cardinality(EarlierIn(S, R, x)) \in 0..Cardinality(S) - 1
  <2>1. EarlierIn(S, R, x) \in SUBSET S /\ EarlierIn(S, R, x) # S
    BY DEF EarlierIn, StrictOrderOn
  <2>2. /\ IsFiniteSet(EarlierIn(S, R, x))
        /\ Cardinality(EarlierIn(S, R, x)) <= Cardinality(S)
        /\ Cardinality(EarlierIn(S, R, x)) # Cardinality(S)
    BY <2>1, FS_Subset
  <2>3. Cardinality(EarlierIn(S, R, x)) \in Nat
    BY <2>2, FS_CardinalityType
  <2> QED BY <1>0, <2>2, <2>3
<1>2. ASSUME NEW x \in S, NEW y \in S, <<x, y>> \in R
      PROVE  Cardinality(EarlierIn(S, R, x)) < Cardinality(EarlierIn(S, R, y))
  <2>1. EarlierIn(S, R, x) \in SUBSET EarlierIn(S, R, y)
    BY <1>2 DEF EarlierIn, StrictOrderOn
  <2>2. EarlierIn(S, R, x) # EarlierIn(S, R, y)
    BY <1>2 DEF EarlierIn, StrictOrderOn
  <2>3. /\ Cardinality(EarlierIn(S, R, x)) <= Cardinality(EarlierIn(S, R, y))
        /\ Cardinality(EarlierIn(S, R, x)) # Cardinality(EarlierIn(S, R, y))
    BY <1>1, <2>1, <2>2, FS_Subset
  <2> QED BY <1>1, <2>3
<1>3. ASSUME NEW x \in S, NEW y \in S,
             Cardinality(EarlierIn(S, R, x)) = Cardinality(EarlierIn(S, R, y))
      PROVE  x = y
  <2> SUFFICES ASSUME x # y PROVE FALSE
    OBVIOUS
  <2>1. <<x, y>> \in R \/ <<y, x>> \in R
    BY DEF StrictOrderOn
  <2>2. /\ Cardinality(EarlierIn(S, R, x)) \in Int
        /\ Cardinality(EarlierIn(S, R, y)) \in Int
    BY <1>1
  <2> QED BY <1>2, <1>3, <2>1, <2>2
<1>4. ASSUME NEW x \in S, NEW y \in S,
             Cardinality(EarlierIn(S, R, x)) < Cardinality(EarlierIn(S, R, y))
      PROVE  <<x, y>> \in R
  <2>1. x # y
    BY <1>1, <1>4
  <2>2. <<y, x>> \notin R
    BY <1>1, <1>2, <1>4
  <2> QED BY <2>1, <2>2 DEF StrictOrderOn
<1> QED BY <1>1, <1>2, <1>3, <1>4

(* Each place is taken, ...                                                  *)
LEMMA PlacesTaken ==
  ASSUME NEW S, NEW R, IsFiniteSet(S), StrictOrderOn(S, R)
  PROVE  /\ Cardinality(S) \in Nat
         /\ \A i \in 1..Cardinality(S) : \E x \in S : Cardinality(EarlierIn(S, R, x)) = i - 1
<1> DEFINE n == Cardinality(S)
           r == [x \in S |-> Cardinality(EarlierIn(S, R, x))]
<1>0. n \in Nat
  BY FS_CardinalityType
<1>1. r \in [S -> 0..n - 1] /\ \A x, y \in S : r[x] = r[y] => x = y
  BY EarlierFewer
<1>2. IsFiniteSet(0..n - 1) /\ Cardinality(0..n - 1) = n
  BY <1>0, FS_Interval
<1>3. \A k \in 0..n - 1 : \E x \in S : r[x] = k
  <2> HIDE DEF r, n
  <2>1. r \in Injection(S, 0..n - 1)
    BY <1>1 DEF Injection, IsInjective
  <2>2. r \in Surjection(S, 0..n - 1)
    BY <1>2, <2>1, FS_Injection DEF n
  <2> QED BY <2>2 DEF Surjection
<1> SUFFICES ASSUME NEW i \in 1..n
             PROVE  \E x \in S : Cardinality(EarlierIn(S, R, x)) = i - 1
  BY <1>0
<1>4. i - 1 \in 0..n - 1
  BY <1>0
<1> QED BY <1>3, <1>4

(* ... and the members by their places are all of them, in order.            *)
ByPlace(S, R, n, s) ==
  /\ n = Cardinality(S) /\ s \in [1..n -> S]
  /\ \A i \in 1..n : Cardinality(EarlierIn(S, R, s[i])) = i - 1

LEMMA SortedSet ==
  ASSUME NEW S, NEW R, IsFiniteSet(S), StrictOrderOn(S, R), NEW n, NEW s, ByPlace(S, R, n, s)
  PROVE  /\ \A i, j \in 1..n : i < j <=> <<s[i], s[j]>> \in R
         /\ \A x \in S : \E i \in 1..n : s[i] = x
         /\ {s[i] : i \in 1..n} = S
<1> USE DEF ByPlace
<1>0. n \in Nat
  BY FS_CardinalityType
<1>1. \A i, j \in 1..n : i < j <=> <<s[i], s[j]>> \in R
  <2> SUFFICES ASSUME NEW i \in 1..n, NEW j \in 1..n PROVE i < j <=> <<s[i], s[j]>> \in R
    OBVIOUS
  <2>1. <<s[i], s[j]>> \in R <=> i - 1 < j - 1
    BY EarlierFewer
  <2> QED BY <1>0, <2>1
<1>2. \A x \in S : \E i \in 1..n : s[i] = x
  <2> SUFFICES ASSUME NEW x \in S PROVE \E i \in 1..n : s[i] = x
    OBVIOUS
  <2>1. PICK k \in 0..n - 1 : k = Cardinality(EarlierIn(S, R, x))
    BY EarlierFewer
  <2>2. k + 1 \in 1..n /\ Cardinality(EarlierIn(S, R, s[k + 1])) = k
    BY <1>0, <2>1
  <2> QED BY <2>1, <2>2, EarlierFewer
<1> QED BY <1>1, <1>2

(* The members with less than `limit` before them: they are all of them, or  *)
(* `limit`, and come before the others.                                      *)
TopIn(S, R, limit) == {x \in S : Cardinality(EarlierIn(S, R, x)) < limit}

LEMMA TopMembers ==
  ASSUME NEW S, NEW R, IsFiniteSet(S), StrictOrderOn(S, R), NEW limit \in Nat
  PROVE  /\ IsFiniteSet(TopIn(S, R, limit)) /\ Cardinality(TopIn(S, R, limit)) \in 0..limit
         /\ \A x \in S : x \notin TopIn(S, R, limit) =>
              /\ Cardinality(TopIn(S, R, limit)) = limit
              /\ \A y \in TopIn(S, R, limit) : <<y, x>> \in R
<1> DEFINE T == TopIn(S, R, limit)
           n == Cardinality(S)
           k == IF limit < n THEN limit ELSE n
           r == [x \in T |-> Cardinality(EarlierIn(S, R, x))]
<1>1. n \in Nat
  BY FS_CardinalityType
<1>2. /\ \A x \in S : Cardinality(EarlierIn(S, R, x)) \in 0..n - 1
      /\ \A x, y \in S : <<x, y>> \in R <=>
           Cardinality(EarlierIn(S, R, x)) < Cardinality(EarlierIn(S, R, y))
      /\ \A x, y \in S :
           Cardinality(EarlierIn(S, R, x)) = Cardinality(EarlierIn(S, R, y)) => x = y
      /\ \A i \in 1..n : \E x \in S : Cardinality(EarlierIn(S, R, x)) = i - 1
  BY EarlierFewer, PlacesTaken
<1>3. T \in SUBSET S /\ \A x \in S : x \in T <=> Cardinality(EarlierIn(S, R, x)) < limit
  BY DEF TopIn
<1> HIDE DEF T, n
<1>4. IsFiniteSet(T)
  BY <1>3, FS_Subset
<1>5. k \in 0..limit /\ k \in 0..n /\ (k = limit \/ k = n)
  BY <1>1
<1>6. r \in Bijection(T, 0..k - 1)
  <2>1. r \in [T -> 0..k - 1]
    <3>1. \A x \in T : Cardinality(EarlierIn(S, R, x)) \in 0..k - 1
      BY <1>1, <1>2, <1>3
    <3> QED BY <3>1
  <2>2. \A x, y \in T : r[x] = r[y] => x = y
    BY <1>2, <1>3
  <2>3. \A i \in 0..k - 1 : \E x \in T : r[x] = i
    <3> SUFFICES ASSUME NEW i \in 0..k - 1 PROVE \E x \in T : r[x] = i
      OBVIOUS
    <3>1. i + 1 \in 1..n /\ (i + 1) - 1 = i /\ i < limit
      BY <1>1, <1>5
    <3> QED BY <1>2, <1>3, <3>1
  <2> HIDE DEF r
  <2> QED BY <2>1, <2>2, <2>3 DEF Bijection, Injection, Surjection, IsInjective
<1> HIDE DEF r
<1>7. Cardinality(T) = k
  <2>1. Cardinality(0..k - 1) = k
    <3>1. k \in Nat /\ 0 \in Int /\ k - 1 \in Int
      BY <1>5
    <3>2. Cardinality(0..k - 1) = IF 0 > k - 1 THEN 0 ELSE k - 1 - 0 + 1
      BY <3>1, FS_Interval
    <3> QED BY <3>1, <3>2
  <2> QED BY <1>4, <1>6, <2>1, FS_Bijection DEF ExistsBijection
<1>8. ASSUME NEW x \in S, x \notin T
      PROVE  k = limit /\ \A y \in T : <<y, x>> \in R
  <2>1. Cardinality(EarlierIn(S, R, x)) \in 0..n - 1
    BY <1>2
  <2>2. ~(Cardinality(EarlierIn(S, R, x)) < limit)
    BY <1>3, <1>8
  <2>3. limit < n
    BY <1>1, <2>1, <2>2
  <2>4. ASSUME NEW y \in T PROVE <<y, x>> \in R
    <3>1. /\ y \in S /\ Cardinality(EarlierIn(S, R, y)) < limit
          /\ Cardinality(EarlierIn(S, R, y)) \in 0..n - 1
      BY <1>2, <1>3
    <3> QED BY <1>2, <2>1, <2>2, <3>1
  <2> QED BY <2>3, <2>4
<1> QED BY <1>4, <1>5, <1>7, <1>8 DEF T

(* A function that keeps the order keeps the number of earlier members.      *)
SameOrder(S, R, T, Q, f) ==
  /\ f \in [S -> T]
  /\ \A y \in T : \E x \in S : f[x] = y
  /\ \A x, y \in S : f[x] = f[y] => x = y
  /\ \A x, y \in S : <<x, y>> \in R <=> <<f[x], f[y]>> \in Q

LEMMA SameRank ==
  ASSUME NEW S, NEW R, NEW T, NEW Q, IsFiniteSet(S), NEW f, SameOrder(S, R, T, Q, f)
  PROVE  /\ IsFiniteSet(T)
         /\ \A x \in S : Cardinality(EarlierIn(S, R, x)) = Cardinality(EarlierIn(T, Q, f[x]))
<1> USE DEF SameOrder
<1>1. IsFiniteSet(T)
  <2>1. f \in Surjection(S, T)
    BY DEF Surjection
  <2> QED BY <2>1, FS_Surjection
<1>2. ASSUME NEW x \in S
      PROVE  Cardinality(EarlierIn(S, R, x)) = Cardinality(EarlierIn(T, Q, f[x]))
  <2> DEFINE E == EarlierIn(S, R, x)
             F == EarlierIn(T, Q, f[x])
             g == [y \in E |-> f[y]]
  <2>1. /\ E \in SUBSET S /\ \A y \in S : y \in E <=> <<y, x>> \in R
        /\ F \in SUBSET T /\ \A y \in T : y \in F <=> <<y, f[x]>> \in Q
    BY DEF EarlierIn
  <2> HIDE DEF E, F
  <2>2. g \in [E -> F] /\ \A y \in E : g[y] = f[y]
    BY <2>1
  <2>3. \A y, z \in E : g[y] = g[z] => y = z
    BY <2>1, <2>2
  <2>4. \A y \in F : \E z \in E : g[z] = y
    BY <2>1, <2>2
  <2> HIDE DEF g
  <2>5. g \in Bijection(E, F)
    BY <2>2, <2>3, <2>4 DEF Bijection, Injection, Surjection, IsInjective
  <2>6. IsFiniteSet(E)
    BY <2>1, FS_Subset
  <2>7. Cardinality(E) = Cardinality(F)
    BY <2>5, <2>6, FS_Bijection DEF ExistsBijection
  <2> QED BY <2>7 DEF E, F
<1> QED BY <1>1, <1>2

(* The top of a union is the top of the two tops.                            *)
LEMMA TopUnion ==
  ASSUME NEW A, NEW B, NEW R, IsFiniteSet(A \cup B), StrictOrderOn(A \cup B, R),
         NEW limit \in Nat
  PROVE  TopIn(A \cup B, R, limit) =
           TopIn(TopIn(A, R, limit) \cup TopIn(B, R, limit), R, limit)
<1> DEFINE C == A \cup B
           M == TopIn(A, R, limit) \cup TopIn(B, R, limit)
<1>1. TopIn(A, R, limit) \in SUBSET A /\ TopIn(B, R, limit) \in SUBSET B
  BY DEF TopIn
<1>2. A \in SUBSET C /\ B \in SUBSET C /\ M \in SUBSET C
  BY <1>1
<1>3. ASSUME NEW X \in SUBSET C
      PROVE  IsFiniteSet(X) /\ StrictOrderOn(X, R)
  BY <1>3, FS_Subset DEF StrictOrderOn
<1>4. ASSUME NEW X, NEW Y \in SUBSET C, X \in SUBSET Y, NEW x
      PROVE  /\ IsFiniteSet(EarlierIn(X, R, x)) /\ Cardinality(EarlierIn(X, R, x)) \in Nat
             /\ Cardinality(EarlierIn(Y, R, x)) \in Nat
             /\ Cardinality(EarlierIn(X, R, x)) <= Cardinality(EarlierIn(Y, R, x))
  <2>1. IsFiniteSet(Y)
    BY <1>3
  <2>2. EarlierIn(Y, R, x) \in SUBSET Y /\ EarlierIn(X, R, x) \in SUBSET EarlierIn(Y, R, x)
    BY <1>4 DEF EarlierIn
  <2>3. IsFiniteSet(EarlierIn(Y, R, x))
    BY <2>1, <2>2, FS_Subset
  <2> QED BY <2>2, <2>3, FS_Subset, FS_CardinalityType
<1> HIDE DEF C, M
<1>5. ASSUME NEW x \in C, Cardinality(EarlierIn(C, R, x)) < limit
      PROVE  x \in M /\ Cardinality(EarlierIn(M, R, x)) < limit
  <2>1. \A X \in SUBSET C : Cardinality(EarlierIn(X, R, x)) < limit
    <3> SUFFICES ASSUME NEW X \in SUBSET C PROVE Cardinality(EarlierIn(X, R, x)) < limit
      OBVIOUS
    <3>1. /\ Cardinality(EarlierIn(X, R, x)) \in Nat /\ Cardinality(EarlierIn(C, R, x)) \in Nat
          /\ Cardinality(EarlierIn(X, R, x)) <= Cardinality(EarlierIn(C, R, x))
      BY <1>4
    <3> QED BY <1>5, <3>1
  <2>2. x \in M
    BY <1>2, <2>1 DEF C, M, TopIn
  <2> QED BY <1>2, <2>1, <2>2
<1>6. ASSUME NEW x \in M, Cardinality(EarlierIn(M, R, x)) < limit
      PROVE  Cardinality(EarlierIn(C, R, x)) < limit
  <2> SUFFICES ASSUME EarlierIn(C, R, x) # EarlierIn(M, R, x) PROVE FALSE
    BY <1>6
  <2>1. PICK y \in C : <<y, x>> \in R /\ y \notin M
    BY <1>2 DEF EarlierIn
  <2>2. ASSUME NEW X, X \in SUBSET C, y \in X, TopIn(X, R, limit) \in SUBSET M PROVE FALSE
    <3>1. y \notin TopIn(X, R, limit)
      BY <2>1, <2>2
    <3>2. /\ Cardinality(TopIn(X, R, limit)) = limit
          /\ \A z \in TopIn(X, R, limit) : <<z, y>> \in R
      BY <1>3, <2>2, <3>1, TopMembers
    <3>3. TopIn(X, R, limit) \in SUBSET EarlierIn(M, R, x)
      <4>1. StrictOrderOn(C, R)
        BY DEF C
      <4> QED BY <1>2, <2>1, <2>2, <3>2, <4>1 DEF EarlierIn, StrictOrderOn
    <3>4. IsFiniteSet(EarlierIn(M, R, x)) /\ Cardinality(EarlierIn(M, R, x)) \in Nat
      BY <1>2, <1>4
    <3>5. limit <= Cardinality(EarlierIn(M, R, x))
      BY <3>2, <3>3, <3>4, FS_Subset
    <3> QED BY <1>6, <3>4, <3>5
  <2> QED BY <1>2, <2>1, <2>2 DEF C, M
<1>7. TopIn(C, R, limit) = TopIn(M, R, limit)
  BY <1>2, <1>5, <1>6 DEF TopIn
<1> QED BY <1>7 DEF C, M

(* A sequence without duplicates is as long as its set is large.             *)
LEMMA DistinctLength ==
  ASSUME NEW X, NEW s \in Seq(X), \A i, j \in 1..Len(s) : s[i] = s[j] => i = j
  PROVE  IsFiniteSet({s[i] : i \in 1..Len(s)}) /\ Cardinality({s[i] : i \in 1..Len(s)}) = Len(s)
<1> DEFINE T == {s[i] : i \in 1..Len(s)}
           f == [i \in 1..Len(s) |-> s[i]]
<1>1. f \in [1..Len(s) -> T] /\ \A i \in 1..Len(s) : f[i] = s[i]
  OBVIOUS
<1>2. \A x \in T : \E i \in 1..Len(s) : f[i] = x
  BY <1>1
<1> HIDE DEF f, T
<1>3. f \in Bijection(1..Len(s), T)
  BY <1>1, <1>2 DEF Bijection, Injection, Surjection, IsInjective
<1>4. IsFiniteSet(1..Len(s)) /\ Cardinality(1..Len(s)) = Len(s)
  <2>1. Len(s) \in Nat
    BY LenProperties
  <2>2. IsFiniteSet(1..Len(s)) /\ Cardinality(1..Len(s)) = IF 1 > Len(s) THEN 0 ELSE Len(s) - 1 + 1
    BY <2>1, FS_Interval
  <2> QED BY <2>1, <2>2
<1>5. IsFiniteSet(T) /\ Cardinality(T) = Len(s)
  BY <1>3, <1>4, FS_Bijection DEF ExistsBijection
<1> QED BY <1>5 DEF T

-----------------------------------------------------------------------------
(* Induction over sequences.                                                 *)

LEMMA SequenceInduction ==
  ASSUME NEW X, NEW S, <<>> \in S,
         \A s \in Seq(X) : \A x \in X : s \in S => Append(s, x) \in S
  PROVE  \A s \in Seq(X) : s \in S
<1> DEFINE N == {n \in Nat : \A s \in Seq(X) : Len(s) = n => s \in S}
<1>1. 0 \in N
  <2>1. \A s \in Seq(X) : Len(s) = 0 => s = <<>>
    OBVIOUS
  <2> QED BY <2>1
<1>2. ASSUME NEW n \in Nat, n \in N PROVE n + 1 \in N
  <2> SUFFICES ASSUME NEW s \in Seq(X), Len(s) = n + 1 PROVE s \in S
    OBVIOUS
  <2>1. PICK front : front = SubSeq(s, 1, n)
    OBVIOUS
  <2>2. front \in Seq(X) /\ Len(front) = n
    BY <2>1
  <2>3. s[n + 1] \in X /\ s = Append(front, s[n + 1])
    BY <2>1
  <2>4. front \in S
    BY <1>2, <2>2
  <2> QED BY <2>2, <2>3, <2>4
<1> HIDE DEF N
<1>3. \A n \in Nat : n \in N
  BY <1>1, <1>2, SetInduction
<1> QED
  <2>1. \A s \in Seq(X) : Len(s) \in N
    BY <1>3
  <2> QED BY <2>1 DEF N

LEMMA AppendConcat ==
  ASSUME NEW X, NEW s \in Seq(X), NEW t \in Seq(X), NEW x \in X
  PROVE  /\ s \o <<>> = s /\ s \o Append(t, x) = Append(s \o t, x)
         /\ s \o <<x>> = Append(s, x)
OBVIOUS

LEMMA AppendCancels ==
  ASSUME NEW X, NEW s \in Seq(X), NEW t \in Seq(X), NEW x \in X, Append(s, x) = Append(t, x)
  PROVE  s = t
<1>1. Len(s) = Len(t)
  OBVIOUS
<1>2. \A i \in 1..Len(s) : s[i] = Append(s, x)[i] /\ t[i] = Append(t, x)[i]
  BY <1>1
<1> QED BY <1>1, <1>2

-----------------------------------------------------------------------------
(* Folds.  FoldLeft is a recursive function on the sets of places of the     *)
(* sequence: it exists when the operations stay in a set A, and the sets     *)
(* 1..i are the prefixes.                                                    *)

LargestOf(t) == CHOOSE x \in t : \A y \in t : x >= y

LEMMA SubsetLargest ==
  ASSUME NEW n \in Nat, NEW t \in SUBSET (1..n), t # {}
  PROVE  LargestOf(t) \in t /\ \A y \in t : LargestOf(t) >= y
<1> DEFINE T == {n - x : x \in t}
<1>0. \A x \in t : x \in 1..n /\ n - x \in Nat
  OBVIOUS
<1>1. T \in SUBSET Nat /\ T # {}
  BY <1>0
<1> HIDE DEF T
<1>2. PICK m \in T : \A k \in T : m <= k
  BY <1>1, SmallestMember
<1>3. PICK x \in t : m = n - x
  BY <1>2 DEF T
<1>4. \A y \in t : x >= y
  <2> SUFFICES ASSUME NEW y \in t PROVE x >= y
    OBVIOUS
  <2>1. n - y \in T
    BY DEF T
  <2>2. n - x <= n - y /\ x \in Int /\ y \in Int
    BY <1>0, <1>2, <1>3, <2>1
  <2> QED BY <2>2
<1> QED BY <1>4 DEF LargestOf

SubsetSolution(A, b, n, op, F) ==
  /\ F \in [SUBSET (1..n) -> A]
  /\ \A t \in SUBSET (1..n) :
       F[t] = IF t = {} THEN b ELSE op[LargestOf(t)][F[t \ {LargestOf(t)}]]

LEMMA SubsetRecursion ==
  ASSUME NEW A, NEW b \in A, NEW n \in Nat, NEW op \in [1..n -> [A -> A]]
  PROVE  \E F : SubsetSolution(A, b, n, op, F)
<1> DEFINE Solves(F, k) == SubsetSolution(A, b, k, op, F)
           K == {k \in Nat : k <= n => \E F : Solves(F, k)}
<1> USE DEF SubsetSolution
<1>1. 0 \in K
  <2> DEFINE F == [t \in SUBSET (1..0) |-> b]
  <2>1. F \in [SUBSET (1..0) -> A] /\ \A t \in SUBSET (1..0) : t = {} /\ F[t] = b
    OBVIOUS
  <2>2. Solves(F, 0)
    BY <2>1
  <2> HIDE DEF Solves, F
  <2> QED BY <2>2
<1>2. ASSUME NEW k \in Nat, NEW F, k + 1 <= n, Solves(F, k) PROVE \E G : Solves(G, k + 1)
  <2>1. /\ F \in [SUBSET (1..k) -> A]
        /\ \A t \in SUBSET (1..k) :
             F[t] = IF t = {} THEN b ELSE op[LargestOf(t)][F[t \ {LargestOf(t)}]]
    BY <1>2
  <2> DEFINE G == [t \in SUBSET (1..k + 1) |->
                     IF k + 1 \in t THEN op[k + 1][F[t \ {k + 1}]] ELSE F[t]]
  <2>2. \A t \in SUBSET (1..k + 1) : /\ t \ {k + 1} \in SUBSET (1..k)
                                     /\ k + 1 \notin t => t \in SUBSET (1..k)
    OBVIOUS
  <2>3. k + 1 \in 1..n
    BY <1>2
  <2>4. G \in [SUBSET (1..k + 1) -> A]
    BY <2>1, <2>2, <2>3
  <2>5. ASSUME NEW t \in SUBSET (1..k + 1)
        PROVE  G[t] = IF t = {} THEN b ELSE op[LargestOf(t)][G[t \ {LargestOf(t)}]]
    <3>1. CASE k + 1 \in t
      <4>1. LargestOf(t) = k + 1
        <5>1. \A y \in t : k + 1 >= y
          OBVIOUS
        <5>2. \A x \in t : (\A y \in t : x >= y) => x = k + 1
          BY <3>1
        <5> QED BY <3>1, <5>1, <5>2 DEF LargestOf
      <4>2. G[t \ {k + 1}] = F[t \ {k + 1}]
        BY <2>2
      <4> QED BY <3>1, <4>1, <4>2
    <3>2. CASE k + 1 \notin t
      <4>1. t \in SUBSET (1..k) /\ G[t] = F[t]
        BY <2>2, <3>2
      <4>2. \A u : u \in SUBSET t => u \in SUBSET (1..k) /\ u \in SUBSET (1..k + 1) /\ G[u] = F[u]
        BY <3>2, <4>1
      <4>3. G[t \ {LargestOf(t)}] = F[t \ {LargestOf(t)}]
        BY <4>2
      <4> QED BY <2>1, <4>1, <4>3
    <3> QED BY <3>1, <3>2
  <2> HIDE DEF G
  <2> QED BY <2>4, <2>5
<1> HIDE DEF Solves
<1>3. ASSUME NEW k \in K PROVE k + 1 \in K
  BY <1>2, <1>3
<1> HIDE DEF K
<1>4. n \in K
  <2>1. \A k \in Nat : k \in K
    BY <1>1, <1>3, SetInduction
  <2> QED BY <2>1
<1>5. \E F : Solves(F, n)
  BY <1>4 DEF K
<1> HIDE DEF SubsetSolution
<1> QED BY <1>5 DEF Solves

(* result is what the operations op[1], ..., op[n] make of b in turn.         *)
FoldsTo(A, b, n, op, result) ==
  \E f \in [0..n -> A] : f[0] = b /\ f[n] = result /\ \A i \in 1..n : f[i] = op[i][f[i - 1]]

(* A function that takes the largest number last folds 1..n in order.       *)
LEMMA PrefixesFold ==
  ASSUME NEW A, NEW b \in A, NEW n \in Nat, NEW op \in [1..n -> [A -> A]], NEW F,
         F[{}] = b,
         \A t \in SUBSET (1..n) : t # {} /\ F[t \ {LargestOf(t)}] \in A =>
           F[t] = op[LargestOf(t)][F[t \ {LargestOf(t)}]]
  PROVE  FoldsTo(A, b, n, op, F[1..n])
<1> DEFINE f == [i \in 0..n |-> F[1..i]]
           N == {i \in Nat : i <= n => F[1..i] \in A}
<1>1. F[1..0] = b
  <2>1. 1..0 = {}
    OBVIOUS
  <2> QED BY <2>1
<1>2. ASSUME NEW i \in Nat, i + 1 <= n, F[1..i] \in A
      PROVE  F[1..i + 1] = op[i + 1][F[1..i]] /\ op[i + 1][F[1..i]] \in A
  <2>1. LargestOf(1..i + 1) = i + 1
    <3>1. i + 1 \in 1..i + 1 /\ \A y \in 1..i + 1 : i + 1 >= y
      OBVIOUS
    <3>2. \A x \in 1..i + 1 : (\A y \in 1..i + 1 : x >= y) => x = i + 1
      OBVIOUS
    <3> QED BY <3>1, <3>2 DEF LargestOf
  <2>2. PICK t : t = 1..i + 1
    OBVIOUS
  <2>3. t # {} /\ t \in SUBSET (1..n) /\ t \ {i + 1} = 1..i
    <3>1. i + 1 \in t
      BY <2>2
    <3>2. t \in SUBSET (1..n)
      BY <1>2, <2>2
    <3>3. t \ {i + 1} = 1..i
      BY <2>2
    <3> QED BY <3>1, <3>2, <3>3
  <2>4. i + 1 \in 1..n
    BY <1>2
  <2>5. F[t] = op[i + 1][F[1..i]]
    BY <1>2, <2>1, <2>2, <2>3
  <2>6. op[i + 1][F[1..i]] \in A
    BY <1>2, <2>4
  <2> QED BY <2>2, <2>5, <2>6
<1>3. \A i \in Nat : i \in N
  <2>1. 0 \in N
    BY <1>1
  <2>2. ASSUME NEW i \in Nat, i \in N PROVE i + 1 \in N
    <3>1. CASE i + 1 <= n
      <4>1. F[1..i] \in A
        BY <2>2, <3>1
      <4> QED BY <1>2, <3>1, <4>1
    <3> QED BY <3>1
  <2> HIDE DEF N
  <2> QED BY <2>1, <2>2, SetInduction
<1>4. \A i \in 0..n : F[1..i] \in A
  BY <1>3
<1>5. f \in [0..n -> A] /\ f[0] = b /\ f[n] = F[1..n]
  BY <1>1, <1>4
<1>6. ASSUME NEW i \in 1..n PROVE f[i] = op[i][f[i - 1]]
  <2>1. PICK j \in 0..n : i = j + 1 /\ j = i - 1 /\ j + 1 <= n
    OBVIOUS
  <2>2. F[1..j + 1] = op[j + 1][F[1..j]]
    BY <1>2, <1>4, <2>1
  <2> QED BY <2>1, <2>2
<1> HIDE DEF f
<1> QED BY <1>5, <1>6 DEF FoldsTo

-----------------------------------------------------------------------------
(* Sequences joined in order, by the recursion of FlattenSeq.               *)

(* The recursion, up to the n-th sequence.                                   *)
Joins(s, n, f) ==
  f = [i \in 1..n |-> IF i = 1 THEN s[i] ELSE f[i - 1] \o s[i]]

Flattened(s) ==
  IF Len(s) = 0 THEN s ELSE (CHOOSE f : Joins(s, Len(s), f))[Len(s)]

LEMMA JoinExists ==
  ASSUME NEW X, NEW s \in Seq(Seq(X))
  PROVE  \A n \in Nat : n <= Len(s) => \E f \in [1..n -> Seq(X)] : Joins(s, n, f)
<1> DEFINE S == {n \in Nat : n <= Len(s) => \E f \in [1..n -> Seq(X)] : Joins(s, n, f)}
<1>1. 0 \in S
  <2>1. [i \in 1..0 |-> <<>>] \in [1..0 -> Seq(X)] /\ Joins(s, 0, [i \in 1..0 |-> <<>>])
    BY DEF Joins
  <2> QED BY <2>1
<1>2. ASSUME NEW n \in Nat, n \in S PROVE n + 1 \in S
  <2> SUFFICES ASSUME n + 1 <= Len(s)
               PROVE  \E f \in [1..n + 1 -> Seq(X)] : Joins(s, n + 1, f)
    OBVIOUS
  <2>1. PICK f \in [1..n -> Seq(X)] : Joins(s, n, f)
    BY <1>2
  <2>2. s[n + 1] \in Seq(X)
    OBVIOUS
  <2> DEFINE last == IF n = 0 THEN s[1] ELSE f[n] \o s[n + 1]
             g == [i \in 1..n + 1 |-> IF i = n + 1 THEN last ELSE f[i]]
  <2>3. last \in Seq(X)
    BY <2>1, <2>2
  <2>4. g \in [1..n + 1 -> Seq(X)]
    BY <2>1, <2>3
  <2>5. \A i \in 1..n : f[i] = IF i = 1 THEN s[i] ELSE f[i - 1] \o s[i]
    BY <2>1 DEF Joins
  <2>6. ASSUME NEW i \in 1..n + 1
        PROVE  g[i] = IF i = 1 THEN s[i] ELSE g[i - 1] \o s[i]
    <3>1. CASE i = n + 1
      BY <3>1
    <3>2. CASE i # n + 1
      <4>1. i \in 1..n /\ (i # 1 => i - 1 \in 1..n + 1 /\ i - 1 # n + 1)
        BY <3>2
      <4> QED BY <3>2, <4>1, <2>5
    <3> QED BY <3>1, <3>2
  <2>7. Joins(s, n + 1, g)
    <3> HIDE DEF last
    <3>1. g = [i \in 1..n + 1 |-> g[i]]
      OBVIOUS
    <3> HIDE DEF g
    <3> QED BY <2>6, <3>1 DEF Joins
  <2> QED BY <2>4, <2>7
<1> HIDE DEF S
<1>3. \A n \in Nat : n \in S
  BY <1>1, <1>2, SetInduction
<1> QED BY <1>3 DEF S

(* Two such recursions agree.                                                *)
JoinsTo(s, n, f) == \A i \in 1..n : f[i] = IF i = 1 THEN s[i] ELSE f[i - 1] \o s[i]

LEMMA JoinUnique ==
  ASSUME NEW s, NEW n \in Nat, NEW f, JoinsTo(s, n, f), NEW g, JoinsTo(s, n, g)
  PROVE  \A i \in 1..n : f[i] = g[i]
<1> DEFINE S == {i \in Nat : i \in 1..n => f[i] = g[i]}
<1>1. 0 \in S
  OBVIOUS
<1>2. ASSUME NEW i \in Nat, i \in S PROVE i + 1 \in S
  <2> SUFFICES ASSUME i + 1 \in 1..n PROVE f[i + 1] = g[i + 1]
    OBVIOUS
  <2>1. f[i + 1] = IF i = 0 THEN s[i + 1] ELSE f[i] \o s[i + 1]
    BY DEF JoinsTo
  <2>2. g[i + 1] = IF i = 0 THEN s[i + 1] ELSE g[i] \o s[i + 1]
    BY DEF JoinsTo
  <2>3. i # 0 => f[i] = g[i]
    BY <1>2
  <2> QED BY <2>1, <2>2, <2>3
<1> HIDE DEF S
<1>3. \A i \in Nat : i \in S
  BY <1>1, <1>2, SetInduction
<1> QED BY <1>3 DEF S

LEMMA FlattenedIsJoin ==
  ASSUME NEW X, NEW s \in Seq(Seq(X)), s # <<>>
  PROVE  \E f \in [1..Len(s) -> Seq(X)] : Joins(s, Len(s), f) /\ Flattened(s) = f[Len(s)]
<1> DEFINE f == CHOOSE f : Joins(s, Len(s), f)
<1>1. Len(s) \in Nat /\ Len(s) # 0
  OBVIOUS
<1>2. PICK g \in [1..Len(s) -> Seq(X)] : Joins(s, Len(s), g)
  <2>1. \A n \in Nat : n <= Len(s) => \E g \in [1..n -> Seq(X)] : Joins(s, n, g)
    BY JoinExists
  <2>2. Len(s) <= Len(s)
    BY <1>1
  <2> QED BY <1>1, <2>1, <2>2, SMTT(30)
<1>3. Joins(s, Len(s), f)
  BY <1>2
<1>4. Flattened(s) = f[Len(s)]
  BY <1>1 DEF Flattened, Joins
<1> HIDE DEF f
<1>5. \A i \in 1..Len(s) : f[i] = g[i]
  <2>1. JoinsTo(s, Len(s), f) /\ JoinsTo(s, Len(s), g)
    BY <1>2, <1>3 DEF Joins, JoinsTo
  <2> QED BY <1>1, <2>1, JoinUnique
<1>6. f = [i \in 1..Len(s) |-> f[i]]
  BY <1>3 DEF Joins
<1>7. f \in [1..Len(s) -> Seq(X)]
  BY <1>2, <1>5, <1>6
<1> QED BY <1>3, <1>4, <1>7

LEMMA FlattenedEmpty == Flattened(<<>>) = <<>>
BY DEF Flattened

LEMMA FlattenedType ==
  ASSUME NEW X, NEW s \in Seq(Seq(X))
  PROVE  Flattened(s) \in Seq(X)
<1>1. CASE s = <<>>
  <2>1. Flattened(s) = <<>>
    BY <1>1, FlattenedEmpty
  <2> QED BY <2>1
<1>2. CASE s # <<>>
  <2>1. PICK f \in [1..Len(s) -> Seq(X)] : Flattened(s) = f[Len(s)]
    BY <1>2, FlattenedIsJoin
  <2>2. Len(s) \in 1..Len(s)
    BY <1>2
  <2> QED BY <2>1, <2>2
<1> QED BY <1>1, <1>2

LEMMA FlattenedAppend ==
  ASSUME NEW X, NEW s \in Seq(Seq(X)), NEW x \in Seq(X)
  PROVE  Flattened(Append(s, x)) = Flattened(s) \o x
<1>1. PICK n \in Nat : n = Len(s)
  OBVIOUS
<1>2. PICK t \in Seq(Seq(X)) : t = Append(s, x)
  BY AppendProperties
<1>3. Len(t) = n + 1 /\ t[n + 1] = x /\ t # <<>>
  <2>1. Len(t) = n + 1
    BY <1>1, <1>2
  <2>2. t[n + 1] = x
    BY <1>1, <1>2
  <2> QED BY <2>1, <2>2
<1>4. \A i \in 1..n : s[i] = t[i]
  BY <1>1, <1>2
<1>5. PICK g : g \in [1..n + 1 -> Seq(X)] /\ Joins(t, n + 1, g) /\ Flattened(t) = g[n + 1]
  BY <1>3, FlattenedIsJoin
<1>6. \A k \in 1..n + 1 : g[k] = IF k = 1 THEN t[k] ELSE g[k - 1] \o t[k]
  BY <1>5 DEF Joins
<1>7. CASE s = <<>>
  <2>1. g[1] = x /\ n = 0
    BY <1>1, <1>3, <1>6, <1>7
  <2>2. Flattened(s) \o x = x
    BY <1>7, FlattenedEmpty
  <2> QED BY <1>2, <1>5, <2>1, <2>2
<1>8. CASE s # <<>>
  <2>1. PICK f : f \in [1..n -> Seq(X)] /\ Joins(s, n, f) /\ Flattened(s) = f[n]
    BY <1>1, <1>8, FlattenedIsJoin
  <2>2. n # 0 /\ n \in 1..n /\ n + 1 \in 1..n + 1 /\ n + 1 # 1 /\ (n + 1) - 1 = n
    BY <1>1, <1>8
  <2>3. \A i \in 1..n : f[i] = g[i]
    <3>1. JoinsTo(s, n, f)
      BY <2>1 DEF Joins, JoinsTo
    <3>2. JoinsTo(s, n, g)
      <4>1. \A i \in 1..n : i \in 1..n + 1 /\ s[i] = t[i]
        BY <1>4
      <4> QED BY <1>6, <4>1 DEF JoinsTo
    <3> QED BY <3>1, <3>2, JoinUnique
  <2>4. g[n + 1] = g[n] \o x
    BY <1>3, <1>6, <2>2
  <2> QED BY <1>2, <1>5, <2>1, <2>2, <2>3, <2>4
<1> QED BY <1>7, <1>8

(* Members in order, pair by pair in R; lists one after the other.           *)
Occurs(x, s) == \E i \in 1..Len(s) : s[i] = x

OrderedBy(s, R) == \A i, j \in 1..Len(s) : i < j => <<s[i], s[j]>> \in R

OrderedLists(lists, R) ==
  /\ \A k \in 1..Len(lists) : OrderedBy(lists[k], R)
  /\ \A k, l \in 1..Len(lists) :
       k < l => \A x, y : Occurs(x, lists[k]) /\ Occurs(y, lists[l]) => <<x, y>> \in R

LEMMA JoinedOrder ==
  ASSUME NEW X, NEW s \in Seq(X), NEW t \in Seq(X), NEW R
  PROVE  /\ \A x : Occurs(x, s \o t) <=> Occurs(x, s) \/ Occurs(x, t)
         /\ /\ OrderedBy(s, R) /\ OrderedBy(t, R)
            /\ \A x, y : Occurs(x, s) /\ Occurs(y, t) => <<x, y>> \in R
            => OrderedBy(s \o t, R)
<1>1. PICK m \in Nat : m = Len(s)
  OBVIOUS
<1>2. PICK n \in Nat : n = Len(t)
  OBVIOUS
<1>3. PICK u : u = s \o t
  OBVIOUS
<1>4. /\ Len(u) = m + n
      /\ \A i \in 1..m : u[i] = s[i] /\ i \in 1..m + n
      /\ \A i \in 1..n : u[m + i] = t[i] /\ m + i \in 1..m + n
  <2>1. u \in Seq(X) /\ Len(u) = m + n
    BY <1>1, <1>2, <1>3
  <2>2. ASSUME NEW i \in 1..m PROVE u[i] = s[i] /\ i \in 1..m + n
    BY <1>1, <1>2, <1>3
  <2>3. ASSUME NEW i \in 1..n PROVE u[m + i] = t[i] /\ m + i \in 1..m + n
    BY <1>1, <1>2, <1>3
  <2> QED BY <2>1, <2>2, <2>3
<1>5. ASSUME NEW i \in 1..m + n PROVE i \in 1..m \/ \E k \in 1..n : i = m + k
  <2>1. CASE i <= m
    BY <2>1
  <2>2. CASE i > m
    <3>1. i - m \in 1..n /\ i = m + (i - m)
      BY <2>2
    <3> QED BY <3>1
  <2> QED BY <2>1, <2>2
<1>6. \A x : Occurs(x, u) <=> Occurs(x, s) \/ Occurs(x, t)
  <2>1. ASSUME NEW x, Occurs(x, u) PROVE Occurs(x, s) \/ Occurs(x, t)
    <3>1. PICK i \in 1..m + n : u[i] = x
      BY <1>4, <2>1 DEF Occurs
    <3> QED BY <1>1, <1>2, <1>4, <1>5, <3>1 DEF Occurs
  <2>2. ASSUME NEW x, Occurs(x, s) \/ Occurs(x, t) PROVE Occurs(x, u)
    BY <1>1, <1>2, <1>4, <2>2 DEF Occurs
  <2> QED BY <2>1, <2>2
<1>7. ASSUME OrderedBy(s, R), OrderedBy(t, R),
             \A x, y : Occurs(x, s) /\ Occurs(y, t) => <<x, y>> \in R
      PROVE  OrderedBy(u, R)
  <2> SUFFICES ASSUME NEW i \in 1..m + n, NEW j \in 1..m + n, i < j PROVE <<u[i], u[j]>> \in R
    BY <1>4 DEF OrderedBy
  <2>1. CASE j \in 1..m
    <3>1. i \in 1..m
      BY <2>1
    <3> QED BY <1>1, <1>4, <1>7, <2>1, <3>1 DEF OrderedBy
  <2>2. CASE \E l \in 1..n : j = m + l
    <3>1. PICK l \in 1..n : j = m + l
      BY <2>2
    <3>2. CASE i \in 1..m
      <4>1. Occurs(u[i], s) /\ Occurs(u[j], t)
        BY <1>1, <1>2, <1>4, <3>1, <3>2 DEF Occurs
      <4> QED BY <1>7, <4>1
    <3>3. CASE \E k \in 1..n : i = m + k
      <4>1. PICK k \in 1..n : i = m + k
        BY <3>3
      <4>2. k < l
        BY <3>1, <4>1
      <4>3. <<t[k], t[l]>> \in R
        BY <1>2, <1>7, <4>2 DEF OrderedBy
      <4> QED BY <1>4, <3>1, <4>1, <4>3
    <3> QED BY <1>5, <3>2, <3>3
  <2> QED BY <1>5, <2>1, <2>2
<1> QED BY <1>3, <1>6, <1>7

JoinsLists(lists, R) ==
  /\ \A x : Occurs(x, Flattened(lists)) <=> \E k \in 1..Len(lists) : Occurs(x, lists[k])
  /\ OrderedLists(lists, R) => OrderedBy(Flattened(lists), R)

(* The members of the lists are joined, in order when the lists are.         *)
LEMMA FlattenedOrder ==
  ASSUME NEW X, NEW R
  PROVE  \A lists \in Seq(Seq(X)) : JoinsLists(lists, R)
<1> DEFINE S == {lists \in Seq(Seq(X)) : JoinsLists(lists, R)}
<1>1. <<>> \in S
  <2>1. <<>> \in Seq(Seq(X)) /\ Len(<<>>) = 0
    OBVIOUS
  <2>2. Flattened(<<>>) = <<>>
    BY FlattenedEmpty
  <2> QED BY <2>1, <2>2 DEF JoinsLists, Occurs, OrderedBy
<1>2. ASSUME NEW lists \in Seq(Seq(X)), NEW s \in Seq(X), lists \in S
      PROVE  Append(lists, s) \in S
  <2>1. PICK t \in Seq(Seq(X)) : t = Append(lists, s)
    BY AppendProperties
  <2>2. PICK n \in Nat : n = Len(lists)
    OBVIOUS
  <2>3. Len(t) = n + 1 /\ t[n + 1] = s /\ \A k \in 1..n : t[k] = lists[k] /\ k \in 1..n + 1
    <3>1. Len(t) = n + 1 /\ t[n + 1] = s
      BY <2>1, <2>2
    <3>2. ASSUME NEW k \in 1..n PROVE t[k] = lists[k] /\ k \in 1..n + 1
      BY <2>1, <2>2
    <3> QED BY <3>1, <3>2
  <2>4. PICK u \in Seq(X) : u = Flattened(lists)
    BY FlattenedType
  <2>5. Flattened(t) = u \o s
    BY <2>1, <2>4, FlattenedAppend
  <2>6. /\ \A x : Occurs(x, u) <=> \E k \in 1..n : Occurs(x, lists[k])
        /\ OrderedLists(lists, R) => OrderedBy(u, R)
    BY <1>2, <2>2, <2>4 DEF JoinsLists
  <2>7. /\ \A x : Occurs(x, u \o s) <=> Occurs(x, u) \/ Occurs(x, s)
        /\ /\ OrderedBy(u, R) /\ OrderedBy(s, R)
           /\ \A x, y : Occurs(x, u) /\ Occurs(y, s) => <<x, y>> \in R
           => OrderedBy(u \o s, R)
    BY JoinedOrder
  <2>8. \A k \in 1..n + 1 : k \in 1..n \/ k = n + 1
    OBVIOUS
  <2>9. \A x : Occurs(x, u \o s) <=> \E k \in 1..n + 1 : Occurs(x, t[k])
    <3>1. n + 1 \in 1..n + 1
      OBVIOUS
    <3> QED BY <2>3, <2>6, <2>7, <2>8, <3>1
  <2>10. ASSUME OrderedLists(t, R) PROVE OrderedBy(u \o s, R)
    <3>1. /\ \A k \in 1..n + 1 : OrderedBy(t[k], R)
          /\ \A k, l \in 1..n + 1 :
               k < l => \A x, y : Occurs(x, t[k]) /\ Occurs(y, t[l]) => <<x, y>> \in R
      BY <2>3, <2>10 DEF OrderedLists
    <3>2. n + 1 \in 1..n + 1 /\ \A k \in 1..n : k < n + 1
      OBVIOUS
    <3>3. OrderedBy(s, R)
      BY <2>3, <3>1, <3>2
    <3>4. OrderedLists(lists, R)
      BY <2>2, <2>3, <3>1 DEF OrderedLists
    <3>5. \A x, y : Occurs(x, u) /\ Occurs(y, s) => <<x, y>> \in R
      BY <2>3, <2>6, <3>1, <3>2
    <3> QED BY <2>6, <2>7, <3>3, <3>4, <3>5
  <2>11. JoinsLists(t, R)
    BY <2>3, <2>5, <2>9, <2>10 DEF JoinsLists
  <2> QED BY <2>1, <2>11
<1> HIDE DEF S
<1>3. \A lists \in Seq(Seq(X)) : lists \in S
  BY <1>1, <1>2, SequenceInduction
<1> QED BY <1>3 DEF S
=============================================================================
