---------------------------- MODULE FiniteFacts -----------------------------
(***************************************************************************)
(* Facts about finite sets that the proofs of several components need and  *)
(* the library does not state: least, greatest and best elements, ranks,   *)
(* images.                                                                 *)
(***************************************************************************)
EXTENDS FiniteSets, FiniteSetsExt, Integers, FiniteSetTheorems,
        WellFoundedInduction, TLAPS

(* A nonempty set of naturals has a least element.                         *)
LEMMA LeastExists ==
  ASSUME NEW S \in SUBSET Nat, S # {}
  PROVE  Min(S) \in S /\ \A y \in S : Min(S) <= y
<1>1. PICK x \in S : \A y \in S : <<y, x>> \notin OpToRel(<, Nat)
  BY NatLessThanWellFounded, WFMin
<1>2. \A y \in S : x <= y
  <2>1. ASSUME NEW y \in S PROVE x <= y
    <3>1. x \in Nat /\ y \in Nat
      OBVIOUS
    <3>2. ~ (y < x)
      BY <1>1, <3>1 DEF OpToRel
    <3> QED BY <3>1, <3>2
  <2> QED BY <2>1
<1> QED BY <1>2, Zenon DEF Min

(* A finite set with a total, transitive order has a best element.         *)
LEMMA BestExists ==
  ASSUME NEW S, IsFiniteSet(S), S # {}, NEW R,
         \A x, y \in S : <<x, y>> \in R \/ <<y, x>> \in R,
         \A x, y, z \in S : <<x, y>> \in R /\ <<y, z>> \in R => <<x, z>> \in R
  PROVE  \E x \in S : \A y \in S : <<x, y>> \in R
<1> DEFINE Beats(x) == {y \in S : <<x, y>> \notin R}     \* those before x
           counts == {Cardinality(Beats(x)) : x \in S}
<1>1. \A x \in S : IsFiniteSet(Beats(x)) /\ Cardinality(Beats(x)) \in Nat
  BY FS_Subset, FS_CardinalityType
<1>2. PICK x \in S : \A y \in S : Cardinality(Beats(x)) <= Cardinality(Beats(y))
  <2> HIDE DEF Beats
  <2>1. counts \in SUBSET Nat /\ counts # {}
    BY <1>1
  <2>2. Min(counts) \in counts /\ \A c \in counts : Min(counts) <= c
    BY <2>1, LeastExists, Zenon
  <2>3. PICK x \in S : Cardinality(Beats(x)) = Min(counts)
    BY <2>2
  <2>4. \A y \in S : Cardinality(Beats(y)) \in counts
    OBVIOUS
  <2> QED BY <2>2, <2>3, <2>4
<1>3. ASSUME NEW y \in S, <<x, y>> \notin R PROVE FALSE
  <2>1. <<y, x>> \in R /\ <<y, y>> \in R
    BY <1>3
  <2>2. Beats(y) \subseteq Beats(x)
    BY <2>1
  <2>3. y \in Beats(x) /\ y \notin Beats(y)
    BY <1>3, <2>1
  <2>4. Beats(y) \in SUBSET Beats(x) /\ Beats(y) # Beats(x)
    BY <2>2, <2>3
  <2> HIDE DEF Beats
  <2>5. Cardinality(Beats(y)) <= Cardinality(Beats(x))
        /\ Cardinality(Beats(y)) # Cardinality(Beats(x))
    BY <1>1, <2>4, FS_Subset
  <2> QED BY <1>1, <1>2, <2>5
<1> QED BY <1>3

(* So a finite nonempty set of naturals has a greatest one.                *)
LEMMA MaxExists ==
  ASSUME NEW S \in SUBSET Nat, IsFiniteSet(S), S # {}
  PROVE  Max(S) \in S /\ \A y \in S : y <= Max(S)
<1> DEFINE R == {p \in S \X S : p[2] <= p[1]}
<1>1. \A x, y \in S : <<x, y>> \in R <=> y <= x
  OBVIOUS
<1> HIDE DEF R
<1>2. /\ \A x, y \in S : <<x, y>> \in R \/ <<y, x>> \in R
      /\ \A x, y, z \in S : <<x, y>> \in R /\ <<y, z>> \in R => <<x, z>> \in R
  BY <1>1
<1>3. PICK x \in S : \A y \in S : <<x, y>> \in R
  BY <1>2, BestExists
<1>4. \A y \in S : x >= y
  BY <1>1, <1>3
<1>5. Max(S) \in S /\ \A y \in S : Max(S) >= y
  BY <1>4, Zenon DEF Max
<1> QED BY <1>5

(* In a finite set with a strict total order every member has as its rank  *)
(* the number of those before it, and every rank is somebody's.            *)
LEMMA RanksFill ==
  ASSUME NEW S, IsFiniteSet(S), NEW R,
         \A x \in S : <<x, x>> \notin R,
         \A x, y \in S : x # y => <<x, y>> \in R \/ <<y, x>> \in R,
         \A x, y, z \in S : <<x, y>> \in R /\ <<y, z>> \in R => <<x, z>> \in R
  PROVE  \E rank \in [S -> 0 .. (Cardinality(S) - 1)] :
           /\ \A x \in S : rank[x] = Cardinality({y \in S : <<y, x>> \in R})
           /\ \A x, y \in S : rank[x] = rank[y] => x = y
           /\ \A i \in 1 .. Cardinality(S) : \E x \in S : rank[x] = i - 1
<1> DEFINE n == Cardinality(S)
           Before(x) == {y \in S : <<y, x>> \in R}
           rank == [x \in S |-> Cardinality(Before(x))]
<1>1. n \in Nat
  BY FS_CardinalityType
<1>2. \A x \in S : IsFiniteSet(Before(x)) /\ Cardinality(Before(x)) \in Nat
  BY FS_Subset, FS_CardinalityType
<1>3. ASSUME NEW x \in S PROVE Cardinality(Before(x)) \in 0 .. (n-1)
  <2>1. Before(x) \in SUBSET S /\ x \notin Before(x)
    OBVIOUS
  <2> HIDE DEF Before
  <2>2. Cardinality(Before(x)) <= n /\ Cardinality(Before(x)) # n
    BY <2>1, FS_Subset
  <2> QED BY <1>1, <1>2, <2>2
<1>4. ASSUME NEW x \in S, NEW y \in S, <<x, y>> \in R
      PROVE  Cardinality(Before(x)) # Cardinality(Before(y))
  <2>1. Before(x) \in SUBSET Before(y)
    BY <1>4
  <2>2. x \in Before(y) /\ x \notin Before(x)
    BY <1>4
  <2> HIDE DEF Before
  <2> QED BY <1>2, <2>1, <2>2, FS_Subset
<1> HIDE DEF Before
<1>5. \A x, y \in S : Cardinality(Before(x)) = Cardinality(Before(y)) => x = y
  BY <1>4, Zenon
<1>6. rank \in Injection(S, 0 .. (n-1))
  BY <1>3, <1>5 DEF Injection, IsInjective
<1>7. IsFiniteSet(0 .. (n-1)) /\ Cardinality(0 .. (n-1)) = n
  <2>1. /\ IsFiniteSet(0 .. (n-1))
        /\ Cardinality(0 .. (n-1)) = IF 0 > n-1 THEN 0 ELSE (n-1) - 0 + 1
    <3>1. 0 \in Int /\ n - 1 \in Int
      BY <1>1
    <3> HIDE DEF n
    <3> QED BY <3>1, FS_Interval
  <2> QED BY <1>1, <2>1
<1>8. rank \in Surjection(S, 0 .. (n-1))
  BY <1>6, <1>7, FS_Injection
<1>9. ASSUME NEW i \in 1 .. n PROVE \E x \in S : Cardinality(Before(x)) = i - 1
  <2>1. i - 1 \in 0 .. (n-1)
    BY <1>1
  <2> QED BY <1>8, <2>1 DEF Surjection
<1>10. /\ rank \in [S -> 0 .. (n-1)]
       /\ \A x \in S : rank[x] = Cardinality(Before(x))
  BY <1>3
<1>11. /\ \A x, y \in S : rank[x] = rank[y] => x = y
       /\ \A i \in 1 .. n : \E x \in S : rank[x] = i - 1
  BY <1>5, <1>9
<1> HIDE DEF rank
<1> QED BY <1>10, <1>11 DEF Before

(* The image of a finite set is finite.                                    *)
LEMMA ImageIsFinite ==
  ASSUME NEW S, IsFiniteSet(S), NEW f, DOMAIN f = S
  PROVE  IsFiniteSet({f[x] : x \in S})
<1> DEFINE T == {f[x] : x \in S}
           g == [x \in S |-> f[x]]
<1>1. g \in Surjection(S, T)
  BY DEF Surjection
<1> HIDE DEF T, g
<1> QED BY <1>1, FS_Surjection DEF T

(* Of two numbers the greater, and the lesser.                             *)
LEMMA MaxOfTwo ==
  ASSUME NEW a \in Int, NEW b \in Int
  PROVE  Max({a, b}) = IF a >= b THEN a ELSE b
<1>1. CASE a >= b
  <2>1. \A x \in {a, b} : (\A y \in {a, b} : x >= y) <=> x = a
    BY <1>1
  <2>2. Max({a, b}) = CHOOSE x \in {a, b} : \A y \in {a, b} : x >= y
    BY DEF Max
  <2> QED BY <1>1, <2>1, <2>2
<1>2. CASE ~(a >= b)
  <2>1. \A x \in {a, b} : (\A y \in {a, b} : x >= y) <=> x = b
    BY <1>2
  <2>2. Max({a, b}) = CHOOSE x \in {a, b} : \A y \in {a, b} : x >= y
    BY DEF Max
  <2> QED BY <1>2, <2>1, <2>2
<1> QED BY <1>1, <1>2

LEMMA MinOfTwo ==
  ASSUME NEW a \in Int, NEW b \in Int
  PROVE  Min({a, b}) = IF a <= b THEN a ELSE b
<1>1. CASE a <= b
  <2>1. \A x \in {a, b} : (\A y \in {a, b} : x <= y) <=> x = a
    BY <1>1
  <2>2. Min({a, b}) = CHOOSE x \in {a, b} : \A y \in {a, b} : x <= y
    BY DEF Min
  <2> QED BY <1>1, <2>1, <2>2
<1>2. CASE ~(a <= b)
  <2>1. \A x \in {a, b} : (\A y \in {a, b} : x <= y) <=> x = b
    BY <1>2
  <2>2. Min({a, b}) = CHOOSE x \in {a, b} : \A y \in {a, b} : x <= y
    BY DEF Min
  <2> QED BY <1>2, <2>1, <2>2
<1> QED BY <1>1, <1>2

=============================================================================
