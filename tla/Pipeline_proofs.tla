--------------------------- MODULE Pipeline_proofs ---------------------------
(***************************************************************************)
(* What the dark matchers return, for every set of darks and of lights:    *)
(* sorting loses nothing, a bundle's choice serves every exposure a dark   *)
(* serves, and so does the choice for a frame.  Then theorems about        *)
(* Pipeline, for every catalog of sessions and darks, every set of         *)
(* requests and hosts, and every value of the bounds: programs, promised   *)
(* darks, and last the progress bar.                                       *)
(***************************************************************************)
EXTENDS Pipeline, FiniteFacts

-----------------------------------------------------------------------------
(* Sorting.                                                                *)

LEMMA OrderedIsSequence ==
  ASSUME NEW S, IsFiniteSet(S), NEW R
  PROVE  Cardinality(S) \in Nat /\ DOMAIN Ordered(S, R) = 1 .. Cardinality(S)
BY FS_CardinalityType DEF Ordered

(* A strict total order puts every member of a finite set somewhere.       *)
LEMMA OrderedHasAll ==
  ASSUME NEW S, IsFiniteSet(S), NEW R,
         \A x \in S : <<x, x>> \notin R,
         \A x, y \in S : x # y => <<x, y>> \in R \/ <<y, x>> \in R,
         \A x, y, z \in S : <<x, y>> \in R /\ <<y, z>> \in R => <<x, z>> \in R
  PROVE  /\ \A i \in DOMAIN Ordered(S, R) : Ordered(S, R)[i] \in S
         /\ \A x \in S : \E i \in DOMAIN Ordered(S, R) : Ordered(S, R)[i] = x
<1> DEFINE n == Cardinality(S)
           Rank(x) == Cardinality({y \in S : <<y, x>> \in R})
<1>1. n \in Nat /\ DOMAIN Ordered(S, R) = 1 .. n
  BY OrderedIsSequence
<1>2. /\ \A x \in S : Rank(x) \in 0 .. (n-1)
      /\ \A x, y \in S : Rank(x) = Rank(y) => x = y
      /\ \A i \in 1 .. n : \E x \in S : Rank(x) = i - 1
  <2>1. PICK rank \in [S -> 0 .. (n-1)] :
          /\ \A x \in S : rank[x] = Rank(x)
          /\ \A x, y \in S : rank[x] = rank[y] => x = y
          /\ \A i \in 1 .. n : \E x \in S : rank[x] = i - 1
    BY RanksFill
  <2> HIDE DEF Rank
  <2> QED BY <2>1
<1>3. \A i \in 1 .. n : Ordered(S, R)[i] = CHOOSE x \in S : Rank(x) = i - 1
  BY DEF Ordered
<1> HIDE DEF Rank
<1>4. \A i \in 1 .. n : Ordered(S, R)[i] \in S /\ Rank(Ordered(S, R)[i]) = i - 1
  BY <1>2, <1>3, Zenon
<1>5. ASSUME NEW x \in S PROVE \E i \in 1 .. n : Ordered(S, R)[i] = x
  <2>1. Rank(x) + 1 \in 1 .. n /\ (Rank(x) + 1) - 1 = Rank(x)
    BY <1>1, <1>2
  <2> QED BY <1>2, <1>4, <2>1
<1> QED BY <1>1, <1>4, <1>5

-----------------------------------------------------------------------------
(* The matchers.                                                           *)

LEMMA CandidatesAreDarks ==
  ASSUME NEW exp, NEW s, NEW S \in SUBSET Candidates(exp, s)
  PROVE  /\ IsFiniteSet(S) /\ S \subseteq Ids /\ S \subseteq Nat
         /\ \A i \in S : Darks[i].temp \in Int /\ Darks[i].depth \in Int
<1>1. S \in SUBSET Ids
  BY DEF Candidates
<1> QED BY <1>1, DarksAssumption, FS_Subset

(* max() and min() of a nonempty list of rows return one of them.          *)
LEMMA DeepestIsOne ==
  ASSUME NEW S \in SUBSET Ids, S # {} PROVE Deepest(S) \in S
<1> DEFINE R == {p \in S \X S : Darks[p[2]].depth <= Darks[p[1]].depth}
           best == {i \in S : \A j \in S : Darks[j].depth <= Darks[i].depth}
<1>1. IsFiniteSet(S) /\ S \subseteq Nat /\ \A i \in S : Darks[i].depth \in Int
  BY DarksAssumption, FS_Subset
<1>2. \A i, j \in S : <<i, j>> \in R <=> Darks[j].depth <= Darks[i].depth
  OBVIOUS
<1>3. /\ \A i, j \in S : <<i, j>> \in R \/ <<j, i>> \in R
      /\ \A i, j, k \in S : <<i, j>> \in R /\ <<j, k>> \in R => <<i, k>> \in R
  BY <1>1, <1>2
<1> HIDE DEF R
<1>4. \E i \in S : \A j \in S : <<i, j>> \in R
  BY <1>1, <1>3, BestExists
<1>5. best # {} /\ best \in SUBSET Nat
  BY <1>1, <1>2, <1>4
<1>6. Min(best) \in best
  BY <1>5, LeastExists
<1> QED BY <1>6 DEF Deepest

LEMMA AwayIsInt ==
  ASSUME NEW i \in Ids, NEW sum \in Int, NEW n \in Nat \ {0}
  PROVE  Away(i, sum, n) \in Nat /\ StepsAway(i, sum, n) \in Int
<1>1. OrZero(Darks[i].temp) \in Int
  BY DarksAssumption DEF OrZero
<1>2. OrZero(Darks[i].temp) * n \in Int
  BY <1>1
<1>3. Away(i, sum, n) \in Nat
  BY <1>2 DEF Away, Distance
<1>4. DARK_STACK_BIN_C * n \in Nat \ {0}
  BY DEF DARK_STACK_BIN_C
<1> QED BY <1>3, <1>4 DEF StepsAway

LEMMA BestScoreIsOne ==
  ASSUME NEW S \in SUBSET Ids, S # {}, NEW sum \in Int, NEW n \in Nat \ {0}
  PROVE  BestScore(S, sum, n) \in S
<1> DEFINE R == {p \in S \X S : NotBehind(p[1], p[2], sum, n)}
           best == {i \in S : \A j \in S : NotBehind(i, j, sum, n)}
<1>1. /\ IsFiniteSet(S) /\ S \subseteq Nat
      /\ \A i \in S : Darks[i].depth \in Int /\ StepsAway(i, sum, n) \in Int
  BY DarksAssumption, FS_Subset, AwayIsInt
<1>2. \A i, j \in S : <<i, j>> \in R <=> NotBehind(i, j, sum, n)
  OBVIOUS
<1>3. /\ \A i, j \in S : <<i, j>> \in R \/ <<j, i>> \in R
      /\ \A i, j, k \in S : <<i, j>> \in R /\ <<j, k>> \in R => <<i, k>> \in R
  <2> HIDE DEF R
  <2> QED BY <1>1, <1>2 DEF NotBehind
<1> HIDE DEF R
<1>4. \E i \in S : \A j \in S : <<i, j>> \in R
  BY <1>1, <1>3, BestExists
<1>5. best # {} /\ best \in SUBSET Nat
  BY <1>1, <1>2, <1>4
<1>6. Min(best) \in best
  BY <1>5, LeastExists
<1> QED BY <1>6 DEF BestScore

LEMMA NearestIsOne ==
  ASSUME NEW S \in SUBSET Ids, S # {}, NEW t \in Int PROVE Nearest(S, t) \in S
<1> DEFINE R == {p \in S \X S : Away(p[1], t, 1) <= Away(p[2], t, 1)}
           best == {i \in S : \A j \in S : Away(i, t, 1) <= Away(j, t, 1)}
<1>1. /\ IsFiniteSet(S) /\ S \subseteq Nat
      /\ \A i \in S : Away(i, t, 1) \in Nat
  <2>1. 1 \in Nat \ {0}
    OBVIOUS
  <2> QED BY <2>1, DarksAssumption, FS_Subset, AwayIsInt
<1>2. \A i, j \in S : <<i, j>> \in R <=> Away(i, t, 1) <= Away(j, t, 1)
  OBVIOUS
<1>3. /\ \A i, j \in S : <<i, j>> \in R \/ <<j, i>> \in R
      /\ \A i, j, k \in S : <<i, j>> \in R /\ <<j, k>> \in R => <<i, k>> \in R
  <2> HIDE DEF R
  <2> QED BY <1>1, <1>2
<1> HIDE DEF R
<1>4. \E i \in S : \A j \in S : <<i, j>> \in R
  BY <1>1, <1>3, BestExists
<1>5. best # {} /\ best \in SUBSET Nat
  BY <1>1, <1>2, <1>4
<1>6. Min(best) \in best
  BY <1>5, LeastExists
<1> QED BY <1>6 DEF Nearest

(* A bin with a candidate gets one, however far its temperature is.        *)
LEMMA BinIsServed ==
  ASSUME NEW bin, NEW s, bin.temp \in Int, Candidates(bin.exp, s) # {}
  PROVE  BestDarkForBin(bin, s) \in Candidates(bin.exp, s)
<1> DEFINE C == Candidates(bin.exp, s)
           near == InTolerance(C, bin.temp, 1)
<1>1. C \in SUBSET Ids /\ near \in SUBSET C /\ near \in SUBSET Ids
  BY DEF Candidates, InTolerance
<1> HIDE DEF C, near
<1>2. C # {} /\ 1 \in Nat \ {0}
  BY DEF C
<1>3. Deepest(C) \in C /\ Nearest(C, bin.temp) \in C
  BY <1>1, <1>2, DeepestIsOne, NearestIsOne
<1>4. near # {} => BestScore(near, bin.temp, 1) \in near
  BY <1>1, <1>2, BestScoreIsOne
<1>5. BestDarkForBin(bin, s)
        = IF C = {} THEN NoDark
          ELSE IF bin.temp = None THEN Deepest(C)
          ELSE IF near # {} THEN BestScore(near, bin.temp, 1)
          ELSE Nearest(C, bin.temp)
  BY DEF BestDarkForBin, C, near
<1> QED BY <1>1, <1>2, <1>3, <1>4, <1>5 DEF C

(* What is on the cards of a header are numbers.                           *)
Carded(l) == \A key \in DOMAIN l.header : l.header[key] \in Int
Measured(lights) == IsFiniteSet(lights) /\ \A l \in lights : Carded(l)

(* Whatever card is read, by the scanner or by the node, gives a number.   *)
LEMMA CardsAreNumbers ==
  ASSUME NEW l, Carded(l)
  PROVE  {RowExp(l), RowTemp(l), Gain(l), HeaderExp(l), HeaderTemp(l)} \subseteq Int
<1>1. ASSUME NEW key PROVE Card(l, key) \in Int
  BY DEF Card, None, Carded
<1>2. ASSUME NEW a \in Int, NEW b \in Int PROVE Or(a, b) \in Int
  BY DEF Or
<1>3. RowExp(l) \in Int /\ RowTemp(l) \in Int
  BY <1>1, <1>2 DEF RowExp, RowTemp
<1>4. Gain(l) \in Int /\ HeaderExp(l) \in Int /\ HeaderTemp(l) \in Int
  BY <1>1 DEF Gain, HeaderExp, HeaderTemp
<1> QED BY <1>3, <1>4

LEMMA BinsAreFinite ==
  ASSUME NEW lights, Measured(lights)
  PROVE  IsFiniteSet(Bins(lights)) /\ \A b \in Bins(lights) : b.exp \in Int /\ b.temp \in Int
<1> DEFINE rows == {m \in lights : RowExp(m) # None}
           bin == [l \in rows |-> Bin(l)]
<1>1. IsFiniteSet(rows)
  BY FS_Subset DEF Measured
<1>2. bin \in Surjection(rows, Bins(lights))
  BY DEF Surjection, Bins
<1>3. IsFiniteSet(Bins(lights))
  <2> HIDE DEF rows, bin
  <2> QED BY <1>1, <1>2, FS_Surjection
<1>4. ASSUME NEW l \in lights PROVE Bin(l).exp \in Int /\ Bin(l).temp \in Int
  <2>1. RowExp(l) \in Int /\ RowTemp(l) \in Int
    BY CardsAreNumbers DEF Measured
  <2>2. Trunc(RowTemp(l), 2) \in Int
    BY <2>1 DEF Trunc
  <2>3. BinTemp(RowTemp(l)) \in Int
    BY <2>1, <2>2 DEF BinTemp, None, DARK_STACK_BIN_C
  <2> QED BY <2>1, <2>3 DEF Bin
<1>5. \A b \in Bins(lights) : b.exp \in Int /\ b.temp \in Int
  BY <1>4 DEF Bins
<1> QED BY <1>3, <1>5

(* Sorting the bins loses none.                                            *)
LEMMA SortedBinsAreAll ==
  ASSUME NEW lights, Measured(lights)
  PROVE  /\ DOMAIN BinsInOrder(lights) = 1 .. Cardinality(Bins(lights))
         /\ Cardinality(Bins(lights)) \in Nat
         /\ \A n \in DOMAIN BinsInOrder(lights) : BinsInOrder(lights)[n] \in Bins(lights)
         /\ \A b \in Bins(lights) :
               \E n \in DOMAIN BinsInOrder(lights) : BinsInOrder(lights)[n] = b
<1> DEFINE all == Bins(lights)
           R == {p \in all \X all : \/ p[1].exp < p[2].exp
                                    \/ p[1].exp = p[2].exp /\ p[1].temp < p[2].temp}
<1>1. IsFiniteSet(all) /\ \A b \in all : b.exp \in Int /\ b.temp \in Int
  BY BinsAreFinite
<1>2. \A a, b \in all :
        <<a, b>> \in R <=> (a.exp < b.exp \/ (a.exp = b.exp /\ a.temp < b.temp))
  OBVIOUS
<1>3. \A a, b \in all : a.exp = b.exp /\ a.temp = b.temp => a = b
  BY DEF Bins, Bin
<1>4. BinsInOrder(lights) = Ordered(all, R)
  BY DEF BinsInOrder
<1> HIDE DEF all, R
<1>5. \A a \in all : <<a, a>> \notin R
  BY <1>1, <1>2
<1>6. ASSUME NEW a \in all, NEW b \in all, a # b
      PROVE  <<a, b>> \in R \/ <<b, a>> \in R
  <2>1. a.exp # b.exp \/ a.temp # b.temp
    BY <1>3, <1>6
  <2>2. {a.exp, b.exp, a.temp, b.temp} \subseteq Int
    BY <1>1
  <2>3. /\ <<a, b>> \in R <=> (a.exp < b.exp \/ (a.exp = b.exp /\ a.temp < b.temp))
        /\ <<b, a>> \in R <=> (b.exp < a.exp \/ (b.exp = a.exp /\ b.temp < a.temp))
    BY <1>2
  <2> QED BY <2>1, <2>2, <2>3
<1>7. \A a, b, c \in all : <<a, b>> \in R /\ <<b, c>> \in R => <<a, c>> \in R
  BY <1>1, <1>2
<1>8. /\ \A n \in DOMAIN Ordered(all, R) : Ordered(all, R)[n] \in all
      /\ \A b \in all : \E n \in DOMAIN Ordered(all, R) : Ordered(all, R)[n] = b
  BY <1>1, <1>5, <1>6, <1>7, OrderedHasAll
<1>9. Cardinality(all) \in Nat /\ DOMAIN Ordered(all, R) = 1 .. Cardinality(all)
  BY <1>1, OrderedIsSequence
<1> QED BY <1>4, <1>8, <1>9 DEF all

(* What a bundle hands to the node is a sequence of darks, and for every   *)
(* light that has a candidate there is one of its candidates among them.   *)
LEMMA BundleServesItsLights ==
  ASSUME NEW lights, Measured(lights), NEW s
  PROVE  LET refs == BundleDarks(lights, s) IN
         /\ refs \in Seq(Ids)
         /\ \A l \in lights : Candidates(RowExp(l), s) # {} =>
               \E k \in DOMAIN refs : refs[k] \in Candidates(RowExp(l), s)
<1> DEFINE bins == BinsInOrder(lights)
           chosen == [n \in DOMAIN bins |-> BestDarkForBin(bins[n], s)]
           firsts == {n \in DOMAIN bins :
                        /\ chosen[n] # NoDark
                        /\ \A m \in DOMAIN bins : chosen[m] = chosen[n] => n <= m}
           R == {p \in firsts \X firsts : p[1] < p[2]}
           order == Ordered(firsts, R)
           refs == BundleDarks(lights, s)
<1>1. refs = [k \in DOMAIN order |-> chosen[order[k]]]
  BY DEF BundleDarks
<1>2. PICK size \in Nat : DOMAIN bins = 1 .. size
  BY SortedBinsAreAll
<1>3. \A l \in lights : RowExp(l) # None => \E n \in DOMAIN bins : bins[n] = Bin(l)
  <2>1. \A b \in Bins(lights) : \E n \in DOMAIN bins : bins[n] = b
    BY SortedBinsAreAll
  <2> QED BY <2>1 DEF Bins
<1>4. ASSUME NEW l \in lights, RowExp(l) # None PROVE Bin(l).temp \in Int
  <2>1. Bin(l) \in Bins(lights)
    BY <1>4 DEF Bins
  <2> QED BY <2>1, BinsAreFinite
<1>5. \A n \in DOMAIN bins : chosen[n] = BestDarkForBin(bins[n], s)
  OBVIOUS
<1> HIDE DEF bins, chosen, refs
<1>6. firsts \in SUBSET Nat /\ firsts \in SUBSET (1 .. size) /\ IsFiniteSet(firsts)
  <2>1. firsts \in SUBSET (1 .. size)
    BY <1>2
  <2>2. IsFiniteSet(1 .. size)
    BY <1>2, FS_Interval
  <2>3. (1 .. size) \in SUBSET Nat
    OBVIOUS
  <2> HIDE DEF firsts
  <2>4. IsFiniteSet(firsts)
    BY <2>1, <2>2, FS_Subset
  <2> QED BY <2>1, <2>3, <2>4
<1>7. \A m, n \in firsts : <<m, n>> \in R <=> m < n
  OBVIOUS
<1>8. /\ \A n \in firsts : <<n, n>> \notin R
      /\ \A m, n \in firsts : m # n => <<m, n>> \in R \/ <<n, m>> \in R
      /\ \A l, m, n \in firsts : <<l, m>> \in R /\ <<m, n>> \in R => <<l, n>> \in R
  <2> HIDE DEF R, firsts
  <2> QED BY <1>6, <1>7
<1>9. /\ \A k \in DOMAIN order : order[k] \in firsts
      /\ \A n \in firsts : \E k \in DOMAIN order : order[k] = n
  <2> HIDE DEF R, firsts
  <2>1. /\ \A k \in DOMAIN Ordered(firsts, R) : Ordered(firsts, R)[k] \in firsts
        /\ \A n \in firsts : \E k \in DOMAIN Ordered(firsts, R) : Ordered(firsts, R)[k] = n
    <3>1. IsFiniteSet(firsts)
      BY <1>6
    <3> QED BY <1>8, <3>1, OrderedHasAll
  <2> QED BY <2>1
<1>10. \E m \in Nat : DOMAIN refs = 1 .. m
  <2>1. Cardinality(firsts) \in Nat /\ DOMAIN order = 1 .. Cardinality(firsts)
    <3> HIDE DEF R, firsts
    <3> QED BY <1>6, OrderedIsSequence
  <2>2. DOMAIN refs = DOMAIN order
    BY <1>1
  <2> QED BY <2>1, <2>2
<1>11. ASSUME NEW l \in lights, Candidates(RowExp(l), s) # {}
       PROVE  \E k \in DOMAIN refs : refs[k] \in Candidates(RowExp(l), s)
  <2> DEFINE bin == Bin(l)
  <2>0. RowExp(l) # None
    BY <1>11 DEF Candidates
  <2>1. PICK n \in DOMAIN bins : bins[n] = bin
    BY <1>3, <2>0
  <2>2. bin.exp = RowExp(l) /\ bin.temp \in Int
    BY <1>4, <2>0 DEF Bin
  <2> HIDE DEF bin
  <2>3. BestDarkForBin(bin, s) \in Candidates(RowExp(l), s)
    BY <1>11, <2>2, BinIsServed
  <2>4. chosen[n] \in Candidates(RowExp(l), s)
    BY <1>5, <2>1, <2>3
  <2>5. chosen[n] # NoDark
    BY <2>4, DarksAssumption DEF Candidates
  <2> DEFINE same == {m \in DOMAIN bins : chosen[m] = chosen[n]}
  <2>6. same \in SUBSET Nat /\ same # {}
    BY <1>2
  <2>7. Min(same) \in same /\ \A m \in same : Min(same) <= m
    <3> HIDE DEF same
    <3> QED BY <2>6, LeastExists
  <2>8. Min(same) \in firsts /\ chosen[Min(same)] = chosen[n]
    BY <2>5, <2>7
  <2>9. PICK k \in DOMAIN order : order[k] = Min(same)
    BY <1>9, <2>8
  <2>10. k \in DOMAIN refs /\ refs[k] = chosen[n]
    <3> HIDE DEF order, same
    <3> QED BY <1>1, <2>8, <2>9
  <2> QED BY <2>4, <2>10
<1>12. ASSUME NEW k \in DOMAIN refs PROVE refs[k] \in Ids
  <2>1. k \in DOMAIN order /\ refs[k] = chosen[order[k]] /\ order[k] \in firsts
    <3> HIDE DEF order, firsts
    <3> QED BY <1>1, <1>9
  <2> DEFINE n == order[k]
  <2>2. n \in DOMAIN bins /\ chosen[n] # NoDark
    BY <2>1
  <2>3. chosen[n] = BestDarkForBin(bins[n], s)
    BY <1>5, <2>2
  <2>4. bins[n].temp \in Int
    BY <2>2, SortedBinsAreAll, BinsAreFinite DEF bins
  <2> HIDE DEF n
  <2>5. Candidates(bins[n].exp, s) # {}
    BY <2>2, <2>3 DEF BestDarkForBin
  <2>6. chosen[n] \in Candidates(bins[n].exp, s)
    BY <2>3, <2>4, <2>5, BinIsServed
  <2> QED BY <2>1, <2>6 DEF Candidates, n
<1>13. refs \in Seq(Ids)
  <2>1. PICK m \in Nat : DOMAIN refs = 1 .. m
    BY <1>10
  <2>2. refs = [k \in 1 .. m |-> refs[k]]
    BY <1>1, <2>1
  <2>3. \A k \in 1 .. m : refs[k] \in Ids
    BY <1>12, <2>1
  <2>4. [k \in 1 .. m |-> refs[k]] \in [1 .. m -> Ids]
    BY <2>3
  <2> QED BY <2>2, <2>4
<1> QED BY <1>11, <1>13 DEF refs

(* A frame gets no dark, or one of the exposure in its header; it gets one *)
(* if the pool has any of that exposure and its gain.                      *)
LEMMA FrameIsServed ==
  ASSUME NEW l, Carded(l), NEW refs \in Seq(Ids)
  PROVE  LET d == PickDark(l, refs) IN
         /\ d = NoDark \/ (d \in Ids /\ Darks[d].exp = HeaderExp(l))
         /\ HeaderExp(l) # None => \A k \in DOMAIN refs :
              Darks[refs[k]].exp = HeaderExp(l) /\ Darks[refs[k]].gain = Gain(l) => d # NoDark
<1> DEFINE same == {k \in DOMAIN refs :
                      /\ None \notin {Darks[refs[k]].exp, HeaderExp(l)}
                      /\ Darks[refs[k]].exp = HeaderExp(l)
                      /\ \/ None \in {Darks[refs[k]].gain, Gain(l)}
                         \/ Darks[refs[k]].gain = Gain(l)}
           away(k) == IF Darks[refs[k]].temp = None THEN -None
                      ELSE Distance(Darks[refs[k]].temp, HeaderTemp(l))
           R == {p \in same \X same : away(p[1]) <= away(p[2])}
           nearest == {k \in same : \A j \in same : away(k) <= away(j)}
<1>0. PICK m \in Nat : DOMAIN refs = 1 .. m
  OBVIOUS
<1>1. PickDark(l, refs) = IF same = {} THEN NoDark
                          ELSE IF HeaderTemp(l) = None THEN refs[Min(same)]
                          ELSE refs[Min(nearest)]
  BY DEF PickDark
<1>2. same \in SUBSET Nat /\ same \in SUBSET (1 .. m)
  BY <1>0
<1>3. \A k \in same : refs[k] \in Ids /\ Darks[refs[k]].exp = HeaderExp(l)
  OBVIOUS
<1>4. ASSUME NEW k \in same PROVE away(k) \in Int
  <2>1. Darks[refs[k]].temp \in Int
    BY <1>3, DarksAssumption
  <2>2. HeaderTemp(l) \in Int
    BY CardsAreNumbers
  <2> HIDE DEF same
  <2> QED BY <2>1, <2>2 DEF Distance, None
<1>5. IsFiniteSet(same)
  <2>1. IsFiniteSet(1 .. m)
    <3>1. 1 \in Int /\ m \in Int
      OBVIOUS
    <3> QED BY <3>1, FS_Interval, Zenon
  <2> HIDE DEF same
  <2> QED BY <1>2, <2>1, FS_Subset
<1>6. \A j, k \in same : <<j, k>> \in R <=> away(j) <= away(k)
  OBVIOUS
<1>7. /\ \A i, j \in same : <<i, j>> \in R \/ <<j, i>> \in R
      /\ \A i, j, k \in same : <<i, j>> \in R /\ <<j, k>> \in R => <<i, k>> \in R
  <2> HIDE DEF R, same, away
  <2> QED BY <1>4, <1>6
<1> HIDE DEF R, same, away
<1>8. CASE same = {}
  <2>1. PickDark(l, refs) = NoDark
    BY <1>1, <1>8
  <2>2. HeaderExp(l) # None =>
          ~ \E k \in DOMAIN refs : /\ Darks[refs[k]].exp = HeaderExp(l)
                                   /\ Darks[refs[k]].gain = Gain(l)
    BY <1>8 DEF same
  <2> QED BY <2>1, <2>2
<1>9. CASE same # {}
  <2>1. \E k \in same : \A j \in same : <<k, j>> \in R
    BY <1>5, <1>7, <1>9, BestExists
  <2>2. nearest # {} /\ nearest \in SUBSET same
    BY <1>6, <2>1
  <2>3. nearest \in SUBSET Nat
    BY <1>2, <2>2
  <2> HIDE DEF nearest
  <2>4. Min(same) \in same /\ Min(nearest) \in nearest
    BY <1>2, <1>9, <2>2, <2>3, LeastExists
  <2>5. PickDark(l, refs) \in Ids /\ Darks[PickDark(l, refs)].exp = HeaderExp(l)
    BY <1>1, <1>3, <1>9, <2>2, <2>4
  <2> QED BY <2>5, DarksAssumption
<1> QED BY <1>8, <1>9

-----------------------------------------------------------------------------
(* Who has a program at work.  The strengthening: the node's thread is     *)
(* busy, or has a result, only inside a node that has programs to run and  *)
(* nothing of its own to report; a program nobody reads is one whose call  *)
(* raised.                                                                 *)

ToolInv ==
  /\ reader # "idle" => inNode /\ calls # <<>> /\ result = "none"
  /\ result # "none" => (inNode /\ calls # <<>>) \/ outcome \in {"failed", "cancelled"}
  /\ result = "raised" => inNode \/ outcome = "failed"
  /\ reader # "idle" \/ result # "none" => says = <<>>
  /\ tool # "none" => reader \in {"read", "wait"} \/ result = "raised"
  /\ inNode /\ calls # <<>> => UsesProgram(Head(plan))
  /\ outcome = "waiting" => inputs = {}

LEMMA ToolStarts == Init => ToolInv
BY DEF Init, ToolInit, ToolInv

LEMMA ToolStep == ToolInv /\ [Next]_vars => ToolInv'
<1> SUFFICES ASSUME ToolInv, [Next]_vars PROVE ToolInv'
  OBVIOUS
<1> USE DEF toolVars, jobVars, nodeVars
<1>0. CASE UNCHANGED vars
  BY <1>0 DEF vars, ToolInv, inNode, UsesProgram
<1>1. ASSUME NEW r \in Requests, Submit(r) PROVE ToolInv'
  BY <1>1 DEF Submit, ToolInv, inNode, UsesProgram
<1>2. CASE Stopped
  BY <1>2 DEF Stopped, between, Ends, ToolInv, inNode, UsesProgram
<1>3. CASE NodeStarts
  <2>1. /\ outcome = "running" /\ inputs = {} /\ outcome' \in {"running", "failed"}
        /\ result' = "none" /\ UNCHANGED <<tool, reader>>
        /\ inNode' /\ calls' # <<>> => UsesProgram(Head(plan))'
    BY <1>3 DEF NodeStarts, between, Ends, inNode, UsesProgram
  <2> QED BY <2>1 DEF ToolInv, inNode, UsesProgram
<1>14. CASE Reports
  BY <1>14 DEF Reports, Ends, ToolInv, inNode, UsesProgram
<1>4. CASE NoBinary
  BY <1>4 DEF NoBinary, Ends, ToolInv, inNode, UsesProgram
<1>5. CASE ProgramBegins
  BY <1>5 DEF ProgramBegins, Begin, ToolInv, inNode, UsesProgram
<1>6. CASE ProgramRuns
  <2>1. UNCHANGED <<outcome, inputs, calls, says, plan, request>>
    BY <1>6 DEF ProgramRuns
  <2>2. CASE Spawn \/ EndOfOutput \/ Reaped
    BY <2>1, <2>2 DEF Spawn, EndOfOutput, Reaped, ToolInv, inNode, UsesProgram
  <2>3. CASE Terminate \/ Kill \/ ClosesOutput \/ Exits
    BY <2>1, <2>3 DEF Terminate, Kill, ClosesOutput, Exits, Alive, ToolInv, inNode, UsesProgram
  <2>4. ASSUME NEW f, Line(calls[1], f) PROVE ToolInv'
    BY <2>1, <2>4 DEF Line, ToolInv, inNode, UsesProgram
  <2>5. CASE LineRaises(calls[1]) \/ TimesOut(calls[1]) \/ Floods(calls[1])
    BY <2>1, <2>5 DEF LineRaises, TimesOut, Floods, ToolInv, inNode, UsesProgram
  <2> QED BY <1>6, <2>2, <2>3, <2>4, <2>5 DEF ProgramRuns
<1>7. CASE NoOutput
  BY <1>7 DEF NoOutput, Ends, ToolInv, inNode, UsesProgram
<1>8. CASE Output
  BY <1>8 DEF Output, ToolInv, inNode, UsesProgram
<1>9. CASE ProgramFailed
  BY <1>9 DEF ProgramFailed, Ends, ToolInv, inNode, UsesProgram
<1>10. CASE WorksInPython
  <2>1. Node(Head(plan)).program = "none"
    BY <1>10 DEF WorksInPython
  <2> QED BY <1>10, <2>1 DEF WorksInPython, WritesAll, Ends, ToolInv, inNode, UsesProgram
<1>11. CASE PassesThrough
  BY <1>11 DEF PassesThrough, WritesAll, Ends, ToolInv, inNode, UsesProgram
<1>12. CASE NodeCommits
  BY <1>12 DEF NodeCommits, ToolInv, inNode, UsesProgram
<1>13. CASE Cancel
  BY <1>13 DEF Cancel, ToolInv, inNode, UsesProgram
<1> QED
  BY <1>0, <1>1, <1>2, <1>3, <1>4, <1>5, <1>6, <1>7, <1>8, <1>9, <1>10, <1>11, <1>12,
     <1>13, <1>14 DEF Next

LEMMA ToolInvariant == Spec => []ToolInv
<1>1. Init => ToolInv
  BY ToolStarts
<1>2. ToolInv /\ [Next]_vars => ToolInv'
  BY ToolStep
<1> QED BY <1>1, <1>2, PTL DEF Spec

(* A run that is over has left no program at work, unless it failed with a *)
(* call that raised: whatever the order of the cancel, the watchdog, the   *)
(* end of the output and the exit, and whatever programs a template has.   *)
THEOREM NoProgramOutlivesItsRun == Spec => []OutcomeWaitsForTool
<1>1. ToolInv => OutcomeWaitsForTool
  BY DEF ToolInv, OutcomeWaitsForTool, inNode
<1> QED BY <1>1, ToolInvariant, PTL

-----------------------------------------------------------------------------
(* Which dark the frames got.                                              *)

AllLights == UNION {Sessions[s].lights : s \in DOMAIN Sessions}
AllFrames == [light : AllLights, dark : Ids \cup {NoDark}]

(* The frame has the dark it was promised, by its session or its bin.      *)
Served(f) ==
  \A s \in request.sessions :
    /\ f.light \in Sessions[s].lights /\ Matched(f.light, Sessions[s])
    /\ HeaderExp(f.light) = RowExp(f.light)
    => f.dark # NoDark /\ Darks[f.dark].exp = RowExp(f.light)

AllServed(S) == \A f \in S : Served(f)

Ahead(nodes) == \E n \in DOMAIN nodes : nodes[n] = "calibrate"

CallsTyped(todo) ==
  /\ \E S : todo \in Seq(S)
  /\ \A n \in DOMAIN todo :
       "frames" \in DOMAIN todo[n] /\ todo[n].frames \subseteq AllFrames

CallsServed(todo) == \A n \in DOMAIN todo : AllServed(todo[n].frames)

(* Until calibrate has run nothing is asked of the frames; from then on    *)
(* all that is under way has its dark, in the node that runs too.          *)
NodeServes ==
  /\ AllServed(outputs)
  /\ CallsServed(calls)
  /\ Head(plan) = "calibrate" \/ AllServed(inputs)

Promising ==
    /\ request \in Requests /\ ~Refused(request) /\ pool = DarkRefs(request)
    /\ plan \in Seq(Kinds) /\ (outcome = "done" => plan = <<>>)
    /\ CallsTyped(calls)
    /\ frames \cup inputs \cup outputs \subseteq AllFrames
    /\ Ahead(plan) \/ AllServed(frames)
    /\ inNode => plan # <<>> /\ (Ahead(Tail(plan)) \/ NodeServes)

PromiseInv ==
  /\ outcome = "waiting" => calls = <<>> /\ inputs = {} /\ outputs = {}
  /\ request.mode = "auto" /\ outcome \in {"running", "done"} => Promising

-----------------------------------------------------------------------------
(* The pool of an accepted request has a dark for each light that is       *)
(* matched, by the card of its session or in its bin.                      *)

Has(p, l) ==
  /\ RowExp(l) # None
  /\ \E k \in DOMAIN p : Darks[p[k]].exp = RowExp(l) /\ Darks[p[k]].gain = Gain(l)

PoolServes(r, p) ==
  /\ p \in Seq(Ids)
  /\ \A s \in r.sessions : \A l \in Sessions[s].lights :
       Matched(l, Sessions[s]) => Has(p, l)

LEMMA BundleIsMeasured ==
  ASSUME NEW r \in Requests, r.sessions \subseteq DOMAIN Sessions
  PROVE  Measured(Bundle(r))
<1> DEFINE sets == {Sessions[s].lights : s \in r.sessions}
           lights == [s \in r.sessions |-> Sessions[s].lights]
<1>1. lights \in Surjection(r.sessions, sets)
  BY DEF Surjection
<1>2. IsFiniteSet(r.sessions)
  BY RequestsAssumption
<1>3. IsFiniteSet(sets)
  <2> HIDE DEF sets, lights
  <2> QED BY <1>1, <1>2, FS_Surjection
<1>4. \A T \in sets : IsFiniteSet(T)
  BY SessionsAssumption
<1>5. IsFiniteSet(UNION sets)
  <2> HIDE DEF sets
  <2> QED BY <1>3, <1>4, FS_UNION
<1>6. \A l \in Bundle(r) : Carded(l)
  BY SessionsAssumption DEF Bundle, Carded
<1> QED BY <1>5, <1>6 DEF Measured, Bundle

(* A light that is matched has a candidate of its exposure, whichever of   *)
(* the two matchers found it.                                              *)
LEMMA MatchedHasCandidates ==
  ASSUME NEW s \in DOMAIN Sessions, NEW l \in Sessions[s].lights, Matched(l, Sessions[s])
  PROVE  Candidates(RowExp(l), Sessions[s]) # {}
<1>1. RowExp(l) = Sessions[s].exp
  BY SessionsAssumption
<1>2. MatchDark(Sessions[s]) # NoDark => Candidates(Sessions[s].exp, Sessions[s]) # {}
  BY DEF MatchDark
<1>3. BestDarkForBin(Bin(l), Sessions[s]) # NoDark => Candidates(Bin(l).exp, Sessions[s]) # {}
  BY DEF BestDarkForBin
<1>4. Bin(l).exp = RowExp(l)
  BY DEF Bin
<1> QED BY <1>1, <1>2, <1>3, <1>4 DEF Matched

LEMMA AcceptedPoolServes ==
  ASSUME NEW r \in Requests, r.mode = "auto", ~Refused(r)
  PROVE  PoolServes(r, DarkRefs(r))
<1> DEFINE one == Sessions[FirstOf(r)]
           p == BundleDarks(Bundle(r), one)
<1>1. DarkRefs(r) = p
  BY DEF DarkRefs
<1>2. r.sessions \subseteq DOMAIN Sessions /\ Compatible(r)
  BY DEF Refused
<1>3. /\ p \in Seq(Ids)
      /\ \A l \in Bundle(r) : Candidates(RowExp(l), one) # {} =>
            \E k \in DOMAIN p : p[k] \in Candidates(RowExp(l), one)
  BY <1>2, BundleIsMeasured, BundleServesItsLights
<1> HIDE DEF p
<1>4. ASSUME NEW s \in r.sessions, NEW l \in Sessions[s].lights, Matched(l, Sessions[s])
      PROVE  Has(p, l)
  <2>1. /\ Sessions[s].gain = one.gain /\ Sessions[s].bench = one.bench
        /\ Sessions[s].camera = one.camera
    BY <1>2 DEF Compatible
  <2>2. Candidates(RowExp(l), Sessions[s]) = Candidates(RowExp(l), one)
    <3> HIDE DEF one
    <3> QED BY <2>1 DEF Candidates
  <2>3. Candidates(RowExp(l), one) # {}
    BY <1>2, <1>4, <2>2, MatchedHasCandidates
  <2>4. l \in Bundle(r)
    BY DEF Bundle
  <2>5. PICK k \in DOMAIN p : p[k] \in Candidates(RowExp(l), one)
    BY <1>3, <2>3, <2>4
  <2>6. /\ RowExp(l) # None /\ OrZero(Darks[p[k]].exp) = RowExp(l)
        /\ Darks[p[k]].gain = one.gain
    BY <2>5 DEF Candidates
  <2>7. RowExp(l) # 0 /\ Gain(l) = Sessions[s].gain
    BY <1>2, SessionsAssumption
  <2>8. Darks[p[k]].exp = RowExp(l)
    BY <2>6, <2>7 DEF OrZero
  <2> QED BY <2>1, <2>6, <2>7, <2>8 DEF Has
<1> QED BY <1>1, <1>3, <1>4 DEF PoolServes

(* The frames of a folder are lights of the catalog.                       *)
LEMMA FolderHasLights ==
  ASSUME NEW r, ~Refused(r)
  PROVE  {[light |-> l, dark |-> NoDark] : l \in LightsFolder(r)} \subseteq AllFrames
<1>1. r.sessions \subseteq DOMAIN Sessions
  BY DEF Refused
<1>2. LightsFolder(r) \subseteq AllLights
  BY <1>1 DEF LightsFolder, Staging, AllLights
<1> QED BY <1>2 DEF AllFrames

-----------------------------------------------------------------------------
(* What calibrate hands to its programs.                                   *)

LEMMA LightsAreMeasured ==
  ASSUME NEW l \in AllLights PROVE Carded(l)
BY SessionsAssumption DEF AllLights, Carded

LEMMA SingleCallServes ==
  ASSUME PoolServes(request, pool), Len(pool) <= 1, NEW S \in SUBSET AllFrames
  PROVE  CallsTyped(SingleCall(S)) /\ CallsServed(SingleCall(S))
<1> DEFINE d == IF pool = <<>> THEN NoDark ELSE pool[1]
           F == Dressed(S, d)
<1>1. d \in Ids \cup {NoDark}
  BY DEF PoolServes
<1>2. F = {[f EXCEPT !.dark = d] : f \in S}
  BY DEF Dressed
<1> HIDE DEF d, F
<1>3. F \subseteq AllFrames
  BY <1>1, <1>2 DEF AllFrames
<1>4. ASSUME NEW f \in F PROVE Served(f)
  <2>1. PICK g \in S : f = [g EXCEPT !.dark = d]
    BY <1>2
  <2>2. f.dark = d /\ f.light = g.light
    BY <2>1 DEF AllFrames
  <2>3. ASSUME NEW s \in request.sessions, f.light \in Sessions[s].lights,
               Matched(f.light, Sessions[s])
        PROVE  f.dark # NoDark /\ Darks[f.dark].exp = RowExp(f.light)
    <3>1. PICK k \in DOMAIN pool : Darks[pool[k]].exp = RowExp(f.light)
      BY <2>3 DEF PoolServes, Has
    <3>2. k = 1 /\ pool # <<>> /\ pool[1] \in Ids
      BY <3>1 DEF PoolServes
    <3>3. d = pool[1]
      BY <3>2 DEF d
    <3> QED BY <2>2, <3>1, <3>2, <3>3, DarksAssumption
  <2> QED BY <2>3 DEF Served
<1>5. SingleCall(S) = <<Call("calibrate", F)>>
  BY DEF SingleCall, d, F
<1>6. Call("calibrate", F).frames = F /\ "frames" \in DOMAIN Call("calibrate", F)
  BY DEF Call
<1> DEFINE c == Call("calibrate", F)
<1> HIDE DEF c
<1>7. <<c>> \in Seq({c}) /\ \A n \in DOMAIN <<c>> : <<c>>[n] = c
  OBVIOUS
<1> QED BY <1>3, <1>4, <1>5, <1>6, <1>7 DEF CallsTyped, CallsServed, AllServed, c

LEMMA RoutedIsServed ==
  ASSUME PoolServes(request, pool), NEW S \in SUBSET AllFrames, NEW f \in Routed(S)
  PROVE  f \in AllFrames /\ Served(f)
<1>1. PICK g \in S : f = [g EXCEPT !.dark = PickDark(g.light, pool)]
  BY DEF Routed
<1> DEFINE l == g.light
           d == PickDark(l, pool)
<1>2. g \in AllFrames /\ l \in AllLights
  BY DEF AllFrames
<1>4. /\ d = NoDark \/ (d \in Ids /\ Darks[d].exp = HeaderExp(l))
      /\ HeaderExp(l) # None => \A k \in DOMAIN pool :
           Darks[pool[k]].exp = HeaderExp(l) /\ Darks[pool[k]].gain = Gain(l) => d # NoDark
  BY <1>2, LightsAreMeasured, FrameIsServed DEF PoolServes
<1>5. f = [g EXCEPT !.dark = d]
  BY <1>1
<1> HIDE DEF d
<1>6. f \in AllFrames /\ f.light = l /\ f.dark = d
  BY <1>2, <1>4, <1>5 DEF AllFrames
<1>7. ASSUME NEW s \in request.sessions, l \in Sessions[s].lights,
             Matched(l, Sessions[s]), HeaderExp(l) = RowExp(l)
      PROVE  d # NoDark /\ Darks[d].exp = RowExp(l)
  <2>1. Has(pool, l)
    BY <1>7 DEF PoolServes
  <2> QED BY <1>4, <1>7, <2>1 DEF Has
<1> QED BY <1>6, <1>7 DEF Served

LEMMA GroupCallsServe ==
  ASSUME PoolServes(request, pool), NEW S \in SUBSET AllFrames
  PROVE  CallsTyped(GroupCalls(S)) /\ CallsServed(GroupCalls(S))
<1> DEFINE kept == Kept(S)
           total == Cardinality(kept)
           group(d) == {f \in kept : f.dark = d}
           first(d) == Min({f.light.id : f \in group(d)})
           darks == {f.dark : f \in kept}
           order == Ordered(darks, {p \in darks \X darks : first(p[1]) < first(p[2])})
           call(g) == [Call("calibrate", g) EXCEPT
                         !.counts = FALSE, !.width = (Cardinality(g) * 9000) \div total]
           todo == [n \in DOMAIN order |-> From(call(group(order[n])), 0, total)]
<1>1. GroupCalls(S) = todo
  BY DEF GroupCalls
<1>2. \A f \in kept : f \in AllFrames /\ Served(f)
  BY RoutedIsServed DEF Kept
<1>3. IsFiniteSet(darks)
  <2>1. darks \in SUBSET (Ids \cup {NoDark})
    BY <1>2 DEF AllFrames
  <2>2. IsFiniteSet(Ids \cup {NoDark})
    BY DarksAssumption, FS_AddElement
  <2> HIDE DEF darks
  <2> QED BY <2>1, <2>2, FS_Subset
<1>4. Cardinality(darks) \in Nat /\ DOMAIN order = 1 .. Cardinality(darks)
  <2> DEFINE R == {p \in darks \X darks : first(p[1]) < first(p[2])}
  <2> HIDE DEF darks, R
  <2>1. Cardinality(darks) \in Nat
        /\ DOMAIN Ordered(darks, R) = 1 .. Cardinality(darks)
    BY <1>3, OrderedIsSequence
  <2> QED BY <2>1 DEF R
<1>5. ASSUME NEW n \in DOMAIN order
      PROVE  "frames" \in DOMAIN todo[n] /\ todo[n].frames \subseteq kept
  <2> DEFINE g == group(order[n])
  <2>1. g \subseteq kept
    OBVIOUS
  <2>2. todo[n] = From(call(g), 0, total)
    OBVIOUS
  <2> HIDE DEF g, total
  <2>3. From(call(g), 0, total).frames = g
        /\ "frames" \in DOMAIN From(call(g), 0, total)
    BY DEF From, Call
  <2> HIDE DEF call, todo
  <2> QED BY <2>1, <2>2, <2>3
<1>6. DOMAIN todo = 1 .. Cardinality(darks) /\ todo = [n \in DOMAIN order |-> todo[n]]
  BY <1>4
<1> HIDE DEF kept, order, darks, todo
<1>7. todo \in Seq({todo[n] : n \in DOMAIN order})
  <2>1. \A n \in 1 .. Cardinality(darks) : todo[n] \in {todo[i] : i \in DOMAIN order}
    BY <1>4
  <2>2. todo \in [1 .. Cardinality(darks) -> {todo[i] : i \in DOMAIN order}]
    BY <1>4, <1>6, <2>1
  <2> QED BY <1>4, <2>2
<1>8. \A n \in DOMAIN todo : todo[n].frames \subseteq AllFrames /\ AllServed(todo[n].frames)
  BY <1>2, <1>4, <1>5, <1>6 DEF AllServed
<1> QED BY <1>1, <1>4, <1>5, <1>6, <1>7, <1>8 DEF CallsTyped, CallsServed

LEMMA CalibrateServes ==
  ASSUME PoolServes(request, pool), NEW S \in SUBSET AllFrames
  PROVE  CallsTyped(CalibrateCalls(S)) /\ CallsServed(CalibrateCalls(S))
BY SingleCallServes, GroupCallsServe DEF CalibrateCalls

-----------------------------------------------------------------------------
(* The invariant holds in every state.                                     *)

LEMMA CalibrateRunsSiril ==
  UsesProgram("calibrate") /\ Node("calibrate").program = "siril"
<1>1. Node("calibrate") = calibrate
  BY DEF Node
<1>2. OnSequence.program = "siril" /\ OnSequence.switch = FALSE
  BY DEF OnSequence, Siril
<1>3. "program" \in DOMAIN OnSequence /\ "switch" \in DOMAIN OnSequence
  BY DEF OnSequence, Siril
<1>4. calibrate.program = "siril" /\ calibrate.switch = FALSE
  BY <1>2, <1>3 DEF calibrate
<1> QED BY <1>1, <1>4 DEF UsesProgram

LEMMA NoCallsServe == CallsTyped(<<>>) /\ CallsServed(<<>>)
<1>1. <<>> \in Seq({}) /\ DOMAIN <<>> = {}
  OBVIOUS
<1> QED BY <1>1 DEF CallsTyped, CallsServed

(* When a node starts, its calls carry what came in, or what calibrate     *)
(* makes of it.                                                            *)
LEMMA StartServes ==
  ASSUME Promising, plan # <<>>, NEW S \in SUBSET frames,
         request.mode = "auto", NEW todo,
         todo = IF ~UsesProgram(Head(plan)) THEN <<>>
                ELSE IF Head(plan) = "calibrate" THEN CalibrateCalls(S)
                ELSE <<Call(Head(plan), S)>>
  PROVE  /\ CallsTyped(todo)
         /\ \/ Ahead(Tail(plan))
            \/ CallsServed(todo) /\ (Head(plan) = "calibrate" \/ AllServed(S))
<1>1. S \in SUBSET AllFrames
  BY DEF Promising
<1>2. CASE Head(plan) = "calibrate"
  <2>1. PoolServes(request, pool)
    BY AcceptedPoolServes DEF Promising
  <2>2. todo = CalibrateCalls(S)
    BY <1>2, CalibrateRunsSiril
  <2> QED BY <1>1, <1>2, <2>1, <2>2, CalibrateServes
<1>3. CASE Head(plan) # "calibrate"
  <2>1. Ahead(Tail(plan)) \/ AllServed(S)
    <3>1. CASE Ahead(plan)
      <4>1. PICK n \in DOMAIN plan : plan[n] = "calibrate"
        BY <3>1 DEF Ahead
      <4>2. n # 1 /\ n \in 1 .. Len(plan) /\ plan \in Seq(Kinds)
        BY <1>3, <4>1 DEF Promising
      <4>3. n - 1 \in DOMAIN Tail(plan) /\ Tail(plan)[n-1] = plan[n]
        BY <4>2
      <4> QED BY <4>1, <4>3 DEF Ahead
    <3>2. CASE AllServed(frames)
      BY <3>2 DEF AllServed
    <3> QED BY <3>1, <3>2 DEF Promising
  <2>2. CASE todo = <<>>
    BY <1>3, <2>1, <2>2, NoCallsServe
  <2>3. CASE todo = <<Call(Head(plan), S)>>
    <3> DEFINE c == Call(Head(plan), S)
    <3>1. c.frames = S /\ "frames" \in DOMAIN c
      BY DEF Call
    <3> HIDE DEF c
    <3>2. <<c>> \in Seq({c}) /\ \A n \in DOMAIN <<c>> : <<c>>[n] = c
      OBVIOUS
    <3> QED BY <1>1, <2>1, <2>3, <3>1, <3>2 DEF CallsTyped, CallsServed, c
  <2>4. CASE UsesProgram(Head(plan))
    BY <1>3, <2>3, <2>4
  <2>5. CASE ~UsesProgram(Head(plan))
    BY <2>2, <2>5
  <2> QED BY <2>4, <2>5
<1> QED BY <1>2, <1>3

LEMMA FramesStay ==
  ASSUME NEW c, NEW at, "frames" \in DOMAIN c
  PROVE  /\ [c EXCEPT !.base = at, !.start = at].frames = c.frames
         /\ "frames" \in DOMAIN [c EXCEPT !.base = at, !.start = at]
BY Zenon

LEMMA FromKeepsFrames ==
  ASSUME NEW c, "frames" \in DOMAIN c, NEW done, NEW total
  PROVE  /\ From(c, done, total).frames = c.frames
         /\ "frames" \in DOMAIN From(c, done, total)
<1> DEFINE at == 500 + (done * 9000) \div total
<1>1. From(c, done, total) = [c EXCEPT !.base = at, !.start = at]
  BY DEF From
<1> HIDE DEF at
<1>2. /\ [c EXCEPT !.base = at, !.start = at].frames = c.frames
      /\ "frames" \in DOMAIN [c EXCEPT !.base = at, !.start = at]
  BY FramesStay
<1> QED BY <1>1, <1>2

(* The calls that are left keep their frames.                              *)
LEMMA RestServes ==
  ASSUME CallsTyped(calls), calls # <<>>, NEW done, NEW total, NEW rest,
         rest = [n \in DOMAIN Tail(calls) |-> From(Tail(calls)[n], done, total)]
  PROVE  CallsTyped(rest) /\ (CallsServed(calls) => CallsServed(rest))
<1>1. PICK X : calls \in Seq(X)
  BY DEF CallsTyped
<1>2. Tail(calls) \in Seq(X) /\ Len(calls) \in Nat \ {0}
      /\ Len(Tail(calls)) = Len(calls) - 1
      /\ \A n \in 1 .. Len(calls) - 1 : Tail(calls)[n] = calls[n+1]
  BY <1>1
<1>3. DOMAIN Tail(calls) = 1 .. (Len(calls) - 1)
  BY <1>2
<1>4. ASSUME NEW n \in DOMAIN rest
      PROVE  /\ n + 1 \in DOMAIN calls
             /\ rest[n].frames = calls[n+1].frames /\ "frames" \in DOMAIN rest[n]
  <2>1. n \in 1 .. (Len(calls) - 1) /\ rest[n] = From(Tail(calls)[n], done, total)
    BY <1>3
  <2>2. n + 1 \in DOMAIN calls /\ Tail(calls)[n] = calls[n+1]
    BY <1>1, <1>2, <2>1
  <2>3. "frames" \in DOMAIN calls[n+1]
    BY <2>2 DEF CallsTyped
  <2> DEFINE c == calls[n+1]
  <2>4. rest[n] = From(c, done, total) /\ "frames" \in DOMAIN c
    BY <2>1, <2>2, <2>3
  <2> HIDE DEF c
  <2>5. From(c, done, total).frames = c.frames
        /\ "frames" \in DOMAIN From(c, done, total)
    BY <2>4, FromKeepsFrames
  <2> QED BY <2>2, <2>4, <2>5 DEF c
<1>5. rest \in Seq({rest[n] : n \in DOMAIN rest})
  <2>1. rest = [n \in 1 .. (Len(calls) - 1) |-> rest[n]]
    BY <1>3
  <2>2. rest \in [1 .. (Len(calls) - 1) -> {rest[n] : n \in DOMAIN rest}]
    BY <1>3, <2>1
  <2>3. Len(calls) - 1 \in Nat
    BY <1>2
  <2> QED BY <2>2, <2>3
<1> QED BY <1>4, <1>5 DEF CallsTyped, CallsServed

LEMMA PromiseStarts == Init => PromiseInv
BY DEF Init, PromiseInv

(* A step that leaves the run where it is; a report is one.                *)
LEMMA RunStays ==
  ASSUME PromiseInv, UNCHANGED <<jobVars, plan, calls, inputs, outputs, frames>>
  PROVE  PromiseInv'
BY DEF PromiseInv, Promising, NodeServes, jobVars, inNode, CallsTyped,
       CallsServed, AllServed, Served

(* The node writes its inputs: it is not calibrate.                        *)
LEMMA CopyServes ==
  ASSUME PromiseInv, inNode, Head(plan) # "calibrate", WritesAll,
         UNCHANGED <<plan, calls, inputs, frames>>
  PROVE  PromiseInv'
<1>1. CASE outputs' = inputs /\ UNCHANGED jobVars
  BY <1>1 DEF PromiseInv, Promising, NodeServes, jobVars, inNode, CallsTyped,
              CallsServed, AllServed, Served
<1>2. CASE Ends("failed")
  BY <1>2 DEF Ends, PromiseInv
<1> QED BY <1>1, <1>2 DEF WritesAll

LEMMA PromiseStep == ToolInv /\ PromiseInv /\ [Next]_vars => PromiseInv'
<1> SUFFICES ASSUME ToolInv, PromiseInv, [Next]_vars PROVE PromiseInv'
  OBVIOUS
<1>1. CASE UNCHANGED <<jobVars, nodeVars>>
  BY <1>1, RunStays DEF nodeVars
<1>2. ASSUME NEW r \in Requests, Submit(r) PROVE PromiseInv'
  <2>1. CASE outcome' # "running"
    BY <1>2, <2>1 DEF Submit, PromiseInv
  <2>2. CASE outcome' = "running" /\ r.mode = "auto"
    <3>1. /\ request' = r /\ ~Refused(r) /\ pool' = DarkRefs(r) /\ plan' = r.template
          /\ frames' = {[light |-> l, dark |-> NoDark] : l \in LightsFolder(r)}
          /\ calls' = <<>> /\ inputs' = {} /\ outputs' = {}
      BY <1>2, <2>2 DEF Submit, PromiseInv
    <3>2. frames' \subseteq AllFrames
      BY <3>1, FolderHasLights
    <3>3. plan' \in Seq(Kinds) /\ Ahead(plan')
      BY <2>2, <3>1, RequestsAssumption DEF Ahead
    <3>4. CallsTyped(calls')
      BY <3>1 DEF CallsTyped
    <3> QED BY <2>2, <3>1, <3>2, <3>3, <3>4 DEF PromiseInv, Promising, inNode
  <2>3. CASE outcome' = "running" /\ r.mode # "auto"
    BY <1>2, <2>3 DEF Submit, PromiseInv
  <2> QED BY <2>1, <2>2, <2>3
<1>3. ASSUME NEW how \in {"failed", "cancelled"}, Ends(how) PROVE PromiseInv'
  BY <1>3 DEF Ends, PromiseInv
<1>9. CASE Reports
  BY <1>3, <1>9, RunStays DEF Reports
<1>4. CASE NodeStarts
  <2> DEFINE k == Head(plan)
             S == Staged(k)
             todo == IF ~UsesProgram(k) THEN <<>>
                     ELSE IF k = "calibrate" THEN CalibrateCalls(S)
                     ELSE <<Call(k, S)>>
  <2>1. CASE Ends("failed")
    BY <1>3, <2>1
  <2>2. CASE /\ inputs' = S /\ calls' = todo /\ UNCHANGED jobVars /\ S # {}
    <3>1. /\ outcome = "running" /\ plan # <<>> /\ outputs' = {}
          /\ UNCHANGED <<plan, frames>>
      BY <1>4 DEF NodeStarts, between
    <3>2. S \in SUBSET frames
      BY DEF Staged
    <3>3. ASSUME request.mode = "auto" PROVE Promising'
      <4>1. Promising
        BY <3>1, <3>3 DEF PromiseInv
      <4>2. CallsTyped(todo)
            /\ (Ahead(Tail(plan)) \/ (CallsServed(todo) /\ (k = "calibrate" \/ AllServed(S))))
        <5> HIDE DEF S
        <5> QED BY <3>1, <3>2, <3>3, <4>1, StartServes
      <4> HIDE DEF S, todo
      <4>3. UNCHANGED <<request, outcome, pool, plan, frames>>
        BY <2>2, <3>1 DEF jobVars
      <4>4. AllServed(outputs') /\ (AllServed(S) => AllServed(inputs'))
        BY <2>2, <3>1 DEF AllServed
      <4>5. CallsTyped(calls')
        BY <2>2, <4>2 DEF CallsTyped
      <4>6. /\ \A X : AllServed(X) <=> AllServed(X)'
            /\ CallsServed(todo) => CallsServed(calls)'
        BY <2>2, <4>3 DEF AllServed, Served, CallsServed
      <4> QED
        BY <2>2, <3>1, <3>2, <4>1, <4>2, <4>3, <4>4, <4>5, <4>6
           DEF Promising, NodeServes, inNode, AllServed, Served
    <3> QED BY <2>2, <3>1, <3>3 DEF PromiseInv, jobVars
  <2> QED BY <1>4, <2>1, <2>2 DEF NodeStarts
<1>5. CASE Output
  <2>1. calls # <<>>
    BY <1>5 DEF Output, ToolInv, inNode
  <2>2. /\ inNode /\ UNCHANGED <<request, outcome, pool, plan, inputs, frames>>
        /\ outputs' \subseteq outputs \cup calls[1].frames
        /\ calls' = [n \in DOMAIN Tail(calls) |->
                       From(Tail(calls)[n], Cardinality(outputs'), Cardinality(Kept(inputs)))]
    BY <1>5 DEF Output, jobVars
  <2>3. ASSUME request.mode = "auto" PROVE Promising'
    <3>1. Promising
      BY <2>2, <2>3 DEF PromiseInv, inNode
    <3>2. CallsTyped(calls)
      BY <3>1 DEF Promising
    <3>3. CallsTyped(calls') /\ (CallsServed(calls) => CallsServed(calls'))
      BY <2>1, <2>2, <3>2, RestServes
    <3>4. 1 \in DOMAIN calls
      BY <2>1, <3>2 DEF CallsTyped
    <3>5. outputs' \subseteq AllFrames
      BY <2>2, <3>1, <3>2, <3>4 DEF Promising, CallsTyped
    <3>6. CallsServed(calls) /\ AllServed(outputs) => AllServed(outputs')
      BY <2>2, <3>4 DEF CallsServed, AllServed
    <3>7. /\ CallsServed(calls') => CallsServed(calls)'
          /\ AllServed(outputs') => AllServed(outputs)'
          /\ AllServed(inputs) => AllServed(inputs)'
          /\ AllServed(frames) => AllServed(frames)'
          /\ CallsTyped(calls') => CallsTyped(calls)'
      BY <2>2 DEF CallsServed, AllServed, Served, CallsTyped
    <3>8. inNode' /\ (Ahead(Tail(plan)) \/ NodeServes)
      BY <2>2, <3>1 DEF Promising, inNode
    <3>9. (Ahead(Tail(plan)) \/ NodeServes)'
      BY <2>2, <3>3, <3>6, <3>7, <3>8 DEF NodeServes
    <3> QED BY <2>2, <3>1, <3>3, <3>5, <3>7, <3>9 DEF Promising
  <2> QED BY <2>2, <2>3 DEF PromiseInv, inNode
<1>6. CASE WorksInPython
  <2>1. Head(plan) # "calibrate"
    BY <1>6, CalibrateRunsSiril DEF WorksInPython
  <2> QED BY <1>6, <2>1, CopyServes DEF WorksInPython
<1>7. CASE PassesThrough
  <2>1. Head(plan) # "calibrate"
    BY <1>7, CalibrateRunsSiril DEF PassesThrough
  <2> QED BY <1>7, <2>1, CopyServes DEF PassesThrough
<1>8. CASE NodeCommits
  <2>1. /\ inNode /\ calls = <<>> /\ frames' = outputs /\ plan' = Tail(plan)
        /\ outcome' = IF Len(plan) = 1 THEN "done" ELSE outcome
        /\ inputs' = {} /\ outputs' = {} /\ UNCHANGED <<request, pool, calls>>
    BY <1>8 DEF NodeCommits
  <2>2. ASSUME request.mode = "auto" PROVE Promising'
    <3>1. Promising /\ outcome = "running"
      BY <2>1, <2>2 DEF PromiseInv, inNode
    <3>2. plan \in Seq(Kinds) /\ plan # <<>>
      BY <2>1, <3>1 DEF Promising
    <3>3. /\ plan' \in Seq(Kinds)
          /\ Len(plan) = 1 => plan' = <<>>
      BY <2>1, <3>2
    <3>4. Ahead(plan') \/ AllServed(frames')
      BY <2>1, <3>1 DEF Promising, NodeServes
    <3>5. ~inNode'
      BY <2>1 DEF inNode
    <3>6. outcome' = "done" => plan' = <<>>
      BY <2>1, <3>1, <3>3
    <3> QED BY <2>1, <3>1, <3>3, <3>4, <3>5, <3>6
            DEF Promising, AllServed, Served, CallsTyped
  <2> QED BY <2>1, <2>2 DEF PromiseInv, inNode
<1> QED
  BY <1>1, <1>2, <1>3, <1>4, <1>5, <1>6, <1>7, <1>8, <1>9
     DEF Next, Stopped, NoBinary, ProgramBegins, ProgramRuns, NoOutput, ProgramFailed,
         Cancel, vars

LEMMA PromiseInvariant == Spec => [](ToolInv /\ PromiseInv)
<1>1. Init => ToolInv /\ PromiseInv
  BY ToolStarts, PromiseStarts
<1>2. ToolInv /\ PromiseInv /\ [Next]_vars => (ToolInv /\ PromiseInv)'
  BY ToolStep, PromiseStep
<1> QED BY <1>1, <1>2, PTL DEF Spec

(* The three matchers agree, for every catalog of darks and sessions and   *)
(* every template with a calibrate node: each frame whose session shows a  *)
(* dark, or for whose bin the bundle's match found one, fallbacks too, is  *)
(* calibrated with a dark of its exposure, if the EXPTIME in its header is *)
(* the exposure in its row.                                                *)
THEOREM PromisedDarkAlwaysApplied == Spec => []PromisedDarkIsApplied
<1>1. PromiseInv => PromisedDarkIsApplied
  <2> SUFFICES ASSUME PromiseInv, outcome = "done", request.mode = "auto"
               PROVE  AllServed(frames)
    BY DEF PromisedDarkIsApplied, AllServed, Served
  <2>1. Promising /\ plan = <<>>
    BY DEF PromiseInv, Promising
  <2>2. ~Ahead(plan)
    BY <2>1 DEF Ahead
  <2> QED BY <2>1, <2>2 DEF Promising
<1> QED BY <1>1, PromiseInvariant, PTL

-----------------------------------------------------------------------------
(* The bar.  First the arithmetic of the meters and of the windows.        *)

(* Shares rounded down never add up to more than the rounded whole.        *)
LEMMA SharesFit ==
  ASSUME NEW a \in Nat, NEW b \in Nat, NEW t \in Nat \ {0}
  PROVE  /\ a \div t \in Nat /\ b \div t \in Nat /\ (a + b) \div t \in Nat
         /\ a \div t + b \div t <= (a + b) \div t
<1>1. ASSUME NEW x \in Nat
      PROVE  x \div t \in Nat /\ t * (x \div t) <= x /\ x < t * ((x \div t) + 1)
  <2>1. x \div t \in Int /\ x % t \in 0 .. (t - 1) /\ x = t * (x \div t) + (x % t)
    OBVIOUS
  <2> DEFINE q == x \div t
             m == x % t
  <2>2. q \in Int /\ m \in 0 .. (t-1) /\ x = t * q + m
    BY <2>1
  <2> HIDE DEF q, m
  <2>3. t * q <= x
    BY <2>2
  <2>4. t * (q + 1) = t * q + t
    BY <2>2
  <2>5. x < t * (q + 1)
    BY <2>2, <2>4
  <2>6. q >= 0
    <3> SUFFICES ASSUME q + 1 <= 0 PROVE FALSE
      BY <2>2
    <3>1. t * (q + 1) <= 0
      BY <2>2
    <3> QED BY <2>2, <2>5, <3>1
  <2> QED BY <2>2, <2>3, <2>5, <2>6 DEF q
<1> DEFINE p == a \div t
           q == b \div t
           s == (a + b) \div t
<1>2. p \in Nat /\ t * p <= a
  BY <1>1
<1>3. q \in Nat /\ t * q <= b
  BY <1>1
<1>4. s \in Nat /\ a + b < t * (s + 1)
  <2>1. a + b \in Nat
    OBVIOUS
  <2> QED BY <1>1, <2>1
<1> HIDE DEF p, q, s
<1>5. t * (p + q) < t * (s + 1)
  <2>1. t * (p + q) = t * p + t * q
    BY <1>2, <1>3
  <2>2. t * p \in Int /\ t * q \in Int /\ t * (s + 1) \in Int
    BY <1>2, <1>3, <1>4
  <2> QED BY <1>2, <1>3, <1>4, <2>1, <2>2
<1>6. p + q < s + 1
  <2> SUFFICES ASSUME s + 1 <= p + q PROVE FALSE
    BY <1>2, <1>3, <1>4
  <2>1. t * (s + 1) <= t * (p + q)
    BY <1>2, <1>3, <1>4
  <2>2. t * (s + 1) \in Int /\ t * (p + q) \in Int
    BY <1>2, <1>3, <1>4
  <2> QED BY <1>5, <2>1, <2>2
<1> QED BY <1>2, <1>3, <1>4, <1>6 DEF p, q, s

(* A window puts the bar between its base and its end, and higher for more.*)
LEMMA WindowRises ==
  ASSUME NEW c, c.base \in Nat, c.width \in Nat, NEW x \in Int, NEW y \in Int, x <= y
  PROVE  /\ Scoped(c, x) \in Nat /\ Scoped(c, y) \in Nat
         /\ c.base <= Scoped(c, x)
         /\ Scoped(c, x) <= Scoped(c, y)
         /\ Scoped(c, y) <= c.base + c.width
<1> DEFINE cl(z) == Clamp(z, 0, Whole)
<1>1. ASSUME NEW z \in Int
      PROVE  cl(z) = IF z < 0 THEN 0 ELSE IF z > Whole THEN Whole ELSE z
  <2>1. Min({z, Whole}) = IF z <= Whole THEN z ELSE Whole
    BY MinOfTwo DEF Whole
  <2>2. Min({z, Whole}) \in Int
    BY <2>1 DEF Whole
  <2>3. Max({0, Min({z, Whole})}) = IF 0 >= Min({z, Whole}) THEN 0 ELSE Min({z, Whole})
    BY <2>2, MaxOfTwo
  <2> QED BY <2>1, <2>3 DEF Clamp, Whole
<1>2. cl(x) \in Nat /\ cl(y) \in Nat /\ cl(x) <= cl(y) /\ cl(y) <= Whole
  <2> HIDE DEF cl
  <2> QED BY <1>1 DEF Whole
<1>3. Scoped(c, x) = c.base + (cl(x) * c.width) \div Whole
      /\ Scoped(c, y) = c.base + (cl(y) * c.width) \div Whole
  BY DEF Scoped
<1> DEFINE w == c.width
           X == cl(x)
           Y == cl(y)
<1>4. w \in Nat /\ X \in Nat /\ Y \in Nat /\ X <= Y /\ Y <= Whole
  BY <1>2
<1>5. /\ Scoped(c, x) = c.base + (X * w) \div Whole
      /\ Scoped(c, y) = c.base + (Y * w) \div Whole
  BY <1>3
<1> HIDE DEF X, Y, w
<1>6. X * w \in Nat /\ Y * w \in Nat /\ X * w <= Y * w /\ Y * w <= Whole * w
  BY <1>4 DEF Whole
<1> DEFINE xw == X * w
           yw == Y * w
<1>7. xw \in Nat /\ yw \in Nat /\ xw <= yw /\ yw <= 10000 * w
  BY <1>6 DEF Whole
<1> HIDE DEF xw, yw
<1>8. /\ xw \div 10000 \in Nat /\ yw \div 10000 \in Nat
      /\ xw \div 10000 <= yw \div 10000 /\ yw \div 10000 <= w
  BY <1>4, <1>7
<1> QED BY <1>5, <1>8 DEF Whole, xw, yw, w

Meter == [last : Int, phase : Int, shown : Int]

(* No line lowers what the meter shows, nor takes it past the band.        *)
LEMMA MeterRises ==
  ASSUME NEW c, c.low \in Nat, c.high \in Nat, c.low <= c.high, c.phases \in Nat \ {0},
         meter \in Meter, meter.shown <= c.high, NEW f \in Fractions \union {Heartbeat}
  PROVE  /\ NextMeter(c, f) \in Meter /\ meter.shown <= NextMeter(c, f).shown
         /\ NextMeter(c, f).shown <= c.high
<1>1. f \in Int /\ c.low \in Int /\ c.high \in Int /\ c.phases \in Nat \ {0}
  BY DEF Fractions, Heartbeat, Whole
<1>2. meter.last \in Int /\ meter.phase \in Int /\ meter.shown \in Int
  BY DEF Meter
<1>3. /\ SirilMeter(c, f) \in Meter /\ meter.shown <= SirilMeter(c, f).shown
      /\ SirilMeter(c, f).shown <= c.high
  <2> DEFINE phase == IF f + Whole \div 2 < meter.last
                      THEN Min({meter.phase + 1, c.phases - 1}) ELSE meter.phase
             size == (c.high - c.low) \div c.phases
             high == c.low + phase * size + (f * size) \div Whole
             scaled == Min({high, c.high})
             shown == Max({scaled, meter.shown})
  <2>1. meter.phase + 1 \in Int /\ c.phases - 1 \in Int
    BY <1>1, <1>2
  <2>2. phase \in Int
    BY <1>2, <2>1, MinOfTwo
  <2>3. size \in Int
    BY <1>1
  <2>4. high \in Int
    <3> HIDE DEF phase, size
    <3>1. phase * size \in Int /\ f * size \in Int
      BY <1>1, <2>2, <2>3
    <3>2. (f * size) \div Whole \in Int
      BY <3>1 DEF Whole
    <3> QED BY <1>1, <3>1, <3>2
  <2>5. SirilMeter(c, f) = [last |-> f, phase |-> phase, shown |-> shown]
    BY DEF SirilMeter
  <2> HIDE DEF phase, high
  <2>6. scaled \in Int /\ scaled <= c.high
    BY <1>1, <2>4, MinOfTwo
  <2> HIDE DEF scaled
  <2>7. shown \in Int /\ meter.shown <= shown /\ shown <= c.high
    BY <1>1, <1>2, <2>6, MaxOfTwo
  <2> HIDE DEF shown
  <2> QED BY <1>1, <2>2, <2>5, <2>7 DEF Meter
<1>4. /\ StreamMeter(c, f) \in Meter /\ meter.shown <= StreamMeter(c, f).shown
      /\ StreamMeter(c, f).shown <= c.high
  <2> DEFINE band == c.high - c.low
             capped == Min({meter.shown + band \div 60, c.low + (band * 8) \div 10})
             high == c.low + (f * band) \div Whole
             scaled == Clamp(high, c.low, c.high)
             next == IF f = Heartbeat THEN capped ELSE scaled
             shown == Max({meter.shown, next})
  <2>1. band \in Nat /\ c.low + band = c.high
    BY <1>1
  <2>2. StreamMeter(c, f) = [meter EXCEPT !.shown = shown]
    BY DEF StreamMeter
  <2> HIDE DEF band
  <2>3. meter.shown + band \div 60 \in Int /\ c.low + (band * 8) \div 10 \in Int
    BY <1>1, <1>2, <2>1
  <2>4. capped \in Int /\ capped <= c.high
    <3>1. c.low + (band * 8) \div 10 <= c.high
      BY <1>1, <2>1
    <3> DEFINE a == meter.shown + band \div 60
               b == c.low + (band * 8) \div 10
    <3>2. a \in Int /\ b \in Int /\ b <= c.high
      BY <2>3, <3>1
    <3> HIDE DEF a, b
    <3>3. Min({a, b}) \in Int /\ Min({a, b}) <= c.high
      BY <1>1, <3>2, MinOfTwo
    <3> QED BY <3>3 DEF a, b
  <2>5. high \in Int
    <3>1. f * band \in Int
      BY <1>1, <2>1
    <3>2. (f * band) \div Whole \in Int
      BY <3>1 DEF Whole
    <3> QED BY <1>1, <3>2
  <2> HIDE DEF high, capped
  <2>6. scaled \in Int /\ scaled <= c.high
    <3>1. Min({high, c.high}) \in Int /\ Min({high, c.high}) <= c.high
      BY <1>1, <2>5, MinOfTwo
    <3> QED BY <1>1, <3>1, MaxOfTwo DEF Clamp
  <2> HIDE DEF scaled
  <2>7. next \in Int /\ next <= c.high
    BY <2>4, <2>6
  <2> HIDE DEF next
  <2>8. shown \in Int /\ meter.shown <= shown /\ shown <= c.high
    BY <1>1, <1>2, <2>7, MaxOfTwo
  <2> HIDE DEF shown
  <2> QED BY <2>2, <2>8 DEF Meter
<1> QED BY <1>2, <1>3, <1>4 DEF NextMeter

-----------------------------------------------------------------------------
(* The parts of the bar that the nodes give to their programs.             *)

\* The node's part of the bar: where it begins, the band, its phases.
Takes(n, start, low, high, phases) ==
  /\ {"start", "low", "high", "phases"} \subseteq DOMAIN n
  /\ n.start = start /\ n.low = low /\ n.high = high /\ n.phases = phases

LEMMA NodeTable ==
  ASSUME NEW k \in Kinds
  PROVE  /\ Node(k).start \in Nat /\ Node(k).low \in Nat /\ Node(k).high \in Nat
         /\ Node(k).phases \in Nat \ {0}
         /\ Node(k).low <= Node(k).high /\ Node(k).high <= Whole
         /\ k # "auto_bp_shift" => Node(k).start <= Node(k).low
<1> DEFINE Fits(n) ==
      /\ n.start \in Nat /\ n.low \in Nat /\ n.high \in Nat /\ n.phases \in Nat \ {0}
      /\ n.low <= n.high /\ n.high <= Whole
<1>1. Takes(Siril, 2000, 2000, 9500, 1)
  BY DEF Takes, Siril
<1>2. Takes(OnSequence, 2000, 2000, 9500, 1)
  BY <1>1 DEF Takes, OnSequence
<1>3. Takes(Python, 2000, 2000, 9500, 1)
  BY <1>1 DEF Takes, Python
<1>4. Takes(convert_lights, 2000, 2000, 9500, 1)
  BY <1>2 DEF Takes, convert_lights
<1>5. Takes(calibrate, 2000, 2000, 9500, 1)
  BY <1>2 DEF Takes, calibrate
<1>6. Takes(seq_resample, 2000, 2000, 9500, 1)
  BY <1>2 DEF Takes, seq_resample
<1>7. Takes(seq_offset, 2000, 2000, 9500, 1)
  BY <1>3 DEF Takes, seq_offset
<1>8. Takes(seq_bg_extract, 2000, 2000, 9500, 1)
  BY <1>2 DEF Takes, seq_bg_extract
<1>9. Takes(seq_register, 2000, 2000, 9500, 2)
  BY <1>2 DEF Takes, seq_register
<1>10. Takes(seq_stack, 2000, 2000, 9500, 1)
  BY <1>1 DEF Takes, seq_stack
<1>11. Takes(narrowband_extract, 1000, 2000, 9500, 6)
  BY <1>1 DEF Takes, narrowband_extract
<1>12. Takes(narrowband_compose, 1000, 2000, 9500, 2)
  BY <1>1 DEF Takes, narrowband_compose
<1>13. Takes(crop, 2000, 2000, 9500, 1)
  BY <1>3 DEF Takes, crop
<1>14. Takes(graxpert, 1000, 1500, 9500, 1)
  BY <1>1 DEF Takes, graxpert
<1>15. Takes(color_balance, 2000, 2000, 9500, 1)
  BY <1>1 DEF Takes, color_balance
<1>16. Takes(auto_bp_shift, 3000, 2000, 9500, 1)
  BY <1>1 DEF Takes, auto_bp_shift
<1>17. Takes(stretch, 1000, 2000, 9500, 1)
  BY <1>1 DEF Takes, stretch
<1>18. Takes(starnet_extract, 2000, 2000, 8500, 1)
  BY <1>1 DEF Takes, starnet_extract
<1>19. Takes(starnet_replace, 3000, 3000, 8500, 1)
  BY <1>1 DEF Takes, starnet_replace
<1>20. Takes(starnet_recombine, 2000, 2000, 9500, 1)
  BY <1>3 DEF Takes, starnet_recombine
<1>21. Takes(save_image, 2000, 2000, 9500, 1)
  BY <1>1 DEF Takes, save_image
<1>22. ASSUME NEW m, NEW start \in Nat, NEW low \in Nat, NEW high \in Nat,
             NEW phases \in Nat \ {0}, low <= high, high <= Whole,
             Takes(m, start, low, high, phases)
      PROVE  Fits(m) /\ (start <= low => m.start <= m.low)
  BY <1>22 DEF Takes
<1> HIDE DEF Fits
<1>23. /\ Fits(convert_lights) /\ convert_lights.start <= convert_lights.low
      /\ Fits(calibrate) /\ calibrate.start <= calibrate.low
      /\ Fits(seq_resample) /\ seq_resample.start <= seq_resample.low
  BY <1>4, <1>5, <1>6, <1>22 DEF Whole
<1>24. /\ Fits(seq_offset) /\ seq_offset.start <= seq_offset.low
      /\ Fits(seq_bg_extract) /\ seq_bg_extract.start <= seq_bg_extract.low
      /\ Fits(seq_register) /\ seq_register.start <= seq_register.low
  BY <1>7, <1>8, <1>9, <1>22 DEF Whole
<1>25. /\ Fits(seq_stack) /\ seq_stack.start <= seq_stack.low
      /\ Fits(narrowband_extract) /\ narrowband_extract.start <= narrowband_extract.low
      /\ Fits(narrowband_compose) /\ narrowband_compose.start <= narrowband_compose.low
      /\ Fits(crop) /\ crop.start <= crop.low
      /\ Fits(graxpert) /\ graxpert.start <= graxpert.low
      /\ Fits(color_balance) /\ color_balance.start <= color_balance.low
  <2>1. /\ Fits(seq_stack) /\ seq_stack.start <= seq_stack.low
        /\ Fits(narrowband_extract) /\ narrowband_extract.start <= narrowband_extract.low
    BY <1>10, <1>11, <1>22 DEF Whole
  <2>2. /\ Fits(narrowband_compose) /\ narrowband_compose.start <= narrowband_compose.low
        /\ Fits(crop) /\ crop.start <= crop.low
    BY <1>12, <1>13, <1>22 DEF Whole
  <2>3. /\ Fits(graxpert) /\ graxpert.start <= graxpert.low
        /\ Fits(color_balance) /\ color_balance.start <= color_balance.low
    BY <1>14, <1>15, <1>22 DEF Whole
  <2> QED BY <2>1, <2>2, <2>3
<1>26. /\ Fits(auto_bp_shift)
      /\ Fits(stretch) /\ stretch.start <= stretch.low
      /\ Fits(starnet_extract) /\ starnet_extract.start <= starnet_extract.low
      /\ Fits(starnet_replace) /\ starnet_replace.start <= starnet_replace.low
      /\ Fits(starnet_recombine) /\ starnet_recombine.start <= starnet_recombine.low
      /\ Fits(save_image) /\ save_image.start <= save_image.low
  <2>1. /\ Fits(auto_bp_shift)
        /\ Fits(stretch) /\ stretch.start <= stretch.low
    BY <1>16, <1>17, <1>22 DEF Whole
  <2>2. /\ Fits(starnet_extract) /\ starnet_extract.start <= starnet_extract.low
        /\ Fits(starnet_replace) /\ starnet_replace.start <= starnet_replace.low
    BY <1>18, <1>19, <1>22 DEF Whole
  <2>3. /\ Fits(starnet_recombine) /\ starnet_recombine.start <= starnet_recombine.low
        /\ Fits(save_image) /\ save_image.start <= save_image.low
    BY <1>20, <1>21, <1>22 DEF Whole
  <2> QED BY <2>1, <2>2, <2>3
<1>27. k # "auto_bp_shift" => Fits(Node(k)) /\ Node(k).start <= Node(k).low
  BY <1>23, <1>24, <1>25, <1>26 DEF Kinds, Node
<1>28. k = "auto_bp_shift" => Fits(Node(k))
  BY <1>23, <1>24, <1>25, <1>26 DEF Node
<1> QED BY <1>27, <1>28 DEF Fits

(* Of the nodes that run a program, six may be switched off.               *)
Switched == {"seq_resample", "graxpert", "color_balance", "auto_bp_shift",
             "starnet_extract", "starnet_replace"}

LEMMA OnlySwitchedPass ==
  ASSUME NEW k \in Kinds, Node(k).program # "none", ~UsesProgram(k)
  PROVE  k \in Switched
<1> DEFINE Stays(n) == "switch" \in DOMAIN n /\ ~n.switch
<1>1. Stays(Siril)
  BY DEF Siril
<1>2. Stays(OnSequence) /\ Stays(Python)
  BY <1>1 DEF OnSequence, Python
<1>3. /\ Stays(convert_lights) /\ Stays(calibrate) /\ Stays(seq_bg_extract)
      /\ Stays(seq_register) /\ Stays(seq_offset) /\ Stays(crop)
      /\ Stays(starnet_recombine)
  BY <1>2 DEF convert_lights, calibrate, seq_bg_extract, seq_register, seq_offset, crop,
     starnet_recombine
<1>4. /\ Stays(seq_stack) /\ Stays(narrowband_extract) /\ Stays(narrowband_compose)
      /\ Stays(stretch) /\ Stays(save_image)
  BY <1>1 DEF seq_stack, narrowband_extract, narrowband_compose, stretch, save_image
<1> SUFFICES ASSUME k \notin Switched PROVE Stays(Node(k))
  BY DEF UsesProgram
<1> HIDE DEF Stays
<1> QED BY <1>3, <1>4 DEF Kinds, Switched, Node

LEMMA NotInPython ==
  ASSUME NEW k, UsesProgram(k)
  PROVE  k \notin {"seq_offset", "crop", "starnet_recombine"}
<1>1. Python.program = "none" /\ "program" \in DOMAIN Python
  BY DEF Python, Siril
<1>2. /\ seq_offset.program = "none" /\ crop.program = "none"
      /\ starnet_recombine.program = "none"
  BY <1>1 DEF seq_offset, crop, starnet_recombine
<1> QED BY <1>2 DEF UsesProgram, Node

LEMMA StartTable ==
  /\ Node("convert_lights").start = 2000 /\ Node("calibrate").start = 2000
  /\ Node("starnet_extract").start = 2000 /\ Node("starnet_extract").high = 8500
  /\ Node("starnet_replace").start = 3000 /\ Node("starnet_replace").high = 8500
<1>1. OnSequence.start = 2000 /\ "start" \in DOMAIN OnSequence
  BY DEF OnSequence, Siril
<1>2. convert_lights.start = 2000 /\ calibrate.start = 2000
  BY <1>1 DEF convert_lights, calibrate
<1>3. /\ starnet_extract.start = 2000 /\ starnet_extract.high = 8500
      /\ starnet_replace.start = 3000 /\ starnet_replace.high = 8500
  BY DEF starnet_extract, starnet_replace, Siril
<1> QED BY <1>2, <1>3 DEF Node

(* A call has its band and its window, and frames of the catalog.          *)
IsCall(c) ==
  /\ {"low", "high", "phases", "base", "width", "start", "frames"} \subseteq DOMAIN c
  /\ c.low \in Nat /\ c.high \in Nat /\ c.low <= c.high /\ c.phases \in Nat \ {0}
  /\ c.base \in Nat /\ c.width \in Nat /\ c.start \in Nat
  /\ c.frames \subseteq AllFrames

(* A call begins where its program may, and its program may no lower.      *)
Banded(c) == IsCall(c) /\ c.start <= Scoped(c, c.low)

LEMMA WholeWindow ==
  ASSUME NEW c, c.base = 0, c.width = Whole, NEW x \in Nat, x <= Whole
  PROVE  Scoped(c, x) = x
<1>1. Min({x, Whole}) = x
  BY MinOfTwo DEF Whole
<1>2. Max({0, x}) = x
  BY MaxOfTwo
<1>3. Scoped(c, x) = 0 + (x * Whole) \div Whole
  BY <1>1, <1>2 DEF Scoped, Clamp
<1> QED BY <1>3 DEF Whole

LEMMA CallIsCall ==
  ASSUME NEW k \in Kinds, NEW S \in SUBSET AllFrames
  PROVE  /\ IsCall(Call(k, S)) /\ Call(k, S).frames = S
         /\ k # "auto_bp_shift" => Banded(Call(k, S))
<1> DEFINE c == Call(k, S)
<1>1. /\ Node(k).start \in Nat /\ Node(k).low \in Nat /\ Node(k).high \in Nat
      /\ Phases(k) \in Nat \ {0}
      /\ Node(k).low <= Node(k).high /\ Node(k).high <= Whole
      /\ k # "auto_bp_shift" => Node(k).start <= Node(k).low
  BY NodeTable DEF Phases
<1>2. /\ c.base = 0 /\ c.width = Whole /\ c.low = Node(k).low /\ c.start = Node(k).start
      /\ c.high = Node(k).high /\ c.phases = Phases(k) /\ c.frames = S
      /\ {"low", "high", "phases", "base", "width", "start", "frames"} \subseteq DOMAIN c
  BY DEF Call
<1> HIDE DEF c
<1>3. IsCall(c)
  BY <1>1, <1>2 DEF IsCall, Whole
<1>4. Scoped(c, c.low) = c.low
  BY <1>1, <1>2, WholeWindow DEF Whole
<1> QED BY <1>1, <1>2, <1>3, <1>4 DEF Banded, c

(* The share of the bar that the call of a group gets.                     *)
LEMMA WidthIsSet ==
  ASSUME NEW c, IsCall(c), NEW w \in Nat
  PROVE  LET d == [c EXCEPT !.counts = FALSE, !.width = w]
         IN  IsCall(d) /\ d.width = w /\ d.frames = c.frames
<1> DEFINE d == [c EXCEPT !.counts = FALSE, !.width = w]
<1>1. DOMAIN d = DOMAIN c
  OBVIOUS
<1>2. /\ d.low = c.low /\ d.high = c.high /\ d.phases = c.phases
      /\ d.base = c.base /\ d.width = w /\ d.start = c.start /\ d.frames = c.frames
  BY DEF IsCall
<1> HIDE DEF d
<1>3. IsCall(d)
  BY <1>1, <1>2 DEF IsCall
<1> QED BY <1>2, <1>3 DEF d

(* It begins with its window, where the frames that are done end.          *)
Done(done, total) == 500 + (done * 9000) \div total

LEMMA ShareIsBanded ==
  ASSUME NEW c, IsCall(c), NEW done \in Nat, NEW total \in Nat \ {0}
  PROVE  /\ Banded(From(c, done, total))
         /\ From(c, done, total).base = Done(done, total)
         /\ From(c, done, total).start = From(c, done, total).base
         /\ From(c, done, total).width = c.width
         /\ From(c, done, total).frames = c.frames
<1> DEFINE at == Done(done, total)
           d == From(c, done, total)
<1>1. d = [c EXCEPT !.base = at, !.start = at]
  BY DEF From, Done
<1>2. at \in Nat
  <2>1. done * 9000 \in Nat
    OBVIOUS
  <2>2. (done * 9000) \div total \in Nat
    BY <2>1, SharesFit
  <2> QED BY <2>2 DEF Done
<1> HIDE DEF at, d
<1>3. DOMAIN d = DOMAIN c
  BY <1>1
<1>4. /\ d.low = c.low /\ d.high = c.high /\ d.phases = c.phases
      /\ d.base = at /\ d.start = at /\ d.width = c.width /\ d.frames = c.frames
  BY <1>1 DEF IsCall
<1>5. IsCall(d)
  BY <1>2, <1>3, <1>4 DEF IsCall
<1>6. d.base <= Scoped(d, d.low)
  BY <1>5, WindowRises DEF IsCall
<1> QED BY <1>4, <1>5, <1>6 DEF Banded, at, d

-----------------------------------------------------------------------------
(* The groups of a calibration: no frame is in two of them.                *)

LEMMA AllFramesAreFinite == IsFiniteSet(AllFrames)
<1> DEFINE sets == {Sessions[s].lights : s \in DOMAIN Sessions}
           lights == [s \in DOMAIN Sessions |-> Sessions[s].lights]
           D == Ids \cup {NoDark}
           pairs == AllLights \X D
           frame == [p \in pairs |-> [light |-> p[1], dark |-> p[2]]]
<1>1. IsFiniteSet(AllLights)
  <2>1. lights \in Surjection(DOMAIN Sessions, sets)
    BY DEF Surjection
  <2>2. \A T \in sets : IsFiniteSet(T)
    BY SessionsAssumption
  <2>3. AllLights = UNION sets
    BY DEF AllLights
  <2> HIDE DEF sets, lights
  <2>4. IsFiniteSet(sets)
    BY <2>1, SessionsAssumption, FS_Surjection
  <2> QED BY <2>2, <2>3, <2>4, FS_UNION
<1>2. IsFiniteSet(D)
  BY DarksAssumption, FS_AddElement
<1>3. IsFiniteSet(pairs)
  <2> HIDE DEF D
  <2> QED BY <1>1, <1>2, FS_Product
<1>4. frame \in Surjection(pairs, AllFrames)
  <2>1. frame \in [pairs -> AllFrames]
    BY DEF AllFrames
  <2>2. ASSUME NEW f \in AllFrames PROVE \E p \in pairs : frame[p] = f
    <3>1. f.light \in AllLights /\ f.dark \in D /\ f = [light |-> f.light, dark |-> f.dark]
      BY DEF AllFrames
    <3>2. <<f.light, f.dark>> \in pairs /\ frame[<<f.light, f.dark>>] = f
      BY <3>1
    <3> QED BY <3>2
  <2> HIDE DEF frame, pairs
  <2> QED BY <2>1, <2>2 DEF Surjection
<1> HIDE DEF frame, pairs
<1> QED BY <1>3, <1>4, FS_Surjection

(* The pool of an accepted request is a list of darks, whatever its mode.  *)
LEMMA PoolIsDarks ==
  ASSUME NEW r \in Requests, ~Refused(r) PROVE DarkRefs(r) \in Seq(Ids)
<1>1. r.sessions \subseteq DOMAIN Sessions
  BY DEF Refused
<1> DEFINE p == BundleDarks(Bundle(r), Sessions[FirstOf(r)])
<1>2. p \in Seq(Ids)
  BY <1>1, BundleIsMeasured, BundleServesItsLights
<1> HIDE DEF p
<1>3. r.mode = "explicit" => <<r.dark>> \in Seq(Ids)
  BY DEF Refused
<1>4. <<>> \in Seq(Ids)
  OBVIOUS
<1>5. DarkRefs(r) = CASE r.mode = "none" -> <<>>
                      [] r.mode = "explicit" -> <<r.dark>>
                      [] OTHER -> p
  BY DEF DarkRefs, p
<1> QED BY <1>2, <1>3, <1>4, <1>5

LEMMA KeptAreFrames ==
  ASSUME pool \in Seq(Ids), NEW S \in SUBSET AllFrames
  PROVE  /\ Kept(S) \subseteq AllFrames
         /\ \A f \in Kept(S) : f.dark = PickDark(f.light, pool)
<1> SUFFICES ASSUME NEW f \in Routed(S)
             PROVE  f \in AllFrames /\ f.dark = PickDark(f.light, pool)
  BY DEF Kept
<1>1. PICK g \in S : f = [g EXCEPT !.dark = PickDark(g.light, pool)]
  BY DEF Routed
<1> DEFINE l == g.light
           d == PickDark(l, pool)
<1>2. g \in AllFrames /\ l \in AllLights
  BY DEF AllFrames
<1>3. d = NoDark \/ d \in Ids
  BY <1>2, LightsAreMeasured, FrameIsServed
<1>4. f = [g EXCEPT !.dark = d]
  BY <1>1
<1> HIDE DEF d
<1>5. f \in AllFrames /\ f.light = l /\ f.dark = d
  BY <1>2, <1>3, <1>4 DEF AllFrames
<1> QED BY <1>5 DEF d

(* Sorting puts no member of a set twice.                                  *)
LEMMA OrderedIsOnce ==
  ASSUME NEW S, IsFiniteSet(S), NEW R,
         \A x \in S : <<x, x>> \notin R,
         \A x, y \in S : x # y => <<x, y>> \in R \/ <<y, x>> \in R,
         \A x, y, z \in S : <<x, y>> \in R /\ <<y, z>> \in R => <<x, z>> \in R
  PROVE  \A i, j \in DOMAIN Ordered(S, R) :
            Ordered(S, R)[i] = Ordered(S, R)[j] => i = j
<1> DEFINE n == Cardinality(S)
           Rank(x) == Cardinality({y \in S : <<y, x>> \in R})
<1>1. n \in Nat /\ DOMAIN Ordered(S, R) = 1 .. n
  BY OrderedIsSequence
<1>2. \A i \in 1 .. n : \E x \in S : Rank(x) = i - 1
  <2>1. PICK rank \in [S -> 0 .. (n-1)] :
          /\ \A x \in S : rank[x] = Rank(x)
          /\ \A x, y \in S : rank[x] = rank[y] => x = y
          /\ \A i \in 1 .. n : \E x \in S : rank[x] = i - 1
    BY RanksFill
  <2> HIDE DEF Rank
  <2> QED BY <2>1
<1>3. \A i \in 1 .. n : Ordered(S, R)[i] = CHOOSE x \in S : Rank(x) = i - 1
  BY DEF Ordered
<1> HIDE DEF Rank
<1>4. \A i \in 1 .. n : Rank(Ordered(S, R)[i]) = i - 1
  BY <1>2, <1>3, Zenon
<1> QED
  <2> SUFFICES ASSUME NEW i \in 1 .. n, NEW j \in 1 .. n, Ordered(S, R)[i] = Ordered(S, R)[j]
               PROVE  i = j
    BY <1>1
  <2>1. i - 1 = j - 1
    BY <1>4
  <2> QED BY <1>1, <2>1

(* The calls that are left share the bar by their frames, and begin where  *)
(* the frames in S end.                                                    *)
Shares(todo, S, total) ==
  /\ total \in Nat \ {0}
  /\ \A n \in DOMAIN todo :
       /\ todo[n].base = Done(Cardinality(S), total)
       /\ todo[n].start = todo[n].base
       /\ todo[n].width = (Cardinality(todo[n].frames) * 9000) \div total
       /\ todo[n].frames \cap S = {}
       /\ \A m \in DOMAIN todo : m # n => todo[m].frames \cap todo[n].frames = {}

(* Each call keeps to its band.                                            *)
AllBanded(todo) ==
  (\E X : todo \in Seq(X)) /\ \A n \in DOMAIN todo : Banded(todo[n])

LEMMA GroupCallsShare ==
  ASSUME pool \in Seq(Ids), NEW S \in SUBSET AllFrames
  PROVE  \/ GroupCalls(S) = <<>>
         \/ /\ AllBanded(GroupCalls(S))
            /\ Shares(GroupCalls(S), {}, Cardinality(Kept(S)))
<1> DEFINE kept == Kept(S)
           total == Cardinality(kept)
           group(d) == {f \in kept : f.dark = d}
           first(d) == Min({f.light.id : f \in group(d)})
           darks == {f.dark : f \in kept}
           order == Ordered(darks, {p \in darks \X darks : first(p[1]) < first(p[2])})
           R == {p \in darks \X darks : first(p[1]) < first(p[2])}
           call(g) == [Call("calibrate", g) EXCEPT
                         !.counts = FALSE, !.width = (Cardinality(g) * 9000) \div total]
           todo == [n \in DOMAIN order |-> From(call(group(order[n])), 0, total)]
<1>1. GroupCalls(S) = todo
  BY DEF GroupCalls
<1>2. /\ kept \subseteq AllFrames
      /\ \A f \in kept : f.dark = PickDark(f.light, pool)
  BY KeptAreFrames
<1>3. IsFiniteSet(kept) /\ total \in Nat /\ (total = 0 => kept = {})
  BY <1>2, AllFramesAreFinite, FS_Subset, FS_CardinalityType, FS_EmptySet
<1>4. IsFiniteSet(darks)
  <2>1. darks \in SUBSET (Ids \cup {NoDark})
    BY <1>2 DEF AllFrames
  <2>2. IsFiniteSet(Ids \cup {NoDark})
    BY DarksAssumption, FS_AddElement
  <2> HIDE DEF darks
  <2> QED BY <2>1, <2>2, FS_Subset
<1>5. \A d \in darks : \E f \in group(d) : f.light.id = first(d) /\ first(d) \in Nat
  <2> SUFFICES ASSUME NEW d \in darks
               PROVE  \E f \in group(d) : f.light.id = first(d) /\ first(d) \in Nat
    OBVIOUS
  <2> DEFINE ids == {f.light.id : f \in group(d)}
  <2>1. ids # {}
    OBVIOUS
  <2>2. ids \in SUBSET Nat
    <3> SUFFICES ASSUME NEW f \in kept PROVE f.light.id \in Nat
      OBVIOUS
    <3>1. f.light \in AllLights
      BY <1>2 DEF AllFrames
    <3> QED BY <3>1, SessionsAssumption DEF AllLights
  <2>3. Min(ids) \in ids
    <3> HIDE DEF ids
    <3> QED BY <2>1, <2>2, LeastExists
  <2> QED BY <2>2, <2>3
<1>6. ASSUME NEW f \in kept, NEW g \in kept, f.light.id = g.light.id
      PROVE  f.dark = g.dark
  <2>1. f.light \in AllLights /\ g.light \in AllLights
    BY <1>2 DEF AllFrames
  <2>2. f.light = g.light
    BY <1>6, <2>1, SessionsAssumption DEF AllLights
  <2> HIDE DEF kept
  <2> QED BY <1>2, <2>2
<1>7. \A d, e \in darks : first(d) = first(e) => d = e
  <2> SUFFICES ASSUME NEW d \in darks, NEW e \in darks, first(d) = first(e)
               PROVE  d = e
    OBVIOUS
  <2>1. PICK f \in group(d) : f.light.id = first(d)
    BY <1>5
  <2>2. PICK g \in group(e) : g.light.id = first(e)
    BY <1>5
  <2>3. f \in kept /\ g \in kept /\ f.dark = d /\ g.dark = e
    OBVIOUS
  <2>4. f.light.id = g.light.id
    BY <2>1, <2>2
  <2> QED BY <1>6, <2>3, <2>4
<1>8. \A d, e \in darks : <<d, e>> \in R <=> first(d) < first(e)
  OBVIOUS
<1>9. /\ \A d \in darks : <<d, d>> \notin R
      /\ \A d, e \in darks : d # e => <<d, e>> \in R \/ <<e, d>> \in R
      /\ \A c, d, e \in darks : <<c, d>> \in R /\ <<d, e>> \in R => <<c, e>> \in R
  <2>1. \A d \in darks : first(d) \in Nat
    BY <1>5
  <2> HIDE DEF R, darks, first
  <2> QED BY <1>7, <1>8, <2>1
<1>10. /\ \A i \in DOMAIN order : order[i] \in darks
       /\ \A i, j \in DOMAIN order : order[i] = order[j] => i = j
       /\ Cardinality(darks) \in Nat /\ DOMAIN order = 1 .. Cardinality(darks)
  <2>1. order = Ordered(darks, R)
    OBVIOUS
  <2> HIDE DEF R, darks, order
  <2>2. /\ \A i \in DOMAIN Ordered(darks, R) : Ordered(darks, R)[i] \in darks
        /\ \A i, j \in DOMAIN Ordered(darks, R) :
             Ordered(darks, R)[i] = Ordered(darks, R)[j] => i = j
        /\ Cardinality(darks) \in Nat
        /\ DOMAIN Ordered(darks, R) = 1 .. Cardinality(darks)
    BY <1>4, <1>9, OrderedHasAll, OrderedIsOnce, OrderedIsSequence
  <2> QED BY <2>1, <2>2
<1>11. DOMAIN order # {} => total \in Nat \ {0}
  <2> SUFFICES ASSUME NEW n \in DOMAIN order PROVE kept # {}
    BY <1>3
  <2>1. order[n] \in darks
    BY <1>10
  <2> HIDE DEF order, kept
  <2> QED BY <2>1
<1>12. ASSUME NEW n \in DOMAIN order
       PROVE  /\ Banded(todo[n])
              /\ todo[n].base = Done(0, total)
              /\ todo[n].start = todo[n].base
              /\ todo[n].width = (Cardinality(todo[n].frames) * 9000) \div total
              /\ todo[n].frames = group(order[n])
  <2> DEFINE g == group(order[n])
             w == (Cardinality(g) * 9000) \div total
             c == Call("calibrate", g)
             e == [c EXCEPT !.counts = FALSE, !.width = w]
  <2>0. total \in Nat \ {0}
    <3> HIDE DEF order, total
    <3> QED BY <1>11
  <2>1. g \in SUBSET AllFrames
    BY <1>2
  <2>2. todo[n] = From(e, 0, total)
    OBVIOUS
  <2>3. w \in Nat
    <3>1. Cardinality(g) \in Nat
      <4> HIDE DEF g
      <4> QED BY <2>1, AllFramesAreFinite, FS_Subset, FS_CardinalityType
    <3>2. Cardinality(g) * 9000 \in Nat
      <4> HIDE DEF g
      <4> QED BY <3>1
    <3> HIDE DEF g, total
    <3> QED BY <2>0, <3>2, SharesFit
  <2>4. IsCall(c) /\ c.frames = g
    <3>1. "calibrate" \in Kinds
      BY DEF Kinds
    <3> HIDE DEF g
    <3> QED BY <2>1, <3>1, CallIsCall
  <2> HIDE DEF c, w, g, total
  <2>5. IsCall(e) /\ e.width = w /\ e.frames = g
    BY <2>3, <2>4, WidthIsSet
  <2> HIDE DEF e
  <2> DEFINE d == From(e, 0, total)
  <2>6. /\ Banded(d)
        /\ d.base = Done(0, total) /\ d.start = d.base
        /\ d.width = e.width /\ d.frames = e.frames
    BY <2>0, <2>5, ShareIsBanded
  <2>7. todo[n] = d
    BY <2>2
  <2> HIDE DEF d, todo
  <2>8. /\ Banded(todo[n]) /\ todo[n].base = Done(0, total)
        /\ todo[n].start = todo[n].base /\ todo[n].width = w /\ todo[n].frames = g
    BY <2>5, <2>6, <2>7
  <2> QED BY <2>8 DEF w, g
<1>13. \A m, n \in DOMAIN order : m # n => todo[m].frames \cap todo[n].frames = {}
  <2> HIDE DEF todo, order, kept
  <2> SUFFICES ASSUME NEW m \in DOMAIN order, NEW n \in DOMAIN order, m # n
               PROVE  todo[m].frames \cap todo[n].frames = {}
    OBVIOUS
  <2>1. todo[m].frames = group(order[m]) /\ todo[n].frames = group(order[n])
    BY <1>12
  <2>2. order[m] # order[n]
    BY <1>10
  <2> QED BY <2>1, <2>2
<1>14. DOMAIN todo = DOMAIN order /\ todo = [n \in DOMAIN order |-> todo[n]]
  OBVIOUS
<1> HIDE DEF todo, order, total, darks
<1>15. \E X : todo \in Seq(X)
  <2> DEFINE X == {todo[n] : n \in DOMAIN order}
  <2>1. todo \in [1 .. Cardinality(darks) -> X]
    BY <1>10, <1>14
  <2>2. todo \in Seq(X)
    <3> HIDE DEF X
    <3> QED BY <1>10, <2>1
  <2> QED BY <2>2
<1>16. Cardinality({}) = 0
  BY FS_EmptySet
<1>17. AllBanded(todo)
  BY <1>12, <1>14, <1>15 DEF AllBanded
<1>18. DOMAIN order # {} => Shares(todo, {}, total)
  BY <1>11, <1>12, <1>13, <1>14, <1>16 DEF Shares
<1>19. DOMAIN order = {} => todo = <<>>
  BY <1>14, <1>15
<1> QED BY <1>1, <1>17, <1>18, <1>19 DEF total

-----------------------------------------------------------------------------
(* What a node reports itself never falls either.                          *)

Rising(q) ==
  q \in Seq(Nat) /\ \A i, j \in DOMAIN q : i <= j => q[i] <= q[j]

LEMMA LoopRises ==
  ASSUME NEW n \in Nat \ {0}, NEW step \in {10, 25}, NEW span \in Nat
  PROVE  Rising(Loop(n, step, span))
<1> DEFINE m == (n + step - 2) \div step + 1
           at(j) == Min({step * (j - 1) + 1, n})
           says_(j) == 500 + (span * at(j)) \div n
           q == Loop(n, step, span)
<1>1. m \in Nat
  <2>1. CASE step = 10
    BY <2>1
  <2>2. CASE step = 25
    BY <2>2
  <2> QED BY <2>1, <2>2
<1>2. q = [j \in 1 .. m |-> says_(j)]
  BY DEF Loop
<1>3. ASSUME NEW i \in 1 .. m, NEW j \in 1 .. m, i <= j
      PROVE  at(i) \in Nat /\ at(j) \in Nat /\ at(i) <= at(j)
  <2>1. /\ step * (i - 1) + 1 \in Nat /\ step * (j - 1) + 1 \in Nat
        /\ step * (i - 1) + 1 <= step * (j - 1) + 1
    <3>1. CASE step = 10
      BY <1>3, <3>1
    <3>2. CASE step = 25
      BY <1>3, <3>2
    <3> QED BY <3>1, <3>2
  <2> DEFINE a == step * (i - 1) + 1
             b == step * (j - 1) + 1
  <2>2. a \in Nat /\ b \in Nat /\ a <= b
    BY <2>1
  <2> HIDE DEF a, b
  <2>3. /\ Min({a, n}) = IF a <= n THEN a ELSE n
        /\ Min({b, n}) = IF b <= n THEN b ELSE n
    <3>1. a \in Int /\ b \in Int /\ n \in Int
      BY <2>2
    <3> QED BY <3>1, MinOfTwo
  <2> QED BY <2>2, <2>3 DEF a, b
<1> HIDE DEF at, m
<1>4. ASSUME NEW i \in 1 .. m, NEW j \in 1 .. m, i <= j
      PROVE  says_(i) \in Nat /\ says_(i) <= says_(j)
  <2> DEFINE x == span * at(i)
             y == span * (at(j) - at(i))
  <2>1. at(i) \in Nat /\ at(j) \in Nat /\ at(i) <= at(j)
    BY <1>3, <1>4
  <2>2. x \in Nat /\ y \in Nat /\ span * at(j) = x + y
    <3> DEFINE u == at(i)
               v == at(j)
    <3>1. u \in Nat /\ v \in Nat /\ v - u \in Nat
      BY <2>1
    <3> HIDE DEF u, v
    <3>2. span * u \in Nat /\ span * (v - u) \in Nat
          /\ span * v = span * u + span * (v - u)
      BY <3>1
    <3> QED BY <3>2 DEF u, v
  <2> HIDE DEF x, y
  <2>3. /\ x \div n \in Nat /\ y \div n \in Nat /\ (x + y) \div n \in Nat
        /\ x \div n + y \div n <= (x + y) \div n
    BY <2>2, SharesFit
  <2>4. says_(i) = 500 + x \div n /\ says_(j) = 500 + (x + y) \div n
    BY <2>2 DEF x
  <2> HIDE DEF says_
  <2> QED BY <2>3, <2>4
<1> HIDE DEF says_, q
<1>5. q \in [1 .. m -> Nat] /\ DOMAIN q = 1 .. m
  BY <1>1, <1>2, <1>4
<1>6. \A i, j \in 1 .. m : i <= j => q[i] <= q[j]
  BY <1>2, <1>4
<1> QED BY <1>1, <1>5, <1>6 DEF Rising, q

(* A few reports in a row.                                                 *)
LEMMA OneRises ==
  ASSUME NEW a \in Nat PROVE Rising(<<a>>)
BY DEF Rising

LEMMA TwoRise ==
  ASSUME NEW a \in Nat, NEW b \in Nat, a <= b PROVE Rising(<<a, b>>)
BY DEF Rising

LEMMA ThreeRise ==
  ASSUME NEW a \in Nat, NEW b \in Nat, NEW c \in Nat, a <= b, b <= c
  PROVE  Rising(<<a, b, c>>)
BY DEF Rising

LEMMA ReportsRise ==
  /\ Rising(<<>>) /\ Rising(<<200>>) /\ Rising(<<500>>) /\ Rising(<<1000>>)
  /\ Rising(<<5000>>) /\ Rising(<<9000>>)
  /\ Rising(<<500, 1000>>) /\ Rising(<<500, 7000>>) /\ Rising(<<8500, 9500>>)
  /\ Rising(<<1000, 9000>>) /\ Rising(<<1000, 8000>>) /\ Rising(<<1000, 5000>>)
  /\ Rising(<<1000, 3000, 9000>>) /\ Rising(<<1000, 3000, 8000>>)
<1>1. Rising(<<>>)
  BY DEF Rising
<1>2. /\ Rising(<<200>>) /\ Rising(<<500>>) /\ Rising(<<1000>>)
      /\ Rising(<<5000>>) /\ Rising(<<9000>>)
  BY OneRises
<1>3. /\ Rising(<<500, 1000>>) /\ Rising(<<500, 7000>>) /\ Rising(<<8500, 9500>>)
      /\ Rising(<<1000, 9000>>) /\ Rising(<<1000, 8000>>) /\ Rising(<<1000, 5000>>)
  BY TwoRise
<1>4. Rising(<<1000, 3000, 9000>>) /\ Rising(<<1000, 3000, 8000>>)
  BY ThreeRise
<1> QED BY <1>1, <1>2, <1>3, <1>4

Upto(q, top) == \A i \in DOMAIN q : q[i] <= top

(* Before a node's program, in place of it, and instead of it.             *)
LEMMA OpeningRises ==
  ASSUME NEW k \in Kinds, NEW n \in Nat \ {0}, NEW q \in Opening(k, n)
  PROVE  /\ Rising(q)
         /\ k = "calibrate" => Upto(q, 500)
         /\ UsesProgram(k) /\ k # "calibrate" => Upto(q, Node(k).start)
<1>2. Rising(Loop(n, 10, 9000)) /\ Rising(Loop(n, 25, 8500))
  BY LoopRises
<1>3. /\ \A i \in DOMAIN <<>> : FALSE
      /\ Upto(<<200>>, 500) /\ Upto(<<500>>, 2000)
      /\ Upto(<<500, 1000>>, 2000) /\ Upto(<<1000>>, 3000)
  BY DEF Upto
<1>4. CASE q \in Before(k, n)
  <2>1. Rising(q)
    <3>1. CASE k = "calibrate"
      BY <1>4, <3>1, ReportsRise DEF Before
    <3>2. CASE k = "seq_offset"
      BY <1>2, <1>4, <3>2 DEF Before
    <3>3. CASE k = "crop"
      <4>1. q \in {<<1000, 9000>>, <<1000, 8000>>,
                  <<1000, 3000, 9000>>, <<1000, 3000, 8000>>}
        BY <1>4, <3>3 DEF Before
      <4> QED BY <4>1, ReportsRise
    <3>4. CASE k \in {"convert_lights", "starnet_extract", "starnet_replace"}
      <4>1. q \in {<<500>>, <<500, 1000>>, <<1000>>}
        BY <1>4, <3>4 DEF Before
      <4> QED BY <4>1, ReportsRise
    <3>5. CASE k = "starnet_recombine"
      <4>1. q \in {<<1000, 9000>>, <<1000, 5000>>}
        BY <1>4, <3>5 DEF Before
      <4> QED BY <4>1, ReportsRise
    <3>6. CASE k \notin {"calibrate", "seq_offset", "crop", "convert_lights",
                        "starnet_extract", "starnet_replace", "starnet_recombine"}
      <4>1. q = <<>>
        BY <1>4, <3>6 DEF Before
      <4> QED BY <4>1, ReportsRise
    <3> QED BY <3>1, <3>2, <3>3, <3>4, <3>5, <3>6
  <2>2. k = "calibrate" => Upto(q, 500)
    BY <1>3, <1>4 DEF Before, Upto
  <2>3. k # "calibrate" /\ UsesProgram(k) => Upto(q, Node(k).start)
    <3> SUFFICES ASSUME k # "calibrate", UsesProgram(k) PROVE Upto(q, Node(k).start)
      OBVIOUS
    <3>1. k \notin {"seq_offset", "crop", "starnet_recombine"}
      BY NotInPython
    <3>2. CASE k = "convert_lights"
      <4>1. q = <<500>> /\ Node(k).start = 2000
        BY <1>4, <3>2, StartTable DEF Before
      <4> QED BY <1>3, <4>1
    <3>3. CASE k = "starnet_extract"
      <4>1. q = <<500, 1000>> /\ Node(k).start = 2000
        BY <1>4, <3>3, StartTable DEF Before
      <4> QED BY <1>3, <4>1
    <3>4. CASE k = "starnet_replace"
      <4>1. q = <<1000>> /\ Node(k).start = 3000
        BY <1>4, <3>4, StartTable DEF Before
      <4> QED BY <1>3, <4>1
    <3>5. CASE k \notin {"convert_lights", "starnet_extract", "starnet_replace"}
      <4>1. q = <<>>
        BY <1>4, <3>1, <3>5 DEF Before
      <4> QED BY <1>3, <4>1 DEF Upto
    <3> QED BY <3>2, <3>3, <3>4, <3>5
  <2> QED BY <2>1, <2>2, <2>3
<1>5. CASE Node(k).program # "none" /\ ~UsesProgram(k)
  <2>1. k \in Switched /\ k # "calibrate" /\ q = SwitchedOff(k, n)
    BY <1>5, OnlySwitchedPass DEF Opening, Switched
  <2>2. Rising(q)
    BY <1>2, <2>1, ReportsRise DEF SwitchedOff, Switched
  <2> QED BY <1>5, <2>1, <2>2
<1> QED BY <1>4, <1>5 DEF Opening

(* After its program: from the end of the band up.                         *)
LEMMA AfterRises ==
  ASSUME NEW k
  PROVE  /\ Rising(After(k))
         /\ k \notin {"starnet_extract", "starnet_replace"} => After(k) = <<>>
         /\ \A i \in DOMAIN After(k) : 8500 <= After(k)[i]
<1>1. Rising(<<>>) /\ Rising(<<9000>>) /\ Rising(<<8500, 9500>>)
  BY ReportsRise
<1>2. /\ \A i \in DOMAIN <<>> : FALSE
      /\ \A i \in DOMAIN <<9000>> : 8500 <= <<9000>>[i]
      /\ \A i \in DOMAIN <<8500, 9500>> : 8500 <= <<8500, 9500>>[i]
  OBVIOUS
<1>3. CASE k = "starnet_extract"
  BY <1>1, <1>2, <1>3 DEF After
<1>4. CASE k = "starnet_replace"
  BY <1>1, <1>2, <1>4 DEF After
<1>5. CASE k \notin {"starnet_extract", "starnet_replace"}
  <2>1. After(k) = <<>>
    BY <1>5 DEF After
  <2> QED BY <1>1, <1>2, <2>1
<1> QED BY <1>3, <1>4, <1>5

(* A report leaves the later ones at least as high.                        *)
LEMMA TailRises ==
  ASSUME NEW q, Rising(q), q # <<>>
  PROVE  /\ Rising(Tail(q)) /\ Head(q) = q[1] /\ 1 \in DOMAIN q /\ Head(q) \in Nat
         /\ \A i \in DOMAIN Tail(q) :
              i + 1 \in DOMAIN q /\ Tail(q)[i] = q[i+1] /\ Head(q) <= Tail(q)[i]
<1>1. q \in Seq(Nat) /\ \A i, j \in DOMAIN q : i <= j => q[i] <= q[j]
  BY DEF Rising
<1>2. /\ Tail(q) \in Seq(Nat) /\ Head(q) = q[1] /\ Len(q) \in Nat \ {0}
      /\ DOMAIN q = 1 .. Len(q) /\ DOMAIN Tail(q) = 1 .. (Len(q) - 1)
      /\ \A i \in 1 .. (Len(q) - 1) : Tail(q)[i] = q[i+1]
  BY <1>1
<1>3. 1 \in DOMAIN q /\ q[1] \in Nat
  BY <1>1, <1>2
<1>4. ASSUME NEW i \in DOMAIN Tail(q)
      PROVE  i + 1 \in DOMAIN q /\ 1 <= i + 1 /\ Tail(q)[i] = q[i+1]
  BY <1>2
<1>5. ASSUME NEW i \in DOMAIN Tail(q), NEW j \in DOMAIN Tail(q), i <= j
      PROVE  Tail(q)[i] <= Tail(q)[j]
  <2>1. i + 1 <= j + 1
    BY <1>2, <1>5
  <2> QED BY <1>1, <1>4, <2>1
<1>6. \A i \in DOMAIN Tail(q) : Head(q) <= Tail(q)[i]
  BY <1>1, <1>2, <1>3, <1>4
<1> QED BY <1>2, <1>3, <1>4, <1>5, <1>6 DEF Rising

-----------------------------------------------------------------------------
(* The invariant: before a program starts the bar is not past where it     *)
(* begins, nor past what the node has still to report; while it runs not   *)
(* past what its meter shows, and after it not past the end of its band;   *)
(* the windows of the groups follow each other while no frame is lost.     *)

Steady == Head(plan) # "auto_bp_shift" /\ (Head(plan) = "calibrate" => lost = 0)

BarHolds ==
  /\ bar \in Int
  /\ reader = "idle" /\ result = "none" /\ calls # <<>> => bar <= calls[1].start
  /\ reader # "idle" => /\ meter \in Meter /\ meter.shown <= calls[1].high
                        /\ bar <= Scoped(calls[1], meter.shown)
  /\ result = "ok" => bar <= Scoped(calls[1], calls[1].high)

\* What the node has still to report lies between the bar and its program.
Coming ==
  /\ Rising(says)
  /\ \A i \in DOMAIN says :
       bar <= says[i] /\ (calls # <<>> => says[i] <= calls[1].start)

\* The two nodes that report after their program leave room above it.
Below(c) == c.base = 0 /\ c.width = Whole /\ c.high = 8500

CallsHold ==
  /\ AllBanded(calls)
  /\ calls # <<>> /\ Head(plan) \in {"starnet_extract", "starnet_replace"} =>
       Below(calls[1])
  /\ Len(calls) > 1 => /\ Head(plan) = "calibrate"
                       /\ Shares(calls, outputs, Cardinality(Kept(inputs)))

BarInv ==
  /\ pool \in Seq(Ids) /\ plan \in Seq(Kinds) /\ lost \in Nat
  /\ frames \cup inputs \cup outputs \subseteq AllFrames
  /\ CallsTyped(calls)
  /\ inNode => plan # <<>> /\ (Steady => CallsHold /\ BarHolds /\ Coming)

\* A program that is gone has an exit status.
CodeInv == code \in {"ok", "bad"}

LEMMA CodeStep == CodeInv /\ [Next]_vars => CodeInv'
<1> SUFFICES ASSUME CodeInv, [Next]_vars PROVE CodeInv'
  OBVIOUS
<1> USE DEF toolVars
<1>1. CASE UNCHANGED toolVars
  BY <1>1 DEF CodeInv
<1>2. CASE UNCHANGED code
  BY <1>2 DEF CodeInv
<1>3. CASE Terminate \/ Kill \/ Exits
  BY <1>3 DEF Terminate, Kill, Exits, CodeInv
<1>4. CASE ProgramRuns
  <2>1. ASSUME NEW f, Line(calls[1], f) PROVE UNCHANGED code
    BY <2>1 DEF Line
  <2> QED
    BY <1>2, <1>3, <1>4, <2>1 DEF ProgramRuns, Spawn, EndOfOutput, Reaped, ClosesOutput,
       LineRaises, TimesOut, Floods
<1>5. CASE NodeStarts \/ Reports \/ ProgramBegins \/ Output \/ NodeCommits \/ Cancel
  BY <1>2, <1>5 DEF NodeStarts, Reports, ProgramBegins, Begin, Output, NodeCommits, Cancel
<1>6. ASSUME NEW r, Submit(r) PROVE CodeInv'
  BY <1>1, <1>6 DEF Submit
<1> QED
  BY <1>1, <1>4, <1>5, <1>6
     DEF Next, Stopped, NoBinary, NoOutput, ProgramFailed, WorksInPython, PassesThrough, vars

LEMMA BarStarts == Init => BarInv
<1>1. <<>> \in Seq(Ids) /\ <<>> \in Seq(Kinds)
  OBVIOUS
<1> QED BY <1>1, NoCallsServe DEF Init, BarInv, inNode

(* A step of the program, the reader or the watchdog.                      *)
LEMMA BarStays ==
  ASSUME BarInv, UNCHANGED <<jobVars, nodeVars>>, says = <<>> \/ UNCHANGED bar,
         inNode /\ Steady /\ CallsHold /\ BarHolds => BarHolds'
  PROVE  BarInv'
<1>1. UNCHANGED <<request, outcome, pool, plan, calls, inputs, outputs, says, frames, lost>>
  BY DEF jobVars, nodeVars
<1>2. (CallsTyped(calls) => CallsTyped(calls)') /\ (inNode' <=> inNode) /\ (Steady' <=> Steady)
  BY <1>1 DEF CallsTyped, inNode, Steady
<1>3. CallsHold => CallsHold'
  <2>1. Kept(inputs)' = Kept(inputs)
    BY <1>1 DEF Kept, Routed
  <2>2. AllBanded(calls) => AllBanded(calls)'
    BY <1>1 DEF AllBanded
  <2>3. Shares(calls, outputs, Cardinality(Kept(inputs)))
          => Shares(calls, outputs, Cardinality(Kept(inputs)))'
    BY <1>1, <2>1 DEF Shares
  <2> QED BY <1>1, <2>1, <2>2, <2>3 DEF CallsHold, Below
<1>4. Coming => Coming'
  <2>1. (Rising(says) => Rising(says)') /\ (says = <<>> => DOMAIN says = {})
    BY <1>1 DEF Rising
  <2> QED BY <1>1, <2>1 DEF Coming
<1> QED BY <1>1, <1>2, <1>3, <1>4 DEF BarInv

(* Outside a node nothing is asked of the bar.                             *)
LEMMA BarRests ==
  ASSUME BarInv, ~inNode', UNCHANGED <<pool, plan, calls, lost>>,
         (frames \cup inputs \cup outputs)' \subseteq AllFrames
  PROVE  BarInv'
BY DEF BarInv, CallsTyped

LEMMA EndRests ==
  ASSUME BarInv, NEW how \in {"failed", "cancelled"}, Ends(how),
         UNCHANGED <<plan, calls, inputs, outputs, frames, lost>>
  PROVE  BarInv'
<1>1. ~inNode' /\ UNCHANGED pool
  BY DEF Ends, inNode
<1>2. (frames \cup inputs \cup outputs)' \subseteq AllFrames
  BY DEF BarInv
<1> QED BY <1>1, <1>2, BarRests

(* The first call of a list, and the list behind it.                       *)
LEMMA FirstIsBanded ==
  ASSUME AllBanded(calls), calls # <<>>
  PROVE  Banded(calls[1]) /\ IsCall(calls[1]) /\ Len(calls) \in Nat \ {0}
         /\ DOMAIN calls = 1 .. Len(calls)
<1>1. PICK X : calls \in Seq(X)
  BY DEF AllBanded
<1>2. Len(calls) \in Nat \ {0} /\ DOMAIN calls = 1 .. Len(calls)
  BY <1>1
<1>3. 1 \in DOMAIN calls
  BY <1>2
<1> QED BY <1>2, <1>3 DEF AllBanded, Banded

(* The program's steps.                                                    *)
LEMMA BarKeptByProgram ==
  ASSUME ToolInv, CodeInv, BarInv, ProgramRuns
  PROVE  BarInv' /\ (inNode /\ Steady => bar' >= bar)
<1>1. UNCHANGED <<jobVars, nodeVars>>
  BY DEF ProgramRuns
<1>2. UNCHANGED <<calls, plan, lost>>
  BY <1>1 DEF nodeVars
<1>0. reader # "idle" => says = <<>>
  BY DEF ToolInv
<1>3. CASE reader # "idle" /\ reader' # "idle" /\ UNCHANGED <<result, bar, meter>>
  <2>1. inNode /\ Steady /\ CallsHold /\ BarHolds => BarHolds'
    BY <1>2, <1>3 DEF BarHolds, ToolInv
  <2>2. inNode /\ Steady => bar' >= bar
    BY <1>3 DEF BarInv, BarHolds
  <2> QED BY <1>1, <1>3, <2>1, <2>2, BarStays
<1>4. CASE UNCHANGED <<reader, result, bar, meter>>
  <2>1. inNode /\ Steady /\ CallsHold /\ BarHolds => BarHolds'
    BY <1>2, <1>4 DEF BarHolds
  <2>2. inNode /\ Steady => bar' >= bar
    BY <1>4 DEF BarInv, BarHolds
  <2> QED BY <1>1, <1>4, <2>1, <2>2, BarStays
<1>5. ASSUME reader # "idle", reader' = "idle", result' # "none", UNCHANGED <<bar, meter>>
      PROVE  BarInv' /\ (inNode /\ Steady => bar' >= bar)
  <2>1. ASSUME inNode, Steady, CallsHold, BarHolds PROVE BarHolds'
    <3>1. calls # <<>>
      BY <1>5 DEF ToolInv
    <3>2. IsCall(calls[1])
      BY <2>1, <3>1, FirstIsBanded DEF CallsHold
    <3>3. /\ meter.shown \in Int /\ meter.shown <= calls[1].high
          /\ bar <= Scoped(calls[1], meter.shown) /\ bar \in Int
      BY <1>5, <2>1 DEF BarHolds, Meter
    <3>4. /\ Scoped(calls[1], meter.shown) \in Nat
          /\ Scoped(calls[1], calls[1].high) \in Nat
          /\ Scoped(calls[1], meter.shown) <= Scoped(calls[1], calls[1].high)
      <4>1. calls[1].high \in Int
        BY <3>2 DEF IsCall
      <4> QED BY <3>2, <3>3, <4>1, WindowRises DEF IsCall
    <3>6. bar <= Scoped(calls[1], calls[1].high)
      BY <3>3, <3>4
    <3>5. (bar <= Scoped(calls[1], calls[1].high))'
      BY <1>2, <1>5, <3>6 DEF Scoped
    <3> QED BY <1>2, <1>5, <3>3, <3>5 DEF BarHolds
  <2>2. inNode /\ Steady => bar' >= bar
    BY <1>5 DEF BarInv, BarHolds
  <2> QED BY <1>1, <1>5, <2>1, <2>2, BarStays
<1>6. ASSUME calls # <<>>, NEW f \in Fractions \union {Heartbeat}, Line(calls[1], f)
      PROVE  BarInv' /\ (inNode /\ Steady => bar' >= bar)
  <2>1. ASSUME inNode, Steady, CallsHold, BarHolds PROVE BarHolds' /\ bar' >= bar
    <3> DEFINE c == calls[1]
    <3>1. IsCall(c)
      BY <1>6, <2>1, FirstIsBanded DEF CallsHold
    <3>2. /\ reader = "read" /\ reader' = "read" /\ UNCHANGED result
          /\ meter' = NextMeter(c, f)
          /\ bar' = IF ~c.stream /\ f = Heartbeat THEN bar ELSE Scoped(c, meter'.shown)
          /\ result = "none"
      BY <1>6 DEF Line, ToolInv
    <3>3. /\ meter \in Meter /\ meter.shown <= c.high
          /\ bar \in Int /\ bar <= Scoped(c, meter.shown)
      BY <2>1, <3>2 DEF BarHolds
    <3> HIDE DEF c
    <3>4. meter' \in Meter /\ meter.shown <= meter'.shown /\ meter'.shown <= c.high
      BY <3>1, <3>2, <3>3, MeterRises DEF IsCall
    <3>5. /\ Scoped(c, meter.shown) \in Nat /\ Scoped(c, meter'.shown) \in Nat
          /\ Scoped(c, meter.shown) <= Scoped(c, meter'.shown)
      BY <3>1, <3>3, <3>4, WindowRises DEF IsCall, Meter
    <3>6. bar' \in Int /\ bar' >= bar /\ bar' <= Scoped(c, meter'.shown)
      BY <3>2, <3>3, <3>5
    <3>7. c' = c
      BY <1>2 DEF c
    <3>8. bar' <= Scoped(calls[1], meter.shown)'
      BY <3>6, <3>7 DEF c, Scoped
    <3>9. meter'.shown <= calls'[1].high
      BY <3>4, <3>7 DEF c
    <3> QED BY <1>2, <3>2, <3>4, <3>6, <3>8, <3>9 DEF BarHolds
  <2>2. says = <<>>
    BY <1>0, <1>6 DEF Line
  <2> QED BY <1>1, <2>1, <2>2, BarStays DEF BarInv
<1>7. CASE Spawn \/ EndOfOutput
  BY <1>3, <1>7 DEF Spawn, EndOfOutput
<1>8. CASE Reaped
  <2>1. result' # "none"
    BY <1>8 DEF Reaped, CodeInv
  <2> QED BY <1>5, <1>8, <2>1 DEF Reaped
<1>9. CASE Terminate \/ Kill \/ ClosesOutput \/ Exits
  BY <1>4, <1>9 DEF Terminate, Kill, ClosesOutput, Exits
<1>10. CASE LineRaises(calls[1]) \/ TimesOut(calls[1])
  BY <1>5, <1>10 DEF LineRaises, TimesOut
<1>11. CASE Floods(calls[1])
  BY <1>4, <1>11 DEF Floods
<1> QED BY <1>6, <1>7, <1>8, <1>9, <1>10, <1>11 DEF ProgramRuns

LEMMA BarKeptByBegin ==
  ASSUME ToolInv, BarInv, ProgramBegins
  PROVE  BarInv' /\ (inNode /\ Steady => bar' >= bar)
<1>1. /\ UNCHANGED <<jobVars, nodeVars>> /\ UNCHANGED calls
      /\ inNode /\ calls # <<>> /\ says = <<>> /\ reader = "idle" /\ result = "none"
      /\ \/ reader' = "idle" /\ result' = "cancelled"
         \/ reader' = "spawn" /\ result' = "none"
      /\ bar' = calls[1].start /\ meter' = [last |-> 0, phase |-> 0, shown |-> calls[1].low]
  BY DEF ProgramBegins, Begin, NoMeter, nodeVars
<1>2. ASSUME Steady, CallsHold, BarHolds PROVE BarHolds' /\ bar' >= bar
  <2>1. Banded(calls[1]) /\ IsCall(calls[1])
    BY <1>1, <1>2, FirstIsBanded DEF CallsHold
  <2>2. /\ calls[1].start \in Int /\ calls[1].low \in Int /\ calls[1].low <= calls[1].high
        /\ calls[1].start <= Scoped(calls[1], calls[1].low)
    BY <2>1 DEF Banded, IsCall
  <2>3. meter' \in Meter /\ meter'.shown = calls[1].low
    BY <1>1, <2>2 DEF Meter
  <2>4. Scoped(calls[1], meter.shown)' = Scoped(calls[1], calls[1].low)
    BY <1>1, <2>3 DEF Scoped
  <2>5. bar <= calls[1].start /\ bar \in Int
    BY <1>1, <1>2 DEF BarHolds
  <2> QED BY <1>1, <2>2, <2>3, <2>4, <2>5 DEF BarHolds
<1> QED BY <1>1, <1>2, BarStays DEF BarInv

(* A program's output is taken over: the next share begins where the       *)
(* frames that are written end, which is where the share before it ended.  *)
LEMMA BarKeptByOutput ==
  ASSUME ToolInv, BarInv, Output
  PROVE  BarInv'
<1> DEFINE total == Cardinality(Kept(inputs))
           done == Cardinality(outputs')
           c == calls[1]
<1>1. /\ inNode /\ result = "ok" /\ result' = "none" /\ reader = "idle" /\ calls # <<>>
      /\ UNCHANGED <<jobVars, plan, inputs, frames, reader, bar, meter>>
      /\ says' = (IF calls' = <<>> THEN After(Head(plan)) ELSE <<>>)
      /\ calls' = [n \in DOMAIN Tail(calls) |-> From(Tail(calls)[n], done, total)]
  BY DEF Output, ToolInv, inNode
<1>2. PICK gone \in SUBSET calls[1].frames :
        /\ outputs' = outputs \union (calls[1].frames \ gone)
        /\ lost' = lost + Cardinality(gone)
  BY DEF Output
<1>3. PICK X : calls \in Seq(X)
  BY DEF BarInv, CallsTyped
<1>4. /\ Len(calls) \in Nat \ {0} /\ DOMAIN calls = 1 .. Len(calls)
      /\ Tail(calls) \in Seq(X) /\ DOMAIN Tail(calls) = 1 .. (Len(calls) - 1)
      /\ \A n \in 1 .. (Len(calls) - 1) : Tail(calls)[n] = calls[n+1]
  BY <1>1, <1>3
<1>5. c.frames \subseteq AllFrames
  <2>1. 1 \in DOMAIN calls
    BY <1>4
  <2> QED BY <2>1 DEF BarInv, CallsTyped
<1>6. /\ IsFiniteSet(gone) /\ Cardinality(gone) \in Nat
      /\ (Cardinality(gone) = 0 => gone = {})
      /\ IsFiniteSet(outputs) /\ IsFiniteSet(c.frames) /\ IsFiniteSet(outputs')
      /\ outputs' \subseteq AllFrames
  <2>1. gone \in SUBSET AllFrames /\ outputs \in SUBSET AllFrames
        /\ c.frames \in SUBSET AllFrames
    BY <1>2, <1>5 DEF BarInv
  <2>2. outputs' \in SUBSET AllFrames
    BY <1>2, <2>1
  <2> HIDE DEF c
  <2> QED BY <2>1, <2>2, AllFramesAreFinite, FS_Subset, FS_CardinalityType, FS_EmptySet
<1>7. lost' \in Nat /\ (lost' = 0 => lost = 0 /\ gone = {})
  BY <1>2, <1>6 DEF BarInv
<1>8. CallsTyped(calls')
  BY <1>1, RestServes DEF BarInv
<1>9. /\ UNCHANGED <<request, outcome, pool, plan, inputs, frames>>
      /\ inNode' /\ (Steady' => Steady)
  BY <1>1, <1>7 DEF jobVars, inNode, Steady
<1>10. ASSUME Steady, Steady' PROVE (CallsHold /\ BarHolds /\ Coming)'
  <2>1. CallsHold /\ BarHolds
    BY <1>1, <1>10 DEF BarInv
  <2>2. DOMAIN calls' = 1 .. (Len(calls) - 1) /\ Len(calls) - 1 \in Nat
        /\ Len(calls') = Len(calls) - 1
    <3>1. DOMAIN calls' = 1 .. (Len(calls) - 1) /\ Len(calls) - 1 \in Nat
      BY <1>1, <1>4
    <3>2. PICK Y : calls' \in Seq(Y)
      BY <1>8 DEF CallsTyped
    <3> QED BY <3>1, <3>2
  <2>3. CASE Len(calls) = 1
    <3>1. calls' = <<>>
      <4>1. PICK Y : calls' \in Seq(Y)
        BY <1>8 DEF CallsTyped
      <4> QED BY <2>2, <2>3, <4>1
    <3>2. AllBanded(calls)' /\ ~(Len(calls') > 1)
      BY <2>2, <2>3, <3>1, <1>8 DEF AllBanded, CallsTyped
    <3>3. says' = After(Head(plan)) /\ bar' = bar /\ bar \in Int
      BY <1>1, <2>1, <3>1 DEF BarHolds
    <3>4. Head(plan) \in {"starnet_extract", "starnet_replace"} => bar <= 8500
      <4> SUFFICES ASSUME Head(plan) \in {"starnet_extract", "starnet_replace"}
                   PROVE  bar <= 8500
        OBVIOUS
      <4>1. Below(c) /\ bar <= Scoped(c, c.high)
        BY <1>1, <2>1 DEF CallsHold, BarHolds
      <4> HIDE DEF c
      <4>2. Scoped(c, 8500) = 8500
        BY <4>1, WholeWindow DEF Below, Whole
      <4> QED BY <4>1, <4>2 DEF Below
    <3>5. Coming'
      <4>1. \A i \in DOMAIN says' : bar <= says'[i]
        <5>1. \A i \in DOMAIN says' : says'[i] \in Nat /\ 8500 <= says'[i]
                /\ Head(plan) \in {"starnet_extract", "starnet_replace"}
          BY <3>3, AfterRises DEF Rising
        <5> QED BY <3>3, <3>4, <5>1
      <4>2. Rising(says')
        BY <3>3, AfterRises
      <4>3. Rising(says')  => Rising(says)'
        BY DEF Rising
      <4> QED BY <3>1, <3>3, <4>1, <4>2, <4>3 DEF Coming
    <3> QED BY <1>1, <2>1, <3>1, <3>2, <3>5 DEF CallsHold, BarHolds
  <2>4. CASE Len(calls) > 1
    <3>1. /\ Head(plan) = "calibrate" /\ Shares(calls, outputs, total)
          /\ total \in Nat \ {0} /\ lost' = 0 /\ gone = {}
      BY <1>7, <1>9, <1>10, <2>1, <2>4 DEF CallsHold, Steady, Shares
    <3> HIDE DEF total
    <3>2. /\ outputs' = outputs \cup c.frames /\ outputs \cap c.frames = {}
          /\ c.base = Done(Cardinality(outputs), total)
          /\ c.width = (Cardinality(c.frames) * 9000) \div total
      BY <1>2, <1>4, <3>1 DEF Shares
    <3>3. /\ done = Cardinality(outputs) + Cardinality(c.frames)
          /\ Cardinality(outputs) \in Nat /\ Cardinality(c.frames) \in Nat /\ done \in Nat
      <4> HIDE DEF c
      <4>1. Cardinality(outputs \cap c.frames) = 0
        <5>1. outputs \cap c.frames = {} /\ Cardinality({}) = 0
          BY <3>2, FS_EmptySet
        <5> QED BY <5>1
      <4>2. Cardinality(outputs) \in Nat /\ Cardinality(c.frames) \in Nat
        BY <1>6, FS_CardinalityType
      <4>3. Cardinality(outputs \cup c.frames)
              = Cardinality(outputs) + Cardinality(c.frames) - Cardinality(outputs \cap c.frames)
        BY <1>6, FS_Union
      <4> QED BY <3>2, <4>1, <4>2, <4>3
    <3> HIDE DEF done, c
    <3>4. ASSUME NEW n \in 1 .. (Len(calls) - 1)
          PROVE  /\ Banded(calls'[n]) /\ n + 1 \in DOMAIN calls /\ n + 1 # 1
                 /\ calls'[n].base = Done(done, total)
                 /\ calls'[n].start = calls'[n].base
                 /\ calls'[n].width = calls[n+1].width
                 /\ calls'[n].frames = calls[n+1].frames
      <4>1. n + 1 \in DOMAIN calls /\ n + 1 # 1 /\ Tail(calls)[n] = calls[n+1]
        BY <1>4
      <4>2. calls'[n] = From(calls[n+1], done, total)
        BY <1>1, <1>4, <4>1
      <4>3. IsCall(calls[n+1])
        BY <2>1, <4>1 DEF CallsHold, AllBanded, Banded
      <4> DEFINE d == calls[n+1]
      <4>4. calls'[n] = From(d, done, total) /\ IsCall(d)
        BY <4>2, <4>3
      <4> HIDE DEF d
      <4>5. /\ Banded(From(d, done, total))
            /\ From(d, done, total).base = Done(done, total)
            /\ From(d, done, total).start = From(d, done, total).base
            /\ From(d, done, total).width = d.width
            /\ From(d, done, total).frames = d.frames
        <5>1. done \in Nat /\ total \in Nat \ {0}
          BY <3>1, <3>3
        <5> QED BY <4>4, <5>1, ShareIsBanded
      <4> QED BY <4>1, <4>4, <4>5 DEF d
    <3>5. AllBanded(calls)'
      BY <1>8, <2>2, <3>4 DEF AllBanded, CallsTyped
    <3>6. Shares(calls', outputs', total)
      <4> SUFFICES ASSUME NEW n \in 1 .. (Len(calls) - 1)
                   PROVE  /\ calls'[n].base = Done(Cardinality(outputs'), total)
                          /\ calls'[n].start = calls'[n].base
                          /\ calls'[n].width = (Cardinality(calls'[n].frames) * 9000) \div total
                          /\ calls'[n].frames \cap outputs' = {}
                          /\ \A m \in 1 .. (Len(calls) - 1) : m # n =>
                                calls'[m].frames \cap calls'[n].frames = {}
        BY <2>2, <3>1 DEF Shares
      <4>1. n + 1 \in DOMAIN calls /\ n + 1 # 1 /\ 1 \in DOMAIN calls
        BY <1>4, <3>4
      <4>2. /\ calls[n+1].width = (Cardinality(calls[n+1].frames) * 9000) \div total
            /\ calls[n+1].frames \cap outputs = {}
            /\ calls[1].frames \cap calls[n+1].frames = {}
            /\ \A m \in DOMAIN calls : m # n + 1 =>
                  calls[m].frames \cap calls[n+1].frames = {}
        BY <3>1, <4>1 DEF Shares
      <4>3. calls'[n].base = Done(Cardinality(outputs'), total)
        BY <3>4 DEF done
      <4>4. calls'[n].width = (Cardinality(calls'[n].frames) * 9000) \div total
        BY <3>4, <4>2
      <4>5. calls'[n].frames \cap outputs' = {}
        BY <3>2, <3>4, <4>2 DEF c
      <4>6. ASSUME NEW m \in 1 .. (Len(calls) - 1), m # n
            PROVE  calls'[m].frames \cap calls'[n].frames = {}
        <5>1. m + 1 # n + 1 /\ m + 1 \in DOMAIN calls
          BY <1>4, <4>6
        <5>2. calls'[m].frames = calls[m+1].frames /\ calls'[n].frames = calls[n+1].frames
          BY <3>4
        <5> QED BY <4>2, <5>1, <5>2
      <4> QED BY <3>4, <4>3, <4>4, <4>5, <4>6
    <3>7. Kept(inputs)' = Kept(inputs)
      BY <1>9 DEF Kept, Routed
    <3>8. CallsHold'
      BY <1>9, <3>1, <3>5, <3>6, <3>7 DEF CallsHold, Below, total, Shares
    <3>9. bar <= calls'[1].start /\ bar \in Int
      <4>1. bar <= c.base + c.width /\ bar \in Int
        <5>1. bar <= Scoped(c, c.high) /\ bar \in Int
          BY <1>1, <2>1 DEF BarHolds, c
        <5>2. IsCall(c)
          BY <1>1, <2>1, FirstIsBanded DEF CallsHold, c
        <5>3. /\ Scoped(c, c.high) \in Nat /\ c.base \in Nat /\ c.width \in Nat
              /\ Scoped(c, c.high) <= c.base + c.width
          BY <5>2, WindowRises DEF IsCall
        <5> QED BY <5>1, <5>3
      <4>2. calls'[1].start = Done(done, total)
        <5>1. 1 \in 1 .. (Len(calls) - 1)
          BY <1>4, <2>4
        <5> QED BY <3>4, <5>1
      <4> DEFINE a == Cardinality(outputs) * 9000
                 b == Cardinality(c.frames) * 9000
      <4>3. a \in Nat /\ b \in Nat /\ done * 9000 = a + b
        BY <3>3
      <4>4. c.base = 500 + a \div total /\ c.width = b \div total
        BY <3>2 DEF Done
      <4> HIDE DEF a, b
      <4>5. a \div total \in Nat /\ b \div total \in Nat /\ (a + b) \div total \in Nat
            /\ a \div total + b \div total <= (a + b) \div total
        BY <3>1, <4>3, SharesFit
      <4>6. calls'[1].start = 500 + (a + b) \div total
        BY <4>2, <4>3 DEF Done
      <4> QED BY <4>1, <4>4, <4>5, <4>6
    <3>10. Coming'
      <4>1. calls' # <<>>
        BY <2>2, <2>4
      <4>2. says' = <<>> /\ Rising(<<>>) /\ DOMAIN <<>> = {}
        BY <1>1, <4>1, ReportsRise
      <4>3. Rising(says')  => Rising(says)'
        BY DEF Rising
      <4> QED BY <4>2, <4>3 DEF Coming
    <3> QED BY <1>1, <3>8, <3>9, <3>10 DEF BarHolds
  <2> QED BY <1>4, <2>3, <2>4
<1> QED
  <2>1. (frames \cup inputs \cup outputs)' \subseteq AllFrames
    BY <1>6, <1>9 DEF BarInv
  <2>2. pool' \in Seq(Ids) /\ plan' \in Seq(Kinds) /\ (inNode' => plan' # <<>>)
    BY <1>1, <1>9 DEF BarInv
  <2>3. CallsTyped(calls)'
    BY <1>8 DEF CallsTyped
  <2> QED BY <1>7, <1>9, <1>10, <2>1, <2>2, <2>3 DEF BarInv

-----------------------------------------------------------------------------
(* The calls a node begins with.                                           *)

LEMMA BandedIsTyped ==
  ASSUME NEW todo, AllBanded(todo) PROVE CallsTyped(todo)
BY DEF AllBanded, CallsTyped, Banded, IsCall

LEMMA NoCallsHold == AllBanded(<<>>) /\ Len(<<>>) = 0
<1>1. <<>> \in Seq({}) /\ DOMAIN <<>> = {}
  OBVIOUS
<1> QED BY <1>1 DEF AllBanded

LEMMA OneCallHolds ==
  ASSUME NEW K \in Kinds, NEW S \in SUBSET AllFrames
  PROVE  /\ CallsTyped(<<Call(K, S)>>) /\ Len(<<Call(K, S)>>) = 1
         /\ K # "auto_bp_shift" => AllBanded(<<Call(K, S)>>)
         /\ <<Call(K, S)>>[1].start = Node(K).start
         /\ K \in {"starnet_extract", "starnet_replace"} => Below(<<Call(K, S)>>[1])
<1> DEFINE c == Call(K, S)
<1>0. /\ c.start = Node(K).start
      /\ K \in {"starnet_extract", "starnet_replace"} => Below(c)
  BY StartTable DEF Call, Below
<1>1. IsCall(c) /\ (K # "auto_bp_shift" => Banded(c))
  BY CallIsCall
<1> HIDE DEF c
<1>2. <<c>> \in Seq({c}) /\ DOMAIN <<c>> = {1} /\ <<c>>[1] = c /\ Len(<<c>>) = 1
  OBVIOUS
<1>3. CallsTyped(<<c>>) /\ (K # "auto_bp_shift" => AllBanded(<<c>>))
  BY <1>1, <1>2 DEF CallsTyped, AllBanded, IsCall
<1> QED BY <1>0, <1>2, <1>3 DEF c

LEMMA CalibrateCallsHold ==
  ASSUME pool \in Seq(Ids), NEW S \in SUBSET AllFrames
  PROVE  /\ CallsTyped(CalibrateCalls(S)) /\ AllBanded(CalibrateCalls(S))
         /\ Len(CalibrateCalls(S)) > 1 =>
              Shares(CalibrateCalls(S), {}, Cardinality(Kept(S)))
         /\ CalibrateCalls(S) # <<>> => 500 <= CalibrateCalls(S)[1].start
<1>1. CASE Len(pool) <= 1
  <2> DEFINE d == IF pool = <<>> THEN NoDark ELSE pool[1]
             F == Dressed(S, d)
  <2>1. d \in Ids \cup {NoDark}
    BY <1>1
  <2>2. F = {[f EXCEPT !.dark = d] : f \in S}
    BY DEF Dressed
  <2>3. CalibrateCalls(S) = <<Call("calibrate", F)>>
    BY <1>1 DEF CalibrateCalls, SingleCall
  <2> HIDE DEF d, F
  <2>4. F \subseteq AllFrames
    BY <2>1, <2>2 DEF AllFrames
  <2>5. "calibrate" \in Kinds /\ "calibrate" # "auto_bp_shift"
    BY DEF Kinds
  <2>6. /\ CallsTyped(<<Call("calibrate", F)>>) /\ Len(<<Call("calibrate", F)>>) = 1
        /\ AllBanded(<<Call("calibrate", F)>>)
        /\ <<Call("calibrate", F)>>[1].start = Node("calibrate").start
    BY <2>4, <2>5, OneCallHolds
  <2>7. Node("calibrate").start = 2000
    BY StartTable
  <2> QED BY <2>3, <2>6, <2>7
<1>2. CASE ~(Len(pool) <= 1)
  <2>1. CalibrateCalls(S) = GroupCalls(S)
    BY <1>2 DEF CalibrateCalls
  <2>2. CASE GroupCalls(S) = <<>>
    BY <2>1, <2>2, NoCallsHold, BandedIsTyped
  <2>3. CASE /\ GroupCalls(S) # <<>> /\ AllBanded(GroupCalls(S))
             /\ Shares(GroupCalls(S), {}, Cardinality(Kept(S)))
    <3> DEFINE todo == GroupCalls(S)
               total == Cardinality(Kept(S))
    <3>1. PICK X : todo \in Seq(X)
      BY <2>3 DEF AllBanded
    <3>2. 1 \in DOMAIN todo
      BY <2>3, <3>1
    <3> HIDE DEF todo, total
    <3>3. todo[1].start = Done(Cardinality({}), total) /\ total \in Nat \ {0}
      BY <2>3, <3>2 DEF Shares, todo, total
    <3>4. Done(Cardinality({}), total) = 500
      <4>1. Cardinality({}) = 0
        BY FS_EmptySet
      <4>2. (0 * 9000) \div total = 0
        BY <3>3
      <4> QED BY <4>1, <4>2 DEF Done
    <3>5. 500 <= todo[1].start
      BY <3>3, <3>4
    <3> QED BY <2>1, <2>3, <3>5, BandedIsTyped DEF todo
  <2> QED BY <2>2, <2>3, GroupCallsShare
<1> QED BY <1>1, <1>2

(* A node begins with the bar at 0 and its windows in a row.               *)
LEMMA BarKeptByStart ==
  ASSUME ToolInv, BarInv, NodeStarts
  PROVE  BarInv'
<1> DEFINE k == Head(plan)
           S == Staged(k)
           todo == IF ~UsesProgram(k) THEN <<>>
                   ELSE IF k = "calibrate" THEN CalibrateCalls(S)
                   ELSE <<Call(k, S)>>
<1>1. /\ outcome = "running" /\ inputs = {} /\ plan # <<>>
      /\ outputs' = {} /\ result' = "none"
      /\ UNCHANGED <<reader, meter, plan, frames, lost>>
  BY DEF NodeStarts, between
<1>2. CASE Ends("failed") /\ UNCHANGED <<inputs, calls, says, bar>>
  <2>1. ~inNode' /\ UNCHANGED pool
    BY <1>2 DEF Ends, inNode
  <2>2. (frames \cup inputs \cup outputs)' \subseteq AllFrames
    BY <1>1, <1>2 DEF BarInv
  <2> QED BY <1>1, <1>2, <2>1, <2>2, BarRests
<1>3. CASE /\ inputs' = S /\ S # {} /\ calls' = todo /\ bar' = 0 /\ UNCHANGED jobVars
           /\ says' \in Opening(k, Cardinality(S))
  <2>0. says' \in Opening(k, Cardinality(S)) /\ S # {}
    BY <1>3
  <2>1. S \in SUBSET AllFrames /\ k \in Kinds
    <3>1. S \subseteq frames
      BY DEF Staged
    <3>2. plan \in Seq(Kinds) /\ plan # <<>> /\ frames \subseteq AllFrames
      BY <1>1 DEF BarInv
    <3> HIDE DEF S
    <3> QED BY <3>1, <3>2
  <2>2. UNCHANGED <<request, outcome, pool>> /\ reader = "idle" /\ pool \in Seq(Ids)
    BY <1>1, <1>3 DEF jobVars, ToolInv, inNode, BarInv
  <2> HIDE DEF S
  <2>3. /\ CallsTyped(todo)
        /\ k # "auto_bp_shift" => AllBanded(todo)
        /\ Len(todo) > 1 => k = "calibrate" /\ Shares(todo, {}, Cardinality(Kept(S)))
        /\ todo # <<>> /\ k \in {"starnet_extract", "starnet_replace"} => Below(todo[1])
        /\ todo # <<>> => UsesProgram(k)
        /\ todo # <<>> => IF k = "calibrate" THEN 500 <= todo[1].start
                          ELSE todo[1].start = Node(k).start
    <3>1. CASE ~UsesProgram(k)
      BY <3>1, NoCallsHold, BandedIsTyped
    <3>2. CASE UsesProgram(k) /\ k = "calibrate"
      BY <2>1, <2>2, <3>2, CalibrateCallsHold
    <3>3. CASE UsesProgram(k) /\ k # "calibrate"
      BY <2>1, <3>3, OneCallHolds
    <3> QED BY <3>1, <3>2, <3>3
  <2>8. /\ Rising(says') /\ (k = "calibrate" => Upto(says', 500))
        /\ UsesProgram(k) /\ k # "calibrate" => Upto(says', Node(k).start)
    <3>1. IsFiniteSet(S) /\ Cardinality(S) \in Nat \ {0}
      BY <2>0, <2>1, AllFramesAreFinite, FS_Subset, FS_CardinalityType, FS_EmptySet
    <3> QED BY <2>0, <2>1, <3>1, OpeningRises
  <2> HIDE DEF todo, k
  <2>4. CallsTyped(calls)'
    BY <1>3, <2>3 DEF CallsTyped
  <2>5. (frames \cup inputs \cup outputs)' \subseteq AllFrames
    BY <1>1, <1>3, <2>1 DEF BarInv
  <2>6. pool' \in Seq(Ids) /\ plan' \in Seq(Kinds) /\ lost' \in Nat /\ plan' # <<>>
    BY <1>1, <2>2 DEF BarInv
  <2>7. ASSUME Steady' PROVE (CallsHold /\ BarHolds /\ Coming)'
    <3>1. Head(plan)' = k /\ k # "auto_bp_shift"
      BY <1>1, <2>7 DEF Steady, k
    <3>2. AllBanded(calls)'
      BY <1>3, <2>3, <3>1 DEF AllBanded
    <3>3. Kept(inputs)' = Kept(S)
      BY <1>3, <2>2 DEF Kept, Routed
    <3>4. Len(calls') > 1 => Head(plan)' = "calibrate"
                             /\ Shares(calls', outputs', Cardinality(Kept(S)))
      BY <1>1, <1>3, <2>3, <3>1
    <3>5. CallsHold'
      BY <1>3, <2>3, <3>1, <3>2, <3>3, <3>4 DEF CallsHold, Shares, Below
    <3>6. calls' # <<>> => bar' <= calls'[1].start
      <4> SUFFICES ASSUME calls' # <<>> PROVE calls'[1].start \in Nat
        BY <1>3
      <4>1. PICK X : calls' \in Seq(X)
        BY <3>2 DEF AllBanded
      <4>2. 1 \in DOMAIN calls'
        BY <4>1
      <4> QED BY <3>2, <4>2 DEF AllBanded, Banded, IsCall
    <3>7. Coming'
      <4>1. Rising(says)' /\ \A i \in DOMAIN says' : bar' <= says'[i]
        BY <1>3, <2>8 DEF Rising
      <4>2. ASSUME calls' # <<>>, NEW i \in DOMAIN says'
            PROVE  says'[i] <= calls'[1].start
        <5>1. says'[i] \in Nat
          BY <2>8 DEF Rising
        <5>2. CASE k = "calibrate"
          <6>1. 500 <= calls'[1].start /\ says'[i] <= 500
            BY <1>3, <2>3, <2>8, <4>2, <5>2 DEF Upto
          <6>2. calls'[1].start \in Nat
            <7>1. PICK X : calls' \in Seq(X)
              BY <3>2 DEF AllBanded
            <7>2. 1 \in DOMAIN calls'
              BY <4>2, <7>1
            <7> QED BY <3>2, <7>2 DEF AllBanded, Banded, IsCall
          <6> QED BY <5>1, <6>1, <6>2
        <5>3. CASE k # "calibrate"
          BY <1>3, <2>3, <2>8, <4>2, <5>3 DEF Upto
        <5> QED BY <5>2, <5>3
      <4> QED BY <4>1, <4>2 DEF Coming
    <3> QED BY <1>1, <1>3, <2>2, <3>5, <3>6, <3>7 DEF BarHolds
  <2> QED BY <2>4, <2>5, <2>6, <2>7 DEF BarInv
<1> QED BY <1>2, <1>3 DEF NodeStarts

(* What a node reports itself: the bar goes up to it, and no further.      *)
LEMMA BarKeptByReports ==
  ASSUME ToolInv, BarInv, Reports
  PROVE  BarInv' /\ (inNode /\ Steady => bar' >= bar)
<1>1. /\ inNode /\ says # <<>> /\ reader = "idle" /\ result = "none"
      /\ UNCHANGED <<reader, result, meter, plan, calls, inputs, outputs, frames, lost>>
  BY DEF Reports, ToolInv
<1>2. CASE Ends("cancelled") /\ UNCHANGED <<bar, says>>
  <2>1. inNode /\ Steady => bar \in Int
    BY DEF BarInv, BarHolds
  <2> QED BY <1>1, <1>2, <2>1, EndRests
<1>3. CASE bar' = Head(says) /\ says' = Tail(says) /\ UNCHANGED jobVars
  <2>1. UNCHANGED <<request, outcome, pool>> /\ inNode' /\ (Steady' <=> Steady)
    BY <1>1, <1>3 DEF jobVars, inNode, Steady
  <2>2. (CallsTyped(calls) => CallsTyped(calls)') /\ (AllBanded(calls) => AllBanded(calls)')
    BY <1>1 DEF CallsTyped, AllBanded
  <2>3. CallsHold => CallsHold'
    <3>1. Kept(inputs)' = Kept(inputs)
      BY <1>1, <2>1 DEF Kept, Routed
    <3>2. Shares(calls, outputs, Cardinality(Kept(inputs)))
            => Shares(calls, outputs, Cardinality(Kept(inputs)))'
      BY <1>1, <3>1 DEF Shares
    <3> QED BY <1>1, <2>2, <3>2 DEF CallsHold, Below
  <2>4. ASSUME Steady PROVE BarHolds' /\ Coming' /\ bar' >= bar
    <3>1. BarHolds /\ Coming
      BY <1>1, <2>4 DEF BarInv
    <3>2. /\ Rising(Tail(says)) /\ Head(says) = says[1] /\ 1 \in DOMAIN says
          /\ Head(says) \in Nat
          /\ \A i \in DOMAIN Tail(says) :
               i + 1 \in DOMAIN says /\ Tail(says)[i] = says[i+1]
               /\ Head(says) <= Tail(says)[i]
      BY <1>1, <3>1, TailRises DEF Coming
    <3>3. bar' \in Int /\ bar' >= bar /\ (calls # <<>> => bar' <= calls[1].start)
      BY <1>3, <3>1, <3>2 DEF Coming, BarHolds
    <3>4. BarHolds'
      BY <1>1, <3>3 DEF BarHolds
    <3>5. Rising(says)'
      BY <1>3, <3>2 DEF Rising
    <3>6. \A i \in DOMAIN says' :
            bar' <= says'[i] /\ (calls # <<>> => says'[i] <= calls[1].start)
      BY <1>3, <3>1, <3>2 DEF Coming
    <3>7. Coming'
      BY <1>1, <3>5, <3>6 DEF Coming
    <3> QED BY <3>3, <3>4, <3>7
  <2>5. (frames \cup inputs \cup outputs)' \subseteq AllFrames
    BY <1>1 DEF BarInv
  <2> QED BY <1>1, <2>1, <2>2, <2>3, <2>4, <2>5 DEF BarInv
<1> QED BY <1>2, <1>3 DEF Reports

(* A node that writes its outputs itself has no bar to keep.               *)
LEMMA BarKeptByWriting ==
  ASSUME ToolInv, BarInv, inNode, ~UsesProgram(Head(plan)), WritesAll,
         UNCHANGED <<toolVars, plan, calls, inputs, says, frames, lost>>
  PROVE  BarInv'
<1>1. calls = <<>> /\ result = "none" /\ reader = "idle"
  BY DEF ToolInv, inNode
<1>2. CASE Ends("failed") /\ UNCHANGED outputs
  BY <1>2, EndRests
<1>3. CASE outputs' = inputs /\ UNCHANGED jobVars
  <2>1. /\ UNCHANGED <<request, outcome, pool, bar, reader, result>>
        /\ inNode' /\ (Steady' <=> Steady)
    BY <1>3 DEF jobVars, toolVars, inNode, Steady
  <2>2. (frames \cup inputs \cup outputs)' \subseteq AllFrames
    BY <1>3 DEF BarInv
  <2>3. CallsTyped(calls)' /\ (AllBanded(calls) => AllBanded(calls)')
    BY DEF BarInv, CallsTyped, AllBanded
  <2>4. ASSUME Steady PROVE (CallsHold /\ BarHolds /\ Coming)'
    <3>1. CallsHold /\ BarHolds /\ Coming
      BY <2>4 DEF BarInv
    <3>2. ~(Len(calls') > 1)
      BY <1>1
    <3>3. Rising(says) => Rising(says)'
      BY DEF Rising
    <3>4. CallsHold' /\ BarHolds'
      BY <1>1, <2>1, <2>3, <3>1, <3>2 DEF CallsHold, BarHolds
    <3>5. Coming'
      BY <1>1, <2>1, <3>1, <3>3 DEF Coming
    <3> QED BY <3>4, <3>5
  <2> QED BY <2>1, <2>2, <2>3, <2>4 DEF BarInv
<1> QED BY <1>2, <1>3 DEF WritesAll

LEMMA BarStep == ToolInv /\ CodeInv /\ BarInv /\ [Next]_vars => BarInv'
<1> SUFFICES ASSUME ToolInv, CodeInv, BarInv, [Next]_vars PROVE BarInv'
  OBVIOUS
<1>1. CASE UNCHANGED vars \/ Cancel
  <2>1. UNCHANGED <<jobVars, nodeVars>> /\ UNCHANGED <<reader, result, bar, meter, calls>>
    BY <1>1 DEF vars, Cancel, toolVars, nodeVars
  <2>2. inNode /\ Steady /\ CallsHold /\ BarHolds => BarHolds'
    BY <2>1 DEF BarHolds
  <2> QED BY <2>1, <2>2, BarStays
<1>2. ASSUME NEW r \in Requests, Submit(r) PROVE BarInv'
  <2>1. /\ inputs = {} /\ UNCHANGED <<calls, inputs, outputs, lost>> /\ ~inNode'
    BY <1>2 DEF Submit, ToolInv, inNode
  <2>2. CASE outcome' = "running"
    <3>1. /\ ~Refused(r) /\ pool' = DarkRefs(r) /\ plan' = r.template
          /\ frames' = {[light |-> l, dark |-> NoDark] : l \in LightsFolder(r)}
      BY <1>2, <2>2 DEF Submit
    <3>2. pool' \in Seq(Ids) /\ plan' \in Seq(Kinds)
      BY <3>1, PoolIsDarks, RequestsAssumption
    <3>3. frames' \subseteq AllFrames
      BY <3>1, FolderHasLights
    <3>4. CallsTyped(calls)'
      BY <2>1 DEF BarInv, CallsTyped
    <3> QED BY <2>1, <3>2, <3>3, <3>4 DEF BarInv
  <2>3. CASE outcome' # "running"
    <3>1. UNCHANGED <<pool, plan, frames>>
      BY <1>2, <2>3 DEF Submit
    <3>2. (frames \cup inputs \cup outputs)' \subseteq AllFrames
      BY <2>1, <3>1 DEF BarInv
    <3> QED BY <2>1, <3>1, <3>2, BarRests
  <2> QED BY <2>2, <2>3
<1>3. CASE Stopped \/ NoBinary \/ NoOutput \/ ProgramFailed
  <2>1. UNCHANGED <<plan, calls, inputs, outputs, frames, lost>>
    BY <1>3 DEF Stopped, NoBinary, NoOutput, ProgramFailed, nodeVars
  <2>2. Ends("failed") \/ Ends("cancelled")
    BY <1>3 DEF Stopped, NoBinary, NoOutput, ProgramFailed
  <2> QED BY <2>1, <2>2, EndRests
<1>4. CASE WorksInPython
  <2>1. ~UsesProgram(Head(plan)) /\ inNode
    BY <1>4 DEF WorksInPython, UsesProgram
  <2> QED BY <1>4, <2>1, BarKeptByWriting DEF WorksInPython
<1>5. CASE PassesThrough
  BY <1>5, BarKeptByWriting DEF PassesThrough
<1>6. CASE NodeCommits
  <2>1. /\ ~inNode' /\ frames' = outputs /\ inputs' = {} /\ outputs' = {}
        /\ plan' = Tail(plan) /\ UNCHANGED <<pool, calls, lost>> /\ inNode
    BY <1>6 DEF NodeCommits, inNode
  <2>2. plan' \in Seq(Kinds)
    BY <2>1 DEF BarInv
  <2>3. CallsTyped(calls)'
    BY <2>1 DEF BarInv, CallsTyped
  <2> QED BY <2>1, <2>2, <2>3 DEF BarInv
<1> QED
  BY <1>1, <1>2, <1>3, <1>4, <1>5, <1>6, BarKeptByStart, BarKeptByReports,
     BarKeptByBegin, BarKeptByProgram, BarKeptByOutput DEF Next

LEMMA BarInvariant == Spec => [](ToolInv /\ CodeInv /\ BarInv)
<1>1. Init => ToolInv /\ CodeInv /\ BarInv
  BY ToolStarts, BarStarts DEF Init, ToolInit, CodeInv
<1>2. ToolInv /\ CodeInv /\ BarInv /\ [Next]_vars => (ToolInv /\ CodeInv /\ BarInv)'
  BY ToolStep, CodeStep, BarStep
<1> QED BY <1>1, <1>2, PTL DEF Spec

(* The bar of a node never goes back, for every template of the eighteen   *)
(* kinds of nodes, every list of darks and every way the lines of the      *)
(* programs fall: but for the 30 % of auto_bp_shift, and for the groups of *)
(* a calibration that has lost a frame.                                    *)
THEOREM BarAlwaysRises == Spec => BarNeverRewinds
<1> DEFINE Rises == inNode /\ inputs' # {} /\ Head(plan) # "auto_bp_shift" /\
                    (Head(plan) = "calibrate" => lost' = 0) => bar' >= bar
<1>1. ToolInv /\ CodeInv /\ BarInv /\ [Next]_vars => [Rises]_vars
  <2> SUFFICES ASSUME ToolInv, CodeInv, BarInv, Next, inNode, inputs' # {},
                      Head(plan) # "auto_bp_shift", Head(plan) = "calibrate" => lost' = 0
               PROVE  bar' >= bar
    OBVIOUS
  <2>1. ~(\E r \in Requests : Submit(r)) /\ ~NodeStarts /\ ~NodeCommits
    BY DEF Submit, NodeStarts, between, NodeCommits, inNode
  <2>2. Steady
    <3>1. CASE Output
      <4>1. PICK gone \in SUBSET calls[1].frames : lost' = lost + Cardinality(gone)
        BY <3>1 DEF Output
      <4>2. 1 \in DOMAIN calls
        <5>1. PICK X : calls \in Seq(X)
          BY DEF BarInv, CallsTyped
        <5>2. calls # <<>>
          BY <3>1 DEF Output, ToolInv, inNode
        <5> QED BY <5>1, <5>2
      <4>3. gone \in SUBSET AllFrames
        BY <4>2 DEF BarInv, CallsTyped
      <4>4. Cardinality(gone) \in Nat
        BY <4>3, AllFramesAreFinite, FS_Subset, FS_CardinalityType
      <4> QED BY <4>1, <4>4 DEF Steady, BarInv
    <3>2. CASE ~Output
      <4>1. UNCHANGED lost
        BY <2>1, <3>2 DEF Next, Stopped, Reports, NoBinary, ProgramBegins, ProgramRuns, NoOutput,
           ProgramFailed, WorksInPython, PassesThrough, Cancel, nodeVars
      <4> QED BY <4>1 DEF Steady
    <3> QED BY <3>1, <3>2
  <2>3. CASE UNCHANGED bar
    BY <2>2, <2>3 DEF BarInv, BarHolds
  <2>4. CASE Reports \/ ProgramBegins \/ ProgramRuns
    BY <2>2, <2>4, BarKeptByReports, BarKeptByBegin, BarKeptByProgram
  <2>5. CASE Stopped \/ NoBinary \/ NoOutput \/ Output \/ ProgramFailed
             \/ WorksInPython \/ PassesThrough \/ Cancel
    <3>1. UNCHANGED bar
      BY <2>5 DEF Stopped, NoBinary, NoOutput, Output, ProgramFailed, WorksInPython,
         PassesThrough, Cancel, toolVars
    <3> QED BY <2>3, <3>1
  <2> QED BY <2>1, <2>4, <2>5 DEF Next
<1> QED BY <1>1, BarInvariant, PTL DEF Spec, BarNeverRewinds
=============================================================================
