---------------------------- MODULE Ingest_proofs ----------------------------
(***************************************************************************)
(* Theorems about Ingest, for any number of frames and every value of the  *)
(* bounds.  The scan is proved to leave the catalog complete, and the      *)
(* clustering, a recursion over the clusters in the order of time, to keep *)
(* sessions apart and to keep their ids while the catalog grows.           *)
(***************************************************************************)
EXTENDS Ingest, FiniteFacts

LEMMA FramesAreFinite ==
  ASSUME NEW S \in SUBSET Frames
  PROVE  IsFiniteSet(S) /\ Cardinality(S) \in Nat /\ S \subseteq Nat
<1>1. IsFiniteSet(Frames)
  BY FramesAssumption, 1 \in Int, FS_Interval DEF Frames
<1>2. IsFiniteSet(S)
  BY <1>1, FS_Subset
<1>3. Cardinality(S) \in Nat
  BY <1>2, FS_CardinalityType
<1>4. S \subseteq Nat
  BY FramesAssumption DEF Frames
<1> QED BY <1>2, <1>3, <1>4

-----------------------------------------------------------------------------
(* Clusters: the runs of a set of frames cover it and lie apart.           *)

LEMMA RunsCover ==
  ASSUME NEW S \in SUBSET Frames, NEW x \in S
  PROVE  \E a \in Starts(S) : x \in Run(S, a)
<1> DEFINE B == {a \in S : a <= x /\ a .. x \subseteq S}
           m == Min(B)
<1>1. S \subseteq Nat /\ \A y \in S : y >= 1
  BY FramesAssumption DEF Frames
<1>2. x \in B /\ B \in SUBSET Nat
  <2>1. x .. x = {x}
    BY <1>1
  <2>2. x <= x
    BY <1>1
  <2>3. x \in B
    BY <2>1, <2>2
  <2> QED BY <1>1, <2>3
<1> HIDE DEF B
<1>3. m \in B /\ \A y \in B : m <= y
  BY <1>2, LeastExists
<1> HIDE DEF m
<1> USE DEF B
<1>4. m \in S /\ m <= x /\ m .. x \subseteq S /\ m \in Nat /\ m >= 1
  BY <1>1, <1>3
<1>5. m - 1 \notin S
  <2> SUFFICES ASSUME m - 1 \in S PROVE FALSE
    OBVIOUS
  <2>1. (m-1) .. x \subseteq S
    BY <1>1, <1>4
  <2>2. m - 1 \in B
    BY <1>1, <1>4, <2>1
  <2> QED BY <1>1, <1>3, <2>2, <1>4
<1>6. m \in Starts(S)
  BY <1>4, <1>5 DEF Starts
<1>7. x \in Run(S, m)
  BY <1>4 DEF Run
<1> QED BY <1>6, <1>7

LEMMA RunsApart ==
  ASSUME NEW S \in SUBSET Frames, NEW a \in Starts(S), NEW c \in Starts(S),
         Run(S, a) \cap Run(S, c) # {}
  PROVE  a = c
<1>1. S \subseteq Nat
  BY FramesAssumption DEF Frames
<1>2. ASSUME NEW d \in Starts(S), NEW e \in Starts(S), d < e,
             NEW b \in Run(S, d) \cap Run(S, e)
      PROVE  FALSE
  <2>1. d .. b \subseteq S /\ e <= b /\ d \in Nat /\ e \in Nat /\ b \in Nat
    BY <1>1 DEF Starts, Run
  <2>2. e - 1 \in d .. b
    BY <1>2, <2>1
  <2> QED BY <2>1, <2>2 DEF Starts
<1> QED BY <1>1, <1>2 DEF Starts

LEMMA RunIsInterval ==
  ASSUME NEW S \in SUBSET Frames, NEW a \in Starts(S)
  PROVE  /\ a \in Run(S, a) /\ Run(S, a) \subseteq S
         /\ \A x, y \in Run(S, a) : x .. y \subseteq Run(S, a)
<1>1. S \subseteq Nat /\ a \in S
  BY FramesAssumption DEF Frames, Starts
<1>2. ASSUME NEW x \in Run(S, a), NEW y \in Run(S, a), NEW z \in x .. y
      PROVE  z \in Run(S, a)
  <2>1. x \in Nat /\ y \in Nat /\ a <= x /\ a .. y \subseteq S /\ a \in Nat
    BY <1>1 DEF Run
  <2>2. z \in a .. y /\ a <= z /\ a .. z \subseteq a .. y
    BY <2>1
  <2> QED BY <2>1, <2>2 DEF Run
<1> QED BY <1>1, <1>2 DEF Run

-----------------------------------------------------------------------------
(* The ids of the clusters.  Earlier(id, S, a) are those handed out before *)
(* the cluster that starts with frame a, Choice the id it gets after them. *)

Earlier(id, S, a) == {id[b] : b \in {c \in Starts(S) : c < a}}
Choice(id, S, a) ==
  IF BestMatch(Run(S, a), Earlier(id, S, a)) # 0
  THEN BestMatch(Run(S, a), Earlier(id, S, a)) ELSE NextId(Earlier(id, S, a))

LEMMA IdOfChooses ==
  ASSUME NEW S
  PROVE  IdOf(S) = CHOOSE id : id = [a \in Starts(S) |-> Choice(id, S, a)]
BY DEF IdOf, Choice, Earlier

LEMMA ChoiceIsLocal ==
  ASSUME NEW S, NEW a, NEW f, NEW g, \A b \in Starts(S) : b < a => f[b] = g[b]
  PROVE  Earlier(f, S, a) = Earlier(g, S, a) /\ Choice(f, S, a) = Choice(g, S, a)
<1>1. Earlier(f, S, a) = Earlier(g, S, a)
  BY DEF Earlier
<1> QED BY <1>1 DEF Choice

LEMMA StartsAreFrames ==
  ASSUME NEW S \in SUBSET Frames
  PROVE  Starts(S) \subseteq S /\ Starts(S) \in SUBSET Nat
         /\ \A a \in Starts(S) : a < NumFrames + 1
<1>1. Starts(S) \subseteq S
  BY DEF Starts
<1>2. \A a \in S : a \in Nat /\ a < NumFrames + 1
  BY FramesAssumption DEF Frames
<1> QED BY <1>1, <1>2

(* The recursion of IdOf has a solution, so IdOf is one.                   *)
LEMMA IdOfRecurses ==
  ASSUME NEW S \in SUBSET Frames
  PROVE  IdOf(S) = [a \in Starts(S) |-> Choice(IdOf(S), S, a)]
<1> DEFINE Upto(n) == {a \in Starts(S) : a < n}
           Good(f, n) == f = [a \in Upto(n) |-> Choice(f, S, a)]
           Bad == {n \in Nat : ~ \E f : Good(f, n)}
           m == Min(Bad)
<1>1. Starts(S) \in SUBSET Nat
  BY StartsAreFrames
<1>2. ASSUME Bad # {} PROVE FALSE
  <2>1. m \in Bad /\ \A n \in Bad : m <= n
    <3>1. Bad \in SUBSET Nat
      OBVIOUS
    <3> HIDE DEF Bad
    <3> QED BY <1>2, <3>1, LeastExists
  <2>2. m \in Nat /\ ~ \E f : Good(f, m)
    BY <2>1, Zenon
  <2>3. \A n \in Nat : n < m => \E f : Good(f, n)
    <3> SUFFICES ASSUME NEW n \in Nat, n < m, ~ \E f : Good(f, n) PROVE FALSE
      OBVIOUS
    <3>1. n \in Bad
      BY Zenon
    <3> HIDE DEF Bad, Good
    <3> QED BY <2>1, <2>2, <3>1
  <2> HIDE DEF m, Bad
  <2>4. CASE m = 0
    <3> DEFINE e == [a \in {} |-> 0]
    <3>1. Upto(0) = {}
      BY <1>1
    <3>2. Good(e, 0)
      <4> HIDE DEF Upto
      <4> QED BY <3>1
    <3> HIDE DEF Good
    <3> QED BY <2>2, <2>4, <3>2
  <2>5. CASE m # 0
    <3>1. m - 1 \in Nat /\ m - 1 < m
      BY <2>2, <2>5
    <3>2. PICK f : Good(f, m - 1)
      <4> HIDE DEF Good
      <4> QED BY <2>3, <3>1
    <3> DEFINE g == [a \in Upto(m) |-> IF a = m - 1 THEN Choice(f, S, a) ELSE f[a]]
    <3>3. \A a \in Upto(m) : a = m - 1 \/ a \in Upto(m - 1)
      BY <1>1, <2>2
    <3>4. \A a \in Upto(m - 1) : f[a] = Choice(f, S, a)
      <4> HIDE DEF Upto
      <4> QED BY <3>2
    <3>5. \A a \in Upto(m - 1) : a \in Upto(m) /\ a # m - 1
      BY <1>1, <2>2
    <3>6. \A a \in Upto(m - 1) : g[a] = f[a]
      <4> HIDE DEF Upto
      <4> QED BY <3>5
    <3>7. ASSUME NEW a \in Upto(m) PROVE g[a] = Choice(g, S, a)
      <4>1. \A b \in Starts(S) : b < a => b \in Upto(m - 1)
        BY <1>1, <2>2
      <4> HIDE DEF g
      <4>2. \A b \in Starts(S) : b < a => g[b] = f[b]
        BY <3>6, <4>1, Zenon
      <4>3. Choice(g, S, a) = Choice(f, S, a)
        BY <4>2, ChoiceIsLocal
      <4>4. CASE a = m - 1
        BY <4>3, <4>4 DEF g
      <4>5. CASE a \in Upto(m - 1)
        BY <3>4, <3>6, <4>3, <4>5, Zenon
      <4> QED BY <3>3, <4>4, <4>5
    <3>8. Good(g, m)
      <4>1. g = [a \in Upto(m) |-> g[a]]
        OBVIOUS
      <4> HIDE DEF Upto, g
      <4> QED BY <3>7, <4>1
    <3> HIDE DEF Good, g
    <3> QED BY <2>2, <3>8
  <2> QED BY <2>4, <2>5
<1>3. NumFrames + 1 \in Nat
  BY FramesAssumption
<1>4. PICK f : Good(f, NumFrames + 1)
  BY <1>2, <1>3, Zenon
<1>5. Upto(NumFrames + 1) = Starts(S)
  BY StartsAreFrames
<1>6. f = [a \in Starts(S) |-> Choice(f, S, a)]
  <2> HIDE DEF Upto
  <2> QED BY <1>4, <1>5
<1> QED BY <1>6, IdOfChooses, Zenon

-----------------------------------------------------------------------------
(* What sessions are at any time, between scans and within: runs of frames *)
(* that have rows, each frame in one of them at most, under ids that are   *)
(* positive (0 is no match).                                               *)

Session == [frames : SUBSET Frames, edited : BOOLEAN]

WellClustered(q, R) ==
  /\ IsFiniteSet(DOMAIN q) /\ DOMAIN q \subseteq Nat \ {0}
  /\ q \in [DOMAIN q -> Session]
  /\ \A i \in DOMAIN q :
       /\ q[i].frames \subseteq R /\ q[i].frames # {}
       /\ \A x, y \in q[i].frames : x .. y \subseteq q[i].frames
  /\ \A i, j \in DOMAIN q : i # j => q[i].frames \cap q[j].frames = {}

SessInv == rows \subseteq Frames /\ WellClustered(sess, rows)

LEMMA OverlapIsCount ==
  ASSUME NEW C \in SUBSET Frames, NEW i
  PROVE  Overlap(C, i) \in Nat /\ (Overlap(C, i) > 0 <=> C \cap sess[i].frames # {})
<1> DEFINE D == C \cap sess[i].frames
<1>1. IsFiniteSet(D) /\ Cardinality(D) \in Nat
  BY FramesAreFinite
<1>2. Cardinality(D) = 0 <=> D = {}
  BY <1>1, FS_EmptySet
<1>3. Overlap(C, i) = Cardinality(D)
  BY DEF Overlap
<1> HIDE DEF D
<1>4. Overlap(C, i) \in Nat /\ (Overlap(C, i) > 0 <=> D # {})
  BY <1>1, <1>2, <1>3
<1> QED BY <1>4 DEF D

(* A match is a session that overlaps, is free, and overlaps most.         *)
LEMMA BestMatchFits ==
  ASSUME SessInv, NEW C \in SUBSET Frames, NEW taken
  PROVE  LET free == {i \in DOMAIN sess \ taken : Overlap(C, i) > 0}
             m == BestMatch(C, taken)
         IN  /\ free = {} => m = 0
             /\ free # {} => m \in free /\ \A j \in free : Overlap(C, j) <= Overlap(C, m)
<1> DEFINE free == {i \in DOMAIN sess \ taken : Overlap(C, i) > 0}
           best == {i \in free : \A j \in free : Overlap(C, j) <= Overlap(C, i)}
           m == BestMatch(C, taken)
           R == {p \in free \X free : Overlap(C, p[2]) <= Overlap(C, p[1])}
<1>1. m = IF best = {} THEN 0 ELSE Min(best)
  BY DEF BestMatch
<1>2. IsFiniteSet(free) /\ free \in SUBSET Nat
  BY FS_Subset DEF SessInv, WellClustered
<1>3. \A i \in free : Overlap(C, i) \in Nat
  BY OverlapIsCount
<1>4. \A x, y \in free : <<x, y>> \in R <=> Overlap(C, y) <= Overlap(C, x)
  OBVIOUS
<1>5. best \subseteq free /\ \A i \in best : \A j \in free : Overlap(C, j) <= Overlap(C, i)
  OBVIOUS
<1>6. ASSUME free # {} PROVE best # {}
  <2> HIDE DEF free, R
  <2>1. /\ \A x, y \in free : <<x, y>> \in R \/ <<y, x>> \in R
        /\ \A x, y, z \in free : <<x, y>> \in R /\ <<y, z>> \in R => <<x, z>> \in R
    BY <1>3, <1>4
  <2>2. PICK x \in free : \A y \in free : <<x, y>> \in R
    BY <1>2, <1>6, <2>1, BestExists
  <2>3. x \in best
    BY <1>4, <2>2
  <2> QED BY <2>3
<1> HIDE DEF m, best, free
<1>7. CASE free = {}
  BY <1>1, <1>5, <1>7 DEF m, free
<1>8. CASE free # {}
  <2>1. best # {} /\ best \in SUBSET Nat
    BY <1>2, <1>5, <1>6, <1>8
  <2>2. Min(best) \in best
    BY <2>1, LeastExists
  <2>3. m = Min(best)
    BY <1>1, <2>1
  <2>4. m \in free /\ \A j \in free : Overlap(C, j) <= Overlap(C, m)
    BY <1>5, <2>2, <2>3
  <2> QED BY <1>8, <2>4 DEF m, free
<1> QED BY <1>7, <1>8

(* An id handed out anew names nothing yet.                                *)
LEMMA NextIdIsNew ==
  ASSUME SessInv, NEW taken \in SUBSET Nat, IsFiniteSet(taken)
  PROVE  NextId(taken) \in Nat \ {0} /\ NextId(taken) \notin taken \cup DOMAIN sess
<1> DEFINE U == {0} \cup DOMAIN sess \cup taken
<1>1. IsFiniteSet({0}) /\ IsFiniteSet(DOMAIN sess)
  BY FS_Singleton DEF SessInv, WellClustered
<1>2. IsFiniteSet({0} \cup DOMAIN sess)
  BY <1>1, FS_Union
<1>3. IsFiniteSet(U)
  BY <1>2, FS_Union
<1>4. U \in SUBSET Nat /\ U # {} /\ taken \cup DOMAIN sess \subseteq U
  BY DEF SessInv, WellClustered
<1>5. NextId(taken) = Max(U) + 1
  BY DEF NextId
<1> HIDE DEF U
<1>6. Max(U) \in U /\ \A y \in U : y <= Max(U)
  BY <1>3, <1>4, MaxExists
<1> DEFINE M == Max(U)
<1> HIDE DEF M
<1>7. M \in Nat /\ \A y \in U : y \in Nat /\ y # M + 1
  <2>1. M \in U /\ \A y \in U : y <= M
    BY <1>6 DEF M
  <2> QED BY <1>4, <2>1
<1>8. NextId(taken) = M + 1
  BY <1>5 DEF M
<1> QED BY <1>4, <1>7, <1>8

LEMMA EarlierIsFinite ==
  ASSUME NEW S \in SUBSET Frames, NEW a, NEW id
  PROVE  IsFiniteSet(Earlier(id, S, a))
<1> DEFINE B == {c \in Starts(S) : c < a}
           f == [b \in B |-> id[b]]
<1>1. B \in SUBSET Frames
  BY StartsAreFrames
<1>2. IsFiniteSet(B)
  BY <1>1, FramesAreFinite
<1>3. Earlier(id, S, a) = {id[b] : b \in B}
  BY DEF Earlier
<1> HIDE DEF B
<1> DEFINE T == {id[b] : b \in B}
<1>4. f \in Surjection(B, T)
  BY DEF Surjection
<1> HIDE DEF f, T
<1>5. IsFiniteSet(T)
  BY <1>2, <1>4, FS_Surjection
<1> QED BY <1>3, <1>5 DEF T

(* Clusters get positive ids, each one of its own.                         *)
LEMMA ChoiceIsFree ==
  ASSUME SessInv, NEW S \in SUBSET Frames, NEW a \in Starts(S), NEW id,
         Earlier(id, S, a) \subseteq Nat
  PROVE  /\ Choice(id, S, a) \in Nat \ {0}
         /\ Choice(id, S, a) \notin Earlier(id, S, a)
         /\ Choice(id, S, a) \in DOMAIN sess =>
              /\ Overlap(Run(S, a), Choice(id, S, a)) > 0
              /\ \A j \in DOMAIN sess \ Earlier(id, S, a) :
                   Overlap(Run(S, a), j) <= Overlap(Run(S, a), Choice(id, S, a))
         /\ Choice(id, S, a) \notin DOMAIN sess =>
              \A j \in DOMAIN sess \ Earlier(id, S, a) : ~ (Overlap(Run(S, a), j) > 0)
<1> DEFINE C == Run(S, a)
           E == Earlier(id, S, a)
           free == {i \in DOMAIN sess \ E : Overlap(C, i) > 0}
           m == BestMatch(C, E)
<1>1. C \in SUBSET Frames
  BY RunIsInterval
<1>2. IsFiniteSet(E) /\ E \in SUBSET Nat
  BY EarlierIsFinite
<1>3. Choice(id, S, a) = IF m # 0 THEN m ELSE NextId(E)
  BY DEF Choice
<1>4. DOMAIN sess \subseteq Nat \ {0}
  BY DEF SessInv, WellClustered
<1> HIDE DEF C, E
<1>5. /\ free = {} => m = 0
      /\ free # {} => m \in free /\ \A j \in free : Overlap(C, j) <= Overlap(C, m)
  BY <1>1, BestMatchFits, Zenon
<1> HIDE DEF m
<1>6. \A j \in DOMAIN sess \ E : Overlap(C, j) \in Nat
  BY <1>1, OverlapIsCount
<1>7. CASE free = {}
  <2>1. Choice(id, S, a) = NextId(E)
    BY <1>3, <1>5, <1>7
  <2>2. NextId(E) \in Nat \ {0} /\ NextId(E) \notin E \cup DOMAIN sess
    BY <1>2, NextIdIsNew
  <2>3. \A j \in DOMAIN sess \ E : ~ (Overlap(C, j) > 0)
    BY <1>7
  <2> QED BY <2>1, <2>2, <2>3 DEF C, E
<1>8. CASE free # {}
  <2>1. m \in DOMAIN sess /\ m \notin E /\ Overlap(C, m) > 0
        /\ \A j \in free : Overlap(C, j) <= Overlap(C, m)
    BY <1>5, <1>8
  <2>2. Choice(id, S, a) = m
    BY <1>3, <1>4, <2>1
  <2>3. \A j \in DOMAIN sess \ E : Overlap(C, j) <= Overlap(C, m)
    BY <1>6, <2>1
  <2> QED BY <1>4, <2>1, <2>2, <2>3 DEF C, E
<1> QED BY <1>7, <1>8

LEMMA IdsArePositive ==
  ASSUME SessInv, NEW S \in SUBSET Frames, NEW a \in Starts(S)
  PROVE  IdOf(S)[a] \in Nat \ {0} /\ Earlier(IdOf(S), S, a) \subseteq Nat
<1> DEFINE id == IdOf(S)
           Bad == {c \in Starts(S) : id[c] \notin Nat \ {0}}
           m == Min(Bad)
<1>1. Starts(S) \in SUBSET Nat
  BY StartsAreFrames
<1>2. \A c \in Starts(S) : id[c] = Choice(id, S, c)
  <2>1. id = [c \in Starts(S) |-> Choice(id, S, c)]
    BY IdOfRecurses
  <2> HIDE DEF id
  <2> QED BY <2>1
<1> HIDE DEF id
<1>3. ASSUME Bad # {} PROVE FALSE
  <2>1. Bad \in SUBSET Nat
    BY <1>1
  <2>2. m \in Bad /\ \A c \in Bad : m <= c
    <3> HIDE DEF Bad
    <3> QED BY <1>3, <2>1, LeastExists
  <2> HIDE DEF m
  <2>3. m \in Starts(S) /\ id[m] \notin Nat \ {0}
    BY <2>2
  <2>4. ASSUME NEW b \in Starts(S), b < m PROVE id[b] \in Nat
    <3>1. b \in Nat /\ m \in Nat /\ ~ (m <= b)
      BY <1>1, <2>3, <2>4
    <3>2. b \notin Bad
      BY <2>2, <3>1, Zenon
    <3> QED BY <3>2
  <2>5. Earlier(id, S, m) \subseteq Nat
    BY <2>4 DEF Earlier
  <2>6. Choice(id, S, m) \in Nat \ {0}
    BY <2>3, <2>5, ChoiceIsFree
  <2> QED BY <1>2, <2>3, <2>6
<1>4. \A c \in Starts(S) : id[c] \in Nat \ {0}
  BY <1>3
<1> QED BY <1>4 DEF Earlier, id

(* The cluster of a match overlaps it, and most of what is left; a cluster *)
(* that gets a new id overlaps nothing that is left.                       *)
LEMMA IdsFit ==
  ASSUME SessInv, NEW S \in SUBSET Frames, NEW a \in Starts(S)
  PROVE  LET id == IdOf(S) IN
         /\ \A b \in Starts(S) : a # b => id[a] # id[b]
         /\ id[a] \in DOMAIN sess =>
              /\ Overlap(Run(S, a), id[a]) > 0
              /\ \A j \in DOMAIN sess \ Earlier(id, S, a) :
                   Overlap(Run(S, a), j) <= Overlap(Run(S, a), id[a])
         /\ id[a] \notin DOMAIN sess =>
              \A j \in DOMAIN sess \ Earlier(id, S, a) : ~ (Overlap(Run(S, a), j) > 0)
<1> DEFINE id == IdOf(S)
<1>1. Starts(S) \in SUBSET Nat
  BY StartsAreFrames
<1>2. \A c \in Starts(S) : id[c] = Choice(id, S, c)
  <2>1. id = [c \in Starts(S) |-> Choice(id, S, c)]
    BY IdOfRecurses
  <2> HIDE DEF id
  <2> QED BY <2>1
<1>3. \A c \in Starts(S) : Earlier(id, S, c) \subseteq Nat
  BY IdsArePositive
<1> HIDE DEF id
<1>4. \A c \in Starts(S) : id[c] \notin Earlier(id, S, c)
  BY <1>2, <1>3, ChoiceIsFree
<1>5. ASSUME NEW b \in Starts(S), a # b PROVE id[a] # id[b]
  <2>1. CASE b < a
    <3>1. id[b] \in Earlier(id, S, a)
      BY <2>1 DEF Earlier
    <3> QED BY <1>4, <3>1
  <2>2. CASE a < b
    <3>1. id[a] \in Earlier(id, S, b)
      BY <2>2 DEF Earlier
    <3> QED BY <1>4, <3>1
  <2> QED BY <1>1, <1>5, <2>1, <2>2
<1>6. Choice(id, S, a) = id[a] /\ Earlier(id, S, a) \subseteq Nat
  BY <1>2, <1>3
<1>7. /\ id[a] \in DOMAIN sess =>
           /\ Overlap(Run(S, a), id[a]) > 0
           /\ \A j \in DOMAIN sess \ Earlier(id, S, a) :
                Overlap(Run(S, a), j) <= Overlap(Run(S, a), id[a])
      /\ id[a] \notin DOMAIN sess =>
           \A j \in DOMAIN sess \ Earlier(id, S, a) : ~ (Overlap(Run(S, a), j) > 0)
  BY <1>6, ChoiceIsFree
<1> QED BY <1>5, <1>7 DEF id

(* The new session of a cluster.                                           *)
LEMMA ClusteredIs ==
  ASSUME SessInv, NEW S \in SUBSET Frames
  PROVE  /\ DOMAIN Clustered(S) = {IdOf(S)[a] : a \in Starts(S)}
         /\ \A a \in Starts(S) :
              /\ Clustered(S)[IdOf(S)[a]] =
                   [frames |-> Run(S, a),
                    edited |-> IdOf(S)[a] \in DOMAIN sess /\ sess[IdOf(S)[a]].edited]
              /\ Clustered(S)[IdOf(S)[a]].frames = Run(S, a)
              /\ IdOf(S)[a] \in DOMAIN sess /\ sess[IdOf(S)[a]].edited
                   => Clustered(S)[IdOf(S)[a]].edited
<1> DEFINE id == IdOf(S)
           Ids == {id[a] : a \in Starts(S)}
           start == [i \in Ids |-> CHOOSE a \in Starts(S) : id[a] = i]
<1>1. \A a, b \in Starts(S) : id[a] = id[b] => a = b
  BY IdsFit
<1>2. Clustered(S) = [i \in DOMAIN start |->
                        [frames |-> Run(S, start[i]),
                         edited |-> i \in DOMAIN sess /\ sess[i].edited]]
  BY DEF Clustered
<1> HIDE DEF id
<1>3. DOMAIN start = Ids
  OBVIOUS
<1>4. ASSUME NEW a \in Starts(S) PROVE id[a] \in Ids /\ start[id[a]] = a
  <2>1. id[a] \in Ids
    OBVIOUS
  <2>2. start[id[a]] = CHOOSE b \in Starts(S) : id[b] = id[a]
    BY <2>1
  <2>3. (CHOOSE b \in Starts(S) : id[b] = id[a]) = a
    BY <1>1
  <2> QED BY <2>1, <2>2, <2>3
<1> HIDE DEF start, Ids
<1>5. \A i \in Ids : Clustered(S)[i] = [frames |-> Run(S, start[i]),
                         edited |-> i \in DOMAIN sess /\ sess[i].edited]
  BY <1>2, <1>3
<1>6. DOMAIN Clustered(S) = Ids
  BY <1>2, <1>3
<1>7. ASSUME NEW a \in Starts(S)
      PROVE  /\ Clustered(S)[id[a]].frames = Run(S, a)
             /\ id[a] \in DOMAIN sess /\ sess[id[a]].edited
                  => Clustered(S)[id[a]].edited
  <2> DEFINE e == id[a] \in DOMAIN sess /\ sess[id[a]].edited
  <2>1. Clustered(S)[id[a]] = [frames |-> Run(S, a), edited |-> e]
    BY <1>4, <1>5
  <2> HIDE DEF e
  <2>2. Clustered(S)[id[a]].frames = Run(S, a) /\ Clustered(S)[id[a]].edited = e
    BY <2>1
  <2>3. e => Clustered(S)[id[a]].edited
    BY <2>2, Zenon
  <2> QED BY <2>2, <2>3 DEF e
<1> QED BY <1>4, <1>5, <1>6, <1>7 DEF id, Ids

(* Clustering any set of frames gives well formed sessions that hold them  *)
(* all.                                                                    *)
LEMMA ClusteredIsGood ==
  ASSUME SessInv, NEW S \in SUBSET Frames
  PROVE  /\ WellClustered(Clustered(S), S)
         /\ UNION {Clustered(S)[i].frames : i \in DOMAIN Clustered(S)} = S
<1> DEFINE id == IdOf(S)
           q == Clustered(S)
<1>1. /\ DOMAIN q = {id[a] : a \in Starts(S)}
      /\ \A a \in Starts(S) :
           /\ q[id[a]] = [frames |-> Run(S, a),
                          edited |-> id[a] \in DOMAIN sess /\ sess[id[a]].edited]
           /\ q[id[a]].frames = Run(S, a)
  BY ClusteredIs
<1>2. \A a \in Starts(S) : id[a] \in Nat \ {0}
  BY IdsArePositive
<1>3. \A i \in DOMAIN sess : sess[i].edited \in BOOLEAN
  BY DEF SessInv, WellClustered, Session
<1>4. q = [i \in DOMAIN q |-> q[i]]
  BY DEF Clustered
<1>5. IsFiniteSet({id[a] : a \in Starts(S)})
  <2> DEFINE f == [a \in Starts(S) |-> id[a]]
             T == {id[a] : a \in Starts(S)}
  <2>1. Starts(S) \in SUBSET Frames
    BY StartsAreFrames
  <2>2. IsFiniteSet(Starts(S))
    BY <2>1, FramesAreFinite
  <2> HIDE DEF id
  <2>3. f \in Surjection(Starts(S), T)
    BY DEF Surjection
  <2> HIDE DEF f, T
  <2>4. IsFiniteSet(T)
    BY <2>2, <2>3, FS_Surjection
  <2> QED BY <2>4 DEF T
<1> HIDE DEF id, q
<1>6. ASSUME NEW i \in DOMAIN q
      PROVE  \E a \in Starts(S) : i = id[a] /\ q[i].frames = Run(S, a) /\ q[i] \in Session
  <2>1. PICK a \in Starts(S) : i = id[a]
    BY <1>1
  <2>2. q[i] = [frames |-> Run(S, a),
                edited |-> id[a] \in DOMAIN sess /\ sess[id[a]].edited]
    BY <1>1, <2>1
  <2>3. (id[a] \in DOMAIN sess /\ sess[id[a]].edited) \in BOOLEAN
    BY <1>3
  <2>4. Run(S, a) \in SUBSET Frames
    BY RunIsInterval
  <2>5. q[i] \in Session
    BY <2>2, <2>3, <2>4 DEF Session
  <2> QED BY <2>1, <2>2, <2>5
<1>7. q \in [DOMAIN q -> Session]
  BY <1>4, <1>6
<1>8. ASSUME NEW i \in DOMAIN q
      PROVE  /\ q[i].frames \subseteq S /\ q[i].frames # {}
             /\ \A x, y \in q[i].frames : x .. y \subseteq q[i].frames
  BY <1>6, RunIsInterval
<1>9. ASSUME NEW i \in DOMAIN q, NEW j \in DOMAIN q, i # j
      PROVE  q[i].frames \cap q[j].frames = {}
  <2>1. PICK a \in Starts(S) : i = id[a] /\ q[i].frames = Run(S, a)
    BY <1>6
  <2>2. PICK c \in Starts(S) : j = id[c] /\ q[j].frames = Run(S, c)
    BY <1>6
  <2> QED BY <1>9, <2>1, <2>2, RunsApart
<1>10. UNION {q[i].frames : i \in DOMAIN q} = S
  <2>1. ASSUME NEW x \in S PROVE \E i \in DOMAIN q : x \in q[i].frames
    <3>1. PICK a \in Starts(S) : x \in Run(S, a)
      BY RunsCover
    <3>2. id[a] \in DOMAIN q /\ q[id[a]].frames = Run(S, a)
      BY <1>1
    <3> QED BY <3>1, <3>2
  <2> QED BY <1>8, <2>1
<1> QED BY <1>1, <1>2, <1>5, <1>7, <1>8, <1>9, <1>10 DEF WellClustered, q

-----------------------------------------------------------------------------
(* While rows only come, a session is kept or merged into a larger one.    *)

(* A cluster takes all of a session it shares a frame with.                *)
LEMMA RunTakesIntervals ==
  ASSUME NEW S \in SUBSET Frames, NEW a \in Starts(S), NEW T \in SUBSET S,
         \A x, y \in T : x .. y \subseteq T, T \cap Run(S, a) # {}
  PROVE  T \subseteq Run(S, a)
<1>1. S \subseteq Nat /\ a \in Nat /\ a - 1 \notin S
  BY FramesAssumption DEF Frames, Starts
<1>2. PICK x \in T : x \in S /\ a <= x /\ a .. x \subseteq S
  BY DEF Run
<1>3. ASSUME NEW y \in T PROVE y \in Run(S, a)
  <2>1. x \in Nat /\ y \in Nat /\ y \in S
    BY <1>1
  <2>2. x .. y \subseteq S /\ y .. x \subseteq S
    OBVIOUS
  <2>3. a <= y
    <3> SUFFICES ASSUME y < a PROVE FALSE
      BY <1>1, <2>1
    <3>1. a - 1 \in y .. x
      BY <1>1, <1>2, <2>1
    <3> QED BY <1>1, <2>2, <3>1
  <2>4. \A z \in a .. y : z \in a .. x \/ z \in x .. y
    BY <1>1, <2>1
  <2>5. a .. y \subseteq S
    BY <1>2, <2>2, <2>4
  <2> QED BY <2>1, <2>3, <2>5 DEF Run
<1> QED BY <1>3

SessionsGrow(q) ==
  \A i \in DOMAIN sess :
    \/ /\ i \in DOMAIN q /\ sess[i].frames \subseteq q[i].frames
       /\ sess[i].edited => q[i].edited
    \/ \E j \in DOMAIN sess \ {i} :
         /\ j \in DOMAIN q /\ i \notin DOMAIN q
         /\ Cardinality(sess[j].frames) >= Cardinality(sess[i].frames)
         /\ sess[i].frames \union sess[j].frames \subseteq q[j].frames

LEMMA ClusteredGrows ==
  ASSUME SessInv, NEW S \in SUBSET Frames, rows \subseteq S
  PROVE  SessionsGrow(Clustered(S))
<1> DEFINE id == IdOf(S)
           q == Clustered(S)
<1>1. /\ DOMAIN q = {id[a] : a \in Starts(S)}
      /\ \A a \in Starts(S) :
           /\ q[id[a]].frames = Run(S, a)
           /\ id[a] \in DOMAIN sess /\ sess[id[a]].edited => q[id[a]].edited
  BY ClusteredIs
<1>2. \A a \in Starts(S) :
         /\ \A b \in Starts(S) : a # b => id[a] # id[b]
         /\ id[a] \in DOMAIN sess =>
              /\ Overlap(Run(S, a), id[a]) > 0
              /\ \A j \in DOMAIN sess \ Earlier(id, S, a) :
                   Overlap(Run(S, a), j) <= Overlap(Run(S, a), id[a])
         /\ id[a] \notin DOMAIN sess =>
              \A j \in DOMAIN sess \ Earlier(id, S, a) : ~ (Overlap(Run(S, a), j) > 0)
  BY IdsFit
<1> HIDE DEF id, q
<1>3. \A a \in Starts(S) : Run(S, a) \in SUBSET Frames
  BY RunIsInterval
<1>4. ASSUME NEW i \in DOMAIN sess, NEW a \in Starts(S), Overlap(Run(S, a), i) > 0
      PROVE  sess[i].frames \subseteq Run(S, a)
             /\ Overlap(Run(S, a), i) = Cardinality(sess[i].frames)
  <2>1. sess[i].frames \in SUBSET S
        /\ \A x, y \in sess[i].frames : x .. y \subseteq sess[i].frames
    BY DEF SessInv, WellClustered
  <2>2. sess[i].frames \cap Run(S, a) # {}
    BY <1>3, <1>4, OverlapIsCount
  <2>3. sess[i].frames \subseteq Run(S, a)
    BY <2>1, <2>2, RunTakesIntervals
  <2>4. Run(S, a) \cap sess[i].frames = sess[i].frames
    BY <2>3
  <2> QED BY <2>3, <2>4 DEF Overlap
<1> SUFFICES ASSUME NEW i \in DOMAIN sess
             PROVE  \/ /\ i \in DOMAIN q /\ sess[i].frames \subseteq q[i].frames
                       /\ sess[i].edited => q[i].edited
                    \/ \E j \in DOMAIN sess \ {i} :
                         /\ j \in DOMAIN q /\ i \notin DOMAIN q
                         /\ Cardinality(sess[j].frames) >= Cardinality(sess[i].frames)
                         /\ sess[i].frames \union sess[j].frames \subseteq q[j].frames
  BY DEF SessionsGrow, q
<1>5. PICK x : x \in sess[i].frames /\ x \in S
  BY DEF SessInv, WellClustered
<1>6. PICK a \in Starts(S) : x \in Run(S, a)
  BY <1>5, RunsCover
<1>7. Overlap(Run(S, a), i) > 0
  BY <1>3, <1>5, <1>6, OverlapIsCount
<1>8. ASSUME NEW b \in Starts(S), Overlap(Run(S, b), i) > 0 PROVE b = a
  <2>1. x \in Run(S, b)
    BY <1>4, <1>5, <1>8
  <2> QED BY <1>6, <2>1, RunsApart
<1>9. \A b \in Starts(S) : id[b] = i => b = a
  BY <1>2, <1>8
<1>10. i \notin Earlier(id, S, a)
  <2> SUFFICES ASSUME i \in Earlier(id, S, a) PROVE FALSE
    OBVIOUS
  <2>1. PICK b \in Starts(S) : b < a /\ i = id[b]
    BY DEF Earlier
  <2>2. b = a /\ b \in Nat
    BY <1>9, <2>1, StartsAreFrames
  <2> QED BY <2>1, <2>2
<1> DEFINE j == id[a]
<1>11. /\ j \in DOMAIN sess /\ Overlap(Run(S, a), j) > 0
       /\ Overlap(Run(S, a), i) <= Overlap(Run(S, a), j)
  BY <1>2, <1>7, <1>10
<1>12. j \in DOMAIN q /\ q[j].frames = Run(S, a) /\ (sess[j].edited => q[j].edited)
  BY <1>1, <1>11
<1>13. /\ sess[i].frames \subseteq Run(S, a) /\ sess[j].frames \subseteq Run(S, a)
       /\ Cardinality(sess[i].frames) <= Cardinality(sess[j].frames)
  BY <1>4, <1>7, <1>11
<1>14. CASE j = i
  BY <1>12, <1>13, <1>14
<1>15. CASE j # i
  <2>1. i \notin DOMAIN q
    BY <1>1, <1>9, <1>15
  <2>2. Cardinality(sess[i].frames) \in Nat /\ Cardinality(sess[j].frames) \in Nat
    <3>1. sess[i].frames \in SUBSET Frames /\ sess[j].frames \in SUBSET Frames
      BY <1>11 DEF SessInv, WellClustered
    <3> QED BY <3>1, FramesAreFinite
  <2>3. Cardinality(sess[j].frames) >= Cardinality(sess[i].frames)
    BY <1>13, <2>2
  <2> HIDE DEF j
  <2> QED BY <1>11, <1>12, <1>13, <1>15, <2>1, <2>3
<1> QED BY <1>14, <1>15

-----------------------------------------------------------------------------
(* The scan.  The strengthening: a file that stayed readable is still to   *)
(* be visited or has been seen, and what was seen has a row that the flush *)
(* will mark.                                                              *)

ScanInv ==
  /\ file \in [Frames -> {"gone", "same", "new", "unreadable"}]
  /\ running <=> pc # "none"
  /\ todo \subseteq Frames
  /\ steady \subseteq Frames /\ \A f \in steady : Readable(f)
  /\ pc \in {"walk", "recluster"} => steady \subseteq todo \cup skipped \cup bumped
  /\ skipped \cup bumped \subseteq rows
  /\ pc = "orphans" => steady \subseteq bumped /\ skipped = {}
  /\ pc = "finish" => steady \subseteq rows
                      /\ UNION {sess[i].frames : i \in DOMAIN sess} = rows

LEMMA CatalogStarts == Init => SessInv /\ ScanInv
<1> SUFFICES ASSUME Init PROVE SessInv /\ ScanInv
  OBVIOUS
<1>1. DOMAIN sess = {} /\ sess = [i \in {} |-> 0]
  BY DEF Init, CatalogInit
<1>2. sess \in [DOMAIN sess -> Session]
  BY <1>1
<1>3. IsFiniteSet(DOMAIN sess)
  BY <1>1, FS_EmptySet
<1>4. WellClustered(sess, rows)
  BY <1>1, <1>2, <1>3 DEF WellClustered
<1> QED BY <1>4 DEF Init, CatalogInit, SessInv, ScanInv

LEMMA CatalogStays ==
  ASSUME SessInv, ScanInv,
         UNCHANGED <<file, mounted, rows, sess, running, pc, todo, skipped, bumped, steady>>
  PROVE  SessInv' /\ ScanInv' /\ SessionsGrow(sess')
BY DEF SessInv, ScanInv, WellClustered, Readable, SessionsGrow

(* More rows do no harm to the sessions.                                   *)
LEMMA MoreRows ==
  ASSUME SessInv, rows \subseteq rows', rows' \subseteq Frames, UNCHANGED sess
  PROVE  SessInv' /\ SessionsGrow(sess')
BY DEF SessInv, WellClustered, SessionsGrow

LEMMA Reclustered ==
  ASSUME SessInv, rows' \subseteq Frames, ReCluster(rows')
  PROVE  /\ SessInv' /\ (rows \subseteq rows' => SessionsGrow(sess'))
         /\ UNION {sess'[i].frames : i \in DOMAIN sess'} = rows'
<1>1. rows' \in SUBSET Frames /\ sess' = Clustered(rows')
  BY DEF ReCluster
<1>2. WellClustered(sess', rows')
      /\ UNION {sess'[i].frames : i \in DOMAIN sess'} = rows'
  BY <1>1, ClusteredIsGood
<1>3. rows \subseteq rows' => SessionsGrow(sess')
  BY <1>1, ClusteredGrows
<1> QED BY <1>1, <1>2, <1>3 DEF SessInv, WellClustered

LEMMA VisitKeeps ==
  ASSUME SessInv, ScanInv, NEW f \in Frames, VisitFrame(f)
  PROVE  SessInv' /\ ScanInv' /\ SessionsGrow(sess')
<1>1. /\ pc = "walk" /\ f \in todo /\ todo' = todo \ {f} /\ sess' = sess
      /\ UNCHANGED <<mounted, running, steady>> /\ running
  BY DEF VisitFrame, ScanInv
<1>2. CASE /\ Readable(f) /\ Unchanged(f) /\ skipped' = skipped \cup {f}
           /\ UNCHANGED <<file, rows, bumped, pc>>
  <2>1. SessInv' /\ SessionsGrow(sess')
    BY <1>1, <1>2, MoreRows DEF SessInv
  <2>2. f \in rows
    BY <1>2 DEF Unchanged
  <2> QED BY <1>1, <1>2, <2>1, <2>2 DEF ScanInv, Readable
<1>3. CASE ~ Readable(f) /\ UNCHANGED <<file, rows, skipped, bumped, pc>>
  <2>1. SessInv' /\ SessionsGrow(sess')
    BY <1>1, <1>3, MoreRows DEF SessInv
  <2>2. f \notin steady
    BY <1>3 DEF ScanInv
  <2> QED BY <1>1, <1>3, <2>1, <2>2 DEF ScanInv, Readable
<1>4. CASE /\ Readable(f) /\ rows' = rows \cup {f} /\ bumped' = bumped \cup {f}
           /\ file' = [file EXCEPT ![f] = "same"]
           /\ pc' \in {"walk", "recluster"} /\ UNCHANGED skipped
  <2>1. SessInv' /\ SessionsGrow(sess')
    BY <1>1, <1>4, MoreRows DEF SessInv
  <2>2. \A g \in Frames : Readable(g) => Readable(g)'
    BY <1>1, <1>4 DEF ScanInv, Readable
  <2>3. file' \in [Frames -> {"gone", "same", "new", "unreadable"}]
    BY <1>4 DEF ScanInv
  <2>4. skipped' \cup bumped' \subseteq rows'
    BY <1>4 DEF ScanInv
  <2>5. steady' \subseteq todo' \cup skipped' \cup bumped'
    BY <1>1, <1>4 DEF ScanInv
  <2> QED BY <1>1, <1>4, <2>1, <2>2, <2>3, <2>4, <2>5 DEF ScanInv
<1> QED BY <1>1, <1>2, <1>3, <1>4 DEF VisitFrame

LEMMA ScanStepKeeps ==
  ASSUME SessInv, ScanInv, ScanStep
  PROVE  SessInv' /\ ScanInv' /\ (rows \subseteq rows' => SessionsGrow(sess'))
<1>1. CASE ClusterOnTheWay
  <2>1. ReCluster(rows') /\ UNCHANGED <<diskVars, rows, running, todo, skipped, bumped, steady>>
        /\ pc = "recluster" /\ pc' = "walk"
    BY <1>1 DEF ClusterOnTheWay
  <2>2. SessInv' /\ (rows \subseteq rows' => SessionsGrow(sess'))
    BY <2>1, Reclustered DEF SessInv
  <2> QED BY <2>1, <2>2 DEF ScanInv, Readable, diskVars
<1>2. CASE FlushSkipped
  <2>1. /\ pc = "walk" /\ todo = {} /\ bumped' = bumped \cup (skipped \cap rows)
        /\ skipped' = {} /\ pc' = "orphans"
        /\ UNCHANGED <<diskVars, rows, sess, running, todo, steady>>
    BY <1>2 DEF FlushSkipped
  <2>2. SessInv' /\ SessionsGrow(sess')
    BY <2>1, MoreRows DEF SessInv
  <2>3. steady \subseteq bumped'
    BY <2>1 DEF ScanInv
  <2> QED BY <2>1, <2>2, <2>3 DEF ScanInv, Readable, diskVars
<1>3. CASE RemoveOrphans
  <2>1. /\ pc = "orphans" /\ rows' = rows \cap bumped /\ ReCluster(rows')
        /\ bumped' = {} /\ pc' = "finish"
        /\ UNCHANGED <<diskVars, running, todo, skipped, steady>>
    BY <1>3 DEF RemoveOrphans
  <2>2. /\ SessInv' /\ (rows \subseteq rows' => SessionsGrow(sess'))
        /\ UNION {sess'[i].frames : i \in DOMAIN sess'} = rows'
    BY <2>1, Reclustered DEF SessInv
  <2>3. steady' \subseteq rows'
    BY <2>1 DEF ScanInv
  <2>4. skipped' = {}
    BY <2>1 DEF ScanInv
  <2> QED BY <2>1, <2>2, <2>3, <2>4 DEF ScanInv, Readable, diskVars
<1>4. CASE ScanFinishes
  <2>1. /\ running' = FALSE /\ pc' = "none" /\ todo' = {} /\ skipped' = {} /\ bumped' = {}
        /\ steady' = {} /\ UNCHANGED <<diskVars, rows, sess>>
    BY <1>4 DEF ScanFinishes, ScanOver
  <2>2. SessInv' /\ SessionsGrow(sess')
    BY <2>1, MoreRows DEF SessInv
  <2> QED BY <2>1, <2>2 DEF ScanInv, diskVars
<1> QED BY <1>1, <1>2, <1>3, <1>4, VisitKeeps DEF ScanStep

(* The scan begins, ends early, or the disk and the users change.          *)

LEMMA ScanEdgesKeep ==
  ASSUME SessInv, ScanInv, ScanStarts \/ ScanOver
  PROVE  SessInv' /\ ScanInv' /\ SessionsGrow(sess')
<1>1. UNCHANGED <<diskVars, rows, sess>>
  BY DEF ScanStarts, ScanOver
<1>2. SessInv' /\ SessionsGrow(sess')
  BY <1>1, MoreRows DEF SessInv
<1>3. CASE ScanStarts
  <2>1. /\ running' = TRUE /\ pc' = "walk" /\ todo' = Listed /\ skipped' = {}
        /\ bumped' = {} /\ steady' = {f \in Frames : Readable(f)}
    BY <1>3 DEF ScanStarts
  <2>2. Listed \subseteq Frames /\ \A f \in Frames : Readable(f) => f \in Listed
    BY DEF Listed, Readable
  <2>3. \A f \in Frames : Readable(f) <=> Readable(f)'
    BY <1>1 DEF diskVars, Readable
  <2> QED BY <1>1, <1>2, <2>1, <2>2, <2>3 DEF ScanInv, diskVars
<1>4. CASE ScanOver
  <2>1. /\ running' = FALSE /\ pc' = "none" /\ todo' = {} /\ skipped' = {}
        /\ bumped' = {} /\ steady' = {}
    BY <1>4 DEF ScanOver
  <2> QED BY <1>1, <1>2, <2>1 DEF ScanInv, diskVars
<1> QED BY <1>3, <1>4

LEMMA DiskKeeps ==
  ASSUME SessInv, ScanInv, UNCHANGED <<rows, sess, running, pc, todo, skipped, bumped>>,
         steady' \subseteq steady,
         file' \in [Frames -> {"gone", "same", "new", "unreadable"}],
         \A f \in steady' : Readable(f)'
  PROVE  SessInv' /\ ScanInv' /\ SessionsGrow(sess')
<1>1. SessInv' /\ SessionsGrow(sess')
  BY MoreRows DEF SessInv
<1>2. ScanInv'
  BY DEF ScanInv
<1> QED BY <1>1, <1>2

LEMMA ChangesKeep ==
  ASSUME SessInv, ScanInv, Changes
  PROVE  SessInv' /\ ScanInv' /\ SessionsGrow(sess')
<1>1. ASSUME NEW f \in Frames, SpoilFile(f)
      PROVE  SessInv' /\ ScanInv' /\ SessionsGrow(sess')
  <2>1. PICK t \in {"gone", "new", "unreadable"} :
           /\ file' = [file EXCEPT ![f] = t]
           /\ steady' = IF t = "new" THEN steady ELSE steady \ {f}
    BY <1>1 DEF SpoilFile
  <2>2. UNCHANGED <<mounted, rows, sess, running, pc, todo, skipped, bumped>>
    BY <1>1 DEF SpoilFile
  <2>3. \A g \in steady' : Readable(g)'
    BY <2>1, <2>2 DEF ScanInv, Readable
  <2>4. file' \in [Frames -> {"gone", "same", "new", "unreadable"}]
    BY <2>1 DEF ScanInv
  <2> QED BY <2>1, <2>2, <2>3, <2>4, DiskKeeps
<1>2. CASE Unmount
  BY <1>2, DiskKeeps DEF Unmount, ScanInv
<1>3. CASE Mount
  BY <1>3, DiskKeeps DEF Mount, scanVars, ScanInv, Readable
<1>4. ASSUME NEW i \in DOMAIN sess, EditSession(i)
      PROVE  SessInv' /\ ScanInv' /\ SessionsGrow(sess')
  <2>1. /\ sess' = [sess EXCEPT ![i].edited = TRUE]
        /\ UNCHANGED <<diskVars, rows, scanVars>>
    BY <1>4 DEF EditSession
  <2>2. sess \in [DOMAIN sess -> Session]
    BY DEF SessInv, WellClustered
  <2>3. /\ DOMAIN sess' = DOMAIN sess
        /\ \A j \in DOMAIN sess : /\ sess'[j].frames = sess[j].frames
                                  /\ sess'[j] \in Session
                                  /\ sess[j].edited => sess'[j].edited
    BY <2>1, <2>2 DEF Session
  <2>4. SessInv'
    <3>1. sess' \in [DOMAIN sess' -> Session]
      BY <2>1, <2>2, <2>3
    <3> QED BY <2>1, <2>3, <3>1 DEF SessInv, WellClustered
  <2>5. ScanInv'
    <3>1. UNION {sess'[j].frames : j \in DOMAIN sess'}
            = UNION {sess[j].frames : j \in DOMAIN sess}
      BY <2>3
    <3> QED BY <2>1, <3>1 DEF ScanInv, Readable, diskVars, scanVars
  <2>6. SessionsGrow(sess')
    BY <2>3 DEF SessionsGrow
  <2> QED BY <2>4, <2>5, <2>6
<1> QED BY <1>1, <1>2, <1>3, <1>4 DEF Changes

(* Every step of the catalog, the mirror and the auto stacker.             *)
LEMMA CatalogStep ==
  SessInv /\ ScanInv /\ [Next]_vars =>
     SessInv' /\ ScanInv' /\ (rows \subseteq rows' => SessionsGrow(sess'))
<1> SUFFICES ASSUME SessInv, ScanInv, [Next]_vars
             PROVE  SessInv' /\ ScanInv' /\ (rows \subseteq rows' => SessionsGrow(sess'))
  OBVIOUS
<1>1. CASE UNCHANGED <<diskVars, rows, sess, scanVars>>
  BY <1>1, CatalogStays DEF diskVars, scanVars
<1>2. CASE Scan \/ Changes
  BY <1>2, ScanStepKeeps, ScanEdgesKeep, ChangesKeep DEF Scan, ScanFails, TriggerScan
<1>3. ASSUME NEW f \in Frames, CopyFile(f)
      PROVE  SessInv' /\ ScanInv' /\ SessionsGrow(sess')
  <2>1. /\ mounted /\ file' = [file EXCEPT ![f] = "new"]
        /\ UNCHANGED <<mounted, rows, sess, scanVars>>
    BY <1>3 DEF CopyFile
  <2>2. \A g \in steady' : Readable(g)'
    BY <2>1 DEF ScanInv, Readable, scanVars
  <2>3. file' \in [Frames -> {"gone", "same", "new", "unreadable"}]
    BY <2>1 DEF ScanInv
  <2> QED BY <2>1, <2>2, <2>3, DiskKeeps DEF scanVars
<1>4. CASE ScanAfterCopy
  BY <1>4, ScanEdgesKeep DEF ScanAfterCopy
<1>5. CASE Restart
  BY <1>5, ScanEdgesKeep DEF Restart
<1>6. CASE \/ Capture \/ RoundStarts \/ FirstRoundTooLate \/ FirstRoundInTime
           \/ RoundFails \/ Touch \/ ScanSkipped \/ QuietPasses \/ AutoStacker
           \/ UNCHANGED vars
  BY <1>1, <1>6
     DEF Capture, RoundStarts, FirstRoundTooLate, FirstRoundInTime, RoundFails, Touch,
         ScanSkipped, QuietPasses, AutoStacker, StackFind, StackSubmit, StackFails,
         vars, catalogVars
<1> QED BY <1>2, <1>3, <1>4, <1>5, <1>6 DEF Next, Mirror

LEMMA CatalogInvariant == Spec => [](SessInv /\ ScanInv)
<1>1. SessInv /\ ScanInv /\ [Next]_vars => (SessInv /\ ScanInv)'
  BY CatalogStep
<1> QED BY <1>1, CatalogStarts, PTL DEF Spec

(* A scan that reaches its end leaves no readable file out and no frame in *)
(* two sessions, for any number of frames and any interference (scan,      *)
(* _flush_skipped, _remove_orphans, cluster_sessions).                     *)
THEOREM ScanAlwaysComplete == Spec => []ScanIsComplete
<1>1. SessInv /\ ScanInv => ScanIsComplete
  BY DEF SessInv, WellClustered, ScanInv, ScanIsComplete
<1> QED BY <1>1, CatalogInvariant, PTL

(* While rows only come, a session keeps its id, its frames and what the   *)
(* user edited, or is merged into one at least as large: for any number of *)
(* frames (cluster_sessions, _match_cluster_to_session).                   *)
THEOREM GrowthAlwaysKeepsSessions == Spec => GrowthKeepsSessions
<1>1. SessInv /\ ScanInv /\ [Next]_vars =>
         [rows \subseteq rows' =>
            \A i \in DOMAIN sess :
              \/ /\ i \in DOMAIN sess' /\ sess[i].frames \subseteq sess'[i].frames
                 /\ sess[i].edited => sess'[i].edited
              \/ \E j \in DOMAIN sess \ {i} :
                   /\ j \in DOMAIN sess' /\ i \notin DOMAIN sess'
                   /\ Cardinality(sess[j].frames) >= Cardinality(sess[i].frames)
                   /\ sess[i].frames \union sess[j].frames \subseteq sess'[j].frames]_vars
  BY CatalogStep DEF SessionsGrow
<1> QED BY <1>1, CatalogInvariant, PTL DEF Spec, GrowthKeepsSessions

=============================================================================
