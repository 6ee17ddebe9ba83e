----------------------------- MODULE DarkMatch -----------------------------
(***************************************************************************)
(* Which master dark serves which light: the match shown on a session's    *)
(* card and the match of a bundle's bins (server/catalog/matching.py), and *)
(* the choice the calibrate node makes for each frame it has been handed   *)
(* (nodes/basic/calibrate.py).                                             *)
(*                                                                         *)
(* Exposures and temperatures are whole seconds and degrees; None stands   *)
(* for NULL and for a missing card.  A light is known by the cards of its  *)
(* header, which its frame keeps through convert_lights: the scanner and   *)
(* the calibrate node do not read them by the same rules.  Instrument and  *)
(* binning, compared for equality only, are folded into bench.             *)
(***************************************************************************)
EXTENDS Integers, Sequences, FiniteSets, FiniteSetsExt

CONSTANTS
    Darks,      \* the dark masters, in the order of their ids
    NoDark      \* the key of frames no dark serves

None == -1000
NoCamera == "no camera"

DARK_TEMP_TOLERANCE_C == 5
DARK_STACK_BIN_C == 2

Ids == DOMAIN Darks

ASSUME DarksAssumption ==
  /\ IsFiniteSet(Ids) /\ Ids \subseteq Nat /\ NoDark \notin Ids
  /\ \A i \in Ids : Darks[i].temp \in Int /\ Darks[i].depth \in Int

OrZero(t) == IF t = None THEN 0 ELSE t        \* r["ccd_temp"] or 0
Distance(a, b) == IF a < b THEN b - a ELSE a - b

-----------------------------------------------------------------------------
(* What the scanner writes into a light's row, and what the node reads.    *)

Card(l, key) == IF key \in DOMAIN l.header THEN l.header[key] ELSE None
Or(a, b) == IF a \in {None, 0} THEN b ELSE a    \* Python's `or`: 0.0 is false

RowExp(l) == Or(Card(l, "EXPTIME"), Card(l, "EXPOSURE"))
RowTemp(l) == Or(Or(Card(l, "DET-TEMP"), Card(l, "CCD-TEMP")), Card(l, "SET-TEMP"))
Gain(l) == Card(l, "GAIN")                      \* both

HeaderExp(l) == Card(l, "EXPTIME")
HeaderTemp(l) ==
    LET present == {"DET-TEMP", "CCD-TEMP"} \intersect DOMAIN l.header
    IN  Card(l, IF "DET-TEMP" \in present THEN "DET-TEMP"
                ELSE IF present # {} THEN "CCD-TEMP" ELSE "CCDTEMP")

-----------------------------------------------------------------------------
\* The WHERE clause of both matchers, for a session or the rows of a bundle,
\* which share gain, bench and camera; a master with no exposure counts as 0 s.
Candidates(exp, s) ==
    {i \in Ids : /\ exp # None /\ OrZero(Darks[i].exp) = exp
                 /\ Darks[i].gain = s.gain /\ Darks[i].bench = s.bench
                 /\ Darks[i].camera = s.camera \/ NoCamera \in {Darks[i].camera, s.camera}}

-----------------------------------------------------------------------------
(* The first of the rows that are best by a criterion: Python's min, max. *)

Deepest(S) == Min({i \in S : \A j \in S : Darks[j].depth <= Darks[i].depth})

\* _score, for a temperature given as a sum over n frames: the bin of the
\* distance, and the deeper stack within a bin.
Away(i, sum, n) == Distance(OrZero(Darks[i].temp) * n, sum)
StepsAway(i, sum, n) == Away(i, sum, n) \div (DARK_STACK_BIN_C * n)

NotBehind(i, j, sum, n) ==
    \/ StepsAway(i, sum, n) < StepsAway(j, sum, n)
    \/ /\ StepsAway(i, sum, n) = StepsAway(j, sum, n)
       /\ Darks[i].depth >= Darks[j].depth

BestScore(S, sum, n) == Min({i \in S : \A j \in S : NotBehind(i, j, sum, n)})
InTolerance(S, sum, n) ==
    {i \in S : Away(i, sum, n) <= DARK_TEMP_TOLERANCE_C * n}

Nearest(S, t) ==
    Min({i \in S : \A j \in S : Away(i, t, 1) <= Away(j, t, 1)})

-----------------------------------------------------------------------------
(* _match_dark: the dark on the card of a session, from the average of the *)
(* temperatures its rows have.                                             *)

MatchDark(s) ==
    LET C == Candidates(s.exp, s)
        warm == {l \in s.lights : RowTemp(l) # None}
        sum == MapThenSumSet(RowTemp, warm)
        near == InTolerance(C, sum, Cardinality(warm))
    IN  IF C = {} THEN NoDark
        ELSE IF warm = {} THEN Deepest(C)
        ELSE IF near = {} THEN NoDark
        ELSE BestScore(near, sum, Cardinality(warm))

-----------------------------------------------------------------------------
(* match_bundle_darks: one choice for each bin of the bundle's rows. *)

\* int() truncates toward zero, so the bin around 0 is twice as wide.
Trunc(a, b) == IF a < 0 THEN -((-a) \div b) ELSE a \div b

BinTemp(t) ==
    IF t = None THEN None
    ELSE Trunc(t, DARK_STACK_BIN_C) * DARK_STACK_BIN_C + 1

Bin(l) == [exp |-> RowExp(l), temp |-> BinTemp(RowTemp(l))]

\* Frames without an exposure are skipped.
Bins(lights) == {Bin(l) : l \in {m \in lights : RowExp(m) # None}}

\* sorted(buckets.items()) compares None with a number, which raises.
Unsortable(lights) ==
    \E a, b \in Bins(lights) : a.exp = b.exp /\ a.temp = None /\ b.temp # None

BestDarkForBin(bin, s) ==
    LET C == Candidates(bin.exp, s)
        near == InTolerance(C, bin.temp, 1)
    IN  IF C = {} THEN NoDark
        ELSE IF bin.temp = None THEN Deepest(C)
        ELSE IF near # {} THEN BestScore(near, bin.temp, 1)
        ELSE Nearest(C, bin.temp)

\* sorted(): the i-th of the members of S has i - 1 others before it.
Ordered(S, before) ==
    [i \in 1 .. Cardinality(S) |->
       CHOOSE x \in S : Cardinality({y \in S : <<y, x>> \in before}) = i - 1]

BinsInOrder(lights) ==
    LET all == Bins(lights)
    IN  Ordered(all, {p \in all \X all :
                        \/ p[1].exp < p[2].exp
                        \/ p[1].exp = p[2].exp /\ p[1].temp < p[2].temp})

\* The job builder's unique_paths: what the sorted bins choose, each once.
BundleDarks(lights, s) ==
    LET bins == BinsInOrder(lights)
        chosen == [n \in DOMAIN bins |-> BestDarkForBin(bins[n], s)]
        firsts == {n \in DOMAIN bins :
                     /\ chosen[n] # NoDark
                     /\ \A m \in DOMAIN bins : chosen[m] = chosen[n] => n <= m}
        order == Ordered(firsts, {p \in firsts \X firsts : p[1] < p[2]})
    IN  [k \in DOMAIN order |-> chosen[order[k]]]

-----------------------------------------------------------------------------
(* _pick_dark: the dark of the pool for one light, by its own header.      *)

PickDark(l, pool) ==
    LET same == {k \in DOMAIN pool :
                    /\ None \notin {Darks[pool[k]].exp, HeaderExp(l)}
                    /\ Darks[pool[k]].exp = HeaderExp(l)
                    /\ \/ None \in {Darks[pool[k]].gain, Gain(l)}
                       \/ Darks[pool[k]].gain = Gain(l)}
        away(k) == IF Darks[pool[k]].temp = None THEN -None
                   ELSE Distance(Darks[pool[k]].temp, HeaderTemp(l))
        nearest == {k \in same : \A j \in same : away(k) <= away(j)}
    IN  IF same = {} THEN NoDark
        ELSE IF HeaderTemp(l) = None THEN pool[Min(same)]
        ELSE pool[Min(nearest)]
=============================================================================
