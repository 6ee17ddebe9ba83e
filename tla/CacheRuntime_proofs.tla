------------------------- MODULE CacheRuntime_proofs -------------------------
(* Theorems about CacheRuntime, for all jobs, hashes, requests, sweeping   *)
(* threads and bounds.                                                     *)
EXTENDS CacheRuntime, FiniteFacts

-----------------------------------------------------------------------------
(* TypeOK is not inductive by itself: the request of the job in work must  *)
(* be there, `excess` must stay a natural number when an entry goes, and   *)
(* the main thread must sweep nowhere but where it waits for its sweep.    *)

Working == job # None => status[job] # "absent"

Sweeping ==
  /\ sweep["main"].phase # "idle" => pc \in {"sweeping", "headroom"}
  /\ \A s \in Sweepers : sweep[s].phase = "evict" => sweep[s].excess > 0

IInv == TypeOK /\ Working /\ Sweeping

-----------------------------------------------------------------------------
LEMMA Initially == Init => IInv
<1> SUFFICES ASSUME Init PROVE IInv
  OBVIOUS
<1>1. NoEntry \in Entry
  BY DEF NoEntry, Entry
<1>2. EntriesOK
  BY <1>1 DEF Init, EntriesOK
<1>3. RowsOK
  BY DEF Init, RowsOK, Statuses
<1>4. RunOK
  BY DEF Init, RunOK, Places
<1>5. Idle \in Sweep /\ Idle.target = None /\ Idle.phase = "idle"
  BY DEF Idle, Sweep
<1>6. SweepsOK
  BY <1>5 DEF Init, SweepsOK
<1>7. BoundsOK
  BY DEF Init, BoundsOK
<1>8. Working /\ Sweeping
  BY <1>5 DEF Init, Working, Sweeping, Sweepers
<1> QED BY <1>2, <1>3, <1>4, <1>6, <1>7, <1>8 DEF IInv, TypeOK

(* The request of the job in work, and its nodes.                          *)
LEMMA JobInWork ==
  ASSUME IInv, job # None
  PROVE  /\ job \in Jobs /\ request[job] \in Requests
         /\ Steps \in Nat
         /\ \A i \in 1 .. Steps : request[job].nodes[i] \in Hashes
<1>1. job \in Jobs /\ request[job] \in Requests
  BY DEF IInv, TypeOK, RunOK, RowsOK, Working
<1>2. request[job].nodes \in Seq(Hashes)
  BY <1>1, CacheAssumption
<1> QED BY <1>1, <1>2 DEF Steps

LEMMA CommittedFinite ==
  ASSUME IInv
  PROVE  /\ Committed \subseteq Hashes /\ IsFiniteSet(Committed)
         /\ Cardinality(Committed) \in Nat
         /\ \A limit \in Nat : Excess(limit) \in Nat
<1>1. Committed \subseteq Hashes /\ IsFiniteSet(Committed)
  BY CacheAssumption, FS_Subset DEF Committed
<1>2. Cardinality(Committed) \in Nat
  BY <1>1, FS_CardinalityType
<1> QED BY <1>1, <1>2 DEF Excess

LEMMA SnapshotTyped ==
  ASSUME NEW candidates \in SUBSET Hashes, NEW excess \in Nat,
         NEW doomed \in Projects \cup {None}
  PROVE  /\ Snapshot(candidates, excess, doomed) \in Sweep
         /\ Snapshot(candidates, excess, doomed).phase = "scan"
         /\ Snapshot(candidates, excess, doomed).target = None
<1>1. Orphans \in SUBSET Hashes /\ Alive \in SUBSET Jobs
  BY DEF Orphans, Committed, Alive
<1> QED BY <1>1 DEF Snapshot, Idle, Sweep

LEMMA IdleTyped == Idle \in Sweep /\ Idle.phase = "idle" /\ Idle.target = None
BY DEF Idle, Sweep

-----------------------------------------------------------------------------
(* What sets up a sweep of a thread that is idle.                          *)
LEMMA SweepStarts ==
  ASSUME IInv, NEW s \in Sweepers, s # "main",
         NEW snapshot \in Sweep, snapshot.phase = "scan", snapshot.target = None,
         StartSweep(s, snapshot)
  PROVE  IInv'
<1>1. EntriesOK' /\ RowsOK' /\ RunOK' /\ Working'
  BY DEF IInv, TypeOK, EntriesOK, RowsOK, RunOK, Working, StartSweep, rowVars, runVars
<1>2. SweepsOK'
  BY DEF IInv, TypeOK, SweepsOK, StartSweep
<1>3. BoundsOK'
  BY DEF IInv, TypeOK, BoundsOK, StartSweep
<1>4. Sweeping'
  BY DEF IInv, TypeOK, SweepsOK, Sweeping, StartSweep, runVars, Sweepers
<1> QED BY <1>1, <1>2, <1>3, <1>4 DEF IInv, TypeOK

(* The requests of users.                                                  *)
LEMMA UserStep ==
  ASSUME IInv,
         \/ \E j \in Jobs, r \in Requests : Submit(j, r)
         \/ \E s \in Sweepers : \/ ApiCleanup(s) \/ MonitorSweep(s)
                               \/ \E p \in Projects, keepOutputs, delete \in BOOLEAN :
                                    ApiPurge(s, p, keepOutputs, delete)
  PROVE  IInv'
<1>1. ASSUME NEW j \in Jobs, NEW r \in Requests, Submit(j, r)
      PROVE  IInv'
  <2>1. EntriesOK' /\ RunOK' /\ SweepsOK' /\ BoundsOK' /\ Sweeping'
    BY <1>1 DEF IInv, TypeOK, EntriesOK, RunOK, SweepsOK, BoundsOK, Sweeping,
                Submit, runVars, boundVars
  <2>2. RowsOK'
    BY <1>1, NamesAssumption DEF IInv, TypeOK, RowsOK, Submit, Statuses
  <2>3. Working'
    BY <1>1 DEF IInv, TypeOK, RowsOK, RunOK, Working, Submit, runVars
  <2> QED BY <2>1, <2>2, <2>3 DEF IInv, TypeOK
<1>2. /\ Committed \subseteq Hashes /\ None \in Projects \cup {None}
      /\ \A budget \in Budgets : Excess(budget) \in Nat
  BY CommittedFinite, CacheAssumption
<1>3. ASSUME NEW s \in Sweepers, ApiCleanup(s) \/ MonitorSweep(s)
      PROVE  IInv'
  <2>1. PICK budget \in Budgets : StartSweep(s, Snapshot(Committed, Excess(budget), None))
    BY <1>3 DEF ApiCleanup, MonitorSweep
  <2>2. s # "main"
    BY <1>3, NamesAssumption DEF ApiCleanup, MonitorSweep
  <2> QED BY <1>2, <2>1, <2>2, SnapshotTyped, SweepStarts
<1>4. ASSUME NEW s \in Sweepers, NEW p \in Projects, NEW keepOutputs \in BOOLEAN,
             NEW delete \in BOOLEAN, ApiPurge(s, p, keepOutputs, delete)
      PROVE  IInv'
  <2> DEFINE owned == {h \in Committed : Owners(h) = {p}}
             candidates == IF keepOutputs THEN owned \ TerminalOutputs(p) ELSE owned
             doomed == IF delete THEN p ELSE None
  <2>1. s # "main" /\ StartSweep(s, Snapshot(candidates, Cardinality(candidates), doomed))
    BY <1>4, NamesAssumption DEF ApiPurge
  <2>2. candidates \in SUBSET Hashes /\ doomed \in Projects \cup {None}
    BY <1>2
  <2>3. Cardinality(candidates) \in Nat
    BY <2>2, CacheAssumption, FS_Subset, FS_CardinalityType
  <2> HIDE DEF candidates, doomed
  <2> QED BY <2>1, <2>2, <2>3, SnapshotTyped, SweepStarts
<1> QED BY <1>1, <1>3, <1>4

-----------------------------------------------------------------------------
(* What a removal does to the entry of its target.                         *)
LEMMA RemainsOf ==
  ASSUME NEW e \in Entry, NEW s, NEW left \in Remains(e, s)
  PROVE  /\ left \in Entry /\ left.marks \subseteq e.marks
         /\ left.done => /\ e.done /\ s \notin e.wipers
                         /\ left.dir = e.dir
                         /\ (left.files = "none" => e.files = "none")
<1>1. NoEntry \in Entry /\ NoEntry.marks = {} /\ ~NoEntry.done
  BY DEF NoEntry, Entry
<1>2. CASE left = NoEntry
  BY <1>1, <1>2
<1>3. CASE left # NoEntry
  <2> DEFINE D == IF s \in e.wipers THEN {FALSE} ELSE {FALSE, e.done}
             F == IF s \in e.wipers THEN {"none"}
                  ELSE {e.files, IF e.files = "none" THEN "none" ELSE "damaged"}
             M == SUBSET e.marks \ (IF s \in e.wipers THEN {{}} ELSE {})
  <2>1. PICK r \in [done : D, files : F, marks : M] :
          left = [e EXCEPT !.done = r.done, !.files = r.files, !.marks = r.marks,
                           !.wipers = @ \ {s}]
    BY <1>3 DEF Remains
  <2>2. r.marks \subseteq e.marks /\ r.done \in {FALSE, e.done}
    BY <2>1
  <2>3. r.files \in {"none", "damaged", e.files}
    BY <2>1
  <2>4. s \notin e.wipers => (r.files = "none" => e.files = "none")
    BY <2>1
  <2>5. r.done => s \notin e.wipers
    BY <2>1
  <2>6. /\ left.done = r.done /\ left.files = r.files /\ left.marks = r.marks
        /\ left.dir = e.dir /\ left.wipers = e.wipers \ {s}
    BY <2>1 DEF Entry
  <2>7. left \in Entry
    BY <2>1, <2>2, <2>3 DEF Entry
  <2> QED BY <2>2, <2>4, <2>5, <2>6, <2>7
<1> QED BY <1>2, <1>3

LEMMA RemovalOnEntries ==
  ASSUME IInv, NEW s \in Sweepers, EvictBegins(s) \/ EvictEnds(s)
  PROVE  /\ entry' \in [Hashes -> Entry] /\ sweep[s].target \in Hashes
         /\ \A h \in Hashes : h # sweep[s].target => entry'[h] = entry[h]
         /\ LET e == entry[sweep[s].target]
                new == entry'[sweep[s].target]
            IN /\ new.marks \subseteq e.marks
               /\ new.done => /\ e.done /\ new.dir = e.dir
                              /\ (new.files = "none" => e.files = "none")
               /\ EvictBegins(s) => /\ e.wipers \subseteq new.wipers
                                    /\ e.dir => s \in new.wipers
               /\ EvictEnds(s) /\ s \in e.wipers => ~new.done
<1> DEFINE h == sweep[s].target
<1>1. h \in Hashes /\ entry \in [Hashes -> Entry] /\ entry[h] \in Entry
  BY DEF IInv, TypeOK, EntriesOK, SweepsOK, Sweep, EvictBegins, EvictEnds
<1> HIDE DEF h
<1>2. ASSUME NEW new \in Entry, entry' = [entry EXCEPT ![h] = new],
             new.marks \subseteq entry[h].marks,
             new.done => /\ entry[h].done /\ new.dir = entry[h].dir
                         /\ (new.files = "none" => entry[h].files = "none"),
             EvictBegins(s) => /\ entry[h].wipers \subseteq new.wipers
                               /\ entry[h].dir => s \in new.wipers,
             EvictEnds(s) /\ s \in entry[h].wipers => ~new.done
      PROVE  /\ entry' \in [Hashes -> Entry]
             /\ \A k \in Hashes : k # h => entry'[k] = entry[k]
             /\ LET e == entry[h]
                    now == entry'[h]
                IN /\ now.marks \subseteq e.marks
                   /\ now.done => /\ e.done /\ now.dir = e.dir
                                  /\ (now.files = "none" => e.files = "none")
                   /\ EvictBegins(s) => /\ e.wipers \subseteq now.wipers
                                        /\ e.dir => s \in now.wipers
                   /\ EvictEnds(s) /\ s \in e.wipers => ~now.done
  <2>1. entry'[h] = new
    BY <1>1, <1>2
  <2> QED BY <1>1, <1>2, <2>1
<1>3. CASE EvictBegins(s)
  <2>1. ~EvictEnds(s)
    BY <1>3 DEF EvictBegins, EvictEnds
  <2>2. CASE UNCHANGED entry /\ ~entry[h].dir
    BY <1>1, <2>1, <2>2 DEF h
  <2>3. CASE entry' = [entry EXCEPT ![h].wipers = @ \cup {s}, ![h].done = FALSE]
    <3> DEFINE new == [entry[h] EXCEPT !.wipers = @ \cup {s}, !.done = FALSE]
    <3>1. entry' = [entry EXCEPT ![h] = new]
      BY <1>1, <2>3
    <3>2. /\ new \in Entry /\ new.marks = entry[h].marks /\ ~new.done
          /\ new.wipers = entry[h].wipers \cup {s}
      BY <1>1 DEF Entry
    <3> HIDE DEF new
    <3> QED BY <1>1, <1>2, <2>1, <3>1, <3>2 DEF h
  <2>4. CASE entry' = [entry EXCEPT ![h].wipers = @ \cup {s},
                         ![h].files = IF @ = "none" THEN @ ELSE "damaged"]
    <3> DEFINE new == [entry[h] EXCEPT !.wipers = @ \cup {s},
                         !.files = IF @ = "none" THEN @ ELSE "damaged"]
    <3>1. entry' = [entry EXCEPT ![h] = new]
      BY <1>1, <2>4
    <3>2. /\ new \in Entry /\ new.marks = entry[h].marks /\ new.done = entry[h].done
          /\ new.wipers = entry[h].wipers \cup {s} /\ new.dir = entry[h].dir
          /\ (new.files = "none" => entry[h].files = "none")
      BY <1>1 DEF Entry
    <3> HIDE DEF new
    <3> QED BY <1>1, <1>2, <2>1, <3>1, <3>2 DEF h
  <2> QED BY <1>3, <2>2, <2>3, <2>4 DEF EvictBegins, h
<1>4. CASE EvictEnds(s)
  <2>1. ~EvictBegins(s)
    BY <1>4 DEF EvictBegins, EvictEnds
  <2>2. PICK left \in Remains(entry[h], s) :
          entry' = [entry EXCEPT ![h] = IF entry[h].dir THEN left ELSE NoEntry]
    BY <1>4 DEF EvictEnds, h
  <2>3. NoEntry \in Entry /\ NoEntry.marks = {} /\ ~NoEntry.done
    BY DEF NoEntry, Entry
  <2> DEFINE new == IF entry[h].dir THEN left ELSE NoEntry
  <2>4. /\ new \in Entry /\ new.marks \subseteq entry[h].marks
        /\ new.done => /\ entry[h].done /\ s \notin entry[h].wipers
                       /\ new.dir = entry[h].dir
                       /\ (new.files = "none" => entry[h].files = "none")
    <3> DEFINE e == entry[h]
    <3>1. e \in Entry /\ left \in Remains(e, s)
      BY <1>1
    <3> HIDE DEF e
    <3>2. /\ left \in Entry /\ left.marks \subseteq e.marks
          /\ left.done => /\ e.done /\ s \notin e.wipers
                          /\ left.dir = e.dir
                          /\ (left.files = "none" => e.files = "none")
      BY <3>1, RemainsOf
    <3>3. CASE e.dir
      BY <3>2, <3>3 DEF e
    <3>4. CASE ~e.dir
      BY <2>3, <3>4 DEF e
    <3> QED BY <3>3, <3>4
  <2>5. entry' = [entry EXCEPT ![h] = new]
    BY <2>2
  <2> HIDE DEF new
  <2> QED BY <1>1, <1>2, <2>1, <2>4, <2>5 DEF h
<1> QED BY <1>3, <1>4 DEF h

-----------------------------------------------------------------------------
(* A sweep goes on.                                                        *)
LEMMA SweepGoesOn ==
  ASSUME IInv, NEW s \in Sweepers, SweepStep(s)
  PROVE  IInv'
<1>1. RowsOK' /\ RunOK' /\ BoundsOK' /\ Working'
  BY DEF IInv, TypeOK, RowsOK, RunOK, BoundsOK, Working, SweepStep, SweepTest,
         EvictBegins, EvictEnds, SweepEnds, rowVars, runVars, boundVars, SweepsOK, Sweep
<1>2. ASSUME NEW h \in Hashes, SweepTest(s, h) PROVE EntriesOK' /\ SweepsOK' /\ Sweeping'
  <2>1. EntriesOK'
    BY <1>2 DEF IInv, TypeOK, EntriesOK, Entry, SweepTest
  <2>2. SweepsOK'
    <3>1. sweep[s] \in Sweep /\ sweep[s].phase = "scan" /\ sweep[s].target = None
      BY <1>2 DEF IInv, TypeOK, SweepsOK, SweepTest
    <3>2. h # None
      BY NamesAssumption
    <3>3. CASE sweep' = [sweep EXCEPT ![s].todo = @ \ {h}]
      BY <3>1, <3>3 DEF IInv, TypeOK, SweepsOK, Sweep
    <3>4. CASE sweep' = [sweep EXCEPT ![s].todo = @ \ {h}, ![s].phase = "evict",
                                      ![s].target = h]
      BY <3>1, <3>2, <3>4 DEF IInv, TypeOK, SweepsOK, Sweep
    <3> QED BY <1>2, <3>3, <3>4 DEF SweepTest
  <2>3. Sweeping'
    BY <1>2 DEF IInv, TypeOK, SweepsOK, Sweep, Sweeping, SweepTest, runVars, Sweepers
  <2> QED BY <2>1, <2>2, <2>3
<1>3. ASSUME EvictBegins(s) PROVE EntriesOK' /\ SweepsOK' /\ Sweeping'
  <2>1. EntriesOK'
    BY <1>3, RemovalOnEntries DEF EntriesOK
  <2> DEFINE left == IF entry[sweep[s].target].files = "none"
                     THEN sweep[s].excess ELSE sweep[s].excess - 1
  <2>2. sweep[s] \in Sweep /\ sweep[s].phase = "evict" /\ left \in Nat
    <3>1. sweep[s] \in Sweep /\ sweep[s].phase = "evict"
      BY <1>3 DEF IInv, TypeOK, SweepsOK, EvictBegins
    <3>2. sweep[s].excess \in Nat /\ sweep[s].excess > 0
      BY <3>1 DEF IInv, Sweeping, Sweep
    <3> QED BY <3>1, <3>2
  <2>3. \/ sweep' = [sweep EXCEPT ![s] = [@ EXCEPT !.phase = "torn", !.excess = left]]
        \/ sweep' = [sweep EXCEPT ![s] = [@ EXCEPT !.phase = "scan", !.target = None]]
    BY <1>3, <2>2 DEF EvictBegins, IInv, TypeOK, SweepsOK
  <2> HIDE DEF left
  <2>4. /\ sweep'[s] \in Sweep
        /\ \/ sweep'[s].phase = "torn" /\ sweep'[s].target = sweep[s].target
           \/ sweep'[s].phase = "scan" /\ sweep'[s].target = None
    <3>1. s \in DOMAIN sweep
      BY DEF IInv, TypeOK, SweepsOK
    <3>2. CASE sweep' = [sweep EXCEPT ![s] = [@ EXCEPT !.phase = "torn", !.excess = left]]
      <4>1. sweep'[s] = [sweep[s] EXCEPT !.phase = "torn", !.excess = left]
        BY <3>1, <3>2
      <4> QED BY <2>2, <4>1 DEF Sweep
    <3>3. CASE sweep' = [sweep EXCEPT ![s] = [@ EXCEPT !.phase = "scan", !.target = None]]
      <4>1. sweep'[s] = [sweep[s] EXCEPT !.phase = "scan", !.target = None]
        BY <3>1, <3>3
      <4> QED BY <2>2, <4>1 DEF Sweep
    <3> QED BY <2>3, <3>2, <3>3
  <2>5. \A u \in Sweepers : u # s => sweep'[u] = sweep[u]
    BY <2>3 DEF IInv, TypeOK, SweepsOK
  <2>6. SweepsOK'
    BY <2>2, <2>3, <2>4, <2>5 DEF IInv, TypeOK, SweepsOK
  <2>7. Sweeping'
    BY <1>3, <2>2, <2>4, <2>5 DEF IInv, Sweeping, EvictBegins, runVars, Sweepers
  <2> QED BY <2>1, <2>6, <2>7
<1>4. ASSUME EvictEnds(s) PROVE EntriesOK' /\ SweepsOK' /\ Sweeping'
  <2>1. EntriesOK'
    BY <1>4, RemovalOnEntries DEF EntriesOK
  <2>2. SweepsOK'
    BY <1>4, NamesAssumption DEF IInv, TypeOK, SweepsOK, Sweep, EvictEnds
  <2>3. Sweeping'
    BY <1>4 DEF IInv, TypeOK, SweepsOK, Sweep, Sweeping, EvictEnds, runVars, Sweepers
  <2> QED BY <2>1, <2>2, <2>3
<1>5. ASSUME SweepEnds(s) PROVE EntriesOK' /\ SweepsOK' /\ Sweeping'
  <2>1. EntriesOK'
    BY <1>5 DEF IInv, TypeOK, EntriesOK, SweepEnds
  <2>2. SweepsOK' /\ Sweeping'
    BY <1>5, IdleTyped DEF IInv, TypeOK, SweepsOK, Sweeping, SweepEnds, runVars, Sweepers
  <2> QED BY <2>1, <2>2
<1> QED BY <1>1, <1>2, <1>3, <1>4, <1>5 DEF SweepStep, IInv, TypeOK

(* It raises, or its process dies.                                         *)
LEMMA SweepStops ==
  ASSUME IInv, NEW s \in Sweepers, SweepFails(s) \/ ApiCrash(s)
  PROVE  IInv'
<1>1. EntriesOK' /\ RowsOK' /\ RunOK' /\ BoundsOK' /\ Working'
  BY DEF IInv, TypeOK, EntriesOK, RowsOK, RunOK, BoundsOK, Working, SweepFails, ApiCrash,
         rowVars, runVars, boundVars
<1>2. SweepsOK' /\ Sweeping'
  BY IdleTyped, NamesAssumption
  DEF IInv, TypeOK, SweepsOK, Sweeping, SweepFails, ApiCrash, runVars, Sweepers
<1> QED BY <1>1, <1>2 DEF IInv, TypeOK

-----------------------------------------------------------------------------
(* The main thread of the worker: what only moves it.                      *)
LEMMA ControlStep ==
  ASSUME IInv,
         SweepReturns \/ PlanNode \/ PlanMade \/ SkipNode \/ HeadroomFound \/ Join
  PROVE  IInv'
<1>1. EntriesOK' /\ RowsOK' /\ SweepsOK' /\ BoundsOK'
  BY DEF IInv, TypeOK, EntriesOK, RowsOK, SweepsOK, BoundsOK, SweepReturns, PlanNode,
         PlanMade, SkipNode, Advance, HeadroomFound, Join, rowVars, boundVars
<1>2. RunOK'
  <2>1. CASE PlanNode
    <3>1. job # None
      BY <2>1 DEF IInv, TypeOK, RunOK, PlanNode
    <3>2. Node \in Hashes
      BY <2>1, <3>1, JobInWork DEF PlanNode, Node, IInv, TypeOK, RunOK
    <3> QED BY <2>1, <3>2 DEF IInv, TypeOK, RunOK, PlanNode
  <2>2. CASE SkipNode
    BY <2>2 DEF IInv, TypeOK, RunOK, SkipNode, Advance, Places
  <2>3. CASE SweepReturns \/ PlanMade \/ HeadroomFound \/ Join
    BY <2>3 DEF IInv, TypeOK, RunOK, SweepReturns, PlanMade, HeadroomFound, Join, Places
  <2> QED BY <2>1, <2>2, <2>3
<1>3. Working'
  BY DEF IInv, Working, SweepReturns, PlanNode, PlanMade, SkipNode, Advance,
         HeadroomFound, Join, rowVars
<1>4. Sweeping'
  BY DEF IInv, TypeOK, SweepsOK, Sweeping, SweepReturns, PlanNode, PlanMade, SkipNode,
         Advance, HeadroomFound, Join
<1> QED BY <1>1, <1>2, <1>3, <1>4 DEF IInv, TypeOK

(* An outcome is written.                                                  *)
LEMMA TerminateTyped ==
  ASSUME IInv, job # None, sweep'["main"].phase = "idle",
         NEW last, NEW o \in Statuses \ {"absent"}, EndAfter(last, o),
         UNCHANGED sweep \/ sweep' = [sweep EXCEPT !["main"] = Idle]
  PROVE  RowsOK' /\ RunOK' /\ SweepsOK' /\ BoundsOK' /\ Working' /\ Sweeping'
<1>1. RowsOK'
  <2> DEFINE started == {request[job].nodes[i] : i \in {k \in 1 .. Steps : k <= last}}
  <2>1. started \in SUBSET Hashes
    BY JobInWork
  <2>2. recorded' = [recorded EXCEPT ![job] = started]
    BY DEF EndAfter
  <2> HIDE DEF started
  <2>3. status' = [status EXCEPT ![job] = o] /\ UNCHANGED <<request, deleted>>
    BY DEF EndAfter
  <2>4. job \in Jobs /\ request[job] # None
    BY JobInWork, NamesAssumption
  <2>5. RowsOK
    BY DEF IInv, TypeOK
  <2>6. status' \in [Jobs -> Statuses] /\ recorded' \in [Jobs -> SUBSET Hashes]
    BY <2>1, <2>2, <2>3, <2>4, <2>5 DEF RowsOK
  <2>7. \A j \in Jobs : status'[j] # "absent" => request'[j] # None
    BY <2>3, <2>4, <2>5 DEF RowsOK
  <2> QED BY <2>3, <2>5, <2>6, <2>7 DEF RowsOK
<1>2. RunOK' /\ SweepsOK' /\ BoundsOK'
  BY IdleTyped DEF IInv, TypeOK, RunOK, SweepsOK, BoundsOK, EndAfter, Places, boundVars
<1>3. Working'
  BY JobInWork DEF IInv, TypeOK, RowsOK, Working, EndAfter
<1>4. Sweeping'
  BY IdleTyped DEF IInv, TypeOK, SweepsOK, Sweeping, EndAfter, Sweepers
<1> QED BY <1>1, <1>2, <1>3, <1>4

(* Every step that writes one ends the run.                                *)
RunFails ==
  \/ CancelledBetweenNodes
  \/ LoadHit /\ Terminate("failed")
  \/ HeadroomLacking \/ HeadroomFails \/ ReserveFails \/ NodeRaises
  \/ Commit /\ Terminate("failed") /\ UNCHANGED entry
  \/ Complete

LEMMA OutcomeStep ==
  ASSUME IInv, RunFails
  PROVE  IInv'
<1>1. job # None /\ (HeadroomFails \/ sweep["main"].phase = "idle")
  BY DEF IInv, TypeOK, RunOK, Sweeping, RunFails, CancelledBetweenNodes, LoadHit,
         HeadroomLacking, HeadroomFails, ReserveFails, NodeRaises, Commit, Complete
<1>2. PICK last :
        \E o \in {"completed", "failed", "interrupted"} :
           /\ EndAfter(last, o)
           /\ UNCHANGED sweep \/ (HeadroomFails /\ sweep' = [sweep EXCEPT !["main"] = Idle])
  BY Zenon DEF RunFails, CancelledBetweenNodes, HeadroomLacking, HeadroomFails, ReserveFails,
         NodeRaises, Complete, Terminate, TerminateAfter
<1>3. RowsOK' /\ RunOK' /\ SweepsOK' /\ BoundsOK' /\ Working' /\ Sweeping'
  <2>1. sweep'["main"].phase = "idle"
    <3>1. CASE HeadroomFails
      BY <3>1, IdleTyped DEF HeadroomFails, IInv, TypeOK, SweepsOK, Sweepers
    <3> QED BY <1>1, <1>2, <3>1
  <2> QED BY <1>1, <1>2, <2>1, TerminateTyped DEF Statuses
<1>4. EntriesOK'
  <2>1. CASE NodeRaises
    BY <2>1 DEF IInv, TypeOK, EntriesOK, Entry, NoEntry, NodeRaises
  <2>2. CASE UNCHANGED entry
    BY <2>2 DEF IInv, TypeOK, EntriesOK
  <2> QED BY <2>1, <2>2 DEF RunFails, CancelledBetweenNodes, LoadHit, HeadroomLacking,
                            HeadroomFails, ReserveFails, Complete
<1> QED BY <1>3, <1>4 DEF IInv, TypeOK

(* A step that touches neither a row nor a sweep, and leaves the run where *)
(* it still has its job and no sweep of its own.                           *)
LEMMA RunGoesOn ==
  ASSUME IInv, job # None, EntriesOK', sweep["main"].phase = "idle",
         pc' \in Places \ {"down", "idle"}, at' \in Nat \ {0},
         UNCHANGED <<rowVars, job, hits, sweep, boundVars>>
  PROVE  IInv'
<1>1. RowsOK' /\ SweepsOK' /\ BoundsOK' /\ Working'
  BY DEF IInv, TypeOK, RowsOK, SweepsOK, BoundsOK, Working, rowVars, boundVars
<1>2. RunOK'
  BY DEF IInv, TypeOK, RunOK
<1>3. Sweeping'
  BY DEF IInv, Sweeping
<1> QED BY <1>1, <1>2, <1>3 DEF IInv, TypeOK

(* The steps that write into the entry of the node.                        *)
LEMMA NodeStep ==
  ASSUME IInv,
         \/ LoadHit /\ Advance
         \/ Reserve \/ NodeWrites \/ NodeReturns \/ Release
         \/ /\ Commit /\ Advance
            /\ entry' = [entry EXCEPT ![Node].done = TRUE, ![Node].wipers = {}]
  PROVE  IInv'
<1>1. /\ job # None /\ sweep["main"].phase = "idle"
      /\ pc \in Places \ {"down", "idle"} /\ at \in Nat \ {0}
  BY DEF IInv, TypeOK, RunOK, Sweeping, Places, LoadHit, Reserve, NodeWrites, NodeReturns,
         Release, Commit
<1>2. EntriesOK
  BY DEF IInv, TypeOK
<1>3. EntriesOK'
  <2>1. CASE LoadHit
    BY <1>2, <2>1 DEF LoadHit, EntriesOK
  <2>2. CASE Reserve
    <3> DEFINE reserved == [entry EXCEPT ![Node] = Reserved(@, request[job].force)]
    <3>1. reserved \in [Hashes -> Entry]
      BY <1>2 DEF EntriesOK, Reserved, EmptyEntry, NoEntry, Entry
    <3>2. entry' = [h \in Hashes |-> IF h \in MarksOf(Node) THEN Marked(reserved[h], job)
                                                           ELSE reserved[h]]
      BY <2>2 DEF Reserve
    <3> HIDE DEF reserved
    <3>3. \A h \in Hashes : Marked(reserved[h], job) \in Entry
      BY <1>1, <3>1, JobInWork DEF Marked, Entry
    <3> QED BY <3>1, <3>2, <3>3 DEF EntriesOK
  <2>3. CASE NodeWrites \/ NodeReturns
    BY <1>2, <2>3 DEF NodeWrites, NodeReturns, EntriesOK, Entry
  <2>4. CASE Release
    <3>1. entry' = [h \in Hashes |-> [entry[h] EXCEPT !.marks = @ \ {job}]]
      BY <2>4 DEF Release, Unmarked
    <3>2. ASSUME NEW h \in Hashes PROVE [entry[h] EXCEPT !.marks = @ \ {job}] \in Entry
      <4>1. entry[h] \in Entry
        BY <1>2 DEF EntriesOK
      <4>2. entry[h].marks \ {job} \in SUBSET Jobs
        BY <4>1 DEF Entry
      <4> QED BY <4>1, <4>2 DEF Entry
    <3> QED BY <3>1, <3>2 DEF EntriesOK
  <2>5. CASE entry' = [entry EXCEPT ![Node].done = TRUE, ![Node].wipers = {}]
    <3>1. ASSUME NEW e \in Entry PROVE [e EXCEPT !.done = TRUE, !.wipers = {}] \in Entry
      BY <3>1 DEF Entry
    <3>2. entry \in [Hashes -> Entry]
      BY <1>2 DEF EntriesOK
    <3>3. entry' \in [Hashes -> Entry]
      BY <2>5, <3>1, <3>2
    <3> QED BY <3>3 DEF EntriesOK
  <2> QED BY <2>1, <2>2, <2>3, <2>4, <2>5
<1>4. pc' \in Places \ {"down", "idle"} /\ at' \in Nat \ {0}
  BY <1>1 DEF Places, Advance, Reserve, NodeWrites, NodeReturns, Release, runVars
<1>5. UNCHANGED <<rowVars, job, hits, sweep, boundVars>>
  BY DEF Advance, Reserve, NodeWrites, NodeReturns, Release, runVars
<1> QED BY <1>1, <1>3, <1>4, <1>5, RunGoesOn

(* The main thread takes a job, and begins its sweeps.                     *)
LEMMA ClaimStep ==
  ASSUME IInv, NEW j \in Jobs, Claim(j)
  PROVE  IInv'
<1>1. EntriesOK' /\ SweepsOK' /\ BoundsOK'
  BY DEF IInv, TypeOK, EntriesOK, SweepsOK, BoundsOK, Claim, boundVars
<1>2. RowsOK'
  BY DEF IInv, TypeOK, RowsOK, Claim, Statuses
<1>3. RunOK'
  BY NamesAssumption DEF IInv, TypeOK, RunOK, Claim, Places
<1>4. Working'
  BY DEF IInv, TypeOK, RowsOK, Working, Claim
<1>5. Sweeping'
  BY DEF IInv, Sweeping, Claim
<1> QED BY <1>1, <1>2, <1>3, <1>4, <1>5 DEF IInv, TypeOK

LEMMA MainSweeps ==
  ASSUME IInv, NEW s \in Sweep, s.target = None, s.phase \in {"idle", "scan"},
         sweep' = [sweep EXCEPT !["main"] = s],
         pc' \in {"sweeping", "headroom"}, pc \notin {"idle", "down"},
         UNCHANGED <<entry, rowVars, job, at, hits, boundVars>>
  PROVE  IInv'
<1>1. EntriesOK' /\ RowsOK' /\ BoundsOK' /\ Working'
  BY DEF IInv, TypeOK, EntriesOK, RowsOK, BoundsOK, Working, rowVars, boundVars
<1>2. RunOK'
  BY DEF IInv, TypeOK, RunOK, Places
<1>3. SweepsOK'
  BY DEF IInv, TypeOK, SweepsOK
<1>4. Sweeping'
  BY DEF IInv, TypeOK, SweepsOK, Sweeping, Sweepers
<1> QED BY <1>1, <1>2, <1>3, <1>4 DEF IInv, TypeOK

LEMMA SweepBeforeWork ==
  ASSUME IInv, PreSweep \/ Headroom
  PROVE  IInv'
<1>1. /\ Committed \in SUBSET Hashes /\ None \in Projects \cup {None}
      /\ Cardinality(Committed) \in Nat
      /\ \A budget \in Budgets : budget \in Nat /\ Excess(budget) \in Nat
  BY CommittedFinite, CacheAssumption
<1>2. CASE PreSweep
  <2>0. PICK budget \in Budgets :
          sweep' = [sweep EXCEPT !["main"] =
                      IF Excess(budget) > 0
                      THEN Snapshot(Committed, Excess(budget), None) ELSE Idle]
    BY <1>2 DEF PreSweep
  <2> DEFINE s == IF Excess(budget) > 0
                  THEN Snapshot(Committed, Excess(budget), None) ELSE Idle
  <2>1. s \in Sweep /\ s.target = None /\ s.phase \in {"idle", "scan"}
    BY <1>1, SnapshotTyped, IdleTyped
  <2>2. sweep' = [sweep EXCEPT !["main"] = s]
    BY <2>0
  <2> HIDE DEF s
  <2> QED BY <1>2, <2>1, <2>2, MainSweeps DEF PreSweep
<1>3. CASE Headroom
  <2> DEFINE used  == Cardinality(Committed)
             budget == JobBudget[job]
             limit == (IF budget < used THEN budget ELSE used) - 1
             s == IF used = 0 THEN Idle ELSE Snapshot(Committed, used - limit, None)
  <2>1. CASE pc' = "headroom"
    <3>1. used - limit \in Nat
      <4>1. job \in Jobs
        BY <1>3, JobInWork DEF Headroom, IInv, TypeOK, RunOK
      <4>2. budget \in Nat
        BY <1>1, <4>1, CacheAssumption
      <4> HIDE DEF budget
      <4> QED BY <1>1, <4>2
    <3>2. s \in Sweep /\ s.target = None /\ s.phase \in {"idle", "scan"}
      <4> HIDE DEF limit, used
      <4> QED BY <1>1, <3>1, SnapshotTyped, IdleTyped
    <3>3. sweep' = [sweep EXCEPT !["main"] = s]
      BY <1>3, <2>1 DEF Headroom
    <3> HIDE DEF s
    <3> QED BY <1>3, <2>1, <3>2, <3>3, MainSweeps DEF Headroom
  <2>2. CASE pc' = "reserve"
    <3>1. job # None /\ sweep["main"].phase = "idle" /\ at \in Nat \ {0}
      BY <1>3 DEF Headroom, IInv, TypeOK, RunOK, Sweeping
    <3>2. UNCHANGED <<entry, rowVars, job, at, hits, sweep, boundVars>>
      BY <1>3, <2>2 DEF Headroom
    <3>3. EntriesOK' /\ pc' \in Places \ {"down", "idle"}
      BY <2>2, <3>2 DEF IInv, TypeOK, EntriesOK, Places
    <3> QED BY <3>1, <3>2, <3>3, RunGoesOn
  <2> QED BY <1>3, <2>1, <2>2 DEF Headroom
<1> QED BY <1>2, <1>3

-----------------------------------------------------------------------------
(* Deaths and the restart.                                                 *)
LEMMA CrashStep ==
  ASSUME IInv, Crash
  PROVE  IInv'
<1>1. RowsOK' /\ BoundsOK' /\ Working'
  BY DEF IInv, TypeOK, RowsOK, BoundsOK, Working, Crash, rowVars
<1>2. EntriesOK'
  BY DEF IInv, TypeOK, EntriesOK, Entry, Crash
<1>3. RunOK'
  BY DEF IInv, TypeOK, RunOK, Crash, Places
<1>4. \A s \in Sweepers : sweep'[s] = Idle \/ sweep'[s] = sweep[s]
  BY DEF Crash
<1>5. sweep' \in [Sweepers -> Sweep] /\ sweep'["main"] = Idle
  BY IdleTyped DEF IInv, TypeOK, SweepsOK, Crash, Sweepers
<1>6. SweepsOK' /\ Sweeping'
  BY <1>4, <1>5, IdleTyped DEF IInv, TypeOK, SweepsOK, Sweeping
<1> QED BY <1>1, <1>2, <1>3, <1>6 DEF IInv, TypeOK

LEMMA RestartStep ==
  ASSUME IInv, Restart
  PROVE  IInv'
<1>1. SweepsOK' /\ BoundsOK'
  BY DEF IInv, TypeOK, SweepsOK, BoundsOK, Restart, boundVars
<1>2. EntriesOK'
  <2>1. PICK reclaimed : entry' = Unmarked(entry, reclaimed)
    BY DEF Restart
  <2>2. \A h \in Hashes : [entry[h] EXCEPT !.marks = @ \ reclaimed] \in Entry
    BY DEF IInv, TypeOK, EntriesOK, Entry
  <2> QED BY <2>1, <2>2 DEF EntriesOK, Unmarked
<1>3. RowsOK'
  BY DEF IInv, TypeOK, RowsOK, Restart, Statuses
<1>4. RunOK' /\ Working'
  BY DEF IInv, TypeOK, RunOK, Working, Restart, Places
<1>5. Sweeping'
  BY DEF IInv, Sweeping, Restart
<1> QED BY <1>1, <1>2, <1>3, <1>4, <1>5 DEF IInv, TypeOK

-----------------------------------------------------------------------------
LEMMA Inductive == IInv /\ [Next]_vars => IInv'
<1> SUFFICES ASSUME IInv, [Next]_vars PROVE IInv'
  OBVIOUS
<1>1. CASE UNCHANGED vars
  BY <1>1 DEF vars, rowVars, runVars, boundVars, IInv, TypeOK, EntriesOK, RowsOK, RunOK,
              SweepsOK, BoundsOK, Working, Sweeping
<1>2. CASE WorkerStep
  <2>1. CASE LoadHit
    BY <2>1, NodeStep, OutcomeStep DEF LoadHit, RunFails
  <2>2. CASE Commit
    BY <2>2, NodeStep, OutcomeStep DEF Commit, RunFails
  <2>3. CASE SweepReturns \/ PlanNode \/ PlanMade \/ SkipNode \/ HeadroomFound \/ Join
    BY <2>3, ControlStep
  <2>4. CASE HeadroomLacking \/ ReserveFails \/ NodeRaises \/ Complete
    BY <2>4, OutcomeStep DEF RunFails
  <2>5. CASE Reserve \/ NodeReturns \/ Release
    BY <2>5, NodeStep
  <2>6. CASE PreSweep \/ Headroom \/ Restart
    BY <2>6, SweepBeforeWork, RestartStep
  <2> QED BY <1>2, <2>1, <2>2, <2>3, <2>4, <2>5, <2>6 DEF WorkerStep
<1>3. CASE NodeWrites \/ CancelledBetweenNodes \/ HeadroomFails \/ Crash
  BY <1>3, NodeStep, OutcomeStep, CrashStep DEF RunFails
<1>4. CASE \E j \in Jobs : Claim(j) \/ \E r \in Requests : Submit(j, r)
  BY <1>4, ClaimStep, UserStep
<1>5. CASE \E s \in Sweepers :
             \/ SweepStep(s) \/ SweepFails(s) \/ ApiCleanup(s) \/ MonitorSweep(s)
             \/ ApiCrash(s)
             \/ \E p \in Projects, keepOutputs, delete \in BOOLEAN :
                  ApiPurge(s, p, keepOutputs, delete)
  BY <1>5, SweepGoesOn, SweepStops, UserStep
<1> QED BY <1>1, <1>2, <1>3, <1>4, <1>5 DEF Next

(* In every behaviour the worker has a job exactly while it is busy, and a *)
(* sweep a target exactly while it removes one, however the sweeps of the  *)
(* three processes and the deaths of two of them fall.                     *)
THEOREM TypeCorrect == Spec => []TypeOK
<1>1. IInv => TypeOK
  BY DEF IInv
<1> QED BY Initially, Inductive, <1>1, PTL DEF Spec

-----------------------------------------------------------------------------
(* What the steps do.  First those that leave the sweeps alone.            *)
WorksQuietly ==
  \/ \E j \in Jobs : Claim(j) \/ \E r \in Requests : Submit(j, r)
  \/ LoadHit \/ Commit \/ Reserve \/ NodeWrites \/ NodeReturns \/ Release \/ Restart
  \/ CancelledBetweenNodes \/ HeadroomLacking \/ ReserveFails \/ NodeRaises \/ Complete
  \/ SweepReturns \/ PlanNode \/ PlanMade \/ SkipNode \/ HeadroomFound \/ Join

LEMMA QuietKeepsSweeps == WorksQuietly => UNCHANGED <<sweep, sweeps>>
BY DEF WorksQuietly, Claim, Submit, LoadHit, Advance, Terminate, TerminateAfter, EndAfter, Commit,
       Reserve, NodeWrites, NodeReturns, Release, Restart, CancelledBetweenNodes,
       HeadroomLacking, ReserveFails, NodeRaises, Complete, SweepReturns, PlanNode, PlanMade,
       SkipNode, HeadroomFound, Join, boundVars

(* Who begins a sweep beside the main thread, and on what.                 *)
Joins(s) ==
  /\ \/ s \in Api
     \/ /\ s \in Monitors
        /\ SlowPlan \/ pc # "planning"
        /\ pc \notin {"down", "idle", "presweep", "sweeping", "join"}
  /\ \E candidates \in SUBSET Committed, excess \in Nat, doomed \in Projects \cup {None} :
        StartSweep(s, Snapshot(candidates, excess, doomed))

(* The steps, by what they do to sweeps.                                   *)
LEMMA StepsBySweep ==
  ASSUME IInv, Next
  PROVE  \/ WorksQuietly \/ PreSweep \/ Headroom \/ HeadroomFails \/ Crash
         \/ \E s \in Sweepers : SweepStep(s) \/ SweepFails(s) \/ Joins(s) \/ ApiCrash(s)
<1>1. \A budget \in Budgets : Excess(budget) \in Nat
  BY CommittedFinite, CacheAssumption
<1>2. ASSUME NEW s \in Sweepers, ApiCleanup(s) \/ MonitorSweep(s) PROVE Joins(s)
  <2>1. PICK budget \in Budgets : StartSweep(s, Snapshot(Committed, Excess(budget), None))
    BY <1>2 DEF ApiCleanup, MonitorSweep
  <2> QED BY <1>1, <1>2, <2>1 DEF ApiCleanup, MonitorSweep, Joins
<1>3. ASSUME NEW s \in Sweepers, NEW p \in Projects, NEW keepOutputs \in BOOLEAN,
             NEW delete \in BOOLEAN, ApiPurge(s, p, keepOutputs, delete)
      PROVE  Joins(s)
  <2> DEFINE owned == {h \in Committed : Owners(h) = {p}}
             candidates == IF keepOutputs THEN owned \ TerminalOutputs(p) ELSE owned
             doomed == IF delete THEN p ELSE None
  <2>1. s \in Api /\ StartSweep(s, Snapshot(candidates, Cardinality(candidates), doomed))
    BY <1>3 DEF ApiPurge
  <2>2. candidates \in SUBSET Committed /\ doomed \in Projects \cup {None}
    OBVIOUS
  <2>3. Cardinality(candidates) \in Nat
    BY <2>2, CommittedFinite, FS_Subset, FS_CardinalityType
  <2> HIDE DEF candidates, doomed
  <2> QED BY <2>1, <2>2, <2>3 DEF Joins
<1> QED BY <1>2, <1>3 DEF Next, WorkerStep, WorksQuietly

(* What a step does to the entries.                                        *)
LEMMA SweepsOnEntries ==
  ASSUME IInv, NEW s \in Sweepers, SweepStep(s)
  PROVE  \A h \in Hashes :
           /\ entry'[h].marks \subseteq entry[h].marks
           /\ entry'[h].done => /\ entry[h].done /\ entry'[h].dir = entry[h].dir
                                /\ entry'[h].files = "none" => entry[h].files = "none"
           /\ h # sweep[s].target => /\ entry'[h].done = entry[h].done
                                     /\ entry'[h].files = entry[h].files
                                     /\ entry'[h].wipers = entry[h].wipers
                                     /\ entry[h].marks \cap sweep[s].alive \subseteq entry'[h].marks
<1>1. EntriesOK
  BY DEF IInv, TypeOK
<1>2. ASSUME NEW k \in Hashes, SweepTest(s, k), NEW h \in Hashes
      PROVE  /\ entry'[h].marks \subseteq entry[h].marks
             /\ entry'[h].done = entry[h].done /\ entry'[h].dir = entry[h].dir
             /\ entry'[h].files = entry[h].files /\ entry'[h].wipers = entry[h].wipers
             /\ entry[h].marks \cap sweep[s].alive \subseteq entry'[h].marks
  <2>1. entry' = [entry EXCEPT ![k].marks = entry[k].marks \cap sweep[s].alive]
    BY <1>2 DEF SweepTest
  <2>2. CASE h = k
    BY <1>1, <2>1, <2>2 DEF EntriesOK, Entry
  <2>3. CASE h # k
    BY <1>1, <2>1, <2>3 DEF EntriesOK, Entry
  <2> QED BY <2>2, <2>3
<1>3. ASSUME EvictBegins(s) \/ EvictEnds(s), NEW h \in Hashes
      PROVE  /\ entry'[h].marks \subseteq entry[h].marks
             /\ entry'[h].done => /\ entry[h].done /\ entry'[h].dir = entry[h].dir
                                  /\ entry'[h].files = "none" => entry[h].files = "none"
             /\ h # sweep[s].target => entry'[h] = entry[h]
  <2>1. CASE h = sweep[s].target
    BY <1>3, <2>1, RemovalOnEntries
  <2>2. CASE h # sweep[s].target
    BY <1>3, <2>2, RemovalOnEntries
  <2> QED BY <2>1, <2>2
<1>4. CASE SweepEnds(s)
  BY <1>4 DEF SweepEnds
<1>5. CASE \E k \in Hashes : SweepTest(s, k)
  BY <1>2, <1>5
<1>6. CASE EvictBegins(s) \/ EvictEnds(s)
  BY <1>3, <1>6
<1> QED BY <1>4, <1>5, <1>6 DEF SweepStep

LEMMA ReserveOnEntries ==
  ASSUME IInv, Reserve
  PROVE  /\ \A h \in Hashes :
              /\ entry'[h].marks \subseteq entry[h].marks \cup {job}
              /\ entry'[h].done => /\ entry[h].done
                                   /\ entry'[h].dir = entry[h].dir
                                   /\ entry'[h].files = entry[h].files
                                   /\ entry'[h].wipers = entry[h].wipers
              /\ h # Node => /\ entry[h].marks \subseteq entry'[h].marks
                             /\ entry'[h].done = entry[h].done
                             /\ entry'[h].files = entry[h].files
         /\ Node \in Hashes /\ (entry[Node].done => entry[Node].dir) => job \in entry'[Node].marks
         /\ ~request[job].force =>
              \A h \in Hashes : entry[h].done => /\ entry'[h].done
                                                 /\ entry'[h].files = entry[h].files
         /\ Node \in Hashes =>
              \/ entry'[Node].files = "none"
              \/ /\ entry[Node].done /\ ~request[job].force
                 /\ entry'[Node].files = entry[Node].files
<1> DEFINE reserved == [entry EXCEPT ![Node] = Reserved(@, request[job].force)]
<1>1. EntriesOK
  BY DEF IInv, TypeOK
<1>2. /\ EmptyEntry.dir /\ ~EmptyEntry.done /\ EmptyEntry.marks = {}
      /\ EmptyEntry \in Entry /\ EmptyEntry.files = "none"
  BY DEF EmptyEntry, NoEntry, Entry
<1>3. \A h \in Hashes :
        /\ reserved[h] \in Entry
        /\ reserved[h] = entry[h] \/ (h = Node /\ reserved[h] = EmptyEntry)
        /\ entry[h].done /\ ~request[job].force => reserved[h] = entry[h]
        /\ ~(entry[h].done /\ ~request[job].force) /\ h = Node => reserved[h] = EmptyEntry
  BY <1>1, <1>2 DEF EntriesOK, Reserved
<1>4. \A h \in Hashes : entry'[h] = IF h \in MarksOf(Node) THEN Marked(reserved[h], job)
                                                           ELSE reserved[h]
  BY DEF Reserve
<1> HIDE DEF reserved
<1>5. \A h \in Hashes :
        /\ Marked(reserved[h], job).done = reserved[h].done
        /\ Marked(reserved[h], job).dir = reserved[h].dir
        /\ Marked(reserved[h], job).files = reserved[h].files
        /\ Marked(reserved[h], job).wipers = reserved[h].wipers
        /\ reserved[h].marks \subseteq Marked(reserved[h], job).marks
        /\ Marked(reserved[h], job).marks \subseteq reserved[h].marks \cup {job}
        /\ reserved[h].dir => job \in Marked(reserved[h], job).marks
  BY <1>3 DEF Marked, Entry
<1>6. \A h \in Hashes :
        /\ entry'[h].done = reserved[h].done
        /\ entry'[h].dir = reserved[h].dir
        /\ entry'[h].files = reserved[h].files
        /\ entry'[h].wipers = reserved[h].wipers
        /\ reserved[h].marks \subseteq entry'[h].marks
        /\ entry'[h].marks \subseteq reserved[h].marks \cup {job}
  BY <1>4, <1>5
<1>7. ASSUME Node \in Hashes, entry[Node].done => entry[Node].dir
      PROVE  job \in entry'[Node].marks
  <2>1. reserved[Node].dir
    BY <1>2, <1>3, <1>7
  <2>2. Node \in MarksOf(Node)
    BY DEF MarksOf
  <2> QED BY <1>4, <1>5, <1>7, <2>1, <2>2
<1>8. ASSUME NEW h \in Hashes
      PROVE  /\ entry'[h].marks \subseteq entry[h].marks \cup {job}
             /\ entry'[h].done => /\ entry[h].done
                                  /\ entry'[h].dir = entry[h].dir
                                  /\ entry'[h].files = entry[h].files
                                  /\ entry'[h].wipers = entry[h].wipers
             /\ h # Node => /\ entry[h].marks \subseteq entry'[h].marks
                            /\ entry'[h].done = entry[h].done
                            /\ entry'[h].files = entry[h].files
             /\ ~request[job].force /\ entry[h].done => /\ entry'[h].done
                                                        /\ entry'[h].files = entry[h].files
  <2>1. CASE reserved[h] = entry[h]
    BY <1>6, <2>1
  <2>2. CASE h = Node /\ reserved[h] = EmptyEntry
    BY <1>2, <1>3, <1>6, <2>2
  <2> QED BY <1>3, <2>1, <2>2
<1>9. ASSUME Node \in Hashes
      PROVE  \/ entry'[Node].files = "none"
             \/ /\ entry[Node].done /\ ~request[job].force
                /\ entry'[Node].files = entry[Node].files
  BY <1>2, <1>3, <1>6, <1>9
<1> QED BY <1>7, <1>8, <1>9

LEMMA NodeOnEntries ==
  ASSUME IInv
  PROVE  /\ NodeWrites \/ NodeReturns =>
              /\ \A h \in Hashes :
                    /\ entry'[h].marks = entry[h].marks /\ entry'[h].done = entry[h].done
                    /\ entry'[h].dir = entry[h].dir
                    /\ entry'[h].files = "none" => entry[h].files = "none"
                    /\ entry[h].files = "whole" => entry'[h].files = "whole"
                    /\ h # Node => entry'[h] = entry[h]
              /\ Node \in Hashes => \/ entry'[Node].files = "whole"
                                    \/ entry[Node].files = "damaged"
                                    \/ NodeWrites /\ entry'[Node].files = "partial"
         /\ NodeRaises =>
              \A h \in Hashes : entry'[h] = IF h = Node THEN NoEntry ELSE entry[h]
         /\ Commit /\ Advance =>
              /\ entry[Node].dir /\ entry[Node].files # "none"
              /\ \A h \in Hashes : /\ entry'[h].marks = entry[h].marks
                                   /\ entry'[h].dir = entry[h].dir
                                   /\ entry'[h].files = entry[h].files
                                   /\ h # Node => entry'[h] = entry[h]
                                   /\ h = Node => entry'[h].done
         /\ Commit /\ ~Advance => UNCHANGED entry /\ Terminate("failed")
<1>1. EntriesOK
  BY DEF IInv, TypeOK
<1>2. ASSUME NodeWrites, NEW h \in Hashes
      PROVE  /\ entry'[h].marks = entry[h].marks /\ entry'[h].done = entry[h].done
             /\ entry'[h].dir = entry[h].dir
             /\ h = Node => entry'[h].files = "partial" /\ entry[h].files = "none"
             /\ h # Node => entry'[h] = entry[h]
  BY <1>1, <1>2 DEF EntriesOK, Entry, NodeWrites
<1>3. ASSUME NodeReturns, NEW h \in Hashes
      PROVE  /\ entry'[h].marks = entry[h].marks /\ entry'[h].done = entry[h].done
             /\ entry'[h].dir = entry[h].dir
             /\ h = Node => \/ entry'[h].files = "whole"
                            \/ entry'[h].files = "damaged" /\ entry[h].files = "damaged"
             /\ h # Node => entry'[h] = entry[h]
  <2>1. PICK files \in {"whole"} \cup ({entry[Node].files} \cap {"damaged"}) :
          entry' = [entry EXCEPT ![Node].files = files, ![Node].wipers = {}]
    BY <1>3 DEF NodeReturns
  <2>2. CASE h = Node
    BY <1>1, <2>1, <2>2 DEF EntriesOK, Entry
  <2>3. CASE h # Node
    BY <1>1, <2>1, <2>3 DEF EntriesOK
  <2> QED BY <2>2, <2>3
<1>4. ASSUME NodeRaises, NEW h \in Hashes
      PROVE  entry'[h] = IF h = Node THEN NoEntry ELSE entry[h]
  BY <1>1, <1>4 DEF EntriesOK, NodeRaises
<1>5. /\ Commit /\ Advance => /\ entry[Node].dir /\ entry[Node].files # "none"
                             /\ entry' = [entry EXCEPT ![Node].done = TRUE, ![Node].wipers = {}]
      /\ Commit /\ ~Advance => UNCHANGED entry /\ Terminate("failed")
  BY DEF Commit, Advance, Terminate, TerminateAfter, EndAfter
<1>6. ASSUME Commit, Advance, NEW h \in Hashes
      PROVE  /\ entry'[h].marks = entry[h].marks
             /\ entry'[h].dir = entry[h].dir
             /\ entry'[h].files = entry[h].files
             /\ h # Node => entry'[h] = entry[h]
             /\ h = Node => entry'[h].done
  <2>1. CASE h = Node
    BY <1>1, <1>5, <1>6, <2>1 DEF EntriesOK, Entry
  <2>2. CASE h # Node
    BY <1>1, <1>5, <1>6, <2>2 DEF EntriesOK, Entry
  <2> QED BY <2>1, <2>2
<1>7. ASSUME NodeWrites \/ NodeReturns, NEW h \in Hashes
      PROVE  /\ entry'[h].marks = entry[h].marks /\ entry'[h].done = entry[h].done
             /\ entry'[h].dir = entry[h].dir
             /\ entry'[h].files = "none" => entry[h].files = "none"
             /\ entry[h].files = "whole" => entry'[h].files = "whole"
             /\ h # Node => entry'[h] = entry[h]
  <2>1. CASE h = Node
    BY <1>2, <1>3, <1>7, <2>1
  <2>2. CASE h # Node
    BY <1>2, <1>3, <1>7, <2>2
  <2> QED BY <2>1, <2>2
<1>8. ASSUME NodeWrites \/ NodeReturns, Node \in Hashes
      PROVE  \/ entry'[Node].files = "whole"
             \/ entry[Node].files = "damaged"
             \/ NodeWrites /\ entry'[Node].files = "partial"
  BY <1>2, <1>3, <1>8
<1> QED BY <1>4, <1>5, <1>6, <1>7, <1>8

(* The other steps change no entry, or take marks away, but for a death in *)
(* the middle of reserve.                                                  *)
LEMMA OthersOnEntries ==
  ASSUME IInv, WorksQuietly,
         ~ ((Commit /\ Advance) \/ Reserve \/ NodeWrites \/ NodeReturns \/ NodeRaises)
  PROVE  \/ UNCHANGED entry
         \/ /\ Release \/ Restart
            /\ \A h \in Hashes : /\ entry'[h].marks \subseteq entry[h].marks
                                 /\ entry'[h].done = entry[h].done
                                 /\ entry'[h].dir = entry[h].dir
                                 /\ entry'[h].files = entry[h].files
                                 /\ entry'[h].wipers = entry[h].wipers
<1>1. EntriesOK
  BY DEF IInv, TypeOK
<1>2. ASSUME NEW js, entry' = Unmarked(entry, js)
      PROVE  \A h \in Hashes : /\ entry'[h].marks \subseteq entry[h].marks
                               /\ entry'[h].done = entry[h].done
                               /\ entry'[h].dir = entry[h].dir
                               /\ entry'[h].files = entry[h].files
                               /\ entry'[h].wipers = entry[h].wipers
  BY <1>1, <1>2 DEF EntriesOK, Entry, Unmarked
<1>3. CASE Release \/ Restart
  BY <1>2, <1>3 DEF Release, Restart
<1>4. CASE Commit
  BY <1>4, NodeOnEntries
<1>5. CASE ~ (Release \/ Restart \/ Commit)
  BY <1>5 DEF WorksQuietly, Claim, Submit, LoadHit, CancelledBetweenNodes, HeadroomLacking,
              ReserveFails, Complete, SweepReturns, PlanNode, PlanMade, SkipNode,
              HeadroomFound, Join
<1> QED BY <1>3, <1>4, <1>5

LEMMA CrashOnEntries ==
  ASSUME IInv, Crash
  PROVE  /\ \A h \in Hashes : /\ entry'[h].marks = entry[h].marks
                              /\ entry'[h].done = entry[h].done
                              /\ entry'[h].dir = entry[h].dir
                              /\ entry'[h].files # "none" \/ entry'[h].files = entry[h].files
         /\ ~CrashTears => UNCHANGED entry
<1>1. EntriesOK
  BY DEF IInv, TypeOK
<1> QED BY <1>1 DEF EntriesOK, Entry, Crash

(* The steps of sweeps other than SweepStep leave the entries alone.       *)
LEMMA BeginsOnEntries ==
  ASSUME IInv,
         \/ PreSweep \/ Headroom \/ HeadroomFails \/ UNCHANGED vars
         \/ \E s \in Sweepers : SweepFails(s) \/ Joins(s) \/ ApiCrash(s)
  PROVE  /\ UNCHANGED <<entry, request>>
         /\ ~HeadroomFails => UNCHANGED status
BY DEF PreSweep, Headroom, HeadroomFails, EndAfter, SweepFails, Joins, StartSweep, ApiCrash,
       rowVars, vars

-----------------------------------------------------------------------------
(* What is committed is complete and stays so, if no process dies inside   *)
(* rmtree and no sweep has chosen the entry of the node in work: a sweep   *)
(* that has listed an entry takes its marker, and none is put there beside *)
(* it.                                                                     *)

Torn(h) == \E s \in Sweepers : sweep[s].phase = "torn" /\ sweep[s].target = h

Whole ==
  /\ \A h \in Hashes : entry[h].done => entry[h].files = "whole" \/ Torn(h)
  /\ \A s \in Sweepers, h \in Hashes :
       sweep[s].phase = "torn" /\ sweep[s].target = h /\ entry[h].done
         => s \in entry[h].wipers

NodeOK ==
  /\ pc = "running" => entry[Node].files # "damaged"
  /\ pc = "commit" => entry[Node].files = "whole"

Apart ==
  pc \in {"reserve", "running", "commit"} =>
    Node \in Hashes /\ \A s \in Sweepers : sweep[s].target # Node

(* Nobody adds _done to an entry that is not whole, or to one that is      *)
(* being removed.                                                          *)
LEMMA WholeKept ==
  ASSUME Whole,
         \A h \in Hashes : entry'[h].done =>
           \/ entry'[h].files = "whole"
           \/ entry[h].done /\ entry[h].files # "whole",
         \A s \in Sweepers, h \in Hashes :
           sweep[s].phase = "torn" /\ sweep[s].target = h /\ entry'[h].done
             => entry[h].done /\ entry[h].wipers \subseteq entry'[h].wipers,
         \A s \in Sweepers :
           sweep[s].phase = "torn" \/ sweep'[s].phase = "torn" => sweep'[s] = sweep[s]
  PROVE  Whole'
<1>1. \A h \in Hashes : Torn(h) => Torn(h)'
  BY DEF Torn
<1>2. \A h \in Hashes : entry'[h].done => entry'[h].files = "whole" \/ Torn(h)'
  BY <1>1 DEF Whole
<1>3. ASSUME NEW s \in Sweepers, NEW h \in Hashes,
             sweep'[s].phase = "torn", sweep'[s].target = h, entry'[h].done
      PROVE  s \in entry'[h].wipers
  <2>1. sweep'[s] = sweep[s]
    BY <1>3
  <2>2. entry[h].done /\ entry[h].wipers \subseteq entry'[h].wipers
    BY <1>3, <2>1
  <2> QED BY <1>3, <2>1, <2>2 DEF Whole
<1> QED BY <1>2, <1>3 DEF Whole

LEMMA WholeAmongSweeps ==
  ASSUME IInv, Whole, NEW s \in Sweepers, SweepStep(s)
  PROVE  Whole'
<1>1. /\ EntriesOK /\ sweep \in [Sweepers -> Sweep] /\ None \notin Hashes
      /\ sweep[s].target # None <=> sweep[s].phase \in {"evict", "torn"}
  BY NamesAssumption DEF IInv, TypeOK, SweepsOK
<1> DEFINE t == sweep[s].target
<1>2. CASE (\E h \in Hashes : SweepTest(s, h)) \/ SweepEnds(s)
  <2>1. sweep[s].phase = "scan" /\ \A h \in Hashes : h # t
    BY <1>1, <1>2 DEF SweepTest, SweepEnds
  <2>2. /\ sweep'[s].phase # "torn"
        /\ \A u \in Sweepers : u # s => sweep'[u] = sweep[u]
    <3>1. CASE SweepEnds(s)
      BY <1>1, <3>1, IdleTyped DEF SweepEnds
    <3>2. ASSUME NEW h \in Hashes, SweepTest(s, h)
          PROVE  /\ sweep'[s].phase # "torn"
                 /\ \A u \in Sweepers : u # s => sweep'[u] = sweep[u]
      BY <1>1, <2>1, <3>2 DEF SweepTest, Sweep
    <3> QED BY <1>2, <3>1, <3>2
  <2>3. \A h \in Hashes : /\ entry'[h].done = entry[h].done
                          /\ entry'[h].files = entry[h].files
                          /\ entry'[h].wipers = entry[h].wipers
    BY <1>1, <2>1, SweepsOnEntries
  <2> QED BY <2>1, <2>2, <2>3, WholeKept
<1>3. CASE EvictBegins(s)
  <2>1. /\ t \in Hashes /\ sweep[s].phase = "evict"
        /\ \A h \in Hashes : h # t => entry'[h] = entry[h]
        /\ entry[t].wipers \subseteq entry'[t].wipers
        /\ entry[t].dir => s \in entry'[t].wipers
        /\ entry'[t].done => entry[t].done
    BY <1>3, RemovalOnEntries DEF EvictBegins
  <2>2. \A u \in Sweepers : u # s => sweep'[u] = sweep[u]
    BY <1>1, <1>3 DEF EvictBegins
  <2>3. CASE ~entry[t].dir
    <3>1. UNCHANGED entry /\ sweep'[s].phase # "torn"
      BY <1>1, <1>3, <2>3 DEF EvictBegins, Sweep
    <3> QED BY <2>1, <2>2, <3>1, WholeKept
  <2>4. CASE entry[t].dir
    <3>1. sweep'[s].phase = "torn" /\ sweep'[s].target = t
      BY <1>1, <1>3, <2>4 DEF EvictBegins, Sweep
    <3>2. \A h \in Hashes : h = t \/ Torn(h) => Torn(h)'
      BY <2>1, <2>2, <3>1 DEF Torn
    <3>3. \A h \in Hashes : entry'[h].done => entry'[h].files = "whole" \/ Torn(h)'
      BY <2>1, <3>2 DEF Whole
    <3>4. ASSUME NEW u \in Sweepers, NEW h \in Hashes,
                 sweep'[u].phase = "torn", sweep'[u].target = h, entry'[h].done
          PROVE  u \in entry'[h].wipers
      <4>1. CASE u = s
        BY <2>1, <2>4, <3>1, <3>4, <4>1
      <4>2. CASE u # s
        <5>1. u \in entry[h].wipers
          BY <2>1, <2>2, <3>4, <4>2 DEF Whole
        <5> QED BY <2>1, <5>1
      <4> QED BY <4>1, <4>2
    <3> QED BY <3>3, <3>4 DEF Whole
  <2> QED BY <2>3, <2>4
<1>4. CASE EvictEnds(s)
  <2>1. /\ t \in Hashes /\ sweep[s].phase = "torn"
        /\ \A h \in Hashes : h # t => entry'[h] = entry[h]
        /\ entry'[t].done => entry[t].done /\ s \notin entry[t].wipers
    BY <1>4, RemovalOnEntries DEF EvictEnds
  <2>2. ~entry'[t].done
    BY <2>1 DEF Whole
  <2>3. /\ sweep'[s].phase # "torn"
        /\ \A u \in Sweepers : u # s => sweep'[u] = sweep[u]
    BY <1>1, <1>4 DEF EvictEnds, Sweep
  <2>4. \A h \in Hashes : h # t /\ Torn(h) => Torn(h)'
    BY <2>3 DEF Torn
  <2>5. \A h \in Hashes : entry'[h].done => entry'[h].files = "whole" \/ Torn(h)'
    BY <2>1, <2>2, <2>4 DEF Whole
  <2>6. ASSUME NEW u \in Sweepers, NEW h \in Hashes,
               sweep'[u].phase = "torn", sweep'[u].target = h, entry'[h].done
        PROVE  u \in entry'[h].wipers
    BY <2>1, <2>2, <2>3, <2>6 DEF Whole
  <2> QED BY <2>5, <2>6 DEF Whole
<1> QED BY <1>2, <1>3, <1>4 DEF SweepStep

(* What begins or ends a sweep, deaths outside rmtree, and the steps that  *)
(* leave the sweeps alone.                                                 *)
LEMMA TornStays ==
  ASSUME IInv, ~CrashTears,
         \/ WorksQuietly \/ PreSweep \/ Headroom \/ HeadroomFails \/ Crash \/ UNCHANGED vars
         \/ \E s \in Sweepers : SweepFails(s) \/ Joins(s) \/ ApiCrash(s)
  PROVE  \A u \in Sweepers :
           sweep[u].phase = "torn" \/ sweep'[u].phase = "torn" => sweep'[u] = sweep[u]
<1>1. sweep \in [Sweepers -> Sweep] /\ "main" \in Sweepers
  BY DEF IInv, TypeOK, SweepsOK, Sweepers
<1>2. CASE WorksQuietly \/ UNCHANGED vars
  BY <1>2, QuietKeepsSweeps DEF vars
<1>3. CASE PreSweep \/ Headroom
  <2>1. sweep["main"].phase = "idle"
    BY <1>3 DEF IInv, Sweeping, PreSweep, Headroom
  <2>2. \A u \in Sweepers : u # "main" => sweep'[u] = sweep[u]
    BY <1>1, <1>3 DEF PreSweep, Headroom
  <2>3. sweep'["main"].phase # "torn"
    <3>1. /\ Idle.phase # "torn"
          /\ \A candidates, excess, doomed : Snapshot(candidates, excess, doomed).phase # "torn"
      BY DEF Snapshot, Idle
    <3>2. CASE PreSweep
      <4>1. \E budget \in Budgets : sweep'["main"] =
              IF Excess(budget) > 0 THEN Snapshot(Committed, Excess(budget), None) ELSE Idle
        BY <1>1, <3>2 DEF PreSweep
      <4> QED BY <3>1, <4>1
    <3>3. CASE Headroom
      <4>1. \/ sweep'["main"] = sweep["main"] \/ sweep'["main"] = Idle
            \/ \E excess : sweep'["main"] = Snapshot(Committed, excess, None)
        BY <1>1, <3>3 DEF Headroom
      <4> QED BY <2>1, <3>1, <4>1
    <3> QED BY <1>3, <3>2, <3>3
  <2> QED BY <2>1, <2>2, <2>3
<1>4. CASE HeadroomFails
  BY <1>1, <1>4, IdleTyped DEF HeadroomFails
<1>5. CASE Crash
  BY <1>1, <1>5, IdleTyped DEF Crash
<1>6. ASSUME NEW s \in Sweepers, SweepFails(s) \/ ApiCrash(s)
      PROVE  \A u \in Sweepers :
               sweep[u].phase = "torn" \/ sweep'[u].phase = "torn" => sweep'[u] = sweep[u]
  BY <1>1, <1>6, IdleTyped DEF SweepFails, ApiCrash
<1>7. ASSUME NEW s \in Sweepers, Joins(s)
      PROVE  \A u \in Sweepers :
               sweep[u].phase = "torn" \/ sweep'[u].phase = "torn" => sweep'[u] = sweep[u]
  <2>1. PICK candidates, excess, doomed :
          StartSweep(s, Snapshot(candidates, excess, doomed))
    BY <1>7 DEF Joins
  <2>2. Snapshot(candidates, excess, doomed).phase = "scan"
    BY DEF Snapshot, Idle
  <2> QED BY <1>1, <2>1, <2>2 DEF StartSweep
<1> QED BY <1>2, <1>3, <1>4, <1>5, <1>6, <1>7

LEMMA WholeStep ==
  ASSUME IInv, Whole, NodeOK, Apart, ~CrashTears, [Next]_vars
  PROVE  Whole'
<1>1. CASE \E s \in Sweepers : SweepStep(s)
  BY <1>1, WholeAmongSweeps
<1>2. CASE \/ WorksQuietly \/ PreSweep \/ Headroom \/ HeadroomFails \/ Crash \/ UNCHANGED vars
           \/ \E s \in Sweepers : SweepFails(s) \/ Joins(s) \/ ApiCrash(s)
  <2>1. \A u \in Sweepers :
          sweep[u].phase = "torn" \/ sweep'[u].phase = "torn" => sweep'[u] = sweep[u]
    BY <1>2, TornStays
  <2>2. ASSUME \A h \in Hashes : entry'[h].done => /\ entry[h].done
                                                   /\ entry'[h].files = entry[h].files
                                                   /\ entry'[h].wipers = entry[h].wipers
        PROVE  Whole'
    BY <2>1, <2>2, WholeKept
  <2>3. CASE Reserve
    BY <2>2, <2>3, ReserveOnEntries
  <2>4. ASSUME NodeWrites \/ NodeReturns \/ (Commit /\ Advance) PROVE Whole'
    <3>1. /\ Node \in Hashes /\ \A s \in Sweepers : sweep[s].target # Node
          /\ \A h \in Hashes : h # Node => entry'[h] = entry[h]
      BY <2>4, NodeOnEntries DEF Apart, NodeWrites, NodeReturns, Commit
    <3>2. entry'[Node].done => \/ entry'[Node].files = "whole"
                               \/ entry[Node].done /\ entry[Node].files # "whole"
      <4>1. CASE NodeWrites \/ NodeReturns
        BY <3>1, <4>1, NodeOnEntries
      <4>2. CASE Commit /\ Advance
        BY <3>1, <4>2, NodeOnEntries DEF NodeOK, Commit
      <4> QED BY <2>4, <4>1, <4>2
    <3>3. \A h \in Hashes : entry'[h].done => \/ entry'[h].files = "whole"
                                              \/ entry[h].done /\ entry[h].files # "whole"
      BY <3>1, <3>2
    <3>4. \A s \in Sweepers, h \in Hashes :
            sweep[s].phase = "torn" /\ sweep[s].target = h /\ entry'[h].done
              => entry[h].done /\ entry[h].wipers \subseteq entry'[h].wipers
      BY <3>1
    <3> QED BY <2>1, <3>3, <3>4, WholeKept
  <2>5. CASE NodeRaises
    <3>1. ~NoEntry.done
      BY DEF NoEntry
    <3> QED BY <2>2, <2>5, <3>1, NodeOnEntries
  <2>6. CASE WorksQuietly /\ ~ ((Commit /\ Advance) \/ Reserve \/ NodeWrites \/ NodeReturns
                                \/ NodeRaises)
    BY <2>2, <2>6, OthersOnEntries
  <2>7. CASE ~WorksQuietly
    <3>1. UNCHANGED entry
      BY <1>2, <2>7, BeginsOnEntries, CrashOnEntries
    <3> QED BY <2>2, <3>1
  <2> QED BY <2>3, <2>4, <2>5, <2>6, <2>7
<1> QED BY <1>1, <1>2, StepsBySweep

(* Nothing damages the entry of the node in work, and the node begins with *)
(* an empty one or with one that is whole.                                 *)
LEMMA NodeOKStep ==
  ASSUME IInv, NodeOK, Apart, [Next]_vars,
         pc = "reserve" /\ entry[Node].done /\ ~request[job].force => entry[Node].files = "whole"
  PROVE  NodeOK'
<1>1. CASE pc' \notin {"running", "commit"}
  BY <1>1 DEF NodeOK
<1>2. job # None => job \in Jobs /\ status[job] # "absent"
  BY DEF IInv, TypeOK, RunOK, Working
<1>3. pc \in {"running", "commit"} => job # None
  BY DEF IInv, TypeOK, RunOK
<1>4. ASSUME UNCHANGED <<pc, job, at>>, request'[job] = request[job],
             pc \in {"running", "commit"},
             \A h \in Hashes : h = Node =>
               \/ entry'[h].files = entry[h].files
               \/ pc = "running" /\ entry'[h].files = "partial"
      PROVE  NodeOK'
  <2>1. Node' = Node /\ Node \in Hashes
    BY <1>4 DEF Node, Apart
  <2> QED BY <1>4, <2>1 DEF NodeOK
<1>5. ASSUME NEW j \in Jobs, NEW r \in Requests, Submit(j, r), pc \in {"running", "commit"}
      PROVE  NodeOK'
  <2>1. job # j /\ UNCHANGED <<entry, pc, job, at>>
    BY <1>2, <1>3, <1>5 DEF Submit, runVars
  <2>2. request'[job] = request[job]
    BY <1>2, <1>3, <1>5, <2>1 DEF Submit, IInv, TypeOK, RowsOK
  <2> QED BY <1>4, <1>5, <2>1, <2>2
<1>6. CASE Reserve
  <2>1. pc = "reserve" /\ pc' = "running" /\ Node' = Node /\ Node \in Hashes
    BY <1>6 DEF Reserve, Apart, Node, rowVars
  <2>2. \/ entry'[Node].files = "none"
        \/ /\ entry[Node].done /\ ~request[job].force
           /\ entry'[Node].files = entry[Node].files
    BY <1>6, <2>1, ReserveOnEntries
  <2> QED BY <2>1, <2>2 DEF NodeOK
<1>7. CASE NodeReturns
  <2>1. pc = "running" /\ pc' = "commit" /\ Node' = Node /\ Node \in Hashes
    BY <1>7 DEF NodeReturns, Apart, Node, rowVars
  <2>2. ~NodeWrites
    BY <2>1 DEF NodeWrites, runVars
  <2>3. entry'[Node].files = "whole"
    BY <1>7, <2>1, <2>2, NodeOnEntries DEF NodeOK
  <2> QED BY <2>1, <2>3 DEF NodeOK
<1>8. CASE NodeWrites
  <2>1. pc = "running" /\ UNCHANGED <<pc, job, at, request>> /\ Node \in Hashes
    BY <1>8 DEF NodeWrites, Apart, runVars, rowVars
  <2>2. ~NodeReturns
    BY <2>1 DEF NodeReturns
  <2>3. entry'[Node].files = "whole" \/ entry'[Node].files = "partial"
    BY <1>8, <2>1, <2>2, NodeOnEntries DEF NodeOK
  <2>4. Node' = Node
    BY <2>1 DEF Node
  <2> QED BY <2>1, <2>3, <2>4 DEF NodeOK
<1>9. CASE \E s \in Sweepers : SweepStep(s)
  <2>1. PICK s \in Sweepers : SweepStep(s)
    BY <1>9
  <2>2. UNCHANGED <<pc, job, at, request>>
    BY <2>1 DEF SweepStep, SweepTest, EvictBegins, EvictEnds, SweepEnds, runVars, rowVars
  <2>3. CASE pc \in {"running", "commit"}
    <3>1. \A h \in Hashes : h = Node => entry'[h].files = entry[h].files
      BY <2>1, <2>3, SweepsOnEntries DEF Apart
    <3> QED BY <1>4, <2>2, <2>3, <3>1
  <2> QED BY <1>1, <2>2, <2>3
<1>10. CASE UNCHANGED vars \/ \E s \in Sweepers : SweepFails(s) \/ Joins(s) \/ ApiCrash(s)
  <2>1. UNCHANGED <<entry, pc, job, at, request>>
    BY <1>10 DEF vars, runVars, rowVars, SweepFails, Joins, StartSweep, ApiCrash
  <2> QED BY <1>1, <1>4, <2>1
<1>11. CASE PreSweep \/ Headroom \/ HeadroomFails \/ Crash
  BY <1>1, <1>11 DEF PreSweep, Headroom, HeadroomFails, EndAfter, Crash
<1>12. CASE WorksQuietly /\ ~ (Reserve \/ NodeWrites \/ NodeReturns)
            /\ ~ \E j \in Jobs, r \in Requests : Submit(j, r)
  BY <1>1, <1>12 DEF WorksQuietly, Claim, LoadHit, Advance, Terminate, TerminateAfter, EndAfter,
        Commit, Release, Restart, CancelledBetweenNodes, HeadroomLacking, ReserveFails,
        NodeRaises, Complete, SweepReturns, PlanNode, PlanMade, SkipNode, HeadroomFound, Join
<1>13. CASE \E j \in Jobs, r \in Requests : Submit(j, r)
  BY <1>1, <1>5, <1>13 DEF Submit, runVars
<1> QED BY <1>6, <1>7, <1>8, <1>9, <1>10, <1>11, <1>12, <1>13, StepsBySweep

(* A node that is entered through an entry that is whole.                  *)
LEMMA WholeAtReserve ==
  ASSUME Whole, Apart, pc = "reserve", entry[Node].done
  PROVE  entry[Node].files = "whole"
BY DEF Whole, Apart, Torn

-----------------------------------------------------------------------------
(* The plan of a run.  Wanted(f, r, planned, i) is what the recursion of   *)
(* MustRun says of the i-th node, given what f says of the later ones.     *)

Wanted(f, r, planned, i) ==
  /\ r.nodes[i] \notin planned
  /\ \/ r.nodes[i] \in r.results
     \/ \E k \in (i+1) .. Len(r.nodes) : r.nodes[i] \in Inputs[r.nodes[k]] /\ f[k]

MustOf(r, planned) ==
  CHOOSE f : f = [i \in 1 .. Len(r.nodes) |-> Wanted(f, r, planned, i)]

LEMMA MustRunChooses ==
  ASSUME NEW r, NEW planned
  PROVE  MustRun(r, planned) =
           {r.nodes[i] : i \in {k \in 1 .. Len(r.nodes) : MustOf(r, planned)[k]}}
BY DEF MustRun, MustOf, Wanted

LEMMA MustOfRecurses ==
  ASSUME NEW r \in Requests, NEW planned
  PROVE  LET must == MustOf(r, planned) IN
         must = [i \in 1 .. Len(r.nodes) |-> Wanted(must, r, planned, i)]
<1> DEFINE n == Len(r.nodes)
           Last(d) == {i \in 1 .. n : i > n - d}        \* the last d nodes
           Good(f, d) == f = [i \in Last(d) |-> Wanted(f, r, planned, i)]
           Bad == {d \in Nat : ~ \E f : Good(f, d)}
           m == Min(Bad)
<1>1. n \in Nat
  BY CacheAssumption
<1>2. \A f, g, i : (\A k \in (i+1) .. n : f[k] = g[k])
                     => Wanted(f, r, planned, i) = Wanted(g, r, planned, i)
  BY DEF Wanted
<1>3. ASSUME Bad # {} PROVE FALSE
  <2>1. m \in Bad /\ \A d \in Bad : m <= d
    <3>1. Bad \in SUBSET Nat
      OBVIOUS
    <3> HIDE DEF Bad
    <3> QED BY <1>3, <3>1, LeastExists
  <2>2. m \in Nat /\ ~ \E f : Good(f, m)
    BY <2>1, Zenon
  <2>3. \A d \in Nat : d < m => \E f : Good(f, d)
    <3> SUFFICES ASSUME NEW d \in Nat, d < m, ~ \E f : Good(f, d) PROVE FALSE
      OBVIOUS
    <3>1. d \in Bad
      BY Zenon
    <3> HIDE DEF Bad, Good
    <3> QED BY <2>1, <2>2, <3>1
  <2> HIDE DEF m, Bad
  <2>4. CASE m = 0
    <3> DEFINE e == [i \in {} |-> 0]
    <3>1. Last(0) = {}
      BY <1>1
    <3>2. Good(e, 0)
      <4> HIDE DEF Last
      <4> QED BY <3>1
    <3> HIDE DEF Good
    <3> QED BY <2>2, <2>4, <3>2
  <2>5. CASE m # 0
    <3> DEFINE first == n - m + 1
    <3>1. m - 1 \in Nat /\ m - 1 < m
      BY <2>2, <2>5
    <3>2. PICK f : Good(f, m - 1)
      <4> HIDE DEF Good
      <4> QED BY <2>3, <3>1
    <3> DEFINE g == [i \in Last(m) |-> IF i = first THEN Wanted(f, r, planned, i) ELSE f[i]]
    <3>3. \A i \in Last(m) : i = first \/ i \in Last(m - 1)
      BY <1>1, <2>2
    <3>4. \A i \in Last(m - 1) : f[i] = Wanted(f, r, planned, i)
      <4> HIDE DEF Last
      <4> QED BY <3>2, Zenon
    <3>5. \A i \in Last(m - 1) : i \in Last(m) /\ i # first
      BY <1>1, <2>2
    <3>6. \A i \in Last(m - 1) : g[i] = f[i]
      <4> HIDE DEF Last, first
      <4> QED BY <3>5, Zenon
    <3>7. ASSUME NEW i \in Last(m) PROVE g[i] = Wanted(g, r, planned, i)
      <4>1. \A k \in (i+1) .. n : k \in Last(m - 1)
        BY <1>1, <2>2
      <4> HIDE DEF g, first
      <4>2. \A k \in (i+1) .. n : g[k] = f[k]
        BY <3>6, <4>1, Zenon
      <4>3. Wanted(g, r, planned, i) = Wanted(f, r, planned, i)
        BY <1>2, <4>2, Zenon
      <4>4. CASE i = first
        BY <4>3, <4>4, Zenon DEF g
      <4>5. CASE i \in Last(m - 1)
        BY <3>4, <3>6, <4>3, <4>5, Zenon
      <4> QED BY <3>3, <4>4, <4>5
    <3>8. Good(g, m)
      <4>1. g = [i \in Last(m) |-> g[i]]
        OBVIOUS
      <4> HIDE DEF Last, g
      <4> QED BY <3>7, <4>1, Zenon
    <3> HIDE DEF Good, g
    <3> QED BY <2>2, <3>8
  <2> QED BY <2>4, <2>5
<1>4. PICK f : Good(f, n)
  BY <1>1, <1>3, Zenon
<1>5. Last(n) = 1 .. n
  BY <1>1
<1>6. f = [i \in 1 .. n |-> Wanted(f, r, planned, i)]
  <2> HIDE DEF Last
  <2> QED BY <1>4, <1>5
<1> QED BY <1>6, Zenon DEF MustOf

(* A miss that is a result must run, and so must every miss that a node    *)
(* that must run reads.                                                    *)
LEMMA PlanIsClosed ==
  ASSUME NEW r \in Requests, NEW planned
  PROVE  /\ MustRun(r, planned) \cap planned = {}
         /\ r.results \subseteq planned \cup MustRun(r, planned)
         /\ \A h \in MustRun(r, planned) : Inputs[h] \subseteq planned \cup MustRun(r, planned)
<1> DEFINE n == Len(r.nodes)
           must == MustOf(r, planned)
           M == MustRun(r, planned)
<1>1. /\ n \in Nat /\ r.nodes \in Seq(Hashes) /\ DOMAIN r.nodes = 1 .. n
      /\ r.results \subseteq {r.nodes[i] : i \in DOMAIN r.nodes}
      /\ \A i \in DOMAIN r.nodes :
            Inputs[r.nodes[i]] \subseteq {r.nodes[k] : k \in 1 .. (i-1)}
  BY CacheAssumption
<1>2. M = {r.nodes[i] : i \in {k \in 1 .. n : must[k]}}
  BY MustRunChooses
<1>3. \A i \in 1 .. n : must[i] = Wanted(must, r, planned, i)
  <2>1. must = [i \in 1 .. n |-> Wanted(must, r, planned, i)]
    BY MustOfRecurses
  <2> HIDE DEF must, n
  <2> QED BY <2>1, Zenon
<1> HIDE DEF must, M
<1>4. ASSUME NEW h \in M PROVE \E i \in 1 .. n : h = r.nodes[i] /\ must[i]
  BY <1>2
<1>5. ASSUME NEW i \in 1 .. n, must[i] PROVE r.nodes[i] \in M
  BY <1>2, <1>5
<1>6. ASSUME NEW i \in 1 .. n, must[i] PROVE r.nodes[i] \notin planned
  BY <1>3, <1>6, Zenon DEF Wanted
<1>7. ASSUME NEW i \in 1 .. n, r.nodes[i] \in r.results, r.nodes[i] \notin planned
      PROVE  must[i]
  BY <1>3, <1>7, Zenon DEF Wanted
<1>8. ASSUME NEW i \in 1 .. n, NEW k \in 1 .. n, k > i, must[k],
             r.nodes[i] \in Inputs[r.nodes[k]], r.nodes[i] \notin planned
      PROVE  must[i]
  <2>1. k \in (i+1) .. n
    BY <1>1, <1>8
  <2>2. Wanted(must, r, planned, i)
    BY <1>8, <2>1, Zenon DEF Wanted
  <2> QED BY <1>3, <2>2, Zenon
<1>9. M \cap planned = {}
  BY <1>4, <1>6
<1>10. r.results \subseteq planned \cup M
  BY <1>1, <1>5, <1>7
<1>11. ASSUME NEW h \in M, NEW g \in Inputs[h], g \notin planned PROVE g \in M
  <2>1. PICK k \in 1 .. n : h = r.nodes[k] /\ must[k]
    BY <1>4
  <2>2. PICK i \in 1 .. (k-1) : g = r.nodes[i]
    BY <1>1, <2>1
  <2>3. i \in 1 .. n /\ k > i
    BY <1>1
  <2>4. must[i]
    BY <1>8, <1>11, <2>1, <2>2, <2>3
  <2> QED BY <1>5, <2>2, <2>3, <2>4
<1> QED BY <1>9, <1>10, <1>11 DEF M

(* A plan runs nodes of the request, and no node reads itself.             *)
LEMMA PlanFits ==
  ASSUME NEW r \in Requests, NEW planned
  PROVE  /\ MustRun(r, planned) \subseteq {r.nodes[i] : i \in 1 .. Len(r.nodes)}
         /\ \A i \in 1 .. Len(r.nodes) : r.nodes[i] \notin Inputs[r.nodes[i]]
<1> DEFINE n == Len(r.nodes)
<1>1. /\ n \in Nat /\ r.nodes \in Seq(Hashes) /\ DOMAIN r.nodes = 1 .. n
      /\ \A i \in DOMAIN r.nodes :
            Inputs[r.nodes[i]] \subseteq {r.nodes[k] : k \in 1 .. (i-1)}
  BY CacheAssumption
<1>2. MustRun(r, planned) \subseteq {r.nodes[i] : i \in 1 .. n}
  BY MustRunChooses
<1>3. ASSUME NEW i \in 1 .. n, r.nodes[i] \in Inputs[r.nodes[i]] PROVE FALSE
  <2> DEFINE Spots == {k \in Nat : k \in 1 .. n /\ r.nodes[k] = r.nodes[i]}
             first == Min(Spots)
  <2>1. first \in Spots /\ \A k \in Spots : first <= k
    <3>1. Spots \in SUBSET Nat /\ Spots # {}
      BY <1>1
    <3> HIDE DEF Spots
    <3> QED BY <3>1, LeastExists
  <2> HIDE DEF first
  <2>2. first \in 1 .. n /\ r.nodes[first] = r.nodes[i]
    BY <2>1
  <2>3. PICK k \in 1 .. (first-1) : r.nodes[k] = r.nodes[i]
    <3>1. Inputs[r.nodes[first]] \subseteq {r.nodes[k] : k \in 1 .. (first-1)}
      BY <1>1, <2>2
    <3>2. r.nodes[i] \in Inputs[r.nodes[first]]
      BY <1>3, <2>2
    <3> QED BY <3>1, <3>2
  <2>4. k \in Spots /\ k < first
    BY <1>1, <2>2, <2>3
  <2> QED BY <1>1, <2>1, <2>4
<1> QED BY <1>2, <1>3

-----------------------------------------------------------------------------
(* The worker alone with its cache: no request and no monitor thread       *)
(* sweeps, and no node asks for room on the disk.  Then the main thread    *)
(* sweeps before a run and never inside it.                                *)

Alone == Api = {} /\ Monitors = {} /\ Heavy = {} /\ ~CrashTears

AtWork == {"planning"} \cup InRun

(* From the plan on, a hit stays committed; and what the run has come past *)
(* and had to run is committed, but for the node that runs once more under *)
(* the same hash.                                                          *)
AloneInv ==
  /\ pc # "headroom"
  /\ pc \in {"presweep", "sweeping"} => hits = {}
  /\ pc \in AtWork => \A h \in hits : entry[h].done
  /\ pc \in InRun =>
       \A k \in 1 .. (at - 1) : request[job].nodes[k] \in Must =>
         \/ entry[request[job].nodes[k]].done
         \/ pc \in {"running", "commit"} /\ request[job].nodes[k] = Node
  /\ pc \in {"reserve", "running", "commit"} => at <= Steps /\ Node \in Must

AInv == IInv /\ Whole /\ NodeOK /\ AloneInv

(* What must run is a node and no hit.                                     *)
LEMMA PlanInWork ==
  ASSUME IInv, job # None
  PROVE  Must \subseteq Hashes /\ Must \cap hits = {}
<1>1. request[job] \in Requests /\ \A i \in 1 .. Steps : request[job].nodes[i] \in Hashes
  BY JobInWork
<1>2. Must \subseteq {request[job].nodes[i] : i \in 1 .. Steps}
  BY <1>1, PlanFits DEF Must, Steps
<1> QED BY <1>1, <1>2, PlanIsClosed DEF Must

(* While the run is planned and executed nothing is being removed.         *)
LEMMA QuietAtWork ==
  ASSUME Alone, AInv, pc \in AtWork
  PROVE  /\ \A s \in Sweepers : sweep[s].phase = "idle"
         /\ \A h \in Hashes : entry[h].done => entry[h].files = "whole"
         /\ job # None
<1>1. \A s \in Sweepers : sweep[s].phase = "idle"
  BY DEF Alone, AInv, IInv, Sweeping, AloneInv, AtWork, InRun, Sweepers
<1>2. job # None
  BY DEF AInv, IInv, TypeOK, RunOK, AtWork, InRun
<1> QED BY <1>1, <1>2 DEF AInv, Whole, Torn

(* And no sweep has chosen the entry of the node in work.                  *)
LEMMA ApartAtWork ==
  ASSUME Alone, AInv
  PROVE  Apart
<1> SUFFICES ASSUME pc \in {"reserve", "running", "commit"}
             PROVE  Node \in Hashes /\ \A s \in Sweepers : sweep[s].target # Node
  BY DEF Apart
<1>1. job # None /\ \A s \in Sweepers : sweep[s].phase = "idle"
  BY QuietAtWork DEF AtWork, InRun
<1>2. Node \in Hashes
  BY <1>1, PlanInWork DEF AInv, AloneInv
<1>3. \A s \in Sweepers : sweep[s].target = None
  BY <1>1 DEF AInv, IInv, TypeOK, SweepsOK
<1> QED BY <1>2, <1>3, NamesAssumption

(* What the run relies on, once it is past a node.                         *)
LEMMA PastNodesAreThere ==
  ASSUME Alone, AInv, pc \in InRun, NEW h \in hits \cup Must,
         h \in hits \/ \E k \in 1 .. (at - 1) : h = request[job].nodes[k],
         pc \in {"running", "commit"} => h # Node
  PROVE  h \in Hashes /\ entry[h].done /\ entry[h].files = "whole"
<1>1. pc \in AtWork
  BY DEF AtWork
<1>2. job # None /\ hits \subseteq Hashes
  BY <1>1, QuietAtWork DEF AInv, IInv, TypeOK, RunOK
<1>3. h \in Hashes
  BY <1>2, PlanInWork DEF AInv
<1>4. entry[h].done
  <2>1. CASE h \in hits
    BY <1>1, <2>1 DEF AInv, AloneInv
  <2>2. CASE h \in Must /\ \E k \in 1 .. (at - 1) : h = request[job].nodes[k]
    BY <2>2 DEF AInv, AloneInv
  <2> QED BY <2>1, <2>2
<1> QED BY <1>1, <1>3, <1>4, QuietAtWork

(* Where the run is not being planned or executed, little is asked.        *)
LEMMA OutsideWork ==
  ASSUME pc' \notin AtWork, pc' # "headroom", pc' \in {"presweep", "sweeping"} => hits' = {}
  PROVE  AloneInv'
BY DEF AloneInv, AtWork, InRun

(* A step of others, or one that writes into an entry but not _done.       *)
LEMMA RunUntouched ==
  ASSUME AInv, UNCHANGED runVars, job # None => request'[job] = request[job],
         \A h \in Hashes : entry'[h].done = entry[h].done
  PROVE  AloneInv'
<1>1. AloneInv
  BY DEF AInv
<1>2. UNCHANGED <<pc, job, at, hits>>
  BY DEF runVars
<1>3. CASE job = None
  <2>1. pc \in {"down", "idle"}
    BY <1>3 DEF AInv, IInv, TypeOK, RunOK
  <2> QED BY <1>2, <2>1, OutsideWork DEF AtWork, InRun
<1>4. CASE job # None
  <2>1. /\ Must' = Must /\ Node' = Node /\ Steps' = Steps /\ request'[job] = request[job]
    BY <1>2, <1>4 DEF Must, Node, Steps
  <2>2. hits \cup Must \subseteq Hashes
    BY <1>4, PlanInWork DEF AInv, IInv, TypeOK, RunOK
  <2>3. \A h \in hits \cup Must : entry'[h].done = entry[h].done
    BY <2>2
  <2> QED BY <1>1, <1>2, <2>1, <2>3 DEF AloneInv
<1> QED BY <1>3, <1>4

(* The plan: the sweep is over, what is committed may be taken for a hit.  *)
LEMMA PlanTakesCommitted ==
  ASSUME AInv, SweepReturns \/ PlanNode \/ PlanMade
  PROVE  AloneInv'
<1>1. AloneInv /\ at \in Nat
  BY DEF AInv, IInv, TypeOK, RunOK
<1>2. CASE SweepReturns
  BY <1>1, <1>2 DEF SweepReturns, AloneInv, AtWork, InRun
<1>3. CASE PlanNode
  BY <1>1, <1>3 DEF PlanNode, IsHit, AloneInv, AtWork, InRun
<1>4. CASE PlanMade
  <2>1. 1 .. (at' - 1) = {} /\ pc' = "executing" /\ UNCHANGED <<entry, hits>>
    BY <1>4 DEF PlanMade
  <2> QED BY <1>1, <1>4, <2>1 DEF PlanMade, AloneInv, AtWork, InRun
<1> QED BY <1>2, <1>3, <1>4

(* Past a node: a hit or a skipped one had not to run, the other one has   *)
(* been committed.                                                         *)
LEMMA AdvancePastNode ==
  ASSUME AInv, Advance, pc \in {"executing", "commit"}, at <= Steps,
         Node \in Must => pc = "commit" /\ entry'[Node].done,
         \A h \in Hashes : entry[h].done => entry'[h].done
  PROVE  AloneInv'
<1>1. AloneInv /\ at \in Nat \ {0} /\ hits \subseteq Hashes /\ job # None
  BY DEF AInv, IInv, TypeOK, RunOK
<1>2. /\ pc' = "executing" /\ at' = at + 1
      /\ UNCHANGED <<request, job, hits>>
  BY DEF Advance, rowVars
<1>3. Must' = Must
  BY <1>2 DEF Must
<1>4. pc \in InRun /\ pc \in AtWork
  BY DEF InRun, AtWork
<1>5. \A h \in hits : entry'[h].done
  BY <1>1, <1>4 DEF AloneInv
<1>6. Must \subseteq Hashes
  BY <1>1, PlanInWork DEF AInv
<1>7. ASSUME NEW k \in 1 .. at, request[job].nodes[k] \in Must
      PROVE  entry'[request[job].nodes[k]].done
  <2>1. CASE request[job].nodes[k] = Node
    BY <1>7, <2>1
  <2>2. CASE request[job].nodes[k] # Node
    <3>1. k \in 1 .. (at - 1)
      BY <1>1, <2>2 DEF Node
    <3>2. entry[request[job].nodes[k]].done
      BY <1>1, <1>4, <1>7, <2>2, <3>1 DEF AloneInv
    <3> QED BY <1>6, <1>7, <3>2
  <2> QED BY <2>1, <2>2
<1>8. 1 .. (at' - 1) = 1 .. at
  BY <1>1, <1>2
<1> QED BY <1>2, <1>3, <1>5, <1>7, <1>8 DEF AloneInv

(* The node begins: reserve may wipe its entry and no other, and what is   *)
(* wiped is no hit.                                                        *)
LEMMA ReserveSparesHits ==
  ASSUME AInv, Reserve
  PROVE  AloneInv'
<1>1. AloneInv /\ EntriesOK /\ hits \subseteq Hashes /\ job # None
  BY DEF AInv, IInv, TypeOK, RunOK, Reserve
<1>2. /\ pc' = "running" /\ pc = "reserve"
      /\ UNCHANGED <<request, job, at, hits>>
  BY DEF Reserve, rowVars
<1>3. Must' = Must /\ Node' = Node /\ Steps' = Steps
  BY <1>2 DEF Must, Node, Steps
<1>4. pc \in InRun /\ pc \in AtWork /\ at <= Steps /\ Node \in Must
  BY <1>1, <1>2 DEF AloneInv, InRun, AtWork
<1>5. Must \subseteq Hashes /\ Must \cap hits = {}
  BY <1>1, PlanInWork DEF AInv
<1>6. \A h \in Hashes : h # Node => entry'[h].done = entry[h].done
  <2> DEFINE reserved == [entry EXCEPT ![Node] = Reserved(@, request[job].force)]
  <2>1. \A h \in Hashes : entry'[h] = IF h \in MarksOf(Node) THEN Marked(reserved[h], job)
                                                             ELSE reserved[h]
    BY DEF Reserve
  <2>2. \A h \in Hashes : h # Node => reserved[h] = entry[h]
    BY <1>1 DEF EntriesOK
  <2> HIDE DEF reserved
  <2>3. \A h \in Hashes : h # Node => entry'[h] = entry[h] \/ entry'[h] = Marked(entry[h], job)
    BY <2>1, <2>2
  <2>4. \A h \in Hashes : Marked(entry[h], job).done = entry[h].done
    BY <1>1 DEF Marked, EntriesOK, Entry
  <2> QED BY <2>3, <2>4
<1>7. \A h \in hits : entry'[h].done
  <2>1. \A h \in hits : h # Node /\ h \in Hashes /\ entry[h].done
    BY <1>1, <1>4, <1>5 DEF AloneInv
  <2> QED BY <1>6, <2>1
<1>8. ASSUME NEW k \in 1 .. (at - 1), request[job].nodes[k] \in Must
      PROVE  entry'[request[job].nodes[k]].done \/ request[job].nodes[k] = Node
  <2>1. CASE request[job].nodes[k] # Node
    <3>1. entry[request[job].nodes[k]].done
      BY <1>1, <1>2, <1>4, <1>8 DEF AloneInv
    <3> QED BY <1>5, <1>6, <1>8, <2>1, <3>1
  <2> QED BY <2>1
<1> QED BY <1>2, <1>3, <1>4, <1>7, <1>8 DEF AloneInv

(* Room is found, or the node has returned: only the place changes.        *)
LEMMA NextPlace ==
  ASSUME AInv, UNCHANGED <<request, job, at, hits>>,
         \/ pc = "executing" /\ pc' = "reserve" /\ at <= Steps /\ Node \in Must
         \/ pc = "running" /\ pc' = "commit",
         \A h \in Hashes : entry'[h].done = entry[h].done
  PROVE  AloneInv'
<1>1. AloneInv /\ hits \subseteq Hashes /\ job # None
  BY DEF AInv, IInv, TypeOK, RunOK
<1>2. Must' = Must /\ Node' = Node /\ Steps' = Steps
  BY DEF Must, Node, Steps
<1>3. Must \subseteq Hashes
  BY <1>1, PlanInWork DEF AInv
<1>4. \A h \in hits \cup Must : entry'[h].done = entry[h].done
  BY <1>1, <1>3
<1> QED BY <1>1, <1>2, <1>4 DEF AloneInv, InRun, AtWork

LEMMA AloneInductive ==
  ASSUME Alone, AInv, [Next]_vars
  PROVE  AloneInv'
<1>1. AloneInv /\ EntriesOK
  BY DEF AInv, IInv, TypeOK
<1>2. CASE UNCHANGED vars
  BY <1>2, RunUntouched DEF vars, rowVars
<1>3. ASSUME NEW j \in Jobs, Claim(j) PROVE AloneInv'
  BY <1>3, OutsideWork DEF Claim, AtWork, InRun
<1>4. ASSUME NEW j \in Jobs, NEW r \in Requests, Submit(j, r) PROVE AloneInv'
  <2>1. job # None => job # j /\ request'[job] = request[job]
    BY <1>4 DEF AInv, IInv, Working, TypeOK, RowsOK, RunOK, Submit
  <2> QED BY <1>4, <2>1, RunUntouched DEF Submit
<1>5. ASSUME NEW last, NEW o, TerminateAfter(last, o) PROVE AloneInv'
  BY <1>5, OutsideWork DEF TerminateAfter, EndAfter, AtWork, InRun
<1>6. CASE WorkerStep
  <2>1. CASE SweepReturns \/ PlanNode \/ PlanMade
    BY <2>1, PlanTakesCommitted
  <2>2. CASE HeadroomLacking \/ ReserveFails \/ NodeRaises \/ Complete
    BY <2>2, <1>5 DEF HeadroomLacking, ReserveFails, NodeRaises, Complete, Terminate
  <2>3. CASE PreSweep \/ Release \/ Join \/ Restart
    BY <1>1, <2>3, OutsideWork DEF PreSweep, Release, Join, Restart, AtWork, InRun, AloneInv
  <2>4. CASE HeadroomFound
    BY <1>1, <2>4 DEF HeadroomFound, AloneInv
  <2>5. CASE LoadHit
    <3>1. job # None
      BY <2>5 DEF LoadHit, AInv, IInv, TypeOK, RunOK
    <3>2. Node \notin Must
      BY <2>5, <3>1, PlanInWork DEF LoadHit, AInv
    <3> QED BY <1>5, <2>5, <3>2, AdvancePastNode DEF LoadHit, Terminate
  <2>6. CASE SkipNode
    BY <2>6, AdvancePastNode DEF SkipNode
  <2>7. CASE Headroom
    BY <2>7, NextPlace DEF Headroom, Alone, rowVars
  <2>8. CASE Reserve
    BY <2>8, ReserveSparesHits
  <2>9. CASE NodeReturns
    <3>1. \A h \in Hashes : entry'[h].done = entry[h].done
      BY <2>9, NodeOnEntries DEF AInv
    <3> QED BY <2>9, <3>1, NextPlace DEF NodeReturns, rowVars
  <2>10. CASE Commit
    <3>1. CASE Advance
      <4>1. pc = "commit" /\ at <= Steps /\ Node \in Must /\ job # None
        BY <1>1, <2>10 DEF Commit, AloneInv, AInv, IInv, TypeOK, RunOK
      <4>2. Node \in Hashes
        BY <4>1, PlanInWork DEF AInv
      <4>3. entry'[Node].done /\ \A h \in Hashes : entry[h].done => entry'[h].done
        BY <2>10, <3>1, <4>2, NodeOnEntries DEF AInv
      <4> QED BY <3>1, <4>1, <4>3, AdvancePastNode
    <3>2. CASE ~Advance
      BY <1>5, <2>10, <3>2, NodeOnEntries DEF AInv, Terminate
    <3> QED BY <3>1, <3>2
  <2> QED BY <1>6, <2>1, <2>2, <2>3, <2>4, <2>5, <2>6, <2>7, <2>8, <2>9, <2>10
          DEF WorkerStep
<1>7. CASE NodeWrites
  <2>1. \A h \in Hashes : entry'[h].done = entry[h].done
    BY <1>7, NodeOnEntries DEF AInv
  <2> QED BY <1>7, <2>1, RunUntouched DEF NodeWrites, rowVars
<1>8. CASE CancelledBetweenNodes \/ HeadroomFails \/ Crash
  BY <1>1, <1>5, <1>8, OutsideWork
  DEF CancelledBetweenNodes, HeadroomFails, AloneInv, Crash, AtWork, InRun
<1>9. ASSUME NEW s \in Sweepers, SweepStep(s) \/ SweepFails(s) PROVE AloneInv'
  <2>1. sweep[s].phase # "idle" /\ UNCHANGED runVars
    BY <1>9 DEF SweepStep, SweepTest, EvictBegins, EvictEnds, SweepEnds, SweepFails
  <2>2. pc \notin AtWork
    BY <2>1, QuietAtWork
  <2> QED BY <1>1, <2>1, <2>2, OutsideWork DEF runVars, AloneInv
<1>10. ASSUME NEW s \in Sweepers,
              \/ ApiCleanup(s) \/ MonitorSweep(s) \/ ApiCrash(s)
              \/ \E p \in Projects, keepOutputs, delete \in BOOLEAN :
                   ApiPurge(s, p, keepOutputs, delete)
       PROVE  AloneInv'
  BY <1>10 DEF Alone, ApiCleanup, MonitorSweep, ApiCrash, ApiPurge
<1> QED BY <1>2, <1>3, <1>4, <1>6, <1>7, <1>8, <1>9, <1>10 DEF Next

LEMMA AloneInvariant == Alone => (Spec => []AInv)
<1> SUFFICES ASSUME Alone PROVE Spec => []AInv
  OBVIOUS
<1>1. Init => AInv
  <2>1. Init => AloneInv
    BY DEF Init, AloneInv, AtWork, InRun
  <2>2. Init => Whole /\ NodeOK
    BY IdleTyped DEF Init, Whole, NodeOK, NoEntry
  <2> QED BY <2>1, <2>2, Initially DEF AInv
<1>2. AInv /\ [Next]_vars => AInv'
  <2> SUFFICES ASSUME AInv, [Next]_vars PROVE AInv'
    OBVIOUS
  <2>1. Apart /\ ~CrashTears
    BY ApartAtWork DEF Alone
  <2>2. Whole' /\ NodeOK'
    BY <2>1, WholeStep, NodeOKStep, WholeAtReserve DEF AInv
  <2>3. IInv' /\ AloneInv'
    BY Inductive, AloneInductive DEF AInv
  <2> QED BY <2>2, <2>3 DEF AInv
<1> QED BY <1>1, <1>2, PTL DEF Spec

(* With the worker alone, nothing that the plan of a run took for a hit is *)
(* removed or broken before the run has come to it, whatever is processed  *)
(* anew and wherever the worker dies.                                      *)
THEOREM HitsAlwaysServed == Alone => (Spec => []HitsAreServed)
<1> SUFFICES ASSUME Alone PROVE Spec => []HitsAreServed
  OBVIOUS
<1>1. AInv => HitsAreServed
  <2> SUFFICES ASSUME AInv, pc \in InRun, NEW h \in hits
               PROVE  entry[h].files = "whole"
    BY DEF HitsAreServed
  <2>1. pc \in AtWork /\ h \in Hashes /\ entry[h].done
    BY DEF AInv, AloneInv, AtWork, IInv, TypeOK, RunOK
  <2> QED BY <2>1, QuietAtWork
<1> QED BY AloneInvariant, <1>1, PTL

(* With the worker alone, whatever a node reads is whole for as long as it *)
(* runs: it was a hit or the run has made it, and neither was skipped.     *)
THEOREM InputsAlwaysSurvive == Alone => (Spec => []InputsSurvive)
<1> SUFFICES ASSUME Alone PROVE Spec => []InputsSurvive
  OBVIOUS
<1>1. AInv => InputsSurvive
  <2> SUFFICES ASSUME AInv, pc = "running", NEW h \in Inputs[Node]
               PROVE  entry[h].files = "whole"
    BY DEF InputsSurvive
  <2>1. pc \in InRun /\ job # None /\ at \in Nat \ {0} /\ at <= Steps /\ Node \in Must
    BY DEF InRun, AInv, AloneInv, IInv, TypeOK, RunOK
  <2>2. request[job] \in Requests /\ Steps \in Nat /\ at \in 1 .. Steps
    BY <2>1, JobInWork DEF AInv
  <2>3. h \in hits \cup Must
    BY <2>1, <2>2, PlanIsClosed DEF Must
  <2>4. h # Node
    BY <2>2, PlanFits DEF Node, Steps
  <2>5. \E k \in 1 .. (at - 1) : h = request[job].nodes[k]
    <3>1. DOMAIN request[job].nodes = 1 .. Steps
      BY <2>2, CacheAssumption DEF Steps
    <3> QED BY <2>2, <3>1, CacheAssumption DEF Node
  <2> QED BY <2>1, <2>3, <2>4, <2>5, PastNodesAreThere
<1> QED BY AloneInvariant, <1>1, PTL

(* With the worker alone, a job that completes leaves every output of its  *)
(* template to be read.                                                    *)
THEOREM ResultsAlwaysThere == Alone => (Spec => ResultsAreThere)
<1> SUFFICES ASSUME Alone PROVE Spec => ResultsAreThere
  OBVIOUS
<1> DEFINE Delivered ==
      \A j \in Jobs : status[j] = "running" /\ status'[j] = "completed"
        => \A h \in request[j].results : entry[h].files = "whole"
<1>1. AInv /\ [Next]_vars => [Delivered]_vars
  <2> SUFFICES ASSUME AInv, [Next]_vars, NEW j \in Jobs, status[j] = "running",
                      status'[j] = "completed", NEW h \in request[j].results
               PROVE  entry[h].files = "whole"
    OBVIOUS
  <2>1. status \in [Jobs -> Statuses]
    BY DEF AInv, IInv, TypeOK, RowsOK
  <2>2. \A last, o : TerminateAfter(last, o) => o = "completed" /\ job = j
    BY <2>1 DEF TerminateAfter, EndAfter
  <2>3. Complete
    <3>1. WorkerStep \/ CancelledBetweenNodes
      <4>1. CASE UNCHANGED status
        BY <4>1
      <4>2. ASSUME NEW k \in Jobs, Claim(k) PROVE FALSE
        BY <2>1, <4>2 DEF Claim
      <4>3. ASSUME NEW k \in Jobs, NEW r \in Requests, Submit(k, r) PROVE FALSE
        BY <2>1, <4>3 DEF Submit
      <4>4. NodeWrites \/ Crash => UNCHANGED status
        BY DEF NodeWrites, Crash, rowVars
      <4>7. ~HeadroomFails
        BY DEF HeadroomFails, AInv, AloneInv
      <4>5. ASSUME NEW s \in Sweepers,
                   \/ SweepStep(s) \/ SweepFails(s) \/ ApiCleanup(s) \/ MonitorSweep(s) \/ ApiCrash(s)
                   \/ \E p \in Projects, keepOutputs, delete \in BOOLEAN :
                        ApiPurge(s, p, keepOutputs, delete)
            PROVE  UNCHANGED status
        BY <4>5 DEF SweepStep, SweepTest, EvictBegins, EvictEnds, SweepEnds, SweepFails,
                    ApiCleanup, MonitorSweep, ApiCrash, ApiPurge, StartSweep, rowVars
      <4>6. UNCHANGED vars => UNCHANGED status
        BY DEF vars, rowVars
      <4> QED BY <4>1, <4>2, <4>3, <4>4, <4>5, <4>6, <4>7 DEF Next
    <3>2. ~ Restart
      BY <2>1 DEF Restart
    <3>3. ~ UNCHANGED status
      OBVIOUS
    <3>4. ~ (PreSweep \/ SweepReturns \/ PlanNode \/ PlanMade \/ SkipNode \/ Headroom
             \/ HeadroomFound \/ Reserve \/ NodeReturns \/ Release \/ Join)
      BY <3>3 DEF PreSweep, SweepReturns, PlanNode, PlanMade, SkipNode, Advance, Headroom,
                  HeadroomFound, Reserve, NodeReturns, Release, Join, rowVars
    <3>5. ~ Advance
      BY <3>3 DEF Advance, rowVars
    <3>6. ~ (LoadHit \/ HeadroomLacking \/ ReserveFails \/ NodeRaises \/ Commit
             \/ CancelledBetweenNodes)
      BY <2>2, <3>5 DEF LoadHit, HeadroomLacking, ReserveFails, NodeRaises, Commit,
                        CancelledBetweenNodes, Terminate
    <3> QED BY <3>1, <3>2, <3>4, <3>6 DEF WorkerStep
  <2>4. pc = "executing" /\ at > Steps /\ job = j
    BY <2>2, <2>3 DEF Complete, Terminate
  <2>5. job # None /\ pc \in InRun /\ at \in Nat
    BY <2>4 DEF InRun, AInv, IInv, TypeOK, RunOK
  <2>6. request[job] \in Requests /\ Steps \in Nat
    BY <2>5, JobInWork DEF AInv
  <2>7. h \in hits \cup Must
    BY <2>4, <2>6, PlanIsClosed DEF Must
  <2>8. \E k \in 1 .. (at - 1) : h = request[job].nodes[k]
    <3>1. DOMAIN request[job].nodes = 1 .. Steps
      BY <2>6, CacheAssumption DEF Steps
    <3>2. PICK k \in 1 .. Steps : h = request[job].nodes[k]
      BY <2>4, <2>6, <3>1, CacheAssumption
    <3> QED BY <2>4, <2>5, <2>6, <3>2
  <2> QED BY <2>4, <2>5, <2>7, <2>8, PastNodesAreThere
<1> QED BY AloneInvariant, <1>1, PTL DEF Spec, ResultsAreThere

-----------------------------------------------------------------------------
(* The job's own entries.  The sweeps of the worker, before the job, for   *)
(* headroom and by the monitor, spare what a job has committed.  Two       *)
(* things must come together: the monitor has no sweep under way while the *)
(* run is planned, and from then on whatever the run makes is marked first *)
(* and the job is alive to every sweep that begins.                        *)

(* A sweep of the API that was never begun is not under way.               *)
Begun == \A s \in Api : sweeps[s] = 0 => sweep[s].phase = "idle"

(* The job in work is running; what is committed has its directory and     *)
(* files in it.                                                            *)
RunnerOK == job # None /\ pc \notin {"release", "join"} => status[job] = "running"

FilesOK == \A h \in Hashes : entry[h].done => entry[h].dir /\ entry[h].files # "none"

Base == Begun /\ RunnerOK /\ FilesOK

(* Before the run, nobody sweeps but the main thread.                      *)
BeforeRun == {"down", "idle", "presweep", "sweeping", "planning"}

Calm == pc \in BeforeRun => \A s \in Sweepers \ {"main"} : sweep[s].phase = "idle"

(* What is committed is a hit of the plan, unless the job is forced.       *)
PlanOK ==
  /\ pc \in {"presweep", "sweeping"} => at = 1
  /\ pc = "planning" /\ ~request[job].force =>
       \A i \in 1 .. (at - 1) :
         i <= Steps /\ entry[request[job].nodes[i]].done => request[job].nodes[i] \in hits

(* Inside the run.                                                         *)
SparesOwn(s) ==
  s.phase # "idle" => /\ job \in s.alive
                      /\ s.target \notin Must
                      /\ \A h \in s.todo \cap Must : job \in entry[h].marks

Guarded ==
  /\ \A h \in Must : entry[h].done => job \in entry[h].marks /\ entry[h].files = "whole"
  /\ \A s \in Sweepers : SparesOwn(sweep[s])
  /\ pc # "executing" => at <= Steps /\ Node \in Must
  /\ pc \in {"running", "commit"} => job \in entry[Node].marks
  /\ NodeOK
  /\ OwnEntriesThere

RunOwn == pc \in InRun /\ ~request[job].force => Guarded

OwnInv == Base /\ (WorkerSweepsOnly => Calm /\ PlanOK /\ RunOwn)

LEMMA BegunStep ==
  ASSUME IInv, Begun, [Next]_vars
  PROVE  Begun'
<1>1. /\ sweep \in [Sweepers -> Sweep] /\ sweeps \in [Sweepers -> Nat]
      /\ Api \subseteq Sweepers /\ "main" \notin Api
  BY NamesAssumption DEF IInv, TypeOK, SweepsOK, BoundsOK, Sweepers
<1>2. CASE UNCHANGED <<sweep, sweeps>>
  BY <1>2 DEF Begun
<1>3. CASE PreSweep \/ Headroom \/ HeadroomFails
  <2>1. UNCHANGED sweeps /\ \A s \in Api : sweep'[s] = sweep[s]
    BY <1>1, <1>3 DEF PreSweep, Headroom, HeadroomFails, EndAfter, boundVars
  <2> QED BY <2>1 DEF Begun
<1>4. CASE Crash
  BY <1>1, <1>4, IdleTyped DEF Crash, Begun
<1>5. ASSUME NEW s \in Sweepers, SweepStep(s) PROVE Begun'
  <2>1. /\ UNCHANGED sweeps /\ sweep[s].phase # "idle"
        /\ \A u \in Sweepers : u # s => sweep'[u] = sweep[u]
    BY <1>1, <1>5 DEF SweepStep, SweepTest, EvictBegins, EvictEnds, SweepEnds, boundVars
  <2> QED BY <1>1, <2>1 DEF Begun
<1>6. ASSUME NEW s \in Sweepers, Joins(s) PROVE Begun'
  <2>1. PICK snapshot : StartSweep(s, snapshot)
    BY <1>6 DEF Joins
  <2>2. /\ sweeps'[s] # 0
        /\ \A u \in Sweepers : u # s => sweep'[u] = sweep[u] /\ sweeps'[u] = sweeps[u]
    BY <1>1, <2>1 DEF StartSweep
  <2> QED BY <1>1, <2>2 DEF Begun
<1>7. ASSUME NEW s \in Sweepers, SweepFails(s) \/ ApiCrash(s) PROVE Begun'
  BY <1>1, <1>7, IdleTyped DEF SweepFails, ApiCrash, Begun, boundVars
<1>8. CASE UNCHANGED vars
  BY <1>2, <1>8 DEF vars, boundVars
<1> QED BY <1>2, <1>3, <1>4, <1>5, <1>6, <1>7, <1>8, QuietKeepsSweeps, StepsBySweep

(* The row changes with the run.                                           *)
LEMMA RunnerStep ==
  ASSUME IInv, RunnerOK, [Next]_vars
  PROVE  RunnerOK'
<1>1. /\ status \in [Jobs -> Statuses] /\ job \in Jobs \cup {None}
      /\ None \notin Jobs
      /\ job = None <=> pc \in {"down", "idle"}
  BY NamesAssumption DEF IInv, TypeOK, RowsOK, RunOK
<1>2. ASSUME UNCHANGED <<status, job>>, pc \in {"release", "join"} => pc' \in {"release", "join"}
      PROVE  RunnerOK'
  BY <1>2 DEF RunnerOK
<1>3. ASSUME pc' \in {"release", "join"} \/ job' = None PROVE RunnerOK'
  BY <1>3 DEF RunnerOK
<1>4. ASSUME NEW j \in Jobs, NEW r \in Requests, Submit(j, r) PROVE RunnerOK'
  BY <1>1, <1>4 DEF Submit, runVars, RunnerOK
<1>5. ASSUME NEW j \in Jobs, Claim(j) PROVE RunnerOK'
  BY <1>1, <1>5 DEF Claim, RunnerOK
<1>6. CASE WorksQuietly /\ ~ \E j \in Jobs : Claim(j) \/ \E r \in Requests : Submit(j, r)
  BY <1>1, <1>2, <1>3, <1>6 DEF WorksQuietly, LoadHit, Advance, Terminate, TerminateAfter,
        EndAfter, Commit, Reserve, NodeWrites, NodeReturns, Release, Restart,
        CancelledBetweenNodes, HeadroomLacking, ReserveFails, NodeRaises, Complete,
        SweepReturns, PlanNode, PlanMade, SkipNode, HeadroomFound, Join, rowVars, runVars
<1>7. CASE PreSweep \/ Headroom \/ HeadroomFails \/ Crash
  BY <1>2, <1>3, <1>7 DEF PreSweep, Headroom, HeadroomFails, EndAfter, Crash, rowVars
<1>8. CASE \/ UNCHANGED vars
           \/ \E s \in Sweepers : SweepStep(s) \/ SweepFails(s) \/ Joins(s) \/ ApiCrash(s)
  <2>1. CASE UNCHANGED vars
    BY <1>2, <2>1 DEF vars, rowVars, runVars
  <2>2. ASSUME NEW s \in Sweepers, SweepStep(s) \/ SweepFails(s) \/ Joins(s) \/ ApiCrash(s)
        PROVE  UNCHANGED <<status, pc, job>>
    <3>1. CASE SweepStep(s)
      BY <3>1 DEF SweepStep, SweepTest, EvictBegins, EvictEnds, SweepEnds, rowVars, runVars
    <3>2. CASE SweepFails(s) \/ Joins(s) \/ ApiCrash(s)
      BY <3>2 DEF SweepFails, Joins, StartSweep, ApiCrash, rowVars, runVars
    <3> QED BY <2>2, <3>1, <3>2
  <2> QED BY <1>2, <1>8, <2>1, <2>2
<1> QED BY <1>4, <1>5, <1>6, <1>7, <1>8, StepsBySweep

LEMMA FilesStep ==
  ASSUME IInv, FilesOK, [Next]_vars
  PROVE  FilesOK'
<1>1. ASSUME \A h \in Hashes :
               entry'[h].done => /\ entry[h].done /\ entry'[h].dir = entry[h].dir
                                 /\ entry'[h].files = "none" => entry[h].files = "none"
      PROVE  FilesOK'
  BY <1>1 DEF FilesOK
<1>2. CASE UNCHANGED entry
  BY <1>2 DEF FilesOK
<1>3. ASSUME NEW s \in Sweepers, SweepStep(s) PROVE FilesOK'
  BY <1>1, <1>3, SweepsOnEntries
<1>4. CASE Reserve
  BY <1>1, <1>4, ReserveOnEntries
<1>5. CASE NodeWrites \/ NodeReturns
  BY <1>1, <1>5, NodeOnEntries
<1>6. CASE NodeRaises
  <2>1. ~NoEntry.done
    BY DEF NoEntry
  <2> QED BY <1>1, <1>6, <2>1, NodeOnEntries
<1>7. CASE Commit /\ Advance
  BY <1>7, NodeOnEntries DEF FilesOK
<1>8. CASE Crash
  BY <1>1, <1>8, CrashOnEntries
<1>9. CASE WorksQuietly /\ ~ ((Commit /\ Advance) \/ Reserve \/ NodeWrites \/ NodeReturns
                             \/ NodeRaises)
  BY <1>1, <1>2, <1>9, OthersOnEntries
<1> QED BY <1>2, <1>3, <1>4, <1>5, <1>6, <1>7, <1>8, <1>9, StepsBySweep, BeginsOnEntries

LEMMA BaseStep == IInv /\ Base /\ [Next]_vars => Base'
BY BegunStep, RunnerStep, FilesStep DEF Base

-----------------------------------------------------------------------------
(* No request has swept so far, if none has after the step.                *)
LEMMA NoRequestSweptBefore ==
  ASSUME IInv, [Next]_vars, WorkerSweepsOnly'
  PROVE  WorkerSweepsOnly
<1>1. Api \subseteq Sweepers /\ sweeps \in [Sweepers -> Nat]
  BY DEF IInv, TypeOK, BoundsOK, Sweepers
<1>2. CASE UNCHANGED sweeps
  BY <1>2 DEF WorkerSweepsOnly
<1>3. ASSUME NEW s \in Sweepers, Joins(s) PROVE WorkerSweepsOnly
  <2>1. sweeps' = [sweeps EXCEPT ![s] = @ + 1]
    BY <1>3 DEF Joins, StartSweep
  <2> QED BY <1>1, <2>1 DEF WorkerSweepsOnly
<1>4. CASE PreSweep \/ Headroom \/ HeadroomFails \/ UNCHANGED vars \/ Crash
  BY <1>2, <1>4 DEF PreSweep, Headroom, HeadroomFails, EndAfter, Crash, vars, boundVars
<1>5. ASSUME NEW s \in Sweepers, SweepStep(s) \/ SweepFails(s) \/ ApiCrash(s)
      PROVE  WorkerSweepsOnly
  BY <1>2, <1>5 DEF SweepStep, SweepTest, EvictBegins, EvictEnds, SweepEnds, SweepFails,
                    ApiCrash, boundVars
<1> QED BY <1>2, <1>3, <1>4, <1>5, StepsBySweep, QuietKeepsSweeps

(* Then the only sweep that can begin beside the main thread is one of the *)
(* monitor, inside a run.                                                  *)
LEMMA OnlyTheMonitorJoins ==
  ASSUME IInv, NEW s \in Sweepers, Joins(s), WorkerSweepsOnly'
  PROVE  /\ s \in Monitors
         /\ s # "main"
         /\ SlowPlan \/ pc # "planning"
         /\ pc \notin {"down", "idle", "presweep", "sweeping", "join"}
<1>1. sweeps \in [Sweepers -> Nat] /\ sweeps' = [sweeps EXCEPT ![s] = @ + 1]
  BY DEF IInv, TypeOK, BoundsOK, Joins, StartSweep
<1>2. sweeps'[s] # 0
  BY <1>1
<1>3. s \notin Api
  BY <1>2 DEF WorkerSweepsOnly
<1> QED BY <1>3, NamesAssumption DEF Joins

LEMMA CalmStep ==
  ASSUME ~SlowSweep, ~SlowPlan, IInv, Begun, Calm, WorkerSweepsOnly', [Next]_vars
  PROVE  Calm'
<1>1. /\ sweep \in [Sweepers -> Sweep]
      /\ Sweepers = {"main"} \cup Monitors \cup Api /\ "main" \notin Api
  BY NamesAssumption DEF IInv, TypeOK, SweepsOK, Sweepers
<1>2. WorkerSweepsOnly
  BY NoRequestSweptBefore
<1>3. \A s \in Api : sweep[s].phase = "idle"
  BY <1>2 DEF Begun, WorkerSweepsOnly
<1>4. ASSUME pc' \in BeforeRun => pc \in BeforeRun,
             \A s \in Sweepers \ {"main"} : sweep'[s] = sweep[s] \/ sweep'[s] = Idle
      PROVE  Calm'
  BY <1>4, IdleTyped DEF Calm
<1>5. CASE Join
  BY <1>1, <1>3, <1>5 DEF Join, Calm
<1>6. CASE WorksQuietly /\ ~Join
  <2>1. UNCHANGED sweep
    BY <1>6, QuietKeepsSweeps
  <2>2. pc' \in BeforeRun => pc \in BeforeRun
    BY <1>6 DEF WorksQuietly, Claim, Submit, LoadHit, Advance, Terminate, TerminateAfter,
                EndAfter, Commit, Reserve, NodeWrites, NodeReturns, Release, Restart,
                CancelledBetweenNodes, HeadroomLacking, ReserveFails, NodeRaises, Complete,
                SweepReturns, PlanNode, PlanMade, SkipNode, HeadroomFound, BeforeRun, runVars
  <2> QED BY <1>4, <2>1, <2>2
<1>7. CASE PreSweep \/ Headroom \/ HeadroomFails
  <2>1. \A s \in Sweepers \ {"main"} : sweep'[s] = sweep[s]
    BY <1>1, <1>7 DEF PreSweep, Headroom, HeadroomFails
  <2>2. pc' \in BeforeRun => pc \in BeforeRun
    BY <1>7 DEF PreSweep, Headroom, HeadroomFails, EndAfter, BeforeRun
  <2> QED BY <1>4, <2>1, <2>2
<1>8. CASE Crash
  BY <1>1, <1>3, <1>8, IdleTyped DEF Crash, Calm
<1>9. ASSUME NEW s \in Sweepers, SweepStep(s) PROVE Calm'
  <2>1. /\ UNCHANGED pc /\ sweep[s].phase # "idle"
        /\ \A u \in Sweepers : u # s => sweep'[u] = sweep[u]
    BY <1>1, <1>9 DEF SweepStep, SweepTest, EvictBegins, EvictEnds, SweepEnds, runVars
  <2> QED BY <2>1 DEF Calm
<1>10. ASSUME NEW s \in Sweepers, Joins(s) PROVE Calm'
  <2>1. pc \notin BeforeRun
    BY <1>10, OnlyTheMonitorJoins DEF BeforeRun
  <2>2. UNCHANGED pc
    BY <1>10 DEF Joins, StartSweep, runVars
  <2> QED BY <2>1, <2>2 DEF Calm
<1>11. CASE UNCHANGED vars \/ \E s \in Sweepers : SweepFails(s) \/ ApiCrash(s)
  <2>1. UNCHANGED pc /\ \A s \in Sweepers : sweep'[s] = sweep[s] \/ sweep'[s] = Idle
    BY <1>1, <1>11 DEF vars, runVars, SweepFails, ApiCrash
  <2> QED BY <1>4, <2>1
<1> QED BY <1>5, <1>6, <1>7, <1>8, <1>9, <1>10, <1>11, StepsBySweep

(* While the run is planned nothing is swept and nothing made: what was    *)
(* found stays, what was missed stays missing.                             *)
LEMMA PlanOKStep ==
  ASSUME IInv, Calm, PlanOK, WorkerSweepsOnly', [Next]_vars
  PROVE  PlanOK'
<1>1. /\ status \in [Jobs -> Statuses] /\ at \in Nat \ {0} /\ "main" \in Sweepers
      /\ None \notin Jobs
      /\ job \in Jobs \cup {None} /\ (job = None <=> pc \in {"down", "idle"})
  BY NamesAssumption DEF IInv, TypeOK, RowsOK, RunOK, Sweepers
<1>2. CASE pc' \notin {"presweep", "sweeping", "planning"}
  BY <1>2 DEF PlanOK
<1>3. ASSUME UNCHANGED <<entry, pc, job, at, hits>>, job # None => request'[job] = request[job]
      PROVE  PlanOK'
  <2>1. CASE pc = "planning"
    BY <1>1, <1>3, <2>1 DEF PlanOK, Steps
  <2>2. CASE pc # "planning"
    BY <1>3, <2>2 DEF PlanOK
  <2> QED BY <2>1, <2>2
<1>4. CASE PreSweep
  BY <1>4 DEF PreSweep, PlanOK
<1>5. CASE SweepReturns
  <2>1. pc' = "planning" /\ at' = 1
    BY <1>5 DEF SweepReturns, PlanOK
  <2> QED BY <2>1 DEF PlanOK
<1>6. CASE PlanNode
  <2>1. /\ pc = "planning" /\ pc' = "planning" /\ at <= Steps /\ at' = at + 1
        /\ UNCHANGED <<entry, request, job>>
        /\ hits' = IF IsHit(Node) THEN hits \cup {Node} ELSE hits
    BY <1>6 DEF PlanNode, rowVars
  <2>2. ASSUME ~request[job].force, NEW i \in 1 .. at, i <= Steps,
               entry[request[job].nodes[i]].done
        PROVE  request[job].nodes[i] \in hits'
    <3>1. CASE i = at
      BY <2>1, <2>2, <3>1 DEF IsHit, Node
    <3>2. CASE i # at
      <4>1. i \in 1 .. (at - 1)
        BY <1>1, <3>2
      <4>2. request[job].nodes[i] \in hits
        BY <2>1, <2>2, <4>1 DEF PlanOK
      <4> QED BY <2>1, <4>2
    <3> QED BY <3>1, <3>2
  <2>3. at' - 1 = at
    BY <1>1, <2>1
  <2> QED BY <2>1, <2>2, <2>3 DEF PlanOK, Steps
<1>7. ASSUME NEW j \in Jobs, NEW r \in Requests, Submit(j, r) PROVE PlanOK'
  <2>1. UNCHANGED <<entry, pc, job, at, hits>> /\ status[j] = "absent"
    BY <1>7 DEF Submit, runVars
  <2>2. job # None => job # j
    BY <2>1 DEF IInv, Working
  <2>3. job # None => request'[job] = request[job]
    BY <1>1, <1>7, <2>2 DEF Submit, IInv, TypeOK, RowsOK
  <2> QED BY <1>3, <2>1, <2>3
<1>8. ASSUME NEW j \in Jobs, Claim(j) PROVE PlanOK'
  BY <1>8 DEF Claim, PlanOK
<1>9. ASSUME NEW s \in Sweepers, SweepStep(s) PROVE PlanOK'
  <2>1. UNCHANGED <<pc, job, at, hits, request>> /\ sweep[s].phase # "idle"
    BY <1>9 DEF SweepStep, SweepTest, EvictBegins, EvictEnds, SweepEnds, runVars, rowVars
  <2>2. pc # "planning"
    BY <2>1 DEF Calm, BeforeRun, IInv, Sweeping
  <2> QED BY <2>1, <2>2 DEF PlanOK
<1>10. CASE UNCHANGED vars \/ \E s \in Sweepers : SweepFails(s) \/ Joins(s) \/ ApiCrash(s)
  <2>1. UNCHANGED <<entry, request, pc, job, at, hits>>
    BY <1>10 DEF vars, rowVars, runVars, SweepFails, Joins, StartSweep, ApiCrash
  <2> QED BY <1>3, <2>1
<1>11. CASE WorksQuietly /\ ~SweepReturns /\ ~PlanNode
            /\ ~ (\E j \in Jobs : Claim(j) \/ \E r \in Requests : Submit(j, r))
  BY <1>2, <1>11 DEF WorksQuietly, LoadHit, Advance, Terminate, TerminateAfter, EndAfter,
                Commit, Reserve, NodeWrites, NodeReturns, Release, Restart,
                CancelledBetweenNodes, HeadroomLacking, ReserveFails, NodeRaises, Complete,
                PlanMade, SkipNode, HeadroomFound, Join, runVars
<1>12. CASE Headroom \/ HeadroomFails \/ Crash
  BY <1>2, <1>12 DEF Headroom, HeadroomFails, EndAfter, Crash
<1> QED BY <1>4, <1>5, <1>6, <1>7, <1>8, <1>9, <1>10, <1>11, <1>12, StepsBySweep

-----------------------------------------------------------------------------
(* Inside the run the plan stands.                                         *)
LEMMA PlanStands ==
  ASSUME IInv, [Next]_vars, pc \in InRun, pc' \in InRun
  PROVE  /\ job \in Jobs /\ request[job] \in Requests /\ Must \subseteq Hashes
         /\ UNCHANGED <<job, hits, Must, Steps>> /\ request'[job] = request[job]
         /\ at' = at => Node' = Node
<1>1. /\ job # None /\ request \in [Jobs -> Requests \cup {None}]
  BY DEF IInv, TypeOK, RowsOK, RunOK, InRun
<1>2. job \in Jobs /\ request[job] \in Requests /\ Must \subseteq Hashes
  BY <1>1, JobInWork, PlanInWork
<1>3. /\ UNCHANGED <<job, hits>> /\ request'[job] = request[job]
  <2>1. ASSUME NEW j \in Jobs, NEW r \in Requests, Submit(j, r)
        PROVE  UNCHANGED <<job, hits>> /\ request'[job] = request[job]
    <3>1. job # j
      BY <1>1, <2>1 DEF Submit, IInv, Working
    <3> QED BY <1>1, <2>1, <3>1 DEF Submit, runVars
  <2>2. ASSUME NEW j \in Jobs, Claim(j) PROVE FALSE
    BY <2>2 DEF Claim, InRun
  <2>3. CASE WorksQuietly /\ ~ (\E j \in Jobs : Claim(j) \/ \E r \in Requests : Submit(j, r))
    BY <2>3 DEF WorksQuietly, LoadHit, Advance, Terminate, TerminateAfter, EndAfter, Commit, Reserve,
                NodeWrites, NodeReturns, Release, Restart, CancelledBetweenNodes,
                HeadroomLacking, ReserveFails, NodeRaises, Complete, SweepReturns, PlanNode,
                PlanMade, SkipNode, HeadroomFound, Join, InRun, rowVars, runVars
  <2>4. CASE PreSweep \/ Headroom \/ HeadroomFails \/ Crash
    BY <2>4 DEF PreSweep, Headroom, HeadroomFails, EndAfter, Crash, InRun, rowVars
  <2>5. ASSUME NEW s \in Sweepers, SweepStep(s)
        PROVE  UNCHANGED <<job, hits>> /\ request'[job] = request[job]
    BY <2>5 DEF SweepStep, SweepTest, EvictBegins, EvictEnds, SweepEnds, rowVars, runVars
  <2>6. CASE UNCHANGED vars \/ \E s \in Sweepers : SweepFails(s) \/ Joins(s) \/ ApiCrash(s)
    BY <2>6 DEF vars, rowVars, runVars, SweepFails, Joins, StartSweep, ApiCrash
  <2> QED BY <2>1, <2>2, <2>3, <2>4, <2>5, <2>6, StepsBySweep
<1>4. UNCHANGED <<Must, Steps>> /\ (at' = at => Node' = Node)
  BY <1>3 DEF Must, Steps, Node
<1> QED BY <1>2, <1>3, <1>4

(* A sweep under way goes on sparing the job while its marks stay.         *)
LEMMA SparedStays ==
  ASSUME NEW s \in Sweepers, SparesOwn(sweep[s]), UNCHANGED <<job, Must>>,
         sweep'[s] = sweep[s] \/ sweep'[s] = Idle,
         \A h \in Must : job \in entry[h].marks => job \in entry'[h].marks
  PROVE  SparesOwn(sweep[s])'
BY IdleTyped DEF SparesOwn

(* A sweep that begins finds the job at work and its entries marked.       *)
LEMMA SnapshotSpares ==
  ASSUME IInv, Base, Guarded, pc \in InRun, NEW candidates \in SUBSET Committed,
         NEW excess, NEW doomed, NEW s \in Sweepers,
         UNCHANGED <<entry, job, Must>>, sweep'[s] = Snapshot(candidates, excess, doomed)
  PROVE  SparesOwn(sweep[s])'
<1> DEFINE z == Snapshot(candidates, excess, doomed)
<1>1. z.alive = Alive /\ z.todo = candidates /\ z.target = None
  BY DEF Snapshot, Idle
<1>2. job \in Alive
  BY DEF Base, RunnerOK, Alive, IInv, TypeOK, RunOK, InRun
<1>3. None \notin Must
  BY NamesAssumption, PlanInWork DEF IInv, TypeOK, RunOK, InRun
<1>4. \A h \in candidates \cap Must : job \in entry[h].marks
  BY DEF Guarded, Committed
<1> HIDE DEF z
<1>5. sweep'[s] = z
  BY DEF z
<1> QED BY <1>1, <1>2, <1>3, <1>4, <1>5 DEF SparesOwn

(* The node stays, or is come to.                                          *)
LEMMA GuardedStays ==
  ASSUME Guarded, UNCHANGED <<job, hits, at, Must, Steps, Node>>, request'[job] = request[job],
         \A h \in Must :
           /\ entry'[h].done => job \in entry'[h].marks /\ entry'[h].files = "whole"
           /\ entry[h].done => entry'[h].done,
         pc' # "executing" => at <= Steps /\ Node \in Must,
         pc' \in {"running", "commit"} => job \in entry'[Node].marks,
         NodeOK',
         \A s \in Sweepers : SparesOwn(sweep[s])'
  PROVE  Guarded'
<1>1. OwnEntriesThere'
  BY DEF Guarded, OwnEntriesThere
<1> QED BY <1>1 DEF Guarded

(* The node is left behind, committed if it had to run.                    *)
LEMMA GuardedAdvances ==
  ASSUME IInv, Guarded, pc \in InRun, Advance, UNCHANGED <<Must, Steps>>,
         \A h \in Must :
           /\ job \in entry[h].marks => job \in entry'[h].marks
           /\ entry'[h].done => job \in entry'[h].marks /\ entry'[h].files = "whole"
           /\ entry[h].done => entry'[h].done,
         Node \in Must => entry'[Node].done
  PROVE  Guarded'
<1>1. /\ pc' = "executing" /\ at' = at + 1 /\ UNCHANGED <<request, job, hits, sweep>>
      /\ at \in Nat \ {0}
  BY DEF Advance, rowVars, IInv, TypeOK, RunOK
<1>2. OwnEntriesThere'
  <2>1. ASSUME NEW k \in 1 .. (at' - 1), request[job].nodes[k] \in Must
        PROVE  entry'[request[job].nodes[k]].done /\ entry'[request[job].nodes[k]].files = "whole"
    <3>1. k \in 1 .. (at - 1) \/ k = at
      BY <1>1
    <3>2. CASE k = at
      BY <2>1, <3>2 DEF Node
    <3>3. CASE k \in 1 .. (at - 1)
      BY <2>1, <3>3 DEF Guarded, OwnEntriesThere
    <3> QED BY <3>1, <3>2, <3>3
  <2> QED BY <1>1, <2>1 DEF OwnEntriesThere
<1>3. \A s \in Sweepers : SparesOwn(sweep[s])'
  BY <1>1, SparedStays DEF Guarded
<1> QED BY <1>1, <1>2, <1>3 DEF Guarded, NodeOK

(* The plan is made: what must run is nowhere, and nobody sweeps.          *)
LEMMA GuardedFromPlan ==
  ASSUME IInv, Calm, PlanOK, PlanMade, ~request[job].force
  PROVE  Guarded'
<1>1. /\ pc = "planning" /\ at > Steps /\ pc' = "executing" /\ at' = 1
      /\ UNCHANGED <<entry, request, job, hits, sweep>>
      /\ job # None /\ at \in Nat
  BY DEF PlanMade, rowVars, IInv, TypeOK, RunOK
<1>2. Must' = Must /\ Must \subseteq Hashes /\ Must \cap hits = {}
  BY <1>1, PlanInWork DEF Must
<1>3. \A s \in Sweepers : sweep[s].phase = "idle"
  BY <1>1 DEF Calm, BeforeRun, IInv, Sweeping
<1>4. ASSUME NEW h \in Must, entry[h].done PROVE FALSE
  <2>1. request[job] \in Requests /\ Steps \in Nat
    BY <1>1, JobInWork
  <2>2. PICK i \in 1 .. Steps : h = request[job].nodes[i]
    BY <2>1, PlanFits DEF Must, Steps
  <2>3. i \in 1 .. (at - 1) /\ i <= Steps
    BY <1>1, <2>1, <2>2
  <2>4. h \in hits
    BY <1>1, <1>4, <2>2, <2>3 DEF PlanOK
  <2> QED BY <1>2, <2>4
<1>5. OwnEntriesThere'
  BY <1>1 DEF OwnEntriesThere
<1> QED BY <1>1, <1>2, <1>3, <1>4, <1>5 DEF Guarded, NodeOK, SparesOwn

(* No sweep has chosen the entry of the node in work.                      *)
LEMMA GuardedApart ==
  ASSUME IInv, Guarded, pc \in InRun
  PROVE  /\ Apart
         /\ pc = "reserve" /\ entry[Node].done => entry[Node].files = "whole"
<1>1. Must \subseteq Hashes
  BY PlanInWork DEF IInv, TypeOK, RunOK, InRun
<1>2. \A s \in Sweepers : sweep[s].phase # "idle" \/ sweep[s].target = None
  BY DEF IInv, TypeOK, SweepsOK
<1> QED BY <1>1, <1>2, NamesAssumption DEF Apart, Guarded, SparesOwn

(* The sweeps of the run spare what it made.                               *)
LEMMA GuardedAmongSweeps ==
  ASSUME IInv, Base, Guarded, pc \in InRun, NEW s \in Sweepers, SweepStep(s),
         sweep[s].phase # "idle",
         UNCHANGED <<job, hits, at, pc, Must, Steps, Node>>, request'[job] = request[job],
         NodeOK'
  PROVE  Guarded'
<1>1. /\ sweep \in [Sweepers -> Sweep] /\ EntriesOK
      /\ sweep[s].target # None <=> sweep[s].phase \in {"evict", "torn"}
      /\ Must \subseteq Hashes /\ None \notin Hashes
  BY PlanInWork, NamesAssumption DEF IInv, TypeOK, SweepsOK, RunOK, InRun
<1>2. /\ job \in sweep[s].alive /\ sweep[s].target \notin Must
      /\ \A h \in sweep[s].todo \cap Must : job \in entry[h].marks
  BY DEF Guarded, SparesOwn
<1>3. ASSUME NEW h \in Must
      PROVE  /\ job \in entry[h].marks => job \in entry'[h].marks
             /\ entry'[h].done = entry[h].done /\ entry'[h].files = entry[h].files
  BY <1>1, <1>2, SweepsOnEntries
<1>4. \A h \in Must : /\ entry[h].done => entry'[h].done
                      /\ entry'[h].done => job \in entry'[h].marks /\ entry'[h].files = "whole"
  BY <1>3 DEF Guarded
<1>5. ASSUME NEW u \in Sweepers PROVE SparesOwn(sweep[u])'
  <2> DEFINE x == sweep[s]
  <2>1. CASE u # s
    <3>1. sweep'[u] = sweep[u]
      BY <1>1, <2>1 DEF SweepStep, SweepTest, EvictBegins, EvictEnds, SweepEnds
    <3> QED BY <1>3, <3>1, SparedStays DEF Guarded
  <2>2. ASSUME NEW h \in Hashes, SweepTest(s, h) PROVE SparesOwn(sweep[s])'
    <3> DEFINE live == entry[h].marks \cap x.alive
    <3>1. h \in x.todo
      BY <2>2 DEF SweepTest, EvictFirst
    <3>2. CASE live # {}
      <4>1. sweep' = [sweep EXCEPT ![s].todo = @ \ {h}]
        BY <2>2, <3>2 DEF SweepTest
      <4>2. /\ sweep'[s].todo = x.todo \ {h} /\ sweep'[s].alive = x.alive
            /\ sweep'[s].target = x.target
        BY <1>1, <4>1 DEF Sweep
      <4> QED BY <1>2, <1>3, <4>2 DEF SparesOwn
    <3>3. CASE live = {}
      <4>1. sweep' = [sweep EXCEPT ![s].todo = @ \ {h}, ![s].phase = "evict", ![s].target = h]
        BY <2>2, <3>3 DEF SweepTest
      <4>2. /\ sweep'[s].todo = x.todo \ {h} /\ sweep'[s].alive = x.alive
            /\ sweep'[s].target = h
        BY <1>1, <4>1 DEF Sweep
      <4>3. h \notin Must
        BY <1>2, <3>1, <3>3
      <4> QED BY <1>2, <1>3, <4>2, <4>3 DEF SparesOwn
    <3> QED BY <3>2, <3>3
  <2>3. ASSUME EvictBegins(s) PROVE SparesOwn(sweep[s])'
    <3>1. /\ sweep'[s].todo = x.todo /\ sweep'[s].alive = x.alive
          /\ sweep'[s].target \in {x.target, None}
      <4>1. CASE ~entry[x.target].dir
        BY <1>1, <2>3, <4>1 DEF EvictBegins, Sweep
      <4>2. CASE entry[x.target].dir
        BY <1>1, <2>3, <4>2 DEF EvictBegins, Sweep
      <4> QED BY <4>1, <4>2
    <3> QED BY <1>1, <1>2, <1>3, <3>1 DEF SparesOwn
  <2>4. ASSUME EvictEnds(s) PROVE SparesOwn(sweep[s])'
    <3>1. /\ sweep'[s].todo = x.todo /\ sweep'[s].alive = x.alive
          /\ sweep'[s].target = None
      BY <1>1, <2>4 DEF EvictEnds, Sweep
    <3> QED BY <1>1, <1>2, <1>3, <3>1 DEF SparesOwn
  <2>5. ASSUME SweepEnds(s) PROVE SparesOwn(sweep[s])'
    BY <1>1, <2>5, IdleTyped DEF SweepEnds, SparesOwn
  <2> QED BY <2>1, <2>2, <2>3, <2>4, <2>5 DEF SweepStep
<1>6. /\ pc # "executing" => at <= Steps /\ Node \in Must
      /\ pc \in {"running", "commit"} => job \in entry'[Node].marks
  BY <1>3 DEF Guarded, InRun
<1> QED BY <1>4, <1>5, <1>6, GuardedStays

(* The node that runs is marked before it can be committed.                *)
LEMMA GuardedAtNode ==
  ASSUME IInv, Base, Guarded, pc \in InRun, ~request[job].force,
         Reserve \/ NodeWrites \/ NodeReturns \/ (Commit /\ Advance),
         UNCHANGED <<job, hits, Must, Steps>>, request'[job] = request[job],
         at' = at => Node' = Node, NodeOK'
  PROVE  Guarded'
<1>1. /\ Must \subseteq Hashes /\ EntriesOK
  BY PlanInWork DEF IInv, TypeOK, RunOK, InRun
<1>2. CASE Reserve
  <2>1. pc = "reserve" /\ pc' = "running" /\ UNCHANGED <<at, sweep>>
    BY <1>2 DEF Reserve
  <2>2. Node \in Must /\ at <= Steps
    BY <2>1 DEF Guarded
  <2>3. job \in entry'[Node].marks
    BY <1>1, <1>2, <2>2, ReserveOnEntries DEF Base, FilesOK
  <2>4. ASSUME NEW h \in Must
        PROVE  /\ job \in entry[h].marks => job \in entry'[h].marks
               /\ entry'[h].done => entry[h].done /\ entry'[h].files = entry[h].files
               /\ entry[h].done => entry'[h].done
    BY <1>1, <1>2, <2>3, ReserveOnEntries
  <2>5. \A h \in Must : entry'[h].done => job \in entry'[h].marks /\ entry'[h].files = "whole"
    BY <2>4 DEF Guarded
  <2>6. \A u \in Sweepers : SparesOwn(sweep[u])'
    BY <2>1, <2>4, SparedStays DEF Guarded
  <2> QED BY <2>1, <2>2, <2>3, <2>4, <2>5, <2>6, GuardedStays
<1>3. CASE NodeWrites \/ NodeReturns
  <2>1. pc = "running" /\ pc' \in {"running", "commit"} /\ UNCHANGED <<at, sweep>>
    BY <1>3 DEF NodeWrites, NodeReturns, runVars
  <2>2. Node \in Must /\ at <= Steps /\ job \in entry[Node].marks
    BY <2>1 DEF Guarded
  <2>3. \A h \in Must : /\ entry'[h].marks = entry[h].marks /\ entry'[h].done = entry[h].done
                        /\ entry[h].files = "whole" => entry'[h].files = "whole"
    BY <1>1, <1>3, NodeOnEntries
  <2>4. \A h \in Must : entry'[h].done => job \in entry'[h].marks /\ entry'[h].files = "whole"
    BY <2>3 DEF Guarded
  <2>5. \A u \in Sweepers : SparesOwn(sweep[u])'
    BY <2>1, <2>3, SparedStays DEF Guarded
  <2> QED BY <2>1, <2>2, <2>3, <2>4, <2>5, GuardedStays
<1>4. CASE Commit /\ Advance
  <2>1. /\ pc = "commit"
        /\ \A h \in Hashes : /\ entry'[h].marks = entry[h].marks
                             /\ entry'[h].files = entry[h].files
                             /\ h # Node => entry'[h] = entry[h]
                             /\ h = Node => entry'[h].done
    BY <1>4, NodeOnEntries DEF Commit
  <2>2. Node \in Must /\ job \in entry[Node].marks /\ entry[Node].files = "whole"
    BY <2>1 DEF Guarded, NodeOK
  <2>3. ASSUME NEW h \in Must
        PROVE  /\ job \in entry[h].marks => job \in entry'[h].marks
               /\ entry'[h].done => job \in entry'[h].marks /\ entry'[h].files = "whole"
               /\ entry[h].done => entry'[h].done
    <3>1. CASE h = Node
      BY <1>1, <2>1, <2>2, <3>1
    <3>2. CASE h # Node
      BY <1>1, <2>1, <3>2 DEF Guarded
    <3> QED BY <3>1, <3>2
  <2> QED BY <1>1, <1>4, <2>1, <2>2, <2>3, GuardedAdvances
<1> QED BY <1>2, <1>3, <1>4

LEMMA RunOwnStep ==
  ASSUME IInv, OwnInv, WorkerSweepsOnly, WorkerSweepsOnly', [Next]_vars
  PROVE  RunOwn'
<1>1. Base /\ Calm /\ PlanOK /\ RunOwn
  BY DEF OwnInv
<1> SUFFICES ASSUME pc' \in InRun, ~request'[job'].force PROVE Guarded'
  BY DEF RunOwn
<1>2. CASE pc \notin InRun
  <2>1. PlanMade
    <3>1. CASE WorksQuietly
      BY <1>2, <3>1 DEF WorksQuietly, Claim, Submit, LoadHit, Advance, Terminate,
                TerminateAfter, EndAfter, Commit, Reserve, NodeWrites, NodeReturns, Release,
                Restart, CancelledBetweenNodes, HeadroomLacking, ReserveFails, NodeRaises,
                Complete, SweepReturns, PlanNode, SkipNode, HeadroomFound, Join, InRun, runVars
    <3>2. CASE PreSweep \/ Headroom \/ HeadroomFails \/ Crash
      BY <1>2, <3>2 DEF PreSweep, Headroom, HeadroomFails, EndAfter, Crash, InRun
    <3>3. CASE \/ UNCHANGED vars
               \/ \E s \in Sweepers : SweepStep(s) \/ SweepFails(s) \/ Joins(s) \/ ApiCrash(s)
      <4>1. CASE UNCHANGED vars
        BY <1>2, <4>1 DEF vars, runVars
      <4>2. ASSUME NEW s \in Sweepers, SweepStep(s) \/ SweepFails(s) \/ Joins(s) \/ ApiCrash(s)
            PROVE  UNCHANGED pc
        <5>1. CASE SweepStep(s)
          BY <5>1 DEF SweepStep, SweepTest, EvictBegins, EvictEnds, SweepEnds, runVars
        <5>2. CASE SweepFails(s) \/ Joins(s) \/ ApiCrash(s)
          BY <5>2 DEF SweepFails, Joins, StartSweep, ApiCrash, runVars
        <5> QED BY <4>2, <5>1, <5>2
      <4> QED BY <1>2, <3>3, <4>1, <4>2
    <3> QED BY <3>1, <3>2, <3>3, StepsBySweep
  <2>2. UNCHANGED <<request, job>>
    BY <2>1 DEF PlanMade, rowVars
  <2> QED BY <1>1, <2>1, <2>2, GuardedFromPlan
<1>3. CASE pc \in InRun
  <2>1. /\ job \in Jobs /\ request[job] \in Requests /\ Must \subseteq Hashes
        /\ UNCHANGED <<job, hits, Must, Steps>> /\ request'[job] = request[job]
        /\ at' = at => Node' = Node
    BY <1>3, PlanStands
  <2>2. Guarded /\ ~request[job].force
    BY <1>1, <1>3, <2>1 DEF RunOwn
  <2>0. NodeOK'
    BY <1>3, <2>2, GuardedApart, NodeOKStep DEF Guarded
  <2>3. ASSUME UNCHANGED <<entry, at>>,
               \A s \in Sweepers : sweep'[s] = sweep[s] \/ sweep'[s] = Idle,
               pc' = pc \/ pc' = "executing" \/ (pc' = "reserve" /\ at <= Steps /\ Node \in Must)
        PROVE  Guarded'
    <3>1. \A s \in Sweepers : SparesOwn(sweep[s])'
      BY <2>1, <2>2, <2>3, SparedStays DEF Guarded
    <3>2. /\ pc' # "executing" => at <= Steps /\ Node \in Must
          /\ pc' \in {"running", "commit"} => job \in entry'[Node].marks
          /\ \A h \in Must : entry'[h].done => job \in entry'[h].marks /\ entry'[h].files = "whole"
      BY <2>2, <2>3 DEF Guarded
    <3> QED BY <2>0, <2>1, <2>2, <2>3, <3>1, <3>2, GuardedStays
  <2>4. /\ sweep \in [Sweepers -> Sweep] /\ "main" \in Sweepers
    BY DEF IInv, TypeOK, SweepsOK, Sweepers
  <2>5. CASE Reserve \/ NodeWrites \/ NodeReturns \/ (Commit /\ Advance)
    BY <1>1, <1>3, <2>0, <2>1, <2>2, <2>5, GuardedAtNode
  <2>6. CASE (LoadHit \/ SkipNode) /\ Advance
    <3>1. UNCHANGED entry /\ Node \notin Must
      <4>1. Must \cap hits = {}
        BY <2>1, PlanInWork, NamesAssumption
      <4> QED BY <2>6, <4>1 DEF LoadHit, SkipNode
    <3> QED BY <1>3, <2>1, <2>2, <2>6, <3>1, GuardedAdvances DEF Guarded
  <2>7. CASE Headroom
    <3>1. /\ UNCHANGED <<entry, at>> /\ at <= Steps /\ Node \in Must
          /\ pc' \in {"headroom", "reserve"}
      BY <2>7 DEF Headroom
    <3>2. ASSUME NEW s \in Sweepers PROVE SparesOwn(sweep[s])'
      <4>1. CASE sweep'[s] = sweep[s] \/ sweep'[s] = Idle
        BY <2>1, <2>2, <3>1, <4>1, SparedStays DEF Guarded
      <4>2. ASSUME NEW excess, sweep'[s] = Snapshot(Committed, excess, None)
            PROVE  SparesOwn(sweep[s])'
        BY <1>1, <1>3, <2>1, <2>2, <3>1, <4>2, SnapshotSpares
      <4> QED BY <2>4, <2>7, <4>1, <4>2 DEF Headroom
    <3>3. \A h \in Must : entry'[h].done => job \in entry'[h].marks /\ entry'[h].files = "whole"
      BY <2>2, <3>1 DEF Guarded
    <3> QED BY <2>0, <2>1, <2>2, <3>1, <3>2, <3>3, GuardedStays
  <2>8. CASE HeadroomFound
    <3>1. pc = "headroom" /\ pc' = "reserve" /\ UNCHANGED <<entry, at, sweep>>
      BY <2>8 DEF HeadroomFound
    <3> QED BY <2>2, <2>3, <3>1 DEF Guarded
  <2>9. CASE UNCHANGED vars \/ \E j \in Jobs, r \in Requests : Submit(j, r)
    BY <2>3, <2>9 DEF vars, Submit, runVars
  <2>10. ASSUME NEW s \in Sweepers, SweepStep(s) PROVE Guarded'
    <3>1. UNCHANGED <<pc, at>> /\ sweep[s].phase # "idle"
      BY <2>10 DEF SweepStep, SweepTest, EvictBegins, EvictEnds, SweepEnds, runVars
    <3> QED BY <1>1, <1>3, <2>0, <2>1, <2>2, <2>10, <3>1, GuardedAmongSweeps
  <2>11. ASSUME NEW s \in Sweepers, Joins(s) PROVE Guarded'
    <3>1. PICK candidates \in SUBSET Committed, excess \in Nat, doomed \in Projects \cup {None} :
            StartSweep(s, Snapshot(candidates, excess, doomed))
      BY <2>11 DEF Joins
    <3>2. /\ UNCHANGED <<entry, pc, at>> /\ sweep'[s] = Snapshot(candidates, excess, doomed)
          /\ \A u \in Sweepers : u # s => sweep'[u] = sweep[u]
      BY <2>4, <3>1 DEF StartSweep, runVars
    <3>3. ASSUME NEW u \in Sweepers PROVE SparesOwn(sweep[u])'
      <4>1. CASE u = s
        BY <1>1, <1>3, <2>1, <2>2, <3>2, <4>1, SnapshotSpares
      <4>2. CASE u # s
        BY <2>1, <2>2, <3>2, <4>2, SparedStays DEF Guarded
      <4> QED BY <4>1, <4>2
    <3>4. /\ pc # "executing" => at <= Steps /\ Node \in Must
          /\ pc \in {"running", "commit"} => job \in entry'[Node].marks
          /\ \A h \in Must : entry'[h].done => job \in entry'[h].marks /\ entry'[h].files = "whole"
      BY <2>2, <3>2 DEF Guarded
    <3> QED BY <2>0, <2>1, <2>2, <3>2, <3>3, <3>4, GuardedStays
  <2>12. ASSUME NEW s \in Sweepers, SweepFails(s) \/ ApiCrash(s) PROVE Guarded'
    <3>1. /\ UNCHANGED <<entry, pc, at>>
          /\ \A u \in Sweepers : sweep'[u] = sweep[u] \/ sweep'[u] = Idle
      BY <2>4, <2>12 DEF SweepFails, ApiCrash, runVars
    <3> QED BY <2>3, <3>1
  <2>13. CASE Crash \/ PreSweep \/ HeadroomFails
    BY <1>3, <2>13 DEF Crash, PreSweep, HeadroomFails, EndAfter, InRun
  <2>14. CASE \/ \E j \in Jobs : Claim(j)
              \/ (LoadHit \/ SkipNode \/ Commit) /\ ~Advance
              \/ Release \/ Restart
              \/ CancelledBetweenNodes \/ HeadroomLacking \/ ReserveFails \/ NodeRaises \/ Complete
              \/ SweepReturns \/ PlanNode \/ PlanMade \/ Join
    BY <1>3, <2>14 DEF Claim, LoadHit, SkipNode, Commit, Terminate, TerminateAfter, EndAfter,
             Release, Restart, CancelledBetweenNodes, HeadroomLacking, ReserveFails, NodeRaises,
             Complete, SweepReturns, PlanNode, PlanMade, Join, InRun
  <2> QED BY <2>5, <2>6, <2>7, <2>8, <2>9, <2>10, <2>11, <2>12, <2>13, <2>14,
             StepsBySweep DEF WorksQuietly
<1> QED BY <1>2, <1>3

LEMMA OwnInductive == ASSUME ~SlowSweep, ~SlowPlan, IInv, OwnInv, [Next]_vars PROVE OwnInv'
<1>1. Base'
  BY BaseStep DEF OwnInv
<1>2. ASSUME WorkerSweepsOnly' PROVE Calm' /\ PlanOK' /\ RunOwn'
  <2>1. WorkerSweepsOnly
    BY <1>2, NoRequestSweptBefore
  <2>2. Base /\ Calm /\ PlanOK
    BY <2>1 DEF OwnInv
  <2>3. Calm'
    BY <1>2, <2>2, CalmStep DEF Base
  <2>4. PlanOK'
    BY <1>2, <2>2, PlanOKStep
  <2>5. RunOwn'
    BY <1>2, <2>1, RunOwnStep
  <2> QED BY <2>3, <2>4, <2>5
<1> QED BY <1>1, <1>2 DEF OwnInv

LEMMA OwnInitially == Init => OwnInv
<1> SUFFICES ASSUME Init PROVE OwnInv
  OBVIOUS
<1>1. /\ \A s \in Sweepers : sweep[s].phase = "idle"
      /\ Api \subseteq Sweepers
      /\ pc = "idle" /\ job = None
      /\ \A h \in Hashes : ~entry[h].done
  BY IdleTyped DEF Init, NoEntry, Sweepers
<1> QED BY <1>1 DEF OwnInv, Base, Begun, RunnerOK, FilesOK, Calm, PlanOK, RunOwn, InRun

(* What a job that reuses the cache has committed stays committed to its   *)
(* end, whatever the sweeps of the worker do beside it, on whatever budget *)
(* each of them and however they fail, and however often the worker dies:  *)
(* as long as no request of the API has swept, no plan takes as long as    *)
(* the first wait of the monitor, and no monitor outlasts the join of its  *)
(* job.                                                                    *)
THEOREM OutputsAlwaysSurvive == ~SlowSweep /\ ~SlowPlan => (Spec => []OutputsSurvive)
<1> SUFFICES ASSUME ~SlowSweep, ~SlowPlan PROVE Spec => []OutputsSurvive
  OBVIOUS
<1>1. Init => IInv /\ OwnInv
  BY Initially, OwnInitially
<1>2. IInv /\ OwnInv /\ [Next]_vars => IInv' /\ OwnInv'
  BY Inductive, OwnInductive
<1>3. OwnInv => OutputsSurvive
  BY DEF OwnInv, RunOwn, Guarded, OutputsSurvive
<1> QED BY <1>1, <1>2, <1>3, PTL DEF Spec

-----------------------------------------------------------------------------
(* What is committed is complete: the node in work has an entry that no    *)
(* sweep has chosen, because the sweeps of the worker spare what a job     *)
(* that reuses the cache makes.                                            *)

Unasked == \A j \in Jobs : status[j] = "absent" => request[j] = None

CInv == IInv /\ OwnInv /\ Unasked /\ (WorkerSweepsOnly /\ NothingForced => Whole)

LEMMA RequestsStay ==
  ASSUME IInv, Unasked, [Next]_vars
  PROVE  Unasked' /\ (NothingForced' => NothingForced)
<1>1. /\ status \in [Jobs -> Statuses] /\ request \in [Jobs -> Requests \cup {None}]
      /\ job \in Jobs \cup {None}
  BY DEF IInv, TypeOK, RowsOK, RunOK
<1>2. ASSUME UNCHANGED request, \A j \in Jobs : status'[j] = "absent" => status[j] = "absent"
      PROVE  Unasked' /\ (NothingForced' => NothingForced)
  BY <1>2 DEF Unasked, NothingForced
<1>3. ASSUME NEW j \in Jobs, NEW r \in Requests, Submit(j, r)
      PROVE  Unasked' /\ (NothingForced' => NothingForced)
  BY <1>1, <1>3 DEF Submit, Unasked, NothingForced
<1>4. ASSUME NEW j \in Jobs, Claim(j)
      PROVE  Unasked' /\ (NothingForced' => NothingForced)
  BY <1>1, <1>2, <1>4 DEF Claim
<1>5. ASSUME NEW last, NEW o \in {"completed", "failed", "interrupted"}, EndAfter(last, o)
      PROVE  Unasked' /\ (NothingForced' => NothingForced)
  BY <1>1, <1>2, <1>5 DEF EndAfter
<1>6. CASE WorksQuietly /\ ~ \E j \in Jobs : Claim(j) \/ \E r \in Requests : Submit(j, r)
  <2>1. CASE UNCHANGED <<status, request>>
    BY <1>2, <2>1
  <2>2. CASE Restart
    BY <1>1, <1>2, <2>2 DEF Restart
  <2> QED BY <1>5, <1>6, <2>1, <2>2 DEF WorksQuietly, LoadHit, Advance, Terminate,
        TerminateAfter, Commit, Reserve, NodeWrites, NodeReturns, Release,
        CancelledBetweenNodes, HeadroomLacking, ReserveFails, NodeRaises, Complete,
        SweepReturns, PlanNode, PlanMade, SkipNode, HeadroomFound, Join, rowVars
<1>7. CASE PreSweep \/ Headroom \/ HeadroomFails \/ Crash
  BY <1>2, <1>5, <1>7 DEF PreSweep, Headroom, HeadroomFails, Crash, rowVars
<1>8. CASE \/ UNCHANGED vars
           \/ \E s \in Sweepers : SweepStep(s) \/ SweepFails(s) \/ Joins(s) \/ ApiCrash(s)
  <2>1. CASE UNCHANGED vars
    BY <1>2, <2>1 DEF vars, rowVars
  <2>2. ASSUME NEW s \in Sweepers, SweepStep(s) \/ SweepFails(s) \/ Joins(s) \/ ApiCrash(s)
        PROVE  UNCHANGED <<status, request>>
    <3>1. CASE SweepStep(s)
      BY <3>1 DEF SweepStep, SweepTest, EvictBegins, EvictEnds, SweepEnds, rowVars
    <3>2. CASE SweepFails(s) \/ Joins(s) \/ ApiCrash(s)
      BY <3>2 DEF SweepFails, Joins, StartSweep, ApiCrash, rowVars
    <3> QED BY <2>2, <3>1, <3>2
  <2> QED BY <1>2, <1>8, <2>1, <2>2
<1> QED BY <1>3, <1>4, <1>6, <1>7, <1>8, StepsBySweep

(* If no process dies inside rmtree, no request of the API has swept and   *)
(* no job processes everything anew, an entry with _done in it has its     *)
(* outputs and manifest or is being removed by a sweep that still runs,    *)
(* although rmtree may leave a remainder of what a node writes meanwhile   *)
(* and commit only tests paths: what a later job takes for a hit can be    *)
(* read.                                                                   *)
THEOREM CommittedComplete ==
  ~CrashTears /\ ~SlowSweep /\ ~SlowPlan => (Spec => []CommittedIsComplete)
<1> SUFFICES ASSUME ~CrashTears, ~SlowSweep, ~SlowPlan PROVE Spec => []CommittedIsComplete
  OBVIOUS
<1>1. Init => CInv
  <2>1. Init => Whole /\ Unasked
    BY IdleTyped DEF Init, Whole, Unasked, NoEntry
  <2> QED BY <2>1, Initially, OwnInitially DEF CInv
<1>2. CInv /\ [Next]_vars => CInv'
  <2> SUFFICES ASSUME CInv, [Next]_vars PROVE CInv'
    OBVIOUS
  <2>1. IInv' /\ OwnInv' /\ Unasked'
    BY Inductive, OwnInductive, RequestsStay DEF CInv
  <2>2. ASSUME WorkerSweepsOnly', NothingForced' PROVE Whole'
    <3>1. WorkerSweepsOnly /\ NothingForced /\ Whole
      BY <2>2, NoRequestSweptBefore, RequestsStay DEF CInv
    <3>2. NodeOK /\ Apart
      <4>1. CASE pc \in InRun
        <5>1. job \in Jobs /\ request[job] # None
          BY <4>1, NamesAssumption, JobInWork DEF CInv, IInv, TypeOK, RunOK, InRun
        <5>2. Guarded
          BY <3>1, <4>1, <5>1 DEF CInv, OwnInv, RunOwn, NothingForced
        <5> QED BY <4>1, <5>2, GuardedApart DEF CInv, Guarded
      <4>2. CASE pc \notin InRun
        BY <4>2 DEF NodeOK, Apart, InRun
      <4> QED BY <4>1, <4>2
    <3> QED BY <3>1, <3>2, WholeStep DEF CInv
  <2> QED BY <2>1, <2>2 DEF CInv
<1>3. CInv => CommittedIsComplete
  BY DEF CInv, CommittedIsComplete, Whole, Torn
<1> QED BY <1>1, <1>2, <1>3, PTL DEF Spec

=============================================================================
