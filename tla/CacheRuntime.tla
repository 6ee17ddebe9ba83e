---------------------------- MODULE CacheRuntime ----------------------------
(* The content cache under the processes that share it: run_job on the     *)
(* main thread of the worker (server/runtime.py), the sweeps and purges    *)
(* that delete entries (server/storage.py), and crashes of the worker.     *)
(* server/cache.py keeps one directory per node hash; a node is named here *)
(* by its hash.  One worker process executes one job at a time.            *)
EXTENDS Naturals, FiniteSets, Sequences

CONSTANTS
  Jobs, Hashes, Projects, None,
  Inputs,       \* Inputs[h]: the hashes the node of h reads
  Requests,     \* what may be submitted: [nodes, results, force]
  ProjectOf,    \* the project a job belongs to
  Keep,         \* hashes of nodes of tier "keep"; the others are "bulk"
  Heavy,        \* hashes of nodes that estimate what they write
  Api,          \* API requests that may sweep or purge
  Monitors,     \* {"monitor"} if the monitor thread sweeps, else {}
  Budgets,      \* what cache_max_bytes may be set to, in entries
  JobBudget,    \* what a job has read of it when its nodes begin
  SlowSweep,    \* may a sweep of the monitor outlast join(timeout=5)?
  SlowPlan,     \* may a plan outlast the first 30 s of the monitor?
  PidReuse,     \* may the PID of a dead worker be another process's?
  CrashTears,   \* may a process die inside rmtree?
  MaxCrashes, MaxSweeps   \* bounds: crashes, sweeps that a thread starts

ASSUME CacheAssumption ==
  /\ IsFiniteSet(Hashes)
  /\ Keep \subseteq Hashes /\ Heavy \subseteq Hashes
  /\ Inputs \in [Hashes -> SUBSET Hashes]
  /\ ProjectOf \in [Jobs -> Projects]
  /\ \A r \in Requests :
       /\ r.nodes \in Seq(Hashes) /\ r.force \in BOOLEAN
       /\ r.results \subseteq {r.nodes[i] : i \in DOMAIN r.nodes}
       /\ \A i \in DOMAIN r.nodes :          \* _topo_order
            Inputs[r.nodes[i]] \subseteq {r.nodes[k] : k \in 1 .. (i-1)}
  /\ Budgets \subseteq Nat \ {0} /\ JobBudget \in [Jobs -> Budgets]
  /\ MaxCrashes \in Nat /\ MaxSweeps \in Nat
  /\ {SlowSweep, SlowPlan, PidReuse, CrashTears} \subseteq BOOLEAN

ASSUME NamesAssumption ==
  /\ None \notin Jobs /\ None \notin Hashes /\ None \notin Requests
  /\ "main" \notin Monitors /\ "main" \notin Api

Sweepers == {"main"} \cup Monitors \cup Api

VARIABLES
  entry,              \* the entry directories
  status, request,    \* table jobs, column by column
  recorded,           \* node_hashes_json
  deleted,            \* projects whose rows are gone
  pc, job, at, hits,  \* main thread of the worker, inside _run
  sweep,              \* every thread that is sweeping
  crashes, sweeps     \* bounds

rowVars == <<status, request, recorded, deleted>>
runVars == <<pc, job, at, hits>>
boundVars == <<crashes, sweeps>>
vars == <<entry, rowVars, runVars, sweep, boundVars>>

-----------------------------------------------------------------------------
(* An entry: does the directory exist, is _done in it, how much of outputs *)
(* and manifest is there (`damaged`: some of it was removed), the jobs     *)
(* with an _inuse_ marker, and the sweeps whose rmtree has listed all the  *)
(* files that are there.                                                   *)

Entry == [dir : BOOLEAN, done : BOOLEAN,
          files : {"none", "partial", "damaged", "whole"},
          marks : SUBSET Jobs, wipers : SUBSET Sweepers]
NoEntry    == [dir |-> FALSE, done |-> FALSE, files |-> "none", marks |-> {},
               wipers |-> {}]
EmptyEntry == [NoEntry EXCEPT !.dir = TRUE]

Committed == {h \in Hashes : entry[h].done}

(* mark_in_use: a no-op without the directory.                             *)
Marked(e, j) == IF e.dir THEN [e EXCEPT !.marks = @ \cup {j}] ELSE e

(* release_job_marks.                                                      *)
Unmarked(entries, js) ==
  [h \in Hashes |-> [entries[h] EXCEPT !.marks = @ \ js]]

Reserved_Mutant(e, force) == [EmptyEntry EXCEPT !.done = TRUE]   \* _done first

(* reserve: a half-written entry is wiped, a committed one under force.    *)
Reserved(e, force) == IF e.done /\ ~force THEN e ELSE EmptyEntry

-----------------------------------------------------------------------------
(* run_job's plan.                                                         *)

MustRun_MutantShallow(r, planned) == r.results \ planned
MustRun_MutantInner(r, planned) ==       \* the clause for outputs dropped
  {h \in Hashes \ planned : \E i \in DOMAIN r.nodes : /\ r.nodes[i] \notin planned
                                                     /\ h \in Inputs[r.nodes[i]]}

(* Pass 2: a miss must run if it is a template output or some node that    *)
(* must run reads it.                                                      *)
MustRun(r, planned) ==
  LET n == Len(r.nodes)
      must[i \in 1 .. n] ==
        /\ r.nodes[i] \notin planned
        /\ \/ r.nodes[i] \in r.results
           \/ \E k \in (i+1) .. n : r.nodes[i] \in Inputs[r.nodes[k]] /\ must[k]
  IN {r.nodes[i] : i \in {k \in 1 .. n : must[k]}}

Node  == request[job].nodes[at]
Steps == Len(request[job].nodes)
Must  == MustRun(request[job], hits)

-----------------------------------------------------------------------------
(* Sweeps.  A sweep works on what it read when it began: the committed     *)
(* entries, their owners, the jobs alive; `excess` is what it still has to *)
(* free.                                                                   *)

Alive == {j \in Jobs : status[j] \in {"queued", "running"}}

(* build_reachability: the projects whose history names the entry.         *)
Owners(h) == {ProjectOf[j] : j \in {k \in Jobs : h \in recorded[k]}} \ deleted

Orphans == {h \in Committed : Owners(h) = {}}

(* _terminal_output_hashes.                                                *)
TerminalOutputs(p) ==
  UNION {request[j].results : j \in {k \in Jobs : /\ ProjectOf[k] = p
                                                  /\ status[k] = "completed"}}

Idle == [phase |-> "idle", todo |-> {}, orphans |-> {}, alive |-> {},
         excess |-> 0, target |-> None, doomed |-> None]

Sweep == [phase : {"idle", "scan", "evict", "torn"}, todo : SUBSET Hashes,
          orphans : SUBSET Hashes, alive : SUBSET Jobs, excess : Nat,
          target : Hashes \cup {None}, doomed : Projects \cup {None}]

Snapshot(candidates, excess, doomed) ==
  [Idle EXCEPT !.phase = "scan", !.todo = candidates, !.orphans = Orphans,
               !.alive = Alive, !.excess = excess, !.doomed = doomed]

Excess(limit) ==
  IF Cardinality(Committed) > limit THEN Cardinality(Committed) - limit ELSE 0

(* _eviction_key, the age of the owner left out: orphans, bulk, keep.      *)
EvictionKey(s, h) == IF h \in s.orphans THEN IF h \in Keep THEN 1 ELSE 0
                                        ELSE IF h \in Keep THEN 3 ELSE 2

EvictFirst(s) == {h \in s.todo : \A k \in s.todo : EvictionKey(s, h) <= EvictionKey(s, k)}

-----------------------------------------------------------------------------
(* The API process, the queue reduced to its statuses.                     *)

Submit(j, r) ==
  /\ status[j] = "absent" /\ ProjectOf[j] \notin deleted
  /\ status' = [status EXCEPT ![j] = "queued"]
  /\ request' = [request EXCEPT ![j] = r]
  /\ UNCHANGED <<entry, recorded, deleted, runVars, sweep, boundVars>>

StartSweep(s, snapshot) ==
  /\ sweep[s].phase = "idle" /\ sweeps[s] < MaxSweeps
  /\ sweep' = [sweep EXCEPT ![s] = snapshot]
  /\ sweeps' = [sweeps EXCEPT ![s] = @ + 1]
  /\ UNCHANGED <<entry, rowVars, runVars, crashes>>

(* run_cleanup for an API request; every sweep reads the budget anew.      *)
ApiCleanup(s) ==
  \E budget \in Budgets :
     /\ s \in Api /\ Excess(budget) > 0
     /\ StartSweep(s, Snapshot(Committed, Excess(budget), None))

(* purge_project_cache, alone or as the first half of delete_project: what *)
(* only this project owns, whatever the budget.                            *)
ApiPurge(s, p, keepOutputs, delete) ==
  LET owned == {h \in Committed : Owners(h) = {p}}
      candidates == IF keepOutputs THEN owned \ TerminalOutputs(p) ELSE owned
  IN /\ s \in Api /\ p \notin deleted /\ ~(delete /\ keepOutputs)
     /\ StartSweep(s, Snapshot(candidates, Cardinality(candidates),
                               IF delete THEN p ELSE None))

-----------------------------------------------------------------------------
(* One thread in run_cleanup or purge_project_cache.                       *)

(* is_in_use drops the markers of jobs the snapshot has not as alive; an   *)
(* entry with a marker left is skipped.                                    *)
SweepTest(s, h) ==
  LET live == entry[h].marks \cap sweep[s].alive IN
  /\ sweep[s].phase = "scan" /\ sweep[s].excess > 0
  /\ h \in EvictFirst(sweep[s])
  /\ entry' = [entry EXCEPT ![h].marks = live]
  /\ sweep' = IF live # {}
              THEN [sweep EXCEPT ![s].todo = @ \ {h}]
              ELSE [sweep EXCEPT ![s].todo = @ \ {h}, ![s].phase = "evict",
                                 ![s].target = h]
  /\ UNCHANGED <<rowVars, runVars, boundVars>>

(* evict: without a directory there is nothing to do.  Otherwise rmtree    *)
(* lists the entry and unlinks its files in any order: at some point the   *)
(* marker is gone or some outputs are, the other not yet.                  *)
EvictBegins(s) ==
  LET h == sweep[s].target IN
  /\ sweep[s].phase = "evict"
  /\ \/ /\ ~entry[h].dir /\ UNCHANGED entry
        /\ sweep' = [sweep EXCEPT ![s].phase = "scan", ![s].target = None]
     \/ /\ entry[h].dir
        /\ \/ entry' = [entry EXCEPT ![h].wipers = @ \cup {s}, ![h].done = FALSE]
           \/ entry' = [entry EXCEPT ![h].wipers = @ \cup {s},
                           ![h].files = IF @ = "none" THEN @ ELSE "damaged"]
        /\ sweep' = [sweep EXCEPT ![s].phase = "torn",
                       ![s].excess = IF entry[h].files = "none" THEN @ ELSE @ - 1]
  /\ UNCHANGED <<rowVars, runVars, boundVars>>

(* What rmtree(ignore_errors=True) may leave of an entry: nothing; the     *)
(* markers set while it was at work; and if a node has written since it    *)
(* listed the files, any part of what is there.                            *)
Remains(e, s) ==
  LET listed == s \in e.wipers IN
  {NoEntry} \cup
  {[e EXCEPT !.done = r.done, !.files = r.files, !.marks = r.marks, !.wipers = @ \ {s}] :
     r \in [done  : IF listed THEN {FALSE} ELSE {FALSE, e.done},
            files : IF listed THEN {"none"}
                    ELSE {e.files, IF e.files = "none" THEN "none" ELSE "damaged"},
            marks : SUBSET e.marks \ (IF listed THEN {{}} ELSE {})]}

EvictEnds_Mutant(s) ==                  \* the loop variable is kept
  /\ sweep[s].phase = "torn"
  /\ entry' = [entry EXCEPT ![sweep[s].target] = NoEntry]
  /\ sweep' = [sweep EXCEPT ![s].phase = "scan"]
  /\ UNCHANGED <<rowVars, runVars, boundVars>>

EvictEnds(s) ==
  LET h == sweep[s].target IN
  /\ sweep[s].phase = "torn"
  /\ \E left \in Remains(entry[h], s) :
        entry' = [entry EXCEPT ![h] = IF entry[h].dir THEN left ELSE NoEntry]
  /\ sweep' = [sweep EXCEPT ![s].phase = "scan", ![s].target = None]
  /\ UNCHANGED <<rowVars, runVars, boundVars>>

SweepEnds_Mutant(s) ==                  \* `while total - freed > max_bytes`
  /\ sweep[s].phase = "scan" /\ sweep[s].excess = 0
  /\ sweep' = [sweep EXCEPT ![s] = Idle]
  /\ UNCHANGED <<entry, rowVars, runVars, boundVars>>

(* The sweep is over; delete_project goes on to delete the row.            *)
SweepEnds(s) ==
  /\ sweep[s].phase = "scan"
  /\ sweep[s].excess = 0 \/ sweep[s].todo = {}
  /\ sweep' = [sweep EXCEPT ![s] = Idle]
  /\ deleted' = deleted \cup ({sweep[s].doomed} \ {None})
  /\ UNCHANGED <<entry, status, request, recorded, runVars, boundVars>>

(* It raises: sweep_cache swallows that, a request ends with an error and  *)
(* deletes no row.                                                         *)
SweepFails(s) ==
  /\ sweep[s].phase \in {"scan", "evict"} /\ (s = "main" => pc = "sweeping")
  /\ sweep' = [sweep EXCEPT ![s] = Idle]
  /\ UNCHANGED <<entry, rowVars, runVars, boundVars>>

SweepStep(s) ==
  \/ \E h \in Hashes : SweepTest(s, h)
  \/ EvictBegins(s) \/ EvictEnds(s) \/ SweepEnds(s)

-----------------------------------------------------------------------------
(* The main thread of the worker.                                          *)

(* claim_next_queued, and the sweep before the job.                        *)
Claim(j) ==
  /\ pc = "idle" /\ status[j] = "queued"
  /\ status' = [status EXCEPT ![j] = "running"]
  /\ job' = j /\ at' = 1 /\ hits' = {}
  /\ pc' = "presweep"
  /\ UNCHANGED <<entry, request, recorded, deleted, sweep, boundVars>>

PreSweep ==
  /\ pc = "presweep" /\ pc' = "sweeping"
  /\ \E budget \in Budgets :
        sweep' = [sweep EXCEPT !["main"] =
                    IF Excess(budget) > 0
                    THEN Snapshot(Committed, Excess(budget), None) ELSE Idle]
  /\ UNCHANGED <<entry, rowVars, job, at, hits, boundVars>>

SweepReturns ==
  /\ pc = "sweeping" /\ sweep["main"].phase = "idle"
  /\ pc' = "planning"
  /\ UNCHANGED <<entry, rowVars, job, at, hits, sweep, boundVars>>

IsHit_Mutant(h) == entry[h].dir       \* the directory is enough

(* Pass 1: is_hit.                                                         *)
IsHit(h) == ~request[job].force /\ entry[h].done

PlanNode ==
  /\ pc = "planning" /\ at <= Steps
  /\ hits' = IF IsHit(Node) THEN hits \cup {Node} ELSE hits
  /\ at' = at + 1
  /\ UNCHANGED <<entry, rowVars, pc, job, sweep, boundVars>>

PlanMade ==
  /\ pc = "planning" /\ at > Steps
  /\ pc' = "executing" /\ at' = 1
  /\ UNCHANGED <<entry, rowVars, job, hits, sweep, boundVars>>

(* _terminate: the outcome, and the hashes of the nodes that started.      *)
EndAfter(last, o) ==
  /\ status' = [status EXCEPT ![job] = o]
  /\ recorded' = [recorded EXCEPT ![job] =
                    {request[job].nodes[i] : i \in {k \in 1 .. Steps : k <= last}}]
  /\ pc' = "release"
  /\ UNCHANGED <<request, deleted, job, at, hits, boundVars>>

TerminateAfter(last, o) == EndAfter(last, o) /\ UNCHANGED sweep

Terminate(o) == TerminateAfter(at, o)

(* The cancel event is tested between nodes.                               *)
CancelledBetweenNodes ==
  /\ pc = "executing" /\ at <= Steps
  /\ TerminateAfter(at - 1, "interrupted")
  /\ UNCHANGED entry

(* The node is over; the next one.                                         *)
Advance ==
  /\ pc' = "executing" /\ at' = at + 1
  /\ UNCHANGED <<rowVars, job, hits, sweep, boundVars>>

(* A hit: the manifest, or without it the files by their usual names, lead *)
(* to the outputs.  Only that the path of each output exists is tested.    *)
LoadHit ==
  /\ pc = "executing" /\ at <= Steps /\ Node \in hits
  /\ \/ entry[Node].files # "none" /\ Advance
     \/ /\ entry[Node].files # "whole" \/ ~entry[Node].done
        /\ Terminate("failed")          \* "cached entry missing output(s)"
  /\ UNCHANGED entry

SkipNode ==
  /\ pc = "executing" /\ at <= Steps /\ Node \notin hits \cup Must
  /\ Advance /\ UNCHANGED entry

(* ensure_disk_headroom: one entry must fit into budget and disk; the disk *)
(* may be full at any time.                                                *)
Headroom ==
  LET used   == Cardinality(Committed)
      budget == JobBudget[job]
      limit  == (IF budget < used THEN budget ELSE used) - 1
  IN /\ pc = "executing" /\ at <= Steps /\ Node \in Must
     /\ \/ /\ pc' = "headroom"
           /\ Node \in Heavy
           /\ sweep' = [sweep EXCEPT !["main"] =
                         IF used = 0 THEN Idle
                         ELSE Snapshot(Committed, used - limit, None)]
        \/ /\ pc' = "reserve"
           /\ Node \in Heavy => used < budget
           /\ UNCHANGED sweep
     /\ UNCHANGED <<entry, rowVars, job, at, hits, boundVars>>

HeadroomFound ==
  /\ pc = "headroom" /\ sweep["main"].phase = "idle"
  /\ pc' = "reserve"
  /\ UNCHANGED <<entry, rowVars, job, at, hits, sweep, boundVars>>

HeadroomLacking ==                      \* InsufficientStorageError
  /\ pc = "headroom" /\ sweep["main"].phase = "idle"
  /\ Terminate("failed") /\ UNCHANGED entry

HeadroomFails ==                        \* its sweep raises
  /\ pc = "headroom" /\ sweep["main"].phase \in {"scan", "evict"}
  /\ EndAfter(at, "failed")
  /\ sweep' = [sweep EXCEPT !["main"] = Idle]
  /\ UNCHANGED entry

MarksOf_Mutant(h) == Inputs[h]          \* only what it reads
MarksOf(h) == {h} \cup Inputs[h]

(* reserve, then mark_in_use on the entry and on what the node reads.      *)
Reserve ==
  LET reserved == [entry EXCEPT ![Node] = Reserved(@, request[job].force)]
      marked == MarksOf(Node)
  IN /\ pc = "reserve" /\ pc' = "running"
     /\ entry' = [h \in Hashes |-> IF h \in marked THEN Marked(reserved[h], job)
                                                   ELSE reserved[h]]
     /\ UNCHANGED <<rowVars, job, at, hits, sweep, boundVars>>

(* The rmtree in reserve does not ignore errors: another thread that       *)
(* removes the same directory makes it raise.                              *)
ReserveFails ==
  /\ pc = "reserve"
  /\ \E s \in Sweepers : sweep[s].phase = "torn" /\ sweep[s].target = Node
  /\ Terminate("failed") /\ UNCHANGED entry

(* Node.run writes into the entry ...                                      *)
NodeWrites ==
  /\ pc = "running" /\ entry[Node].dir /\ entry[Node].files = "none"
  /\ entry' = [entry EXCEPT ![Node].files = "partial", ![Node].wipers = {}]
  /\ UNCHANGED <<rowVars, runVars, sweep, boundVars>>

(* ... and returns, with or without the files it has lost meanwhile.       *)
NodeReturns ==
  /\ pc = "running" /\ entry[Node].dir
  /\ \E files \in {"whole"} \cup ({entry[Node].files} \cap {"damaged"}) :
        entry' = [entry EXCEPT ![Node].files = files, ![Node].wipers = {}]
  /\ pc' = "commit"
  /\ UNCHANGED <<rowVars, job, at, hits, sweep, boundVars>>

(* It raises, or is cancelled: the entry is removed.                       *)
NodeRaises ==
  /\ pc = "running"
  /\ entry' = [entry EXCEPT ![Node] = NoEntry]
  /\ \E o \in {"failed", "interrupted"} : Terminate(o)

(* commit tests that the path of each output exists, then writes manifest  *)
(* and _done.                                                              *)
Commit ==
  /\ pc = "commit"
  /\ \/ /\ entry[Node].dir /\ entry[Node].files # "none"
        /\ entry' = [entry EXCEPT ![Node].done = TRUE, ![Node].wipers = {}]
        /\ Advance
     \/ /\ ~(entry[Node].dir /\ entry[Node].files = "whole")
        /\ Terminate("failed") /\ UNCHANGED entry

Complete ==
  /\ pc = "executing" /\ at > Steps
  /\ Terminate("completed") /\ UNCHANGED entry

Release ==
  /\ pc = "release" /\ pc' = "join"
  /\ entry' = Unmarked(entry, {job})
  /\ UNCHANGED <<rowVars, job, at, hits, sweep, boundVars>>

(* monitor_thread.join.                                                    *)
Join ==
  /\ pc = "join" /\ pc' = "idle"
  /\ SlowSweep \/ \A m \in Monitors : sweep[m].phase = "idle"
  /\ job' = None /\ at' = 1 /\ hits' = {}
  /\ UNCHANGED <<entry, rowVars, sweep, boundVars>>

(* The monitor thread of the job sweeps every 30 s until it is joined.     *)
MonitorSweep(s) ==
  \E budget \in Budgets :
     /\ s \in Monitors
     /\ pc \notin {"down", "idle", "presweep", "sweeping", "join"}
     /\ SlowPlan \/ pc # "planning"
     /\ Excess(budget) > 0
     /\ StartSweep(s, Snapshot(Committed, Excess(budget), None))

(* The worker process dies with its threads.                               *)
Crash ==
  LET dying == {"main"} \cup Monitors IN
  /\ pc # "down" /\ crashes < MaxCrashes
  /\ CrashTears \/ \A s \in dying : sweep[s].phase # "torn"
  /\ crashes' = crashes + 1
  /\ pc' = "down" /\ job' = None /\ at' = 1 /\ hits' = {}
  /\ sweep' = [s \in Sweepers |-> IF s \in dying THEN Idle ELSE sweep[s]]
  /\ \/ UNCHANGED entry
     \/ /\ CrashTears /\ pc = "reserve" /\ request[job].force
        /\ entry' = [entry EXCEPT ![Node].files = "damaged"]
  /\ UNCHANGED <<rowVars, sweeps>>

(* The API process restarts under a request.                               *)
ApiCrash(s) ==
  /\ s \in Api /\ sweep[s].phase # "idle" /\ crashes < MaxCrashes
  /\ CrashTears \/ sweep[s].phase # "torn"
  /\ crashes' = crashes + 1
  /\ sweep' = [sweep EXCEPT ![s] = Idle]
  /\ UNCHANGED <<entry, rowVars, runVars, sweeps>>

(* The worker starts again: reclaim_stale.  A row is spared if its PID is  *)
(* alive and its heartbeat fresh.                                          *)
Restart ==
  LET running == {j \in Jobs : status[j] = "running"} IN
  /\ pc = "down" /\ pc' = "idle"
  /\ \E reclaimed \in IF PidReuse THEN SUBSET running ELSE {running} :
        /\ status' = [j \in Jobs |-> IF j \in reclaimed THEN "interrupted" ELSE status[j]]
        /\ entry' = Unmarked(entry, reclaimed)
  /\ UNCHANGED <<request, recorded, deleted, job, at, hits, sweep, boundVars>>

-----------------------------------------------------------------------------
Init ==
  /\ entry = [h \in Hashes |-> NoEntry]
  /\ status = [j \in Jobs |-> "absent"]
  /\ request = [j \in Jobs |-> None]
  /\ recorded = [j \in Jobs |-> {}]
  /\ deleted = {}
  /\ pc = "idle" /\ job = None /\ at = 1 /\ hits = {}
  /\ sweep = [s \in Sweepers |-> Idle]
  /\ crashes = 0 /\ sweeps = [s \in Sweepers |-> 0]

WorkerStep ==
  \/ PreSweep \/ SweepReturns \/ PlanNode \/ PlanMade
  \/ LoadHit \/ SkipNode \/ Headroom \/ HeadroomFound \/ HeadroomLacking
  \/ Reserve \/ ReserveFails \/ NodeReturns \/ NodeRaises
  \/ Commit \/ Complete \/ Release \/ Join \/ Restart

Next ==
  \/ \E j \in Jobs : Claim(j) \/ \E r \in Requests : Submit(j, r)
  \/ WorkerStep \/ NodeWrites \/ CancelledBetweenNodes \/ HeadroomFails \/ Crash
  \/ \E s \in Sweepers :
       \/ SweepStep(s) \/ SweepFails(s) \/ ApiCleanup(s) \/ MonitorSweep(s) \/ ApiCrash(s)
       \/ \E p \in Projects, keepOutputs, delete \in BOOLEAN :
            ApiPurge(s, p, keepOutputs, delete)

Spec == Init /\ [][Next]_vars

(* The threads run on, a node returns or raises, a dead worker restarts.   *)
FairSpec ==
  Spec /\ WF_vars(WorkerStep) /\ \A s \in Sweepers : WF_vars(SweepStep(s))

-----------------------------------------------------------------------------
Statuses == {"absent", "queued", "running", "completed", "failed", "interrupted"}
Places == {"down", "idle", "presweep", "sweeping", "planning", "executing",
           "headroom", "reserve", "running", "commit", "release", "join"}

EntriesOK == entry \in [Hashes -> Entry]

RowsOK ==
  /\ status \in [Jobs -> Statuses]
  /\ request \in [Jobs -> Requests \cup {None}]
  /\ \A j \in Jobs : status[j] # "absent" => request[j] # None
  /\ recorded \in [Jobs -> SUBSET Hashes]
  /\ deleted \subseteq Projects

RunOK ==
  /\ pc \in Places
  /\ job \in Jobs \cup {None} /\ (job = None <=> pc \in {"down", "idle"})
  /\ at \in Nat \ {0} /\ hits \subseteq Hashes

SweepsOK ==
  /\ sweep \in [Sweepers -> Sweep]
  /\ \A s \in Sweepers : sweep[s].target # None <=> sweep[s].phase \in {"evict", "torn"}

BoundsOK == crashes \in Nat /\ sweeps \in [Sweepers -> Nat]

(* Type invariant: the worker has a job while it is busy, and a sweep has  *)
(* a target while it evicts.                                               *)
TypeOK == EntriesOK /\ RowsOK /\ RunOK /\ SweepsOK /\ BoundsOK

InRun == {"executing", "headroom", "reserve", "running", "commit"}

(* "The lockfile protocol means we can't nuke anything we're about to      *)
(* read": what the plan took for a hit is there until the run has come to  *)
(* it.                                                                     *)
HitsAreServed ==
  pc \in InRun =>
    \A k \in at .. Steps : request[job].nodes[k] \in hits
                             => entry[request[job].nodes[k]].files = "whole"

(* While a node runs, everything it reads stays whole: a node that was     *)
(* skipped is never read, a half-written entry never taken for a hit.      *)
InputsSurvive ==
  pc = "running" => \A h \in Inputs[Node] : entry[h].files = "whole"

WorkerSweepsOnly == \A s \in Api : sweeps[s] = 0
NothingForced == \A j \in Jobs : request[j] # None => ~request[j].force

(* "Mark an entry as complete": an entry with _done in it has its outputs  *)
(* and its manifest, but for the time somebody removes it, so that what a  *)
(* later job takes for a hit can be read.  rmtree ignores errors and       *)
(* commit tests paths: a run that reserves an entry which a sweep has      *)
(* chosen may commit what the sweep leaves.  The sweeps of the worker      *)
(* choose no such entry, unless a job processes everything anew.           *)
CommittedIsComplete ==
  WorkerSweepsOnly /\ NothingForced =>
    \A h \in Hashes :
      entry[h].done => \/ entry[h].files = "whole"
                       \/ \E s \in Sweepers : sweep[s].phase = "torn" /\ sweep[s].target = h

OwnEntriesThere ==
  \A k \in 1 .. (at - 1) : request[job].nodes[k] \in Must
    => entry[request[job].nodes[k]].done /\ entry[request[job].nodes[k]].files = "whole"

(* "The in-use lockfile guarantees the running job's own entries survive   *)
(* every sweep" of the worker: what a job that reuses the cache has        *)
(* committed stays committed until it ends, whoever sweeps beside it.      *)
OutputsSurvive ==
  pc \in InRun /\ WorkerSweepsOnly /\ ~request[job].force => OwnEntriesThere

(* The sentence as server/jobs.py:504 has it: of every job, those that     *)
(* process everything anew included.                                       *)
EverySweepSparesOwn == pc \in InRun /\ WorkerSweepsOnly => OwnEntriesThere

(* A job completes with outputs that can be read.                          *)
ResultsAreThere ==
  [][\A j \in Jobs : status[j] = "running" /\ status'[j] = "completed"
       => \A h \in request[j].results : entry[h].files = "whole"]_vars

(* A running job ends and a sweep ends, although the sweep may find        *)
(* everything in use and never get under the budget.                       *)
RunsEnd == \A j \in Jobs : status[j] = "running" ~> status[j] # "running"

=============================================================================
