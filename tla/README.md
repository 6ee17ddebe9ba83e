# Astrolab: a TLA+ verification project

Astrolab (`server/`, `nodes/`, `ui/`) turns the frames of a smart telescope into
finished images. An API process takes jobs, a separate worker process runs their
pipelines, both share one SQLite database and one directory tree (the content
cache), and background threads of the API process observe, mirror and stack what
the telescope delivers. This directory models the parts whose correctness
depends on the order in which those actors move, checks the models with TLC, and
proves the central results with TLAPS.

## 1. Inventory

| component (source) | state | operations | talks to |
|---|---|---|---|
| Job queue (`server/jobs.py`, `server/worker.py`) | rows of `jobs`, events of `job_events`, a worker's stop flags, its current job and monitor thread | submit, cancel, claim, run, heartbeat, terminate, reclaim, signals | database, `run_job` |
| Event stream (`server/api.py:stream_job_events`) | cursor of one websocket | fetch after cursor, send, close | `job_events` |
| Pipeline run and cache (`server/runtime.py`, `server/cache.py`) | entry directories, commit markers, in-use markers of jobs | plan, reserve, mark, run node, commit, load | sweep, purge, `_terminate` |
| Storage sweep (`server/storage.py`) | none of its own: a snapshot of entries, owners, alive jobs | `run_cleanup`, `purge_project_cache`, `delete_project`, `ensure_disk_headroom` | cache, database, projects |
| Projects (`server/projects.py`) | records in memory, two tables on disk | create, patch (append or collapse), revert, swap sessions, upgrade template, forget, rehydrate | job queue, storage |
| Scanner, scan state (`server/catalog/scanner.py`, `server/scan_state.py`) | frame rows, one scan slot | scan, remove orphans | sessions |
| Session clustering (`server/catalog/sessions.py`) | session rows, frame-to-session links | recluster | scanner, projects |
| Calibration matching (`server/catalog/matching.py`) | none of its own: masters and headers | match a session, match the bins of a bundle | sessions, job builder |
| Job builder (`server/job_builder.py`) | a directory of links | check, choose lights, choose darks | catalog, job queue |
| Pipeline nodes (`nodes/`) | frames on their way, a progress bar | one `run` per node of a template | run and cache, Siril, GraXpert, StarNet |
| Scope scheduler, observer (`server/scope_*.py`) | plan item in progress, failures, parked flag, busy flag | tick, step, probe, park | telescope service |
| Mirror, auto stacker (`server/scope_mirror.py`, `server/scope_autostack.py`) | copied files, touched sessions with a time | copy, touch, tick | scan state, job queue |
| Subprocess runner, Siril (`server/subproc.py`, `server/siril.py`) | child process, output pipes, cancel flag | run, poll, kill | nodes |
| Project page (`ui/src/lib/projects/*.ts`) | pending patch, timer, subscription, pipeline rows | queue, flush, apply event, reconnect | API |
| Migrations (`server/catalog/db.py`, `server/template_migrations.py`) | schema version, template versions | upgrade | everything |

Hard behaviours, and what makes each component correct:

- **Job queue.** Two processes and a thread write a row. A worker can die at any
  statement, come back under a PID that is already in a row, or live on while
  another takes its job for dead. Correct: one executor per job, a log that has no
  gap and agrees with the row, an outcome that never changes, a job cancelled in the
  queue that never runs, a deserted row that gets an outcome, a queue that moves.
- **Event stream.** It reads what another process writes and decides to close on
  what it read. Correct: a prefix of the log, and it ends with the outcome.
- **Run, cache and sweep.** A plan made at the beginning is used much later, while
  a sweep that took its own snapshot deletes directories. Correct: a committed
  entry is complete, an entry in use survives, a run reads what it planned to read.
- **Projects.** Memory first, then two transactions; two requests may interleave.
  Correct: `current_seq` is a valid index, seqs are unique, memory and disk agree, an undo or
  an edit after it loses nothing.
- **Scanner, sessions.** A scan takes minutes, in many transactions, while files come
  and go. Correct: every file that stayed has its row, no row outlives its file, and the
  id of a session, which projects store, goes on naming its frames.
- **Matching.** Three matchers look at the same masters with different data (session,
  bins of a bundle, header of a frame). Correct: what the first one promises the last
  one applies.
- **Scope.** One telescope, two threads, a user, calls whose answers get lost. Correct:
  nobody is cut off, no run replaces another, the scope is at rest by day, a bad run is
  left, rain is told.
- **Subprocess.** Reader, watchdog and program stop each other. Correct: a cancelled
  run ends whatever the program does, and not before the program has.
- **Page.** Correct: no edit is lost, the rows show the job that runs.

The hazards, each at its line, are in `PROJECT.json`.

## 2. Modules and plan

| module | models | uses | state |
|---|---|---|---|
| `JobLifecycle` | what the queue promises: the life of a job and how often each outcome is announced | | done |
| `JobQueue` | `JobManager`, `JobWorker`, its monitor thread, the worker loop, signals, crashes | implements `JobLifecycle` | done |
| `EventStream` | `stream_job_events` tailing the log | extends `JobQueue` | done |
| `JobQueue_proofs`, `EventStream_proofs` | theorems | the second extends the first | done |
| `CacheRuntime` | `run_job`, `ContentCache`, every sweep and purge, crashes | the queue reduced to its statuses | done |
| `EditHistory` | what a project promises its editor: edits that only grow, a pointer, settled edits that stay | | done |
| `Projects` | one project: object, rows, jobs, request threads, restarts | the queue reduced further; implements `EditHistory` | done |
| `ScopeNight` | scheduler, observer, scope service, user, sky | | done |
| `Catalog` | files, frame rows, sessions, the scan and its slot | | done |
| `Ingest` | mirror, auto stacker, restarts | extends `Catalog` | done |
| `DarkMatch` | the three matchers of darks, as operators | | done |
| `ToolRun` | one external program, its reader and its watchdog | | done |
| `Pipeline` | job builder and the nodes of both templates | extends `DarkMatch`, `ToolRun` | done |
| `CacheRuntime_proofs`, `Projects_proofs`, `ScopeNight_proofs`, `Ingest_proofs`, `Pipeline_proofs` | theorems | each extends its module | done |
| `FiniteFacts` | lemmas on finite sets: least, greatest and best elements, ranks, images, the greater and the lesser of two | extended by four of the proof modules | done |

The order is that of consequence: the queue and the cache can lose work or present
a wrong picture, the project history is what users edit, the scope works unattended
at night. `MCCacheRuntime`, `MCProjects` and `MCPipeline` give those modules the
constants a configuration file cannot write.

## 3. From the code to the modules

**JobQueue.** A step is one database transaction, or what a thread does between two
of them. `sqlite3.connect` opens a transaction with the first statement that writes, so the SELECT
of `claim_next_queued` (`Select`) is a step of its own before the guarded UPDATE with its event
(`Claim`), and a worker whose row was taken in between goes back (`LoseRow`). `status`, `cancelRequested`, `workerPid`, `fresh` are columns of `jobs`
(`fresh`: the heartbeat is younger than 120 s), `log` is `job_events`, a function
from seq to type. `pc` is where the main thread of a worker stands between
`reclaim_stale` (`Boot`), the head of the loop, the claim, `_run` and `_terminate`;
`stop` and `cancelCurrent` are the flags of the signal handlers, `monitor` and
`cancelEvent` belong to the thread that polls and beats. A worker process is named by
its PID; a restart in a container may get the PID of the one before (`PidReuse`).
A run is the events it emits and its end: what it does to the cache is
`CacheRuntime`. `MonitorDies` and `TerminateLocked` are the database errors that
outlast `retry_on_locked`.

**EventStream.** The cursor counts what was sent, not the seqs, as in the code.

**CacheRuntime.** `entry[h]` is the directory of a node hash: whether it exists, has
`_done`, how much of outputs and manifest is in it, and the jobs whose markers it
bears. `PlanNode`/`PlanMade` are the two passes of the plan (`MustRun` is the second
one), then the run goes from node to node: `LoadHit`, `SkipNode`, or `Headroom`,
`Reserve` with the markers, `NodeReturns`, `Commit`. `_terminate`, `release_job_marks`
and the join of the monitor thread follow in the order of `_run`. A sweep is a record
of what its thread read when it began; each later step uses that record and the
directories as they are: `SweepTest` (`is_in_use`), `EvictBegins` and `EvictEnds`
(`rmtree`, which has no order), `SweepEnds`, or `SweepFails` where it raises. `rmtree` ignores
errors: `wipers` are the sweeps that have listed everything an entry holds, and what a node has written
since may stay (`Remains`), although `commit` only asks whether the output paths exist. The same
steps serve `run_cleanup`, `purge_project_cache`, `ensure_disk_headroom` and the first half of
`delete_project`, which differ in candidates and in how much they want. Each sweep reads
`cache_max_bytes` when it begins (`Budgets`), a job once (`JobBudget`).

**Projects.** A request is a record `req[t]` that keeps the local variables of the
handler. The lock of `ProjectManager` guards the map only, so each access to the
database is a step of its own and two requests interleave between them. `project`
is the object in memory, `row` and `rows` the two tables, `made` the inputs a job was
submitted with. `Restart` loses `req` and calls `rehydrate`. `History` maps the object to
`EditHistory`: its entries without seq and kind, its pointer, the jobs that were given up; tables
and requests are hidden, and so is a restart between requests. An override is a
parameter away from its default: the values say nothing more about history.

**ScopeNight.** A tick is a sequence of HTTP calls; `pc` is where it stands between
them and `seen` what it has read so far: the clock at its head, then the status.
`CallFails` ends it at any call. An alert counts as sent before it is (`Notify`): without a
webhook, or when the POST fails, it is lost and nobody is told. `Serve` is what a call does to the scope, which a call
whose answer is lost may have done as well. The observer thread takes one call per
step (`ObserverStep`), the user may post an observation, stop the scope or switch the
scheduler off between any two of these, and `Restart` keeps only what the scope and the
settings hold. Durations are timers that run out at some point; the list of targets,
their altitudes and the moon come down to the set `good`.

**Catalog and Ingest.** `file[f]` compares the disk with the row: `same` is what size and
mtime say, `new` has to be read. The walk visits what it listed at the beginning
(`Listed`, `VisitFrame`), `skipped` are the unchanged files whose `scanned_at` is not
bumped yet, and `RemoveOrphans` deletes the rows that were not. A session is a run of
consecutive frames; `IdOf` is the greedy match to the sessions of before, in the order of
time. `Ingest` adds the mirror, which knows a file is complete by its size, the callbacks
of `server/api.py` that tie it to the scan slot and to the auto stacker, and the tick of
the stacker with its two separate looks at the catalog (`StackFind`, `StackSubmit`).

**DarkMatch, ToolRun and Pipeline.** `MatchDark`, `BundleDarks` and `PickDark` are
`_match_dark`, `match_bundle_darks` and `_pick_dark`. A light is the cards of its header, which the
scanner (`RowExp`, `RowTemp`) and the node (`HeaderExp`, `HeaderTemp`) read by different rules:
EXPTIME or EXPOSURE against EXPTIME alone, three cards for the temperature against two others.
Temperatures are integers, 0.0 counts as no temperature where the code writes `or`, and a list of bins with and without
temperatures cannot be sorted (`Unsortable`, a `TypeError`: outcome `crashed`).
`ToolRun` is one program: `reader` is the node's thread in `SirilRuntime.run` or
`run_streamed`, `dog` the watchdog, and the program may block on a full stderr, close its
output and go on, or ignore SIGTERM until it is killed. `SirilMeter` and `StreamMeter` are
the two handlers that turn lines into progress. In `Pipeline` the job builder refuses or
accepts a request, picks lights (`Staging`, `LightsFolder`) and darks, and the nodes run
one after another; a node is a record of how it uses its program (which one, with which
band of the bar, whether it can be switched off, whether it counts its frames).
`calibrate` is the node that routes: `GroupCalls` is a program for each group of frames. `says` are
the fractions a node reports itself, before its programs, in place of them or after them (`Reports`).

## 4. What the runs check

| run | question | answer |
|---|---|---|
| `jobqueue_single` | Does the log tell the truth, and does everything move, with one worker process at a time, through two crashes, a signal, a database that stays locked? | The log names the outcome once, last; outcomes are final; the queue implements `JobLifecycle`. Deserted rows are reclaimed, cancelled runs end, queued jobs start, a drain exits. |
| `jobqueue_overlap` | What is left when two workers overlap and take each other's jobs for dead, PIDs are reused and monitors die? | No gap in seqs, one executor per job though two may select the same row, nothing finished starts again, a job cancelled in the queue never runs. (Outcomes are no longer final: `_terminate` writes over a reclaimed row.) |
| `eventstream` | What does a socket show? | Exactly a prefix of the log, and with the outcome it closes. |
| `cache_alone` | Can a run read what its plan took for a hit? | Yes, with sweeps before jobs, forced runs and a crash anywhere. |
| `cache_shared` | And with the monitor's sweep and a request that sweeps, purges or deletes beside it? | As long as no request has swept, committed entries are complete and the entries of a running job survive; runs end in any case. (A purge by a request can leave a committed entry with a part of its outputs, section 7.) |
| `cache_headroom` (violation) | Is what a node is about to read safe from sweeps, as `server/jobs.py:656` says? | No: the sweep for a node's own headroom runs before the node marks its inputs. |
| `cache_forced` (violation) | Does every entry of the running job survive the sweeps of the worker, as `server/jobs.py:504` says? | Not if the job is forced: the sweep finds an entry unmarked, the run wipes and makes it anew, and then the removal goes on. |
| `projects_one` | Is the history linear, do memory and disk agree, does every live job show, does an editor see an undo history? | Yes for one request at a time, unless a write was lost: the object implements `EditHistory`, an edit after an undo drops nothing; settled entries are never overwritten. (What is left with overlapping requests is `RequestsRestInOrder`, section 5.) |
| `scope_night` | Do scheduler, observer, user and a scope that loses answers get along? | Only an observation posted in the same tick is ever cut off or replaced; by day all comes to rest; bad runs are left; rain is told unless the alert is lost. |
| `ingest` | Is the catalog what is on disk, while the mirror copies, files vanish and the server restarts? | Yes for every scan that reaches its end; growth keeps the ids of sessions; the slot never blocks for good. |
| `pipeline` | Do the darks a session or a frame was matched with arrive, does the bar move forward, does a cancel end the run and its program? | Yes, with two exceptions for the bar (section 6). |
| `pipeline_dark` (violation) | Does a frame without a matching dark stay uncalibrated, as `nodes/basic/calibrate.py:34` says? | Not when the pool holds one dark: every frame gets it. |

### Bounds, and why they are enough

- *Job queue.* Two jobs and two PIDs: order in the queue and every conflict of two
  processes over one row need no more. `MaxNodeEvents` 1 gives a log all its shapes
  (before, at, after node events; `eventstream` has 2). `MaxCrashes` 2 lets the
  worker that reclaims crash as well. `MaxSignals` 1: the flags are idempotent.
  `PidReuse` and `LateBeat` are TRUE where two workers overlap and FALSE in
  `jobqueue_single`, whose liveness properties they break: a monitor that died sees no
  cancellation, and a reclaim takes a row that bears its own PID for one of a live worker.
  All but the liveness results of this part are proved, without bounds and for both values.
- *Cache.* Four hashes in three layers, with a node shared by two jobs and one that
  reads two layers: hits, skipped nodes, must-run chains and forced wipes all occur.
  Three jobs let one start with what two left. `cache_shared` has a smaller chain
  (two nodes), a budget of one entry so that every sweep has work, one sweep per
  thread and one crash. An entry is one unit large: a sweep stops between any two.
  Budgets are one or two entries, and the first job has read the smaller: sweeps change their mind
  between jobs. `PidReuse` is TRUE in `cache_alone`: a reclaim may spare any row.
  `SlowSweep`, `SlowPlan` and `CrashTears` are FALSE in the runs: a sweep that outlasts
  `join(timeout=5)`, or a plan that outlasts the 30 s before the monitor's first sweep, breaks
  `OutputsSurvive`, and a death inside `rmtree` breaks `CommittedIsComplete`; see section 7.
- *Projects.* Two jobs and seqs up to 2. Three entries are what an edit after an undo needs: one
  that is shown again, one that was undone, one that goes behind both. Two jobs are enough for
  three entries, because a swap of sessions that is not rendered yet (draft mode) keeps the job of
  the entry before, and with the second job an edit collapses or appends. One fault (a lost write, or a restart
  inside a request). A job is live or settled, or interrupted, which is all that
  `patch` tells apart. `projects_one` has one request thread; some of its properties
  are false with two (section 6).
- *Scope.* One target: what a second one adds is the choice between the two, which is
  left open anyway, and one skipped target already makes `good \\ skips` empty. Runs of
  two frames with a probe of one, so that a run can fail, stall, pass and be caught in its
  middle. One trouble (`MaxTroubles`): a call that fails or loses its answer, an
  observation by the user, or a restart, at every place.
- *Catalog.* Three frames make every shape of clusters: two sessions, the frame that
  joins them, a session that is split when its middle goes. `ClusterEvery` 2 puts a
  clustering inside a scan; one trouble is a file lost or rewritten, an unmount, an
  error of a round or a scan, or a restart.
- *Pipeline.* Twelve requests over seven sessions: with and without darks and temperatures, mixed
  exposures and filters, a corrupt light, a session of two folders, and one without a camera whose lights
  have the cards of three capture programs (EXPTIME, EXPOSURE alone, a sensor at 0 degrees). Two lines move the bar per program, enough for a drop and a new phase;
  one frame may be lost silently (`MaxLost`). The templates are the two of `templates/`,
  node by node.

`CHECK_DEADLOCK FALSE` stands where the bounds end a behaviour: all jobs submitted,
all sweeps used, no seq left.

### Fairness

- `JobQueue!Fairness`: the worker's main thread takes its steps, a worker
  that is down is started again (after a crash by systemd, `Restart=on-failure`; after a
  drain or a stop by the operator who asked for it, an assumption), the monitor thread polls, and a run that saw its cancel event ends. Weak fairness is
  enough because none of these is disabled by others for ever. That a run ends by
  itself is not assumed: where needed it stands in the property (`EveryRunEnds`).
- `EventStream!StreamSpec` adds that the coroutine of a connected client runs. The
  client itself may leave or come back at any time, and is under no obligation.
- `ScopeNight!Fairness`: both threads go on (a call is answered or times out, that is the
  socket timeout) and timers run out. Strong fairness for the tick that finds the weather
  due, because such ticks come again and again between others. The sky, the frames of
  the scope and the user owe nothing; conditions on them stand in the properties.
- `Ingest!Fairness`: a scan under way takes its steps. Requests for scans are not owed:
  `ScansCatchUp` assumes they are made.
- `Pipeline!Fairness`: the node's thread, the reader and the watchdog run. The program
  owes nothing: it may hang, so nothing is promised of a run that is not cancelled.
- `CacheRuntime!FairSpec`: the worker's thread and each sweeping thread go on, and a
  node returns or raises. Submissions, sweeps and crashes are never obliged.

## 5. What is proved

Every invariant and every action property of the passing runs is also a theorem, which TLAPS
checks for every value of the constants that satisfies the named assumptions: for any number
of jobs, workers, clients, sweeping threads, frames, darks, sessions and nodes, and any bound.
The assumptions are:

- `ConstantsAssumption`, `CacheAssumption`, `NamesAssumption`, `ProjectAssumption`,
  `NoneAssumption`, the two `FramesAssumption`, `ClusterEveryAssumption`: types, bounds that are
  numbers, and placeholders that are no job. What they say of the code: job ids are numbers given
  out in order (SQLite); a template lists a node after those it reads (`_topo_order`), its results
  are nodes of it, and there are finitely many hashes; a probe is no longer than a run of the scope.
- `DarksAssumption`, `SessionsAssumption`, `RequestsAssumption`: the catalog is finite, ids are
  primary keys, a session groups frames whose rows have one exposure and gain (the scanner's
  clustering key; what the node reads of their headers is left open), no light has 0 s, cards are integers and
  Siril's conversion keeps them; a template is a sequence of the eighteen kinds, and has a calibrate
  node where the job builder is to choose darks, as both built-in templates have.

Hypotheses of single theorems are stated in them and name what the code does not exclude:
`~Overlap` (one worker process at a time, as systemd or Docker runs it), `~CrashTears`,
`~SlowSweep`, `~SlowPlan`, `Alone` (no sweep of a request, of a monitor or for headroom, no death inside
`rmtree`: the setting of run `cache_alone`) and `Lone` (one request thread, the setting of run
`projects_one`). They are needed: TLC finds `OutcomeIsFinal` violated with overlapping workers,
`CommittedIsComplete` with `CrashTears`, `OutputsSurvive` with `SlowSweep` or `SlowPlan`, `InputsSurvive` with a
sweep for headroom, and the properties of `Projects` but for the types with two threads.
The same holds of what the properties of the cache say of themselves: `CommittedIsComplete` and
`OutputsSurvive` speak of the time before a request of the API has swept, the first of a cache
that no job makes anew.

*JobQueue_proofs.* `TypeCorrect` and `LogNeverHasAGap` rest on `TypeInv`: types and the shape
of the log (seqs form an initial segment), which `_persist_event` extends by one.
`OneExecutorAlways` and `NeverRestartedAlways` hold with overlapping workers, of which several
may have selected the same row: `AND status = 'queued'` of the UPDATE decides between them. The first needs
`ExecInv`: an executed job has left the queue and its row names its executor.
`CancelledNeverRuns` holds with overlap, too. A job cancelled in the queue is `Barred`: flagged,
with no node event, and held at most by workers that have not read the flag or have given up.
Nothing unbars it, because the flag is never cleared and `check` reads it before the run.
Under `~Overlap`, `LogAlwaysTells`, `OutcomesAreFinal` and `QueueKeepsPromise` (the refinement
of `JobLifecycle`) follow from `SoloInv`: at most one process is up, what it executes and what a
reclaim remembers still runs, a row it has selected waits, and the log of each job tells its status.
`JobLifecycle` chooses the oldest job that waits and starts it later, when an older one may have
arrived: that is the order the code keeps. `DbStep` reduces every
action to five things a step can do to the database, and the rest of the argument is about those.

*EventStream_proofs.* The stream needs two things of the queue: `LogInv` (no event without a
row), and `LogGrows` of every step (no event is changed or taken away). `StreamInv` says of a
follower that what it received is the log before its cursor and that its batch is the next rows in
order, hence `StreamIsFaithful`. The rows of a poll are sorted by rank (`InOrder`);
`InOrderOfInterval` says that the i-th of the seqs k, k+1, ... is k+i-1. `StreamTellsOutcome` adds
`LogAlwaysTells`: after the outcome there is nothing more to send.

*CacheRuntime_proofs.* `TypeCorrect` needs the inductive `IInv`: types, a job in work has a
request, the main thread sweeps only where it waits for its sweep, with something to free whenever
it evicts. That what is committed is complete is `Whole`, with `NodeOK` for the entry in work: a sweep
that breaks an entry has it as its target until it is gone and takes its marker with everything it has listed,
`reserve` wipes an entry with its marker, `commit` writes `_done` last. It is inductive as long as the run
and the sweeps are `Apart`, no sweep having chosen the entry of the node in work; beside a sweep that has,
`rmtree` leaves a remainder that `commit` accepts. What keeps them apart differs.
With the worker alone, main waits for its sweep. `PlanIsClosed` is about the recursive function `MustRun`:
results and inputs of nodes that run are hits or run, too. With it, `AloneInv` (hits stay committed from
the plan on, what the run has passed is committed) gives `HitsAlwaysServed`, `InputsAlwaysSurvive` and
`ResultsAlwaysThere`. `OutputsAlwaysSurvive` is the theorem about sweeps beside a run, on whatever
budget each of them. `OwnInv` has the parts `Base` (a sweep never begun is not under way, only the
runner's row is running, a committed entry has files), `Calm` (before a run no monitor sweeps: the last
one was joined, `~SlowSweep`, and the next one waits 30 s, `~SlowPlan`), `PlanOK` (what is committed is
a hit of the plan) and `Guarded` (inside the run: what the job has committed bears its mark, and no sweep
has such an entry as its target or a list of live jobs without it). The two meet where the plan ends:
nobody sweeps then, so nothing chosen before can be planned as missing and made again under
the sweep's hands. `CommittedComplete` follows from `Guarded`, which is `Apart` for a job that is not
forced, and needs that no job is (`Unasked`: requests that were not made are none).

*Projects_proofs.* `TypeCorrect` holds for any number of threads: a request names an entry of the
history and a job that exists, which needs `RequestsOK` and `RowsOK` (rows have distinct seqs).
`RequestsRestInOrder` does, too. Overlapping edits may take one seq, and a deletion may run beside an
edit; `OverlapInv` says that a seq that is in the history twice is in `Dispute`, still to be inserted
by all but one of the requests that put it there, and that a seq whose row is missing is owed by a request
(`Debt`). The key of the table lets one of the disputants insert, so when all requests are over and none was
refused, no seq is there twice and the rows are the history. Restarts are then harmless
by `RehydratedInOrder`; one beside a deletion needs `Tabled`. What is not excluded is the refused insert
itself: it is logged and dropped, and from then on memory and table differ.
The others need `Lone`. `LoneInv` holds whatever is lost: no seq twice, every row backed by
an entry with the same job or one that was given up; hence `SettledRowsKept`. `SoundInv` says what
more holds while nothing is lost: the history is `Linear`, rows `Agree` with it but for what the
request under way has still to write, every job that may run is `Shown`. `ProjectKeepsHistory` is the
refinement of `EditHistory`, which promises nothing once a write or the rest of a request was lost.
It needs one more invariant, `TipInv`: an append or a replacement under way starts from the edit
that is shown, and the job it has submitted is in no other edit. `SoundInv` does not give
that, since it compares memory with the tables and not with what the request remembers.

*ScopeNight_proofs.* `BarrelClosesOnlyIdle` and `RunsAreNeverReplaced`: `QuietTick` says what a tick
knows. It looked at the observer first, and from then on only a posted observation can have started
it; if the status it read had no run there is none when it gets to the barrel, a probe or a target,
because without an observer nobody else starts one and a probe is over before the target is picked.

*Ingest_proofs.* `ScanAlwaysComplete`: by `ScanInv` a file that stayed readable is still to be
visited or was seen, and what was seen has a row that the flush will mark before orphans go.
`GrowthAlwaysKeepsSessions`: `SessInv` says sessions are disjoint intervals of the rows. Clusters of
more rows only join old sessions, so each old session lies in one cluster. The greedy
`IdOf` (a recursive function over clusters in time order) gives each cluster the id of the old session
that overlaps most, and no id twice.

*Pipeline_proofs.* `NoProgramOutlivesItsRun`: by `ToolInv` a program is at work only while the
node's thread reads or waits, unless that thread raised, which ends the run as failed: the one way, by an event
that cannot be written (`server/siril.py:404`) or a wait that times out (`server/subproc.py:248`), in which a run leaves its
program. `PromisedDarkAlwaysApplied`: lemmas say of
the matchers that sorting loses nothing, that the choice for a bundle serves every bin a dark
serves, warm, cold or by fallback, and that the choice for a frame finds one in that pool, if the node
reads the exposure the catalog has. `PromiseInv` carries this to the
calibrate node and past it. `Ordered`, a sort by rank, is characterised as a sequence that has
every element once (`OrderedIsOnce`). `BarAlwaysRises`: by `BarInv` the bar is at most where the
next program begins; while it runs, at most what its meter shows, scaled to the program's window;
afterwards, at most the end of the window; what the node will report itself lies between (`Coming`,
`Below`). `WindowRises` and `MeterRises` are the arithmetic of
rounded shares, `NodeTable` covers the kinds of nodes. The windows of the groups of a calibration
follow each other as long as no frame is lost (`Shares`), the case the property excludes
by name. It holds for templates of any length and order.

Only model-checked: liveness (`DesertedRowIsReclaimed`, `CancelledRunEnds`, `QueuedIsStarted`,
`DrainExits`, `StreamEnds`, `RunsEnd`, `QuietByDay`, `RunsAreLeft`, `RainIsTold`, `ScansCatchUp`,
`CancelEnds`), since fairness and ENABLED are beyond the prover. No module declares a RECURSIVE
operator: recursions of the code are recursive functions, of which the proofs use the defining
equation and a least or a last counterexample.

## 6. Findings

Three disagreements between the code and what its own comments say have a run each,
`cache_headroom`, `cache_forced` and `pipeline_dark`; `PROJECT.json` quotes the lines of both
sides. The second came out of a proof: `OutputsSurvive` did not follow for forced jobs, whose
`reserve` wipes a directory the monitor's sweep may already have chosen.

Others were met while modelling and have no run of their own. The first four can be seen by
putting the named property, which is in its module, into a configuration, the next two by dropping a
condition of theirs:

- SIGTERM does not cancel the running job, as `server/worker.py:11` says: the loop looks at
  the flag when the run is over (`SigtermCancelsRunningJob`).
- A row with an old heartbeat is not reclaimed, as `server/jobs.py:531` says, if the worker
  came back quickly under the same PID: the reclaim runs once (`DesertedRowIsReclaimed` with
  `PidReuse`).
- Two edits that overlap cancel the same job, and the second leaves a job it supersedes
  running, against `server/projects.py:336` (`EditsCancelWhatTheySupersede`, two threads).
- A revert moves the pointer and does not bring back the sessions, against
  `server/projects.py:121` (`RevertRebindsSessions`).
- A frame whose exposure the catalog has from `EXPOSURE` (`server/catalog/scanner.py:168`) counts as
  matched by session and bundle, and the calibrate node, which reads `EXPTIME` only
  (`nodes/basic/calibrate.py:192`), leaves it uncalibrated if the request has several darks
  (`PromisedDarkIsApplied` without its condition on the header).
- The rain warning is marked as sent before it is (`server/scope_scheduler.py:136`), and a failed
  POST is logged and forgotten (`server/scope_alerts.py:26`): nobody is warned of that rain
  (`RainIsTold` without its condition on lost alerts).
- The bar goes back in two nodes, against `tests/test_progress_monotonic.py:1`: `auto_bp_shift`
  reports 30 % and hands Siril a band that begins at 20 %; and in a calibration by groups, the
  next group begins where the frames actually written end, below the bar if a program left
  frames out. `BarNeverRewinds` excludes both by name.
- `sorted(buckets.items())` (`server/catalog/matching.py:473`) compares a temperature with
  `None` when the frames of one exposure have both, and raises; 0.0 degrees counts as none.
- Lights of several sessions are linked under session and file name
  (`server/job_builder.py:542`), so equal names in two folders of one session overwrite each
  other; a single session is its whole folder, other sessions' frames included.

## 7. Not modelled, and limits

- A death inside `rmtree` (`CrashTears`) can leave `_done` without outputs, which
  `cache.py:6` excludes; a sweep that outlasts `join(timeout=5)` (`SlowSweep`) works with
  an old list of live jobs in the next run; a plan that takes more than 30 s (`SlowPlan`) is made
  while the monitor sweeps; a request of the API may evict what a run
  marks between the test and the removal (`storage.py:523`), and if the run reserves and commits
  the same entry meanwhile, the remainder of `rmtree(ignore_errors=True)` (`cache.py:221`) stays committed,
  because `commit` tests paths (`cache.py:117`). So `OutputsSurvive` and `CommittedIsComplete` speak of
  caches without such a request, and the theorems assume
  `~SlowSweep` and `~SlowPlan`. The constants exist and the actions are there, and the theorems hold for
  every value of the constants their hypotheses leave open; no run shows what these four
  events break, and TLC does find it if the condition is dropped.
- `CacheRuntime` leaves out sizes and ages of entries and legacy payloads; `Projects`
  leaves out cover, description and draft mode, which touch no job and no history.
- `ScopeNight` assumes a configured service and site, leaves out the text of states and
  notices other than the weather alert, and lets the sky and the list of targets move freely.
- `Catalog` has one setup and target, and no rows of masters or target resolution; a file
  is readable or not. The walk lists at once what the code lists directory by directory.
- `Ingest` has one capture session; the resumption of a `.part` file ends as a copy from the
  beginning does. A capture whose last scan was dropped (slot taken) is stacked without its
  last frames until something asks for a scan again: no property forbids it.
- `Projects`: with overlapping requests a collapse may replace an entry another edit builds on, and a
  job may be left running that no entry shows (`server/api.py:2838`); after a lost write memory and
  tables differ until the next restart. These are what the code does, and the properties of the
  run say so by their conditions; `TypeOK` and, for one thread, `SettledRowsAreKept` hold on.
- `Catalog` knows a directory that cannot be listed only as a root that is unmounted.
- `DarkMatch` covers darks only: flats and bias frames are matched by fewer fields of the
  same kind. The overrides of a user are the mode `explicit`.
- `Pipeline` takes the nodes of the templates with sequences of single frames (no template
  switches FITSEQ on), one program at a time; images, scripts and storage estimates are left
  out.
- The project page, startup and template migrations: see the notes of their components.
- Preview and image code, weather and sky formulas, FITS parsing, request validation
  and the Svelte pages hold no state that is shared by concurrent actors, or none
  that a model would say anything about. `PROJECT.json` lists every component with
  its status.
