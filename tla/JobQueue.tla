------------------------------ MODULE JobQueue ------------------------------
(***************************************************************************)
(* The job queue of astrolab: JobManager in the API process, JobWorker in  *)
(* the worker process and the loop of server/worker.py that drives it.     *)
(* The two processes share nothing but the catalog database: the table     *)
(* `jobs` (status, cancel_requested, worker_pid, heartbeat_at) and the     *)
(* table `job_events`, whose rows are numbered by seq within a job.        *)
(*                                                                         *)
(* A job is named by its submitted_at stamp, taken before the row is       *)
(* inserted: rows may therefore appear in any order of their names.        *)
(* A database transaction is one step, but a transaction begins only with  *)
(* the first statement that writes (db.py opens plain sqlite3 connections),*)
(* so a SELECT before it is a step of its own.  A worker is named by its   *)
(* PID.                                                                    *)
(***************************************************************************)
EXTENDS Naturals, FiniteSets

CONSTANTS
  Jobs,          (* submitted_at stamps, ordered as numbers                *)
  Workers,       (* PIDs a worker process can have                         *)
  None,          (* NULL in a column, "no record" in a worker              *)
  Overlap,       (* may two worker processes run at the same time?         *)
  PidReuse,      (* may a worker get the PID a `running` row still names?  *)
  LateBeat,      (* may a live worker let 120 s pass without a heartbeat?  *)
  MaxNodeEvents, (* node events one job emits            (bounds the model)*)
  MaxCrashes,    (* worker crashes in a behaviour        (bounds the model)*)
  MaxSignals     (* signals sent in a behaviour          (bounds the model)*)

ASSUME ConstantsAssumption ==
  /\ Jobs \subseteq Nat
  /\ None \notin Jobs /\ None \notin Workers
  /\ None \notin {"completed", "failed", "interrupted"}
  /\ {Overlap, PidReuse, LateBeat} \subseteq BOOLEAN
  /\ {MaxNodeEvents, MaxCrashes, MaxSignals} \subseteq Nat

Outcomes       == {"completed", "failed", "interrupted"}
Statuses       == {"absent", "queued", "running"} \cup Outcomes
TerminalEvents == {"job_completed", "job_failed", "job_interrupted"}
EventTypes     == {"job_queued", "job_started", "node_event"} \cup TerminalEvents

Announcement_Mutant(o) ==       \* interrupted falls into the last branch
  IF o = "completed" THEN "job_completed" ELSE "job_failed"

(* The event that announces an outcome.                                    *)
Announcement(o) == CASE o = "completed"   -> "job_completed"
                     [] o = "failed"      -> "job_failed"
                     [] o = "interrupted" -> "job_interrupted"

(* Where a worker's main thread stands.  "boot": in reclaim_stale; "loop": *)
(* at the head of the loop; "claim": past the test of stop; "selected":    *)
(* with the id of a row to claim; "claimed": with a record; "check":       *)
(* entering _run; "sweep": in the pre-job sweep; "running": in run_job;    *)
(* "terminate": about to write the outcome.                                *)
Executing == {"claimed", "check", "sweep", "running", "terminate"}
Places    == {"down", "boot", "loop", "claim", "selected"} \cup Executing

VARIABLES
  status, cancelRequested, workerPid, fresh,   (* table jobs               *)
  log,                                         (* table job_events         *)
  pc, job, outcome, toCheck, toCheckStale,     (* a worker's main thread   *)
  stop, cancelCurrent,                         (* its signal flags         *)
  monitor, cancelEvent,                        (* its monitor thread       *)
  crashes, signals                             (* bounds                   *)

rowVars     == <<status, cancelRequested, workerPid, fresh>>
dbVars      == <<rowVars, log>>
runVars     == <<pc, job, outcome>>
bootVars    == <<toCheck, toCheckStale>>
flagVars    == <<stop, cancelCurrent>>
monitorVars == <<monitor, cancelEvent>>
boundVars   == <<crashes, signals>>
workerVars  == <<runVars, bootVars, flagVars, monitorVars>>
vars        == <<dbVars, workerVars, boundVars>>

-----------------------------------------------------------------------------
(* The event log of a job is a function from seq to event type.            *)

NextSeq_Mutant(seqs) == Cardinality(seqs) + 1       \* COUNT(seq) + 1

NextSeq(seqs) ==
  IF seqs = {} THEN 0 ELSE 1 + CHOOSE m \in seqs : \A s \in seqs : s <= m

(* _persist_event without a seq: the row goes in at MAX(seq) + 1.          *)
Persist(events, type) ==
  [s \in DOMAIN events \cup {NextSeq(DOMAIN events)} |->
     IF s = NextSeq(DOMAIN events) THEN type ELSE events[s]]

PersistEvent(j, type) == log' = [log EXCEPT ![j] = Persist(log[j], type)]

PidAlive(w) == w # None /\ pc[w] # "down"

(* Worker w is executing job j.                                            *)
Holds(w, j) == pc[w] \in Executing /\ job[w] = j

Queue_MutantResume  == {j \in Jobs : status[j] \in {"queued", "interrupted"}}
Queue_MutantSkip    == {j \in Jobs : status[j] = "queued" /\ ~cancelRequested[j]}
Oldest_Mutant(queue) == CHOOSE j \in queue : \A k \in queue : k <= j

(* The rows with status = 'queued', the condition of both statements of    *)
(* claim_next_queued, and the one its SELECT takes.                        *)
Queue         == {j \in Jobs : status[j] = "queued"}
Oldest(queue) == CHOOSE j \in queue : \A k \in queue : j <= k

Abandoned_Mutant(w, j) == ~PidAlive(workerPid[j]) /\ j \in toCheckStale[w]

(* reclaim_stale takes a row it read for abandoned: its process is dead,   *)
(* or its heartbeat was too old.                                           *)
Abandoned(w, j) == ~PidAlive(workerPid[j]) \/ j \in toCheckStale[w]

CancelSeen_Mutant(w) == FALSE

(* _read_cancel.                                                           *)
CancelSeen(w) == cancelRequested[job[w]]

-----------------------------------------------------------------------------
(* The API process.                                                        *)

(* JobManager.submit: the row and its first event, in one transaction.     *)
Submit(j) ==
  /\ status[j] = "absent"
  /\ status' = [status EXCEPT ![j] = "queued"]
  /\ log' = [log EXCEPT ![j] = [s \in {0} |-> "job_queued"]]
  /\ UNCHANGED <<cancelRequested, workerPid, fresh, workerVars, boundVars>>

(* JobManager.cancel: a row that is queued or running gets the flag.       *)
FlagCancel(j) ==
  cancelRequested' = [cancelRequested EXCEPT
                        ![j] = @ \/ status[j] \in {"queued", "running"}]

Cancel(j) ==
  /\ FlagCancel(j)
  /\ UNCHANGED <<status, workerPid, fresh, log, workerVars, boundVars>>

-----------------------------------------------------------------------------
(* The life of a worker process.                                           *)

(* The process is gone, and with it everything it held in memory.          *)
Vanish(w) ==
  /\ pc' = [pc EXCEPT ![w] = "down"]
  /\ job' = [job EXCEPT ![w] = None]
  /\ outcome' = [outcome EXCEPT ![w] = None]
  /\ toCheck' = [toCheck EXCEPT ![w] = {}]
  /\ toCheckStale' = [toCheckStale EXCEPT ![w] = {}]
  /\ stop' = [stop EXCEPT ![w] = FALSE]
  /\ cancelCurrent' = [cancelCurrent EXCEPT ![w] = FALSE]
  /\ monitor' = [monitor EXCEPT ![w] = FALSE]
  /\ cancelEvent' = [cancelEvent EXCEPT ![w] = FALSE]
  /\ UNCHANGED dbVars

Crash(w) ==
  /\ pc[w] # "down" /\ crashes < MaxCrashes
  /\ crashes' = crashes + 1
  /\ Vanish(w)
  /\ UNCHANGED signals

(* The process starts and reclaim_stale reads the running rows; a row with *)
(* no heartbeat for STALE_HEARTBEAT_SECONDS is remembered as stale.        *)
Boot(w) ==
  LET running == {j \in Jobs : status[j] = "running"} IN
  /\ pc[w] = "down"
  /\ Overlap \/ \A v \in Workers : pc[v] = "down"
  /\ PidReuse \/ \A j \in running : workerPid[j] # w
  /\ pc' = [pc EXCEPT ![w] = "boot"]
  /\ toCheck' = [toCheck EXCEPT ![w] = running]
  /\ toCheckStale' = [toCheckStale EXCEPT ![w] = {j \in running : ~fresh[j]}]
  /\ UNCHANGED <<dbVars, job, outcome, flagVars, monitorVars, boundVars>>

(* One turn of the loop of reclaim_stale.  The UPDATE is guarded by the    *)
(* status, the event is not.                                               *)
ReclaimRow(w, j) ==
  /\ pc[w] = "boot" /\ j \in toCheck[w]
  /\ toCheck' = [toCheck EXCEPT ![w] = @ \ {j}]
  /\ \/ /\ ~Abandoned(w, j)
        /\ UNCHANGED <<status, log>>
     \/ /\ Abandoned(w, j)
        /\ status' = [status EXCEPT ![j] = IF @ = "running" THEN "interrupted" ELSE @]
        /\ PersistEvent(j, "job_interrupted")
  /\ UNCHANGED <<cancelRequested, workerPid, fresh, runVars, toCheckStale,
                 flagVars, monitorVars, boundVars>>

EnterLoop(w) ==
  /\ pc[w] = "boot" /\ toCheck[w] = {}
  /\ pc' = [pc EXCEPT ![w] = "loop"]
  /\ toCheckStale' = [toCheckStale EXCEPT ![w] = {}]
  /\ UNCHANGED <<dbVars, job, outcome, toCheck, flagVars, monitorVars, boundVars>>

TestStop_Mutant(w) ==           \* `while True`
  /\ pc[w] = "loop"
  /\ pc' = [pc EXCEPT ![w] = "claim"]
  /\ UNCHANGED <<dbVars, job, outcome, bootVars, flagVars, monitorVars, boundVars>>

(* `while not shutdown.stop.is_set()`.                                     *)
TestStop(w) ==
  /\ pc[w] = "loop" /\ ~stop[w]
  /\ pc' = [pc EXCEPT ![w] = "claim"]
  /\ UNCHANGED <<dbVars, job, outcome, bootVars, flagVars, monitorVars, boundVars>>

Exit(w) ==
  /\ pc[w] = "loop" /\ stop[w]
  /\ Vanish(w)
  /\ UNCHANGED boundVars

(* SIGUSR1 drains; SIGTERM and SIGINT also set cancel_current.             *)
Signal(w) ==
  /\ pc[w] # "down" /\ signals < MaxSignals
  /\ signals' = signals + 1
  /\ stop' = [stop EXCEPT ![w] = TRUE]
  /\ \E terminate \in BOOLEAN :
        cancelCurrent' = [cancelCurrent EXCEPT ![w] = @ \/ terminate]
  /\ UNCHANGED <<dbVars, runVars, bootVars, monitorVars, crashes>>

-----------------------------------------------------------------------------
(* One job on the worker's main thread.                                    *)

(* claim_next_queued finds no row: back to the head of the loop.           *)
ClaimNothing(w) ==
  /\ pc[w] = "claim" /\ Queue = {}
  /\ pc' = [pc EXCEPT ![w] = "loop"]
  /\ UNCHANGED <<dbVars, job, outcome, bootVars, flagVars, monitorVars, boundVars>>

(* Its SELECT reads the oldest queued row outside any transaction.  (A     *)
(* locked UPDATE starts it over: the same as a SELECT made later.)         *)
Select(w) ==
  /\ pc[w] = "claim" /\ Queue # {}
  /\ job' = [job EXCEPT ![w] = Oldest(Queue)]
  /\ pc' = [pc EXCEPT ![w] = "selected"]
  /\ UNCHANGED <<dbVars, outcome, bootVars, flagVars, monitorVars, boundVars>>

Claim_Mutant(w) ==              \* UPDATE ... WHERE id = ?
  LET j == job[w] IN
  /\ pc[w] = "selected"
  /\ status' = [status EXCEPT ![j] = "running"]
  /\ workerPid' = [workerPid EXCEPT ![j] = w]
  /\ fresh' = [fresh EXCEPT ![j] = TRUE]
  /\ PersistEvent(j, "job_started")
  /\ pc' = [pc EXCEPT ![w] = "claimed"]
  /\ UNCHANGED <<cancelRequested, job, outcome, bootVars, flagVars, monitorVars, boundVars>>

(* The UPDATE takes the row if it is still queued: with the event, in one  *)
(* transaction.                                                            *)
Claim(w) ==
  LET j == job[w] IN
  /\ pc[w] = "selected" /\ j \in Queue
  /\ status' = [status EXCEPT ![j] = "running"]
  /\ workerPid' = [workerPid EXCEPT ![j] = w]
  /\ fresh' = [fresh EXCEPT ![j] = TRUE]
  /\ PersistEvent(j, "job_started")
  /\ pc' = [pc EXCEPT ![w] = "claimed"]
  /\ UNCHANGED <<cancelRequested, job, outcome, bootVars, flagVars, monitorVars, boundVars>>

(* It matches no row, another worker has it: back to the head of the loop. *)
LoseRow(w) ==
  /\ pc[w] = "selected" /\ job[w] \notin Queue
  /\ job' = [job EXCEPT ![w] = None]
  /\ pc' = [pc EXCEPT ![w] = "loop"]
  /\ UNCHANGED <<dbVars, outcome, bootVars, flagVars, monitorVars, boundVars>>

(* The loop forwards a SIGTERM it got before the claim.                    *)
ForwardCancel(w) ==
  /\ pc[w] = "claimed"
  /\ IF cancelCurrent[w] THEN FlagCancel(job[w]) ELSE UNCHANGED cancelRequested
  /\ cancelCurrent' = [cancelCurrent EXCEPT ![w] = FALSE]
  /\ pc' = [pc EXCEPT ![w] = "check"]
  /\ UNCHANGED <<status, workerPid, fresh, log, job, outcome, bootVars, stop,
                 monitorVars, boundVars>>

(* _run reads cancel_requested before it starts anything.                  *)
CheckCancel(w) ==
  /\ pc[w] = "check"
  /\ IF CancelSeen(w)
     THEN /\ pc' = [pc EXCEPT ![w] = "terminate"]
          /\ outcome' = [outcome EXCEPT ![w] = "interrupted"]
     ELSE /\ pc' = [pc EXCEPT ![w] = "sweep"]
          /\ UNCHANGED outcome
  /\ UNCHANGED <<dbVars, job, bootVars, flagVars, monitorVars, boundVars>>

(* The pre-job sweep is over: the monitor thread starts, then run_job.     *)
StartRun(w) ==
  /\ pc[w] = "sweep"
  /\ pc' = [pc EXCEPT ![w] = "running"]
  /\ monitor' = [monitor EXCEPT ![w] = TRUE]
  /\ UNCHANGED <<dbVars, job, outcome, bootVars, flagVars, cancelEvent, boundVars>>

(* event_sink persists an event of a node.                                 *)
NodeEvent(w) ==
  /\ pc[w] = "running"
  /\ Cardinality({s \in DOMAIN log[job[w]] : log[job[w]][s] = "node_event"})
       < MaxNodeEvents
  /\ PersistEvent(job[w], "node_event")
  /\ UNCHANGED <<rowVars, workerVars, boundVars>>

(* run_job returns, fails, or raises JobCancelled once the event is set.   *)
RunEnds(w) ==
  /\ pc[w] = "running"
  /\ \E o \in Outcomes :
       /\ o = "interrupted" => cancelEvent[w]
       /\ outcome' = [outcome EXCEPT ![w] = o]
  /\ pc' = [pc EXCEPT ![w] = "terminate"]
  /\ UNCHANGED <<dbVars, job, bootVars, flagVars, monitorVars, boundVars>>

StopMonitor_Mutant(w) == UNCHANGED monitorVars

(* The finally clause of _run.                                             *)
StopMonitor(w) ==
  /\ monitor' = [monitor EXCEPT ![w] = FALSE]
  /\ cancelEvent' = [cancelEvent EXCEPT ![w] = FALSE]

(* _terminate: UPDATE ... WHERE id, whatever the status, and the terminal  *)
(* event, in one transaction; the finally clause stops the monitor.        *)
Terminate(w) ==
  /\ pc[w] = "terminate"
  /\ status' = [status EXCEPT ![job[w]] = outcome[w]]
  /\ PersistEvent(job[w], Announcement(outcome[w]))
  /\ pc' = [pc EXCEPT ![w] = "loop"]
  /\ job' = [job EXCEPT ![w] = None]
  /\ outcome' = [outcome EXCEPT ![w] = None]
  /\ StopMonitor(w)
  /\ UNCHANGED <<cancelRequested, workerPid, fresh, bootVars, flagVars, boundVars>>

(* The transaction of _terminate stays locked through its retries.  Inside *)
(* the try (a completed run) the handler records a failure instead;        *)
(* anywhere else the exception leaves the loop and the process exits.      *)
TerminateLocked(w) ==
  /\ pc[w] = "terminate" /\ crashes < MaxCrashes
  /\ crashes' = crashes + 1
  /\ IF outcome[w] = "completed"
     THEN /\ outcome' = [outcome EXCEPT ![w] = "failed"]
          /\ UNCHANGED <<dbVars, pc, job, bootVars, flagVars, monitorVars>>
     ELSE Vanish(w)
  /\ UNCHANGED signals

-----------------------------------------------------------------------------
(* The monitor thread of _run, and time.                                   *)

Heartbeat(w) ==
  /\ monitor[w]
  /\ fresh' = [fresh EXCEPT ![job[w]] = TRUE]
  /\ UNCHANGED <<status, cancelRequested, workerPid, log, workerVars, boundVars>>

PollCancel_Mutant(w) ==         \* a monitor that only beats
  monitor[w] /\ UNCHANGED vars

PollCancel(w) ==
  /\ monitor[w] /\ cancelRequested[job[w]]
  /\ cancelEvent' = [cancelEvent EXCEPT ![w] = TRUE]
  /\ UNCHANGED <<dbVars, runVars, bootVars, flagVars, monitor, boundVars>>

(* The heartbeat's transaction stays locked through its retries: the       *)
(* exception ends the thread, and the run goes on without it.              *)
MonitorDies(w) ==
  /\ monitor[w] /\ LateBeat
  /\ monitor' = [monitor EXCEPT ![w] = FALSE]
  /\ UNCHANGED <<dbVars, runVars, bootVars, flagVars, cancelEvent, boundVars>>

(* 120 s go by without a heartbeat.                                        *)
GoStale(j) ==
  /\ status[j] = "running" /\ fresh[j]
  /\ LateBeat \/ \A w \in Workers : ~Holds(w, j)
  /\ fresh' = [fresh EXCEPT ![j] = FALSE]
  /\ UNCHANGED <<status, cancelRequested, workerPid, log, workerVars, boundVars>>

-----------------------------------------------------------------------------
Init ==
  /\ status = [j \in Jobs |-> "absent"]
  /\ cancelRequested = [j \in Jobs |-> FALSE]
  /\ workerPid = [j \in Jobs |-> None]
  /\ fresh = [j \in Jobs |-> FALSE]
  /\ log = [j \in Jobs |-> [s \in {} |-> "job_queued"]]
  /\ pc = [w \in Workers |-> "down"]
  /\ job = [w \in Workers |-> None]
  /\ outcome = [w \in Workers |-> None]
  /\ toCheck = [w \in Workers |-> {}]
  /\ toCheckStale = [w \in Workers |-> {}]
  /\ stop = [w \in Workers |-> FALSE]
  /\ cancelCurrent = [w \in Workers |-> FALSE]
  /\ monitor = [w \in Workers |-> FALSE]
  /\ cancelEvent = [w \in Workers |-> FALSE]
  /\ crashes = 0
  /\ signals = 0

(* What the main thread of a worker does by itself, run_job excepted.      *)
Control(w) ==
  \/ \E j \in Jobs : ReclaimRow(w, j)
  \/ EnterLoop(w) \/ TestStop(w) \/ Exit(w)
  \/ ClaimNothing(w) \/ Select(w) \/ Claim(w) \/ LoseRow(w)
  \/ ForwardCancel(w) \/ CheckCancel(w) \/ StartRun(w) \/ Terminate(w)

Next ==
  \/ \E j \in Jobs : Submit(j) \/ Cancel(j) \/ GoStale(j)
  \/ \E w \in Workers :
       \/ Control(w) \/ NodeEvent(w) \/ RunEnds(w)
       \/ Heartbeat(w) \/ PollCancel(w) \/ MonitorDies(w)
       \/ Boot(w) \/ Signal(w) \/ Crash(w) \/ TerminateLocked(w)

Spec == Init /\ [][Next]_vars

(* A worker that stopped is started again (systemd, an operator), its      *)
(* threads make progress, and a run ends once its cancel event is set (the *)
(* Siril subprocess is terminated).  A run nobody cancels may last.        *)
Fairness ==
  \A w \in Workers :
    /\ WF_vars(Boot(w))
    /\ WF_vars(Control(w))
    /\ WF_vars(PollCancel(w))
    /\ WF_vars(cancelEvent[w] /\ RunEnds(w))

FairSpec == Spec /\ Fairness

(* Every run ends some day, cancelled or not: assumed where it is needed.  *)
EveryRunEnds == \A w \in Workers : WF_vars(RunEnds(w))
-----------------------------------------------------------------------------
(* Type invariant.  A worker names a job exactly while it claims or        *)
(* executes one, has an outcome exactly while it has one to write, and a   *)
(* monitor thread only around run_job.                                     *)
TypeOK ==
  /\ status \in [Jobs -> Statuses]
  /\ cancelRequested \in [Jobs -> BOOLEAN]
  /\ workerPid \in [Jobs -> Workers \cup {None}]
  /\ fresh \in [Jobs -> BOOLEAN]
  /\ DOMAIN log = Jobs
  /\ \A j \in Jobs : /\ DOMAIN log[j] \subseteq Nat
                     /\ \A s \in DOMAIN log[j] : log[j][s] \in EventTypes
  /\ pc \in [Workers -> Places]
  /\ job \in [Workers -> Jobs \cup {None}]
  /\ \A w \in Workers : job[w] # None <=> pc[w] \in Executing \cup {"selected"}
  /\ outcome \in [Workers -> Outcomes \cup {None}]
  /\ \A w \in Workers : outcome[w] # None <=> pc[w] = "terminate"
  /\ toCheck \in [Workers -> SUBSET Jobs]
  /\ toCheckStale \in [Workers -> SUBSET Jobs]
  /\ stop \in [Workers -> BOOLEAN]
  /\ cancelCurrent \in [Workers -> BOOLEAN]
  /\ monitor \in [Workers -> BOOLEAN]
  /\ cancelEvent \in [Workers -> BOOLEAN]
  /\ \A w \in Workers : monitor[w] => pc[w] \in {"running", "terminate"}
  /\ crashes \in Nat
  /\ signals \in Nat

LogLength(j) == Cardinality(DOMAIN log[j])

(* The seqs of a job are 0, 1, 2, ... without a gap.  stream_job_events    *)
(* relies on it: it advances its cursor by one for every event it sends,   *)
(* whatever the seq of the event, so one gap would make it send events     *)
(* twice for ever.                                                         *)
LogContiguous == \A j \in Jobs : DOMAIN log[j] = 0 .. (LogLength(j) - 1)

(* However many worker processes poll the queue, restart and crash, no job *)
(* is executed by two of them, and the row names the one that does.  Two   *)
(* may select the same row: the guard of the UPDATE lets one have it, and  *)
(* no row goes back to queued.                                             *)
OneExecutor ==
  \A j \in Jobs, w \in Workers :
    Holds(w, j) => /\ workerPid[j] = w
                   /\ \A v \in Workers : Holds(v, j) => v = w

(* The first n events of job j tell its status.                            *)
Told(j, n) ==
  /\ status[j] = "absent" => n = 0
  /\ status[j] = "queued" => n = 1
  /\ status[j] \notin {"absent", "queued"} => n >= 2
  /\ \A s \in DOMAIN log[j] :
       log[j][s] \in TerminalEvents <=> status[j] \in Outcomes /\ s = n - 1
  /\ status[j] \in Outcomes => log[j][n - 1] = Announcement(status[j])

(* With one worker process at a time, the log of a job tells its status:   *)
(* nothing terminal while it is queued or running, and once it is finished *)
(* one terminal event, the last, that names the outcome in the row.        *)
LogTellsStatus == \A j \in Jobs : Told(j, LogLength(j))

(* With one worker process at a time, a job that has an outcome keeps it:  *)
(* neither a worker that comes back nor a reclaim rewrites a finished row. *)
OutcomeIsFinal ==
  [][\A j \in Jobs : status[j] \in Outcomes => status'[j] = status[j]]_vars

(* With any number of processes, at least no finished job starts again,    *)
(* although one of them may have selected it before another claimed and    *)
(* finished it.                                                            *)
NeverRestarted ==
  [][\A j \in Jobs : status[j] \in Outcomes => status'[j] \in Outcomes]_vars

(* A job cancelled while it waits in the queue never gets to run_job: no   *)
(* node event ever appears in its log, whenever the worker claims it.      *)
CancelledInQueueNeverRuns ==
  \A j \in Jobs :
    [](status[j] = "queued" /\ cancelRequested[j] =>
         [](\A s \in DOMAIN log[j] : log[j][s] # "node_event"))

-----------------------------------------------------------------------------
(* Liveness.                                                               *)

Deserted(j) == status[j] = "running" /\ \A w \in Workers : ~Holds(w, j)

(* "Mark abandoned 'running' rows as interrupted": a row that still says   *)
(* running when nobody executes the job gets an outcome.                   *)
DesertedRowIsReclaimed == \A j \in Jobs : Deserted(j) ~> ~Deserted(j)

(* A running job whose cancellation was accepted ends, although its run    *)
(* would go on for ever by itself.                                         *)
CancelledRunEnds ==
  \A j \in Jobs : status[j] = "running" /\ cancelRequested[j]
                    ~> status[j] \in Outcomes

(* Every queued job is started, or interrupted, although workers drain,    *)
(* crash and come back, provided that every run ends some day.             *)
QueuedIsStarted ==
  EveryRunEnds => \A j \in Jobs : status[j] = "queued" ~> status[j] # "queued"

(* A worker asked to drain leaves once its job is over, with the same      *)
(* proviso.                                                                *)
DrainExits == EveryRunEnds => \A w \in Workers : stop[w] ~> pc[w] = "down"

(* server/worker.py:11 "SIGTERM drain AND cancel the running job".         *)
SigtermCancelsRunningJob ==
  \A w \in Workers, j \in Jobs :
    Holds(w, j) /\ pc[w] = "running" /\ cancelCurrent[w] ~> status[j] # "running"

-----------------------------------------------------------------------------
(* What the queue promises its users, with one worker process at a time.   *)
Announced == [j \in Jobs |-> [o \in Outcomes |->
                Cardinality({s \in DOMAIN log[j] : log[j][s] = Announcement(o)})]]

(* The row a worker has selected and not yet claimed.                      *)
Selected == {job[w] : w \in {v \in Workers : pc[v] = "selected"}}

Promise == INSTANCE JobLifecycle WITH
  phase <- status, chosen <- Selected, announced <- Announced

(* Every step of the two processes is a step of the abstract life cycle.   *)
KeepsPromise == Promise!Spec
=============================================================================
