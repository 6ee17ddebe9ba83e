------------------------------ MODULE Projects ------------------------------
(* One project of server/projects.py: the object that request threads of   *)
(* the API edit in place, its row and its history rows in the catalog, and *)
(* the jobs it submits.  The lock of ProjectManager guards the map of      *)
(* projects only, so everything a request does to its project interleaves  *)
(* with other requests, with the worker and with a restart.                *)
EXTENDS Naturals, Sequences, FiniteSets

CONSTANTS
  Jobs,          \* ids of jobs, numbered as they are submitted
  Params,        \* parameters a user may override
  Sessions,      \* session sets a project may be bound to
  Threads,       \* request threads of the API
  None,
  Retired,       \* Retired[v]: parameters that template version v lacks
  MaxSeq,        \* bound: the last seq of the history
  Pinned,        \* bound: seqs that users publish
  Faults         \* may a write fail or the API restart within a request, once?

ASSUME ProjectAssumption ==
  /\ Jobs \subseteq Nat
  /\ DOMAIN Retired \subseteq Nat \ {0} /\ 1 \in DOMAIN Retired
  /\ \A v \in DOMAIN Retired : Retired[v] \subseteq Params
  /\ MaxSeq \in Nat /\ Pinned \subseteq Nat /\ Faults \in BOOLEAN

Versions == DOMAIN Retired

VARIABLES
  project,              \* the Project object
  listed,               \* is it in _records?
  row, rows,            \* tables projects and project_history
  status, cancelled,    \* table jobs: status, cancel_requested
  made,                 \* table jobs: sessions and version of its request
  req,                  \* what each request thread is doing
  torn                  \* a write was lost, or a request cut short

disk == <<row, rows>>
queue == <<status, cancelled, made>>
vars == <<project, listed, disk, queue, req, torn>>

-----------------------------------------------------------------------------
(* The overrides of a state are the parameters that are not at their       *)
(* default: values are abstracted away.                                    *)

Overrides == SUBSET Params

(* _deep_merge_overrides: a value sets a parameter, None resets it.        *)
Merged(o, set, reset) == (o \cup set) \ reset

(* migrate_param_overrides.                                                *)
Migrated(o, v) == o \ Retired[v]

Kinds == {"edit", "swap_sessions", "template_upgrade"}

(* HistoryEntry; a snapshot is the session set or version it repeats.      *)
Entry == [seq : Nat, job : Jobs, overrides : Overrides, published : BOOLEAN,
          kind : Kinds]

Row == [current : Nat, version : Versions, sessions : Sessions]
Project == [current : Nat, version : Versions, sessions : Sessions,
            history : Seq(Entry)]
Made == [sessions : Sessions, version : Versions]

ASSUME NoneAssumption ==
  None \notin Jobs /\ None \notin Row /\ None \notin Project /\ None \notin Made

Seqs(p) == {p.history[i].seq : i \in DOMAIN p.history}
Has(p, seq) == seq \in Seqs(p)

(* next(e for e in history if e.seq == seq): the first one.                *)
IndexOf(p, seq) ==
  CHOOSE i \in DOMAIN p.history :
    p.history[i].seq = seq /\ \A k \in 1 .. (i-1) : p.history[k].seq # seq

EntryAt(p, seq) == p.history[IndexOf(p, seq)]

(* current_entry: raises StopIteration if no entry has the seq.            *)
HasCurrent(p) == Has(p, p.current)
Current(p) == EntryAt(p, p.current)

NextSeq_Mutant(p) == p.current + 1        \* right until somebody reverts

NextSeq(p) == CHOOSE n \in {s + 1 : s \in Seqs(p)} : \A s \in Seqs(p) : s < n

Idle == [pc |-> "idle", kind |-> None, prev |-> None, overrides |-> {},
         sessions |-> None, version |-> None, render |-> TRUE, job |-> None,
         collapse |-> FALSE, published |-> FALSE, seq |-> None, todo |-> {}]

Goto(t, pc) == req' = [req EXCEPT ![t].pc = pc]

(* A project tells neither queued from running nor completed from failed.  *)
Outcomes == {"settled", "interrupted"}
Live(j) == status[j] = "live"

-----------------------------------------------------------------------------
(* Requests begin: every one looks its project up in _records.             *)

(* create: submits, then builds the object.                                *)
Create(t, s, o) ==
  /\ req[t].pc = "idle" /\ row = None /\ project = None
  /\ \A j \in Jobs : status[j] = "absent"      \* one project in this module
  /\ \A u \in Threads : req[u].pc = "idle"
  /\ req' = [req EXCEPT ![t] = [Idle EXCEPT !.pc = "submit", !.kind = "create",
                                  !.sessions = s, !.version = 1, !.overrides = o]]
  /\ UNCHANGED <<project, listed, disk, queue, torn>>

(* patch: overrides are merged into those of the current entry as it is    *)
(* now.  A request to reprocess, or to toggle the draft, changes none.     *)
Patch(t, set, reset) ==
  /\ req[t].pc = "idle" /\ listed /\ HasCurrent(project)
  /\ req' = [req EXCEPT ![t] =
       [Idle EXCEPT !.pc = "status", !.kind = "edit", !.prev = Current(project),
                    !.overrides = Merged(Current(project).overrides, set, reset)]]
  /\ UNCHANGED <<project, listed, disk, queue, torn>>

(* swap_sessions: what the rebuild adds yields to what the user has set.   *)
SwapSessions(t, s, added, render) ==
  /\ req[t].pc = "idle" /\ listed /\ HasCurrent(project)
  /\ req' = [req EXCEPT ![t] =
       [Idle EXCEPT !.pc = "cancel", !.kind = "swap_sessions",
                    !.prev = Current(project), !.sessions = s, !.render = render,
                    !.overrides = Merged(added, Current(project).overrides, {})]]
  /\ UNCHANGED <<project, listed, disk, queue, torn>>

(* upgrade_template, strictly forward.                                     *)
UpgradeTemplate(t, v) ==
  /\ req[t].pc = "idle" /\ listed /\ HasCurrent(project)
  /\ v > project.version
  /\ req' = [req EXCEPT ![t] =
       [Idle EXCEPT !.pc = "cancel", !.kind = "template_upgrade",
                    !.prev = Current(project), !.version = v,
                    !.overrides = Migrated(Current(project).overrides, v)]]
  /\ UNCHANGED <<project, listed, disk, queue, torn>>

(* revert moves the pointer and nothing else.                              *)
Revert(t, seq) ==
  /\ req[t].pc = "idle" /\ listed /\ Has(project, seq)
  /\ project' = [project EXCEPT !.current = seq]
  /\ req' = [req EXCEPT ![t] = [Idle EXCEPT !.pc = "row", !.kind = "revert"]]
  /\ UNCHANGED <<listed, disk, queue, torn>>

SetPublished(t, seq, published) ==
  /\ req[t].pc = "idle" /\ listed /\ Has(project, seq)
  /\ project' = [project EXCEPT !.history[IndexOf(project, seq)].published = published]
  /\ req' = [req EXCEPT ![t] = [Idle EXCEPT !.pc = "flag", !.kind = "published",
                                            !.seq = seq, !.published = published]]
  /\ UNCHANGED <<listed, disk, queue, torn>>

(* delete_project_endpoint.                                                *)
Delete(t) ==
  /\ req[t].pc = "idle" /\ listed
  /\ req' = [req EXCEPT ![t] =
       [Idle EXCEPT !.pc = "cancelall", !.kind = "delete",
          !.todo = {project.history[i].job : i \in DOMAIN project.history}]]
  /\ UNCHANGED <<project, listed, disk, queue, torn>>

-----------------------------------------------------------------------------
(* The steps of a request that submits.                                    *)

Collapses_MutantStale(t) == status[req[t].prev.job] \in {"interrupted", "live"}

(* patch reads the status of the job it supersedes ...                     *)
Collapses(t) == status[req[t].prev.job] = "interrupted"

ReadStatus(t) ==
  /\ req[t].pc = "status"
  /\ req' = [req EXCEPT ![t].pc = "cancel", ![t].collapse = Collapses(t)]
  /\ UNCHANGED <<project, listed, disk, queue, torn>>

Cancelled_Mutant(j) == cancelled           \* not cancelled

(* JobManager.cancel: a flag on a live job.                                *)
Cancelled(j) == [cancelled EXCEPT ![j] = @ \/ Live(j)]

EntryJob_Mutant(r) == None

(* Without auto_render the entry points at the job before it.              *)
EntryJob(r) == IF r.render THEN None ELSE r.prev.job

(* ... and cancels it: an edit collapses if that took effect.  A swap or   *)
(* an upgrade has set the new inputs of the project when it submits.       *)
CancelPrev(t) ==
  LET r == req[t] IN
  /\ r.pc = "cancel"
  /\ cancelled' = Cancelled(r.prev.job)
  /\ project' = CASE r.kind = "edit" -> project
                  [] r.kind = "swap_sessions" -> [project EXCEPT !.sessions = r.sessions]
                  [] r.kind = "template_upgrade" -> [project EXCEPT !.version = r.version]
  /\ req' = [req EXCEPT
       ![t].collapse = r.kind = "edit" /\ (r.collapse \/ Live(r.prev.job)),
       ![t].job = EntryJob(r),
       ![t].pc = IF r.render THEN "submit" ELSE "apply"]
  /\ UNCHANGED <<listed, disk, status, made, torn>>

(* _submit_with_overrides.                                                 *)
Submit(t, j) ==
  LET r == req[t] IN
  /\ r.pc = "submit"
  /\ status[j] = "absent" /\ \A k \in Jobs : k < j => status[k] # "absent"
  /\ status' = [status EXCEPT ![j] = "live"]
  /\ made' = [made EXCEPT ![j] =
       [sessions |-> IF r.kind = "create" THEN r.sessions ELSE project.sessions,
        version |-> IF r.kind = "create" THEN r.version ELSE project.version]]
  /\ req' = [req EXCEPT ![t].pc = "apply", ![t].job = j]
  /\ UNCHANGED <<project, listed, disk, cancelled, torn>>

(* The insert of the job is not possible: the request ends there, with     *)
(* what it has done to the object.                                         *)
SubmitFails(t) ==
  /\ Faults /\ ~torn /\ req[t].pc = "submit"
  /\ req' = [req EXCEPT ![t] = Idle] /\ torn' = TRUE
  /\ UNCHANGED <<project, listed, disk, queue>>

NewEntry(t) ==
  [seq |-> req[t].seq, job |-> req[t].job, overrides |-> req[t].overrides,
   published |-> FALSE,
   kind |-> IF req[t].kind = "create" THEN "edit" ELSE req[t].kind]

Built(t) ==
  /\ req[t].kind = "create" /\ req[t].pc = "apply"
  /\ project' = [current |-> 0, version |-> req[t].version,
                 sessions |-> req[t].sessions,
                 history |-> <<[NewEntry(t) EXCEPT !.seq = 0]>>]
  /\ listed' = TRUE
  /\ req' = [req EXCEPT ![t].pc = "row", ![t].seq = 0]
  /\ UNCHANGED <<disk, queue, torn>>

(* The entry that is replaced may have been published meanwhile.           *)
Replace(t) ==
  LET r == req[t]
      i == IndexOf(project, r.prev.seq)
      old == IF project.history[i].job = r.prev.job THEN project.history[i] ELSE r.prev
  IN /\ r.kind = "edit" /\ r.pc = "apply" /\ r.collapse
     /\ project' = [project EXCEPT !.history[i] =
          [NewEntry(t) EXCEPT !.seq = r.prev.seq, !.published = old.published]]
     /\ req' = [req EXCEPT ![t].pc = "row", ![t].seq = r.prev.seq]
     /\ UNCHANGED <<listed, disk, queue, torn>>

(* The next seq is read in one step and used in another.                   *)
PickSeq(t) ==
  /\ req[t].pc = "apply" /\ req[t].kind # "create" /\ ~req[t].collapse
  /\ NextSeq(project) <= MaxSeq
  /\ req' = [req EXCEPT ![t].pc = "append", ![t].seq = NextSeq(project)]
  /\ UNCHANGED <<project, listed, disk, queue, torn>>

AppendEntry_Mutant(t) ==                    \* an edit drops what was undone
  /\ req[t].pc = "append"
  /\ project' = [project EXCEPT
       !.history = Append(SelectSeq(@, LAMBDA e : e.seq <= project.current), NewEntry(t)),
       !.current = req[t].seq]
  /\ Goto(t, "row")
  /\ UNCHANGED <<listed, disk, queue, torn>>

AppendEntry(t) ==
  /\ req[t].pc = "append"
  /\ project' = [project EXCEPT !.history = Append(@, NewEntry(t)),
                                !.current = req[t].seq]
  /\ Goto(t, "row")
  /\ UNCHANGED <<listed, disk, queue, torn>>

-----------------------------------------------------------------------------
(* Persistence: one transaction per table; an error is logged and dropped. *)

Submits == {"create", "edit", "swap_sessions", "template_upgrade"}

AfterRow(t) == req' = [req EXCEPT ![t] = IF @.kind \in Submits
                                         THEN [@ EXCEPT !.pc = "entry"] ELSE Idle]

RowAfter_Mutant(kind) ==                    \* the regular UPDATE for all
  IF kind = "create" THEN [current |-> project.current, version |-> project.version,
                           sessions |-> project.sessions]
  ELSE [row EXCEPT !.current = project.current]

(* The columns each of the four statements writes.                         *)
RowAfter(kind) ==
  CASE kind = "create" ->
         [current |-> project.current, version |-> project.version,
          sessions |-> project.sessions]
    [] kind = "swap_sessions" ->
         [row EXCEPT !.current = project.current, !.sessions = project.sessions]
    [] kind = "template_upgrade" ->
         [row EXCEPT !.current = project.current, !.version = project.version]
    [] OTHER -> [row EXCEPT !.current = project.current]

PersistRow(t) ==
  /\ req[t].pc = "row"
  /\ row' = IF row = None /\ req[t].kind # "create" THEN None
                                                    ELSE RowAfter(req[t].kind)
  /\ AfterRow(t)
  /\ UNCHANGED <<project, listed, rows, queue, torn>>

(* The entry is read when it is written: it may have been published.       *)
PublishedNow(t) ==
  LET e == EntryAt(project, req[t].seq) IN e.job = req[t].job /\ e.published

(* The INSERT needs the row of the project and a seq nobody has.           *)
PersistEntry(t) ==
  LET e == [NewEntry(t) EXCEPT !.published = PublishedNow(t)]
      taken == \E h \in rows : h.seq = e.seq
  IN /\ req[t].pc = "entry" /\ ~req[t].collapse
     /\ IF row # None /\ ~taken
        THEN rows' = rows \cup {e} /\ UNCHANGED torn
        ELSE torn' = TRUE /\ UNCHANGED rows
     /\ req' = [req EXCEPT ![t] = Idle]
     /\ UNCHANGED <<project, listed, row, queue>>

(* _persist_history_entry_replace: the UPDATE leaves kind and snapshot.    *)
PersistReplace(t) ==
  /\ req[t].pc = "entry" /\ req[t].collapse
  /\ rows' = {IF h.seq = req[t].seq
              THEN [h EXCEPT !.job = req[t].job, !.overrides = req[t].overrides,
                             !.published = PublishedNow(t)]
              ELSE h : h \in rows}
  /\ req' = [req EXCEPT ![t] = Idle]
  /\ UNCHANGED <<project, listed, row, queue, torn>>

PersistFlag(t) ==
  /\ req[t].pc = "flag"
  /\ rows' = {IF h.seq = req[t].seq THEN [h EXCEPT !.published = req[t].published]
                                    ELSE h : h \in rows}
  /\ Goto(t, "row")
  /\ UNCHANGED <<project, listed, row, queue, torn>>

WriteFails(t) ==
  /\ Faults /\ ~torn /\ torn' = TRUE
  /\ \/ req[t].pc = "row" /\ AfterRow(t)
     \/ req[t].pc = "entry" /\ req' = [req EXCEPT ![t] = Idle]
     \/ req[t].pc = "flag" /\ Goto(t, "row")
  /\ UNCHANGED <<project, listed, disk, queue>>

-----------------------------------------------------------------------------
(* delete_project_endpoint, behind its purge of the cache.                 *)

DeleteCancels(t, j) ==
  /\ req[t].pc = "cancelall" /\ j \in req[t].todo
  /\ cancelled' = Cancelled(j)
  /\ req' = [req EXCEPT ![t].todo = @ \ {j}]
  /\ UNCHANGED <<project, listed, disk, status, made, torn>>

DeleteRow(t) ==
  /\ req[t].pc = "cancelall" /\ req[t].todo = {}
  /\ row' = None /\ rows' = {}
  /\ Goto(t, "forget")
  /\ UNCHANGED <<project, listed, queue, torn>>

(* Requests that have looked it up go on with the object.                  *)
Forget(t) ==
  /\ req[t].pc = "forget"
  /\ listed' = FALSE
  /\ req' = [req EXCEPT ![t] = Idle]
  /\ project' = IF \A u \in Threads \ {t} : req[u].pc = "idle" THEN None ELSE project
  /\ UNCHANGED <<disk, queue, torn>>

-----------------------------------------------------------------------------
(* The worker, as far as the API sees it, and a restart of the API.        *)

(* Any outcome: a flag may come too late, a worker may be drained or die.  *)
WorkerSettles(j, o) ==
  /\ Live(j)
  /\ status' = [status EXCEPT ![j] = o]
  /\ UNCHANGED <<project, listed, disk, cancelled, made, req, torn>>

(* rehydrate: ORDER BY seq.                                                *)
Rehydrated ==
  IF row = None THEN None
  ELSE [current |-> row.current, version |-> row.version, sessions |-> row.sessions,
        history |-> [i \in 1 .. Cardinality(rows) |->
                       CHOOSE h \in rows : Cardinality({k \in rows : k.seq < h.seq}) = i - 1]]

Quiet == \A t \in Threads : req[t].pc = "idle"

Restart ==
  /\ Quiet \/ (Faults /\ ~torn)
  /\ project' = Rehydrated /\ listed' = (row # None)
  /\ torn' = (torn \/ ~Quiet)
  /\ req' = [t \in Threads |-> Idle]
  /\ UNCHANGED <<disk, queue>>

-----------------------------------------------------------------------------
Init ==
  /\ project = None /\ listed = FALSE
  /\ row = None /\ rows = {}
  /\ status = [j \in Jobs |-> "absent"]
  /\ cancelled = [j \in Jobs |-> FALSE]
  /\ made = [j \in Jobs |-> None]
  /\ req = [t \in Threads |-> Idle]
  /\ torn = FALSE

Edit(t) ==
  \/ \E s \in Sessions, o \in Overrides : Create(t, s, o)
  \/ \E set, reset \in Overrides : set \cap reset = {} /\ Patch(t, set, reset)
  \/ \E s \in Sessions, o \in Overrides, render \in BOOLEAN : SwapSessions(t, s, o, render)
  \/ \E v \in Versions : UpgradeTemplate(t, v)

Point(t) ==
  \E seq \in 0 .. MaxSeq :
    \/ Revert(t, seq)
    \/ seq \in Pinned /\ \E published \in BOOLEAN : SetPublished(t, seq, published)

Serve(t) ==
  \/ ReadStatus(t) \/ CancelPrev(t) \/ SubmitFails(t)
  \/ \E j \in Jobs : Submit(t, j) \/ DeleteCancels(t, j)
  \/ Built(t) \/ Replace(t) \/ PickSeq(t) \/ AppendEntry(t)
  \/ PersistRow(t) \/ PersistEntry(t) \/ PersistReplace(t) \/ PersistFlag(t)
  \/ WriteFails(t) \/ DeleteRow(t) \/ Forget(t)

Next ==
  \/ \E t \in Threads : Edit(t) \/ Point(t) \/ Delete(t) \/ Serve(t)
  \/ \E j \in Jobs, o \in Outcomes : WorkerSettles(j, o)
  \/ Restart

Spec == Init /\ [][Next]_vars

-----------------------------------------------------------------------------
Statuses == {"absent", "live"} \cup Outcomes

(* Type invariant: a job exists as soon as anything names it.              *)
TypeOK ==
  /\ project \in Project \cup {None}
  /\ project # None =>
       \A i \in DOMAIN project.history : made[project.history[i].job] # None
  /\ listed \in BOOLEAN /\ (listed => project # None)
  /\ row \in Row \cup {None}
  /\ \A h \in rows : h \in Entry
  /\ status \in [Jobs -> Statuses] /\ cancelled \in [Jobs -> BOOLEAN]
  /\ made \in [Jobs -> Made \cup {None}]
  /\ \A j \in Jobs : made[j] = None <=> status[j] = "absent"
  /\ torn \in BOOLEAN

(* "current_seq is always a valid index into history; we never let it      *)
(* drift", and the seqs of a history are 0, 1, 2 ... in its order: revert  *)
(* and undo walk them by number.  A write that is lost breaks either.      *)
HistoryIsLinear ==
  project # None /\ ~torn =>
    /\ project.current \in Seqs(project)
    /\ \A i \in DOMAIN project.history : project.history[i].seq = i - 1

(* The same and more, as the history a user sees: what requests and        *)
(* restarts do to the object is what EditHistory lets happen to its edits. *)
Gone == {j \in Jobs : cancelled[j] \/ status[j] = "interrupted"}

EditsOf(p) ==
  IF p = None THEN <<>>
  ELSE [i \in DOMAIN p.history |->
          [job |-> p.history[i].job, overrides |-> p.history[i].overrides,
           published |-> p.history[i].published]]

PointerOf(p) == IF p = None THEN 0 ELSE p.current

History == INSTANCE EditHistory WITH
  edits <- EditsOf(project), current <- PointerOf(project), spent <- Gone, lost <- torn

(* Edits are appended behind every other, undone ones included, with a job *)
(* of their own; undo and redo move the pointer only; the shown edit is    *)
(* replaced only if its job was given up; a restart changes nothing.       *)
KeepsHistory == History!Spec

(* When no request is under way, a restart would bring back the project as *)
(* it is in memory; a collapse forgets the kind of the entry in memory     *)
(* only, so kinds are left out.                                            *)
WithoutKinds(p) ==
  IF p = None THEN None
  ELSE [p EXCEPT !.history = [i \in DOMAIN @ |-> [@[i] EXCEPT !.kind = "edit"]]]

RestartChangesNothing ==
  Quiet /\ ~torn => /\ listed <=> row # None
                    /\ listed => WithoutKinds(Rehydrated) = WithoutKinds(project)

(* "The audit trail of intentional, settled edits stays intact": a row of  *)
(* the history is only given another job when the one it had was live when *)
(* the edit cancelled it, or interrupted.                                  *)
SettledRowsAreKept ==
  [][\A h \in rows :
       row' # None /\ (\A k \in rows' : k.seq = h.seq => k.job # h.job)
         => cancelled[h.job] \/ status[h.job] = "interrupted"]_vars

(* An edit cancels the job it supersedes, "so an in-flight pipeline that's *)
(* about to be superseded by fresh edits doesn't waste cycles": a job that *)
(* may still run and is not cancelled is one the history shows.            *)
NoStrayJobs ==
  Quiet /\ ~torn =>
    \A j \in Jobs : Live(j) /\ ~cancelled[j] =>
      listed /\ \E i \in DOMAIN project.history : project.history[i].job = j

(* The same of a project nobody deletes meanwhile.                         *)
EditsCancelWhatTheySupersede == listed => NoStrayJobs

(* "Revert flow keys off this [kind] to know whether moving to a prior     *)
(* entry should also rebuild the source_session_ids": the project is bound *)
(* to the sessions of the entry it shows, if that entry has a job of its   *)
(* own.                                                                    *)
RevertRebindsSessions ==
  listed /\ Quiet /\ ~torn =>
    LET e == Current(project) IN
    (\A i \in DOMAIN project.history : project.history[i].job = e.job
                                         => project.history[i].seq = e.seq)
      => made[e.job].sessions = project.sessions

=============================================================================
