------------------------------- MODULE Ingest -------------------------------
(***************************************************************************)
(* From the scope to a stack: the mirror copies the frames of a capture    *)
(* session into the capture root (server/scope_mirror.py) and asks for a   *)
(* scan, the scan fills the catalog (Catalog), the auto stacker submits a  *)
(* job for a session whose frames stopped arriving                         *)
(* (server/scope_autostack.py).  The callbacks that tie them together are  *)
(* those of server/api.py.  One capture session, whose folder the scope    *)
(* fills frame by frame.                                                   *)
(***************************************************************************)
EXTENDS Catalog

CONSTANT MinFrames      \* MIN_FRAMES_FOR_STACK, scaled down

VARIABLES
    remote,     \* frames 1..remote are on the scope
    baseline,   \* the stored baseline: unset, or whether it holds the folder
    round,      \* the mirror: rest, copy, touch, callback
    want,       \* files this round has still to copy
    copied,     \* some file was copied in this round
    arrival,    \* AutoStacker._last_arrival of the folder: none, fresh, quiet
    counted,    \* AutoStacker._stacked_count of the folder
    found       \* what find_session answered the tick under way, or NoFind

mirrorVars == <<remote, baseline, round, want, copied>>
stackVars == <<arrival, counted, found>>
vars == <<catalogVars, mirrorVars, stackVars>>

NoFind == [id |-> 0, count |-> 0]

-----------------------------------------------------------------------------
(* The mirror. *)

Capture ==
    /\ remote < NumFrames /\ remote' = remote + 1
    /\ UNCHANGED <<catalogVars, baseline, round, want, copied, stackVars>>

\* run_once up to the first copy: folders that exist when the mirror first
\* runs are left alone for ever.  A file whose local copy has the size of
\* the remote one is complete, so of the spoilt ones some are copied again.
RoundStarts ==
    /\ round = "rest" /\ baseline = "free"
    /\ \E spoilt \in SUBSET {f \in Frames : file[f] = "unreadable"} :
         want' = {f \in 1..remote : file[f] = "gone"} \union (spoilt \intersect 1..remote)
    /\ want' # {}
    /\ round' = "copy" /\ copied' = FALSE
    /\ UNCHANGED <<catalogVars, remote, baseline, stackVars>>

FirstRoundTooLate ==
    /\ round = "rest" /\ baseline = "unset" /\ remote > 0
    /\ baseline' = "holds"
    /\ UNCHANGED <<catalogVars, remote, round, want, copied, stackVars>>

FirstRoundInTime ==
    /\ round = "rest" /\ baseline = "unset" /\ remote = 0
    /\ baseline' = "free"
    /\ UNCHANGED <<catalogVars, remote, round, want, copied, stackVars>>

\* copy_file, file after file as the service lists them: into a .part file that
\* replaces the local one when it is whole.
CopyFile(f) ==
    /\ round = "copy" /\ want # {} /\ f = Min(want) /\ mounted
    /\ file' = [file EXCEPT ![f] = "new"]
    /\ want' = want \ {f} /\ copied' = TRUE
    /\ UNCHANGED <<mounted, rows, sess, scanVars, troubles, remote, baseline, round, stackVars>>

\* An error of the service or the disk ends the round: neither callback is
\* made, whatever was copied.
RoundFails ==
    /\ round = "copy"
    /\ Trouble
    /\ round' = "rest" /\ want' = {} /\ copied' = FALSE
    /\ UNCHANGED <<diskVars, rows, sess, scanVars, remote, baseline, stackVars>>

\* on_session_copied = AutoStacker.touch.
Touch ==
    /\ round = "copy" /\ want = {} /\ copied
    /\ arrival' = "fresh"
    /\ round' = "callback"
    /\ UNCHANGED <<catalogVars, remote, baseline, want, copied, counted, found>>

\* on_copied = _scan_after_copy: a scan, unless one is running.
RoundOver ==
    /\ round' = "rest" /\ copied' = FALSE
    /\ UNCHANGED <<remote, baseline, want, stackVars>>

ScanAfterCopy == round = "callback" /\ RoundOver /\ ScanStarts
ScanSkipped == round = "callback" /\ RoundOver /\ running /\ UNCHANGED catalogVars

-----------------------------------------------------------------------------
(* The auto stacker. *)

QuietPasses ==
    /\ arrival = "fresh" /\ arrival' = "quiet"
    /\ UNCHANGED <<catalogVars, mirrorVars, counted, found>>

\* _find_scope_session: the session that holds most frames of the folder.
Largest == {i \in DOMAIN sess : \A j \in DOMAIN sess :
              Cardinality(sess[j].frames) <= Cardinality(sess[i].frames)}

\* More frames than were stacked before.
Worthwhile(n) == n > counted

\* tick for the folder up to the submission: nothing without a session, and
\* nothing new is not worth a job.
StackFind ==
    /\ arrival = "quiet" /\ found = NoFind
    /\ \E i \in Largest :
         LET n == Cardinality(sess[i].frames) IN
         IF Worthwhile(n)
           THEN found' = [id |-> i, count |-> n] /\ UNCHANGED arrival
           ELSE arrival' = "none" /\ UNCHANGED found
    /\ UNCHANGED <<catalogVars, mirrorVars, counted>>

\* _submit_scope_stack builds the job from the session as it is by then; the
\* count of the earlier look is remembered and the arrival forgotten.
Stackable(i) == i \in DOMAIN sess /\ Cardinality(sess[i].frames) >= MinFrames

StackSubmit ==
    /\ found # NoFind /\ Stackable(found.id)
    /\ counted' = found.count
    /\ arrival' = "none" /\ found' = NoFind
    /\ UNCHANGED <<catalogVars, mirrorVars>>

\* The session is gone or too small for a job, or the submission fails for
\* another reason: the next tick tries again.
StackFails ==
    /\ found # NoFind
    /\ found' = NoFind
    /\ IF Stackable(found.id) THEN Trouble ELSE UNCHANGED troubles
    /\ UNCHANGED <<diskVars, rows, sess, scanVars, mirrorVars, arrival, counted>>

-----------------------------------------------------------------------------

\* The server restarts: the scan, the round and the memory of the auto stacker
\* are gone, the catalog and the baseline stay.
Restart ==
    /\ Trouble /\ ScanOver
    /\ round' = "rest" /\ want' = {} /\ copied' = FALSE
    /\ arrival' = "none" /\ counted' = 0 /\ found' = NoFind
    /\ UNCHANGED <<remote, baseline>>

Scan == ScanStep \/ ScanFails \/ TriggerScan

Init ==
    /\ CatalogInit
    /\ remote = 0 /\ baseline = "unset" /\ round = "rest" /\ want = {} /\ copied = FALSE
    /\ arrival = "none" /\ counted = 0 /\ found = NoFind

Mirror ==
    \/ RoundStarts \/ FirstRoundTooLate \/ FirstRoundInTime
    \/ \E f \in Frames : CopyFile(f)
    \/ RoundFails \/ Touch \/ ScanAfterCopy \/ ScanSkipped

AutoStacker == StackFind \/ StackSubmit \/ StackFails

Next ==
    \/ (Scan \/ Changes) /\ UNCHANGED <<mirrorVars, stackVars>>
    \/ Capture \/ Mirror \/ QuietPasses \/ AutoStacker \/ Restart

Fairness == WF_vars(ScanStep /\ UNCHANGED <<mirrorVars, stackVars>>)

Spec == Init /\ [][Next]_vars /\ Fairness

-----------------------------------------------------------------------------

(* A scan that gets as far as removing orphans leaves a row for every file  *)
(* that stayed on disk and readable, whatever was skipped, put off or       *)
(* ingested on the way, and none for a file the walk did not see; and the   *)
(* sessions then hold every row once (scan, _flush_skipped,                 *)
(* _remove_orphans, cluster_sessions).                                      *)
ScanIsComplete ==
    pc = "finish" =>
      /\ steady \subseteq rows
      /\ UNION {sess[i].frames : i \in DOMAIN sess} = rows
      /\ \A i, j \in DOMAIN sess : i # j => sess[i].frames \intersect sess[j].frames = {}

(* While the catalog only grows, the id of a session, which projects store, *)
(* goes on naming all its frames, with what the user edited; unless a frame *)
(* that closes a gap merges it into a session that was at least as large    *)
(* (cluster_sessions, _match_cluster_to_session).                           *)
GrowthKeepsSessions ==
    [][rows \subseteq rows' =>
         \A i \in DOMAIN sess :
           \/ /\ i \in DOMAIN sess' /\ sess[i].frames \subseteq sess'[i].frames
              /\ sess[i].edited => sess'[i].edited
           \/ \E j \in DOMAIN sess \ {i} :
                /\ j \in DOMAIN sess' /\ i \notin DOMAIN sess'
                /\ Cardinality(sess[j].frames) >= Cardinality(sess[i].frames)
                /\ sess[i].frames \union sess[j].frames \subseteq sess'[j].frames]_vars

(* If scans keep being asked for, a file that stays readable is in a        *)
(* session for good at last: failed scans, restarts and files that vanish   *)
(* around it neither block the slot of the scan nor take its row            *)
(* (scan_state, trigger_scan, scan).                                        *)
ScansCatchUp ==
    \A f \in Frames :
      (<>[]Readable(f) /\ []<>running) =>
        <>[](\E i \in DOMAIN sess : f \in sess[i].frames)

=============================================================================
