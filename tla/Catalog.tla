------------------------------ MODULE Catalog ------------------------------
(***************************************************************************)
(* The catalog of the capture root: the walk over the files, the rows of   *)
(* the frames, the sessions clustered from them, and the slot that lets    *)
(* one scan run at a time (server/catalog/scanner.py,                      *)
(* server/catalog/sessions.py, server/scan_state.py).                      *)
(*                                                                         *)
(* A frame is its place in time: frames k and k + 1 of the one capture     *)
(* configuration modelled lie within the gap, k and k + 2 do not, so a     *)
(* session is a run of consecutive numbers.  A transaction of the scanner  *)
(* is one step; files come and go and users edit sessions between the      *)
(* steps.  Masters have rows of their own that live and die the same way;  *)
(* their choice for a session is in DarkMatch.                      *)
(***************************************************************************)
EXTENDS Naturals, FiniteSets, FiniteSetsExt

CONSTANTS
    NumFrames,      \* frames the scope may take
    ClusterEvery,   \* _INCREMENTAL_CLUSTER_EVERY, scaled down
    MaxTroubles     \* files lost or spoilt, unmounts, errors, restarts

ASSUME FramesAssumption == NumFrames \in Nat
ASSUME ClusterEveryAssumption == ClusterEvery \in Nat \ {0}

Frames == 1..NumFrames

VARIABLES
    file,       \* on disk: gone, same (as the row), new (or changed), unreadable
    mounted,    \* the capture root can be listed
    rows,       \* files with a row in frames
    sess,       \* sessions: id -> its frames, and whether the user edited it
    running,    \* ScanState.running
    pc,         \* where the scan is
    todo,       \* files the walk has still to visit
    skipped,    \* skipped_paths: unchanged, scanned_at not bumped yet
    bumped,     \* files whose row carries the scanned_at of this scan
    fresh,      \* frames_since_cluster
    steady,     \* history: on disk and readable since this scan listed the root
    troubles

diskVars == <<file, mounted>>
scanVars == <<running, pc, todo, skipped, bumped, fresh, steady>>
catalogVars == <<diskVars, rows, sess, scanVars, troubles>>

Trouble == troubles < MaxTroubles /\ troubles' = troubles + 1

Readable(f) == mounted /\ file[f] \in {"same", "new"}

-----------------------------------------------------------------------------
(* Sessions. *)

\* _compute_clusters: the runs of frames without a gap, named by their first.
Starts(S) == {a \in S : a - 1 \notin S}
Run(S, a) == {b \in S : a <= b /\ a..b \subseteq S}

\* _match_cluster_to_session, cluster after cluster in the order of time: the
\* session that shares most frames and is not taken, the lowest id of equals.
Overlap(C, id) == Cardinality(C \intersect sess[id].frames)

BestMatch(C, taken) ==
    LET free == {i \in DOMAIN sess \ taken : Overlap(C, i) > 0}
        best == {i \in free : \A j \in free : Overlap(C, j) <= Overlap(C, i)}
    IN  IF best = {} THEN 0 ELSE Min(best)

\* SQLite hands out the highest id in use plus one.
NextId(taken) == Max({0} \union DOMAIN sess \union taken) + 1

IdOf(S) ==
    LET id[a \in Starts(S)] ==
          LET taken == {id[b] : b \in {c \in Starts(S) : c < a}}
              match == BestMatch(Run(S, a), taken)
          IN  IF match # 0 THEN match ELSE NextId(taken)
    IN  id

\* Mutant of Clustered: a match does not keep what the user edited.
ClusteredClobbers(S) ==
    LET id == IdOf(S)
    IN  [i \in {id[a] : a \in Starts(S)} |->
           [frames |-> Run(S, CHOOSE a \in Starts(S) : id[a] = i), edited |-> FALSE]]

\* cluster_sessions: a session that is matched keeps what the user edited (its
\* target, its notes, an overridden calibration), the others go.
Clustered(S) ==
    LET id == IdOf(S)
        start == [i \in {id[a] : a \in Starts(S)} |->
                    CHOOSE a \in Starts(S) : id[a] = i]
    IN  [i \in DOMAIN start |->
           [frames |-> Run(S, start[i]),
            edited |-> i \in DOMAIN sess /\ sess[i].edited]]

ReCluster(S) == sess' = Clustered(S)

-----------------------------------------------------------------------------
(* The scan. *)

\* _walk_fits lists what is there; a root that cannot be listed has no files.
\* (The code lists directory after directory; what arrives meanwhile is as good
\* as not there.)
Listed == IF mounted THEN {f \in Frames : file[f] # "gone"} ELSE {}

\* scan_state.start, then scan in a thread of its own.
ScanStarts ==
    /\ ~running
    /\ running' = TRUE /\ pc' = "walk"
    /\ todo' = Listed
    /\ skipped' = {} /\ bumped' = {} /\ fresh' = 0
    /\ steady' = {f \in Frames : Readable(f)}
    /\ UNCHANGED <<diskVars, rows, sess, troubles>>

\* The user asks for a scan (POST /api/scan); while one runs the answer is 409.
TriggerScan == ScanStarts

Unchanged(f) == f \in rows /\ file[f] = "same"

\* One frame of the walk: vanished, unchanged (its bump is put off), unreadable
\* or of no known kind, or ingested with a row of this scan.  Every
\* ClusterEvery ingests the sessions are clustered on the way.
VisitFrame(f) ==
    /\ pc = "walk" /\ f \in todo
    /\ todo' = todo \ {f}
    /\ \/ /\ Readable(f) /\ Unchanged(f)
          /\ skipped' = skipped \union {f}
          /\ UNCHANGED <<file, rows, bumped, fresh, sess, pc>>
       \/ /\ ~Readable(f)
          /\ UNCHANGED <<file, rows, skipped, bumped, fresh, sess, pc>>
       \/ /\ Readable(f) /\ ~Unchanged(f)
          /\ rows' = rows \union {f}
          /\ bumped' = bumped \union {f}
          /\ file' = [file EXCEPT ![f] = "same"]
          /\ fresh' = fresh + 1
          /\ pc' = IF fresh + 1 = ClusterEvery THEN "recluster" ELSE "walk"
          /\ UNCHANGED <<skipped, sess>>
    /\ UNCHANGED <<mounted, running, steady, troubles>>

ClusterOnTheWay ==
    /\ pc = "recluster"
    /\ ReCluster(rows)
    /\ fresh' = 0 /\ pc' = "walk"
    /\ UNCHANGED <<diskVars, rows, running, todo, skipped, bumped, steady, troubles>>

\* Mutant of FlushSkipped: the bumps that were put off are forgotten.
FlushNothing ==
    /\ pc = "walk" /\ todo = {}
    /\ skipped' = {} /\ pc' = "orphans"
    /\ UNCHANGED <<diskVars, rows, sess, running, todo, bumped, fresh, steady, troubles>>

\* _flush_skipped at the end of the walk.
FlushSkipped ==
    /\ pc = "walk" /\ todo = {}
    /\ bumped' = bumped \union (skipped \intersect rows)
    /\ skipped' = {} /\ pc' = "orphans"
    /\ UNCHANGED <<diskVars, rows, sess, running, todo, fresh, steady, troubles>>

\* _remove_orphans and cluster_sessions, one transaction.
RemoveOrphans ==
    /\ pc = "orphans"
    /\ rows' = rows \intersect bumped
    /\ ReCluster(rows')
    /\ bumped' = {} /\ fresh' = 0 /\ pc' = "finish"
    /\ UNCHANGED <<diskVars, running, todo, skipped, steady, troubles>>

ScanOver ==
    /\ running' = FALSE /\ pc' = "none"
    /\ todo' = {} /\ skipped' = {} /\ bumped' = {} /\ fresh' = 0 /\ steady' = {}
    /\ UNCHANGED <<diskVars, rows, sess>>

\* match_all_sessions, _resolve_targets and scan_state.finish(stats).
ScanFinishes == pc = "finish" /\ ScanOver /\ UNCHANGED troubles

\* Mutant of ScanFails: the slot is not freed.
ScanFailsHolding ==
    /\ running /\ Trouble
    /\ pc' = "none"
    /\ UNCHANGED <<diskVars, rows, sess, running, todo, skipped, bumped, fresh, steady>>

\* An exception ends the scan where it is; scan_state.finish(error).
ScanFails == running /\ ScanOver /\ Trouble

ScanStep ==
    \/ \E f \in Frames : VisitFrame(f)
    \/ ClusterOnTheWay \/ FlushSkipped \/ RemoveOrphans \/ ScanFinishes

-----------------------------------------------------------------------------
(* The disk and the user. *)

\* A file is deleted, rewritten, or rewritten so that its header is not one of
\* a frame any more.
SpoilFile(f) ==
    /\ file[f] # "gone" /\ mounted /\ Trouble
    /\ \E s \in {"gone", "new", "unreadable"} :
         /\ file' = [file EXCEPT ![f] = s]
         /\ steady' = IF s = "new" THEN steady ELSE steady \ {f}
    /\ UNCHANGED <<mounted, rows, sess, running, pc, todo, skipped, bumped, fresh>>

Unmount ==
    /\ mounted /\ Trouble
    /\ mounted' = FALSE /\ steady' = {}
    /\ UNCHANGED <<file, rows, sess, running, pc, todo, skipped, bumped, fresh>>

Mount ==
    /\ ~mounted /\ mounted' = TRUE
    /\ UNCHANGED <<file, rows, sess, scanVars, troubles>>

\* PATCH /api/sessions/{id}: another target, a note; or an override of the
\* calibration.
EditSession(i) ==
    /\ i \in DOMAIN sess /\ ~sess[i].edited
    /\ sess' = [sess EXCEPT ![i].edited = TRUE]
    /\ UNCHANGED <<diskVars, rows, scanVars, troubles>>

Changes ==
    \/ \E f \in Frames : SpoilFile(f)
    \/ Unmount \/ Mount
    \/ \E i \in DOMAIN sess : EditSession(i)

CatalogInit ==
    /\ file = [f \in Frames |-> "gone"] /\ mounted = TRUE
    /\ rows = {} /\ sess = [i \in {} |-> 0]
    /\ running = FALSE /\ pc = "none"
    /\ todo = {} /\ skipped = {} /\ bumped = {} /\ fresh = 0 /\ steady = {}
    /\ troubles = 0

=============================================================================
