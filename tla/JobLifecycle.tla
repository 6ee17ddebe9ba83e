---------------------------- MODULE JobLifecycle ----------------------------
(***************************************************************************)
(* What the job queue promises whoever submits a job: the queue chooses    *)
(* the oldest job that waits at that moment (a job with an older stamp may *)
(* still arrive before the chosen one starts), a job starts only when it   *)
(* was chosen, it gets one outcome, and that outcome is announced once, in *)
(* the step that decides it, and never changes.                            *)
(***************************************************************************)
EXTENDS Naturals

CONSTANTS Jobs, Outcomes

VARIABLES
  phase,      (* where each job stands                                      *)
  chosen,     (* the job that is to start next, or nothing                  *)
  announced   (* how often each outcome of each job was announced           *)

Init ==
  /\ phase = [j \in Jobs |-> "absent"]
  /\ chosen = {}
  /\ announced = [j \in Jobs |-> [o \in Outcomes |-> 0]]

Submit(j) ==
  /\ phase[j] = "absent"
  /\ phase' = [phase EXCEPT ![j] = "queued"]
  /\ UNCHANGED <<chosen, announced>>

Choose(j) ==
  /\ chosen = {} /\ phase[j] = "queued"
  /\ \A k \in Jobs : phase[k] = "queued" => j <= k
  /\ chosen' = {j}
  /\ UNCHANGED <<phase, announced>>

(* Whoever was to start the chosen job does not.                           *)
Forget ==
  /\ chosen' = {}
  /\ UNCHANGED <<phase, announced>>

Start(j) ==
  /\ phase[j] = "queued" /\ chosen = {j}
  /\ phase' = [phase EXCEPT ![j] = "running"]
  /\ chosen' = {}
  /\ UNCHANGED announced

Settle(j, o) ==
  /\ phase[j] = "running"
  /\ phase' = [phase EXCEPT ![j] = o]
  /\ announced' = [announced EXCEPT ![j][o] = @ + 1]
  /\ UNCHANGED chosen

Next ==
  \/ Forget
  \/ \E j \in Jobs : Submit(j) \/ Choose(j) \/ Start(j) \/ \E o \in Outcomes : Settle(j, o)

Spec == Init /\ [][Next]_<<phase, chosen, announced>>
=============================================================================
