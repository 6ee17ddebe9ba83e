----------------------------- MODULE EditHistory -----------------------------
(* What a project promises to the one who edits it, without requests,      *)
(* tables or restarts: a list of edits that only grows, a pointer that     *)
(* undo and redo move along it, and settled edits that stay as they are.   *)
EXTENDS Naturals, Sequences

CONSTANTS Jobs, Params

VARIABLES
  edits,        \* the edits, oldest first: empty before the first and after a delete
  current,      \* the one that is shown: edits are numbered from 0
  spent,        \* jobs that were cancelled or interrupted
  lost          \* a write or the rest of a request was lost: nothing is promised

Edit == [job : Jobs, overrides : SUBSET Params, published : BOOLEAN]

ShownEdit == edits[current + 1]
ShownJobs == {edits[i].job : i \in DOMAIN edits}

-----------------------------------------------------------------------------
Begin(e) ==
  /\ edits = <<>> /\ ~e.published
  /\ edits' = <<e>> /\ current' = 0

(* An edit goes behind all others, those that were undone included, with a *)
(* job of its own or, if it is not to be rendered yet, that of the edit it *)
(* was made from.                                                          *)
Extend(e) ==
  /\ edits # <<>> /\ ~e.published
  /\ e.job \notin ShownJobs \/ e.job = ShownEdit.job
  /\ edits' = Append(edits, e) /\ current' = Len(edits)

(* The edit that is shown is replaced if nobody will see its result.       *)
Amend(j, o) ==
  /\ edits # <<>> /\ ShownEdit.job \in spent
  /\ j \notin ShownJobs
  /\ edits' = [edits EXCEPT ![current + 1].job = j, ![current + 1].overrides = o]
  /\ UNCHANGED current

Point(i) == current' = i - 1 /\ UNCHANGED edits

Publish(i, published) ==
  /\ edits' = [edits EXCEPT ![i].published = published]
  /\ UNCHANGED current

Discard == edits' = <<>> /\ current' = 0

-----------------------------------------------------------------------------
Init == edits = <<>> /\ current = 0 /\ spent = {} /\ ~lost

Next ==
  /\ spent \subseteq spent' /\ (lost => lost')
  /\ \/ UNCHANGED <<edits, current>>
     \/ lost'
     \/ \E e \in Edit : Begin(e) \/ Extend(e)
     \/ \E j \in Jobs, o \in SUBSET Params : Amend(j, o)
     \/ \E i \in DOMAIN edits : Point(i) \/ \E published \in BOOLEAN : Publish(i, published)
     \/ Discard

Spec == Init /\ [][Next]_<<edits, current, spent, lost>>
=============================================================================
