--------------------------- MODULE JobQueue_proofs ---------------------------
(***************************************************************************)
(* Theorems about JobQueue, for every set of jobs and of PIDs, and every   *)
(* value of the bounds.                                                    *)
(***************************************************************************)
EXTENDS JobQueue, FiniteSetTheorems, WellFoundedInduction, TLAPS

-----------------------------------------------------------------------------
(* The event log.                                                          *)

(* The next seq after 0, ..., n-1 is n.                                    *)
LEMMA NextSeqOfInterval ==
  ASSUME NEW n \in Nat
  PROVE  NextSeq(0 .. (n-1)) = n
<1>1. CASE n = 0
  BY <1>1 DEF NextSeq
<1>2. CASE n # 0
  <2> DEFINE Last(m) == m \in 0 .. (n-1) /\ \A s \in 0 .. (n-1) : s <= m
  <2>1. Last(n-1)
    BY <1>2
  <2>2. \A m : Last(m) => m = n-1
    BY <1>2
  <2>3. (CHOOSE m \in 0 .. (n-1) : \A s \in 0 .. (n-1) : s <= m) = n-1
    BY <2>1, <2>2
  <2>4. 0 .. (n-1) # {}
    BY <1>2
  <2>5. NextSeq(0 .. (n-1))
          = 1 + CHOOSE m \in 0 .. (n-1) : \A s \in 0 .. (n-1) : s <= m
    BY <2>4, Zenon DEF NextSeq
  <2>6. 1 + (n-1) = n
    OBVIOUS
  <2> QED BY <2>3, <2>5, <2>6
<1> QED BY <1>1, <1>2

(* _persist_event appends: the seqs stay contiguous and the rows already   *)
(* there stay what they were.                                              *)
LEMMA PersistAppends ==
  ASSUME NEW n \in Nat, NEW events, NEW type, DOMAIN events = 0 .. (n-1)
  PROVE  /\ DOMAIN Persist(events, type) = 0 .. n
         /\ Persist(events, type)[n] = type
         /\ \A s \in 0 .. (n-1) : Persist(events, type)[s] = events[s]
<1>1. NextSeq(DOMAIN events) = n
  BY NextSeqOfInterval
<1>2. 0 .. (n-1) \cup {n} = 0 .. n
  OBVIOUS
<1>3. Persist(events, type) = [s \in 0 .. n |-> IF s = n THEN type ELSE events[s]]
  BY <1>1, <1>2 DEF Persist
<1> QED BY <1>3

-----------------------------------------------------------------------------
(* The oldest queued job is one: stamps are naturals, so a nonempty queue  *)
(* has a least element.                                                    *)
LEMMA OldestQueued ==
  ASSUME Queue # {}
  PROVE  /\ Oldest(Queue) \in Jobs
         /\ status[Oldest(Queue)] = "queued"
         /\ \A k \in Queue : Oldest(Queue) <= k
<1>1. Queue \subseteq Nat
  BY ConstantsAssumption DEF Queue
<1>2. \E j \in Queue : \A k \in Queue : j <= k
  <2>1. PICK j \in Queue : \A k \in Queue : <<k, j>> \notin OpToRel(<, Nat)
    BY <1>1, NatLessThanWellFounded, WFMin
  <2>2. ASSUME NEW k \in Queue PROVE j <= k
    <3>1. j \in Nat /\ k \in Nat
      BY <1>1
    <3>2. ~ (k < j)
      BY <2>1, <3>1 DEF OpToRel
    <3> QED BY <3>1, <3>2
  <2> QED BY <2>2
<1>3. Oldest(Queue) \in Queue /\ \A k \in Queue : Oldest(Queue) <= k
  BY <1>2, Zenon DEF Oldest
<1> QED BY <1>3 DEF Queue

-----------------------------------------------------------------------------
(* Type correctness.  TypeOK alone is not inductive: Persist needs the log *)
(* of a job to be an initial segment of the naturals.                      *)

LogShape == \A j \in Jobs : \E n \in Nat : DOMAIN log[j] = 0 .. (n-1)

TypeInv == TypeOK /\ LogShape

(* What appending an event to the log of a job preserves.                  *)
LEMMA PersistTyped ==
  ASSUME TypeInv, NEW j \in Jobs, NEW type \in EventTypes, PersistEvent(j, type)
  PROVE  /\ DOMAIN log' = Jobs
         /\ \A k \in Jobs : /\ DOMAIN log'[k] \subseteq Nat
                            /\ \A s \in DOMAIN log'[k] : log'[k][s] \in EventTypes
         /\ LogShape'
<1>1. PICK n \in Nat : DOMAIN log[j] = 0 .. (n-1)
  BY DEF TypeInv, LogShape
<1>2. log' = [log EXCEPT ![j] = Persist(log[j], type)]
  BY DEF PersistEvent
<1>3. DOMAIN log = Jobs
  BY DEF TypeInv, TypeOK
<1>4. \A k \in Jobs : k # j => log'[k] = log[k]
  BY <1>2, <1>3
<1>5. log'[j] = Persist(log[j], type)
  BY <1>2, <1>3
<1>6. /\ DOMAIN log'[j] = 0 .. n
      /\ log'[j][n] = type
      /\ \A s \in 0 .. (n-1) : log'[j][s] = log[j][s]
  <2>1. PICK events : events = log[j]
    OBVIOUS
  <2>2. DOMAIN events = 0 .. (n-1)
    BY <1>1, <2>1
  <2>3. /\ DOMAIN Persist(events, type) = 0 .. n
        /\ Persist(events, type)[n] = type
        /\ \A s \in 0 .. (n-1) : Persist(events, type)[s] = events[s]
    BY ONLY n \in Nat, <2>2, PersistAppends
  <2> QED BY <1>5, <2>1, <2>3, Zenon
<1>7. DOMAIN log' = Jobs
  BY <1>2, <1>3
<1>8. ASSUME NEW k \in Jobs
      PROVE  /\ DOMAIN log'[k] \subseteq Nat
             /\ \A s \in DOMAIN log'[k] : log'[k][s] \in EventTypes
  <2>1. CASE k # j
    BY <1>4, <2>1 DEF TypeInv, TypeOK
  <2>2. CASE k = j
    <3>1. \A s \in 0 .. n : s \in 0 .. (n-1) \/ s = n
      OBVIOUS
    <3> QED BY <1>1, <1>6, <2>2, <3>1 DEF TypeInv, TypeOK
  <2> QED BY <2>1, <2>2
<1>9. ASSUME NEW k \in Jobs
      PROVE  \E m \in Nat : DOMAIN log'[k] = 0 .. (m-1)
  <2>1. CASE k # j
    BY <1>4, <2>1 DEF TypeInv, LogShape
  <2>2. CASE k = j
    <3>1. n + 1 \in Nat /\ 0 .. ((n+1) - 1) = 0 .. n
      OBVIOUS
    <3> QED BY <1>6, <2>2, <3>1
  <2> QED BY <2>1, <2>2
<1>10. LogShape'
  BY <1>9 DEF LogShape
<1> QED BY <1>7, <1>8, <1>10

(* A fresh database and no worker process have the right types.            *)
LEMMA TypeInit == Init => TypeInv
<1> SUFFICES ASSUME Init PROVE TypeInv
  OBVIOUS
<1>1. TypeOK
  BY ConstantsAssumption DEF Init, TypeOK, Statuses, Outcomes, Places, Executing
<1>2. ASSUME NEW j \in Jobs PROVE \E n \in Nat : DOMAIN log[j] = 0 .. (n-1)
  <2>1. DOMAIN log[j] = {}
    BY DEF Init
  <2>2. 0 .. (0-1) = {}
    OBVIOUS
  <2> QED BY <2>1, <2>2
<1> QED BY <1>1, <1>2 DEF TypeInv, LogShape

(* No step of the manager, a worker or its monitor breaks the types.       *)
LEMMA TypeStep == TypeInv /\ [Next]_vars => TypeInv'
<1> SUFFICES ASSUME TypeInv, [Next]_vars PROVE TypeInv'
  OBVIOUS
<1> USE DEF dbVars, rowVars, workerVars, runVars, bootVars, flagVars, monitorVars,
            boundVars
<1>0. CASE UNCHANGED vars
  BY <1>0 DEF vars, TypeInv, TypeOK, LogShape
<1>1. ASSUME NEW j \in Jobs, Submit(j) PROVE TypeInv'
  <2>1. LogShape' /\ DOMAIN log' = Jobs
        /\ \A k \in Jobs : /\ DOMAIN log'[k] \subseteq Nat
                           /\ \A s \in DOMAIN log'[k] : log'[k][s] \in EventTypes
    <3>1. log' = [log EXCEPT ![j] = [s \in {0} |-> "job_queued"]]
      BY <1>1 DEF Submit
    <3>2. 1 \in Nat /\ {0} = 0 .. (1-1)
      OBVIOUS
    <3>3. DOMAIN log' = Jobs /\ \A k \in Jobs : k # j => log'[k] = log[k]
      BY <3>1 DEF TypeInv, TypeOK
    <3>4. log'[j] = [s \in {0} |-> "job_queued"]
      BY <3>1 DEF TypeInv, TypeOK
    <3>5. /\ DOMAIN log'[j] = 0 .. (1-1)
          /\ \A s \in DOMAIN log'[j] : log'[j][s] \in EventTypes
      BY <3>2, <3>4 DEF EventTypes
    <3>6. LogShape'
      BY <3>2, <3>3, <3>5 DEF TypeInv, LogShape
    <3> QED BY <3>3, <3>5, <3>6 DEF TypeInv, TypeOK
  <2> QED BY <1>1, <2>1 DEF Submit, TypeInv, TypeOK, Statuses
<1>2. ASSUME NEW j \in Jobs, Cancel(j) PROVE TypeInv'
  BY <1>2 DEF Cancel, FlagCancel, TypeInv, TypeOK, LogShape
<1>3. ASSUME NEW j \in Jobs, GoStale(j) PROVE TypeInv'
  BY <1>3 DEF GoStale, TypeInv, TypeOK, LogShape
<1>4. ASSUME NEW w \in Workers, NEW j \in Jobs, ReclaimRow(w, j) PROVE TypeInv'
  <2>1. "job_interrupted" \in EventTypes
    BY DEF EventTypes, TerminalEvents
  <2>2. CASE Abandoned(w, j)
    <3>1. PersistEvent(j, "job_interrupted")
      BY <1>4, <2>2 DEF ReclaimRow, Abandoned
    <3> QED BY <1>4, <2>1, <2>2, <3>1, PersistTyped
            DEF ReclaimRow, TypeInv, TypeOK, Statuses, Outcomes
  <2>3. CASE ~Abandoned(w, j)
    BY <1>4, <2>3 DEF ReclaimRow, Abandoned, TypeInv, TypeOK, LogShape
  <2> QED BY <2>2, <2>3 DEF Abandoned
<1>5. ASSUME NEW w \in Workers, EnterLoop(w) PROVE TypeInv'
  BY <1>5 DEF EnterLoop, TypeInv, TypeOK, LogShape, Places, Executing
<1>6. ASSUME NEW w \in Workers, TestStop(w) PROVE TypeInv'
  BY <1>6 DEF TestStop, TypeInv, TypeOK, LogShape, Places, Executing
<1>7. ASSUME NEW w \in Workers, Vanish(w), boundVars' \in Nat \X Nat PROVE TypeInv'
  BY <1>7 DEF Vanish, TypeInv, TypeOK, LogShape, Places, Executing
<1>8. ASSUME NEW w \in Workers, Exit(w) PROVE TypeInv'
  BY <1>7, <1>8 DEF Exit, TypeInv, TypeOK
<1>9. ASSUME NEW w \in Workers, Crash(w) PROVE TypeInv'
  <2>1. boundVars' \in Nat \X Nat
    BY <1>9 DEF Crash, TypeInv, TypeOK, boundVars
  <2> QED BY <1>7, <1>9, <2>1 DEF Crash
<1>10. ASSUME NEW w \in Workers, ClaimNothing(w) PROVE TypeInv'
  BY <1>10 DEF ClaimNothing, TypeInv, TypeOK, LogShape, Places, Executing
<1>11. ASSUME NEW w \in Workers, Claim(w) PROVE TypeInv'
  <2> DEFINE j == job[w]
  <2>1. j \in Jobs
    BY <1>11 DEF Claim, Queue
  <2>2. "job_started" \in EventTypes
    BY DEF EventTypes
  <2>3. PersistEvent(j, "job_started")
    BY <1>11 DEF Claim
  <2>4. /\ DOMAIN log' = Jobs
        /\ \A k \in Jobs : /\ DOMAIN log'[k] \subseteq Nat
                           /\ \A s \in DOMAIN log'[k] : log'[k][s] \in EventTypes
        /\ LogShape'
    BY <2>1, <2>2, <2>3, PersistTyped
  <2>5. /\ status' = [status EXCEPT ![j] = "running"]
        /\ workerPid' = [workerPid EXCEPT ![j] = w]
        /\ fresh' = [fresh EXCEPT ![j] = TRUE]
        /\ pc[w] = "selected"
        /\ pc' = [pc EXCEPT ![w] = "claimed"]
        /\ UNCHANGED <<cancelRequested, job, outcome, bootVars, flagVars, monitorVars,
                       boundVars>>
    BY <1>11 DEF Claim
  <2> QED BY <2>1, <2>4, <2>5, ConstantsAssumption
          DEF TypeInv, TypeOK, Statuses, Places, Executing
<1>12. ASSUME NEW w \in Workers, ForwardCancel(w) PROVE TypeInv'
  BY <1>12 DEF ForwardCancel, FlagCancel, TypeInv, TypeOK, LogShape, Places, Executing
<1>13. ASSUME NEW w \in Workers, CheckCancel(w) PROVE TypeInv'
  <2>1. /\ pc[w] = "check"
        /\ UNCHANGED <<dbVars, job, bootVars, flagVars, monitorVars, boundVars>>
    BY <1>13 DEF CheckCancel
  <2>2. CASE /\ pc' = [pc EXCEPT ![w] = "terminate"]
             /\ outcome' = [outcome EXCEPT ![w] = "interrupted"]
    BY <2>1, <2>2, ConstantsAssumption
       DEF TypeInv, TypeOK, LogShape, Places, Executing, Outcomes
  <2>3. CASE pc' = [pc EXCEPT ![w] = "sweep"] /\ UNCHANGED outcome
    BY <2>1, <2>3 DEF TypeInv, TypeOK, LogShape, Places, Executing, Outcomes
  <2> QED BY <1>13, <2>2, <2>3 DEF CheckCancel
<1>14. ASSUME NEW w \in Workers, StartRun(w) PROVE TypeInv'
  BY <1>14 DEF StartRun, TypeInv, TypeOK, LogShape, Places, Executing
<1>15. ASSUME NEW w \in Workers, NodeEvent(w) PROVE TypeInv'
  <2>1. job[w] \in Jobs
    BY <1>15 DEF NodeEvent, TypeInv, TypeOK, Executing
  <2>2. "node_event" \in EventTypes
    BY DEF EventTypes
  <2>3. PersistEvent(job[w], "node_event")
    BY <1>15 DEF NodeEvent
  <2> QED BY <1>15, <2>1, <2>2, <2>3, PersistTyped DEF NodeEvent, TypeInv, TypeOK
<1>16. ASSUME NEW w \in Workers, RunEnds(w) PROVE TypeInv'
  <2>1. /\ pc[w] = "running" /\ pc' = [pc EXCEPT ![w] = "terminate"]
        /\ UNCHANGED <<dbVars, job, bootVars, flagVars, monitorVars, boundVars>>
    BY <1>16 DEF RunEnds
  <2>2. PICK o \in Outcomes : outcome' = [outcome EXCEPT ![w] = o]
    BY <1>16 DEF RunEnds
  <2>3. o # None
    BY ConstantsAssumption DEF Outcomes
  <2> QED BY <2>1, <2>2, <2>3 DEF TypeInv, TypeOK, LogShape, Places, Executing
<1>17. ASSUME NEW w \in Workers, Terminate(w) PROVE TypeInv'
  <2>1. job[w] \in Jobs /\ outcome[w] \in Outcomes
    BY <1>17 DEF Terminate, TypeInv, TypeOK, Executing
  <2>2. Announcement(outcome[w]) \in EventTypes
    BY <2>1 DEF Announcement, Outcomes, EventTypes, TerminalEvents
  <2>3. PersistEvent(job[w], Announcement(outcome[w]))
    BY <1>17 DEF Terminate
  <2>4. /\ DOMAIN log' = Jobs
        /\ \A k \in Jobs : /\ DOMAIN log'[k] \subseteq Nat
                           /\ \A s \in DOMAIN log'[k] : log'[k][s] \in EventTypes
        /\ LogShape'
    BY <2>1, <2>2, <2>3, PersistTyped
  <2> QED BY <1>17, <2>1, <2>4, ConstantsAssumption
          DEF Terminate, StopMonitor, TypeInv, TypeOK, Statuses, Places, Executing
<1>18. ASSUME NEW w \in Workers, TerminateLocked(w) PROVE TypeInv'
  <2>1. CASE outcome[w] = "completed"
    BY <1>18, <2>1, ConstantsAssumption
       DEF TerminateLocked, TypeInv, TypeOK, LogShape, Outcomes
  <2>2. CASE outcome[w] # "completed"
    BY <1>7, <1>18, <2>2 DEF TerminateLocked, TypeInv, TypeOK
  <2> QED BY <2>1, <2>2
<1>19. ASSUME NEW w \in Workers, Boot(w) PROVE TypeInv'
  BY <1>19 DEF Boot, TypeInv, TypeOK, LogShape, Places, Executing
<1>20. ASSUME NEW w \in Workers, Signal(w) PROVE TypeInv'
  BY <1>20 DEF Signal, TypeInv, TypeOK, LogShape
<1>21. ASSUME NEW w \in Workers, Heartbeat(w) PROVE TypeInv'
  BY <1>21 DEF Heartbeat, TypeInv, TypeOK, LogShape
<1>22. ASSUME NEW w \in Workers, PollCancel(w) PROVE TypeInv'
  BY <1>22 DEF PollCancel, TypeInv, TypeOK, LogShape
<1>23. ASSUME NEW w \in Workers, MonitorDies(w) PROVE TypeInv'
  BY <1>23 DEF MonitorDies, TypeInv, TypeOK, LogShape
<1>24. ASSUME NEW w \in Workers, Select(w) PROVE TypeInv'
  <2>1. Oldest(Queue) \in Jobs
    BY <1>24, OldestQueued DEF Select
  <2> QED BY <1>24, <2>1, ConstantsAssumption
          DEF Select, TypeInv, TypeOK, LogShape, Places, Executing
<1>25. ASSUME NEW w \in Workers, LoseRow(w) PROVE TypeInv'
  BY <1>25 DEF LoseRow, TypeInv, TypeOK, LogShape, Places, Executing
<1> QED
  BY <1>0, <1>1, <1>2, <1>3, <1>4, <1>5, <1>6, <1>8, <1>9, <1>10, <1>11, <1>12,
     <1>13, <1>14, <1>15, <1>16, <1>17, <1>18, <1>19, <1>20, <1>21, <1>22, <1>23,
     <1>24, <1>25
     DEF Next, Control

(* Every variable keeps its type, and the log of every job its shape: the  *)
(* inductive invariant the other theorems start from.                      *)
LEMMA TypeInvariant == Spec => []TypeInv
<1>1. Init => TypeInv
  BY TypeInit
<1>2. TypeInv /\ [Next]_vars => TypeInv'
  BY TypeStep
<1> QED BY <1>1, <1>2, PTL DEF Spec

(* Type correctness of the queue: rows, logs, worker processes, their       *)
(* monitor threads and the bounds, for every value of the constants.       *)
THEOREM TypeCorrect == Spec => []TypeOK
<1>1. TypeInv => TypeOK
  BY DEF TypeInv
<1> QED BY <1>1, TypeInvariant, PTL

-----------------------------------------------------------------------------
(* A log with the seqs 0 .. n-1 has n events.                              *)
LEMMA ShapeIsContiguous ==
  ASSUME NEW j \in Jobs, NEW n \in Nat, DOMAIN log[j] = 0 .. (n-1)
  PROVE  LogLength(j) = n
<1>1. Cardinality(0 .. (n-1)) = IF 0 > n-1 THEN 0 ELSE (n-1) - 0 + 1
  BY FS_Interval
<1> QED BY <1>1 DEF LogLength

(* The cursor of an event stream may count events: the seqs _persist_event *)
(* gives have no gap and no repeat, with overlapping workers too.          *)
THEOREM LogNeverHasAGap == Spec => []LogContiguous
<1>1. TypeInv => LogContiguous
  <2> SUFFICES ASSUME TypeInv, NEW j \in Jobs
               PROVE  DOMAIN log[j] = 0 .. (LogLength(j) - 1)
    BY DEF LogContiguous
  <2>1. PICK n \in Nat : DOMAIN log[j] = 0 .. (n-1)
    BY DEF TypeInv, LogShape
  <2> QED BY <2>1, ShapeIsContiguous
<1> QED BY <1>1, TypeInvariant, PTL

-----------------------------------------------------------------------------
(* No job is executed by two processes.  The strengthening: a job that     *)
(* somebody executes has left the queue, so the guarded UPDATE of another  *)
(* worker, whatever row it selected before, does not match it.             *)

ExecInv ==
  \A w \in Workers, j \in Jobs :
    Holds(w, j) => workerPid[j] = w /\ status[j] \notin {"absent", "queued"}

(* Who executes what changes only when a worker claims a job, finishes     *)
(* one or vanishes, and no step puts a job back into the queue.            *)
LEMMA HoldsStep ==
  ASSUME TypeInv, Next
  PROVE  /\ \/ \E w \in Workers : Claim(w)
            \/ /\ \A w \in Workers, j \in Jobs : Holds(w, j)' => Holds(w, j)
               /\ UNCHANGED workerPid
               /\ \A j \in Jobs : status[j] \notin {"absent", "queued"}
                                  => status'[j] \notin {"absent", "queued"}
<1> DEFINE Keeps == /\ \A w \in Workers, j \in Jobs : Holds(w, j)' => Holds(w, j)
                    /\ UNCHANGED workerPid
                    /\ \A j \in Jobs : status[j] \notin {"absent", "queued"}
                                       => status'[j] \notin {"absent", "queued"}
<1> USE DEF dbVars, rowVars, workerVars, runVars, bootVars, flagVars, monitorVars,
            boundVars
<1>1. ASSUME NEW j \in Jobs, Submit(j) \/ Cancel(j) \/ GoStale(j) PROVE Keeps
  BY <1>1 DEF Submit, Cancel, GoStale, Holds, TypeInv, TypeOK
<1>2. ASSUME NEW w \in Workers, NEW j \in Jobs, ReclaimRow(w, j) PROVE Keeps
  BY <1>2 DEF ReclaimRow, Abandoned, Holds, TypeInv, TypeOK
<1>3. ASSUME NEW w \in Workers,
             EnterLoop(w) \/ TestStop(w) \/ ClaimNothing(w) \/ Boot(w) \/ Signal(w)
      PROVE  Keeps
  BY <1>3 DEF EnterLoop, TestStop, ClaimNothing, Boot, Signal, Holds, Executing,
              TypeInv, TypeOK
<1>10. ASSUME NEW w \in Workers, Select(w) \/ LoseRow(w) PROVE Keeps
  BY <1>10 DEF Select, LoseRow, Holds, Executing, TypeInv, TypeOK
<1>4. ASSUME NEW w \in Workers, Vanish(w) PROVE Keeps
  BY <1>4 DEF Vanish, Holds, Executing, TypeInv, TypeOK
<1>5. ASSUME NEW w \in Workers, Exit(w) \/ Crash(w) PROVE Keeps
  BY <1>4, <1>5 DEF Exit, Crash
<1>6. ASSUME NEW w \in Workers,
             ForwardCancel(w) \/ CheckCancel(w) \/ StartRun(w) \/ RunEnds(w)
      PROVE  Keeps
  BY <1>6 DEF ForwardCancel, CheckCancel, StartRun, RunEnds, Holds, Executing,
              TypeInv, TypeOK
<1>7. ASSUME NEW w \in Workers,
             NodeEvent(w) \/ Heartbeat(w) \/ PollCancel(w) \/ MonitorDies(w)
      PROVE  Keeps
  BY <1>7 DEF NodeEvent, Heartbeat, PollCancel, MonitorDies, Holds
<1>8. ASSUME NEW w \in Workers, Terminate(w) PROVE Keeps
  <2>1. outcome[w] \in Outcomes
    BY <1>8 DEF Terminate, TypeInv, TypeOK
  <2> QED BY <1>8, <2>1
          DEF Terminate, StopMonitor, Holds, Executing, Outcomes, TypeInv, TypeOK
<1>9. ASSUME NEW w \in Workers, TerminateLocked(w) PROVE Keeps
  <2>1. CASE outcome[w] = "completed"
    BY <1>9, <2>1 DEF TerminateLocked, Holds
  <2>2. CASE outcome[w] # "completed"
    BY <1>4, <1>9, <2>2 DEF TerminateLocked
  <2> QED BY <2>1, <2>2
<1> QED
  BY <1>1, <1>2, <1>3, <1>5, <1>6, <1>7, <1>8, <1>9, <1>10 DEF Next, Control

(* A process that executes a job stays the only one named by its row.      *)
LEMMA ExecStep == TypeInv /\ ExecInv /\ [Next]_vars => ExecInv'
<1> SUFFICES ASSUME TypeInv, ExecInv, [Next]_vars PROVE ExecInv'
  OBVIOUS
<1>1. CASE UNCHANGED vars
  BY <1>1 DEF ExecInv, Holds, vars, dbVars, rowVars, workerVars, runVars
<1>2. ASSUME NEW w \in Workers, Claim(w) PROVE ExecInv'
  <2> DEFINE j == job[w]
  <2>1. j \in Jobs /\ status[j] = "queued"
    BY <1>2 DEF Claim, Queue
  <2>2. /\ status' = [status EXCEPT ![j] = "running"]
        /\ workerPid' = [workerPid EXCEPT ![j] = w]
        /\ UNCHANGED job
        /\ pc' = [pc EXCEPT ![w] = "claimed"]
    BY <1>2 DEF Claim
  <2>3. ASSUME NEW v \in Workers, NEW k \in Jobs, Holds(v, k)'
        PROVE  workerPid'[k] = v /\ status'[k] \notin {"absent", "queued"}
    <3>1. CASE v = w
      BY <2>1, <2>2, <2>3, <3>1 DEF Holds, TypeInv, TypeOK
    <3>2. CASE v # w
      <4>1. Holds(v, k)
        BY <2>2, <2>3, <3>2 DEF Holds, TypeInv, TypeOK
      <4>2. k # j
        BY <2>1, <4>1 DEF ExecInv
      <4> QED BY <2>1, <2>2, <4>1, <4>2 DEF ExecInv, TypeInv, TypeOK
    <3> QED BY <3>1, <3>2
  <2> QED BY <2>3 DEF ExecInv
<1>3. CASE Next /\ ~ \E w \in Workers : Claim(w)
  BY <1>3, HoldsStep DEF ExecInv
<1> QED BY <1>1, <1>2, <1>3

(* However many processes poll the queue, one executes a job at most.      *)
THEOREM OneExecutorAlways == Spec => []OneExecutor
<1>1. Init => ExecInv
  BY DEF Init, ExecInv, Holds, Executing
<1>2. TypeInv /\ ExecInv /\ [Next]_vars => ExecInv'
  BY ExecStep
<1>3. ExecInv => OneExecutor
  BY DEF ExecInv, OneExecutor
<1> QED BY <1>1, <1>2, <1>3, TypeInvariant, PTL DEF Spec

(* However many processes, restarts and crashes: a finished job never goes *)
(* back to the queue or to running.                                        *)
THEOREM NeverRestartedAlways == Spec => NeverRestarted
<1> DEFINE Kept == \A j \in Jobs : status[j] \in Outcomes => status'[j] \in Outcomes
<1>1. TypeInv /\ [Next]_vars => [Kept]_vars
  <2> SUFFICES ASSUME TypeInv, Next PROVE Kept
    OBVIOUS
  <2> USE DEF dbVars, rowVars
  <2>1. ASSUME NEW j \in Jobs, Submit(j) \/ Cancel(j) \/ GoStale(j) PROVE Kept
    BY <2>1 DEF Submit, Cancel, GoStale, Outcomes, TypeInv, TypeOK
  <2>2. ASSUME NEW w \in Workers, NEW j \in Jobs, ReclaimRow(w, j) PROVE Kept
    BY <2>2 DEF ReclaimRow, Abandoned, Outcomes, TypeInv, TypeOK
  <2>3. ASSUME NEW w \in Workers, Claim(w) PROVE Kept
    <3>1. /\ status[job[w]] = "queued"
          /\ status' = [status EXCEPT ![job[w]] = "running"]
      BY <2>3 DEF Claim, Queue
    <3> QED BY <3>1 DEF Outcomes, TypeInv, TypeOK
  <2>4. ASSUME NEW w \in Workers, Terminate(w) PROVE Kept
    <3>1. outcome[w] \in Outcomes
      BY <2>4 DEF Terminate, TypeInv, TypeOK
    <3> QED BY <2>4, <3>1 DEF Terminate, TypeInv, TypeOK
  <2>5. ASSUME NEW w \in Workers,
               \/ EnterLoop(w) \/ TestStop(w) \/ Exit(w) \/ ClaimNothing(w)
               \/ Select(w) \/ LoseRow(w)
               \/ ForwardCancel(w) \/ CheckCancel(w) \/ StartRun(w) \/ NodeEvent(w)
               \/ RunEnds(w) \/ Heartbeat(w) \/ PollCancel(w) \/ MonitorDies(w)
               \/ Boot(w) \/ Signal(w) \/ Crash(w) \/ TerminateLocked(w)
        PROVE  Kept
    BY <2>5 DEF EnterLoop, TestStop, Exit, ClaimNothing, Select, LoseRow,
                ForwardCancel, CheckCancel, StartRun, NodeEvent, RunEnds, Heartbeat, PollCancel, MonitorDies,
                Boot, Signal, Crash, TerminateLocked, Vanish
  <2> QED BY <2>1, <2>2, <2>3, <2>4, <2>5 DEF Next, Control
<1> QED BY <1>1, TypeInvariant, PTL DEF Spec, NeverRestarted

-----------------------------------------------------------------------------
(* A job cancelled in the queue.  However many worker processes, whatever  *)
(* crashes: the flag is never taken back, and the only way to a node event *)
(* leads through CheckCancel.                                              *)

Unstarted(j) == \A s \in DOMAIN log[j] : log[j][s] # "node_event"

QueueUntouched == \A j \in Jobs : status[j] = "queued" => Unstarted(j)

(* A flagged job that ran nothing yet, held at most by workers that have   *)
(* not read the flag or have already given up.                             *)
Barred(j) ==
  /\ cancelRequested[j]
  /\ Unstarted(j)
  /\ \A w \in Workers : Holds(w, j) => pc[w] \in {"claimed", "check", "terminate"}

QueueInv == TypeInv /\ ExecInv /\ QueueUntouched

(* Any event but a node event leaves an unstarted job unstarted.           *)
LEMMA OtherEventsStartNothing ==
  ASSUME TypeInv, NEW j \in Jobs, NEW k \in Jobs, NEW type,
         type # "node_event" \/ k # j, PersistEvent(k, type), Unstarted(j)
  PROVE  Unstarted(j)'
<1>1. log' = [log EXCEPT ![k] = Persist(log[k], type)] /\ DOMAIN log = Jobs
  BY DEF PersistEvent, TypeInv, TypeOK
<1>2. CASE k # j
  BY <1>1, <1>2 DEF Unstarted
<1>3. CASE k = j
  <2>1. log'[j] = Persist(log[j], type) /\ type # "node_event"
    BY <1>1, <1>3
  <2> QED BY <2>1, Zenon DEF Persist, Unstarted
<1> QED BY <1>2, <1>3

(* Only a worker inside run_job starts a job, and only a submission puts   *)
(* one into the queue.                                                     *)
LEMMA WhoStarts ==
  ASSUME TypeInv, Next, NEW j \in Jobs, Unstarted(j)
  PROVE  \/ Unstarted(j)'
         \/ \E w \in Workers : pc[w] = "running" /\ job[w] = j /\ UNCHANGED status
<1> DEFINE Goal == \/ Unstarted(j)'
                   \/ \E w \in Workers :
                        pc[w] = "running" /\ job[w] = j /\ UNCHANGED status
<1> USE DEF dbVars, rowVars, workerVars
<1>1. ASSUME NEW k \in Jobs, Submit(k) PROVE Goal
  <2>1. log' = [log EXCEPT ![k] = [s \in {0} |-> "job_queued"]] /\ DOMAIN log = Jobs
    BY <1>1 DEF Submit, TypeInv, TypeOK
  <2>2. CASE k = j
    <3>1. log'[j] = [s \in {0} |-> "job_queued"]
      BY <2>1, <2>2
    <3> QED BY <3>1 DEF Unstarted
  <2>3. CASE k # j
    BY <2>1, <2>3 DEF Unstarted
  <2> QED BY <2>2, <2>3
<1>2. ASSUME UNCHANGED log PROVE Goal
  BY <1>2 DEF Unstarted
<1>3. ASSUME NEW w \in Workers, NEW k \in Jobs, ReclaimRow(w, k) PROVE Goal
  <2>1. UNCHANGED log \/ PersistEvent(k, "job_interrupted")
    BY <1>3 DEF ReclaimRow
  <2> QED BY <1>2, <2>1, OtherEventsStartNothing
<1>4. ASSUME NEW w \in Workers, Claim(w) PROVE Goal
  <2>1. PersistEvent(job[w], "job_started") /\ job[w] \in Jobs
    BY <1>4 DEF Claim, Queue
  <2> QED BY <2>1, OtherEventsStartNothing
<1>5. ASSUME NEW w \in Workers, NodeEvent(w) PROVE Goal
  <2>1. /\ pc[w] = "running" /\ UNCHANGED status /\ job[w] \in Jobs
        /\ PersistEvent(job[w], "node_event")
    BY <1>5 DEF NodeEvent, TypeInv, TypeOK, Executing
  <2> QED BY <2>1, OtherEventsStartNothing
<1>6. ASSUME NEW w \in Workers, Terminate(w) PROVE Goal
  <2>1. job[w] \in Jobs /\ outcome[w] \in Outcomes
    BY <1>6 DEF Terminate, TypeInv, TypeOK, Executing
  <2>2. Announcement(outcome[w]) # "node_event"
    BY <2>1 DEF Announcement, Outcomes
  <2>3. PersistEvent(job[w], Announcement(outcome[w]))
    BY <1>6 DEF Terminate
  <2> QED BY <2>1, <2>2, <2>3, OtherEventsStartNothing
<1>7. ASSUME NEW k \in Jobs, Cancel(k) \/ GoStale(k) PROVE Goal
  BY <1>2, <1>7 DEF Cancel, GoStale
<1>8. ASSUME NEW w \in Workers,
             \/ EnterLoop(w) \/ TestStop(w) \/ Exit(w) \/ ClaimNothing(w)
             \/ Select(w) \/ LoseRow(w)
             \/ ForwardCancel(w) \/ CheckCancel(w) \/ StartRun(w)
             \/ RunEnds(w) \/ Heartbeat(w) \/ PollCancel(w) \/ MonitorDies(w)
             \/ Boot(w) \/ Signal(w) \/ Crash(w) \/ TerminateLocked(w)
      PROVE  UNCHANGED log
  BY <1>8 DEF EnterLoop, TestStop, Exit, ClaimNothing, Select, LoseRow,
              ForwardCancel, CheckCancel,
              StartRun, RunEnds, Heartbeat, PollCancel, MonitorDies, Boot, Signal,
              Crash, TerminateLocked, Vanish
<1> QED
  BY <1>1, <1>2, <1>3, <1>4, <1>5, <1>6, <1>7, <1>8 DEF Next, Control

(* A job enters the queue by its submission, with a log that says so.      *)
LEMMA WhoQueues ==
  ASSUME TypeInv, Next, NEW j \in Jobs, status'[j] = "queued"
  PROVE  status[j] = "queued" \/ Unstarted(j)'
<1> DEFINE Goal == status[j] = "queued" \/ Unstarted(j)'
<1> USE DEF dbVars, rowVars, workerVars
<1>1. ASSUME NEW k \in Jobs, Submit(k) PROVE Goal
  <2>1. /\ log' = [log EXCEPT ![k] = [s \in {0} |-> "job_queued"]] /\ DOMAIN log = Jobs
        /\ status' = [status EXCEPT ![k] = "queued"]
    BY <1>1 DEF Submit, TypeInv, TypeOK
  <2>2. CASE k = j
    <3>1. log'[j] = [s \in {0} |-> "job_queued"]
      BY <2>1, <2>2
    <3> QED BY <3>1 DEF Unstarted
  <2>3. CASE k # j
    BY <2>1, <2>3 DEF TypeInv, TypeOK
  <2> QED BY <2>2, <2>3
<1>2. ASSUME NEW w \in Workers, NEW k \in Jobs, ReclaimRow(w, k) PROVE Goal
  BY <1>2 DEF ReclaimRow, TypeInv, TypeOK
<1>3. ASSUME NEW w \in Workers, Claim(w) PROVE Goal
  <2>1. job[w] \in Jobs /\ status' = [status EXCEPT ![job[w]] = "running"]
    BY <1>3 DEF Claim, Queue
  <2> QED BY <2>1 DEF TypeInv, TypeOK
<1>4. ASSUME NEW w \in Workers, Terminate(w) PROVE Goal
  <2>1. job[w] \in Jobs /\ outcome[w] \in Outcomes
    BY <1>4 DEF Terminate, TypeInv, TypeOK, Executing
  <2> QED BY <1>4, <2>1 DEF Terminate, Outcomes, TypeInv, TypeOK
<1>5. ASSUME NEW k \in Jobs, Cancel(k) \/ GoStale(k) PROVE Goal
  BY <1>5 DEF Cancel, GoStale
<1>6. ASSUME NEW w \in Workers,
             \/ EnterLoop(w) \/ TestStop(w) \/ Exit(w) \/ ClaimNothing(w)
             \/ Select(w) \/ LoseRow(w)
             \/ ForwardCancel(w) \/ CheckCancel(w) \/ StartRun(w) \/ NodeEvent(w)
             \/ RunEnds(w) \/ Heartbeat(w) \/ PollCancel(w) \/ MonitorDies(w)
             \/ Boot(w) \/ Signal(w) \/ Crash(w) \/ TerminateLocked(w)
      PROVE  UNCHANGED status
  BY <1>6 DEF EnterLoop, TestStop, Exit, ClaimNothing, Select, LoseRow,
              ForwardCancel, CheckCancel,
              StartRun, NodeEvent, RunEnds, Heartbeat, PollCancel, MonitorDies, Boot,
              Signal, Crash, TerminateLocked, Vanish
<1> QED
  BY <1>1, <1>2, <1>3, <1>4, <1>5, <1>6 DEF Next, Control

(* A queued job has run nothing: nobody executes it, and no job comes back *)
(* to the queue.                                                           *)
LEMMA UntouchedStep == QueueInv /\ [Next]_vars => QueueInv'
<1> SUFFICES ASSUME QueueInv, [Next]_vars PROVE QueueInv'
  OBVIOUS
<1>1. TypeInv' /\ ExecInv'
  BY TypeStep, ExecStep DEF QueueInv
<1>2. ASSUME NEW j \in Jobs, status'[j] = "queued" PROVE Unstarted(j)'
  <2>1. CASE UNCHANGED vars
    BY <1>2, <2>1 DEF QueueInv, QueueUntouched, Unstarted, vars, dbVars, rowVars
  <2>2. CASE Next
    <3>1. CASE status[j] = "queued"
      <4>1. Unstarted(j)
        BY <3>1 DEF QueueInv, QueueUntouched
      <4>2. \A w \in Workers : ~ (pc[w] = "running" /\ job[w] = j)
        BY <3>1 DEF QueueInv, ExecInv, Holds, Executing
      <4> QED BY <2>2, <4>1, <4>2, WhoStarts DEF QueueInv
    <3> QED BY <1>2, <2>2, <3>1, WhoQueues DEF QueueInv
  <2> QED BY <2>1, <2>2
<1> QED BY <1>1, <1>2 DEF QueueInv, QueueUntouched

(* The bar stays: no step takes the flag back, and a worker that reads it  *)
(* goes to write the outcome.                                              *)
LEMMA BarStep ==
  ASSUME NEW j \in Jobs
  PROVE  QueueInv /\ Barred(j) /\ [Next]_vars => Barred(j)'
<1> SUFFICES ASSUME QueueInv, Barred(j), [Next]_vars PROVE Barred(j)'
  OBVIOUS
<1> DEFINE Waits(w) == Holds(w, j) => pc[w] \in {"claimed", "check", "terminate"}
           Kept == cancelRequested'[j] /\ \A w \in Workers : Waits(w)'
<1> USE DEF dbVars, rowVars, workerVars, runVars, bootVars, flagVars, monitorVars,
            boundVars
<1>0. CASE UNCHANGED vars
  BY <1>0 DEF Barred, Unstarted, Holds, vars
<1>1. ASSUME NEW k \in Jobs, Submit(k) \/ Cancel(k) \/ GoStale(k) PROVE Kept
  BY <1>1 DEF Submit, Cancel, GoStale, FlagCancel, Barred, Holds, QueueInv, TypeInv, TypeOK
<1>2. ASSUME NEW w \in Workers, NEW k \in Jobs, ReclaimRow(w, k) PROVE Kept
  BY <1>2 DEF ReclaimRow, Barred, Holds
<1>3. ASSUME NEW w \in Workers,
             EnterLoop(w) \/ TestStop(w) \/ ClaimNothing(w) \/ Boot(w) \/ Signal(w)
      PROVE  Kept
  BY <1>3 DEF EnterLoop, TestStop, ClaimNothing, Boot, Signal, Barred, Holds, Executing,
              QueueInv, TypeInv, TypeOK
<1>4. ASSUME NEW w \in Workers, Vanish(w) PROVE Kept
  BY <1>4 DEF Vanish, Barred, Holds, Executing, QueueInv, TypeInv, TypeOK
<1>5. ASSUME NEW w \in Workers, Exit(w) \/ Crash(w) PROVE Kept
  BY <1>4, <1>5 DEF Exit, Crash
<1>6. ASSUME NEW w \in Workers, Select(w) \/ Claim(w) \/ LoseRow(w) PROVE Kept
  BY <1>6 DEF Select, Claim, LoseRow, Barred, Holds, Executing, QueueInv, TypeInv, TypeOK
<1>7. ASSUME NEW w \in Workers, ForwardCancel(w) PROVE Kept
  BY <1>7 DEF ForwardCancel, FlagCancel, Barred, Holds, Executing, QueueInv, TypeInv, TypeOK
<1>8. ASSUME NEW w \in Workers, CheckCancel(w) PROVE Kept
  BY <1>8 DEF CheckCancel, CancelSeen, Barred, Holds, Executing, QueueInv, TypeInv, TypeOK
<1>9. ASSUME NEW w \in Workers, StartRun(w) \/ RunEnds(w) PROVE Kept
  BY <1>9 DEF StartRun, RunEnds, Barred, Holds, Executing, QueueInv, TypeInv, TypeOK
<1>10. ASSUME NEW w \in Workers,
              NodeEvent(w) \/ Heartbeat(w) \/ PollCancel(w) \/ MonitorDies(w)
       PROVE  Kept
  BY <1>10 DEF NodeEvent, Heartbeat, PollCancel, MonitorDies, Barred, Holds
<1>11. ASSUME NEW w \in Workers, Terminate(w) PROVE Kept
  BY <1>11 DEF Terminate, Barred, Holds, Executing, QueueInv, TypeInv, TypeOK
<1>12. ASSUME NEW w \in Workers, TerminateLocked(w) PROVE Kept
  <2>1. CASE outcome[w] = "completed"
    BY <1>12, <2>1 DEF TerminateLocked, Barred, Holds
  <2>2. CASE outcome[w] # "completed"
    BY <1>4, <1>12, <2>2 DEF TerminateLocked
  <2> QED BY <2>1, <2>2
<1>13. CASE Next
  <2>1. Kept
    BY <1>1, <1>2, <1>3, <1>5, <1>6, <1>7, <1>8, <1>9, <1>10, <1>11, <1>12, <1>13
       DEF Next, Control
  <2>2. \A w \in Workers : ~ (pc[w] = "running" /\ job[w] = j)
    BY DEF Barred, Holds, Executing
  <2>3. Unstarted(j)'
    BY <1>13, <2>2, WhoStarts DEF Barred, QueueInv
  <2> QED BY <2>1, <2>3 DEF Barred
<1> QED BY <1>0, <1>13

(* However many worker processes, whatever crashes: a job cancelled while  *)
(* it waits in the queue never gets to run_job.                            *)
THEOREM CancelledNeverRuns == Spec => CancelledInQueueNeverRuns
<1> SUFFICES ASSUME NEW j \in Jobs
             PROVE  Spec => [](status[j] = "queued" /\ cancelRequested[j] =>
                                 [](\A s \in DOMAIN log[j] : log[j][s] # "node_event"))
  BY DEF CancelledInQueueNeverRuns
<1>1. Init => QueueInv
  BY TypeInit DEF Init, QueueInv, QueueUntouched, ExecInv, Holds, Executing
<1>2. QueueInv /\ [Next]_vars => QueueInv'
  BY UntouchedStep
<1>3. QueueInv /\ status[j] = "queued" /\ cancelRequested[j] => Barred(j)
  BY DEF QueueInv, QueueUntouched, ExecInv, Barred
<1>4. QueueInv /\ Barred(j) /\ [Next]_vars => Barred(j)'
  BY BarStep
<1>5. Barred(j) => \A s \in DOMAIN log[j] : log[j][s] # "node_event"
  BY DEF Barred, Unstarted
<1> QED BY <1>1, <1>2, <1>3, <1>4, <1>5, PTL DEF Spec

-----------------------------------------------------------------------------
(* One worker process at a time (Overlap = FALSE).  The strengthening: one *)
(* process at most is up, what it executes and what a reclaim remembers    *)
(* still runs, and the log of every job tells its status.                  *)

Solo ==
  /\ \A v, w \in Workers : pc[v] # "down" /\ pc[w] # "down" => v = w
  /\ \A w \in Workers, j \in Jobs : Holds(w, j) => status[j] = "running"
  /\ \A w \in Workers : \A j \in toCheck[w] : pc[w] = "boot" /\ status[j] = "running"

ToldJob(j) == \E n \in Nat : DOMAIN log[j] = 0 .. (n-1) /\ Told(j, n)

AllTold == \A j \in Jobs : ToldJob(j)

SoloInv == Solo /\ AllTold

(* What one step of a lone worker or of the API does to the database: a    *)
(* node event, a submission, the start of a queued job, an outcome.        *)
DbQuiet  == UNCHANGED <<status, log>>
DbNode   == \E j \in Jobs : /\ status[j] = "running" /\ UNCHANGED status
                           /\ PersistEvent(j, "node_event")
DbSubmit == \E j \in Jobs : /\ status[j] = "absent"
                           /\ status' = [status EXCEPT ![j] = "queued"]
                           /\ log' = [log EXCEPT ![j] = [s \in {0} |-> "job_queued"]]
DbStart  == \E j \in Jobs : /\ status[j] = "queued"
                           /\ status' = [status EXCEPT ![j] = "running"]
                           /\ PersistEvent(j, "job_started")
DbSettle == \E j \in Jobs, o \in Outcomes :
              /\ status[j] = "running"
              /\ status' = [status EXCEPT ![j] = o]
              /\ PersistEvent(j, Announcement(o))

(* Summary of what a step may do to the rows and the logs.                 *)
LEMMA DbStep ==
  ASSUME TypeInv, Solo, Next
  PROVE  \/ DbQuiet \/ DbNode \/ DbSubmit \/ DbSettle
         \/ DbStart /\ \E w \in Workers : Claim(w)
<1> DEFINE Db == \/ DbQuiet \/ DbNode \/ DbSubmit \/ DbSettle
                 \/ DbStart /\ \E w \in Workers : Claim(w)
<1> USE DEF dbVars, rowVars, workerVars
<1>1. ASSUME NEW j \in Jobs, Submit(j) PROVE Db
  BY <1>1 DEF Submit, DbSubmit
<1>2. ASSUME NEW j \in Jobs, Cancel(j) \/ GoStale(j) PROVE Db
  BY <1>2 DEF Cancel, GoStale, DbQuiet
<1>3. ASSUME NEW w \in Workers, NEW j \in Jobs, ReclaimRow(w, j) PROVE Db
  <2>1. status[j] = "running"
    BY <1>3 DEF ReclaimRow, Solo
  <2>2. CASE Abandoned(w, j)
    <3>1. /\ PersistEvent(j, "job_interrupted")
          /\ status' = [status EXCEPT ![j] = "interrupted"]
      BY <1>3, <2>1, <2>2 DEF ReclaimRow, Abandoned, TypeInv, TypeOK
    <3>2. Announcement("interrupted") = "job_interrupted"
      BY DEF Announcement
    <3>3. "interrupted" \in Outcomes
      BY DEF Outcomes
    <3> QED BY <2>1, <3>1, <3>2, <3>3 DEF DbSettle
  <2>3. CASE ~Abandoned(w, j)
    BY <1>3, <2>3 DEF ReclaimRow, Abandoned, DbQuiet
  <2> QED BY <2>2, <2>3 DEF Abandoned
<1>4. ASSUME NEW w \in Workers, Claim(w) PROVE Db
  BY <1>4 DEF Claim, Queue, DbStart
<1>5. ASSUME NEW w \in Workers, NodeEvent(w) PROVE Db
  <2>1. job[w] \in Jobs /\ status[job[w]] = "running"
    BY <1>5 DEF NodeEvent, Solo, Holds, Executing, TypeInv, TypeOK
  <2> QED BY <1>5, <2>1 DEF NodeEvent, DbNode
<1>6. ASSUME NEW w \in Workers, Terminate(w) PROVE Db
  <2>1. job[w] \in Jobs /\ status[job[w]] = "running" /\ outcome[w] \in Outcomes
    BY <1>6 DEF Terminate, Solo, Holds, Executing, TypeInv, TypeOK
  <2> QED BY <1>6, <2>1 DEF Terminate, DbSettle
<1>7. ASSUME NEW w \in Workers,
             \/ EnterLoop(w) \/ TestStop(w) \/ Exit(w) \/ ClaimNothing(w)
             \/ Select(w) \/ LoseRow(w)
             \/ ForwardCancel(w) \/ CheckCancel(w) \/ StartRun(w)
             \/ RunEnds(w) \/ Heartbeat(w) \/ PollCancel(w) \/ MonitorDies(w)
             \/ Boot(w) \/ Signal(w) \/ Crash(w) \/ TerminateLocked(w)
      PROVE  Db
  BY <1>7 DEF EnterLoop, TestStop, Exit, ClaimNothing, Select, LoseRow,
              ForwardCancel, CheckCancel,
              StartRun, RunEnds, Heartbeat, PollCancel, MonitorDies, Boot, Signal,
              Crash, TerminateLocked, Vanish, DbQuiet
<1> QED
  BY <1>1, <1>2, <1>3, <1>4, <1>5, <1>6, <1>7 DEF Next, Control

(* Appending the right event keeps the log telling.                        *)
LEMMA AppendTells ==
  ASSUME TypeInv, AllTold,
         NEW j \in Jobs, NEW st \in {"running"} \cup Outcomes, NEW type,
         status[j] = "running" \/ (status[j] = "queued" /\ st = "running"),
         status' = [status EXCEPT ![j] = st],
         PersistEvent(j, type),
         st = "running" => type \notin TerminalEvents,
         st \in Outcomes => type = Announcement(st)
  PROVE  AllTold'
<1> USE DEF AllTold
<1>1. PICK n \in Nat : DOMAIN log[j] = 0 .. (n-1) /\ Told(j, n)
  BY DEF ToldJob
<1>2. /\ log'[j] = Persist(log[j], type)
      /\ \A k \in Jobs : k # j => log'[k] = log[k] /\ status'[k] = status[k]
      /\ status'[j] = st
  BY DEF PersistEvent, TypeInv, TypeOK
<1>3. /\ DOMAIN log'[j] = 0 .. n
      /\ log'[j][n] = type
      /\ \A s \in 0 .. (n-1) : log'[j][s] = log[j][s]
  BY <1>1, <1>2, PersistAppends
<1>4. n >= 1 /\ n + 1 \in Nat /\ (n+1) - 1 = n
  BY <1>1 DEF Told
<1>5. \A s \in 0 .. n : s \in 0 .. (n-1) \/ s = n
  OBVIOUS
<1>6. \A s \in 0 .. (n-1) : s # n /\ log[j][s] \notin TerminalEvents
  BY <1>1 DEF Told, Outcomes
<1>7. st \in Outcomes => type \in TerminalEvents
  BY DEF Outcomes, Announcement, TerminalEvents
<1>8. \A s \in DOMAIN log'[j] :
        log'[j][s] \in TerminalEvents <=> status'[j] \in Outcomes /\ s = (n+1) - 1
  BY <1>2, <1>3, <1>4, <1>5, <1>6, <1>7
<1>9. /\ status'[j] \notin {"absent", "queued"}
      /\ n + 1 >= 2
      /\ status'[j] \in Outcomes => log'[j][(n+1) - 1] = Announcement(status'[j])
  BY <1>2, <1>3, <1>4 DEF Outcomes
<1>10. Told(j, n+1)'
  BY <1>8, <1>9 DEF Told
<1>11. ToldJob(j)'
  BY <1>3, <1>4, <1>10 DEF ToldJob
<1>12. ASSUME NEW k \in Jobs, k # j PROVE ToldJob(k)'
  BY <1>2, <1>12 DEF ToldJob, Told
<1> QED BY <1>11, <1>12

(* With one process at a time, only that process changes a running row.    *)
LEMMA SoloStep == ~Overlap /\ TypeInv /\ ExecInv /\ Solo /\ [Next]_vars => Solo'
<1> SUFFICES ASSUME ~Overlap, TypeInv, ExecInv, Solo, [Next]_vars PROVE Solo'
  OBVIOUS
<1> USE DEF dbVars, rowVars, workerVars, runVars, bootVars, flagVars, monitorVars,
            boundVars
<1>0. CASE UNCHANGED vars
  BY <1>0 DEF vars, Solo, Holds
<1>1. ASSUME NEW j \in Jobs, Submit(j) PROVE Solo'
  BY <1>1 DEF Submit, Solo, Holds, TypeInv, TypeOK
<1>2. ASSUME NEW j \in Jobs, Cancel(j) \/ GoStale(j) PROVE Solo'
  BY <1>2 DEF Cancel, GoStale, Solo, Holds
<1>3. ASSUME NEW w \in Workers, NEW j \in Jobs, ReclaimRow(w, j) PROVE Solo'
  <2>1. /\ pc[w] = "boot"
        /\ toCheck' = [toCheck EXCEPT ![w] = @ \ {j}]
        /\ UNCHANGED <<pc, job>>
        /\ \A k \in Jobs : k # j => status'[k] = status[k]
    BY <1>3 DEF ReclaimRow, Abandoned, TypeInv, TypeOK
  <2>2. \A v \in Workers : v # w => pc[v] = "down" /\ toCheck[v] = {}
    BY <2>1 DEF Solo
  <2>3. \A v \in Workers, k \in Jobs : ~Holds(v, k)
    BY <2>1, <2>2 DEF Holds, Executing
  <2> QED BY <2>1, <2>2, <2>3 DEF Solo, Holds, TypeInv, TypeOK
<1>4. ASSUME NEW w \in Workers,
             EnterLoop(w) \/ TestStop(w) \/ ClaimNothing(w)
      PROVE  Solo'
  BY <1>4 DEF EnterLoop, TestStop, ClaimNothing, Solo, Holds, Executing, TypeInv, TypeOK
<1>5. ASSUME NEW w \in Workers, Vanish(w) PROVE Solo'
  <2>1. /\ status' = status /\ pc'[w] = "down" /\ toCheck'[w] = {}
        /\ \A v \in Workers \ {w} : /\ pc'[v] = pc[v] /\ job'[v] = job[v]
                                     /\ toCheck'[v] = toCheck[v]
    BY <1>5 DEF Vanish, TypeInv, TypeOK, dbVars, rowVars
  <2>2. \A v \in Workers, j \in Jobs : Holds(v, j)' => Holds(v, j)
    BY <2>1 DEF Holds, Executing
  <2> QED BY <2>1, <2>2 DEF Solo
<1>6. ASSUME NEW w \in Workers, Exit(w) \/ Crash(w) PROVE Solo'
  BY <1>5, <1>6 DEF Exit, Crash
<1>7. ASSUME NEW w \in Workers, Boot(w) PROVE Solo'
  <2>1. \A v \in Workers : pc[v] = "down"
    BY <1>7 DEF Boot
  <2> QED BY <1>7, <2>1 DEF Boot, Solo, Holds, Executing, TypeInv, TypeOK
<1>13. ASSUME NEW w \in Workers, Select(w) \/ LoseRow(w) PROVE Solo'
  BY <1>13 DEF Select, LoseRow, Solo, Holds, Executing, TypeInv, TypeOK
<1>8. ASSUME NEW w \in Workers, Claim(w) PROVE Solo'
  <2> DEFINE j == job[w]
  <2>1. j \in Jobs /\ status[j] = "queued"
    BY <1>8 DEF Claim, Queue
  <2>2. /\ pc[w] = "selected"
        /\ status' = [status EXCEPT ![j] = "running"]
        /\ UNCHANGED job
        /\ pc' = [pc EXCEPT ![w] = "claimed"]
        /\ UNCHANGED toCheck
    BY <1>8 DEF Claim
  <2> QED BY <2>1, <2>2 DEF Solo, Holds, Executing, TypeInv, TypeOK
<1>9. ASSUME NEW w \in Workers,
             ForwardCancel(w) \/ CheckCancel(w) \/ StartRun(w) \/ RunEnds(w)
      PROVE  Solo'
  <2>1. CASE ForwardCancel(w)
    BY <2>1 DEF ForwardCancel, Solo, Holds, Executing, TypeInv, TypeOK
  <2>2. CASE CheckCancel(w)
    BY <2>2 DEF CheckCancel, Solo, Holds, Executing, TypeInv, TypeOK
  <2>3. CASE StartRun(w)
    BY <2>3 DEF StartRun, Solo, Holds, Executing, TypeInv, TypeOK
  <2>4. CASE RunEnds(w)
    BY <2>4 DEF RunEnds, Solo, Holds, Executing, TypeInv, TypeOK
  <2> QED BY <1>9, <2>1, <2>2, <2>3, <2>4
<1>10. ASSUME NEW w \in Workers,
              \/ NodeEvent(w) \/ Heartbeat(w) \/ PollCancel(w) \/ MonitorDies(w)
              \/ Signal(w)
       PROVE  Solo'
  BY <1>10 DEF NodeEvent, Heartbeat, PollCancel, MonitorDies, Signal, Solo, Holds
<1>11. ASSUME NEW w \in Workers, Terminate(w) PROVE Solo'
  <2>1. \A v \in Workers : v # w => pc[v] = "down" /\ toCheck[v] = {}
    BY <1>11 DEF Terminate, Solo
  <2>2. toCheck[w] = {}
    BY <1>11 DEF Terminate, Solo
  <2> QED BY <1>11, <2>1, <2>2 DEF Terminate, Solo, Holds, Executing, TypeInv, TypeOK
<1>12. ASSUME NEW w \in Workers, TerminateLocked(w) PROVE Solo'
  <2>1. CASE outcome[w] = "completed"
    BY <1>12, <2>1 DEF TerminateLocked, Solo, Holds
  <2>2. CASE outcome[w] # "completed"
    BY <1>5, <1>12, <2>2 DEF TerminateLocked
  <2> QED BY <2>1, <2>2
<1> QED
  BY <1>0, <1>1, <1>2, <1>3, <1>4, <1>6, <1>7, <1>8, <1>9, <1>10, <1>11, <1>12,
     <1>13
     DEF Next, Control

(* Every step keeps the log of a job telling its status.                   *)
LEMMA ToldStep == TypeInv /\ SoloInv /\ [Next]_vars => AllTold'
<1> SUFFICES ASSUME TypeInv, SoloInv, [Next]_vars PROVE AllTold'
  OBVIOUS
<1> USE DEF AllTold
<1>1. CASE DbQuiet
  BY <1>1 DEF DbQuiet, SoloInv, ToldJob, Told
<1>2. CASE DbNode
  <2>1. PICK j \in Jobs : /\ status[j] = "running" /\ UNCHANGED status
                          /\ PersistEvent(j, "node_event")
    BY <1>2 DEF DbNode
  <2>2. status' = [status EXCEPT ![j] = "running"]
    BY <2>1 DEF TypeInv, TypeOK
  <2>3. "node_event" \notin TerminalEvents /\ "running" \notin Outcomes
    BY DEF TerminalEvents, Outcomes
  <2> QED BY <2>1, <2>2, <2>3, AppendTells DEF SoloInv
<1>3. CASE DbSubmit
  <2>1. PICK j \in Jobs :
          /\ status[j] = "absent"
          /\ status' = [status EXCEPT ![j] = "queued"]
          /\ log' = [log EXCEPT ![j] = [s \in {0} |-> "job_queued"]]
    BY <1>3 DEF DbSubmit
  <2>2. /\ status'[j] = "queued"
        /\ log'[j] = [s \in {0} |-> "job_queued"]
        /\ \A k \in Jobs : k # j => status'[k] = status[k] /\ log'[k] = log[k]
    BY <2>1 DEF TypeInv, TypeOK
  <2>3. {0} = 0 .. (1-1) /\ 1 \in Nat
    OBVIOUS
  <2>4. Told(j, 1)'
    BY <2>2 DEF Told, Outcomes, TerminalEvents
  <2>5. ToldJob(j)'
    BY <2>2, <2>3, <2>4 DEF ToldJob
  <2>6. ASSUME NEW k \in Jobs, k # j PROVE ToldJob(k)'
    BY <2>2, <2>6 DEF SoloInv, ToldJob, Told
  <2> QED BY <2>5, <2>6
<1>4. CASE DbStart
  <2>1. PICK j \in Jobs : /\ status[j] = "queued"
                          /\ status' = [status EXCEPT ![j] = "running"]
                          /\ PersistEvent(j, "job_started")
    BY <1>4 DEF DbStart
  <2>2. "job_started" \notin TerminalEvents /\ "running" \notin Outcomes
    BY DEF TerminalEvents, Outcomes
  <2> QED BY <2>1, <2>2, AppendTells DEF SoloInv
<1>5. CASE DbSettle
  <2>1. PICK j \in Jobs, o \in Outcomes :
          /\ status[j] = "running"
          /\ status' = [status EXCEPT ![j] = o]
          /\ PersistEvent(j, Announcement(o))
    BY <1>5 DEF DbSettle
  <2>2. o # "running"
    BY DEF Outcomes
  <2> QED BY <2>1, <2>2, AppendTells DEF SoloInv
<1>6. CASE UNCHANGED vars
  BY <1>1, <1>6 DEF vars, dbVars, rowVars, DbQuiet
<1> QED BY <1>1, <1>2, <1>3, <1>4, <1>5, <1>6, DbStep DEF SoloInv

(* The three parts of the invariant hold together in every state.          *)
LEMMA SoloInvariant ==
  ASSUME ~Overlap
  PROVE  Spec => [](TypeInv /\ ExecInv /\ SoloInv)
<1>1. Init => TypeInv /\ ExecInv /\ SoloInv
  <2> SUFFICES ASSUME Init PROVE TypeInv /\ ExecInv /\ SoloInv
    OBVIOUS
  <2>1. TypeInv /\ ExecInv /\ Solo
    BY TypeInit DEF Init, ExecInv, Solo, Holds, Executing
  <2>2. ASSUME NEW j \in Jobs PROVE ToldJob(j)
    <3>1. /\ DOMAIN log[j] = {} /\ status[j] = "absent"
      BY DEF Init
    <3>2. {} = 0 .. (0-1) /\ 0 \in Nat
      OBVIOUS
    <3>3. Told(j, 0)
      BY <3>1 DEF Told, Outcomes
    <3> QED BY <3>1, <3>2, <3>3 DEF ToldJob
  <2> QED BY <2>1, <2>2 DEF SoloInv, AllTold
<1>2. TypeInv /\ ExecInv /\ SoloInv /\ [Next]_vars => (TypeInv /\ ExecInv /\ SoloInv)'
  BY TypeStep, ExecStep, SoloStep, ToldStep DEF SoloInv
<1> QED BY <1>1, <1>2, PTL DEF Spec

(* One worker process at a time, whatever crashes: the log tells the       *)
(* outcome once, last, and as the row has it.                              *)
THEOREM LogAlwaysTells == ASSUME ~Overlap PROVE Spec => []LogTellsStatus
<1>1. SoloInv => LogTellsStatus
  <2> SUFFICES ASSUME SoloInv, NEW j \in Jobs PROVE Told(j, LogLength(j))
    BY DEF LogTellsStatus
  <2>1. PICK n \in Nat : DOMAIN log[j] = 0 .. (n-1) /\ Told(j, n)
    BY DEF SoloInv, AllTold, ToldJob
  <2> QED BY <2>1, ShapeIsContiguous
<1> QED BY <1>1, SoloInvariant, PTL

(* One worker process at a time: a job keeps the outcome it got.           *)
THEOREM OutcomesAreFinal == ASSUME ~Overlap PROVE Spec => OutcomeIsFinal
<1> DEFINE Kept == \A j \in Jobs : status[j] \in Outcomes => status'[j] = status[j]
<1>1. TypeInv /\ SoloInv /\ [Next]_vars => [Kept]_vars
  <2> SUFFICES ASSUME TypeInv, SoloInv, Next PROVE Kept
    OBVIOUS
  <2> QED BY DbStep DEF DbQuiet, DbNode, DbSubmit, DbStart, DbSettle, SoloInv,
                        Outcomes, TypeInv, TypeOK
<1> QED BY <1>1, SoloInvariant, PTL DEF Spec, OutcomeIsFinal

-----------------------------------------------------------------------------
(* JobQueue implements JobLifecycle.                                       *)

(* A log that tells its status announces that outcome once, others never.  *)
AnnouncedOnce ==
  [j \in Jobs |-> [o \in Outcomes |-> IF status[j] = o THEN 1 ELSE 0]]

LEMMA ToldIsAnnounced ==
  AllTold => Announced = AnnouncedOnce
<1> SUFFICES ASSUME AllTold PROVE Announced = AnnouncedOnce
  OBVIOUS
<1> USE DEF AllTold
<1>1. ASSUME NEW j \in Jobs, NEW o \in Outcomes
      PROVE  Cardinality({s \in DOMAIN log[j] : log[j][s] = Announcement(o)})
               = IF status[j] = o THEN 1 ELSE 0
  <2> DEFINE S == {s \in DOMAIN log[j] : log[j][s] = Announcement(o)}
  <2>1. PICK n \in Nat : DOMAIN log[j] = 0 .. (n-1) /\ Told(j, n)
    BY DEF ToldJob
  <2>2. Announcement(o) \in TerminalEvents
    BY DEF Announcement, Outcomes, TerminalEvents
  <2>3. \A p \in Outcomes : Announcement(p) = Announcement(o) => p = o
    BY DEF Announcement, Outcomes
  <2>4. CASE status[j] = o
    <3>1. n >= 2 /\ log[j][n-1] = Announcement(o)
      BY <2>1, <2>4 DEF Told, Outcomes
    <3>2. n - 1 \in DOMAIN log[j]
      BY <2>1, <3>1
    <3>3. \A s \in S : s = n - 1
      BY <2>1, <2>2 DEF Told
    <3>4. S = {n - 1}
      BY <3>1, <3>2, <3>3
    <3> QED BY <2>4, <3>4, FS_Singleton
  <2>5. CASE status[j] # o
    <3>1. \A s \in DOMAIN log[j] : log[j][s] # Announcement(o)
      BY <2>1, <2>2, <2>3, <2>5 DEF Told
    <3>2. S = {}
      BY <3>1
    <3> QED BY <2>5, <3>2, FS_EmptySet
  <2> QED BY <2>4, <2>5
<1> QED BY <1>1 DEF Announced, AnnouncedOnce

(* The same in the next state.                                             *)
LEMMA ToldIsAnnouncedNext == AllTold' => (Announced = AnnouncedOnce)'
BY ToldIsAnnounced, PTL

(* Who has a row selected, with one process at a time: nobody until that   *)
(* process selects the oldest queued one, and nobody once it claimed it,   *)
(* lost it or is gone.                                                     *)
SelectsOldest == \E w \in Workers :
  /\ Select(w) /\ Selected = {} /\ Selected' = {Oldest(Queue)}
ClaimsSelected == \E w \in Workers :
  /\ Claim(w) /\ Selected = {job[w]} /\ Selected' = {}
ForgetsRow == Selected' = {} /\ UNCHANGED status

LEMMA SelectedStep ==
  ASSUME TypeInv, Solo, Solo', Next
  PROVE  \/ SelectsOldest \/ ClaimsSelected \/ ForgetsRow
         \/ UNCHANGED Selected /\ ~ \E w \in Workers : Claim(w)
<1> DEFINE Goal == \/ SelectsOldest \/ ClaimsSelected \/ ForgetsRow
                   \/ UNCHANGED Selected /\ ~ \E w \in Workers : Claim(w)
<1> USE DEF dbVars, rowVars, workerVars, runVars
<1>1. ASSUME NEW w \in Workers, pc[w] # "down", pc[w] # "selected"
      PROVE  Selected = {} /\ ~ \E v \in Workers : Claim(v)
  BY <1>1 DEF Selected, Claim, Solo
<1>2. ASSUME NEW w \in Workers, pc'[w] # "down", pc'[w] # "selected"
      PROVE  Selected' = {}
  <2>1. \A v \in Workers : pc'[v] # "selected"
    BY <1>2 DEF Solo
  <2> QED BY <2>1 DEF Selected
<1>3. ASSUME NEW w \in Workers, Select(w) PROVE Goal
  <2>1. Selected = {}
    BY <1>1, <1>3 DEF Select
  <2>2. /\ pc'[w] = "selected" /\ job'[w] = Oldest(Queue)
        /\ \A v \in Workers : pc'[v] = "selected" => v = w
    BY <1>3 DEF Select, Solo, TypeInv, TypeOK
  <2>3. Selected' = {Oldest(Queue)}
    BY <2>2 DEF Selected
  <2> QED BY <1>3, <2>1, <2>3 DEF SelectsOldest
<1>4. ASSUME NEW w \in Workers, Claim(w) PROVE Goal
  <2>1. pc[w] = "selected" /\ pc'[w] = "claimed"
    BY <1>4 DEF Claim, TypeInv, TypeOK
  <2>2. \A v \in Workers : pc[v] = "selected" => v = w
    BY <2>1 DEF Solo
  <2>3. Selected = {job[w]}
    BY <2>1, <2>2 DEF Selected
  <2> QED BY <1>2, <1>4, <2>1, <2>3 DEF ClaimsSelected
<1>5. ASSUME NEW w \in Workers, LoseRow(w) PROVE Goal
  BY <1>2, <1>5 DEF LoseRow, ForgetsRow, TypeInv, TypeOK
<1>6. ASSUME NEW w \in Workers, Vanish(w), pc[w] # "down" PROVE Goal
  <2>1. \A v \in Workers : pc'[v] # "selected"
    BY <1>6 DEF Vanish, Solo, TypeInv, TypeOK
  <2> QED BY <1>6, <2>1 DEF Vanish, Selected, ForgetsRow
<1>7. ASSUME UNCHANGED <<pc, job>>, ~ \E w \in Workers : Claim(w) PROVE Goal
  BY <1>7 DEF Selected
<1>8. ASSUME NEW w \in Workers, pc[w] # "down", pc[w] # "selected",
             pc'[w] # "down", pc'[w] # "selected"
      PROVE  Goal
  BY <1>1, <1>2, <1>8
<1>9. ASSUME UNCHANGED <<pc, job>> PROVE Goal
  <2>1. ASSUME NEW w \in Workers PROVE ~ Claim(w)
    BY <1>9 DEF Claim, TypeInv, TypeOK
  <2> QED BY <1>7, <1>9, <2>1
<1>10. ASSUME NEW j \in Jobs, Submit(j) \/ Cancel(j) \/ GoStale(j) PROVE Goal
  BY <1>9, <1>10 DEF Submit, Cancel, GoStale
<1>11. ASSUME NEW w \in Workers, NEW j \in Jobs, ReclaimRow(w, j) PROVE Goal
  BY <1>9, <1>11 DEF ReclaimRow
<1>12. ASSUME NEW w \in Workers, Boot(w) PROVE Goal
  <2>1. \A v \in Workers : pc'[v] # "selected"
    BY <1>12 DEF Boot, Solo, TypeInv, TypeOK
  <2> QED BY <1>12, <2>1 DEF Boot, Selected, ForgetsRow
<1>13. ASSUME NEW w \in Workers,
              \/ Signal(w) \/ NodeEvent(w) \/ Heartbeat(w) \/ PollCancel(w)
              \/ MonitorDies(w)
       PROVE  Goal
  BY <1>9, <1>13 DEF Signal, NodeEvent, Heartbeat, PollCancel, MonitorDies
<1>14. ASSUME NEW w \in Workers,
              \/ EnterLoop(w) \/ TestStop(w) \/ ClaimNothing(w) \/ ForwardCancel(w)
              \/ CheckCancel(w) \/ StartRun(w) \/ RunEnds(w) \/ Terminate(w)
       PROVE  Goal
  <2>1. pc[w] # "down" /\ pc[w] # "selected" /\ pc'[w] # "down" /\ pc'[w] # "selected"
    BY <1>14 DEF EnterLoop, TestStop, ClaimNothing, ForwardCancel, CheckCancel,
                 StartRun, RunEnds, Terminate, TypeInv, TypeOK
  <2> QED BY <1>8, <2>1
<1>15. ASSUME NEW w \in Workers, Exit(w) \/ Crash(w) PROVE Goal
  BY <1>6, <1>15 DEF Exit, Crash
<1>16. ASSUME NEW w \in Workers, TerminateLocked(w) PROVE Goal
  <2>1. CASE outcome[w] = "completed"
    BY <1>9, <1>16, <2>1 DEF TerminateLocked
  <2>2. CASE outcome[w] # "completed"
    BY <1>6, <1>16, <2>2 DEF TerminateLocked
  <2> QED BY <2>1, <2>2
<1> QED
  BY <1>3, <1>4, <1>5, <1>10, <1>11, <1>12, <1>13, <1>14, <1>15, <1>16
     DEF Next, Control

(* Every step of the two processes is a step of the abstract life cycle,   *)
(* or changes nothing that it shows.                                       *)
LEMMA PromiseStep ==
  ASSUME TypeInv, SoloInv, Solo', AllTold', [Next]_vars
  PROVE  [Promise!Next]_<<status, Selected, Announced>>
<1>1. Announced = AnnouncedOnce
  BY ToldIsAnnounced DEF SoloInv
<1>2. Announced' = AnnouncedOnce'
  BY ToldIsAnnouncedNext
<1>3. ASSUME UNCHANGED status PROVE UNCHANGED Announced
  BY <1>1, <1>2, <1>3 DEF AnnouncedOnce
<1>4. CASE UNCHANGED vars
  BY <1>3, <1>4 DEF vars, dbVars, rowVars, workerVars, runVars, Selected
<1>5. CASE ForgetsRow
  BY <1>3, <1>5 DEF ForgetsRow, Promise!Next, Promise!Forget
<1>6. CASE SelectsOldest
  <2>1. PICK w \in Workers :
          /\ Queue # {} /\ UNCHANGED status
          /\ Selected = {} /\ Selected' = {Oldest(Queue)}
    BY <1>6 DEF SelectsOldest, Select, dbVars, rowVars
  <2>2. /\ Oldest(Queue) \in Jobs /\ status[Oldest(Queue)] = "queued"
        /\ \A k \in Queue : Oldest(Queue) <= k
    BY <2>1, OldestQueued
  <2>3. Promise!Choose(Oldest(Queue))
    BY <1>3, <2>1, <2>2 DEF Promise!Choose, Queue
  <2> QED BY <2>2, <2>3 DEF Promise!Next
<1>7. CASE ClaimsSelected
  <2>1. PICK w \in Workers :
          /\ job[w] \in Jobs /\ status[job[w]] = "queued"
          /\ status' = [status EXCEPT ![job[w]] = "running"]
          /\ Selected = {job[w]} /\ Selected' = {}
    BY <1>7 DEF ClaimsSelected, Claim, Queue
  <2>2. UNCHANGED Announced
    BY <1>1, <1>2, <2>1 DEF AnnouncedOnce, Outcomes, TypeInv, TypeOK
  <2>3. Promise!Start(job[w])
    BY <2>1, <2>2 DEF Promise!Start
  <2> QED BY <2>1, <2>3 DEF Promise!Next
<1>8. ASSUME NEW j \in Jobs, status[j] = "absent",
             status' = [status EXCEPT ![j] = "queued"], UNCHANGED Selected
      PROVE  Promise!Submit(j)
  BY <1>1, <1>2, <1>8 DEF Promise!Submit, AnnouncedOnce, Outcomes, TypeInv, TypeOK
<1>9. ASSUME NEW j \in Jobs, NEW o \in Outcomes, status[j] = "running",
             status' = [status EXCEPT ![j] = o], UNCHANGED Selected
      PROVE  Promise!Settle(j, o)
  <2>1. "running" \notin Outcomes
    BY DEF Outcomes
  <2>2. status'[j] = o /\ \A k \in Jobs : k # j => status'[k] = status[k]
    BY <1>9 DEF TypeInv, TypeOK
  <2>3. AnnouncedOnce[j] = [p \in Outcomes |-> 0]
    BY <1>9, <2>1 DEF AnnouncedOnce
  <2>4. [AnnouncedOnce[j] EXCEPT ![o] = @ + 1]
          = [p \in Outcomes |-> IF o = p THEN 1 ELSE 0]
    BY <2>3
  <2>5. AnnouncedOnce' = [AnnouncedOnce EXCEPT
                            ![j] = [p \in Outcomes |-> IF o = p THEN 1 ELSE 0]]
    BY <2>2 DEF AnnouncedOnce
  <2> QED BY <1>1, <1>2, <1>9, <2>4, <2>5 DEF Promise!Settle
<1>10. CASE Next /\ UNCHANGED Selected /\ ~ \E w \in Workers : Claim(w)
  <2>1. DbQuiet \/ DbNode \/ DbSubmit \/ DbSettle
    BY <1>10, DbStep DEF SoloInv
  <2>2. CASE DbQuiet \/ DbNode
    BY <1>3, <1>10, <2>2 DEF DbQuiet, DbNode
  <2>3. CASE DbSubmit
    BY <1>8, <1>10, <2>3 DEF DbSubmit, Promise!Next
  <2>4. CASE DbSettle
    BY <1>9, <1>10, <2>4 DEF DbSettle, Promise!Next
  <2> QED BY <2>1, <2>2, <2>3, <2>4
<1> QED BY <1>4, <1>5, <1>6, <1>7, <1>10, SelectedStep DEF SoloInv

(* One worker process at a time: rows, logs and the row the worker has     *)
(* selected implement the abstract life cycle, in which a job starts only  *)
(* if it was the oldest waiting when it was chosen, starts once, settles   *)
(* once, and is announced with the outcome it settled on.                  *)
THEOREM QueueKeepsPromise == ASSUME ~Overlap PROVE Spec => KeepsPromise
<1>1. Init => Promise!Init
  <2> SUFFICES ASSUME Init PROVE Promise!Init
    OBVIOUS
  <2>1. ASSUME NEW j \in Jobs, NEW o \in Outcomes
        PROVE  Cardinality({s \in DOMAIN log[j] : log[j][s] = Announcement(o)}) = 0
    <3>1. {s \in DOMAIN log[j] : log[j][s] = Announcement(o)} = {}
      BY DEF Init
    <3> QED BY <3>1, FS_EmptySet
  <2>2. Selected = {}
    BY DEF Init, Selected
  <2> QED BY <2>1, <2>2 DEF Init, Promise!Init, Announced
<1>2. (TypeInv /\ ExecInv /\ SoloInv) /\ (TypeInv /\ ExecInv /\ SoloInv)' /\ [Next]_vars
        => [Promise!Next]_<<status, Selected, Announced>>
  BY PromiseStep DEF SoloInv
<1> QED BY <1>1, <1>2, SoloInvariant, PTL DEF Spec, KeepsPromise, Promise!Spec
=============================================================================
