-------------------------- MODULE EventStream_proofs --------------------------
(***************************************************************************)
(* Theorems about EventStream, for every set of clients, jobs and PIDs.    *)
(* The queue goes on beneath the stream, so its theorems carry over; what  *)
(* the stream needs of it is that a log only ever grows.                   *)
(***************************************************************************)
EXTENDS EventStream, JobQueue_proofs

-----------------------------------------------------------------------------
(* The rows of a poll.                                                     *)

(* Of the seqs k .. n-1, i-1 are below k+i-1.                              *)
LEMMA InOrderOfInterval ==
  ASSUME NEW k \in Nat, NEW n \in Nat, k <= n
  PROVE  InOrder(k .. (n-1)) = [i \in 1 .. (n-k) |-> k + i - 1]
<1> DEFINE S == k .. (n-1)
           Below(s) == {t \in S : t < s}
<1>1. Cardinality(S) = n - k
  <2>1. Cardinality(S) = IF k > n-1 THEN 0 ELSE (n-1) - k + 1
    BY FS_Interval
  <2> QED BY <2>1
<1>2. ASSUME NEW s \in S PROVE Cardinality(Below(s)) = s - k
  <2>1. Below(s) = k .. (s-1)
    OBVIOUS
  <2>2. Cardinality(k .. (s-1)) = IF k > s-1 THEN 0 ELSE (s-1) - k + 1
    BY FS_Interval
  <2>3. IF k > s-1 THEN 0 = s - k ELSE (s-1) - k + 1 = s - k
    OBVIOUS
  <2> HIDE DEF Below
  <2> QED BY <2>1, <2>2, <2>3
<1>3. ASSUME NEW i \in 1 .. (n-k)
      PROVE  (CHOOSE s \in S : Cardinality(Below(s)) = i - 1) = k + i - 1
  <2>1. k + i - 1 \in S /\ (k + i - 1) - k = i - 1
    OBVIOUS
  <2>2. \A s \in S : s - k = i - 1 => s = k + i - 1
    OBVIOUS
  <2> HIDE DEF S, Below
  <2>3. Cardinality(Below(k + i - 1)) = i - 1
    BY <1>2, <2>1
  <2>4. \A s \in S : Cardinality(Below(s)) = i - 1 => s = k + i - 1
    BY <1>2, <2>2
  <2> QED BY <2>1, <2>3, <2>4, Zenon
<1> QED BY <1>1, <1>3 DEF InOrder

-----------------------------------------------------------------------------
(* What the stream needs of the queue, overlapping workers included: a job *)
(* without a row has no events, and what a reclaim remembers has a row.    *)

LogInv ==
  /\ \A j \in Jobs : status[j] = "absent" => DOMAIN log[j] = {}
  /\ \A w \in Workers : \A j \in toCheck[w] : status[j] # "absent"

(* Rows stay, and so do the events they have.                              *)
LogGrows ==
  \A j \in Jobs :
    /\ status[j] # "absent" => status'[j] # "absent"
    /\ \A s \in DOMAIN log[j] : s \in DOMAIN log'[j] /\ log'[j][s] = log[j][s]

RowsInv == TypeInv /\ ExecInv /\ LogInv

(* Appending to the log of a job that has a row.                           *)
LEMMA PersistGrows ==
  ASSUME TypeInv, LogInv, NEW j \in Jobs, NEW type, PersistEvent(j, type),
         status[j] # "absent",
         \A k \in Jobs : status[k] # "absent" <=> status'[k] # "absent"
  PROVE  /\ LogGrows
         /\ \A k \in Jobs : status'[k] = "absent" => DOMAIN log'[k] = {}
<1>1. PICK n \in Nat : DOMAIN log[j] = 0 .. (n-1)
  BY DEF TypeInv, LogShape
<1>2. /\ log'[j] = Persist(log[j], type)
      /\ \A k \in Jobs : k # j => log'[k] = log[k]
  BY DEF PersistEvent, TypeInv, TypeOK
<1>3. \A s \in DOMAIN log[j] : s \in DOMAIN log'[j] /\ log'[j][s] = log[j][s]
  <2>1. PICK events : events = log[j]
    OBVIOUS
  <2>2. DOMAIN events = 0 .. (n-1)
    BY <1>1, <2>1
  <2>3. /\ DOMAIN Persist(events, type) = 0 .. n
        /\ \A s \in 0 .. (n-1) : Persist(events, type)[s] = events[s]
    BY ONLY n \in Nat, <2>2, PersistAppends
  <2>4. DOMAIN log'[j] = 0 .. n /\ \A s \in 0 .. (n-1) : log'[j][s] = log[j][s]
    BY <1>2, <2>1, <2>3, Zenon
  <2> QED BY <1>1, <2>4
<1> QED BY <1>2, <1>3 DEF LogGrows, LogInv

(* The log only grows, and the invariant holds again.                      *)
LEMMA LogStep == RowsInv /\ [Next]_vars => LogGrows /\ LogInv'
<1> SUFFICES ASSUME RowsInv, [Next]_vars PROVE LogGrows /\ LogInv'
  OBVIOUS
<1> USE DEF dbVars, rowVars, workerVars, runVars, bootVars, RowsInv
<1>0. CASE UNCHANGED vars
  BY <1>0 DEF vars, LogGrows, LogInv
<1>1. ASSUME NEW j \in Jobs, Submit(j) PROVE LogGrows /\ LogInv'
  <2>1. DOMAIN log[j] = {} /\ status[j] = "absent"
    BY <1>1 DEF Submit, LogInv
  <2>2. /\ status'[j] = "queued"
        /\ \A k \in Jobs : k # j => log'[k] = log[k] /\ status'[k] = status[k]
        /\ UNCHANGED toCheck
    BY <1>1 DEF Submit, TypeInv, TypeOK
  <2> QED BY <2>1, <2>2 DEF LogGrows, LogInv, TypeInv, TypeOK
<1>2. ASSUME NEW j \in Jobs, Cancel(j) \/ GoStale(j) PROVE LogGrows /\ LogInv'
  BY <1>2 DEF Cancel, GoStale, LogGrows, LogInv
<1>3. ASSUME NEW w \in Workers, NEW j \in Jobs, ReclaimRow(w, j)
      PROVE  LogGrows /\ LogInv'
  <2>1. /\ status[j] # "absent"
        /\ \A v \in Workers : toCheck'[v] \subseteq toCheck[v]
    BY <1>3 DEF ReclaimRow, LogInv, TypeInv, TypeOK
  <2>2. CASE Abandoned(w, j)
    <3>1. /\ PersistEvent(j, "job_interrupted")
          /\ status' = [status EXCEPT ![j] = IF @ = "running" THEN "interrupted" ELSE @]
      BY <1>3, <2>2 DEF ReclaimRow, Abandoned
    <3>2. \A k \in Jobs : status[k] # "absent" <=> status'[k] # "absent"
      BY <3>1 DEF TypeInv, TypeOK
    <3> QED BY <2>1, <3>1, <3>2, PersistGrows DEF LogInv, TypeInv, TypeOK
  <2>3. CASE ~Abandoned(w, j)
    BY <1>3, <2>1, <2>3 DEF ReclaimRow, Abandoned, LogGrows, LogInv
  <2> QED BY <2>2, <2>3
<1>4. ASSUME NEW w \in Workers, Claim(w) PROVE LogGrows /\ LogInv'
  <2> DEFINE j == job[w]
  <2>1. j \in Jobs /\ status[j] = "queued"
    BY <1>4 DEF Claim, Queue
  <2>2. /\ status' = [status EXCEPT ![j] = "running"]
        /\ PersistEvent(j, "job_started")
        /\ UNCHANGED toCheck
    BY <1>4 DEF Claim
  <2> HIDE DEF j
  <2>3. \A k \in Jobs : status[k] # "absent" <=> status'[k] # "absent"
    BY <2>1, <2>2 DEF TypeInv, TypeOK
  <2> QED BY <2>1, <2>2, <2>3, PersistGrows DEF LogInv, TypeInv, TypeOK
<1>5. ASSUME NEW w \in Workers, NodeEvent(w) PROVE LogGrows /\ LogInv'
  <2>1. job[w] \in Jobs /\ status[job[w]] # "absent"
    BY <1>5 DEF NodeEvent, ExecInv, Holds, Executing, TypeInv, TypeOK
  <2>2. PersistEvent(job[w], "node_event") /\ UNCHANGED <<status, toCheck>>
    BY <1>5 DEF NodeEvent
  <2> QED BY <2>1, <2>2, PersistGrows DEF LogInv
<1>6. ASSUME NEW w \in Workers, Terminate(w) PROVE LogGrows /\ LogInv'
  <2>1. job[w] \in Jobs /\ status[job[w]] # "absent" /\ outcome[w] \in Outcomes
    BY <1>6 DEF Terminate, ExecInv, Holds, Executing, TypeInv, TypeOK
  <2>2. /\ status' = [status EXCEPT ![job[w]] = outcome[w]]
        /\ PersistEvent(job[w], Announcement(outcome[w]))
        /\ UNCHANGED toCheck
    BY <1>6 DEF Terminate
  <2>3. \A k \in Jobs : status[k] # "absent" <=> status'[k] # "absent"
    BY <2>1, <2>2 DEF Outcomes, TypeInv, TypeOK
  <2> QED BY <2>1, <2>2, <2>3, PersistGrows DEF LogInv, TypeInv, TypeOK
<1>7. ASSUME NEW w \in Workers, Boot(w) PROVE LogGrows /\ LogInv'
  BY <1>7 DEF Boot, LogGrows, LogInv, TypeInv, TypeOK
<1>8. ASSUME NEW w \in Workers,
             \/ EnterLoop(w) \/ TestStop(w) \/ Exit(w) \/ ClaimNothing(w)
             \/ Select(w) \/ LoseRow(w)
             \/ ForwardCancel(w) \/ CheckCancel(w) \/ StartRun(w)
             \/ RunEnds(w) \/ Heartbeat(w) \/ PollCancel(w) \/ MonitorDies(w)
             \/ Signal(w) \/ Crash(w) \/ TerminateLocked(w)
      PROVE  LogGrows /\ LogInv'
  <2>1. /\ UNCHANGED <<status, log>>
        /\ \A v \in Workers : toCheck'[v] \subseteq toCheck[v]
    BY <1>8 DEF EnterLoop, TestStop, Exit, ClaimNothing, Select, LoseRow,
                ForwardCancel, CheckCancel,
                StartRun, RunEnds, Heartbeat, PollCancel, MonitorDies, Signal, Crash,
                TerminateLocked, Vanish, TypeInv, TypeOK
  <2> QED BY <2>1 DEF LogGrows, LogInv
<1> QED
  BY <1>0, <1>1, <1>2, <1>3, <1>4, <1>5, <1>6, <1>7, <1>8 DEF Next, Control

-----------------------------------------------------------------------------
(* The stream.  The strengthening: what is fetched and not sent yet are    *)
(* the next seqs of the log, so that counting events and following seqs    *)
(* come to the same; a closed socket has nothing left to send, and the     *)
(* last it sent was terminal.                                              *)

Follower(c) ==
  /\ follows[c] \in Jobs /\ status[follows[c]] # "absent"
  /\ cursor[c] = Len(received[c])
  /\ \A i \in 1 .. cursor[c] : /\ i - 1 \in DOMAIN log[follows[c]]
                               /\ received[c][i] = log[follows[c]][i - 1]
  /\ \A i \in 1 .. Len(batch[c]) : /\ cursor[c] + i - 1 \in DOMAIN log[follows[c]]
                                   /\ batch[c][i] = cursor[c] + i - 1
  /\ ended[c] => /\ batch[c] = <<>> /\ cursor[c] # 0
                 /\ received[c][cursor[c]] \in TerminalEvents

StreamTypes ==
  /\ DOMAIN follows = Clients
  /\ cursor \in [Clients -> Nat]
  /\ batch \in [Clients -> Seq(Nat)]
  /\ received \in [Clients -> Seq(EventTypes)]
  /\ ended \in [Clients -> BOOLEAN]

StreamInv ==
  /\ StreamTypes
  /\ \A c \in Clients : IF follows[c] = None THEN batch[c] = <<>> /\ ~ended[c]
                                             ELSE Follower(c)

(* A client that keeps its socket keeps what it holds while the log grows. *)
LEMMA QueueMovesOn ==
  ASSUME StreamInv, LogGrows, UNCHANGED streamVars
  PROVE  StreamInv'
<1> USE DEF streamVars
<1>1. StreamTypes'
  BY DEF StreamInv, StreamTypes
<1>2. ASSUME NEW c \in Clients, Follower(c) PROVE Follower(c)'
  BY <1>2 DEF Follower, LogGrows
<1> QED BY <1>1, <1>2 DEF StreamInv

(* What the others hold when only client c moves.                          *)
LEMMA OneClientMoves ==
  ASSUME StreamInv, StreamTypes', UNCHANGED vars, NEW c \in Clients,
         \A d \in Clients \ {c} :
           /\ follows'[d] = follows[d] /\ cursor'[d] = cursor[d]
           /\ batch'[d] = batch[d] /\ received'[d] = received[d]
           /\ ended'[d] = ended[d],
         IF follows'[c] = None THEN batch'[c] = <<>> /\ ~ended'[c] ELSE Follower(c)'
  PROVE  StreamInv'
<1>1. UNCHANGED <<status, log>>
  BY DEF vars, dbVars, rowVars
<1>2. ASSUME NEW d \in Clients \ {c}
      PROVE  IF follows'[d] = None THEN batch'[d] = <<>> /\ ~ended'[d] ELSE Follower(d)'
  <2>1. IF follows[d] = None THEN batch[d] = <<>> /\ ~ended[d] ELSE Follower(d)
    BY DEF StreamInv
  <2> QED BY <1>1, <2>1 DEF Follower
<1> QED BY <1>2 DEF StreamInv

LEMMA ConnectStep ==
  ASSUME StreamInv, UNCHANGED vars, NEW c \in Clients, NEW j \in Jobs, Connect(c, j)
  PROVE  StreamInv'
<1>1. StreamTypes'
  BY DEF Connect, StreamInv, StreamTypes
<1>2. /\ follows'[c] = j /\ cursor'[c] = 0 /\ batch'[c] = <<>>
      /\ received'[c] = <<>> /\ ~ended'[c]
  BY DEF Connect, StreamInv, StreamTypes
<1>3. status'[j] # "absent"
  BY DEF Connect, vars, dbVars, rowVars
<1>4. Follower(c)'
  BY <1>2, <1>3 DEF Follower
<1>5. j # None
  BY ConstantsAssumption
<1>6. \A d \in Clients \ {c} :
        /\ follows'[d] = follows[d] /\ cursor'[d] = cursor[d]
        /\ batch'[d] = batch[d] /\ received'[d] = received[d] /\ ended'[d] = ended[d]
  BY DEF Connect, StreamInv, StreamTypes
<1> QED BY <1>1, <1>2, <1>4, <1>5, <1>6, OneClientMoves

LEMMA DisconnectStep ==
  ASSUME StreamInv, UNCHANGED vars, NEW c \in Clients, Disconnect(c)
  PROVE  StreamInv'
<1>1. StreamTypes'
  BY DEF Disconnect, StreamInv, StreamTypes
<1>2. follows'[c] = None /\ batch'[c] = <<>> /\ ~ended'[c]
  BY DEF Disconnect, StreamInv, StreamTypes
<1>3. \A d \in Clients \ {c} :
        /\ follows'[d] = follows[d] /\ cursor'[d] = cursor[d]
        /\ batch'[d] = batch[d] /\ received'[d] = received[d] /\ ended'[d] = ended[d]
  BY DEF Disconnect, StreamInv, StreamTypes
<1> QED BY <1>1, <1>2, <1>3, OneClientMoves

(* A poll fetches the seqs from the cursor on, in order.                   *)
LEMMA FetchStep ==
  ASSUME TypeInv, StreamInv, UNCHANGED vars, NEW c \in Clients, Fetch(c)
  PROVE  StreamInv'
<1> DEFINE j == follows[c]
           k == cursor[c]
<1>1. Follower(c) /\ ~ended[c]
  BY DEF Fetch, StreamInv
<1>2. PICK n \in Nat : DOMAIN log[j] = 0 .. (n-1)
  BY <1>1 DEF Follower, TypeInv, LogShape
<1>3. k \in Nat /\ k <= n
  <2>1. k \in Nat
    BY DEF StreamInv, StreamTypes
  <2>2. CASE k = 0
    BY <2>2
  <2>3. CASE k # 0
    <3>1. k \in 1 .. cursor[c]
      BY <2>1, <2>3
    <3>2. k - 1 \in DOMAIN log[j]
      BY <1>1, <3>1 DEF Follower
    <3> QED BY <1>2, <2>1, <3>2
  <2> QED BY <2>1, <2>2, <2>3
<1>4. FetchFrom(j, k) = k .. (n-1)
  BY <1>2, <1>3 DEF FetchFrom
<1>5. batch' = [batch EXCEPT ![c] = [i \in 1 .. (n-k) |-> k + i - 1]]
  BY <1>3, <1>4, InOrderOfInterval DEF Fetch
<1>6. [i \in 1 .. (n-k) |-> k + i - 1] \in Seq(Nat)
      /\ Len([i \in 1 .. (n-k) |-> k + i - 1]) = n - k
  <2>1. n - k \in Nat /\ \A i \in 1 .. (n-k) : k + i - 1 \in Nat
    BY <1>3
  <2> QED BY <2>1
<1>7. batch'[c] = [i \in 1 .. (n-k) |-> k + i - 1]
  BY <1>5 DEF StreamInv, StreamTypes
<1>8. StreamTypes'
  BY <1>5, <1>6 DEF Fetch, StreamInv, StreamTypes
<1>9. UNCHANGED <<status, log, follows, cursor, received, ended>>
  BY DEF Fetch, vars, dbVars, rowVars
<1>10. \A i \in 1 .. Len(batch'[c]) : /\ k + i - 1 \in DOMAIN log[j]
                                      /\ batch'[c][i] = k + i - 1
  <2>1. Len(batch'[c]) = n - k
    BY <1>6, <1>7
  <2>2. \A i \in 1 .. (n-k) : k + i - 1 \in 0 .. (n-1)
    BY <1>3
  <2>3. \A i \in 1 .. (n-k) : batch'[c][i] = k + i - 1
    BY <1>7
  <2> QED BY <1>2, <2>1, <2>2, <2>3
<1>11. Follower(c)'
  BY <1>1, <1>9, <1>10 DEF Follower
<1>12. follows'[c] # None
  BY <1>9 DEF Fetch
<1>13. \A d \in Clients \ {c} : batch'[d] = batch[d]
  BY <1>5 DEF StreamInv, StreamTypes
<1> QED BY <1>8, <1>9, <1>11, <1>12, <1>13, OneClientMoves

(* One event is sent: the cursor and the seqs of the batch move together.  *)
LEMMA SendStep ==
  ASSUME TypeInv, StreamInv, UNCHANGED vars, NEW c \in Clients, Send(c)
  PROVE  StreamInv'
<1> DEFINE j == follows[c]
           k == cursor[c]
           type == log[j][Head(batch[c])]
<1>1. follows[c] # None /\ Follower(c) /\ j \in Jobs
  BY DEF Send, StreamInv, Follower
<1>2. /\ k \in Nat /\ batch[c] \in Seq(Nat) /\ received[c] \in Seq(EventTypes)
      /\ batch[c] # <<>>
  BY DEF Send, StreamInv, StreamTypes
<1>3. Head(batch[c]) = k /\ k \in DOMAIN log[j]
  <2>1. 1 \in 1 .. Len(batch[c]) /\ Head(batch[c]) = batch[c][1]
    BY <1>2
  <2> QED BY <1>1, <1>2, <2>1 DEF Follower
<1>4. type \in EventTypes
  BY <1>1, <1>3 DEF TypeInv, TypeOK
<1>5. type = log[j][k]
  BY <1>3
<1> HIDE DEF type
<1>6. /\ received'[c] = Append(received[c], type)
      /\ cursor'[c] = k + 1
      /\ ended'[c] = Closes(type)
      /\ batch'[c] = IF Closes(type) THEN <<>> ELSE Tail(batch[c])
      /\ UNCHANGED <<status, log, follows>>
  BY DEF Send, StreamInv, StreamTypes, vars, dbVars, rowVars, type
<1>7. Closes(type) \in BOOLEAN
  BY DEF Closes
<1>8. Tail(batch[c]) \in Seq(Nat) /\ <<>> \in Seq(Nat)
  BY <1>2
<1>9. StreamTypes'
  <2>1. /\ received' = [received EXCEPT ![c] = Append(@, type)]
        /\ cursor' = [cursor EXCEPT ![c] = @ + 1]
        /\ ended' = [ended EXCEPT ![c] = Closes(type)]
        /\ batch' = [batch EXCEPT ![c] = IF Closes(type) THEN <<>> ELSE Tail(@)]
        /\ UNCHANGED follows
    BY DEF Send, type
  <2> HIDE DEF j, k
  <2>2. DOMAIN follows' = Clients /\ cursor' \in [Clients -> Nat]
    BY <2>1 DEF StreamInv, StreamTypes
  <2>3. batch' \in [Clients -> Seq(Nat)]
    BY <1>8, <2>1 DEF StreamInv, StreamTypes
  <2>4. received' \in [Clients -> Seq(EventTypes)]
    BY <1>2, <1>4, <2>1 DEF StreamInv, StreamTypes
  <2>5. ended' \in [Clients -> BOOLEAN]
    BY <1>7, <2>1 DEF StreamInv, StreamTypes
  <2> QED BY <2>2, <2>3, <2>4, <2>5 DEF StreamTypes
<1>10. Len(received[c]) = k
  BY <1>1 DEF Follower
<1>11. Len(received'[c]) = k + 1
       /\ \A i \in 1 .. (k+1) :
             received'[c][i] = IF i = k + 1 THEN type ELSE received[c][i]
  BY <1>2, <1>4, <1>6, <1>10
<1>12. ASSUME NEW i \in 1 .. (k+1)
       PROVE  i - 1 \in DOMAIN log[j] /\ received'[c][i] = log[j][i-1]
  <2>1. CASE i = k + 1
    <3>1. i - 1 = k /\ received'[c][i] = type
      BY <1>2, <1>11, <2>1
    <3> QED BY <1>3, <1>5, <3>1, Zenon
  <2>2. CASE i # k + 1
    <3>1. i \in 1 .. k
      BY <1>2, <2>2
    <3> QED BY <1>1, <1>11, <2>2, <3>1 DEF Follower
  <2> QED BY <2>1, <2>2
<1>13. ASSUME NEW i \in 1 .. Len(batch'[c])
       PROVE  /\ (k+1) + i - 1 \in DOMAIN log[j]
              /\ batch'[c][i] = (k+1) + i - 1
  <2>1. ~Closes(type)
    BY <1>6, <1>13
  <2>2. batch'[c] = Tail(batch[c])
    BY <1>6, <2>1
  <2>3. i + 1 \in 1 .. Len(batch[c]) /\ batch'[c][i] = batch[c][i+1]
    BY <1>2, <2>2
  <2>4. k + (i+1) - 1 \in DOMAIN log[j] /\ batch[c][i+1] = k + (i+1) - 1
    BY <1>1, <2>3 DEF Follower
  <2>5. k + (i+1) - 1 = (k+1) + i - 1
    BY <1>2, <2>3
  <2> QED BY <2>3, <2>4, <2>5
<1>14. ended'[c] => /\ batch'[c] = <<>> /\ k + 1 # 0
                    /\ received'[c][k+1] \in TerminalEvents
  <2>1. k + 1 \in 1 .. (k+1) /\ k + 1 # 0
    BY <1>2
  <2>2. received'[c][k+1] = type
    BY <1>11, <2>1
  <2> QED BY <1>6, <2>1, <2>2, Zenon DEF Closes
<1>15. j \in Jobs /\ status[j] # "absent"
  BY <1>1 DEF Follower
<1>16. Follower(c)'
  BY <1>6, <1>11, <1>12, <1>13, <1>14, <1>15 DEF Follower
<1>17. \A d \in Clients \ {c} :
        /\ follows'[d] = follows[d] /\ cursor'[d] = cursor[d]
        /\ batch'[d] = batch[d] /\ received'[d] = received[d] /\ ended'[d] = ended[d]
  BY DEF Send, StreamInv, StreamTypes
<1> QED BY <1>1, <1>6, <1>9, <1>16, <1>17, OneClientMoves

LEMMA StreamStep ==
  RowsInv /\ StreamInv /\ [StreamNext]_<<vars, streamVars>> => StreamInv'
<1> SUFFICES ASSUME RowsInv, StreamInv, [StreamNext]_<<vars, streamVars>>
             PROVE  StreamInv'
  OBVIOUS
<1>1. CASE UNCHANGED streamVars /\ [Next]_vars
  BY <1>1, LogStep, QueueMovesOn
<1>2. ASSUME NEW c \in Clients, UNCHANGED vars,
             Disconnect(c) \/ Stream(c) \/ \E j \in Jobs : Connect(c, j)
      PROVE  StreamInv'
  BY <1>2, ConnectStep, DisconnectStep, FetchStep, SendStep DEF Stream, RowsInv
<1> QED BY <1>1, <1>2 DEF StreamNext

LEMMA StreamStarts == StreamInit => RowsInv /\ StreamInv
<1> SUFFICES ASSUME StreamInit PROVE RowsInv /\ StreamInv
  OBVIOUS
<1>1. RowsInv
  BY TypeInit DEF StreamInit, Init, RowsInv, ExecInv, LogInv, Holds, Executing
<1>2. StreamInv
  BY DEF StreamInit, StreamInv, StreamTypes
<1> QED BY <1>1, <1>2

(* The queue runs under the stream as it runs alone.                       *)
LEMMA StreamRunsQueue == StreamSpec => Spec
<1>1. StreamInit => Init
  BY DEF StreamInit
<1>2. [StreamNext]_<<vars, streamVars>> => [Next]_vars
  BY DEF StreamNext
<1> QED BY <1>1, <1>2, PTL DEF StreamSpec, Spec

LEMMA StreamInvariant == StreamSpec => [](RowsInv /\ StreamInv)
<1>1. StreamInit => RowsInv /\ StreamInv
  BY StreamStarts
<1>2. RowsInv /\ StreamInv /\ [StreamNext]_<<vars, streamVars>>
        => (RowsInv /\ StreamInv)'
  <2> SUFFICES ASSUME RowsInv, StreamInv, [StreamNext]_<<vars, streamVars>>
               PROVE  RowsInv' /\ StreamInv'
    OBVIOUS
  <2>1. [Next]_vars
    BY DEF StreamNext
  <2>2. RowsInv'
    BY <2>1, TypeStep, ExecStep, LogStep DEF RowsInv
  <2> QED BY <2>2, StreamStep
<1> QED BY <1>1, <1>2, PTL DEF StreamSpec

(* Whatever the workers and the clients do, a client holds the beginning   *)
(* of the log of its job, each event once and in order.                    *)
THEOREM StreamIsFaithful == StreamSpec => []StreamFaithful
<1>1. StreamInv => StreamFaithful
  BY DEF StreamInv, StreamFaithful, Follower
<1> QED BY <1>1, StreamInvariant, PTL

(* One worker process at a time: a socket the server closed has delivered  *)
(* the whole log, and its last event is the outcome in the row.            *)
THEOREM StreamTellsOutcome ==
  ASSUME ~Overlap PROVE StreamSpec => []StreamEndsWithOutcome
<1>1. StreamInv /\ SoloInv => StreamEndsWithOutcome
  <2> SUFFICES ASSUME StreamInv, SoloInv, NEW c \in Clients, ended[c]
               PROVE  /\ status[follows[c]] \in Outcomes
                      /\ cursor[c] = LogLength(follows[c])
                      /\ received[c][cursor[c]] = Announcement(status[follows[c]])
    BY DEF StreamEndsWithOutcome
  <2> DEFINE j == follows[c]
             k == cursor[c]
  <2>1. Follower(c) /\ k \in Nat
    BY DEF StreamInv, StreamTypes
  <2>2. k \in 1 .. k
    BY <2>1 DEF Follower
  <2>3. /\ k - 1 \in DOMAIN log[j]
        /\ received[c][k] = log[j][k-1]
        /\ log[j][k-1] \in TerminalEvents
    BY <2>1, <2>2 DEF Follower
  <2>4. PICK n \in Nat : DOMAIN log[j] = 0 .. (n-1) /\ Told(j, n)
    BY <2>1 DEF Follower, SoloInv, AllTold, ToldJob
  <2>5. status[j] \in Outcomes /\ k - 1 = n - 1
    BY <2>3, <2>4 DEF Told
  <2>6. log[j][n-1] = Announcement(status[j])
    BY <2>4, <2>5 DEF Told
  <2>7. LogLength(j) = n
    BY <2>1, <2>4, ShapeIsContiguous DEF Follower
  <2> QED BY <2>1, <2>3, <2>5, <2>6, <2>7
<1> QED BY <1>1, StreamInvariant, StreamRunsQueue, SoloInvariant, PTL
=============================================================================
