----------------------------- MODULE EventStream -----------------------------
(***************************************************************************)
(* stream_job_events of server/api.py: a websocket that tails the events   *)
(* of one job while JobQueue runs.  It keeps a cursor, reads the rows with *)
(* a greater seq, sends them in order, advances the cursor by one for each *)
(* and closes after a terminal event.                                      *)
(***************************************************************************)
EXTENDS JobQueue, Sequences

CONSTANT Clients          (* browsers, each with at most one websocket      *)

VARIABLES
  follows,   (* the job whose socket the client has open, or None           *)
  cursor,    (* the code's last_seq plus one                                *)
  batch,     (* the seqs fetched and not sent yet                           *)
  received,  (* the event types sent on this connection                     *)
  ended      (* the server closed the socket after a terminal event         *)

streamVars == <<follows, cursor, batch, received, ended>>

FetchFrom_Mutant(j, n) == {s \in DOMAIN log[j] : s + 1 >= n}
Closes_MutantNarrow(type) == type \in {"job_completed", "job_failed"}
Closes_MutantWide(type)   == type \in TerminalEvents \cup {"node_event"}

(* get_events(after_seq = n - 1).                                          *)
FetchFrom(j, n) == {s \in DOMAIN log[j] : s >= n}

(* `ORDER BY seq`: the i-th of the seqs S has i - 1 of them below it.       *)
InOrder(S) ==
  [i \in 1 .. Cardinality(S) |-> CHOOSE s \in S : Cardinality({t \in S : t < s}) = i - 1]

Closes(type) == type \in TerminalEvents

StreamInit ==
  /\ Init
  /\ follows = [c \in Clients |-> None]
  /\ cursor = [c \in Clients |-> 0]
  /\ batch = [c \in Clients |-> <<>>]
  /\ received = [c \in Clients |-> <<>>]
  /\ ended = [c \in Clients |-> FALSE]

(* Accepted when the row exists.  A client may come back after any end.    *)
Connect(c, j) ==
  /\ follows[c] = None \/ ended[c]
  /\ status[j] # "absent"
  /\ follows' = [follows EXCEPT ![c] = j]
  /\ cursor' = [cursor EXCEPT ![c] = 0]
  /\ batch' = [batch EXCEPT ![c] = <<>>]
  /\ received' = [received EXCEPT ![c] = <<>>]
  /\ ended' = [ended EXCEPT ![c] = FALSE]

Disconnect(c) ==
  /\ follows[c] # None /\ ~ended[c]
  /\ follows' = [follows EXCEPT ![c] = None]
  /\ batch' = [batch EXCEPT ![c] = <<>>]
  /\ UNCHANGED <<cursor, received, ended>>

(* One poll of the database, every _EVENT_POLL_SECONDS.                    *)
Fetch(c) ==
  /\ follows[c] # None /\ ~ended[c] /\ batch[c] = <<>>
  /\ batch' = [batch EXCEPT ![c] = InOrder(FetchFrom(follows[c], cursor[c]))]
  /\ UNCHANGED <<follows, cursor, received, ended>>

(* One turn of `for ev in events`.                                         *)
Send(c) ==
  LET type == log[follows[c]][Head(batch[c])] IN
  /\ batch[c] # <<>>
  /\ received' = [received EXCEPT ![c] = Append(@, type)]
  /\ cursor' = [cursor EXCEPT ![c] = @ + 1]
  /\ ended' = [ended EXCEPT ![c] = Closes(type)]
  /\ batch' = [batch EXCEPT ![c] = IF Closes(type) THEN <<>> ELSE Tail(@)]
  /\ UNCHANGED follows

Stream(c) == Fetch(c) \/ Send(c)

StreamNext ==
  \/ Next /\ UNCHANGED streamVars
  \/ /\ \E c \in Clients : Disconnect(c) \/ Stream(c) \/ \E j \in Jobs : Connect(c, j)
     /\ UNCHANGED vars

(* The server's coroutine runs; the client connects and leaves at will.    *)
StreamSpec ==
  /\ StreamInit
  /\ [][StreamNext]_<<vars, streamVars>>
  /\ Fairness
  /\ \A c \in Clients : WF_<<vars, streamVars>>(Stream(c) /\ UNCHANGED vars)

-----------------------------------------------------------------------------
(* What a client has on its connection is always the beginning of the      *)
(* job's log: no event is skipped, repeated or out of order, although the  *)
(* cursor counts events and the database numbers them.                     *)
StreamFaithful ==
  \A c \in Clients :
    follows[c] # None =>
      /\ cursor[c] = Len(received[c])
      /\ \A i \in 1 .. cursor[c] : /\ i - 1 \in DOMAIN log[follows[c]]
                                   /\ received[c][i] = log[follows[c]][i - 1]

(* With one worker process at a time: when the server closes the socket,   *)
(* the client has the whole log and its last event names the outcome.      *)
StreamEndsWithOutcome ==
  \A c \in Clients :
    ended[c] => LET j == follows[c] IN
      /\ status[j] \in Outcomes
      /\ cursor[c] = LogLength(j)
      /\ received[c][cursor[c]] = Announcement(status[j])

(* A client that stays learns the outcome of its job.                      *)
StreamEnds ==
  \A c \in Clients, j \in Jobs :
    follows[c] = j /\ status[j] \in Outcomes ~> ended[c] \/ follows[c] # j
=============================================================================
