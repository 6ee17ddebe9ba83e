--------------------------- MODULE Projects_proofs ---------------------------
(* Theorems about Projects: for any jobs, parameters, session sets and     *)
(* template versions, any number of requests, restarts and outcomes.       *)
EXTENDS Projects, FiniteFacts

-----------------------------------------------------------------------------
(* Types, with any number of request threads.  A request names an entry    *)
(* that is still in the history, by its seq, and a job that has been made. *)

Busy == {"status", "cancel", "submit", "apply", "append", "row", "entry", "flag",
         "cancelall", "forget"}

Request ==
  [pc : Busy \cup {"idle"},
   kind : Submits \cup {"revert", "published", "delete", None},
   prev : Entry \cup {None}, overrides : Overrides, sessions : Sessions \cup {None},
   version : Versions \cup {None}, render : BOOLEAN, job : Jobs \cup {None},
   collapse : BOOLEAN, published : BOOLEAN, seq : Nat \cup {None}, todo : SUBSET Jobs]

Creates(r)   == r.kind = "create" /\ r.pc \in {"submit", "apply"}
Supersedes(r) == r.pc \in {"status", "cancel", "submit", "apply"} /\ r.kind # "create"
Writes(r)    == r.pc \in {"row", "entry"} /\ r.kind \in Submits
HasJob(r)    == r.pc \in {"apply", "append"} \/ Writes(r)
HasSeq(r)    == r.pc = "append" \/ Writes(r)

(* A request r, of a project p, as jobs are made.                          *)
RequestOK(r, p, m) ==
  /\ r \in Request
  /\ r.pc = "status" => r.kind = "edit"
  /\ r.pc \in {"cancel", "append"} => r.kind \in Kinds
  /\ r.pc \in {"submit", "apply", "entry"} => r.kind \in Submits
  /\ r.pc = "row" => r.kind \in Submits \cup {"revert", "published"}
  /\ r.pc = "flag" => r.kind = "published" /\ r.seq \in Nat
  /\ Creates(r) => r.sessions \in Sessions /\ r.version \in Versions
  /\ r.pc = "cancel" /\ r.kind = "swap_sessions" => r.sessions \in Sessions
  /\ r.pc = "cancel" /\ r.kind = "template_upgrade" => r.version \in Versions
  /\ r.pc \in Busy /\ ~Creates(r) => p # None
  /\ Supersedes(r) => r.prev \in Entry /\ m[r.prev.job] # None /\ Has(p, r.prev.seq)
  /\ r.pc \in {"apply", "append"} => r.kind = "create" \/ p.history # <<>>
  /\ HasJob(r) => r.job \in Jobs /\ m[r.job] # None
  /\ HasSeq(r) => r.seq \in Nat

RequestsOK ==
  /\ DOMAIN req = Threads
  /\ \A t \in Threads : RequestOK(req[t], project, made)
  /\ \A t \in Threads : Creates(req[t]) =>
       /\ project = None /\ ~listed
       /\ \A u \in Threads \ {t} : req[u].pc = "idle"

RowsOK ==
  /\ IsFiniteSet(rows)
  /\ \A h \in rows : made[h.job] # None
  /\ \A h, k \in rows : h.seq = k.seq => h = k

TypeInv == TypeOK /\ RequestsOK /\ RowsOK

-----------------------------------------------------------------------------
(* One request at a time.                                                  *)

Lone == \E t \in Threads : Threads = {t}

(* Jobs that may still run.                                                *)
Pending == {j \in Jobs : Live(j) /\ ~cancelled[j]}

(* Of a project p, its row w, its rows R and a request r.  Whatever was    *)
(* lost on the way, the history has no seq twice, and the table no row     *)
(* that the object has not; a row names the job of its entry or one that   *)
(* was given up.                                                           *)
Apart(p) == \A i, k \in DOMAIN p.history : p.history[i].seq = p.history[k].seq => i = k

Backed(p, R, G) ==
  \A h \in R : \E i \in DOMAIN p.history :
    p.history[i].seq = h.seq /\ (p.history[i].job = h.job \/ h.job \in G)

Sits(r, p, w, R, G) ==
  /\ r.collapse => r.kind = "edit" /\ r.pc \in {"cancel", "submit", "apply", "row", "entry"}
  /\ Supersedes(r) => /\ \E i \in DOMAIN p.history : p.history[i] = r.prev
                      /\ r.collapse => r.prev.job \in G
  /\ r.pc = "append" => \A i \in DOMAIN p.history : p.history[i].seq < r.seq
  /\ Writes(r) => /\ \E i \in DOMAIN p.history :
                       p.history[i].seq = r.seq /\ p.history[i].job = r.job
                         /\ p.history[i].overrides = r.overrides
                  /\ ~r.collapse => \A h \in R : h.seq # r.seq
  /\ r.pc = "forget" => w = None

LoneInv ==
  /\ project = None => row = None /\ rows = {}
  /\ project # None <=> listed
  /\ row = None => rows = {}
  /\ project # None => Apart(project) /\ Backed(project, rows, Gone)
  /\ \A t \in Threads : Sits(req[t], project, row, rows, Gone)

(* As long as nothing was lost: what the request under way has in memory   *)
(* and not yet in the tables.                                              *)
Same(h, e) == /\ h.seq = e.seq /\ h.job = e.job /\ h.overrides = e.overrides
              /\ h.published = e.published

Linear(p) ==
  /\ \A i \in DOMAIN p.history : p.history[i].seq = i - 1
  /\ p.current \in 0 .. (Len(p.history) - 1)

EntryLags(r, seq) == (r.pc = "flag" \/ Writes(r)) /\ r.seq = seq

RowLags(r) == r.pc \in {"submit", "apply", "append", "row"}

Agrees(r, p, w, R) ==
  /\ \A i \in DOMAIN p.history :
       (\E h \in R : Same(h, p.history[i])) \/ EntryLags(r, p.history[i].seq)
  /\ IF r.pc = "row" /\ r.kind = "create" THEN w = None
     ELSE /\ w # None
          /\ w.current # p.current => r.pc = "row"
          /\ w.sessions # p.sessions => r.kind = "swap_sessions" /\ RowLags(r)
          /\ w.version # p.version => r.kind = "template_upgrade" /\ RowLags(r)
  /\ r.pc \in {"row", "entry"} /\ r.collapse => \E h \in R : h.seq = r.seq
  /\ r.pc = "flag" =>
       \E i \in DOMAIN p.history, h \in R :
         /\ h.seq = r.seq /\ h.job = p.history[i].job /\ h.overrides = p.history[i].overrides
         /\ p.history[i].seq = r.seq /\ p.history[i].published = r.published

Shown(r, p, j) ==
  \/ p # None /\ r.pc # "forget" /\ (r.pc = "cancelall" => j \in r.todo)
              /\ \E i \in DOMAIN p.history : p.history[i].job = j
  \/ r.pc \in {"apply", "append"} /\ r.job = j

Sound(r, p, w, R, J) ==
  /\ p # None => Linear(p)
  /\ p # None /\ r.pc # "forget" => Agrees(r, p, w, R)
  /\ r.pc = "append" => r.seq = Len(p.history)
  /\ \A j \in J : Shown(r, p, j)

SoundInv == ~torn => \A t \in Threads : Sound(req[t], project, row, rows, Pending)

(* And the edit a request starts from is the one that is shown, as long as *)
(* it has not put its own beside it; the job it made is in no other edit.  *)
Tip(r, p) ==
  /\ Supersedes(r) \/ r.pc = "append" =>
       /\ p.current + 1 \in DOMAIN p.history /\ p.history[p.current + 1] = r.prev
       /\ r.kind = "edit" \/ r.pc = "submit" => r.render
  /\ r.pc \in {"apply", "append"} /\ r.kind # "create" =>
       IF r.render THEN \A i \in DOMAIN p.history : p.history[i].job # r.job
                   ELSE r.job = r.prev.job

TipInv == ~torn => \A t \in Threads : Tip(req[t], project)

-----------------------------------------------------------------------------
(* The operators of the history.                                           *)

LEMMA ProjectShape ==
  ASSUME NEW p, p \in Project
  PROVE  /\ p.history \in Seq(Entry) /\ Len(p.history) \in Nat
         /\ DOMAIN p.history = 1 .. Len(p.history)
         /\ p.history # <<>> => Len(p.history) # 0
         /\ \A i \in DOMAIN p.history : p.history[i] \in Entry /\ p.history[i].seq \in Nat
<1>1. p.history \in Seq(Entry)
  BY DEF Project
<1>2. \A i \in DOMAIN p.history : p.history[i] \in Entry
  BY <1>1
<1>3. \A e \in Entry : e.seq \in Nat
  BY DEF Entry
<1>4. /\ Len(p.history) \in Nat /\ DOMAIN p.history = 1 .. Len(p.history)
      /\ p.history # <<>> => Len(p.history) # 0
  BY <1>1
<1> QED BY <1>1, <1>2, <1>3, <1>4

LEMMA IndexFits ==
  ASSUME NEW p, p \in Project, NEW seq, Has(p, seq)
  PROVE  /\ IndexOf(p, seq) \in DOMAIN p.history
         /\ p.history[IndexOf(p, seq)].seq = seq
<1> DEFINE at == {i \in Nat : i \in DOMAIN p.history /\ p.history[i].seq = seq}
           first == Min(at)
<1>1. DOMAIN p.history = 1 .. Len(p.history) /\ Len(p.history) \in Nat
  BY ProjectShape
<1>2. first \in at /\ \A i \in at : first <= i
  <2>1. at \in SUBSET Nat /\ at # {}
    BY <1>1 DEF Has, Seqs
  <2> HIDE DEF at
  <2> QED BY <2>1, LeastExists
<1> HIDE DEF first
<1>3. /\ first \in DOMAIN p.history
      /\ p.history[first].seq = seq /\ \A k \in 1 .. (first-1) : p.history[k].seq # seq
  <2>1. ASSUME NEW k \in 1 .. (first-1), p.history[k].seq = seq PROVE FALSE
    <3>1. k \in at /\ k < first
      BY <1>1, <1>2, <2>1
    <3> QED BY <1>1, <1>2, <3>1
  <2> QED BY <1>2, <2>1
<1> QED BY <1>3, Zenon DEF IndexOf

(* A history with every seq once: the entry of a seq is the entry it is.   *)
LEMMA OnlyIndex ==
  ASSUME NEW p, p \in Project, NEW i \in DOMAIN p.history,
         \A k, m \in DOMAIN p.history : p.history[k].seq = p.history[m].seq => k = m
  PROVE  IndexOf(p, p.history[i].seq) = i /\ EntryAt(p, p.history[i].seq) = p.history[i]
<1>1. Has(p, p.history[i].seq)
  BY DEF Has, Seqs
<1> QED BY <1>1, IndexFits DEF EntryAt

LEMMA NextSeqFits ==
  ASSUME NEW p, p \in Project, p.history # <<>>
  PROVE  /\ NextSeq(p) \in Nat
         /\ \A i \in DOMAIN p.history : p.history[i].seq < NextSeq(p)
         /\ \E i \in DOMAIN p.history : NextSeq(p) = p.history[i].seq + 1
<1>1. /\ DOMAIN p.history = 1 .. Len(p.history) /\ Len(p.history) \in Nat \ {0}
      /\ \A i \in DOMAIN p.history : p.history[i].seq \in Nat
  BY ProjectShape
<1>2. Seqs(p) \in SUBSET Nat /\ Seqs(p) # {} /\ IsFiniteSet(Seqs(p))
  <2> DEFINE f == [i \in DOMAIN p.history |-> p.history[i].seq]
  <2>1. IsFiniteSet(DOMAIN p.history)
    BY <1>1, FS_Interval
  <2>2. IsFiniteSet({f[i] : i \in DOMAIN p.history})
    <3>1. DOMAIN f = DOMAIN p.history
      OBVIOUS
    <3> HIDE DEF f
    <3> QED BY <2>1, <3>1, ImageIsFinite
  <2>3. Seqs(p) = {f[i] : i \in DOMAIN p.history}
    BY DEF Seqs
  <2>4. Seqs(p) \in SUBSET Nat
    BY <1>1 DEF Seqs
  <2>5. Seqs(p) # {}
    <3>1. 1 \in DOMAIN p.history
      BY <1>1
    <3> QED BY <3>1 DEF Seqs
  <2> HIDE DEF f
  <2> QED BY <2>2, <2>3, <2>4, <2>5
<1>3. Max(Seqs(p)) \in Seqs(p) /\ \A s \in Seqs(p) : s <= Max(Seqs(p))
  BY <1>2, MaxExists
<1> DEFINE last == Max(Seqs(p))
<1>4. last + 1 \in {s + 1 : s \in Seqs(p)} /\ \A s \in Seqs(p) : s < last + 1
  BY <1>2, <1>3
<1>5. /\ NextSeq(p) \in {s + 1 : s \in Seqs(p)}
      /\ \A s \in Seqs(p) : s < NextSeq(p)
  <2> HIDE DEF last
  <2> QED BY <1>4, Zenon DEF NextSeq
<1> QED BY <1>1, <1>2, <1>5 DEF Seqs

(* The seqs 0, 1, 2 ... go on with the length of the history.              *)
LEMMA NextSeqOfLinear ==
  ASSUME NEW p, p \in Project, p.history # <<>>,
         \A i \in DOMAIN p.history : p.history[i].seq = i - 1
  PROVE  NextSeq(p) = Len(p.history)
<1>1. DOMAIN p.history = 1 .. Len(p.history) /\ Len(p.history) \in Nat \ {0}
  BY ProjectShape
<1>2. PICK i \in 1 .. Len(p.history) : NextSeq(p) = i
  BY <1>1, NextSeqFits
<1>3. Len(p.history) - 1 < NextSeq(p)
  <2>1. Len(p.history) \in DOMAIN p.history
    BY <1>1
  <2> QED BY <2>1, NextSeqFits
<1> QED BY <1>1, <1>2, <1>3

(* Rows with different seqs: the number of those before it is a row's place *)
LEMMA RowsRank ==
  ASSUME NEW S, IsFiniteSet(S), \A h \in S : h.seq \in Nat,
         \A h, k \in S : h.seq = k.seq => h = k
  PROVE  \E rank \in [S -> 0 .. (Cardinality(S) - 1)] :
           /\ \A h \in S : rank[h] = Cardinality({k \in S : k.seq < h.seq})
           /\ \A h, k \in S : rank[h] = rank[k] => h = k
           /\ \A i \in 1 .. Cardinality(S) : \E h \in S : rank[h] = i - 1
<1>1. PICK R : \A h, k \in S : <<h, k>> \in R <=> h.seq < k.seq
  <2> DEFINE Q == {p \in S \X S : p[1].seq < p[2].seq}
  <2>1. \A h, k \in S : <<h, k>> \in Q <=> h.seq < k.seq
    OBVIOUS
  <2> HIDE DEF Q
  <2> QED BY <2>1
<1>2. \A h \in S : {y \in S : <<y, h>> \in R} = {k \in S : k.seq < h.seq}
  BY <1>1
<1>3. /\ \A h \in S : <<h, h>> \notin R
      /\ \A h, k \in S : h # k => <<h, k>> \in R \/ <<k, h>> \in R
      /\ \A h, k, m \in S : <<h, k>> \in R /\ <<k, m>> \in R => <<h, m>> \in R
  BY <1>1
<1>4. PICK rank \in [S -> 0 .. (Cardinality(S) - 1)] :
        /\ \A x \in S : rank[x] = Cardinality({y \in S : <<y, x>> \in R})
        /\ \A x, y \in S : rank[x] = rank[y] => x = y
        /\ \A i \in 1 .. Cardinality(S) : \E x \in S : rank[x] = i - 1
  BY <1>3, RanksFill
<1>5. \A h \in S : rank[h] = Cardinality({k \in S : k.seq < h.seq})
  BY <1>2, <1>4
<1> QED BY <1>4, <1>5

(* When the seqs are 0 .. n-1, the place of a row is its seq.              *)
LEMMA RankIsSeq ==
  ASSUME NEW S, NEW n \in Nat, \A h \in S : h.seq \in 0 .. (n-1),
         \A h, k \in S : h.seq = k.seq => h = k,
         \A i \in 0 .. (n-1) : \E h \in S : h.seq = i
  PROVE  /\ Cardinality(S) = n
         /\ \A h \in S : Cardinality({k \in S : k.seq < h.seq}) = h.seq
<1> DEFINE Below(m) == {k \in S : k.seq < m}
<1>1. ASSUME NEW m \in 0 .. n PROVE Cardinality(Below(m)) = m
  <2> DEFINE f == [k \in Below(m) |-> k.seq]
             I == 0 .. (m-1)
  <2>1. f \in [Below(m) -> I]
    OBVIOUS
  <2>2. \A x, y \in Below(m) : f[x] = f[y] => x = y
    OBVIOUS
  <2>3. \A i \in I : \E x \in Below(m) : f[x] = i
    OBVIOUS
  <2>4. IsFiniteSet(I) /\ Cardinality(I) = m
    <3>1. /\ IsFiniteSet(I)
          /\ Cardinality(I) = IF 0 > m-1 THEN 0 ELSE (m-1) - 0 + 1
      BY FS_Interval
    <3> QED BY <3>1
  <2>5. \A i \in I : \E x \in Below(m) : f[x] = i /\ x \in S /\ x.seq = i
    BY <2>3
  <2> DEFINE g == [i \in I |-> CHOOSE x \in Below(m) : x.seq = i]
  <2>6. \A i \in I : g[i] \in Below(m) /\ g[i].seq = i
    BY <2>5, Zenon
  <2>7. g \in Bijection(I, Below(m))
    <3>1. \A x \in Below(m) : x.seq \in I /\ g[x.seq] = x
      <4>1. ASSUME NEW x \in Below(m) PROVE x.seq \in I /\ g[x.seq] = x
        <5>1. x.seq \in I
          OBVIOUS
        <5>2. g[x.seq] \in Below(m) /\ g[x.seq].seq = x.seq
          BY <2>6, <5>1
        <5> HIDE DEF g
        <5> QED BY <5>1, <5>2
      <4> QED BY <4>1
    <3>2. g \in [I -> Below(m)]
      BY <2>6
    <3> HIDE DEF g, I, Below
    <3>3. g \in Injection(I, Below(m))
      BY <2>6, <3>2 DEF Injection, IsInjective
    <3>4. g \in Surjection(I, Below(m))
      BY <3>1, <3>2 DEF Surjection
    <3> QED BY <3>3, <3>4 DEF Bijection
  <2> HIDE DEF g, I, Below
  <2> QED BY <2>4, <2>7, FS_Bijection DEF ExistsBijection
<1>2. Below(n) = S
  OBVIOUS
<1>3. \A h \in S : h.seq \in 0 .. n /\ Below(h.seq) = {k \in S : k.seq < h.seq}
  OBVIOUS
<1>4. Cardinality(S) = n
  <2>1. n \in 0 .. n
    OBVIOUS
  <2> HIDE DEF Below
  <2> QED BY <1>1, <1>2, <2>1
<1>5. ASSUME NEW h \in S PROVE Cardinality({k \in S : k.seq < h.seq}) = h.seq
  <2> HIDE DEF Below
  <2> QED BY <1>1, <1>3
<1> QED BY <1>4, <1>5

(* What a restart reads from the tables: every row once, in the order of   *)
(* the seqs.                                                               *)
LEMMA RehydratedIsRows ==
  ASSUME TypeInv, row # None
  PROVE  /\ Rehydrated \in Project /\ Rehydrated # None
         /\ Rehydrated.current = row.current /\ Rehydrated.version = row.version
         /\ Rehydrated.sessions = row.sessions
         /\ Len(Rehydrated.history) = Cardinality(rows)
         /\ DOMAIN Rehydrated.history = 1 .. Cardinality(rows)
         /\ \A i \in DOMAIN Rehydrated.history :
              /\ Rehydrated.history[i] \in rows
              /\ Cardinality({k \in rows : k.seq < Rehydrated.history[i].seq}) = i - 1
         /\ \A h \in rows : \E i \in DOMAIN Rehydrated.history : Rehydrated.history[i] = h
<1> DEFINE n == Cardinality(rows)
           Rank(x) == Cardinality({k \in rows : k.seq < x.seq})
           H == [i \in 1 .. n |-> CHOOSE h \in rows : Rank(h) = i - 1]
<1>1. /\ IsFiniteSet(rows) /\ n \in Nat
      /\ \A h \in rows : h \in Entry /\ h.seq \in Nat
      /\ \A h, k \in rows : h.seq = k.seq => h = k
  BY FS_CardinalityType DEF TypeInv, TypeOK, RowsOK, Entry
<1>4. /\ \A h \in rows : Rank(h) \in 0 .. (n-1)
      /\ \A h, k \in rows : Rank(h) = Rank(k) => h = k
      /\ \A i \in 1 .. n : \E h \in rows : Rank(h) = i - 1
  <2>1. PICK rank \in [rows -> 0 .. (n-1)] :
          /\ \A h \in rows : rank[h] = Rank(h)
          /\ \A h, k \in rows : rank[h] = rank[k] => h = k
          /\ \A i \in 1 .. n : \E h \in rows : rank[h] = i - 1
    <3>1. IsFiniteSet(rows) /\ \A h \in rows : h.seq \in Nat
      BY <1>1
    <3> QED BY <1>1, <3>1, RowsRank
  <2> HIDE DEF Rank
  <2> QED BY <2>1
<1>5. Rehydrated = [current |-> row.current, version |-> row.version,
                    sessions |-> row.sessions, history |-> H]
  BY Zenon DEF Rehydrated
<1> HIDE DEF Rank
<1>7. \A i \in 1 .. n : H[i] \in rows /\ Rank(H[i]) = i - 1
  BY <1>4, Zenon
<1>8. ASSUME NEW h \in rows PROVE \E i \in 1 .. n : H[i] = h
  <2>1. Rank(h) + 1 \in 1 .. n /\ (Rank(h) + 1) - 1 = Rank(h)
    BY <1>1, <1>4
  <2> HIDE DEF H
  <2> QED BY <1>4, <1>7, <2>1
<1>9. DOMAIN H = 1 .. n
  OBVIOUS
<1> HIDE DEF H
<1>10. H \in Seq(Entry) /\ Len(H) = n
  <2>1. H = [i \in 1 .. n |-> H[i]] /\ \A i \in 1 .. n : H[i] \in Entry
    BY <1>1, <1>7, Zenon DEF H
  <2> QED BY <1>1, <2>1
<1>11. row \in Row
  BY DEF TypeInv, TypeOK
<1>12. Rehydrated \in Project
  BY <1>5, <1>10, <1>11 DEF Project, Row
<1> QED BY <1>5, <1>7, <1>8, <1>9, <1>10, <1>12, NoneAssumption DEF Rank


-----------------------------------------------------------------------------
(* A step of one request, as the others see it: entries stay and jobs stay *)
(* made.                                                                   *)

Grows(p, m, q, n) ==
  /\ p # None => q # None /\ Seqs(p) \subseteq Seqs(q)
                 /\ (p.history # <<>> => q.history # <<>>)
  /\ \A j \in Jobs : m[j] # None => n[j] # None

LEMMA RequestStays ==
  ASSUME NEW r, NEW p, NEW m, NEW q, NEW n, RequestOK(r, p, m), Grows(p, m, q, n)
  PROVE  RequestOK(r, q, n)
<1>1. Supersedes(r) => r.pc \in Busy /\ ~Creates(r)
  BY DEF Supersedes, Creates, Busy
<1>2. r.pc \in {"apply", "append"} /\ r.kind # "create" => r.pc \in Busy /\ ~Creates(r)
  BY DEF Creates, Busy
<1>3. \A e \in Entry : e.job \in Jobs
  BY DEF Entry
<1> QED BY <1>1, <1>2, <1>3 DEF RequestOK, Grows, Has

LEMMA IdleFits ==
  ASSUME NEW p, NEW m PROVE RequestOK(Idle, p, m) /\ ~Creates(Idle)
<1>1. Idle \in Request
  BY DEF Idle, Request, Overrides
<1>2. Idle.pc = "idle"
  BY DEF Idle
<1> QED BY <1>1, <1>2 DEF RequestOK, Creates, Busy, Supersedes, HasJob, HasSeq, Writes

LEMMA OneRequestMoves ==
  ASSUME RequestsOK, NEW t \in Threads, NEW r, req' = [req EXCEPT ![t] = r],
         RequestOK(r, project', made'), Grows(project, made, project', made'),
         \A u \in Threads \ {t} : ~Creates(req[u]),
         Creates(r) => /\ project' = None /\ ~listed'
                       /\ \A u \in Threads \ {t} : req[u].pc = "idle"
  PROVE  RequestsOK'
<1>1. DOMAIN req' = Threads /\ req'[t] = r /\ \A u \in Threads \ {t} : req'[u] = req[u]
  BY DEF RequestsOK
<1>2. \A u \in Threads : RequestOK(req'[u], project', made')
  <2>1. ASSUME NEW u \in Threads \ {t} PROVE RequestOK(req'[u], project', made')
    <3>1. RequestOK(req[u], project, made)
      BY DEF RequestsOK
    <3> QED BY <1>1, <3>1, RequestStays
  <2> QED BY <1>1, <2>1
<1>3. ASSUME NEW u \in Threads, Creates(req'[u])
      PROVE  /\ project' = None /\ ~listed'
             /\ \A x \in Threads \ {u} : req'[x].pc = "idle"
  <2>1. u = t
    BY <1>1, <1>3
  <2> QED BY <1>1, <1>3, <2>1
<1> QED BY <1>1, <1>2, <1>3 DEF RequestsOK

(* A thread that is not idle, or finds its project, is no witness of a     *)
(* request that creates one.                                               *)
LEMMA NobodyElseCreates ==
  ASSUME RequestsOK, NEW t \in Threads,
         req[t].pc # "idle" \/ listed \/ \A u \in Threads : req[u].pc = "idle"
  PROVE  \A u \in Threads \ {t} : ~Creates(req[u])
BY DEF RequestsOK, Creates

-----------------------------------------------------------------------------
(* What the edits of the object make of it.                                *)

LEMMA EntryReplaced ==
  ASSUME NEW p \in Project, NEW i \in DOMAIN p.history, NEW e \in Entry,
         e.seq = p.history[i].seq, NEW q, q = [p EXCEPT !.history[i] = e]
  PROVE  /\ q \in Project /\ DOMAIN q.history = DOMAIN p.history
         /\ Len(q.history) = Len(p.history)
         /\ q.history[i] = e /\ q.history # <<>>
         /\ \A k \in DOMAIN p.history \ {i} : q.history[k] = p.history[k]
         /\ Seqs(q) = Seqs(p) /\ q.current = p.current
         /\ q.version = p.version /\ q.sessions = p.sessions
<1> DEFINE h == [p.history EXCEPT ![i] = e]
<1>1. /\ p.history \in Seq(Entry) /\ Len(p.history) \in Nat
      /\ DOMAIN p.history = 1 .. Len(p.history)
  BY ProjectShape
<1>2. /\ h \in Seq(Entry) /\ DOMAIN h = DOMAIN p.history /\ h[i] = e
      /\ Len(h) = Len(p.history)
      /\ \A k \in DOMAIN p.history \ {i} : h[k] = p.history[k]
  BY <1>1
<1>3. /\ q = [p EXCEPT !.history = h] /\ q.history = h
      /\ q.current = p.current /\ q.version = p.version /\ q.sessions = p.sessions
  BY DEF Project
<1> HIDE DEF h
<1>4. q \in Project
  BY <1>2, <1>3 DEF Project
<1>5. h # <<>>
  BY <1>2
<1>6. Seqs(q) = Seqs(p)
  BY <1>2, <1>3 DEF Seqs
<1> QED BY <1>2, <1>3, <1>4, <1>5, <1>6

LEMMA EntryAdded ==
  ASSUME NEW p \in Project, NEW e \in Entry, NEW q, q.history = Append(p.history, e)
  PROVE  /\ q.history \in Seq(Entry) /\ q.history # <<>>
         /\ Len(q.history) = Len(p.history) + 1
         /\ DOMAIN q.history = 1 .. (Len(p.history) + 1)
         /\ q.history[Len(p.history) + 1] = e
         /\ \A k \in DOMAIN p.history : q.history[k] = p.history[k]
         /\ Seqs(p) \subseteq Seqs(q)
<1> DEFINE n == Len(p.history)
<1>1. /\ p.history \in Seq(Entry) /\ n \in Nat /\ DOMAIN p.history = 1 .. n
  BY ProjectShape
<1>2. /\ q.history \in Seq(Entry) /\ DOMAIN q.history = 1 .. (n + 1)
      /\ q.history[n + 1] = e /\ Len(q.history) = n + 1
      /\ \A k \in DOMAIN p.history : q.history[k] = p.history[k]
  BY <1>1
<1>3. q.history # <<>>
  BY <1>1, <1>2
<1>4. Seqs(p) \subseteq Seqs(q)
  BY <1>1, <1>2 DEF Seqs
<1> QED BY <1>2, <1>3, <1>4

(* Edits of one other field.                                               *)
LEMMA CurrentReplaced ==
  ASSUME NEW p \in Project, NEW c \in Nat, NEW q, q = [p EXCEPT !.current = c]
  PROVE  /\ q \in Project /\ q.history = p.history /\ Seqs(q) = Seqs(p)
         /\ q.version = p.version /\ q.sessions = p.sessions /\ q.current = c
BY DEF Project, Seqs

LEMMA SessionsReplaced ==
  ASSUME NEW p \in Project, NEW s \in Sessions, NEW q, q = [p EXCEPT !.sessions = s]
  PROVE  /\ q \in Project /\ q.history = p.history /\ Seqs(q) = Seqs(p)
         /\ q.version = p.version /\ q.sessions = s /\ q.current = p.current
BY DEF Project, Seqs

LEMMA VersionReplaced ==
  ASSUME NEW p \in Project, NEW v \in Versions, NEW q, q = [p EXCEPT !.version = v]
  PROVE  /\ q \in Project /\ q.history = p.history /\ Seqs(q) = Seqs(p)
         /\ q.version = v /\ q.sessions = p.sessions /\ q.current = p.current
BY DEF Project, Seqs

(* The object of a request that is not creating it.                        *)
LEMMA AtWork ==
  ASSUME TypeInv, NEW t \in Threads, req[t].pc # "idle", ~Creates(req[t])
  PROVE  project \in Project /\ project # None
<1>1. RequestOK(req[t], project, made) /\ req[t].pc \in Busy
  BY DEF TypeInv, RequestsOK, RequestOK, Request
<1> QED BY <1>1 DEF RequestOK, TypeInv, TypeOK

LEMMA ListedProject ==
  ASSUME TypeInv, listed
  PROVE  /\ project \in Project /\ project # None
         /\ \A seq : Has(project, seq) =>
              /\ IndexOf(project, seq) \in DOMAIN project.history
              /\ EntryAt(project, seq) \in Entry
              /\ EntryAt(project, seq).seq = seq
              /\ made[EntryAt(project, seq).job] # None
<1>1. project \in Project /\ project # None
  BY DEF TypeInv, TypeOK
<1>2. ASSUME NEW seq, Has(project, seq)
      PROVE  /\ IndexOf(project, seq) \in DOMAIN project.history
             /\ EntryAt(project, seq) \in Entry
             /\ EntryAt(project, seq).seq = seq
             /\ made[EntryAt(project, seq).job] # None
  BY <1>1, <1>2, IndexFits, ProjectShape DEF EntryAt, TypeInv, TypeOK
<1> QED BY <1>1, <1>2

-----------------------------------------------------------------------------
(* TypeInv is inductive.                                                   *)

LEMMA TypeStays ==
  ASSUME TypeInv, UNCHANGED <<project, listed, disk, queue, torn>>
  PROVE  TypeOK' /\ RowsOK' /\ Grows(project, made, project', made')
BY DEF TypeInv, TypeOK, RowsOK, Grows, disk, queue

(* A request that begins and leaves the project alone.                     *)
LEMMA BeginsTyped ==
  ASSUME TypeInv, NEW t \in Threads, NEW r, listed, req[t].pc = "idle",
         req' = [req EXCEPT ![t] = r], r \in Request,
         UNCHANGED <<project, listed, disk, queue, torn>>,
         \/ /\ r.pc \in {"status", "cancel"} /\ r.kind \in Kinds /\ r.prev = Current(project)
            /\ HasCurrent(project) /\ (r.pc = "status" => r.kind = "edit")
            /\ r.kind = "swap_sessions" => r.sessions \in Sessions
            /\ r.kind = "template_upgrade" => r.version \in Versions
         \/ r.pc = "cancelall" /\ r.kind = "delete"
  PROVE  TypeInv'
<1>1. TypeOK' /\ RowsOK' /\ Grows(project, made, project', made')
  BY TypeStays
<1>2. RequestsOK /\ project # None
  BY ListedProject DEF TypeInv
<1>3. HasCurrent(project) =>
        /\ Current(project) \in Entry /\ made[Current(project).job] # None
        /\ Has(project, Current(project).seq)
  BY ListedProject DEF Current, HasCurrent
<1>4. RequestOK(r, project, made) /\ ~Creates(r)
  BY <1>2, <1>3 DEF RequestOK, Creates, Supersedes, Kinds, HasJob, HasSeq, Writes
<1>5. RequestOK(r, project', made')
  BY <1>4 DEF queue
<1>6. RequestsOK'
  BY <1>1, <1>2, <1>4, <1>5, NobodyElseCreates, OneRequestMoves
<1> QED BY <1>1, <1>6 DEF TypeInv

LEMMA EditTyped ==
  ASSUME TypeInv, NEW t \in Threads, Edit(t)
  PROVE  TypeInv'
<1>1. ASSUME NEW s \in Sessions, NEW o \in Overrides, Create(t, s, o) PROVE TypeInv'
  <2> DEFINE r == [Idle EXCEPT !.pc = "submit", !.kind = "create",
                               !.sessions = s, !.version = 1, !.overrides = o]
  <2>1. r \in Request /\ r.pc = "submit" /\ r.kind = "create" /\ r.sessions \in Sessions
        /\ r.version \in Versions
    BY ProjectAssumption DEF Idle, Request, Submits, Overrides, Busy, Versions
  <2>2. /\ req' = [req EXCEPT ![t] = r] /\ project = None
        /\ UNCHANGED <<project, listed, disk, queue, torn>>
        /\ \A u \in Threads : req[u].pc = "idle"
    BY <1>1 DEF Create
  <2> HIDE DEF r
  <2>3. TypeOK' /\ RowsOK' /\ Grows(project, made, project', made')
    BY <2>2, TypeStays
  <2>4. ~listed
    BY <2>2 DEF TypeInv, TypeOK
  <2>5. RequestOK(r, project', made')
    BY <2>1 DEF RequestOK, Creates, Supersedes, HasJob, HasSeq, Writes, Submits
  <2>6. RequestsOK
    BY DEF TypeInv
  <2>7. RequestsOK'
    BY <2>2, <2>3, <2>4, <2>5, <2>6, NobodyElseCreates, OneRequestMoves
  <2> QED BY <2>3, <2>7 DEF TypeInv
<1>2. ASSUME NEW set \in Overrides, NEW reset \in Overrides, Patch(t, set, reset)
      PROVE  TypeInv'
  <2> DEFINE r == [Idle EXCEPT !.pc = "status", !.kind = "edit", !.prev = Current(project),
                     !.overrides = Merged(Current(project).overrides, set, reset)]
  <2>1. Current(project) \in Entry
    BY <1>2, ListedProject DEF Patch, HasCurrent, Current
  <2>2. Merged(Current(project).overrides, set, reset) \in Overrides
    BY <2>1 DEF Merged, Overrides, Entry
  <2>3. r \in Request /\ r.pc = "status" /\ r.kind = "edit" /\ r.prev = Current(project)
    BY <2>1, <2>2 DEF Idle, Request, Submits, Overrides, Busy
  <2>4. /\ req' = [req EXCEPT ![t] = r] /\ listed /\ HasCurrent(project)
        /\ UNCHANGED <<project, listed, disk, queue, torn>> /\ req[t].pc = "idle"
    BY <1>2 DEF Patch
  <2> HIDE DEF r
  <2> QED BY <2>3, <2>4, BeginsTyped DEF Kinds
<1>3. ASSUME NEW s \in Sessions, NEW o \in Overrides, NEW render \in BOOLEAN,
             SwapSessions(t, s, o, render)
      PROVE  TypeInv'
  <2> DEFINE r == [Idle EXCEPT !.pc = "cancel", !.kind = "swap_sessions",
                    !.prev = Current(project), !.sessions = s, !.render = render,
                    !.overrides = Merged(o, Current(project).overrides, {})]
  <2>1. Current(project) \in Entry
    BY <1>3, ListedProject DEF SwapSessions, HasCurrent, Current
  <2>2. Merged(o, Current(project).overrides, {}) \in Overrides
    BY <2>1 DEF Merged, Overrides, Entry
  <2>3. /\ r \in Request /\ r.pc = "cancel" /\ r.kind = "swap_sessions"
        /\ r.prev = Current(project) /\ r.sessions \in Sessions
    BY <2>1, <2>2 DEF Idle, Request, Submits, Overrides, Busy
  <2>4. /\ req' = [req EXCEPT ![t] = r] /\ listed /\ HasCurrent(project)
        /\ UNCHANGED <<project, listed, disk, queue, torn>> /\ req[t].pc = "idle"
    BY <1>3 DEF SwapSessions
  <2> HIDE DEF r
  <2> QED BY <2>3, <2>4, BeginsTyped DEF Kinds
<1>4. ASSUME NEW v \in Versions, UpgradeTemplate(t, v)
      PROVE  TypeInv'
  <2> DEFINE r == [Idle EXCEPT !.pc = "cancel", !.kind = "template_upgrade",
                    !.prev = Current(project), !.version = v,
                    !.overrides = Migrated(Current(project).overrides, v)]
  <2>1. Current(project) \in Entry
    BY <1>4, ListedProject DEF UpgradeTemplate, HasCurrent, Current
  <2>2. Migrated(Current(project).overrides, v) \in Overrides
    BY <2>1 DEF Migrated, Overrides, Entry
  <2>3. /\ r \in Request /\ r.pc = "cancel" /\ r.kind = "template_upgrade"
        /\ r.prev = Current(project) /\ r.version \in Versions
    BY <2>1, <2>2 DEF Idle, Request, Submits, Overrides, Busy
  <2>4. /\ req' = [req EXCEPT ![t] = r] /\ listed /\ HasCurrent(project)
        /\ UNCHANGED <<project, listed, disk, queue, torn>> /\ req[t].pc = "idle"
    BY <1>4 DEF UpgradeTemplate
  <2> HIDE DEF r
  <2> QED BY <2>3, <2>4, BeginsTyped DEF Kinds
<1> QED BY <1>1, <1>2, <1>3, <1>4 DEF Edit

(* A step that changes the object only.                                    *)
LEMMA ObjectTyped ==
  ASSUME TypeInv, project' \in Project,
         \A i \in DOMAIN project'.history : made[project'.history[i].job] # None,
         listed' \in BOOLEAN, UNCHANGED <<row, rows, status, cancelled, made, torn>>
  PROVE  TypeOK' /\ RowsOK' /\ project' # None
<1>1. project' # None
  BY NoneAssumption
<1>2. RowsOK'
  BY DEF TypeInv, RowsOK
<1>3. row' \in Row \cup {None} /\ \A h \in rows' : h \in Entry
  BY DEF TypeInv, TypeOK
<1>4. /\ status' \in [Jobs -> Statuses] /\ cancelled' \in [Jobs -> BOOLEAN]
      /\ made' \in [Jobs -> Made \cup {None}]
      /\ \A j \in Jobs : made'[j] = None <=> status'[j] = "absent"
      /\ torn' \in BOOLEAN
  BY DEF TypeInv, TypeOK
<1>5. \A i \in DOMAIN project'.history : made'[project'.history[i].job] # None
  OBVIOUS
<1> QED BY <1>1, <1>2, <1>3, <1>4, <1>5, Zenon DEF TypeOK

LEMMA PointTyped ==
  ASSUME TypeInv, NEW t \in Threads, Point(t) \/ Delete(t)
  PROVE  TypeInv'
<1>1. ASSUME NEW seq \in 0 .. MaxSeq, Revert(t, seq) PROVE TypeInv'
  <2> DEFINE r == [Idle EXCEPT !.pc = "row", !.kind = "revert"]
  <2>1. /\ req' = [req EXCEPT ![t] = r] /\ listed
        /\ project' = [project EXCEPT !.current = seq]
        /\ UNCHANGED <<listed, row, rows, status, cancelled, made, torn>>
    BY <1>1 DEF Revert, disk, queue
  <2>2. /\ r \in Request /\ r.pc = "row" /\ r.kind = "revert"
    BY DEF Idle, Request, Overrides, Busy
  <2> HIDE DEF r
  <2>3. project \in Project /\ project # None /\ seq \in Nat
    BY <2>1, ListedProject, ProjectAssumption
  <2>4. /\ project' \in Project /\ project'.history = project.history
        /\ Seqs(project') = Seqs(project)
    BY <2>1, <2>3, CurrentReplaced
  <2>5. TypeOK' /\ RowsOK' /\ project' # None
    <3>1. \A i \in DOMAIN project'.history : made[project'.history[i].job] # None
      BY <2>3, <2>4 DEF TypeInv, TypeOK
    <3>2. listed' \in BOOLEAN
      BY <2>1 DEF TypeInv, TypeOK
    <3> QED BY <2>1, <2>4, <3>1, <3>2, ObjectTyped
  <2>6. project' # None /\ Grows(project, made, project', made')
    BY <2>1, <2>4, <2>5 DEF Grows
  <2>7. RequestOK(r, project', made') /\ ~Creates(r)
    BY <2>2, <2>6 DEF RequestOK, Creates, Supersedes, HasJob, HasSeq, Writes, Submits
  <2>8. RequestsOK'
    BY <2>1, <2>6, <2>7, NobodyElseCreates, OneRequestMoves DEF TypeInv
  <2> QED BY <2>5, <2>8 DEF TypeInv
<1>2. ASSUME NEW seq \in 0 .. MaxSeq, NEW published \in BOOLEAN,
             SetPublished(t, seq, published)
      PROVE  TypeInv'
  <2> DEFINE r == [Idle EXCEPT !.pc = "flag", !.kind = "published",
                               !.seq = seq, !.published = published]
             i == IndexOf(project, seq)
             e == [project.history[i] EXCEPT !.published = published]
  <2>1. /\ req' = [req EXCEPT ![t] = r] /\ listed /\ Has(project, seq)
        /\ project' = [project EXCEPT !.history[i].published = published]
        /\ UNCHANGED <<listed, row, rows, status, cancelled, made, torn>>
    BY <1>2 DEF SetPublished, disk, queue
  <2>2. /\ r \in Request /\ r.pc = "flag" /\ r.kind = "published" /\ r.seq \in Nat
    <3>1. seq \in Nat
      BY ProjectAssumption
    <3> HIDE DEF i, e
    <3> QED BY <3>1 DEF Idle, Request, Overrides, Busy
  <2> HIDE DEF r
  <2>3. project \in Project /\ project # None /\ i \in DOMAIN project.history
    BY <2>1, ListedProject
  <2>4. /\ e \in Entry /\ e.seq = project.history[i].seq
        /\ e.job = project.history[i].job
    BY <2>3, ProjectShape DEF Entry
  <2>5. project' = [project EXCEPT !.history[i] = e]
    BY <2>1
  <2> HIDE DEF e, i
  <2>6. /\ project' \in Project /\ Seqs(project') = Seqs(project)
        /\ DOMAIN project'.history = DOMAIN project.history /\ project'.history # <<>>
        /\ \A k \in DOMAIN project.history :
             project'.history[k].job = project.history[k].job
    BY <2>3, <2>4, <2>5, EntryReplaced
  <2>7. TypeOK' /\ RowsOK' /\ project' # None
    <3>1. \A k \in DOMAIN project'.history : made[project'.history[k].job] # None
      BY <2>3, <2>6 DEF TypeInv, TypeOK
    <3>2. listed' \in BOOLEAN
      BY <2>1 DEF TypeInv, TypeOK
    <3> QED BY <2>1, <2>6, <3>1, <3>2, ObjectTyped
  <2>8. project' # None /\ Grows(project, made, project', made')
    BY <2>1, <2>6, <2>7 DEF Grows
  <2>9. RequestOK(r, project', made') /\ ~Creates(r)
    BY <2>2, <2>8 DEF RequestOK, Creates, Supersedes, HasJob, HasSeq, Writes, Submits
  <2>10. RequestsOK'
    BY <2>1, <2>8, <2>9, NobodyElseCreates, OneRequestMoves DEF TypeInv
  <2> QED BY <2>7, <2>10 DEF TypeInv
<1>3. ASSUME Delete(t) PROVE TypeInv'
  <2> DEFINE r == [Idle EXCEPT !.pc = "cancelall", !.kind = "delete",
                     !.todo = {project.history[i].job : i \in DOMAIN project.history}]
  <2>1. {project.history[i].job : i \in DOMAIN project.history} \in SUBSET Jobs
    BY <1>3, ListedProject, ProjectShape DEF Delete, Entry
  <2>2. /\ r \in Request /\ r.pc = "cancelall" /\ r.kind = "delete"
    BY <2>1 DEF Idle, Request, Overrides, Busy
  <2>3. /\ req' = [req EXCEPT ![t] = r] /\ listed /\ req[t].pc = "idle"
        /\ UNCHANGED <<project, listed, disk, queue, torn>>
    BY <1>3 DEF Delete
  <2> HIDE DEF r
  <2> QED BY <2>2, <2>3, BeginsTyped
<1> QED BY <1>1, <1>2, <1>3 DEF Point

(* A step of a request under way that leaves the object as it is.          *)
LEMMA StepTyped ==
  ASSUME TypeInv, NEW t \in Threads, NEW r, req[t].pc # "idle",
         req' = [req EXCEPT ![t] = r], UNCHANGED <<project, listed, made>>,
         RequestOK(r, project, made), Creates(r) => Creates(req[t]),
         TypeOK', RowsOK'
  PROVE  TypeInv'
<1>1. Grows(project, made, project', made')
  BY DEF Grows
<1>2. Creates(r) => /\ project' = None /\ ~listed'
                    /\ \A u \in Threads \ {t} : req[u].pc = "idle"
  BY DEF TypeInv, RequestsOK
<1>3. RequestsOK'
  BY <1>1, <1>2, NobodyElseCreates, OneRequestMoves DEF TypeInv
<1> QED BY <1>3 DEF TypeInv

(* It may end, at any time.                                                *)
LEMMA EndTyped ==
  ASSUME TypeInv, NEW t \in Threads, req[t].pc # "idle",
         req' = [req EXCEPT ![t] = Idle], UNCHANGED <<project, listed, made>>,
         TypeOK', RowsOK'
  PROVE  TypeInv'
BY IdleFits, StepTyped

(* What a request under way has.                                           *)
LEMMA RequestAtWork ==
  ASSUME TypeInv, NEW t \in Threads
  PROVE  RequestOK(req[t], project, made) /\ req[t] \in Request
BY DEF TypeInv, RequestsOK, RequestOK

LEMMA ReadStatusTyped ==
  ASSUME TypeInv, NEW t \in Threads, ReadStatus(t)
  PROVE  TypeInv'
<1> DEFINE q == req[t]
           r == [q EXCEPT !.pc = "cancel", !.collapse = Collapses(t)]
<1>1. /\ q.pc = "status" /\ UNCHANGED <<project, listed, disk, queue, torn>>
      /\ req' = [req EXCEPT ![t] = r]
  BY DEF ReadStatus
<1>2. RequestOK(q, project, made) /\ q \in Request /\ q.kind = "edit"
  BY <1>1, RequestAtWork DEF RequestOK
<1>3. Collapses(t) \in BOOLEAN
  BY DEF Collapses
<1> HIDE DEF q
<1>4. /\ r \in Request /\ r.pc = "cancel" /\ r.kind = q.kind /\ r.prev = q.prev
      /\ r.sessions = q.sessions /\ r.version = q.version
  <2>1. PICK b : b = Collapses(t)
    OBVIOUS
  <2>2. r = [q EXCEPT !.pc = "cancel", !.collapse = b]
    BY <2>1
  <2> HIDE DEF r
  <2>3. b \in BOOLEAN
    BY <1>3, <2>1
  <2> QED BY <1>2, <2>2, <2>3 DEF Request, Busy
<1> HIDE DEF r
<1>5. RequestOK(r, project, made) /\ ~Creates(r)
  BY <1>1, <1>2, <1>4 DEF RequestOK, Creates, Supersedes, HasJob, HasSeq, Writes, Busy, Kinds
<1>6. TypeOK' /\ RowsOK'
  BY <1>1, TypeStays
<1> QED BY <1>1, <1>5, <1>6, StepTyped DEF q, queue

LEMMA CancelPrevTyped ==
  ASSUME TypeInv, NEW t \in Threads, CancelPrev(t)
  PROVE  TypeInv'
<1> DEFINE q == req[t]
           b == q.kind = "edit" /\ (q.collapse \/ Live(q.prev.job))
           pc == IF q.render THEN "submit" ELSE "apply"
           r == [q EXCEPT !.collapse = b, !.job = EntryJob(q), !.pc = pc]
<1>1. /\ q.pc = "cancel" /\ cancelled' = Cancelled(q.prev.job)
      /\ UNCHANGED <<listed, row, rows, status, made, torn>>
      /\ req' = [req EXCEPT ![t] = r]
  BY DEF CancelPrev, disk
<1>2. RequestOK(q, project, made) /\ q \in Request /\ q.kind \in Kinds
  BY <1>1, RequestAtWork DEF RequestOK
<1>3. /\ q.kind = "edit" => project' = project
      /\ q.kind = "swap_sessions" => project' = [project EXCEPT !.sessions = q.sessions]
      /\ q.kind = "template_upgrade" => project' = [project EXCEPT !.version = q.version]
  BY DEF CancelPrev
<1> HIDE DEF q
<1>4. /\ q.prev \in Entry /\ made[q.prev.job] # None /\ Has(project, q.prev.seq)
      /\ ~Creates(q) /\ project # None /\ project \in Project
  BY <1>1, <1>2 DEF RequestOK, Supersedes, Creates, Kinds, Busy, TypeInv, TypeOK
<1>5. EntryJob(q) \in Jobs \cup {None} /\ (~q.render => EntryJob(q) \in Jobs /\ made[EntryJob(q)] # None)
  BY <1>4 DEF EntryJob, Entry
<1>6. /\ r \in Request /\ r.kind = q.kind /\ r.prev = q.prev /\ r.job = EntryJob(q)
      /\ r.sessions = q.sessions /\ r.version = q.version
      /\ r.pc = pc
  <2>1. b \in BOOLEAN /\ pc \in {"submit", "apply"}
    OBVIOUS
  <2> DEFINE x == [q EXCEPT !.collapse = b]
             y == [x EXCEPT !.job = EntryJob(q)]
  <2>2. r = [y EXCEPT !.pc = pc]
    OBVIOUS
  <2> HIDE DEF b, pc, r
  <2>3. x \in Request /\ x.kind = q.kind /\ x.prev = q.prev
        /\ x.sessions = q.sessions /\ x.version = q.version
    BY <1>2, <2>1 DEF Request
  <2> HIDE DEF x
  <2>4. y \in Request /\ y.kind = q.kind /\ y.prev = q.prev /\ y.job = EntryJob(q)
        /\ y.sessions = q.sessions /\ y.version = q.version
    BY <1>5, <2>3 DEF Request
  <2> HIDE DEF y
  <2> QED BY <2>1, <2>2, <2>4 DEF Request, Busy
<1> HIDE DEF r
<1>7. /\ project' \in Project /\ Seqs(project') = Seqs(project)
      /\ project'.history = project.history
  <2>1. /\ q.kind = "swap_sessions" => q.sessions \in Sessions
        /\ q.kind = "template_upgrade" => q.version \in Versions
    BY <1>1, <1>2 DEF RequestOK
  <2>2. CASE q.kind = "edit"
    BY <1>3, <1>4, <2>2
  <2>3. CASE q.kind = "swap_sessions"
    BY <1>3, <1>4, <2>1, <2>3, SessionsReplaced
  <2>4. CASE q.kind = "template_upgrade"
    BY <1>3, <1>4, <2>1, <2>4, VersionReplaced
  <2> QED BY <1>2, <2>2, <2>3, <2>4 DEF Kinds
<1>8. cancelled' \in [Jobs -> BOOLEAN]
  BY <1>1 DEF Cancelled, Live, TypeInv, TypeOK
<1>9. TypeOK' /\ RowsOK' /\ project' # None
  <2>1. project' # None
    BY <1>7, NoneAssumption
  <2>2. RowsOK'
    BY <1>1 DEF TypeInv, RowsOK
  <2>3. \A i \in DOMAIN project'.history : made'[project'.history[i].job] # None
    BY <1>1, <1>4, <1>7 DEF TypeInv, TypeOK
  <2> QED BY <1>1, <1>7, <1>8, <2>1, <2>2, <2>3 DEF TypeInv, TypeOK
<1>10. Grows(project, made, project', made')
  BY <1>1, <1>7, <1>9 DEF Grows
<1>11. project'.history # <<>>
  BY <1>4, <1>7 DEF Has, Seqs
<1>12. RequestOK(r, project', made') /\ ~Creates(r)
  BY <1>1, <1>2, <1>4, <1>5, <1>6, <1>7, <1>9, <1>11
     DEF RequestOK, Creates, Supersedes, HasJob, HasSeq, Writes, Has, Kinds, Submits
<1>13. RequestsOK'
  <2>1. q.pc # "idle"
    BY <1>1
  <2> QED BY <1>1, <1>10, <1>12, <2>1, NobodyElseCreates, OneRequestMoves DEF q, TypeInv
<1> QED BY <1>9, <1>13 DEF TypeInv

LEMMA SubmitTyped ==
  ASSUME TypeInv, NEW t \in Threads, NEW j \in Jobs, Submit(t, j)
  PROVE  TypeInv'
<1> DEFINE q == req[t]
           r == [q EXCEPT !.pc = "apply", !.job = j]
           d == [sessions |-> IF q.kind = "create" THEN q.sessions ELSE project.sessions,
                 version |-> IF q.kind = "create" THEN q.version ELSE project.version]
<1>1. /\ q.pc = "submit" /\ status' = [status EXCEPT ![j] = "live"]
      /\ status[j] = "absent" /\ made' = [made EXCEPT ![j] = d]
      /\ UNCHANGED <<project, listed, row, rows, cancelled, torn>>
      /\ req' = [req EXCEPT ![t] = r]
  BY DEF Submit, disk
<1>2. RequestOK(q, project, made) /\ q \in Request /\ q.kind \in Submits
  BY <1>1, RequestAtWork DEF RequestOK
<1> HIDE DEF q
<1>3. q.kind # "create" => project \in Project /\ project # None /\ Supersedes(q)
  BY <1>1, <1>2 DEF RequestOK, Creates, Busy, Supersedes, TypeInv, TypeOK
<1>4. d \in Made
  BY <1>1, <1>2, <1>3 DEF RequestOK, Creates, Made, Project
<1> HIDE DEF d
<1>5. /\ made' \in [Jobs -> Made \cup {None}] /\ made'[j] # None
      /\ \A k \in Jobs \ {j} : made'[k] = made[k]
  BY <1>1, <1>4, NoneAssumption DEF TypeInv, TypeOK
<1>6. /\ r \in Request /\ r.pc = "apply" /\ r.kind = q.kind /\ r.job = j
      /\ r.prev = q.prev /\ r.sessions = q.sessions /\ r.version = q.version
  BY <1>2 DEF Request, Busy
<1> HIDE DEF r
<1>7. Grows(project, made, project', made')
  BY <1>1, <1>5 DEF Grows
<1>8. RequestOK(q, project', made')
  BY <1>2, <1>7, RequestStays
<1>9. q.kind # "create" => project.history # <<>>
  BY <1>2, <1>3 DEF RequestOK, Has, Seqs
<1>10. RequestOK(r, project', made') /\ (Creates(r) => Creates(q))
  BY <1>1, <1>2, <1>5, <1>6, <1>8, <1>9
     DEF RequestOK, Creates, Supersedes, HasJob, HasSeq, Writes, Busy, Submits
<1>11. RequestsOK'
  <2>1. q.pc # "idle"
    BY <1>1
  <2>2. Creates(r) => /\ project' = None /\ ~listed'
                      /\ \A u \in Threads \ {t} : req[u].pc = "idle"
    BY <1>1, <1>10 DEF TypeInv, RequestsOK, q
  <2> QED BY <1>1, <1>7, <1>10, <2>1, <2>2, NobodyElseCreates, OneRequestMoves DEF q, TypeInv
<1>12. RowsOK'
  <2>1. \A h \in rows : h.job \in Jobs
    BY DEF TypeInv, TypeOK, Entry
  <2> QED BY <1>1, <1>5, <2>1 DEF TypeInv, RowsOK
<1>13. TypeOK'
  <2>1. project # None => \A i \in DOMAIN project.history :
          project.history[i].job \in Jobs /\ made[project.history[i].job] # None
    BY ProjectShape DEF TypeInv, TypeOK, Entry
  <2>2. project' # None => \A i \in DOMAIN project'.history :
          made'[project'.history[i].job] # None
    BY <1>1, <1>5, <2>1
  <2>3. /\ status' \in [Jobs -> Statuses]
        /\ \A k \in Jobs : made'[k] = None <=> status'[k] = "absent"
    BY <1>1, <1>5 DEF TypeInv, TypeOK, Statuses
  <2> QED BY <1>1, <1>5, <2>2, <2>3 DEF TypeInv, TypeOK
<1> QED BY <1>11, <1>12, <1>13 DEF TypeInv

(* The entry of a request.                                                 *)
LEMMA NewEntryFits ==
  ASSUME NEW t \in Threads, req[t] \in Request, req[t].job \in Jobs, req[t].kind \in Submits
  PROVE  LET n == NewEntry(t)
         IN  /\ n \in [seq : {req[t].seq}, job : Jobs, overrides : Overrides,
                       published : BOOLEAN, kind : Kinds]
             /\ n.seq = req[t].seq /\ n.job = req[t].job
             /\ n.overrides = req[t].overrides /\ ~n.published
<1> DEFINE k == IF req[t].kind = "create" THEN "edit" ELSE req[t].kind
<1>1. k \in Kinds
  BY DEF Submits, Kinds
<1>2. req[t].overrides \in Overrides
  BY DEF Request
<1>3. NewEntry(t) = [seq |-> req[t].seq, job |-> req[t].job,
                     overrides |-> req[t].overrides, published |-> FALSE, kind |-> k]
  BY DEF NewEntry
<1> HIDE DEF k
<1> QED BY <1>1, <1>2, <1>3

(* The same with another seq, and published or not.                        *)
LEMMA EntrySet ==
  ASSUME NEW x, NEW s \in Nat, NEW p \in BOOLEAN,
         NEW n \in [seq : {x}, job : Jobs, overrides : Overrides, published : BOOLEAN,
                    kind : Kinds]
  PROVE  /\ LET e == [n EXCEPT !.seq = s]
            IN  /\ e \in Entry /\ e.seq = s /\ e.published = n.published
                /\ e.job = n.job /\ e.overrides = n.overrides
         /\ LET e == [n EXCEPT !.seq = s, !.published = p]
            IN  /\ e \in Entry /\ e.seq = s /\ e.published = p
                /\ e.job = n.job /\ e.overrides = n.overrides
         /\ x \in Nat => LET e == [n EXCEPT !.published = p]
            IN  /\ e \in Entry /\ e.seq = x /\ e.published = p
                /\ e.job = n.job /\ e.overrides = n.overrides
<1>1. LET e == [n EXCEPT !.seq = s]
      IN  /\ e \in Entry /\ e.seq = s /\ e.published = n.published
          /\ e.job = n.job /\ e.overrides = n.overrides
  BY DEF Entry
<1>2. LET e == [n EXCEPT !.seq = s, !.published = p]
      IN  /\ e \in Entry /\ e.seq = s /\ e.published = p
          /\ e.job = n.job /\ e.overrides = n.overrides
  <2> DEFINE a == [n EXCEPT !.seq = s]
             e == [a EXCEPT !.published = p]
  <2>1. a \in Entry /\ a.seq = s /\ a.job = n.job /\ a.overrides = n.overrides
    BY <1>1
  <2>2. [n EXCEPT !.seq = s, !.published = p] = e
    OBVIOUS
  <2> HIDE DEF a
  <2>3. /\ e \in Entry /\ e.seq = s /\ e.published = p
        /\ e.job = n.job /\ e.overrides = n.overrides
    BY <2>1 DEF Entry
  <2> QED BY <2>2, <2>3
<1>3. ASSUME x \in Nat
      PROVE  LET e == [n EXCEPT !.published = p]
             IN  /\ e \in Entry /\ e.seq = x /\ e.published = p
                 /\ e.job = n.job /\ e.overrides = n.overrides
  BY <1>3 DEF Entry
<1> QED BY <1>1, <1>2, <1>3

LEMMA BuiltTyped ==
  ASSUME TypeInv, NEW t \in Threads, Built(t)
  PROVE  TypeInv'
<1> DEFINE q == req[t]
           r == [q EXCEPT !.pc = "row", !.seq = 0]
           e == [NewEntry(t) EXCEPT !.seq = 0]
<1>1. /\ q.pc = "apply" /\ q.kind = "create" /\ req' = [req EXCEPT ![t] = r]
      /\ project' = [current |-> 0, version |-> q.version, sessions |-> q.sessions,
                     history |-> <<e>>]
      /\ listed' = TRUE /\ UNCHANGED <<row, rows, status, cancelled, made, torn>>
  BY DEF Built, disk, queue
<1>2. RequestOK(q, project, made) /\ q \in Request
  BY RequestAtWork
<1>3. /\ q.job \in Jobs /\ made[q.job] # None /\ Creates(q)
      /\ q.sessions \in Sessions /\ q.version \in Versions
  BY <1>1, <1>2 DEF RequestOK, HasJob, Creates
<1>4. e \in Entry /\ e.job = q.job
  <2>1. q.kind \in Submits
    BY <1>1 DEF Submits
  <2> DEFINE n == NewEntry(t)
  <2>2. /\ n \in [seq : {req[t].seq}, job : Jobs, overrides : Overrides,
                  published : BOOLEAN, kind : Kinds]
        /\ n.job = q.job
    BY <1>2, <1>3, <2>1, NewEntryFits
  <2> HIDE DEF n
  <2> QED BY <2>2, EntrySet DEF n
<1>5. project = None /\ \A u \in Threads \ {t} : req[u].pc = "idle"
  BY <1>3 DEF TypeInv, RequestsOK
<1> HIDE DEF q, e
<1>6. project' \in Project /\ project'.history = <<e>>
  BY <1>1, <1>3, <1>4 DEF Project
<1>7. TypeOK' /\ RowsOK' /\ project' # None
  <2>1. \A i \in DOMAIN project'.history : made[project'.history[i].job] # None
    BY <1>3, <1>4, <1>6
  <2> QED BY <1>1, <1>6, <2>1, ObjectTyped
<1>8. Grows(project, made, project', made')
  BY <1>1, <1>5 DEF Grows
<1>9. /\ r \in Request /\ r.pc = "row" /\ r.kind = "create" /\ r.job = q.job /\ r.seq = 0
  BY <1>1, <1>2 DEF Request, Busy
<1> HIDE DEF r
<1>10. RequestOK(r, project', made') /\ ~Creates(r)
  BY <1>1, <1>3, <1>7, <1>9 DEF RequestOK, Creates, Supersedes, HasJob, HasSeq, Writes, Submits
<1>11. RequestsOK'
  <2>1. req[t].pc # "idle"
    BY <1>1 DEF q
  <2> QED BY <1>1, <1>8, <1>10, <2>1, NobodyElseCreates, OneRequestMoves DEF TypeInv
<1> QED BY <1>7, <1>11 DEF TypeInv

LEMMA ReplaceTyped ==
  ASSUME TypeInv, NEW t \in Threads, Replace(t)
  PROVE  TypeInv'
<1> DEFINE q == req[t]
           r == [q EXCEPT !.pc = "row", !.seq = q.prev.seq]
           i == IndexOf(project, q.prev.seq)
           old == IF project.history[i].job = q.prev.job THEN project.history[i] ELSE q.prev
           e == [NewEntry(t) EXCEPT !.seq = q.prev.seq, !.published = old.published]
<1>1. /\ q.pc = "apply" /\ q.kind = "edit" /\ req' = [req EXCEPT ![t] = r]
      /\ project' = [project EXCEPT !.history[i] = e]
      /\ UNCHANGED <<listed, row, rows, status, cancelled, made, torn>>
  BY DEF Replace, disk, queue
<1>2. RequestOK(q, project, made) /\ q \in Request
  BY RequestAtWork
<1>3. /\ q.job \in Jobs /\ made[q.job] # None /\ ~Creates(q) /\ project # None
      /\ q.prev \in Entry /\ Has(project, q.prev.seq) /\ project \in Project
  BY <1>1, <1>2 DEF RequestOK, HasJob, Creates, Supersedes, Busy, TypeInv, TypeOK
<1>4. /\ i \in DOMAIN project.history /\ project.history[i].seq = q.prev.seq
      /\ project.history[i] \in Entry
  BY <1>3, IndexFits, ProjectShape
<1>5. e \in Entry /\ e.job = q.job /\ e.seq = q.prev.seq
  <2>1. old.published \in BOOLEAN /\ q.prev.seq \in Nat
    BY <1>3, <1>4 DEF Entry
  <2>2. q.kind \in Submits
    BY <1>1 DEF Submits
  <2> DEFINE p == old.published
  <2>3. e = [NewEntry(t) EXCEPT !.seq = q.prev.seq, !.published = p]
    OBVIOUS
  <2>4. p \in BOOLEAN
    BY <2>1
  <2> DEFINE n == NewEntry(t)
  <2>5. /\ n \in [seq : {req[t].seq}, job : Jobs, overrides : Overrides,
                  published : BOOLEAN, kind : Kinds]
        /\ n.job = q.job
    BY <1>2, <1>3, <2>2, NewEntryFits
  <2>6. e = [n EXCEPT !.seq = q.prev.seq, !.published = p]
    BY <2>3
  <2> HIDE DEF p, e, i, n
  <2> QED BY <2>1, <2>4, <2>5, <2>6, EntrySet
<1> HIDE DEF q, i, e
<1>6. /\ project' \in Project /\ DOMAIN project'.history = DOMAIN project.history
      /\ project'.history[i] = e /\ project'.history # <<>>
      /\ \A k \in DOMAIN project.history \ {i} : project'.history[k] = project.history[k]
      /\ Seqs(project') = Seqs(project)
  BY <1>1, <1>3, <1>4, <1>5, EntryReplaced
<1>7. TypeOK' /\ RowsOK' /\ project' # None
  <2>1. \A k \in DOMAIN project'.history : made[project'.history[k].job] # None
    BY <1>3, <1>5, <1>6 DEF TypeInv, TypeOK
  <2>2. listed' \in BOOLEAN
    BY <1>1 DEF TypeInv, TypeOK
  <2> QED BY <1>1, <1>6, <2>1, <2>2, ObjectTyped
<1>8. Grows(project, made, project', made')
  BY <1>1, <1>6, <1>7 DEF Grows
<1>9. /\ r \in Request /\ r.pc = "row" /\ r.kind = "edit" /\ r.job = q.job
      /\ r.seq \in Nat
  BY <1>1, <1>2, <1>3 DEF Request, Busy, Entry
<1> HIDE DEF r
<1>10. RequestOK(r, project', made') /\ ~Creates(r)
  BY <1>1, <1>3, <1>7, <1>9 DEF RequestOK, Creates, Supersedes, HasJob, HasSeq, Writes, Submits
<1>11. RequestsOK'
  <2>1. req[t].pc # "idle"
    BY <1>1 DEF q
  <2> QED BY <1>1, <1>8, <1>10, <2>1, NobodyElseCreates, OneRequestMoves DEF TypeInv
<1> QED BY <1>7, <1>11 DEF TypeInv

LEMMA PickSeqTyped ==
  ASSUME TypeInv, NEW t \in Threads, PickSeq(t)
  PROVE  TypeInv'
<1> DEFINE q == req[t]
           r == [q EXCEPT !.pc = "append", !.seq = NextSeq(project)]
<1>1. /\ q.pc = "apply" /\ q.kind # "create" /\ req' = [req EXCEPT ![t] = r]
      /\ UNCHANGED <<project, listed, disk, queue, torn>>
  BY DEF PickSeq
<1>2. RequestOK(q, project, made) /\ q \in Request
  BY RequestAtWork
<1>3. /\ q.job \in Jobs /\ made[q.job] # None /\ ~Creates(q) /\ project # None
      /\ project.history # <<>> /\ project \in Project /\ q.kind \in Kinds
  BY <1>1, <1>2
     DEF RequestOK, HasJob, Creates, Busy, TypeInv, TypeOK, Submits, Kinds
<1>4. NextSeq(project) \in Nat
  BY <1>3, NextSeqFits
<1> HIDE DEF q
<1>5. /\ r \in Request /\ r.pc = "append" /\ r.kind = q.kind /\ r.job = q.job
      /\ r.seq \in Nat
  BY <1>2, <1>4 DEF Request, Busy
<1> HIDE DEF r
<1>6. RequestOK(r, project, made) /\ ~Creates(r)
  BY <1>3, <1>5 DEF RequestOK, Creates, Supersedes, HasJob, HasSeq, Writes
<1>7. TypeOK' /\ RowsOK'
  BY <1>1, TypeStays
<1> QED BY <1>1, <1>6, <1>7, StepTyped DEF q, queue

LEMMA AppendEntryTyped ==
  ASSUME TypeInv, NEW t \in Threads, AppendEntry(t)
  PROVE  TypeInv'
<1> DEFINE q == req[t]
           r == [q EXCEPT !.pc = "row"]
           e == NewEntry(t)
           n == Len(project.history)
<1>1. /\ q.pc = "append" /\ req' = [req EXCEPT ![t] = r]
      /\ project' = [project EXCEPT !.history = Append(@, e), !.current = q.seq]
      /\ UNCHANGED <<listed, row, rows, status, cancelled, made, torn>>
  BY DEF AppendEntry, Goto, disk, queue
<1>2. RequestOK(q, project, made) /\ q \in Request
  BY RequestAtWork
<1>3. /\ q.job \in Jobs /\ made[q.job] # None /\ ~Creates(q) /\ project # None
      /\ q.kind \in Kinds /\ q.seq \in Nat /\ project \in Project
  BY <1>1, <1>2 DEF RequestOK, HasJob, HasSeq, Creates, Busy, TypeInv, TypeOK
<1>4. e \in Entry /\ e.job = q.job /\ e.seq = q.seq
  <2>1. q.kind \in Submits
    BY <1>3 DEF Submits, Kinds
  <2>2. /\ e \in [seq : {q.seq}, job : Jobs, overrides : Overrides,
                  published : BOOLEAN, kind : Kinds]
        /\ e.job = q.job /\ e.seq = q.seq
    BY <1>2, <1>3, <2>1, NewEntryFits
  <2> HIDE DEF e, q
  <2> QED BY <1>3, <2>2 DEF Entry
<1> HIDE DEF q, e
<1>5. /\ project' \in Project /\ DOMAIN project'.history = 1 .. (n + 1)
      /\ project'.history[n + 1] = e /\ project'.history # <<>>
      /\ \A k \in DOMAIN project.history : project'.history[k] = project.history[k]
      /\ Seqs(project) \subseteq Seqs(project')
  <2>1. /\ project.current \in Nat /\ project.version \in Versions
        /\ project.sessions \in Sessions
        /\ project = [current |-> project.current, version |-> project.version,
                      sessions |-> project.sessions, history |-> project.history]
    BY <1>3 DEF Project
  <2> DEFINE h == Append(project.history, e)
  <2>2. project' = [project EXCEPT !.history = h, !.current = q.seq]
    BY <1>1
  <2> HIDE DEF h
  <2>3. project' = [current |-> q.seq, version |-> project.version,
                    sessions |-> project.sessions, history |-> h]
    BY <2>1, <2>2
  <2>4. project'.history = h
    BY <2>3
  <2>5. /\ h \in Seq(Entry) /\ DOMAIN project'.history = 1 .. (n + 1)
        /\ project'.history[n + 1] = e /\ project'.history # <<>>
        /\ \A k \in DOMAIN project.history : project'.history[k] = project.history[k]
        /\ Seqs(project) \subseteq Seqs(project')
    <3>1. project'.history = Append(project.history, e)
      BY <2>4 DEF h
    <3>2. PICK p \in Project, x \in Entry : p = project /\ x = e
      BY <1>3, <1>4
    <3>3. PICK z : z = project'
      OBVIOUS
    <3>4. z.history = Append(p.history, x)
      BY <3>1, <3>2, <3>3
    <3>5. /\ z.history \in Seq(Entry) /\ z.history # <<>>
          /\ Len(z.history) = Len(p.history) + 1
          /\ DOMAIN z.history = 1 .. (Len(p.history) + 1)
          /\ z.history[Len(p.history) + 1] = x
          /\ \A k \in DOMAIN p.history : z.history[k] = p.history[k]
          /\ Seqs(p) \subseteq Seqs(z)
      BY <3>4, EntryAdded
    <3> QED BY <2>4, <3>2, <3>3, <3>5
  <2>6. project' \in Project
    BY <1>3, <2>1, <2>3, <2>5 DEF Project
  <2> QED BY <2>5, <2>6
<1>6. TypeOK' /\ RowsOK' /\ project' # None
  <2>1. \A k \in DOMAIN project'.history : made[project'.history[k].job] # None
    <3>1. DOMAIN project.history = 1 .. n /\ n \in Nat
      BY <1>3, ProjectShape
    <3>2. \A k \in DOMAIN project.history : made[project'.history[k].job] # None
      BY <1>3, <1>5 DEF TypeInv, TypeOK
    <3>3. \A k \in 1 .. (n + 1) : k \in 1 .. n \/ k = n + 1
      BY <3>1
    <3> HIDE DEF n
    <3> QED BY <1>3, <1>4, <1>5, <3>1, <3>2, <3>3
  <2>2. listed' \in BOOLEAN
    BY <1>1 DEF TypeInv, TypeOK
  <2> QED BY <1>1, <1>5, <2>1, <2>2, ObjectTyped
<1>7. Grows(project, made, project', made')
  BY <1>1, <1>5, <1>6 DEF Grows
<1>8. /\ r \in Request /\ r.pc = "row" /\ r.kind = q.kind /\ r.job = q.job
      /\ r.seq = q.seq
  BY <1>2 DEF Request, Busy
<1> HIDE DEF r
<1>9. RequestOK(r, project', made') /\ ~Creates(r)
  BY <1>1, <1>3, <1>6, <1>8
     DEF RequestOK, Creates, Supersedes, HasJob, HasSeq, Writes, Submits, Kinds
<1>10. RequestsOK'
  <2>1. req[t].pc # "idle"
    BY <1>1 DEF q
  <2> QED BY <1>1, <1>7, <1>9, <2>1, NobodyElseCreates, OneRequestMoves DEF TypeInv
<1> QED BY <1>6, <1>10 DEF TypeInv

(* After the row a request that submits goes on with the entry.            *)
LEMMA AfterRowTyped ==
  ASSUME TypeInv, NEW t \in Threads, req[t].pc = "row", AfterRow(t),
         UNCHANGED <<project, listed, made>>, TypeOK', RowsOK'
  PROVE  TypeInv'
<1> DEFINE q == req[t]
<1>1. CASE q.kind \in Submits
  <2> DEFINE r == [q EXCEPT !.pc = "entry"]
  <2>1. req' = [req EXCEPT ![t] = r]
    BY <1>1 DEF AfterRow
  <2>2. RequestOK(q, project, made) /\ q \in Request
    BY RequestAtWork
  <2> HIDE DEF q
  <2>3. /\ r \in Request /\ r.pc = "entry" /\ r.kind = q.kind /\ r.job = q.job
        /\ r.seq = q.seq
    BY <2>2 DEF Request, Busy
  <2> HIDE DEF r
  <2>4. RequestOK(r, project, made) /\ ~Creates(r)
    <3>1. q.pc = "row"
      BY DEF q
    <3> QED BY <1>1, <2>2, <2>3, <3>1
            DEF RequestOK, Creates, Supersedes, HasJob, HasSeq, Writes, Busy
  <2> QED BY <2>1, <2>4, StepTyped
<1>2. CASE q.kind \notin Submits
  <2>1. req' = [req EXCEPT ![t] = Idle]
    BY <1>2 DEF AfterRow
  <2> QED BY <2>1, EndTyped
<1> QED BY <1>1, <1>2

LEMMA PersistRowTyped ==
  ASSUME TypeInv, NEW t \in Threads, PersistRow(t)
  PROVE  TypeInv'
<1> DEFINE k == req[t].kind
<1>1. /\ req[t].pc = "row" /\ AfterRow(t)
      /\ row' = IF row = None /\ k # "create" THEN None ELSE RowAfter(k)
      /\ UNCHANGED <<project, listed, rows, status, cancelled, made, torn>>
  BY DEF PersistRow, queue
<1>2. project \in Project
  <2>1. req[t].pc # "idle" /\ ~Creates(req[t])
    BY <1>1 DEF Creates
  <2> QED BY <2>1, AtWork
<1> HIDE DEF k
<1>3. row' \in Row \cup {None}
  <2>1. row \in Row \cup {None}
    BY DEF TypeInv, TypeOK
  <2>2. CASE row = None /\ k # "create"
    BY <1>1, <2>2
  <2>3. CASE k = "create"
    BY <1>1, <1>2, <2>3 DEF RowAfter, Row, Project
  <2>4. CASE row # None /\ k # "create"
    <3>1. row \in Row /\ row' = RowAfter(k)
      BY <1>1, <2>1, <2>4
    <3>2. CASE k = "swap_sessions"
      BY <1>2, <2>4, <3>1, <3>2 DEF RowAfter, Row, Project
    <3>3. CASE k = "template_upgrade"
      BY <1>2, <2>4, <3>1, <3>3 DEF RowAfter, Row, Project
    <3>4. CASE k \notin {"swap_sessions", "template_upgrade"}
      <4>1. row' = [row EXCEPT !.current = project.current]
        BY <2>4, <3>1, <3>4 DEF RowAfter
      <4> QED BY <1>2, <3>1, <4>1 DEF Row, Project
    <3> QED BY <3>2, <3>3, <3>4
  <2> QED BY <2>2, <2>3, <2>4
<1>4. TypeOK' /\ RowsOK'
  BY <1>1, <1>3 DEF TypeInv, TypeOK, RowsOK
<1> QED BY <1>1, <1>4, AfterRowTyped

(* A request that persists its entry.                                      *)
LEMMA Persisting ==
  ASSUME TypeInv, NEW t \in Threads, req[t].pc = "entry"
  PROVE  /\ req[t] \in Request /\ req[t].kind \in Submits
         /\ req[t].job \in Jobs /\ made[req[t].job] # None /\ req[t].seq \in Nat
<1>1. RequestOK(req[t], project, made)
  BY RequestAtWork
<1> QED BY <1>1 DEF RequestOK, HasJob, HasSeq, Writes

LEMMA PersistEntryTyped ==
  ASSUME TypeInv, NEW t \in Threads, PersistEntry(t)
  PROVE  TypeInv'
<1> DEFINE p == PublishedNow(t)
           e == [NewEntry(t) EXCEPT !.published = p]
<1>1. /\ req[t].pc = "entry" /\ req' = [req EXCEPT ![t] = Idle]
      /\ UNCHANGED <<project, listed, row, status, cancelled, made>>
      /\ \/ rows' = rows \cup {e} /\ (\A h \in rows : h.seq # e.seq) /\ torn' = torn
         \/ rows' = rows /\ torn' = TRUE
  BY DEF PersistEntry, queue
<1>2. e \in Entry /\ made[e.job] # None
  <2> DEFINE n == NewEntry(t)
             x == req[t].seq
  <2>1. p \in BOOLEAN
    BY DEF PublishedNow
  <2>2. /\ n \in [seq : {x}, job : Jobs, overrides : Overrides, published : BOOLEAN,
                  kind : Kinds]
        /\ n.job = req[t].job /\ x \in Nat /\ made[n.job] # None
    BY <1>1, Persisting, NewEntryFits
  <2> HIDE DEF n, x, p
  <2> QED BY <2>1, <2>2, EntrySet DEF n
<1> HIDE DEF e
<1>3. /\ IsFiniteSet(rows') /\ \A h \in rows' : h \in Entry /\ made[h.job] # None
      /\ \A h, k \in rows' : h.seq = k.seq => h = k
  <2>1. CASE rows' = rows \cup {e} /\ \A h \in rows : h.seq # e.seq
    <3>1. IsFiniteSet(rows')
      BY <2>1, FS_AddElement DEF TypeInv, RowsOK
    <3> QED BY <1>2, <2>1, <3>1 DEF TypeInv, TypeOK, RowsOK
  <2>2. CASE rows' = rows
    BY <2>2 DEF TypeInv, TypeOK, RowsOK
  <2> QED BY <1>1, <2>1, <2>2
<1>4. torn' \in BOOLEAN
  BY <1>1 DEF TypeInv, TypeOK
<1>5. TypeOK' /\ RowsOK'
  BY <1>1, <1>3, <1>4 DEF TypeInv, TypeOK, RowsOK
<1> QED BY <1>1, <1>5, EndTyped

(* The UPDATEs: every row is written from one row, and keeps its seq.      *)
LEMMA RowsUpdated ==
  ASSUME TypeInv, NEW f, DOMAIN f = rows, rows' = {f[h] : h \in rows},
         \A h \in rows : f[h] \in Entry /\ f[h].seq = h.seq /\ made[f[h].job] # None,
         UNCHANGED <<project, listed, row, status, cancelled, made, torn>>
  PROVE  TypeOK' /\ RowsOK'
<1>1. IsFiniteSet(rows')
  BY ImageIsFinite DEF TypeInv, RowsOK
<1>2. \A h, k \in rows' : h.seq = k.seq => h = k
  BY DEF TypeInv, RowsOK
<1>3. \A h \in rows' : h \in Entry /\ made[h.job] # None
  OBVIOUS
<1> QED BY <1>1, <1>2, <1>3 DEF TypeInv, TypeOK, RowsOK

LEMMA PersistReplaceTyped ==
  ASSUME TypeInv, NEW t \in Threads, PersistReplace(t)
  PROVE  TypeInv'
<1> DEFINE p == PublishedNow(t)
           q == req[t]
           new(h) == [h EXCEPT !.job = q.job, !.overrides = q.overrides, !.published = p]
           f == [h \in rows |-> IF h.seq = q.seq THEN new(h) ELSE h]
<1>1. /\ q.pc = "entry" /\ req' = [req EXCEPT ![t] = Idle]
      /\ UNCHANGED <<project, listed, row, status, cancelled, made, torn>>
      /\ rows' = {f[h] : h \in rows}
  BY DEF PersistReplace, queue
<1>2. p \in BOOLEAN /\ q.job \in Jobs /\ made[q.job] # None /\ q.overrides \in Overrides
  BY <1>1, Persisting DEF PublishedNow, Request
<1>3. \A h \in rows : h \in Entry /\ made[h.job] # None
  BY DEF TypeInv, TypeOK, RowsOK
<1>4. ASSUME NEW h \in rows
      PROVE  new(h) \in Entry /\ new(h).seq = h.seq /\ new(h).job = q.job
  <2> DEFINE a == [h EXCEPT !.job = q.job]
             b == [a EXCEPT !.overrides = q.overrides]
             c == [b EXCEPT !.published = p]
  <2> HIDE DEF p, q
  <2>1. a \in Entry /\ a.seq = h.seq /\ a.job = q.job
    BY <1>2, <1>3 DEF Entry
  <2>2. new(h) = c
    OBVIOUS
  <2> HIDE DEF a
  <2>3. b \in Entry /\ b.seq = h.seq /\ b.job = q.job
    BY <1>2, <2>1 DEF Entry
  <2> HIDE DEF b
  <2>4. c \in Entry /\ c.seq = h.seq /\ c.job = q.job
    BY <1>2, <2>3 DEF Entry
  <2> QED BY <2>2, <2>4
<1> HIDE DEF q, new
<1>5. /\ \A h \in rows : f[h] \in Entry /\ f[h].seq = h.seq /\ made[f[h].job] # None
      /\ DOMAIN f = rows
  BY <1>2, <1>3, <1>4
<1> HIDE DEF f
<1>6. TypeOK' /\ RowsOK'
  BY <1>1, <1>5, RowsUpdated
<1> QED BY <1>1, <1>6, EndTyped DEF q

LEMMA PersistFlagTyped ==
  ASSUME TypeInv, NEW t \in Threads, PersistFlag(t)
  PROVE  TypeInv'
<1> DEFINE q == req[t]
           r == [q EXCEPT !.pc = "row"]
           f == [h \in rows |-> IF h.seq = q.seq THEN [h EXCEPT !.published = q.published]
                                                 ELSE h]
<1>1. /\ q.pc = "flag" /\ req' = [req EXCEPT ![t] = r]
      /\ UNCHANGED <<project, listed, row, status, cancelled, made, torn>>
      /\ rows' = {f[h] : h \in rows}
  BY DEF PersistFlag, queue, Goto
<1>2. /\ RequestOK(q, project, made) /\ q \in Request /\ q.published \in BOOLEAN
      /\ q.kind = "published"
  BY <1>1, RequestAtWork DEF RequestOK, Request
<1>3. \A h \in rows : h \in Entry /\ made[h.job] # None
  BY DEF TypeInv, TypeOK, RowsOK
<1> HIDE DEF q
<1>4. /\ \A h \in rows : f[h] \in Entry /\ f[h].seq = h.seq /\ made[f[h].job] # None
      /\ DOMAIN f = rows
  BY <1>2, <1>3 DEF Entry
<1> HIDE DEF f
<1>5. TypeOK' /\ RowsOK'
  BY <1>1, <1>4, RowsUpdated
<1>6. /\ r \in Request /\ r.pc = "row" /\ r.kind = q.kind
  BY <1>2 DEF Request, Busy
<1> HIDE DEF r
<1>7. RequestOK(r, project, made) /\ ~Creates(r)
  BY <1>1, <1>2, <1>6
     DEF RequestOK, Creates, Supersedes, HasJob, HasSeq, Writes, Busy, Submits
<1> QED BY <1>1, <1>5, <1>7, StepTyped DEF q

LEMMA WriteFailsTyped ==
  ASSUME TypeInv, NEW t \in Threads, WriteFails(t) \/ SubmitFails(t)
  PROVE  TypeInv'
<1>1. UNCHANGED <<project, listed, row, rows, status, cancelled, made>> /\ torn' = TRUE
  BY DEF WriteFails, SubmitFails, disk, queue
<1>2. TypeOK' /\ RowsOK'
  BY <1>1 DEF TypeInv, TypeOK, RowsOK
<1>3. CASE req[t].pc = "row" /\ AfterRow(t)
  BY <1>1, <1>2, <1>3, AfterRowTyped
<1>4. CASE req[t].pc \in {"submit", "entry"} /\ req' = [req EXCEPT ![t] = Idle]
  BY <1>1, <1>2, <1>4, EndTyped
<1>5. CASE req[t].pc = "flag" /\ Goto(t, "row")
  <2> DEFINE q == req[t]
             r == [q EXCEPT !.pc = "row"]
  <2>1. q.pc = "flag" /\ req' = [req EXCEPT ![t] = r]
    BY <1>5 DEF Goto
  <2>2. RequestOK(q, project, made) /\ q \in Request /\ q.kind = "published"
    BY <2>1, RequestAtWork DEF RequestOK
  <2> HIDE DEF q
  <2>3. /\ r \in Request /\ r.pc = "row" /\ r.kind = q.kind
    BY <2>2 DEF Request, Busy
  <2> HIDE DEF r
  <2>4. RequestOK(r, project, made) /\ ~Creates(r)
    BY <2>1, <2>2, <2>3
       DEF RequestOK, Creates, Supersedes, HasJob, HasSeq, Writes, Busy, Submits
  <2> QED BY <1>1, <1>2, <2>1, <2>4, StepTyped DEF q
<1> QED BY <1>3, <1>4, <1>5 DEF WriteFails, SubmitFails

LEMMA DeleteTyped ==
  ASSUME TypeInv, NEW t \in Threads,
         (\E j \in Jobs : DeleteCancels(t, j)) \/ DeleteRow(t) \/ Forget(t)
  PROVE  TypeInv'
<1> DEFINE q == req[t]
<1>0. RequestOK(q, project, made) /\ q \in Request
  BY RequestAtWork
<1>1. ASSUME NEW j \in Jobs, DeleteCancels(t, j) PROVE TypeInv'
  <2> DEFINE r == [q EXCEPT !.todo = @ \ {j}]
  <2>1. /\ q.pc = "cancelall" /\ req' = [req EXCEPT ![t] = r]
        /\ cancelled' = Cancelled(j)
        /\ UNCHANGED <<project, listed, row, rows, status, made, torn>>
    BY <1>1 DEF DeleteCancels, disk
  <2> HIDE DEF q
  <2>2. /\ r \in Request /\ r.pc = "cancelall" /\ r.kind = q.kind
    BY <1>0, <2>1 DEF Request
  <2> HIDE DEF r
  <2>3. RequestOK(r, project, made) /\ ~Creates(r)
    BY <1>0, <2>1, <2>2
       DEF RequestOK, Creates, Supersedes, HasJob, HasSeq, Writes, Busy
  <2>4. cancelled' \in [Jobs -> BOOLEAN]
    BY <2>1 DEF Cancelled, Live, TypeInv, TypeOK
  <2>5. TypeOK' /\ RowsOK'
    BY <2>1, <2>4 DEF TypeInv, TypeOK, RowsOK
  <2> QED BY <2>1, <2>3, <2>5, StepTyped DEF q
<1>2. CASE DeleteRow(t)
  <2> DEFINE r == [q EXCEPT !.pc = "forget"]
  <2>1. /\ q.pc = "cancelall" /\ req' = [req EXCEPT ![t] = r]
        /\ row' = None /\ rows' = {}
        /\ UNCHANGED <<project, listed, status, cancelled, made, torn>>
    BY <1>2 DEF DeleteRow, queue, Goto
  <2> HIDE DEF q
  <2>2. /\ r \in Request /\ r.pc = "forget" /\ r.kind = q.kind
    BY <1>0, <2>1 DEF Request, Busy
  <2> HIDE DEF r
  <2>3. RequestOK(r, project, made) /\ ~Creates(r)
    BY <1>0, <2>1, <2>2
       DEF RequestOK, Creates, Supersedes, HasJob, HasSeq, Writes, Busy
  <2>4. RowsOK'
    BY <2>1, FS_EmptySet DEF RowsOK
  <2>5. TypeOK'
    BY <2>1 DEF TypeInv, TypeOK
  <2> QED BY <2>1, <2>3, <2>4, <2>5, StepTyped DEF q
<1>3. CASE Forget(t)
  <2>1. /\ q.pc = "forget" /\ req' = [req EXCEPT ![t] = Idle] /\ listed' = FALSE
        /\ UNCHANGED <<row, rows, status, cancelled, made, torn>>
        /\ \/ project' = None /\ \A u \in Threads \ {t} : req[u].pc = "idle"
           \/ project' = project
    BY <1>3 DEF Forget, disk, queue
  <2>2. TypeOK' /\ RowsOK'
    BY <2>1 DEF TypeInv, TypeOK, RowsOK
  <2>3. CASE project' = None /\ \A u \in Threads \ {t} : req[u].pc = "idle"
    <3>1. /\ DOMAIN req' = Threads /\ req'[t] = Idle
          /\ \A u \in Threads \ {t} : req'[u] = req[u]
      BY <2>1 DEF TypeInv, RequestsOK
    <3>2. ASSUME NEW u \in Threads
          PROVE  RequestOK(req'[u], project', made') /\ ~Creates(req'[u])
      <4>1. CASE u = t
        BY <3>1, <4>1, IdleFits
      <4>2. CASE u # t
        <5>1. RequestOK(req[u], project, made) /\ req[u].pc = "idle" /\ req'[u] = req[u]
          BY <2>3, <3>1, <4>2, RequestAtWork
        <5> QED BY <5>1
                DEF RequestOK, Creates, Supersedes, HasJob, HasSeq, Writes, Busy
      <4> QED BY <4>1, <4>2
    <3>3. RequestsOK'
      BY <3>1, <3>2 DEF RequestsOK
    <3> QED BY <2>2, <3>3 DEF TypeInv
  <2>4. CASE project' = project
    <3>1. Grows(project, made, project', made')
      BY <2>1, <2>4 DEF Grows
    <3>2. RequestOK(Idle, project', made') /\ ~Creates(Idle)
      BY IdleFits
    <3>3. RequestsOK'
      BY <2>1, <3>1, <3>2, NobodyElseCreates, OneRequestMoves DEF TypeInv
    <3> QED BY <2>2, <3>3 DEF TypeInv
  <2> QED BY <2>1, <2>3, <2>4
<1> QED BY <1>1, <1>2, <1>3

LEMMA SettlesTyped ==
  ASSUME TypeInv, NEW j \in Jobs, NEW o \in Outcomes, WorkerSettles(j, o)
  PROVE  TypeInv'
<1>1. /\ status[j] = "live" /\ status' = [status EXCEPT ![j] = o]
      /\ UNCHANGED <<project, listed, row, rows, cancelled, made, req, torn>>
  BY DEF WorkerSettles, Live, disk
<1>2. /\ status' \in [Jobs -> Statuses]
      /\ \A k \in Jobs : made'[k] = None <=> status'[k] = "absent"
  BY <1>1 DEF TypeInv, TypeOK, Statuses, Outcomes
<1>3. TypeOK'
  BY <1>1, <1>2 DEF TypeInv, TypeOK
<1>4. RowsOK'
  BY <1>1 DEF TypeInv, RowsOK
<1>5. RequestsOK'
  BY <1>1 DEF TypeInv, RequestsOK
<1> QED BY <1>3, <1>4, <1>5 DEF TypeInv

LEMMA RestartTyped ==
  ASSUME TypeInv, Restart
  PROVE  TypeInv'
<1>1. /\ project' = Rehydrated /\ listed' = (row # None)
      /\ req' = [t \in Threads |-> Idle] /\ torn' = (torn \/ ~Quiet)
      /\ UNCHANGED <<row, rows, status, cancelled, made>>
  BY DEF Restart, disk, queue
<1>2. RequestsOK'
  <2>1. DOMAIN req' = Threads /\ \A t \in Threads : req'[t] = Idle
    BY <1>1
  <2> QED BY <2>1, IdleFits DEF RequestsOK
<1>3. RowsOK'
  BY <1>1 DEF TypeInv, RowsOK
<1>4. /\ project' \in Project \cup {None} /\ (listed' => project' # None)
      /\ project' # None =>
           \A i \in DOMAIN project'.history : made'[project'.history[i].job] # None
  <2>1. CASE row = None
    BY <1>1, <2>1 DEF Rehydrated
  <2>2. CASE row # None
    <3>1. \A i \in DOMAIN Rehydrated.history : Rehydrated.history[i] \in rows
      BY <2>2, RehydratedIsRows
    <3>2. Rehydrated \in Project /\ Rehydrated # None
      BY <2>2, RehydratedIsRows
    <3> QED BY <1>1, <3>1, <3>2 DEF TypeInv, RowsOK
  <2> QED BY <2>1, <2>2
<1>5. listed' \in BOOLEAN /\ torn' \in BOOLEAN
  BY <1>1 DEF TypeInv, TypeOK
<1>6. TypeOK'
  BY <1>1, <1>4, <1>5 DEF TypeInv, TypeOK
<1> QED BY <1>2, <1>3, <1>6 DEF TypeInv

LEMMA TypeInvHolds == Spec => []TypeInv
<1>1. Init => TypeInv
  <2> SUFFICES ASSUME Init PROVE TypeInv
    OBVIOUS
  <2>1. RequestsOK
    <3>1. DOMAIN req = Threads /\ \A t \in Threads : req[t] = Idle
      BY DEF Init
    <3> QED BY <3>1, IdleFits DEF RequestsOK
  <2>2. RowsOK
    BY FS_EmptySet DEF Init, RowsOK
  <2>3. TypeOK
    BY DEF Init, TypeOK, Statuses
  <2> QED BY <2>1, <2>2, <2>3 DEF TypeInv
<1>2. TypeInv /\ [Next]_vars => TypeInv'
  <2> SUFFICES ASSUME TypeInv, [Next]_vars PROVE TypeInv'
    OBVIOUS
  <2>1. ASSUME NEW t \in Threads, Edit(t) PROVE TypeInv'
    BY <2>1, EditTyped
  <2>2. ASSUME NEW t \in Threads, Point(t) \/ Delete(t) PROVE TypeInv'
    BY <2>2, PointTyped
  <2>3. ASSUME NEW t \in Threads, Serve(t) PROVE TypeInv'
    <3>1. CASE ReadStatus(t)
      BY <3>1, ReadStatusTyped
    <3>2. CASE CancelPrev(t)
      BY <3>2, CancelPrevTyped
    <3>3. CASE SubmitFails(t) \/ WriteFails(t)
      BY <3>3, WriteFailsTyped
    <3>4. CASE \E j \in Jobs : Submit(t, j)
      BY <3>4, SubmitTyped
    <3>5. CASE (\E j \in Jobs : DeleteCancels(t, j)) \/ DeleteRow(t) \/ Forget(t)
      BY <3>5, DeleteTyped
    <3>6. CASE Built(t)
      BY <3>6, BuiltTyped
    <3>7. CASE Replace(t)
      BY <3>7, ReplaceTyped
    <3>8. CASE PickSeq(t)
      BY <3>8, PickSeqTyped
    <3>9. CASE AppendEntry(t)
      BY <3>9, AppendEntryTyped
    <3>10. CASE PersistRow(t)
      BY <3>10, PersistRowTyped
    <3>11. CASE PersistEntry(t)
      BY <3>11, PersistEntryTyped
    <3>12. CASE PersistReplace(t)
      BY <3>12, PersistReplaceTyped
    <3>13. CASE PersistFlag(t)
      BY <3>13, PersistFlagTyped
    <3> QED BY <2>3, <3>1, <3>2, <3>3, <3>4, <3>5, <3>6, <3>7, <3>8, <3>9, <3>10,
               <3>11, <3>12, <3>13 DEF Serve
  <2>4. ASSUME NEW j \in Jobs, NEW o \in Outcomes, WorkerSettles(j, o) PROVE TypeInv'
    BY <2>4, SettlesTyped
  <2>5. CASE Restart
    BY <2>5, RestartTyped
  <2>6. CASE UNCHANGED vars
    BY <2>6 DEF vars, disk, queue, TypeInv, TypeOK, RequestsOK, RowsOK
  <2> QED BY <2>1, <2>2, <2>3, <2>4, <2>5, <2>6 DEF Next
<1> QED BY <1>1, <1>2, PTL DEF Spec

(* The types hold for any number of requests at once, with writes that     *)
(* fail and restarts between any two steps: a job exists as soon as an     *)
(* entry of the history names it.                                          *)
THEOREM TypeCorrect == Spec => []TypeOK
<1>1. TypeInv => TypeOK
  BY DEF TypeInv
<1> QED BY <1>1, TypeInvHolds, PTL

-----------------------------------------------------------------------------
(* LoneInv: one request at a time, whatever fails.                         *)

LEMMA GoneGrows == TypeInv /\ [Next]_vars => Gone \subseteq Gone'
<1> SUFFICES ASSUME TypeInv, [Next]_vars PROVE Gone \subseteq Gone'
  OBVIOUS
<1>1. /\ status \in [Jobs -> Statuses] /\ cancelled \in [Jobs -> BOOLEAN]
  BY DEF TypeInv, TypeOK
<1>2. CASE UNCHANGED <<status, cancelled>>
  BY <1>2 DEF Gone
<1>3. ASSUME NEW j \in Jobs, cancelled' = Cancelled(j), UNCHANGED status
      PROVE  Gone \subseteq Gone'
  BY <1>1, <1>3 DEF Gone, Cancelled
<1>4. ASSUME NEW t \in Threads, CancelPrev(t) PROVE Gone \subseteq Gone'
  <2>1. req[t].prev.job \in Jobs
    <3>1. RequestOK(req[t], project, made) /\ req[t].pc = "cancel"
      BY <1>4, RequestAtWork DEF CancelPrev
    <3> QED BY <3>1 DEF RequestOK, Supersedes, Entry, Kinds
  <2> QED BY <1>3, <1>4, <2>1 DEF CancelPrev
<1>5. ASSUME NEW t \in Threads, NEW j \in Jobs, DeleteCancels(t, j)
      PROVE  Gone \subseteq Gone'
  BY <1>3, <1>5 DEF DeleteCancels
<1>6. ASSUME NEW j \in Jobs, status[j] \in {"absent", "live"}, NEW o,
             status' = [status EXCEPT ![j] = o], UNCHANGED cancelled
      PROVE  Gone \subseteq Gone'
  BY <1>1, <1>6 DEF Gone
<1>7. ASSUME NEW t \in Threads, NEW j \in Jobs, Submit(t, j) PROVE Gone \subseteq Gone'
  <2>1. /\ status[j] = "absent" /\ status' = [status EXCEPT ![j] = "live"]
        /\ UNCHANGED cancelled
    BY <1>7 DEF Submit
  <2> QED BY <1>6, <2>1
<1>8. ASSUME NEW j \in Jobs, NEW o \in Outcomes, WorkerSettles(j, o)
      PROVE  Gone \subseteq Gone'
  <2>1. /\ status[j] = "live" /\ status' = [status EXCEPT ![j] = o]
        /\ UNCHANGED cancelled
    BY <1>8 DEF WorkerSettles, Live
  <2> QED BY <1>6, <2>1
<1>9. ASSUME NEW t \in Threads, Edit(t) \/ Point(t) \/ Delete(t)
      PROVE  UNCHANGED <<status, cancelled>>
  BY <1>9 DEF Edit, Point, Delete, Create, Patch, SwapSessions, UpgradeTemplate, Revert,
              SetPublished, queue
<1>10. ASSUME NEW t \in Threads, Serve(t), ~CancelPrev(t),
              \A j \in Jobs : ~Submit(t, j) /\ ~DeleteCancels(t, j)
       PROVE  UNCHANGED <<status, cancelled>>
  BY <1>10 DEF Serve, ReadStatus, SubmitFails, Built, Replace, PickSeq, AppendEntry,
               PersistRow, PersistEntry, PersistReplace, PersistFlag, WriteFails,
               DeleteRow, Forget, queue
<1>11. Restart \/ UNCHANGED vars => UNCHANGED <<status, cancelled>>
  BY DEF Restart, vars, queue
<1> QED BY <1>2, <1>4, <1>5, <1>7, <1>8, <1>9, <1>10, <1>11 DEF Next

LEMMA IdleSits == ASSUME NEW p, NEW w, NEW R, NEW G PROVE Sits(Idle, p, w, R, G)
<1>1. Idle.pc = "idle" /\ ~Idle.collapse
  BY DEF Idle
<1> QED BY <1>1 DEF Sits, Supersedes, Writes

LEMMA LoneStep ==
  ASSUME TypeInv, NEW t, Threads = {t}, NEW r, req' = [req EXCEPT ![t] = r],
         Sits(r, project', row', rows', Gone'),
         project' = None => row' = None /\ rows' = {},
         project' # None <=> listed',
         row' = None => rows' = {},
         project' # None => Apart(project') /\ Backed(project', rows', Gone')
  PROVE  LoneInv'
<1>1. req'[t] = r
  BY DEF TypeInv, RequestsOK
<1> QED BY <1>1 DEF LoneInv

(* A step that leaves the object and the tables alone.                     *)
LEMMA LoneRequestStep ==
  ASSUME TypeInv, LoneInv, [Next]_vars, NEW t, Threads = {t}, NEW r,
         req' = [req EXCEPT ![t] = r], UNCHANGED <<project, listed, row, rows>>,
         Sits(r, project, row, rows, Gone')
  PROVE  LoneInv'
<1>1. Gone \subseteq Gone'
  BY GoneGrows
<1>2. project' # None => Apart(project') /\ Backed(project', rows', Gone')
  BY <1>1 DEF LoneInv, Apart, Backed
<1>3. /\ project' = None => row' = None /\ rows' = {}
      /\ project' # None <=> listed'
      /\ row' = None => rows' = {}
  BY DEF LoneInv
<1>4. Sits(r, project', row', rows', Gone')
  OBVIOUS
<1> QED BY <1>2, <1>3, <1>4, LoneStep

(* The current entry is one of the history.                                *)
LEMMA CurrentIsThere ==
  ASSUME TypeInv, listed, HasCurrent(project)
  PROVE  \E i \in DOMAIN project.history : project.history[i] = Current(project)
BY ListedProject DEF HasCurrent, Current, EntryAt

LEMMA EditSits ==
  ASSUME TypeInv, LoneInv, [Next]_vars, NEW t, Threads = {t}, Edit(t)
  PROVE  LoneInv'
<1>1. ASSUME NEW s \in Sessions, NEW o \in Overrides, Create(t, s, o) PROVE LoneInv'
  <2> DEFINE r == [Idle EXCEPT !.pc = "submit", !.kind = "create",
                               !.sessions = s, !.version = 1, !.overrides = o]
  <2>1. r.pc = "submit" /\ r.kind = "create" /\ ~r.collapse
    BY DEF Idle
  <2>2. /\ req' = [req EXCEPT ![t] = r]
        /\ UNCHANGED <<project, listed, row, rows>>
    BY <1>1 DEF Create, disk
  <2> HIDE DEF r
  <2>3. Sits(r, project, row, rows, Gone')
    BY <2>1 DEF Sits, Supersedes, Writes
  <2> QED BY <2>2, <2>3, LoneRequestStep
<1>2. ASSUME NEW r, req' = [req EXCEPT ![t] = r], UNCHANGED <<project, listed, row, rows>>,
             listed, HasCurrent(project), r.pc \in {"status", "cancel"}, ~r.collapse,
             r.prev = Current(project)
      PROVE  LoneInv'
  <2>1. Sits(r, project, row, rows, Gone')
    BY <1>2, CurrentIsThere DEF Sits, Supersedes, Writes
  <2> QED BY <1>2, <2>1, LoneRequestStep
<1>3. ASSUME NEW set \in Overrides, NEW reset \in Overrides, Patch(t, set, reset)
      PROVE  LoneInv'
  <2> DEFINE o == Merged(Current(project).overrides, set, reset)
             r == [Idle EXCEPT !.pc = "status", !.kind = "edit", !.prev = Current(project),
                               !.overrides = o]
  <2>1. /\ req' = [req EXCEPT ![t] = r]
        /\ UNCHANGED <<project, listed, row, rows>> /\ listed /\ HasCurrent(project)
    BY <1>3 DEF Patch, disk
  <2> HIDE DEF o
  <2>2. r.pc = "status" /\ ~r.collapse /\ r.prev = Current(project)
    BY DEF Idle
  <2> HIDE DEF r
  <2> QED BY <1>2, <2>1, <2>2
<1>4. ASSUME NEW s \in Sessions, NEW o \in Overrides, NEW render \in BOOLEAN,
             SwapSessions(t, s, o, render)
      PROVE  LoneInv'
  <2> DEFINE x == Merged(o, Current(project).overrides, {})
             r == [Idle EXCEPT !.pc = "cancel", !.kind = "swap_sessions",
                    !.prev = Current(project), !.sessions = s, !.render = render,
                    !.overrides = x]
  <2>1. /\ req' = [req EXCEPT ![t] = r]
        /\ UNCHANGED <<project, listed, row, rows>> /\ listed /\ HasCurrent(project)
    BY <1>4 DEF SwapSessions, disk
  <2> HIDE DEF x
  <2>2. r.pc = "cancel" /\ ~r.collapse /\ r.prev = Current(project)
    BY DEF Idle
  <2> HIDE DEF r
  <2> QED BY <1>2, <2>1, <2>2
<1>5. ASSUME NEW v \in Versions, UpgradeTemplate(t, v)
      PROVE  LoneInv'
  <2> DEFINE x == Migrated(Current(project).overrides, v)
             r == [Idle EXCEPT !.pc = "cancel", !.kind = "template_upgrade",
                    !.prev = Current(project), !.version = v, !.overrides = x]
  <2>1. /\ req' = [req EXCEPT ![t] = r]
        /\ UNCHANGED <<project, listed, row, rows>> /\ listed /\ HasCurrent(project)
    BY <1>5 DEF UpgradeTemplate, disk
  <2> HIDE DEF x
  <2>2. r.pc = "cancel" /\ ~r.collapse /\ r.prev = Current(project)
    BY DEF Idle
  <2> HIDE DEF r
  <2> QED BY <1>2, <2>1, <2>2
<1> QED BY <1>1, <1>3, <1>4, <1>5 DEF Edit

LEMMA PointSits ==
  ASSUME TypeInv, LoneInv, [Next]_vars, NEW t, Threads = {t}, Point(t) \/ Delete(t)
  PROVE  LoneInv'
<1>0. Gone \subseteq Gone'
  BY GoneGrows
<1>1. ASSUME NEW seq \in 0 .. MaxSeq, Revert(t, seq) PROVE LoneInv'
  <2> DEFINE r == [Idle EXCEPT !.pc = "row", !.kind = "revert"]
  <2>1. /\ req' = [req EXCEPT ![t] = r] /\ listed
        /\ project' = [project EXCEPT !.current = seq]
        /\ UNCHANGED <<listed, row, rows>>
    BY <1>1 DEF Revert, disk
  <2>2. r.pc = "row" /\ r.kind = "revert" /\ ~r.collapse
    BY DEF Idle
  <2> HIDE DEF r
  <2>3. project \in Project /\ project # None /\ seq \in Nat
    BY <2>1, ListedProject, ProjectAssumption
  <2>4. /\ project' \in Project /\ project'.history = project.history
    BY <2>1, <2>3, CurrentReplaced
  <2>5. Sits(r, project', row', rows', Gone')
    BY <2>2 DEF Sits, Supersedes, Writes, Submits
  <2>6. Apart(project') /\ Backed(project', rows', Gone')
    BY <1>0, <2>1, <2>3, <2>4 DEF LoneInv, Apart, Backed
  <2>7. project' # None /\ listed' /\ (row' = None => rows' = {})
    BY <2>1, <2>4, NoneAssumption DEF LoneInv
  <2> QED BY <2>1, <2>5, <2>6, <2>7, LoneStep
<1>2. ASSUME NEW seq \in 0 .. MaxSeq, NEW published \in BOOLEAN,
             SetPublished(t, seq, published)
      PROVE  LoneInv'
  <2> DEFINE r == [Idle EXCEPT !.pc = "flag", !.kind = "published",
                               !.seq = seq, !.published = published]
             i == IndexOf(project, seq)
             e == [project.history[i] EXCEPT !.published = published]
  <2>1. /\ req' = [req EXCEPT ![t] = r] /\ listed /\ Has(project, seq)
        /\ project' = [project EXCEPT !.history[i] = e]
        /\ UNCHANGED <<listed, row, rows>>
    BY <1>2 DEF SetPublished, disk
  <2>2. r.pc = "flag" /\ r.kind = "published" /\ ~r.collapse
    <3> HIDE DEF i, e
    <3> QED BY DEF Idle
  <2> HIDE DEF r
  <2>3. project \in Project /\ project # None /\ i \in DOMAIN project.history
    BY <2>1, ListedProject
  <2>4. /\ e \in Entry /\ e.seq = project.history[i].seq
        /\ e.job = project.history[i].job
    BY <2>3, ProjectShape DEF Entry
  <2> HIDE DEF e, i
  <2>5. /\ project' \in Project
        /\ DOMAIN project'.history = DOMAIN project.history /\ project'.history[i] = e
        /\ \A k \in DOMAIN project.history \ {i} :
             project'.history[k] = project.history[k]
    BY <2>1, <2>3, <2>4, EntryReplaced
  <2>6. /\ project' \in Project
        /\ DOMAIN project'.history = DOMAIN project.history
        /\ \A k \in DOMAIN project.history :
             /\ project'.history[k].job = project.history[k].job
             /\ project'.history[k].seq = project.history[k].seq
    BY <2>4, <2>5
  <2>7. Sits(r, project', row', rows', Gone')
    BY <2>2 DEF Sits, Supersedes, Writes, Submits
  <2>8. Apart(project') /\ Backed(project', rows', Gone')
    BY <1>0, <2>1, <2>3, <2>6 DEF LoneInv, Apart, Backed
  <2>9. project' # None /\ listed' /\ (row' = None => rows' = {})
    BY <2>1, <2>6, NoneAssumption DEF LoneInv
  <2> QED BY <2>1, <2>7, <2>8, <2>9, LoneStep
<1>3. ASSUME Delete(t) PROVE LoneInv'
  <2> DEFINE js == {project.history[i].job : i \in DOMAIN project.history}
             r == [Idle EXCEPT !.pc = "cancelall", !.kind = "delete", !.todo = js]
  <2>1. /\ req' = [req EXCEPT ![t] = r]
        /\ UNCHANGED <<project, listed, row, rows>>
    BY <1>3 DEF Delete, disk
  <2> HIDE DEF js
  <2>2. r.pc = "cancelall" /\ ~r.collapse
    BY DEF Idle
  <2> HIDE DEF r
  <2>3. Sits(r, project, row, rows, Gone')
    BY <2>2 DEF Sits, Supersedes, Writes
  <2> QED BY <2>1, <2>3, LoneRequestStep
<1> QED BY <1>1, <1>2, <1>3 DEF Point

(* The request under way.                                                  *)
LEMMA LoneAtWork ==
  ASSUME TypeInv, LoneInv, NEW t, Threads = {t}
  PROVE  /\ RequestOK(req[t], project, made) /\ req[t] \in Request
         /\ Sits(req[t], project, row, rows, Gone)
         /\ req[t].pc # "idle" /\ ~Creates(req[t]) =>
              /\ project \in Project /\ project # None /\ listed
              /\ Apart(project) /\ Backed(project, rows, Gone)
BY RequestAtWork, AtWork DEF LoneInv

LEMMA CancelSits ==
  ASSUME TypeInv, LoneInv, [Next]_vars, NEW t, Threads = {t}, ReadStatus(t) \/ CancelPrev(t)
  PROVE  LoneInv'
<1> DEFINE q == req[t]
<1>0. /\ Gone \subseteq Gone' /\ t \in Threads
      /\ RequestOK(q, project, made) /\ q \in Request /\ Sits(q, project, row, rows, Gone)
  BY GoneGrows, LoneAtWork
<1>1. CASE ReadStatus(t)
  <2> DEFINE r == [q EXCEPT !.pc = "cancel", !.collapse = Collapses(t)]
  <2>1. /\ q.pc = "status" /\ UNCHANGED <<project, listed, row, rows>>
        /\ req' = [req EXCEPT ![t] = r]
    BY <1>1 DEF ReadStatus, disk
  <2>2. /\ q.kind = "edit" /\ Supersedes(q) /\ q.prev.job \in Jobs
    BY <1>0, <2>1 DEF RequestOK, Supersedes, Entry
  <2>3. Collapses(t) => q.prev.job \in Gone'
    BY <1>0, <2>2 DEF Collapses, Gone
  <2> HIDE DEF q
  <2>4. /\ r.pc = "cancel" /\ r.kind = q.kind /\ r.prev = q.prev
        /\ r.collapse = Collapses(t)
    BY <1>0 DEF Request
  <2> HIDE DEF r
  <2>5. Sits(r, project, row, rows, Gone')
    BY <1>0, <2>2, <2>3, <2>4 DEF Sits, Supersedes, Writes
  <2> QED BY <2>1, <2>5, LoneRequestStep
<1>2. CASE CancelPrev(t)
  <2> DEFINE b == q.kind = "edit" /\ (q.collapse \/ Live(q.prev.job))
             pc == IF q.render THEN "submit" ELSE "apply"
             r == [q EXCEPT !.collapse = b, !.job = EntryJob(q), !.pc = pc]
  <2>1. /\ q.pc = "cancel" /\ cancelled' = Cancelled(q.prev.job)
        /\ UNCHANGED <<listed, row, rows, status>>
        /\ req' = [req EXCEPT ![t] = r]
    BY <1>2 DEF CancelPrev, disk
  <2>2. /\ q.kind \in Kinds /\ Supersedes(q) /\ q.prev.job \in Jobs /\ ~Creates(q)
    BY <1>0, <2>1 DEF RequestOK, Supersedes, Entry, Kinds, Creates
  <2>3. b => q.prev.job \in Gone'
    <3>1. q.collapse => q.prev.job \in Gone
      BY <1>0, <2>2 DEF Sits
    <3>2. Live(q.prev.job) => cancelled'[q.prev.job]
      BY <2>1, <2>2 DEF Cancelled, TypeInv, TypeOK
    <3>3. Live(q.prev.job) => q.prev.job \in Gone'
      BY <2>2, <3>2 DEF Gone
    <3> QED BY <1>0, <3>1, <3>3
  <2>4. /\ project \in Project /\ project # None /\ listed
        /\ Apart(project) /\ Backed(project, rows, Gone)
    BY <2>1, <2>2, LoneAtWork
  <2>5. project' \in Project /\ project'.history = project.history
    <3>1. /\ q.kind = "edit" => project' = project
          /\ q.kind = "swap_sessions" => project' = [project EXCEPT !.sessions = q.sessions]
          /\ q.kind = "template_upgrade" => project' = [project EXCEPT !.version = q.version]
      BY <1>2 DEF CancelPrev
    <3>2. /\ q.kind = "swap_sessions" => q.sessions \in Sessions
          /\ q.kind = "template_upgrade" => q.version \in Versions
      BY <1>0, <2>1 DEF RequestOK
    <3>3. CASE q.kind = "edit"
      BY <2>4, <3>1, <3>3
    <3>4. CASE q.kind = "swap_sessions"
      BY <2>4, <3>1, <3>2, <3>4, SessionsReplaced
    <3>5. CASE q.kind = "template_upgrade"
      BY <2>4, <3>1, <3>2, <3>5, VersionReplaced
    <3> QED BY <2>2, <3>3, <3>4, <3>5 DEF Kinds
  <2> HIDE DEF q
  <2>6. /\ r.pc \in {"submit", "apply"} /\ r.kind = q.kind /\ r.prev = q.prev
        /\ r.collapse = b
    <3>1. pc \in {"submit", "apply"}
      OBVIOUS
    <3> HIDE DEF pc, b
    <3> QED BY <1>0, <3>1 DEF Request
  <2>7. r.collapse => r.kind = "edit"
    BY <2>6
  <2> HIDE DEF r, b
  <2>8. Sits(r, project', row', rows', Gone')
    BY <1>0, <2>2, <2>3, <2>5, <2>6, <2>7 DEF Sits, Supersedes, Writes, Kinds
  <2>9. Apart(project') /\ Backed(project', rows', Gone')
    BY <1>0, <2>1, <2>4, <2>5 DEF Apart, Backed
  <2>10. project' # None /\ listed' /\ (row' = None => rows' = {})
    BY <2>1, <2>4, <2>5, NoneAssumption DEF LoneInv
  <2> QED BY <2>1, <2>8, <2>9, <2>10, LoneStep
<1> QED BY <1>1, <1>2

LEMMA SubmitSits ==
  ASSUME TypeInv, LoneInv, [Next]_vars, NEW t, Threads = {t},
         (\E j \in Jobs : Submit(t, j)) \/ PickSeq(t)
           \/ (\E j \in Jobs : DeleteCancels(t, j))
  PROVE  LoneInv'
<1> DEFINE q == req[t]
<1>0. /\ Gone \subseteq Gone' /\ t \in Threads
      /\ RequestOK(q, project, made) /\ q \in Request /\ Sits(q, project, row, rows, Gone)
  BY GoneGrows, LoneAtWork
<1>1. ASSUME NEW j \in Jobs, Submit(t, j) PROVE LoneInv'
  <2> DEFINE r == [q EXCEPT !.pc = "apply", !.job = j]
  <2>1. /\ q.pc = "submit" /\ UNCHANGED <<project, listed, row, rows>>
        /\ req' = [req EXCEPT ![t] = r]
    BY <1>1 DEF Submit, disk
  <2> HIDE DEF q
  <2>2. /\ r.pc = "apply" /\ r.kind = q.kind /\ r.prev = q.prev
        /\ r.collapse = q.collapse
    BY <1>0 DEF Request
  <2> HIDE DEF r
  <2>3. Sits(r, project, row, rows, Gone')
    BY <1>0, <2>1, <2>2 DEF Sits, Supersedes, Writes
  <2> QED BY <2>1, <2>3, LoneRequestStep
<1>2. CASE PickSeq(t)
  <2> DEFINE n == NextSeq(project)
             r == [q EXCEPT !.pc = "append", !.seq = n]
  <2>1. /\ q.pc = "apply" /\ q.kind # "create" /\ ~q.collapse
        /\ UNCHANGED <<project, listed, row, rows>>
        /\ req' = [req EXCEPT ![t] = r]
    BY <1>2 DEF PickSeq, disk
  <2>2. project \in Project /\ project.history # <<>>
    BY <1>0, <2>1, LoneAtWork DEF RequestOK, Creates
  <2>3. \A i \in DOMAIN project.history : project.history[i].seq < n
    BY <2>2, NextSeqFits
  <2> HIDE DEF q, n
  <2>4. r.pc = "append" /\ r.collapse = q.collapse /\ r.seq = n
    BY <1>0 DEF Request
  <2> HIDE DEF r
  <2>5. Sits(r, project, row, rows, Gone')
    BY <2>1, <2>3, <2>4 DEF Sits, Supersedes, Writes
  <2> QED BY <2>1, <2>5, LoneRequestStep
<1>3. ASSUME NEW j \in Jobs, DeleteCancels(t, j) PROVE LoneInv'
  <2> DEFINE x == q.todo \ {j}
             r == [q EXCEPT !.todo = x]
  <2>1. /\ q.pc = "cancelall" /\ UNCHANGED <<project, listed, row, rows>>
        /\ req' = [req EXCEPT ![t] = r]
    BY <1>3 DEF DeleteCancels, disk
  <2> HIDE DEF q, x
  <2>2. r.pc = "cancelall" /\ r.collapse = q.collapse
    BY <1>0, <2>1 DEF Request
  <2> HIDE DEF r
  <2>3. Sits(r, project, row, rows, Gone')
    BY <1>0, <2>1, <2>2 DEF Sits, Supersedes, Writes
  <2> QED BY <2>1, <2>3, LoneRequestStep
<1> QED BY <1>1, <1>2, <1>3

LEMMA BuiltSits ==
  ASSUME TypeInv, LoneInv, [Next]_vars, NEW t, Threads = {t}, Built(t)
  PROVE  LoneInv'
<1> DEFINE q == req[t]
           r == [q EXCEPT !.pc = "row", !.seq = 0]
           n == NewEntry(t)
           e == [n EXCEPT !.seq = 0]
<1>0. /\ t \in Threads /\ RequestOK(q, project, made) /\ q \in Request
      /\ Sits(q, project, row, rows, Gone)
  BY LoneAtWork
<1>1. /\ q.pc = "apply" /\ q.kind = "create" /\ req' = [req EXCEPT ![t] = r]
      /\ project' = [current |-> 0, version |-> q.version, sessions |-> q.sessions,
                     history |-> <<e>>]
      /\ listed' = TRUE /\ UNCHANGED <<row, rows>>
  BY DEF Built, disk
<1>2. q.job \in Jobs /\ Creates(q) /\ q.sessions \in Sessions /\ q.version \in Versions
  BY <1>0, <1>1 DEF RequestOK, HasJob, Creates
<1>3. project = None /\ rows = {}
  BY <1>0, <1>2 DEF TypeInv, RequestsOK, LoneInv
<1>4. e \in Entry /\ e.seq = 0 /\ e.job = q.job /\ e.overrides = q.overrides
  <2>1. q.kind \in Submits
    BY <1>1 DEF Submits
  <2>2. /\ n \in [seq : {q.seq}, job : Jobs, overrides : Overrides,
                  published : BOOLEAN, kind : Kinds]
        /\ n.job = q.job /\ n.overrides = q.overrides
    BY <1>0, <1>2, <2>1, NewEntryFits
  <2> HIDE DEF n
  <2> QED BY <2>2, EntrySet
<1> HIDE DEF q, n, e
<1>5. project'.history = <<e>> /\ project' # None
  <2>1. project' \in Project
    BY <1>1, <1>2, <1>4 DEF Project
  <2> QED BY <1>1, <2>1, NoneAssumption
<1>6. Apart(project') /\ Backed(project', rows', Gone')
  BY <1>1, <1>3, <1>5 DEF Apart, Backed
<1>7. /\ r.pc = "row" /\ r.kind = q.kind /\ r.collapse = q.collapse /\ r.job = q.job
      /\ r.overrides = q.overrides /\ r.seq = 0
  BY <1>0 DEF Request
<1> HIDE DEF r
<1>8. Sits(r, project', row', rows', Gone')
  BY <1>0, <1>1, <1>3, <1>4, <1>5, <1>7 DEF Sits, Supersedes, Writes
<1> QED BY <1>1, <1>3, <1>5, <1>6, <1>8, LoneStep

LEMMA ReplaceSits ==
  ASSUME TypeInv, LoneInv, [Next]_vars, NEW t, Threads = {t}, Replace(t)
  PROVE  LoneInv'
<1> DEFINE q == req[t]
           r == [q EXCEPT !.pc = "row", !.seq = q.prev.seq]
           i == IndexOf(project, q.prev.seq)
           old == IF project.history[i].job = q.prev.job THEN project.history[i] ELSE q.prev
           p == old.published
           n == NewEntry(t)
           e == [n EXCEPT !.seq = q.prev.seq, !.published = p]
<1>0. /\ t \in Threads /\ RequestOK(q, project, made) /\ q \in Request
      /\ Sits(q, project, row, rows, Gone) /\ Gone \subseteq Gone'
  BY LoneAtWork, GoneGrows
<1>1. /\ q.pc = "apply" /\ q.kind = "edit" /\ q.collapse /\ req' = [req EXCEPT ![t] = r]
      /\ project' = [project EXCEPT !.history[i] = e]
      /\ UNCHANGED <<listed, row, rows>>
  BY DEF Replace, disk
<1>2. /\ q.job \in Jobs /\ q.prev \in Entry /\ Has(project, q.prev.seq) /\ Supersedes(q)
      /\ project \in Project /\ project # None /\ listed
      /\ Apart(project) /\ Backed(project, rows, Gone)
  BY <1>0, <1>1, LoneAtWork DEF RequestOK, HasJob, Creates, Supersedes
<1>3. i \in DOMAIN project.history /\ project.history[i] = q.prev
  <2>1. i \in DOMAIN project.history /\ project.history[i].seq = q.prev.seq
    BY <1>2, IndexFits
  <2>2. PICK k \in DOMAIN project.history : project.history[k] = q.prev
    BY <1>0, <1>2 DEF Sits
  <2> HIDE DEF i, q
  <2> QED BY <1>2, <2>1, <2>2 DEF Apart
<1>4. q.prev.job \in Gone
  BY <1>0, <1>1, <1>2 DEF Sits
<1>5. e \in Entry /\ e.job = q.job /\ e.seq = q.prev.seq /\ e.overrides = q.overrides
  <2>1. p \in BOOLEAN /\ q.prev.seq \in Nat
    BY <1>2, <1>3 DEF Entry
  <2>2. q.kind \in Submits
    BY <1>1 DEF Submits
  <2>3. /\ n \in [seq : {q.seq}, job : Jobs, overrides : Overrides,
                  published : BOOLEAN, kind : Kinds]
        /\ n.job = q.job /\ n.overrides = q.overrides
    BY <1>0, <1>2, <2>2, NewEntryFits
  <2> HIDE DEF p, n, q
  <2> QED BY <2>1, <2>3, EntrySet
<1> HIDE DEF q, i, e
<1>6. project' = [project EXCEPT !.history[i] = e] /\ e.seq = project.history[i].seq
  BY <1>1, <1>3, <1>5
<1>7. /\ project' \in Project /\ DOMAIN project'.history = DOMAIN project.history
      /\ project'.history[i] = e
      /\ \A k \in DOMAIN project.history \ {i} : project'.history[k] = project.history[k]
  BY <1>2, <1>3, <1>5, <1>6, EntryReplaced
<1>8. \A k \in DOMAIN project.history : project'.history[k].seq = project.history[k].seq
  BY <1>6, <1>7
<1>9. Apart(project')
  BY <1>2, <1>7, <1>8 DEF Apart
<1>10. Backed(project', rows', Gone')
  <2>1. ASSUME NEW h \in rows
        PROVE  \E k \in DOMAIN project'.history :
                 /\ project'.history[k].seq = h.seq
                 /\ project'.history[k].job = h.job \/ h.job \in Gone'
    <3>1. PICK k \in DOMAIN project.history :
            /\ project.history[k].seq = h.seq
            /\ project.history[k].job = h.job \/ h.job \in Gone
      BY <1>2 DEF Backed
    <3>2. k = i => h.job \in Gone
      BY <1>3, <1>4, <3>1
    <3>3. k # i => project'.history[k] = project.history[k]
      BY <1>7, <3>1
    <3> QED BY <1>0, <1>7, <1>8, <3>1, <3>2, <3>3
  <2> QED BY <1>1, <2>1 DEF Backed
<1>11. /\ r.pc = "row" /\ r.kind = q.kind /\ r.collapse = q.collapse /\ r.job = q.job
       /\ r.overrides = q.overrides /\ r.seq = q.prev.seq
  BY <1>0 DEF Request
<1> HIDE DEF r
<1>12. Sits(r, project', row', rows', Gone')
  BY <1>0, <1>1, <1>3, <1>5, <1>7, <1>11 DEF Sits, Supersedes, Writes
<1>13. project' # None /\ listed' /\ (row' = None => rows' = {})
  BY <1>1, <1>2, <1>7, NoneAssumption DEF LoneInv
<1> QED BY <1>1, <1>9, <1>10, <1>12, <1>13, LoneStep

(* AppendEntry, in terms that the next lemmas share.                       *)
LEMMA Appends ==
  ASSUME TypeInv, NEW t \in Threads, AppendEntry(t)
  PROVE  \E p \in Project, e \in Entry :
           /\ p = project /\ project # None /\ project' # None
           /\ e.seq = req[t].seq /\ e.job = req[t].job /\ e.overrides = req[t].overrides
           /\ ~e.published
           /\ project'.history = Append(p.history, e)
           /\ project'.current = req[t].seq
           /\ project'.version = p.version /\ project'.sessions = p.sessions
<1> DEFINE q == req[t]
           e == NewEntry(t)
           h == Append(project.history, e)
<1>1. /\ q.pc = "append" /\ RequestOK(q, project, made) /\ q \in Request
      /\ project' = [project EXCEPT !.history = h, !.current = q.seq]
  BY RequestAtWork DEF AppendEntry
<1>2. /\ q.job \in Jobs /\ q.kind \in Submits /\ q.seq \in Nat /\ ~Creates(q)
  BY <1>1 DEF RequestOK, HasJob, HasSeq, Creates, Submits, Kinds
<1>3. project \in Project /\ project # None /\ project' # None
  <2>1. project' \in Project \cup {None}
    <3>1. TypeInv'
      BY AppendEntryTyped
    <3> QED BY <3>1 DEF TypeInv, TypeOK
  <2>2. project' # None
    <3>1. TypeInv' /\ req'[t].pc = "row" /\ req'[t].kind = q.kind
      BY <1>1, AppendEntryTyped DEF AppendEntry, Goto, TypeInv, RequestsOK, Request
    <3>2. RequestOK(req'[t], project', made')
      BY <3>1 DEF TypeInv, RequestsOK
    <3> QED BY <3>1, <3>2 DEF RequestOK, Creates, Busy
  <2> QED BY <1>1, <1>2, <2>2, AtWork
<1>4. e \in Entry /\ e.seq = q.seq /\ e.job = q.job /\ e.overrides = q.overrides /\ ~e.published
  <2>1. /\ e \in [seq : {q.seq}, job : Jobs, overrides : Overrides,
                  published : BOOLEAN, kind : Kinds]
        /\ e.seq = q.seq /\ e.job = q.job /\ e.overrides = q.overrides /\ ~e.published
    BY <1>1, <1>2, NewEntryFits
  <2> HIDE DEF e, q
  <2> QED BY <1>2, <2>1 DEF Entry
<1> HIDE DEF q, e
<1>5. project'.history = h /\ project'.current = q.seq
      /\ project'.version = project.version /\ project'.sessions = project.sessions
  <2> HIDE DEF h
  <2>1. project = [current |-> project.current, version |-> project.version,
                   sessions |-> project.sessions, history |-> project.history]
    BY <1>3 DEF Project
  <2> QED BY <1>1, <2>1
<1> QED BY <1>3, <1>4, <1>5 DEF q

LEMMA AppendSits ==
  ASSUME TypeInv, LoneInv, [Next]_vars, NEW t, Threads = {t}, AppendEntry(t)
  PROVE  LoneInv'
<1> DEFINE q == req[t]
           r == [q EXCEPT !.pc = "row"]
<1>0. /\ t \in Threads /\ RequestOK(q, project, made) /\ q \in Request
      /\ Sits(q, project, row, rows, Gone) /\ Gone \subseteq Gone'
  BY LoneAtWork, GoneGrows
<1>1. /\ q.pc = "append" /\ req' = [req EXCEPT ![t] = r] /\ UNCHANGED <<listed, row, rows>>
  BY DEF AppendEntry, Goto, disk
<1>2. PICK p \in Project, e \in Entry :
        /\ p = project /\ project # None /\ project' # None
        /\ e.seq = q.seq /\ e.job = q.job /\ e.overrides = q.overrides
        /\ project'.history = Append(p.history, e)
  BY <1>0, Appends
<1>3. PICK z : z = project'
  OBVIOUS
<1>4. z.history = Append(p.history, e)
  BY <1>2, <1>3
<1>5. /\ DOMAIN z.history = 1 .. (Len(p.history) + 1)
      /\ z.history[Len(p.history) + 1] = e
      /\ \A k \in DOMAIN p.history : z.history[k] = p.history[k]
      /\ DOMAIN p.history = 1 .. Len(p.history) /\ Len(p.history) \in Nat
      /\ \A k \in DOMAIN p.history : p.history[k].seq \in Nat
  BY <1>4, EntryAdded, ProjectShape
<1>6. /\ listed /\ Apart(p) /\ Backed(p, rows, Gone) /\ q.seq \in Nat /\ q.kind \in Kinds
      /\ ~q.collapse /\ \A k \in DOMAIN p.history : p.history[k].seq < q.seq
  <2>1. ~Creates(q)
    BY <1>1 DEF Creates
  <2> HIDE DEF q
  <2> QED BY <1>0, <1>1, <1>2, <2>1, LoneAtWork DEF RequestOK, HasSeq, Sits, LoneInv
<1> HIDE DEF q
<1>7. /\ \A k \in DOMAIN z.history : k \in DOMAIN p.history \/ k = Len(p.history) + 1
      /\ DOMAIN p.history \subseteq DOMAIN z.history
      /\ Len(p.history) + 1 \in DOMAIN z.history
  BY <1>5
<1>8. Apart(z)
  <2>1. ASSUME NEW i \in DOMAIN z.history, NEW k \in DOMAIN z.history,
               z.history[i].seq = z.history[k].seq
        PROVE  i = k
    <3>1. CASE i \in DOMAIN p.history /\ k \in DOMAIN p.history
      BY <1>5, <1>6, <2>1, <3>1 DEF Apart
    <3>2. CASE i \notin DOMAIN p.history /\ k \notin DOMAIN p.history
      BY <1>7, <3>2
    <3>3. ASSUME NEW a \in DOMAIN p.history, NEW b, b = Len(p.history) + 1
          PROVE  z.history[a].seq # z.history[b].seq
      <4>1. /\ z.history[a].seq = p.history[a].seq /\ p.history[a].seq < q.seq
            /\ p.history[a].seq \in Nat
        BY <1>5, <1>6
      <4>2. z.history[b].seq = q.seq
        BY <1>2, <1>5, <3>3
      <4> QED BY <1>6, <4>1, <4>2
    <3> QED BY <1>7, <2>1, <3>1, <3>2, <3>3
  <2> QED BY <2>1 DEF Apart
<1>9. Backed(z, rows, Gone')
  BY <1>0, <1>5, <1>6, <1>7 DEF Backed
<1>10. \A h \in rows : h.seq # q.seq
  BY <1>6 DEF Backed
<1>11. /\ r.pc = "row" /\ r.kind = q.kind /\ r.collapse = q.collapse /\ r.job = q.job
       /\ r.overrides = q.overrides /\ r.seq = q.seq
  BY <1>0 DEF Request
<1> HIDE DEF r
<1>12. Sits(r, z, row, rows, Gone')
  BY <1>2, <1>5, <1>6, <1>7, <1>10, <1>11 DEF Sits, Supersedes, Writes
<1>13. Sits(r, project', row', rows', Gone') /\ Apart(project')
       /\ Backed(project', rows', Gone')
  BY <1>1, <1>3, <1>8, <1>9, <1>12
<1>14. project' # None /\ listed' /\ (row' = None => rows' = {})
  BY <1>1, <1>2, <1>6 DEF LoneInv
<1> QED BY <1>1, <1>13, <1>14, LoneStep

(* Steps that change a table.                                              *)
LEMMA LoneTableStep ==
  ASSUME TypeInv, LoneInv, [Next]_vars, NEW t, Threads = {t}, NEW r,
         req' = [req EXCEPT ![t] = r], UNCHANGED <<project, listed>>,
         project # None, row' = None => rows' = {},
         Backed(project, rows', Gone'), Sits(r, project, row', rows', Gone')
  PROVE  LoneInv'
<1>1. Apart(project') /\ Backed(project', rows', Gone')
  BY DEF LoneInv
<1>2. project' # None /\ listed'
  BY DEF LoneInv
<1>3. Sits(r, project', row', rows', Gone')
  OBVIOUS
<1> QED BY <1>1, <1>2, <1>3, LoneStep

LEMMA AfterRowSits ==
  ASSUME TypeInv, LoneInv, [Next]_vars, NEW t, Threads = {t}, req[t].pc = "row", AfterRow(t),
         UNCHANGED <<project, listed, rows>>, row' = None => rows = {}
  PROVE  LoneInv'
<1> DEFINE q == req[t]
           r == IF q.kind \in Submits THEN [q EXCEPT !.pc = "entry"] ELSE Idle
<1>0. /\ t \in Threads /\ RequestOK(q, project, made) /\ q \in Request
      /\ Sits(q, project, row, rows, Gone) /\ Gone \subseteq Gone'
  BY LoneAtWork, GoneGrows
<1>1. req' = [req EXCEPT ![t] = r]
  BY DEF AfterRow
<1>2. project # None /\ Backed(project, rows', Gone')
  <2>1. ~Creates(q) /\ q.pc # "idle"
    BY DEF Creates
  <2>2. project # None /\ Backed(project, rows, Gone)
    BY <2>1, LoneAtWork
  <2> QED BY <1>0, <2>2 DEF Backed
<1>3. Sits(r, project, row', rows', Gone')
  <2>1. CASE q.kind \in Submits
    <3> DEFINE s == [q EXCEPT !.pc = "entry"]
    <3>1. q.pc = "row" /\ r = s
      BY <2>1
    <3> HIDE DEF q
    <3>2. /\ s.pc = "entry" /\ s.kind = q.kind /\ s.collapse = q.collapse /\ s.job = q.job
          /\ s.overrides = q.overrides /\ s.seq = q.seq
      BY <1>0 DEF Request
    <3> HIDE DEF s, r
    <3>3. Sits(s, project, row', rows', Gone')
      BY <1>0, <2>1, <3>1, <3>2 DEF Sits, Supersedes, Writes
    <3> QED BY <3>1, <3>3
  <2>2. CASE q.kind \notin Submits
    <3>1. r = Idle
      BY <2>2
    <3> QED BY <3>1, IdleSits
  <2> QED BY <2>1, <2>2
<1> HIDE DEF r
<1> QED BY <1>1, <1>2, <1>3, LoneTableStep

LEMMA EndSits ==
  ASSUME TypeInv, LoneInv, [Next]_vars, NEW t, Threads = {t},
         req' = [req EXCEPT ![t] = Idle], UNCHANGED <<project, listed, row, rows>>
  PROVE  LoneInv'
BY IdleSits, LoneRequestStep

LEMMA PersistRowSits ==
  ASSUME TypeInv, LoneInv, [Next]_vars, NEW t, Threads = {t}, PersistRow(t)
  PROVE  LoneInv'
<1> DEFINE k == req[t].kind
<1>1. /\ req[t].pc = "row" /\ AfterRow(t) /\ UNCHANGED <<project, listed, rows>>
      /\ row' = IF row = None /\ k # "create" THEN None ELSE RowAfter(k)
  BY DEF PersistRow
<1>2. row' = None => row = None \/ k = "create"
  <2>1. CASE k = "create" \/ row = None
    BY <2>1
  <2>2. CASE k # "create" /\ row # None
    <3>1. row \in Row /\ row' = RowAfter(k) /\ project \in Project
      <4>1. req[t].pc # "idle" /\ ~Creates(req[t])
        BY <1>1 DEF Creates
      <4> QED BY <1>1, <2>2, <4>1, LoneAtWork DEF TypeInv, TypeOK
    <3>2. row' \in Row
      <4>1. CASE k = "swap_sessions"
        BY <2>2, <3>1, <4>1 DEF RowAfter, Row, Project
      <4>2. CASE k = "template_upgrade"
        BY <2>2, <3>1, <4>2 DEF RowAfter, Row, Project
      <4>3. CASE k \notin {"swap_sessions", "template_upgrade"}
        <5>1. row' = [row EXCEPT !.current = project.current]
          BY <2>2, <3>1, <4>3 DEF RowAfter
        <5> QED BY <3>1, <5>1 DEF Row, Project
      <4> QED BY <4>1, <4>2, <4>3
    <3> QED BY <3>2, NoneAssumption
  <2> QED BY <2>1, <2>2
<1>3. k = "create" => row' # None
  <2> SUFFICES ASSUME k = "create" PROVE row' # None
    OBVIOUS
  <2>1. project \in Project
    <3>1. req[t].pc # "idle" /\ ~Creates(req[t])
      BY <1>1 DEF Creates
    <3> QED BY <3>1, LoneAtWork
  <2>2. row' = [current |-> project.current, version |-> project.version,
                sessions |-> project.sessions]
    BY <1>1 DEF RowAfter
  <2>3. row' \in Row
    BY <2>1, <2>2 DEF Row, Project
  <2> QED BY <2>3, NoneAssumption
<1>4. row' = None => rows = {}
  BY <1>2, <1>3 DEF LoneInv
<1> QED BY <1>1, <1>4, AfterRowSits

(* A write of the history that ends the request.                           *)
LEMMA PersistEntrySits ==
  ASSUME TypeInv, LoneInv, [Next]_vars, NEW t, Threads = {t}, PersistEntry(t)
  PROVE  LoneInv'
<1> DEFINE q == req[t]
           p == PublishedNow(t)
           n == NewEntry(t)
           e == [n EXCEPT !.published = p]
<1>0. /\ t \in Threads /\ RequestOK(q, project, made) /\ q \in Request
      /\ Sits(q, project, row, rows, Gone) /\ Gone \subseteq Gone'
  BY LoneAtWork, GoneGrows
<1>1. /\ q.pc = "entry" /\ req' = [req EXCEPT ![t] = Idle]
      /\ UNCHANGED <<project, listed, row>>
      /\ \/ rows' = rows \cup {e} /\ row # None
         \/ rows' = rows
  BY DEF PersistEntry
<1>2. /\ project # None /\ Backed(project, rows, Gone)
  <2>1. q.pc # "idle" /\ ~Creates(q)
    BY <1>1 DEF Creates
  <2> QED BY <2>1, LoneAtWork
<1>3. e.seq = q.seq /\ e.job = q.job
  <2>1. p \in BOOLEAN
    BY DEF PublishedNow
  <2>2. /\ n \in [seq : {q.seq}, job : Jobs, overrides : Overrides,
                  published : BOOLEAN, kind : Kinds]
        /\ n.job = q.job /\ q.seq \in Nat
    BY <1>0, <1>1, Persisting, NewEntryFits
  <2> HIDE DEF p, n, q
  <2> QED BY <2>1, <2>2, EntrySet
<1>4. \E i \in DOMAIN project.history :
        project.history[i].seq = e.seq /\ project.history[i].job = e.job
  BY <1>0, <1>1, <1>3, Persisting DEF Sits, Writes
<1> HIDE DEF q, e
<1>5. Backed(project, rows', Gone')
  BY <1>0, <1>1, <1>2, <1>4 DEF Backed
<1>6. Sits(Idle, project, row', rows', Gone')
  BY IdleSits
<1>7. row' = None => rows' = {}
  BY <1>1 DEF LoneInv
<1> QED BY <1>1, <1>2, <1>5, <1>6, <1>7, LoneTableStep

(* PersistReplace, in terms that the next lemmas share.                    *)
LEMMA Replaces ==
  ASSUME TypeInv, NEW t \in Threads, PersistReplace(t)
  PROVE  \E f \in [rows -> Entry] :
           /\ rows' = {f[h] : h \in rows}
           /\ \A h \in rows :
                IF h.seq = req[t].seq
                THEN /\ f[h].seq = h.seq /\ f[h].job = req[t].job
                     /\ f[h].overrides = req[t].overrides
                     /\ f[h].published = PublishedNow(t)
                ELSE f[h] = h
<1> DEFINE p == PublishedNow(t)
           q == req[t]
           new(h) == [h EXCEPT !.job = q.job, !.overrides = q.overrides, !.published = p]
           f == [h \in rows |-> IF h.seq = q.seq THEN new(h) ELSE h]
<1>1. q.pc = "entry" /\ rows' = {f[h] : h \in rows}
  BY DEF PersistReplace
<1>2. p \in BOOLEAN /\ q.job \in Jobs /\ q.overrides \in Overrides
  BY <1>1, Persisting DEF PublishedNow, Request
<1>3. \A h \in rows : h \in Entry
  BY DEF TypeInv, TypeOK
<1>4. ASSUME NEW h \in rows
      PROVE  /\ new(h) \in Entry /\ new(h).seq = h.seq /\ new(h).job = q.job
             /\ new(h).overrides = q.overrides /\ new(h).published = p
  <2> DEFINE a == [h EXCEPT !.job = q.job]
             b == [a EXCEPT !.overrides = q.overrides]
             c == [b EXCEPT !.published = p]
  <2> HIDE DEF p, q
  <2>1. a \in Entry /\ a.seq = h.seq /\ a.job = q.job
    BY <1>2, <1>3 DEF Entry
  <2>2. new(h) = c
    OBVIOUS
  <2> HIDE DEF a
  <2>3. b \in Entry /\ b.seq = h.seq /\ b.job = q.job /\ b.overrides = q.overrides
    BY <1>2, <2>1 DEF Entry
  <2> HIDE DEF b
  <2>4. c \in Entry /\ c.seq = h.seq /\ c.job = q.job /\ c.overrides = q.overrides
        /\ c.published = p
    BY <1>2, <2>3 DEF Entry
  <2> QED BY <2>2, <2>4
<1> HIDE DEF q, new, p
<1>5. f \in [rows -> Entry]
  BY <1>3, <1>4
<1>6. \A h \in rows :
        IF h.seq = q.seq
        THEN /\ f[h].seq = h.seq /\ f[h].job = q.job
             /\ f[h].overrides = q.overrides /\ f[h].published = p
        ELSE f[h] = h
  BY <1>4
<1> HIDE DEF f
<1> QED BY <1>1, <1>5, <1>6 DEF q, p

LEMMA PersistReplaceSits ==
  ASSUME TypeInv, LoneInv, [Next]_vars, NEW t, Threads = {t}, PersistReplace(t)
  PROVE  LoneInv'
<1> DEFINE q == req[t]
<1>0. /\ t \in Threads /\ RequestOK(q, project, made) /\ q \in Request
      /\ Sits(q, project, row, rows, Gone) /\ Gone \subseteq Gone'
  BY LoneAtWork, GoneGrows
<1>1. /\ q.pc = "entry" /\ req' = [req EXCEPT ![t] = Idle]
      /\ UNCHANGED <<project, listed, row>>
  BY DEF PersistReplace
<1>2. /\ project # None /\ Backed(project, rows, Gone)
  <2>1. q.pc # "idle" /\ ~Creates(q)
    BY <1>1 DEF Creates
  <2> QED BY <2>1, LoneAtWork
<1>3. PICK f \in [rows -> Entry] :
        /\ rows' = {f[h] : h \in rows}
        /\ \A h \in rows :
             IF h.seq = q.seq THEN f[h].seq = h.seq /\ f[h].job = q.job ELSE f[h] = h
  BY <1>0, Replaces
<1>4. PICK i \in DOMAIN project.history :
        project.history[i].seq = q.seq /\ project.history[i].job = q.job
  BY <1>0, <1>1, Persisting DEF Sits, Writes
<1> HIDE DEF q
<1>5. Backed(project, rows', Gone')
  <2>1. ASSUME NEW h \in rows
        PROVE  \E k \in DOMAIN project.history :
                 /\ project.history[k].seq = f[h].seq
                 /\ project.history[k].job = f[h].job \/ f[h].job \in Gone'
    BY <1>0, <1>2, <1>3, <1>4 DEF Backed
  <2> QED BY <1>3, <2>1 DEF Backed
<1>6. Sits(Idle, project, row', rows', Gone')
  BY IdleSits
<1>7. row' = None => rows' = {}
  BY <1>1, <1>3 DEF LoneInv
<1> QED BY <1>1, <1>2, <1>5, <1>6, <1>7, LoneTableStep

LEMMA Flags ==
  ASSUME TypeInv, NEW t \in Threads, PersistFlag(t)
  PROVE  \E f \in [rows -> Entry] :
           /\ rows' = {f[h] : h \in rows}
           /\ \A h \in rows :
                /\ f[h].seq = h.seq /\ f[h].job = h.job /\ f[h].overrides = h.overrides
                /\ f[h].published = IF h.seq = req[t].seq THEN req[t].published
                                                          ELSE h.published
<1> DEFINE q == req[t]
           f == [h \in rows |-> IF h.seq = q.seq THEN [h EXCEPT !.published = q.published]
                                                 ELSE h]
<1>1. rows' = {f[h] : h \in rows}
  BY DEF PersistFlag
<1>2. \A h \in rows : h \in Entry
  BY DEF TypeInv, TypeOK
<1>3. q.published \in BOOLEAN
  <2>1. q \in Request
    BY DEF TypeInv, RequestsOK, RequestOK
  <2> HIDE DEF q
  <2> QED BY <2>1 DEF Request
<1> HIDE DEF q
<1>4. \A h \in rows :
        /\ f[h] \in Entry
        /\ f[h].seq = h.seq /\ f[h].job = h.job /\ f[h].overrides = h.overrides
        /\ f[h].published = IF h.seq = q.seq THEN q.published ELSE h.published
  BY <1>2, <1>3 DEF Entry
<1>5. f \in [rows -> Entry]
  BY <1>4
<1> HIDE DEF f
<1> QED BY <1>1, <1>4, <1>5 DEF q

LEMMA PersistFlagSits ==
  ASSUME TypeInv, LoneInv, [Next]_vars, NEW t, Threads = {t}, PersistFlag(t)
  PROVE  LoneInv'
<1> DEFINE q == req[t]
           r == [q EXCEPT !.pc = "row"]
<1>0. /\ t \in Threads /\ RequestOK(q, project, made) /\ q \in Request
      /\ Sits(q, project, row, rows, Gone) /\ Gone \subseteq Gone'
  BY LoneAtWork, GoneGrows
<1>1. /\ q.pc = "flag" /\ req' = [req EXCEPT ![t] = r]
      /\ UNCHANGED <<project, listed, row>>
  BY DEF PersistFlag, Goto
<1>2. /\ project # None /\ Backed(project, rows, Gone) /\ q.kind = "published"
  <2>1. q.pc # "idle" /\ ~Creates(q)
    BY <1>1 DEF Creates
  <2> QED BY <1>0, <1>1, <2>1, LoneAtWork DEF RequestOK
<1>4. PICK f \in [rows -> Entry] :
        /\ rows' = {f[h] : h \in rows}
        /\ \A h \in rows : f[h].seq = h.seq /\ f[h].job = h.job
  BY <1>0, Flags
<1> HIDE DEF q
<1>5. Backed(project, rows', Gone')
  BY <1>0, <1>1, <1>2, <1>4 DEF Backed
<1>6. r.pc = "row" /\ r.kind = q.kind /\ r.collapse = q.collapse
  BY <1>0 DEF Request
<1> HIDE DEF r
<1>7. Sits(r, project, row', rows', Gone')
  BY <1>0, <1>1, <1>2, <1>6 DEF Sits, Supersedes, Writes, Submits
<1>8. row' = None => rows' = {}
  BY <1>1, <1>4 DEF LoneInv
<1> QED BY <1>1, <1>2, <1>5, <1>7, <1>8, LoneTableStep

LEMMA FailsSits ==
  ASSUME TypeInv, LoneInv, [Next]_vars, NEW t, Threads = {t}, WriteFails(t) \/ SubmitFails(t)
  PROVE  LoneInv'
<1>1. UNCHANGED <<project, listed, row, rows>>
  BY DEF WriteFails, SubmitFails, disk
<1>2. CASE req[t].pc = "row" /\ AfterRow(t)
  BY <1>1, <1>2, AfterRowSits DEF LoneInv
<1>3. CASE req' = [req EXCEPT ![t] = Idle]
  BY <1>1, <1>3, EndSits
<1>4. CASE req[t].pc = "flag" /\ Goto(t, "row")
  <2> DEFINE q == req[t]
             r == [q EXCEPT !.pc = "row"]
  <2>1. q.pc = "flag" /\ req' = [req EXCEPT ![t] = r]
    BY <1>4 DEF Goto
  <2>2. /\ q \in Request /\ q.kind = "published" /\ Sits(q, project, row, rows, Gone)
    BY <2>1, LoneAtWork DEF RequestOK
  <2> HIDE DEF q
  <2>3. r.pc = "row" /\ r.kind = q.kind /\ r.collapse = q.collapse
    BY <2>2 DEF Request
  <2> HIDE DEF r
  <2>4. Sits(r, project, row, rows, Gone')
    BY <2>1, <2>2, <2>3 DEF Sits, Supersedes, Writes, Submits
  <2> QED BY <1>1, <2>1, <2>4, LoneRequestStep
<1> QED BY <1>2, <1>3, <1>4 DEF WriteFails, SubmitFails

LEMMA DeleteSits ==
  ASSUME TypeInv, LoneInv, [Next]_vars, NEW t, Threads = {t}, DeleteRow(t) \/ Forget(t)
  PROVE  LoneInv'
<1> DEFINE q == req[t]
<1>0. /\ t \in Threads /\ q \in Request /\ Sits(q, project, row, rows, Gone)
  BY LoneAtWork
<1>1. CASE DeleteRow(t)
  <2> DEFINE r == [q EXCEPT !.pc = "forget"]
  <2>1. /\ q.pc = "cancelall" /\ req' = [req EXCEPT ![t] = r]
        /\ row' = None /\ rows' = {} /\ UNCHANGED <<project, listed>>
    BY <1>1 DEF DeleteRow, Goto
  <2>2. project # None
    <3>1. q.pc # "idle" /\ ~Creates(q)
      BY <2>1 DEF Creates
    <3> QED BY <3>1, LoneAtWork
  <2> HIDE DEF q
  <2>3. r.pc = "forget" /\ r.kind = q.kind /\ r.collapse = q.collapse
    BY <1>0 DEF Request
  <2> HIDE DEF r
  <2>4. Sits(r, project, row', rows', Gone')
    BY <1>0, <2>1, <2>3 DEF Sits, Supersedes, Writes
  <2>5. Backed(project, rows', Gone')
    BY <2>1 DEF Backed
  <2> QED BY <2>1, <2>2, <2>4, <2>5, LoneTableStep
<1>2. CASE Forget(t)
  <2>1. /\ q.pc = "forget" /\ req' = [req EXCEPT ![t] = Idle]
        /\ project' = None /\ listed' = FALSE /\ UNCHANGED <<row, rows>>
    BY <1>2 DEF Forget, disk
  <2>2. row = None /\ rows = {}
    BY <1>0, <2>1 DEF Sits, LoneInv
  <2>3. Sits(Idle, project', row', rows', Gone')
    BY IdleSits
  <2> QED BY <2>1, <2>2, <2>3, LoneStep
<1> QED BY <1>1, <1>2

LEMMA SettlesSits ==
  ASSUME TypeInv, LoneInv, [Next]_vars, NEW t, Threads = {t},
         UNCHANGED <<project, listed, row, rows, req>>
  PROVE  LoneInv'
<1>1. PICK G : G = Gone'
  OBVIOUS
<1>2. Gone \subseteq G
  BY <1>1, GoneGrows
<1>3. \A u \in Threads : Sits(req[u], project, row, rows, G)
  <2>1. ASSUME NEW u \in Threads, NEW r, r = req[u] PROVE Sits(r, project, row, rows, G)
    <3>1. Sits(r, project, row, rows, Gone)
      BY <2>1 DEF LoneInv
    <3> QED BY <1>2, <3>1 DEF Sits
  <2> QED BY <2>1
<1>4. ASSUME project # None PROVE Apart(project) /\ Backed(project, rows, G)
  <2>1. Apart(project) /\ Backed(project, rows, Gone)
    BY <1>4 DEF LoneInv
  <2> QED BY <1>2, <2>1 DEF Backed
<1> QED BY <1>1, <1>3, <1>4, Zenon DEF LoneInv

LEMMA RestartSits ==
  ASSUME TypeInv, LoneInv, [Next]_vars, NEW t, Threads = {t}, Restart
  PROVE  LoneInv'
<1>1. /\ project' = Rehydrated /\ listed' = (row # None)
      /\ req' = [req EXCEPT ![t] = Idle] /\ UNCHANGED <<row, rows>>
  <2>1. req' = [u \in Threads |-> Idle] /\ DOMAIN req = {t}
    BY DEF Restart, TypeInv, RequestsOK
  <2> QED BY <2>1 DEF Restart, disk
<1>2. Sits(Idle, project', row', rows', Gone')
  BY IdleSits
<1>3. row' = None => rows' = {}
  BY <1>1 DEF LoneInv
<1>4. CASE row = None
  <2>1. project' = None /\ ~listed'
    BY <1>1, <1>4 DEF Rehydrated
  <2> QED BY <1>1, <1>2, <1>3, <1>4, <2>1, LoneStep
<1>5. CASE row # None
  <2>1. PICK p \in Project :
          /\ p = Rehydrated /\ p # None
          /\ \A i \in DOMAIN p.history :
               /\ p.history[i] \in rows
               /\ Cardinality({k \in rows : k.seq < p.history[i].seq}) = i - 1
          /\ \A h \in rows : \E i \in DOMAIN p.history : p.history[i] = h
    BY <1>5, RehydratedIsRows
  <2>2. Apart(p)
    <3>1. \A i \in DOMAIN p.history : i \in Nat
      BY ProjectShape
    <3>2. ASSUME NEW i \in DOMAIN p.history, NEW k \in DOMAIN p.history,
                 p.history[i].seq = p.history[k].seq
          PROVE  i = k
      <4>1. i - 1 = k - 1
        BY <2>1, <3>2
      <4> QED BY <3>1, <4>1
    <3> QED BY <3>2 DEF Apart
  <2>3. Backed(p, rows, Gone')
    BY <2>1 DEF Backed
  <2>4. project' # None /\ listed' /\ Apart(project') /\ Backed(project', rows', Gone')
    BY <1>1, <1>5, <2>1, <2>2, <2>3
  <2> QED BY <1>1, <1>2, <1>3, <2>4, LoneStep
<1> QED BY <1>4, <1>5

LEMMA LoneInvStep == Lone /\ TypeInv /\ LoneInv /\ [Next]_vars => LoneInv'
<1> SUFFICES ASSUME Lone, TypeInv, LoneInv, [Next]_vars PROVE LoneInv'
  OBVIOUS
<1>0. PICK t : t \in Threads /\ Threads = {t}
  BY DEF Lone
<1>1. CASE Edit(t)
  BY <1>0, <1>1, EditSits
<1>2. CASE Point(t) \/ Delete(t)
  BY <1>0, <1>2, PointSits
<1>3. CASE Serve(t)
  <2>1. CASE ReadStatus(t) \/ CancelPrev(t)
    BY <1>0, <2>1, CancelSits
  <2>2. CASE WriteFails(t) \/ SubmitFails(t)
    BY <1>0, <2>2, FailsSits
  <2>3. CASE (\E j \in Jobs : Submit(t, j)) \/ PickSeq(t) \/ (\E j \in Jobs : DeleteCancels(t, j))
    BY <1>0, <2>3, SubmitSits
  <2>4. CASE DeleteRow(t) \/ Forget(t)
    BY <1>0, <2>4, DeleteSits
  <2>5. CASE Built(t)
    BY <1>0, <2>5, BuiltSits
  <2>6. CASE Replace(t)
    BY <1>0, <2>6, ReplaceSits
  <2>7. CASE AppendEntry(t)
    BY <1>0, <2>7, AppendSits
  <2>8. CASE PersistRow(t)
    BY <1>0, <2>8, PersistRowSits
  <2>9. CASE PersistEntry(t)
    BY <1>0, <2>9, PersistEntrySits
  <2>10. CASE PersistReplace(t)
    BY <1>0, <2>10, PersistReplaceSits
  <2>11. CASE PersistFlag(t)
    BY <1>0, <2>11, PersistFlagSits
  <2> QED BY <1>3, <2>1, <2>2, <2>3, <2>4, <2>5, <2>6, <2>7, <2>8, <2>9, <2>10, <2>11
          DEF Serve
<1>4. ASSUME NEW j \in Jobs, NEW o \in Outcomes, WorkerSettles(j, o) PROVE LoneInv'
  BY <1>0, <1>4, SettlesSits DEF WorkerSettles, disk
<1>5. CASE Restart
  BY <1>0, <1>5, RestartSits
<1>6. CASE UNCHANGED vars
  BY <1>0, <1>6, SettlesSits DEF vars, disk
<1> QED BY <1>0, <1>1, <1>2, <1>3, <1>4, <1>5, <1>6 DEF Next

LEMMA LoneInvHolds == Lone => (Spec => [](TypeInv /\ LoneInv))
<1> SUFFICES ASSUME Lone PROVE Spec => [](TypeInv /\ LoneInv)
  OBVIOUS
<1>1. Init => LoneInv
  <2> SUFFICES ASSUME Init PROVE LoneInv
    OBVIOUS
  <2>1. \A t \in Threads : Sits(req[t], project, row, rows, Gone)
    BY IdleSits DEF Init
  <2> QED BY <2>1 DEF Init, LoneInv
<1>2. TypeInv /\ LoneInv /\ [Next]_vars => LoneInv'
  BY LoneInvStep
<1> QED BY <1>1, <1>2, TypeInvHolds, PTL DEF Spec

-----------------------------------------------------------------------------
(* A row of the history is only given another job when the one it had was  *)
(* given up, whatever fails: it names the job of the entry that an edit    *)
(* collapses into, or one that was given up before.                        *)
THEOREM SettledRowsKept == Lone => (Spec => SettledRowsAreKept)
<1> SUFFICES ASSUME Lone PROVE Spec => SettledRowsAreKept
  OBVIOUS
<1>0. PICK t : t \in Threads /\ Threads = {t}
  BY DEF Lone
<1>1. ASSUME TypeInv, LoneInv, [Next]_vars,
             NEW h \in rows, row' # None, \A k \in rows' : k.seq = h.seq => k.job # h.job
      PROVE  cancelled[h.job] \/ status[h.job] = "interrupted"
  <2>0. h.seq \in Nat /\ h.job \in Jobs
    BY <1>1 DEF TypeInv, TypeOK, Entry
  <2>1. CASE PersistReplace(t)
    <3> DEFINE r == req[t]
    <3>1. /\ r.pc = "entry" /\ r.collapse /\ r \in Request
          /\ Sits(r, project, row, rows, Gone)
      BY <1>0, <1>1, <2>1, LoneAtWork DEF PersistReplace
    <3>2. r.kind = "edit" /\ Writes(r)
      BY <3>1 DEF Sits, Writes, Submits
    <3>3. PICK i \in DOMAIN project.history :
            project.history[i].seq = r.seq /\ project.history[i].job = r.job
      BY <3>1, <3>2 DEF Sits
    <3>4. h.seq = r.seq /\ h.job # r.job
      <4>1. PICK f \in [rows -> Entry] :
              /\ rows' = {f[k] : k \in rows}
              /\ \A k \in rows :
                   IF k.seq = r.seq THEN f[k].seq = k.seq /\ f[k].job = r.job
                                    ELSE f[k] = k
        BY <1>0, <1>1, <2>1, Replaces
      <4>2. f[h] \in rows' /\ f[h].seq = h.seq
        BY <1>1, <4>1
      <4> QED BY <1>1, <4>1, <4>2
    <3>5. project # None
      BY <1>1 DEF LoneInv
    <3>6. PICK k \in DOMAIN project.history :
            /\ project.history[k].seq = h.seq
            /\ project.history[k].job = h.job \/ h.job \in Gone
      BY <1>1, <3>5 DEF LoneInv, Backed
    <3>7. k = i
      BY <1>1, <3>3, <3>4, <3>5, <3>6 DEF LoneInv, Apart
    <3> QED BY <3>3, <3>4, <3>6, <3>7 DEF Gone
  <2>2. CASE ~PersistReplace(t)
    <3>1. row' = None \/ rows' = rows \/ (\E e : rows' = rows \cup {e}) \/ PersistFlag(t)
      <4>1. CASE Edit(t) \/ Point(t) \/ Delete(t)
        BY <4>1 DEF Edit, Create, Patch, SwapSessions, UpgradeTemplate, Point, Revert,
                    SetPublished, Delete, disk
      <4>2. CASE Serve(t)
        <5>1. CASE \/ ReadStatus(t) \/ CancelPrev(t) \/ SubmitFails(t)
                   \/ \E j \in Jobs : Submit(t, j) \/ DeleteCancels(t, j)
                   \/ Built(t) \/ Replace(t)
          BY <5>1 DEF ReadStatus, CancelPrev, SubmitFails, Submit, DeleteCancels, Built,
                      Replace, disk
        <5>2. CASE \/ PickSeq(t) \/ AppendEntry(t) \/ PersistRow(t) \/ WriteFails(t)
                   \/ DeleteRow(t) \/ Forget(t)
          BY <5>2 DEF PickSeq, AppendEntry, PersistRow, WriteFails, DeleteRow, Forget, disk
        <5>3. CASE PersistEntry(t)
          BY <5>3 DEF PersistEntry
        <5> QED BY <2>2, <4>2, <5>1, <5>2, <5>3 DEF Serve
      <4>3. CASE UNCHANGED vars \/ Restart \/ \E j \in Jobs, o \in Outcomes : WorkerSettles(j, o)
        BY <4>3 DEF WorkerSettles, Restart, vars, disk
      <4> QED BY <1>0, <1>1, <4>1, <4>2, <4>3 DEF Next
    <3>2. CASE PersistFlag(t)
      <4>1. \E k \in rows' : k.seq = h.seq /\ k.job = h.job
        BY <1>0, <1>1, <3>2, Flags
      <4> QED BY <1>1, <4>1
    <3> QED BY <1>1, <3>1, <3>2
  <2> QED BY <2>1, <2>2
<1>2. TypeInv /\ LoneInv /\ [Next]_vars
        => [\A h \in rows :
              row' # None /\ (\A k \in rows' : k.seq = h.seq => k.job # h.job)
                => cancelled[h.job] \/ status[h.job] = "interrupted"]_vars
  BY <1>1
<1> QED BY <1>2, LoneInvHolds, PTL DEF Spec, SettledRowsAreKept

-----------------------------------------------------------------------------
(* SoundInv: one request at a time, as long as nothing is lost.            *)

LEMMA TornStays == ASSUME [Next]_vars, ~torn' PROVE ~torn
<1>1. ASSUME NEW t \in Threads, Edit(t) \/ Point(t) \/ Delete(t) PROVE UNCHANGED torn
  BY <1>1 DEF Edit, Point, Delete, Create, Patch, SwapSessions, UpgradeTemplate, Revert,
              SetPublished
<1>2. ASSUME NEW t \in Threads, Serve(t) PROVE torn' = torn \/ torn' = TRUE
  BY <1>2 DEF Serve, ReadStatus, CancelPrev, Submit, DeleteCancels, SubmitFails, Built,
              Replace, PickSeq, AppendEntry, PersistRow, PersistEntry, PersistReplace,
              PersistFlag, WriteFails, DeleteRow, Forget
<1>3. ASSUME NEW j \in Jobs, NEW o \in Outcomes, WorkerSettles(j, o) PROVE UNCHANGED torn
  BY <1>3 DEF WorkerSettles
<1>4. Restart \/ UNCHANGED vars => torn' = torn \/ torn' = (torn \/ ~Quiet)
  BY DEF Restart, vars
<1> QED BY <1>1, <1>2, <1>3, <1>4 DEF Next

LEMMA SameJobs == ASSUME UNCHANGED <<status, cancelled>> PROVE Pending' = Pending
BY DEF Pending, Live

LEMMA SoundAtWork ==
  ASSUME TypeInv, LoneInv, SoundInv, ~torn, NEW t, Threads = {t}
  PROVE  Sound(req[t], project, row, rows, Pending)
BY DEF SoundInv

LEMMA SoundStep ==
  ASSUME TypeInv, NEW t, Threads = {t}, NEW r, req' = [req EXCEPT ![t] = r],
         Sound(r, project', row', rows', Pending')
  PROVE  SoundInv'
<1>1. req'[t] = r
  BY DEF TypeInv, RequestsOK
<1> QED BY <1>1 DEF SoundInv

LEMMA ShownStays ==
  ASSUME NEW q, NEW r, NEW p, NEW j, Shown(q, p, j),
         r.pc \notin {"forget", "cancelall"},
         q.pc \in {"apply", "append"} => r.pc \in {"apply", "append"} /\ r.job = q.job
  PROVE  Shown(r, p, j)
BY DEF Shown

(* A step that leaves the object and the tables alone, while all they      *)
(* disagree about is a column of the row.                                  *)
Settled == {"idle", "status", "cancel", "submit", "apply", "append", "cancelall"}

LEMMA SoundRequestStep ==
  ASSUME TypeInv, LoneInv, SoundInv, ~torn, NEW t, Threads = {t}, NEW r,
         req' = [req EXCEPT ![t] = r], UNCHANGED <<project, row, rows>>,
         req[t].pc \in Settled, r.pc \in Settled,
         RowLags(req[t]) => RowLags(r) /\ r.kind = req[t].kind,
         r.pc = "append" => r.seq = Len(project.history),
         \A j \in Pending' : Shown(r, project, j)
  PROVE  SoundInv'
<1> DEFINE q == req[t]
<1>1. Sound(q, project, row, rows, Pending)
  BY SoundAtWork
<1> HIDE DEF q
<1>2. ASSUME project # None PROVE Agrees(r, project, row, rows)
  <2>1. Agrees(q, project, row, rows)
    BY <1>1, <1>2 DEF Sound, Settled, q
  <2> QED BY <2>1 DEF Agrees, EntryLags, Writes, RowLags, Settled, q
<1>3. Sound(r, project, row, rows, Pending')
  BY <1>1, <1>2 DEF Sound
<1> QED BY <1>3, SoundStep

LEMMA EditSound ==
  ASSUME TypeInv, LoneInv, SoundInv, ~torn, NEW t, Threads = {t}, Edit(t)
  PROVE  SoundInv'
<1> DEFINE q == req[t]
<1>1. ASSUME NEW r, req' = [req EXCEPT ![t] = r], UNCHANGED <<project, row, rows, queue>>,
             q.pc = "idle", r.pc \in {"status", "cancel", "submit"}
      PROVE  SoundInv'
  <2>1. Pending' = Pending
    BY <1>1, SameJobs DEF queue
  <2>2. \A j \in Pending : Shown(q, project, j)
    BY SoundAtWork DEF Sound
  <2>3. \A j \in Pending' : Shown(r, project, j)
    BY <1>1, <2>1, <2>2, ShownStays
  <2>4. q.pc \in Settled /\ r.pc \in Settled /\ ~RowLags(q) /\ r.pc # "append"
    BY <1>1 DEF Settled, RowLags
  <2> QED BY <1>1, <2>3, <2>4, SoundRequestStep
<1>2. ASSUME NEW s \in Sessions, NEW o \in Overrides, Create(t, s, o) PROVE SoundInv'
  <2> DEFINE r == [Idle EXCEPT !.pc = "submit", !.kind = "create",
                               !.sessions = s, !.version = 1, !.overrides = o]
  <2>1. req' = [req EXCEPT ![t] = r] /\ q.pc = "idle"
        /\ UNCHANGED <<project, row, rows, queue>>
    BY <1>2 DEF Create, disk
  <2>2. r.pc = "submit"
    BY DEF Idle
  <2> HIDE DEF r, q
  <2> QED BY <1>1, <2>1, <2>2
<1>3. ASSUME NEW set \in Overrides, NEW reset \in Overrides, Patch(t, set, reset)
      PROVE  SoundInv'
  <2> DEFINE o == Merged(Current(project).overrides, set, reset)
             r == [Idle EXCEPT !.pc = "status", !.kind = "edit", !.prev = Current(project),
                               !.overrides = o]
  <2>1. req' = [req EXCEPT ![t] = r] /\ q.pc = "idle"
        /\ UNCHANGED <<project, row, rows, queue>>
    BY <1>3 DEF Patch, disk
  <2> HIDE DEF o
  <2>2. r.pc = "status"
    BY DEF Idle
  <2> HIDE DEF r, q
  <2> QED BY <1>1, <2>1, <2>2
<1>4. ASSUME NEW s \in Sessions, NEW o \in Overrides, NEW render \in BOOLEAN,
             SwapSessions(t, s, o, render)
      PROVE  SoundInv'
  <2> DEFINE x == Merged(o, Current(project).overrides, {})
             r == [Idle EXCEPT !.pc = "cancel", !.kind = "swap_sessions",
                    !.prev = Current(project), !.sessions = s, !.render = render,
                    !.overrides = x]
  <2>1. req' = [req EXCEPT ![t] = r] /\ q.pc = "idle"
        /\ UNCHANGED <<project, row, rows, queue>>
    BY <1>4 DEF SwapSessions, disk
  <2> HIDE DEF x
  <2>2. r.pc = "cancel"
    BY DEF Idle
  <2> HIDE DEF r, q
  <2> QED BY <1>1, <2>1, <2>2
<1>5. ASSUME NEW v \in Versions, UpgradeTemplate(t, v)
      PROVE  SoundInv'
  <2> DEFINE x == Migrated(Current(project).overrides, v)
             r == [Idle EXCEPT !.pc = "cancel", !.kind = "template_upgrade",
                    !.prev = Current(project), !.version = v, !.overrides = x]
  <2>1. req' = [req EXCEPT ![t] = r] /\ q.pc = "idle"
        /\ UNCHANGED <<project, row, rows, queue>>
    BY <1>5 DEF UpgradeTemplate, disk
  <2> HIDE DEF x
  <2>2. r.pc = "cancel"
    BY DEF Idle
  <2> HIDE DEF r, q
  <2> QED BY <1>1, <2>1, <2>2
<1> QED BY <1>2, <1>3, <1>4, <1>5 DEF Edit

LEMMA DeleteSound ==
  ASSUME TypeInv, LoneInv, SoundInv, ~torn, NEW t, Threads = {t}, Delete(t)
  PROVE  SoundInv'
<1> DEFINE q == req[t]
           todo == {project.history[i].job : i \in DOMAIN project.history}
           r == [Idle EXCEPT !.pc = "cancelall", !.kind = "delete", !.todo = todo]
<1>1. /\ req' = [req EXCEPT ![t] = r] /\ q.pc = "idle"
      /\ UNCHANGED <<project, row, rows, queue>>
  BY DEF Delete, disk
<1>2. \A i \in DOMAIN project.history : project.history[i].job \in todo
  OBVIOUS
<1> HIDE DEF todo
<1>3. r.pc = "cancelall" /\ r.todo = todo
  BY DEF Idle
<1>4. Pending' = Pending
  BY <1>1, SameJobs DEF queue
<1>5. \A j \in Pending : Shown(q, project, j)
  BY SoundAtWork DEF Sound
<1> HIDE DEF r, q
<1>6. \A j \in Pending' : Shown(r, project, j)
  BY <1>1, <1>2, <1>3, <1>4, <1>5 DEF Shown
<1> QED BY <1>1, <1>3, <1>6, SoundRequestStep DEF Settled, RowLags, q

LEMMA CancelSound ==
  ASSUME TypeInv, LoneInv, SoundInv, ~torn, NEW t, Threads = {t},
         ReadStatus(t) \/ CancelPrev(t)
  PROVE  SoundInv'
<1> DEFINE q == req[t]
<1>0. /\ t \in Threads /\ RequestOK(q, project, made) /\ q \in Request
      /\ Sound(q, project, row, rows, Pending)
  BY LoneAtWork, SoundAtWork
<1>1. CASE ReadStatus(t)
  <2> DEFINE r == [q EXCEPT !.pc = "cancel", !.collapse = Collapses(t)]
  <2>1. /\ q.pc = "status" /\ UNCHANGED <<project, row, rows, queue>>
        /\ req' = [req EXCEPT ![t] = r]
    BY <1>1 DEF ReadStatus, disk
  <2>2. Pending' = Pending
    BY <2>1, SameJobs DEF queue
  <2> HIDE DEF q
  <2>3. r.pc = "cancel"
    BY <1>0 DEF Request
  <2> HIDE DEF r
  <2>4. \A j \in Pending' : Shown(r, project, j)
    BY <1>0, <2>1, <2>2, <2>3, ShownStays DEF Sound
  <2> QED BY <2>1, <2>3, <2>4, SoundRequestStep DEF Settled, RowLags, q
<1>2. CASE CancelPrev(t)
  <2> DEFINE b == q.kind = "edit" /\ (q.collapse \/ Live(q.prev.job))
             pc == IF q.render THEN "submit" ELSE "apply"
             r == [q EXCEPT !.collapse = b, !.job = EntryJob(q), !.pc = pc]
  <2>1. /\ q.pc = "cancel" /\ cancelled' = Cancelled(q.prev.job)
        /\ UNCHANGED <<listed, row, rows, status>>
        /\ req' = [req EXCEPT ![t] = r]
    BY <1>2 DEF CancelPrev, disk
  <2>2. q.kind \in Kinds /\ ~Creates(q) /\ q.prev.job \in Jobs
    BY <1>0, <2>1 DEF RequestOK, Creates, Supersedes, Entry, Kinds
  <2>3. project \in Project /\ project # None
    BY <2>1, <2>2, LoneAtWork
  <2>4. /\ project'.history = project.history /\ project'.current = project.current
        /\ project'.sessions # project.sessions => q.kind = "swap_sessions"
        /\ project'.version # project.version => q.kind = "template_upgrade"
    <3>1. /\ q.kind = "edit" => project' = project
          /\ q.kind = "swap_sessions" => project' = [project EXCEPT !.sessions = q.sessions]
          /\ q.kind = "template_upgrade" => project' = [project EXCEPT !.version = q.version]
      BY <1>2 DEF CancelPrev
    <3> HIDE DEF q
    <3> QED BY <2>2, <2>3, <3>1 DEF Kinds, Project
  <2>5. Pending' \subseteq Pending
    BY <2>1, <2>2 DEF Pending, Live, Cancelled, TypeInv, TypeOK
  <2> HIDE DEF q
  <2>6. r.pc \in {"submit", "apply"} /\ r.kind = q.kind /\ (r.collapse => b)
    <3>1. pc \in {"submit", "apply"}
      OBVIOUS
    <3> HIDE DEF pc, b
    <3> QED BY <1>0, <3>1 DEF Request
  <2> HIDE DEF r, b
  <2>7. Agrees(q, project, row, rows) /\ Linear(project)
    BY <1>0, <2>1, <2>3 DEF Sound
  <2>8. Agrees(r, project', row, rows) /\ Linear(project')
    BY <2>1, <2>2, <2>4, <2>6, <2>7
       DEF Agrees, Linear, EntryLags, Writes, RowLags, Kinds
  <2>9. \A j \in Pending' : Shown(r, project, j)
    BY <1>0, <2>1, <2>5, <2>6, ShownStays DEF Sound
  <2>10. \A j \in Pending' : Shown(r, project', j)
    <3>1. project' # None
      <4>1. TypeInv'
        BY <1>2, CancelPrevTyped
      <4>2. req'[t] = r /\ RequestOK(req'[t], project', made')
        BY <1>0, <2>1, <4>1 DEF TypeInv, RequestsOK
      <4> QED BY <2>2, <2>6, <4>2 DEF RequestOK, Creates, Busy, Kinds
    <3> QED BY <2>4, <2>9, <3>1 DEF Shown
  <2>11. Sound(r, project', row', rows', Pending')
    BY <2>1, <2>6, <2>8, <2>10 DEF Sound
  <2> QED BY <2>1, <2>11, SoundStep
<1> QED BY <1>1, <1>2

LEMMA SubmitSound ==
  ASSUME TypeInv, LoneInv, SoundInv, ~torn, NEW t, Threads = {t},
         (\E j \in Jobs : Submit(t, j)) \/ PickSeq(t)
           \/ (\E j \in Jobs : DeleteCancels(t, j))
  PROVE  SoundInv'
<1> DEFINE q == req[t]
<1>0. /\ t \in Threads /\ RequestOK(q, project, made) /\ q \in Request
      /\ Sound(q, project, row, rows, Pending)
  BY LoneAtWork, SoundAtWork
<1>1. ASSUME NEW j \in Jobs, Submit(t, j) PROVE SoundInv'
  <2> DEFINE r == [q EXCEPT !.pc = "apply", !.job = j]
  <2>1. /\ q.pc = "submit" /\ UNCHANGED <<project, row, rows, cancelled>>
        /\ req' = [req EXCEPT ![t] = r] /\ status' = [status EXCEPT ![j] = "live"]
    BY <1>1 DEF Submit, disk
  <2>2. Pending' \subseteq Pending \cup {j}
    BY <2>1 DEF Pending, Live, TypeInv, TypeOK
  <2> HIDE DEF q
  <2>3. r.pc = "apply" /\ r.kind = q.kind /\ r.job = j
    BY <1>0 DEF Request
  <2> HIDE DEF r
  <2>4. \A i \in Pending : Shown(r, project, i)
    BY <1>0, <2>1, <2>3, ShownStays DEF Sound
  <2>5. \A i \in Pending' : Shown(r, project, i)
    BY <2>2, <2>3, <2>4 DEF Shown
  <2> QED BY <2>1, <2>3, <2>5, SoundRequestStep DEF Settled, RowLags, q
<1>2. CASE PickSeq(t)
  <2> DEFINE n == NextSeq(project)
             r == [q EXCEPT !.pc = "append", !.seq = n]
  <2>1. /\ q.pc = "apply" /\ q.kind # "create"
        /\ UNCHANGED <<project, row, rows, queue>>
        /\ req' = [req EXCEPT ![t] = r]
    BY <1>2 DEF PickSeq, disk
  <2>2. project \in Project /\ project # None /\ project.history # <<>>
    BY <1>0, <2>1, LoneAtWork DEF RequestOK, Creates
  <2>3. n = Len(project.history)
    BY <1>0, <2>2, NextSeqOfLinear DEF Sound, Linear
  <2>4. Pending' = Pending
    BY <2>1, SameJobs DEF queue
  <2> HIDE DEF q, n
  <2>5. r.pc = "append" /\ r.kind = q.kind /\ r.job = q.job /\ r.seq = n
    BY <1>0 DEF Request
  <2> HIDE DEF r
  <2>6. \A i \in Pending' : Shown(r, project, i)
    BY <1>0, <2>1, <2>4, <2>5, ShownStays DEF Sound
  <2> QED BY <2>1, <2>3, <2>5, <2>6, SoundRequestStep DEF Settled, RowLags, q
<1>3. ASSUME NEW j \in Jobs, DeleteCancels(t, j) PROVE SoundInv'
  <2> DEFINE x == q.todo \ {j}
             r == [q EXCEPT !.todo = x]
  <2>1. /\ q.pc = "cancelall" /\ UNCHANGED <<project, row, rows, status>>
        /\ cancelled' = Cancelled(j) /\ req' = [req EXCEPT ![t] = r]
    BY <1>3 DEF DeleteCancels, disk
  <2>2. Pending' \subseteq Pending \ {j}
    BY <2>1 DEF Pending, Live, Cancelled, TypeInv, TypeOK
  <2> HIDE DEF q, x
  <2>3. r.pc = "cancelall" /\ r.todo = x
    BY <1>0, <2>1 DEF Request
  <2> HIDE DEF r
  <2>4. \A i \in Pending' : Shown(r, project, i)
    BY <1>0, <2>1, <2>2, <2>3 DEF Sound, Shown, x
  <2> QED BY <2>1, <2>3, <2>4, SoundRequestStep DEF Settled, RowLags, q
<1> QED BY <1>1, <1>2, <1>3

LEMMA RevertSound ==
  ASSUME TypeInv, LoneInv, SoundInv, ~torn, NEW t, Threads = {t},
         NEW seq \in 0 .. MaxSeq, Revert(t, seq)
  PROVE  SoundInv'
<1> DEFINE q == req[t]
           r == [Idle EXCEPT !.pc = "row", !.kind = "revert"]
<1>1. /\ q.pc = "idle" /\ req' = [req EXCEPT ![t] = r] /\ listed /\ Has(project, seq)
      /\ project' = [project EXCEPT !.current = seq]
      /\ UNCHANGED <<listed, row, rows, queue>>
  BY DEF Revert, disk
<1>2. r.pc = "row" /\ r.kind = "revert" /\ ~r.collapse
  BY DEF Idle
<1> HIDE DEF r
<1>3. project \in Project /\ project # None /\ seq \in Nat
  BY <1>1, ListedProject, ProjectAssumption
<1>4. PICK z : z = project'
  OBVIOUS
<1>5. /\ z \in Project /\ z.history = project.history /\ z.current = seq
      /\ z.version = project.version /\ z.sessions = project.sessions /\ z # None
  BY <1>1, <1>3, <1>4, CurrentReplaced, NoneAssumption
<1>6. Sound(q, project, row, rows, Pending) /\ Pending' = Pending
  BY <1>1, SoundAtWork, SameJobs DEF queue
<1> HIDE DEF q
<1>7. Linear(project) /\ Agrees(q, project, row, rows)
  BY <1>1, <1>3, <1>6 DEF Sound
<1>8. Linear(z)
  <2>1. PICK i \in DOMAIN project.history : project.history[i].seq = seq
    BY <1>1 DEF Has, Seqs
  <2>2. i \in 1 .. Len(project.history) /\ Len(project.history) \in Nat
    BY <1>3, <2>1, ProjectShape
  <2>3. seq = i - 1
    BY <1>7, <2>1 DEF Linear
  <2> QED BY <1>5, <1>7, <2>2, <2>3 DEF Linear
<1>9. Agrees(r, z, row, rows)
  BY <1>1, <1>2, <1>5, <1>7 DEF Agrees, EntryLags, Writes, RowLags, Submits
<1>10. \A j \in Pending : Shown(r, z, j)
  BY <1>1, <1>2, <1>3, <1>5, <1>6 DEF Sound, Shown
<1>11. Sound(r, project', row', rows', Pending')
  BY <1>1, <1>2, <1>4, <1>6, <1>8, <1>9, <1>10 DEF Sound
<1> QED BY <1>1, <1>11, SoundStep

LEMMA FlagSound ==
  ASSUME TypeInv, LoneInv, SoundInv, ~torn, NEW t, Threads = {t},
         NEW seq \in 0 .. MaxSeq, NEW published \in BOOLEAN, SetPublished(t, seq, published)
  PROVE  SoundInv'
<1> DEFINE q == req[t]
           r == [Idle EXCEPT !.pc = "flag", !.kind = "published",
                             !.seq = seq, !.published = published]
           i == IndexOf(project, seq)
           e == [project.history[i] EXCEPT !.published = published]
<1>1. /\ q.pc = "idle" /\ req' = [req EXCEPT ![t] = r] /\ listed /\ Has(project, seq)
      /\ project' = [project EXCEPT !.history[i] = e]
      /\ UNCHANGED <<listed, row, rows, queue>>
  BY DEF SetPublished, disk
<1>2. r.pc = "flag" /\ r.kind = "published" /\ ~r.collapse /\ r.seq = seq
      /\ r.published = published
  <2> HIDE DEF i, e
  <2> QED BY DEF Idle
<1> HIDE DEF r
<1>3. /\ project \in Project /\ project # None /\ i \in DOMAIN project.history
      /\ project.history[i].seq = seq
  BY <1>1, ListedProject, IndexFits
<1>4. /\ e \in Entry /\ e.seq = project.history[i].seq /\ e.job = project.history[i].job
      /\ e.overrides = project.history[i].overrides /\ e.published = published
  BY <1>3, ProjectShape DEF Entry
<1> HIDE DEF e, i
<1>5. PICK z : z = project'
  OBVIOUS
<1>6. /\ z \in Project /\ z # None
      /\ DOMAIN z.history = DOMAIN project.history /\ z.history[i] = e
      /\ Len(z.history) = Len(project.history)
      /\ \A k \in DOMAIN project.history \ {i} : z.history[k] = project.history[k]
      /\ z.current = project.current /\ z.version = project.version
      /\ z.sessions = project.sessions
  BY <1>1, <1>3, <1>4, <1>5, EntryReplaced, NoneAssumption
<1>7. Sound(q, project, row, rows, Pending) /\ Pending' = Pending
  BY <1>1, SoundAtWork, SameJobs DEF queue
<1> HIDE DEF q
<1>8. Linear(project) /\ Agrees(q, project, row, rows)
  BY <1>1, <1>3, <1>7 DEF Sound
<1>9. \A k \in DOMAIN project.history :
         /\ z.history[k].seq = project.history[k].seq
         /\ z.history[k].job = project.history[k].job
         /\ z.history[k].overrides = project.history[k].overrides
  BY <1>4, <1>6
<1>10. Linear(z)
  BY <1>6, <1>8, <1>9 DEF Linear
<1>11. PICK h \in rows : Same(h, project.history[i])
  BY <1>1, <1>3, <1>8 DEF Agrees, EntryLags, Writes
<1>12. \A k \in DOMAIN z.history :
         (\E g \in rows : Same(g, z.history[k])) \/ z.history[k].seq = seq
  <2>1. i \in DOMAIN project.history /\ project.history[i].seq = seq
    BY <1>3
  <2>2. ASSUME NEW k \in DOMAIN project.history, k # i
        PROVE  \E g \in rows : Same(g, z.history[k])
    <3>1. z.history[k] = project.history[k]
      BY <1>6, <2>2
    <3>2. \E g \in rows : Same(g, project.history[k])
      BY <1>1, <1>3, <1>8, <2>2 DEF Agrees, EntryLags, Writes
    <3> QED BY <3>1, <3>2
  <2> QED BY <1>6, <1>9, <2>1, <2>2
<1>13. /\ h.seq = r.seq /\ h.job = z.history[i].job /\ h.overrides = z.history[i].overrides
       /\ z.history[i].seq = r.seq /\ z.history[i].published = r.published
       /\ i \in DOMAIN z.history
  BY <1>2, <1>3, <1>4, <1>6, <1>9, <1>11 DEF Same
<1>14. Agrees(r, z, row, rows)
  BY <1>1, <1>2, <1>6, <1>8, <1>12, <1>13 DEF Agrees, EntryLags, Writes, RowLags
<1>15. \A j \in Pending : Shown(r, z, j)
  BY <1>1, <1>2, <1>3, <1>6, <1>7, <1>9 DEF Sound, Shown
<1>16. Sound(r, project', row', rows', Pending')
  BY <1>1, <1>2, <1>5, <1>7, <1>10, <1>14, <1>15 DEF Sound
<1> QED BY <1>1, <1>16, SoundStep

LEMMA BuiltSound ==
  ASSUME TypeInv, LoneInv, SoundInv, ~torn, NEW t, Threads = {t}, Built(t)
  PROVE  SoundInv'
<1> DEFINE q == req[t]
           r == [q EXCEPT !.pc = "row", !.seq = 0]
           n == NewEntry(t)
           e == [n EXCEPT !.seq = 0]
<1>0. /\ t \in Threads /\ RequestOK(q, project, made) /\ q \in Request
      /\ Sound(q, project, row, rows, Pending) /\ Sits(q, project, row, rows, Gone)
  BY LoneAtWork, SoundAtWork
<1>1. /\ q.pc = "apply" /\ q.kind = "create" /\ req' = [req EXCEPT ![t] = r]
      /\ project' = [current |-> 0, version |-> q.version, sessions |-> q.sessions,
                     history |-> <<e>>]
      /\ UNCHANGED <<row, rows, queue>>
  BY DEF Built, disk
<1>2. q.job \in Jobs /\ Creates(q) /\ q.sessions \in Sessions /\ q.version \in Versions
  BY <1>0, <1>1 DEF RequestOK, HasJob, Creates
<1>3. project = None /\ rows = {} /\ row = None
  BY <1>0, <1>2 DEF TypeInv, RequestsOK, LoneInv
<1>4. e \in Entry /\ e.seq = 0 /\ e.job = q.job
  <2>1. q.kind \in Submits
    BY <1>1 DEF Submits
  <2>2. /\ n \in [seq : {q.seq}, job : Jobs, overrides : Overrides,
                  published : BOOLEAN, kind : Kinds]
        /\ n.job = q.job
    BY <1>0, <1>2, <2>1, NewEntryFits
  <2> HIDE DEF n
  <2> QED BY <2>2, EntrySet
<1>5. Pending' = Pending
  BY <1>1, SameJobs DEF queue
<1> HIDE DEF q, n, e
<1>6. PICK z : z = project'
  OBVIOUS
<1>7. z.history = <<e>> /\ z.current = 0 /\ z # None
  <2>1. z \in Project
    BY <1>1, <1>2, <1>4, <1>6 DEF Project
  <2> QED BY <1>1, <1>6, <2>1, NoneAssumption
<1>8. /\ r.pc = "row" /\ r.kind = q.kind /\ r.collapse = q.collapse /\ r.job = q.job
      /\ r.seq = 0
  BY <1>0 DEF Request
<1> HIDE DEF r
<1>9. Linear(z)
  BY <1>4, <1>7 DEF Linear
<1>10. DOMAIN z.history = {1} /\ z.history[1] = e
  BY <1>7
<1>11. ~r.collapse
  BY <1>0, <1>1, <1>8 DEF Sits
<1>12. EntryLags(r, 0)
  BY <1>1, <1>8 DEF EntryLags, Writes, Submits
<1>13. Agrees(r, z, row, rows)
  BY <1>1, <1>3, <1>4, <1>8, <1>10, <1>11, <1>12 DEF Agrees
<1>14. \A j \in Pending : Shown(r, z, j)
  BY <1>0, <1>3, <1>4, <1>7, <1>8, <1>10 DEF Sound, Shown
<1>15. Sound(r, project', row', rows', Pending')
  BY <1>1, <1>5, <1>6, <1>8, <1>9, <1>13, <1>14 DEF Sound
<1> QED BY <1>1, <1>15, SoundStep

LEMMA ReplaceSound ==
  ASSUME TypeInv, LoneInv, SoundInv, ~torn, NEW t, Threads = {t}, Replace(t)
  PROVE  SoundInv'
<1> DEFINE q == req[t]
           r == [q EXCEPT !.pc = "row", !.seq = q.prev.seq]
           i == IndexOf(project, q.prev.seq)
           old == IF project.history[i].job = q.prev.job THEN project.history[i] ELSE q.prev
           p == old.published
           n == NewEntry(t)
           e == [n EXCEPT !.seq = q.prev.seq, !.published = p]
<1>0. /\ t \in Threads /\ RequestOK(q, project, made) /\ q \in Request
      /\ Sits(q, project, row, rows, Gone) /\ Sound(q, project, row, rows, Pending)
  BY LoneAtWork, SoundAtWork
<1>1. /\ q.pc = "apply" /\ q.kind = "edit" /\ q.collapse /\ req' = [req EXCEPT ![t] = r]
      /\ project' = [project EXCEPT !.history[i] = e]
      /\ UNCHANGED <<row, rows, queue>>
  BY DEF Replace, disk
<1>2. /\ q.job \in Jobs /\ q.prev \in Entry /\ Has(project, q.prev.seq) /\ Supersedes(q)
      /\ project \in Project /\ project # None /\ Apart(project)
  BY <1>0, <1>1, LoneAtWork DEF RequestOK, HasJob, Creates, Supersedes
<1>3. i \in DOMAIN project.history /\ project.history[i] = q.prev
  <2>1. i \in DOMAIN project.history /\ project.history[i].seq = q.prev.seq
    BY <1>2, IndexFits
  <2>2. PICK k \in DOMAIN project.history : project.history[k] = q.prev
    BY <1>0, <1>2 DEF Sits
  <2> HIDE DEF i, q
  <2> QED BY <1>2, <2>1, <2>2 DEF Apart
<1>4. q.prev.job \notin Pending
  <2>1. q.prev.job \in Gone
    BY <1>0, <1>1, <1>2 DEF Sits
  <2> QED BY <2>1 DEF Gone, Pending, Live
<1>5. e \in Entry /\ e.job = q.job /\ e.seq = q.prev.seq
  <2>1. p \in BOOLEAN /\ q.prev.seq \in Nat
    BY <1>2, <1>3 DEF Entry
  <2>2. q.kind \in Submits
    BY <1>1 DEF Submits
  <2>3. /\ n \in [seq : {q.seq}, job : Jobs, overrides : Overrides,
                  published : BOOLEAN, kind : Kinds]
        /\ n.job = q.job /\ n.overrides = q.overrides
    BY <1>0, <1>2, <2>2, NewEntryFits
  <2> HIDE DEF p, n, q
  <2> QED BY <2>1, <2>3, EntrySet
<1>6. Pending' = Pending
  BY <1>1, SameJobs DEF queue
<1> HIDE DEF q, i, e
<1>7. PICK z : z = project'
  OBVIOUS
<1>8. z = [project EXCEPT !.history[i] = e] /\ e.seq = project.history[i].seq
  BY <1>1, <1>3, <1>5, <1>7
<1>9. /\ z \in Project /\ z # None /\ DOMAIN z.history = DOMAIN project.history
      /\ Len(z.history) = Len(project.history) /\ z.history[i] = e
      /\ \A k \in DOMAIN project.history \ {i} : z.history[k] = project.history[k]
      /\ z.current = project.current /\ z.version = project.version
      /\ z.sessions = project.sessions
  BY <1>2, <1>3, <1>5, <1>8, EntryReplaced, NoneAssumption
<1>10. /\ r.pc = "row" /\ r.kind = q.kind /\ r.collapse = q.collapse /\ r.job = q.job
       /\ r.seq = q.prev.seq
  BY <1>0 DEF Request
<1> HIDE DEF r
<1>11. Linear(project) /\ Agrees(q, project, row, rows)
  BY <1>0, <1>1, <1>2 DEF Sound
<1>12. Linear(z)
  BY <1>8, <1>9, <1>11 DEF Linear
<1>13. \A k \in DOMAIN project.history : \E h \in rows : Same(h, project.history[k])
  BY <1>1, <1>11 DEF Agrees, EntryLags, Writes
<1>14. \E h \in rows : h.seq = r.seq
  BY <1>3, <1>10, <1>13 DEF Same
<1>15. \A k \in DOMAIN z.history :
         (\E h \in rows : Same(h, z.history[k])) \/ EntryLags(r, z.history[k].seq)
  <2>1. EntryLags(r, e.seq)
    BY <1>1, <1>5, <1>10 DEF EntryLags, Writes, Submits
  <2> QED BY <1>9, <1>13, <2>1
<1>16. Agrees(r, z, row, rows)
  BY <1>1, <1>9, <1>10, <1>11, <1>14, <1>15 DEF Agrees, RowLags
<1>17. \A j \in Pending : Shown(r, z, j)
  <2>1. ASSUME NEW j \in Pending PROVE \E k \in DOMAIN z.history : z.history[k].job = j
    <3>1. Shown(q, project, j)
      BY <1>0 DEF Sound
    <3>2. CASE q.job = j
      BY <1>3, <1>5, <1>9, <3>2
    <3>3. ASSUME NEW k \in DOMAIN project.history, project.history[k].job = j
          PROVE  \E m \in DOMAIN z.history : z.history[m].job = j
      <4>1. k # i
        BY <1>3, <1>4, <3>3
      <4> QED BY <1>9, <3>3, <4>1
    <3> QED BY <1>1, <3>1, <3>2, <3>3 DEF Shown
  <2> QED BY <1>9, <1>10, <2>1 DEF Shown
<1>18. Sound(r, project', row', rows', Pending')
  BY <1>1, <1>6, <1>7, <1>10, <1>12, <1>16, <1>17 DEF Sound
<1> QED BY <1>1, <1>18, SoundStep

LEMMA AppendSound ==
  ASSUME TypeInv, LoneInv, SoundInv, ~torn, NEW t, Threads = {t}, AppendEntry(t)
  PROVE  SoundInv'
<1> DEFINE q == req[t]
           r == [q EXCEPT !.pc = "row"]
<1>0. /\ t \in Threads /\ RequestOK(q, project, made) /\ q \in Request
      /\ Sits(q, project, row, rows, Gone) /\ Sound(q, project, row, rows, Pending)
  BY LoneAtWork, SoundAtWork
<1>1. /\ q.pc = "append" /\ req' = [req EXCEPT ![t] = r] /\ UNCHANGED <<row, rows, queue>>
  BY DEF AppendEntry, Goto, disk
<1>2. PICK p \in Project, e \in Entry :
        /\ p = project /\ project # None /\ project' # None
        /\ e.seq = q.seq /\ e.job = q.job
        /\ project'.history = Append(p.history, e)
        /\ project'.current = q.seq
        /\ project'.version = p.version /\ project'.sessions = p.sessions
  BY <1>0, Appends
<1>3. PICK z : z = project'
  OBVIOUS
<1>4. /\ z.history = Append(p.history, e) /\ z.current = q.seq /\ z # None
      /\ z.version = p.version /\ z.sessions = p.sessions
  BY <1>2, <1>3
<1>5. PICK n \in Nat :
        /\ n = Len(p.history) /\ Len(z.history) = n + 1
        /\ DOMAIN z.history = 1 .. (n + 1) /\ z.history[n + 1] = e
        /\ \A k \in DOMAIN p.history : z.history[k] = p.history[k]
        /\ DOMAIN p.history = 1 .. n
  BY <1>4, EntryAdded, ProjectShape
<1>6. Pending' = Pending
  BY <1>1, SameJobs DEF queue
<1> HIDE DEF q
<1>7. ~q.collapse /\ q.kind \in Kinds
  BY <1>0, <1>1 DEF Sits, RequestOK
<1>8. Linear(p) /\ Agrees(q, p, row, rows) /\ q.seq = n
  BY <1>0, <1>1, <1>2, <1>5 DEF Sound
<1>9. /\ r.pc = "row" /\ r.kind = q.kind /\ r.collapse = q.collapse /\ r.job = q.job
      /\ r.seq = q.seq
  BY <1>0 DEF Request
<1> HIDE DEF r
<1>10. \A k \in DOMAIN z.history : k \in DOMAIN p.history \/ k = n + 1
  BY <1>5
<1>11. Linear(z)
  <2>1. \A k \in DOMAIN z.history : z.history[k].seq = k - 1
    <3>1. ASSUME NEW k \in DOMAIN p.history PROVE z.history[k].seq = k - 1
      BY <1>5, <1>8 DEF Linear
    <3>2. z.history[n + 1].seq = n /\ n = (n + 1) - 1
      BY <1>2, <1>5, <1>8
    <3> QED BY <1>10, <3>1, <3>2
  <2>2. z.current \in 0 .. (Len(z.history) - 1)
    BY <1>4, <1>5, <1>8
  <2> QED BY <2>1, <2>2 DEF Linear
<1>12. \A k \in DOMAIN z.history :
         (\E h \in rows : Same(h, z.history[k])) \/ EntryLags(r, z.history[k].seq)
  <2>1. EntryLags(r, e.seq)
    BY <1>2, <1>7, <1>9 DEF EntryLags, Writes, Submits, Kinds
  <2>2. \A k \in DOMAIN p.history : \E h \in rows : Same(h, p.history[k])
    BY <1>1, <1>8 DEF Agrees, EntryLags, Writes
  <2> QED BY <1>5, <1>10, <2>1, <2>2
<1>13. Agrees(r, z, row, rows)
  BY <1>1, <1>4, <1>7, <1>8, <1>9, <1>12 DEF Agrees, RowLags, Kinds
<1>14. \A j \in Pending : Shown(r, z, j)
  <2>1. ASSUME NEW j \in Pending PROVE \E k \in DOMAIN z.history : z.history[k].job = j
    <3>1. Shown(q, p, j)
      BY <1>0, <1>2 DEF Sound
    <3>2. (\E k \in DOMAIN p.history : p.history[k].job = j) \/ e.job = j
      BY <1>1, <1>2, <3>1 DEF Shown
    <3>3. n + 1 \in DOMAIN z.history /\ DOMAIN p.history \subseteq DOMAIN z.history
      BY <1>5
    <3> QED BY <1>5, <3>2, <3>3
  <2> QED BY <1>4, <1>9, <2>1 DEF Shown
<1>15. Sound(r, project', row', rows', Pending')
  BY <1>1, <1>3, <1>6, <1>9, <1>11, <1>13, <1>14 DEF Sound
<1> QED BY <1>1, <1>15, SoundStep

(* The columns that a statement writes.                                    *)
LEMMA RowWritten ==
  ASSUME NEW k, project \in Project, row \in Row \/ k = "create", NEW w, w = RowAfter(k)
  PROVE  /\ w # None /\ w.current = project.current
         /\ w.sessions = IF k \in {"create", "swap_sessions"} THEN project.sessions
                                                             ELSE row.sessions
         /\ w.version = IF k \in {"create", "template_upgrade"} THEN project.version
                                                               ELSE row.version
<1>1. CASE k = "create"
  <2>1. w = [current |-> project.current, version |-> project.version,
             sessions |-> project.sessions]
    BY <1>1 DEF RowAfter
  <2>2. w \in Row
    BY <2>1 DEF Row, Project
  <2> QED BY <1>1, <2>1, <2>2, NoneAssumption
<1>2. CASE k # "create"
  <2> DEFINE a == [row EXCEPT !.current = project.current]
  <2>1. a \in Row /\ a.current = project.current /\ a.sessions = row.sessions
        /\ a.version = row.version
    BY <1>2 DEF Row, Project
  <2>2. /\ k = "swap_sessions" => w = [a EXCEPT !.sessions = project.sessions]
        /\ k = "template_upgrade" => w = [a EXCEPT !.version = project.version]
        /\ k \notin {"swap_sessions", "template_upgrade"} => w = a
    BY <1>2 DEF RowAfter
  <2> HIDE DEF a
  <2>3. w \in Row
    BY <2>1, <2>2 DEF Row, Project
  <2>4. w # None
    BY <2>3, NoneAssumption
  <2>5. CASE k = "swap_sessions"
    BY <2>1, <2>2, <2>4, <2>5 DEF Row
  <2>6. CASE k = "template_upgrade"
    BY <2>1, <2>2, <2>4, <2>6 DEF Row
  <2>7. CASE k \notin {"swap_sessions", "template_upgrade"}
    BY <1>2, <2>1, <2>2, <2>4, <2>7
  <2> QED BY <2>5, <2>6, <2>7
<1> QED BY <1>1, <1>2

LEMMA PersistRowSound ==
  ASSUME TypeInv, LoneInv, SoundInv, ~torn, NEW t, Threads = {t}, PersistRow(t)
  PROVE  SoundInv'
<1> DEFINE q == req[t]
           r == IF q.kind \in Submits THEN [q EXCEPT !.pc = "entry"] ELSE Idle
<1>0. /\ t \in Threads /\ RequestOK(q, project, made) /\ q \in Request
      /\ Sound(q, project, row, rows, Pending)
  BY LoneAtWork, SoundAtWork
<1>1. /\ q.pc = "row" /\ req' = [req EXCEPT ![t] = r]
      /\ UNCHANGED <<project, rows, queue>>
      /\ row' = IF row = None /\ q.kind # "create" THEN None ELSE RowAfter(q.kind)
  BY DEF PersistRow, AfterRow
<1>2. project \in Project /\ project # None
  <2>1. q.pc # "idle" /\ ~Creates(q)
    BY <1>1 DEF Creates
  <2> QED BY <2>1, LoneAtWork
<1>3. Pending' = Pending
  BY <1>1, SameJobs DEF queue
<1>4. /\ r.pc \in {"entry", "idle"}
      /\ r.pc = "entry" => /\ r.kind = q.kind /\ r.collapse = q.collapse
                           /\ r.seq = q.seq
      /\ q.kind \in Submits => r.pc = "entry"
  <2>1. CASE q.kind \in Submits
    <3> DEFINE s == [q EXCEPT !.pc = "entry"]
    <3>1. r = s
      BY <2>1
    <3> HIDE DEF q
    <3>2. /\ s.pc = "entry" /\ s.kind = q.kind /\ s.collapse = q.collapse
          /\ s.seq = q.seq
      BY <1>0 DEF Request
    <3> HIDE DEF s, r
    <3> QED BY <3>1, <3>2
  <2>2. CASE q.kind \notin Submits
    BY <2>2 DEF Idle
  <2> QED BY <2>1, <2>2
<1> HIDE DEF q, r
<1>5. Linear(project) /\ Agrees(q, project, row, rows)
  BY <1>0, <1>1, <1>2 DEF Sound
<1>6. PICK w : w = row'
  OBVIOUS
<1>7. q.kind # "create" => row # None /\ row \in Row
  BY <1>1, <1>5 DEF Agrees, TypeInv, TypeOK
<1>8. w = RowAfter(q.kind)
  BY <1>1, <1>6, <1>7
<1>9. /\ w # None /\ w.current = project.current
      /\ w.sessions = IF q.kind \in {"create", "swap_sessions"} THEN project.sessions
                                                               ELSE row.sessions
      /\ w.version = IF q.kind \in {"create", "template_upgrade"} THEN project.version
                                                                 ELSE row.version
  BY <1>2, <1>7, <1>8, RowWritten
<1>10. w.sessions = project.sessions /\ w.version = project.version
  BY <1>1, <1>5, <1>9 DEF Agrees
<1>11. \A i \in DOMAIN project.history :
         (\E h \in rows : Same(h, project.history[i])) \/ EntryLags(r, project.history[i].seq)
  BY <1>1, <1>4, <1>5 DEF Agrees, EntryLags, Writes
<1>12. r.pc = "entry" /\ r.collapse => \E h \in rows : h.seq = r.seq
  BY <1>1, <1>4, <1>5 DEF Agrees
<1>13. Agrees(r, project, w, rows)
  BY <1>4, <1>9, <1>10, <1>11, <1>12 DEF Agrees
<1>14. \A j \in Pending : Shown(r, project, j)
  BY <1>0, <1>1, <1>4 DEF Sound, Shown
<1>15. Sound(r, project', row', rows', Pending')
  BY <1>1, <1>3, <1>4, <1>5, <1>6, <1>13, <1>14 DEF Sound
<1> QED BY <1>1, <1>15, SoundStep

(* What a write of the history needs to know.                              *)
LEMMA SoundTableStep ==
  ASSUME TypeInv, LoneInv, SoundInv, ~torn, NEW t, Threads = {t}, NEW r,
         req' = [req EXCEPT ![t] = r], UNCHANGED <<project, row, queue>>,
         req[t].pc \in {"entry", "flag"}, r.pc \in {"idle", "row"},
         r.pc = "row" => r.kind = "published" /\ ~r.collapse,
         \A i \in DOMAIN project.history : \E h \in rows' : Same(h, project.history[i])
  PROVE  SoundInv'
<1> DEFINE q == req[t]
<1>1. Sound(q, project, row, rows, Pending)
  BY SoundAtWork
<1>2. project # None
  <2>1. q.pc # "idle" /\ ~Creates(q)
    BY DEF Creates
  <2> QED BY <2>1, LoneAtWork
<1>3. Pending' = Pending
  BY SameJobs DEF queue
<1> HIDE DEF q
<1>4. Linear(project) /\ Agrees(q, project, row, rows)
  BY <1>1, <1>2 DEF Sound, q
<1>5. PICK R : R = rows'
  OBVIOUS
<1>6. Agrees(r, project, row, R)
  BY <1>4, <1>5 DEF Agrees, EntryLags, Writes, RowLags, Submits, q
<1>7. \A j \in Pending : Shown(r, project, j)
  BY <1>1 DEF Sound, Shown, q
<1>8. Sound(r, project', row', rows', Pending')
  BY <1>3, <1>4, <1>5, <1>6, <1>7 DEF Sound
<1> QED BY <1>8, SoundStep

LEMMA PersistEntrySound ==
  ASSUME TypeInv, LoneInv, SoundInv, ~torn', ~torn, NEW t, Threads = {t}, PersistEntry(t)
  PROVE  SoundInv'
<1> DEFINE q == req[t]
           p == PublishedNow(t)
           n == NewEntry(t)
           e == [n EXCEPT !.published = p]
<1>0. /\ t \in Threads /\ RequestOK(q, project, made) /\ q \in Request
      /\ Sits(q, project, row, rows, Gone) /\ Sound(q, project, row, rows, Pending)
  BY LoneAtWork, SoundAtWork
<1>1. /\ q.pc = "entry" /\ req' = [req EXCEPT ![t] = Idle] /\ ~q.collapse
      /\ UNCHANGED <<project, row, queue>> /\ rows' = rows \cup {e}
  BY DEF PersistEntry
<1>2. project \in Project /\ project # None /\ Apart(project) /\ ~Creates(q)
  <2>1. q.pc # "idle" /\ ~Creates(q)
    BY <1>1 DEF Creates
  <2> QED BY <2>1, LoneAtWork
<1>3. e.seq = q.seq /\ e.job = q.job /\ e.overrides = q.overrides /\ e.published = p
  <2>1. p \in BOOLEAN
    BY DEF PublishedNow
  <2>2. /\ n \in [seq : {q.seq}, job : Jobs, overrides : Overrides,
                  published : BOOLEAN, kind : Kinds]
        /\ n.job = q.job /\ n.overrides = q.overrides /\ q.seq \in Nat
    BY <1>0, <1>1, Persisting, NewEntryFits
  <2> HIDE DEF p, n, q
  <2> QED BY <2>1, <2>2, EntrySet
<1>4. PICK i \in DOMAIN project.history :
        project.history[i].seq = q.seq /\ project.history[i].job = q.job
          /\ project.history[i].overrides = q.overrides
  BY <1>0, <1>1, Persisting DEF Sits, Writes
<1>5. p = project.history[i].published
  <2>1. EntryAt(project, q.seq) = project.history[i]
    <3>1. EntryAt(project, project.history[i].seq) = project.history[i]
      BY <1>2, OnlyIndex DEF Apart
    <3> QED BY <1>4, <3>1
  <2>2. project.history[i].published \in BOOLEAN
    BY <1>2, ProjectShape DEF Entry
  <2> QED BY <1>4, <2>1, <2>2, Zenon DEF PublishedNow
<1>6. Idle.pc = "idle"
  BY DEF Idle
<1> HIDE DEF q, e, p
<1>7. Same(e, project.history[i])
  BY <1>3, <1>4, <1>5 DEF Same
<1>8. Agrees(q, project, row, rows)
  BY <1>0, <1>1, <1>2 DEF Sound
<1>9. \A k \in DOMAIN project.history : \E h \in rows' : Same(h, project.history[k])
  <2>1. ASSUME NEW k \in DOMAIN project.history
        PROVE  \E h \in rows' : Same(h, project.history[k])
    <3>1. CASE project.history[k].seq = q.seq
      <4>1. k = i
        BY <1>2, <1>4, <3>1 DEF Apart
      <4> QED BY <1>1, <1>7, <4>1
    <3>2. CASE project.history[k].seq # q.seq
      <4>1. PICK h \in rows : Same(h, project.history[k])
        BY <1>8, <3>2 DEF Agrees, EntryLags
      <4> QED BY <1>1, <4>1
    <3> QED BY <3>1, <3>2
  <2> QED BY <2>1
<1> QED BY <1>1, <1>6, <1>9, SoundTableStep DEF q

LEMMA PersistReplaceSound ==
  ASSUME TypeInv, LoneInv, SoundInv, ~torn, NEW t, Threads = {t}, PersistReplace(t)
  PROVE  SoundInv'
<1> DEFINE q == req[t]
<1>0. /\ t \in Threads /\ RequestOK(q, project, made) /\ q \in Request
      /\ Sits(q, project, row, rows, Gone) /\ Sound(q, project, row, rows, Pending)
  BY LoneAtWork, SoundAtWork
<1>1. /\ q.pc = "entry" /\ req' = [req EXCEPT ![t] = Idle] /\ q.collapse
      /\ UNCHANGED <<project, row, queue>>
  BY DEF PersistReplace
<1>2. project \in Project /\ project # None /\ Apart(project)
  <2>1. q.pc # "idle" /\ ~Creates(q)
    BY <1>1 DEF Creates
  <2> QED BY <2>1, LoneAtWork
<1>3. PICK f \in [rows -> Entry] :
        /\ rows' = {f[h] : h \in rows}
        /\ \A h \in rows :
             IF h.seq = q.seq
             THEN /\ f[h].seq = h.seq /\ f[h].job = q.job
                  /\ f[h].overrides = q.overrides
                  /\ f[h].published = PublishedNow(t)
             ELSE f[h] = h
  BY <1>0, Replaces
<1>4. PICK i \in DOMAIN project.history :
        project.history[i].seq = q.seq /\ project.history[i].job = q.job
          /\ project.history[i].overrides = q.overrides
  BY <1>0, <1>1, Persisting DEF Sits, Writes
<1>5. PublishedNow(t) = project.history[i].published
  <2>1. EntryAt(project, q.seq) = project.history[i]
    <3>1. EntryAt(project, project.history[i].seq) = project.history[i]
      BY <1>2, OnlyIndex DEF Apart
    <3> QED BY <1>4, <3>1
  <2>2. project.history[i].published \in BOOLEAN
    BY <1>2, ProjectShape DEF Entry
  <2> QED BY <1>4, <2>1, <2>2, Zenon DEF PublishedNow
<1>6. Idle.pc = "idle"
  BY DEF Idle
<1> HIDE DEF q
<1>7. Agrees(q, project, row, rows)
  BY <1>0, <1>1, <1>2 DEF Sound
<1>8. PICK g \in rows : g.seq = q.seq
  BY <1>1, <1>7 DEF Agrees
<1>9. f[g] \in rows' /\ Same(f[g], project.history[i])
  BY <1>3, <1>4, <1>5, <1>8 DEF Same
<1>10. \A k \in DOMAIN project.history : \E h \in rows' : Same(h, project.history[k])
  <2>1. ASSUME NEW k \in DOMAIN project.history
        PROVE  \E h \in rows' : Same(h, project.history[k])
    <3>1. CASE project.history[k].seq = q.seq
      <4>1. k = i
        BY <1>2, <1>4, <3>1 DEF Apart
      <4> QED BY <1>9, <4>1
    <3>2. CASE project.history[k].seq # q.seq
      <4>1. PICK h \in rows : Same(h, project.history[k])
        BY <1>7, <3>2 DEF Agrees, EntryLags
      <4>2. f[h] = h
        BY <1>3, <3>2, <4>1 DEF Same
      <4> QED BY <1>3, <4>1, <4>2
    <3> QED BY <3>1, <3>2
  <2> QED BY <2>1
<1> QED BY <1>1, <1>6, <1>10, SoundTableStep DEF q

LEMMA PersistFlagSound ==
  ASSUME TypeInv, LoneInv, SoundInv, ~torn, NEW t, Threads = {t}, PersistFlag(t)
  PROVE  SoundInv'
<1> DEFINE q == req[t]
           r == [q EXCEPT !.pc = "row"]
<1>0. /\ t \in Threads /\ RequestOK(q, project, made) /\ q \in Request
      /\ Sits(q, project, row, rows, Gone) /\ Sound(q, project, row, rows, Pending)
  BY LoneAtWork, SoundAtWork
<1>1. /\ q.pc = "flag" /\ req' = [req EXCEPT ![t] = r]
      /\ UNCHANGED <<project, row, queue>>
  BY DEF PersistFlag, Goto
<1>2. project \in Project /\ project # None /\ Apart(project) /\ q.kind = "published"
  <2>1. q.pc # "idle" /\ ~Creates(q)
    BY <1>1 DEF Creates
  <2> QED BY <1>0, <1>1, <2>1, LoneAtWork DEF RequestOK
<1>3. PICK f \in [rows -> Entry] :
        /\ rows' = {f[h] : h \in rows}
        /\ \A h \in rows :
             /\ f[h].seq = h.seq /\ f[h].job = h.job /\ f[h].overrides = h.overrides
             /\ f[h].published = IF h.seq = q.seq THEN q.published ELSE h.published
  BY <1>0, Flags
<1> HIDE DEF q
<1>4. Agrees(q, project, row, rows)
  BY <1>0, <1>1, <1>2 DEF Sound
<1>5. PICK i \in DOMAIN project.history, g \in rows :
        /\ g.seq = q.seq /\ g.job = project.history[i].job
        /\ g.overrides = project.history[i].overrides
        /\ project.history[i].seq = q.seq /\ project.history[i].published = q.published
  BY <1>1, <1>4 DEF Agrees
<1>6. f[g] \in rows' /\ Same(f[g], project.history[i])
  BY <1>3, <1>5 DEF Same
<1>7. r.pc = "row" /\ r.kind = "published" /\ ~r.collapse
  <2>1. r.pc = "row" /\ r.kind = q.kind /\ r.collapse = q.collapse
    BY <1>0 DEF Request
  <2> HIDE DEF r
  <2> QED BY <1>0, <1>1, <1>2, <2>1 DEF Sits
<1> HIDE DEF r
<1>8. \A k \in DOMAIN project.history : \E h \in rows' : Same(h, project.history[k])
  <2>1. ASSUME NEW k \in DOMAIN project.history
        PROVE  \E h \in rows' : Same(h, project.history[k])
    <3>1. CASE project.history[k].seq = q.seq
      <4>1. k = i
        BY <1>2, <1>5, <3>1 DEF Apart
      <4> QED BY <1>6, <4>1
    <3>2. CASE project.history[k].seq # q.seq
      <4>1. PICK h \in rows : Same(h, project.history[k])
        BY <1>4, <3>2 DEF Agrees, EntryLags
      <4>2. f[h] \in rows' /\ Same(f[h], project.history[k])
        BY <1>3, <3>2, <4>1 DEF Same
      <4> QED BY <4>2
    <3> QED BY <3>1, <3>2
  <2> QED BY <2>1
<1> QED BY <1>1, <1>7, <1>8, SoundTableStep DEF q

LEMMA DropSound ==
  ASSUME TypeInv, LoneInv, SoundInv, ~torn, NEW t, Threads = {t}, DeleteRow(t) \/ Forget(t)
  PROVE  SoundInv'
<1> DEFINE q == req[t]
<1>0. /\ t \in Threads /\ q \in Request /\ Sound(q, project, row, rows, Pending)
  BY LoneAtWork, SoundAtWork
<1>1. UNCHANGED queue /\ Pending' = Pending
  BY SameJobs DEF DeleteRow, Forget, queue
<1>2. CASE DeleteRow(t)
  <2> DEFINE r == [q EXCEPT !.pc = "forget"]
  <2>1. /\ q.pc = "cancelall" /\ q.todo = {} /\ req' = [req EXCEPT ![t] = r]
        /\ UNCHANGED project
    BY <1>2 DEF DeleteRow, Goto
  <2> HIDE DEF q
  <2>2. r.pc = "forget"
    BY <1>0 DEF Request
  <2>3. Pending = {}
    BY <1>0, <2>1 DEF Sound, Shown
  <2> HIDE DEF r
  <2>4. Sound(r, project', row', rows', Pending')
    BY <1>0, <1>1, <2>1, <2>2, <2>3 DEF Sound
  <2> QED BY <2>1, <2>4, SoundStep
<1>3. CASE Forget(t)
  <2>1. q.pc = "forget" /\ req' = [req EXCEPT ![t] = Idle] /\ project' = None
    BY <1>3 DEF Forget
  <2>2. Pending = {}
    BY <1>0, <2>1 DEF Sound, Shown
  <2>3. Idle.pc = "idle"
    BY DEF Idle
  <2>4. Sound(Idle, project', row', rows', Pending')
    BY <1>1, <2>1, <2>2, <2>3 DEF Sound
  <2> QED BY <2>1, <2>4, SoundStep
<1> QED BY <1>2, <1>3

LEMMA SettlesSound ==
  ASSUME TypeInv, LoneInv, SoundInv, ~torn, NEW t, Threads = {t},
         UNCHANGED <<project, row, rows, req>>, Pending' \subseteq Pending
  PROVE  SoundInv'
<1>1. PICK J : J = Pending'
  OBVIOUS
<1>2. \A u \in Threads : Sound(req[u], project, row, rows, J)
  BY <1>1 DEF SoundInv, Sound
<1> QED BY <1>1, <1>2, Zenon DEF SoundInv

(* Between requests, the rows are the history.                             *)
LEMMA RestartKeeps ==
  ASSUME TypeInv, LoneInv, SoundInv, ~torn, NEW t, Threads = {t}, req[t].pc = "idle",
         project # None
  PROVE  /\ row # None /\ Rehydrated \in Project
         /\ Rehydrated.current = project.current
         /\ Rehydrated.sessions = project.sessions
         /\ Rehydrated.version = project.version
         /\ Len(Rehydrated.history) = Len(project.history)
         /\ \A i \in DOMAIN project.history :
              /\ Rehydrated.history[i] \in rows
              /\ Same(Rehydrated.history[i], project.history[i])
<1> DEFINE n == Len(project.history)
           R == Rehydrated
<1>1. Linear(project) /\ Agrees(req[t], project, row, rows)
  BY SoundAtWork DEF Sound
<1>2. /\ row # None /\ row.current = project.current /\ row.sessions = project.sessions
      /\ row.version = project.version
  BY <1>1 DEF Agrees, RowLags
<1>3. \A i \in DOMAIN project.history : \E h \in rows : Same(h, project.history[i])
  BY <1>1 DEF Agrees, EntryLags, Writes
<1>4. n \in Nat /\ DOMAIN project.history = 1 .. n
  <2>1. project \in Project
    BY DEF TypeInv, TypeOK
  <2> QED BY <2>1, ProjectShape
<1>5. \A h, k \in rows : h.seq = k.seq => h = k
  BY DEF TypeInv, RowsOK
<1>6. Cardinality(rows) = n /\ \A h \in rows : Cardinality({k \in rows : k.seq < h.seq}) = h.seq
  <2> HIDE DEF n
  <2>1. \A h \in rows : h.seq \in 0 .. (n-1)
    <3>1. ASSUME NEW h \in rows PROVE h.seq \in 0 .. (n-1)
      <4>1. PICK i \in DOMAIN project.history : project.history[i].seq = h.seq
        BY DEF LoneInv, Backed
      <4> QED BY <1>1, <1>4, <4>1 DEF Linear
    <3> QED BY <3>1
  <2>2. \A i \in 0 .. (n-1) : \E h \in rows : h.seq = i
    <3>1. ASSUME NEW i \in 0 .. (n-1) PROVE \E h \in rows : h.seq = i
      <4>1. i + 1 \in DOMAIN project.history /\ (i + 1) - 1 = i
        BY <1>4
      <4>2. project.history[i + 1].seq = i
        BY <1>1, <4>1 DEF Linear
      <4> QED BY <1>3, <4>1, <4>2 DEF Same
    <3> QED BY <3>1
  <2> QED BY <1>4, <1>5, <2>1, <2>2, RankIsSeq
<1>7. /\ R \in Project /\ R.current = row.current /\ R.version = row.version
      /\ R.sessions = row.sessions
      /\ Len(R.history) = Cardinality(rows) /\ DOMAIN R.history = 1 .. Cardinality(rows)
      /\ \A i \in DOMAIN R.history :
           /\ R.history[i] \in rows
           /\ Cardinality({k \in rows : k.seq < R.history[i].seq}) = i - 1
  BY <1>2, RehydratedIsRows
<1> HIDE DEF R, n
<1>8. ASSUME NEW i \in DOMAIN project.history
      PROVE  R.history[i] \in rows /\ Same(R.history[i], project.history[i])
  <2>1. i \in DOMAIN R.history
    BY <1>4, <1>6, <1>7
  <2>2. R.history[i] \in rows /\ R.history[i].seq = i - 1
    BY <1>6, <1>7, <2>1
  <2>3. PICK h \in rows : Same(h, project.history[i])
    BY <1>3
  <2>4. h.seq = i - 1
    BY <1>1, <2>3 DEF Linear, Same
  <2>5. h = R.history[i]
    BY <1>5, <2>2, <2>4
  <2> QED BY <2>2, <2>3, <2>5
<1> QED BY <1>2, <1>6, <1>7, <1>8 DEF R, n

LEMMA RestartSound ==
  ASSUME TypeInv, LoneInv, SoundInv, ~torn', ~torn, NEW t, Threads = {t}, Restart
  PROVE  SoundInv'
<1> DEFINE q == req[t]
<1>1. /\ q.pc = "idle" /\ project' = Rehydrated
      /\ req' = [req EXCEPT ![t] = Idle] /\ UNCHANGED <<row, rows, queue>>
  <2>1. req' = [u \in Threads |-> Idle] /\ DOMAIN req = {t}
    BY DEF Restart, TypeInv, RequestsOK
  <2>2. req' = [req EXCEPT ![t] = Idle]
    BY <2>1
  <2> QED BY <2>2 DEF Restart, disk, Quiet
<1>2. Sound(q, project, row, rows, Pending) /\ Pending' = Pending
  BY <1>1, SoundAtWork, SameJobs DEF queue
<1>3. Idle.pc = "idle"
  BY DEF Idle
<1>4. CASE project = None
  <2>1. project' = None
    BY <1>1, <1>4 DEF LoneInv, Rehydrated
  <2>2. Pending = {}
    BY <1>1, <1>2, <1>4 DEF Sound, Shown
  <2>3. Sound(Idle, project', row', rows', Pending')
    BY <1>2, <1>3, <2>1, <2>2 DEF Sound
  <2> QED BY <1>1, <2>3, SoundStep
<1>5. CASE project # None
  <2>1. PICK z : z = project'
    OBVIOUS
  <2>2. /\ z \in Project /\ row # None /\ z.current = project.current
        /\ z.sessions = project.sessions /\ z.version = project.version
        /\ Len(z.history) = Len(project.history)
        /\ \A i \in DOMAIN project.history :
             z.history[i] \in rows /\ Same(z.history[i], project.history[i])
    BY <1>1, <1>5, <2>1, RestartKeeps
  <2>3. project \in Project
    BY <1>5 DEF TypeInv, TypeOK
  <2>4. DOMAIN z.history = DOMAIN project.history
    BY <2>2, <2>3, ProjectShape
  <2>5. Linear(project) /\ Agrees(q, project, row, rows)
    BY <1>1, <1>2, <1>5 DEF Sound
  <2>6. Linear(z)
    BY <2>2, <2>4, <2>5 DEF Linear, Same
  <2>7. \A i \in DOMAIN z.history : \E h \in rows : Same(h, z.history[i])
    BY <2>2, <2>4 DEF Same
  <2>8. Agrees(Idle, z, row, rows)
    BY <1>1, <1>3, <2>2, <2>5, <2>7 DEF Agrees, RowLags
  <2>9. \A j \in Pending : Shown(Idle, z, j)
    <3>1. z # None
      BY <2>2, NoneAssumption
    <3> QED BY <1>1, <1>2, <1>3, <2>2, <2>4, <3>1 DEF Sound, Shown, Same
  <2>10. Sound(Idle, project', row', rows', Pending')
    BY <1>1, <1>2, <1>3, <2>1, <2>6, <2>8, <2>9 DEF Sound
  <2> QED BY <1>1, <2>10, SoundStep
<1> QED BY <1>4, <1>5

LEMMA SoundInvStep ==
  Lone /\ TypeInv /\ LoneInv /\ SoundInv /\ [Next]_vars => SoundInv'
<1> SUFFICES ASSUME Lone, TypeInv, LoneInv, SoundInv, [Next]_vars, ~torn' PROVE SoundInv'
  BY DEF SoundInv
<1>0. PICK t : t \in Threads /\ Threads = {t}
  BY DEF Lone
<1>1. ~torn
  BY TornStays
<1>2. CASE Edit(t)
  BY <1>0, <1>1, <1>2, EditSound
<1>3. CASE Point(t)
  BY <1>0, <1>1, <1>3, RevertSound, FlagSound DEF Point
<1>4. CASE Delete(t)
  BY <1>0, <1>1, <1>4, DeleteSound
<1>5. CASE Serve(t)
  <2>1. CASE ReadStatus(t) \/ CancelPrev(t)
    BY <1>0, <1>1, <2>1, CancelSound
  <2>2. CASE WriteFails(t) \/ SubmitFails(t)
    BY <2>2 DEF WriteFails, SubmitFails
  <2>3. CASE (\E j \in Jobs : Submit(t, j)) \/ PickSeq(t) \/ (\E j \in Jobs : DeleteCancels(t, j))
    BY <1>0, <1>1, <2>3, SubmitSound
  <2>4. CASE DeleteRow(t) \/ Forget(t)
    BY <1>0, <1>1, <2>4, DropSound
  <2>5. CASE Built(t)
    BY <1>0, <1>1, <2>5, BuiltSound
  <2>6. CASE Replace(t)
    BY <1>0, <1>1, <2>6, ReplaceSound
  <2>7. CASE AppendEntry(t)
    BY <1>0, <1>1, <2>7, AppendSound
  <2>8. CASE PersistRow(t)
    BY <1>0, <1>1, <2>8, PersistRowSound
  <2>9. CASE PersistEntry(t)
    BY <1>0, <1>1, <2>9, PersistEntrySound
  <2>10. CASE PersistReplace(t)
    BY <1>0, <1>1, <2>10, PersistReplaceSound
  <2>11. CASE PersistFlag(t)
    BY <1>0, <1>1, <2>11, PersistFlagSound
  <2> QED BY <1>5, <2>1, <2>2, <2>3, <2>4, <2>5, <2>6, <2>7, <2>8, <2>9, <2>10, <2>11
          DEF Serve
<1>6. ASSUME NEW j \in Jobs, NEW o \in Outcomes, WorkerSettles(j, o) PROVE SoundInv'
  <2>1. /\ UNCHANGED <<project, row, rows, req, cancelled>>
        /\ status' = [status EXCEPT ![j] = o]
    BY <1>6 DEF WorkerSettles, disk
  <2>2. Pending' \subseteq Pending
    BY <2>1 DEF Pending, Live, Outcomes, TypeInv, TypeOK
  <2> QED BY <1>0, <1>1, <2>1, <2>2, SettlesSound
<1>7. CASE Restart
  BY <1>0, <1>1, <1>7, RestartSound
<1>8. CASE UNCHANGED vars
  <2>1. UNCHANGED <<project, row, rows, req, status, cancelled>>
    BY <1>8 DEF vars, disk, queue
  <2>2. Pending' = Pending
    BY <2>1, SameJobs
  <2> QED BY <1>0, <1>1, <2>1, <2>2, SettlesSound
<1> QED BY <1>0, <1>2, <1>3, <1>4, <1>5, <1>6, <1>7, <1>8 DEF Next

LEMMA SoundInvHolds == Lone => (Spec => [](TypeInv /\ LoneInv /\ SoundInv))
<1> SUFFICES ASSUME Lone PROVE Spec => [](TypeInv /\ LoneInv /\ SoundInv)
  OBVIOUS
<1>1. Init => SoundInv
  <2> SUFFICES ASSUME Init, NEW t \in Threads PROVE Sound(req[t], project, row, rows, Pending)
    BY DEF SoundInv
  <2>1. req[t] = Idle /\ Idle.pc = "idle" /\ project = None /\ Pending = {}
    BY DEF Init, Idle, Pending, Live
  <2> QED BY <2>1 DEF Sound
<1>2. TypeInv /\ LoneInv /\ SoundInv /\ [Next]_vars => SoundInv'
  BY SoundInvStep
<1> QED BY <1>1, <1>2, LoneInvHolds, PTL DEF Spec

-----------------------------------------------------------------------------
(* Any number of requests at a time.  Two edits may take the same seq, and *)
(* a deletion may run beside an edit; but a seq that is in the history     *)
(* twice is still to be inserted by all but one of the requests that put   *)
(* it there, and the key of the table lets only one of them do so.         *)

InOrder(p) == \A i \in DOMAIN p.history : p.history[i].seq = i - 1

Twice(p, s) ==
  \E i, k \in DOMAIN p.history : i # k /\ p.history[i].seq = s /\ p.history[k].seq = s

Filed(R, s) == \E h \in R : h.seq = s

(* A request that will insert a row with seq s; the one that creates the   *)
(* project; and that one when it is about to insert the project's row.     *)
Owes(r, s) == Writes(r) /\ ~r.collapse /\ r.seq = s
Makes(r)   == r.kind = "create" /\ r.pc # "idle"
Opens(r)   == r.kind = "create" /\ r.pc = "row"
Resting(q) == \A u \in Threads : q[u].pc = "idle"
Founds(r)  == Creates(r) \/ Opens(r)
Awaits(r)  == Opens(r) \/ r.pc = "forget"

Debt(R, q, s) == Filed(R, s) \/ \E t \in Threads : Owes(q[t], s)

Dispute(R, q, s) ==
  \/ Filed(R, s) /\ \E t \in Threads : Owes(q[t], s)
  \/ \E t, u \in Threads : t # u /\ Owes(q[t], s) /\ Owes(q[u], s)

Poised(r, p) ==
  /\ r.pc = "append" /\ InOrder(p) => r.seq <= Len(p.history)
  /\ Writes(r) => Has(p, r.seq)

(* A row w and the rows R of a history without a gap.                      *)
Tabled(w, R) ==
  \E n \in Nat : /\ \A h \in R : h.seq \in 0 .. (n-1)
                 /\ \A i \in 0 .. (n-1) : Filed(R, i)
                 /\ w.current \in 0 .. (n-1)

(* The requests q among themselves, and with the row of the project.       *)
Orderly(q, w, R) ==
  /\ \A t \in Threads :
       /\ Makes(q[t]) \/ q[t].pc = "append" => ~q[t].collapse
       /\ Founds(q[t]) => w = None
  /\ \A t, u \in Threads : Makes(q[t]) /\ Makes(q[u]) => t = u
  /\ w = None => R = {}

(* The object p, its row w and its rows R.                                 *)
Accounted(p, w, R, q) ==
  /\ Has(p, p.current)
  /\ InOrder(p) \/ (\E s \in Nat : Twice(p, s))
  /\ \A h \in R : Has(p, h.seq)
  /\ w # None => Has(p, w.current)
  /\ w # None \/ (\E t \in Threads : Opens(q[t])) =>
       /\ \A s \in Seqs(p) : Debt(R, q, s)
       /\ \A s \in Nat : Twice(p, s) => Dispute(R, q, s)
  /\ \A t \in Threads : Poised(q[t], p)

OverlapInv ==
  ~torn => /\ Orderly(req, row, rows)
           /\ listed /\ row = None => \E t \in Threads : Awaits(req[t])
           /\ project # None => Accounted(project, row, rows, req)
           /\ project = None /\ row # None => Tabled(row, rows)

(* What a history with the same seqs has in common with it.                *)
LEMMA SameSeqs ==
  ASSUME NEW p \in Project, NEW P \in Project, Len(P.history) = Len(p.history),
         \A i \in DOMAIN p.history : P.history[i].seq = p.history[i].seq
  PROVE  /\ Seqs(P) = Seqs(p) /\ InOrder(P) = InOrder(p)
         /\ \A s : Has(P, s) = Has(p, s) /\ Twice(P, s) = Twice(p, s)
         /\ \A r : Poised(r, P) = Poised(r, p)
<1>1. DOMAIN P.history = DOMAIN p.history
  BY ProjectShape
<1>2. Seqs(P) = Seqs(p) /\ InOrder(P) = InOrder(p)
  BY <1>1 DEF Seqs, InOrder
<1>3. \A s : Has(P, s) = Has(p, s) /\ Twice(P, s) = Twice(p, s)
  BY <1>1, <1>2 DEF Has, Twice
<1> QED BY <1>2, <1>3 DEF Poised

LEMMA OrderlyStep ==
  ASSUME NEW q, DOMAIN q = Threads, NEW t \in Threads, NEW b, NEW z,
         z = [q EXCEPT ![t] = b],
         NEW w, NEW W, NEW R, NEW S, Orderly(q, w, R),
         Makes(b) => Makes(q[t]) \/ Resting(q),
         Makes(b) \/ b.pc = "append" => ~b.collapse,
         Founds(b) => W = None,
         W # None => w # None \/ Opens(q[t]),
         W = None => S = {}
  PROVE  Orderly(z, W, S)
<1>1. DOMAIN z = Threads /\ z[t] = b /\ \A u \in Threads \ {t} : z[u] = q[u]
  OBVIOUS
<1>2. \A u \in Threads : Founds(q[u]) \/ Opens(q[u]) => Makes(q[u])
  BY DEF Founds, Creates, Opens, Makes
<1>3. ASSUME NEW u \in Threads
      PROVE  /\ Makes(z[u]) \/ z[u].pc = "append" => ~z[u].collapse
             /\ Founds(z[u]) => W = None
  <2>1. CASE u = t
    BY <1>1, <2>1
  <2>2. CASE u # t
    <3>1. Founds(q[u]) => W = None
      <4>1. Founds(q[u]) => ~Opens(q[t])
        BY <1>2, <2>2 DEF Orderly
      <4> QED BY <4>1 DEF Orderly
    <3> QED BY <1>1, <2>2, <3>1 DEF Orderly
  <2> QED BY <2>1, <2>2
<1>4. ASSUME NEW u \in Threads, NEW v \in Threads, Makes(z[u]), Makes(z[v])
      PROVE  u = v
  BY <1>1, <1>4 DEF Orderly, Makes, Resting
<1> QED BY <1>3, <1>4 DEF Orderly

(* A step after which the same seqs are in the history, in the table and   *)
(* still to be inserted; or the tables are empty.                          *)
LEMMA AccountedStep ==
  ASSUME NEW q, DOMAIN q = Threads, NEW t \in Threads, NEW b, NEW z,
         z = [q EXCEPT ![t] = b],
         NEW p \in Project, NEW P \in Project, Len(P.history) = Len(p.history),
         \A i \in DOMAIN p.history : P.history[i].seq = p.history[i].seq,
         Has(p, P.current),
         NEW w, NEW W, NEW R, NEW S, Orderly(q, w, R), Accounted(p, w, R, q),
         \A s : Owes(b, s) <=> Owes(q[t], s),
         Opens(b) => Opens(q[t]),
         Poised(b, p),
         W # None => (w # None \/ Opens(q[t])) /\ Has(p, W.current),
         \/ \A s : Filed(S, s) <=> Filed(R, s)
         \/ W = None /\ S = {}
  PROVE  Accounted(P, W, S, z)
<1>1. DOMAIN z = Threads /\ z[t] = b /\ \A u \in Threads \ {t} : z[u] = q[u]
  OBVIOUS
<1>2. /\ Seqs(P) = Seqs(p) /\ InOrder(P) = InOrder(p)
      /\ \A s : Has(P, s) = Has(p, s) /\ Twice(P, s) = Twice(p, s)
      /\ \A r : Poised(r, P) = Poised(r, p)
  BY SameSeqs
<1>3. \A u \in Threads : Poised(z[u], P)
  BY <1>1, <1>2 DEF Accounted
<1>4. \A u \in Threads, s \in Nat \cup Seqs(p) : Owes(z[u], s) <=> Owes(q[u], s)
  BY <1>1
<1>5. ASSUME NEW h \in S PROVE Has(P, h.seq)
  <2>1. Filed(S, h.seq)
    BY DEF Filed
  <2>2. Filed(R, h.seq)
    BY <1>5, <2>1
  <2> QED BY <1>2, <2>2 DEF Filed, Accounted
<1>6. ASSUME W # None \/ \E u \in Threads : Opens(z[u])
      PROVE  /\ \A s \in Seqs(P) : Debt(S, z, s)
             /\ \A s \in Nat : Twice(P, s) => Dispute(S, z, s)
  <2>1. w # None \/ \E u \in Threads : Opens(q[u])
    BY <1>1, <1>6
  <2>2. /\ \A s \in Seqs(p) : Debt(R, q, s)
        /\ \A s \in Nat : Twice(p, s) => Dispute(R, q, s)
    BY <2>1 DEF Accounted
  <2>3. \A s : Filed(S, s) <=> Filed(R, s)
    <3>1. CASE W = None /\ S = {}
      <4>1. PICK u \in Threads : Opens(q[u])
        BY <1>1, <1>6, <3>1
      <4>2. R = {}
        BY <4>1 DEF Orderly, Founds
      <4> QED BY <3>1, <4>2
    <3> QED BY <3>1
  <2>4. \A s \in Seqs(p) : Debt(S, z, s)
    BY <1>4, <2>2, <2>3 DEF Debt
  <2>5. ASSUME NEW s \in Nat, Twice(p, s) PROVE Dispute(S, z, s)
    <3>1. Dispute(R, q, s)
      BY <2>2, <2>5
    <3>2. \A u \in Threads : Owes(z[u], s) <=> Owes(q[u], s)
      BY <1>4
    <3> QED BY <2>3, <3>1, <3>2 DEF Dispute
  <2> QED BY <1>2, <2>4, <2>5
<1> QED BY <1>2, <1>3, <1>5, <1>6 DEF Accounted

(* Nobody has anything to insert any more: no seq is there twice, and the  *)
(* table has all of them.                                                  *)
LEMMA AllFiled ==
  ASSUME NEW p \in Project, NEW w, NEW R, NEW q, Accounted(p, w, R, q), w # None,
         \A t \in Threads : q[t].pc \in {"idle", "forget"}
  PROVE  InOrder(p) /\ Tabled(w, R)
<1> DEFINE n == Len(p.history)
<1>1. n \in Nat /\ DOMAIN p.history = 1 .. n
  BY ProjectShape
<1>2. \A s : \A t \in Threads : ~Owes(q[t], s)
  BY DEF Owes, Writes
<1>3. InOrder(p)
  BY <1>2 DEF Accounted, Dispute
<1>4. \A s \in Seqs(p) : Filed(R, s)
  BY <1>2 DEF Accounted, Debt
<1>5. Seqs(p) = 0 .. (n-1)
  <2>1. ASSUME NEW i \in 0 .. (n-1) PROVE i \in Seqs(p)
    <3>1. i + 1 \in DOMAIN p.history /\ (i + 1) - 1 = i
      BY <1>1
    <3>2. p.history[i + 1].seq = i
      BY <1>3, <3>1 DEF InOrder
    <3> QED BY <3>1, <3>2 DEF Seqs
  <2>2. \A i \in DOMAIN p.history : p.history[i].seq \in 0 .. (n-1)
    <3> HIDE DEF n
    <3> QED BY <1>1, <1>3 DEF InOrder
  <2> QED BY <2>1, <2>2 DEF Seqs
<1> HIDE DEF n
<1>6. w.current \in 0 .. (n-1) /\ \A h \in R : h.seq \in 0 .. (n-1)
  BY <1>5 DEF Accounted, Has
<1> QED BY <1>1, <1>3, <1>4, <1>5, <1>6 DEF Tabled

(* And rehydrate reads them in order.                                      *)
LEMMA RehydratedInOrder ==
  ASSUME TypeInv, row # None, Tabled(row, rows), NEW z, z = Rehydrated
  PROVE  /\ z \in Project /\ z # None /\ InOrder(z) /\ Has(z, z.current)
         /\ z.current = row.current
         /\ \A h \in rows : Has(z, h.seq)
         /\ \A s \in Seqs(z) : Filed(rows, s)
<1>1. PICK n \in Nat : /\ \A h \in rows : h.seq \in 0 .. (n-1)
                       /\ \A i \in 0 .. (n-1) : Filed(rows, i)
                       /\ row.current \in 0 .. (n-1)
  BY DEF Tabled
<1>2. Cardinality(rows) = n /\ \A h \in rows : Cardinality({k \in rows : k.seq < h.seq}) = h.seq
  <2>1. \A h, k \in rows : h.seq = k.seq => h = k
    BY DEF TypeInv, RowsOK
  <2>2. \A i \in 0 .. (n-1) : \E h \in rows : h.seq = i
    BY <1>1 DEF Filed
  <2> QED BY <1>1, <2>1, <2>2, RankIsSeq
<1>3. /\ z \in Project /\ z # None /\ z.current = row.current
      /\ DOMAIN z.history = 1 .. n
      /\ \A i \in DOMAIN z.history :
           /\ z.history[i] \in rows
           /\ Cardinality({k \in rows : k.seq < z.history[i].seq}) = i - 1
      /\ \A h \in rows : \E i \in DOMAIN z.history : z.history[i] = h
  BY <1>2, RehydratedIsRows
<1>4. \A i \in DOMAIN z.history : z.history[i].seq = i - 1
  BY <1>2, <1>3
<1>5. \A h \in rows : Has(z, h.seq)
  BY <1>3 DEF Has, Seqs
<1>6. Has(z, z.current)
  BY <1>1, <1>3, <1>5 DEF Filed
<1> QED BY <1>3, <1>4, <1>5, <1>6 DEF InOrder, Seqs, Filed

(* While a project is listed without a row, one request awaits its turn to *)
(* write the row or to take the project from the list.                     *)
LEMMA AwaitsStays ==
  ASSUME OverlapInv, ~torn, DOMAIN req = Threads, NEW t \in Threads, NEW b,
         req' = [req EXCEPT ![t] = b], listed' => listed /\ (Awaits(req[t]) => Awaits(b)), row' = None => row = None
  PROVE  listed' /\ row' = None => \E u \in Threads : Awaits(req'[u])
<1>1. listed' => \A u \in Threads : Awaits(req[u]) => Awaits(req'[u])
  OBVIOUS
<1> QED BY <1>1 DEF OverlapInv

(* A step of a request that leaves the row of the project, the seqs and    *)
(* what is to be inserted as they are.                                     *)
LEMMA CalmKeeps ==
  ASSUME TypeInv, OverlapInv, ~torn, NEW t \in Threads, NEW b,
         req' = [req EXCEPT ![t] = b],
         project \in Project, NEW P \in Project, project' = P,
         Len(P.history) = Len(project.history),
         \A i \in DOMAIN project.history : P.history[i].seq = project.history[i].seq,
         Has(project, P.current),
         Makes(b) => Makes(req[t]),
         Makes(b) \/ b.pc = "append" => ~b.collapse,
         Founds(b) => Founds(req[t]),
         \A s : Owes(b, s) <=> Owes(req[t], s),
         Opens(b) => Opens(req[t]),
         Poised(b, project),
         row' = row, \A s : Filed(rows', s) <=> Filed(rows, s),
         listed' => listed /\ (Awaits(req[t]) => Awaits(b))
  PROVE  OverlapInv'
<1>0. project # None /\ P # None /\ DOMAIN req = Threads
  BY NoneAssumption DEF TypeInv, RequestsOK
<1>1. Orderly(req, row, rows) /\ Accounted(project, row, rows, req)
  BY <1>0 DEF OverlapInv
<1>2. Has(project, row.current) \/ row = None
  BY <1>1 DEF Accounted
<1>3. row = None => rows' = {}
  BY <1>1 DEF Orderly, Filed
<1>4. Founds(b) => row = None
  BY <1>1 DEF Orderly
<1>5. Orderly(req', row, rows')
  BY <1>0, <1>1, <1>3, <1>4, OrderlyStep DEF Orderly
<1>6. Accounted(P, row, rows', req')
  BY <1>0, <1>1, <1>2, AccountedStep
<1>7. listed' /\ row' = None => \E u \in Threads : Awaits(req'[u])
  BY <1>0, AwaitsStays
<1> QED BY <1>0, <1>5, <1>6, <1>7 DEF OverlapInv

(* Requests that begin, with a record that is fresh.                       *)
LEMMA FreshIsCalm ==
  ASSUME NEW b,
         \/ b.pc \in {"status", "cancel", "cancelall", "flag"}
         \/ b.pc = "row" /\ b.kind = "revert",
         b.kind # "create", NEW p
  PROVE  /\ ~Founds(b) /\ ~Opens(b) /\ \A s : ~Owes(b, s)
         /\ Poised(b, p) /\ b.pc # "append" /\ ~Makes(b)
BY DEF Makes, Founds, Creates, Opens, Owes, Writes, Submits, Poised

LEMMA IdleOwesNothing ==
  ASSUME NEW b, b.pc = "idle", NEW p
  PROVE  ~Makes(b) /\ ~Founds(b) /\ ~Opens(b) /\ (\A s : ~Owes(b, s)) /\ Poised(b, p)
BY DEF Makes, Founds, Creates, Opens, Owes, Writes, Poised

LEMMA BeginsKeep ==
  ASSUME TypeInv, OverlapInv, ~torn, NEW t \in Threads, NEW b,
         req' = [req EXCEPT ![t] = b], listed, req[t].pc = "idle",
         \/ b.pc \in {"status", "cancel", "cancelall", "flag"}
         \/ b.pc = "row" /\ b.kind = "revert",
         b.kind # "create", NEW P \in Project, project' = P,
         Len(P.history) = Len(project.history),
         \A i \in DOMAIN project.history : P.history[i].seq = project.history[i].seq,
         Has(project, P.current), UNCHANGED <<listed, row, rows>>
  PROVE  OverlapInv'
<1>1. project \in Project
  BY ListedProject
<1>2. /\ ~Founds(b) /\ ~Opens(b) /\ \A s : ~Owes(b, s)
      /\ Poised(b, project) /\ b.pc # "append" /\ ~Makes(b)
  BY FreshIsCalm
<1>3. ~Awaits(req[t]) /\ \A s : ~Owes(req[t], s)
  BY IdleOwesNothing DEF Awaits
<1>4. \A s : Filed(rows', s) <=> Filed(rows, s)
  OBVIOUS
<1> QED BY <1>1, <1>2, <1>3, <1>4, CalmKeeps

LEMMA EditInOrder ==
  ASSUME TypeInv, OverlapInv, ~torn, NEW t \in Threads, Edit(t)
  PROVE  OverlapInv'
<1>1. ASSUME NEW s \in Sessions, NEW o \in Overrides, Create(t, s, o) PROVE OverlapInv'
  <2> DEFINE b == [Idle EXCEPT !.pc = "submit", !.kind = "create",
                               !.sessions = s, !.version = 1, !.overrides = o]
  <2>1. /\ req' = [req EXCEPT ![t] = b] /\ row = None /\ project = None
        /\ UNCHANGED <<project, listed, row, rows, torn>>
        /\ \A u \in Threads : req[u].pc = "idle"
    BY <1>1 DEF Create, disk
  <2>2. b.pc = "submit" /\ b.kind = "create" /\ ~b.collapse
    BY DEF Idle
  <2>6. Resting(req)
    BY <2>1 DEF Resting
  <2> HIDE DEF b
  <2>3. ~listed /\ DOMAIN req = Threads
    BY <2>1 DEF TypeInv, TypeOK, RequestsOK
  <2>4. Orderly(req, row, rows)
    BY DEF OverlapInv
  <2>5. Orderly(req', row', rows')
    <3>1. row' = row /\ rows' = rows /\ row = None /\ rows = {} /\ b.pc # "append"
      BY <2>1, <2>2, <2>3, <2>4 DEF Orderly
    <3>3. req'[t] = b /\ \A u \in Threads \ {t} : req'[u].pc = "idle"
      BY <2>1, <2>3
    <3>4. \A u \in Threads \ {t} : ~Makes(req'[u]) /\ ~Founds(req'[u]) /\ req'[u].pc # "append"
      BY <3>3, IdleOwesNothing
    <3> QED BY <2>2, <3>1, <3>3, <3>4 DEF Orderly
  <2> QED BY <2>1, <2>3, <2>5 DEF OverlapInv
<1>2. ASSUME NEW b, req' = [req EXCEPT ![t] = b], listed, req[t].pc = "idle",
             b.pc \in {"status", "cancel"}, b.kind \in Kinds,
             UNCHANGED <<project, listed, disk, queue, torn>>
      PROVE  OverlapInv'
  <2>1. project \in Project /\ project # None
    BY <1>2, ListedProject
  <2>2. Has(project, project.current)
    BY <2>1 DEF OverlapInv, Accounted
  <2>3. b.kind # "create" /\ UNCHANGED <<project, listed, row, rows>>
    BY <1>2 DEF Kinds, disk
  <2> QED BY <1>2, <2>1, <2>2, <2>3, BeginsKeep
<1>3. ASSUME NEW set \in Overrides, NEW reset \in Overrides, Patch(t, set, reset)
      PROVE  OverlapInv'
  <2> DEFINE c == Current(project)
             o == Merged(c.overrides, set, reset)
             b == [Idle EXCEPT !.pc = "status", !.kind = "edit", !.prev = c, !.overrides = o]
  <2>1. /\ req' = [req EXCEPT ![t] = b] /\ listed /\ req[t].pc = "idle"
        /\ UNCHANGED <<project, listed, disk, queue, torn>>
    BY <1>3 DEF Patch
  <2> HIDE DEF c, o
  <2>2. b.pc = "status" /\ b.kind \in Kinds
    BY DEF Idle, Kinds
  <2> HIDE DEF b
  <2> QED BY <1>2, <2>1, <2>2
<1>4. ASSUME NEW s \in Sessions, NEW o \in Overrides, NEW render \in BOOLEAN,
             SwapSessions(t, s, o, render)
      PROVE  OverlapInv'
  <2> DEFINE c == Current(project)
             x == Merged(o, c.overrides, {})
             b == [Idle EXCEPT !.pc = "cancel", !.kind = "swap_sessions", !.prev = c,
                               !.sessions = s, !.render = render, !.overrides = x]
  <2>1. /\ req' = [req EXCEPT ![t] = b] /\ listed /\ req[t].pc = "idle"
        /\ UNCHANGED <<project, listed, disk, queue, torn>>
    BY <1>4 DEF SwapSessions
  <2> HIDE DEF c, x
  <2>2. b.pc = "cancel" /\ b.kind \in Kinds
    BY DEF Idle, Kinds
  <2> HIDE DEF b
  <2> QED BY <1>2, <2>1, <2>2
<1>5. ASSUME NEW v \in Versions, UpgradeTemplate(t, v) PROVE OverlapInv'
  <2> DEFINE c == Current(project)
             x == Migrated(c.overrides, v)
             b == [Idle EXCEPT !.pc = "cancel", !.kind = "template_upgrade", !.prev = c,
                               !.version = v, !.overrides = x]
  <2>1. /\ req' = [req EXCEPT ![t] = b] /\ listed /\ req[t].pc = "idle"
        /\ UNCHANGED <<project, listed, disk, queue, torn>>
    BY <1>5 DEF UpgradeTemplate
  <2> HIDE DEF c, x
  <2>2. b.pc = "cancel" /\ b.kind \in Kinds
    BY DEF Idle, Kinds
  <2> HIDE DEF b
  <2> QED BY <1>2, <2>1, <2>2
<1> QED BY <1>1, <1>3, <1>4, <1>5 DEF Edit

LEMMA PointInOrder ==
  ASSUME TypeInv, OverlapInv, ~torn, NEW t \in Threads, Point(t) \/ Delete(t)
  PROVE  OverlapInv'
<1>1. ASSUME NEW seq \in 0 .. MaxSeq, Revert(t, seq) PROVE OverlapInv'
  <2> DEFINE b == [Idle EXCEPT !.pc = "row", !.kind = "revert"]
  <2>1. /\ req' = [req EXCEPT ![t] = b] /\ listed /\ req[t].pc = "idle"
        /\ Has(project, seq) /\ project' = [project EXCEPT !.current = seq]
        /\ UNCHANGED <<listed, row, rows>>
    BY <1>1 DEF Revert, disk
  <2>2. b.pc = "row" /\ b.kind = "revert"
    BY DEF Idle
  <2> HIDE DEF b
  <2>3. project \in Project /\ seq \in Nat
    BY <2>1, ListedProject, ProjectAssumption
  <2>4. PICK P : P = project'
    OBVIOUS
  <2>5. P \in Project /\ P.history = project.history /\ P.current = seq
    BY <2>1, <2>3, <2>4, CurrentReplaced
  <2> QED BY <2>1, <2>2, <2>4, <2>5, BeginsKeep
<1>2. ASSUME NEW seq \in 0 .. MaxSeq, NEW published \in BOOLEAN,
             SetPublished(t, seq, published)
      PROVE  OverlapInv'
  <2> DEFINE b == [Idle EXCEPT !.pc = "flag", !.kind = "published",
                               !.seq = seq, !.published = published]
             i == IndexOf(project, seq)
             e == [project.history[i] EXCEPT !.published = published]
  <2>1. /\ req' = [req EXCEPT ![t] = b] /\ listed /\ Has(project, seq)
        /\ req[t].pc = "idle"
        /\ project' = [project EXCEPT !.history[i].published = published]
        /\ UNCHANGED <<listed, row, rows>>
    BY <1>2 DEF SetPublished, disk
  <2>2. b.pc = "flag" /\ b.kind = "published"
    BY DEF Idle
  <2> HIDE DEF b
  <2>3. project \in Project /\ project # None /\ i \in DOMAIN project.history
    BY <2>1, ListedProject
  <2>4. e \in Entry /\ e.seq = project.history[i].seq
    BY <2>3, ProjectShape DEF Entry
  <2>5. PICK P : P = project'
    OBVIOUS
  <2>6. P = [project EXCEPT !.history[i] = e]
    BY <2>1, <2>5
  <2> HIDE DEF e, i
  <2>7. /\ P \in Project /\ Len(P.history) = Len(project.history)
        /\ P.current = project.current
        /\ \A k \in DOMAIN project.history : P.history[k].seq = project.history[k].seq
    BY <2>3, <2>4, <2>6, EntryReplaced
  <2>8. Has(project, P.current)
    BY <2>3, <2>7 DEF OverlapInv, Accounted
  <2> QED BY <2>1, <2>2, <2>5, <2>7, <2>8, BeginsKeep
<1>3. ASSUME Delete(t) PROVE OverlapInv'
  <2> DEFINE todo == {project.history[i].job : i \in DOMAIN project.history}
             b == [Idle EXCEPT !.pc = "cancelall", !.kind = "delete", !.todo = todo]
  <2>1. /\ req' = [req EXCEPT ![t] = b] /\ listed /\ req[t].pc = "idle"
        /\ UNCHANGED <<project, listed, row, rows>>
    BY <1>3 DEF Delete, disk
  <2> HIDE DEF todo
  <2>2. b.pc = "cancelall" /\ b.kind = "delete"
    BY DEF Idle
  <2> HIDE DEF b
  <2>3. project \in Project /\ project # None
    BY <2>1, ListedProject
  <2>4. Has(project, project.current)
    BY <2>3 DEF OverlapInv, Accounted
  <2> QED BY <2>1, <2>2, <2>3, <2>4, BeginsKeep
<1> QED BY <1>1, <1>2, <1>3 DEF Point

(* A request under way that leaves the object and the tables alone, and    *)
(* goes to a place where it has nothing to insert.                         *)
LEMMA MovesKeep ==
  ASSUME TypeInv, OverlapInv, ~torn, NEW t \in Threads, NEW b,
         req' = [req EXCEPT ![t] = b],
         req[t].pc \in {"status", "cancel", "submit", "apply", "cancelall"},
         ~Creates(req[t]), b.kind = req[t].kind,
         b.pc \in {"cancel", "submit", "apply", "append", "cancelall"},
         b.pc = "append" => ~b.collapse /\ (InOrder(project) => b.seq <= Len(project.history)),
         b.kind = "create" => b.pc = "cancelall" /\ ~b.collapse,
         UNCHANGED <<listed, row, rows>>,
         NEW P \in Project, project' = P, P.history = project.history,
         P.current = project.current
  PROVE  OverlapInv'
<1>1. project \in Project /\ project # None
  BY AtWork
<1>2. Has(project, project.current)
  BY <1>1 DEF OverlapInv, Accounted
<1>3. /\ ~Opens(req[t]) /\ \A s : ~Owes(req[t], s)
      /\ ~Opens(b) /\ \A s : ~Owes(b, s)
  BY DEF Opens, Owes, Writes
<1>8. ~Awaits(req[t])
  BY DEF Awaits, Opens
<1>4. ~Founds(b)
  BY DEF Founds, Creates, Opens
<1>5. Poised(b, project)
  BY DEF Poised, Writes
<1>6. \A s : Filed(rows', s) <=> Filed(rows, s)
  OBVIOUS
<1>7. Makes(b) => Makes(req[t]) /\ ~b.collapse
  BY DEF Makes
<1> QED BY <1>1, <1>2, <1>3, <1>4, <1>5, <1>6, <1>7, <1>8, CalmKeeps

LEMMA RequestsInOrder ==
  ASSUME TypeInv, OverlapInv, ~torn, NEW t \in Threads,
         \/ ReadStatus(t) \/ CancelPrev(t) \/ PickSeq(t)
         \/ \E j \in Jobs : Submit(t, j) \/ DeleteCancels(t, j)
  PROVE  OverlapInv'
<1> DEFINE q == req[t]
<1>0. RequestOK(q, project, made) /\ q \in Request /\ DOMAIN req = Threads
  BY RequestAtWork DEF TypeInv, RequestsOK
<1>a. Orderly(req, row, rows)
  BY DEF OverlapInv
<1>1. CASE ReadStatus(t)
  <2> DEFINE c == Collapses(t)
             b == [q EXCEPT !.pc = "cancel", !.collapse = c]
  <2>1. /\ q.pc = "status" /\ UNCHANGED <<project, listed, row, rows>>
        /\ req' = [req EXCEPT ![t] = b]
    BY <1>1 DEF ReadStatus, disk
  <2>2. q.kind = "edit"
    BY <1>0, <2>1 DEF RequestOK
  <2> HIDE DEF c, q
  <2>3. b.pc = "cancel" /\ b.kind = "edit"
    BY <1>0, <2>2 DEF Request
  <2> HIDE DEF b
  <2>4. project \in Project /\ ~Creates(req[t])
    BY <2>1, <2>2, AtWork DEF q, Creates
  <2> QED BY <2>1, <2>2, <2>3, <2>4, MovesKeep DEF q
<1>2. CASE CancelPrev(t)
  <2> DEFINE c == q.kind = "edit" /\ (q.collapse \/ Live(q.prev.job))
             pc == IF q.render THEN "submit" ELSE "apply"
             j == EntryJob(q)
             b == [q EXCEPT !.collapse = c, !.job = j, !.pc = pc]
  <2>1. /\ q.pc = "cancel" /\ UNCHANGED <<listed, row, rows>>
        /\ req' = [req EXCEPT ![t] = b]
        /\ q.kind = "edit" => project' = project
        /\ q.kind = "swap_sessions" => project' = [project EXCEPT !.sessions = q.sessions]
        /\ q.kind = "template_upgrade" => project' = [project EXCEPT !.version = q.version]
    BY <1>2 DEF CancelPrev, disk
  <2>2. /\ q.kind \in Kinds
        /\ q.kind = "swap_sessions" => q.sessions \in Sessions
        /\ q.kind = "template_upgrade" => q.version \in Versions
    BY <1>0, <2>1 DEF RequestOK
  <2>3. pc \in {"submit", "apply"}
    OBVIOUS
  <2> HIDE DEF c, j, pc, q
  <2>4. b.pc = pc /\ b.kind = q.kind
    BY <1>0 DEF Request
  <2> HIDE DEF b
  <2>5. project \in Project /\ ~Creates(req[t]) /\ q.kind # "create"
    BY <2>1, <2>2, AtWork DEF q, Creates, Kinds
  <2>6. PICK P : P = project'
    OBVIOUS
  <2>7. P \in Project /\ P.history = project.history /\ P.current = project.current
    <3>1. CASE q.kind = "edit"
      BY <2>1, <2>5, <2>6, <3>1
    <3>2. CASE q.kind = "swap_sessions"
      BY <2>1, <2>2, <2>5, <2>6, <3>2, SessionsReplaced
    <3>3. CASE q.kind = "template_upgrade"
      BY <2>1, <2>2, <2>5, <2>6, <3>3, VersionReplaced
    <3> QED BY <2>2, <3>1, <3>2, <3>3 DEF Kinds
  <2> QED BY <2>1, <2>3, <2>4, <2>5, <2>6, <2>7, MovesKeep DEF q
<1>3. CASE PickSeq(t)
  <2> DEFINE n == NextSeq(project)
             b == [q EXCEPT !.pc = "append", !.seq = n]
  <2>1. /\ q.pc = "apply" /\ q.kind # "create" /\ ~q.collapse
        /\ req' = [req EXCEPT ![t] = b] /\ UNCHANGED <<project, listed, row, rows>>
    BY <1>3 DEF PickSeq, disk
  <2>2. /\ project \in Project /\ project # None /\ project.history # <<>>
        /\ ~Creates(req[t])
    BY <1>0, <2>1, AtWork DEF RequestOK, Creates
  <2>3. n \in Nat /\ (InOrder(project) => n = Len(project.history))
    BY <2>2, NextSeqFits, NextSeqOfLinear DEF InOrder
  <2> HIDE DEF n, q
  <2>4. b.pc = "append" /\ b.kind = q.kind /\ b.collapse = q.collapse /\ b.seq = n
    BY <1>0 DEF Request
  <2> HIDE DEF b
  <2>5. Len(project.history) \in Nat
    BY <2>2, ProjectShape
  <2>6. InOrder(project) => b.seq <= Len(project.history)
    BY <2>3, <2>4, <2>5
  <2> QED BY <2>1, <2>2, <2>4, <2>6, MovesKeep DEF q
<1>4. ASSUME NEW j \in Jobs, Submit(t, j) PROVE OverlapInv'
  <2> DEFINE b == [q EXCEPT !.pc = "apply", !.job = j]
  <2>1. /\ q.pc = "submit" /\ UNCHANGED <<project, listed, row, rows>>
        /\ req' = [req EXCEPT ![t] = b]
    BY <1>4 DEF Submit, disk
  <2> HIDE DEF q
  <2>2. b.pc = "apply" /\ b.kind = q.kind /\ b.collapse = q.collapse
    BY <1>0 DEF Request
  <2> HIDE DEF b
  <2>3. CASE Creates(q)
    <3>1. project = None /\ ~listed /\ row = None
      BY <1>a, <2>3 DEF q, TypeInv, RequestsOK, Orderly, Founds
    <3>2. b.kind = "create" /\ q.kind = "create"
      BY <2>2, <2>3 DEF Creates
    <3>3. ~b.collapse /\ rows = {}
      BY <1>a, <2>1, <2>2, <3>1, <3>2 DEF Orderly, q, Makes
    <3>5. Makes(req[t])
      BY <2>1, <3>2 DEF Makes, q
    <3>4. Orderly(req', row', rows')
      BY <1>0, <1>a, <2>1, <2>2, <3>1, <3>3, <3>5, OrderlyStep DEF q
    <3> QED BY <2>1, <3>1, <3>4 DEF OverlapInv
  <2>4. CASE ~Creates(q)
    <3>1. project \in Project /\ b.kind # "create"
      BY <2>1, <2>2, <2>4, AtWork DEF q, Creates
    <3> QED BY <2>1, <2>2, <2>4, <3>1, MovesKeep DEF q
  <2> QED BY <2>3, <2>4
<1>5. ASSUME NEW j \in Jobs, DeleteCancels(t, j) PROVE OverlapInv'
  <2> DEFINE x == q.todo \ {j}
             b == [q EXCEPT !.todo = x]
  <2>1. /\ q.pc = "cancelall" /\ UNCHANGED <<project, listed, row, rows>>
        /\ req' = [req EXCEPT ![t] = b]
    BY <1>5 DEF DeleteCancels, disk
  <2> HIDE DEF q, x
  <2>2. b.pc = "cancelall" /\ b.kind = q.kind /\ b.collapse = q.collapse
    BY <1>0, <2>1 DEF Request
  <2> HIDE DEF b
  <2>3. project \in Project /\ ~Creates(req[t]) /\ (q.kind = "create" => ~q.collapse)
    BY <1>a, <2>1, AtWork DEF q, Creates, Orderly, Makes
  <2> QED BY <2>1, <2>2, <2>3, MovesKeep DEF q
<1> QED BY <1>1, <1>2, <1>3, <1>4, <1>5

(* create: the first entry, whose rows the request will insert.            *)
LEMMA BuiltInOrder ==
  ASSUME TypeInv, OverlapInv, ~torn, NEW t \in Threads, Built(t)
  PROVE  OverlapInv'
<1> DEFINE q == req[t]
           b == [q EXCEPT !.pc = "row", !.seq = 0]
           e == [NewEntry(t) EXCEPT !.seq = 0]
<1>1. /\ q.pc = "apply" /\ q.kind = "create" /\ req' = [req EXCEPT ![t] = b]
      /\ project' = [current |-> 0, version |-> q.version, sessions |-> q.sessions,
                     history |-> <<e>>]
      /\ UNCHANGED <<row, rows>>
  BY DEF Built, disk
<1>2. /\ RequestOK(q, project, made) /\ q \in Request /\ DOMAIN req = Threads
      /\ Orderly(req, row, rows) /\ Creates(q)
  BY <1>1, RequestAtWork DEF TypeInv, RequestsOK, OverlapInv, Creates
<1>3. /\ row = None /\ rows = {} /\ ~q.collapse
      /\ \A u \in Threads \ {t} : req[u].pc = "idle"
  BY <1>1, <1>2 DEF TypeInv, RequestsOK, Orderly, Founds, Makes
<1>4. e.seq = 0
  <2>1. q.job \in Jobs /\ q.kind \in Submits
    BY <1>1, <1>2 DEF RequestOK, HasJob, Submits
  <2> DEFINE n == NewEntry(t)
  <2>2. /\ n \in [seq : {req[t].seq}, job : Jobs, overrides : Overrides,
                  published : BOOLEAN, kind : Kinds]
    BY <1>2, <2>1, NewEntryFits
  <2> HIDE DEF n
  <2> QED BY <2>2, EntrySet DEF n
<1> HIDE DEF q, e
<1>5. b.pc = "row" /\ b.kind = "create" /\ b.collapse = q.collapse /\ b.seq = 0
  BY <1>1, <1>2 DEF Request
<1> HIDE DEF b
<1>6. Orderly(req', row', rows')
  <2>1. Opens(b) /\ b.pc # "idle" /\ ~b.collapse /\ row' = None /\ rows' = {}
    BY <1>1, <1>3, <1>5 DEF Opens
  <2>2. Makes(req[t]) /\ req' = [req EXCEPT ![t] = b]
    BY <1>1 DEF q, Makes
  <2> QED BY <1>2, <2>1, <2>2, OrderlyStep
<1>7. PICK P : P = project'
  OBVIOUS
<1>8. P.current = 0 /\ DOMAIN P.history = {1} /\ P.history[1].seq = 0 /\ Len(P.history) = 1
  BY <1>1, <1>4, <1>7
<1>9. Seqs(P) = {0} /\ InOrder(P) /\ \A s : ~Twice(P, s)
  BY <1>8 DEF Seqs, InOrder, Twice
<1>10. req'[t] = b /\ \A u \in Threads \ {t} : req'[u].pc = "idle"
  BY <1>1, <1>2, <1>3
<1>11. Debt({}, req', 0)
  BY <1>3, <1>5, <1>10 DEF Debt, Owes, Writes, Submits
<1>12. \A u \in Threads : Poised(req'[u], P)
  BY <1>5, <1>9, <1>10, IdleOwesNothing DEF Poised, Has
<1>13. Accounted(P, None, {}, req')
  BY <1>8, <1>9, <1>11, <1>12 DEF Accounted, Has
<1>14. row' = None /\ rows' = {}
  BY <1>1, <1>3
<1>15. Awaits(req'[t])
  BY <1>5, <1>10 DEF Awaits, Opens
<1> QED BY <1>6, <1>7, <1>13, <1>14, <1>15 DEF OverlapInv

(* An edit that collapses: the entry changes and its seq stays.            *)
LEMMA ReplaceInOrder ==
  ASSUME TypeInv, OverlapInv, ~torn, NEW t \in Threads, Replace(t)
  PROVE  OverlapInv'
<1> DEFINE q == req[t]
           i == IndexOf(project, q.prev.seq)
           old == IF project.history[i].job = q.prev.job THEN project.history[i] ELSE q.prev
           pub == old.published
           n == NewEntry(t)
           e == [n EXCEPT !.seq = q.prev.seq, !.published = pub]
           x == q.prev.seq
           b == [q EXCEPT !.pc = "row", !.seq = x]
<1>1. /\ q.pc = "apply" /\ q.kind = "edit" /\ q.collapse /\ req' = [req EXCEPT ![t] = b]
      /\ project' = [project EXCEPT !.history[i] = e]
      /\ UNCHANGED <<listed, row, rows>>
  BY DEF Replace, disk
<1>2. /\ RequestOK(q, project, made) /\ q \in Request /\ project \in Project
      /\ project # None
  BY <1>1, RequestAtWork, AtWork DEF Creates
<1>3. q.prev \in Entry /\ Has(project, x) /\ x \in Nat
  BY <1>1, <1>2 DEF RequestOK, Supersedes, Entry
<1>4. /\ i \in DOMAIN project.history /\ project.history[i].seq = x
      /\ project.history[i] \in Entry
  BY <1>2, <1>3, IndexFits, ProjectShape
<1>5. e \in Entry /\ e.seq = x
  <2>1. pub \in BOOLEAN
    BY <1>3, <1>4 DEF Entry
  <2>2. q.job \in Jobs /\ q.kind \in Submits
    BY <1>1, <1>2 DEF RequestOK, HasJob, Submits
  <2>3. n \in [seq : {req[t].seq}, job : Jobs, overrides : Overrides,
               published : BOOLEAN, kind : Kinds]
    BY <1>2, <2>2, NewEntryFits
  <2> HIDE DEF n, pub
  <2> QED BY <1>3, <2>1, <2>3, EntrySet
<1> HIDE DEF q, i, e, x
<1>6. b.pc = "row" /\ b.kind = "edit" /\ b.collapse /\ b.seq = x
  BY <1>1, <1>2 DEF Request
<1> HIDE DEF b
<1>7. PICK P : P = project'
  OBVIOUS
<1>8. /\ P \in Project /\ Len(P.history) = Len(project.history)
      /\ P.current = project.current
      /\ \A k \in DOMAIN project.history : P.history[k].seq = project.history[k].seq
  BY <1>1, <1>2, <1>4, <1>5, <1>7, EntryReplaced
<1>9. Has(project, P.current)
  BY <1>2, <1>8 DEF OverlapInv, Accounted
<1>10. /\ ~Makes(b) /\ ~Founds(b) /\ ~Opens(b) /\ ~Opens(q) /\ Poised(b, project)
       /\ \A s : ~Owes(b, s) /\ ~Owes(q, s)
  BY <1>1, <1>3, <1>6 DEF Makes, Founds, Creates, Opens, Owes, Writes, Poised
<1>11. \A s : Filed(rows', s) <=> Filed(rows, s)
  BY <1>1
<1>12. ~Awaits(q)
  BY <1>1 DEF Awaits, Opens
<1> QED BY <1>1, <1>2, <1>6, <1>7, <1>8, <1>9, <1>10, <1>11, <1>12, CalmKeeps DEF q

(* An entry with a seq that was free when it was picked: it goes on in     *)
(* order, or the seq is there twice from now on.                           *)
LEMMA AppendInOrder ==
  ASSUME TypeInv, OverlapInv, ~torn, NEW t \in Threads, AppendEntry(t)
  PROVE  OverlapInv'
<1> DEFINE q == req[t]
           b == [q EXCEPT !.pc = "row"]
<1>1. /\ q.pc = "append" /\ req' = [req EXCEPT ![t] = b] /\ UNCHANGED <<listed, row, rows>>
  BY DEF AppendEntry, Goto, disk
<1>2. /\ RequestOK(q, project, made) /\ q \in Request /\ DOMAIN req = Threads
      /\ Orderly(req, row, rows)
  BY RequestAtWork DEF TypeInv, RequestsOK, OverlapInv
<1>3. q.kind \in Kinds /\ q.seq \in Nat /\ ~q.collapse
  BY <1>1, <1>2 DEF RequestOK, HasSeq, Orderly
<1>4. PICK p \in Project, e \in Entry :
        /\ p = project /\ project # None /\ project' # None /\ e.seq = q.seq
        /\ project'.history = Append(p.history, e)
        /\ project'.current = q.seq
  BY Appends
<1> HIDE DEF q
<1>5. b.pc = "row" /\ b.kind = q.kind /\ b.collapse = q.collapse /\ b.seq = q.seq
  BY <1>2 DEF Request
<1> HIDE DEF b
<1>6. /\ ~Opens(b) /\ ~Founds(b) /\ ~Makes(b)
      /\ \A s : ~Owes(q, s) /\ (Owes(b, s) <=> s = q.seq)
  BY <1>1, <1>3, <1>5 DEF Makes, Opens, Founds, Creates, Owes, Writes, Kinds, Submits
<1>7. Orderly(req', row', rows')
  <2>1. PICK w, R : w = row' /\ R = rows'
    OBVIOUS
  <2>2. /\ Makes(b) => Makes(req[t]) \/ Resting(req)
        /\ Makes(b) \/ b.pc = "append" => ~b.collapse
        /\ Founds(b) => w = None
        /\ w # None => row # None \/ Opens(req[t])
        /\ w = None => R = {}
    BY <2>1, <1>1, <1>2, <1>5, <1>6 DEF Orderly
  <2>3. Orderly(req', w, R)
    BY <1>1, <1>2, <2>2, OrderlyStep
  <2> QED BY <2>1, <2>3
<1>8. PICK P : P = project'
  OBVIOUS
<1>9. PICK n \in Nat :
        /\ n = Len(p.history) /\ Len(P.history) = n + 1
        /\ DOMAIN P.history = 1 .. (n + 1) /\ P.history[n + 1] = e
        /\ DOMAIN p.history = 1 .. n
        /\ \A k \in DOMAIN p.history : P.history[k] = p.history[k]
  <2>1. P.history = Append(p.history, e)
    BY <1>4, <1>8
  <2>2. /\ Len(P.history) = Len(p.history) + 1
        /\ DOMAIN P.history = 1 .. (Len(p.history) + 1)
        /\ P.history[Len(p.history) + 1] = e
        /\ \A k \in DOMAIN p.history : P.history[k] = p.history[k]
    BY <1>4, <2>1, EntryAdded
  <2>3. Len(p.history) \in Nat /\ DOMAIN p.history = 1 .. Len(p.history)
    BY <1>4, ProjectShape
  <2> QED BY <2>2, <2>3
<1>10. /\ DOMAIN req' = Threads /\ req'[t] = b
       /\ \A u \in Threads \ {t} : req'[u] = req[u]
  BY <1>1, <1>2
<1>11. Accounted(p, row, rows, req) /\ Poised(q, p)
  BY <1>4 DEF OverlapInv, Accounted, q
<1>12. Seqs(P) = Seqs(p) \cup {q.seq}
  <2>1. \A k \in 1 .. (n + 1) : k \in 1 .. n \/ k = n + 1
    OBVIOUS
  <2>2. n + 1 \in 1 .. (n + 1) /\ \A k \in 1 .. n : k \in 1 .. (n + 1)
    OBVIOUS
  <2> QED BY <1>4, <1>9, <2>1, <2>2 DEF Seqs
<1>13. \A s : Has(p, s) => Has(P, s)
  BY <1>12 DEF Has
<1>14. Has(P, q.seq) /\ P.current = q.seq
  BY <1>4, <1>8, <1>12 DEF Has
<1>15. \A s : Twice(p, s) => Twice(P, s)
  BY <1>9 DEF Twice
<1>16. ASSUME NEW s, Twice(P, s) PROVE Twice(p, s) \/ (s = q.seq /\ s \in Seqs(p))
  <2>1. PICK i \in 1 .. (n + 1), k \in 1 .. (n + 1) :
          i # k /\ P.history[i].seq = s /\ P.history[k].seq = s
    BY <1>9, <1>16 DEF Twice
  <2>2. CASE i \in 1 .. n /\ k \in 1 .. n
    BY <1>9, <2>1, <2>2 DEF Twice
  <2>3. CASE i = n + 1
    <3>1. k \in 1 .. n
      BY <2>1, <2>3
    <3> QED BY <1>4, <1>9, <2>1, <2>3, <3>1 DEF Seqs
  <2>4. CASE k = n + 1
    <3>1. i \in 1 .. n
      BY <2>1, <2>4
    <3> QED BY <1>4, <1>9, <2>1, <2>4, <3>1 DEF Seqs
  <2> QED BY <2>2, <2>3, <2>4
<1>17. InOrder(P) => InOrder(p)
  BY <1>9 DEF InOrder
<1>18. InOrder(P) \/ (\E s \in Nat : Twice(P, s))
  <2>1. CASE \E s \in Nat : Twice(p, s)
    BY <1>15, <2>1
  <2>2. CASE InOrder(p)
    <3>1. q.seq <= n
      BY <1>1, <1>9, <1>11, <2>2 DEF Poised
    <3>2. CASE q.seq = n
      <4>1. \A k \in 1 .. n : P.history[k].seq = k - 1
        BY <1>9, <2>2 DEF InOrder
      <4>2. P.history[n + 1].seq = (n + 1) - 1
        BY <1>4, <1>9, <3>2
      <4>3. \A k \in 1 .. (n + 1) : k \in 1 .. n \/ k = n + 1
        OBVIOUS
      <4> QED BY <1>9, <4>1, <4>2, <4>3 DEF InOrder
    <3>3. CASE q.seq < n
      <4>1. q.seq + 1 \in 1 .. n /\ (q.seq + 1) - 1 = q.seq /\ q.seq + 1 # n + 1
        BY <1>3, <3>3
      <4>2. P.history[q.seq + 1].seq = q.seq
        BY <1>9, <2>2, <4>1 DEF InOrder
      <4>3. n + 1 \in 1 .. (n + 1) /\ q.seq + 1 \in 1 .. (n + 1)
        BY <4>1
      <4>4. Twice(P, q.seq)
        BY <1>4, <1>9, <4>1, <4>2, <4>3 DEF Twice
      <4> QED BY <1>3, <4>4
    <3> QED BY <1>3, <3>1, <3>2, <3>3
  <2> QED BY <1>11, <2>1, <2>2 DEF Accounted
<1>19. ASSUME NEW u \in Threads PROVE Poised(req'[u], P)
  <2>1. CASE u = t
    BY <1>5, <1>10, <1>14, <2>1 DEF Poised
  <2>2. CASE u # t
    <3>1. Poised(req[u], p) /\ RequestOK(req[u], project, made)
      BY <1>11, RequestAtWork DEF Accounted
    <3>2. req[u].pc = "append" => req[u].seq \in Nat
      BY <3>1 DEF RequestOK, HasSeq
    <3>3. req[u].pc = "append" /\ InOrder(P) => req[u].seq <= Len(P.history)
      <4>1. req[u].pc = "append" /\ InOrder(P) => req[u].seq <= n
        BY <1>9, <1>17, <3>1 DEF Poised
      <4> QED BY <1>9, <3>2, <4>1
    <3> QED BY <1>10, <1>13, <2>2, <3>1, <3>3 DEF Poised
  <2> QED BY <2>1, <2>2
<1>20. ASSUME row # None \/ \E u \in Threads : Opens(req'[u])
       PROVE  /\ \A s \in Seqs(P) : Debt(rows, req', s)
              /\ \A s \in Nat : Twice(P, s) => Dispute(rows, req', s)
  <2>1. row # None \/ \E u \in Threads : Opens(req[u])
    BY <1>6, <1>10, <1>20
  <2>2. /\ \A s \in Seqs(p) : Debt(rows, req, s)
        /\ \A s \in Nat : Twice(p, s) => Dispute(rows, req, s)
    BY <1>11, <2>1 DEF Accounted
  <2>3. \A s : \A u \in Threads : Owes(req[u], s) => u # t /\ Owes(req'[u], s)
    BY <1>6, <1>10 DEF q
  <2>4. Owes(req'[t], q.seq)
    BY <1>6, <1>10
  <2>5. \A s : Debt(rows, req, s) => Debt(rows, req', s)
    BY <2>3 DEF Debt
  <2>6. \A s : Dispute(rows, req, s) => Dispute(rows, req', s)
    BY <2>3 DEF Dispute
  <2>7. Debt(rows, req, q.seq) => Dispute(rows, req', q.seq)
    BY <2>3, <2>4 DEF Debt, Dispute
  <2>8. Debt(rows, req', q.seq)
    BY <2>4 DEF Debt
  <2> QED BY <1>12, <1>16, <2>2, <2>5, <2>6, <2>7, <2>8
<1>21. Accounted(P, row, rows, req')
  <2>1. \A h \in rows : Has(P, h.seq)
    BY <1>11, <1>13 DEF Accounted
  <2>2. row # None => Has(P, row.current)
    BY <1>11, <1>13 DEF Accounted
  <2> QED BY <1>14, <1>18, <1>19, <1>20, <2>1, <2>2 DEF Accounted
<1>22. ~Awaits(req[t])
  BY <1>1 DEF Awaits, Opens, q
<1>23. listed' /\ row' = None => \E u \in Threads : Awaits(req'[u])
  BY <1>1, <1>2, <1>22, AwaitsStays
<1> QED BY <1>1, <1>4, <1>7, <1>8, <1>21, <1>23 DEF OverlapInv

(* The row of the project is written; if it is the first time, the rows of *)
(* the history can be inserted from now on.                                *)
LEMMA PersistRowInOrder ==
  ASSUME TypeInv, OverlapInv, ~torn, NEW t \in Threads, PersistRow(t)
  PROVE  OverlapInv'
<1> DEFINE q == req[t]
           a == [q EXCEPT !.pc = "entry"]
           b == IF q.kind \in Submits THEN a ELSE Idle
<1>1. /\ q.pc = "row" /\ req' = [req EXCEPT ![t] = b]
      /\ UNCHANGED <<project, listed, rows>>
      /\ row' = IF row = None /\ q.kind # "create" THEN None ELSE RowAfter(q.kind)
  BY DEF PersistRow, AfterRow
<1>2. /\ q \in Request /\ DOMAIN req = Threads /\ Orderly(req, row, rows)
      /\ row \in Row \cup {None}
  BY RequestAtWork DEF TypeInv, TypeOK, RequestsOK, OverlapInv
<1>3. project \in Project /\ project # None
  <2>1. q.pc # "idle" /\ ~Creates(q)
    BY <1>1 DEF Creates
  <2> QED BY <2>1, AtWork
<1>4. /\ q.kind \in Submits => /\ b.pc = "entry" /\ b.kind = q.kind
                               /\ b.collapse = q.collapse /\ b.seq = q.seq
      /\ q.kind \notin Submits => b.pc = "idle"
  <2>1. CASE q.kind \in Submits
    <3>1. b = a
      BY <2>1
    <3> HIDE DEF q, b
    <3>2. a.pc = "entry" /\ a.kind = q.kind /\ a.collapse = q.collapse /\ a.seq = q.seq
      BY <1>2 DEF Request
    <3> HIDE DEF a
    <3> QED BY <2>1, <3>1, <3>2
  <2>2. CASE q.kind \notin Submits
    BY <2>2 DEF Idle
  <2> QED BY <2>1, <2>2
<1> HIDE DEF q, b
<1>5. PICK w : w = row'
  OBVIOUS
<1>6. /\ w # None => row # None \/ Opens(q)
      /\ Opens(q) => w # None
      /\ w # None => w.current = project.current
      /\ w = None => row = None
  <2>1. CASE row = None /\ q.kind # "create"
    BY <1>1, <1>5, <2>1 DEF Opens
  <2>2. CASE ~(row = None /\ q.kind # "create")
    <3>1. w = RowAfter(q.kind) /\ (row \in Row \/ q.kind = "create")
      BY <1>1, <1>2, <1>5, <2>2
    <3>2. w # None /\ w.current = project.current
      BY <1>3, <3>1, RowWritten
    <3> QED BY <1>1, <2>2, <3>2 DEF Opens
  <2> QED BY <2>1, <2>2
<1>7. Accounted(project, row, rows, req)
  BY <1>3 DEF OverlapInv
<1>8. Has(project, project.current)
  BY <1>7 DEF Accounted
<1>9. /\ ~Opens(b) /\ ~Founds(b)
      /\ \A s : Owes(b, s) <=> Owes(q, s)
      /\ Poised(q, project) => Poised(b, project)
  BY <1>1, <1>4 DEF Opens, Founds, Creates, Owes, Writes, Poised
<1>10. Poised(b, project)
  BY <1>7, <1>9 DEF Accounted, q
<1>11. Orderly(req', w, rows')
  <2>1. Makes(b) => Makes(q) /\ ~b.collapse
    BY <1>1, <1>2, <1>4 DEF Orderly, q, Makes
  <2>2. b.pc # "append"
    BY <1>1, <1>4
  <2>3. w = None => rows' = {}
    BY <1>1, <1>2, <1>6 DEF Orderly
  <2>4. /\ Makes(b) => Makes(req[t]) \/ Resting(req)
        /\ Makes(b) \/ b.pc = "append" => ~b.collapse
        /\ Founds(b) => w = None
        /\ w # None => row # None \/ Opens(req[t])
        /\ w = None => rows' = {}
    BY <1>6, <1>9, <2>1, <2>2, <2>3 DEF q
  <2> QED BY <1>1, <1>2, <2>4, OrderlyStep
<1>12. Accounted(project, w, rows', req')
  BY <1>1, <1>2, <1>3, <1>6, <1>7, <1>8, <1>9, <1>10, AccountedStep DEF q
<1>13. listed' /\ row' = None => \E u \in Threads : Awaits(req'[u])
  <2>1. w = None => row = None /\ ~Awaits(q)
    BY <1>1, <1>6 DEF Awaits
  <2>2. ASSUME listed, row = None, ~Awaits(req[t])
        PROVE  \E u \in Threads : Awaits(req'[u])
    BY <1>1, <1>2, <2>2 DEF OverlapInv
  <2> QED BY <1>1, <1>5, <2>1, <2>2 DEF q
<1> QED BY <1>1, <1>3, <1>5, <1>11, <1>12, <1>13 DEF OverlapInv

(* The insert of a history row: of the requests that owe a seq, the first  *)
(* one files it, and those that come later are refused.                    *)
LEMMA PersistEntryInOrder ==
  ASSUME TypeInv, OverlapInv, ~torn, ~torn', NEW t \in Threads, PersistEntry(t)
  PROVE  OverlapInv'
<1> DEFINE q == req[t]
           x == PublishedNow(t)
           n == NewEntry(t)
           e == [n EXCEPT !.published = x]
<1>1. /\ q.pc = "entry" /\ ~q.collapse /\ req' = [req EXCEPT ![t] = Idle]
      /\ UNCHANGED <<project, listed, row>>
      /\ row # None /\ rows' = rows \cup {e} /\ \A h \in rows : h.seq # e.seq
  BY DEF PersistEntry
<1>2. /\ q \in Request /\ DOMAIN req = Threads /\ Orderly(req, row, rows)
      /\ q.kind \in Submits /\ q.job \in Jobs /\ q.seq \in Nat
  BY <1>1, Persisting DEF TypeInv, RequestsOK, OverlapInv
<1>3. project \in Project /\ project # None
  <2>1. q.pc # "idle" /\ ~Creates(q)
    BY <1>1 DEF Creates
  <2> QED BY <2>1, AtWork
<1>4. e.seq = q.seq
  <2>1. x \in BOOLEAN
    BY DEF PublishedNow
  <2>2. n \in [seq : {q.seq}, job : Jobs, overrides : Overrides, published : BOOLEAN,
               kind : Kinds]
    BY <1>2, NewEntryFits
  <2> HIDE DEF n, q, x
  <2> QED BY <1>2, <2>1, <2>2, EntrySet
<1> HIDE DEF q, e
<1>5. Accounted(project, row, rows, req) /\ Poised(q, project)
  BY <1>3 DEF OverlapInv, Accounted, q
<1>6. Idle.pc = "idle"
  BY DEF Idle
<1>7. /\ ~Makes(Idle) /\ ~Opens(Idle) /\ ~Founds(Idle) /\ Poised(Idle, project)
      /\ \A s : ~Owes(Idle, s) /\ (Owes(q, s) <=> s = q.seq)
  <2>1. \A s : Owes(q, s) <=> s = q.seq
    BY <1>1, <1>2 DEF Owes, Writes
  <2> QED BY <1>6, <2>1, IdleOwesNothing
<1>8. Orderly(req', row', rows')
  <2>1. PICK w, R : w = row' /\ R = rows'
    OBVIOUS
  <2>2. /\ Makes(Idle) => Makes(req[t]) \/ Resting(req)
        /\ Makes(Idle) \/ Idle.pc = "append" => ~Idle.collapse
        /\ Founds(Idle) => w = None
        /\ w # None => row # None \/ Opens(req[t])
        /\ w = None => R = {}
    BY <2>1, <1>1, <1>6, <1>7
  <2>3. Orderly(req', w, R)
    BY <1>1, <1>2, <2>2, OrderlyStep
  <2> QED BY <2>1, <2>3
<1>9. /\ DOMAIN req' = Threads /\ req'[t] = Idle
      /\ \A u \in Threads \ {t} : req'[u] = req[u]
  BY <1>1, <1>2
<1>10. \A s : Filed(rows', s) <=> Filed(rows, s) \/ s = q.seq
  BY <1>1, <1>4 DEF Filed
<1>11. ~Filed(rows, q.seq)
  BY <1>1, <1>4 DEF Filed
<1>12. /\ \A s \in Seqs(project) : Debt(rows, req, s)
       /\ \A s \in Nat : Twice(project, s) => Dispute(rows, req, s)
  BY <1>1, <1>5 DEF Accounted
<1>13. \A s : \A u \in Threads : Owes(req[u], s) => (u = t /\ s = q.seq) \/ Owes(req'[u], s)
  BY <1>7, <1>9 DEF q
<1>14. \A s : Debt(rows, req, s) => Debt(rows', req', s)
  BY <1>10, <1>13 DEF Debt
<1>15. ASSUME NEW s, Dispute(rows, req, s) PROVE Dispute(rows', req', s)
  <2>1. CASE s = q.seq
    <3>1. PICK u \in Threads : u # t /\ Owes(req[u], s)
      BY <1>11, <1>15, <2>1 DEF Dispute
    <3>2. Owes(req'[u], s) /\ Filed(rows', s)
      BY <1>9, <1>10, <2>1, <3>1
    <3> QED BY <3>2 DEF Dispute
  <2>2. CASE s # q.seq
    BY <1>10, <1>13, <1>15, <2>2 DEF Dispute
  <2> QED BY <2>1, <2>2
<1>16. \A u \in Threads : Poised(req'[u], project)
  BY <1>5, <1>7, <1>9 DEF Accounted
<1>17. \A h \in rows' : Has(project, h.seq)
  <2>1. Has(project, q.seq)
    BY <1>1, <1>2, <1>5 DEF Poised, Writes
  <2> QED BY <1>1, <1>4, <1>5, <2>1 DEF Accounted
<1>18. Accounted(project, row, rows', req')
  BY <1>5, <1>12, <1>14, <1>15, <1>16, <1>17 DEF Accounted
<1> QED BY <1>1, <1>3, <1>8, <1>18 DEF OverlapInv

(* Of the rows of the history, the seqs stay.                              *)
LEMMA PersistReplaceInOrder ==
  ASSUME TypeInv, OverlapInv, ~torn, NEW t \in Threads, PersistReplace(t)
  PROVE  OverlapInv'
<1> DEFINE q == req[t]
<1>1. /\ q.pc = "entry" /\ q.collapse /\ req' = [req EXCEPT ![t] = Idle]
      /\ UNCHANGED <<project, listed, row>>
  BY DEF PersistReplace
<1>2. project \in Project /\ project # None
  BY <1>1, AtWork DEF Creates
<1>3. Has(project, project.current)
  BY <1>2 DEF OverlapInv, Accounted
<1>4. /\ ~Makes(Idle) /\ ~Opens(Idle) /\ ~Founds(Idle) /\ Poised(Idle, project)
      /\ Idle.pc = "idle" /\ \A s : ~Owes(Idle, s)
  <2>1. Idle.pc = "idle"
    BY DEF Idle
  <2> QED BY <2>1, IdleOwesNothing
<1>5. ~Awaits(q) /\ \A s : ~Owes(q, s)
  BY <1>1 DEF Awaits, Opens, Owes
<1>6. \A s : Filed(rows', s) <=> Filed(rows, s)
  <2>1. PICK f \in [rows -> Entry] :
          rows' = {f[h] : h \in rows} /\ \A h \in rows : f[h].seq = h.seq
    BY Replaces
  <2> QED BY <2>1 DEF Filed
<1> QED BY <1>1, <1>2, <1>3, <1>4, <1>5, <1>6, CalmKeeps DEF q

LEMMA PersistFlagInOrder ==
  ASSUME TypeInv, OverlapInv, ~torn, NEW t \in Threads, PersistFlag(t)
  PROVE  OverlapInv'
<1> DEFINE q == req[t]
           b == [q EXCEPT !.pc = "row"]
<1>1. /\ q.pc = "flag" /\ req' = [req EXCEPT ![t] = b]
      /\ UNCHANGED <<project, listed, row>>
  BY DEF PersistFlag, Goto
<1>2. project \in Project /\ project # None /\ q.kind = "published" /\ q \in Request
  BY <1>1, RequestAtWork, AtWork DEF Creates, RequestOK
<1>3. Has(project, project.current)
  BY <1>2 DEF OverlapInv, Accounted
<1> HIDE DEF q
<1>4. b.pc = "row" /\ b.kind = "published"
  BY <1>2 DEF Request
<1> HIDE DEF b
<1>5. /\ ~Makes(b) /\ ~Opens(b) /\ ~Founds(b) /\ Poised(b, project) /\ b.pc # "append"
      /\ \A s : ~Owes(b, s)
  BY <1>4 DEF Makes, Opens, Founds, Creates, Poised, Owes, Writes, Submits
<1>6. ~Awaits(q) /\ \A s : ~Owes(q, s)
  BY <1>1 DEF Awaits, Opens, Owes, Writes
<1>7. \A s : Filed(rows', s) <=> Filed(rows, s)
  <2>1. PICK f \in [rows -> Entry] :
          rows' = {f[h] : h \in rows} /\ \A h \in rows : f[h].seq = h.seq
    BY Flags
  <2> QED BY <2>1 DEF Filed
<1> QED BY <1>1, <1>2, <1>3, <1>5, <1>6, <1>7, CalmKeeps DEF q

(* The rows go; an edit under way cannot insert any from now on.           *)
LEMMA DeleteRowInOrder ==
  ASSUME TypeInv, OverlapInv, ~torn, NEW t \in Threads, DeleteRow(t)
  PROVE  OverlapInv'
<1> DEFINE q == req[t]
           b == [q EXCEPT !.pc = "forget"]
<1>1. /\ q.pc = "cancelall" /\ req' = [req EXCEPT ![t] = b]
      /\ UNCHANGED <<project, listed>> /\ row' = None /\ rows' = {}
  BY DEF DeleteRow, Goto
<1>2. /\ project \in Project /\ project # None /\ q \in Request /\ DOMAIN req = Threads
      /\ Orderly(req, row, rows) /\ Accounted(project, row, rows, req)
  BY <1>1, RequestAtWork, AtWork DEF Creates, TypeInv, RequestsOK, OverlapInv
<1>3. Has(project, project.current)
  BY <1>2 DEF Accounted
<1> HIDE DEF q
<1>4. b.pc = "forget" /\ b.kind = q.kind /\ b.collapse = q.collapse
  BY <1>2 DEF Request
<1> HIDE DEF b
<1>5. /\ ~Opens(b) /\ ~Founds(b) /\ Poised(b, project) /\ b.pc # "append"
      /\ \A s : ~Owes(b, s) /\ ~Owes(q, s)
      /\ Makes(b) => Makes(q)
      /\ Awaits(b)
  BY <1>1, <1>4 DEF Makes, Opens, Founds, Creates, Poised, Owes, Writes, Awaits
<1>6. PICK w, R : w = None /\ R = {}
  OBVIOUS
<1>7. Orderly(req', w, R)
  <2>1. /\ Makes(b) => Makes(req[t]) \/ Resting(req)
        /\ Makes(b) \/ b.pc = "append" => ~b.collapse
        /\ Founds(b) => w = None
        /\ w # None => row # None \/ Opens(req[t])
        /\ w = None => R = {}
    BY <1>2, <1>4, <1>5, <1>6 DEF q, Orderly
  <2> QED BY <1>1, <1>2, <2>1, OrderlyStep
<1>8. Accounted(project, w, R, req')
  BY <1>1, <1>2, <1>3, <1>5, <1>6, AccountedStep DEF q
<1>9. Awaits(req'[t])
  BY <1>1, <1>2, <1>5
<1> QED BY <1>1, <1>2, <1>6, <1>7, <1>8, <1>9 DEF OverlapInv

LEMMA ForgetInOrder ==
  ASSUME TypeInv, OverlapInv, ~torn, NEW t \in Threads, Forget(t)
  PROVE  OverlapInv'
<1> DEFINE q == req[t]
<1>1. /\ q.pc = "forget" /\ req' = [req EXCEPT ![t] = Idle] /\ listed' = FALSE
      /\ row' = row /\ rows' = rows
      /\ project' = IF \A u \in Threads \ {t} : req[u].pc = "idle" THEN None ELSE project
  BY DEF Forget, disk
<1>2. /\ project \in Project /\ project # None /\ DOMAIN req = Threads
      /\ Orderly(req, row, rows) /\ Accounted(project, row, rows, req)
  BY <1>1, AtWork DEF Creates, TypeInv, RequestsOK, OverlapInv
<1>3. /\ ~Makes(Idle) /\ ~Opens(Idle) /\ ~Founds(Idle) /\ Poised(Idle, project)
      /\ Idle.pc = "idle" /\ \A s : ~Owes(Idle, s)
  <2>1. Idle.pc = "idle"
    BY DEF Idle
  <2> QED BY <2>1, IdleOwesNothing
<1>4. CASE \A u \in Threads \ {t} : req[u].pc = "idle"
  <2>1. project' = None
    BY <1>1, <1>4
  <2>2. \A u \in Threads : req[u].pc \in {"idle", "forget"}
    BY <1>1, <1>4
  <2>3. row # None => Tabled(row, rows)
    BY <1>2, <2>2, AllFiled
  <2>4. Orderly(req', row, rows)
    <3>1. \A u \in Threads : ~Makes(req'[u]) /\ ~Founds(req'[u]) /\ req'[u].pc # "append"
      BY <1>1, <1>2, <1>3, <1>4, IdleOwesNothing
    <3> QED BY <1>2, <3>1 DEF Orderly
  <2> QED BY <1>1, <2>1, <2>3, <2>4 DEF OverlapInv
<1>5. CASE ~(\A u \in Threads \ {t} : req[u].pc = "idle")
  <2>1. project' = project
    BY <1>1, <1>5
  <2>2. Has(project, project.current)
    BY <1>2 DEF Accounted
  <2>3. \A s : ~Owes(q, s)
    BY <1>1 DEF Owes, Writes
  <2> QED BY <1>1, <1>2, <1>3, <2>1, <2>2, <2>3, CalmKeeps DEF q
<1> QED BY <1>4, <1>5

(* A restart with no request under way.                                    *)
LEMMA RestartInOrder ==
  ASSUME TypeInv, OverlapInv, ~torn, ~torn', Restart
  PROVE  OverlapInv'
<1>1. /\ Quiet /\ project' = Rehydrated /\ listed' = (row # None)
      /\ row' = row /\ rows' = rows /\ \A t \in Threads : req'[t] = Idle
  BY DEF Restart, disk
<1>2. Idle.pc = "idle"
  BY DEF Idle
<1>3. \A t \in Threads : /\ ~Makes(req'[t]) /\ ~Opens(req'[t]) /\ ~Founds(req'[t])
                         /\ req'[t].pc # "append" /\ \A s : ~Owes(req'[t], s)
  BY <1>1, <1>2, IdleOwesNothing
<1>4. Orderly(req', row, rows)
  BY <1>3 DEF OverlapInv, Orderly
<1>5. CASE row = None
  <2>1. project' = None
    BY <1>1, <1>5 DEF Rehydrated
  <2> QED BY <1>1, <1>4, <1>5, <2>1 DEF OverlapInv
<1>6. CASE row # None
  <2>1. Tabled(row, rows)
    <3>1. CASE project = None
      BY <1>6, <3>1 DEF OverlapInv
    <3>2. CASE project # None
      <4>1. project \in Project /\ Accounted(project, row, rows, req)
        BY <3>2 DEF OverlapInv, TypeInv, TypeOK
      <4>2. \A t \in Threads : req[t].pc \in {"idle", "forget"}
        BY <1>1 DEF Quiet
      <4> QED BY <1>6, <4>1, <4>2, AllFiled
    <3> QED BY <3>1, <3>2
  <2>2. PICK z : z = project'
    OBVIOUS
  <2>3. /\ z \in Project /\ z # None /\ InOrder(z) /\ Has(z, z.current)
        /\ z.current = row.current
        /\ \A h \in rows : Has(z, h.seq)
        /\ \A s \in Seqs(z) : Filed(rows, s)
    BY <1>1, <1>6, <2>1, <2>2, RehydratedInOrder
  <2>4. \A s : ~Twice(z, s)
    BY <2>3, ProjectShape DEF InOrder, Twice
  <2>5. \A t \in Threads : Poised(req'[t], z)
    BY <1>1, <1>2, IdleOwesNothing
  <2>6. Accounted(z, row, rows, req')
    BY <2>3, <2>4, <2>5 DEF Accounted, Debt
  <2> QED BY <1>1, <1>4, <1>6, <2>2, <2>3, <2>6 DEF OverlapInv
<1> QED BY <1>5, <1>6

LEMMA OverlapInvStep == TypeInv /\ OverlapInv /\ [Next]_vars => OverlapInv'
<1> SUFFICES ASSUME TypeInv, OverlapInv, [Next]_vars, ~torn' PROVE OverlapInv'
  BY DEF OverlapInv
<1>1. ~torn
  BY TornStays
<1>2. ASSUME NEW t \in Threads, Edit(t) PROVE OverlapInv'
  BY <1>1, <1>2, EditInOrder
<1>3. ASSUME NEW t \in Threads, Point(t) \/ Delete(t) PROVE OverlapInv'
  BY <1>1, <1>3, PointInOrder
<1>4. ASSUME NEW t \in Threads, Serve(t) PROVE OverlapInv'
  <2>1. CASE \/ ReadStatus(t) \/ CancelPrev(t) \/ PickSeq(t)
             \/ (\E j \in Jobs : Submit(t, j)) \/ (\E j \in Jobs : DeleteCancels(t, j))
    BY <1>1, <2>1, RequestsInOrder
  <2>2. CASE Built(t) \/ Replace(t) \/ AppendEntry(t)
    BY <1>1, <2>2, BuiltInOrder, ReplaceInOrder, AppendInOrder
  <2>3. CASE PersistRow(t) \/ PersistEntry(t)
    BY <1>1, <2>3, PersistRowInOrder, PersistEntryInOrder
  <2>4. CASE PersistReplace(t) \/ PersistFlag(t)
    BY <1>1, <2>4, PersistReplaceInOrder, PersistFlagInOrder
  <2>5. CASE DeleteRow(t) \/ Forget(t)
    BY <1>1, <2>5, DeleteRowInOrder, ForgetInOrder
  <2>6. CASE WriteFails(t) \/ SubmitFails(t)
    BY <2>6 DEF WriteFails, SubmitFails
  <2> QED BY <1>4, <2>1, <2>2, <2>3, <2>4, <2>5, <2>6 DEF Serve
<1>5. ASSUME UNCHANGED <<project, listed, row, rows, req, torn>> PROVE OverlapInv'
  BY <1>5 DEF OverlapInv
<1>6. ASSUME NEW j \in Jobs, NEW o \in Outcomes, WorkerSettles(j, o) PROVE OverlapInv'
  BY <1>5, <1>6 DEF WorkerSettles, disk
<1>7. CASE Restart
  BY <1>1, <1>7, RestartInOrder
<1>8. CASE UNCHANGED vars
  BY <1>5, <1>8 DEF vars, disk
<1> QED BY <1>2, <1>3, <1>4, <1>6, <1>7, <1>8 DEF Next

LEMMA OverlapInvHolds == Spec => [](TypeInv /\ OverlapInv)
<1>1. Init => OverlapInv
  <2> SUFFICES ASSUME Init PROVE OverlapInv
    OBVIOUS
  <2>1. /\ \A t \in Threads : req[t] = Idle
        /\ project = None /\ row = None /\ rows = {} /\ ~listed
    BY DEF Init
  <2>2. Idle.pc = "idle"
    BY DEF Idle
  <2>3. \A t \in Threads : ~Makes(req[t]) /\ ~Founds(req[t]) /\ req[t].pc # "append"
    BY <2>1, <2>2, IdleOwesNothing
  <2> QED BY <2>1, <2>3 DEF OverlapInv, Orderly
<1> QED BY <1>1, OverlapInvStep, TypeInvHolds, PTL DEF Spec

(* Any number of requests at a time, deletions among them.  When none is   *)
(* under way, and no write was refused or failed and no request was cut    *)
(* short, the pointer is on an entry and the seqs are 0, 1, 2 ..., both of *)
(* the object and of what a restart would read; and a project on the list  *)
(* has its row.  Two edits that take the same seq cannot both be stored:   *)
(* the history drifts only behind an insert that the table refused.        *)
RestsInOrder ==
  Quiet /\ ~torn =>
    /\ listed => row # None /\ InOrder(project) /\ Has(project, project.current)
    /\ row # None => InOrder(Rehydrated) /\ Has(Rehydrated, Rehydrated.current)

THEOREM RequestsRestInOrder == Spec => []RestsInOrder
<1>1. TypeInv /\ OverlapInv => RestsInOrder
  <2> SUFFICES ASSUME TypeInv, OverlapInv, Quiet, ~torn PROVE RestsInOrder
    BY DEF RestsInOrder
  <2>1. \A t \in Threads : req[t].pc \in {"idle", "forget"} /\ ~Awaits(req[t])
    BY DEF Quiet, Awaits, Opens
  <2>2. listed => row # None
    BY <2>1 DEF OverlapInv
  <2>3. project # None =>
          project \in Project /\ Accounted(project, row, rows, req)
    BY DEF OverlapInv, TypeInv, TypeOK
  <2>6. listed => project # None
    BY DEF TypeInv, TypeOK
  <2>4. row # None => Tabled(row, rows) /\ (project # None => InOrder(project))
    BY <2>1, <2>3, AllFiled DEF OverlapInv
  <2>5. row # None => InOrder(Rehydrated) /\ Has(Rehydrated, Rehydrated.current)
    BY <2>4, RehydratedInOrder
  <2> QED BY <2>2, <2>3, <2>4, <2>5, <2>6 DEF RestsInOrder, Accounted
<1> QED BY <1>1, OverlapInvHolds, PTL

-----------------------------------------------------------------------------
(* TipInv: what the request under way has in hand is what is shown.        *)

(* The place of a seq, where the seqs are 0, 1, 2 ...                      *)
LEMMA PlaceOfSeq ==
  ASSUME NEW p \in Project, Linear(p), NEW seq, Has(p, seq)
  PROVE  IndexOf(p, seq) = seq + 1 /\ seq + 1 \in DOMAIN p.history /\ seq \in Nat
<1>1. DOMAIN p.history = 1 .. Len(p.history) /\ Len(p.history) \in Nat
  BY ProjectShape
<1>2. PICK i \in DOMAIN p.history : i = IndexOf(p, seq) /\ p.history[i].seq = seq
  BY IndexFits
<1>3. seq = i - 1 /\ i \in 1 .. Len(p.history)
  BY <1>1, <1>2 DEF Linear
<1> QED BY <1>1, <1>2, <1>3

LEMMA CurrentIsShown ==
  ASSUME NEW p \in Project, Linear(p)
  PROVE  /\ p.current + 1 \in DOMAIN p.history
         /\ p.history[p.current + 1] = Current(p)
         /\ p.history[p.current + 1].seq = p.current
<1>1. /\ p.current + 1 \in DOMAIN p.history /\ (p.current + 1) - 1 = p.current
  BY ProjectShape DEF Linear
<1>2. p.history[p.current + 1].seq = p.current
  BY <1>1 DEF Linear
<1>3. Has(p, p.current)
  BY <1>1, <1>2 DEF Has, Seqs
<1>4. IndexOf(p, p.current) = p.current + 1
  BY <1>3, PlaceOfSeq
<1> QED BY <1>1, <1>2, <1>4 DEF Current, EntryAt

LEMMA TipStep ==
  ASSUME TypeInv, NEW t, Threads = {t}, NEW r, req' = [req EXCEPT ![t] = r],
         Tip(r, project')
  PROVE  TipInv'
<1>1. req'[t] = r
  BY DEF TypeInv, RequestsOK
<1> QED BY <1>1 DEF TipInv

(* A request that is not on its way to an edit.                            *)
LEMMA TipRests ==
  ASSUME NEW r, NEW p,
         r.pc \notin {"status", "cancel", "submit", "apply", "append"}
           \/ (r.kind = "create" /\ r.pc \in {"submit", "apply"})
  PROVE  Tip(r, p)
BY DEF Tip, Supersedes

(* A request that goes on, with the history and the pointer as they are.   *)
LEMMA TipGoesOn ==
  ASSUME NEW q, NEW p, Tip(q, p), Supersedes(q), NEW r, NEW z,
         z.history = p.history, z.current = p.current,
         r.pc \in {"cancel", "submit", "apply", "append"}, r.kind = q.kind,
         r.pc = "submit" => r.render,
         r.prev = q.prev, r.render = q.render,
         r.pc \in {"apply", "append"} =>
           IF r.render THEN \A i \in DOMAIN p.history : p.history[i].job # r.job
                       ELSE r.job = r.prev.job
  PROVE  Tip(r, z)
BY DEF Tip

(* Requests begin at the entry that is shown.                              *)
LEMMA EditTip ==
  ASSUME TypeInv, LoneInv, SoundInv, ~torn, NEW t, Threads = {t}, Edit(t)
  PROVE  TipInv'
<1>1. ASSUME NEW s \in Sessions, NEW o \in Overrides, Create(t, s, o) PROVE TipInv'
  <2> DEFINE r == [Idle EXCEPT !.pc = "submit", !.kind = "create",
                               !.sessions = s, !.version = 1, !.overrides = o]
  <2>1. r.pc = "submit" /\ r.kind = "create"
    BY DEF Idle
  <2>2. req' = [req EXCEPT ![t] = r]
    BY <1>1 DEF Create
  <2> HIDE DEF r
  <2>3. Tip(r, project')
    BY <2>1, TipRests
  <2> QED BY <2>2, <2>3, TipStep
<1>2. ASSUME NEW r, req' = [req EXCEPT ![t] = r], UNCHANGED project, listed,
             r.pc \in {"status", "cancel"}, r.prev = Current(project),
             r.kind = "edit" => r.render
      PROVE  TipInv'
  <2>1. project \in Project /\ Linear(project)
    BY <1>2, ListedProject DEF SoundInv, Sound
  <2>2. Tip(r, project)
    BY <1>2, <2>1, CurrentIsShown DEF Tip
  <2> QED BY <1>2, <2>2, TipStep
<1>3. ASSUME NEW set \in Overrides, NEW reset \in Overrides, Patch(t, set, reset)
      PROVE  TipInv'
  <2> DEFINE o == Merged(Current(project).overrides, set, reset)
             r == [Idle EXCEPT !.pc = "status", !.kind = "edit", !.prev = Current(project),
                               !.overrides = o]
  <2>1. req' = [req EXCEPT ![t] = r] /\ UNCHANGED project /\ listed
    BY <1>3 DEF Patch
  <2> HIDE DEF o
  <2>2. r.pc = "status" /\ r.prev = Current(project) /\ r.render
    BY DEF Idle
  <2> HIDE DEF r
  <2> QED BY <1>2, <2>1, <2>2
<1>4. ASSUME NEW s \in Sessions, NEW o \in Overrides, NEW render \in BOOLEAN,
             SwapSessions(t, s, o, render)
      PROVE  TipInv'
  <2> DEFINE x == Merged(o, Current(project).overrides, {})
             r == [Idle EXCEPT !.pc = "cancel", !.kind = "swap_sessions",
                    !.prev = Current(project), !.sessions = s, !.render = render,
                    !.overrides = x]
  <2>1. req' = [req EXCEPT ![t] = r] /\ UNCHANGED project /\ listed
    BY <1>4 DEF SwapSessions
  <2> HIDE DEF x
  <2>2. r.pc = "cancel" /\ r.prev = Current(project) /\ r.kind # "edit"
    BY DEF Idle
  <2> HIDE DEF r
  <2> QED BY <1>2, <2>1, <2>2
<1>5. ASSUME NEW v \in Versions, UpgradeTemplate(t, v)
      PROVE  TipInv'
  <2> DEFINE x == Migrated(Current(project).overrides, v)
             r == [Idle EXCEPT !.pc = "cancel", !.kind = "template_upgrade",
                    !.prev = Current(project), !.version = v, !.overrides = x]
  <2>1. req' = [req EXCEPT ![t] = r] /\ UNCHANGED project /\ listed
    BY <1>5 DEF UpgradeTemplate
  <2> HIDE DEF x
  <2>2. r.pc = "cancel" /\ r.prev = Current(project) /\ r.kind # "edit"
    BY DEF Idle
  <2> HIDE DEF r
  <2> QED BY <1>2, <2>1, <2>2
<1> QED BY <1>1, <1>3, <1>4, <1>5 DEF Edit

(* CancelPrev changes the inputs of the project and not its history.       *)
LEMMA CancelKeepsHistory ==
  ASSUME TypeInv, NEW t \in Threads, CancelPrev(t)
  PROVE  /\ project \in Project /\ project' \in Project
         /\ project'.history = project.history /\ project'.current = project.current
<1> DEFINE q == req[t]
<1>1. q.pc = "cancel" /\ RequestOK(q, project, made)
  BY RequestAtWork DEF CancelPrev
<1>2. q.kind \in Kinds /\ ~Creates(q)
  BY <1>1 DEF RequestOK, Creates
<1>3. project \in Project
  BY <1>1, <1>2, AtWork
<1>4. /\ q.kind = "edit" => project' = project
      /\ q.kind = "swap_sessions" => project' = [project EXCEPT !.sessions = q.sessions]
      /\ q.kind = "template_upgrade" => project' = [project EXCEPT !.version = q.version]
  BY DEF CancelPrev
<1>5. /\ q.kind = "swap_sessions" => q.sessions \in Sessions
      /\ q.kind = "template_upgrade" => q.version \in Versions
  BY <1>1 DEF RequestOK
<1>6. CASE q.kind = "edit"
  BY <1>3, <1>4, <1>6
<1>7. CASE q.kind = "swap_sessions"
  BY <1>3, <1>4, <1>5, <1>7, SessionsReplaced
<1>8. CASE q.kind = "template_upgrade"
  BY <1>3, <1>4, <1>5, <1>8, VersionReplaced
<1> QED BY <1>2, <1>3, <1>6, <1>7, <1>8 DEF Kinds

LEMMA CancelTip ==
  ASSUME TypeInv, LoneInv, TipInv, ~torn, NEW t, Threads = {t}, ReadStatus(t) \/ CancelPrev(t)
  PROVE  TipInv'
<1> DEFINE q == req[t]
<1>0. /\ t \in Threads /\ RequestOK(q, project, made) /\ q \in Request /\ Tip(q, project)
  BY LoneAtWork DEF TipInv
<1>1. CASE ReadStatus(t)
  <2> DEFINE r == [q EXCEPT !.pc = "cancel", !.collapse = Collapses(t)]
  <2>1. q.pc = "status" /\ UNCHANGED project /\ req' = [req EXCEPT ![t] = r]
    BY <1>1 DEF ReadStatus
  <2>2. Supersedes(q)
    BY <1>0, <2>1 DEF RequestOK, Supersedes
  <2> HIDE DEF q
  <2>3. r.pc = "cancel" /\ r.kind = q.kind /\ r.prev = q.prev /\ r.render = q.render
    BY <1>0 DEF Request
  <2> HIDE DEF r
  <2>4. Tip(r, project)
    BY <1>0, <2>2, <2>3, TipGoesOn
  <2> QED BY <2>1, <2>4, TipStep
<1>2. CASE CancelPrev(t)
  <2> DEFINE b == q.kind = "edit" /\ (q.collapse \/ Live(q.prev.job))
             pc == IF q.render THEN "submit" ELSE "apply"
             j == EntryJob(q)
             r == [q EXCEPT !.collapse = b, !.job = j, !.pc = pc]
  <2>1. q.pc = "cancel" /\ req' = [req EXCEPT ![t] = r]
    BY <1>2 DEF CancelPrev
  <2>2. Supersedes(q)
    BY <1>0, <2>1 DEF RequestOK, Supersedes, Kinds
  <2>3. project'.history = project.history /\ project'.current = project.current
    BY <1>0, <1>2, CancelKeepsHistory
  <2>4. pc \in {"submit", "apply"} /\ (pc = "apply" => ~q.render /\ j = q.prev.job)
    BY DEF EntryJob
  <2>7. pc = "submit" => q.render
    OBVIOUS
  <2> HIDE DEF q, b, pc, j
  <2>5. /\ r.pc = pc /\ r.kind = q.kind /\ r.prev = q.prev /\ r.render = q.render
        /\ r.job = j
    BY <1>0 DEF Request
  <2> HIDE DEF r
  <2>6. Tip(r, project')
    BY <1>0, <2>2, <2>3, <2>4, <2>5, <2>7, TipGoesOn
  <2> QED BY <2>1, <2>6, TipStep
<1> QED BY <1>1, <1>2

(* A job that is submitted is in no edit.                                  *)
LEMMA SubmitTip ==
  ASSUME TypeInv, LoneInv, TipInv, ~torn, NEW t, Threads = {t},
         (\E j \in Jobs : Submit(t, j)) \/ PickSeq(t)
           \/ (\E j \in Jobs : DeleteCancels(t, j))
  PROVE  TipInv'
<1> DEFINE q == req[t]
<1>0. /\ t \in Threads /\ RequestOK(q, project, made) /\ q \in Request /\ Tip(q, project)
  BY LoneAtWork DEF TipInv
<1>1. ASSUME NEW j \in Jobs, Submit(t, j) PROVE TipInv'
  <2> DEFINE r == [q EXCEPT !.pc = "apply", !.job = j]
  <2>1. /\ q.pc = "submit" /\ status[j] = "absent" /\ UNCHANGED project
        /\ req' = [req EXCEPT ![t] = r]
    BY <1>1 DEF Submit
  <2>2. q.kind # "create" => Supersedes(q) /\ project # None
    BY <1>0, <2>1, LoneAtWork DEF Supersedes, Creates
  <2>3. project # None => \A i \in DOMAIN project.history : project.history[i].job # j
    BY <2>1 DEF TypeInv, TypeOK
  <2> HIDE DEF q
  <2>4. /\ r.pc = "apply" /\ r.kind = q.kind /\ r.prev = q.prev /\ r.render = q.render
        /\ r.job = j
    BY <1>0 DEF Request
  <2> HIDE DEF r
  <2>5. q.kind # "create" => q.render
    BY <1>0, <2>1, <2>2 DEF Tip
  <2>6. Tip(r, project)
    BY <1>0, <2>2, <2>3, <2>4, <2>5, TipGoesOn, TipRests
  <2> QED BY <2>1, <2>6, TipStep
<1>2. CASE PickSeq(t)
  <2> DEFINE n == NextSeq(project)
             r == [q EXCEPT !.pc = "append", !.seq = n]
  <2>1. /\ q.pc = "apply" /\ q.kind # "create" /\ UNCHANGED project
        /\ req' = [req EXCEPT ![t] = r]
    BY <1>2 DEF PickSeq
  <2>2. Supersedes(q)
    BY <2>1 DEF Supersedes
  <2> HIDE DEF q, n
  <2>3. /\ r.pc = "append" /\ r.kind = q.kind /\ r.prev = q.prev /\ r.render = q.render
        /\ r.job = q.job
    BY <1>0 DEF Request
  <2> HIDE DEF r
  <2>4. Tip(r, project)
    BY <1>0, <2>1, <2>2, <2>3, TipGoesOn DEF Tip
  <2> QED BY <2>1, <2>4, TipStep
<1>3. ASSUME NEW j \in Jobs, DeleteCancels(t, j) PROVE TipInv'
  <2> DEFINE x == q.todo \ {j}
             r == [q EXCEPT !.todo = x]
  <2>1. q.pc = "cancelall" /\ req' = [req EXCEPT ![t] = r]
    BY <1>3 DEF DeleteCancels
  <2> HIDE DEF q, x
  <2>2. r.pc = "cancelall"
    BY <1>0, <2>1 DEF Request
  <2> HIDE DEF r
  <2>3. Tip(r, project')
    BY <2>2, TipRests
  <2> QED BY <2>1, <2>3, TipStep
<1> QED BY <1>1, <1>2, <1>3

(* Every other step of a request leaves it where it has no edit ahead.     *)
LEMMA OtherStepsRest ==
  ASSUME TypeInv, NEW t \in Threads,
         \/ Point(t) \/ Delete(t) \/ Built(t) \/ Replace(t) \/ AppendEntry(t)
         \/ PersistRow(t) \/ PersistEntry(t) \/ PersistReplace(t) \/ PersistFlag(t)
         \/ DeleteRow(t) \/ Forget(t) \/ Restart
  PROVE  req'[t].pc \in {"idle", "row", "entry", "flag", "cancelall", "forget"}
<1> DEFINE q == req[t]
<1>0. t \in DOMAIN req /\ q \in Request
  BY RequestAtWork DEF TypeInv, RequestsOK
<1>1. Idle.pc = "idle"
  BY DEF Idle
<1>2. ASSUME NEW seq \in 0 .. MaxSeq, Revert(t, seq) PROVE req'[t].pc = "row"
  BY <1>0, <1>2 DEF Revert, Idle
<1>3. ASSUME NEW seq \in 0 .. MaxSeq, NEW published \in BOOLEAN,
             SetPublished(t, seq, published)
      PROVE  req'[t].pc = "flag"
  BY <1>0, <1>3 DEF SetPublished, Idle
<1>4. CASE Delete(t)
  <2> DEFINE todo == {project.history[i].job : i \in DOMAIN project.history}
             r == [Idle EXCEPT !.pc = "cancelall", !.kind = "delete", !.todo = todo]
  <2>1. req' = [req EXCEPT ![t] = r]
    BY <1>4 DEF Delete
  <2> HIDE DEF todo
  <2>2. r.pc = "cancelall"
    BY DEF Idle
  <2> HIDE DEF r
  <2> QED BY <1>0, <2>1, <2>2
<1>5. CASE Built(t)
  <2> DEFINE r == [q EXCEPT !.pc = "row", !.seq = 0]
  <2>1. req' = [req EXCEPT ![t] = r]
    BY <1>5 DEF Built
  <2>2. r.pc = "row"
    BY <1>0 DEF Request
  <2> HIDE DEF r
  <2> QED BY <1>0, <2>1, <2>2
<1>6. CASE Replace(t)
  <2> DEFINE r == [q EXCEPT !.pc = "row", !.seq = q.prev.seq]
  <2>1. req' = [req EXCEPT ![t] = r]
    BY <1>6 DEF Replace
  <2>2. r.pc = "row"
    BY <1>0 DEF Request
  <2> HIDE DEF r
  <2> QED BY <1>0, <2>1, <2>2
<1>7. ASSUME NEW pc \in {"row", "forget"}, Goto(t, pc) PROVE req'[t].pc = pc
  <2> DEFINE r == [q EXCEPT !.pc = pc]
  <2>1. req' = [req EXCEPT ![t] = r]
    BY <1>7 DEF Goto
  <2>2. r.pc = pc
    BY <1>0 DEF Request
  <2> HIDE DEF r
  <2> QED BY <1>0, <2>1, <2>2
<1>8. CASE AppendEntry(t) \/ PersistFlag(t) \/ DeleteRow(t)
  BY <1>7, <1>8 DEF AppendEntry, PersistFlag, DeleteRow
<1>9. CASE PersistRow(t)
  <2> DEFINE s == [q EXCEPT !.pc = "entry"]
             r == IF q.kind \in Submits THEN s ELSE Idle
  <2>1. req' = [req EXCEPT ![t] = r]
    BY <1>9 DEF PersistRow, AfterRow
  <2>2. s.pc = "entry"
    BY <1>0 DEF Request
  <2> HIDE DEF s
  <2>3. r.pc \in {"entry", "idle"}
    BY <1>1, <2>2
  <2> HIDE DEF r
  <2> QED BY <1>0, <2>1, <2>3
<1>10. CASE PersistEntry(t) \/ PersistReplace(t) \/ Forget(t)
  <2>1. PersistEntry(t) => req' = [req EXCEPT ![t] = Idle]
    BY Zenon DEF PersistEntry
  <2>2. PersistReplace(t) => req' = [req EXCEPT ![t] = Idle]
    BY Zenon DEF PersistReplace
  <2>3. Forget(t) => req' = [req EXCEPT ![t] = Idle]
    BY Zenon DEF Forget
  <2> QED BY <1>0, <1>1, <1>10, <2>1, <2>2, <2>3
<1>11. CASE Restart
  BY <1>1, <1>11 DEF Restart
<1> QED BY <1>2, <1>3, <1>4, <1>5, <1>6, <1>8, <1>9, <1>10, <1>11 DEF Point

LEMMA TipInvStep ==
  Lone /\ TypeInv /\ LoneInv /\ SoundInv /\ TipInv /\ [Next]_vars => TipInv'
<1> SUFFICES ASSUME Lone, TypeInv, LoneInv, SoundInv, TipInv, [Next]_vars, ~torn' PROVE TipInv'
  BY DEF TipInv
<1>0. PICK t : t \in Threads /\ Threads = {t}
  BY DEF Lone
<1>1. ~torn
  BY TornStays
<1>2. CASE Edit(t)
  BY <1>0, <1>1, <1>2, EditTip
<1>3. CASE ReadStatus(t) \/ CancelPrev(t)
  BY <1>0, <1>1, <1>3, CancelTip
<1>4. CASE (\E j \in Jobs : Submit(t, j)) \/ PickSeq(t) \/ (\E j \in Jobs : DeleteCancels(t, j))
  BY <1>0, <1>1, <1>4, SubmitTip
<1>5. CASE WriteFails(t) \/ SubmitFails(t)
  BY <1>5 DEF WriteFails, SubmitFails
<1>6. CASE \/ Point(t) \/ Delete(t) \/ Built(t) \/ Replace(t) \/ AppendEntry(t)
           \/ PersistRow(t) \/ PersistEntry(t) \/ PersistReplace(t) \/ PersistFlag(t)
           \/ DeleteRow(t) \/ Forget(t) \/ Restart
  <2>1. req'[t].pc \in {"idle", "row", "entry", "flag", "cancelall", "forget"}
    BY <1>0, <1>6, OtherStepsRest
  <2>2. Tip(req'[t], project')
    BY <2>1, TipRests
  <2> QED BY <1>0, <2>2 DEF TipInv
<1>7. CASE UNCHANGED vars \/ \E j \in Jobs, o \in Outcomes : WorkerSettles(j, o)
  <2>1. UNCHANGED <<req, project>>
    BY <1>7 DEF vars, WorkerSettles
  <2> QED BY <1>1, <2>1 DEF TipInv
<1>8. CASE Serve(t)
  BY <1>3, <1>4, <1>5, <1>6, <1>8 DEF Serve
<1> QED BY <1>0, <1>2, <1>6, <1>7, <1>8 DEF Next

LEMMA TipInvHolds == Lone => (Spec => [](TypeInv /\ LoneInv /\ SoundInv /\ TipInv))
<1> SUFFICES ASSUME Lone PROVE Spec => [](TypeInv /\ LoneInv /\ SoundInv /\ TipInv)
  OBVIOUS
<1>1. Init => TipInv
  <2> SUFFICES ASSUME Init, NEW t \in Threads PROVE Tip(req[t], project)
    BY DEF TipInv
  <2>1. req[t] = Idle /\ Idle.pc = "idle"
    BY DEF Init, Idle
  <2> QED BY <2>1, TipRests
<1>2. TypeInv /\ LoneInv /\ SoundInv /\ TipInv /\ [Next]_vars => TipInv'
  BY TipInvStep
<1> QED BY <1>1, <1>2, SoundInvHolds, PTL DEF Spec

-----------------------------------------------------------------------------
(* The object implements EditHistory.                                      *)

Pictured(e) == [job |-> e.job, overrides |-> e.overrides, published |-> e.published]

LEMMA PicturedFits ==
  ASSUME NEW e \in Entry
  PROVE  /\ Pictured(e) \in History!Edit
         /\ Pictured(e).job = e.job /\ Pictured(e).overrides = e.overrides
         /\ Pictured(e).published = e.published
BY DEF Pictured, Entry, Overrides, History!Edit

(* A history as edits.                                                     *)
LEMMA EditsShape ==
  ASSUME NEW p \in Project
  PROVE  /\ p # None
         /\ EditsOf(p) \in Seq(History!Edit)
         /\ Len(EditsOf(p)) = Len(p.history)
         /\ DOMAIN EditsOf(p) = DOMAIN p.history
         /\ EditsOf(p) \in [DOMAIN p.history -> History!Edit]
         /\ \A i \in DOMAIN p.history : EditsOf(p)[i] = Pictured(p.history[i])
         /\ PointerOf(p) = p.current
<1> DEFINE n == Len(p.history)
           E == [i \in 1 .. n |-> Pictured(p.history[i])]
<1>1. /\ n \in Nat /\ DOMAIN p.history = 1 .. n
      /\ \A i \in 1 .. n : p.history[i] \in Entry
  BY ProjectShape
<1>2. p # None
  BY NoneAssumption
<1>3. EditsOf(p) = E
  BY <1>1, <1>2 DEF EditsOf, Pictured
<1>4. \A i \in 1 .. n : Pictured(p.history[i]) \in History!Edit
  BY <1>1, PicturedFits
<1>5. E \in Seq(History!Edit) /\ Len(E) = n
  <2> HIDE DEF n
  <2> QED BY <1>1, <1>4
<1>6. E \in [1 .. n -> History!Edit] /\ \A i \in 1 .. n : E[i] = Pictured(p.history[i])
  BY <1>4
<1> HIDE DEF E, n
<1> QED BY <1>1, <1>2, <1>3, <1>5, <1>6 DEF PointerOf, n

(* Two objects whose entries differ in seq and kind only.                  *)
LEMMA SameEdits ==
  ASSUME NEW p \in Project, NEW z \in Project,
         DOMAIN z.history = DOMAIN p.history, z.current = p.current,
         \A i \in DOMAIN p.history :
           /\ z.history[i].job = p.history[i].job
           /\ z.history[i].overrides = p.history[i].overrides
           /\ z.history[i].published = p.history[i].published
  PROVE  EditsOf(z) = EditsOf(p) /\ PointerOf(z) = PointerOf(p)
<1>1. \A i \in DOMAIN p.history : Pictured(z.history[i]) = Pictured(p.history[i])
  BY DEF Pictured
<1>2. /\ EditsOf(p) \in [DOMAIN p.history -> History!Edit]
      /\ EditsOf(z) \in [DOMAIN p.history -> History!Edit]
      /\ \A i \in DOMAIN p.history : EditsOf(z)[i] = EditsOf(p)[i]
  BY <1>1, EditsShape
<1>3. EditsOf(z) = EditsOf(p)
  BY <1>2
<1> QED BY <1>3, EditsShape

(* Nobody but the actions below touches the edits.                         *)
LEMMA EditsStay ==
  ASSUME UNCHANGED project
  PROVE  EditsOf(project)' = EditsOf(project) /\ PointerOf(project)' = PointerOf(project)
BY DEF EditsOf, PointerOf

(* create begins the history.                                              *)
LEMMA BuiltBegins ==
  ASSUME TypeInv, NEW t \in Threads, Built(t)
  PROVE  \E e \in History!Edit : History!Begin(e)
<1> DEFINE q == req[t]
           n == NewEntry(t)
           e == [n EXCEPT !.seq = 0]
<1>1. /\ q.pc = "apply" /\ q.kind = "create"
      /\ project' = [current |-> 0, version |-> q.version, sessions |-> q.sessions,
                     history |-> <<e>>]
  BY DEF Built
<1>2. RequestOK(q, project, made) /\ q \in Request
  BY RequestAtWork
<1>3. q.job \in Jobs /\ Creates(q) /\ q.sessions \in Sessions /\ q.version \in Versions
  BY <1>1, <1>2 DEF RequestOK, HasJob, Creates
<1>4. project = None
  BY <1>3 DEF TypeInv, RequestsOK
<1>5. e \in Entry /\ ~e.published
  <2>1. q.kind \in Submits
    BY <1>1 DEF Submits
  <2>2. /\ n \in [seq : {q.seq}, job : Jobs, overrides : Overrides,
                  published : BOOLEAN, kind : Kinds]
        /\ ~n.published
    BY <1>2, <1>3, <2>1, NewEntryFits
  <2> HIDE DEF n, q
  <2> QED BY <2>2, EntrySet
<1> HIDE DEF q, n, e
<1>6. PICK z : z = project'
  OBVIOUS
<1>10. z \in Project /\ z.history = <<e>> /\ z.current = 0
  BY <1>1, <1>3, <1>5, <1>6 DEF Project
<1>7. EditsOf(project) = <<>>
  BY <1>4 DEF EditsOf
<1>8. EditsOf(z) = <<Pictured(e)>> /\ PointerOf(z) = 0
  <2>1. DOMAIN z.history = {1} /\ z.history[1] = e
    BY <1>10
  <2>2. /\ EditsOf(z) \in Seq(History!Edit) /\ Len(EditsOf(z)) = 1
        /\ EditsOf(z)[1] = Pictured(e) /\ PointerOf(z) = 0
    BY <1>10, <2>1, EditsShape
  <2> QED BY <2>2
<1>9. Pictured(e) \in History!Edit /\ ~Pictured(e).published
  BY <1>5, PicturedFits
<1> QED BY <1>6, <1>7, <1>8, <1>9 DEF History!Begin

(* AppendEntry extends it, behind what was undone.                         *)
LEMMA AppendExtends ==
  ASSUME TypeInv, LoneInv, SoundInv, TipInv, ~torn, NEW t, Threads = {t}, AppendEntry(t)
  PROVE  \E e \in History!Edit : History!Extend(e)
<1> DEFINE q == req[t]
<1>0. /\ t \in Threads /\ q \in Request /\ q.pc = "append" /\ q.kind # "create"
      /\ Sound(q, project, row, rows, Pending) /\ Tip(q, project)
  <2>1. RequestOK(q, project, made) /\ q \in Request
    BY LoneAtWork
  <2>2. q.pc = "append"
    BY DEF AppendEntry
  <2> QED BY <2>1, <2>2, SoundAtWork DEF TipInv, RequestOK, Kinds
<1>1. PICK p \in Project, e \in Entry :
        /\ p = project /\ project # None /\ project' # None
        /\ e.seq = q.seq /\ e.job = q.job /\ ~e.published
        /\ project'.history = Append(p.history, e)
        /\ project'.current = q.seq
  BY <1>0, Appends
<1>2. TypeInv' /\ project' \in Project
  <2>1. TypeInv'
    BY <1>0, AppendEntryTyped
  <2> QED BY <1>1, <2>1 DEF TypeInv, TypeOK
<1>3. PICK z \in Project : z = project'
  BY <1>2
<1>4. z.history = Append(p.history, e) /\ z.current = q.seq
  BY <1>1, <1>3
<1>5. PICK n \in Nat :
        /\ n = Len(p.history) /\ Len(z.history) = n + 1
        /\ DOMAIN z.history = 1 .. (n + 1) /\ z.history[n + 1] = e
        /\ \A k \in DOMAIN p.history : z.history[k] = p.history[k]
        /\ DOMAIN p.history = 1 .. n
  BY <1>4, EntryAdded, ProjectShape
<1>6. q.seq = n /\ p.current + 1 \in 1 .. n
  BY <1>0, <1>1, <1>5 DEF Sound, Tip
<1> DEFINE S == EditsOf(p)
           x == Pictured(e)
<1>7. /\ S \in Seq(History!Edit) /\ Len(S) = n /\ DOMAIN S = 1 .. n
      /\ \A i \in 1 .. n : S[i] = Pictured(p.history[i]) /\ S[i].job = p.history[i].job
      /\ PointerOf(p) = p.current
  BY <1>5, EditsShape, ProjectShape, PicturedFits
<1>8. x \in History!Edit /\ ~x.published /\ x.job = q.job
  BY <1>1, PicturedFits
<1>9. /\ EditsOf(z) \in Seq(History!Edit) /\ Len(EditsOf(z)) = n + 1
      /\ \A i \in 1 .. (n + 1) : EditsOf(z)[i] = Pictured(z.history[i])
      /\ PointerOf(z) = n
  BY <1>4, <1>5, <1>6, EditsShape
<1> HIDE DEF S, x, q
<1>10. EditsOf(z) = Append(S, x)
  <2>1. /\ Append(S, x) \in Seq(History!Edit) /\ Len(Append(S, x)) = n + 1
        /\ \A i \in 1 .. n : Append(S, x)[i] = S[i]
        /\ Append(S, x)[n + 1] = x
    BY <1>7, <1>8
  <2>2. \A i \in 1 .. n : EditsOf(z)[i] = S[i]
    BY <1>5, <1>7, <1>9
  <2>3. EditsOf(z)[n + 1] = x
    BY <1>5, <1>9 DEF x
  <2>4. \A i \in 1 .. (n + 1) : EditsOf(z)[i] = Append(S, x)[i]
    BY <2>1, <2>2, <2>3
  <2> QED BY <1>9, <2>1, <2>4
<1>11. x.job \notin {S[i].job : i \in DOMAIN S} \/ x.job = S[p.current + 1].job
  <2>1. CASE q.render
    <3>1. \A i \in DOMAIN p.history : p.history[i].job # q.job
      BY <1>0, <1>1, <2>1 DEF Tip
    <3> QED BY <1>5, <1>7, <1>8, <3>1
  <2>2. CASE ~q.render
    <3>1. q.job = q.prev.job /\ p.history[p.current + 1] = q.prev
      BY <1>0, <1>1, <2>2 DEF Tip
    <3> QED BY <1>6, <1>7, <1>8, <3>1
  <2> QED BY <2>1, <2>2
<1>12. S # <<>>
  BY <1>6, <1>7
<1>13. EditsOf(project) = S /\ PointerOf(project) = p.current
  BY <1>1, <1>7 DEF S
<1>14. EditsOf(project)' = Append(S, x) /\ PointerOf(project)' = n
  BY <1>3, <1>9, <1>10
<1>15. History!Extend(x)
  BY <1>7, <1>8, <1>11, <1>12, <1>13, <1>14
     DEF History!Extend, History!ShownJobs, History!ShownEdit
<1> QED BY <1>8, <1>15

(* Two fields of a member at once.                                         *)
LEMMA TwoFields ==
  ASSUME NEW D, NEW R, NEW S \in [D -> R], NEW i \in D, NEW j, NEW o
  PROVE  [S EXCEPT ![i].job = j, ![i].overrides = o]
           = [S EXCEPT ![i] = [S[i] EXCEPT !.job = j, !.overrides = o]]
<1> DEFINE a == [S[i] EXCEPT !.job = j]
           b == [a EXCEPT !.overrides = o]
           T == [S EXCEPT ![i] = a]
<1>1. T[i] = a
  OBVIOUS
<1>2. [S EXCEPT ![i].job = j, ![i].overrides = o] = [T EXCEPT ![i] = [T[i] EXCEPT !.overrides = o]]
  OBVIOUS
<1>3. [T EXCEPT ![i] = b] = [S EXCEPT ![i] = b]
  <2> HIDE DEF a, b
  <2> QED OBVIOUS
<1> QED BY <1>1, <1>2, <1>3

(* An entry replaced by one that is published as it was.                   *)
LEMMA ReplaceAmends ==
  ASSUME TypeInv, LoneInv, SoundInv, TipInv, ~torn, NEW t, Threads = {t}, Replace(t)
  PROVE  \E j \in Jobs, o \in SUBSET Params : History!Amend(j, o)
<1> DEFINE q == req[t]
           i == IndexOf(project, q.prev.seq)
           old == IF project.history[i].job = q.prev.job THEN project.history[i] ELSE q.prev
           p == old.published
           n == NewEntry(t)
           e == [n EXCEPT !.seq = q.prev.seq, !.published = p]
<1>0. /\ t \in Threads /\ RequestOK(q, project, made) /\ q \in Request
      /\ Sits(q, project, row, rows, Gone) /\ Tip(q, project)
      /\ Sound(q, project, row, rows, Pending)
  BY LoneAtWork, SoundAtWork DEF TipInv
<1>1. /\ q.pc = "apply" /\ q.kind = "edit" /\ q.collapse
      /\ project' = [project EXCEPT !.history[i] = e]
  BY DEF Replace
<1>2. /\ q.job \in Jobs /\ q.prev \in Entry /\ Supersedes(q) /\ Has(project, q.prev.seq)
      /\ project \in Project /\ project # None /\ Linear(project)
  BY <1>0, <1>1, LoneAtWork DEF RequestOK, HasJob, Creates, Supersedes, Sound
<1>3. /\ project.current + 1 \in DOMAIN project.history
      /\ project.history[project.current + 1] = q.prev
      /\ q.prev.job \in Gone
      /\ \A k \in DOMAIN project.history : project.history[k].job # q.job
  BY <1>0, <1>1, <1>2 DEF Tip, Sits
<1>4. i = project.current + 1
  BY <1>2, <1>3, CurrentIsShown, PlaceOfSeq
<1>5. p = q.prev.published /\ p \in BOOLEAN
  BY <1>2, <1>3, <1>4 DEF Entry
<1>6. /\ e \in Entry /\ e.job = q.job /\ e.seq = q.prev.seq /\ e.overrides = q.overrides
      /\ e.published = p
  <2>1. q.prev.seq \in Nat
    BY <1>2 DEF Entry
  <2>2. q.kind \in Submits
    BY <1>1 DEF Submits
  <2>3. /\ n \in [seq : {q.seq}, job : Jobs, overrides : Overrides,
                  published : BOOLEAN, kind : Kinds]
        /\ n.job = q.job /\ n.overrides = q.overrides
    BY <1>0, <1>2, <2>2, NewEntryFits
  <2> HIDE DEF p, n, q
  <2> QED BY <1>5, <2>1, <2>3, EntrySet
<1> HIDE DEF q, i, p, n, e
<1>7. PICK z : z = project'
  OBVIOUS
<1>8. /\ z \in Project /\ DOMAIN z.history = DOMAIN project.history
      /\ z.history[i] = e /\ z.current = project.current
      /\ \A k \in DOMAIN project.history \ {i} : z.history[k] = project.history[k]
  <2>1. i \in DOMAIN project.history /\ e.seq = project.history[i].seq
    BY <1>3, <1>4, <1>6
  <2> QED BY <1>1, <1>2, <1>6, <1>7, <2>1, EntryReplaced
<1> DEFINE S == EditsOf(project)
           D == DOMAIN project.history
<1>9. /\ S \in [D -> History!Edit] /\ DOMAIN S = D
      /\ \A k \in D : S[k] = Pictured(project.history[k]) /\ S[k].job = project.history[k].job
      /\ PointerOf(project) = project.current
  BY <1>2, EditsShape, ProjectShape, PicturedFits
<1>10. /\ EditsOf(z) \in [D -> History!Edit]
       /\ \A k \in D : EditsOf(z)[k] = Pictured(z.history[k])
       /\ PointerOf(z) = project.current
  BY <1>8, EditsShape
<1> HIDE DEF S
<1>11. S[i].published = p /\ S[i] = Pictured(q.prev) /\ S[i].job = q.prev.job
  BY <1>2, <1>3, <1>4, <1>5, <1>9, PicturedFits
<1>12. EditsOf(z) = [S EXCEPT ![i].job = q.job, ![i].overrides = q.overrides]
  <2> DEFINE b == [S[i] EXCEPT !.job = q.job, !.overrides = q.overrides]
  <2>1. b = Pictured(e)
    <3>1. /\ S[i] \in History!Edit /\ S[i].published = p
          /\ q.job \in Jobs /\ q.overrides \in SUBSET Params
      BY <1>0, <1>2, <1>3, <1>4, <1>9, <1>11 DEF Request, Overrides
    <3>2. PICK s \in History!Edit : s = S[i] /\ s.published = p
      BY <3>1
    <3>3. b = [s EXCEPT !.job = q.job, !.overrides = q.overrides]
      BY <3>2
    <3> HIDE DEF b
    <3>4. /\ b \in History!Edit /\ b.job = q.job /\ b.overrides = q.overrides
          /\ b.published = p
      BY <3>1, <3>2, <3>3 DEF History!Edit
    <3>5. /\ Pictured(e) \in History!Edit /\ Pictured(e).job = q.job
          /\ Pictured(e).overrides = q.overrides /\ Pictured(e).published = p
      BY <1>6, PicturedFits
    <3> QED BY <3>4, <3>5 DEF History!Edit
  <2>2. [S EXCEPT ![i].job = q.job, ![i].overrides = q.overrides] = [S EXCEPT ![i] = b]
    BY <1>3, <1>4, <1>9, TwoFields
  <2> HIDE DEF b
  <2>3. EditsOf(z)[i] = b
    BY <1>3, <1>4, <1>8, <1>10, <2>1
  <2>4. \A k \in D \ {i} : EditsOf(z)[k] = S[k]
    BY <1>8, <1>9, <1>10
  <2>5. EditsOf(z) = [S EXCEPT ![i] = b]
    BY <1>9, <1>10, <2>3, <2>4
  <2> QED BY <2>2, <2>5
<1>13. S # <<>>
  BY <1>3, <1>9
<1>14. q.job \notin {S[k].job : k \in DOMAIN S}
  BY <1>3, <1>9
<1>15. /\ EditsOf(project) = S /\ PointerOf(project) + 1 = i
       /\ EditsOf(project)' = EditsOf(z) /\ PointerOf(project)' = PointerOf(project)
  BY <1>4, <1>7, <1>9, <1>10 DEF S
<1>16. q.overrides \in SUBSET Params
  BY <1>0 DEF Request, Overrides
<1>17. History!Amend(q.job, q.overrides)
  BY <1>3, <1>11, <1>12, <1>13, <1>14, <1>15
     DEF History!Amend, History!ShownJobs, History!ShownEdit
<1> QED BY <1>2, <1>16, <1>17

(* Undo and redo move the pointer to an edit there is.                     *)
LEMMA RevertPoints ==
  ASSUME TypeInv, SoundInv, ~torn, NEW t \in Threads, NEW seq \in 0 .. MaxSeq, Revert(t, seq)
  PROVE  \E i \in DOMAIN EditsOf(project) : History!Point(i)
<1>1. /\ listed /\ Has(project, seq) /\ project' = [project EXCEPT !.current = seq]
  BY DEF Revert
<1>2. project \in Project /\ project # None /\ Linear(project)
  BY <1>1, ListedProject DEF SoundInv, Sound
<1>3. PICK z : z = project'
  OBVIOUS
<1>4. seq + 1 \in DOMAIN project.history /\ seq \in Nat
  BY <1>1, <1>2, PlaceOfSeq
<1>5. z \in Project /\ z.history = project.history /\ z.current = seq
  BY <1>1, <1>2, <1>3, <1>4, CurrentReplaced
<1>6. EditsOf(z) = EditsOf(project)
  BY <1>2, <1>5, NoneAssumption DEF EditsOf
<1>7. PointerOf(z) = seq /\ seq + 1 \in DOMAIN EditsOf(project)
  BY <1>2, <1>4, <1>5, EditsShape
<1>8. (seq + 1) - 1 = seq
  BY <1>4
<1>9. History!Point(seq + 1)
  BY <1>3, <1>6, <1>7, <1>8 DEF History!Point
<1> QED BY <1>7, <1>9

LEMMA FlagPublishes ==
  ASSUME TypeInv, NEW t \in Threads, NEW seq \in 0 .. MaxSeq, NEW published \in BOOLEAN,
         SetPublished(t, seq, published)
  PROVE  \E i \in DOMAIN EditsOf(project) : History!Publish(i, published)
<1> DEFINE i == IndexOf(project, seq)
           e == [project.history[i] EXCEPT !.published = published]
<1>1. /\ listed /\ Has(project, seq) /\ project' = [project EXCEPT !.history[i] = e]
  BY DEF SetPublished
<1>2. project \in Project /\ i \in DOMAIN project.history
  BY <1>1, ListedProject
<1>3. /\ e \in Entry /\ e.seq = project.history[i].seq /\ e.job = project.history[i].job
      /\ e.overrides = project.history[i].overrides /\ e.published = published
  BY <1>2, ProjectShape DEF Entry
<1> HIDE DEF e, i
<1>4. PICK z : z = project'
  OBVIOUS
<1>5. /\ z \in Project /\ DOMAIN z.history = DOMAIN project.history /\ z.history[i] = e
      /\ \A k \in DOMAIN project.history \ {i} : z.history[k] = project.history[k]
      /\ z.current = project.current
  BY <1>1, <1>2, <1>3, <1>4, EntryReplaced
<1> DEFINE S == EditsOf(project)
           D == DOMAIN project.history
<1>6. /\ S \in [D -> History!Edit] /\ DOMAIN S = D
      /\ \A k \in D : S[k] = Pictured(project.history[k])
      /\ PointerOf(project) = project.current
  BY <1>2, EditsShape
<1>7. /\ EditsOf(z) \in [D -> History!Edit]
      /\ \A k \in D : EditsOf(z)[k] = Pictured(z.history[k])
      /\ PointerOf(z) = project.current
  BY <1>5, EditsShape
<1> HIDE DEF S
<1>8. EditsOf(z) = [S EXCEPT ![i].published = published]
  <2>1. PICK s \in History!Edit : s = S[i]
    BY <1>2, <1>6
  <2>2. s.job = e.job /\ s.overrides = e.overrides
    BY <1>2, <1>3, <1>6, <2>1, PicturedFits, ProjectShape
  <2> DEFINE b == [s EXCEPT !.published = published]
  <2>3. [S EXCEPT ![i].published = published] = [S EXCEPT ![i] = b]
    BY <2>1
  <2>4. /\ b \in History!Edit /\ b.job = e.job /\ b.overrides = e.overrides
        /\ b.published = published
    BY <2>2 DEF History!Edit
  <2> HIDE DEF b
  <2>5. /\ Pictured(e) \in History!Edit /\ Pictured(e).job = e.job
        /\ Pictured(e).overrides = e.overrides /\ Pictured(e).published = published
    BY <1>3, PicturedFits
  <2>6. b = Pictured(e)
    BY <2>4, <2>5 DEF History!Edit
  <2>7. EditsOf(z)[i] = b
    BY <1>2, <1>5, <1>7, <2>6
  <2>8. \A k \in D \ {i} : EditsOf(z)[k] = S[k]
    BY <1>5, <1>6, <1>7
  <2>9. EditsOf(z) = [S EXCEPT ![i] = b]
    BY <1>6, <1>7, <2>7, <2>8
  <2> QED BY <2>3, <2>9
<1>9. /\ EditsOf(project)' = [EditsOf(project) EXCEPT ![i].published = published]
      /\ PointerOf(project)' = PointerOf(project)
  BY <1>4, <1>6, <1>7, <1>8 DEF S
<1>10. History!Publish(i, published)
  BY <1>9 DEF History!Publish
<1>11. i \in DOMAIN EditsOf(project)
  BY <1>2, <1>6 DEF S
<1> QED BY <1>10, <1>11

(* Between requests, a restart reads the same edits back.                  *)
LEMMA RestartHides ==
  ASSUME TypeInv, LoneInv, SoundInv, ~torn, ~torn', NEW t, Threads = {t}, Restart
  PROVE  EditsOf(project)' = EditsOf(project) /\ PointerOf(project)' = PointerOf(project)
<1>1. req[t].pc = "idle" /\ project' = Rehydrated
  BY DEF Restart, Quiet
<1>2. CASE project = None
  <2>1. project' = None
    BY <1>1, <1>2 DEF LoneInv, Rehydrated
  <2> QED BY <1>2, <2>1, EditsStay
<1>3. CASE project # None
  <2>1. PICK z : z = project'
    OBVIOUS
  <2>2. /\ z \in Project /\ z.current = project.current
        /\ Len(z.history) = Len(project.history)
        /\ \A i \in DOMAIN project.history : Same(z.history[i], project.history[i])
    BY <1>1, <1>3, <2>1, RestartKeeps
  <2>3. project \in Project
    BY <1>3 DEF TypeInv, TypeOK
  <2>4. DOMAIN z.history = DOMAIN project.history
    BY <2>2, <2>3, ProjectShape
  <2>5. EditsOf(z) = EditsOf(project) /\ PointerOf(z) = PointerOf(project)
    BY <2>2, <2>3, <2>4, SameEdits DEF Same
  <2> QED BY <2>1, <2>5
<1> QED BY <1>2, <1>3

(* A step that changes no more than the inputs of the project.             *)
LEMMA CancelHides ==
  ASSUME TypeInv, NEW t \in Threads, CancelPrev(t)
  PROVE  EditsOf(project)' = EditsOf(project) /\ PointerOf(project)' = PointerOf(project)
<1>1. PICK z : z = project'
  OBVIOUS
<1>2. /\ project \in Project /\ z \in Project
      /\ z.history = project.history /\ z.current = project.current
  BY <1>1, CancelKeepsHistory
<1>3. EditsOf(z) = EditsOf(project) /\ PointerOf(z) = PointerOf(project)
  BY <1>2, SameEdits
<1> QED BY <1>1, <1>3

LEMMA HistoryStep ==
  Lone /\ TypeInv /\ LoneInv /\ SoundInv /\ TipInv /\ [Next]_vars
    => [History!Next]_<<EditsOf(project), PointerOf(project), Gone, torn>>
<1> SUFFICES ASSUME Lone, TypeInv, LoneInv, SoundInv, TipInv, [Next]_vars
             PROVE  History!Next
  OBVIOUS
<1> DEFINE same == /\ EditsOf(project)' = EditsOf(project)
                   /\ PointerOf(project)' = PointerOf(project)
           goes == \/ \E e \in History!Edit : History!Begin(e) \/ History!Extend(e)
                   \/ \E j \in Jobs, o \in SUBSET Params : History!Amend(j, o)
                   \/ \E i \in DOMAIN EditsOf(project) :
                        \/ History!Point(i)
                        \/ \E published \in BOOLEAN : History!Publish(i, published)
                   \/ History!Discard
<1>0. PICK t : t \in Threads /\ Threads = {t}
  BY DEF Lone
<1>1. Gone \subseteq Gone'
  BY GoneGrows
<1>2. torn => torn'
  BY TornStays
<1>3. ASSUME same \/ goes \/ torn' PROVE History!Next
  BY <1>1, <1>2, <1>3 DEF History!Next
<1>4. ASSUME ~torn' PROVE same \/ goes
  <2> HIDE DEF same, goes
  <2>0. ~torn
    BY <1>2, <1>4
  <2>1. ASSUME UNCHANGED project PROVE same
    BY <2>1, EditsStay DEF same
  <2>2. CASE Edit(t) \/ Delete(t)
    <3>1. UNCHANGED project
      BY <2>2 DEF Edit, Create, Patch, SwapSessions, UpgradeTemplate, Delete
    <3> QED BY <2>1, <3>1
  <2>3. CASE Point(t)
    <3>1. ASSUME NEW seq \in 0 .. MaxSeq, Revert(t, seq) PROVE goes
      BY <1>0, <2>0, <3>1, RevertPoints DEF goes
    <3>2. ASSUME NEW seq \in 0 .. MaxSeq, NEW published \in BOOLEAN,
                 SetPublished(t, seq, published)
          PROVE  goes
      <4>1. \E i \in DOMAIN EditsOf(project) : History!Publish(i, published)
        BY <1>0, <3>2, FlagPublishes
      <4> QED BY <4>1 DEF goes
    <3> QED BY <2>3, <3>1, <3>2 DEF Point
  <2>4. CASE CancelPrev(t)
    BY <1>0, <2>4, CancelHides DEF same
  <2>5. CASE \/ ReadStatus(t) \/ SubmitFails(t) \/ PickSeq(t) \/ PersistRow(t)
             \/ PersistEntry(t) \/ PersistReplace(t) \/ PersistFlag(t) \/ WriteFails(t)
             \/ DeleteRow(t) \/ \E j \in Jobs : Submit(t, j) \/ DeleteCancels(t, j)
    <3>1. ReadStatus(t) \/ SubmitFails(t) \/ PickSeq(t) \/ PersistRow(t) => UNCHANGED project
      BY DEF ReadStatus, SubmitFails, PickSeq, PersistRow
    <3>2. PersistEntry(t) => UNCHANGED project
      BY Zenon DEF PersistEntry
    <3>3. PersistReplace(t) \/ PersistFlag(t) => UNCHANGED project
      BY Zenon DEF PersistReplace, PersistFlag
    <3>4. WriteFails(t) \/ DeleteRow(t) => UNCHANGED project
      BY DEF WriteFails, DeleteRow
    <3>5. \A j \in Jobs : Submit(t, j) \/ DeleteCancels(t, j) => UNCHANGED project
      BY DEF Submit, DeleteCancels
    <3> QED BY <2>1, <2>5, <3>1, <3>2, <3>3, <3>4, <3>5
  <2>6. CASE Built(t)
    BY <1>0, <2>6, BuiltBegins DEF goes
  <2>7. CASE AppendEntry(t)
    BY <1>0, <2>0, <2>7, AppendExtends DEF goes
  <2>8. CASE Replace(t)
    BY <1>0, <2>0, <2>8, ReplaceAmends DEF goes
  <2>9. CASE Forget(t)
    <3>1. project' = None
      BY <1>0, <2>9 DEF Forget
    <3>2. History!Discard
      BY <3>1 DEF History!Discard, EditsOf, PointerOf
    <3> QED BY <3>2 DEF goes
  <2>10. CASE Restart
    BY <1>0, <1>4, <2>0, <2>10, RestartHides DEF same
  <2>11. CASE UNCHANGED vars \/ \E j \in Jobs, o \in Outcomes : WorkerSettles(j, o)
    <3>1. UNCHANGED project
      BY <2>11 DEF vars, WorkerSettles
    <3> QED BY <2>1, <3>1
  <2>12. CASE Serve(t)
    BY <2>4, <2>5, <2>6, <2>7, <2>8, <2>9, <2>12 DEF Serve
  <2> QED BY <1>0, <2>2, <2>3, <2>10, <2>11, <2>12 DEF Next
<1> QED BY <1>3, <1>4

(* One request at a time: until a write or the rest of a request is lost,  *)
(* the object implements EditHistory.  Edits go behind all others, undo    *)
(* and redo move the pointer only, the shown edit is replaced only if its  *)
(* job was given up, and a restart between requests is not seen.           *)
THEOREM ProjectKeepsHistory == Lone => (Spec => KeepsHistory)
<1> SUFFICES ASSUME Lone PROVE Spec => KeepsHistory
  OBVIOUS
<1>1. Init => History!Init
  BY DEF Init, History!Init, EditsOf, PointerOf, Gone
<1>2. TypeInv /\ LoneInv /\ SoundInv /\ TipInv /\ [Next]_vars
        => [History!Next]_<<EditsOf(project), PointerOf(project), Gone, torn>>
  BY HistoryStep
<1> QED BY <1>1, <1>2, TipInvHolds, PTL DEF Spec, KeepsHistory, History!Spec

=============================================================================
