---------------------------- MODULE ServiceProof ----------------------------
(***************************************************************************)
(* Proofs about Service and the DashboardMetrics it drives, for any        *)
(* requests, limits and times: the limits of the server, and what becomes  *)
(* of a recorded request, of a snapshot and of the last flush.             *)
(***************************************************************************)
EXTENDS Service, Lists

(* The writes of a job *)
WriteKinds == [op : {"add", "delete"}, tables : SUBSET Tables]
Adds(write, t) == write.op = "add" /\ t \in write.tables
\* At most one write adds to a table, and one adds to the requests and the upstreams.
Plans ==
  {w \in Seq(WriteKinds) :
     /\ \A k, l \in DOMAIN w, t \in Tables : Adds(w[k], t) /\ Adds(w[l], t) => k = l
     /\ \A k \in DOMAIN w : Adds(w[k], "request") <=> Adds(w[k], "upstream")}
Will(w, t) == \E k \in DOMAIN w : Adds(w[k], t)
Jobs == [rows : SUBSET Requests, at : Int, todo : Plans \ {<<>>}]
Pending(job, r, t) == r \in job.rows /\ Will(job.todo, t)

(* Where requests are counted: in the buffer B, by a job of the chain q, or in the    *)
(* tables T.  R are the recorded ones, and K those of them that the retention keeps. *)
Kept == {r \in Recorded : minute[r] >= now - Retention}
Chained(B, q, T, R, K, n, rejected) ==
  /\ B \subseteq R /\ R \subseteq Requests /\ K \subseteq R
  /\ q \in Seq(Jobs) /\ \A i \in DOMAIN q : q[i].rows \subseteq R /\ q[i].at <= n
  /\ T \in [Tables -> [Requests -> {0, 1}]]
  /\ \A t \in Tables, r \in Requests : T[t][r] = 1 => r \in R /\ r \notin B /\ Has(r, t)
  /\ \A t \in Tables, r \in Requests, i \in DOMAIN q : Pending(q[i], r, t) =>
       r \notin B /\ T[t][r] = 0 /\ \A j \in DOMAIN q : Pending(q[j], r, t) => i = j
  /\ ~rejected => \A t \in Tables, r \in K : Has(r, t) =>
       r \in B \/ T[t][r] = 1 \/ \E i \in DOMAIN q : Pending(q[i], r, t)
Placed == Chained(buffer, tail, table, Recorded, Kept, now, broken)

\* The requests D are in the tables T, or are written by the first n jobs of q.
Safe(D, n, q, T, K) ==
  \A t \in Tables, r \in D \cap K : Has(r, t) =>
    T[t][r] = 1 \/ \E i \in DOMAIN q : i <= n /\ Pending(q[i], r, t)
InTables(D) == Safe(D, 0, tail, table, Kept)

(* Types *)
SnapStages == {"none", "flush", "flushed", "beat", "read", "done", "failed"}
SnapStates ==
  [stage : SnapStages, began : Int, ahead : Nat, due : SUBSET Requests, beat : Int,
   seen : [Tables -> SUBSET Requests], left : SUBSET Tables]
Typed ==
  /\ case \in Cases /\ now \in Nat /\ now \in Start..case.until
  /\ minute \in [Requests -> Int]
  /\ \A r \in Requests : minute[r] = Unrecorded \/ minute[r] \in {MinuteBucket(t) : t \in 0..case.until}
  /\ \A r \in Requests : pc[r] \in Running \cup {"new", "absent"} => minute[r] = Unrecorded
  /\ IsFiniteSet(Recorded)
  /\ broken \in BOOLEAN /\ storeOpen \in BOOLEAN
  /\ beats \in [queue : Nat, broken : BOOLEAN]
  /\ sample \in Int /\ sample <= now
  /\ snap \in [Requests -> SnapStates]
  /\ \A r \in Requests :
       /\ snap[r].due \subseteq Recorded /\ \A t \in Tables : snap[r].seen[t] \subseteq Recorded
       /\ snap[r].began <= now
       /\ snap[r].stage = "flush" => snap[r].ahead \in 1..Len(tail)
       /\ snap[r].stage = "beat" => snap[r].ahead \in 1..beats.queue
  /\ pc \in [Requests -> Running \cup {"new", "absent", "answered"}]
  /\ present \subseteq Handlers
  /\ closing \in Stages /\ exit \in Exits
  /\ closer \in [ahead : Nat, rejected : BOOLEAN, due : SUBSET Requests] /\ closer.due \subseteq Recorded
\* A request is let in in the second of its window.
Limiting ==
  /\ window \in [at : Int, requests : 0..MaxPerSecond] /\ window.at <= now
  /\ letIn \in Nat /\ letIn <= IF window.at = now THEN window.requests ELSE 0
  /\ IsFiniteSet(Handlers) /\ active = Cardinality(Handlers) /\ active <= Maximum

(* A snapshot, and closing *)
Asked(r) ==
  /\ snap[r].stage = "flush" => Safe(snap[r].due, snap[r].ahead, tail, table, Kept)
  /\ snap[r].stage \in {"flushed", "beat", "read"} => InTables(snap[r].due)
  /\ snap[r].stage \in {"flush", "flushed", "beat"} => snap[r].left = Tables
  /\ snap[r].stage = "done" => snap[r].left = {}
  /\ snap[r].stage \in {"read", "done"} =>
       /\ \A t \in Tables \ snap[r].left : \A q \in snap[r].due :
            Has(q, t) /\ minute[q] >= snap[r].began - Window /\ minute[q] >= now - Retention
              => q \in snap[r].seen[t]
       /\ sample >= snap[r].began
       /\ "request" \notin snap[r].left => snap[r].beat >= snap[r].began
\* Over SQLite the requests and the upstreams are written and read together.
Together ==
  case.backend = "sqlite" =>
    /\ \A r \in Kept : Shape[r].attempts # {} => table["request"][r] = table["upstream"][r]
    /\ \A r \in Requests : snap[r].stage = "read" => snap[r].left = Tables
    /\ \A r \in Requests : snap[r].stage = "done" => \A q \in Kept :
         Shape[q].attempts # {} => (q \in snap[r].seen["request"] <=> q \in snap[r].seen["upstream"])
Snaps == (\A r \in Requests : Asked(r)) /\ Together
Closing ==
  /\ closing = "flush" /\ ~closer.rejected => Safe(closer.due, closer.ahead, tail, table, Kept)
  /\ closing \in {"beat", "store", "others", "closed"} => InTables(closer.due)
  /\ closing = "flush" /\ closer.rejected => broken
  /\ storeOpen \/ closing \in {"others", "closed"}
Inv == Typed /\ Placed /\ Limiting /\ Snaps /\ Closing

-----------------------------------------------------------------------------
(* The writes of a flush *)

\* When the first write of a plan is done, the others are left.
LEMMA PlanTail ==
  ASSUME NEW w \in Plans, w # <<>>
  PROVE  /\ Head(w) \in WriteKinds /\ Tail(w) \in Plans
         /\ Adds(Head(w), "request") <=> Adds(Head(w), "upstream")
         /\ \A t \in Tables : /\ Will(w, t) <=> Adds(Head(w), t) \/ Will(Tail(w), t)
                              /\ ~(Adds(Head(w), t) /\ Will(Tail(w), t))
         /\ Len(w) = 1 <=> Tail(w) = <<>>
<1>1. w \in Seq(WriteKinds) /\ DOMAIN w = 1..Len(w) /\ Len(w) \in Nat \ {0}
  BY EmptySeq, LenProperties DEF Plans
<1>2. Head(w) \in WriteKinds /\ Head(w) = w[1] /\ 1 \in DOMAIN w
  BY <1>1, HeadTailProperties, ElementOfSeq
<1>3. /\ Tail(w) \in Seq(WriteKinds) /\ DOMAIN Tail(w) = 1..(Len(w) - 1) /\ Len(Tail(w)) = Len(w) - 1
      /\ \A k \in DOMAIN Tail(w) : Tail(w)[k] = w[k + 1]
  <2>1. Tail(w) \in Seq(WriteKinds) /\ Len(Tail(w)) = Len(w) - 1 /\ \A k \in 1..Len(Tail(w)) : Tail(w)[k] = w[k + 1]
    BY <1>1, HeadTailProperties
  <2> QED
    BY <2>1, LenProperties
<1> DEFINE v == Tail(w)
<1>4. v \in Seq(WriteKinds) /\ DOMAIN v = 1..(Len(w) - 1) /\ \A k \in DOMAIN v : v[k] = w[k + 1]
  BY <1>3
<1> HIDE DEF v
<1>5. \A k, l \in DOMAIN w, t \in Tables : Adds(w[k], t) /\ Adds(w[l], t) => k = l
  BY DEF Plans
<1>6. \A k \in DOMAIN w : Adds(w[k], "request") <=> Adds(w[k], "upstream")
  BY DEF Plans
<1>7. \A k \in DOMAIN v : k \in Nat /\ k + 1 \in DOMAIN w /\ k + 1 # 1
  BY <1>1, <1>4
<1>8. v \in Plans
  <2>1. ASSUME NEW k \in DOMAIN v, NEW l \in DOMAIN v, NEW t \in Tables, Adds(v[k], t), Adds(v[l], t)
        PROVE  k = l
    <3>1. Adds(w[k + 1], t) /\ Adds(w[l + 1], t)
      BY <1>4, <2>1
    <3>2. k + 1 = l + 1
      BY <1>5, <1>7, <3>1
    <3> QED
      BY <1>7, <3>2
  <2>2. \A k \in DOMAIN v : Adds(v[k], "request") <=> Adds(v[k], "upstream")
    BY <1>4, <1>6, <1>7
  <2> QED
    BY <1>4, <2>1, <2>2 DEF Plans
<1>9. ASSUME NEW t \in Tables
      PROVE  (Will(w, t) <=> Adds(w[1], t) \/ Will(v, t)) /\ ~(Adds(w[1], t) /\ Will(v, t))
  <2>1. ASSUME NEW k \in DOMAIN w, Adds(w[k], t), k # 1 PROVE Will(v, t)
    <3>1. k - 1 \in DOMAIN v /\ (k - 1) + 1 = k
      BY <1>1, <1>4, <2>1
    <3>2. Adds(v[k - 1], t)
      BY <1>4, <2>1, <3>1
    <3> QED
      BY <3>1, <3>2 DEF Will
  <2>2. ASSUME NEW k \in DOMAIN v, Adds(v[k], t) PROVE Will(w, t) /\ ~Adds(w[1], t)
    <3>1. Adds(w[k + 1], t) /\ k + 1 \in DOMAIN w /\ k + 1 # 1
      BY <1>4, <1>7, <2>2
    <3> QED
      BY <1>2, <1>5, <3>1 DEF Will
  <2> QED
    BY <1>2, <2>1, <2>2 DEF Will
<1>10. Len(w) = 1 <=> v = <<>>
  BY <1>1, <1>3, EmptySeq, LenProperties DEF v
<1> QED
  BY <1>2, <1>6, <1>8, <1>9, <1>10 DEF v

\* Deletions after the additions leave a plan.
LEMMA PlanAppend ==
  ASSUME NEW w \in Plans, NEW d \in Seq(WriteKinds), \A k \in DOMAIN d : d[k].op = "delete"
  PROVE  w \o d \in Plans /\ \A t : Will(w, t) => Will(w \o d, t)
<1> DEFINE v == w \o d
<1>1. w \in Seq(WriteKinds) /\ DOMAIN w = 1..Len(w) /\ Len(w) \in Nat
  BY LenProperties DEF Plans
<1>2. DOMAIN d = 1..Len(d) /\ Len(d) \in Nat
  BY LenProperties
<1>3. v \in Seq(WriteKinds) /\ Len(v) = Len(w) + Len(d)
      /\ \A i \in 1..(Len(w) + Len(d)) : v[i] = IF i <= Len(w) THEN w[i] ELSE d[i - Len(w)]
  BY <1>1, ConcatProperties
<1>4. DOMAIN v = 1..(Len(w) + Len(d))
  BY <1>3, LenProperties
<1> HIDE DEF v
<1>5. ASSUME NEW k \in DOMAIN v, NEW t, Adds(v[k], t) PROVE k \in DOMAIN w /\ v[k] = w[k]
  <2>1. CASE k <= Len(w)
    BY <1>1, <1>3, <1>4, <2>1
  <2>2. CASE ~(k <= Len(w))
    <3>1. k - Len(w) \in DOMAIN d /\ v[k] = d[k - Len(w)]
      BY <1>1, <1>2, <1>3, <1>4, <2>2
    <3> QED
      BY <1>5, <3>1 DEF Adds
  <2> QED
    BY <2>1, <2>2
<1>6. \A k \in DOMAIN w : k \in DOMAIN v /\ v[k] = w[k]
  BY <1>1, <1>2, <1>3, <1>4
<1>7. \A k, l \in DOMAIN v, t \in Tables : Adds(v[k], t) /\ Adds(v[l], t) => k = l
  BY <1>5 DEF Plans
<1>8. \A k \in DOMAIN v : Adds(v[k], "request") <=> Adds(v[k], "upstream")
  BY <1>5 DEF Plans
<1>9. \A t : Will(w, t) => Will(v, t)
  BY <1>6 DEF Will
<1> QED
  BY <1>3, <1>7, <1>8, <1>9 DEF v, Plans

\* A flush of S adds each of its requests to each table that has it.
LEMMA PlanOf ==
  ASSUME NEW S \in SUBSET Requests, NEW clean \in BOOLEAN
  PROVE  LET w == Writes(S) \o (IF clean THEN Cleanup ELSE <<>>)
         IN w \in Plans /\ \A r \in S, t \in Tables : Has(r, t) => Will(w, t)
<1> DEFINE some == {r \in S : Shape[r].attempts # {}}
           a == Add({"request", "upstream"})
           b == Add({"provider"})
           d == IF clean THEN Cleanup ELSE <<>>
           all == Delete(Tables)
           x == Delete({"request"})
           y == Delete({"upstream"})
           z == Delete({"provider"})
<1>1. /\ a \in WriteKinds /\ b \in WriteKinds
      /\ \A t : (Adds(a, t) <=> t \in {"request", "upstream"}) /\ (Adds(b, t) <=> t = "provider")
  BY DEF WriteKinds, Add, Adds, Tables
<1>2. d \in Seq(WriteKinds) /\ \A k \in DOMAIN d : d[k].op = "delete"
  <2>1. /\ \A e \in {all, x, y, z} : e \in WriteKinds /\ e.op = "delete"
        /\ d \in {<<>>, <<all>>, <<x, y, z>>}
    BY DEF WriteKinds, Delete, Cleanup, Tables
  <2> HIDE DEF all, x, y, z, d
  <2>2. CASE d = <<>>
    BY <2>2
  <2>3. CASE d = <<all>>
    BY <2>1, <2>3
  <2>4. CASE d = <<x, y, z>>
    BY <2>1, <2>4
  <2> QED
    BY <2>1, <2>2, <2>3, <2>4
<1>3. Writes(S) = IF S = {} THEN <<>> ELSE IF some = {} THEN <<a>> ELSE <<a, b>>
  <2>1. Writes(S) = (IF S = {} THEN <<>> ELSE <<a>>) \o (IF some = {} THEN <<>> ELSE <<b>>)
    BY DEF Writes
  <2>2. S = {} => some = {}
    OBVIOUS
  <2> HIDE DEF a, b, some
  <2>3. a \in WriteKinds /\ b \in WriteKinds
    BY <1>1
  <2>4. <<a>> \in Seq(WriteKinds) /\ <<b>> \in Seq(WriteKinds) /\ <<>> \in Seq(WriteKinds)
        /\ <<a, b>> \in Seq(WriteKinds)
    BY <2>3
  <2>5. <<>> \o <<>> = <<>> /\ <<a>> \o <<>> = <<a>>
    BY <2>4, ConcatEmptySeq
  <2>6. <<a>> \o <<b>> = <<a, b>>
    <3>1. Len(<<a>> \o <<b>>) = 2 /\ Len(<<a, b>>) = 2 /\ <<a>> \o <<b>> \in Seq(WriteKinds)
      BY <2>4, ConcatProperties
    <3>2. (<<a>> \o <<b>>)[1] = a /\ (<<a>> \o <<b>>)[2] = b
      BY <2>4, ConcatProperties
    <3>3. \A i \in 1..2 : (<<a>> \o <<b>>)[i] = <<a, b>>[i]
      BY <3>2
    <3> QED
      BY <2>4, <3>1, <3>3, SeqEqual
  <2> QED
    BY <2>1, <2>2, <2>5, <2>6
<1> HIDE DEF a, b, d
<1>4. <<>> \in Plans
  BY DEF Plans
<1>5. <<a>> \in Plans /\ Will(<<a>>, "request") /\ Will(<<a>>, "upstream")
  BY <1>1 DEF Plans, Will
<1>6. <<a, b>> \in Plans /\ \A t \in Tables : Will(<<a, b>>, t)
  <2> DEFINE w == <<a, b>>
  <2>1. w \in Seq(WriteKinds) /\ DOMAIN w = {1, 2} /\ w[1] = a /\ w[2] = b
    BY <1>1
  <2> HIDE DEF w
  <2>2. w \in Plans
    BY <1>1, <2>1 DEF Plans
  <2>3. \A t \in Tables : Will(w, t)
    BY <1>1, <2>1 DEF Will, Tables
  <2> QED
    BY <2>2, <2>3 DEF w
<1>7. Writes(S) \in Plans /\ \A r \in S, t \in Tables : Has(r, t) => Will(Writes(S), t)
  <2>1. CASE S = {}
    BY <1>3, <1>4, <2>1
  <2>2. CASE S # {} /\ some = {}
    <3>1. Writes(S) = <<a>>
      BY <1>3, <2>2
    <3>2. \A r \in S, t \in Tables : Has(r, t) => t = "request"
      BY <2>2 DEF Has
    <3> QED
      BY <1>5, <3>1, <3>2
  <2>3. CASE S # {} /\ some # {}
    BY <1>3, <1>6, <2>3
  <2> QED
    BY <2>1, <2>2, <2>3
<1>8. Writes(S) \o d \in Plans /\ \A t : Will(Writes(S), t) => Will(Writes(S) \o d, t)
  BY <1>2, <1>7, PlanAppend
<1> QED
  BY <1>7, <1>8 DEF d

-----------------------------------------------------------------------------
(* The chain *)

\* A request is recorded that was not.
LEMMA ChainRecord ==
  ASSUME NEW B, NEW q, NEW T, NEW R, NEW K, NEW n, NEW rejected, Chained(B, q, T, R, K, n, rejected),
         NEW r \in Requests, r \notin R, NEW L, L \subseteq K \cup {r}
  PROVE  Chained(B \cup {r}, q, T, R \cup {r}, L, n, rejected)
<1>1. \A t \in Tables : T[t][r] # 1
  BY DEF Chained
<1>2. \A t \in Tables, i \in DOMAIN q : ~Pending(q[i], r, t)
  BY DEF Chained, Pending
<1>3. /\ B \cup {r} \subseteq R \cup {r} /\ R \cup {r} \subseteq Requests /\ L \subseteq R \cup {r}
      /\ q \in Seq(Jobs) /\ \A i \in DOMAIN q : q[i].rows \subseteq R \cup {r} /\ q[i].at <= n
      /\ T \in [Tables -> [Requests -> {0, 1}]]
  BY DEF Chained
<1>4. \A t \in Tables, p \in Requests : T[t][p] = 1 => p \in R \cup {r} /\ p \notin B \cup {r} /\ Has(p, t)
  BY <1>1 DEF Chained
<1>5. \A t \in Tables, p \in Requests, i \in DOMAIN q : Pending(q[i], p, t) =>
        p \notin B \cup {r} /\ T[t][p] = 0 /\ \A j \in DOMAIN q : Pending(q[j], p, t) => i = j
  BY <1>2 DEF Chained
<1>6. ~rejected => \A t \in Tables, p \in L : Has(p, t) =>
        p \in B \cup {r} \/ T[t][p] = 1 \/ \E i \in DOMAIN q : Pending(q[i], p, t)
  BY DEF Chained
<1> QED
  BY <1>3, <1>4, <1>5, <1>6 DEF Chained

\* The retention keeps fewer.
LEMMA ChainOlder ==
  ASSUME NEW B, NEW q, NEW T, NEW R, NEW K, NEW n \in Int, NEW rejected,
         Chained(B, q, T, R, K, n, rejected), NEW L \in SUBSET K, NEW m \in Int, n <= m
  PROVE  Chained(B, q, T, R, L, m, rejected)
<1>1. \A i \in DOMAIN q : q[i] \in Jobs
  BY ElementOfSeq, LenProperties DEF Chained
<1>2. \A i \in DOMAIN q : q[i].at \in Int /\ (q[i].at <= n => q[i].at <= m)
  BY <1>1 DEF Jobs
<1> QED
  BY <1>2 DEF Chained

\* The rows S are taken by a flush.
LEMMA ChainFlush ==
  ASSUME NEW S, NEW T, NEW R, NEW K, Chained(S, tail, T, R, K, now, broken), Flush(S), now \in Int
  PROVE  /\ Chained(buffer', tail', T, R, K, now, broken)
         /\ buffer' = {} /\ broken' = broken /\ cleanedAt' \in {now, cleanedAt}
         /\ Len(tail) <= Len(tail')
         /\ \A i \in DOMAIN tail : i \in DOMAIN tail' /\ tail'[i] = tail[i]
<1> DEFINE clean == now - cleanedAt >= CleanEvery
           w == Writes(S) \o (IF clean THEN Cleanup ELSE <<>>)
           job == [rows |-> S, at |-> now, todo |-> w]
           N == Len(tail)
<1>1. S \in SUBSET Requests /\ clean \in BOOLEAN /\ S \subseteq R
  BY DEF Chained
<1>2. w \in Plans /\ \A r \in S, t \in Tables : Has(r, t) => Will(w, t)
  BY <1>1, PlanOf
<1>3. /\ buffer' = {} /\ broken' = broken /\ cleanedAt' \in {now, cleanedAt}
      /\ tail' = IF broken \/ w = <<>> THEN tail ELSE Append(tail, job)
  BY DEF Flush
<1> HIDE DEF w, clean
<1>4. tail \in Seq(Jobs) /\ DOMAIN tail = 1..N /\ N \in Nat
  BY LenProperties DEF Chained
<1>5. CASE broken \/ w = <<>>
  <2>1. tail' = tail
    BY <1>3, <1>5
  <2>2. ASSUME ~broken, NEW r \in S, NEW t \in Tables, Has(r, t) PROVE FALSE
    BY <1>2, <1>5, <2>2 DEF Will
  <2>3. Chained({}, tail, T, R, K, now, broken)
    BY <2>2 DEF Chained
  <2>4. Chained(buffer', tail', T, R, K, now, broken)
    BY <1>3, <2>1, <2>3
  <2>5. Len(tail) <= Len(tail')
    BY <1>4, <2>1
  <2>6. \A i \in DOMAIN tail : i \in DOMAIN tail' /\ tail'[i] = tail[i]
    BY <2>1
  <2> HIDE DEF job, N
  <2> QED
    BY <1>3, <2>4, <2>5, <2>6
<1>6. CASE ~(broken \/ w = <<>>)
  <2>1. job \in Jobs
    BY <1>1, <1>2, <1>6 DEF Jobs
  <2>2. /\ tail' \in Seq(Jobs) /\ Len(tail') = N + 1
        /\ \A i \in 1..N : tail'[i] = tail[i]
        /\ tail'[N + 1] = job
    BY <1>3, <1>4, <1>6, <2>1, AppendProperties
  <2>3. DOMAIN tail' = 1..N + 1
    BY <1>4, <2>2, LenProperties
  <2>4. /\ \A i \in DOMAIN tail : i \in DOMAIN tail' /\ tail'[i] = tail[i]
        /\ N + 1 \in DOMAIN tail' /\ N + 1 \notin DOMAIN tail
        /\ \A i \in DOMAIN tail' : i \in DOMAIN tail \/ i = N + 1
        /\ N <= Len(tail')
    BY <1>4, <2>2, <2>3
  <2>5. tail'[N + 1].rows = S /\ tail'[N + 1].at = now /\ tail'[N + 1].todo = w
    BY <2>2
  <2> HIDE DEF job, N
  <2>6. \A r, t : Pending(tail'[N + 1], r, t) <=> r \in S /\ Will(w, t)
    BY <2>5 DEF Pending
  <2>7. \A i \in DOMAIN tail' : tail'[i].rows \subseteq R /\ tail'[i].at <= now
    BY <1>1, <2>4, <2>5 DEF Chained
  <2>8. ASSUME NEW t \in Tables, NEW r \in Requests, NEW i \in DOMAIN tail', Pending(tail'[i], r, t)
        PROVE  r \notin {} /\ T[t][r] = 0 /\ \A j \in DOMAIN tail' : Pending(tail'[j], r, t) => i = j
    <3>1. CASE i \in DOMAIN tail
      <4>1. Pending(tail[i], r, t)
        BY <2>4, <2>8, <3>1
      <4>2. r \notin S /\ T[t][r] = 0 /\ \A j \in DOMAIN tail : Pending(tail[j], r, t) => i = j
        BY <3>1, <4>1 DEF Chained
      <4> QED
        BY <2>4, <2>6, <4>2
    <3>2. CASE i = N + 1
      <4>1. r \in S
        BY <2>6, <2>8, <3>2
      <4>2. T[t][r] # 1 /\ \A j \in DOMAIN tail : ~Pending(tail[j], r, t)
        BY <4>1 DEF Chained
      <4>3. T[t][r] = 0
        BY <4>2 DEF Chained
      <4> QED
        BY <2>4, <3>2, <4>2, <4>3
    <3> QED
      BY <2>4, <3>1, <3>2
  <2>9. ASSUME NEW t \in Tables, NEW r \in K, Has(r, t)
        PROVE  T[t][r] = 1 \/ \E i \in DOMAIN tail' : Pending(tail'[i], r, t)
    <3>1. r \in S \/ T[t][r] = 1 \/ \E i \in DOMAIN tail : Pending(tail[i], r, t)
      BY <1>6, <2>9 DEF Chained
    <3> QED
      BY <1>2, <2>4, <2>6, <2>9, <3>1
  <2>10. \A t \in Tables, r \in Requests : T[t][r] = 1 => r \in R /\ r \notin {} /\ Has(r, t)
    BY DEF Chained
  <2>11. R \subseteq Requests /\ K \subseteq R /\ T \in [Tables -> [Requests -> {0, 1}]]
    BY DEF Chained
  <2>12. Chained({}, tail', T, R, K, now, broken)
    BY <2>2, <2>7, <2>8, <2>9, <2>10, <2>11 DEF Chained
  <2> QED
    BY <1>3, <2>4, <2>12 DEF N
<1> QED
  BY <1>5, <1>6

\* What a write does to a count.
LEMMA WrittenIs ==
  ASSUME table \in [Tables -> [Requests -> {0, 1}]], NEW write \in WriteKinds, NEW X, NEW job,
         NEW t \in Tables, NEW r \in Requests
  PROVE  /\ Written(write, X, job) \in [Tables -> [Requests -> Nat]]
         /\ Written(write, X, job)[t][r] =
              IF t \in X /\ write.op = "add" /\ r \in job.rows /\ Has(r, t) THEN table[t][r] + 1
              ELSE IF t \in X /\ write.op = "delete" /\ r \in Outdated(job.at) THEN 0 ELSE table[t][r]
<1> DEFINE C(u, p) ==
             CASE u \in X /\ write.op = "add" /\ p \in job.rows /\ Has(p, u) -> table[u][p] + 1
               [] u \in X /\ write.op = "delete" /\ p \in Outdated(job.at) -> 0
               [] OTHER -> table[u][p]
<1>1. ASSUME NEW u \in Tables, NEW p \in Requests
      PROVE  C(u, p) = IF u \in X /\ write.op = "add" /\ p \in job.rows /\ Has(p, u) THEN table[u][p] + 1
                       ELSE IF u \in X /\ write.op = "delete" /\ p \in Outdated(job.at) THEN 0 ELSE table[u][p]
  <2>1. CASE u \in X /\ write.op = "add" /\ p \in job.rows /\ Has(p, u)
    BY <2>1
  <2>2. CASE u \in X /\ write.op = "delete" /\ p \in Outdated(job.at)
    BY <2>2
  <2>3. CASE /\ ~(u \in X /\ write.op = "add" /\ p \in job.rows /\ Has(p, u))
             /\ ~(u \in X /\ write.op = "delete" /\ p \in Outdated(job.at))
    BY <2>3
  <2> QED
    BY <2>1, <2>2, <2>3
<1>2. \A u \in Tables, p \in Requests : table[u][p] \in {0, 1}
  OBVIOUS
<1>3. \A u \in Tables, p \in Requests : C(u, p) \in Nat
  BY <1>1, <1>2
<1>4. Written(write, X, job) = [u \in Tables |-> [p \in Requests |-> C(u, p)]]
  BY DEF Written
<1> HIDE DEF C
<1>5. Written(write, X, job)[t][r] = C(t, r)
  BY <1>4
<1>6. Written(write, X, job) \in [Tables -> [Requests -> Nat]]
  BY <1>3, <1>4
<1> QED
  BY <1>1, <1>5, <1>6

\* What is left when the first write of the first job is done.
Ends == Len(Head(tail).todo) = 1
After == IF Ends THEN Tail(tail) ELSE [tail EXCEPT ![1].todo = Tail(@)]
\* The job that has become the i-th one.
Was(i) == IF Ends THEN i + 1 ELSE i

LEMMA ChainHead ==
  ASSUME tail \in Seq(Jobs), tail # <<>>
  PROVE  /\ Head(tail) = tail[1] /\ tail[1] \in Jobs /\ 1 \in DOMAIN tail
         /\ Head(tail[1].todo) \in WriteKinds
         /\ Adds(Head(tail[1].todo), "request") <=> Adds(Head(tail[1].todo), "upstream")
         /\ After \in Seq(Jobs) /\ Len(tail) \in Nat \ {0}
         /\ Len(After) = IF Ends THEN Len(tail) - 1 ELSE Len(tail)
         /\ \A i \in DOMAIN After : /\ i \in Nat \ {0} /\ Was(i) \in DOMAIN tail
                                    /\ After[i].rows = tail[Was(i)].rows /\ After[i].at = tail[Was(i)].at
         /\ \A m \in DOMAIN tail : m \in Nat /\ ((m = 1 /\ Ends) \/ \E i \in DOMAIN After : Was(i) = m)
         /\ \A t \in Tables, r \in Requests :
              /\ r \in tail[1].rows /\ Adds(Head(tail[1].todo), t) => Pending(tail[1], r, t)
              /\ \A i \in DOMAIN After : Pending(After[i], r, t) <=>
                   /\ Pending(tail[Was(i)], r, t)
                   /\ Was(i) = 1 => ~(r \in tail[1].rows /\ Adds(Head(tail[1].todo), t))
              /\ Ends /\ Pending(tail[1], r, t) => r \in tail[1].rows /\ Adds(Head(tail[1].todo), t)
<1> DEFINE N == Len(tail)
           w == tail[1].todo
           write == Head(w)
<1>1. N \in Nat \ {0} /\ DOMAIN tail = 1..N /\ 1 \in DOMAIN tail /\ Head(tail) = tail[1]
  BY EmptySeq, LenProperties, HeadTailProperties
<1>2. tail[1] \in Jobs
  BY <1>1, ElementOfSeq
<1>3. w \in Plans /\ w # <<>>
  BY <1>2 DEF Jobs
<1>4. /\ write \in WriteKinds /\ Tail(w) \in Plans
      /\ Adds(write, "request") <=> Adds(write, "upstream")
      /\ \A t \in Tables : /\ Will(w, t) <=> Adds(write, t) \/ Will(Tail(w), t)
                           /\ ~(Adds(write, t) /\ Will(Tail(w), t))
      /\ Len(w) = 1 <=> Tail(w) = <<>>
  BY <1>3, PlanTail
<1>5. Ends <=> Tail(w) = <<>>
  BY <1>1, <1>4 DEF Ends
<1>6. \A t \in Tables, r \in Requests :
        /\ r \in tail[1].rows /\ Adds(write, t) => Pending(tail[1], r, t)
        /\ Ends /\ Pending(tail[1], r, t) => r \in tail[1].rows /\ Adds(write, t)
  <2>1. ASSUME NEW t, Ends, Will(Tail(w), t) PROVE FALSE
    BY <1>5, <2>1 DEF Will
  <2> QED
    BY <1>4, <2>1 DEF Pending
<1> HIDE DEF N, write
<1>7. CASE Ends
  <2>1. /\ After \in Seq(Jobs) /\ Len(After) = N - 1 /\ \A i \in 1..Len(After) : After[i] = tail[i + 1]
    BY <1>1, <1>7, HeadTailProperties DEF After, N
  <2>2. DOMAIN After = 1..(N - 1)
    BY <1>1, <2>1, LenProperties
  <2>3. \A i \in DOMAIN After : i \in Nat \ {0} /\ Was(i) = i + 1 /\ Was(i) \in DOMAIN tail /\ After[i] = tail[Was(i)]
    BY <1>1, <1>7, <2>1, <2>2 DEF Was
  <2>4. ASSUME NEW m \in DOMAIN tail, m # 1 PROVE \E i \in DOMAIN After : Was(i) = m
    <3>1. m - 1 \in DOMAIN After /\ Was(m - 1) = m
      BY <1>1, <1>7, <2>2, <2>4 DEF Was
    <3> QED
      BY <3>1
  <2>5. \A i \in DOMAIN After : Was(i) # 1
    BY <2>3
  <2> QED
    BY <1>1, <1>2, <1>4, <1>6, <1>7, <2>1, <2>3, <2>4, <2>5 DEF N, write
<1>8. CASE ~Ends
  <2> DEFINE left == [tail[1] EXCEPT !.todo = Tail(w)]
  <2>1. left \in Jobs /\ left.rows = tail[1].rows /\ left.at = tail[1].at /\ left.todo = Tail(w)
    BY <1>2, <1>4, <1>5, <1>8 DEF Jobs
  <2>2. After = [tail EXCEPT ![1] = left]
    BY <1>8 DEF After
  <2> HIDE DEF left
  <2>3. After \in Seq(Jobs) /\ Len(After) = N /\ DOMAIN After = 1..N
        /\ After[1] = left /\ \A i \in DOMAIN After : i # 1 => After[i] = tail[i]
    <3>1. After \in Seq(Jobs) /\ Len(After) = N /\ After[1] = left /\ \A i \in 1..N : i # 1 => After[i] = tail[i]
      BY <1>1, <2>1, <2>2, ExceptSeq DEF N
    <3> QED
      BY <3>1, LenProperties
  <2>4. \A i \in DOMAIN After : /\ i \in Nat \ {0} /\ Was(i) = i /\ i \in DOMAIN tail
                                /\ After[i].rows = tail[i].rows /\ After[i].at = tail[i].at
    BY <1>1, <1>8, <2>1, <2>3 DEF Was
  <2>5. \A m \in DOMAIN tail : m \in DOMAIN After /\ Was(m) = m
    BY <1>1, <1>8, <2>3 DEF Was
  <2>6. \A t \in Tables, r \in Requests : Pending(left, r, t) <=> Pending(tail[1], r, t) /\ ~(r \in tail[1].rows /\ Adds(write, t))
    BY <1>4, <2>1 DEF Pending, write
  <2>7. \A t \in Tables, r \in Requests, i \in DOMAIN After : Pending(After[i], r, t) <=>
          /\ Pending(tail[Was(i)], r, t)
          /\ Was(i) = 1 => ~(r \in tail[1].rows /\ Adds(write, t))
    BY <2>3, <2>4, <2>6
  <2> QED
    BY <1>1, <1>2, <1>4, <1>6, <1>8, <2>3, <2>4, <2>5, <2>7 DEF N, write
<1> QED
  BY <1>7, <1>8

\* The retention does not delete what it keeps.
LEMMA KeptIsNotOutdated ==
  ASSUME minute \in [Requests -> Int], now \in Int, NEW at \in Int, at <= now, NEW r \in Kept
  PROVE  r \notin Outdated(at)
BY MetricsAssumption DEF Kept, Outdated, Recorded

\* The first write is done.
Left(n) == IF Ends /\ n > 0 THEN n - 1 ELSE n
LEMMA ChainWrite ==
  ASSUME Placed, minute \in [Requests -> Int], now \in Int, tail # <<>>, NEW T,
         T = Written(Head(tail[1].todo), Head(tail[1].todo).tables, tail[1])
  PROVE  /\ Chained(buffer, After, T, Recorded, Kept, now, broken)
         /\ \A D, n : n \in Nat /\ Safe(D, n, tail, table, Kept) => Safe(D, Left(n), After, T, Kept)
<1> DEFINE write == Head(tail[1].todo)
           done(t, r) == r \in tail[1].rows /\ Adds(write, t)
<1>1. /\ tail \in Seq(Jobs) /\ table \in [Tables -> [Requests -> {0, 1}]]
      /\ buffer \subseteq Recorded /\ Recorded \subseteq Requests /\ Kept \subseteq Recorded
  BY DEF Placed, Chained
<1>2. /\ tail[1] \in Jobs /\ 1 \in DOMAIN tail /\ write \in WriteKinds /\ After \in Seq(Jobs)
      /\ \A i \in DOMAIN After : /\ i \in Nat \ {0} /\ Was(i) \in DOMAIN tail
                                 /\ After[i].rows = tail[Was(i)].rows /\ After[i].at = tail[Was(i)].at
      /\ \A m \in DOMAIN tail : m \in Nat /\ ((m = 1 /\ Ends) \/ \E i \in DOMAIN After : Was(i) = m)
  BY <1>1, ChainHead
<1>3. \A t \in Tables, r \in Requests :
        /\ done(t, r) => Pending(tail[1], r, t)
        /\ \A i \in DOMAIN After : Pending(After[i], r, t) <=> Pending(tail[Was(i)], r, t) /\ (Was(i) = 1 => ~done(t, r))
        /\ Ends /\ Pending(tail[1], r, t) => done(t, r)
  BY <1>1, ChainHead
<1>4. \A t \in Tables, r \in Requests, i \in DOMAIN tail : Pending(tail[i], r, t) =>
        r \notin buffer /\ table[t][r] = 0 /\ \A j \in DOMAIN tail : Pending(tail[j], r, t) => i = j
  BY DEF Placed, Chained
<1>5. ASSUME NEW t \in Tables, NEW r \in Requests
      PROVE  /\ done(t, r) => table[t][r] = 0 /\ T[t][r] = IF Has(r, t) THEN 1 ELSE 0
             /\ ~done(t, r) => T[t][r] \in {table[t][r], 0}
             /\ ~done(t, r) /\ r \in Kept => T[t][r] = table[t][r]
  <2>1. T[t][r] = IF t \in write.tables /\ write.op = "add" /\ r \in tail[1].rows /\ Has(r, t)
                    THEN table[t][r] + 1
                  ELSE IF t \in write.tables /\ write.op = "delete" /\ r \in Outdated(tail[1].at)
                    THEN 0 ELSE table[t][r]
    BY <1>1, <1>2, WrittenIs
  <2>2. done(t, r) => table[t][r] = 0
    BY <1>2, <1>3, <1>4
  <2>3. r \in Kept => r \notin Outdated(tail[1].at)
    <3>1. tail[1].at \in Int /\ tail[1].at <= now
      BY <1>2 DEF Jobs, Placed, Chained
    <3> QED
      BY <3>1, KeptIsNotOutdated
  <2> QED
    BY SMTT(30), <2>1, <2>2, <2>3 DEF Adds
<1>6. \A t \in Tables, r \in Requests : table[t][r] \in {0, 1}
  BY <1>1
<1>7. T \in [Tables -> [Requests -> {0, 1}]]
  <2>1. T \in [Tables -> [Requests -> Nat]]
    <3>1. "request" \in Tables
      BY DEF Tables
    <3>2. CASE Requests = {}
      BY <3>2 DEF Written
    <3>3. CASE Requests # {}
      BY <1>1, <1>2, <3>1, <3>3, WrittenIs
    <3> QED
      BY <3>2, <3>3
  <2>2. \A t \in Tables, r \in Requests : T[t][r] \in {0, 1}
    BY <1>5, <1>6
  <2> QED
    BY <2>1, <2>2
<1>8. \A t \in Tables, r \in Requests : done(t, r) => r \in Recorded /\ r \notin buffer
  BY <1>2, <1>3, <1>4 DEF Placed, Chained
<1> HIDE DEF done, write
<1>9. \A t \in Tables, r \in Requests : T[t][r] = 1 => r \in Recorded /\ r \notin buffer /\ Has(r, t)
  <2>1. \A t \in Tables, r \in Requests : table[t][r] = 1 => r \in Recorded /\ r \notin buffer /\ Has(r, t)
    BY DEF Placed, Chained
  <2> QED
    BY ZenonT(30), <1>5, <1>6, <1>8, <2>1
<1>10. \A i, j \in DOMAIN After : i \in Nat /\ j \in Nat /\ (Was(i) = Was(j) => i = j)
  BY <1>2 DEF Was
<1>11. ASSUME NEW t \in Tables, NEW r \in Requests, NEW i \in DOMAIN After, Pending(After[i], r, t)
       PROVE  r \notin buffer /\ T[t][r] = 0 /\ \A j \in DOMAIN After : Pending(After[j], r, t) => i = j
  <2>1. Was(i) \in DOMAIN tail /\ Pending(tail[Was(i)], r, t) /\ (Was(i) = 1 => ~done(t, r))
    BY <1>2, <1>3, <1>11
  <2>2. r \notin buffer /\ table[t][r] = 0
    BY <1>4, <2>1
  <2>3. ~done(t, r)
    <3>1. done(t, r) => Was(i) = 1
      BY <1>2, <1>3, <1>4, <2>1
    <3> QED
      BY <2>1, <3>1
  <2>4. ASSUME NEW j \in DOMAIN After, Pending(After[j], r, t) PROVE i = j
    <3>1. Was(j) \in DOMAIN tail /\ Pending(tail[Was(j)], r, t)
      BY <1>2, <1>3, <2>4
    <3>2. Was(i) = Was(j)
      BY <1>4, <2>1, <3>1
    <3> QED
      BY <1>10, <3>2
  <2> QED
    BY <1>5, <2>2, <2>3, <2>4
<1>12. ASSUME NEW t \in Tables, NEW r \in Kept, Has(r, t), NEW n \in Nat,
              table[t][r] = 1 \/ \E i \in DOMAIN tail : i <= n /\ Pending(tail[i], r, t)
       PROVE  T[t][r] = 1 \/ \E i \in DOMAIN After : i <= Left(n) /\ Pending(After[i], r, t)
  <2>0. r \in Requests
    BY <1>1
  <2>1. CASE table[t][r] = 1
    BY ZenonT(30), <1>5, <2>0, <2>1
  <2>2. CASE \E i \in DOMAIN tail : i <= n /\ Pending(tail[i], r, t)
    <3>1. PICK m \in DOMAIN tail : m <= n /\ Pending(tail[m], r, t)
      BY <2>2
    <3>2. CASE done(t, r)
      BY <1>5, <1>12, <2>0, <3>2
    <3>3. CASE ~done(t, r)
      <4>1. ~(m = 1 /\ Ends)
        BY <1>3, <2>0, <3>1, <3>3
      <4>2. PICK i \in DOMAIN After : Was(i) = m
        BY <1>2, <4>1
      <4>3. Pending(After[i], r, t)
        BY <1>3, <2>0, <3>1, <3>3, <4>2
      <4>4. i \in Nat \ {0} /\ m \in Nat
        BY <1>2
      <4>5. i <= Left(n)
        BY <3>1, <4>2, <4>4 DEF Was, Left
      <4> QED
        BY <4>3, <4>5
    <3> QED
      BY <3>2, <3>3
  <2> QED
    BY <1>12, <2>1, <2>2
<1>13. ASSUME ~broken, NEW t \in Tables, NEW r \in Kept, Has(r, t)
       PROVE  r \in buffer \/ T[t][r] = 1 \/ \E i \in DOMAIN After : Pending(After[i], r, t)
  <2>1. r \in buffer \/ table[t][r] = 1 \/ \E i \in DOMAIN tail : Pending(tail[i], r, t)
    BY <1>13 DEF Placed, Chained
  <2>2. \A i \in DOMAIN tail : i \in Nat
    BY <1>2
  <2> QED
    BY <1>12, <1>13, <2>1, <2>2
<1>14. \A i \in DOMAIN After : After[i].rows \subseteq Recorded /\ After[i].at <= now
  BY <1>2 DEF Placed, Chained
<1>15. Chained(buffer, After, T, Recorded, Kept, now, broken)
  BY <1>1, <1>2, <1>7, <1>9, <1>11, <1>13, <1>14 DEF Chained
<1>16. ASSUME NEW D, NEW n \in Nat, Safe(D, n, tail, table, Kept)
       PROVE  Safe(D, Left(n), After, T, Kept)
  BY <1>12, <1>16 DEF Safe
<1> QED
  BY <1>15, <1>16

\* A write rejects, of which the tables X may have been written.
LEMMA ChainReject ==
  ASSUME Placed, minute \in [Requests -> Int], now \in Int, tail # <<>>, NEW T,
         NEW X, Head(tail[1].todo).op = "add" => X \subseteq Head(tail[1].todo).tables,
         T = Written(Head(tail[1].todo), X, tail[1])
  PROVE  /\ Chained(buffer, <<>>, T, Recorded, Kept, now, TRUE)
         /\ \A D : Safe(D, 0, tail, table, Kept) => Safe(D, 0, <<>>, T, Kept)
         /\ X = {} => T = table
<1> DEFINE write == Head(tail[1].todo)
<1>1. /\ tail \in Seq(Jobs) /\ table \in [Tables -> [Requests -> {0, 1}]]
      /\ buffer \subseteq Recorded /\ Recorded \subseteq Requests /\ Kept \subseteq Recorded
  BY DEF Placed, Chained
<1>2. /\ tail[1] \in Jobs /\ 1 \in DOMAIN tail /\ write \in WriteKinds
      /\ \A i \in DOMAIN tail : i \in Nat /\ i > 0
  <2>1. DOMAIN tail = 1..Len(tail) /\ Len(tail) \in Nat
    BY <1>1, LenProperties
  <2>2. tail[1] \in Jobs /\ 1 \in DOMAIN tail /\ write \in WriteKinds
    BY <1>1, ChainHead
  <2> QED
    BY <2>1, <2>2
<1>3. ASSUME NEW t \in Tables, NEW r \in Requests
      PROVE  /\ T[t][r] \in {0, 1}
             /\ T[t][r] = 1 => r \in Recorded /\ r \notin buffer /\ Has(r, t)
             /\ table[t][r] = 1 /\ r \in Kept => T[t][r] = 1
             /\ X = {} => T[t][r] = table[t][r]
  <2>1. T[t][r] = IF t \in X /\ write.op = "add" /\ r \in tail[1].rows /\ Has(r, t)
                    THEN table[t][r] + 1
                  ELSE IF t \in X /\ write.op = "delete" /\ r \in Outdated(tail[1].at)
                    THEN 0 ELSE table[t][r]
    BY <1>1, <1>2, WrittenIs
  <2>2. r \in tail[1].rows /\ Adds(write, t) => table[t][r] = 0 /\ r \in Recorded /\ r \notin buffer
    <3>1. r \in tail[1].rows /\ Adds(write, t) => Pending(tail[1], r, t)
      BY <1>1, ChainHead
    <3> QED
      BY <1>2, <3>1 DEF Placed, Chained
  <2>3. r \in Kept => r \notin Outdated(tail[1].at)
    <3>1. tail[1].at \in Int /\ tail[1].at <= now
      BY <1>2 DEF Jobs, Placed, Chained
    <3> QED
      BY <3>1, KeptIsNotOutdated
  <2>4. /\ table[t][r] \in {0, 1}
        /\ table[t][r] = 1 => r \in Recorded /\ r \notin buffer /\ Has(r, t)
    BY DEF Placed, Chained
  <2> QED
    BY <2>1, <2>2, <2>3, <2>4 DEF Adds
<1>4. T \in [Tables -> [Requests -> {0, 1}]]
  <2>1. T \in [Tables -> [Requests -> Nat]]
    <3>1. "request" \in Tables
      BY DEF Tables
    <3>2. CASE Requests = {}
      BY <3>2 DEF Written
    <3>3. CASE Requests # {}
      BY <1>1, <1>2, <3>1, <3>3, WrittenIs
    <3> QED
      BY <3>2, <3>3
  <2> QED
    BY <1>3, <2>1
<1>5. Chained(buffer, <<>>, T, Recorded, Kept, now, TRUE)
  BY <1>1, <1>3, <1>4 DEF Chained
<1>6. ASSUME NEW D, Safe(D, 0, tail, table, Kept) PROVE Safe(D, 0, <<>>, T, Kept)
  <2>1. ASSUME NEW t \in Tables, NEW r \in D \cap Kept, Has(r, t) PROVE T[t][r] = 1
    <3>1. table[t][r] = 1
      BY <1>2, <1>6, <2>1 DEF Safe
    <3> QED
      BY <1>1, <1>3, <3>1
  <2> QED
    BY <2>1 DEF Safe
<1>7. X = {} => T = table
  BY <1>1, <1>3, <1>4
<1> QED
  BY <1>5, <1>6, <1>7

-----------------------------------------------------------------------------
(* Types *)

\* The minute of a time does not begin after it.
LEMMA Buckets ==
  ASSUME NEW t \in Int
  PROVE  MinuteBucket(t) \in Int /\ MinuteBucket(t) <= t /\ (t >= 0 => MinuteBucket(t) >= 0)
<1>1. Minute \in Nat \ {0}
  BY MetricsAssumption
<1>2. t \div Minute \in Int
  BY <1>1
<1>3. (t \div Minute) * Minute <= t
  BY <1>1
<1>4. t >= 0 => t \div Minute >= 0
  BY <1>1
<1>5. t >= 0 => (t \div Minute) * Minute >= 0
  BY <1>1, <1>2, <1>4
<1> QED
  BY <1>1, <1>2, <1>3, <1>5 DEF MinuteBucket

\* What the chain and the tables depend on, and the clock.
Still == UNCHANGED <<minute, buffer, tail, broken, table>>
Recorded1(r) ==
  /\ r \in Requests /\ r \notin Recorded /\ minute' = [minute EXCEPT ![r] = MinuteBucket(now)]
  /\ \/ buffer' = buffer \cup {r} /\ UNCHANGED <<tail, broken>>
     \/ Flush(buffer \cup {r})
  /\ UNCHANGED table
Flushed == Flush(buffer) /\ UNCHANGED <<minute, table>>

LEMMA ClockSteps ==
  ASSUME [Next]_vars
  PROVE  now' = now \/ Tick
<1>1. Handle => now' = now
  BY DEF Handle, RateLimited, Busy, Serve, Finish, Release, Disconnect, Snapshot, FinishSnapshot
<1>2. Metrics \/ Shutdown \/ UNCHANGED vars => now' = now
  BY DEF Metrics, Shutdown, Close, CloseAllConnections, Drained, CloseNext, CloseRejects, End, vars
<1> QED
  BY <1>1, <1>2 DEF Next

LEMMA ChainSteps ==
  ASSUME Typed, [Next]_vars
  PROVE  \/ Still
         \/ \E r \in Requests : Recorded1(r) /\ Finish(r)
         \/ Flushed /\ now' = now
         \/ StoreWrite /\ Metrics
         \/ StoreReject /\ Metrics
<1>1. ASSUME NEW r \in Requests, Finish(r) PROVE Still \/ Recorded1(r)
  <2>1. r \notin Recorded
    BY <1>1 DEF Finish, Typed, Recorded, Running
  <2>2. CASE ~Shape[r].tracked
    BY <1>1, <2>2 DEF Finish, Record, Still, chain
  <2>3. CASE Shape[r].tracked
    BY <1>1, <2>1, <2>3 DEF Finish, Record, Recorded1
  <2> QED
    BY <2>2, <2>3
<1>2. ASSUME NEW r \in Requests, RateLimited(r) \/ Busy(r) \/ Serve(r) \/ Disconnect(r) PROVE Still
  BY <1>2 DEF RateLimited, Busy, Serve, Disconnect, Still, metrics
<1>3. ASSUME NEW r \in Snapshots, Snapshot(r) PROVE Flushed /\ now' = now
  BY <1>3 DEF Snapshot, BeginSnapshot, Flushed
<1>4. ASSUME NEW r \in Snapshots, FinishSnapshot(r) PROVE Still
  BY <1>4 DEF FinishSnapshot, Still, chain
<1>5. ASSUME Metrics PROVE Still \/ (Flushed /\ now' = now) \/ StoreWrite \/ StoreReject
  <2>1. CASE FlushTimer
    BY <1>5, <2>1 DEF Metrics, FlushTimer, Flushed
  <2>2. CASE HeartbeatTimer \/ SampleWrite \/ SampleReject
    BY <2>2 DEF HeartbeatTimer, SampleWrite, SampleReject, Still, chain
  <2>3. ASSUME NEW r \in Snapshots, CaptureForSnapshot(r) \/ SnapshotRead(r) \/ SnapshotFails(r) PROVE Still
    BY <2>3 DEF CaptureForSnapshot, SnapshotRead, SnapshotFails, Still, chain
  <2> QED
    BY <1>5, <2>1, <2>2, <2>3 DEF Metrics
<1>6. CASE Shutdown
  <2>1. CASE Drained
    BY <2>1 DEF Drained, Flushed
  <2>2. CASE Close \/ CloseAllConnections \/ CloseNext \/ CloseRejects \/ End
    BY <2>2 DEF Close, CloseAllConnections, CloseNext, CloseRejects, End, Still, metrics, chain
  <2> QED
    BY <1>6, <2>1, <2>2 DEF Shutdown
<1>7. CASE Tick \/ UNCHANGED vars
  BY <1>7 DEF Tick, vars, Still, metrics
<1> QED
  BY <1>1, <1>2, <1>3, <1>4, <1>5, <1>6, <1>7 DEF Next, Handle

\* Recorded requests stay recorded, and as old as they are.
LEMMA RecordedStep ==
  ASSUME Typed, [Next]_vars
  PROVE  /\ Recorded \subseteq Recorded' /\ Recorded' \subseteq Requests
         /\ \A r \in Recorded : minute'[r] = minute[r]
         /\ \A r \in Requests : minute'[r] \in Int
         /\ now <= now' /\ now' \in Nat
         /\ Kept' \cap Recorded \subseteq Kept
         /\ minute' = minute => Recorded' = Recorded /\ Kept' \subseteq Kept
         /\ minute' = minute /\ now' = now => Kept' = Kept
         /\ \A r \in Requests : Recorded1(r) /\ now' = now =>
              Recorded' = Recorded \cup {r} /\ Kept' \subseteq Kept \cup {r}
<1>1. now \in Nat /\ minute \in [Requests -> Int] /\ Minute \in Nat \ {0} /\ Retention \in Nat
  BY MetricsAssumption DEF Typed
<1>2. now <= now' /\ now' \in Nat
  BY <1>1, ClockSteps DEF Tick
<1>3. Recorded' = {r \in Requests : minute'[r] # Unrecorded}
  BY DEF Recorded, Unrecorded
<1>4. Kept' = {r \in Recorded' : minute'[r] >= now' - Retention}
  BY DEF Kept
<1>5. ASSUME NEW r \in Requests, Recorded1(r)
      PROVE  /\ Recorded' = Recorded \cup {r} /\ \A q \in Recorded : minute'[q] = minute[q]
             /\ \A q \in Requests : minute'[q] \in Int
  <2>1. MinuteBucket(now) \in Int /\ MinuteBucket(now) # Unrecorded
    BY <1>1, Buckets DEF Unrecorded
  <2>2. minute' = [minute EXCEPT ![r] = MinuteBucket(now)] /\ r \notin Recorded
    BY <1>5 DEF Recorded1
  <2> QED
    BY <1>1, <1>3, <2>1, <2>2 DEF Recorded
<1>6. CASE minute' = minute
  <2>1. Recorded' = Recorded
    BY <1>3, <1>6 DEF Recorded
  <2>2. Kept' \subseteq Kept /\ (now' = now => Kept' = Kept)
    BY <1>1, <1>2, <1>4, <1>6, <2>1 DEF Kept, Recorded
  <2>3. \A r \in Requests : ~Recorded1(r)
    BY <1>3, <1>5, <1>6, <2>1 DEF Recorded1
  <2> QED
    BY <1>1, <1>2, <1>6, <2>1, <2>2, <2>3 DEF Recorded
<1>7. ASSUME NEW r \in Requests, Recorded1(r), Finish(r)
      PROVE  Kept' \cap Recorded \subseteq Kept /\ minute' # minute /\ \A p \in Requests : Recorded1(p) => p = r
  <2>1. now' = now
    BY <1>7 DEF Finish, Release
  <2>2. \A p \in Requests : Recorded1(p) => Recorded' = Recorded \cup {p} /\ p \notin Recorded
    BY <1>5 DEF Recorded1
  <2>3. minute' # minute
    BY <1>3, <1>7, <2>2 DEF Recorded
  <2> QED
    BY <1>4, <1>5, <1>7, <2>1, <2>2, <2>3 DEF Kept
<1>8. ASSUME NEW r \in Requests, Recorded1(r), now' = now PROVE Kept' \subseteq Kept \cup {r}
  BY <1>4, <1>5, <1>8 DEF Kept
<1>9. minute' = minute \/ \E r \in Requests : Recorded1(r) /\ Finish(r)
  BY ChainSteps DEF Still, Flushed, StoreWrite, StoreReject
<1> QED
  BY <1>2, <1>5, <1>6, <1>7, <1>8, <1>9 DEF Recorded

-----------------------------------------------------------------------------
(* What is recorded is in one place *)

\* Steps that take nothing out of the chain.
Calm == \/ Still
        \/ (\E r \in Requests : Recorded1(r)) /\ now' = now
        \/ Flushed /\ now' = now

\* The chain grows at its end.
LEMMA CalmChain ==
  ASSUME Typed, Placed, Calm
  PROVE  \A i \in DOMAIN tail : i \in DOMAIN tail' /\ tail'[i] = tail[i]
<1>1. CASE tail' = tail
  BY <1>1
<1>2. ASSUME NEW S, NEW R, NEW K, Flush(S), Chained(S, tail, table, R, K, now, broken)
      PROVE  \A i \in DOMAIN tail : i \in DOMAIN tail' /\ tail'[i] = tail[i]
  BY <1>2, ChainFlush DEF Typed
<1>3. ASSUME NEW r \in Requests, Recorded1(r)
      PROVE  Chained(buffer \cup {r}, tail, table, Recorded \cup {r}, Kept, now, broken)
  BY <1>3, ChainRecord DEF Recorded1, Placed
<1> QED
  BY <1>1, <1>2, <1>3 DEF Calm, Still, Recorded1, Flushed, Placed

LEMMA SafeCalm ==
  ASSUME Typed, Placed, [Next]_vars, Calm, NEW D \in SUBSET Recorded, NEW n, Safe(D, n, tail, table, Kept)
  PROVE  Safe(D, n, tail', table', Kept')
<1>1. \A i \in DOMAIN tail : i \in DOMAIN tail' /\ tail'[i] = tail[i]
  BY CalmChain
<1>2. D \cap Kept' \subseteq D \cap Kept
  BY RecordedStep
<1>3. table' = table
  BY DEF Calm, Still, Recorded1, Flushed
<1>4. ASSUME NEW t \in Tables, NEW r \in D \cap Kept', Has(r, t)
      PROVE  table'[t][r] = 1 \/ \E i \in DOMAIN tail' : i <= n /\ Pending(tail'[i], r, t)
  <2>1. table[t][r] = 1 \/ \E i \in DOMAIN tail : i <= n /\ Pending(tail[i], r, t)
    BY <1>2, <1>4 DEF Safe
  <2> QED
    BY <1>1, <1>3, <2>1
<1> QED
  BY <1>4 DEF Safe

\* The write that is done, or rejects, is the first one.
LEMMA Writing ==
  ASSUME Placed, StoreWrite \/ StoreReject
  PROVE  /\ tail # <<>> /\ Head(tail) = tail[1]
         /\ StoreWrite => /\ table' = Written(Head(tail[1].todo), Head(tail[1].todo).tables, tail[1])
                          /\ tail' = After /\ UNCHANGED <<minute, buffer, broken>>
         /\ StoreReject => /\ \E X :
                                /\ table' = Written(Head(tail[1].todo), X, tail[1])
                                /\ Head(tail[1].todo).op = "add" => X \subseteq Head(tail[1].todo).tables
                                /\ ~storeOpen => X = {}
                                /\ X # {} /\ case.backend = "sqlite" => Head(tail[1].todo).op = "delete"
                           /\ tail' = <<>> /\ broken' = TRUE /\ UNCHANGED <<minute, buffer>>
<1>1. tail \in Seq(Jobs) /\ tail # <<>>
  BY DEF Placed, Chained, StoreWrite, StoreReject
<1>2. Head(tail) = tail[1] /\ Head(tail[1].todo) \in WriteKinds /\ tail[1] \in Jobs
  BY <1>1, ChainHead
<1> DEFINE write == Head(tail[1].todo)
<1>3. StoreWrite => /\ table' = Written(write, write.tables, tail[1])
                    /\ tail' = After /\ UNCHANGED <<minute, buffer, broken>>
  BY <1>2 DEF StoreWrite, After, Ends
<1>4. ASSUME StoreReject
      PROVE  /\ \E X :
                  /\ table' = Written(write, X, tail[1])
                  /\ write.op = "add" => X \subseteq write.tables
                  /\ ~storeOpen => X = {}
                  /\ X # {} /\ case.backend = "sqlite" => write.op = "delete"
             /\ tail' = <<>> /\ broken' = TRUE /\ UNCHANGED <<minute, buffer>>
  <2>1. PICK X \in Partial(write) : table' = Written(write, X, tail[1])
    BY <1>2, <1>4 DEF StoreReject
  <2>2. /\ write.op = "add" => X \subseteq write.tables
        /\ ~storeOpen => X = {}
        /\ X # {} /\ case.backend = "sqlite" => write.op = "delete"
    <3>1. CASE ~storeOpen
      BY <2>1, <3>1 DEF Partial
    <3>2. CASE storeOpen /\ case.backend = "postgres"
      BY <2>1, <3>2 DEF Partial
    <3>3. CASE storeOpen /\ case.backend = "sqlite" /\ write.op = "delete"
      BY <2>1, <3>3 DEF Partial
    <3>4. CASE storeOpen /\ case.backend # "postgres" /\ ~(case.backend = "sqlite" /\ write.op = "delete")
      BY <2>1, <3>4 DEF Partial
    <3> QED
      BY <3>1, <3>2, <3>3, <3>4
  <2> QED
    BY <1>2, <1>4, <2>1, <2>2 DEF StoreReject
<1> QED
  BY <1>1, <1>2, <1>3, <1>4

LEMMA SafeWrite ==
  ASSUME Typed, Placed, StoreWrite, now' = now, NEW D, NEW n \in Nat, Safe(D, n, tail, table, Kept)
  PROVE  Safe(D, Left(n), tail', table', Kept')
<1>1. Kept' = Kept
  BY Writing DEF Kept, Recorded, Unrecorded
<1>2. minute \in [Requests -> Int] /\ now \in Int
  BY DEF Typed
<1>3. /\ tail # <<>> /\ tail' = After
      /\ table' = Written(Head(tail[1].todo), Head(tail[1].todo).tables, tail[1])
  BY Writing
<1>4. Safe(D, Left(n), After, table', Kept)
  BY <1>2, <1>3, ChainWrite
<1> QED
  BY <1>1, <1>3, <1>4

LEMMA SafeReject ==
  ASSUME Typed, Placed, StoreReject, now' = now, NEW D, Safe(D, 0, tail, table, Kept)
  PROVE  Safe(D, 0, tail', table', Kept')
<1>1. Kept' = Kept
  BY Writing DEF Kept, Recorded, Unrecorded
<1>2. minute \in [Requests -> Int] /\ now \in Int
  BY DEF Typed
<1>3. PICK X : /\ tail # <<>> /\ tail' = <<>>
               /\ table' = Written(Head(tail[1].todo), X, tail[1])
               /\ Head(tail[1].todo).op = "add" => X \subseteq Head(tail[1].todo).tables
  BY Writing
<1>4. Safe(D, 0, <<>>, table', Kept)
  BY <1>2, <1>3, ChainReject
<1> QED
  BY <1>1, <1>3, <1>4

LEMMA PlacedStep ==
  ASSUME Typed, Placed, [Next]_vars
  PROVE  Placed'
<1>1. now \in Int /\ now' \in Int /\ now <= now' /\ minute \in [Requests -> Int]
  BY RecordedStep DEF Typed
<1>2. CASE Still
  <2>1. Recorded' = Recorded /\ Kept' \in SUBSET Kept
    BY <1>2, RecordedStep DEF Still
  <2>2. Chained(buffer, tail, table, Recorded, Kept', now', broken)
    BY <1>1, <2>1, ChainOlder DEF Placed
  <2> QED
    BY <1>2, <2>1, <2>2 DEF Still, Placed
<1>3. ASSUME NEW r \in Requests, Recorded1(r), now' = now PROVE Placed'
  <2>1. Recorded' = Recorded \cup {r} /\ Kept' \subseteq Kept \cup {r} /\ r \notin Recorded
    BY <1>3, RecordedStep DEF Recorded1
  <2>2. Chained(buffer \cup {r}, tail, table, Recorded', Kept', now, broken)
    BY <2>1, ChainRecord DEF Placed
  <2>3. CASE buffer' = buffer \cup {r} /\ UNCHANGED <<tail, broken>>
    BY <1>3, <2>2, <2>3 DEF Placed, Recorded1
  <2>4. CASE Flush(buffer \cup {r})
    <3>1. Chained(buffer', tail', table, Recorded', Kept', now, broken) /\ broken' = broken
      BY <1>1, <2>2, <2>4, ChainFlush
    <3> QED
      BY <1>3, <3>1 DEF Placed, Recorded1
  <2> QED
    BY <1>3, <2>3, <2>4 DEF Recorded1
<1>4. CASE Flushed /\ now' = now
  <2>1. Recorded' = Recorded /\ Kept' = Kept
    BY <1>4, RecordedStep DEF Flushed
  <2>2. Chained(buffer', tail', table, Recorded, Kept, now, broken) /\ broken' = broken
    BY <1>1, <1>4, ChainFlush DEF Flushed, Placed
  <2> QED
    BY <1>4, <2>1, <2>2 DEF Placed, Flushed
<1>5. CASE (StoreWrite \/ StoreReject) /\ Metrics
  <2>1. now' = now
    BY <1>5 DEF Metrics
  <2>2. Recorded' = Recorded /\ Kept' = Kept
    BY <1>5, <2>1, RecordedStep, Writing
  <2>3. CASE StoreWrite
    <3>1. /\ tail # <<>> /\ tail' = After /\ UNCHANGED <<buffer, broken>>
          /\ table' = Written(Head(tail[1].todo), Head(tail[1].todo).tables, tail[1])
      BY <2>3, Writing
    <3>2. Chained(buffer, After, table', Recorded, Kept, now, broken)
      BY <1>1, <3>1, ChainWrite
    <3> QED
      BY <2>1, <2>2, <3>1, <3>2 DEF Placed
  <2>4. CASE StoreReject
    <3>1. PICK X : /\ tail # <<>> /\ tail' = <<>> /\ broken' = TRUE /\ UNCHANGED buffer
                   /\ table' = Written(Head(tail[1].todo), X, tail[1])
                   /\ Head(tail[1].todo).op = "add" => X \subseteq Head(tail[1].todo).tables
      BY <2>4, Writing
    <3>2. Chained(buffer, <<>>, table', Recorded, Kept, now, TRUE)
      BY <1>1, <3>1, ChainReject
    <3> QED
      BY <2>1, <2>2, <3>1, <3>2 DEF Placed
  <2> QED
    BY <1>5, <2>3, <2>4
<1>6. \A r \in Requests : Finish(r) => now' = now
  BY DEF Finish, Release
<1> QED
  BY <1>2, <1>3, <1>4, <1>5, <1>6, ChainSteps

-----------------------------------------------------------------------------
(* The server *)

\* What becomes of a request.
LEMMA PcSteps ==
  ASSUME Typed, [Next]_vars
  PROVE  \/ UNCHANGED pc
         \/ \E r \in Requests :
              /\ pc' = [pc EXCEPT ![r] = pc'[r]]
              /\ \/ RateLimited(r) \/ Busy(r) \/ Serve(r) \/ Finish(r)
                 \/ r \in Snapshots /\ FinishSnapshot(r)
<1>1. ASSUME NEW r \in Requests, RateLimited(r) \/ Busy(r) \/ Serve(r) \/ Finish(r) \/ FinishSnapshot(r)
      PROVE  pc' = [pc EXCEPT ![r] = pc'[r]]
  <2>1. PICK x : pc' = [pc EXCEPT ![r] = x]
    BY <1>1 DEF RateLimited, Busy, Serve, Finish, FinishSnapshot, Release
  <2> QED
    BY <2>1 DEF Typed
<1>2. ASSUME NEW r \in Requests, Disconnect(r) PROVE UNCHANGED pc
  BY <1>2 DEF Disconnect
<1>3. ASSUME NEW r \in Snapshots, Snapshot(r) PROVE UNCHANGED pc
  BY <1>3 DEF Snapshot, server
<1>4. Tick \/ Metrics \/ Shutdown \/ UNCHANGED vars => UNCHANGED pc
  BY DEF Tick, Metrics, Shutdown, Close, CloseAllConnections, Drained, CloseNext, CloseRejects, End,
     server, vars
<1>5. Snapshots \subseteq Requests
  BY ServiceAssumption
<1> QED
  BY <1>1, <1>2, <1>3, <1>4, <1>5 DEF Next, Handle

\* Where it goes.
LEMMA PcMoves ==
  ASSUME Typed, [Next]_vars, NEW r \in Requests
  PROVE  /\ RateLimited(r) \/ Busy(r) => pc[r] = "new" /\ pc'[r] = "answered"
         /\ Serve(r) => pc[r] = "new" /\ pc'[r] \in Running
         /\ Finish(r) \/ (r \in Snapshots /\ FinishSnapshot(r)) => pc[r] \in Running /\ pc'[r] = "answered"
<1>1. RateLimited(r) \/ Busy(r) => pc[r] = "new" /\ pc'[r] = "answered"
  BY DEF RateLimited, Busy, LetIn, Arrives, Typed
<1>2. Serve(r) => pc[r] = "new" /\ pc'[r] \in Running
  <2>1. IF r \in Snapshots THEN TRUE ELSE Shape[r].route \in {"authorization", "gateway"}
    BY ServiceAssumption
  <2> QED
    BY <2>1 DEF Serve, LetIn, Arrives, Typed, Running
<1>3. Finish(r) \/ (r \in Snapshots /\ FinishSnapshot(r)) => pc[r] \in Running /\ pc'[r] = "answered"
  BY DEF Finish, FinishSnapshot, Release, Typed, Running
<1> QED
  BY <1>1, <1>2, <1>3

LEMMA PcTyped ==
  ASSUME Typed, [Next]_vars
  PROVE  /\ pc' \in [Requests -> Running \cup {"new", "absent", "answered"}]
         /\ \A r \in Requests : pc'[r] \in Running \cup {"new", "absent"} => pc[r] \in Running \cup {"new", "absent"}
<1>1. CASE UNCHANGED pc
  BY <1>1 DEF Typed
<1>2. ASSUME NEW r \in Requests, pc' = [pc EXCEPT ![r] = pc'[r]],
             \/ RateLimited(r) \/ Busy(r) \/ Serve(r) \/ Finish(r) \/ (r \in Snapshots /\ FinishSnapshot(r))
      PROVE  /\ pc' \in [Requests -> Running \cup {"new", "absent", "answered"}]
             /\ \A q \in Requests : pc'[q] \in Running \cup {"new", "absent"} => pc[q] \in Running \cup {"new", "absent"}
  <2>1. pc'[r] \in Running \cup {"answered"} /\ pc[r] \in Running \cup {"new"}
    BY <1>2, PcMoves
  <2> QED
    BY <1>2, <2>1 DEF Typed
<1> QED
  BY <1>1, <1>2, PcSteps

\* The handlers that come and go.
LEMMA HandlerSteps ==
  ASSUME Typed, [Next]_vars
  PROVE  \/ Handlers' = Handlers /\ active' = active /\ present' \subseteq present
         \/ \E r \in Requests \ Handlers :
              Handlers' = Handlers \cup {r} /\ active' = active + 1 /\ active < Maximum /\ present' = present \cup {r}
         \/ \E r \in Handlers :
              Handlers' = Handlers \ {r} /\ active' = (IF active > 0 THEN active - 1 ELSE 0)
                /\ present' = present \ {r}
<1>1. Handlers' = {r \in Requests : pc'[r] \in Running}
  BY DEF Handlers
<1>2. CASE UNCHANGED pc
  <2>1. ASSUME NEW r \in Requests, RateLimited(r) \/ Busy(r) \/ Serve(r) \/ Finish(r) \/ (r \in Snapshots /\ FinishSnapshot(r))
        PROVE  FALSE
    <3>1. pc'[r] # pc[r]
      BY <2>1, PcMoves DEF Running
    <3> QED
      BY <1>2, <3>1
  <2>2. active' = active /\ present' \subseteq present
    <3>1. ASSUME NEW r \in Requests, Disconnect(r) PROVE active' = active /\ present' \subseteq present
      BY <3>1 DEF Disconnect
    <3>2. ASSUME NEW r \in Snapshots, Snapshot(r) PROVE active' = active /\ present' \subseteq present
      BY <3>2 DEF Snapshot, server
    <3>3. Tick \/ Metrics \/ UNCHANGED vars => active' = active /\ present' \subseteq present
      BY DEF Tick, Metrics, server, vars
    <3>4. Shutdown => active' = active /\ present' \subseteq present
      BY DEF Shutdown, Close, CloseAllConnections, Drained, CloseNext, CloseRejects, End, server
    <3>5. Snapshots \subseteq Requests
      BY ServiceAssumption
    <3> QED
      BY <2>1, <3>1, <3>2, <3>3, <3>4, <3>5 DEF Next, Handle
  <2> QED
    BY <1>1, <1>2, <2>2 DEF Handlers
<1>3. ASSUME NEW r \in Requests, pc' = [pc EXCEPT ![r] = pc'[r]], RateLimited(r) \/ Busy(r)
      PROVE  Handlers' = Handlers /\ active' = active /\ present' \subseteq present
  <2>1. pc[r] = "new" /\ pc'[r] = "answered"
    BY <1>3, PcMoves
  <2>2. active' = active /\ present' \subseteq present
    BY <1>3 DEF RateLimited, Busy
  <2> QED
    BY <1>1, <1>3, <2>1, <2>2 DEF Handlers, Running, Typed
<1>4. ASSUME NEW r \in Requests, pc' = [pc EXCEPT ![r] = pc'[r]], Serve(r)
      PROVE  /\ r \notin Handlers /\ Handlers' = Handlers \cup {r}
             /\ active' = active + 1 /\ active < Maximum /\ present' = present \cup {r}
  <2>1. pc[r] = "new" /\ pc'[r] \in Running
    BY <1>4, PcMoves
  <2>2. active' = active + 1 /\ active < Maximum /\ present' = present \cup {r}
    BY <1>4 DEF Serve
  <2> QED
    BY <1>1, <1>4, <2>1, <2>2 DEF Handlers, Running, Typed
<1>5. ASSUME NEW r \in Requests, pc' = [pc EXCEPT ![r] = pc'[r]],
             Finish(r) \/ (r \in Snapshots /\ FinishSnapshot(r))
      PROVE  /\ r \in Handlers /\ Handlers' = Handlers \ {r}
             /\ active' = (IF active > 0 THEN active - 1 ELSE 0) /\ present' = present \ {r}
  <2>1. pc[r] \in Running /\ pc'[r] = "answered"
    BY <1>5, PcMoves
  <2>2. active' = (IF active > 0 THEN active - 1 ELSE 0) /\ present' = present \ {r}
    BY <1>5 DEF Finish, FinishSnapshot, Release
  <2> QED
    BY <1>1, <1>5, <2>1, <2>2 DEF Handlers, Running, Typed
<1> QED
  BY <1>2, <1>3, <1>4, <1>5, PcSteps

\* What the window of the second depends on.
LEMMA LetInSteps ==
  ASSUME [Next]_vars
  PROVE  \/ UNCHANGED <<window, letIn, now>>
         \/ Tick /\ UNCHANGED window /\ letIn' = 0
         \/ window' = CurrentWindow /\ UNCHANGED <<letIn, now>>
         \/ (\E r \in Requests : LetIn(r)) /\ now' = now
<1>1. ASSUME NEW r \in Requests, RateLimited(r) \/ Busy(r) \/ Serve(r) \/ Finish(r) \/ Disconnect(r)
      PROVE  \/ UNCHANGED <<window, letIn, now>>
             \/ window' = CurrentWindow /\ UNCHANGED <<letIn, now>>
             \/ LetIn(r) /\ now' = now
  BY <1>1 DEF RateLimited, Busy, Serve, Finish, Release, Disconnect
<1>2. ASSUME NEW r \in Snapshots, Snapshot(r) \/ FinishSnapshot(r) PROVE UNCHANGED <<window, letIn, now>>
  BY <1>2 DEF Snapshot, FinishSnapshot, Release, server
<1>3. Metrics \/ Shutdown \/ UNCHANGED vars => UNCHANGED <<window, letIn, now>>
  BY DEF Metrics, Shutdown, Close, CloseAllConnections, Drained, CloseNext, CloseRejects, End, server, vars
<1>4. Tick => UNCHANGED window /\ letIn' = 0
  BY DEF Tick
<1> QED
  BY <1>1, <1>2, <1>3, <1>4 DEF Next, Handle

LEMMA LimitingStep ==
  ASSUME Typed, Limiting, [Next]_vars
  PROVE  Limiting'
<1>0. now \in Nat /\ MaxPerSecond \in Nat /\ Maximum \in Nat
  BY ServiceAssumption DEF Typed
<1>1. PICK w \in [at : Int, requests : 0..MaxPerSecond] : w = window
  BY DEF Limiting
<1>2. w.at <= now /\ letIn \in Nat /\ letIn <= IF w.at = now THEN w.requests ELSE 0
  BY <1>1 DEF Limiting
<1>3. PICK c \in [at : Int, requests : 0..MaxPerSecond] : c = CurrentWindow
  <2>1. 0 \in 0..MaxPerSecond /\ now \in Int
    BY <1>0
  <2>2. [at |-> now, requests |-> 0] \in [at : Int, requests : 0..MaxPerSecond]
    BY <2>1
  <2>3. CurrentWindow \in {[at |-> now, requests |-> 0], w}
    BY <1>1 DEF CurrentWindow
  <2> QED
    BY <2>2, <2>3
<1>4. c.at = now /\ letIn <= c.requests
  BY <1>0, <1>1, <1>2, <1>3 DEF CurrentWindow
<1>5. /\ window' \in [at : Int, requests : 0..MaxPerSecond] /\ window'.at <= now'
      /\ letIn' \in Nat /\ letIn' <= IF window'.at = now' THEN window'.requests ELSE 0
  <2>1. CASE UNCHANGED <<window, letIn, now>>
    BY <1>1, <1>2, <2>1
  <2>2. CASE Tick /\ UNCHANGED window /\ letIn' = 0
    <3>1. now' = now + 1
      BY <2>2 DEF Tick
    <3> QED
      BY <1>0, <1>1, <1>2, <2>2, <3>1
  <2>3. CASE window' = CurrentWindow /\ UNCHANGED <<letIn, now>>
    BY <1>0, <1>2, <1>3, <1>4, <2>3
  <2>4. ASSUME NEW r \in Requests, LetIn(r), now' = now
        PROVE  /\ window' \in [at : Int, requests : 0..MaxPerSecond] /\ window'.at <= now'
               /\ letIn' \in Nat /\ letIn' <= IF window'.at = now' THEN window'.requests ELSE 0
    <3>1. c.requests < MaxPerSecond /\ window' = [c EXCEPT !.requests = c.requests + 1] /\ letIn' = letIn + 1
      BY <1>3, <2>4 DEF LetIn
    <3>2. c.requests + 1 \in 0..MaxPerSecond
      BY <1>0, <1>3, <3>1
    <3>3. /\ window' \in [at : Int, requests : 0..MaxPerSecond]
          /\ window'.at = now /\ window'.requests = c.requests + 1
      BY <1>3, <1>4, <3>1, <3>2
    <3> QED
      BY <1>0, <1>2, <1>3, <1>4, <2>4, <3>1, <3>3
  <2> QED
    BY <2>1, <2>2, <2>3, <2>4, LetInSteps
<1>6. IsFiniteSet(Handlers') /\ active' = Cardinality(Handlers') /\ active' <= Maximum
  <2>1. IsFiniteSet(Handlers) /\ active = Cardinality(Handlers) /\ active <= Maximum /\ active \in Nat
    BY FS_CardinalityType DEF Limiting
  <2>2. ASSUME NEW r \in Requests \ Handlers, Handlers' = Handlers \cup {r}, active' = active + 1, active < Maximum
        PROVE  IsFiniteSet(Handlers') /\ active' = Cardinality(Handlers') /\ active' <= Maximum
    <3>1. IsFiniteSet(Handlers \cup {r}) /\ Cardinality(Handlers \cup {r}) = Cardinality(Handlers) + 1
      BY <2>1, FS_AddElement, Zenon
    <3> QED
      BY <1>0, <2>1, <2>2, <3>1
  <2>3. ASSUME NEW r \in Handlers, Handlers' = Handlers \ {r}, active' = (IF active > 0 THEN active - 1 ELSE 0)
        PROVE  IsFiniteSet(Handlers') /\ active' = Cardinality(Handlers') /\ active' <= Maximum
    <3>1. IsFiniteSet(Handlers \ {r}) /\ Cardinality(Handlers \ {r}) = Cardinality(Handlers) - 1
      BY <2>1, FS_RemoveElement, Zenon
    <3>2. Cardinality(Handlers) # 0
      BY <2>1, FS_EmptySet
    <3> QED
      BY <1>0, <2>1, <2>3, <3>1, <3>2
  <2> QED
    BY <2>1, <2>2, <2>3, HandlerSteps
<1> QED
  BY <1>5, <1>6 DEF Limiting

\* The minutes.
LEMMA MinutesStep ==
  ASSUME Typed, [Next]_vars
  PROVE  /\ minute' \in [Requests -> Int]
         /\ \A r \in Requests : minute'[r] = Unrecorded \/ minute'[r] \in {MinuteBucket(t) : t \in 0..case'.until}
         /\ \A r \in Requests : pc'[r] \in Running \cup {"new", "absent"} => minute'[r] = Unrecorded
         /\ IsFiniteSet(Recorded')
         /\ case' = case /\ now' \in Nat /\ now' \in Start..case'.until
<1>1. case' = case
  <2>1. Handle => case' = case
    BY DEF Handle, RateLimited, Busy, Serve, Finish, Release, Disconnect, Snapshot, FinishSnapshot
  <2>2. Tick \/ Metrics \/ UNCHANGED vars => case' = case
    BY DEF Tick, Metrics, vars
  <2>3. Shutdown => case' = case
    BY DEF Shutdown, Close, CloseAllConnections, Drained, CloseNext, CloseRejects, End
  <2> QED
    BY <2>1, <2>2, <2>3 DEF Next
<1>2. case.until \in Nat /\ now \in Nat /\ now \in Start..case.until /\ Start \in Nat
  BY MetricsAssumption, ServiceAssumption DEF Typed
<1>3. now' \in Nat /\ now' \in Start..case.until
  BY <1>2, ClockSteps DEF Tick
<1>4. CASE minute' = minute
  <2>1. Recorded' = Recorded
    BY <1>4, RecordedStep
  <2> QED
    BY <1>1, <1>3, <1>4, <2>1, PcTyped DEF Typed
<1>5. ASSUME NEW r \in Requests, Recorded1(r), Finish(r)
      PROVE  /\ minute' \in [Requests -> Int]
             /\ \A q \in Requests : minute'[q] = Unrecorded \/ minute'[q] \in {MinuteBucket(t) : t \in 0..case.until}
             /\ \A q \in Requests : pc'[q] \in Running \cup {"new", "absent"} => minute'[q] = Unrecorded
             /\ IsFiniteSet(Recorded')
  <2>1. minute' = [minute EXCEPT ![r] = MinuteBucket(now)]
    BY <1>5 DEF Recorded1
  <2>2. MinuteBucket(now) \in Int /\ MinuteBucket(now) \in {MinuteBucket(t) : t \in 0..case.until}
    BY <1>2, Buckets
  <2>3. Recorded' = Recorded \cup {r}
    BY <1>5, RecordedStep DEF Finish, Release
  <2>4. IsFiniteSet(Recorded')
    BY <2>3, FS_AddElement DEF Typed
  <2>5. pc'[r] = "answered"
    BY <1>5, PcMoves
  <2>6. minute' \in [Requests -> Int]
    BY <2>1, <2>2 DEF Typed
  <2>7. \A q \in Requests : minute'[q] = IF q = r THEN MinuteBucket(now) ELSE minute[q]
    BY <2>1 DEF Typed
  <2>8. \A q \in Requests : pc'[q] \in Running \cup {"new", "absent"} => minute'[q] = Unrecorded
    BY <2>5, <2>7, PcTyped DEF Typed, Running
  <2>9. \A q \in Requests : minute'[q] = Unrecorded \/ minute'[q] \in {MinuteBucket(t) : t \in 0..case.until}
    BY <2>2, <2>7 DEF Typed
  <2> QED
    BY <2>4, <2>6, <2>8, <2>9
<1>6. minute' = minute \/ \E r \in Requests : Recorded1(r) /\ Finish(r)
  BY ChainSteps DEF Still, Flushed, StoreWrite, StoreReject
<1> QED
  BY <1>1, <1>3, <1>4, <1>5, <1>6

\* What becomes of the samples.
LEMMA BeatSteps ==
  ASSUME [Next]_vars
  PROVE  \/ UNCHANGED <<beats, sample>>
         \/ beats' = [beats EXCEPT !.queue = @ + 1] /\ sample' = sample
         \/ SampleWrite /\ Metrics
         \/ SampleReject /\ Metrics
<1>1. Handle => UNCHANGED <<beats, sample>>
  <2>1. ASSUME NEW r \in Requests, RateLimited(r) \/ Busy(r) \/ Serve(r) \/ Finish(r) \/ Disconnect(r)
        PROVE  UNCHANGED <<beats, sample>>
    BY <2>1 DEF RateLimited, Busy, Serve, Finish, Disconnect, metrics
  <2>2. ASSUME NEW r \in Snapshots, Snapshot(r) \/ FinishSnapshot(r) PROVE UNCHANGED <<beats, sample>>
    BY <2>2 DEF Snapshot, FinishSnapshot
  <2> QED
    BY <2>1, <2>2 DEF Handle
<1>2. ASSUME Metrics
      PROVE  \/ UNCHANGED <<beats, sample>>
             \/ beats' = [beats EXCEPT !.queue = @ + 1] /\ sample' = sample
             \/ SampleWrite \/ SampleReject
  <2>1. CASE FlushTimer \/ StoreWrite \/ StoreReject
    BY <2>1 DEF FlushTimer, StoreWrite, StoreReject
  <2>2. CASE HeartbeatTimer
    BY <2>2 DEF HeartbeatTimer
  <2>3. ASSUME NEW r \in Snapshots, CaptureForSnapshot(r) \/ SnapshotRead(r) \/ SnapshotFails(r)
        PROVE  \/ UNCHANGED <<beats, sample>>
               \/ beats' = [beats EXCEPT !.queue = @ + 1] /\ sample' = sample
    BY <2>3 DEF CaptureForSnapshot, SnapshotRead, SnapshotFails
  <2> QED
    BY <1>2, <2>1, <2>2, <2>3 DEF Metrics
<1>3. Tick \/ Shutdown \/ UNCHANGED vars => UNCHANGED <<beats, sample>>
  BY DEF Tick, Shutdown, Close, CloseAllConnections, Drained, CloseNext, CloseRejects, End, metrics, vars
<1> QED
  BY <1>1, <1>2, <1>3 DEF Next

LEMMA BeatsTyped ==
  ASSUME Typed, [Next]_vars
  PROVE  /\ beats' \in [queue : Nat, broken : BOOLEAN]
         /\ sample' \in Int /\ sample' <= now' /\ sample <= sample'
<1>1. PICK b \in [queue : Nat, broken : BOOLEAN] : b = beats
  BY DEF Typed
<1>2. now \in Nat /\ sample \in Int /\ sample <= now /\ now <= now' /\ now' \in Nat
  BY RecordedStep DEF Typed
<1>3. CASE UNCHANGED <<beats, sample>>
  BY <1>1, <1>2, <1>3
<1>4. CASE beats' = [beats EXCEPT !.queue = @ + 1] /\ sample' = sample
  <2>1. beats' = [b EXCEPT !.queue = b.queue + 1]
    BY <1>1, <1>4
  <2> QED
    BY <1>1, <1>2, <1>4, <2>1
<1>5. CASE SampleWrite /\ Metrics
  <2>1. beats' = [b EXCEPT !.queue = b.queue - 1] /\ b.queue > 0 /\ sample' = now /\ now' = now
    BY <1>1, <1>5 DEF SampleWrite, Metrics
  <2>2. b.queue - 1 \in Nat
    BY <1>1, <2>1
  <2> QED
    BY <1>1, <1>2, <2>1, <2>2
<1>6. CASE SampleReject /\ Metrics
  BY <1>2, <1>6 DEF SampleReject, Metrics
<1> QED
  BY <1>3, <1>4, <1>5, <1>6, BeatSteps

\* close() goes through its steps in their order.
LEMMA CloseOrder ==
  /\ {CloseSteps[i] : i \in DOMAIN CloseSteps} = {"flush", "beat", "store", "others"}
  /\ AfterStep("flush") = "beat" /\ AfterStep("beat") = "store" /\ AfterStep("store") = "others"
  /\ AfterStep("others") = "closed"
<1>1. /\ DOMAIN CloseSteps = 1..4
      /\ CloseSteps[1] = "flush" /\ CloseSteps[2] = "beat" /\ CloseSteps[3] = "store" /\ CloseSteps[4] = "others"
  BY DEF CloseSteps
<1>2. \A i \in DOMAIN CloseSteps : i = 1 \/ i = 2 \/ i = 3 \/ i = 4
  BY <1>1
<1>3. /\ (CHOOSE i \in DOMAIN CloseSteps : CloseSteps[i] = "flush") = 1
      /\ (CHOOSE i \in DOMAIN CloseSteps : CloseSteps[i] = "beat") = 2
      /\ (CHOOSE i \in DOMAIN CloseSteps : CloseSteps[i] = "store") = 3
  BY <1>1, <1>2
<1>4. {CloseSteps[i] : i \in DOMAIN CloseSteps} = {"flush", "beat", "store", "others"}
  BY <1>1, <1>2
<1> HIDE DEF CloseSteps
<1> QED
  BY <1>1, <1>3, <1>4 DEF AfterStep

\* What becomes of close().
LEMMA CloseMoves ==
  ASSUME [Next]_vars
  PROVE  \/ UNCHANGED <<closing, closer, storeOpen>>
         \/ Close /\ UNCHANGED <<closer, storeOpen>>
         \/ Drained
         \/ CloseNext
         \/ Metrics /\ UNCHANGED <<closing, storeOpen>>
<1>1. ASSUME NEW r \in Requests, RateLimited(r) \/ Busy(r) \/ Serve(r) \/ Finish(r) \/ Disconnect(r)
      PROVE  UNCHANGED <<closing, closer, storeOpen>>
  BY <1>1 DEF RateLimited, Busy, Serve, Finish, Release, Disconnect, metrics
<1>2. ASSUME NEW r \in Snapshots, Snapshot(r) \/ FinishSnapshot(r) PROVE UNCHANGED <<closing, closer, storeOpen>>
  BY <1>2 DEF Snapshot, FinishSnapshot, Release
<1>3. Metrics => UNCHANGED <<closing, storeOpen>>
  BY DEF Metrics, FlushTimer, HeartbeatTimer, StoreWrite, StoreReject, SampleWrite, SampleReject,
     CaptureForSnapshot, SnapshotRead, SnapshotFails
<1>4. Shutdown => \/ UNCHANGED <<closing, closer, storeOpen>>
                  \/ Close /\ UNCHANGED <<closer, storeOpen>>
                  \/ Drained \/ CloseNext
  BY DEF Shutdown, Close, CloseAllConnections, CloseRejects, End, metrics
<1>5. Tick \/ UNCHANGED vars => UNCHANGED <<closing, closer, storeOpen>>
  BY DEF Tick, vars, metrics
<1> QED
  BY <1>1, <1>2, <1>3, <1>4, <1>5 DEF Next, Handle

\* How far close() and the chain of samples are.
LEMMA CloseTyped ==
  ASSUME Typed, Placed, [Next]_vars
  PROVE  /\ closing' \in Stages /\ exit' \in Exits /\ storeOpen' \in BOOLEAN
         /\ closer' \in [ahead : Nat, rejected : BOOLEAN, due : SUBSET Requests]
         /\ closer'.due \subseteq Recorded'
<1>1. PICK c \in [ahead : Nat, rejected : BOOLEAN, due : SUBSET Requests] : c = closer
  BY DEF Typed
<1>2. PICK b \in [queue : Nat, broken : BOOLEAN] : b = beats
  BY DEF Typed
<1>3. /\ c.due \subseteq Recorded /\ Recorded \subseteq Recorded' /\ Recorded \subseteq Requests
      /\ broken \in BOOLEAN /\ beats'.broken \in BOOLEAN
  BY <1>1, RecordedStep, BeatsTyped DEF Typed, Recorded
<1>4. broken' \in BOOLEAN
  BY <1>3, ChainSteps DEF Still, Recorded1, Flush, Flushed, StoreWrite, StoreReject
<1>5. ASSUME NEW a \in Nat, NEW x \in BOOLEAN, closer' = [c EXCEPT !.ahead = a, !.rejected = x]
      PROVE  closer' \in [ahead : Nat, rejected : BOOLEAN, due : SUBSET Requests] /\ closer'.due \subseteq Recorded'
  BY <1>3, <1>5
<1>6. closer' \in [ahead : Nat, rejected : BOOLEAN, due : SUBSET Requests] /\ closer'.due \subseteq Recorded'
  <2>1. CASE UNCHANGED closer
    BY <1>1, <1>3, <2>1
  <2>2. CASE Drained
    <3>1. closer' = [ahead |-> Len(tail'), rejected |-> broken, due |-> Recorded]
      BY <2>2 DEF Drained
    <3>2. Len(tail') \in Nat
      <4>1. tail' \in Seq(Jobs)
        BY PlacedStep DEF Placed, Chained
      <4> QED
        BY <4>1, LenProperties
    <3> QED
      BY <1>3, <3>1, <3>2
  <2>3. CASE CloseNext
    <3>1. closer' = [c EXCEPT !.ahead = b.queue, !.rejected = b.broken] \/ UNCHANGED closer
      BY <1>1, <1>2, <2>3 DEF CloseNext
    <3> QED
      BY <1>2, <1>5, <2>1, <3>1
  <2>4. CASE Metrics
    <3>1. PICK x \in BOOLEAN : x = IF closing = "flush" THEN broken' ELSE beats'.broken
      BY <1>3, <1>4
    <3>2. UNCHANGED closer \/ (c.ahead > 0 /\ closer' = [c EXCEPT !.ahead = c.ahead - 1, !.rejected = x])
      BY <1>1, <2>4, <3>1 DEF Metrics, Awaiting
    <3>3. c.ahead > 0 => c.ahead - 1 \in Nat
      BY <1>1
    <3> QED
      BY <1>5, <2>1, <3>2, <3>3
  <2> QED
    BY <2>1, <2>2, <2>3, <2>4, CloseMoves
<1>7. closing' \in Stages
  <2>1. Stages = {"open", "closing", "closed", "flush", "beat", "store", "others"}
    BY CloseOrder DEF Stages
  <2>2. CASE CloseNext
    <3>1. closing \in {"flush", "beat", "store", "others"} /\ closing' = AfterStep(closing)
      BY <2>2, CloseOrder DEF CloseNext
    <3> QED
      BY <2>1, <3>1, CloseOrder
  <2>3. Close \/ Drained => closing' \in {"closing", "flush"}
    BY DEF Close, Drained
  <2> QED
    BY <2>1, <2>2, <2>3, CloseMoves DEF Typed
<1>8. storeOpen' \in BOOLEAN
  <2>1. CloseNext => storeOpen' = (storeOpen /\ closing # "store")
    BY DEF CloseNext
  <2>2. Drained => storeOpen' = storeOpen
    BY DEF Drained
  <2> QED
    BY <2>1, <2>2, CloseMoves DEF Typed
<1>9. exit' \in Exits
  <2>1. ASSUME NEW r \in Requests, RateLimited(r) \/ Busy(r) \/ Serve(r) \/ Finish(r) \/ Disconnect(r)
        PROVE  exit' = exit
    BY <2>1 DEF RateLimited, Busy, Serve, Finish, Release, Disconnect
  <2>2. ASSUME NEW r \in Snapshots, Snapshot(r) \/ FinishSnapshot(r) PROVE exit' = exit
    BY <2>2 DEF Snapshot, FinishSnapshot, Release
  <2>3. Tick \/ Metrics \/ UNCHANGED vars => exit' = exit
    BY DEF Tick, Metrics, vars
  <2>4. Shutdown => exit' = exit \/ exit' \in {"crashed", "clean"}
    BY DEF Shutdown, Close, CloseAllConnections, Drained, CloseNext, CloseRejects, End
  <2> QED
    BY <2>1, <2>2, <2>3, <2>4 DEF Next, Handle, Typed, Exits
<1> QED
  BY <1>6, <1>7, <1>8, <1>9

-----------------------------------------------------------------------------
(* Snapshots *)

LEMMA CalmSteps ==
  ASSUME Typed, [Next]_vars
  PROVE  Calm \/ (StoreWrite /\ Metrics) \/ (StoreReject /\ Metrics)
<1>1. \A r \in Requests : Finish(r) => now' = now
  BY DEF Finish, Release
<1> QED
  BY <1>1, ChainSteps DEF Calm

\* The snapshots change one at a time, except those that wait for a chain.
Alone(r) ==
  \/ Snapshot(r)
  \/ Metrics /\ (CaptureForSnapshot(r) \/ SnapshotRead(r))
  \/ snap' = [snap EXCEPT ![r] = NoSnapshot]
  \/ snap' = [snap EXCEPT ![r].stage = "failed"]
LEMMA SnapSteps ==
  ASSUME Typed, [Next]_vars
  PROVE  \/ Calm /\ beats.queue <= beats'.queue /\ snap' = snap
         \/ Calm /\ beats.queue <= beats'.queue /\ \E r \in Snapshots : Alone(r)
         \/ Metrics /\ (StoreWrite \/ StoreReject \/ SampleWrite \/ SampleReject)
<1>1. ASSUME NEW r \in Requests, RateLimited(r) \/ Busy(r) \/ Serve(r) \/ Finish(r) \/ Disconnect(r)
      PROVE  snap' = snap /\ beats' = beats
  BY <1>1 DEF RateLimited, Busy, Serve, Finish, Disconnect, metrics
<1>2. ASSUME NEW r \in Snapshots, Snapshot(r) \/ FinishSnapshot(r) PROVE Alone(r) /\ beats' = beats
  BY <1>2 DEF Snapshot, FinishSnapshot, Alone
<1>3. beats.queue \in Nat
  BY DEF Typed
<1>4. ASSUME NEW r \in Snapshots, CaptureForSnapshot(r) \/ SnapshotRead(r) \/ SnapshotFails(r), Metrics
      PROVE  Alone(r) /\ beats.queue <= beats'.queue
  <2>1. Alone(r)
    BY <1>4 DEF SnapshotFails, Alone
  <2>2. beats' = beats \/ beats' = [beats EXCEPT !.queue = beats.queue + 1]
    BY <1>4 DEF CaptureForSnapshot, SnapshotRead, SnapshotFails
  <2>3. beats' = [beats EXCEPT !.queue = beats.queue + 1] => beats'.queue = beats.queue + 1
    BY DEF Typed
  <2> QED
    BY <1>3, <2>1, <2>2, <2>3
<1>5. FlushTimer => snap' = snap /\ beats' = beats
  BY DEF FlushTimer
<1>6. HeartbeatTimer => snap' = snap /\ beats.queue <= beats'.queue
  <2>1. HeartbeatTimer => beats' = [beats EXCEPT !.queue = beats.queue + 1] /\ snap' = snap
    BY DEF HeartbeatTimer
  <2>2. beats' = [beats EXCEPT !.queue = beats.queue + 1] => beats'.queue = beats.queue + 1
    BY DEF Typed
  <2> QED
    BY <1>3, <2>1, <2>2
<1>7. Shutdown \/ Tick \/ UNCHANGED vars => snap' = snap /\ beats' = beats
  BY DEF Shutdown, Close, CloseAllConnections, Drained, CloseNext, CloseRejects, End, Tick, metrics, vars
<1>8. Calm \/ (StoreWrite /\ Metrics) \/ (StoreReject /\ Metrics)
  BY CalmSteps
<1>9. Handle => beats' = beats /\ (snap' = snap \/ \E r \in Snapshots : Alone(r))
  BY <1>1, <1>2 DEF Handle
<1>10. Metrics => \/ StoreWrite \/ StoreReject \/ SampleWrite \/ SampleReject
                  \/ snap' = snap /\ beats.queue <= beats'.queue
                  \/ \E r \in Snapshots : Alone(r) /\ beats.queue <= beats'.queue
  <2>1. Metrics => \/ FlushTimer \/ HeartbeatTimer \/ StoreWrite \/ StoreReject \/ SampleWrite \/ SampleReject
                   \/ \E r \in Snapshots : CaptureForSnapshot(r) \/ SnapshotRead(r) \/ SnapshotFails(r)
    BY DEF Metrics
  <2>2. beats' = beats => beats.queue <= beats'.queue
    BY <1>3
  <2> QED
    BY <1>4, <1>5, <1>6, <2>1, <2>2
<1>11. beats' = beats => beats.queue <= beats'.queue
  BY <1>3
<1> QED
  BY <1>7, <1>8, <1>9, <1>10, <1>11 DEF Next

\* One that waits for a chain is told of it.
Told(p, stage, then) ==
  /\ snap[p].stage = stage
  /\ snap'[p] = IF snap[p].ahead > 1 THEN [snap[p] EXCEPT !.ahead = @ - 1]
                ELSE [snap[p] EXCEPT !.ahead = 0, !.stage = then]
LEMMA NearerIs ==
  ASSUME NEW p \in Requests, NEW stage, NEW then
  PROVE  /\ snap' = Nearer(stage, then) => Told(p, stage, then) \/ (snap'[p] = snap[p] /\ snap[p].stage # stage)
         /\ snap' = Rejected(stage) =>
              \/ snap'[p] = snap[p] /\ snap[p].stage # stage
              \/ snap'[p] = [snap[p] EXCEPT !.ahead = 0, !.stage = "failed"]
<1> DEFINE C(r) ==
             CASE snap[r].stage # stage -> snap[r]
               [] snap[r].stage = stage /\ snap[r].ahead > 1 -> [snap[r] EXCEPT !.ahead = @ - 1]
               [] OTHER -> [snap[r] EXCEPT !.ahead = 0, !.stage = then]
<1>1. /\ snap[p].stage # stage => C(p) = snap[p]
      /\ snap[p].stage = stage /\ snap[p].ahead > 1 => C(p) = [snap[p] EXCEPT !.ahead = @ - 1]
      /\ snap[p].stage = stage /\ ~(snap[p].ahead > 1) => C(p) = [snap[p] EXCEPT !.ahead = 0, !.stage = then]
  OBVIOUS
<1>2. Nearer(stage, then) = [r \in Requests |-> C(r)]
  BY DEF Nearer
<1> HIDE DEF C
<1>3. snap' = Nearer(stage, then) => snap'[p] = C(p)
  BY <1>2
<1>4. snap' = Nearer(stage, then) => Told(p, stage, then) \/ (snap'[p] = snap[p] /\ snap[p].stage # stage)
  BY <1>1, <1>3 DEF Told
<1> QED
  BY <1>4 DEF Rejected

\* What becomes of a request's snapshot.
Unmoved(p) ==
  /\ snap'[p] = snap[p]
  /\ snap[p].stage = "flush" => Calm \/ (StoreWrite /\ Metrics /\ ~Ends)
  /\ snap[p].stage = "beat" => beats.queue <= beats'.queue
Fails(p) ==
  \/ snap'[p] = [snap[p] EXCEPT !.stage = "failed"]
  \/ snap'[p] = [snap[p] EXCEPT !.ahead = 0, !.stage = "failed"]
LEMMA SnapMoves ==
  ASSUME Typed, [Next]_vars, NEW p \in Requests
  PROVE  \/ Unmoved(p)
         \/ snap'[p] = NoSnapshot
         \/ Fails(p)
         \/ p \in Snapshots /\ Snapshot(p)
         \/ Metrics /\ CaptureForSnapshot(p) /\ ~beats.broken
         \/ Metrics /\ SnapshotRead(p)
         \/ Metrics /\ StoreWrite /\ Ends /\ Told(p, "flush", "flushed")
         \/ Metrics /\ SampleWrite /\ Told(p, "beat", "read")
<1>0. snap \in [Requests -> SnapStates] /\ beats.queue \in Nat /\ Snapshots \subseteq Requests
  BY ServiceAssumption DEF Typed
<1>1. CASE Calm /\ beats.queue <= beats'.queue /\ snap' = snap
  BY <1>1 DEF Unmoved
<1>2. ASSUME Calm, beats.queue <= beats'.queue, NEW r \in Snapshots, Alone(r), p # r PROVE Unmoved(p)
  <2>1. PICK x : snap' = [snap EXCEPT ![r] = x]
    <3>1. Snapshot(r) => \E x : snap' = [snap EXCEPT ![r] = x]
      BY DEF Snapshot, BeginSnapshot
    <3>2. CaptureForSnapshot(r) => \E x : snap' = [snap EXCEPT ![r] = x]
      BY DEF CaptureForSnapshot
    <3>3. SnapshotRead(r) => \E x : snap' = [snap EXCEPT ![r] = x]
      BY DEF SnapshotRead
    <3>4. snap' = [snap EXCEPT ![r].stage = "failed"] => \E x : snap' = [snap EXCEPT ![r] = x]
      OBVIOUS
    <3> QED
      BY <1>2, <3>1, <3>2, <3>3, <3>4 DEF Alone
  <2>2. snap'[p] = snap[p]
    BY <1>0, <1>2, <2>1
  <2> QED
    BY <1>2, <2>2 DEF Unmoved
<1>3. ASSUME Calm, beats.queue <= beats'.queue, p \in Snapshots, Alone(p)
      PROVE  \/ snap'[p] = NoSnapshot \/ Fails(p) \/ Snapshot(p)
             \/ Metrics /\ CaptureForSnapshot(p) /\ ~beats.broken
             \/ Metrics /\ SnapshotRead(p)
  <2>1. snap' = [snap EXCEPT ![p] = NoSnapshot] => snap'[p] = NoSnapshot
    BY <1>0
  <2>2. snap' = [snap EXCEPT ![p].stage = "failed"] => Fails(p)
    BY <1>0 DEF Fails
  <2>3. CaptureForSnapshot(p) /\ beats.broken => snap' = [snap EXCEPT ![p].stage = "failed"]
    BY DEF CaptureForSnapshot
  <2> QED
    BY <1>3, <2>1, <2>2, <2>3 DEF Alone
<1>4. CASE Metrics /\ StoreWrite
  <2>1. CASE Ends
    <3>1. snap' = Nearer("flush", "flushed") /\ beats' = beats
      BY <1>4, <2>1 DEF StoreWrite, Ends
    <3>2. Told(p, "flush", "flushed") \/ (snap'[p] = snap[p] /\ snap[p].stage # "flush")
      BY <3>1, NearerIs
    <3>3. beats.queue <= beats'.queue
      BY <1>0, <3>1
    <3> QED
      BY <1>4, <2>1, <3>2, <3>3 DEF Unmoved
  <2>2. CASE ~Ends
    <3>1. snap' = snap /\ beats' = beats
      BY <1>4, <2>2 DEF StoreWrite, Ends
    <3> QED
      BY <1>0, <1>4, <2>2, <3>1 DEF Unmoved
  <2> QED
    BY <2>1, <2>2
<1>5. CASE Metrics /\ StoreReject
  <2>1. snap' = Rejected("flush") /\ beats' = beats
    BY <1>5 DEF StoreReject
  <2>2. \/ snap'[p] = snap[p] /\ snap[p].stage # "flush"
        \/ snap'[p] = [snap[p] EXCEPT !.ahead = 0, !.stage = "failed"]
    BY <2>1, NearerIs
  <2>3. beats.queue <= beats'.queue
    BY <1>0, <2>1
  <2> QED
    BY <2>2, <2>3 DEF Unmoved, Fails
<1>6. CASE Metrics /\ (SampleWrite \/ SampleReject)
  <2>1. Calm
    BY <1>6 DEF SampleWrite, SampleReject, Calm, Still, chain
  <2>2. CASE SampleWrite
    <3>1. snap' = Nearer("beat", "read")
      BY <2>2 DEF SampleWrite
    <3> QED
      BY <1>6, <2>1, <2>2, <3>1, NearerIs DEF Unmoved
  <2>3. CASE SampleReject
    <3>1. snap' = Rejected("beat")
      BY <2>3 DEF SampleReject
    <3> QED
      BY <2>1, <3>1, NearerIs DEF Unmoved, Fails
  <2> QED
    BY <1>6, <2>2, <2>3
<1> QED
  BY <1>1, <1>2, <1>3, <1>4, <1>5, <1>6, SnapSteps

\* A snapshot begins with all that is recorded.
LEMMA Begun ==
  ASSUME Typed, Placed, [Next]_vars, NEW p \in Snapshots, Snapshot(p)
  PROVE  /\ snap'[p] \in SnapStates /\ snap'[p].began = now /\ snap'[p].due = Recorded
         /\ snap'[p].left = Tables /\ snap'[p].seen = [t \in Tables |-> {}]
         /\ snap'[p].stage \in {"failed", "flush", "flushed"} /\ snap'[p].ahead = Len(tail')
         /\ snap'[p].stage = "flush" => ~broken /\ Len(tail') \in Nat \ {0}
         /\ snap'[p].stage = "flushed" => ~broken /\ tail' = <<>>
<1>1. PICK s : s = CASE broken -> "failed" [] ~broken /\ tail' = <<>> -> "flushed" [] OTHER -> "flush"
  OBVIOUS
<1>2. /\ s \in {"failed", "flush", "flushed"}
      /\ s = "flush" => ~broken /\ tail' # <<>>
      /\ s = "flushed" => ~broken /\ tail' = <<>>
  BY <1>1
<1>3. tail' \in Seq(Jobs)
  BY PlacedStep DEF Placed, Chained
<1>4. Len(tail') \in Nat /\ (tail' # <<>> => Len(tail') # 0)
  BY <1>3, EmptySeq, LenProperties
<1>5. snap' = [snap EXCEPT ![p] = [NoSnapshot EXCEPT !.stage = s, !.began = now, !.ahead = Len(tail'), !.due = Recorded]]
  BY <1>1 DEF Snapshot, BeginSnapshot
<1>6. p \in Requests /\ snap \in [Requests -> SnapStates] /\ Recorded \in SUBSET Requests /\ now \in Int
  BY ServiceAssumption DEF Typed, Recorded
<1>7. snap'[p] = [NoSnapshot EXCEPT !.stage = s, !.began = now, !.ahead = Len(tail'), !.due = Recorded]
  BY <1>5, <1>6
<1>8. Never \in Int
  BY MetricsAssumption DEF Never
<1>9. snap'[p] = [stage |-> s, began |-> now, ahead |-> Len(tail'), due |-> Recorded, beat |-> Never,
                  seen |-> [t \in Tables |-> {}], left |-> Tables]
  BY <1>7 DEF NoSnapshot
<1>10. snap'[p] \in SnapStates
  BY <1>2, <1>4, <1>6, <1>8, <1>9 DEF SnapStates, SnapStages
<1> QED
  BY <1>2, <1>4, <1>9, <1>10

\* A read tells of the rows of its tables.
LEMMA ReadOf ==
  ASSUME Typed, NEW p \in Requests, SnapshotRead(p)
  PROVE  \E T \in SUBSET snap[p].left :
           /\ case.backend = "sqlite" => T = snap[p].left
           /\ snap'[p] \in SnapStates
           /\ snap'[p].began = snap[p].began /\ snap'[p].due = snap[p].due
           /\ \A t \in Tables : snap'[p].seen[t] = IF t \in T THEN Visible(p, t) ELSE snap[p].seen[t]
           /\ snap'[p].beat = IF "request" \in T THEN sample ELSE snap[p].beat
           /\ snap'[p].left = snap[p].left \ T
           /\ snap'[p].stage = IF snap[p].left = T THEN "done" ELSE "read"
           /\ snap[p].stage = "read"
<1>1. PICK x \in SnapStates : x = snap[p]
  BY DEF Typed
<1>2. snap \in [Requests -> SnapStates] /\ sample \in Int
  BY DEF Typed
<1>3. PICK T \in IF case.backend = "sqlite" THEN {x.left} ELSE {{t} : t \in x.left} :
        snap' = [snap EXCEPT
          ![p].seen = [t \in Tables |-> IF t \in T THEN Visible(p, t) ELSE @[t]],
          ![p].beat = IF "request" \in T THEN sample ELSE @,
          ![p].left = @ \ T,
          ![p].stage = IF x.left = T THEN "done" ELSE "read"]
  BY <1>1 DEF SnapshotRead
<1>4. T \in SUBSET x.left /\ (case.backend = "sqlite" => T = x.left)
  BY <1>3
<1>5. PICK v : v = [t \in Tables |-> IF t \in T THEN Visible(p, t) ELSE x.seen[t]]
  OBVIOUS
<1>6. v \in [Tables -> SUBSET Requests] /\ \A t \in Tables : v[t] = IF t \in T THEN Visible(p, t) ELSE x.seen[t]
  BY <1>1, <1>5 DEF SnapStates, Visible, Recorded
<1>7. PICK b \in Int : b = IF "request" \in T THEN sample ELSE x.beat
  BY <1>1, <1>2 DEF SnapStates
<1>8. PICK s \in {"done", "read"} : s = IF x.left = T THEN "done" ELSE "read"
  OBVIOUS
<1>9. snap'[p] = [x EXCEPT !.seen = v, !.beat = b, !.left = x.left \ T, !.stage = s]
  BY <1>1, <1>2, <1>3, <1>5, <1>7, <1>8
<1>10. x.left \ T \in SUBSET Tables /\ s \in SnapStages
  BY <1>1, <1>8 DEF SnapStates, SnapStages
<1>11. /\ snap'[p] \in SnapStates /\ snap'[p].began = x.began /\ snap'[p].due = x.due
       /\ snap'[p].seen = v /\ snap'[p].beat = b /\ snap'[p].left = x.left \ T /\ snap'[p].stage = s
  BY <1>1, <1>6, <1>9, <1>10 DEF SnapStates
<1>12. snap[p].stage = "read"
  BY DEF SnapshotRead
<1> QED
  BY <1>1, <1>4, <1>6, <1>7, <1>8, <1>11, <1>12

\* How one that waits, or asks for a sample, goes on.
LEMMA ToldOf ==
  ASSUME Typed, NEW p \in Requests, NEW stage, NEW then \in SnapStages, Told(p, stage, then)
  PROVE  /\ snap'[p] \in SnapStates
         /\ snap'[p].began = snap[p].began /\ snap'[p].due = snap[p].due /\ snap'[p].seen = snap[p].seen
         /\ snap'[p].beat = snap[p].beat /\ snap'[p].left = snap[p].left
         /\ \/ snap'[p].stage = stage /\ snap[p].ahead > 1 /\ snap'[p].ahead = snap[p].ahead - 1
            \/ snap'[p].stage = then /\ snap[p].ahead <= 1 /\ snap'[p].ahead = 0
<1>1. PICK x \in SnapStates : x = snap[p]
  BY DEF Typed
<1>2. x.ahead \in Nat /\ x.stage = stage
  BY <1>1 DEF Told, SnapStates
<1>3. CASE x.ahead > 1
  <2>1. snap'[p] = [x EXCEPT !.ahead = x.ahead - 1]
    BY <1>1, <1>3 DEF Told
  <2>2. x.ahead - 1 \in Nat
    BY <1>2, <1>3
  <2> QED
    BY <1>1, <1>2, <1>3, <2>1, <2>2 DEF SnapStates
<1>4. CASE ~(x.ahead > 1)
  <2>1. snap'[p] = [x EXCEPT !.ahead = 0, !.stage = then]
    BY <1>1, <1>4 DEF Told
  <2>2. x.ahead <= 1 /\ 0 \in Nat
    BY <1>2, <1>4
  <2>3. /\ snap'[p] \in SnapStates
        /\ snap'[p].began = x.began /\ snap'[p].due = x.due /\ snap'[p].seen = x.seen
        /\ snap'[p].beat = x.beat /\ snap'[p].left = x.left
        /\ snap'[p].stage = then /\ snap'[p].ahead = 0
    BY <1>1, <2>1, <2>2 DEF SnapStates
  <2> QED
    BY <1>1, <2>2, <2>3
<1> QED
  BY <1>3, <1>4

LEMMA CapturedOf ==
  ASSUME Typed, NEW p \in Requests, CaptureForSnapshot(p), ~beats.broken
  PROVE  /\ snap'[p] \in SnapStates
         /\ snap'[p].began = snap[p].began /\ snap'[p].due = snap[p].due /\ snap'[p].seen = snap[p].seen
         /\ snap'[p].beat = snap[p].beat /\ snap'[p].left = snap[p].left
         /\ snap[p].stage = "flushed" /\ snap'[p].stage = "beat"
         /\ snap'[p].ahead = beats'.queue /\ beats'.queue \in Nat \ {0}
<1>1. PICK x \in SnapStates : x = snap[p]
  BY DEF Typed
<1>2. PICK b \in [queue : Nat, broken : BOOLEAN] : b = beats
  BY DEF Typed
<1>3. /\ snap' = [snap EXCEPT ![p].stage = "beat", ![p].ahead = b.queue + 1]
      /\ beats' = [b EXCEPT !.queue = b.queue + 1] /\ x.stage = "flushed"
  BY <1>1, <1>2 DEF CaptureForSnapshot
<1>4. PICK n \in Nat \ {0} : n = b.queue + 1
  BY <1>2
<1>5. snap'[p] = [x EXCEPT !.stage = "beat", !.ahead = n]
  BY <1>1, <1>3, <1>4 DEF Typed
<1>6. beats'.queue = n
  BY <1>2, <1>3, <1>4
<1>7. "beat" \in SnapStages
  BY DEF SnapStages
<1>8. /\ snap'[p] \in SnapStates
      /\ snap'[p].began = x.began /\ snap'[p].due = x.due /\ snap'[p].seen = x.seen
      /\ snap'[p].beat = x.beat /\ snap'[p].left = x.left
      /\ snap'[p].stage = "beat" /\ snap'[p].ahead = n
  BY <1>1, <1>4, <1>5, <1>7 DEF SnapStates
<1> QED
  BY <1>1, <1>3, <1>4, <1>6, <1>8

LEMMA FailsOf ==
  ASSUME Typed, NEW p \in Requests, Fails(p)
  PROVE  /\ snap'[p] \in SnapStates /\ snap'[p].stage = "failed"
         /\ snap'[p].began = snap[p].began /\ snap'[p].due = snap[p].due /\ snap'[p].seen = snap[p].seen
<1>1. PICK x \in SnapStates : x = snap[p]
  BY DEF Typed
<1>2. snap'[p] = [x EXCEPT !.stage = "failed"] \/ snap'[p] = [x EXCEPT !.ahead = 0, !.stage = "failed"]
  BY <1>1 DEF Fails
<1>3. "failed" \in SnapStages /\ 0 \in Nat
  BY DEF SnapStages
<1>4. CASE snap'[p] = [x EXCEPT !.stage = "failed"]
  BY <1>1, <1>3, <1>4 DEF SnapStates
<1>5. CASE snap'[p] = [x EXCEPT !.ahead = 0, !.stage = "failed"]
  BY <1>1, <1>3, <1>5 DEF SnapStates
<1> QED
  BY <1>2, <1>4, <1>5

\* A chain that is awaited is as long as the wait.
LEMMA SnapTyped ==
  ASSUME Typed, Placed, [Next]_vars, NEW p \in Requests
  PROVE  /\ snap'[p] \in SnapStates
         /\ snap'[p].due \subseteq Recorded' /\ \A t \in Tables : snap'[p].seen[t] \subseteq Recorded'
         /\ snap'[p].began <= now'
         /\ snap'[p].stage = "flush" => snap'[p].ahead \in 1..Len(tail')
         /\ snap'[p].stage = "beat" => snap'[p].ahead \in 1..beats'.queue
<1>1. /\ snap[p] \in SnapStates
      /\ snap[p].due \subseteq Recorded' /\ \A t \in Tables : snap[p].seen[t] \subseteq Recorded'
      /\ snap[p].began <= now' /\ now <= now' /\ now \in Nat /\ now' \in Nat
      /\ Recorded \subseteq Recorded'
  BY SMTT(30), RecordedStep DEF Typed, SnapStates
<1>2. /\ snap[p].stage = "flush" => snap[p].ahead \in 1..Len(tail)
      /\ snap[p].stage = "beat" => snap[p].ahead \in 1..beats.queue
  BY DEF Typed
<1>3. tail \in Seq(Jobs) /\ tail' \in Seq(Jobs) /\ beats.queue \in Nat /\ beats'.queue \in Nat /\ snap[p].ahead \in Nat
  BY PlacedStep, BeatsTyped DEF Placed, Chained, Typed, SnapStates
<1>4. Len(tail) \in Nat /\ Len(tail') \in Nat /\ DOMAIN tail = 1..Len(tail) /\ DOMAIN tail' = 1..Len(tail')
  BY <1>3, LenProperties
<1>5. CASE Unmoved(p)
  <2>1. CASE snap[p].stage = "flush"
    <3>1. Calm => Len(tail) <= Len(tail')
      <4>1. Calm => \A i \in DOMAIN tail : i \in DOMAIN tail'
        BY CalmChain
      <4> QED
        BY <1>4, <4>1
    <3>2. StoreWrite /\ ~Ends => Len(tail') = Len(tail)
      <4>1. StoreWrite => tail' = After /\ tail # <<>>
        BY Writing
      <4> QED
        BY <1>3, <4>1, ChainHead
    <3>3. Len(tail) <= Len(tail') /\ snap'[p] = snap[p]
      <4>1. snap'[p] = snap[p] /\ (Calm \/ (StoreWrite /\ ~Ends))
        BY <1>5, <2>1 DEF Unmoved
      <4>2. Len(tail') = Len(tail) => Len(tail) <= Len(tail')
        BY <1>4
      <4> QED
        BY <3>1, <3>2, <4>1, <4>2
    <3>4. snap[p].ahead \in 1..Len(tail')
      BY <1>2, <1>4, <2>1, <3>3
    <3> QED
      BY <1>1, <2>1, <3>3, <3>4
  <2>2. CASE snap[p].stage = "beat"
    BY <1>1, <1>2, <1>3, <1>5, <2>2 DEF Unmoved
  <2>3. CASE snap[p].stage \notin {"flush", "beat"}
    BY <1>1, <1>5, <2>3 DEF Unmoved
  <2> QED
    BY <2>1, <2>2, <2>3
<1>6. CASE snap'[p] = NoSnapshot
  <2>1. Never \in Int
    BY MetricsAssumption DEF Never
  <2>2. NoSnapshot \in SnapStates /\ NoSnapshot.stage = "none" /\ NoSnapshot.due = {} /\ NoSnapshot.began = 0
        /\ \A t \in Tables : NoSnapshot.seen[t] = {}
    BY <2>1 DEF NoSnapshot, SnapStates, SnapStages
  <2> QED
    BY <1>1, <1>6, <2>2
<1>7. CASE Fails(p)
  BY <1>1, <1>7, FailsOf
<1>8. CASE p \in Snapshots /\ Snapshot(p)
  <2>1. /\ snap'[p] \in SnapStates /\ snap'[p].began = now /\ snap'[p].due = Recorded
        /\ snap'[p].seen = [t \in Tables |-> {}] /\ snap'[p].ahead = Len(tail')
        /\ snap'[p].stage \in {"failed", "flush", "flushed"}
        /\ snap'[p].stage = "flush" => Len(tail') \in Nat \ {0}
    BY <1>8, Begun
  <2> QED
    BY <1>1, <2>1
<1>9. CASE Metrics /\ CaptureForSnapshot(p) /\ ~beats.broken
  BY <1>1, <1>9, CapturedOf
<1>10. CASE Metrics /\ SnapshotRead(p)
  <2>1. PICK T :
           /\ snap'[p] \in SnapStates
           /\ snap'[p].began = snap[p].began /\ snap'[p].due = snap[p].due
           /\ \A t \in Tables : snap'[p].seen[t] = IF t \in T THEN Visible(p, t) ELSE snap[p].seen[t]
           /\ snap'[p].stage = IF snap[p].left = T THEN "done" ELSE "read"
    BY <1>10, ReadOf
  <2>2. \A t \in Tables : Visible(p, t) \subseteq Recorded
    BY DEF Visible
  <2> QED
    BY <1>1, <2>1, <2>2
<1>11. CASE Metrics /\ StoreWrite /\ Ends /\ Told(p, "flush", "flushed")
  <2>1. tail' = After /\ tail # <<>>
    BY <1>11, Writing
  <2>2. Len(tail') = Len(tail) - 1
    BY <1>3, <1>11, <2>1, ChainHead
  <2>3. snap[p].ahead \in 1..Len(tail)
    BY <1>2, <1>11 DEF Told
  <2>4. "flushed" \in SnapStages
    BY DEF SnapStages
  <2> QED
    BY SMTT(30), <1>1, <1>3, <1>4, <1>11, <2>2, <2>3, <2>4, ToldOf
<1>12. CASE Metrics /\ SampleWrite /\ Told(p, "beat", "read")
  <2>1. PICK b \in [queue : Nat, broken : BOOLEAN] : b = beats
    BY DEF Typed
  <2>2. beats' = [b EXCEPT !.queue = b.queue - 1]
    BY <1>12, <2>1 DEF SampleWrite
  <2>3. beats'.queue = beats.queue - 1
    BY <2>1, <2>2
  <2>4. snap[p].ahead \in 1..beats.queue
    BY <1>2, <1>12 DEF Told
  <2>5. "read" \in SnapStages
    BY DEF SnapStages
  <2>6. /\ snap'[p] \in SnapStates
        /\ snap'[p].began = snap[p].began /\ snap'[p].due = snap[p].due /\ snap'[p].seen = snap[p].seen
        /\ \/ snap'[p].stage = "beat" /\ snap[p].ahead > 1 /\ snap'[p].ahead = snap[p].ahead - 1
           \/ snap'[p].stage = "read"
    BY <1>12, <2>5, ToldOf
  <2>7. snap'[p].stage = "beat" => snap'[p].ahead \in 1..beats'.queue
    BY <1>3, <2>3, <2>4, <2>6
  <2>8. snap'[p].stage # "flush"
    BY <2>6
  <2> QED
    BY <1>1, <2>6, <2>7, <2>8
<1> QED
  BY <1>5, <1>6, <1>7, <1>8, <1>9, <1>10, <1>11, <1>12, SnapMoves

LEMMA TypedStep ==
  ASSUME Typed, Placed, [Next]_vars
  PROVE  Typed'
<1>1. \A r \in Requests :
        /\ snap'[r] \in SnapStates
        /\ snap'[r].due \subseteq Recorded' /\ \A t \in Tables : snap'[r].seen[t] \subseteq Recorded'
        /\ snap'[r].began <= now'
        /\ snap'[r].stage = "flush" => snap'[r].ahead \in 1..Len(tail')
        /\ snap'[r].stage = "beat" => snap'[r].ahead \in 1..beats'.queue
  BY SnapTyped
<1>2. snap' = [r \in Requests |-> snap'[r]]
  <2>1. snap = [r \in Requests |-> snap[r]]
    BY DEF Typed
  <2>2. ASSUME NEW r \in Snapshots, Alone(r) PROVE snap' = [q \in Requests |-> snap'[q]]
    <3>1. Snapshot(r) => \E x : snap' = [snap EXCEPT ![r] = x]
      BY DEF Snapshot, BeginSnapshot
    <3>2. CaptureForSnapshot(r) => \E x : snap' = [snap EXCEPT ![r] = x]
      BY DEF CaptureForSnapshot
    <3>3. SnapshotRead(r) => \E x : snap' = [snap EXCEPT ![r] = x]
      BY DEF SnapshotRead
    <3>4. PICK x : snap' = [snap EXCEPT ![r] = x]
      BY <2>2, <3>1, <3>2, <3>3 DEF Alone
    <3> QED
      BY <2>1, <3>4
  <2>3. StoreWrite \/ StoreReject \/ SampleWrite \/ SampleReject => snap' = [r \in Requests |-> snap'[r]]
    <3>1. StoreWrite => snap' = Nearer("flush", "flushed") \/ snap' = snap
      BY DEF StoreWrite
    <3>2. SampleWrite => snap' = Nearer("beat", "read")
      BY DEF SampleWrite
    <3>3. StoreReject => snap' = Rejected("flush")
      BY DEF StoreReject
    <3>4. SampleReject => snap' = Rejected("beat")
      BY DEF SampleReject
    <3>5. \A s, t : /\ snap' = Nearer(s, t) => snap' = [r \in Requests |-> snap'[r]]
                    /\ snap' = Rejected(s) => snap' = [r \in Requests |-> snap'[r]]
      BY DEF Nearer, Rejected
    <3> QED
      BY <2>1, <3>1, <3>2, <3>3, <3>4, <3>5
  <2> QED
    BY <2>1, <2>2, <2>3, SnapSteps
<1>3. snap' \in [Requests -> SnapStates]
  BY <1>1, <1>2
<1>4. present' \subseteq Handlers'
  BY HandlerSteps DEF Typed
<1>5. broken' \in BOOLEAN
  <2>1. broken \in BOOLEAN
    BY DEF Typed
  <2> QED
    BY <2>1, ChainSteps DEF Still, Recorded1, Flush, Flushed, StoreWrite, StoreReject
<1>6. case' \in Cases /\ now' \in Nat /\ now' \in Start..case'.until
  BY MinutesStep DEF Typed
<1>7. /\ minute' \in [Requests -> Int] /\ IsFiniteSet(Recorded')
      /\ \A r \in Requests : minute'[r] = Unrecorded \/ minute'[r] \in {MinuteBucket(t) : t \in 0..case'.until}
      /\ \A r \in Requests : pc'[r] \in Running \cup {"new", "absent"} => minute'[r] = Unrecorded
  BY MinutesStep
<1>8. /\ beats' \in [queue : Nat, broken : BOOLEAN] /\ sample' \in Int /\ sample' <= now'
      /\ pc' \in [Requests -> Running \cup {"new", "absent", "answered"}]
  BY BeatsTyped, PcTyped
<1>9. /\ closing' \in Stages /\ exit' \in Exits /\ storeOpen' \in BOOLEAN
      /\ closer' \in [ahead : Nat, rejected : BOOLEAN, due : SUBSET Requests]
      /\ closer'.due \subseteq Recorded'
  BY CloseTyped
<1>10. Unrecorded' = Unrecorded /\ \A t : MinuteBucket(t)' = MinuteBucket(t)
  BY DEF Unrecorded, MinuteBucket
<1> QED
  BY <1>1, <1>3, <1>4, <1>5, <1>6, <1>7, <1>8, <1>9, <1>10 DEF Typed

-----------------------------------------------------------------------------
(* What a snapshot has been asked for *)

\* What is in the tables stays there, as long as the retention keeps it.
LEMMA InTablesStays ==
  ASSUME Typed, Placed, [Next]_vars, NEW D \in SUBSET Recorded, InTables(D)
  PROVE  Safe(D, 0, tail', table', Kept')
<1>1. CASE Calm
  BY <1>1, SafeCalm DEF InTables
<1>2. CASE StoreWrite /\ Metrics
  <2>1. now' = now /\ Left(0) = 0
    BY <1>2 DEF Metrics, Left
  <2>2. Safe(D, Left(0), tail', table', Kept')
    BY <1>2, <2>1, SafeWrite DEF InTables
  <2> QED
    BY <2>1, <2>2
<1>3. CASE StoreReject /\ Metrics
  <2>1. now' = now
    BY <1>3 DEF Metrics
  <2> QED
    BY <1>3, <2>1, SafeReject DEF InTables
<1> QED
  BY <1>1, <1>2, <1>3, CalmSteps

\* With the buffer flushed and no write rejected, all that is recorded is on its way.
LEMMA FlushedIsSafe ==
  ASSUME Placed', buffer' = {}, ~broken'
  PROVE  Safe(Recorded', Len(tail'), tail', table', Kept')
<1>1. tail' \in Seq(Jobs) /\ DOMAIN tail' = 1..Len(tail') /\ Kept' \subseteq Requests
  BY LenProperties DEF Placed, Chained
<1>2. \A i \in DOMAIN tail' : i <= Len(tail')
  BY <1>1
<1>3. \A t \in Tables, r \in Kept' : Has(r, t) => table'[t][r] = 1 \/ \E i \in DOMAIN tail' : Pending(tail'[i], r, t)
  BY DEF Placed, Chained
<1> QED
  BY <1>2, <1>3 DEF Safe

\* What was read stays read.
LEMMA ReadStays ==
  ASSUME Typed, [Next]_vars, NEW p \in Requests, Asked(p), snap[p].stage \in {"read", "done"}
  PROVE  /\ \A t \in Tables \ snap[p].left : \A q \in snap[p].due :
              Has(q, t) /\ minute'[q] >= snap[p].began - Window /\ minute'[q] >= now' - Retention
                => q \in snap[p].seen[t]
         /\ sample' >= snap[p].began
         /\ "request" \notin snap[p].left => snap[p].beat >= snap[p].began
<1>1. PICK x \in SnapStates : x = snap[p]
  BY DEF Typed
<1>2. x.due \subseteq Recorded /\ x.began \in Int
  BY <1>1 DEF Typed, SnapStates
<1>3. \A q \in x.due : minute'[q] = minute[q] /\ minute[q] \in Int
  BY <1>2, RecordedStep DEF Typed, Recorded
<1>4. now \in Int /\ now' \in Int /\ now <= now' /\ sample \in Int /\ sample' \in Int /\ sample <= sample'
  BY RecordedStep, BeatsTyped DEF Typed
<1>5. Retention \in Int
  BY MetricsAssumption
<1>6. \A q \in x.due : minute'[q] >= now' - Retention => minute[q] >= now - Retention
  BY <1>3, <1>4, <1>5
<1>7. /\ \A t \in Tables \ x.left : \A q \in x.due :
           Has(q, t) /\ minute[q] >= x.began - Window /\ minute[q] >= now - Retention => q \in x.seen[t]
      /\ sample >= x.began
      /\ "request" \notin x.left => x.beat >= x.began
  BY <1>1 DEF Asked
<1>8. sample' >= x.began
  BY <1>2, <1>4, <1>7
<1>9. \A t \in Tables \ x.left : \A q \in x.due :
        Has(q, t) /\ minute'[q] >= x.began - Window /\ minute'[q] >= now' - Retention => q \in x.seen[t]
  BY <1>3, <1>6, <1>7
<1> QED
  BY <1>1, <1>7, <1>8, <1>9

\* A read sees what is in its tables, and a sample that is taken after the beginning.
LEMMA ReadIsComplete ==
  ASSUME Typed, Placed, NEW p \in Requests, Asked(p), snap[p].stage = "read", NEW t \in Tables,
         NEW q \in snap[p].due, Has(q, t), minute[q] >= snap[p].began - Window, minute[q] >= now - Retention
  PROVE  q \in Visible(p, t)
<1>1. q \in Recorded /\ q \in Kept /\ minute[q] \in Int /\ snap[p].began \in Int
  BY DEF Typed, Kept, Recorded, SnapStates
<1>2. table[t][q] = 1
  <2>1. tail \in Seq(Jobs)
    BY DEF Placed, Chained
  <2>2. \A i \in DOMAIN tail : ~(i <= 0)
    BY <2>1, LenProperties
  <2> QED
    BY <1>1, <2>2 DEF Asked, InTables, Safe
<1>3. Window \in Nat
  BY MetricsAssumption
<1>4. PICK d \in Int : d = snap[p].began - Window
  BY <1>1, <1>3
<1>5. MinuteBucket(d) \in Int /\ MinuteBucket(d) <= d
  BY Buckets
<1>6. minute[q] >= MinuteBucket(d)
  BY <1>1, <1>4, <1>5
<1> QED
  BY <1>1, <1>2, <1>4, <1>6 DEF Visible

LEMMA AskedStep ==
  ASSUME Typed, Placed, [Next]_vars, NEW p \in Requests, Asked(p)
  PROVE  Asked(p)'
<1>1. snap[p] \in SnapStates /\ snap[p].due \in SUBSET Recorded /\ snap[p].ahead \in Nat
  BY DEF Typed, SnapStates
<1>2. Placed'
  BY PlacedStep
<1>3. snap[p].stage \in {"flushed", "beat", "read"} => Safe(snap[p].due, 0, tail', table', Kept')
  BY <1>1, InTablesStays DEF Asked
<1>4. CASE Unmoved(p)
  <2>1. snap'[p] = snap[p]
    BY <1>4 DEF Unmoved
  <2>2. ASSUME snap[p].stage = "flush" PROVE Safe(snap[p].due, snap[p].ahead, tail', table', Kept')
    <3>1. Safe(snap[p].due, snap[p].ahead, tail, table, Kept)
      BY <2>2 DEF Asked
    <3>2. CASE Calm
      BY <1>1, <3>1, <3>2, SafeCalm
    <3>3. CASE StoreWrite /\ Metrics /\ ~Ends
      <4>1. now' = now /\ Left(snap[p].ahead) = snap[p].ahead
        BY <3>3 DEF Metrics, Left
      <4>2. Safe(snap[p].due, Left(snap[p].ahead), tail', table', Kept')
        BY <1>1, <3>1, <3>3, <4>1, SafeWrite
      <4> QED
        BY <4>1, <4>2
    <3> QED
      BY <1>4, <2>2, <3>2, <3>3 DEF Unmoved
  <2>3. snap[p].stage \in {"flushed", "beat", "read"} => Safe(snap'[p].due, 0, tail', table', Kept')
    BY <1>3, <2>1
  <2>4. snap[p].stage \in {"read", "done"} =>
          /\ \A t \in Tables \ snap[p].left : \A q \in snap[p].due :
               Has(q, t) /\ minute'[q] >= snap[p].began - Window /\ minute'[q] >= now' - Retention
                 => q \in snap[p].seen[t]
          /\ sample' >= snap[p].began
          /\ "request" \notin snap[p].left => snap[p].beat >= snap[p].began
    BY ReadStays
  <2> QED
    BY <2>1, <2>2, <2>3, <2>4 DEF Asked, InTables
<1>5. CASE snap'[p] = NoSnapshot \/ Fails(p)
  <2>1. snap'[p].stage \in {"none", "failed"}
    BY <1>5, FailsOf DEF NoSnapshot
  <2> QED
    BY <2>1 DEF Asked, InTables
<1>6. CASE p \in Snapshots /\ Snapshot(p)
  <2>1. /\ snap'[p].due = Recorded /\ snap'[p].left = Tables
        /\ snap'[p].stage \in {"failed", "flush", "flushed"} /\ snap'[p].ahead = Len(tail')
        /\ snap'[p].stage \in {"flush", "flushed"} => ~broken
        /\ snap'[p].stage = "flushed" => tail' = <<>>
    BY <1>6, Begun
  <2>2. buffer' = {} /\ broken' = broken /\ Recorded' = Recorded
    BY <1>6, RecordedStep DEF Snapshot, BeginSnapshot, Flush
  <2>3. ~broken => Safe(Recorded, Len(tail'), tail', table', Kept')
    BY <1>2, <2>2, FlushedIsSafe
  <2>4. tail' = <<>> => Len(tail') = 0
    BY EmptySeq
  <2>5. snap'[p].stage = "flushed" => Safe(snap'[p].due, 0, tail', table', Kept')
    BY <2>1, <2>3, <2>4
  <2>6. snap'[p].stage = "flush" => Safe(snap'[p].due, snap'[p].ahead, tail', table', Kept')
    BY <2>1, <2>3
  <2> QED
    BY <2>1, <2>5, <2>6 DEF Asked, InTables
<1>7. CASE Metrics /\ CaptureForSnapshot(p) /\ ~beats.broken
  <2>1. /\ snap'[p].due = snap[p].due /\ snap'[p].left = snap[p].left
        /\ snap[p].stage = "flushed" /\ snap'[p].stage = "beat"
    BY <1>7, CapturedOf
  <2>2. Safe(snap'[p].due, 0, tail', table', Kept') /\ snap'[p].left = Tables
    BY <1>3, <2>1 DEF Asked
  <2> QED
    BY <2>1, <2>2 DEF Asked, InTables
<1>8. CASE Metrics /\ SnapshotRead(p)
  <2>1. PICK T \in SUBSET snap[p].left :
           /\ snap'[p].began = snap[p].began /\ snap'[p].due = snap[p].due
           /\ \A t \in Tables : snap'[p].seen[t] = IF t \in T THEN Visible(p, t) ELSE snap[p].seen[t]
           /\ snap'[p].beat = IF "request" \in T THEN sample ELSE snap[p].beat
           /\ snap'[p].left = snap[p].left \ T
           /\ snap'[p].stage = IF snap[p].left = T THEN "done" ELSE "read"
           /\ snap[p].stage = "read"
    BY <1>8, ReadOf
  <2>2. sample' = sample /\ minute' = minute /\ now' = now
    BY <1>8 DEF SnapshotRead, Metrics
  <2>3. Safe(snap'[p].due, 0, tail', table', Kept')
    BY <1>3, <2>1
  <2>4. /\ \A t \in Tables \ snap[p].left : \A q \in snap[p].due :
             Has(q, t) /\ minute'[q] >= snap[p].began - Window /\ minute'[q] >= now' - Retention
               => q \in snap[p].seen[t]
        /\ sample' >= snap[p].began
        /\ "request" \notin snap[p].left => snap[p].beat >= snap[p].began
    BY <2>1, ReadStays
  <2>5. ASSUME NEW t \in Tables \ snap'[p].left, NEW q \in snap'[p].due, Has(q, t),
               minute'[q] >= snap'[p].began - Window, minute'[q] >= now' - Retention
        PROVE  q \in snap'[p].seen[t]
    <3>1. CASE t \in T
      BY <2>1, <2>2, <2>5, <3>1, ReadIsComplete
    <3>2. CASE t \notin T
      BY <2>1, <2>4, <2>5, <3>2
    <3> QED
      BY <3>1, <3>2
  <2>6. "request" \notin snap'[p].left => snap'[p].beat >= snap'[p].began
    BY <2>1, <2>2, <2>4
  <2>7. snap'[p].stage = "done" => snap'[p].left = {}
    BY <2>1
  <2>8. snap'[p].stage \in {"read", "done"} /\ sample' >= snap'[p].began
    BY <2>1, <2>4
  <2> QED
    BY <2>3, <2>5, <2>6, <2>7, <2>8 DEF Asked, InTables
<1>9. CASE Metrics /\ StoreWrite /\ Ends /\ Told(p, "flush", "flushed")
  <2>1. "flushed" \in SnapStages /\ now' = now
    BY <1>9 DEF SnapStages, Metrics
  <2>2. /\ snap'[p].due = snap[p].due /\ snap'[p].left = snap[p].left
        /\ \/ snap'[p].stage = "flush" /\ snap[p].ahead > 1 /\ snap'[p].ahead = snap[p].ahead - 1
           \/ snap'[p].stage = "flushed" /\ snap[p].ahead <= 1
    BY <1>9, <2>1, ToldOf
  <2>3. snap[p].stage = "flush" /\ snap[p].ahead > 0
    BY <1>9 DEF Told, Typed
  <2>4. Safe(snap[p].due, Left(snap[p].ahead), tail', table', Kept')
    BY <1>1, <1>9, <2>1, <2>3, SafeWrite DEF Asked
  <2>5. Left(snap[p].ahead) = snap[p].ahead - 1
    BY <1>9, <2>3 DEF Left
  <2>6. snap'[p].stage = "flush" => Safe(snap'[p].due, snap'[p].ahead, tail', table', Kept')
    BY <2>2, <2>4, <2>5
  <2>7. snap'[p].stage = "flushed" => Safe(snap'[p].due, 0, tail', table', Kept')
    <3>1. snap'[p].stage = "flushed" => snap[p].ahead - 1 = 0
      BY <1>1, <2>2, <2>3
    <3> QED
      BY <2>2, <2>4, <2>5, <3>1
  <2>8. snap'[p].left = Tables
    BY <2>2, <2>3 DEF Asked
  <2> QED
    BY <2>2, <2>6, <2>7, <2>8 DEF Asked, InTables
<1>10. CASE Metrics /\ SampleWrite /\ Told(p, "beat", "read")
  <2>1. "read" \in SnapStages /\ sample' = now
    BY <1>10 DEF SnapStages, SampleWrite
  <2>2. /\ snap'[p].due = snap[p].due /\ snap'[p].left = snap[p].left /\ snap'[p].began = snap[p].began
        /\ snap'[p].stage \in {"beat", "read"} /\ snap[p].stage = "beat"
    BY <1>10, <2>1, ToldOf DEF Told
  <2>3. Safe(snap'[p].due, 0, tail', table', Kept') /\ snap'[p].left = Tables
    BY <1>3, <2>2 DEF Asked
  <2>4. sample' >= snap'[p].began
    <3>1. now \in Int /\ snap[p].began \in Int /\ snap[p].began <= now
      BY <1>1 DEF Typed, SnapStates
    <3> QED
      BY <2>1, <2>2, <3>1
  <2>5. "request" \in Tables /\ Tables \ Tables = {}
    BY DEF Tables
  <2> QED
    BY <2>2, <2>3, <2>4, <2>5 DEF Asked, InTables
<1> QED
  BY <1>4, <1>5, <1>6, <1>7, <1>8, <1>9, <1>10, SnapMoves

\* Over SQLite a request and its upstreams are written in one transaction.
LEMMA TogetherWritten ==
  ASSUME Typed, Placed, Together, [Next]_vars, case.backend = "sqlite",
         NEW r \in Kept', Shape[r].attempts # {}
  PROVE  table'["request"][r] = table'["upstream"][r]
<1>1. /\ "request" \in Tables /\ "upstream" \in Tables
      /\ Has(r, "request") /\ Has(r, "upstream")
  BY DEF Tables, Has
<1>2. /\ r \in Requests /\ (r \in Recorded => r \in Kept)
      /\ table \in [Tables -> [Requests -> {0, 1}]] /\ tail \in Seq(Jobs)
  BY RecordedStep DEF Kept, Placed, Chained
<1>3. table["request"][r] = table["upstream"][r]
  <2>1. CASE r \in Kept
    BY <2>1 DEF Together
  <2>2. CASE r \notin Kept
    <3>1. table["request"][r] # 1 /\ table["upstream"][r] # 1
      BY <1>1, <1>2, <2>2 DEF Placed, Chained
    <3>2. table["request"][r] \in {0, 1} /\ table["upstream"][r] \in {0, 1}
      BY <1>1, <1>2
    <3> QED
      BY <3>1, <3>2
  <2> QED
    BY <2>1, <2>2
<1>4. CASE Calm
  BY <1>3, <1>4 DEF Calm, Still, Recorded1, Flushed
<1>5. CASE (StoreWrite \/ StoreReject) /\ Metrics
  <2> DEFINE write == Head(tail[1].todo)
  <2>1. now' = now
    BY <1>5 DEF Metrics
  <2>2. tail # <<>>
    BY <1>5, Writing
  <2>3. /\ write \in WriteKinds /\ tail[1] \in Jobs /\ 1 \in DOMAIN tail
        /\ Adds(write, "request") <=> Adds(write, "upstream")
    BY <1>2, <2>2, ChainHead
  <2>4. PICK X : /\ table' = Written(write, X, tail[1])
                 /\ write.op = "add" => X = {} \/ X = write.tables
    <3>1. StoreWrite => table' = Written(write, write.tables, tail[1])
      BY Writing
    <3>2. StoreReject => \E X : table' = Written(write, X, tail[1]) /\ (X # {} => write.op = "delete")
      BY Writing
    <3>3. write.op # "add" \/ write.op # "delete"
      OBVIOUS
    <3> QED
      BY <1>5, <3>1, <3>2, <3>3
  <2>5. r \notin Outdated(tail[1].at)
    <3>1. r \in Kept
      BY <1>2, <1>5, <2>1, RecordedStep, Writing
    <3>2. tail[1].at \in Int /\ tail[1].at <= now
      BY <2>3 DEF Jobs, Placed, Chained
    <3> QED
      BY <3>1, <3>2, KeptIsNotOutdated DEF Typed
  <2> HIDE DEF write
  <2>6. ASSUME NEW t \in Tables, Has(r, t)
        PROVE  table'[t][r] = IF t \in X /\ write.op = "add" /\ r \in tail[1].rows THEN table[t][r] + 1 ELSE table[t][r]
    BY <1>2, <2>3, <2>4, <2>5, <2>6, WrittenIs
  <2>7. write.op = "add" => ("request" \in X <=> "upstream" \in X)
    BY <2>3, <2>4 DEF Adds
  <2> QED
    BY <1>1, <1>3, <2>6, <2>7
<1> QED
  BY <1>4, <1>5, CalmSteps

LEMMA TogetherStep ==
  ASSUME Typed, Placed, Snaps, [Next]_vars
  PROVE  Together'
<1>0. SUFFICES ASSUME case'.backend = "sqlite" PROVE Together'
  BY DEF Together
<1>1. case' = case /\ case.backend = "sqlite" /\ Together
  BY <1>0, MinutesStep DEF Snaps
<1>2. \A r \in Kept' : Shape[r].attempts # {} => table'["request"][r] = table'["upstream"][r]
  BY <1>1, TogetherWritten
<1>3. \A r \in Kept' : (r \in Recorded => r \in Kept) /\ r \in Requests
  BY RecordedStep DEF Kept
<1>4. "read" \in SnapStages /\ "flushed" \in SnapStages /\ "request" \in Tables /\ "upstream" \in Tables
  BY DEF SnapStages, Tables
<1>5. ASSUME NEW p \in Requests
      PROVE  /\ snap'[p].stage = "read" => snap'[p].left = Tables
             /\ snap'[p].stage = "done" => \A q \in Kept' :
                  Shape[q].attempts # {} => (q \in snap'[p].seen["request"] <=> q \in snap'[p].seen["upstream"])
  <2>1. CASE Unmoved(p)
    <3>1. snap'[p] = snap[p]
      BY <2>1 DEF Unmoved
    <3>2. snap[p].seen["request"] \subseteq Recorded /\ snap[p].seen["upstream"] \subseteq Recorded
      BY <1>4 DEF Typed
    <3> QED
      BY <1>1, <1>3, <3>1, <3>2 DEF Together
  <2>2. CASE snap'[p] = NoSnapshot \/ Fails(p)
    <3>1. snap'[p].stage \in {"none", "failed"}
      BY <2>2, FailsOf DEF NoSnapshot
    <3> QED
      BY <3>1
  <2>3. CASE p \in Snapshots /\ Snapshot(p)
    <3>1. snap'[p].stage \in {"failed", "flush", "flushed"}
      BY <2>3, Begun
    <3> QED
      BY <3>1
  <2>4. CASE Metrics /\ CaptureForSnapshot(p) /\ ~beats.broken
    <3>1. snap'[p].stage = "beat"
      BY <2>4, CapturedOf
    <3> QED
      BY <3>1
  <2>5. CASE Metrics /\ SnapshotRead(p)
    <3>1. PICK T \in SUBSET snap[p].left :
            /\ T = snap[p].left
            /\ \A t \in Tables : snap'[p].seen[t] = IF t \in T THEN Visible(p, t) ELSE snap[p].seen[t]
            /\ snap'[p].stage = IF snap[p].left = T THEN "done" ELSE "read"
            /\ snap[p].stage = "read"
      BY <1>1, <2>5, ReadOf
    <3>2. snap[p].left = Tables
      BY <1>1, <3>1 DEF Together
    <3>3. snap'[p].seen["request"] = Visible(p, "request") /\ snap'[p].seen["upstream"] = Visible(p, "upstream")
      BY <1>4, <3>1, <3>2
    <3>4. minute' = minute /\ now' = now
      BY <2>5 DEF SnapshotRead, Metrics
    <3>5. Kept' = Kept
      BY <3>4, RecordedStep
    <3>6. \A q \in Kept : Shape[q].attempts # {} => table["request"][q] = table["upstream"][q]
      BY <1>1 DEF Together
    <3> QED
      BY <3>1, <3>3, <3>5, <3>6 DEF Visible
  <2>6. CASE Metrics /\ StoreWrite /\ Ends /\ Told(p, "flush", "flushed")
    <3>1. snap'[p].stage \in {"flush", "flushed"}
      BY <1>4, <2>6, ToldOf
    <3> QED
      BY <3>1
  <2>7. CASE Metrics /\ SampleWrite /\ Told(p, "beat", "read")
    <3>1. snap'[p].stage \in {"beat", "read"} /\ snap'[p].left = snap[p].left /\ snap[p].stage = "beat"
      BY <1>4, <2>7, ToldOf DEF Told
    <3> QED
      BY <3>1 DEF Snaps, Asked
  <2> QED
    BY <2>1, <2>2, <2>3, <2>4, <2>5, <2>6, <2>7, SnapMoves
<1> QED
  BY <1>2, <1>5 DEF Together

LEMMA SnapsStep ==
  ASSUME Typed, Placed, Snaps, [Next]_vars
  PROVE  Snaps'
<1>1. \A p \in Requests : Asked(p)'
  BY AskedStep DEF Snaps
<1> QED
  BY <1>1, TogetherStep DEF Snaps

-----------------------------------------------------------------------------
(* Closing *)

\* close() waits for the jobs that were ahead of it.
LEMMA AwaitingFlush ==
  ASSUME Typed, Placed, Closing, [Next]_vars, Metrics, closing = "flush", ~closer'.rejected
  PROVE  Safe(closer'.due, closer'.ahead, tail', table', Kept')
<1>1. PICK c \in [ahead : Nat, rejected : BOOLEAN, due : SUBSET Requests] : c = closer
  BY DEF Typed
<1>2. /\ closer' = Awaiting /\ now' = now /\ closing' = closing
      /\ c.due \in SUBSET Recorded /\ tail \in Seq(Jobs) /\ tail' \in Seq(Jobs)
  BY <1>1, PlacedStep DEF Metrics, Typed, Placed, Chained
<1>3. Len(tail) \in Nat /\ Len(tail') \in Nat /\ DOMAIN tail = 1..Len(tail) /\ DOMAIN tail' = 1..Len(tail')
  BY <1>2, LenProperties
<1>4. closer' = IF Len(tail') < Len(tail) /\ c.ahead > 0
                THEN [c EXCEPT !.ahead = c.ahead - 1, !.rejected = broken'] ELSE c
  BY <1>1, <1>2 DEF Awaiting
<1>5. CASE ~(Len(tail') < Len(tail) /\ c.ahead > 0)
  <2>1. closer' = c /\ ~closer.rejected
    BY <1>1, <1>4, <1>5
  <2>2. Safe(c.due, c.ahead, tail, table, Kept)
    BY <1>1, <2>1 DEF Closing
  <2>3. CASE Calm
    BY <1>2, <2>1, <2>2, <2>3, SafeCalm
  <2>4. CASE c.ahead = 0
    BY <1>2, <2>1, <2>2, <2>4, InTablesStays DEF InTables
  <2>5. CASE StoreWrite /\ ~(Len(tail') < Len(tail))
    <3>1. tail' = After /\ tail # <<>>
      BY <2>5, Writing
    <3>2. ~Ends
      <4>1. Ends => Len(tail') = Len(tail) - 1
        BY <1>2, <3>1, ChainHead
      <4>2. Len(tail') = Len(tail) - 1 => Len(tail') < Len(tail)
        BY <1>3
      <4> QED
        BY <2>5, <4>1, <4>2
    <3>3. Left(c.ahead) = c.ahead
      BY <3>2 DEF Left
    <3>4. Safe(c.due, Left(c.ahead), tail', table', Kept')
      BY <1>2, <2>2, <2>5, SafeWrite
    <3> QED
      BY <2>1, <3>3, <3>4
  <2>6. StoreReject => Len(tail') < Len(tail)
    <3>1. StoreReject => tail' = <<>> /\ tail # <<>>
      BY Writing
    <3>2. tail # <<>> => Len(tail) # 0
      BY <1>2, EmptySeq
    <3>3. Len(<<>>) = 0
      BY EmptySeq
    <3> QED
      BY <1>3, <3>1, <3>2, <3>3
  <2>7. c.ahead \in Nat
    BY <1>1
  <2> QED
    BY <1>5, <2>3, <2>4, <2>5, <2>6, <2>7, CalmSteps
<1>6. CASE Len(tail') < Len(tail) /\ c.ahead > 0
  <2>1. closer' = [c EXCEPT !.ahead = c.ahead - 1, !.rejected = broken']
    BY <1>4, <1>6
  <2>2. closer'.due = c.due /\ closer'.ahead = c.ahead - 1 /\ ~broken'
    BY <1>1, <2>1
  <2>3. ~Calm
    <3>1. Calm => \A i \in DOMAIN tail : i \in DOMAIN tail'
      BY CalmChain
    <3> QED
      BY SMTT(30), <1>3, <1>6, <3>1
  <2>4. ~StoreReject
    BY <2>2, Writing
  <2>5. StoreWrite
    BY <2>3, <2>4, CalmSteps
  <2>6. broken' = broken
    BY <2>5, Writing
  <2>7. Safe(c.due, c.ahead, tail, table, Kept)
    BY <1>1, <2>2, <2>6 DEF Closing
  <2>8. Ends
    <3>1. tail' = After /\ tail # <<>>
      BY <2>5, Writing
    <3>2. ~Ends => Len(tail') = Len(tail)
      BY <1>2, <3>1, ChainHead
    <3>3. Len(tail') = Len(tail) => ~(Len(tail') < Len(tail))
      BY <1>3
    <3> QED
      BY <1>6, <3>2, <3>3
  <2>9. Safe(c.due, Left(c.ahead), tail', table', Kept') /\ c.ahead \in Nat
    BY <1>1, <1>2, <2>5, <2>7, SafeWrite
  <2>10. Left(c.ahead) = c.ahead - 1
    BY <1>6, <2>8 DEF Left
  <2> QED
    BY <2>2, <2>9, <2>10
<1> QED
  BY <1>5, <1>6

LEMMA ClosingStep ==
  ASSUME Typed, Placed, Closing, [Next]_vars
  PROVE  Closing'
<1>1. PICK c \in [ahead : Nat, rejected : BOOLEAN, due : SUBSET Requests] : c = closer
  BY DEF Typed
<1>2. c.due \in SUBSET Recorded /\ Placed'
  BY <1>1, PlacedStep DEF Typed
<1>3. ASSUME InTables(c.due) PROVE Safe(c.due, 0, tail', table', Kept')
  BY <1>2, <1>3, InTablesStays
<1>4. broken => broken'
  BY ChainSteps DEF Still, Recorded1, Flush, Flushed, StoreWrite, StoreReject
<1>5. CASE UNCHANGED <<closing, closer, storeOpen>> /\ ~Metrics
  <2>1. closing = "flush" /\ ~closer.rejected => Safe(c.due, c.ahead, tail', table', Kept')
    BY <1>1, <1>2, <1>5, CalmSteps, SafeCalm DEF Closing
  <2> QED
    BY <1>1, <1>3, <1>4, <1>5, <2>1 DEF Closing, InTables
<1>6. CASE Close /\ UNCHANGED <<closer, storeOpen>>
  BY <1>6 DEF Close, Closing
<1>7. CASE Drained
  <2>1. /\ closing' = "flush" /\ closer' = [ahead |-> Len(tail'), rejected |-> broken, due |-> Recorded]
        /\ buffer' = {} /\ broken' = broken /\ minute' = minute /\ storeOpen' = storeOpen /\ closing = "closing"
    BY <1>7 DEF Drained, Flush
  <2>2. Recorded' = Recorded
    BY <2>1, RecordedStep
  <2>3. ~broken => Safe(Recorded, Len(tail'), tail', table', Kept')
    BY <1>2, <2>1, <2>2, FlushedIsSafe
  <2> QED
    BY <2>1, <2>3 DEF Closing
<1>8. CASE CloseNext
  <2>1. /\ closing \in {"flush", "beat", "store", "others"} /\ closing' = AfterStep(closing)
        /\ c.ahead = 0 /\ ~c.rejected /\ storeOpen' = (storeOpen /\ closing # "store")
    BY <1>1, <1>8, CloseOrder DEF CloseNext
  <2>2. closer'.due = c.due
    <3>1. closer' = [c EXCEPT !.ahead = beats.queue, !.rejected = beats.broken] \/ closer' = c
      BY <1>1, <1>8 DEF CloseNext
    <3> QED
      BY <3>1
  <2>3. InTables(c.due)
    BY <1>1, <2>1 DEF Closing, InTables
  <2>4. Safe(closer'.due, 0, tail', table', Kept')
    BY <1>3, <2>2, <2>3
  <2>5. /\ closing' \in {"beat", "store", "others", "closed"}
        /\ storeOpen' \/ closing' \in {"others", "closed"}
    BY <2>1, CloseOrder DEF Closing
  <2>6. closing' # "flush"
    BY <2>5
  <2> QED
    BY <2>4, <2>5, <2>6 DEF Closing, InTables
<1>9. CASE Metrics /\ UNCHANGED <<closing, storeOpen>>
  <2>1. closing' = "flush" /\ ~closer'.rejected => Safe(closer'.due, closer'.ahead, tail', table', Kept')
    BY <1>9, AwaitingFlush
  <2>2. PICK a, x : /\ closer' = c \/ closer' = [c EXCEPT !.ahead = a, !.rejected = x]
                    /\ closing = "flush" => x = broken'
    BY <1>1, <1>9 DEF Metrics, Awaiting
  <2>3. closer'.due = c.due /\ (closer'.rejected = c.rejected \/ closer'.rejected = x)
    BY <1>1, <2>2
  <2>4. closing' \in {"beat", "store", "others", "closed"} => Safe(closer'.due, 0, tail', table', Kept')
    BY <1>1, <1>3, <1>9, <2>3 DEF Closing
  <2>5. closing' = "flush" /\ closer'.rejected => broken'
    <3>1. CASE closer'.rejected = c.rejected
      BY <1>1, <1>4, <1>9, <3>1 DEF Closing
    <3>2. CASE closer'.rejected = x
      BY <1>9, <2>2, <3>2
    <3> QED
      BY <2>3, <3>1, <3>2
  <2>6. storeOpen' \/ closing' \in {"others", "closed"}
    BY <1>9 DEF Closing
  <2> QED
    BY <2>1, <2>4, <2>5, <2>6 DEF Closing, InTables
<1> QED
  BY <1>5, <1>6, <1>7, <1>8, <1>9, CloseMoves

-----------------------------------------------------------------------------
(* The invariant *)

LEMMA InitInv == Init => Inv
<1> SUFFICES ASSUME Init PROVE Inv
  OBVIOUS
<1>1. /\ now = Start /\ case \in Cases /\ Start \in Nat /\ case.until \in Nat /\ Start <= case.until
      /\ MaxPerSecond \in Nat /\ Maximum \in Nat /\ CleanEvery \in Nat /\ Minute \in Nat \ {0}
  BY MetricsAssumption, ServiceAssumption DEF Init
<1>2. Unrecorded \in Int /\ Never \in Int /\ Never <= now
  BY <1>1 DEF Unrecorded, Never
<1>3. minute = [r \in Requests |-> Unrecorded] /\ Recorded = {} /\ Kept = {}
  BY DEF Init, InitMetrics, Recorded, Kept
<1>4. snap = [r \in Requests |-> NoSnapshot] /\ snap \in [Requests -> SnapStates]
  BY <1>2 DEF Init, InitMetrics, NoSnapshot, SnapStates, SnapStages
<1>5. \A r \in Requests : /\ snap[r].stage = "none" /\ snap[r].due = {} /\ snap[r].began = 0
                          /\ \A t \in Tables : snap[r].seen[t] = {}
  BY <1>4 DEF NoSnapshot
<1>6. pc \in [Requests -> {"new", "absent"}] /\ Handlers = {} /\ present = {}
  BY DEF Init, Handlers, Running
<1>7. /\ closing = "open" /\ exit = "running" /\ closer = [ahead |-> 0, rejected |-> FALSE, due |-> {}]
      /\ broken = FALSE /\ storeOpen = TRUE /\ beats = [queue |-> 1, broken |-> FALSE]
      /\ buffer = {} /\ tail = <<>> /\ sample = Never
      /\ table = [t \in Tables |-> [r \in Requests |-> 0]]
      /\ window = [at |-> Start, requests |-> 0] /\ active = 0 /\ letIn = 0
  BY DEF Init, InitMetrics
<1>8. Typed
  <2>1. IsFiniteSet(Recorded)
    BY <1>3, FS_EmptySet
  <2>2. /\ pc \in [Requests -> Running \cup {"new", "absent", "answered"}]
        /\ closing \in Stages /\ exit \in Exits
    BY <1>6, <1>7 DEF Stages, Exits
  <2>3. minute \in [Requests -> Int] /\ \A r \in Requests : minute[r] = Unrecorded
    BY <1>2, <1>3
  <2>4. now \in Nat /\ now \in Start..case.until /\ 0 <= now
    BY <1>1
  <2>5. /\ beats \in [queue : Nat, broken : BOOLEAN] /\ broken \in BOOLEAN /\ storeOpen \in BOOLEAN
        /\ closer \in [ahead : Nat, rejected : BOOLEAN, due : SUBSET Requests] /\ closer.due = {}
    BY <1>7
  <2> QED
    BY <1>1, <1>2, <1>4, <1>5, <1>6, <1>7, <2>1, <2>2, <2>3, <2>4, <2>5 DEF Typed
<1>9. Placed
  BY <1>3, <1>7 DEF Placed, Chained
<1>10. Limiting
  <2>1. IsFiniteSet(Handlers) /\ Cardinality(Handlers) = 0
    BY <1>6, FS_EmptySet
  <2>2. window \in [at : Int, requests : 0..MaxPerSecond] /\ window.at = now /\ window.requests = 0
    BY <1>1, <1>7
  <2> QED
    BY <1>1, <1>7, <2>1, <2>2 DEF Limiting
<1>11. Snaps
  BY <1>3, <1>5 DEF Snaps, Asked, Together
<1>12. Closing
  BY <1>7 DEF Closing
<1> QED
  BY <1>8, <1>9, <1>10, <1>11, <1>12 DEF Inv

LEMMA InvStep == Inv /\ [Next]_vars => Inv'
BY TypedStep, PlacedStep, LimitingStep, SnapsStep, ClosingStep DEF Inv

LEMMA InvHolds == Spec => []Inv
BY InitInv, InvStep, PTL DEF Spec

\* The server serves no more requests than it has slots, a slot is held by each
\* request being served and by nothing else, and no second lets in more than it may.
THEOREM LimitsAreKept == Spec => []LimitsHold
<1>1. Inv => TypeOK
  <2> SUFFICES ASSUME Inv PROVE TypeOK
    OBVIOUS
  <2>1. active \in 0..Maximum
    <3>1. active \in Nat /\ active <= Maximum
      BY FS_CardinalityType DEF Inv, Limiting
    <3> QED
      BY <3>1, ServiceAssumption
  <2>2. window.requests \in 0..MaxPerSecond
    BY DEF Inv, Limiting
  <2>3. buffer \subseteq Requests /\ table \in [Tables -> [Requests -> Nat]]
    <3>1. buffer \subseteq Requests /\ table \in [Tables -> [Requests -> {0, 1}]]
      BY DEF Inv, Placed, Chained
    <3>2. {0, 1} \subseteq Nat
      OBVIOUS
    <3> QED
      BY <3>1, <3>2
  <2>4. \A i \in DOMAIN tail : tail[i].rows \subseteq Requests /\ tail[i].todo # <<>>
    <3>1. tail \in Seq(Jobs)
      BY DEF Inv, Placed, Chained
    <3>2. \A i \in DOMAIN tail : tail[i] \in Jobs
      BY <3>1, ElementOfSeq, LenProperties
    <3> QED
      BY <3>2 DEF Jobs
  <2>5. \A r \in Requests : /\ snap[r].stage = "flush" => snap[r].ahead <= Len(tail)
                            /\ snap[r].stage = "beat" => snap[r].ahead <= beats.queue
    BY DEF Inv, Typed
  <2> QED
    BY <2>1, <2>2, <2>3, <2>4, <2>5 DEF Inv, Typed, TypeOK
<1>2. Inv => SlotsAccounted
  BY DEF Inv, Limiting, SlotsAccounted
<1>3. Inv => SecondBounded
  <2> SUFFICES ASSUME Inv PROVE letIn <= MaxPerSecond
    BY DEF SecondBounded
  <2>1. window.requests \in 0..MaxPerSecond /\ letIn \in Nat /\ letIn <= IF window.at = now THEN window.requests ELSE 0
    BY DEF Inv, Limiting
  <2> QED
    BY <2>1, ServiceAssumption
<1>4. Inv => LimitsHold
  BY <1>1, <1>2, <1>3 DEF LimitsHold
<1> QED
  BY <1>4, InvHolds, PTL

\* The store is closed only when all that was recorded before the last flush is in
\* its tables.
THEOREM FlushedBeforeClosed == Spec => []WrittenBeforeClosed
<1>1. Inv => WrittenBeforeClosed
  <2> SUFFICES ASSUME Inv, ~storeOpen, NEW r \in closer.due, NEW t \in Tables, Has(r, t), minute[r] >= now - Retention
               PROVE  table[t][r] = 1
    BY DEF WrittenBeforeClosed
  <2>1. r \in closer.due \cap Kept
    BY DEF Inv, Typed, Kept
  <2>2. Safe(closer.due, 0, tail, table, Kept)
    BY DEF Inv, Closing, InTables
  <2>3. tail \in Seq(Jobs)
    BY DEF Inv, Placed, Chained
  <2>4. \A i \in DOMAIN tail : ~(i <= 0)
    BY <2>3, LenProperties
  <2> QED
    BY <2>1, <2>2, <2>4 DEF Safe
<1> QED
  BY <1>1, InvHolds, PTL

\* A recorded request is in one place: the buffer, one job of the chain, or the
\* table; it is never counted twice, and while no write has rejected it is not lost.
THEOREM CountsOnce == Spec => []CountedOnce
<1>1. ASSUME Inv, NEW r \in Recorded, NEW t \in Tables, Has(r, t)
      PROVE  /\ Places(r, t) <= 1
             /\ broken \/ minute[r] < now - Retention \/ Places(r, t) = 1
  <2> DEFINE W == {i \in DOMAIN tail : Pending(tail[i], r, t)}
             w == Waiting(r, t)
             b == IF r \in buffer THEN 1 ELSE 0
  <2>1. r \in Requests /\ table[t][r] \in {0, 1}
    BY <1>1 DEF Inv, Placed, Chained, Recorded
  <2>2. w = Cardinality(W)
    BY DEF Waiting, Pending, Will, Adds
  <2>3. \A i \in W : r \notin buffer /\ table[t][r] = 0 /\ \A j \in W : i = j
    BY <1>1, <2>1 DEF Inv, Placed, Chained
  <2>4. table[t][r] = 1 => r \notin buffer
    BY <1>1, <2>1 DEF Inv, Placed, Chained
  <2>5. W = {} => w = 0
    BY <2>2, FS_EmptySet
  <2>6. W # {} => w = 1
    <3>1. ASSUME W # {} PROVE w = 1
      <4>1. PICK i : W = {i}
        BY <2>3, <3>1
      <4> HIDE DEF W
      <4> QED
        BY <2>2, <4>1, FS_Singleton
    <3> QED
      BY <3>1
  <2>7. broken \/ minute[r] < now - Retention \/ r \in buffer \/ table[t][r] = 1 \/ W # {}
    <3>1. minute[r] \in Int /\ now \in Int /\ Retention \in Int
      BY <1>1, <2>1, MetricsAssumption DEF Inv, Typed
    <3>2. minute[r] < now - Retention \/ r \in Kept
      BY <1>1, <3>1 DEF Kept
    <3> QED
      BY <1>1, <3>2 DEF Inv, Placed, Chained
  <2>8. Places(r, t) = b + w + table[t][r]
    BY DEF Places
  <2>9. CASE W # {}
    BY <2>3, <2>6, <2>8, <2>9
  <2>10. CASE W = {}
    BY <2>1, <2>4, <2>5, <2>7, <2>8, <2>10
  <2> QED
    BY <2>9, <2>10
<1>2. Inv => CountedOnce
  BY <1>1 DEF CountedOnce
<1> QED
  BY <1>2, InvHolds, PTL

-----------------------------------------------------------------------------
(* What a snapshot answers *)

LEMMA CompleteHolds == Inv => SnapshotComplete
<1> SUFFICES ASSUME Inv, NEW r \in Snapshots, snap[r].stage = "done"
             PROVE  /\ \A t \in Tables : \A q \in snap[r].due :
                         Has(q, t) /\ minute[q] >= snap[r].began - Window /\ minute[q] >= now - Retention
                           => q \in snap[r].seen[t]
                    /\ snap[r].beat >= snap[r].began
  BY DEF SnapshotComplete
<1>1. r \in Requests /\ "request" \in Tables
  BY ServiceAssumption DEF Tables
<1>2. Asked(r)
  BY <1>1 DEF Inv, Snaps
<1> QED
  BY <1>1, <1>2 DEF Asked

\* Three sets that have nothing in common.
LEMMA ThreeOf ==
  ASSUME NEW A, IsFiniteSet(A), NEW X, X \subseteq A, NEW Y, Y \subseteq A, NEW Z, Z \subseteq A,
         X \cap Y = {}, X \cap Z = {}, Y \cap Z = {}
  PROVE  /\ Cardinality(A) \in Nat /\ Cardinality(X) \in Nat /\ Cardinality(Y) \in Nat /\ Cardinality(Z) \in Nat
         /\ Cardinality(X) + Cardinality(Y) + Cardinality(Z) <= Cardinality(A)
         /\ A = X \cup Y \cup Z => Cardinality(X) + Cardinality(Y) + Cardinality(Z) = Cardinality(A)
<1>1. IsFiniteSet(X) /\ IsFiniteSet(Y) /\ IsFiniteSet(Z)
  BY FS_Subset
<1>2. Cardinality({}) = 0
  BY FS_EmptySet
<1>3. IsFiniteSet(X \cup Y) /\ Cardinality(X \cup Y) = Cardinality(X) + Cardinality(Y) - Cardinality(X \cap Y)
  BY <1>1, FS_Union
<1>4. /\ IsFiniteSet((X \cup Y) \cup Z)
      /\ Cardinality((X \cup Y) \cup Z) = Cardinality(X \cup Y) + Cardinality(Z) - Cardinality((X \cup Y) \cap Z)
  BY <1>1, <1>3, FS_Union
<1>5. X \cap Y = {} /\ (X \cup Y) \cap Z = {} /\ (X \cup Y) \cup Z \in SUBSET A
  OBVIOUS
<1>6. Cardinality((X \cup Y) \cup Z) <= Cardinality(A)
  BY <1>5, FS_Subset
<1>7. /\ Cardinality(A) \in Nat /\ Cardinality(X) \in Nat /\ Cardinality(Y) \in Nat /\ Cardinality(Z) \in Nat
      /\ Cardinality(X \cup Y) \in Nat
  BY <1>1, <1>3, FS_CardinalityType
<1>8. Cardinality(X \cap Y) = 0 /\ Cardinality((X \cup Y) \cap Z) = 0
  BY <1>2, <1>5, Zenon
<1>9. Cardinality((X \cup Y) \cup Z) = Cardinality(X) + Cardinality(Y) + Cardinality(Z)
  BY <1>3, <1>4, <1>7, <1>8
<1>10. A = X \cup Y \cup Z => Cardinality((X \cup Y) \cup Z) = Cardinality(A)
  OBVIOUS
<1> QED
  BY <1>6, <1>7, <1>9, <1>10

\* The attempts of finitely many requests, told apart by their requests.
LEMMA AttemptsOf ==
  ASSUME NEW S \in SUBSET Requests, IsFiniteSet(S)
  PROVE  /\ IsFiniteSet(Attempts(S))
         /\ \A x \in Attempts(S) : x[1] \in S /\ x[2] \in Shape[x[1]].attempts
<1> DEFINE parts == {{r} \X Shape[r].attempts : r \in S}
           part == [r \in S |-> {r} \X Shape[r].attempts]
<1>1. part \in Surjection(S, parts)
  BY DEF Surjection
<1>2. IsFiniteSet(parts)
  BY <1>1, FS_Surjection
<1>3. \A r \in S : IsFiniteSet({r} \X Shape[r].attempts)
  BY FS_Singleton, FS_Product, MetricsAssumption
<1>4. IsFiniteSet(UNION parts)
  BY <1>2, <1>3, FS_UNION
<1>5. \A x \in Attempts(S) : x[1] \in S /\ x[2] \in Shape[x[1]].attempts
  BY DEF Attempts
<1> QED
  BY <1>4, <1>5 DEF Attempts

\* Both tables tell the attempts that succeeded, or found nothing, from the others.
LEMMA OutcomesAgree ==
  ASSUME NEW a
  PROVE  /\ UpstreamOutcome(a) \in {"success", "not_found", "failure"}
         /\ UpstreamOutcome(a) \in {"success", "not_found"} <=> DetailedOutcome(a) \in {"success", "not_found"}
<1>1. CASE a.outcome \in {"success", "not_found"}
  BY ZenonT(30), <1>1 DEF UpstreamOutcome, DetailedOutcome
<1>2. CASE a.outcome = "" /\ a.status = 404
  BY <1>2 DEF UpstreamOutcome, DetailedOutcome
<1>3. CASE a.outcome = "" /\ a.status \in 200..399
  BY ZenonT(30), <1>3 DEF UpstreamOutcome, DetailedOutcome
<1>4. CASE a.outcome = "" /\ a.status # 404 /\ a.status \notin 200..399
  <2>1. UpstreamOutcome(a) = "failure"
    BY <1>4 DEF UpstreamOutcome
  <2>2. DetailedOutcome(a) \in {"http", "unknown"}
    BY ZenonT(30), <1>4 DEF DetailedOutcome
  <2> QED
    BY <2>1, <2>2
<1>5. CASE a.outcome \notin {"success", "not_found", ""}
  BY <1>5 DEF UpstreamOutcome, DetailedOutcome
<1> QED
  BY <1>1, <1>2, <1>3, <1>4, <1>5

\* Each attempt of the upstreams' rows has one outcome.
LEMMA HostsOf ==
  ASSUME NEW seen, seen["upstream"] \in SUBSET Requests, IsFiniteSet(seen["upstream"])
  PROVE  LET hosts == UpstreamByHost(seen, "success") + UpstreamByHost(seen, "not_found")
                        + UpstreamByHost(seen, "failure")
         IN /\ hosts = Cardinality(Attempts(seen["upstream"])) /\ hosts \in Nat
            /\ \A o \in {"success", "not_found", "failure"} : UpstreamByHost(seen, o) \in Nat
<1> DEFINE A == Attempts(seen["upstream"])
           X == {x \in A : UpstreamOutcome(x[2]) = "success"}
           Y == {x \in A : UpstreamOutcome(x[2]) = "not_found"}
           Z == {x \in A : UpstreamOutcome(x[2]) = "failure"}
<1>1. /\ UpstreamByHost(seen, "success") = Cardinality(X)
      /\ UpstreamByHost(seen, "not_found") = Cardinality(Y)
      /\ UpstreamByHost(seen, "failure") = Cardinality(Z)
  BY DEF UpstreamByHost, Count
<1>2. IsFiniteSet(A)
  BY AttemptsOf
<1>3. /\ X \subseteq A /\ Y \subseteq A /\ Z \subseteq A
      /\ X \cap Y = {} /\ X \cap Z = {} /\ Y \cap Z = {}
  OBVIOUS
<1>4. A = X \cup Y \cup Z
  <2>1. \A x \in A : UpstreamOutcome(x[2]) \in {"success", "not_found", "failure"}
    BY OutcomesAgree
  <2> HIDE DEF A
  <2> QED
    BY <2>1
<1> HIDE DEF A, X, Y, Z
<1>5. Cardinality(A) \in Nat /\ Cardinality(X) \in Nat /\ Cardinality(Y) \in Nat /\ Cardinality(Z) \in Nat
  <2>1. IsFiniteSet(X) /\ IsFiniteSet(Y) /\ IsFiniteSet(Z)
    BY <1>2, <1>3, FS_Subset
  <2> QED
    BY <1>2, <2>1, FS_CardinalityType
<1>6. A = X \cup Y \cup Z => Cardinality(X) + Cardinality(Y) + Cardinality(Z) = Cardinality(A)
  BY <1>2, <1>3, ThreeOf
<1> QED
  BY <1>1, <1>4, <1>5, <1>6 DEF A

\* The requests' own rows: their errors, their hits and their attempts.
LEMMA SummaryOf ==
  ASSUME NEW seen, seen["request"] \in SUBSET Requests, IsFiniteSet(seen["request"])
  PROVE  /\ Summary(seen).errors + Summary(seen).clientErrors <= Summary(seen).requests
         /\ Summary(seen).hits <= Summary(seen).upstreamRequests
         /\ Summary(seen).fanOut = Cardinality(Attempts(seen["request"]))
<1> DEFINE R == seen["request"]
           X == {r \in R : Shape[r].status >= 500}
           Y == {r \in R : Shape[r].status \in 400..499}
           H == {r \in R : Shape[r].hit}
           U == {r \in R : Shape[r].attempts # {}}
<1>1. /\ Summary(seen).requests = Cardinality(R) /\ Summary(seen).errors = Cardinality(X)
      /\ Summary(seen).clientErrors = Cardinality(Y) /\ Summary(seen).hits = Cardinality(H)
      /\ Summary(seen).upstreamRequests = Cardinality(U)
  BY DEF Summary
<1>2. Summary(seen).fanOut = Cardinality(Attempts(R))
  <2>1. Summary(seen).fanOut = Cardinality({x \in Attempts(R) : TRUE})
    BY DEF Summary, Count
  <2>2. {x \in Attempts(R) : TRUE} = Attempts(R)
    OBVIOUS
  <2> QED
    BY <2>1, <2>2, Zenon
<1>3. IsFiniteSet(X) /\ IsFiniteSet(Y) /\ IsFiniteSet(U) /\ X \subseteq R /\ Y \subseteq R
  BY FS_Subset
<1>4. X \cap Y = {}
  <2>1. \A r \in R : Shape[r].status \in Nat
    BY MetricsAssumption
  <2>2. \A n \in Nat : ~(n >= 500 /\ n \in 400..499)
    OBVIOUS
  <2> QED
    BY <2>1, <2>2
<1>5. H \in SUBSET U
  BY MetricsAssumption
<1> HIDE DEF R, X, Y, H, U
<1>6. Cardinality(H) <= Cardinality(U)
  BY <1>3, <1>5, FS_Subset
<1>7. Cardinality(X) + Cardinality(Y) <= Cardinality(R)
  <2>1. Cardinality(X \cup Y) = Cardinality(X) + Cardinality(Y) - Cardinality(X \cap Y)
    BY <1>3, FS_Union
  <2>2. Cardinality(X \cap Y) = 0
    BY <1>4, FS_EmptySet, Zenon
  <2>3. Cardinality(X \cup Y) <= Cardinality(R)
    <3>1. X \cup Y \in SUBSET R /\ IsFiniteSet(R)
      BY <1>3 DEF R
    <3> QED
      BY <3>1, FS_Subset
  <2>4. Cardinality(X) \in Nat /\ Cardinality(Y) \in Nat
    BY <1>3, FS_CardinalityType
  <2> QED
    BY <2>1, <2>2, <2>3, <2>4
<1> QED
  BY <1>1, <1>2, <1>6, <1>7 DEF R

\* The providers' rows of the same requests: what failed there, and what the cache was.
LEMMA ProvidersOf ==
  ASSUME NEW seen, seen["upstream"] \in SUBSET Requests, IsFiniteSet(seen["upstream"]),
         seen["upstream"] = seen["provider"]
  PROVE  LET all == Cardinality(Attempts(seen["upstream"]))
         IN /\ UpstreamByHost(seen, "failure") = all - AggregateProviders(seen, {"success", "not_found"})
            /\ AggregateCache(seen, "fresh") + AggregateCache(seen, "stale") + AggregateCache(seen, "miss") <= all
<1> DEFINE A == Attempts(seen["upstream"])
           F == {x \in A : UpstreamOutcome(x[2]) = "failure"}
           G == {x \in A : DetailedOutcome(x[2]) \in {"success", "not_found"}}
           X == {x \in A : x[2].cache = "fresh"}
           Y == {x \in A : x[2].cache = "stale"}
           Z == {x \in A : x[2].cache = "miss"}
<1>1. /\ UpstreamByHost(seen, "failure") = Cardinality(F)
      /\ AggregateProviders(seen, {"success", "not_found"}) = Cardinality(G)
      /\ AggregateCache(seen, "fresh") = Cardinality(X)
      /\ AggregateCache(seen, "stale") = Cardinality(Y)
      /\ AggregateCache(seen, "miss") = Cardinality(Z)
  BY DEF UpstreamByHost, AggregateProviders, AggregateCache, Count
<1>2. IsFiniteSet(A)
  BY AttemptsOf
<1>3. F \subseteq A /\ G \subseteq A /\ F \cap G = {} /\ A = F \cup G
  <2>1. \A x \in A : UpstreamOutcome(x[2]) = "failure" <=> ~(DetailedOutcome(x[2]) \in {"success", "not_found"})
    BY OutcomesAgree
  <2> HIDE DEF A
  <2> QED
    BY <2>1
<1>4. /\ X \subseteq A /\ Y \subseteq A /\ Z \subseteq A
      /\ X \cap Y = {} /\ X \cap Z = {} /\ Y \cap Z = {}
  OBVIOUS
<1> HIDE DEF A, F, G, X, Y, Z
<1>5. Cardinality(F) = Cardinality(A) - Cardinality(G)
  <2>1. IsFiniteSet(F) /\ IsFiniteSet(G)
    BY <1>2, <1>3, FS_Subset
  <2>2. Cardinality(F \cup G) = Cardinality(F) + Cardinality(G) - Cardinality(F \cap G)
    BY <2>1, FS_Union
  <2>3. Cardinality(F \cap G) = 0 /\ Cardinality(F \cup G) = Cardinality(A)
    BY <1>3, FS_EmptySet, Zenon
  <2>4. Cardinality(F) \in Nat /\ Cardinality(G) \in Nat
    BY <2>1, FS_CardinalityType
  <2> QED
    BY <2>2, <2>3, <2>4
<1>6. Cardinality(X) + Cardinality(Y) + Cardinality(Z) <= Cardinality(A)
  BY <1>2, <1>4, ThreeOf
<1> QED
  BY <1>1, <1>5, <1>6 DEF A

LEMMA PartsHold == Inv => PartsAgree
<1> SUFFICES ASSUME Inv, NEW r \in Snapshots, snap[r].stage = "done", NEW seen, seen = snap[r].seen
             PROVE  LET kept == \A t \in Tables : \A q \in seen[t] : minute[q] >= now - Retention
                        hosts == UpstreamByHost(seen, "success") + UpstreamByHost(seen, "not_found")
                                   + UpstreamByHost(seen, "failure")
                    IN /\ case.backend = "sqlite" /\ kept => Summary(seen).fanOut = hosts
                       /\ Summary(seen).errors + Summary(seen).clientErrors <= Summary(seen).requests
                       /\ Summary(seen).hits <= Summary(seen).upstreamRequests
                       /\ seen["upstream"] = seen["provider"] =>
                            /\ UpstreamByHost(seen, "failure")
                                 = hosts - AggregateProviders(seen, {"success", "not_found"})
                            /\ AggregateCache(seen, "fresh") + AggregateCache(seen, "stale")
                                 + AggregateCache(seen, "miss") <= hosts
  BY DEF PartsAgree
<1> DEFINE hosts == UpstreamByHost(seen, "success") + UpstreamByHost(seen, "not_found")
                      + UpstreamByHost(seen, "failure")
           kept == \A t \in Tables : \A q \in seen[t] : minute[q] >= now - Retention
<1>1. r \in Requests /\ "request" \in Tables /\ "upstream" \in Tables
  BY ServiceAssumption DEF Tables
<1>2. \A t \in Tables : seen[t] \in SUBSET Recorded /\ seen[t] \in SUBSET Requests /\ IsFiniteSet(seen[t])
  <2>1. IsFiniteSet(Recorded) /\ Recorded \subseteq Requests /\ \A t \in Tables : seen[t] \subseteq Recorded
    BY <1>1 DEF Inv, Typed, Recorded
  <2> QED
    BY <2>1, FS_Subset
<1>3. hosts = Cardinality(Attempts(seen["upstream"]))
  BY <1>1, <1>2, HostsOf
<1>4. /\ Summary(seen).errors + Summary(seen).clientErrors <= Summary(seen).requests
      /\ Summary(seen).hits <= Summary(seen).upstreamRequests
      /\ Summary(seen).fanOut = Cardinality(Attempts(seen["request"]))
  BY <1>1, <1>2, SummaryOf
<1>5. ASSUME case.backend = "sqlite", kept PROVE Attempts(seen["request"]) = Attempts(seen["upstream"])
  <2>1. \A q \in seen["request"] \cup seen["upstream"] : q \in Kept
    BY <1>1, <1>2, <1>5 DEF Kept
  <2>2. \A q \in Kept : Shape[q].attempts # {} => (q \in seen["request"] <=> q \in seen["upstream"])
    BY <1>1, <1>5 DEF Inv, Snaps, Together
  <2>3. ASSUME NEW S, NEW S2, \A q \in S : Shape[q].attempts # {} => q \in S2
        PROVE  Attempts(S) \subseteq Attempts(S2)
    BY <2>3 DEF Attempts
  <2>4. /\ \A q \in seen["request"] : Shape[q].attempts # {} => q \in seen["upstream"]
        /\ \A q \in seen["upstream"] : Shape[q].attempts # {} => q \in seen["request"]
    BY <2>1, <2>2
  <2>5. Attempts(seen["request"]) \subseteq Attempts(seen["upstream"])
    BY <2>3, <2>4
  <2>6. Attempts(seen["upstream"]) \subseteq Attempts(seen["request"])
    BY <2>3, <2>4
  <2> QED
    BY <2>5, <2>6
<1>6. ASSUME seen["upstream"] = seen["provider"]
      PROVE  /\ UpstreamByHost(seen, "failure") = hosts - AggregateProviders(seen, {"success", "not_found"})
             /\ AggregateCache(seen, "fresh") + AggregateCache(seen, "stale") + AggregateCache(seen, "miss") <= hosts
  BY <1>1, <1>2, <1>3, <1>6, ProvidersOf
<1>7. case.backend = "sqlite" /\ kept => Summary(seen).fanOut = hosts
  BY <1>3, <1>4, <1>5
<1> HIDE DEF hosts, kept
<1> QED
  BY <1>4, <1>6, <1>7 DEF hosts, kept

\* How many there must be for p of a hundred, and no fewer.
LEMMA EnoughOf ==
  ASSUME NEW n \in Nat, NEW p \in Percents, NEW c \in Nat
  PROVE  c >= (n * p + 99) \div 100 <=> 100 * c >= p * n
<1>1. ASSUME NEW m \in Nat PROVE c >= (m + 99) \div 100 <=> 100 * c >= m
  OBVIOUS
<1>2. n * p \in Nat /\ n * p = p * n
  BY DEF Percents
<1> QED
  BY <1>1, <1>2

\* How many of S took no longer than d.
Within(S, d) == Cardinality({q \in S : Shape[q].duration <= d})
LEMMA PercentileOf ==
  ASSUME NEW S \in SUBSET Requests, IsFiniteSet(S), S # {}, NEW p \in Percents
  PROVE  /\ 100 * Within(S, Percentile(S, p)) >= p * Cardinality(S)
         /\ \A i \in 1..Len(Thresholds) : Thresholds[i] < Percentile(S, p) =>
              ~(100 * Within(S, Thresholds[i]) >= p * Cardinality(S))
<1> DEFINE n == Cardinality(S)
           L == Len(Thresholds)
           target == (n * p + 99) \div 100
           enough == {i \in 1..L : LatencyBuckets(S)[i] >= target}
           times == {Shape[r].duration : r \in S}
<1>1. n \in Nat /\ \A d : Within(S, d) \in Nat
  <2>1. \A d : {q \in S : Shape[q].duration <= d} \in SUBSET S
    OBVIOUS
  <2> QED
    BY <2>1, FS_Subset, FS_CardinalityType DEF Within
<1>2. /\ L \in Nat /\ \A i \in 1..L : Thresholds[i] \in Nat
      /\ \A i, j \in 1..L : i < j => Thresholds[i] < Thresholds[j]
  <2>1. Thresholds \in Seq(Nat)
    BY MetricsAssumption
  <2> QED
    BY <2>1, ElementOfSeq, LenProperties, MetricsAssumption
<1>3. \A i \in 1..L : LatencyBuckets(S)[i] = Within(S, Thresholds[i])
  BY DEF LatencyBuckets, Within
<1>4. \A c \in Nat : c >= target <=> 100 * c >= p * n
  BY <1>1, EnoughOf
<1>5. ASSUME NEW i \in 1..L PROVE i \in enough <=> 100 * Within(S, Thresholds[i]) >= p * n
  <2>1. i \in enough <=> LatencyBuckets(S)[i] >= target
    OBVIOUS
  <2> HIDE DEF n, target, enough
  <2> QED
    BY <1>1, <1>3, <1>4, <2>1
<1>6. Percentile(S, p) = IF enough = {} THEN Max(times) ELSE Thresholds[Min(enough)]
  BY DEF Percentile
<1>7. CASE enough = {}
  <2>1. times \in SUBSET Nat /\ times # {} /\ IsFiniteSet(times)
    <3>1. [r \in S |-> Shape[r].duration] \in Surjection(S, times)
      BY DEF Surjection
    <3>2. IsFiniteSet(times)
      BY <3>1, FS_Surjection
    <3> QED
      BY <3>2, MetricsAssumption
  <2> HIDE DEF times
  <2>2. \E x \in times : \A y \in times : x >= y
    BY <2>1, GreatestOf
  <2>3. Max(times) \in times /\ \A y \in times : Max(times) >= y
    BY <2>2 DEF Max
  <2>4. \A q \in S : Shape[q].duration <= Max(times)
    <3>1. \A y \in times : y \in Nat /\ y <= Max(times)
      BY <2>1, <2>3
    <3> QED
      BY <3>1 DEF times
  <2>5. {q \in S : Shape[q].duration <= Max(times)} = S
    BY <2>4
  <2>6. Within(S, Max(times)) = n
    BY <2>5 DEF Within
  <2>7. 100 * n >= p * n
    <3>1. 100 * n >= 50 * n /\ 100 * n >= 95 * n /\ 100 * n >= 99 * n
      BY <1>1
    <3> QED
      BY <3>1 DEF Percents
  <2> HIDE DEF n, L, target, enough
  <2> QED
    BY <1>5, <1>6, <1>7, <2>6, <2>7 DEF n, L
<1>8. CASE enough # {}
  <2>1. enough \in SUBSET Nat /\ \A i \in enough : i \in 1..L
    BY <1>2
  <2> HIDE DEF n, L, target, enough
  <2>2. \E x \in enough : \A y \in enough : x <= y
    BY <1>8, <2>1, LeastOf
  <2>3. PICK k \in enough : k = Min(enough) /\ \A y \in enough : k <= y
    BY <2>2 DEF Min
  <2>4. Percentile(S, p) = Thresholds[k] /\ 100 * Within(S, Thresholds[k]) >= p * n
    BY <1>5, <1>6, <1>8, <2>1, <2>3
  <2>5. ASSUME NEW i \in 1..L, Thresholds[i] < Thresholds[k] PROVE i \notin enough
    <3>1. i \in Nat /\ k \in Nat /\ k \in 1..L /\ Thresholds[i] \in Nat /\ Thresholds[k] \in Nat
      BY <1>2, <2>1
    <3>2. ~(k < i) /\ i # k
      BY <1>2, <2>5, <3>1
    <3>3. i < k
      BY <3>1, <3>2
    <3> QED
      BY <2>3, <3>1, <3>3
  <2> QED
    BY <1>5, <2>4, <2>5 DEF n, L
<1> QED
  BY <1>7, <1>8

LEMMA PercentilesAre == Inv => PercentilesHold
<1>1. ASSUME Inv, NEW r \in Snapshots, NEW p \in Percents, snap[r].stage = "done", snap[r].seen["request"] # {}
      PROVE  LET rows == snap[r].seen["request"]
                 within(d) == 100 * Cardinality({q \in rows : Shape[q].duration <= d}) >= p * Cardinality(rows)
             IN /\ within(Percentile(rows, p))
                /\ \A i \in 1..Len(Thresholds) : Thresholds[i] < Percentile(rows, p) => ~within(Thresholds[i])
  <2>1. r \in Requests /\ "request" \in Tables
    BY ServiceAssumption DEF Tables
  <2>2. PICK rows : rows = snap[r].seen["request"]
    OBVIOUS
  <2>3. rows \in SUBSET Recorded /\ IsFiniteSet(Recorded) /\ Recorded \subseteq Requests
    BY <1>1, <2>1, <2>2 DEF Inv, Typed, Recorded
  <2>4. rows \in SUBSET Requests /\ IsFiniteSet(rows)
    BY <2>3, FS_Subset
  <2>5. /\ 100 * Within(rows, Percentile(rows, p)) >= p * Cardinality(rows)
        /\ \A i \in 1..Len(Thresholds) : Thresholds[i] < Percentile(rows, p) =>
             ~(100 * Within(rows, Thresholds[i]) >= p * Cardinality(rows))
    BY <1>1, <2>2, <2>4, PercentileOf
  <2> QED
    BY <2>2, <2>5 DEF Within
<1> QED
  BY <1>1, Zenon DEF PercentilesHold

\* A snapshot that is answered counts what was recorded before it was asked for, its
\* parts agree, and its percentiles are those of the histogram that it read.
THEOREM SnapshotsHold == Spec => []SnapshotHolds
<1>1. Inv => SnapshotHolds
  BY CompleteHolds, PartsHold, PercentilesAre DEF SnapshotHolds
<1> QED
  BY <1>1, InvHolds, PTL
=============================================================================
