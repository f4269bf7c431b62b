-------------------------- MODULE DashboardMetrics --------------------------
(***************************************************************************)
(* The dashboard's metrics in one process: rows that requests are counted  *)
(* in, the promise chain that writes them, and the snapshot that reads     *)
(* them back (src/src/node/dashboard-metrics.ts and the two stores).       *)
(*                                                                         *)
(* A row is the set of requests merged into it, so a table is how often it *)
(* counts each request; the columns follow from Shape, what a request is   *)
(* counted with.  flushTail is the sequence of jobs still to run, each     *)
(* with the writes it has left, and heartbeatTail the number of samples    *)
(* still to take.  Once a write rejects, so does its chain, for good.      *)
(* A tick of the clock is a second; Service.tla drives these actions.      *)
(***************************************************************************)
EXTENDS Integers, FiniteSets, Sequences, FiniteSetsExt

CONSTANTS
  Requests,    \* the requests of a behaviour
  Shape,       \* Shape[r]: [tracked, route, status, duration, hit, attempts]
  Cases,       \* what a behaviour may have: [backend, requests, until]: its store
               \* ("sqlite" or "postgres"), the requests that come, the end of time
  FlushRows,   \* rows buffered that start a flush (100)
  Minute, Window, Retention, CleanEvery,  \* in ticks
  Thresholds,  \* the bounds of the latency histogram
  MaxBeats     \* bounds the samples waiting to be taken; one is taken per tick

ASSUME MetricsAssumption ==
  /\ Cases \subseteq [backend : {"sqlite", "postgres"}, requests : SUBSET Requests, until : Nat]
  /\ Minute \in Nat \ {0} /\ {Window, Retention, CleanEvery, FlushRows, MaxBeats} \subseteq Nat
  /\ \A r \in Requests : /\ Shape[r].status \in Nat /\ Shape[r].duration \in Nat
                         /\ IsFiniteSet(Shape[r].attempts)
                         /\ Shape[r].hit => Shape[r].attempts # {}
  /\ Thresholds \in Seq(Nat)
  /\ \A i, j \in 1..Len(Thresholds) : i < j => Thresholds[i] < Thresholds[j]

VARIABLES
  case,      \* the case of this behaviour
  now,       \* the clock
  minute,    \* minute[r]: the bucket r is counted in, or Unrecorded
  buffer,    \* the requests merged into rows not yet taken by a flush
  tail,      \* flushTail: jobs [rows, at, todo]
  broken,    \* flushTail is rejected
  cleanedAt, \* lastCleanupAt
  table,     \* table[t][r]: how often table t counts r
  beats,     \* heartbeatTail: [queue, broken]
  sample,    \* heartbeat_at of this instance's newest sample
  snap,      \* snap[r]: the snapshot that request r takes
  storeOpen

metrics == <<minute, buffer, tail, broken, cleanedAt, table, beats, sample, snap, storeOpen>>
chain == <<buffer, tail, broken, cleanedAt>>

Tables == {"request", "upstream", "provider"}
Unrecorded == -2 * Minute
Never == -CleanEvery - 1
NoSnapshot == [stage |-> "none", began |-> 0, ahead |-> 0, due |-> {}, beat |-> Never,
               seen |-> [t \in Tables |-> {}], left |-> Tables]

MinuteBucket(t) == (t \div Minute) * Minute
Recorded == {r \in Requests : minute[r] # Unrecorded}

(* The rows of a request. *)
UpstreamOutcome(a) ==
  CASE a.outcome \in {"success", "not_found"} -> a.outcome
    [] a.outcome = "" /\ a.status = 404 -> "not_found"
    [] a.outcome = "" /\ a.status \in 200..399 -> "success"
    [] OTHER -> "failure"
DetailedOutcome(a) ==
  IF a.outcome # "" THEN a.outcome
  ELSE IF a.status = 404 THEN "not_found"
  ELSE IF a.status \in 200..399 THEN "success"
  ELSE IF a.status \in 1..999 THEN "http" ELSE "unknown"

Has(r, t) == t = "request" \/ Shape[r].attempts # {}
RequestKey(r, m) == <<m[r], Shape[r].route, Shape[r].status>>
UpstreamKeys(r, m) ==
  {<<m[r], Shape[r].route, a.host, UpstreamOutcome(a)>> : a \in Shape[r].attempts}
ProviderKeys(r, m) ==
  {<<m[r], Shape[r].route, a.provider, a.host, DetailedOutcome(a), a.cache>> :
     a \in Shape[r].attempts}
RowCount(S, m) ==
  Cardinality({RequestKey(r, m) : r \in S})
    + Cardinality(UNION {UpstreamKeys(r, m) : r \in S})
    + Cardinality(UNION {ProviderKeys(r, m) : r \in S})

(* The writes of a flush, in their order. *)
Add(T) == [op |-> "add", tables |-> T]
Delete(T) == [op |-> "delete", tables |-> T]
\* Mutant: the upstream rows go with the providers' in the second transaction.
WritesSplit(S) ==
  LET some == {r \in S : Shape[r].attempts # {}}
  IN (IF S = {} THEN <<>> ELSE <<Add({"request"})>>)
       \o (IF some = {} THEN <<>> ELSE <<Add({"upstream", "provider"})>>)
Writes(S) ==
  LET some == {r \in S : Shape[r].attempts # {}}
  IN (IF S = {} THEN <<>> ELSE <<Add({"request", "upstream"})>>)
       \o (IF some = {} THEN <<>> ELSE <<Add({"provider"})>>)
\* SQLite's cleanup runs in one turn, PostgreSQL's is a statement at a time.
Cleanup ==
  IF case.backend = "sqlite" THEN <<Delete(Tables)>>
  ELSE <<Delete({"request"}), Delete({"upstream"}), Delete({"provider"})>>

Outdated(at) == {r \in Recorded : minute[r] < at - Retention}
Written(write, T, job) ==
  [t \in Tables |-> [r \in Requests |->
     CASE t \in T /\ write.op = "add" /\ r \in job.rows /\ Has(r, t) -> table[t][r] + 1
       [] t \in T /\ write.op = "delete" /\ r \in Outdated(job.at) -> 0
       [] OTHER -> table[t][r]]]

(* flush(): takes the rows and hangs their writes on the chain. *)
\* Mutant: the rows are cleared when the writes have been hung on, not before.
FlushKeepingRows(S) ==
  LET clean == now - cleanedAt >= CleanEvery
      job == [rows |-> S, at |-> now, todo |-> Writes(S) \o (IF clean THEN Cleanup ELSE <<>>)]
  IN /\ buffer' = IF broken THEN {} ELSE S
     /\ cleanedAt' = IF clean THEN now ELSE cleanedAt
     /\ tail' = IF broken \/ job.todo = <<>> THEN tail ELSE Append(tail, job)
     /\ UNCHANGED broken
Flush(S) ==
  LET clean == now - cleanedAt >= CleanEvery
      job == [rows |-> S, at |-> now, todo |-> Writes(S) \o (IF clean THEN Cleanup ELSE <<>>)]
  IN /\ buffer' = {}
     /\ cleanedAt' = IF clean THEN now ELSE cleanedAt
     /\ tail' = IF broken \/ job.todo = <<>> THEN tail ELSE Append(tail, job)
     /\ UNCHANGED broken

\* record(): r's row, and a flush of all rows when there are many.
Record(r) ==
  LET m == [minute EXCEPT ![r] = MinuteBucket(now)]
  IN IF ~Shape[r].tracked THEN UNCHANGED <<minute, chain>>
     ELSE /\ minute' = m
          /\ IF RowCount(buffer \cup {r}, m) >= FlushRows THEN Flush(buffer \cup {r})
             ELSE buffer' = buffer \cup {r} /\ UNCHANGED <<tail, broken, cleanedAt>>

FlushTimer ==
  /\ buffer # {} \/ now - cleanedAt >= CleanEvery
  /\ Flush(buffer)
  /\ UNCHANGED <<minute, table, beats, sample, snap, storeOpen>>

\* Whoever awaits a chain is told when its last job has run, or that it rejected.
Nearer(stage, then) ==
  [r \in Requests |->
     CASE snap[r].stage # stage -> snap[r]
       [] snap[r].stage = stage /\ snap[r].ahead > 1 -> [snap[r] EXCEPT !.ahead = @ - 1]
       [] OTHER -> [snap[r] EXCEPT !.ahead = 0, !.stage = then]]
Rejected(stage) ==
  [r \in Requests |-> IF snap[r].stage = stage
                      THEN [snap[r] EXCEPT !.ahead = 0, !.stage = "failed"] ELSE snap[r]]

StoreWrite ==
  /\ tail # <<>> /\ storeOpen
  /\ LET job == Head(tail)
         write == Head(job.todo)
         last == Len(job.todo) = 1
     IN /\ table' = Written(write, write.tables, job)
        /\ tail' = IF last THEN Tail(tail) ELSE [tail EXCEPT ![1].todo = Tail(@)]
        /\ snap' = IF last THEN Nearer("flush", "flushed") ELSE snap
  /\ UNCHANGED <<minute, buffer, broken, cleanedAt, beats, sample, storeOpen>>

\* What a write that rejects may have changed: a commit whose answer is lost
\* (PostgreSQL), or the statements of a cleanup before the one that failed.
Partial(write) ==
  CASE ~storeOpen -> {{}}
    [] storeOpen /\ case.backend = "postgres" -> {{}, write.tables}
    [] storeOpen /\ case.backend = "sqlite" /\ write.op = "delete" ->
         {{}, {"request"}, {"request", "upstream"}}
    [] OTHER -> {{}}
StoreReject ==
  /\ tail # <<>>
  /\ \E T \in Partial(Head(Head(tail).todo)) :
       table' = Written(Head(Head(tail).todo), T, Head(tail))
  /\ tail' = <<>>
  /\ broken' = TRUE
  /\ snap' = Rejected("flush")
  /\ UNCHANGED <<minute, buffer, cleanedAt, beats, sample, storeOpen>>

(* captureRuntime(): one sample, whose figures are read as it is written. *)
HeartbeatTimer ==
  /\ beats.queue < MaxBeats /\ ~beats.broken /\ sample < now
  /\ beats' = [beats EXCEPT !.queue = @ + 1]
  /\ UNCHANGED <<minute, chain, table, sample, snap, storeOpen>>

SampleWrite ==
  /\ beats.queue > 0 /\ storeOpen
  /\ sample' = now
  /\ beats' = [beats EXCEPT !.queue = @ - 1]
  /\ snap' = Nearer("beat", "read")
  /\ UNCHANGED <<minute, chain, table, storeOpen>>

SampleReject ==
  /\ beats.queue > 0
  /\ sample' \in IF case.backend = "postgres" /\ storeOpen THEN {sample, now} ELSE {sample}
  /\ beats' = [queue |-> 0, broken |-> TRUE]
  /\ snap' = Rejected("beat")
  /\ UNCHANGED <<minute, chain, table, storeOpen>>

(* snapshot(): flush, then a sample, then five reads at once. *)
\* Mutant: the rows written so far are read without a flush before.
BeginSnapshotUnflushed(r) ==
  /\ snap' = [snap EXCEPT ![r] = [NoSnapshot EXCEPT
                !.stage = "flushed", !.began = now, !.due = Recorded]]
  /\ UNCHANGED chain
BeginSnapshot(r) ==
  /\ Flush(buffer)
  /\ snap' = [snap EXCEPT ![r] = [NoSnapshot EXCEPT
                !.stage = CASE broken -> "failed" [] ~broken /\ tail' = <<>> -> "flushed" [] OTHER -> "flush",
                !.began = now, !.ahead = Len(tail'), !.due = Recorded]]

CaptureForSnapshot(r) ==
  /\ snap[r].stage = "flushed"
  /\ IF beats.broken
     THEN snap' = [snap EXCEPT ![r].stage = "failed"] /\ UNCHANGED beats
     ELSE /\ beats' = [beats EXCEPT !.queue = @ + 1]
          /\ snap' = [snap EXCEPT ![r].stage = "beat", ![r].ahead = beats.queue + 1]
  /\ UNCHANGED <<minute, chain, table, sample, storeOpen>>

\* Rows older than the window are not read; the samples are read with the requests.
Visible(r, t) ==
  {q \in Recorded : table[t][q] > 0 /\ minute[q] >= MinuteBucket(snap[r].began - Window)}
SnapshotRead(r) ==
  /\ snap[r].stage = "read" /\ storeOpen
  /\ \E T \in IF case.backend = "sqlite" THEN {snap[r].left} ELSE {{t} : t \in snap[r].left} :
       snap' = [snap EXCEPT
         ![r].seen = [t \in Tables |-> IF t \in T THEN Visible(r, t) ELSE @[t]],
         ![r].beat = IF "request" \in T THEN sample ELSE @,
         ![r].left = @ \ T,
         ![r].stage = IF snap[r].left = T THEN "done" ELSE "read"]
  /\ UNCHANGED <<minute, chain, table, beats, sample, storeOpen>>

SnapshotFails(r) ==
  /\ snap[r].stage = "read"
  /\ snap' = [snap EXCEPT ![r].stage = "failed"]
  /\ UNCHANGED <<minute, chain, table, beats, sample, storeOpen>>

(* What the snapshot answers, from the rows it read. *)
Attempts(S) == UNION {{r} \X Shape[r].attempts : r \in S}
Count(S, P(_)) == Cardinality({x \in Attempts(S) : P(x[2])})
\* Mutant: a request counts in the bounds above its duration only.
BucketsAbove(S) == [i \in 1..Len(Thresholds) |->
                      Cardinality({r \in S : Shape[r].duration < Thresholds[i]})]
LatencyBuckets(S) == [i \in 1..Len(Thresholds) |->
                        Cardinality({r \in S : Shape[r].duration <= Thresholds[i]})]
Percentile(S, percent) ==
  LET target == (Cardinality(S) * percent + 99) \div 100
      enough == {i \in 1..Len(Thresholds) : LatencyBuckets(S)[i] >= target}
  IN IF enough = {} THEN Max({Shape[r].duration : r \in S}) ELSE Thresholds[Min(enough)]

Summary(seen) ==
  LET rows == seen["request"]
  IN [requests |-> Cardinality(rows),
      errors |-> Cardinality({r \in rows : Shape[r].status >= 500}),
      clientErrors |-> Cardinality({r \in rows : Shape[r].status \in 400..499}),
      hits |-> Cardinality({r \in rows : Shape[r].hit}),
      upstreamRequests |-> Cardinality({r \in rows : Shape[r].attempts # {}}),
      fanOut |-> Count(rows, LAMBDA a : TRUE)]
UpstreamByHost(seen, outcome) ==
  Count(seen["upstream"], LAMBDA a : UpstreamOutcome(a) = outcome)
AggregateProviders(seen, outcomes) ==
  Count(seen["provider"], LAMBDA a : DetailedOutcome(a) \in outcomes)
AggregateCache(seen, state) == Count(seen["provider"], LAMBDA a : a.cache = state)

InitMetrics ==
  /\ minute = [r \in Requests |-> Unrecorded]
  /\ buffer = {} /\ tail = <<>> /\ broken = FALSE /\ cleanedAt = -CleanEvery
  /\ table = [t \in Tables |-> [r \in Requests |-> 0]]
  /\ beats = [queue |-> 1, broken |-> FALSE]
  /\ sample = Never
  /\ snap = [r \in Requests |-> NoSnapshot]
  /\ storeOpen = TRUE
=============================================================================
