------------------------------- MODULE Service -------------------------------
(***************************************************************************)
(* One process of the gateway: the limits its requests pass, the requests  *)
(* it serves and records, and how it closes (src/src/node/server.ts with   *)
(* close() of src/src/node/dashboard.ts, over DashboardMetrics).           *)
(*                                                                         *)
(* A request is in pc[r], and in present as long as its connection is open; *)
(* connections between two requests are left out.  What a handler computes   *)
(* is in other modules: here it takes some time and is answered, and its   *)
(* client may be gone by then.  closing is the stage of close().           *)
(***************************************************************************)
EXTENDS DashboardMetrics

CONSTANTS
  Snapshots,    \* the requests for the dashboard's snapshot
  Maximum,      \* requests served at once
  MaxPerSecond, \* requests let in per aligned second
  Start         \* what the clock starts at

ASSUME ServiceAssumption ==
  /\ Snapshots \subseteq Requests /\ {Maximum, MaxPerSecond, Start} \subseteq Nat
  /\ \A r \in Requests : IF r \in Snapshots THEN ~Shape[r].tracked
                         ELSE Shape[r].route \in {"authorization", "gateway"}
  /\ \A c \in Cases : Start <= c.until

VARIABLES
  window,    \* RequestRateLimiter: [at, requests]
  active,    \* RequestConcurrencyLimiter
  pc,
  present,   \* the requests being served whose connection is open
  letIn,     \* history: the requests let in since the last tick
  closing,   \* the stage of close()
  closer,    \* what close() awaits: [ahead, rejected, due]
  exit       \* how the process ended

vars == <<case, now, metrics, window, active, pc, present, letIn, closing, closer, exit>>
server == <<window, active, pc, present, letIn>>

Running == {"authorization", "gateway", "snapshot"}
Handlers == {r \in Requests : pc[r] \in Running}
\* close() awaits one promise after the other, and a rejection skips the rest.
CloseSteps == <<"flush", "beat", "store", "others">>
Stages == {"open", "closing", "closed"} \cup {CloseSteps[i] : i \in DOMAIN CloseSteps}
Exits == {"running", "clean", "crashed"}
AfterStep(stage) ==
  IF stage = "others" THEN "closed"
  ELSE CloseSteps[1 + CHOOSE i \in DOMAIN CloseSteps : CloseSteps[i] = stage]
\* metrics.close() clears the timers.
TimersOn == closing \in {"open", "closing"}

TypeOK ==
  /\ now \in Start..case.until
  /\ \A r \in Requests : minute[r] = Unrecorded \/ minute[r] \in {MinuteBucket(t) : t \in 0..case.until}
  /\ buffer \subseteq Requests /\ broken \in BOOLEAN /\ storeOpen \in BOOLEAN
  /\ \A i \in DOMAIN tail : tail[i].rows \subseteq Requests /\ tail[i].todo # <<>>
  /\ table \in [Tables -> [Requests -> Nat]]
  /\ beats.queue \in Nat /\ case \in Cases
  /\ \A r \in Requests : snap[r].stage = "flush" => snap[r].ahead <= Len(tail)
  /\ \A r \in Requests : snap[r].stage = "beat" => snap[r].ahead <= beats.queue
  /\ window.requests \in 0..MaxPerSecond /\ active \in 0..Maximum
  /\ pc \in [Requests -> Running \cup {"new", "absent", "answered"}]
  /\ present \subseteq Handlers
  /\ closing \in Stages /\ exit \in Exits

(* A request arrives over a new connection while the server listens, or    *)
(* over one that an earlier request has left open while it closes.         *)
Arrives(r) ==
  /\ exit = "running" /\ pc[r] = "new"
  /\ closing = "open" \/ (closing = "closing" /\ \E q \in Requests : pc[q] = "answered")

\* Mutant: every request finds a new window.
NewWindow == [at |-> now, requests |-> 0]
\* tryAcquire(): the window of the second it is called in.
CurrentWindow == IF window.at # now THEN [at |-> now, requests |-> 0] ELSE window

RateLimited(r) ==
  /\ Arrives(r)
  /\ CurrentWindow.requests >= MaxPerSecond
  /\ window' = CurrentWindow
  /\ pc' = [pc EXCEPT ![r] = "answered"]
  /\ UNCHANGED <<case, now, metrics, active, present, letIn, closing, closer, exit>>

LetIn(r) ==
  /\ Arrives(r)
  /\ CurrentWindow.requests < MaxPerSecond
  /\ window' = [CurrentWindow EXCEPT !.requests = @ + 1]
  /\ letIn' = letIn + 1

Busy(r) ==
  /\ LetIn(r)
  /\ active >= Maximum
  /\ pc' = [pc EXCEPT ![r] = "answered"]
  /\ UNCHANGED <<case, now, metrics, active, present, closing, closer, exit>>

Serve(r) ==
  /\ LetIn(r)
  /\ active < Maximum
  /\ active' = active + 1
  /\ present' = present \cup {r}
  /\ pc' = [pc EXCEPT ![r] = IF r \in Snapshots THEN "snapshot" ELSE Shape[r].route]
  /\ UNCHANGED <<case, now, metrics, closing, closer, exit>>

\* Mutant: a request whose client is gone does not free its slot.
ReleaseIfConnected(r) ==
  /\ active' = IF r \in present THEN active - 1 ELSE active
  /\ pc' = [pc EXCEPT ![r] = "answered"]
  /\ present' = present \ {r}
  /\ UNCHANGED <<case, now, window, letIn, closing, closer, exit>>
\* RequestConcurrencyLimiter.release(), in the handler's finally.
Release(r) ==
  /\ active' = IF active > 0 THEN active - 1 ELSE 0
  /\ pc' = [pc EXCEPT ![r] = "answered"]
  /\ present' = present \ {r}
  /\ UNCHANGED <<case, now, window, letIn, closing, closer, exit>>

\* An authorization or a search request is answered, whatever came of it, and recorded.
Finish(r) ==
  /\ exit = "running" /\ pc[r] \in {"authorization", "gateway"}
  /\ Release(r)
  /\ Record(r)
  /\ UNCHANGED <<table, beats, sample, snap, storeOpen>>

\* The snapshot starts once its session is resolved.
Snapshot(r) ==
  /\ exit = "running" /\ pc[r] = "snapshot" /\ snap[r].stage = "none" /\ storeOpen
  /\ BeginSnapshot(r)
  /\ UNCHANGED <<case, now, minute, table, beats, sample, storeOpen, server, closing, closer, exit>>

\* Answered with the report, with 401 without a session, or with 500.
FinishSnapshot(r) ==
  /\ exit = "running" /\ pc[r] = "snapshot" /\ snap[r].stage \in {"none", "done", "failed"}
  /\ Release(r)
  /\ snap' = [snap EXCEPT ![r] = NoSnapshot]
  /\ UNCHANGED <<minute, chain, table, beats, sample, storeOpen>>

\* A client leaves; its handler goes on.
Disconnect(r) ==
  /\ exit = "running" /\ r \in present
  /\ present' = present \ {r}
  /\ UNCHANGED <<case, now, metrics, window, active, pc, letIn, closing, closer, exit>>

\* Bound: the clock stands once the process closes.
Tick ==
  /\ closing = "open" /\ now < case.until
  /\ now' = now + 1
  /\ letIn' = 0
  /\ UNCHANGED <<case, metrics, window, active, pc, present, closing, closer, exit>>

(* The dashboard's timers and its store. *)
\* Mutant: what close() awaits only ever resolves.
AwaitingSuccess ==
  LET moved == \/ closing = "flush" /\ Len(tail') < Len(tail) /\ ~broken'
               \/ closing = "beat" /\ beats'.queue < beats.queue /\ ~beats'.broken
  IN IF moved /\ closer.ahead > 0 THEN [closer EXCEPT !.ahead = @ - 1] ELSE closer
\* close() waits in line as a snapshot does.
Awaiting ==
  LET moved == \/ closing = "flush" /\ Len(tail') < Len(tail)
               \/ closing = "beat" /\ beats'.queue < beats.queue
      rejects == IF closing = "flush" THEN broken' ELSE beats'.broken
  IN IF moved /\ closer.ahead > 0
     THEN [closer EXCEPT !.ahead = @ - 1, !.rejected = rejects] ELSE closer
Metrics ==
  /\ exit = "running"
  /\ \/ TimersOn /\ (FlushTimer \/ HeartbeatTimer)
     \/ StoreWrite \/ StoreReject
     \/ SampleWrite \/ SampleReject
     \/ \E r \in Snapshots : CaptureForSnapshot(r) \/ SnapshotRead(r) \/ SnapshotFails(r)
  /\ closer' = Awaiting
  /\ UNCHANGED <<case, now, server, closing, exit>>

(* close() *)
\* A signal, or a start that found the service not ready.
Close ==
  /\ exit = "running" /\ closing = "open"
  /\ closing' = "closing"
  /\ UNCHANGED <<case, now, metrics, server, closer, exit>>

\* After at most five seconds.
CloseAllConnections ==
  /\ exit = "running" /\ closing = "closing" /\ present # {}
  /\ present' = {}
  /\ UNCHANGED <<case, now, metrics, window, active, pc, letIn, closing, closer, exit>>

\* The server's last connection has ended: metrics.close() flushes.
\* Mutant: the dashboard closes without a last flush.
CloseWithoutFlush ==
  /\ exit = "running" /\ closing = "closing" /\ present = {}
  /\ closing' = "flush"
  /\ closer' = [ahead |-> Len(tail), rejected |-> broken, due |-> Recorded]
  /\ UNCHANGED <<case, now, metrics, server, exit>>
Drained ==
  /\ exit = "running" /\ closing = "closing" /\ present = {}
  /\ closing' = "flush"
  /\ Flush(buffer)
  /\ closer' = [ahead |-> Len(tail'), rejected |-> broken, due |-> Recorded]
  /\ UNCHANGED <<case, now, minute, table, beats, sample, snap, storeOpen, server, exit>>

\* One step of close() is done and the next is called.
CloseNext ==
  /\ exit = "running" /\ closing \in {CloseSteps[i] : i \in DOMAIN CloseSteps}
  /\ closer.ahead = 0 /\ ~closer.rejected
  /\ closing' = AfterStep(closing)
  /\ closer' = IF closing = "flush"
               THEN [closer EXCEPT !.ahead = beats.queue, !.rejected = beats.broken] ELSE closer
  /\ storeOpen' = (storeOpen /\ closing # "store")
  /\ UNCHANGED <<case, now, minute, chain, table, beats, sample, snap, server, exit>>

\* A step rejects: the rest is skipped, and nothing handles the rejection of
\* close()'s promise.
CloseRejects ==
  /\ exit = "running"
  /\ closer.rejected \/ closing \in {"store", "others"}
  /\ exit' = "crashed"
  /\ UNCHANGED <<case, now, metrics, server, closing, closer>>

\* Nothing is left to run.
End ==
  /\ exit = "running" /\ closing = "closed"
  /\ Handlers = {} /\ tail = <<>> /\ beats.queue = 0
  /\ exit' = "clean"
  /\ UNCHANGED <<case, now, metrics, server, closing, closer>>

Init ==
  /\ now = Start
  /\ InitMetrics
  /\ window = [at |-> Start, requests |-> 0]
  /\ active = 0 /\ present = {} /\ letIn = 0
  /\ case \in Cases
  /\ pc = [r \in Requests |-> IF r \in case.requests THEN "new" ELSE "absent"]
  /\ closing = "open" /\ exit = "running"
  /\ closer = [ahead |-> 0, rejected |-> FALSE, due |-> {}]

Handle ==
  \/ \E r \in Requests : RateLimited(r) \/ Busy(r) \/ Serve(r) \/ Finish(r) \/ Disconnect(r)
  \/ \E r \in Snapshots : Snapshot(r) \/ FinishSnapshot(r)
Shutdown ==
  Close \/ CloseAllConnections \/ Drained \/ CloseNext \/ CloseRejects \/ End
Next == Handle \/ Tick \/ Metrics \/ Shutdown
Spec == Init /\ [][Next]_vars

\* Handlers end within their deadlines, the database answers, and close() goes on.
Answered ==
  \/ \E r \in Requests : Finish(r)
  \/ \E r \in Snapshots : FinishSnapshot(r)
Fairness ==
  /\ WF_vars(Answered) /\ WF_vars(Metrics)
  /\ WF_vars(CloseAllConnections \/ Drained \/ CloseNext \/ CloseRejects \/ End)
FairSpec == Spec /\ Fairness

---------------------------------------------------------------------------
(* Properties *)

\* A slot is held by each request being served and by nothing else, whichever
\* way its handler ended and whether or not its client waited for it.
SlotsAccounted == active = Cardinality(Handlers)

\* No more requests are let in during any second of the clock than configured,
\* those that find no slot included.
SecondBounded == letIn <= MaxPerSecond

\* The state is typed, and neither limit of the server is passed or used up by what
\* has ended.
LimitsHold == TypeOK /\ SlotsAccounted /\ SecondBounded

\* How many times r is counted in table t, buffered or waiting to be written to it.
Waiting(r, t) ==
  Cardinality({i \in DOMAIN tail : r \in tail[i].rows
    /\ \E k \in DOMAIN tail[i].todo : tail[i].todo[k].op = "add" /\ t \in tail[i].todo[k].tables})
Places(r, t) == (IF r \in buffer THEN 1 ELSE 0) + Waiting(r, t) + table[t][r]
\* A recorded request is never counted twice, even when the answer to a commit
\* is lost, and as long as no write has rejected it is not lost between the
\* buffer, the chain and the tables; only its age removes it.
CountedOnce ==
  \A r \in Recorded, t \in Tables : Has(r, t) =>
    /\ Places(r, t) <= 1
    /\ broken \/ minute[r] < now - Retention \/ Places(r, t) = 1

\* A snapshot that is answered counts every request that was recorded before it
\* was asked for and that is neither too old for its window nor for the
\* retention, and shows this instance as it is after it was asked for.
SnapshotComplete ==
  \A r \in Snapshots : snap[r].stage = "done" =>
    /\ \A t \in Tables : \A q \in snap[r].due :
         Has(q, t) /\ minute[q] >= snap[r].began - Window /\ minute[q] >= now - Retention
           => q \in snap[r].seen[t]
    /\ snap[r].beat >= snap[r].began

\* The parts of one snapshot tell of the same requests.  The upstream requests
\* and their hosts are written together, so over SQLite, which reads them in
\* one turn, they agree; and where the providers' rows were read with the
\* same requests, the failures of the hosts are what the providers' outcomes
\* call neither success nor not found.
PartsAgree ==
  \A r \in Snapshots : snap[r].stage = "done" =>
    LET seen == snap[r].seen
        \* The minute in which the retention ends may be deleted in part.
        kept == \A t \in Tables : \A q \in seen[t] : minute[q] >= now - Retention
        hosts == UpstreamByHost(seen, "success") + UpstreamByHost(seen, "not_found")
                   + UpstreamByHost(seen, "failure")
    IN /\ case.backend = "sqlite" /\ kept => Summary(seen).fanOut = hosts
       /\ Summary(seen).errors + Summary(seen).clientErrors <= Summary(seen).requests
       /\ Summary(seen).hits <= Summary(seen).upstreamRequests
       /\ seen["upstream"] = seen["provider"] =>
            /\ UpstreamByHost(seen, "failure") = hosts - AggregateProviders(seen, {"success", "not_found"})
            /\ AggregateCache(seen, "fresh") + AggregateCache(seen, "stale")
                 + AggregateCache(seen, "miss") <= hosts

\* The percentiles that a snapshot reports.
Percents == {50, 95, 99}

\* A percentile that a snapshot reports is the least bound of the histogram that
\* so many of its requests did not exceed, or, beyond the last, their longest.
PercentilesHold ==
  \A r \in Snapshots, p \in Percents : snap[r].stage = "done" /\ snap[r].seen["request"] # {} =>
    LET rows == snap[r].seen["request"]
        within(d) == 100 * Cardinality({q \in rows : Shape[q].duration <= d}) >= p * Cardinality(rows)
    IN /\ within(Percentile(rows, p))
       /\ \A i \in 1..Len(Thresholds) : Thresholds[i] < Percentile(rows, p) => ~within(Thresholds[i])

\* An answered snapshot is complete, of one piece, and right in its percentiles.
SnapshotHolds == SnapshotComplete /\ PartsAgree /\ PercentilesHold

\* The store is closed only when everything recorded before the last flush is in
\* its tables: a request is missing only if it outlived its connection.
WrittenBeforeClosed ==
  ~storeOpen => \A r \in closer.due, t \in Tables :
    Has(r, t) /\ minute[r] >= now - Retention => table[t][r] = 1

\* However it begins, and with requests in progress, closing ends.
CloseEnds == closing = "closing" ~> exit # "running"
=============================================================================
