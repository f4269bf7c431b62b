# Verification of the Yukine metadata gateway

This directory holds TLA+ models of the gateway, its search, transport, metrics and
dashboard, and of YUKINE Cloud's authorization service, the TLC runs that check them on
small instances, and proofs of their main properties for instances of any size, checked
by TLAPS.
Paths below are relative to the repository (`src/transport.ts` is the gateway's,
`yukine-cloud/src/...` the cloud's).

## 1. The system

| Component | State | Operations | Hard behaviour |
|---|---|---|---|
| Gateway authorization (`src/node/gateway-authorization.ts`, `authorization-store.ts`) | tables of subjects, credentials (API keys), redemptions, activations, nonces | createSubject, updateSubject, issueApiKey, issueRedemption, redeem, activate, verify, authorizeMetadata, revokeCredential, cleanup at start | handlers of several requests and replicas interleave at every await; each keeps the `now` it read first; lost answers; restarts |
| YUKINE Cloud binding (`yukine-cloud/src/authorization-service.ts`, `store.ts`) | tables of bindings and candidates | bindApiKey, redeemAndBind, revalidate, requireCapability, deleteBinding | a request is four transactions and three calls; two requests of one user share one candidate row; calls that act after their caller gave up; crashes; commits whose answer is lost |
| Transport (`src/transport.ts`) | flights by key with their waiters, one breaker and one semaphore per provider, MusicBrainz's line, a memory cache | getJson, deferRefresh, coordinatedFetch, sharedFetch, waitForMusicBrainz, cancellation | joins and cancellations at every await, records that throw, hand-off of slots, the half-open probe, an abort in the line |
| Redis coordination (`src/node/redis-cache.ts`) | shared cache, refresh leases, per-provider slots, failures, open and probe keys | get, put, lease, acquire, record | scripts of several processes interleave, readings of the clock are late, keys expire on their own |
| Search and fallback (`src/core.ts`, `src/providers/`) | none between requests | recordings (two versions), albums, artists, lyrics; providers in turn or at once | partial failure of several lookups, what counts as reached, deadlines that reject |
| Identity (`src/identity/`) | none | group, merge, rank and deduplicate recordings and albums | near matches that are not transitive, conflicting identifiers, ties |
| HTTP server and limits (`src/node/server.ts`) | requests in progress, requests per second, the stage of closing | serveRequest, the two limiters, shutdown | clients that leave, handlers that outlive their connection, closing with requests in progress |
| Dashboard metrics (`src/node/dashboard-metrics.ts`) | buffered rows, a flush chain, a chain of samples, three tables | record, flush, captureRuntime, snapshot, cleanup, close | flushes that overlap, reject, or commit unseen; snapshots amid them |
| Dashboard sessions (`src/node/dashboard.ts`, `dashboard-security.ts`, `dashboard-store.ts`, `postgres-dashboard-store.ts`) | the admin, sessions; per replica a setup token, attempts per address, a gate before the hash | setup, login, logout, session, authorization requests | two setups at once, a session touched while it is logged out, a full gate, bursts at the edge of a window |
| SQLite cache (`src/node/sqlite-cache.ts`) | table of entries | get, put, cleanup | none beyond its limits |
| Authorization contract (`packages/authorization-contract`) | none | sign, verify, canonicalize | canonical form, times at their boundary |
| Cloud nonces, outgoing HTTP (`yukine-cloud/src/ephemeral.ts`, `safe-http.ts`) | nonces, request counts | reserve, postJson | limits, timeouts, redirects |
| Key envelopes (`yukine-cloud/src/credential-crypto.ts`) | none | encrypt, decrypt | none beyond failures of the key service |
| State migrations (`src/node/migrate-*.ts`) | copies of tables | one run | a run that is repeated, or that meets newer rows |
| Entry points and schemas | none | configuration, documents, the dashboard's page | none |

**How they interact.** A request passes the server's two limiters and is counted
by the metrics when it ends; if the deployment is a trusted issuer,
`authorizeMetadata` asks the gateway's store; the search asks providers through the
transport, which asks Redis (or nobody) for a grant and a lease and the caches for an
entry, and joins their results by identity. The dashboard signs its administrator
in, administers subjects and keys, and reads the metrics back. YUKINE Cloud calls
`verify`, `redeem` and `activate` of the gateway over HTTP and keeps its own tables.
Processes share state only through the databases and Redis.

**What makes each correct.** A redemption is exchanged once and a revoked key
stays revoked; no answer rests on authority that was gone; a nonce is not
accepted twice within its protection (gateway). One subject, one user; a row
tells the truth about its key; what redeemAndBind returns is activated and bound;
no candidate is left behind (cloud). Slots and probes are accounted for, a flight
nobody waits for frees what it holds, MusicBrainz is asked no faster than it
permits, and every caller is answered (transport). The replicas together respect a
provider's quota, one refreshes an entry, and the dead lose their slots (Redis). A
502 is earned, no fallback is skipped, results that differ are never made one, and
every field has its source (search, identity). No limit is passed or used up by
what has ended, and closing ends (server). What is recorded is counted once, and a
snapshot is complete (metrics). There is one administrator; a session that was
logged out stays out and every session ends; guesses are bounded (dashboard).

## 2. The modules

| Module | What it is |
|---|---|
| `GatewayAuth` | the gateway's handlers and store, one action per transaction or await |
| `KeyLife` | abstract: what the gateway promises of keys and redemptions, and nothing else |
| `GatewayKeys` | the mapping of `GatewayAuth`'s tables to `KeyLife` |
| `CloudBinding` | the cloud service over its PostgreSQL store and the abstract gateway `KeyLife` |
| `CircuitBreaker` | the breaker of one provider, as operators on its fields |
| `Transport` | flights of one provider, their callers, the semaphore, the pacing, and the calls around a fetch |
| `RedisCoordinator` | the grants of one provider: Redis's scripts and keys, called by several replicas |
| `MetadataCache` | one URL: the replicas' memories, the entry in Redis and the refresh lease |
| `Identity` | matching, grouping and ranking of results, as operators |
| `Search` | one request: which lookups are made, and what their answers become |
| `DashboardMetrics` | rows, flush chain, samples and snapshots of one process |
| `Service` | one process: its limits, its requests, and how it closes, over `DashboardMetrics` |
| `Dashboard` | setup, login and sessions over replicas that share a database |
| `GatewayAuthProof`, `CloudBindingProof`, `TransportProof`, `ServiceProof`, `DashboardProof`, `SearchProof` | theorems and proofs |
| `RedisProof` | theorems and proofs of `RedisCoordinator` and `MetadataCache`, whose specification is `CacheSpec` |
| `Lists` | lemmas those share: queues that list a set, each member once; least and greatest numbers |
| `MC...` | instances for TLC: symmetry sets, bounds, the requests and answers of a run |

`KeyLife` joins the two sides of the protocol: `GatewayAuth` implements it
(checked and proved), and `CloudBinding` uses it as its gateway. `Service` drives
`DashboardMetrics`; `Search` applies `Identity`; `Transport` applies `CircuitBreaker`.
A property's mutated definitions ("Mutant" or "Fault" in a comment) stand before
the definition they would replace: they are no part of a specification.

### GatewayAuth

`subject`, `cred`, `activation`, `redemption`, `nonces` are the five tables; a row
is a record with the columns that matter. A handler `h` is `pc[h]`, what it was
asked with its `now` (`req[h]`), and the subject row it read and will trust
(`seen[h]`). Arrivals (`ArriveVerify`, ...) read the clock; `ReadCredential`,
`ReadSubject`, `ConsumeNonce`, `StoreRedeem`, `StoreActivate`, `ReadOwner`,
`ReadIssuable`, `InsertCredential`, `InsertRedemption` are the steps between
awaits, in the order of the code: `activate` commits before it looks at the
subject. A refusal frees the handler at once; an answer is held until `Reply`, so
that properties can look at it. `Initialize` is the start of a replica: its
former requests are lost, and `cleanup` runs while others work. Secrets are the
rows they open. `lastUse`, `deadKeys`, `deadCaps` and a redemption's `minted`
are histories for the properties: no action of the code reads them.

### CloudBinding

`bindings` and `candidates` are the two tables, keyed by user. A request is a
sequence `verify, replace` (bindApiKey), `redeem, reserve, activate, promote`
with `undo` for its catch (redeemAndBind), `current, check, update` (revalidate
and requireCapability) or `delete`. A transaction of the store is one action: the
advisory locks on user and subject make those that test and write one subject
serial, and row locks the rest. Redeem and activate are calls in `calls`, served,
refused or timed out; one that timed out may still be served. `Fail` is a
store operation that throws, or an answer that is not as it should be;
`CommitLost` commits and reports an error; `Crash` loses every request and no
call. A `Subject` is an (issuerId, subject) pair. A row's capabilities and expiry
are named by the subject they were answered for.

### Transport and CircuitBreaker

A flight is its key: `stage[k]` is the await it stands at, `waiters[k]` its subscribers,
`holds[k]` what its `finally` gives back. Between two awaits everything is one step, so
`GiveBack` frees a slot, hands it to the head of the queue and starts that flight's fetch.
`turns` is MusicBrainz's promise chain, the flights in line in order, and `nextAt` the time of
the next request; `Paced` and `PaceAborted` end a turn, and an abort further back leaves the
line only when its turn comes. `Leave` is a caller's cancellation; the last one aborts the
flight, and `Interrupt` says what that does where the flight stands. `RecordThrows` follows an
exception of `coordinator.record` from each try block to the next catch, which records again:
`level` is the block. `Pruned`, what `prune` keeps of the failures, is their tail, as they were
pushed in the order of the clock; `MCTransport` assumes, and TLC evaluates, that this is what
the code's filter keeps. `silent` is a history of flights that ended without telling the
breaker, `fetchedAt` of the last request to MusicBrainz.

### RedisCoordinator

The four keys of one provider are `slots` (the sorted set of tokens, scored with
when they lapse), `failures`, the open key and the probe key. A call reads its
replica's clock when it asks, at most `Ahead` in front of the others' clocks, and
its script runs at most `Latency` later: `Refuse`, `FindFull` and `Grant` are the
branches of the script, each also with its answer lost, so that the client may send
it again. A fetch ends by itself, by `FetchTimeout` at the latest, which may be after its slot
has lapsed (`InTime` says that it has not); then the call records its result, perhaps more than
once, and gives the slot back, or does not. `level[c]` is how many catch blocks of
`fetchFromUpstream` are around the record a call makes: one that throws (`RecordThrows`) is
followed by that of the next block out, with a reading of its own, so that one fetch makes up
to three records of a failure, or clears and then makes some. "failing" is the record of a call
that Redis has granted nothing. `Crash` leaves slots and probe keys behind.

### MetadataCache

An entry is the time it was fetched at; both its times follow from it, but not
`expires`, which Redis counts from when SET ran: an entry may outlive its stale
time there, and is then deleted by whoever finds it (`Overdue`, `Discard`), even if
a peer has put a newer one by then. A task is a request of a replica and the refresh
it may leave behind (`deferred`). `since` is the `now` of its present await, read
before the command was sent and used after its answer. `JoinFlight` is
`sharedFetch`; the flight settles for all its passengers at once (`Settle`), and
who holds the lease gives it back, however late (`GiveBack`). A key of the lease
holds the task that set it, which stands for the token.

### Search and Identity

A lookup is named for the call that makes it, and `got[c]` is its answer: data, not
found, a failure, a body its schema refuses (`Malformed`, which was counted as
reached), or a rejection (`Thrown`, what a deadline makes of a lookup that waits for
another replica). `Due` says which lookups the handler of an endpoint has asked by
now: it follows from the answers, since a handler asks the next one in the turn in
which an answer arrives (`Fallback`, `InTurn`, `Chain`, and those at once). `Answer`
answers any open one, so that parallel lookups end in every order; `Respond` ends
the request, `Arrive` begins another. What the providers list becomes evidence,
which `Identity` matches by identifiers, text, version and duration, groups, merges
and ranks. The edit distance is the constant `Similarity`; confidences are
ten-thousandths, which is what the code rounds to, and durations half seconds.
Filtering and sorting are `Picked` and `Sorted`: a position of the result is that of
the entry with as many kept entries, or as many lesser ones, before it, and equal
entries keep their order, as JavaScript's `sort` does.
A result without a title is dropped and a list is cut at the limit, as in the code. Artists
without an id or a name are dropped too, but only after it was decided which lookups follow
(`ArtistValues` is before, `Artists` after). `given` has the parameters and `acoustidApiKey`,
which is the deployment's: without it a fingerprint is not looked up. What was found out of the
first artist is kept under its id (`SourceMetadata`), so that another result with that id shows
the same sources. `SchemaRefuses` is the schema of the answer, which throws over a duration that
is not whole (`contracts/v2.ts`), and `BadGateway` what becomes a 502: in `handleGatewayRequest`
for the first version; for the second, whose handlers are returned without an await, in
`node/server.ts:371`, while the Worker's entry, `index.ts`, has no such catch.

### Service and DashboardMetrics

A request is at `pc[r]`, and in `present` while its connection is open: a handler may
outlive it, and frees its slot when it ends. `window` and `active` are the limiters.
A row of the metrics is the set of requests merged into it, so a table is how often
it counts each request; the columns follow from the request's `Shape`. `tail` is the
flush chain, jobs that still have writes to do; `broken` that it has rejected, which
it then does for good. `StoreWrite` and `StoreReject` run or reject the next
write, which may have committed all the same; `HeartbeatTimer`, `SampleWrite` and
`SampleReject` are the samples' chain. A snapshot (`snap[r]`) waits for the flush it
asked for, then for its sample, then reads: in one turn over SQLite, a table at a
time over PostgreSQL. Closing goes through the stages of `close()`: listen no more,
wait for the connections, which are cut after five seconds, flush, wait for the
samples, close the store, close the rest; a rejection skips what is left.

### Dashboard

A replica keeps its setup token, the entries of the two attempt limiters and the gate
in memory, and loses them when it restarts. A request stands at the query, the body,
the queue or the hash it waits for. `hasAdmin`, `createAdmin`, `getAdmin`,
`createSession`, the SELECT and the UPDATE of `resolveSession`, and `revokeSession`
are steps of their own, each of which may fail, or take effect and lose its answer.
`Cleanup` deletes the rows that are over. A session is named by the login that made
it. `out`, `loggedOut`, `uses` and `guesses` are histories for the properties.

## 3. The runs

| Run | Instance | Shows |
|---|---|---|
| `gateway` | 1 subject, 2 keys, 1 redemption, 2 nonces, 2 handlers, clock to 3; either redemptions are exchanged and activated, or one key is used with one nonce (`Bound`) | exchange, activation, revocation, cleanup, verify and metadata in every order: `ExchangeIsSafe`, `AnswersReflectLiveState`, `RevokedIsFinal`, `ActivatedInTime`, `NonceReuseGap`, and that the gateway is a `KeyLife` |
| `cloud_users` | 2 users, 2 subjects, 2 keys, 2 redemptions, 2 requests | `SubjectBoundOnce`, `CandidateHasRequest`, `UndisturbedKeyIsBound`, and `RowsAreOfTheirKeys` while a user changes subject |
| `cloud_returned` | 1 user, 2 redemptions, 2 requests | violated: `ReturnedKeyIsBound` |
| `transport` | 2 keys, 2 callers, 1 slot (MusicBrainz's policy), threshold 1, interval 1, clock to 2, fair | `SlotsAccounted`, `AbortFreesUpstream`, `ProbeWillReport`, `OnlyLastLeaverAborts`, `PacedApart`, `EveryCallerIsAnswered` |
| `transport_probe` | 2 keys, 2 callers, no pacing | violated: `HalfOpenPermitsProbe` |
| `redis` | 3 calls, 2 slots, threshold 2, slots of 2 and a fetch timeout of 2, readings up to 1 late, clock to 4 | `AtMostConcurrencyFetch`, `OneProbeAtATime`, `OpenIsEarned`, `FullOnlyByLiveSlots` |
| `cache_entries` | 2 replicas, 1 request each at a time, times of 1, commands 1 long, clock to 4 | `ServedInTime`, `OneRefresher` |
| `cache_ends` | 2 replicas, 1 request each, fair | `EveryTaskEnds` |
| `search` | 20 requests over 5 endpoints, with and without the AcoustID key, answers chosen to meet and to conflict, limit 2 | `BadGatewayIsEarned`, `NoFallbackSkipped`, `RecordingsAreResolved`, `BestIsAnswered`, `EveryFieldHasItsSource`, `WordsAreBest` |
| `search_malformed` | the same, no lookup rejects | violated: `AllFailedIsBadGateway` |
| `service` | 2 requests and a snapshot over SQLite, 1 and a snapshot over PostgreSQL, 2 at once and per second, fair | `LimitsHold`, `CountedOnce`, `SnapshotHolds`, `WrittenBeforeClosed`, `CloseEnds` |
| `dashboard` | 5 cases: two setups, a limiter of one address over two windows, the limiters and gate of two addresses, a session used, touched and logged out, a change; fair | `LimitsHold`, `LoggedOutStaysOut`, `SessionEnds`, `GuessesBounded`, `OneAdministrator`, `EveryRequestIsAnswered` |

**Bounds.** Two handlers or requests are enough for every race of the authorization hazards:
each is between two. Two keys let one redemption, or one user, meet a second key; two flights
with one slot make a queue in which the abort strikes the head or the only one in it, and
`TransportProof` covers longer ones. Three calls let two fail, or one fail twice, which opens
the provider, and one probe. Their slots last as long as a fetch may (2, as for netease, qqmusic
and kugou by default), so with a late reading a slot lapses in use, and three fetches at once
are reached. At most three failures are counted at a time, and at the last tick no result comes
any more (`Bound` of `MCRedisCoordinator`). Clocks in front of Redis's (`Ahead`) and two probes
that outlive their keys are covered by the theorems only. The clock counts the distinctions the
code makes (before and after a deadline, a window, an opening), not milliseconds: `PendingTTL` 1
and `NonceTTL` 2 with a clock to 3 let both pass. `Transport` counts every wait as over once its
clock stands. `MaxTime`, `Offered` (the kinds of request a run makes), `LastArrival`,
`MaxBeats`, `until` and `restarts` of a case are bounds. So is `Latency` (`Delay` in
`MetadataCache`), the longest a handler, command or reading may take: the code does bound a
request's body and its database connections, but not the sum, so the properties that depend on
it name it, and the theorems hold for every value. `service` and `dashboard` split their
behaviours into cases (`Cases`), since all their requests together are too many: a case holds
the actors of a race. In `search` the evidence is a few results that lie just within and just
beyond what matches (the fingerprint's duration, which its results take, is not that of the
recordings it is found with), that list one recording twice or describe it differently, have
durations that are not whole and artists of one id, and each lookup may also miss, fail, be
malformed or reject. Symmetry is used only over sets whose members the model does not tell
apart, and never in a run with a liveness property. Deadlock is checked except in `service`,
where the process ends, and in `dashboard`, where each request comes once and all are answered
at last.

In `MetadataCache` the fresh, stale and peer-waiting times are 1 or 2 units so that
each may pass within an await; the lease lapses in use in `cache_entries`. `cache_ends`
starts requests at the first tick only (`LastArrival`), so that the bounded clock
passes all their deadlines.

**Fairness.** It is weak but for one case, and asked only of what the code bounds.
In `transport`, of each flight's own steps and of the clock; in `cache_ends`, of each
task's commands and each replica's flight, with strong fairness of `TimePasses`, which
each command under way holds up for a moment: time goes on. A fetch ends because
`setTimeout` aborts it; `coordinator.acquire` has a deadline; a call to Redis returns
or throws, as the client is built without an offline queue, with one retry and a
connection timeout. The queue, the line and the probe get no fairness of their own: a
queued flight moves only because another gives back its slot. In `service` handlers
end within their deadlines, the database answers or rejects, and `close()` goes on. In
`dashboard` a body ends within the request's timeout, a queued login within the gate's,
and a hash and a query end. Arrivals, ticks of the last two, restarts and signals get none.

## 4. What is proved

TLAPS checks these for every value of the constants that satisfies the assumption
its module names (`ConstantsAssumption`, `NoneIsNew`, `CoordinatorAssumption`,
`CacheAssumption`, `PolicyAssumption`, `DashboardAssumption`, `ServiceAssumption`,
`MetricsAssumption`, ...): limits and times are natural numbers, positive where the
configuration requires it, and sets that stand for different things do not meet. TLC
evaluates each of them in the runs.

- `TypeCorrect` of five specifications (`CacheTypeCorrect` of `MetadataCache`); the
  invariants of the other three include their types. In `GatewayAuth` it comes
  together with `WellFormed`, without which it is not inductive: rows refer to rows that
  exist, and each step of a handler belongs to certain operations and to rows that exist.
- `RowsAreSafe`: `ExchangeIsSafe`, that is `RedemptionMintsOnce` and `PendingHasToken`,
  inductive once typed.
- `RevocationIsFinal`, `ActivationIsTimely`, `NoncesAreNotReused`: the action
  properties. The last two rest on `TimeSafe`: a running handler's `now` is at most
  `Latency` old (`OnTime`), and a used nonce has its row or its time is over by the
  real clock (`NonceKept`).
- `AnswersAreBacked`: `AnswersReflectLiveState`, from `AllBacked`: what each step of
  a handler has already seen alive since the request arrived.
- `GatewayImplementsKeyLife`: initial tables map to KeyLife's, and each action to one
  of KeyLife's or to a stutter; `Initialize` withdraws all lapsed keys at once.
- `RowsNeverLie`, `OneUserPerSubject`, `UndisturbedReturns` of `CloudBinding`. The
  inductive invariant is `Safe`: the types, what a request standing at each step may
  rely on (`Working`), what each call carries (`CallFits`, `OneCall`), that minted
  keys have a holder, and `RowsTrue`. `OneUserPerSubject` adds `Exclusive` (a row's
  subject is in no other user's row of either table), `UndisturbedReturns` adds
  `OwnRows` and `OwnKeys` (a request that reserved, and that no other request of its
  user disturbed, finds its own row; its call carries its own key; a request that
  may promote has activated).
- `CandidatesAreAttended` (`CandidateHasRequest`) of `CloudBinding`, from `Attended`: a
  candidate that nothing stranded has a request of its user that has yet to
  promote or delete it.
- `SlotsAreAccounted`, `AbortsFree`, `LastLeaverAborts`, `RequestsArePaced` of `Transport`.
  `SlotsAccounted` is not inductive: the invariant is `Books`: `Lists` (the queue and the line
  are sequences in which exactly the flights that stand there occur, each once, so that an abort
  takes out one), `Fits` (what a flight holds fits where it stands), a finite set of holders
  that `active` counts, and no queue beside a free slot. `AbortsFree` rests on `Free`, the same
  of one flight, which each step keeps of the flight it moves. `RequestsArePaced` rests on
  `Spaced`: the next time is the interval after the last request or later.
- `ProbeReports` (`ProbeWillReport`) of `Transport`, inductive once typed; it includes
  the type of the breaker.
- `SlotsSuffice` (`AtMostConcurrencyFetch`) and `ProbesAreAlone` (`OneProbeAtATime`)
  of `RedisCoordinator`, for any timeouts and clocks: they speak of the fetches whose slots, or
  probe keys, have lapsed by nobody's clock, and `SlotsSuffice` says by when every fetch is over.
  `LongSlotsSuffice` follows: if a slot's life is more than `FetchTimeout`, `Latency` and `Ahead`
  together, no more fetch at once than the policy allows. The defaults of three providers do not
  satisfy that (section 5).
  The invariant: no step is older than its bound (`Punctuality`), a grant or a fetch whose
  slot lasts has its token in the set until a time ahead of every clock (`SlotKept`), the set has
  no more tokens than the policy allows (`FewSlots`), and a probing call has its
  probe key for that long (`ProbeKept`).
- `LeaseIsOnes` (`OneRefresher`) and `AnswersInTime` (`ServedInTime`) of
  `MetadataCache`. The invariant: a lease whose life is not over is the one in Redis
  (`LeaseKnown`), a command is at most `Delay` old (`Prompt`), and only a refresh
  follows an answer (`Answered`). A holder's lease may lapse while it still fetches,
  so `OneRefresher` speaks of leases and not of fetches.
- `OpeningIsEarned` (`OpenIsEarned`) and `WaitsBehindLiveSlots` (`FullOnlyByLiveSlots`) of
  `RedisCoordinator`. The invariant is `Honest`: a reading is used
  within `Latency` (`Fresh`), and each failure in the set is the only one of its call and level,
  is in the history of those counted since the last answer, and, while its call may send the
  record again, bears the time it would be sent with (`OneFailureEach`), so that a repetition
  adds nothing. What is left is that a set of different records is no larger than the set of
  their calls and levels (`FailuresAreRecords`). Records, not calls, are counted: one call may
  make three.
- Of `Dashboard`. `LimitsAreHeld` (`LimitsHold`) from `Sound` (the types, and for each gate: its
  queue lists those who stand in it, each once, so that a timeout takes out one; its count is
  that of those who hash), `Limiters` (an address has one entry) and `Ends` (no idle end is
  after the absolute one). `AdministratorIsOne` (`OneAdministrator`) from `AdminAnswered`: who
  is still on the way to `createAdmin` is not the administrator. `LogoutIsFinal`
  (`LoggedOutStaysOut`) from `LoggedOut`: the row of a session whose logout was answered is
  revoked or gone, and stays so under late touches. `SessionsEnd` (`SessionEnds`) from `Lives`:
  the uses of a session are a chain from its creation in which each follows another by less than
  the idle time; the row's time is one of them, and a request that is still to touch the row
  fits in, even before later ones (`BetweenUses`). `GuessesAreBounded` (`GuessesBounded`) from
  `Guesses`: at most `MaxLogins` have passed since the window of an address's entry began, one
  of them as it began, and fewer in a window before it. The bound itself is not inductive, as it
  forgets where the limiter's window lies.
- Of `Service` over `DashboardMetrics`: `LimitsAreKept` (`LimitsHold`), `CountsOnce`
  (`CountedOnce`), `SnapshotsHold` (`SnapshotHolds`) and `FlushedBeforeClosed`
  (`WrittenBeforeClosed`), all from one invariant, `Inv`. `Placed` says where a recorded request
  is: no two jobs of the chain have still to write it to the same table, and none writes what a
  table or the buffer has. `Limiting` counts the handlers, and who was let in belongs to the
  limiter's second. `Snaps` and `Closing` say what a snapshot, or `close()`, that waits at a
  place of the chain can rely on: what was recorded before it asked is in the tables or in a job
  in front of that place (`Safe`). A close whose flush has rejected goes on without that, but
  then the chain is broken. `SnapshotsHold` ends with the histogram: its counts are those of the
  requests within each bound, and a percentile is the least bound with enough of them
  (`LeastOf`, `GreatestOf` of `Lists`).

- All six properties of `Search`, for any requests and answers, lists of any length and any
  limits. `SearchIsSettled` is the inductive invariant (`Inv`): what was asked is due
  (`AskedInTurn`), which holds because what is due stays due as answers arrive (`DueGrows`),
  and an answer was decided by all the lookups that were due (`Settled`). The rest follows
  state by state:
  - `FailureIsEarned` (`BadGatewayIsEarned`): a base lookup that brought nothing leaves
    nothing to answer, so that an empty body adds nothing to the rule. What rejects and is not
    caught, an enrichment included, and what the schema of the answer refuses, make 502, too.
  - `EmptyIsExhaustive` (`NoFallbackSkipped`): what is made of some results is not empty, but for
    artists of which none has both an id and a name.
  - `LongestWordsWin` (`WordsAreBest`), `OnlyTheBestIsAnswered` (`BestIsAnswered`): what a
    filter and a sort make, position by position (`PickOf`, `SortOf`).
  - `FieldsAreAttributed` (`EveryFieldHasItsSource`): a MusicBrainz artist has no fields of
    its own, and Wikidata is asked only for one that links to it. What was found belongs to the
    first artist and to those that have its id.
  - `EvidenceIsResolved` (`RecordingsAreResolved`): `Grouped` says what the groups of the first
    n results are: a result joins an earlier head or is one, and each is in one group. Adding a
    result keeps this (`GroupsAre`, whose least counterexample would be one result more than no
    counterexample). From it: a record's results are apart (`MembersAreApart`), heads have
    different keys (`HeadsDiffer`), and there are as many cells as results (`CellsOfRecords`).
    That results are apart and in exactly one record holds whatever the providers answer.
    `RecordsDiffer`, that records have different ids, supposes that iTunes lists no track twice
    (`TracksAreListedOnce`), since an iTunes id is a record's only in the absence of another.
    `ReversedAlike`, that a list and its reverse give the same ids, supposes besides that no
    provider describes one recording in two ways in the answers to one request
    (`ProvidersAgree`): otherwise two results have the same identifier and different titles, and
    which of them a track is compared with is up to the order. No code ensures either, as answers
    are cached apart, so both are conditions in `RecordingsAreResolved`, and the run has evidence
    that fails them. From them, heads are settled (`Settles`) by the comparison of results and
    not by their places (`SameKeys`), and of two sets of heads the first difference would have to
    be a head of both.

  `RecordingsAreResolved` used to say that any two results of a record lie three seconds
  apart, which the proof showed to be too much: results with one MBID are joined
  whatever their durations, and a fingerprint's results take the duration the client
  gave (`core.ts:1336`). It now says it of those joined by their texts, with the first of the
  record, and the run gives a fingerprint a duration of its own.

Only model-checked:

- Everything under fairness: `EveryCallerIsAnswered`, `EveryTaskEnds`, `CloseEnds` and
  `EveryRequestIsAnswered`. Liveness and ENABLED are beyond this prover.
- That `Pruned` is the code's filter on lists in the order of the clock, checked on small
  lists.

## 5. Where the code and its documents disagree

- `cloud_returned`: two redemptions of one user run at once. Both reserve, the
  second overwrites the first's candidate; the first then promotes the second's and
  answers with its own key, which is bound nowhere. README.md:76 promises that a
  key is returned only when its activation and its binding both succeeded. What
  does hold is `UndisturbedKeyIsBound`.
- `transport_probe`: the probe of a half-open breaker is refused by the coordinator,
  or aborted by its caller. Neither is recorded, `halfOpenProbe` stays set, and
  the breaker refuses the provider's requests until a flight from before it opened
  reports or the process restarts. `test/transport.test.ts:213` expects
  "one half-open probe". What does hold is `ProbeWillReport`.
- `search_malformed`: a lookup is counted as reached when its body arrives, and a body
  that its schema refuses becomes a failure only afterwards. If this is the fate of all
  base lookups, the answer is an empty 200 that may be cached for a day, where
  README.md:31 promises a 502. What does hold is `BadGatewayIsEarned`.

Noticed while modelling, and not checked by a run of their own unless named:

- A slot lapses `timeoutMs + 2,000` ms after the clock was read (`redis-cache.ts:169`),
  but a fetch is aborted only after `UPSTREAM_TIMEOUT_MS`, by default 4,500
  (`transport.ts:350`). For netease, qqmusic and kugou the two are equal, so with any
  delay the slot lapses in use and one fetch more than the policy's concurrency is let in; the
  `redis` run reaches it. `AtMostConcurrencyFetch` therefore bounds the fetches whose slots last,
  and says how long one may outlive its slot.
- When `coordinator.record` throws, perhaps after it has taken effect, the catch around it
  records again as another failure (`transport.ts:420-459`): one fetch may count three times
  towards opening the provider, and an answered one may count as failures (`OpenIsEarned`).
- An aborted flight stays in `pending` until its coordinator calls end, and who joins
  it then is answered `aborted` without having cancelled (visible in `Transport`;
  `test/transport.test.ts:33` speaks only of a follower that joined before).
- README.md:31 says that a failed enrichment never turns a base result into 502. The deadline
  of an artist's profile rejects a lookup that waits for another replica
  (`transport.ts:258`, 791-808), which `core.ts:602-613` does not catch: the answer is 502.
  `BadGatewayIsEarned` names this as one of the ways to a 502.
- The schema of an answer throws over what a provider gave (a duration that is not whole) at
  `core.ts:324` and 865: one such result makes all of the answer a 502 (`SchemaRefuses`). The
  Worker's entry has no catch for what a handler of the second version rejects with.
- Without an AcoustID key a request that gives only a fingerprint is answered with an empty
  200, though no lookup was made (`core.ts:188`, 266).
- Artists without an id or a name are dropped after the fallbacks were decided (`core.ts:560`):
  if MusicBrainz finds only such, the answer is empty and nobody else is asked.
- Sources of artists are kept by id (`core.ts:563`): a result with the first one's id shows its
  enrichments as its own.
- `decodeKrc` drops the promise of its writer (`core.ts:1274`): its `catch` sees what the
  reader rejects with, but nobody handles the same rejection of the dropped promise.
- An empty answer after a partial failure is cached as long as one after none.
- `possibleDuplicates` may name a recording that the limit has cut (`core.ts:311`).
- One rejected write rejects the metrics' flush chain for good: snapshots answer 500,
  nothing more is written, and `close()` rejects and skips its later steps
  (`broken` in `CountedOnce`; `CloseEnds` then ends as a crash).
- A start that finds the service not ready closes it with exit code 1, which the `finally`
  of closing sets to 0 (`server.ts:190`).
- Two touches over PostgreSQL may be written in either order, so the idle end of a
  session may move back; `SessionEnds` says how far this goes.

## 6. Not modelled

- Of modelled components: audit rows (nothing reads them back), the version bound into
  a ciphertext, the registration of issuers, the session version (nothing changes it),
  wording, formats and schemas of bodies, a URL that does not parse, a second signal,
  and connections kept open between two requests. The order of locks within a
  transaction of the cloud's store is not modelled: a deadlock there is an aborted
  transaction, which is `Fail`. A sample's figures are read in the step that writes it.
  In `Service` the clock stands once closing begins.
- SQLite cache: one process, one synchronous statement at a time, no lease.
  `MetadataCache` is over Redis.
- Authorization contract, key envelopes: pure functions of characters and keys; a
  signature is verified or not.
- Cloud nonces and outgoing HTTP: an in-memory map and a client; a call is served,
  refused or late in `CloudBinding`.
- State migrations: scripts an operator runs once, each in a transaction. A repeated
  `migrate-authorization-state` over a changed file overwrites what changed since
  (`ON CONFLICT DO UPDATE`), a revocation included; README.md:204 promises idempotence
  of another script only.
- Entry points, configuration, documents, the dashboard's page: no state whose
  interleavings could matter.

## 7. What could follow

1. The coordinator that `Transport` sees (grants, refuses or throws) as an abstract
   specification that `RedisCoordinator` implements, as `KeyLife` is for the gateway.
2. A migration that is repeated over newer rows.
