---------------------------- MODULE MetadataCache ----------------------------
(***************************************************************************)
(* One URL in the caches of several replicas (getJson, deferRefresh and    *)
(* coordinatedFetch of transport.ts over RedisJsonCache): each replica's   *)
(* memory, the shared entry in Redis, and the lease of whoever refreshes   *)
(* it.  A fresh entry answers; a stale one answers too and is refreshed    *)
(* behind the answer; without one a request fetches if it gets the lease,  *)
(* and otherwise looks for the entry of the replica that has it, until a   *)
(* deadline.                                                               *)
(*                                                                         *)
(* An entry is the time it was fetched at, from which both its times       *)
(* follow; 0 is no entry.  A command to Redis is sent, runs, and is        *)
(* answered within Delay.  All requests have the same headers, so that a   *)
(* replica has one flight; what happens inside is the module Transport's:  *)
(* here it succeeds or fails, though its callers may have left.  Every     *)
(* stored body is one that JSON.stringify wrote, so the branches for a     *)
(* broken one are not here.                                                *)
(***************************************************************************)
EXTENDS Integers

CONSTANTS
  Replicas,     \* processes
  Slots,        \* requests a replica may serve at once
  Nobody,       \* no task
  FreshFor,     \* freshMs, and the cache's ttlMs
  StaleFor,     \* staleMs
  LeaseFor,     \* the life of a lease: the fetch timeout and 2,000 ms
  PeerWait,     \* how long a request waits for another's entry: 2,000 ms
  Delay,        \* the longest a command to Redis takes
  LastArrival,  \* bound: no request arrives later
  LastTime      \* bound: the last value of the clock

ASSUME CacheAssumption ==
  /\ FreshFor \in Nat /\ StaleFor \in Nat
  /\ LeaseFor \in Nat \ {0} /\ PeerWait \in Nat \ {0}
  /\ Delay \in Nat /\ LastArrival \in Nat /\ LastTime \in Nat

\* A request, and the refresh it may leave behind, is a task of its replica.
Tasks == Replicas \X Slots
Replica(t) == t[1]

ASSUME NobodyAssumption == Nobody \notin Tasks

VARIABLES
  time,
  shared,        \* the entry in Redis
  expires,       \* when Redis drops it: counted from the time SET ran
  leaseBy,       \* whose token the lease holds, or Nobody
  leaseUntil,    \* when the lease expires; 0: there is none
  memory,        \* the entry in each replica's memory
  flight,        \* the flight of each replica: none, fetching, putting
  fetched,       \* putting: the entry that is being stored
  phase,         \* where each task stands
  deferred,      \* whether it is a refresh behind an answer
  since,         \* when its present await began: the code's now
  deadline,      \* when it stops waiting for a peer
  read,          \* what its command found: an entry
  lease,         \* when the lease it holds expires; 0: it holds none
  served         \* history: the entry its request was answered from

entry == <<shared, expires>>
redis == <<entry, leaseBy, leaseUntil>>
replica == <<memory, flight, fetched>>
task == <<phase, deferred, since, deadline, read, lease, served>>
cacheVars == <<time, redis, replica, task>>

Phases == {"idle", "reading", "found", "leasing", "sleeping", "polling", "polled",
           "discarding", "flight", "releasing"}

CacheTypeOK ==
  /\ time \in Nat \ {0}
  /\ shared \in Nat /\ expires \in Nat
  /\ leaseBy \in Tasks \cup {Nobody}
  /\ leaseUntil \in Nat
  /\ memory \in [Replicas -> Nat]
  /\ flight \in [Replicas -> {"none", "fetching", "putting"}]
  /\ fetched \in [Replicas -> Nat]
  /\ phase \in [Tasks -> Phases]
  /\ deferred \in [Tasks -> BOOLEAN]
  /\ since \in [Tasks -> Nat]
  /\ deadline \in [Tasks -> Nat]
  /\ read \in [Tasks -> Nat]
  /\ lease \in [Tasks -> Nat]
  /\ served \in [Tasks -> Nat]
  /\ \A t \in Tasks : phase[t] = "flight" => flight[Replica(t)] # "none"

CacheInit ==
  /\ time = 1
  /\ shared = 0 /\ expires = 0 /\ leaseBy = Nobody /\ leaseUntil = 0
  /\ memory = [p \in Replicas |-> 0]
  /\ flight = [p \in Replicas |-> "none"]
  /\ fetched = [p \in Replicas |-> 0]
  /\ phase = [t \in Tasks |-> "idle"]
  /\ deferred = [t \in Tasks |-> FALSE]
  /\ since = [t \in Tasks |-> 0]
  /\ deadline = [t \in Tasks |-> 0]
  /\ read = [t \in Tasks |-> 0]
  /\ lease = [t \in Tasks |-> 0]
  /\ served = [t \in Tasks |-> 0]

-----------------------------------------------------------------------------
(* Entries and tasks *)

\* Fault: an entry is used however old it is.
Stored(e, now) == e # 0

\* An entry answers while it is not past its stale time.
Usable(e, now) == e # 0 /\ e + FreshFor + StaleFor > now

StillFresh(e, now) == e # 0 /\ e + FreshFor > now

\* The task awaits its next step from now on.
Await(t, s) ==
  /\ phase' = [phase EXCEPT ![t] = s]
  /\ since' = [since EXCEPT ![t] = time]

\* The task is over: its request was answered or rejected, its refresh has ended.
End(t) ==
  /\ phase' = [phase EXCEPT ![t] = "idle"]
  /\ deferred' = [deferred EXCEPT ![t] = FALSE]
  /\ since' = [since EXCEPT ![t] = 0]
  /\ deadline' = [deadline EXCEPT ![t] = 0]
  /\ read' = [read EXCEPT ![t] = 0]
  /\ lease' = [lease EXCEPT ![t] = 0]
  /\ served' = [served EXCEPT ![t] = 0]

\* The request is answered from e, fresh at now or else with a refresh behind it.
Serve(t, e, now) ==
  IF StillFresh(e, now)
  THEN End(t)
  ELSE /\ Await(t, "leasing")
       /\ deferred' = [deferred EXCEPT ![t] = TRUE]
       /\ read' = [read EXCEPT ![t] = 0]
       /\ served' = [served EXCEPT ![t] = e]
       /\ UNCHANGED <<deadline, lease>>

NoEntry == shared' = 0 /\ expires' = 0

\* The replica has a flight, or begins one.
Begin(p) ==
  /\ flight' = [flight EXCEPT ![p] = IF @ = "none" THEN "fetching" ELSE @]
  /\ UNCHANGED <<memory, fetched>>

\* sharedFetch: the task joins its replica's flight.
JoinFlight(t) ==
  /\ Begin(Replica(t))
  /\ phase' = [phase EXCEPT ![t] = "flight"]
  /\ since' = [since EXCEPT ![t] = 0]
  /\ deadline' = [deadline EXCEPT ![t] = 0]
  /\ read' = [read EXCEPT ![t] = 0]
  /\ UNCHANGED <<deferred, served>>

\* The caller left during a command: the flight is begun all the same, and left.
Depart(t) == ~deferred[t] /\ Begin(Replica(t)) /\ End(t)

-----------------------------------------------------------------------------
(* getJson *)

\* A request arrives and looks into its replica's memory; an entry past its stale
\* time is dropped there.
Arrive(t) ==
  LET p == Replica(t)  e == memory[p]
  IN  /\ phase[t] = "idle"
      /\ time <= LastArrival
      /\ IF Usable(e, time)
         THEN Serve(t, e, time) /\ UNCHANGED memory
         ELSE /\ Await(t, "reading")
              /\ memory' = [memory EXCEPT ![p] = 0]
              /\ UNCHANGED <<deferred, deadline, read, lease, served>>
      /\ UNCHANGED <<time, redis, flight, fetched>>

\* GET runs.
ReadShared(t) ==
  /\ phase[t] = "reading"
  /\ phase' = [phase EXCEPT ![t] = "found"]
  /\ read' = [read EXCEPT ![t] = shared]
  /\ UNCHANGED <<time, redis, replica, deferred, since, deadline, lease, served>>

\* Its answer arrives, with an entry past its stale time: the key is deleted.
Overdue(t) ==
  /\ phase[t] \in {"found", "polled"}
  /\ read[t] # 0 /\ ~Usable(read[t], since[t])
  /\ Await(t, "discarding")
  /\ read' = [read EXCEPT ![t] = 0]
  /\ UNCHANGED <<time, redis, replica, deferred, deadline, lease, served>>

\* DEL runs, whatever the key holds by now: no entry was found.
Discard(t) ==
  /\ phase[t] = "discarding"
  /\ NoEntry
  /\ phase' = [phase EXCEPT ![t] = IF deadline[t] = 0 THEN "found" ELSE "polled"]
  /\ UNCHANGED <<time, leaseBy, leaseUntil, replica>>
  /\ UNCHANGED <<deferred, since, deadline, read, lease, served>>

\* Its answer arrives: an entry is put into memory, whatever is there by now.
Found(t) ==
  /\ phase[t] = "found"
  /\ read[t] = 0 \/ Usable(read[t], since[t])
  /\ IF read[t] # 0
     THEN /\ memory' = [memory EXCEPT ![Replica(t)] = read[t]]
          /\ Serve(t, read[t], since[t])
     ELSE /\ Await(t, "leasing")
          /\ UNCHANGED <<memory, deferred, deadline, read, lease, served>>
  /\ UNCHANGED <<time, redis, flight, fetched>>

\* GET or DEL throws, and the request with it.
ReadFails(t) ==
  /\ phase[t] \in {"reading", "polling", "discarding"}
  /\ End(t)
  /\ \/ phase[t] = "discarding" /\ NoEntry
     \/ UNCHANGED entry
  /\ UNCHANGED <<time, leaseBy, leaseUntil, replica>>

-----------------------------------------------------------------------------
(* coordinatedFetch *)

NoLease == leaseBy' = Nobody /\ leaseUntil' = 0

\* SET NX: the lease is nobody's.
LeaseFree == leaseBy = Nobody

\* The lease is taken, and the task fetches under it; or the answer is lost, and
\* the client sends the command again.
TakeLease(t) ==
  /\ phase[t] = "leasing"
  /\ LeaseFree
  /\ leaseBy' = t
  /\ leaseUntil' = time + LeaseFor
  /\ \/ JoinFlight(t) /\ lease' = [lease EXCEPT ![t] = time + LeaseFor]
     \/ UNCHANGED <<replica, task>>
  /\ UNCHANGED <<time, entry>>

\* Another has the lease: a refresh is dropped, a request waits for its entry.
LeaseTaken(t) ==
  /\ phase[t] = "leasing"
  /\ ~LeaseFree
  /\ IF deferred[t]
     THEN End(t) /\ UNCHANGED replica
     ELSE \/ /\ Await(t, "sleeping")
             /\ deadline' = [deadline EXCEPT ![t] = time + PeerWait]
             /\ UNCHANGED <<replica, deferred, read, lease, served>>
          \/ Depart(t)
  /\ UNCHANGED <<time, redis>>

\* The lease cannot be asked for: the task fetches without it.
LeaseFails(t) ==
  /\ phase[t] = "leasing"
  /\ JoinFlight(t)
  /\ UNCHANGED <<time, redis, lease>>

Wake(t) ==
  /\ phase[t] = "sleeping"
  /\ time > since[t]
  /\ Await(t, "polling")
  /\ UNCHANGED <<time, redis, replica, deferred, deadline, read, lease, served>>

Poll(t) ==
  /\ phase[t] = "polling"
  /\ phase' = [phase EXCEPT ![t] = "polled"]
  /\ read' = [read EXCEPT ![t] = shared]
  /\ UNCHANGED <<time, redis, replica, deferred, since, deadline, lease, served>>

\* Fault: the request waits on, whatever the time.
NeverOver(t) == FALSE

WaitOver(t) == time >= deadline[t]

\* A fresh entry of the peer answers; otherwise the request sleeps again, or
\* stops waiting and fetches.
Polled(t) ==
  /\ phase[t] = "polled"
  /\ read[t] = 0 \/ Usable(read[t], since[t])
  /\ IF StillFresh(read[t], since[t])
     THEN /\ memory' = [memory EXCEPT ![Replica(t)] = read[t]]
          /\ End(t)
          /\ UNCHANGED <<flight, fetched>>
     ELSE \/ WaitOver(t) /\ JoinFlight(t) /\ UNCHANGED lease
          \/ /\ ~WaitOver(t)
             /\ Await(t, "sleeping")
             /\ read' = [read EXCEPT ![t] = 0]
             /\ UNCHANGED <<replica, deferred, deadline, lease, served>>
          \/ Depart(t)
  /\ UNCHANGED <<time, redis>>

\* Fault: the lease is deleted, whoever has it.
AnyonesLease(t) == TRUE

\* The script compares the token before it deletes.
OwnLease(t) == leaseBy = t

\* The lease is given back, or the command is lost and the task rejects.
GiveBack(t) ==
  /\ phase[t] = "releasing"
  /\ \/ OwnLease(t) /\ NoLease
     \/ UNCHANGED <<leaseBy, leaseUntil>>
  /\ End(t)
  /\ UNCHANGED <<time, entry, replica>>

\* The caller goes away: in its sleep the request rejects, in the flight it is
\* answered at once.  A refresh has no caller.
Cancel(t) ==
  /\ ~deferred[t]
  /\ \/ phase[t] = "sleeping" /\ End(t)
     \/ /\ phase[t] = "flight"
        /\ IF lease[t] = 0
           THEN End(t)
           ELSE /\ phase' = [phase EXCEPT ![t] = "releasing"]
                /\ UNCHANGED <<deferred, since, deadline, read, lease, served>>
  /\ UNCHANGED <<time, redis, replica>>

-----------------------------------------------------------------------------
(* Flights *)

Passengers(p) == {t \in Tasks : Replica(t) = p /\ phase[t] = "flight"}

\* The flight settles: who holds a lease gives it back, the others are done.
Settle(p) ==
  LET done == {t \in Passengers(p) : lease[t] = 0}
  IN  /\ flight' = [flight EXCEPT ![p] = "none"]
      /\ fetched' = [fetched EXCEPT ![p] = 0]
      /\ phase' = [t \in Tasks |-> IF t \in done THEN "idle"
                                   ELSE IF t \in Passengers(p) THEN "releasing"
                                   ELSE phase[t]]
      /\ deferred' = [t \in Tasks |-> deferred[t] /\ t \notin done]
      /\ served' = [t \in Tasks |-> IF t \in done THEN 0 ELSE served[t]]
      /\ UNCHANGED <<since, deadline, read, lease>>

\* The upstream answers: the entry is put into memory, and sent to Redis.
Fetched(p) ==
  /\ flight[p] = "fetching"
  /\ memory' = [memory EXCEPT ![p] = time]
  /\ flight' = [flight EXCEPT ![p] = "putting"]
  /\ fetched' = [fetched EXCEPT ![p] = time]
  /\ UNCHANGED <<time, redis, task>>

FetchFails(p) ==
  /\ flight[p] = "fetching"
  /\ Settle(p)
  /\ UNCHANGED <<time, redis, memory>>

\* SET PX runs, or throws, with or without having run.
Put(p) ==
  /\ flight[p] = "putting"
  /\ \/ shared' = fetched[p] /\ expires' = time + FreshFor + StaleFor
     \/ UNCHANGED entry
  /\ Settle(p)
  /\ UNCHANGED <<time, leaseBy, leaseUntil, memory>>

-----------------------------------------------------------------------------
(* Everything else *)

\* Entries of other URLs push this one out of memory.
Evict(p) ==
  /\ memory[p] # 0
  /\ memory' = [memory EXCEPT ![p] = 0]
  /\ UNCHANGED <<time, redis, flight, fetched, task>>

\* A replica dies and starts again, with an empty memory.
Restart(p) ==
  LET gone == {t \in Tasks : Replica(t) = p}
      Cleared(f) == [t \in Tasks |-> IF t \in gone THEN 0 ELSE f[t]]
  IN  /\ memory' = [memory EXCEPT ![p] = 0]
      /\ flight' = [flight EXCEPT ![p] = "none"]
      /\ fetched' = [fetched EXCEPT ![p] = 0]
      /\ phase' = [t \in Tasks |-> IF t \in gone THEN "idle" ELSE phase[t]]
      /\ deferred' = [t \in Tasks |-> deferred[t] /\ t \notin gone]
      /\ since' = Cleared(since) /\ deadline' = Cleared(deadline) /\ read' = Cleared(read)
      /\ lease' = Cleared(lease) /\ served' = Cleared(served)
      /\ UNCHANGED <<time, redis>>

\* A command to Redis takes at most Delay, and a sleep one unit of time.
Punctual(t) ==
  /\ phase[t] \in {"reading", "found", "leasing", "polling", "polled", "discarding"} =>
       time < since[t] + Delay
  /\ phase[t] = "sleeping" => time <= since[t]

\* Keys whose time is over are gone.
TimePasses ==
  /\ time < LastTime
  /\ \A t \in Tasks : Punctual(t)
  /\ time' = time + 1
  /\ IF expires <= time' THEN NoEntry ELSE UNCHANGED entry
  /\ IF leaseUntil <= time' THEN NoLease ELSE UNCHANGED <<leaseBy, leaseUntil>>
  /\ UNCHANGED <<replica, task>>

Command(t) ==
  \/ ReadShared(t) \/ Overdue(t) \/ Discard(t) \/ Found(t) \/ ReadFails(t)
  \/ TakeLease(t) \/ LeaseTaken(t) \/ LeaseFails(t)
  \/ Wake(t) \/ Poll(t) \/ Polled(t) \/ GiveBack(t)

Fly(p) == Fetched(p) \/ FetchFails(p) \/ Put(p)

\* The bounded clock has stopped and every task is over.
AllEnded ==
  /\ time = LastTime
  /\ \A t \in Tasks : phase[t] = "idle"
  /\ UNCHANGED cacheVars

CacheNext ==
  \/ \E t \in Tasks : Arrive(t) \/ Command(t) \/ Cancel(t)
  \/ \E p \in Replicas : Fly(p) \/ Evict(p) \/ Restart(p)
  \/ TimePasses
  \/ AllEnded

CacheSpec == CacheInit /\ [][CacheNext]_cacheVars

\* Every command is answered or throws, every flight ends, and time goes on.
FairCacheSpec ==
  /\ CacheSpec
  /\ \A t \in Tasks : WF_cacheVars(Command(t))
  /\ \A p \in Replicas : WF_cacheVars(Fly(p))
  /\ SF_cacheVars(TimePasses)

-----------------------------------------------------------------------------
(* Properties *)

\* No answer comes from an entry past its stale time when the request looked, though
\* entries pass from Redis to memories and between replicas; and a stale answer
\* leaves a refresh behind.
ServedInTime ==
  \A t \in Tasks : served[t] # 0 =>
    /\ deferred[t]
    /\ phase[t] = "leasing" => since[t] < served[t] + FreshFor + StaleFor + Delay

\* Of the tasks that took the lease less than its life ago, one holds it: a late
\* release never takes the lease away from the next.
OneRefresher ==
  \A s, t \in Tasks : lease[s] > time /\ lease[t] > time => s = t

\* Every request is answered and every refresh ends: nobody waits for good for a
\* peer that failed, died, or whose lease nobody will give back.
EveryTaskEnds == \A t \in Tasks : phase[t] # "idle" ~> phase[t] = "idle"
=============================================================================
