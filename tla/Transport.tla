------------------------------ MODULE Transport ------------------------------
(***************************************************************************)
(* How one process fetches from one provider (JsonFetchTransport):         *)
(* requests for one key share a flight, a flight asks the circuit breaker, *)
(* the shared coordinator and the semaphore before it fetches, and tells   *)
(* the breaker and the coordinator how it went.  Callers may leave at any  *)
(* time; the last one to leave aborts the flight.                          *)
(*                                                                         *)
(* The deployment is the external one, with a coordinator (Redis) and a    *)
(* shared cache, so that every await below is a real one: each is a step   *)
(* of its own, and callers and other flights act between them.  Code       *)
(* between two awaits is one step, the continuations included that a       *)
(* promise runs as soon as it settles.  The coordinator is modelled by     *)
(* what it answers: it grants, refuses or throws.  Before it fetches, a    *)
(* flight to MusicBrainz waits for its turn and for Interval to pass.      *)
(***************************************************************************)
EXTENDS CircuitBreaker, SequencesExt

CONSTANTS
  Keys,          \* request keys: provider, canonical URL and headers
  Callers,       \* callers that may wait at once
  Concurrency,   \* policy.concurrency
  Interval,      \* musicBrainzIntervalMs, 0 for every other provider
  MaxTime        \* bound: the last value of the clock

ASSUME ConcurrencyAssumption ==
  Concurrency \in Nat \ {0} /\ Interval \in Nat /\ MaxTime \in Nat

VARIABLES
  clock,         \* Date.now()
  breaker,       \* the provider's CircuitBreaker
  active, queue, \* the provider's AsyncSemaphore
  stage,         \* where the flight of each key stands; none: not in pending
  waiters,       \* its subscribers
  aborted,       \* whether its controller was aborted
  holds,         \* what it must give back: the coordinator's grant, a slot
  result,        \* what it will answer
  level,         \* recording: the try block the record stands in
  turns,         \* musicBrainzTail: the flights in waitForMusicBrainz, in order
  nextAt,        \* nextMusicBrainzAt
  silent,        \* history: since the last probe began, a flight ended untold
  fetchedAt      \* history: when a flight to MusicBrainz last began to fetch

semaphore == <<active, queue>>
flight == <<stage, waiters, aborted, holds, result, level>>
pace == <<turns, nextAt, fetchedAt>>
vars == <<clock, breaker, semaphore, flight, pace, silent>>

Stages == {"none", "coordinate", "queued", "pacing", "fetch", "body", "recording",
           "releasing", "putting"}
Results == {"none", "success", "rejected", "failed", "aborted", "circuit_open", "threw"}

\* A record that throws is caught by the next block out: the JSON try, the try
\* of the fetch, the try of the whole, and then nothing.
Levels == {"json", "fetch", "whole", "last"}

\* The breaker's type is part of ProbeWillReport.
TypeOK ==
  /\ clock \in Nat \ {0}
  /\ active \in 0..Concurrency
  /\ queue \in Seq(Keys)
  /\ stage \in [Keys -> Stages]
  /\ waiters \in [Keys -> SUBSET Callers]
  /\ aborted \in [Keys -> BOOLEAN]
  /\ holds \in [Keys -> SUBSET {"grant", "slot"}]
  /\ result \in [Keys -> Results]
  /\ level \in [Keys -> Levels]
  /\ turns \in Seq(Keys)
  /\ nextAt \in Nat
  /\ fetchedAt \in Int
  /\ silent \in BOOLEAN

Init ==
  /\ clock = 1
  /\ breaker = Closed
  /\ active = 0
  /\ queue = <<>>
  /\ stage = [k \in Keys |-> "none"]
  /\ waiters = [k \in Keys |-> {}]
  /\ aborted = [k \in Keys |-> FALSE]
  /\ holds = [k \in Keys |-> {}]
  /\ result = [k \in Keys |-> "none"]
  /\ level = [k \in Keys |-> "last"]
  /\ turns = <<>>
  /\ nextAt = 0
  /\ fetchedAt = -Interval
  /\ silent = FALSE

-----------------------------------------------------------------------------
(* Callers *)

Waiting == UNION {waiters[k] : k \in Keys}

InFlight == {k \in Keys : stage[k] # "none"}

\* sharedFetch starts a flight: fetchFromUpstream runs up to its first await.
\* A flight the breaker refuses settles at once.  A caller whose signal was
\* aborted while its key was computed subscribes and leaves in one step.
Start(k, subscribers) ==
  /\ stage[k] = "none"
  /\ breaker' = Asked(breaker, clock)
  /\ IF Admits(breaker, clock)
     THEN /\ stage' = [stage EXCEPT ![k] = "coordinate"]
          /\ waiters' = [waiters EXCEPT ![k] = subscribers]
          /\ aborted' = [aborted EXCEPT ![k] = subscribers = {}]
          /\ silent' = (silent /\ breaker.state = "closed")
     ELSE UNCHANGED <<stage, waiters, aborted, silent>>
  /\ UNCHANGED <<clock, semaphore, pace, holds, result, level>>

Join(c, k) ==
  /\ stage[k] # "none"
  /\ waiters' = [waiters EXCEPT ![k] = @ \cup {c}]
  /\ UNCHANGED <<clock, breaker, semaphore, pace, stage, aborted, holds, result, level,
                 silent>>

SharedFetch(c) ==
  /\ c \notin Waiting
  /\ \E k \in Keys : Start(k, {c}) \/ Start(k, {}) \/ Join(c, k)

-----------------------------------------------------------------------------
(* Recording, and giving back *)

\* recordProviderResult up to its await: the breaker is told at once.
Record(k, r, where) ==
  /\ stage' = [stage EXCEPT ![k] = "recording"]
  /\ result' = [result EXCEPT ![k] = r]
  /\ level' = [level EXCEPT ![k] = where]
  /\ breaker' = Told(breaker, r, clock)
  /\ silent' = (silent \/ r = "aborted")

\* What a catch outside the JSON try makes of an exception.
Caught(k) == IF aborted[k] THEN "aborted" ELSE "failed"

\* The flight's promise settles: its subscribers are answered, pending forgets it.
Settle(k) ==
  /\ stage' = [stage EXCEPT ![k] = "none"]
  /\ waiters' = [waiters EXCEPT ![k] = {}]
  /\ aborted' = [aborted EXCEPT ![k] = FALSE]
  /\ holds' = [holds EXCEPT ![k] = {}]
  /\ result' = [result EXCEPT ![k] = "none"]
  /\ level' = [level EXCEPT ![k] = "last"]

\* release is the semaphore's once it is acquired, and does nothing before.
HoldsSlot(k) == "slot" \in holds[k]

\* Fault: a slot that is freed wakes nobody.
NoHeir(k) == {}

\* The flight that a freed slot is handed to: the head of the queue.
Heir(k) == IF HoldsSlot(k) /\ queue # <<>> THEN {Head(queue)} ELSE {}

\* Where a slot leads: to the wait for MusicBrainz or at once to the fetch, and
\* who stands in line then.
First == IF Interval = 0 THEN "fetch" ELSE "pacing"
LinedUp(k) == IF Interval = 0 THEN turns ELSE Append(turns, k)

\* The finally of fetchFromUpstream: the slot is freed at once, the
\* coordinator's grant by a call.
GiveBack(k, r) ==
  /\ active' = IF HoldsSlot(k) /\ Heir(k) = {} /\ active > 0 THEN active - 1 ELSE active
  /\ queue' = IF Heir(k) # {} THEN Tail(queue) ELSE queue
  /\ turns' = IF Heir(k) # {} THEN LinedUp(Head(queue)) ELSE turns
  /\ IF "grant" \in holds[k]
     THEN /\ stage' = [j \in Keys |-> IF j = k THEN "releasing"
                                      ELSE IF j \in Heir(k) THEN First ELSE stage[j]]
          /\ holds' = [j \in Keys |-> IF j = k THEN {"grant"}
                                      ELSE IF j \in Heir(k) THEN holds[j] \cup {"slot"}
                                      ELSE holds[j]]
          /\ result' = [result EXCEPT ![k] = r]
          /\ UNCHANGED <<waiters, aborted, level>>
     ELSE Settle(k)

-----------------------------------------------------------------------------
(* The steps of a flight *)

\* AsyncSemaphore.acquire has a slot to give.
HasRoom == active < Concurrency

\* coordinator.acquire returns, and the semaphore is asked.
Granted(k) ==
  /\ stage[k] = "coordinate"
  /\ IF aborted[k]
     THEN /\ holds' = [holds EXCEPT ![k] = {"grant"}]
          /\ Record(k, "aborted", "last")
          /\ UNCHANGED <<semaphore, turns>>
     ELSE /\ IF HasRoom
             THEN /\ active' = active + 1
                  /\ holds' = [holds EXCEPT ![k] = {"grant", "slot"}]
                  /\ stage' = [stage EXCEPT ![k] = First]
                  /\ turns' = LinedUp(k)
                  /\ UNCHANGED queue
             ELSE /\ queue' = Append(queue, k)
                  /\ holds' = [holds EXCEPT ![k] = {"grant"}]
                  /\ stage' = [stage EXCEPT ![k] = "queued"]
                  /\ UNCHANGED <<active, turns>>
          /\ UNCHANGED <<breaker, result, level, silent>>
  /\ UNCHANGED <<clock, waiters, aborted, nextAt, fetchedAt>>

\* The coordinator grants nothing: circuit_open is answered and nothing recorded.
Refused(k) ==
  /\ stage[k] = "coordinate"
  /\ Settle(k)
  /\ silent' = TRUE
  /\ UNCHANGED <<clock, breaker, semaphore, pace>>

\* The coordinator throws, because it is away or the flight was aborted.
Thrown(k) ==
  /\ stage[k] = "coordinate"
  /\ Record(k, Caught(k), "last")
  /\ UNCHANGED <<clock, semaphore, pace, waiters, aborted, holds>>

\* Fault: the next time is counted from the last one, however long ago that was.
NextTurn == nextAt + Interval

\* The time that a flight leaves to the next: nobody else sets it meanwhile.
NextTime == clock + Interval

\* The flight's turn has come and the interval has passed.  One that was aborted
\* while it waited for its turn goes on to a fetch that fails at once.
\* Bound: when the clock has come to its end, every interval has passed.
Paced(k) ==
  /\ stage[k] = "pacing" /\ Head(turns) = k
  /\ nextAt <= clock \/ clock = MaxTime
  /\ turns' = Tail(turns)
  /\ nextAt' = NextTime
  /\ IF aborted[k]
     THEN Record(k, "aborted", "whole") /\ UNCHANGED fetchedAt
     ELSE /\ stage' = [stage EXCEPT ![k] = "fetch"]
          /\ fetchedAt' = clock
          /\ UNCHANGED <<breaker, result, level, silent>>
  /\ UNCHANGED <<clock, semaphore, waiters, aborted, holds>>

\* abortableDelay finds its flight aborted, or its timer comes after the abort.
PaceAborted(k) ==
  /\ stage[k] = "pacing" /\ Head(turns) = k /\ aborted[k]
  /\ turns' = Tail(turns)
  /\ Record(k, "aborted", "last")
  /\ UNCHANGED <<clock, semaphore, nextAt, fetchedAt, waiters, aborted, holds>>

\* The answer's headers, or none: 404 and other refusals are "rejected", 429,
\* 5xx, a timeout and a network error "failed".
Fetched(k) ==
  /\ stage[k] = "fetch"
  /\ \/ /\ stage' = [stage EXCEPT ![k] = "body"]
        /\ UNCHANGED <<breaker, result, level, silent>>
     \/ \E r \in {"rejected", "failed"} : Record(k, r, "fetch")
     \/ Record(k, "failed", "whole")
  /\ UNCHANGED <<clock, semaphore, pace, waiters, aborted, holds>>

\* The body is read and parsed, too large, not JSON, or broken off.
BodyRead(k) ==
  /\ stage[k] = "body"
  /\ Record(k, "success", "json") \/ \E r \in {"rejected", "failed"} : Record(k, r, "fetch")
  /\ UNCHANGED <<clock, semaphore, pace, waiters, aborted, holds>>

\* coordinator.record returns, and with it fetchFromUpstream but for its finally.
Recorded(k) ==
  /\ stage[k] = "recording"
  /\ GiveBack(k, result[k])
  /\ UNCHANGED <<clock, breaker, silent, nextAt, fetchedAt>>

\* coordinator.record throws: the next catch out records once more.  The timer
\* of the fetch still runs while its result is recorded.
RecordThrows(k) ==
  /\ stage[k] = "recording"
  /\ \/ level[k] = "json" /\ Record(k, "rejected", "fetch")
     \/ level[k] = "fetch" /\ \E r \in {Caught(k), "failed"} : Record(k, r, "whole")
     \/ level[k] = "whole" /\ Record(k, Caught(k), "last")
  /\ UNCHANGED <<clock, semaphore, pace, waiters, aborted, holds>>

RecordRejects(k) ==
  /\ stage[k] = "recording"
  /\ level[k] = "last"
  /\ GiveBack(k, "threw")
  /\ UNCHANGED <<clock, breaker, silent, nextAt, fetchedAt>>

\* The grant is given back; a success goes on to the shared cache, unless
\* giving back threw.
Released(k) ==
  /\ stage[k] = "releasing"
  /\ \/ /\ result[k] = "success"
        /\ stage' = [stage EXCEPT ![k] = "putting"]
        /\ UNCHANGED <<waiters, aborted, holds, result, level>>
     \/ Settle(k)
  /\ UNCHANGED <<clock, breaker, semaphore, pace, silent>>

\* cache.put returns or throws.
Put(k) ==
  /\ stage[k] = "putting"
  /\ Settle(k)
  /\ UNCHANGED <<clock, breaker, semaphore, pace, silent>>

Advance(k) ==
  \/ Granted(k) \/ Refused(k) \/ Thrown(k) \/ Paced(k) \/ PaceAborted(k) \/ Fetched(k) \/ BodyRead(k)
  \/ Recorded(k) \/ RecordThrows(k) \/ RecordRejects(k) \/ Released(k) \/ Put(k)

-----------------------------------------------------------------------------
(* Leaving *)

\* Fault: whoever leaves aborts the flight.
AnyoneLeft(k, rest) == TRUE

\* Fault: a flight goes on though nobody waits.
NeverMind(k, rest) == FALSE

\* releaseWaiter aborts the controller when nobody waits any more.
NobodyLeft(k, rest) == rest = {}

\* An abort takes effect where the flight listens to it: in the queue, in the
\* delay of the first in line, in the fetch and, as a broken body, in the read.
Interrupt(k) ==
  CASE stage[k] = "queued" ->
         /\ queue' = RemoveAt(queue, CHOOSE i \in DOMAIN queue : queue[i] = k)
         /\ Record(k, "aborted", "last")
         /\ UNCHANGED <<active, turns>>
    [] stage[k] = "pacing" /\ Head(turns) = k /\ nextAt > clock ->
         /\ turns' = Tail(turns)
         /\ Record(k, "aborted", "last")
         /\ UNCHANGED semaphore
    [] stage[k] = "fetch" -> Record(k, "aborted", "whole") /\ UNCHANGED <<semaphore, turns>>
    [] stage[k] = "body" -> Record(k, "failed", "fetch") /\ UNCHANGED <<semaphore, turns>>
    [] OTHER -> UNCHANGED <<stage, result, level, breaker, silent, semaphore, turns>>

Leave(c) ==
  \E k \in Keys :
    /\ c \in waiters[k]
    /\ LET rest == waiters[k] \ {c}
       IN  /\ waiters' = [waiters EXCEPT ![k] = rest]
           /\ IF NobodyLeft(k, rest)
              THEN aborted' = [aborted EXCEPT ![k] = TRUE] /\ Interrupt(k)
              ELSE UNCHANGED <<aborted, stage, result, level, breaker, silent, semaphore, turns>>
    /\ UNCHANGED <<clock, holds, nextAt, fetchedAt>>

Tick ==
  /\ clock < MaxTime
  /\ clock' = clock + 1
  /\ UNCHANGED <<breaker, semaphore, flight, pace, silent>>

Next ==
  \/ \E c \in Callers : SharedFetch(c) \/ Leave(c)
  \/ \E k \in Keys : Advance(k)
  \/ Tick

Spec == Init /\ [][Next]_vars

\* Every await of a flight ends: the fetch has a timeout, the coordinator's
\* wait a deadline, a call to Redis returns or throws, and time passes.
FairSpec == Spec /\ WF_vars(Tick) /\ \A k \in Keys : WF_vars(Advance(k))

-----------------------------------------------------------------------------
(* Properties *)

\* The semaphore's books are right after any interleaving of hand-offs and
\* aborts: a slot is counted while a flight holds it, who fetches holds one,
\* the queue is those who wait, and nobody waits while a slot is free; those in
\* line for MusicBrainz are in it once.
SlotsAccounted ==
  /\ active = Cardinality({k \in Keys : "slot" \in holds[k]})
  /\ \A k \in Keys : stage[k] \in {"pacing", "fetch", "body"} => "slot" \in holds[k]
  /\ \A k \in Keys : stage[k] = "queued" <=> \E i \in DOMAIN queue : queue[i] = k
  /\ \A i, j \in DOMAIN queue : queue[i] = queue[j] => i = j
  /\ queue # <<>> => active = Concurrency
  /\ \A k \in Keys : stage[k] = "pacing" <=> \E i \in DOMAIN turns : turns[i] = k
  /\ \A i, j \in DOMAIN turns : turns[i] = turns[j] => i = j

\* A flight nobody waits for is aborted, and one that is aborted neither queues
\* nor fetches: cancelling gives the slot back (releaseWaiter, AsyncSemaphore),
\* at the latest when its turn comes.
AbortFreesUpstream ==
  \A k \in InFlight :
    /\ waiters[k] = {} => aborted[k]
    /\ aborted[k] => stage[k] \notin {"queued", "fetch", "body"}

\* A flight is aborted only when its last caller leaves (the test "singleflight
\* cancels the shared fetch only after every waiter leaves").
OnlyLastLeaverAborts ==
  [][\A k \in Keys : stage[k] # "none" /\ aborted'[k] /\ ~aborted[k] => waiters'[k] = {}]_vars

Untold == {"coordinate", "queued", "pacing", "fetch", "body"}

\* The one half-open probe is out only while a flight is that still has to tell
\* the breaker how it went, unless one ended silently: aborted, or refused by
\* the coordinator (tryAcquire, recordResult, recordReachable).
ProbeWillReport ==
  /\ breaker \in Breaker
  /\ breaker.state = "half_open" /\ breaker.halfOpenProbe /\ ~silent =>
       \E k \in Keys : stage[k] \in Untold

\* A half-open breaker with nothing in flight permits its one probe.
HalfOpenPermitsProbe ==
  breaker.state = "half_open" /\ InFlight = {} => Admits(breaker, clock)

\* Requests to MusicBrainz begin at least the interval apart, whoever is aborted
\* in line or in the delay (waitForMusicBrainz; until the clock stands).
PacedApart ==
  [][\A k \in Keys : stage[k] = "pacing" /\ stage'[k] = "fetch" /\ clock < MaxTime =>
       clock >= fetchedAt + Interval]_vars

\* Every caller is answered or leaves: no flight hangs in the queue, and no
\* promise is forgotten.
EveryCallerIsAnswered ==
  \A c \in Callers : c \in Waiting ~> c \notin Waiting
=============================================================================
