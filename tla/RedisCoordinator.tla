-------------------------- MODULE RedisCoordinator --------------------------
(***************************************************************************)
(* How the replicas share one provider through Redis (RedisJsonCache's     *)
(* acquire and record): a sorted set of slots, a sorted set of failures,   *)
(* the key that says the provider is open, and the key of its probe.  A    *)
(* script runs in one step; around it a call sleeps, waits for an answer   *)
(* that is lost, fetches, or dies.                                         *)
(*                                                                         *)
(* Time is Redis's clock.  A script is given a time its replica read       *)
(* earlier, from a clock that may be ahead by Ahead; Latency bounds how    *)
(* old that reading is when the script runs or when the fetch it permits   *)
(* begins, and so stands for a clock that is behind as well.               *)
(***************************************************************************)
EXTENDS Integers, FiniteSets

CONSTANTS
  Calls,             \* calls of fetchFromUpstream, each with a token of its own
  Concurrency,       \* policy.concurrency
  PolicyTimeout,     \* policy.timeoutMs
  Slack,             \* the 2,000 ms added to it for keys to expire
  FetchTimeout,      \* this.timeoutMs ?? policy.timeoutMs: when a fetch is aborted
  FailureThreshold,  \* policy.failureThreshold
  FailureWindow,     \* policy.failureWindowMs
  OpenFor,           \* policy.openMs
  Latency, Ahead,    \* how old a reading may get, and how far ahead it may be
  MaxTime            \* bound: the last value of the clock

ASSUME CoordinatorAssumption ==
  /\ Concurrency \in Nat \ {0}
  /\ FailureThreshold \in Nat \ {0}
  /\ PolicyTimeout \in Nat /\ Slack \in Nat /\ FetchTimeout \in Nat
  /\ FailureWindow \in Nat /\ OpenFor \in Nat \ {0}
  /\ Latency \in Nat /\ Ahead \in Nat /\ MaxTime \in Nat

\* How long slots and the probe key live.
TTL == PolicyTimeout + Slack

\* How many catch blocks of fetchFromUpstream may be around a record.
Levels == 0..3

VARIABLES
  clock,
  slots,             \* the slots, each [by, until]: a token, and when it lapses
  slotsUntil,        \* when the whole set of slots expires
  failures,          \* the failures, each [by, level, at]: a record of a call
  failuresUntil,     \* when the whole set of failures expires
  openUntil,         \* when the open key expires; 0: there is none
  probeUntil,        \* when the probe key expires; 0: there is none
  stage,             \* where each call stands
  at,                \* the time it read last
  level,             \* how many catch blocks are still around its record
  due,               \* when its wait, or its fetch, is over
  probes,            \* history: calls granted as probes since the last record
  counted            \* history: failures recorded since the last clearing

semaphore == <<slots, slotsUntil>>
breaker == <<failures, failuresUntil, openUntil, probeUntil>>
call == <<stage, at, level, due>>
history == <<probes, counted>>
vars == <<clock, semaphore, breaker, call, history>>

Stages == {"out", "asking", "waiting", "granted", "fetching", "recording",
           "clearing", "failing", "releasing", "ended"}

TypeOK ==
  /\ clock \in Nat \ {0}
  /\ slots \subseteq [by : Calls, until : Nat]
  /\ slotsUntil \in Nat
  /\ failures \subseteq [by : Calls, level : Levels, at : Nat]
  /\ failuresUntil \in Nat
  /\ openUntil \in Nat
  /\ probeUntil \in Nat
  /\ stage \in [Calls -> Stages]
  /\ at \in [Calls -> Nat]
  /\ level \in [Calls -> Levels]
  /\ due \in [Calls -> Nat]
  /\ probes \subseteq Calls
  /\ counted \subseteq Calls \X Levels

Init ==
  /\ clock = 1
  /\ slots = {} /\ slotsUntil = 0
  /\ failures = {} /\ failuresUntil = 0
  /\ openUntil = 0
  /\ probeUntil = 0
  /\ stage = [c \in Calls |-> "out"]
  /\ at = [c \in Calls |-> 0]
  /\ level = [c \in Calls |-> 0]
  /\ due = [c \in Calls |-> 0]
  /\ probes = {}
  /\ counted = {}

Go(c, s) == stage' = [stage EXCEPT ![c] = s]

\* The call reads its replica's clock and goes on to stage s, within n catch blocks,
\* until d.
Reads(c, s, n, d) ==
  /\ Go(c, s)
  /\ \E t \in clock..(clock + Ahead) : at' = [at EXCEPT ![c] = t]
  /\ level' = [level EXCEPT ![c] = n]
  /\ due' = [due EXCEPT ![c] = d]

\* The call goes on to stage s, within n catch blocks, and its times matter no more.
Enters(c, s, n) ==
  /\ Go(c, s)
  /\ at' = [at EXCEPT ![c] = 0]
  /\ level' = [level EXCEPT ![c] = n]
  /\ due' = [due EXCEPT ![c] = 0]

Past(c, s) == Enters(c, s, 0)

\* An answer reaches the call, which goes on; or it is lost, and the client sends
\* the command again.
Lost == UNCHANGED call

-----------------------------------------------------------------------------
(* acquire *)

Ask(c) ==
  /\ stage[c] = "out"
  /\ Reads(c, "asking", 0, clock + PolicyTimeout)
  /\ UNCHANGED <<clock, semaphore, breaker, history>>

\* Fault: lapsed slots are left to the expiry of the whole set.
AllSlots(now) == slots

\* zremrangebyscore: the slots that lapsed are dropped.
Unlapsed(now) == {s \in slots : s.until > now}

\* zcount: enough failures in the window, though the provider is not open any more.
Tripped(now) ==
  Cardinality({f \in failures : f.at >= now - FailureWindow}) >= FailureThreshold

\* Fault: the probe key is set without NX.
AlwaysProbes(now) == TRUE

\* The probe key is set with NX: one call at a time probes a tripped provider.
MayProbe(now) == Tripped(now) => probeUntil = 0

SetProbe(now) == probeUntil' = IF Tripped(now) THEN clock + TTL ELSE probeUntil

\* Fault: the limit is off by one.
OverFull(now) == Cardinality(Unlapsed(now)) > Concurrency

Full(now) == Cardinality(Unlapsed(now)) >= Concurrency

\* The script finds the provider open, or its probe taken: -1.
Refuse(c) ==
  /\ stage[c] = "asking"
  /\ \/ openUntil # 0 /\ UNCHANGED slots
     \/ openUntil = 0 /\ ~MayProbe(at[c]) /\ slots' = Unlapsed(at[c])
  /\ Past(c, "ended") \/ Lost
  /\ UNCHANGED <<clock, slotsUntil, breaker, history>>

\* All slots are taken: 0.  A probe key set on the way stays.
FindFull(c) ==
  /\ stage[c] = "asking"
  /\ openUntil = 0 /\ MayProbe(at[c])
  /\ Full(at[c])
  /\ SetProbe(at[c])
  /\ slots' = Unlapsed(at[c])
  /\ \/ Go(c, "waiting") /\ UNCHANGED <<at, level, due>>
     \/ Lost
  /\ UNCHANGED <<clock, slotsUntil, failures, failuresUntil, openUntil, history>>

\* The call's token is added, or its score renewed: 1.
Grant(c) ==
  LET now == at[c]
  IN  /\ stage[c] = "asking"
      /\ openUntil = 0 /\ MayProbe(now)
      /\ ~Full(now)
      /\ SetProbe(now)
      /\ slots' = {s \in Unlapsed(now) : s.by # c} \cup {[by |-> c, until |-> now + TTL]}
      /\ slotsUntil' = clock + TTL
      /\ \/ /\ Go(c, "granted")
            /\ probes' = IF Tripped(now) THEN probes \cup {c} ELSE probes
            /\ UNCHANGED <<at, level, due>>
         \/ Lost /\ UNCHANGED probes
      /\ UNCHANGED <<clock, failures, failuresUntil, openUntil, counted>>

\* After its sleep a call asks again, until its time is over.
Retry(c) ==
  /\ stage[c] = "waiting"
  /\ IF clock < due[c] THEN Reads(c, "asking", 0, due[c]) ELSE Past(c, "ended")
  /\ UNCHANGED <<clock, semaphore, breaker, history>>

\* acquire throws: Redis is away, which transport.ts records as a failure of the
\* provider, or the flight is aborted, which it does not record.  A slot granted by
\* an answer that is lost stays: there is nothing to release it with.
Throw(c) ==
  /\ \/ stage[c] = "asking" /\ Reads(c, "failing", 0, 0)
     \/ stage[c] \in {"asking", "waiting"} /\ Past(c, "ended")
  /\ UNCHANGED <<clock, semaphore, breaker, history>>

-----------------------------------------------------------------------------
(* What a grant is used for *)

\* The fetch begins, with its timer; or the flight was aborted in the queue.
Fetch(c) ==
  /\ stage[c] = "granted"
  /\ \/ /\ Go(c, "fetching")
        /\ due' = [due EXCEPT ![c] = clock + FetchTimeout]
        /\ UNCHANGED <<at, level>>
     \/ Past(c, "releasing")
  /\ UNCHANGED <<clock, semaphore, breaker, history>>

\* The fetch ends.  A status of 5xx or 429, or a body that breaks off, is recorded
\* within two catch blocks; fetch throwing or timing out within one; an answer
\* within two, or within three when its body was parsed; an abort not at all.
FetchEnds(c) ==
  /\ stage[c] = "fetching"
  /\ \/ \E n \in {1, 2} : Reads(c, "recording", n, 0)
     \/ \E n \in {2, 3} : Enters(c, "clearing", n)
     \/ Past(c, "releasing")
  /\ UNCHANGED <<clock, semaphore, breaker, history>>

-----------------------------------------------------------------------------
(* record *)

\* zremrangebyscore: the failures that left the window are dropped.
InWindow(now) == {f \in failures : f.at > now - FailureWindow}

\* Where a call is once it has recorded: a grant is given back, if it has one.
AfterRecord(c) == Past(c, IF stage[c] = "failing" THEN "ended" ELSE "releasing")

\* A failure that counts is added, and the provider opened at the threshold.  With
\* an empty window it is trimmed at once.
RecordFailure(c) ==
  LET now == at[c]
      added == IF FailureWindow = 0 THEN {} ELSE {[by |-> c, level |-> level[c], at |-> now]}
  IN  /\ stage[c] \in {"recording", "failing"}
      /\ failures' = InWindow(now) \cup added
      /\ failuresUntil' = clock + FailureWindow
      /\ probeUntil' = 0
      /\ openUntil' = IF Cardinality(failures') >= FailureThreshold
                      THEN clock + OpenFor ELSE openUntil
      /\ AfterRecord(c) \/ Lost
      /\ counted' = counted \cup {<<c, level[c]>>}
      /\ probes' = {}
      /\ UNCHANGED <<clock, semaphore>>

\* Fault: only the open key is deleted.
OpenOnly == UNCHANGED <<failures, probeUntil>>

\* What is deleted with the open key.
ForgetFailures == failures' = {} /\ probeUntil' = 0

\* The provider answered: the open key, the failures and the probe are deleted.
RecordReachable(c) ==
  /\ stage[c] = "clearing"
  /\ openUntil' = 0
  /\ ForgetFailures
  /\ Past(c, "releasing") \/ Lost
  /\ probes' = {}
  /\ counted' = {}
  /\ UNCHANGED <<clock, semaphore, failuresUntil>>

\* record throws: nothing was done, or its answer is lost.  The catch block around
\* it records again, with a reading of its own: that a parsed answer cannot be
\* parsed, which clears as well; that the fetch failed, which counts, unless the
\* flight is aborted, which records nothing; the outermost record's throw goes on.
RecordThrows(c) ==
  /\ \/ stage[c] = "clearing" /\ level[c] = 3 /\ Enters(c, "clearing", 2)
     \/ /\ stage[c] \in {"recording", "clearing"} /\ level[c] \in {1, 2}
        /\ Reads(c, "recording", level[c] - 1, 0)
     \/ /\ stage[c] \in {"recording", "clearing", "failing"} /\ level[c] # 3
        /\ AfterRecord(c)
  /\ UNCHANGED <<clock, semaphore, breaker, history>>

\* The release a grant comes with: the call's own token is removed, whenever the
\* command arrives; or never, when the replica is cut off or dies.
Release(c) ==
  /\ stage[c] = "releasing"
  /\ slots' \in {slots, {s \in slots : s.by # c}}
  /\ Past(c, "ended")
  /\ UNCHANGED <<clock, slotsUntil, breaker, history>>

\* The replica dies: its call leaves everything behind.
Crash(c) ==
  /\ stage[c] \notin {"out", "ended"}
  /\ Past(c, "ended")
  /\ UNCHANGED <<clock, semaphore, breaker, history>>

-----------------------------------------------------------------------------
(* Time *)

\* Which calls do not let the clock go past: a reading is at most Latency old when
\* it is used, and a fetch is aborted when its time is over.
OnTime(c) ==
  /\ stage[c] \in {"asking", "granted", "recording", "failing"} => clock < at[c] + Latency
  /\ stage[c] = "fetching" => clock < due[c]

\* Keys whose time is over are gone.
Tick ==
  /\ clock < MaxTime
  /\ \A c \in Calls : OnTime(c)
  /\ clock' = clock + 1
  /\ slots' = IF slotsUntil <= clock' THEN {} ELSE slots
  /\ failures' = IF failuresUntil <= clock' THEN {} ELSE failures
  /\ openUntil' = IF openUntil <= clock' THEN 0 ELSE openUntil
  /\ probeUntil' = IF probeUntil <= clock' THEN 0 ELSE probeUntil
  /\ UNCHANGED <<slotsUntil, failuresUntil, call, history>>

Step(c) ==
  \/ Ask(c) \/ Refuse(c) \/ FindFull(c) \/ Grant(c) \/ Retry(c) \/ Throw(c)
  \/ Fetch(c) \/ FetchEnds(c)
  \/ RecordFailure(c) \/ RecordReachable(c) \/ RecordThrows(c)
  \/ Release(c) \/ Crash(c)

\* The bounded clock has stopped and every call is over.
Over ==
  /\ clock = MaxTime
  /\ \A c \in Calls : stage[c] = "ended"
  /\ UNCHANGED vars

Next == Tick \/ Over \/ \E c \in Calls : Step(c)

Spec == Init /\ [][Next]_vars

-----------------------------------------------------------------------------
(* Properties *)

Fetching == {c \in Calls : stage[c] = "fetching"}

\* The slot that permits the call's fetch has lapsed by nobody's clock.
InTime(c) == clock + Ahead < at[c] + TTL

\* The replicas together fetch from a provider no more often at once than its
\* policy allows, as long as their slots last, and no fetch outlives its slot by
\* more than the difference of the times in the constants.  A fetch that does is
\* one more than the policy allows: with the default UPSTREAM_TIMEOUT_MS of 4,500
\* against 2,500 + 2,000 this happens to netease, qqmusic and kugou.
AtMostConcurrencyFetch ==
  /\ Cardinality({c \in Fetching : InTime(c)}) <= Concurrency
  /\ \A c \in Fetching : clock <= at[c] + Latency + FetchTimeout

\* Unless a result was recorded since, at most one call probes a tripped provider
\* at a time, as long as the probe key lasts.
OneProbeAtATime ==
  \A c, d \in probes \cap Fetching : InTime(c) /\ InTime(d) => c = d

\* The provider is opened only by enough failures recorded since it last answered,
\* all within the window and the age of a reading: a record sent twice counts once,
\* an answer wipes the slate, and old failures do not add up.  They need not be of
\* different calls: a call whose records throw makes up to three.
OpenIsEarned ==
  [][openUntil' > clock /\ openUntil' # openUntil =>
       LET recent == {f \in failures' : f.at > clock - FailureWindow - Latency}
       IN  Cardinality({<<f.by, f.level>> : f \in recent} \cap counted')
             >= FailureThreshold]_vars

\* A call finds all slots taken only by slots that had not lapsed when its reading
\* could have been taken: what dead replicas leave behind does not pile up.
FullOnlyByLiveSlots ==
  [][\A c \in Calls : stage[c] = "asking" /\ stage'[c] = "waiting" =>
       Cardinality({s \in slots : s.until > clock - Latency}) >= Concurrency]_vars
=============================================================================
