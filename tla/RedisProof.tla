----------------------------- MODULE RedisProof -----------------------------
(***************************************************************************)
(* What the replicas share through Redis.  For any number of calls and any *)
(* times, a slot and a probe key guard the fetch they permit as long as    *)
(* they last: until then the limit of the policy holds across replicas and *)
(* a tripped provider is probed by one call at a time (RedisCoordinator).  *)
(* For any number of replicas and requests, a lease whose life is not over *)
(* is one task's, and no answer is past its stale time (MetadataCache).    *)
(***************************************************************************)
EXTENDS RedisCoordinator, MetadataCache, FiniteSetTheorems, TLAPS

LEMMA TimesAreNumbers == TTL \in Nat
BY CoordinatorAssumption DEF TTL

-----------------------------------------------------------------------------
(* Types *)

LEMMA TypeInit == Init => TypeOK
BY DEF Init, TypeOK, Stages, Levels

\* What a call's own steps do to its stage and its times.
LEMMA CallTypes ==
  ASSUME TypeOK, NEW c \in Calls, NEW s \in Stages, NEW n \in Levels, NEW d \in Nat
  PROVE  /\ Go(c, s) => stage' \in [Calls -> Stages]
         /\ Reads(c, s, n, d) =>
              /\ stage' \in [Calls -> Stages] /\ at' \in [Calls -> Nat]
              /\ level' \in [Calls -> Levels] /\ due' \in [Calls -> Nat]
         /\ Enters(c, s, n) =>
              /\ stage' \in [Calls -> Stages] /\ at' \in [Calls -> Nat]
              /\ level' \in [Calls -> Levels] /\ due' \in [Calls -> Nat]
BY CoordinatorAssumption DEF TypeOK, Go, Reads, Enters

LEMMA PastTypes ==
  ASSUME TypeOK, NEW c \in Calls, NEW s \in Stages, Past(c, s)
  PROVE  /\ stage' \in [Calls -> Stages] /\ at' \in [Calls -> Nat]
         /\ level' \in [Calls -> Levels] /\ due' \in [Calls -> Nat]
BY CallTypes DEF Past, Levels

LEMMA TypeStep == TypeOK /\ [Next]_vars => TypeOK'
<1> SUFFICES ASSUME TypeOK, [Next]_vars PROVE TypeOK'
  OBVIOUS
<1> USE CoordinatorAssumption, TimesAreNumbers
<1>1. ASSUME NEW c \in Calls, Ask(c) PROVE TypeOK'
  <2>1. clock + PolicyTimeout \in Nat
    BY DEF TypeOK
  <2> QED
    BY <1>1, <2>1, CallTypes DEF TypeOK, Ask, Stages, Levels, semaphore, breaker, history
<1>2. ASSUME NEW c \in Calls, Refuse(c) PROVE TypeOK'
  <2>1. slots' \subseteq [by : Calls, until : Nat]
    BY <1>2 DEF TypeOK, Refuse, Unlapsed
  <2> QED
    BY <1>2, <2>1, PastTypes DEF TypeOK, Refuse, Lost, Stages, call, breaker, history
<1>3. ASSUME NEW c \in Calls, FindFull(c) PROVE TypeOK'
  <2>1. slots' \subseteq [by : Calls, until : Nat]
    BY <1>3 DEF TypeOK, FindFull, Unlapsed
  <2>2. probeUntil' \in Nat
    BY <1>3 DEF TypeOK, FindFull, SetProbe
  <2>3. stage' \in [Calls -> Stages]
    BY <1>3 DEF TypeOK, FindFull, Lost, Go, Stages, call
  <2> QED
    BY <1>3, <2>1, <2>2, <2>3 DEF TypeOK, FindFull, Lost, call, history
<1>4. ASSUME NEW c \in Calls, Grant(c) PROVE TypeOK'
  <2>1. slots' \subseteq [by : Calls, until : Nat]
    BY <1>4 DEF TypeOK, Grant, Unlapsed
  <2>2. probeUntil' \in Nat /\ slotsUntil' \in Nat
    BY <1>4 DEF TypeOK, Grant, SetProbe
  <2>3. probes' \subseteq Calls
    BY <1>4 DEF TypeOK, Grant
  <2>4. stage' \in [Calls -> Stages]
    BY <1>4 DEF TypeOK, Grant, Lost, Go, Stages, call
  <2> QED
    BY <1>4, <2>1, <2>2, <2>3, <2>4 DEF TypeOK, Grant, Lost, call
<1>5. ASSUME NEW c \in Calls, Retry(c) PROVE TypeOK'
  <2>1. due[c] \in Nat
    BY DEF TypeOK
  <2> QED
    BY <1>5, <2>1, CallTypes, PastTypes
       DEF TypeOK, Retry, Stages, Levels, semaphore, breaker, history
<1>6. ASSUME NEW c \in Calls, Throw(c) PROVE TypeOK'
  BY <1>6, CallTypes, PastTypes DEF TypeOK, Throw, Stages, Levels, semaphore, breaker, history
<1>7. ASSUME NEW c \in Calls, Fetch(c) PROVE TypeOK'
  <2>1. CASE Past(c, "releasing")
    BY <1>7, <2>1, PastTypes DEF TypeOK, Fetch, Stages, semaphore, breaker, history
  <2>2. CASE ~Past(c, "releasing")
    <3>1. due' \in [Calls -> Nat] /\ stage' \in [Calls -> Stages]
      BY <1>7, <2>2 DEF TypeOK, Fetch, Go, Stages
    <3> QED
      BY <1>7, <2>2, <3>1 DEF TypeOK, Fetch, semaphore, breaker, history
  <2> QED
    BY <2>1, <2>2
<1>8. ASSUME NEW c \in Calls, FetchEnds(c) PROVE TypeOK'
  <2>1. CASE Past(c, "releasing")
    BY <1>8, <2>1, PastTypes DEF TypeOK, FetchEnds, Stages, semaphore, breaker, history
  <2>2. CASE \E n \in {1, 2} : Reads(c, "recording", n, 0)
    BY <1>8, <2>2, CallTypes DEF TypeOK, FetchEnds, Stages, Levels, semaphore, breaker, history
  <2>3. CASE \E n \in {2, 3} : Enters(c, "clearing", n)
    BY <1>8, <2>3, CallTypes DEF TypeOK, FetchEnds, Stages, Levels, semaphore, breaker, history
  <2> QED
    BY <1>8, <2>1, <2>2, <2>3 DEF FetchEnds
<1>9. ASSUME NEW c \in Calls, RecordFailure(c) PROVE TypeOK'
  <2>1. failures' \subseteq [by : Calls, level : Levels, at : Nat]
    BY <1>9 DEF TypeOK, RecordFailure, InWindow
  <2>2. /\ failuresUntil' \in Nat /\ openUntil' \in Nat /\ probeUntil' \in Nat
        /\ counted' \subseteq Calls \X Levels /\ probes' \subseteq Calls
    BY <1>9 DEF TypeOK, RecordFailure
  <2>3. CASE AfterRecord(c)
    BY <1>9, <2>1, <2>2, <2>3, PastTypes DEF TypeOK, RecordFailure, AfterRecord, Stages, semaphore
  <2>4. CASE Lost
    BY <1>9, <2>1, <2>2, <2>4 DEF TypeOK, RecordFailure, Lost, call, semaphore
  <2> QED
    BY <1>9, <2>3, <2>4 DEF RecordFailure
<1>10. ASSUME NEW c \in Calls, RecordReachable(c) PROVE TypeOK'
  BY <1>10, PastTypes DEF TypeOK, RecordReachable, ForgetFailures, Lost, Stages, call, semaphore
<1>11. ASSUME NEW c \in Calls, RecordThrows(c) PROVE TypeOK'
  <2>1. CASE AfterRecord(c)
    BY <1>11, <2>1, PastTypes
       DEF TypeOK, RecordThrows, AfterRecord, Stages, semaphore, breaker, history
  <2>2. CASE Enters(c, "clearing", 2)
    BY <1>11, <2>2, CallTypes DEF TypeOK, RecordThrows, Stages, Levels, semaphore, breaker, history
  <2>3. CASE level[c] \in {1, 2} /\ Reads(c, "recording", level[c] - 1, 0)
    <3>1. level[c] - 1 \in Levels
      BY <2>3 DEF Levels
    <3> QED
      BY <1>11, <2>3, <3>1, CallTypes DEF TypeOK, RecordThrows, Stages, semaphore, breaker, history
  <2> QED
    BY <1>11, <2>1, <2>2, <2>3 DEF RecordThrows
<1>12. ASSUME NEW c \in Calls, Release(c) PROVE TypeOK'
  <2>1. slots' \subseteq [by : Calls, until : Nat]
    BY <1>12 DEF TypeOK, Release
  <2> QED
    BY <1>12, <2>1, PastTypes DEF TypeOK, Release, Stages, breaker, history
<1>13. ASSUME NEW c \in Calls, Crash(c) PROVE TypeOK'
  BY <1>13, PastTypes DEF TypeOK, Crash, Stages, semaphore, breaker, history
<1>14. CASE Tick
  BY <1>14 DEF TypeOK, Tick, call, history
<1>15. CASE UNCHANGED vars
  BY <1>15 DEF TypeOK, vars, semaphore, breaker, call, history
<1> QED
  BY <1>1, <1>2, <1>3, <1>4, <1>5, <1>6, <1>7, <1>8, <1>9, <1>10, <1>11, <1>12, <1>13,
     <1>14, <1>15 DEF Next, Step, Over

\* Every variable has its type, whatever the constants.
THEOREM TypeCorrect == Spec => []TypeOK
<1>1. Init => TypeOK
  BY TypeInit
<1>2. TypeOK /\ [Next]_vars => TypeOK'
  BY TypeStep
<1> QED
  BY <1>1, <1>2, PTL DEF Spec
-----------------------------------------------------------------------------
(* Slots and probes *)

\* A call that fetches, or may at any moment begin to.
Holding(c) == stage[c] \in {"granted", "fetching"}

\* It does so on a slot that has lapsed by nobody's clock.
Covered(c) == Holding(c) /\ InTime(c)

Punctuality ==
  /\ \A c \in Calls : stage[c] \in {"asking", "granted"} =>
       clock <= at[c] + Latency /\ at[c] <= clock + Ahead
  /\ \A c \in Calls : stage[c] = "fetching" =>
       /\ at[c] <= clock + Ahead
       /\ clock <= due[c] /\ due[c] <= at[c] + Latency + FetchTimeout

\* Who is covered has its slot still, and the set does not lapse before it.
SlotKept ==
  \A c \in Calls : Covered(c) =>
    /\ [by |-> c, until |-> at[c] + TTL] \in slots
    /\ slotsUntil + Ahead >= at[c] + TTL

FewSlots == IsFiniteSet(slots) /\ Cardinality(slots) <= Concurrency

\* While a covered probe is out, its key is there, and it is the only one.
ProbeKept ==
  /\ \A c \in probes : stage[c] \notin {"out", "asking", "waiting"}
  /\ \A c \in probes : Covered(c) => probeUntil + Ahead >= at[c] + TTL
  /\ \A c, d \in probes : Covered(c) /\ Covered(d) => c = d

Safe == TypeOK /\ Punctuality /\ FewSlots /\ SlotKept /\ ProbeKept

LEMMA SafeInit == Init => Safe
<1> SUFFICES ASSUME Init PROVE Safe
  OBVIOUS
<1>1. FewSlots
  BY CoordinatorAssumption, FS_EmptySet DEF Init, FewSlots
<1> QED
  BY <1>1, TypeInit DEF Init, Safe, Punctuality, SlotKept, ProbeKept, Covered, Holding

\* Trimming leaves few slots, and keeps those of the calls that are covered.
LEMMA TrimKeeps ==
  ASSUME Safe, NEW c \in Calls, stage[c] = "asking"
  PROVE  LET kept == Unlapsed(at[c])
         IN  /\ IsFiniteSet(kept) /\ Cardinality(kept) <= Concurrency
             /\ \A d \in Calls : Covered(d) => [by |-> d, until |-> at[d] + TTL] \in kept
<1> DEFINE kept == Unlapsed(at[c])
<1>1. kept \in SUBSET slots
  BY DEF Unlapsed
<1>2. IsFiniteSet(kept) /\ Cardinality(kept) <= Cardinality(slots)
  BY <1>1, FS_Subset DEF Safe, FewSlots
<1>3. Cardinality(kept) <= Concurrency
  BY <1>2, FS_CardinalityType, CoordinatorAssumption DEF Safe, FewSlots
<1>4. ASSUME NEW d \in Calls, Covered(d) PROVE [by |-> d, until |-> at[d] + TTL] \in kept
  <2>1. at[c] <= clock + Ahead /\ clock + Ahead < at[d] + TTL
    BY <1>4 DEF Safe, Punctuality, Covered, InTime
  <2>2. at[d] + TTL > at[c]
    BY <2>1, CoordinatorAssumption, TimesAreNumbers DEF Safe, TypeOK
  <2> QED
    BY <1>4, <2>2 DEF Safe, SlotKept, Unlapsed
<1> QED
  BY <1>2, <1>3, <1>4

\* What a step that leaves Redis alone keeps, when no call begins to hold a grant.
LEMMA Elsewhere ==
  ASSUME Safe, TypeOK', UNCHANGED <<clock, semaphore, probeUntil, probes>>,
         \A c \in Calls : stage'[c] # stage[c] => ~Holding(c)' /\ stage'[c] \notin {"out"},
         \A c \in Calls : stage'[c] = stage[c] /\ stage[c] \notin {"recording", "clearing"} =>
           at'[c] = at[c] /\ due'[c] = due[c],
         \A c \in Calls : stage'[c] # stage[c] /\ stage'[c] = "asking" =>
           clock <= at'[c] /\ at'[c] <= clock + Ahead,
         \A c \in probes : stage'[c] # stage[c] => stage'[c] \notin {"asking", "waiting"}
  PROVE  Safe'
<1> USE CoordinatorAssumption
<1>1. Punctuality'
  BY DEF Safe, TypeOK, Punctuality, Holding
<1>2. FewSlots'
  BY DEF Safe, FewSlots, semaphore
<1>3. \A c \in Calls : Covered(c)' => Covered(c) /\ at'[c] = at[c]
  BY DEF Covered, Holding, InTime
<1>4. SlotKept'
  BY <1>3 DEF Safe, SlotKept, semaphore
<1>5. ProbeKept'
  BY <1>3 DEF Safe, TypeOK, ProbeKept
<1> QED
  BY <1>1, <1>2, <1>4, <1>5 DEF Safe

LEMMA OneMoreElement ==
  ASSUME NEW S, NEW x, IsFiniteSet(S)
  PROVE  IsFiniteSet(S \cup {x}) /\ Cardinality(S \cup {x}) <= Cardinality(S) + 1
<1>1. Cardinality(S) \in Nat
  BY FS_CardinalityType
<1>2. IsFiniteSet(S \cup {x})
  BY FS_AddElement
<1>3. Cardinality(S \cup {x}) = IF x \in S THEN Cardinality(S) ELSE Cardinality(S) + 1
  BY FS_AddElement, Zenon
<1> QED
  BY <1>1, <1>2, <1>3

\* While a covered probe is out, nobody else may probe.
LEMMA ProbeKeyStands ==
  ASSUME Safe, NEW d \in probes, Covered(d)
  PROVE  probeUntil # 0
BY CoordinatorAssumption, TimesAreNumbers DEF Safe, TypeOK, ProbeKept, Covered, InTime

LEMMA SafeStep == Safe /\ [Next]_vars => Safe'
<1> SUFFICES ASSUME Safe, [Next]_vars PROVE Safe'
  OBVIOUS
<1> USE CoordinatorAssumption, TimesAreNumbers
<1>0. TypeOK /\ TypeOK'
  BY TypeStep DEF Safe
<1>1. ASSUME NEW c \in Calls, Ask(c) PROVE Safe'
  BY <1>0, <1>1, Elsewhere
     DEF Safe, TypeOK, ProbeKept, Ask, Reads, Go, Holding, breaker, history
<1>2. ASSUME NEW c \in Calls, Refuse(c) PROVE Safe'
  <2>1. CASE UNCHANGED slots
    BY <1>0, <1>2, <2>1, Elsewhere
       DEF Safe, TypeOK, Refuse, Past, Enters, Lost, Go, Holding, semaphore, breaker, call, history
  <2>2. CASE slots' = Unlapsed(at[c])
    <3>1. stage[c] = "asking" /\ ~Holding(c)
      BY <1>2 DEF Refuse, Holding
    <3>2. FewSlots'
      BY <2>2, <3>1, TrimKeeps DEF FewSlots
    <3>3. \A d \in Calls : Covered(d)' => Covered(d) /\ at'[d] = at[d]
      BY <1>0, <1>2, <3>1
         DEF TypeOK, Refuse, Past, Enters, Lost, Go, Covered, InTime, Holding, call
    <3>4. SlotKept'
      BY <1>2, <2>2, <3>1, <3>3, TrimKeeps DEF SlotKept, Safe, Refuse
    <3>5. Punctuality'
      BY <1>0, <1>2 DEF Safe, TypeOK, Punctuality, Refuse, Past, Enters, Lost, Go, call
    <3>6. ProbeKept'
      BY <1>0, <1>2, <3>3
         DEF Safe, TypeOK, ProbeKept, Refuse, Past, Enters, Lost, Go, call, breaker, history
    <3> QED
      BY <1>0, <3>2, <3>4, <3>5, <3>6 DEF Safe
  <2> QED
    BY <1>2, <2>1, <2>2 DEF Refuse
<1>3. ASSUME NEW c \in Calls, FindFull(c) PROVE Safe'
  <2>1. stage[c] = "asking" /\ ~Holding(c)
    BY <1>3 DEF FindFull, Holding
  <2>2. FewSlots'
    BY <1>3, <2>1, TrimKeeps DEF FindFull, FewSlots
  <2>3. \A d \in Calls : Covered(d)' => Covered(d) /\ at'[d] = at[d]
    BY <1>0, <1>3, <2>1 DEF TypeOK, FindFull, Lost, Go, Covered, InTime, Holding, call
  <2>4. SlotKept'
    BY <1>3, <2>1, <2>3, TrimKeeps DEF Safe, SlotKept, FindFull
  <2>5. Punctuality'
    BY <1>0, <1>3 DEF Safe, TypeOK, Punctuality, FindFull, Lost, Go, call
  <2>6. ASSUME NEW d \in probes, Covered(d) PROVE probeUntil' = probeUntil
    BY <1>3, <2>6, ProbeKeyStands DEF FindFull, MayProbe, SetProbe
  <2>7. c \notin probes
    BY <2>1 DEF Safe, ProbeKept
  <2>8. ProbeKept'
    BY <1>0, <1>3, <2>3, <2>6, <2>7 DEF Safe, TypeOK, ProbeKept, FindFull, Lost, Go, call, history
  <2> QED
    BY <1>0, <2>2, <2>4, <2>5, <2>8 DEF Safe
<1>4. ASSUME NEW c \in Calls, Grant(c) PROVE Safe'
  <2> DEFINE now == at[c]
             others == {s \in Unlapsed(now) : s.by # c}
             own == [by |-> c, until |-> now + TTL]
  <2>1. stage[c] = "asking" /\ ~Holding(c)
    BY <1>4 DEF Grant, Holding
  <2>2. now \in Nat /\ clock \in Nat /\ clock <= now + Latency /\ now <= clock + Ahead
    BY <1>0, <2>1 DEF Safe, TypeOK, Punctuality
  <2>3. slots' = others \cup {own}
    BY <1>4 DEF Grant
  <2>4. FewSlots'
    <3>1. IsFiniteSet(Unlapsed(now)) /\ Cardinality(Unlapsed(now)) \in Nat
      BY <2>1, TrimKeeps, FS_CardinalityType
    <3>2. Cardinality(Unlapsed(now)) < Concurrency
      BY <1>4, <3>1 DEF Grant, Full
    <3>3. IsFiniteSet(others) /\ Cardinality(others) <= Cardinality(Unlapsed(now))
      BY <3>1, FS_Subset
    <3>4. Cardinality(others) \in Nat
      BY <3>3, FS_CardinalityType
    <3>5. IsFiniteSet(slots') /\ Cardinality(slots') <= Cardinality(others) + 1
      <4> HIDE DEF others, own
      <4> QED
        BY <2>3, <3>3, OneMoreElement
    <3>6. Cardinality(slots') \in Nat
      BY <3>5, FS_CardinalityType
    <3> QED
      BY <3>1, <3>2, <3>3, <3>4, <3>5, <3>6 DEF FewSlots
  <2>5. at' = at /\ clock' = clock
    BY <1>4 DEF Grant, Lost, call
  <2>6. \A d \in Calls : d # c => (Covered(d)' <=> Covered(d))
    BY <1>0, <1>4, <2>5 DEF TypeOK, Grant, Lost, Go, Covered, InTime, Holding, call
  <2>7. Punctuality'
    BY <1>0, <1>4 DEF Safe, TypeOK, Punctuality, Grant, Lost, Go, call
  <2>8. ASSUME NEW d \in Calls, Covered(d)'
        PROVE  /\ [by |-> d, until |-> at[d] + TTL] \in slots'
               /\ slotsUntil' + Ahead >= at[d] + TTL
    <3>0. slotsUntil' = clock + TTL
      BY <1>4 DEF Grant
    <3>1. CASE d = c
      BY <2>2, <2>3, <3>0, <3>1
    <3>2. CASE d # c
      <4>1. Covered(d)
        BY <2>6, <2>8, <3>2
      <4>2. [by |-> d, until |-> at[d] + TTL] \in others
        BY <2>1, <3>2, <4>1, TrimKeeps
      <4>3. at[d] <= clock + Ahead
        BY <4>1 DEF Safe, Punctuality, Covered, Holding
      <4>4. at[d] \in Nat
        BY <1>0 DEF TypeOK
      <4>5. slotsUntil' + Ahead >= at[d] + TTL
        BY <2>2, <3>0, <4>3, <4>4
      <4> QED
        BY <2>3, <4>2, <4>5
    <3> QED
      BY <3>1, <3>2
  <2>9. SlotKept'
    BY <2>5, <2>8 DEF SlotKept
  <2>10. c \notin probes
    BY <2>1 DEF Safe, ProbeKept
  <2>11. CASE Tripped(now)
    <3>1. probeUntil = 0 /\ probeUntil' = clock + TTL
      BY <1>4, <2>11 DEF Grant, MayProbe, SetProbe
    <3>2. \A d \in probes : ~Covered(d)
      BY <3>1, ProbeKeyStands
    <3>3. probes' \subseteq probes \cup {c} /\ (c \in probes' => Holding(c)')
      BY <1>0, <1>4, <2>10, <2>11 DEF TypeOK, Grant, Go, Holding, history
    <3>4. \A d \in probes' : Covered(d)' => d = c
      BY <1>0, <2>6, <3>2, <3>3 DEF TypeOK
    <3>5. probeUntil' + Ahead >= at'[c] + TTL
      BY <2>2, <2>5, <3>1
    <3>6. \A d \in probes' : stage'[d] \notin {"out", "asking", "waiting"}
      BY <1>0, <1>4, <2>10, <3>3 DEF Safe, TypeOK, ProbeKept, Grant, Lost, Go, Holding, call
    <3> QED
      BY <1>0, <2>4, <2>7, <2>9, <3>4, <3>5, <3>6 DEF Safe, ProbeKept
  <2>12. CASE ~Tripped(now)
    <3>1. UNCHANGED <<probes, probeUntil>>
      BY <1>4, <2>12 DEF Grant, SetProbe
    <3>2. \A d \in probes : stage'[d] = stage[d]
      BY <1>0, <1>4, <2>10 DEF TypeOK, Grant, Lost, Go, call
    <3>3. ProbeKept'
      BY <1>0, <2>5, <2>6, <2>10, <3>1, <3>2 DEF Safe, TypeOK, ProbeKept
    <3> QED
      BY <1>0, <2>4, <2>7, <2>9, <3>3 DEF Safe
  <2> QED
    BY <2>11, <2>12
<1>5. ASSUME NEW c \in Calls, Retry(c) PROVE Safe'
  BY <1>0, <1>5, Elsewhere
     DEF Safe, TypeOK, ProbeKept, Retry, Reads, Past, Enters, Go, Holding, breaker, history
<1>6. ASSUME NEW c \in Calls, Throw(c) PROVE Safe'
  BY <1>0, <1>6, Elsewhere
     DEF Safe, TypeOK, Throw, Reads, Past, Enters, Go, Holding, breaker, history
<1>7. ASSUME NEW c \in Calls, Fetch(c) PROVE Safe'
  <2>1. CASE Past(c, "releasing")
    BY <1>0, <1>7, <2>1, Elsewhere
       DEF Safe, TypeOK, Fetch, Past, Enters, Go, Holding, breaker, history
  <2>2. CASE /\ Go(c, "fetching") /\ due' = [due EXCEPT ![c] = clock + FetchTimeout]
             /\ UNCHANGED <<at, level>>
    <3>1. stage[c] = "granted" /\ Holding(c)
      BY <1>7 DEF Fetch, Holding
    <3>2. UNCHANGED <<clock, slots, slotsUntil, probeUntil, probes, at>>
      BY <1>7, <2>2 DEF Fetch, semaphore, breaker, history
    <3>3. Punctuality'
      BY <1>0, <2>2, <3>1, <3>2 DEF Safe, TypeOK, Punctuality, Go
    <3>4. \A d \in Calls : Covered(d)' => Covered(d)
      BY <1>0, <2>2, <3>1, <3>2 DEF TypeOK, Go, Holding, Covered, InTime
    <3>5. SlotKept'
      BY <3>2, <3>4 DEF Safe, SlotKept
    <3>6. ProbeKept'
      BY <1>0, <2>2, <3>2, <3>4 DEF Safe, TypeOK, ProbeKept, Go
    <3> QED
      BY <1>0, <3>2, <3>3, <3>5, <3>6 DEF Safe, FewSlots
  <2> QED
    BY <1>7, <2>1, <2>2 DEF Fetch
<1>8. ASSUME NEW c \in Calls, FetchEnds(c) PROVE Safe'
  BY <1>0, <1>8, Elsewhere
     DEF Safe, TypeOK, FetchEnds, Reads, Past, Enters, Go, Holding, breaker, history
<1>9. ASSUME NEW c \in Calls, RecordFailure(c) \/ RecordReachable(c) PROVE Safe'
  <2>1. UNCHANGED <<clock, slots, slotsUntil>> /\ probes' = {}
    BY <1>9 DEF RecordFailure, RecordReachable, semaphore
  <2>2. \A d \in Calls : stage'[d] \notin {"releasing", "ended"} =>
          stage'[d] = stage[d] /\ at'[d] = at[d] /\ due'[d] = due[d]
    BY <1>0, <1>9 DEF TypeOK, RecordFailure, RecordReachable, AfterRecord, Past, Enters, Lost, Go, call
  <2>3. Punctuality' /\ SlotKept' /\ FewSlots' /\ ProbeKept'
    BY <2>1, <2>2 DEF Safe, Punctuality, SlotKept, FewSlots, ProbeKept, Covered, InTime, Holding
  <2> QED
    BY <1>0, <2>3 DEF Safe
<1>10. ASSUME NEW c \in Calls, RecordThrows(c) PROVE Safe'
  BY <1>0, <1>10, Elsewhere
     DEF Safe, TypeOK, RecordThrows, AfterRecord, Reads, Past, Enters, Go, Holding, breaker, history
<1>11. ASSUME NEW c \in Calls, Release(c) PROVE Safe'
  <2>1. slots' \in SUBSET slots /\ \A s \in slots : s.by # c => s \in slots'
    BY <1>11 DEF Release
  <2>2. FewSlots'
    BY <2>1, FS_Subset, FS_CardinalityType DEF Safe, FewSlots
  <2>3. \A d \in Calls : Covered(d)' => d # c /\ Covered(d) /\ at'[d] = at[d]
    BY <1>0, <1>11 DEF TypeOK, Release, Past, Enters, Go, Covered, InTime, Holding
  <2>4. SlotKept'
    BY <1>11, <2>1, <2>3 DEF Safe, SlotKept, Release
  <2>5. Punctuality' /\ ProbeKept'
    BY <1>0, <1>11, <2>3
       DEF Safe, TypeOK, Punctuality, ProbeKept, Release, Past, Enters, Go, breaker, history
  <2> QED
    BY <1>0, <2>2, <2>4, <2>5 DEF Safe
<1>12. ASSUME NEW c \in Calls, Crash(c) PROVE Safe'
  BY <1>0, <1>12, Elsewhere
     DEF Safe, TypeOK, Crash, Past, Enters, Go, Holding, breaker, history
<1>13. CASE Tick
  <2>1. /\ clock \in Nat /\ clock' = clock + 1
        /\ UNCHANGED <<stage, at, due, probes, slotsUntil>>
    BY <1>0, <1>13 DEF TypeOK, Tick, call, history
  <2>2. \A c \in Calls : OnTime(c)
    BY <1>13 DEF Tick
  <2>3. Punctuality'
    BY <1>0, <2>1, <2>2 DEF Safe, TypeOK, Punctuality, OnTime
  <2>4. \A c \in Calls : Covered(c)' => Covered(c) /\ clock' + Ahead < at[c] + TTL
    BY <1>0, <2>1 DEF TypeOK, Covered, InTime, Holding
  <2>5. ASSUME NEW c \in Calls, Covered(c)' PROVE slots' = slots
    <3>1. slotsUntil + Ahead >= at[c] + TTL /\ clock' + Ahead < at[c] + TTL
      BY <2>4, <2>5 DEF Safe, SlotKept
    <3>2. slotsUntil \in Nat /\ clock' \in Nat /\ at[c] + TTL \in Nat
      BY <1>0 DEF TypeOK
    <3> QED
      BY <1>13, <3>1, <3>2 DEF Tick
  <2>6. SlotKept'
    BY <2>1, <2>4, <2>5 DEF Safe, SlotKept
  <2>7. FewSlots'
    BY <1>13, FS_EmptySet DEF Safe, FewSlots, Tick
  <2>8. ASSUME NEW c \in probes, Covered(c)' PROVE probeUntil' = probeUntil
    BY <1>0, <1>13, <2>1, <2>4, <2>8 DEF Safe, TypeOK, ProbeKept, Tick
  <2>9. ProbeKept'
    BY <1>0, <2>1, <2>4, <2>8 DEF Safe, TypeOK, ProbeKept
  <2> QED
    BY <1>0, <2>3, <2>6, <2>7, <2>9 DEF Safe
<1>14. CASE UNCHANGED vars
  BY <1>0, <1>14, Elsewhere DEF Safe, TypeOK, vars, semaphore, breaker, call, history
<1> QED
  BY <1>1, <1>2, <1>3, <1>4, <1>5, <1>6, <1>7, <1>8, <1>9, <1>10, <1>11, <1>12, <1>13, <1>14
     DEF Next, Step, Over

LEMMA SafeAlways == Spec => []Safe
<1>1. Init => Safe
  BY SafeInit
<1>2. Safe /\ [Next]_vars => Safe'
  BY SafeStep
<1> QED
  BY <1>1, <1>2, PTL DEF Spec

\* As many slots as calls that are covered.
LEMMA SlotsBoundFetches == Safe => AtMostConcurrencyFetch
<1> SUFFICES ASSUME Safe PROVE AtMostConcurrencyFetch
  OBVIOUS
<1> USE CoordinatorAssumption
<1> DEFINE owners == {s.by : s \in slots}
           owner == [s \in slots |-> s.by]
           intime == {c \in Fetching : InTime(c)}
<1>1. owner \in Surjection(slots, owners)
  BY DEF Surjection
<1>2. IsFiniteSet(owners) /\ Cardinality(owners) <= Cardinality(slots)
  BY <1>1, FS_Surjection DEF Safe, FewSlots
<1>3. intime \in SUBSET owners
  <2> SUFFICES ASSUME NEW c \in intime PROVE c \in owners
    OBVIOUS
  <2>1. c \in Calls /\ Covered(c)
    BY DEF Fetching, Covered, Holding
  <2>2. [by |-> c, until |-> at[c] + TTL] \in slots
    BY <2>1 DEF Safe, SlotKept
  <2> QED
    BY <2>2
<1>4. Cardinality(intime) \in Nat /\ Cardinality(intime) <= Cardinality(owners)
  BY <1>2, <1>3, FS_Subset, FS_CardinalityType
<1>5. \A c \in Fetching : clock <= at[c] + Latency + FetchTimeout
  BY DEF Safe, TypeOK, Punctuality, Fetching
<1>6. Cardinality(intime) <= Concurrency
  BY <1>2, <1>4, FS_CardinalityType DEF Safe, FewSlots
<1> QED
  BY <1>5, <1>6 DEF AtMostConcurrencyFetch

\* Whatever the times: on any number of replicas no more fetches of a provider run
\* at once than its policy allows, but for those that outlive their slots, and by
\* how long a fetch can (acquire, fetchFromUpstream).
THEOREM SlotsSuffice == Spec => []AtMostConcurrencyFetch
BY SafeAlways, SlotsBoundFetches, PTL

\* So there are none to except where a grant outlasts the fetch it permits.
THEOREM LongSlotsSuffice ==
  ASSUME FetchTimeout + Latency + Ahead < TTL
  PROVE  Spec => [](Cardinality(Fetching) <= Concurrency)
<1>1. Safe => Cardinality(Fetching) <= Concurrency
  <2> SUFFICES ASSUME Safe PROVE Cardinality(Fetching) <= Concurrency
    OBVIOUS
  <2>1. AtMostConcurrencyFetch
    BY SlotsBoundFetches
  <2>2. {c \in Fetching : InTime(c)} = Fetching
    BY <2>1, CoordinatorAssumption, TimesAreNumbers
       DEF Safe, TypeOK, AtMostConcurrencyFetch, Fetching, InTime
  <2> QED
    BY <2>1, <2>2 DEF AtMostConcurrencyFetch
<1> QED
  BY <1>1, SafeAlways, PTL

\* Whatever the times: a tripped provider is probed by one call at a time while the
\* probe key lasts, unless a result was recorded since (acquire).
THEOREM ProbesAreAlone == Spec => []OneProbeAtATime
<1>1. Safe => OneProbeAtATime
  BY DEF Safe, ProbeKept, OneProbeAtATime, Fetching, Covered, Holding
<1> QED
  BY <1>1, SafeAlways, PTL
-----------------------------------------------------------------------------
(* What opens a provider, and what fills it *)

\* A reading is used within Latency.
Fresh ==
  \A c \in Calls : stage[c] \in {"asking", "granted", "recording", "failing"} =>
    clock <= at[c] + Latency

\* Each failure kept is its record's only one, was counted, and cannot be added anew
\* with another time: a call's later records are within fewer catch blocks.
OneFailureEach ==
  /\ IsFiniteSet(failures) /\ IsFiniteSet(counted)
  /\ \A f \in failures :
       /\ <<f.by, f.level>> \in counted
       /\ stage[f.by] \in {"recording", "failing", "releasing", "ended"}
       /\ stage[f.by] \in {"recording", "failing"} =>
            \/ f.level > level[f.by]
            \/ f.level = level[f.by] /\ f.at = at[f.by]
  /\ \A f, g \in failures : f.by = g.by /\ f.level = g.level => f = g

Honest == TypeOK /\ Fresh /\ IsFiniteSet(slots) /\ OneFailureEach

LEMMA HonestInit == Init => Honest
BY TypeInit, FS_EmptySet DEF Init, Honest, Fresh, OneFailureEach

\* A step of the call leaves its failures as they are: it stays where it is, is done
\* with recording, or comes to record within fewer catch blocks.
Settled(c) ==
  \/ stage'[c] \in {"releasing", "ended"}
  \/ stage'[c] = stage[c] /\ at'[c] = at[c] /\ level'[c] = level[c]
  \/ stage[c] = "recording" /\ stage'[c] = "recording" /\ level'[c] < level[c]

LEMMA NoneAdded ==
  ASSUME OneFailureEach, TypeOK, TypeOK', failures' \subseteq failures, UNCHANGED counted,
         \A c \in Calls : stage[c] \in {"recording", "failing", "releasing", "ended"} => Settled(c)
  PROVE  OneFailureEach'
<1>1. IsFiniteSet(failures')
  BY FS_Subset DEF OneFailureEach
<1>2. IsFiniteSet(counted')
  BY DEF OneFailureEach
<1>3. ASSUME NEW f \in failures'
      PROVE  /\ <<f.by, f.level>> \in counted'
             /\ stage'[f.by] \in {"recording", "failing", "releasing", "ended"}
             /\ stage'[f.by] \in {"recording", "failing"} =>
                  \/ f.level > level'[f.by]
                  \/ f.level = level'[f.by] /\ f.at = at'[f.by]
  <2>1. /\ f \in failures /\ f.by \in Calls /\ f.level \in Int
        /\ level[f.by] \in Int /\ level'[f.by] \in Int
    BY DEF TypeOK, Levels
  <2>2. Settled(f.by)
    BY <2>1 DEF OneFailureEach
  <2> QED
    BY <2>1, <2>2 DEF OneFailureEach, Settled
<1> QED
  BY <1>1, <1>2, <1>3 DEF OneFailureEach

\* A failure is recorded: it replaces the same record's, if that was sent before.
LEMMA OneAdded ==
  ASSUME Honest, TypeOK', NEW c \in Calls, RecordFailure(c)
  PROVE  OneFailureEach'
<1> DEFINE now == at[c]
           n == level[c]
           kept == InWindow(now)
           new == [by |-> c, level |-> n, at |-> now]
<1>1. stage[c] \in {"recording", "failing"} /\ counted' = counted \cup {<<c, n>>}
  BY DEF RecordFailure
<1>2. failures' \subseteq kept \cup {new}
  BY DEF RecordFailure
<1>3. kept \subseteq failures
  BY DEF InWindow
<1>4. IsFiniteSet(kept)
  BY <1>3, FS_Subset DEF Honest, OneFailureEach
<1>5. IsFiniteSet(failures')
  <2> HIDE DEF kept, new
  <2>1. IsFiniteSet(kept \cup {new})
    BY <1>4, FS_AddElement
  <2> QED
    BY <1>2, <2>1, FS_Subset
<1>6. IsFiniteSet(counted')
  BY <1>1, FS_AddElement DEF Honest, OneFailureEach
<1>7. \A f \in failures' : f.by = c /\ f.level = n => f = new
  <2> SUFFICES ASSUME NEW f \in failures', f.by = c, f.level = n PROVE f = new
    OBVIOUS
  <2>1. CASE f \in kept
    <3>1. f \in failures /\ f \in [by : Calls, level : Levels, at : Nat]
      BY <1>3, <2>1 DEF Honest, TypeOK
    <3>2. level[c] \in Int
      BY DEF Honest, TypeOK, Levels
    <3>3. ~(f.level > level[c])
      BY <3>2
    <3>4. \/ f.level > level[f.by]
          \/ f.level = level[f.by] /\ f.at = at[f.by]
      BY <1>1, <3>1 DEF Honest, OneFailureEach
    <3>5. f.at = now
      BY <3>3, <3>4
    <3> QED
      BY <3>1, <3>5
  <2> QED
    BY <1>2, <2>1
<1>8. \A f \in failures' : f # new => f \in failures
  BY <1>2, <1>3
<1>9. \A d \in Calls : d # c => stage'[d] = stage[d] /\ at'[d] = at[d] /\ level'[d] = level[d]
  BY DEF RecordFailure, AfterRecord, Past, Enters, Lost, Go, call, Honest, TypeOK
<1>10. \/ stage'[c] \in {"releasing", "ended"}
       \/ stage'[c] = stage[c] /\ at'[c] = now /\ level'[c] = n
  <2>1. CASE AfterRecord(c)
    BY <2>1 DEF AfterRecord, Past, Enters, Go, Honest, TypeOK
  <2>2. CASE Lost
    BY <1>1, <2>2 DEF Lost, call
  <2> QED
    BY <2>1, <2>2 DEF RecordFailure
<1>11. ASSUME NEW f \in failures'
       PROVE  /\ <<f.by, f.level>> \in counted'
              /\ stage'[f.by] \in {"recording", "failing", "releasing", "ended"}
              /\ stage'[f.by] \in {"recording", "failing"} =>
                   \/ f.level > level'[f.by]
                   \/ f.level = level'[f.by] /\ f.at = at'[f.by]
  <2>1. CASE f = new
    BY <1>1, <1>10, <2>1
  <2>2. CASE f # new
    <3>1. f \in failures /\ f.by \in Calls
      BY <1>8, <2>2 DEF Honest, TypeOK
    <3>2. <<f.by, f.level>> \in counted'
      BY <1>1, <3>1 DEF Honest, OneFailureEach
    <3>3. CASE f.by = c
      BY <1>1, <1>10, <3>1, <3>2, <3>3 DEF Honest, OneFailureEach
    <3>4. CASE f.by # c
      BY <1>9, <3>1, <3>2, <3>4 DEF Honest, OneFailureEach
    <3> QED
      BY <3>3, <3>4
  <2> QED
    BY <2>1, <2>2
<1>12. ASSUME NEW f \in failures', NEW g \in failures', f.by = g.by, f.level = g.level
       PROVE  f = g
  <2>1. CASE f.by = c /\ f.level = n
    BY <1>7, <1>12, <2>1
  <2>2. CASE ~(f.by = c /\ f.level = n)
    BY <1>8, <1>12, <2>2 DEF Honest, OneFailureEach
  <2> QED
    BY <2>1, <2>2
<1> QED
  BY <1>5, <1>6, <1>11, <1>12 DEF OneFailureEach

LEMMA HonestStep == Honest /\ [Next]_vars => Honest'
<1> SUFFICES ASSUME Honest, [Next]_vars PROVE Honest'
  OBVIOUS
<1> USE CoordinatorAssumption
<1>0. TypeOK /\ TypeOK'
  BY TypeStep DEF Honest
<1>1. ASSUME NEW c \in Calls, Ask(c) \/ Retry(c) \/ Throw(c) \/ FetchEnds(c) PROVE Honest'
  <2>1. UNCHANGED <<clock, slots, failures, counted>>
    BY <1>1 DEF Ask, Retry, Throw, FetchEnds, semaphore, breaker, history
  <2>2. Fresh'
    BY <1>0, <1>1 DEF Honest, TypeOK, Fresh, Ask, Retry, Throw, FetchEnds, Reads, Past, Enters, Go
  <2>3. \A d \in Calls : stage[d] \in {"recording", "failing", "releasing", "ended"} => Settled(d)
    BY <1>0, <1>1 DEF TypeOK, Settled, Ask, Retry, Throw, FetchEnds, Reads, Past, Enters, Go
  <2> QED
    BY <1>0, <2>1, <2>2, <2>3, NoneAdded DEF Honest
<1>2. ASSUME NEW c \in Calls, Refuse(c) \/ FindFull(c) \/ Release(c) PROVE Honest'
  <2>1. UNCHANGED <<clock, failures, counted>> /\ slots' \subseteq slots
    BY <1>2 DEF Refuse, FindFull, Release, Unlapsed, breaker, history
  <2>2. Fresh'
    BY <1>0, <1>2 DEF Honest, TypeOK, Fresh, Refuse, FindFull, Release, Past, Enters, Lost, Go, call
  <2>3. \A d \in Calls : stage[d] \in {"recording", "failing", "releasing", "ended"} => Settled(d)
    <3>1. CASE Refuse(c)
      BY <1>0, <3>1 DEF TypeOK, Settled, Refuse, Past, Enters, Lost, Go, call
    <3>2. CASE FindFull(c)
      BY <1>0, <3>2 DEF TypeOK, Settled, FindFull, Lost, Go, call
    <3>3. CASE Release(c)
      BY <1>0, <3>3 DEF TypeOK, Settled, Release, Past, Enters, Go
    <3> QED
      BY <1>2, <3>1, <3>2, <3>3
  <2>4. IsFiniteSet(slots')
    BY <2>1, FS_Subset DEF Honest
  <2> QED
    BY <1>0, <2>1, <2>2, <2>3, <2>4, NoneAdded DEF Honest
<1>3. ASSUME NEW c \in Calls, Grant(c) PROVE Honest'
  <2> DEFINE own == [by |-> c, until |-> at[c] + TTL]
  <2>1. UNCHANGED <<clock, failures, counted>> /\ slots' \subseteq slots \cup {own}
    BY <1>3 DEF Grant, Unlapsed
  <2>2. Fresh'
    BY <1>0, <1>3 DEF Honest, TypeOK, Fresh, Grant, Lost, Go, call
  <2>3. \A d \in Calls : stage[d] \in {"recording", "failing", "releasing", "ended"} => Settled(d)
    BY <1>0, <1>3 DEF TypeOK, Settled, Grant, Lost, Go, call
  <2>4. IsFiniteSet(slots')
    <3> HIDE DEF own
    <3>1. IsFiniteSet(slots \cup {own})
      BY FS_AddElement DEF Honest
    <3> QED
      BY <2>1, <3>1, FS_Subset
  <2> QED
    BY <1>0, <2>1, <2>2, <2>3, <2>4, NoneAdded DEF Honest
<1>4. ASSUME NEW c \in Calls, Fetch(c) \/ RecordThrows(c) \/ Crash(c) PROVE Honest'
  <2>1. UNCHANGED <<clock, slots, failures, counted>>
    BY <1>4 DEF Fetch, RecordThrows, Crash, semaphore, breaker, history
  <2>2. Fresh'
    BY <1>0, <1>4 DEF Honest, TypeOK, Fresh, Fetch, RecordThrows, AfterRecord, Crash, Reads, Past, Enters, Go
  <2>3. \A d \in Calls : stage[d] \in {"recording", "failing", "releasing", "ended"} => Settled(d)
    BY <1>0, <1>4 DEF TypeOK, Settled, Levels, Fetch, RecordThrows, AfterRecord, Crash, Reads, Past, Enters, Go
  <2> QED
    BY <1>0, <2>1, <2>2, <2>3, NoneAdded DEF Honest
<1>5. ASSUME NEW c \in Calls, RecordFailure(c) PROVE Honest'
  <2>1. UNCHANGED <<clock, slots>>
    BY <1>5 DEF RecordFailure, semaphore
  <2>2. Fresh'
    BY <1>0, <1>5 DEF Honest, TypeOK, Fresh, RecordFailure, AfterRecord, Past, Enters, Lost, Go, call
  <2> QED
    BY <1>0, <1>5, <2>1, <2>2, OneAdded DEF Honest
<1>6. ASSUME NEW c \in Calls, RecordReachable(c) PROVE Honest'
  <2>1. UNCHANGED <<clock, slots>> /\ failures' = {} /\ counted' = {}
    BY <1>6 DEF RecordReachable, ForgetFailures, semaphore
  <2>2. Fresh'
    BY <1>0, <1>6 DEF Honest, TypeOK, Fresh, RecordReachable, Past, Enters, Lost, Go, call
  <2>3. OneFailureEach'
    BY <2>1, FS_EmptySet DEF OneFailureEach
  <2> QED
    BY <1>0, <2>1, <2>2, <2>3 DEF Honest
<1>7. CASE Tick
  <2>1. clock' = clock + 1 /\ UNCHANGED <<stage, at, level, counted>>
    BY <1>7 DEF Tick, call, history
  <2>2. Fresh'
    BY <1>0, <1>7, <2>1 DEF TypeOK, Fresh, Tick, OnTime
  <2>3. failures' \subseteq failures /\ slots' \subseteq slots
    BY <1>7 DEF Tick
  <2>4. IsFiniteSet(slots')
    BY <2>3, FS_Subset DEF Honest
  <2> QED
    BY <1>0, <2>1, <2>2, <2>3, <2>4, NoneAdded DEF Honest, Settled
<1>8. CASE UNCHANGED vars
  BY <1>0, <1>8, NoneAdded DEF Honest, Fresh, Settled, vars, semaphore, breaker, call, history
<1> QED
  BY <1>1, <1>2, <1>3, <1>4, <1>5, <1>6, <1>7, <1>8 DEF Next, Step, Over

LEMMA HonestAlways == Spec => []Honest
<1>1. Init => Honest
  BY HonestInit
<1>2. Honest /\ [Next]_vars => Honest'
  BY HonestStep
<1> QED
  BY <1>1, <1>2, PTL DEF Spec

\* Each failure is of another record, so there are as many of these.
Records == {<<f.by, f.level>> : f \in failures}

AsManyRecords ==
  /\ Cardinality(failures) \in Nat /\ Cardinality(Records) \in Nat
  /\ Cardinality(failures) <= Cardinality(Records)
  /\ Records \subseteq counted

LEMMA FailuresAreRecords == Honest => AsManyRecords
<1> SUFFICES ASSUME OneFailureEach PROVE AsManyRecords
  BY DEF Honest
<1> DEFINE record == [f \in failures |-> <<f.by, f.level>>]
<1>1. IsFiniteSet(failures) /\ Records \subseteq counted
  BY DEF OneFailureEach, Records
<1>2. IsFiniteSet(Records)
  BY <1>1, FS_Subset DEF OneFailureEach
<1>3. record \in Injection(failures, Records)
  BY DEF OneFailureEach, Injection, IsInjective, Records
<1>4. Cardinality(failures) <= Cardinality(Records)
  BY <1>2, <1>3, FS_Injection
<1> QED
  BY <1>1, <1>2, <1>4, FS_CardinalityType DEF AsManyRecords

\* The provider opens only when a failure was recorded, and then as the property says.
LEMMA OpenedByFailures ==
  ASSUME Honest, Honest', AsManyRecords', [Next]_vars, openUntil' > clock, openUntil' # openUntil
  PROVE  LET recent == {f \in failures' : f.at > clock - FailureWindow - Latency}
         IN  Cardinality({<<f.by, f.level>> : f \in recent} \cap counted') >= FailureThreshold
<1> USE CoordinatorAssumption
<1>1. TypeOK /\ TypeOK'
  BY DEF Honest
<1>2. PICK c \in Calls : RecordFailure(c)
  BY <1>1 DEF Next, Step, Over, Tick, Ask, Refuse, FindFull, Grant, Retry, Throw, Fetch, FetchEnds,
     RecordReachable, RecordThrows, Release, Crash, breaker, vars, TypeOK
<1> DEFINE recent == {f \in failures' : f.at > clock - FailureWindow - Latency}
<1>3. Cardinality(failures') >= FailureThreshold
  BY <1>2 DEF RecordFailure
<1>4. clock \in Nat /\ at[c] \in Nat /\ clock <= at[c] + Latency
  BY <1>1, <1>2 DEF Honest, Fresh, RecordFailure, TypeOK
<1>5. \A f \in failures' : f.at > clock - FailureWindow - Latency
  <2> SUFFICES ASSUME NEW f \in failures' PROVE f.at > clock - FailureWindow - Latency
    OBVIOUS
  <2>1. f.at \in Nat
    BY <1>1 DEF TypeOK
  <2>2. f.at > at[c] - FailureWindow
    BY <1>2, <1>4 DEF RecordFailure, InWindow
  <2> QED
    BY <1>4, <2>1, <2>2
<1>6. {<<f.by, f.level>> : f \in recent} \cap counted' = Records'
  <2>1. recent = failures'
    BY <1>5
  <2> QED
    BY <2>1 DEF AsManyRecords, Records
<1>7. Cardinality(Records') >= FailureThreshold
  BY <1>3 DEF AsManyRecords
<1> QED
  BY <1>6, <1>7

\* The provider is opened only by enough failures recorded since it last answered,
\* all recent, whatever is lost or sent twice and whichever records throw (record,
\* fetchFromUpstream).
THEOREM OpeningIsEarned == Spec => OpenIsEarned
<1>1. Honest /\ Honest' /\ AsManyRecords' /\ [Next]_vars =>
        [openUntil' > clock /\ openUntil' # openUntil =>
           LET recent == {f \in failures' : f.at > clock - FailureWindow - Latency}
           IN  Cardinality({<<f.by, f.level>> : f \in recent} \cap counted')
                 >= FailureThreshold]_vars
  BY OpenedByFailures
<1> QED
  BY <1>1, FailuresAreRecords, HonestAlways, PTL DEF Spec, OpenIsEarned

\* A call waits only behind enough slots that had not lapsed when it read its clock.
THEOREM WaitsBehindLiveSlots == Spec => FullOnlyByLiveSlots
<1>1. ASSUME Honest, [Next]_vars, NEW c \in Calls, stage[c] = "asking", stage'[c] = "waiting"
      PROVE  Cardinality({s \in slots : s.until > clock - Latency}) >= Concurrency
  <2> USE CoordinatorAssumption
  <2> DEFINE live == {s \in slots : s.until > clock - Latency}
  <2>1. FindFull(c)
    BY <1>1 DEF Honest, TypeOK, Next, Step, Over, Tick, Ask, Refuse, FindFull, Grant, Retry, Throw,
       Fetch, FetchEnds, RecordFailure, RecordReachable, RecordThrows, AfterRecord, Release, Crash, Reads,
       Past, Enters,
       Lost, Go, call, vars
  <2>2. clock \in Nat /\ at[c] \in Nat /\ clock <= at[c] + Latency
    BY <1>1 DEF Honest, Fresh, TypeOK
  <2>3. Unlapsed(at[c]) \subseteq live
    BY <1>1, <2>2 DEF Honest, TypeOK, Unlapsed
  <2>4. IsFiniteSet(live)
    BY <1>1, FS_Subset DEF Honest
  <2>5. Cardinality(Unlapsed(at[c])) <= Cardinality(live) /\ IsFiniteSet(Unlapsed(at[c]))
    <3> HIDE DEF live
    <3> QED
      BY <2>3, <2>4, FS_Subset
  <2>6. Cardinality(Unlapsed(at[c])) \in Nat /\ Cardinality(live) \in Nat
    BY <2>4, <2>5, FS_CardinalityType
  <2>7. Cardinality(Unlapsed(at[c])) >= Concurrency
    BY <2>1 DEF FindFull, Full
  <2> QED
    BY <2>5, <2>6, <2>7
<1>2. Honest /\ [Next]_vars =>
        [\A c \in Calls : stage[c] = "asking" /\ stage'[c] = "waiting" =>
           Cardinality({s \in slots : s.until > clock - Latency}) >= Concurrency]_vars
  BY <1>1
<1> QED
  BY <1>2, HonestAlways, PTL DEF Spec, FullOnlyByLiveSlots

-----------------------------------------------------------------------------
(* The entries of one URL, and the lease *)

\* A lease that lives is the one in Redis.
LeaseKnown ==
  \A t \in Tasks : lease[t] > time => leaseBy = t /\ leaseUntil = lease[t]

\* A command is no older than Delay.
Prompt ==
  \A t \in Tasks : phase[t] \in {"reading", "found", "discarding"} => time <= since[t] + Delay

\* Only a refresh has an answer before it: it is past the reading of entries.
Answered ==
  \A t \in Tasks : served[t] # 0 => phase[t] \in {"leasing", "flight", "releasing"}

CacheSafe == CacheTypeOK /\ LeaseKnown /\ Prompt /\ Answered /\ ServedInTime

LEMMA ReplicaOfTask == \A t \in Tasks : Replica(t) \in Replicas
BY DEF Tasks, Replica

LEMMA CacheSafeInit == CacheInit => CacheSafe
BY DEF CacheInit, CacheSafe, CacheTypeOK, Phases, LeaseKnown, Prompt, Answered, ServedInTime

\* What the parts of a task's step do.
LEMMA EndTypes ==
  ASSUME CacheTypeOK, NEW t \in Tasks, End(t)
  PROVE  /\ phase' \in [Tasks -> Phases] /\ deferred' \in [Tasks -> BOOLEAN]
         /\ since' \in [Tasks -> Nat] /\ deadline' \in [Tasks -> Nat]
         /\ read' \in [Tasks -> Nat] /\ lease' \in [Tasks -> Nat]
         /\ served' \in [Tasks -> Nat]
         /\ phase'[t] = "idle" /\ lease'[t] = 0 /\ served'[t] = 0
         /\ \A s \in Tasks : s # t =>
              /\ phase'[s] = phase[s] /\ deferred'[s] = deferred[s]
              /\ since'[s] = since[s] /\ lease'[s] = lease[s] /\ served'[s] = served[s]
BY DEF CacheTypeOK, End, Phases

LEMMA ServeTypes ==
  ASSUME CacheTypeOK, NEW t \in Tasks, NEW e \in Nat, NEW now \in Nat, Serve(t, e, now)
  PROVE  /\ phase' \in [Tasks -> Phases] /\ deferred' \in [Tasks -> BOOLEAN]
         /\ since' \in [Tasks -> Nat] /\ deadline' \in [Tasks -> Nat]
         /\ read' \in [Tasks -> Nat] /\ lease' \in [Tasks -> Nat]
         /\ served' \in [Tasks -> Nat]
         /\ \/ phase'[t] = "idle" /\ lease'[t] = 0 /\ served'[t] = 0
            \/ /\ phase'[t] = "leasing" /\ deferred'[t] /\ lease'[t] = lease[t]
               /\ since'[t] = time /\ served'[t] = e
         /\ \A s \in Tasks : s # t =>
              /\ phase'[s] = phase[s] /\ deferred'[s] = deferred[s]
              /\ since'[s] = since[s] /\ lease'[s] = lease[s] /\ served'[s] = served[s]
<1>1. CASE StillFresh(e, now)
  BY <1>1, EndTypes DEF Serve
<1>2. CASE ~StillFresh(e, now)
  <2>1. /\ phase' = [phase EXCEPT ![t] = "leasing"]
        /\ since' = [since EXCEPT ![t] = time]
        /\ deferred' = [deferred EXCEPT ![t] = TRUE]
        /\ read' = [read EXCEPT ![t] = 0]
        /\ served' = [served EXCEPT ![t] = e]
        /\ UNCHANGED <<deadline, lease>>
    BY <1>2 DEF Serve, Await
  <2>2. /\ phase' \in [Tasks -> Phases] /\ since' \in [Tasks -> Nat]
        /\ phase'[t] = "leasing" /\ since'[t] = time
        /\ \A s \in Tasks : s # t => phase'[s] = phase[s] /\ since'[s] = since[s]
    BY <2>1 DEF CacheTypeOK, Phases
  <2>3. /\ deferred' \in [Tasks -> BOOLEAN] /\ deferred'[t]
        /\ \A s \in Tasks : s # t => deferred'[s] = deferred[s]
    BY <2>1, Zenon DEF CacheTypeOK
  <2>4. /\ deadline' \in [Tasks -> Nat] /\ read' \in [Tasks -> Nat] /\ lease' = lease
        /\ lease' \in [Tasks -> Nat] /\ served' \in [Tasks -> Nat] /\ served'[t] = e
        /\ \A s \in Tasks : s # t => served'[s] = served[s]
    BY <2>1 DEF CacheTypeOK
  <2> QED
    BY <2>2, <2>3, <2>4
<1> QED
  BY <1>1, <1>2

LEMMA JoinTypes ==
  ASSUME CacheTypeOK, NEW t \in Tasks, JoinFlight(t)
  PROVE  /\ phase' \in [Tasks -> Phases] /\ deferred' = deferred /\ served' = served
         /\ since' \in [Tasks -> Nat] /\ deadline' \in [Tasks -> Nat] /\ read' \in [Tasks -> Nat]
         /\ flight' \in [Replicas -> {"none", "fetching", "putting"}]
         /\ memory' = memory /\ fetched' = fetched
         /\ phase'[t] = "flight" /\ flight'[Replica(t)] # "none"
         /\ \A p \in Replicas : flight[p] # "none" => flight'[p] = flight[p]
         /\ \A s \in Tasks : s # t => phase'[s] = phase[s] /\ since'[s] = since[s]
BY ReplicaOfTask DEF CacheTypeOK, JoinFlight, Begin, Phases

\* A step that changes one task keeps the rest, if that task is well.
LEMMA OneTask ==
  ASSUME CacheSafe, CacheTypeOK', NEW t \in Tasks, time' = time,
         \A s \in Tasks : s # t =>
           /\ phase'[s] = phase[s] /\ deferred'[s] = deferred[s]
           /\ since'[s] = since[s] /\ lease'[s] = lease[s] /\ served'[s] = served[s],
         UNCHANGED <<leaseBy, leaseUntil>>,
         lease'[t] \in {0, lease[t]},
         phase'[t] \in {"reading", "found", "discarding"} => time <= since'[t] + Delay,
         served'[t] # 0 =>
           /\ phase'[t] \in {"leasing", "flight", "releasing"}
           /\ deferred'[t]
           /\ phase'[t] = "leasing" => since'[t] < served'[t] + FreshFor + StaleFor + Delay
  PROVE  CacheSafe'
<1> USE CacheAssumption
<1>1. LeaseKnown'
  BY DEF CacheSafe, CacheTypeOK, LeaseKnown
<1>2. Prompt'
  BY DEF CacheSafe, Prompt
<1>3. ServedInTime'
  BY DEF CacheSafe, ServedInTime
<1>4. Answered'
  BY DEF CacheSafe, Answered
<1> QED
  BY <1>1, <1>2, <1>3, <1>4 DEF CacheSafe

\* A task ends, whatever becomes of the entries.
LEMMA EndStep ==
  ASSUME CacheSafe, NEW t \in Tasks, End(t), UNCHANGED <<time, leaseBy, leaseUntil, fetched>>,
         shared' \in Nat, expires' \in Nat, memory' \in [Replicas -> Nat],
         Begin(Replica(t)) \/ UNCHANGED flight
  PROVE  CacheSafe'
<1>0. CacheTypeOK
  BY DEF CacheSafe
<1>1. \A s \in Tasks : phase'[s] = "flight" => phase[s] = "flight"
  BY <1>0, EndTypes
<1>2. /\ flight' \in [Replicas -> {"none", "fetching", "putting"}]
      /\ \A p \in Replicas : flight[p] # "none" => flight'[p] # "none"
  BY <1>0, ReplicaOfTask DEF CacheTypeOK, Begin
<1>3. CacheTypeOK'
  BY <1>0, <1>1, <1>2, EndTypes, ReplicaOfTask DEF CacheTypeOK
<1> QED
  BY <1>0, <1>3, EndTypes, OneTask

\* The caller left during a command.
LEMMA DepartStep ==
  ASSUME CacheSafe, NEW t \in Tasks, Depart(t), UNCHANGED <<time, redis>>
  PROVE  CacheSafe'
BY EndStep DEF Depart, Begin, redis, entry, CacheSafe, CacheTypeOK

\* A task joins a flight without the lease.
LEMMA JoinStep ==
  ASSUME CacheSafe, NEW t \in Tasks, JoinFlight(t), UNCHANGED <<time, redis, lease>>
  PROVE  CacheSafe'
<1>0. CacheTypeOK
  BY DEF CacheSafe
<1>1. CacheTypeOK'
  BY <1>0, JoinTypes, ReplicaOfTask DEF CacheTypeOK, redis, entry
<1>2. served'[t] # 0 => deferred'[t]
  BY <1>0, JoinTypes DEF CacheSafe, ServedInTime
<1> QED
  BY <1>0, <1>1, <1>2, JoinTypes, OneTask DEF redis, entry

\* A task that gives the lease back takes it from nobody who holds it.
LEMMA GiveBackStep ==
  ASSUME CacheSafe, NEW t \in Tasks, GiveBack(t)
  PROVE  CacheSafe'
<1>0. CacheTypeOK /\ End(t) /\ UNCHANGED <<time, entry, replica>>
  BY DEF CacheSafe, GiveBack
<1>1. CASE OwnLease(t) /\ NoLease
  <2>1. leaseBy = t /\ leaseBy' = Nobody /\ leaseUntil' = 0
    BY <1>1 DEF OwnLease, NoLease
  <2>2. \A s \in Tasks : s # t => ~(lease[s] > time)
    BY <2>1 DEF CacheSafe, LeaseKnown
  <2>3. time \in Nat /\ lease'[t] = 0 /\ \A s \in Tasks : s # t => lease'[s] = lease[s]
    BY <1>0, EndTypes DEF CacheTypeOK
  <2>4. LeaseKnown'
    BY <1>0, <2>2, <2>3 DEF LeaseKnown
  <2>5. \A s \in Tasks : phase'[s] = "flight" => phase[s] = "flight"
    BY <1>0, EndTypes
  <2>6. CacheTypeOK'
    BY <1>0, <2>1, <2>5, EndTypes DEF CacheTypeOK, entry, replica
  <2>7. Prompt' /\ Answered' /\ ServedInTime'
    BY <1>0, EndTypes DEF CacheSafe, Prompt, Answered, ServedInTime
  <2> QED
    BY <2>4, <2>6, <2>7 DEF CacheSafe
<1>2. CASE UNCHANGED <<leaseBy, leaseUntil>>
  BY <1>0, <1>2, EndStep DEF CacheTypeOK, entry, replica
<1> QED
  BY <1>1, <1>2 DEF GiveBack

LEMMA TakeLeaseStep ==
  ASSUME CacheSafe, NEW t \in Tasks, TakeLease(t)
  PROVE  CacheSafe'
<1> USE CacheAssumption, NobodyAssumption
<1>1. phase[t] = "leasing" /\ leaseBy = Nobody /\ leaseBy' = t
      /\ leaseUntil' = time + LeaseFor /\ UNCHANGED <<time, shared, expires>>
  BY DEF TakeLease, entry, LeaseFree
<1>2. \A s \in Tasks : ~(lease[s] > time)
  BY <1>1 DEF CacheSafe, LeaseKnown
<1>3. CASE JoinFlight(t) /\ lease' = [lease EXCEPT ![t] = time + LeaseFor]
  <2>1. lease' \in [Tasks -> Nat] /\ lease'[t] = leaseUntil'
        /\ \A s \in Tasks : s # t => lease'[s] = lease[s]
    BY <1>1, <1>3 DEF CacheSafe, CacheTypeOK
  <2>2. CacheTypeOK'
    BY <1>1, <1>3, <2>1, JoinTypes, ReplicaOfTask DEF CacheSafe, CacheTypeOK
  <2>3. LeaseKnown'
    BY <1>1, <1>2, <2>1 DEF CacheSafe, CacheTypeOK, LeaseKnown
  <2>4. Prompt' /\ Answered' /\ ServedInTime'
    BY <1>1, <1>3, JoinTypes DEF CacheSafe, Prompt, Answered, ServedInTime
  <2> QED
    BY <2>2, <2>3, <2>4 DEF CacheSafe
<1>4. CASE UNCHANGED <<replica, task>>
  <2>1. CacheTypeOK'
    BY <1>1, <1>4 DEF CacheSafe, CacheTypeOK, replica, task
  <2>2. LeaseKnown' /\ Prompt' /\ Answered' /\ ServedInTime'
    BY <1>1, <1>2, <1>4 DEF CacheSafe, LeaseKnown, Prompt, Answered, ServedInTime, task
  <2> QED
    BY <2>1, <2>2 DEF CacheSafe
<1> QED
  BY <1>3, <1>4 DEF TakeLease

\* A flight that settles takes its passengers out of it.
LEMMA SettleStep ==
  ASSUME CacheSafe, NEW p \in Replicas, Settle(p),
         time' = time, UNCHANGED <<leaseBy, leaseUntil>>,
         shared' \in Nat, expires' \in Nat, memory' \in [Replicas -> Nat]
  PROVE  CacheSafe'
<1>1. /\ flight' \in [Replicas -> {"none", "fetching", "putting"}]
      /\ fetched' \in [Replicas -> Nat]
      /\ \A q \in Replicas : q # p => flight'[q] = flight[q]
  BY DEF CacheSafe, CacheTypeOK, Settle
<1> DEFINE done == {t \in Passengers(p) : lease[t] = 0}
<1>d. /\ phase' = [t \in Tasks |-> IF t \in done THEN "idle"
                                   ELSE IF t \in Passengers(p) THEN "releasing"
                                   ELSE phase[t]]
      /\ deferred' = [t \in Tasks |-> deferred[t] /\ t \notin done]
      /\ served' = [t \in Tasks |-> IF t \in done THEN 0 ELSE served[t]]
  BY DEF Settle
<1>e. \A t \in done : t \in Passengers(p)
  OBVIOUS
<1> HIDE DEF done
<1>2. /\ phase' \in [Tasks -> Phases]
      /\ \A t \in Tasks : \/ phase'[t] = "idle" /\ t \in done
                          \/ phase'[t] = "releasing"
                          \/ phase'[t] = phase[t] /\ t \notin Passengers(p)
  BY <1>d, <1>e DEF CacheSafe, CacheTypeOK, Phases
<1>3. /\ deferred' \in [Tasks -> BOOLEAN]
      /\ served' \in [Tasks -> Nat]
      /\ \A t \in Tasks : served'[t] # 0 => t \notin done /\ served'[t] = served[t]
      /\ \A t \in Tasks : t \notin done => deferred'[t] = deferred[t]
  <2>2. deferred' \in [Tasks -> BOOLEAN]
        /\ \A t \in Tasks : t \notin done => deferred'[t] = deferred[t]
    BY <1>d, Zenon DEF CacheSafe, CacheTypeOK
  <2>3. served' \in [Tasks -> Nat]
        /\ \A t \in Tasks : served'[t] # 0 => t \notin done /\ served'[t] = served[t]
    BY <1>d DEF CacheSafe, CacheTypeOK
  <2> QED
    BY <2>2, <2>3
<1>4. UNCHANGED <<since, deadline, read, lease>>
  BY DEF Settle
<1>5. \A t \in Tasks : phase'[t] = "flight" => flight'[Replica(t)] # "none"
  BY <1>1, <1>2, ReplicaOfTask DEF CacheSafe, CacheTypeOK, Passengers
<1>6. CacheTypeOK'
  BY <1>1, <1>2, <1>3, <1>4, <1>5 DEF CacheSafe, CacheTypeOK
<1>7. LeaseKnown' /\ Prompt'
  BY <1>2, <1>4 DEF CacheSafe, LeaseKnown, Prompt
<1>8. Answered' /\ ServedInTime'
  BY <1>2, <1>3, <1>4 DEF CacheSafe, Answered, ServedInTime
<1> QED
  BY <1>6, <1>7, <1>8 DEF CacheSafe

LEMMA RestartStep ==
  ASSUME CacheSafe, NEW p \in Replicas, Restart(p)
  PROVE  CacheSafe'
<1> DEFINE gone == {t \in Tasks : Replica(t) = p}
<1>1. /\ memory' = [memory EXCEPT ![p] = 0]
      /\ flight' = [flight EXCEPT ![p] = "none"]
      /\ fetched' = [fetched EXCEPT ![p] = 0]
      /\ phase' = [t \in Tasks |-> IF t \in gone THEN "idle" ELSE phase[t]]
      /\ deferred' = [t \in Tasks |-> deferred[t] /\ t \notin gone]
      /\ since' = [t \in Tasks |-> IF t \in gone THEN 0 ELSE since[t]]
      /\ deadline' = [t \in Tasks |-> IF t \in gone THEN 0 ELSE deadline[t]]
      /\ read' = [t \in Tasks |-> IF t \in gone THEN 0 ELSE read[t]]
      /\ lease' = [t \in Tasks |-> IF t \in gone THEN 0 ELSE lease[t]]
      /\ served' = [t \in Tasks |-> IF t \in gone THEN 0 ELSE served[t]]
      /\ UNCHANGED <<time, shared, expires, leaseBy, leaseUntil>>
  BY DEF Restart, redis, entry
<1>2. \A t \in Tasks : t \notin gone => Replica(t) # p
  OBVIOUS
<1> HIDE DEF gone
<1>3. deferred' \in [Tasks -> BOOLEAN]
      /\ \A t \in Tasks : t \notin gone => deferred'[t] = deferred[t]
  BY <1>1, Zenon DEF CacheSafe, CacheTypeOK
<1>4. \A t \in Tasks : IF t \in gone
        THEN phase'[t] = "idle" /\ lease'[t] = 0 /\ served'[t] = 0
        ELSE /\ phase'[t] = phase[t] /\ since'[t] = since[t]
             /\ lease'[t] = lease[t] /\ served'[t] = served[t]
  BY <1>1
<1>5. CacheTypeOK'
  <2>1. /\ phase' \in [Tasks -> Phases] /\ since' \in [Tasks -> Nat]
        /\ deadline' \in [Tasks -> Nat] /\ read' \in [Tasks -> Nat]
        /\ lease' \in [Tasks -> Nat] /\ served' \in [Tasks -> Nat]
    BY <1>1 DEF CacheSafe, CacheTypeOK, Phases
  <2>2. /\ memory' \in [Replicas -> Nat] /\ fetched' \in [Replicas -> Nat]
        /\ flight' \in [Replicas -> {"none", "fetching", "putting"}]
        /\ \A q \in Replicas : q # p => flight'[q] = flight[q]
    BY <1>1 DEF CacheSafe, CacheTypeOK
  <2>3. \A t \in Tasks : phase'[t] = "flight" => flight'[Replica(t)] # "none"
    BY <1>2, <1>4, <2>2, ReplicaOfTask DEF CacheSafe, CacheTypeOK
  <2> QED
    BY <1>1, <1>3, <2>1, <2>2, <2>3 DEF CacheSafe, CacheTypeOK
<1>6. LeaseKnown' /\ Prompt' /\ Answered' /\ ServedInTime'
  BY <1>1, <1>3, <1>4 DEF CacheSafe, CacheTypeOK, LeaseKnown, Prompt, Answered, ServedInTime
<1> QED
  BY <1>5, <1>6 DEF CacheSafe

LEMMA TimePassesStep ==
  ASSUME CacheSafe, TimePasses
  PROVE  CacheSafe'
<1>1. /\ time \in Nat /\ time' = time + 1 /\ UNCHANGED <<replica, task>>
      /\ \A t \in Tasks : Punctual(t)
      /\ shared' \in {0, shared} /\ expires' \in {0, expires}
  BY DEF CacheSafe, CacheTypeOK, TimePasses, NoEntry, entry
<1>2. \/ leaseUntil <= time' /\ leaseBy' = Nobody /\ leaseUntil' = 0
      \/ ~(leaseUntil <= time') /\ UNCHANGED <<leaseBy, leaseUntil>>
  BY DEF TimePasses, NoLease
<1>3. CacheTypeOK'
  BY <1>1, <1>2 DEF CacheSafe, CacheTypeOK, replica, task
<1>4. LeaseKnown'
  BY <1>1, <1>2 DEF CacheSafe, CacheTypeOK, LeaseKnown, task
<1>5. Prompt'
  BY <1>1, CacheAssumption DEF CacheSafe, CacheTypeOK, Prompt, Punctual, task
<1>6. Answered' /\ ServedInTime'
  BY <1>1 DEF CacheSafe, Answered, ServedInTime, task
<1> QED
  BY <1>3, <1>4, <1>5, <1>6 DEF CacheSafe

LEMMA CacheSafeStep == CacheSafe /\ [CacheNext]_cacheVars => CacheSafe'
<1> SUFFICES ASSUME CacheSafe, [CacheNext]_cacheVars PROVE CacheSafe'
  OBVIOUS
<1> USE CacheAssumption
<1>0. CacheTypeOK
  BY DEF CacheSafe
<1>1. ASSUME NEW t \in Tasks, Arrive(t) PROVE CacheSafe'
  <2> DEFINE e == memory[Replica(t)]
  <2>0. e \in Nat /\ time \in Nat /\ lease[t] \in Nat
    BY ReplicaOfTask, <1>0 DEF CacheTypeOK
  <2>1. CASE Usable(e, time)
    <3>1. Serve(t, e, time) /\ UNCHANGED <<time, shared, expires, leaseBy, leaseUntil, replica>>
      BY <1>1, <2>1 DEF Arrive, redis, entry, replica
    <3>2. CacheTypeOK'
      <4>1. \A s \in Tasks : phase'[s] = "flight" => phase[s] = "flight"
        BY <1>0, <2>0, <3>1, ServeTypes
      <4> QED
        BY <1>0, <2>0, <3>1, <4>1, ServeTypes DEF CacheTypeOK, replica
    <3>3. time < e + FreshFor + StaleFor + Delay
      BY <2>0, <2>1 DEF Usable
    <3> HIDE DEF e
    <3> QED
      BY <1>0, <2>0, <3>1, <3>2, <3>3, ServeTypes, OneTask
  <2>2. CASE ~Usable(e, time)
    <3>1. /\ phase' = [phase EXCEPT ![t] = "reading"] /\ since' = [since EXCEPT ![t] = time]
          /\ memory' = [memory EXCEPT ![Replica(t)] = 0]
          /\ UNCHANGED <<deferred, deadline, read, lease, served, time, redis, flight, fetched>>
          /\ phase[t] = "idle"
      BY <1>1, <2>2 DEF Arrive, Await
    <3>2. CacheTypeOK'
      BY <1>0, <3>1 DEF CacheTypeOK, Phases, redis, entry
    <3> QED
      BY <1>0, <2>0, <3>1, <3>2, OneTask DEF CacheSafe, CacheTypeOK, Answered, redis, entry
  <2> QED
    BY <2>1, <2>2
<1>2. ASSUME NEW t \in Tasks, ReadShared(t) \/ Poll(t) PROVE CacheSafe'
  <2>1. \E s \in {"found", "polled"} :
          /\ phase' = [phase EXCEPT ![t] = s]
          /\ s = "found" => phase[t] = "reading"
    BY <1>2 DEF ReadShared, Poll
  <2>2. /\ read' = [read EXCEPT ![t] = shared]
        /\ UNCHANGED <<time, redis, replica, deferred, since, deadline, lease, served>>
    BY <1>2 DEF ReadShared, Poll
  <2>3. CacheTypeOK'
    BY <1>0, <2>1, <2>2 DEF CacheTypeOK, Phases, redis, entry, replica
  <2>4. served'[t] = 0
    BY <1>2, <2>2 DEF ReadShared, Poll, CacheSafe, Answered
  <2>5. phase'[t] \in {"reading", "found"} => time <= since'[t] + Delay
    BY <1>0, <2>1, <2>2 DEF CacheSafe, CacheTypeOK, Prompt
  <2> QED
    BY <1>0, <2>1, <2>2, <2>3, <2>4, <2>5, OneTask DEF CacheTypeOK, redis, entry
<1>3. ASSUME NEW t \in Tasks, Found(t) PROVE CacheSafe'
  <2> DEFINE e == read[t]  now == since[t]
  <2>0. e \in Nat /\ now \in Nat /\ time \in Nat /\ phase[t] = "found" /\ time <= now + Delay
        /\ UNCHANGED <<time, redis, flight, fetched>>
    BY <1>0, <1>3 DEF CacheSafe, CacheTypeOK, Prompt, Found
  <2>1. CASE e # 0
    <3>1. Serve(t, e, now) /\ memory' = [memory EXCEPT ![Replica(t)] = e]
      BY <1>3, <2>1 DEF Found
    <3>2. CacheTypeOK'
      <4>1. \A s \in Tasks : phase'[s] = "flight" => phase[s] = "flight"
        BY <1>0, <2>0, <3>1, ServeTypes
      <4> QED
        BY <1>0, <2>0, <3>1, <4>1, ServeTypes DEF CacheTypeOK, redis, entry
    <3>3. time < e + FreshFor + StaleFor + Delay
      BY <1>3, <2>0, <2>1 DEF Found, Usable
    <3> HIDE DEF e, now
    <3> QED
      BY <1>0, <2>0, <3>1, <3>2, <3>3, ServeTypes, OneTask DEF redis, entry
  <2>2. CASE e = 0
    <3>1. /\ phase' = [phase EXCEPT ![t] = "leasing"] /\ since' = [since EXCEPT ![t] = time]
          /\ UNCHANGED <<memory, deferred, deadline, read, lease, served>>
      BY <1>3, <2>2 DEF Found, Await
    <3>2. CacheTypeOK'
      BY <1>0, <2>0, <3>1 DEF CacheTypeOK, Phases, redis, entry
    <3>3. served[t] = 0
      BY <1>0, <2>0 DEF CacheSafe, CacheTypeOK, Answered
    <3> QED
      BY <1>0, <2>0, <3>1, <3>2, <3>3, OneTask DEF CacheTypeOK, redis, entry
  <2> QED
    BY <2>1, <2>2
<1>4. ASSUME NEW t \in Tasks, ReadFails(t) PROVE CacheSafe'
  <2>1. /\ End(t) /\ UNCHANGED <<time, leaseBy, leaseUntil, replica>>
        /\ NoEntry \/ UNCHANGED entry
    BY <1>4 DEF ReadFails
  <2> QED
    BY <1>0, <2>1, EndStep DEF CacheTypeOK, NoEntry, entry, replica
<1>5. ASSUME NEW t \in Tasks, LeaseTaken(t) PROVE CacheSafe'
  <2>1. CASE deferred[t]
    BY <1>0, <1>5, <2>1, EndStep DEF LeaseTaken, CacheTypeOK, redis, entry, replica
  <2>4. CASE Depart(t)
    BY <1>5, <2>4, DepartStep DEF LeaseTaken
  <2>2. CASE ~deferred[t] /\ ~Depart(t)
    <3>1. /\ phase' = [phase EXCEPT ![t] = "sleeping"] /\ since' = [since EXCEPT ![t] = time]
          /\ deadline' = [deadline EXCEPT ![t] = time + PeerWait]
          /\ UNCHANGED <<time, redis, replica, deferred, read, lease, served>>
      BY <1>5, <2>2 DEF LeaseTaken, Await
    <3>2. CacheTypeOK'
      BY <1>0, <3>1 DEF CacheTypeOK, Phases, redis, entry, replica
    <3>3. served[t] = 0
      BY <2>2 DEF CacheSafe, ServedInTime
    <3> QED
      BY <1>0, <3>1, <3>2, <3>3, OneTask DEF CacheTypeOK, redis, entry
  <2> QED
    BY <2>1, <2>2, <2>4
<1>6. ASSUME NEW t \in Tasks, LeaseFails(t) PROVE CacheSafe'
  BY <1>6, JoinStep DEF LeaseFails
<1>7. ASSUME NEW t \in Tasks, Wake(t) PROVE CacheSafe'
  <2>1. /\ phase[t] = "sleeping"
        /\ phase' = [phase EXCEPT ![t] = "polling"] /\ since' = [since EXCEPT ![t] = time]
        /\ UNCHANGED <<time, redis, replica, deferred, deadline, read, lease, served>>
    BY <1>7 DEF Wake, Await
  <2>2. CacheTypeOK'
    BY <1>0, <2>1 DEF CacheTypeOK, Phases, redis, entry, replica
  <2>3. served[t] = 0
    BY <2>1 DEF CacheSafe, Answered
  <2> QED
    BY <1>0, <2>1, <2>2, <2>3, OneTask DEF CacheTypeOK, redis, entry
<1>8. ASSUME NEW t \in Tasks, Polled(t) PROVE CacheSafe'
  <2>0. phase[t] = "polled" /\ UNCHANGED <<time, redis>> /\ read[t] \in Nat
    BY <1>0, <1>8 DEF Polled, CacheTypeOK
  <2>1. CASE StillFresh(read[t], since[t])
    <3>1. End(t) /\ memory' = [memory EXCEPT ![Replica(t)] = read[t]] /\ UNCHANGED <<flight, fetched>>
      BY <1>8, <2>1 DEF Polled
    <3>2. memory' \in [Replicas -> Nat]
      BY <1>0, <2>0, <3>1 DEF CacheTypeOK
    <3> QED
      BY <1>0, <2>0, <3>1, <3>2, EndStep DEF CacheTypeOK, redis, entry
  <2>4. CASE Depart(t)
    BY <2>0, <2>4, DepartStep
  <2>2. CASE ~StillFresh(read[t], since[t]) /\ ~Depart(t) /\ WaitOver(t)
    <3>1. JoinFlight(t) /\ UNCHANGED lease
      BY <1>8, <2>2 DEF Polled
    <3> QED
      BY <2>0, <3>1, JoinStep
  <2>3. CASE ~StillFresh(read[t], since[t]) /\ ~Depart(t) /\ ~WaitOver(t)
    <3>1. /\ phase' = [phase EXCEPT ![t] = "sleeping"] /\ since' = [since EXCEPT ![t] = time]
          /\ read' = [read EXCEPT ![t] = 0]
          /\ UNCHANGED <<replica, deferred, deadline, lease, served>>
      BY <1>8, <2>3 DEF Polled, Await
    <3>2. CacheTypeOK'
      BY <1>0, <2>0, <3>1 DEF CacheTypeOK, Phases, redis, entry, replica
    <3>3. served[t] = 0
      BY <2>0 DEF CacheSafe, Answered
    <3> QED
      BY <1>0, <2>0, <3>1, <3>2, <3>3, OneTask DEF CacheTypeOK, redis, entry
  <2> QED
    BY <2>1, <2>2, <2>3, <2>4
<1>9. ASSUME NEW t \in Tasks, GiveBack(t) PROVE CacheSafe'
  BY <1>9, GiveBackStep
<1>10. ASSUME NEW t \in Tasks, Cancel(t) PROVE CacheSafe'
  <2>1. CASE End(t) /\ UNCHANGED <<time, redis, replica>>
    BY <1>0, <2>1, EndStep DEF CacheTypeOK, redis, entry, replica
  <2>2. CASE /\ phase' = [phase EXCEPT ![t] = "releasing"]
             /\ UNCHANGED <<deferred, since, deadline, read, lease, served>>
             /\ UNCHANGED <<time, redis, replica>>
    <3>1. CacheTypeOK'
      BY <1>0, <2>2 DEF CacheTypeOK, Phases, redis, entry, replica
    <3>2. served'[t] # 0 => deferred'[t]
      BY <2>2 DEF CacheSafe, ServedInTime
    <3> QED
      BY <1>0, <2>2, <3>1, <3>2, OneTask DEF CacheTypeOK, redis, entry
  <2> QED
    BY <1>10, <2>1, <2>2 DEF Cancel
<1>11. ASSUME NEW p \in Replicas, Fetched(p) PROVE CacheSafe'
  <2>1. /\ memory' = [memory EXCEPT ![p] = time]
        /\ flight' = [flight EXCEPT ![p] = "putting"]
        /\ fetched' = [fetched EXCEPT ![p] = time]
        /\ UNCHANGED <<time, redis, task>>
    BY <1>11 DEF Fetched
  <2>2. CacheTypeOK'
    BY <1>0, <2>1 DEF CacheTypeOK, redis, entry, task
  <2> QED
    BY <2>1, <2>2 DEF CacheSafe, LeaseKnown, Prompt, Answered, ServedInTime, redis, entry, task
<1>12. ASSUME NEW p \in Replicas, FetchFails(p) PROVE CacheSafe'
  BY <1>0, <1>12, SettleStep DEF FetchFails, CacheTypeOK, redis, entry
<1>13. ASSUME NEW p \in Replicas, Put(p) PROVE CacheSafe'
  <2>1. shared' \in Nat /\ expires' \in Nat
    BY <1>0, <1>13 DEF Put, CacheTypeOK, entry
  <2> QED
    BY <1>0, <1>13, <2>1, SettleStep DEF Put, CacheTypeOK
<1>14. ASSUME NEW p \in Replicas, Evict(p) PROVE CacheSafe'
  <2>1. memory' = [memory EXCEPT ![p] = 0] /\ UNCHANGED <<time, redis, flight, fetched, task>>
    BY <1>14 DEF Evict
  <2>2. CacheTypeOK'
    BY <1>0, <2>1 DEF CacheTypeOK, redis, entry, task
  <2> QED
    BY <2>1, <2>2 DEF CacheSafe, LeaseKnown, Prompt, Answered, ServedInTime, redis, entry, task
<1>15. CASE UNCHANGED cacheVars
  <2>1. CacheTypeOK'
    BY <1>0, <1>15 DEF CacheTypeOK, cacheVars, redis, entry, replica, task
  <2> QED
    BY <1>15, <2>1 DEF CacheSafe, LeaseKnown, Prompt, Answered, ServedInTime, cacheVars, redis, entry, task
<1>18. ASSUME NEW t \in Tasks, Overdue(t) PROVE CacheSafe'
  <2>1. /\ phase[t] \in {"found", "polled"}
        /\ phase' = [phase EXCEPT ![t] = "discarding"] /\ since' = [since EXCEPT ![t] = time]
        /\ read' = [read EXCEPT ![t] = 0]
        /\ UNCHANGED <<time, redis, replica, deferred, deadline, lease, served>>
    BY <1>18 DEF Overdue, Await
  <2>2. CacheTypeOK'
    BY <1>0, <2>1 DEF CacheTypeOK, Phases, redis, entry, replica
  <2>3. served[t] = 0
    BY <2>1 DEF CacheSafe, Answered
  <2> QED
    BY <1>0, <2>1, <2>2, <2>3, OneTask DEF CacheTypeOK, redis, entry
<1>19. ASSUME NEW t \in Tasks, Discard(t) PROVE CacheSafe'
  <2>1. /\ phase[t] = "discarding" /\ shared' = 0 /\ expires' = 0
        /\ phase' = [phase EXCEPT ![t] = IF deadline[t] = 0 THEN "found" ELSE "polled"]
        /\ UNCHANGED <<time, leaseBy, leaseUntil, replica>>
        /\ UNCHANGED <<deferred, since, deadline, read, lease, served>>
    BY <1>19 DEF Discard, NoEntry
  <2>2. CacheTypeOK'
    BY <1>0, <2>1 DEF CacheTypeOK, Phases, replica
  <2>3. served[t] = 0 /\ time <= since[t] + Delay
    BY <2>1 DEF CacheSafe, Answered, Prompt
  <2> QED
    BY <1>0, <2>1, <2>2, <2>3, OneTask DEF CacheTypeOK
<1>16. ASSUME NEW t \in Tasks, Arrive(t) \/ Command(t) \/ Cancel(t) PROVE CacheSafe'
  BY <1>16, <1>1, <1>2, <1>3, <1>4, <1>5, <1>6, <1>7, <1>8, <1>9, <1>10, <1>18, <1>19, TakeLeaseStep
     DEF Command
<1>17. ASSUME NEW p \in Replicas, Fly(p) \/ Evict(p) \/ Restart(p) PROVE CacheSafe'
  BY <1>17, <1>11, <1>12, <1>13, <1>14, RestartStep DEF Fly
<1> QED
  BY <1>15, <1>16, <1>17, TimePassesStep DEF CacheNext, AllEnded

LEMMA CacheAlwaysSafe == CacheSpec => []CacheSafe
BY CacheSafeInit, CacheSafeStep, PTL DEF CacheSpec

-----------------------------------------------------------------------------
\* The variables keep their types, and a task in a flight is in one that is there.
THEOREM CacheTypeCorrect == CacheSpec => []CacheTypeOK
<1>1. CacheSafe => CacheTypeOK
  BY DEF CacheSafe
<1> QED
  BY <1>1, CacheAlwaysSafe, PTL

\* Two tasks never hold a lease whose life is not over: SET NX and the token that
\* a release compares keep it one task's, whatever was lost, sent again or late
\* (acquireRefreshLease).
THEOREM LeaseIsOnes == CacheSpec => []OneRefresher
<1>1. CacheSafe => OneRefresher
  BY DEF CacheSafe, LeaseKnown, OneRefresher
<1> QED
  BY <1>1, CacheAlwaysSafe, PTL

\* No answer is past its stale time, and a stale one has a refresh behind it,
\* through both caches and whatever the replicas do (getJson).
THEOREM AnswersInTime == CacheSpec => []ServedInTime
<1>1. CacheSafe => ServedInTime
  BY DEF CacheSafe
<1> QED
  BY <1>1, CacheAlwaysSafe, PTL
=============================================================================
