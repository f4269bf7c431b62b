--------------------------- MODULE TransportProof ---------------------------
(***************************************************************************)
(* Proofs about Transport, for any number of flights, callers and slots    *)
(* and any interval.  The inductive invariant is Safe: the types and the   *)
(* Books, which say which flights the two lists hold, what each flight     *)
(* holds at its stage, and that nobody waits while a slot is free.  The    *)
(* lists are the reason for it: that a flight taken from the head of the   *)
(* queue is one that waits follows only from both together.  On it rest    *)
(* Free, about aborted flights, Spaced, about MusicBrainz's pace, and that *)
(* a probe is awaited, which says with the types enough to be inductive.   *)
(***************************************************************************)
EXTENDS Transport, Lists

-----------------------------------------------------------------------------
(* Types *)

LEMMA TypeInit == Init => TypeOK
<1> SUFFICES ASSUME Init PROVE TypeOK
  OBVIOUS
<1>1. fetchedAt \in Int /\ active \in 0..Concurrency
  BY ConcurrencyAssumption DEF Init
<1>2. queue \in Seq(Keys) /\ turns \in Seq(Keys)
  BY EmptySeq DEF Init
<1>3. stage \in [Keys -> Stages] /\ result \in [Keys -> Results] /\ level \in [Keys -> Levels]
  BY DEF Init, Stages, Results, Levels
<1>4. /\ waiters \in [Keys -> SUBSET Callers] /\ aborted \in [Keys -> BOOLEAN]
      /\ holds \in [Keys -> SUBSET {"grant", "slot"}]
  BY DEF Init
<1>5. clock \in Nat \ {0} /\ nextAt \in Nat
  BY DEF Init
<1>6. silent \in BOOLEAN
  BY DEF Init
<1> QED
  BY <1>1, <1>2, <1>3, <1>4, <1>5, <1>6 DEF TypeOK

LEMMA RecordTypes ==
  ASSUME TypeOK, NEW k \in Keys, NEW r \in Results, NEW where \in Levels, Record(k, r, where)
  PROVE  /\ stage' \in [Keys -> Stages] /\ result' \in [Keys -> Results]
         /\ level' \in [Keys -> Levels] /\ silent' \in BOOLEAN
BY DEF Record, TypeOK, Stages

LEMMA SettleTypes ==
  ASSUME TypeOK, NEW k \in Keys, Settle(k)
  PROVE  /\ stage' \in [Keys -> Stages] /\ waiters' \in [Keys -> SUBSET Callers]
         /\ aborted' \in [Keys -> BOOLEAN] /\ holds' \in [Keys -> SUBSET {"grant", "slot"}]
         /\ result' \in [Keys -> Results] /\ level' \in [Keys -> Levels]
BY DEF Settle, TypeOK, Stages, Results, Levels

LEMMA LineTypes ==
  ASSUME TypeOK, NEW k \in Keys
  PROVE  First \in Stages /\ LinedUp(k) \in Seq(Keys)
BY AppendProperties DEF First, LinedUp, Stages, TypeOK

LEMMA GiveBackTypes ==
  ASSUME TypeOK, NEW k \in Keys, NEW r \in Results, GiveBack(k, r)
  PROVE  /\ active' \in 0..Concurrency /\ queue' \in Seq(Keys) /\ turns' \in Seq(Keys)
         /\ stage' \in [Keys -> Stages] /\ waiters' \in [Keys -> SUBSET Callers]
         /\ aborted' \in [Keys -> BOOLEAN] /\ holds' \in [Keys -> SUBSET {"grant", "slot"}]
         /\ result' \in [Keys -> Results] /\ level' \in [Keys -> Levels]
<1>1. active' \in 0..Concurrency
  BY ConcurrencyAssumption DEF GiveBack, TypeOK
<1>2. Heir(k) # {} => queue # <<>> /\ Head(queue) \in Keys /\ Tail(queue) \in Seq(Keys)
  BY HeadTailProperties DEF Heir, TypeOK
<1>3. queue' \in Seq(Keys) /\ turns' \in Seq(Keys)
  BY <1>2, LineTypes DEF GiveBack, TypeOK
<1>4. CASE "grant" \in holds[k]
  <2>1. /\ stage' \in [Keys -> Stages] /\ holds' \in [Keys -> SUBSET {"grant", "slot"}]
    <3>1. First \in Stages /\ "releasing" \in Stages
      BY LineTypes DEF Stages
    <3>2. \A j \in Keys : stage[j] \in Stages /\ holds[j] \in SUBSET {"grant", "slot"}
      BY DEF TypeOK
    <3>3. /\ stage' = [j \in Keys |-> IF j = k THEN "releasing"
                                      ELSE IF j \in Heir(k) THEN First ELSE stage[j]]
          /\ holds' = [j \in Keys |-> IF j = k THEN {"grant"}
                                      ELSE IF j \in Heir(k) THEN holds[j] \cup {"slot"}
                                      ELSE holds[j]]
      BY <1>4 DEF GiveBack
    <3>4. \A j \in Keys : holds[j] \cup {"slot"} \in SUBSET {"grant", "slot"}
      BY <3>2
    <3> QED
      BY <3>1, <3>2, <3>3, <3>4
  <2>2. /\ waiters' \in [Keys -> SUBSET Callers] /\ aborted' \in [Keys -> BOOLEAN]
        /\ result' \in [Keys -> Results] /\ level' \in [Keys -> Levels]
    BY <1>4 DEF GiveBack, TypeOK
  <2> QED
    BY <1>1, <1>3, <2>1, <2>2
<1>5. CASE "grant" \notin holds[k]
  BY <1>1, <1>3, <1>5, SettleTypes DEF GiveBack
<1> QED
  BY <1>4, <1>5

LEMMA InterruptTypes ==
  ASSUME TypeOK, NEW k \in Keys, Interrupt(k),
         Lists(Keys, queue, {j \in Keys : stage[j] = "queued"}),
         Lists(Keys, turns, {j \in Keys : stage[j] = "pacing"})
  PROVE  /\ active' \in 0..Concurrency /\ queue' \in Seq(Keys) /\ turns' \in Seq(Keys)
         /\ stage' \in [Keys -> Stages] /\ result' \in [Keys -> Results]
         /\ level' \in [Keys -> Levels] /\ silent' \in BOOLEAN
<1> USE RecordTypes DEF Results, Levels
<1>1. CASE stage[k] = "queued"
  <2>1. queue' \in Seq(Keys)
    <3> DEFINE Queued == {j \in Keys : stage[j] = "queued"}
    <3>1. k \in Queued /\ Lists(Keys, queue, Queued)
      BY <1>1
    <3> HIDE DEF Queued
    <3>2. Lists(Keys, RemoveAt(queue, CHOOSE i \in DOMAIN queue : queue[i] = k), Queued \ {k})
      BY <3>1, RemovedFromList
    <3> QED
      BY <1>1, <3>2 DEF Interrupt, Lists
  <2>2. Record(k, "aborted", "last") /\ UNCHANGED <<active, turns>>
    BY <1>1 DEF Interrupt
  <2> QED
    BY <2>1, <2>2 DEF TypeOK
<1>2. CASE stage[k] = "pacing" /\ Head(turns) = k /\ nextAt > clock
  <2>1. turns # <<>>
    BY <1>2 DEF Lists
  <2>2. /\ turns' = Tail(turns) /\ Record(k, "aborted", "last") /\ UNCHANGED semaphore
    BY <1>2 DEF Interrupt
  <2>3. turns' \in Seq(Keys)
    BY <2>1, <2>2, HeadTailProperties DEF TypeOK
  <2> QED
    BY <2>2, <2>3 DEF TypeOK, semaphore
<1>3. CASE stage[k] = "fetch"
  BY <1>3 DEF Interrupt, TypeOK, semaphore
<1>4. CASE stage[k] = "body"
  BY <1>4 DEF Interrupt, TypeOK, semaphore
<1>5. CASE /\ stage[k] \notin {"queued", "fetch", "body"}
           /\ ~(stage[k] = "pacing" /\ Head(turns) = k /\ nextAt > clock)
  BY <1>5 DEF Interrupt, TypeOK, semaphore
<1> QED
  BY <1>1, <1>2, <1>3, <1>4, <1>5

-----------------------------------------------------------------------------
(* The books of the semaphore *)

At(s) == {k \in Keys : stage[k] = s}
Holders == {k \in Keys : "slot" \in holds[k]}

\* What a flight holds at each stage.
Fits(k) ==
  /\ stage[k] \in {"none", "coordinate"} => holds[k] = {}
  /\ stage[k] = "queued" => holds[k] = {"grant"}
  /\ stage[k] \in {"pacing", "fetch", "body"} => "slot" \in holds[k]
  /\ stage[k] \in {"releasing", "putting"} => "slot" \notin holds[k]
  /\ "slot" \in holds[k] => "grant" \in holds[k]

Books ==
  /\ Lists(Keys, queue, At("queued")) /\ Lists(Keys, turns, At("pacing"))
  /\ IsFiniteSet(Holders) /\ active = Cardinality(Holders)
  /\ queue # <<>> => active = Concurrency
  /\ \A k \in Keys : Fits(k)

Safe == TypeOK /\ Books

LEMMA SafeInit == Init => Safe
<1> SUFFICES ASSUME Init PROVE Safe
  OBVIOUS
<1>1. At("queued") = {} /\ At("pacing") = {} /\ Holders = {}
  BY DEF Init, At, Holders
<1>2. \A k \in Keys : Fits(k)
  BY DEF Init, Fits
<1>3. queue = <<>> /\ turns = <<>> /\ active = 0
  BY DEF Init
<1> QED
  BY <1>1, <1>2, <1>3, TypeInit, EmptyList, FS_EmptySet DEF Safe, Books

\* Only flight k moves.
OnlyMoves(k) ==
  \A j \in Keys \ {k} : stage'[j] = stage[j] /\ holds'[j] = holds[j]

\* A flight moves between stages outside the queue and the line and neither
\* takes nor frees a slot.
LEMMA QuietMove ==
  ASSUME Books, NEW k \in Keys, OnlyMoves(k), UNCHANGED <<active, queue, turns>>,
         stage[k] \notin {"queued", "pacing"}, stage'[k] \notin {"queued", "pacing"},
         "slot" \in holds'[k] <=> "slot" \in holds[k], Fits(k)'
  PROVE  Books'
<1>1. At("queued")' = At("queued") /\ At("pacing")' = At("pacing") /\ Holders' = Holders
  BY DEF At, Holders, OnlyMoves
<1>2. \A j \in Keys : Fits(j)'
  BY DEF Books, Fits, OnlyMoves
<1>3. Lists(Keys, queue, At("queued"))' /\ Lists(Keys, turns, At("pacing"))'
  BY <1>1 DEF Books, Lists
<1> QED
  BY <1>1, <1>2, <1>3 DEF Books

\* The first in line for MusicBrainz leaves it.
LEMMA LineMoves ==
  ASSUME Books, NEW k \in Keys, OnlyMoves(k), UNCHANGED <<active, queue, holds>>,
         stage[k] = "pacing", Head(turns) = k, turns' = Tail(turns),
         stage'[k] \in {"fetch", "recording"}
  PROVE  Books'
<1>1. turns # <<>>
  BY DEF Books, Lists, At
<1>2. Lists(Keys, Tail(turns), At("pacing") \ {k})
  BY <1>1, TailOfList DEF Books
<1>3. /\ At("queued")' = At("queued") /\ At("pacing")' = At("pacing") \ {k}
      /\ Holders' = Holders
  BY DEF At, Holders, OnlyMoves
<1>4. \A j \in Keys : Fits(j)'
  BY DEF Books, Fits, OnlyMoves
<1>5. Lists(Keys, queue, At("queued"))' /\ Lists(Keys, turns, At("pacing"))'
  BY <1>2, <1>3 DEF Books, Lists
<1> QED
  BY <1>3, <1>4, <1>5 DEF Books

\* A flight in the queue is aborted.
LEMMA QueueMoves ==
  ASSUME Books, NEW k \in Keys, OnlyMoves(k), UNCHANGED <<active, turns, holds>>,
         stage[k] = "queued", stage'[k] = "recording",
         queue' = RemoveAt(queue, CHOOSE i \in DOMAIN queue : queue[i] = k)
  PROVE  Books'
<1>1. k \in At("queued") /\ queue # <<>>
  BY DEF Books, Lists, At
<1>2. Lists(Keys, RemoveAt(queue, CHOOSE i \in DOMAIN queue : queue[i] = k), At("queued") \ {k})
  BY <1>1, RemovedFromList DEF Books
<1>3. /\ At("queued")' = At("queued") \ {k} /\ At("pacing")' = At("pacing")
      /\ Holders' = Holders
  BY DEF At, Holders, OnlyMoves
<1>4. \A j \in Keys : Fits(j)'
  BY DEF Books, Fits, OnlyMoves
<1>5. Lists(Keys, queue', At("queued")') /\ Lists(Keys, turns', At("pacing")')
  BY <1>2, <1>3 DEF Books
<1>6. Lists(Keys, queue, At("queued"))' /\ Lists(Keys, turns, At("pacing"))'
  BY <1>5 DEF Lists
<1> QED
  BY <1>1, <1>3, <1>4, <1>6 DEF Books

\* A slot leads to the fetch or to the line.
LEMMA LineGrows ==
  ASSUME Books, NEW k \in Keys, stage[k] # "pacing", stage'[k] = First, turns' = LinedUp(k),
         \A j \in Keys \ {k} : stage'[j] = "pacing" <=> stage[j] = "pacing"
  PROVE  Lists(Keys, turns, At("pacing"))'
<1>1. CASE Interval = 0
  <2>1. turns' = turns /\ At("pacing")' = At("pacing")
    BY <1>1 DEF First, LinedUp, At
  <2> QED
    BY <2>1 DEF Books, Lists
<1>2. CASE Interval # 0
  <2>1. turns' = Append(turns, k) /\ At("pacing")' = At("pacing") \cup {k} /\ k \notin At("pacing")
    BY <1>2 DEF First, LinedUp, At
  <2>2. Lists(Keys, Append(turns, k), At("pacing") \cup {k})
    BY <2>1, AppendedList DEF Books
  <2> QED
    BY <2>1, <2>2 DEF Lists
<1> QED
  BY <1>1, <1>2

\* A flight takes a free slot: then nobody waits for one.
LEMMA SlotTaken ==
  ASSUME TypeOK, Books, NEW k \in Keys, OnlyMoves(k), stage[k] = "coordinate", HasRoom,
         active' = active + 1, holds'[k] = {"grant", "slot"}, stage'[k] = First,
         turns' = LinedUp(k), UNCHANGED queue
  PROVE  Books'
<1>1. k \notin Holders /\ Holders' = Holders \cup {k}
  BY DEF Books, Fits, Holders, OnlyMoves
<1>2. IsFiniteSet(Holders)' /\ active' = Cardinality(Holders')
  BY <1>1, FS_AddElement DEF Books
<1>3. queue = <<>>
  BY ConcurrencyAssumption DEF Books, HasRoom, TypeOK
<1>4. At("queued")' = At("queued")
  BY DEF At, OnlyMoves, First
<1>5. Lists(Keys, turns, At("pacing"))'
  BY LineGrows DEF OnlyMoves
<1>6. \A j \in Keys : Fits(j)'
  BY DEF Books, Fits, OnlyMoves, First
<1>7. Lists(Keys, queue, At("queued"))'
  BY <1>4 DEF Books, Lists
<1> QED
  BY <1>2, <1>3, <1>5, <1>6, <1>7 DEF Books

\* A flight that finds none joins the queue.
LEMMA QueueGrows ==
  ASSUME TypeOK, Books, NEW k \in Keys, OnlyMoves(k), stage[k] = "coordinate", ~HasRoom,
         queue' = Append(queue, k), holds'[k] = {"grant"}, stage'[k] = "queued",
         UNCHANGED <<active, turns>>
  PROVE  Books'
<1>1. k \notin At("queued") /\ At("queued")' = At("queued") \cup {k} /\ At("pacing")' = At("pacing")
  BY DEF At, OnlyMoves
<1>2. Lists(Keys, Append(queue, k), At("queued") \cup {k})
  BY <1>1, AppendedList DEF Books
<1>3. Holders' = Holders
  BY DEF Books, Fits, Holders, OnlyMoves
<1>4. active = Concurrency
  BY ConcurrencyAssumption DEF HasRoom, TypeOK
<1>5. \A j \in Keys : Fits(j)'
  BY DEF Books, Fits, OnlyMoves
<1>6. Lists(Keys, queue, At("queued"))' /\ Lists(Keys, turns, At("pacing"))'
  BY <1>1, <1>2 DEF Books, Lists
<1> QED
  BY <1>3, <1>4, <1>5, <1>6 DEF Books

\* A flight gives back what it holds: its slot goes to the head of the queue.
LEMMA SlotGivenBack ==
  ASSUME TypeOK, Books, NEW k \in Keys, NEW r, stage[k] = "recording", GiveBack(k, r)
  PROVE  Books'
<1>1. CASE "slot" \notin holds[k]
  <2>1. Heir(k) = {} /\ UNCHANGED <<active, queue, turns>>
    BY <1>1 DEF GiveBack, Heir, HoldsSlot
  <2>2. CASE "grant" \in holds[k]
    <3>1. OnlyMoves(k) /\ stage'[k] = "releasing" /\ holds'[k] = {"grant"}
      BY <2>1, <2>2 DEF GiveBack, OnlyMoves
    <3> QED
      BY <1>1, <2>1, <3>1, QuietMove DEF Fits
  <2>3. CASE "grant" \notin holds[k]
    <3>1. OnlyMoves(k) /\ stage'[k] = "none" /\ holds'[k] = {}
      BY <2>3 DEF GiveBack, Settle, OnlyMoves, TypeOK
    <3> QED
      BY <1>1, <2>1, <3>1, QuietMove DEF Fits
  <2> QED
    BY <2>2, <2>3
<1>2. CASE "slot" \in holds[k] /\ queue = <<>>
  <2>1. Heir(k) = {} /\ "grant" \in holds[k] /\ UNCHANGED <<queue, turns>>
    BY <1>2 DEF GiveBack, Heir, Books, Fits
  <2>2. OnlyMoves(k) /\ stage'[k] = "releasing" /\ holds'[k] = {"grant"}
    BY <2>1 DEF GiveBack, OnlyMoves
  <2>3. k \in Holders /\ Holders' = Holders \ {k}
    BY <1>2, <2>2 DEF Holders, OnlyMoves
  <2>4. IsFiniteSet(Holders)' /\ Cardinality(Holders') = active - 1
    BY <2>3, FS_RemoveElement DEF Books
  <2>5. active' = active - 1
    <3>1. active # 0
      BY <2>3, FS_EmptySet DEF Books
    <3> QED
      BY <1>2, <2>1, <3>1 DEF GiveBack, HoldsSlot, TypeOK
  <2>6. At("queued")' = At("queued") /\ At("pacing")' = At("pacing")
    BY <2>2 DEF At, OnlyMoves
  <2>7. Lists(Keys, queue', At("queued")') /\ Lists(Keys, turns', At("pacing")')
    BY <2>1, <2>6 DEF Books
  <2>8. \A j \in Keys : Fits(j)'
    BY <2>2 DEF Books, Fits, OnlyMoves
  <2> QED
    BY <1>2, <2>1, <2>4, <2>5, <2>7, <2>8 DEF Books, Lists
<1>3. CASE "slot" \in holds[k] /\ queue # <<>>
  <2> DEFINE h == Head(queue)
  <2>1. h \in At("queued") /\ Lists(Keys, Tail(queue), At("queued") \ {h})
    BY <1>3, TailOfList DEF Books
  <2>2. /\ h \in Keys /\ h # k /\ stage[h] = "queued" /\ holds[h] = {"grant"}
        /\ Heir(k) = {h} /\ "grant" \in holds[k]
    BY <1>3, <2>1 DEF At, Books, Fits, Heir, HoldsSlot
  <2> HIDE DEF h
  <2>3. queue' = Tail(queue) /\ turns' = LinedUp(h) /\ active' = active
    BY <2>2 DEF GiveBack, h
  <2>4. /\ stage'[k] = "releasing" /\ stage'[h] = First
        /\ holds'[k] = {"grant"} /\ holds'[h] = {"grant", "slot"}
        /\ \A j \in Keys \ {k, h} : stage'[j] = stage[j] /\ holds'[j] = holds[j]
    BY <2>2 DEF GiveBack
  <2>5. At("queued")' = At("queued") \ {h}
    BY <2>2, <2>4 DEF At, First
  <2>6. Lists(Keys, turns, At("pacing"))'
    BY <2>2, <2>3, <2>4, LineGrows
  <2>7. k \in Holders /\ h \notin Holders \ {k} /\ Holders' = (Holders \ {k}) \cup {h}
    BY <1>3, <2>2, <2>4 DEF Holders
  <2>8. IsFiniteSet(Holders \ {k}) /\ Cardinality(Holders \ {k}) = Cardinality(Holders) - 1
    BY <2>7, FS_RemoveElement DEF Books
  <2>9. IsFiniteSet(Holders') /\ Cardinality(Holders') = Cardinality(Holders \ {k}) + 1
    BY <2>7, <2>8, FS_AddElement
  <2>10. active' = Cardinality(Holders')
    BY <2>3, <2>8, <2>9, FS_CardinalityType DEF Books
  <2>11. \A j \in Keys : Fits(j)'
    BY <2>2, <2>4 DEF Books, Fits, First
  <2>12. Lists(Keys, queue', At("queued")')
    BY <2>1, <2>3, <2>5
  <2>13. active' = Concurrency
    BY <1>3, <2>3 DEF Books
  <2> QED
    BY <2>6, <2>9, <2>10, <2>11, <2>12, <2>13 DEF Books, Lists
<1> QED
  BY <1>1, <1>2, <1>3

\* Nothing in the books moves.
LEMMA Unmoved ==
  ASSUME Books, UNCHANGED <<stage, holds, active, queue, turns>>
  PROVE  Books'
BY DEF Books, Lists, At, Holders, Fits

LEMMA RecordMoves ==
  ASSUME TypeOK, NEW k \in Keys, NEW r, NEW where, Record(k, r, where)
  PROVE  stage'[k] = "recording" /\ \A j \in Keys \ {k} : stage'[j] = stage[j]
BY DEF Record, TypeOK

\* A record from outside the queue and the line moves only its flight.
LEMMA RecordIsQuiet ==
  ASSUME TypeOK, Books, NEW k \in Keys, NEW r, NEW where, Record(k, r, where),
         stage[k] \notin {"queued", "pacing"}, UNCHANGED <<active, queue, turns, holds>>
  PROVE  Books'
<1>1. OnlyMoves(k) /\ stage'[k] = "recording"
  BY RecordMoves DEF OnlyMoves
<1>2. Fits(k)'
  BY <1>1 DEF Books, Fits
<1> QED
  BY <1>1, <1>2, QuietMove

LEMMA SettleIsQuiet ==
  ASSUME TypeOK, Books, NEW k \in Keys, Settle(k), "slot" \notin holds[k],
         stage[k] \notin {"queued", "pacing"}, UNCHANGED <<active, queue, turns>>
  PROVE  Books'
<1>1. OnlyMoves(k) /\ stage'[k] = "none" /\ holds'[k] = {}
  BY DEF Settle, OnlyMoves, TypeOK
<1>2. Fits(k)'
  BY <1>1 DEF Fits
<1> QED
  BY <1>1, <1>2, QuietMove

-----------------------------------------------------------------------------
(* The steps *)

\* Of a step that leaves time and the pace alone, the rest has to be typed.
LEMMA TypeNow ==
  ASSUME TypeOK, UNCHANGED <<clock, nextAt, fetchedAt>>,
         active' \in 0..Concurrency, queue' \in Seq(Keys), turns' \in Seq(Keys),
         stage' \in [Keys -> Stages], waiters' \in [Keys -> SUBSET Callers],
         aborted' \in [Keys -> BOOLEAN], holds' \in [Keys -> SUBSET {"grant", "slot"}],
         result' \in [Keys -> Results], level' \in [Keys -> Levels], silent' \in BOOLEAN
  PROVE  TypeOK'
BY DEF TypeOK

LEMMA CallersType ==
  ASSUME Safe, NEW c \in Callers, SharedFetch(c) \/ Leave(c)
  PROVE  TypeOK'
<1>1. TypeOK
  BY DEF Safe
<1>2. ASSUME NEW k \in Keys, NEW subscribers \in SUBSET Callers, Start(k, subscribers)
      PROVE  TypeOK'
  <2>1. /\ stage' \in [Keys -> Stages] /\ waiters' \in [Keys -> SUBSET Callers]
        /\ aborted' \in [Keys -> BOOLEAN]
    <3>1. /\ stage' = [stage EXCEPT ![k] = "coordinate"] \/ UNCHANGED stage
          /\ waiters' = [waiters EXCEPT ![k] = subscribers] \/ UNCHANGED waiters
          /\ \/ aborted' = [aborted EXCEPT ![k] = TRUE]
             \/ aborted' = [aborted EXCEPT ![k] = FALSE]
             \/ UNCHANGED aborted
      <4>1. (subscribers = {}) = TRUE \/ (subscribers = {}) = FALSE
        OBVIOUS
      <4> QED
        BY <1>2, <4>1, Zenon DEF Start
    <3> QED
      BY <1>1, <3>1 DEF TypeOK, Stages
  <2>2. silent' \in BOOLEAN
    BY <1>1, <1>2 DEF Start, TypeOK
  <2>3. /\ UNCHANGED <<clock, nextAt, fetchedAt>>
        /\ active' \in 0..Concurrency /\ queue' \in Seq(Keys) /\ turns' \in Seq(Keys)
        /\ holds' \in [Keys -> SUBSET {"grant", "slot"}]
        /\ result' \in [Keys -> Results] /\ level' \in [Keys -> Levels]
    BY <1>1, <1>2 DEF Start, TypeOK, semaphore, pace
  <2> QED
    BY <1>1, <2>1, <2>2, <2>3, TypeNow
<1>3. ASSUME NEW k \in Keys, Join(c, k) PROVE TypeOK'
  BY <1>1, <1>3 DEF Join, TypeOK, semaphore, pace
<1>4. ASSUME Leave(c) PROVE TypeOK'
  <2>1. PICK k \in Keys : 
           /\ waiters' = [waiters EXCEPT ![k] = waiters[k] \ {c}]
           /\ \/ aborted' = [aborted EXCEPT ![k] = TRUE] /\ Interrupt(k)
              \/ UNCHANGED <<aborted, stage, result, level, breaker, silent, semaphore, turns>>
           /\ UNCHANGED <<clock, holds, nextAt, fetchedAt>>
    BY <1>4 DEF Leave
  <2>2. waiters' \in [Keys -> SUBSET Callers] /\ holds' \in [Keys -> SUBSET {"grant", "slot"}]
    BY <1>1, <2>1 DEF TypeOK
  <2>3. CASE aborted' = [aborted EXCEPT ![k] = TRUE] /\ Interrupt(k)
    <3>1. aborted' \in [Keys -> BOOLEAN]
      BY <1>1, <2>3 DEF TypeOK
    <3>2. Lists(Keys, queue, {j \in Keys : stage[j] = "queued"}) /\ Lists(Keys, turns, {j \in Keys : stage[j] = "pacing"})
      BY DEF Safe, Books, At
    <3> QED
      BY <1>1, <2>1, <2>2, <2>3, <3>1, <3>2, InterruptTypes, TypeNow
  <2>4. CASE UNCHANGED <<aborted, stage, result, level, breaker, silent, semaphore, turns>>
    BY <1>1, <2>1, <2>2, <2>4 DEF TypeOK, semaphore
  <2> QED
    BY <2>1, <2>3, <2>4
<1> QED
  BY <1>2, <1>3, <1>4 DEF SharedFetch

LEMMA AdvanceTypes ==
  ASSUME Safe, NEW k \in Keys, Advance(k)
  PROVE  TypeOK'
<1>0. TypeOK
  BY DEF Safe
<1> USE <1>0
<1>13. stage[k] = "pacing" => Tail(turns) \in Seq(Keys)
  <2>1. stage[k] = "pacing" => turns # <<>>
    BY DEF Safe, Books, Lists, At
  <2> QED
    BY <2>1, HeadTailProperties DEF TypeOK
<1>1. CASE Granted(k)
  <2>0. UNCHANGED <<clock, waiters, aborted, nextAt, fetchedAt>>
    BY <1>1 DEF Granted
  <2>1. CASE aborted[k]
    <3>1. /\ holds' = [holds EXCEPT ![k] = {"grant"}] /\ Record(k, "aborted", "last")
          /\ UNCHANGED <<semaphore, turns>>
      BY <1>1, <2>1 DEF Granted
    <3>2. holds' \in [Keys -> SUBSET {"grant", "slot"}]
      BY <3>1 DEF TypeOK
    <3>3. "aborted" \in Results /\ "last" \in Levels
      BY DEF Results, Levels
    <3> QED
      BY <2>0, <3>1, <3>2, <3>3, RecordTypes, TypeNow DEF TypeOK, semaphore
  <2>2. CASE ~aborted[k] /\ HasRoom
    <3>1. active' = active + 1 /\ active' \in 0..Concurrency
      BY <1>1, <2>2, ConcurrencyAssumption DEF Granted, HasRoom, TypeOK
    <3>2. /\ holds' \in [Keys -> SUBSET {"grant", "slot"}] /\ stage' \in [Keys -> Stages]
          /\ turns' \in Seq(Keys)
      BY ZenonT(30), <1>1, <2>2, LineTypes DEF Granted, TypeOK
    <3>3. UNCHANGED <<queue, result, level, silent>>
      BY <1>1, <2>2 DEF Granted
    <3>4. /\ queue' \in Seq(Keys) /\ result' \in [Keys -> Results] /\ level' \in [Keys -> Levels]
          /\ waiters' \in [Keys -> SUBSET Callers] /\ aborted' \in [Keys -> BOOLEAN]
          /\ silent' \in BOOLEAN
      BY <2>0, <3>3 DEF TypeOK
    <3> QED
      BY <2>0, <3>1, <3>2, <3>4, TypeNow
  <2>3. CASE ~aborted[k] /\ ~HasRoom
    <3>1. /\ holds' \in [Keys -> SUBSET {"grant", "slot"}] /\ stage' \in [Keys -> Stages]
          /\ queue' \in Seq(Keys)
      <4>1. /\ queue' = Append(queue, k) /\ holds' = [holds EXCEPT ![k] = {"grant"}]
            /\ stage' = [stage EXCEPT ![k] = "queued"]
        BY <1>1, <2>3 DEF Granted
      <4>2. Append(queue, k) \in Seq(Keys)
        BY AppendProperties DEF TypeOK
      <4> QED
        BY <4>1, <4>2 DEF TypeOK, Stages
    <3>2. UNCHANGED <<active, turns, result, level, silent>>
      BY <1>1, <2>3 DEF Granted
    <3> QED
      BY <2>0, <3>1, <3>2 DEF TypeOK
  <2> QED
    BY <2>1, <2>2, <2>3
<1>2. CASE Refused(k)
  <2>1. silent' \in BOOLEAN /\ Settle(k) /\ UNCHANGED <<clock, breaker, semaphore, pace>>
    BY <1>2 DEF Refused
  <2> QED
    BY <2>1, SettleTypes, TypeNow DEF TypeOK, semaphore, pace
<1>3. ASSUME NEW r \in Results, NEW where \in Levels, Record(k, r, where),
             UNCHANGED <<clock, semaphore, pace, waiters, aborted, holds>>
      PROVE  TypeOK'
  BY <1>3, RecordTypes, TypeNow DEF TypeOK, semaphore, pace
<1>4. CASE Thrown(k)
  <2>1. Caught(k) \in Results /\ "last" \in Levels
    BY DEF Caught, Results, Levels
  <2> QED
    BY <1>3, <1>4, <2>1 DEF Thrown
<1>5. CASE Paced(k)
  <2>1. /\ turns' = Tail(turns) /\ nextAt' = NextTime
        /\ UNCHANGED <<clock, semaphore, waiters, aborted, holds>>
    BY <1>5 DEF Paced
  <2>2. turns' \in Seq(Keys)
    BY <1>5, <1>13, <2>1 DEF Paced
  <2>3. nextAt' \in Nat
    BY <2>1, ConcurrencyAssumption DEF NextTime, TypeOK
  <2>4. CASE aborted[k]
    <3>1. Record(k, "aborted", "whole") /\ UNCHANGED fetchedAt
      BY <1>5, <2>4 DEF Paced
    <3>2. "aborted" \in Results /\ "whole" \in Levels
      BY DEF Results, Levels
    <3> QED
      BY <2>1, <2>2, <2>3, <3>1, <3>2, RecordTypes DEF TypeOK, semaphore
  <2>5. CASE ~aborted[k]
    <3>1. stage' \in [Keys -> Stages] /\ fetchedAt' \in Int
      BY <1>5, <2>5 DEF Paced, TypeOK, Stages
    <3>2. UNCHANGED <<result, level, silent>>
      BY <1>5, <2>5 DEF Paced
    <3> QED
      BY <2>1, <2>2, <2>3, <3>1, <3>2 DEF TypeOK, semaphore
  <2> QED
    BY <2>4, <2>5
<1>6. CASE PaceAborted(k)
  <2>1. /\ turns' = Tail(turns) /\ Record(k, "aborted", "last")
        /\ UNCHANGED <<clock, semaphore, nextAt, fetchedAt, waiters, aborted, holds>>
    BY <1>6 DEF PaceAborted
  <2>2. turns' \in Seq(Keys)
    BY <1>6, <1>13, <2>1 DEF PaceAborted
  <2>3. "aborted" \in Results /\ "last" \in Levels
    BY DEF Results, Levels
  <2> QED
    BY <2>1, <2>2, <2>3, RecordTypes, TypeNow DEF TypeOK, semaphore
<1>7. CASE Fetched(k)
  <2>1. CASE stage' = [stage EXCEPT ![k] = "body"] /\ UNCHANGED <<breaker, result, level, silent>>
    <3>1. stage' \in [Keys -> Stages]
      BY <2>1 DEF TypeOK, Stages
    <3> QED
      BY <1>7, <2>1, <3>1, TypeNow DEF Fetched, TypeOK, semaphore, pace
  <2>2. ASSUME NEW r \in {"rejected", "failed"}, NEW where \in {"fetch", "whole"}, Record(k, r, where)
        PROVE  TypeOK'
    <3>1. r \in Results /\ where \in Levels
      BY DEF Results, Levels
    <3> QED
      BY <1>3, <1>7, <2>2, <3>1 DEF Fetched
  <2> QED
    BY <1>7, <2>1, <2>2 DEF Fetched
<1>8. CASE BodyRead(k)
  <2>1. ASSUME NEW r \in {"success", "rejected", "failed"}, NEW where \in {"json", "fetch"},
               Record(k, r, where)
        PROVE  TypeOK'
    <3>1. r \in Results /\ where \in Levels
      BY DEF Results, Levels
    <3> QED
      BY <1>3, <1>8, <2>1, <3>1 DEF BodyRead
  <2> QED
    BY <1>8, <2>1 DEF BodyRead
<1>9. CASE Recorded(k) \/ RecordRejects(k)
  <2>1. \E r \in Results : GiveBack(k, r)
    <3>1. result[k] \in Results /\ "threw" \in Results
      BY DEF TypeOK, Results
    <3> QED
      BY <1>9, <3>1 DEF Recorded, RecordRejects
  <2>2. UNCHANGED <<clock, breaker, silent, nextAt, fetchedAt>>
    BY <1>9 DEF Recorded, RecordRejects
  <2>3. silent' \in BOOLEAN
    BY <2>2 DEF TypeOK
  <2> QED
    BY <2>1, <2>2, <2>3, GiveBackTypes, TypeNow
<1>10. CASE RecordThrows(k)
  <2>1. \E r \in Results, where \in Levels : Record(k, r, where)
    <3>1. {Caught(k), "failed", "rejected"} \subseteq Results /\ {"fetch", "whole", "last"} \subseteq Levels
      BY DEF Caught, Results, Levels
    <3> QED
      BY <1>10, <3>1 DEF RecordThrows
  <2> QED
    BY <1>3, <1>10, <2>1 DEF RecordThrows
<1>11. CASE Released(k)
  <2>1. CASE stage' = [stage EXCEPT ![k] = "putting"] /\ UNCHANGED <<waiters, aborted, holds, result, level>>
    <3>1. stage' \in [Keys -> Stages]
      BY <2>1 DEF TypeOK, Stages
    <3> QED
      BY <1>11, <2>1, <3>1, TypeNow DEF Released, TypeOK, semaphore, pace
  <2>2. CASE Settle(k)
    BY <1>11, <2>2, SettleTypes, TypeNow DEF Released, TypeOK, semaphore, pace
  <2> QED
    BY <1>11, <2>1, <2>2 DEF Released
<1>12. CASE Put(k)
  BY <1>12, SettleTypes, TypeNow DEF Put, TypeOK, semaphore, pace
<1> QED
  BY <1>1, <1>2, <1>4, <1>5, <1>6, <1>7, <1>8, <1>9, <1>10, <1>11, <1>12 DEF Advance

LEMMA TypeStep == Safe /\ [Next]_vars => TypeOK'
<1> SUFFICES ASSUME Safe, [Next]_vars PROVE TypeOK'
  OBVIOUS
<1>1. TypeOK
  BY DEF Safe
<1>2. CASE Tick
  BY <1>1, <1>2 DEF Tick, TypeOK, semaphore, flight, pace
<1>3. CASE UNCHANGED vars
  BY <1>1, <1>3 DEF vars, TypeOK, semaphore, flight, pace
<1> QED
  BY <1>1, <1>2, <1>3, CallersType, AdvanceTypes DEF Next

\* An abort takes its flight out of the queue or out of the line.
LEMMA InterruptKeepsBooks ==
  ASSUME Safe, NEW k \in Keys, Interrupt(k), UNCHANGED holds
  PROVE  Books'
<1>1. TypeOK /\ Books
  BY DEF Safe
<1>2. CASE stage[k] = "queued"
  <2>1. /\ queue' = RemoveAt(queue, CHOOSE i \in DOMAIN queue : queue[i] = k)
        /\ Record(k, "aborted", "last") /\ UNCHANGED <<active, turns>>
    BY <1>2 DEF Interrupt
  <2>2. OnlyMoves(k) /\ stage'[k] = "recording"
    BY <1>1, <2>1, RecordMoves DEF OnlyMoves
  <2> QED
    BY <1>1, <1>2, <2>1, <2>2, QueueMoves
<1>3. CASE stage[k] = "pacing" /\ Head(turns) = k /\ nextAt > clock
  <2>1. turns' = Tail(turns) /\ Record(k, "aborted", "last") /\ UNCHANGED <<active, queue>>
    BY <1>3 DEF Interrupt, semaphore
  <2>2. OnlyMoves(k) /\ stage'[k] = "recording"
    BY <1>1, <2>1, RecordMoves DEF OnlyMoves
  <2> QED
    BY <1>1, <1>3, <2>1, <2>2, LineMoves
<1>4. CASE stage[k] \in {"fetch", "body"}
  <2>1. PICK r, where : Record(k, r, where) /\ UNCHANGED <<active, queue, turns>>
    BY <1>4 DEF Interrupt, semaphore
  <2> QED
    BY <1>1, <1>4, <2>1, RecordIsQuiet
<1>5. CASE /\ stage[k] \notin {"queued", "fetch", "body"}
           /\ ~(stage[k] = "pacing" /\ Head(turns) = k /\ nextAt > clock)
  <2>1. UNCHANGED <<stage, active, queue, turns>>
    BY <1>5 DEF Interrupt, semaphore
  <2> QED
    BY <1>1, <2>1, Unmoved
<1> QED
  BY <1>2, <1>3, <1>4, <1>5

LEMMA CallersKeepBooks ==
  ASSUME Safe, NEW c \in Callers, SharedFetch(c) \/ Leave(c)
  PROVE  Books'
<1>1. TypeOK /\ Books
  BY DEF Safe
<1>2. ASSUME NEW k \in Keys, NEW subscribers, Start(k, subscribers) PROVE Books'
  <2>1. stage[k] = "none" /\ UNCHANGED <<active, queue, turns, holds>>
    BY <1>2 DEF Start, semaphore, pace
  <2>2. stage' = [stage EXCEPT ![k] = "coordinate"] \/ UNCHANGED stage
    BY <1>2 DEF Start
  <2>3. CASE stage' = [stage EXCEPT ![k] = "coordinate"]
    <3>1. OnlyMoves(k) /\ stage'[k] = "coordinate"
      BY <1>1, <2>1, <2>3 DEF OnlyMoves, TypeOK
    <3>2. Fits(k)'
      BY <1>1, <2>1, <3>1 DEF Books, Fits
    <3> QED
      BY <1>1, <2>1, <3>1, <3>2, QuietMove
  <2> QED
    BY <1>1, <2>1, <2>2, <2>3, Unmoved
<1>3. ASSUME NEW k \in Keys, Join(c, k) PROVE Books'
  BY <1>1, <1>3, Unmoved DEF Join, semaphore, pace
<1>4. CASE Leave(c)
  <2>1. UNCHANGED holds /\ \E k \in Keys : Interrupt(k) \/ UNCHANGED <<stage, semaphore, turns>>
    BY <1>4 DEF Leave
  <2> QED
    BY <1>1, <2>1, InterruptKeepsBooks, Unmoved DEF semaphore
<1> QED
  BY <1>2, <1>3, <1>4 DEF SharedFetch

LEMMA AdvanceKeepsBooks ==
  ASSUME Safe, NEW k \in Keys, Advance(k)
  PROVE  Books'
<1>0. TypeOK /\ Books
  BY DEF Safe
<1> USE <1>0
<1>1. CASE Granted(k)
  <2>0. stage[k] = "coordinate"
    BY <1>1 DEF Granted
  <2>1. CASE aborted[k]
    <3>1. /\ holds' = [holds EXCEPT ![k] = {"grant"}] /\ Record(k, "aborted", "last")
          /\ UNCHANGED <<active, queue, turns>>
      BY <1>1, <2>1 DEF Granted, semaphore
    <3>2. OnlyMoves(k) /\ stage'[k] = "recording" /\ holds'[k] = {"grant"}
      BY <3>1, RecordMoves DEF OnlyMoves, TypeOK
    <3>3. "slot" \notin holds[k] /\ Fits(k)'
      BY <2>0, <3>2 DEF Books, Fits
    <3> QED
      BY <2>0, <3>1, <3>2, <3>3, QuietMove
  <2>2. CASE ~aborted[k] /\ HasRoom
    <3>1. /\ active' = active + 1 /\ holds' = [holds EXCEPT ![k] = {"grant", "slot"}]
          /\ stage' = [stage EXCEPT ![k] = First] /\ turns' = LinedUp(k) /\ UNCHANGED queue
      BY <1>1, <2>2 DEF Granted
    <3>2. OnlyMoves(k) /\ stage'[k] = First /\ holds'[k] = {"grant", "slot"}
      BY <3>1 DEF OnlyMoves, TypeOK
    <3> QED
      BY <2>0, <2>2, <3>1, <3>2, SlotTaken
  <2>3. CASE ~aborted[k] /\ ~HasRoom
    <3>1. /\ queue' = Append(queue, k) /\ holds' = [holds EXCEPT ![k] = {"grant"}]
          /\ stage' = [stage EXCEPT ![k] = "queued"] /\ UNCHANGED <<active, turns>>
      BY <1>1, <2>3 DEF Granted
    <3>2. OnlyMoves(k) /\ stage'[k] = "queued" /\ holds'[k] = {"grant"}
      BY <3>1 DEF OnlyMoves, TypeOK
    <3> QED
      BY <2>0, <2>3, <3>1, <3>2, QueueGrows
  <2> QED
    BY <2>1, <2>2, <2>3
<1>2. CASE Refused(k)
  <2>1. stage[k] = "coordinate" /\ Settle(k) /\ UNCHANGED <<active, queue, turns>>
    BY <1>2 DEF Refused, semaphore, pace
  <2>2. "slot" \notin holds[k]
    BY <2>1 DEF Books, Fits
  <2> QED
    BY <2>1, <2>2, SettleIsQuiet
<1>3. ASSUME NEW r, NEW where, Record(k, r, where), stage[k] \notin {"queued", "pacing"},
             UNCHANGED <<clock, semaphore, pace, waiters, aborted, holds>>
      PROVE  Books'
  BY <1>3, RecordIsQuiet DEF semaphore, pace
<1>4. CASE Thrown(k)
  BY <1>3, <1>4 DEF Thrown
<1>5. CASE Paced(k) \/ PaceAborted(k)
  <2>1. /\ stage[k] = "pacing" /\ Head(turns) = k /\ turns' = Tail(turns)
        /\ UNCHANGED <<active, queue, holds>>
    BY <1>5 DEF Paced, PaceAborted, semaphore
  <2>2. stage' = [stage EXCEPT ![k] = "fetch"] \/ \E r, where : Record(k, r, where)
    BY <1>5 DEF Paced, PaceAborted
  <2>3. OnlyMoves(k) /\ stage'[k] \in {"fetch", "recording"}
    BY <2>1, <2>2, RecordMoves DEF OnlyMoves, TypeOK
  <2> QED
    BY <2>1, <2>3, LineMoves
<1>7. CASE Fetched(k)
  <2>1. stage[k] = "fetch" /\ UNCHANGED <<clock, semaphore, pace, waiters, aborted, holds>>
    BY <1>7 DEF Fetched
  <2>2. CASE stage' = [stage EXCEPT ![k] = "body"]
    <3>1. OnlyMoves(k) /\ stage'[k] = "body"
      BY <2>1, <2>2 DEF OnlyMoves, TypeOK
    <3>2. Fits(k)'
      BY <2>1, <3>1 DEF Books, Fits
    <3> QED
      BY <2>1, <3>1, <3>2, QuietMove DEF semaphore, pace
  <2>3. CASE \E r, where : Record(k, r, where)
    BY <1>3, <2>1, <2>3
  <2> QED
    BY <1>7, <2>2, <2>3 DEF Fetched
<1>8. CASE BodyRead(k)
  <2>1. stage[k] = "body" /\ UNCHANGED <<clock, semaphore, pace, waiters, aborted, holds>>
        /\ \E r, where : Record(k, r, where)
    BY <1>8 DEF BodyRead
  <2> QED
    BY <1>3, <2>1
<1>9. CASE Recorded(k) \/ RecordRejects(k)
  BY <1>9, SlotGivenBack DEF Recorded, RecordRejects
<1>10. CASE RecordThrows(k)
  <2>1. stage[k] = "recording" /\ UNCHANGED <<clock, semaphore, pace, waiters, aborted, holds>>
        /\ \E r, where : Record(k, r, where)
    BY <1>10 DEF RecordThrows
  <2> QED
    BY <1>3, <2>1
<1>11. CASE Released(k)
  <2>1. stage[k] = "releasing" /\ UNCHANGED <<active, queue, turns>>
    BY <1>11 DEF Released, semaphore, pace
  <2>2. "slot" \notin holds[k]
    BY <2>1 DEF Books, Fits
  <2>3. CASE stage' = [stage EXCEPT ![k] = "putting"] /\ UNCHANGED holds
    <3>1. OnlyMoves(k) /\ stage'[k] = "putting"
      BY <2>1, <2>3 DEF OnlyMoves, TypeOK
    <3>2. Fits(k)'
      BY <2>2, <2>3, <3>1 DEF Fits
    <3> QED
      BY <2>1, <2>3, <3>1, <3>2, QuietMove
  <2>4. CASE Settle(k)
    BY <2>1, <2>2, <2>4, SettleIsQuiet
  <2> QED
    BY <1>11, <2>3, <2>4 DEF Released
<1>12. CASE Put(k)
  <2>1. stage[k] = "putting" /\ Settle(k) /\ UNCHANGED <<active, queue, turns>>
    BY <1>12 DEF Put, semaphore, pace
  <2>2. "slot" \notin holds[k]
    BY <2>1 DEF Books, Fits
  <2> QED
    BY <2>1, <2>2, SettleIsQuiet
<1> QED
  BY <1>1, <1>2, <1>4, <1>5, <1>7, <1>8, <1>9, <1>10, <1>11, <1>12 DEF Advance

LEMMA BooksStep == Safe /\ [Next]_vars => Books'
<1> SUFFICES ASSUME Safe, [Next]_vars PROVE Books'
  OBVIOUS
<1>1. Books
  BY DEF Safe
<1>2. CASE Tick
  BY <1>1, <1>2, Unmoved DEF Tick, semaphore, flight, pace
<1>3. CASE UNCHANGED vars
  BY <1>1, <1>3, Unmoved DEF vars, semaphore, flight, pace
<1> QED
  BY <1>2, <1>3, CallersKeepBooks, AdvanceKeepsBooks DEF Next

LEMMA StaysSafe == Spec => []Safe
<1>1. Safe /\ [Next]_vars => Safe'
  BY TypeStep, BooksStep DEF Safe
<1> QED
  BY SafeInit, <1>1, PTL DEF Spec

\* The variables keep their types through every interleaving.
THEOREM TypeCorrect == Spec => []TypeOK
<1>1. Safe => TypeOK
  BY DEF Safe
<1> QED
  BY StaysSafe, <1>1, PTL

\* However many flights hand their slots on and are aborted in the queue or in
\* line (AsyncSemaphore, waitForMusicBrainz): a slot is counted exactly while a
\* flight holds it, and nobody waits while one is free.
THEOREM SlotsAreAccounted == Spec => []SlotsAccounted
<1>1. Safe => SlotsAccounted
  BY DEF Safe, Books, Lists, At, Holders, Fits, SlotsAccounted
<1> QED
  BY StaysSafe, <1>1, PTL

-----------------------------------------------------------------------------
(* Aborted flights *)

Free(k) ==
  stage[k] # "none" =>
    /\ waiters[k] = {} => aborted[k]
    /\ aborted[k] => stage[k] \notin {"queued", "fetch", "body"}

\* Only flight k moves, and is free after that.
LEMMA FreeMove ==
  ASSUME \A j \in Keys : Free(j), NEW k \in Keys, Free(k)',
         \A j \in Keys \ {k} : stage'[j] = stage[j] /\ waiters'[j] = waiters[j] /\ aborted'[j] = aborted[j]
  PROVE  \A j \in Keys : Free(j)'
BY DEF Free

\* A step that changes neither waiters nor aborts, to a stage where none
\* listens to an abort or of a flight that is not aborted.
LEMMA FreeStage ==
  ASSUME \A j \in Keys : Free(j), NEW k \in Keys, UNCHANGED <<waiters, aborted>>,
         \A j \in Keys \ {k} : stage'[j] = stage[j], stage[k] # "none",
         stage'[k] \in {"queued", "fetch", "body"} => ~aborted[k]
  PROVE  \A j \in Keys : Free(j)'
BY DEF Free

LEMMA FreeRecord ==
  ASSUME TypeOK, \A j \in Keys : Free(j), NEW k \in Keys, NEW r, NEW where, Record(k, r, where),
         stage[k] # "none", UNCHANGED <<waiters, aborted>>
  PROVE  \A j \in Keys : Free(j)'
BY RecordMoves, FreeStage

LEMMA FreeSettle ==
  ASSUME TypeOK, \A j \in Keys : Free(j), NEW k \in Keys, Settle(k)
  PROVE  \A j \in Keys : Free(j)'
BY FreeMove DEF Settle, Free, TypeOK

LEMMA FreeGiveBack ==
  ASSUME Safe, \A j \in Keys : Free(j), NEW k \in Keys, NEW r, stage[k] = "recording", GiveBack(k, r)
  PROVE  \A j \in Keys : Free(j)'
<1>1. TypeOK
  BY DEF Safe
<1>2. CASE "grant" \notin holds[k]
  BY <1>1, <1>2, FreeSettle DEF GiveBack
<1>3. CASE "grant" \in holds[k]
  <2>1. UNCHANGED <<waiters, aborted>>
    BY <1>3 DEF GiveBack
  <2>2. \A h \in Heir(k) : h \in Keys /\ stage[h] = "queued"
    <3>1. Heir(k) # {} => queue # <<>> /\ Heir(k) = {Head(queue)}
      BY DEF Heir
    <3>2. queue # <<>> => Head(queue) \in At("queued")
      BY TailOfList DEF Safe, Books
    <3> QED
      BY <3>1, <3>2 DEF At
  <2>3. ASSUME NEW j \in Keys PROVE Free(j)'
    <3>1. stage'[j] = IF j = k THEN "releasing" ELSE IF j \in Heir(k) THEN First ELSE stage[j]
      BY <1>3 DEF GiveBack
    <3> QED
      BY <2>1, <2>2, <3>1 DEF Free
  <2> QED
    BY <2>3
<1> QED
  BY <1>2, <1>3

LEMMA FreeCallers ==
  ASSUME Safe, \A j \in Keys : Free(j), NEW c \in Callers, SharedFetch(c) \/ Leave(c)
  PROVE  \A j \in Keys : Free(j)'
<1>1. TypeOK
  BY DEF Safe
<1>2. ASSUME NEW k \in Keys, NEW subscribers, Start(k, subscribers)
      PROVE  \A j \in Keys : Free(j)'
  <2>1. CASE Admits(breaker, clock)
    <3>1. /\ stage' = [stage EXCEPT ![k] = "coordinate"]
          /\ waiters' = [waiters EXCEPT ![k] = subscribers]
          /\ aborted' = [aborted EXCEPT ![k] = subscribers = {}]
      BY <1>2, <2>1 DEF Start
    <3>2. stage'[k] = "coordinate" /\ waiters'[k] = subscribers /\ aborted'[k] = (subscribers = {})
      BY <1>1, <3>1 DEF TypeOK
    <3>3. Free(k)'
      BY <3>2 DEF Free
    <3>4. \A j \in Keys \ {k} : stage'[j] = stage[j] /\ waiters'[j] = waiters[j] /\ aborted'[j] = aborted[j]
      BY <1>1, <3>1 DEF TypeOK
    <3> QED
      BY <3>3, <3>4, FreeMove
  <2>2. CASE ~Admits(breaker, clock)
    BY <1>2, <2>2 DEF Start, Free
  <2> QED
    BY <2>1, <2>2
<1>3. ASSUME NEW k \in Keys, Join(c, k) PROVE \A j \in Keys : Free(j)'
  <2>1. UNCHANGED <<stage, aborted>> /\ waiters' = [waiters EXCEPT ![k] = @ \cup {c}]
    BY <1>3 DEF Join
  <2>2. \A j \in Keys : waiters'[j] = {} => waiters[j] = {}
    BY <1>1, <2>1 DEF TypeOK
  <2> QED
    BY <2>1, <2>2 DEF Free
<1>4. CASE Leave(c)
  <2>1. PICK k \in Keys :
          /\ c \in waiters[k]
          /\ waiters' = [waiters EXCEPT ![k] = waiters[k] \ {c}]
          /\ IF waiters[k] \ {c} = {}
             THEN aborted' = [aborted EXCEPT ![k] = TRUE] /\ Interrupt(k)
             ELSE UNCHANGED <<aborted, stage, result, level, breaker, silent, semaphore, turns>>
    BY <1>4 DEF Leave, NobodyLeft
  <2>2. waiters'[k] = waiters[k] \ {c} /\ \A j \in Keys \ {k} : waiters'[j] = waiters[j]
    BY <1>1, <2>1 DEF TypeOK
  <2>3. CASE waiters[k] \ {c} = {}
    <3>1. aborted'[k] = TRUE /\ \A j \in Keys \ {k} : aborted'[j] = aborted[j]
      BY <1>1, <2>1, <2>3 DEF TypeOK
    <3>2. \/ stage'[k] = "recording" /\ \A j \in Keys \ {k} : stage'[j] = stage[j]
          \/ stage' = stage /\ stage[k] \notin {"queued", "fetch", "body"}
      <4>1. \/ \E r, where : Record(k, r, where)
            \/ stage' = stage /\ stage[k] \notin {"queued", "fetch", "body"}
        BY <2>1, <2>3 DEF Interrupt
      <4> QED
        BY <1>1, <4>1, RecordMoves
    <3> QED
      BY <2>2, <3>1, <3>2, FreeMove DEF Free
  <2>4. CASE waiters[k] \ {c} # {}
    BY <2>1, <2>2, <2>4 DEF Free
  <2> QED
    BY <2>3, <2>4
<1> QED
  BY <1>2, <1>3, <1>4 DEF SharedFetch

LEMMA FreeAdvance ==
  ASSUME Safe, \A j \in Keys : Free(j), NEW k \in Keys, Advance(k)
  PROVE  \A j \in Keys : Free(j)'
<1>0. TypeOK
  BY DEF Safe
<1>1. CASE Granted(k)
  <2>1. stage[k] # "none" /\ UNCHANGED <<waiters, aborted>>
    BY <1>1 DEF Granted
  <2>2. CASE aborted[k]
    BY <1>0, <1>1, <2>1, <2>2, FreeRecord DEF Granted
  <2>3. CASE ~aborted[k]
    <3>1. \E s : stage' = [stage EXCEPT ![k] = s]
      BY <1>1, <2>3 DEF Granted
    <3> QED
      BY <1>0, <2>1, <2>3, <3>1, FreeStage DEF TypeOK
  <2> QED
    BY <2>2, <2>3
<1>2. CASE Refused(k) \/ Put(k)
  BY <1>0, <1>2, FreeSettle DEF Refused, Put
<1>3. CASE Thrown(k)
  BY <1>0, <1>3, FreeRecord DEF Thrown
<1>4. CASE Paced(k) \/ PaceAborted(k)
  <2>1. stage[k] = "pacing" /\ UNCHANGED <<waiters, aborted>>
    BY <1>4 DEF Paced, PaceAborted
  <2>2. \/ ~aborted[k] /\ stage' = [stage EXCEPT ![k] = "fetch"]
        \/ \E r, where : Record(k, r, where)
    BY <1>4 DEF Paced, PaceAborted
  <2>3. CASE ~aborted[k] /\ stage' = [stage EXCEPT ![k] = "fetch"]
    BY <1>0, <2>1, <2>3, FreeStage DEF TypeOK
  <2> QED
    BY <1>0, <2>1, <2>2, <2>3, FreeRecord
<1>5. CASE Fetched(k) \/ BodyRead(k) \/ RecordThrows(k)
  <2>1. stage[k] # "none" /\ UNCHANGED <<waiters, aborted>>
    BY <1>5 DEF Fetched, BodyRead, RecordThrows
  <2>2. \/ stage[k] = "fetch" /\ stage' = [stage EXCEPT ![k] = "body"]
        \/ \E r, where : Record(k, r, where)
    BY <1>5 DEF Fetched, BodyRead, RecordThrows
  <2>3. CASE stage[k] = "fetch" /\ stage' = [stage EXCEPT ![k] = "body"]
    <3>1. ~aborted[k]
      BY <2>3 DEF Free
    <3> QED
      BY <1>0, <2>1, <2>3, <3>1, FreeStage DEF TypeOK
  <2> QED
    BY <1>0, <2>1, <2>2, <2>3, FreeRecord
<1>6. CASE Recorded(k) \/ RecordRejects(k)
  BY <1>6, FreeGiveBack DEF Recorded, RecordRejects
<1>7. CASE Released(k)
  <2>1. CASE stage' = [stage EXCEPT ![k] = "putting"] /\ UNCHANGED <<waiters, aborted>>
    <3>1. stage[k] # "none"
      BY <1>7 DEF Released
    <3> QED
      BY <1>0, <2>1, <3>1, FreeStage DEF TypeOK
  <2> QED
    BY <1>0, <1>7, <2>1, FreeSettle DEF Released
<1> QED
  BY <1>1, <1>2, <1>3, <1>4, <1>5, <1>6, <1>7 DEF Advance

\* A flight nobody waits for is aborted, and from then on takes neither a place
\* in the queue nor a connection (releaseWaiter).
THEOREM AbortsFree == Spec => []AbortFreesUpstream
<1> DEFINE AllFree == \A k \in Keys : Free(k)
<1>1. Init => AllFree
  BY DEF Init, Free
<1>2. Safe /\ AllFree /\ [Next]_vars => AllFree'
  <2> SUFFICES ASSUME Safe, AllFree, [Next]_vars PROVE \A k \in Keys : Free(k)'
    OBVIOUS
  <2>1. CASE Tick
    BY <2>1 DEF Tick, flight, Free
  <2>2. CASE UNCHANGED vars
    BY <2>2 DEF vars, flight, Free
  <2> QED
    BY <2>1, <2>2, FreeCallers, FreeAdvance DEF Next
<1>3. AllFree => AbortFreesUpstream
  BY DEF Free, AbortFreesUpstream, InFlight
<1> HIDE DEF AllFree
<1> QED
  BY StaysSafe, <1>1, <1>2, <1>3, PTL DEF Spec

\* A flight is aborted only by the last of its callers to leave.
THEOREM LastLeaverAborts == Spec => OnlyLastLeaverAborts
<1>1. Safe /\ [Next]_vars =>
        [\A k \in Keys : stage[k] # "none" /\ aborted'[k] /\ ~aborted[k] => waiters'[k] = {}]_vars
  <2> SUFFICES ASSUME Safe, Next, NEW k \in Keys, stage[k] # "none", aborted'[k], ~aborted[k]
               PROVE  waiters'[k] = {}
    BY DEF vars, flight
  <2>1. TypeOK
    BY DEF Safe
  <2>2. ASSUME NEW j \in Keys, NEW subscribers, Start(j, subscribers) PROVE waiters'[k] = {}
    <3>1. j # k => aborted'[k] = aborted[k]
      BY <2>1, <2>2 DEF Start, TypeOK
    <3> QED
      BY <2>2, <3>1 DEF Start
  <2>3. ASSUME NEW c \in Callers, Leave(c) PROVE waiters'[k] = {}
    <3>1. PICK j \in Keys :
            /\ waiters' = [waiters EXCEPT ![j] = waiters[j] \ {c}]
            /\ \/ waiters[j] \ {c} = {} /\ aborted' = [aborted EXCEPT ![j] = TRUE]
               \/ UNCHANGED aborted
      BY <2>3 DEF Leave, NobodyLeft
    <3>2. j = k
      BY <2>1, <3>1 DEF TypeOK
    <3> QED
      BY <2>1, <3>1, <3>2 DEF TypeOK
  <2>4. ASSUME NEW j \in Keys, Advance(j) PROVE FALSE
    <3>1. UNCHANGED aborted \/ aborted' = [aborted EXCEPT ![j] = FALSE]
      BY <2>4 DEF Advance, Granted, Refused, Thrown, Paced, PaceAborted, Fetched, BodyRead, Recorded,
                  RecordThrows, RecordRejects, Released, Put, GiveBack, Settle
    <3> QED
      BY <2>1, <3>1 DEF TypeOK
  <2>5. ASSUME NEW c \in Callers, NEW j \in Keys, Join(c, j) PROVE FALSE
    BY <2>5 DEF Join
  <2>6. CASE Tick
    BY <2>6 DEF Tick, flight
  <2> QED
    BY <2>2, <2>3, <2>4, <2>5, <2>6 DEF Next, SharedFetch
<1> QED
  BY StaysSafe, <1>1, PTL DEF Spec, OnlyLastLeaverAborts

-----------------------------------------------------------------------------
(* Pacing *)

\* The next time leaves the interval after the last fetch, which lies behind.
Spaced == nextAt >= fetchedAt + Interval /\ clock >= fetchedAt

LEMMA SpacedInit == Init => Spaced
BY ConcurrencyAssumption DEF Init, Spaced

LEMMA SpacedStep == TypeOK /\ Spaced /\ [Next]_vars => Spaced'
<1> SUFFICES ASSUME TypeOK, Spaced, [Next]_vars PROVE Spaced'
  OBVIOUS
<1>1. CASE UNCHANGED <<clock, nextAt, fetchedAt>>
  BY <1>1 DEF Spaced
<1>2. ASSUME NEW c \in Callers, SharedFetch(c) \/ Leave(c)
      PROVE  UNCHANGED <<clock, nextAt, fetchedAt>>
  BY <1>2 DEF SharedFetch, Start, Join, Leave, pace
<1>3. ASSUME NEW k \in Keys, Advance(k), ~Paced(k)
      PROVE  UNCHANGED <<clock, nextAt, fetchedAt>>
  BY <1>3 DEF Advance, Granted, Refused, Thrown, PaceAborted, Fetched, BodyRead, Recorded,
              RecordThrows, RecordRejects, Released, Put, pace
<1>4. ASSUME NEW k \in Keys, Paced(k) PROVE Spaced'
  <2>1. nextAt' = clock + Interval /\ clock' = clock /\ (fetchedAt' = fetchedAt \/ fetchedAt' = clock)
    BY <1>4 DEF Paced, NextTime
  <2>2. clock \in Int /\ fetchedAt \in Int /\ Interval \in Int /\ clock >= fetchedAt
    BY ConcurrencyAssumption DEF Spaced, TypeOK
  <2>3. fetchedAt' \in Int /\ clock >= fetchedAt'
    BY <2>1, <2>2
  <2>4. clock + Interval >= fetchedAt' + Interval
    <3>1. \A a, b, c \in Int : a >= b => a + c >= b + c
      OBVIOUS
    <3> QED
      BY <2>2, <2>3, <3>1
  <2> QED
    BY <2>1, <2>3, <2>4 DEF Spaced
<1>5. CASE Tick
  BY <1>5 DEF Tick, pace, Spaced, TypeOK
<1>6. CASE UNCHANGED vars
  BY <1>1, <1>6 DEF vars, pace
<1> QED
  BY <1>1, <1>2, <1>3, <1>4, <1>5, <1>6 DEF Next

\* Two requests to MusicBrainz begin at least the interval apart, however many
\* flights are in line and whichever of them are aborted.
THEOREM RequestsArePaced == Spec => PacedApart
<1>1. Safe /\ Spaced /\ [Next]_vars =>
        [\A k \in Keys : stage[k] = "pacing" /\ stage'[k] = "fetch" /\ clock < MaxTime =>
           clock >= fetchedAt + Interval]_vars
  <2> SUFFICES ASSUME Safe, Spaced, Next, NEW k \in Keys,
                      stage[k] = "pacing", stage'[k] = "fetch", clock < MaxTime
               PROVE  clock >= fetchedAt + Interval
    BY DEF vars, flight
  <2>1. TypeOK /\ Books
    BY DEF Safe
  <2>2. ASSUME NEW j \in Keys, Paced(j) PROVE clock >= fetchedAt + Interval
    <3>1. nextAt <= clock
      BY <2>1, <2>2, ConcurrencyAssumption DEF Paced, TypeOK
    <3> QED
      BY <2>1, <3>1, ConcurrencyAssumption DEF Spaced, TypeOK
  <2>3. ASSUME NEW j \in Keys, NEW r, NEW where, Record(j, r, where) PROVE FALSE
    BY <2>1, <2>3, RecordMoves
  <2>4. ASSUME NEW j \in Keys, NEW s, s # "fetch", stage' = [stage EXCEPT ![j] = s] PROVE FALSE
    BY <2>1, <2>4 DEF TypeOK
  <2>5. ASSUME NEW c \in Callers, SharedFetch(c) \/ Leave(c) PROVE FALSE
    <3>1. CASE SharedFetch(c)
      BY <2>4, <3>1 DEF SharedFetch, Start, Join
    <3>2. CASE Leave(c)
      BY <2>3, <3>2 DEF Leave, Interrupt
    <3> QED
      BY <2>5, <3>1, <3>2
  <2>6. ASSUME NEW j \in Keys, NEW r, GiveBack(j, r), stage[j] = "recording" PROVE FALSE
    <3>1. k # j /\ k \notin Heir(j)
      <4>1. Heir(j) # {} => queue # <<>> /\ Heir(j) = {Head(queue)}
        BY DEF Heir
      <4>2. queue # <<>> => Head(queue) \in At("queued")
        BY <2>1, TailOfList DEF Books
      <4> QED
        BY <2>6, <4>1, <4>2 DEF At
    <3> QED
      BY <2>1, <2>6, <3>1 DEF GiveBack, Settle, TypeOK
  <2>7. ASSUME NEW j \in Keys, Granted(j) PROVE FALSE
    <3>1. stage[j] = "coordinate" /\ \/ Record(j, "aborted", "last")
                                     \/ \E s : stage' = [stage EXCEPT ![j] = s]
      BY <2>7 DEF Granted
    <3>2. j # k
      BY <3>1
    <3> QED
      BY <2>1, <2>3, <3>1, <3>2 DEF TypeOK
  <2>8. ASSUME NEW j \in Keys, Advance(j), ~Paced(j), ~Granted(j) PROVE FALSE
    <3>1. CASE Recorded(j) \/ RecordRejects(j)
      BY <2>6, <3>1 DEF Recorded, RecordRejects
    <3>2. CASE Refused(j) \/ Released(j) \/ Put(j)
      BY <2>4, <3>2 DEF Refused, Released, Put, Settle
    <3>3. CASE Thrown(j) \/ PaceAborted(j) \/ Fetched(j) \/ BodyRead(j) \/ RecordThrows(j)
      BY <2>3, <2>4, <3>3 DEF Thrown, PaceAborted, Fetched, BodyRead, RecordThrows
    <3> QED
      BY <2>8, <3>1, <3>2, <3>3 DEF Advance
  <2>9. CASE Tick
    BY <2>9 DEF Tick, flight
  <2> QED
    BY <2>2, <2>5, <2>7, <2>8, <2>9 DEF Next
<1>2. Safe => TypeOK
  BY DEF Safe
<1>3. Spec => []Spaced
  <2>1. Safe /\ Spaced /\ [Next]_vars => Spaced'
    BY <1>2, SpacedStep
  <2> QED
    BY StaysSafe, SpacedInit, <2>1, PTL DEF Spec
<1> QED
  BY StaysSafe, <1>1, <1>3, PTL DEF Spec, PacedApart

-----------------------------------------------------------------------------
(* The probe *)

LEMMA ClosedIsBreaker == Closed \in Breaker
BY EmptySeq DEF Closed, Breaker

LEMMA PrunedIsTyped ==
  ASSUME NEW b \in Breaker, NEW now \in Nat
  PROVE  Pruned(b, now) \in Seq(Nat)
<1> DEFINE n == Len(b.failures)
           stale == {i \in DOMAIN b.failures : b.failures[i] < now - FailureWindow}
<1>1. b.failures \in Seq(Nat)
  BY DEF Breaker
<1>2. n \in Nat /\ DOMAIN b.failures = 1..n
  BY <1>1, LenProperties
<1>3. IsFiniteSet(1..n)
  <2> HIDE DEF n
  <2>1. 1 \in Int /\ n \in Int
    BY <1>2
  <2> QED
    BY <2>1, FS_Interval, Zenon
<1>4. IsFiniteSet(stale)
  BY <1>2, <1>3, FS_Subset
<1>5. Cardinality(stale) \in Nat
  BY <1>4, FS_CardinalityType
<1> DEFINE m == Cardinality(stale) + 1
<1>6. m \in Int /\ n \in Int /\ \A i \in m..n : b.failures[i] \in Nat
  <2> HIDE DEF stale
  <2>1. m \in Int /\ n \in Int /\ m..n \subseteq 1..n
    BY <1>2, <1>5
  <2> QED
    BY <1>1, <2>1, ElementOfSeq
<1>7. SubSeq(b.failures, m, n) \in Seq(Nat)
  <2> HIDE DEF m, n
  <2> QED
    BY <1>6, SubSeqProperties
<1> QED
  BY <1>7 DEF Pruned

LEMMA AskedIsTyped ==
  ASSUME NEW b \in Breaker, NEW now \in Nat
  PROVE  Asked(b, now) \in Breaker
<1>1. Pruned(b, now) \in Seq(Nat)
  BY PrunedIsTyped
<1> QED
  BY <1>1 DEF Asked, Breaker

LEMMA ToldIsTyped ==
  ASSUME NEW b \in Breaker, NEW r, NEW now \in Nat
  PROVE  Told(b, r, now) \in Breaker
<1>1. Pruned(b, now) \in Seq(Nat)
  BY PrunedIsTyped
<1>2. Append(Pruned(b, now), now) \in Seq(Nat)
  BY <1>1, AppendProperties
<1>3. ASSUME NEW failures \in Seq(Nat) PROVE Opened(failures, now) \in Breaker
  BY DEF Opened, Breaker
<1>4. Counted(b, now) \in Breaker
  <2> DEFINE failures == IF b.state = "half_open" THEN Pruned(b, now)
                         ELSE Append(Pruned(b, now), now)
             kept == [state |-> b.state, failures |-> failures,
                      openedAt |-> b.openedAt, halfOpenProbe |-> b.halfOpenProbe]
  <2>1. failures \in Seq(Nat)
    BY <1>1, <1>2
  <2>2. kept \in Breaker
    BY <2>1 DEF Breaker
  <2>3. Opened(failures, now) \in Breaker
    BY <1>3, <2>1
  <2> QED
    BY <2>2, <2>3 DEF Counted
<1> QED
  BY <1>4, ClosedIsBreaker DEF Told

\* A breaker that is told anything but of an abort is not half open any more.
LEMMA ToldIsDecided ==
  ASSUME NEW b \in Breaker, NEW r, NEW now, r # "aborted"
  PROVE  Told(b, r, now).state # "half_open"
BY DEF Told, Counted, Opened, Closed

\* Whatever a flight records, the probe is decided or history says it is not.
LEMMA RecordDecides ==
  ASSUME TypeOK, ProbeWillReport, NEW k \in Keys, NEW r, NEW where, Record(k, r, where)
  PROVE  ProbeWillReport'
<1>1. clock \in Nat /\ breaker \in Breaker
  BY DEF TypeOK, ProbeWillReport
<1>2. breaker' = Told(breaker, r, clock) /\ silent' = (silent \/ r = "aborted")
  BY DEF Record
<1>3. breaker' \in Breaker
  BY <1>1, <1>2, ToldIsTyped
<1>4. CASE r = "aborted"
  BY <1>2, <1>3, <1>4 DEF ProbeWillReport
<1>5. CASE r # "aborted"
  <2>1. breaker'.state # "half_open"
    BY <1>1, <1>2, <1>5, ToldIsDecided
  <2> QED
    BY <1>3, <2>1 DEF ProbeWillReport
<1> QED
  BY <1>4, <1>5

\* A step that leaves the breaker alone and ends no flight that has still to tell it.
LEMMA StillUntold ==
  ASSUME ProbeWillReport, UNCHANGED <<breaker, silent>>,
         \A k \in Keys : stage[k] \in Untold => stage'[k] \in Untold
  PROVE  ProbeWillReport'
BY DEF ProbeWillReport

LEMMA StartProbes ==
  ASSUME TypeOK, ProbeWillReport, NEW k \in Keys, NEW subscribers, Start(k, subscribers)
  PROVE  ProbeWillReport'
<1>1. clock \in Nat /\ breaker \in Breaker
  BY DEF TypeOK, ProbeWillReport
<1>2. breaker' = Asked(breaker, clock)
  BY DEF Start
<1>3. breaker' \in Breaker
  BY <1>1, <1>2, AskedIsTyped
<1>4. CASE Admits(breaker, clock)
  <2>1. stage'[k] \in Untold
    BY <1>4 DEF Start, TypeOK, Untold
  <2> QED
    BY <1>3, <2>1 DEF ProbeWillReport
<1>5. CASE ~Admits(breaker, clock)
  <2>1. UNCHANGED <<stage, silent>>
    BY <1>5 DEF Start
  <2>2. breaker'.state = "half_open" => breaker.state = "half_open" /\ breaker.halfOpenProbe
    BY <1>1, <1>2, <1>5 DEF Asked, Admits, Breaker
  <2> QED
    BY <1>3, <2>1, <2>2 DEF ProbeWillReport
<1> QED
  BY <1>4, <1>5

LEMMA LeaveReports ==
  ASSUME TypeOK, ProbeWillReport, NEW c \in Callers, Leave(c)
  PROVE  ProbeWillReport'
<1>1. PICK k \in Keys : Interrupt(k) \/ UNCHANGED <<stage, breaker, silent>>
  BY DEF Leave, NobodyLeft
<1>2. \/ \E r, where : Record(k, r, where)
      \/ UNCHANGED <<stage, breaker, silent>>
  BY <1>1 DEF Interrupt
<1> QED
  BY <1>2, RecordDecides, StillUntold

LEMMA AdvanceReports ==
  ASSUME TypeOK, ProbeWillReport, NEW k \in Keys, Advance(k)
  PROVE  ProbeWillReport'
<1>1. ASSUME NEW s \in Untold, stage' = [stage EXCEPT ![k] = s], UNCHANGED <<breaker, silent>>
      PROVE  ProbeWillReport'
  <2>1. \A j \in Keys : stage[j] \in Untold => stage'[j] \in Untold
    BY <1>1 DEF TypeOK
  <2> QED
    BY <1>1, <2>1, StillUntold
<1>2. First \in Untold /\ "queued" \in Untold /\ "fetch" \in Untold /\ "body" \in Untold
  BY DEF First, Untold
<1>3. ASSUME NEW s, stage' = [stage EXCEPT ![k] = s], stage[k] \notin Untold,
             UNCHANGED <<breaker, silent>>
      PROVE  ProbeWillReport'
  <2>1. \A j \in Keys : stage[j] \in Untold => stage'[j] \in Untold
    BY <1>3 DEF TypeOK
  <2> QED
    BY <1>3, <2>1, StillUntold
<1>4. CASE Granted(k)
  <2>1. CASE aborted[k]
    BY <1>4, <2>1, RecordDecides DEF Granted
  <2>2. CASE ~aborted[k]
    BY <1>1, <1>2, <1>4, <2>2 DEF Granted
  <2> QED
    BY <2>1, <2>2
<1>5. CASE Refused(k)
  BY <1>5 DEF Refused, ProbeWillReport
<1>6. CASE Thrown(k) \/ PaceAborted(k) \/ RecordThrows(k)
  BY <1>6, RecordDecides DEF Thrown, PaceAborted, RecordThrows
<1>7. CASE Paced(k) \/ Fetched(k) \/ BodyRead(k)
  <2>1. \/ \E r, where : Record(k, r, where)
        \/ \E s \in {"fetch", "body"} : stage' = [stage EXCEPT ![k] = s] /\ UNCHANGED <<breaker, silent>>
    BY <1>7 DEF Paced, Fetched, BodyRead
  <2> QED
    BY <1>1, <1>2, <2>1, RecordDecides
<1>8. CASE Recorded(k) \/ RecordRejects(k)
  <2>1. UNCHANGED <<breaker, silent>> /\ stage[k] = "recording" /\ \E r : GiveBack(k, r)
    BY <1>8 DEF Recorded, RecordRejects
  <2>2. CASE "grant" \in holds[k]
    <3>1. stage' = [j \in Keys |-> IF j = k THEN "releasing"
                                   ELSE IF j \in Heir(k) THEN First ELSE stage[j]]
      BY <2>1, <2>2 DEF GiveBack
    <3>2. \A j \in Keys : stage[j] \in Untold => stage'[j] \in Untold
      BY <1>2, <2>1, <3>1 DEF Untold
    <3> QED
      BY <2>1, <3>2, StillUntold
  <2>3. CASE "grant" \notin holds[k]
    <3>1. stage' = [stage EXCEPT ![k] = "none"]
      BY <2>1, <2>3 DEF GiveBack, Settle
    <3> QED
      BY <1>3, <2>1, <3>1 DEF Untold
  <2> QED
    BY <2>2, <2>3
<1>9. CASE Released(k) \/ Put(k)
  <2>1. stage[k] \notin Untold /\ UNCHANGED <<breaker, silent>>
    BY <1>9 DEF Released, Put, Untold
  <2>2. \E s : stage' = [stage EXCEPT ![k] = s]
    BY <1>9 DEF Released, Put, Settle
  <2> QED
    BY <1>3, <2>1, <2>2
<1> QED
  BY <1>4, <1>5, <1>6, <1>7, <1>8, <1>9 DEF Advance

\* The one half-open probe of a provider is out only while some flight has still to
\* tell the breaker how it went, unless one ended without a word: a probe is never
\* forgotten on any other path (tryAcquire, recordResult, recordReachable).
THEOREM ProbeReports == Spec => []ProbeWillReport
<1>1. Init => ProbeWillReport
  BY ClosedIsBreaker DEF Init, ProbeWillReport, Closed
<1>2. TypeOK /\ ProbeWillReport /\ [Next]_vars => ProbeWillReport'
  <2> SUFFICES ASSUME TypeOK, ProbeWillReport, [Next]_vars PROVE ProbeWillReport'
    OBVIOUS
  <2>1. ASSUME NEW c \in Callers, SharedFetch(c) PROVE ProbeWillReport'
    <3>1. ASSUME NEW k \in Keys, Join(c, k) PROVE ProbeWillReport'
      BY <3>1, StillUntold DEF Join
    <3> QED
      BY <2>1, <3>1, StartProbes DEF SharedFetch
  <2>2. CASE Tick
    BY <2>2, StillUntold DEF Tick, flight
  <2>3. CASE UNCHANGED vars
    BY <2>3, StillUntold DEF vars, flight
  <2> QED
    BY <2>1, <2>2, <2>3, LeaveReports, AdvanceReports DEF Next
<1> QED
  BY <1>1, <1>2, TypeCorrect, PTL DEF Spec
=============================================================================
