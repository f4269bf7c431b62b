---------------------------- MODULE DashboardProof ----------------------------
(***************************************************************************)
(* Proofs about Dashboard, for any requests, replicas, addresses, limits   *)
(* and times.                                                              *)
(***************************************************************************)
EXTENDS Dashboard, Lists

LEMMA Extremes ==
  ASSUME NEW a \in Int, NEW b \in Int
  PROVE  /\ Min({a, b}) = IF a <= b THEN a ELSE b
         /\ Max({a, b}) = IF a >= b THEN a ELSE b
<1>1. \E x \in {a, b} : \A y \in {a, b} : x <= y
  OBVIOUS
<1>2. Min({a, b}) \in {a, b} /\ \A y \in {a, b} : Min({a, b}) <= y
  BY <1>1 DEF Min
<1>3. \E x \in {a, b} : \A y \in {a, b} : x >= y
  OBVIOUS
<1>4. Max({a, b}) \in {a, b} /\ \A y \in {a, b} : Max({a, b}) >= y
  BY <1>3 DEF Max
<1> QED
  BY <1>2, <1>4

-----------------------------------------------------------------------------
(* Types *)

Pcs == {"new"} \cup Waits \cup Answers
Entries == [ip : Ips, count : Nat, resetAt : Nat]
ReplicaStates ==
  [init : {"pending", "ready", "failed"}, token : BOOLEAN, setups : SUBSET Entries,
   logins : SUBSET Entries, active : Nat, waiting : Seq(Requests)]
RequestStates ==
  [pc : Pcs, on : Replicas \cup {None}, ip : Ips \cup {None},
   session : Logins \cup {None}, at : Nat]
Rows == [created : Int, seen : Int, idle : Int, absolute : Int, revoked : BOOLEAN]

Typed ==
  /\ case \in Cases
  /\ now \in Nat
  /\ restarts \in Nat
  /\ replica \in [Replicas -> ReplicaStates]
  /\ admin \in Setups \cup {"before", None}
  /\ sessions \in [Logins -> Rows]
  /\ req \in [Requests -> RequestStates]
  /\ \A r \in Requests : req[r].pc \in Waits => req[r].on \in Replicas /\ req[r].ip \in Ips
  /\ out \in [Requests -> SUBSET (Logins \cup {None})]
  /\ loggedOut \subseteq Logins \cup {None}
  /\ uses \in [Logins -> SUBSET Nat]
  /\ guesses \in [Replicas -> [Ips -> Seq(Nat)]]

\* A request goes on to pc: it alone moves, and keeps its session, and what it came
\* with as long as it is not answered.
LEMMA GoesOn ==
  ASSUME Typed, NEW r \in Requests, NEW pc \in Waits \cup Answers, Goes(r, pc),
         req[r].pc \in Waits
  PROVE  /\ req' \in [Requests -> RequestStates]
         /\ \A q \in Requests : req'[q].pc \in Waits => req'[q].on \in Replicas /\ req'[q].ip \in Ips
         /\ \A q \in Requests \ {r} : req'[q] = req[q]
         /\ req'[r].pc = pc /\ req'[r].session = req[r].session
         /\ pc \in Waits => req'[r] = [req[r] EXCEPT !.pc = pc]
<1>1. /\ Went(r, pc) \in RequestStates
      /\ Went(r, pc).pc = pc /\ Went(r, pc).session = req[r].session
      /\ pc \in Waits => Went(r, pc) = [req[r] EXCEPT !.pc = pc]
  BY ZenonT(30) DEF Typed, Went, Pcs, Waits, Answers, RequestStates, Idler
<1>2. pc \in Waits => Went(r, pc).on = req[r].on /\ Went(r, pc).ip = req[r].ip
  BY DEF Typed, Went, Waits, Answers, RequestStates
<1> QED
  BY <1>1, <1>2 DEF Goes, Typed

\* What check() of a limiter returns.
LEMMA CheckTypes ==
  ASSUME Typed, NEW L \in SUBSET Entries, NEW ip \in Ips, NEW maximum \in Nat,
         NEW c \in Check(L, ip, maximum)
  PROVE  c.entries \in SUBSET Entries /\ c.allowed \in BOOLEAN
<1> DEFINE current == EntryOf(L, ip)
           first == [ip |-> ip, count |-> 1, resetAt |-> now + Window]
<1>1. first \in Entries
  BY DashboardAssumption DEF Typed, Entries
<1>2. CASE current \cap Expired(L) = current
  <2>1. PICK M \in IF current = {} /\ Cardinality(L) >= MaxKeys THEN Evictions(L) ELSE {L \ current} :
          c = [entries |-> M \cup {first}, allowed |-> TRUE]
    BY <1>2 DEF Check
  <2>2. M \subseteq L
    BY <2>1 DEF Evictions
  <2> QED
    BY <1>1, <2>1, <2>2
<1>3. CASE current \cap Expired(L) # current
  <2> DEFINE e == CHOOSE e \in current : TRUE
  <2>1. e \in current /\ e \in Entries
    BY <1>3 DEF EntryOf
  <2>2. Min({maximum + 1, e.count + 1}) \in Nat
    BY <2>1, Extremes DEF Entries
  <2>3. c = [entries |-> (L \ current) \cup {[e EXCEPT !.count = Min({maximum + 1, e.count + 1})]},
             allowed |-> e.count < maximum]
    BY <1>3 DEF Check
  <2>4. [e EXCEPT !.count = Min({maximum + 1, e.count + 1})] \in Entries
    BY <2>1, <2>2 DEF Entries
  <2> QED
    BY <2>1, <2>3, <2>4 DEF Entries
<1> QED
  BY <1>2, <1>3

\* A request's steps leave what they do not name alone.
LEMMA TypedMove ==
  ASSUME Typed, UNCHANGED <<case, now, restarts>>,
         replica' \in [Replicas -> ReplicaStates], admin' \in Setups \cup {"before", None},
         sessions' \in [Logins -> Rows], req' \in [Requests -> RequestStates],
         \A q \in Requests : req'[q].pc \in Waits => req'[q].on \in Replicas /\ req'[q].ip \in Ips,
         out' \in [Requests -> SUBSET (Logins \cup {None})], loggedOut' \subseteq Logins \cup {None},
         uses' \in [Logins -> SUBSET Nat], guesses' \in [Replicas -> [Ips -> Seq(Nat)]]
  PROVE  Typed'
BY DEF Typed

\* Answers that change nothing but the request itself.
OnlyGoes(r) ==
  /\ req[r].pc \in Waits \ {"queued", "work"}
  /\ \/ Goes(r, "refused") \/ Goes(r, "failed") \/ Goes(r, "getAdmin")
     \/ r \in Changes /\ At(r, "body") /\ Goes(r, "ok")
  /\ UNCHANGED <<replica, Database, history>> /\ Same

LEMMA PlainAnswers ==
  ASSUME NEW r \in Requests,
         \/ SetupRefused(r) \/ LoginRefused(r) \/ BodyRefused(r) \/ LoginBody(r) \/ Change(r)
         \/ QueryFails(r) \/ (LoginKnows(r) /\ admin = None)
  PROVE  OnlyGoes(r)
BY DEF SetupRefused, LoginRefused, BodyRefused, LoginBody, Change, QueryFails, LoginKnows,
       OnlyGoes, At, Waits, history

LEMMA OnlyGoesTyped ==
  ASSUME Typed, NEW r \in Requests, OnlyGoes(r)
  PROVE  Typed'
<1>1. PICK pc \in {"refused", "failed", "getAdmin", "ok"} : Goes(r, pc)
  BY DEF OnlyGoes
<1>2. pc \in Waits \cup Answers /\ req[r].pc \in Waits
  BY DEF OnlyGoes, Waits, Answers
<1> QED
  BY <1>1, <1>2, GoesOn, TypedMove DEF OnlyGoes, Typed, Database, history, Same

\* In a replica some fields alone are set.
LEMMA ReplicaTypes ==
  ASSUME Typed, NEW p \in Replicas
  PROVE  /\ replica[p] \in ReplicaStates
         /\ \A x \in ReplicaStates : [replica EXCEPT ![p] = x] \in [Replicas -> ReplicaStates]
         /\ \A L \in SUBSET Entries : /\ [replica[p] EXCEPT !.setups = L] \in ReplicaStates
                                      /\ [replica[p] EXCEPT !.logins = L] \in ReplicaStates
         /\ \A n \in Nat, w \in Seq(Requests) :
              [replica[p] EXCEPT !.active = n, !.waiting = w] \in ReplicaStates
<1>1. replica[p] \in ReplicaStates
  BY DEF Typed
<1>2. \A x \in ReplicaStates : [replica EXCEPT ![p] = x] \in [Replicas -> ReplicaStates]
  BY DEF Typed
<1> DEFINE x == replica[p]
<1> HIDE DEF x
<1>3. x \in ReplicaStates
  BY <1>1 DEF x
<1>4. ASSUME NEW L \in SUBSET Entries
      PROVE  [x EXCEPT !.setups = L] \in ReplicaStates /\ [x EXCEPT !.logins = L] \in ReplicaStates
  BY <1>3 DEF ReplicaStates
<1>5. ASSUME NEW n \in Nat, NEW w \in Seq(Requests)
      PROVE  [x EXCEPT !.active = n, !.waiting = w] \in ReplicaStates
  BY <1>3 DEF ReplicaStates
<1> QED
  BY <1>1, <1>2, <1>4, <1>5 DEF x

-----------------------------------------------------------------------------
(* The gate *)

On(p, pc) == {r \in Requests : req[r].on = p /\ At(r, pc)}

\* The books of a gate: who hashes and who waits.
Gate(p) ==
  /\ Lists(Requests, replica[p].waiting, On(p, "queued"))
  /\ IsFiniteSet(On(p, "work"))
  /\ replica[p].active = Cardinality(On(p, "work"))
  /\ replica[p].active <= Concurrency /\ Len(replica[p].waiting) <= MaxQueue
  /\ replica[p].waiting # <<>> => replica[p].active = Concurrency
Gates == \A p \in Replicas : Gate(p)

\* What is not the gate's.
Beside(p) == <<replica[p].init, replica[p].token, replica[p].setups, replica[p].logins>>

LEMMA SameGate ==
  ASSUME NEW p \in Replicas, Gate(p),
         UNCHANGED <<replica[p].active, replica[p].waiting, On(p, "queued"), On(p, "work")>>
  PROVE  Gate(p)'
BY DEF Gate

\* Who is answered or goes on without the gate leaves it alone.
LEMMA PastTheGate ==
  ASSUME Typed, Gates, NEW r \in Requests, NEW pc \in (Waits \cup Answers) \ {"queued", "work"},
         Goes(r, pc), req[r].pc \in Waits \ {"queued", "work"},
         \A p \in Replicas : UNCHANGED <<replica[p].active, replica[p].waiting>>
  PROVE  Gates'
<1>1. ASSUME NEW p \in Replicas PROVE UNCHANGED <<On(p, "queued"), On(p, "work")>>
  <2>1. /\ \A q \in Requests \ {r} : req'[q] = req[q]
        /\ req'[r].pc = pc /\ req[r].pc \in Waits \ {"queued", "work"}
    BY GoesOn
  <2> QED
    BY <2>1 DEF On, At
<1> QED
  BY <1>1, SameGate DEF Gates

\* A request comes to the gate: it takes a slot, waits, or is turned away.
LEMMA Enter ==
  ASSUME Typed, Gates, NEW r \in Requests, req[r].pc \in Waits \ {"queued", "work"}, Enters(r)
  PROVE  /\ \E pc \in {"work", "queued", "failed"} : Goes(r, pc)
         /\ replica' \in [Replicas -> ReplicaStates]
         /\ \A p \in Replicas : Beside(p)' = Beside(p)
         /\ Gates'
<1>1. PICK p \in Replicas, gate \in ReplicaStates : p = req[r].on /\ gate = replica[p]
  BY DEF Typed
<1>2. Gate(p) /\ r \notin On(p, "work") /\ r \notin On(p, "queued")
  BY <1>1 DEF Gates, On, At
<1>3. CASE gate.active < Concurrency
  <2>1. Goes(r, "work") /\ replica' = [replica EXCEPT ![p] = [gate EXCEPT !.active = gate.active + 1]]
    BY <1>3, <1>1 DEF Enters, ReplicaStates
  <2>2. replica'[p] = [gate EXCEPT !.active = gate.active + 1] /\ \A q \in Replicas \ {p} : replica'[q] = replica[q]
    BY <1>1, <2>1 DEF Typed
  <2>3. /\ \A q \in Replicas : On(q, "queued")' = On(q, "queued")
        /\ \A q \in Replicas \ {p} : On(q, "work")' = On(q, "work")
        /\ On(p, "work")' = On(p, "work") \cup {r}
    <3>1. /\ \A q \in Requests \ {r} : req'[q] = req[q]
          /\ req'[r] = [req[r] EXCEPT !.pc = "work"] /\ req[r] \in RequestStates
      BY <2>1, GoesOn DEF Waits, Typed
    <3> QED
      BY <1>1, <3>1 DEF On, At, RequestStates
  <2>4. IsFiniteSet(On(p, "work")') /\ Cardinality(On(p, "work")') = gate.active + 1
    <3>1. /\ IsFiniteSet(On(p, "work") \cup {r})
          /\ Cardinality(On(p, "work") \cup {r}) = Cardinality(On(p, "work")) + 1
      BY <1>2, FS_AddElement, Zenon DEF Gate
    <3> QED
      BY <1>1, <1>2, <2>3, <3>1 DEF Gate
  <2>5. gate.waiting = <<>>
    BY <1>1, <1>2, <1>3, DashboardAssumption DEF Gate, ReplicaStates
  <2>6. Gate(p)'
    BY <1>1, <1>2, <1>3, <2>2, <2>3, <2>4, <2>5, DashboardAssumption DEF Gate, ReplicaStates
  <2>7. \A q \in Replicas \ {p} : Gate(q)'
    BY <2>2, <2>3, SameGate DEF Gates
  <2>8. gate.active + 1 \in Nat /\ [gate EXCEPT !.active = gate.active + 1] \in ReplicaStates
    BY <1>1 DEF ReplicaStates
  <2> QED
    BY <1>1, <2>1, <2>2, <2>6, <2>7, <2>8 DEF Gates, Beside, Typed, ReplicaStates
<1>4. CASE gate.active >= Concurrency /\ Len(gate.waiting) >= MaxQueue
  <2>1. Goes(r, "failed") /\ UNCHANGED replica
    BY SMTT(30), <1>1, <1>4, DashboardAssumption DEF Enters, ReplicaStates
  <2> QED
    BY <2>1, PastTheGate DEF Typed, Beside, Answers
<1>5. CASE gate.active >= Concurrency /\ ~(Len(gate.waiting) >= MaxQueue)
  <2>1. Goes(r, "queued") /\ replica' = [replica EXCEPT ![p] = [gate EXCEPT !.waiting = Append(gate.waiting, r)]]
    BY SMTT(30), <1>1, <1>5, DashboardAssumption DEF Enters, ReplicaStates
  <2>2. /\ replica'[p] = [gate EXCEPT !.waiting = Append(gate.waiting, r)]
        /\ \A q \in Replicas \ {p} : replica'[q] = replica[q]
    BY <1>1, <2>1 DEF Typed
  <2>3. /\ \A q \in Replicas : On(q, "work")' = On(q, "work")
        /\ \A q \in Replicas \ {p} : On(q, "queued")' = On(q, "queued")
        /\ On(p, "queued")' = On(p, "queued") \cup {r}
    <3>1. /\ \A q \in Requests \ {r} : req'[q] = req[q]
          /\ req'[r] = [req[r] EXCEPT !.pc = "queued"] /\ req[r] \in RequestStates
      BY <2>1, GoesOn DEF Waits, Typed
    <3> QED
      BY <1>1, <3>1 DEF On, At, RequestStates
  <2>4. Lists(Requests, Append(gate.waiting, r), On(p, "queued")')
    BY <1>1, <1>2, <2>3, AppendedList DEF Gate
  <2>5. Len(gate.waiting) \in Nat /\ Len(Append(gate.waiting, r)) = Len(gate.waiting) + 1
    BY <1>1, LenProperties, AppendProperties DEF ReplicaStates
  <2>6. Gate(p)'
    <3>1. replica'[p].waiting = Append(gate.waiting, r) /\ replica'[p].active = gate.active
      <4>1. PICK waiting : waiting = Append(gate.waiting, r)
        OBVIOUS
      <4>2. replica'[p] = [gate EXCEPT !.waiting = waiting]
        BY <2>2, <4>1
      <4>3. DOMAIN gate = DOMAIN [gate EXCEPT !.waiting = waiting] /\ "waiting" \in DOMAIN gate /\ "active" \in DOMAIN gate
        BY DEF ReplicaStates
      <4> QED
        BY <4>1, <4>2, <4>3
    <3>2. Len(gate.waiting) < MaxQueue /\ gate.active = Concurrency
      <4>1. gate.active \in Nat /\ gate.active <= Concurrency
        BY <1>1, <1>2 DEF Gate, ReplicaStates
      <4>2. Concurrency \in Nat /\ MaxQueue \in Nat
        BY DashboardAssumption
      <4> QED
        BY <1>5, <2>5, <4>1, <4>2
    <3>3. Len(Append(gate.waiting, r)) <= MaxQueue
      BY <2>5, <3>2, DashboardAssumption
    <3>4. IsFiniteSet(On(p, "work")) /\ gate.active = Cardinality(On(p, "work"))
      BY <1>1, <1>2 DEF Gate
    <3>5. Concurrency <= Concurrency
      BY DashboardAssumption
    <3> QED
      BY <2>3, <2>4, <3>1, <3>2, <3>3, <3>4, <3>5 DEF Gate
  <2>7. \A q \in Replicas \ {p} : Gate(q)'
    BY <2>2, <2>3, SameGate DEF Gates
  <2>8. Append(gate.waiting, r) \in Seq(Requests)
    BY <1>1, AppendProperties DEF ReplicaStates
  <2>9. [gate EXCEPT !.waiting = Append(gate.waiting, r)] \in ReplicaStates
    BY <1>1, <2>8 DEF ReplicaStates
  <2> QED
    BY <1>1, <2>1, <2>2, <2>6, <2>7, <2>9 DEF Gates, Beside, Typed, ReplicaStates
<1>6. \/ gate.active < Concurrency
      \/ gate.active >= Concurrency /\ Len(gate.waiting) >= MaxQueue
      \/ gate.active >= Concurrency /\ ~(Len(gate.waiting) >= MaxQueue)
  BY SMTT(30), <1>1, DashboardAssumption DEF ReplicaStates
<1> QED
  BY <1>3, <1>4, <1>5, <1>6

\* A request leaves the gate: its slot goes to the first that waits, or back.
LEMMA Leave ==
  ASSUME Typed, Gates, NEW r \in Requests, At(r, "work"),
         NEW pc \in {"create", "failed", "refused"}, Leaves(r, pc)
  PROVE  /\ replica' \in [Replicas -> ReplicaStates]
         /\ \A p \in Replicas : Beside(p)' = Beside(p)
         /\ req'[r] = Timed(r, pc)
         /\ \A q \in Requests \ {r} : req'[q] = req[q] \/ (At(q, "queued") /\ req'[q] = [req[q] EXCEPT !.pc = "work"])
         /\ req' \in [Requests -> RequestStates]
         /\ \A q \in Requests : req'[q].pc \in Waits => req'[q].on \in Replicas /\ req'[q].ip \in Ips
         /\ Gates'
<1>1. PICK p \in Replicas, gate \in ReplicaStates : p = req[r].on /\ gate = replica[p]
  BY DEF Typed, At, Waits
<1>2. Gate(p) /\ r \in On(p, "work") /\ r \notin On(p, "queued")
  BY <1>1 DEF Gates, On, At
<1>3. PICK left \in RequestStates : /\ left = Timed(r, pc) /\ left.pc = pc
                                    /\ pc \in Waits => left.on = p /\ left.ip \in Ips
  <2>1. req[r] \in RequestStates /\ req[r].ip \in Ips /\ now \in Nat
    BY DEF Typed, At, Waits
  <2>2. /\ [req[r] EXCEPT !.pc = "create", !.at = now] \in RequestStates
        /\ [req[r] EXCEPT !.pc = "create", !.at = now].pc = "create"
        /\ [req[r] EXCEPT !.pc = "create", !.at = now].on = p
        /\ [req[r] EXCEPT !.pc = "create", !.at = now].ip \in Ips
    BY <1>1, <2>1 DEF RequestStates, Pcs, Waits
  <2>3. \A a \in Answers : /\ [Idler EXCEPT !.pc = a, !.session = req[r].session] \in RequestStates
                           /\ [Idler EXCEPT !.pc = a, !.session = req[r].session].pc = a
    BY <2>1 DEF RequestStates, Pcs, Answers, Idler
  <2>4. CASE pc = "create"
    BY <2>2, <2>4 DEF Timed
  <2>5. CASE pc # "create"
    BY <2>3, <2>5 DEF Timed, Went, Answers, Waits
  <2> QED
    BY <2>4, <2>5
<1>4. gate.active = Cardinality(On(p, "work")) /\ gate.active \in Nat \ {0}
  <2>1. On(p, "work") # {} /\ Cardinality(On(p, "work")) \in Nat
    BY <1>2, FS_CardinalityType DEF Gate
  <2> QED
    BY <1>1, <1>2, <2>1, FS_EmptySet, FS_Subset DEF Gate, ReplicaStates
<1>5. IsFiniteSet(On(p, "work") \ {r}) /\ Cardinality(On(p, "work") \ {r}) = gate.active - 1
  BY <1>2, <1>4, FS_RemoveElement, Zenon DEF Gate
<1>6. CASE gate.waiting = <<>>
  <2>1. replica' = [replica EXCEPT ![p] = [gate EXCEPT !.active = gate.active - 1, !.waiting = <<>>]]
    <3>1. Max({0, gate.active - 1}) = gate.active - 1
      <4>1. 0 \in Int /\ gate.active - 1 \in Int /\ ~(0 >= gate.active - 1 /\ 0 # gate.active - 1)
        BY <1>4
      <4>2. Max({0, gate.active - 1}) = IF 0 >= gate.active - 1 THEN 0 ELSE gate.active - 1
        BY <4>1, Extremes
      <4> QED
        BY <4>1, <4>2
    <3> QED
      BY <1>1, <1>6, <3>1 DEF Leaves, ReplicaStates
  <2>2. \A q \in Requests : req'[q] = IF q = r THEN left ELSE req[q]
    BY <1>1, <1>3, <1>6 DEF Leaves
  <2>3. /\ replica'[p] = [gate EXCEPT !.active = gate.active - 1, !.waiting = <<>>]
        /\ \A q \in Replicas \ {p} : replica'[q] = replica[q]
    BY <1>1, <2>1 DEF Typed
  <2>4. /\ \A q \in Replicas : On(q, "queued")' = On(q, "queued")
        /\ \A q \in Replicas \ {p} : On(q, "work")' = On(q, "work")
        /\ On(p, "work")' = On(p, "work") \ {r}
    BY <1>1, <1>2, <1>3, <2>2 DEF On, At
  <2>5. Gate(p)'
    <3>1. replica'[p].active = gate.active - 1 /\ replica'[p].waiting = gate.waiting
      BY <1>1, <1>6, <2>3 DEF ReplicaStates
    <3>2. gate.active - 1 <= Concurrency
      BY <1>1, <1>2, <1>4, DashboardAssumption DEF Gate
    <3>3. IsFiniteSet(On(p, "work")') /\ Cardinality(On(p, "work")') = gate.active - 1
      BY <1>5, <2>4
    <3>4. Lists(Requests, replica'[p].waiting, On(p, "queued")') /\ Len(replica'[p].waiting) <= MaxQueue
      BY <1>1, <1>2, <2>4, <3>1 DEF Gate
    <3> QED
      BY <1>6, <3>1, <3>2, <3>3, <3>4 DEF Gate
  <2>6. \A q \in Replicas \ {p} : Gate(q)'
    BY <2>3, <2>4, SameGate DEF Gates
  <2>7. [gate EXCEPT !.active = gate.active - 1, !.waiting = <<>>] \in ReplicaStates
    <3>1. gate.active - 1 \in Nat /\ <<>> \in Seq(Requests)
      BY <1>4
    <3> QED
      BY <1>1, <3>1 DEF ReplicaStates
  <2>8. req' \in [Requests -> RequestStates]
    BY <1>1, <1>3, <1>6 DEF Leaves, Typed
  <2>9. /\ replica' \in [Replicas -> ReplicaStates]
        /\ \A q \in Replicas : Beside(q)' = Beside(q)
    BY <1>1, <2>1, <2>3, <2>7 DEF Beside, Typed, ReplicaStates
  <2>10. \A q \in Requests : req'[q].pc \in Waits => req'[q].on \in Replicas /\ req'[q].ip \in Ips
    BY <1>1, <1>3, <2>2 DEF Typed
  <2>11. Gates'
    BY <2>5, <2>6 DEF Gates
  <2>12. req'[r] = Timed(r, pc) /\ \A q \in Requests \ {r} : req'[q] = req[q]
    BY <1>3, <2>2
  <2> QED
    BY <2>8, <2>9, <2>10, <2>11, <2>12
<1>7. CASE gate.waiting # <<>>
  <2>1. PICK f \in Requests : f = gate.waiting[1] /\ f \in On(p, "queued")
        /\ Lists(Requests, Tail(gate.waiting), On(p, "queued") \ {f})
        /\ Tail(gate.waiting) \in Seq(Requests) /\ Len(Tail(gate.waiting)) <= MaxQueue
    <3>1. Lists(Requests, gate.waiting, On(p, "queued")) /\ gate.waiting \in Seq(Requests)
      BY <1>1, <1>2 DEF Gate, ReplicaStates
    <3>2. /\ Head(gate.waiting) \in On(p, "queued")
          /\ Lists(Requests, Tail(gate.waiting), On(p, "queued") \ {Head(gate.waiting)})
      BY <1>7, <3>1, TailOfList
    <3>3. /\ Head(gate.waiting) = gate.waiting[1] /\ Tail(gate.waiting) \in Seq(Requests)
          /\ Len(Tail(gate.waiting)) = Len(gate.waiting) - 1 /\ Len(gate.waiting) \in Nat
      BY <1>7, <3>1, HeadTailProperties, LenProperties
    <3>4. Len(Tail(gate.waiting)) <= MaxQueue
      BY <1>1, <1>2, <3>3, DashboardAssumption DEF Gate
    <3> QED
      BY <3>2, <3>3, <3>4 DEF On
  <2>2. replica' = [replica EXCEPT ![p] = [gate EXCEPT !.active = gate.active, !.waiting = Tail(gate.waiting)]]
    BY <1>1, <1>7 DEF Leaves, ReplicaStates
  <2>3. f # r /\ req[f] \in RequestStates /\ req[f].on = p /\ req[f].pc = "queued"
    BY <1>2, <2>1 DEF On, At, Typed
  <2>4. /\ req'[r] = left /\ req'[f] = [req[f] EXCEPT !.pc = "work"]
        /\ \A q \in Requests \ {r, f} : req'[q] = req[q]
    BY <1>1, <1>3, <1>7, <2>1, <2>3 DEF Leaves
  <2>5. [req[f] EXCEPT !.pc = "work"] \in RequestStates
    BY <2>3 DEF RequestStates, Pcs, Waits
  <2>6. /\ replica'[p] = [gate EXCEPT !.active = gate.active, !.waiting = Tail(gate.waiting)]
        /\ \A q \in Replicas \ {p} : replica'[q] = replica[q]
    BY <1>1, <2>2 DEF Typed
  <2>7. /\ \A q \in Replicas \ {p} : On(q, "queued")' = On(q, "queued") /\ On(q, "work")' = On(q, "work")
        /\ On(p, "queued")' = On(p, "queued") \ {f}
        /\ On(p, "work")' = (On(p, "work") \ {r}) \cup {f}
    BY <1>1, <1>2, <1>3, <2>3, <2>4 DEF On, At, RequestStates
  <2>8. /\ IsFiniteSet((On(p, "work") \ {r}) \cup {f})
        /\ Cardinality((On(p, "work") \ {r}) \cup {f}) = gate.active
    <3>1. f \notin On(p, "work") \ {r}
      BY <2>3 DEF On, At
    <3>2. /\ IsFiniteSet((On(p, "work") \ {r}) \cup {f})
          /\ Cardinality((On(p, "work") \ {r}) \cup {f}) = Cardinality(On(p, "work") \ {r}) + 1
      BY <1>5, <3>1, FS_AddElement, Zenon
    <3> QED
      BY <1>4, <1>5, <3>2
  <2>9. Gate(p)'
    <3>1. gate.active <= Concurrency /\ gate.active = Concurrency
      BY <1>1, <1>2, <1>7 DEF Gate
    <3>2. /\ replica'[p].active = gate.active /\ replica'[p].waiting = Tail(gate.waiting)
      BY <1>1, <2>6 DEF ReplicaStates
    <3> QED
      BY <2>1, <2>7, <2>8, <3>1, <3>2 DEF Gate
  <2>10. \A q \in Replicas \ {p} : Gate(q)'
    BY <2>6, <2>7, SameGate DEF Gates
  <2>11. [gate EXCEPT !.active = gate.active, !.waiting = Tail(gate.waiting)] \in ReplicaStates
    BY <1>1, <2>1 DEF ReplicaStates
  <2>12. req' \in [Requests -> RequestStates]
    <3>1. req' = [q \in Requests |-> req'[q]]
      BY SMTT(30) DEF Leaves
    <3> QED
      BY <1>3, <2>4, <2>5, <3>1 DEF Typed
  <2>13. /\ replica' \in [Replicas -> ReplicaStates]
         /\ \A q \in Replicas : Beside(q)' = Beside(q)
    BY <1>1, <2>2, <2>6, <2>11 DEF Beside, Typed, ReplicaStates
  <2>14. [req[f] EXCEPT !.pc = "work"].on \in Replicas /\ [req[f] EXCEPT !.pc = "work"].ip \in Ips
    BY <1>1, <2>3 DEF RequestStates, Typed, Waits
  <2>15. \A q \in Requests : req'[q].pc \in Waits => req'[q].on \in Replicas /\ req'[q].ip \in Ips
    <3>1. req'[r].pc \in Waits => req'[r].on \in Replicas /\ req'[r].ip \in Ips
      BY <1>1, <1>3, <2>4
    <3>2. req'[f].pc \in Waits => req'[f].on \in Replicas /\ req'[f].ip \in Ips
      BY <2>4, <2>14
    <3> QED
      BY <2>4, <3>1, <3>2 DEF Typed
  <2>16. Gates'
    BY <2>9, <2>10 DEF Gates
  <2>17. \A q \in Requests \ {r} : req'[q] = req[q] \/ (At(q, "queued") /\ req'[q] = [req[q] EXCEPT !.pc = "work"])
    <3>1. At(f, "queued") /\ req'[f] = [req[f] EXCEPT !.pc = "work"]
      BY <2>3, <2>4 DEF At
    <3> QED
      BY <2>4, <3>1
  <2>18. req'[r] = Timed(r, pc)
    BY <1>3, <2>4
  <2> QED
    BY <2>12, <2>13, <2>15, <2>16, <2>17, <2>18
<1> QED
  BY <1>6, <1>7

\* A request gives up waiting.
LEMMA GiveUp ==
  ASSUME Typed, Gates, NEW r \in Requests, QueueTimeout(r)
  PROVE  /\ Goes(r, "failed") /\ req[r].pc \in Waits
         /\ replica' \in [Replicas -> ReplicaStates]
         /\ \A p \in Replicas : Beside(p)' = Beside(p)
         /\ Gates'
<1>1. PICK p \in Replicas, gate \in ReplicaStates : p = req[r].on /\ gate = replica[p]
  BY DEF Typed, At, Waits, QueueTimeout
<1>2. Gate(p) /\ r \in On(p, "queued") /\ At(r, "queued")
  BY <1>1 DEF Gates, On, At, QueueTimeout
<1> DEFINE rest == RemoveAt(gate.waiting, CHOOSE i \in DOMAIN gate.waiting : gate.waiting[i] = r)
<1>3. replica' = [replica EXCEPT ![p] = [gate EXCEPT !.waiting = rest]]
  BY <1>1 DEF QueueTimeout, ReplicaStates
<1>4. Lists(Requests, rest, On(p, "queued") \ {r})
  BY <1>1, <1>2, RemovedFromList DEF Gate
<1> HIDE DEF rest
<1>5. rest \in Seq(Requests) /\ Len(rest) <= MaxQueue
  <2>1. /\ IsFiniteSet(On(p, "queued")) /\ Cardinality(On(p, "queued")) = Len(gate.waiting)
        /\ Cardinality(On(p, "queued") \ {r}) = Len(rest)
    BY <1>1, <1>2, <1>4, LengthOfList DEF Gate
  <2>2. Cardinality(On(p, "queued") \ {r}) = Cardinality(On(p, "queued")) - 1
    BY <1>2, <2>1, FS_RemoveElement, Zenon
  <2>3. Len(gate.waiting) \in Nat /\ Len(gate.waiting) <= MaxQueue
    BY <1>1, <1>2, LenProperties DEF Gate, ReplicaStates
  <2> QED
    BY <1>4, <2>1, <2>2, <2>3, DashboardAssumption DEF Lists
<1>6. /\ replica'[p] = [gate EXCEPT !.waiting = rest]
      /\ \A q \in Replicas \ {p} : replica'[q] = replica[q]
  BY <1>1, <1>3 DEF Typed
<1>7. Goes(r, "failed") /\ req[r].pc \in Waits
  BY <1>2 DEF QueueTimeout, At, Waits
<1>8. /\ \A q \in Replicas : On(q, "work")' = On(q, "work")
      /\ \A q \in Replicas \ {p} : On(q, "queued")' = On(q, "queued")
      /\ On(p, "queued")' = On(p, "queued") \ {r}
  <2>1. (\A q \in Requests \ {r} : req'[q] = req[q]) /\ req'[r].pc = "failed"
    BY <1>7, GoesOn DEF Answers
  <2> QED
    BY <1>1, <1>2, <2>1 DEF On, At
<1>9. Gate(p)'
  <2>1. replica'[p].active = gate.active /\ replica'[p].waiting = rest
    BY <1>1, <1>6 DEF ReplicaStates
  <2>2. rest # <<>> => gate.waiting # <<>>
    BY <1>1, <1>2 DEF Gate, Lists
  <2> QED
    BY <1>1, <1>2, <1>4, <1>5, <1>8, <2>1, <2>2 DEF Gate
<1>10. \A q \in Replicas \ {p} : Gate(q)'
  BY <1>6, <1>8, SameGate DEF Gates
<1>11. [gate EXCEPT !.waiting = rest] \in ReplicaStates
  BY <1>1, <1>5 DEF ReplicaStates
<1> QED
  BY <1>1, <1>3, <1>6, <1>7, <1>9, <1>10, <1>11 DEF Gates, Beside, Typed, ReplicaStates

-----------------------------------------------------------------------------
(* Every step keeps the types and the books of the gates *)

Sound == Typed /\ Gates

LEMMA OnlyGoesSound ==
  ASSUME Sound, NEW r \in Requests, OnlyGoes(r)
  PROVE  Sound'
<1>1. PICK pc \in {"refused", "failed", "getAdmin", "ok"} : Goes(r, pc)
  BY DEF OnlyGoes
<1>2. Gates'
  BY <1>1, PastTheGate DEF OnlyGoes, Sound, Waits, Answers
<1> QED
  BY <1>2, OnlyGoesTyped DEF Sound

\* A move in the database, that no gate has to do with.
LEMMA QueryMoves ==
  ASSUME Sound, NEW r \in Requests, NEW pc \in (Waits \cup Answers) \ {"queued", "work"},
         Goes(r, pc), req[r].pc \in Waits \ {"queued", "work"}, Same,
         replica' \in [Replicas -> ReplicaStates],
         \A p \in Replicas : UNCHANGED <<replica[p].active, replica[p].waiting>>,
         admin' \in Setups \cup {"before", None}, sessions' \in [Logins -> Rows],
         out' \in [Requests -> SUBSET (Logins \cup {None})], loggedOut' \subseteq Logins \cup {None},
         uses' \in [Logins -> SUBSET Nat], guesses' \in [Replicas -> [Ips -> Seq(Nat)]]
  PROVE  Sound'
<1>1. Gates'
  BY PastTheGate DEF Sound
<1>2. Typed'
  BY GoesOn, TypedMove DEF Sound, Same
<1> QED
  BY <1>1, <1>2 DEF Sound

LEMMA CheckedSound ==
  ASSUME Sound, NEW r \in Requests, SetupChecked(r) \/ LoginChecked(r)
  PROVE  Sound'
<1>1. PICK p \in Replicas : p = req[r].on
  BY DEF Sound, Typed, SetupChecked, LoginChecked, At, Waits
<1>2. /\ req[r].ip \in Ips /\ req[r].pc = "hasAdmin" /\ replica[p].setups \in SUBSET Entries
      /\ replica[p].logins \in SUBSET Entries /\ MaxSetups \in Nat /\ MaxLogins \in Nat /\ now \in Nat
  BY <1>1, DashboardAssumption DEF Sound, Typed, ReplicaStates, SetupChecked, LoginChecked, At, Waits
<1>3. CASE SetupChecked(r)
  <2>1. PICK c \in Check(replica[p].setups, req[r].ip, MaxSetups) :
          /\ replica' = [replica EXCEPT ![p].setups = c.entries]
          /\ Goes(r, IF c.allowed THEN "body" ELSE "refused")
    BY <1>1, <1>3 DEF SetupChecked, Here
  <2>2. c.entries \in SUBSET Entries
    BY <1>2, CheckTypes DEF Sound
  <2>3. replica' = [replica EXCEPT ![p] = [replica[p] EXCEPT !.setups = c.entries]]
    BY <2>1
  <2>4. replica' \in [Replicas -> ReplicaStates]
    BY <2>2, <2>3, ReplicaTypes DEF Sound
  <2>5. \A q \in Replicas : UNCHANGED <<replica[q].active, replica[q].waiting>>
    BY <2>3 DEF Sound, Typed, ReplicaStates
  <2>6. PICK pc \in {"body", "refused"} : Goes(r, pc)
    BY <2>1
  <2> QED
    BY <1>2, <1>3, <2>4, <2>5, <2>6, QueryMoves
       DEF SetupChecked, Sound, Typed, Database, history, Waits, Answers
<1>4. CASE LoginChecked(r)
  <2>1. PICK c \in Check(replica[p].logins, req[r].ip, MaxLogins) :
          /\ replica' = [replica EXCEPT ![p].logins = c.entries]
          /\ Goes(r, IF c.allowed THEN "body" ELSE "refused")
          /\ guesses' = [guesses EXCEPT ![p] = [Remembered(p, c.entries) EXCEPT
                           ![req[r].ip] = IF c.allowed THEN Append(@, now) ELSE @]]
    BY <1>1, <1>4 DEF LoginChecked, Here
  <2>2. c.entries \in SUBSET Entries
    BY <1>2, CheckTypes DEF Sound
  <2>3. replica' = [replica EXCEPT ![p] = [replica[p] EXCEPT !.logins = c.entries]]
    BY <2>1
  <2>4. replica' \in [Replicas -> ReplicaStates]
    BY <2>2, <2>3, ReplicaTypes DEF Sound
  <2>5. \A q \in Replicas : UNCHANGED <<replica[q].active, replica[q].waiting>>
    BY <2>3 DEF Sound, Typed, ReplicaStates
  <2>6. PICK pc \in {"body", "refused"} : Goes(r, pc)
    BY <2>1
  <2>7. guesses' \in [Replicas -> [Ips -> Seq(Nat)]]
    <3> DEFINE mem == Remembered(p, c.entries)
    <3>1. mem \in [Ips -> Seq(Nat)]
      <4>1. \A ip \in Ips : guesses[p][ip] \in Seq(Nat) /\ <<>> \in Seq(Nat)
        BY DEF Sound, Typed
      <4> QED
        BY <4>1 DEF Remembered
    <3> HIDE DEF mem
    <3>2. \A s \in Seq(Nat) : Append(s, now) \in Seq(Nat)
      BY <1>2, AppendProperties
    <3>3. [mem EXCEPT ![req[r].ip] = IF c.allowed THEN Append(@, now) ELSE @] \in [Ips -> Seq(Nat)]
      BY <3>1, <3>2
    <3>4. guesses' = [guesses EXCEPT ![p] = [mem EXCEPT ![req[r].ip] = IF c.allowed THEN Append(@, now) ELSE @]]
      BY <2>1 DEF mem
    <3> QED
      BY <3>3, <3>4 DEF Sound, Typed
  <2> QED
    BY <1>2, <1>4, <2>4, <2>5, <2>6, <2>7, QueryMoves
       DEF LoginChecked, Sound, Typed, Database, Waits, Answers
<1> QED
  BY <1>3, <1>4

LEMMA EnterSound ==
  ASSUME Sound, NEW r \in Requests, req[r].pc \in Waits \ {"queued", "work"}, Enters(r),
         UNCHANGED <<Database, history>>, Same
  PROVE  Sound'
<1>1. PICK pc \in {"work", "queued", "failed"} : Goes(r, pc)
  BY Enter DEF Sound
<1>2. /\ req' \in [Requests -> RequestStates]
      /\ \A q \in Requests : req'[q].pc \in Waits => req'[q].on \in Replicas /\ req'[q].ip \in Ips
  BY <1>1, GoesOn DEF Sound, Waits, Answers
<1>3. replica' \in [Replicas -> ReplicaStates] /\ Gates'
  BY Enter DEF Sound
<1> QED
  BY <1>2, <1>3, TypedMove DEF Sound, Typed, Database, history, Same

LEMMA ComesToGate ==
  ASSUME NEW r \in Requests, SetupBody(r) \/ (LoginKnows(r) /\ admin # None)
  PROVE  /\ req[r].pc \in Waits \ {"queued", "work"} /\ Enters(r)
         /\ UNCHANGED <<Database, history>> /\ Same
BY DEF SetupBody, LoginKnows, At, Waits

LEMMA QueueTimeoutSound ==
  ASSUME Sound, NEW r \in Requests, QueueTimeout(r)
  PROVE  Sound'
<1>1. Goes(r, "failed") /\ req[r].pc \in Waits /\ replica' \in [Replicas -> ReplicaStates] /\ Gates'
  BY GiveUp DEF Sound
<1>2. /\ req' \in [Requests -> RequestStates]
      /\ \A q \in Requests : req'[q].pc \in Waits => req'[q].on \in Replicas /\ req'[q].ip \in Ips
  BY <1>1, GoesOn DEF Sound, Answers
<1> QED
  BY <1>1, <1>2, TypedMove DEF Sound, Typed, Database, history, Same, QueueTimeout

LEMMA WorkedSound ==
  ASSUME Sound, NEW r \in Requests, Worked(r)
  PROVE  Sound'
<1>1. PICK pc \in {"create", "failed", "refused"} : At(r, "work") /\ Leaves(r, pc)
  BY DEF Worked
<1>2. /\ replica' \in [Replicas -> ReplicaStates] /\ Gates'
      /\ req' \in [Requests -> RequestStates]
      /\ \A q \in Requests : req'[q].pc \in Waits => req'[q].on \in Replicas /\ req'[q].ip \in Ips
  BY <1>1, Leave DEF Sound
<1> QED
  BY <1>2, TypedMove DEF Sound, Typed, Database, history, Same, Worked

\* What a touch and a logout write is a row.
LEMMA RowTypes ==
  ASSUME Typed, NEW r \in Requests, NEW row \in Rows
  PROVE  Touched(r, row) \in Rows /\ Revoked(row) \in Rows /\ NoRow \in Rows
<1>1. req[r].at \in Nat /\ Idle \in Nat
  BY DashboardAssumption DEF Typed, RequestStates
<1>2. Min({row.absolute, req[r].at + Idle}) \in Int
  <2>1. row.absolute \in Int /\ req[r].at + Idle \in Int
    BY <1>1 DEF Rows
  <2> QED
    BY <2>1, Extremes
<1>3. NoRow \in Rows
  BY DEF NoRow, Rows
<1>4. [row EXCEPT !.seen = req[r].at, !.idle = Min({row.absolute, req[r].at + Idle})] \in Rows
  <2>1. PICK m \in Int, s \in Int : m = Min({row.absolute, req[r].at + Idle}) /\ s = req[r].at
    BY <1>1, <1>2
  <2>2. [row EXCEPT !.seen = s, !.idle = m] \in Rows
    BY DEF Rows
  <2> QED
    BY <2>1, <2>2
<1>5. [row EXCEPT !.revoked = TRUE] \in Rows
  BY DEF Rows
<1> QED
  BY <1>3, <1>4, <1>5 DEF Touched, Revoked

LEMMA CreatesAdminSound ==
  ASSUME Sound, NEW r \in Requests, SetupCreates(r) \/ SetupAnswerLost(r)
  PROVE  Sound'
<1>1. PICK p \in Replicas : p = req[r].on /\ At(r, "create") /\ req[r].pc = "create" /\ r \in Setups
  BY DEF Sound, Typed, SetupCreates, SetupAnswerLost, At, Waits
<1>2. admin' \in Setups \cup {"before", None}
  BY <1>1 DEF Sound, Typed, SetupCreates, SetupAnswerLost, CreateAdmin
<1>3. PICK pc \in Answers : Goes(r, pc)
  BY DEF SetupCreates, SetupAnswerLost, Answers
<1>4. /\ replica' \in [Replicas -> ReplicaStates]
      /\ \A q \in Replicas : UNCHANGED <<replica[q].active, replica[q].waiting>>
  <2>1. CASE UNCHANGED replica
    BY <2>1 DEF Sound, Typed
  <2>2. CASE ~UNCHANGED replica
    <3>1. replica' = [replica EXCEPT ![p].token = FALSE, ![p].setups = @ \ EntryOf(@, req[r].ip)]
      BY <1>1, <2>2 DEF SetupCreates, SetupAnswerLost
    <3>2. PICK x \in ReplicaStates : x = replica[p]
      BY DEF Sound, Typed
    <3>3. replica' = [replica EXCEPT ![p] =
            [x EXCEPT !.token = FALSE, !.setups = x.setups \ EntryOf(x.setups, req[r].ip)]]
      BY <3>1, <3>2 DEF ReplicaStates, Sound, Typed
    <3>4. [x EXCEPT !.token = FALSE, !.setups = x.setups \ EntryOf(x.setups, req[r].ip)] \in ReplicaStates
      BY <3>2 DEF ReplicaStates
    <3>5. replica' \in [Replicas -> ReplicaStates]
      BY <3>3, <3>4, ReplicaTypes DEF Sound
    <3> QED
      BY <3>2, <3>3, <3>5 DEF Sound, Typed, ReplicaStates
  <2> QED
    BY <2>1, <2>2
<1> QED
  BY <1>1, <1>2, <1>3, <1>4, QueryMoves
     DEF SetupCreates, SetupAnswerLost, Sound, Typed, history, Waits, Answers

LEMMA CreatesSessionSound ==
  ASSUME Sound, NEW r \in Requests, LoginCreates(r) \/ LoginAnswerLost(r)
  PROVE  Sound'
<1>1. PICK p \in Replicas : /\ p = req[r].on /\ At(r, "create") /\ req[r].pc = "create" /\ r \in Logins
                            /\ req[r].at \in Nat /\ req[r].ip \in Ips
  BY DEF Sound, Typed, LoginCreates, LoginAnswerLost, At, Waits, RequestStates
<1>2. sessions' \in [Logins -> Rows] /\ uses' \in [Logins -> SUBSET Nat]
  <2>1. CreateSession(r)
    BY DEF LoginCreates, LoginAnswerLost
  <2>2. Min({req[r].at + Absolute, req[r].at + Idle}) \in Int
    <3>1. req[r].at + Absolute \in Int /\ req[r].at + Idle \in Int
      BY <1>1, DashboardAssumption
    <3> QED
      BY <3>1, Extremes
  <2>3. [created |-> req[r].at, seen |-> req[r].at, idle |-> Min({req[r].at + Absolute, req[r].at + Idle}),
         absolute |-> req[r].at + Absolute, revoked |-> FALSE] \in Rows
    BY <1>1, <2>2, DashboardAssumption DEF Rows
  <2> QED
    BY <1>1, <2>1, <2>3 DEF CreateSession, Sound, Typed
<1>3. PICK pc \in Answers : Goes(r, pc)
  BY DEF LoginCreates, LoginAnswerLost, Answers
<1>4. /\ replica' \in [Replicas -> ReplicaStates]
      /\ \A q \in Replicas : UNCHANGED <<replica[q].active, replica[q].waiting>>
  <2>1. CASE UNCHANGED replica
    BY <2>1 DEF Sound, Typed
  <2>2. CASE ~UNCHANGED replica
    <3>1. replica' = [replica EXCEPT ![p].logins = @ \ EntryOf(@, req[r].ip)]
      BY <1>1, <2>2 DEF LoginCreates, LoginAnswerLost
    <3>2. PICK x \in ReplicaStates : x = replica[p]
      BY DEF Sound, Typed
    <3>3. replica' = [replica EXCEPT ![p] = [x EXCEPT !.logins = x.logins \ EntryOf(x.logins, req[r].ip)]]
      BY <3>1, <3>2
    <3>4. [x EXCEPT !.logins = x.logins \ EntryOf(x.logins, req[r].ip)] \in ReplicaStates
      BY <3>2 DEF ReplicaStates
    <3>5. replica' \in [Replicas -> ReplicaStates]
      BY <3>3, <3>4, ReplicaTypes DEF Sound
    <3> QED
      BY <3>2, <3>3, <3>5 DEF Sound, Typed, ReplicaStates
  <2> QED
    BY <2>1, <2>2
<1>5. guesses' \in [Replicas -> [Ips -> Seq(Nat)]]
  <2>1. UNCHANGED guesses \/ guesses' = [guesses EXCEPT ![p] = [guesses[p] EXCEPT ![req[r].ip] = <<>>]]
    BY <1>1 DEF LoginCreates, LoginAnswerLost
  <2>2. [guesses[p] EXCEPT ![req[r].ip] = <<>>] \in [Ips -> Seq(Nat)]
    BY <1>1 DEF Sound, Typed
  <2> QED
    BY <2>1, <2>2 DEF Sound, Typed
<1> QED
  BY <1>1, <1>2, <1>3, <1>4, <1>5, QueryMoves
     DEF LoginCreates, LoginAnswerLost, Sound, Typed, Waits, Answers

\* What Accepted makes of the request and of the uses.
LEMMA AcceptedTypes ==
  ASSUME Typed, NEW r \in Requests, Accepted(r)
  PROVE  /\ uses' \in [Logins -> SUBSET Nat]
         /\ \E pc \in {"ok", "revoke", "body", "refused"} : Goes(r, pc)
<1>1. req[r].at \in Nat
  BY DEF Typed, RequestStates
<1>2. uses' = [uses EXCEPT ![req[r].session] = @ \cup {req[r].at}]
  BY DEF Accepted
<1>3. uses' \in [Logins -> SUBSET Nat]
  BY <1>1, <1>2 DEF Typed
<1> QED
  BY <1>3 DEF Accepted

LEMMA SessionStepsSound ==
  ASSUME Sound, NEW r \in Requests,
         Select(r) \/ TouchSession(r) \/ TouchAnswerLost(r) \/ RevokeSession(r)
  PROVE  Sound'
<1>1. req[r].pc \in {"select", "touch", "revoke"} /\ req[r].at \in Nat
  BY DEF Sound, Typed, Select, TouchSession, TouchAnswerLost, RevokeSession, At, RequestStates
<1>2. UNCHANGED <<replica, admin, out, guesses>> /\ Same
  BY DEF Select, TouchSession, TouchAnswerLost, RevokeSession, Database
<1>3. uses' \in [Logins -> SUBSET Nat] /\ \E pc \in {"ok", "revoke", "body", "refused", "touch", "failed"} : Goes(r, pc)
  <2>1. CASE Select(r)
    <3>1. Accepted(r) \/ (UNCHANGED uses /\ (Goes(r, "refused") \/ Goes(r, "touch")))
      BY <2>1 DEF Select
    <3> QED
      BY <3>1, AcceptedTypes DEF Sound, Typed
  <2>2. CASE TouchSession(r)
    BY <2>2, AcceptedTypes DEF TouchSession, Sound
  <2>3. CASE TouchAnswerLost(r)
    BY <1>1, <2>3 DEF TouchAnswerLost, Sound, Typed
  <2>4. CASE RevokeSession(r)
    BY <2>4 DEF RevokeSession, Sound, Typed
  <2> QED
    BY <2>1, <2>2, <2>3, <2>4
<1>4. sessions' \in [Logins -> Rows]
  <2>1. \A l \in Logins : Touched(r, sessions[l]) \in Rows /\ Revoked(sessions[l]) \in Rows
    BY RowTypes DEF Sound, Typed
  <2>2. \/ sessions' = sessions
        \/ sessions' = [sessions EXCEPT ![req[r].session] = Touched(r, sessions[req[r].session])]
        \/ sessions' = [sessions EXCEPT ![req[r].session] = Revoked(sessions[req[r].session])]
    BY DEF Select, TouchSession, TouchAnswerLost, RevokeSession, Database
  <2> QED
    BY <2>1, <2>2 DEF Sound, Typed
<1>5. loggedOut' \subseteq Logins \cup {None}
  <2>1. CASE RevokeSession(r)
    BY <2>1 DEF RevokeSession, Sound, Typed, RequestStates
  <2> QED
    BY <2>1 DEF Select, TouchSession, TouchAnswerLost, Sound, Typed
<1> QED
  BY <1>1, <1>2, <1>3, <1>4, <1>5, QueryMoves DEF Sound, Typed, Waits, Answers

LEMMA ArriveSound ==
  ASSUME Sound, NEW r \in Requests, NEW p \in Replicas, Arrive(r, p)
  PROVE  /\ Sound'
         /\ \A q \in Requests \ {r} : req'[q] = req[q]
         /\ req'[r].pc \in {"failed", "select", "hasAdmin"}
         /\ r \in Users => req'[r].session \in Logins /\ At(req'[r].session, "ok") /\ req'[r].at = now
         /\ req'[r].pc = "select" => r \in Users
<1>1. case.ips \subseteq Ips /\ now \in Nat
  BY DashboardAssumption DEF Sound, Typed
<1>2. PICK ip \in case.ips, l \in Logins \cup {None} :
       /\ l # None <=> r \in Users
       /\ l # None => At(l, "ok")
       /\ req' = [req EXCEPT ![r] =
            [pc |-> IF replica[p].init = "failed" THEN "failed"
                    ELSE IF r \in Users THEN "select" ELSE "hasAdmin",
             on |-> p, ip |-> ip, session |-> l, at |-> IF r \in Users THEN now ELSE 0]]
  BY DEF Arrive
<1>3. PICK pc \in {"failed", "select", "hasAdmin"} :
        /\ req' = [req EXCEPT ![r] =
             [pc |-> pc, on |-> p, ip |-> ip, session |-> l, at |-> IF r \in Users THEN now ELSE 0]]
        /\ pc = "select" => r \in Users
  <2>1. CASE replica[p].init = "failed"
    BY <1>2, <2>1
  <2>2. CASE replica[p].init # "failed" /\ r \in Users
    BY <1>2, <2>2
  <2>3. CASE replica[p].init # "failed" /\ r \notin Users
    BY <1>2, <2>3
  <2> QED
    BY <2>1, <2>2, <2>3
<1>4. [pc |-> pc, on |-> p, ip |-> ip, session |-> l, at |-> IF r \in Users THEN now ELSE 0] \in RequestStates
  BY <1>1 DEF RequestStates, Pcs, Waits, Answers
<1>5. /\ req' \in [Requests -> RequestStates]
      /\ \A q \in Requests \ {r} : req'[q] = req[q]
      /\ req'[r] = [pc |-> pc, on |-> p, ip |-> ip, session |-> l, at |-> IF r \in Users THEN now ELSE 0]
  BY <1>3, <1>4 DEF Sound, Typed
<1>6. \A q \in Requests : req'[q].pc \in Waits => req'[q].on \in Replicas /\ req'[q].ip \in Ips
  <2>1. req'[r].on \in Replicas /\ req'[r].ip \in Ips
    BY <1>1, <1>5
  <2> QED
    BY <1>5, <2>1 DEF Sound, Typed
<1>7. Gates'
  <2>1. \A q \in Replicas : On(q, "queued")' = On(q, "queued") /\ On(q, "work")' = On(q, "work")
    BY <1>5 DEF On, At, Arrive
  <2>2. \A q \in Replicas : UNCHANGED <<replica[q].active, replica[q].waiting>>
    BY DEF Arrive
  <2> QED
    BY <2>1, <2>2, SameGate DEF Gates, Sound
<1>8. out' \in [Requests -> SUBSET (Logins \cup {None})]
  BY DEF Arrive, Sound, Typed
<1>9. Typed'
  BY <1>5, <1>6, <1>8, TypedMove DEF Arrive, Sound, Typed, Database, Same
<1> QED
  BY <1>2, <1>3, <1>5, <1>7, <1>9 DEF Sound

LEMMA EmptyGate ==
  /\ Lists(Requests, <<>>, {}) /\ IsFiniteSet({}) /\ Cardinality({}) = 0
  /\ 0 <= Concurrency /\ 0 <= MaxQueue
<1>1. Concurrency \in Nat /\ MaxQueue \in Nat
  BY DashboardAssumption
<1>2. Lists(Requests, <<>>, {})
  BY EmptyList
<1> QED
  BY <1>1, <1>2, FS_EmptySet

LEMMA ReplicaStepsSound ==
  ASSUME Sound, NEW p \in Replicas, Initialize(p) \/ Restart(p)
  PROVE  Sound'
<1>1. CASE Initialize(p)
  <2>1. PICK i \in {"ready", "failed"} : replica' = [replica EXCEPT ![p].init = i]
    BY <1>1 DEF Initialize
  <2>2. PICK x \in ReplicaStates : x = replica[p]
    BY DEF Sound, Typed
  <2>3. [x EXCEPT !.init = i] \in ReplicaStates /\ replica' = [replica EXCEPT ![p] = [x EXCEPT !.init = i]]
    BY <2>1, <2>2 DEF ReplicaStates
  <2>4. /\ replica' \in [Replicas -> ReplicaStates]
        /\ \A q \in Replicas : UNCHANGED <<replica[q].active, replica[q].waiting>>
    BY <2>2, <2>3 DEF Sound, Typed, ReplicaStates
  <2>5. \A q \in Replicas : On(q, "queued")' = On(q, "queued") /\ On(q, "work")' = On(q, "work")
    BY <1>1 DEF On, At, Initialize
  <2>6. Gates'
    BY <2>4, <2>5, SameGate DEF Gates, Sound
  <2>7. Typed'
    BY <1>1, <2>4, TypedMove DEF Initialize, Sound, Typed, Database, history, Same
  <2> QED
    BY <2>6, <2>7 DEF Sound
<1>2. CASE Restart(p)
  <2>1. PICK token \in BOOLEAN : replica' = [replica EXCEPT ![p] = [Fresh EXCEPT !.token = token]]
    BY <1>2 DEF Restart
  <2>2. PICK x \in ReplicaStates : x = [Fresh EXCEPT !.token = token] /\ x.active = 0 /\ x.waiting = <<>>
    <3>0. Fresh \in ReplicaStates /\ Fresh.active = 0 /\ Fresh.waiting = <<>>
      BY DEF Fresh, ReplicaStates
    <3>1. PICK f \in ReplicaStates : f = Fresh /\ f.active = 0 /\ f.waiting = <<>>
      BY <3>0
    <3>2. [f EXCEPT !.token = token] \in ReplicaStates
      BY DEF ReplicaStates
    <3> QED
      BY <3>1, <3>2 DEF ReplicaStates
  <2>3. /\ replica' \in [Replicas -> ReplicaStates]
        /\ replica'[p] = x
        /\ \A q \in Replicas \ {p} : replica'[q] = replica[q]
    BY <2>1, <2>2 DEF Sound, Typed
  <2>4. \A r \in Requests : Went(r, "failed") \in RequestStates /\ Went(r, "failed").pc = "failed"
    BY DEF Went, Answers, Idler, Sound, Typed, RequestStates, Pcs
  <2>5. req' = [r \in Requests |-> IF req[r].on = p /\ req[r].pc \in Waits THEN Went(r, "failed") ELSE req[r]]
    BY <1>2 DEF Restart
  <2>6. /\ req' \in [Requests -> RequestStates]
        /\ \A r \in Requests : req'[r].pc \in Waits => req'[r] = req[r] /\ req[r].on # p
        /\ \A r \in Requests : req[r].pc \in Waits /\ req[r].on # p => req'[r] = req[r]
    BY <2>4, <2>5 DEF Sound, Typed, Waits
  <2>7. \A r \in Requests : req'[r].pc \in Waits => req'[r].on \in Replicas /\ req'[r].ip \in Ips
    BY <2>6 DEF Sound, Typed
  <2>8. /\ \A q \in Replicas \ {p} : On(q, "queued")' = On(q, "queued") /\ On(q, "work")' = On(q, "work")
        /\ On(p, "queued")' = {} /\ On(p, "work")' = {}
    BY <2>6 DEF On, At, Waits
  <2>9. Gate(p)'
    <3>1. Len(<<>>) = 0
      BY EmptySeq
    <3>2. replica'[p].active = 0 /\ replica'[p].waiting = <<>>
      BY <2>2, <2>3
    <3> QED
      BY <2>8, <3>1, <3>2, EmptyGate DEF Gate
  <2>10. \A q \in Replicas \ {p} : Gate(q)'
    BY <2>3, <2>8, SameGate DEF Gates, Sound
  <2>11. Gates'
    BY <2>9, <2>10 DEF Gates
  <2>12. guesses' \in [Replicas -> [Ips -> Seq(Nat)]]
    <3>1. [ip \in Ips |-> <<>>] \in [Ips -> Seq(Nat)]
      OBVIOUS
    <3> QED
      BY <1>2, <3>1 DEF Restart, Sound, Typed
  <2>13. Typed'
    BY <1>2, <2>3, <2>6, <2>7, <2>12 DEF Restart, Sound, Typed, Database
  <2> QED
    BY <2>11, <2>13 DEF Sound
<1> QED
  BY <1>1, <1>2

LEMMA ClockSound ==
  ASSUME Sound, Cleanup \/ Tick \/ UNCHANGED vars
  PROVE  Sound'
<1>1. UNCHANGED <<replica, req>>
  BY DEF Cleanup, Tick, vars
<1>2. Gates'
  <2>1. \A q \in Replicas : On(q, "queued")' = On(q, "queued") /\ On(q, "work")' = On(q, "work")
    BY <1>1 DEF On, At
  <2> QED
    BY <1>1, <2>1, SameGate DEF Gates, Sound
<1>3. CASE Cleanup
  <2>1. sessions' \in [Logins -> Rows]
    <3>1. PICK at \in {now - 1, now} : sessions' = [l \in Logins |->
            IF sessions[l].revoked \/ sessions[l].idle <= at \/ sessions[l].absolute <= at
            THEN NoRow ELSE sessions[l]]
      BY <1>3 DEF Cleanup
    <3>2. NoRow \in Rows
      BY DEF NoRow, Rows
    <3> QED
      BY <3>1, <3>2 DEF Sound, Typed
  <2> QED
    BY <1>2, <1>3, <2>1 DEF Cleanup, Sound, Typed, Same, history
<1>4. CASE Tick \/ UNCHANGED vars
  BY <1>2, <1>4 DEF Tick, Sound, Typed, Database, history, vars
<1> QED
  BY <1>3, <1>4

LEMMA SoundInit == Init => Sound
<1> SUFFICES ASSUME Init PROVE Sound
  OBVIOUS
<1>1. Fresh \in ReplicaStates /\ Fresh.active = 0 /\ Fresh.waiting = <<>>
  BY DEF Fresh, ReplicaStates
<1>2. Idler \in RequestStates /\ Idler.pc = "new" /\ NoRow \in Rows
  BY DEF Idler, RequestStates, Pcs, NoRow, Rows
<1>3. Typed
  BY <1>1, <1>2 DEF Init, Typed, Waits
<1>4. ASSUME NEW p \in Replicas PROVE Gate(p)
  <2>1. On(p, "work") = {} /\ On(p, "queued") = {}
    BY <1>2 DEF On, At, Init
  <2>2. replica[p].active = 0 /\ replica[p].waiting = <<>> /\ Len(<<>>) = 0
    BY <1>1, EmptySeq DEF Init
  <2> QED
    BY <2>1, <2>2, EmptyGate DEF Gate
<1> QED
  BY <1>3, <1>4 DEF Sound, Gates

LEMMA SoundStep == Sound /\ [Next]_vars => Sound'
<1> SUFFICES ASSUME Sound, [Next]_vars PROVE Sound'
  OBVIOUS
<1>1. ASSUME NEW r \in Requests, Answer(r) \/ Fails(r) PROVE Sound'
  <2>1. CASE \/ SetupRefused(r) \/ LoginRefused(r) \/ BodyRefused(r) \/ LoginBody(r) \/ Change(r)
             \/ QueryFails(r) \/ (LoginKnows(r) /\ admin = None)
    BY <2>1, PlainAnswers, OnlyGoesSound
  <2>2. CASE SetupBody(r) \/ (LoginKnows(r) /\ admin # None)
    BY <2>2, ComesToGate, EnterSound
  <2>3. CASE SetupChecked(r) \/ LoginChecked(r)
    BY <2>3, CheckedSound
  <2>4. CASE SetupCreates(r) \/ SetupAnswerLost(r)
    BY <2>4, CreatesAdminSound
  <2>5. CASE LoginCreates(r) \/ LoginAnswerLost(r)
    BY <2>5, CreatesSessionSound
  <2>6. CASE Select(r) \/ TouchSession(r) \/ TouchAnswerLost(r) \/ RevokeSession(r)
    BY <2>6, SessionStepsSound
  <2>7. CASE QueueTimeout(r)
    BY <2>7, QueueTimeoutSound
  <2>8. CASE Worked(r)
    BY <2>8, WorkedSound
  <2> QED
    BY <1>1, <2>1, <2>2, <2>3, <2>4, <2>5, <2>6, <2>7, <2>8 DEF Answer, Fails
<1> QED
  BY <1>1, ArriveSound, ReplicaStepsSound, ClockSound DEF Next

LEMMA SoundAlways == Spec => []Sound
BY SoundInit, SoundStep, PTL DEF Spec

-----------------------------------------------------------------------------
(* The limiters *)

\* A limiter remembers an address once, and no more than it may.
LimiterOK(L) ==
  /\ IsFiniteSet(L) /\ Cardinality(L) <= MaxKeys
  /\ \A e, f \in L : e.ip = f.ip => e = f

LEMMA FewerEntries ==
  ASSUME NEW L, LimiterOK(L), NEW M \in SUBSET L
  PROVE  LimiterOK(M)
<1>1. IsFiniteSet(M) /\ Cardinality(M) <= Cardinality(L)
  BY FS_Subset DEF LimiterOK
<1>2. Cardinality(M) \in Nat /\ Cardinality(L) \in Nat
  BY <1>1, FS_CardinalityType DEF LimiterOK
<1> QED
  BY <1>1, <1>2, DashboardAssumption DEF LimiterOK

\* check() makes room before it remembers another address.
LEMMA CheckOK ==
  ASSUME Typed, NEW L \in SUBSET Entries, LimiterOK(L), NEW ip \in Ips, NEW maximum \in Nat,
         NEW c \in Check(L, ip, maximum)
  PROVE  LimiterOK(c.entries)
<1> DEFINE current == EntryOf(L, ip)
           first == [ip |-> ip, count |-> 1, resetAt |-> now + Window]
<1>1. /\ IsFiniteSet(L) /\ Cardinality(L) \in Nat /\ Cardinality(L) <= MaxKeys
      /\ MaxKeys \in Nat \ {0}
  BY FS_CardinalityType, DashboardAssumption DEF LimiterOK
\* Entries of other addresses leave room for one of this address.
<1>2. ASSUME NEW M \in SUBSET L, EntryOf(M, ip) = {}, Cardinality(M) < MaxKeys, NEW e, e.ip = ip
      PROVE  LimiterOK(M \cup {e})
  <2>1. IsFiniteSet(M) /\ Cardinality(M) \in Nat
    BY <1>1, FS_Subset, FS_CardinalityType
  <2>2. IsFiniteSet(M \cup {e}) /\ Cardinality(M \cup {e}) <= Cardinality(M) + 1
    <3>1. /\ IsFiniteSet(M \cup {e})
          /\ Cardinality(M \cup {e}) = IF e \in M THEN Cardinality(M) ELSE Cardinality(M) + 1
      BY <2>1, FS_AddElement
    <3> QED
      BY <2>1, <3>1
  <2>3. Cardinality(M \cup {e}) \in Nat
    BY <2>2, FS_CardinalityType
  <2>4. \A f \in M : f.ip # ip
    BY <1>2 DEF EntryOf
  <2> QED
    BY <1>1, <1>2, <2>1, <2>2, <2>3, <2>4 DEF LimiterOK
\* Without an entry there is one entry fewer.
<1>3. ASSUME NEW e \in L PROVE Cardinality(L \ {e}) < MaxKeys
  <2>1. Cardinality(L \ {e}) = Cardinality(L) - 1
    BY <1>1, FS_RemoveElement, Zenon
  <2> QED
    BY <1>1, <2>1
<1>4. ASSUME NEW M \in SUBSET L PROVE Cardinality(M) \in Nat /\ Cardinality(M) <= Cardinality(L)
  BY <1>1, FS_Subset, FS_CardinalityType
<1>5. Cardinality(L \ current) < MaxKeys \/ current = {}
  <2>1. ASSUME NEW e \in current PROVE Cardinality(L \ current) < MaxKeys
    <3>1. current = {e}
      BY <2>1 DEF EntryOf, LimiterOK
    <3> QED
      BY <1>3, <2>1, <3>1 DEF EntryOf
  <2> QED
    BY <2>1
<1>6. CASE current \cap Expired(L) = current
  <2>1. PICK M \in IF current = {} /\ Cardinality(L) >= MaxKeys THEN Evictions(L) ELSE {L \ current} :
          c = [entries |-> M \cup {first}, allowed |-> TRUE]
    BY <1>6 DEF Check
  <2>2. CASE current = {} /\ Cardinality(L) >= MaxKeys
    <3>1. M \in Evictions(L) /\ EntryOf(L, ip) = {}
      BY <2>1, <2>2
    <3>2. M \in SUBSET L /\ Cardinality(M) < MaxKeys
      BY <1>3, <3>1 DEF Evictions
    <3>3. EntryOf(M, ip) = {}
      BY <3>1, <3>2 DEF EntryOf
    <3> QED
      BY <1>2, <2>1, <3>2, <3>3
  <2>3. CASE ~(current = {} /\ Cardinality(L) >= MaxKeys)
    <3>1. M = L \ current
      BY <2>1, <2>3
    <3>2. EntryOf(M, ip) = {} /\ M \in SUBSET L
      BY <3>1 DEF EntryOf
    <3>3. Cardinality(M) < MaxKeys
      BY <1>1, <1>5, <2>3, <3>1
    <3> QED
      BY <1>2, <2>1, <3>2, <3>3
  <2> QED
    BY <2>2, <2>3
<1>7. CASE current \cap Expired(L) # current
  <2> DEFINE e == CHOOSE e \in current : TRUE
             n == Min({maximum + 1, e.count + 1})
  <2>1. e \in current /\ e \in Entries /\ e.ip = ip
    BY <1>7 DEF EntryOf
  <2>2. c = [entries |-> (L \ current) \cup {[e EXCEPT !.count = n]}, allowed |-> e.count < maximum]
    BY <1>7 DEF Check
  <2> HIDE DEF e, n
  <2>3. [e EXCEPT !.count = n].ip = ip
    BY <2>1 DEF Entries
  <2>4. EntryOf(L \ current, ip) = {} /\ L \ current \in SUBSET L
    BY DEF EntryOf
  <2>5. Cardinality(L \ current) < MaxKeys
    BY <1>5, <2>1
  <2> QED
    BY <1>2, <2>2, <2>3, <2>4, <2>5
<1> QED
  BY <1>6, <1>7

Limiters == \A p \in Replicas : LimiterOK(replica[p].setups) /\ LimiterOK(replica[p].logins)

\* What the limiters, and the guesses they let pass, depend on.
LEMMA Limited ==
  ASSUME Sound, [Next]_vars
  PROVE  \/ /\ \A p \in Replicas : UNCHANGED <<replica[p].setups, replica[p].logins>>
            /\ UNCHANGED guesses
         \/ \E r \in Requests : SetupChecked(r) \/ LoginChecked(r) \/ SetupCreates(r) \/ LoginCreates(r)
         \/ \E p \in Replicas : Restart(p)
<1> DEFINE Alone == /\ \A p \in Replicas : UNCHANGED <<replica[p].setups, replica[p].logins>>
                    /\ UNCHANGED guesses
<1>1. ASSUME NEW r \in Requests, Answer(r) \/ Fails(r),
             ~(SetupChecked(r) \/ LoginChecked(r) \/ SetupCreates(r) \/ LoginCreates(r))
      PROVE  Alone
  <2>1. CASE UNCHANGED <<replica, guesses>>
    BY <2>1
  <2>2. CASE SetupBody(r) \/ LoginKnows(r)
    <3>1. CASE UNCHANGED <<replica, guesses>>
      BY <3>1
    <3>2. CASE Enters(r) /\ UNCHANGED guesses
      BY <2>2, <3>2, Enter DEF Beside, Sound, SetupBody, LoginKnows, At, Waits
    <3> QED
      BY <2>2, <3>1, <3>2 DEF SetupBody, LoginKnows, history
  <2>3. CASE QueueTimeout(r)
    BY <2>3, GiveUp DEF Beside, Sound, QueueTimeout, history
  <2>4. CASE Worked(r)
    <3>1. PICK pc \in {"create", "failed", "refused"} : At(r, "work") /\ Leaves(r, pc)
      BY <2>4 DEF Worked
    <3> QED
      BY <2>4, <3>1, Leave DEF Beside, Sound, Worked, history
  <2>5. CASE \/ SetupRefused(r) \/ LoginRefused(r) \/ BodyRefused(r) \/ LoginBody(r) \/ Change(r) \/ QueryFails(r)
    BY <2>1, <2>5 DEF SetupRefused, LoginRefused, BodyRefused, LoginBody, Change, QueryFails, history
  <2>6. CASE \/ Select(r) \/ TouchSession(r) \/ RevokeSession(r)
             \/ SetupAnswerLost(r) \/ LoginAnswerLost(r) \/ TouchAnswerLost(r)
    BY <2>1, <2>6
       DEF Select, TouchSession, RevokeSession, SetupAnswerLost, LoginAnswerLost, TouchAnswerLost, history
  <2> QED
    BY <1>1, <2>2, <2>3, <2>4, <2>5, <2>6 DEF Answer, Fails
<1>2. ASSUME NEW p \in Replicas, Initialize(p) PROVE Alone
  <2>1. PICK i : replica' = [replica EXCEPT ![p].init = i]
    BY <1>2 DEF Initialize
  <2> QED
    BY <1>2, <2>1 DEF Initialize, history, Sound, Typed, ReplicaStates
<1>3. ASSUME NEW r \in Requests, NEW p \in Replicas, Arrive(r, p) PROVE Alone
  BY <1>3 DEF Arrive
<1>4. ASSUME Cleanup \/ Tick \/ UNCHANGED vars PROVE Alone
  BY <1>4 DEF Cleanup, Tick, vars, history
<1> QED
  BY <1>1, <1>2, <1>3, <1>4 DEF Next

LEMMA LimitersStep ==
  ASSUME Sound, Limiters, [Next]_vars
  PROVE  Limiters'
<1>1. ASSUME NEW p \in Replicas, NEW L \in SUBSET replica[p].setups, NEW M \in SUBSET replica[p].logins
      PROVE  LimiterOK(L) /\ LimiterOK(M)
  BY <1>1, FewerEntries DEF Limiters
<1>2. CASE \A p \in Replicas : UNCHANGED <<replica[p].setups, replica[p].logins>>
  BY <1>2 DEF Limiters
<1>3. ASSUME NEW r \in Requests, SetupChecked(r) \/ LoginChecked(r) \/ SetupCreates(r) \/ LoginCreates(r)
      PROVE  Limiters'
  <2>1. PICK p \in Replicas : p = req[r].on
    BY <1>3 DEF Sound, Typed, SetupChecked, LoginChecked, SetupCreates, LoginCreates, At, Waits
  <2>2. PICK x \in ReplicaStates : x = replica[p]
    BY DEF Sound, Typed
  <2>3. req[r].ip \in Ips /\ MaxSetups \in Nat /\ MaxLogins \in Nat
    BY <1>3, DashboardAssumption
       DEF Sound, Typed, SetupChecked, LoginChecked, SetupCreates, LoginCreates, At, Waits
  <2>4. LimiterOK(x.setups) /\ LimiterOK(x.logins) /\ x.setups \in SUBSET Entries /\ x.logins \in SUBSET Entries
    BY <2>2 DEF Limiters, ReplicaStates
  <2>5. PICK S, L : /\ LimiterOK(S) /\ LimiterOK(L)
                    /\ replica'[p].setups = S /\ replica'[p].logins = L
                    /\ \A q \in Replicas \ {p} : replica'[q] = replica[q]
    <3>1. CASE SetupChecked(r)
      <4>1. PICK c \in Check(x.setups, req[r].ip, MaxSetups) : replica' = [replica EXCEPT ![p].setups = c.entries]
        BY <2>1, <2>2, <3>1 DEF SetupChecked, Here
      <4>2. LimiterOK(c.entries)
        BY <2>3, <2>4, CheckOK DEF Sound
      <4> QED
        BY <2>2, <2>4, <4>1, <4>2 DEF Sound, Typed, ReplicaStates
    <3>2. CASE LoginChecked(r)
      <4>1. PICK c \in Check(x.logins, req[r].ip, MaxLogins) : replica' = [replica EXCEPT ![p].logins = c.entries]
        BY <2>1, <2>2, <3>2 DEF LoginChecked, Here
      <4>2. LimiterOK(c.entries)
        BY <2>3, <2>4, CheckOK DEF Sound
      <4> QED
        BY <2>2, <2>4, <4>1, <4>2 DEF Sound, Typed, ReplicaStates
    <3>3. CASE SetupCreates(r)
      <4>1. CASE UNCHANGED replica
        BY <2>2, <2>4, <4>1
      <4>2. CASE replica' = [replica EXCEPT ![p].token = FALSE, ![p].setups = @ \ EntryOf(@, req[r].ip)]
        <5>1. replica' = [replica EXCEPT ![p] =
                [x EXCEPT !.token = FALSE, !.setups = x.setups \ EntryOf(x.setups, req[r].ip)]]
          BY <2>2, <4>2 DEF ReplicaStates, Sound, Typed
        <5>2. LimiterOK(x.setups \ EntryOf(x.setups, req[r].ip))
          BY <2>4, FewerEntries
        <5> QED
          BY <2>4, <5>1, <5>2 DEF Sound, Typed, ReplicaStates
      <4> QED
        BY <2>1, <3>3, <4>1, <4>2 DEF SetupCreates
    <3>4. CASE LoginCreates(r)
      <4>1. replica' = [replica EXCEPT ![p].logins = @ \ EntryOf(@, req[r].ip)]
        BY <2>1, <3>4 DEF LoginCreates
      <4>2. LimiterOK(x.logins \ EntryOf(x.logins, req[r].ip))
        BY <2>4, FewerEntries
      <4> QED
        BY <2>2, <2>4, <4>1, <4>2 DEF Sound, Typed, ReplicaStates
    <3> QED
      BY <1>3, <3>1, <3>2, <3>3, <3>4
  <2> QED
    BY <2>5 DEF Limiters
<1>4. ASSUME NEW p \in Replicas, Restart(p) PROVE Limiters'
  <2>1. PICK token \in BOOLEAN : replica' = [replica EXCEPT ![p] = [Fresh EXCEPT !.token = token]]
    BY <1>4 DEF Restart
  <2>2. replica'[p].setups = {} /\ replica'[p].logins = {} /\ \A q \in Replicas \ {p} : replica'[q] = replica[q]
    BY <2>1 DEF Fresh, Sound, Typed
  <2>3. LimiterOK({})
    BY FS_EmptySet, DashboardAssumption DEF LimiterOK
  <2> QED
    BY <2>2, <2>3 DEF Limiters
<1> QED
  BY <1>2, <1>3, <1>4, Limited

\* What becomes of a row: it is created, touched, revoked or removed.
LEMMA RowSteps ==
  ASSUME Sound, [Next]_vars, NEW l \in Logins
  PROVE  \/ sessions'[l] = sessions[l]
         \/ (LoginCreates(l) \/ LoginAnswerLost(l)) /\ CreateSession(l)
         \/ \E r \in Requests : /\ TouchSession(r) \/ TouchAnswerLost(r)
                                /\ req[r].session = l /\ sessions'[l] = Touched(r, sessions[l])
         \/ \E r \in Requests : RevokeSession(r) /\ req[r].session = l /\ sessions'[l] = Revoked(sessions[l])
         \/ /\ Cleanup /\ sessions'[l] = NoRow
            /\ \E at \in {now - 1, now} :
                 sessions[l].revoked \/ sessions[l].idle <= at \/ sessions[l].absolute <= at
<1> DEFINE Goal == \/ sessions'[l] = sessions[l]
                   \/ (LoginCreates(l) \/ LoginAnswerLost(l)) /\ CreateSession(l)
                   \/ \E r \in Requests : /\ TouchSession(r) \/ TouchAnswerLost(r)
                                          /\ req[r].session = l /\ sessions'[l] = Touched(r, sessions[l])
                   \/ \E r \in Requests : RevokeSession(r) /\ req[r].session = l /\ sessions'[l] = Revoked(sessions[l])
                   \/ /\ Cleanup /\ sessions'[l] = NoRow
                      /\ \E at \in {now - 1, now} :
                           sessions[l].revoked \/ sessions[l].idle <= at \/ sessions[l].absolute <= at
<1>1. ASSUME NEW r \in Requests, Answer(r) \/ Fails(r) PROVE Goal
  <2>1. CASE UNCHANGED sessions
    BY <2>1
  <2>2. CASE LoginCreates(r) \/ LoginAnswerLost(r)
    <3>1. CreateSession(r) /\ r \in Logins
      BY <2>2 DEF LoginCreates, LoginAnswerLost
    <3>2. CASE r = l
      BY <2>2, <3>1, <3>2
    <3>3. CASE r # l
      BY <3>1, <3>3 DEF CreateSession, Sound, Typed
    <3> QED
      BY <3>2, <3>3
  <2>3. CASE TouchSession(r) \/ TouchAnswerLost(r)
    <3>1. sessions' = [sessions EXCEPT ![req[r].session] = Touched(r, sessions[req[r].session])]
      BY <2>3 DEF TouchSession, TouchAnswerLost
    <3>2. CASE req[r].session = l
      BY <2>3, <3>1, <3>2 DEF Sound, Typed
    <3>3. CASE req[r].session # l
      BY <3>1, <3>3 DEF Sound, Typed
    <3> QED
      BY <3>2, <3>3
  <2>4. CASE RevokeSession(r)
    <3>1. sessions' = [sessions EXCEPT ![req[r].session] = Revoked(sessions[req[r].session])]
      BY <2>4 DEF RevokeSession
    <3>2. CASE req[r].session = l
      BY <2>4, <3>1, <3>2 DEF Sound, Typed
    <3>3. CASE req[r].session # l
      BY <3>1, <3>3 DEF Sound, Typed
    <3> QED
      BY <3>2, <3>3
  <2>5. CASE \/ SetupRefused(r) \/ LoginRefused(r) \/ BodyRefused(r) \/ LoginBody(r) \/ Change(r) \/ QueryFails(r)
             \/ SetupChecked(r) \/ LoginChecked(r) \/ SetupBody(r) \/ LoginKnows(r) \/ QueueTimeout(r) \/ Worked(r)
    BY <2>1, <2>5 DEF SetupRefused, LoginRefused, BodyRefused, LoginBody, Change, QueryFails, Database,
       SetupChecked, LoginChecked, SetupBody, LoginKnows, QueueTimeout, Worked
  <2>6. CASE SetupCreates(r) \/ SetupAnswerLost(r) \/ Select(r)
    BY <2>1, <2>6 DEF SetupCreates, SetupAnswerLost, Select, Database
  <2> HIDE DEF Goal
  <2> QED
    BY <1>1, <2>2, <2>3, <2>4, <2>5, <2>6 DEF Answer, Fails
<1>2. ASSUME Cleanup PROVE Goal
  <2>1. PICK at \in {now - 1, now} : sessions' = [k \in Logins |->
          IF sessions[k].revoked \/ sessions[k].idle <= at \/ sessions[k].absolute <= at
          THEN NoRow ELSE sessions[k]]
    BY <1>2 DEF Cleanup
  <2>2. CASE sessions[l].revoked \/ sessions[l].idle <= at \/ sessions[l].absolute <= at
    BY <1>2, <2>1, <2>2
  <2>3. CASE ~(sessions[l].revoked \/ sessions[l].idle <= at \/ sessions[l].absolute <= at)
    BY <2>1, <2>3
  <2> QED
    BY <2>2, <2>3
<1>3. ASSUME UNCHANGED sessions PROVE Goal
  BY <1>3
<1>4. ASSUME NEW p \in Replicas, NEW r \in Requests, Arrive(r, p) PROVE UNCHANGED sessions
  BY <1>4 DEF Arrive, Database
<1>5. ASSUME (\E p \in Replicas : Initialize(p) \/ Restart(p)) \/ Tick \/ UNCHANGED vars PROVE UNCHANGED sessions
  BY <1>5 DEF Initialize, Restart, Tick, vars, Database
<1> HIDE DEF Goal
<1>6. Goal
  BY <1>1, <1>2, <1>3, <1>4, <1>5 DEF Next
<1> QED
  BY <1>6 DEF Goal

\* No row outlives its absolute time.
Ends == \A l \in Logins : sessions[l].idle <= sessions[l].absolute

LEMMA EndsStep ==
  ASSUME Sound, Ends, [Next]_vars
  PROVE  Ends'
<1> SUFFICES ASSUME NEW l \in Logins PROVE sessions'[l].idle <= sessions'[l].absolute
  BY DEF Ends
<1>1. sessions[l] \in Rows /\ sessions[l].idle <= sessions[l].absolute /\ NoRow.idle <= NoRow.absolute
  BY DEF Ends, Sound, Typed, NoRow
<1>2. ASSUME NEW r \in Requests
      PROVE  Touched(r, sessions[l]).idle <= Touched(r, sessions[l]).absolute
  <2>1. sessions[l].absolute \in Int /\ req[r].at + Idle \in Int
    BY SMTT(30), <1>1, DashboardAssumption DEF Sound, Typed, Rows, RequestStates
  <2>2. Min({sessions[l].absolute, req[r].at + Idle}) <= sessions[l].absolute
    BY <2>1, Extremes
  <2>3. PICK row \in Rows : row = sessions[l]
    BY <1>1
  <2>4. \A m, a \in Int : m <= row.absolute =>
          [row EXCEPT !.seen = a, !.idle = m].idle <= [row EXCEPT !.seen = a, !.idle = m].absolute
    BY DEF Rows
  <2>5. Min({sessions[l].absolute, req[r].at + Idle}) \in Int
    BY <2>1, Extremes
  <2>6. req[r].at \in Int
    BY DEF Sound, Typed, RequestStates
  <2> QED
    BY <1>1, <2>2, <2>3, <2>4, <2>5, <2>6 DEF Touched
<1>3. Revoked(sessions[l]).idle <= Revoked(sessions[l]).absolute
  BY <1>1 DEF Revoked, Rows
<1>4. ASSUME LoginCreates(l) \/ LoginAnswerLost(l), CreateSession(l)
      PROVE  sessions'[l].idle <= sessions'[l].absolute
  <2>1. req[l].at + Absolute \in Int /\ req[l].at + Idle \in Int
    BY DashboardAssumption DEF Sound, Typed, RequestStates, Requests
  <2>2. Min({req[l].at + Absolute, req[l].at + Idle}) <= req[l].at + Absolute
    BY <2>1, Extremes
  <2>3. /\ sessions'[l].idle = Min({req[l].at + Absolute, req[l].at + Idle})
        /\ sessions'[l].absolute = req[l].at + Absolute
    BY <1>4 DEF CreateSession, Sound, Typed
  <2> QED
    BY <2>2, <2>3
<1> QED
  BY <1>1, <1>2, <1>3, <1>4, RowSteps

\* What TypeOK and GateAccounted ask for, from the types and the books.
LEMMA LimitsFollow == Sound /\ Limiters /\ Ends => LimitsHold
<1> SUFFICES ASSUME Sound, Limiters, Ends PROVE LimitsHold
  OBVIOUS
<1>1. TypeOK
  <2>1. /\ admin \in Setups \cup {"before", None}
        /\ \A r \in Requests : req[r].pc \in {"new"} \cup Waits \cup Answers
    BY DEF Sound, Typed, RequestStates, Pcs
  <2>2. \A p \in Replicas :
          /\ replica[p].init \in {"pending", "ready", "failed"} /\ replica[p].token \in BOOLEAN
          /\ replica[p].active \in Nat /\ replica[p].waiting \in Seq(Requests)
    BY DEF Sound, Typed, ReplicaStates
  <2>3. \A p \in Replicas : \A L \in {replica[p].setups, replica[p].logins} :
          Cardinality(L) <= MaxKeys /\ \A e, f \in L : e.ip = f.ip => e = f
    BY DEF Limiters, LimiterOK
  <2>4. \A l \in Logins : sessions[l].idle <= sessions[l].absolute /\ sessions[l].revoked \in BOOLEAN
    BY DEF Ends, Sound, Typed, Rows
  <2> QED
    BY <2>1, <2>2, <2>3, <2>4 DEF TypeOK
<1>2. ASSUME NEW p \in Replicas
      PROVE  /\ replica[p].active = Cardinality(On(p, "work")) /\ replica[p].active <= Concurrency
             /\ Range(replica[p].waiting) = On(p, "queued")
             /\ Len(replica[p].waiting) = Cardinality(On(p, "queued")) /\ Len(replica[p].waiting) <= MaxQueue
             /\ replica[p].waiting # <<>> => replica[p].active = Concurrency
  <2>1. Gate(p)
    BY DEF Sound, Gates
  <2>2. Cardinality(On(p, "queued")) = Len(replica[p].waiting)
    BY <2>1, LengthOfList DEF Gate
  <2>3. Range(replica[p].waiting) = On(p, "queued")
    <3>1. Lists(Requests, replica[p].waiting, On(p, "queued"))
      BY <2>1 DEF Gate
    <3>2. \A i \in DOMAIN replica[p].waiting : replica[p].waiting[i] \in Requests
      BY <3>1, LenProperties, ElementOfSeq DEF Lists
    <3> QED
      BY <3>1, <3>2 DEF Lists, Range
  <2> QED
    BY <2>1, <2>2, <2>3 DEF Gate
<1>3. GateAccounted
  BY <1>2 DEF GateAccounted, On
<1> QED
  BY <1>1, <1>3 DEF LimitsHold

\* The state is typed; each limiter remembers at most MaxKeys addresses, each once;
\* no session's idle end is after its absolute one; and each gate hashes for those who
\* hold a slot and no others, lets the others wait in its queue once each, within its
\* limits, and lets nobody wait while a slot is free.
THEOREM LimitsAreHeld == Spec => []LimitsHold
<1>1. Init => Limiters /\ Ends
  <2> SUFFICES ASSUME Init PROVE Limiters /\ Ends
    OBVIOUS
  <2>1. \A p \in Replicas : replica[p].setups = {} /\ replica[p].logins = {}
    BY DEF Init, Fresh
  <2>2. LimiterOK({})
    BY FS_EmptySet, DashboardAssumption DEF LimiterOK
  <2>3. \A l \in Logins : sessions[l].idle = 0 /\ sessions[l].absolute = 0
    BY DEF Init, NoRow
  <2>4. Ends
    BY <2>3 DEF Ends
  <2>5. Limiters
    BY <2>1, <2>2, Zenon DEF Limiters
  <2> QED
    BY <2>4, <2>5
<1>2. Sound /\ Limiters /\ Ends /\ [Next]_vars => Limiters' /\ Ends'
  BY LimitersStep, EndsStep
<1> QED
  BY <1>1, <1>2, SoundAlways, LimitsFollow, PTL DEF Spec

-----------------------------------------------------------------------------
(* One administrator *)

\* Whoever is in line for createAdmin() is not the administrator yet.
AdminAnswered == admin \in Setups => req[admin].pc \in Answers

\* A request's own step, and what it makes of the others.
LEMMA Moves ==
  ASSUME Sound, NEW r \in Requests, Answer(r) \/ Fails(r)
  PROVE  /\ req[r].pc \in Waits
         /\ req'[r].session = req[r].session
         /\ \A q \in Requests \ {r} :
              req'[q] = req[q] \/ (At(q, "queued") /\ req'[q] = [req[q] EXCEPT !.pc = "work"])
<1>1. ASSUME NEW pc \in Waits \cup Answers, Goes(r, pc), req[r].pc \in Waits
      PROVE  /\ req'[r].session = req[r].session
             /\ \A q \in Requests \ {r} : req'[q] = req[q]
  BY <1>1, GoesOn DEF Sound
<1>2. CASE \/ SetupRefused(r) \/ LoginRefused(r) \/ BodyRefused(r) \/ LoginBody(r) \/ Change(r)
           \/ QueryFails(r) \/ (LoginKnows(r) /\ admin = None)
  BY <1>1, <1>2, PlainAnswers DEF OnlyGoes, Waits, Answers
<1>3. CASE SetupBody(r) \/ (LoginKnows(r) /\ admin # None)
  <2>1. req[r].pc \in Waits \ {"queued", "work"} /\ Enters(r)
    BY <1>3, ComesToGate
  <2>2. PICK pc \in {"work", "queued", "failed"} : Goes(r, pc)
    BY <2>1, Enter DEF Sound
  <2> QED
    BY <1>1, <2>1, <2>2 DEF Waits, Answers
<1>4. CASE QueueTimeout(r)
  BY <1>1, <1>4, GiveUp DEF Sound, Answers
<1>5. CASE Worked(r)
  <2>1. PICK pc \in {"create", "failed", "refused"} : At(r, "work") /\ Leaves(r, pc)
    BY <1>5 DEF Worked
  <2>2. Timed(r, pc).session = req[r].session
    <3>1. req[r] \in RequestStates
      BY DEF Sound, Typed
    <3> QED
      BY <3>1 DEF Timed, Went, RequestStates, Answers, Idler
  <2>3. req[r].pc \in Waits
    BY <2>1 DEF At, Waits
  <2> QED
    BY <2>1, <2>2, <2>3, Leave DEF Sound
<1>6. CASE SetupChecked(r) \/ LoginChecked(r)
  <2>1. (\E pc \in {"body", "refused"} : Goes(r, pc)) /\ req[r].pc = "hasAdmin"
    BY <1>6 DEF SetupChecked, LoginChecked, At
  <2> QED
    BY <1>1, <2>1 DEF Waits, Answers
<1>7. CASE SetupCreates(r) \/ SetupAnswerLost(r) \/ LoginCreates(r) \/ LoginAnswerLost(r)
  <2>1. (\E pc \in Answers : Goes(r, pc)) /\ req[r].pc = "create"
    BY <1>7 DEF SetupCreates, SetupAnswerLost, LoginCreates, LoginAnswerLost, At, Answers
  <2> QED
    BY <1>1, <2>1 DEF Waits
<1>8. CASE Select(r) \/ TouchSession(r) \/ TouchAnswerLost(r) \/ RevokeSession(r)
  <2>1. req[r].pc \in {"select", "touch", "revoke"}
    BY <1>8 DEF Select, TouchSession, TouchAnswerLost, RevokeSession, At
  <2>2. Accepted(r) \/ \E pc \in {"refused", "touch", "failed", "ok"} : Goes(r, pc)
    BY <1>8 DEF Select, TouchSession, TouchAnswerLost, RevokeSession
  <2>3. \E pc \in {"ok", "revoke", "body", "refused", "touch", "failed"} : Goes(r, pc)
    BY <2>2 DEF Accepted
  <2> QED
    BY <1>1, <2>1, <2>3 DEF Waits, Answers
<1> QED
  BY <1>2, <1>3, <1>4, <1>5, <1>6, <1>7, <1>8 DEF Answer, Fails

\* What a step makes of a request, unless it is the request's own.
LEMMA RequestSteps ==
  ASSUME Sound, [Next]_vars, NEW q \in Requests
  PROVE  \/ req'[q] = req[q]
         \/ Answer(q) \/ Fails(q)
         \/ \E p \in Replicas : Arrive(q, p)
         \/ At(q, "queued") /\ req'[q] = [req[q] EXCEPT !.pc = "work"]
         \/ /\ req[q].pc \in Waits /\ req'[q].pc = "failed" /\ req'[q].session = req[q].session
            /\ \E p \in Replicas : Restart(p)
<1> DEFINE Goal == \/ req'[q] = req[q]
                   \/ Answer(q) \/ Fails(q)
                   \/ \E p \in Replicas : Arrive(q, p)
                   \/ At(q, "queued") /\ req'[q] = [req[q] EXCEPT !.pc = "work"]
                   \/ /\ req[q].pc \in Waits /\ req'[q].pc = "failed" /\ req'[q].session = req[q].session
                      /\ \E p \in Replicas : Restart(p)
<1>1. ASSUME NEW r \in Requests, Answer(r) \/ Fails(r) PROVE Goal
  BY <1>1, Moves
<1>2. ASSUME NEW r \in Requests, NEW p \in Replicas, Arrive(r, p) PROVE Goal
  BY <1>2, ArriveSound
<1>3. ASSUME NEW p \in Replicas, Restart(p) PROVE Goal
  <2>1. req'[q] = IF req[q].on = p /\ req[q].pc \in Waits THEN Went(q, "failed") ELSE req[q]
    BY <1>3 DEF Restart
  <2>2. Went(q, "failed").pc = "failed" /\ Went(q, "failed").session = req[q].session
    BY DEF Went, Answers, Idler
  <2> QED
    BY <1>3, <2>1, <2>2
<1>4. ASSUME UNCHANGED req PROVE Goal
  BY <1>4
<1>5. ASSUME NEW p \in Replicas, Initialize(p) PROVE UNCHANGED req
  BY <1>5 DEF Initialize
<1>6. ASSUME Cleanup \/ Tick \/ UNCHANGED vars PROVE UNCHANGED req
  BY <1>6 DEF Cleanup, Tick, vars
<1> HIDE DEF Goal
<1>7. Goal
  BY <1>1, <1>2, <1>3, <1>4, <1>5, <1>6 DEF Next
<1> QED
  BY <1>7 DEF Goal

\* An answer is final.
LEMMA Final ==
  ASSUME Sound, [Next]_vars, NEW q \in Requests, req[q].pc \in Answers
  PROVE  req'[q] = req[q]
<1>1. req[q].pc \notin Waits /\ ~At(q, "queued") /\ ~At(q, "new")
  BY DEF Answers, Waits, At
<1>2. \A p \in Replicas : ~Arrive(q, p)
  BY <1>1 DEF Arrive
<1> QED
  BY <1>1, <1>2, RequestSteps, Moves

LEMMA AdminSteps ==
  ASSUME Sound, AdminAnswered, [Next]_vars
  PROVE  /\ AdminAnswered'
         /\ admin # None => admin' = admin
         /\ \A r \in Setups : At(r, "create") /\ req'[r].pc = "ok" => admin = None /\ admin' = r
<1>1. admin' = admin \/ \E r \in Requests : SetupCreates(r) \/ SetupAnswerLost(r)
  <2>1. ASSUME NEW r \in Requests, Answer(r) \/ Fails(r), ~(SetupCreates(r) \/ SetupAnswerLost(r))
        PROVE  admin' = admin
    <3>1. CASE \/ SetupRefused(r) \/ LoginRefused(r) \/ BodyRefused(r) \/ LoginBody(r) \/ Change(r) \/ QueryFails(r)
               \/ SetupChecked(r) \/ LoginChecked(r) \/ SetupBody(r) \/ LoginKnows(r) \/ QueueTimeout(r) \/ Worked(r)
      BY <3>1 DEF SetupRefused, LoginRefused, BodyRefused, LoginBody, Change, QueryFails, Database,
         SetupChecked, LoginChecked, SetupBody, LoginKnows, QueueTimeout, Worked
    <3>2. CASE \/ LoginCreates(r) \/ LoginAnswerLost(r) \/ Select(r) \/ TouchSession(r) \/ TouchAnswerLost(r)
               \/ RevokeSession(r)
      BY <3>2 DEF LoginCreates, LoginAnswerLost, Select, TouchSession, TouchAnswerLost, RevokeSession, Database
    <3> QED
      BY <2>1, <3>1, <3>2 DEF Answer, Fails
  <2>2. ASSUME NEW p \in Replicas, NEW r \in Requests, Arrive(r, p) PROVE admin' = admin
    BY <2>2 DEF Arrive, Database
  <2>3. ASSUME (\E p \in Replicas : Initialize(p) \/ Restart(p)) \/ Cleanup \/ Tick \/ UNCHANGED vars
        PROVE  admin' = admin
    BY <2>3 DEF Initialize, Restart, Cleanup, Tick, vars, Database
  <2> QED
    BY <2>1, <2>2, <2>3 DEF Next
\* Who creates the administrator is answered by the same step.
<1>2. ASSUME NEW r \in Requests, SetupCreates(r) \/ SetupAnswerLost(r)
      PROVE  /\ r \in Setups /\ At(r, "create")
             /\ admin' = IF admin = None THEN r ELSE admin
             /\ req'[r].pc \in Answers
             /\ req'[r].pc = "ok" => admin' = r
  <2>1. /\ r \in Setups /\ At(r, "create") /\ req[r].pc \in Waits
        /\ admin' = IF admin = None THEN r ELSE admin
    BY <1>2 DEF SetupCreates, SetupAnswerLost, CreateAdmin, At, Waits
  <2>2. \E pc \in Answers : Goes(r, pc) /\ (pc = "ok" => admin' = r)
    BY <1>2 DEF SetupCreates, SetupAnswerLost, Answers
  <2> QED
    BY <2>1, <2>2, GoesOn DEF Sound
<1>3. admin # None => admin' = admin
  BY <1>1, <1>2
<1>4. AdminAnswered'
  <2>1. CASE admin' = admin
    BY <2>1, Final DEF AdminAnswered, Requests
  <2>2. CASE admin' # admin
    <3>1. PICK r \in Requests : SetupCreates(r) \/ SetupAnswerLost(r)
      BY <1>1, <2>2
    <3> QED
      BY <1>2, <2>2, <3>1 DEF AdminAnswered
  <2> QED
    BY <2>1, <2>2
<1>5. ASSUME NEW r \in Setups, At(r, "create"), req'[r].pc = "ok" PROVE admin = None /\ admin' = r
  <2>1. r \in Requests /\ r \notin Logins /\ r \notin Users
    BY DashboardAssumption DEF Requests
  <2>2. Answer(r) \/ Fails(r)
    <3>1. req'[r] # req[r] /\ ~At(r, "queued")
      BY <1>5 DEF At
    <3>2. \A p \in Replicas : ~Arrive(r, p)
      BY <1>5 DEF Arrive, At
    <3> QED
      BY <1>5, <2>1, <3>1, <3>2, RequestSteps
  <2>3. SetupCreates(r) \/ SetupAnswerLost(r)
    <3>1. ~QueryFails(r)
      <4>1. ASSUME QueryFails(r) PROVE req'[r].pc = "failed"
        BY <2>1, <4>1, GoesOn DEF QueryFails, Sound, Waits, Answers
      <4> QED
        BY <1>5, <4>1
    <3>2. ~(\/ SetupRefused(r) \/ LoginRefused(r) \/ BodyRefused(r) \/ LoginBody(r) \/ Change(r)
            \/ SetupChecked(r) \/ LoginChecked(r) \/ SetupBody(r) \/ LoginKnows(r) \/ QueueTimeout(r) \/ Worked(r))
      BY <1>5 DEF SetupRefused, LoginRefused, BodyRefused, LoginBody, Change,
         SetupChecked, LoginChecked, SetupBody, LoginKnows, QueueTimeout, Worked, At
    <3>3. ~(\/ LoginCreates(r) \/ LoginAnswerLost(r) \/ Select(r) \/ TouchSession(r) \/ TouchAnswerLost(r)
            \/ RevokeSession(r))
      BY <1>5, <2>1 DEF LoginCreates, LoginAnswerLost, Select, TouchSession, TouchAnswerLost, RevokeSession, At
    <3> QED
      BY <2>2, <3>1, <3>2, <3>3 DEF Answer, Fails
  <2>4. admin' = r
    BY <1>2, <1>5, <2>1, <2>3
  <2>5. admin # r
    BY <1>5 DEF AdminAnswered, At, Answers
  <2> QED
    BY <1>2, <2>1, <2>3, <2>4, <2>5
<1> QED
  BY <1>3, <1>4, <1>5

\* Whatever setups run at once on whatever replicas, with answers lost and replicas
\* restarted: once there is an administrator it is never replaced, and a setup is
\* answered with success only by the very step that makes it the administrator.
THEOREM AdministratorIsOne == Spec => OneAdministrator
<1>1. Init => AdminAnswered
  BY DashboardAssumption DEF Init, AdminAnswered, Requests
<1>2. Sound /\ AdminAnswered /\ [Next]_vars => AdminAnswered'
  BY AdminSteps
<1>3. Sound /\ AdminAnswered /\ [Next]_vars =>
        [/\ admin # None => admin' = admin
         /\ \A r \in Setups : At(r, "create") /\ req'[r].pc = "ok" => admin = None /\ admin' = r]_vars
  BY AdminSteps
<1>4. Spec => []AdminAnswered
  BY <1>1, <1>2, SoundAlways, PTL DEF Spec
<1> QED
  BY <1>3, <1>4, SoundAlways, PTL DEF Spec, OneAdministrator

-----------------------------------------------------------------------------
(* Logouts *)

UserWaits == {"select", "touch", "revoke", "body"}
\* Who comes with a session is one of the users, and it is a session of a login that
\* was answered.
Identified ==
  /\ \A r \in Requests : req[r].pc \in {"select", "touch", "revoke"} => r \in Users
  /\ \A r \in Users : /\ req[r].pc \in {"new"} \cup UserWaits \cup Answers
                      /\ req[r].pc # "new" => req[r].session \in Logins /\ At(req[r].session, "ok")

\* Where a request goes that comes without a session.
LEMMA WithoutSession ==
  ASSUME Sound, NEW r \in Requests, r \notin Users, Answer(r) \/ Fails(r),
         req[r].pc \notin {"select", "touch", "revoke"}
  PROVE  req'[r].pc \notin {"select", "touch", "revoke"}
<1>1. ASSUME NEW pc \in (Waits \cup Answers) \ {"select", "touch", "revoke"}, Goes(r, pc), req[r].pc \in Waits
      PROVE  req'[r].pc \notin {"select", "touch", "revoke"}
  BY <1>1, GoesOn DEF Sound
<1>2. req[r].pc \in Waits
  BY Moves
<1>3. CASE \/ SetupRefused(r) \/ LoginRefused(r) \/ BodyRefused(r) \/ LoginBody(r) \/ Change(r)
           \/ QueryFails(r) \/ (LoginKnows(r) /\ admin = None)
  BY <1>1, <1>3, PlainAnswers DEF OnlyGoes, Waits, Answers
<1>4. CASE SetupBody(r) \/ (LoginKnows(r) /\ admin # None)
  BY <1>1, <1>2, <1>4, ComesToGate, Enter DEF Sound, Waits, Answers
<1>5. CASE QueueTimeout(r)
  BY <1>1, <1>5, GiveUp DEF Sound, Answers
<1>6. CASE Worked(r)
  <2>1. PICK pc \in {"create", "failed", "refused"} : At(r, "work") /\ Leaves(r, pc)
    BY <1>6 DEF Worked
  <2>2. Timed(r, pc).pc = pc
    <3>1. req[r] \in RequestStates
      BY DEF Sound, Typed
    <3> QED
      BY <3>1 DEF Timed, Went, RequestStates, Answers, Idler
  <2> QED
    BY <2>1, <2>2, Leave DEF Sound
<1>7. CASE SetupChecked(r) \/ LoginChecked(r)
  <2>1. \E pc \in {"body", "refused"} : Goes(r, pc)
    BY <1>7 DEF SetupChecked, LoginChecked
  <2> QED
    BY <1>1, <1>2, <2>1 DEF Waits, Answers
<1>8. CASE SetupCreates(r) \/ SetupAnswerLost(r) \/ LoginCreates(r) \/ LoginAnswerLost(r)
  <2>1. \E pc \in Answers : Goes(r, pc)
    BY <1>8 DEF SetupCreates, SetupAnswerLost, LoginCreates, LoginAnswerLost, Answers
  <2> QED
    BY <1>1, <1>2, <2>1 DEF Answers
<1>9. ~(Select(r) \/ TouchSession(r) \/ TouchAnswerLost(r) \/ RevokeSession(r))
  BY DEF Select, TouchSession, TouchAnswerLost, RevokeSession, At
<1> QED
  BY <1>3, <1>4, <1>5, <1>6, <1>7, <1>8, <1>9 DEF Answer, Fails

\* The steps of a request with a session.
LEMMA WithSession ==
  ASSUME Sound, NEW r \in Users, req[r].pc \in {"new"} \cup UserWaits \cup Answers, Answer(r) \/ Fails(r)
  PROVE  /\ \/ Select(r) \/ TouchSession(r) \/ TouchAnswerLost(r) \/ RevokeSession(r) \/ Change(r)
            \/ BodyRefused(r) \/ QueryFails(r)
         /\ req'[r].pc \in UserWaits \cup Answers
<1>1. r \in Requests /\ r \notin Setups /\ r \notin Logins
  BY DashboardAssumption DEF Requests
<1>2. req[r].pc \in Waits
  BY <1>1, Moves
<1>3. \/ Select(r) \/ TouchSession(r) \/ TouchAnswerLost(r) \/ RevokeSession(r) \/ Change(r)
      \/ BodyRefused(r) \/ QueryFails(r)
  <2>1. ~(\/ SetupRefused(r) \/ LoginRefused(r) \/ LoginBody(r) \/ SetupBody(r) \/ SetupChecked(r) \/ LoginChecked(r)
          \/ SetupCreates(r) \/ SetupAnswerLost(r) \/ LoginCreates(r) \/ LoginAnswerLost(r))
    BY <1>1 DEF SetupRefused, LoginRefused, LoginBody, SetupBody, SetupChecked, LoginChecked,
       SetupCreates, SetupAnswerLost, LoginCreates, LoginAnswerLost
  <2>2. ~(LoginKnows(r) \/ QueueTimeout(r) \/ Worked(r))
    BY DEF LoginKnows, QueueTimeout, Worked, At, UserWaits, Answers
  <2> QED
    BY <2>1, <2>2 DEF Answer, Fails
<1>4. \E pc \in {"ok", "revoke", "body", "refused", "touch", "failed"} : Goes(r, pc)
  <2>1. Accepted(r) \/ \E pc \in {"refused", "touch", "failed", "ok"} : Goes(r, pc)
    BY <1>3 DEF Select, TouchSession, TouchAnswerLost, RevokeSession, Change, BodyRefused, QueryFails
  <2> QED
    BY <2>1 DEF Accepted
<1> QED
  BY <1>1, <1>2, <1>3, <1>4, GoesOn DEF Sound, Waits, Answers, UserWaits

LEMMA IdentifiedStep ==
  ASSUME Sound, Identified, [Next]_vars
  PROVE  /\ Identified'
         /\ \A r \in Users : req[r].pc # "new" => req'[r].session = req[r].session
<1>1. ASSUME NEW q \in Requests, req'[q].pc \in {"select", "touch", "revoke"} PROVE q \in Users
  <2>1. CASE req'[q] = req[q]
    BY <1>1, <2>1 DEF Identified
  <2>2. CASE Answer(q) \/ Fails(q)
    BY <1>1, <2>2, WithoutSession DEF Identified
  <2>3. CASE \E p \in Replicas : Arrive(q, p)
    BY <1>1, <2>3, ArriveSound
  <2>4. CASE At(q, "queued") /\ req'[q] = [req[q] EXCEPT !.pc = "work"]
    BY <1>1, <2>4 DEF Sound, Typed, RequestStates
  <2> QED
    BY <1>1, <2>1, <2>2, <2>3, <2>4, RequestSteps
<1>2. ASSUME NEW q \in Users, req[q].pc # "new"
      PROVE  /\ req'[q].pc \in UserWaits \cup Answers /\ req'[q].session = req[q].session
             /\ req'[q].session \in Logins /\ req'[req'[q].session].pc = "ok"
  <2>0. q \in Requests /\ req[q].pc \in UserWaits \cup Answers
    BY <1>2 DEF Requests, Identified
  <2>1. ~At(q, "queued") /\ \A p \in Replicas : ~Arrive(q, p)
    BY <1>2, <2>0 DEF At, Arrive, UserWaits, Answers
  <2>2. req'[q].pc \in UserWaits \cup Answers /\ req'[q].session = req[q].session
    <3>1. CASE Answer(q) \/ Fails(q)
      BY <2>0, <3>1, Moves, WithSession
    <3>2. CASE ~(Answer(q) \/ Fails(q))
      BY <2>0, <2>1, <3>2, RequestSteps DEF Answers
    <3> QED
      BY <3>1, <3>2
  <2>3. req[q].session \in Logins /\ At(req[q].session, "ok")
    BY <1>2 DEF Identified
  <2>4. req'[req[q].session] = req[req[q].session]
    BY <2>3, Final DEF At, Answers, Requests
  <2> QED
    BY <2>2, <2>3, <2>4 DEF At
<1>3. ASSUME NEW q \in Users, req[q].pc = "new", req'[q].pc # "new"
      PROVE  /\ req'[q].pc \in UserWaits \cup Answers
             /\ req'[q].session \in Logins /\ req'[req'[q].session].pc = "ok"
  <2>1. q \in Requests /\ ~At(q, "queued") /\ req[q].pc \notin Waits
    BY <1>3 DEF Requests, At, Waits
  <2>2. PICK p \in Replicas : Arrive(q, p)
    BY <1>3, <2>1, RequestSteps, Moves
  <2>3. /\ req'[q].pc \in {"failed", "select", "hasAdmin"} /\ req'[q].session \in Logins
        /\ At(req'[q].session, "ok")
    BY <2>1, <2>2, ArriveSound
  <2>4. req'[q].pc # "hasAdmin"
    <3>1. PICK ip, l : req' = [req EXCEPT ![q] =
            [pc |-> IF replica[p].init = "failed" THEN "failed"
                    ELSE IF q \in Users THEN "select" ELSE "hasAdmin",
             on |-> p, ip |-> ip, session |-> l, at |-> IF q \in Users THEN now ELSE 0]]
      BY <2>2 DEF Arrive
    <3> QED
      BY <2>1, <3>1 DEF Sound, Typed
  <2>5. req'[req'[q].session] = req[req'[q].session]
    BY <2>3, Final DEF At, Answers, Requests
  <2> QED
    BY <2>3, <2>4, <2>5 DEF At, UserWaits, Answers
<1>4. \A q \in Users : /\ req'[q].pc \in {"new"} \cup UserWaits \cup Answers
                       /\ req'[q].pc # "new" => req'[q].session \in Logins /\ req'[req'[q].session].pc = "ok"
  <2>1. SUFFICES ASSUME NEW q \in Users
                 PROVE  /\ req'[q].pc \in {"new"} \cup UserWaits \cup Answers
                        /\ req'[q].pc # "new" => req'[q].session \in Logins /\ req'[req'[q].session].pc = "ok"
    OBVIOUS
  <2> QED
    BY <1>2, <1>3
<1> QED
  BY <1>1, <1>2, <1>4 DEF Identified, At

\* A session whose logout was answered is revoked or gone, and what a request is
\* remembered to have come after has happened.
LoggedOut ==
  /\ \A l \in loggedOut : l \in Logins /\ At(l, "ok") /\ (sessions[l] = NoRow \/ sessions[l].revoked)
  /\ \A r \in Requests : out[r] \subseteq loggedOut

\* A row that is revoked or gone stays so, once its login is answered.
LEMMA RevokedForGood ==
  ASSUME Sound, [Next]_vars, NEW l \in Logins, At(l, "ok"), sessions[l] = NoRow \/ sessions[l].revoked
  PROVE  At(l, "ok")' /\ (sessions'[l] = NoRow \/ sessions'[l].revoked)
<1>1. At(l, "ok")'
  BY Final DEF At, Answers, Requests
<1>2. ~(LoginCreates(l) \/ LoginAnswerLost(l))
  BY DEF LoginCreates, LoginAnswerLost, At
<1>3. PICK row \in Rows : row = sessions[l]
  BY DEF Sound, Typed
<1>4. \A s, i : [row EXCEPT !.seen = s, !.idle = i].revoked = row.revoked
  BY DEF Rows
<1>5. [row EXCEPT !.revoked = TRUE].revoked
  BY DEF Rows
<1>6. /\ \A r \in Requests : Touched(r, sessions[l]) = NoRow \/ Touched(r, sessions[l]).revoked
      /\ Revoked(sessions[l]) = NoRow \/ Revoked(sessions[l]).revoked
  BY <1>3, <1>4, <1>5 DEF Touched, Revoked
<1> QED
  BY <1>1, <1>2, <1>6, RowSteps

\* What the history of the logouts depends on.
LEMMA OutSteps ==
  ASSUME Sound, [Next]_vars
  PROVE  /\ loggedOut' = loggedOut \/ \E r \in Requests : RevokeSession(r)
         /\ \A q \in Requests : out'[q] = out[q] \/ (out'[q] = loggedOut /\ \E p \in Replicas : Arrive(q, p))
<1>1. ASSUME NEW r \in Requests, Answer(r) \/ Fails(r)
      PROVE  (loggedOut' = loggedOut \/ RevokeSession(r)) /\ out' = out
  <2>1. CASE \/ SetupRefused(r) \/ LoginRefused(r) \/ BodyRefused(r) \/ LoginBody(r) \/ Change(r) \/ QueryFails(r)
             \/ SetupChecked(r) \/ LoginChecked(r) \/ SetupBody(r) \/ LoginKnows(r) \/ QueueTimeout(r) \/ Worked(r)
    BY <2>1 DEF SetupRefused, LoginRefused, BodyRefused, LoginBody, Change, QueryFails, history,
       SetupChecked, LoginChecked, SetupBody, LoginKnows, QueueTimeout, Worked
  <2>2. CASE \/ SetupCreates(r) \/ SetupAnswerLost(r) \/ LoginCreates(r) \/ LoginAnswerLost(r) \/ Select(r)
             \/ TouchSession(r) \/ TouchAnswerLost(r) \/ RevokeSession(r)
    BY <2>2 DEF SetupCreates, SetupAnswerLost, LoginCreates, LoginAnswerLost, Select, TouchSession,
       TouchAnswerLost, RevokeSession, history
  <2> QED
    BY <1>1, <2>1, <2>2 DEF Answer, Fails
<1>2. ASSUME NEW p \in Replicas, NEW r \in Requests, Arrive(r, p)
      PROVE  /\ loggedOut' = loggedOut
             /\ \A q \in Requests : out'[q] = out[q] \/ (out'[q] = loggedOut /\ q = r)
  BY <1>2 DEF Arrive, Sound, Typed
<1>3. ASSUME (\E p \in Replicas : Initialize(p) \/ Restart(p)) \/ Cleanup \/ Tick \/ UNCHANGED vars
      PROVE  loggedOut' = loggedOut /\ out' = out
  BY <1>3 DEF Initialize, Restart, Cleanup, Tick, vars, history
<1>4. CASE \E r \in Requests : Answer(r) \/ Fails(r)
  BY <1>1, <1>4
<1>5. CASE \E r \in Requests, p \in Replicas : Arrive(r, p)
  BY <1>2, <1>5
<1> QED
  BY <1>3, <1>4, <1>5 DEF Next

LEMMA LoggedOutStep ==
  ASSUME Sound, Identified, LoggedOut, [Next]_vars
  PROVE  LoggedOut'
<1>1. ASSUME NEW r \in Requests, RevokeSession(r)
      PROVE  /\ loggedOut' = loggedOut \cup {req[r].session}
             /\ req[r].session \in Logins /\ At(req[r].session, "ok")
             /\ sessions'[req[r].session] = NoRow \/ sessions'[req[r].session].revoked
  <2>1. req[r].session \in Logins /\ At(req[r].session, "ok")
    BY <1>1 DEF RevokeSession, Identified, At
  <2>2. PICK row \in Rows : row = sessions[req[r].session]
    BY <2>1 DEF Sound, Typed
  <2>3. [row EXCEPT !.revoked = TRUE].revoked
    BY DEF Rows
  <2>4. sessions'[req[r].session] = Revoked(row)
    BY <1>1, <2>1, <2>2 DEF RevokeSession, Sound, Typed
  <2> QED
    BY <1>1, <2>1, <2>3, <2>4 DEF RevokeSession, Revoked
<1>2. \A l \in loggedOut : l \in Logins /\ At(l, "ok")' /\ (sessions'[l] = NoRow \/ sessions'[l].revoked)
  BY RevokedForGood DEF LoggedOut
<1>3. /\ loggedOut \subseteq loggedOut'
      /\ \A l \in loggedOut' : l \in Logins /\ At(l, "ok")' /\ (sessions'[l] = NoRow \/ sessions'[l].revoked)
  <2>1. CASE loggedOut' = loggedOut
    BY <1>2, <2>1
  <2>2. CASE \E r \in Requests : RevokeSession(r)
    <3>1. PICK r \in Requests : RevokeSession(r)
      BY <2>2
    <3>2. req'[req[r].session].pc = "ok"
      BY <1>1, <3>1, Final DEF At, Answers, Requests
    <3>3. loggedOut' = loggedOut \cup {req[r].session}
      BY <1>1, <3>1
    <3> QED
      BY <1>1, <1>2, <3>1, <3>2, <3>3 DEF At
  <2> QED
    BY <2>1, <2>2, OutSteps
<1>4. \A q \in Requests : out'[q] \subseteq loggedOut'
  BY <1>3, OutSteps DEF LoggedOut
<1> QED
  BY <1>3, <1>4 DEF LoggedOut

LEMMA StaysOutStep ==
  ASSUME Sound, Identified, LoggedOut, LoggedOutStaysOut, [Next]_vars
  PROVE  LoggedOutStaysOut'
<1> SUFFICES ASSUME NEW q \in Users, req'[q].pc \in {"ok", "touch", "revoke", "body"}
             PROVE  req'[q].session \notin out'[q]
  BY DEF LoggedOutStaysOut
<1>1. q \in Requests
  BY DEF Requests
<1>2. CASE req[q].pc = "new"
  <2>1. req[q].pc \notin Waits /\ ~At(q, "queued") /\ req'[q] # req[q]
    BY <1>2 DEF Waits, At
  <2> QED
    BY <1>1, <2>1, RequestSteps, Moves, ArriveSound
<1>3. CASE req[q].pc # "new"
  <2>1. req'[q].session = req[q].session /\ out'[q] = out[q] /\ req[q].session \in Logins
    BY <1>1, <1>3, IdentifiedStep, OutSteps DEF Arrive, At, Identified
  <2>2. CASE req[q].pc \in {"ok", "touch", "revoke", "body"}
    BY <2>1, <2>2 DEF LoggedOutStaysOut
  <2>3. CASE req[q].pc \notin {"ok", "touch", "revoke", "body"}
    <3>1. req[q].pc = "select"
      <4>1. req[q].pc \notin Answers
        BY <1>1, <2>3, Final DEF Answers
      <4> QED
        BY <1>3, <2>3, <4>1 DEF Identified, UserWaits
    <3>2. Answer(q) \/ Fails(q)
      BY <1>1, <3>1, <2>3, RequestSteps DEF At, Arrive
    <3>3. Select(q) \/ QueryFails(q)
      BY <3>1, <3>2, WithSession
         DEF UserWaits, TouchSession, TouchAnswerLost, RevokeSession, Change, BodyRefused, At
    <3>4. ~Goes(q, "refused") /\ ~Goes(q, "failed")
      <4>1. \A pc \in {"refused", "failed"} : Goes(q, pc) => req'[q].pc = pc
        BY <1>1, <3>1, GoesOn DEF Sound, Waits, Answers
      <4> QED
        BY <4>1
    <3>5. Resolves(sessions[req[q].session], req[q].at)
      BY <3>3, <3>4 DEF Select, QueryFails
    <3> QED
      BY <1>1, <2>1, <3>5 DEF Resolves, LoggedOut
  <2> QED
    BY <2>2, <2>3
<1> QED
  BY <1>2, <1>3

LEMMA IdentifiedInit == Init => Identified /\ LoggedOut /\ LoggedOutStaysOut
<1> SUFFICES ASSUME Init PROVE Identified /\ LoggedOut /\ LoggedOutStaysOut
  OBVIOUS
<1>1. \A r \in Requests : req[r].pc = "new"
  BY DEF Init, Idler
<1>2. Users \subseteq Requests
  BY DEF Requests
<1> QED
  BY <1>1, <1>2 DEF Init, Identified, LoggedOut, LoggedOutStaysOut

\* A request that came after the logout of its session was answered does not get past
\* the check of the session, though requests that had read the row before the logout
\* may write it afterwards.
THEOREM LogoutIsFinal == Spec => []LoggedOutStaysOut
<1>1. Sound /\ (Identified /\ LoggedOut /\ LoggedOutStaysOut) /\ [Next]_vars
        => (Identified /\ LoggedOut /\ LoggedOutStaysOut)'
  BY IdentifiedStep, LoggedOutStep, StaysOutStep
<1> QED
  BY <1>1, IdentifiedInit, SoundAlways, PTL DEF Spec

-----------------------------------------------------------------------------
(* The ends of a session *)

\* Of a set of times one is the first that is not before t.
LEMMA FirstFrom ==
  ASSUME NEW U \in SUBSET Nat, NEW t \in Nat, NEW v \in U, t <= v
  PROVE  \E w \in U : t <= w /\ \A x \in U : t <= x => w <= x
<1> DEFINE T == {x \in U : t <= x}
<1>1. T \subseteq Nat /\ T # {}
  OBVIOUS
<1>2. PICK w \in T : \A y \in T : w <= y
  BY <1>1, LeastOf, Zenon
<1> QED
  BY <1>1, <1>2

\* U is a session's life from f: within its absolute time, and each use follows another
\* by less than its idle time.
Life(U, f) ==
  /\ f \in U
  /\ \A t \in U : /\ f <= t /\ t < f + Absolute
                  /\ t = f \/ \E u \in U : u < t /\ t < u + Idle
\* A use at time a is part of such a life.
Fits(U, f, a) ==
  /\ f <= a /\ a < f + Absolute
  /\ a = f \/ \E u \in U : u < a /\ a < u + Idle

LEMMA LifeGrows ==
  ASSUME NEW U, NEW f, Life(U, f), NEW a, Fits(U, f, a)
  PROVE  Life(U \cup {a}, f)
BY DEF Life, Fits

\* A time before a later use fits as well: it falls between two uses that are less than
\* the idle time apart.
LEMMA BetweenUses ==
  ASSUME NEW U \in SUBSET Nat, NEW f, Life(U, f), NEW a \in Nat, f <= a,
         NEW s \in U, a < s + Idle, a < f + Absolute
  PROVE  Fits(U, f, a)
<1>1. f \in Nat /\ Idle \in Nat \ {0} /\ s \in Nat
  BY DashboardAssumption DEF Life
<1>2. CASE a = f
  BY <1>2 DEF Fits
<1>3. CASE a # f /\ s < a
  BY <1>3 DEF Fits
<1>4. CASE a # f /\ a <= s
  <2>1. PICK w \in U : a <= w /\ \A x \in U : a <= x => w <= x
    BY <1>4, FirstFrom
  <2>2. PICK u \in U : u < w /\ w < u + Idle
    BY <1>1, <1>4, <2>1 DEF Life
  <2>3. u < a /\ a < u + Idle
    BY <1>1, <2>1, <2>2
  <2> QED
    BY <2>2, <2>3 DEF Fits
<1> QED
  BY <1>1, <1>2, <1>3, <1>4

\* What a session has been used for, and may be, began at f.
Began(l, f) ==
  /\ Life(uses[l], f) /\ f <= now
  /\ sessions[l] # NoRow => /\ sessions[l].absolute = f + Absolute
                            /\ sessions[l].seen \in uses[l] /\ sessions[l].idle <= sessions[l].seen + Idle
  /\ \A r \in Users : req[r].session = l =>
       /\ At(r, "select") => f <= req[r].at
       /\ At(r, "touch") => Fits(uses[l], f, req[r].at)
Lives ==
  /\ \A r \in Requests : req[r].at <= now
  /\ \A l \in Logins : /\ At(l, "ok") => uses[l] # {}
                       /\ uses[l] # {} => \E f \in uses[l] : Began(l, f)

\* What becomes of the uses of a session, and with them of its row.
LEMMA UseSteps ==
  ASSUME Sound, Identified, [Next]_vars, NEW l \in Logins
  PROVE  \/ (LoginCreates(l) \/ LoginAnswerLost(l)) /\ CreateSession(l)
         \/ \E r \in Users :
              /\ req[r].session = l /\ uses'[l] = uses[l] \cup {req[r].at}
              /\ \/ At(r, "touch") /\ sessions'[l] = Touched(r, sessions[l])
                 \/ At(r, "select") /\ Resolves(sessions[l], req[r].at) /\ sessions'[l] = sessions[l]
         \/ uses'[l] = uses[l] /\ sessions'[l] \in {sessions[l], Revoked(sessions[l]), NoRow}
<1> DEFINE Created == (LoginCreates(l) \/ LoginAnswerLost(l)) /\ CreateSession(l)
           Used(r) == /\ req[r].session = l /\ uses'[l] = uses[l] \cup {req[r].at}
                      /\ \/ At(r, "touch") /\ sessions'[l] = Touched(r, sessions[l])
                         \/ At(r, "select") /\ Resolves(sessions[l], req[r].at) /\ sessions'[l] = sessions[l]
           Unused == uses'[l] = uses[l] /\ sessions'[l] \in {sessions[l], Revoked(sessions[l]), NoRow}
           Goal == Created \/ (\E r \in Users : Used(r)) \/ Unused
<1>1. ASSUME NEW r \in Requests, Select(r) \/ TouchSession(r) \/ TouchAnswerLost(r) PROVE Goal
  <2>1. r \in Users
    BY <1>1 DEF Select, TouchSession, TouchAnswerLost, At, Identified
  <2>2. CASE Select(r) /\ Accepted(r) /\ Resolves(sessions[req[r].session], req[r].at)
    <3>1. uses' = [uses EXCEPT ![req[r].session] = @ \cup {req[r].at}] /\ UNCHANGED sessions /\ At(r, "select")
      BY <2>2 DEF Select, Accepted, Database
    <3>2. CASE req[r].session = l
      BY <2>1, <2>2, <3>1, <3>2 DEF Sound, Typed
    <3>3. CASE req[r].session # l
      BY <3>1, <3>3 DEF Sound, Typed
    <3> QED
      BY <3>2, <3>3
  <2>3. CASE Select(r) /\ UNCHANGED uses
    BY <2>3 DEF Select, Database
  <2>4. CASE TouchSession(r) \/ TouchAnswerLost(r)
    <3>1. /\ uses' = [uses EXCEPT ![req[r].session] = @ \cup {req[r].at}] /\ At(r, "touch")
          /\ sessions' = [sessions EXCEPT ![req[r].session] = Touched(r, sessions[req[r].session])]
      BY <2>4 DEF TouchSession, TouchAnswerLost, Accepted
    <3>2. CASE req[r].session = l
      BY <2>1, <3>1, <3>2 DEF Sound, Typed
    <3>3. CASE req[r].session # l
      BY <3>1, <3>3 DEF Sound, Typed
    <3> QED
      BY <3>2, <3>3
  <2>5. Select(r) => UNCHANGED uses \/ (Accepted(r) /\ Resolves(sessions[req[r].session], req[r].at))
    BY DEF Select
  <2> QED
    BY <1>1, <2>2, <2>3, <2>4, <2>5
<1>2. ASSUME NEW r \in Requests, LoginCreates(r) \/ LoginAnswerLost(r) PROVE Goal
  <2>1. CreateSession(r) /\ r \in Logins
    BY <1>2 DEF LoginCreates, LoginAnswerLost
  <2>2. CASE r = l
    BY <1>2, <2>1, <2>2
  <2>3. CASE r # l
    BY <2>1, <2>3 DEF CreateSession, Sound, Typed
  <2> QED
    BY <2>2, <2>3
<1>3. ASSUME NEW r \in Requests, Answer(r) \/ Fails(r),
             ~(Select(r) \/ TouchSession(r) \/ TouchAnswerLost(r) \/ LoginCreates(r) \/ LoginAnswerLost(r))
      PROVE  uses' = uses
  <2>1. CASE \/ SetupRefused(r) \/ LoginRefused(r) \/ BodyRefused(r) \/ LoginBody(r) \/ Change(r) \/ QueryFails(r)
             \/ SetupChecked(r) \/ LoginChecked(r) \/ SetupBody(r) \/ LoginKnows(r) \/ QueueTimeout(r) \/ Worked(r)
    BY <2>1 DEF SetupRefused, LoginRefused, BodyRefused, LoginBody, Change, QueryFails, history,
       SetupChecked, LoginChecked, SetupBody, LoginKnows, QueueTimeout, Worked
  <2>2. CASE SetupCreates(r) \/ SetupAnswerLost(r) \/ RevokeSession(r)
    BY <2>2 DEF SetupCreates, SetupAnswerLost, RevokeSession, history
  <2> QED
    BY <1>3, <2>1, <2>2 DEF Answer, Fails
<1>4. ASSUME NEW p \in Replicas, NEW r \in Requests, Arrive(r, p) PROVE uses' = uses
  BY <1>4 DEF Arrive
<1>5. ASSUME (\E p \in Replicas : Initialize(p) \/ Restart(p)) \/ Cleanup \/ Tick \/ UNCHANGED vars
      PROVE  uses' = uses
  BY <1>5 DEF Initialize, Restart, Cleanup, Tick, vars, history
<1>6. CASE uses' = uses
  <2>1. CASE \E r \in Requests : TouchSession(r) \/ TouchAnswerLost(r)
    BY <1>1, <2>1
  <2>2. CASE ~\E r \in Requests : TouchSession(r) \/ TouchAnswerLost(r)
    BY <1>6, <2>2, RowSteps
  <2> QED
    BY <2>1, <2>2
<1> HIDE DEF Goal
<1>7. ASSUME uses' # uses PROVE Goal
  BY <1>1, <1>2, <1>3, <1>4, <1>5, <1>7 DEF Next
<1>8. Goal
  BY <1>6, <1>7 DEF Goal
<1> QED
  BY <1>8 DEF Goal

\* Where a request with a session stands that is about to be accepted.
LEMMA PendingSteps ==
  ASSUME Sound, Identified, [Next]_vars, NEW r \in Users, req'[r].pc \in {"select", "touch"}
  PROVE  \/ req'[r] = req[r]
         \/ /\ req[r].pc = "new" /\ req'[r].pc = "select" /\ req'[r].at = now
            /\ req'[r].session \in Logins /\ At(req'[r].session, "ok")
         \/ /\ At(r, "select") /\ req'[r].pc = "touch"
            /\ req'[r].session = req[r].session /\ req'[r].at = req[r].at
            /\ Resolves(sessions[req[r].session], req[r].at)
            /\ req[r].at - sessions[req[r].session].seen >= Touch
            /\ uses' = uses
<1>1. r \in Requests /\ r \notin Setups \cup Logins /\ req[r] \in RequestStates
  BY DashboardAssumption DEF Requests, Sound, Typed
<1>2. req[r].pc \in {"new"} \cup UserWaits \cup Answers /\ ~At(r, "queued")
  BY DEF Identified, At, UserWaits, Answers
<1>3. CASE \E p \in Replicas : Arrive(r, p)
  BY <1>1, <1>3, ArriveSound DEF Arrive, At
<1>4. CASE Answer(r) \/ Fails(r)
  <2>1. req[r].pc \in Waits
    BY <1>1, <1>4, Moves
  <2>2. \A pc \in {"ok", "revoke", "body", "refused", "failed", "touch"} : Goes(r, pc) =>
          /\ req'[r].pc = pc
          /\ pc = "touch" => req'[r].session = req[r].session /\ req'[r].at = req[r].at
    <3>1. ASSUME NEW pc \in {"ok", "revoke", "body", "refused", "failed", "touch"}, Goes(r, pc)
          PROVE  req'[r].pc = pc /\ (pc = "touch" => req'[r].session = req[r].session /\ req'[r].at = req[r].at)
      <4>1. req'[r].pc = pc /\ (pc \in Waits => req'[r] = [req[r] EXCEPT !.pc = pc])
        BY <1>1, <2>1, <3>1, GoesOn DEF Sound, Waits, Answers
      <4> QED
        BY <1>1, <4>1 DEF RequestStates, Waits
    <3> QED
      BY <3>1
  <2>3. ~Accepted(r)
    BY <2>2 DEF Accepted
  <2>4. /\ ~Goes(r, "ok") /\ ~Goes(r, "refused") /\ ~Goes(r, "failed")
    BY <2>2
  <2>5. Select(r) \/ TouchSession(r) \/ TouchAnswerLost(r) \/ RevokeSession(r) \/ Change(r) \/ BodyRefused(r) \/ QueryFails(r)
    BY <1>2, <1>4, WithSession
  <2>6. Select(r)
    BY <2>3, <2>4, <2>5 DEF TouchSession, TouchAnswerLost, RevokeSession, Change, BodyRefused, QueryFails
  <2>7. /\ At(r, "select") /\ Goes(r, "touch") /\ UNCHANGED uses
        /\ Resolves(sessions[req[r].session], req[r].at)
        /\ req[r].at - sessions[req[r].session].seen >= Touch
    BY <2>3, <2>4, <2>6 DEF Select
  <2> QED
    BY <2>2, <2>7
<1> QED
  BY <1>1, <1>2, <1>3, <1>4, RequestSteps

\* Only Tick moves the clock.
LEMMA Clock ==
  ASSUME [Next]_vars
  PROVE  now' = now \/ Tick
<1>1. ASSUME NEW r \in Requests, Answer(r) \/ Fails(r) PROVE now' = now
  <2>1. CASE \/ SetupRefused(r) \/ LoginRefused(r) \/ BodyRefused(r) \/ LoginBody(r) \/ Change(r) \/ QueryFails(r)
             \/ SetupChecked(r) \/ LoginChecked(r) \/ SetupBody(r) \/ LoginKnows(r) \/ QueueTimeout(r) \/ Worked(r)
    BY <2>1 DEF SetupRefused, LoginRefused, BodyRefused, LoginBody, Change, QueryFails, Same,
       SetupChecked, LoginChecked, SetupBody, LoginKnows, QueueTimeout, Worked
  <2>2. CASE \/ SetupCreates(r) \/ SetupAnswerLost(r) \/ LoginCreates(r) \/ LoginAnswerLost(r) \/ Select(r)
             \/ TouchSession(r) \/ TouchAnswerLost(r) \/ RevokeSession(r)
    BY <2>2 DEF SetupCreates, SetupAnswerLost, LoginCreates, LoginAnswerLost, Select, TouchSession,
       TouchAnswerLost, RevokeSession, Same
  <2> QED
    BY <1>1, <2>1, <2>2 DEF Answer, Fails
<1>2. ASSUME NEW p \in Replicas, NEW r \in Requests, Arrive(r, p) PROVE now' = now
  BY <1>2 DEF Arrive, Same
<1>3. ASSUME (\E p \in Replicas : Initialize(p) \/ Restart(p)) \/ Cleanup \/ UNCHANGED vars PROVE now' = now
  BY <1>3 DEF Initialize, Restart, Cleanup, vars, Same
<1> QED
  BY <1>1, <1>2, <1>3 DEF Next

\* No request has a time that is still to come.
LEMMA TimesStep ==
  ASSUME Sound, \A r \in Requests : req[r].at <= now, [Next]_vars
  PROVE  now <= now' /\ \A r \in Requests : req'[r].at <= now'
<1>0. now \in Nat /\ \A r \in Requests : req[r] \in RequestStates
  BY DEF Sound, Typed
<1>1. now <= now'
  BY <1>0, Clock DEF Tick
<1>2. ASSUME NEW r \in Requests PROVE req'[r].at \in {req[r].at, now, 0}
  <2>1. \A pc \in Waits \cup Answers : Went(r, pc).at \in {req[r].at, 0}
    BY <1>0 DEF Went, Idler, RequestStates
  <2>2. ASSUME NEW pc \in Waits \cup Answers, Goes(r, pc) PROVE req'[r].at \in {req[r].at, 0}
    BY <2>1, <2>2 DEF Goes, Sound, Typed
  <2>3. CASE Answer(r) \/ Fails(r)
    <3>1. CASE Worked(r)
      <4>1. PICK pc \in {"create", "failed", "refused"} : At(r, "work") /\ Leaves(r, pc)
        BY <3>1 DEF Worked
      <4>2. Timed(r, pc).at \in {req[r].at, now, 0}
        BY <1>0, <2>1 DEF Timed, RequestStates, Answers
      <4> QED
        BY <4>1, <4>2, Leave DEF Sound
    <3>2. CASE SetupBody(r) \/ (LoginKnows(r) /\ admin # None)
      BY <2>2, <3>2, ComesToGate, Enter DEF Sound, Waits, Answers
    <3>3. CASE \/ SetupRefused(r) \/ LoginRefused(r) \/ BodyRefused(r) \/ LoginBody(r) \/ Change(r)
               \/ QueryFails(r) \/ (LoginKnows(r) /\ admin = None)
      BY <2>2, <3>3, PlainAnswers DEF OnlyGoes, Waits, Answers
    <3>4. CASE QueueTimeout(r)
      BY <2>2, <3>4, GiveUp DEF Sound, Answers
    <3>5. CASE SetupChecked(r) \/ LoginChecked(r)
      <4>1. \E pc \in {"body", "refused"} : Goes(r, pc)
        BY <3>5 DEF SetupChecked, LoginChecked
      <4> QED
        BY <2>2, <4>1 DEF Waits, Answers
    <3>6. CASE SetupCreates(r) \/ SetupAnswerLost(r) \/ LoginCreates(r) \/ LoginAnswerLost(r)
      <4>1. \E pc \in Answers : Goes(r, pc)
        BY <3>6 DEF SetupCreates, SetupAnswerLost, LoginCreates, LoginAnswerLost, Answers
      <4> QED
        BY <2>2, <4>1 DEF Answers
    <3>7. CASE Select(r) \/ TouchSession(r) \/ TouchAnswerLost(r) \/ RevokeSession(r)
      <4>1. Accepted(r) \/ \E pc \in {"refused", "touch", "failed", "ok"} : Goes(r, pc)
        BY <3>7 DEF Select, TouchSession, TouchAnswerLost, RevokeSession
      <4>2. \E pc \in {"ok", "revoke", "body", "refused", "touch", "failed"} : Goes(r, pc)
        BY <4>1 DEF Accepted
      <4> QED
        BY <2>2, <4>2 DEF Waits, Answers
    <3> QED
      BY <2>3, <3>1, <3>2, <3>3, <3>4, <3>5, <3>6, <3>7 DEF Answer, Fails
  <2>4. ASSUME NEW p \in Replicas, Arrive(r, p) PROVE req'[r].at \in {now, 0}
    BY <2>4 DEF Arrive, Sound, Typed
  <2>5. CASE At(r, "queued") /\ req'[r] = [req[r] EXCEPT !.pc = "work"]
    BY <1>0, <2>5 DEF RequestStates
  <2>6. ASSUME NEW p \in Replicas, Restart(p) PROVE req'[r].at \in {req[r].at, 0}
    BY <2>1, <2>6 DEF Restart, Answers
  <2> QED
    BY <2>3, <2>4, <2>5, <2>6, RequestSteps
<1>3. now' \in Nat
  BY SoundStep DEF Sound, Typed
<1>4. ASSUME NEW r \in Requests PROVE req'[r].at <= now'
  BY <1>0, <1>1, <1>2, <1>3 DEF RequestStates
<1> QED
  BY <1>1, <1>4

\* A session begins when it is created, and nobody has come with it yet.
LEMMA SessionBegins ==
  ASSUME Sound, Identified, Lives, [Next]_vars, NEW l \in Logins,
         LoginCreates(l) \/ LoginAnswerLost(l), CreateSession(l)
  PROVE  uses'[l] # {} /\ \E f \in uses'[l] : Began(l, f)'
<1>1. req[l].at \in Nat /\ At(l, "create") /\ l \in Requests
  BY DEF LoginCreates, LoginAnswerLost, Sound, Typed, RequestStates, Requests
<1>2. PICK f \in Nat : f = req[l].at
  BY <1>1
<1>3. uses'[l] = {f}
  BY <1>2 DEF CreateSession, Sound, Typed
<1>4. Absolute \in Nat \ {0} /\ Idle \in Nat \ {0}
  BY DashboardAssumption
<1>5. Life(uses'[l], f)
  BY <1>3, <1>4 DEF Life
<1>6. f <= now'
  BY <1>1, <1>2, TimesStep, SoundStep DEF Lives, Sound, Typed
<1>7. sessions'[l].absolute = f + Absolute /\ sessions'[l].seen = f /\ sessions'[l].idle <= f + Idle
  <2>1. /\ sessions'[l].absolute = f + Absolute /\ sessions'[l].seen = f
        /\ sessions'[l].idle = Min({f + Absolute, f + Idle})
    BY <1>2 DEF CreateSession, Sound, Typed
  <2>2. f + Absolute \in Int /\ f + Idle \in Int
    BY <1>4
  <2> QED
    BY <2>1, <2>2, Extremes
<1>8. ASSUME NEW r \in Users, req'[r].session = l PROVE req'[r].pc \notin {"select", "touch"}
  <2>1. SUFFICES ASSUME req'[r].pc \in {"select", "touch"} PROVE FALSE
    OBVIOUS
  <2>2. r \in Requests /\ r # l /\ ~At(r, "queued") /\ (Answer(l) \/ Fails(l))
    BY DashboardAssumption DEF Requests, Identified, At, UserWaits, Answers, Answer, Fails
  <2>3. req'[r] = req[r]
    BY <1>1, <2>2, Moves
  <2>4. At(l, "ok")
    BY <1>8, <2>1, <2>3 DEF Identified
  <2> QED
    BY <1>1, <2>4 DEF At
<1> QED
  BY <1>3, <1>5, <1>6, <1>7, <1>8 DEF Began, At

\* It goes on as it began.
LEMMA SessionGoesOn ==
  ASSUME Sound, Identified, Lives, [Next]_vars, NEW l \in Logins, NEW f \in uses[l], Began(l, f),
         ~((LoginCreates(l) \/ LoginAnswerLost(l)) /\ CreateSession(l))
  PROVE  uses[l] \subseteq uses'[l] /\ Began(l, f)'
<1>0. /\ uses[l] \in SUBSET Nat /\ f \in Nat /\ sessions[l] \in Rows /\ Absolute \in Nat \ {0} /\ Idle \in Nat \ {0}
      /\ Touch \in Nat \ {0} /\ now \in Nat /\ now' \in Nat /\ now <= now'
  BY TimesStep, SoundStep, DashboardAssumption DEF Lives, Sound, Typed
\* What is read of the row allows a use that fits.
<1>1. ASSUME NEW r \in Users, req[r].session = l, At(r, "select"), Resolves(sessions[l], req[r].at)
      PROVE  Fits(uses[l], f, req[r].at)
  <2>1. req[r].at \in Nat /\ f <= req[r].at
    BY <1>1 DEF Began, Sound, Typed, RequestStates, Requests
  <2>2. /\ sessions[l].absolute = f + Absolute /\ sessions[l].seen \in uses[l]
        /\ sessions[l].idle <= sessions[l].seen + Idle
        /\ req[r].at < sessions[l].idle /\ req[r].at < sessions[l].absolute
    BY <1>0, <1>1, <2>1 DEF Began, Resolves, Rows
  <2>3. req[r].at < sessions[l].seen + Idle
    BY <1>0, <2>1, <2>2 DEF Rows
  <2> QED
    BY <1>0, <2>1, <2>2, <2>3, BetweenUses DEF Began
\* The uses.
<1>2. /\ uses[l] \subseteq uses'[l] /\ Life(uses'[l], f)
      /\ \A a : Fits(uses[l], f, a) => Fits(uses'[l], f, a)
  <2>1. ASSUME NEW r \in Users, req[r].session = l, uses'[l] = uses[l] \cup {req[r].at},
               Fits(uses[l], f, req[r].at)
        PROVE  uses[l] \subseteq uses'[l] /\ Life(uses'[l], f)
    BY <2>1, LifeGrows DEF Began
  <2>2. CASE uses'[l] = uses[l]
    BY <2>2 DEF Began
  <2>3. uses[l] \subseteq uses'[l] /\ Life(uses'[l], f)
    BY <1>1, <2>1, <2>2, UseSteps DEF Began
  <2> QED
    BY <2>3 DEF Fits
\* The row.
<1>3. sessions'[l] # NoRow => /\ sessions'[l].absolute = f + Absolute
                              /\ sessions'[l].seen \in uses'[l] /\ sessions'[l].idle <= sessions'[l].seen + Idle
  <2>1. CASE sessions'[l] = sessions[l]
    BY <1>2, <2>1 DEF Began
  <2>2. CASE sessions'[l] = Revoked(sessions[l])
    BY <1>0, <1>2, <2>2 DEF Began, Revoked, Rows
  <2>3. ASSUME NEW r \in Users, uses'[l] = uses[l] \cup {req[r].at}, sessions'[l] = Touched(r, sessions[l])
        PROVE  sessions'[l] # NoRow => /\ sessions'[l].absolute = f + Absolute
                                       /\ sessions'[l].seen \in uses'[l] /\ sessions'[l].idle <= sessions'[l].seen + Idle
    <3>1. CASE sessions[l] = NoRow
      BY <2>3, <3>1 DEF Touched
    <3>2. CASE sessions[l] # NoRow
      <4>1. PICK row \in Rows, a \in Nat : row = sessions[l] /\ a = req[r].at
        BY <1>0 DEF Sound, Typed, RequestStates, Requests
      <4>2. PICK m \in Int : m = Min({row.absolute, a + Idle}) /\ m <= a + Idle
        <5>1. row.absolute \in Int /\ a + Idle \in Int
          BY <1>0 DEF Rows
        <5> QED
          BY <5>1, Extremes
      <4>3. sessions'[l] = [row EXCEPT !.seen = a, !.idle = m]
        BY <2>3, <3>2, <4>1, <4>2 DEF Touched
      <4>4. sessions'[l].absolute = row.absolute /\ sessions'[l].seen = a /\ sessions'[l].idle = m
        BY <4>3 DEF Rows
      <4> QED
        BY <2>3, <3>2, <4>1, <4>2, <4>4 DEF Began
    <3> QED
      BY <3>1, <3>2
  <2> QED
    BY <2>1, <2>2, <2>3, UseSteps
\* Who may use it next.
<1>4. ASSUME NEW r \in Users, req'[r].session = l, req'[r].pc \in {"select", "touch"}
      PROVE  /\ req'[r].pc = "select" => f <= req'[r].at
             /\ req'[r].pc = "touch" => Fits(uses'[l], f, req'[r].at)
  <2>1. CASE req'[r] = req[r]
    BY <1>2, <1>4, <2>1 DEF Began, At
  <2>2. CASE req'[r].pc = "select" /\ req'[r].at = now
    BY <2>2 DEF Began
  <2>3. CASE /\ At(r, "select") /\ req'[r].pc = "touch"
             /\ req'[r].session = req[r].session /\ req'[r].at = req[r].at
             /\ Resolves(sessions[req[r].session], req[r].at)
    BY <1>1, <1>2, <1>4, <2>3
  <2> QED
    BY <1>4, <2>1, <2>2, <2>3, PendingSteps
<1>5. f <= now'
  BY <1>0 DEF Began
<1> QED
  BY <1>2, <1>3, <1>4, <1>5 DEF Began, At

LEMMA LivesStep ==
  ASSUME Sound, Identified, Lives, [Next]_vars
  PROVE  Lives'
<1>1. ASSUME NEW l \in Logins, (LoginCreates(l) \/ LoginAnswerLost(l)) /\ CreateSession(l)
      PROVE  uses'[l] # {} /\ \E f \in uses'[l] : Began(l, f)'
  BY <1>1, SessionBegins
<1>2. ASSUME NEW l \in Logins, ~((LoginCreates(l) \/ LoginAnswerLost(l)) /\ CreateSession(l)), uses[l] # {}
      PROVE  uses'[l] # {} /\ \E f \in uses'[l] : Began(l, f)'
  <2>1. PICK f \in uses[l] : Began(l, f)
    BY <1>2 DEF Lives
  <2>2. uses[l] \subseteq uses'[l] /\ Began(l, f)'
    BY <1>2, <2>1, SessionGoesOn
  <2> QED
    BY <2>2
<1>3. ASSUME NEW l \in Logins, ~((LoginCreates(l) \/ LoginAnswerLost(l)) /\ CreateSession(l)), uses[l] = {}
      PROVE  uses'[l] = {} /\ ~At(l, "ok")'
  <2>1. uses'[l] = {}
    <3>1. ASSUME NEW r \in Users, req[r].session = l PROVE ~At(r, "select") /\ ~At(r, "touch")
      BY <1>3, <3>1 DEF Identified, Lives, At
    <3> QED
      BY <1>3, <3>1, UseSteps
  <2>2. ASSUME At(l, "ok")' PROVE FALSE
    <3>1. ~At(l, "ok") /\ l \in Requests /\ l \notin Users /\ l \notin Setups
      BY <1>3, DashboardAssumption DEF Lives, Requests
    <3>2. req'[l].pc = "ok" /\ req'[l] # req[l]
      BY <2>2, <3>1 DEF At
    <3>3. Answer(l) \/ Fails(l)
      <4>1. ~(At(l, "queued") /\ req'[l] = [req[l] EXCEPT !.pc = "work"])
        BY <3>1, <3>2 DEF Sound, Typed, RequestStates
      <4>2. \A p \in Replicas : ~Arrive(l, p)
        BY <3>1, <3>2, ArriveSound
      <4> QED
        BY <3>1, <3>2, <4>1, <4>2, RequestSteps
    <3>4. req[l].pc \in Waits /\ ~LoginCreates(l)
      BY <1>3, <3>1, <3>3, Moves DEF LoginCreates
    <3>5. \A pc \in (Waits \cup Answers) \ {"ok"} : ~Goes(l, pc)
      BY <3>1, <3>2, <3>4, GoesOn DEF Sound
    <3>6. ~(\/ SetupRefused(l) \/ LoginRefused(l) \/ BodyRefused(l) \/ LoginBody(l) \/ Change(l) \/ QueryFails(l)
            \/ SetupChecked(l) \/ LoginChecked(l) \/ QueueTimeout(l) \/ SetupCreates(l) \/ SetupAnswerLost(l)
            \/ LoginAnswerLost(l) \/ TouchAnswerLost(l))
      <4>1. ~Goes(l, "refused") /\ ~Goes(l, "failed") /\ ~Goes(l, "getAdmin") /\ ~Goes(l, "body")
        BY <3>5 DEF Waits, Answers
      <4>2. \A b : ~Goes(l, IF b THEN "body" ELSE "refused")
        BY <4>1
      <4>3. l \notin Changes
        BY <3>1 DEF Users
      <4> QED
        BY <3>1, <4>1, <4>2, <4>3 DEF SetupRefused, LoginRefused, BodyRefused, LoginBody, Change, QueryFails,
           SetupChecked, LoginChecked, QueueTimeout, SetupCreates, SetupAnswerLost, LoginAnswerLost, TouchAnswerLost
    <3>7. ~(SetupBody(l) \/ (LoginKnows(l) /\ admin # None))
      BY <3>1, <3>5, ComesToGate, Enter DEF Sound, Waits, Answers
    <3>8. ~(LoginKnows(l) /\ admin = None)
      BY <3>5 DEF LoginKnows, Answers
    <3>9. ~Worked(l)
      <4>1. ASSUME Worked(l) PROVE FALSE
        <5>1. PICK pc \in {"create", "failed", "refused"} : At(l, "work") /\ Leaves(l, pc)
          BY <4>1 DEF Worked
        <5>2. Timed(l, pc).pc = pc
          <6>1. req[l] \in RequestStates
            BY <3>1 DEF Sound, Typed
          <6> QED
            BY <6>1 DEF Timed, Went, RequestStates, Answers, Idler
        <5> QED
          BY <3>1, <3>2, <5>1, <5>2, Leave DEF Sound
      <4> QED
        BY <4>1
    <3>10. ~(Select(l) \/ TouchSession(l) \/ RevokeSession(l))
      BY <3>1 DEF Select, TouchSession, RevokeSession, At, Identified
    <3> QED
      BY <3>3, <3>4, <3>6, <3>7, <3>8, <3>9, <3>10 DEF Answer, Fails
  <2> QED
    BY <2>1, <2>2
<1>4. \A r \in Requests : req'[r].at <= now'
  BY TimesStep DEF Lives
<1> QED
  BY <1>1, <1>2, <1>3, <1>4 DEF Lives

\* A session is accepted only within its absolute time, and only if it was created or
\* accepted within its idle time before: although the time of a request is taken before
\* the row is read, and touches may be written in another order than their times.
THEOREM SessionsEnd == Spec => []SessionEnds
<1>1. Init => Lives
  <2> SUFFICES ASSUME Init PROVE Lives
    OBVIOUS
  <2>1. (\A r \in Requests : req[r].at = 0 /\ req[r].pc = "new") /\ now = 0 /\ \A l \in Logins : uses[l] = {}
    BY DEF Init, Idler
  <2> QED
    BY <2>1 DEF Lives, At, Requests
<1>2. Sound /\ Lives => SessionEnds
  <2> SUFFICES ASSUME Sound, Lives, NEW l \in Logins, NEW t \in 0..case.until, t \in uses[l]
               PROVE  /\ \A first \in uses[l] : t < first + Absolute
                      /\ t = Min(uses[l]) \/ \E u \in uses[l] : u < t /\ t < u + Idle
    BY DEF SessionEnds
  <2>1. PICK f \in uses[l] : Life(uses[l], f)
    BY DEF Lives, Began
  <2>2. uses[l] \in SUBSET Nat /\ Absolute \in Nat
    BY DashboardAssumption DEF Sound, Typed
  <2>3. Min(uses[l]) = f
    <3>1. \A x \in uses[l] : (\A y \in uses[l] : x <= y) => x = f
      BY <2>1, <2>2 DEF Life
    <3>2. \A y \in uses[l] : f <= y
      BY <2>1 DEF Life
    <3> QED
      BY <2>1, <3>1, <3>2 DEF Min
  <2>4. \A first \in uses[l] : t < first + Absolute
    BY <2>1, <2>2 DEF Life
  <2> QED
    BY <2>1, <2>3, <2>4 DEF Life
<1>3. Sound /\ (Identified /\ Lives) /\ [Next]_vars => (Identified /\ Lives)'
  BY IdentifiedStep, LivesStep
<1> QED
  BY <1>1, <1>2, <1>3, IdentifiedInit, SoundAlways, PTL DEF Spec

-----------------------------------------------------------------------------
(* The guesses *)

\* How many entries of G are in T.
Count(G, T) == Cardinality({i \in DOMAIN G : G[i] \in T})
From(a) == {n \in Nat : a <= n}

LEMMA CountTypes ==
  ASSUME NEW G \in Seq(Nat), NEW T
  PROVE  IsFiniteSet({i \in DOMAIN G : G[i] \in T}) /\ Count(G, T) \in Nat
<1>1. IsFiniteSet(DOMAIN G)
  <2>1. DOMAIN G = 1..Len(G) /\ Len(G) \in Nat /\ 1 \in Int
    BY LenProperties
  <2> QED
    BY <2>1, FS_Interval
<1>2. IsFiniteSet({i \in DOMAIN G : G[i] \in T})
  BY <1>1, FS_Subset
<1> QED
  BY <1>2, FS_CardinalityType DEF Count

\* Each entry in T is in U or in V.
LEMMA CountSplit ==
  ASSUME NEW G \in Seq(Nat), NEW T, NEW U, NEW V, \A i \in DOMAIN G : G[i] \in T => G[i] \in U \/ G[i] \in V
  PROVE  Count(G, T) <= Count(G, U) + Count(G, V)
<1> DEFINE t == {i \in DOMAIN G : G[i] \in T}
           u == {i \in DOMAIN G : G[i] \in U}
           v == {i \in DOMAIN G : G[i] \in V}
<1>1. /\ IsFiniteSet(t) /\ IsFiniteSet(u) /\ IsFiniteSet(v)
      /\ Cardinality(t) \in Nat /\ Cardinality(u) \in Nat /\ Cardinality(v) \in Nat
  BY CountTypes, FS_CardinalityType
<1>2. t \subseteq u \cup v
  OBVIOUS
<1> HIDE DEF t, u, v
<1>3. /\ IsFiniteSet(u \cup v) /\ IsFiniteSet(u \cap v)
      /\ Cardinality(u \cup v) = Cardinality(u) + Cardinality(v) - Cardinality(u \cap v)
  <2>1. IsFiniteSet(u \cap v)
    BY <1>1, FS_Subset
  <2> QED
    BY <1>1, <2>1, FS_Union
<1>4. Cardinality(t) <= Cardinality(u \cup v) /\ Cardinality(u \cup v) \in Nat /\ Cardinality(u \cap v) \in Nat
  BY <1>2, <1>3, FS_Subset, FS_CardinalityType
<1>5. Cardinality(t) <= Cardinality(u) + Cardinality(v)
  BY <1>1, <1>3, <1>4
<1> QED
  BY <1>5 DEF Count, t, u, v

\* What is counted.
LEMMA CountNone ==
  ASSUME NEW G \in Seq(Nat), NEW T, \A i \in DOMAIN G : G[i] \notin T
  PROVE  Count(G, T) = 0
<1>1. {i \in DOMAIN G : G[i] \in T} = {}
  OBVIOUS
<1> QED
  BY <1>1, FS_EmptySet DEF Count

LEMMA CountFewer ==
  ASSUME NEW G \in Seq(Nat), NEW T, NEW U, \A i \in DOMAIN G : G[i] \in T => G[i] \in U
  PROVE  Count(G, T) <= Count(G, U)
<1>1. Count(G, T) <= Count(G, U) + Count(G, {})
  BY CountSplit
<1>2. Count(G, {}) = 0
  BY CountNone
<1>3. Count(G, T) \in Nat /\ Count(G, U) \in Nat
  BY CountTypes
<1> QED
  BY <1>1, <1>2, <1>3

LEMMA CountAppend ==
  ASSUME NEW G \in Seq(Nat), NEW n \in Nat, NEW T
  PROVE  Count(Append(G, n), T) = IF n \in T THEN Count(G, T) + 1 ELSE Count(G, T)
<1> DEFINE H == Append(G, n)  m == Len(G) + 1
           g == {i \in DOMAIN G : G[i] \in T}
           h == {i \in DOMAIN H : H[i] \in T}
<1>1. /\ DOMAIN G = 1..Len(G) /\ Len(G) \in Nat /\ m \in Nat /\ m \notin DOMAIN G
      /\ DOMAIN H = DOMAIN G \cup {m} /\ H[m] = n /\ \A i \in DOMAIN G : H[i] = G[i]
  <2>1. DOMAIN G = 1..Len(G) /\ Len(G) \in Nat
    BY LenProperties
  <2>2. H \in Seq(Nat) /\ Len(H) = Len(G) + 1 /\ (\A i \in 1..Len(G) : H[i] = G[i]) /\ H[Len(G) + 1] = n
    BY AppendProperties
  <2>3. DOMAIN H = 1..(Len(G) + 1)
    BY <2>2, LenProperties
  <2> QED
    BY <2>1, <2>2, <2>3
<1> HIDE DEF H, m
<1>2. h = IF n \in T THEN g \cup {m} ELSE g
  BY <1>1
<1>3. IsFiniteSet(g) /\ m \notin g
  BY <1>1, CountTypes
<1> HIDE DEF g, h
<1>4. Cardinality(g \cup {m}) = Cardinality(g) + 1
  BY <1>3, FS_AddElement, Zenon
<1>5. Cardinality(h) = IF n \in T THEN Cardinality(g) + 1 ELSE Cardinality(g)
  BY <1>2, <1>4
<1> QED
  BY <1>5 DEF Count, H, g, h

\* The guesses G of an address whose entry is the one of E, if any, at time n.  The
\* window of the entry begins at s: since then at most the permitted logins have passed,
\* one of them at s itself, and in the window before s at most one fewer.  Without a live
\* entry at most one fewer have passed within a window from n.
InWindow(G, e, n) ==
  LET s == e.resetAt - Window IN
  /\ s <= n
  /\ Count(G, From(s)) <= MaxLogins /\ Count(G, From(s)) <= e.count
  /\ Count(G, From(s + 1)) <= MaxLogins - 1 /\ Count(G, From(s + 1)) <= e.count - 1
  /\ Count(G, (s - Window + 1)..(s - 1)) <= MaxLogins - 1
OutOfWindow(G, n) ==
  /\ \A i \in DOMAIN G : G[i] < n
  /\ Count(G, From(n - Window + 1)) <= MaxLogins - 1
Few(G) == \A t \in Nat : Count(G, t..(t + Window - 1)) <= 2 * MaxLogins - 1
Paced(G, E, n) ==
  /\ \A i \in DOMAIN G : G[i] <= n
  /\ Few(G)
  /\ \A e \in E : e.resetAt > n => InWindow(G, e, n)
  /\ (\A e \in E : e.resetAt <= n) => OutOfWindow(G, n)

LEMMA PacedConstants == Window \in Nat \ {0} /\ MaxLogins \in Nat \ {0}
BY DashboardAssumption

\* Nothing is remembered.
LEMMA PacedEmpty ==
  ASSUME NEW n \in Nat
  PROVE  Paced(<<>>, {}, n)
<1>1. <<>> \in Seq(Nat) /\ \A i \in DOMAIN <<>> : FALSE
  OBVIOUS
<1>2. \A T : Count(<<>>, T) = 0
  BY <1>1, CountNone
<1> QED
  BY <1>1, <1>2, PacedConstants DEF Paced, Few, OutOfWindow

\* An entry expires.
LEMMA PacedTick ==
  ASSUME NEW G \in Seq(Nat), NEW E \in SUBSET Entries, \A e, f \in E : e = f, NEW n \in Nat, Paced(G, E, n)
  PROVE  Paced(G, E, n + 1)
<1>1. \A i \in DOMAIN G : G[i] \in Nat /\ G[i] <= n
  BY LenProperties, ElementOfSeq DEF Paced
<1>2. ASSUME NEW e \in E, e.resetAt > n + 1 PROVE InWindow(G, e, n + 1)
  BY <1>2, PacedConstants DEF Paced, InWindow, Entries
<1>3. ASSUME \A e \in E : e.resetAt <= n + 1 PROVE OutOfWindow(G, n + 1)
  <2>1. CASE \A e \in E : e.resetAt <= n
    <3>1. /\ Count(G, From((n + 1) - Window + 1)) <= Count(G, From(n - Window + 1))
          /\ Count(G, From((n + 1) - Window + 1)) \in Nat /\ Count(G, From(n - Window + 1)) \in Nat
      <4>1. \A i \in DOMAIN G : G[i] \in From((n + 1) - Window + 1) => G[i] \in From(n - Window + 1)
        BY <1>1, PacedConstants DEF From
      <4> QED
        BY <4>1, CountFewer, CountTypes
    <3>2. Count(G, From(n - Window + 1)) <= MaxLogins - 1
      BY <2>1 DEF Paced, OutOfWindow
    <3> QED
      BY <1>1, <3>1, <3>2, PacedConstants DEF OutOfWindow
  <2>2. CASE \E e \in E : ~(e.resetAt <= n)
    <3>1. PICK e \in E : e.resetAt > n /\ e.resetAt = n + 1
      BY <1>3, <2>2 DEF Entries
    <3>2. InWindow(G, e, n)
      BY <3>1 DEF Paced
    <3>3. (e.resetAt - Window) + 1 = (n + 1) - Window + 1
      BY <3>1, PacedConstants
    <3>4. Count(G, From((n + 1) - Window + 1)) <= MaxLogins - 1
      BY <3>2, <3>3 DEF InWindow
    <3> QED
      BY <1>1, <3>4 DEF OutOfWindow
  <2> QED
    BY <2>1, <2>2
<1> QED
  BY <1>1, <1>2, <1>3 DEF Paced

\* A first guess opens a window.
LEMMA PacedNew ==
  ASSUME NEW G \in Seq(Nat), NEW E \in SUBSET Entries, NEW n \in Nat, Paced(G, E, n),
         \A e \in E : e.resetAt <= n, NEW e \in Entries, e.count = 1, e.resetAt = n + Window
  PROVE  Paced(Append(G, n), {e}, n)
<1> DEFINE H == Append(G, n)
<1>1. /\ H \in Seq(Nat) /\ DOMAIN H = DOMAIN G \cup {Len(G) + 1}
      /\ (\A i \in DOMAIN G : H[i] = G[i] /\ G[i] \in Nat) /\ H[Len(G) + 1] = n
  <2>1. DOMAIN G = 1..Len(G) /\ Len(G) \in Nat /\ \A i \in 1..Len(G) : G[i] \in Nat
    BY LenProperties, ElementOfSeq
  <2>2. H \in Seq(Nat) /\ Len(H) = Len(G) + 1 /\ (\A i \in 1..Len(G) : H[i] = G[i]) /\ H[Len(G) + 1] = n
    BY AppendProperties
  <2>3. DOMAIN H = 1..(Len(G) + 1)
    BY <2>2, LenProperties
  <2> QED
    BY <2>1, <2>2, <2>3
<1>2. OutOfWindow(G, n)
  BY DEF Paced
<1>3. \A T : Count(G, T) \in Nat /\ Count(H, T) = IF n \in T THEN Count(G, T) + 1 ELSE Count(G, T)
  BY CountTypes, CountAppend
<1> HIDE DEF H
<1>4. \A i \in DOMAIN H : H[i] <= n
  BY <1>1, <1>2 DEF OutOfWindow
<1>5. InWindow(H, e, n)
  <2>1. e.resetAt - Window = n
    BY PacedConstants
  <2>2. Count(G, From(n)) = 0 /\ Count(G, From(n + 1)) = 0
    <3>1. \A i \in DOMAIN G : G[i] \notin From(n) /\ G[i] \notin From(n + 1)
      BY <1>1, <1>2 DEF OutOfWindow, From
    <3> QED
      BY <3>1, CountNone
  <2>3. Count(H, From(n)) = 1 /\ Count(H, From(n + 1)) = 0
    BY <1>3, <2>2 DEF From
  <2>4. Count(H, (n - Window + 1)..(n - 1)) <= MaxLogins - 1
    <3>1. \A i \in DOMAIN G : G[i] \in (n - Window + 1)..(n - 1) => G[i] \in From(n - Window + 1)
      BY <1>1, PacedConstants DEF From
    <3>2. Count(G, (n - Window + 1)..(n - 1)) <= Count(G, From(n - Window + 1))
      BY <3>1, CountFewer
    <3>3. Count(H, (n - Window + 1)..(n - 1)) = Count(G, (n - Window + 1)..(n - 1))
      <4>1. n \notin (n - Window + 1)..(n - 1)
        OBVIOUS
      <4> QED
        BY <1>3, <4>1
    <3>4. Count(G, From(n - Window + 1)) <= MaxLogins - 1
      BY <1>2 DEF OutOfWindow
    <3> QED
      BY <1>3, <3>2, <3>3, <3>4, PacedConstants
  <2> QED
    BY <2>1, <2>3, <2>4, PacedConstants DEF InWindow
<1>6. Few(H)
  <2> SUFFICES ASSUME NEW t \in Nat PROVE Count(H, t..(t + Window - 1)) <= 2 * MaxLogins - 1
    BY DEF Few
  <2>1. CASE n \in t..(t + Window - 1)
    <3>1. \A i \in DOMAIN G : G[i] \in t..(t + Window - 1) => G[i] \in From(n - Window + 1)
      BY <1>1, <2>1, PacedConstants DEF From
    <3>2. Count(G, t..(t + Window - 1)) <= Count(G, From(n - Window + 1))
      BY <3>1, CountFewer
    <3>3. Count(G, From(n - Window + 1)) <= MaxLogins - 1
      BY <1>2 DEF OutOfWindow
    <3>4. Count(H, t..(t + Window - 1)) = Count(G, t..(t + Window - 1)) + 1
      BY <1>3, <2>1
    <3>5. Count(G, t..(t + Window - 1)) \in Nat /\ Count(G, From(n - Window + 1)) \in Nat
      BY <1>3
    <3> QED
      BY <3>2, <3>3, <3>4, <3>5, PacedConstants
  <2>2. CASE n \notin t..(t + Window - 1)
    BY <1>3, <2>2 DEF Paced, Few
  <2> QED
    BY <2>1, <2>2
<1>7. e.resetAt > n /\ ~(e.resetAt <= n)
  BY PacedConstants
<1>8. Paced(H, {e}, n)
  BY <1>4, <1>5, <1>6, <1>7 DEF Paced
<1> QED
  BY <1>8 DEF H

\* A guess within the window.
LEMMA PacedAgain ==
  ASSUME NEW G \in Seq(Nat), NEW e \in Entries, NEW n \in Nat, Paced(G, {e}, n), e.resetAt > n,
         e.count < MaxLogins, NEW f \in Entries, f.count = e.count + 1, f.resetAt = e.resetAt
  PROVE  Paced(Append(G, n), {f}, n)
<1> DEFINE H == Append(G, n)
           s == e.resetAt - Window
<1>1. /\ H \in Seq(Nat) /\ DOMAIN H = DOMAIN G \cup {Len(G) + 1}
      /\ (\A i \in DOMAIN G : H[i] = G[i] /\ G[i] \in Nat) /\ H[Len(G) + 1] = n
  <2>1. DOMAIN G = 1..Len(G) /\ Len(G) \in Nat /\ \A i \in 1..Len(G) : G[i] \in Nat
    BY LenProperties, ElementOfSeq
  <2>2. H \in Seq(Nat) /\ Len(H) = Len(G) + 1 /\ (\A i \in 1..Len(G) : H[i] = G[i]) /\ H[Len(G) + 1] = n
    BY AppendProperties
  <2>3. DOMAIN H = 1..(Len(G) + 1)
    BY <2>2, LenProperties
  <2> QED
    BY <2>1, <2>2, <2>3
<1>2. s \in Int /\ s <= n /\ n < s + Window /\ e.count \in Nat
  BY PacedConstants DEF Paced, InWindow, Entries
<1>3. /\ Count(G, From(s)) <= e.count /\ Count(G, From(s + 1)) <= e.count - 1
      /\ Count(G, (s - Window + 1)..(s - 1)) <= MaxLogins - 1
  BY DEF Paced, InWindow
<1>4. \A T : Count(G, T) \in Nat /\ Count(H, T) = IF n \in T THEN Count(G, T) + 1 ELSE Count(G, T)
  BY CountTypes, CountAppend
<1> HIDE DEF H, s
<1>5. \A i \in DOMAIN H : H[i] <= n
  BY <1>1 DEF Paced
<1>6. InWindow(H, f, n)
  <2>1. Count(H, From(s)) <= e.count + 1 /\ Count(H, From(s + 1)) <= e.count
    <3>1. ASSUME NEW T, NEW c \in Int, Count(G, T) <= c PROVE Count(H, T) <= c + 1
      <4>1. Count(G, T) \in Nat /\ Count(H, T) = IF n \in T THEN Count(G, T) + 1 ELSE Count(G, T)
        BY <1>4
      <4> QED
        BY <3>1, <4>1
    <3>2. e.count \in Int /\ e.count - 1 \in Int /\ (e.count - 1) + 1 = e.count
      BY <1>2
    <3>3. Count(H, From(s + 1)) <= (e.count - 1) + 1
      BY <1>3, <3>1, <3>2
    <3> QED
      BY <1>3, <3>1, <3>2, <3>3
  <2>2. Count(H, (s - Window + 1)..(s - 1)) <= MaxLogins - 1
    <3>1. n \notin (s - Window + 1)..(s - 1)
      BY <1>2
    <3>2. Count(H, (s - Window + 1)..(s - 1)) = Count(G, (s - Window + 1)..(s - 1))
      BY <1>4, <3>1
    <3> QED
      BY <1>3, <3>2
  <2>3. Count(H, From(s)) \in Nat /\ Count(H, From(s + 1)) \in Nat
    BY <1>1, CountTypes
  <2>4. f.resetAt - Window = s
    BY DEF s
  <2>5. /\ Count(H, From(s)) <= MaxLogins /\ Count(H, From(s)) <= f.count
        /\ Count(H, From(s + 1)) <= MaxLogins - 1 /\ Count(H, From(s + 1)) <= f.count - 1
    BY <1>2, <2>1, <2>3, PacedConstants
  <2> QED
    BY <1>2, <2>2, <2>4, <2>5 DEF InWindow
<1>7. Few(H)
  <2> SUFFICES ASSUME NEW t \in Nat PROVE Count(H, t..(t + Window - 1)) <= 2 * MaxLogins - 1
    BY DEF Few
  <2>1. CASE n \in t..(t + Window - 1)
    <3>1. \A i \in DOMAIN G : G[i] \in t..(t + Window - 1) => G[i] \in From(s) \/ G[i] \in (s - Window + 1)..(s - 1)
      BY SMTT(30), <1>1, <1>2, <2>1, PacedConstants DEF From
    <3>2. Count(G, t..(t + Window - 1)) <= Count(G, From(s)) + Count(G, (s - Window + 1)..(s - 1))
      BY <3>1, CountSplit
    <3>3. Count(H, t..(t + Window - 1)) = Count(G, t..(t + Window - 1)) + 1
      BY <1>4, <2>1
    <3>4. /\ Count(G, t..(t + Window - 1)) \in Nat /\ Count(G, From(s)) \in Nat
          /\ Count(G, (s - Window + 1)..(s - 1)) \in Nat
      BY <1>4
    <3>5. Count(G, From(s)) <= MaxLogins - 1 /\ MaxLogins \in Int
      <4>1. Count(G, From(s)) <= e.count /\ e.count <= MaxLogins - 1
        BY <1>2, <1>3, PacedConstants
      <4> QED
        BY <1>2, <3>4, <4>1, PacedConstants
    <3>6. Count(G, (s - Window + 1)..(s - 1)) <= MaxLogins - 1
      BY <1>3
    <3>7. ASSUME NEW all \in Int, NEW since \in Int, NEW before \in Int,
                 all <= since + before, since <= MaxLogins - 1, before <= MaxLogins - 1
          PROVE  all + 1 <= 2 * MaxLogins - 1
      BY <3>5, <3>7
    <3> QED
      BY <3>2, <3>3, <3>4, <3>5, <3>6, <3>7
  <2>2. CASE n \notin t..(t + Window - 1)
    BY <1>4, <2>2 DEF Paced, Few
  <2> QED
    BY <2>1, <2>2
<1>8. f.resetAt > n /\ ~(f.resetAt <= n)
  BY DEF Entries
<1>9. Paced(H, {f}, n)
  BY <1>5, <1>6, <1>7, <1>8 DEF Paced
<1> QED
  BY <1>9 DEF H

\* A guess that is refused.
LEMMA PacedRefused ==
  ASSUME NEW G \in Seq(Nat), NEW e \in Entries, NEW n \in Nat, Paced(G, {e}, n), e.resetAt > n,
         NEW f \in Entries, f.count >= MaxLogins, f.resetAt = e.resetAt
  PROVE  Paced(G, {f}, n)
<1>1. InWindow(G, e, n)
  BY DEF Paced
<1>2. \A T : Count(G, T) \in Nat
  BY CountTypes
<1>3. InWindow(G, f, n)
  <2> DEFINE a == Count(G, From(e.resetAt - Window))  b == Count(G, From((e.resetAt - Window) + 1))
  <2>1. a \in Nat /\ b \in Nat /\ a <= MaxLogins /\ b <= MaxLogins - 1 /\ f.count \in Nat
    BY <1>1, <1>2 DEF InWindow, Entries
  <2>2. a <= f.count /\ b <= f.count - 1
    BY <2>1, PacedConstants
  <2> QED
    BY <1>1, <2>2 DEF InWindow
<1> QED
  BY <1>3 DEF Paced

\* An expired entry is dropped.
LEMMA PacedForgotten ==
  ASSUME NEW G, NEW E, NEW n, Paced(G, E, n), \A e \in E : e.resetAt <= n
  PROVE  Paced(G, {}, n)
BY DEF Paced

\* What check() does to the entry of its own address and to those of others.
Leaving(L, ip, maximum, c) ==
  /\ \A other \in Ips \ {ip} :
       EntryOf(c.entries, other) = EntryOf(L, other) \/ EntryOf(c.entries, other) = {}
  /\ \/ /\ c.allowed /\ \A e \in EntryOf(L, ip) : e.resetAt <= now
        /\ \E f \in Entries :
             EntryOf(c.entries, ip) = {f} /\ f.count = 1 /\ f.resetAt = now + Window
     \/ \E e, f \in Entries :
          /\ EntryOf(L, ip) = {e} /\ e.resetAt > now
          /\ EntryOf(c.entries, ip) = {f} /\ f.resetAt = e.resetAt
          /\ f.count = IF e.count < maximum THEN e.count + 1 ELSE maximum + 1
          /\ c.allowed = (e.count < maximum)

LEMMA CheckLeaves ==
  ASSUME Typed, NEW L \in SUBSET Entries, LimiterOK(L), NEW ip \in Ips, NEW maximum \in Nat,
         NEW c \in Check(L, ip, maximum)
  PROVE  Leaving(L, ip, maximum, c)
<1> DEFINE current == EntryOf(L, ip)
           first == [ip |-> ip, count |-> 1, resetAt |-> now + Window]
<1>1. /\ first \in Entries /\ first.ip = ip /\ first.count = 1 /\ first.resetAt = now + Window
      /\ now \in Nat /\ MaxKeys \in Nat \ {0}
  BY DashboardAssumption DEF Typed, Entries
<1>2. ASSUME NEW M \in SUBSET L, EntryOf(M, ip) = {}, NEW f, f.ip = ip
      PROVE  /\ EntryOf(M \cup {f}, ip) = {f}
             /\ \A other \in Ips \ {ip} : EntryOf(M \cup {f}, other) = EntryOf(M, other)
  BY <1>2 DEF EntryOf
<1>3. EntryOf(L \ current, ip) = {} /\ \A other \in Ips \ {ip} : EntryOf(L \ current, other) = EntryOf(L, other)
  BY DEF EntryOf
<1>4. CASE current \cap Expired(L) = current
  <2>1. PICK M \in IF current = {} /\ Cardinality(L) >= MaxKeys THEN Evictions(L) ELSE {L \ current} :
          c = [entries |-> M \cup {first}, allowed |-> TRUE]
    BY <1>4 DEF Check
  <2>2. /\ M \in SUBSET L /\ EntryOf(M, ip) = {}
        /\ \A other \in Ips \ {ip} : EntryOf(M, other) = EntryOf(L, other) \/ EntryOf(M, other) = {}
    <3>1. CASE current = {} /\ Cardinality(L) >= MaxKeys
      <4>1. M \in SUBSET L
        BY <2>1, <3>1 DEF Evictions
      <4>2. EntryOf(M, ip) = {}
        BY <3>1, <4>1 DEF EntryOf
      <4>3. ASSUME NEW other \in Ips, EntryOf(M, other) # {} PROVE EntryOf(M, other) = EntryOf(L, other)
        BY <4>1, <4>3 DEF EntryOf, LimiterOK
      <4> QED
        BY <4>1, <4>2, <4>3
    <3>2. CASE ~(current = {} /\ Cardinality(L) >= MaxKeys)
      BY <1>3, <2>1, <3>2
    <3> QED
      BY <3>1, <3>2
  <2>3. \A e \in current : e.resetAt <= now
    BY <1>4 DEF Expired
  <2>4. c.entries = M \cup {first} /\ c.allowed
    BY <2>1
  <2> HIDE DEF first
  <2>5. /\ EntryOf(c.entries, ip) = {first}
        /\ \A other \in Ips \ {ip} : EntryOf(c.entries, other) = EntryOf(M, other)
    BY <1>1, <1>2, <2>2, <2>4
  <2> QED
    BY <1>1, <2>2, <2>3, <2>4, <2>5 DEF Leaving
<1>5. CASE current \cap Expired(L) # current
  <2> DEFINE e == CHOOSE e \in current : TRUE
             n == Min({maximum + 1, e.count + 1})
             f == [e EXCEPT !.count = n]
  <2>1. e \in current /\ e \in Entries /\ e.ip = ip
    BY <1>5 DEF EntryOf
  <2>2. c = [entries |-> (L \ current) \cup {f}, allowed |-> e.count < maximum]
    BY <1>5 DEF Check
  <2>3. n = IF e.count < maximum THEN e.count + 1 ELSE maximum + 1
    <3>1. e.count \in Nat /\ e.count + 1 \in Int /\ maximum + 1 \in Int
      BY <2>1 DEF Entries
    <3>2. n = IF maximum + 1 <= e.count + 1 THEN maximum + 1 ELSE e.count + 1
      BY <3>1, Extremes
    <3> QED
      BY <3>1, <3>2
  <2> HIDE DEF e, n
  <2>4. n \in Nat
    BY <2>1, <2>3 DEF Entries
  <2>5. f \in Entries /\ f.ip = ip /\ f.count = n /\ f.resetAt = e.resetAt
    BY <2>1, <2>4 DEF Entries
  <2> HIDE DEF f
  <2>6. current = {e}
    BY <2>1 DEF EntryOf, LimiterOK
  <2>7. e.resetAt > now
    BY <1>1, <1>5, <2>1, <2>6 DEF Expired, EntryOf, Entries
  <2>8. /\ EntryOf(c.entries, ip) = {f}
        /\ \A other \in Ips \ {ip} : EntryOf(c.entries, other) = EntryOf(L, other)
    <3>1. L \ current \in SUBSET L /\ c.entries = (L \ current) \cup {f}
      BY <2>2
    <3> DEFINE M == L \ current
    <3>2. M \in SUBSET L /\ EntryOf(M, ip) = {} /\ f.ip = ip
      BY <1>3, <2>5
    <3> HIDE DEF M
    <3>3. /\ EntryOf(M \cup {f}, ip) = {f}
          /\ \A other \in Ips \ {ip} : EntryOf(M \cup {f}, other) = EntryOf(M, other)
      BY <1>2, <3>2
    <3>4. M = L \ current
      BY DEF M
    <3> QED
      BY <1>3, <3>1, <3>3, <3>4
  <2>9. c.allowed = (e.count < maximum)
    BY <2>2
  <2> QED
    BY <2>1, <2>3, <2>5, <2>6, <2>7, <2>8, <2>9 DEF Leaving
<1> QED
  BY <1>4, <1>5

Guesses ==
  \A p \in Replicas, ip \in Ips : Paced(guesses[p][ip], EntryOf(replica[p].logins, ip), now)

\* An address that is forgotten, or whose entry is kept, at a check of another.
LEMMA PacedBeside ==
  ASSUME Sound, Limiters, NEW p \in Replicas, NEW ip \in Ips, NEW L,
         Paced(guesses[p][ip], EntryOf(replica[p].logins, ip), now),
         EntryOf(L, ip) = EntryOf(replica[p].logins, ip) \/ EntryOf(L, ip) = {}
  PROVE  Paced(Remembered(p, L)[ip], EntryOf(L, ip), now)
<1>1. now \in Nat /\ replica[p].logins \in SUBSET Entries
  BY DEF Sound, Typed, ReplicaStates
<1>2. CASE \E e \in replica[p].logins \ Expired(replica[p].logins) : e.ip = ip /\ EntryOf(L, ip) = {}
  <2>1. Remembered(p, L)[ip] = <<>> /\ EntryOf(L, ip) = {}
    BY <1>2 DEF Remembered
  <2> QED
    BY <1>1, <2>1, PacedEmpty
<1>3. CASE ~\E e \in replica[p].logins \ Expired(replica[p].logins) : e.ip = ip /\ EntryOf(L, ip) = {}
  <2>1. Remembered(p, L)[ip] = guesses[p][ip]
    BY <1>3 DEF Remembered
  <2>2. CASE EntryOf(L, ip) = EntryOf(replica[p].logins, ip)
    BY <2>1, <2>2
  <2>3. CASE EntryOf(L, ip) = {}
    <3>1. \A e \in EntryOf(replica[p].logins, ip) : e.resetAt <= now
      BY <1>3, <2>3 DEF EntryOf, Expired
    <3> QED
      BY <2>1, <2>3, <3>1, PacedForgotten
  <2> QED
    BY <2>2, <2>3
<1> QED
  BY <1>2, <1>3

\* A guess that is checked.
LEMMA GuessChecked ==
  ASSUME Sound, Limiters, Guesses, NEW r \in Requests, LoginChecked(r)
  PROVE  Guesses'
<1>1. PICK p \in Replicas : p = req[r].on
  BY DEF Sound, Typed, LoginChecked, At, Waits
<1>2. PICK ip \in Ips : ip = req[r].ip
  BY DEF Sound, Typed, LoginChecked, At, Waits
<1>3. PICK L \in SUBSET Entries : L = replica[p].logins
  BY DEF Sound, Typed, ReplicaStates
<1>4. PICK c \in Check(L, ip, MaxLogins) :
        /\ replica' = [replica EXCEPT ![p].logins = c.entries]
        /\ guesses' = [guesses EXCEPT ![p] =
             [Remembered(p, c.entries) EXCEPT ![ip] = IF c.allowed THEN Append(@, now) ELSE @]]
  BY <1>1, <1>2, <1>3 DEF LoginChecked, Here
<1>5. /\ \A q \in Replicas \ {p} : replica'[q] = replica[q] /\ guesses'[q] = guesses[q]
      /\ replica'[p].logins = c.entries
      /\ \A other \in Ips \ {ip} : guesses'[p][other] = Remembered(p, c.entries)[other]
      /\ guesses'[p][ip] = IF c.allowed THEN Append(Remembered(p, c.entries)[ip], now)
                           ELSE Remembered(p, c.entries)[ip]
      /\ now' = now
  <2>1. PICK x \in ReplicaStates : x = replica[p]
    BY DEF Sound, Typed
  <2>2. replica' = [replica EXCEPT ![p] = [x EXCEPT !.logins = c.entries]]
    BY <1>4, <2>1
  <2>3. PICK R : R = Remembered(p, c.entries)
    OBVIOUS
  <2>4. DOMAIN R = Ips
    BY <2>3 DEF Remembered
  <2>5. guesses' = [guesses EXCEPT ![p] = [R EXCEPT ![ip] = IF c.allowed THEN Append(@, now) ELSE @]]
    BY <1>4, <2>3
  <2>6. replica'[p].logins = c.entries /\ \A q \in Replicas \ {p} : replica'[q] = replica[q]
    BY <2>2 DEF Sound, Typed, ReplicaStates
  <2>7. /\ guesses'[p] = [R EXCEPT ![ip] = IF c.allowed THEN Append(@, now) ELSE @]
        /\ \A q \in Replicas \ {p} : guesses'[q] = guesses[q]
    BY <2>5 DEF Sound, Typed
  <2>8. guesses'[p][ip] = IF c.allowed THEN Append(R[ip], now) ELSE R[ip]
    BY <2>4, <2>7
  <2>9. \A other \in Ips \ {ip} : guesses'[p][other] = R[other]
    BY <2>4, <2>7
  <2> QED
    BY <2>3, <2>6, <2>7, <2>8, <2>9 DEF LoginChecked, Same
<1>6. Leaving(L, ip, MaxLogins, c)
  <2>1. Typed /\ LimiterOK(L) /\ MaxLogins \in Nat
    BY <1>3, PacedConstants DEF Sound, Limiters
  <2> QED
    BY <2>1, CheckLeaves
<1>7. \A q \in Replicas \ {p}, other \in Ips :
        Paced(guesses'[q][other], EntryOf(replica'[q].logins, other), now')
  BY <1>5 DEF Guesses
<1>8. \A other \in Ips \ {ip} : Paced(guesses'[p][other], EntryOf(replica'[p].logins, other), now')
  <2>1. ASSUME NEW other \in Ips \ {ip}
        PROVE  Paced(Remembered(p, c.entries)[other], EntryOf(c.entries, other), now)
    BY <1>3, <1>6, PacedBeside DEF Guesses, Leaving
  <2> QED
    BY <1>5, <2>1
<1>9. Paced(guesses'[p][ip], EntryOf(replica'[p].logins, ip), now')
  <2> DEFINE G == guesses[p][ip]
  <2>1. G \in Seq(Nat) /\ now \in Nat /\ Paced(G, EntryOf(L, ip), now)
    BY <1>3 DEF Sound, Typed, Guesses
  <2>2. EntryOf(c.entries, ip) # {}
    BY <1>6 DEF Leaving
  <2>3. Remembered(p, c.entries)[ip] = G
    BY <2>2 DEF Remembered
  <2>4. guesses'[p][ip] = IF c.allowed THEN Append(G, now) ELSE G
    BY <1>5, <2>3
  <2> HIDE DEF G
  <2>5. ASSUME c.allowed, \A e \in EntryOf(L, ip) : e.resetAt <= now,
               NEW f \in Entries, EntryOf(c.entries, ip) = {f}, f.count = 1, f.resetAt = now + Window
        PROVE  Paced(guesses'[p][ip], EntryOf(c.entries, ip), now)
    <3>1. EntryOf(L, ip) \in SUBSET Entries
      BY DEF EntryOf
    <3>2. Paced(Append(G, now), {f}, now)
      BY <2>1, <2>5, <3>1, PacedNew
    <3> QED
      BY <2>4, <2>5, <3>2
  <2>6. ASSUME NEW e \in Entries, NEW f \in Entries, EntryOf(L, ip) = {e}, e.resetAt > now,
               EntryOf(c.entries, ip) = {f}, f.resetAt = e.resetAt,
               f.count = IF e.count < MaxLogins THEN e.count + 1 ELSE MaxLogins + 1,
               c.allowed = (e.count < MaxLogins)
        PROVE  Paced(guesses'[p][ip], EntryOf(c.entries, ip), now)
    <3>1. Paced(G, {e}, now) /\ e.count \in Nat
      BY <2>1, <2>6 DEF Entries
    <3>2. CASE e.count < MaxLogins
      <4>1. f.count = e.count + 1
        BY <2>6, <3>2
      <4>2. Paced(Append(G, now), {f}, now)
        BY <2>1, <2>6, <3>1, <3>2, <4>1, PacedAgain
      <4> QED
        BY <2>4, <2>6, <3>2, <4>2
    <3>3. CASE ~(e.count < MaxLogins)
      <4>1. f.count >= MaxLogins
        BY <2>6, <3>3, PacedConstants
      <4>2. Paced(G, {f}, now)
        BY <2>1, <2>6, <3>1, <4>1, PacedRefused
      <4> QED
        BY <2>4, <2>6, <3>3, <4>2
    <3> QED
      BY <3>2, <3>3
  <2> QED
    BY <1>5, <1>6, <2>5, <2>6 DEF Leaving
<1> QED
  BY <1>7, <1>8, <1>9 DEF Guesses

\* An address whose guesses were right is forgotten.
LEMMA GuessForgotten ==
  ASSUME Sound, Guesses, NEW r \in Requests, LoginCreates(r)
  PROVE  Guesses'
<1>1. PICK p \in Replicas : p = req[r].on
  BY DEF Sound, Typed, LoginCreates, At, Waits
<1>2. PICK ip \in Ips : ip = req[r].ip
  BY DEF Sound, Typed, LoginCreates, At, Waits
<1>3. PICK x \in ReplicaStates : x = replica[p]
  BY DEF Sound, Typed
<1>4. replica' = [replica EXCEPT ![p] = [x EXCEPT !.logins = x.logins \ EntryOf(x.logins, ip)]]
  BY <1>1, <1>2, <1>3 DEF LoginCreates
<1>5. /\ \A q \in Replicas \ {p} : replica'[q] = replica[q]
      /\ replica'[p].logins = x.logins \ EntryOf(x.logins, ip)
  BY <1>4 DEF Sound, Typed, ReplicaStates
<1>6. /\ \A q \in Replicas \ {p} : guesses'[q] = guesses[q]
      /\ \A other \in Ips \ {ip} : guesses'[p][other] = guesses[p][other]
      /\ guesses'[p][ip] = <<>>
      /\ now' = now /\ now \in Nat
  <2>1. guesses' = [guesses EXCEPT ![p][ip] = <<>>]
    BY <1>1, <1>2 DEF LoginCreates
  <2> QED
    BY <2>1 DEF Sound, Typed, LoginCreates, Same
<1>7. /\ EntryOf(replica'[p].logins, ip) = {}
      /\ \A other \in Ips \ {ip} : EntryOf(replica'[p].logins, other) = EntryOf(replica[p].logins, other)
  BY <1>3, <1>5 DEF EntryOf
<1>8. Paced(<<>>, {}, now)
  BY <1>6, PacedEmpty
<1> QED
  BY ZenonT(30), <1>5, <1>6, <1>7, <1>8 DEF Guesses

LEMMA GuessesStep ==
  ASSUME Sound, Limiters, Guesses, [Next]_vars
  PROVE  Guesses'
<1>1. \A p \in Replicas, ip \in Ips :
        /\ guesses[p][ip] \in Seq(Nat) /\ EntryOf(replica[p].logins, ip) \in SUBSET Entries
        /\ \A e, f \in EntryOf(replica[p].logins, ip) : e = f
  <2>1. ASSUME NEW p \in Replicas, NEW ip \in Ips
        PROVE  /\ guesses[p][ip] \in Seq(Nat) /\ EntryOf(replica[p].logins, ip) \in SUBSET Entries
               /\ \A e, f \in EntryOf(replica[p].logins, ip) : e = f
    BY DEF Sound, Typed, ReplicaStates, EntryOf, Limiters, LimiterOK
  <2> QED
    BY <2>1
<1>2. CASE (\A p \in Replicas : UNCHANGED <<replica[p].setups, replica[p].logins>>) /\ UNCHANGED guesses
  <2>1. CASE now' = now
    BY <1>2, <2>1 DEF Guesses, EntryOf
  <2>2. CASE Tick
    <3>1. now' = now + 1 /\ now \in Nat
      BY <2>2 DEF Tick, Sound, Typed
    <3>2. ASSUME NEW p \in Replicas, NEW ip \in Ips
          PROVE  Paced(guesses[p][ip], EntryOf(replica[p].logins, ip), now + 1)
      <4> DEFINE G == guesses[p][ip]  E == EntryOf(replica[p].logins, ip)
      <4>1. G \in Seq(Nat) /\ E \in SUBSET Entries /\ \A e, f \in E : e = f
        BY <1>1
      <4>2. Paced(G, E, now)
        BY DEF Guesses
      <4> HIDE DEF G, E
      <4>3. Paced(G, E, now + 1)
        BY <3>1, <4>1, <4>2, PacedTick
      <4> QED
        BY <4>3 DEF G, E
    <3> QED
      BY <1>2, <3>1, <3>2 DEF Guesses, EntryOf
  <2> QED
    BY <2>1, <2>2, Clock
<1>3. ASSUME NEW r \in Requests, SetupChecked(r) \/ SetupCreates(r)
      PROVE  Guesses'
  <2>1. PICK p \in Replicas : p = req[r].on
    BY <1>3 DEF Sound, Typed, SetupChecked, SetupCreates, At, Waits
  <2>2. PICK x \in ReplicaStates : x = replica[p]
    BY DEF Sound, Typed
  <2>3. \A q \in Replicas : replica'[q].logins = replica[q].logins
    <3>1. CASE UNCHANGED replica
      BY <3>1
    <3>2. CASE SetupChecked(r)
      <4>1. PICK E : replica' = [replica EXCEPT ![p].setups = E]
        BY <2>1, <3>2 DEF SetupChecked
      <4> QED
        BY <4>1 DEF Sound, Typed, ReplicaStates
    <3>3. CASE replica' = [replica EXCEPT ![p].token = FALSE, ![p].setups = @ \ EntryOf(@, req[r].ip)]
      <4>1. replica' = [replica EXCEPT ![p] =
              [x EXCEPT !.token = FALSE, !.setups = x.setups \ EntryOf(x.setups, req[r].ip)]]
        BY <2>2, <3>3 DEF ReplicaStates, Sound, Typed
      <4> QED
        BY <2>2, <4>1 DEF Sound, Typed, ReplicaStates
    <3> QED
      BY <1>3, <2>1, <3>1, <3>2, <3>3 DEF SetupCreates
  <2>4. guesses' = guesses /\ now' = now
    BY <1>3 DEF SetupChecked, SetupCreates, Same, history
  <2> QED
    BY <2>3, <2>4 DEF Guesses, EntryOf
<1>4. ASSUME NEW p \in Replicas, Restart(p) PROVE Guesses'
  <2>1. PICK token \in BOOLEAN : replica' = [replica EXCEPT ![p] = [Fresh EXCEPT !.token = token]]
    BY <1>4 DEF Restart
  <2>2. replica'[p].logins = {} /\ \A q \in Replicas \ {p} : replica'[q] = replica[q]
    BY <2>1 DEF Fresh, Sound, Typed
  <2>3. /\ \A q \in Replicas \ {p} : guesses'[q] = guesses[q]
        /\ \A ip \in Ips : guesses'[p][ip] = <<>>
        /\ now' = now /\ now \in Nat
    BY <1>4 DEF Restart, Sound, Typed
  <2>4. Paced(<<>>, {}, now) /\ \A ip \in Ips : EntryOf({}, ip) = {}
    BY <2>3, PacedEmpty DEF EntryOf
  <2>5. \A ip \in Ips : Paced(guesses'[p][ip], EntryOf(replica'[p].logins, ip), now')
    BY <2>2, <2>3, <2>4
  <2>6. \A q \in Replicas \ {p}, ip \in Ips :
          Paced(guesses'[q][ip], EntryOf(replica'[q].logins, ip), now')
    BY <2>2, <2>3 DEF Guesses
  <2> QED
    BY <2>5, <2>6 DEF Guesses, EntryOf
<1> QED
  BY <1>2, <1>3, <1>4, GuessChecked, GuessForgotten, Limited

LEMMA GuessesInit == Init => Limiters /\ Guesses
<1> SUFFICES ASSUME Init PROVE Limiters /\ Guesses
  OBVIOUS
<1>1. \A p \in Replicas : replica[p].setups = {} /\ replica[p].logins = {}
  BY DEF Init, Fresh
<1>2. \A p \in Replicas, ip \in Ips : guesses[p][ip] = <<>> /\ EntryOf(replica[p].logins, ip) = {}
  BY <1>1 DEF Init, EntryOf
<1>3. LimiterOK({})
  BY FS_EmptySet, DashboardAssumption DEF LimiterOK
<1>4. Paced(<<>>, {}, now)
  BY PacedEmpty DEF Init
<1> QED
  BY <1>1, <1>2, <1>3, <1>4 DEF Limiters, Guesses

\* However the windows of a limiter follow each other, an address of which the limiter
\* keeps the entry gets fewer than twice the permitted logins past it within any time as
\* long as a window.
THEOREM GuessesAreBounded == Spec => []GuessesBounded
<1>1. Sound /\ (Limiters /\ Guesses) /\ [Next]_vars => (Limiters /\ Guesses)'
  BY LimitersStep, GuessesStep
<1>2. Sound /\ Limiters /\ Guesses => GuessesBounded
  <2> SUFFICES ASSUME Sound, Guesses, NEW p \in Replicas, NEW ip \in Ips, NEW t \in 0..case.until
               PROVE  Count(guesses[p][ip], t..(t + Window - 1)) <= 2 * MaxLogins - 1
    BY DEF GuessesBounded, Count
  <2>1. t \in Nat
    BY DashboardAssumption DEF Sound, Typed
  <2> QED
    BY <2>1 DEF Guesses, Paced, Few
<1> QED
  BY <1>1, <1>2, GuessesInit, SoundAlways, PTL DEF Spec
=============================================================================
