------------------------------ MODULE Dashboard ------------------------------
(***************************************************************************)
(* Setup, login and sessions of the dashboard, over replicas that share a  *)
(* database (src/src/node/dashboard.ts, dashboard-security.ts and the      *)
(* stores).                                                                *)
(*                                                                         *)
(* A replica keeps, in memory, its setup token, the attempts of each       *)
(* address and the gate before the password hash; the administrator and    *)
(* the sessions are in the database.  A request is at pc until its answer; *)
(* between two awaits it runs alone in its replica.  Each query is a step, *)
(* as in PostgreSQL: over SQLite the queries of one turn come together,    *)
(* which is one of the behaviours here.  An answer may be lost after the   *)
(* query has taken effect, and a replica may restart.                      *)
(*                                                                         *)
(* A session is named by the login that creates it.  The session version   *)
(* is left out: nothing in the code ever changes the administrator's.      *)
(***************************************************************************)
EXTENDS Integers, FiniteSets, SequencesExt, FiniteSetsExt

CONSTANTS
  Replicas, Ips,
  Setups, Logins,            \* requests
  Views, Logouts, Changes,   \* requests with a session: a page or the snapshot, a
                             \* logout, a change of the authorization
  Cases,                     \* what a behaviour may have, see DashboardAssumption
  None,
  MaxSetups, MaxLogins,      \* attempts of an address per window (5 and 8)
  Window,                    \* of the attempts (15 minutes)
  MaxKeys,                   \* addresses a limiter remembers (10,000)
  Concurrency, MaxQueue,     \* of the gate (2 and 16)
  Idle, Absolute, Touch      \* of a session; Touch is 60 s

Users == Views \cup Logouts \cup Changes
Requests == Setups \cup Logins \cup Users

ASSUME DashboardAssumption ==
  /\ Cases \subseteq
       [requests : SUBSET Requests,
        known : SUBSET Requests,    \* those whose body is well formed
        admin : BOOLEAN,            \* whether there is an administrator at first
        replicas : SUBSET Replicas, ips : SUBSET Ips,
        until : Nat,                \* bounds the clock
        restarts : Nat]             \* bounds the restarts of the replicas
  /\ {MaxSetups, MaxLogins, Window, MaxKeys, Concurrency, Idle, Absolute, Touch} \subseteq Nat \ {0}
  /\ MaxQueue \in Nat
  /\ None \notin Requests /\ "before" \notin Setups
  /\ Setups \cap Logins = {} /\ (Setups \cup Logins) \cap Users = {}
  /\ Views \cap Logouts = {} /\ (Views \cup Logouts) \cap Changes = {}

VARIABLES
  case, now,
  replica,   \* replica[p]: [init, token, setups, logins, active, waiting]
  admin,     \* the setup that created the administrator, "before" the behaviour, or None
  sessions,  \* sessions[l]: its row, or NoRow
  req,       \* req[r]: [pc, on, ip, session, at]
  out,       \* history: out[r]: the sessions logged out when r came
  loggedOut, \* history: sessions whose logout was answered
  uses,      \* history: uses[l]: when l was created and when it was accepted
  guesses,   \* history: guesses[p][ip]: when logins of ip passed the limiter of p, since
             \* a success, an eviction or a restart made it forget
  restarts

vars == <<case, now, replica, admin, sessions, req, out, loggedOut, uses, guesses, restarts>>
history == <<out, loggedOut, uses, guesses>>

NoRow == [created |-> -1, seen |-> 0, idle |-> 0, absolute |-> 0, revoked |-> FALSE]
Answers == {"ok", "refused", "failed"}
Waits == {"hasAdmin", "body", "getAdmin", "queued", "work", "create", "select", "touch", "revoke"}
At(r, pc) == req[r].pc = pc
Idler == [pc |-> "new", on |-> None, ip |-> None, session |-> None, at |-> 0]

Fresh == [init |-> "pending", token |-> TRUE, setups |-> {}, logins |-> {},
          active |-> 0, waiting |-> <<>>]

(* AttemptLimiter: a set of entries, at most one of an address.  That it   *)
(* drops the expired ones from time to time is not seen.                   *)
EntryOf(L, ip) == {e \in L : e.ip = ip}
Expired(L) == {e \in L : e.resetAt <= now}
\* evictOne(): the expired, or else the one that expires first.
Evictions(L) ==
  IF Cardinality(L \ Expired(L)) < MaxKeys THEN {L \ Expired(L)}
  ELSE {L \ {e} : e \in {e \in L : \A f \in L : e.resetAt <= f.resetAt}}
\* What check() leaves: the entries, and whether it allows the attempt.
\* Mutant: an attempt is counted after it is compared.
CheckLate(L, ip, maximum) ==
  LET current == EntryOf(L, ip)
      first == [ip |-> ip, count |-> 1, resetAt |-> now + Window]
  IN IF current \cap Expired(L) = current
     THEN {[entries |-> M \cup {first}, allowed |-> TRUE] :
             M \in IF current = {} /\ Cardinality(L) >= MaxKeys THEN Evictions(L) ELSE {L \ current}}
     ELSE LET e == CHOOSE e \in current : TRUE
          IN {[entries |-> (L \ current) \cup {[e EXCEPT !.count = Min({maximum + 1, @ + 1})]},
               allowed |-> e.count <= maximum]}
Check(L, ip, maximum) ==
  LET current == EntryOf(L, ip)
      first == [ip |-> ip, count |-> 1, resetAt |-> now + Window]
  IN IF current \cap Expired(L) = current
     THEN {[entries |-> M \cup {first}, allowed |-> TRUE] :
             M \in IF current = {} /\ Cardinality(L) >= MaxKeys THEN Evictions(L) ELSE {L \ current}}
     ELSE LET e == CHOOSE e \in current : TRUE
          IN {[entries |-> (L \ current) \cup {[e EXCEPT !.count = Min({maximum + 1, @ + 1})]},
               allowed |-> e.count < maximum]}

(* Steps of a request. *)
\* An answered request is remembered by its answer and its session.
Went(r, pc) == IF pc \in Answers THEN [Idler EXCEPT !.pc = pc, !.session = req[r].session]
               ELSE [req[r] EXCEPT !.pc = pc]
Goes(r, pc) == req' = [req EXCEPT ![r] = Went(r, pc)]
Here(r) == replica[req[r].on]
Same == UNCHANGED <<case, now, restarts>>
Database == <<admin, sessions>>

\* A request comes; while the replica is starting it waits, which is to come later.
Arrive(r, p) ==
  /\ r \in case.requests /\ p \in case.replicas /\ At(r, "new") /\ replica[p].init # "pending"
  /\ \E ip \in case.ips, l \in Logins \cup {None} :
       /\ l # None <=> r \in Users
       /\ l # None => At(l, "ok")
       /\ req' = [req EXCEPT ![r] =
            [pc |-> IF replica[p].init = "failed" THEN "failed"
                    ELSE IF r \in Users THEN "select" ELSE "hasAdmin",
             on |-> p, ip |-> ip, session |-> l, at |-> IF r \in Users THEN now ELSE 0]]
  /\ out' = [out EXCEPT ![r] = loggedOut]
  /\ UNCHANGED <<replica, Database, loggedOut, uses, guesses>> /\ Same

\* A setup finds an administrator, or comes from elsewhere (checkOrigin).
SetupRefused(r) ==
  /\ r \in Setups /\ At(r, "hasAdmin")
  /\ Goes(r, "refused")
  /\ UNCHANGED <<replica, Database, history>> /\ Same
SetupChecked(r) ==
  /\ r \in Setups /\ At(r, "hasAdmin") /\ admin = None
  /\ \E c \in Check(Here(r).setups, req[r].ip, MaxSetups) :
       /\ replica' = [replica EXCEPT ![req[r].on].setups = c.entries]
       /\ Goes(r, IF c.allowed THEN "body" ELSE "refused")
  /\ UNCHANGED <<Database, history>> /\ Same

LoginRefused(r) ==
  /\ r \in Logins /\ At(r, "hasAdmin")
  /\ Goes(r, "refused")
  /\ UNCHANGED <<replica, Database, history>> /\ Same
\* An address forgotten by the limiter is forgotten by the history as well.
Remembered(p, entries) ==
  [ip \in Ips |-> IF \E e \in replica[p].logins \ Expired(replica[p].logins) :
                       e.ip = ip /\ EntryOf(entries, ip) = {}
                  THEN <<>> ELSE guesses[p][ip]]
LoginChecked(r) ==
  /\ r \in Logins /\ At(r, "hasAdmin") /\ admin # None
  /\ LET p == req[r].on IN
     \E c \in Check(Here(r).logins, req[r].ip, MaxLogins) :
       /\ replica' = [replica EXCEPT ![p].logins = c.entries]
       /\ Goes(r, IF c.allowed THEN "body" ELSE "refused")
       /\ guesses' = [guesses EXCEPT ![p] =
            [Remembered(p, c.entries) EXCEPT ![req[r].ip] = IF c.allowed THEN Append(@, now) ELSE @]]
  /\ UNCHANGED <<Database, out, loggedOut, uses>> /\ Same

\* readJson() fails, or what it read is not what the handler asks for.
BodyRefused(r) ==
  /\ At(r, "body")
  /\ Goes(r, "refused")
  /\ UNCHANGED <<replica, Database, history>> /\ Same

(* AsyncGate *)
Enters(r) ==
  LET p == req[r].on gate == replica[req[r].on] IN
  IF gate.active < Concurrency
  THEN replica' = [replica EXCEPT ![p].active = @ + 1] /\ Goes(r, "work")
  ELSE IF Len(gate.waiting) >= MaxQueue THEN Goes(r, "failed") /\ UNCHANGED replica
  ELSE replica' = [replica EXCEPT ![p].waiting = Append(@, r)] /\ Goes(r, "queued")
\* A session is created at the time at which its login has left the gate.
Timed(r, pc) == IF pc = "create" THEN [req[r] EXCEPT !.pc = pc, !.at = now] ELSE Went(r, pc)
\* release() hands the slot to the first that waits; r goes on to pc.
\* Mutant: the slot is handed on and given back.
LeavesTwice(r, pc) ==
  LET p == req[r].on waiting == replica[req[r].on].waiting IN
  /\ replica' = [replica EXCEPT ![p].active = Max({0, @ - 1}),
                                ![p].waiting = IF waiting = <<>> THEN <<>> ELSE Tail(@)]
  /\ req' = [q \in Requests |->
       CASE q = r -> Timed(r, pc)
         [] waiting # <<>> /\ q = waiting[1] -> [req[q] EXCEPT !.pc = "work"]
         [] OTHER -> req[q]]
\* Mutant: the first that waits leaves the queue and is not told.
LeavesForgetting(r, pc) ==
  LET p == req[r].on waiting == replica[req[r].on].waiting IN
  /\ replica' = [replica EXCEPT ![p].waiting = IF @ = <<>> THEN <<>> ELSE Tail(@),
                                ![p].active = IF waiting = <<>> THEN Max({0, @ - 1}) ELSE @]
  /\ req' = [req EXCEPT ![r] = Timed(r, pc)]
Leaves(r, pc) ==
  LET p == req[r].on waiting == replica[req[r].on].waiting IN
  /\ replica' = [replica EXCEPT
       ![p].active = IF waiting = <<>> THEN Max({0, @ - 1}) ELSE @,
       ![p].waiting = IF waiting = <<>> THEN <<>> ELSE Tail(@)]
  /\ req' = [q \in Requests |->
       CASE q = r -> Timed(r, pc)
         [] waiting # <<>> /\ q = waiting[1] -> [req[q] EXCEPT !.pc = "work"]
         [] OTHER -> req[q]]
\* Three seconds in the queue.
QueueTimeout(r) ==
  LET p == req[r].on waiting == replica[req[r].on].waiting IN
  /\ At(r, "queued") /\ Contains(waiting, r)
  /\ replica' = [replica EXCEPT
       ![p].waiting = RemoveAt(waiting, CHOOSE i \in DOMAIN waiting : waiting[i] = r)]
  /\ Goes(r, "failed")
  /\ UNCHANGED <<Database, history>> /\ Same

\* The body of a setup, whose token is compared when it has been read.
SetupBody(r) ==
  /\ r \in Setups \cap case.known /\ At(r, "body") /\ Here(r).token
  /\ Enters(r)
  /\ UNCHANGED <<Database, history>> /\ Same
LoginBody(r) ==
  /\ r \in Logins \cap case.known /\ At(r, "body")
  /\ Goes(r, "getAdmin")
  /\ UNCHANGED <<replica, Database, history>> /\ Same
\* getAdmin(), then the gate; the password or the name may be missing.
LoginKnows(r) ==
  /\ At(r, "getAdmin")
  /\ IF admin = None THEN Goes(r, "refused") /\ UNCHANGED replica ELSE Enters(r)
  /\ UNCHANGED <<Database, history>> /\ Same
\* The hash, or its comparison, is done or throws.
Worked(r) ==
  /\ At(r, "work")
  /\ \E pc \in {"create", "failed"} \cup (IF r \in Logins THEN {"refused"} ELSE {}) : Leaves(r, pc)
  /\ UNCHANGED <<Database, history>> /\ Same

(* Queries. *)
\* Mutant: a second administrator replaces the first.
ReplaceAdmin(r) == admin' = r
\* createAdmin(): ON CONFLICT DO NOTHING.
CreateAdmin(r) == admin' = IF admin = None THEN r ELSE admin
SetupCreates(r) ==
  /\ r \in Setups /\ At(r, "create")
  /\ CreateAdmin(r)
  /\ IF admin' = r
     THEN /\ Goes(r, "ok")
          /\ replica' = [replica EXCEPT ![req[r].on].token = FALSE,
                           ![req[r].on].setups = @ \ EntryOf(@, req[r].ip)]
     ELSE Goes(r, "refused") /\ UNCHANGED replica
  /\ UNCHANGED <<sessions, history>> /\ Same
SetupAnswerLost(r) ==
  /\ r \in Setups /\ At(r, "create")
  /\ CreateAdmin(r)
  /\ Goes(r, "failed")
  /\ UNCHANGED <<replica, sessions, history>> /\ Same

CreateSession(r) ==
  LET absolute == req[r].at + Absolute IN
  /\ sessions' = [sessions EXCEPT ![r] =
       [created |-> req[r].at, seen |-> req[r].at, idle |-> Min({absolute, req[r].at + Idle}),
        absolute |-> absolute, revoked |-> FALSE]]
  /\ uses' = [uses EXCEPT ![r] = {req[r].at}]
LoginCreates(r) ==
  /\ r \in Logins /\ At(r, "create")
  /\ CreateSession(r)
  /\ Goes(r, "ok")
  /\ replica' = [replica EXCEPT ![req[r].on].logins = @ \ EntryOf(@, req[r].ip)]
  /\ guesses' = [guesses EXCEPT ![req[r].on][req[r].ip] = <<>>]
  /\ UNCHANGED <<admin, out, loggedOut>> /\ Same
LoginAnswerLost(r) ==
  /\ r \in Logins /\ At(r, "create")
  /\ CreateSession(r)
  /\ Goes(r, "failed")
  /\ UNCHANGED <<replica, admin, out, loggedOut, guesses>> /\ Same

\* A resolved session: the page or the snapshot, or what needs its CSRF token too.
Accepted(r) ==
  /\ \/ r \in Views /\ Goes(r, "ok")
     \/ r \in Logouts /\ Goes(r, "revoke")
     \/ r \in Changes /\ Goes(r, "body")
     \/ r \in Logouts \cup Changes /\ Goes(r, "refused")
  /\ uses' = [uses EXCEPT ![req[r].session] = @ \cup {req[r].at}]

\* resolveSession(): the SELECT, with the time of the call, and then the UPDATE.
Resolves(row, at) == row # NoRow /\ ~row.revoked /\ row.idle > at /\ row.absolute > at
Select(r) ==
  /\ At(r, "select")
  /\ LET row == sessions[req[r].session] IN
     CASE ~Resolves(row, req[r].at) -> Goes(r, "refused") /\ UNCHANGED uses
       [] Resolves(row, req[r].at) /\ req[r].at - row.seen >= Touch ->
            Goes(r, "touch") /\ UNCHANGED uses
       [] OTHER -> Accepted(r)
  /\ UNCHANGED <<replica, Database, out, loggedOut, guesses>> /\ Same
\* The UPDATE writes what the SELECT read of the row, which may be gone by now.
\* Mutant: the row is written as it was read.
TouchedAsRead(r, row) ==
  IF row = NoRow THEN row
  ELSE [row EXCEPT !.seen = req[r].at, !.idle = Min({row.absolute, req[r].at + Idle}), !.revoked = FALSE]
\* Mutant: each use moves the absolute end as well.
TouchedSliding(r, row) ==
  IF row = NoRow THEN row
  ELSE [row EXCEPT !.seen = req[r].at, !.idle = req[r].at + Idle, !.absolute = req[r].at + Absolute]
Touched(r, row) ==
  IF row = NoRow THEN row
  ELSE [row EXCEPT !.seen = req[r].at, !.idle = Min({row.absolute, req[r].at + Idle})]
TouchSession(r) ==
  /\ At(r, "touch")
  /\ sessions' = [sessions EXCEPT ![req[r].session] = Touched(r, @)]
  /\ Accepted(r)
  /\ UNCHANGED <<replica, admin, out, loggedOut, guesses>> /\ Same
TouchAnswerLost(r) ==
  /\ At(r, "touch")
  /\ sessions' = [sessions EXCEPT ![req[r].session] = Touched(r, @)]
  /\ uses' = [uses EXCEPT ![req[r].session] = @ \cup {req[r].at}]
  /\ Goes(r, "failed")
  /\ UNCHANGED <<replica, admin, out, loggedOut, guesses>> /\ Same

Revoked(row) == IF row = NoRow THEN row ELSE [row EXCEPT !.revoked = TRUE]
RevokeSession(r) ==
  /\ At(r, "revoke")
  /\ sessions' = [sessions EXCEPT ![req[r].session] = Revoked(@)]
  /\ Goes(r, "ok")
  /\ loggedOut' = loggedOut \cup {req[r].session}
  /\ UNCHANGED <<replica, admin, out, uses, guesses>> /\ Same
\* A change of the authorization is made when its body has been read.
Change(r) ==
  /\ r \in Changes \cap case.known /\ At(r, "body")
  /\ Goes(r, "ok")
  /\ UNCHANGED <<replica, Database, history>> /\ Same

\* A query fails and has changed nothing.
QueryFails(r) ==
  /\ req[r].pc \in {"hasAdmin", "getAdmin", "create", "select", "touch", "revoke"}
  /\ Goes(r, "failed")
  /\ UNCHANGED <<replica, Database, history>> /\ Same

(* The replicas and the clock. *)
Initialize(p) ==
  /\ p \in case.replicas /\ replica[p].init = "pending"
  /\ replica' = [replica EXCEPT ![p].init = IF admin # None \/ replica[p].token THEN "ready" ELSE "failed"]
  /\ UNCHANGED <<Database, req, history>> /\ Same
\* With or without a setup token in its configuration.
Restart(p) ==
  /\ p \in case.replicas /\ restarts < case.restarts
  /\ restarts' = restarts + 1
  /\ \E token \in BOOLEAN : replica' = [replica EXCEPT ![p] = [Fresh EXCEPT !.token = token]]
  /\ req' = [r \in Requests |-> IF req[r].on = p /\ req[r].pc \in Waits
                                THEN Went(r, "failed") ELSE req[r]]
  /\ guesses' = [guesses EXCEPT ![p] = [ip \in Ips |-> <<>>]]
  /\ UNCHANGED <<case, now, Database, out, loggedOut, uses>>

\* cleanup() of the metrics' flush, with the time at which it was asked for.
Cleanup ==
  /\ \E at \in {now - 1, now} : sessions' = [l \in Logins |->
       IF sessions[l].revoked \/ sessions[l].idle <= at \/ sessions[l].absolute <= at
       THEN NoRow ELSE sessions[l]]
  /\ sessions' # sessions
  /\ UNCHANGED <<replica, admin, req, history>> /\ Same

Tick ==
  /\ now < case.until
  /\ now' = now + 1
  /\ UNCHANGED <<case, replica, Database, req, history, restarts>>

Init ==
  /\ case \in Cases
  /\ now = 0 /\ restarts = 0
  /\ replica = [p \in Replicas |-> Fresh]
  /\ admin = IF case.admin THEN "before" ELSE None
  /\ sessions = [l \in Logins |-> NoRow]
  /\ req = [r \in Requests |-> Idler]
  /\ out = [r \in Requests |-> {}] /\ loggedOut = {}
  /\ uses = [l \in Logins |-> {}]
  /\ guesses = [p \in Replicas |-> [ip \in Ips |-> <<>>]]

Answer(r) ==
  \/ SetupRefused(r) \/ SetupChecked(r) \/ LoginRefused(r) \/ LoginChecked(r)
  \/ BodyRefused(r) \/ SetupBody(r) \/ LoginBody(r) \/ LoginKnows(r) \/ Change(r)
  \/ QueueTimeout(r) \/ Worked(r)
  \/ SetupCreates(r) \/ LoginCreates(r) \/ Select(r) \/ TouchSession(r) \/ RevokeSession(r)
Fails(r) == SetupAnswerLost(r) \/ LoginAnswerLost(r) \/ TouchAnswerLost(r) \/ QueryFails(r)
Next ==
  \/ \E r \in Requests : Answer(r) \/ Fails(r) \/ \E p \in Replicas : Arrive(r, p)
  \/ \E p \in Replicas : Initialize(p) \/ Restart(p)
  \/ Cleanup \/ Tick
Spec == Init /\ [][Next]_vars

\* Bodies end within the request timeout, the queue within its own, hashes end, and
\* the database answers.
FairSpec == Spec /\ WF_vars(\E r \in Requests : Answer(r) \/ Fails(r))

---------------------------------------------------------------------------
(* Properties *)

TypeOK ==
  /\ admin \in Setups \cup {"before", None}
  /\ \A r \in Requests : req[r].pc \in {"new"} \cup Waits \cup Answers
  /\ \A p \in Replicas :
       /\ replica[p].init \in {"pending", "ready", "failed"} /\ replica[p].token \in BOOLEAN
       /\ \A L \in {replica[p].setups, replica[p].logins} :
            Cardinality(L) <= MaxKeys /\ \A e, f \in L : e.ip = f.ip => e = f
       /\ replica[p].active \in Nat /\ replica[p].waiting \in Seq(Requests)
  /\ \A l \in Logins : sessions[l].idle <= sessions[l].absolute /\ sessions[l].revoked \in BOOLEAN

\* However many replicas are set up at once, and whatever answers are lost, there is
\* one administrator for good, and only who created it is told so.
OneAdministrator ==
  [][/\ admin # None => admin' = admin
     /\ \A r \in Setups : At(r, "create") /\ req'[r].pc = "ok" => admin = None /\ admin' = r]_vars

\* A slot of the gate is held by each request that hashes and by nothing else,
\* those that wait are in its queue once, and nobody waits while a slot is free.
GateAccounted ==
  \A p \in Replicas :
    LET gate == replica[p]
        on(pc) == {r \in Requests : req[r].on = p /\ At(r, pc)}
    IN /\ gate.active = Cardinality(on("work")) /\ gate.active <= Concurrency
       /\ Range(gate.waiting) = on("queued")
       /\ Len(gate.waiting) = Cardinality(on("queued")) /\ Len(gate.waiting) <= MaxQueue
       /\ gate.waiting # <<>> => gate.active = Concurrency

\* The state is typed, each limiter within its limit, and so is the gate.
LimitsHold == TypeOK /\ GateAccounted

\* A request that comes after a logout was answered is not accepted with its session,
\* although a touch that had been read before may be written after.
LoggedOutStaysOut ==
  \A r \in Users : req[r].pc \in {"ok", "touch", "revoke", "body"} => req[r].session \notin out[r]

\* A session is accepted only within its absolute time, and only if it was created
\* or accepted within its idle time before, whichever order the touches are written in.
SessionEnds ==
  \A l \in Logins, t \in 0..case.until : t \in uses[l] =>
    /\ \A first \in uses[l] : t < first + Absolute
    /\ t = Min(uses[l]) \/ \E u \in uses[l] : u < t /\ t < u + Idle

\* Over any time as long as the window fewer than twice the permitted logins of an
\* address reach the password of one replica, unless it forgets the address.
GuessesBounded ==
  \A p \in Replicas, ip \in Ips, t \in 0..case.until :
    Cardinality({i \in DOMAIN guesses[p][ip] : guesses[p][ip][i] \in t..(t + Window - 1)})
      <= 2 * MaxLogins - 1

\* Every request that came is answered, or cut off by a restart: none waits for ever
\* in the queue of the gate.  (No request comes twice, so that all are answered at last.)
EveryRequestIsAnswered ==
  <>[](\A r \in Requests : req[r].pc \notin Waits)
=============================================================================
