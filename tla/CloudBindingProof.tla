-------------------------- MODULE CloudBindingProof --------------------------
(***************************************************************************)
(* Proofs about CloudBinding, for any number of users, subjects, keys and  *)
(* concurrent requests.  The inductive invariant is Safe: the types, what  *)
(* each step of a request may rely on (Working), what each call carries    *)
(* (CallFits, OneCall), that minted keys and offers have a subject (Owned) *)
(* and that rows name minted keys truly (RowsTrue).  On it rest three      *)
(* more: no subject has two users (Exclusive), a request that nobody       *)
(* disturbed finds the row it reserved (OwnRows, OwnKeys), and a candidate *)
(* has a request that will end it (Attended).                              *)
(***************************************************************************)
EXTENDS CloudBinding, TLAPS

Owned ==
  /\ \A c \in Creds : status[c] # "none" => holder[c] \in Subjects
  /\ \A r \in Redemptions : offer[r] # "none" => offeredTo[r] \in Subjects

\* The request q works with a minted key whose subject it knows.
Knows(q) ==
  /\ q.key \in Creds
  /\ status[q.key] # "none"
  /\ q.subject = holder[q.key]

\* What a request q that stands at step p relies on.
WorksAt(p, q) ==
  /\ p # "idle" => q.user \in Users
  /\ p = "verify" => q.key \in Creds
  /\ p \in {"replace", "reserve", "activate", "promote"} => Knows(q)
  /\ p \in {"check", "update"} => q.key \in Creds /\ q.subject \in Subjects

Working(h) == WorksAt(pc[h], req[h])

CallFits(m) ==
  /\ m.op = "redeem" => m.offer \in Redemptions /\ offer[m.offer] # "none"
  /\ m.op = "activate" => m.key \in Creds
  /\ m.from # None => m.from \in Requests /\ pc[m.from] = m.op

\* A request waits for one call at a time.
OneCall == \A m, n \in calls : m.from # None /\ m.from = n.from => m = n

\* A row is true of keys with the status st and the holders ho.
RowTrue(row, st, ho) ==
  row # NoRow =>
    /\ row.key \in Creds
    /\ st[row.key] # "none"
    /\ row.subject = ho[row.key]
    /\ row.capsOf = row.subject

RowsTrue ==
  \A u \in Users :
    RowTrue(bindings[u], status, holder) /\ RowTrue(candidates[u], status, holder)

Typed ==
  /\ Gateway!TypeOK
  /\ bindings \in [Users -> Row \cup {NoRow}]
  /\ candidates \in [Users -> Row \cup {NoRow}]
  /\ pc \in [Requests -> Steps \cup {"idle"}]
  /\ req \in [Requests -> Request]
  /\ calls \subseteq Call

Safe ==
  /\ Typed
  /\ Owned
  /\ \A h \in Requests : Working(h)
  /\ \A m \in calls : CallFits(m)
  /\ OneCall
  /\ RowsTrue

\* What every step does to the gateway: keys and offers that exist stay whose
\* they are.
Grows ==
  /\ \A c \in Creds : status[c] # "none" => status'[c] # "none" /\ holder'[c] = holder[c]
  /\ \A r \in Redemptions : offer[r] # "none" => offer'[r] # "none"

\* The gateway's own invariant survives each of its operations.
LEMMA GatewayStep ==
  ASSUME Gateway!TypeOK, Owned,
         \/ \E c \in Creds, s \in Subjects : Gateway!MakeKey(c, s)
         \/ \E r \in Redemptions, s \in Subjects : Gateway!MakeOffer(r, s)
         \/ \E r \in Redemptions, c \in Creds : Gateway!Redeem(r, c)
         \/ \E c \in Creds : Gateway!Activate(c)
         \/ \E c \in Creds : Gateway!Withdraw({c})
         \/ UNCHANGED gateway
  PROVE  Gateway!TypeOK' /\ Owned' /\ Grows
<1> USE DEF Gateway!TypeOK, Owned, Grows
<1>1. CASE \E c \in Creds, s \in Subjects : Gateway!MakeKey(c, s)
  BY <1>1 DEF Gateway!MakeKey
<1>2. CASE \E r \in Redemptions, s \in Subjects : Gateway!MakeOffer(r, s)
  BY <1>2 DEF Gateway!MakeOffer
<1>3. CASE \E r \in Redemptions, c \in Creds : Gateway!Redeem(r, c)
  BY <1>3 DEF Gateway!Redeem
<1>4. CASE \E c \in Creds : Gateway!Activate(c)
  BY <1>4 DEF Gateway!Activate
<1>5. CASE \E c \in Creds : Gateway!Withdraw({c})
  BY <1>5 DEF Gateway!Withdraw
<1>6. CASE UNCHANGED gateway
  BY <1>6 DEF gateway
<1> QED BY <1>1, <1>2, <1>3, <1>4, <1>5, <1>6

\* Every step of the service is one of those for the gateway.
LEMMA NextGrows ==
  ASSUME Safe, Next
  PROVE  Gateway!TypeOK' /\ Owned' /\ Grows
<1>1. CASE Administer
  BY <1>1, GatewayStep DEF Administer, Safe, Typed
<1>2. CASE UNCHANGED gateway
  BY <1>2, GatewayStep DEF Safe, Typed
<1>3. ASSUME NEW h \in Requests, Handle(h) PROVE UNCHANGED gateway
  BY <1>3 DEF Handle, ArriveBindApiKey, ArriveRedeemAndBind, ArriveOther, Arrive, Verify,
       ReplaceActive, ReserveCandidate, PromoteCandidate, DeleteCandidate,
       CurrentCredential, Check, UpdateActive, DeleteBinding, Fail, CommitLost
<1>4. ASSUME NEW m \in calls, Serve(m)
      PROVE  Gateway!TypeOK' /\ Owned' /\ Grows
  <2>1. CASE ServeRedeem(m)
    BY <2>1, <1>4, GatewayStep DEF ServeRedeem, Safe, Typed, CallFits
  <2>2. CASE ServeActivate(m)
    BY <2>2, <1>4, GatewayStep DEF ServeActivate, Safe, Typed, CallFits
  <2>3. CASE Refuse(m) \/ TimeOut(m)
    BY <2>3, <1>2 DEF Refuse, TimeOut
  <2> QED BY <1>4, <2>1, <2>2, <2>3 DEF Serve
<1>5. CASE Crash
  BY <1>5, <1>2 DEF Crash
<1> QED BY <1>1, <1>2, <1>3, <1>4, <1>5 DEF Next

TablesTyped ==
  /\ bindings \in [Users -> Row \cup {NoRow}]
  /\ candidates \in [Users -> Row \cup {NoRow}]

\* The row a request writes is typed and true.
LEMMA RowOfIsTrue ==
  ASSUME Safe, Grows, NEW h \in Requests, Knows(req[h])
  PROVE  RowOf(h) \in Row /\ RowTrue(RowOf(h), status', holder')
BY NoneIsNew DEF Safe, Owned, Knows, RowOf, Row, RowTrue, Grows

\* A row that is true stays true, as no key changes hands.
LEMMA TrueRowsStay ==
  ASSUME Grows, NEW row, RowTrue(row, status, holder)
  PROVE  RowTrue(row, status', holder')
BY DEF RowTrue, Grows

\* Every step keeps the tables true to the keys they name.
LEMMA TablesStep ==
  ASSUME Safe, Next
  PROVE  TablesTyped' /\ RowsTrue'
<1>1. Grows
  BY NextGrows
<1>2. TablesTyped /\ RowsTrue /\ \A h \in Requests : Working(h)
  BY DEF Safe, Typed, TablesTyped
<1>3. RowTrue(NoRow, status', holder')
  BY DEF RowTrue
<1>5. ASSUME UNCHANGED tables PROVE TablesTyped' /\ RowsTrue'
  BY <1>1, <1>2, <1>5, TrueRowsStay DEF tables, TablesTyped, RowsTrue
<1> DEFINE Fits(b, c) == \A u \in Users :
             /\ b[u] \in Row \cup {NoRow} /\ RowTrue(b[u], status', holder')
             /\ c[u] \in Row \cup {NoRow} /\ RowTrue(c[u], status', holder')
<1>6. Fits(bindings, candidates)
  BY <1>1, <1>2, TrueRowsStay DEF TablesTyped, RowsTrue
<1>7. ASSUME NEW h \in Requests, Handle(h) PROVE TablesTyped' /\ RowsTrue'
  <2>1. CASE ReplaceActive(h)
    <3>1. User(h) \in Users /\ Knows(req[h])
      BY <1>2, <2>1 DEF ReplaceActive, Working, WorksAt, User
    <3>2. RowOf(h) \in Row /\ RowTrue(RowOf(h), status', holder')
      BY <1>1, <3>1, RowOfIsTrue
    <3> QED BY <1>2, <1>3, <1>5, <1>6, <2>1, <3>1, <3>2
            DEF ReplaceActive, TablesTyped, RowsTrue, tables
  <2>2. CASE ReserveCandidate(h)
    <3>1. User(h) \in Users /\ Knows(req[h])
      BY <1>2, <2>2 DEF ReserveCandidate, Working, WorksAt, User
    <3>2. RowOf(h) \in Row /\ RowTrue(RowOf(h), status', holder')
      BY <1>1, <3>1, RowOfIsTrue
    <3> QED BY <1>2, <1>5, <1>6, <2>2, <3>1, <3>2
            DEF ReserveCandidate, TablesTyped, RowsTrue, tables
  <2>3. CASE PromoteCandidate(h)
    <3>1. User(h) \in Users
      BY <1>2, <2>3 DEF PromoteCandidate, Working, WorksAt, User
    <3> QED BY <1>2, <1>3, <1>5, <1>6, <2>3, <3>1
            DEF PromoteCandidate, Without, TablesTyped, RowsTrue, tables
  <2>4. CASE CommitLost(h)
    <3>1. User(h) \in Users
      BY <1>2, <2>4 DEF CommitLost, Working, WorksAt, User
    <3>2. pc[h] = "reserve" => RowOf(h) \in Row /\ RowTrue(RowOf(h), status', holder')
      BY <1>1, <1>2, RowOfIsTrue DEF Working, WorksAt
    <3> QED BY <1>2, <1>3, <1>6, <2>4, <3>1, <3>2
            DEF CommitLost, Without, TablesTyped, RowsTrue
  <2>5. CASE DeleteCandidate(h) \/ DeleteBinding(h)
    <3>1. User(h) \in Users
      BY <1>2, <2>5 DEF DeleteCandidate, DeleteBinding, Working, WorksAt, User
    <3> QED BY <1>2, <1>3, <1>6, <2>5, <3>1
            DEF DeleteCandidate, DeleteBinding, Without, TablesTyped, RowsTrue
  <2>6. CASE UpdateActive(h)
    <3> DEFINE u == User(h)
               row == [key |-> bindings[u].key, subject |-> bindings[u].subject,
                       capsOf |-> req[h].subject]
    <3>1. u \in Users /\ req[h].subject \in Subjects
      BY <1>2, <2>6 DEF UpdateActive, Working, WorksAt, User
    <3>2. CASE ~Updates(bindings[u], req[h].subject)
      BY <1>5, <2>6, <3>2 DEF UpdateActive, tables
    <3>3. CASE Updates(bindings[u], req[h].subject)
      <4>1. bindings[u] \in Row /\ RowTrue(bindings[u], status', holder')
        BY <1>6, <3>1, <3>3, NoneIsNew DEF Updates, NoRow
      <4>2. row \in Row /\ RowTrue(row, status', holder')
        BY <4>1, <3>1, <3>3, NoneIsNew DEF Updates, Row, RowTrue, NoRow
      <4> QED BY <1>2, <1>6, <2>6, <3>1, <3>3, <4>2
              DEF UpdateActive, TablesTyped, RowsTrue
    <3> QED BY <3>2, <3>3
  <2>7. CASE ArriveBindApiKey(h) \/ ArriveRedeemAndBind(h) \/ ArriveOther(h)
    BY <1>5, <2>7 DEF ArriveBindApiKey, ArriveRedeemAndBind, ArriveOther, Arrive
  <2>8. CASE Verify(h, "verify", "replace") \/ CurrentCredential(h) \/ Check(h) \/ Fail(h)
    BY <1>5, <2>8 DEF Verify, CurrentCredential, Check, Fail
  <2> QED BY <1>7, <2>1, <2>2, <2>3, <2>4, <2>5, <2>6, <2>7, <2>8 DEF Handle
<1>8. CASE Administer \/ Crash \/ \E m \in calls : Serve(m)
  BY <1>5, <1>8 DEF Administer, Crash, Serve, ServeRedeem, ServeActivate, Refuse, TimeOut
<1> QED BY <1>7, <1>8 DEF Next

RequestsTyped ==
  /\ pc \in [Requests -> Steps \cup {"idle"}]
  /\ req \in [Requests -> Request]
  /\ calls \subseteq Call

\* All that Safe says of requests and their calls.
RequestsSafe ==
  /\ RequestsTyped
  /\ \A h \in Requests : Working(h)
  /\ \A m \in calls : CallFits(m)
  /\ OneCall

\* A request that waits for no call moves to a step it may stand at.
LEMMA OneMoves ==
  ASSUME RequestsSafe, UNCHANGED gateway, NEW h \in Requests,
         pc[h] \notin {"redeem", "activate"},
         NEW p \in Steps \cup {"idle"}, NEW q \in Request, WorksAt(p, q),
         pc' = [pc EXCEPT ![h] = p], req' = [req EXCEPT ![h] = q], calls' = calls
  PROVE  RequestsSafe'
BY DEF RequestsSafe, RequestsTyped, gateway, Working, WorksAt, Knows, CallFits, OneCall, Call

\* A request that is over relies on nothing.
LEMMA OneEnds ==
  ASSUME RequestsSafe, UNCHANGED gateway, NEW h \in Requests,
         pc[h] \notin {"redeem", "activate"}, Free(h), calls' = calls
  PROVE  RequestsSafe'
<1>1. WorksAt("idle", NoRequest) /\ NoRequest \in Request
  BY DEF WorksAt, NoRequest, Request
<1> QED BY <1>1, OneMoves DEF Free

\* A request that goes on with what it has may stand at the next step.
LEMMA OneGoesOn ==
  ASSUME RequestsSafe, UNCHANGED gateway, NEW h \in Requests,
         pc[h] \notin {"redeem", "activate"},
         NEW p \in Steps, WorksAt(p, req[h]), GoTo(h, p), calls' = calls
  PROVE  RequestsSafe'
<1>1. req[h] \in Request /\ req' = [req EXCEPT ![h] = req[h]]
  BY DEF GoTo, RequestsSafe, RequestsTyped
<1> QED BY <1>1, OneMoves DEF GoTo

\* Every step leaves each request with what its next step relies on.
LEMMA RequestsStep ==
  ASSUME Safe, Next
  PROVE  RequestsSafe'
<1>1. Grows /\ Owned /\ RequestsSafe /\ Gateway!TypeOK /\ TablesTyped /\ RowsTrue
  BY NextGrows DEF Safe, Typed, RequestsTyped, RequestsSafe, TablesTyped
<1>2. \A h \in Requests : Working(h) /\ req[h] \in Request
  BY <1>1 DEF RequestsSafe, RequestsTyped
<1> USE NoneIsNew
<1>3. ASSUME NEW h \in Requests, Handle(h) PROVE RequestsSafe'
  <2>1. CASE ArriveBindApiKey(h) \/ ArriveOther(h)
    BY <1>1, <2>1, OneMoves DEF ArriveBindApiKey, ArriveOther, Arrive, WorksAt, Request, Steps
  <2>2. CASE ArriveRedeemAndBind(h)
    BY <1>1, <2>2 DEF ArriveRedeemAndBind, Arrive, RequestsSafe, RequestsTyped,
       Working, WorksAt, Knows, CallFits, OneCall, Request, Steps, gateway, Call
  <2>3. CASE Verify(h, "verify", "replace")
    <3>1. CASE Free(h)
      BY <1>1, <2>3, <3>1, OneEnds DEF Verify
    <3>2. CASE ~Free(h)
      <4> DEFINE q == [user |-> User(h), key |-> req[h].key, offer |-> req[h].offer,
                       subject |-> holder[req[h].key]]
      <4>1. /\ pc[h] = "verify"
            /\ status[req[h].key] = "active"
            /\ pc' = [pc EXCEPT ![h] = "replace"]
            /\ req' = [req EXCEPT ![h] = q]
        BY <2>3, <3>2 DEF Verify, GoToWith
      <4>2. req[h].key \in Creds /\ req[h].user \in Users
        BY <1>2, <4>1 DEF Working, WorksAt
      <4>3. q \in Request /\ WorksAt("replace", q)
        BY <1>1, <1>2, <4>1, <4>2 DEF Owned, Request, WorksAt, Knows, User
      <4> QED BY <1>1, <2>3, <4>1, <4>3, OneMoves DEF Verify, Steps
    <3> QED BY <3>1, <3>2
  <2>4. CASE CurrentCredential(h)
    <3>1. CASE Free(h)
      BY <1>1, <2>4, <3>1, OneEnds DEF CurrentCredential
    <3>2. CASE ~Free(h)
      <4> DEFINE row == bindings[User(h)]
                 q == [user |-> User(h), key |-> row.key, offer |-> req[h].offer,
                       subject |-> row.subject]
      <4>1. /\ pc[h] = "current"
            /\ row # NoRow
            /\ pc' = [pc EXCEPT ![h] = "check"]
            /\ req' = [req EXCEPT ![h] = q]
        BY <2>4, <3>2 DEF CurrentCredential, GoToWith
      <4>2. User(h) \in Users
        BY <1>2, <4>1 DEF Working, WorksAt, User
      <4>3. row \in Row
        BY <1>1, <4>1, <4>2 DEF TablesTyped
      <4>4. q \in Request /\ WorksAt("check", q)
        BY <1>2, <4>2, <4>3 DEF Request, WorksAt, Row
      <4> QED BY <1>1, <2>4, <4>1, <4>4, OneMoves DEF CurrentCredential, Steps
    <3> QED BY <3>1, <3>2
  <2>5. CASE Check(h)
    <3>1. WorksAt("update", req[h])
      BY <1>2, <2>5 DEF Check, Working, WorksAt
    <3> QED BY <1>1, <2>5, <3>1, OneEnds, OneGoesOn DEF Check, Steps
  <2>6. CASE ReplaceActive(h) \/ UpdateActive(h) \/ DeleteBinding(h) \/ DeleteCandidate(h)
    BY <1>1, <2>6, OneEnds DEF ReplaceActive, UpdateActive, DeleteBinding, DeleteCandidate
  <2>7. CASE ReserveCandidate(h)
    <3>1. CASE Free(h)
      <4>1. calls' = calls
        BY <2>7, <3>1, <1>1 DEF ReserveCandidate, Free, GoTo, RequestsSafe, RequestsTyped
      <4> QED BY <1>1, <2>7, <3>1, <4>1, OneEnds DEF ReserveCandidate
    <3>2. CASE ~Free(h)
      <4>1. /\ pc[h] = "reserve"
            /\ GoTo(h, "activate")
            /\ calls' = calls \cup
                 {[from |-> h, op |-> "activate", key |-> req[h].key, offer |-> None]}
            /\ UNCHANGED gateway
        BY <2>7, <3>2 DEF ReserveCandidate
      <4> QED BY <1>1, <1>2, <4>1 DEF GoTo, RequestsSafe, RequestsTyped,
          Working, WorksAt, Knows, CallFits, OneCall, Steps, gateway, Call
    <3> QED BY <3>1, <3>2
  <2>8. CASE PromoteCandidate(h) \/ Fail(h) \/ CommitLost(h)
    <3>1. WorksAt(pc[h], req[h]) /\ (pc[h] = "promote" => WorksAt("undo", req[h]))
      BY <1>2 DEF Working, WorksAt
    <3>2. UNCHANGED gateway /\ calls' = calls /\ pc[h] \notin {"redeem", "activate"}
      BY <2>8 DEF PromoteCandidate, Fail, CommitLost
    <3>3. Free(h) \/ (pc[h] = "promote" /\ GoTo(h, "undo"))
      BY <2>8 DEF PromoteCandidate, Fail, CommitLost
    <3> QED BY <1>1, <3>1, <3>2, <3>3, OneEnds, OneGoesOn DEF Steps
  <2> QED BY <1>3, <2>1, <2>2, <2>3, <2>4, <2>5, <2>6, <2>7, <2>8 DEF Handle
<1>4. ASSUME NEW m \in calls, Serve(m) PROVE RequestsSafe'
  <2>1. CASE ServeRedeem(m)
    BY SMTT(30), <1>1, <1>4, <2>1 DEF ServeRedeem, Gateway!Redeem, Gateway!TypeOK, GoToWith,
       RequestsSafe, RequestsTyped, Working, WorksAt, Knows, CallFits, OneCall, Grows,
       Owned, Request, Steps, Call, User
  <2>2. CASE ServeActivate(m)
    BY <1>1, <1>4, <2>2 DEF ServeActivate, Gateway!Activate, GoTo, RequestsSafe,
       RequestsTyped, Working, WorksAt, Knows, CallFits, OneCall, Grows, Request, Steps, Call
  <2>3. CASE Refuse(m)
    BY <1>1, <1>4, <2>3 DEF Refuse, Free, NoRequest, GoTo, Caught, RequestsSafe,
       RequestsTyped, Working, WorksAt, Knows, CallFits, OneCall, Grows, Request, Steps,
       gateway, Call
  <2>4. CASE TimeOut(m)
    BY SMTT(30), <1>1, <1>4, <2>4 DEF TimeOut, Free, NoRequest, GoTo, Caught, RequestsSafe,
       RequestsTyped, Working, WorksAt, Knows, CallFits, OneCall, Grows, Request, Steps,
       gateway, Call
  <2> QED BY <1>4, <2>1, <2>2, <2>3, <2>4 DEF Serve
<1>5. CASE Crash
  BY <1>1, <1>5 DEF Crash, NoRequest, RequestsSafe, RequestsTyped, Working, WorksAt,
     CallFits, OneCall, Grows, Request, gateway, Call
<1>6. CASE Administer
  BY <1>1, <1>6 DEF Administer, RequestsSafe, RequestsTyped, Working, WorksAt, Knows,
     CallFits, OneCall, Grows, Call
<1> QED BY <1>3, <1>4, <1>5, <1>6 DEF Next

\* The initial state is safe.
LEMMA SafeInit == Init => Safe
BY NoneIsNew DEF Init, Safe, Typed, Owned, Working, WorksAt, CallFits, OneCall, RowsTrue, RowTrue,
   Gateway!Init, Gateway!TypeOK, NoRequest, Request, Steps

\* Every step keeps the invariant Safe.
LEMMA SafeStep ==
  ASSUME Safe, [Next]_vars
  PROVE  Safe'
<1>1. CASE Next
  BY <1>1, NextGrows, TablesStep, RequestsStep
     DEF Safe, Typed, TablesTyped, RequestsSafe, RequestsTyped
<1>2. CASE UNCHANGED vars
  BY <1>2 DEF vars, gateway, tables, Safe, Typed, Owned, Working, WorksAt, Knows, CallFits, OneCall,
     RowsTrue, Gateway!TypeOK
<1> QED BY <1>1, <1>2

\* Whatever the interleaving, the crashes, the lost commits and the late calls,
\* a binding or candidate names the subject of its key, and the capabilities it
\* keeps were answered for that subject.
THEOREM RowsNeverLie == Spec => []RowsAreOfTheirKeys
<1>1. Safe => RowsAreOfTheirKeys
  BY DEF Safe, RowsTrue, RowTrue, RowsAreOfTheirKeys
<1> QED BY <1>1, SafeInit, SafeStep, PTL DEF Spec

-----------------------------------------------------------------------------
(* One user per subject *)

\* No row of another user names the subject.
Alone(u, s, b, c) == \A v \in Users : v # u => b[v].subject # s /\ c[v].subject # s

\* Every row's subject is alone in the tables b and c.
Exclusive(b, c) ==
  \A u \in Users :
    /\ b[u] # NoRow => Alone(u, b[u].subject, b, c)
    /\ c[u] # NoRow => Alone(u, c[u].subject, b, c)

\* For typed tables that is SubjectBoundOnce.
LEMMA ExclusiveIsOnce ==
  ASSUME TablesTyped
  PROVE  Exclusive(bindings, candidates) <=> SubjectBoundOnce
<1>1. \A u \in Users :
        /\ bindings[u] # NoRow <=> bindings[u].subject # None
        /\ candidates[u] # NoRow <=> candidates[u].subject # None
  BY NoneIsNew DEF TablesTyped, Row, NoRow
<1> QED BY <1>1 DEF Exclusive, Alone, SubjectBoundOnce

Table == [Users -> Row \cup {NoRow}]

\* A row whose subject is alone, or no row, may be written into either table.
LEMMA WriteRow ==
  ASSUME NEW b \in Table, NEW c \in Table, Exclusive(b, c),
         NEW u \in Users, NEW row \in Row \cup {NoRow},
         row # NoRow => Alone(u, row.subject, b, c)
  PROVE  /\ Exclusive([b EXCEPT ![u] = row], c)
         /\ Exclusive(b, [c EXCEPT ![u] = row])
<1>1. \A v \in Users :
        /\ b[v] # NoRow => b[v].subject # None
        /\ c[v] # NoRow => c[v].subject # None
  BY NoneIsNew DEF Table, Row
<1>2. NoRow.subject = None
  BY DEF NoRow
<1>3. \A v \in Users : v # u =>
        /\ b[v] # NoRow => row.subject # b[v].subject
        /\ c[v] # NoRow => row.subject # c[v].subject
  BY <1>1, <1>2 DEF Alone
<1>4. Exclusive([b EXCEPT ![u] = row], c)
  <2> DEFINE n == [b EXCEPT ![u] = row]
  <2>1. n[u] = row /\ \A v \in Users : v # u => n[v] = b[v]
    BY DEF Table
  <2> HIDE DEF n
  <2> QED BY <1>3, <2>1 DEF Exclusive, Alone
<1>5. Exclusive(b, [c EXCEPT ![u] = row])
  <2> DEFINE n == [c EXCEPT ![u] = row]
  <2>1. n[u] = row /\ \A v \in Users : v # u => n[v] = c[v]
    BY DEF Table
  <2> HIDE DEF n
  <2> QED BY <1>3, <2>1 DEF Exclusive, Alone
<1> QED BY <1>4, <1>5

\* Deleting the candidate after a row is written, or the binding, is such a write.
LEMMA WriteBoth ==
  ASSUME NEW b \in Table, NEW c \in Table, Exclusive(b, c),
         NEW u \in Users, NEW row \in Row \cup {NoRow},
         row # NoRow => Alone(u, row.subject, b, c)
  PROVE  Exclusive([b EXCEPT ![u] = row], [c EXCEPT ![u] = NoRow])
<1>1. Exclusive([b EXCEPT ![u] = row], c)
  BY WriteRow
<1>2. [b EXCEPT ![u] = row] \in Table
  BY DEF Table
<1> QED BY <1>1, <1>2, WriteRow

\* assertSubjectAvailable is that the subject is alone.
LEMMA AvailableIsAlone ==
  ASSUME NEW u, NEW s
  PROVE  Available(u, s) <=> Alone(u, s, bindings, candidates)
BY DEF Available, Alone

\* Each transaction that writes a row has tested its subject.
LEMMA ExclusiveStep ==
  ASSUME Safe, Exclusive(bindings, candidates), Next
  PROVE  Exclusive(bindings', candidates')
<1>1. /\ bindings \in Table
      /\ candidates \in Table
      /\ \A h \in Requests : Working(h)
  BY DEF Safe, Typed, Table
<1>2. ASSUME UNCHANGED tables PROVE Exclusive(bindings', candidates')
  BY <1>2 DEF tables
<1>3. ASSUME NEW h \in Requests, Handle(h) PROVE Exclusive(bindings', candidates')
  <2>1. User(h) \in Users \/ pc[h] = "idle"
    BY <1>1 DEF Working, WorksAt, User
  <2>2. pc[h] \in {"replace", "reserve"} => RowOf(h) \in Row
    BY <1>1 DEF Working, WorksAt, Knows, RowOf, Row, Safe, Owned
  <2>3. RowOf(h).subject = req[h].subject
    BY DEF RowOf
  <2>4. CASE ReplaceActive(h)
    <3> DEFINE u == User(h)
    <3>1. u \in Users /\ RowOf(h) \in Row
      BY <2>1, <2>2, <2>4 DEF ReplaceActive
    <3>2. CASE ~Available(u, req[h].subject)
      BY <1>2, <2>4, <3>2 DEF ReplaceActive
    <3>3. CASE Available(u, req[h].subject)
      <4>1. Alone(u, RowOf(h).subject, bindings, candidates)
        BY <2>3, <3>3, AvailableIsAlone
      <4>2. /\ bindings' = [bindings EXCEPT ![u] = RowOf(h)]
            /\ candidates' = [candidates EXCEPT ![u] = NoRow]
        BY <2>4, <3>3 DEF ReplaceActive
      <4> HIDE DEF u
      <4> QED BY <1>1, <3>1, <4>1, <4>2, WriteBoth
    <3> QED BY <3>2, <3>3
  <2>5. CASE pc[h] = "reserve" /\ (ReserveCandidate(h) \/ CommitLost(h))
    <3> DEFINE u == User(h)
    <3>1. u \in Users /\ RowOf(h) \in Row
      BY <2>1, <2>2, <2>5
    <3>2. CASE UNCHANGED tables
      BY <1>2, <3>2
    <3>3. CASE ~UNCHANGED tables
      <4>1. /\ Available(u, req[h].subject)
            /\ bindings' = bindings
            /\ candidates' = [candidates EXCEPT ![u] = RowOf(h)]
        BY <2>5, <3>3 DEF ReserveCandidate, CommitLost, tables
      <4>2. Alone(u, RowOf(h).subject, bindings, candidates)
        BY <2>3, <4>1, AvailableIsAlone
      <4> HIDE DEF u
      <4> QED BY <1>1, <3>1, <4>1, <4>2, WriteRow
    <3> QED BY <3>2, <3>3
  <2>6. CASE pc[h] = "promote" /\ (PromoteCandidate(h) \/ CommitLost(h))
    <3> DEFINE u == User(h)
               row == candidates[u]
    <3>1. u \in Users /\ row \in Row \cup {NoRow}
      BY <1>1, <2>1, <2>6 DEF Table
    <3>2. CASE UNCHANGED tables
      BY <1>2, <3>2
    <3>3. CASE ~UNCHANGED tables
      <4>1. /\ Available(u, row.subject)
            /\ bindings' = [bindings EXCEPT ![u] = row]
            /\ candidates' = [candidates EXCEPT ![u] = NoRow]
        BY <2>6, <3>3 DEF PromoteCandidate, CommitLost, Without, tables
      <4>2. Alone(u, row.subject, bindings, candidates)
        BY <4>1, AvailableIsAlone
      <4> HIDE DEF u, row
      <4> QED BY <1>1, <3>1, <4>1, <4>2, WriteBoth
    <3> QED BY <3>2, <3>3
  <2>7. CASE ReserveCandidate(h) \/ PromoteCandidate(h) \/ CommitLost(h)
    BY <2>5, <2>6, <2>7 DEF ReserveCandidate, PromoteCandidate, CommitLost
  <2>8. CASE DeleteCandidate(h)
    BY <1>1, <2>1, <2>8, WriteRow DEF DeleteCandidate, Without
  <2>9. CASE DeleteBinding(h)
    BY <1>1, <2>1, <2>9, WriteBoth DEF DeleteBinding, Without
  <2>10. CASE UpdateActive(h)
    <3> DEFINE u == User(h)
               row == [key |-> bindings[u].key, subject |-> bindings[u].subject,
                       capsOf |-> req[h].subject]
    <3>1. CASE ~Updates(bindings[u], req[h].subject)
      BY <1>2, <2>10, <3>1 DEF UpdateActive, tables
    <3>2. CASE Updates(bindings[u], req[h].subject)
      <4>1. u \in Users /\ req[h].subject \in Subjects
        BY <1>1, <2>1, <2>10 DEF UpdateActive, Working, WorksAt
      <4>2. bindings[u] \in Row
        BY <1>1, <3>2, <4>1, NoneIsNew DEF Updates, Table, NoRow
      <4>3. row \in Row /\ row.subject = bindings[u].subject
        BY <4>1, <4>2 DEF Row
      <4>4. Alone(u, row.subject, bindings, candidates)
        BY <4>1, <4>2, <4>3, NoneIsNew DEF Exclusive, Row, NoRow
      <4>5. bindings' = [bindings EXCEPT ![u] = row] /\ candidates' = candidates
        BY <2>10, <3>2 DEF UpdateActive
      <4> HIDE DEF row, u
      <4> QED BY <1>1, <4>1, <4>3, <4>4, <4>5, WriteRow
    <3> QED BY <3>1, <3>2
  <2>11. CASE ArriveBindApiKey(h) \/ ArriveRedeemAndBind(h) \/ ArriveOther(h)
    BY <1>2, <2>11 DEF ArriveBindApiKey, ArriveRedeemAndBind, ArriveOther, Arrive
  <2>12. CASE Verify(h, "verify", "replace") \/ CurrentCredential(h) \/ Check(h) \/ Fail(h)
    BY <1>2, <2>12 DEF Verify, CurrentCredential, Check, Fail
  <2> QED BY <1>3, <2>4, <2>5, <2>6, <2>7, <2>8, <2>9, <2>10, <2>11, <2>12 DEF Handle
<1>4. CASE Administer \/ Crash \/ \E m \in calls : Serve(m)
  BY <1>2, <1>4 DEF Administer, Crash, Serve, ServeRedeem, ServeActivate, Refuse, TimeOut
<1> QED BY <1>3, <1>4 DEF Next

\* A subject of an issuer is bound or reserved by at most one user, whatever
\* requests race: each transaction tests both tables before it writes one.
THEOREM OneUserPerSubject == Spec => []SubjectBoundOnce
<1>1. Init => Exclusive(bindings, candidates)
  BY DEF Init, Exclusive, Alone
<1>2. Safe /\ Exclusive(bindings, candidates) /\ [Next]_vars
      => Exclusive(bindings, candidates)'
  <2>1. CASE UNCHANGED vars
    BY <2>1 DEF vars, tables, Exclusive, Alone
  <2>2. CASE Next
    <3>1. ASSUME Safe, Exclusive(bindings, candidates) PROVE Exclusive(bindings', candidates')
      BY <2>2, <3>1, ExclusiveStep
    <3> QED BY <3>1 DEF Exclusive, Alone
  <2> QED BY <2>1, <2>2
<1>3. Safe /\ Exclusive(bindings, candidates) => SubjectBoundOnce
  BY ExclusiveIsOnce DEF Safe, Typed, TablesTyped
<1> QED BY <1>1, <1>2, <1>3, SafeInit, SafeStep, PTL DEF Spec

-----------------------------------------------------------------------------
(* What an undisturbed redeemAndBind returns *)

\* A request that has reserved and was not disturbed finds its own row.
OwnRow(h) ==
  pc[h] \in {"activate", "promote"} /\ h \notin disturbed => candidates[User(h)] = RowOf(h)

\* A request that may promote has activated its key.
Activated(h) == pc[h] = "promote" => status[req[h].key] \in {"active", "revoked"}

OwnRows == \A h \in Requests : OwnRow(h) /\ Activated(h)

\* A call that activates carries the key of the request that waits for it.
OwnKeys == \A m \in calls : m.op = "activate" /\ m.from # None => m.key = req[m.from].key

\* A key that was activated never becomes pending again.
LEMMA ActivatedStays ==
  ASSUME Safe, Next, NEW c \in Creds, status[c] \in {"active", "revoked"}
  PROVE  status'[c] \in {"active", "revoked"}
<1>1. CASE Administer
  BY <1>1 DEF Administer, Gateway!MakeKey, Gateway!MakeOffer, Gateway!Withdraw, Safe, Typed,
     Gateway!TypeOK
<1>2. CASE UNCHANGED status
  BY <1>2
<1>3. ASSUME NEW h \in Requests, Handle(h) PROVE UNCHANGED status
  BY <1>3 DEF Handle, ArriveBindApiKey, ArriveRedeemAndBind, ArriveOther, Arrive, Verify,
     ReplaceActive, ReserveCandidate, PromoteCandidate, DeleteCandidate,
     CurrentCredential, Check, UpdateActive, DeleteBinding, Fail, CommitLost, gateway
<1>4. CASE \E m \in calls : Serve(m)
  BY <1>4 DEF Serve, ServeRedeem, ServeActivate, Refuse, TimeOut, Gateway!Redeem,
     Gateway!Activate, Safe, Typed, Gateway!TypeOK, gateway
<1>5. CASE Crash
  BY <1>5 DEF Crash, gateway
<1> QED BY <1>1, <1>2, <1>3, <1>4, <1>5 DEF Next

\* A request that rests keeps its row, unless another disturbs it.
LEMMA Resting ==
  ASSUME Safe, Next, NEW h \in Requests, OwnRow(h), Activated(h),
         pc'[h] = pc[h], req'[h] = req[h], h \in disturbed => h \in disturbed',
         pc[h] \in {"activate", "promote"} =>
           h \in disturbed' \/ candidates'[User(h)] = candidates[User(h)]
  PROVE  OwnRow(h)' /\ Activated(h)'
<1>1. pc[h] = "promote" => req[h].key \in Creds
  BY DEF Safe, Working, WorksAt, Knows
<1> QED BY <1>1, ActivatedStays DEF OwnRow, Activated, User, RowOf

\* A step of one request disturbs the others whose candidate it writes.
LEMMA OwnRowsHandle ==
  ASSUME Safe, OwnRows, Next, NEW g \in Requests, Handle(g)
  PROVE  OwnRows'
<1>1. \A h \in Requests : OwnRow(h) /\ Activated(h) /\ Working(h)
  BY DEF OwnRows, Safe
<1>2. pc \in [Requests -> Steps \cup {"idle"}] /\ req \in [Requests -> Request]
      /\ candidates \in [Users -> Row \cup {NoRow}]
  BY DEF Safe, Typed
<1>3. ASSUME NEW h \in Requests, h # g PROVE OwnRow(h)' /\ Activated(h)'
  <2>1. pc'[h] = pc[h] /\ req'[h] = req[h]
    BY <1>2, <1>3 DEF Handle, ArriveBindApiKey, ArriveRedeemAndBind, ArriveOther, Arrive, Verify,
       ReplaceActive, ReserveCandidate, PromoteCandidate, DeleteCandidate,
       CurrentCredential, Check, UpdateActive, DeleteBinding, Fail, CommitLost,
       GoTo, GoToWith, Free
  <2>2. h \in disturbed => h \in disturbed'
    BY <1>3 DEF Handle, ArriveBindApiKey, ArriveRedeemAndBind, ArriveOther, Arrive, Verify,
       ReplaceActive, ReserveCandidate, PromoteCandidate, DeleteCandidate,
       CurrentCredential, Check, UpdateActive, DeleteBinding, Fail, CommitLost,
       Disturb, Undisturb
  <2>3. \/ candidates' = candidates
        \/ /\ \E row : candidates' = [candidates EXCEPT ![User(g)] = row]
           /\ Others(g) \subseteq disturbed'
    <3>1. g \notin Others(g)
      BY DEF Others
    <3> QED BY <3>1 DEF Handle, ArriveBindApiKey, ArriveRedeemAndBind, ArriveOther, Arrive,
       Verify, ReplaceActive, ReserveCandidate, PromoteCandidate, DeleteCandidate,
       CurrentCredential, Check, UpdateActive, DeleteBinding, Fail, CommitLost,
       Disturb, Without, tables
  <2>4. pc[h] \in {"activate", "promote"} =>
          h \in disturbed' \/ candidates'[User(h)] = candidates[User(h)]
    BY <1>1, <1>2, <1>3, <2>3 DEF Others, Working, WorksAt, User
  <2> QED BY <1>1, <2>1, <2>2, <2>4, Resting
<1>4. OwnRow(g)' /\ Activated(g)'
  <2>1. CASE pc'[g] \notin {"activate", "promote"}
    BY <2>1 DEF OwnRow, Activated
  <2>2. CASE ReserveCandidate(g) /\ pc'[g] \in {"activate", "promote"}
    <3>1. Available(User(g), req[g].subject)
      BY <1>2, <2>2 DEF ReserveCandidate, Free
    <3>2. /\ pc'[g] = "activate"
          /\ req' = req
          /\ candidates' = [candidates EXCEPT ![User(g)] = RowOf(g)]
      BY <1>2, <2>2, <3>1 DEF ReserveCandidate, GoTo
    <3>3. User(g) \in Users
      BY <1>1, <2>2 DEF ReserveCandidate, Working, WorksAt, User
    <3>4. candidates'[User(g)] = RowOf(g)
      BY <1>2, <3>2, <3>3
    <3>5. User(g)' = User(g) /\ RowOf(g)' = RowOf(g)
      BY <3>2 DEF User, RowOf
    <3> QED BY <3>2, <3>4, <3>5 DEF OwnRow, Activated
  <2>3. pc'[g] \notin {"activate", "promote"} \/ ReserveCandidate(g)
    BY <1>2 DEF Handle, ArriveBindApiKey, ArriveRedeemAndBind, ArriveOther, Arrive, Verify,
       ReplaceActive, PromoteCandidate, DeleteCandidate, CurrentCredential, Check,
       UpdateActive, DeleteBinding, Fail, CommitLost, GoTo, GoToWith, Free
  <2> QED BY <2>1, <2>2, <2>3
<1> QED BY <1>3, <1>4 DEF OwnRows

\* A step of one request leaves the calls of the others alone, and sends none
\* but with its own key.
LEMMA OwnKeysStep ==
  ASSUME Safe, OwnKeys, Next
  PROVE  OwnKeys'
<1>1. /\ pc \in [Requests -> Steps \cup {"idle"}] /\ req \in [Requests -> Request]
      /\ \A m \in calls : m.from # None => m.from \in Requests /\ pc[m.from] = m.op
      /\ OneCall
  BY DEF Safe, Typed, CallFits
<1>2. ASSUME NEW g \in Requests, Handle(g) PROVE OwnKeys'
  <2>1. \A m \in calls : m.op = "activate" /\ m.from = g => pc[g] = "activate"
    BY <1>1, NoneIsNew
  <2>2. pc[g] # "activate"
    BY <1>2 DEF Handle, ArriveBindApiKey, ArriveRedeemAndBind, ArriveOther, Arrive, Verify,
       ReplaceActive, ReserveCandidate, PromoteCandidate, DeleteCandidate,
       CurrentCredential, Check, UpdateActive, DeleteBinding, Fail, CommitLost
  <2>3. \A h \in Requests : h # g => req'[h] = req[h]
    BY <1>1, <1>2 DEF Handle, ArriveBindApiKey, ArriveRedeemAndBind, ArriveOther, Arrive, Verify,
       ReplaceActive, ReserveCandidate, PromoteCandidate, DeleteCandidate,
       CurrentCredential, Check, UpdateActive, DeleteBinding, Fail, CommitLost,
       GoTo, GoToWith, Free
  <2>4. CASE calls' = calls
    BY <1>1, <2>1, <2>2, <2>3, <2>4 DEF OwnKeys
  <2>5. CASE ReserveCandidate(g) /\ calls' # calls
    <3>1. /\ req' = req
          /\ calls' = calls \cup
               {[from |-> g, op |-> "activate", key |-> req[g].key, offer |-> None]}
      BY <2>5 DEF ReserveCandidate, GoTo
    <3> QED BY <3>1 DEF OwnKeys
  <2>6. CASE ArriveRedeemAndBind(g)
    <3>1. PICK r \in Redemptions : calls' = calls \cup
            {[from |-> g, op |-> "redeem", key |-> None, offer |-> r]}
      BY <2>6 DEF ArriveRedeemAndBind
    <3> QED BY <1>1, <2>1, <2>2, <2>3, <3>1 DEF OwnKeys
  <2>7. calls' = calls \/ ReserveCandidate(g) \/ ArriveRedeemAndBind(g)
    BY <1>2 DEF Handle, ArriveBindApiKey, ArriveOther, Verify, ReplaceActive,
       PromoteCandidate, DeleteCandidate, CurrentCredential, Check, UpdateActive,
       DeleteBinding, Fail, CommitLost
  <2> QED BY <2>4, <2>5, <2>6, <2>7
<1>3. ASSUME NEW m \in calls, Serve(m) PROVE OwnKeys'
  <2>1. \A h \in Requests : h # m.from => req'[h] = req[h]
    BY <1>1, <1>3 DEF Serve, ServeRedeem, ServeActivate, Refuse, TimeOut, GoTo, GoToWith, Free
  <2>2. \A n \in calls' : (n \in calls /\ n # m) \/ n.from = None
    BY <1>3 DEF Serve, ServeRedeem, ServeActivate, Refuse, TimeOut
  <2>3. \A n \in calls' : n.from # None => n \in calls /\ n.from # m.from
    BY <2>2 DEF OneCall, Safe
  <2> QED BY <1>1, <2>1, <2>3 DEF OwnKeys
<1>4. CASE Administer
  BY <1>4 DEF Administer, OwnKeys
<1>5. CASE Crash
  BY <1>5 DEF Crash, OwnKeys
<1> QED BY <1>2, <1>3, <1>4, <1>5 DEF Next

\* Every step leaves what undisturbed requests have reserved and activated.
LEMMA OwnRowsStep ==
  ASSUME Safe, OwnRows, OwnKeys, Next
  PROVE  OwnRows'
<1>1. \A h \in Requests : OwnRow(h) /\ Activated(h)
  BY DEF OwnRows
<1>2. pc \in [Requests -> Steps \cup {"idle"}] /\ req \in [Requests -> Request]
      /\ Gateway!TypeOK
  BY DEF Safe, Typed
<1>3. ASSUME NEW m \in calls, Serve(m), NEW h \in Requests
      PROVE  OwnRow(h)' /\ Activated(h)'
  <2>1. m.from # None => m.from \in Requests /\ pc[m.from] = m.op
    BY <1>3 DEF Safe, CallFits
  <2>2. candidates' = candidates
    BY <1>3 DEF Serve, ServeRedeem, ServeActivate, Refuse, TimeOut, tables
  <2>3. CASE h # m.from
    <3>1. pc'[h] = pc[h] /\ req'[h] = req[h] /\ (h \in disturbed => h \in disturbed')
      BY <1>2, <1>3, <2>1, <2>3 DEF Serve, ServeRedeem, ServeActivate, Refuse, TimeOut, GoTo,
         GoToWith, Free, Undisturb
    <3> QED BY <1>1, <2>2, <3>1, Resting
  <2>4. CASE h = m.from /\ ServeActivate(m)
    <3>1. m.from # None /\ m.op = "activate" /\ pc[h] = "activate"
      BY <2>1, <2>4, NoneIsNew DEF ServeActivate
    <3>2. pc'[h] = "promote" /\ req' = req /\ disturbed' = disturbed
      BY <1>2, <2>4, <3>1 DEF ServeActivate, GoTo
    <3>3. m.key = req[h].key /\ m.key \in Creds
      BY <1>3, <2>4, <3>1 DEF OwnKeys, Safe, CallFits
    <3>4. status'[m.key] = "active"
      BY <1>2, <2>4, <3>3 DEF ServeActivate, Gateway!Activate, Gateway!TypeOK
    <3>5. OwnRow(h)'
      BY <1>1, <2>2, <3>1, <3>2 DEF OwnRow, User, RowOf
    <3> QED BY <3>2, <3>3, <3>4, <3>5 DEF Activated
  <2>5. CASE h = m.from /\ ServeRedeem(m)
    <3>1. pc'[h] = "reserve"
      BY <1>2, <2>5, NoneIsNew DEF ServeRedeem, GoToWith
    <3> QED BY <3>1 DEF OwnRow, Activated
  <2>6. CASE h = m.from /\ (Refuse(m) \/ TimeOut(m))
    <3>1. pc'[h] \in {"idle", "undo"}
      BY <1>2, <2>6, NoneIsNew DEF Refuse, TimeOut, GoTo, Free, Caught
    <3> QED BY <3>1 DEF OwnRow, Activated
  <2> QED BY <1>3, <2>3, <2>4, <2>5, <2>6 DEF Serve
<1>4. CASE Administer
  BY <1>1, <1>4, Resting DEF Administer, tables, OwnRows
<1>5. CASE Crash
  BY <1>5 DEF Crash, OwnRows, OwnRow, Activated
<1> QED BY <1>3, <1>4, <1>5, OwnRowsHandle DEF Next, OwnRows

\* A key that redeemAndBind returns is activated and bound, in every
\* interleaving in which no other request of the user wrote a candidate since.
THEOREM UndisturbedReturns == Spec => UndisturbedKeyIsBound
<1>1. Init => OwnRows /\ OwnKeys
  BY DEF Init, OwnRows, OwnRow, Activated, OwnKeys
<1>2. Safe /\ OwnRows /\ OwnKeys /\ [Next]_vars => (OwnRows /\ OwnKeys)'
  <2>1. CASE UNCHANGED vars
    BY <2>1 DEF vars, gateway, tables, OwnRows, OwnRow, Activated, User, RowOf, OwnKeys
  <2> QED BY <2>1, OwnRowsStep, OwnKeysStep
<1>3. Safe /\ OwnRows /\ [Next]_vars
      => [\A h \in Requests : Returns(h) /\ h \notin disturbed =>
            /\ bindings'[User(h)].key = req[h].key
            /\ status[req[h].key] # "pending"]_vars
  <2> SUFFICES ASSUME Safe, OwnRows, Next, NEW h \in Requests, Returns(h), h \notin disturbed
               PROVE  /\ bindings'[User(h)].key = req[h].key
                      /\ status[req[h].key] # "pending"
    OBVIOUS
  <2>1. candidates[User(h)] = RowOf(h) /\ status[req[h].key] # "pending"
        /\ User(h) \in Users
    BY DEF OwnRows, OwnRow, Activated, Returns, Safe, Working, WorksAt, User
  <2>2. PICK g \in Requests : PromoteCandidate(g) /\ returned' # returned
    BY DEF Returns, Next, Administer, Handle, Serve, Crash, ArriveBindApiKey,
       ArriveRedeemAndBind, ArriveOther, Arrive, Verify, ReplaceActive, ReserveCandidate,
       DeleteCandidate, CurrentCredential, Check, UpdateActive, DeleteBinding, Fail,
       CommitLost, ServeRedeem, ServeActivate, Refuse, TimeOut
  <2>3. /\ returned' = returned \cup {<<User(g), req[g].key>>}
        /\ bindings' = [bindings EXCEPT ![User(g)] = candidates[User(g)]]
    BY <2>2 DEF PromoteCandidate
  <2>4. User(g) = User(h)
    BY <2>3 DEF Returns
  <2>5. bindings'[User(h)] = RowOf(h)
    BY <2>1, <2>3, <2>4 DEF Safe, Typed
  <2> QED BY <2>1, <2>5 DEF RowOf
<1> QED BY <1>1, <1>2, <1>3, SafeInit, SafeStep, PTL DEF Spec, UndisturbedKeyIsBound

-----------------------------------------------------------------------------
(* Candidates and their requests *)

Finishing == {"activate", "promote", "undo"}

\* Some request will promote or delete the user's candidate.
Has(u) == \E h \in Requests : User(h) = u /\ pc[h] \in Finishing

Attended == \A u \in Users : candidates[u] # NoRow /\ u \notin stranded => Has(u)

\* A step of a request that ends one removes the candidate or strands it.
LEMMA AttendedHandle ==
  ASSUME Safe, Attended, NEW g \in Requests, Handle(g), NEW u \in Users,
         candidates'[u] # NoRow, u \notin stranded'
  PROVE  Has(u)'
<1>1. /\ pc \in [Requests -> Steps \cup {"idle"}] /\ req \in [Requests -> Request]
      /\ candidates \in [Users -> Row \cup {NoRow}]
  BY DEF Safe, Typed
<1>2. ASSUME NEW h \in Requests, h # g PROVE pc'[h] = pc[h] /\ req'[h] = req[h]
  BY <1>1, <1>2 DEF Handle, ArriveBindApiKey, ArriveRedeemAndBind, ArriveOther, Arrive, Verify,
     ReplaceActive, ReserveCandidate, PromoteCandidate, DeleteCandidate,
     CurrentCredential, Check, UpdateActive, DeleteBinding, Fail, CommitLost,
     GoTo, GoToWith, Free
<1>3. ASSUME candidates'[u] = candidates[u], u \notin stranded,
             u = User(g) => pc[g] \notin Finishing
      PROVE  Has(u)'
  <2>1. PICK h \in Requests : User(h) = u /\ pc[h] \in Finishing
    BY <1>3 DEF Attended, Has
  <2>2. h # g
    BY <1>3, <2>1
  <2> QED BY <1>2, <2>1, <2>2 DEF Has, User
<1>4. CASE u # User(g)
  <2>1. candidates'[u] = candidates[u] /\ u \notin stranded
    BY <1>1, <1>4 DEF Handle, ArriveBindApiKey, ArriveRedeemAndBind, ArriveOther, Arrive, Verify,
       ReplaceActive, ReserveCandidate, PromoteCandidate, DeleteCandidate,
       CurrentCredential, Check, UpdateActive, DeleteBinding, Fail, CommitLost, Without, tables
  <2> QED BY <1>3, <1>4, <2>1
<1>5. CASE u = User(g) /\ pc[g] \notin Finishing
  <2>1. \/ pc' = [pc EXCEPT ![g] = "activate"] /\ req' = req
        \/ candidates'[u] = candidates[u] /\ u \notin stranded
    BY <1>1, <1>5 DEF Handle, ArriveBindApiKey, ArriveRedeemAndBind, ArriveOther, Arrive, Verify,
       ReplaceActive, ReserveCandidate, PromoteCandidate, DeleteCandidate,
       CurrentCredential, Check, UpdateActive, DeleteBinding, Fail, CommitLost, Without, tables,
       Finishing, GoTo
  <2>2. CASE pc' = [pc EXCEPT ![g] = "activate"] /\ req' = req
    BY <1>1, <1>5, <2>2 DEF Has, Finishing, User
  <2> QED BY <1>3, <1>5, <2>1, <2>2
<1>6. CASE u = User(g) /\ pc[g] \in Finishing
  <2>1. pc' = [pc EXCEPT ![g] = "undo"] /\ req' = req
    BY <1>1, <1>6 DEF Handle, ArriveBindApiKey, ArriveRedeemAndBind, ArriveOther, Arrive, Verify,
       ReplaceActive, ReserveCandidate, PromoteCandidate, DeleteCandidate,
       CurrentCredential, Check, UpdateActive, DeleteBinding, Fail, CommitLost, Without, tables,
       Finishing, GoTo
  <2> QED BY <1>1, <1>6, <2>1 DEF Has, Finishing, User
<1> QED BY <1>4, <1>5, <1>6

LEMMA AttendedStep ==
  ASSUME Safe, Attended, Next
  PROVE  Attended'
<1>1. pc \in [Requests -> Steps \cup {"idle"}] /\ req \in [Requests -> Request]
  BY DEF Safe, Typed
<1>2. ASSUME NEW g \in Requests, Handle(g) PROVE Attended'
  BY <1>2, AttendedHandle DEF Attended
<1>3. ASSUME NEW m \in calls, Serve(m) PROVE Attended'
  <2>1. m.from # None => m.from \in Requests /\ pc[m.from] = m.op
    BY DEF Safe, CallFits
  <2>2. candidates' = candidates /\ stranded' = stranded
    BY <1>3 DEF Serve, ServeRedeem, ServeActivate, Refuse, TimeOut, tables
  <2>3. ASSUME NEW h \in Requests, pc[h] \in Finishing
        PROVE  req'[h] = req[h] /\ pc'[h] \in Finishing
    <3>1. CASE h # m.from
      BY <1>1, <1>3, <2>1, <2>3, <3>1 DEF Serve, ServeRedeem, ServeActivate, Refuse, TimeOut, GoTo,
         GoToWith, Free
    <3>2. CASE h = m.from
      <4>1. m.from # None /\ m.op = "activate"
        BY <1>3, <2>1, <2>3, <3>2, NoneIsNew
           DEF Serve, ServeRedeem, ServeActivate, Refuse, TimeOut, Finishing, Safe, Typed, Call
      <4> QED BY <1>1, <1>3, <2>3, <3>2, <4>1 DEF Serve, ServeRedeem, ServeActivate, Refuse, TimeOut,
         GoTo, Caught, Finishing
    <3> QED BY <3>1, <3>2
  <2> QED BY <2>2, <2>3 DEF Attended, Has, User
<1>4. CASE Administer
  BY <1>4 DEF Administer, tables, Attended, Has, User
<1>5. CASE Crash
  BY <1>5 DEF Crash, tables, Attended
<1> QED BY <1>2, <1>3, <1>4, <1>5 DEF Next

\* A candidate, which bars its subject to every other user, is never left
\* behind but by a crash, a lost commit or a failed deleteCandidate.
THEOREM CandidatesAreAttended == Spec => []CandidateHasRequest
<1>1. Init => Attended
  BY DEF Init, Attended
<1>2. Safe /\ Attended /\ [Next]_vars => Attended'
  <2>1. CASE UNCHANGED vars
    BY <2>1 DEF vars, tables, Attended, Has, User
  <2> QED BY <2>1, AttendedStep
<1>3. Attended => CandidateHasRequest
  BY DEF Attended, Has, Finishing, CandidateHasRequest
<1> QED BY <1>1, <1>2, <1>3, SafeInit, SafeStep, PTL DEF Spec

\* The variables keep their types through every interleaving and crash.
THEOREM TypeCorrect == Spec => []TypeOK
<1> DEFINE Rest == /\ returned \subseteq Users \X Creds
                   /\ disturbed \subseteq Requests
                   /\ stranded \subseteq Users
<1>1. Init => Rest
  BY DEF Init
<1>2. Safe /\ Rest /\ [Next]_vars => Rest'
  <2> SUFFICES ASSUME Safe, Rest, [Next]_vars PROVE Rest'
    OBVIOUS
  <2>1. ASSUME NEW h \in Requests, Handle(h) PROVE Rest'
    <3>1. pc[h] \in {"replace", "reserve", "promote", "undo", "delete"} => User(h) \in Users
      BY DEF Safe, Working, WorksAt, User
    <3>2. pc[h] = "promote" => req[h].key \in Creds
      BY DEF Safe, Working, WorksAt, Knows
    <3>3. Others(h) \subseteq Requests
      BY DEF Others
    <3> QED BY <2>1, <3>1, <3>2, <3>3
      DEF Handle, ArriveBindApiKey, ArriveRedeemAndBind, ArriveOther, Arrive, Verify,
          ReplaceActive, ReserveCandidate, PromoteCandidate, DeleteCandidate,
          CurrentCredential, Check, UpdateActive, DeleteBinding, Fail, CommitLost, Disturb, Undisturb
  <2>2. ASSUME NEW m \in calls, Serve(m) PROVE Rest'
    BY <2>2 DEF Serve, ServeRedeem, ServeActivate, Refuse, TimeOut, Undisturb
  <2>3. CASE Administer \/ Crash \/ UNCHANGED vars
    BY <2>3 DEF Administer, Crash, vars
  <2> QED BY <2>1, <2>2, <2>3 DEF Next
<1>3. Safe /\ Rest => TypeOK
  BY DEF Safe, Typed, TypeOK
<1> HIDE DEF Rest
<1> QED BY <1>1, <1>2, <1>3, SafeInit, SafeStep, PTL DEF Spec
=============================================================================
