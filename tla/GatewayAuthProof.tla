------------------------- MODULE GatewayAuthProof -------------------------
(* Proofs about GatewayAuth, for all values of its constants. *)
EXTENDS GatewayKeys, TLAPS

-----------------------------------------------------------------------------
(* The shape of reachable states: references between rows and handlers.     *)

KeyOps == {"verify", "metadata", "activate"}
NonceOps == {"verify", "redeem", "activate"}
IssueOps == {"issueKey", "issueRedemption"}

RowsWellFormed ==
  /\ \A c \in Creds : cred[c].status # "none" => cred[c].subject \in Subjects
  /\ \A r \in Redemptions : redemption[r].state # "none" => redemption[r].subject \in Subjects
  /\ \A r \in Redemptions : \A c \in redemption[r].minted :
       c \in Creds /\ cred[c].status # "none"

\* Each step of a handler belongs to certain operations.
StepOps(step) ==
  CASE step = "credential" -> {"verify", "metadata"}
    [] step = "subject" -> {"verify", "metadata"}
    [] step = "nonce" -> {"verify", "redeem", "activate"}
    [] step = "store" -> {"redeem", "activate"}
    [] step = "owner" -> {"activate"}
    [] step = "issuable" -> IssueOps
    [] step = "insert" -> IssueOps
    [] step = "answered" -> {"verify", "metadata", "redeem", "activate"}
    [] OTHER -> {"none"}

HandlerWellFormed(h) ==
  /\ req[h].op \in StepOps(pc[h])
  /\ req[h].op \in KeyOps => req[h].key \in Creds /\ cred[req[h].key].status # "none"
  /\ req[h].op = "redeem" =>
       req[h].token \in Redemptions /\ redemption[req[h].token].state # "none"
  /\ req[h].op \in IssueOps => req[h].owner \in Subjects
  /\ req[h].op \in NonceOps => req[h].nonce \in Nonces

WellFormed == RowsWellFormed /\ \A h \in Requests : HandlerWellFormed(h)

\* A running handler deals with a subject that exists.
LEMMA OwnerType ==
  ASSUME TypeOK, WellFormed, NEW h \in Requests, pc[h] # "idle"
  PROVE  Owner(h) \in Subjects
BY DEF TypeOK, WellFormed, RowsWellFormed, HandlerWellFormed, Owner, StepOps, KeyOps, NonceOps, IssueOps, Steps

\* The empty rows and the empty request are typed.
LEMMA RowTypes ==
  /\ NoSubject \in SubjectRow
  /\ NoCred \in CredRow
  /\ NoActivation \in ActivationRow
  /\ NoRedemption \in RedemptionRow
  /\ NoRequest \in Request
BY DEF NoSubject, SubjectRow, NoCred, CredRow, NoActivation, ActivationRow, NoRedemption,
       RedemptionRow, NoRequest, Request, Ops, Steps, Never

\* A row keeps its type when its status is restated.
LEMMA RestatedType ==
  ASSUME NEW row \in CredRow, NEW status \in {"pending", "active", "revoked"},
         NEW until \in Nat \cup {Never}
  PROVE  Restated(row, status, until) \in CredRow
BY DEF Restated, CredRow

\* The initial tables and handlers are typed.
LEMMA TypeInit == Init => TypeOK
BY RowTypes DEF Init, TypeOK

HandlerTypes ==
  /\ pc \in [Requests -> Steps \cup {"idle"}]
  /\ req \in [Requests -> Request]
  /\ seen \in [Requests -> SubjectRow]

\* A handler that is freed stays typed.
LEMMA FreeTypes ==
  ASSUME HandlerTypes, NEW h \in Requests, Free(h)
  PROVE  HandlerTypes'
BY RowTypes DEF HandlerTypes, Free

\* A handler that goes on stays typed.
LEMMA GoToTypes ==
  ASSUME HandlerTypes, NEW h \in Requests, NEW next \in Steps, GoTo(h, next)
  PROVE  HandlerTypes'
BY DEF HandlerTypes, GoTo

\* A handler that goes on with a row it read stays typed.
LEMMA GoToSeeingTypes ==
  ASSUME HandlerTypes, NEW h \in Requests, NEW next \in Steps, NEW row \in SubjectRow,
         GoToSeeing(h, next, row)
  PROVE  HandlerTypes'
BY DEF HandlerTypes, GoToSeeing

\* A request that arrives is typed.
LEMMA ArriveTypes ==
  ASSUME HandlerTypes, NEW h \in Requests, NEW next \in Steps, clock \in Nat,
         NEW op \in Ops, NEW owner \in Subjects \cup {None}, NEW key \in Creds \cup {None},
         NEW token \in Redemptions \cup {None}, NEW nonce \in Nonces \cup {None},
         NEW need \in SUBSET Caps,
         Arrive(h, next, Ask(op, owner, key, token, nonce, need))
  PROVE  HandlerTypes'
BY DEF HandlerTypes, Arrive, Ask, Request

\* Every step keeps the tables and handlers typed.
LEMMA TypeInductive == TypeOK /\ WellFormed /\ Next => TypeOK'
<1> SUFFICES ASSUME TypeOK, WellFormed, Action, Observe PROVE TypeOK'
  BY DEF Next
<1> USE RowTypes, ConstantsAssumption DEF ConstantsAssumption
<1> DEFINE RowTypesOK ==
      /\ clock \in Nat
      /\ subject \in [Subjects -> SubjectRow]
      /\ cred \in [Creds -> CredRow]
      /\ activation \in [Creds -> ActivationRow]
      /\ redemption \in [Redemptions -> RedemptionRow]
      /\ nonces \in [Nonces -> Nat]
      /\ lastUse \in [Nonces -> Nat \cup {Never}]
<1>1. RowTypesOK /\ HandlerTypes
  BY DEF TypeOK, HandlerTypes
<1>2. SUFFICES RowTypesOK' /\ HandlerTypes'
  BY DEF TypeOK, HandlerTypes, Observe
<1>3. ASSUME NEW s \in Subjects, CreateSubject(s) \/ UpdateSubject(s) PROVE RowTypesOK' /\ HandlerTypes'
  <2>1. PICK a \in BOOLEAN, e \in Nat, k \in SUBSET Caps :
          subject' = [subject EXCEPT ![s] = [active |-> a, expiresAt |-> e, caps |-> k]]
    BY <1>3 DEF CreateSubject, UpdateSubject
  <2>2. [active |-> a, expiresAt |-> e, caps |-> k] \in SubjectRow
    BY DEF SubjectRow
  <2> QED
    BY <1>1, <1>3, <2>1, <2>2 DEF CreateSubject, UpdateSubject, HandlerTypes, handlers
<1>4. ASSUME NEW c \in Creds, RevokeCredential(c) PROVE RowTypesOK' /\ HandlerTypes'
  <2>1. cred[c] \in CredRow /\ cred[c].pendingUntil \in Nat \cup {Never}
    BY <1>1 DEF CredRow
  <2> QED
    BY <1>1, <1>4, <2>1, RestatedType DEF RevokeCredential, HandlerTypes, handlers
<1>5. ASSUME NEW h \in Requests, ArriveVerify(h) \/ ArriveMetadata(h) \/ ArriveRedeem(h) \/ ArriveActivate(h) \/ ArriveIssue(h)
      PROVE RowTypesOK' /\ HandlerTypes'
  <2>1. RowTypesOK'
    BY <1>1, <1>5 DEF ArriveVerify, ArriveMetadata, ArriveRedeem, ArriveActivate, ArriveIssue, Arrive, store
  <2>2. CASE ArriveVerify(h)
    BY <1>1, <2>1, <2>2, ArriveTypes DEF ArriveVerify, Minted, Ops, Steps
  <2>3. CASE ArriveMetadata(h)
    BY <1>1, <2>1, <2>3, ArriveTypes DEF ArriveMetadata, Minted, Ops, Steps
  <2>4. CASE ArriveRedeem(h)
    BY <1>1, <2>1, <2>4, ArriveTypes DEF ArriveRedeem, Minted, Ops, Steps
  <2>5. CASE ArriveActivate(h)
    BY <1>1, <2>1, <2>5, ArriveTypes DEF ArriveActivate, RedemptionRow, Ops, Steps
  <2>6. CASE ArriveIssue(h)
    BY <1>1, <2>1, <2>6, ArriveTypes DEF ArriveIssue, Minted, Ops, Steps
  <2> QED
    BY <1>5, <2>1, <2>2, <2>3, <2>4, <2>5, <2>6
<1>6. ASSUME NEW h \in Requests, ReadCredential(h) \/ Fail(h) \/ Reply(h) PROVE RowTypesOK' /\ HandlerTypes'
  BY <1>1, <1>6, FreeTypes, GoToTypes DEF ReadCredential, Fail, Reply, store, Steps
<1>7. ASSUME NEW h \in Requests, ReadSubject(h) PROVE RowTypesOK' /\ HandlerTypes'
  BY <1>1, <1>7, OwnerType, FreeTypes, GoToSeeingTypes DEF ReadSubject, store, Steps
<1>8. ASSUME NEW h \in Requests, ReadOwner(h) \/ ReadIssuable(h) PROVE RowTypesOK' /\ HandlerTypes'
  BY <1>1, <1>8, OwnerType, FreeTypes, GoToSeeingTypes DEF ReadOwner, ReadIssuable, store, Steps
<1>9. ASSUME NEW h \in Requests, ConsumeNonce(h) PROVE RowTypesOK' /\ HandlerTypes'
  <2>1. HandlerTypes'
    BY <1>1, <1>9, FreeTypes, GoToTypes DEF ConsumeNonce, Steps
  <2>2. req[h].now \in Nat
    BY <1>1 DEF HandlerTypes, Request
  <2> QED
    BY <1>1, <1>9, <2>1, <2>2 DEF ConsumeNonce, Unexpired
<1>10. ASSUME NEW h \in Requests, StoreRedeem(h) PROVE RowTypesOK' /\ HandlerTypes'
  <2>1. req[h].token \in Redemptions /\ redemption[req[h].token].subject \in Subjects /\ req[h].now \in Nat
    BY <1>1, <1>10 DEF WellFormed, RowsWellFormed, HandlerWellFormed, StoreRedeem, HandlerTypes, Request
  <2>2. HandlerTypes'
    BY <1>1, <1>10, <2>1, FreeTypes, GoToSeeingTypes DEF StoreRedeem, Steps
  <2>3. CASE ~Redeemable(req[h].token, req[h].now, req[h].need)
    BY <1>1, <1>10, <2>2, <2>3 DEF StoreRedeem
  <2>4. CASE Redeemable(req[h].token, req[h].now, req[h].need)
    <3> DEFINE r == req[h].token
               s == redemption[r].subject
               until == req[h].now + PendingTTL
    <3>1. PICK c \in Creds :
            /\ cred' = [cred EXCEPT ![c] =
                 [status |-> "pending", subject |-> s,
                  expiresAt |-> subject[s].expiresAt, pendingUntil |-> until]]
            /\ activation' = [activation EXCEPT ![c] =
                 [state |-> "unused", expiresAt |-> until]]
            /\ redemption' = [redemption EXCEPT ![r] =
                 [state |-> "used", subject |-> s, expiresAt |-> redemption[r].expiresAt,
                  minted |-> redemption[r].minted \cup {c}]]
      BY <1>10, <2>4 DEF StoreRedeem
    <3>2. until \in Nat /\ subject[s].expiresAt \in Nat
      BY <1>1, <2>1 DEF SubjectRow
    <3>3. redemption[r].expiresAt \in Nat /\ redemption[r].minted \subseteq Creds
      BY <1>1, <2>1 DEF RedemptionRow
    <3>4. [status |-> "pending", subject |-> s, expiresAt |-> subject[s].expiresAt,
           pendingUntil |-> until] \in CredRow
      BY <2>1, <3>2 DEF CredRow
    <3>5. [state |-> "unused", expiresAt |-> until] \in ActivationRow
      BY <3>2 DEF ActivationRow
    <3>6. [state |-> "used", subject |-> s, expiresAt |-> redemption[r].expiresAt,
           minted |-> redemption[r].minted \cup {c}] \in RedemptionRow
      BY <2>1, <3>3 DEF RedemptionRow
    <3> QED
      BY <1>1, <1>10, <2>2, <3>1, <3>4, <3>5, <3>6 DEF StoreRedeem
  <2> QED
    BY <2>3, <2>4
<1>11. ASSUME NEW h \in Requests, StoreActivate(h) PROVE RowTypesOK' /\ HandlerTypes'
  <2>1. HandlerTypes'
    BY <1>1, <1>11, FreeTypes, GoToTypes DEF StoreActivate, Steps
  <2>2. req[h].key \in Creds
    BY <1>11 DEF WellFormed, HandlerWellFormed, StoreActivate, KeyOps
  <2>3. CASE Activatable(req[h].key, req[h].now)
    <3>1. /\ Restated(cred[req[h].key], "active", Never) \in CredRow
          /\ [state |-> "used", expiresAt |-> activation[req[h].key].expiresAt] \in ActivationRow
      BY <1>1, <2>2, RestatedType DEF ActivationRow
    <3> QED
      BY <1>1, <1>11, <2>1, <2>2, <2>3, <3>1 DEF StoreActivate
  <2>4. CASE ~Activatable(req[h].key, req[h].now)
    BY <1>1, <1>11, <2>1, <2>4 DEF StoreActivate
  <2> QED
    BY <2>3, <2>4
<1>12. ASSUME NEW h \in Requests, InsertCredential(h) \/ InsertRedemption(h) PROVE RowTypesOK' /\ HandlerTypes'
  <2>1. HandlerTypes'
    BY <1>1, <1>12, FreeTypes DEF InsertCredential, InsertRedemption
  <2>2. seen[h].expiresAt \in Nat /\ req[h].owner \in Subjects \cup {None}
    BY <1>1 DEF HandlerTypes, Request, SubjectRow
  <2>3. CASE InsertCredential(h)
    BY <1>1, <2>1, <2>2, <2>3 DEF InsertCredential, CredRow
  <2>4. CASE InsertRedemption(h)
    BY <1>1, <2>1, <2>2, <2>4 DEF InsertRedemption, RedemptionRow
  <2> QED
    BY <1>12, <2>3, <2>4
<1>13. ASSUME NEW lost \in SUBSET Requests, Initialize(lost) PROVE RowTypesOK' /\ HandlerTypes'
  BY <1>1, <1>13 DEF Initialize, Restated, CredRow, Unexpired, HandlerTypes
<1>14. ASSUME Tick PROVE RowTypesOK' /\ HandlerTypes'
  BY <1>1, <1>14 DEF Tick, store, handlers, HandlerTypes
<1> QED
  BY <1>3, <1>4, <1>5, <1>6, <1>7, <1>8, <1>9, <1>10, <1>11, <1>12, <1>13, <1>14
     DEF Action, Handle

-----------------------------------------------------------------------------
(* Rows are inserted and updated, never deleted, and keep their subject.    *)

RowsKeepSubject ==
  /\ \A c \in Creds : cred[c].status # "none" =>
       cred'[c].status # "none" /\ cred'[c].subject = cred[c].subject
  /\ \A r \in Redemptions : redemption[r].state # "none" =>
       redemption'[r].state # "none" /\ redemption'[r].subject = redemption[r].subject

\* Restating a row's status changes nothing but its status and deadline.
LEMMA RestatedRow ==
  ASSUME NEW row, NEW status, NEW until
  PROVE  /\ Restated(row, status, until).status = status
         /\ Restated(row, status, until).subject = row.subject
         /\ Restated(row, status, until).expiresAt = row.expiresAt
         /\ Restated(row, status, until).pendingUntil = until
BY DEF Restated

\* No step changes a row's subject, and rows go on naming rows that exist.
LEMMA RowsStep ==
  ASSUME TypeOK, WellFormed, Next
  PROVE  RowsKeepSubject /\ RowsWellFormed'
<1> USE DEF TypeOK, RowsWellFormed, RowsKeepSubject
<1>1. RowsWellFormed
  BY DEF WellFormed
<1>2. ASSUME UNCHANGED <<cred, redemption>> PROVE RowsKeepSubject /\ RowsWellFormed'
  BY <1>1, <1>2
<1>3. ASSUME NEW c \in Creds, RevokeCredential(c) PROVE RowsKeepSubject /\ RowsWellFormed'
  BY <1>1, <1>3, RestatedRow DEF RevokeCredential
<1>4. ASSUME NEW h \in Requests, StoreRedeem(h) PROVE RowsKeepSubject /\ RowsWellFormed'
  <2>1. req[h].token \in Redemptions /\ redemption[req[h].token].subject \in Subjects
    BY <1>4 DEF WellFormed, HandlerWellFormed, StoreRedeem
  <2>2. CASE ~Redeemable(req[h].token, req[h].now, req[h].need)
    BY <1>2, <1>4, <2>2 DEF StoreRedeem
  <2>3. CASE Redeemable(req[h].token, req[h].now, req[h].need)
    <3>1. PICK c \in Creds :
            /\ cred[c].status = "none"
            /\ cred' = [cred EXCEPT ![c] =
                 [status |-> "pending", subject |-> redemption[req[h].token].subject,
                  expiresAt |-> subject[redemption[req[h].token].subject].expiresAt,
                  pendingUntil |-> req[h].now + PendingTTL]]
            /\ redemption' = [redemption EXCEPT ![req[h].token] =
                 [state |-> "used", subject |-> redemption[req[h].token].subject,
                  expiresAt |-> redemption[req[h].token].expiresAt,
                  minted |-> redemption[req[h].token].minted \cup {c}]]
      BY <1>4, <2>3 DEF StoreRedeem
    <3>2. RowsKeepSubject
      BY <2>1, <3>1
    <3> QED
      BY <1>1, <2>1, <3>1, <3>2
  <2> QED
    BY <2>2, <2>3
<1>5. ASSUME NEW h \in Requests, StoreActivate(h) PROVE RowsKeepSubject /\ RowsWellFormed'
  <2>1. CASE ~Activatable(req[h].key, req[h].now)
    BY <1>2, <1>5, <2>1 DEF StoreActivate
  <2>2. CASE Activatable(req[h].key, req[h].now)
    BY <1>1, <1>5, <2>2, RestatedRow DEF StoreActivate, Activatable
  <2> QED
    BY <2>1, <2>2
<1>6. ASSUME NEW h \in Requests, InsertCredential(h) PROVE RowsKeepSubject /\ RowsWellFormed'
  <2>1. req[h].owner \in Subjects
    BY <1>6 DEF WellFormed, HandlerWellFormed, InsertCredential, IssueOps
  <2> QED
    BY <1>1, <1>6, <2>1 DEF InsertCredential
<1>7. ASSUME NEW h \in Requests, InsertRedemption(h) PROVE RowsKeepSubject /\ RowsWellFormed'
  <2>1. req[h].owner \in Subjects
    BY <1>7 DEF WellFormed, HandlerWellFormed, InsertRedemption, IssueOps
  <2> QED
    BY <1>1, <1>7, <2>1 DEF InsertRedemption
<1>8. ASSUME NEW lost \in SUBSET Requests, Initialize(lost) PROVE RowsKeepSubject /\ RowsWellFormed'
  BY <1>1, <1>8, RestatedRow DEF Initialize, Lapsed
<1>9. ASSUME \/ \E s \in Subjects : CreateSubject(s) \/ UpdateSubject(s)
             \/ \E h \in Requests :
                  \/ ArriveVerify(h) \/ ArriveMetadata(h) \/ ArriveRedeem(h)
                  \/ ArriveActivate(h) \/ ArriveIssue(h)
                  \/ ReadCredential(h) \/ ReadSubject(h) \/ ConsumeNonce(h)
                  \/ ReadOwner(h) \/ ReadIssuable(h) \/ Fail(h) \/ Reply(h)
             \/ Tick
      PROVE  UNCHANGED <<cred, redemption>>
  BY <1>9 DEF CreateSubject, UpdateSubject, ArriveVerify, ArriveMetadata, ArriveRedeem,
       ArriveActivate, ArriveIssue, Arrive, ReadCredential, ReadSubject, ConsumeNonce,
       ReadOwner, ReadIssuable, Fail, Reply, Tick, store
<1> QED
  BY <1>2, <1>3, <1>4, <1>5, <1>6, <1>7, <1>8, <1>9 DEF Next, Action, Handle

\* A handler that does not move stays well formed.
LEMMA RestingHandler ==
  ASSUME RowsKeepSubject, NEW h \in Requests, HandlerWellFormed(h),
         pc'[h] = pc[h], req'[h] = req[h], TypeOK
  PROVE  HandlerWellFormed(h)'
BY DEF RowsKeepSubject, HandlerWellFormed

\* A handler that is freed is well formed.
LEMMA FreedHandler ==
  ASSUME TypeOK, NEW h \in Requests, Free(h)
  PROVE  HandlerWellFormed(h)'
BY DEF TypeOK, HandlerWellFormed, Free, NoRequest, StepOps, KeyOps, NonceOps, IssueOps

\* A handler that goes on is well formed if the next step fits its operation.
LEMMA MovedHandler ==
  ASSUME TypeOK, RowsKeepSubject, NEW h \in Requests, HandlerWellFormed(h),
         NEW next \in Steps, req[h].op \in StepOps(next),
         pc' = [pc EXCEPT ![h] = next], UNCHANGED req
  PROVE  HandlerWellFormed(h)'
BY DEF TypeOK, HandlerWellFormed, RowsKeepSubject

\* Only handler h moves.
OnlyMoves(h) ==
  \A g \in Requests : g # h => pc'[g] = pc[g] /\ req'[g] = req[g]

\* A step of one handler moves no other handler and not the clock.
LEMMA OneHandlerMoves ==
  ASSUME TypeOK, NEW h \in Requests, Handle(h)
  PROVE  OnlyMoves(h)
BY DEF TypeOK, OnlyMoves, Handle, ArriveVerify, ArriveMetadata, ArriveRedeem, ArriveActivate,
       ArriveIssue, Arrive, ReadCredential, ReadSubject, ConsumeNonce, StoreRedeem,
       StoreActivate, ReadOwner, ReadIssuable, InsertCredential, InsertRedemption, Fail,
       Reply, Free, GoTo, GoToSeeing

\* Every step keeps handlers and rows well formed.
LEMMA WellFormedInductive ==
  ASSUME TypeOK, WellFormed, Next
  PROVE  WellFormed'
<1>1. RowsKeepSubject /\ RowsWellFormed'
  BY RowsStep
<1>2. \A h \in Requests : HandlerWellFormed(h)
  BY DEF WellFormed
<1>3. SUFFICES \A h \in Requests : HandlerWellFormed(h)'
  BY <1>1 DEF WellFormed
<1>4. CASE \/ \E s \in Subjects : CreateSubject(s) \/ UpdateSubject(s)
           \/ \E c \in Creds : RevokeCredential(c)
           \/ Tick
  BY <1>1, <1>2, <1>4, RestingHandler
     DEF CreateSubject, UpdateSubject, RevokeCredential, Tick, handlers
<1>5. CASE \E lost \in SUBSET Requests : Initialize(lost)
  <2>1. PICK lost \in SUBSET Requests : Initialize(lost)
    BY <1>5
  <2>2. SUFFICES ASSUME NEW h \in Requests PROVE HandlerWellFormed(h)'
    OBVIOUS
  <2>3. CASE h \in lost
    BY <2>1, <2>3 DEF Initialize, HandlerWellFormed, NoRequest, StepOps, KeyOps, NonceOps, IssueOps
  <2>4. CASE h \notin lost
    BY <1>1, <1>2, <2>1, <2>4, RestingHandler DEF Initialize
  <2> QED
    BY <2>3, <2>4
<1>6. ASSUME NEW h \in Requests, Handle(h) PROVE \A g \in Requests : HandlerWellFormed(g)'
  <2>1. \A g \in Requests : g # h => HandlerWellFormed(g)'
    BY <1>1, <1>2, <1>6, OneHandlerMoves, RestingHandler DEF OnlyMoves
  <2>2. SUFFICES HandlerWellFormed(h)'
    BY <2>1
  <2>3. HandlerWellFormed(h)
    BY <1>2
  <2>4. CASE ArriveVerify(h) \/ ArriveMetadata(h)
    BY <2>3, <2>4 DEF ArriveVerify, ArriveMetadata, Arrive, Ask, Minted, TypeOK,
         HandlerWellFormed, StepOps, KeyOps, NonceOps, IssueOps, store
  <2>12. CASE ArriveActivate(h)
    BY <2>3, <2>12 DEF ArriveActivate, Arrive, Ask, TypeOK, WellFormed, RowsWellFormed,
         HandlerWellFormed, StepOps, KeyOps, NonceOps, IssueOps, store
  <2>5. CASE ArriveRedeem(h) \/ ArriveIssue(h)
    BY <2>3, <2>5 DEF ArriveRedeem, ArriveIssue, Arrive, Ask, TypeOK,
         HandlerWellFormed, StepOps, KeyOps, NonceOps, IssueOps, store
  <2>6. CASE ReadCredential(h)
    BY <1>1, <2>3, <2>6, FreedHandler, MovedHandler
       DEF ReadCredential, GoTo, HandlerWellFormed, StepOps, Steps
  <2>7. CASE ReadSubject(h)
    <3>1. req[h].op \in {"verify", "metadata"}
      BY <2>3, <2>7 DEF ReadSubject, HandlerWellFormed, StepOps
    <3>2. CASE req[h].op = "verify"
      BY <1>1, <2>3, <2>7, <3>2, FreedHandler, MovedHandler
         DEF ReadSubject, GoToSeeing, StepOps, Steps
    <3>3. CASE req[h].op = "metadata"
      BY <1>1, <2>3, <2>7, <3>3, FreedHandler, MovedHandler
         DEF ReadSubject, GoToSeeing, StepOps, Steps
    <3> QED
      BY <3>1, <3>2, <3>3
  <2>8. CASE ConsumeNonce(h)
    BY <1>1, <2>3, <2>8, FreedHandler, MovedHandler
       DEF ConsumeNonce, GoTo, HandlerWellFormed, StepOps, Steps
  <2>9. CASE StoreRedeem(h) \/ StoreActivate(h)
    BY <1>1, <2>3, <2>9, FreedHandler, MovedHandler
       DEF StoreRedeem, StoreActivate, GoTo, GoToSeeing, HandlerWellFormed, StepOps, Steps
  <2>10. CASE ReadOwner(h) \/ ReadIssuable(h)
    BY <1>1, <2>3, <2>10, FreedHandler, MovedHandler
       DEF ReadOwner, ReadIssuable, GoToSeeing, HandlerWellFormed, StepOps, Steps
  <2>11. CASE InsertCredential(h) \/ InsertRedemption(h) \/ Fail(h) \/ Reply(h)
    BY <2>11, FreedHandler DEF InsertCredential, InsertRedemption, Fail, Reply
  <2> QED
    BY <1>6, <2>4, <2>5, <2>6, <2>7, <2>8, <2>9, <2>10, <2>11, <2>12 DEF Handle
<1> QED
  BY <1>4, <1>5, <1>6 DEF Next, Action

\* The handlers and rows are typed and well formed in every reachable state.
THEOREM TypeCorrect == Spec => [](TypeOK /\ WellFormed)
<1>1. Init => TypeOK /\ WellFormed
  <2>1. Init => WellFormed
    BY DEF Init, WellFormed, RowsWellFormed, HandlerWellFormed, NoCred, NoRedemption, NoRequest,
           StepOps, KeyOps, NonceOps, IssueOps
  <2> QED
    BY <2>1, TypeInit
<1>2. TypeOK /\ WellFormed /\ [Next]_vars => TypeOK' /\ WellFormed'
  <2>1. TypeOK /\ WellFormed /\ Next => TypeOK' /\ WellFormed'
    BY TypeInductive, WellFormedInductive
  <2>2. TypeOK /\ WellFormed /\ UNCHANGED vars => TypeOK' /\ WellFormed'
    BY DEF vars, store, handlers, history, TypeOK, WellFormed, RowsWellFormed,
           HandlerWellFormed, StepOps
  <2> QED
    BY <2>1, <2>2
<1> QED
  BY <1>1, <1>2, PTL DEF Spec

-----------------------------------------------------------------------------
(* Redemptions and activation tokens                                        *)

RowsSafe == RedemptionMintsOnce /\ PendingHasToken

\* Every step keeps redemptions spent once and pending keys activatable.
LEMMA RowsSafeInductive ==
  ASSUME TypeOK, WellFormed, RowsSafe, Next
  PROVE  RowsSafe'
<1> USE DEF TypeOK, RowsSafe, RedemptionMintsOnce, PendingHasToken
<1>1. ASSUME UNCHANGED <<cred, activation, redemption>> PROVE RowsSafe'
  BY <1>1
<1>2. ASSUME NEW c \in Creds, RevokeCredential(c) PROVE RowsSafe'
  BY <1>2, RestatedRow DEF RevokeCredential
<1>3. ASSUME NEW h \in Requests, StoreRedeem(h) PROVE RowsSafe'
  <2>1. CASE ~Redeemable(req[h].token, req[h].now, req[h].need)
    BY <1>1, <1>3, <2>1 DEF StoreRedeem
  <2>2. CASE Redeemable(req[h].token, req[h].now, req[h].need)
    <3> DEFINE r == req[h].token
    <3>1. PICK c \in Creds :
            /\ cred[c].status = "none"
            /\ cred' = [cred EXCEPT ![c] =
                 [status |-> "pending", subject |-> redemption[r].subject,
                  expiresAt |-> subject[redemption[r].subject].expiresAt,
                  pendingUntil |-> req[h].now + PendingTTL]]
            /\ activation' = [activation EXCEPT ![c] =
                 [state |-> "unused", expiresAt |-> req[h].now + PendingTTL]]
            /\ redemption' = [redemption EXCEPT ![r] =
                 [state |-> "used", subject |-> redemption[r].subject,
                  expiresAt |-> redemption[r].expiresAt,
                  minted |-> redemption[r].minted \cup {c}]]
      BY <1>3, <2>2 DEF StoreRedeem
    <3>2. r \in Redemptions /\ redemption[r].minted = {}
      BY <1>3, <2>2 DEF StoreRedeem, Redeemable, WellFormed, HandlerWellFormed
    <3>3. RedemptionMintsOnce'
      BY <3>1, <3>2
    <3>4. PendingHasToken'
      BY <3>1
    <3> QED
      BY <3>3, <3>4
  <2> QED
    BY <2>1, <2>2
<1>4. ASSUME NEW h \in Requests, StoreActivate(h) PROVE RowsSafe'
  <2>1. CASE ~Activatable(req[h].key, req[h].now)
    BY <1>1, <1>4, <2>1 DEF StoreActivate
  <2>2. CASE Activatable(req[h].key, req[h].now)
    BY <1>4, <2>2, RestatedRow DEF StoreActivate
  <2> QED
    BY <2>1, <2>2
<1>5. ASSUME NEW h \in Requests, InsertCredential(h) \/ InsertRedemption(h) PROVE RowsSafe'
  BY <1>5 DEF InsertCredential, InsertRedemption
<1>6. ASSUME NEW lost \in SUBSET Requests, Initialize(lost) PROVE RowsSafe'
  BY <1>6, RestatedRow DEF Initialize, Lapsed, CredRow, ActivationRow
<1>7. ASSUME \/ \E s \in Subjects : CreateSubject(s) \/ UpdateSubject(s)
             \/ \E h \in Requests :
                  \/ ArriveVerify(h) \/ ArriveMetadata(h) \/ ArriveRedeem(h)
                  \/ ArriveActivate(h) \/ ArriveIssue(h)
                  \/ ReadCredential(h) \/ ReadSubject(h) \/ ConsumeNonce(h)
                  \/ ReadOwner(h) \/ ReadIssuable(h) \/ Fail(h) \/ Reply(h)
             \/ Tick
      PROVE  UNCHANGED <<cred, activation, redemption>>
  BY <1>7 DEF CreateSubject, UpdateSubject, ArriveVerify, ArriveMetadata, ArriveRedeem,
       ArriveActivate, ArriveIssue, Arrive, ReadCredential, ReadSubject, ConsumeNonce,
       ReadOwner, ReadIssuable, Fail, Reply, Tick, store
<1> QED
  BY <1>1, <1>2, <1>3, <1>4, <1>5, <1>6, <1>7 DEF Next, Action, Handle

\* Whatever requests race, a redemption yields one credential, and a pending
\* credential always has its token (the transactions of AuthorizationStore).
THEOREM RowsAreSafe == Spec => []ExchangeIsSafe
<1>1. Init => RowsSafe
  BY DEF Init, RowsSafe, RedemptionMintsOnce, PendingHasToken, NoCred, NoRedemption
<1>2. TypeOK /\ WellFormed /\ RowsSafe /\ [Next]_vars => RowsSafe'
  <2>1. RowsSafe /\ UNCHANGED vars => RowsSafe'
    BY DEF vars, store, RowsSafe, RedemptionMintsOnce, PendingHasToken
  <2> QED
    BY <2>1, RowsSafeInductive
<1>3. RowsSafe => ExchangeIsSafe
  BY DEF RowsSafe, ExchangeIsSafe
<1> QED
  BY <1>1, <1>2, <1>3, TypeCorrect, PTL DEF Spec

-----------------------------------------------------------------------------
(* Time: handlers work with a clock value that is at most Latency old, and a *)
(* nonce row outlives its nonce's protection.                               *)

OnTime ==
  \A h \in Requests : Running(h) => req[h].now <= clock /\ clock <= req[h].now + Latency

NonceKept ==
  \A n \in Nonces : lastUse[n] # Never =>
    \/ nonces[n] = lastUse[n] + NonceTTL
    \/ lastUse[n] + NonceTTL <= clock

TimeSafe == OnTime /\ NonceKept

\* Every step keeps handlers on time and nonce rows long enough.
LEMMA TimeInductive ==
  ASSUME TypeOK, WellFormed, TimeSafe, Next
  PROVE  TimeSafe'
<1> USE ConstantsAssumption DEF ConstantsAssumption, TypeOK, TimeSafe
<1>1. ASSUME NEW h \in Requests, Handle(h) PROVE OnTime'
  <2>1. OnlyMoves(h) /\ clock' = clock
    BY <1>1, OneHandlerMoves DEF Handle, ArriveVerify, ArriveMetadata, ArriveRedeem, ArriveActivate,
       ArriveIssue, Arrive, ReadCredential, ReadSubject, ConsumeNonce, StoreRedeem,
       StoreActivate, ReadOwner, ReadIssuable, InsertCredential, InsertRedemption, Fail, Reply
  <2>2. pc'[h] = "idle" \/ (req'[h] = req[h] /\ pc[h] # "idle") \/ req'[h].now = clock
    <3>1. CASE \/ ArriveVerify(h) \/ ArriveMetadata(h) \/ ArriveRedeem(h)
               \/ ArriveActivate(h) \/ ArriveIssue(h)
      <4>1. PICK first, op, owner, key, token, nonce, need :
              Arrive(h, first, Ask(op, owner, key, token, nonce, need))
        BY <3>1 DEF ArriveVerify, ArriveMetadata, ArriveRedeem, ArriveActivate, ArriveIssue
      <4>2. Ask(op, owner, key, token, nonce, need).now = clock
        BY DEF Ask
      <4> QED
        BY <4>1, <4>2 DEF Arrive
    <3>2. CASE ConsumeNonce(h) \/ StoreRedeem(h) \/ StoreActivate(h)
      BY <3>2 DEF ConsumeNonce, StoreRedeem, StoreActivate, Free, GoTo, GoToSeeing
    <3>3. CASE \/ ReadCredential(h) \/ ReadSubject(h) \/ ReadOwner(h) \/ ReadIssuable(h)
               \/ InsertCredential(h) \/ InsertRedemption(h) \/ Fail(h) \/ Reply(h)
      BY <3>3 DEF ReadCredential, ReadSubject, ReadOwner, ReadIssuable, InsertCredential,
         InsertRedemption, Fail, Reply, Free, GoTo, GoToSeeing
    <3> QED
      BY <1>1, <3>1, <3>2, <3>3 DEF Handle
  <2> QED
    BY <2>1, <2>2 DEF OnTime, Running, OnlyMoves
<1>2. ASSUME NEW h \in Requests, ConsumeNonce(h) PROVE NonceKept'
  <2>1. req[h].nonce \in Nonces /\ req[h].now \in Nat /\ req[h].now <= clock
    BY <1>2 DEF ConsumeNonce, OnTime, Running, WellFormed, HandlerWellFormed, StepOps, NonceOps, Request
  <2> QED
    BY <1>2, <2>1 DEF ConsumeNonce, NonceKept, Unexpired, Never
<1>3. ASSUME NEW lost \in SUBSET Requests, Initialize(lost) PROVE TimeSafe'
  BY <1>3 DEF Initialize, OnTime, Running, NonceKept, Unexpired, Never
<1>4. ASSUME Tick PROVE TimeSafe'
  BY <1>4 DEF Tick, OnTime, Running, NonceKept, Never, handlers, store, Request
<1>5. ASSUME UNCHANGED <<clock, nonces, lastUse>> PROVE NonceKept'
  BY <1>5 DEF NonceKept
<1>6. ASSUME NEW h \in Requests, Handle(h), ~ConsumeNonce(h) PROVE UNCHANGED <<clock, nonces, lastUse>>
  BY <1>6 DEF Handle, ArriveVerify, ArriveMetadata, ArriveRedeem, ArriveActivate,
       ArriveIssue, Arrive, ReadCredential, ReadSubject, StoreRedeem,
       StoreActivate, ReadOwner, ReadIssuable, InsertCredential, InsertRedemption, Fail, Reply, store
<1>7. ASSUME \/ \E s \in Subjects : CreateSubject(s) \/ UpdateSubject(s)
             \/ \E c \in Creds : RevokeCredential(c)
      PROVE  TimeSafe'
  BY <1>7 DEF CreateSubject, UpdateSubject, RevokeCredential, OnTime, Running, NonceKept, handlers
<1> QED
  BY <1>1, <1>2, <1>3, <1>4, <1>5, <1>6, <1>7 DEF Next, Action

\* The invariant the action properties rest on.
LEMMA TimeIsSafe == Spec => []TimeSafe
<1>1. Init => TimeSafe
  BY DEF Init, TimeSafe, OnTime, Running, NonceKept
<1>2. TypeOK /\ WellFormed /\ TimeSafe /\ [Next]_vars => TimeSafe'
  <2>1. TimeSafe /\ UNCHANGED vars => TimeSafe'
    BY DEF vars, store, handlers, history, TimeSafe, OnTime, Running, NonceKept
  <2> QED
    BY <2>1, TimeInductive
<1> QED
  BY <1>1, <1>2, TypeCorrect, PTL DEF Spec

-----------------------------------------------------------------------------
(* The action properties                                                    *)

\* A revoked credential stays revoked, whatever activates or cleans up.
THEOREM RevocationIsFinal == Spec => RevokedIsFinal
<1>1. TypeOK /\ WellFormed /\ [Next]_vars =>
        [\A c \in Creds : cred[c].status = "revoked" => cred'[c].status = "revoked"]_vars
  <2> SUFFICES ASSUME TypeOK, WellFormed, Next, NEW c \in Creds, cred[c].status = "revoked"
               PROVE  cred'[c].status = "revoked"
    OBVIOUS
  <2> USE DEF TypeOK
  <2>1. ASSUME NEW d \in Creds, RevokeCredential(d) PROVE cred'[c].status = "revoked"
    BY <2>1, RestatedRow DEF RevokeCredential
  <2>2. ASSUME NEW h \in Requests, Handle(h) PROVE cred'[c].status = "revoked"
    <3>1. CASE StoreRedeem(h)
      BY <3>1 DEF StoreRedeem
    <3>2. CASE StoreActivate(h)
      BY <3>2 DEF StoreActivate, Activatable
    <3>3. CASE InsertCredential(h)
      BY <3>3 DEF InsertCredential
    <3>4. CASE ~StoreRedeem(h) /\ ~StoreActivate(h) /\ ~InsertCredential(h)
      BY <2>2, <3>4 DEF Handle, ArriveVerify, ArriveMetadata, ArriveRedeem, ArriveActivate,
         ArriveIssue, Arrive, ReadCredential, ReadSubject, ConsumeNonce, ReadOwner,
         ReadIssuable, InsertRedemption, Fail, Reply, store
    <3> QED
      BY <3>1, <3>2, <3>3, <3>4
  <2>3. ASSUME NEW lost \in SUBSET Requests, Initialize(lost) PROVE cred'[c].status = "revoked"
    BY <2>3, RestatedRow DEF Initialize
  <2>4. CASE Tick \/ \E s \in Subjects : CreateSubject(s) \/ UpdateSubject(s)
    BY <2>4 DEF Tick, CreateSubject, UpdateSubject, store
  <2> QED
    BY <2>1, <2>2, <2>3, <2>4 DEF Next, Action
<1> QED
  BY <1>1, TypeCorrect, PTL DEF Spec, RevokedIsFinal

\* A pending key becomes active at most Latency after its deadline.
THEOREM ActivationIsTimely == Spec => ActivatedInTime
<1>1. TypeOK /\ WellFormed /\ RowsSafe /\ TimeSafe /\ [Next]_vars =>
        [\A c \in Creds : cred[c].status = "pending" /\ cred'[c].status = "active" =>
           clock < cred[c].pendingUntil + Latency]_vars
  <2> SUFFICES ASSUME TypeOK, WellFormed, RowsSafe, TimeSafe, Next, NEW c \in Creds,
                      cred[c].status = "pending", cred'[c].status = "active"
               PROVE  clock < cred[c].pendingUntil + Latency
    OBVIOUS
  <2> USE ConstantsAssumption DEF ConstantsAssumption, TypeOK
  <2>1. ASSUME NEW h \in Requests, StoreActivate(h) PROVE clock < cred[c].pendingUntil + Latency
    <3>1. Activatable(req[h].key, req[h].now) /\ c = req[h].key
      BY <2>1, RestatedRow DEF StoreActivate
    <3>2. clock <= req[h].now + Latency /\ req[h].now \in Nat
      BY <2>1 DEF StoreActivate, TimeSafe, OnTime, Running, Request
    <3>3. activation[c].expiresAt = cred[c].pendingUntil /\ activation[c].expiresAt \in Nat
      BY DEF RowsSafe, PendingHasToken, ActivationRow
    <3> QED
      BY <3>1, <3>2, <3>3 DEF Activatable, TokenUsable
  <2>2. ASSUME NEW h \in Requests, Handle(h), ~StoreActivate(h) PROVE FALSE
    <3>1. CASE StoreRedeem(h)
      BY <3>1 DEF StoreRedeem
    <3>2. CASE InsertCredential(h)
      BY <3>2 DEF InsertCredential
    <3>3. CASE ~StoreRedeem(h) /\ ~InsertCredential(h)
      BY <2>2, <3>3 DEF Handle, ArriveVerify, ArriveMetadata, ArriveRedeem, ArriveActivate,
         ArriveIssue, Arrive, ReadCredential, ReadSubject, ConsumeNonce, ReadOwner,
         ReadIssuable, InsertRedemption, Fail, Reply, store
    <3> QED
      BY <3>1, <3>2, <3>3
  <2>3. ASSUME \/ Tick
               \/ \E s \in Subjects : CreateSubject(s) \/ UpdateSubject(s)
               \/ \E d \in Creds : RevokeCredential(d)
               \/ \E lost \in SUBSET Requests : Initialize(lost)
        PROVE  FALSE
    BY <2>3, RestatedRow
       DEF Tick, CreateSubject, UpdateSubject, RevokeCredential, Initialize, store
  <2> QED
    BY <2>1, <2>2, <2>3 DEF Next, Action
<1>2. Spec => []RowsSafe
  BY RowsAreSafe, PTL DEF RowsSafe, ExchangeIsSafe
<1> QED
  BY <1>1, <1>2, TypeCorrect, TimeIsSafe, PTL DEF Spec, ActivatedInTime

\* A nonce is not accepted twice within NonceTTL - Latency.
THEOREM NoncesAreNotReused == Spec => NonceReuseGap
<1>1. TypeOK /\ WellFormed /\ TimeSafe /\ [Next]_vars =>
        [\A h \in Requests :
           pc[h] = "nonce" /\ pc'[h] \in {"store", "answered"}
             /\ lastUse[req[h].nonce] # Never =>
           req[h].now >= lastUse[req[h].nonce] + NonceTTL - Latency]_vars
  <2> SUFFICES ASSUME TypeOK, WellFormed, TimeSafe, Next, NEW h \in Requests, pc[h] = "nonce",
                      pc'[h] \in {"store", "answered"}, lastUse[req[h].nonce] # Never
               PROVE  req[h].now >= lastUse[req[h].nonce] + NonceTTL - Latency
    OBVIOUS
  <2> USE ConstantsAssumption DEF ConstantsAssumption, TypeOK
  <2> DEFINE n == req[h].nonce
  <2>1. /\ n \in Nonces
        /\ req[h].now \in Nat
        /\ clock <= req[h].now + Latency
        /\ lastUse[n] \in Nat
        /\ nonces[n] \in Nat
        /\ nonces[n] = lastUse[n] + NonceTTL \/ lastUse[n] + NonceTTL <= clock
    BY DEF WellFormed, HandlerWellFormed, StepOps, NonceOps, TimeSafe, OnTime, Running,
           NonceKept, Request
  <2>2. ConsumeNonce(h)
    <3>1. ASSUME NEW g \in Requests, Handle(g) PROVE g = h
      BY <3>1, OneHandlerMoves DEF OnlyMoves
    <3>2. ASSUME Handle(h) PROVE ConsumeNonce(h)
      BY <3>2 DEF Handle, ArriveVerify, ArriveMetadata, ArriveRedeem, ArriveActivate,
         ArriveIssue, Arrive, ReadCredential, ReadSubject, ReadOwner, ReadIssuable,
         StoreRedeem, StoreActivate, InsertCredential, InsertRedemption, Fail, Reply, Free
    <3>3. ASSUME \/ Tick
                 \/ \E s \in Subjects : CreateSubject(s) \/ UpdateSubject(s)
                 \/ \E d \in Creds : RevokeCredential(d)
                 \/ \E lost \in SUBSET Requests : Initialize(lost)
          PROVE  FALSE
      BY <3>3 DEF Tick, CreateSubject, UpdateSubject, RevokeCredential, Initialize, handlers
    <3> QED
      BY <3>1, <3>2, <3>3 DEF Next, Action
  <2>3. Unexpired(req[h].now)[n] = 0
    BY <2>1, <2>2 DEF ConsumeNonce, Free
  <2>4. nonces[n] <= req[h].now
    BY <2>1, <2>3 DEF Unexpired
  <2> QED
    BY <2>1, <2>4
<1> QED
  BY <1>1, TypeCorrect, TimeIsSafe, PTL DEF Spec, NonceReuseGap

-----------------------------------------------------------------------------
(* Answers rest on authority seen while the request was running             *)

KeySeen(h) == <<h, req[h].key>> \notin deadKeys
CapsSeen(h) == \A k \in seen[h].caps : <<h, Owner(h), k>> \notin deadCaps

\* What each step of a handler has already seen alive.
Backed(h) ==
  /\ pc[h] \in {"subject", "owner"} => KeySeen(h)
  /\ pc[h] = "nonce" /\ req[h].op = "verify" => KeySeen(h) /\ CapsSeen(h)
  /\ pc[h] = "answered" => (req[h].op # "redeem" => KeySeen(h)) /\ CapsSeen(h)

AllBacked == \A h \in Requests : Backed(h)

\* What was seen alive during a request stays seen.
LEMMA SeenStays ==
  ASSUME TypeOK, WellFormed, Next, NEW h \in Requests,
         pc[h] # "idle", pc'[h] # "idle", req'[h] = req[h]
  PROVE  /\ Owner(h)' = Owner(h)
         /\ KeySeen(h) => KeySeen(h)'
         /\ CapsSeen(h) /\ seen'[h] = seen[h] => CapsSeen(h)'
<1>1. RowsKeepSubject
  BY RowsStep
<1>2. Owner(h)' = Owner(h)
  BY <1>1 DEF WellFormed, HandlerWellFormed, StepOps, TypeOK, Steps, Owner, RowsKeepSubject,
         KeyOps, NonceOps, IssueOps
<1>3. \A c : <<h, c>> \notin deadKeys => <<h, c>> \notin deadKeys'
  BY DEF Next, Observe, Running
<1>4. \A s, k : <<h, s, k>> \notin deadCaps => <<h, s, k>> \notin deadCaps'
  BY DEF Next, Observe, Running
<1> QED
  BY <1>2, <1>3, <1>4 DEF KeySeen, CapsSeen

\* A key that is active and a subject that is live after a step are seen by it.
LEMMA SeenNow ==
  ASSUME TypeOK, Next, NEW h \in Requests
  PROVE  /\ \A c \in Creds : cred'[c].status = "active" => <<h, c>> \notin deadKeys'
         /\ \A s \in Subjects : subject'[s].active =>
              \A k \in subject'[s].caps : <<h, s, k>> \notin deadCaps'
BY DEF Next, Observe, KeyDead, CapDead

\* Every step keeps what running handlers rely on seen alive since they arrived.
LEMMA BackedInductive ==
  ASSUME TypeOK, WellFormed, AllBacked, Next, WellFormed', TypeOK'
  PROVE  AllBacked'
<1>1. SUFFICES ASSUME NEW h \in Requests PROVE Backed(h)'
  BY DEF AllBacked
<1>2. Backed(h) /\ HandlerWellFormed(h)
  BY DEF AllBacked, WellFormed
<1>3. ASSUME pc'[h] = pc[h], req'[h] = req[h], seen'[h] = seen[h] PROVE Backed(h)'
  BY <1>2, <1>3, SeenStays DEF Backed
<1>4. ASSUME pc'[h] \in {"idle", "credential", "issuable", "insert", "store"} PROVE Backed(h)'
  BY <1>4 DEF Backed
<1>5. ASSUME Handle(h) PROVE Backed(h)'
  <2> USE DEF TypeOK
  <2>1. ASSUME Free(h) PROVE Backed(h)'
    BY <1>4, <2>1 DEF Free
  <2>2. CASE ArriveVerify(h) \/ ArriveMetadata(h) \/ ArriveIssue(h)
    BY <1>4, <2>2 DEF ArriveVerify, ArriveMetadata, ArriveIssue, Arrive
  <2>3. CASE ArriveRedeem(h) \/ ArriveActivate(h)
    BY <2>3 DEF ArriveRedeem, ArriveActivate, Arrive, Ask, Backed
  <2>4. CASE ReadCredential(h)
    <3>1. CASE CredentialUsable(req[h].key, req[h].now)
      <4>1. req[h].key \in Creds /\ cred'[req[h].key].status = "active"
        BY <1>2, <2>4, <3>1 DEF HandlerWellFormed, StepOps, KeyOps, ReadCredential, store,
           CredentialUsable
      <4>2. KeySeen(h)'
        BY <2>4, <3>1, <4>1, SeenNow DEF ReadCredential, GoTo, KeySeen
      <4> QED
        BY <2>4, <3>1, <4>2 DEF ReadCredential, GoTo, Backed
    <3>2. CASE ~CredentialUsable(req[h].key, req[h].now)
      BY <2>1, <2>4, <3>2 DEF ReadCredential
    <3> QED
      BY <3>1, <3>2
  <2>5. CASE ReadSubject(h) \/ ReadOwner(h)
    <3>1. CASE Allows(subject[Owner(h)], h)
      <4> DEFINE row == subject[Owner(h)]
      <4>1. /\ KeySeen(h)
            /\ pc[h] # "idle"
            /\ UNCHANGED <<req, subject>>
            /\ pc'[h] \in {"nonce", "answered"}
            /\ seen'[h] = row
            /\ row.active
        BY <1>2, <2>5, <3>1 DEF ReadSubject, ReadOwner, Backed, GoToSeeing, store, Allows, SubjectLive
      <4>2. Owner(h)' = Owner(h) /\ KeySeen(h)' /\ Owner(h) \in Subjects
        BY <4>1, SeenStays, OwnerType
      <4>3. CapsSeen(h)'
        BY <4>1, <4>2, SeenNow DEF CapsSeen
      <4> QED
        BY <4>1, <4>2, <4>3 DEF Backed
    <3>2. CASE ~Allows(subject[Owner(h)], h)
      BY <2>1, <2>5, <3>2 DEF ReadSubject, ReadOwner
    <3> QED
      BY <3>1, <3>2
  <2>6. CASE ConsumeNonce(h)
    <3>1. CASE req[h].op = "verify" /\ GoTo(h, "answered")
      <4>1. KeySeen(h) /\ CapsSeen(h) /\ pc'[h] = "answered" /\ pc[h] = "nonce"
            /\ req'[h] = req[h] /\ seen'[h] = seen[h]
        BY <1>2, <2>6, <3>1 DEF Backed, ConsumeNonce, GoTo
      <4> QED
        BY <4>1, SeenStays DEF Backed
    <3>2. CASE GoTo(h, "store")
      BY <1>4, <3>2 DEF GoTo
    <3> QED
      BY <2>1, <2>6, <3>1, <3>2 DEF ConsumeNonce
  <2>7. CASE StoreRedeem(h)
    <3>1. CASE Redeemable(req[h].token, req[h].now, req[h].need)
      <4> DEFINE s == redemption[req[h].token].subject
      <4>1. /\ req[h].op = "redeem"
            /\ pc[h] = "store"
            /\ UNCHANGED <<req, subject>>
            /\ pc'[h] = "answered"
            /\ seen'[h] = subject[s]
            /\ subject[s].active
        BY <2>7, <3>1 DEF StoreRedeem, Redeemable, RedeemableAgain, SubjectLive, GoToSeeing
      <4>2. Owner(h) = s /\ Owner(h) \in Subjects
        BY <4>1, OwnerType DEF Owner
      <4>3. Owner(h)' = s
        BY <4>1, <4>2, SeenStays
      <4>4. CapsSeen(h)'
        BY <4>1, <4>2, <4>3, SeenNow DEF CapsSeen
      <4> QED
        BY <4>1, <4>4 DEF Backed
    <3>2. CASE ~Redeemable(req[h].token, req[h].now, req[h].need)
      BY <2>1, <2>7, <3>2 DEF StoreRedeem
    <3> QED
      BY <3>1, <3>2
  <2>8. CASE StoreActivate(h)
    <3>1. CASE Activatable(req[h].key, req[h].now)
      <4>1. req[h].key \in Creds /\ cred'[req[h].key].status = "active"
        BY <1>2, <2>8, <3>1, RestatedRow DEF HandlerWellFormed, KeyOps, StoreActivate
      <4>2. KeySeen(h)'
        BY <2>8, <3>1, <4>1, SeenNow DEF StoreActivate, GoTo, KeySeen
      <4> QED
        BY <2>8, <3>1, <4>2 DEF StoreActivate, GoTo, Backed
    <3>2. CASE ~Activatable(req[h].key, req[h].now)
      BY <2>1, <2>8, <3>2 DEF StoreActivate
    <3> QED
      BY <3>1, <3>2
  <2>9. CASE ReadIssuable(h)
    BY <1>4, <2>1, <2>9 DEF ReadIssuable, GoToSeeing
  <2>10. CASE InsertCredential(h) \/ InsertRedemption(h) \/ Fail(h) \/ Reply(h)
    BY <2>1, <2>10 DEF InsertCredential, InsertRedemption, Fail, Reply
  <2> QED
    BY <1>5, <2>2, <2>3, <2>4, <2>5, <2>6, <2>7, <2>8, <2>9, <2>10 DEF Handle
<1>6. ASSUME NEW g \in Requests, Handle(g), g # h PROVE Backed(h)'
  <2>1. OnlyMoves(g)
    BY <1>6, OneHandlerMoves
  <2>2. seen'[h] = seen[h]
    BY <1>6 DEF TypeOK, Handle, ArriveVerify, ArriveMetadata, ArriveRedeem, ArriveActivate,
       ArriveIssue, Arrive, ReadCredential, ReadSubject, ConsumeNonce, StoreRedeem,
       StoreActivate, ReadOwner, ReadIssuable, InsertCredential, InsertRedemption, Fail,
       Reply, Free, GoTo, GoToSeeing
  <2> QED
    BY <1>3, <1>6, <2>1, <2>2 DEF OnlyMoves
<1>7. CASE \/ \E s \in Subjects : CreateSubject(s) \/ UpdateSubject(s)
           \/ \E c \in Creds : RevokeCredential(c)
           \/ Tick
  BY <1>3, <1>7 DEF CreateSubject, UpdateSubject, RevokeCredential, Tick, handlers
<1>8. CASE \E lost \in SUBSET Requests : Initialize(lost)
  BY <1>3, <1>4, <1>8 DEF Initialize
<1> QED
  BY <1>5, <1>6, <1>7, <1>8 DEF Next, Action

\* No answer rests on a key or a subject that was powerless all through the
\* request (verify, authorizeMetadata, redeem and activate).
THEOREM AnswersAreBacked == Spec => []AnswersReflectLiveState
<1>1. Init => AllBacked
  BY DEF Init, AllBacked, Backed
<1>2. TypeOK /\ WellFormed /\ AllBacked /\ [Next]_vars => AllBacked'
  <2>1. AllBacked /\ UNCHANGED vars => AllBacked'
    BY DEF vars, store, handlers, history, AllBacked, Backed, KeySeen, CapsSeen, Owner
  <2> QED
    BY <2>1, BackedInductive, TypeInductive, WellFormedInductive
<1>3. AllBacked => AnswersReflectLiveState
  BY DEF AllBacked, Backed, AnswersReflectLiveState, KeySeen, CapsSeen
<1> QED
  BY <1>1, <1>2, <1>3, TypeCorrect, PTL DEF Spec


-----------------------------------------------------------------------------
(* The gateway implements KeyLife.                                          *)

Seen == <<StatusOf, HolderOf, OfferOf, OfferedTo>>

\* A step that leaves both tables alone is a stutter of the abstract state.
LEMMA TablesUnchanged ==
  ASSUME UNCHANGED <<cred, redemption>>
  PROVE  UNCHANGED Seen
BY DEF Seen, StatusOf, HolderOf, OfferOf, OfferedTo

\* Revoking some keys, and nothing else, withdraws them.
LEMMA RevokingWithdraws ==
  ASSUME TypeOK, NEW gone \in SUBSET Creds,
         \A c \in gone : cred[c].status \in {"pending", "active"},
         cred' = [c \in Creds |-> IF c \in gone
                                  THEN Restated(cred[c], "revoked", cred[c].pendingUntil)
                                  ELSE cred[c]],
         UNCHANGED redemption
  PROVE  Life!Withdraw(gone)
<1>1. \A c \in gone : StatusOf[c] \in {"pending", "active"}
  BY DEF StatusOf
<1>2. StatusOf' = [c \in Creds |-> IF c \in gone THEN "revoked" ELSE StatusOf[c]]
  BY RestatedRow DEF StatusOf
<1>3. UNCHANGED HolderOf
  BY RestatedRow DEF HolderOf
<1>4. UNCHANGED <<OfferOf, OfferedTo>>
  BY DEF OfferOf, OfferedTo
<1> QED BY <1>1, <1>2, <1>3, <1>4 DEF Life!Withdraw

\* The initial tables are those of a gateway without keys or offers.
LEMMA InitImplements == Init => Life!Init
BY DEF Init, Life!Init, StatusOf, HolderOf, OfferOf, OfferedTo, NoCred, NoRedemption

\* Every step of the gateway is a step of KeyLife or leaves keys and offers alone.
LEMMA NextImplements ==
  ASSUME TypeOK, WellFormed, Next
  PROVE  Life!Next \/ UNCHANGED Seen
<1> USE DEF TypeOK
<1>1. ASSUME NEW c \in Creds, RevokeCredential(c) PROVE Life!Next
  <2>1. Life!Withdraw({c})
    <3>1. cred' = [d \in Creds |-> IF d \in {c}
                                   THEN Restated(cred[d], "revoked", cred[d].pendingUntil)
                                   ELSE cred[d]]
      BY <1>1 DEF RevokeCredential
    <3> QED BY <1>1, <3>1, RevokingWithdraws DEF RevokeCredential
  <2> QED BY <2>1 DEF Life!Next
<1>2. ASSUME NEW h \in Requests, StoreRedeem(h) PROVE Life!Next \/ UNCHANGED Seen
  <2>1. CASE ~Redeemable(req[h].token, req[h].now, req[h].need)
    BY <1>2, <2>1, TablesUnchanged DEF StoreRedeem
  <2>2. CASE Redeemable(req[h].token, req[h].now, req[h].need)
    <3> DEFINE r == req[h].token
    <3>1. r \in Redemptions /\ redemption[r].state = "unused"
      BY <1>2, <2>2 DEF StoreRedeem, WellFormed, HandlerWellFormed, Redeemable
    <3>2. PICK c \in Creds :
            /\ cred[c].status = "none"
            /\ cred' = [cred EXCEPT ![c] =
                 [status |-> "pending", subject |-> redemption[r].subject,
                  expiresAt |-> subject[redemption[r].subject].expiresAt,
                  pendingUntil |-> req[h].now + PendingTTL]]
            /\ redemption' = [redemption EXCEPT ![r] =
                 [state |-> "used", subject |-> redemption[r].subject,
                  expiresAt |-> redemption[r].expiresAt,
                  minted |-> redemption[r].minted \cup {c}]]
      BY <1>2, <2>2 DEF StoreRedeem
    <3>3. Life!Redeem(r, c)
      BY <3>1, <3>2 DEF Life!Redeem, StatusOf, HolderOf, OfferOf, OfferedTo
    <3> QED BY <3>1, <3>3 DEF Life!Next
  <2> QED BY <2>1, <2>2
<1>3. ASSUME NEW h \in Requests, StoreActivate(h) PROVE Life!Next \/ UNCHANGED Seen
  <2> DEFINE c == req[h].key
  <2>1. CASE ~Activatable(c, req[h].now)
    BY <1>3, <2>1, TablesUnchanged DEF StoreActivate
  <2>2. CASE Activatable(c, req[h].now)
    <3>1. c \in Creds /\ cred[c].status = "pending"
      BY <1>3, <2>2 DEF StoreActivate, WellFormed, HandlerWellFormed, Activatable, KeyOps
    <3>2. cred' = [cred EXCEPT ![c] = Restated(cred[c], "active", Never)]
          /\ UNCHANGED redemption
      BY <1>3, <2>2 DEF StoreActivate
    <3>3. Life!Activate(c)
      BY SMTT(30), <3>1, <3>2, RestatedRow DEF Life!Activate, StatusOf, HolderOf, OfferOf, OfferedTo
    <3> QED BY <3>1, <3>3 DEF Life!Next
  <2> QED BY <2>1, <2>2
<1>4. ASSUME NEW h \in Requests, InsertCredential(h) PROVE Life!Next
  <2>1. req[h].owner \in Subjects
    BY <1>4 DEF InsertCredential, WellFormed, HandlerWellFormed, IssueOps
  <2>2. PICK c \in Creds :
          /\ cred[c].status = "none"
          /\ cred' = [cred EXCEPT ![c] =
               [status |-> "active", subject |-> req[h].owner,
                expiresAt |-> seen[h].expiresAt, pendingUntil |-> Never]]
    BY <1>4 DEF InsertCredential
  <2>3. Life!MakeKey(c, req[h].owner)
    BY <1>4, <2>2 DEF InsertCredential, Life!MakeKey, StatusOf, HolderOf, OfferOf, OfferedTo
  <2> QED BY <2>1, <2>3 DEF Life!Next
<1>5. ASSUME NEW h \in Requests, InsertRedemption(h) PROVE Life!Next
  <2>1. req[h].owner \in Subjects
    BY <1>5 DEF InsertRedemption, WellFormed, HandlerWellFormed, IssueOps
  <2>2. PICK r \in Redemptions, e \in Expiries :
          /\ redemption[r].state = "none"
          /\ redemption' = [redemption EXCEPT ![r] =
               [state |-> "unused", subject |-> req[h].owner, expiresAt |-> e,
                minted |-> {}]]
    BY <1>5 DEF InsertRedemption
  <2>3. Life!MakeOffer(r, req[h].owner)
    BY <1>5, <2>2 DEF InsertRedemption, Life!MakeOffer, StatusOf, HolderOf, OfferOf, OfferedTo
  <2> QED BY <2>1, <2>3 DEF Life!Next
<1>6. ASSUME NEW lost \in SUBSET Requests, Initialize(lost) PROVE Life!Next
  <2>1. Lapsed(clock) \in SUBSET Creds
        /\ \A c \in Lapsed(clock) : cred[c].status \in {"pending", "active"}
    BY DEF Lapsed
  <2>2. Life!Withdraw(Lapsed(clock))
    BY <1>6, <2>1, RevokingWithdraws DEF Initialize
  <2> QED BY <2>1, <2>2 DEF Life!Next
<1>7. ASSUME UNCHANGED <<cred, redemption>> PROVE UNCHANGED Seen
  BY <1>7, TablesUnchanged
<1>8. ASSUME NEW h \in Requests, Handle(h) PROVE Life!Next \/ UNCHANGED Seen
  BY <1>2, <1>3, <1>4, <1>5, <1>7, <1>8
     DEF Handle, ArriveVerify, ArriveMetadata, ArriveRedeem, ArriveActivate, ArriveIssue,
         Arrive, ReadCredential, ReadSubject, ConsumeNonce, ReadOwner, ReadIssuable, Fail,
         Reply, store
<1>9. ASSUME Tick \/ \E s \in Subjects : CreateSubject(s) \/ UpdateSubject(s)
      PROVE  UNCHANGED Seen
  BY <1>7, <1>9 DEF Tick, CreateSubject, UpdateSubject, store
<1> QED BY <1>1, <1>6, <1>8, <1>9 DEF Next, Action

\* The gateway's tables, under any number of handlers, administrators, restarts
\* and latencies, change only as KeyLife says: a redemption is exchanged once,
\* for one new pending key of its subject, a pending key is activated once, and
\* what is revoked or lapsed stays so.
THEOREM GatewayImplementsKeyLife == Spec => ImplementsKeyLife
<1>1. Init => Life!Init
  BY InitImplements
<1>2. TypeOK /\ WellFormed /\ [Next]_vars => [Life!Next]_Seen
  <2> SUFFICES ASSUME TypeOK, WellFormed, [Next]_vars PROVE [Life!Next]_Seen
    OBVIOUS
  <2>1. CASE Next
    BY <2>1, NextImplements
  <2>2. CASE UNCHANGED vars
    BY <2>2, TablesUnchanged DEF vars, store
  <2> QED BY <2>1, <2>2
<1>3. Spec => [](TypeOK /\ WellFormed)
  BY TypeCorrect
<1>4. [][Life!Next]_Seen <=> [][Life!Next]_(Life!lifeVars)
  BY PTL DEF Seen, Life!lifeVars
<1> QED BY <1>1, <1>2, <1>3, <1>4, PTL DEF Spec, ImplementsKeyLife, Life!Spec
=============================================================================
