---------------------------- MODULE GatewayAuth ----------------------------
(***************************************************************************)
(* The life of an authorization at the issuing gateway: subjects, API keys *)
(* (credentials), one-time redemptions, their activation tokens and the    *)
(* nonces of the signed protocol (GatewayAuthorizationService over an      *)
(* AuthorizationStore).                                                    *)
(*                                                                         *)
(* Every store operation is one transaction, so it is one action here; a   *)
(* request handler is a sequence of such actions, cut at its awaits, and   *)
(* the handlers of several requests interleave at every cut.  A handler    *)
(* reads the clock once, when it starts (now = Date.now()), and uses that  *)
(* value after every await.  A request that is refused frees its slot at   *)
(* once; one that is answered holds it until the answer is sent, so that   *)
(* the properties can look at what was answered.                           *)
(*                                                                         *)
(* Secrets are modelled by the row they open: whoever presents a key, a    *)
(* redemption token or an activation token names its credential or its     *)
(* redemption.  A made-up secret is refused by its digest and changes      *)
(* nothing, so it is not an input.                                         *)
(***************************************************************************)
EXTENDS Integers

CONSTANTS
  Subjects,      \* subject ids createSubject may draw
  Creds,         \* credential ids redeem and issueApiKey may draw
  Redemptions,   \* redemption ids issueRedemption may draw
  Nonces,        \* nonces clients may send
  Caps,          \* capabilities
  Metadata,      \* the capability authorizeMetadata asks for
  Requests,      \* request handlers that may run at once
  Offered,       \* bound: the kinds of request that are made
  Expiries,      \* expiry times an administrator may choose
  PendingTTL,    \* PENDING_TTL_MS
  NonceTTL,      \* NONCE_TTL_MS
  Latency,       \* bound: how long a handler may run
  MaxTime,       \* bound: the last value of the clock
  None           \* stands for null

Ops == {"verify", "metadata", "redeem", "activate", "issueKey", "issueRedemption"}

ASSUME ConstantsAssumption ==
  /\ Metadata \in Caps
  /\ Offered \subseteq Ops
  /\ Expiries \subseteq Nat
  /\ PendingTTL \in Nat
  /\ NonceTTL \in Nat
  /\ Latency \in Nat
  /\ MaxTime \in Nat
  /\ None \notin Subjects \cup Creds \cup Redemptions \cup Nonces

VARIABLES
  clock,        \* Date.now()
  subject,      \* table authorization_subjects
  cred,         \* table authorization_credentials
  activation,   \* table authorization_activations, by the credential it activates
  redemption,   \* table authorization_redemptions
  nonces,       \* table authorization_nonces: expires_at, 0 for an absent row
  pc,           \* where each handler stands
  req,          \* what each handler was asked, and its now
  seen,         \* the subject row each handler read and will use later
  lastUse,      \* history: the clock value with which each nonce was last accepted
  deadKeys,     \* history: keys that were not active at any time since the request arrived
  deadCaps      \* history: capabilities subjects did not have at any time since then

store == <<subject, cred, activation, redemption, nonces>>
history == <<lastUse, deadKeys, deadCaps>>
handlers == <<pc, req, seen>>
vars == <<clock, store, handlers, history>>

-----------------------------------------------------------------------------
(* Rows and requests *)

Never == -1

SubjectRow == [active : BOOLEAN, expiresAt : Nat, caps : SUBSET Caps]
NoSubject == [active |-> FALSE, expiresAt |-> 0, caps |-> {}]

\* pendingUntil is pending_expires_at; Never is SQL's NULL.
CredRow == [status : {"none", "pending", "active", "revoked"},
            subject : Subjects \cup {None},
            expiresAt : Nat,
            pendingUntil : Nat \cup {Never}]
NoCred == [status |-> "none", subject |-> None, expiresAt |-> 0,
           pendingUntil |-> Never]

Restated(row, status, until) ==
  [status |-> status, subject |-> row.subject, expiresAt |-> row.expiresAt,
   pendingUntil |-> until]

ActivationRow == [state : {"none", "unused", "used"}, expiresAt : Nat]
NoActivation == [state |-> "none", expiresAt |-> 0]

\* minted is a history of the credentials the redemption was exchanged for.
RedemptionRow == [state : {"none", "unused", "used"},
                  subject : Subjects \cup {None},
                  expiresAt : Nat,
                  minted : SUBSET Creds]
NoRedemption == [state |-> "none", subject |-> None, expiresAt |-> 0,
                 minted |-> {}]

Steps == {"credential", "subject", "nonce", "store", "owner", "issuable",
          "insert", "answered"}

\* owner is the subject an administrator names; key and token are secrets.
Request == [op : Ops \cup {"none"}, now : Nat, owner : Subjects \cup {None},
            key : Creds \cup {None}, token : Redemptions \cup {None},
            nonce : Nonces \cup {None}, need : SUBSET Caps]
Ask(op, owner, key, token, nonce, need) ==
  [op |-> op, now |-> clock, owner |-> owner, key |-> key, token |-> token,
   nonce |-> nonce, need |-> need]
NoRequest == [op |-> "none", now |-> 0, owner |-> None, key |-> None,
              token |-> None, nonce |-> None, need |-> {}]

TypeOK ==
  /\ clock \in Nat
  /\ subject \in [Subjects -> SubjectRow]
  /\ cred \in [Creds -> CredRow]
  /\ activation \in [Creds -> ActivationRow]
  /\ redemption \in [Redemptions -> RedemptionRow]
  /\ nonces \in [Nonces -> Nat]
  /\ pc \in [Requests -> Steps \cup {"idle"}]
  /\ req \in [Requests -> Request]
  /\ seen \in [Requests -> SubjectRow]
  /\ lastUse \in [Nonces -> Nat \cup {Never}]
  /\ deadKeys \subseteq Requests \X Creds
  /\ deadCaps \subseteq Requests \X Subjects \X Caps

Init ==
  /\ clock = 0
  /\ subject = [s \in Subjects |-> NoSubject]
  /\ cred = [c \in Creds |-> NoCred]
  /\ activation = [c \in Creds |-> NoActivation]
  /\ redemption = [r \in Redemptions |-> NoRedemption]
  /\ nonces = [n \in Nonces |-> 0]
  /\ pc = [h \in Requests |-> "idle"]
  /\ req = [h \in Requests |-> NoRequest]
  /\ seen = [h \in Requests |-> NoSubject]
  /\ lastUse = [n \in Nonces |-> Never]
  /\ deadKeys = Requests \X Creds
  /\ deadCaps = Requests \X Subjects \X Caps

-----------------------------------------------------------------------------
(* What the code decides *)

SubjectLive(s, now) == s.active /\ s.expiresAt > now

\* Fault: a key is accepted whatever its status.
CredentialUnexpired(c, now) == cred[c].status # "none" /\ cred[c].expiresAt > now

\* authenticateApiKey's test of the credential row.
CredentialUsable(c, now) == cred[c].status = "active" /\ cred[c].expiresAt > now

\* store.redeem, but for used_at: unexpired, of a live subject with every
\* capability asked for.  Alone it is the fault that forgets used_at.
RedeemableAgain(r, now, need) ==
  LET s == subject[redemption[r].subject]
  IN  /\ redemption[r].expiresAt > now
      /\ SubjectLive(s, now)
      /\ need \subseteq s.caps

Redeemable(r, now, need) ==
  redemption[r].state = "unused" /\ RedeemableAgain(r, now, need)

\* Fault: the activation token is tested, its credential is not.
TokenUsable(c, now) == activation[c].state = "unused" /\ activation[c].expiresAt > now

\* Fault: neither deadline is tested.
TokenPending(c, now) == activation[c].state = "unused" /\ cred[c].status = "pending"

\* store.activate: the token is unused and unexpired, its credential still pending.
Activatable(c, now) ==
  /\ TokenUsable(c, now)
  /\ cred[c].status = "pending"
  /\ cred[c].pendingUntil # Never => cred[c].pendingUntil > now

\* Fault: every nonce is forgotten, expired or not.
Forgotten(now) == [n \in Nonces |-> 0]

\* The rows consumeNonce's DELETE leaves.
Unexpired(now) == [n \in Nonces |-> IF nonces[n] <= now THEN 0 ELSE nonces[n]]

\* Fault: a credential lapses one instant after its activation token is deleted.
LapsedLater(now) == {c \in Creds : cred[c].status = "pending" /\ cred[c].pendingUntil < now}

\* The credentials cleanup revokes.
Lapsed(now) == {c \in Creds : cred[c].status = "pending" /\ cred[c].pendingUntil <= now}

-----------------------------------------------------------------------------
(* Administration *)

CreateSubject(s) ==
  /\ subject[s] = NoSubject
  /\ \E e \in Expiries, k \in (SUBSET Caps) \ {{}} :
       /\ e > clock
       /\ subject' = [subject EXCEPT ![s] =
                        [active |-> TRUE, expiresAt |-> e, caps |-> k]]
  /\ UNCHANGED <<clock, cred, activation, redemption, nonces, handlers, lastUse>>

UpdateSubject(s) ==
  /\ subject[s] # NoSubject
  /\ \E a \in BOOLEAN, e \in Expiries, k \in (SUBSET Caps) \ {{}} :
       /\ e > clock
       /\ subject' = [subject EXCEPT ![s] = [active |-> a, expiresAt |-> e, caps |-> k]]
  /\ UNCHANGED <<clock, cred, activation, redemption, nonces, handlers, lastUse>>

RevokeCredential(c) ==
  /\ cred[c].status \in {"pending", "active"}
  /\ cred' = [cred EXCEPT ![c] = Restated(cred[c], "revoked", cred[c].pendingUntil)]
  /\ UNCHANGED <<clock, subject, activation, redemption, nonces, handlers, lastUse>>

-----------------------------------------------------------------------------
(* Requests: arrival, the reads, the nonce *)

Arrive(h, first, request) ==
  /\ pc[h] = "idle"
  /\ request.op \in Offered
  /\ pc' = [pc EXCEPT ![h] = first]
  /\ req' = [req EXCEPT ![h] = request]
  /\ UNCHANGED <<clock, store, seen, lastUse>>

Minted == {c \in Creds : cred[c].status # "none"}

ArriveVerify(h) ==
  \E c \in Minted, n \in Nonces, k \in SUBSET Caps :
    Arrive(h, "credential", Ask("verify", None, c, None, n, k))

ArriveMetadata(h) ==
  \E c \in Minted :
    Arrive(h, "credential", Ask("metadata", None, c, None, None, {Metadata}))

ArriveRedeem(h) ==
  \E r \in Redemptions, n \in Nonces, k \in SUBSET Caps :
    /\ redemption[r].state # "none"
    /\ Arrive(h, "nonce", Ask("redeem", None, None, r, n, k))

\* Whoever redeemed holds the activation token, also after its row is deleted.
ArriveActivate(h) ==
  \E r \in Redemptions : \E c \in redemption[r].minted, n \in Nonces, k \in SUBSET Caps :
    Arrive(h, "nonce", Ask("activate", None, c, None, n, k))

ArriveIssue(h) ==
  \E s \in Subjects, op \in {"issueKey", "issueRedemption"} :
    Arrive(h, "issuable", Ask(op, s, None, None, None, {}))

\* The subject a handler deals with; no row's subject_id ever changes.
Owner(h) ==
  CASE req[h].op = "redeem" -> redemption[req[h].token].subject
    [] req[h].op \in {"issueKey", "issueRedemption"} -> req[h].owner
    [] OTHER -> cred[req[h].key].subject

\* A refusal is an exception: nothing after it runs.
Free(h) ==
  /\ pc' = [pc EXCEPT ![h] = "idle"]
  /\ req' = [req EXCEPT ![h] = NoRequest]
  /\ seen' = [seen EXCEPT ![h] = NoSubject]

GoTo(h, next) ==
  /\ pc' = [pc EXCEPT ![h] = next]
  /\ UNCHANGED <<req, seen>>

GoToSeeing(h, next, row) ==
  /\ pc' = [pc EXCEPT ![h] = next]
  /\ seen' = [seen EXCEPT ![h] = row]
  /\ UNCHANGED req

ReadCredential(h) ==
  /\ pc[h] = "credential"
  /\ IF CredentialUsable(req[h].key, req[h].now) THEN GoTo(h, "subject") ELSE Free(h)
  /\ UNCHANGED <<clock, store, lastUse>>

\* The subject is live and has the capabilities the request asks for.
Allows(s, h) == SubjectLive(s, req[h].now) /\ req[h].need \subseteq s.caps

ReadSubject(h) ==
  /\ pc[h] = "subject"
  /\ LET s == subject[Owner(h)]
     IN  IF Allows(s, h)
         THEN GoToSeeing(h, IF req[h].op = "verify" THEN "nonce" ELSE "answered", s)
         ELSE Free(h)
  /\ UNCHANGED <<clock, store, lastUse>>

\* The row with its expiry exists only if the nonce was absent: INSERT OR IGNORE.
ConsumeNonce(h) ==
  /\ pc[h] = "nonce"
  /\ LET n == req[h].nonce
         now == req[h].now
         accepted == Unexpired(now)[n] = 0
     IN  IF accepted
         THEN /\ nonces' = [Unexpired(now) EXCEPT ![n] = now + NonceTTL]
              /\ lastUse' = [lastUse EXCEPT ![n] = now]
              /\ GoTo(h, IF req[h].op = "verify" THEN "answered" ELSE "store")
         ELSE /\ nonces' = Unexpired(now)
              /\ Free(h)
              /\ UNCHANGED lastUse
  /\ UNCHANGED <<clock, subject, cred, activation, redemption>>

-----------------------------------------------------------------------------
(* Requests: the transactions *)

\* One transaction: the redemption is used, its pending credential and the
\* activation token exist.
StoreRedeem(h) ==
  /\ pc[h] = "store"
  /\ req[h].op = "redeem"
  /\ LET r == req[h].token
         s == redemption[r].subject
         until == req[h].now + PendingTTL
     IN  IF Redeemable(r, req[h].now, req[h].need)
         THEN \E c \in Creds :
                /\ cred[c].status = "none"
                /\ cred' = [cred EXCEPT ![c] =
                     [status |-> "pending", subject |-> s,
                      expiresAt |-> subject[s].expiresAt, pendingUntil |-> until]]
                /\ activation' = [activation EXCEPT ![c] =
                     [state |-> "unused", expiresAt |-> until]]
                /\ redemption' = [redemption EXCEPT ![r] =
                     [state |-> "used", subject |-> s,
                      expiresAt |-> redemption[r].expiresAt,
                      minted |-> redemption[r].minted \cup {c}]]
                /\ GoToSeeing(h, "answered", subject[s])
         ELSE /\ Free(h)
              /\ UNCHANGED <<cred, activation, redemption>>
  /\ UNCHANGED <<clock, subject, nonces, lastUse>>

\* One transaction: the token is used and the credential active.  The subject
\* is looked at only afterwards, by ReadOwner.
StoreActivate(h) ==
  /\ pc[h] = "store"
  /\ req[h].op = "activate"
  /\ LET c == req[h].key
     IN  IF Activatable(c, req[h].now)
         THEN /\ activation' = [activation EXCEPT ![c] =
                   [state |-> "used", expiresAt |-> activation[c].expiresAt]]
              /\ cred' = [cred EXCEPT ![c] = Restated(cred[c], "active", Never)]
              /\ GoTo(h, "owner")
         ELSE /\ Free(h)
              /\ UNCHANGED <<activation, cred>>
  /\ UNCHANGED <<clock, subject, redemption, nonces, lastUse>>

ReadOwner(h) ==
  /\ pc[h] = "owner"
  /\ LET s == subject[Owner(h)]
     IN  IF Allows(s, h) THEN GoToSeeing(h, "answered", s) ELSE Free(h)
  /\ UNCHANGED <<clock, store, lastUse>>

\* requireIssuableSubject: the row is kept and trusted by the insertion.
ReadIssuable(h) ==
  /\ pc[h] = "issuable"
  /\ LET s == subject[Owner(h)]
     IN  IF SubjectLive(s, req[h].now) THEN GoToSeeing(h, "insert", s) ELSE Free(h)
  /\ UNCHANGED <<clock, store, lastUse>>

InsertCredential(h) ==
  /\ pc[h] = "insert"
  /\ req[h].op = "issueKey"
  /\ \E c \in Creds :
       /\ cred[c].status = "none"
       /\ cred' = [cred EXCEPT ![c] =
            [status |-> "active", subject |-> req[h].owner,
             expiresAt |-> seen[h].expiresAt, pendingUntil |-> Never]]
  /\ Free(h)
  /\ UNCHANGED <<clock, subject, activation, redemption, nonces, lastUse>>

InsertRedemption(h) ==
  /\ pc[h] = "insert"
  /\ req[h].op = "issueRedemption"
  /\ \E r \in Redemptions, e \in Expiries :
       /\ redemption[r].state = "none"
       /\ e > req[h].now
       /\ e <= seen[h].expiresAt
       /\ redemption' = [redemption EXCEPT ![r] =
            [state |-> "unused", subject |-> req[h].owner, expiresAt |-> e, minted |-> {}]]
  /\ Free(h)
  /\ UNCHANGED <<clock, subject, cred, activation, nonces, lastUse>>

-----------------------------------------------------------------------------
(* Failures, restarts, time *)

\* A store call throws (the transaction is rolled back) or the body is late.
Fail(h) ==
  /\ pc[h] \notin {"idle", "answered"}
  /\ Free(h)
  /\ UNCHANGED <<clock, store, lastUse>>

\* The answer leaves; whether the client gets it is not known here.
Reply(h) ==
  /\ pc[h] = "answered"
  /\ Free(h)
  /\ UNCHANGED <<clock, store, lastUse>>

\* A process starts: the requests it had before it stopped are lost, those of
\* other replicas go on, and cleanup runs as one transaction.
Initialize(lost) ==
  /\ pc' = [h \in Requests |-> IF h \in lost THEN "idle" ELSE pc[h]]
  /\ req' = [h \in Requests |-> IF h \in lost THEN NoRequest ELSE req[h]]
  /\ seen' = [h \in Requests |-> IF h \in lost THEN NoSubject ELSE seen[h]]
  /\ cred' = [c \in Creds |-> IF c \in Lapsed(clock)
                              THEN Restated(cred[c], "revoked", cred[c].pendingUntil)
                              ELSE cred[c]]
  /\ activation' = [c \in Creds |-> IF activation[c].expiresAt <= clock
                                    THEN NoActivation ELSE activation[c]]
  /\ nonces' = Unexpired(clock)
  /\ UNCHANGED <<clock, subject, redemption, lastUse>>

Running(h) == pc[h] # "idle"

\* Latency bounds every handler: the clock waits for the slowest.
Tick ==
  /\ clock < MaxTime
  /\ \A h \in Requests : Running(h) => clock < req[h].now + Latency
  /\ clock' = clock + 1
  /\ UNCHANGED <<store, handlers, lastUse>>

Handle(h) ==
  \/ ArriveVerify(h) \/ ArriveMetadata(h) \/ ArriveRedeem(h)
  \/ ArriveActivate(h) \/ ArriveIssue(h)
  \/ ReadCredential(h) \/ ReadSubject(h) \/ ConsumeNonce(h)
  \/ StoreRedeem(h) \/ StoreActivate(h) \/ ReadOwner(h)
  \/ ReadIssuable(h) \/ InsertCredential(h) \/ InsertRedemption(h)
  \/ Fail(h) \/ Reply(h)

Action ==
  \/ \E s \in Subjects : CreateSubject(s) \/ UpdateSubject(s)
  \/ \E c \in Creds : RevokeCredential(c)
  \/ \E h \in Requests : Handle(h)
  \/ \E lost \in SUBSET Requests : Initialize(lost)
  \/ Tick

\* A key that is not active, a capability its subject does not have now.
KeyDead(c) == cred[c].status # "active"
CapDead(s, k) == ~subject[s].active \/ k \notin subject[s].caps

\* The history of a running request keeps what was dead all along; that of an
\* idle slot is what is dead now.
Observe ==
  /\ deadKeys' = {d \in Requests \X Creds :
       KeyDead(d[2])' /\ (Running(d[1]) /\ Running(d[1])' => d \in deadKeys)}
  /\ deadCaps' = {d \in Requests \X Subjects \X Caps :
       CapDead(d[2], d[3])' /\ (Running(d[1]) /\ Running(d[1])' => d \in deadCaps)}

Next == Action /\ Observe

Spec == Init /\ [][Next]_vars

-----------------------------------------------------------------------------
(* Properties *)

\* A redemption is exchanged for at most one credential, whatever requests race
\* for it, and is spent exactly when it was (store.redeem's used_at).
RedemptionMintsOnce ==
  \A r \in Redemptions :
    /\ \A c, d \in redemption[r].minted : c = d
    /\ redemption[r].minted # {} <=> redemption[r].state = "used"

\* A pending credential and its activation token agree: the token is there,
\* unused, and both have the same deadline.  So none is left pending that no
\* token can activate, across redeem, activate, revokeCredential and cleanup.
PendingHasToken ==
  \A c \in Creds : cred[c].status = "pending" =>
    /\ activation[c].state = "unused"
    /\ activation[c].expiresAt = cred[c].pendingUntil

\* What the two transactions of an exchange, redeem and activate, leave behind
\* in every order: one credential for a redemption, and its token with it.
ExchangeIsSafe == RedemptionMintsOnce /\ PendingHasToken

\* No answer rests on authority that was gone when the request arrived and
\* never came back: not on a revoked or never activated key, nor on an
\* inactive subject or a capability it does not have.  A redemption's answer
\* carries a key that is still to be activated, so only its subject counts.
AnswersReflectLiveState ==
  \A h \in Requests : pc[h] = "answered" =>
    /\ req[h].op # "redeem" => <<h, req[h].key>> \notin deadKeys
    /\ \A k \in seen[h].caps : <<h, Owner(h), k>> \notin deadCaps

\* Revocation is final: no activation, replayed request or cleanup brings a
\* revoked credential back (revokeCredential against activate and cleanup).
RevokedIsFinal ==
  [][\A c \in Creds : cred[c].status = "revoked" => cred'[c].status = "revoked"]_vars

\* A pending key becomes active only before its deadline by the time the
\* activation request read, so at most Latency after it by the real clock.
ActivatedInTime ==
  [][\A c \in Creds : cred[c].status = "pending" /\ cred'[c].status = "active" =>
       clock < cred[c].pendingUntil + Latency]_vars

\* A nonce that was accepted is not accepted again until NonceTTL later, by
\* the times the requests read; handlers that are slow with an old time can
\* shorten that by Latency at most (consumeNonce's purge uses the caller's now).
NonceReuseGap ==
  [][\A h \in Requests :
       pc[h] = "nonce" /\ pc'[h] \in {"store", "answered"}
         /\ lastUse[req[h].nonce] # Never =>
       req[h].now >= lastUse[req[h].nonce] + NonceTTL - Latency]_vars

=============================================================================
