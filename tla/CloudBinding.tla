---------------------------- MODULE CloudBinding ----------------------------
(***************************************************************************)
(* YUKINE Cloud's authorization service (CloudAuthorizationService over    *)
(* PostgresCloudAuthorizationStore): a user binds a subject of the gateway *)
(* by an API key, or by a redemption that is exchanged, reserved as the    *)
(* user's candidate, activated and promoted.  The gateway is a KeyLife.    *)
(*                                                                         *)
(* A request of the service is a sequence of steps cut at its awaits: each *)
(* store operation is one transaction, each call to the gateway is sent,   *)
(* served and answered, and any number of requests interleave, those of    *)
(* one user too: nothing in the service excludes it.  A call may take      *)
(* effect after its caller has given up.                                   *)
(*                                                                         *)
(* A Subject here is an issuer and one of its subjects, the pair that is   *)
(* bound once.  Of a verified answer only whose it is matters: the         *)
(* capabilities and the expiry a row keeps are named by the subject they   *)
(* were answered for.  The version that seals a row's ciphertext is        *)
(* written with it and is left out.                                        *)
(***************************************************************************)
CONSTANTS
  Users,         \* user ids
  Subjects,      \* (issuerId, subject) pairs
  Creds,         \* API keys
  Redemptions,   \* one-time URLs
  Requests,      \* requests the service may run at once
  None           \* stands for null

ASSUME NoneIsNew == None \notin Users \cup Subjects \cup Creds \cup Redemptions \cup Requests

VARIABLES
  status, holder, offer, offeredTo,   \* the gateway's
  bindings,      \* table authorization_bindings
  candidates,    \* table authorization_binding_candidates
  pc,            \* where each request stands
  req,           \* its user and what it works with
  calls,         \* requests the gateway has not served or dropped
  returned,      \* history: the (user, key) pairs redeemAndBind handed to a device
  disturbed,     \* history: requests another of their user's wrote a row under
  stranded       \* history: users whose candidate lost its request

gateway == <<status, holder, offer, offeredTo>>
tables == <<bindings, candidates>>
vars == <<gateway, tables, pc, req, calls, returned, disturbed, stranded>>

Gateway == INSTANCE KeyLife

-----------------------------------------------------------------------------
(* Rows, requests, calls *)

\* capsOf: the subject the row's capabilities and expiry were answered for.
Row == [key : Creds, subject : Subjects, capsOf : Subjects]
NoRow == [key |-> None, subject |-> None, capsOf |-> None]

Steps == {"verify", "replace",                                 \* bindApiKey
          "redeem", "reserve", "activate", "promote", "undo",  \* redeemAndBind
          "current", "check", "update",                        \* revalidate
          "delete"}                                            \* deleteBinding

Request == [user : Users \cup {None}, key : Creds \cup {None},
            offer : Redemptions \cup {None}, subject : Subjects \cup {None}]
NoRequest == [user |-> None, key |-> None, offer |-> None, subject |-> None]

\* A call whose request has given up has from = None.
Call == [from : Requests \cup {None}, op : {"redeem", "activate"},
         key : Creds \cup {None}, offer : Redemptions \cup {None}]

TypeOK ==
  /\ Gateway!TypeOK
  /\ bindings \in [Users -> Row \cup {NoRow}]
  /\ candidates \in [Users -> Row \cup {NoRow}]
  /\ pc \in [Requests -> Steps \cup {"idle"}]
  /\ req \in [Requests -> Request]
  /\ calls \subseteq Call
  /\ returned \subseteq Users \X Creds
  /\ disturbed \subseteq Requests
  /\ stranded \subseteq Users

Init ==
  /\ Gateway!Init
  /\ bindings = [u \in Users |-> NoRow]
  /\ candidates = [u \in Users |-> NoRow]
  /\ pc = [h \in Requests |-> "idle"]
  /\ req = [h \in Requests |-> NoRequest]
  /\ calls = {}
  /\ returned = {}
  /\ disturbed = {}
  /\ stranded = {}

-----------------------------------------------------------------------------
(* The gateway's own life *)

Administer ==
  /\ \/ \E c \in Creds, s \in Subjects : Gateway!MakeKey(c, s)
     \/ \E r \in Redemptions, s \in Subjects : Gateway!MakeOffer(r, s)
     \/ \E c \in Creds : Gateway!Withdraw({c})
  /\ UNCHANGED <<tables, pc, req, calls, returned, disturbed, stranded>>

-----------------------------------------------------------------------------
(* Steps of a request *)

User(h) == req[h].user

GoTo(h, next) ==
  /\ pc' = [pc EXCEPT ![h] = next]
  /\ UNCHANGED req

GoToWith(h, next, key, s) ==
  /\ pc' = [pc EXCEPT ![h] = next]
  /\ req' = [req EXCEPT ![h] = [user |-> User(h), key |-> key,
                                offer |-> req[h].offer, subject |-> s]]

Free(h) ==
  /\ pc' = [pc EXCEPT ![h] = "idle"]
  /\ req' = [req EXCEPT ![h] = NoRequest]

\* The user's other requests that have reserved a candidate.
Others(h) == {g \in Requests \ {h} :
                pc[g] \in {"activate", "promote"} /\ User(g) = User(h)}

\* The request writes its user's candidate, perhaps under another request.
Disturb(h, ends) ==
  disturbed' = (disturbed \cup Others(h)) \ (IF ends THEN {h} ELSE {})

Undisturb(h) == disturbed' = disturbed \ {h}

Arrive(h, step, u, key, r) ==
  /\ pc[h] = "idle"
  /\ pc' = [pc EXCEPT ![h] = step]
  /\ req' = [req EXCEPT ![h] = [user |-> u, key |-> key, offer |-> r, subject |-> None]]
  /\ UNCHANGED <<gateway, tables, returned, disturbed, stranded>>

ArriveBindApiKey(h) ==
  /\ \E u \in Users, c \in Creds : status[c] # "none" /\ Arrive(h, "verify", u, c, None)
  /\ UNCHANGED calls

ArriveRedeemAndBind(h) ==
  \E u \in Users, r \in Redemptions :
    /\ offer[r] # "none"
    /\ Arrive(h, "redeem", u, None, r)
    /\ calls' = calls \cup {[from |-> h, op |-> "redeem", key |-> None, offer |-> r]}

ArriveOther(h) ==
  /\ \E u \in Users, step \in {"current", "delete"} : Arrive(h, step, u, None, None)
  /\ UNCHANGED calls

\* The key's subject in a verified answer, with which the request goes on;
\* a key that is not active is refused, and a subject may have lost its powers.
Verify(h, step, next) ==
  /\ pc[h] = step
  /\ \/ /\ status[req[h].key] = "active"
        /\ GoToWith(h, next, req[h].key, holder[req[h].key])
        /\ UNCHANGED disturbed
     \/ Free(h) /\ Undisturb(h)
  /\ UNCHANGED <<gateway, tables, calls, returned, stranded>>

\* Fault: a candidate of another user does not count.
NotBound(u, s) == \A v \in Users \ {u} : bindings[v].subject # s

\* assertSubjectAvailable
Available(u, s) == \A v \in Users \ {u} : bindings[v].subject # s /\ candidates[v].subject # s

RowOf(h) == [key |-> req[h].key, subject |-> req[h].subject, capsOf |-> req[h].subject]

\* One transaction: the binding is replaced, the user's candidate deleted.
ReplaceActive(h) ==
  /\ pc[h] = "replace"
  /\ IF Available(User(h), req[h].subject)
     THEN /\ bindings' = [bindings EXCEPT ![User(h)] = RowOf(h)]
          /\ candidates' = [candidates EXCEPT ![User(h)] = NoRow]
          /\ stranded' = stranded \ {User(h)}
          /\ Disturb(h, TRUE)
     ELSE Undisturb(h) /\ UNCHANGED <<tables, stranded>>
  /\ Free(h)
  /\ UNCHANGED <<gateway, calls, returned>>

\* One transaction: the row becomes the user's candidate, in place of the last.
ReserveCandidate(h) ==
  /\ pc[h] = "reserve"
  /\ IF Available(User(h), req[h].subject)
     THEN /\ candidates' = [candidates EXCEPT ![User(h)] = RowOf(h)]
          /\ stranded' = stranded \ {User(h)}
          /\ Disturb(h, FALSE)
          /\ calls' = calls \cup
               {[from |-> h, op |-> "activate", key |-> req[h].key, offer |-> None]}
          /\ GoTo(h, "activate")
     ELSE /\ Free(h)
          /\ Undisturb(h)
          /\ UNCHANGED <<candidates, stranded, calls>>
  /\ UNCHANGED <<gateway, bindings, returned>>

\* Fault: the candidate that is promoted stays in its table.
Kept(u) == candidates

\* The candidates that promoteCandidate, deleteCandidate and deleteBinding leave.
Without(u) == [candidates EXCEPT ![u] = NoRow]

\* One transaction: whatever candidate the user has becomes the binding, and
\* the device gets the key of this request.
PromoteCandidate(h) ==
  /\ pc[h] = "promote"
  /\ LET u == User(h)
         row == candidates[u]
     IN  IF row # NoRow /\ Available(u, row.subject)
         THEN /\ bindings' = [bindings EXCEPT ![u] = row]
              /\ candidates' = Without(u)
              /\ returned' = returned \cup {<<u, req[h].key>>}
              /\ stranded' = stranded \ {u}
              /\ Disturb(h, TRUE)
              /\ Free(h)
         ELSE /\ GoTo(h, "undo")
              /\ UNCHANGED <<tables, returned, disturbed, stranded>>
  /\ UNCHANGED <<gateway, calls>>

\* The catch of redeemAndBind: the user's candidate goes, whoever reserved it.
DeleteCandidate(h) ==
  /\ pc[h] = "undo"
  /\ candidates' = Without(User(h))
  /\ stranded' = stranded \ {User(h)}
  /\ Disturb(h, TRUE)
  /\ Free(h)
  /\ UNCHANGED <<gateway, bindings, calls, returned>>

\* currentCredential: the binding is read once and used to the end.
CurrentCredential(h) ==
  /\ pc[h] = "current"
  /\ LET row == bindings[User(h)]
     IN  IF row = NoRow
         THEN Free(h) /\ Undisturb(h)
         ELSE GoToWith(h, "check", row.key, row.subject) /\ UNCHANGED disturbed
  /\ UNCHANGED <<gateway, tables, calls, returned, stranded>>

\* The answer must be for the subject that was read (ensureSameSubject).
Check(h) ==
  /\ pc[h] = "check"
  /\ \/ /\ status[req[h].key] = "active"
        /\ holder[req[h].key] = req[h].subject
        /\ GoTo(h, "update")
        /\ UNCHANGED disturbed
     \/ Free(h) /\ Undisturb(h)
  /\ UNCHANGED <<gateway, tables, calls, returned, stranded>>

\* Fault: the update matches the user alone.
UpdatesUser(row, s) == row # NoRow

\* updateActive's WHERE: the row is still one of that subject.
Updates(row, s) == row.subject = s

UpdateActive(h) ==
  /\ pc[h] = "update"
  /\ LET u == User(h)
         s == req[h].subject
     IN  IF Updates(bindings[u], s)
         THEN bindings' = [bindings EXCEPT ![u] =
                [key |-> bindings[u].key, subject |-> bindings[u].subject, capsOf |-> s]]
         ELSE UNCHANGED bindings
  /\ Free(h)
  /\ Undisturb(h)
  /\ UNCHANGED <<gateway, candidates, calls, returned, stranded>>

DeleteBinding(h) ==
  /\ pc[h] = "delete"
  /\ bindings' = [bindings EXCEPT ![User(h)] = NoRow]
  /\ candidates' = Without(User(h))
  /\ stranded' = stranded \ {User(h)}
  /\ Disturb(h, TRUE)
  /\ Free(h)
  /\ UNCHANGED <<gateway, calls, returned>>

-----------------------------------------------------------------------------
(* Calls to the gateway *)

\* The gateway exchanges the offer; its answer reaches the caller if there
\* still is one.
ServeRedeem(m) ==
  /\ m.op = "redeem"
  /\ \E c \in Creds :
       /\ Gateway!Redeem(m.offer, c)
       /\ IF m.from # None
          THEN GoToWith(m.from, "reserve", c, offeredTo[m.offer])
          ELSE UNCHANGED <<pc, req>>
  /\ calls' = calls \ {m}
  /\ UNCHANGED <<tables, returned, disturbed, stranded>>

ServeActivate(m) ==
  /\ m.op = "activate"
  /\ Gateway!Activate(m.key)
  /\ IF m.from # None THEN GoTo(m.from, "promote") ELSE UNCHANGED <<pc, req>>
  /\ calls' = calls \ {m}
  /\ UNCHANGED <<tables, returned, disturbed, stranded>>

\* Fault: the status of the activation's answer is not looked at.
Unchecked == "promote"

\* Where an activation that is refused or late leads: the catch.
Caught == "undo"

\* The call is refused, or lost before it takes effect.
Refuse(m) ==
  /\ calls' = calls \ {m}
  /\ IF m.from = None
     THEN UNCHANGED <<pc, req, disturbed>>
     ELSE IF m.op = "redeem"
          THEN Free(m.from) /\ Undisturb(m.from)
          ELSE GoTo(m.from, Caught) /\ UNCHANGED disturbed
  /\ UNCHANGED <<gateway, tables, returned, stranded>>

\* The caller times out: the call is on its own.
TimeOut(m) ==
  /\ m.from # None
  /\ calls' = (calls \ {m}) \cup
       {[from |-> None, op |-> m.op, key |-> m.key, offer |-> m.offer]}
  /\ IF m.op = "redeem"
     THEN Free(m.from) /\ Undisturb(m.from)
     ELSE GoTo(m.from, Caught) /\ UNCHANGED disturbed
  /\ UNCHANGED <<gateway, tables, returned, stranded>>

\* An answer is not what it should be (a late or refused one that the gateway
\* acted on), a store operation throws, or its transaction is rolled back.
\* Within redeemAndBind's try that leads to the catch; elsewhere it ends the
\* request, the catch's own deleteCandidate included.
Fail(h) ==
  /\ pc[h] \notin {"idle", "redeem", "activate"}
  /\ IF pc[h] = "promote"
     THEN GoTo(h, "undo") /\ UNCHANGED <<disturbed, stranded>>
     ELSE /\ Free(h)
          /\ Undisturb(h)
          /\ stranded' = IF pc[h] = "undo" /\ candidates[User(h)] # NoRow
                         THEN stranded \cup {User(h)} ELSE stranded
  /\ UNCHANGED <<gateway, tables, calls, returned>>

\* A transaction commits and the connection is lost: the request sees an error.
CommitLost(h) ==
  /\ LET u == User(h)
         row == candidates[u]
     IN  \/ /\ pc[h] = "reserve"
            /\ Available(u, req[h].subject)
            /\ candidates' = [candidates EXCEPT ![u] = RowOf(h)]
            /\ stranded' = stranded \cup {u}
            /\ Disturb(h, TRUE)
            /\ Free(h)
            /\ UNCHANGED bindings
         \/ /\ pc[h] = "promote"
            /\ row # NoRow
            /\ Available(u, row.subject)
            /\ bindings' = [bindings EXCEPT ![u] = row]
            /\ candidates' = Without(u)
            /\ stranded' = stranded \ {u}
            /\ Disturb(h, FALSE)
            /\ GoTo(h, "undo")
  /\ UNCHANGED <<gateway, calls, returned>>

\* The process stops: its requests are gone, their calls are not.
Crash ==
  /\ \E h \in Requests : pc[h] # "idle"
  /\ pc' = [h \in Requests |-> "idle"]
  /\ req' = [h \in Requests |-> NoRequest]
  /\ calls' = {[from |-> None, op |-> m.op, key |-> m.key, offer |-> m.offer] : m \in calls}
  /\ disturbed' = {}
  /\ stranded' = {u \in Users : candidates[u] # NoRow}
  /\ UNCHANGED <<gateway, tables, returned>>

Handle(h) ==
  \/ ArriveBindApiKey(h) \/ ArriveRedeemAndBind(h) \/ ArriveOther(h)
  \/ Verify(h, "verify", "replace") \/ ReplaceActive(h)
  \/ ReserveCandidate(h) \/ PromoteCandidate(h) \/ DeleteCandidate(h)
  \/ CurrentCredential(h) \/ Check(h) \/ UpdateActive(h)
  \/ DeleteBinding(h)
  \/ Fail(h) \/ CommitLost(h)

Serve(m) == ServeRedeem(m) \/ ServeActivate(m) \/ Refuse(m) \/ TimeOut(m)

Next ==
  \/ Administer
  \/ \E h \in Requests : Handle(h)
  \/ \E m \in calls : Serve(m)
  \/ Crash

Spec == Init /\ [][Next]_vars

-----------------------------------------------------------------------------
(* Properties *)

\* A subject is bound, or reserved, by one user at a time, whatever requests
\* of however many users interleave (assertSubjectAvailable in replaceActive,
\* reserveCandidate and promoteCandidate).
SubjectBoundOnce ==
  \A u \in Users : \A v \in Users \ {u} :
    {bindings[u].subject, candidates[u].subject}
      \cap {bindings[v].subject, candidates[v].subject} \subseteq {None}

\* A row tells the truth about its key: the subject it names is the key's, and
\* the capabilities and expiry it keeps were answered for that subject, though
\* a revalidation writes them long after it read the row it checked.
RowsAreOfTheirKeys ==
  \A u \in Users : \A row \in {bindings[u], candidates[u]} : row # NoRow =>
    /\ row.subject = holder[row.key]
    /\ row.capsOf = row.subject

\* A candidate, which bars its subject to every other user, belongs to a request
\* that will promote or delete it, unless a crash, a lost commit or a failed
\* deleteCandidate stranded it (nothing else ever deletes it).
CandidateHasRequest ==
  \A u \in Users : candidates[u] # NoRow /\ u \notin stranded =>
    \E h \in Requests : User(h) = u /\ pc[h] \in {"activate", "promote", "undo"}

Returns(h) == pc[h] = "promote" /\ <<User(h), req[h].key>> \in returned' \ returned

\* A key that redeemAndBind returns is activated and is the user's binding, if
\* no other request of that user wrote a candidate since this one reserved its own.
UndisturbedKeyIsBound ==
  [][\A h \in Requests : Returns(h) /\ h \notin disturbed =>
       /\ bindings'[User(h)].key = req[h].key
       /\ status[req[h].key] # "pending"]_vars

\* A key that redeemAndBind returns is the user's binding: it is returned only
\* when both the activation and the binding succeeded.
ReturnedKeyIsBound ==
  [][\A h \in Requests : Returns(h) => bindings'[User(h)].key = req[h].key]_vars
=============================================================================
