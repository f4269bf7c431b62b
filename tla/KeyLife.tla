------------------------------- MODULE KeyLife -------------------------------
(***************************************************************************)
(* What an issuing gateway promises about its API keys, with no clock, no  *)
(* nonce, no request and no process: an administrator makes keys and       *)
(* offers (redemptions); an offer is exchanged once, for one new key that  *)
(* is pending; a pending key is activated once; whatever is withdrawn      *)
(* stays withdrawn.  GatewayAuth is shown to implement this specification  *)
(* and CloudBinding is built on it.                                        *)
(***************************************************************************)
CONSTANTS
  Subjects,
  Creds,
  Redemptions,
  None

VARIABLES
  status,     \* of each key: none, pending, active or revoked
  holder,     \* the subject of each key
  offer,      \* of each redemption: none, unused or used
  offeredTo   \* the subject of each redemption

lifeVars == <<status, holder, offer, offeredTo>>

TypeOK ==
  /\ status \in [Creds -> {"none", "pending", "active", "revoked"}]
  /\ holder \in [Creds -> Subjects \cup {None}]
  /\ offer \in [Redemptions -> {"none", "unused", "used"}]
  /\ offeredTo \in [Redemptions -> Subjects \cup {None}]

Init ==
  /\ status = [c \in Creds |-> "none"]
  /\ holder = [c \in Creds |-> None]
  /\ offer = [r \in Redemptions |-> "none"]
  /\ offeredTo = [r \in Redemptions |-> None]

MakeKey(c, s) ==
  /\ status[c] = "none"
  /\ status' = [status EXCEPT ![c] = "active"]
  /\ holder' = [holder EXCEPT ![c] = s]
  /\ UNCHANGED <<offer, offeredTo>>

MakeOffer(r, s) ==
  /\ offer[r] = "none"
  /\ offer' = [offer EXCEPT ![r] = "unused"]
  /\ offeredTo' = [offeredTo EXCEPT ![r] = s]
  /\ UNCHANGED <<status, holder>>

Redeem(r, c) ==
  /\ offer[r] = "unused"
  /\ status[c] = "none"
  /\ offer' = [offer EXCEPT ![r] = "used"]
  /\ status' = [status EXCEPT ![c] = "pending"]
  /\ holder' = [holder EXCEPT ![c] = offeredTo[r]]
  /\ UNCHANGED offeredTo

Activate(c) ==
  /\ status[c] = "pending"
  /\ status' = [status EXCEPT ![c] = "active"]
  /\ UNCHANGED <<holder, offer, offeredTo>>

\* A revocation withdraws one key, a cleanup every pending key that is late.
Withdraw(gone) ==
  /\ \A c \in gone : status[c] \in {"pending", "active"}
  /\ status' = [c \in Creds |-> IF c \in gone THEN "revoked" ELSE status[c]]
  /\ UNCHANGED <<holder, offer, offeredTo>>

Next ==
  \/ \E c \in Creds, s \in Subjects : MakeKey(c, s)
  \/ \E r \in Redemptions, s \in Subjects : MakeOffer(r, s)
  \/ \E r \in Redemptions, c \in Creds : Redeem(r, c)
  \/ \E c \in Creds : Activate(c)
  \/ \E gone \in SUBSET Creds : Withdraw(gone)

Spec == Init /\ [][Next]_lifeVars

=============================================================================
