--------------------------- MODULE MCGatewayAuth ---------------------------
(* GatewayAuth on a small instance. *)
EXTENDS GatewayKeys, FiniteSets, TLC

\* Ids and handlers are interchangeable; the capabilities are not.
Symmetry == Permutations(Creds) \cup Permutations(Requests) \cup Permutations(Nonces)

Issues == {"issueRedemption", "issueKey"}

\* Every request but an administrator's asks for some capability.
Asked(ops) ==
  \A h \in Requests :
    /\ req[h].op \in ops \cup {"none"}
    /\ req[h].need = {} => req[h].op \in Issues \cup {"none"}

\* Bound: redemptions are exchanged and activated for one capability ...
ExchangesOnly ==
  /\ Asked({"issueRedemption", "redeem", "activate"})
  /\ \A s \in Subjects : subject[s].caps \subseteq {Metadata}
  /\ \A h \in Requests : req[h].need \subseteq {Metadata}
  /\ Minted = UNION {redemption[r].minted : r \in Redemptions}

Touched == {n \in Nonces : lastUse[n] # Never \/ \E h \in Requests : req[h].nonce = n}

\* ... or one key issued directly is used with one nonce for any of them.
UsesOnly ==
  /\ Asked({"issueKey", "verify", "metadata"})
  /\ \A r \in Redemptions : redemption[r] = NoRedemption
  /\ Cardinality(Minted) <= 1
  /\ Cardinality(Touched) <= 1
  /\ clock <= 2

Bound == ExchangesOnly \/ UsesOnly
=============================================================================
