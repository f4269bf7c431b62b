----------------------------- MODULE GatewayKeys -----------------------------
(***************************************************************************)
(* The gateway of GatewayAuth, seen only as keys and redemptions, is a     *)
(* KeyLife: its tables are mapped to the abstract state.                   *)
(***************************************************************************)
EXTENDS GatewayAuth

StatusOf == [c \in Creds |-> cred[c].status]
HolderOf == [c \in Creds |-> cred[c].subject]
OfferOf == [r \in Redemptions |-> redemption[r].state]
OfferedTo == [r \in Redemptions |-> redemption[r].subject]

Life == INSTANCE KeyLife
          WITH status <- StatusOf, holder <- HolderOf,
               offer <- OfferOf, offeredTo <- OfferedTo

\* Whatever handlers interleave, restart or are lost, the tables change as
\* keys and redemptions may: exchanged once, activated once, withdrawn for good
\* (issueApiKey, redeem, activate, revokeCredential and cleanup together).
ImplementsKeyLife == Life!Spec
=============================================================================
