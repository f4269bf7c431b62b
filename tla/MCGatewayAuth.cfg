SPECIFICATION Spec
CONSTANTS
  Subjects = {s1}
  Creds = {c1, c2}
  Redemptions = {r1}
  Nonces = {n1, n2}
  Caps = {metadata, together}
  Metadata = metadata
  Requests = {h1, h2}
  Offered = {"issueRedemption", "redeem", "activate", "issueKey", "verify", "metadata"}
  Expiries = {2}
  PendingTTL = 1
  NonceTTL = 2
  Latency = 1
  MaxTime = 3
  None = None
SYMMETRY Symmetry
CONSTRAINT Bound
INVARIANTS ExchangeIsSafe AnswersReflectLiveState
PROPERTIES RevokedIsFinal ActivatedInTime ImplementsKeyLife NonceReuseGap
