SPECIFICATION Spec
CONSTANTS
  Calls = {c1, c2, c3}
  Concurrency = 2
  PolicyTimeout = 1
  Slack = 1
  FetchTimeout = 2
  FailureThreshold = 2
  FailureWindow = 2
  OpenFor = 1
  Latency = 1
  Ahead = 0
  MaxTime = 4
SYMMETRY Symmetry
CONSTRAINT Bound
INVARIANTS AtMostConcurrencyFetch OneProbeAtATime
PROPERTIES OpenIsEarned FullOnlyByLiveSlots
