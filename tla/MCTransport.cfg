SPECIFICATION FairSpec
CONSTANTS
  Keys = {k1, k2}
  Callers = {c1, c2}
  FailureThreshold = 1
  FailureWindow = 1
  OpenFor = 1
  Concurrency = 1
  Interval = 1
  MaxTime = 2
INVARIANTS SlotsAccounted AbortFreesUpstream ProbeWillReport
PROPERTIES OnlyLastLeaverAborts PacedApart EveryCallerIsAnswered
