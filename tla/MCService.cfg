SPECIFICATION FairSpec
CONSTANTS
  search = search
  redeem = redeem
  panel = panel
  Requests <- MCRequests
  Snapshots <- MCSnapshots
  Shape <- MCShape
  Thresholds <- MCThresholds
  Cases <- MCCases
  FlushRows = 4
  Minute = 2
  Window = 1
  Retention = 1
  CleanEvery = 1
  MaxBeats = 1
  Maximum = 2
  MaxPerSecond = 2
  Start = 1
CHECK_DEADLOCK FALSE
INVARIANTS
  LimitsHold
  CountedOnce
  SnapshotHolds
  WrittenBeforeClosed
PROPERTIES CloseEnds
