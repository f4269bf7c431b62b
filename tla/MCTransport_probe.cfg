SPECIFICATION Spec
CONSTANTS
  Keys = {k1, k2}
  Callers = {c1, c2}
  FailureThreshold = 1
  FailureWindow = 1
  OpenFor = 1
  Concurrency = 1
  Interval = 0
  MaxTime = 3
SYMMETRY Symmetry
INVARIANTS HalfOpenPermitsProbe
