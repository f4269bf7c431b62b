SPECIFICATION CacheSpec
CONSTANTS
  Replicas = {p1, p2}
  Slots = {s1}
  Nobody = Nobody
  FreshFor = 1
  StaleFor = 1
  LeaseFor = 1
  PeerWait = 1
  Delay = 1
  LastArrival = 4
  LastTime = 4
SYMMETRY Symmetry
INVARIANTS ServedInTime OneRefresher
