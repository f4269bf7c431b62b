SPECIFICATION FairCacheSpec
CONSTANTS
  Replicas = {p1, p2}
  Slots = {s1}
  Nobody = Nobody
  FreshFor = 1
  StaleFor = 1
  LeaseFor = 2
  PeerWait = 1
  Delay = 0
  LastArrival = 1
  LastTime = 3
PROPERTIES EveryTaskEnds
