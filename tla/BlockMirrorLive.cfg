\* Convergence, next to another replica; the writers overtake each other and blocks expire.
SPECIFICATION FairSpec
CONSTANTS
  a1 = a1  a2 = a2  w1 = w1  w2 = w2
  Peer = Peer  None = None
  IPs = {a1}  Active = {a1}  PeerIPs = {a1}
  Writers = {w1, w2}  Overtaken = {a1}
  ReadThroughMode = TRUE
  Lifetimes = {1}  LearnTTL = 2
  MaxPerShard = 1  MaxEntries = 2  MaxTombstones = 2
  SinkQueueCap = 1  NeverBlock = {}  MinTTL = 0
  MaxTime = 1  MaxWrites = 2  MaxFailures = 1
PROPERTIES OwnedNotifyIsCurrent Converges
