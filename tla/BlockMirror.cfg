\* An authoritative mirror with room for one of two addresses: a1 is blocked, unblocked and
\* asked about, a2 may have a block of an earlier run and is not for the kernel.
SPECIFICATION Spec
CONSTANTS
  a1 = a1  a2 = a2  w1 = w1  w2 = w2
  Peer = Peer  None = None
  IPs = {a1, a2}  Active = {a1}  PeerIPs = {}
  Writers = {w1}  Overtaken = {}
  ReadThroughMode = FALSE
  Lifetimes = {1, 3}  LearnTTL = 1
  MaxPerShard = 1  MaxEntries = 1  MaxTombstones = 1
  SinkQueueCap = 1  NeverBlock = {a2}  MinTTL = 2
  MaxTime = 1  MaxWrites = 2  MaxFailures = 1
INVARIANTS CompleteMissesNothing ReconcileRepairs SinkFollows
