\* Room for one of two keys: eviction, the paced sweep and the sketch; a queue of one, resets,
\* a peer, store rounds that fail either way.
SPECIFICATION Spec
CONSTANTS
  k1 = k1  k2 = k2  g1 = g1  g2 = g2
  NoKey = NoKey
  Keys = {k1, k2}  ForgetKeys = {k1}  PeerKeys = {k1}
  Goroutines = {g1, g2}
  MaxCounterEntries = 1  MaxFlushQueue = 1  MaxFlushWorkers = 1
  StoreErrors = {"lost", "applied"}
  MaxTime = 3  MaxOps = 4
  TTL = 2  SweepGap = 1  Lag = 1
  Rows = {1, 2}  Cells = {1, 2}  Hash <- MCHash
CHECK_DEADLOCK FALSE
SYMMETRY GoroutineSymmetry
INVARIANTS SingleOwner Lossless NeverUndercounts ResetSticks
