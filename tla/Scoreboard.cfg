\* Two scorers against two operators, holds that end at any time, failing store calls.
SPECIFICATION Spec
CONSTANTS
  s1 = s1  s2 = s2  u1 = u1  u2 = u2
  Scorers = {s1, s2}  Unblockers = {u1, u2}
  Limit = 2
  HoldCoversRequests = FALSE  LongWindows = FALSE
  StoreErrors = {"lost", "applied"}
  MaxEvents = 2  MaxUnblocks = 2  MaxGenerations = 4  MaxAdminBlocks = 1  MaxBucket = 1
SYMMETRY WriterSymmetry
CHECK_DEADLOCK FALSE
INVARIANTS TypeOK UnblockSticks NoStaleEvidence
