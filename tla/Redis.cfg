CONSTANTS
  Calls <- MCCalls
  BlockKeys <- MCBlockKeys
  Seed <- MCSeed
  Poked = {"block2"}
  Insts = {i1, i2}
  VoteTTLs = {1, 3}
  Limits = {1}
  DefaultBase = 2
  DefaultCap = 8
  Nanos = 2
  PageSize = 1
  MaxRetries = 1
  CallBudget = 1
  MaxNow = 2
  MaxCalls = 2
  MaxScans = 1
  MaxPokes = 1
  MaxTimeouts = 1
SYMMETRY MCSymmetry
SPECIFICATION Spec
INVARIANTS CompleteScanIsExact IndexCoversBlocks OffensesCountOnce VotesAreSeen WindowsExpire ReadExpiryIsSafe
CHECK_DEADLOCK FALSE
