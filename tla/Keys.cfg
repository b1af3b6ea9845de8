\* One replica and its peers over shared files, a rotation that may have to be repeated, one fault.
SPECIFICATION Spec
CONSTANTS
  t1 = t1  t2 = t2  None = None
  Threads = {t1, t2}
  Interval = 1  TokenTTL = 4  MaxLifetime = 4  CacheValidity = 1  CacheCap = 1
  MaxStall = 1
  MaxKeys = 2  MaxTime = 3  MaxTokens = 1  MaxRotations = 2  MaxFaults = 1
SYMMETRY Interchangeable
CHECK_DEADLOCK FALSE
INVARIANTS RotationKeepsTokens RetiredKeyDies RefreshForgets
