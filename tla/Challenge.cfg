\* Two replicas one tick apart, a cache of one entry, a failing store.
SPECIFICATION Spec
CONSTANTS
  p1 = p1  p2 = p2  t1 = t1  t2 = t2  c1 = c1  c2 = c2  None = None
  Replicas = {p1, p2}  Threads = {t1, t2}  Challenges = {c1, c2}
  Policy <- Mixed
  Offset <- Ahead
  Drift = 1  MaxStall = 1  TTL = 2  Skew = 3  NoJSMinDelay = 1  Minute = 2
  SpentCap = 1  MaxConcurrent = 1
  StoreErrors = {"lost", "applied"}
  MaxTime = 4  LastIssue = 0
SYMMETRY Interchangeable
CHECK_DEADLOCK FALSE
INVARIANTS SingleSpend FailOpenOnce NoFalseRefusal
