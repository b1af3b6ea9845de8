\* A request against two callers; the remote and the local list serve anything.
SPECIFICATION FairSpec
CONSTANTS
  r1 = r1  r2 = r2  c1 = c1  c2 = c2  g1 = g1  u1 = u1  u2 = u2
  Empty = Empty  Garbage = Garbage  None = None
  Requests = {r1}  Callers = {c1, c2}
  Configs <- FeedConfigs
  Good = {g1}  CacheDir = TRUE
  MaxSnaps = 2  MaxReloads = 1  MaxFetches = 1  MaxEdits = 1  MaxBoots = 2
CHECK_DEADLOCK FALSE
INVARIANTS NoUseAfterClose ReloadIsWhole
PROPERTIES URLListSurvives AllReturn
