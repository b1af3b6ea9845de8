\* One replica and its operator: pins with and without an end, reloads, failing votes.
SPECIFICATION Spec
CONSTANTS
  r1 = r1  r2 = r2  None = None
  Replicas = {r1}  Hot = {r1}
  Configs <- Settings  AdminOps = {"pin", "unpin", "config"}  PinTTLs = {0, 1}
  StoreErrors = {"lost", "applied"}
  MinDwell = 2  Window = 2
  MaxLoad = 1  MaxAdmin = 3  MaxCrashes = 1
INVARIANTS PinSticks MutedIsSilent
PROPERTY FallsSlowly
