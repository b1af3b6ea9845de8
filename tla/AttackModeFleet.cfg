\* Two replicas, both under load, votes that get lost.
SPECIFICATION FairSpec
CONSTANTS
  r1 = r1  r2 = r2  None = None
  Replicas = {r1, r2}  Hot = {r1, r2}
  Configs <- Always  AdminOps = {}  PinTTLs = {}
  StoreErrors = {"lost"}
  MinDwell = 2  Window = 2
  MaxLoad = 2  MaxAdmin = 0  MaxCrashes = 1
PROPERTY FleetCalms
