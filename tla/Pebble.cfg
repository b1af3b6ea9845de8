CONSTANTS
  Procs = {"p1", "p2"}
  Menu <- MCMenu
  BlockKeys <- MCBlockKeys
  Shard <- MCShard
  Seeds <- MCSeeds
  DefaultBase = 1
  DefaultCap = 4
  MaxNow = 1
  MaxCalls = 1
  MaxRestarts = 1
SPECIFICATION Spec
PROPERTIES Refines EveryCallEnds
CHECK_DEADLOCK FALSE
