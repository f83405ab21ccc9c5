SPECIFICATION Spec
CONSTANTS
  Tot = {100}
  Alloc = {80}
  Used = {40}
  MAX_TARGET_THRESH1 = 60
  MAX_TARGET_THRESH2 = 70
  TIGHT_THRESH1 = 70
  TIGHT_THRESH2 = 75
  MAX_META_TARGET = 50
  MAX_REBALANCES = 40
  MAX_FAILURES = 20
  None = None
  MaxFaults = 0
  MaxAborts = 2
  MaxCrashes = 0
PROPERTIES
  SkipsOnlyAfterTrying
