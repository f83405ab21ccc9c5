SPECIFICATION Spec
CONSTANTS
  Tot = {100}
  Alloc = {80, 90}
  Used = {40}
  MAX_TARGET_THRESH1 = 60
  MAX_TARGET_THRESH2 = 70
  TIGHT_THRESH1 = 70
  TIGHT_THRESH2 = 75
  MAX_META_TARGET = 50
  MAX_REBALANCES = 40
  MAX_FAILURES = 2
  None = None
  MaxFaults = 2
  MaxAborts = 1
  MaxCrashes = 1
INVARIANTS
  TypeOK
  AbortStopsRun
  WithinCutoff
PROPERTIES
  SkipsAreEarned
  RunEnds
