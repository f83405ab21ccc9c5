SPECIFICATION Spec
CONSTANTS
  v1 = v1
  v2 = v2
  so = so
  h = h
  Version = {v1, v2}
  File = {so, h}
  Installs <- MCInstalls
  Mirrors = 1
  Layouts <- MCLayouts
  Budget <- MCBudget
  Bad = Bad
  None = None
  NoList = NoList
  NoDeb = NoDeb
  Torn = Torn
INVARIANTS
  SourceVerified
  PublishedIsCurrent
  BaseIsThere
PROPERTIES
  Recovers
