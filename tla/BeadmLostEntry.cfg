SPECIFICATION Spec
CONSTANTS
  BE = {b1, b2}
  Root = Root
  Installer = Installer
  NoBE = NoBE
  Image = {i1}
  Proc = {p1, p2}
  Binds = {proc}
  proc = proc
  MaxMounts = 3
  MaxFaults = 0
  MaxCrashes = 0
SYMMETRY Symmetry
INVARIANTS
  MenuIsCurrent
