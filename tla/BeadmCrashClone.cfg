SPECIFICATION Spec
CONSTANTS
  BE = {b1, b2}
  Root = Root
  Installer = Installer
  NoBE = NoBE
  Image = {i1, i2}
  Proc = {p1}
  Binds = {proc}
  proc = proc
  MaxMounts = 3
  MaxFaults = 0
  MaxCrashes = 1
SYMMETRY Symmetry
PROPERTIES
  CreateClones
