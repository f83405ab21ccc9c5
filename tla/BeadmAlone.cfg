SPECIFICATION Spec
CONSTANTS
  BE = {b1, b2}
  Root = Root
  Installer = Installer
  NoBE = NoBE
  Image = {i1, i2}
  Proc = {p1}
  Binds = {dev, proc}
  proc = proc
  MaxMounts = 3
  MaxFaults = 1
  MaxCrashes = 2
SYMMETRY Symmetry
INVARIANTS
  TypeOK
  RunningKept
  MenuIsCurrent
  BootsItself
  ActivationBoots
  QuotaPerBE
  SuccessIsComplete
PROPERTIES
  CreateClonesUndisturbed
