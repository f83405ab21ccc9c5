SPECIFICATION AptSpec
CONSTANTS
  BE <- MCBE
  Root = Root
  Installer = Installer
  NoBE = NoBE
  Image = {old, upgraded}
  Proc = {apt}
  Binds = {proc}
  proc = proc
  MaxMounts = 3
  MaxFaults = 1
  MaxCrashes = 2
  Apt = apt
  Admin = {}
  bootenv = bootenv
  NoName = NoName
  Upgraded = upgraded
INVARIANTS
  UpgradeTakesEffect
PROPERTIES
  BootMovesToUpgraded
  RunningUntouched
