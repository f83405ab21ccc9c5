SPECIFICATION AptSpec
CONSTANTS
  BE <- MCBE
  Root = Root
  Installer = Installer
  NoBE = NoBE
  Image = {old, upgraded}
  Proc = {apt}
  Binds = {proc}
  proc = proc
  MaxMounts = 3
  MaxFaults = 0
  MaxCrashes = 0
  Apt = apt
  Admin = {}
  bootenv = bootenv
  NoName = NoName
  Upgraded = upgraded
INVARIANTS
  NameIsFree
