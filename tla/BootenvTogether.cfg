SPECIFICATION AptSpec
CONSTANTS
  BE <- MCTwoBEs
  Root = Root
  Installer = Installer
  NoBE = NoBE
  Image = {old, upgraded}
  Proc = {apt, admin}
  Binds = {proc}
  proc = proc
  MaxMounts = 3
  MaxFaults = 0
  MaxCrashes = 0
  Apt = apt
  Admin = {admin}
  bootenv = bootenv
  NoName = NoName
  Upgraded = upgraded
INVARIANTS
  RunningKept
  DestroySafe
  RunningMountsItself
  MenuMountsItself
  ChrootMounted
PROPERTIES
  RunningUntouched
