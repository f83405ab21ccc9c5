SPECIFICATION NssSpec
CONSTANTS
  UserDBs <- MCUserDBs
  GroupDBs <- MCGroupDBs
  BufLens = {5, 16}
  MaxBuf = 64
  PtrSize = 8
  MaxOpens = 3
INVARIANTS
  CursorInside
PROPERTIES
  UsersEnumerate
  GroupsEnumerate
  GroupLoopEnds
