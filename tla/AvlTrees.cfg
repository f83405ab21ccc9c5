SPECIFICATION Spec
CONSTANTS
  Node <- MCNode
  Key <- MCNode
  NULL = NULL
  Tmp = Tmp
  StartKey <- MCStartKey
  Scopes <- MCScopes
  Deep = 12
  Shallow = 7
INVARIANTS
  TypeOK
  IsTheSet
  Linked
  Balanced
  FindsIt
  Neighbours
  AssertsHold
  DestroyFreesAll
