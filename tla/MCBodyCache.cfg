CONSTANTS
  i1 = i1
  i2 = i2
  Ids = {i1, i2}
  PutTmp = {TRUE}
  DirStates = {"absent", "dir", "file"}
  MaxCrashes = 2
INIT BCacheInit
NEXT BCacheNext
INVARIANTS
  BCacheTypeOK
  GetNeverPartial
PROPERTIES
  BCacheRefinesStore
