CONSTANTS
  Chunks <- MCChunks
  Cids = {19}
  WrapModes <- MCWrapModes
  MaxLines = 3
  MaxBytes = 3
  SizeMax = 1000
  ViewWhileProducing = FALSE
  NULL = NULL
  Lines = Lines
  Patterns <- MCNearestPatterns
INIT SearchInit
NEXT SearchNext
INVARIANTS
  SearchTypeOK
  BackwardNextNearest
