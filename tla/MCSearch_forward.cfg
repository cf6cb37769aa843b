CONSTANTS
  Chunks <- MCChunks
  Cids = {19}
  WrapModes <- MCWrapModes
  MaxLines = 2
  MaxBytes = 3
  SizeMax = 1000
  ViewWhileProducing = FALSE
  NULL = NULL
  Lines = Lines
  Patterns <- MCPatterns
INIT SearchInit
NEXT SearchNext
INVARIANTS
  ForwardNextNearest
