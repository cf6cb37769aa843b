CONSTANTS
  Chunks <- MCChunks
  Cids = {19}
  WrapModes <- MCWrapModes
  MaxLines = 1
  MaxBytes = 2
  SizeMax = 1000
  ViewWhileProducing = FALSE
  NULL = NULL
  Lines = Lines
  Patterns <- MCPatterns
INIT SearchInit
NEXT SearchNext
INVARIANTS
  CompiledIffPattern
