CONSTANTS
  Chunks <- MCChunks
  Cids = {19}
  WrapModes <- MCWrapModes
  MaxLines = 2
  MaxBytes = 6
  SizeMax = 1000
  ViewWhileProducing = FALSE
  NULL = NULL
SPECIFICATION Spec
INVARIANTS
  TypeOK
  CacheRoundTrip
  WrapCoversLine
  VirtualRowIndexAgrees
