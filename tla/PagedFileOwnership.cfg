CONSTANTS
  CallerStreams = {stdout}
  TmpFile = TmpFile
  NULL = NULL
SPECIFICATION Spec
\* The caller's session ends once it has cleaned up.
CHECK_DEADLOCK FALSE
INVARIANTS
  StreamClosedOnce
