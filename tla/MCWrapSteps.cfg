CONSTANTS
  Texts <- MCTexts
  Widths <- MCWidths
  SizeMax = 1000
  MaxSegs = 4
SPECIFICATION WrapStepsSpec
PROPERTY
  WrapTerminates
CHECK_DEADLOCK FALSE
