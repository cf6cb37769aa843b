CONSTANTS
  Chunks = {}
  Cids = {1, 2, 3, 4, 5}
  WrapModes = {}
  MaxLines = 40
  MaxBytes = 200
  SizeMax = 1000
  ViewWhileProducing = FALSE
  NULL = NULL
  m1 = m1
  m2 = m2
  Menus <- MCMenus
  MenuName <- MCMenuName
  Binds <- MCBinds
  Macros <- MCMacros
  Width0 <- MCWidth0
  Width1 <- MCWidth1
  CompOpts <- MCCompOpts
  DebugOpts <- MCDebugOpts
  Build <- MCBuild
  Jobs <- MCAllJobs
  ColorCids <- MCColorCids
  ColorClass <- MCColorClass
  ColorFields <- MCColorFields
  HasPattern <- MCHasPattern
  MT_COLOR_FUNCTION = 1
  MT_COLOR_ENUM = 2
  MT_COLOR_OPERATOR = 3
  MT_COLOR_COMMENT = 4
  MT_COLOR_STRING = 5
  MT_COLOR_STRIPE_ODD = 6
  MT_COLOR_STRIPE_EVEN = 7
INIT ProducersInit
NEXT ProducersNext
CHECK_DEADLOCK FALSE
INVARIANTS
  ProducersTypeOK
  ColumnsAligned
  OptionsWithinWidth
  EverySetColourListedOnce
  ShownAsWritten
