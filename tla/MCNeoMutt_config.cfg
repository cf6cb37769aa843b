CONSTANTS
  a1 = a1
  a2 = a2
  m1 = m1
  m2 = m2
  m3 = m3
  Accounts = {a1, a2}
  AccountType <- MCAccountType
  Boxes <- MCBoxes
  Types = {0, 1, 3}
  Umasks <- MCUmasks
  ModuleTable <- MCModuleTable
  MaxNotify = 7
  NULL = NULL
  n1 = n1
  n2 = n2
  Items = {n1, n2}
  Default <- MCDefault
  NotNegative <- MCNotNegative
  HasValidator <- MCHasValidator
  Accepted <- MCAccepted
  StrInputs <- MCStrInputs
  IntInputs <- MCIntInputs
INIT SystemInit
NEXT SystemNext
CONSTRAINT MailboxListBound
INVARIANT
  ConfigEventsReachNeoMutt
