CONSTANTS
  None = None
  a = a
  b = b
  Universe <- Symbols
  Accounts <- AllAccounts
  Settings <- AllSettings
  MaxEngines = 2
  MaxRuns = 2
SPECIFICATION Spec
PROPERTIES
  StopsAreSent
CHECK_DEADLOCK FALSE
