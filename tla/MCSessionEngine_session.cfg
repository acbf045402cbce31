CONSTANTS
  None = None
  a = a
  b = b
  Universe <- Symbols
  Accounts <- AllAccounts
  Settings <- AllSettings
  MaxEngines = 2
  MaxRuns = 2
SPECIFICATION Spec
INVARIANTS
  EntryFits
  TradesAreCapped
  FlatIsVerified
  NeverShort
CHECK_DEADLOCK FALSE
