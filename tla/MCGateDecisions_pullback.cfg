CONSTANTS
  None = None
  Contexts <- AllContexts
SPECIFICATION GateSpec
INVARIANTS
  PullbackOnTrendDays
CHECK_DEADLOCK FALSE
