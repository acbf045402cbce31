CONSTANTS
  None = None
  Contexts <- AllContexts
SPECIFICATION GateSpec
INVARIANTS
  GrantFits
  ReducedIsPositive
  BreachSuppresses
CHECK_DEADLOCK FALSE
