CONSTANTS
  p1 = p1 p2 = p2 p3 = p3 None = None
  Procs = {p1, p2, p3}
  Daemons = {p1, p2}
  MaxAppends = 1
  MaxKills = 1
  Deadlines = TRUE
  Prompt = {p1}
SPECIFICATION DaemonFairSpec
INVARIANTS
  OneDaemonUnlessContested
  Serialized
  StolenOnlyAfterFailure
PROPERTIES
  NeverHidden
  NeverStalls
CHECK_DEADLOCK FALSE
