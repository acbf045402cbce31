CONSTANTS
  None = None
  p = p
  trader = trader
  operator = operator
  t1 = t1
  t2 = t2
  Payloads <- AllPayloads
  People <- AllPeople
  Operators <- AllOperators
  Threads <- AllThreads
  Ttl = 1
  MaxTime = 1
  MaxCalls = 5
  MaxCrashes = 1
SPECIFICATION Spec
SYMMETRY Symmetry
INVARIANTS
  UsedOnce
  EffectsAreOnRecord
  AnsweredIsKnown
CHECK_DEADLOCK FALSE
