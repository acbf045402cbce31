CONSTANTS
  buy = buy
  Orders = {buy}
  Shares <- Two
  Endings = {"canceled", "rejected"}
  None = None
  MaxBare = 1
  MaxRestarts = 1
SPECIFICATION Spec
INVARIANTS
  NeverOvercounts
  InStep
  GapIsFlagged
PROPERTIES
  ViewSpec
CHECK_DEADLOCK FALSE
