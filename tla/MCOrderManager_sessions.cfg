CONSTANTS
  Intents <- TwoSessions
  None = None
  Attempts = 1
  TearsLines = FALSE
  MaxCalls = 2
  MaxCrashes = 0
SPECIFICATION Spec
INVARIANT AnswersAreMine
CHECK_DEADLOCK FALSE
