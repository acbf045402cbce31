CONSTANTS
  Intents <- OnePlan
  None = None
  Attempts = 3
  TearsLines = TRUE
  MaxCalls = 2
  MaxCrashes = 1
SPECIFICATION FairSpec
INVARIANTS
  OwnBeforeWrite
  LiveIsPending
  NoBlindResend
  AnswersAreMine
PROPERTIES
  CallsEnd
CHECK_DEADLOCK FALSE
