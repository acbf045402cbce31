CONSTANTS
  None = None
  Cooldown = 3
  Times <- Readings
  Minutes <- ToClose
SPECIFICATION Spec
INVARIANTS
  LateHaltStays
PROPERTY
  ReopenIsConfirmed
