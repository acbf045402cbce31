CONSTANTS
  a1 = a1  a2 = a2  a3 = a3
  k1 = k1  k2 = k2  k3 = k3  kf = kf
  h1 = h1  h2 = h2  h3 = h3
  NVDA = NVDA  NFLX = NFLX  AMD = AMD
  None = None
  Artifacts = {a1, a2}
  Tickers = {NVDA, AMD, NFLX}
  Keys = {k1, k2, k3, kf}
  Hashes = {h1, h2, h3}
  FallbackKey = kf
  Meta <- MetaOperator
  InitMandate = {NVDA, AMD}
  Cap = 0
  ExpiresOn = 0
  RefRequired = FALSE
  Torn = {}
  MaxDay = 0
  MaxEnds = 1
  MaxPoison = 1
  MaxEdits = 1
  MaxHalts = 1
  MaxRows = 2
CHECK_DEADLOCK FALSE
SPECIFICATION FairSpec
INVARIANTS
  AtMostOneLateEmission
PROPERTIES
  MandateInForce
  NewestIsAdmitted
  
