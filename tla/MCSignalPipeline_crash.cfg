CONSTANTS
  a1 = a1  a2 = a2  a3 = a3
  k1 = k1  k2 = k2  k3 = k3  kf = kf
  h1 = h1  h2 = h2  h3 = h3
  NVDA = NVDA  NFLX = NFLX  AMD = AMD
  None = None
  Artifacts = {a1, a2, a3}
  Tickers = {NVDA}
  Keys = {k1, k2, k3, kf}
  Hashes = {h1, h2, h3}
  FallbackKey = kf
  Meta <- MetaCrash
  InitMandate = {NVDA}
  Cap = 1
  ExpiresOn = 1
  RefRequired = TRUE
  Torn = {"inbox"}
  MaxDay = 1
  MaxEnds = 2
  MaxPoison = 0
  MaxEdits = 0
  MaxHalts = 0
  MaxRows = 2
SPECIFICATION Spec
INVARIANTS
  AtMostOnceEmission
  EmissionsAreJournaled
  NothingAheadOfFeed
  OwnBeforeWrite
  OneVerdictPerArtifact
  PendingOnlyAfterCrash
  NeverSilent
PROPERTIES
  InboxNeverReopens
  FeedSpec
