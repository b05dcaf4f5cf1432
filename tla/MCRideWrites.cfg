CONSTANTS
  w1 = w1
  w2 = w2
  d1 = d1
  d2 = d2
  Workers = {w1, w2}
  Retries = 1
  MaxKeys = 2
  MaxSends = 3
  FeedWorkers = {w1, w2}
  FeedDrivers = {d1, d2}
  NobodyYet = NobodyYet
  HideTTL = 1
  LastMoment = 1
  MaxAttempts = 3
  MaxReleases = 1
SPECIFICATION WritesSpec
SYMMETRY WritesSymmetry
CHECK_DEADLOCK FALSE
INVARIANTS
  OneEffectPerKey
  SuccessIsReal
  StuckOnlyByFailure
  HideHolds
  TransparencyFits
