CONSTANTS
  w1 = w1
  w2 = w2
  d1 = d1
  d2 = d2
  k1 = k1
  k2 = k2
  NoSpineDriver = NoSpineDriver
  SpineWorkers = {w1, w2}
  SpineDrivers = {d1, d2}
  Keys = {k1, k2}
  MaxTrips = 3
  Splits <- MCSplits
  PoolRides = {1, 2}
  QueueLimit = 1
  MaxUnsent = 2
  Seeds = {1, 2}
  MaxRounds = 2
  MaxCandidates = 3
  MaxFiles = 2
  MaxRuns = 2
  Findings <- MCFindings
SPECIFICATION MarketSpec
SYMMETRY MarketSymmetry
CHECK_DEADLOCK FALSE
INVARIANTS
  TripsHoldDrivers
  SettledOnce
  IdleOverlooks
  ApprovedIsReproducible
