CONSTANTS
  w1 = w1
  w2 = w2
  d1 = d1
  d2 = d2
  AuthWorkers = {w1, w2}
  MaxTokens = 3
  MaxResets = 1
  MaxCuts = 2
  Devices = {d1, d2}
  Asked = {"available", "offline", "paused"}
  StaleAfter = 1
  DisconnectedAfter = 2
  FreshWindow = 1
  CityWorkers = {w1, w2}
  Cells = {d1, d2}
  Activities <- MCActivities
  Contexts <- MCContexts
  MinDemand = 5
  MinDrivers = 3
  MinSamples = 20
  LastSlot = 1
  MaxComputes = 2
SPECIFICATION DriversSpec
SYMMETRY DriversSymmetry
CHECK_DEADLOCK FALSE
INVARIANTS
  SpentOnce
  RevocationHolds
  RestHolds
  BucketsAreWhole
  ShownIsBacked
