CONSTANTS
  p1 = p1
  p2 = p2
  PayWorkers = {p1, p2}
  Total = 3
  FirstAnswers <- MCFirstAnswers
  MaxEvents = 2
  Completers = {p1, p2}
  PricingPolicy <- MCPolicy
  QuotedFare = 777
  TripMinutes = 7
  TripFares <- MCFares
  Extras <- MCExtras
  RouteWorkers = {p1, p2}
  RouteRides = {1}
  Settings <- MCSettings
  Feeds <- MCFeeds
  LastTick = 2
  MaxRecords = 1
SPECIFICATION MoneySpec
SYMMETRY MoneySymmetry
CHECK_DEADLOCK FALSE
INVARIANTS
  ServedFresh
  RoadClaimsAreReal
  OneIntent
  CollectedIsReal
  RefundsAreReal
  QuietRowsAgree
  SettlementBalances
  ChargeMatchesSettlement
  RepricedOnlyByOverlap
