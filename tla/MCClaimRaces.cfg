SPECIFICATION RacesSpec
CONSTANTS
  Drivers = {d1, d2, d3}
  Rides = {r1}
  Workers = {w1, w2}
  NoDriver = NoDriver
  MaxAttempts = 2
  ReleaseBound = 2
  Requests = {d1, d2, d3}
  Scripts <- MCScripts
CHECK_DEADLOCK FALSE
SYMMETRY Symmetry
INVARIANTS
  CleanRidesAgree
  AuditTrailHolds
  ForkNeedsOverlap
PROPERTIES
  NoTheft
