SPECIFICATION SessionsSpec
CONSTANTS
  Drivers = {d1}
  Rides = {r1, r2}
  Workers = {w1, w2}
  NoDriver = NoDriver
  MaxAttempts = 2
  ReleaseBound = 2
SYMMETRY Symmetry
INVARIANTS
  OneCleanRidePerDriver
CHECK_DEADLOCK FALSE
