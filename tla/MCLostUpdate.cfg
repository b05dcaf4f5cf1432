SPECIFICATION SessionsSpec
CONSTANTS
  Drivers = {d1}
  Rides = {r1}
  Workers = {w1, w2}
  NoDriver = NoDriver
  MaxAttempts = 2
  ReleaseBound = 2
PROPERTIES
  TerminalIsFinal
CHECK_DEADLOCK FALSE
