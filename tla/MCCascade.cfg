SPECIFICATION LiveSpec
CONSTANTS
  Drivers = {d1, d2, d3}
  Rides = {r1}
  NoDriver = NoDriver
  MaxAttempts = 3
  ReleaseBound = 2
PROPERTIES
  CascadeMovesOn
