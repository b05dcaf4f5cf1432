SPECIFICATION Spec
CONSTANTS
  Drivers = {d1, d2}
  Rides = {r1, r2}
  NoDriver = NoDriver
  MaxAttempts = 2
  ReleaseBound = 2
SYMMETRY Symmetry
INVARIANTS
  OneActiveRidePerDriver
  OpenLogIsTheOffer
  NoSecondOffer
  LedgerAgrees
  StampsFitStatus
  ExhaustionIsEarned
  SettledIffCompleted
PROPERTIES
  TerminalIsFinal
  ClaimRespectsOffer
  SuspensionStopsNewWork
  ImplementsAssignment
