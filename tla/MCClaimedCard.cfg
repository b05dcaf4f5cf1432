CONSTANTS
  PoolRides = {1}
  QueueLimit = 1
SPECIFICATION PoolSpec
CHECK_DEADLOCK FALSE
PROPERTY ClaimClearsCard
