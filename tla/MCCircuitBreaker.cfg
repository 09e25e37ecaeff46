SPECIFICATION BreakerSpec
CONSTANTS
  Exchange = {x1, x2, x3, x4}
  Threshold = 2
  Window = 2
INVARIANTS
  OpenIffStreak
  OneEventPerTrip
PROPERTY CooldownNeverExtended
CHECK_DEADLOCK FALSE
