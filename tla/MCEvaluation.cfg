SPECIFICATION Spec
CONSTANTS
  Stream = {r1, r2}
  TurnKind <- Turns
  NoTurn = NoTurn
  PolicyFile <- Policies
  MaxTurns = 2
  MaxRemovals = 1
  EventLimit = 4
  ReuseTurns = 2
SYMMETRY Symmetry
INVARIANTS
  GuardCommandPredicts
  VerdictsFollowAlarms
  StopsAreShared
PROPERTY RefusalsStand
CHECK_DEADLOCK FALSE
