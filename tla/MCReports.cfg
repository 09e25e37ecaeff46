SPECIFICATION ReportsSpec
CONSTANTS
  Reader = {r1, r2}
  TurnKind <- Turns
  NoReport = NoReport
  MaxRecorded = 2
  MaxReads = 2
  MaxLost = 1
  MaxLives = 1
  EventLimit = 4
  ReuseTurns = 2
SYMMETRY Symmetry
INVARIANTS
  EvidenceBacksCauses
  ReportsAreCurrent
  DegradationHasOneStory
  HistoryNeverInvents
CHECK_DEADLOCK FALSE
