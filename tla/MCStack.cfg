SPECIFICATION Spec
CONSTANTS
  Reader = {r1}
  Writer = w
  Session = {s1}
  Table <- Tables
  Added <- New
  Dropped <- Old
  Legacy <- Gone
  Blocks <- BlockList
  Upgraded <- OldDatabases
  MaxReports = 1
  MaxFaults = 1
  Cli = {c1, c2}
  Scope <- Scopes
  Host <- Hosts
  Build <- Contents
  MaxEdits = 1
  MaxCrashes = 1
SYMMETRY Symmetry
INVARIANTS
  ServingIsWhole
  OnlyReadersDoHarm
  UpIsTrue
  OnlyEarlierStartsCut
CHECK_DEADLOCK FALSE
