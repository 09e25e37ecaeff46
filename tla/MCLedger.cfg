SPECIFICATION Spec
CONSTANTS
  s1 = s1
  s2 = s2
  None = None
  Session = {s1, s2}
  Charge <- Charges
  OldRows <- Old
  Batch <- Batches
  Catalog <- Prices
  Week <- WeekOf
  Month <- MonthOf
  LastDay = 1
  MaxTurns = 1
  MaxPosts = 2
  MaxReports = 1
  MaxFaults = 1
INVARIANTS
  WindowsAreNested
  AcknowledgedBillsCount
  AnswersAreTrue
CHECK_DEADLOCK FALSE
