SPECIFICATION TimelySpec
CONSTANTS
  Stream = {r1, r2}
  Session = {s1}
  Budget = 2
  MaxTokens = 1
  MaxTurns = 3
  MaxCrashes = 0
INVARIANT EndCleansUp
CHECK_DEADLOCK FALSE
