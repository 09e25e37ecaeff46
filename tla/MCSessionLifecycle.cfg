SPECIFICATION FairSpec
CONSTANTS
  Stream = {r1, r2}
  Session = {s1}
  Budget = 1
  MaxTokens = 1
  MaxTurns = 3
  MaxCrashes = 1
INVARIANTS
  BudgetOvershootBounded
  SpendingBounded
  TurnsConserved
  SessionMapsAgree
PROPERTY SessionsMakeProgress
CHECK_DEADLOCK FALSE
