SPECIFICATION RunSpec
CONSTANTS
  s1 = s1
  s2 = s2
  Session = {s1, s2}
  Watched = s1
  Prompted = {s1}
  Command <- Commands
  Mode = {"session", "recent", "run"}
  Failing = {1}
  ReplayLimit = 1
  MaxTurns = 2
  MaxFaults = 1
  MaxPanes = 1
  MaxPolls = 1
INVARIANTS
  ReplayMeetsLive
  RepeatsChangeNothing
  
  GateJudgesTheChild
CONSTRAINT FirstIsWatched
ACTION_CONSTRAINT FaultsLeaveTraces
CHECK_DEADLOCK FALSE
