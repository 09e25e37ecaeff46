CONSTANTS
  s1 = s1 s2 = s2 t1 = t1 t2 = t2 t3 = t3 r1 = r1 r2 = r2 r3 = r3
  Session = {s1, s2}
  Turn = {t1, t3}
  Request = {r1, r2, r3}
  SessionOf <- TwoSessions
  RequestOf <- Repeated
  Summarised = {t1}
  NoRecall = NoRecall
  Blank = Blank
  Readers = {"repair", "review"}
  MaxFaults = 2
SPECIFICATION Spec
INVARIANTS DiagnosesAreOnRecord OnlyDamageIsMissing
CHECK_DEADLOCK FALSE
