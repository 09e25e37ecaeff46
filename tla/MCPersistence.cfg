CONSTANTS
  s1 = s1 s2 = s2 t1 = t1 t2 = t2 t3 = t3 r1 = r1 r2 = r2 r3 = r3
  Session = {s1}
  Turn = {t1, t2}
  Request = {r1, r2, r3}
  SessionOf <- OneSession
  RequestOf <- Own
  Summarised = {t1, t2}
  NoRecall = NoRecall
  Blank = Blank
  Readers = {"repair"}
  MaxFaults = 1
SPECIFICATION FairSpec
INVARIANTS SnapshotsInRecordOrder ReadyCoversLife
PROPERTY SessionsSettle
CHECK_DEADLOCK FALSE
