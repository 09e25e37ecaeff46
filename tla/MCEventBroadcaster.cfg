CONSTANTS
  Publisher = {p1, p2}
  Watcher = {w1}
  HistoryCap = 2
  ChannelCap = 2
  MaxEvents = 4
  MaxConnects = 2
SPECIFICATION FairSpec
INVARIANTS NoSilentLoss ArrivesInOrder
PROPERTIES Delivers OwedSettled
CHECK_DEADLOCK FALSE
