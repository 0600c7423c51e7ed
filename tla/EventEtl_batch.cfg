SPECIFICATION FairSpec
CONSTANTS
  Partitions = {p1, p2}
  NTables = 2
  BatchSize = 3
  NoEvent = NoEvent
  MaxLog = 1
  MaxStarts = 1
  MaxRebalances = 0
  MaxFaults = 0
PROPERTY EventsReachTheirTable
CHECK_DEADLOCK FALSE
