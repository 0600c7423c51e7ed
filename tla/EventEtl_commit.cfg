SPECIFICATION Spec
CONSTANTS
  Partitions = {p1}
  NTables = 2
  BatchSize = 2
  NoEvent = NoEvent
  MaxLog = 3
  MaxStarts = 2
  MaxRebalances = 0
  MaxFaults = 0
PROPERTY ProcessedIsCommitted
CHECK_DEADLOCK FALSE
