SPECIFICATION FairSpec
CONSTANTS
  Partitions = {p1}
  NTables = 2
  BatchSize = 2
  NoEvent = NoEvent
  MaxLog = 2
  MaxStarts = 2
  MaxRebalances = 2
  MaxFaults = 2
INVARIANTS
  TypeOK
  Recoverable
  NothingForgottenWhileUp
  TwiceOnlyIfAmbiguous
  OneRowPerDelivery
  FullOnlyBehindFailure
PROPERTIES
  DeliversAtLeastOnce
  BlockedTablesOnlyGrow
  NoMessageBlocksItsPartition
CHECK_DEADLOCK FALSE
