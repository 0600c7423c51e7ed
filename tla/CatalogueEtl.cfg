SPECIFICATION FairSpec
CONSTANTS
  p1 = p1
  p2 = p2
  m1 = m1
  NIndices = 2
  Docs <- MCDocs
  IndexOf <- MCIndexOf
  BatchSize = 1
  MaxEdits = 3
  MaxFaults = 2
INVARIANTS
  TypeOK
  NothingBehindTheMark
  IndexWaitsForEarlierOnes
PROPERTIES
  ReachedIsCurrent
