SPECIFICATION Spec
CONSTANTS
  Clients = {c1}
  Requests = {r1, r2}
  Nobody = Nobody
  AccessLife = 1
  MaxTokens = 3
  MaxTime = 3
INVARIANTS
  TypeOK
  OnePairPerToken
  SequentialClientKeepsSession
PROPERTIES
  ActsAsSessions
SYMMETRY Symmetry
