SPECIFICATION Spec
CONSTANTS
  Clients = {c1}
  Requests = {r1}
  Nobody = Nobody
  AccessLife = 1
  MaxTokens = 2
  MaxTime = 3
PROPERTY ExpiredIsRefreshed
