SPECIFICATION Spec
CHECK_DEADLOCK FALSE
CONSTANTS
  Clients = {c1, c2}
  Vouched = {c1}
  admin = admin
  Names <- MCNames
  Superuser = admin
  LocalPassword = 2
  Requests = {r1, r2}
  None = None
  Blank = Blank
  MaxAccounts = 2
  MaxPasswords = 2
INVARIANTS
  AdminTypeOK
  OneAccountPerLogin
  SequentialOwnerKnowsCredentials
PROPERTIES
  KeptOutOnlyByAnotherRow
SYMMETRY Symmetry
