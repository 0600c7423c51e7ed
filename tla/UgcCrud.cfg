SPECIFICATION Spec
CONSTANTS
  Users = {u}
  Tokens = {t}
  Direct = Direct
  Contents = {c1, c2}
  None = None
  Unique = TRUE
  Requests = {r1, r2}
  MaxDocs = 4
  MaxBatch = 2
INVARIANTS
  TypeOK
  BatchStoresABeginning
PROPERTIES
  ActsAsCollection
  TokensChangeNothing
SYMMETRY Symmetry
