SPECIFICATION Spec
CONSTANTS
  Requests = {r1, r2}
  Partitions = {p1, p2}
  Limit = 2
  Retries = 1
  MaxEvents = 2
INVARIANTS
  TypeOK
  AnswerFollowsOutcome
  NoRecordNamesATable
SYMMETRY Symmetry
