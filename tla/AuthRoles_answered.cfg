SPECIFICATION Spec
CONSTANTS
  Privileges <- TwoPrivileges
  Unknown = Unknown
  Digits = {d1, d2}
  Users = {u, v}
  Names = {"new"}
  Asks <- TwoAsks
  Requests = {r1}
  Commands = {k1}
PROPERTY AnsweredIsStored
SYMMETRY Symmetry
