SPECIFICATION Spec
CONSTANTS
  Privileges <- TwoPrivileges
  Unknown = Unknown
  Digits = {d1, d2}
  Users = {u, v}
  Names = {"new"}
  Asks <- TwoAsks
  Requests = {r1, r2}
  Commands = {k1}
INVARIANTS
  TypeOK
  ServingMeansSeeded
  SuperuserNameIsReserved
PROPERTIES
  CreatedIsStored
  CommandPromotesItsOwn
SYMMETRY Symmetry
