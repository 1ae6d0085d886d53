SPECIFICATION Spec
CONSTANTS
  MaxObjs = 3
  MaxUsers = 1
  Calls = {1}
INVARIANTS
  RefusedIsBroken
  HierarchiesWellFormed
  UsersExact
CHECK_DEADLOCK FALSE
