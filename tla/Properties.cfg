SPECIFICATION Spec
CONSTANTS
  o1 = o1
  o2 = o2
  o3 = o3
  Objs = {o1, o2, o3}
  NOTHING = NOTHING
  Owners = {o1}
  Names = {"ownership_quota", "p"}
  QUOTA = "ownership_quota"
  Values = {"v"}
  CLEAR = "clear"
  MaxDefs = 2
  MaxChanges = 1
SYMMETRY ObjSymmetry
INVARIANTS
  SlotsMatch
  NamesUnique
  ClearEnds
  GrandparentAccepts
PROPERTIES
  Reparenting
