SPECIFICATION Spec
CONSTANTS
  MaxObjects = 3
  NOTHING <- MCNothing
  NewVerbs <- MCNewVerbs
  Words <- MCWords
  Databases <- MCDatabases
  MaxEdits = 2
  MaxCalls = 2
  Player = 1
  prep_list <- MCPreps
  Commands <- MCCommands
  Buffer = 3
CHECK_DEADLOCK FALSE
INVARIANTS
  FoundIsMeant
  RestartKeeps
