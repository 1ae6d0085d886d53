SPECIFICATION FairSpec
CONSTANTS
  MaxVersion = 1
  MaxGen = 2
  Faults = {"fork", "write", "flush"}
  Mooctl = FALSE
INVARIANT SafeToCrash
PROPERTIES
  ShutdownDumps
  ShutdownCompletes
