SPECIFICATION Spec
CONSTANTS
  MaxVersion = 1
  MaxGen = 3
  Faults = {"flush"}
  Mooctl = FALSE
INVARIANT SuccessIsWritten
