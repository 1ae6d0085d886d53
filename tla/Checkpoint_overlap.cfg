SPECIFICATION Spec
CONSTANTS
  MaxVersion = 2
  MaxGen = 3
  Faults = {}
  Mooctl = FALSE
INVARIANT ReportedIsKept
