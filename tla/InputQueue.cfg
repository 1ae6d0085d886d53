SPECIFICATION FairSpec
CONSTANTS
  a1 = a1
  a2 = a2
  a3 = a3
  Addr = {a1, a2, a3}
  TQ = TQ
  NULL = NULL
  LineKinds = {"INBAND", "OOB", "QUOTED"}
  Lengths = {1}
  INPUT_HIWAT = 2
INVARIANTS
  ItailListCorrect
  SuspendedHasInput
  IdleHasNothingToRun
PROPERTIES
  LanesSpec
  ReaderReleased
