SPECIFICATION MCSpec
CONSTANTS
  NUM_READY_VARS = 5
  NSLOTS = 7
  INT_BITS = 12
  Scenarios <- MCScenarios
INVARIANTS StackBounded LogIsMeant EndIsMeant RoundTrip NumbersAreMeant
