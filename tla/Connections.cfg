SPECIFICATION Spec
CONSTANTS
  MAX_QUEUED_OUTPUT = 3
  SYSTEM_OBJECT = 0
  PORT = 1
  Users = {2}
  NOTHING <- MCNothing
  INPUT_HIWAT = 1
  INPUT_LOWAT = 1
  Focuses <- MCFocuses
INVARIANTS
  HandlesSound
  NotifiersAlternate
  OutputAccounted
  InputSplit
  AnswersAreAsked
  LookupsSound
