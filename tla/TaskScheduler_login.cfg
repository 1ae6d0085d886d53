SPECIFICATION Spec
CONSTANTS
  u1 = u1
  u2 = u2
  c1 = c1
  c2 = c2
  NOTHING = NOTHING
  FREE = FREE
  Tqs <- MCTqs
  Users = {u1}
  Conns = {c1, c2}
  Wizards = {}
  Progrs = {u1, c2}
  MaxLookups = 0
  Limit = 1
  MaxTasks = 2
  MaxTime = 2
  MaxDelay = 0
  MaxInput = 1
  MaxUsage = 0
CONSTRAINT TwoLogins
INVARIANTS
  ReadyIsActive
  CountExact
  QuotaKept
  OneQueuePerPlayer
  OnePlace
PROPERTIES NoTaskVanishes
