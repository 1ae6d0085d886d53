SPECIFICATION FairSpec
CONSTANTS
  u1 = u1
  u2 = u2
  c1 = c1
  c2 = c2
  NOTHING = NOTHING
  FREE = FREE
  Tqs <- MCTqs2
  Users = {u1, u2}
  Conns = {}
  Wizards = {u1}
  Progrs = {u1, u2}
  MaxLookups = 1
  Limit <- NoLimit
  MaxTasks = 2
  MaxTime = 2
  MaxDelay = 1
  MaxInput = 0
  MaxUsage = 1
INVARIANTS
  TypeOK
  ActiveListExact
  ListsSorted
  RunningIsHead
PROPERTIES
  EventuallyRun
