CONSTANTS
  QueueIds = {0}
  NbWorkers = 1
  NbPriorities = 2
  Items = {a}
  InitCapacity = 2
  Capacities = {}
  Rates = {}
  TicksPerMs = 2
  MaxNow = 4
  MaxPushes = 3
  MaxConfigures = 0
SPECIFICATION MCSpec
INVARIANTS NoRateLimitByDefault
CHECK_DEADLOCK FALSE
