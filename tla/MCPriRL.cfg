CONSTANTS
  QueueIds = {0, 1}
  NbWorkers = 1
  NbPriorities = 2
  Items = {a}
  InitCapacity = 2
  Capacities = {1}
  Rates = {2000}
  TicksPerMs = 2
  MaxNow = 3
  MaxPushes = 3
  MaxConfigures = 1
SPECIFICATION MCFairSpec
INVARIANTS TypeOK SizesMatchContents
PROPERTIES Fifo SpacedByRate GrowsWithinCapacity DueIsServed RefinesDropTail
CHECK_DEADLOCK FALSE
