CONSTANTS
  BottleNeck = 2
  IngressFast = 1
  IngressSlow = 2
  BusyThreshold = 2
  NormalCapacity = 2
  ResubmitCapacity = 1
  EgressCapacity = 2
  OutputCapacity = 1
  Ports = {0, 1}
  PolledPorts = {0, 1}
  drop_port = 511
  NbPriorities = 2
  Groups <- MCGroups
  MirrorConfigs <- MCMirrorConfigs
  Depths = {1}
  IngressOutcomes <- MCIngressOutcomes
  EgressOutcomes <- MCEgressOutcomes
  Destinations = {a1, a2}
  Tagged = {TRUE}
  DestinationSize = 65536
  MaxMirrorSessionId = 0
  MaxPackets = 2
  MaxPasses = 1
  FieldLists = {TRUE}
  MaxConfigures = 1
SPECIFICATION MCSpec
INVARIANTS CapacitiesAsNamed
CHECK_DEADLOCK FALSE
