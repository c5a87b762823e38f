CONSTANTS
  BottleNeck = 2
  IngressFast = 1
  IngressSlow = 2
  BusyThreshold = 2
  NormalCapacity = 1
  ResubmitCapacity = 2
  EgressCapacity = 2
  OutputCapacity = 1
  Ports = {0, 1}
  PolledPorts = {0, 1}
  drop_port = 511
  NbPriorities = 2
  Groups <- MCGroups
  MirrorConfigs <- MCMirrorConfigs
  Depths = {1}
  IngressOutcomes <- MCIngressOutcomes
  EgressOutcomes <- MCEgressOutcomes
  Destinations = {a1, a2}
  Tagged = {TRUE}
  DestinationSize = 65536
  MaxMirrorSessionId = 0
  MaxPackets = 2
  MaxPasses = 1
  FieldLists = {FALSE}
  MaxConfigures = 1
SPECIFICATION MCSpec
PROPERTIES DestinationPreserved
CHECK_DEADLOCK FALSE
