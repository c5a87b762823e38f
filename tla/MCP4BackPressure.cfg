CONSTANTS
  BottleNeck = 2
  IngressFast = 1
  IngressSlow = 2
  BusyThreshold = 2
  NormalCapacity = 1
  ResubmitCapacity = 1
  EgressCapacity = 2
  OutputCapacity = 1
  Ports = {0, 1, 8}
  PolledPorts = {0, 1}
  drop_port = 511
  NbPriorities = 1
  Groups <- MCGroups
  MirrorConfigs <- MCMirrorConfigs
  Depths = {}
  IngressOutcomes <- LiveIngressOutcomes
  EgressOutcomes <- LiveEgressOutcomes
  Destinations = {a1}
  Tagged = {FALSE}
  DestinationSize = 65536
  MaxMirrorSessionId = 0
  MaxPackets = 2
  MaxPasses = 1
  FieldLists = {TRUE}
  MaxConfigures = 0
SPECIFICATION MCFairSpec
PROPERTIES BackPressureReleases
CHECK_DEADLOCK FALSE
