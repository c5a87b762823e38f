SPECIFICATION Spec
CONSTANTS
  PodNums <- MCPodNums
  TreeLevelNums <- MCTreeLevelNums
  GivenFiles <- MCGivenFiles
  P4Sources <- MCP4Sources
INVARIANTS
  TypeOK
  TablesNameWhatExists
  PortInfosMatchDevices
  HopsFollowPortInfos
  LinksAsWritten
  CrashesForWantOfUplinks
  FunctionsAsNamed
  NoSwitchTwice
PROPERTY
  Arrives
CHECK_DEADLOCK FALSE
