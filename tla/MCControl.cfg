CONSTANTS
  TableType <- MCTableType
  TableSize = 2
  Actions = {"fwd", "drop"}
  MeteredTables = {"t"}
  CountedTables = {"t"}
  MeterArrays = {"im"}
  CounterArrays = {"ic"}
  RegisterArrays = {"r"}
  ArraySize = 2
  StrToInt <- MCStrToInt
  Extracted <- MCExtracted
  Key <- MCKey
  FoundTypes = {"exact", "other"}
  Ways = {"LOCAL_CALL", "RUNTIME_CLI"}
  Files <- MCFiles
  g_flowTablePath = "command"
  g_viewFlowTablePath = "view"
  m_p4InfoPath = "info"
  PopulateCommands <- MCPopulateCommands
  AttainCommands <- MCAttainCommands
  Values = {"v"}
  MaxSwitches = 2
  MaxSteps = 2
  MaxCount = 2
SPECIFICATION Spec
INVARIANTS TypeOK InfoKept
PROPERTIES MeterReadBack CountersCount EntryAsWritten
CHECK_DEADLOCK FALSE
