SPECIFICATION Spec
CONSTANTS
  NumSystems = 3
  MaxConcurrent = 2
  NumCollectors = 1
  Stamps = 2
  MaxHung = 3
  Kinds = {"faulty", "hung"}
  Prompt = FALSE
  CanTerminate = TRUE
  Systems <- MCSystems
  Name <- MCName
  Help <- MCHelp
  Key <- MCGoodKey
  Value <- MCGoodValue
  GoodKey <- MCGoodKey
  GoodValue <- MCGoodValue
  Emits <- MCEmits
  Backends <- MCBackends
INVARIANTS
  PolledWithinLimit
  StoreGatherable
  StoreIsOneCycle
PROPERTIES
  ImplementsSnapshots
CHECK_DEADLOCK FALSE
