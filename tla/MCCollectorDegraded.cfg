SPECIFICATION FairSpec
CONSTANTS
  NumSystems = 2
  MaxConcurrent = 1
  NumCollectors = 2
  Stamps = 2
  MaxHung = 2
  Kinds = {"faulty", "hung"}
  Prompt = FALSE
  CanTerminate = TRUE
  Systems <- MCSystems
  Name <- MCName
  Help <- MCHelp
  Key <- MCGoodKey
  Value <- MCGoodValue
  GoodKey <- MCGoodKey
  GoodValue <- MCGoodValue
  Emits <- MCEmits
  Backends <- MCBackends
INVARIANTS
  OneUpPerSystem
PROPERTIES
  StopsWhenCancelled
  ImplementsFairSnapshots
CHECK_DEADLOCK FALSE
