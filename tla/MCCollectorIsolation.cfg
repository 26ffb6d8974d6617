SPECIFICATION Spec
CONSTANTS
  NumSystems = 3
  MaxConcurrent = 2
  NumCollectors = 2
  Stamps = 2
  MaxHung = 1
  Kinds = {"up", "faulty", "hung"}
  Prompt = TRUE
  CanTerminate = FALSE
  Systems <- MCSystems
  Name <- MCName
  Help <- MCHelp
  Key <- MCGoodKey
  Value <- MCGoodValue
  GoodKey <- MCGoodKey
  GoodValue <- MCGoodValue
  Emits <- MCEmits
  Backends <- MCBackends
INVARIANTS
  HealthyReportedUp
