SPECIFICATION Spec
CONSTANTS
  NumSystems = 3
  MaxConcurrent = 2
  NumCollectors = 1
  Stamps = 2
  MaxHung = 2
  Kinds = {"up", "hung"}
  Prompt = TRUE
  CanTerminate = FALSE
  Systems <- MCSystems
  Name <- MCName
  Help <- MCHelp
  Key <- MCGoodKey
  Value <- MCGoodValue
  GoodKey <- MCGoodKey
  GoodValue <- MCGoodValue
  Emits <- MCEmits
  Backends <- MCBackends
INVARIANTS
  HealthyReportedUp
