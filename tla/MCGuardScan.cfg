SPECIFICATION Spec
CONSTANTS
  MaxInput = 4
  Systems <- MCSystems
  Name <- MCName
  Help <- MCHelp
  Key <- MCKey
  Value <- MCValue
  GoodKey <- MCGoodKey
  GoodValue <- MCGoodValue
  Inputs <- MCInputs
  Unknown = Unknown
INVARIANTS
  GatherSafe
  ReturnsGuarded
  Accounted
  ScanInv
CHECK_DEADLOCK FALSE
