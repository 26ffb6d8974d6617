\* Lists of two items, of three sessions or save sets: a value, one it is
\* compared or added with, and one in between.
CONSTANTS
  Absent = Absent
  Amount = {0, 1, 2}
  Cutoff = 1
  SaveSetKey = {"a", "b"}
  Polled = "nw"
  Systems <- MCSystems
  Name <- Catalog
  Help <- MCHelp
  Key <- MCKey
  Value <- MCText
  GoodKey <- MCKey
  GoodValue <- MCText
  Answer <- SaveSets
  Server <- Servers
SPECIFICATION CollectSpec
INVARIANTS Maxima FastestInstance
INVARIANTS CollectTypeOK AggregatesAddUp ContractKept ExportsAgree NoFalseZero
INVARIANT ValuesExported
PROPERTY ImplementsContributions
\* collectSystem returns.
CHECK_DEADLOCK FALSE
