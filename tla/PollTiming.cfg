SPECIFICATION Spec
CONSTANTS
  Interval = 2
  Timeout = 5
  JobWindow = 17
  BackupWindow = 19
  Hour = 6
  MaxMissed = 1
INVARIANTS
  AgeBounded
  NothingLost
