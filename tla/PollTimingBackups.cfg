SPECIFICATION Spec
CONSTANTS
  Interval = 3
  Timeout = 2
  JobWindow = 7
  BackupWindow = 7
  Hour = 4
  MaxMissed = 0
INVARIANTS
  NoSaveSetLost
