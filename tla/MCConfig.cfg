\* The documented defaults in minutes, and intervals and windows on both
\* sides of each of them and of their doubles.  Two values, so that the
\* environment and the two .env files can disagree.
CONSTANTS
  Empty = ""
  Unset = Unset
  Value = {"", "v", "w"}
  DefaultInterval = 5
  DefaultBackupWindow = 1440
  DefaultJobWindow = 2880
  Written <- Files
  Rewritten <- Edits
SPECIFICATION Spec
INVARIANTS TypeOK UnsetWindowsFollow FirstSourceWins VerdictStable
