SPECIFICATION Spec
CONSTANTS
  Tasks = {web, telnet}
  MAIN = app_main
  NOBODY = NOBODY
  Ops = {"change", "backup"}
  MaxChanges = 2
  MaxLosses = 1
PROPERTIES
  BackupIsSafe
\* The users and the power stop changing anything at the bounds.
CHECK_DEADLOCK FALSE
