SPECIFICATION Spec
CONSTANTS
  Tasks = {web}
  MAIN = app_main
  NOBODY = NOBODY
  Ops = {"change"}
  MaxChanges = 1
  MaxLosses = 1
INVARIANTS
  SettingsInitialized
\* The users and the power stop changing anything at the bounds.
CHECK_DEADLOCK FALSE
