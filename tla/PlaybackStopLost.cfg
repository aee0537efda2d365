SPECIFICATION FairSpec
CONSTANTS
  Users = {"user"}
  Setups <- MCStalls
  MaxOps = 2
  Prompt = TRUE
  Capacity = 3
  Level = 1
PROPERTY NoRestartAfterStop
\* Users stop pressing at the bound.
CHECK_DEADLOCK FALSE
