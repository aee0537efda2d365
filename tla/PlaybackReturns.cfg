SPECIFICATION FairSpec
CONSTANTS
  Users = {"user"}
  Setups <- MCStalls
  MaxOps = 2
  Prompt = FALSE
  Capacity = 3
  Level = 1
PROPERTY ClientReturns
\* Users stop pressing at the bound.
CHECK_DEADLOCK FALSE
