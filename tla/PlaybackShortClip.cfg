SPECIFICATION FairSpec
CONSTANTS
  Users = {"user"}
  Setups <- MCInstant
  MaxOps = 1
  Prompt = TRUE
  Capacity = 3
  Level = 1
INVARIANT RestIsRead
\* Users stop pressing at the bound.
CHECK_DEADLOCK FALSE
