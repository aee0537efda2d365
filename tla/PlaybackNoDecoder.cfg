SPECIFICATION FairSpec
CONSTANTS
  Users = {"user"}
  Setups <- MCVS1053
  MaxOps = 2
  Prompt = TRUE
  Capacity = 3
  Level = 1
INVARIANT FullBufferIsRead
\* Users stop pressing at the bound.
CHECK_DEADLOCK FALSE
