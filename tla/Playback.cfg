SPECIFICATION FairSpec
CONSTANTS
  Users = {"user"}
  Setups <- MCSetups
  MaxOps = 2
  Prompt = FALSE
  Capacity = 3
  Level = 1
INVARIANTS
  TypeOK
  OneDecoder
  StatusTells
  StatusIsTrue
\* Users stop pressing at the bound.
CHECK_DEADLOCK FALSE
