SPECIFICATION SrvSpec
CONSTANTS
  SrvConns = {c1, c2}
  SrvNone = none
  SrvWorkers = 2
  SrvSlots = 2
PROPERTY SrvReads
\* Clients stop connecting at the bound.
CHECK_DEADLOCK FALSE
