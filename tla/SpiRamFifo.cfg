CONSTANTS
  SPIREADSIZE = 2
  Sizes = {1, 3, 4}
  MaxLen = 3
  MaxBytes = 7
  MaxResets = 2
SPECIFICATION FairSpec
INVARIANTS
  TypeOK
  CursorsAgree
  NoPartialPacket
  NoMutualWait
PROPERTIES
  ImplementsQueue
  WriteReturns
CHECK_DEADLOCK FALSE
