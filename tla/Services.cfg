SPECIFICATION ServicesSpec
CONSTANTS
  Tasks = {web, telnet}
  MAIN = app_main
  NOBODY = NOBODY
  Ops = {"change", "backup", "volume", "erase"}
  MaxChanges = 3
  MaxLosses = 2
  StaTasks = {web, console}
  StaSectors = 2
  StaPer = 3
  StaStations = {a, b}
  StaEmpty = empty
  StaErased = erased
  StaGarbled = garbled
  StaIds = {0, 2, 4, 7}
  StaNumbers = {1, 3}
  StaWidth = 8
  StaSaves = 2
  OtaWorkers = {w1, w2}
  OtaLength = 2
  OtaRoom = 1
  SrvConns = {c1, c2, c3}
  SrvNone = none
  SrvWorkers = 2
  SrvSlots = 2
  PcmSlots = 3
  PcmFrames = 5
INVARIANTS
  ServicesTypeOK
  ChangesAreSaved
  VersionsNeverMix
  StaKept
  OtaImage
  OtaQueueLives
  SrvPermits
  SrvHeld
  PcmOnePlace
  PcmInOrder
PROPERTIES
  StationsSurvive
  StaReturns
  OtaRestarts
  OtaEnds
  SrvServes
  PcmReturns
\* Users, clients and the power stop at the bounds.
CHECK_DEADLOCK FALSE
