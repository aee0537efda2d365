SPECIFICATION StreamsSpec
CONSTANTS
  metaint = 3
  UNIT = 2
  Lengths = {0, 1, 2}
  RECEIVE = 9
  BLOCKS = 3
  ChunkSizes = {1, 2, 4}
  ChunkDigits <- MCChunkDigits
  ChunkLook = 4
  ChunkReceive = 8
  ChunkBound = 3
  HttpBase = 2
  HttpReceive = 4
  HttpCalls = 2
  HttpBodies <- MCHttpBodies
  TsPkt = 3
  TsOut = 3
  TsReceive = 7
  TsBound = 2
  TsJunk = {0, 1}
  TsSegments <- MCTsSegments
  FmReceive = 8
  FmFrame = 2
  FmBox = 2
  FmBound = 3
  FmInits <- MCFmInits
  FmSegments <- MCFmSegments
  HlsLast = 4
  HlsWindow = 3
  HlsLag = 1
  HlsBack = 3
  HlsFails = 4
  HlsMaps <- MCHlsMaps
  HlsTimelines <- MCHlsTimelines
INVARIANTS
  StreamsTypeOK
  AudioOnly
  MetadRight
  ChunkData
  HttpReturnsWhole
  HttpKeptIsClean
  HttpAsksAtMost
  TsAudio
  FmFrames
  FmConfiguredAtOnce
  HlsSectionRight
  HlsEndedIsHeard
PROPERTIES
  HlsInOrder
\* Streams end.
CHECK_DEADLOCK FALSE
