-------------------------------- MODULE Streams --------------------------------
(***************************************************************************)
(* What the client does with the bytes of a stream, between the connection *)
(* and the song buffer: the ICY de-interleaver and the chunked transfer of *)
(* webclient.c, and the HTTP live streaming of hls.c: its requests, its    *)
(* play lists and its two demultiplexers.  None reads the state of         *)
(* another: a behaviour is of the one that part names, while the others    *)
(* stay as they began.                                                     *)
(***************************************************************************)
EXTENDS IcyStream, ChunkedStream, HlsHttp, TsDemux, Fmp4Demux, HlsPlay

VARIABLE part \* which of them is at work

streamsVars == <<part, vars, chunkVars, httpVars, tsVars, fmVars, hlsVars>>

StreamParts == {"icy", "chunked", "http", "ts", "fmp4", "hls"}

(* One that is not begins in some state it may begin in.                   *)
Used(p, all) == {x \in all : part = p \/ x = CHOOSE y \in all : TRUE}

StreamsInit ==
  /\ part \in StreamParts
  /\ IcyStarts(Used("icy", [1..BLOCKS -> Lengths]))
  /\ ChunkStarts(Used("chunked", ChunkLists), Used("chunked", BOOLEAN))
  /\ HttpInit
  /\ TsInit
  /\ FmInit
  /\ HlsStarts(Used("hls", 1..HlsLast), Used("hls", HlsMaps), Used("hls", HlsTimelines))

StreamsNext ==
  /\ UNCHANGED part
  /\ \/ part = "icy" /\ Next /\ UNCHANGED <<chunkVars, httpVars, tsVars, fmVars, hlsVars>>
     \/ part = "chunked" /\ ChunkNext /\ UNCHANGED <<vars, httpVars, tsVars, fmVars, hlsVars>>
     \/ part = "http" /\ HttpNext /\ UNCHANGED <<vars, chunkVars, tsVars, fmVars, hlsVars>>
     \/ part = "ts" /\ TsNext /\ UNCHANGED <<vars, chunkVars, httpVars, fmVars, hlsVars>>
     \/ part = "fmp4" /\ FmNext /\ UNCHANGED <<vars, chunkVars, httpVars, tsVars, hlsVars>>
     \/ part = "hls" /\ HlsNext /\ UNCHANGED <<vars, chunkVars, httpVars, tsVars, fmVars>>

StreamsSpec == StreamsInit /\ [][StreamsNext]_streamsVars

-----------------------------------------------------------------------------
(* The variables of every part stay in their domains.                      *)
StreamsTypeOK ==
  TypeOK /\ ChunkTypeOK /\ HttpTypeOK /\ TsTypeOK /\ FmTypeOK /\ HlsTypeOK
================================================================================
