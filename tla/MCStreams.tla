------------------------------- MODULE MCStreams -------------------------------
(***************************************************************************)
(* The instance of Streams that is model-checked: the digits of chunk      *)
(* sizes, the packets and boxes of the segments a server may send, the     *)
(* sections and discontinuities of its play lists, its answers.            *)
(***************************************************************************)
EXTENDS Streams

MCChunkDigits == (0 :> 1) @@ (1 :> 1) @@ (2 :> 2) @@ (4 :> 1)

Packet(kind, pusi, pes, skip, n) ==
  [kind |-> kind, pusi |-> pusi, pes |-> pes, skip |-> skip, n |-> n]
Pat == Packet("pat", TRUE, TRUE, 0, 2)
Pmt == Packet("pmt", TRUE, TRUE, 0, 2)
Pes(skip, n) == Packet("audio", TRUE, TRUE, skip, n)
BadPes == Packet("audio", TRUE, FALSE, 0, 1)
More(n) == Packet("audio", FALSE, FALSE, 0, n)
Other == Packet("other", TRUE, TRUE, 1, 2)
(* Tables first, the table after audio, no table, PES headers that reach   *)
(* into the next packet or are not well formed, a packet without payload.  *)
MCTsSegments ==
  {<<Pat, Pmt, Pes(1, 2), More(2)>>,
   <<Pat, Pes(2, 2), Pmt, More(2), Pes(3, 2), More(2)>>,
   <<Pes(1, 2), More(1), Pes(2, 1), More(2)>>,
   <<Pat, Pmt, Pes(2, 2), BadPes, More(1), Other, More(2)>>,
   <<More(2), Pes(3, 2), More(0), More(2)>>}

Box(type, n, long) ==
  [type |-> type, n |-> n, long |-> long, rest |-> FALSE, aac |-> FALSE,
   sizes |-> <<>>, offset |-> -1]
Moof(n, long, sizes, offset) ==
  [Box("moof", n, long) EXCEPT !.sizes = sizes, !.offset = offset]
LastMdat(n) == [Box("mdat", n, FALSE) EXCEPT !.rest = TRUE]
Moov(aac) == [Box("moov", 2, FALSE) EXCEPT !.aac = aac]
(* Samples of no bytes and of too many, offsets, long headers, an empty    *)
(* box, an mdat up to the end of the file, a moof too long to be collected.*)
MCFmSegments ==
  {<<Box("styp", 1, FALSE), Moof(2, FALSE, <<2, 0, 1>>, -1), Box("mdat", 3, TRUE)>>,
   <<Moof(2, TRUE, <<1, 2>>, 9), Box("mdat", 4, FALSE),
     Moof(2, FALSE, <<3, 2>>, -1), Box("free", 0, FALSE), LastMdat(5)>>,
   <<Moof(3, FALSE, <<1>>, -1), Box("mdat", 2, FALSE)>>}
MCFmInits == {<<Box("ftyp", 1, FALSE), Moov(TRUE)>>, <<Moov(FALSE)>>}

(* One section for all segments or one for each timeline, and a            *)
(* discontinuity or none.                                                  *)
Split(a, b) == [s \in 1..HlsLast |-> IF s < 3 THEN a ELSE b]
MCHlsMaps == {Split("a", "a"), Split("a", "b")}
MCHlsTimelines == {Split(1, 1), Split(1, 2)}

HttpAnswer(status, framing, keep, length) ==
  [status |-> status, framing |-> framing, keep |-> keep, length |-> length,
   chunks |-> <<>>, trailer |-> FALSE]
Chunks(keep, chunks, trailer) ==
  [HttpAnswer("ok", "chunked", keep, 0) EXCEPT !.chunks = chunks, !.trailer = trailer]

(* A redirection, an error, a body up to the end of the connection, one of *)
(* a length, and chunks: of a size of two digits with an extension, two of *)
(* them, none at all and a trailer behind.                                 *)
MCHttpBodies ==
  {HttpAnswer("redirect", "length", TRUE, 1), HttpAnswer("error", "length", TRUE, 1),
   HttpAnswer("ok", "close", FALSE, 2), HttpAnswer("ok", "length", TRUE, 2),
   Chunks(TRUE, <<[size |-> <<1, 0>>, extension |-> TRUE]>>, FALSE),
   Chunks(TRUE, <<[size |-> <<1>>, extension |-> FALSE],
                  [size |-> <<1>>, extension |-> FALSE]>>, FALSE),
   Chunks(TRUE, <<>>, TRUE)}
================================================================================
