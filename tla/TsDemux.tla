-------------------------------- MODULE TsDemux --------------------------------
(***************************************************************************)
(* The MPEG-TS demultiplexer of hls_ts.c: packets of TsPkt bytes, received *)
(* cut anywhere, of which those of the audio stream carry PES packets; the *)
(* bytes of those, without their headers, go to the sink in batches.       *)
(*                                                                         *)
(* A segment is a sequence of packets with other bytes before them; a byte *)
(* knows its packet and its place there.  The first byte of a packet is    *)
(* 0x47, and stands for the header and the adaptation field; the payload   *)
(* comes last.  A segment may break off anywhere (its transfer fails), and *)
(* the next one begins with a packet again.  A byte of 0x47 between the    *)
(* packets is not sent.                                                    *)
(***************************************************************************)
EXTENDS Naturals, Sequences, SequencesExt

CONSTANTS
  TsPkt,      \* bytes of a packet: 188
  TsOut,      \* bytes of a batch: 3008
  TsSegments, \* the segments a server may send: sequences of packets
  TsJunk,     \* bytes before a packet: numbers of them
  TsReceive,  \* most bytes received at once
  TsBound     \* bound: segments fetched

(* A packet: pusi, it begins a table or a PES packet; pes, that is well    *)
(* formed; skip, the length of its header; n, the bytes of payload.        *)
TsPackets ==
  [kind : {"pat", "pmt", "audio", "other"}, pusi : BOOLEAN, pes : BOOLEAN,
   skip : Nat, n : 0..(TsPkt - 1)]

ASSUME TsAssumption ==
  /\ TsPkt \in Nat \ {0, 1} /\ TsOut \in Nat \ {0} /\ TsReceive \in Nat \ {0}
  /\ TsBound \in Nat /\ TsJunk \subseteq Nat /\ TsSegments \subseteq Seq(TsPackets)

VARIABLES
  segment, \* the segment that is fetched: its packets
  bytes,   \* its bytes that have not been received
  demux,   \* ts_t
  sunk,    \* what the sink has been given, of this segment
  fetched, \* how many segments have been begun
  fetching,\* a segment is being fetched
  known    \* what the tables of earlier segments told

tsVars == <<segment, bytes, demux, sunk, fetched, fetching, known>>

(* What a server sends. *)
PacketBytes(s, p) == [i \in 1..TsPkt |-> [packet |-> p, place |-> i]]
Junk(n) == [i \in 1..n |-> [packet |-> 0, place |-> 0]]
SegmentBytes(s, junk) ==
  FlattenSeq([p \in 1..Len(s) |-> Junk(junk[p]) \o PacketBytes(s, p)])

(* The bytes of payload come last. *)
PayloadOf(pkt) == SubSeq(pkt, Len(pkt) - segment[pkt[1].packet].n + 1, Len(pkt))

-----------------------------------------------------------------------------
TsInit ==
  /\ segment = <<>> /\ bytes = <<>>
  /\ demux = [pkt |-> <<>>, pmt |-> FALSE, audio |-> FALSE, skip |-> 0, out |-> <<>>]
  /\ sunk = <<>>
  /\ fetched = 0 /\ fetching = FALSE
  /\ known = [pmt |-> FALSE, audio |-> FALSE]

TsFetch ==
  /\ ~fetching /\ fetched < TsBound
  /\ fetching' = TRUE /\ fetched' = fetched + 1
  /\ \E s \in TsSegments :
       /\ segment' = s
       /\ \E junk \in [1..Len(s) -> TsJunk] : bytes' = SegmentBytes(s, junk)
  /\ sunk' = <<>>
  /\ known' = [pmt |-> demux.pmt, audio |-> demux.audio]
  /\ UNCHANGED <<demux>>

(* ts_packet: what a complete packet changes.                              *)
Table(c, k) ==
  CASE k.kind = "pat" /\ k.pusi -> [c EXCEPT !.pmt = TRUE]
    [] k.kind = "pmt" /\ k.pusi /\ c.pmt -> [c EXCEPT !.audio = TRUE]
    [] OTHER -> c

PesSkip(c, k) == IF k.pusi THEN k.skip ELSE c.skip

PesPacket(c, k, payload) ==
  IF k.pusi /\ ~k.pes THEN [c EXCEPT !.skip = 0]
  ELSE
  LET s == IF PesSkip(c, k) < k.n THEN PesSkip(c, k) ELSE k.n IN
  [c EXCEPT !.skip = PesSkip(c, k) - s, !.out = @ \o SubSeq(payload, s + 1, k.n)]

TsPacket(c, pkt) ==
  LET k == segment[pkt[1].packet] IN
  IF k.n = 0 THEN c
  ELSE IF k.kind = "audio"
       THEN IF c.audio THEN PesPacket(c, k, PayloadOf(pkt)) ELSE c
       ELSE Table(c, k)

(* ts_feed, a byte at a time: bytes are looked at for the marker of a      *)
(* packet only when none has begun.                                        *)
TsByte(c, b) ==
  IF c.pkt = <<>> /\ b.place # 1 THEN c
  ELSE IF Len(c.pkt) + 1 < TsPkt THEN [c EXCEPT !.pkt = Append(@, b)]
  ELSE TsPacket([c EXCEPT !.pkt = <<>>], Append(c.pkt, b))

TsFed(c, s) ==
  LET fed[k \in 0..Len(s)] == IF k = 0 THEN c ELSE TsByte(fed[k - 1], s[k])
  IN fed[Len(s)]

(* ts_out: full batches go to the sink, ... *)
Batches(c) ==
  LET n == (Len(c.out) \div TsOut) * TsOut IN
  /\ sunk' = sunk \o SubSeq(c.out, 1, n)
  /\ demux' = [c EXCEPT !.out = SubSeq(c.out, n + 1, Len(c.out))]

TsFeed ==
  /\ fetching
  /\ \E n \in 1..TsReceive :
       /\ n <= Len(bytes)
       /\ Batches(TsFed(demux, SubSeq(bytes, 1, n)))
       /\ bytes' = SubSeq(bytes, n + 1, Len(bytes))
  /\ UNCHANGED <<segment, fetched, fetching, known>>

(* Mutant: the part of a packet that has come is kept. *)
TsSegmentEndKeeps ==
  /\ fetching /\ fetching' = FALSE
  /\ sunk' = sunk \o demux.out
  /\ demux' = [demux EXCEPT !.skip = 0, !.out = <<>>]
  /\ UNCHANGED <<segment, bytes, fetched, known>>

(* ... and ts_segment_end gives it the rest, at the end of a segment or    *)
(* when its transfer fails.                                                *)
TsSegmentEnd ==
  /\ fetching /\ fetching' = FALSE
  /\ sunk' = sunk \o demux.out
  /\ demux' = [demux EXCEPT !.pkt = <<>>, !.skip = 0, !.out = <<>>]
  /\ UNCHANGED <<segment, bytes, fetched, known>>

TsNext == TsFetch \/ TsFeed \/ TsSegmentEnd
TsSpec == TsInit /\ [][TsNext]_tsVars

-----------------------------------------------------------------------------
(* Every variable stays in its domain: less than a packet waits to be      *)
(* completed, and less than a batch to be given away.                      *)
TsTypeOK ==
  /\ Len(demux.pkt) < TsPkt /\ Len(demux.out) < TsOut
  /\ {demux.pmt, demux.audio, fetching} \subseteq BOOLEAN /\ demux.skip \in Nat
  /\ fetched \in 0..TsBound

(* What a segment holds, read as a whole.  The audio stream is known from  *)
(* the table that names it on, ...                                         *)
Begins(p, kind) == segment[p].kind = kind /\ segment[p].pusi /\ segment[p].n > 0
KnownAt(p) ==
  \/ known.audio
  \/ \E q \in 1..(p - 1) :
       /\ Begins(q, "pmt")
       /\ known.pmt \/ \E r \in 1..(q - 1) : Begins(r, "pat")

(* ... a packet belongs to the last PES packet that began, ...             *)
PesStarts(p) == {q \in 1..p : Begins(q, "audio") /\ KnownAt(q)}
PesStart(p) == CHOOSE q \in PesStarts(p) : \A r \in PesStarts(p) : r <= q

(* ... whose header is its first bytes: what is left of it behind packet   *)
(* p, and what of packet p belongs to it, or is not looked at because it   *)
(* is not well formed.                                                     *)
PayloadFrom(a) ==
  LET sum[p \in 0..Len(segment)] ==
        IF p < a THEN 0
        ELSE sum[p - 1] + IF segment[p].kind = "audio" THEN segment[p].n ELSE 0
  IN sum
HeaderRest(a, p) ==
  IF PayloadFrom(a)[p] < segment[a].skip THEN segment[a].skip - PayloadFrom(a)[p] ELSE 0
Silent(p) ==
  IF PesStarts(p) = {} THEN 0
  ELSE IF segment[PesStart(p)].pes THEN HeaderRest(PesStart(p), p - 1)
  ELSE IF PesStart(p) = p THEN segment[p].n ELSE 0

AudioOf(p) ==
  IF segment[p].kind = "audio" /\ KnownAt(p)
  THEN SubSeq(PacketBytes(segment, p), TsPkt - segment[p].n + Silent(p) + 1, TsPkt)
  ELSE <<>>

Complete == {p \in 1..Len(segment) : \A i \in DOMAIN bytes : bytes[i].packet # p}

(* Wherever a segment is cut, and wherever the one before it broke off,    *)
(* the sink is given the audio of the packets that are complete, without   *)
(* their PES headers, each byte once and in order.                         *)
TsAudio ==
  sunk \o demux.out =
    FlattenSeq([p \in 1..Len(segment) |-> IF p \in Complete THEN AudioOf(p) ELSE <<>>])
=============================================================================
