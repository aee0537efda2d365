------------------------------- MODULE Fmp4Demux -------------------------------
(***************************************************************************)
(* The demultiplexer of fragmented MP4 of hls_fmp4.c: boxes with a header  *)
(* of two lengths, moov and moof collected, mdat taken apart into the      *)
(* samples that the last moof announced, each of which goes to the sink as *)
(* a frame.  The initialisation section comes before the media segments,   *)
(* and again when the play list names another one.                         *)
(*                                                                         *)
(* A file is a sequence of boxes; a byte knows its box and its place in    *)
(* it.  A header is 2 bytes here, or 4 when its first tells that the size  *)
(* is a long one.  A moof is the sizes of its samples and, perhaps, the    *)
(* distance from its start to the first sample.                            *)
(***************************************************************************)
EXTENDS Integers, Sequences, SequencesExt

CONSTANTS
  FmInits,    \* the initialisation sections a server may send
  FmSegments, \* the media segments: sequences of boxes
  FmReceive,  \* most bytes received at once
  FmFrame,    \* longest frame: MAX_FRAME
  FmBox,      \* longest moov or moof that is collected: MAX_META_BOX
  FmBound     \* bound: sections and segments fetched

(* A box: its type, "none" for those that are not named here; its length,  *)
(* whether its header is a long one, or says that the box goes on to the   *)
(* end; of a moov, whether it has an AAC track; and what a moof holds.     *)
Endless == -1
BoxTypes == {"ftyp", "styp", "moov", "moof", "mdat", "free", "none"}
FmBoxes ==
  [type : BoxTypes, n : Nat, long : BOOLEAN, rest : BOOLEAN, aac : BOOLEAN,
   sizes : Seq(Nat), offset : Nat \cup {Endless}]

(* A section has a moov that can be collected, a media segment has none.   *)
HasMoov(f) ==
  \E i \in 1..Len(f) :
    /\ f[i].type = "moov" /\ f[i].n \in 1..FmBox
    /\ \A j \in 1..i : ~f[j].rest
ASSUME FmAssumption ==
  /\ FmReceive \in Nat \ {0} /\ FmFrame \in Nat \ {0}
  /\ FmBox \in Nat /\ FmBound \in Nat
  /\ FmInits \subseteq Seq(FmBoxes) /\ \A f \in FmInits : HasMoov(f)
  /\ FmSegments \subseteq Seq(FmBoxes)
  /\ \A f \in FmSegments : \A i \in 1..Len(f) : f[i].type # "moov"

VARIABLES
  fm,      \* fmp4_t
  file,    \* what is fetched: its boxes
  coming,  \* its bytes that have not been received
  what,    \* "init", "media" or, between two fetches, "none"
  cutInit, \* the last section has been received in several pieces
  inited,  \* a section has been fetched whole
  failed,  \* fmp4_feed has returned -1
  frames,  \* what the sink has been given, of this segment
  files    \* how many sections and segments have been fetched

fmVars == <<fm, file, coming, what, cutInit, inited, failed, frames, files>>

-----------------------------------------------------------------------------
HeaderOf(b) == IF b.long THEN 4 ELSE 2
BoxLength(b) == HeaderOf(b) + b.n
FileBytes(f) ==
  FlattenSeq([b \in 1..Len(f) |-> [i \in 1..BoxLength(f[b]) |-> [box |-> b, place |-> i]]])

(* Where each box of a file ends. *)
BoxEnds(f) ==
  LET end[b \in 0..Len(f)] == IF b = 0 THEN 0 ELSE end[b - 1] + BoxLength(f[b])
  IN end

(* A moof that can be collected announces samples, in the next mdat: they  *)
(* follow one another from where the moof says, or from the start of what  *)
(* that mdat holds.  Where each of them ends, and before that the first    *)
(* begins.                                                                 *)
Announces(k) == k.type = "moof" /\ k.n \in 1..FmBox /\ ~k.rest
NextMdat(f, b, m) ==
  f[m].type = "mdat" /\ \A j \in (b + 1)..(m - 1) : f[j].type # "mdat"
FirstSample(f, b) ==
  IF f[b].offset # Endless THEN BoxEnds(f)[b - 1] + f[b].offset
  ELSE LET m == CHOOSE m \in (b + 1)..Len(f) : NextMdat(f, b, m)
       IN BoxEnds(f)[m - 1] + HeaderOf(f[m])
SampleEnds(f, b) ==
  LET end[i \in 0..Len(f[b].sizes)] ==
        IF i = 0 THEN FirstSample(f, b) ELSE end[i - 1] + f[b].sizes[i]
  IN end

(* A segment is made of fragments: the samples of a moof lie in that mdat, *)
(* which begins before another moof does, and only the last box goes on to *)
(* the end.                                                                *)
InMdat(f, b, m) ==
  /\ NextMdat(f, b, m) /\ f[m].n > 0
  /\ \A j \in (b + 1)..(m - 1) : ~Announces(f[j])
  /\ BoxEnds(f)[m - 1] + HeaderOf(f[m]) <= SampleEnds(f, b)[0]
  /\ SampleEnds(f, b)[Len(f[b].sizes)] <= BoxEnds(f)[m]
Fragmented(f) ==
  /\ \A b \in 1..Len(f) : f[b].rest => b = Len(f)
  /\ \A b \in 1..Len(f) : Announces(f[b]) /\ f[b].sizes # <<>> =>
       \E m \in (b + 1)..Len(f) : InMdat(f, b, m)
ASSUME FmFragments == \A f \in FmSegments : Fragmented(f)

FmReset(c) ==
  [c EXCEPT !.st = "hdr", !.have = 0, !.pos = 0, !.sizes = <<>>, !.idx = 1,
            !.sample = <<>>, !.set = FALSE]

FmInit ==
  /\ fm = [st |-> "hdr", have |-> 0, type |-> "none", remain |-> 0, pos |-> 0,
           start |-> 0, sizes |-> <<>>, idx |-> 1, sample |-> <<>>,
           data |-> 0, set |-> FALSE, cfg |-> FALSE, out |-> <<>>, error |-> FALSE]
  /\ file = <<>> /\ coming = <<>> /\ what = "none"
  /\ cutInit = FALSE /\ inited = FALSE /\ failed = FALSE
  /\ frames = <<>> /\ files = 0

(* A header is complete: what is done with its box.  A byte that is not of *)
(* a header, but is taken for one, begins a box without an end.            *)
HeaderEnds(c, k) ==
  LET r == IF k.rest THEN Endless ELSE k.n
      d == [c EXCEPT !.have = 0, !.type = k.type, !.remain = r,
                     !.start = c.pos - HeaderOf(k)]
  IN IF r = 0 THEN [d EXCEPT !.st = "hdr"]
     ELSE IF k.type \in {"moov", "moof"} /\ r \in 0..FmBox THEN [d EXCEPT !.st = "collect"]
     ELSE IF k.type = "mdat"
          THEN [d EXCEPT !.st = "mdat", !.set = TRUE,
                         !.data = IF c.set THEN @ ELSE c.pos]
     ELSE [d EXCEPT !.st = "skip"]

HeaderByte(c, b, k) ==
  IF b.place > HeaderOf(k)
  THEN [c EXCEPT !.st = "skip", !.type = "none", !.remain = Endless, !.pos = @ + 1]
  ELSE LET d == [c EXCEPT !.have = @ + 1, !.pos = @ + 1] IN
       IF d.have < HeaderOf(k) THEN d ELSE HeaderEnds(d, k)

(* The end of a box, and of what has been collected of it: parse_moov,     *)
(* which fails without an AAC track, and parse_moof.                       *)
Collected(c, k) ==
  IF k.type = "moov" THEN [c EXCEPT !.cfg = k.aac, !.error = ~k.aac]
  ELSE [c EXCEPT !.sizes = k.sizes, !.idx = 1, !.sample = <<>>,
                 !.set = k.offset # Endless, !.data = c.start + k.offset]
Remaining(c) == IF c.remain = Endless THEN Endless ELSE c.remain - 1
BoxByte(c, k) ==
  LET d == [c EXCEPT !.pos = @ + 1, !.remain = Remaining(c),
                     !.st = IF c.remain = 1 THEN "hdr" ELSE @]
  IN IF c.st = "collect" /\ c.remain = 1 THEN Collected(d, k) ELSE d

(* mdat_chunk: samples of no bytes are passed, a byte before the first     *)
(* sample is too, and a sample that is complete becomes a frame, unless it *)
(* is too long for one.                                                    *)
NextSample(c) ==
  CHOOSE i \in c.idx..(Len(c.sizes) + 1) :
    /\ i = Len(c.sizes) + 1 \/ c.sizes[i] > 0
    /\ \A j \in c.idx..(i - 1) : c.sizes[j] = 0
SampleByte(c, b) ==
  LET s == Append(c.sample, b)
      i == NextSample(c)
  IN IF i > Len(c.sizes) \/ c.pos < c.data THEN c
     ELSE IF Len(s) < c.sizes[i] THEN [c EXCEPT !.idx = i, !.sample = s]
     ELSE [c EXCEPT !.idx = i + 1, !.sample = <<>>,
                    !.out = IF Len(s) <= FmFrame THEN Append(@, s) ELSE @]

(* fmp4_feed, a byte at a time. *)
FmByte(c, b) ==
  LET k == file[b.box] IN
  IF c.error THEN c
  ELSE IF c.st = "hdr" THEN HeaderByte(c, b, k)
  ELSE IF c.st = "mdat"
       THEN IF c.cfg THEN BoxByte(SampleByte(c, b), k) ELSE [c EXCEPT !.error = TRUE]
  ELSE BoxByte(c, k)
Fed(c, bytes) ==
  LET fed[k \in 0..Len(bytes)] == IF k = 0 THEN c ELSE FmByte(fed[k - 1], bytes[k])
  IN fed[Len(bytes)]

-----------------------------------------------------------------------------
(* A section or a segment is asked for; a segment only after a section.    *)
FmFetch ==
  /\ what = "none" /\ files < FmBound
  /\ files' = files + 1
  /\ frames' = <<>> /\ failed' = FALSE
  /\ \/ /\ what' = "init"
        /\ file' \in FmInits
        /\ cutInit' = FALSE /\ inited' = FALSE
     \/ /\ inited
        /\ what' = "media"
        /\ file' \in FmSegments
        /\ UNCHANGED <<cutInit, inited>>
  /\ coming' = FileBytes(file')
  /\ UNCHANGED fm

Taken(n) == SubSeq(coming, 1, n)
Comes(n) == n <= Len(coming) /\ coming' = SubSeq(coming, n + 1, Len(coming))
(* What fmp4_feed gave the sink, and whether it failed.                    *)
Settle(c) ==
  /\ fm' = [c EXCEPT !.out = <<>>, !.error = FALSE]
  /\ frames' = frames \o c.out
  /\ failed' = c.error

(* Mutant: the configuration is dropped with the state of the boxes. *)
FmFeedInitDrops ==
  /\ what = "init" /\ ~failed
  /\ \E n \in 1..FmReceive :
       /\ Comes(n)
       /\ cutInit' = (cutInit \/ n < Len(coming))
       /\ LET c == Fed(FmReset(fm), Taken(n))
          IN Settle([FmReset(c) EXCEPT !.cfg = FALSE])
  /\ UNCHANGED <<file, what, inited, files>>

(* feed_cb, of each piece that is received: fmp4_feed_init starts anew     *)
(* with every piece.                                                       *)
FmFeedInit ==
  /\ what = "init" /\ ~failed
  /\ \E n \in 1..FmReceive :
       /\ Comes(n)
       /\ cutInit' = (cutInit \/ n < Len(coming))
       /\ LET c == Fed(FmReset(fm), Taken(n)) IN Settle(FmReset(c))
  /\ UNCHANGED <<file, what, inited, files>>

FmFeed ==
  /\ what = "media" /\ ~failed
  /\ \E n \in 1..FmReceive : Comes(n) /\ Settle(Fed(fm, Taken(n)))
  /\ UNCHANGED <<file, what, cutInit, inited, files>>

(* The section is complete, or the transfer or fmp4_feed has failed.       *)
FmInitEnd ==
  /\ what = "init" /\ what' = "none"
  /\ inited' = (coming = <<>> /\ ~failed)
  /\ UNCHANGED <<fm, file, coming, cutInit, failed, frames, files>>

(* Mutant: the demultiplexer goes on where a segment broke off. *)
FmSegmentEndKeeps ==
  /\ what = "media" /\ what' = "none"
  /\ UNCHANGED <<fm, file, coming, cutInit, inited, failed, frames, files>>

(* ... and the segment: fmp4_segment_end.                                  *)
FmSegmentEnd ==
  /\ what = "media" /\ what' = "none"
  /\ fm' = FmReset(fm)
  /\ UNCHANGED <<file, coming, cutInit, inited, failed, frames, files>>

FmNext == FmFetch \/ FmFeedInit \/ FmFeed \/ FmInitEnd \/ FmSegmentEnd
FmSpec == FmInit /\ [][FmNext]_fmVars

-----------------------------------------------------------------------------
(* Every variable stays in its domain. *)
FmTypeOK ==
  /\ fm.st \in {"hdr", "collect", "skip", "mdat"} /\ fm.have \in 0..3
  /\ fm.remain >= Endless /\ fm.pos \in Nat /\ fm.idx \in 1..(Len(fm.sizes) + 1)
  /\ {fm.cfg, fm.set, cutInit, inited, failed} \subseteq BOOLEAN
  /\ what \in {"none", "init", "media"} /\ files \in 0..FmBound

(* The frame that ends with the q-th byte of a segment, if there is one:   *)
(* the frames of a segment, read as a whole, are the samples of its moofs  *)
(* that are not empty and not too long.                                    *)
FramesAt(q) ==
  LET ending == {n \in 1..FmFrame :
                   \E b \in 1..Len(file) : \E i \in 1..Len(file[b].sizes) :
                     Announces(file[b]) /\ file[b].sizes[i] = n /\ SampleEnds(file, b)[i] = q}
      n == CHOOSE n \in ending : TRUE
  IN IF ending = {} THEN <<>> ELSE <<SubSeq(FileBytes(file), q - n + 1, q)>>

(* The frames of what has come.                                            *)
Frames ==
  FlattenSeq([q \in 1..(Len(FileBytes(file)) - Len(coming)) |-> FramesAt(q)])

(* Wherever a segment is cut, the sink is given its samples, whole, once   *)
(* and in order, as soon as their last byte has come.                      *)
FmFrames == what = "media" /\ ~failed => frames = Frames

(* "Boxes moov/moof are buffered": media data finds the configuration of   *)
(* a section that was fetched before it ...                                *)
FmConfigured == inited => fm.cfg

(* ... when it came in one piece.                                          *)
FmConfiguredAtOnce == inited /\ ~cutInit => fm.cfg
=============================================================================
