------------------------------- MODULE IcyStream -------------------------------
(***************************************************************************)
(* The ICY de-interleaver of clientReceiveCallback (webclient.c): a server *)
(* that announced metaint sends metaint bytes of audio, a byte that tells  *)
(* the length of a block of metadata in units of 16 bytes, that block, and *)
(* so on.  The client receives this cut anywhere, and has to hand every    *)
(* audio byte, and nothing else, to audio_stream_consumer; metad, kept     *)
(* from one reception to the next, is the audio still to come before the   *)
(* next length byte.                                                       *)
(*                                                                         *)
(* One action is one reception without a length byte in it, one round of   *)
(* the loop over the blocks of a reception, or its end.  The variable rest *)
(* is 0 whenever a reception begins (both ways out of the loop store 0),   *)
(* so that the branch for a negative rest is never taken, and rest itself  *)
(* is the length of inpdata here.                                          *)
(***************************************************************************)
EXTENDS Naturals, Sequences, SequencesExt

CONSTANTS
  metaint, \* header.members.single.metaint
  UNIT,    \* bytes per unit of metadata: 16
  Lengths, \* the values of the length bytes
  RECEIVE, \* most bytes received at once
  BLOCKS   \* bound: blocks of audio and metadata in a stream

ASSUME IcyAssumption ==
  /\ metaint \in Nat \ {0} /\ UNIT \in Nat \ {0} /\ RECEIVE \in Nat \ {0}
  /\ BLOCKS \in Nat /\ Lengths \subseteq Nat

VARIABLES
  stream,  \* what the server sends: a sequence of bytes
  pos,     \* how much of it has been received
  cut,     \* a reception has ended within a block of metadata
  inpdata, \* the bytes received and not yet dealt with
  metad,
  looping, \* TRUE: within the loop over the blocks of a reception
  fed,     \* the bytes the last step handed to audio_stream_consumer
  taken    \* how many it has been handed in all

vars == <<stream, pos, cut, inpdata, metad, looping, fed, taken>>

Byte(kind, length) == [kind |-> kind, length |-> length]
Block(l) == [i \in 1..metaint |-> Byte("audio", 0)] \o <<Byte("length", l)>>
            \o [i \in 1..(l * UNIT) |-> Byte("metadata", 0)]

-----------------------------------------------------------------------------
IcyStarts(all) ==
  /\ \E lengths \in all :
       stream = FlattenSeq([b \in 1..BLOCKS |-> Block(lengths[b])])
  /\ pos = 0 /\ cut = FALSE
  /\ inpdata = <<>>
  /\ metad = metaint
  /\ looping = FALSE
  /\ fed = <<>> /\ taken = 0
Init == IcyStarts([1..BLOCKS -> Lengths])

(* audio_stream_consumer. *)
Feed(bytes) == fed' = bytes /\ taken' = taken + Len(bytes)

(* A block of metadata goes on after the first p bytes of the stream.      *)
CutsBlock(p) == p < Len(stream) /\ stream[p + 1].kind = "metadata"

Receive ==
  /\ ~looping
  /\ \E n \in 1..RECEIVE :
       /\ pos + n <= Len(stream)
       /\ pos' = pos + n
       /\ cut' = (cut \/ CutsBlock(pos + n))
       /\ IF n > metad
          THEN /\ inpdata' = SubSeq(stream, pos + 1, pos + n)
               /\ looping' = TRUE
               /\ UNCHANGED <<metad, fed, taken>>
          ELSE /\ metad' = metad - n
               /\ Feed(SubSeq(stream, pos + 1, pos + n))
               /\ UNCHANGED <<inpdata, looping>>
  /\ UNCHANGED stream

(* A byte that is not a length byte, but is taken for one, has any value.  *)
LengthAt(i) == IF inpdata[i].kind = "length" THEN {inpdata[i].length} ELSE Lengths

(* Mutant: the length byte is not skipped. *)
LoopBlockKeepsLength ==
  /\ looping
  /\ Len(inpdata) > metad
  /\ \E l \in LengthAt(metad + 1) :
       /\ Len(inpdata) >= metad + l * UNIT + 1
       /\ inpdata' = SubSeq(inpdata, metad + l * UNIT + 1, Len(inpdata))
  /\ Feed(SubSeq(inpdata, 1, metad))
  /\ metad' = metaint
  /\ UNCHANGED <<stream, pos, cut, looping>>

(* A round of the loop, of a block that is complete, ... *)
LoopBlock ==
  /\ looping
  /\ Len(inpdata) > metad
  /\ \E l \in LengthAt(metad + 1) :
       /\ Len(inpdata) >= metad + l * UNIT + 1
       /\ inpdata' = SubSeq(inpdata, metad + l * UNIT + 2, Len(inpdata))
  /\ Feed(SubSeq(inpdata, 1, metad))
  /\ metad' = metaint
  /\ UNCHANGED <<stream, pos, cut, looping>>

(* ... or goes on in the next reception.  What is left of it is computed   *)
(* into metad here, which the end of the loop overwrites.                  *)
LoopCut ==
  /\ looping
  /\ Len(inpdata) > metad
  /\ \E l \in LengthAt(metad + 1) :
       /\ Len(inpdata) < metad + l * UNIT + 1
       /\ metad' = metaint
  /\ Feed(SubSeq(inpdata, 1, metad))
  /\ inpdata' = <<>>
  /\ looping' = FALSE
  /\ UNCHANGED <<stream, pos, cut>>

(* Mutants: what the rest of the reception takes from the next block is    *)
(* added, or forgotten.                                                    *)
LoopEndAdds ==
  /\ looping
  /\ Len(inpdata) <= metad
  /\ metad' = metaint + Len(inpdata)
  /\ Feed(inpdata)
  /\ inpdata' = <<>>
  /\ looping' = FALSE
  /\ UNCHANGED <<stream, pos, cut>>

LoopEndForgets ==
  /\ looping
  /\ Len(inpdata) <= metad
  /\ metad' = metaint
  /\ Feed(inpdata)
  /\ inpdata' = <<>>
  /\ looping' = FALSE
  /\ UNCHANGED <<stream, pos, cut>>

LoopEnd ==
  /\ looping
  /\ Len(inpdata) <= metad
  /\ metad' = metaint - Len(inpdata)
  /\ Feed(inpdata)
  /\ inpdata' = <<>>
  /\ looping' = FALSE
  /\ UNCHANGED <<stream, pos, cut>>

Next == Receive \/ LoopBlock \/ LoopCut \/ LoopEnd

Spec == Init /\ [][Next]_vars

-----------------------------------------------------------------------------
(* Every variable stays in its domain: what is left of a reception never   *)
(* grows, and metad never exceeds metaint nor falls below 0.               *)
TypeOK ==
  /\ pos \in 0..Len(stream) /\ cut \in BOOLEAN
  /\ Len(inpdata) <= RECEIVE
  /\ metad \in 0..metaint
  /\ looping \in BOOLEAN
  /\ taken \in Nat

OnlyAudio(bytes) == \A i \in 1..Len(bytes) : bytes[i].kind = "audio"
AudioWithin(s, p) == Cardinality({i \in 1..p : s[i].kind = "audio"})

(* However the stream is cut into receptions, until one of them ends       *)
(* within a block of metadata: the decoder is fed with audio and nothing   *)
(* else, and between two receptions with all that has been received.       *)
AudioOnly ==
  ~cut => /\ OnlyAudio(fed)
          /\ ~looping => taken = AudioWithin(stream, pos)

(* The audio bytes that follow the first p bytes of the stream before the  *)
(* next length byte.                                                       *)
UntilNext(p) ==
  IF p = Len(stream) THEN metaint
  ELSE CHOOSE n \in 0..metaint :
         /\ stream[p + n + 1].kind = "length"
         /\ \A i \in 1..n : stream[p + i].kind = "audio"

(* metad is right between two receptions, until one cuts a block.          *)
MetadRight == ~cut /\ ~looping => metad = UntilNext(pos)

(* "metad = header.members.single.metaint - rest; // until next": metad is *)
(* right whenever the next byte is not one of a block of metadata, also    *)
(* when a block was received in two parts.                                 *)
MetadIsUntilNext ==
  ~looping /\ ~CutsBlock(pos) => metad = UntilNext(pos)
=============================================================================
