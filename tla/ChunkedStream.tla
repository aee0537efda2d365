----------------------------- MODULE ChunkedStream -----------------------------
(***************************************************************************)
(* The chunked transfer of clientReceiveCallback (webclient.c): the client *)
(* takes lengths and line ends out of what it receives, in place, and goes *)
(* on with the rest.  cchunk is what is still to come of a chunk and of    *)
(* the line end behind it.  When a chunk ends within a reception and other *)
(* bytes follow, the client receives more until ChunkLook bytes follow     *)
(* the chunk, so that the next length is there; it does so while it is in  *)
(* the callback, where no stop is looked for.                              *)
(*                                                                         *)
(* A byte is of a length, a line end, or data; one action is a reception,  *)
(* one more reception of the loop, or a round of the loop.                 *)
(***************************************************************************)
EXTENDS Integers, Sequences, SequencesExt

CONSTANTS
  ChunkSizes,   \* the sizes of chunks
  ChunkDigits,  \* the length of a size line without its end, of each size
  ChunkLook,    \* 9, which is to be long enough for any size line
  ChunkReceive, \* most bytes received at once
  ChunkBound    \* bound: chunks of a stream

ASSUME ChunkAssumption ==
  /\ ChunkSizes \subseteq Nat \ {0}
  /\ ChunkDigits \in [ChunkSizes \cup {0} -> Nat \ {0}]
  /\ \A s \in ChunkSizes \cup {0} : ChunkDigits[s] + 2 <= ChunkLook
  /\ ChunkLook \in Nat /\ ChunkReceive \in Nat \ {0} /\ ChunkBound \in Nat

VARIABLES
  sending,  \* what the server sends behind the first length
  come,     \* how much of it has been received
  chunk,    \* the callback: where it is, its pdata and inpdata, cchunk
  dechunked \* the data handed on so far

chunkVars == <<sending, come, chunk, dechunked>>

-----------------------------------------------------------------------------
ChunkByte(kind, value) == [kind |-> kind, value |-> value]
LineEnd == <<ChunkByte("cr", 0), ChunkByte("lf", 0)>>
SizeLine(s) == [i \in 1..ChunkDigits[s] |-> ChunkByte("size", s)] \o LineEnd
ChunkBytes(c, s) == SizeLine(s) \o [i \in 1..s |-> ChunkByte("data", <<c, i>>)] \o LineEnd

(* The client has parsed the header and the length of the first chunk.     *)
ChunkStarts(lists, lasts) ==
  /\ \E sizes \in lists, last \in lasts :
       LET all == FlattenSeq([c \in DOMAIN sizes |-> ChunkBytes(c, sizes[c])])
                  \o IF last THEN SizeLine(0) \o LineEnd ELSE <<>>
       IN /\ sending = SubSeq(all, ChunkDigits[sizes[1]] + 3, Len(all))
          /\ chunk = [at |-> "receive", done |-> <<>>, rest |-> <<>>,
                      cchunk |-> sizes[1] + 2, silent |-> FALSE]
  /\ come = 0 /\ dechunked = <<>>
ChunkLists == UNION {[1..n -> ChunkSizes] : n \in 1..ChunkBound}
ChunkInit == ChunkStarts(ChunkLists, BOOLEAN)

Arrived(n) == SubSeq(sending, come + 1, come + n)
Sent(n) == come' = come + n /\ come' <= Len(sending)
HandOn(bytes) == dechunked' = dechunked \o bytes
Without(bytes, n) == SubSeq(bytes, 1, Len(bytes) - n)

(* Mutant: a reception that ends between the two bytes of a line end. *)
ChunkReceivePartUnended ==
  /\ chunk.at = "receive"
  /\ \E n \in 1..ChunkReceive :
       /\ Sent(n)
       /\ chunk.cchunk # 0 /\ n <= chunk.cchunk
       /\ chunk' = [chunk EXCEPT !.cchunk = @ - n]
       /\ HandOn(Without(Arrived(n), CASE n = chunk.cchunk /\ n = 1 -> 1
                                       [] n = chunk.cchunk /\ n > 1 -> 2
                                       [] OTHER -> 0))
  /\ UNCHANGED sending

(* A reception within a chunk, or up to its end, or to one of the two      *)
(* bytes of the line end.                                                  *)
ChunkReceivePart ==
  /\ chunk.at = "receive"
  /\ \E n \in 1..ChunkReceive :
       /\ Sent(n)
       /\ chunk.cchunk # 0 /\ n <= chunk.cchunk
       /\ chunk' = [chunk EXCEPT !.cchunk = @ - n]
       /\ HandOn(Without(Arrived(n), CASE n = chunk.cchunk /\ n = 1 -> 1
                                       [] n = chunk.cchunk /\ n > 1 -> 2
                                       [] n = chunk.cchunk - 1 -> 1
                                       [] OTHER -> 0))
  /\ UNCHANGED sending

(* ... or past it: the loop begins. *)
ChunkReceivePast ==
  /\ chunk.at = "receive"
  /\ \E n \in 1..ChunkReceive :
       /\ Sent(n)
       /\ chunk.cchunk = 0 \/ n > chunk.cchunk
       /\ chunk' = [chunk EXCEPT !.at = "loop", !.done = <<>>, !.rest = Arrived(n)]
  /\ UNCHANGED <<sending, dechunked>>

(* The next length must be there. *)
Short == Len(chunk.rest) < chunk.cchunk + ChunkLook
ChunkMore ==
  /\ chunk.at = "loop" /\ Short
  /\ \E n \in 1..ChunkLook : Sent(n) /\ chunk' = [chunk EXCEPT !.rest = @ \o Arrived(n)]
  /\ UNCHANGED <<sending, dechunked>>

(* A connection that is silent is told to be closed, but only the wait is  *)
(* over: the round is made on what is there.  From a connection that the   *)
(* server has closed nothing is received, again and again: no step changes *)
(* anything.                                                               *)
ChunkSilent ==
  /\ chunk.at = "loop" /\ Short
  /\ chunk' = [chunk EXCEPT !.at = "short", !.silent = TRUE]
  /\ UNCHANGED <<sending, come, dechunked>>

(* A round: the length is read behind the chunk, and what is left of the   *)
(* chunk but its line end is joined with what follows.                     *)
SizeOf(line) == IF line[1].kind = "size" THEN line[1].value ELSE 0
LineAt(r) == CHOOSE i \in 1..Len(r) : r[i].kind = "cr" /\ \A j \in 1..(i - 1) : r[j].kind # "cr"
Behind(r, n) == SubSeq(r, n + 1, Len(r))
Line == Behind(chunk.rest, chunk.cchunk)
LineThere == \E i \in 1..(Len(Line) - 1) : Line[i].kind = "cr"

ChunkRound ==
  /\ (chunk.at = "loop" /\ ~Short) \/ (chunk.at = "short" /\ LineThere)
  /\ LET follows == Behind(Line, LineAt(Line) + 1)
         done    == chunk.done \o SubSeq(chunk.rest, 1, chunk.cchunk - 2)
         chunked == SizeOf(Line) + 2
         left    == chunked - Len(follows)
     IN IF left > 0
        THEN /\ chunk' = [chunk EXCEPT !.at = IF chunk.silent THEN "closed" ELSE "receive",
                                       !.done = <<>>, !.rest = <<>>, !.cchunk = left]
             /\ HandOn(Without(done \o follows, IF left = 1 THEN 1 ELSE 0))
        ELSE /\ chunk' = [chunk EXCEPT !.at = "loop", !.done = done, !.rest = follows,
                                       !.cchunk = chunked]
             /\ UNCHANGED dechunked
  /\ UNCHANGED <<sending, come>>

(* The next length has not come.  Where its line should be no line end is  *)
(* found: all that is held is handed on, line ends and all, and the client *)
(* connects again ("torn").  Or one is found in what an earlier reception  *)
(* has left there, or only half of it has come: lc, an uint32_t, underflows*)
(* and memcpy runs out of the memory ("crash").                            *)
ChunkTorn ==
  /\ chunk.at = "short" /\ ~LineThere
  /\ \/ /\ \A i \in 1..Len(Line) : Line[i].kind # "cr"
        /\ chunk' = [chunk EXCEPT !.at = "torn"]
        /\ HandOn(chunk.done \o chunk.rest)
     \/ chunk' = [chunk EXCEPT !.at = "crash"] /\ UNCHANGED dechunked
  /\ UNCHANGED <<sending, come>>

ChunkNext ==
  ChunkReceivePart \/ ChunkReceivePast \/ ChunkMore \/ ChunkSilent \/ ChunkRound
  \/ ChunkTorn
ChunkSpec == ChunkInit /\ [][ChunkNext]_chunkVars

-----------------------------------------------------------------------------
(* Every variable stays in its domain. *)
ChunkTypeOK ==
  /\ chunk.at \in {"receive", "loop", "short", "closed", "torn", "crash"}
  /\ chunk.silent \in BOOLEAN
  /\ chunk.cchunk \in Nat /\ come \in 0..Len(sending)

(* Wherever the stream is cut: all data that has been received, and no     *)
(* byte of a length or a line end, is handed on, once and in order; after  *)
(* a silence too, as long as it did not fall into the line of a length or  *)
(* the place for one ("torn" and "crash").                                 *)
IsData(i) == sending[i].kind = "data"
DataWithin(p) == Cardinality({i \in 1..p : IsData(i)})
ChunkData ==
  chunk.at \in {"receive", "closed"} =>
    /\ Len(dechunked) = DataWithin(come)
    /\ \A i \in 1..come : IsData(i) => dechunked[DataWithin(i)] = sending[i]
=============================================================================
