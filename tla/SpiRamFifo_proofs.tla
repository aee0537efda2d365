-------------------------- MODULE SpiRamFifo_proofs --------------------------
(***************************************************************************)
(* Proofs about the song buffer, for every chunk size, every ring size and *)
(* every bound: its invariants, and that it implements the queue of        *)
(* ByteQueue.                                                              *)
(***************************************************************************)
EXTENDS SpiRamFifo, SequenceTheorems, TLAPS

(* How far the writer's call and the last flush are from each other.       *)
WriterInv ==
  /\ wepoch <= fifoEpoch
  /\ (wleft > 0 /\ wepoch = fifoEpoch) => wnext + wleft = handed
  /\ flushed + fifoFill <= NextIn

(* The ring holds the fifoFill bytes that precede NextIn in the written    *)
(* sequence, oldest at fifoRpos.                                           *)
ContentInv ==
  \A i \in 0..(fifoFill - 1) :
     fakespiram[Advance(fifoRpos, i)] + fifoFill = NextIn + i

(* The inductive invariant: CursorsAgree and NoPartialPacket alone are not *)
(* inductive, since what a flush leaves behind depends on where the writer *)
(* stands in its packet and on which epoch it sampled.                     *)
IInv == TypeOK /\ CursorsAgree /\ WriterInv /\ ContentInv

-----------------------------------------------------------------------------
LEMMA SizeType == TypeOK => SPIRAMSIZE \in Nat \ {0}
  BY FifoAssumption DEF TypeOK

(* A chunk of a pending call is at least one byte and ends inside the ring.*)
LEMMA ChunkBounds ==
  ASSUME TypeOK, NEW left \in Nat, left > 0, NEW pos \in 0..(SPIRAMSIZE - 1)
  PROVE  /\ Chunk(left, pos) \in Nat \ {0}
         /\ Chunk(left, pos) <= left
         /\ pos + Chunk(left, pos) <= SPIRAMSIZE
  BY FifoAssumption, SizeType DEF Chunk, SmallerOf

(* Moving a position by at most the ring's size stays inside the ring.     *)
LEMMA AdvanceType ==
  ASSUME TypeOK, NEW pos \in 0..(SPIRAMSIZE - 1), NEW n \in 0..SPIRAMSIZE
  PROVE  Advance(pos, n) \in 0..(SPIRAMSIZE - 1)
  BY SizeType DEF Advance

(* A step that leaves the ring alone and does not change which byte enters *)
(* next keeps the content.                                                 *)
LEMMA SameRing ==
  ASSUME IInv, UNCHANGED fifo, UNCHANGED flushed, NextIn' = NextIn
  PROVE  /\ CursorsAgree' /\ ContentInv'
         /\ flushed' + fifoFill' <= NextIn'
  BY DEF IInv, CursorsAgree, WriterInv, ContentInv, Advance, fifo

(* The empty ring, of any size, satisfies what is said of its bytes.       *)
LEMMA EmptyRing ==
  ASSUME NEW size \in Nat \ {0}, SPIRAMSIZE' = size, Emptied(size)
  PROVE  CursorsAgree' /\ ContentInv'
  BY DEF Emptied, CursorsAgree, ContentInv, Advance

(* The spiRamFifoInit state satisfies the invariant.                       *)
LEMMA InitInv == Init => IInv
<1> SUFFICES ASSUME Init PROVE IInv
  OBVIOUS
<1>1. TypeOK
  BY FifoAssumption DEF Init, TypeOK
<1>2. CursorsAgree /\ WriterInv /\ ContentInv
  BY <1>1, SizeType
  DEF Init, CursorsAgree, WriterInv, ContentInv, NextIn, Advance
<1> QED BY <1>1, <1>2 DEF IInv

LEMMA WriteCallInv ==
  ASSUME IInv, NEW n \in 1..MaxLen, WriteCall(n)
  PROVE  IInv'
<1> USE DEF WriteCall
<1>1. TypeOK'
  BY FifoAssumption DEF IInv, TypeOK, fifo
<1>2. NextIn' = NextIn
  BY DEF NextIn, fifo, IInv, TypeOK
<1>3. CursorsAgree' /\ ContentInv' /\ flushed' + fifoFill' <= NextIn'
  BY <1>2, SameRing
<1>4. WriterInv'
  BY <1>3, FifoAssumption DEF IInv, TypeOK, WriterInv, fifo
<1> QED BY <1>1, <1>3, <1>4 DEF IInv

(* A copied chunk: it lies between fifoWpos and the end of the ring, in    *)
(* slots the unread bytes do not occupy.                                   *)
LEMMA WriteChunkInv ==
  ASSUME IInv, WriteChunk
  PROVE  IInv'
<1> DEFINE n == Chunk(wleft, fifoWpos)
<1>a. TypeOK /\ SPIRAMSIZE \in Nat \ {0}
  BY SizeType DEF IInv
<1>1. n \in Nat \ {0} /\ n <= wleft /\ fifoWpos + n <= SPIRAMSIZE
  BY <1>a, ChunkBounds DEF TypeOK, WriteChunk
<1>2. n <= SPIRAMSIZE - fifoFill
  BY DEF WriteChunk, CanWrite
<1>3. /\ fakespiram' = [s \in 0..(SPIRAMSIZE - 1) |->
                          IF s \in fifoWpos..(fifoWpos + n - 1)
                          THEN wnext + (s - fifoWpos) ELSE fakespiram[s]]
      /\ wnext' = wnext + n /\ wleft' = wleft - n
      /\ fifoFill' = fifoFill + n
      /\ fifoWpos' = Advance(fifoWpos, n)
  BY <1>a DEF WriteChunk, TypeOK
<1>4. /\ UNCHANGED <<SPIRAMSIZE, fifoRpos, fifoEpoch, handed, flushed, wepoch, rleft, out>>
      /\ wleft > 0 /\ wepoch = fifoEpoch
  BY DEF WriteChunk
<1> HIDE DEF n
<1>5. TypeOK'
  <2>1. fifoWpos' \in 0..(SPIRAMSIZE - 1)
    <3>1. n \in 0..SPIRAMSIZE
      BY <1>a, <1>1 DEF TypeOK
    <3> QED BY <1>a, <1>3, <3>1, AdvanceType DEF TypeOK
  <2>2. fakespiram' \in [0..(SPIRAMSIZE - 1) -> Nat]
    <3>1. ASSUME NEW s \in fifoWpos..(fifoWpos + n - 1)
          PROVE  wnext + (s - fifoWpos) \in Nat
      BY <1>a, <1>1 DEF TypeOK
    <3>2. ASSUME NEW s \in 0..(SPIRAMSIZE - 1) PROVE fakespiram[s] \in Nat
      BY <1>a DEF TypeOK
    <3> QED BY <1>3, <3>1, <3>2
  <2> QED BY <1>a, <1>1, <1>3, <1>4, <2>1, <2>2 DEF TypeOK
<1>6. CursorsAgree'
  BY <1>a, <1>1, <1>2, <1>3, <1>4 DEF IInv, TypeOK, CursorsAgree, Advance
<1>7. NextIn = wnext /\ wnext + wleft = handed
  BY <1>4 DEF IInv, WriterInv, NextIn
<1>8. NextIn' = wnext + n
  BY <1>a, <1>1, <1>3, <1>4, <1>7 DEF TypeOK, NextIn
<1>9. WriterInv'
  BY <1>a, <1>1, <1>3, <1>4, <1>7, <1>8 DEF IInv, TypeOK, WriterInv
<1>10. ContentInv'
  <2> SUFFICES ASSUME NEW i \in 0..(fifoFill' - 1)
               PROVE  fakespiram'[Advance(fifoRpos, i)'] + fifoFill' = NextIn' + i
    BY DEF ContentInv
  <2>a. i \in 0..((fifoFill + n) - 1)
    BY <1>3
  <2> DEFINE s == Advance(fifoRpos, i)
  <2>1. s \in 0..(SPIRAMSIZE - 1)
    <3>1. i \in 0..SPIRAMSIZE
      BY <1>a, <1>1, <1>2, <2>a DEF TypeOK
    <3> QED BY <1>a, <3>1, AdvanceType DEF TypeOK
  <2>2. ASSUME i < fifoFill
        PROVE  fakespiram'[s] + (fifoFill + n) = (wnext + n) + i
    <3>1. s \notin fifoWpos..(fifoWpos + n - 1)
      BY <1>a, <1>1, <1>2, <2>a, <2>2 DEF IInv, TypeOK, CursorsAgree, Advance
    <3>2. fakespiram'[s] = fakespiram[s]
      BY <1>3, <2>1, <3>1
    <3>3. fakespiram[s] + fifoFill = wnext + i
      BY <1>7, <2>a, <2>2, <1>a DEF IInv, TypeOK, ContentInv
    <3>4. fakespiram[s] \in Nat
      BY <1>a, <2>1 DEF TypeOK
    <3> DEFINE b == fakespiram[s]
    <3>5. b \in Nat /\ b + fifoFill = wnext + i
      BY <3>3, <3>4
    <3> HIDE DEF b
    <3>6. b + (fifoFill + n) = (wnext + n) + i
      BY <1>a, <1>1, <2>a, <3>5 DEF TypeOK
    <3> QED BY <3>2, <3>6 DEF b
  <2>3. ASSUME i >= fifoFill
        PROVE  fakespiram'[s] + (fifoFill + n) = (wnext + n) + i
    <3>1. s = fifoWpos + (i - fifoFill)
      BY <1>a, <1>1, <1>2, <2>a, <2>3 DEF IInv, TypeOK, CursorsAgree, Advance
    <3>2. s \in fifoWpos..(fifoWpos + n - 1)
      BY <1>a, <1>1, <2>a, <2>3, <3>1 DEF TypeOK
    <3>3. fakespiram'[s] = wnext + (s - fifoWpos)
      BY <1>3, <2>1, <3>2
    <3> DEFINE b == fakespiram'[s]
    <3>4. b = wnext + (i - fifoFill)
      BY <1>a, <2>a, <3>1, <3>3 DEF TypeOK
    <3> HIDE DEF b
    <3>5. b + (fifoFill + n) = (wnext + n) + i
      BY <1>a, <1>1, <2>a, <2>3, <3>4 DEF TypeOK
    <3> QED BY <3>5 DEF b
  <2>4. fakespiram'[s] + (fifoFill + n) = (wnext + n) + i
    BY <1>a, <2>a, <2>2, <2>3 DEF TypeOK
  <2>5. Advance(fifoRpos, i)' = s
    BY <1>4 DEF Advance
  <2> HIDE DEF s
  <2> QED BY <1>3, <1>8, <2>4, <2>5
<1> QED BY <1>5, <1>6, <1>9, <1>10 DEF IInv

LEMMA WriteDropInv ==
  ASSUME IInv, WriteDrop
  PROVE  IInv'
<1> USE DEF WriteDrop
<1>1. TypeOK'
  BY DEF IInv, TypeOK, fifo
<1>2. NextIn' = NextIn
  BY DEF NextIn, fifo
<1>3. CursorsAgree' /\ ContentInv' /\ flushed' + fifoFill' <= NextIn'
  BY <1>2, SameRing
<1>4. WriterInv'
  BY <1>3 DEF IInv, TypeOK, WriterInv, fifo
<1> QED BY <1>1, <1>3, <1>4 DEF IInv

LEMMA ReadCallInv ==
  ASSUME IInv, NEW n \in 1..MaxLen, ReadCall(n)
  PROVE  IInv'
<1> USE DEF ReadCall
<1>1. TypeOK'
  BY FifoAssumption DEF IInv, TypeOK, fifo, call
<1>2. NextIn' = NextIn
  BY DEF NextIn, fifo, call
<1>3. CursorsAgree' /\ ContentInv' /\ flushed' + fifoFill' <= NextIn'
  BY <1>2, SameRing
<1>4. WriterInv'
  BY <1>3 DEF IInv, TypeOK, WriterInv, fifo, call
<1> QED BY <1>1, <1>3, <1>4 DEF IInv

(* Taking n bytes that are there, whether the run wraps or not.            *)
LEMMA TakeInv ==
  ASSUME IInv, NEW n \in Nat \ {0}, n <= fifoFill, Take(n), rleft' \in Nat
  PROVE  IInv'
<1>a. TypeOK /\ SPIRAMSIZE \in Nat \ {0} /\ fifoFill <= SPIRAMSIZE
  BY SizeType DEF IInv, CursorsAgree
<1>1. n \in 0..SPIRAMSIZE
  BY <1>a DEF TypeOK
<1>2. /\ out' = [i \in 1..n |-> fakespiram[Advance(fifoRpos, i - 1)]]
      /\ fifoFill' = fifoFill - n
      /\ fifoRpos' = Advance(fifoRpos, n)
      /\ UNCHANGED <<SPIRAMSIZE, fakespiram, fifoWpos, fifoEpoch, handed, flushed>>
      /\ UNCHANGED <<wnext, wleft, wepoch>>
  BY DEF Take, call
<1>3. out' \in Seq(Nat)
  <2>1. ASSUME NEW i \in 1..n PROVE fakespiram[Advance(fifoRpos, i - 1)] \in Nat
    <3>1. i - 1 \in 0..SPIRAMSIZE
      BY <1>a, <1>1
    <3>2. Advance(fifoRpos, i - 1) \in 0..(SPIRAMSIZE - 1)
      BY <1>a, <3>1, AdvanceType DEF TypeOK
    <3> QED BY <1>a, <3>2 DEF TypeOK
  <2>2. out' \in [1..n -> Nat]
    BY <1>2, <2>1
  <2> QED BY <2>2
<1>4. fifoRpos' \in 0..(SPIRAMSIZE - 1)
  BY <1>a, <1>1, <1>2, AdvanceType DEF TypeOK
<1>5. TypeOK'
  BY <1>a, <1>1, <1>2, <1>3, <1>4 DEF TypeOK
<1>6. CursorsAgree'
  BY <1>a, <1>1, <1>2 DEF IInv, TypeOK, CursorsAgree, Advance
<1>7. NextIn' = NextIn /\ NextIn \in Nat
  BY <1>a, <1>2 DEF NextIn, TypeOK
<1>8. WriterInv'
  BY <1>a, <1>1, <1>2, <1>7 DEF IInv, TypeOK, WriterInv
<1>9. ContentInv'
  <2> SUFFICES ASSUME NEW i \in 0..((fifoFill - n) - 1)
               PROVE  fakespiram[Advance(Advance(fifoRpos, n), i)]
                        + (fifoFill - n) = NextIn + i
    BY <1>2, <1>7 DEF ContentInv, Advance
  <2>1. n + i \in 0..(fifoFill - 1) /\ n + i \in 0..SPIRAMSIZE
    BY <1>a, <1>1 DEF TypeOK
  <2>2. Advance(Advance(fifoRpos, n), i) = Advance(fifoRpos, n + i)
    BY <1>a, <1>1, <2>1 DEF TypeOK, Advance
  <2>3. fakespiram[Advance(fifoRpos, n + i)] + fifoFill = NextIn + (n + i)
    BY <2>1 DEF IInv, ContentInv
  <2>4. Advance(fifoRpos, n + i) \in 0..(SPIRAMSIZE - 1)
    BY <1>a, <2>1, AdvanceType DEF TypeOK
  <2>5. fakespiram[Advance(fifoRpos, n + i)] \in Nat
    BY <1>a, <2>4 DEF TypeOK
  <2> DEFINE b == fakespiram[Advance(fifoRpos, n + i)]
  <2>6. b \in Nat /\ b + fifoFill = NextIn + (n + i)
    BY <2>3, <2>5
  <2> HIDE DEF b
  <2>7. b + (fifoFill - n) = NextIn + i
    BY <1>a, <1>7, <2>6 DEF TypeOK
  <2> QED BY <2>2, <2>7 DEF b
<1> QED BY <1>5, <1>6, <1>8, <1>9 DEF IInv

(* Emptying the ring, at its size or at another one, forgets the writer's  *)
(* packet as well.                                                         *)
LEMMA ResetInv ==
  ASSUME IInv, Reset
  PROVE  IInv'
<1>a. TypeOK /\ SPIRAMSIZE \in Nat \ {0}
  BY SizeType DEF IInv
<1>1. /\ SPIRAMSIZE' = SPIRAMSIZE /\ fifoEpoch' = fifoEpoch + 1
      /\ Emptied(SPIRAMSIZE)
      /\ UNCHANGED <<handed, wnext, wleft, wepoch, rleft, out>>
  BY DEF Reset, call
<1>2. TypeOK'
  BY <1>a, <1>1 DEF TypeOK, Emptied
<1>3. CursorsAgree' /\ ContentInv'
  BY <1>a, <1>1, EmptyRing
<1>4. NextIn' = handed
  BY <1>a, <1>1 DEF IInv, WriterInv, TypeOK, NextIn
<1>5. WriterInv'
  BY <1>a, <1>1, <1>4 DEF IInv, WriterInv, TypeOK, Emptied
<1> QED BY <1>2, <1>3, <1>5 DEF IInv

LEMMA ReinitInv ==
  ASSUME IInv, NEW size \in Sizes, Reinit(size)
  PROVE  IInv'
<1>a. TypeOK /\ size \in Nat \ {0}
  BY FifoAssumption DEF IInv
<1>1. /\ SPIRAMSIZE' = size /\ wleft = 0 /\ Emptied(size)
      /\ UNCHANGED <<fifoEpoch, handed, wnext, wleft, wepoch, rleft, out>>
  BY DEF Reinit, call
<1>2. TypeOK'
  BY <1>a, <1>1 DEF TypeOK, Emptied
<1>3. CursorsAgree' /\ ContentInv'
  BY <1>a, <1>1, EmptyRing
<1>4. WriterInv'
  BY <1>a, <1>1 DEF IInv, WriterInv, TypeOK, Emptied, NextIn
<1> QED BY <1>2, <1>3, <1>4 DEF IInv

LEMMA NextInv == IInv /\ [Next]_vars => IInv'
<1> SUFFICES ASSUME IInv, [Next]_vars PROVE IInv'
  OBVIOUS
<1>1. ASSUME NEW n \in 1..MaxLen, WriteCall(n) PROVE IInv'
  BY <1>1, WriteCallInv
<1>2. CASE WriteChunk
  BY <1>2, WriteChunkInv
<1>3. CASE WriteDrop
  BY <1>3, WriteDropInv
<1>4. ASSUME NEW n \in 1..MaxLen, ReadCall(n) PROVE IInv'
  BY <1>4, ReadCallInv
<1>5. ASSUME NEW n \in 1..MaxLen, TryRead(n) PROVE IInv'
  <2>1. n \in Nat \ {0}
    BY FifoAssumption
  <2> QED BY <1>5, <2>1, TakeInv DEF TryRead, IInv, TypeOK
<1>6. CASE ReadChunk
  <2> DEFINE n == Chunk(rleft, fifoRpos)
  <2>1. n \in Nat \ {0} /\ n <= rleft
    BY <1>6, ChunkBounds DEF ReadChunk, IInv, TypeOK
  <2>2. Take(n) /\ n <= fifoFill /\ rleft' = rleft - n
    BY <1>6 DEF ReadChunk, CanRead
  <2> HIDE DEF n
  <2>3. rleft' \in Nat
    BY <2>1, <2>2 DEF IInv, TypeOK
  <2> QED BY <2>1, <2>2, <2>3, TakeInv
<1>7. CASE Reset
  BY <1>7, ResetInv
<1>8. ASSUME NEW size \in Sizes, Reinit(size) PROVE IInv'
  BY <1>8, ReinitInv
<1>9. CASE UNCHANGED vars
  <2> USE <1>9 DEF vars, fifo, call
  <2>1. NextIn' = NextIn
    BY DEF NextIn
  <2>2. CursorsAgree' /\ ContentInv'
    BY <2>1, SameRing
  <2>3. TypeOK' /\ WriterInv'
    BY <2>1 DEF IInv, TypeOK, WriterInv
  <2> QED BY <2>2, <2>3 DEF IInv
<1> QED BY <1>1, <1>2, <1>3, <1>4, <1>5, <1>6, <1>7, <1>8, <1>9
        DEF Next, Writer, Reader

LEMMA Invariance == Spec => []IInv
  BY InitInv, NextInv, PTL DEF Spec

-----------------------------------------------------------------------------
(* The variables of the fifo keep their types: every position indexes the  *)
(* ring, so that no memcpy leaves it.                                      *)
THEOREM TypeCorrect == Spec => []TypeOK
<1>1. IInv => TypeOK
  BY DEF IInv
<1> QED BY <1>1, Invariance, PTL

(* fifoFill is always the distance between the two positions.              *)
THEOREM CursorsAlwaysAgree == Spec => []CursorsAgree
<1>1. IInv => CursorsAgree
  BY DEF IInv
<1> QED BY <1>1, Invariance, PTL

(* After a flush, no byte of a packet that was being written survives.     *)
THEOREM NoPartialPacketSurvives == Spec => []NoPartialPacket
<1>1. IInv => NoPartialPacket
  <2> SUFFICES ASSUME IInv, NEW i \in 0..(fifoFill - 1)
               PROVE  fakespiram[Advance(fifoRpos, i)] >= flushed
    BY DEF NoPartialPacket
  <2> DEFINE b == fakespiram[Advance(fifoRpos, i)]
  <2>a. TypeOK /\ i \in 0..SPIRAMSIZE
    BY SizeType DEF IInv, TypeOK, CursorsAgree
  <2>1. Advance(fifoRpos, i) \in 0..(SPIRAMSIZE - 1)
    BY <2>a, AdvanceType DEF TypeOK
  <2>2. b \in Nat
    BY <2>a, <2>1 DEF TypeOK
  <2>3. b + fifoFill = NextIn + i
    BY DEF IInv, ContentInv
  <2> HIDE DEF b
  <2>4. b >= flushed
    BY <2>a, <2>2, <2>3 DEF IInv, TypeOK, WriterInv, NextIn
  <2> QED BY <2>4 DEF b
<1> QED BY <1>1, Invariance, PTL

(* Reader and writer never wait for each other, for any ring size: a       *)
(* reader cut at the end of the ring that finds too little there leaves    *)
(* the unread bytes unwrapped, and then the writer, cut at the same end,   *)
(* always fits.                                                            *)
THEOREM NeverMutualWait == Spec => []NoMutualWait
<1>1. IInv => NoMutualWait
  <2> SUFFICES ASSUME IInv, wleft > 0, rleft > 0, ~CanRead PROVE CanWrite
    BY DEF NoMutualWait
  <2>a. TypeOK /\ SPIRAMSIZE \in Nat \ {0}
    BY SizeType DEF IInv
  <2>1. fifoFill < SPIRAMSIZE - fifoRpos
    BY <2>a, FifoAssumption DEF TypeOK, CanRead, Chunk, SmallerOf
  <2>2. fifoWpos = fifoRpos + fifoFill
    BY <2>a, <2>1 DEF IInv, TypeOK, CursorsAgree, Advance
  <2>3. Chunk(wleft, fifoWpos) \in Nat /\ fifoWpos + Chunk(wleft, fifoWpos) <= SPIRAMSIZE
    BY <2>a, ChunkBounds DEF TypeOK
  <2> QED BY <2>a, <2>2, <2>3 DEF TypeOK, CanWrite
<1> QED BY <1>1, Invariance, PTL

-----------------------------------------------------------------------------
(* The song buffer implements the queue of ByteQueue.                      *)
(* The queue that the ring holds: what INSTANCE ByteQueue puts for q.      *)
Ring == [i \in 1..fifoFill |-> fakespiram[Advance(fifoRpos, i - 1)]]

(* A sequence of bytes that ends just before the place `next'.             *)
EndsAt(s, next) ==
  /\ s \in Seq(Nat)
  /\ \A i \in 1..Len(s) : s[i] + Len(s) = next + (i - 1)

(* The ring holds the bytes just before the next one to enter.             *)
LEMMA RingEndsAtNext == IInv => EndsAt(Ring, NextIn) /\ Len(Ring) = fifoFill
<1> SUFFICES ASSUME IInv PROVE EndsAt(Ring, NextIn) /\ Len(Ring) = fifoFill
  OBVIOUS
<1>a. TypeOK /\ fifoFill \in Nat /\ fifoFill <= SPIRAMSIZE /\ SPIRAMSIZE \in Nat \ {0}
  BY SizeType DEF IInv, TypeOK, CursorsAgree
<1>1. ASSUME NEW i \in 1..fifoFill
      PROVE  /\ fakespiram[Advance(fifoRpos, i - 1)] \in Nat
             /\ fakespiram[Advance(fifoRpos, i - 1)] + fifoFill = NextIn + (i - 1)
  <2>1. i - 1 \in 0..(fifoFill - 1) /\ i - 1 \in 0..SPIRAMSIZE
    BY <1>a
  <2>2. Advance(fifoRpos, i - 1) \in 0..(SPIRAMSIZE - 1)
    BY <1>a, <2>1, AdvanceType DEF TypeOK
  <2>3. fakespiram[Advance(fifoRpos, i - 1)] \in Nat
    BY <1>a, <2>2 DEF TypeOK
  <2>4. fakespiram[Advance(fifoRpos, i - 1)] + fifoFill = NextIn + (i - 1)
    BY <2>1 DEF IInv, ContentInv
  <2> QED BY <2>3, <2>4
<1>2. Ring \in [1..fifoFill -> Nat]
  BY <1>1 DEF Ring
<1>3. Ring \in Seq(Nat) /\ Len(Ring) = fifoFill
  BY <1>a, <1>2
<1> QED BY <1>1, <1>3 DEF EndsAt, Ring

LEMMA RingEndsAtNextPrime == IInv' => (EndsAt(Ring, NextIn) /\ Len(Ring) = fifoFill)'
BY RingEndsAtNext, PTL

(* Two such sequences with the same end and the same length are equal.     *)
LEMMA SameEnd ==
  ASSUME NEW next \in Nat, NEW s, NEW t, EndsAt(s, next), EndsAt(t, next), Len(s) = Len(t)
  PROVE  s = t
<1>1. s \in Seq(Nat) /\ t \in Seq(Nat) /\ Len(s) \in Nat
  BY DEF EndsAt
<1>2. ASSUME NEW i \in 1..Len(s) PROVE s[i] = t[i]
  <2>1. s[i] \in Nat /\ t[i] \in Nat
    BY <1>1
  <2>2. s[i] + Len(s) = next + (i - 1) /\ t[i] + Len(s) = next + (i - 1)
    BY DEF EndsAt
  <2> DEFINE a == s[i]
  <2> DEFINE b == t[i]
  <2>3. a \in Nat /\ b \in Nat /\ a + Len(s) = b + Len(s)
    BY <2>1, <2>2
  <2> HIDE DEF a, b
  <2>4. a = b
    BY <1>1, <2>3
  <2> QED BY <2>4 DEF a, b
<1> QED BY <1>1, <1>2, SeqEqual

(* Appending the run that starts at `next'.                                *)
LEMMA RunAppended ==
  ASSUME NEW next \in Nat, NEW n \in Nat, NEW s, EndsAt(s, next)
  PROVE  /\ EndsAt(s \o Queue!Run(next, n), next + n)
         /\ Len(s \o Queue!Run(next, n)) = Len(s) + n
<1> DEFINE r == Queue!Run(next, n)
<1> DEFINE c == s \o r
<1>1. s \in Seq(Nat) /\ Len(s) \in Nat
  BY DEF EndsAt
<1>2. r \in [1..n -> Nat] /\ \A j \in 1..n : r[j] = next + (j - 1)
  BY DEF Queue!Run
<1>3. r \in Seq(Nat) /\ Len(r) = n
  BY <1>2
<1> HIDE DEF r
<1>4. /\ c \in Seq(Nat) /\ Len(c) = Len(s) + n
      /\ \A i \in 1..(Len(s) + n) : c[i] = IF i <= Len(s) THEN s[i] ELSE r[i - Len(s)]
  BY <1>1, <1>3, ConcatProperties
<1> HIDE DEF c
<1>5. ASSUME NEW i \in 1..(Len(s) + n)
      PROVE  c[i] + (Len(s) + n) = (next + n) + (i - 1)
  <2>1. CASE i <= Len(s)
    <3>a. i \in 1..Len(s)
      BY <1>1, <2>1
    <3>b. s[i] \in Nat
      BY <1>1, <3>a
    <3>c. s[i] + Len(s) = next + (i - 1)
      BY <3>a DEF EndsAt
    <3>1. s[i] \in Nat /\ s[i] + Len(s) = next + (i - 1) /\ c[i] = s[i]
      BY <1>4, <2>1, <3>b, <3>c
    <3> DEFINE a == s[i]
    <3>2. a \in Nat /\ a + Len(s) = next + (i - 1)
      BY <3>1
    <3> HIDE DEF a
    <3>3. a + (Len(s) + n) = (next + n) + (i - 1)
      <4>1. Len(s) \in Nat
        BY <1>1
      <4>2. a + (Len(s) + n) = (a + Len(s)) + n
        BY <3>2, <4>1
      <4> QED BY <3>2, <4>2
    <3> QED BY <3>1, <3>3 DEF a
  <2>2. CASE i > Len(s)
    <3>1. i - Len(s) \in 1..n /\ c[i] = r[i - Len(s)]
      BY <1>1, <1>4, <2>2
    <3>2. c[i] = next + ((i - Len(s)) - 1)
      BY <1>2, <3>1
    <3> QED BY <1>1, <3>2
  <2> QED BY <1>1, <2>1, <2>2
<1> QED BY <1>4, <1>5 DEF EndsAt, c, r

(* Taking the first n bytes leaves a sequence with the same end.           *)
LEMMA RunTaken ==
  ASSUME NEW next \in Nat, NEW s, EndsAt(s, next), NEW n \in 1..Len(s)
  PROVE  /\ EndsAt(SubSeq(s, n + 1, Len(s)), next)
         /\ Len(SubSeq(s, n + 1, Len(s))) = Len(s) - n
         /\ SubSeq(s, 1, n) = [i \in 1..n |-> s[i]]
<1> DEFINE t == SubSeq(s, n + 1, Len(s))
<1>1. s \in Seq(Nat) /\ Len(s) \in Nat
  BY DEF EndsAt
<1>2. \A i \in 1..Len(s) : s[i] \in Nat
  BY <1>1
<1>3. t \in Seq(Nat) /\ Len(t) = Len(s) - n /\ \A i \in 1..(Len(s) - n) : t[i] = s[n + i]
  <2>1. t \in Seq(Nat)
    BY <1>1
  <2>2. Len(t) = Len(s) - n
    BY <1>1
  <2>3. ASSUME NEW i \in 1..(Len(s) - n) PROVE t[i] = s[n + i]
    BY <1>1
  <2> QED BY <2>1, <2>2, <2>3
<1> HIDE DEF t
<1>4. ASSUME NEW i \in 1..(Len(s) - n) PROVE t[i] + (Len(s) - n) = next + (i - 1)
  <2>1. n + i \in 1..Len(s)
    BY <1>1
  <2>2. s[n + i] \in Nat /\ s[n + i] + Len(s) = next + ((n + i) - 1) /\ t[i] = s[n + i]
    BY <1>2, <1>3, <2>1 DEF EndsAt
  <2> DEFINE a == s[n + i]
  <2>3. a \in Nat /\ a + Len(s) = next + ((n + i) - 1)
    BY <2>2
  <2> HIDE DEF a
  <2>4. a + (Len(s) - n) = next + (i - 1)
    BY <1>1, <2>3
  <2> QED BY <2>2, <2>4 DEF a
<1>5. EndsAt(t, next)
  BY <1>3, <1>4 DEF EndsAt
<1>6. SubSeq(s, 1, n) = [i \in 1..n |-> s[i]]
  <2> DEFINE u == SubSeq(s, 1, n)
  <2>1. u \in Seq(Nat) /\ Len(u) = n /\ \A i \in 1..n : u[i] = s[i]
    BY <1>1
  <2> QED BY <2>1
<1> QED BY <1>3, <1>5, <1>6 DEF t

-----------------------------------------------------------------------------
(* What one step does to the place of the next byte and to the ring.       *)
LEMMA NextInType == IInv => NextIn \in Nat /\ NextIn <= handed
<1> SUFFICES ASSUME IInv PROVE NextIn \in Nat /\ NextIn <= handed
  OBVIOUS
<1> QED BY DEF IInv, TypeOK, WriterInv, NextIn

LEMMA SameQueue ==
  ASSUME IInv, UNCHANGED fifo, UNCHANGED out, NextIn' = NextIn
  PROVE  UNCHANGED Queue!qvars
BY DEF Queue!qvars, fifo, Advance

LEMMA PutStep == IInv /\ IInv' /\ WriteChunk => Queue!Put
<1> SUFFICES ASSUME IInv, IInv', WriteChunk PROVE Queue!Put
  OBVIOUS
<1> DEFINE n == Chunk(wleft, fifoWpos)
<1>a. TypeOK /\ SPIRAMSIZE \in Nat \ {0} /\ fifoFill \in Nat
  BY SizeType DEF IInv, TypeOK
<1>1. n \in Nat \ {0} /\ n <= wleft
  BY <1>a, ChunkBounds DEF TypeOK, WriteChunk
<1>2. /\ n <= SPIRAMSIZE - fifoFill
      /\ wleft > 0 /\ wepoch = fifoEpoch
      /\ wnext' = wnext + n /\ wleft' = wleft - n /\ fifoFill' = fifoFill + n
      /\ UNCHANGED <<SPIRAMSIZE, handed, wepoch, fifoEpoch, out>>
  BY DEF WriteChunk, CanWrite
<1> HIDE DEF n
<1>3. NextIn' = NextIn + n
  BY <1>a, <1>1, <1>2 DEF IInv, TypeOK, WriterInv, NextIn
<1>4. Len(Ring) = fifoFill /\ EndsAt(Ring, NextIn)
  BY RingEndsAtNext
<1>5. Len(Ring') = fifoFill + n /\ EndsAt(Ring', NextIn + n)
  BY <1>2, <1>3, RingEndsAtNextPrime
<1>6. Ring' = Ring \o Queue!Run(NextIn, n)
  <2>1. NextIn \in Nat /\ NextIn + n \in Nat
    BY <1>1, NextInType
  <2> DEFINE c == Ring \o Queue!Run(NextIn, n)
  <2>2. EndsAt(c, NextIn + n) /\ Len(c) = fifoFill + n
    BY <1>1, <1>4, <2>1, RunAppended
  <2> HIDE DEF c
  <2>3. Ring' = c
    BY <1>5, <2>1, <2>2, SameEnd
  <2> QED BY <2>3 DEF c
<1>7. n \in 1..(SPIRAMSIZE - Len(Ring))
  BY <1>a, <1>1, <1>2, <1>4
<1> QED BY <1>2, <1>3, <1>6, <1>7 DEF Queue!Put, Ring

LEMMA GetStep ==
  ASSUME IInv, IInv', NEW n \in Nat \ {0}, n <= fifoFill, Take(n)
  PROVE  Queue!Get
<1>1. /\ out' = [i \in 1..n |-> fakespiram[Advance(fifoRpos, i - 1)]]
      /\ fifoFill' = fifoFill - n
      /\ UNCHANGED <<SPIRAMSIZE, handed, wnext, wleft, wepoch, fifoEpoch>>
  BY DEF Take, call
<1>2. NextIn' = NextIn
  BY <1>1 DEF NextIn
<1>3. NextIn \in Nat /\ fifoFill \in Nat
  BY NextInType DEF IInv, TypeOK
<1>4. Len(Ring) = fifoFill /\ EndsAt(Ring, NextIn)
  BY RingEndsAtNext
<1>5. Len(Ring') = fifoFill - n /\ EndsAt(Ring', NextIn)
  BY <1>1, <1>2, RingEndsAtNextPrime
<1>6. n \in 1..Len(Ring)
  BY <1>3, <1>4
<1>7. Ring' = SubSeq(Ring, n + 1, Len(Ring))
  <2> DEFINE t == SubSeq(Ring, n + 1, Len(Ring))
  <2>1. EndsAt(t, NextIn) /\ Len(t) = fifoFill - n
    BY <1>3, <1>4, <1>6, RunTaken
  <2> HIDE DEF t
  <2>2. Ring' = t
    BY <1>3, <1>5, <2>1, SameEnd
  <2> QED BY <2>2 DEF t
<1>8. out' = SubSeq(Ring, 1, n)
  <2>1. SubSeq(Ring, 1, n) = [i \in 1..n |-> Ring[i]]
    BY <1>3, <1>4, <1>6, RunTaken
  <2>2. \A i \in 1..n : Ring[i] = fakespiram[Advance(fifoRpos, i - 1)]
    BY <1>3 DEF Ring
  <2> QED BY <1>1, <2>1, <2>2
<1> QED BY <1>1, <1>2, <1>6, <1>7, <1>8 DEF Queue!Get, Ring

LEMMA FlushStep ==
  ASSUME IInv, NEW size \in Nat \ {0}, SPIRAMSIZE' = size, Emptied(size),
         UNCHANGED <<handed, out>>, NextIn' = handed
  PROVE  Queue!Flush
<1>1. fifoFill' = 0
  BY DEF Emptied
<1>2. Ring' = <<>>
  BY <1>1 DEF Ring
<1>3. NextIn' \in Nat /\ NextIn' >= NextIn
  BY NextInType DEF IInv, TypeOK
<1> QED BY <1>2, <1>3 DEF Queue!Flush, Ring

LEMMA InitStep == Init => Queue!Init
<1> SUFFICES ASSUME Init PROVE Queue!Init
  OBVIOUS
<1>1. SPIRAMSIZE \in Nat \ {0}
  BY FifoAssumption DEF Init
<1>2. Ring = <<>>
  BY DEF Init, Ring
<1> QED BY <1>1, <1>2 DEF Init, Queue!Init, NextIn, Ring

LEMMA QueueStep == IInv /\ IInv' /\ [Next]_vars => [Queue!Next]_(Queue!qvars)
<1> SUFFICES ASSUME IInv, IInv', [Next]_vars
             PROVE  Queue!Next \/ UNCHANGED Queue!qvars
  OBVIOUS
<1>1. ASSUME NEW n \in 1..MaxLen, WriteCall(n) PROVE UNCHANGED Queue!qvars
  BY <1>1, SameQueue DEF WriteCall, NextIn, fifo, IInv, TypeOK
<1>2. CASE WriteChunk
  BY <1>2, PutStep DEF Queue!Next
<1>3. CASE WriteDrop
  BY <1>3, SameQueue DEF WriteDrop, NextIn, fifo
<1>4. ASSUME NEW n \in 1..MaxLen, ReadCall(n) PROVE UNCHANGED Queue!qvars
  BY <1>4, SameQueue DEF ReadCall, NextIn, fifo, call
<1>5. ASSUME NEW n \in 1..MaxLen, TryRead(n) PROVE Queue!Next
  <2>1. n \in Nat \ {0} /\ n <= fifoFill
    BY <1>5, FifoAssumption DEF TryRead, IInv, TypeOK
  <2> QED BY <1>5, <2>1, GetStep DEF TryRead, Queue!Next
<1>6. CASE ReadChunk
  <2> DEFINE n == Chunk(rleft, fifoRpos)
  <2>1. n \in Nat \ {0}
    BY <1>6, ChunkBounds DEF ReadChunk, IInv, TypeOK
  <2>2. Take(n) /\ n <= fifoFill
    BY <1>6 DEF ReadChunk, CanRead
  <2> HIDE DEF n
  <2> QED BY <2>1, <2>2, GetStep DEF Queue!Next
<1>7. CASE Reset
  <2>1. NextIn' = handed
    BY <1>7 DEF Reset, NextIn, call, IInv, TypeOK, WriterInv
  <2> QED BY <1>7, <2>1, SizeType, FlushStep DEF Reset, Queue!Next, IInv
<1>8. ASSUME NEW size \in Sizes, Reinit(size) PROVE Queue!Next
  <2>1. NextIn' = handed
    BY <1>8 DEF Reinit, NextIn, call
  <2>2. size \in Nat \ {0}
    BY FifoAssumption
  <2> QED BY <1>8, <2>1, <2>2, FlushStep DEF Reinit, Queue!Next
<1>9. CASE UNCHANGED vars
  BY <1>9, SameQueue DEF vars, fifo, call, NextIn
<1> QED BY <1>1, <1>2, <1>3, <1>4, <1>5, <1>6, <1>7, <1>8, <1>9
        DEF Next, Writer, Reader

(* Whatever the sizes of the ring, of the chunks and of the packets, and   *)
(* whenever the fifo is flushed or re-sized, the reads of the decoder hand *)
(* out the written bytes in order, each once and none missing since the    *)
(* last flush.                                                             *)
THEOREM FifoImplementsQueue == Spec => ImplementsQueue
BY InitStep, QueueStep, Invariance, PTL DEF Spec, ImplementsQueue, Queue!Spec
==============================================================================
