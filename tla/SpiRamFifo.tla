------------------------------ MODULE SpiRamFifo ------------------------------
(***************************************************************************)
(* The song buffer of components/fifo/spiram_fifo.c: a ring of SPIRAMSIZE  *)
(* bytes between the task that receives a stream (the writer) and the      *)
(* decoder task (the reader), with a flush (spiRamFifoReset) that any task *)
(* may call at any moment.                                                 *)
(*                                                                         *)
(* One action is one hold of the mutex `mux`, the grain at which the tasks *)
(* interleave.  A call of spiRamFifoWrite or spiRamFifoRead holds the      *)
(* mutex once per chunk of at most SPIREADSIZE bytes, so a flush can come  *)
(* between two chunks; spiRamFifoWrite also samples fifoEpoch before it    *)
(* takes the mutex for the first time.  A chunk that does not fit (or is   *)
(* not there yet) only counts an overrun (an underrun) and retries 20 ms   *)
(* later: that changes nothing the model keeps, and is its stuttering.     *)
(*                                                                         *)
(* A byte is represented by its place in the sequence of all the bytes     *)
(* handed to spiRamFifoWrite since boot.                                   *)
(***************************************************************************)
EXTENDS Naturals, Sequences

CONSTANTS
  SPIREADSIZE, \* most bytes copied under one hold of the mutex
  Sizes,       \* the sizes setSPIRAMSIZE is called with
  MaxLen,      \* bound: longest packet written, longest read
  MaxBytes,    \* bound: bytes handed to spiRamFifoWrite in a behaviour
  MaxResets    \* bound: flushes and re-allocations in a behaviour

ASSUME FifoAssumption ==
  /\ SPIREADSIZE \in Nat \ {0}
  /\ Sizes \subseteq Nat \ {0}
  /\ MaxLen \in Nat /\ MaxBytes \in Nat /\ MaxResets \in Nat

VARIABLES
  SPIRAMSIZE, fakespiram, fifoRpos, fifoWpos, fifoFill, fifoEpoch,
  handed, \* bytes handed to spiRamFifoWrite so far
  flushed,\* what `handed` was when the ring was last emptied
  wnext,  \* the writer's call: the next byte to copy,
  wleft,  \* buffLen, the bytes still to copy (0: no call)
  wepoch, \* startEpoch, the epoch sampled at the start
  rleft,  \* bytes the reader's call still has to copy (0: no call)
  out     \* the bytes the last read step copied to its caller

fifo == <<SPIRAMSIZE, fakespiram, fifoRpos, fifoWpos, fifoFill, fifoEpoch>>
call == <<wnext, wleft, wepoch>>
vars == <<fifo, handed, flushed, call, rleft, out>>

SmallerOf(a, b) == IF a < b THEN a ELSE b

(* A position moved forward by n <= SPIRAMSIZE bytes, at the end of the    *)
(* ring back to its start.                                                 *)
Advance(pos, n) ==
  IF pos + n >= SPIRAMSIZE THEN pos + n - SPIRAMSIZE ELSE pos + n

(* Mutant: a chunk is not cut at the end of the ring. *)
ChunkUncut(left, pos) == SmallerOf(left, SPIREADSIZE)

(* The next chunk of a call with `left` bytes to go: one SPIREADSIZE at    *)
(* most, and never past the end of the ring.                               *)
Chunk(left, pos) == SmallerOf(SmallerOf(left, SPIREADSIZE), SPIRAMSIZE - pos)

(* Mutants: one byte too many is written, or read. *)
CanWriteOneMore == Chunk(wleft, fifoWpos) <= SPIRAMSIZE - fifoFill + 1
CanReadOneMore  == Chunk(rleft, fifoRpos) <= fifoFill + 1

CanWrite == Chunk(wleft, fifoWpos) <= SPIRAMSIZE - fifoFill
CanRead  == Chunk(rleft, fifoRpos) <= fifoFill

-----------------------------------------------------------------------------
Init ==
  /\ SPIRAMSIZE \in Sizes
  /\ fakespiram = [s \in 0..(SPIRAMSIZE - 1) |-> 0]
  /\ fifoRpos = 0 /\ fifoWpos = 0 /\ fifoFill = 0 /\ fifoEpoch = 0
  /\ handed = 0 /\ flushed = 0
  /\ wnext = 0 /\ wleft = 0 /\ wepoch = 0
  /\ rleft = 0
  /\ out = <<>>

(* spiRamFifoWrite is called with a packet of n bytes and samples the      *)
(* epoch, with the mutex not yet taken.                                    *)
WriteCall(n) ==
  /\ wleft = 0
  /\ handed + n <= MaxBytes
  /\ wnext' = handed /\ wleft' = n /\ wepoch' = fifoEpoch
  /\ handed' = handed + n
  /\ UNCHANGED <<fifo, flushed, rleft, out>>

WriteChunk ==
  LET n == Chunk(wleft, fifoWpos) IN
  /\ wleft > 0
  /\ wepoch = fifoEpoch
  /\ CanWrite
  /\ fakespiram' = [s \in DOMAIN fakespiram |->
                      IF s \in fifoWpos..(fifoWpos + n - 1)
                      THEN wnext + (s - fifoWpos) ELSE fakespiram[s]]
  /\ wnext' = wnext + n /\ wleft' = wleft - n
  /\ fifoFill' = fifoFill + n
  /\ fifoWpos' = Advance(fifoWpos, n)
  /\ UNCHANGED <<SPIRAMSIZE, fifoRpos, fifoEpoch, handed, flushed, wepoch, rleft, out>>

(* Mutant: the test of the epoch is the wrong way round. *)
WriteDropNever ==
  /\ wleft > 0
  /\ wepoch > fifoEpoch
  /\ wleft' = 0
  /\ UNCHANGED <<fifo, handed, flushed, wnext, wepoch, rleft, out>>

(* The fifo was flushed since the call began: the rest of the packet is    *)
(* dropped.                                                                *)
WriteDrop ==
  /\ wleft > 0
  /\ wepoch # fifoEpoch
  /\ wleft' = 0
  /\ UNCHANGED <<fifo, handed, flushed, wnext, wepoch, rleft, out>>

ReadCall(n) ==
  /\ rleft = 0
  /\ rleft' = n
  /\ UNCHANGED <<fifo, handed, flushed, call, out>>

(* Mutant: bytes beyond the end of the ring are copied from there. *)
TakeUnsplit(n) ==
  /\ out' = [i \in 1..n |-> IF fifoRpos + i <= SPIRAMSIZE
                            THEN fakespiram[fifoRpos + i - 1] ELSE 0]
  /\ fifoFill' = fifoFill - n
  /\ fifoRpos' = Advance(fifoRpos, n)
  /\ UNCHANGED <<SPIRAMSIZE, fakespiram, fifoWpos, fifoEpoch, handed, flushed, call>>

(* n bytes leave the ring at fifoRpos. *)
Take(n) ==
  /\ out' = [i \in 1..n |-> fakespiram[Advance(fifoRpos, i - 1)]]
  /\ fifoFill' = fifoFill - n
  /\ fifoRpos' = Advance(fifoRpos, n)
  /\ UNCHANGED <<SPIRAMSIZE, fakespiram, fifoWpos, fifoEpoch, handed, flushed, call>>

ReadChunk ==
  LET n == Chunk(rleft, fifoRpos) IN
  /\ rleft > 0
  /\ CanRead
  /\ rleft' = rleft - n
  /\ Take(n)

(* spiRamFifoTryRead: all of the n bytes under one hold of the mutex, or   *)
(* none and an immediate return.                                           *)
TryRead(n) ==
  /\ rleft = 0
  /\ fifoFill >= n
  /\ Take(n)
  /\ UNCHANGED rleft

Emptied(size) ==
  /\ fakespiram' = [s \in 0..(size - 1) |-> 0]
  /\ fifoRpos' = 0 /\ fifoWpos' = 0 /\ fifoFill' = 0
  /\ flushed' = handed

(* Mutant: a flush that the writer does not notice. *)
ResetUnnoticed ==
  /\ fifoEpoch < MaxResets
  /\ Emptied(SPIRAMSIZE)
  /\ UNCHANGED <<SPIRAMSIZE, fifoEpoch, handed, call, rleft, out>>

(* spiRamFifoReset, by any task and in the middle of any call. *)
Reset ==
  /\ fifoEpoch < MaxResets
  /\ fifoEpoch' = fifoEpoch + 1
  /\ Emptied(SPIRAMSIZE)
  /\ UNCHANGED <<SPIRAMSIZE, handed, call, rleft, out>>

(* spiRamFifoDestroy, setSPIRAMSIZE, spiRamFifoInit.  None of the three    *)
(* takes the mutex or moves the epoch, so they are only meant for a moment *)
(* when neither a write nor a read is in progress: the receiving task      *)
(* itself calls them, after the decoder has stopped.                       *)
Reinit(size) ==
  /\ wleft = 0 /\ rleft = 0
  /\ SPIRAMSIZE # size
  /\ SPIRAMSIZE' = size
  /\ Emptied(size)
  /\ UNCHANGED <<fifoEpoch, handed, call, rleft, out>>

-----------------------------------------------------------------------------
Writer == (\E n \in 1..MaxLen : WriteCall(n)) \/ WriteChunk \/ WriteDrop
Reader == \/ \E n \in 1..MaxLen : ReadCall(n) \/ TryRead(n)
          \/ ReadChunk

Next == Writer \/ Reader \/ Reset \/ \E size \in Sizes : Reinit(size)

Spec == Init /\ [][Next]_vars

(* The decoder keeps asking for bytes, and a chunk that can be copied is   *)
(* copied: both tasks poll every 20 ms and give up the processor between.  *)
Fairness ==
  /\ WF_vars(WriteChunk \/ WriteDrop)
  /\ WF_vars(ReadChunk)
  /\ WF_vars(\E n \in 1..MaxLen : ReadCall(n))

FairSpec == Spec /\ Fairness

-----------------------------------------------------------------------------
(* Every variable stays in its domain: both positions index the ring and   *)
(* the fill level never falls below 0.                                     *)
TypeOK ==
  /\ SPIRAMSIZE \in Sizes
  /\ fakespiram \in [0..(SPIRAMSIZE - 1) -> Nat]
  /\ fifoRpos \in 0..(SPIRAMSIZE - 1) /\ fifoWpos \in 0..(SPIRAMSIZE - 1)
  /\ fifoFill \in Nat /\ fifoEpoch \in Nat
  /\ handed \in Nat /\ flushed \in Nat
  /\ wnext \in Nat /\ wleft \in Nat /\ wepoch \in Nat
  /\ rleft \in Nat
  /\ out \in Seq(Nat)

(* The three counters of spiram_fifo.c agree: the fill never exceeds the   *)
(* ring and is the distance from fifoRpos to fifoWpos, although chunks are *)
(* cut at the end of the ring and a flush may come between any two.        *)
CursorsAgree ==
  /\ fifoFill <= SPIRAMSIZE
  /\ fifoWpos = Advance(fifoRpos, fifoFill)

(* spiRamFifoWrite's "flushed mid-write: drop the rest so no partial packet     *)
(* survives": every byte in the ring belongs to a packet whose             *)
(* spiRamFifoWrite began after the last flush, so that what the decoder    *)
(* finds after a flush starts at the start of a packet.                    *)
NoPartialPacket ==
  \A i \in 0..(fifoFill - 1) : fakespiram[Advance(fifoRpos, i)] >= flushed

(* Reader and writer never wait for each other, whatever SPIRAMSIZE is (it *)
(* is 128, less than one chunk, during a TLS handshake): a call that cannot *)
(* proceed is waiting for a byte, or for room, the other side can still    *)
(* provide.                                                                *)
NoMutualWait ==
  ~ (/\ wleft > 0 /\ wepoch = fifoEpoch /\ ~CanWrite
     /\ rleft > 0 /\ ~CanRead)

(* The place of the next byte that can enter the ring: the writer's next   *)
(* one, or the first of the next packet when the rest of this one is going *)
(* to be dropped.                                                          *)
NextIn == IF wleft > 0 /\ wepoch = fifoEpoch THEN wnext ELSE handed

Queue == INSTANCE ByteQueue WITH
           capacity <- SPIRAMSIZE,
           q    <- [i \in 1..fifoFill |-> fakespiram[Advance(fifoRpos, i - 1)]],
           next <- NextIn,
           got  <- out

(* The ring, its chunks, its wrap-around, its flushes and its re-sizing    *)
(* implement the bounded queue of ByteQueue: reads hand out the written    *)
(* bytes in order, each once and with none missing since the last flush.   *)
ImplementsQueue == Queue!Spec

(* A write in progress ends (copied whole, or dropped by a flush) as long  *)
(* as the decoder keeps reading.                                           *)
WriteReturns == wleft > 0 ~> wleft = 0
=============================================================================
