------------------------------ MODULE ByteQueue ------------------------------
(***************************************************************************)
(* What the song buffer promises its two users, with no memory, cursor or  *)
(* lock in sight: a bounded queue of bytes that hands the reader runs of   *)
(* the writer's bytes in the order they were written, and that a flush     *)
(* empties.  A byte is named by its place in the sequence of all the bytes *)
(* the program ever handed to spiRamFifoWrite, so that a lost, repeated or *)
(* reordered byte is visible.                                              *)
(***************************************************************************)
EXTENDS Naturals, Sequences

VARIABLES
  capacity, \* how many bytes fit
  q,        \* the bytes queued, oldest first
  next,     \* the place of the next byte that may enter
  got       \* the bytes the last read handed out

qvars == <<capacity, q, next, got>>

(* The n bytes of the written sequence from place b on. *)
Run(b, n) == [i \in 1..n |-> b + i - 1]

Init ==
  /\ capacity \in Nat \ {0}
  /\ q = <<>> /\ next = 0 /\ got = <<>>

Put ==
  /\ \E n \in 1..(capacity - Len(q)) :
       /\ q' = q \o Run(next, n)
       /\ next' = next + n
  /\ UNCHANGED <<capacity, got>>

Get ==
  /\ \E n \in 1..Len(q) :
       /\ got' = SubSeq(q, 1, n)
       /\ q'   = SubSeq(q, n + 1, Len(q))
  /\ UNCHANGED <<capacity, next>>

(* A flush drops the queue and what was left of the packet being written;  *)
(* the capacity only ever changes together with a flush.                   *)
Flush ==
  /\ q' = <<>>
  /\ next' \in Nat /\ next' >= next
  /\ capacity' \in Nat \ {0}
  /\ UNCHANGED got

Next == Put \/ Get \/ Flush

Spec == Init /\ [][Next]_qvars
=============================================================================
