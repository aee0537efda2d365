----------------------------- MODULE Servers_proofs -----------------------------
(***************************************************************************)
(* Proofs about the queue of the AAC decoder: for any number of slots and  *)
(* of frames, a slot is in one place, and frames are heard in order.       *)
(*                                                                         *)
(* Proofs about the web server: for any number of connections, workers and *)
(* slots, semclient counts the workers, and every open connection is held  *)
(* by one task or one slot.  And the parts of Services together.           *)
(***************************************************************************)
EXTENDS Services, Eeprom_proofs, Ota_proofs, FiniteSetTheorems, WellFoundedInduction,
        TLAPS

-----------------------------------------------------------------------------
(* The queue of PCM frames.                                                *)
Slots == 1..PcmSlots

(* A slot is in a queue, and in it once.                                   *)
Has(q, s) == \E i \in 1..Len(q) : q[i] = s
Once(q) == \A i, j \in 1..Len(q) : q[i] = q[j] => i = j

(* One of four is so.                                                      *)
OneOf(a, b, c, d) ==
  /\ a \/ b \/ c \/ d
  /\ ~(a /\ b) /\ ~(a /\ c) /\ ~(a /\ d) /\ ~(b /\ c) /\ ~(b /\ d) /\ ~(c /\ d)

DecoderRecord == [at : {"start", "inline", "decode", "out", "copy", "flush",
                        "flush.free", "end", "wait", "ended"},
                  slot : SUBSET Slots, frame : 0..PcmFrames, stop : BOOLEAN]
OutRecord == [at : {"none", "receive", "render", "free", "stop", "deleted"},
              slot : SUBSET Slots]

(* Where the tasks have a slot in their hands, and where they meet.        *)
PcmHands ==
  /\ pcmDecoder.at \notin {"copy", "flush.free"} => pcmDecoder.slot = {}
  /\ pcmDecoder.at \in {"copy", "flush.free"} => \E s \in Slots : pcmDecoder.slot = {s}
  /\ pcmOut.at \notin {"render", "free"} => pcmOut.slot = {}
  /\ pcmOut.at \in {"render", "free"} => \E s \in Slots : pcmOut.slot = {s}
  /\ pcmOut.at = "none" <=> pcmDecoder.at \in {"start", "inline"}
  /\ pcmq_done \/ pcmDecoder.at = "ended" => pcmOut.at = "deleted"
  /\ pcmDecoder.at \in {"start", "inline", "ended"} => pcmq_data = <<>>

PcmPlaces ==
  pcmDecoder.at \notin {"start", "inline", "ended"} =>
    /\ Once(pcmq_free) /\ Once(pcmq_data)
    /\ \A s \in Slots :
         OneOf(Has(pcmq_free, s), Has(pcmq_data, s), s \in pcmDecoder.slot,
               s \in pcmOut.slot)

(* What waits to be rendered is a frame.                                   *)
PcmMemory ==
  /\ pcmDecoder.at \in {"out", "copy"} => pcmDecoder.frame \in 1..PcmFrames
  /\ \A s \in Slots :
       Has(pcmq_data, s) \/ (pcmOut.at = "render" /\ s \in pcmOut.slot)
         => pcmq_mem[s] \in 1..PcmFrames

PcmInv == PcmTypeOK /\ PcmHands /\ PcmPlaces /\ PcmMemory

-----------------------------------------------------------------------------
(* A slot that is sent is in the queue, and one that is received no more.  *)
LEMMA Sent ==
  ASSUME NEW S, NEW q \in Seq(S), NEW s \in S
  PROVE  /\ Append(q, s) \in Seq(S)
         /\ \A t \in S : Has(Append(q, s), t) <=> Has(q, t) \/ t = s
         /\ Once(q) /\ ~Has(q, s) => Once(Append(q, s))
<1> DEFINE r == Append(q, s)
<1>1. /\ r \in Seq(S) /\ Len(q) \in Nat /\ Len(r) = Len(q) + 1 /\ r[Len(q) + 1] = s
      /\ \A i \in 1..Len(q) : r[i] = q[i]
  OBVIOUS
<1> HIDE DEF r
<1>2. \A t \in S : Has(r, t) <=> Has(q, t) \/ t = s BY <1>1 DEF Has
<1>3. Once(q) /\ ~Has(q, s) => Once(r) BY <1>1 DEF Has, Once
<1>4. QED BY <1>1, <1>2, <1>3 DEF r

LEMMA SentOnce ==
  ASSUME NEW q \in Seq(Slots), NEW s \in Slots, NEW r, r = Append(q, s), Once(q), ~Has(q, s)
  PROVE  /\ r \in Seq(Slots) /\ Once(r)
         /\ \A t \in Slots : Has(r, t) <=> Has(q, t) \/ t = s
BY Sent

LEMMA PcmQueues ==
  ASSUME PcmTypeOK PROVE pcmq_data \in Seq(Slots) /\ pcmq_free \in Seq(Slots)
BY DEF PcmTypeOK, Slots

LEMMA Received ==
  ASSUME NEW S, NEW q \in Seq(S), q # <<>>
  PROVE  /\ Head(q) \in S /\ Tail(q) \in Seq(S) /\ Has(q, Head(q))
         /\ \A t \in S : Has(Tail(q), t) => Has(q, t)
         /\ Once(q) => /\ Once(Tail(q))
                       /\ \A t \in S : Has(Tail(q), t) <=> Has(q, t) /\ t # Head(q)
<1> DEFINE r == Tail(q)
           h == Head(q)
<1>1. /\ r \in Seq(S) /\ Len(q) \in Nat \ {0} /\ Len(r) = Len(q) - 1 /\ h = q[1] /\ h \in S
      /\ \A i \in 1..Len(r) : r[i] = q[i + 1]
  OBVIOUS
<1> HIDE DEF r, h
<1>2. Has(q, h) BY <1>1 DEF Has
<1>3. \A t \in S : Has(r, t) => Has(q, t) BY <1>1 DEF Has
<1>4. ASSUME Once(q) PROVE Once(r) /\ \A t \in S : Has(r, t) <=> Has(q, t) /\ t # h
  <2>1. Once(r) BY <1>1, <1>4 DEF Once
  <2>2. ~Has(r, h) BY <1>1, <1>4 DEF Has, Once
  <2>3. ASSUME NEW t \in S, Has(q, t), t # h PROVE Has(r, t)
    <3>1. PICK i \in 1..Len(q) : q[i] = t BY <2>3 DEF Has
    <3>2. i # 1 BY <1>1, <2>3, <3>1
    <3>3. i - 1 \in 1..Len(r) /\ r[i - 1] = t BY <1>1, <3>1, <3>2
    <3>4. QED BY <3>3 DEF Has
  <2>4. QED BY <1>3, <2>1, <2>2, <2>3
<1>5. QED BY <1>1, <1>2, <1>3, <1>4 DEF r, h

LEMMA Nothing == ASSUME NEW s PROVE ~Has(<< >>, s) /\ Once(<<>>)
<1>1. 1..Len(<<>>) = {} OBVIOUS
<1>2. QED BY <1>1 DEF Has, Once

LEMMA IsFrame ==
  ASSUME PcmMemory, NEW s \in Slots, Has(pcmq_data, s)
  PROVE  pcmq_mem[s] \in 1..PcmFrames
BY DEF PcmMemory

LEMMA PcmInvInit == PcmInit => PcmInv
<1> SUFFICES ASSUME PcmInit PROVE PcmInv OBVIOUS
<1> USE PcmAssumption DEF PcmInit
<1>1. pcmDecoder \in DecoderRecord /\ pcmOut \in OutRecord BY DEF DecoderRecord, OutRecord
<1>2. PcmTypeOK
  <2>1. pcmq_mem \in [1..PcmSlots -> 0..PcmFrames] OBVIOUS
  <2>2. \A S : <<>> \in Seq(S) OBVIOUS
  <2>3. QED BY <1>1, <2>1, <2>2 DEF PcmTypeOK, DecoderRecord, OutRecord, Slots
<1>3. PcmHands BY DEF PcmHands
<1>4. PcmPlaces BY DEF PcmPlaces
<1>5. PcmMemory BY Nothing DEF PcmMemory
<1>6. QED BY <1>2, <1>3, <1>4, <1>5 DEF PcmInv

-----------------------------------------------------------------------------
(* What a step does to the decoder.                                        *)
LEMMA PcmGoes ==
  ASSUME PcmTypeOK, NEW at, ToDecoder(at),
         at \in {"start", "inline", "decode", "out", "copy", "flush",
                 "flush.free", "end", "wait", "ended"}
  PROVE  /\ pcmDecoder' \in DecoderRecord /\ pcmDecoder'.at = at
         /\ pcmDecoder'.slot = pcmDecoder.slot /\ pcmDecoder'.frame = pcmDecoder.frame
<1>1. pcmDecoder \in DecoderRecord BY DEF PcmTypeOK, DecoderRecord, Slots
<1>2. QED BY <1>1 DEF ToDecoder, DecoderRecord

LEMMA GoesSlot ==
  ASSUME PcmTypeOK, NEW at, NEW slot \in SUBSET Slots, ToDecoderSlot(at, slot),
         at \in {"start", "inline", "decode", "out", "copy", "flush",
                 "flush.free", "end", "wait", "ended"}
  PROVE  /\ pcmDecoder' \in DecoderRecord /\ pcmDecoder'.at = at
         /\ pcmDecoder'.slot = slot /\ pcmDecoder'.frame = pcmDecoder.frame
<1>1. pcmDecoder \in DecoderRecord BY DEF PcmTypeOK, DecoderRecord, Slots
<1>2. QED BY <1>1 DEF ToDecoderSlot, DecoderRecord

(* It is told to stop, which changes nothing else.                         *)
LEMMA StopsDecoder ==
  ASSUME PcmTypeOK, PcmStop
  PROVE  /\ pcmDecoder' \in DecoderRecord /\ pcmDecoder'.at = pcmDecoder.at
         /\ pcmDecoder'.slot = pcmDecoder.slot /\ pcmDecoder'.frame = pcmDecoder.frame
         /\ UNCHANGED <<pcmq_data, pcmq_free, pcmq_mem, pcmq_stop, pcmq_done, pcmOut,
                        heard, dropped>>
<1>1. pcmDecoder \in DecoderRecord BY DEF PcmTypeOK, DecoderRecord, Slots
<1>2. QED BY <1>1 DEF PcmStop, DecoderRecord

LEMMA StopKeepsPcm ==
  ASSUME PcmInv, PcmStop PROVE PcmInv'
<1> USE DEF PcmInv
<1>1. PcmTypeOK' BY StopsDecoder DEF PcmTypeOK, DecoderRecord, Slots
<1>2. PcmHands' BY StopsDecoder DEF PcmHands
<1>3. PcmPlaces' BY StopsDecoder DEF PcmPlaces
<1>4. PcmMemory' BY StopsDecoder DEF PcmMemory
<1>5. QED BY <1>1, <1>2, <1>3, <1>4

(* The decoder takes a slot, ...                                           *)
LEMMA TakeKeepsPcm ==
  ASSUME PcmInv, PcmTake PROVE PcmInv'
<1> USE PcmAssumption DEF PcmInv
<1>1. /\ UNCHANGED <<pcmq_data, pcmq_stop, pcmq_done, pcmOut, heard>>
      /\ pcmDecoder.at = "out"
  BY DEF PcmTake, DecoderAt
<1>2. pcmDecoder.frame \in 1..PcmFrames BY <1>1 DEF PcmMemory
<1>3. CASE /\ pcmq_free # <<>> /\ ToDecoderSlot("copy", {Head(pcmq_free)})
           /\ pcmq_free' = Tail(pcmq_free)
           /\ pcmq_mem' = [pcmq_mem EXCEPT ![Head(pcmq_free)] = 0]
           /\ UNCHANGED dropped
  <2>1. PICK s \in Slots : s = Head(pcmq_free)
    BY <1>3, Received DEF PcmTypeOK, Slots
  <2>2. /\ pcmq_free' \in Seq(Slots) /\ Once(pcmq_free') /\ Has(pcmq_free, s)
        /\ \A t \in Slots : Has(pcmq_free', t) <=> Has(pcmq_free, t) /\ t # s
    BY <1>1, <1>3, <2>1, Received DEF PcmTypeOK, Slots, PcmPlaces
  <2>3. /\ pcmDecoder' \in DecoderRecord /\ pcmDecoder'.at = "copy"
        /\ pcmDecoder'.slot = {s} /\ pcmDecoder'.frame = pcmDecoder.frame
    <3>1. ToDecoderSlot("copy", {s}) /\ {s} \in SUBSET Slots BY <1>3, <2>1
    <3>2. QED BY <3>1, GoesSlot
  <2>4. /\ pcmq_mem' \in [Slots -> 0..PcmFrames]
        /\ \A t \in Slots : t # s => pcmq_mem'[t] = pcmq_mem[t]
    BY <1>3, <2>1 DEF PcmTypeOK, Slots
  <2>5. PcmTypeOK' BY <1>1, <1>3, <2>2, <2>3, <2>4
    DEF PcmTypeOK, Slots, DecoderRecord
  <2>6. PcmHands' BY <1>1, <2>3 DEF PcmHands
  <2>7. pcmDecoder.slot = {} BY <1>1 DEF PcmHands
  <2>8. PcmPlaces' BY <1>1, <2>2, <2>3, <2>7 DEF PcmPlaces, OneOf
  <2>9. PcmMemory' BY <1>1, <1>2, <2>2, <2>3, <2>4, <2>7 DEF PcmMemory, PcmPlaces, OneOf
  <2>10. QED BY <2>5, <2>6, <2>8, <2>9
<1>4. CASE /\ ToDecoder("end") /\ dropped' = dropped \cup {pcmDecoder.frame}
           /\ UNCHANGED <<pcmq_free, pcmq_mem>>
  <2>1. /\ pcmDecoder' \in DecoderRecord /\ pcmDecoder'.at = "end"
        /\ pcmDecoder'.slot = pcmDecoder.slot /\ pcmDecoder'.frame = pcmDecoder.frame
    BY <1>4, PcmGoes
  <2>2. PcmTypeOK' BY <1>1, <1>2, <1>4, <2>1 DEF PcmTypeOK, Slots, DecoderRecord
  <2>3. PcmHands' BY <1>1, <2>1 DEF PcmHands
  <2>4. PcmPlaces' BY <1>1, <1>4, <2>1 DEF PcmPlaces
  <2>5. PcmMemory' BY <1>1, <1>4, <2>1 DEF PcmMemory
  <2>6. QED BY <2>2, <2>3, <2>4, <2>5
<1>5. QED BY <1>3, <1>4 DEF PcmTake

(* ... and copies and sends a frame; ...                                   *)
LEMMA CopyKeepsPcm ==
  ASSUME PcmInv, PcmCopy PROVE PcmInv'
<1> USE PcmAssumption DEF PcmInv
<1>1. /\ UNCHANGED <<pcmq_free, pcmq_stop, pcmq_done, pcmOut, heard, dropped>>
      /\ pcmDecoder.at = "copy" /\ ToDecoderSlot("decode", {})
  BY DEF PcmCopy, DecoderAt
<1>2. PICK s \in Slots : pcmDecoder.slot = {s} BY <1>1 DEF PcmHands
<1>3. /\ pcmq_mem' = [pcmq_mem EXCEPT ![s] = pcmDecoder.frame]
      /\ pcmq_data' = Append(pcmq_data, s)
  BY <1>2 DEF PcmCopy
<1>4. pcmDecoder.frame \in 1..PcmFrames BY <1>1 DEF PcmMemory
<1>5. /\ pcmDecoder' \in DecoderRecord /\ pcmDecoder'.at = "decode"
      /\ pcmDecoder'.slot = {} /\ pcmDecoder'.frame = pcmDecoder.frame
  BY <1>1, GoesSlot
<1>6. Once(pcmq_data) /\ ~Has(pcmq_data, s) BY <1>1, <1>2 DEF PcmPlaces, OneOf
<1>7. /\ pcmq_data' \in Seq(Slots) /\ Once(pcmq_data')
      /\ \A t \in Slots : Has(pcmq_data', t) <=> Has(pcmq_data, t) \/ t = s
  BY <1>3, <1>6, PcmQueues, SentOnce
<1>8. /\ pcmq_mem' \in [Slots -> 0..PcmFrames] /\ pcmq_mem'[s] = pcmDecoder.frame
      /\ \A t \in Slots : t # s => pcmq_mem'[t] = pcmq_mem[t]
  BY <1>3, <1>4 DEF PcmTypeOK, Slots
<1>9. PcmTypeOK' BY <1>1, <1>5, <1>7, <1>8 DEF PcmTypeOK, Slots, DecoderRecord
<1>10. PcmHands' BY <1>1, <1>5 DEF PcmHands
<1>11. PcmPlaces' BY <1>1, <1>2, <1>5, <1>7 DEF PcmPlaces, OneOf
<1>12. PcmMemory' BY <1>1, <1>4, <1>5, <1>7, <1>8 DEF PcmMemory
<1>13. QED BY <1>9, <1>10, <1>11, <1>12

(* ... it drops the first frame that is queued, ...                        *)
LEMMA FlushKeepsPcm ==
  ASSUME PcmInv, PcmFlush PROVE PcmInv'
<1> USE PcmAssumption DEF PcmInv
<1>1. /\ UNCHANGED <<pcmq_free, pcmq_mem, pcmq_stop, pcmq_done, pcmOut, heard>>
      /\ pcmDecoder.at = "flush" /\ pcmDecoder.slot = {}
  BY DEF PcmFlush, DecoderAt, PcmHands
<1>2. CASE ToDecoder("decode") /\ UNCHANGED <<pcmq_data, dropped>>
  <2>1. /\ pcmDecoder' \in DecoderRecord /\ pcmDecoder'.at = "decode"
        /\ pcmDecoder'.slot = pcmDecoder.slot
    BY <1>2, PcmGoes
  <2>2. PcmTypeOK' BY <1>1, <1>2, <2>1 DEF PcmTypeOK, Slots, DecoderRecord
  <2>3. PcmHands' BY <1>1, <2>1 DEF PcmHands
  <2>4. PcmPlaces' BY <1>1, <1>2, <2>1 DEF PcmPlaces
  <2>5. PcmMemory' BY <1>1, <1>2, <2>1 DEF PcmMemory
  <2>6. QED BY <2>2, <2>3, <2>4, <2>5
<1>3. CASE /\ pcmq_data # <<>> /\ ToDecoderSlot("flush.free", {Head(pcmq_data)})
           /\ pcmq_data' = Tail(pcmq_data)
           /\ dropped' = dropped \cup {pcmq_mem[Head(pcmq_data)]}
  <2>1. PICK s \in Slots : s = Head(pcmq_data) BY <1>3, Received DEF PcmTypeOK, Slots
  <2>2. /\ pcmq_data' \in Seq(Slots) /\ Once(pcmq_data') /\ Has(pcmq_data, s)
        /\ \A t \in Slots : Has(pcmq_data', t) <=> Has(pcmq_data, t) /\ t # s
    BY <1>1, <1>3, <2>1, Received DEF PcmTypeOK, Slots, PcmPlaces
  <2>3. /\ pcmDecoder' \in DecoderRecord /\ pcmDecoder'.at = "flush.free"
        /\ pcmDecoder'.slot = {s}
    <3>1. ToDecoderSlot("flush.free", {s}) /\ {s} \in SUBSET Slots BY <1>3, <2>1
    <3>2. QED BY <3>1, GoesSlot
  <2>4. dropped' \subseteq 1..PcmFrames
    <3>1. pcmq_mem[s] \in 1..PcmFrames BY <2>2, IsFrame
    <3>2. QED BY <1>3, <2>1, <3>1 DEF PcmTypeOK
  <2>5. PcmTypeOK' BY <1>1, <2>2, <2>3, <2>4 DEF PcmTypeOK, Slots, DecoderRecord
  <2>6. PcmHands' BY <1>1, <2>3 DEF PcmHands
  <2>7. PcmPlaces' BY <1>1, <2>2, <2>3 DEF PcmPlaces, OneOf
  <2>8. PcmMemory' BY <1>1, <2>2, <2>3 DEF PcmMemory
  <2>9. QED BY <2>5, <2>6, <2>7, <2>8
<1>4. QED BY <1>2, <1>3 DEF PcmFlush

(* ... and gives its slot back; ...                                        *)
LEMMA FlushFreeKeepsPcm ==
  ASSUME PcmInv, PcmFlushFree PROVE PcmInv'
<1> USE PcmAssumption DEF PcmInv
<1>1. /\ UNCHANGED <<pcmq_data, pcmq_mem, pcmq_stop, pcmq_done, pcmOut, heard, dropped>>
      /\ pcmDecoder.at = "flush.free" /\ ToDecoderSlot("flush", {})
  BY DEF PcmFlushFree, DecoderAt
<1>2. PICK s \in Slots : pcmDecoder.slot = {s} BY <1>1 DEF PcmHands
<1>3. pcmq_free' = Append(pcmq_free, s) BY <1>2 DEF PcmFlushFree
<1>4. /\ pcmDecoder' \in DecoderRecord /\ pcmDecoder'.at = "flush" /\ pcmDecoder'.slot = {}
  BY <1>1, GoesSlot
<1>5. Once(pcmq_free) /\ ~Has(pcmq_free, s) BY <1>1, <1>2 DEF PcmPlaces, OneOf
<1>6. /\ pcmq_free' \in Seq(Slots) /\ Once(pcmq_free')
      /\ \A t \in Slots : Has(pcmq_free', t) <=> Has(pcmq_free, t) \/ t = s
  BY <1>3, <1>5, PcmQueues, SentOnce
<1>7. PcmTypeOK' BY <1>1, <1>4, <1>6 DEF PcmTypeOK, Slots, DecoderRecord
<1>8. PcmHands' BY <1>1, <1>4 DEF PcmHands
<1>9. PcmPlaces' BY <1>1, <1>2, <1>4, <1>6 DEF PcmPlaces, OneOf
<1>10. PcmMemory' BY <1>1, <1>4 DEF PcmMemory
<1>11. QED BY <1>7, <1>8, <1>9, <1>10

(* ... it begins, with all slots free or without a queue, ...              *)
LEMMA StartKeepsPcm ==
  ASSUME PcmInv, PcmStart PROVE PcmInv'
<1> USE PcmAssumption DEF PcmInv
<1>1. /\ UNCHANGED <<pcmq_data, pcmq_mem, pcmq_stop, pcmq_done, heard, dropped>>
      /\ pcmDecoder.at = "start" /\ pcmDecoder.slot = {} /\ pcmOut.slot = {}
      /\ pcmOut.at = "none" /\ pcmq_data = <<>>
  BY DEF PcmStart, DecoderAt, PcmHands
<1>2. pcmOut \in OutRecord BY DEF PcmTypeOK, OutRecord, Slots
<1>3. CASE /\ pcmq_free' = [i \in Slots |-> i] /\ pcmOut' = [pcmOut EXCEPT !.at = "receive"]
           /\ ToDecoder("decode")
  <2>1. /\ pcmDecoder' \in DecoderRecord /\ pcmDecoder'.at = "decode" /\ pcmDecoder'.slot = {}
    BY <1>1, <1>3, PcmGoes
  <2>2. pcmOut' \in OutRecord /\ pcmOut'.at = "receive" /\ pcmOut'.slot = {}
    BY <1>1, <1>2, <1>3 DEF OutRecord
  <2>3. /\ pcmq_free' \in Seq(Slots) /\ Len(pcmq_free') = PcmSlots
        /\ \A i \in Slots : pcmq_free'[i] = i
    BY <1>3 DEF Slots
  <2>4. Once(pcmq_free') /\ \A t \in Slots : Has(pcmq_free', t)
    BY <2>3 DEF Once, Has, Slots
  <2>5. Once(pcmq_data') /\ \A t \in Slots : ~Has(pcmq_data', t) BY <1>1, Nothing
  <2>6. PcmTypeOK' BY <1>1, <2>1, <2>2, <2>3 DEF PcmTypeOK, Slots, DecoderRecord, OutRecord
  <2>7. PcmHands' BY <1>1, <2>1, <2>2 DEF PcmHands
  <2>8. PcmPlaces' BY <2>1, <2>2, <2>4, <2>5 DEF PcmPlaces, OneOf
  <2>9. PcmMemory' BY <2>1, <2>2, <2>5 DEF PcmMemory
  <2>10. QED BY <2>6, <2>7, <2>8, <2>9
<1>4. CASE ToDecoder("inline") /\ UNCHANGED <<pcmq_free, pcmOut>>
  <2>1. /\ pcmDecoder' \in DecoderRecord /\ pcmDecoder'.at = "inline"
        /\ pcmDecoder'.slot = {}
    BY <1>1, <1>4, PcmGoes
  <2>2. PcmTypeOK' BY <1>1, <1>4, <2>1 DEF PcmTypeOK, Slots, DecoderRecord
  <2>3. PcmHands' BY <1>1, <1>4, <2>1 DEF PcmHands
  <2>4. PcmPlaces' BY <2>1 DEF PcmPlaces
  <2>5. PcmMemory' BY <1>1, <1>4, <2>1 DEF PcmMemory
  <2>6. QED BY <2>2, <2>3, <2>4, <2>5
<1>5. QED BY <1>3, <1>4 DEF PcmStart, Slots

LEMMA InlineKeepsPcm ==
  ASSUME PcmInv, PcmInline PROVE PcmInv'
<1> USE PcmAssumption DEF PcmInv
<1>1. /\ UNCHANGED <<pcmq_data, pcmq_free, pcmq_mem, pcmq_stop, pcmq_done, pcmOut, dropped>>
      /\ pcmDecoder.at = "inline" /\ pcmDecoder.frame < PcmFrames
      /\ heard' = Append(heard, pcmDecoder.frame + 1)
  BY DEF PcmInline, DecoderAt
<1>2. pcmDecoder \in DecoderRecord BY DEF PcmTypeOK, DecoderRecord, Slots
<1>3. PICK f \in 1..PcmFrames : f = pcmDecoder.frame + 1 BY <1>1, <1>2 DEF DecoderRecord
<1>4. pcmDecoder' = [pcmDecoder EXCEPT !.frame = f]
  BY <1>2, <1>3 DEF PcmInline, DecoderRecord
<1>5. /\ pcmDecoder' \in DecoderRecord /\ pcmDecoder'.at = "inline"
      /\ pcmDecoder'.slot = pcmDecoder.slot
  <2>1. /\ pcmDecoder'.at = pcmDecoder.at /\ pcmDecoder'.slot = pcmDecoder.slot
    BY <1>2, <1>4, Zenon DEF DecoderRecord
  <2>2. pcmDecoder' \in DecoderRecord BY <1>2, <1>4 DEF DecoderRecord
  <2> QED BY <1>1, <2>1, <2>2
<1>6. heard' \in Seq(1..PcmFrames) BY <1>1, <1>3, Sent DEF PcmTypeOK
<1>7. PcmTypeOK' BY <1>1, <1>5, <1>6 DEF PcmTypeOK, Slots, DecoderRecord
<1>8. PcmHands' BY <1>1, <1>5 DEF PcmHands
<1>9. PcmPlaces' BY <1>5 DEF PcmPlaces
<1>10. PcmMemory' BY <1>1, <1>5 DEF PcmMemory
<1>11. QED BY <1>7, <1>8, <1>9, <1>10

(* ... decodes a frame or goes elsewhere, ...                              *)
LEMMA DecodeKeepsPcm ==
  ASSUME PcmInv, PcmDecode PROVE PcmInv'
<1> USE PcmAssumption DEF PcmInv
<1>1. /\ UNCHANGED <<pcmq_data, pcmq_free, pcmq_mem, pcmq_stop, pcmq_done, pcmOut, heard,
                     dropped>>
      /\ pcmDecoder.at = "decode"
  BY DEF PcmDecode, DecoderAt
<1>2. pcmDecoder \in DecoderRecord BY DEF PcmTypeOK, DecoderRecord, Slots
<1>3. /\ pcmDecoder' \in DecoderRecord /\ pcmDecoder'.at \in {"out", "flush", "end"}
      /\ pcmDecoder'.slot = pcmDecoder.slot
      /\ pcmDecoder'.at = "out" => pcmDecoder'.frame \in 1..PcmFrames
  <2>1. CASE ToDecoder("flush") BY <2>1, PcmGoes
  <2>2. CASE ToDecoder("end") BY <2>2, PcmGoes
  <2>3. CASE /\ pcmDecoder.frame < PcmFrames
             /\ pcmDecoder' = [pcmDecoder EXCEPT !.at = "out", !.frame = @ + 1]
    <3>1. PICK f \in 1..PcmFrames : f = pcmDecoder.frame + 1 BY <2>3, <1>2 DEF DecoderRecord
    <3>2. pcmDecoder' = [pcmDecoder EXCEPT !.at = "out", !.frame = f]
      BY <1>2, <2>3, <3>1 DEF DecoderRecord
    <3> f \in 0..PcmFrames OBVIOUS
    <3>3. pcmDecoder' \in DecoderRecord BY <1>2, <3>2 DEF DecoderRecord
    <3>4. /\ pcmDecoder'.at = "out" /\ pcmDecoder'.slot = pcmDecoder.slot
          /\ pcmDecoder'.frame = f
      BY <1>2, <3>2 DEF DecoderRecord
    <3>5. QED BY <3>3, <3>4
  <2>4. QED BY <2>1, <2>2, <2>3 DEF PcmDecode
<1>4. PcmTypeOK' BY <1>1, <1>3 DEF PcmTypeOK, Slots, DecoderRecord
<1>5. PcmHands' BY <1>1, <1>3 DEF PcmHands
<1>6. PcmPlaces' BY <1>1, <1>3 DEF PcmPlaces
<1>7. PcmMemory' BY <1>1, <1>3 DEF PcmMemory
<1>8. QED BY <1>4, <1>5, <1>6, <1>7

(* ... and ends.                                                           *)
LEMMA EndKeepsPcm ==
  ASSUME PcmInv, PcmEnd PROVE PcmInv'
<1> USE PcmAssumption DEF PcmInv
<1>1. /\ UNCHANGED <<pcmq_data, pcmq_free, pcmq_mem, pcmq_done, pcmOut, heard, dropped>>
      /\ pcmDecoder.at = "end" /\ ToDecoder("wait") /\ pcmq_stop' = TRUE
  BY DEF PcmEnd, DecoderAt
<1>2. /\ pcmDecoder' \in DecoderRecord /\ pcmDecoder'.at = "wait"
      /\ pcmDecoder'.slot = pcmDecoder.slot
  BY <1>1, PcmGoes
<1>3. PcmTypeOK' BY <1>1, <1>2 DEF PcmTypeOK, Slots, DecoderRecord
<1>4. PcmHands' BY <1>1, <1>2 DEF PcmHands
<1>5. PcmPlaces' BY <1>1, <1>2 DEF PcmPlaces
<1>6. PcmMemory' BY <1>1, <1>2 DEF PcmMemory
<1>7. QED BY <1>3, <1>4, <1>5, <1>6

LEMMA FreeAllKeepsPcm ==
  ASSUME PcmInv, PcmFreeAll PROVE PcmInv'
<1> USE PcmAssumption DEF PcmInv
<1>1. /\ UNCHANGED <<pcmq_mem, pcmq_stop, pcmq_done, pcmOut, heard>>
      /\ pcmDecoder.at = "wait" /\ pcmq_done /\ ToDecoder("ended")
      /\ pcmq_data' = <<>> /\ pcmq_free' = <<>>
      /\ dropped' = dropped \cup {pcmq_mem[pcmq_data[i]] : i \in DOMAIN pcmq_data}
  BY DEF PcmFreeAll, DecoderAt
<1>2. /\ pcmDecoder' \in DecoderRecord /\ pcmDecoder'.at = "ended"
      /\ pcmDecoder'.slot = pcmDecoder.slot
  BY <1>1, PcmGoes
<1>3. pcmOut.at = "deleted" BY <1>1 DEF PcmHands
<1>4. dropped' \subseteq 1..PcmFrames
  <2>1. ASSUME NEW i \in DOMAIN pcmq_data PROVE pcmq_mem[pcmq_data[i]] \in 1..PcmFrames
    <3>1. i \in 1..Len(pcmq_data) /\ pcmq_data[i] \in Slots BY PcmQueues
    <3>2. Has(pcmq_data, pcmq_data[i]) BY <3>1 DEF Has
    <3>3. QED BY <3>1, <3>2, IsFrame
  <2>2. {pcmq_mem[pcmq_data[i]] : i \in DOMAIN pcmq_data} \subseteq 1..PcmFrames BY <2>1
  <2>3. dropped \subseteq 1..PcmFrames BY DEF PcmTypeOK
  <2>4. QED BY <1>1, <2>2, <2>3
<1>5. PcmTypeOK'
  <2>1. <<>> \in Seq(1..PcmSlots) OBVIOUS
  <2>2. QED BY <1>1, <1>2, <1>4, <2>1 DEF PcmTypeOK, Slots, DecoderRecord
<1>6. PcmHands' BY <1>1, <1>2, <1>3 DEF PcmHands
<1>7. PcmPlaces' BY <1>2 DEF PcmPlaces
<1>8. PcmMemory' BY <1>1, <1>2, <1>3, Nothing DEF PcmMemory
<1>9. QED BY <1>5, <1>6, <1>7, <1>8

-----------------------------------------------------------------------------
(* pcmq_task, while it has not ended: the decoder has neither.             *)
LEMMA ReceiveKeepsPcm ==
  ASSUME PcmInv, OutReceive PROVE PcmInv'
<1> USE PcmAssumption DEF PcmInv
<1>1. /\ UNCHANGED <<pcmq_free, pcmq_mem, pcmq_stop, pcmq_done, pcmDecoder, heard, dropped>>
      /\ pcmOut.at = "receive" /\ pcmOut.slot = {} /\ ~pcmq_done
      /\ pcmDecoder.at \notin {"start", "inline", "ended"}
  BY DEF OutReceive, PcmHands
<1>2. pcmOut \in OutRecord BY DEF PcmTypeOK, OutRecord, Slots
<1>3. CASE pcmOut' = [pcmOut EXCEPT !.at = "stop"] /\ UNCHANGED pcmq_data
  <2>1. pcmOut' \in OutRecord /\ pcmOut'.at = "stop" /\ pcmOut'.slot = {}
    BY <1>1, <1>2, <1>3 DEF OutRecord
  <2>2. PcmTypeOK' BY <1>1, <1>3, <2>1 DEF PcmTypeOK, Slots, OutRecord
  <2>3. PcmHands' BY <1>1, <2>1 DEF PcmHands
  <2>4. PcmPlaces' BY <1>1, <1>3, <2>1 DEF PcmPlaces
  <2>5. PcmMemory' BY <1>1, <1>3, <2>1 DEF PcmMemory
  <2>6. QED BY <2>2, <2>3, <2>4, <2>5
<1>4. CASE /\ pcmq_data # <<>> /\ pcmOut' = [at |-> "render", slot |-> {Head(pcmq_data)}]
           /\ pcmq_data' = Tail(pcmq_data)
  <2>1. PICK s \in Slots : s = Head(pcmq_data) BY <1>4, Received DEF PcmTypeOK, Slots
  <2>2. /\ pcmq_data' \in Seq(Slots) /\ Once(pcmq_data') /\ Has(pcmq_data, s)
        /\ \A t \in Slots : Has(pcmq_data', t) <=> Has(pcmq_data, t) /\ t # s
    BY <1>1, <1>4, <2>1, Received DEF PcmTypeOK, Slots, PcmPlaces
  <2>3. pcmOut' \in OutRecord /\ pcmOut'.at = "render" /\ pcmOut'.slot = {s}
    BY <1>4, <2>1 DEF OutRecord
  <2>4. PcmTypeOK' BY <1>1, <2>2, <2>3 DEF PcmTypeOK, Slots, OutRecord
  <2>5. PcmHands' BY <1>1, <2>3 DEF PcmHands
  <2>6. PcmPlaces' BY <1>1, <2>2, <2>3 DEF PcmPlaces, OneOf
  <2>7. PcmMemory'
    <3>1. pcmq_mem[s] \in 1..PcmFrames BY <2>2, IsFrame
    <3>2. QED BY <1>1, <2>2, <2>3, <3>1 DEF PcmMemory
  <2>8. QED BY <2>4, <2>5, <2>6, <2>7
<1>5. QED BY <1>3, <1>4 DEF OutReceive

LEMMA RenderKeepsPcm ==
  ASSUME PcmInv, OutRender PROVE PcmInv'
<1> USE PcmAssumption DEF PcmInv
<1>1. /\ UNCHANGED <<pcmq_data, pcmq_free, pcmq_mem, pcmq_stop, pcmq_done, pcmDecoder, dropped>>
      /\ pcmOut.at = "render" /\ pcmOut' = [pcmOut EXCEPT !.at = "free"]
  BY DEF OutRender
<1>2. PICK s \in Slots : pcmOut.slot = {s} BY <1>1 DEF PcmHands
<1>3. heard' = Append(heard, pcmq_mem[s]) BY <1>2 DEF OutRender
<1>4. pcmq_mem[s] \in 1..PcmFrames BY <1>1, <1>2 DEF PcmMemory
<1>5. heard' \in Seq(1..PcmFrames) BY <1>3, <1>4, Sent DEF PcmTypeOK
<1>6. pcmOut \in OutRecord BY DEF PcmTypeOK, OutRecord, Slots
<1>7. pcmOut' \in OutRecord /\ pcmOut'.at = "free" /\ pcmOut'.slot = pcmOut.slot
  BY <1>1, <1>6 DEF OutRecord
<1>8. PcmTypeOK' BY <1>1, <1>5, <1>7 DEF PcmTypeOK, Slots, OutRecord
<1>9. PcmHands' BY <1>1, <1>7 DEF PcmHands
<1>10. PcmPlaces' BY <1>1, <1>7 DEF PcmPlaces
<1>11. PcmMemory' BY <1>1, <1>7 DEF PcmMemory
<1>12. QED BY <1>8, <1>9, <1>10, <1>11

LEMMA OutFreeKeepsPcm ==
  ASSUME PcmInv, OutFree PROVE PcmInv'
<1> USE PcmAssumption DEF PcmInv
<1>1. /\ UNCHANGED <<pcmq_data, pcmq_mem, pcmq_stop, pcmq_done, pcmDecoder, heard, dropped>>
      /\ pcmOut.at = "free" /\ pcmOut' = [at |-> "receive", slot |-> {}]
  BY DEF OutFree
<1>2. PICK s \in Slots : pcmOut.slot = {s} BY <1>1 DEF PcmHands
<1>3. pcmq_free' = Append(pcmq_free, s) BY <1>2 DEF OutFree
<1>4. pcmDecoder.at \notin {"start", "inline", "ended"} BY <1>1 DEF PcmHands
<1>5. Once(pcmq_free) /\ ~Has(pcmq_free, s) BY <1>2, <1>4 DEF PcmPlaces, OneOf
<1>6. /\ pcmq_free' \in Seq(Slots) /\ Once(pcmq_free')
      /\ \A t \in Slots : Has(pcmq_free', t) <=> Has(pcmq_free, t) \/ t = s
  BY <1>3, <1>5, PcmQueues, SentOnce
<1>7. pcmOut' \in OutRecord /\ pcmOut'.at = "receive" /\ pcmOut'.slot = {}
  BY <1>1 DEF OutRecord
<1>8. PcmTypeOK' BY <1>1, <1>6, <1>7 DEF PcmTypeOK, Slots, OutRecord
<1>9. PcmHands' BY <1>1, <1>7 DEF PcmHands
<1>10. PcmPlaces' BY <1>1, <1>2, <1>6, <1>7 DEF PcmPlaces, OneOf
<1>11. PcmMemory' BY <1>1, <1>7 DEF PcmMemory
<1>12. QED BY <1>8, <1>9, <1>10, <1>11

LEMMA OutDoneKeepsPcm ==
  ASSUME PcmInv, OutDone PROVE PcmInv'
<1> USE PcmAssumption DEF PcmInv
<1>1. /\ UNCHANGED <<pcmq_data, pcmq_free, pcmq_mem, pcmq_stop, pcmDecoder, heard, dropped>>
      /\ pcmOut.at = "stop" /\ pcmOut' = [pcmOut EXCEPT !.at = "deleted"] /\ pcmq_done' = TRUE
  BY DEF OutDone
<1>2. pcmOut \in OutRecord BY DEF PcmTypeOK, OutRecord, Slots
<1>3. pcmOut' \in OutRecord /\ pcmOut'.at = "deleted" /\ pcmOut'.slot = pcmOut.slot
  BY <1>1, <1>2 DEF OutRecord
<1>4. PcmTypeOK' BY <1>1, <1>3 DEF PcmTypeOK, Slots, OutRecord
<1>5. PcmHands' BY <1>1, <1>3 DEF PcmHands
<1>6. PcmPlaces' BY <1>1, <1>3 DEF PcmPlaces
<1>7. PcmMemory' BY <1>1, <1>3 DEF PcmMemory
<1>8. QED BY <1>4, <1>5, <1>6, <1>7

-----------------------------------------------------------------------------
LEMMA PcmInvNext == PcmInv /\ [PcmNext]_pcmVars => PcmInv'
<1> SUFFICES ASSUME PcmInv, [PcmNext]_pcmVars PROVE PcmInv' OBVIOUS
<1>1. CASE PcmDecoderStep
  BY <1>1, StartKeepsPcm, InlineKeepsPcm, DecodeKeepsPcm, TakeKeepsPcm, CopyKeepsPcm,
     FlushKeepsPcm, FlushFreeKeepsPcm, EndKeepsPcm, FreeAllKeepsPcm DEF PcmDecoderStep
<1>2. CASE PcmOutStep
  BY <1>2, ReceiveKeepsPcm, RenderKeepsPcm, OutFreeKeepsPcm, OutDoneKeepsPcm
  DEF PcmOutStep
<1>3. CASE UNCHANGED pcmVars
  <2>1. PcmTypeOK' BY <1>3 DEF PcmInv, PcmTypeOK, pcmVars
  <2>2. PcmHands' BY <1>3 DEF PcmInv, PcmHands, pcmVars
  <2>3. PcmPlaces' BY <1>3 DEF PcmInv, PcmPlaces, pcmVars
  <2>4. PcmMemory' BY <1>3 DEF PcmInv, PcmMemory, pcmVars
  <2>5. QED BY <2>1, <2>2, <2>3, <2>4 DEF PcmInv
<1>4. QED BY <1>1, <1>2, <1>3, StopKeepsPcm DEF PcmNext

(* Whatever the tasks do with the queue, its slots are where they should   *)
(* be.                                                                     *)
THEOREM PcmInvariant == PcmSpec => []PcmInv
<1>1. QED BY PcmInvInit, PcmInvNext, PTL DEF PcmSpec

(* Every variable of the queue keeps its type: what is heard or dropped is *)
(* a frame, never the rest of one that was heard before.                   *)
THEOREM PcmTypeCorrect == PcmSpec => []PcmTypeOK
<1>1. PcmInv => PcmTypeOK BY DEF PcmInv
<1>2. QED BY <1>1, PcmInvariant, PTL

(* Both queues, one after the other, have what the one or the other has.   *)
LEMMA Together ==
  ASSUME NEW S, NEW q \in Seq(S), NEW r \in Seq(S)
  PROVE  /\ \A s \in S : (\E i \in DOMAIN (q \o r) : (q \o r)[i] = s) <=> Has(q, s) \/ Has(r, s)
         /\ Once(q) /\ Once(r) /\ (\A s \in S : ~(Has(q, s) /\ Has(r, s))) =>
              \A i, j \in DOMAIN (q \o r) : (q \o r)[i] = (q \o r)[j] => i = j
<1> DEFINE c == q \o r
           m == Len(q)
           n == Len(r)
<1>1. /\ m \in Nat /\ n \in Nat /\ DOMAIN c = 1..(m + n)
      /\ \A i \in 1..(m + n) : c[i] = IF i <= m THEN q[i] ELSE r[i - m]
      /\ \A i \in 1..m : q[i] \in S
      /\ \A i \in 1..n : r[i] \in S
  OBVIOUS
<1> HIDE DEF c
<1>2. \A i \in 1..m : i \in DOMAIN c /\ c[i] = q[i] BY <1>1
<1>3. \A i \in 1..n : m + i \in DOMAIN c /\ c[m + i] = r[i] BY <1>1
<1>4. \A i \in DOMAIN c : \/ i \in 1..m /\ c[i] = q[i]
                          \/ i - m \in 1..n /\ c[i] = r[i - m]
  BY <1>1
<1> HIDE DEF m, n
<1>5. \A s \in S : (\E i \in DOMAIN c : c[i] = s) <=> Has(q, s) \/ Has(r, s)
  <2>1. ASSUME NEW s \in S, Has(q, s) \/ Has(r, s) PROVE \E i \in DOMAIN c : c[i] = s
    <3>1. CASE Has(q, s) BY <1>2, <3>1 DEF Has, m
    <3>2. CASE Has(r, s) BY <1>3, <3>2 DEF Has, n
    <3>3. QED BY <2>1, <3>1, <3>2
  <2>2. ASSUME NEW s \in S, NEW i \in DOMAIN c, c[i] = s PROVE Has(q, s) \/ Has(r, s)
    <3>1. CASE i \in 1..m /\ c[i] = q[i] BY <2>2, <3>1 DEF Has, m
    <3>2. CASE i - m \in 1..n /\ c[i] = r[i - m] BY <2>2, <3>2 DEF Has, n
    <3>3. QED BY <1>4, <3>1, <3>2
  <2>3. QED BY <2>1, <2>2
<1>6. ASSUME Once(q), Once(r), \A s \in S : ~(Has(q, s) /\ Has(r, s)),
             NEW i \in DOMAIN c, NEW j \in DOMAIN c, c[i] = c[j]
      PROVE  i = j
  <2>1. i \in Int /\ j \in Int BY <1>1
  <2>2. CASE i \in 1..m /\ j \in 1..m BY <1>2, <1>6, <2>2 DEF Once, m
  <2>3. CASE i - m \in 1..n /\ c[i] = r[i - m] /\ j - m \in 1..n /\ c[j] = r[j - m]
    <3>1. i - m = j - m BY <1>6, <2>3 DEF Once, n
    <3>2. QED BY <1>1, <2>1, <3>1
  <2>4. ASSUME NEW k \in 1..m, NEW l \in 1..n, q[k] = r[l] PROVE FALSE
    <3>1. q[k] \in S /\ Has(q, q[k]) BY <1>1 DEF Has, m
    <3>2. Has(r, q[k]) BY <2>4 DEF Has, n
    <3>3. QED BY <1>6, <3>1, <3>2
  <2>5. QED BY <1>4, <1>6, <2>2, <2>3, <2>4
<1>7. QED BY <1>5, <1>6 DEF c

(* What the invariant says of the slots of both queues together.           *)
LEMMA PlacesAre ==
  ASSUME PcmInv PROVE PcmOnePlace
<1> SUFFICES ASSUME pcmDecoder.at \notin {"start", "inline", "ended"}
             PROVE  LET places == pcmq_free \o pcmq_data
                    IN /\ \A i, j \in DOMAIN places : places[i] = places[j] => i = j
                       /\ \A s \in 1..PcmSlots :
                            \/ s \in PcmHeld /\ \A i \in DOMAIN places : places[i] # s
                            \/ s \notin PcmHeld /\ \E i \in DOMAIN places : places[i] = s
                       /\ pcmDecoder.slot \cap pcmOut.slot = {}
  BY DEF PcmOnePlace, DecoderAt
<1> DEFINE places == pcmq_free \o pcmq_data
<1>1. pcmq_free \in Seq(Slots) /\ pcmq_data \in Seq(Slots)
  BY DEF PcmInv, PcmTypeOK, Slots
<1>2. /\ Once(pcmq_free) /\ Once(pcmq_data)
      /\ \A s \in Slots :
           OneOf(Has(pcmq_free, s), Has(pcmq_data, s), s \in pcmDecoder.slot,
                 s \in pcmOut.slot)
  BY DEF PcmInv, PcmPlaces
<1>3. \A s \in Slots :
        (\E i \in DOMAIN places : places[i] = s) <=> Has(pcmq_free, s) \/ Has(pcmq_data, s)
  BY <1>1, Together
<1>4. \A i, j \in DOMAIN places : places[i] = places[j] => i = j
  <2>1. \A s \in Slots : ~(Has(pcmq_free, s) /\ Has(pcmq_data, s)) BY <1>2 DEF OneOf
  <2>2. QED BY <1>1, <1>2, <2>1, Together
<1> HIDE DEF places
<1>5. \A s \in 1..PcmSlots :
        \/ s \in PcmHeld /\ \A i \in DOMAIN places : places[i] # s
        \/ s \notin PcmHeld /\ \E i \in DOMAIN places : places[i] = s
  BY <1>2, <1>3 DEF OneOf, PcmHeld, Slots
<1>6. pcmDecoder.slot \cap pcmOut.slot = {}
  <2>1. pcmDecoder.slot \subseteq Slots BY DEF PcmInv, PcmTypeOK, Slots
  <2>2. QED BY <1>2, <2>1 DEF OneOf
<1>7. QED BY <1>4, <1>5, <1>6 DEF places

(* From the start of the queue to its end a slot is in one of the queues,  *)
(* once, or in the hand of one of the tasks, for any number of slots.      *)
THEOREM PcmOnePlaceHolds == PcmSpec => []PcmOnePlace
<1>1. QED BY PlacesAre, PcmInvariant, PTL

-----------------------------------------------------------------------------
(* The order of the frames.  PcmInOrder says it of one sequence; here the  *)
(* frames are those heard, the one being rendered and those queued.        *)
Past == {heard[i] : i \in 1..Len(heard)}
Present == {pcmq_mem[s] : s \in IF pcmOut.at = "render" THEN pcmOut.slot ELSE {}}
Future == {pcmq_mem[pcmq_data[i]] : i \in 1..Len(pcmq_data)}

Before(F, G) == \A f \in F, g \in G : f < g
Rising(q) == \A i, j \in 1..Len(q) : i < j => q[i] < q[j]
QueueRising == \A i, j \in 1..Len(pcmq_data) :
                 i < j => pcmq_mem[pcmq_data[i]] < pcmq_mem[pcmq_data[j]]

PcmOrder ==
  /\ Rising(heard) /\ QueueRising
  /\ Before(Past, Present) /\ Before(Past, Future) /\ Before(Present, Future)
  /\ Past \cup Present \cup Future = (1..PcmSent) \ dropped
  /\ dropped \subseteq 1..PcmSent

LEMMA PcmOrderInit == PcmInit => PcmOrder
<1> SUFFICES ASSUME PcmInit PROVE PcmOrder OBVIOUS
<1>1. 1..Len(<<>>) = {} OBVIOUS
<1>2. Past = {} /\ Present = {} /\ Future = {}
  BY <1>1 DEF PcmInit, Past, Present, Future
<1>3. PcmSent = 0 /\ dropped = {} BY DEF PcmInit, PcmSent
<1>4. Rising(heard) /\ QueueRising BY <1>1 DEF PcmInit, Rising, QueueRising
<1>5. QED BY <1>2, <1>3, <1>4 DEF PcmOrder, Before

(* Nothing about the frames changes, though slots that are not queued may. *)
LEMMA SameOrder ==
  ASSUME PcmInv, PcmOrder, UNCHANGED <<heard, pcmq_data, dropped>>,
         Present' = Present, PcmSent' = PcmSent,
         \A s \in Slots : Has(pcmq_data, s) => pcmq_mem'[s] = pcmq_mem[s]
  PROVE  PcmOrder'
<1>1. pcmq_data \in Seq(Slots) BY PcmQueues DEF PcmInv
<1>2. \A i \in 1..Len(pcmq_data) : pcmq_mem'[pcmq_data[i]] = pcmq_mem[pcmq_data[i]]
  <2>1. SUFFICES ASSUME NEW i \in 1..Len(pcmq_data)
                 PROVE  pcmq_mem'[pcmq_data[i]] = pcmq_mem[pcmq_data[i]]
    OBVIOUS
  <2>2. pcmq_data[i] \in Slots BY <1>1
  <2>3. Has(pcmq_data, pcmq_data[i]) BY DEF Has
  <2>4. QED BY <2>2, <2>3
<1>3. Future' = Future /\ Past' = Past BY <1>2 DEF Future, Past
<1>4. QueueRising' BY <1>2 DEF QueueRising, PcmOrder
<1>5. QED BY <1>3, <1>4 DEF PcmOrder, Rising

(* A frame is the next one of a sequence of frames.                        *)
LEMMA RisingOn ==
  ASSUME NEW S, NEW q \in Seq(S), NEW f, \A i \in 1..Len(q) : q[i] < f,
         Rising(q), NEW r, r = Append(q, f)
  PROVE  /\ Rising(r)
         /\ {r[i] : i \in 1..Len(r)} = {q[i] : i \in 1..Len(q)} \cup {f}
<1>1. /\ Len(q) \in Nat /\ Len(r) = Len(q) + 1 /\ r[Len(q) + 1] = f
      /\ \A i \in 1..Len(q) : r[i] = q[i]
  OBVIOUS
<1>2. \A i \in 1..Len(r) : i \in 1..Len(q) \/ i = Len(q) + 1 BY <1>1
<1>3. Rising(r) BY <1>1, <1>2 DEF Rising
<1>4. {r[i] : i \in 1..Len(r)} = {q[i] : i \in 1..Len(q)} \cup {f} BY <1>1, <1>2
<1>5. QED BY <1>3, <1>4

LEMMA SentNat == PcmInv => PcmSent \in Nat
  BY PcmAssumption DEF PcmInv, PcmTypeOK, PcmMemory, PcmSent

(* Inline, a frame is heard as soon as it is decoded. *)
LEMMA InlineOrder ==
  ASSUME PcmInv, PcmOrder, PcmInline PROVE PcmOrder'
<1>1. /\ UNCHANGED <<pcmq_data, pcmq_mem, pcmOut, dropped>> /\ pcmDecoder.at = "inline"
      /\ heard' = Append(heard, pcmDecoder.frame + 1)
      /\ pcmOut.at = "none" /\ pcmq_data = <<>> /\ heard \in Seq(1..PcmFrames)
  BY DEF PcmInline, DecoderAt, PcmInv, PcmHands, PcmTypeOK
<1>2. PcmSent \in Nat /\ PcmSent' = PcmSent + 1 /\ PcmSent = pcmDecoder.frame
  BY SentNat DEF PcmInline, PcmInv, PcmTypeOK, PcmSent, DecoderAt
<1> DEFINE f == PcmSent + 1
<1>3. Present = {} /\ Present' = {} /\ Future = {} /\ Future' = {}
  <2>1. 1..Len(<<>>) = {} OBVIOUS
  <2>2. QED BY <1>1, <2>1 DEF Present, Future
<1>4. Past \subseteq 1..PcmSent BY DEF PcmOrder
<1>5. \A i \in 1..Len(heard) : heard[i] < f
  <2>1. \A i \in 1..Len(heard) : heard[i] \in Past BY DEF Past
  <2>2. \A p \in Past : p < f BY <1>2, <1>4
  <2>3. QED BY <2>1, <2>2
<1>6. heard' = Append(heard, f) BY <1>1, <1>2
<1>7. Rising(heard)' /\ Past' = Past \cup {f}
  BY <1>1, <1>5, <1>6, RisingOn DEF PcmOrder, Past, Rising
<1>8. QueueRising' BY <1>1 DEF QueueRising, PcmOrder
<1>9. (1..PcmSent)' = (1..PcmSent) \cup {f} /\ f \notin 1..PcmSent BY <1>2
<1>10. Past' \cup Present' \cup Future' = (1..PcmSent') \ dropped'
  BY <1>1, <1>3, <1>7, <1>9 DEF PcmOrder
<1>11. QED BY <1>1, <1>3, <1>7, <1>8, <1>9, <1>10 DEF PcmOrder, Before

(* A frame that is decoded is not sent yet; ... *)
LEMMA DecodeOrder ==
  ASSUME PcmInv, PcmOrder, PcmDecode PROVE PcmOrder'
<1>1. UNCHANGED <<heard, pcmq_data, dropped, pcmq_mem, pcmOut>> BY DEF PcmDecode
<1>2. pcmDecoder \in DecoderRecord BY DEF PcmInv, PcmTypeOK, DecoderRecord, Slots
<1>3. PcmSent' = PcmSent
  <2>1. pcmDecoder.at = "decode" /\ pcmDecoder.frame \in Nat
    BY <1>2 DEF PcmDecode, DecoderAt, DecoderRecord
  <2>2. CASE pcmDecoder' = [pcmDecoder EXCEPT !.at = "out", !.frame = @ + 1]
    <3>1. pcmDecoder'.at = "out" /\ pcmDecoder'.frame = pcmDecoder.frame + 1
      BY <1>2, <2>2 DEF DecoderRecord
    <3>2. QED BY <2>1, <3>1 DEF PcmSent
  <2>3. CASE ToDecoder("flush") \/ ToDecoder("end")
    BY <1>2, <2>1, <2>3 DEF ToDecoder, DecoderRecord, PcmSent
  <2>4. QED BY <2>2, <2>3 DEF PcmDecode
<1>4. QED BY <1>1, <1>3, SameOrder DEF Present

(* ... it waits for a slot, or is dropped, ... *)
LEMMA TakeOrder ==
  ASSUME PcmInv, PcmOrder, PcmTake PROVE PcmOrder'
<1>1. pcmDecoder \in DecoderRecord /\ DecoderAt("out") /\ UNCHANGED <<heard, pcmq_data, pcmOut>>
  BY DEF PcmTake, PcmInv, PcmTypeOK, DecoderRecord, Slots
<1>2. CASE /\ pcmq_free # <<>> /\ ToDecoderSlot("copy", {Head(pcmq_free)})
           /\ pcmq_mem' = [pcmq_mem EXCEPT ![Head(pcmq_free)] = 0]
           /\ UNCHANGED dropped
  <2>1. PcmSent' = PcmSent
    BY <1>1, <1>2 DEF ToDecoderSlot, DecoderRecord, PcmSent, DecoderAt
  <2>2. PICK s \in Slots : s = Head(pcmq_free) /\ Has(pcmq_free, s)
    BY <1>2, Received, PcmQueues DEF PcmInv
  <2>3. \A t \in Slots : Has(pcmq_data, t) \/ t \in pcmOut.slot => t # s
    BY <1>1, <2>2 DEF PcmInv, PcmPlaces, OneOf, DecoderAt
  <2>4. \A t \in Slots : t # s => pcmq_mem'[t] = pcmq_mem[t]
    BY <1>2, <2>2 DEF PcmInv, PcmTypeOK, Slots
  <2>5. pcmOut.slot \subseteq Slots BY DEF PcmInv, PcmTypeOK, Slots
  <2>6. Present' = Present BY <1>1, <2>3, <2>4, <2>5 DEF Present
  <2>7. QED BY <1>1, <1>2, <2>1, <2>3, <2>4, <2>6, SameOrder
<1>3. CASE /\ ToDecoder("end") /\ dropped' = dropped \cup {pcmDecoder.frame}
           /\ UNCHANGED <<pcmq_free, pcmq_mem>>
  <2>1. PcmSent \in Nat /\ PcmSent' = PcmSent + 1 /\ pcmDecoder.frame = PcmSent + 1
    BY <1>1, <1>3, SentNat DEF ToDecoder, DecoderRecord, PcmSent, DecoderAt
  <2>2. (1..PcmSent)' = (1..PcmSent) \cup {PcmSent + 1} /\ PcmSent + 1 \notin 1..PcmSent
    BY <2>1
  <2>3. dropped' = dropped \cup {PcmSent + 1} BY <1>3, <2>1
  <2>4. (1..PcmSent)' \ dropped' = (1..PcmSent) \ dropped BY <2>2, <2>3
  <2>5. Past' = Past /\ Present' = Present /\ Future' = Future
    BY <1>1, <1>3 DEF Past, Present, Future
  <2>6. Rising(heard)' /\ QueueRising' BY <1>1, <1>3 DEF PcmOrder, Rising, QueueRising
  <2>7. QED BY <2>2, <2>3, <2>4, <2>5, <2>6 DEF PcmOrder
<1>4. QED BY <1>2, <1>3 DEF PcmTake

(* ... and is sent behind the others. *)
LEMMA CopyOrder ==
  ASSUME PcmInv, PcmOrder, PcmCopy PROVE PcmOrder'
<1> DEFINE f == pcmDecoder.frame
<1>1. /\ pcmDecoder \in DecoderRecord /\ pcmDecoder.at = "copy"
      /\ UNCHANGED <<heard, pcmOut, dropped>> /\ ToDecoderSlot("decode", {})
  BY DEF PcmCopy, PcmInv, PcmTypeOK, DecoderRecord, Slots, DecoderAt
<1>2. PICK s \in Slots : pcmDecoder.slot = {s} BY <1>1 DEF PcmInv, PcmHands
<1>3. /\ pcmq_mem' = [pcmq_mem EXCEPT ![s] = f]
      /\ pcmq_data' = Append(pcmq_data, s)
  BY <1>2 DEF PcmCopy
<1>4. PcmSent \in Nat /\ f = PcmSent + 1 /\ PcmSent' = f
  BY <1>1, SentNat DEF ToDecoderSlot, DecoderRecord, PcmSent
<1>5. \A t \in Slots : Has(pcmq_data, t) \/ t \in pcmOut.slot => t # s
  BY <1>1, <1>2 DEF PcmInv, PcmPlaces, OneOf
<1>6. /\ pcmq_mem'[s] = f /\ \A t \in Slots : t # s => pcmq_mem'[t] = pcmq_mem[t]
  BY <1>3 DEF PcmInv, PcmTypeOK, Slots
<1>7. pcmOut.slot \subseteq Slots BY DEF PcmInv, PcmTypeOK, Slots
<1>8. Present' = Present BY <1>1, <1>5, <1>6, <1>7 DEF Present
<1>9. Past' = Past /\ Rising(heard)' BY <1>1 DEF Past, PcmOrder, Rising
<1> DEFINE n == Len(pcmq_data)
<1>10. pcmq_data \in Seq(Slots) BY PcmQueues DEF PcmInv
<1>11. /\ n \in Nat /\ Len(pcmq_data') = n + 1 /\ pcmq_data'[n + 1] = s
       /\ \A i \in 1..n : pcmq_data'[i] = pcmq_data[i] /\ pcmq_data[i] \in Slots
  BY <1>3, <1>10
<1>12. \A i \in 1..n : pcmq_mem'[pcmq_data'[i]] = pcmq_mem[pcmq_data[i]]
  <2>1. SUFFICES ASSUME NEW i \in 1..n PROVE pcmq_mem'[pcmq_data'[i]] = pcmq_mem[pcmq_data[i]]
    OBVIOUS
  <2>2. Has(pcmq_data, pcmq_data[i]) BY DEF Has
  <2>3. QED BY <1>5, <1>6, <1>11, <2>2
<1>13. pcmq_mem'[pcmq_data'[n + 1]] = f BY <1>6, <1>11
<1> HIDE DEF n, f
<1>14. \A i \in 1..Len(pcmq_data') : i \in 1..n \/ i = n + 1 BY <1>11
<1>15. Future' = Future \cup {f}
  BY <1>11, <1>12, <1>13, <1>14 DEF Future, n
<1>16. \A g \in Past \cup Present \cup Future : g < f
  <2>1. Past \cup Present \cup Future \subseteq 1..PcmSent BY DEF PcmOrder
  <2>2. QED BY <1>4, <2>1
<1>17. QueueRising'
  <2>1. \A i \in 1..n : pcmq_mem[pcmq_data[i]] < f BY <1>16 DEF Future, n
  <2>2. \A i, j \in 1..n : i < j => pcmq_mem[pcmq_data[i]] < pcmq_mem[pcmq_data[j]]
    BY DEF PcmOrder, QueueRising, n
  <2>3. QED BY <1>11, <1>12, <1>13, <1>14, <2>1, <2>2 DEF QueueRising
<1>18. (1..PcmSent)' = (1..PcmSent) \cup {f} /\ f \notin 1..PcmSent BY <1>4
<1>19. f \notin dropped BY <1>18 DEF PcmOrder
<1>20. QED
  BY <1>1, <1>8, <1>9, <1>15, <1>16, <1>17, <1>18, <1>19 DEF PcmOrder, Before

(* What is behind the first frame that is queued. *)
LEMMA Behind ==
  ASSUME PcmInv, PcmOrder, pcmq_data # <<>>, pcmq_data' = Tail(pcmq_data),
         UNCHANGED pcmq_mem, NEW f, f = pcmq_mem[Head(pcmq_data)]
  PROVE  /\ QueueRising' /\ Future = Future' \cup {f} /\ Before({f}, Future')
         /\ f \notin Future'
<1> DEFINE n == Len(pcmq_data)
<1>1. pcmq_data \in Seq(Slots) BY PcmQueues DEF PcmInv
<1>2. /\ n \in Nat \ {0} /\ Len(pcmq_data') = n - 1 /\ Head(pcmq_data) = pcmq_data[1]
      /\ \A i \in 1..(n - 1) : pcmq_data'[i] = pcmq_data[i + 1]
  BY <1>1
<1> HIDE DEF n
<1>3. \A i, j \in 1..n : i < j => pcmq_mem[pcmq_data[i]] < pcmq_mem[pcmq_data[j]]
  BY DEF PcmOrder, QueueRising, n
<1>4. QueueRising'
  <2>1. SUFFICES ASSUME NEW i \in 1..(n - 1), NEW j \in 1..(n - 1), i < j
                 PROVE  pcmq_mem[pcmq_data'[i]] < pcmq_mem[pcmq_data'[j]]
    BY <1>2 DEF QueueRising
  <2>2. i + 1 \in 1..n /\ j + 1 \in 1..n /\ i + 1 < j + 1 BY <1>2, <2>1
  <2>3. QED BY <1>2, <1>3, <2>2
<1>5. /\ \A i \in 1..n : i = 1 \/ (i - 1 \in 1..(n - 1) /\ (i - 1) + 1 = i)
      /\ \A i \in 1..(n - 1) : i + 1 \in 1..n
      /\ 1 \in 1..n
  BY <1>2
<1>6. Future = Future' \cup {f}
  <2>1. Future = {pcmq_mem[pcmq_data[i]] : i \in 1..n} BY DEF Future, n
  <2>2. Future' = {pcmq_mem[pcmq_data[i + 1]] : i \in 1..(n - 1)} BY <1>2 DEF Future
  <2>3. ASSUME NEW i \in 1..n PROVE pcmq_mem[pcmq_data[i]] \in Future' \cup {f}
    <3>1. CASE i = 1 BY <1>2, <3>1
    <3>2. CASE i - 1 \in 1..(n - 1) /\ (i - 1) + 1 = i
      BY <2>2, <3>2
    <3>3. QED BY <1>5, <3>1, <3>2
  <2>4. f \in Future BY <1>2, <1>5, <2>1
  <2>5. Future' \subseteq Future BY <1>5, <2>1, <2>2
  <2>6. Future \subseteq Future' \cup {f} BY <2>1, <2>3
  <2>7. QED BY <2>4, <2>5, <2>6
<1>7. Before({f}, Future') BY <1>2, <1>3 DEF Before, Future
<1>8. \A i \in 1..n : pcmq_data[i] \in Slots BY <1>1 DEF n
<1>9. \A s \in Slots : pcmq_mem[s] \in Nat
  <2>1. pcmq_mem \in [Slots -> 0..PcmFrames] BY DEF PcmInv, PcmTypeOK, Slots
  <2>2. \A x \in 0..PcmFrames : x \in Nat BY PcmAssumption
  <2>3. QED BY <2>1, <2>2
<1>10. f \in Nat BY <1>2, <1>8, <1>9
<1>11. f \notin Future' BY <1>7, <1>10 DEF Before
<1>12. QED BY <1>4, <1>6, <1>7, <1>11

(* A flush drops it; ... *)
LEMMA FlushOrder ==
  ASSUME PcmInv, PcmOrder, PcmFlush PROVE PcmOrder'
<1>1. /\ pcmDecoder \in DecoderRecord /\ pcmDecoder.at = "flush"
      /\ UNCHANGED <<heard, pcmOut, pcmq_mem>>
  BY DEF PcmFlush, PcmInv, PcmTypeOK, DecoderRecord, Slots, DecoderAt
<1>2. PcmSent' = PcmSent
  BY <1>1 DEF PcmFlush, ToDecoder, ToDecoderSlot, DecoderRecord, PcmSent
<1>3. Present' = Present /\ Past' = Past /\ Rising(heard)'
  BY <1>1 DEF Present, Past, PcmOrder, Rising
<1>4. CASE UNCHANGED <<pcmq_data, dropped>> BY <1>1, <1>2, <1>3, <1>4, SameOrder
<1>5. CASE /\ pcmq_data # <<>> /\ pcmq_data' = Tail(pcmq_data)
           /\ dropped' = dropped \cup {pcmq_mem[Head(pcmq_data)]}
  <2> DEFINE f == pcmq_mem[Head(pcmq_data)]
  <2>1. QueueRising' /\ Future = Future' \cup {f} /\ f \notin Future'
    BY <1>1, <1>5, Behind
  <2>2. f \in Nat /\ f \in (1..PcmSent) \ dropped BY <2>1, SentNat DEF PcmOrder
  <2>3. f \notin Past \cup Present BY <2>1, <2>2 DEF PcmOrder, Before
  <2> HIDE DEF f
  <2>4. dropped' = dropped \cup {f} BY <1>5 DEF f
  <2>5. QED BY <1>2, <1>3, <2>1, <2>2, <2>3, <2>4 DEF PcmOrder, Before
<1>6. QED BY <1>4, <1>5 DEF PcmFlush

(* ... the end drops what is queued. *)
LEMMA FreeAllOrder ==
  ASSUME PcmInv, PcmOrder, PcmFreeAll PROVE PcmOrder'
<1>1. /\ pcmDecoder \in DecoderRecord /\ pcmDecoder.at = "wait" /\ pcmq_data' = <<>>
      /\ UNCHANGED <<heard, pcmOut, pcmq_mem>> /\ pcmOut.at = "deleted"
  BY DEF PcmFreeAll, PcmInv, PcmTypeOK, PcmHands, DecoderRecord, Slots, DecoderAt
<1>2. PcmSent' = PcmSent
  BY <1>1 DEF PcmFreeAll, ToDecoder, DecoderRecord, PcmSent
<1>3. 1..Len(<<>>) = {} OBVIOUS
<1>4. Present = {} /\ Present' = {} /\ Past' = Past /\ Rising(heard)' /\ Future' = {}
      /\ QueueRising'
  BY <1>1, <1>3 DEF Present, Past, Future, PcmOrder, Rising, QueueRising
<1>5. dropped' = dropped \cup Future
  <2>1. pcmq_data \in Seq(Slots) BY PcmQueues DEF PcmInv
  <2>2. DOMAIN pcmq_data = 1..Len(pcmq_data) BY <2>1
  <2>3. QED BY <2>2 DEF PcmFreeAll, Future
<1>6. \A f \in Future : f \notin Past
  <2>1. Future \subseteq 1..PcmSent BY DEF PcmOrder
  <2>2. Future \subseteq Nat BY <2>1, SentNat
  <2>3. QED BY <2>2 DEF PcmOrder, Before
<1>7. QED BY <1>2, <1>4, <1>5, <1>6 DEF PcmOrder, Before

(* pcmq_task takes the first frame, ... *)
LEMMA ReceiveOrder ==
  ASSUME PcmInv, PcmOrder, OutReceive PROVE PcmOrder'
<1>1. /\ pcmOut \in OutRecord /\ pcmOut.at = "receive"
      /\ UNCHANGED <<heard, pcmDecoder, pcmq_mem, dropped>>
  BY DEF OutReceive, PcmInv, PcmTypeOK, OutRecord, Slots
<1>2. PcmSent' = PcmSent BY <1>1 DEF PcmSent
<1>3. Past' = Past /\ Rising(heard)' /\ Present = {}
  BY <1>1 DEF Present, Past, PcmOrder, Rising
<1>4. CASE pcmOut' = [pcmOut EXCEPT !.at = "stop"] /\ UNCHANGED pcmq_data
  <2>1. Present' = {} BY <1>1, <1>4 DEF OutRecord, Present
  <2>2. QED BY <1>1, <1>2, <1>3, <1>4, <2>1, SameOrder
<1>5. CASE /\ pcmq_data # <<>> /\ pcmq_data' = Tail(pcmq_data)
           /\ pcmOut' = [at |-> "render", slot |-> {Head(pcmq_data)}]
  <2> DEFINE f == pcmq_mem[Head(pcmq_data)]
  <2>1. QueueRising' /\ Future = Future' \cup {f} /\ Before({f}, Future')
    BY <1>1, <1>5, Behind
  <2>2. Present' = {f} BY <1>1, <1>5 DEF Present
  <2> HIDE DEF f
  <2>3. QED BY <1>1, <1>2, <1>3, <2>1, <2>2 DEF PcmOrder, Before
<1>6. QED BY <1>4, <1>5 DEF OutReceive

(* ... and renders it. *)
LEMMA RenderOrder ==
  ASSUME PcmInv, PcmOrder, OutRender PROVE PcmOrder'
<1>1. /\ pcmOut \in OutRecord /\ pcmOut.at = "render"
      /\ UNCHANGED <<pcmDecoder, pcmq_mem, pcmq_data, dropped>>
      /\ pcmOut' = [pcmOut EXCEPT !.at = "free"] /\ heard \in Seq(1..PcmFrames)
  BY DEF OutRender, PcmInv, PcmTypeOK, OutRecord, Slots
<1>2. PICK s \in Slots : pcmOut.slot = {s} BY <1>1 DEF PcmInv, PcmHands
<1> DEFINE f == pcmq_mem[s]
<1>3. Present = {f} /\ heard' = Append(heard, f) BY <1>1, <1>2 DEF Present, OutRender
<1>4. Present' = {} BY <1>1 DEF OutRecord, Present
<1>5. PcmSent' = PcmSent /\ Future' = Future /\ QueueRising'
  BY <1>1 DEF PcmSent, Future, QueueRising, PcmOrder
<1> HIDE DEF f
<1>6. \A i \in 1..Len(heard) : heard[i] < f BY <1>3 DEF PcmOrder, Before, Past
<1>7. Rising(heard)' /\ Past' = Past \cup {f}
  BY <1>1, <1>3, <1>6, RisingOn DEF PcmOrder, Past, Rising
<1>8. QED BY <1>1, <1>3, <1>4, <1>5, <1>7 DEF PcmOrder, Before

LEMMA PcmOrderNext == PcmInv /\ PcmOrder /\ [PcmNext]_pcmVars => PcmOrder'
<1> SUFFICES ASSUME PcmInv, PcmOrder, [PcmNext]_pcmVars PROVE PcmOrder' OBVIOUS
<1>1. CASE PcmStart \/ PcmFlushFree \/ PcmEnd
  <2>1. pcmDecoder \in DecoderRecord /\ UNCHANGED <<heard, pcmq_data, dropped, pcmq_mem>>
    BY <1>1 DEF PcmStart, PcmFlushFree, PcmEnd, PcmInv, PcmTypeOK, DecoderRecord, Slots
  <2>2. PcmSent' = PcmSent
    BY <1>1, <2>1 DEF PcmStart, PcmFlushFree, PcmEnd, DecoderAt, ToDecoder, ToDecoderSlot,
       PcmSent, DecoderRecord
  <2>3. pcmOut \in OutRecord BY DEF PcmInv, PcmTypeOK, OutRecord, Slots
  <2>4. Present' = Present
    <3>1. CASE PcmStart
      <4>1. pcmOut.at = "none" /\ pcmOut'.at \in {"none", "receive"}
        BY <2>3, <3>1 DEF PcmStart, DecoderAt, PcmInv, PcmHands, OutRecord
      <4>2. QED BY <4>1 DEF Present
    <3>2. CASE PcmFlushFree \/ PcmEnd BY <2>1, <3>2 DEF PcmFlushFree, PcmEnd, Present
    <3>3. QED BY <1>1, <3>1, <3>2
  <2>5. QED BY <2>1, <2>2, <2>4, SameOrder
<1>2. CASE OutFree \/ OutDone
  <2>1. pcmOut \in OutRecord /\ UNCHANGED <<heard, pcmq_data, dropped, pcmq_mem, pcmDecoder>>
    BY <1>2 DEF OutFree, OutDone, PcmInv, PcmTypeOK, OutRecord, Slots
  <2>2. pcmOut.at # "render" /\ pcmOut'.at # "render"
    BY <1>2, <2>1 DEF OutFree, OutDone, OutRecord
  <2>3. QED BY <2>1, <2>2, SameOrder DEF Present, PcmSent
<1>3. CASE UNCHANGED pcmVars BY <1>3, SameOrder DEF pcmVars, Present, PcmSent
<1>4. CASE PcmStop BY <1>4, StopsDecoder, SameOrder DEF PcmInv, Present, PcmSent
<1>5. QED
  BY <1>1, <1>2, <1>3, <1>4, InlineOrder, DecodeOrder, TakeOrder, CopyOrder, FlushOrder,
     FreeAllOrder, ReceiveOrder, RenderOrder DEF PcmNext, PcmDecoderStep, PcmOutStep

(* One rising sequence after another. *)
Items(q) == {q[i] : i \in 1..Len(q)}

LEMMA Joined ==
  ASSUME NEW q \in Seq(Nat), NEW r \in Seq(Nat), NEW c, c = q \o r,
         Rising(q), Rising(r), Before(Items(q), Items(r))
  PROVE  c \in Seq(Nat) /\ Rising(c) /\ Items(c) = Items(q) \cup Items(r)
<1> DEFINE m == Len(q)
           n == Len(r)
<1>1. /\ m \in Nat /\ n \in Nat /\ c \in Seq(Nat) /\ Len(c) = m + n
      /\ \A i \in 1..m : c[i] = q[i]
      /\ \A i \in 1..n : c[m + i] = r[i]
  OBVIOUS
<1> HIDE DEF m, n
<1>2. \A i \in 1..m : q[i] \in Items(q) BY DEF Items, m
<1>3. \A i \in 1..n : r[i] \in Items(r) BY DEF Items, n
<1>4. \A i \in 1..(m + n) : i \in 1..m \/ (i - m \in 1..n /\ m + (i - m) = i) BY <1>1
<1>5. \A i \in 1..(m + n) : \/ i \in 1..m /\ c[i] = q[i]
                            \/ i - m \in 1..n /\ c[i] = r[i - m]
  <2>1. SUFFICES ASSUME NEW i \in 1..(m + n)
                 PROVE  \/ i \in 1..m /\ c[i] = q[i]
                        \/ i - m \in 1..n /\ c[i] = r[i - m]
    OBVIOUS
  <2>2. CASE i \in 1..m BY <1>1, <2>2
  <2>3. CASE i - m \in 1..n /\ m + (i - m) = i
    <3>1. c[m + (i - m)] = r[i - m] BY <1>1, <2>3
    <3>2. QED BY <2>3, <3>1
  <2>4. QED BY <1>4, <2>2, <2>3
<1>6. Rising(c)
  <2>1. SUFFICES ASSUME NEW i \in 1..(m + n), NEW j \in 1..(m + n), i < j PROVE c[i] < c[j]
    BY <1>1 DEF Rising
  <2>2. CASE i \in 1..m /\ j \in 1..m BY <1>5, <2>1, <2>2, <1>1 DEF Rising, m
  <2>3. CASE i \in 1..m /\ j \notin 1..m
    <3>1. c[i] \in Items(q) /\ c[j] \in Items(r) BY <1>2, <1>3, <1>5, <2>3, <1>1
    <3>2. QED BY <3>1 DEF Before
  <2>4. CASE i \notin 1..m
    <3>1. /\ i - m \in 1..n /\ c[i] = r[i - m]
          /\ j - m \in 1..n /\ c[j] = r[j - m] /\ i - m < j - m
      BY <1>1, <1>5, <2>1, <2>4
    <3>2. QED BY <3>1 DEF Rising, n
  <2>5. QED BY <2>2, <2>3, <2>4
<1>7. Items(c) = Items(q) \cup Items(r)
  <2>1. Items(c) = {c[i] : i \in 1..(m + n)} BY <1>1 DEF Items
  <2>2. Items(c) \subseteq Items(q) \cup Items(r) BY <1>2, <1>3, <1>5, <2>1
  <2>3. \A i \in 1..m : i \in 1..(m + n) BY <1>1
  <2>4. \A i \in 1..n : m + i \in 1..(m + n) BY <1>1
  <2>5. Items(q) \subseteq Items(c) BY <1>1, <2>1, <2>3 DEF Items, m
  <2>6. \A i \in 1..n : c[m + i] \in Items(c) BY <2>1, <2>4
  <2>7. Items(r) \subseteq Items(c)
    <3>1. \A i \in 1..n : r[i] \in Items(c) BY <1>1, <2>6
    <3>2. QED BY <3>1 DEF Items, n
  <2>8. QED BY <2>2, <2>5, <2>7
<1>8. QED BY <1>1, <1>6, <1>7

LEMMA SeqWiden == ASSUME NEW P, NEW Q, P \subseteq Q, NEW s \in Seq(P) PROVE s \in Seq(Q)
  OBVIOUS

(* What the invariants say of the frames, from those heard to those queued.*)
LEMMA OrderIs ==
  ASSUME PcmInv, PcmOrder PROVE PcmInOrder
<1> DEFINE w == PcmRendering
           d == [i \in 1..Len(pcmq_data) |-> pcmq_mem[pcmq_data[i]]]
           hw == heard \o w
<1>1. heard \in Seq(Nat) /\ pcmq_data \in Seq(Slots) /\ \A s \in Slots : pcmq_mem[s] \in Nat
  <2>1. 1..PcmFrames \subseteq Nat BY PcmAssumption
  <2>2. heard \in Seq(1..PcmFrames) BY DEF PcmInv, PcmTypeOK
  <2>3. heard \in Seq(Nat) BY <2>1, <2>2, SeqWiden
  <2>4. QED BY <2>3, PcmQueues, PcmAssumption DEF PcmInv, PcmTypeOK, Slots
<1>2. w \in Seq(Nat) /\ Rising(w) /\ Items(w) = Present
  <2>1. CASE pcmOut.at = "render"
    <3>1. PICK s \in Slots : pcmOut.slot = {s} BY <2>1 DEF PcmInv, PcmHands
    <3>2. (CHOOSE x \in pcmOut.slot : TRUE) = s BY <3>1
    <3>3. w = <<pcmq_mem[s]>> BY <2>1, <3>2 DEF PcmRendering
    <3>4. w \in Seq(Nat) /\ Len(w) = 1 /\ w[1] = pcmq_mem[s] BY <1>1, <3>3
    <3>5. Present = {pcmq_mem[s]} BY <2>1, <3>1 DEF Present
    <3> HIDE DEF w
    <3>6. QED BY <3>4, <3>5 DEF Rising, Items
  <2>2. CASE pcmOut.at # "render"
    <3>1. w = <<>> /\ Present = {} BY <2>2 DEF PcmRendering, Present
    <3>2. 1..Len(<<>>) = {} /\ <<>> \in Seq(Nat) OBVIOUS
    <3>3. QED BY <3>1, <3>2 DEF Rising, Items
  <2>3. QED BY <2>1, <2>2
<1>3. d \in Seq(Nat) /\ Rising(d) /\ Items(d) = Future
  <2>1. Len(pcmq_data) \in Nat /\ \A i \in 1..Len(pcmq_data) : pcmq_data[i] \in Slots
    BY <1>1
  <2>2. d \in Seq(Nat) /\ Len(d) = Len(pcmq_data)
    <3>1. d \in [1..Len(pcmq_data) -> Nat] BY <1>1, <2>1
    <3>2. QED BY <2>1, <3>1
  <2>3. \A i \in 1..Len(pcmq_data) : d[i] = pcmq_mem[pcmq_data[i]] OBVIOUS
  <2> HIDE DEF d
  <2>4. QED BY <2>2, <2>3 DEF PcmOrder, QueueRising, Rising, Items, Future
<1> HIDE DEF w, d
<1>4. hw \in Seq(Nat) /\ Rising(hw) /\ Items(hw) = Past \cup Present
  <2>1. Rising(heard) /\ Items(heard) = Past BY DEF PcmOrder, Past, Items
  <2>2. Before(Items(heard), Items(w)) BY <1>2, <2>1 DEF PcmOrder
  <2>3. QED BY <1>1, <1>2, <2>1, <2>2, Joined
<1>5. Before(Items(hw), Items(d)) BY <1>3, <1>4 DEF PcmOrder, Before
<1>6. PcmLine = hw \o d BY DEF PcmLine, w, d
<1> HIDE DEF hw
<1>7. /\ PcmLine \in Seq(Nat) /\ Rising(PcmLine)
      /\ Items(PcmLine) = Past \cup Present \cup Future
  <2>1. Rising(d) /\ d \in Seq(Nat) BY <1>3
  <2>2. PcmLine \in Seq(Nat) /\ Rising(PcmLine) /\ Items(PcmLine) = Items(hw) \cup Items(d)
    BY <1>4, <1>5, <1>6, <2>1, Joined
  <2>3. QED BY <1>3, <1>4, <2>2
<1>8. DOMAIN PcmLine = 1..Len(PcmLine) BY <1>7
<1>9. QED BY <1>7, <1>8 DEF PcmInOrder, PcmOrder, Rising, Items

(* For any number of slots and frames, what is heard, rendered and queued  *)
(* is every frame sent that was not dropped, once and in the order of      *)
(* decoding (pcmq_task and out_frame of fdk_aac_decoder.c), whatever       *)
(* pauses, flushes and stops come in between.                              *)
THEOREM PcmInOrderHolds == PcmSpec => []PcmInOrder
<1>1. PcmSpec => []PcmOrder
  BY PcmOrderInit, PcmInvInit, PcmOrderNext, PcmInvNext, PTL DEF PcmSpec
<1>2. QED BY <1>1, OrderIs, PcmInvariant, PTL

-----------------------------------------------------------------------------
(* The web server.                                                         *)
ServerRecord == [at : {"set", "select", "accept", "take", "create", "read", "parse"},
                 readfds : SUBSET SrvConns, sock : SrvConns \cup {SrvNone},
                 i : 1..SrvSlots, conn : SrvConns \cup {SrvNone}]
WorkerRecord == [at : {"none", "begin", "request", "find", "take", "answer", "close",
                       "ended", "deleted"},
                 slot : 0..SrvSlots]

(* serversTask holds a connection from its accept until its worker is      *)
(* there, and a worker begins with a connection nobody else has had; what  *)
(* it reads the rest of a frame from is a connection.                      *)
SrvPlaces ==
  /\ srvTask.at \in {"take", "create"} =>
       /\ srvTask.sock \in SrvConns
       /\ srvWorker[srvTask.sock].at = "none" /\ srvSocket[srvTask.sock] = "open"
  /\ srvTask.at \notin {"take", "create"} => srvTask.sock = SrvNone
  /\ srvTask.at = "parse" => srvTask.conn \in SrvConns
  /\ \A c \in SrvConns :
       /\ srvSocket[c] \in {"none", "backlog"} => srvWorker[c].at = "none"
       /\ srvClient[c] = "away" => srvSocket[c] = "none"
       /\ srvWorker[c].at = "take" => srvWorker[c].slot \in 1..SrvSlots

(* Who holds a connection: one if it is open, else nobody.                 *)
Holds(h, c) ==
  \/ h = 0 /\ srvTask.sock = c
  \/ h = -1 /\ srvWorker[c].at \in {"begin", "request", "find", "take", "close"}
  \/ h \in 1..SrvSlots /\ webserverclients[h] = c
SrvHeldInv ==
  srvFaults = {} =>
    \A c \in SrvConns :
      IF srvSocket[c] = "open" THEN \E h \in Int : \A i \in Int : Holds(i, c) <=> i = h
                               ELSE \A i \in Int : ~Holds(i, c)

SrvInv == SrvTypeOK /\ SrvPlaces /\ SrvPermits /\ SrvHeldInv

-----------------------------------------------------------------------------
(* A set of slots that is not empty has a first one.                       *)
LEMMA FirstSlot ==
  ASSUME NEW n \in Nat, NEW T \in SUBSET (1..n), T # {}
  PROVE  \E i \in T : \A j \in T : i <= j
<1> DEFINE F == {1..i : i \in T}
           S == 1..n
<1>1. F \subseteq FiniteSubsetsOf(S)
  <2>1. \A i \in T : 1..i \subseteq S /\ IsFiniteSet(1..i) BY FS_Interval
  <2>2. QED BY <2>1 DEF FiniteSubsetsOf
<1>2. F # {} OBVIOUS
<1>3. IsWellFoundedOn(StrictSubsetOrdering(S), FiniteSubsetsOf(S))
  BY FS_StrictSubsetOrderingWellFounded
<1> HIDE DEF F, S
<1>4. \E x \in F : \A y \in F : ~(<<y, x>> \in StrictSubsetOrdering(S))
  BY <1>1, <1>2, <1>3, WFMin
<1>5. PICK i \in T : \A j \in T : ~(<<1..j, 1..i>> \in StrictSubsetOrdering(S))
  BY <1>4 DEF F
<1>6. ASSUME NEW j \in T, ~(i <= j) PROVE FALSE
  <2>1. i \in 1..n /\ j \in 1..n OBVIOUS
  <2>2. 1..j \subseteq 1..i /\ i \in 1..i /\ i \notin 1..j BY <1>6, <2>1
  <2>3. 1..j \in SUBSET S /\ 1..i \in SUBSET S BY <2>1 DEF S
  <2>4. <<1..j, 1..i>> \in StrictSubsetOrdering(S)
    BY <2>2, <2>3 DEF StrictSubsetOrdering
  <2>5. QED BY <1>5, <2>4
<1>7. QED BY <1>6

LEMMA FirstFree ==
  ASSUME SrvTypeOK, Free # {}
  PROVE  (CHOOSE i \in Free : \A j \in Free : i <= j) \in 1..SrvSlots
<1>1. SrvSlots \in Nat /\ Free \in SUBSET (1..SrvSlots) BY SrvAssumption DEF Free
<1>2. \E i \in Free : \A j \in Free : i <= j BY <1>1, FirstSlot
<1>3. (CHOOSE i \in Free : \A j \in Free : i <= j) \in Free BY <1>2
<1>4. QED BY <1>1, <1>3

LEMMA InvInit == SrvInit => SrvInv
<1> SUFFICES ASSUME SrvInit PROVE SrvInv OBVIOUS
<1> USE SrvAssumption DEF SrvInit
<1>1. srvTask.at = "set" /\ srvTask.sock = SrvNone OBVIOUS
<1>2. \A c \in SrvConns : srvWorker[c].at = "none" /\ srvSocket[c] = "none" OBVIOUS
<1>3. SrvTypeOK
  <2>1. srvTask \in ServerRecord BY DEF ServerRecord
  <2>2. srvWorker \in [SrvConns -> WorkerRecord] BY DEF WorkerRecord
  <2>3. QED BY <2>1, <2>2 DEF SrvTypeOK, ServerRecord, WorkerRecord, SrvFault
<1>4. SrvPlaces BY <1>1, <1>2 DEF SrvPlaces
<1>5. SrvPermits
  <2>1. Living = {} /\ Deleted = {} BY <1>2 DEF Living, Deleted
  <2>2. QED BY <1>1, <2>1, FS_EmptySet DEF SrvPermits
<1>6. SrvHeldInv
  <2>1. \A c \in SrvConns : \A h \in Int : ~Holds(h, c) BY <1>1, <1>2 DEF Holds
  <2>2. QED BY <1>2, <2>1 DEF SrvHeldInv
<1>7. QED BY <1>3, <1>4, <1>5, <1>6 DEF SrvInv

-----------------------------------------------------------------------------
(* What a step does to the worker of one connection, or to serversTask.    *)
TaskAts == {"none", "begin", "request", "find", "take", "answer", "close", "ended", "deleted"}

LEMMA GoesFields ==
  ASSUME SrvTypeOK, NEW c \in SrvConns, NEW at \in TaskAts, WorkerGoes(c, at)
  PROVE  /\ srvWorker' \in [SrvConns -> WorkerRecord]
         /\ srvWorker'[c].at = at /\ srvWorker'[c].slot = srvWorker[c].slot
         /\ \A d \in SrvConns : d # c => srvWorker'[d] = srvWorker[d]
<1>1. srvWorker \in [SrvConns -> WorkerRecord] BY DEF SrvTypeOK, WorkerRecord
<1>2. srvWorker' = [srvWorker EXCEPT ![c] = [srvWorker[c] EXCEPT !.at = at]]
  BY DEF WorkerGoes
<1> DEFINE r == [srvWorker[c] EXCEPT !.at = at]
<1>3. r \in WorkerRecord /\ r.at = at /\ r.slot = srvWorker[c].slot
  BY <1>1 DEF WorkerRecord, TaskAts
<1> HIDE DEF r
<1>4. srvWorker' = [srvWorker EXCEPT ![c] = r] BY <1>2 DEF r
<1>5. QED BY <1>1, <1>3, <1>4

LEMMA SlotFields ==
  ASSUME SrvTypeOK, NEW c \in SrvConns, NEW at \in TaskAts, NEW slot \in 0..SrvSlots,
         srvWorker' = [srvWorker EXCEPT ![c].at = at, ![c].slot = slot]
  PROVE  /\ srvWorker' \in [SrvConns -> WorkerRecord]
         /\ srvWorker'[c].at = at /\ srvWorker'[c].slot = slot
         /\ \A d \in SrvConns : d # c => srvWorker'[d] = srvWorker[d]
<1>1. srvWorker \in [SrvConns -> WorkerRecord] BY DEF SrvTypeOK, WorkerRecord
<1> DEFINE r == [srvWorker[c] EXCEPT !.at = at, !.slot = slot]
<1>2. srvWorker' = [srvWorker EXCEPT ![c] = r] BY <1>1 DEF WorkerRecord
<1>3. r \in WorkerRecord /\ r.at = at /\ r.slot = slot
  BY <1>1 DEF WorkerRecord, TaskAts
<1> HIDE DEF r
<1>4. srvWorker' \in [SrvConns -> WorkerRecord] BY <1>1, <1>2, <1>3
<1>5. srvWorker'[c] = r BY <1>1, <1>2
<1>6. \A d \in SrvConns : d # c => srvWorker'[d] = srvWorker[d] BY <1>1, <1>2
<1>7. QED BY <1>3, <1>4, <1>5, <1>6

(* What the sum of semclient and the workers does with it.                 *)
LEMMA Finite ==
  ASSUME SrvTypeOK
  PROVE  /\ IsFiniteSet(Living) /\ IsFiniteSet(Deleted)
         /\ Cardinality(Living) \in Nat /\ Cardinality(Deleted) \in Nat
         /\ semclient \in Int /\ SrvWorkers \in Nat
<1>1. Living \in SUBSET SrvConns /\ Deleted \in SUBSET SrvConns BY DEF Living, Deleted
<1>2. IsFiniteSet(Living) /\ IsFiniteSet(Deleted) BY <1>1, FS_Subset, SrvAssumption
<1>3. Cardinality(Living) \in Nat /\ Cardinality(Deleted) \in Nat
  BY <1>2, FS_CardinalityType
<1>4. QED BY <1>2, <1>3, SrvAssumption DEF SrvTypeOK

Over == {"none", "ended", "deleted"}

LEMMA PermitsStay ==
  ASSUME SrvPermits, UNCHANGED semclient,
         srvTask'.at = "create" <=> srvTask.at = "create",
         \A d \in SrvConns : srvWorker'[d].at = srvWorker[d].at
                              \/ (srvWorker[d].at \notin Over /\ srvWorker'[d].at \notin Over)
  PROVE  SrvPermits'
<1>1. Living' = Living BY DEF Living, Over
<1>2. Deleted' = Deleted BY DEF Deleted, Over
<1>3. QED BY <1>1, <1>2 DEF SrvPermits

LEMMA PermitsLiving ==
  ASSUME SrvTypeOK, NEW c \in SrvConns,
         \A d \in SrvConns : d # c => srvWorker'[d] = srvWorker[d]
  PROVE  /\ srvWorker[c].at = "none" /\ srvWorker'[c].at = "begin" =>
              /\ Cardinality(Living)' = Cardinality(Living) + 1
              /\ Cardinality(Deleted)' = Cardinality(Deleted)
         /\ srvWorker[c].at = "begin" /\ srvWorker'[c].at = "deleted" =>
              /\ Cardinality(Living)' = Cardinality(Living) - 1
              /\ Cardinality(Deleted)' = Cardinality(Deleted) + 1
         /\ srvWorker[c].at \notin Over /\ srvWorker'[c].at = "ended" =>
              /\ Cardinality(Living)' = Cardinality(Living) - 1
              /\ Cardinality(Deleted)' = Cardinality(Deleted)
<1>1. ASSUME srvWorker[c].at = "none", srvWorker'[c].at = "begin"
      PROVE  /\ Cardinality(Living)' = Cardinality(Living) + 1
             /\ Cardinality(Deleted)' = Cardinality(Deleted)
  <2>1. Living' = Living \cup {c} /\ c \notin Living BY <1>1 DEF Living
  <2>2. Deleted' = Deleted BY <1>1 DEF Deleted
  <2>3. QED BY <2>1, <2>2, Finite, FS_AddElement
<1>2. ASSUME srvWorker[c].at = "begin", srvWorker'[c].at = "deleted"
      PROVE  /\ Cardinality(Living)' = Cardinality(Living) - 1
             /\ Cardinality(Deleted)' = Cardinality(Deleted) + 1
  <2>1. Living' = Living \ {c} /\ c \in Living BY <1>2 DEF Living
  <2>2. Deleted' = Deleted \cup {c} /\ c \notin Deleted BY <1>2 DEF Deleted
  <2>3. QED BY <2>1, <2>2, Finite, FS_AddElement, FS_RemoveElement
<1>3. ASSUME srvWorker[c].at \notin Over, srvWorker'[c].at = "ended"
      PROVE  /\ Cardinality(Living)' = Cardinality(Living) - 1
             /\ Cardinality(Deleted)' = Cardinality(Deleted)
  <2>1. Living' = Living \ {c} /\ c \in Living BY <1>3 DEF Living, Over
  <2>2. Deleted' = Deleted BY <1>3 DEF Deleted, Over
  <2>3. QED BY <2>1, <2>2, Finite, FS_RemoveElement
<1>4. QED BY <1>1, <1>2, <1>3

-----------------------------------------------------------------------------
(* Every step keeps the invariant: the clients, ...                        *)
LEMMA ConnectsKeeps ==
  ASSUME SrvInv, NEW c \in SrvConns, ClientConnects(c) PROVE SrvInv'
<1> USE DEF SrvInv, ClientConnects
<1>1. SrvTypeOK' BY DEF SrvTypeOK
<1>2. srvSocket[c] = "none" /\ srvWorker[c].at = "none" BY DEF SrvPlaces
<1>3. srvSocket'[c] = "backlog" /\ \A d \in SrvConns : d # c => srvSocket'[d] = srvSocket[d]
  BY DEF SrvTypeOK
<1>4. srvClient'[c] = "asks" /\ \A d \in SrvConns : d # c => srvClient'[d] = srvClient[d]
  BY DEF SrvTypeOK
<1>5. SrvPlaces' BY <1>2, <1>3, <1>4 DEF SrvPlaces
<1>6. SrvPermits' BY DEF SrvPermits, Living, Deleted
<1>7. SrvHeldInv'
  <2>1. \A d \in SrvConns, h \in Int : Holds(h, d)' <=> Holds(h, d) BY DEF Holds
  <2>2. QED BY <1>2, <1>3, <2>1 DEF SrvHeldInv
<1>8. QED BY <1>1, <1>5, <1>6, <1>7

LEMMA SendsKeeps ==
  ASSUME SrvInv, NEW c \in SrvConns, ClientSends(c) PROVE SrvInv'
<1> USE DEF SrvInv, ClientSends
<1>1. SrvTypeOK' BY DEF SrvTypeOK
<1>2. \A d \in SrvConns : srvClient'[d] = "away" => srvClient[d] = "away" BY DEF SrvTypeOK
<1>3. SrvPlaces' BY <1>2 DEF SrvPlaces
<1>4. SrvPermits' BY DEF SrvPermits, Living, Deleted
<1>5. SrvHeldInv'
  <2>1. \A d \in SrvConns, h \in Int : Holds(h, d)' <=> Holds(h, d) BY DEF Holds
  <2>2. QED BY <2>1 DEF SrvHeldInv
<1>6. QED BY <1>1, <1>3, <1>4, <1>5

(* ... serversTask, ...                                                    *)
LEMMA SetSelectKeeps ==
  ASSUME SrvInv, TaskSet \/ TaskSelect PROVE SrvInv'
<1> USE DEF SrvInv
<1>1. UNCHANGED <<srvClient, srvSocket, semclient, srvWorker, webserverclients, srvFaults>>
  BY DEF TaskSet, TaskSelect
<1>2. srvTask \in ServerRecord BY DEF SrvTypeOK, ServerRecord
<1>3. Registered \subseteq SrvConns BY DEF Registered, SrvTypeOK
<1>4. /\ srvTask' \in ServerRecord /\ srvTask'.sock = srvTask.sock
      /\ srvTask.at \in {"set", "select"} /\ srvTask'.at \in {"select", "accept", "read"}
  <2>1. CASE TaskSet BY <1>2, <1>3, <2>1 DEF TaskSet, ServerRecord
  <2>2. CASE TaskSelect
    <3>1. PICK ready \in SUBSET SrvConns, at \in {"accept", "read"} :
            srvTask' = [srvTask EXCEPT !.at = at, !.readfds = ready]
      BY <1>2, <2>2 DEF TaskSelect, ServerRecord
    <3>2. srvTask.at = "select" BY <2>2 DEF TaskSelect
    <3>3. QED BY <1>2, <3>1, <3>2 DEF ServerRecord
  <2>3. QED BY <2>1, <2>2
<1>5. SrvTypeOK' BY <1>1, <1>4 DEF SrvTypeOK, ServerRecord
<1>6. SrvPlaces' BY <1>1, <1>4 DEF SrvPlaces
<1>7. SrvPermits' BY <1>1, <1>4, PermitsStay
<1>8. SrvHeldInv'
  <2>1. \A d \in SrvConns, h \in Int : Holds(h, d)' <=> Holds(h, d) BY <1>1, <1>4 DEF Holds
  <2>2. QED BY <1>1, <2>1 DEF SrvHeldInv
<1>9. QED BY <1>5, <1>6, <1>7, <1>8

LEMMA AcceptKeeps ==
  ASSUME SrvInv, TaskAccept PROVE SrvInv'
<1> USE DEF SrvInv
<1>1. /\ UNCHANGED <<srvClient, semclient, srvWorker, webserverclients, srvFaults>>
      /\ srvTask.at = "accept" /\ srvTask.sock = SrvNone
  BY DEF TaskAccept, SrvPlaces
<1>2. srvTask \in ServerRecord BY DEF SrvTypeOK, ServerRecord
<1>3. PICK c \in Backlog : /\ srvSocket' = [srvSocket EXCEPT ![c] = "open"]
                           /\ srvTask' = [srvTask EXCEPT !.at = "take", !.sock = c]
  BY DEF TaskAccept
<1>4. c \in SrvConns /\ srvSocket[c] = "backlog" /\ srvWorker[c].at = "none" /\ c # SrvNone
  BY SrvAssumption DEF Backlog, SrvPlaces
<1>5. srvTask' \in ServerRecord /\ srvTask'.sock = c /\ srvTask'.at = "take"
  BY <1>2, <1>3, <1>4 DEF ServerRecord
<1>6. /\ srvSocket' \in [SrvConns -> {"none", "backlog", "open", "closed"}]
      /\ srvSocket'[c] = "open" /\ \A d \in SrvConns : d # c => srvSocket'[d] = srvSocket[d]
  BY <1>3, <1>4 DEF SrvTypeOK
<1>7. SrvTypeOK' BY <1>1, <1>5, <1>6 DEF SrvTypeOK, ServerRecord
<1>8. SrvPlaces' BY <1>1, <1>4, <1>5, <1>6 DEF SrvPlaces
<1>9. SrvPermits' BY <1>1, <1>5, PermitsStay
<1>10. SrvHeldInv'
  <2>1. \A d \in SrvConns, h \in Int : d # c => (Holds(h, d)' <=> Holds(h, d))
    BY <1>1, <1>4, <1>5, SrvAssumption DEF Holds
  <2>2. \A h \in Int : Holds(h, c)' <=> Holds(h, c) \/ h = 0 BY <1>1, <1>4, <1>5 DEF Holds
  <2>3. srvFaults = {} => \A h \in Int : ~Holds(h, c) BY <1>4 DEF SrvHeldInv
  <2>4. QED BY <1>1, <1>6, <2>1, <2>2, <2>3 DEF SrvHeldInv
<1>11. QED BY <1>7, <1>8, <1>9, <1>10

LEMMA TakeKeeps ==
  ASSUME SrvInv, TaskTake PROVE SrvInv'
<1> USE DEF SrvInv
<1>1. /\ UNCHANGED <<srvClient, srvSocket, srvWorker, webserverclients, srvFaults>>
      /\ srvTask.at = "take" /\ semclient > 0 /\ semclient' = semclient - 1
  BY DEF TaskTake
<1>2. srvTask \in ServerRecord BY DEF SrvTypeOK, ServerRecord
<1>3. srvTask' \in ServerRecord /\ srvTask'.sock = srvTask.sock /\ srvTask'.at = "create"
  BY <1>2 DEF TaskTake, ServerRecord
<1>4. SrvTypeOK' BY <1>1, <1>3, SrvAssumption DEF SrvTypeOK, ServerRecord
<1>5. SrvPlaces' BY <1>1, <1>3 DEF SrvPlaces
<1>6. SrvPermits'
  <2>1. Living' = Living /\ Deleted' = Deleted BY <1>1 DEF Living, Deleted
  <2>2. QED BY <1>1, <1>3, <2>1, Finite DEF SrvPermits
<1>7. SrvHeldInv'
  <2>1. \A d \in SrvConns, h \in Int : Holds(h, d)' <=> Holds(h, d) BY <1>1, <1>3 DEF Holds
  <2>2. QED BY <1>1, <2>1 DEF SrvHeldInv
<1>8. QED BY <1>4, <1>5, <1>6, <1>7

LEMMA CreateKeeps ==
  ASSUME SrvInv, TaskCreate PROVE SrvInv'
<1> USE DEF SrvInv
<1>1. /\ UNCHANGED <<srvClient, srvSocket, semclient, webserverclients, srvFaults>>
      /\ srvTask.at = "create" /\ WorkerGoes(srvTask.sock, "begin")
  BY DEF TaskCreate, WorkerGoes
<1>2. PICK c \in SrvConns : c = srvTask.sock BY <1>1 DEF SrvPlaces
<1>3. srvWorker[c].at = "none" /\ srvSocket[c] = "open" /\ c # SrvNone
  BY <1>1, <1>2, SrvAssumption DEF SrvPlaces
<1>4. srvTask \in ServerRecord BY DEF SrvTypeOK, ServerRecord
<1>5. srvTask' \in ServerRecord /\ srvTask'.sock = SrvNone /\ srvTask'.at = "read"
  BY <1>4 DEF TaskCreate, ServerRecord
<1>6. /\ srvWorker' \in [SrvConns -> WorkerRecord]
      /\ srvWorker'[c].at = "begin"
      /\ \A d \in SrvConns : d # c => srvWorker'[d] = srvWorker[d]
  BY <1>1, <1>2, GoesFields DEF TaskAts
<1>7. SrvTypeOK' BY <1>1, <1>5, <1>6 DEF SrvTypeOK, ServerRecord, WorkerRecord
<1>8. SrvPlaces' BY <1>1, <1>3, <1>5, <1>6 DEF SrvPlaces
<1>9. SrvPermits'
  <2>1. /\ Cardinality(Living)' = Cardinality(Living) + 1
        /\ Cardinality(Deleted)' = Cardinality(Deleted)
    BY <1>3, <1>6, PermitsLiving
  <2>2. QED BY <1>1, <1>5, <2>1, Finite DEF SrvPermits
<1>10. SrvHeldInv'
  <2>1. \A d \in SrvConns, h \in Int : d # c => (Holds(h, d)' <=> Holds(h, d))
    BY <1>1, <1>2, <1>5, <1>6, SrvAssumption DEF Holds
  <2>2. Holds(0, c) BY <1>2 DEF Holds
  <2>3. ASSUME srvFaults = {} PROVE \A h \in Int : Holds(h, c)' <=> h = -1
    <3>1. \A h \in Int : Holds(h, c) <=> h = 0 BY <1>3, <2>2, <2>3 DEF SrvHeldInv
    <3>2. \A i \in 1..SrvSlots : webserverclients[i] # c
      BY <3>1, SrvAssumption DEF Holds
    <3>3. QED BY <1>1, <1>3, <1>5, <1>6, <3>2 DEF Holds
  <2>4. ASSUME srvFaults = {}, NEW d \in SrvConns
        PROVE  IF srvSocket[d] = "open" THEN \E h \in Int : \A i \in Int : Holds(i, d)' <=> i = h
                                        ELSE \A i \in Int : ~Holds(i, d)'
    <3>1. CASE d = c
      <4>1. -1 \in Int /\ \A i \in Int : Holds(i, c)' <=> i = -1 BY <2>3, <2>4
      <4>2. QED BY <1>3, <3>1, <4>1
    <3>2. CASE d # c
      <4>1. \A i \in Int : Holds(i, d)' <=> Holds(i, d) BY <2>1, <3>2
      <4>2. CASE srvSocket[d] = "open"
        <5>1. PICK h \in Int : \A i \in Int : Holds(i, d) <=> i = h
          BY <2>4, <4>2 DEF SrvHeldInv
        <5>2. QED BY <4>1, <4>2, <5>1
      <4>3. CASE srvSocket[d] # "open"
        <5>1. \A i \in Int : ~Holds(i, d) BY <2>4, <4>3 DEF SrvHeldInv
        <5>2. QED BY <4>1, <4>3, <5>1
      <4>4. QED BY <4>2, <4>3
    <3>3. QED BY <3>1, <3>2
  <2>5. srvFaults' = srvFaults /\ srvSocket' = srvSocket BY <1>1
  <2>6. QED BY <2>4, <2>5, Zenon DEF SrvHeldInv
<1>11. QED BY <1>7, <1>8, <1>9, <1>10

LEMMA GoesOnFields ==
  ASSUME SrvInv, NEW fds \in SUBSET SrvConns, TaskGoesOn(fds)
  PROVE  /\ srvTask' \in ServerRecord /\ srvTask'.sock = srvTask.sock
         /\ srvTask'.at \in {"set", "read"}
<1>1. srvTask \in ServerRecord BY DEF SrvInv, SrvTypeOK, ServerRecord
<1>2. PICK n \in 1..SrvSlots : n = srvTask.i BY <1>1 DEF ServerRecord
<1>3. \E m \in 1..SrvSlots, at \in {"set", "read"} :
        srvTask' = [srvTask EXCEPT !.at = at, !.i = m, !.readfds = fds,
                                   !.conn = SrvNone]
  <2>1. CASE n = SrvSlots
    <3>1. 1 \in 1..SrvSlots BY SrvAssumption
    <3>2. srvTask' = [srvTask EXCEPT !.at = "set", !.i = 1, !.readfds = fds,
                                     !.conn = SrvNone]
      BY <1>2, <2>1 DEF TaskGoesOn
    <3>3. QED BY <3>1, <3>2
  <2>2. CASE n # SrvSlots
    <3>1. n + 1 \in 1..SrvSlots BY <1>2, <2>2, SrvAssumption
    <3>2. srvTask' = [srvTask EXCEPT !.at = "read", !.i = n + 1, !.readfds = fds,
                                     !.conn = SrvNone]
      BY <1>2, <2>2 DEF TaskGoesOn
    <3>3. QED BY <3>1, <3>2
  <2>3. QED BY <2>1, <2>2
<1>4. QED BY <1>1, <1>3 DEF ServerRecord

(* ... a websocket that stays, ...                                         *)
LEMMA TreatedKeeps ==
  ASSUME SrvInv, srvTask.at \in {"read", "parse"},
         UNCHANGED <<semclient, srvWorker, srvFaults, srvSocket, webserverclients>>,
         srvTask' \in ServerRecord, srvTask'.sock = srvTask.sock,
         srvTask'.at \in {"set", "read", "parse"},
         srvTask'.at = "parse" => srvTask'.conn \in SrvConns,
         \/ UNCHANGED srvClient
         \/ \E c \in SrvConns, what \in {"answered", "part"} :
              srvClient[c] = "message" /\ srvClient' = [srvClient EXCEPT ![c] = what]
  PROVE  SrvInv'
<1> USE DEF SrvInv
<1>1. /\ srvClient' \in [SrvConns -> {"away", "asks", "answered", "part", "message", "gone"}]
      /\ \A d \in SrvConns : srvClient'[d] = "away" => srvClient[d] = "away"
  BY DEF SrvTypeOK
<1>2. SrvTypeOK' BY <1>1 DEF SrvTypeOK, ServerRecord
<1>3. SrvPlaces' BY <1>1 DEF SrvPlaces
<1>4. SrvPermits' BY PermitsStay
<1>5. \A d \in SrvConns, h \in Int : Holds(h, d)' <=> Holds(h, d) BY DEF Holds
<1>6. SrvHeldInv' BY <1>5 DEF SrvHeldInv
<1>7. QED BY <1>2, <1>3, <1>4, <1>6

(* ... and one that is removed, ...                                        *)
LEMMA RemovedKeeps ==
  ASSUME SrvInv, srvTask.at \in {"read", "parse"},
         UNCHANGED <<semclient, srvWorker, srvFaults>>,
         srvTask' \in ServerRecord, srvTask'.sock = srvTask.sock,
         srvTask'.at \in {"set", "read"},
         NEW x \in SrvConns, RemoveClient(x), srvClient[x] # "away",
         UNCHANGED srvClient \/ srvClient' = [srvClient EXCEPT ![x] = "gone"]
  PROVE  SrvInv'
<1> USE DEF SrvInv
<1>1. /\ srvClient' \in [SrvConns -> {"away", "asks", "answered", "part", "message", "gone"}]
      /\ \A d \in SrvConns : srvClient'[d] = "away" => srvClient[d] = "away"
      /\ srvClient'[x] # "away"
  BY DEF SrvTypeOK
<1>2. SrvPermits' BY PermitsStay
<1>3. CASE UNCHANGED <<srvSocket, webserverclients>>
  <2>1. SrvTypeOK' BY <1>1, <1>3 DEF SrvTypeOK, ServerRecord
  <2>2. SrvPlaces' BY <1>1, <1>3 DEF SrvPlaces
  <2>3. \A d \in SrvConns, h \in Int : Holds(h, d)' <=> Holds(h, d) BY <1>3 DEF Holds
  <2>4. SrvHeldInv' BY <1>3, <2>3 DEF SrvHeldInv
  <2>5. QED BY <1>2, <2>1, <2>2, <2>4
<1>4. ASSUME NEW k \in 1..SrvSlots, webserverclients[k] = x,
             webserverclients' = [webserverclients EXCEPT ![k] = SrvNone],
             srvSocket' = [srvSocket EXCEPT ![x] = "closed"]
      PROVE  SrvInv'
  <2>1. SrvTypeOK' BY <1>1, <1>4 DEF SrvTypeOK, ServerRecord
  <2>2. /\ srvSocket'[x] = "closed"
        /\ \A d \in SrvConns : d # x => srvSocket'[d] = srvSocket[d]
    BY <1>4 DEF SrvTypeOK
  <2>3. SrvPlaces'
    <3>1. \A d \in SrvConns : srvSocket'[d] \in {"none", "backlog"} => srvSocket'[d] = srvSocket[d]
      BY <2>2
    <3>2. srvTask.at \notin {"take", "create"} OBVIOUS
    <3>3. QED BY <1>1, <2>2, <3>1, <3>2 DEF SrvPlaces
  <2>4. /\ webserverclients'[k] = SrvNone
        /\ \A i \in 1..SrvSlots : i # k => webserverclients'[i] = webserverclients[i]
    BY <1>4 DEF SrvTypeOK
  <2>5. \A d \in SrvConns, h \in Int : d # x => (Holds(h, d)' <=> Holds(h, d))
    <3>1. \A d \in SrvConns, i \in 1..SrvSlots :
            d # x => (webserverclients'[i] = d <=> webserverclients[i] = d)
      BY <1>4, <2>4, SrvAssumption
    <3>2. QED BY <3>1 DEF Holds
  <2>6. ASSUME srvFaults = {} PROVE \A h \in Int : ~Holds(h, x)'
    <3>1. k \in Int /\ k # 0 /\ k # -1 BY SrvAssumption
    <3>2. Holds(k, x) BY <1>4 DEF Holds
    <3>3. \A h \in Int : Holds(h, x) <=> h = k BY <2>6, <3>1, <3>2 DEF SrvHeldInv
    <3>4. x # SrvNone BY SrvAssumption
    <3>5. \A i \in 1..SrvSlots : i # k => webserverclients[i] # x
      BY <3>3, SrvAssumption DEF Holds
    <3>6. ~Holds(0, x) /\ ~Holds(-1, x) BY <3>1, <3>3
    <3>7. QED BY <2>4, <3>4, <3>5, <3>6 DEF Holds
  <2>7. SrvHeldInv' BY <2>2, <2>5, <2>6 DEF SrvHeldInv
  <2>8. QED BY <1>2, <2>1, <2>3, <2>7
<1>5. QED BY <1>3, <1>4 DEF RemoveClient

(* ... where it looks at the slots and where it waits in a frame.          *)
LEMMA ReadKeeps ==
  ASSUME SrvInv, TaskRead PROVE SrvInv'
<1> DEFINE c == webserverclients[srvTask.i]
           rest == srvTask.readfds \ {c}
<1>1. /\ UNCHANGED <<semclient, srvWorker, srvFaults>> /\ srvTask.at = "read"
  BY DEF TaskRead
<1>2. srvTask \in ServerRecord BY DEF SrvInv, SrvTypeOK, ServerRecord
<1>3. srvTask.readfds \in SUBSET SrvConns /\ rest \in SUBSET SrvConns
  BY <1>2 DEF ServerRecord
<1> HIDE DEF c, rest
<1>4. CASE c \notin srvTask.readfds /\ TaskGoesOn(rest)
           /\ UNCHANGED <<srvClient, srvSocket, webserverclients>>
  <2>1. /\ srvTask' \in ServerRecord /\ srvTask'.sock = srvTask.sock
        /\ srvTask'.at \in {"set", "read"}
    BY <1>3, <1>4, GoesOnFields
  <2>2. QED BY <1>1, <1>4, <2>1, TreatedKeeps
<1>5. ASSUME NEW d \in SrvConns, d = c PROVE SrvInv'
  <2>1. CASE /\ srvClient[d] = "message" /\ srvClient' = [srvClient EXCEPT ![d] = "answered"]
             /\ TaskGoesOn(rest) /\ UNCHANGED <<srvSocket, webserverclients>>
    <3>1. /\ srvTask' \in ServerRecord /\ srvTask'.sock = srvTask.sock
          /\ srvTask'.at \in {"set", "read"}
      BY <1>3, <2>1, GoesOnFields
    <3>2. QED BY <1>1, <2>1, <3>1, TreatedKeeps
  <2>2. CASE /\ srvClient[d] = "gone" /\ RemoveClient(d) /\ TaskGoesOn(rest)
             /\ UNCHANGED srvClient
    <3>1. /\ srvTask' \in ServerRecord /\ srvTask'.sock = srvTask.sock
          /\ srvTask'.at \in {"set", "read"}
      BY <1>3, <2>2, GoesOnFields
    <3>2. QED BY <1>1, <2>2, <3>1, RemovedKeeps
  <2>3. CASE /\ srvTask' = [srvTask EXCEPT !.at = "parse", !.conn = d, !.readfds = rest]
             /\ UNCHANGED <<srvClient, srvSocket, webserverclients>>
    <3>1. /\ srvTask' \in ServerRecord /\ srvTask'.sock = srvTask.sock
          /\ srvTask'.at = "parse" /\ srvTask'.conn = d
      BY <1>2, <1>3, <2>3 DEF ServerRecord
    <3>2. QED BY <1>1, <2>3, <3>1, TreatedKeeps
  <2>4. CASE c \notin srvTask.readfds /\ TaskGoesOn(rest)
             /\ UNCHANGED <<srvClient, srvSocket, webserverclients>>
    BY <1>4, <2>4
  <2>5. QED BY <1>5, <2>1, <2>2, <2>3, <2>4 DEF TaskRead, c, rest
<1>6. CASE c \notin SrvConns
  <2>1. c \notin srvTask.readfds BY <1>3, <1>6
  <2>2. QED BY <1>4, <2>1 DEF TaskRead, c, rest
<1>7. QED BY <1>5, <1>6

LEMMA ParseKeeps ==
  ASSUME SrvInv, TaskParse PROVE SrvInv'
<1>1. /\ UNCHANGED <<semclient, srvWorker, srvFaults>> /\ srvTask.at = "parse"
  BY DEF TaskParse
<1>2. srvTask \in ServerRecord BY DEF SrvInv, SrvTypeOK, ServerRecord
<1>3. PICK d \in SrvConns : d = srvTask.conn BY <1>1 DEF SrvInv, SrvPlaces
<1>4. PICK fds \in SUBSET SrvConns : fds = srvTask.readfds BY <1>2 DEF ServerRecord
<1>5. srvClient[d] = "message" BY <1>3 DEF TaskParse
<1>6. CASE /\ srvClient' = [srvClient EXCEPT ![d] = "part"]
           /\ UNCHANGED <<srvTask, srvSocket, webserverclients>>
  BY <1>1, <1>2, <1>3, <1>5, <1>6, TreatedKeeps
<1>7. CASE /\ srvClient' = [srvClient EXCEPT ![d] = "answered"] /\ TaskGoesOn(fds)
           /\ UNCHANGED <<srvSocket, webserverclients>>
  <2>1. /\ srvTask' \in ServerRecord /\ srvTask'.sock = srvTask.sock
        /\ srvTask'.at \in {"set", "read"}
    BY <1>7, GoesOnFields
  <2>2. QED BY <1>1, <1>5, <1>7, <2>1, TreatedKeeps
<1>8. CASE /\ srvClient' = [srvClient EXCEPT ![d] = "gone"] /\ RemoveClient(d)
           /\ TaskGoesOn(fds)
  <2>1. /\ srvTask' \in ServerRecord /\ srvTask'.sock = srvTask.sock
        /\ srvTask'.at \in {"set", "read"}
    BY <1>8, GoesOnFields
  <2>2. QED BY <1>1, <1>5, <1>8, <2>1, RemovedKeeps
<1>9. QED BY <1>3, <1>4, <1>6, <1>7, <1>8 DEF TaskParse

(* ... and the workers: a worker that goes on moves nobody else, ...        *)
LEMMA WorkerPlaces ==
  ASSUME SrvInv, NEW c \in SrvConns, srvWorker[c].at # "none", UNCHANGED srvTask,
         \A d \in SrvConns : d # c => srvWorker'[d] = srvWorker[d],
         \A d \in SrvConns : d # c => srvSocket'[d] = srvSocket[d],
         \A d \in SrvConns : srvClient'[d] = "away" => srvClient[d] = "away",
         srvSocket'[c] = srvSocket[c] \/ srvSocket'[c] = "closed",
         UNCHANGED srvClient \/ srvClient'[c] = "answered",
         srvSocket'[c] = "closed" => srvClient'[c] # "away",
         srvWorker'[c].at = "take" => srvWorker'[c].slot \in 1..SrvSlots
  PROVE  SrvPlaces'
<1> USE DEF SrvInv
<1>1. srvSocket[c] \notin {"none", "backlog"} /\ srvClient[c] # "away" BY DEF SrvPlaces
<1>2. srvTask.at \in {"take", "create"} => srvTask.sock # c BY DEF SrvPlaces
<1>3. (srvTask.at \in {"take", "create"} =>
         /\ srvTask.sock \in SrvConns
         /\ srvWorker[srvTask.sock].at = "none" /\ srvSocket[srvTask.sock] = "open")'
  BY <1>2 DEF SrvPlaces
<1>4. (srvTask.at \notin {"take", "create"} => srvTask.sock = SrvNone)' BY DEF SrvPlaces
<1>5. ASSUME NEW d \in SrvConns
      PROVE  /\ srvSocket'[d] \in {"none", "backlog"} => srvWorker'[d].at = "none"
             /\ srvClient'[d] = "away" => srvSocket'[d] = "none"
             /\ srvWorker'[d].at = "take" => srvWorker'[d].slot \in 1..SrvSlots
  <2>1. CASE d = c BY <1>1, <2>1 DEF SrvPlaces
  <2>2. CASE d # c BY <2>2 DEF SrvPlaces
  <2>3. QED BY <2>1, <2>2
<1>6. QED BY <1>3, <1>4, <1>5 DEF SrvPlaces

(* ... and one that neither takes nor closes nor ends only changes place.   *)
Keeping == {"begin", "request", "find", "take", "close"}

LEMMA WorkerHeld ==
  ASSUME SrvInv, NEW c \in SrvConns,
         UNCHANGED <<srvSocket, srvTask, webserverclients>>,
         \A d \in SrvConns : d # c => srvWorker'[d] = srvWorker[d],
         srvWorker'[c].at \in Keeping <=> srvWorker[c].at \in Keeping,
         srvFaults \subseteq srvFaults'
  PROVE  SrvHeldInv'
<1>1. \A d \in SrvConns, h \in Int : Holds(h, d)' <=> Holds(h, d) BY DEF Holds, Keeping
<1>2. srvFaults' = {} => srvFaults = {} OBVIOUS
<1>3. QED BY <1>1, <1>2 DEF SrvHeldInv, SrvInv

LEMMA MovesKeeps ==
  ASSUME SrvInv, NEW c \in SrvConns,
         WorkerBegin(c) \/ WorkerRequest(c)
  PROVE  SrvInv'
<1> USE DEF SrvInv
<1>1. /\ UNCHANGED <<srvClient, srvSocket, srvTask, semclient, webserverclients>>
      /\ srvWorker[c].at \in {"begin", "request"}
  BY DEF WorkerBegin, WorkerRequest
<1>2. PICK at \in {"request", "close", "find", "deleted"} :
        /\ WorkerGoes(c, at)
        /\ at = "deleted" => srvWorker[c].at = "begin" /\ srvFaults' = srvFaults \cup {"memory"}
        /\ at # "deleted" => srvFaults' = srvFaults
  BY DEF WorkerBegin, WorkerRequest
<1>3. /\ srvWorker' \in [SrvConns -> WorkerRecord]
      /\ srvWorker'[c].at = at /\ srvWorker'[c].slot = srvWorker[c].slot
      /\ \A d \in SrvConns : d # c => srvWorker'[d] = srvWorker[d]
  BY <1>2, GoesFields DEF TaskAts
<1>4. srvFaults' \subseteq SrvFault /\ srvFaults \subseteq srvFaults'
  BY <1>2 DEF SrvTypeOK, SrvFault
<1>5. SrvTypeOK' BY <1>1, <1>3, <1>4 DEF SrvTypeOK, ServerRecord, WorkerRecord
<1>6. srvSocket[c] # "closed" \/ srvClient[c] # "away" BY DEF SrvPlaces
<1>7. SrvPlaces' BY <1>1, <1>2, <1>3, <1>6, WorkerPlaces
<1>8. SrvPermits'
  <2>1. CASE at = "deleted"
    <3>1. /\ Cardinality(Living)' = Cardinality(Living) - 1
          /\ Cardinality(Deleted)' = Cardinality(Deleted) + 1
      BY <1>2, <1>3, <2>1, PermitsLiving
    <3>2. QED BY <1>1, <3>1, Finite DEF SrvPermits
  <2>2. CASE at # "deleted" BY <1>1, <1>2, <1>3, <2>2, PermitsStay DEF Over
  <2>3. QED BY <2>1, <2>2
<1>9. SrvHeldInv'
  <2>1. CASE at = "deleted" BY <1>2, <2>1 DEF SrvHeldInv
  <2>2. CASE at # "deleted" BY <1>1, <1>2, <1>3, <1>4, <2>2, WorkerHeld DEF Keeping
  <2>3. QED BY <2>1, <2>2
<1>10. QED BY <1>5, <1>7, <1>8, <1>9

(* A worker that ends gives semclient. *)
LEMMA EndsPermits ==
  ASSUME SrvInv, NEW c \in SrvConns, srvWorker[c].at \notin Over, WorkerEnds(c),
         UNCHANGED srvTask
  PROVE  /\ srvWorker' \in [SrvConns -> WorkerRecord]
         /\ srvWorker'[c].at = "ended"
         /\ \A d \in SrvConns : d # c => srvWorker'[d] = srvWorker[d]
         /\ SrvPermits' /\ semclient' \in 0..SrvWorkers
<1> USE DEF SrvInv
<1>1. /\ srvWorker' \in [SrvConns -> WorkerRecord]
      /\ srvWorker'[c].at = "ended"
      /\ \A d \in SrvConns : d # c => srvWorker'[d] = srvWorker[d]
  BY GoesFields DEF TaskAts, WorkerEnds
<1>2. semclient' = semclient + 1 BY DEF WorkerEnds
<1>3. SrvPermits'
  <2>1. /\ Cardinality(Living)' = Cardinality(Living) - 1
        /\ Cardinality(Deleted)' = Cardinality(Deleted)
    BY <1>1, PermitsLiving
  <2>2. QED BY <1>2, <2>1, Finite DEF SrvPermits
<1>4. semclient' \in 0..SrvWorkers
  <2>1. /\ IsFiniteSet(Living)' /\ IsFiniteSet(Deleted)'
    <3>1. (Living \in SUBSET SrvConns /\ Deleted \in SUBSET SrvConns)' BY DEF Living, Deleted
    <3>2. QED BY <3>1, FS_Subset, SrvAssumption
  <2>2. Cardinality(Living)' \in Nat /\ Cardinality(Deleted)' \in Nat
    BY <2>1, FS_CardinalityType
  <2>3. semclient' \in Nat BY <1>2 DEF SrvTypeOK
  <2>4. QED BY <1>3, <2>2, <2>3, SrvAssumption DEF SrvPermits
<1>5. QED BY <1>1, <1>3, <1>4

LEMMA FindKeeps ==
  ASSUME SrvInv, NEW c \in SrvConns, WorkerFind(c) PROVE SrvInv'
<1> USE DEF SrvInv
<1>1. /\ UNCHANGED <<srvClient, srvSocket, srvTask, webserverclients>>
      /\ srvWorker[c].at = "find"
  BY DEF WorkerFind
<1>2. srvSocket[c] # "closed" \/ srvClient[c] # "away" BY DEF SrvPlaces
<1>3. CASE Free = {}
  <2>1. WorkerEnds(c) /\ srvFaults' = srvFaults \cup {"full"}
    BY <1>3 DEF WorkerFind
  <2>2. /\ srvWorker' \in [SrvConns -> WorkerRecord]
        /\ srvWorker'[c].at = "ended"
        /\ \A d \in SrvConns : d # c => srvWorker'[d] = srvWorker[d]
        /\ SrvPermits' /\ semclient' \in 0..SrvWorkers
    BY <1>1, <2>1, EndsPermits DEF Over
  <2>3. SrvTypeOK' BY <1>1, <2>1, <2>2 DEF SrvTypeOK, ServerRecord, WorkerRecord, SrvFault
  <2>4. SrvPlaces' BY <1>1, <1>2, <2>2, WorkerPlaces
  <2>5. SrvPermits' BY <2>2
  <2>6. SrvHeldInv' BY <2>1 DEF SrvHeldInv
  <2>7. QED BY <2>3, <2>4, <2>5, <2>6
<1>4. CASE Free # {}
  <2>1. PICK n \in 1..SrvSlots : n = CHOOSE i \in Free : \A j \in Free : i <= j
    BY <1>4, FirstFree
  <2>2. /\ srvWorker' = [srvWorker EXCEPT ![c].at = "take", ![c].slot = n]
        /\ srvFaults' = srvFaults /\ semclient' = semclient
    BY <1>4, <2>1 DEF WorkerFind
  <2>3. n \in 0..SrvSlots BY SrvAssumption
  <2>4. /\ srvWorker' \in [SrvConns -> WorkerRecord]
        /\ srvWorker'[c].at = "take" /\ srvWorker'[c].slot = n
        /\ \A d \in SrvConns : d # c => srvWorker'[d] = srvWorker[d]
    BY <2>2, <2>3, SlotFields DEF TaskAts
  <2>5. SrvTypeOK' BY <1>1, <2>2, <2>4 DEF SrvTypeOK, ServerRecord, WorkerRecord
  <2>6. SrvPlaces' BY <1>1, <1>2, <2>4, WorkerPlaces
  <2>7. SrvPermits' BY <1>1, <2>2, <2>4, PermitsStay DEF Over
  <2>8. SrvHeldInv' BY <1>1, <2>2, <2>4, WorkerHeld DEF Keeping
  <2>9. QED BY <2>5, <2>6, <2>7, <2>8
<1>5. QED BY <1>3, <1>4

LEMMA SlotTakenKeeps ==
  ASSUME SrvInv, NEW c \in SrvConns, WorkerTake(c) PROVE SrvInv'
<1> USE DEF SrvInv
<1>1. /\ UNCHANGED <<srvClient, srvSocket, srvTask, semclient>>
      /\ srvWorker[c].at = "take"
  BY DEF WorkerTake
<1>2. PICK n \in 1..SrvSlots : n = srvWorker[c].slot BY <1>1 DEF SrvPlaces
<1>3. /\ webserverclients' = [webserverclients EXCEPT ![n] = c]
      /\ srvFaults' = srvFaults \cup IF webserverclients[n] = SrvNone THEN {} ELSE {"twice"}
      /\ srvWorker' = [srvWorker EXCEPT ![c].at = "answer", ![c].slot = 0]
  BY <1>2 DEF WorkerTake
<1>4. /\ srvWorker' \in [SrvConns -> WorkerRecord]
      /\ srvWorker'[c].at = "answer"
      /\ \A d \in SrvConns : d # c => srvWorker'[d] = srvWorker[d]
  <2>1. 0 \in 0..SrvSlots BY SrvAssumption
  <2>2. QED BY <1>3, <2>1, SlotFields DEF TaskAts
<1>5. /\ webserverclients'[n] = c
      /\ \A i \in 1..SrvSlots : i # n => webserverclients'[i] = webserverclients[i]
  BY <1>3 DEF SrvTypeOK
<1>6. SrvTypeOK'
  <2>1. webserverclients' \in [1..SrvSlots -> SrvConns \cup {SrvNone}]
    BY <1>3 DEF SrvTypeOK
  <2>2. srvFaults' \subseteq SrvFault BY <1>3 DEF SrvTypeOK, SrvFault
  <2>3. QED BY <1>1, <1>4, <2>1, <2>2 DEF SrvTypeOK, ServerRecord, WorkerRecord
<1>7. srvSocket[c] # "closed" \/ srvClient[c] # "away" BY DEF SrvPlaces
<1>8. SrvPlaces' BY <1>1, <1>4, <1>7, WorkerPlaces
<1>9. SrvPermits' BY <1>1, <1>4, PermitsStay DEF Over
<1>10. SrvHeldInv'
  <2>1. CASE webserverclients[n] # SrvNone BY <1>3, <2>1 DEF SrvHeldInv
  <2>2. CASE webserverclients[n] = SrvNone
    <3>1. srvFaults' = srvFaults BY <1>3, <2>2
    <3>2. \A d \in SrvConns, h \in Int : d # c => (Holds(h, d)' <=> Holds(h, d))
      <4>1. \A d \in SrvConns, i \in 1..SrvSlots :
              d # c => (webserverclients'[i] = d <=> webserverclients[i] = d)
        BY <1>5, <2>2, SrvAssumption
      <4>2. QED BY <1>1, <1>4, <4>1 DEF Holds
    <3>3. Holds(-1, c) BY <1>1 DEF Holds
    <3>4. ASSUME srvFaults = {}
          PROVE  srvSocket[c] = "open" /\ \A h \in Int : Holds(h, c) <=> h = -1
      BY <3>3, <3>4 DEF SrvHeldInv
    <3>5. ASSUME srvFaults = {} PROVE \A h \in Int : Holds(h, c)' <=> h = n
      <4>1. ~Holds(0, c) BY <3>4, <3>5
      <4>2. \A i \in 1..SrvSlots : webserverclients[i] # c
        BY <3>4, <3>5, SrvAssumption DEF Holds
      <4>3. srvTask'.sock # c BY <1>1, <4>1 DEF Holds
      <4>4. srvWorker'[c].at \notin {"begin", "request", "find", "take", "close"} BY <1>4
      <4>5. \A i \in 1..SrvSlots : webserverclients'[i] = c <=> i = n BY <1>5, <4>2
      <4>6. QED BY <4>3, <4>4, <4>5 DEF Holds
    <3>6. n \in Int BY SrvAssumption
    <3>7. QED BY <1>1, <3>1, <3>2, <3>4, <3>5, <3>6 DEF SrvHeldInv
  <2>3. QED BY <2>1, <2>2
<1>11. QED BY <1>6, <1>8, <1>9, <1>10

LEMMA AnswerKeeps ==
  ASSUME SrvInv, NEW c \in SrvConns, WorkerAnswer(c) PROVE SrvInv'
<1> USE DEF SrvInv
<1>1. /\ UNCHANGED <<srvSocket, srvTask, webserverclients, srvFaults>>
      /\ srvWorker[c].at = "answer" /\ WorkerEnds(c)
      /\ srvClient' = [srvClient EXCEPT ![c] = "answered"]
  BY DEF WorkerAnswer
<1>2. /\ srvWorker' \in [SrvConns -> WorkerRecord]
      /\ srvWorker'[c].at = "ended"
      /\ \A d \in SrvConns : d # c => srvWorker'[d] = srvWorker[d]
      /\ SrvPermits' /\ semclient' \in 0..SrvWorkers
  BY <1>1, EndsPermits DEF Over
<1>3. SrvTypeOK' BY <1>1, <1>2 DEF SrvTypeOK, ServerRecord, WorkerRecord
<1>4. /\ srvClient'[c] = "answered"
      /\ \A d \in SrvConns : srvClient'[d] = "away" => srvClient[d] = "away"
  BY <1>1 DEF SrvTypeOK
<1>5. SrvPlaces' BY <1>1, <1>2, <1>4, WorkerPlaces
<1>6. SrvPermits' BY <1>2
<1>7. SrvHeldInv' BY <1>1, <1>2, WorkerHeld DEF Keeping
<1>8. QED BY <1>3, <1>5, <1>6, <1>7

LEMMA CloseKeeps ==
  ASSUME SrvInv, NEW c \in SrvConns, WorkerClose(c) PROVE SrvInv'
<1> USE DEF SrvInv
<1>1. /\ UNCHANGED <<srvClient, srvTask, webserverclients, srvFaults>>
      /\ srvWorker[c].at = "close" /\ WorkerEnds(c)
      /\ srvSocket' = [srvSocket EXCEPT ![c] = "closed"]
  BY DEF WorkerClose
<1>2. /\ srvWorker' \in [SrvConns -> WorkerRecord]
      /\ srvWorker'[c].at = "ended"
      /\ \A d \in SrvConns : d # c => srvWorker'[d] = srvWorker[d]
      /\ SrvPermits' /\ semclient' \in 0..SrvWorkers
  BY <1>1, EndsPermits DEF Over
<1>3. SrvTypeOK' BY <1>1, <1>2 DEF SrvTypeOK, ServerRecord, WorkerRecord
<1>4. srvSocket'[c] = "closed" /\ \A d \in SrvConns : d # c => srvSocket'[d] = srvSocket[d]
  BY <1>1 DEF SrvTypeOK
<1>5. srvClient[c] # "away" BY <1>1 DEF SrvPlaces
<1>6. SrvPlaces' BY <1>1, <1>2, <1>4, <1>5, WorkerPlaces
<1>7. SrvPermits' BY <1>2
<1>8. SrvHeldInv'
  <2>1. \A d \in SrvConns, h \in Int : d # c => (Holds(h, d)' <=> Holds(h, d))
    BY <1>1, <1>2 DEF Holds
  <2>2. Holds(-1, c) BY <1>1 DEF Holds
  <2>3. ASSUME srvFaults = {} PROVE \A h \in Int : Holds(h, c) <=> h = -1
    BY <2>2, <2>3 DEF SrvHeldInv
  <2>4. \A h \in Int : Holds(h, c)' <=> Holds(h, c) /\ h # -1
    BY <1>1, <1>2, SrvAssumption DEF Holds
  <2>5. QED BY <1>1, <1>4, <2>1, <2>3, <2>4 DEF SrvHeldInv
<1>9. QED BY <1>3, <1>6, <1>7, <1>8

-----------------------------------------------------------------------------
LEMMA StutterKeeps == ASSUME SrvInv, UNCHANGED srvVars PROVE SrvInv'
<1> USE DEF SrvInv, srvVars
<1>1. SrvTypeOK' BY DEF SrvTypeOK
<1>2. SrvPlaces' BY DEF SrvPlaces
<1>3. SrvPermits' BY DEF SrvPermits, Living, Deleted
<1>4. SrvHeldInv'
  <2>1. \A d \in SrvConns, h \in Int : Holds(h, d)' <=> Holds(h, d) BY DEF Holds
  <2>2. QED BY <2>1 DEF SrvHeldInv
<1>5. QED BY <1>1, <1>2, <1>3, <1>4

LEMMA InvNext == SrvInv /\ [SrvNext]_srvVars => SrvInv'
<1> SUFFICES ASSUME SrvInv, [SrvNext]_srvVars PROVE SrvInv' OBVIOUS
<1>1. CASE SrvTaskStep
  BY <1>1, SetSelectKeeps, AcceptKeeps, TakeKeeps, CreateKeeps, ReadKeeps, ParseKeeps
  DEF SrvTaskStep
<1>2. ASSUME NEW c \in SrvConns, ClientConnects(c) \/ ClientSends(c) PROVE SrvInv'
  BY <1>2, ConnectsKeeps, SendsKeeps
<1>3. ASSUME NEW c \in SrvConns, SrvWorkerStep(c) PROVE SrvInv'
  BY <1>3, MovesKeeps, FindKeeps, SlotTakenKeeps, AnswerKeeps, CloseKeeps
  DEF SrvWorkerStep
<1>4. CASE UNCHANGED srvVars BY <1>4, StutterKeeps
<1>5. QED BY <1>1, <1>2, <1>3, <1>4 DEF SrvNext

(* What is said of the tasks and their connections is so at every moment.  *)
THEOREM SrvInvariant == SrvSpec => []SrvInv
<1>1. QED BY InvInit, InvNext, PTL DEF SrvSpec

(* Every variable of the server keeps its type.                            *)
THEOREM SrvTypeCorrect == SrvSpec => []SrvTypeOK
<1>1. SrvInv => SrvTypeOK BY DEF SrvInv
<1>2. QED BY <1>1, SrvInvariant, PTL

(* semclient counts the workers: serversTask takes one before it creates a *)
(* worker, and each gives it back once, but for one without memory.        *)
THEOREM SrvPermitsHolds == SrvSpec => []SrvPermits
<1>1. SrvInv => SrvPermits BY DEF SrvInv
<1>2. QED BY <1>1, SrvInvariant, PTL

(* Holds says of whom Holders is the set.                                  *)
LEMMA HoldersAre ==
  ASSUME NEW c \in SrvConns PROVE Holders(c) = {h \in Int : Holds(h, c)}
<1>1. \A h : h \in Holders(c) <=> h \in Int /\ Holds(h, c)
  BY SrvAssumption DEF Holders, Holds
<1>2. QED BY <1>1

(* What the invariant says of the holders, counted.                        *)
LEMMA HeldIs ==
  ASSUME SrvInv PROVE SrvHeld
<1>1. SUFFICES ASSUME srvFaults = {}, NEW c \in SrvConns
               PROVE  Cardinality(Holders(c)) = IF srvSocket[c] = "open" THEN 1 ELSE 0
  BY DEF SrvHeld
<1>2. CASE srvSocket[c] = "open"
  <2>1. PICK h \in Int : \A i \in Int : Holds(i, c) <=> i = h
    BY <1>1, <1>2 DEF SrvInv, SrvHeldInv
  <2>2. Holders(c) = {h} BY <2>1, HoldersAre
  <2>3. QED BY <1>2, <2>2, FS_Singleton
<1>3. CASE srvSocket[c] # "open"
  <2>1. \A i \in Int : ~Holds(i, c) BY <1>1, <1>3 DEF SrvInv, SrvHeldInv
  <2>2. Holders(c) = {} BY <2>1, HoldersAre
  <2>3. QED BY <1>3, <2>2, FS_EmptySet
<1>4. QED BY <1>2, <1>3

(* An open connection is in the hands of one task or one slot, and one     *)
(* that is not open in nobody's, unless a slot was missing or taken twice  *)
(* or a worker had no memory.                                              *)
THEOREM SrvHeldHolds == SrvSpec => []SrvHeld
<1>1. QED BY HeldIs, SrvInvariant, PTL

-----------------------------------------------------------------------------
(* The parts of Services together.                                         *)

LEMMA ServicesInitParts == ServicesInit => Init /\ StaInit /\ OtaInit /\ SrvInit /\ PcmInit
  BY DEF ServicesInit

LEMMA ServicesNextParts ==
  [ServicesNext]_servicesVars =>
    /\ [Next]_vars /\ [StaNext]_staVars /\ [OtaNext]_otaVars
    /\ [SrvNext]_srvVars /\ [PcmNext]_pcmVars
  BY Zenon DEF ServicesNext, servicesVars

(* Each part of Services does what its own specification lets it do: the   *)
(* settings, the stations, the update, the server and the frames.          *)
THEOREM ServicesPartsHold ==
  ServicesSpec =>
    /\ Spec
    /\ StaInit /\ [][StaNext]_staVars
    /\ OtaInit /\ [][OtaNext]_otaVars
    /\ SrvInit /\ [][SrvNext]_srvVars
    /\ PcmInit /\ [][PcmNext]_pcmVars
<1>1. QED BY ServicesInitParts, ServicesNextParts, PTL DEF ServicesSpec, Spec

(* The variables of all of them stay in their domains, whichever is at     *)
(* work.                                                                   *)
THEOREM ServicesTypesHold == ServicesSpec => []ServicesTypeOK
<1>1. ServicesTypeOK <=> TypeOK /\ StaTypeOK /\ OtaTypeOK /\ SrvTypeOK /\ PcmTypeOK
  BY DEF ServicesTypeOK
<1>2. SrvInv => SrvTypeOK BY DEF SrvInv
<1>3. PcmInv => PcmTypeOK BY DEF PcmInv
<1>4. ServicesSpec => []TypeOK BY ServicesPartsHold, TypeCorrect, PTL
<1>5. ServicesSpec => []StaTypeOK
  BY ServicesPartsHold, StaInvInit, StaInvNext, StaInvTypes, PTL
<1>6. ServicesSpec => []OtaTypeOK
  BY ServicesPartsHold, TypeInit, TypeNext, OtaTypeInvIs, PTL
<1>7. ServicesSpec => []SrvTypeOK BY <1>2, ServicesPartsHold, InvInit, InvNext, PTL
<1>8. ServicesSpec => []PcmTypeOK BY <1>3, ServicesPartsHold, PcmInvInit, PcmInvNext, PTL
<1>9. QED BY <1>1, <1>4, <1>5, <1>6, <1>7, <1>8, PTL

(* What TLC checks of the parts holds for any of their constants, of the   *)
(* specification that it checks, each with the exceptions that it states:  *)
(* changes of the settings are saved, but a volume dropped beside another  *)
(* save, and versions never mixed, unless a copy is made beside a save;    *)
(* the stations survive, unless such a copy was made, and are what was     *)
(* saved; uploads that do not meet are written in order, and ota_task is   *)
(* never left with a deleted queue unless two of them both found none      *)
(* active; permits and connections are given back once; slots are in one   *)
(* place and frames are heard in order.                                    *)
THEOREM ServicesSafe ==
  ServicesSpec =>
    /\ [](ChangesAreSaved /\ VersionsNeverMix) /\ StationsSurvive /\ []StaKept
    /\ [](OtaImage /\ OtaQueueLives)
    /\ [](SrvPermits /\ SrvHeld)
    /\ [](PcmOnePlace /\ PcmInOrder)
<1>1. ServicesSpec => [](ChangesAreSaved /\ VersionsNeverMix) /\ StationsSurvive
  BY ServicesPartsHold, ChangesAlwaysSaved, VersionsNeverMixed, StationsAlwaysSurvive, PTL
<1>2. ServicesSpec => []StaKept
  <2>1. StaInv => StaKept BY DEF StaInv
  <2>2. QED BY <2>1, ServicesPartsHold, StaInvInit, StaInvNext, PTL
<1>3. ServicesSpec => [](OtaImage /\ OtaQueueLives)
  BY ServicesPartsHold, OtaInvInit, OtaInvNext, InvImage, InvQueueLives, PTL
<1>4. ServicesSpec => [](SrvPermits /\ SrvHeld)
  <2>1. SrvInv => SrvPermits BY DEF SrvInv
  <2>2. SrvInv => SrvHeld BY HeldIs
  <2>3. QED BY <2>1, <2>2, ServicesPartsHold, InvInit, InvNext, PTL
<1>5. ServicesSpec => [](PcmOnePlace /\ PcmInOrder)
  <2>1. PcmInv => PcmOnePlace BY PlacesAre
  <2>2. PcmInv /\ PcmOrder => PcmInOrder BY OrderIs
  <2>3. QED
    BY <2>1, <2>2, ServicesPartsHold, PcmInvInit, PcmInvNext, PcmOrderInit, PcmOrderNext, PTL
<1>6. QED BY <1>1, <1>2, <1>3, <1>4, <1>5
===============================================================================
