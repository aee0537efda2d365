-------------------------------- MODULE PcmQueue --------------------------------
(***************************************************************************)
(* The queue of PCM frames between the AAC decoder and the renderer        *)
(* (fdk_aac_decoder.c): the decoder takes a slot from pcmq_free, copies a  *)
(* frame into it and sends it to pcmq_data; pcmq_task renders it and gives *)
(* the slot back.  A pause or a change of track drops what is queued; at   *)
(* the end pcmq_task is told to stop, waited for, and the slots are freed. *)
(* No send waits or is checked: the queues are as long as there are slots. *)
(***************************************************************************)
EXTENDS Integers, Sequences

CONSTANTS
  PcmSlots,  \* 8, PCMQ_SLOTS
  PcmFrames  \* bound: the frames decoded

ASSUME PcmAssumption == PcmSlots \in Nat \ {0} /\ PcmFrames \in Nat

VARIABLES
  pcmq_data, pcmq_free,  \* sequences of slots
  pcmq_mem,              \* the frame in each slot
  pcmq_stop, pcmq_done,
  pcmDecoder,            \* fdkaac_decoder_task: where it is, its slot and frame, and
                         \* whether it is to stop: decoder_command is CMD_STOP
  pcmOut,                \* pcmq_task: where it is, and its slot
  heard,                 \* the frames rendered so far
  dropped                \* the frames dropped, by a flush, a stop or the end

pcmVars == <<pcmq_data, pcmq_free, pcmq_mem, pcmq_stop, pcmq_done, pcmDecoder, pcmOut,
             heard, dropped>>

PcmInit ==
  /\ pcmq_data = <<>> /\ pcmq_free = <<>>
  /\ pcmq_mem = [s \in 1..PcmSlots |-> 0]
  /\ pcmq_stop = FALSE /\ pcmq_done = FALSE
  /\ pcmDecoder = [at |-> "start", slot |-> {}, frame |-> 0, stop |-> FALSE]
  /\ pcmOut = [at |-> "none", slot |-> {}]
  /\ heard = <<>> /\ dropped = {}

-----------------------------------------------------------------------------
DecoderAt(at) == pcmDecoder.at = at
ToDecoder(at) == pcmDecoder' = [pcmDecoder EXCEPT !.at = at]
ToDecoderSlot(at, slot) == pcmDecoder' = [pcmDecoder EXCEPT !.at = at, !.slot = slot]

(* audio_player_stop, at any time. *)
PcmStop ==
  /\ ~pcmDecoder.stop
  /\ pcmDecoder' = [pcmDecoder EXCEPT !.stop = TRUE]
  /\ UNCHANGED <<pcmq_data, pcmq_free, pcmq_mem, pcmq_stop, pcmq_done, pcmOut, heard,
                 dropped>>

(* pcmq_start; without memory frames are rendered inline. *)
PcmStart ==
  /\ DecoderAt("start")
  /\ \/ /\ pcmq_free' = [i \in 1..PcmSlots |-> i]
        /\ pcmOut' = [pcmOut EXCEPT !.at = "receive"]
        /\ ToDecoder("decode")
     \/ /\ ToDecoder("inline")
        /\ UNCHANGED <<pcmq_free, pcmOut>>
  /\ UNCHANGED <<pcmq_data, pcmq_mem, pcmq_stop, pcmq_done, heard, dropped>>

PcmInline ==
  /\ DecoderAt("inline")
  /\ pcmDecoder.frame < PcmFrames
  /\ pcmDecoder' = [pcmDecoder EXCEPT !.frame = @ + 1]
  /\ heard' = Append(heard, pcmDecoder.frame + 1)
  /\ UNCHANGED <<pcmq_data, pcmq_free, pcmq_mem, pcmq_stop, pcmq_done, pcmOut, dropped>>

(* A frame is decoded, or a pause or a flush of the song buffer is seen,   *)
(* or the stream is at its end or is to be stopped.                        *)
PcmDecode ==
  /\ DecoderAt("decode")
  /\ \/ /\ pcmDecoder.frame < PcmFrames
        /\ pcmDecoder' = [pcmDecoder EXCEPT !.at = "out", !.frame = @ + 1]
     \/ ToDecoder("flush")
     \/ ToDecoder("end")
  /\ UNCHANGED <<pcmq_data, pcmq_free, pcmq_mem, pcmq_stop, pcmq_done, pcmOut, heard,
                 dropped>>

(* out_frame waits until a slot is free, or the decoder is to stop; ... *)
PcmTake ==
  /\ DecoderAt("out")
  /\ \/ /\ pcmq_free # <<>>
        /\ ToDecoderSlot("copy", {Head(pcmq_free)})
        /\ pcmq_free' = Tail(pcmq_free)
        /\ pcmq_mem' = [pcmq_mem EXCEPT ![Head(pcmq_free)] = 0]
        /\ UNCHANGED dropped
     \/ /\ pcmq_free = <<>> /\ pcmDecoder.stop
        /\ ToDecoder("end")
        /\ dropped' = dropped \cup {pcmDecoder.frame}
        /\ UNCHANGED <<pcmq_free, pcmq_mem>>
  /\ UNCHANGED <<pcmq_data, pcmq_stop, pcmq_done, pcmOut, heard>>

(* Mutant: the frame overtakes those that wait. *)
PcmCopyFirst ==
  /\ DecoderAt("copy")
  /\ \E s \in pcmDecoder.slot :
       /\ pcmq_mem' = [pcmq_mem EXCEPT ![s] = pcmDecoder.frame]
       /\ pcmq_data' = <<s>> \o pcmq_data
  /\ ToDecoderSlot("decode", {})
  /\ UNCHANGED <<pcmq_free, pcmq_stop, pcmq_done, pcmOut, heard, dropped>>

(* ... the frame is copied and sent. *)
PcmCopy ==
  /\ DecoderAt("copy")
  /\ \E s \in pcmDecoder.slot :
       /\ pcmq_mem' = [pcmq_mem EXCEPT ![s] = pcmDecoder.frame]
       /\ pcmq_data' = Append(pcmq_data, s)
  /\ ToDecoderSlot("decode", {})
  /\ UNCHANGED <<pcmq_free, pcmq_stop, pcmq_done, pcmOut, heard, dropped>>

(* Mutant: the slots are not given back. *)
PcmFlushLoses ==
  /\ DecoderAt("flush")
  /\ ToDecoder("decode")
  /\ pcmq_data' = <<>>
  /\ dropped' = dropped \cup {pcmq_mem[pcmq_data[i]] : i \in DOMAIN pcmq_data}
  /\ UNCHANGED <<pcmq_free, pcmq_mem, pcmq_stop, pcmq_done, pcmOut, heard>>

(* pcmq_flush, slot by slot. *)
PcmFlush ==
  /\ DecoderAt("flush")
  /\ IF pcmq_data = <<>>
     THEN ToDecoder("decode") /\ UNCHANGED <<pcmq_data, dropped>>
     ELSE /\ ToDecoderSlot("flush.free", {Head(pcmq_data)})
          /\ pcmq_data' = Tail(pcmq_data)
          /\ dropped' = dropped \cup {pcmq_mem[Head(pcmq_data)]}
  /\ UNCHANGED <<pcmq_free, pcmq_mem, pcmq_stop, pcmq_done, pcmOut, heard>>

PcmFlushFree ==
  /\ DecoderAt("flush.free")
  /\ \E s \in pcmDecoder.slot : pcmq_free' = Append(pcmq_free, s)
  /\ ToDecoderSlot("flush", {})
  /\ UNCHANGED <<pcmq_data, pcmq_mem, pcmq_stop, pcmq_done, pcmOut, heard, dropped>>

(* pcmq_end: pcmq_task is told, ... *)
PcmEnd ==
  /\ DecoderAt("end")
  /\ pcmq_stop' = TRUE
  /\ ToDecoder("wait")
  /\ UNCHANGED <<pcmq_data, pcmq_free, pcmq_mem, pcmq_done, pcmOut, heard, dropped>>

(* ... and when it is done the slots are freed: the frames in them are not *)
(* heard any more.                                                         *)
PcmFreeAll ==
  /\ DecoderAt("wait")
  /\ pcmq_done
  /\ dropped' = dropped \cup {pcmq_mem[pcmq_data[i]] : i \in DOMAIN pcmq_data}
  /\ pcmq_data' = <<>> /\ pcmq_free' = <<>>
  /\ ToDecoder("ended")
  /\ UNCHANGED <<pcmq_mem, pcmq_stop, pcmq_done, pcmOut, heard>>

-----------------------------------------------------------------------------
(* pcmq_task: it looks for a stop before each frame and each 100 ms. *)
OutReceive ==
  /\ pcmOut.at = "receive"
  /\ IF pcmq_stop
     THEN pcmOut' = [pcmOut EXCEPT !.at = "stop"] /\ UNCHANGED pcmq_data
     ELSE /\ pcmq_data # <<>>
          /\ pcmOut' = [at |-> "render", slot |-> {Head(pcmq_data)}]
          /\ pcmq_data' = Tail(pcmq_data)
  /\ UNCHANGED <<pcmq_free, pcmq_mem, pcmq_stop, pcmq_done, pcmDecoder, heard, dropped>>

OutRender ==
  /\ pcmOut.at = "render"
  /\ \E s \in pcmOut.slot : heard' = Append(heard, pcmq_mem[s])
  /\ pcmOut' = [pcmOut EXCEPT !.at = "free"]
  /\ UNCHANGED <<pcmq_data, pcmq_free, pcmq_mem, pcmq_stop, pcmq_done, pcmDecoder,
                 dropped>>

OutFree ==
  /\ pcmOut.at = "free"
  /\ \E s \in pcmOut.slot : pcmq_free' = Append(pcmq_free, s)
  /\ pcmOut' = [at |-> "receive", slot |-> {}]
  /\ UNCHANGED <<pcmq_data, pcmq_mem, pcmq_stop, pcmq_done, pcmDecoder, heard, dropped>>

OutDone ==
  /\ pcmOut.at = "stop"
  /\ pcmq_done' = TRUE
  /\ pcmOut' = [pcmOut EXCEPT !.at = "deleted"]
  /\ UNCHANGED <<pcmq_data, pcmq_free, pcmq_mem, pcmq_stop, pcmDecoder, heard, dropped>>

PcmDecoderStep ==
  \/ PcmStart \/ PcmInline \/ PcmDecode \/ PcmTake \/ PcmCopy \/ PcmFlush
  \/ PcmFlushFree \/ PcmEnd \/ PcmFreeAll
PcmOutStep == OutReceive \/ OutRender \/ OutFree \/ OutDone
PcmNext == PcmStop \/ PcmDecoderStep \/ PcmOutStep
PcmFairness == WF_pcmVars(PcmDecoderStep) /\ WF_pcmVars(PcmOutStep)
PcmSpec == PcmInit /\ [][PcmNext]_pcmVars /\ PcmFairness

-----------------------------------------------------------------------------
PcmHeld == pcmDecoder.slot \cup pcmOut.slot

(* Every variable stays in its domain. *)
PcmTypeOK ==
  /\ pcmq_data \in Seq(1..PcmSlots) /\ pcmq_free \in Seq(1..PcmSlots)
  /\ pcmq_mem \in [1..PcmSlots -> 0..PcmFrames]
  /\ pcmq_stop \in BOOLEAN /\ pcmq_done \in BOOLEAN
  /\ pcmDecoder \in [at : {"start", "inline", "decode", "out", "copy", "flush",
                           "flush.free", "end", "wait", "ended"},
                     slot : SUBSET (1..PcmSlots), frame : 0..PcmFrames, stop : BOOLEAN]
  /\ pcmOut \in [at : {"none", "receive", "render", "free", "stop", "deleted"},
                 slot : SUBSET (1..PcmSlots)]
  /\ heard \in Seq(1..PcmFrames) /\ dropped \subseteq 1..PcmFrames

(* From the start of the queue to its end a slot is in one place: in one   *)
(* of the queues, once, or in the hand of one of the tasks.  So no frame   *)
(* is overwritten while it is rendered, no send finds its queue full, and  *)
(* no slot is lost, however often the queue is flushed.                    *)
PcmOnePlace ==
  ~(DecoderAt("start") \/ DecoderAt("inline") \/ DecoderAt("ended")) =>
    LET places == pcmq_free \o pcmq_data
    IN /\ \A i, j \in DOMAIN places : places[i] = places[j] => i = j
       /\ \A s \in 1..PcmSlots :
            \/ s \in PcmHeld /\ \A i \in DOMAIN places : places[i] # s
            \/ s \notin PcmHeld /\ \E i \in DOMAIN places : places[i] = s
       /\ pcmDecoder.slot \cap pcmOut.slot = {}

(* What has been heard, is being rendered and is queued is what has been   *)
(* sent but for what was dropped, once and in the order of decoding.       *)
PcmSent == IF pcmDecoder.at \in {"out", "copy"} THEN pcmDecoder.frame - 1
                                               ELSE pcmDecoder.frame
PcmRendering == IF pcmOut.at = "render"
                THEN <<pcmq_mem[CHOOSE s \in pcmOut.slot : TRUE]>> ELSE <<>>
PcmLine == heard \o PcmRendering \o [i \in 1..Len(pcmq_data) |-> pcmq_mem[pcmq_data[i]]]
PcmInOrder ==
  LET line == PcmLine
  IN /\ \A i, j \in DOMAIN line : i < j => line[i] < line[j]
     /\ {line[i] : i \in DOMAIN line} = (1..PcmSent) \ dropped

(* The decoder gets on, though nobody stops it: while it waits for a slot  *)
(* one comes back, whatever was flushed, and at the end the renderer tells *)
(* that it is done.                                                        *)
PcmReturns ==
  pcmDecoder.at \in {"out", "copy", "flush", "flush.free", "end", "wait"}
    ~> pcmDecoder.at \in {"decode", "ended"}
=================================================================================
