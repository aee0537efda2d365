------------------------------- MODULE Playback -------------------------------
(***************************************************************************)
(* The life of a stream: the client task of webclient.c that receives it,  *)
(* the player of audio_player.c it feeds, the decoder task that empties    *)
(* the song buffer, and the tasks (console, web server, timer, encoder)    *)
(* that press play and stop at any moment.                                 *)
(*                                                                         *)
(* They share plain variables with no lock, two binary semaphores and the  *)
(* song buffer.  One action is one store, semaphore call or wait, together *)
(* with the tests that lead to it.  Procedures that several tasks run      *)
(* (clientDisconnect, audio_player_stop, ...) are written once, with the   *)
(* task as a parameter, a label in pc and a stack of return labels.        *)
(*                                                                         *)
(* The song buffer is its fill level (SpiRamFifo has the rest); what a     *)
(* server sends, and whether it sends, is chosen freely; a wait of at most *)
(* a second (sConnected only shortens those) may end at any moment.        *)
(* HLS playlists (hls.c) and Bluetooth are not in this module.             *)
(***************************************************************************)
EXTENDS Naturals, Sequences

CONSTANTS
  Users,   \* the tasks that press play and stop
  Setups,  \* the radios and servers considered: see Setup
  MaxOps,  \* bound: presses in a behaviour
  Prompt,  \* TRUE: no task is held up, but where it waits, for as long as a
           \*   packet takes to come (20 ms at least)
  Capacity,\* fill level of a full song buffer
  Level    \* fill level above which a decoder is started: a part of the buffer
           \*   that leaves room for more than one packet

(* The decoder is vsTask or mp3_decoder_task, what users press, what       *)
(* servers do besides streaming, and whether decoder tasks may fail to be  *)
(* created and DNS queries to be answered.                                 *)
Setup ==
  [vs1053 : BOOLEAN,
   ops : SUBSET {"play", "stop", "instant"},
   server : SUBSET {"playlist", "unknown", "badheader", "stalls", "ends", "refuses"},
   failures : BOOLEAN]

ASSUME PlaybackAssumption ==
  /\ "client" \notin Users
  /\ Setups \subseteq Setup /\ Prompt \in BOOLEAN
  /\ MaxOps \in Nat /\ Capacity \in Nat /\ Level \in 0..(Capacity - 2)

VARIABLES
  sConnect, sDisconnect,     \* TRUE: the semaphore is available
  cstatus, once, playing,    \* webclient.c
  received,                  \* bytes_read > 0, until it is looked at
  player_status, decoder_status, command, decoder_command, eof, \* audio_player.c
  fill,                      \* the song buffer's fill level
  flushed,                   \* it was flushed since the client's write began
  decoder,                   \* the decoder tasks: slot -> where it is
  pc, stack,                 \* where each other task is, and returns to
  presses, wanted,           \* presses so far; the last one was not a stop
  late,                      \* a decoder has told its end before its creator has
                             \*   told of its beginning
  setup                      \* the radio and server of this behaviour

semaphores == <<sConnect, sDisconnect>>
session    == <<cstatus, once, playing, received>>
request    == <<command, decoder_command, eof>>
status     == <<player_status, decoder_status>>
buffer     == <<fill, flushed>>
control    == <<pc, stack>>
history    == <<presses, wanted, late, setup>>
vars == <<semaphores, session, request, status, buffer, decoder, control, history>>

VS1053 == setup.vs1053
Ops == setup.ops
Server == setup.server
Failures == setup.failures

Tasks == Users \cup {"client"}
Slots == 1..2

-----------------------------------------------------------------------------
(* A task goes on along a path of labels: it is at the first, and returns  *)
(* to the following ones in turn.                                          *)
At(t, l) == pc[t] = l
Go(t, path) == /\ pc' = [pc EXCEPT ![t] = Head(path)]
               /\ stack' = [stack EXCEPT ![t] = Tail(path) \o @]
Return(t)   == /\ pc' = [pc EXCEPT ![t] = Head(stack[t])]
               /\ stack' = [stack EXCEPT ![t] = Tail(@)]

(* spiRamFifoReset, or the buffer's re-allocation. *)
Flush == fill' = 0 /\ flushed' = At("client", "write")

-----------------------------------------------------------------------------
(* clientDisconnect and clientSilentDisconnect: signal the client, stop    *)
(* the player, wait up to a second for the client to be idle.              *)
Disconnect(t) ==
  /\ \/ At(t, "disc") /\ sDisconnect' = TRUE /\ Go(t, <<"disc.stop">>)
     \/ /\ At(t, "disc.stop")
        /\ IF player_status # "STOPPED" THEN Go(t, <<"stop", "disc.wait">>)
                                        ELSE Go(t, <<"disc.wait">>)
        /\ UNCHANGED sDisconnect
     \/ At(t, "disc.wait") /\ Return(t) /\ UNCHANGED sDisconnect
  /\ UNCHANGED <<sConnect, session, request, status, buffer, decoder, history>>

(* clientConnect, and clientConnectOnce ("conn1"), which marks the stream  *)
(* as played once only after the client has been woken.                    *)
ConnectBegin(t, l, next) ==
  /\ At(t, l)
  /\ cstatus' = "HEADER"
  /\ once' = (once /\ l = "conn1")
  /\ Go(t, <<next>>)
  /\ UNCHANGED <<playing, received, semaphores, request, status, buffer, decoder, history>>

ConnectResolve(t, l, next) ==
  /\ At(t, l)
  /\ \/ sConnect' = TRUE /\ Go(t, <<next>>)
     \/ Failures /\ Go(t, <<"disc", next>>) /\ UNCHANGED sConnect
  /\ UNCHANGED <<sDisconnect, session, request, status, buffer, decoder, history>>

ConnectEnd(t) ==
  /\ \/ At(t, "conn.end") /\ UNCHANGED once
     \/ At(t, "conn1.end") /\ once' = TRUE
  /\ Return(t)
  /\ UNCHANGED <<cstatus, playing, received, semaphores, request, status, buffer,
                 decoder, history>>

Connect(t) == \/ ConnectBegin(t, "conn", "conn.dns")
              \/ ConnectBegin(t, "conn1", "conn1.dns")
              \/ ConnectResolve(t, "conn.dns", "conn.end")
              \/ ConnectResolve(t, "conn1.dns", "conn1.end")
              \/ ConnectEnd(t)

-----------------------------------------------------------------------------
(* No decoder can move: there is none left, or the one there is waits in   *)
(* spiRamFifoRead for bytes it saw before the buffer was flushed.          *)
Stuck == \A d \in Slots : decoder[d] = "none" \/ (decoder[d] = "read" /\ fill = 0)

(* audio_player_stop.  A decoder that can run stops within the five        *)
(* seconds it is given, so the wait is given up only when none can, or     *)
(* when a start has withdrawn the request.                                 *)
StopRequest(t) ==
  /\ \/ /\ At(t, "stop") /\ decoder_command' = "STOP"
        /\ Go(t, <<"stop.command">>) /\ UNCHANGED <<command, eof>>
     \/ /\ At(t, "stop.command") /\ command' = "STOP"
        /\ Go(t, <<"stop.eof">>) /\ UNCHANGED <<decoder_command, eof>>
     \/ /\ At(t, "stop.eof") /\ eof' = TRUE
        /\ Go(t, <<"stop.wait">>) /\ UNCHANGED <<command, decoder_command>>
  /\ UNCHANGED <<status, semaphores, session, buffer, decoder, history>>

(* Mutant: a decoder that does not stop in time is declared stopped. *)
StopWaitDeclares(t) ==
  /\ At(t, "stop.wait")
  /\ decoder_status # "RUNNING" \/ Stuck
  /\ decoder_status' = "STOPPED"
  /\ Go(t, <<"stop.end">>)
  /\ UNCHANGED <<player_status, semaphores, session, request, buffer, decoder, history>>

(* Mutant: a decoder is waited for as long as it takes. *)
StopWaitEndless(t) ==
  /\ At(t, "stop.wait")
  /\ decoder_status # "RUNNING"
  /\ Go(t, <<"stop.end">>)
  /\ UNCHANGED <<semaphores, session, request, status, buffer, decoder, history>>

StopWait(t) ==
  /\ At(t, "stop.wait")
  /\ \/ decoder_status # "RUNNING" /\ Go(t, <<"stop.end">>)
     \/ /\ decoder_status = "RUNNING"
        /\ Stuck \/ decoder_command # "STOP"
        /\ Return(t)
  /\ UNCHANGED <<semaphores, session, request, status, buffer, decoder, history>>

StopEnd(t) ==
  /\ \/ /\ At(t, "stop.end") /\ command' = "NONE"
        /\ Go(t, <<"stop.status">>) /\ UNCHANGED player_status
     \/ /\ At(t, "stop.status") /\ player_status' = "STOPPED"
        /\ Return(t) /\ UNCHANGED command
  /\ UNCHANGED <<decoder_status, decoder_command, eof, semaphores, session, buffer,
                 decoder, history>>

Stop(t) == StopRequest(t) \/ StopWait(t) \/ StopEnd(t)

-----------------------------------------------------------------------------
(* start_decoder_task: the task is created, and decoder_status stored      *)
(* afterwards ("create.end"); when it cannot be created the buffer is      *)
(* flushed.                                                                *)
Create(next, failed) ==
  \/ /\ \E d \in Slots : /\ decoder[d] = "none"
                         /\ \A e \in 1..(d - 1) : decoder[e] # "none"
                         /\ decoder' = [decoder EXCEPT ![d] = "init"]
     /\ Go("client", <<"create.end", next>>)
     /\ UNCHANGED buffer
  \/ /\ Failures
     /\ Flush
     /\ Go("client", <<failed>>)
     /\ UNCHANGED decoder

CreateEnd ==
  /\ At("client", "create.end")
  /\ decoder_status' = "RUNNING"
  /\ Return("client")
  /\ UNCHANGED <<player_status, request, semaphores, session, buffer, decoder, history>>

(* audio_player_start, which only the client task calls: the requests of a *)
(* stop are withdrawn, and a decoder is started at once when enough is     *)
(* buffered already.                                                       *)
Start ==
  \/ /\ \/ /\ At("client", "start") /\ eof' = FALSE
           /\ Go("client", <<"start.command">>) /\ UNCHANGED <<command, decoder_command>>
        \/ /\ At("client", "start.command") /\ command' = "START"
           /\ Go("client", <<"start.decoder">>) /\ UNCHANGED <<eof, decoder_command>>
        \/ /\ At("client", "start.decoder") /\ decoder_command' = "NONE"
           /\ Go("client", <<"start.run">>) /\ UNCHANGED <<eof, command>>
     /\ UNCHANGED <<status, semaphores, session, buffer, decoder, history>>
  \/ /\ At("client", "start.run")
     /\ player_status' = "RUNNING"
     /\ IF player_status # "RUNNING" THEN Go("client", <<"start.ignite">>)
                                     ELSE Return("client")
     /\ UNCHANGED <<decoder_status, request, semaphores, session, buffer, decoder, history>>
  \/ /\ At("client", "start.ignite")
     /\ IF decoder_status # "RUNNING" /\ fill > Level
        THEN Create("start.end", "start.end")
        ELSE Go("client", <<"start.end">>) /\ UNCHANGED <<buffer, decoder>>
     /\ UNCHANGED <<request, status, semaphores, session, history>>
  \/ /\ At("client", "start.end")
     /\ Return("client")
     /\ UNCHANGED <<request, status, semaphores, session, buffer, decoder, history>>

(* audio_stream_consumer: bytes are not taken once a stop is asked for,    *)
(* block until they fit in the buffer, and start a decoder when it is full *)
(* enough.                                                                 *)
ConsumeCheck ==
  /\ At("client", "consume")
  /\ IF command = "STOP" THEN Go("client", <<"disc", "announce">>)
                         ELSE Go("client", <<"write">>)
  /\ UNCHANGED <<semaphores, session, request, status, buffer, decoder, history>>

(* Mutant: the writer does not wait for room. *)
ConsumeWriteAtOnce ==
  /\ At("client", "write")
  /\ fill' = IF flushed THEN fill ELSE fill + 1
  /\ flushed' = FALSE
  /\ Go("client", <<"ignite">>)
  /\ UNCHANGED <<semaphores, session, request, status, decoder, history>>

ConsumeWrite ==
  /\ At("client", "write")
  /\ \/ flushed /\ UNCHANGED fill
     \/ /\ ~flushed /\ fill < Capacity
        /\ fill' = fill + 1
  /\ flushed' = FALSE
  /\ Go("client", <<"ignite">>)
  /\ UNCHANGED <<semaphores, session, request, status, decoder, history>>

(* Mutant: a decoder is started without a look at decoder_status. *)
ConsumeIgniteAnyway ==
  /\ At("client", "ignite")
  /\ IF fill > Level THEN Create("announce", "failed")
                     ELSE Go("client", <<"announce">>) /\ UNCHANGED <<buffer, decoder>>
  /\ UNCHANGED <<semaphores, session, request, status, history>>

ConsumeIgnite ==
  /\ At("client", "ignite")
  /\ IF decoder_status # "RUNNING" /\ fill > Level
     THEN Create("announce", "failed")
     ELSE Go("client", <<"announce">>) /\ UNCHANGED <<buffer, decoder>>
  /\ UNCHANGED <<semaphores, session, request, status, history>>

(* No decoder: "Cannot decode" is announced. *)
ConsumeFailed ==
  /\ \/ /\ At("client", "failed")
        /\ Go("client", <<"stop", "disc", "failed.end">>)
        /\ UNCHANGED playing
     \/ /\ At("client", "failed.end")
        /\ playing' = TRUE
        /\ Go("client", <<"check">>)
  /\ UNCHANGED <<cstatus, once, received, semaphores, request, status, buffer, decoder, history>>

Consume == ConsumeCheck \/ ConsumeWrite \/ ConsumeIgnite \/ ConsumeFailed

-----------------------------------------------------------------------------
(* clientReceiveCallback, by what the received bytes are taken for.        *)
(* A playlist: its station is taken, and cstatus remembers to connect to   *)
(* it once this connection is closed.                                      *)
CallbackPlaylist ==
  /\ At("client", "callback")
  /\ \/ /\ cstatus = "PLAYLIST"
        /\ \/ Go("client", <<"disc", "check">>) /\ UNCHANGED cstatus
           \/ Go("client", <<"check">>) /\ cstatus' = "PLAYLIST1"
     \/ /\ cstatus = "PLAYLIST1"
        /\ Go("client", <<"disc", "again">>) /\ UNCHANGED cstatus
  /\ UNCHANGED <<once, playing, received, semaphores, request, status, buffer, decoder, history>>

(* A header: good ("header"), moved ("again"), not found, or of an unknown *)
(* content: then the client is told to disconnect, but goes on.            *)
CallbackHeader ==
  /\ At("client", "callback")
  /\ \/ /\ cstatus = "HEADER"
        /\ \/ Go("client", <<"header">>)
           \/ "unknown"  \in Server /\ Go("client", <<"disc", "header">>)
           \/ "playlist" \in Server /\ Go("client", <<"disc", "again">>)
        /\ UNCHANGED cstatus
     \/ /\ "badheader" \in Server
        /\ cstatus # "DATA"
        /\ cstatus' = "HEADER"
        /\ Go("client", <<"disc", "check">>)
  /\ UNCHANGED <<once, playing, received, semaphores, request, status, buffer, decoder, history>>

CallbackAgain ==
  /\ At("client", "again")
  /\ cstatus' = "PLAYLIST"
  /\ Go("client", <<"check">>)
  /\ UNCHANGED <<once, playing, received, semaphores, request, status, buffer, decoder, history>>

(* The header ends: the player is started, and fed with what follows it.   *)
CallbackStream ==
  /\ At("client", "header")
  /\ cstatus' = "DATA"
  /\ \E next \in {"check", "consume"} : Go("client", <<"start", next>>)
  /\ UNCHANGED <<once, playing, received, semaphores, request, status, buffer, decoder, history>>

CallbackData ==
  /\ At("client", "callback")
  /\ cstatus = "DATA"
  /\ Go("client", <<"consume">>)
  /\ UNCHANGED <<semaphores, session, request, status, buffer, decoder, history>>

(* Every fortieth packet, the stream is declared to be playing. *)
CallbackAnnounce ==
  /\ At("client", "announce")
  /\ playing' \in {playing, TRUE}
  /\ Go("client", <<"check">>)
  /\ UNCHANGED <<cstatus, once, received, semaphores, request, status, buffer, decoder, history>>

Callback == \/ CallbackPlaylist \/ CallbackHeader \/ CallbackAgain
            \/ CallbackStream \/ CallbackData \/ CallbackAnnounce

-----------------------------------------------------------------------------
(* clientTask: idle until a connection is asked for; a stop asked for      *)
(* earlier is forgotten.                                                   *)
Wait ==
  /\ \/ /\ At("client", "wait") /\ sConnect
        /\ sConnect' = FALSE
        /\ Go("client", <<"drain">>) /\ UNCHANGED sDisconnect
     \/ /\ At("client", "drain")
        /\ sDisconnect' = FALSE
        /\ Go("client", <<"open">>) /\ UNCHANGED sConnect
  /\ UNCHANGED <<session, request, status, buffer, decoder, history>>

(* The connection is made, or not; over TLS the song buffer is allocated   *)
(* anew meanwhile.                                                         *)
Open ==
  /\ At("client", "open")
  /\ Flush \/ UNCHANGED buffer
  /\ \/ "refuses" \in Server /\ Go("client", <<"disc", "wait">>)
     \/ Go("client", <<"send">>)
  /\ UNCHANGED <<semaphores, session, request, status, decoder, history>>

(* The request is sent; that it asks for a playlist, cstatus tells.        *)
Send ==
  /\ At("client", "send")
  /\ cstatus' \in {cstatus} \cup (IF "playlist" \in Server THEN {"PLAYLIST"} ELSE {})
  /\ Go("client", <<"receive">>)
  /\ UNCHANGED <<once, playing, received, semaphores, request, status, buffer, decoder, history>>

(* Bytes are received, or none for six seconds, or no more.                *)
Receive ==
  /\ At("client", "receive")
  /\ Prompt => /\ \A u \in Users : pc[u] \in {"rest", "disc.wait", "stop.wait",
                                              "conn.dns", "conn1.dns"}
               /\ \A d \in Slots : decoder[d] # "command"
  /\ \/ received' = TRUE /\ Go("client", <<"callback">>)
     \/ "stalls" \in Server /\ received' = FALSE /\ Go("client", <<"check">>)
     \/ "ends"   \in Server /\ received' = FALSE /\ Go("client", <<"cleanup">>)
  /\ UNCHANGED <<cstatus, once, playing, semaphores, request, status, buffer, decoder, history>>

(* After every reception: is a stop asked for?                             *)
Check ==
  /\ At("client", "check")
  /\ sDisconnect' = FALSE
  /\ IF ~sDisconnect /\ (received \/ playing)
       THEN Go("client", <<"receive">>) /\ received' = FALSE
       ELSE Go("client", <<"cleanup">>) /\ UNCHANGED received
  /\ UNCHANGED <<sConnect, cstatus, once, playing, request, status, buffer, decoder, history>>

(* The connection is over.  A station whose stream broke is connected to   *)
(* again; an instant stream is played to the end of the song buffer.       *)
Cleanup ==
  /\ At("client", "cleanup")
  /\ IF received THEN Go("client", <<"clean">>)
     ELSE \/ ~once /\ playing  /\ Go("client", <<"disc", "conn", "restarted">>)
          \/ ~once /\ ~playing /\ Go("client", <<"disc", "clean">>)
          \/ once  /\ playing  /\ Go("client", <<"drained">>)
          \/ once  /\ ~playing /\ Go("client", <<IF fill > 0 THEN "force" ELSE "clean">>)
  /\ received' = FALSE
  /\ playing' = (playing \/ (~received /\ once /\ fill > 0))
  /\ UNCHANGED <<cstatus, once, semaphores, request, status, buffer, decoder, history>>

(* Waiting until the decoder has emptied the song buffer.                  *)
CleanupDrained ==
  /\ fill = 0
  /\ \/ At("client", "drained") /\ UNCHANGED playing
     \/ At("client", "force") /\ playing' = FALSE
  /\ Go("client", <<"disc", "clean">>)
  /\ UNCHANGED <<cstatus, once, received, semaphores, request, status, buffer, decoder, history>>

CleanupRestarted ==
  /\ At("client", "restarted")
  /\ playing' = TRUE
  /\ Go("client", <<"clean">>)
  /\ UNCHANGED <<cstatus, once, received, semaphores, request, status, buffer, decoder, history>>

(* "stop clean", of a stream that had been declared to be playing.         *)
Clean ==
  \/ /\ At("client", "clean")
     /\ Go("client", CASE ~playing -> <<"clear">>
                       [] playing /\ player_status # "STOPPED" -> <<"stop", "cleaned">>
                       [] OTHER -> <<"cleaned">>)
     /\ UNCHANGED <<semaphores, session, request, status, buffer, decoder, history>>
  \/ /\ At("client", "cleaned")
     /\ eof' = TRUE /\ playing' = FALSE
     /\ Go("client", <<"clear">>)
     /\ UNCHANGED <<cstatus, once, received, command, decoder_command, semaphores,
                    status, buffer, decoder, history>>

(* "clearAll": the buffer is flushed, the socket closed, and the station   *)
(* of a playlist connected to.                                             *)
Clear ==
  \/ /\ At("client", "clear")
     /\ Flush
     /\ Go("client", <<"close">>)
     /\ UNCHANGED <<semaphores, session, request, status, decoder, history>>
  \/ /\ At("client", "close")
     /\ Go("client", IF cstatus = "PLAYLIST" THEN <<"conn", "wait">> ELSE <<"wait">>)
     /\ UNCHANGED <<semaphores, session, request, status, buffer, decoder, history>>

ClientTask == \/ Wait \/ Open \/ Send \/ Receive \/ Check \/ Cleanup
              \/ CleanupDrained \/ CleanupRestarted \/ Clean \/ Clear

-----------------------------------------------------------------------------
DecoderGoes(d, l) == decoder' = [decoder EXCEPT ![d] = l]

(* A decoder task begins, on another core and with a higher priority than  *)
(* its creator, which has yet to store decoder_status: mp3_decoder_task    *)
(* allocates its buffers and sets up the output, vsTask has nothing to set *)
(* up.                                                                     *)
DecoderInit(d) ==
  /\ decoder[d] = "init"
  /\ DecoderGoes(d, "loop")
  /\ UNCHANGED <<semaphores, session, request, status, buffer, control, history>>

(* A decoder looks for a stop, for bytes, and (but for vsTask) for the end *)
(* of the stream.                                                          *)
DecoderLoop(d) ==
  /\ decoder[d] = "loop"
  /\ \/ /\ \/ decoder_command = "STOP"
           \/ fill = 0 /\ eof /\ ~VS1053
        /\ DecoderGoes(d, IF VS1053 THEN "status" ELSE "flush")
     \/ /\ decoder_command # "STOP"
        /\ fill > 0
        /\ DecoderGoes(d, "read")
  /\ UNCHANGED <<semaphores, session, request, status, buffer, control, history>>

DecoderRead(d) ==
  /\ decoder[d] = "read"
  /\ fill > 0
  /\ fill' = fill - 1
  /\ DecoderGoes(d, IF VS1053 THEN "loop" ELSE "decode")
  /\ UNCHANGED <<flushed, semaphores, session, request, status, control, history>>

(* mp3_decoder_task decodes what it has read, unless it is told to stop:   *)
(* then it has the consumer stopped too.                                   *)
DecoderDecode(d) ==
  /\ \/ /\ decoder[d] = "decode"
        /\ DecoderGoes(d, IF decoder_command = "STOP" THEN "abort" ELSE "loop")
        /\ UNCHANGED command
     \/ /\ decoder[d] = "abort"
        /\ command' = "STOP"
        /\ DecoderGoes(d, "flush")
  /\ UNCHANGED <<decoder_command, eof, semaphores, session, status, buffer, control, history>>

(* Mutant: the end is not told. *)
DecoderStoppedUntold(d) ==
  /\ decoder[d] = "status"
  /\ DecoderGoes(d, "command")
  /\ UNCHANGED <<semaphores, session, request, status, buffer, control, history>>

(* The way out: mp3_decoder_task flushes the song buffer before it says it *)
(* has stopped, vsTask after.                                              *)
DecoderFlush(d) ==
  /\ decoder[d] = "flush"
  /\ Flush
  /\ DecoderGoes(d, IF VS1053 THEN "none" ELSE "status")
  /\ UNCHANGED <<semaphores, session, request, status, control, history>>

DecoderStopped(d) ==
  /\ decoder[d] = "status"
  /\ decoder_status' = "STOPPED"
  /\ late' = (late \/ At("client", "create.end"))
  /\ DecoderGoes(d, "command")
  /\ UNCHANGED <<player_status, semaphores, session, request, buffer, control, presses,
                 wanted, setup>>

DecoderEnd(d) ==
  /\ decoder[d] = "command"
  /\ decoder_command' = "NONE"
  /\ DecoderGoes(d, IF VS1053 THEN "flush" ELSE "none")
  /\ UNCHANGED <<command, eof, semaphores, session, status, buffer, control, history>>

Decoder(d) == \/ DecoderInit(d) \/ DecoderLoop(d) \/ DecoderRead(d) \/ DecoderDecode(d)
              \/ DecoderFlush(d) \/ DecoderStopped(d) \/ DecoderEnd(d)

-----------------------------------------------------------------------------
(* playStationInt, the stop commands, and the instant play of an URL.      *)
Press(u) ==
  /\ At(u, "rest")
  /\ presses < MaxOps
  /\ presses' = presses + 1
  /\ \E op \in Ops :
       /\ wanted' = (op # "stop")
       /\ Go(u, CASE op = "play"    -> <<"disc", "conn", "rest">>
                  [] op = "stop"    -> <<"disc", "rest">>
                  [] op = "instant" -> <<"disc", "conn1", "rest">>)
  /\ UNCHANGED <<semaphores, session, request, status, buffer, decoder, late, setup>>

Init ==
  /\ sConnect = FALSE /\ sDisconnect = FALSE
  /\ cstatus = "HEADER" /\ once = FALSE /\ playing = FALSE /\ received = FALSE
  /\ player_status = "INITIALIZED" /\ decoder_status = "UNINITIALIZED"
  /\ command = "NONE" /\ decoder_command = "NONE" /\ eof = FALSE
  /\ fill = 0 /\ flushed = FALSE
  /\ decoder = [d \in Slots |-> "none"]
  /\ pc = [t \in Tasks |-> IF t = "client" THEN "wait" ELSE "rest"]
  /\ stack = [t \in Tasks |-> <<>>]
  /\ presses = 0 /\ wanted = FALSE /\ late = FALSE
  /\ setup \in Setups

Procedures(t) == Disconnect(t) \/ Connect(t) \/ Stop(t)
Client == Procedures("client") \/ CreateEnd \/ Start \/ Consume \/ Callback \/ ClientTask

Next == \/ Client
        \/ \E u \in Users : Press(u) \/ Procedures(u)
        \/ \E d \in Slots : Decoder(d)

Spec == Init /\ [][Next]_vars

(* FreeRTOS runs every task that is ready, all waits but the three the     *)
(* guards state are bounded, and a reception times out after six seconds.  *)
Fairness == /\ WF_vars(Client)
            /\ \A u \in Users : WF_vars(Procedures(u))
            /\ \A d \in Slots : WF_vars(Decoder(d))

FairSpec == Spec /\ Fairness

-----------------------------------------------------------------------------
(* Where tasks are: in a procedure, to return from, or in code of theirs.  *)
Procedure ==
  {"disc", "disc.stop", "disc.wait", "conn", "conn.dns", "conn.end",
   "conn1", "conn1.dns", "conn1.end", "stop", "stop.command", "stop.eof", "stop.wait",
   "stop.end", "stop.status", "create.end", "start", "start.command", "start.decoder",
   "start.run", "start.ignite", "start.end"}
Labels == Procedure \cup
  {"rest", "wait", "drain", "open", "send", "receive", "callback", "again", "header",
   "consume", "write", "ignite", "failed", "failed.end", "announce", "check", "cleanup",
   "drained", "force", "restarted", "clean", "cleaned", "clear", "close"}

(* Every variable stays in its domain: the writes of the client never      *)
(* overfill the song buffer.                                               *)
TypeOK ==
  /\ {sConnect, sDisconnect, once, playing, received, eof, flushed} \subseteq BOOLEAN
  /\ cstatus \in {"HEADER", "DATA", "PLAYLIST", "PLAYLIST1"}
  /\ player_status \in {"INITIALIZED", "RUNNING", "STOPPED"}
  /\ decoder_status \in {"UNINITIALIZED", "RUNNING", "STOPPED"}
  /\ command \in {"NONE", "START", "STOP"} /\ decoder_command \in {"NONE", "STOP"}
  /\ fill \in 0..Capacity
  /\ decoder \in [Slots -> {"none", "init", "loop", "read", "decode", "abort",
                            "flush", "status", "command"}]
  /\ pc \in [Tasks -> Labels] /\ stack \in [Tasks -> Seq(Labels)]
  /\ presses \in 0..MaxOps /\ {wanted, late} \subseteq BOOLEAN /\ setup \in Setups

(* The decoder tasks that use the output and the song buffer. *)
Playing == {d \in Slots : decoder[d] \in {"init", "loop", "read", "decode", "abort"}}

(* Two decoders never play at once, although several tasks stop the player *)
(* and the client starts decoders in two places.                           *)
OneDecoder == \A d, e \in Playing : d = e

(* decoder_status, all that start_decoder_task's callers look at, is       *)
(* RUNNING as long as a decoder plays.                                     *)
StatusTells == Playing # {} => decoder_status = "RUNNING" \/ At("client", "create.end")

(* A decoder task that has not yet told its end in decoder_status:         *)
(* mp3_decoder_task flushes the song buffer before it does, vsTask after.  *)
Active(d) ==
  \/ decoder[d] \in {"init", "loop", "read", "decode", "abort", "status"}
  \/ decoder[d] = "flush" /\ ~VS1053

(* ... and RUNNING only as long as there is a decoder that will say that   *)
(* it is not: without one nobody starts a decoder any more, and nobody     *)
(* reads what the client writes.  Except that the decoder may do so before *)
(* its creator says that it is.                                            *)
StatusIsTrue == decoder_status = "RUNNING" => late \/ \E d \in Slots : Active(d)

(* The client waits for room in the song buffer, and nobody empties it.    *)
Unread ==
  /\ At("client", "write") /\ ~flushed /\ fill = Capacity
  /\ \A d \in Slots : decoder[d] = "none"

(* The client task always comes back to its wait for bytes or for orders,  *)
(* unless it is left with a full song buffer and no decoder.               *)
ClientReturns == []<>(pc["client"] \in {"receive", "wait"} \/ Unread)

(* cli.stop "stop the playing station or instant": the client does not ask *)
(* for a connection by itself once a stop has returned.                    *)
NoRestartAfterStop ==
  [][At("client", "conn.dns") /\ sConnect' /\ ~wanted
     => \E u \in Users : ~At(u, "rest")]_vars

(* audio_stream_consumer "starts decoder task if necessary": the client    *)
(* does not wait for room in the song buffer when nobody empties it.       *)
FullBufferIsRead == Unread => \E u \in Users : ~At(u, "rest")

(* clientTask's "Force the read of the buffer": what a short stream left   *)
(* in the song buffer is being read while the client waits for that.       *)
RestIsRead ==
  pc["client"] \in {"force", "drained"} /\ fill > 0
    => \E d \in Slots : decoder[d] # "none"
=============================================================================
