---------------------------- MODULE Playback_proofs ----------------------------
(***************************************************************************)
(* Proofs about the decoder tasks of a radio, the calls its tasks make and *)
(* the song buffer: any number of tasks press play and stop, any number of *)
(* times, with either decoder, a song buffer of every size, and servers    *)
(* that do what they like.                                                 *)
(***************************************************************************)
EXTENDS Playback, TLAPS

(* There is one such task at most, and decoder_status tells of it, but     *)
(* between the creation of the task and the store that follows it.         *)
DecoderInv ==
  /\ \A d, e \in Slots : Active(d) /\ Active(e) => d = e
  /\ \A d \in Slots : Active(d) => decoder_status = "RUNNING" \/ At("client", "create.end")

Places ==
  /\ DOMAIN pc = Tasks /\ pc = [t \in Tasks |-> pc[t]]
  /\ decoder = [d \in Slots |-> decoder[d]]

PlaybackInv == Places /\ DecoderInv

-----------------------------------------------------------------------------
LEMMA InvInit == Init => PlaybackInv
  BY DEF Init, PlaybackInv, Places, DecoderInv, Active, Slots

(* Steps that leave the decoders and decoder_status alone: those of users, *)
(* and those of the client but where it has created a decoder.             *)
LEMMA Moves ==
  ASSUME PlaybackInv, NEW t \in Tasks, NEW path, Go(t, path) \/ Return(t),
         t = "client" => ~At("client", "create.end"),
         UNCHANGED <<decoder, decoder_status, setup>>
  PROVE  PlaybackInv'
<1>1. PICK l : pc' = [pc EXCEPT ![t] = l] BY DEF Go, Return
<1>2. pc' = [u \in Tasks |-> IF u = t THEN l ELSE pc[u]]
  BY <1>1 DEF PlaybackInv, Places
<1>3. Places' BY <1>2 DEF PlaybackInv, Places
<1>4. At("client", "create.end") => At("client", "create.end")'
  BY <1>2, PlaybackAssumption DEF At, Tasks
<1>5. DecoderInv' BY <1>4 DEF PlaybackInv, DecoderInv, Active, VS1053
<1>6. QED BY <1>3, <1>5 DEF PlaybackInv

LEMMA ProceduresKeep ==
  ASSUME PlaybackInv, NEW t \in Tasks, Procedures(t) PROVE PlaybackInv'
<1>1. CASE Disconnect(t)
  <2>1. t = "client" => ~At("client", "create.end") BY <1>1 DEF Disconnect, At
  <2>2. UNCHANGED <<decoder, decoder_status, setup>> BY <1>1 DEF Disconnect, status, history
  <2>3. (\E path : Go(t, path)) \/ Return(t) BY <1>1, Zenon DEF Disconnect
  <2>4. QED BY <2>1, <2>2, <2>3, Moves
<1>2. CASE Connect(t)
  <2>1. t = "client" => ~At("client", "create.end")
    BY <1>2 DEF Connect, ConnectBegin, ConnectResolve, ConnectEnd, At
  <2>2. UNCHANGED <<decoder, decoder_status, setup>>
    BY <1>2 DEF Connect, ConnectBegin, ConnectResolve, ConnectEnd, status, history
  <2>3. (\E path : Go(t, path)) \/ Return(t)
    BY <1>2, Zenon DEF Connect, ConnectBegin, ConnectResolve, ConnectEnd
  <2>4. QED BY <2>1, <2>2, <2>3, Moves
<1>3. CASE Stop(t)
  <2>1. t = "client" => ~At("client", "create.end")
    BY <1>3 DEF Stop, StopRequest, StopWait, StopEnd, At
  <2>2. UNCHANGED <<decoder, decoder_status, setup>>
    BY <1>3 DEF Stop, StopRequest, StopWait, StopEnd, status, history
  <2>3. (\E path : Go(t, path)) \/ Return(t)
    BY <1>3, Zenon DEF Stop, StopRequest, StopWait, StopEnd
  <2>4. QED BY <2>1, <2>2, <2>3, Moves
<1>4. QED BY <1>1, <1>2, <1>3 DEF Procedures

LEMMA PressKeeps ==
  ASSUME PlaybackInv, NEW u \in Users, Press(u) PROVE PlaybackInv'
<1>1. u \in Tasks /\ u # "client" BY PlaybackAssumption DEF Tasks
<1>2. UNCHANGED <<decoder, decoder_status, setup>> BY DEF Press, status
<1>3. \E path : Go(u, path) BY Zenon DEF Press
<1>4. QED BY <1>1, <1>2, <1>3, Moves

(* A decoder is created where decoder_status has been found not to be      *)
(* RUNNING, so that there is no active one.                                *)
LEMMA CreateKeeps ==
  ASSUME PlaybackInv, NEW next, NEW failed, Create(next, failed),
         decoder_status # "RUNNING", ~At("client", "create.end"),
         UNCHANGED <<decoder_status, setup>>
  PROVE  PlaybackInv'
<1>1. "client" \in Tasks BY DEF Tasks
<1>2. CASE UNCHANGED decoder /\ Go("client", <<failed>>)
  BY <1>1, <1>2, Moves
<1>3. ASSUME NEW n \in Slots, decoder' = [decoder EXCEPT ![n] = "init"],
             Go("client", <<"create.end", next>>)
      PROVE  PlaybackInv'
  <2>1. \A d \in Slots : ~Active(d) BY DEF PlaybackInv, DecoderInv
  <2>2. decoder' = [d \in Slots |-> IF d = n THEN "init" ELSE decoder[d]]
    BY <1>3 DEF PlaybackInv, Places
  <2>3. pc' = [pc EXCEPT !["client"] = "create.end"] BY <1>3 DEF Go
  <2>4. pc' = [u \in Tasks |-> IF u = "client" THEN "create.end" ELSE pc[u]]
    BY <2>3 DEF PlaybackInv, Places
  <2>5. Places' BY <2>2, <2>4 DEF Places
  <2>6. At("client", "create.end")' BY <1>1, <2>4 DEF At
  <2>7. \A d \in Slots : Active(d)' => d = n BY <2>1, <2>2 DEF Active, VS1053
  <2>8. DecoderInv' BY <2>6, <2>7 DEF DecoderInv
  <2>9. QED BY <2>5, <2>8 DEF PlaybackInv
<1>4. QED BY <1>2, <1>3 DEF Create

LEMMA CreateEndKeeps ==
  ASSUME PlaybackInv, CreateEnd PROVE PlaybackInv'
<1>1. UNCHANGED <<decoder, setup>> /\ decoder_status' = "RUNNING"
  BY DEF CreateEnd, history
<1>2. pc' = [pc EXCEPT !["client"] = Head(stack["client"])] BY DEF CreateEnd, Return
<1>3. Places' BY <1>1, <1>2 DEF PlaybackInv, Places
<1>4. DecoderInv' BY <1>1 DEF PlaybackInv, DecoderInv, Active, VS1053
<1>5. QED BY <1>3, <1>4 DEF PlaybackInv

(* The other steps of the client. *)
LEMMA ClientMoves ==
  ASSUME PlaybackInv, NEW from, At("client", from), from # "create.end",
         (\E path : Go("client", path)) \/ Return("client"),
         UNCHANGED <<decoder, decoder_status, setup>>
  PROVE  PlaybackInv'
<1>1. "client" \in Tasks BY DEF Tasks
<1>2. ~At("client", "create.end") BY DEF At
<1>3. QED BY <1>1, <1>2, Moves

LEMMA StartKeeps ==
  ASSUME PlaybackInv, Start PROVE PlaybackInv'
<1>1. UNCHANGED <<decoder_status, setup>> BY DEF Start, status, history
<1>2. CASE At("client", "start.ignite")
  <2>1. ~At("client", "create.end") BY <1>2 DEF At
  <2>2. CASE decoder_status # "RUNNING" /\ fill > Level
    <3>1. Create("start.end", "start.end") BY <1>2, <2>2 DEF Start, At
    <3>2. QED BY <1>1, <2>1, <2>2, <3>1, CreateKeeps
  <2>3. CASE ~(decoder_status # "RUNNING" /\ fill > Level)
    <3>1. Go("client", <<"start.end">>) /\ UNCHANGED decoder
      BY <1>2, <2>3 DEF Start, At
    <3>2. QED BY <1>1, <1>2, <3>1, ClientMoves
  <2>4. QED BY <2>2, <2>3
<1>3. CASE ~At("client", "start.ignite")
  <2>1. /\ UNCHANGED decoder
        /\ ~At("client", "create.end")
        /\ (\E path : Go("client", path)) \/ Return("client")
    BY <1>3 DEF Start, At
  <2>2. "client" \in Tasks BY DEF Tasks
  <2>3. QED BY <1>1, <2>1, <2>2, Moves
<1>4. QED BY <1>2, <1>3

LEMMA ConsumeKeeps ==
  ASSUME PlaybackInv, Consume PROVE PlaybackInv'
<1>1. UNCHANGED <<decoder_status, setup>>
  BY DEF Consume, ConsumeCheck, ConsumeWrite, ConsumeIgnite, ConsumeFailed, status, history
<1>2. CASE ConsumeIgnite
  <2>1. At("client", "ignite") /\ ~At("client", "create.end") BY <1>2 DEF ConsumeIgnite, At
  <2>2. CASE decoder_status # "RUNNING" /\ fill > Level
    <3>1. Create("announce", "failed") BY <1>2, <2>2 DEF ConsumeIgnite
    <3>2. QED BY <1>1, <2>1, <2>2, <3>1, CreateKeeps
  <2>3. CASE ~(decoder_status # "RUNNING" /\ fill > Level)
    <3>1. Go("client", <<"announce">>) /\ UNCHANGED decoder
      BY <1>2, <2>3 DEF ConsumeIgnite
    <3>2. QED BY <1>1, <2>1, <3>1, ClientMoves
  <2>4. QED BY <2>2, <2>3
<1>3. CASE ConsumeCheck \/ ConsumeWrite \/ ConsumeFailed
  <2>1. /\ UNCHANGED decoder
        /\ ~At("client", "create.end")
        /\ \E path : Go("client", path)
    BY <1>3 DEF ConsumeCheck, ConsumeWrite, ConsumeFailed, At
  <2>2. "client" \in Tasks BY DEF Tasks
  <2>3. QED BY <1>1, <2>1, <2>2, Moves
<1>4. QED BY <1>2, <1>3 DEF Consume

LEMMA CallbackKeeps ==
  ASSUME PlaybackInv, Callback PROVE PlaybackInv'
<1>1. UNCHANGED <<decoder, decoder_status, setup>>
  BY DEF Callback, CallbackPlaylist, CallbackHeader, CallbackAgain, CallbackStream,
         CallbackData, CallbackAnnounce, status, history
<1>2. ~At("client", "create.end")
  BY DEF Callback, CallbackPlaylist, CallbackHeader, CallbackAgain, CallbackStream,
         CallbackData, CallbackAnnounce, At
<1>3. \E path : Go("client", path)
  BY Zenon DEF Callback, CallbackPlaylist, CallbackHeader, CallbackAgain, CallbackStream,
               CallbackData, CallbackAnnounce
<1>4. "client" \in Tasks BY DEF Tasks
<1>5. QED BY <1>1, <1>2, <1>3, <1>4, Moves

LEMMA ClientTaskKeeps ==
  ASSUME PlaybackInv, ClientTask PROVE PlaybackInv'
<1>1. UNCHANGED <<decoder, decoder_status, setup>>
  BY DEF ClientTask, Wait, Open, Send, Receive, Check, Cleanup, CleanupDrained,
         CleanupRestarted, Clean, Clear, status, history
<1>2. ~At("client", "create.end")
  BY DEF ClientTask, Wait, Open, Send, Receive, Check, Cleanup, CleanupDrained,
         CleanupRestarted, Clean, Clear, At
<1>3. \E path : Go("client", path)
  <2>1. CASE Wait BY <2>1, Zenon DEF Wait
  <2>2. CASE Open BY <2>2, Zenon DEF Open
  <2>3. CASE Send BY <2>3, Zenon DEF Send
  <2>4. CASE Receive BY <2>4, Zenon DEF Receive
  <2>5. CASE Check BY <2>5, Zenon DEF Check
  <2>6. CASE Cleanup BY <2>6, Zenon DEF Cleanup
  <2>7. CASE CleanupDrained BY <2>7, Zenon DEF CleanupDrained
  <2>8. CASE CleanupRestarted BY <2>8, Zenon DEF CleanupRestarted
  <2>9. CASE Clean BY <2>9, Zenon DEF Clean
  <2>10. CASE Clear BY <2>10, Zenon DEF Clear
  <2>11. QED
    BY <2>1, <2>2, <2>3, <2>4, <2>5, <2>6, <2>7, <2>8, <2>9, <2>10 DEF ClientTask
<1>4. "client" \in Tasks BY DEF Tasks
<1>5. QED BY <1>1, <1>2, <1>3, <1>4, Moves

(* A decoder goes on; only the one that is active says that it has stopped. *)
LEMMA DecoderStepKeeps ==
  ASSUME PlaybackInv, NEW d \in Slots, Decoder(d) PROVE PlaybackInv'
<1>1. UNCHANGED <<pc, setup>>
  BY DEF Decoder, DecoderInit, DecoderLoop, DecoderRead, DecoderDecode, DecoderFlush,
         DecoderStopped, DecoderEnd, control, history
<1>2. PICK l : DecoderGoes(d, l)
  BY DEF Decoder, DecoderInit, DecoderLoop, DecoderRead, DecoderDecode, DecoderFlush,
         DecoderStopped, DecoderEnd
<1>3. decoder' = [e \in Slots |-> IF e = d THEN l ELSE decoder[e]]
  BY <1>2 DEF DecoderGoes, PlaybackInv, Places
<1>4. Places' BY <1>1, <1>3 DEF PlaybackInv, Places
<1>5. \A e \in Slots : e # d => (Active(e)' <=> Active(e))
  BY <1>1, <1>3 DEF Active, VS1053
<1>6. CASE DecoderStopped(d)
  <2>1. Active(d) BY <1>6 DEF DecoderStopped, Active
  <2>2. decoder'[d] = "command"
    BY <1>6 DEF DecoderStopped, DecoderGoes, PlaybackInv, Places
  <2>3. \A e \in Slots : ~Active(e)'
    BY <1>5, <2>1, <2>2 DEF PlaybackInv, DecoderInv, Active
  <2>4. QED BY <1>4, <2>3 DEF PlaybackInv, DecoderInv
<1>7. CASE ~DecoderStopped(d)
  <2>1. UNCHANGED decoder_status
    BY <1>7 DEF Decoder, DecoderInit, DecoderLoop, DecoderRead, DecoderDecode,
                DecoderFlush, DecoderEnd, status
  <2>2. Active(d)' => Active(d)
    <3>1. decoder'[d] = l BY <1>3
    <3> USE <1>1, <3>1 DEF Active, VS1053
    <3>2. CASE DecoderInit(d) BY <3>2 DEF DecoderInit
    <3>3. CASE DecoderLoop(d) BY <3>3 DEF DecoderLoop
    <3>4. CASE DecoderRead(d) BY <3>4 DEF DecoderRead
    <3>5. CASE DecoderDecode(d) BY <3>5 DEF DecoderDecode
    <3>6. CASE DecoderFlush(d) BY <1>2, <3>6 DEF DecoderFlush, DecoderGoes, PlaybackInv, Places
    <3>7. CASE DecoderEnd(d) BY <1>2, <3>7 DEF DecoderEnd, DecoderGoes, PlaybackInv, Places
    <3>8. QED BY <1>7, <3>2, <3>3, <3>4, <3>5, <3>6, <3>7 DEF Decoder
  <2>3. DecoderInv' BY <1>1, <1>5, <2>1, <2>2 DEF PlaybackInv, DecoderInv, At
  <2>4. QED BY <1>4, <2>3 DEF PlaybackInv
<1>8. QED BY <1>6, <1>7

-----------------------------------------------------------------------------
LEMMA InvNext == PlaybackInv /\ [Next]_vars => PlaybackInv'
<1> SUFFICES ASSUME PlaybackInv, [Next]_vars PROVE PlaybackInv' OBVIOUS
<1>1. CASE Client
  BY <1>1, ProceduresKeep, CreateEndKeeps, StartKeeps, ConsumeKeeps, CallbackKeeps,
     ClientTaskKeeps DEF Client, Tasks
<1>2. CASE \E u \in Users : Press(u) \/ Procedures(u)
  BY <1>2, PressKeeps, ProceduresKeep DEF Tasks
<1>3. CASE \E d \in Slots : Decoder(d) BY <1>3, DecoderStepKeeps
<1>4. CASE UNCHANGED vars
  BY <1>4 DEF vars, control, status, history, PlaybackInv, Places, DecoderInv, Active, At, VS1053
<1>5. QED BY <1>1, <1>2, <1>3, <1>4 DEF Next

(* The invariant holds for ever.                                           *)
THEOREM PlaybackInvariant == Spec => []PlaybackInv
  BY InvInit, InvNext, PTL DEF Spec

(* Two decoders never play at once (start_decoder_task, audio_player_stop  *)
(* and the end of each decoder task).                                      *)
THEOREM OneDecoderHolds == Spec => []OneDecoder
<1>1. PlaybackInv => OneDecoder
  BY DEF PlaybackInv, DecoderInv, Active, OneDecoder, Playing
<1>2. QED BY <1>1, PlaybackInvariant, PTL

(* decoder_status tells of a decoder that plays (audio_player.c).          *)
THEOREM StatusTellsHolds == Spec => []StatusTells
<1>1. PlaybackInv => StatusTells
  BY DEF PlaybackInv, DecoderInv, Active, StatusTells, Playing
<1>2. QED BY <1>1, PlaybackInvariant, PTL

-----------------------------------------------------------------------------
(* The types.  A procedure's label is followed by where it returns to, and *)
(* what is at the bottom of a stack is no procedure's.                     *)
Resumed == Labels \ {"create.end"}
Bottom(s) == s[Len(s)] \notin Procedure

Returns(l, s) == /\ s # <<>> => Bottom(s)
                 /\ l \in Procedure => s # <<>>

ControlInv ==
  /\ pc \in [Tasks -> Labels] /\ stack \in [Tasks -> Seq(Resumed)]
  /\ \A t \in Tasks : Returns(pc[t], stack[t])

(* Where a task goes, and what its stack becomes. *)
LEMMA ControlTo ==
  ASSUME ControlInv, NEW t \in Tasks, NEW l \in Labels, NEW r \in Seq(Resumed),
         pc' = [pc EXCEPT ![t] = l], stack' = [stack EXCEPT ![t] = r],
         Returns(l, r)
  PROVE  ControlInv'
  BY DEF ControlInv

LEMMA OnlyOne ==
  ASSUME NEW P, NEW s \in Seq(P), s # <<>>, Tail(s) = <<>> PROVE Head(s) = s[Len(s)]
<1>1. Len(s) \in Nat \ {0} /\ Len(Tail(s)) = Len(s) - 1 OBVIOUS
<1>2. Len(<<>>) = 0 OBVIOUS
<1>3. Len(s) = 1 BY <1>1, <1>2
<1>4. QED BY <1>3

LEMMA ReturnKeeps ==
  ASSUME ControlInv, NEW t \in Tasks, Return(t), pc[t] \in Procedure
  PROVE  ControlInv'
<1>1. PICK s \in Seq(Resumed) : s = stack[t] BY DEF ControlInv
<1>2. s # <<>> /\ Bottom(s)
  <2>1. Returns(pc[t], s) BY <1>1 DEF ControlInv
  <2>2. QED BY <2>1 DEF Returns
<1>3. Head(s) \in Labels /\ Tail(s) \in Seq(Resumed) BY <1>2 DEF Resumed
<1>4. Tail(s) # <<>> => Bottom(Tail(s))
  <2>1. Tail(s) # <<>> => Tail(s)[Len(Tail(s))] = s[Len(s)] BY <1>2
  <2>2. QED BY <1>2, <2>1 DEF Bottom
<1>5. Tail(s) = <<>> => Head(s) = s[Len(s)]
  BY <1>2, OnlyOne
<1>6. Returns(Head(s), Tail(s)) BY <1>2, <1>4, <1>5 DEF Returns, Bottom
<1>7. pc' = [pc EXCEPT ![t] = Head(s)] /\ stack' = [stack EXCEPT ![t] = Tail(s)]
  BY <1>1 DEF Return, ControlInv
<1>8. QED BY <1>3, <1>6, <1>7, ControlTo

(* A task goes on along a path that ends outside of procedures, unless it  *)
(* is in one itself.                                                       *)
LEMMA GoKeeps ==
  ASSUME ControlInv, NEW t \in Tasks, NEW path \in Seq(Labels), path # <<>>,
         Tail(path) \in Seq(Resumed),
         Go(t, path), pc[t] \in Procedure \/ Bottom(path)
  PROVE  ControlInv'
<1>1. PICK s \in Seq(Resumed) : s = stack[t] BY DEF ControlInv
<1>2. PICK r \in Seq(Resumed) : r = Tail(path) \o s
  <2>1. Tail(path) \in Seq(Resumed) OBVIOUS
  <2>2. Tail(path) \o s \in Seq(Resumed) BY <2>1
  <2>3. QED BY <2>2
<1>3. Returns(pc[t], s) BY <1>1 DEF ControlInv
<1>4. s = <<>> => Bottom(path) BY <1>3 DEF Returns
<1>5. /\ s # <<>> => r # <<>> /\ r[Len(r)] = s[Len(s)]
      /\ s = <<>> /\ r # <<>> => r[Len(r)] = path[Len(path)]
      /\ r = <<>> => s = <<>> /\ Head(path) = path[Len(path)]
  <2>1. Tail(path) \in Seq(Resumed) /\ Len(Tail(path)) = Len(path) - 1 OBVIOUS
  <2>2. Len(r) = Len(path) - 1 + Len(s) BY <1>2, <2>1
  <2>3. ASSUME s # <<>> PROVE r # <<>> /\ r[Len(r)] = s[Len(s)]
    BY <1>2, <2>1, <2>2, <2>3
  <2>4. ASSUME s = <<>> PROVE r = Tail(path) BY <1>2, <2>1, <2>4
  <2>5. Tail(path) # <<>> => Tail(path)[Len(Tail(path))] = path[Len(path)] BY <2>1
  <2>6. ASSUME Tail(path) = <<>> PROVE Head(path) = path[Len(path)]
    BY <2>6, OnlyOne
  <2>7. CASE s # <<>> BY <2>3, <2>7
  <2>8. CASE s = <<>> BY <2>4, <2>5, <2>6, <2>8
  <2>9. QED BY <2>7, <2>8
<1>6. Returns(Head(path), r) BY <1>3, <1>4, <1>5 DEF Returns, Bottom
<1>7. pc' = [pc EXCEPT ![t] = Head(path)] /\ stack' = [stack EXCEPT ![t] = r]
  BY <1>1, <1>2 DEF Go, ControlInv
<1>8. Head(path) \in Labels OBVIOUS
<1>9. QED BY <1>6, <1>7, <1>8, ControlTo

(* The paths there are have one, two or three labels. *)
LEMMA GoOne ==
  ASSUME ControlInv, NEW t \in Tasks, NEW a \in Labels, Go(t, <<a>>),
         pc[t] \in Procedure \/ a \notin Procedure
  PROVE  ControlInv'
<1>1. <<a>> \in Seq(Labels) /\ <<a>> # <<>> /\ <<a>>[Len(<<a>>)] = a OBVIOUS
<1>2. Tail(<<a>>) = <<>> /\ <<>> \in Seq(Resumed) OBVIOUS
<1>3. QED BY <1>1, <1>2, GoKeeps DEF Bottom

LEMMA GoTwo ==
  ASSUME ControlInv, NEW t \in Tasks, NEW a \in Labels, NEW b \in Resumed, Go(t, <<a, b>>),
         pc[t] \in Procedure \/ b \notin Procedure
  PROVE  ControlInv'
<1>1. b \in Labels BY DEF Resumed
<1>2. <<a, b>> \in Seq(Labels) /\ <<a, b>> # <<>> /\ <<a, b>>[Len(<<a, b>>)] = b BY <1>1
<1>3. Tail(<<a, b>>) = <<b>> /\ <<b>> \in Seq(Resumed) OBVIOUS
<1>4. QED BY <1>2, <1>3, GoKeeps DEF Bottom

LEMMA GoThree ==
  ASSUME ControlInv, NEW t \in Tasks, NEW a \in Labels, NEW b \in Resumed, NEW c \in Resumed,
         Go(t, <<a, b, c>>), pc[t] \in Procedure \/ c \notin Procedure
  PROVE  ControlInv'
<1>1. b \in Labels /\ c \in Labels BY DEF Resumed
<1>2. /\ <<a, b, c>> \in Seq(Labels) /\ <<a, b, c>> # <<>>
      /\ <<a, b, c>>[Len(<<a, b, c>>)] = c
  BY <1>1
<1>3. Tail(<<a, b, c>>) = <<b, c>> /\ <<b, c>> \in Seq(Resumed) OBVIOUS
<1>4. QED BY <1>2, <1>3, GoKeeps DEF Bottom

LEMMA DisconnectControl ==
  ASSUME ControlInv, NEW t \in Tasks, Disconnect(t) PROVE ControlInv'
<1>1. pc[t] \in Procedure BY DEF Disconnect, At, Procedure
<1>2. {"disc.stop", "disc.wait"} \subseteq Resumed /\ {"disc.stop", "disc.wait", "stop"} \subseteq Labels
  BY DEF Resumed, Labels, Procedure
<1>3. CASE Go(t, <<"disc.stop">>) BY <1>1, <1>2, <1>3, GoOne
<1>4. CASE Go(t, <<"disc.wait">>) BY <1>1, <1>2, <1>4, GoOne
<1>5. CASE Go(t, <<"stop", "disc.wait">>) BY <1>1, <1>2, <1>5, GoTwo
<1>6. CASE Return(t) BY <1>1, <1>6, ReturnKeeps
<1>7. QED BY <1>3, <1>4, <1>5, <1>6 DEF Disconnect

LEMMA ConnectControl ==
  ASSUME ControlInv, NEW t \in Tasks, Connect(t) PROVE ControlInv'
<1>1. pc[t] \in Procedure
  BY DEF Connect, ConnectBegin, ConnectResolve, ConnectEnd, At, Procedure
<1>2. CASE Return(t) BY <1>1, <1>2, ReturnKeeps
<1>3. CASE ~Return(t)
  <2>1. PICK l \in {"conn.dns", "conn1.dns", "conn.end", "conn1.end"} :
          Go(t, <<l>>) \/ Go(t, <<"disc", l>>)
    BY <1>3 DEF Connect, ConnectBegin, ConnectResolve, ConnectEnd
  <2>2. l \in Resumed /\ {l, "disc"} \subseteq Labels BY DEF Resumed, Labels, Procedure
  <2>3. QED BY <1>1, <2>1, <2>2, GoOne, GoTwo
<1>4. QED BY <1>2, <1>3

LEMMA StopControl ==
  ASSUME ControlInv, NEW t \in Tasks, Stop(t) PROVE ControlInv'
<1>1. pc[t] \in Procedure
  BY DEF Stop, StopRequest, StopWait, StopEnd, At, Procedure
<1>2. CASE Return(t) BY <1>1, <1>2, ReturnKeeps
<1>3. CASE ~Return(t)
  <2>1. PICK l \in {"stop.command", "stop.eof", "stop.wait", "stop.end", "stop.status"} :
          Go(t, <<l>>)
    BY <1>3 DEF Stop, StopRequest, StopWait, StopEnd
  <2>2. l \in Labels BY DEF Labels, Procedure
  <2>3. QED BY <1>1, <2>1, <2>2, GoOne
<1>4. QED BY <1>2, <1>3

LEMMA PressControl ==
  ASSUME ControlInv, setup \in Setups, NEW u \in Users, Press(u) PROVE ControlInv'
<1>1. u \in Tasks BY DEF Tasks
<1>2. "rest" \notin Procedure BY DEF Procedure
<1>3. "disc" \in Labels /\ {"conn", "conn1", "rest"} \subseteq Resumed
  BY DEF Resumed, Labels, Procedure
<1>4. PICK op \in Ops : Go(u, CASE op = "play"    -> <<"disc", "conn", "rest">>
                                [] op = "stop"    -> <<"disc", "rest">>
                                [] op = "instant" -> <<"disc", "conn1", "rest">>)
  BY DEF Press
<1>5. op \in {"play", "stop", "instant"} BY PlaybackAssumption DEF Setup, Ops
<1>6. CASE op = "play" BY <1>1, <1>2, <1>3, <1>4, <1>6, GoThree
<1>7. CASE op = "stop" BY <1>1, <1>2, <1>3, <1>4, <1>7, GoTwo
<1>8. CASE op = "instant" BY <1>1, <1>2, <1>3, <1>4, <1>8, GoThree
<1>9. QED BY <1>5, <1>6, <1>7, <1>8

(* The client's labels that are in no procedure. *)
Own == Labels \ Procedure

(* What the client does between procedures. *)
LEMMA OwnSteps ==
  ASSUME ControlInv,
         \/ \E a \in Own : Go("client", <<a>>)
         \/ \E a \in Labels, b \in Own : Go("client", <<a, b>>)
         \/ \E a \in Labels, b \in Resumed, c \in Own : Go("client", <<a, b, c>>)
  PROVE  ControlInv'
<1>1. "client" \in Tasks BY DEF Tasks
<1>2. CASE \E a \in Own : Go("client", <<a>>) BY <1>1, <1>2, GoOne DEF Own
<1>3. CASE \E a \in Labels, b \in Own : Go("client", <<a, b>>) BY <1>1, <1>3, GoTwo DEF Own, Resumed, Procedure
<1>4. CASE \E a \in Labels, b \in Resumed, c \in Own : Go("client", <<a, b, c>>)
  BY <1>1, <1>4, GoThree DEF Own, Resumed, Procedure
<1>5. QED BY <1>2, <1>3, <1>4

LEMMA OwnLabels ==
  /\ {"wait", "drain", "open", "send", "receive", "callback", "again", "header",
      "consume", "write", "ignite", "failed", "failed.end", "announce", "check", "cleanup",
      "drained", "force", "restarted", "clean", "cleaned", "clear", "close"} \subseteq Own
  /\ {"disc", "conn", "stop", "start", "create.end"} \subseteq Labels
  /\ {"disc", "conn"} \subseteq Resumed
  BY DEF Own, Resumed, Labels, Procedure

LEMMA StartControl ==
  ASSUME ControlInv, Start \/ CreateEnd PROVE ControlInv'
<1>1. "client" \in Tasks BY DEF Tasks
<1>2. pc["client"] \in Procedure BY DEF Start, CreateEnd, At, Procedure
<1>3. CASE Return("client") BY <1>1, <1>2, <1>3, ReturnKeeps
<1>4. CASE ~Return("client")
  <2>1. PICK l \in {"start.command", "start.decoder", "start.run", "start.ignite", "start.end"} :
          Go("client", <<l>>) \/ Go("client", <<"create.end", l>>)
    BY <1>4 DEF Start, CreateEnd, Create
  <2>2. l \in Resumed /\ {l, "create.end"} \subseteq Labels BY DEF Resumed, Labels, Procedure
  <2>3. QED BY <1>1, <1>2, <2>1, <2>2, GoOne, GoTwo
<1>5. QED BY <1>3, <1>4

LEMMA ConsumeControl ==
  ASSUME ControlInv, Consume PROVE ControlInv'
<1>1. CASE ConsumeCheck BY <1>1, OwnLabels, OwnSteps DEF ConsumeCheck
<1>2. CASE ConsumeWrite BY <1>2, OwnLabels, OwnSteps DEF ConsumeWrite
<1>3. CASE ConsumeIgnite BY <1>3, OwnLabels, OwnSteps DEF ConsumeIgnite, Create
<1>4. CASE ConsumeFailed BY <1>4, OwnLabels, OwnSteps DEF ConsumeFailed
<1>5. QED BY <1>1, <1>2, <1>3, <1>4 DEF Consume

LEMMA CallbackControl ==
  ASSUME ControlInv, Callback PROVE ControlInv'
<1>1. CASE CallbackPlaylist BY <1>1, OwnLabels, OwnSteps DEF CallbackPlaylist
<1>2. CASE CallbackHeader BY <1>2, OwnLabels, OwnSteps DEF CallbackHeader
<1>3. CASE CallbackAgain BY <1>3, OwnLabels, OwnSteps DEF CallbackAgain
<1>4. CASE CallbackStream
  <2>1. PICK next \in {"check", "consume"} : Go("client", <<"start", next>>)
    BY <1>4 DEF CallbackStream
  <2>2. QED BY <2>1, OwnLabels, OwnSteps
<1>5. CASE CallbackData BY <1>5, OwnLabels, OwnSteps DEF CallbackData
<1>6. CASE CallbackAnnounce BY <1>6, OwnLabels, OwnSteps DEF CallbackAnnounce
<1>7. QED BY <1>1, <1>2, <1>3, <1>4, <1>5, <1>6 DEF Callback

LEMMA ClientTaskControl ==
  ASSUME ControlInv, ClientTask PROVE ControlInv'
<1>1. CASE Wait BY <1>1, OwnLabels, OwnSteps DEF Wait
<1>2. CASE Open BY <1>2, OwnLabels, OwnSteps DEF Open
<1>3. CASE Send BY <1>3, OwnLabels, OwnSteps DEF Send
<1>4. CASE Receive BY <1>4, OwnLabels, OwnSteps DEF Receive
<1>5. CASE Check BY <1>5, OwnLabels, OwnSteps DEF Check
<1>6. CASE Cleanup BY <1>6, OwnLabels, OwnSteps DEF Cleanup
<1>7. CASE CleanupDrained BY <1>7, OwnLabels, OwnSteps DEF CleanupDrained
<1>8. CASE CleanupRestarted BY <1>8, OwnLabels, OwnSteps DEF CleanupRestarted
<1>9. CASE Clean BY <1>9, OwnLabels, OwnSteps DEF Clean
<1>10. CASE Clear BY <1>10, OwnLabels, OwnSteps DEF Clear
<1>11. QED
  BY <1>1, <1>2, <1>3, <1>4, <1>5, <1>6, <1>7, <1>8, <1>9, <1>10 DEF ClientTask

(* The variables but for pc and stack. *)
DecoderLabels ==
  {"none", "init", "loop", "read", "decode", "abort", "flush", "status", "command"}

DataTypes ==
  /\ {sConnect, sDisconnect, once, playing, received, eof, flushed} \subseteq BOOLEAN
  /\ cstatus \in {"HEADER", "DATA", "PLAYLIST", "PLAYLIST1"}
  /\ player_status \in {"INITIALIZED", "RUNNING", "STOPPED"}
  /\ decoder_status \in {"UNINITIALIZED", "RUNNING", "STOPPED"}
  /\ command \in {"NONE", "START", "STOP"} /\ decoder_command \in {"NONE", "STOP"}
  /\ fill \in 0..Capacity
  /\ decoder \in [Slots -> DecoderLabels]
  /\ presses \in 0..MaxOps /\ {wanted, late} \subseteq BOOLEAN /\ setup \in Setups

LEMMA FlushTypes == Flush => fill' \in 0..Capacity /\ flushed' \in BOOLEAN
  BY PlaybackAssumption DEF Flush, At

LEMMA ProceduresData ==
  ASSUME DataTypes, NEW t \in Tasks, Procedures(t) PROVE DataTypes'
<1>1. CASE Disconnect(t)
  BY <1>1 DEF Disconnect, DataTypes, session, request, status, buffer, history
<1>2. CASE Connect(t)
  BY <1>2 DEF Connect, ConnectBegin, ConnectResolve, ConnectEnd, DataTypes,
     semaphores, session, request, status, buffer, history
<1>3. CASE Stop(t)
  BY <1>3 DEF Stop, StopRequest, StopWait, StopEnd, DataTypes,
     semaphores, session, request, status, buffer, history
<1>4. QED BY <1>1, <1>2, <1>3 DEF Procedures

LEMMA PressData ==
  ASSUME DataTypes, NEW u \in Users, Press(u) PROVE DataTypes'
  BY PlaybackAssumption DEF Press, DataTypes, semaphores, session, request, status, buffer

LEMMA CreateData ==
  ASSUME DataTypes, NEW next, NEW failed, Create(next, failed),
         UNCHANGED <<semaphores, session, request, status, history>>
  PROVE  DataTypes'
<1>1. CASE Flush /\ UNCHANGED decoder
  BY <1>1, FlushTypes DEF DataTypes, semaphores, session, request, status, history
<1>2. CASE UNCHANGED buffer /\ \E d \in Slots : decoder' = [decoder EXCEPT ![d] = "init"]
  BY <1>2 DEF DataTypes, DecoderLabels, semaphores, session, request, status, buffer, history
<1>3. QED BY <1>1, <1>2 DEF Create

LEMMA StartData ==
  ASSUME DataTypes, Start \/ CreateEnd PROVE DataTypes'
<1>1. CASE At("client", "start.ignite") /\ Start
  <2>1. UNCHANGED <<semaphores, session, request, status, history>> BY <1>1 DEF Start, At
  <2>2. CASE UNCHANGED <<buffer, decoder>>
    BY <2>1, <2>2 DEF DataTypes, semaphores, session, request, status, buffer, history
  <2>3. CASE Create("start.end", "start.end") BY <2>1, <2>3, CreateData
  <2>4. QED BY <1>1, <2>2, <2>3 DEF Start, At
<1>2. CASE ~At("client", "start.ignite") /\ Start
  BY <1>2 DEF Start, DataTypes, semaphores, session, request, status, buffer, history
<1>3. CASE CreateEnd
  BY <1>3 DEF CreateEnd, DataTypes, semaphores, session, request, status, buffer, history
<1>4. QED BY <1>1, <1>2, <1>3

LEMMA ConsumeData ==
  ASSUME DataTypes, Consume PROVE DataTypes'
<1>1. CASE ConsumeCheck
  BY <1>1 DEF ConsumeCheck, DataTypes, semaphores, session, request, status, buffer, history
<1>2. CASE ConsumeWrite
  <2>1. fill' \in 0..Capacity
    BY <1>2, PlaybackAssumption DEF ConsumeWrite, DataTypes
  <2>2. QED
    BY <1>2, <2>1 DEF ConsumeWrite, DataTypes, semaphores, session, request, status, history
<1>3. CASE ConsumeIgnite
  <2>1. UNCHANGED <<semaphores, session, request, status, history>>
    BY <1>3 DEF ConsumeIgnite
  <2>2. CASE UNCHANGED <<buffer, decoder>>
    BY <2>1, <2>2 DEF DataTypes, semaphores, session, request, status, buffer, history
  <2>3. CASE Create("announce", "failed") BY <2>1, <2>3, CreateData
  <2>4. QED BY <1>3, <2>2, <2>3 DEF ConsumeIgnite
<1>4. CASE ConsumeFailed
  BY <1>4 DEF ConsumeFailed, DataTypes, semaphores, session, request, status, buffer, history
<1>5. QED BY <1>1, <1>2, <1>3, <1>4 DEF Consume

LEMMA CallbackTypes ==
  ASSUME DataTypes, Callback PROVE DataTypes'
  BY DEF Callback, CallbackPlaylist, CallbackHeader, CallbackAgain, CallbackStream,
     CallbackData, CallbackAnnounce, DataTypes, semaphores, session, request, status,
     buffer, history

LEMMA ClientTaskData ==
  ASSUME DataTypes, ClientTask PROVE DataTypes'
<1>1. CASE Flush /\ UNCHANGED <<semaphores, session, request, status, decoder, history>>
  BY <1>1, FlushTypes DEF DataTypes, semaphores, session, request, status, history
<1> USE DEF DataTypes, semaphores, session, request, status, buffer, history
<1>2. CASE Wait BY <1>2 DEF Wait
<1>3. CASE Open BY <1>1, <1>3 DEF Open
<1>4. CASE Send BY <1>4 DEF Send
<1>5. CASE Receive BY <1>5 DEF Receive
<1>6. CASE Check BY <1>6 DEF Check
<1>7. CASE Cleanup BY <1>7 DEF Cleanup
<1>8. CASE CleanupDrained \/ CleanupRestarted BY <1>8 DEF CleanupDrained, CleanupRestarted
<1>9. CASE Clean BY <1>9 DEF Clean
<1>10. CASE Clear BY <1>1, <1>10 DEF Clear
<1>11. QED
  BY <1>2, <1>3, <1>4, <1>5, <1>6, <1>7, <1>8, <1>9, <1>10 DEF ClientTask

LEMMA DecoderData ==
  ASSUME DataTypes, NEW d \in Slots, Decoder(d) PROVE DataTypes'
<1>1. ASSUME NEW l \in DecoderLabels, DecoderGoes(d, l)
      PROVE  decoder' \in [Slots -> DecoderLabels]
  BY <1>1 DEF DataTypes, DecoderGoes
<1>2. {"loop", "status", "flush", "read", "decode", "abort", "none", "command"}
        \subseteq DecoderLabels
  BY DEF DecoderLabels
<1>3. decoder' \in [Slots -> DecoderLabels]
  BY <1>1, <1>2 DEF Decoder, DecoderInit, DecoderLoop, DecoderRead, DecoderDecode, DecoderFlush,
     DecoderStopped, DecoderEnd
<1> USE <1>3 DEF DataTypes, semaphores, session, request, status, buffer, history
<1>4. CASE DecoderInit(d) \/ DecoderLoop(d) BY <1>4 DEF DecoderInit, DecoderLoop
<1>5. CASE DecoderRead(d)
  <2>1. fill' \in 0..Capacity BY <1>5, PlaybackAssumption DEF DecoderRead
  <2>2. QED BY <1>5, <2>1 DEF DecoderRead
<1>6. CASE DecoderDecode(d) BY <1>6 DEF DecoderDecode
<1>7. CASE DecoderFlush(d) BY <1>7, FlushTypes DEF DecoderFlush
<1>8. CASE DecoderStopped(d) BY <1>8 DEF DecoderStopped
<1>9. CASE DecoderEnd(d) BY <1>9 DEF DecoderEnd
<1>10. QED BY <1>4, <1>5, <1>6, <1>7, <1>8, <1>9 DEF Decoder

TypeInv == DataTypes /\ ControlInv

LEMMA TypeInit == Init => TypeInv
<1> SUFFICES ASSUME Init PROVE TypeInv OBVIOUS
<1>1. DataTypes
  <2>1. decoder \in [Slots -> DecoderLabels] BY DEF Init, DecoderLabels
  <2>2. fill \in 0..Capacity /\ presses \in 0..MaxOps BY PlaybackAssumption DEF Init
  <2>3. QED BY <2>1, <2>2 DEF Init, DataTypes
<1>2. {"wait", "rest"} \subseteq Labels /\ {"wait", "rest"} \cap Procedure = {}
  BY DEF Labels, Procedure
<1>3. <<>> \in Seq(Resumed) OBVIOUS
<1>4. ControlInv BY <1>2, <1>3 DEF Init, ControlInv, Returns
<1>5. QED BY <1>1, <1>4 DEF TypeInv

LEMMA TypeNext == TypeInv /\ [Next]_vars => TypeInv'
<1> SUFFICES ASSUME TypeInv, [Next]_vars PROVE TypeInv' OBVIOUS
<1>1. DataTypes /\ ControlInv /\ setup \in Setups BY DEF TypeInv, DataTypes
<1>2. ASSUME NEW t \in Tasks, Procedures(t) PROVE TypeInv'
  BY <1>1, <1>2, ProceduresData, DisconnectControl, ConnectControl, StopControl
     DEF Procedures, TypeInv
<1>3. CASE Client
  <2>1. CASE Procedures("client") BY <1>2, <2>1 DEF Tasks
  <2>2. CASE Start \/ CreateEnd BY <1>1, <2>2, StartData, StartControl DEF TypeInv
  <2>3. CASE Consume BY <1>1, <2>3, ConsumeData, ConsumeControl DEF TypeInv
  <2>4. CASE Callback BY <1>1, <2>4, CallbackTypes, CallbackControl DEF TypeInv
  <2>5. CASE ClientTask BY <1>1, <2>5, ClientTaskData, ClientTaskControl DEF TypeInv
  <2>6. QED BY <1>3, <2>1, <2>2, <2>3, <2>4, <2>5 DEF Client
<1>4. CASE \E u \in Users : Press(u) \/ Procedures(u)
  BY <1>1, <1>2, <1>4, PressData, PressControl DEF TypeInv, Tasks
<1>5. ASSUME NEW d \in Slots, Decoder(d) PROVE TypeInv'
  <2>1. UNCHANGED <<pc, stack>>
    BY <1>5 DEF Decoder, DecoderInit, DecoderLoop, DecoderRead, DecoderDecode, DecoderFlush,
       DecoderStopped, DecoderEnd, control
  <2>2. ControlInv' BY <1>1, <2>1 DEF ControlInv
  <2>3. QED BY <1>1, <1>5, <2>2, DecoderData DEF TypeInv
<1>6. CASE UNCHANGED vars
  <2>1. DataTypes'
    BY <1>1, <1>6 DEF DataTypes, vars, semaphores, session, request, status, buffer, history
  <2>2. ControlInv' BY <1>1, <1>6 DEF ControlInv, vars, control
  <2>3. QED BY <2>1, <2>2 DEF TypeInv
<1>7. QED BY <1>3, <1>4, <1>5, <1>6 DEF Next

LEMMA Widen == ASSUME NEW P, NEW Q, P \subseteq Q, NEW s \in Seq(P) PROVE s \in Seq(Q)
  OBVIOUS

(* Every variable stays in its domain; in particular the client never      *)
(* overfills the song buffer (spiRamFifoWrite), and whoever calls          *)
(* clientDisconnect, clientConnect, audio_player_stop or                   *)
(* audio_player_start has a place to return to.                            *)
THEOREM TypeCorrect == Spec => []TypeOK
<1>1. \A s \in Seq(Resumed) : s \in Seq(Labels) BY Widen DEF Resumed
<1>2. ASSUME ControlInv PROVE stack \in [Tasks -> Seq(Labels)] BY <1>1, <1>2 DEF ControlInv
<1>3. TypeInv => TypeOK
  BY <1>2 DEF TypeInv, DataTypes, ControlInv, TypeOK, DecoderLabels
<1>4. QED BY <1>3, TypeInit, TypeNext, PTL DEF Spec

-----------------------------------------------------------------------------
(* decoder_status is RUNNING only as long as there is a decoder to say     *)
(* that it is not: the decoder that the client has just created is still   *)
(* active when the client says that it runs, or it is late.  vsTask does   *)
(* not decode.                                                             *)
HasDecoder == \E d \in Slots : Active(d)
TrueInv ==
  /\ late \/ (decoder_status = "RUNNING" \/ At("client", "create.end") => HasDecoder)
  /\ VS1053 => \A d \in Slots : decoder[d] \notin {"decode", "abort"}

(* Steps that leave the decoders and their status alone, and do not create *)
(* one.                                                                    *)
LEMMA TrueMoves ==
  ASSUME TrueInv, UNCHANGED <<decoder, decoder_status, late, setup>>,
         pc'["client"] = pc["client"] \/ pc'["client"] # "create.end"
  PROVE  TrueInv'
<1>1. HasDecoder' <=> HasDecoder BY DEF HasDecoder, Active, VS1053
<1>2. QED BY <1>1 DEF TrueInv, At, VS1053

LEMMA Going ==
  ASSUME ControlInv, NEW t \in Tasks
  PROVE  /\ \A path : Go(t, path) => pc'[t] = Head(path)
         /\ Return(t) /\ pc[t] \in Procedure => pc'[t] # "create.end"
         /\ (\E path : Go(t, path)) \/ Return(t)
               => \A u \in Tasks : u # t => pc'[u] = pc[u]
<1>1. ASSUME Return(t), pc[t] \in Procedure PROVE pc'[t] # "create.end"
  <2>1. PICK s \in Seq(Resumed) : s = stack[t] BY DEF ControlInv
  <2>2. s # <<>>
    <3>1. Returns(pc[t], s) BY <2>1 DEF ControlInv
    <3>2. QED BY <1>1, <3>1 DEF Returns
  <2>3. Head(s) \in Resumed BY <2>2
  <2>4. pc'[t] = Head(s) BY <1>1, <2>1 DEF Return, ControlInv
  <2>5. QED BY <2>3, <2>4 DEF Resumed
<1>2. QED BY <1>1 DEF Go, Return, ControlInv

LEMMA UserSteps ==
  ASSUME ControlInv, NEW t \in Tasks, t # "client",
         (\E path : Go(t, path)) \/ Return(t)
  PROVE  pc'["client"] = pc["client"]
  BY Going DEF Tasks

LEMMA ProceduresTrue ==
  ASSUME ControlInv, TrueInv, NEW t \in Tasks, Procedures(t) PROVE TrueInv'
<1>1. /\ UNCHANGED <<decoder, decoder_status, late, setup>>
      /\ (\E path : Go(t, path) /\ Head(path) # "create.end") \/ Return(t)
      /\ pc[t] \in Procedure
  <2>1. CASE Disconnect(t)
    BY <2>1 DEF Disconnect, At, Procedure, status, history
  <2>2. CASE Connect(t)
    BY <2>2 DEF Connect, ConnectBegin, ConnectResolve, ConnectEnd, At, Procedure, status,
       history
  <2>3. CASE Stop(t)
    BY <2>3 DEF Stop, StopRequest, StopWait, StopEnd, At, Procedure, status, history
  <2>4. QED BY <2>1, <2>2, <2>3 DEF Procedures
<1>2. CASE t = "client"
  <2>1. pc'["client"] # "create.end" BY <1>1, <1>2, Going
  <2>2. QED BY <1>1, <2>1, TrueMoves
<1>3. CASE t # "client" BY <1>1, <1>3, UserSteps, TrueMoves
<1>4. QED BY <1>2, <1>3

LEMMA PressTrue ==
  ASSUME ControlInv, TrueInv, NEW u \in Users, Press(u) PROVE TrueInv'
<1>1. u \in Tasks /\ u # "client" BY PlaybackAssumption DEF Tasks
<1>2. \E path : Go(u, path) BY Zenon DEF Press
<1>3. UNCHANGED <<decoder, decoder_status, late, setup>> BY DEF Press, status
<1>4. QED BY <1>1, <1>2, <1>3, UserSteps, TrueMoves

LEMMA CreateTrue ==
  ASSUME TypeInv, TrueInv, NEW next, NEW failed, Create(next, failed),
         failed # "create.end", UNCHANGED <<decoder_status, late, setup>>
  PROVE  TrueInv'
<1>1. "client" \in Tasks /\ ControlInv BY DEF Tasks, TypeInv
<1>2. CASE Go("client", <<failed>>) /\ UNCHANGED decoder
  <2>1. pc'["client"] # "create.end" BY <1>1, <1>2, Going
  <2>2. QED BY <1>2, <2>1, TrueMoves
<1>3. ASSUME NEW n \in Slots, decoder' = [decoder EXCEPT ![n] = "init"] PROVE TrueInv'
  <2>1. decoder'[n] = "init" BY <1>3 DEF TypeInv, DataTypes
  <2>2. HasDecoder' BY <2>1 DEF HasDecoder, Active
  <2>3. QED BY <1>3, <2>2 DEF TrueInv, TypeInv, DataTypes, VS1053
<1>4. QED BY <1>2, <1>3 DEF Create

LEMMA StartTrue ==
  ASSUME TypeInv, TrueInv, Start PROVE TrueInv'
<1>1. "client" \in Tasks /\ ControlInv BY DEF Tasks, TypeInv
<1>2. UNCHANGED <<decoder_status, late, setup>> BY DEF Start, status, history
<1>3. CASE Create("start.end", "start.end") BY <1>2, <1>3, CreateTrue
<1>4. CASE ~Create("start.end", "start.end")
  <2>1. /\ UNCHANGED decoder
        /\ (\E path : Go("client", path) /\ Head(path) # "create.end") \/ Return("client")
        /\ pc["client"] \in Procedure
    BY <1>4 DEF Start, At, Procedure
  <2>2. pc'["client"] # "create.end" BY <1>1, <2>1, Going
  <2>3. QED BY <1>2, <2>1, <2>2, TrueMoves
<1>5. QED BY <1>3, <1>4

(* The creator of a decoder says that it runs.                             *)
LEMMA CreateEndTrue ==
  ASSUME TypeInv, TrueInv, CreateEnd PROVE TrueInv'
<1>1. At("client", "create.end") /\ UNCHANGED <<decoder, late, setup>>
  BY DEF CreateEnd, history
<1>2. HasDecoder' <=> HasDecoder BY <1>1 DEF HasDecoder, Active, VS1053
<1>3. QED BY <1>1, <1>2 DEF TrueInv, VS1053

LEMMA ConsumeTrue ==
  ASSUME TypeInv, TrueInv, Consume PROVE TrueInv'
<1>1. "client" \in Tasks /\ ControlInv BY DEF Tasks, TypeInv
<1>2. UNCHANGED <<decoder_status, late, setup>>
  BY DEF Consume, ConsumeCheck, ConsumeWrite, ConsumeIgnite, ConsumeFailed, status, history
<1>3. CASE Create("announce", "failed") BY <1>2, <1>3, CreateTrue
<1>4. CASE ~Create("announce", "failed")
  <2>1. UNCHANGED decoder /\ \E path : Go("client", path) /\ Head(path) # "create.end"
    BY <1>4 DEF Consume, ConsumeCheck, ConsumeFailed, ConsumeWrite, ConsumeIgnite
  <2>2. pc'["client"] # "create.end" BY <1>1, <2>1, Going
  <2>3. QED BY <1>2, <2>1, <2>2, TrueMoves
<1>5. QED BY <1>3, <1>4

LEMMA CallbackTrue ==
  ASSUME TypeInv, TrueInv, Callback PROVE TrueInv'
<1>1. "client" \in Tasks /\ ControlInv BY DEF Tasks, TypeInv
<1>2. UNCHANGED <<decoder, decoder_status, late, setup>>
  BY DEF Callback, CallbackPlaylist, CallbackHeader, CallbackAgain, CallbackStream,
     CallbackData, CallbackAnnounce, status, history
<1>3. \E path : Go("client", path) /\ Head(path) # "create.end"
  <2>1. CASE CallbackPlaylist BY <2>1 DEF CallbackPlaylist
  <2>2. CASE CallbackHeader \/ CallbackAgain BY <2>2 DEF CallbackHeader, CallbackAgain
  <2>3. CASE CallbackStream
    <3>1. PICK next : Go("client", <<"start", next>>) BY <2>3 DEF CallbackStream
    <3>2. Head(<<"start", next>>) # "create.end" OBVIOUS
    <3>3. QED BY <3>1, <3>2
  <2>4. CASE CallbackData BY <2>4 DEF CallbackData
  <2>5. CASE CallbackAnnounce
    <3>1. Go("client", <<"check">>) BY <2>5 DEF CallbackAnnounce
    <3>2. QED BY <3>1
  <2>6. QED BY <2>1, <2>2, <2>3, <2>4, <2>5 DEF Callback
<1>4. pc'["client"] # "create.end" BY <1>1, <1>3, Going
<1>5. QED BY <1>2, <1>4, TrueMoves

LEMMA ClientTaskTrue ==
  ASSUME TypeInv, TrueInv, ClientTask PROVE TrueInv'
<1>1. "client" \in Tasks /\ ControlInv BY DEF Tasks, TypeInv
<1>2. UNCHANGED <<decoder, decoder_status, late, setup>>
  BY DEF ClientTask, Wait, Open, Send, Receive, Check, Cleanup, CleanupDrained,
     CleanupRestarted, Clean, Clear, status, history
<1>3. \E path : Go("client", path) /\ Head(path) # "create.end"
  <2>1. CASE Wait \/ Open \/ Send \/ Receive \/ Check
    BY <2>1 DEF Wait, Open, Send, Receive, Check
  <2>2. CASE Cleanup BY <2>2 DEF Cleanup
  <2>3. CASE CleanupDrained \/ CleanupRestarted BY <2>3 DEF CleanupDrained, CleanupRestarted
  <2>4. CASE Clean BY <2>4 DEF Clean
  <2>5. CASE Clear BY <2>5 DEF Clear
  <2>6. QED BY <2>1, <2>2, <2>3, <2>4, <2>5 DEF ClientTask
<1>4. pc'["client"] # "create.end" BY <1>1, <1>3, Going
<1>5. QED BY <1>2, <1>4, TrueMoves

(* A decoder stays active until it says that it has stopped; if it says so *)
(* before its creator goes on, it is late.                                 *)
LEMMA DecoderTrue ==
  ASSUME TypeInv, TrueInv, NEW d \in Slots, Decoder(d) PROVE TrueInv'
<1>1. UNCHANGED <<pc, setup>>
  BY DEF Decoder, DecoderInit, DecoderLoop, DecoderRead, DecoderDecode, DecoderFlush,
     DecoderStopped, DecoderEnd, control, history
<1>2. \A e \in Slots : e # d => decoder'[e] = decoder[e]
  BY DEF TypeInv, DataTypes, Decoder, DecoderInit, DecoderLoop, DecoderRead, DecoderDecode,
     DecoderFlush, DecoderStopped, DecoderEnd, DecoderGoes
<1>3. VS1053' => \A e \in Slots : decoder'[e] \notin {"decode", "abort"}
  BY <1>1, <1>2 DEF TrueInv, VS1053, TypeInv, DataTypes, Decoder, DecoderInit, DecoderLoop,
     DecoderRead, DecoderDecode, DecoderFlush, DecoderStopped, DecoderEnd, DecoderGoes
<1>4. CASE DecoderStopped(d)
  <2>1. decoder_status' # "RUNNING" /\ late' = (late \/ At("client", "create.end"))
    BY <1>4 DEF DecoderStopped
  <2>2. QED BY <1>1, <1>3, <2>1 DEF TrueInv, At
<1>5. CASE ~DecoderStopped(d)
  <2>1. UNCHANGED <<decoder_status, late>>
    BY <1>5 DEF Decoder, DecoderInit, DecoderLoop, DecoderRead, DecoderDecode, DecoderFlush,
       DecoderEnd, status, history
  <2>2. Active(d) => Active(d)'
    <3> USE <1>1 DEF DecoderGoes, Active, VS1053, TypeInv, DataTypes
    <3>1. CASE DecoderInit(d) BY <3>1 DEF DecoderInit
    <3>2. CASE DecoderLoop(d) BY <3>2 DEF DecoderLoop
    <3>3. CASE DecoderRead(d) BY <3>3 DEF DecoderRead
    <3>4. CASE DecoderDecode(d) BY <3>4 DEF DecoderDecode, TrueInv
    <3>5. CASE DecoderFlush(d) BY <3>5 DEF DecoderFlush
    <3>6. CASE DecoderEnd(d) BY <3>6 DEF DecoderEnd
    <3>7. QED BY <1>5, <3>1, <3>2, <3>3, <3>4, <3>5, <3>6 DEF Decoder
  <2>3. HasDecoder => HasDecoder' BY <1>1, <1>2, <2>2 DEF HasDecoder, Active, VS1053
  <2>4. QED BY <1>1, <1>3, <2>1, <2>3 DEF TrueInv, At
<1>6. QED BY <1>4, <1>5

LEMMA TrueNext == TypeInv /\ TrueInv /\ [Next]_vars => TrueInv'
<1> SUFFICES ASSUME TypeInv, TrueInv, [Next]_vars PROVE TrueInv' OBVIOUS
<1>1. ControlInv BY DEF TypeInv
<1>2. CASE Client
  BY <1>1, <1>2, ProceduresTrue, CreateEndTrue, StartTrue, ConsumeTrue, CallbackTrue,
     ClientTaskTrue DEF Client, Tasks
<1>3. CASE \E u \in Users : Press(u) \/ Procedures(u)
  BY <1>1, <1>3, PressTrue, ProceduresTrue DEF Tasks
<1>4. CASE \E d \in Slots : Decoder(d) BY <1>4, DecoderTrue
<1>5. CASE UNCHANGED vars BY <1>5, TrueMoves DEF vars, control, status, history
<1>6. QED BY <1>2, <1>3, <1>4, <1>5 DEF Next

(* start_decoder_task and its callers take decoder_status for the life of  *)
(* the decoder: whoever pressed what, and whatever the server did, it is   *)
(* RUNNING only while there is a decoder that has not yet told its end,    *)
(* unless one has told it before its creator said that it runs.            *)
THEOREM StatusIsTrueHolds == Spec => []StatusIsTrue
<1>1. Init => TrueInv BY DEF Init, TrueInv, At, Tasks
<1>2. TrueInv => StatusIsTrue BY DEF TrueInv, StatusIsTrue, HasDecoder
<1>3. QED BY <1>1, <1>2, TypeInit, TypeNext, TrueNext, PTL DEF Spec
=============================================================================
