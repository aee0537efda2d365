------------------------------- MODULE MCPlayback -------------------------------
(***************************************************************************)
(* The radios and servers with which Playback is model-checked.            *)
(***************************************************************************)
EXTENDS Playback

Radio(vs1053, ops, server, failures) ==
  [vs1053 |-> vs1053, ops |-> ops, server |-> server, failures |-> failures]

(* With mp3_decoder_task: servers that answer all they can, streams that   *)
(* break, and instant plays; with vsTask: streams that break, and tasks    *)
(* and DNS queries that fail.                                              *)
MCSetups ==
  {Radio(FALSE, {"play", "stop"}, {"playlist", "unknown", "badheader"}, FALSE),
   Radio(FALSE, {"play", "stop"}, {"stalls", "ends", "refuses"}, FALSE),
   Radio(FALSE, {"instant"}, {"ends"}, FALSE),
   Radio(TRUE, {"play", "stop"}, {"stalls"}, FALSE),
   Radio(TRUE, {"play"}, {}, TRUE)}

(* Streams that may stall, an instant play of a stream that ends, and a    *)
(* VS1053 with a stream that goes on.                                      *)
MCStalls  == {Radio(FALSE, {"play", "stop"}, {"stalls"}, FALSE)}
MCInstant == {Radio(FALSE, {"instant"}, {"ends"}, FALSE)}
MCVS1053  == {Radio(TRUE, {"play", "stop"}, {}, FALSE)}
=================================================================================
