-------------------------------- MODULE Services --------------------------------
(***************************************************************************)
(* The parts of the radio around a stream: its settings and its stations   *)
(* in flash, the update over the air, the web server and the queue of the  *)
(* AAC decoder.  They share no state: a behaviour is of the one that part  *)
(* names, while the others stay as they began.                             *)
(***************************************************************************)
EXTENDS DeviceSettings, Stations, Ota, Servers, PcmQueue

VARIABLE part \* which of them is at work

servicesVars == <<part, vars, staVars, otaVars, srvVars, pcmVars>>

Parts == {"settings", "stations", "ota", "servers", "pcm"}

ServicesInit ==
  /\ part \in Parts
  /\ Init
  /\ part = "settings" \/ stations = "none"
  /\ StaInit
  /\ OtaInit
  /\ SrvInit
  /\ PcmInit

ServicesNext ==
  /\ UNCHANGED part
  /\ \/ /\ part = "settings" /\ Next
        /\ UNCHANGED <<staVars, otaVars, srvVars, pcmVars>>
     \/ /\ part = "stations" /\ StaNext
        /\ UNCHANGED <<vars, otaVars, srvVars, pcmVars>>
     \/ /\ part = "ota" /\ OtaNext
        /\ UNCHANGED <<vars, staVars, srvVars, pcmVars>>
     \/ /\ part = "servers" /\ SrvNext
        /\ UNCHANGED <<vars, staVars, otaVars, pcmVars>>
     \/ /\ part = "pcm" /\ PcmNext
        /\ UNCHANGED <<vars, staVars, otaVars, srvVars>>

(* The fairness of each part, of the part that is at work.                 *)
ServicesFairness ==
  /\ WF_staVars(part = "stations" /\ StaScanStep)
  /\ \A t \in StaTasks : WF_staVars(part = "stations" /\ StaSaverStep(t))
  /\ \A w \in OtaWorkers : WF_otaVars(part = "ota" /\ OtaWorkerStep(w))
  /\ \A t \in 1..Cardinality(OtaWorkers) :
       WF_otaVars(part = "ota" /\ t \in DOMAIN otaTasks /\ OtaTaskStep(t))
  /\ WF_srvVars(part = "servers" /\ SrvTaskStep)
  /\ \A c \in SrvConns : WF_srvVars(part = "servers" /\ SrvWorkerStep(c))
  /\ WF_pcmVars(part = "pcm" /\ PcmDecoderStep)
  /\ WF_pcmVars(part = "pcm" /\ PcmOutStep)

ServicesSpec == ServicesInit /\ [][ServicesNext]_servicesVars /\ ServicesFairness

-----------------------------------------------------------------------------
(* The variables of every part stay in their domains.                      *)
ServicesTypeOK ==
  TypeOK /\ StaTypeOK /\ OtaTypeOK /\ SrvTypeOK /\ PcmTypeOK
=================================================================================
