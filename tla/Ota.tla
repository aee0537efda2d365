---------------------------------- MODULE Ota ----------------------------------
(***************************************************************************)
(* The over-the-air update: the workers of the web server that take an     *)
(* upload (serverclientTask, webserver.c) cut it into chunks and send them *)
(* to a queue; ota_task (ota.c) writes them to the other partition, and    *)
(* restarts the radio if the image it has written is a valid one.  A chunk *)
(* of length 0 ends the upload.                                            *)
(*                                                                         *)
(* The state of ota.c is shared by all workers: ota_active is tested       *)
(* before clientDisconnect, which waits for up to a second, and set after  *)
(* it; and a worker takes no notice of the refusal and uploads anyway, so  *)
(* that its chunks, and its end, come between those of the other.          *)
(***************************************************************************)
EXTENDS Integers, Sequences, SequencesExt, FiniteSets

CONSTANTS
  OtaWorkers, \* workers that take an upload
  OtaLength,  \* the chunks of an image
  OtaRoom     \* 4, the length of ota_queue

ASSUME OtaAssumption == OtaLength \in Nat \ {0} /\ OtaRoom \in Nat \ {0}

VARIABLES
  ota_active,
  ota_queue,  \* the queue in use, 0 when it is NULL
  otaQueues,  \* every queue created so far: its items, and whether it lives
  otaWorker,  \* of each worker: where it is, chunks sent, queue it sends to
  otaTasks,   \* every ota_task created so far: where it is, queue, image
  otaFaults   \* what has gone wrong: see OtaFault

otaVars == <<ota_active, ota_queue, otaQueues, otaWorker, otaTasks, otaFaults>>

(* A fault of the flash, a failure of the connection or to get memory, a   *)
(* queue that has no room for a second, and a first chunk that was cut; an *)
(* upload that began while another was under way, and two that both found  *)
(* none active.                                                            *)
OtaFault == {"flash", "failure", "slow", "cut", "met", "race"}
OtaEof == <<>>

OtaWorkerState ==
  [at : {"idle", "test", "disconnect", "task", "read", "send", "ko", "finish", "eof",
         "end"},
   sent : 0..OtaLength, on : Nat, answer : {"none", "ok", "ko"}]

OtaInit ==
  /\ ota_active = FALSE /\ ota_queue = 0 /\ otaQueues = <<>>
  /\ otaWorker = [w \in OtaWorkers |-> [at |-> "idle", sent |-> 0, on |-> 0,
                                        answer |-> "none"]]
  /\ otaTasks = <<>> /\ otaFaults = {}

-----------------------------------------------------------------------------
(* Two uploads that both found none active have two tasks and one queue,   *)
(* which is used after it is deleted, or NULL: that is not followed.       *)
OtaGoes(w, at) == otaWorker' = [otaWorker EXCEPT ![w].at = at]
OtaBusy(w) == otaWorker[w].at \notin {"idle", "end"}
Restarted == \E t \in DOMAIN otaTasks : otaTasks[t].at = "restart"
OtaOver == Restarted \/ "race" \in otaFaults
OtaRuns(w, at) == otaWorker[w].at = at /\ ~OtaOver
OtaFails(fault) == otaFaults' = otaFaults \cup {fault}
OtaDelete(q) == [otaQueues EXCEPT ![q].lives = FALSE]
Room(q) == Len(otaQueues[q].items) < OtaRoom

(* An upload is under way until its worker and its task have ended.        *)
OtaAlive(t) == otaTasks[t].at # "deleted"
OtaUnderWay ==
  (\E v \in OtaWorkers : OtaBusy(v)) \/ (\E t \in DOMAIN otaTasks : OtaAlive(t))
OtaUpload(w) ==
  /\ OtaRuns(w, "idle")
  /\ OtaGoes(w, "test")
  /\ IF OtaUnderWay THEN OtaFails("met") ELSE UNCHANGED otaFaults
  /\ UNCHANGED <<ota_active, ota_queue, otaQueues, otaTasks>>

(* ota_update_from_socket_start: "OTA already running" ... *)
OtaTest(w) ==
  /\ OtaRuns(w, "test")
  /\ \/ ota_active /\ OtaGoes(w, "read") /\ UNCHANGED otaFaults
     \/ /\ ~ota_active /\ OtaGoes(w, "disconnect")
        /\ IF \E v \in OtaWorkers : otaWorker[v].at = "disconnect"
           THEN OtaFails("race") ELSE UNCHANGED otaFaults
  /\ UNCHANGED <<ota_active, ota_queue, otaQueues, otaTasks>>

(* ... and after clientDisconnect the queue is created ... *)
OtaCreate(w) ==
  /\ OtaRuns(w, "disconnect")
  /\ \/ /\ otaQueues' = Append(otaQueues, [items |-> <<>>, lives |-> TRUE])
        /\ ota_queue' = Len(otaQueues) + 1
        /\ ota_active' = TRUE
        /\ OtaGoes(w, "task")
        /\ UNCHANGED otaFaults
     \/ /\ ota_queue' = 0 /\ OtaGoes(w, "read") /\ OtaFails("failure")
        /\ UNCHANGED <<ota_active, otaQueues>>
  /\ UNCHANGED otaTasks

(* ... and then the task. *)
OtaCreateTask(w) ==
  /\ OtaRuns(w, "task")
  /\ OtaGoes(w, "read")
  /\ \/ /\ otaTasks' = Append(otaTasks, [at |-> "begin", on |-> 0, image |-> <<>>])
        /\ UNCHANGED <<ota_active, ota_queue, otaQueues, otaFaults>>
     \/ /\ ota_queue # 0
        /\ otaQueues' = OtaDelete(ota_queue)
        /\ ota_queue' = 0 /\ ota_active' = FALSE
        /\ OtaFails("failure")
        /\ UNCHANGED otaTasks

(* A chunk has been read from the connection: ota_update_from_socket_write *)
(* begins.  Or the connection fails, or its other side has closed it.      *)
OtaOpen == ota_active /\ ota_queue # 0
OtaRead(w) ==
  /\ OtaRuns(w, "read")
  /\ \/ /\ otaWorker[w].sent < OtaLength
        /\ otaWorker' = IF OtaOpen
                        THEN [otaWorker EXCEPT ![w].at = "send", ![w].on = ota_queue]
                        ELSE [otaWorker EXCEPT ![w].at = "ko"]
        /\ UNCHANGED otaFaults
     \/ /\ otaWorker[w].sent = OtaLength /\ OtaGoes(w, "finish")
        /\ UNCHANGED otaFaults
     \/ /\ otaWorker[w].sent < OtaLength /\ OtaGoes(w, "finish")
        /\ OtaFails("failure")
  /\ UNCHANGED <<ota_active, ota_queue, otaQueues, otaTasks>>

(* The queue has room for the chunk, or has none for a second.  The first  *)
(* came with the header, and may be longer than a chunk may be: it is cut, *)
(* and counts as sent (part 0 stands for what is left of it).              *)
OtaSend(w) ==
  /\ OtaRuns(w, "send")
  /\ LET q == otaWorker[w].on
         next == otaWorker[w].sent + 1
     IN IF Room(q)
        THEN \E part \in IF next = 1 THEN {0, 1} ELSE {next} :
               /\ otaQueues' = [otaQueues EXCEPT ![q].items = Append(@, <<w, part>>)]
               /\ otaWorker' = [otaWorker EXCEPT ![w].at = "read", ![w].sent = next]
               /\ IF part = 0 THEN OtaFails("cut") ELSE UNCHANGED otaFaults
        ELSE /\ OtaGoes(w, "ko") /\ OtaFails("slow")
             /\ UNCHANGED otaQueues
  /\ UNCHANGED <<ota_active, ota_queue, otaTasks>>

OtaKo(w) ==
  /\ OtaRuns(w, "ko")
  /\ otaWorker' = [otaWorker EXCEPT ![w].at = "finish", ![w].answer = "ko"]
  /\ UNCHANGED <<ota_active, ota_queue, otaQueues, otaTasks, otaFaults>>

(* ota_update_from_socket_finish. *)
OtaAnswers(w, answer) ==
  otaWorker' = [otaWorker EXCEPT ![w].at = "end",
                                 ![w].answer = IF @ = "none" THEN answer ELSE @]
OtaFinish(w) ==
  /\ OtaRuns(w, "finish")
  /\ IF OtaOpen
     THEN otaWorker' = [otaWorker EXCEPT ![w].at = "eof", ![w].on = ota_queue]
     ELSE OtaAnswers(w, "ko")
  /\ UNCHANGED <<ota_active, ota_queue, otaQueues, otaTasks, otaFaults>>

(* Mutants: the queue is deleted once the upload has ended, or its end is  *)
(* not sent.                                                               *)
OtaSendEofDeletes(w) ==
  /\ OtaRuns(w, "eof")
  /\ OtaAnswers(w, "ok")
  /\ otaQueues' = OtaDelete(otaWorker[w].on)
  /\ UNCHANGED <<ota_active, ota_queue, otaTasks, otaFaults>>
OtaSendEofForgets(w) ==
  /\ OtaRuns(w, "eof")
  /\ OtaAnswers(w, "ok")
  /\ UNCHANGED <<ota_active, ota_queue, otaQueues, otaTasks, otaFaults>>

(* The end is queued, or is not within a second: nothing tells.            *)
OtaSendEof(w) ==
  /\ OtaRuns(w, "eof")
  /\ OtaAnswers(w, "ok")
  /\ LET q == otaWorker[w].on
     IN IF Room(q)
        THEN /\ otaQueues' = [otaQueues EXCEPT ![q].items = Append(@, OtaEof)]
             /\ UNCHANGED otaFaults
        ELSE OtaFails("slow") /\ UNCHANGED otaQueues
  /\ UNCHANGED <<ota_active, ota_queue, otaTasks>>

-----------------------------------------------------------------------------
(* ota_task. *)
OtaTaskGoes(t, at) == otaTasks' = [otaTasks EXCEPT ![t].at = at]
OtaTaskRuns(t, at) == otaTasks[t].at = at /\ ~OtaOver

OtaBegin(t) ==
  /\ OtaTaskRuns(t, "begin")
  /\ \/ OtaTaskGoes(t, "loop") /\ UNCHANGED otaFaults
     \/ OtaTaskGoes(t, "exit") /\ OtaFails("flash")
  /\ UNCHANGED <<ota_active, ota_queue, otaQueues, otaWorker>>

(* xQueueReceive is called with the queue of the moment. *)
OtaLoop(t) ==
  /\ OtaTaskRuns(t, "loop")
  /\ otaTasks' = [otaTasks EXCEPT ![t].at = "receive", ![t].on = ota_queue]
  /\ UNCHANGED <<ota_active, ota_queue, otaQueues, otaWorker, otaFaults>>

(* Mutant: it goes on with the next chunk if one cannot be written. *)
OtaReceiveGoesOn(t) ==
  /\ OtaTaskRuns(t, "receive")
  /\ LET q == otaTasks[t].on
         chunk == Head(otaQueues[q].items)
     IN /\ q # 0
        /\ otaQueues[q].items # <<>>
        /\ otaQueues' = [otaQueues EXCEPT ![q].items = Tail(@)]
        /\ \/ chunk = OtaEof /\ OtaTaskGoes(t, "close") /\ UNCHANGED otaFaults
           \/ chunk # OtaEof /\ OtaTaskGoes(t, "loop") /\ OtaFails("flash")
           \/ /\ chunk # OtaEof
              /\ otaTasks' = [otaTasks EXCEPT ![t].at = "loop",
                                              ![t].image = Append(@, chunk)]
              /\ UNCHANGED otaFaults
  /\ UNCHANGED <<ota_active, ota_queue, otaWorker>>

OtaReceive(t) ==
  /\ OtaTaskRuns(t, "receive")
  /\ LET q == otaTasks[t].on
         chunk == Head(otaQueues[q].items)
     IN /\ q # 0
        /\ otaQueues[q].items # <<>>
        /\ otaQueues' = [otaQueues EXCEPT ![q].items = Tail(@)]
        /\ \/ /\ chunk = OtaEof /\ OtaTaskGoes(t, "close")
              /\ UNCHANGED otaFaults
           \/ /\ chunk # OtaEof
              /\ otaTasks' = [otaTasks EXCEPT ![t].at = "loop",
                                              ![t].image = Append(@, chunk)]
              /\ UNCHANGED otaFaults
           \/ /\ chunk # OtaEof /\ OtaTaskGoes(t, "close") /\ OtaFails("flash")
  /\ UNCHANGED <<ota_active, ota_queue, otaWorker>>

(* esp_ota_end accepts whole images only. *)
OtaValid(image) == \E w \in OtaWorkers : image = [i \in 1..OtaLength |-> <<w, i>>]
OtaClose(t) ==
  /\ OtaTaskRuns(t, "close")
  /\ OtaTaskGoes(t, IF OtaValid(otaTasks[t].image) THEN "restart" ELSE "exit")
  /\ UNCHANGED <<ota_active, ota_queue, otaQueues, otaWorker, otaFaults>>

(* Mutant: the next upload is not let in. *)
OtaExitActive(t) ==
  /\ OtaTaskRuns(t, "exit")
  /\ OtaTaskGoes(t, "deleted")
  /\ otaQueues' = IF ota_queue = 0 THEN otaQueues ELSE OtaDelete(ota_queue)
  /\ ota_queue' = 0
  /\ UNCHANGED <<ota_active, otaWorker, otaFaults>>

OtaExit(t) ==
  /\ OtaTaskRuns(t, "exit")
  /\ OtaTaskGoes(t, "deleted")
  /\ otaQueues' = IF ota_queue = 0 THEN otaQueues ELSE OtaDelete(ota_queue)
  /\ ota_queue' = 0 /\ ota_active' = FALSE
  /\ UNCHANGED <<otaWorker, otaFaults>>

OtaWorkerStep(w) ==
  \/ OtaTest(w) \/ OtaCreate(w) \/ OtaCreateTask(w) \/ OtaRead(w) \/ OtaSend(w)
  \/ OtaKo(w) \/ OtaFinish(w) \/ OtaSendEof(w)
OtaTaskStep(t) ==
  OtaBegin(t) \/ OtaLoop(t) \/ OtaReceive(t) \/ OtaClose(t) \/ OtaExit(t)
OtaNext ==
  \/ \E w \in OtaWorkers : OtaUpload(w) \/ OtaWorkerStep(w)
  \/ \E t \in DOMAIN otaTasks : OtaTaskStep(t)
OtaFairness ==
  /\ \A w \in OtaWorkers : WF_otaVars(OtaWorkerStep(w))
  /\ \A t \in 1..Cardinality(OtaWorkers) :
       WF_otaVars(t \in DOMAIN otaTasks /\ OtaTaskStep(t))
OtaSpec == OtaInit /\ [][OtaNext]_otaVars /\ OtaFairness

-----------------------------------------------------------------------------
(* Every variable stays in its domain. *)
OtaTypeOK ==
  /\ ota_active \in BOOLEAN
  /\ ota_queue \in 0..Len(otaQueues)
  /\ \A q \in DOMAIN otaQueues :
       /\ otaQueues[q].lives \in BOOLEAN
       /\ Len(otaQueues[q].items) <= OtaRoom
  /\ \A w \in OtaWorkers : otaWorker[w] \in OtaWorkerState
  /\ otaFaults \subseteq OtaFault

(* There is one ota_task, unless two uploads both found none active; and   *)
(* what it has written, with what is queued behind it before the end, is   *)
(* what one worker has sent, from its first chunk on: nothing is lost,     *)
(* doubled or out of order, also after an upload that failed, but for the  *)
(* rest of a first chunk that was cut, unless uploads have met.            *)
OtaQueued(t) ==
  IF otaTasks[t].at \in {"begin", "loop", "receive"} /\ ota_queue # 0
  THEN LET items == otaQueues[ota_queue].items
       IN IF items # <<>> /\ Last(items) = OtaEof THEN Front(items) ELSE items
  ELSE <<>>
OtaOneTask ==
  \A s, t \in DOMAIN otaTasks : OtaAlive(s) /\ OtaAlive(t) => s = t
OtaInOrder(t) ==
  LET image == otaTasks[t].image \o OtaQueued(t)
  IN \E w \in OtaWorkers : \A i \in 1..Len(image) :
       image[i] = <<w, i>> \/ ("cut" \in otaFaults /\ i = 1 /\ image[i] = <<w, 0>>)
OtaImage ==
  /\ "race" \notin otaFaults => OtaOneTask
  /\ "met" \notin otaFaults => \A t \in DOMAIN otaTasks : OtaAlive(t) => OtaInOrder(t)

(* The task never waits for a queue that has been deleted, unless two      *)
(* uploads both found none active; and no worker sends to one, as long as  *)
(* the flash takes what is written and uploads do not meet.                *)
OtaQueueLives ==
  /\ "race" \notin otaFaults =>
       \A t \in DOMAIN otaTasks : otaTasks[t].at = "receive" =>
         otaTasks[t].on # 0 /\ otaQueues[otaTasks[t].on].lives
  /\ otaFaults \cap {"flash", "met"} = {} =>
       \A w \in OtaWorkers : otaWorker[w].at \in {"send", "eof"} =>
         otaQueues[otaWorker[w].on].lives

(* "OTA update succeeded. Device will restart.": it does, unless the flash  *)
(* or the connection fails, the queue has no room, the first chunk was cut *)
(* or uploads have met ...                                                 *)
OtaRestarts ==
  (\E w \in OtaWorkers : otaWorker[w].answer = "ok") ~> Restarted \/ otaFaults # {}

(* ... and an update comes to its end whatever else fails, also beside one *)
(* that is refused, so that another is possible, unless its end is not     *)
(* queued in time or two uploads both found none active.                   *)
OtaEnds ==
  ota_active ~> ~ota_active \/ Restarted \/ otaFaults \cap {"slow", "race"} # {}
=============================================================================
