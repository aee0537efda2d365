------------------------------- MODULE Ota_proofs -------------------------------
(***************************************************************************)
(* Proofs about the over-the-air update: for any number of workers, an     *)
(* image of any length and a queue of any length, whatever fails, ota_task *)
(* writes what one worker has read, in order, unless uploads meet, and it  *)
(* never waits for a queue that has been deleted, unless two of them both  *)
(* found none active.                                                      *)
(***************************************************************************)
EXTENDS Ota, SequenceTheorems, TLAPS

OtaItem == (OtaWorkers \X (0..OtaLength)) \cup {OtaEof}
QueueRecord == [items : Seq(OtaItem), lives : BOOLEAN]
TaskRecord == [at : {"begin", "loop", "receive", "close", "restart", "exit", "deleted"},
               on : Nat, image : Seq(OtaItem)]

Queues == 1..Len(otaQueues)
TaskIds == 1..Len(otaTasks)

OtaStructure ==
  /\ ota_active \in BOOLEAN
  /\ otaQueues \in Seq(QueueRecord)
  /\ otaTasks \in Seq(TaskRecord)
  /\ otaWorker \in [OtaWorkers -> OtaWorkerState]
  /\ otaFaults \subseteq OtaFault

(* Queues are those that were created, and no longer than they may be; a   *)
(* worker that sends a chunk has not sent them all.                        *)
OtaBounds ==
  /\ ota_queue \in 0..Len(otaQueues)
  /\ \A q \in Queues : Len(otaQueues[q].items) <= OtaRoom
  /\ \A t \in TaskIds : otaTasks[t].on \in 0..Len(otaQueues)
  /\ \A w \in OtaWorkers :
       /\ otaWorker[w].at \in {"send", "eof"} => otaWorker[w].on \in Queues
       /\ otaWorker[w].at = "send" => otaWorker[w].sent < OtaLength
       /\ otaWorker[w].at \in {"idle", "test", "disconnect", "task"}
            => otaWorker[w].sent = 0

OtaTypeInv == OtaStructure /\ OtaBounds

-----------------------------------------------------------------------------
(* What steps do to the three parts of the state.                          *)
LEMMA Domains ==
  ASSUME OtaStructure
  PROVE  /\ Len(otaQueues) \in Nat /\ Len(otaTasks) \in Nat
         /\ DOMAIN otaQueues = Queues /\ DOMAIN otaTasks = TaskIds
         /\ \A q \in Queues : otaQueues[q] \in QueueRecord
         /\ \A t \in TaskIds : otaTasks[t] \in TaskRecord
  BY DEF OtaStructure, Queues, TaskIds

LEMMA Goes ==
  ASSUME OtaStructure, NEW w \in OtaWorkers, NEW at, OtaGoes(w, at),
         at \in {"idle", "test", "disconnect", "task", "read", "send", "ko", "finish", "eof",
                 "end"}
  PROVE  /\ otaWorker' \in [OtaWorkers -> OtaWorkerState]
         /\ otaWorker'[w].at = at /\ otaWorker'[w].sent = otaWorker[w].sent
         /\ otaWorker'[w].on = otaWorker[w].on
         /\ \A v \in OtaWorkers : v # w => otaWorker'[v] = otaWorker[v]
  BY DEF OtaStructure, OtaGoes, OtaWorkerState

LEMMA QueueBecomes ==
  ASSUME OtaStructure, NEW q \in Queues, NEW r \in QueueRecord,
         otaQueues' = [otaQueues EXCEPT ![q] = r]
  PROVE  /\ otaQueues' \in Seq(QueueRecord) /\ Len(otaQueues') = Len(otaQueues)
         /\ otaQueues'[q] = r
         /\ \A p \in Queues : p # q => otaQueues'[p] = otaQueues[p]
  BY ExceptSeq DEF OtaStructure, Queues

LEMMA TaskBecomes ==
  ASSUME OtaStructure, NEW t \in TaskIds, NEW r \in TaskRecord,
         otaTasks' = [otaTasks EXCEPT ![t] = r]
  PROVE  /\ otaTasks' \in Seq(TaskRecord) /\ Len(otaTasks') = Len(otaTasks)
         /\ otaTasks'[t] = r
         /\ \A s \in TaskIds : s # t => otaTasks'[s] = otaTasks[s]
  BY ExceptSeq DEF OtaStructure, TaskIds

(* An item is appended to a queue. *)
LEMMA QueueGets ==
  ASSUME OtaStructure, NEW q \in Queues, NEW c \in OtaItem,
         otaQueues' = [otaQueues EXCEPT ![q].items = Append(@, c)]
  PROVE  /\ otaQueues' \in Seq(QueueRecord) /\ Len(otaQueues') = Len(otaQueues)
         /\ otaQueues'[q].items = Append(otaQueues[q].items, c)
         /\ otaQueues'[q].items \in Seq(OtaItem)
         /\ Len(otaQueues'[q].items) = Len(otaQueues[q].items) + 1
         /\ otaQueues'[q].lives = otaQueues[q].lives
         /\ \A p \in Queues : p # q => otaQueues'[p] = otaQueues[p]
<1>1. otaQueues[q] \in QueueRecord BY Domains
<1> DEFINE i == Append(otaQueues[q].items, c)
           r == [otaQueues[q] EXCEPT !.items = i]
<1>2. otaQueues[q].items \in Seq(OtaItem) BY <1>1 DEF QueueRecord
<1>3. i \in Seq(OtaItem) /\ Len(i) = Len(otaQueues[q].items) + 1 BY <1>2
<1>4. otaQueues' = [otaQueues EXCEPT ![q] = r] OBVIOUS
<1> HIDE DEF i
<1>5. r \in QueueRecord /\ r.items = i /\ r.lives = otaQueues[q].lives
  BY <1>1, <1>3 DEF QueueRecord
<1> HIDE DEF r
<1>6. QED BY <1>3, <1>4, <1>5, QueueBecomes DEF i

LEMMA QueueDies ==
  ASSUME OtaStructure, NEW q \in Queues, otaQueues' = OtaDelete(q)
  PROVE  /\ otaQueues' \in Seq(QueueRecord) /\ Len(otaQueues') = Len(otaQueues)
         /\ \A p \in Queues : otaQueues'[p].items = otaQueues[p].items
         /\ \A p \in Queues : p # q => otaQueues'[p].lives = otaQueues[p].lives
<1>1. otaQueues[q] \in QueueRecord BY Domains
<1> DEFINE r == [otaQueues[q] EXCEPT !.lives = FALSE]
<1>2. otaQueues' = [otaQueues EXCEPT ![q] = r] BY DEF OtaDelete
<1>3. r \in QueueRecord /\ r.items = otaQueues[q].items BY <1>1 DEF QueueRecord
<1> HIDE DEF r
<1>4. QED BY <1>2, <1>3, QueueBecomes

LEMMA TaskMoves ==
  ASSUME OtaStructure, NEW t \in TaskIds, NEW at, OtaTaskGoes(t, at),
         at \in {"begin", "loop", "receive", "close", "restart", "exit", "deleted"}
  PROVE  /\ otaTasks' \in Seq(TaskRecord) /\ Len(otaTasks') = Len(otaTasks)
         /\ otaTasks'[t].at = at /\ otaTasks'[t].on = otaTasks[t].on
         /\ otaTasks'[t].image = otaTasks[t].image
         /\ \A s \in TaskIds : s # t => otaTasks'[s] = otaTasks[s]
<1>1. otaTasks[t] \in TaskRecord BY Domains
<1> DEFINE r == [otaTasks[t] EXCEPT !.at = at]
<1>2. otaTasks' = [otaTasks EXCEPT ![t] = r] BY DEF OtaTaskGoes
<1>3. /\ r \in TaskRecord /\ r.at = at /\ r.on = otaTasks[t].on
      /\ r.image = otaTasks[t].image
  BY <1>1 DEF TaskRecord
<1> HIDE DEF r
<1>4. QED BY <1>2, <1>3, TaskBecomes

(* A worker moves on and keeps its queue or takes the one in use; how many *)
(* chunks it has sent is a count still.                                    *)
LEMMA WorkerBecomes ==
  ASSUME OtaStructure, NEW w \in OtaWorkers, NEW r \in OtaWorkerState,
         otaWorker' = [otaWorker EXCEPT ![w] = r]
  PROVE  /\ otaWorker' \in [OtaWorkers -> OtaWorkerState]
         /\ otaWorker'[w] = r
         /\ \A v \in OtaWorkers : v # w => otaWorker'[v] = otaWorker[v]
  BY DEF OtaStructure

LEMMA Answers ==
  ASSUME OtaStructure, NEW w \in OtaWorkers, NEW a \in {"ok", "ko"}, OtaAnswers(w, a)
  PROVE  /\ otaWorker' \in [OtaWorkers -> OtaWorkerState]
         /\ otaWorker'[w].at = "end"
         /\ \A v \in OtaWorkers : v # w => otaWorker'[v] = otaWorker[v]
<1> DEFINE r == [otaWorker[w] EXCEPT !.at = "end",
                   !.answer = IF @ = "none" THEN a ELSE @]
<1>1. otaWorker[w] \in OtaWorkerState BY DEF OtaStructure
<1>2. r \in OtaWorkerState /\ r.at = "end" BY <1>1 DEF OtaWorkerState
<1>3. otaWorker' = [otaWorker EXCEPT ![w] = r] BY DEF OtaAnswers
<1> HIDE DEF r
<1>4. QED BY <1>2, <1>3, WorkerBecomes

LEMMA Sends ==
  ASSUME OtaStructure, NEW w \in OtaWorkers, otaWorker[w].sent < OtaLength,
         otaWorker' = [otaWorker EXCEPT ![w].at = "read",
                                        ![w].sent = otaWorker[w].sent + 1]
  PROVE  /\ otaWorker' \in [OtaWorkers -> OtaWorkerState]
         /\ otaWorker'[w].at = "read" /\ otaWorker'[w].sent = otaWorker[w].sent + 1
         /\ \A v \in OtaWorkers : v # w => otaWorker'[v] = otaWorker[v]
<1> DEFINE n == otaWorker[w].sent + 1
           r == [otaWorker[w] EXCEPT !.at = "read", !.sent = n]
<1>1. otaWorker[w] \in OtaWorkerState BY DEF OtaStructure
<1>2. otaWorker[w].sent \in 0..OtaLength BY <1>1 DEF OtaWorkerState
<1>3. n \in 0..OtaLength BY <1>2, OtaAssumption DEF OtaAssumption
<1>4. otaWorker' = [otaWorker EXCEPT ![w] = r] OBVIOUS
<1> HIDE DEF n
<1>5. r \in OtaWorkerState /\ r.at = "read" /\ r.sent = n
  BY <1>1, <1>3 DEF OtaWorkerState
<1> HIDE DEF r
<1>6. QED BY <1>4, <1>5, WorkerBecomes DEF n

LEMMA TakesQueue ==
  ASSUME OtaStructure, NEW w \in OtaWorkers, NEW at \in {"send", "eof"}, ota_queue \in Nat,
         otaWorker' = [otaWorker EXCEPT ![w].at = at, ![w].on = ota_queue]
  PROVE  /\ otaWorker' \in [OtaWorkers -> OtaWorkerState]
         /\ otaWorker'[w].at = at /\ otaWorker'[w].sent = otaWorker[w].sent
         /\ otaWorker'[w].on = ota_queue
         /\ \A v \in OtaWorkers : v # w => otaWorker'[v] = otaWorker[v]
<1> DEFINE r == [otaWorker[w] EXCEPT !.at = at, !.on = ota_queue]
<1>1. otaWorker[w] \in OtaWorkerState BY DEF OtaStructure
<1>2. at \in {"idle", "test", "disconnect", "task", "read", "send", "ko", "finish",
             "eof", "end"}
  OBVIOUS
<1>3. r \in OtaWorkerState BY <1>1, <1>2 DEF OtaWorkerState
<1>4. r.at = at /\ r.sent = otaWorker[w].sent /\ r.on = ota_queue
  BY <1>1 DEF OtaWorkerState
<1>5. otaWorker' = [otaWorker EXCEPT ![w] = r] OBVIOUS
<1> HIDE DEF r
<1>6. QED BY <1>3, <1>4, <1>5, WorkerBecomes

LEMMA AnswersKo ==
  ASSUME OtaStructure, NEW w \in OtaWorkers, OtaKo(w)
  PROVE  /\ otaWorker' \in [OtaWorkers -> OtaWorkerState]
         /\ otaWorker'[w].at = "finish" /\ otaWorker'[w].sent = otaWorker[w].sent
         /\ \A v \in OtaWorkers : v # w => otaWorker'[v] = otaWorker[v]
<1> DEFINE r == [otaWorker[w] EXCEPT !.at = "finish", !.answer = "ko"]
<1>1. otaWorker[w] \in OtaWorkerState BY DEF OtaStructure
<1>2. /\ r \in OtaWorkerState /\ r.at = "finish" /\ r.sent = otaWorker[w].sent
  BY <1>1 DEF OtaWorkerState
<1>3. otaWorker' = [otaWorker EXCEPT ![w] = r] BY DEF OtaKo
<1> HIDE DEF r
<1>4. QED BY <1>2, <1>3, WorkerBecomes

-----------------------------------------------------------------------------
(* What a task does to its own record.                                     *)
LEMMA TaskLooks ==
  ASSUME OtaStructure, NEW t \in TaskIds, OtaLoop(t), ota_queue \in Nat
  PROVE  /\ otaTasks' \in Seq(TaskRecord) /\ Len(otaTasks') = Len(otaTasks)
         /\ otaTasks'[t].at = "receive" /\ otaTasks'[t].on = ota_queue
         /\ otaTasks'[t].image = otaTasks[t].image
         /\ \A s \in TaskIds : s # t => otaTasks'[s] = otaTasks[s]
<1>1. otaTasks[t] \in TaskRecord BY Domains
<1> DEFINE r == [otaTasks[t] EXCEPT !.at = "receive", !.on = ota_queue]
<1>2. otaTasks' = [otaTasks EXCEPT ![t] = r] BY DEF OtaLoop
<1>3. /\ r \in TaskRecord /\ r.at = "receive" /\ r.on = ota_queue
      /\ r.image = otaTasks[t].image
  BY <1>1 DEF TaskRecord
<1> HIDE DEF r
<1>4. QED BY <1>2, <1>3, TaskBecomes

LEMMA TaskWrites ==
  ASSUME OtaStructure, NEW t \in TaskIds, NEW c \in OtaItem,
         otaTasks' = [otaTasks EXCEPT ![t].at = "loop", ![t].image = Append(@, c)]
  PROVE  /\ otaTasks' \in Seq(TaskRecord) /\ Len(otaTasks') = Len(otaTasks)
         /\ otaTasks'[t].at = "loop" /\ otaTasks'[t].on = otaTasks[t].on
         /\ otaTasks'[t].image = Append(otaTasks[t].image, c)
         /\ \A s \in TaskIds : s # t => otaTasks'[s] = otaTasks[s]
<1>1. otaTasks[t] \in TaskRecord BY Domains
<1> DEFINE i == Append(otaTasks[t].image, c)
           r == [otaTasks[t] EXCEPT !.at = "loop", !.image = i]
<1>2. otaTasks' = [otaTasks EXCEPT ![t] = r] OBVIOUS
<1>3. otaTasks[t].image \in Seq(OtaItem) BY <1>1 DEF TaskRecord
<1>4. i \in Seq(OtaItem) BY <1>3
<1> HIDE DEF i
<1>5. r \in TaskRecord /\ r.at = "loop" /\ r.on = otaTasks[t].on /\ r.image = i
  BY <1>1, <1>4 DEF TaskRecord
<1> HIDE DEF r
<1>6. QED BY <1>2, <1>5, TaskBecomes DEF i

(* The first item leaves a queue. *)
LEMMA QueueGives ==
  ASSUME OtaStructure, NEW q \in Queues, otaQueues[q].items # <<>>,
         otaQueues' = [otaQueues EXCEPT ![q].items = Tail(@)]
  PROVE  /\ otaQueues' \in Seq(QueueRecord) /\ Len(otaQueues') = Len(otaQueues)
         /\ Head(otaQueues[q].items) \in OtaItem
         /\ otaQueues'[q].items = Tail(otaQueues[q].items)
         /\ Len(otaQueues'[q].items) = Len(otaQueues[q].items) - 1
         /\ otaQueues'[q].lives = otaQueues[q].lives
         /\ \A p \in Queues : p # q => otaQueues'[p] = otaQueues[p]
<1>1. otaQueues[q] \in QueueRecord BY Domains
<1> DEFINE i == Tail(otaQueues[q].items)
           r == [otaQueues[q] EXCEPT !.items = i]
<1>2. otaQueues[q].items \in Seq(OtaItem) BY <1>1 DEF QueueRecord
<1>3. /\ i \in Seq(OtaItem) /\ Len(i) = Len(otaQueues[q].items) - 1
      /\ Head(otaQueues[q].items) \in OtaItem
  BY <1>2
<1>4. otaQueues' = [otaQueues EXCEPT ![q] = r] OBVIOUS
<1> HIDE DEF i
<1>5. r \in QueueRecord /\ r.items = i /\ r.lives = otaQueues[q].lives
  BY <1>1, <1>3 DEF QueueRecord
<1> HIDE DEF r
<1>6. QED BY <1>3, <1>4, <1>5, QueueBecomes DEF i

-----------------------------------------------------------------------------
(* The type invariant, one step per action.                                *)
LEMMA TypeInit == OtaInit => OtaTypeInv
<1> SUFFICES ASSUME OtaInit PROVE OtaTypeInv OBVIOUS
<1> DEFINE r == [at |-> "idle", sent |-> 0, on |-> 0, answer |-> "none"]
<1>1. r \in OtaWorkerState BY OtaAssumption DEF OtaWorkerState, OtaAssumption
<1>2. otaWorker = [w \in OtaWorkers |-> r] BY DEF OtaInit
<1> HIDE DEF r
<1>3. otaWorker \in [OtaWorkers -> OtaWorkerState] BY <1>1, <1>2
<1>4. otaQueues \in Seq(QueueRecord) /\ otaTasks \in Seq(TaskRecord) BY DEF OtaInit
<1>5. ota_active \in BOOLEAN /\ otaFaults \subseteq OtaFault BY DEF OtaInit
<1>6. OtaStructure BY <1>3, <1>4, <1>5 DEF OtaStructure
<1>7. OtaBounds BY OtaAssumption DEF OtaInit, OtaBounds, Queues, TaskIds, OtaAssumption
<1>8. QED BY <1>6, <1>7 DEF OtaTypeInv

(* What OtaBounds says of one worker. *)
WorkerFits(w) ==
  /\ otaWorker[w].at \in {"send", "eof"} => otaWorker[w].on \in Queues
  /\ otaWorker[w].at = "send" => otaWorker[w].sent < OtaLength
  /\ otaWorker[w].at \in {"idle", "test", "disconnect", "task"} => otaWorker[w].sent = 0

LEMMA BoundsOf ==
  ASSUME OtaTypeInv
  PROVE  /\ OtaStructure /\ ota_queue \in 0..Len(otaQueues) /\ ota_queue \in Nat
         /\ Len(otaQueues) \in Nat /\ Len(otaTasks) \in Nat
         /\ \A q \in Queues : Len(otaQueues[q].items) <= OtaRoom
         /\ \A t \in TaskIds : otaTasks[t].on \in 0..Len(otaQueues)
         /\ \A w \in OtaWorkers : WorkerFits(w)
<1>1. OtaStructure /\ OtaBounds BY DEF OtaTypeInv
<1>2. Len(otaQueues) \in Nat /\ Len(otaTasks) \in Nat BY <1>1, Domains
<1>3. QED BY <1>1, <1>2 DEF OtaBounds, WorkerFits

(* A step of one worker that leaves queues and tasks alone. *)
LEMMA WorkerTypes ==
  ASSUME OtaTypeInv, NEW w \in OtaWorkers, WorkerFits(w)',
         otaWorker' \in [OtaWorkers -> OtaWorkerState],
         \A v \in OtaWorkers : v # w => otaWorker'[v] = otaWorker[v],
         UNCHANGED <<ota_active, ota_queue, otaQueues, otaTasks>>,
         otaFaults' \subseteq OtaFault
  PROVE  OtaTypeInv'
<1>1. OtaStructure' BY DEF OtaTypeInv, OtaStructure
<1>2. OtaBounds' BY BoundsOf DEF OtaBounds, WorkerFits, Queues, TaskIds
<1>3. QED BY <1>1, <1>2 DEF OtaTypeInv

LEMMA TypeWorker ==
  ASSUME OtaTypeInv, NEW w \in OtaWorkers, OtaUpload(w) \/ OtaWorkerStep(w)
  PROVE  OtaTypeInv'
<1> USE BoundsOf
<1>1. otaFaults \subseteq OtaFault BY DEF OtaStructure
<1>2. CASE OtaUpload(w)
  <2>1. OtaGoes(w, "test") /\ otaWorker[w].at = "idle" BY <1>2 DEF OtaUpload, OtaRuns
  <2>2. /\ UNCHANGED <<ota_active, ota_queue, otaQueues, otaTasks>>
        /\ otaFaults' \subseteq OtaFault
    BY <1>1, <1>2 DEF OtaUpload, OtaFails, OtaFault
  <2>3. QED BY <2>1, <2>2, Goes, WorkerTypes DEF WorkerFits
<1>3. CASE OtaTest(w)
  <2>1. /\ OtaGoes(w, "read") \/ OtaGoes(w, "disconnect")
        /\ otaWorker[w].at = "test"
    BY <1>3 DEF OtaTest, OtaRuns
  <2>2. /\ UNCHANGED <<ota_active, ota_queue, otaQueues, otaTasks>>
        /\ otaFaults' \subseteq OtaFault
    BY <1>1, <1>3 DEF OtaTest, OtaFails, OtaFault
  <2>3. QED BY <2>1, <2>2, Goes, WorkerTypes DEF WorkerFits
<1>4. CASE OtaCreate(w)
  <2>1. otaWorker[w].at = "disconnect" BY <1>4 DEF OtaCreate, OtaRuns
  <2>2. CASE /\ otaQueues' = Append(otaQueues, [items |-> <<>>, lives |-> TRUE])
             /\ ota_queue' = Len(otaQueues) + 1
             /\ ota_active' = TRUE
             /\ OtaGoes(w, "task")
             /\ UNCHANGED <<otaFaults, otaTasks>>
    <3>1. [items |-> <<>>, lives |-> TRUE] \in QueueRecord BY DEF QueueRecord
    <3>2. /\ otaQueues' \in Seq(QueueRecord) /\ Len(otaQueues') = Len(otaQueues) + 1
          /\ \A q \in Queues : otaQueues'[q] = otaQueues[q]
          /\ otaQueues'[Len(otaQueues) + 1] = [items |-> <<>>, lives |-> TRUE]
      BY <2>2, <3>1, Domains DEF OtaStructure, Queues
    <3>3. OtaStructure' BY <1>1, <2>2, <3>2, Goes DEF OtaStructure
    <3>4. \A q \in Queues' : Len(otaQueues'[q].items) <= OtaRoom
      <4>1. Queues' = Queues \cup {Len(otaQueues) + 1} BY <3>2 DEF Queues
      <4>2. ASSUME NEW q \in Queues PROVE Len(otaQueues'[q].items) <= OtaRoom
        BY <3>2, <4>2
      <4>3. Len(otaQueues'[Len(otaQueues) + 1].items) <= OtaRoom
        BY <3>2, OtaAssumption DEF OtaAssumption
      <4> QED BY <4>1, <4>2, <4>3
    <3>5. \A v \in OtaWorkers : WorkerFits(v)'
      BY <2>1, <2>2, <3>2, Goes DEF Queues, WorkerFits
    <3>6. /\ ota_queue' \in 0..Len(otaQueues')
          /\ \A t \in TaskIds' : otaTasks'[t].on \in 0..Len(otaQueues')
      BY <2>2, <3>2 DEF TaskIds
    <3>7. OtaBounds' BY <3>4, <3>5, <3>6 DEF OtaBounds, WorkerFits
    <3>8. QED BY <3>3, <3>7 DEF OtaTypeInv
  <2>3. CASE /\ ota_queue' = 0 /\ OtaGoes(w, "read") /\ OtaFails("failure")
             /\ UNCHANGED <<ota_active, otaQueues, otaTasks>>
    <3>1. OtaStructure' BY <2>3, Goes DEF OtaStructure, OtaFails, OtaFault
    <3>2. \A v \in OtaWorkers : WorkerFits(v)'
      BY <2>3, Goes DEF Queues, WorkerFits
    <3>3. OtaBounds' BY <2>3, <3>2 DEF OtaBounds, WorkerFits, TaskIds, Queues
    <3>4. QED BY <3>1, <3>3 DEF OtaTypeInv
  <2>4. QED BY <1>4, <2>2, <2>3 DEF OtaCreate
<1>5. CASE OtaCreateTask(w)
  <2>1. OtaGoes(w, "read") BY <1>5 DEF OtaCreateTask
  <2>2. CASE /\ otaTasks' = Append(otaTasks, [at |-> "begin", on |-> 0, image |-> <<>>])
             /\ UNCHANGED <<ota_active, ota_queue, otaQueues, otaFaults>>
    <3>1. [at |-> "begin", on |-> 0, image |-> <<>>] \in TaskRecord BY DEF TaskRecord
    <3>2. /\ otaTasks' \in Seq(TaskRecord) /\ Len(otaTasks') = Len(otaTasks) + 1
          /\ \A t \in TaskIds : otaTasks'[t] = otaTasks[t]
          /\ otaTasks'[Len(otaTasks) + 1].on = 0
      BY <2>2, <3>1, Domains DEF OtaStructure, TaskIds
    <3>3. OtaStructure' BY <2>1, <2>2, <3>2, Goes DEF OtaStructure
    <3>4. \A t \in TaskIds' : otaTasks'[t].on \in 0..Len(otaQueues') BY <2>2, <3>2 DEF TaskIds
    <3>5. \A v \in OtaWorkers : WorkerFits(v)'
      BY <2>1, <2>2, Goes DEF Queues, WorkerFits
    <3>6. OtaBounds' BY <2>2, <3>4, <3>5 DEF OtaBounds, WorkerFits, Queues
    <3>7. QED BY <3>3, <3>6 DEF OtaTypeInv
  <2>3. CASE /\ ota_queue # 0
             /\ otaQueues' = OtaDelete(ota_queue)
             /\ ota_queue' = 0 /\ ota_active' = FALSE
             /\ OtaFails("failure")
             /\ UNCHANGED otaTasks
    <3>1. ota_queue \in Queues BY <2>3 DEF Queues
    <3>2. /\ otaQueues' \in Seq(QueueRecord) /\ Len(otaQueues') = Len(otaQueues)
          /\ \A p \in Queues : otaQueues'[p].items = otaQueues[p].items
      BY <2>3, <3>1, QueueDies
    <3>3. OtaStructure' BY <2>1, <2>3, <3>2, Goes DEF OtaStructure, OtaFails, OtaFault
    <3>4. \A v \in OtaWorkers : WorkerFits(v)'
      BY <2>1, <2>3, <3>2, Goes DEF Queues, WorkerFits
    <3>5. /\ ota_queue' \in 0..Len(otaQueues')
          /\ \A t \in TaskIds' : otaTasks'[t].on \in 0..Len(otaQueues')
          /\ \A q \in Queues' : Len(otaQueues'[q].items) <= OtaRoom
      BY <2>3, <3>2 DEF TaskIds, Queues
    <3>6. OtaBounds' BY <3>4, <3>5 DEF OtaBounds, WorkerFits
    <3>7. QED BY <3>3, <3>6 DEF OtaTypeInv
  <2>4. QED BY <1>5, <2>2, <2>3 DEF OtaCreateTask
<1>6. CASE OtaRead(w)
  <2>1. UNCHANGED <<ota_active, ota_queue, otaQueues, otaTasks>> BY <1>6 DEF OtaRead
  <2>2. CASE OtaOpen /\ otaWorker[w].sent < OtaLength /\ UNCHANGED otaFaults
             /\ otaWorker' = [otaWorker EXCEPT ![w].at = "send", ![w].on = ota_queue]
    <3>1. ota_queue \in Queues BY <2>2 DEF OtaOpen, Queues
    <3>2. WorkerFits(w)' BY <2>1, <2>2, <3>1, TakesQueue DEF WorkerFits, Queues
    <3>3. QED BY <1>1, <2>1, <2>2, <3>2, TakesQueue, WorkerTypes
  <2>3. CASE OtaGoes(w, "ko") /\ UNCHANGED otaFaults
    BY <1>1, <2>1, <2>3, Goes, WorkerTypes DEF WorkerFits
  <2>4. CASE OtaGoes(w, "finish") /\ otaFaults' \subseteq OtaFault
    BY <2>1, <2>4, Goes, WorkerTypes DEF WorkerFits
  <2>5. QED BY <1>1, <1>6, <2>2, <2>3, <2>4 DEF OtaRead, OtaGoes, OtaFails, OtaFault
<1>7. CASE OtaSend(w)
  <2> DEFINE q == otaWorker[w].on
  <2>1. otaWorker[w].at = "send" BY <1>7 DEF OtaSend, OtaRuns
  <2>2. q \in Queues /\ otaWorker[w].sent < OtaLength BY <2>1 DEF WorkerFits
  <2>3. UNCHANGED <<ota_active, ota_queue, otaTasks>> BY <1>7 DEF OtaSend
  <2>4. CASE Room(q)
    <3> DEFINE next == otaWorker[w].sent + 1
    <3>1. PICK part \in IF next = 1 THEN {0, 1} ELSE {next} :
            /\ otaQueues' = [otaQueues EXCEPT ![q].items = Append(@, <<w, part>>)]
            /\ otaWorker' = [otaWorker EXCEPT ![w].at = "read", ![w].sent = next]
            /\ IF part = 0 THEN OtaFails("cut") ELSE UNCHANGED otaFaults
      BY <1>7, <2>4 DEF OtaSend
    <3> DEFINE c == <<w, part>>
    <3>2. /\ otaQueues' = [otaQueues EXCEPT ![q].items = Append(@, c)]
          /\ otaWorker' = [otaWorker EXCEPT ![w].at = "read",
                                            ![w].sent = otaWorker[w].sent + 1]
          /\ otaFaults' \subseteq OtaFault
      BY <1>1, <3>1 DEF OtaFails, OtaFault
    <3>3. otaWorker[w].sent \in 0..OtaLength BY DEF OtaStructure, OtaWorkerState
    <3>4. c \in OtaItem
      <4>1. next \in 0..OtaLength /\ 0 \in 0..OtaLength
        BY <2>2, <3>3, OtaAssumption DEF OtaAssumption
      <4>2. part \in 0..OtaLength BY <3>1, <4>1
      <4>3. QED BY <4>2 DEF OtaItem
    <3> HIDE DEF c, q
    <3>5. /\ otaQueues' \in Seq(QueueRecord) /\ Len(otaQueues') = Len(otaQueues)
          /\ Len(otaQueues'[q].items) = Len(otaQueues[q].items) + 1
          /\ \A p \in Queues : p # q => otaQueues'[p] = otaQueues[p]
      BY <2>2, <3>2, <3>4, QueueGets
    <3>6. OtaStructure' BY <2>2, <2>3, <3>2, <3>5, Sends DEF OtaStructure
    <3>7. otaQueues[q] \in QueueRecord BY <2>2, Domains
    <3>8. Len(otaQueues[q].items) \in Nat BY <3>7 DEF QueueRecord
    <3>9. Len(otaQueues'[q].items) <= OtaRoom
      BY <2>4, <3>5, <3>8, OtaAssumption DEF Room, OtaAssumption
    <3>10. \A v \in OtaWorkers : WorkerFits(v)'
      BY <2>2, <3>2, <3>5, Sends DEF Queues, WorkerFits
    <3>11. OtaBounds' BY <2>3, <3>5, <3>9, <3>10 DEF OtaBounds, WorkerFits, Queues, TaskIds
    <3>12. QED BY <3>6, <3>11 DEF OtaTypeInv
  <2>5. CASE ~Room(q)
    <3>1. OtaGoes(w, "ko") /\ OtaFails("slow") /\ UNCHANGED otaQueues
      BY <1>7, <2>5 DEF OtaSend
    <3>2. otaFaults' \subseteq OtaFault BY <1>1, <3>1 DEF OtaFails, OtaFault
    <3>3. QED BY <2>3, <3>1, <3>2, Goes, WorkerTypes DEF WorkerFits
  <2>6. QED BY <2>4, <2>5
<1>8. CASE OtaKo(w)
  BY <1>1, <1>8, AnswersKo, WorkerTypes DEF WorkerFits, OtaKo
<1>9. CASE OtaFinish(w)
  <2>1. UNCHANGED <<ota_active, ota_queue, otaQueues, otaTasks, otaFaults>>
    BY <1>9 DEF OtaFinish
  <2>2. CASE OtaOpen
    <3>1. ota_queue \in Queues BY <2>2 DEF OtaOpen, Queues
    <3>2. otaWorker' = [otaWorker EXCEPT ![w].at = "eof", ![w].on = ota_queue]
      BY <1>9, <2>2 DEF OtaFinish
    <3>3. WorkerFits(w)' BY <2>1, <3>1, <3>2, TakesQueue DEF WorkerFits, Queues
    <3>4. QED BY <1>1, <2>1, <3>2, <3>3, TakesQueue, WorkerTypes
  <2>3. CASE ~OtaOpen
    BY <1>1, <1>9, <2>1, <2>3, Answers, WorkerTypes DEF WorkerFits, OtaFinish
  <2>4. QED BY <2>2, <2>3
<1>10. CASE OtaSendEof(w)
  <2> DEFINE q == otaWorker[w].on
  <2>1. otaWorker[w].at = "eof" BY <1>10 DEF OtaSendEof, OtaRuns
  <2>2. q \in Queues BY <2>1 DEF WorkerFits
  <2>3. UNCHANGED <<ota_active, ota_queue, otaTasks>> /\ OtaAnswers(w, "ok")
    BY <1>10 DEF OtaSendEof
  <2>4. CASE Room(q)
    <3>1. otaQueues' = [otaQueues EXCEPT ![q].items = Append(@, OtaEof)]
          /\ UNCHANGED otaFaults
      BY <1>10, <2>4 DEF OtaSendEof
    <3>2. OtaEof \in OtaItem BY DEF OtaItem
    <3> HIDE DEF q
    <3>3. /\ otaQueues' \in Seq(QueueRecord) /\ Len(otaQueues') = Len(otaQueues)
          /\ Len(otaQueues'[q].items) = Len(otaQueues[q].items) + 1
          /\ \A p \in Queues : p # q => otaQueues'[p] = otaQueues[p]
      BY <2>2, <3>1, <3>2, QueueGets
    <3>4. OtaStructure' BY <2>3, <3>1, <3>3, Answers DEF OtaStructure
    <3>5. otaQueues[q] \in QueueRecord BY <2>2, Domains
    <3>6. Len(otaQueues[q].items) \in Nat BY <3>5 DEF QueueRecord
    <3>7. Len(otaQueues'[q].items) <= OtaRoom
      BY <2>4, <3>3, <3>6, OtaAssumption DEF Room, OtaAssumption
    <3>8. \A v \in OtaWorkers : WorkerFits(v)'
      BY <2>3, <3>3, Answers DEF Queues, WorkerFits
    <3>9. OtaBounds' BY <2>3, <3>3, <3>7, <3>8 DEF OtaBounds, WorkerFits, Queues, TaskIds
    <3>10. QED BY <3>4, <3>9 DEF OtaTypeInv
  <2>5. CASE ~Room(q)
    <3>1. OtaFails("slow") /\ UNCHANGED otaQueues BY <1>10, <2>5 DEF OtaSendEof
    <3>2. otaFaults' \subseteq OtaFault BY <1>1, <3>1 DEF OtaFails, OtaFault
    <3>3. QED BY <2>3, <3>1, <3>2, Answers, WorkerTypes DEF WorkerFits
  <2>6. QED BY <2>4, <2>5
<1>11. QED
  BY <1>2, <1>3, <1>4, <1>5, <1>6, <1>7, <1>8, <1>9, <1>10 DEF OtaWorkerStep

(* A step of a task that keeps its queue, and the queues; and OtaBounds of *)
(* a step that keeps the number of tasks and queues.                       *)
LEMMA TaskTypes ==
  ASSUME OtaTypeInv, NEW t \in TaskIds,
         otaTasks' \in Seq(TaskRecord), Len(otaTasks') = Len(otaTasks),
         \A s \in TaskIds : s # t => otaTasks'[s] = otaTasks[s],
         otaTasks'[t].on \in 0..Len(otaQueues),
         otaQueues' \in Seq(QueueRecord), Len(otaQueues') = Len(otaQueues),
         \A q \in Queues : Len(otaQueues'[q].items) <= OtaRoom,
         ota_active' \in BOOLEAN, ota_queue' \in 0..Len(otaQueues),
         UNCHANGED otaWorker, otaFaults' \subseteq OtaFault
  PROVE  OtaTypeInv'
<1>1. OtaStructure' BY DEF OtaTypeInv, OtaStructure
<1>2. /\ \A s \in TaskIds' : otaTasks'[s].on \in 0..Len(otaQueues')
      /\ \A q \in Queues' : Len(otaQueues'[q].items) <= OtaRoom
  BY BoundsOf DEF Queues, TaskIds
<1>3. \A v \in OtaWorkers : WorkerFits(v)' BY BoundsOf DEF WorkerFits, Queues
<1>4. OtaBounds' BY <1>2, <1>3 DEF OtaBounds, WorkerFits
<1>5. QED BY <1>1, <1>4 DEF OtaTypeInv

LEMMA TypeTask ==
  ASSUME OtaTypeInv, NEW t \in TaskIds, OtaTaskStep(t)
  PROVE  OtaTypeInv'
<1> USE BoundsOf
<1>1. /\ otaFaults \subseteq OtaFault /\ otaQueues \in Seq(QueueRecord)
      /\ ota_active \in BOOLEAN
  BY DEF OtaStructure
<1>2. CASE OtaBegin(t)
  <2>1. UNCHANGED <<ota_active, ota_queue, otaQueues, otaWorker>> BY <1>2 DEF OtaBegin
  <2>2. CASE OtaTaskGoes(t, "loop") /\ UNCHANGED otaFaults
    BY <1>1, <2>1, <2>2, TaskMoves, TaskTypes
  <2>3. CASE OtaTaskGoes(t, "exit") /\ OtaFails("flash")
    <3>1. otaFaults' \subseteq OtaFault BY <1>1, <2>3 DEF OtaFails, OtaFault
    <3>2. QED BY <1>1, <2>1, <2>3, <3>1, TaskMoves, TaskTypes
  <2>4. QED BY <1>2, <2>2, <2>3 DEF OtaBegin
<1>3. CASE OtaLoop(t)
  <2>1. UNCHANGED <<ota_active, ota_queue, otaQueues, otaWorker, otaFaults>>
    BY <1>3 DEF OtaLoop
  <2>2. QED BY <1>1, <1>3, <2>1, TaskLooks, TaskTypes
<1>4. CASE OtaReceive(t)
  <2> DEFINE q == otaTasks[t].on
             chunk == Head(otaQueues[q].items)
  <2>1. q \in Queues /\ otaQueues[q].items # <<>> BY <1>4 DEF OtaReceive, Queues
  <2>2. otaQueues' = [otaQueues EXCEPT ![q].items = Tail(@)] BY <1>4 DEF OtaReceive
  <2>3. UNCHANGED <<ota_active, ota_queue, otaWorker>> BY <1>4 DEF OtaReceive
  <2>4. otaFaults' \subseteq OtaFault BY <1>1, <1>4 DEF OtaReceive, OtaFails, OtaFault
  <2> HIDE DEF q
  <2>5. /\ otaQueues' \in Seq(QueueRecord) /\ Len(otaQueues') = Len(otaQueues)
        /\ chunk \in OtaItem
        /\ Len(otaQueues'[q].items) = Len(otaQueues[q].items) - 1
        /\ \A p \in Queues : p # q => otaQueues'[p] = otaQueues[p]
    BY <2>1, <2>2, QueueGives
  <2>6. otaQueues[q] \in QueueRecord BY <2>1, Domains
  <2>7. Len(otaQueues[q].items) \in Nat BY <2>6 DEF QueueRecord
  <2>8. ASSUME NEW p \in Queues PROVE Len(otaQueues'[p].items) <= OtaRoom
    <3>1. OtaRoom \in Nat /\ Len(otaQueues[q].items) <= OtaRoom
      BY <2>1, OtaAssumption DEF OtaAssumption
    <3>2. Len(otaQueues[q].items) - 1 <= OtaRoom BY <2>7, <3>1
    <3>3. CASE p = q BY <2>5, <3>2, <3>3
    <3>4. CASE p # q BY <2>5, <3>4
    <3>5. QED BY <3>3, <3>4
  <2>9. \/ OtaTaskGoes(t, "close")
        \/ otaTasks' = [otaTasks EXCEPT ![t].at = "loop", ![t].image = Append(@, chunk)]
    BY <1>4 DEF OtaReceive, q
  <2> HIDE DEF chunk
  <2>10. CASE OtaTaskGoes(t, "close")
    BY <1>1, <2>3, <2>4, <2>5, <2>8, <2>10, TaskMoves, TaskTypes
  <2>11. CASE otaTasks' = [otaTasks EXCEPT ![t].at = "loop", ![t].image = Append(@, chunk)]
    BY <1>1, <2>3, <2>4, <2>5, <2>8, <2>11, TaskWrites, TaskTypes
  <2>12. QED BY <2>9, <2>10, <2>11
<1>5. CASE OtaClose(t)
  <2>1. UNCHANGED <<ota_active, ota_queue, otaQueues, otaWorker, otaFaults>>
    BY <1>5 DEF OtaClose
  <2>2. OtaTaskGoes(t, IF OtaValid(otaTasks[t].image) THEN "restart" ELSE "exit")
    BY <1>5 DEF OtaClose
  <2>3. PICK at \in {"restart", "exit"} : OtaTaskGoes(t, at) BY <2>2
  <2>4. QED BY <1>1, <2>1, <2>3, TaskMoves, TaskTypes
<1>6. CASE OtaExit(t)
  <2>1. /\ OtaTaskGoes(t, "deleted") /\ UNCHANGED <<otaWorker, otaFaults>>
        /\ ota_queue' = 0 /\ ota_active' = FALSE
    BY <1>6 DEF OtaExit
  <2>2. /\ otaQueues' \in Seq(QueueRecord) /\ Len(otaQueues') = Len(otaQueues)
        /\ \A q \in Queues : otaQueues'[q].items = otaQueues[q].items
    <3>1. CASE ota_queue = 0 BY <1>1, <1>6, <3>1 DEF OtaExit
    <3>2. CASE ota_queue # 0
      <4>1. ota_queue \in Queues BY <3>2 DEF Queues
      <4>2. QED BY <1>6, <3>2, <4>1, QueueDies DEF OtaExit
    <3>3. QED BY <3>1, <3>2
  <2>3. \A q \in Queues : Len(otaQueues'[q].items) <= OtaRoom BY <2>2
  <2>4. ota_active' \in BOOLEAN /\ otaFaults' \subseteq OtaFault BY <1>1, <2>1
  <2>5. ota_queue' \in 0..Len(otaQueues) BY <2>1
  <2>6. /\ otaTasks' \in Seq(TaskRecord) /\ Len(otaTasks') = Len(otaTasks)
        /\ \A s \in TaskIds : s # t => otaTasks'[s] = otaTasks[s]
        /\ otaTasks'[t].on \in 0..Len(otaQueues)
    BY <2>1, TaskMoves
  <2>7. QED BY <2>1, <2>2, <2>3, <2>4, <2>5, <2>6, TaskTypes
<1>7. QED BY <1>2, <1>3, <1>4, <1>5, <1>6 DEF OtaTaskStep

LEMMA TypeNext == OtaTypeInv /\ [OtaNext]_otaVars => OtaTypeInv'
<1> SUFFICES ASSUME OtaTypeInv, [OtaNext]_otaVars PROVE OtaTypeInv' OBVIOUS
<1>1. CASE UNCHANGED otaVars
  BY <1>1 DEF otaVars, OtaTypeInv, OtaStructure, OtaBounds, Queues, TaskIds
<1>2. CASE OtaNext
  <2>1. DOMAIN otaTasks = TaskIds BY Domains DEF OtaTypeInv
  <2>2. QED BY <1>2, <2>1, TypeWorker, TypeTask DEF OtaNext
<1>3. QED BY <1>1, <1>2

LEMMA TypeHolds == OtaSpec => []OtaTypeInv
<1>1. QED BY TypeInit, TypeNext, PTL DEF OtaSpec

LEMMA OtaTypeInvIs == OtaTypeInv => OtaTypeOK
<1> SUFFICES ASSUME OtaTypeInv PROVE OtaTypeOK OBVIOUS
<1> USE BoundsOf
<1>1. /\ DOMAIN otaQueues = Queues
      /\ \A q \in Queues : otaQueues[q].lives \in BOOLEAN
  BY Domains DEF QueueRecord
<1>2. QED BY <1>1 DEF OtaTypeOK, OtaStructure

(* Every variable stays in its domain, whatever fails and however uploads  *)
(* overlap: the code behind ota_update_from_socket_* and ota_task.         *)
THEOREM OtaTypes == OtaSpec => []OtaTypeOK
<1>1. QED BY OtaTypeInvIs, TypeHolds, PTL

-----------------------------------------------------------------------------
(* Chunks in order; the first of them may be what is left of it, once one  *)
(* has been cut.                                                           *)
Chunks(F, w, i) == {<<w, i>>} \cup IF "cut" \in F /\ i = 1 THEN {<<w, 0>>} ELSE {}
Starts(F, w, image) == \A i \in 1..Len(image) : image[i] \in Chunks(F, w, i)
OtaFollows(F, w, n, items) ==
  \A j \in 1..Len(items) :
    \/ items[j] \in Chunks(F, w, n + j)
    \/ j = Len(items) /\ items[j] = OtaEof
Ended(items) == items # <<>> /\ items[Len(items)] = OtaEof

LEMMA ChunkIsNoEnd == ASSUME NEW F, NEW w, NEW n PROVE OtaEof \notin Chunks(F, w, n)
<1>1. <<w, n>> # <<>> /\ <<w, 0>> # <<>> OBVIOUS
<1>2. QED BY <1>1 DEF OtaEof, Chunks

(* What has been cut stays cut. *)
LEMMA FaultsGrow ==
  ASSUME NEW F, NEW G, F \subseteq G, NEW w, NEW n, NEW s
  PROVE  /\ Starts(F, w, s) => Starts(G, w, s)
         /\ OtaFollows(F, w, n, s) => OtaFollows(G, w, n, s)
<1>1. \A i : Chunks(F, w, i) \subseteq Chunks(G, w, i) BY DEF Chunks
<1>2. Starts(F, w, s) => Starts(G, w, s) BY <1>1 DEF Starts
<1>3. OtaFollows(F, w, n, s) => OtaFollows(G, w, n, s) BY <1>1 DEF OtaFollows
<1>4. QED BY <1>2, <1>3

LEMMA FollowsMore ==
  ASSUME NEW S, NEW items \in Seq(S), NEW F, NEW w, NEW n \in Nat, NEW c \in S,
         OtaFollows(F, w, n, items), ~Ended(items),
         c \in Chunks(F, w, n + Len(items) + 1) \/ c = OtaEof
  PROVE  /\ OtaFollows(F, w, n, Append(items, c))
         /\ c # OtaEof => ~Ended(Append(items, c))
<1>1. /\ Len(Append(items, c)) = Len(items) + 1 /\ Len(items) \in Nat
      /\ Append(items, c)[Len(items) + 1] = c
      /\ \A j \in 1..Len(items) : Append(items, c)[j] = items[j]
  OBVIOUS
<1>2. \A j \in 1..Len(items) : items[j] \in Chunks(F, w, n + j)
  <2> SUFFICES ASSUME NEW j \in 1..Len(items), items[j] \notin Chunks(F, w, n + j)
               PROVE  FALSE
    OBVIOUS
  <2>1. j = Len(items) /\ items[j] = OtaEof BY DEF OtaFollows
  <2>2. QED BY <1>1, <2>1 DEF Ended
<1> DEFINE more == Append(items, c)
<1> HIDE DEF more
<1>3. OtaFollows(F, w, n, more)
  <2> SUFFICES ASSUME NEW j \in 1..Len(more)
               PROVE  \/ more[j] \in Chunks(F, w, n + j)
                      \/ j = Len(more) /\ more[j] = OtaEof
    BY DEF OtaFollows
  <2>1. CASE j = Len(items) + 1
    <3>1. n + Len(items) + 1 = n + j BY <1>1, <2>1
    <3>2. QED BY <1>1, <2>1, <3>1 DEF more
  <2>2. CASE j # Len(items) + 1
    <3>1. j \in 1..Len(items) BY <1>1, <2>2 DEF more
    <3>2. QED BY <1>1, <1>2, <3>1 DEF more
  <2>3. QED BY <2>1, <2>2
<1>4. c # OtaEof => ~Ended(more) BY <1>1 DEF Ended, more
<1>5. QED BY <1>3, <1>4 DEF more

LEMMA FollowsLess ==
  ASSUME NEW S, NEW items \in Seq(S), NEW F, NEW w, NEW n \in Nat,
         OtaFollows(F, w, n, items), items # <<>>, Head(items) # OtaEof
  PROVE  /\ Head(items) \in Chunks(F, w, n + 1)
         /\ OtaFollows(F, w, n + 1, Tail(items))
         /\ Ended(Tail(items)) => Ended(items)
<1>1. /\ Len(items) \in Nat \ {0} /\ Head(items) = items[1]
      /\ Len(Tail(items)) = Len(items) - 1
      /\ \A j \in 1..(Len(items) - 1) : Tail(items)[j] = items[j + 1]
  OBVIOUS
<1> DEFINE less == Tail(items)
<1> HIDE DEF less
<1>2. Head(items) \in Chunks(F, w, n + 1)
  <2>1. 1 \in 1..Len(items) BY <1>1
  <2>2. QED BY <1>1, <2>1 DEF OtaFollows
<1>3. OtaFollows(F, w, n + 1, less)
  <2> SUFFICES ASSUME NEW j \in 1..Len(less)
               PROVE  \/ less[j] \in Chunks(F, w, n + 1 + j)
                      \/ j = Len(less) /\ less[j] = OtaEof
    BY DEF OtaFollows
  <2>1. Len(less) = Len(items) - 1 BY <1>1 DEF less
  <2>2. j + 1 \in 1..Len(items) /\ less[j] = items[j + 1] BY <1>1, <2>1 DEF less
  <2>3. \/ items[j + 1] \in Chunks(F, w, n + (j + 1))
        \/ j + 1 = Len(items) /\ items[j + 1] = OtaEof
    BY <2>2 DEF OtaFollows
  <2>4. j \in Nat BY <1>1, <2>1
  <2>5. n + (j + 1) = n + 1 + j BY <2>4
  <2>6. ASSUME j + 1 = Len(items) PROVE j = Len(less)
    <3>1. j + 1 - 1 = j BY <2>4
    <3>2. QED BY <2>1, <2>6, <3>1
  <2>7. QED BY <2>2, <2>3, <2>6, <2>5
<1>4. ASSUME Ended(less) PROVE Ended(items)
  <2>1. less # <<>> /\ less[Len(less)] = OtaEof BY <1>4 DEF Ended
  <2>2. less \in Seq(S) BY <1>1 DEF less
  <2>3. Len(less) \in 1..(Len(items) - 1) BY <1>1, <2>1, <2>2 DEF less
  <2>4. items[Len(items)] = OtaEof BY <1>1, <2>1, <2>3 DEF less
  <2>5. QED BY <2>4 DEF Ended
<1>5. QED BY <1>2, <1>3, <1>4 DEF less

LEMMA EndIsAlone ==
  ASSUME NEW S, NEW items \in Seq(S), NEW F, NEW w, NEW n \in Nat,
         OtaFollows(F, w, n, items), items # <<>>, Head(items) = OtaEof
  PROVE  Ended(items)
<1>1. Len(items) \in Nat \ {0} /\ Head(items) = items[1] OBVIOUS
<1>2. items[1] \notin Chunks(F, w, n + 1) BY <1>1, ChunkIsNoEnd
<1>3. 1 \in 1..Len(items) BY <1>1
<1>4. 1 = Len(items) BY <1>2, <1>3 DEF OtaFollows
<1>5. QED BY <1>1, <1>4 DEF Ended

LEMMA StartsMore ==
  ASSUME NEW S, NEW image \in Seq(S), NEW F, NEW w, NEW c \in S,
         Starts(F, w, image), c \in Chunks(F, w, Len(image) + 1)
  PROVE  Starts(F, w, Append(image, c))
<1>1. /\ Len(Append(image, c)) = Len(image) + 1 /\ Len(image) \in Nat
      /\ Append(image, c)[Len(image) + 1] = c
      /\ \A j \in 1..Len(image) : Append(image, c)[j] = image[j]
  OBVIOUS
<1>2. QED BY <1>1 DEF Starts

(* What has been written with what is queued before the end is in order.   *)
LEMMA StartsAndFollows ==
  ASSUME NEW S, NEW image \in Seq(S), NEW items \in Seq(S), NEW F, NEW w,
         Starts(F, w, image), OtaFollows(F, w, Len(image), items), NEW queued,
         queued = IF items # <<>> /\ Last(items) = OtaEof THEN Front(items) ELSE items
  PROVE  image \o queued \in Seq(S) /\ Starts(F, w, image \o queued)
<1>1. Len(image) \in Nat /\ Len(items) \in Nat OBVIOUS
<1>2. /\ queued \in Seq(S)
      /\ \A j \in 1..Len(queued) : queued[j] \in Chunks(F, w, Len(image) + j)
  <2>1. CASE items # <<>> /\ Last(items) = OtaEof
    <3>1. queued = SubSeq(items, 1, Len(items) - 1) BY <2>1 DEF Front
    <3>2. Len(items) >= 1 BY <1>1, <2>1
    <3>3. /\ queued \in Seq(S) /\ Len(queued) = Len(items) - 1
          /\ \A j \in 1..(Len(items) - 1) : queued[j] = items[j]
      <4> DEFINE n == Len(items) - 1
      <4>1. n \in Nat /\ \A i \in 1..n : items[i] \in S BY <1>1, <3>2
      <4> HIDE DEF n
      <4>2. queued = SubSeq(items, 1, n) BY <3>1 DEF n
      <4>3. /\ queued \in Seq(S) /\ Len(queued) = IF 1 <= n THEN n - 1 + 1 ELSE 0
            /\ \A i \in 1..(n - 1 + 1) : queued[i] = items[1 + i - 1]
        BY <4>1, <4>2, SubSeqProperties
      <4>4. /\ queued \in Seq(S) /\ Len(queued) = n
            /\ \A i \in 1..n : queued[i] = items[i]
        BY <4>1, <4>3
      <4>5. QED BY <4>4 DEF n
    <3>4. QED BY <1>1, <3>3 DEF OtaFollows
  <2>2. CASE ~(items # <<>> /\ Last(items) = OtaEof)
    <3>1. queued = items BY <2>2
    <3>2. ~Ended(items) BY <2>2 DEF Ended, Last
    <3>3. QED BY <1>1, <3>1, <3>2 DEF OtaFollows, Ended
  <2>3. QED BY <2>1, <2>2
<1> DEFINE whole == image \o queued
<1>3. /\ whole \in Seq(S) /\ Len(whole) = Len(image) + Len(queued) /\ Len(queued) \in Nat
      /\ \A i \in 1..Len(whole) :
           whole[i] = IF i <= Len(image) THEN image[i] ELSE queued[i - Len(image)]
  BY <1>1, <1>2
<1>4. ASSUME NEW i \in 1..Len(whole) PROVE whole[i] \in Chunks(F, w, i)
  <2>1. CASE i <= Len(image) BY <1>1, <1>3, <2>1 DEF Starts
  <2>2. CASE ~(i <= Len(image))
    <3>1. i - Len(image) \in 1..Len(queued) BY <1>1, <1>3, <2>2
    <3>2. queued[i - Len(image)] \in Chunks(F, w, Len(image) + (i - Len(image)))
      BY <1>2, <3>1
    <3>3. Len(image) + (i - Len(image)) = i BY <1>1, <1>3
    <3>4. QED BY <1>3, <2>2, <3>2, <3>3
  <2>3. QED BY <2>1, <2>2
<1>5. QED BY <1>3, <1>4 DEF Starts

-----------------------------------------------------------------------------
(* As long as uploads are alone.  A worker is Sending once the refusal no  *)
(* longer matters to it, and a task is Reading until it closes the image.  *)
Sending(w) == otaWorker[w].at \in {"read", "send", "ko", "finish", "eof"}
Reading(t) == otaTasks[t].at \in {"begin", "loop", "receive"}

(* At most one worker is busy and one task alive, and they meet only when  *)
(* the worker sends.                                                       *)
OtaOne ==
  /\ \A v, w \in OtaWorkers : OtaBusy(v) /\ OtaBusy(w) => v = w
  /\ \A s, t \in TaskIds : OtaAlive(s) /\ OtaAlive(t) => s = t
  /\ \A w \in OtaWorkers, t \in TaskIds : OtaBusy(w) /\ OtaAlive(t) => Sending(w)

(* ota_active tells whether a task is there or about to be, and then its   *)
(* queue lives, empty to begin with.                                       *)
OtaActive ==
  /\ ota_active <=> ota_queue # 0
  /\ ota_active <=> \/ \E t \in TaskIds : OtaAlive(t)
                    \/ \E w \in OtaWorkers : otaWorker[w].at = "task"
  /\ ota_active => otaQueues[ota_queue].lives
  /\ \A w \in OtaWorkers :
       otaWorker[w].at = "task" => otaQueues[ota_queue].items = <<>>

(* Worker and task use the queue in use, and a task stops reading before   *)
(* the worker has sent the end only when the flash fails.                  *)
WorkerUses(w) ==
  otaWorker[w].at \in {"send", "eof"} =>
    IF ota_active THEN otaWorker[w].on = ota_queue ELSE "flash" \in otaFaults
TaskUses(t) == otaTasks[t].at = "receive" => otaTasks[t].on = ota_queue
StopsEarly(w, t) == Sending(w) /\ OtaAlive(t) /\ ~Reading(t)
OtaUses ==
  /\ \A w \in OtaWorkers : WorkerUses(w)
  /\ \A t \in TaskIds : TaskUses(t)
  /\ \A w \in OtaWorkers, t \in TaskIds : StopsEarly(w, t) => "flash" \in otaFaults

(* What is written and queued is what w has sent, and if it still sends,   *)
(* all of it.                                                              *)
Written(w, t) ==
  /\ Starts(otaFaults, w, otaTasks[t].image)
  /\ Reading(t) =>
       /\ OtaFollows(otaFaults, w, Len(otaTasks[t].image), otaQueues[ota_queue].items)
       /\ Ended(otaQueues[ota_queue].items) => \A v \in OtaWorkers : ~Sending(v)
       /\ \A v \in OtaWorkers : Sending(v) =>
            /\ v = w
            /\ otaWorker[v].sent
                 = Len(otaTasks[t].image) + Len(otaQueues[ota_queue].items)
OtaOrder == \A t \in TaskIds : OtaAlive(t) => \E w \in OtaWorkers : Written(w, t)

OtaLoneInv == OtaTypeInv /\ OtaOne /\ OtaActive /\ OtaUses /\ OtaOrder

LEMMA LoneInit == OtaInit => OtaLoneInv
<1> SUFFICES ASSUME OtaInit PROVE OtaLoneInv OBVIOUS
<1>1. /\ \A w \in OtaWorkers : otaWorker[w].at = "idle"
      /\ TaskIds = {} /\ ota_active = FALSE /\ ota_queue = 0
  BY DEF OtaInit, TaskIds
<1>2. OtaOne BY <1>1 DEF OtaOne, OtaBusy
<1>3. OtaActive BY <1>1 DEF OtaActive
<1>4. OtaUses BY <1>1 DEF OtaUses, WorkerUses
<1>5. OtaOrder BY <1>1 DEF OtaOrder
<1>6. QED BY <1>2, <1>3, <1>4, <1>5, TypeInit DEF OtaLoneInv

(* A worker that sends before and after the step, or stops to.             *)
LEMMA SenderKeeps ==
  ASSUME OtaLoneInv, OtaTypeInv', NEW w \in OtaWorkers, OtaBusy(w),
         UNCHANGED <<ota_active, ota_queue, otaQueues, otaTasks>>,
         otaFaults \subseteq otaFaults',
         \A v \in OtaWorkers : v # w => otaWorker'[v] = otaWorker[v],
         Sending(w),
         \/ Sending(w)' /\ otaWorker'[w].sent = otaWorker[w].sent
         \/ otaWorker'[w].at = "end",
         WorkerUses(w)'
  PROVE  OtaLoneInv'
<1> USE DEF OtaLoneInv
<1>1. OtaOne' BY DEF OtaOne, OtaBusy, OtaAlive, Sending, TaskIds
<1>2. /\ OtaActive'
  BY DEF OtaActive, OtaAlive, Sending, TaskIds
<1>3. OtaUses'
  BY DEF OtaUses, WorkerUses, TaskUses, StopsEarly, OtaAlive, Reading, Sending, TaskIds
<1>4. ASSUME NEW v \in OtaWorkers, Sending(v)'
      PROVE  Sending(v) /\ otaWorker'[v].sent = otaWorker[v].sent
  BY <1>4 DEF Sending
<1>5. ASSUME NEW v \in OtaWorkers, NEW t \in TaskIds, Written(v, t) PROVE Written(v, t)'
  BY <1>4, <1>5, FaultsGrow DEF Written, Reading
<1>6. OtaOrder' BY <1>5 DEF OtaOrder, OtaAlive, TaskIds
<1>7. QED BY <1>1, <1>2, <1>3, <1>6

(* While a worker is not yet sending there is no other, and no task.       *)
LEMMA NoTaskYet ==
  ASSUME OtaLoneInv, NEW w \in OtaWorkers, OtaBusy(w), ~Sending(w)
  PROVE  /\ \A t \in TaskIds : ~OtaAlive(t)
         /\ \A v \in OtaWorkers : v # w => ~OtaBusy(v)
         /\ ota_active <=> otaWorker[w].at = "task"
<1>1. /\ \A t \in TaskIds : ~OtaAlive(t)
      /\ \A v \in OtaWorkers : v # w => ~OtaBusy(v)
  BY DEF OtaLoneInv, OtaOne
<1>2. QED BY <1>1 DEF OtaLoneInv, OtaActive, OtaBusy

LEMMA LoneWorker ==
  ASSUME OtaLoneInv, OtaTypeInv', NEW w \in OtaWorkers, "met" \notin otaFaults',
         OtaUpload(w) \/ OtaWorkerStep(w)
  PROVE  OtaLoneInv'
<1>1. OtaTypeInv /\ OtaOne /\ OtaActive /\ OtaUses /\ OtaOrder BY DEF OtaLoneInv
<1>2. OtaStructure /\ WorkerFits(w) /\ ota_queue \in 0..Len(otaQueues)
      /\ Len(otaQueues) \in Nat /\ DOMAIN otaTasks = TaskIds
  BY <1>1, BoundsOf, Domains
<1>3. CASE OtaUpload(w)
  <2>1. /\ \A v \in OtaWorkers : ~OtaBusy(v)
        /\ \A t \in TaskIds : ~OtaAlive(t)
    BY <1>2, <1>3 DEF OtaUpload, OtaUnderWay, OtaFails
  <2>2. /\ otaWorker'[w].at = "test"
        /\ \A v \in OtaWorkers : v # w => otaWorker'[v] = otaWorker[v]
        /\ UNCHANGED <<ota_active, ota_queue, otaQueues, otaTasks, otaFaults>>
    BY <1>2, <1>3, Goes DEF OtaUpload, OtaFails
  <2>3. OtaOne' BY <2>1, <2>2 DEF OtaOne, OtaBusy, OtaAlive, TaskIds
  <2>4. OtaActive' BY <1>1, <2>1, <2>2 DEF OtaActive, OtaBusy, OtaAlive, TaskIds
  <2>5. OtaUses'
    BY <1>1, <2>1, <2>2
    DEF OtaUses, WorkerUses, TaskUses, StopsEarly, OtaBusy, OtaAlive, TaskIds
  <2>6. OtaOrder' BY <2>1, <2>2 DEF OtaOrder, OtaAlive, TaskIds
  <2>7. QED BY <2>3, <2>4, <2>5, <2>6 DEF OtaLoneInv
<1>4. CASE OtaTest(w)
  <2>1. otaWorker[w].at = "test" BY <1>4 DEF OtaTest, OtaRuns
  <2>2. /\ \A t \in TaskIds : ~OtaAlive(t) /\ ~ota_active
        /\ \A v \in OtaWorkers : v # w => ~OtaBusy(v)
        /\ ~ota_active
    BY <2>1, NoTaskYet DEF OtaBusy, Sending
  <2>3. /\ otaWorker'[w].at = "disconnect"
        /\ \A v \in OtaWorkers : v # w => otaWorker'[v] = otaWorker[v]
        /\ UNCHANGED <<ota_active, ota_queue, otaQueues, otaTasks, otaFaults>>
    <3>1. OtaGoes(w, "disconnect") BY <1>4, <2>2 DEF OtaTest
    <3>2. \A v \in OtaWorkers : otaWorker[v].at # "disconnect" BY <2>1, <2>2 DEF OtaBusy
    <3>3. UNCHANGED <<ota_active, ota_queue, otaQueues, otaTasks, otaFaults>>
      BY <1>4, <2>2, <3>2 DEF OtaTest
    <3>4. QED BY <1>2, <3>1, <3>3, Goes
  <2>4. OtaOne' BY <2>2, <2>3 DEF OtaOne, OtaBusy, OtaAlive, TaskIds
  <2>5. OtaActive' BY <1>1, <2>2, <2>3 DEF OtaActive, OtaBusy, OtaAlive, TaskIds
  <2>6. OtaUses'
    BY <1>1, <2>2, <2>3
    DEF OtaUses, WorkerUses, TaskUses, StopsEarly, OtaBusy, OtaAlive, TaskIds
  <2>7. OtaOrder' BY <2>2, <2>3 DEF OtaOrder, OtaAlive, TaskIds
  <2>8. QED BY <2>4, <2>5, <2>6, <2>7 DEF OtaLoneInv
<1>5. CASE OtaCreate(w)
  <2>1. otaWorker[w].at = "disconnect" BY <1>5 DEF OtaCreate, OtaRuns
  <2>2. /\ \A t \in TaskIds : ~OtaAlive(t)
        /\ \A v \in OtaWorkers : v # w => ~OtaBusy(v)
        /\ ~ota_active
    BY <2>1, NoTaskYet DEF OtaBusy, Sending
  <2>3. CASE /\ otaQueues' = Append(otaQueues, [items |-> <<>>, lives |-> TRUE])
             /\ ota_queue' = Len(otaQueues) + 1
             /\ ota_active' = TRUE
             /\ OtaGoes(w, "task")
             /\ UNCHANGED <<otaFaults, otaTasks>>
    <3>1. otaQueues'[ota_queue'] = [items |-> <<>>, lives |-> TRUE] /\ ota_queue' # 0
      BY <1>2, <2>3 DEF OtaStructure
    <3>2. /\ otaWorker'[w].at = "task"
          /\ \A v \in OtaWorkers : v # w => otaWorker'[v] = otaWorker[v]
      BY <1>2, <2>3, Goes
    <3>3. OtaOne' BY <2>2, <2>3, <3>2 DEF OtaOne, OtaBusy, OtaAlive, TaskIds
    <3>4. OtaActive' BY <2>2, <2>3, <3>1, <3>2 DEF OtaActive, OtaBusy, OtaAlive, TaskIds
    <3>5. OtaUses'
      BY <2>2, <2>3, <3>2
      DEF OtaUses, WorkerUses, TaskUses, StopsEarly, OtaBusy, OtaAlive, TaskIds
    <3>6. OtaOrder' BY <2>2, <2>3 DEF OtaOrder, OtaAlive, TaskIds
    <3>7. QED BY <3>3, <3>4, <3>5, <3>6 DEF OtaLoneInv
  <2>4. CASE /\ ota_queue' = 0 /\ OtaGoes(w, "read") /\ OtaFails("failure")
             /\ UNCHANGED <<ota_active, otaQueues, otaTasks>>
    <3>1. /\ otaWorker'[w].at = "read"
          /\ \A v \in OtaWorkers : v # w => otaWorker'[v] = otaWorker[v]
      BY <1>2, <2>4, Goes
    <3>2. OtaOne' BY <2>2, <2>4, <3>1 DEF OtaOne, OtaBusy, OtaAlive, TaskIds
    <3>3. OtaActive' BY <2>2, <2>4, <3>1 DEF OtaActive, OtaBusy, OtaAlive, TaskIds
    <3>4. OtaUses'
      BY <2>2, <2>4, <3>1
      DEF OtaUses, WorkerUses, TaskUses, StopsEarly, OtaBusy, OtaAlive, TaskIds
    <3>5. OtaOrder' BY <2>2, <2>4 DEF OtaOrder, OtaAlive, TaskIds
    <3>6. QED BY <3>2, <3>3, <3>4, <3>5 DEF OtaLoneInv
  <2>5. QED BY <1>5, <2>3, <2>4 DEF OtaCreate
<1>6. CASE OtaCreateTask(w)
  <2>1. otaWorker[w].at = "task" /\ otaWorker[w].sent = 0
    BY <1>2, <1>6 DEF OtaCreateTask, OtaRuns, WorkerFits
  <2>2. /\ \A t \in TaskIds : ~OtaAlive(t)
        /\ \A v \in OtaWorkers : v # w => ~OtaBusy(v)
        /\ ota_active
    BY <2>1, NoTaskYet DEF OtaBusy, Sending
  <2>3. /\ otaWorker'[w].at = "read" /\ otaWorker'[w].sent = 0
        /\ \A v \in OtaWorkers : v # w => otaWorker'[v] = otaWorker[v]
    BY <1>2, <1>6, <2>1, Goes DEF OtaCreateTask
  <2>4. ota_queue # 0 /\ otaQueues[ota_queue].lives /\ otaQueues[ota_queue].items = <<>>
    BY <1>1, <2>1, <2>2 DEF OtaActive
  <2>5. CASE /\ otaTasks' = Append(otaTasks, [at |-> "begin", on |-> 0, image |-> <<>>])
             /\ UNCHANGED <<ota_active, ota_queue, otaQueues, otaFaults>>
    <3>1. PICK new \in Nat : new = Len(otaTasks) + 1 BY <1>2, Domains
    <3>2. /\ TaskIds' = TaskIds \cup {new} /\ new \notin TaskIds
          /\ \A t \in TaskIds : otaTasks'[t] = otaTasks[t]
          /\ otaTasks'[new] = [at |-> "begin", on |-> 0, image |-> <<>>]
      BY <1>2, <2>5, <3>1 DEF OtaStructure, TaskIds
    <3>3. \A t \in TaskIds' : OtaAlive(t)' <=> t = new BY <2>2, <3>2 DEF OtaAlive
    <3>4. OtaOne' BY <2>2, <2>3, <3>3 DEF OtaOne, OtaBusy, Sending
    <3>5. OtaActive'
      BY <1>1, <2>2, <2>3, <2>4, <2>5, <3>2, <3>3 DEF OtaActive, OtaBusy
    <3>6. OtaUses'
      <4>1. \A v \in OtaWorkers : WorkerUses(v)'
        BY <2>2, <2>3 DEF WorkerUses, OtaBusy
      <4>2. \A t \in TaskIds' : TaskUses(t)'
        <5>1. \A t \in TaskIds : otaTasks[t].at # "receive" BY <2>2 DEF OtaAlive
        <5>2. QED BY <3>2, <5>1 DEF TaskUses
      <4>3. \A v \in OtaWorkers, t \in TaskIds' : ~StopsEarly(v, t)'
        BY <3>2, <3>3 DEF StopsEarly, Reading
      <4>4. QED BY <4>1, <4>2, <4>3 DEF OtaUses
    <3>7. Written(w, new)'
      <4> DEFINE none == <<>>
      <4>1. otaTasks'[new].image = none BY <3>2
      <4>2. otaQueues'[ota_queue'].items = none BY <2>4, <2>5
      <4>3. /\ Starts(otaFaults', w, none) /\ ~Ended(none) /\ Len(none) = 0
            /\ OtaFollows(otaFaults', w, Len(none), none)
        BY DEF Starts, Ended, OtaFollows
      <4>4. \A v \in OtaWorkers : Sending(v)' => v = w BY <2>2, <2>3 DEF Sending, OtaBusy
      <4> HIDE DEF none
      <4>5. otaWorker'[w].sent = Len(none) + Len(none) BY <2>3, <4>3
      <4>6. QED BY <4>1, <4>2, <4>3, <4>4, <4>5 DEF Written
    <3>8. OtaOrder'
      <4> SUFFICES ASSUME NEW t \in TaskIds', OtaAlive(t)'
                   PROVE  \E v \in OtaWorkers : Written(v, t)'
        BY DEF OtaOrder
      <4>1. t = new BY <3>3
      <4>2. QED BY <3>7, <4>1
    <3>9. QED BY <3>4, <3>5, <3>6, <3>8 DEF OtaLoneInv
  <2>6. CASE /\ ota_queue # 0
             /\ otaQueues' = OtaDelete(ota_queue)
             /\ ota_queue' = 0 /\ ota_active' = FALSE
             /\ OtaFails("failure")
             /\ UNCHANGED otaTasks
    <3>1. OtaOne' BY <2>2, <2>3, <2>6 DEF OtaOne, OtaBusy, OtaAlive, TaskIds
    <3>2. OtaActive' BY <2>2, <2>3, <2>6 DEF OtaActive, OtaBusy, OtaAlive, TaskIds
    <3>3. OtaUses'
      BY <2>2, <2>3, <2>6
      DEF OtaUses, WorkerUses, TaskUses, StopsEarly, OtaBusy, OtaAlive, TaskIds
    <3>4. OtaOrder' BY <2>2, <2>6 DEF OtaOrder, OtaAlive, TaskIds
    <3>5. QED BY <3>1, <3>2, <3>3, <3>4 DEF OtaLoneInv
  <2>7. QED BY <1>6, <2>5, <2>6 DEF OtaCreateTask
<1>7. CASE OtaRead(w)
  <2>1. otaWorker[w].at = "read" /\ OtaBusy(w) /\ Sending(w)
    BY <1>7 DEF OtaRead, OtaRuns, OtaBusy, Sending
  <2>2. UNCHANGED <<ota_active, ota_queue, otaQueues, otaTasks>>
        /\ otaFaults \subseteq otaFaults'
    BY <1>7 DEF OtaRead, OtaFails
  <2>3. CASE OtaOpen
             /\ otaWorker' = [otaWorker EXCEPT ![w].at = "send", ![w].on = ota_queue]
    <3>1. ota_queue \in Nat BY <1>1, BoundsOf
    <3>2. /\ otaWorker'[w].at = "send" /\ otaWorker'[w].sent = otaWorker[w].sent
          /\ otaWorker'[w].on = ota_queue
          /\ \A v \in OtaWorkers : v # w => otaWorker'[v] = otaWorker[v]
      BY <1>2, <2>3, <3>1, TakesQueue
    <3>3. Sending(w)' /\ WorkerUses(w)'
      BY <2>2, <2>3, <3>2 DEF Sending, WorkerUses, OtaOpen
    <3>4. QED BY <2>1, <2>2, <3>2, <3>3, SenderKeeps
  <2>4. CASE OtaGoes(w, "ko") \/ OtaGoes(w, "finish")
    <3>1. /\ otaWorker'[w].at \in {"ko", "finish"} /\ otaWorker'[w].sent = otaWorker[w].sent
          /\ \A v \in OtaWorkers : v # w => otaWorker'[v] = otaWorker[v]
      BY <1>2, <2>4, Goes
    <3>2. Sending(w)' /\ WorkerUses(w)' BY <3>1 DEF Sending, WorkerUses
    <3>3. QED BY <2>1, <2>2, <3>1, <3>2, SenderKeeps
  <2>5. QED BY <1>7, <2>3, <2>4 DEF OtaRead, OtaGoes
<1>8. CASE OtaSend(w) \/ OtaSendEof(w)
  <2> DEFINE q == otaWorker[w].on
  <2>1. otaWorker[w].at \in {"send", "eof"} /\ OtaBusy(w) /\ Sending(w)
    BY <1>8 DEF OtaSend, OtaSendEof, OtaRuns, OtaBusy, Sending
  <2>2. q \in Queues BY <1>2, <2>1 DEF WorkerFits
  <2>3. UNCHANGED <<ota_active, ota_queue, otaTasks>>
        /\ otaFaults \subseteq otaFaults'
    BY <1>8 DEF OtaSend, OtaSendEof, OtaFails
  <2>4. CASE Room(q)
    <3>1. PICK c \in OtaItem :
            /\ otaQueues' = [otaQueues EXCEPT ![q].items = Append(@, c)]
            /\ IF otaWorker[w].at = "send"
               THEN c \in Chunks(otaFaults', w, otaWorker[w].sent + 1)
               ELSE c = OtaEof
      <4>1. CASE otaWorker[w].at = "send"
        <5> DEFINE next == otaWorker[w].sent + 1
        <5>1. PICK part \in IF next = 1 THEN {0, 1} ELSE {next} :
                /\ otaQueues' = [otaQueues EXCEPT ![q].items = Append(@, <<w, part>>)]
                /\ IF part = 0 THEN OtaFails("cut") ELSE UNCHANGED otaFaults
          BY <1>8, <2>4, <4>1 DEF OtaSend, OtaSendEof, OtaRuns
        <5>2. otaWorker[w].sent \in 0..OtaLength
          BY <1>2 DEF OtaStructure, OtaWorkerState
        <5>3. next \in 1..OtaLength /\ 0 \in 0..OtaLength
          BY <1>2, <4>1, <5>2, OtaAssumption DEF WorkerFits, OtaAssumption
        <5>4. part \in 0..OtaLength BY <5>1, <5>3
        <5>5. <<w, part>> \in OtaItem BY <5>4 DEF OtaItem
        <5>6. <<w, part>> \in Chunks(otaFaults', w, next)
          <6>1. CASE part = 0 BY <5>1, <5>3, <6>1 DEF OtaFails, Chunks
          <6>2. CASE part # 0
            <7>1. part = next BY <5>1, <6>2
            <7>2. QED BY <7>1 DEF Chunks
          <6>3. QED BY <6>1, <6>2
        <5>7. QED BY <4>1, <5>1, <5>5, <5>6
      <4>2. CASE otaWorker[w].at # "send"
        <5>1. otaQueues' = [otaQueues EXCEPT ![q].items = Append(@, OtaEof)]
          BY <1>8, <2>4, <4>2 DEF OtaSend, OtaSendEof, OtaRuns
        <5>2. QED BY <4>2, <5>1 DEF OtaItem
      <4>3. QED BY <4>1, <4>2
    <3>2. /\ \A v \in OtaWorkers : v # w => otaWorker'[v] = otaWorker[v]
          /\ IF otaWorker[w].at = "send"
             THEN otaWorker'[w].at = "read" /\ otaWorker'[w].sent = otaWorker[w].sent + 1
             ELSE otaWorker'[w].at = "end"
      <4>1. CASE otaWorker[w].at = "send"
        <5>1. otaWorker[w].sent < OtaLength BY <1>2, <4>1 DEF WorkerFits
        <5>2. otaWorker' = [otaWorker EXCEPT ![w].at = "read",
                                             ![w].sent = otaWorker[w].sent + 1]
          BY <1>8, <2>4, <4>1 DEF OtaSend, OtaSendEof, OtaRuns
        <5>3. QED BY <1>2, <4>1, <5>1, <5>2, Sends
      <4>2. CASE otaWorker[w].at # "send"
        <5>1. OtaAnswers(w, "ok") BY <1>8, <4>2 DEF OtaSend, OtaSendEof, OtaRuns
        <5>2. QED BY <1>2, <4>2, <5>1, Answers
      <4>3. QED BY <4>1, <4>2
    <3> HIDE DEF q
    <3>3. /\ otaQueues'[q].items = Append(otaQueues[q].items, c)
          /\ otaQueues'[q].lives = otaQueues[q].lives
          /\ Len(otaQueues'[q].items) = Len(otaQueues[q].items) + 1
          /\ \A p \in Queues : p # q => otaQueues'[p] = otaQueues[p]
      BY <1>2, <2>2, <3>1, QueueGets
    <3>4. OtaOne'
      BY <1>1, <2>1, <2>3, <3>2 DEF OtaOne, OtaBusy, OtaAlive, Sending, TaskIds
    <3>5. OtaActive'
      <4>1. \A v \in OtaWorkers : otaWorker[v].at # "task" /\ otaWorker'[v].at # "task"
        BY <1>1, <2>1, <3>2 DEF OtaOne, OtaBusy, Sending
      <4>2. ota_active => otaQueues'[ota_queue].lives
        BY <1>1, <1>2, <3>3 DEF OtaActive, Queues
      <4>3. QED BY <1>1, <2>3, <4>1, <4>2 DEF OtaActive, OtaAlive, TaskIds
    <3>6. OtaUses'
      BY <1>1, <2>1, <2>3, <3>1, <3>2
      DEF OtaUses, WorkerUses, TaskUses, StopsEarly, OtaAlive, Reading, Sending, TaskIds
    <3>7. OtaOrder'
      <4> SUFFICES ASSUME NEW t \in TaskIds, OtaAlive(t)
                   PROVE  \E v \in OtaWorkers : Written(v, t)'
        BY <2>3 DEF OtaOrder, OtaAlive, TaskIds
      <4>1. ota_active BY <1>1 DEF OtaActive
      <4>2. q = ota_queue BY <1>1, <2>1, <4>1 DEF OtaUses, WorkerUses, q
      <4>3. PICK v \in OtaWorkers : Written(v, t) BY <1>1 DEF OtaOrder
      <4>4. CASE ~Reading(t)
        BY <2>3, <4>3, <4>4, FaultsGrow DEF Written, Reading
      <4>5. CASE Reading(t)
        <5> DEFINE items == otaQueues[ota_queue].items
                   n == Len(otaTasks[t].image)
        <5>1. otaTasks[t] \in TaskRecord /\ otaQueues[ota_queue] \in QueueRecord
          BY <1>2, <2>2, <4>2, Domains
        <5>2. items \in Seq(OtaItem) /\ n \in Nat BY <5>1 DEF TaskRecord, QueueRecord
        <5>3. /\ OtaFollows(otaFaults, v, n, items) /\ ~Ended(items) /\ v = w
              /\ otaWorker[w].sent = n + Len(items)
              /\ Starts(otaFaults, v, otaTasks[t].image)
          BY <2>1, <4>3, <4>5 DEF Written
        <5>4. c \in Chunks(otaFaults', v, n + Len(items) + 1) \/ c = OtaEof
          BY <3>1, <5>3
        <5> HIDE DEF items, n
        <5>5. /\ OtaFollows(otaFaults', v, n, items)
              /\ Starts(otaFaults', v, otaTasks[t].image)
          BY <2>3, <5>3, FaultsGrow
        <5>6. /\ OtaFollows(otaFaults', v, n, Append(items, c))
              /\ c # OtaEof => ~Ended(Append(items, c))
          BY <5>2, <5>3, <5>5, <5>4, FollowsMore
        <5>7. otaQueues'[ota_queue].items = Append(items, c)
              /\ Len(otaQueues'[ota_queue].items) = Len(items) + 1
          BY <3>3, <4>2 DEF items
        <5>8. \A u \in OtaWorkers : u # w => ~Sending(u)'
          BY <1>1, <2>1, <3>2 DEF OtaOne, OtaBusy, Sending
        <5>9. CASE otaWorker[w].at = "send"
          <6>1. c # OtaEof BY <3>1, <5>9, ChunkIsNoEnd
          <6>2. otaWorker'[w].sent = n + Len(otaQueues'[ota_queue].items)
            BY <3>2, <5>2, <5>3, <5>7, <5>9
          <6>3. Written(v, t)'
            BY <2>3, <4>3, <5>5, <5>3, <5>6, <5>7, <5>8, <6>1, <6>2 DEF Written, n
          <6>4. QED BY <6>3
        <5>10. CASE otaWorker[w].at # "send"
          <6>1. ~Sending(w)' BY <3>2, <5>10 DEF Sending
          <6>2. Written(v, t)'
            BY <2>3, <4>3, <5>5, <5>6, <5>7, <5>8, <6>1 DEF Written, n
          <6>3. QED BY <6>2
        <5>11. QED BY <5>9, <5>10
      <4>6. QED BY <4>4, <4>5
    <3>8. QED BY <3>4, <3>5, <3>6, <3>7 DEF OtaLoneInv
  <2>5. CASE ~Room(q)
    <3>1. UNCHANGED otaQueues /\ (OtaGoes(w, "ko") \/ OtaAnswers(w, "ok"))
      BY <1>8, <2>5 DEF OtaSend, OtaSendEof
    <3>2. /\ \A v \in OtaWorkers : v # w => otaWorker'[v] = otaWorker[v]
          /\ \/ otaWorker'[w].at = "ko" /\ otaWorker'[w].sent = otaWorker[w].sent
             \/ otaWorker'[w].at = "end"
      BY <1>2, <3>1, Goes, Answers
    <3>3. /\ \/ Sending(w)' /\ otaWorker'[w].sent = otaWorker[w].sent
             \/ otaWorker'[w].at = "end"
          /\ WorkerUses(w)'
      BY <3>2 DEF Sending, WorkerUses
    <3>4. QED BY <2>1, <2>3, <3>1, <3>2, <3>3, SenderKeeps
  <2>6. QED BY <2>4, <2>5
<1>9. CASE OtaKo(w)
  <2>1. otaWorker[w].at = "ko" /\ OtaBusy(w) /\ Sending(w)
    BY <1>9 DEF OtaKo, OtaRuns, OtaBusy, Sending
  <2>2. /\ otaWorker'[w].at = "finish" /\ otaWorker'[w].sent = otaWorker[w].sent
        /\ \A v \in OtaWorkers : v # w => otaWorker'[v] = otaWorker[v]
        /\ UNCHANGED <<ota_active, ota_queue, otaQueues, otaTasks, otaFaults>>
    BY <1>2, <1>9, AnswersKo DEF OtaKo
  <2>3. Sending(w)' /\ WorkerUses(w)' BY <2>2 DEF Sending, WorkerUses
  <2>4. QED BY <2>1, <2>2, <2>3, SenderKeeps
<1>10. CASE OtaFinish(w)
  <2>1. otaWorker[w].at = "finish" /\ OtaBusy(w) /\ Sending(w)
    BY <1>10 DEF OtaFinish, OtaRuns, OtaBusy, Sending
  <2>2. UNCHANGED <<ota_active, ota_queue, otaQueues, otaTasks, otaFaults>>
    BY <1>10 DEF OtaFinish
  <2>3. CASE OtaOpen
    <3>1. ota_queue \in Nat BY <1>1, BoundsOf
    <3>2. /\ otaWorker'[w].at = "eof" /\ otaWorker'[w].sent = otaWorker[w].sent
          /\ otaWorker'[w].on = ota_queue
          /\ \A v \in OtaWorkers : v # w => otaWorker'[v] = otaWorker[v]
      BY <1>2, <1>10, <2>3, <3>1, TakesQueue DEF OtaFinish
    <3>3. Sending(w)' /\ WorkerUses(w)'
      BY <2>2, <2>3, <3>2 DEF Sending, WorkerUses, OtaOpen
    <3>4. QED BY <2>1, <2>2, <3>2, <3>3, SenderKeeps
  <2>4. CASE ~OtaOpen
    <3>1. /\ otaWorker'[w].at = "end"
          /\ \A v \in OtaWorkers : v # w => otaWorker'[v] = otaWorker[v]
      BY <1>2, <1>10, <2>4, Answers DEF OtaFinish
    <3>2. WorkerUses(w)' BY <3>1 DEF WorkerUses
    <3>3. QED BY <2>1, <2>2, <3>1, <3>2, SenderKeeps
  <2>5. QED BY <2>3, <2>4
<1>11. QED BY <1>3, <1>4, <1>5, <1>6, <1>7, <1>8, <1>9, <1>10 DEF OtaWorkerStep

(* A task that keeps what it has written and its place in the protocol.    *)
LEMMA TaskKeeps ==
  ASSUME OtaLoneInv, OtaTypeInv', NEW t \in TaskIds, OtaAlive(t), OtaAlive(t)',
         UNCHANGED <<ota_active, ota_queue, otaQueues, otaWorker>>,
         otaFaults \subseteq otaFaults',
         Len(otaTasks') = Len(otaTasks), otaTasks'[t].image = otaTasks[t].image,
         \A s \in TaskIds : s # t => otaTasks'[s] = otaTasks[s],
         Reading(t)' => Reading(t),
         Reading(t) /\ ~Reading(t)' => "flash" \in otaFaults',
         TaskUses(t)'
  PROVE  OtaLoneInv'
<1> USE DEF OtaLoneInv
<1>1. TaskIds' = TaskIds BY DEF TaskIds
<1>2. \A s \in TaskIds : OtaAlive(s)' <=> OtaAlive(s) BY DEF OtaAlive
<1>3. OtaOne' BY <1>1, <1>2 DEF OtaOne, OtaBusy, Sending
<1>4. OtaActive' BY <1>1, <1>2 DEF OtaActive
<1>5. OtaUses'
  <2>1. \A v \in OtaWorkers : WorkerUses(v)' BY DEF OtaUses, WorkerUses
  <2>2. \A s \in TaskIds : TaskUses(s)' BY DEF OtaUses, TaskUses
  <2>3. ASSUME NEW v \in OtaWorkers, NEW s \in TaskIds, StopsEarly(v, s)'
        PROVE  "flash" \in otaFaults'
    <3>1. CASE s = t
      BY <2>3, <3>1 DEF OtaUses, StopsEarly, Sending
    <3>2. CASE s # t
      BY <2>3, <3>2 DEF OtaUses, StopsEarly, Sending, OtaAlive, Reading
    <3>3. QED BY <3>1, <3>2
  <2>4. QED BY <1>1, <2>1, <2>2, <2>3 DEF OtaUses
<1>6. OtaOrder'
  <2>1. ASSUME NEW s \in TaskIds, OtaAlive(s)' PROVE \E v \in OtaWorkers : Written(v, s)'
    <3>1. s = t BY <1>2, <2>1 DEF OtaOne
    <3>2. PICK v \in OtaWorkers : Written(v, t) BY DEF OtaOrder
    <3>3. Written(v, t)' BY <3>2, FaultsGrow DEF Written, Sending
    <3>4. QED BY <3>1, <3>3
  <2>2. QED BY <1>1, <2>1 DEF OtaOrder
<1>7. QED BY <1>3, <1>4, <1>5, <1>6

LEMMA LoneTask ==
  ASSUME OtaLoneInv, OtaTypeInv', NEW t \in TaskIds, OtaTaskStep(t)
  PROVE  OtaLoneInv'
<1>1. OtaTypeInv /\ OtaOne /\ OtaActive /\ OtaUses /\ OtaOrder BY DEF OtaLoneInv
<1>2. /\ OtaStructure /\ ota_queue \in 0..Len(otaQueues) /\ Len(otaQueues) \in Nat
      /\ otaTasks[t] \in TaskRecord
  BY <1>1, BoundsOf, Domains
<1>3. OtaAlive(t)
  BY DEF OtaTaskStep, OtaBegin, OtaLoop, OtaReceive, OtaClose, OtaExit, OtaTaskRuns, OtaAlive
<1>4. /\ ota_active /\ ota_queue \in Queues /\ otaQueues[ota_queue].lives
      /\ \A s \in TaskIds : OtaAlive(s) => s = t
      /\ \A w \in OtaWorkers : OtaBusy(w) => Sending(w)
  BY <1>1, <1>2, <1>3 DEF OtaOne, OtaActive, Queues
<1>5. CASE OtaBegin(t)
  <2>1. /\ otaTasks[t].at = "begin" /\ otaFaults \subseteq otaFaults'
        /\ UNCHANGED <<ota_active, ota_queue, otaQueues, otaWorker>>
        /\ OtaTaskGoes(t, "loop") \/ (OtaTaskGoes(t, "exit") /\ "flash" \in otaFaults')
    BY <1>5 DEF OtaBegin, OtaFails, OtaTaskRuns
  <2>2. /\ Len(otaTasks') = Len(otaTasks)
        /\ otaTasks'[t].at = "loop" \/ (otaTasks'[t].at = "exit" /\ "flash" \in otaFaults')
        /\ otaTasks'[t].image = otaTasks[t].image
        /\ \A s \in TaskIds : s # t => otaTasks'[s] = otaTasks[s]
    BY <1>2, <2>1, TaskMoves
  <2>3. /\ OtaAlive(t)' /\ TaskUses(t)' /\ Reading(t)
        /\ ~Reading(t)' => "flash" \in otaFaults'
    BY <2>1, <2>2 DEF OtaAlive, TaskUses, Reading
  <2>4. QED BY <1>3, <2>1, <2>2, <2>3, TaskKeeps
<1>6. CASE OtaLoop(t)
  <2>1. /\ otaTasks[t].at = "loop"
        /\ UNCHANGED <<ota_active, ota_queue, otaQueues, otaWorker, otaFaults>>
    BY <1>6 DEF OtaLoop, OtaTaskRuns
  <2>2. /\ Len(otaTasks') = Len(otaTasks)
        /\ otaTasks'[t].at = "receive" /\ otaTasks'[t].on = ota_queue
        /\ otaTasks'[t].image = otaTasks[t].image
        /\ \A s \in TaskIds : s # t => otaTasks'[s] = otaTasks[s]
    BY <1>2, <1>6, TaskLooks
  <2>3. OtaAlive(t)' /\ TaskUses(t)' /\ Reading(t) /\ Reading(t)'
    BY <2>1, <2>2 DEF OtaAlive, TaskUses, Reading
  <2>4. QED BY <1>3, <2>1, <2>2, <2>3, TaskKeeps
<1>7. CASE OtaReceive(t)
  <2> DEFINE items == otaQueues[ota_queue].items
             image == otaTasks[t].image
             n == Len(image)
             chunk == Head(items)
  <2>1. /\ otaTasks[t].at = "receive"
        /\ UNCHANGED <<ota_active, ota_queue, otaWorker>>
        /\ otaFaults \subseteq otaFaults'
    BY <1>7 DEF OtaReceive, OtaTaskRuns, OtaFails
  <2>2. otaTasks[t].on = ota_queue BY <1>1, <2>1 DEF OtaUses, TaskUses
  <2>3. /\ items # <<>>
        /\ otaQueues' = [otaQueues EXCEPT ![ota_queue].items = Tail(@)]
        /\ \/ chunk = OtaEof /\ OtaTaskGoes(t, "close")
           \/ /\ chunk # OtaEof
              /\ otaTasks' = [otaTasks EXCEPT ![t].at = "loop",
                                              ![t].image = Append(@, chunk)]
              /\ UNCHANGED otaFaults
           \/ chunk # OtaEof /\ OtaTaskGoes(t, "close") /\ "flash" \in otaFaults'
    BY <1>7, <2>2 DEF OtaReceive, OtaFails
  <2>4. /\ chunk \in OtaItem
        /\ otaQueues'[ota_queue].items = Tail(items)
        /\ Len(otaQueues'[ota_queue].items) = Len(items) - 1
        /\ otaQueues'[ota_queue].lives
    BY <1>2, <1>4, <2>3, QueueGives
  <2>5. PICK w \in OtaWorkers : Written(w, t) BY <1>1, <1>3 DEF OtaOrder
  <2>6. otaQueues[ota_queue] \in QueueRecord BY <1>2, <1>4, Domains
  <2>7. items \in Seq(OtaItem) /\ image \in Seq(OtaItem) /\ n \in Nat
    BY <1>2, <2>6 DEF TaskRecord, QueueRecord
  <2>8. /\ Starts(otaFaults, w, image) /\ OtaFollows(otaFaults, w, n, items)
        /\ Ended(items) => \A v \in OtaWorkers : ~Sending(v)
        /\ \A v \in OtaWorkers : Sending(v) =>
             v = w /\ otaWorker[v].sent = n + Len(items)
    BY <2>1, <2>5 DEF Written, Reading
  <2> HIDE DEF chunk, items, n
  <2>9. chunk = OtaEof => \A v \in OtaWorkers : ~Sending(v)
    BY <2>3, <2>7, <2>8, EndIsAlone DEF chunk
  <2>10. chunk # OtaEof =>
           /\ chunk \in Chunks(otaFaults, w, n + 1)
           /\ OtaFollows(otaFaults, w, n + 1, Tail(items))
           /\ Ended(Tail(items)) => Ended(items)
    BY <2>3, <2>7, <2>8, FollowsLess DEF chunk
  <2>11. /\ Len(otaTasks') = Len(otaTasks) /\ otaTasks'[t].at \in {"loop", "close"}
         /\ \A s \in TaskIds : s # t => otaTasks'[s] = otaTasks[s]
         /\ otaTasks'[t].at = "close" =>
              /\ otaTasks'[t].image = image
              /\ chunk = OtaEof \/ "flash" \in otaFaults'
         /\ otaTasks'[t].at = "loop" =>
              /\ chunk # OtaEof /\ otaTasks'[t].image = Append(image, chunk)
              /\ UNCHANGED otaFaults
    <3>1. CASE OtaTaskGoes(t, "close") /\ (chunk = OtaEof \/ "flash" \in otaFaults')
      BY <1>2, <3>1, TaskMoves
    <3>2. CASE /\ chunk # OtaEof
               /\ otaTasks' = [otaTasks EXCEPT ![t].at = "loop",
                                               ![t].image = Append(@, chunk)]
               /\ UNCHANGED otaFaults
      BY <1>2, <2>4, <3>2, TaskWrites
    <3>3. QED BY <2>3, <3>1, <3>2
  <2>12. TaskIds' = TaskIds /\ \A s \in TaskIds : OtaAlive(s)' <=> s = t
    <3>1. \A s \in TaskIds : s # t => ~OtaAlive(s) BY <1>4
    <3>2. \A s \in TaskIds : s # t => ~OtaAlive(s)' BY <2>11, <3>1 DEF OtaAlive
    <3>3. QED BY <2>11, <3>2 DEF OtaAlive, TaskIds
  <2>13. OtaOne' BY <1>1, <1>4, <2>1, <2>12 DEF OtaOne, OtaBusy, Sending
  <2>14. OtaActive'
    <3>1. \A v \in OtaWorkers : otaWorker[v].at # "task"
      BY <1>4 DEF OtaBusy, Sending
    <3>2. QED BY <1>1, <1>4, <2>1, <2>4, <2>12, <3>1 DEF OtaActive
  <2>15. OtaUses'
    <3>1. \A v \in OtaWorkers : WorkerUses(v)' BY <1>1, <2>1 DEF OtaUses, WorkerUses
    <3>2. \A s \in TaskIds : TaskUses(s)' BY <1>1, <2>1, <2>11 DEF OtaUses, TaskUses
    <3>3. ASSUME NEW v \in OtaWorkers, NEW s \in TaskIds, StopsEarly(v, s)'
          PROVE  "flash" \in otaFaults'
      <4>1. s = t /\ Sending(v) /\ otaTasks'[t].at # "loop"
        BY <2>1, <2>12, <3>3 DEF StopsEarly, Sending, Reading
      <4>2. QED BY <2>9, <2>11, <4>1
    <3>4. QED BY <2>12, <3>1, <3>2, <3>3 DEF OtaUses
  <2>16. Written(w, t)'
    <3>1. CASE otaTasks'[t].at = "close" 
      BY <2>1, <2>8, <2>11, <3>1, FaultsGrow DEF Written, Reading
    <3>2. CASE otaTasks'[t].at = "loop"
      <4>1. chunk \in Chunks(otaFaults, w, Len(image) + 1) BY <2>10, <2>11, <3>2 DEF n
      <4>2. Starts(otaFaults, w, Append(image, chunk))
        BY <2>4, <2>7, <2>8, <4>1, StartsMore
      <4>3. Len(Append(image, chunk)) = n + 1 BY <2>4, <2>7 DEF n
      <4>4. n + Len(items) = n + 1 + (Len(items) - 1) BY <2>7
      <4>5. otaTasks'[t].image = Append(image, chunk) BY <2>11, <3>2
      <4>6. \A v \in OtaWorkers : Sending(v)' <=> Sending(v) BY <2>1 DEF Sending
      <4> HIDE DEF image
      <4>7. QED
        BY <2>1, <2>4, <2>8, <2>10, <2>11, <3>2, <4>2, <4>3, <4>4, <4>5, <4>6
        DEF Written
    <3>3. QED BY <2>11, <3>1, <3>2
  <2>17. OtaOrder' BY <2>12, <2>16 DEF OtaOrder
  <2>18. QED BY <2>13, <2>14, <2>15, <2>17 DEF OtaLoneInv
<1>8. CASE OtaClose(t)
  <2>1. /\ otaTasks[t].at = "close"
        /\ UNCHANGED <<ota_active, ota_queue, otaQueues, otaWorker, otaFaults>>
        /\ OtaTaskGoes(t, IF OtaValid(otaTasks[t].image) THEN "restart" ELSE "exit")
    BY <1>8 DEF OtaClose, OtaTaskRuns
  <2>2. PICK at \in {"restart", "exit"} : OtaTaskGoes(t, at) BY <2>1
  <2>3. /\ Len(otaTasks') = Len(otaTasks) /\ otaTasks'[t].at = at
        /\ otaTasks'[t].image = otaTasks[t].image
        /\ \A s \in TaskIds : s # t => otaTasks'[s] = otaTasks[s]
    BY <1>2, <2>2, TaskMoves
  <2>4. OtaAlive(t)' /\ TaskUses(t)' /\ ~Reading(t) /\ ~Reading(t)'
    BY <2>1, <2>3 DEF OtaAlive, TaskUses, Reading
  <2>5. QED BY <1>3, <2>1, <2>3, <2>4, TaskKeeps
<1>9. CASE OtaExit(t)
  <2>1. /\ otaTasks[t].at = "exit" /\ OtaTaskGoes(t, "deleted")
        /\ ota_queue' = 0 /\ ota_active' = FALSE
        /\ UNCHANGED <<otaWorker, otaFaults>>
    BY <1>9 DEF OtaExit, OtaTaskRuns
  <2>2. /\ Len(otaTasks') = Len(otaTasks) /\ otaTasks'[t].at = "deleted"
        /\ \A s \in TaskIds : s # t => otaTasks'[s] = otaTasks[s]
    BY <1>2, <2>1, TaskMoves
  <2>3. TaskIds' = TaskIds /\ \A s \in TaskIds : ~OtaAlive(s)'
    <3>1. \A s \in TaskIds : s # t => ~OtaAlive(s) BY <1>4
    <3>2. QED BY <2>2, <3>1 DEF OtaAlive, TaskIds
  <2>4. \A v \in OtaWorkers : otaWorker[v].at # "task" BY <1>4 DEF OtaBusy, Sending
  <2>5. OtaOne' BY <1>1, <2>1, <2>3 DEF OtaOne, OtaBusy
  <2>6. OtaActive' BY <2>1, <2>3, <2>4 DEF OtaActive
  <2>7. OtaUses'
    <3>1. ASSUME NEW v \in OtaWorkers, otaWorker[v].at \in {"send", "eof"}
          PROVE  "flash" \in otaFaults
      <4>1. StopsEarly(v, t)
        BY <1>3, <2>1, <3>1 DEF StopsEarly, Sending, Reading
      <4>2. QED BY <1>1, <4>1 DEF OtaUses
    <3>2. \A v \in OtaWorkers : WorkerUses(v)' BY <2>1, <3>1 DEF WorkerUses
    <3>3. \A s \in TaskIds : TaskUses(s)'
      <4>1. \A s \in TaskIds : otaTasks'[s].at = "deleted" BY <2>3 DEF OtaAlive
      <4>2. QED BY <4>1 DEF TaskUses
    <3>4. QED BY <2>3, <3>2, <3>3 DEF OtaUses, StopsEarly
  <2>8. OtaOrder' BY <2>3 DEF OtaOrder
  <2>9. QED BY <2>5, <2>6, <2>7, <2>8 DEF OtaLoneInv
<1>10. QED BY <1>5, <1>6, <1>7, <1>8, <1>9 DEF OtaTaskStep

(* Uploads that have met stay known, and without that all the above holds. *)
LEMMA FaultsStay == OtaNext => otaFaults \subseteq otaFaults'
  BY DEF OtaNext, OtaUpload, OtaWorkerStep, OtaTest, OtaCreate, OtaCreateTask, OtaRead,
         OtaSend, OtaKo, OtaFinish, OtaSendEof, OtaTaskStep, OtaBegin, OtaLoop,
         OtaReceive, OtaClose, OtaExit, OtaFails

OtaMetInv == OtaTypeInv /\ ("met" \notin otaFaults => OtaLoneInv)

LEMMA MetNext == OtaMetInv /\ [OtaNext]_otaVars => OtaMetInv'
<1> SUFFICES ASSUME OtaMetInv, [OtaNext]_otaVars PROVE OtaMetInv' OBVIOUS
<1>1. OtaTypeInv' BY TypeNext DEF OtaMetInv
<1>2. CASE UNCHANGED otaVars
  <2> SUFFICES ASSUME OtaLoneInv, "met" \notin otaFaults PROVE OtaLoneInv'
    BY <1>1, <1>2 DEF OtaMetInv, otaVars
  <2> USE <1>2 DEF otaVars, TaskIds, OtaAlive, OtaBusy, Sending, Reading
  <2>1. OtaOne' BY DEF OtaLoneInv, OtaOne
  <2>2. OtaActive' BY DEF OtaLoneInv, OtaActive
  <2>3. OtaUses' BY DEF OtaLoneInv, OtaUses, WorkerUses, TaskUses, StopsEarly
  <2>4. OtaOrder'
    <3>1. ASSUME NEW v, NEW t PROVE Written(v, t)' = Written(v, t) BY DEF Written
    <3>2. QED BY <3>1 DEF OtaLoneInv, OtaOrder
  <2>5. QED BY <1>1, <2>1, <2>2, <2>3, <2>4 DEF OtaLoneInv
<1>3. CASE OtaNext
  <2> SUFFICES ASSUME "met" \notin otaFaults' PROVE OtaLoneInv' BY <1>1 DEF OtaMetInv
  <2>1. OtaLoneInv BY <1>3, FaultsStay DEF OtaMetInv
  <2>2. DOMAIN otaTasks = TaskIds BY Domains DEF OtaMetInv, OtaTypeInv
  <2>3. QED BY <1>1, <1>3, <2>1, <2>2, LoneWorker, LoneTask DEF OtaNext
<1>4. QED BY <1>2, <1>3

-----------------------------------------------------------------------------
(* However uploads meet: as long as no two have both found none active,    *)
(* one of them at most is about to have a task, and then there is none     *)
(* yet; and a task has the queue in use, which lives.                      *)
Preparing(w) == otaWorker[w].at \in {"disconnect", "task"}
OtaHasQueue == ota_active /\ ota_queue \in Queues /\ otaQueues[ota_queue].lives

OtaSingle ==
  /\ \A v, w \in OtaWorkers : Preparing(v) /\ Preparing(w) => v = w
  /\ \A s, t \in TaskIds : OtaAlive(s) /\ OtaAlive(t) => s = t
  /\ \A w \in OtaWorkers, t \in TaskIds : ~(Preparing(w) /\ OtaAlive(t))
  /\ \A t \in TaskIds : OtaAlive(t) => OtaHasQueue
  /\ \A w \in OtaWorkers : otaWorker[w].at = "task" => OtaHasQueue
  /\ \A t \in TaskIds : TaskUses(t)

OtaSingleInv == OtaTypeInv /\ ("race" \notin otaFaults => OtaSingle)

(* A worker that goes on with its upload, or is refused one.               *)
LEMMA SingleGoesOn ==
  ASSUME OtaSingle, OtaTypeInv, NEW w \in OtaWorkers, ~Preparing(w)',
         \A v \in OtaWorkers : v # w => otaWorker'[v] = otaWorker[v],
         UNCHANGED <<ota_active, ota_queue, otaTasks>>,
         Len(otaQueues') = Len(otaQueues),
         \A q \in Queues : otaQueues'[q].lives = otaQueues[q].lives
  PROVE  OtaSingle'
<1>1. TaskIds' = TaskIds /\ Queues' = Queues BY DEF TaskIds, Queues
<1>2. OtaHasQueue' <=> OtaHasQueue BY <1>1 DEF OtaHasQueue
<1>3. \A t \in TaskIds : (OtaAlive(t)' <=> OtaAlive(t)) /\ (TaskUses(t)' <=> TaskUses(t))
  BY DEF OtaAlive, TaskUses
<1>4. \A v \in OtaWorkers : Preparing(v)' => Preparing(v) /\ v # w
  BY DEF Preparing
<1>5. \A v \in OtaWorkers : otaWorker'[v].at = "task" => otaWorker[v].at = "task"
  BY DEF Preparing
<1>6. QED BY <1>1, <1>2, <1>3, <1>4, <1>5 DEF OtaSingle

LEMMA SingleWorker ==
  ASSUME OtaSingle, OtaTypeInv, NEW w \in OtaWorkers, "race" \notin otaFaults',
         OtaUpload(w) \/ OtaWorkerStep(w)
  PROVE  OtaSingle'
<1>1. /\ OtaStructure /\ ota_queue \in 0..Len(otaQueues) /\ Len(otaQueues) \in Nat
      /\ Len(otaTasks) \in Nat /\ WorkerFits(w) /\ ota_queue \in Nat
  BY BoundsOf
<1>2. CASE OtaUpload(w)
  <2>1. OtaGoes(w, "test") /\ UNCHANGED <<ota_active, ota_queue, otaQueues, otaTasks>>
    BY <1>2 DEF OtaUpload
  <2>2. QED BY <1>1, <2>1, Goes, SingleGoesOn DEF Preparing
<1>3. CASE OtaTest(w)
  <2>1. /\ otaWorker[w].at = "test"
        /\ UNCHANGED <<ota_active, ota_queue, otaQueues, otaTasks>>
    BY <1>3 DEF OtaTest, OtaRuns
  <2>2. CASE OtaGoes(w, "read") BY <1>1, <2>1, <2>2, Goes, SingleGoesOn DEF Preparing
  <2>3. CASE /\ ~ota_active /\ OtaGoes(w, "disconnect")
             /\ \A v \in OtaWorkers : otaWorker[v].at # "disconnect"
    <3>1. \A v \in OtaWorkers : ~Preparing(v)
      BY <2>3 DEF OtaSingle, OtaHasQueue, Preparing
    <3>2. \A t \in TaskIds : ~OtaAlive(t) BY <2>3 DEF OtaSingle, OtaHasQueue
    <3>3. /\ otaWorker'[w].at = "disconnect"
          /\ \A v \in OtaWorkers : v # w => otaWorker'[v] = otaWorker[v]
      BY <1>1, <2>3, Goes
    <3>4. \A v \in OtaWorkers : Preparing(v)' => v = w BY <3>1, <3>3 DEF Preparing
    <3>5. /\ TaskIds' = TaskIds
          /\ \A t \in TaskIds : ~OtaAlive(t)' /\ (TaskUses(t)' <=> TaskUses(t))
      BY <2>1, <3>2 DEF TaskIds, OtaAlive, TaskUses
    <3>6. \A v \in OtaWorkers : otaWorker'[v].at # "task"
      BY <3>1, <3>3 DEF Preparing
    <3>7. QED BY <3>4, <3>5, <3>6 DEF OtaSingle
  <2>4. QED BY <1>3, <2>2, <2>3 DEF OtaTest, OtaFails
<1>4. CASE OtaCreate(w)
  <2>1. otaWorker[w].at = "disconnect" /\ UNCHANGED otaTasks
    BY <1>4 DEF OtaCreate, OtaRuns
  <2>2. /\ \A t \in TaskIds : ~OtaAlive(t)
        /\ \A v \in OtaWorkers : v # w => ~Preparing(v)
    BY <2>1 DEF OtaSingle, Preparing
  <2>3. /\ TaskIds' = TaskIds
        /\ \A t \in TaskIds : ~OtaAlive(t)' /\ TaskUses(t)'
    BY <2>1, <2>2 DEF TaskIds, OtaAlive, TaskUses
  <2>4. CASE /\ otaQueues' = Append(otaQueues, [items |-> <<>>, lives |-> TRUE])
             /\ ota_queue' = Len(otaQueues) + 1
             /\ ota_active' = TRUE
             /\ OtaGoes(w, "task")
    <3>1. OtaHasQueue'
      <4>1. otaQueues \in Seq(QueueRecord) BY <1>1 DEF OtaStructure
      <4>2. /\ Len(otaQueues') = Len(otaQueues) + 1
            /\ otaQueues'[Len(otaQueues) + 1] = [items |-> <<>>, lives |-> TRUE]
        BY <2>4, <4>1
      <4>3. QED BY <1>1, <2>4, <4>2 DEF OtaHasQueue, Queues
    <3>2. \A v \in OtaWorkers : Preparing(v)' => v = w
      BY <1>1, <2>2, <2>4, Goes DEF Preparing
    <3>3. QED BY <2>3, <3>1, <3>2 DEF OtaSingle
  <2>5. CASE OtaGoes(w, "read")
    <3>1. \A v \in OtaWorkers : ~Preparing(v)' /\ otaWorker'[v].at # "task"
      BY <1>1, <2>2, <2>5, Goes DEF Preparing
    <3>2. QED BY <2>3, <3>1 DEF OtaSingle
  <2>6. QED BY <1>4, <2>4, <2>5 DEF OtaCreate
<1>5. CASE OtaCreateTask(w)
  <2>1. otaWorker[w].at = "task" /\ OtaGoes(w, "read")
    BY <1>5 DEF OtaCreateTask, OtaRuns
  <2>2. /\ OtaHasQueue
        /\ \A t \in TaskIds : ~OtaAlive(t)
        /\ \A v \in OtaWorkers : v # w => ~Preparing(v)
    BY <2>1 DEF OtaSingle, Preparing
  <2>3. \A v \in OtaWorkers : ~Preparing(v)' /\ otaWorker'[v].at # "task"
    BY <1>1, <2>1, <2>2, Goes DEF Preparing
  <2>4. CASE /\ otaTasks' = Append(otaTasks, [at |-> "begin", on |-> 0, image |-> <<>>])
             /\ UNCHANGED <<ota_active, ota_queue, otaQueues, otaFaults>>
    <3>1. PICK new \in Nat : new = Len(otaTasks) + 1 BY <1>1
    <3>2. /\ TaskIds' = TaskIds \cup {new} /\ new \notin TaskIds
          /\ \A t \in TaskIds : otaTasks'[t] = otaTasks[t]
          /\ otaTasks'[new] = [at |-> "begin", on |-> 0, image |-> <<>>]
      BY <1>1, <2>4, <3>1 DEF OtaStructure, TaskIds
    <3>3. \A t \in TaskIds' : OtaAlive(t)' => t = new BY <2>2, <3>2 DEF OtaAlive
    <3>4. \A t \in TaskIds' : TaskUses(t)'
      BY <2>2, <3>2 DEF TaskUses, OtaAlive
    <3>5. OtaHasQueue' BY <2>2, <2>4 DEF OtaHasQueue, Queues
    <3>6. QED BY <2>3, <3>3, <3>4, <3>5 DEF OtaSingle
  <2>5. CASE UNCHANGED otaTasks
    <3>1. /\ TaskIds' = TaskIds
          /\ \A t \in TaskIds : ~OtaAlive(t)' /\ TaskUses(t)'
      BY <2>2, <2>5 DEF TaskIds, OtaAlive, TaskUses
    <3>2. QED BY <2>3, <3>1 DEF OtaSingle
  <2>6. QED BY <1>5, <2>4, <2>5 DEF OtaCreateTask
<1>6. CASE OtaRead(w) \/ OtaKo(w) \/ OtaFinish(w)
  <2>1. UNCHANGED <<ota_active, ota_queue, otaQueues, otaTasks>>
    BY <1>6 DEF OtaRead, OtaKo, OtaFinish
  <2>2. /\ ~Preparing(w)'
        /\ \A v \in OtaWorkers : v # w => otaWorker'[v] = otaWorker[v]
    <3>1. CASE OtaRead(w)
      <4>1. \/ otaWorker' = [otaWorker EXCEPT ![w].at = "send", ![w].on = ota_queue]
            \/ OtaGoes(w, "ko") \/ OtaGoes(w, "finish")
        BY <3>1 DEF OtaRead, OtaGoes
      <4>2. CASE OtaGoes(w, "ko") \/ OtaGoes(w, "finish")
          BY <1>1, <4>2, Goes DEF Preparing
        <4>3. CASE otaWorker' = [otaWorker EXCEPT ![w].at = "send", ![w].on = ota_queue]
          BY <1>1, <4>3, TakesQueue DEF Preparing
        <4>4. QED BY <4>1, <4>2, <4>3
    <3>2. CASE OtaKo(w) BY <1>1, <3>2, AnswersKo DEF Preparing
    <3>3. CASE OtaFinish(w)
      <4>1. \/ otaWorker' = [otaWorker EXCEPT ![w].at = "eof", ![w].on = ota_queue]
            \/ OtaAnswers(w, "ko")
        BY <3>3 DEF OtaFinish
      <4>2. CASE OtaAnswers(w, "ko") BY <1>1, <4>2, Answers DEF Preparing
        <4>3. CASE otaWorker' = [otaWorker EXCEPT ![w].at = "eof", ![w].on = ota_queue]
          BY <1>1, <4>3, TakesQueue DEF Preparing
        <4>4. QED BY <4>1, <4>2, <4>3
    <3>4. QED BY <1>6, <3>1, <3>2, <3>3
  <2>3. QED BY <2>1, <2>2, SingleGoesOn
<1>7. CASE OtaSend(w) \/ OtaSendEof(w)
  <2> DEFINE q == otaWorker[w].on
  <2>1. otaWorker[w].at \in {"send", "eof"} BY <1>7 DEF OtaSend, OtaSendEof, OtaRuns
  <2>2. q \in Queues BY <1>1, <2>1 DEF WorkerFits
  <2>3. UNCHANGED <<ota_active, ota_queue, otaTasks>> BY <1>7 DEF OtaSend, OtaSendEof
  <2>4. /\ ~Preparing(w)'
        /\ \A v \in OtaWorkers : v # w => otaWorker'[v] = otaWorker[v]
    <3>1. CASE OtaSend(w)
      <4>1. otaWorker[w].sent < OtaLength
        BY <1>1, <3>1 DEF OtaSend, OtaRuns, WorkerFits
      <4>2. \/ otaWorker' = [otaWorker EXCEPT ![w].at = "read",
                                              ![w].sent = otaWorker[w].sent + 1]
            \/ OtaGoes(w, "ko")
        BY <3>1 DEF OtaSend
      <4>3. QED BY <1>1, <4>1, <4>2, Goes, Sends DEF Preparing
    <3>2. CASE OtaSendEof(w)
      <4>1. OtaAnswers(w, "ok") BY <3>2 DEF OtaSendEof
      <4>2. QED BY <1>1, <4>1, Answers DEF Preparing
    <3>3. QED BY <1>7, <3>1, <3>2
  <2>5. CASE UNCHANGED otaQueues BY <2>3, <2>4, <2>5, SingleGoesOn
  <2>6. CASE \E c : otaQueues' = [otaQueues EXCEPT ![q].items = Append(@, c)]
    <3>1. /\ Len(otaQueues') = Len(otaQueues)
          /\ \A p \in Queues : otaQueues'[p].lives = otaQueues[p].lives
      <4>1. PICK c : otaQueues' = [otaQueues EXCEPT ![q].items = Append(@, c)] BY <2>6
      <4>2. otaQueues \in Seq(QueueRecord) /\ DOMAIN otaQueues = Queues
        BY <1>1, Domains DEF OtaStructure
      <4> HIDE DEF q
      <4>3. \A p \in Queues : otaQueues[p] \in QueueRecord BY <1>1, Domains
      <4>4. Len(otaQueues') = Len(otaQueues) BY <4>1, <4>2
      <4>5. \A p \in Queues : p # q => otaQueues'[p] = otaQueues[p] BY <4>1, <4>2
      <4>6. otaQueues'[q].lives = otaQueues[q].lives
        BY <2>2, <4>1, <4>2, <4>3 DEF QueueRecord
      <4>7. QED BY <4>4, <4>5, <4>6
    <3>2. QED BY <2>3, <2>4, <3>1, SingleGoesOn
  <2>7. QED
    <3>1. CASE OtaSend(w) BY <2>5, <2>6, <3>1 DEF OtaSend
    <3>2. CASE OtaSendEof(w) BY <2>5, <2>6, <3>2 DEF OtaSendEof
    <3>3. QED BY <1>7, <3>1, <3>2
<1>8. QED BY <1>2, <1>3, <1>4, <1>5, <1>6, <1>7 DEF OtaWorkerStep

(* A task that goes on.                                                    *)
LEMMA SingleTaskGoesOn ==
  ASSUME OtaSingle, NEW t \in TaskIds, OtaAlive(t), TaskUses(t)',
         Len(otaTasks') = Len(otaTasks),
         \A s \in TaskIds : s # t => otaTasks'[s] = otaTasks[s],
         UNCHANGED <<ota_active, ota_queue, otaWorker>>,
         Len(otaQueues') = Len(otaQueues),
         \A q \in Queues : otaQueues'[q].lives = otaQueues[q].lives
  PROVE  OtaSingle'
<1>1. TaskIds' = TaskIds /\ Queues' = Queues BY DEF TaskIds, Queues
<1>2. OtaHasQueue' <=> OtaHasQueue BY <1>1 DEF OtaHasQueue
<1>3. \A s \in TaskIds : OtaAlive(s)' => OtaAlive(s) BY DEF OtaAlive
<1>4. \A s \in TaskIds : TaskUses(s)' BY DEF OtaSingle, TaskUses
<1>5. \A w \in OtaWorkers : Preparing(w)' <=> Preparing(w) BY DEF Preparing
<1>6. QED BY <1>1, <1>2, <1>3, <1>4, <1>5 DEF OtaSingle

LEMMA SingleTask ==
  ASSUME OtaSingle, OtaTypeInv, NEW t \in TaskIds, OtaTaskStep(t)
  PROVE  OtaSingle'
<1>1. /\ OtaStructure /\ ota_queue \in 0..Len(otaQueues) /\ Len(otaQueues) \in Nat
      /\ \A s \in TaskIds : otaTasks[s].on \in 0..Len(otaQueues)
  BY BoundsOf
<1>2. OtaAlive(t)
  BY DEF OtaTaskStep, OtaBegin, OtaLoop, OtaReceive, OtaClose, OtaExit, OtaTaskRuns, OtaAlive
<1>3. CASE OtaBegin(t) \/ OtaClose(t)
  <2>1. PICK at \in {"loop", "restart", "exit"} : OtaTaskGoes(t, at)
    BY <1>3 DEF OtaBegin, OtaClose
  <2>2. UNCHANGED <<ota_active, ota_queue, otaQueues, otaWorker>>
    BY <1>3 DEF OtaBegin, OtaClose
  <2>3. /\ Len(otaTasks') = Len(otaTasks) /\ otaTasks'[t].at = at
        /\ \A s \in TaskIds : s # t => otaTasks'[s] = otaTasks[s]
    BY <1>1, <2>1, TaskMoves
  <2>4. TaskUses(t)' BY <2>3 DEF TaskUses
  <2>5. QED BY <1>2, <2>2, <2>3, <2>4, SingleTaskGoesOn
<1>4. CASE OtaLoop(t)
  <2>1. UNCHANGED <<ota_active, ota_queue, otaQueues, otaWorker>> BY <1>4 DEF OtaLoop
  <2>2. /\ Len(otaTasks') = Len(otaTasks) /\ otaTasks'[t].on = ota_queue
        /\ \A s \in TaskIds : s # t => otaTasks'[s] = otaTasks[s]
    BY <1>1, <1>4, TaskLooks
  <2>3. TaskUses(t)' BY <2>1, <2>2 DEF TaskUses
  <2>4. QED BY <1>2, <2>1, <2>2, <2>3, SingleTaskGoesOn
<1>5. CASE OtaReceive(t)
  <2> DEFINE q == otaTasks[t].on
             chunk == Head(otaQueues[q].items)
  <2>1. q \in Queues /\ otaQueues[q].items # <<>> BY <1>1, <1>5 DEF OtaReceive, Queues
  <2>2. /\ otaQueues' = [otaQueues EXCEPT ![q].items = Tail(@)]
        /\ UNCHANGED <<ota_active, ota_queue, otaWorker>>
        /\ \/ OtaTaskGoes(t, "close")
           \/ otaTasks' = [otaTasks EXCEPT ![t].at = "loop", ![t].image = Append(@, chunk)]
    BY <1>5 DEF OtaReceive
  <2> HIDE DEF q
  <2>3. /\ Len(otaQueues') = Len(otaQueues) /\ chunk \in OtaItem
        /\ \A p \in Queues : otaQueues'[p].lives = otaQueues[p].lives
    BY <1>1, <2>1, <2>2, QueueGives
  <2> HIDE DEF chunk
  <2>4. /\ Len(otaTasks') = Len(otaTasks) /\ otaTasks'[t].at # "receive"
        /\ \A s \in TaskIds : s # t => otaTasks'[s] = otaTasks[s]
    BY <1>1, <2>2, <2>3, TaskMoves, TaskWrites
  <2>5. TaskUses(t)' BY <2>4 DEF TaskUses
  <2>6. QED BY <1>2, <2>2, <2>3, <2>4, <2>5, SingleTaskGoesOn
<1>6. CASE OtaExit(t)
  <2>1. OtaTaskGoes(t, "deleted") /\ UNCHANGED otaWorker BY <1>6 DEF OtaExit
  <2>2. /\ Len(otaTasks') = Len(otaTasks) /\ otaTasks'[t].at = "deleted"
        /\ \A s \in TaskIds : s # t => otaTasks'[s] = otaTasks[s]
    BY <1>1, <2>1, TaskMoves
  <2>3. TaskIds' = TaskIds /\ \A s \in TaskIds : ~OtaAlive(s)' /\ TaskUses(s)'
    <3>1. \A s \in TaskIds : s # t => ~OtaAlive(s) BY <1>2 DEF OtaSingle
    <3>2. QED BY <2>2, <3>1 DEF OtaAlive, TaskIds, TaskUses
  <2>4. \A w \in OtaWorkers : ~Preparing(w) BY <1>2 DEF OtaSingle
  <2>5. \A w \in OtaWorkers : ~Preparing(w)' /\ otaWorker'[w].at # "task"
    BY <2>1, <2>4 DEF Preparing
  <2>6. QED BY <2>3, <2>5 DEF OtaSingle
<1>7. QED BY <1>3, <1>4, <1>5, <1>6 DEF OtaTaskStep

LEMMA SingleNext == OtaSingleInv /\ [OtaNext]_otaVars => OtaSingleInv'
<1> SUFFICES ASSUME OtaSingleInv, [OtaNext]_otaVars PROVE OtaSingleInv' OBVIOUS
<1>1. OtaTypeInv /\ OtaTypeInv' BY TypeNext DEF OtaSingleInv
<1>2. CASE UNCHANGED otaVars
  <2> SUFFICES ASSUME OtaSingle PROVE OtaSingle'
    BY <1>1, <1>2 DEF OtaSingleInv, otaVars
  <2>1. QED
    BY <1>2 DEF otaVars, OtaSingle, Preparing, OtaAlive, OtaHasQueue, TaskUses, TaskIds,
                Queues
<1>3. CASE OtaNext
  <2> SUFFICES ASSUME "race" \notin otaFaults' PROVE OtaSingle' BY <1>1 DEF OtaSingleInv
  <2>1. OtaSingle BY <1>3, FaultsStay DEF OtaSingleInv
  <2>2. DOMAIN otaTasks = TaskIds BY <1>1, Domains DEF OtaTypeInv
  <2>3. QED BY <1>1, <1>3, <2>1, <2>2, SingleWorker, SingleTask DEF OtaNext
<1>4. QED BY <1>2, <1>3

OtaInv == OtaMetInv /\ OtaSingleInv

LEMMA OtaInvInit == OtaInit => OtaInv
<1> SUFFICES ASSUME OtaInit PROVE OtaInv OBVIOUS
<1>1. OtaMetInv BY TypeInit, LoneInit DEF OtaMetInv
<1>2. OtaSingle BY DEF OtaInit, OtaSingle, Preparing, TaskIds
<1>3. QED BY <1>1, <1>2, TypeInit DEF OtaInv, OtaSingleInv

LEMMA OtaInvNext == OtaInv /\ [OtaNext]_otaVars => OtaInv'
  BY MetNext, SingleNext DEF OtaInv

LEMMA OtaInvHolds == OtaSpec => []OtaInv
<1>1. QED BY OtaInvInit, OtaInvNext, PTL DEF OtaSpec

(* What the invariant says of the image, ...                               *)
LEMMA InOrder ==
  ASSUME OtaLoneInv, NEW t \in TaskIds, OtaAlive(t) PROVE OtaInOrder(t)
<1>1. PICK w \in OtaWorkers : Written(w, t) BY DEF OtaLoneInv, OtaOrder
<1> DEFINE image == otaTasks[t].image
           items == otaQueues[ota_queue].items
           whole == image \o OtaQueued(t)
<1>2. ota_queue \in Queues /\ OtaStructure
  BY BoundsOf DEF OtaLoneInv, OtaActive, Queues
<1>3. otaTasks[t] \in TaskRecord /\ otaQueues[ota_queue] \in QueueRecord
  BY <1>2, Domains
<1>4. image \in Seq(OtaItem) /\ items \in Seq(OtaItem)
  BY <1>3 DEF TaskRecord, QueueRecord
<1>5. Starts(otaFaults, w, image) BY <1>1 DEF Written
<1>6. Starts(otaFaults, w, whole)
  <2>1. CASE Reading(t)
    <3> DEFINE queued == OtaQueued(t)
    <3>1. queued = IF items # <<>> /\ Last(items) = OtaEof THEN Front(items) ELSE items
      BY <1>2, <2>1 DEF OtaQueued, Reading, Queues
    <3>2. OtaFollows(otaFaults, w, Len(image), items) BY <1>1, <2>1 DEF Written
    <3> HIDE DEF image, items, queued
    <3>3. Starts(otaFaults, w, image \o queued)
      BY <1>4, <1>5, <3>1, <3>2, StartsAndFollows
    <3>4. QED BY <3>3 DEF queued
  <2>2. CASE ~Reading(t)
    <3>1. OtaQueued(t) = <<>> BY <2>2 DEF OtaQueued, Reading
    <3> HIDE DEF image
    <3>2. whole = image BY <1>4, <3>1
    <3>3. QED BY <1>5, <3>2
  <2>3. QED BY <2>1, <2>2
<1> HIDE DEF whole
<1>7. \A i \in 1..Len(whole) :
        whole[i] = <<w, i>> \/ ("cut" \in otaFaults /\ i = 1 /\ whole[i] = <<w, 0>>)
  BY <1>6 DEF Starts, Chunks
<1>8. QED BY <1>7 DEF OtaInOrder, whole

LEMMA InvImage == OtaInv => OtaImage
<1> SUFFICES ASSUME OtaInv PROVE OtaImage OBVIOUS
<1>1. DOMAIN otaTasks = TaskIds BY Domains DEF OtaInv, OtaMetInv, OtaTypeInv
<1>2. "race" \notin otaFaults => OtaOneTask
  BY <1>1 DEF OtaInv, OtaSingleInv, OtaSingle, OtaOneTask
<1>3. "met" \notin otaFaults => \A t \in TaskIds : OtaAlive(t) => OtaInOrder(t)
  BY InOrder DEF OtaInv, OtaMetInv
<1>4. QED BY <1>1, <1>2, <1>3 DEF OtaImage

(* There is one ota_task, unless two uploads both found none active; and   *)
(* it writes, with what is queued behind it, what one worker has read from *)
(* its connection, from the first chunk on and without a gap, but for the  *)
(* rest of a first chunk that was cut, unless uploads have met: however    *)
(* many workers take uploads and whatever fails in them, ota_task and      *)
(* ota_update_from_socket_write.                                           *)
THEOREM OtaImageHolds == OtaSpec => []OtaImage
<1>1. QED BY InvImage, OtaInvHolds, PTL

(* ... and of the queues.                                                  *)
LEMMA InvQueueLives == OtaInv => OtaQueueLives
<1> SUFFICES ASSUME OtaInv PROVE OtaQueueLives OBVIOUS
<1>1. DOMAIN otaTasks = TaskIds BY Domains DEF OtaInv, OtaMetInv, OtaTypeInv
<1>2. ASSUME "race" \notin otaFaults, NEW t \in TaskIds, otaTasks[t].at = "receive"
      PROVE  otaTasks[t].on # 0 /\ otaQueues[otaTasks[t].on].lives
  <2>1. OtaHasQueue /\ otaTasks[t].on = ota_queue
    BY <1>2 DEF OtaInv, OtaSingleInv, OtaSingle, OtaAlive, TaskUses
  <2>2. QED BY <2>1 DEF OtaHasQueue, Queues
<1>3. ASSUME otaFaults \cap {"flash", "met"} = {}, NEW w \in OtaWorkers,
             otaWorker[w].at \in {"send", "eof"}
      PROVE  otaQueues[otaWorker[w].on].lives
  <2>1. OtaLoneInv /\ "flash" \notin otaFaults BY <1>3 DEF OtaInv, OtaMetInv
  <2>2. QED BY <1>3, <2>1 DEF OtaLoneInv, OtaUses, WorkerUses, OtaActive
<1>4. QED BY <1>1, <1>2, <1>3 DEF OtaQueueLives

(* The task never waits for a queue that has been deleted, however uploads *)
(* overlap, unless two of them both found none active; and no worker sends *)
(* to one, as long as the flash takes what is written and uploads do not   *)
(* meet: the vQueueDelete of ota_task and of ota_update_from_socket_start. *)
THEOREM OtaQueueLivesHolds == OtaSpec => []OtaQueueLives
<1>1. QED BY InvQueueLives, OtaInvHolds, PTL
=============================================================================
