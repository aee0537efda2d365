-------------------------------- MODULE Servers --------------------------------
(***************************************************************************)
(* The web server: serversTask (servers.c) selects among its port and the  *)
(* websockets, accepts, and hands each connection to a worker,             *)
(* serverclientTask (webserver.c), of which semclient lets SrvWorkers live *)
(* at a time.  A worker answers and closes the connection, or registers it *)
(* in webserverclients (websocket.c), where the server task finds it when  *)
(* it builds the set to select from the next time.                         *)
(*                                                                         *)
(* serversTask and the workers use webserverclients without a lock.  An    *)
(* action is a call that may wait, or what a task does between two: the    *)
(* server task itself waits for the rest of a frame that came in part, and *)
(* nothing but the rest ends that wait.                                    *)
(***************************************************************************)
EXTENDS Integers, FiniteSets

CONSTANTS
  SrvConns,   \* the connections clients make
  SrvNone,    \* -1
  SrvWorkers, \* 4, the workers at a time
  SrvSlots    \* 5, NBCLIENT

ASSUME SrvAssumption ==
  /\ IsFiniteSet(SrvConns) /\ SrvNone \notin SrvConns
  /\ SrvWorkers \in Nat \ {0} /\ SrvSlots \in Nat \ {0}

VARIABLES
  srvClient,        \* of each connection: what its client has done
  srvSocket,        \* ... "none", "backlog", "open" or "closed"
  srvTask,          \* serversTask: where it is, and its locals
  semclient,
  srvWorker,        \* of each connection: where its worker is, and its slot
  webserverclients, \* the slots
  srvFaults         \* what has gone wrong: see SrvFault

srvVars == <<srvClient, srvSocket, srvTask, semclient, srvWorker, webserverclients,
             srvFaults>>

(* A worker without memory for its buffer, no slot free for a websocket,   *)
(* and a slot taken by two.                                                *)
SrvFault == {"memory", "full", "twice"}

SrvInit ==
  /\ srvClient = [c \in SrvConns |-> "away"]
  /\ srvSocket = [c \in SrvConns |-> "none"]
  /\ srvTask = [at |-> "set", readfds |-> {},
                sock |-> SrvNone, i |-> 1, conn |-> SrvNone]
  /\ semclient = SrvWorkers
  /\ srvWorker = [c \in SrvConns |-> [at |-> "none", slot |-> 0]]
  /\ webserverclients = [i \in 1..SrvSlots |-> SrvNone]
  /\ srvFaults = {}

-----------------------------------------------------------------------------
(* A client connects; a websocket that has been answered sends messages, a *)
(* part of a frame first or the whole of it; a client hangs up, which its  *)
(* socket tells like a message.                                            *)
ClientConnects(c) ==
  /\ srvClient[c] = "away"
  /\ srvClient' = [srvClient EXCEPT ![c] = "asks"]
  /\ srvSocket' = [srvSocket EXCEPT ![c] = "backlog"]
  /\ UNCHANGED <<srvTask, semclient, srvWorker, webserverclients, srvFaults>>

ClientSends(c) ==
  /\ \E what \in {"part", "message", "gone"} :
       /\ srvClient[c] \in {"answered", "part"} \ {what}
       /\ srvClient' = [srvClient EXCEPT ![c] = what]
  /\ UNCHANGED <<srvSocket, srvTask, semclient, srvWorker, webserverclients, srvFaults>>

-----------------------------------------------------------------------------
(* serversTask.  select leaves in readfds the sockets that are ready. *)
Readable(c) == srvClient[c] \in {"part", "message", "gone"}
Backlog == {c \in SrvConns : srvSocket[c] = "backlog"}
Registered == {webserverclients[i] : i \in 1..SrvSlots} \ {SrvNone}

TaskSet ==
  /\ srvTask.at = "set"
  /\ srvTask' = [srvTask EXCEPT !.at = "select", !.readfds = Registered]
  /\ UNCHANGED <<srvClient, srvSocket, semclient, srvWorker, webserverclients, srvFaults>>

TaskSelect ==
  /\ srvTask.at = "select"
  /\ LET ready == {c \in srvTask.readfds : Readable(c)}
     IN /\ ready # {} \/ Backlog # {}
        /\ srvTask' = [srvTask EXCEPT !.at = IF Backlog # {} THEN "accept" ELSE "read",
                                      !.readfds = ready]
  /\ UNCHANGED <<srvClient, srvSocket, semclient, srvWorker, webserverclients, srvFaults>>

TaskAccept ==
  /\ srvTask.at = "accept"
  /\ \E c \in Backlog :
       /\ srvSocket' = [srvSocket EXCEPT ![c] = "open"]
       /\ srvTask' = [srvTask EXCEPT !.at = "take", !.sock = c]
  /\ UNCHANGED <<srvClient, semclient, srvWorker, webserverclients, srvFaults>>

(* One of SrvWorkers has to be free; its task is created sooner or later.  *)
TaskTake ==
  /\ srvTask.at = "take"
  /\ semclient > 0
  /\ semclient' = semclient - 1
  /\ srvTask' = [srvTask EXCEPT !.at = "create"]
  /\ UNCHANGED <<srvClient, srvSocket, srvWorker, webserverclients, srvFaults>>

TaskCreate ==
  /\ srvTask.at = "create"
  /\ srvWorker' = [srvWorker EXCEPT ![srvTask.sock].at = "begin"]
  /\ srvTask' = [srvTask EXCEPT !.at = "read", !.sock = SrvNone]
  /\ UNCHANGED <<srvClient, srvSocket, semclient, webserverclients, srvFaults>>

(* Mutant: the slot of a websocket that is closed is not freed. *)
RemoveClientKeeps(c) ==
  IF c \in Registered
  THEN srvSocket' = [srvSocket EXCEPT ![c] = "closed"] /\ UNCHANGED webserverclients
  ELSE UNCHANGED <<srvSocket, webserverclients>>

(* websocketremoveclient. *)
RemoveClient(c) ==
  IF c \in Registered
  THEN /\ srvSocket' = [srvSocket EXCEPT ![c] = "closed"]
       /\ \E i \in 1..SrvSlots :
            /\ webserverclients[i] = c
            /\ webserverclients' = [webserverclients EXCEPT ![i] = SrvNone]
  ELSE UNCHANGED <<srvSocket, webserverclients>>

(* The next slot is looked at, and the set is built again behind the last. *)
TaskGoesOn(readfds) ==
  LET last == srvTask.i = SrvSlots
  IN srvTask' = [srvTask EXCEPT !.at = IF last THEN "set" ELSE "read",
                                !.i = IF last THEN 1 ELSE @ + 1,
                                !.readfds = readfds, !.conn = SrvNone]

(* websocketRead of one websocket that select found ready: its message is  *)
(* treated, or it is removed, or a part of a frame has come.               *)
TaskRead ==
  /\ srvTask.at = "read"
  /\ LET c == webserverclients[srvTask.i]
         rest == srvTask.readfds \ {c}
     IN \/ /\ c \notin srvTask.readfds
           /\ TaskGoesOn(rest)
           /\ UNCHANGED <<srvClient, srvSocket, webserverclients>>
        \/ /\ c \in srvTask.readfds /\ srvClient[c] = "message"
           /\ srvClient' = [srvClient EXCEPT ![c] = "answered"]
           /\ TaskGoesOn(rest)
           /\ UNCHANGED <<srvSocket, webserverclients>>
        \/ /\ c \in srvTask.readfds /\ srvClient[c] = "gone"
           /\ RemoveClient(c)
           /\ TaskGoesOn(rest)
           /\ UNCHANGED srvClient
        \/ /\ c \in srvTask.readfds /\ srvClient[c] = "part"
           /\ srvTask' = [srvTask EXCEPT !.at = "parse", !.conn = c, !.readfds = rest]
           /\ UNCHANGED <<srvClient, srvSocket, webserverclients>>
  /\ UNCHANGED <<semclient, srvWorker, srvFaults>>

(* websocketparsedata reads on until the count of what it has is that of   *)
(* the frame, which is treated, or ends the websocket; or the count is     *)
(* short, since a read that timed out took one off it.  A read that finds  *)
(* the connection closed adds nothing, for ever.                           *)
TaskParse ==
  /\ srvTask.at = "parse"
  /\ LET c == srvTask.conn
     IN /\ srvClient[c] = "message"
        /\ \/ /\ srvClient' = [srvClient EXCEPT ![c] = "part"]
              /\ UNCHANGED <<srvTask, srvSocket, webserverclients>>
           \/ /\ srvClient' = [srvClient EXCEPT ![c] = "answered"]
              /\ TaskGoesOn(srvTask.readfds)
              /\ UNCHANGED <<srvSocket, webserverclients>>
           \/ /\ srvClient' = [srvClient EXCEPT ![c] = "gone"]
              /\ RemoveClient(c)
              /\ TaskGoesOn(srvTask.readfds)
  /\ UNCHANGED <<semclient, srvWorker, srvFaults>>

-----------------------------------------------------------------------------
(* serverclientTask.  It gives semclient and ends, or ends at once if it   *)
(* gets no memory.                                                         *)
WorkerGoes(c, at) == srvWorker' = [srvWorker EXCEPT ![c].at = at]
WorkerEnds(c) == WorkerGoes(c, "ended") /\ semclient' = semclient + 1
WorkerBegin(c) ==
  /\ srvWorker[c].at = "begin"
  /\ \/ WorkerGoes(c, "request") /\ UNCHANGED srvFaults
     \/ WorkerGoes(c, "deleted") /\ srvFaults' = srvFaults \cup {"memory"}
  /\ UNCHANGED <<srvClient, srvSocket, srvTask, semclient, webserverclients>>

(* A page or a command is answered, or nothing comes for 6 seconds; or the *)
(* client asks for a websocket.                                            *)
WorkerRequest(c) ==
  /\ srvWorker[c].at = "request"
  /\ \E at \in {"close", "find"} : WorkerGoes(c, at)
  /\ UNCHANGED <<srvClient, srvSocket, srvTask, semclient, webserverclients, srvFaults>>

(* websocketnewclient: the first free slot is found, ... *)
Free == {i \in 1..SrvSlots : webserverclients[i] = SrvNone}
WorkerFind(c) ==
  /\ srvWorker[c].at = "find"
  /\ IF Free = {}
     THEN WorkerEnds(c) /\ srvFaults' = srvFaults \cup {"full"}
     ELSE /\ srvWorker' = [srvWorker EXCEPT ![c].at = "take",
                             ![c].slot = CHOOSE i \in Free : \A j \in Free : i <= j]
          /\ UNCHANGED <<semclient, srvFaults>>
  /\ UNCHANGED <<srvClient, srvSocket, srvTask, webserverclients>>

(* ... and taken, ... *)
WorkerTake(c) ==
  /\ srvWorker[c].at = "take"
  /\ webserverclients' = [webserverclients EXCEPT ![srvWorker[c].slot] = c]
  /\ srvFaults' = srvFaults \cup
       IF webserverclients[srvWorker[c].slot] = SrvNone THEN {} ELSE {"twice"}
  /\ srvWorker' = [srvWorker EXCEPT ![c].at = "answer", ![c].slot = 0]
  /\ UNCHANGED <<srvClient, srvSocket, srvTask, semclient>>

(* ... and then the client is answered. *)
WorkerAnswer(c) ==
  /\ srvWorker[c].at = "answer"
  /\ srvClient' = [srvClient EXCEPT ![c] = "answered"]
  /\ WorkerEnds(c)
  /\ UNCHANGED <<srvSocket, srvTask, webserverclients, srvFaults>>

(* Mutant: a worker that closes its connection ends without semclient. *)
WorkerCloseEnds(c) ==
  /\ srvWorker[c].at = "close"
  /\ srvSocket' = [srvSocket EXCEPT ![c] = "closed"]
  /\ WorkerGoes(c, "ended")
  /\ UNCHANGED <<srvClient, srvTask, semclient, webserverclients, srvFaults>>

WorkerClose(c) ==
  /\ srvWorker[c].at = "close"
  /\ srvSocket' = [srvSocket EXCEPT ![c] = "closed"]
  /\ WorkerEnds(c)
  /\ UNCHANGED <<srvClient, srvTask, webserverclients, srvFaults>>

SrvTaskStep ==
  \/ TaskSet \/ TaskSelect \/ TaskAccept \/ TaskTake \/ TaskCreate \/ TaskRead
  \/ TaskParse
SrvWorkerStep(c) ==
  \/ WorkerBegin(c) \/ WorkerRequest(c) \/ WorkerFind(c) \/ WorkerTake(c)
  \/ WorkerAnswer(c) \/ WorkerClose(c)
SrvNext ==
  \/ SrvTaskStep
  \/ \E c \in SrvConns : ClientConnects(c) \/ ClientSends(c) \/ SrvWorkerStep(c)
SrvFairness ==
  WF_srvVars(SrvTaskStep) /\ \A c \in SrvConns : WF_srvVars(SrvWorkerStep(c))
SrvSpec == SrvInit /\ [][SrvNext]_srvVars /\ SrvFairness

-----------------------------------------------------------------------------
(* Every variable stays in its domain. *)
SrvTypeOK ==
  /\ srvClient \in [SrvConns -> {"away", "asks", "answered", "part", "message", "gone"}]
  /\ srvSocket \in [SrvConns -> {"none", "backlog", "open", "closed"}]
  /\ srvTask \in [at : {"set", "select", "accept", "take", "create", "read", "parse"},
                  readfds : SUBSET SrvConns, sock : SrvConns \cup {SrvNone},
                  i : 1..SrvSlots, conn : SrvConns \cup {SrvNone}]
  /\ semclient \in 0..SrvWorkers
  /\ srvWorker \in [SrvConns -> [at : {"none", "begin", "request", "find", "take",
                                       "answer", "close", "ended", "deleted"},
                                 slot : 0..SrvSlots]]
  /\ webserverclients \in [1..SrvSlots -> SrvConns \cup {SrvNone}]
  /\ srvFaults \subseteq SrvFault

(* semclient counts the workers: none is ever lost or given twice, but for *)
(* those of workers that had no memory.                                    *)
Living == {c \in SrvConns : srvWorker[c].at \notin {"none", "ended", "deleted"}}
Deleted == {c \in SrvConns : srvWorker[c].at = "deleted"}
SrvPermits ==
  semclient + Cardinality(Living) + Cardinality(Deleted)
    + (IF srvTask.at = "create" THEN 1 ELSE 0) = SrvWorkers

(* An open connection is always in the hands of one: the server task (0),  *)
(* a worker that will close it or register it (-1), or one slot; and a     *)
(* slot holds an open one.  Nobody else would ever close it.               *)
Holders(c) ==
  (IF srvTask.sock = c THEN {0} ELSE {})
  \cup (IF srvWorker[c].at \in {"begin", "request", "find", "take", "close"}
        THEN {-1} ELSE {})
  \cup {i \in 1..SrvSlots : webserverclients[i] = c}
SrvHeld ==
  srvFaults = {} =>
    \A c \in SrvConns : Cardinality(Holders(c)) = IF srvSocket[c] = "open" THEN 1 ELSE 0

(* Every client that connects gets a worker, be it that the server task    *)
(* waits for one, unless workers have been lost, and as long as no         *)
(* websocket leaves a frame unfinished for ever: the server task would wait*)
(* for the rest, and serve nobody.                                         *)
Unserved ==
  {c \in SrvConns : srvSocket[c] \in {"backlog", "open"} /\ srvWorker[c].at = "none"}
FramesEnd == []<>(srvTask.at # "parse")
SrvServes ==
  FramesEnd => (Unserved # {} ~> Unserved = {} \/ "memory" \in srvFaults)

(* "wait for an activity on one of the sockets": what a websocket sends is *)
(* read, as long as others do not leave a frame unfinished for ever.       *)
SrvReads ==
  FramesEnd => \A c \in SrvConns : srvClient[c] = "message" ~> srvClient[c] # "message"
================================================================================
