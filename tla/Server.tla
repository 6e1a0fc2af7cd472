-------------------------------- MODULE Server --------------------------------
(***************************************************************************)
(* The DSU server of src/cemuhook/cemuhookserver.cpp.  The thread          *)
(* serverTask answers requests, keeps the list of clients that subscribed  *)
(* to data and starts and stops the thread sendTask, which takes one       *)
(* motion after the other from the CemuhookAdapter and sends it to every   *)
(* client.  The destructor, on the main thread, ends them both.            *)
(*                                                                         *)
(* Locks.  clientsMutex is held across steps by sendTask only, shared,     *)
(* while it sends (sendAt = "send"); whoever changes the list waits for    *)
(* that.  All other critical sections are within one step.                 *)
(***************************************************************************)
EXTENDS Naturals, Sequences, FiniteSets

CONSTANTS
  Addresses,               \* addresses datagrams come from
  Ids,                     \* ids clients put into the header of a request
  Slots, DECKSLOT,         \* values of a slot in a request; the slot of the Deck
  cSendTimeout,            \* ticks a client may stay silent
  cTimeoutIncreasePeriod,  \* packets per tick
  PacketModulus,           \* 2^32: the packet number is a uint32_t
  UnsetTypes               \* what memory that is not initialised may hold

ASSUME ServerAssumption ==
  /\ Ids \subseteq Nat
  /\ DECKSLOT \in Slots
  /\ cSendTimeout \in Nat
  /\ cTimeoutIncreasePeriod \in Nat \ {0} /\ PacketModulus \in Nat \ {0}

VARIABLES
  serverAt,      \* where serverTask is
  request,       \* address and id of the data request being handled
  clients,       \* the subscribed clients, oldest first
  checkTimeout,  \* sendTask has counted a tick since the last check
  sendThread,    \* serverTask holds a std::thread for sendTask
  stopSending, stop,
  sendAt,        \* where sendTask is
  packet,        \* number of the last packet
  next,          \* index of the next client to send the packet to
  dataAnswer,    \* the buffer of sendTask: id and number of the packet
  versionType,   \* eventType in the header of versionAnswer
  answers,       \* datagrams sent in answer in this turn (history)
  got            \* address -> the last datagram of its subscription (history)

requestVars == <<request, answers, versionType>>
clientVars  == <<clients, checkTimeout>>
sendVars    == <<packet, next, dataAnswer>>
vars == <<serverAt, requestVars, clientVars, sendThread, stopSending, stop,
          sendAt, sendVars, got>>

EventTypes == {"version", "info", "data"}

Client == [address : Addresses, id : Ids, sendTimeout : 0..(cSendTimeout + 1)]
Subscribed == {clients[i].address : i \in 1..Len(clients)}

Datagram == [id : Ids, packet : 0..(PacketModulus - 1)]

ServerSteps == {"loop", "recv", "find", "add", "startSend", "touch", "check",
                "eraseTick", "erase", "empty", "stopSend", "join",
                "quit", "quitJoin", "done"}
SendSteps == {"none", "start", "check", "prepare", "send", "count", "stopGrab",
              "done"}

TypeOK ==
  /\ serverAt \in ServerSteps /\ sendAt \in SendSteps
  /\ request \in {<<>>} \cup [address : Addresses, id : Ids]
  /\ clients \in Seq(Client)
  /\ checkTimeout \in BOOLEAN /\ sendThread \in BOOLEAN
  /\ stopSending \in BOOLEAN /\ stop \in BOOLEAN
  /\ packet \in 0..(PacketModulus - 1)
  /\ next \in 1..(Len(clients) + 1)
  /\ versionType \in UnsetTypes
  /\ dataAnswer \in [id : Ids \cup {0}, packet : 0..(PacketModulus - 1)]
  /\ got \in [Addresses -> {<<>>} \cup Datagram]

(* The headers of the answers are filled in once, field by field; nothing  *)
(* is ever stored into the eventType of versionAnswer.                     *)
PrepareAnswerConstants ==
  /\ versionType \in UnsetTypes
  /\ dataAnswer = [id |-> 0, packet |-> 0]

Init ==
  /\ PrepareAnswerConstants
  /\ serverAt = "loop"
  /\ request = <<>>
  /\ clients = <<>> /\ checkTimeout = FALSE
  /\ sendThread = FALSE /\ stopSending = FALSE /\ stop = FALSE
  /\ sendAt = "none" /\ packet = 0 /\ next = 1
  /\ answers = {} /\ got = [a \in Addresses |-> <<>>]

-----------------------------------------------------------------------------
(* The thread serverTask *)

ServerGoto(from, to) == serverAt = from /\ serverAt' = to

ServerOthers == <<stop, sendAt, sendVars, got, versionType>>

CheckStop ==
  /\ ServerGoto("loop", IF stop THEN "quit" ELSE "recv")
  /\ UNCHANGED <<request, answers, clientVars, sendThread, stopSending, ServerOthers>>

VersionAnswer == [type |-> versionType]

InfoAnswer(slot) ==
  [type |-> "info", slot |-> slot, slotState |-> IF slot = DECKSLOT THEN 2 ELSE 0]

(* recvfrom: a request for the version, for information on some slots or   *)
(* for data.  portCnt is not compared with the four slots a request has    *)
(* room for, so what is answered for may be any bytes behind them, too:    *)
(* any set of slots.  None stands for whatever nobody answers.             *)
Receive ==
  /\ \/ /\ ServerGoto("recv", "check")
        /\ \/ answers' = {VersionAnswer}
           \/ \E slots \in SUBSET Slots :
                answers' = {InfoAnswer(slot) : slot \in slots}
        /\ UNCHANGED request
     \/ /\ ServerGoto("recv", "find")
        /\ \E address \in Addresses, id \in Ids :
             request' = [address |-> address, id |-> id]
        /\ answers' = {}
  /\ UNCHANGED <<clientVars, sendThread, stopSending, ServerOthers>>

(* The timeout of the socket, an error, or fewer bytes than a header. *)
ReceiveNothing ==
  /\ ServerGoto("recv", "eraseTick")
  /\ UNCHANGED <<request, answers, clientVars, sendThread, stopSending, ServerOthers>>

-----------------------------------------------------------------------------
(* A request for data *)

\* Slip: a client is recognised by its id as well.
IsClientById(client) == client.address = request.address /\ client.id = request.id

IsClient(client) == client.address = request.address

FindClient ==
  /\ ServerGoto("find", IF \E i \in 1..Len(clients) : IsClient(clients[i])
                        THEN "touch" ELSE "add")
  /\ UNCHANGED <<request, answers, clientVars, sendThread, stopSending, ServerOthers>>

(* The iterator found under the shared lock stays valid without it: no     *)
(* other thread adds or erases clients.                                    *)
TouchClient ==
  /\ sendAt # "send"
  /\ ServerGoto("touch", "check")
  /\ clients' = [i \in 1..Len(clients) |->
                   IF IsClient(clients[i])
                   THEN [clients[i] EXCEPT !.sendTimeout = 0] ELSE clients[i]]
  /\ request' = <<>>
  /\ UNCHANGED <<answers, checkTimeout, sendThread, stopSending, ServerOthers>>

\* Slip: sendTimeout of the new client is whatever the memory held.
AddClientUnset ==
  /\ sendAt # "send"
  /\ ServerGoto("add", "startSend")
  /\ clients' = Append(clients, [address |-> request.address, id |-> request.id,
                                 sendTimeout |-> cSendTimeout + 2])
  /\ request' = <<>>
  /\ UNCHANGED <<answers, checkTimeout, sendThread, stopSending, ServerOthers>>

AddClient ==
  /\ sendAt # "send"
  /\ ServerGoto("add", "startSend")
  /\ clients' = Append(clients, [address |-> request.address,
                                 id |-> request.id, sendTimeout |-> 0])
  /\ request' = <<>>
  /\ UNCHANGED <<answers, checkTimeout, sendThread, stopSending, ServerOthers>>

\* Slip: stopSending keeps the value that ended the last session.
StartSendKeepStop ==
  /\ ServerGoto("startSend", "check")
  /\ sendThread' = TRUE
  /\ sendAt' = IF sendThread THEN sendAt ELSE "start"
  /\ UNCHANGED <<request, answers, clientVars, stopSending, stop, sendVars, got, versionType>>

StartSend ==
  /\ ServerGoto("startSend", "check")
  /\ IF sendThread
     THEN UNCHANGED <<sendThread, stopSending, sendAt>>
     ELSE sendThread' = TRUE /\ stopSending' = FALSE /\ sendAt' = "start"
  /\ UNCHANGED <<request, answers, clientVars, stop, sendVars, got, versionType>>

-----------------------------------------------------------------------------
(* CheckClientTimeout *)

(* Whether there was a tick since the last check; if not, the turn ends. *)
NeedsCheck ==
  /\ ServerGoto("check", IF checkTimeout THEN "erase" ELSE "loop")
  /\ answers' = {}
  /\ UNCHANGED <<request, clientVars, sendThread, stopSending, ServerOthers>>

(* sendTimeout is only compared with cSendTimeout: it need not grow beyond *)
(* the first value that is greater.                                        *)
Tick(client) ==
  [client EXCEPT !.sendTimeout = IF @ > cSendTimeout THEN @ ELSE @ + 1]

(* The loop over the list: a client that is late is erased, and the others *)
(* stay in their order.                                                    *)
Remaining(list) ==
  LET upTo[n \in 0..Len(list)] ==
        IF n = 0 THEN <<>>
        ELSE IF list[n].sendTimeout > cSendTimeout THEN upTo[n - 1]
        ELSE Append(upTo[n - 1], list[n])
  IN  upTo[Len(list)]

(* Whoever is dropped gets no more of its stream. *)
Erased ==
  /\ got' = [a \in Addresses |-> IF a \in Subscribed' THEN got[a] ELSE <<>>]
  /\ UNCHANGED <<request, answers, sendThread, stopSending, stop, sendAt,
                 sendVars, versionType>>

\* Slip: clients are erased under the shared lock only.
EraseClientsShared ==
  /\ \/ /\ ServerGoto("eraseTick", "empty")
        /\ clients' = Remaining([i \in 1..Len(clients) |-> Tick(clients[i])])
     \/ /\ ServerGoto("erase", "empty")
        /\ clients' = Remaining(clients)
  /\ checkTimeout' = FALSE
  /\ Erased

\* Slip: checkTimeout is not reset and only a tick of its own erases.
EraseOnTickOnly ==
  /\ sendAt # "send"
  /\ \/ /\ ServerGoto("eraseTick", "empty")
        /\ clients' = Remaining([i \in 1..Len(clients) |-> Tick(clients[i])])
     \/ /\ ServerGoto("erase", "empty")
        /\ UNCHANGED clients
  /\ Erased /\ UNCHANGED checkTimeout

EraseClients ==
  /\ sendAt # "send"
  /\ \/ /\ ServerGoto("eraseTick", "empty")
        /\ clients' = Remaining([i \in 1..Len(clients) |-> Tick(clients[i])])
     \/ /\ ServerGoto("erase", "empty")
        /\ clients' = Remaining(clients)
  /\ checkTimeout' = FALSE
  /\ Erased

NobodyLeft ==
  /\ ServerGoto("empty", IF sendThread /\ clients = <<>> THEN "stopSend" ELSE "loop")
  /\ UNCHANGED <<request, answers, clientVars, sendThread, stopSending, ServerOthers>>

\* Slip: at its end serverTask joins the send thread without stopping it.
StopSendingNotAtEnd ==
  /\ \/ ServerGoto("stopSend", "join") /\ stopSending' = TRUE
     \/ /\ ServerGoto("quit", IF sendThread THEN "quitJoin" ELSE "done")
        /\ UNCHANGED stopSending
  /\ UNCHANGED <<request, answers, clientVars, sendThread, ServerOthers>>

(* The end of serverTask stops the send thread, if there is one, too. *)
StopSending ==
  /\ \/ ServerGoto("stopSend", "join") /\ stopSending' = TRUE
     \/ /\ ServerGoto("quit", IF sendThread THEN "quitJoin" ELSE "done")
        /\ stopSending' = (stopSending \/ sendThread)
  /\ UNCHANGED <<request, answers, clientVars, sendThread, ServerOthers>>

JoinSend ==
  /\ sendAt = "done" /\ sendAt' = "none"
  /\ ServerGoto("join", "loop") \/ ServerGoto("quitJoin", "done")
  /\ sendThread' = FALSE
  /\ UNCHANGED <<requestVars, clientVars, stopSending, stop, sendVars, got>>

-----------------------------------------------------------------------------
(* The thread sendTask *)

SendGoto(from, to) == sendAt = from /\ sendAt' = to

ReadOnlyForSend == <<serverAt, requestVars, sendThread, stopSending, stop>>

StartFrameGrab ==
  /\ SendGoto("start", "check")
  /\ packet' = 0
  /\ UNCHANGED <<ReadOnlyForSend, clientVars, next, dataAnswer, got>>

CheckStopSending ==
  /\ SendGoto("check", IF stopSending THEN "stopGrab" ELSE "prepare")
  /\ UNCHANGED <<ReadOnlyForSend, clientVars, sendVars, got>>

(* PrepareDataAnswerWithoutCrc; the adapter comes back with a motion.  The *)
(* shared lock is taken next, which never waits for a whole turn of        *)
(* serverTask.                                                             *)
PrepareDataAnswer ==
  /\ SendGoto("prepare", "send")
  /\ packet' = (packet + 1) % PacketModulus
  /\ dataAnswer' = [dataAnswer EXCEPT !.id = 0, !.packet = packet']
  /\ UNCHANGED <<ReadOnlyForSend, clientVars, next, got>>

ModifyDataAnswerId(id) == dataAnswer' = [dataAnswer EXCEPT !.id = id]

SendToClient ==
  /\ sendAt = "send" /\ next <= Len(clients)
  /\ ModifyDataAnswerId(clients[next].id)
  /\ got' = [got EXCEPT ![clients[next].address] = dataAnswer']
  /\ next' = next + 1
  /\ UNCHANGED <<ReadOnlyForSend, clientVars, sendAt, packet>>

SentToAll ==
  /\ next > Len(clients) /\ next' = 1
  /\ SendGoto("send", IF packet % cTimeoutIncreasePeriod = 0 THEN "count" ELSE "check")
  /\ UNCHANGED <<ReadOnlyForSend, clientVars, packet, dataAnswer, got>>

\* Slip: sendTask drops the silent clients itself.
CountTickErase ==
  /\ SendGoto("count", "check")
  /\ clients' = Remaining([i \in 1..Len(clients) |-> Tick(clients[i])])
  /\ checkTimeout' = TRUE
  /\ UNCHANGED <<ReadOnlyForSend, sendVars, got>>

CountTick ==
  /\ SendGoto("count", "check")
  /\ clients' = [i \in 1..Len(clients) |-> Tick(clients[i])]
  /\ checkTimeout' = TRUE
  /\ UNCHANGED <<ReadOnlyForSend, sendVars, got>>

StopFrameGrab ==
  /\ SendGoto("stopGrab", "done")
  /\ UNCHANGED <<ReadOnlyForSend, clientVars, sendVars, got>>

-----------------------------------------------------------------------------
(* ~Server on the main thread; then it waits for serverTask to be done. *)
Destroy ==
  /\ ~stop /\ stop' = TRUE
  /\ UNCHANGED <<serverAt, requestVars, clientVars, sendThread, stopSending,
                 sendAt, sendVars, got>>

Destroyed == serverAt = "done" /\ UNCHANGED vars

serverTask ==
  \/ CheckStop \/ Receive \/ ReceiveNothing \/ FindClient \/ TouchClient
  \/ AddClient \/ StartSend \/ NeedsCheck \/ EraseClients \/ NobodyLeft
  \/ StopSending \/ JoinSend

sendTask ==
  \/ StartFrameGrab \/ CheckStopSending \/ PrepareDataAnswer \/ SendToClient
  \/ SentToAll \/ CountTick \/ StopFrameGrab

Next == serverTask \/ sendTask \/ Destroy \/ Destroyed

Spec == Init /\ [][Next]_vars

(* Both threads keep running: recvfrom returns after 2 s, and the adapter  *)
(* comes back with a motion (CemuhookAdapter, CallReturns).  An exclusive  *)
(* lock that waits for sendTask is obtained, for sendTask lets go of the   *)
(* list after every packet and then waits for a frame.                     *)
Fairness ==
  /\ WF_vars(serverTask) /\ WF_vars(sendTask)
  /\ SF_vars(TouchClient) /\ SF_vars(AddClient) /\ SF_vars(EraseClients)

FairSpec == Spec /\ Fairness

-----------------------------------------------------------------------------
(* There is a send thread exactly while somebody is subscribed, whenever   *)
(* serverTask is between two turns; the thread that is running has not     *)
(* been told to stop by an earlier session (stopSending, line 288).        *)
SendThreadIffClients ==
  serverAt \in {"loop", "recv"} =>
    /\ sendThread <=> clients # <<>>
    /\ sendThread => sendAt \notin {"none", "stopGrab", "done"}

(* An address is subscribed once, also when the client behind it restarts  *)
(* with another id or its packets are repeated: it gets each packet once.  *)
SubscribedOnce ==
  \A i, j \in 1..Len(clients) :
    clients[i].address = clients[j].address => i = j

(* The iterator serverTask found under a shared lock is used after that    *)
(* lock was given up (lines 295-298): the client must still be there.      *)
FoundClientKept == serverAt = "touch" => request.address \in Subscribed

(* From subscription to timeout a client is sent one stream: consecutive   *)
(* packet numbers under one id (cemuhookserver.cpp:352-361, 421-430).      *)
(* sendTask may not lose its place in the list while others come and go,   *)
(* nor be ended and begun again under somebody who is subscribed; a client *)
(* that asks again with another id is still served under its old one.      *)
(* (cemuhookprotocol.h:15 has the id "constant among one run"; what is     *)
(* left of it is that it is constant among one subscription.)              *)
StreamUnbroken ==
  [][\A a \in Addresses :
       next' = next + 1 /\ clients[next].address = a /\ got[a] # <<>> =>
         got'[a] = [id |-> got[a].id,
                    packet |-> (got[a].packet + 1) % PacketModulus]]_vars

(* A client that no longer asks for data is dropped in the end, even if    *)
(* the requests of others keep the socket from ever timing out.            *)
SilentClientDropped ==
  \A a \in Addresses :
    \/ []<>(a \notin Subscribed)
    \/ []<>(serverAt = "touch" /\ request.address = a)
    \/ <>stop

(* The server keeps the promise of Subscriptions: the list is the          *)
(* subscriptions, and the packet on its way is still due to the clients    *)
(* from `next` on.  The list may not change under sendTask (line 352), and *)
(* a request, a tick and a timeout may not get into each other's way.      *)
Silence ==
  [a \in Subscribed |->
     clients[CHOOSE i \in 1..Len(clients) : clients[i].address = a].sendTimeout]

Pending ==
  IF sendAt = "send" THEN {clients[i].address : i \in next..Len(clients)} ELSE {}

Promise == INSTANCE Subscriptions WITH silence <- Silence, pending <- Pending

IsSubscription == Promise!Spec

(* The destructor returns, whatever the two threads are doing. *)
DestructorReturns == stop ~> (serverAt = "done" /\ sendAt = "none")

(* cemuhookprotocol.h:17-20 lists the event types a header may have.       *)
AnswersTyped == \A answer \in answers : answer.type \in EventTypes

=============================================================================
