----------------------------- MODULE ServerProofs -----------------------------
(***************************************************************************)
(* Theorems about Server: its types, the life cycle of the send thread,    *)
(* who is subscribed, and the steps of Subscriptions it implements.        *)
(***************************************************************************)
EXTENDS Server, SequenceTheorems, WellFoundedInduction, TLAPS

-----------------------------------------------------------------------------
(* Induction over the natural numbers, for sets instead of predicates.     *)
LEMMA Less == IsWellFoundedOn({ss \in Nat \X Nat : ss[1] < ss[2]}, Nat)
<1>1. OpToRel(<, Nat) = {ss \in Nat \X Nat : ss[1] < ss[2]}
  BY DEF OpToRel
<1> QED BY <1>1, NatLessThanWellFounded

LEMMA Induction ==
  ASSUME NEW S \in SUBSET Nat, 0 \in S, \A n \in S : n + 1 \in S
  PROVE  S = Nat
<1> DEFINE R == {ss \in Nat \X Nat : ss[1] < ss[2]}
           T == Nat \ S
<1> SUFFICES ASSUME T # {} PROVE FALSE
  OBVIOUS
<1>1. PICK x \in T : \A y \in T : <<y, x>> \notin R
  <2>1. IsWellFoundedOn(R, Nat) /\ T \subseteq Nat /\ T # {}
    BY Less
  <2> HIDE DEF R, T
  <2> QED BY <2>1, WFMin
<1>2. x # 0 /\ x - 1 \in Nat
  BY <1>1
<1>3. x - 1 \in T
  BY <1>2
<1>4. <<x - 1, x>> \in R
  BY <1>2
<1> QED BY <1>1, <1>3, <1>4

-----------------------------------------------------------------------------
(* Remaining, as a loop: what it has kept after n clients. *)
Pass(list, n, kept) ==
  IF list[n].sendTimeout > cSendTimeout THEN kept ELSE Append(kept, list[n])

IsLoop(list, m, g) ==
  g = [n \in 0..m |-> IF n = 0 THEN <<>> ELSE Pass(list, n, g[n - 1])]

LEMMA LoopExists == ASSUME NEW list, NEW m \in Nat PROVE \E g : IsLoop(list, m, g)
<1> DEFINE S == {n \in Nat : \E g : IsLoop(list, n, g)}
<1>1. 0 \in S
  <2>1. IsLoop(list, 0, [n \in 0..0 |-> <<>>])
    BY DEF IsLoop
  <2> QED BY <2>1
<1>2. ASSUME NEW n \in S PROVE n + 1 \in S
  <2>1. PICK g : IsLoop(list, n, g)
    OBVIOUS
  <2> DEFINE h == [k \in 0..(n + 1) |-> IF k <= n THEN g[k] ELSE Pass(list, k, g[n])]
  <2>2. IsLoop(list, n + 1, h)
    BY <2>1 DEF IsLoop
  <2> QED BY <2>2
<1>3. S \in SUBSET Nat
  OBVIOUS
<1>4. S = Nat
  <2> HIDE DEF S
  <2> QED BY <1>1, <1>2, <1>3, Induction
<1> QED BY <1>4

LEMMA RemainingIsLoop ==
  ASSUME NEW list \in Seq(Client)
  PROVE  \E g : IsLoop(list, Len(list), g) /\ Remaining(list) = g[Len(list)]
<1> DEFINE g == CHOOSE h : IsLoop(list, Len(list), h)
<1>1. Remaining(list) = g[Len(list)]
  BY DEF Remaining, IsLoop, Pass
<1>2. IsLoop(list, Len(list), g)
  BY LoopExists, LenProperties
<1> QED BY <1>1, <1>2

(* kept are the clients among the first n of list that are not late, in    *)
(* their order: f says which client of list each of them is.               *)
Selects(list, n, kept, f) ==
  /\ kept \in Seq(Client)
  /\ f \in [1..Len(kept) -> 1..n]
  /\ \A i, j \in 1..Len(kept) : i < j => f[i] < f[j]
  /\ \A i \in 1..Len(kept) : kept[i] = list[f[i]]
  /\ \A k \in 1..n : list[k].sendTimeout <= cSendTimeout
                        <=> \E i \in 1..Len(kept) : f[i] = k

LEMMA PassSelects ==
  ASSUME NEW list \in Seq(Client), NEW n \in Nat, n + 1 <= Len(list), NEW kept, NEW f,
         Selects(list, n, kept, f)
  PROVE  \E g : Selects(list, n + 1, Pass(list, n + 1, kept), g)
<1>0. list[n + 1] \in Client /\ list[n + 1].sendTimeout \in Nat /\ cSendTimeout \in Nat
  <2>1. list[n + 1] \in Client
    BY ElementOfSeq, LenProperties
  <2> QED BY <2>1, ServerAssumption DEF Client
<1>1. CASE list[n + 1].sendTimeout > cSendTimeout
  <2>1. Pass(list, n + 1, kept) = kept
    BY <1>1 DEF Pass
  <2>2. ~(list[n + 1].sendTimeout <= cSendTimeout)
    BY <1>0, <1>1
  <2>3. Selects(list, n + 1, kept, f)
    BY <2>2 DEF Selects
  <2> QED BY <2>1, <2>3
<1>2. CASE list[n + 1].sendTimeout <= cSendTimeout
  <2> DEFINE r == Append(kept, list[n + 1])
             g == [i \in 1..Len(r) |-> IF i = Len(r) THEN n + 1 ELSE f[i]]
  <2>1. Pass(list, n + 1, kept) = r
    BY <1>0, <1>2 DEF Pass
  <2>2. /\ r \in Seq(Client) /\ Len(r) = Len(kept) + 1 /\ Len(kept) \in Nat
        /\ \A i \in 1..Len(kept) : r[i] = kept[i]
        /\ r[Len(r)] = list[n + 1]
    BY <1>0, AppendProperties DEF Selects
  <2> HIDE DEF r
  <2>3. g \in [1..Len(r) -> 1..(n + 1)]
    BY <2>2 DEF Selects
  <2>4. \A i, j \in 1..Len(r) : i < j => g[i] < g[j]
    BY <2>2 DEF Selects
  <2>5. \A i \in 1..Len(r) : r[i] = list[g[i]]
    BY <2>2 DEF Selects
  <2>6. ASSUME NEW k \in 1..(n + 1)
        PROVE  list[k].sendTimeout <= cSendTimeout <=> \E i \in 1..Len(r) : g[i] = k
    <3>1. CASE k = n + 1
      BY <1>2, <2>2, <3>1
    <3>2. CASE k \in 1..n
      BY <2>2, <3>2 DEF Selects
    <3> QED BY <3>1, <3>2
  <2> HIDE DEF g
  <2>7. Selects(list, n + 1, r, g)
    BY <2>2, <2>3, <2>4, <2>5, <2>6 DEF Selects
  <2> QED BY <2>1, <2>7
<1> QED BY <1>0, <1>1, <1>2

LEMMA RemainingSelects ==
  ASSUME NEW list \in Seq(Client)
  PROVE  \E f : Selects(list, Len(list), Remaining(list), f)
<1>0. Len(list) \in Nat
  BY LenProperties
<1>1. PICK g : IsLoop(list, Len(list), g) /\ Remaining(list) = g[Len(list)]
  BY RemainingIsLoop
<1> DEFINE S == {n \in Nat : n <= Len(list) => \E f : Selects(list, n, g[n], f)}
<1>2. 0 \in S
  <2>1. g[0] = <<>>
    BY <1>0, <1>1 DEF IsLoop
  <2>2. Selects(list, 0, <<>>, <<>>)
    BY DEF Selects
  <2> QED BY <2>1, <2>2
<1>3. ASSUME NEW n \in S PROVE n + 1 \in S
  <2> SUFFICES ASSUME n + 1 <= Len(list)
               PROVE  \E f : Selects(list, n + 1, g[n + 1], f)
    OBVIOUS
  <2>1. g[n + 1] = Pass(list, n + 1, g[n])
    BY <1>0, <1>1 DEF IsLoop
  <2>2. PICK f : Selects(list, n, g[n], f)
    BY <1>0
  <2> QED BY <2>1, <2>2, PassSelects
<1>4. S \in SUBSET Nat
  OBVIOUS
<1>5. S = Nat
  <2> HIDE DEF S
  <2> QED BY <1>2, <1>3, <1>4, Induction
<1> QED BY <1>0, <1>1, <1>5

-----------------------------------------------------------------------------
(* How a step changes the list of clients. *)

(* Both lists have the same clients. *)
SameClients(new, old) ==
  /\ Len(new) = Len(old)
  /\ \A i \in 1..Len(old) : new[i].address = old[i].address /\ new[i].id = old[i].id

(* Some of the clients of the old list, in their order. *)
SomeClients(new, old) ==
  \E f \in [1..Len(new) -> 1..Len(old)] :
    /\ \A i, j \in 1..Len(new) : i < j => f[i] < f[j]
    /\ \A i \in 1..Len(new) : /\ new[i].address = old[f[i]].address
                              /\ new[i].id = old[f[i]].id

TickAll(list) == [i \in 1..Len(list) |-> Tick(list[i])]

LEMMA TickClient ==
  ASSUME NEW c \in Client
  PROVE  Tick(c) \in Client /\ Tick(c).address = c.address /\ Tick(c).id = c.id
  BY ServerAssumption DEF Tick, Client

LEMMA FunctionIsSeq ==
  ASSUME NEW S, NEW n \in Nat, NEW s \in [1..n -> S]
  PROVE  s \in Seq(S) /\ Len(s) = n
<1>1. s \in Seq(S)
  BY SeqDef
<1> QED BY <1>1, LenProperties

LEMMA TickAllClients ==
  ASSUME NEW list \in Seq(Client)
  PROVE  TickAll(list) \in Seq(Client) /\ SameClients(TickAll(list), list)
<1>1. /\ Len(list) \in Nat /\ \A i \in 1..Len(list) : list[i] \in Client
  BY ElementOfSeq, LenProperties
<1>2. TickAll(list) \in [1..Len(list) -> Client]
  BY <1>1, TickClient DEF TickAll
<1>3. TickAll(list) \in Seq(Client) /\ Len(TickAll(list)) = Len(list)
  BY <1>1, <1>2, FunctionIsSeq
<1> QED BY <1>1, <1>3, TickClient DEF TickAll, SameClients

LEMMA RemainingClients ==
  ASSUME NEW list \in Seq(Client), NEW old \in Seq(Client), SameClients(list, old)
  PROVE  Remaining(list) \in Seq(Client) /\ SomeClients(Remaining(list), old)
<1>1. PICK f : Selects(list, Len(list), Remaining(list), f)
  BY RemainingSelects
<1> DEFINE new == Remaining(list)
<1>2. /\ new \in Seq(Client) /\ f \in [1..Len(new) -> 1..Len(old)]
      /\ \A i, j \in 1..Len(new) : i < j => f[i] < f[j]
      /\ \A i \in 1..Len(new) : new[i] = list[f[i]]
  BY <1>1 DEF Selects, SameClients
<1>3. \A i \in 1..Len(new) : /\ new[i].address = old[f[i]].address
                             /\ new[i].id = old[f[i]].id
  BY <1>2 DEF SameClients
<1> HIDE DEF new
<1>4. SomeClients(new, old)
  BY <1>2, <1>3 DEF SomeClients
<1> QED BY <1>2, <1>4 DEF new

-----------------------------------------------------------------------------
(* The thread of sendTask *)

(* serverTask holds a std::thread exactly while there is a send thread, and *)
(* it ends, or leaves its `join`, only without one.                         *)
ThreadHeld ==
  /\ sendThread \in BOOLEAN
  /\ sendThread <=> sendAt # "none"
  /\ serverAt \in {"stopSend", "join", "quitJoin"} => sendThread
  /\ serverAt = "done" => ~sendThread

LEMMA ServerTaskHolds == ASSUME ThreadHeld, serverTask PROVE ThreadHeld'
<1> USE DEF ThreadHeld
<1>1. CASE CheckStop \/ Receive \/ ReceiveNothing \/ FindClient
  BY <1>1 DEF CheckStop, Receive, ReceiveNothing, FindClient, ServerGoto, ServerOthers
<1>2. CASE TouchClient \/ AddClient \/ EraseClients
  BY <1>2 DEF TouchClient, AddClient, EraseClients, Erased, ServerGoto, ServerOthers
<1>3. CASE NeedsCheck \/ NobodyLeft
  BY <1>3 DEF NeedsCheck, NobodyLeft, ServerGoto, ServerOthers
<1>4. CASE StartSend
  BY <1>4 DEF StartSend, ServerGoto
<1>5. CASE StopSending
  BY <1>5 DEF StopSending, ServerGoto, ServerOthers
<1>6. CASE JoinSend
  BY <1>6 DEF JoinSend, ServerGoto
<1> QED BY <1>1, <1>2, <1>3, <1>4, <1>5, <1>6 DEF serverTask

LEMMA SendTaskHolds == ASSUME ThreadHeld, sendTask PROVE ThreadHeld'
<1> USE DEF ThreadHeld, SendGoto, ReadOnlyForSend
<1>1. CASE StartFrameGrab \/ CheckStopSending \/ PrepareDataAnswer
  BY <1>1 DEF StartFrameGrab, CheckStopSending, PrepareDataAnswer
<1>2. CASE SendToClient \/ SentToAll
  BY <1>2 DEF SendToClient, SentToAll
<1>3. CASE CountTick \/ StopFrameGrab
  BY <1>3 DEF CountTick, StopFrameGrab
<1> QED BY <1>1, <1>2, <1>3 DEF sendTask

(* The Server holds a thread to join exactly while there is one. *)
THEOREM ThreadIsHeld == Spec => []ThreadHeld
<1>1. Init => ThreadHeld
  BY DEF Init, ThreadHeld
<1>2. ThreadHeld /\ [Next]_vars => ThreadHeld'
  <2>1. ThreadHeld /\ (Destroy \/ UNCHANGED vars) => ThreadHeld'
    BY DEF Destroy, vars, ThreadHeld
  <2> QED BY <2>1, ServerTaskHolds, SendTaskHolds DEF Next, Destroyed
<1> QED BY <1>1, <1>2, PTL DEF Spec

-----------------------------------------------------------------------------
(* Types *)

(* What TypeOK leaves open: sendTask is at the first client whenever it is *)
(* not sending, and a request is there while it is being handled.          *)
TypeInv ==
  /\ TypeOK
  /\ sendAt # "send" => next = 1
  /\ serverAt \in {"find", "add", "touch"} =>
       request \in [address : Addresses, id : Ids]

LEMMA TouchKeepsClients ==
  ASSUME TypeInv, TouchClient
  PROVE  clients' \in Seq(Client) /\ SameClients(clients', clients)
<1>1. /\ Len(clients) \in Nat /\ \A i \in 1..Len(clients) : clients[i] \in Client
  BY ElementOfSeq, LenProperties DEF TypeInv, TypeOK
<1> DEFINE touched(c) == IF IsClient(c) THEN [c EXCEPT !.sendTimeout = 0] ELSE c
<1>2. \A c \in Client : /\ touched(c) \in Client
                        /\ touched(c).address = c.address /\ touched(c).id = c.id
  BY ServerAssumption DEF Client
<1>3. clients' = [i \in 1..Len(clients) |-> touched(clients[i])]
  BY DEF TouchClient
<1> HIDE DEF touched
<1>4. clients' \in [1..Len(clients) -> Client]
  BY <1>1, <1>2, <1>3
<1>5. clients' \in Seq(Client) /\ Len(clients') = Len(clients)
  BY <1>1, <1>4, FunctionIsSeq
<1> QED BY <1>1, <1>2, <1>3, <1>5 DEF SameClients

LEMMA AddKeepsClients ==
  ASSUME TypeInv, AddClient
  PROVE  /\ clients' \in Seq(Client) /\ Len(clients) \in Nat
         /\ Len(clients') = Len(clients) + 1
         /\ \A i \in 1..Len(clients) : clients'[i] = clients[i]
         /\ clients'[Len(clients) + 1] =
               [address |-> request.address, id |-> request.id, sendTimeout |-> 0]
<1> DEFINE new == [address |-> request.address, id |-> request.id, sendTimeout |-> 0]
<1>1. new \in Client
  BY ServerAssumption DEF AddClient, ServerGoto, TypeInv, Client
<1>2. clients \in Seq(Client) /\ clients' = Append(clients, new)
  BY DEF AddClient, TypeInv, TypeOK
<1> HIDE DEF new
<1>3. /\ clients' \in Seq(Client) /\ Len(clients) \in Nat
      /\ Len(clients') = Len(clients) + 1
      /\ \A i \in 1..Len(clients) : clients'[i] = clients[i]
      /\ clients'[Len(clients) + 1] = new
  BY <1>1, <1>2, AppendProperties, LenProperties
<1> QED BY <1>3 DEF new

LEMMA EraseKeepsClients ==
  ASSUME TypeInv, EraseClients
  PROVE  clients' \in Seq(Client) /\ SomeClients(clients', clients)
<1>1. clients \in Seq(Client) /\ SameClients(clients, clients)
  BY DEF TypeInv, TypeOK, SameClients
<1>2. clients' = Remaining(TickAll(clients)) \/ clients' = Remaining(clients)
  BY DEF EraseClients, TickAll
<1> QED BY <1>1, <1>2, TickAllClients, RemainingClients

LEMMA CountKeepsClients ==
  ASSUME TypeInv, CountTick
  PROVE  clients' \in Seq(Client) /\ SameClients(clients', clients)
  BY TickAllClients DEF CountTick, TickAll, TypeInv, TypeOK

(* Everything else leaves the list alone. *)
LEMMA OthersKeepClients ==
  ASSUME [Next]_vars, ~TouchClient, ~AddClient, ~EraseClients, ~CountTick
  PROVE  clients' = clients
  BY DEF Next, serverTask, sendTask, CheckStop, Receive, ReceiveNothing, FindClient,
         StartSend, NeedsCheck, NobodyLeft, StopSending, JoinSend, StartFrameGrab,
         CheckStopSending, PrepareDataAnswer, SendToClient, SentToAll, StopFrameGrab,
         Destroy, Destroyed, clientVars, vars

(* While sendTask goes through the list it stays as it is. *)
LEMMA ListChange ==
  ASSUME TypeInv, [Next]_vars
  PROVE  /\ clients' \in Seq(Client)
         /\ clients' # clients => sendAt # "send" /\ sendAt' # "send"
<1>1. clients' \in Seq(Client)
  BY TouchKeepsClients, AddKeepsClients, EraseKeepsClients, CountKeepsClients,
     OthersKeepClients DEF TypeInv, TypeOK
<1>2. TouchClient \/ AddClient \/ EraseClients \/ CountTick =>
        sendAt # "send" /\ sendAt' # "send"
  BY DEF TouchClient, AddClient, EraseClients, Erased, CountTick, ServerOthers, SendGoto
<1> QED BY <1>1, <1>2, OthersKeepClients

(* Nobody is sent anything, or dropped, in any other step. *)
LEMMA OthersKeepGot ==
  ASSUME [Next]_vars, ~SendToClient, ~EraseClients
  PROVE  got' = got
  BY DEF Next, serverTask, sendTask, CheckStop, Receive, ReceiveNothing, FindClient,
         TouchClient, AddClient, StartSend, NeedsCheck, NobodyLeft, StopSending, JoinSend,
         StartFrameGrab, CheckStopSending, PrepareDataAnswer, SentToAll, CountTick,
         StopFrameGrab, Destroy, Destroyed, ServerOthers, vars

(* The type invariant, for any addresses, ids and periods. *)
LEMMA TypeInvariant == Spec => []TypeInv
<1>1. Init => TypeInv
  <2> SUFFICES ASSUME Init PROVE TypeInv
    OBVIOUS
  <2>1. clients \in Seq(Client) /\ next \in 1..(Len(clients) + 1)
    BY EmptySeq DEF Init
  <2>2. packet \in 0..(PacketModulus - 1)
    BY ServerAssumption DEF Init
  <2> QED BY <2>1, <2>2 DEF Init, PrepareAnswerConstants, TypeInv, TypeOK, ServerSteps, SendSteps
<1>2. ThreadHeld /\ TypeInv /\ [Next]_vars => TypeInv'
  <2> SUFFICES ASSUME ThreadHeld, TypeInv, [Next]_vars PROVE TypeInv'
    OBVIOUS
  <2>1. /\ clients' \in Seq(Client)
        /\ clients' # clients => sendAt # "send" /\ sendAt' # "send"
    BY ListChange
  <2>2. /\ serverAt' \in ServerSteps
        /\ request' \in {<<>>} \cup [address : Addresses, id : Ids]
        /\ serverAt' \in {"find", "add", "touch"} =>
             request' \in [address : Addresses, id : Ids]
        /\ versionType' \in UnsetTypes
    <3>1. CASE CheckStop \/ Receive \/ ReceiveNothing \/ FindClient
      BY <3>1 DEF CheckStop, Receive, ReceiveNothing, FindClient, ServerGoto,
                  ServerOthers, TypeInv, TypeOK, ServerSteps
    <3>2. CASE TouchClient \/ AddClient \/ StartSend
      BY <3>2 DEF TouchClient, AddClient, StartSend, ServerGoto, ServerOthers,
                  TypeInv, TypeOK, ServerSteps
    <3>3. CASE NeedsCheck \/ EraseClients \/ NobodyLeft
      BY <3>3 DEF NeedsCheck, EraseClients, Erased, NobodyLeft, ServerGoto, ServerOthers,
                  TypeInv, TypeOK, ServerSteps
    <3>4. CASE StopSending \/ JoinSend
      BY <3>4 DEF StopSending, JoinSend, ServerGoto, ServerOthers, requestVars,
                  TypeInv, TypeOK, ServerSteps
    <3>5. CASE sendTask \/ Destroy \/ UNCHANGED vars
      BY <3>5 DEF sendTask, StartFrameGrab, CheckStopSending, PrepareDataAnswer,
                  SendToClient, SentToAll, CountTick, StopFrameGrab, ReadOnlyForSend,
                  Destroy, requestVars, vars, TypeInv, TypeOK
    <3> QED BY <3>1, <3>2, <3>3, <3>4, <3>5 DEF Next, serverTask, Destroyed
  <2>3. /\ checkTimeout' \in BOOLEAN /\ sendThread' \in BOOLEAN
        /\ stopSending' \in BOOLEAN /\ stop' \in BOOLEAN
    <3>1. CASE serverTask
      BY <3>1, Zenon DEF serverTask, CheckStop, Receive, ReceiveNothing, FindClient,
           TouchClient, AddClient, StartSend, NeedsCheck, EraseClients, Erased, NobodyLeft,
           StopSending, JoinSend, ServerOthers, clientVars, TypeInv, TypeOK
    <3>2. CASE sendTask \/ Destroy \/ UNCHANGED vars
      BY <3>2 DEF sendTask, StartFrameGrab, CheckStopSending, PrepareDataAnswer,
                  SendToClient, SentToAll, CountTick, StopFrameGrab, ReadOnlyForSend,
                  Destroy, clientVars, vars, TypeInv, TypeOK
    <3> QED BY <3>1, <3>2 DEF Next, Destroyed
  <2>4. /\ sendAt' \in SendSteps
        /\ packet' \in 0..(PacketModulus - 1)
        /\ dataAnswer' \in [id : Ids \cup {0}, packet : 0..(PacketModulus - 1)]
        /\ next' \in 1..(Len(clients') + 1)
        /\ sendAt' # "send" => next' = 1
    <3>0. Len(clients) \in Nat /\ Len(clients') \in Nat
      BY <2>1, LenProperties DEF TypeInv, TypeOK
    <3>1. CASE UNCHANGED <<sendVars, clients>> /\ sendAt' = sendAt
      BY <3>1 DEF sendVars, TypeInv, TypeOK
    <3>2. CASE UNCHANGED sendVars /\ sendAt # "send" /\ sendAt' \in SendSteps \ {"send"}
      BY <3>0, <3>2 DEF sendVars, TypeInv, TypeOK
    <3>3. CASE serverTask \/ Destroy \/ UNCHANGED vars
      <4>1. UNCHANGED sendVars
        BY <3>3 DEF serverTask, CheckStop, Receive, ReceiveNothing, FindClient, TouchClient,
             AddClient, StartSend, NeedsCheck, EraseClients, Erased, NobodyLeft, StopSending,
             JoinSend, ServerOthers, Destroy, vars
      <4>2. CASE StartSend \/ JoinSend
        <5>1. sendAt' # sendAt => sendAt # "send" /\ sendAt' \in {"start", "none"}
          BY <4>2 DEF StartSend, JoinSend, ThreadHeld
        <5> QED BY <2>1, <3>1, <3>2, <4>1, <4>2, <5>1
                DEF StartSend, JoinSend, clientVars, SendSteps
      <4>3. CASE ~StartSend /\ ~JoinSend
        <5>1. sendAt' = sendAt
          BY <3>3, <4>3 DEF serverTask, CheckStop, Receive, ReceiveNothing, FindClient,
             TouchClient, AddClient, NeedsCheck, EraseClients, Erased, NobodyLeft, StopSending,
             ServerOthers, Destroy, vars
        <5> QED BY <2>1, <3>0, <4>1, <5>1 DEF sendVars, TypeInv, TypeOK
      <4> QED BY <4>2, <4>3
    <3>4. CASE StartFrameGrab
      BY <3>0, <3>4, ServerAssumption DEF StartFrameGrab, SendGoto, clientVars, TypeInv,
           TypeOK, SendSteps
    <3>5. CASE CheckStopSending \/ CountTick \/ StopFrameGrab
      BY <3>0, <3>5 DEF CheckStopSending, CountTick, StopFrameGrab, SendGoto, clientVars,
                        sendVars, TypeInv, TypeOK, SendSteps
    <3>6. CASE PrepareDataAnswer
      <4>1. packet' \in 0..(PacketModulus - 1)
        BY <3>6, ServerAssumption DEF PrepareDataAnswer, TypeInv, TypeOK
      <4>2. dataAnswer' \in [id : Ids \cup {0}, packet : 0..(PacketModulus - 1)]
        BY <3>6, <4>1 DEF PrepareDataAnswer, TypeInv, TypeOK
      <4> QED BY <3>0, <3>6, <4>1, <4>2 DEF PrepareDataAnswer, SendGoto, clientVars,
                   TypeInv, TypeOK, SendSteps
    <3>7. CASE SendToClient
      <4>1. clients[next] \in Client /\ next \in 1..Len(clients)
        BY <3>0, <3>7, ElementOfSeq DEF SendToClient, TypeInv, TypeOK
      <4> QED BY <3>0, <3>7, <4>1 DEF SendToClient, ModifyDataAnswerId, clientVars, Client,
                   TypeInv, TypeOK, SendSteps
    <3>8. CASE SentToAll
      BY <3>0, <3>8 DEF SentToAll, SendGoto, clientVars, TypeInv, TypeOK, SendSteps
    <3> QED BY <3>3, <3>4, <3>5, <3>6, <3>7, <3>8 DEF Next, sendTask, Destroyed
  <2>5. got' \in [Addresses -> {<<>>} \cup Datagram]
    <3>1. CASE SendToClient
      <4>1. clients[next] \in Client
        BY <3>1, ElementOfSeq DEF SendToClient, TypeInv, TypeOK
      <4>2. dataAnswer' \in Datagram
        BY <3>1, <4>1 DEF SendToClient, ModifyDataAnswerId, Datagram, Client, TypeInv, TypeOK
      <4> QED BY <3>1, <4>2 DEF SendToClient, TypeInv, TypeOK
    <3>2. CASE EraseClients
      BY <3>2 DEF EraseClients, Erased, TypeInv, TypeOK
    <3>3. CASE ~SendToClient /\ ~EraseClients
      BY <3>3, OthersKeepGot DEF TypeInv, TypeOK
    <3> QED BY <3>1, <3>2, <3>3
  <2> QED BY <2>1, <2>2, <2>3, <2>4, <2>5 DEF TypeInv, TypeOK
<1> QED BY <1>1, <1>2, ThreadIsHeld, PTL DEF Spec

(* Every variable has its type, and the list stays a list of clients. *)
THEOREM TypeCorrect == Spec => []TypeOK
<1>1. TypeInv => TypeOK
  BY DEF TypeInv
<1> QED BY <1>1, TypeInvariant, PTL

-----------------------------------------------------------------------------
(* The life cycle of sendTask *)

(* Where serverTask may be while there is a send thread exactly for the    *)
(* clients in the list.                                                    *)
Settled == {"loop", "recv", "find", "touch", "add", "check", "eraseTick", "erase"}

ForClients ==
  /\ serverAt \in Settled => (sendThread <=> clients # <<>>)
  /\ serverAt = "startSend" => clients # <<>>
  /\ serverAt = "empty" /\ clients # <<>> => sendThread
  /\ serverAt \in {"stopSend", "join"} => clients = <<>>

(* sendTask ends only when it was told to, and it is told only when it is  *)
(* about to be joined.                                                     *)
ToldToStop ==
  /\ stopSending /\ sendThread => serverAt \in {"join", "quitJoin"}
  /\ sendAt \in {"stopGrab", "done"} => stopSending

LEMMA EmptyList ==
  ASSUME NEW new \in Seq(Client), NEW old \in Seq(Client)
  PROVE  /\ SameClients(new, old) => (new = <<>> <=> old = <<>>)
         /\ SomeClients(new, old) /\ old = <<>> => new = <<>>
<1>1. \A s \in Seq(Client) : Len(s) \in Nat /\ (s = <<>> <=> Len(s) = 0)
  BY EmptySeq, LenProperties
<1>2. SameClients(new, old) => (new = <<>> <=> old = <<>>)
  BY <1>1 DEF SameClients
<1>3. ASSUME SomeClients(new, old), Len(old) = 0, Len(new) # 0 PROVE FALSE
  <2>1. PICK f : f \in [1..Len(new) -> 1..0]
    BY <1>3 DEF SomeClients
  <2>2. 1 \in 1..Len(new)
    BY <1>1, <1>3
  <2> QED BY <2>1, <2>2
<1> QED BY <1>1, <1>2, <1>3

LEMMA ServerForClients ==
  ASSUME TypeInv, ThreadHeld, ForClients, serverTask PROVE ForClients'
<1> USE DEF ForClients, Settled
<1>1. CASE CheckStop \/ Receive \/ ReceiveNothing \/ FindClient
  BY <1>1 DEF CheckStop, Receive, ReceiveNothing, FindClient, ServerGoto, clientVars
<1>2. CASE TouchClient
  BY <1>2, TouchKeepsClients, EmptyList DEF TouchClient, ServerGoto, TypeInv, TypeOK
<1>3. CASE AddClient
  <2>1. clients' # <<>>
    BY <1>3, AddKeepsClients, EmptySeq
  <2> QED BY <1>3, <2>1 DEF AddClient, ServerGoto
<1>4. CASE StartSend
  BY <1>4 DEF StartSend, ServerGoto, clientVars
<1>5. CASE EraseClients
  BY <1>5, EraseKeepsClients, EmptyList DEF EraseClients, Erased, ServerGoto, TypeInv, TypeOK
<1>6. CASE NeedsCheck \/ NobodyLeft
  BY <1>6 DEF NeedsCheck, NobodyLeft, ServerGoto, clientVars
<1>7. CASE StopSending
  BY <1>7 DEF StopSending, ServerGoto, clientVars
<1>8. CASE JoinSend
  BY <1>8 DEF JoinSend, ServerGoto, clientVars
<1> QED BY <1>1, <1>2, <1>3, <1>4, <1>5, <1>6, <1>7, <1>8 DEF serverTask

LEMMA SendForClients ==
  ASSUME TypeInv, ForClients, sendTask PROVE ForClients'
<1>1. UNCHANGED <<serverAt, sendThread>>
  BY DEF sendTask, StartFrameGrab, CheckStopSending, PrepareDataAnswer, SendToClient,
         SentToAll, CountTick, StopFrameGrab, ReadOnlyForSend
<1>2. clients' = <<>> <=> clients = <<>>
  <2>1. CASE CountTick
    BY <2>1, CountKeepsClients, EmptyList DEF TypeInv, TypeOK
  <2>2. CASE ~CountTick
    BY <2>2 DEF sendTask, StartFrameGrab, CheckStopSending, PrepareDataAnswer,
                SendToClient, SentToAll, StopFrameGrab, clientVars
  <2> QED BY <2>1, <2>2
<1> QED BY <1>1, <1>2 DEF ForClients

LEMMA ServerToldToStop ==
  ASSUME ThreadHeld, ToldToStop, serverTask PROVE ToldToStop'
<1> USE DEF ToldToStop
<1>1. CASE UNCHANGED <<sendThread, stopSending, sendAt>>
  BY <1>1 DEF serverTask, CheckStop, Receive, ReceiveNothing, FindClient, TouchClient,
       AddClient, StartSend, NeedsCheck, EraseClients, Erased, NobodyLeft, StopSending, JoinSend,
       ServerGoto
<1>2. CASE StartSend \/ StopSending \/ JoinSend
  BY <1>2 DEF StartSend, StopSending, JoinSend, ServerGoto, ServerOthers, ThreadHeld
<1>3. UNCHANGED <<sendThread, stopSending, sendAt>> \/ StartSend \/ StopSending \/ JoinSend
  BY DEF serverTask, CheckStop, Receive, ReceiveNothing, FindClient, TouchClient,
         AddClient, NeedsCheck, EraseClients, Erased, NobodyLeft, ServerOthers
<1> QED BY <1>1, <1>2, <1>3

LEMMA SendToldToStop ==
  ASSUME ToldToStop, sendTask PROVE ToldToStop'
<1> USE DEF ToldToStop, SendGoto, ReadOnlyForSend
<1>1. CASE StartFrameGrab \/ CheckStopSending \/ PrepareDataAnswer
  BY <1>1 DEF StartFrameGrab, CheckStopSending, PrepareDataAnswer
<1>2. CASE SendToClient \/ SentToAll
  BY <1>2 DEF SendToClient, SentToAll
<1>3. CASE CountTick \/ StopFrameGrab
  BY <1>3 DEF CountTick, StopFrameGrab
<1> QED BY <1>1, <1>2, <1>3 DEF sendTask

(* Both are kept by every step. *)
LEMMA SendsKept == Spec => [](ForClients /\ ToldToStop)
<1> DEFINE SendInv == ForClients /\ ToldToStop
<1>1. Init => SendInv
  BY DEF Init, ForClients, ToldToStop, Settled
<1>2. TypeInv /\ ThreadHeld /\ SendInv /\ [Next]_vars => SendInv'
  <2>1. SendInv /\ (Destroy \/ UNCHANGED vars) => SendInv'
    BY DEF Destroy, vars, clientVars, ForClients, ToldToStop
  <2> QED BY <2>1, ServerForClients, SendForClients, ServerToldToStop, SendToldToStop
          DEF Next, Destroyed
<1> QED BY <1>1, <1>2, TypeInvariant, ThreadIsHeld, PTL DEF Spec

(* Between two turns there is a send thread exactly for the clients in the *)
(* list, and nobody has told it to stop (stopSending, line 288).           *)
THEOREM SendsForClients == Spec => []SendThreadIffClients
<1>1. ThreadHeld /\ ForClients /\ ToldToStop => SendThreadIffClients
  BY DEF ForClients, ToldToStop, Settled, ThreadHeld, SendThreadIffClients
<1> QED BY <1>1, SendsKept, ThreadIsHeld, PTL

-----------------------------------------------------------------------------
(* Who is subscribed *)

(* What serverTask found under the shared lock stays true until it uses it. *)
SubscriptionInv ==
  /\ SubscribedOnce
  /\ serverAt = "add" => request.address \notin Subscribed
  /\ serverAt = "touch" => request.address \in Subscribed

LEMMA SameSubscribed ==
  ASSUME SameClients(clients', clients)
  PROVE  Subscribed' = Subscribed /\ (SubscribedOnce => SubscribedOnce')
  BY DEF SameClients, Subscribed, SubscribedOnce

LEMMA SomeSubscribed ==
  ASSUME TypeInv, clients' \in Seq(Client), SomeClients(clients', clients), SubscribedOnce
  PROVE  SubscribedOnce'
<1>1. Len(clients) \in Nat /\ Len(clients') \in Nat
  BY LenProperties DEF TypeInv, TypeOK
<1>2. PICK f \in [1..Len(clients') -> 1..Len(clients)] :
        /\ \A i, j \in 1..Len(clients') : i < j => f[i] < f[j]
        /\ \A i \in 1..Len(clients') : clients'[i].address = clients[f[i]].address
  BY DEF SomeClients
<1>3. ASSUME NEW i \in 1..Len(clients'), NEW j \in 1..Len(clients'),
             clients'[i].address = clients'[j].address
      PROVE  i = j
  <2>1. f[i] = f[j]
    BY <1>2, <1>3 DEF SubscribedOnce
  <2> QED BY <1>1, <1>2, <2>1
<1> QED BY <1>3 DEF SubscribedOnce

LEMMA AddedOnce ==
  ASSUME TypeInv, SubscriptionInv, AddClient PROVE SubscribedOnce'
<1>1. /\ Len(clients) \in Nat /\ Len(clients') = Len(clients) + 1
      /\ \A i \in 1..Len(clients) : clients'[i] = clients[i]
      /\ clients'[Len(clients) + 1].address = request.address
  BY AddKeepsClients
<1>2. \A i \in 1..Len(clients) : clients[i].address # request.address
  BY DEF AddClient, ServerGoto, SubscriptionInv, Subscribed
<1>3. ASSUME NEW i \in 1..Len(clients'), NEW j \in 1..Len(clients'),
             clients'[i].address = clients'[j].address
      PROVE  i = j
  <2>1. CASE i \in 1..Len(clients) /\ j \in 1..Len(clients)
    BY <1>1, <1>3, <2>1 DEF SubscriptionInv, SubscribedOnce
  <2>2. CASE i = Len(clients) + 1 /\ j \in 1..Len(clients)
    BY <1>1, <1>2, <1>3, <2>2
  <2>3. CASE j = Len(clients) + 1 /\ i \in 1..Len(clients)
    BY <1>1, <1>2, <1>3, <2>3
  <2> QED BY <1>1, <2>1, <2>2, <2>3
<1> QED BY <1>3 DEF SubscribedOnce

LEMMA ServerKeepsSubscriptions ==
  ASSUME TypeInv, SubscriptionInv, serverTask PROVE SubscriptionInv'
<1> USE DEF SubscriptionInv
<1>1. CASE FindClient
  <2>1. UNCHANGED <<clients, request>>
    BY <1>1 DEF FindClient, clientVars
  <2>2. serverAt' = IF request.address \in Subscribed THEN "touch" ELSE "add"
    BY <1>1 DEF FindClient, ServerGoto, IsClient, Subscribed
  <2> QED BY <2>1, <2>2 DEF SubscribedOnce, Subscribed
<1>2. CASE TouchClient
  BY <1>2, TouchKeepsClients, SameSubscribed DEF TouchClient, ServerGoto
<1>3. CASE AddClient
  BY <1>3, AddedOnce DEF AddClient, ServerGoto
<1>4. CASE EraseClients
  BY <1>4, EraseKeepsClients, SomeSubscribed DEF EraseClients, ServerGoto
<1>5. CASE CheckStop \/ Receive \/ ReceiveNothing
  BY <1>5 DEF CheckStop, Receive, ReceiveNothing, ServerGoto, clientVars, SubscribedOnce
<1>6. CASE StartSend \/ NeedsCheck \/ NobodyLeft
  BY <1>6 DEF StartSend, NeedsCheck, NobodyLeft, ServerGoto, clientVars, SubscribedOnce
<1>7. CASE StopSending \/ JoinSend
  BY <1>7 DEF StopSending, JoinSend, ServerGoto, clientVars, SubscribedOnce
<1> QED BY <1>1, <1>2, <1>3, <1>4, <1>5, <1>6, <1>7 DEF serverTask

LEMMA SendKeepsSubscriptions ==
  ASSUME TypeInv, SubscriptionInv, sendTask PROVE SubscriptionInv'
<1>1. UNCHANGED <<serverAt, request>>
  BY DEF sendTask, StartFrameGrab, CheckStopSending, PrepareDataAnswer, SendToClient,
         SentToAll, CountTick, StopFrameGrab, ReadOnlyForSend, requestVars
<1>2. SameClients(clients', clients)
  <2>1. CASE CountTick
    BY <2>1, CountKeepsClients
  <2>2. CASE ~CountTick
    BY <2>2 DEF sendTask, StartFrameGrab, CheckStopSending, PrepareDataAnswer,
                SendToClient, SentToAll, StopFrameGrab, clientVars, SameClients
  <2> QED BY <2>1, <2>2
<1> QED BY <1>1, <1>2, SameSubscribed DEF SubscriptionInv

LEMMA SubscriptionsKept == Spec => []SubscriptionInv
<1>1. Init => SubscriptionInv
  BY EmptySeq DEF Init, SubscriptionInv, SubscribedOnce
<1>2. TypeInv /\ SubscriptionInv /\ [Next]_vars => SubscriptionInv'
  <2>1. SubscriptionInv /\ (Destroy \/ UNCHANGED vars) => SubscriptionInv'
    BY DEF Destroy, vars, clientVars, requestVars, SubscriptionInv, SubscribedOnce,
           Subscribed
  <2> QED BY <2>1, ServerKeepsSubscriptions, SendKeepsSubscriptions DEF Next, Destroyed
<1> QED BY <1>1, <1>2, TypeInvariant, PTL DEF Spec

(* No address is in the list twice, whatever is requested, repeated or     *)
(* timed out.                                                              *)
THEOREM OncePerAddress == Spec => []SubscribedOnce
<1>1. SubscriptionInv => SubscribedOnce
  BY DEF SubscriptionInv
<1> QED BY <1>1, SubscriptionsKept, PTL

(* The iterator found under the shared lock is still good when it is used  *)
(* under the exclusive one (lines 295-298).                                *)
THEOREM FoundStays == Spec => []FoundClientKept
<1>1. SubscriptionInv => FoundClientKept
  BY DEF SubscriptionInv, FoundClientKept
<1> QED BY <1>1, SubscriptionsKept, PTL

-----------------------------------------------------------------------------
(* Server implements Subscriptions, step by step *)

Once(list) ==
  \A i, j \in 1..Len(list) : list[i].address = list[j].address => i = j

AddressesIn(list) == {list[i].address : i \in 1..Len(list)}

SilenceIn(list) ==
  [a \in AddressesIn(list) |->
     list[CHOOSE i \in 1..Len(list) : list[i].address = a].sendTimeout]

LEMMA SilenceOf ==
  ASSUME NEW list, Once(list), NEW i \in 1..Len(list)
  PROVE  SilenceIn(list)[list[i].address] = list[i].sendTimeout
<1>1. list[i].address \in AddressesIn(list)
  BY DEF AddressesIn
<1>2. (CHOOSE j \in 1..Len(list) : list[j].address = list[i].address) = i
  BY DEF Once
<1> QED BY <1>1, <1>2 DEF SilenceIn

(* A function that has the ticks of each client is the silence. *)
LEMMA SilenceIs ==
  ASSUME NEW list, Once(list), NEW value,
         value = [a \in AddressesIn(list) |-> value[a]],
         \A i \in 1..Len(list) : value[list[i].address] = list[i].sendTimeout
  PROVE  SilenceIn(list) = value
<1>1. \A a \in AddressesIn(list) : SilenceIn(list)[a] = value[a]
  BY SilenceOf DEF AddressesIn
<1>2. SilenceIn(list) = [a \in AddressesIn(list) |-> SilenceIn(list)[a]]
  BY DEF SilenceIn
<1> QED BY <1>1, <1>2

LEMMA SilenceNow ==
  /\ Subscribed = AddressesIn(clients) /\ Subscribed' = AddressesIn(clients')
  /\ Silence = SilenceIn(clients) /\ Silence' = SilenceIn(clients')
  /\ SubscribedOnce = Once(clients) /\ SubscribedOnce' = Once(clients')
  /\ DOMAIN Silence = Subscribed
  BY DEF Subscribed, Silence, SubscribedOnce, AddressesIn, SilenceIn, Once

LEMMA TouchIsRequest ==
  ASSUME TypeInv, SubscriptionInv, SubscribedOnce', TouchClient
  PROVE  Promise!Request(request.address)
<1>1. Pending = {} /\ Pending' = {}
  BY DEF TouchClient, ServerOthers, Pending
<1>2. Subscribed' = Subscribed /\ request.address \in Subscribed
  BY TouchKeepsClients, SameSubscribed DEF TouchClient, ServerGoto, SubscriptionInv
<1> DEFINE value == [b \in Subscribed \cup {request.address} |->
                       IF b = request.address THEN 0 ELSE Silence[b]]
<1>3. ASSUME NEW i \in 1..Len(clients')
      PROVE  value[clients'[i].address] = clients'[i].sendTimeout
  <2>1. /\ i \in 1..Len(clients) /\ clients[i] \in Client
        /\ clients'[i] = IF clients[i].address = request.address
                         THEN [clients[i] EXCEPT !.sendTimeout = 0] ELSE clients[i]
    BY TouchKeepsClients, ElementOfSeq DEF TouchClient, SameClients, IsClient, TypeInv, TypeOK
  <2>2. clients[i].address \in Subscribed
    BY <2>1 DEF Subscribed
  <2>3. Silence[clients[i].address] = clients[i].sendTimeout
    BY <2>1, SilenceOf, SilenceNow DEF SubscriptionInv
  <2> QED BY <2>1, <2>2, <2>3 DEF Client
<1>4. value = [a \in AddressesIn(clients') |-> value[a]]
  BY <1>2, SilenceNow
<1> HIDE DEF value
<1>5. Silence' = value
  BY <1>3, <1>4, SilenceIs, SilenceNow
<1> QED BY <1>1, <1>5, SilenceNow DEF Promise!Request, value

LEMMA AddIsRequest ==
  ASSUME TypeInv, SubscriptionInv, SubscribedOnce', AddClient
  PROVE  Promise!Request(request.address)
<1>1. Pending = {} /\ Pending' = {}
  BY DEF AddClient, ServerOthers, Pending
<1>2. /\ Len(clients) \in Nat /\ Len(clients') = Len(clients) + 1
      /\ \A i \in 1..Len(clients) : clients'[i] = clients[i]
      /\ clients'[Len(clients) + 1].address = request.address
      /\ clients'[Len(clients) + 1].sendTimeout = 0
  BY AddKeepsClients
<1>3. AddressesIn(clients') = Subscribed \cup {request.address}
  <2>1. ASSUME NEW i \in 1..Len(clients')
        PROVE  clients'[i].address \in Subscribed \cup {request.address}
    <3>1. i \in 1..Len(clients) \/ i = Len(clients) + 1
      BY <1>2
    <3> QED BY <1>2, <3>1 DEF Subscribed
  <2>2. ASSUME NEW i \in 1..Len(clients)
        PROVE  clients[i].address \in AddressesIn(clients')
    BY <1>2 DEF AddressesIn
  <2>3. request.address \in AddressesIn(clients')
    BY <1>2 DEF AddressesIn
  <2> QED BY <2>1, <2>2, <2>3 DEF AddressesIn, Subscribed
<1> DEFINE value == [b \in Subscribed \cup {request.address} |->
                       IF b = request.address THEN 0 ELSE Silence[b]]
<1>4. ASSUME NEW i \in 1..Len(clients')
      PROVE  value[clients'[i].address] = clients'[i].sendTimeout
  <2>1. CASE i \in 1..Len(clients)
    <3>1. clients[i].address \in Subscribed
      BY <2>1 DEF Subscribed
    <3>2. request.address \notin Subscribed
      BY DEF AddClient, ServerGoto, SubscriptionInv
    <3>3. Silence[clients[i].address] = clients[i].sendTimeout
      BY <2>1, SilenceOf, SilenceNow DEF SubscriptionInv
    <3> QED BY <1>2, <2>1, <3>1, <3>2, <3>3
  <2>2. CASE i = Len(clients) + 1
    BY <1>2, <2>2
  <2> QED BY <1>2, <2>1, <2>2
<1>5. value = [a \in AddressesIn(clients') |-> value[a]]
  BY <1>3
<1> HIDE DEF value
<1>6. Silence' = value
  BY <1>4, <1>5, SilenceIs, SilenceNow
<1> QED BY <1>1, <1>6, SilenceNow DEF Promise!Request, value

LEMMA TickedSilence ==
  ASSUME TypeInv, SubscribedOnce
  PROVE  /\ Once(TickAll(clients)) /\ AddressesIn(TickAll(clients)) = Subscribed
         /\ SilenceIn(TickAll(clients)) = Promise!Ticked
<1> DEFINE list == TickAll(clients)
           value == Promise!Ticked
<1>1. /\ Len(list) = Len(clients)
      /\ \A i \in 1..Len(clients) : list[i].address = clients[i].address
      /\ \A i \in 1..Len(clients) : clients[i] \in Client /\ list[i] = Tick(clients[i])
  BY TickAllClients, ElementOfSeq DEF SameClients, TypeInv, TypeOK, TickAll
<1> HIDE DEF list
<1>2. Once(list) /\ AddressesIn(list) = Subscribed
  BY <1>1 DEF Once, AddressesIn, Subscribed, SubscribedOnce
<1>3. value = [a \in AddressesIn(list) |-> value[a]]
  BY <1>2, SilenceNow DEF Promise!Ticked
<1>4. ASSUME NEW i \in 1..Len(list) PROVE value[list[i].address] = list[i].sendTimeout
  <2>1. list[i].address \in Subscribed /\ list[i].address = clients[i].address
    BY <1>1 DEF Subscribed
  <2>2. Silence[clients[i].address] = clients[i].sendTimeout
    BY <1>1, SilenceOf, SilenceNow
  <2>3. list[i].sendTimeout = IF clients[i].sendTimeout > cSendTimeout
                             THEN clients[i].sendTimeout ELSE clients[i].sendTimeout + 1
    BY <1>1 DEF Tick, Client
  <2> QED BY <2>1, <2>2, <2>3, SilenceNow DEF Promise!Ticked
<1> HIDE DEF value
<1>5. SilenceIn(list) = value
  BY <1>2, <1>3, <1>4, SilenceIs
<1> QED BY <1>2, <1>5 DEF list, value

(* Those whose silence is not too long. *)
InTime(count) == [a \in {b \in DOMAIN count : count[b] <= cSendTimeout} |-> count[a]]

LEMMA RemainingInTime ==
  ASSUME NEW list \in Seq(Client), Once(list), Once(Remaining(list))
  PROVE  SilenceIn(Remaining(list)) = InTime(SilenceIn(list))
<1> DEFINE new == Remaining(list)
           value == InTime(SilenceIn(list))
<1>1. PICK f : Selects(list, Len(list), new, f)
  BY RemainingSelects
<1>2. Len(list) \in Nat /\ Len(new) \in Nat
  BY <1>1, LenProperties DEF Selects
<1>3. /\ f \in [1..Len(new) -> 1..Len(list)]
      /\ \A i \in 1..Len(new) : new[i] = list[f[i]]
      /\ \A k \in 1..Len(list) : list[k].sendTimeout <= cSendTimeout
                                 <=> \E i \in 1..Len(new) : f[i] = k
  BY <1>1 DEF Selects
<1>4. DOMAIN SilenceIn(list) = AddressesIn(list)
  BY DEF SilenceIn
<1> HIDE DEF new
<1>5. \A k \in 1..Len(list) : SilenceIn(list)[list[k].address] = list[k].sendTimeout
  BY SilenceOf
<1>6. ASSUME NEW a PROVE a \in AddressesIn(new) <=> a \in DOMAIN value
  <2>1. ASSUME a \in AddressesIn(new) PROVE a \in DOMAIN value
    <3>1. PICK i \in 1..Len(new) : a = new[i].address
      BY <2>1 DEF AddressesIn
    <3>2. a = list[f[i]].address /\ list[f[i]].sendTimeout <= cSendTimeout
      BY <1>3, <3>1
    <3> QED BY <1>3, <1>4, <1>5, <3>2 DEF InTime, AddressesIn
  <2>2. ASSUME a \in DOMAIN value PROVE a \in AddressesIn(new)
    <3>1. PICK k \in 1..Len(list) : a = list[k].address
      BY <1>4, <2>2 DEF InTime, AddressesIn
    <3>2. list[k].sendTimeout <= cSendTimeout
      BY <1>5, <2>2, <3>1 DEF InTime
    <3> QED BY <1>3, <3>1, <3>2 DEF AddressesIn
  <2> QED BY <2>1, <2>2
<1>7. value = [a \in AddressesIn(new) |-> value[a]]
  <2>1. value = [a \in DOMAIN value |-> value[a]]
    BY DEF InTime
  <2>2. AddressesIn(new) = DOMAIN value
    BY <1>6
  <2> QED BY <2>1, <2>2
<1>8. ASSUME NEW i \in 1..Len(new) PROVE value[new[i].address] = new[i].sendTimeout
  <2>1. new[i].address \in DOMAIN value
    BY <1>6 DEF AddressesIn
  <2> QED BY <1>3, <1>5, <2>1 DEF InTime
<1> HIDE DEF value
<1>9. Once(new)
  BY DEF new
<1>10. SilenceIn(new) = value
  BY <1>7, <1>8, <1>9, SilenceIs
<1> QED BY <1>10 DEF new, value

LEMMA EraseIsExpire ==
  ASSUME TypeInv, SubscribedOnce, SubscribedOnce', EraseClients
  PROVE  Promise!Expire(Silence) \/ Promise!Expire(Promise!Ticked)
<1>1. Pending = {} /\ Pending' = {}
  BY DEF EraseClients, Erased, ServerOthers, Pending
<1>2. CASE clients' = Remaining(clients)
  <2>1. Silence' = InTime(Silence)
    BY <1>2, RemainingInTime, SilenceNow DEF TypeInv, TypeOK
  <2> QED BY <1>1, <2>1 DEF Promise!Expire, InTime
<1>3. CASE clients' = Remaining(TickAll(clients))
  <2>1. Silence' = InTime(Promise!Ticked)
    BY <1>3, RemainingInTime, TickedSilence, TickAllClients, SilenceNow DEF TypeInv, TypeOK
  <2> QED BY <1>1, <2>1 DEF Promise!Expire, InTime
<1> QED BY <1>2, <1>3 DEF EraseClients, TickAll

LEMMA CountIsTick ==
  ASSUME TypeInv, SubscribedOnce, CountTick PROVE Promise!Tick
<1>1. Pending = {} /\ Pending' = {}
  BY DEF CountTick, SendGoto, Pending
<1>2. Silence' = Promise!Ticked
  BY TickedSilence, SilenceNow DEF CountTick, TickAll
<1> QED BY <1>1, <1>2 DEF Promise!Tick

(* A packet is due to everyone when it is begun ... *)
LEMMA PrepareMakesPending ==
  ASSUME TypeInv, PrepareDataAnswer PROVE Pending = {} /\ Pending' = Subscribed
  BY DEF PrepareDataAnswer, SendGoto, clientVars, TypeInv, Pending, Subscribed

(* ... and to one less with each datagram. *)
LEMMA SendMakesLessPending ==
  ASSUME TypeInv, SubscribedOnce, SendToClient
  PROVE  /\ next \in 1..Len(clients)
         /\ clients[next].address \in Pending
         /\ Pending' = Pending \ {clients[next].address}
<1>1. Len(clients) \in Nat /\ next \in 1..Len(clients)
  BY LenProperties DEF SendToClient, TypeInv, TypeOK
<1>2. /\ Pending = {clients[i].address : i \in next..Len(clients)}
      /\ Pending' = {clients[i].address : i \in (next + 1)..Len(clients)}
  BY DEF SendToClient, clientVars, Pending
<1>3. \A i \in (next + 1)..Len(clients) : clients[i].address # clients[next].address
  BY <1>1 DEF SubscribedOnce
<1>4. next..Len(clients) = {next} \cup ((next + 1)..Len(clients))
  BY <1>1
<1> QED BY <1>1, <1>2, <1>3, <1>4

LEMMA PrepareIsBegin ==
  ASSUME TypeInv, PrepareDataAnswer PROVE Promise!Begin
<1>1. Silence' = Silence /\ DOMAIN Silence = Subscribed
  BY SilenceNow DEF PrepareDataAnswer, clientVars
<1> QED BY <1>1, PrepareMakesPending DEF Promise!Begin

LEMMA SendIsDeliver ==
  ASSUME TypeInv, SubscribedOnce, SendToClient PROVE Promise!Deliver
<1>1. Silence' = Silence
  BY SilenceNow DEF SendToClient, clientVars
<1> QED BY <1>1, SendMakesLessPending DEF Promise!Deliver

LEMMA OthersKeepPromise ==
  ASSUME TypeInv, ThreadHeld, [Next]_vars, ~TouchClient, ~AddClient, ~EraseClients,
         ~CountTick, ~PrepareDataAnswer, ~SendToClient
  PROVE  UNCHANGED <<Silence, Pending>>
<1>1. clients' = clients
  BY OthersKeepClients
<1>2. Pending' = Pending
  <2>1. CASE SentToAll
    <3>1. next..Len(clients) = {}
      BY <2>1, LenProperties DEF SentToAll, TypeInv, TypeOK
    <3> QED BY <2>1, <3>1 DEF SentToAll, SendGoto, Pending
  <2>2. CASE ~SentToAll
    <3>1. next' = next \/ (sendAt # "send" /\ sendAt' # "send")
      BY <2>2 DEF Next, serverTask, sendTask, CheckStop, Receive, ReceiveNothing,
           FindClient, StartSend, NeedsCheck, NobodyLeft, StopSending, JoinSend,
           StartFrameGrab, CheckStopSending, StopFrameGrab, Destroy, Destroyed,
           ServerOthers, sendVars, vars
    <3>2. sendAt' = "send" <=> sendAt = "send"
      BY <2>2 DEF Next, serverTask, sendTask, CheckStop, Receive, ReceiveNothing,
           FindClient, StartSend, NeedsCheck, NobodyLeft, StopSending, JoinSend,
           StartFrameGrab, CheckStopSending, StopFrameGrab, Destroy, Destroyed,
           ServerOthers, SendGoto, ThreadHeld, vars
    <3> QED BY <1>1, <3>1, <3>2 DEF Pending
  <2> QED BY <2>1, <2>2
<1> QED BY <1>1, <1>2, SilenceNow

(* The server keeps the promise of Subscriptions (IsSubscription): every   *)
(* step of its two threads is a request, a tick, an expiry, the beginning  *)
(* of a packet, its delivery to one client, or nothing the clients notice. *)
THEOREM ImplementsSubscriptions == Spec => Promise!Safety
<1>1. Init => Promise!Init
  <2> SUFFICES ASSUME Init PROVE Promise!Init
    OBVIOUS
  <2>1. clients = <<>> /\ sendAt = "none"
    BY DEF Init
  <2>2. Subscribed = {}
    BY <2>1, EmptySeq DEF Subscribed
  <2> QED BY <2>1, <2>2 DEF Promise!Init, Silence, Pending
<1>2. TypeInv /\ ThreadHeld /\ SubscriptionInv /\ SubscriptionInv' /\ [Next]_vars
        => [Promise!Next]_Promise!vars
  <2> SUFFICES ASSUME TypeInv, ThreadHeld, SubscriptionInv, SubscriptionInv', [Next]_vars
               PROVE  Promise!Next \/ UNCHANGED Promise!vars
    OBVIOUS
  <2>1. SubscribedOnce /\ SubscribedOnce'
    BY DEF SubscriptionInv
  <2>2. CASE TouchClient \/ AddClient
    <3>1. request.address \in Addresses
      BY <2>2 DEF TouchClient, AddClient, ServerGoto, TypeInv
    <3> QED BY <2>1, <2>2, <3>1, TouchIsRequest, AddIsRequest DEF Promise!Next
  <2>3. CASE EraseClients
    BY <2>1, <2>3, EraseIsExpire DEF Promise!Next
  <2>4. CASE CountTick \/ PrepareDataAnswer \/ SendToClient
    BY <2>1, <2>4, CountIsTick, PrepareIsBegin, SendIsDeliver DEF Promise!Next
  <2>5. CASE /\ ~TouchClient /\ ~AddClient /\ ~EraseClients
             /\ ~CountTick /\ ~PrepareDataAnswer /\ ~SendToClient
    BY <2>5, OthersKeepPromise DEF Promise!vars
  <2> QED BY <2>2, <2>3, <2>4, <2>5
<1> QED BY <1>1, <1>2, TypeInvariant, ThreadIsHeld, SubscriptionsKept, PTL
        DEF Spec, Promise!Safety

-----------------------------------------------------------------------------
(* What a client is sent *)

NextNumber(a) == (got[a].packet + 1) % PacketModulus

(* A client that was sent something is subscribed still, under the id it   *)
(* was sent.                                                               *)
StreamOf ==
  /\ \A a \in Addresses : got[a] # <<>> => a \in Subscribed
  /\ \A i \in 1..Len(clients) :
       got[clients[i].address] # <<>> => got[clients[i].address].id = clients[i].id

(* sendTask has not begun anew since, and the packet it is at is the one   *)
(* after, for those it is still due to, or the same, for the others.       *)
StreamAt ==
  /\ \A a \in Addresses : got[a] # <<>> =>
       /\ sendAt # "start"
       /\ sendAt = "none" => serverAt = "done"
       /\ packet = IF a \in Pending THEN NextNumber(a) ELSE got[a].packet
  /\ sendAt = "send" => dataAnswer.packet = packet

LEMMA SentIs ==
  ASSUME TypeInv, SubscribedOnce, StreamAt, SendToClient
  PROVE  LET a == clients[next].address
         IN  /\ a \in Addresses /\ next \in 1..Len(clients)
             /\ got' = [got EXCEPT ![a] = [id |-> clients[next].id, packet |-> packet]]
             /\ got'[a] = [id |-> clients[next].id, packet |-> packet]
<1>1. next \in 1..Len(clients) /\ clients[next] \in Client
  BY SendMakesLessPending, ElementOfSeq DEF TypeInv, TypeOK
<1>2. dataAnswer' = [id |-> clients[next].id, packet |-> packet]
  BY DEF SendToClient, ModifyDataAnswerId, StreamAt, TypeInv, TypeOK
<1> QED BY <1>1, <1>2 DEF SendToClient, Client, TypeInv, TypeOK

LEMMA StreamsKeepClient ==
  ASSUME TypeInv, TypeInv', SubscriptionInv, StreamOf, StreamAt, [Next]_vars
  PROVE  StreamOf'
<1>0. \A i \in 1..Len(clients) : clients[i].address \in Addresses
  <2>1. \A i \in 1..Len(clients) : clients[i] \in Client
    BY ElementOfSeq DEF TypeInv, TypeOK
  <2> QED BY <2>1 DEF Client
<1>1. CASE SendToClient
  <2>1. clients' = clients /\ Subscribed' = Subscribed
    BY <1>1 DEF SendToClient, clientVars, Subscribed
  <2>2. ASSUME NEW i \in 1..Len(clients), i # next
        PROVE  got'[clients[i].address] = got[clients[i].address]
    BY <1>0, <1>1, <2>2, SentIs DEF SubscriptionInv, SubscribedOnce, TypeInv, TypeOK
  <2>3. got'[clients[next].address].id = clients[next].id
    BY <1>1, SentIs DEF SubscriptionInv
  <2>4. ASSUME NEW a \in Addresses, got'[a] # <<>> PROVE a \in Subscribed
    <3>1. CASE a = clients[next].address
      BY <1>1, <3>1, SentIs DEF SubscriptionInv, Subscribed
    <3>2. CASE a # clients[next].address
      BY <1>1, <2>4, <3>2, SentIs DEF SubscriptionInv, StreamOf, TypeInv, TypeOK
    <3> QED BY <3>1, <3>2
  <2> QED BY <2>1, <2>2, <2>3, <2>4 DEF StreamOf
<1>2. CASE EraseClients
  <2>1. got' = [a \in Addresses |-> IF a \in Subscribed' THEN got[a] ELSE <<>>]
    BY <1>2 DEF EraseClients, Erased
  <2>2. PICK f \in [1..Len(clients') -> 1..Len(clients)] :
          \A i \in 1..Len(clients') : /\ clients'[i].address = clients[f[i]].address
                                      /\ clients'[i].id = clients[f[i]].id
    BY <1>2, EraseKeepsClients DEF SomeClients
  <2>3. ASSUME NEW i \in 1..Len(clients')
        PROVE  got'[clients'[i].address] = got[clients[f[i]].address]
    BY <1>0, <2>1, <2>2 DEF Subscribed
  <2> QED BY <2>1, <2>2, <2>3 DEF StreamOf
<1>3. CASE AddClient
  <2>1. /\ Len(clients) \in Nat /\ Len(clients') = Len(clients) + 1
        /\ \A i \in 1..Len(clients) : clients'[i] = clients[i]
        /\ clients'[Len(clients) + 1].address = request.address
    BY <1>3, AddKeepsClients
  <2>2. got[request.address] = <<>> /\ got' = got
    BY <1>3, OthersKeepGot DEF AddClient, ServerGoto, ServerOthers, StreamOf,
       SubscriptionInv, TypeInv
  <2>3. \A i \in 1..Len(clients') : i \in 1..Len(clients) \/ i = Len(clients) + 1
    BY <2>1
  <2>4. Subscribed \subseteq Subscribed'
    BY <2>1 DEF Subscribed
  <2> QED BY <2>1, <2>2, <2>3, <2>4 DEF StreamOf
<1>4. CASE ~SendToClient /\ ~EraseClients /\ ~AddClient
  <2>1. SameClients(clients', clients) /\ got' = got
    BY <1>4, TouchKeepsClients, CountKeepsClients, OthersKeepClients, OthersKeepGot
       DEF SameClients
  <2>2. Subscribed' = Subscribed
    BY <2>1, SameSubscribed
  <2> QED BY <2>1, <2>2 DEF SameClients, StreamOf
<1> QED BY <1>1, <1>2, <1>3, <1>4

(* sendTask is where it was, or goes on from one step to the next.         *)
LEMMA SessionGoesOn ==
  ASSUME TypeInv, ThreadHeld, ForClients, StreamOf, StreamAt, [Next]_vars,
         NEW a \in Addresses, got[a] # <<>>
  PROVE  sendAt' # "start" /\ (sendAt' = "none" => serverAt' = "done" \/ clients = <<>>)
<1>1. CASE StartSend
  BY <1>1 DEF StartSend, ServerGoto, ThreadHeld, StreamAt
<1>2. CASE JoinSend
  BY <1>2 DEF JoinSend, ServerGoto, ForClients
<1>3. CASE sendTask
  BY <1>3 DEF sendTask, StartFrameGrab, CheckStopSending, PrepareDataAnswer, SendToClient,
       SentToAll, CountTick, StopFrameGrab, SendGoto, ReadOnlyForSend, StreamAt
<1>4. CASE ~StartSend /\ ~JoinSend /\ ~sendTask
  <2>1. sendAt' = sendAt /\ (serverAt = "done" => serverAt' = "done")
    BY <1>4 DEF Next, serverTask, CheckStop, Receive, ReceiveNothing, FindClient,
         TouchClient, AddClient, NeedsCheck, EraseClients, Erased, NobodyLeft, StopSending,
         ServerGoto, ServerOthers, Destroy, Destroyed, vars
  <2> QED BY <2>1 DEF StreamAt
<1> QED BY <1>1, <1>2, <1>3, <1>4

(* No client is left out of a packet or sent it twice. *)
LEMMA StreamsKeepPace ==
  ASSUME TypeInv, TypeInv', ThreadHeld, ForClients, SubscriptionInv, StreamOf, StreamAt,
         StreamOf', [Next]_vars
  PROVE  StreamAt'
<1>1. sendAt' = "send" => dataAnswer'.packet = packet'
  <2>1. CASE PrepareDataAnswer
    BY <2>1 DEF PrepareDataAnswer, TypeInv, TypeOK
  <2>2. CASE SendToClient
    BY <2>2 DEF SendToClient, ModifyDataAnswerId, StreamAt, TypeInv, TypeOK
  <2>3. CASE ~PrepareDataAnswer /\ ~SendToClient
    <3>1. sendAt' = "send" => sendAt = "send" /\ UNCHANGED <<dataAnswer, packet>>
      BY <2>3 DEF Next, serverTask, sendTask, CheckStop, Receive, ReceiveNothing, FindClient,
           TouchClient, AddClient, StartSend, NeedsCheck, EraseClients, Erased, NobodyLeft,
           StopSending, JoinSend, StartFrameGrab, CheckStopSending, SentToAll, CountTick,
           StopFrameGrab, Destroy, Destroyed, SendGoto, ServerOthers, sendVars, vars
    <3> QED BY <3>1 DEF StreamAt
  <2> QED BY <2>1, <2>2, <2>3
<1>2. ASSUME NEW a \in Addresses, got'[a] # <<>>
      PROVE  /\ sendAt' # "start"
             /\ sendAt' = "none" => serverAt' = "done"
             /\ packet' = IF a \in Pending' THEN NextNumber(a)' ELSE got'[a].packet
  <2>1. CASE SendToClient
    <3>1. /\ clients[next].address \in Pending
          /\ Pending' = Pending \ {clients[next].address}
      BY <2>1, SendMakesLessPending DEF SubscriptionInv
    <3>2. packet' = packet /\ sendAt' = "send"
      BY <2>1 DEF SendToClient
    <3>3. CASE a = clients[next].address
      BY <2>1, <3>1, <3>2, <3>3, SentIs DEF SubscriptionInv
    <3>4. CASE a # clients[next].address
      <4>1. got'[a] = got[a]
        BY <2>1, <3>4, SentIs DEF SubscriptionInv, TypeInv, TypeOK
      <4> QED BY <1>2, <3>1, <3>2, <3>4, <4>1 DEF StreamAt, NextNumber
    <3> QED BY <3>3, <3>4
  <2>2. CASE ~SendToClient
    <3>1. got'[a] = got[a] /\ got[a] # <<>> /\ a \in Subscribed'
      <4>1. CASE EraseClients
        BY <1>2, <4>1 DEF EraseClients, Erased, StreamOf
      <4>2. CASE ~EraseClients
        BY <1>2, <2>2, <4>2, OthersKeepGot DEF StreamOf
      <4> QED BY <4>1, <4>2
    <3>2. clients # <<>> /\ a \in Subscribed
      BY <3>1, EmptySeq DEF StreamOf, Subscribed
    <3>3. sendAt' # "start" /\ (sendAt' = "none" => serverAt' = "done")
      BY <3>1, <3>2, SessionGoesOn
    <3>4. CASE PrepareDataAnswer
      <4>1. a \notin Pending /\ a \in Pending'
        BY <3>2, <3>4, PrepareMakesPending
      <4> QED BY <3>1, <3>3, <3>4, <4>1 DEF PrepareDataAnswer, StreamAt, NextNumber
    <3>5. CASE ~PrepareDataAnswer
      <4>1. Pending' = Pending
        <5>1. CASE TouchClient \/ AddClient \/ EraseClients \/ CountTick
          BY <5>1 DEF TouchClient, AddClient, EraseClients, Erased, CountTick, ServerOthers,
               SendGoto, Pending
        <5> QED BY <2>2, <3>5, <5>1, OthersKeepPromise
      <4>2. packet' = packet
        <5>1. ~StartFrameGrab
          BY <3>1 DEF StartFrameGrab, SendGoto, StreamAt
        <5> QED BY <2>2, <3>5, <5>1 DEF Next, serverTask, sendTask, CheckStop, Receive,
             ReceiveNothing, FindClient, TouchClient, AddClient, StartSend, NeedsCheck,
             EraseClients, Erased, NobodyLeft, StopSending, JoinSend, CheckStopSending,
             SentToAll, CountTick, StopFrameGrab, Destroy, Destroyed, ServerOthers,
             sendVars, vars
      <4> QED BY <3>1, <3>3, <4>1, <4>2 DEF StreamAt, NextNumber
    <3> QED BY <3>4, <3>5
  <2> QED BY <2>1, <2>2
<1> QED BY <1>1, <1>2 DEF StreamAt

(* From subscription to timeout a client is sent consecutive packets under *)
(* one id, whatever the others do (StreamUnbroken).                        *)
THEOREM StreamsUnbroken == Spec => StreamUnbroken
<1> DEFINE StreamInv == StreamOf /\ StreamAt
           Goes ==
             \A a \in Addresses :
               next' = next + 1 /\ clients[next].address = a /\ got[a] # <<>> =>
                 got'[a] = [id |-> got[a].id,
                            packet |-> (got[a].packet + 1) % PacketModulus]
<1>1. Init => StreamInv
  BY EmptySeq DEF Init, StreamOf, StreamAt
<1>2. (/\ TypeInv /\ TypeInv' /\ ThreadHeld /\ ForClients /\ SubscriptionInv
       /\ StreamInv /\ [Next]_vars) => StreamInv'
  <2> SUFFICES ASSUME TypeInv, TypeInv', ThreadHeld, ForClients, SubscriptionInv,
                      StreamInv, [Next]_vars
               PROVE  StreamInv'
    OBVIOUS
  <2>1. StreamOf'
    BY StreamsKeepClient
  <2>2. StreamAt'
    BY <2>1, StreamsKeepPace
  <2> QED BY <2>1, <2>2
<1>3. TypeInv /\ SubscriptionInv /\ StreamInv /\ [Next]_vars => [Goes]_vars
  <2> SUFFICES ASSUME TypeInv, SubscriptionInv, StreamInv, [Next]_vars,
                      NEW a \in Addresses, next' = next + 1,
                      clients[next].address = a, got[a] # <<>>
               PROVE  got'[a] = [id |-> got[a].id, packet |-> NextNumber(a)]
    BY DEF NextNumber
  <2>1. SendToClient
    <3>1. next' # next
      BY DEF TypeInv, TypeOK
    <3>2. ~SentToAll
      BY LenProperties DEF SentToAll, TypeInv, TypeOK
    <3> QED BY <3>1, <3>2 DEF Next, serverTask, sendTask, CheckStop, Receive,
         ReceiveNothing, FindClient, TouchClient, AddClient, StartSend, NeedsCheck,
         EraseClients, Erased, NobodyLeft, StopSending, JoinSend, StartFrameGrab,
         CheckStopSending, PrepareDataAnswer, CountTick, StopFrameGrab, Destroy, Destroyed,
         ServerOthers, sendVars, vars
  <2>2. /\ next \in 1..Len(clients) /\ a \in Pending
        /\ got'[a] = [id |-> clients[next].id, packet |-> packet]
    BY <2>1, SentIs, SendMakesLessPending DEF SubscriptionInv
  <2> QED BY <2>2 DEF StreamOf, StreamAt
<1> QED BY <1>1, <1>2, <1>3, TypeInvariant, ThreadIsHeld, SubscriptionsKept, SendsKept,
           PTL DEF Spec, StreamUnbroken

=============================================================================
