------------------------- MODULE FramePipelineProofs -------------------------
(***************************************************************************)
(* Theorems about FramePipeline, for any number of consumers, reports and  *)
(* bytes in a report.  The first part is about the locks between ServeFrame*)
(* and its consumers, the second about the buffers ReadDataApi fills.      *)
(***************************************************************************)
EXTENDS FramePipeline, TLAPS

USE DEF pipeVars, deviceVars, readVars, serveVars, threadVars, userVars,
        newsVars, ReadOthers, ServeOthers, UserOthers, StopOthers

-----------------------------------------------------------------------------
(* A consumer that has been given a Serve and has not begun to erase it is *)
(* registered with ServeFrame; one that reads holds the mutex of its       *)
(* Serve; and ServeFrame waits for data only when it holds all of them.    *)
Served == {"packet", "want", "reading", "findServe", "eraseServe"}

Registered == \A c \in Consumers : at[c] \in Served => c \in frames
Exclusion  == \A c \in Consumers : at[c] = "reading" => c \notin locks
HoldsAll   == serveAt = "waitData" => frames \subseteq locks

LockInv ==
  /\ at \in [Consumers -> UserSteps]
  /\ Registered /\ Exclusion /\ HoldsAll

(* The locks between ServeFrame and the consumers do what they are for. *)
THEOREM LocksExclude == Spec => []LockInv
<1> USE DEF LockInv, Registered, Exclusion, HoldsAll, Served
<1>1. Init => LockInv
  BY DEF Init, UserSteps
<1>2. LockInv /\ [Next]_vars => LockInv'
  <2> SUFFICES ASSUME LockInv, [Next]_vars PROVE LockInv'
    OBVIOUS
  <2>1. CASE ReadDataApi
    <3>1. UNCHANGED <<at, frames, locks, serveAt>>
      BY <2>1 DEF ReadDataApi, OpenDevice, ReadShouldContinue, TryNoGyro, EnableGyro,
                  ReadReport, SendFrame, ReadCancelled
    <3>2. QED BY <3>1
  <2>2. CASE OpenFails \/ LateCancel
    BY <2>2 DEF OpenFails, LateCancel, RestartProcess, UserSteps
  <2>3. CASE ServeFrame
    <3>1. at' = at /\ frames' = frames
      BY <2>3 DEF ServeFrame, ServeShouldContinue, WaitForServes, LockFrames,
                  GetServeLock, GotServeLocks, ReceiveFrame, ReleaseServeLock,
                  UnlockFrames, ServeCancelled
    <3>2. CASE ServeShouldContinue \/ WaitForServes \/ LockFrames
      BY <3>1, <3>2 DEF ServeShouldContinue, WaitForServes, LockFrames, ServeGoto
    <3>3. CASE \E c \in Consumers : GetServeLock(c)
      BY <3>1, <3>3 DEF GetServeLock
    <3>4. CASE GotServeLocks
      BY <3>1, <3>4 DEF GotServeLocks, ServeGoto
    <3>5. CASE ReceiveFrame \/ UnlockFrames \/ ServeCancelled
      BY <3>1, <3>5 DEF ReceiveFrame, UnlockFrames, ServeCancelled, ServeGoto
    <3>6. CASE \E c \in Consumers : ReleaseServeLock(c)
      BY <3>1, <3>6 DEF ReleaseServeLock
    <3>7. QED BY <2>3, <3>2, <3>3, <3>4, <3>5, <3>6 DEF ServeFrame
  <2>4. ASSUME NEW c \in Consumers, User(c) PROVE LockInv'
    <3>1. CASE Start(c)
      BY <3>1 DEF Start, UserGoto, UserSteps
    <3>2. CASE GetServe(c)
      <4>1. serveAt # "waitData" /\ serveAt' # "waitData"
        BY <3>2 DEF GetServe, FramesLocked, WakeServeFrame
      <4>2. QED BY <3>2, <4>1 DEF GetServe, UserGoto, UserSteps
    <3>3. CASE NextPacket(c)
      BY <3>3 DEF NextPacket, UserGoto, UserSteps
    <3>4. CASE ConsumeLock(c)
      BY <3>4 DEF ConsumeLock, UserGoto, UserSteps
    <3>5. CASE EndConsume(c)
      BY <3>5 DEF EndConsume, UserGoto, UserSteps
    <3>6. QED BY <2>4, <3>1, <3>2, <3>3, <3>4, <3>5 DEF User
  <2>5. CASE StopServe
    <3>1. Sender \in Consumers BY DEF Consumers
    <3>2. QED BY <2>5, <3>1 DEF StopServe, FramesLocked, UserGoto, UserSteps, StopSteps
  <2>6. CASE Stopping
    <3>1. locks' = locks /\ frames' = frames
      BY <2>6 DEF Stopping, SetStop, FlushPipes, StopTimeout, Join
    <3>2. serveAt' = "waitData" => serveAt = "waitData"
      BY <2>6 DEF Stopping, SetStop, FlushPipes, StopTimeout, Join, WakeServeFrame
    <3>3. /\ at' \in [Consumers -> UserSteps]
          /\ \A c \in Consumers : at'[c] \in Served => at'[c] = at[c]
      BY <2>6 DEF Stopping, SetStop, FlushPipes, StopTimeout, Join, UserGoto,
                  UserSteps, StopSteps
    <3>4. QED BY <3>1, <3>2, <3>3
  <2>7. CASE WakeUnnotified \/ UNCHANGED vars
    BY <2>7 DEF WakeUnnotified, ServeGoto, vars
  <2>8. QED
    BY <2>1, <2>2, <2>3, <2>4, <2>5, <2>6, <2>7 DEF Next
<1>3. QED
  BY <1>1, <1>2, PTL DEF Spec

(* No consumer ever sees the received frame replaced while it reads it     *)
(* under its ConsumeLock, however many consumers there are.                *)
THEOREM FrameKept == Spec => FrameKeptUnderLock
<1>1. LockInv /\ [Next]_vars =>
        [\A c \in Consumers : (at[c] = "reading" /\ at'[c] = "reading")
                                => bufRcv' = bufRcv]_vars
  <2> SUFFICES ASSUME LockInv, [Next]_vars, NEW c \in Consumers,
                      at[c] = "reading", at'[c] = "reading"
               PROVE  bufRcv' = bufRcv
    OBVIOUS
  <2>1. CASE ReadDataApi
    BY <2>1 DEF ReadDataApi, OpenDevice, ReadShouldContinue, TryNoGyro, EnableGyro,
                ReadReport, SendFrame, SendData, ReadCancelled
  <2>2. CASE OpenFails \/ LateCancel
    BY <2>2 DEF OpenFails, LateCancel, RestartProcess
  <2>3. CASE ServeFrame
    <3>1. ~ReceiveFrame
      BY DEF LockInv, Registered, Exclusion, HoldsAll, Served, ReceiveFrame, ServeGoto
    <3>2. QED
      BY <2>3, <3>1 DEF ServeFrame, ServeShouldContinue, WaitForServes,
           LockFrames, GetServeLock, GotServeLocks, ReleaseServeLock,
           UnlockFrames, ServeCancelled
  <2>4. CASE \E d \in Consumers : User(d)
    BY <2>4 DEF User, Start, GetServe, NextPacket, ConsumeLock, EndConsume
  <2>5. CASE StopServe
    BY <2>5 DEF StopServe
  <2>6. CASE Stopping
    BY <2>6 DEF Stopping, SetStop, FlushPipes, SendData, StopTimeout, Join
  <2>7. CASE WakeUnnotified \/ UNCHANGED vars
    BY <2>7 DEF WakeUnnotified, vars
  <2>8. QED
    BY <2>1, <2>2, <2>3, <2>4, <2>5, <2>6, <2>7 DEF Next
<1>2. QED
  BY <1>1, LocksExclude, PTL DEF Spec, FrameKeptUnderLock

-----------------------------------------------------------------------------
(* The pointers of the PipeOut, which both sides and FlushPipes exchange.  *)
LEMMA PointersDistinct ==
  ASSUME PipeTypeOK
  PROVE  bufMod # bufRcv /\ bufMod \in Instances /\ bufRcv \in Instances
BY InstancesDistinct DEF PipeTypeOK, Instances

LEMMA SendDataKeepsType ==
  ASSUME PipeTypeOK, SendData PROVE PipeTypeOK'
BY DEF PipeTypeOK, SendData, Instances

LEMMA WaitForDataKeepsType ==
  ASSUME PipeTypeOK, WaitForData PROVE PipeTypeOK'
BY DEF PipeTypeOK, WaitForData, TakeSent, Instances

LEMMA SamePipeKeepsType ==
  ASSUME PipeTypeOK, UNCHANGED pipeVars PROVE PipeTypeOK'
BY DEF PipeTypeOK, Instances

(* hid_read writes where the pointer to fill points, until FlushPipes      *)
(* exchanges that pointer under it; from then on only ReadDataApi itself   *)
(* can end the read, and the Sender waits for the thread to be done.       *)
Flushed == {"notify", "joinServe", "stopRead", "joinRead"}

BufferInv ==
  /\ PipeTypeOK
  /\ at \in [Consumers -> UserSteps]
  /\ readAt # "read" => filling = {}
  /\ filling \subseteq {bufMod} \/ at[Sender] \in Flushed

(* The place hid_read writes to, in every reachable state. *)
THEOREM FillsOwnBuffer == Spec => []BufferInv
<1> USE DEF BufferInv
<1>0. Sender \in Consumers
  BY DEF Consumers
<1>1. Init => BufferInv
  BY <1>0 DEF Init, UserSteps, PipeInit, PipeTypeOK, Instances
<1>2. BufferInv /\ [Next]_vars => BufferInv'
  <2> SUFFICES ASSUME BufferInv, [Next]_vars PROVE BufferInv'
    OBVIOUS
  <2>1. CASE ReadDataApi
    <3>1. CASE OpenDevice \/ ReadShouldContinue
      <4>1. PipeTypeOK'
        BY <3>1, SamePipeKeepsType DEF OpenDevice, ReadShouldContinue
      <4>2. QED BY <3>1, <4>1 DEF OpenDevice, ReadShouldContinue
    <3>2. CASE TryNoGyro
      <4>1. PipeTypeOK' BY <3>2, SamePipeKeepsType DEF TryNoGyro, EnableGyro
      <4>2. QED BY <3>2, <4>1 DEF TryNoGyro, EnableGyro
    <3>3. CASE ReadReport \/ ReadCancelled
      <4>1. PipeTypeOK' BY <3>3, SamePipeKeepsType DEF ReadReport, ReadCancelled
      <4>2. QED BY <3>3, <4>1 DEF ReadReport, ReadCancelled
    <3>4. CASE SendFrame
      <4>1. PipeTypeOK' BY <3>4, SendDataKeepsType DEF SendFrame
      <4>2. QED BY <3>4, <4>1 DEF SendFrame
    <3>5. QED BY <2>1, <3>1, <3>2, <3>3, <3>4 DEF ReadDataApi
  <2>2. CASE OpenFails \/ LateCancel
    BY <2>2 DEF OpenFails, LateCancel, RestartProcess, UserSteps, PipeTypeOK, Instances
  <2>3. CASE ServeFrame
    <3>1. UNCHANGED <<readAt, filling, at>> /\ bufMod' = bufMod
      BY <2>3 DEF ServeFrame, ServeShouldContinue, WaitForServes, LockFrames,
                  GetServeLock, GotServeLocks, ReceiveFrame, WaitForData,
                  TakeSent, ReleaseServeLock, UnlockFrames, ServeCancelled
    <3>2. PipeTypeOK'
      <4>1. CASE ReceiveFrame
        BY <4>1, WaitForDataKeepsType DEF ReceiveFrame
      <4>2. CASE ~ReceiveFrame
        <5>1. UNCHANGED pipeVars
          BY <2>3, <4>2 DEF ServeFrame, ServeShouldContinue, WaitForServes,
               LockFrames, GetServeLock, GotServeLocks, ReleaseServeLock,
               UnlockFrames, ServeCancelled
        <5>2. QED BY <5>1, SamePipeKeepsType
      <4>3. QED BY <4>1, <4>2
    <3>3. QED BY <3>1, <3>2
  <2>4. ASSUME NEW c \in Consumers, User(c) PROVE BufferInv'
    <3>1. /\ at' \in [Consumers -> UserSteps]
          /\ filling' = filling
          /\ at[Sender] \in Flushed => at'[Sender] = at[Sender]
      BY <2>4, <1>0 DEF User, Start, GetServe, NextPacket, ConsumeLock, EndConsume,
                        UserGoto, UserSteps, Flushed
    <3>2. UNCHANGED pipeVars
      BY <2>4 DEF User, Start, GetServe, NextPacket, ConsumeLock, EndConsume
    <3>3. readAt' = readAt \/ (readAt = "none" /\ readAt' = "open")
      BY <2>4 DEF User, Start, GetServe, NextPacket, ConsumeLock, EndConsume
    <3>4. PipeTypeOK' BY <3>2, SamePipeKeepsType
    <3>5. QED BY <3>1, <3>2, <3>3, <3>4
  <2>5. CASE StopServe
    <3>1. PipeTypeOK' BY <2>5, SamePipeKeepsType DEF StopServe
    <3>2. QED BY <2>5, <3>1, <1>0 DEF StopServe, UserGoto, UserSteps, StopSteps, Flushed
  <2>6. CASE Stopping
    <3>1. CASE SetStop \/ StopTimeout
      <4>1. PipeTypeOK' BY <3>1, SamePipeKeepsType DEF SetStop, StopTimeout
      <4>2. QED
        BY <3>1, <4>1, <1>0 DEF SetStop, StopTimeout, UserGoto, UserSteps,
                                StopSteps, Flushed
    <3>2. CASE FlushPipes
      <4>1. PipeTypeOK'
        BY <3>2, SendDataKeepsType, SamePipeKeepsType DEF FlushPipes
      <4>2. QED
        BY <3>2, <4>1, <1>0 DEF FlushPipes, UserGoto, UserSteps, StopSteps, Flushed
    <3>3. CASE Join
      <4>1. PipeTypeOK' BY <3>3, SamePipeKeepsType DEF Join
      <4>2. QED
        BY <3>3, <4>1, <1>0 DEF Join, UserGoto, UserSteps, StopSteps, Flushed
    <3>4. QED BY <2>6, <3>1, <3>2, <3>3 DEF Stopping
  <2>7. CASE WakeUnnotified \/ UNCHANGED vars
    <3>1. PipeTypeOK' BY <2>7, SamePipeKeepsType DEF WakeUnnotified, vars
    <3>2. QED BY <2>7, <3>1 DEF WakeUnnotified, vars
  <2>8. QED
    BY <2>1, <2>2, <2>3, <2>4, <2>5, <2>6, <2>7 DEF Next
<1>3. QED
  BY <1>1, <1>2, PTL DEF Spec

(* Without presenters, as in the shipped build, no frame is written to     *)
(* while the server reads it: the only SendData that moves the buffer of   *)
(* an unfinished read comes from FlushPipes, and then the server is past   *)
(* reading until the reading thread is gone.                               *)
THEOREM NeverTorn == Presenters = {} /\ Spec => []NoTornRead
<1> SUFFICES ASSUME Presenters = {} PROVE Spec => []NoTornRead
  OBVIOUS
<1>1. BufferInv => NoTornRead
  BY PointersDistinct DEF BufferInv, NoTornRead, Consumers, Flushed
<1>2. QED
  BY <1>1, FillsOwnBuffer, PTL

-----------------------------------------------------------------------------
(* The rest of the type invariant.  That hid_read writes only into the     *)
(* instances of the PipeOut is taken from BufferInv, and so is the type of *)
(* the pointers and of the places of the consumers.                        *)
StateTypes ==
  /\ content \in [Instances -> Int] /\ increment \in 0..MaxIncrement
  /\ \A b \in Instances : content[b] <= increment
  /\ readAt \in ReadSteps /\ serveAt \in ServeSteps
  /\ filling \subseteq Instances
  /\ locks \subseteq Consumers /\ frames \subseteq Consumers
  /\ served \in [Consumers -> BOOLEAN]
  /\ stop \in [Threads -> BOOLEAN] /\ cancel \in [Threads -> BOOLEAN]
  /\ ignoreFirst \in [Consumers -> BOOLEAN] /\ noGyro \in BOOLEAN
  /\ seen \in [Consumers -> Int] /\ stale \in [Consumers -> BOOLEAN]

(* What hid_read leaves in the instances is no report newer than the last. *)
LEMMA FillKeepsContent ==
  ASSUME StateTypes, NEW value \in Int, NEW inc \in Int,
         increment <= inc, value <= inc
  PROVE  /\ Fill(value) \in [Instances -> Int]
         /\ \A b \in Instances : Fill(value)[b] <= inc
BY DEF StateTypes, Fill

LEMMA BrokenOffKeepsContent ==
  ASSUME StateTypes, NEW c \in BrokenOff
  PROVE  /\ c \in [Instances -> Int]
         /\ \A b \in Instances : c[b] <= increment
<1>1. CASE c = content
  BY <1>1 DEF StateTypes
<1>2. CASE c = Fill(Torn)
  <2>1. Torn \in Int /\ Torn <= increment /\ increment \in Int
    BY DEF Torn, StateTypes, FrameAssumption
  <2>2. QED BY <1>2, <2>1, FillKeepsContent
<1>3. QED BY <1>1, <1>2 DEF BrokenOff

(* The type invariant of the pipeline. *)
THEOREM TypeCorrect == Spec => []TypeOK
<1>0. Sender \in Consumers
  BY DEF Consumers
<1>1. Init => StateTypes
  <2> SUFFICES ASSUME Init PROVE StateTypes
    OBVIOUS
  <2>1. /\ content \in [Instances -> Int] /\ increment \in 0..MaxIncrement
        /\ \A b \in Instances : content[b] <= increment
    BY FrameAssumption DEF Init
  <2>2. /\ served \in [Consumers -> BOOLEAN] /\ ignoreFirst \in [Consumers -> BOOLEAN]
        /\ stop \in [Threads -> BOOLEAN] /\ cancel \in [Threads -> BOOLEAN]
        /\ stale \in [Consumers -> BOOLEAN] /\ noGyro \in BOOLEAN
    BY Zenon DEF Init
  <2>3. QED
    BY <2>1, <2>2 DEF Init, StateTypes, ReadSteps, ServeSteps
<1>2. BufferInv /\ StateTypes /\ [Next]_vars => StateTypes'
  <2> SUFFICES ASSUME BufferInv, StateTypes, [Next]_vars PROVE StateTypes'
    OBVIOUS
  <2>1. CASE ReadDataApi
    <3>1. CASE OpenDevice \/ ReadShouldContinue \/ SendFrame
      BY <3>1 DEF OpenDevice, ReadShouldContinue, SendFrame, StateTypes, ReadSteps
    <3>2. CASE TryNoGyro
      <4>1. bufMod \in Instances BY PointersDistinct DEF BufferInv
      <4>2. QED BY <3>2, <4>1 DEF TryNoGyro, EnableGyro, StateTypes, ReadSteps
    <3>3. CASE ReadReport
      <4>1. PICK readCnt \in (-1)..FrameLen : Read(readCnt)
        BY <3>3 DEF ReadReport
      <4>2. /\ content' \in [Instances -> Int] /\ increment' \in 0..MaxIncrement
            /\ \A b \in Instances : content'[b] <= increment'
            /\ stale' \in [Consumers -> BOOLEAN]
        <5>1. CASE readCnt = FrameLen /\ increment < MaxIncrement
                   /\ increment' = increment + 1 /\ content' = Fill(increment')
                   /\ UNCHANGED stale
          BY <5>1, FillKeepsContent, FrameAssumption DEF StateTypes
        <5>2. CASE content' = Fill(Torn) /\ UNCHANGED <<increment, stale>>
          BY <5>2, FillKeepsContent, FrameAssumption DEF StateTypes, Torn
        <5>3. CASE content' \in BrokenOff /\ UNCHANGED increment
                   /\ stale' = [c \in Consumers |-> TRUE]
          BY <5>3, BrokenOffKeepsContent DEF StateTypes
        <5>4. QED BY <4>1, <5>1, <5>2, <5>3 DEF Read
      <4>3. QED BY <3>3, <4>2 DEF ReadReport, StateTypes, ReadSteps
    <3>4. CASE ReadCancelled
      <4>1. /\ content' \in [Instances -> Int]
            /\ \A b \in Instances : content'[b] <= increment
        BY <3>4, BrokenOffKeepsContent DEF ReadCancelled
      <4>2. QED BY <3>4, <4>1 DEF ReadCancelled, StateTypes, ReadSteps
    <3>5. QED BY <2>1, <3>1, <3>2, <3>3, <3>4 DEF ReadDataApi
  <2>2. CASE OpenFails \/ LateCancel
    <3>1. /\ served' \in [Consumers -> BOOLEAN] /\ ignoreFirst' \in [Consumers -> BOOLEAN]
          /\ stop' \in [Threads -> BOOLEAN] /\ cancel' \in [Threads -> BOOLEAN]
          /\ stale' \in [Consumers -> BOOLEAN] /\ noGyro' \in BOOLEAN
      BY <2>2, Zenon DEF OpenFails, LateCancel, RestartProcess
    <3>2. /\ content' \in [Instances -> Int] /\ increment' \in 0..MaxIncrement
          /\ \A b \in Instances : content'[b] <= increment'
      BY <2>2, FrameAssumption DEF OpenFails, LateCancel, RestartProcess, StateTypes
    <3>3. QED
      BY <2>2, <3>1, <3>2 DEF OpenFails, LateCancel, RestartProcess, StateTypes, ReadSteps, ServeSteps
  <2>3. CASE ServeFrame
    BY <2>3 DEF ServeFrame, ServeShouldContinue, WaitForServes, LockFrames,
         GetServeLock, GotServeLocks, ReceiveFrame, ReleaseServeLock,
         UnlockFrames, ServeCancelled, ServeGoto, StateTypes, ServeSteps
  <2>4. ASSUME NEW c \in Consumers, User(c) PROVE StateTypes'
    <3>1. CASE Start(c)
      <4>1. stop' \in [Threads -> BOOLEAN]
        BY <3>1, Zenon DEF Start
      <4>2. QED
        BY <3>1, <4>1 DEF Start, StateTypes, ReadSteps, ServeSteps
    <3>2. CASE GetServe(c)
      BY <3>2 DEF GetServe, WakeServeFrame, StateTypes, ServeSteps
    <3>3. CASE NextPacket(c) \/ ConsumeLock(c)
      BY <3>3 DEF NextPacket, ConsumeLock, StateTypes
    <3>4. CASE EndConsume(c)
      <4>1. bufRcv \in Instances BY PointersDistinct DEF BufferInv
      <4>2. QED BY <3>4, <4>1 DEF EndConsume, StateTypes
    <3>5. QED BY <2>4, <3>1, <3>2, <3>3, <3>4 DEF User
  <2>5. CASE StopServe
    BY <2>5 DEF StopServe, StateTypes
  <2>6. CASE Stopping
    <3>1. CASE SetStop \/ StopTimeout
      BY <3>1 DEF SetStop, StopTimeout, StateTypes, Threads
    <3>2. CASE FlushPipes \/ Join
      BY <3>2 DEF FlushPipes, Join, WakeServeFrame, StateTypes, ReadSteps,
                  ServeSteps, Threads
    <3>3. QED BY <2>6, <3>1, <3>2 DEF Stopping
  <2>7. CASE WakeUnnotified \/ UNCHANGED vars
    BY <2>7 DEF WakeUnnotified, ServeGoto, vars, StateTypes, ServeSteps
  <2>8. QED
    BY <2>1, <2>2, <2>3, <2>4, <2>5, <2>6, <2>7 DEF Next
<1>3. BufferInv /\ StateTypes => TypeOK
  BY DEF BufferInv, StateTypes, TypeOK
<1>4. QED
  BY <1>1, <1>2, <1>3, FillsOwnBuffer, PTL DEF Spec

-----------------------------------------------------------------------------
(* Without presenters, as in the shipped build: one consumer, which starts *)
(* both threads and sees them end.  It is registered exactly while it is   *)
(* served, ServeFrame runs into its stop flag or a cancellation only when  *)
(* it is being stopped, and as long as the session is on, a read goes to   *)
(* the buffer to fill.                                                     *)
SessionInv ==
  /\ frames \subseteq {Sender} /\ (Sender \in frames <=> at[Sender] \in Served)
  /\ at[Sender] = "idle" => readAt = "none" /\ serveAt = "none"
  /\ at[Sender] \in {"stopRead", "joinRead"} => serveAt = "none"
  /\ stop["ServeFrame"] => at[Sender] \in {"flush", "notify", "joinServe"}
  /\ cancel["ServeFrame"] => at[Sender] = "joinServe"
  /\ serveAt = "unwind" => at[Sender] = "joinServe"
  /\ at[Sender] = "getServe" =>
       ignoreFirst[Sender] /\ serveAt \in {"check", "waitServes", "blocking", "asleep"}
  /\ at[Sender] = "reading" => ~served[Sender]
  /\ readAt = "read" /\ at[Sender] \notin Flushed => filling = {bufMod}

LEMMA OnlySender == ASSUME Presenters = {} PROVE Consumers = {Sender}
BY DEF Consumers

LEMMA SessionKept ==
  ASSUME Presenters = {}, LockInv, StateTypes, SessionInv, [Next]_vars
  PROVE  SessionInv'
<1> USE OnlySender DEF SessionInv, Served, Flushed
<1>0. at \in [{Sender} -> UserSteps] /\ (at[Sender] = "reading" => Sender \notin locks)
  BY DEF LockInv, Exclusion
<1>1. CASE ReadDataApi
  BY <1>1 DEF ReadDataApi, OpenDevice, ReadShouldContinue, TryNoGyro, EnableGyro,
              ReadReport, SendFrame, ReadCancelled
<1>2. CASE OpenFails \/ LateCancel
  BY <1>2 DEF OpenFails, LateCancel, RestartProcess, Threads
<1>3. CASE ServeFrame
  <2>1. /\ UNCHANGED <<readAt, filling, at, frames, stop, cancel, ignoreFirst>>
        /\ bufMod' = bufMod
    BY <1>3 DEF ServeFrame, ServeShouldContinue, WaitForServes, LockFrames, GetServeLock,
                GotServeLocks, ReceiveFrame, WaitForData, TakeSent, ReleaseServeLock,
                UnlockFrames, ServeCancelled
  <2>2. at[Sender] = "reading" => ~served'[Sender]
    BY <1>0, <1>3 DEF ServeFrame, ServeShouldContinue, WaitForServes, LockFrames,
                GetServeLock, GotServeLocks, ReceiveFrame, ReleaseServeLock, UnlockFrames,
                ServeCancelled
  <2>3. serveAt # "none"
    BY <1>3 DEF ServeFrame, ServeShouldContinue, WaitForServes, LockFrames, GetServeLock,
                GotServeLocks, ReceiveFrame, ReleaseServeLock, UnlockFrames,
                ServeCancelled, ServeGoto
  <2>4. serveAt' = "unwind" => at[Sender] = "joinServe"
    BY <1>3 DEF ServeFrame, ServeShouldContinue, WaitForServes, LockFrames, GetServeLock,
                GotServeLocks, ReceiveFrame, ReleaseServeLock, UnlockFrames,
                ServeCancelled, ServeGoto
  <2>5. at[Sender] = "getServe" => serveAt' \in {"check", "waitServes", "blocking", "asleep"}
    BY <1>3 DEF ServeFrame, ServeShouldContinue, WaitForServes, LockFrames, GetServeLock,
                GotServeLocks, ReceiveFrame, ReleaseServeLock, UnlockFrames,
                ServeCancelled, ServeGoto
  <2> QED BY <2>1, <2>2, <2>3, <2>4, <2>5
<1>4. ASSUME User(Sender) PROVE SessionInv'
  <2>1. CASE Start(Sender)
    <3>1. ~stop'["ServeFrame"] /\ ~cancel'["ServeFrame"]
      BY <2>1 DEF Start, UserGoto, HasThread, Threads
    <3>2. ignoreFirst'[Sender]
      BY <2>1 DEF Start, StateTypes
    <3> QED BY <1>0, <2>1, <3>1, <3>2 DEF Start, UserGoto, UserSteps
  <2>2. CASE GetServe(Sender)
    BY <1>0, <2>2 DEF GetServe, UserGoto, UserSteps, WakeServeFrame
  <2>3. CASE NextPacket(Sender)
    BY <1>0, <2>3 DEF NextPacket, UserGoto, UserSteps
  <2>4. CASE ConsumeLock(Sender)
    BY <1>0, <2>4 DEF ConsumeLock, UserGoto, UserSteps, StateTypes
  <2>5. CASE EndConsume(Sender)
    BY <1>0, <2>5 DEF EndConsume, UserGoto, UserSteps
  <2> QED BY <1>4, <2>1, <2>2, <2>3, <2>4, <2>5 DEF User
<1>5. CASE StopServe
  BY <1>0, <1>5 DEF StopServe, UserGoto, UserSteps, StopSteps, FramesLocked
<1>6. CASE Stopping
  <2>1. CASE SetStop
    BY <1>0, <2>1 DEF SetStop, UserGoto, UserSteps, StopSteps, StateTypes, Threads
  <2>2. CASE FlushPipes
    BY <1>0, <2>2 DEF FlushPipes, UserGoto, UserSteps, StopSteps, WakeServeFrame, SendData
  <2>3. CASE StopTimeout
    BY <1>0, <2>3 DEF StopTimeout, StateTypes, Threads
  <2>4. CASE Join
    BY <1>0, <2>4 DEF Join, UserGoto, UserSteps, StopSteps, StateTypes, Threads
  <2> QED BY <1>6, <2>1, <2>2, <2>3, <2>4 DEF Stopping
<1>7. CASE WakeUnnotified \/ UNCHANGED vars
  BY <1>7 DEF WakeUnnotified, ServeGoto, vars
<1> QED BY <1>1, <1>2, <1>3, <1>4, <1>5, <1>6, <1>7 DEF Next

-----------------------------------------------------------------------------
(* The order of the frames of a session, as long as no read failed in it.  *)
(* A frame that was read and not sent yet is newer than everything before  *)
(* it.  Of the frames ServeFrame has received, the first may be left over  *)
(* from the session before; once it has been received, the next one is     *)
(* newer, and newer than what the consumer has seen.                       *)
Consuming == {"getServe", "packet", "want", "reading"}

Newest ==
  /\ content[bufMod] = increment
  /\ content[bufSent] < increment /\ content[bufRcv] < increment
  /\ seen[Sender] < increment

(* The consumer reads a frame, or one is ready for it. *)
Offered ==
  \/ at[Sender] = "reading"
  \/ at[Sender] \in {"packet", "want"} /\ served[Sender]

FirstReceived == ~ignoreFirst[Sender] \/ Offered \/ serveAt = "release"

NewsInv ==
  at[Sender] \in Consuming /\ ~stale[Sender] =>
    /\ seen[Sender] <= increment
    /\ readAt = "send" => Newest
    /\ FirstReceived /\ bufWasSent =>
         content[bufSent] > content[bufRcv] /\ content[bufSent] > seen[Sender]
    /\ ~ignoreFirst[Sender] /\ (Offered \/ (serveAt = "release" /\ Sender \in locks)) =>
         content[bufRcv] > seen[Sender]

(* A whole frame is one that does not come up short. *)
LEMMA ShortIsLess ==
  ASSUME NEW readCnt \in 1..(FrameLen - 1) PROVE LessThanSize(readCnt)
<1>1. readCnt \in Nat /\ readCnt < SizeModulus /\ SizeModulus \in Nat \ {0}
  BY FrameAssumption
<1>2. readCnt % SizeModulus = readCnt
  BY <1>1
<1> QED BY <1>2, FrameAssumption DEF LessThanSize

(* A step that leaves the frames, the flags and the consumer alone. *)
LEMMA SameNews ==
  ASSUME NewsInv, UNCHANGED <<pipeVars, content, increment, at, ignoreFirst, seen, stale>>,
         served'[Sender] = served[Sender],
         at[Sender] \in Consuming =>
           /\ readAt' = "send" => readAt = "send"
           /\ serveAt' = "release" => serveAt = "release" /\ locks' \subseteq locks
  PROVE  NewsInv'
BY DEF NewsInv, FirstReceived, Offered, Newest

LEMMA ReadKeepsNews ==
  ASSUME Presenters = {}, BufferInv, StateTypes, SessionInv, NewsInv, ReadDataApi
  PROVE  NewsInv'
<1>0. /\ UNCHANGED <<serveVars, threadVars, at, ignoreFirst, seen>>
  BY DEF ReadDataApi, OpenDevice, ReadShouldContinue, TryNoGyro, EnableGyro, ReadReport,
         SendFrame, ReadCancelled
<1>1. CASE OpenDevice \/ ReadShouldContinue \/ TryNoGyro
  BY <1>1, SameNews DEF OpenDevice, ReadShouldContinue, TryNoGyro, EnableGyro
<1>2. CASE SendFrame
  <2>1. /\ bufSent' = bufMod /\ bufRcv' = bufRcv /\ readAt = "send" /\ readAt' # "send"
        /\ UNCHANGED <<content, increment, stale>>
    BY <1>2 DEF SendFrame, SendData
  <2> QED BY <1>0, <2>1 DEF NewsInv, FirstReceived, Offered, Newest
<1>3. CASE ReadReport \/ ReadCancelled
  <2>1. /\ bufMod # bufSent /\ bufMod # bufRcv /\ bufMod \in Instances
        /\ bufSent \in Instances /\ bufRcv \in Instances
    BY InstancesDistinct DEF BufferInv, PipeTypeOK, Instances
  <2>2. /\ at[Sender] \in Consuming => filling \subseteq {bufMod}
        /\ at[Sender] \in Consuming /\ readAt = "read" => filling = {bufMod}
    BY DEF BufferInv, SessionInv, Flushed, Consuming
  <2>3. UNCHANGED pipeVars /\ readAt' # "gyro"
    BY <1>3 DEF ReadReport, ReadCancelled
  <2>4. ASSUME NEW value, content' = Fill(value), at[Sender] \in Consuming
        PROVE  content'[bufSent] = content[bufSent] /\ content'[bufRcv] = content[bufRcv]
    <3>1. bufSent \notin filling /\ bufRcv \notin filling
      BY <2>1, <2>2, <2>4
    <3> QED BY <2>1, <2>4, <3>1 DEF Fill
  <2>5. ASSUME at[Sender] \in Consuming, content' \in BrokenOff
        PROVE  content'[bufSent] = content[bufSent] /\ content'[bufRcv] = content[bufRcv]
    BY <2>4, <2>5 DEF BrokenOff
  <2>6. CASE ReadCancelled
    BY <1>0, <2>1, <2>2, <2>3, <2>5, <2>6
       DEF ReadCancelled, NewsInv, FirstReceived, Offered
  <2>7. ASSUME NEW readCnt \in (-1)..FrameLen, Read(readCnt),
               readAt' = IF LessThanSize(readCnt) \/ readCnt = 0 THEN "check" ELSE "send",
               ReadReport
        PROVE  NewsInv'
    <3>1. CASE readCnt = -1
      <4>1. stale'[Sender]
        BY <2>7, <3>1, FrameAssumption, OnlySender DEF Read
      <4> QED BY <4>1 DEF NewsInv
    <3>2. CASE readCnt \in 1..(FrameLen - 1)
      <4>1. readAt' # "send" /\ content' = Fill(Torn) /\ UNCHANGED <<increment, stale>>
        BY <2>7, <3>2, ShortIsLess, FrameAssumption DEF Read
      <4> QED BY <1>0, <2>1, <2>2, <2>3, <2>4, <4>1 DEF NewsInv, FirstReceived, Offered
    <3>3. CASE readCnt = FrameLen
      <4>1. increment' = increment + 1 /\ content' = Fill(increment') /\ UNCHANGED stale
        BY <2>7, <3>3, FrameAssumption DEF Read
      <4>2. increment \in Int /\ seen[Sender] \in Int
        BY FrameAssumption, OnlySender DEF StateTypes
      <4>3. /\ content[bufSent] \in Int /\ content[bufRcv] \in Int
            /\ content[bufSent] <= increment /\ content[bufRcv] <= increment
        BY <2>1 DEF StateTypes
      <4>4. at[Sender] \in Consuming => content'[bufMod] = increment'
        BY <2>1, <2>2, <2>7, <4>1 DEF ReadReport, Fill
      <4> QED BY <1>0, <2>1, <2>2, <2>3, <2>4, <4>1, <4>2, <4>3, <4>4
              DEF NewsInv, FirstReceived, Offered, Newest
    <3> QED BY <2>7, <3>1, <3>2, <3>3, FrameAssumption DEF Read
  <2> QED BY <1>3, <2>6, <2>7 DEF ReadReport
<1> QED BY <1>1, <1>2, <1>3 DEF ReadDataApi

LEMMA ServeKeepsNews ==
  ASSUME Presenters = {}, LockInv, BufferInv, StateTypes, SessionInv, NewsInv, ServeFrame
  PROVE  NewsInv'
<1>0. /\ UNCHANGED <<deviceVars, readVars, threadVars, userVars, frames>>
      /\ Sender \in Consumers /\ Consumers = {Sender}
  BY OnlySender DEF ServeFrame, ServeShouldContinue, WaitForServes, LockFrames, GetServeLock,
     GotServeLocks, ReceiveFrame, ReleaseServeLock, UnlockFrames, ServeCancelled
<1>1. CASE ServeShouldContinue \/ WaitForServes \/ LockFrames \/ GotServeLocks
           \/ UnlockFrames \/ ServeCancelled
  BY <1>0, <1>1, SameNews DEF ServeShouldContinue, WaitForServes, LockFrames, GotServeLocks,
     UnlockFrames, ServeCancelled, ServeGoto
<1>2. CASE GetServeLock(Sender)
  BY <1>0, <1>2, SameNews DEF GetServeLock
<1>3. CASE ReceiveFrame
  <2>1. /\ serveAt = "waitData" /\ serveAt' = "release" /\ bufWasSent /\ ~bufWasSent'
        /\ bufRcv' = bufSent /\ bufSent' = bufRcv /\ bufMod' = bufMod
        /\ UNCHANGED <<locks, served>>
    BY <1>3 DEF ReceiveFrame, ServeGoto, WaitForData, TakeSent
  <2>2. at[Sender] \in Consuming => at[Sender] # "getServe" /\ Sender \in locks
    BY <1>0, <2>1 DEF SessionInv, LockInv, HoldsAll, Served, Consuming
  <2>3. at[Sender] # "reading"
    BY <1>0, <2>1, <2>2 DEF LockInv, Exclusion, Consuming
  <2> QED BY <1>0, <2>1, <2>2, <2>3 DEF NewsInv, FirstReceived, Offered, Newest
<1>4. CASE ReleaseServeLock(Sender)
  <2>1. /\ Sender \in locks /\ locks' = locks \ {Sender} /\ UNCHANGED <<pipeVars, serveAt>>
        /\ serveAt \in {"release", "unwind"}
    BY <1>4 DEF ReleaseServeLock
  <2>2. at[Sender] \in Consuming => serveAt = "release"
    BY <2>1 DEF SessionInv, Consuming
  <2> QED BY <1>0, <2>1, <2>2 DEF NewsInv, FirstReceived, Offered, Newest
<1> QED BY <1>0, <1>1, <1>2, <1>3, <1>4 DEF ServeFrame

LEMMA UserKeepsNews ==
  ASSUME Presenters = {}, LockInv, BufferInv, StateTypes, SessionInv, NewsInv, User(Sender)
  PROVE  NewsInv'
<1>0. /\ at \in [{Sender} -> UserSteps] /\ ignoreFirst \in [{Sender} -> BOOLEAN]
      /\ stale \in [{Sender} -> BOOLEAN] /\ seen \in [{Sender} -> Int]
      /\ served \in [{Sender} -> BOOLEAN] /\ increment \in Int
      /\ content[bufRcv] \in Int /\ content[bufRcv] <= increment
      /\ at[Sender] = "reading" => Sender \notin locks /\ ~served[Sender]
  <2>1. bufRcv \in Instances
    BY PointersDistinct DEF BufferInv
  <2> QED BY <2>1, OnlySender DEF StateTypes, LockInv, Exclusion, SessionInv
<1>1. CASE Start(Sender)
  <2>1. /\ at'[Sender] = "getServe" /\ readAt' = "open" /\ serveAt' = "check"
        /\ seen'[Sender] = increment /\ increment' = increment
        /\ ignoreFirst'[Sender]
    BY <1>0, <1>1 DEF Start, UserGoto, SessionInv
  <2> QED BY <1>0, <2>1 DEF NewsInv, FirstReceived, Offered
<1>2. CASE GetServe(Sender)
  <2>1. /\ at[Sender] = "getServe" /\ at'[Sender] = "packet" /\ ~served'[Sender]
        /\ UNCHANGED <<pipeVars, content, increment, readAt, ignoreFirst, seen, stale>>
        /\ ignoreFirst[Sender]
    BY <1>0, <1>2 DEF GetServe, UserGoto, SessionInv
  <2>2. serveAt' # "release"
    BY <1>2, <2>1 DEF GetServe, WakeServeFrame, SessionInv
  <2> QED BY <2>1, <2>2 DEF NewsInv, FirstReceived, Offered, Newest, Consuming
<1>3. CASE NextPacket(Sender)
  BY <1>0, <1>3 DEF NextPacket, UserGoto, NewsInv, FirstReceived, Offered, Newest, Consuming
<1>4. CASE ConsumeLock(Sender)
  BY <1>0, <1>4 DEF ConsumeLock, UserGoto, NewsInv, FirstReceived, Offered, Newest, Consuming
<1>5. CASE EndConsume(Sender)
  <2>1. /\ at[Sender] = "reading" /\ at'[Sender] \in {"want", "packet"}
        /\ ~ignoreFirst'[Sender] /\ Sender \notin locks /\ ~served[Sender]
        /\ UNCHANGED <<pipeVars, content, increment, readAt, serveAt, locks, served, stale>>
        /\ seen'[Sender] = IF ignoreFirst[Sender] THEN seen[Sender] ELSE content[bufRcv]
    BY <1>0, <1>5 DEF EndConsume, UserGoto
  <2> QED BY <1>0, <2>1 DEF NewsInv, FirstReceived, Offered, Newest, Consuming
<1> QED BY <1>1, <1>2, <1>3, <1>4, <1>5 DEF User

(* Without presenters, as long as no read failed in the session, the       *)
(* sender is handed whole frames only, each one newer than the one before  *)
(* and than the beginning of the session: the frame that is left over is   *)
(* the one that ignoreFirst skips (cemuhookadapter.cpp:126).               *)
THEOREM FreshFrames == Presenters = {} /\ Spec => []FreshUnlessReadFailed
<1> SUFFICES ASSUME Presenters = {} PROVE Spec => []FreshUnlessReadFailed
  OBVIOUS
<1>1. Init => SessionInv /\ NewsInv
  <2> SUFFICES ASSUME Init PROVE SessionInv /\ NewsInv
    OBVIOUS
  <2>1. /\ at[Sender] = "idle" /\ frames = {} /\ readAt = "none" /\ serveAt = "none"
        /\ ~stop["ServeFrame"] /\ ~cancel["ServeFrame"]
    BY OnlySender DEF Init, Threads
  <2> QED BY <2>1 DEF SessionInv, NewsInv, Served, Consuming
<1>2. LockInv /\ BufferInv /\ StateTypes /\ SessionInv /\ NewsInv /\ [Next]_vars => NewsInv'
  <2> SUFFICES ASSUME LockInv, BufferInv, StateTypes, SessionInv, NewsInv, [Next]_vars
               PROVE  NewsInv'
    OBVIOUS
  <2>1. CASE ReadDataApi
    BY <2>1, ReadKeepsNews
  <2>2. CASE OpenFails \/ LateCancel
    <3>1. at'[Sender] = "idle"
      BY <2>2, OnlySender DEF OpenFails, LateCancel, RestartProcess
    <3> QED BY <3>1 DEF NewsInv, Consuming
  <2>3. CASE ServeFrame
    BY <2>3, ServeKeepsNews
  <2>4. CASE \E c \in Consumers : User(c)
    BY <2>4, UserKeepsNews, OnlySender
  <2>5. CASE StopServe \/ Stopping
    <3>1. at'[Sender] \notin Consuming
      BY <2>5, OnlySender DEF StopServe, Stopping, SetStop, FlushPipes, StopTimeout, Join,
           UserGoto, Consuming, LockInv
    <3> QED BY <3>1 DEF NewsInv
  <2>6. CASE WakeUnnotified \/ UNCHANGED vars
    BY <2>6, SameNews DEF WakeUnnotified, ServeGoto, vars
  <2> QED BY <2>1, <2>2, <2>3, <2>4, <2>5, <2>6 DEF Next
<1>3. TypeOK => StateTypes
  BY DEF TypeOK, StateTypes
<1>4. NewsInv => FreshUnlessReadFailed
  BY OnlySender DEF NewsInv, Offered, FreshUnlessReadFailed, Consuming
<1>5. LockInv /\ StateTypes /\ SessionInv /\ [Next]_vars => SessionInv'
  BY SessionKept
<1> QED BY <1>1, <1>2, <1>3, <1>4, <1>5, LocksExclude, FillsOwnBuffer, TypeCorrect, PTL
        DEF Spec

=============================================================================
