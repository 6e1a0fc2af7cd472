------------------------- MODULE FilePipelineProofs -------------------------
(***************************************************************************)
(* Theorems about FilePipeline: the life cycle of its threads under two    *)
(* callers that share them without a lock.                                 *)
(***************************************************************************)
EXTENDS FilePipeline, TLAPS

ReaderSteps == {"stopped", "startProcess", "running", "stopProcess", "stopRead"}

CallTypeOK ==
  /\ at = [t \in Threads |-> at[t]]
  /\ stop = [t \in Threads |-> stop[t]] /\ cancel = [t \in Threads |-> cancel[t]]
  /\ readerAt \in ReaderSteps
  /\ stopAt = [c \in Callers |-> stopAt[c]] /\ waitAt = [c \in Callers |-> waitAt[c]]

(* ProcessData runs only between its start and the end of its stop, and    *)
(* ReadDataFile is only started by it or at the beginning.                 *)
RunsInBetween ==
  /\ at["ProcessData"] # "none" => readerAt \in {"running", "stopProcess"}
  /\ readerAt = "stopped" => at["ReadData"] = "none"

(* HidDevReader calls Thread::Stop only while it stops the pipeline; when  *)
(* the future is ready, the thread is gone and stays away.                 *)
ReadyMeansGone ==
  /\ stopAt["HidDevReader"] # "none" => readerAt \in {"stopProcess", "stopRead"}
  /\ stopAt["HidDevReader"] = "ready" => at[Target("HidDevReader")] = "none"

(* A Thread without a thread has no request left. *)
NothingPending == \A t \in Threads : at[t] = "none" => ~stop[t] /\ ~cancel[t]

LifeInv == CallTypeOK /\ RunsInBetween /\ ReadyMeansGone /\ NothingPending

-----------------------------------------------------------------------------
(* A thread goes from one step to another one, and nothing else of the     *)
(* life cycle changes.                                                     *)
Moves(t) ==
  /\ at[t] # "none" /\ at'[t] # "none" /\ DOMAIN at' = DOMAIN at
  /\ at' = [u \in DOMAIN at |-> at'[u]]
  /\ \A u \in Threads \ {t} : at'[u] = at[u]
  /\ UNCHANGED <<flagVars, callVars>>

LEMMA MovesKeep ==
  ASSUME LifeInv, NEW t \in Threads, Moves(t) PROVE LifeInv'
<1>1. UNCHANGED flagVars /\ UNCHANGED callVars /\ Target("HidDevReader")' = Target("HidDevReader")
  BY DEF Moves, callVars, Target
<1>2. \A u \in Threads : at'[u] = "none" <=> at[u] = "none"
  BY DEF Moves
<1>3. CallTypeOK'
  BY <1>1 DEF LifeInv, CallTypeOK, Moves, flagVars, callVars
<1>4. RunsInBetween' /\ ReadyMeansGone'
  BY <1>1, <1>2 DEF LifeInv, RunsInBetween, ReadyMeansGone, callVars, Threads, Target
<1>5. NothingPending'
  BY <1>1, <1>2, Zenon DEF LifeInv, NothingPending, flagVars
<1> QED BY <1>3, <1>4, <1>5 DEF LifeInv

LEMMA GotoMoves ==
  ASSUME LifeInv, NEW t \in Threads, NEW from, NEW to, from # "none", to # "none",
         Goto(t, from, to), UNCHANGED <<flagVars, callVars>>
  PROVE  Moves(t)
  BY DEF Goto, Moves, LifeInv, CallTypeOK

LEMMA ReadKeeps == ASSUME LifeInv, ReadDataFile \/ Read PROVE LifeInv'
<1>1. "ReadData" \in Threads
  BY DEF Threads
<1>2. Connect \/ Reconnect \/ SendRecords \/ DisconnectInput => Moves("ReadData")
  BY <1>1, GotoMoves DEF Connect, Reconnect, SendRecords, DisconnectInput, ReadOthers
<1>3. ReadShouldContinue => Moves("ReadData")
  BY <1>1, GotoMoves DEF ReadShouldContinue, ReadOthers
<1>4. ReadCancelled => Moves("ReadData")
  BY <1>1, GotoMoves DEF ReadCancelled, ReadOthers
<1>5. ASSUME Read PROVE Moves("ReadData")
  <2>1. PICK to \in {"check", "send", "repair"} : Goto("ReadData", "read", to)
    BY <1>5 DEF Read
  <2> QED BY <1>1, <1>5, <2>1, GotoMoves DEF Read, ReadOthers
<1> QED BY <1>1, <1>2, <1>3, <1>4, <1>5, MovesKeep DEF ReadDataFile

LEMMA ProcessKeeps == ASSUME LifeInv, ProcessData PROVE LifeInv'
<1>1. "ProcessData" \in Threads
  BY DEF Threads
<1>2. ReceiveRecords \/ SendFrame \/ ProcessCancelled => Moves("ProcessData")
  BY <1>1, GotoMoves DEF ReceiveRecords, SendFrame, ProcessCancelled, ProcessOthers
<1>3. ProcessShouldContinue => Moves("ProcessData")
  BY <1>1, GotoMoves DEF ProcessShouldContinue, ProcessOthers
<1>4. BeginDecode => Moves("ProcessData")
  BY <1>1, GotoMoves DEF BeginDecode, ProcessOthers
<1> QED BY <1>1, <1>2, <1>3, <1>4, MovesKeep DEF ProcessData

-----------------------------------------------------------------------------
(* One Thread::Stop, of either caller. *)
LEMMA StopKeeps ==
  ASSUME LifeInv, NEW c \in Callers, Stop(c) PROVE LifeInv'
<1>0. /\ Target(c) \in Threads /\ UNCHANGED readerAt
      /\ \A d \in Callers : Target(d)' = Target(d)
  BY DEF Stop, LaunchStop, FlushPipes, Join, TimedOut, Kill, StopOthers, Target, Threads
<1>1. CallTypeOK'
  BY <1>0 DEF Stop, LaunchStop, FlushPipes, Join, TimedOut, Kill, StopOthers, StopGoto,
              WaitGoto, Goto, flagVars, LifeInv, CallTypeOK
<1>2. \A t \in Threads : at'[t] # at[t] => at'[t] = "none"
  BY DEF Stop, LaunchStop, FlushPipes, Join, TimedOut, Kill, Goto, LifeInv, CallTypeOK
<1>3. RunsInBetween'
  BY <1>0, <1>2 DEF LifeInv, RunsInBetween, Threads
<1>4. /\ stopAt["HidDevReader"]' # "none" => readerAt \in {"stopProcess", "stopRead"}
      /\ stopAt["HidDevReader"]' = "ready" => at[Target("HidDevReader")]' = "none"
  <2>1. CASE LaunchStop(c)
    BY <2>1 DEF LaunchStop, InStop, StopGoto, StopOthers, LifeInv, CallTypeOK,
                ReadyMeansGone, Callers, Target
  <2>2. CASE FlushPipes(c)
    BY <2>2 DEF FlushPipes, StopGoto, StopOthers, LifeInv, CallTypeOK, ReadyMeansGone, Callers, Target
  <2>3. CASE Join(c)
    BY <2>3 DEF Join, Goto, StopGoto, StopOthers, LifeInv, CallTypeOK, ReadyMeansGone,
                Callers, Threads, Target
  <2>4. CASE TimedOut(c) \/ Kill(c)
    BY <2>4 DEF TimedOut, Kill, StopOthers, LifeInv, ReadyMeansGone, Target
  <2> QED BY <2>1, <2>2, <2>3, <2>4 DEF Stop
<1>5. NothingPending'
  <2>1. CASE LaunchStop(c)
    BY <1>0, <2>1, Zenon DEF LaunchStop, StopOthers, LifeInv, CallTypeOK, NothingPending
  <2>2. CASE FlushPipes(c)
    BY <2>2, Zenon DEF FlushPipes, flagVars, LifeInv, NothingPending
  <2>3. CASE Join(c)
    BY <1>0, <2>3, Zenon DEF Join, Goto, LifeInv, CallTypeOK, NothingPending
  <2>4. CASE TimedOut(c)
    BY <2>4, Zenon DEF TimedOut, flagVars, LifeInv, NothingPending
  <2>5. CASE Kill(c)
    BY <1>0, <2>5, Zenon DEF Kill, LifeInv, CallTypeOK, NothingPending
  <2> QED BY <2>1, <2>2, <2>3, <2>4, <2>5 DEF Stop
<1> QED BY <1>0, <1>1, <1>3, <1>4, <1>5 DEF LifeInv, ReadyMeansGone

(* Start leaves the other Thread alone, and gives the one it starts a step *)
(* and no request.                                                         *)
LEMMA StartKeeps ==
  ASSUME LifeInv, NEW t \in Threads, NEW steps, steps = [u \in Threads |-> steps[u]],
         \A u \in Threads : steps[u] = "none" <=> at[u] = "none",
         Start(t, steps), UNCHANGED cancel
  PROVE  /\ at' = [u \in Threads |-> at'[u]] /\ stop' = [u \in Threads |-> stop'[u]]
         /\ at'[t] # "none" /\ \A u \in Threads \ {t} : at'[u] = steps[u]
         /\ NothingPending'
<1>1. FirstStep[t] # "none"
  BY DEF Threads, FirstStep
<1>2. /\ at' = [u \in Threads |-> at'[u]] /\ stop' = [u \in Threads |-> stop'[u]]
      /\ at'[t] # "none" /\ \A u \in Threads \ {t} : at'[u] = steps[u]
  BY <1>1 DEF Start, LifeInv, CallTypeOK
<1>3. NothingPending'
  BY <1>2, Zenon DEF Start, LifeInv, CallTypeOK, NothingPending
<1> QED BY <1>2, <1>3

LEMMA RestartKeeps == ASSUME LifeInv, Restart \/ RestartCancelled PROVE LifeInv'
<1>0. "ProcessData" \in Threads /\ "ReadData" \in Threads
  BY DEF Threads
<1>1. ASSUME NEW to \in {"start", "ended"}, Stopped("ProcessData"),
             Goto("ProcessData", "restart", to), UNCHANGED <<flagVars, readerAt>>
      PROVE  LifeInv'
  <2>1. CallTypeOK'
    BY <1>1 DEF Stopped, Goto, flagVars, LifeInv, CallTypeOK
  <2>2. RunsInBetween' /\ ReadyMeansGone'
    BY <1>1 DEF Stopped, Goto, LifeInv, CallTypeOK, RunsInBetween, ReadyMeansGone,
                Threads, Callers, Target
  <2>3. \A t \in Threads : at'[t] = "none" => at[t] = "none"
    BY <1>0, <1>1 DEF Goto, LifeInv, CallTypeOK
  <2>4. NothingPending'
    BY <1>1, <2>3, Zenon DEF flagVars, LifeInv, NothingPending
  <2> QED BY <2>1, <2>2, <2>4 DEF LifeInv
<1>2. ASSUME at["ProcessData"] = "start",
             Start("ReadData", [at EXCEPT !["ProcessData"] = "check"]),
             UNCHANGED <<stopAt, waitAt, cancel, readerAt>>
      PROVE  LifeInv'
  <2> DEFINE steps == [at EXCEPT !["ProcessData"] = "check"]
  <2>1. /\ steps = [u \in Threads |-> steps[u]] /\ steps["ProcessData"] # "none"
        /\ \A u \in Threads : steps[u] = "none" <=> at[u] = "none"
    BY <1>0, <1>2 DEF LifeInv, CallTypeOK
  <2>2. /\ at' = [u \in Threads |-> at'[u]] /\ stop' = [u \in Threads |-> stop'[u]]
        /\ at'["ProcessData"] = steps["ProcessData"] /\ NothingPending'
    <3> HIDE DEF steps
    <3>1. Start("ReadData", steps)
      BY <1>2 DEF steps
    <3> QED BY <1>0, <1>2, <2>1, <3>1, StartKeeps
  <2>3. CallTypeOK'
    BY <1>2, <2>2 DEF LifeInv, CallTypeOK
  <2>4. RunsInBetween' /\ ReadyMeansGone'
    BY <1>2, <2>1, <2>2 DEF LifeInv, RunsInBetween, ReadyMeansGone, Target
  <2> QED BY <2>2, <2>3, <2>4 DEF LifeInv
<1>3. CASE RestartCancelled
  BY <1>1, <1>3 DEF RestartCancelled, StopOthers
<1>4. CASE Restart
  BY <1>1, <1>2, <1>4 DEF Restart, StopOthers, flagVars
<1> QED BY <1>3, <1>4

LEMMA ReaderKeeps == ASSUME LifeInv, HidDevReader \/ ProcessEnds PROVE LifeInv'
<1>0. "ProcessData" \in Threads /\ "ReadData" \in Threads
  BY DEF Threads
<1>1. ASSUME NEW t \in Threads, Start(t, at), UNCHANGED <<cancel, stopAt, waitAt>>,
             \/ t = "ReadData" /\ ReaderGoto("stopped", "startProcess")
             \/ t = "ProcessData" /\ ReaderGoto("startProcess", "running")
      PROVE  LifeInv'
  <2>1. /\ at' = [u \in Threads |-> at'[u]] /\ stop' = [u \in Threads |-> stop'[u]]
        /\ \A u \in Threads \ {t} : at'[u] = at[u]
        /\ NothingPending'
    BY <1>1, StartKeeps DEF LifeInv, CallTypeOK
  <2>2. CallTypeOK'
    BY <1>1, <2>1 DEF ReaderGoto, LifeInv, CallTypeOK, ReaderSteps
  <2>3. RunsInBetween' /\ ReadyMeansGone'
    BY <1>0, <1>1, <2>1 DEF ReaderGoto, LifeInv, RunsInBetween, ReadyMeansGone
  <2> QED BY <2>1, <2>2, <2>3 DEF LifeInv
<1>2. CASE StartPipeline
  BY <1>0, <1>1, <1>2 DEF StartPipeline
<1>3. CASE StopPipeline
  <2>1. CallTypeOK' /\ RunsInBetween' /\ ReadyMeansGone'
    BY <1>3 DEF StopPipeline, ReaderGoto, Stopped, flagVars, LifeInv, CallTypeOK,
                ReaderSteps, RunsInBetween, ReadyMeansGone, Callers, Target
  <2>2. NothingPending'
    BY <1>3, Zenon DEF StopPipeline, flagVars, LifeInv, NothingPending
  <2> QED BY <2>1, <2>2 DEF LifeInv
<1>4. CASE ProcessEnds
  <2>1. CallTypeOK' /\ RunsInBetween' /\ ReadyMeansGone'
    BY <1>4 DEF ProcessEnds, CallTypeOK, ReaderSteps, RunsInBetween, ReadyMeansGone,
                Threads, Callers, Target
  <2>2. NothingPending'
    BY <1>4, Zenon DEF ProcessEnds, NothingPending
  <2> QED BY <2>1, <2>2 DEF LifeInv
<1> QED BY <1>2, <1>3, <1>4 DEF HidDevReader

-----------------------------------------------------------------------------
(* The life cycle holds for every number of reports and every length. *)
THEOREM LifeCycle == Spec => []LifeInv
<1>1. Init => LifeInv
  <2>1. Init => CallTypeOK /\ RunsInBetween /\ ReadyMeansGone
    BY DEF Init, CallTypeOK, RunsInBetween, ReadyMeansGone, Threads, Callers, Target,
           ReaderSteps
  <2>2. Init => NothingPending
    BY Zenon DEF Init, NothingPending
  <2> QED BY <2>1, <2>2 DEF LifeInv
<1>2. LifeInv /\ [Next]_vars => LifeInv'
  <2> SUFFICES ASSUME LifeInv, [Next]_vars PROVE LifeInv'
    OBVIOUS
  <2>1. CASE ReadDataFile \/ Read \/ ProcessData
    BY <2>1, ReadKeeps, ProcessKeeps
  <2>2. CASE Restart \/ RestartCancelled
    BY <2>2, RestartKeeps
  <2>3. CASE \E c \in Callers : Stop(c)
    BY <2>3, StopKeeps
  <2>4. CASE HidDevReader \/ ProcessEnds
    BY <2>4, ReaderKeeps
  <2>5. CASE UNCHANGED vars
    BY <2>5 DEF vars, flagVars, callVars, LifeInv, CallTypeOK, RunsInBetween,
                ReadyMeansGone, NothingPending, Target
  <2> QED BY <2>1, <2>2, <2>3, <2>4, <2>5 DEF Next
<1> QED BY <1>1, <1>2, PTL DEF Spec

(* ProcessData restarts ReadDataFile only while HidDevReader leaves it     *)
(* alone (processdata.cpp:41 against hiddevreader.cpp:142).                *)
THEOREM RestartsAlone == Spec => []RestartAlone
<1>1. LifeInv => RestartAlone
  BY DEF LifeInv, RunsInBetween, RestartAlone
<1> QED BY <1>1, LifeCycle, PTL

(* When HidDevReader::Stop has returned, no thread, no stop flag and no    *)
(* cancellation is left.                                                   *)
THEOREM NothingSurvives == Spec => []NothingSurvivesStop
<1>1. LifeInv => NothingSurvivesStop
  BY DEF LifeInv, RunsInBetween, NothingPending, NothingSurvivesStop, Threads
<1> QED BY <1>1, LifeCycle, PTL

-----------------------------------------------------------------------------
(* The triple buffer of ReadDataFile, as in PipeOutProofs: its pointers    *)
(* own three different instances, whoever exchanges them.                  *)
LEMMA PointersDistinct ==
  ASSUME Data!PipeTypeOK
  PROVE  /\ dataMod # dataSent /\ dataMod # dataRcv /\ dataSent # dataRcv
         /\ dataMod \in Data!Instances /\ dataSent \in Data!Instances
         /\ dataRcv \in Data!Instances
BY FileAssumption DEF Data!PipeTypeOK, Data!Instances

LEMMA SendDataKeepsType ==
  ASSUME Data!PipeTypeOK, Data!SendData PROVE Data!PipeTypeOK'
BY DEF Data!PipeTypeOK, Data!SendData, Data!Instances

LEMMA TryDataKeepsType ==
  ASSUME Data!PipeTypeOK, NEW obtained \in BOOLEAN, Data!TryData(obtained)
  PROVE  Data!PipeTypeOK'
BY DEF Data!PipeTypeOK, Data!TryData, Data!WaitForData, Data!TakeSent,
       Data!WasReceived, Data!pipeVars, Data!Instances

LEMMA SamePipeKeepsType ==
  ASSUME Data!PipeTypeOK, UNCHANGED dataVars PROVE Data!PipeTypeOK'
BY DEF Data!PipeTypeOK, dataVars, Data!Instances

-----------------------------------------------------------------------------
(* The types of what is read and decoded. *)
ContentTypes ==
  /\ content \in [Data!Instances -> Int] /\ increment \in 0..MaxIncrement
  /\ \A b \in Data!Instances : Torn <= content[b] /\ content[b] <= increment
  /\ filling \subseteq Data!Instances /\ file \in BOOLEAN
  /\ trust \in {"first", "on", "off"}
  /\ decoded \in Int /\ Torn <= decoded /\ decoded <= increment

DataTypes == Data!PipeTypeOK /\ ContentTypes

(* What a read leaves in the instances is torn or no newer than the last   *)
(* report.                                                                 *)
LEMMA FillKeepsContent ==
  ASSUME ContentTypes, NEW value \in Int, NEW inc \in Int,
         increment <= inc, Torn <= value, value <= inc
  PROVE  /\ Fill(value) \in [Data!Instances -> Int]
         /\ \A b \in Data!Instances : Torn <= Fill(value)[b] /\ Fill(value)[b] <= inc
BY DEF ContentTypes, Fill

LEMMA TornKeepsContent ==
  ASSUME ContentTypes, NEW c, c = Fill(Torn) \/ c \in BrokenOff
  PROVE  /\ c \in [Data!Instances -> Int]
         /\ \A b \in Data!Instances : Torn <= c[b] /\ c[b] <= increment
<1>1. Torn \in Int /\ Torn <= increment /\ increment \in Int
  BY FileAssumption DEF Torn, ContentTypes
<1>2. CASE c = content
  BY <1>2 DEF ContentTypes
<1>3. CASE c = Fill(Torn)
  BY <1>1, <1>3, FillKeepsContent
<1> QED BY <1>2, <1>3 DEF BrokenOff

LEMMA FileReadKeeps ==
  ASSUME ContentTypes, NEW readCnt \in (-1)..DataLen, NEW marker \in BOOLEAN,
         FileRead(readCnt, marker), UNCHANGED file, filling' = {}
  PROVE  ContentTypes'
<1>0. Torn \in Int /\ Torn <= 0 /\ MaxIncrement \in Nat
  BY FileAssumption DEF Torn
<1>1. CASE UNCHANGED <<content, increment, history>>
  BY <1>1 DEF ContentTypes, history
<1>2. CASE /\ increment < MaxIncrement /\ increment' = increment + 1
           /\ content' = Fill(increment') /\ UNCHANGED history
  <2>1. /\ increment \in Int /\ increment' \in 0..MaxIncrement
        /\ increment <= increment' /\ Torn <= increment'
    BY <1>0, <1>2 DEF ContentTypes
  <2>2. /\ content' \in [Data!Instances -> Int]
        /\ \A b \in Data!Instances : Torn <= content'[b] /\ content'[b] <= increment'
    BY <1>2, <2>1, FillKeepsContent
  <2> QED BY <1>0, <1>2, <2>1, <2>2 DEF ContentTypes, history
<1>3. CASE content' = Fill(Torn) /\ UNCHANGED <<increment, history>>
  BY <1>3, TornKeepsContent DEF ContentTypes, history
<1>4. CASE /\ content' \in BrokenOff \cup {Fill(Torn)} /\ UNCHANGED increment
           /\ trust' = "off" /\ decoded' = 0
  BY <1>0, <1>4, TornKeepsContent DEF ContentTypes
<1> QED BY <1>1, <1>2, <1>3, <1>4 DEF FileRead

LEMMA DataTypesKept == ASSUME DataTypes, [Next]_vars PROVE DataTypes'
<1> USE DEF DataTypes
<1>0. Torn \in Int /\ Torn <= 0 /\ MaxIncrement \in Nat
  BY FileAssumption DEF Torn
<1>1. CASE Connect \/ ReadShouldContinue \/ Reconnect \/ DisconnectInput
  <2>1. UNCHANGED dataVars /\ filling' \subseteq Data!Instances
    BY <1>1, PointersDistinct DEF Connect, ReadShouldContinue, Reconnect, DisconnectInput,
         ContentTypes
  <2> QED BY <1>1, <2>1, SamePipeKeepsType DEF Connect, ReadShouldContinue, Reconnect,
         DisconnectInput, ContentTypes, history
<1>2. CASE SendRecords
  BY <1>2, SendDataKeepsType DEF SendRecords, readVars, history, ContentTypes
<1>3. CASE Read
  BY <1>3, SamePipeKeepsType, FileReadKeeps DEF Read
<1>4. CASE ReadCancelled
  BY <1>4, SamePipeKeepsType, TornKeepsContent DEF ReadCancelled, ContentTypes, history
<1>5. CASE ReceiveRecords
  BY <1>5, TryDataKeepsType DEF ReceiveRecords, ProcessOthers, readVars, history, ContentTypes
<1>6. CASE SendFrame
  <2>1. decoded' \in Int /\ Torn <= decoded' /\ decoded' <= increment
    BY <1>6, PointersDistinct DEF SendFrame, ContentTypes
  <2> QED BY <1>6, <2>1, SamePipeKeepsType DEF SendFrame, ProcessOthers, readVars, ContentTypes
<1>7. CASE ProcessShouldContinue \/ BeginDecode \/ ProcessCancelled
  BY <1>7, SamePipeKeepsType DEF ProcessShouldContinue, BeginDecode, ProcessCancelled,
       ProcessOthers, readVars, history, ContentTypes
<1>8. CASE Restart \/ RestartCancelled
  BY <1>8, SamePipeKeepsType DEF Restart, RestartCancelled, StopOthers, readVars, history,
       ContentTypes
<1>9. ASSUME NEW c \in Callers, Stop(c) PROVE DataTypes'
  <2>1. CASE FlushPipes(c)
    BY <2>1, SendDataKeepsType DEF FlushPipes, StopOthers, readVars, history, ContentTypes
  <2>2. CASE LaunchStop(c) \/ Join(c) \/ TimedOut(c) \/ Kill(c)
    BY <2>2, SamePipeKeepsType DEF LaunchStop, Join, TimedOut, Kill, StopOthers, readVars,
         history, ContentTypes
  <2> QED BY <1>9, <2>1, <2>2 DEF Stop
<1>10. CASE StartPipeline
  BY <1>0, <1>10, SamePipeKeepsType DEF StartPipeline, readVars, history, ContentTypes
<1>11. CASE StopPipeline \/ UNCHANGED vars
  BY <1>11, SamePipeKeepsType DEF StopPipeline, vars, readVars, history, ContentTypes
<1>12. CASE ProcessEnds
  <2>1. Data!PipeTypeOK'
    BY <1>12 DEF ProcessEnds, Data!PipeTypeOK, Data!Instances
  <2>2. /\ content' = [b \in Data!Instances |-> 0] /\ increment' = increment
        /\ filling' = {} /\ file' = FALSE /\ trust' = "first" /\ decoded' = 0
    BY <1>12 DEF ProcessEnds
  <2>3. file' \in BOOLEAN
    BY <2>2
  <2>4. /\ content' \in [Data!Instances -> Int]
        /\ \A b \in Data!Instances : Torn <= content'[b] /\ content'[b] <= increment'
    BY <1>0, <2>2 DEF ContentTypes
  <2> QED BY <1>0, <2>1, <2>2, <2>3, <2>4 DEF ContentTypes
<1> QED BY <1>1, <1>2, <1>3, <1>4, <1>5, <1>6, <1>7, <1>8, <1>9, <1>10, <1>11, <1>12
        DEF Next, ReadDataFile, ProcessData, HidDevReader

LEMMA DataTyped == Spec => []DataTypes
<1>1. Init => DataTypes
  <2> SUFFICES ASSUME Init PROVE DataTypes
    OBVIOUS
  <2>1. Data!PipeTypeOK
    BY DEF Init, Data!PipeInit, Data!PipeTypeOK, Data!Instances
  <2>2. /\ content = [b \in Data!Instances |-> 0] /\ increment = 0
        /\ filling = {} /\ file = FALSE /\ trust = "first" /\ decoded = 0
    BY DEF Init
  <2>3. ContentTypes
    <3>1. 0 \in 0..MaxIncrement
      BY FileAssumption
    <3>2. content \in [Data!Instances -> Int]
      BY <2>2
    <3>3. \A b \in Data!Instances : Torn <= content[b] /\ content[b] <= increment
      BY <2>2 DEF Torn
    <3>4. file \in BOOLEAN
      BY <2>2
    <3> QED BY <2>2, <3>1, <3>2, <3>3, <3>4 DEF ContentTypes, Torn
  <2> QED BY <2>1, <2>3 DEF DataTypes
<1> QED BY <1>1, DataTypesKept, PTL DEF Spec

-----------------------------------------------------------------------------
(* The rest of the type invariant: where the threads and the callers are,  *)
(* and their flags.                                                        *)
StepTypes ==
  /\ at["ReadData"] \in {"none", "connect", "check", "read", "repair", "send",
                         "close", "ended"}
  /\ at["ProcessData"] \in {"none", "check", "wait", "restart", "start", "recheck",
                            "decode", "ended"}
  /\ stopAt \in [Callers -> {"none", "flush", "join", "ready"}]
  /\ waitAt \in [Callers -> {"none", "wait", "kill", "get"}]

FlagTypes == stop \in [Threads -> BOOLEAN] /\ cancel \in [Threads -> BOOLEAN]

LEMMA ThreadKeepsSteps ==
  ASSUME LifeInv, StepTypes, ReadDataFile \/ Read \/ ProcessData PROVE StepTypes'
<1>1. UNCHANGED callVars
  BY DEF ReadDataFile, Connect, ReadShouldContinue, Reconnect, SendRecords, DisconnectInput,
       ReadCancelled, Read, ProcessData, ProcessShouldContinue, ReceiveRecords, BeginDecode,
       SendFrame, ProcessCancelled, ReadOthers, ProcessOthers
<1>2. CASE ReadDataFile \/ Read
  BY <1>1, <1>2 DEF ReadDataFile, Connect, ReadShouldContinue, Reconnect, SendRecords,
       DisconnectInput, ReadCancelled, Read, Goto, LifeInv, CallTypeOK, Threads, callVars,
       StepTypes
<1>3. CASE ProcessData
  BY <1>1, <1>3 DEF ProcessData, ProcessShouldContinue, ReceiveRecords, BeginDecode,
       SendFrame, ProcessCancelled, Goto, LifeInv, CallTypeOK, Threads, callVars, StepTypes
<1> QED BY <1>2, <1>3

LEMMA StepTypesKept == ASSUME LifeInv, StepTypes, [Next]_vars PROVE StepTypes'
<1>1. CASE ReadDataFile \/ Read \/ ProcessData
  BY <1>1, ThreadKeepsSteps
<1>2. CASE Restart \/ RestartCancelled
  BY <1>2 DEF Restart, RestartCancelled, Stopped, Start, FirstStep, Goto, LifeInv,
       CallTypeOK, Threads, StepTypes
<1>3. ASSUME NEW c \in Callers, Stop(c) PROVE StepTypes'
  BY <1>3 DEF Stop, LaunchStop, FlushPipes, Join, TimedOut, Kill, StopGoto, WaitGoto, Goto,
       LifeInv, CallTypeOK, Target, Threads, StepTypes, flagVars
<1>4. CASE HidDevReader
  BY <1>4 DEF HidDevReader, StartPipeline, StopPipeline, Stopped, Start, FirstStep, LifeInv,
       CallTypeOK, Threads, StepTypes
<1>5. CASE ProcessEnds
  <2>1. /\ at' = [t \in Threads |-> "none"]
        /\ stopAt' = [c \in Callers |-> "none"] /\ waitAt' = [c \in Callers |-> "none"]
    BY <1>5 DEF ProcessEnds
  <2> QED BY <2>1 DEF Threads, StepTypes
<1>6. CASE UNCHANGED vars
  BY <1>6 DEF vars, callVars, StepTypes
<1> QED BY <1>1, <1>2, <1>3, <1>4, <1>5, <1>6 DEF Next

LEMMA FlagTypesKept == ASSUME FlagTypes, [Next]_vars PROVE FlagTypes'
<1>1. CASE UNCHANGED flagVars
  BY <1>1, Zenon DEF FlagTypes, flagVars
<1>2. ASSUME NEW t \in Threads, NEW f \in BOOLEAN, stop' = [stop EXCEPT ![t] = f],
             UNCHANGED cancel
      PROVE  FlagTypes'
  BY <1>2 DEF FlagTypes
<1>3. ASSUME NEW t \in Threads, NEW f \in BOOLEAN, cancel' = [cancel EXCEPT ![t] = f],
             UNCHANGED stop
      PROVE  FlagTypes'
  BY <1>3 DEF FlagTypes
<1>4. ASSUME NEW t \in Threads, stop' = [stop EXCEPT ![t] = FALSE],
             cancel' = [cancel EXCEPT ![t] = FALSE]
      PROVE  FlagTypes'
  BY <1>4 DEF FlagTypes
<1>5. ASSUME NEW t \in Threads, NEW steps, Start(t, steps), UNCHANGED cancel
      PROVE  FlagTypes'
  <2>1. (stop[t] /\ at[t] # "none") \in BOOLEAN
    OBVIOUS
  <2>2. stop' = [stop EXCEPT ![t] = stop[t] /\ at[t] # "none"]
    BY <1>5, Zenon DEF Start
  <2> QED BY <1>2, <1>5, <2>1, <2>2
<1>6. "ProcessData" \in Threads /\ "ReadData" \in Threads
  BY DEF Threads
<1>7. CASE ReadDataFile \/ Read \/ ProcessData
  BY <1>1, <1>7 DEF ReadDataFile, Connect, ReadShouldContinue, Reconnect, SendRecords,
       DisconnectInput, ReadCancelled, Read, ProcessData, ProcessShouldContinue,
       ReceiveRecords, BeginDecode, SendFrame, ProcessCancelled, ReadOthers, ProcessOthers
<1>8. CASE Restart \/ RestartCancelled
  BY <1>1, <1>5, <1>6, <1>8, Zenon DEF Restart, RestartCancelled, flagVars
<1>9. ASSUME NEW c \in Callers, Stop(c) PROVE FlagTypes'
  <2>1. Target(c) \in Threads
    BY DEF Target, Threads
  <2>2. CASE LaunchStop(c)
    BY <1>2, <2>1, <2>2 DEF LaunchStop
  <2>3. CASE Kill(c)
    BY <1>3, <2>1, <2>3 DEF Kill
  <2>4. CASE Join(c)
    BY <1>4, <2>1, <2>4 DEF Join
  <2>5. CASE FlushPipes(c) \/ TimedOut(c)
    BY <1>1, <2>5 DEF FlushPipes, TimedOut
  <2> QED BY <1>9, <2>2, <2>3, <2>4, <2>5 DEF Stop
<1>10. CASE HidDevReader
  BY <1>1, <1>5, <1>6, <1>10, Zenon DEF HidDevReader, StartPipeline, StopPipeline
<1>11. CASE ProcessEnds
  BY <1>11, Zenon DEF ProcessEnds, FlagTypes
<1>12. CASE UNCHANGED vars
  BY <1>1, <1>12 DEF vars
<1> QED BY <1>7, <1>8, <1>9, <1>10, <1>11, <1>12 DEF Next

(* The type invariant, for every number of reports and every length. *)
THEOREM TypeCorrect == Spec => []TypeOK
<1>1. Init => StepTypes /\ FlagTypes
  <2> SUFFICES ASSUME Init PROVE StepTypes /\ FlagTypes
    OBVIOUS
  <2>1. /\ at = [t \in Threads |-> "none"]
        /\ stopAt = [c \in Callers |-> "none"] /\ waitAt = [c \in Callers |-> "none"]
    BY DEF Init
  <2>2. FlagTypes
    BY Zenon DEF Init, FlagTypes
  <2> QED BY <2>1, <2>2 DEF Threads, StepTypes
<1>2. LifeInv /\ DataTypes /\ StepTypes /\ FlagTypes => TypeOK
  <2> SUFFICES ASSUME LifeInv, DataTypes, StepTypes, FlagTypes PROVE TypeOK
    OBVIOUS
  <2>1. at \in Steps
    BY DEF LifeInv, CallTypeOK, StepTypes, Steps, Threads
  <2>2. content \in [Data!Instances -> Torn..increment] /\ decoded \in Torn..increment
    BY FileAssumption DEF DataTypes, ContentTypes, Torn
  <2> QED BY <2>1, <2>2 DEF LifeInv, CallTypeOK, ReaderSteps, DataTypes, ContentTypes,
         StepTypes, FlagTypes, TypeOK
<1> QED BY <1>1, <1>2, StepTypesKept, FlagTypesKept, DataTyped, LifeCycle, PTL DEF Spec

-----------------------------------------------------------------------------
(* What ProcessData receives is decoded: its stop flag is not set yet.     *)
Serving ==
  \/ readerAt \in {"startProcess", "running"}
  \/ readerAt = "stopProcess" /\ at["ProcessData"] # "none" /\ ~stop["ProcessData"]

(* A stop flag that is set stays set until the thread is joined, and from  *)
(* then on the pipeline is being stopped.                                  *)
LEMMA ServingBegins ==
  ASSUME LifeInv, [Next]_vars, Serving' PROVE Serving \/ readerAt = "stopped"
<1> USE DEF Serving
<1>0. "ProcessData" \in Threads /\ "ReadData" \in Threads /\ "ReadData" # "ProcessData"
  BY DEF Threads
<1>1. ASSUME UNCHANGED <<readerAt, stop>>,
             at'["ProcessData"] # "none" => at["ProcessData"] # "none"
      PROVE  Serving
  BY <1>1, Zenon
<1>2. CASE ReadDataFile \/ Read \/ ProcessData
  <2>1. UNCHANGED <<readerAt, stop>>
    BY <1>2 DEF ReadDataFile, Connect, ReadShouldContinue, Reconnect, SendRecords,
       DisconnectInput, ReadCancelled, Read, ProcessData, ProcessShouldContinue,
       ReceiveRecords, BeginDecode, SendFrame, ProcessCancelled, ReadOthers, ProcessOthers,
       flagVars, callVars
  <2>2. at'["ProcessData"] # "none" => at["ProcessData"] # "none"
    BY <1>2 DEF ReadDataFile, Connect, ReadShouldContinue, Reconnect, SendRecords,
       DisconnectInput, ReadCancelled, Read, ProcessData, ProcessShouldContinue,
       ReceiveRecords, BeginDecode, SendFrame, ProcessCancelled, Goto, LifeInv, CallTypeOK,
       Threads
  <2> QED BY <1>1, <2>1, <2>2
<1>3. ASSUME NEW steps, Start("ReadData", steps), UNCHANGED readerAt,
             steps = [u \in Threads |-> steps[u]],
             steps["ProcessData"] # "none" => at["ProcessData"] # "none"
      PROVE  Serving
  <2>1. at'["ProcessData"] = steps["ProcessData"]
    BY <1>0, <1>3 DEF Start
  <2>2. stop'["ProcessData"] = stop["ProcessData"]
    BY <1>0, <1>3, Zenon DEF Start, LifeInv, CallTypeOK
  <2> QED BY <1>3, <2>1, <2>2, Zenon
<1>4. CASE Restart
  <2>1. CASE Goto("ProcessData", "restart", "start") /\ UNCHANGED stop
    BY <1>1, <1>4, <2>1 DEF Goto, Restart, StopOthers
  <2>2. CASE at["ProcessData"] = "start"
    BY <1>3, <1>4, <2>2 DEF Goto, Restart, StopOthers, LifeInv, CallTypeOK
  <2> QED BY <1>4, <2>1, <2>2 DEF Restart
<1>5. CASE RestartCancelled
  BY <1>1, <1>5 DEF Goto, RestartCancelled, StopOthers, flagVars
<1>6. ASSUME NEW c \in Callers, Stop(c) PROVE Serving
  <2>1. UNCHANGED readerAt /\ Target(c) \in Threads
    BY <1>6 DEF Stop, LaunchStop, FlushPipes, Join, TimedOut, Kill, StopOthers, Target, Threads
  <2>2. CASE LaunchStop(c)
    <3>1. /\ UNCHANGED at
          /\ stop' = [stop EXCEPT ![Target(c)] = at[Target(c)] # "none"]
      BY <2>2 DEF LaunchStop
    <3>2. CASE Target(c) = "ProcessData"
      <4>1. stop'["ProcessData"] = (at["ProcessData"] # "none")
        BY <1>0, <3>1, <3>2, Zenon DEF LifeInv, CallTypeOK
      <4> QED BY <2>1, <3>1, <4>1, Zenon
    <3>3. CASE Target(c) # "ProcessData"
      <4>1. stop'["ProcessData"] = stop["ProcessData"]
        BY <1>0, <3>1, <3>3, Zenon DEF LifeInv, CallTypeOK
      <4> QED BY <2>1, <3>1, <4>1, Zenon
    <3> QED BY <3>2, <3>3
  <2>3. CASE Join(c)
    <3>1. CASE Target(c) = "ProcessData"
      <4>1. at'["ProcessData"] = "none"
        BY <1>0, <2>3, <3>1 DEF Join, Goto, LifeInv, CallTypeOK
      <4> QED BY <2>1, <4>1
    <3>2. CASE Target(c) # "ProcessData"
      <4>1. stop'["ProcessData"] = stop["ProcessData"]
        BY <1>0, <2>3, <3>2, Zenon DEF Join, LifeInv, CallTypeOK
      <4>2. at'["ProcessData"] = at["ProcessData"]
        BY <1>0, <2>3, <3>2 DEF Join, Goto, LifeInv, CallTypeOK
      <4> QED BY <2>1, <4>1, <4>2, Zenon
    <3> QED BY <3>1, <3>2
  <2>4. CASE FlushPipes(c) \/ TimedOut(c) \/ Kill(c)
    BY <1>1, <2>1, <2>4 DEF FlushPipes, TimedOut, Kill, flagVars
  <2> QED BY <1>6, <2>2, <2>3, <2>4 DEF Stop
<1>7. CASE StartPipeline
  BY <1>7 DEF StartPipeline, ReaderGoto
<1>8. CASE StopPipeline
  BY <1>8 DEF StopPipeline, ReaderGoto
<1>9. CASE ProcessEnds
  BY <1>9 DEF ProcessEnds
<1>10. CASE UNCHANGED vars
  BY <1>1, <1>10 DEF vars, flagVars, callVars
<1> QED BY <1>2, <1>4, <1>5, <1>6, <1>7, <1>8, <1>9, <1>10 DEF Next, HidDevReader

(* Only HidDevReader calls FlushPipes, when it has told ProcessData to     *)
(* stop.                                                                   *)
FlushInv ==
  /\ stopAt["ProcessData"] # "flush"
  /\ stopAt["HidDevReader"] = "flush" => readerAt = "stopProcess" /\ ~Serving

LEMMA FlushKept == ASSUME LifeInv, FlushInv, [Next]_vars PROVE FlushInv'
<1> USE DEF FlushInv
<1>0. /\ "ProcessData" \in Callers /\ "HidDevReader" \in Callers
      /\ "ProcessData" # "HidDevReader" /\ "ProcessData" \in Threads
  BY DEF Callers, Threads
<1>1. readerAt = "stopProcess" /\ ~Serving => ~Serving'
  BY ServingBegins
<1>2. ASSUME UNCHANGED <<stopAt, readerAt>> PROVE FlushInv'
  BY <1>1, <1>2
<1>3. ASSUME stopAt' = [c \in Callers |-> stopAt'[c]],
             \A c \in Callers : stopAt'[c] # "flush"
      PROVE  FlushInv'
  BY <1>0, <1>3
<1>4. ASSUME NEW c \in Callers, Stopped(c), c = "HidDevReader" \/ UNCHANGED readerAt
      PROVE  FlushInv'
  BY <1>0, <1>1, <1>4 DEF Stopped, LifeInv, CallTypeOK, Callers
<1>5. CASE ReadDataFile \/ Read \/ ProcessData
  BY <1>2, <1>5 DEF ReadDataFile, Connect, ReadShouldContinue, Reconnect, SendRecords,
       DisconnectInput, ReadCancelled, Read, ProcessData, ProcessShouldContinue,
       ReceiveRecords, BeginDecode, SendFrame, ProcessCancelled, ReadOthers, ProcessOthers,
       callVars
<1>6. CASE Restart \/ RestartCancelled
  BY <1>0, <1>2, <1>4, <1>6 DEF Restart, RestartCancelled, StopOthers
<1>7. ASSUME NEW c \in Callers, LaunchStop(c) PROVE FlushInv'
  <2>1. CASE Target(c) = "ProcessData"
    <3>1. c = "HidDevReader" /\ readerAt = "stopProcess" /\ readerAt' = readerAt
      BY <1>7, <2>1 DEF Target, LaunchStop, StopOthers
    <3>2. stopAt'["ProcessData"] # "flush"
      BY <1>0, <1>7, <3>1 DEF LaunchStop, StopGoto, LifeInv, CallTypeOK
    <3>3. ~Serving'
      <4>1. at' = at /\ stop'["ProcessData"] = (at["ProcessData"] # "none")
        BY <1>0, <1>7, <2>1, Zenon DEF LaunchStop, LifeInv, CallTypeOK
      <4> QED BY <3>1, <4>1, Zenon DEF Serving
    <3> QED BY <3>1, <3>2, <3>3
  <2>2. CASE Target(c) # "ProcessData"
    <3>1. readerAt' = readerAt
          /\ \A d \in Callers : stopAt'[d] = "flush" => stopAt[d] = "flush"
      BY <1>7, <2>2 DEF LaunchStop, StopGoto, StopOthers, LifeInv, CallTypeOK
    <3> QED BY <1>0, <1>1, <3>1
  <2> QED BY <2>1, <2>2
<1>8. ASSUME NEW c \in Callers, FlushPipes(c) \/ Join(c) \/ TimedOut(c) \/ Kill(c)
      PROVE  FlushInv'
  <2>1. readerAt' = readerAt
        /\ \A d \in Callers : stopAt'[d] = "flush" => stopAt[d] = "flush"
    BY <1>8 DEF FlushPipes, Join, TimedOut, Kill, StopGoto, StopOthers, LifeInv, CallTypeOK
  <2> QED BY <1>0, <1>1, <2>1
<1>9. CASE StartPipeline
  BY <1>0, <1>9 DEF StartPipeline, ReaderGoto, LifeInv, ReadyMeansGone
<1>10. CASE StopPipeline
  <2>1. CASE Stopped("HidDevReader")
    BY <1>0, <1>4, <2>1
  <2>2. CASE ReaderGoto("running", "stopProcess") /\ UNCHANGED stopAt
    BY <2>2 DEF ReaderGoto
  <2> QED BY <1>10, <2>1, <2>2 DEF StopPipeline
<1>11. CASE ProcessEnds
  BY <1>3, <1>11 DEF ProcessEnds
<1>12. CASE UNCHANGED vars
  BY <1>2, <1>12 DEF vars, callVars
<1> QED BY <1>5, <1>6, <1>7, <1>8, <1>9, <1>10, <1>11, <1>12 DEF Next, Stop, HidDevReader

-----------------------------------------------------------------------------
(* A step that neither reads nor decodes records: it leaves the buffers    *)
(* alone, and nobody begins to read, to send or to receive.                *)
Quiet ==
  /\ UNCHANGED <<dataVars, content, increment, filling>>
  /\ Serving' => Serving
  /\ at'["ReadData"] = "read" <=> at["ReadData"] = "read"
  /\ at'["ReadData"] = "send" => at["ReadData"] = "send"
  /\ at'["ProcessData"] \in {"recheck", "decode"} => at'["ProcessData"] = at["ProcessData"]

LEMMA QuietSteps ==
  ASSUME LifeInv, [Next]_vars, readerAt # "stopped",
         \/ Connect \/ Reconnect \/ DisconnectInput
         \/ ProcessShouldContinue \/ ProcessCancelled
         \/ Restart \/ RestartCancelled \/ StartPipeline \/ StopPipeline
         \/ \E c \in Callers : LaunchStop(c) \/ Join(c) \/ TimedOut(c) \/ Kill(c)
  PROVE  Quiet /\ UNCHANGED history
<1>0. /\ Serving' => Serving
      /\ "ProcessData" \in Threads /\ "ReadData" \in Threads
      /\ DOMAIN at = Threads
  BY ServingBegins DEF Threads, LifeInv, CallTypeOK
<1>1. CASE Connect \/ Reconnect \/ DisconnectInput
  BY <1>0, <1>1 DEF Connect, Reconnect, DisconnectInput, Goto, Quiet
<1>2. CASE ProcessShouldContinue \/ ProcessCancelled
  BY <1>0, <1>2 DEF ProcessShouldContinue, ProcessCancelled, Goto, ProcessOthers, readVars, Quiet
<1>3. CASE Restart \/ RestartCancelled
  BY <1>0, <1>3 DEF Restart, RestartCancelled, Start, FirstStep, Goto, StopOthers, readVars, Quiet
<1>4. CASE StartPipeline \/ StopPipeline
  BY <1>0, <1>4 DEF StartPipeline, StopPipeline, ReaderGoto, Start, FirstStep, readVars, Quiet
<1>5. ASSUME NEW c \in Callers, LaunchStop(c) \/ Join(c) \/ TimedOut(c) \/ Kill(c)
      PROVE  Quiet /\ UNCHANGED history
  BY <1>0, <1>5 DEF LaunchStop, Join, TimedOut, Kill, Goto, StopOthers, Target, Threads,
       readVars, Quiet
<1> QED BY <1>1, <1>2, <1>3, <1>4, <1>5

-----------------------------------------------------------------------------
(* read() writes where the pointer to fill points, until FlushPipes has    *)
(* exchanged that pointer under it; from then on ProcessData goes no       *)
(* further than to look at its stop flag.                                  *)
FillInv ==
  /\ at["ReadData"] # "read" => filling = {}
  /\ at["ReadData"] = "read" /\ Serving => filling = {dataMod}
  /\ NoTornRead

LEMMA NothingFilled ==
  ASSUME filling' = {}, at'["ReadData"] # "read" PROVE FillInv'
BY DEF FillInv, NoTornRead

LEMMA QuietKeepsFill == ASSUME FillInv, Quiet PROVE FillInv'
BY DEF FillInv, NoTornRead, Quiet, dataVars

LEMMA FillKept ==
  ASSUME LifeInv, DataTypes, FlushInv, FillInv, [Next]_vars PROVE FillInv'
<1>0. /\ "ProcessData" \in Threads /\ "ReadData" \in Threads /\ "ReadData" # "ProcessData"
      /\ DOMAIN at = Threads
      /\ Serving' => Serving \/ readerAt = "stopped"
  BY ServingBegins DEF Threads, LifeInv, CallTypeOK
<1>1. CASE readerAt = "stopped"
  <2>1. filling = {} /\ \A t \in Threads : at[t] = "none"
    BY <1>1, <1>0 DEF FillInv, LifeInv, RunsInBetween, Threads
  <2>2. filling' = {} /\ at'["ReadData"] # "read"
    BY <1>0, <1>1, <2>1 DEF Next, ReadDataFile, Connect, ReadShouldContinue, Reconnect,
         SendRecords, DisconnectInput, ReadCancelled, Read, ProcessData,
         ProcessShouldContinue, ReceiveRecords, BeginDecode, SendFrame, ProcessCancelled,
         Restart, RestartCancelled, Stop, LaunchStop, FlushPipes, Join, TimedOut, Kill,
         HidDevReader, StartPipeline, StopPipeline, ProcessEnds, Goto, Start, FirstStep,
         Target, ReadOthers, ProcessOthers, StopOthers, readVars, vars
  <2> QED BY <2>2, NothingFilled
<1>2. CASE readerAt # "stopped"
  <2>1. CASE ReadShouldContinue
    <3>1. dataRcv' = dataRcv /\ dataMod' = dataMod /\ filling' \subseteq {dataMod}
      BY <2>1, <1>0 DEF ReadShouldContinue, Goto, dataVars, FillInv
    <3>2. filling' = IF at'["ReadData"] = "read" THEN {dataMod} ELSE {}
      BY <2>1, <1>0 DEF ReadShouldContinue, Goto, FillInv
    <3> QED BY <3>1, <3>2, PointersDistinct DEF DataTypes, FillInv, NoTornRead
  <2>2. CASE Read \/ ReadCancelled \/ SendRecords
    <3>1. filling' = {} /\ at'["ReadData"] # "read"
      BY <1>0, <2>2 DEF Read, ReadCancelled, SendRecords, Goto, readVars, FillInv
    <3> QED BY <3>1, NothingFilled
  <2>3. CASE ReceiveRecords \/ SendFrame
    <3>1. /\ at'["ReadData"] = at["ReadData"] /\ at'["ProcessData"] # "decode"
          /\ filling' = filling /\ dataMod' = dataMod
      BY <1>0, <2>3 DEF ReceiveRecords, SendFrame, Goto, ProcessOthers, readVars, dataVars,
           Data!TryData, Data!WaitForData, Data!TakeSent, Data!pipeVars
    <3> QED BY <1>0, <1>2, <3>1 DEF FillInv, NoTornRead
  <2>4. CASE BeginDecode
    <3>1. at'["ReadData"] = at["ReadData"] /\ UNCHANGED <<filling, dataMod, dataRcv>>
      BY <1>0, <2>4 DEF BeginDecode, Goto, ProcessOthers, readVars, dataVars
    <3>2. at'["ProcessData"] = "decode" => Serving
      <4>1. readerAt \in {"running", "stopProcess"} /\ at["ProcessData"] # "none"
        BY <2>4 DEF BeginDecode, Goto, LifeInv, RunsInBetween
      <4>2. at'["ProcessData"] = IF stop["ProcessData"] THEN "ended" ELSE "decode"
        BY <1>0, <2>4 DEF BeginDecode, Goto
      <4> QED BY <4>1, <4>2 DEF Serving
    <3> QED BY <1>0, <1>2, <3>1, <3>2, PointersDistinct DEF DataTypes, FillInv, NoTornRead
  <2>5. ASSUME NEW c \in Callers, FlushPipes(c) PROVE FillInv'
    <3>1. readerAt = "stopProcess" /\ ~Serving
      BY <2>5 DEF FlushPipes, StopGoto, FlushInv, Callers
    <3>2. UNCHANGED <<at, filling, dataRcv>>
      BY <2>5 DEF FlushPipes, StopOthers, readVars, Data!SendData
    <3> QED BY <1>0, <3>1, <3>2 DEF FillInv, NoTornRead
  <2>6. CASE ProcessEnds
    <3>1. filling' = {} /\ at'["ReadData"] # "read"
      BY <1>0, <2>6 DEF ProcessEnds
    <3> QED BY <3>1, NothingFilled
  <2>7. CASE UNCHANGED vars
    BY <1>0, <1>2, <2>7 DEF vars, dataVars, readVars, FillInv, NoTornRead
  <2> QED BY <1>2, <2>1, <2>2, <2>3, <2>4, <2>5, <2>6, <2>7, QuietSteps, QuietKeepsFill
          DEF Next, ReadDataFile, ProcessData, Stop, HidDevReader
<1> QED BY <1>1, <1>2

(* Where read() writes to, in every reachable state. *)
LEMMA FillsOwnBuffer == Spec => [](FlushInv /\ FillInv)
<1>1. Init => FlushInv /\ FillInv
  <2> SUFFICES ASSUME Init PROVE FlushInv /\ FillInv
    OBVIOUS
  <2>1. /\ stopAt = [c \in Callers |-> "none"] /\ filling = {}
        /\ at = [t \in Threads |-> "none"]
    BY DEF Init
  <2> QED BY <2>1 DEF Callers, Threads, FlushInv, FillInv, NoTornRead
<1>2. LifeInv /\ DataTypes /\ FlushInv /\ FillInv /\ [Next]_vars => FlushInv' /\ FillInv'
  BY FlushKept, FillKept
<1> QED BY <1>1, <1>2, LifeCycle, DataTyped, PTL DEF Spec

(* ReadDataFile never writes into the records that are being decoded: the  *)
(* one exchange of its buffer that does not wait for it (FlushPipes,       *)
(* processdata.cpp:63) comes when ProcessData decodes nothing any more     *)
(* that it has not received before.                                        *)
THEOREM NeverTorn == Spec => []NoTornRead
<1>1. FillInv => NoTornRead
  BY DEF FillInv
<1> QED BY <1>1, FillsOwnBuffer, PTL

-----------------------------------------------------------------------------
(* The order of the reports.  A report that was read is newer than all the *)
(* others, decoded ones included; it is sent to a buffer that ProcessData  *)
(* takes over before it is overwritten; and what is received is newer than *)
(* what was decoded before.  The first object of a session may be anything *)
(* that was left over, but nothing comes after it that is older.           *)
Newest ==
  /\ content[dataMod] = increment
  /\ content[dataSent] < increment /\ content[dataRcv] < increment
  /\ decoded < increment

Received == at["ProcessData"] \in {"recheck", "decode"}

OrderInv ==
  /\ DecodedInOrder
  /\ Serving /\ trust = "on" =>
       /\ Received => content[dataRcv] > decoded
       /\ dataWasSent => content[dataSent] > decoded
  /\ Serving /\ trust # "off" =>
       /\ Received /\ dataWasSent => content[dataSent] > content[dataRcv]
       /\ at["ReadData"] = "send" => Newest

LEMMA QuietKeepsOrder ==
  ASSUME OrderInv, Quiet, UNCHANGED history PROVE OrderInv'
BY DEF OrderInv, DecodedInOrder, Received, Newest, Quiet, dataVars, history

LEMMA ReadKeepsOrder ==
  ASSUME LifeInv, DataTypes, FillInv, OrderInv, [Next]_vars, readerAt # "stopped", Read
  PROVE  OrderInv'
<1>0. /\ "ProcessData" \in Threads /\ "ReadData" \in Threads /\ "ReadData" # "ProcessData"
      /\ DOMAIN at = Threads /\ at["ReadData"] = "read"
      /\ Serving' => Serving
  BY ServingBegins DEF Threads, LifeInv, CallTypeOK, Read
<1>1. /\ at'["ProcessData"] = at["ProcessData"] /\ UNCHANGED dataVars
      /\ dataMod # dataSent /\ dataMod # dataRcv /\ dataSent # dataRcv
      /\ dataMod \in Data!Instances /\ dataSent \in Data!Instances
      /\ dataRcv \in Data!Instances
  BY <1>0, PointersDistinct DEF Read, Goto, DataTypes
<1>2. PICK readCnt \in (-1)..DataLen, marker \in BOOLEAN :
        /\ FileRead(readCnt, marker)
        /\ at'["ReadData"] = IF readCnt = 0 THEN "check"
                             ELSE IF CheckData(readCnt, marker) THEN "send" ELSE "repair"
  BY <1>0 DEF Read, Goto
<1>3. CASE trust' = "off"
  BY <1>3 DEF OrderInv, DecodedInOrder
<1>4. CASE readCnt = 0 /\ UNCHANGED <<content, increment, history>>
  BY <1>0, <1>1, <1>2, <1>4 DEF OrderInv, DecodedInOrder, Received, dataVars, history
<1>5. ASSUME NEW value, content' = Fill(value), UNCHANGED history
      PROVE  /\ content'[dataRcv] = content[dataRcv] \/ ~Serving
             /\ content'[dataSent] = content[dataSent] \/ ~Serving
             /\ content'[dataMod] = value \/ ~Serving
             /\ at["ProcessData"] = "decode" => content'[dataRcv] = content[dataRcv]
  BY <1>0, <1>1, <1>5 DEF Fill, FillInv, NoTornRead
<1>6. CASE marker = FALSE /\ content' = Fill(Torn) /\ UNCHANGED <<increment, history>>
  <2>1. at'["ReadData"] # "send"
    BY <1>2, <1>6 DEF CheckData
  <2> QED BY <1>0, <1>1, <1>5, <1>6, <2>1
          DEF OrderInv, DecodedInOrder, Received, dataVars, history
<1>7. CASE increment' = increment + 1 /\ content' = Fill(increment') /\ UNCHANGED history
  <2>1. Serving => Newest'
    BY <1>1, <1>5, <1>7 DEF Newest, DataTypes, ContentTypes, dataVars, history
  <2> QED BY <1>0, <1>1, <1>5, <1>7, <2>1
          DEF OrderInv, DecodedInOrder, Received, dataVars, history
<1> QED BY <1>2, <1>3, <1>4, <1>6, <1>7 DEF FileRead

LEMMA CancelKeepsOrder ==
  ASSUME LifeInv, DataTypes, FillInv, OrderInv, [Next]_vars, readerAt # "stopped",
         ReadCancelled
  PROVE  OrderInv'
<1>0. /\ "ProcessData" \in Threads /\ "ReadData" \in Threads /\ "ReadData" # "ProcessData"
      /\ DOMAIN at = Threads /\ (Serving' => Serving)
  BY ServingBegins DEF Threads, LifeInv, CallTypeOK
<1>1. /\ at'["ProcessData"] = at["ProcessData"] /\ at'["ReadData"] = "ended"
      /\ UNCHANGED <<dataVars, increment, history>>
      /\ dataMod # dataSent /\ dataMod # dataRcv
      /\ dataSent \in Data!Instances /\ dataRcv \in Data!Instances
  BY <1>0, PointersDistinct DEF ReadCancelled, Goto, DataTypes
<1>2. content' = content \/ content' = Fill(Torn)
  BY DEF ReadCancelled, BrokenOff
<1>3. Serving => filling \subseteq {dataMod}
  BY DEF FillInv
<1>4. /\ Serving => content'[dataRcv] = content[dataRcv] /\ content'[dataSent] = content[dataSent]
      /\ at["ProcessData"] = "decode" => content'[dataRcv] = content[dataRcv]
  BY <1>1, <1>2, <1>3 DEF Fill, FillInv, NoTornRead
<1> QED BY <1>0, <1>1, <1>4 DEF OrderInv, DecodedInOrder, Received, dataVars, history

LEMMA OrderKept ==
  ASSUME LifeInv, DataTypes, FlushInv, FillInv, OrderInv, [Next]_vars PROVE OrderInv'
<1>0. /\ "ProcessData" \in Threads /\ "ReadData" \in Threads /\ "ReadData" # "ProcessData"
      /\ DOMAIN at = Threads
      /\ Serving' => Serving \/ readerAt = "stopped"
  BY ServingBegins DEF Threads, LifeInv, CallTypeOK
<1>1. /\ content[dataRcv] \in Int /\ content[dataSent] \in Int /\ content[dataMod] \in Int
      /\ content[dataRcv] <= increment /\ content[dataSent] <= increment
      /\ increment \in Int /\ decoded \in Int
  BY PointersDistinct DEF DataTypes, ContentTypes
<1>2. CASE readerAt = "stopped"
  <2>1. \A t \in Threads : at[t] = "none"
    BY <1>0, <1>2 DEF LifeInv, RunsInBetween, Threads
  <2>2. at'["ProcessData"] = "none" /\ at'["ReadData"] \in {"none", "connect"}
    BY <1>0, <1>2, <2>1 DEF Next, ReadDataFile, Connect, ReadShouldContinue, Reconnect,
         SendRecords, DisconnectInput, ReadCancelled, Read, ProcessData,
         ProcessShouldContinue, ReceiveRecords, BeginDecode, SendFrame, ProcessCancelled,
         Restart, RestartCancelled, Stop, LaunchStop, FlushPipes, Join, TimedOut, Kill,
         HidDevReader, StartPipeline, StopPipeline, ProcessEnds, Goto, Start, FirstStep,
         Target, ReaderGoto, vars
  <2>3. Serving' => trust' = "first"
    <3>1. CASE StartPipeline
      BY <1>2, <3>1 DEF StartPipeline, ReaderGoto
    <3>2. CASE ~StartPipeline
      <4>1. readerAt' = "stopped"
        BY <1>0, <1>2, <2>1, <3>2 DEF Next, ReadDataFile, Connect, ReadShouldContinue,
             Reconnect, SendRecords, DisconnectInput, ReadCancelled, Read, ProcessData,
             ProcessShouldContinue, ReceiveRecords, BeginDecode, SendFrame,
             ProcessCancelled, Restart, RestartCancelled, Stop, LaunchStop, FlushPipes,
             Join, TimedOut, Kill, HidDevReader, StopPipeline, ProcessEnds, Goto, InStop,
             Target, ReaderGoto, StopOthers, Stopped, LifeInv, ReadyMeansGone, Callers, vars,
             callVars
      <4> QED BY <4>1 DEF Serving
    <3> QED BY <3>1, <3>2
  <2> QED BY <2>2, <2>3 DEF OrderInv, DecodedInOrder, Received
<1>3. CASE readerAt # "stopped"
  <2>1. CASE ReadShouldContinue
    <3>1. /\ at'["ReadData"] # "send" /\ at'["ProcessData"] = at["ProcessData"]
          /\ UNCHANGED <<dataVars, content, increment, history>>
      BY <1>0, <2>1 DEF ReadShouldContinue, Goto
    <3> QED BY <1>0, <1>3, <3>1 DEF OrderInv, DecodedInOrder, Received, dataVars, history
  <2>2. CASE SendRecords
    <3>1. /\ at["ReadData"] = "send" /\ at'["ReadData"] = "check"
          /\ at'["ProcessData"] = at["ProcessData"]
          /\ dataSent' = dataMod /\ dataRcv' = dataRcv
          /\ UNCHANGED <<content, increment, history>>
      BY <1>0, <2>2 DEF SendRecords, Goto, Data!SendData, readVars
    <3> QED BY <1>0, <1>3, <3>1 DEF OrderInv, DecodedInOrder, Received, Newest, history
  <2>3. CASE ReceiveRecords
    <3>1. /\ at'["ReadData"] = at["ReadData"] /\ UNCHANGED <<content, increment, history>>
          /\ at'["ProcessData"] \in {"recheck", "restart"}
      BY <1>0, <2>3 DEF ReceiveRecords, Goto, ProcessOthers, readVars
    <3>2. CASE at'["ProcessData"] = "recheck"
      <4>1. /\ dataWasSent /\ dataRcv' = dataSent /\ dataSent' = dataRcv /\ ~dataWasSent'
            /\ dataMod' = dataMod
        BY <1>0, <2>3, <3>2 DEF ReceiveRecords, Goto, Data!TryData, Data!WaitForData,
             Data!TakeSent
      <4> QED BY <1>0, <1>3, <3>1, <3>2, <4>1
              DEF OrderInv, DecodedInOrder, Received, Newest, history
    <3>3. CASE at'["ProcessData"] = "restart"
      <4>1. UNCHANGED dataVars
        BY <1>0, <2>3, <3>3 DEF ReceiveRecords, Goto, Data!TryData, Data!pipeVars, dataVars
      <4> QED BY <1>0, <1>3, <3>1, <3>3, <4>1
              DEF OrderInv, DecodedInOrder, Received, Newest, dataVars, history
    <3> QED BY <3>1, <3>2, <3>3
  <2>4. CASE BeginDecode
    <3>1. /\ at["ProcessData"] = "recheck" /\ at'["ReadData"] = at["ReadData"]
          /\ UNCHANGED <<dataVars, content, increment, history>>
      BY <1>0, <2>4 DEF BeginDecode, Goto, ProcessOthers, readVars
    <3>2. at'["ProcessData"] = "decode" => Serving
      <4>1. readerAt \in {"running", "stopProcess"} /\ at["ProcessData"] # "none"
        BY <3>1 DEF LifeInv, RunsInBetween
      <4>2. at'["ProcessData"] = IF stop["ProcessData"] THEN "ended" ELSE "decode"
        BY <1>0, <2>4 DEF BeginDecode, Goto
      <4> QED BY <4>1, <4>2 DEF Serving
    <3> QED BY <1>0, <1>3, <3>1, <3>2
            DEF OrderInv, DecodedInOrder, Received, Newest, dataVars, history
  <2>5. CASE SendFrame
    <3>1. /\ at["ProcessData"] = "decode" /\ at'["ProcessData"] = "check"
          /\ at'["ReadData"] = at["ReadData"]
          /\ UNCHANGED <<dataVars, content, increment>>
          /\ decoded' = IF trust = "off" THEN decoded ELSE content[dataRcv]
          /\ trust' = IF trust = "first" THEN "on" ELSE trust
      BY <1>0, <2>5 DEF SendFrame, Goto, ProcessOthers, readVars
    <3> QED BY <1>0, <1>1, <1>3, <3>1
            DEF OrderInv, DecodedInOrder, Received, Newest, dataVars, DataTypes, ContentTypes
  <2>6. ASSUME NEW c \in Callers, FlushPipes(c) PROVE OrderInv'
    <3>1. readerAt = "stopProcess" /\ ~Serving
      BY <2>6 DEF FlushPipes, StopGoto, FlushInv, Callers
    <3>2. UNCHANGED <<at, content, dataRcv, history>>
      BY <2>6 DEF FlushPipes, StopOthers, readVars, Data!SendData
    <3> QED BY <1>0, <3>1, <3>2 DEF OrderInv, DecodedInOrder, history
  <2>7. CASE ProcessEnds
    <3>1. ~Serving' /\ trust' = "first"
      BY <2>7 DEF ProcessEnds, Serving
    <3> QED BY <3>1 DEF OrderInv, DecodedInOrder
  <2>8. CASE UNCHANGED vars
    BY <1>0, <1>3, <2>8
       DEF vars, dataVars, readVars, history, OrderInv, DecodedInOrder, Received, Newest
  <2> QED BY <1>3, <2>1, <2>2, <2>3, <2>4, <2>5, <2>6, <2>7, <2>8, ReadKeepsOrder,
             CancelKeepsOrder, QuietSteps, QuietKeepsOrder
          DEF Next, ReadDataFile, ProcessData, Stop, HidDevReader
<1> QED BY <1>2, <1>3

(* However often ReadDataFile is killed and started again, ProcessData     *)
(* decodes whole reports in the order of the device, each once, unless a   *)
(* read has failed (readdatafile.cpp:48).                                  *)
THEOREM InOrder == Spec => []DecodedInOrder
<1>1. Init => OrderInv
  <2> SUFFICES ASSUME Init PROVE OrderInv
    OBVIOUS
  <2>1. at = [t \in Threads |-> "none"] /\ readerAt = "stopped"
    BY DEF Init
  <2> QED BY <2>1 DEF Threads, OrderInv, DecodedInOrder, Serving
<1>2. OrderInv => DecodedInOrder
  BY DEF OrderInv
<1> QED BY <1>1, <1>2, OrderKept, LifeCycle, DataTyped, FillsOwnBuffer, PTL DEF Spec

=============================================================================
