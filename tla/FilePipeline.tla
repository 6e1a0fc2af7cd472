---------------------------- MODULE FilePipeline ----------------------------
(***************************************************************************)
(* HidDevReader on the hiddev-file path (cUseHiddevFile of main.cpp): the  *)
(* thread ReadDataFile reads records from /dev/usb/hiddevX into a PipeOut, *)
(* and ProcessData decodes them into frames.  When no records come in      *)
(* time, ProcessData restarts ReadDataFile from its own thread, while      *)
(* another thread may be stopping the pipeline: two callers of the         *)
(* operations of Thread.                                                   *)
(*                                                                         *)
(* The module ends where ProcessData passes a frame on: the PipeOut it     *)
(* fills, ServeFrame behind it and the consumers are what FramePipeline    *)
(* has behind ReadDataApi, and the steps there do not wait for anything    *)
(* here.  The signals Unsynced and ReadStuck have no receiver and are left *)
(* out.                                                                    *)
(***************************************************************************)
EXTENDS Integers

CONSTANTS
  rec1, rec2, rec3,  \* the instances in ReadDataFile::Data
  MaxIncrement,      \* bound: number of reports the device produces
  DataLen,           \* data->size(): bytes of the records of one report
  SizeModulus        \* 2^w for the width w of size_t

ASSUME FileAssumption ==
  /\ rec1 # rec2 /\ rec1 # rec3 /\ rec2 # rec3
  /\ MaxIncrement \in Nat
  /\ DataLen \in Nat \ {0}
  /\ SizeModulus \in Nat /\ SizeModulus > DataLen

VARIABLES
  dataMod, dataSent, dataRcv, dataWasSent,  \* ReadDataFile::Data
  content,     \* instance of Data -> Increment of the report in it, 0, or Torn
  increment,   \* Increment of the newest report that was read
  at,          \* where the Execute of each thread is
  filling,     \* the instance of Data read() is writing to, as a set
  file,        \* the hiddev file is open
  stop,        \* the stop flag of each Thread
  cancel,      \* pthread_cancel was called and is pending
  readerAt,    \* where the caller of HidDevReader::Start and Stop is
  stopAt,      \* where the asynchronous Thread::Stop of each caller is
  waitAt,      \* where a caller of TryStopThenKill is that waits for it
  trust,       \* what the decoded records can be relied on (history)
  decoded      \* Increment of the last report decoded (history)

Data == INSTANCE PipeOut WITH
          inst1 <- rec1, inst2 <- rec2, inst3 <- rec3, bufMod <- dataMod,
          bufSent <- dataSent, bufRcv <- dataRcv, bufWasSent <- dataWasSent

dataVars  == <<dataMod, dataSent, dataRcv, dataWasSent>>
readVars  == <<content, increment, filling, file>>
flagVars  == <<stop, cancel>>
callVars  == <<readerAt, stopAt, waitAt>>
history   == <<trust, decoded>>
vars == <<dataVars, readVars, at, flagVars, callVars, history>>

Torn == -1   \* an instance that holds bytes of more than one report

Threads == {"ReadData", "ProcessData"}
Callers == {"HidDevReader", "ProcessData"}

Steps ==
  [ReadData    : {"none", "connect", "check", "read", "repair", "send",
                  "close", "ended"},
   ProcessData : {"none", "check", "wait", "restart", "start", "recheck",
                  "decode", "ended"}]

TypeOK ==
  /\ Data!PipeTypeOK
  /\ content \in [Data!Instances -> Torn..increment]
  /\ increment \in 0..MaxIncrement
  /\ at \in Steps
  /\ filling \subseteq Data!Instances
  /\ file \in BOOLEAN
  /\ stop \in [Threads -> BOOLEAN] /\ cancel \in [Threads -> BOOLEAN]
  /\ readerAt \in {"stopped", "startProcess", "running", "stopProcess",
                   "stopRead"}
  /\ stopAt \in [Callers -> {"none", "flush", "join", "ready"}]
  /\ waitAt \in [Callers -> {"none", "wait", "kill", "get"}]
  /\ trust \in {"first", "on", "off"}
  /\ decoded \in Torn..increment

Init ==
  /\ Data!PipeInit
  /\ content = [b \in Data!Instances |-> 0] /\ increment = 0
  /\ at = [t \in Threads |-> "none"]
  /\ filling = {} /\ file = FALSE
  /\ stop = [t \in Threads |-> FALSE] /\ cancel = [t \in Threads |-> FALSE]
  /\ readerAt = "stopped"
  /\ stopAt = [c \in Callers |-> "none"] /\ waitAt = [c \in Callers |-> "none"]
  /\ trust = "first" /\ decoded = 0

Goto(thread, from, to) == at[thread] = from /\ at' = [at EXCEPT ![thread] = to]

-----------------------------------------------------------------------------
(* Thread ReadDataFile *)

ReadOthers == <<flagVars, callVars>>

(* The first ReconnectInput, when the file could be opened. *)
Connect ==
  /\ Goto("ReadData", "connect", "check")
  /\ file' = TRUE
  /\ UNCHANGED <<dataVars, content, increment, filling, history, ReadOthers>>

(* The pointer to fill is dereferenced when Read is called, before ppoll. *)
ReadShouldContinue ==
  /\ IF stop["ReadData"]
     THEN Goto("ReadData", "check", "close") /\ UNCHANGED filling
     ELSE Goto("ReadData", "check", "read") /\ filling' = {dataMod}
  /\ UNCHANGED <<dataVars, content, increment, file, history, ReadOthers>>

Fill(value) ==
  [b \in Data!Instances |-> IF b \in filling THEN value ELSE content[b]]

(* A read that is broken off may have stored some of the bytes of a report. *)
BrokenOff == {content} \cup {Fill(Torn) : cnt \in 1..(DataLen - 1)}

(* What CheckData may find at the start of a buffer: the marker of a whole *)
(* report; none where nothing was read yet; either in a torn one.          *)
MarkerIn(value) ==
  CASE value > 0 -> {TRUE} [] value = 0 -> {FALSE} [] OTHER -> BOOLEAN

(* HidDevFile::Read.  Zero: ppoll timed out, or there is no open file.  A  *)
(* full count: a whole report, or the end of one and the start of another, *)
(* where the marker may happen to be found in the middle of a report.      *)
(* Less: the end of the file.  Negative: ppoll or one of the reads failed. *)
FileRead(readCnt, marker) ==
  \/ /\ readCnt = 0
     /\ UNCHANGED <<content, increment, history>>
  \/ /\ file /\ readCnt = DataLen /\ marker = TRUE
     /\ increment < MaxIncrement /\ increment' = increment + 1
     /\ content' = Fill(increment')
     /\ UNCHANGED history
  \/ /\ file /\ readCnt \in 1..DataLen /\ marker = FALSE
     /\ content' = Fill(Torn)
     /\ UNCHANGED <<increment, history>>
  \/ /\ file /\ readCnt = DataLen /\ marker = TRUE
     /\ content' = Fill(Torn)
     /\ trust' = "off" /\ decoded' = 0
     /\ UNCHANGED increment
  \/ /\ file /\ readCnt = -1
     /\ content' \in BrokenOff
     /\ \A b \in filling : marker \in MarkerIn(content'[b])
     /\ trust' = "off" /\ decoded' = 0
     /\ UNCHANGED increment

\* Slip: the start marker is not looked at.
CheckDataNoMarker(readCnt, marker) == readCnt % SizeModulus >= DataLen

(* CheckData.  `readCnt < data->size()` converts the ssize_t to a size_t. *)
CheckData(readCnt, marker) == readCnt % SizeModulus >= DataLen /\ marker

Read ==
  /\ at["ReadData"] = "read"
  /\ \E readCnt \in (-1)..DataLen, marker \in BOOLEAN :
       /\ FileRead(readCnt, marker)
       /\ Goto("ReadData", "read", IF readCnt = 0 THEN "check"
                                   ELSE IF CheckData(readCnt, marker) THEN "send"
                                   ELSE "repair")
  /\ filling' = {}
  /\ UNCHANGED <<dataVars, file, ReadOthers>>

(* ReconnectInput within CheckData: nobody looks whether it succeeded. *)
Reconnect ==
  /\ Goto("ReadData", "repair", "check")
  /\ file' \in BOOLEAN
  /\ UNCHANGED <<dataVars, content, increment, filling, history, ReadOthers>>

SendRecords ==
  /\ Goto("ReadData", "send", "check")
  /\ Data!SendData
  /\ UNCHANGED <<readVars, history, ReadOthers>>

DisconnectInput ==
  /\ Goto("ReadData", "close", "ended")
  /\ file' = FALSE
  /\ UNCHANGED <<dataVars, content, increment, filling, history, ReadOthers>>

(* ppoll, read, open and close are cancellation points.  Nothing closes    *)
(* the file when the stack is unwound.                                     *)
ReadCancelled ==
  /\ cancel["ReadData"]
  /\ \/ Goto("ReadData", "read", "ended") /\ UNCHANGED file
     \/ /\ \E from \in {"connect", "repair", "close"} : Goto("ReadData", from, "ended")
        /\ file' \in BOOLEAN
  /\ filling' = {} /\ content' \in BrokenOff
  /\ UNCHANGED <<dataVars, increment, history, ReadOthers>>

ReadDataFile ==
  \/ Connect \/ ReadShouldContinue \/ Reconnect \/ SendRecords
  \/ DisconnectInput \/ ReadCancelled

-----------------------------------------------------------------------------
(* Thread ProcessData *)

ProcessOthers == <<readVars, flagVars, callVars>>

ProcessShouldContinue ==
  /\ Goto("ProcessData", "check", IF stop["ProcessData"] THEN "ended" ELSE "wait")
  /\ UNCHANGED <<dataVars, history, ProcessOthers>>

\* Slip: a timeout is not followed by a restart.
ReceiveRecordsOnly ==
  /\ \/ Goto("ProcessData", "wait", "recheck") /\ Data!TryData(TRUE)
     \/ Goto("ProcessData", "wait", "check") /\ Data!TryData(FALSE)
  /\ UNCHANGED <<history, ProcessOthers>>

(* WaitForData with a timeout; when nothing came, ReadDataFile is stuck. *)
ReceiveRecords ==
  /\ \/ Goto("ProcessData", "wait", "recheck") /\ Data!TryData(TRUE)
     \/ Goto("ProcessData", "wait", "restart") /\ Data!TryData(FALSE)
  /\ UNCHANGED <<history, ProcessOthers>>

\* Slip: after the wait, the stop flag is not looked at again.
BeginDecodeAnyway ==
  /\ Goto("ProcessData", "recheck", "decode")
  /\ UNCHANGED <<dataVars, history, ProcessOthers>>

BeginDecode ==
  /\ Goto("ProcessData", "recheck", IF stop["ProcessData"] THEN "ended" ELSE "decode")
  /\ UNCHANGED <<dataVars, history, ProcessOthers>>

(* The records in dataRcv have been copied into a frame, which is sent.    *)
(* Every byte is written through the pointer to fill, which FlushPipes of  *)
(* ServeFrame may exchange in between; that is behind the module's end.    *)
SendFrame ==
  /\ Goto("ProcessData", "decode", "check")
  /\ decoded' = IF trust = "off" THEN decoded ELSE content[dataRcv]
  /\ trust' = IF trust = "first" THEN "on" ELSE trust
  /\ UNCHANGED <<dataVars, ProcessOthers>>

(* Cancellation points are the wait for records, and in a restart the line *)
(* logged first and the join at the end of TryStopThenKill: the future is  *)
(* ready then, and Start is passed over (RestartCancelled).                *)
ProcessCancelled ==
  /\ cancel["ProcessData"]
  /\ \/ Goto("ProcessData", "wait", "ended")
     \/ waitAt["ProcessData"] = "none" /\ Goto("ProcessData", "restart", "ended")
  /\ UNCHANGED <<dataVars, history, ProcessOthers>>

ProcessData ==
  \/ ProcessShouldContinue \/ ReceiveRecords \/ BeginDecode
  \/ SendFrame \/ ProcessCancelled

-----------------------------------------------------------------------------
(* Thread: start, stop and kill *)

FirstStep == [ReadData |-> "connect", ProcessData |-> "check"]

(* Start leaves a thread alone that has a std::thread.  `steps` is where   *)
(* the threads are once the caller has gone on.                            *)
Start(t, steps) ==
  /\ at' = IF at[t] = "none" THEN [steps EXCEPT ![t] = FirstStep[t]] ELSE steps
  /\ stop' = [stop EXCEPT ![t] = @ /\ at[t] # "none"]

Target(c) ==
  IF c = "HidDevReader" /\ readerAt = "stopProcess" THEN "ProcessData" ELSE "ReadData"

InStop(c) ==
  IF c = "HidDevReader" THEN readerAt \in {"stopProcess", "stopRead"}
                        ELSE at["ProcessData"] = "restart"

StopGoto(c, from, to) == stopAt[c] = from /\ stopAt' = [stopAt EXCEPT ![c] = to]
WaitGoto(c, from, to) == waitAt[c] = from /\ waitAt' = [waitAt EXCEPT ![c] = to]

StopOthers == <<readVars, readerAt, history>>

(* TryStopThenKill starts Thread::Stop on a thread of its own. *)
LaunchStop(c) ==
  /\ InStop(c)
  /\ StopGoto(c, "none", IF at[Target(c)] = "none" THEN "ready"
                         ELSE IF Target(c) = "ProcessData" THEN "flush" ELSE "join")
  /\ WaitGoto(c, "none", "wait")
  /\ stop' = [stop EXCEPT ![Target(c)] = at[Target(c)] # "none"]
  /\ UNCHANGED <<dataVars, at, cancel, StopOthers>>

(* ProcessData::FlushPipes calls SendData from the receiving side; that of *)
(* ReadData is empty.                                                      *)
FlushPipes(c) ==
  /\ StopGoto(c, "flush", "join")
  /\ Data!SendData
  /\ UNCHANGED <<at, flagVars, waitAt, StopOthers>>

(* Between the join and the reset nobody looks at the Thread (RestartAlone).*)
Join(c) ==
  /\ Goto(Target(c), "ended", "none")
  /\ StopGoto(c, "join", "ready")
  /\ stop' = [stop EXCEPT ![Target(c)] = FALSE]
  /\ cancel' = [cancel EXCEPT ![Target(c)] = FALSE]
  /\ UNCHANGED <<dataVars, waitAt, StopOthers>>

(* wait_for gives up: 500 us for a restart, 10 s for a stop. *)
TimedOut(c) ==
  /\ stopAt[c] # "ready"
  /\ WaitGoto(c, "wait", "kill")
  /\ UNCHANGED <<dataVars, at, flagVars, stopAt, StopOthers>>

\* Slip: the thread is not cancelled.
KillNobody(c) ==
  /\ WaitGoto(c, "kill", "get")
  /\ UNCHANGED <<dataVars, at, flagVars, stopAt, StopOthers>>

(* pthread_cancel on a thread that has been joined is undefined; it does   *)
(* nothing here, or else the process ends (ProcessEnds).                   *)
Kill(c) ==
  /\ WaitGoto(c, "kill", "get")
  /\ cancel' = [cancel EXCEPT ![Target(c)] = at[Target(c)] # "none"]
  /\ UNCHANGED <<dataVars, at, stop, stopAt, StopOthers>>

Stop(c) == LaunchStop(c) \/ FlushPipes(c) \/ Join(c) \/ TimedOut(c) \/ Kill(c)

\* Slip: after a kill the future is not waited for.
StoppedNoWait(c) ==
  /\ (stopAt[c] = "ready" /\ waitAt[c] = "wait") \/ waitAt[c] = "get"
  /\ stopAt' = [stopAt EXCEPT ![c] = "none"]
  /\ waitAt' = [waitAt EXCEPT ![c] = "none"]

(* The future is ready, and whoever waited for it goes on. *)
Stopped(c) ==
  /\ stopAt[c] = "ready" /\ waitAt[c] \in {"wait", "get"}
  /\ stopAt' = [stopAt EXCEPT ![c] = "none"]
  /\ waitAt' = [waitAt EXCEPT ![c] = "none"]

(* TryRestartThenForceRestart on the thread of ProcessData. *)
Restart ==
  /\ \/ /\ Stopped("ProcessData") /\ Goto("ProcessData", "restart", "start")
        /\ UNCHANGED stop
     \/ /\ at["ProcessData"] = "start"
        /\ Start("ReadData", [at EXCEPT !["ProcessData"] = "check"])
        /\ UNCHANGED <<stopAt, waitAt>>
  /\ UNCHANGED <<dataVars, cancel, StopOthers>>

RestartCancelled ==
  /\ cancel["ProcessData"]
  /\ Stopped("ProcessData") /\ Goto("ProcessData", "restart", "ended")
  /\ UNCHANGED <<dataVars, flagVars, StopOthers>>

-----------------------------------------------------------------------------
(* HidDevReader: Start and Stop exclude each other by startStopMutex *)

ReaderGoto(from, to) == readerAt = from /\ readerAt' = to

StartPipeline ==
  /\ \/ /\ ReaderGoto("stopped", "startProcess")
        /\ Start("ReadData", at)
        /\ trust' = "first" /\ decoded' = 0
     \/ /\ ReaderGoto("startProcess", "running")
        /\ Start("ProcessData", at)
        /\ UNCHANGED history
  /\ UNCHANGED <<dataVars, readVars, cancel, stopAt, waitAt>>

\* Slip: the pipeline is stopped from its beginning.
StopPipelineForward ==
  /\ \/ ReaderGoto("running", "stopRead") /\ UNCHANGED <<stopAt, waitAt>>
     \/ /\ Stopped("HidDevReader")
        /\ ReaderGoto("stopRead", "stopProcess") \/ ReaderGoto("stopProcess", "stopped")
  /\ UNCHANGED <<dataVars, readVars, at, flagVars, history>>

(* Stop goes through the pipeline from its end, one TryStopThenKill after  *)
(* the other; ServeFrame is behind it when it comes to ProcessData.        *)
StopPipeline ==
  /\ \/ ReaderGoto("running", "stopProcess") /\ UNCHANGED <<stopAt, waitAt>>
     \/ /\ Stopped("HidDevReader")
        /\ ReaderGoto("stopProcess", "stopRead") \/ ReaderGoto("stopRead", "stopped")
  /\ UNCHANGED <<dataVars, readVars, at, flagVars, history>>

(* The file could not be opened and an exception leaves the thread, or a   *)
(* thread was cancelled that was none any more: the process ends, systemd  *)
(* starts it again, and the device goes on counting.                       *)
ProcessEnds ==
  /\ \/ at["ReadData"] = "connect"
     \/ \E c \in Callers : waitAt[c] = "kill" /\ at[Target(c)] = "none"
  /\ dataMod' = rec1 /\ dataSent' = rec2 /\ dataRcv' = rec3 /\ dataWasSent' = FALSE
  /\ content' = [b \in Data!Instances |-> 0]
  /\ at' = [t \in Threads |-> "none"]
  /\ filling' = {} /\ file' = FALSE
  /\ stop' = [t \in Threads |-> FALSE] /\ cancel' = [t \in Threads |-> FALSE]
  /\ readerAt' = "stopped"
  /\ stopAt' = [c \in Callers |-> "none"] /\ waitAt' = [c \in Callers |-> "none"]
  /\ trust' = "first" /\ decoded' = 0
  /\ UNCHANGED increment

-----------------------------------------------------------------------------
HidDevReader == StartPipeline \/ StopPipeline

Next ==
  \/ ReadDataFile \/ Read \/ ProcessData \/ Restart \/ RestartCancelled
  \/ \E c \in Callers : Stop(c)
  \/ HidDevReader \/ ProcessEnds

Spec == Init /\ [][Next]_vars

(* Every thread keeps running and every timeout comes to an end.  A read   *)
(* need not return: ppoll is not asked again before the rest of a report   *)
(* is read.  Nobody has to start or to stop the pipeline.                  *)
Fairness ==
  /\ WF_vars(ReadDataFile) /\ WF_vars(ProcessData) /\ WF_vars(Restart)
  /\ WF_vars(file = FALSE /\ Read)
  /\ \A c \in Callers : WF_vars(Stop(c))
  /\ WF_vars(readerAt # "stopped" /\ readerAt # "running" /\ HidDevReader)

FairSpec == Spec /\ Fairness

-----------------------------------------------------------------------------
(* ReadDataFile never writes into the records ProcessData is decoding,     *)
(* although FlushPipes exchanges the buffer it fills from the other side   *)
(* and it may be cancelled in the middle of a read and started again.      *)
NoTornRead == at["ProcessData"] = "decode" => dataRcv \notin filling

(* executeThread and stop of a Thread are used without a lock.  It holds   *)
(* because ProcessData restarts ReadDataFile only while HidDevReader keeps *)
(* away from it: Start has passed it and Stop waits for ProcessData first. *)
RestartAlone ==
  at["ProcessData"] \in {"restart", "start"} =>
    readerAt \in {"running", "stopProcess"}

(* When Stop has returned, no thread of the pipeline is left, also if a    *)
(* restart was under way or a thread had to be cancelled.                  *)
NothingSurvivesStop ==
  readerAt = "stopped" => \A t \in Threads : at[t] = "none" /\ ~stop[t] /\ ~cancel[t]

(* What ProcessData decodes, once a session is under way, are whole        *)
(* reports in the order of the device, each once, however often            *)
(* ReadDataFile was killed.  The first object of a session may be left     *)
(* over from the one before (FlushPipes, processdata.cpp:63).  Nothing is  *)
(* said after a read that failed, which CheckData takes for a full one, or *)
(* that began within a report where it found the marker all the same.      *)
DecodedInOrder ==
  (at["ProcessData"] = "decode" /\ trust = "on") => content[dataRcv] > decoded

(* A read that hangs is broken off in the end, and a file that could not   *)
(* be opened again is tried anew.                                          *)
StuckReaderReplaced ==
  (at["ReadData"] = "read" \/ (at["ReadData"] = "check" /\ ~file)) ~>
    \/ at["ReadData"] \notin {"read", "check"}
    \/ at["ReadData"] = "check" /\ file

(* Stopping the pipeline comes to an end, also with a read that hangs.     *)
StopReturns == readerAt = "stopProcess" ~> readerAt = "stopped"

=============================================================================
