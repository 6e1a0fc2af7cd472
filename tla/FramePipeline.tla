---------------------------- MODULE FramePipeline ----------------------------
(***************************************************************************)
(* HidDevReader on the hidapi path that main() selects: the thread         *)
(* ReadDataApi fills a PipeOut from the HID device, the thread ServeFrame  *)
(* passes every frame to the registered Serve objects, and consumers read  *)
(* the frame in place under a ConsumeLock.  One consumer, the Sender, is   *)
(* the send thread of the DSU server: it starts the pipeline, consumes and *)
(* stops the pipeline, again and again.  Presenters only start and         *)
(* consume (PresenterRun of main.cpp, off in the shipped build).           *)
(*                                                                         *)
(* Locks.  framesMutex is held across steps by ServeFrame only, and the    *)
(* mutex of a Serve by ServeFrame or by its consumer, so ownership is read *)
(* off the program counters (FramesLocked) and the set `locks`.            *)
(* startStopMutex is held by the Sender while it is in StopSteps.          *)
(***************************************************************************)
EXTENDS PipeOut, Integers, FiniteSets

CONSTANTS
  Sender,        \* the send thread of the server
  Presenters,    \* further consumers
  MaxIncrement,  \* bound: number of reports the device produces
  FrameLen,      \* bytes in a frame, data->size()
  SizeModulus    \* 2^w for the width w of size_t

Consumers == {Sender} \cup Presenters

ASSUME FrameAssumption ==
  /\ Sender \notin Presenters
  /\ MaxIncrement \in Nat
  /\ FrameLen \in Nat \ {0}
  /\ SizeModulus \in Nat /\ SizeModulus > FrameLen

VARIABLES
  content,      \* instance -> Increment of the report in it, 0, or Torn
  increment,    \* Increment of the newest report that was read
  readAt,       \* where ReadDataApi::Execute is
  filling,      \* the instance hid_read is writing to, as a set
  serveAt,      \* where ServeFrame::Execute is
  locks,        \* consumers whose Serve is locked by ServeFrame
  frames,       \* consumers that have a registered Serve
  served,       \* the flag of each Serve
  stop,         \* the stop flag of each Thread
  cancel,       \* pthread_cancel was called and is pending
  at,           \* where each consumer is
  ignoreFirst,  \* the consumer still has to skip a frame
  noGyro,       \* the NoGyro signal is set
  seen,         \* newest Increment that is old news to the consumer
  stale         \* a failed read was passed on since the consumer started

deviceVars == <<content, increment>>
readVars   == <<readAt, filling>>
serveVars  == <<serveAt, locks, frames, served>>
threadVars == <<stop, cancel>>
newsVars   == <<seen, stale>>
userVars   == <<at, ignoreFirst, noGyro, newsVars>>
vars == <<pipeVars, deviceVars, readVars, serveVars, threadVars, userVars>>

Torn == -1   \* an instance that holds bytes of more than one report

ReadSteps  == {"none", "open", "check", "gyro", "read", "send", "done"}
ServeSteps == {"none", "check", "waitServes", "blocking", "asleep", "recheck",
               "lockFrames", "lockServes", "waitData", "release", "unwind",
               "sleep", "done"}
StopSteps  == {"stopServe", "flush", "notify", "joinServe", "stopRead",
               "joinRead"}
UserSteps  == {"idle", "getServe", "packet", "want", "reading",
               "findServe", "eraseServe"} \cup StopSteps
Threads    == {"ReadData", "ServeFrame"}

FramesLocked ==
  serveAt \in {"blocking", "lockServes", "waitData", "release", "unwind"}

TypeOK ==
  /\ PipeTypeOK
  /\ content \in [Instances -> Int]
  /\ \A b \in Instances : content[b] <= increment
  /\ increment \in 0..MaxIncrement
  /\ readAt \in ReadSteps /\ serveAt \in ServeSteps
  /\ filling \subseteq Instances
  /\ locks \subseteq Consumers /\ frames \subseteq Consumers
  /\ served \in [Consumers -> BOOLEAN]
  /\ stop \in [Threads -> BOOLEAN] /\ cancel \in [Threads -> BOOLEAN]
  /\ at \in [Consumers -> UserSteps]
  /\ ignoreFirst \in [Consumers -> BOOLEAN]
  /\ noGyro \in BOOLEAN
  /\ seen \in [Consumers -> Int] /\ stale \in [Consumers -> BOOLEAN]

Init ==
  /\ PipeInit
  /\ content = [b \in Instances |-> 0]
  /\ increment = 0
  /\ readAt = "none" /\ filling = {} /\ serveAt = "none"
  /\ locks = {} /\ frames = {} /\ served = [c \in Consumers |-> FALSE]
  /\ stop = [t \in Threads |-> FALSE] /\ cancel = [t \in Threads |-> FALSE]
  /\ at = [c \in Consumers |-> "idle"]
  /\ ignoreFirst = [c \in Consumers |-> FALSE] /\ noGyro = FALSE
  /\ seen = [c \in Consumers |-> 0] /\ stale = [c \in Consumers |-> FALSE]

-----------------------------------------------------------------------------
(* Thread ReadDataApi *)

ReadOthers == <<serveVars, threadVars, userVars>>

OpenDevice ==
  /\ readAt = "open"
  /\ readAt' = "check"
  /\ UNCHANGED <<pipeVars, deviceVars, filling, ReadOthers>>

(* The process ends and systemd starts it again; the device goes on        *)
(* counting.                                                               *)
RestartProcess ==
  /\ bufMod' = inst1 /\ bufSent' = inst2 /\ bufRcv' = inst3
  /\ bufWasSent' = FALSE
  /\ content' = [b \in Instances |-> 0]
  /\ readAt' = "none" /\ filling' = {} /\ serveAt' = "none"
  /\ locks' = {} /\ frames' = {} /\ served' = [c \in Consumers |-> FALSE]
  /\ stop' = [t \in Threads |-> FALSE] /\ cancel' = [t \in Threads |-> FALSE]
  /\ at' = [c \in Consumers |-> "idle"]
  /\ ignoreFirst' = [c \in Consumers |-> FALSE] /\ noGyro' = FALSE
  /\ seen' = [c \in Consumers |-> 0] /\ stale' = [c \in Consumers |-> FALSE]
  /\ UNCHANGED increment

(* Open failed: the exception leaves the thread function. *)
OpenFails == readAt = "open" /\ RestartProcess

ReadShouldContinue ==
  /\ readAt = "check"
  /\ readAt' = IF stop["ReadData"] THEN "done" ELSE "gyro"
  /\ UNCHANGED <<pipeVars, deviceVars, filling, ReadOthers>>

(* EnableGyro writes a command; whether that worked is only logged. *)
EnableGyro == readAt' = "check" /\ UNCHANGED filling

(* TrySignal; EnableGyro takes the place of the read.  Otherwise the       *)
(* pointer to fill is dereferenced here, without a lock.                   *)
TryNoGyro ==
  /\ readAt = "gyro"
  /\ noGyro' = FALSE
  /\ IF noGyro THEN EnableGyro
               ELSE readAt' = "read" /\ filling' = {bufMod}
  /\ UNCHANGED <<pipeVars, deviceVars, serveVars, threadVars,
                 at, ignoreFirst, newsVars>>

Fill(value) == [b \in Instances |-> IF b \in filling THEN value ELSE content[b]]

(* A read that is broken off may have stored some of the bytes of a frame. *)
BrokenOff == {content} \cup {Fill(Torn) : cnt \in 1..(FrameLen - 1)}

(* HidApiDev::Read: the whole frame; part of it, when a later hid_read     *)
(* timed out; or a negative count, when the first one timed out or any of  *)
(* them failed.  The device always answers or times out.                   *)
Read(readCnt) ==
  \/ /\ readCnt = FrameLen
     /\ increment < MaxIncrement
     /\ increment' = increment + 1
     /\ content' = Fill(increment')
     /\ UNCHANGED stale
  \/ /\ readCnt \in 1..(FrameLen - 1)
     /\ content' = Fill(Torn)
     /\ UNCHANGED <<increment, stale>>
  \/ /\ readCnt = -1
     /\ content' \in BrokenOff
     /\ stale' = [c \in Consumers |-> TRUE]
     /\ UNCHANGED increment

\* Slip: the comparison the log message has in mind, between signed numbers.
LessThanSizeSigned(readCnt) == readCnt < FrameLen

(* readCnt < data->size() converts the int to size_t. *)
LessThanSize(readCnt) == readCnt % SizeModulus < FrameLen

ReadReport ==
  /\ readAt = "read"
  /\ \E readCnt \in (-1)..FrameLen :
       /\ Read(readCnt)
       /\ readAt' = IF LessThanSize(readCnt) \/ readCnt = 0
                    THEN "check" ELSE "send"
  /\ filling' = {}
  /\ UNCHANGED <<pipeVars, serveVars, threadVars, at, ignoreFirst, noGyro, seen>>

SendFrame ==
  /\ readAt = "send"
  /\ SendData
  /\ readAt' = "check"
  /\ UNCHANGED <<deviceVars, filling, ReadOthers>>

(* hid_read and hid_write are cancellation points; unwinding closes dev. *)
ReadCancelled ==
  /\ cancel["ReadData"] /\ readAt \in {"gyro", "read"}
  /\ readAt' = "done" /\ filling' = {}
  /\ content' \in BrokenOff
  /\ UNCHANGED <<pipeVars, increment, ReadOthers>>

ReadDataApi ==
  OpenDevice \/ ReadShouldContinue \/ TryNoGyro \/ ReadReport \/ SendFrame
    \/ ReadCancelled

-----------------------------------------------------------------------------
(* Thread ServeFrame *)

ServeOthers == <<deviceVars, readVars, threadVars, userVars>>

ServeGoto(from, to) == serveAt = from /\ serveAt' = to

ServeShouldContinue ==
  /\ \/ ServeGoto("check", IF stop["ServeFrame"] THEN "done" ELSE "waitServes")
     \/ ServeGoto("recheck", IF stop["ServeFrame"] THEN "done" ELSE "lockFrames")
     \/ ServeGoto("sleep", "check")
  /\ UNCHANGED <<pipeVars, locks, frames, served, ServeOthers>>

(* WaitForServes: the predicate is evaluated under framesMutex, and the    *)
(* wait gives the mutex up and goes to sleep in one step.                  *)
WaitForServes ==
  /\ \/ ServeGoto("waitServes", IF frames # {} \/ stop["ServeFrame"]
                                THEN "recheck" ELSE "blocking")
     \/ ServeGoto("blocking", "asleep")
  /\ UNCHANGED <<pipeVars, locks, frames, served, ServeOthers>>

(* framesCv may wake up without a notification, but need not. *)
WakeUnnotified ==
  /\ ServeGoto("asleep", "waitServes")
  /\ UNCHANGED <<pipeVars, locks, frames, served, ServeOthers>>

LockFrames ==
  /\ ServeGoto("lockFrames", "lockServes")
  /\ UNCHANGED <<pipeVars, locks, frames, served, ServeOthers>>

\* Slip: the lock of a Serve is taken without waiting for its consumer.
GetServeLockNoWait(c) ==
  /\ serveAt = "lockServes" /\ c \in frames \ locks
  /\ locks' = locks \cup {c}
  /\ UNCHANGED <<pipeVars, serveAt, frames, served, ServeOthers>>

GetServeLock(c) ==
  /\ serveAt = "lockServes" /\ c \in frames \ locks
  /\ at[c] # "reading"
  /\ locks' = locks \cup {c}
  /\ UNCHANGED <<pipeVars, serveAt, frames, served, ServeOthers>>

GotServeLocks ==
  /\ frames = locks
  /\ ServeGoto("lockServes", "waitData")
  /\ UNCHANGED <<pipeVars, locks, frames, served, ServeOthers>>

ReceiveFrame ==
  /\ ServeGoto("waitData", "release")
  /\ WaitForData
  /\ UNCHANGED <<locks, frames, served, ServeOthers>>

(* ~ServeLock: the flag is set before the mutex is released. *)
ReleaseServeLock(c) ==
  /\ serveAt \in {"release", "unwind"} /\ c \in locks
  /\ locks' = locks \ {c}
  /\ served' = [served EXCEPT ![c] = TRUE]
  /\ UNCHANGED <<pipeVars, serveAt, frames, ServeOthers>>

UnlockFrames ==
  /\ locks = {}
  /\ ServeGoto("release", "sleep") \/ ServeGoto("unwind", "done")
  /\ UNCHANGED <<pipeVars, locks, frames, served, ServeOthers>>

(* Both condition-variable waits and the sleep are cancellation points;    *)
(* unwinding the wait for data releases the locks held around it.          *)
ServeCancelled ==
  /\ cancel["ServeFrame"]
  /\ ServeGoto("asleep", "done") \/ ServeGoto("sleep", "done")
       \/ ServeGoto("waitData", "unwind")
  /\ UNCHANGED <<pipeVars, locks, frames, served, ServeOthers>>

ServeFrame ==
  \/ ServeShouldContinue \/ WaitForServes \/ LockFrames \/ GotServeLocks
  \/ ReceiveFrame \/ UnlockFrames \/ ServeCancelled
  \/ \E c \in Consumers : GetServeLock(c) \/ ReleaseServeLock(c)

-----------------------------------------------------------------------------
(* Consumers *)

UserOthers == <<deviceVars, filling>>

UserGoto(c, from, to) == at[c] = from /\ at' = [at EXCEPT ![c] = to]

HasThread(t) == IF t = "ReadData" THEN readAt # "none" ELSE serveAt # "none"

\* Slip: the first frame of a session is not skipped.
StartNoIgnore(c) ==
  /\ UserGoto(c, "idle", "getServe")
  /\ at[Sender] \notin StopSteps
  /\ readAt' = IF readAt = "none" THEN "open" ELSE readAt
  /\ serveAt' = IF serveAt = "none" THEN "check" ELSE serveAt
  /\ seen' = [seen EXCEPT ![c] = increment]
  /\ stale' = [stale EXCEPT ![c] = FALSE]
  /\ UNCHANGED <<pipeVars, UserOthers, locks, frames, served, threadVars,
                 ignoreFirst, noGyro>>

(* StartFrameGrab up to HidDevReader::Start, and PresenterRun's Start.     *)
(* Start leaves a thread alone that has a std::thread.  Whatever was read  *)
(* before the session is old news.                                         *)
Start(c) ==
  /\ UserGoto(c, "idle", "getServe")
  /\ at[Sender] \notin StopSteps
  /\ readAt' = IF readAt = "none" THEN "open" ELSE readAt
  /\ serveAt' = IF serveAt = "none" THEN "check" ELSE serveAt
  /\ stop' = [t \in Threads |-> HasThread(t) /\ stop[t]]
  /\ ignoreFirst' = [ignoreFirst EXCEPT ![c] = (c = Sender)]
  /\ seen' = [seen EXCEPT ![c] = increment]
  /\ stale' = [stale EXCEPT ![c] = FALSE]
  /\ UNCHANGED <<pipeVars, UserOthers, locks, frames, served, cancel, noGyro>>

(* notify_all on framesCv. *)
WakeServeFrame == serveAt' = IF serveAt = "asleep" THEN "waitServes" ELSE serveAt

GetServe(c) ==
  /\ ~FramesLocked
  /\ UserGoto(c, "getServe", "packet")
  /\ frames' = frames \cup {c}
  /\ served' = [served EXCEPT ![c] = FALSE]
  /\ WakeServeFrame
  /\ UNCHANGED <<pipeVars, UserOthers, readAt, locks, threadVars,
                 ignoreFirst, noGyro, newsVars>>

(* The next turn of a consumer's loop; the Sender may find stopSending.    *)
NextPacket(c) ==
  /\ \/ UserGoto(c, "packet", "want")
     \/ c = Sender /\ UserGoto(c, "packet", "findServe")
  /\ UNCHANGED <<pipeVars, deviceVars, readVars, serveVars, threadVars,
                 ignoreFirst, noGyro, newsVars>>

(* The constructor of ConsumeLock: the mutex, then the wait for the flag.  *)
(* The lock that GetConsumeLock returns is a moved copy whose `moved` was  *)
(* never initialised; the destructor that tests it can only clear the flag *)
(* once more, still under the mutex.                                       *)
ConsumeLock(c) ==
  /\ c \notin locks /\ served[c]
  /\ UserGoto(c, "want", "reading")
  /\ served' = [served EXCEPT ![c] = FALSE]
  /\ UNCHANGED <<pipeVars, UserOthers, readAt, serveAt, locks, frames,
                 threadVars, ignoreFirst, noGyro, newsVars>>

(* The frame has been read in place and the ConsumeLock goes out of scope. *)
(* The adapter may have found the frame all zero and signalled NoGyro.     *)
EndConsume(c) ==
  /\ IF ignoreFirst[c]
     THEN UserGoto(c, "reading", "want") /\ UNCHANGED <<seen, noGyro>>
     ELSE /\ UserGoto(c, "reading", "packet")
          /\ seen' = [seen EXCEPT ![c] = content[bufRcv]]
          /\ noGyro' \in {noGyro, TRUE}
  /\ ignoreFirst' = [ignoreFirst EXCEPT ![c] = FALSE]
  /\ UNCHANGED <<pipeVars, UserOthers, readAt, serveVars, threadVars, stale>>

(* StopServe looks for the Serve under a shared lock and erases it under   *)
(* an exclusive one; nothing holds the lock in between.                    *)
StopServe ==
  /\ ~FramesLocked
  /\ \/ UserGoto(Sender, "findServe", "eraseServe") /\ UNCHANGED frames
     \/ UserGoto(Sender, "eraseServe", "stopServe") /\ frames' = frames \ {Sender}
  /\ UNCHANGED <<pipeVars, UserOthers, readAt, serveAt, locks, served,
                 threadVars, ignoreFirst, noGyro, newsVars>>

-----------------------------------------------------------------------------
(* HidDevReader::Stop: TryStopThenKill on ServeFrame, then on ReadData.    *)
(* The caller waits for the asynchronous Stop, so the two are one actor.   *)

StopOthers ==
  <<UserOthers, locks, frames, served, ignoreFirst, noGyro, newsVars>>

SetStop ==
  /\ \/ /\ UserGoto(Sender, "stopServe", "flush")
        /\ stop' = [stop EXCEPT !["ServeFrame"] = TRUE]
     \/ /\ UserGoto(Sender, "stopRead", "joinRead")   \* FlushPipes is empty
        /\ stop' = [stop EXCEPT !["ReadData"] = TRUE]
  /\ UNCHANGED <<pipeVars, readAt, serveAt, cancel, StopOthers>>

(* ServeFrame::FlushPipes: SendData, from the receiving side, then notify. *)
FlushPipes ==
  /\ \/ UserGoto(Sender, "flush", "notify") /\ SendData /\ UNCHANGED serveAt
     \/ UserGoto(Sender, "notify", "joinServe") /\ WakeServeFrame /\ UNCHANGED pipeVars
  /\ UNCHANGED <<readAt, threadVars, StopOthers>>

\* Slip: the thread that does not stop is waited for but never cancelled.
StopTimeoutNoCancel == FALSE

(* wait_for timed out.  The bound is 10 s, but nothing orders it. *)
StopTimeout ==
  /\ \/ /\ at[Sender] = "joinServe"
        /\ cancel' = [cancel EXCEPT !["ServeFrame"] = TRUE]
     \/ /\ at[Sender] = "joinRead"
        /\ cancel' = [cancel EXCEPT !["ReadData"] = TRUE]
  /\ UNCHANGED <<pipeVars, readAt, serveAt, stop, at, StopOthers>>

(* The time is up when Stop has just joined the thread; to cancel it then  *)
(* is undefined.  Nothing comes of it (Join), or the process ends.         *)
LateCancel ==
  /\ \/ at[Sender] = "joinServe" /\ serveAt = "done"
     \/ at[Sender] = "joinRead" /\ readAt = "done"
  /\ RestartProcess

Join ==
  /\ \/ /\ serveAt = "done" /\ UserGoto(Sender, "joinServe", "stopRead")
        /\ serveAt' = "none" /\ UNCHANGED readAt
        /\ stop' = [stop EXCEPT !["ServeFrame"] = FALSE]
        /\ cancel' = [cancel EXCEPT !["ServeFrame"] = FALSE]
     \/ /\ readAt = "done" /\ UserGoto(Sender, "joinRead", "idle")
        /\ readAt' = "none" /\ UNCHANGED serveAt
        /\ stop' = [stop EXCEPT !["ReadData"] = FALSE]
        /\ cancel' = [cancel EXCEPT !["ReadData"] = FALSE]
  /\ UNCHANGED <<pipeVars, StopOthers>>

-----------------------------------------------------------------------------
User(c) == Start(c) \/ GetServe(c) \/ NextPacket(c) \/ ConsumeLock(c)
             \/ EndConsume(c)

Stopping == SetStop \/ FlushPipes \/ StopTimeout \/ Join

Next ==
  \/ ReadDataApi \/ OpenFails \/ ServeFrame \/ WakeUnnotified \/ LateCancel
  \/ \E c \in Consumers : User(c)
  \/ StopServe \/ Stopping

Spec == Init /\ [][Next]_vars

(* Both pipeline threads keep running, and so does whoever is inside an    *)
(* operation.  A lock that ServeFrame takes again and again is still       *)
(* obtained in the end, because ServeFrame sleeps 500 us without any lock  *)
(* between two frames (serveframe.cpp:96).  The device does not answer     *)
(* with short reports only: it sends whole ones or falls silent.  Nobody   *)
(* has to start, to ask for another packet or to stop.                     *)
Fairness ==
  /\ WF_vars(ReadDataApi) /\ WF_vars(ServeFrame)
  /\ SF_vars(ReadReport /\ readAt' = "send")
  /\ \A c \in Consumers : SF_vars(GetServe(c)) /\ SF_vars(ConsumeLock(c))
                            /\ WF_vars(EndConsume(c))
  /\ SF_vars(StopServe) /\ WF_vars(Stopping)

FairSpec == Spec /\ Fairness

-----------------------------------------------------------------------------
(* hid_read never writes into the frame a consumer is reading: the two     *)
(* threads share no lock, only the exchange of pointers in PipeOut.        *)
NoTornRead == \A c \in Consumers : at[c] = "reading" => bufRcv \notin filling

(* While any consumer holds its ConsumeLock, the frame it reads in place   *)
(* (Serve::GetPointer) stays the received one: ServeFrame does not pass to *)
(* the next frame before all of them have let go.                          *)
FrameKeptUnderLock ==
  [][\A c \in Consumers : (at[c] = "reading" /\ at'[c] = "reading")
                              => bufRcv' = bufRcv]_vars

(* As long as no read failed since it started, a consumer is handed only   *)
(* whole frames it has not seen, read after it started, in the order of    *)
(* the device; this is what ignoreFirst and the served flag are for.       *)
FreshUnlessReadFailed ==
  \A c \in Consumers : (at[c] = "reading" /\ ~ignoreFirst[c] /\ ~stale[c])
                          => content[bufRcv] > seen[c]

(* thread.h:44 says FlushPipes forces the thread to continue through all  *)
(* waits: once it has run, ServeFrame is not asleep in WaitForServes.      *)
FlushForcesContinue ==
  at[Sender] = "joinServe" => serveAt # "asleep"

(* A consumer that waits for a frame gets one, even while the device is    *)
(* silent, unless the process restarts.                                    *)
ConsumerServed == at[Sender] = "want" ~> at[Sender] \in {"reading", "idle"}

(* Stopping the pipeline comes to an end, be the device silent or not.  A  *)
(* device that sends short reports only is excluded by Fairness: ServeFrame*)
(* would wait for a whole one for ever, with framesMutex, and StopServe    *)
(* for framesMutex.                                                        *)
StopReturns == at[Sender] = "findServe" ~> at[Sender] = "idle"

=============================================================================
