--------------------------- MODULE CemuhookAdapter ---------------------------
(***************************************************************************)
(* CemuhookAdapter turns the frames it consumes into motion data, one per  *)
(* call of SetMotionDataNewFrame.  A frame whose Increment was seen before *)
(* is skipped; when Increments are missing, the motion of the next frame   *)
(* is returned once for every missing one, with the timestamps they would  *)
(* have had.                                                               *)
(*                                                                         *)
(* The frames come from a Serve of HidDevReader.  Which Increment the next *)
(* one carries is left open: reports get lost, stale buffers are served    *)
(* again, and the device restarts its counter or wraps it.                 *)
(***************************************************************************)
EXTENDS Integers

CONSTANTS
  IncModulus,            \* 2^32: SdHidFrame::Increment is a uint32_t
  ScanTime,              \* SD_SCANTIME_US
  RepeatWindow,          \* 100: how far back an Increment is a repetition
  cMaxDiffReplicate,     \* the longest gap that is filled
  cNoGyroCooldownFrames, \* calls between two NoGyro signals
  cMaxRepeatedLoop       \* repetitions skipped in one call

ASSUME AdapterAssumption ==
  /\ IncModulus \in Nat \ {0} /\ ScanTime \in Nat \ {0}
  /\ RepeatWindow \in Nat \ {0} /\ cMaxDiffReplicate \in Nat
  /\ cNoGyroCooldownFrames \in Nat \ {0} /\ cMaxRepeatedLoop \in Nat

VARIABLES
  pc,              \* where the thread of the caller is
  ignoreFirst,     \* the next call has to discard a frame first
  lastInc,         \* Increment of the last frame that was not a repetition
  lastTimestamp,   \* timestamp of the last motion of a gap
  toReplicate,     \* motions still to be returned for a gap
  repeatedLoop,    \* repetitions this call may still skip
  noGyroCooldown,  \* calls before NoGyro may be signalled again
  signal,          \* the NoGyro signal
  isPersistent,    \* the caller hands in the motion of the last call
  motion,          \* the caller's structure
  data,            \* the adapter's copy, when the caller keeps none
  emitted,         \* timestamp of the last motion made (history)
  sinceSignal      \* calls since the last NoGyro signal (history)

gapVars     == <<lastInc, lastTimestamp, toReplicate>>
gyroVars    == <<noGyroCooldown, signal, sinceSignal>>
motionVars  == <<isPersistent, motion, data, emitted>>
vars == <<pc, ignoreFirst, repeatedLoop, gapVars, gyroVars, motionVars>>

Increments == 0..(IncModulus - 1)
Frames     == [inc : Increments, zero : BOOLEAN]   \* zero: all six axes are 0

(* A motion is its timestamp and the Increment of the frame whose axis     *)
(* values it carries.  Unset stands for memory nobody has written.         *)
Unset   == -1
Motions == [stamp : Int, from : Int]
Blank   == [stamp |-> Unset, from |-> Unset]

TypeOK ==
  /\ pc \in {"stopped", "idle", "ignore", "loop"}
  /\ ignoreFirst \in BOOLEAN
  /\ lastInc \in Increments /\ lastTimestamp \in Int
  /\ toReplicate \in Nat
  /\ repeatedLoop \in Nat
  /\ noGyroCooldown \in 0..cNoGyroCooldownFrames
  /\ signal \in BOOLEAN
  /\ sinceSignal \in 0..cNoGyroCooldownFrames
  /\ isPersistent \in BOOLEAN
  /\ motion \in Motions /\ data \in Motions
  /\ emitted \in Int

Init ==
  /\ pc = "stopped"
  /\ ignoreFirst \in BOOLEAN     \* not initialised
  /\ lastInc = 0 /\ lastTimestamp = Unset /\ toReplicate = 0
  /\ repeatedLoop = 0
  /\ noGyroCooldown = 0 /\ signal = FALSE
  /\ sinceSignal = cNoGyroCooldownFrames
  /\ isPersistent \in BOOLEAN     \* given to the constructor
  /\ motion = Blank /\ data = Blank /\ emitted = Unset

-----------------------------------------------------------------------------
ToTimestamp(increment) == increment * ScanTime

(* What a frame makes of a motion.  The axis values, smoothed and with the *)
(* gyroscope's dead zone cut out, are the frame's own: the test for a      *)
(* header of 0xDD (line 73) compares the two constants and never holds.    *)
SetMotionData(frame) == [stamp |-> ToTimestamp(frame.inc), from |-> frame.inc]

StartFrameGrab ==
  /\ pc = "stopped" /\ pc' = "idle"
  /\ lastInc' = 0
  /\ ignoreFirst' = TRUE
  /\ UNCHANGED <<lastTimestamp, toReplicate, repeatedLoop, gyroVars, motionVars>>

StopFrameGrab ==
  /\ pc = "idle" /\ pc' = "stopped"
  /\ UNCHANGED <<ignoreFirst, repeatedLoop, gapVars, gyroVars, motionVars>>

\* Slip: the cooldown is counted down past zero.
CoolDownPastZero == noGyroCooldown' = noGyroCooldown - 1

CoolDown ==
  noGyroCooldown' = IF noGyroCooldown > 0 THEN noGyroCooldown - 1 ELSE noGyroCooldown

(* SetMotionDataNewFrame is entered.  A caller that is not persistent      *)
(* hands in a structure with anything in it.                               *)
SetMotionDataNewFrame ==
  /\ pc = "idle" /\ pc' = IF ignoreFirst THEN "ignore" ELSE "loop"
  /\ CoolDown
  /\ sinceSignal' = IF sinceSignal < cNoGyroCooldownFrames
                    THEN sinceSignal + 1 ELSE sinceSignal
  /\ repeatedLoop' = cMaxRepeatedLoop
  /\ motion' \in IF isPersistent THEN {motion} ELSE {motion, Blank}
  /\ UNCHANGED <<ignoreFirst, gapVars, signal, isPersistent, data, emitted>>

(* A ConsumeLock is taken and given back without looking at the frame. *)
IgnoreFirst ==
  /\ pc = "ignore" /\ pc' = "loop"
  /\ ignoreFirst' = FALSE
  /\ UNCHANGED <<repeatedLoop, gapVars, gyroVars, motionVars>>

-----------------------------------------------------------------------------
(* The loop of SetMotionDataNewFrame *)

Return == pc' = "idle" /\ emitted' = motion'.stamp

SendSignal == signal' = TRUE

\* Slip: the cooldown is not started.
CheckGyroNoCooldown(frame) ==
  /\ signal' = (signal \/ (noGyroCooldown <= 0 /\ frame.zero))
  /\ sinceSignal' = IF noGyroCooldown <= 0 /\ frame.zero THEN 0 ELSE sinceSignal
  /\ UNCHANGED noGyroCooldown

CheckGyro(frame) ==
  IF noGyroCooldown <= 0 /\ frame.zero
  THEN /\ SendSignal
       /\ noGyroCooldown' = cNoGyroCooldownFrames
       /\ sinceSignal' = 0
  ELSE UNCHANGED gyroVars

Diff(frame) == frame.inc - lastInc

Repeated(frame) ==
  lastInc # 0 /\ Diff(frame) < 1 /\ Diff(frame) > -RepeatWindow

\* Slip: the loop over repetitions starts again instead of ending.
SkipRepeatedForever(frame) ==
  /\ Repeated(frame)
  /\ repeatedLoop' = IF repeatedLoop <= 0 THEN cMaxRepeatedLoop ELSE repeatedLoop - 1
  /\ UNCHANGED <<pc, gapVars, motionVars>>

SkipRepeated(frame) ==
  /\ Repeated(frame)
  /\ IF repeatedLoop <= 0
     THEN pc' = "idle" /\ UNCHANGED repeatedLoop
     ELSE repeatedLoop' = repeatedLoop - 1 /\ UNCHANGED pc
  /\ UNCHANGED <<gapVars, motionVars>>

\* Slip: every missing frame is counted and the frame at hand once more.
MissedOffByOne(frame) ==
  IF lastInc # 0 /\ Diff(frame) > 1 /\ Diff(frame) <= cMaxDiffReplicate
  THEN Diff(frame) ELSE toReplicate

Missed(frame) ==
  IF lastInc # 0 /\ Diff(frame) > 1 /\ Diff(frame) <= cMaxDiffReplicate
  THEN Diff(frame) - 1 ELSE toReplicate

TakeFrame(frame) ==
  /\ ~Repeated(frame)
  /\ toReplicate' = Missed(frame)
  /\ IF toReplicate' > 0
     THEN /\ lastTimestamp' = ToTimestamp((lastInc + 1) % IncModulus)
          /\ motion' = [SetMotionData(frame) EXCEPT !.stamp = lastTimestamp']
          /\ data' = IF isPersistent THEN data ELSE motion'
     ELSE /\ motion' = SetMotionData(frame)
          /\ UNCHANGED <<lastTimestamp, data>>
  /\ lastInc' = frame.inc
  /\ Return
  /\ UNCHANGED <<repeatedLoop, isPersistent>>

(* One turn of the loop with a ConsumeLock. *)
ConsumeFrame(frame) ==
  /\ pc = "loop" /\ toReplicate = 0
  /\ CheckGyro(frame)
  /\ SkipRepeated(frame) \/ TakeFrame(frame)
  /\ UNCHANGED ignoreFirst

\* Slip: the replica is made from what the caller handed in.
ReplicateInPlace ==
  /\ pc = "loop" /\ toReplicate > 0
  /\ toReplicate' = toReplicate - 1
  /\ lastTimestamp' = lastTimestamp + ScanTime
  /\ motion' = [motion EXCEPT !.stamp = lastTimestamp']
  /\ Return
  /\ UNCHANGED <<ignoreFirst, repeatedLoop, lastInc, gyroVars, isPersistent, data>>

Replicate ==
  /\ pc = "loop" /\ toReplicate > 0
  /\ toReplicate' = toReplicate - 1
  /\ lastTimestamp' = lastTimestamp + ScanTime
  /\ IF isPersistent
     THEN /\ motion' = [motion EXCEPT !.stamp = lastTimestamp']
          /\ UNCHANGED data
     ELSE /\ data' = [data EXCEPT !.stamp = lastTimestamp']
          /\ motion' = data'
  /\ Return
  /\ UNCHANGED <<ignoreFirst, repeatedLoop, lastInc, gyroVars, isPersistent>>

(* ReadDataApi picks the NoGyro signal up. *)
TrySignal ==
  /\ signal /\ signal' = FALSE
  /\ UNCHANGED <<pc, ignoreFirst, repeatedLoop, gapVars, noGyroCooldown,
                 sinceSignal, motionVars>>

-----------------------------------------------------------------------------
Loop == Replicate \/ \E frame \in Frames : ConsumeFrame(frame)

Next ==
  \/ StartFrameGrab \/ StopFrameGrab \/ SetMotionDataNewFrame \/ IgnoreFirst
  \/ Loop \/ TrySignal

Spec == Init /\ [][Next]_vars

(* HidDevReader hands a waiting consumer a frame in the end (FramePipeline,*)
(* ConsumerServed), and a call that has begun goes on.                     *)
FairSpec == Spec /\ WF_vars(IgnoreFirst \/ Loop)

-----------------------------------------------------------------------------
(* While a gap is being filled, the caller holds the values of the frame  *)
(* that ended the gap, with the timestamp of a frame that is missing, as   *)
(* many scan times early as replicas are still to come, whether the caller *)
(* keeps its structure or not (cemuhookadapter.cpp:181-192, 203-210).      *)
GapFilled ==
  (pc \in {"idle", "stopped"} /\ toReplicate > 0) =>
    motion.stamp = ToTimestamp(motion.from - toReplicate)

(* Whatever frames are lost or repeated, the timestamps a caller gets go   *)
(* up one scan time per call.  Exceptions: the first frame, a gap that is  *)
(* too long, a device that restarted, and a device that repeats itself     *)
(* until the call gives up and returns the structure as it was.            *)
StampsInStep ==
  [][(pc = "loop" /\ pc' = "idle" /\ lastInc # 0) =>
       \/ emitted' = emitted + ScanTime
       \/ lastInc' - lastInc > cMaxDiffReplicate
       \/ lastInc' - lastInc <= -RepeatWindow
       \/ repeatedLoop = 0 /\ motion' = motion]_vars

(* Two NoGyro signals are at least cNoGyroCooldownFrames calls apart, so   *)
(* that ReadDataApi, which skips a read for each of them, keeps reading.   *)
(* A signal is new to the reader even when one that it has picked up came  *)
(* from the same call, for another frame of the loop.                      *)
SignalsApart ==
  [][(~signal /\ signal') \/ sinceSignal' < sinceSignal
       => sinceSignal = cNoGyroCooldownFrames]_vars

(* A call returns, even if the device repeats one frame for ever.          *)
CallReturns == pc \in {"ignore", "loop"} ~> pc = "idle"

(* cemuhookadapter.h:22 says motion is replicated "in case of missing      *)
(* frames": the frames replicated for lie between two of this session.     *)
ReplicaOnlyForMissed == toReplicate > 0 => toReplicate < lastInc

=============================================================================
