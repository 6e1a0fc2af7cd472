------------------------ MODULE CemuhookAdapterProofs ------------------------
(***************************************************************************)
(* Theorems about CemuhookAdapter, for every width of the counter, scan    *)
(* time, window and limit, and for both kinds of callers.                  *)
(***************************************************************************)
EXTENDS CemuhookAdapter, TLAPS

USE DEF gapVars, gyroVars, motionVars

(* Timestamps of neighbouring Increments are one scan time apart. *)
LEMMA NextTimestamp ==
  ASSUME NEW n \in Int
  PROVE  ToTimestamp(n) \in Int /\ ToTimestamp(n + 1) = ToTimestamp(n) + ScanTime
BY AdapterAssumption DEF ToTimestamp

(* An Increment that is not the last one does not wrap. *)
LEMMA NoWrap ==
  ASSUME NEW n \in Nat, n < IncModulus PROVE n % IncModulus = n
BY AdapterAssumption

-----------------------------------------------------------------------------
(* The structure the next replica is made from. *)
Source == IF isPersistent THEN motion ELSE data

(* While replicas are to come, lastTimestamp is behind the frame that      *)
(* ended the gap by one scan time per replica; between two calls the       *)
(* caller's structure agrees with it.  Within a session that has seen a    *)
(* frame, the motion made last carries lastTimestamp during a gap and the  *)
(* time of lastInc outside of one.                                         *)
GapInv ==
  toReplicate > 0 =>
    /\ lastTimestamp = ToTimestamp(Source.from - toReplicate)
    /\ pc \in {"idle", "stopped"} =>
         motion.stamp = lastTimestamp /\ motion.from = Source.from

SessionInv ==
  lastInc # 0 =>
    /\ toReplicate = 0 => emitted = ToTimestamp(lastInc)
    /\ toReplicate > 0 => emitted = lastTimestamp /\ Source.from = lastInc

IInv == TypeOK /\ GapInv /\ SessionInv

-----------------------------------------------------------------------------
(* The three ways through the loop *)

LEMMA TypeAfterCheckGyro ==
  ASSUME TypeOK, NEW frame \in Frames, CheckGyro(frame)
  PROVE  /\ signal' \in BOOLEAN /\ noGyroCooldown' \in 0..cNoGyroCooldownFrames
         /\ sinceSignal' \in 0..cNoGyroCooldownFrames
<1>1. CASE noGyroCooldown <= 0 /\ frame.zero
  BY <1>1, AdapterAssumption DEF CheckGyro, SendSignal
<1>2. CASE ~(noGyroCooldown <= 0 /\ frame.zero)
  <2>1. signal' = signal /\ noGyroCooldown' = noGyroCooldown /\ sinceSignal' = sinceSignal
    BY <1>2 DEF CheckGyro, SendSignal
  <2>2. QED BY <2>1 DEF TypeOK
<1>3. QED BY <1>1, <1>2

LEMMA TypeAfterTake ==
  ASSUME TypeOK, NEW frame \in Frames, toReplicate = 0, pc = "loop",
         CheckGyro(frame), TakeFrame(frame), UNCHANGED ignoreFirst
  PROVE  TypeOK'
<1>1. /\ frame.inc \in Increments /\ frame.inc \in Int
      /\ lastInc \in Int /\ lastInc + 1 \in Int
  BY AdapterAssumption DEF Frames, TypeOK, Increments
<1>2. Missed(frame) \in Nat
  BY <1>1 DEF Missed, Diff, TypeOK
<1>3. (lastInc + 1) % IncModulus \in Int
  BY <1>1, AdapterAssumption
<1>4. /\ ToTimestamp((lastInc + 1) % IncModulus) \in Int
      /\ ToTimestamp(frame.inc) \in Int
  BY <1>1, <1>3, NextTimestamp
<1>5. /\ motion' \in Motions /\ data' \in Motions
      /\ lastTimestamp' \in Int /\ emitted' \in Int
  BY <1>1, <1>4 DEF TakeFrame, SetMotionData, Return, Motions, TypeOK
<1>6. /\ signal' \in BOOLEAN /\ noGyroCooldown' \in 0..cNoGyroCooldownFrames
      /\ sinceSignal' \in 0..cNoGyroCooldownFrames
  BY TypeAfterCheckGyro
<1>7. QED
  BY <1>1, <1>2, <1>5, <1>6 DEF TakeFrame, SetMotionData, Return, TypeOK

(* A new frame: either it follows the last one, or a gap opens.            *)
LEMMA GapAfterTake ==
  ASSUME TypeOK, SessionInv, NEW frame \in Frames, toReplicate = 0,
         TakeFrame(frame)
  PROVE  /\ GapInv' /\ SessionInv'
         /\ lastInc # 0 => \/ emitted' = emitted + ScanTime
                           \/ lastInc' - lastInc > cMaxDiffReplicate
                           \/ lastInc' - lastInc <= -RepeatWindow
<1>1. /\ frame.inc \in Int /\ lastInc \in Nat
      /\ frame.inc < IncModulus /\ RepeatWindow \in Int /\ cMaxDiffReplicate \in Int
      /\ IncModulus \in Int
  BY AdapterAssumption DEF Frames, TypeOK, Increments
<1>2. CASE toReplicate' > 0
  <2>1. /\ lastInc # 0 /\ toReplicate' = frame.inc - lastInc - 1
        /\ lastInc + 1 < IncModulus
    BY <1>1, <1>2 DEF TakeFrame, SetMotionData, Missed, Diff
  <2>2. (lastInc + 1) % IncModulus = lastInc + 1
    BY <1>1, <2>1, NoWrap
  <2>3. /\ lastTimestamp' = ToTimestamp(lastInc + 1)
        /\ motion' = [stamp |-> lastTimestamp', from |-> frame.inc]
        /\ data' = IF isPersistent THEN data ELSE motion'
        /\ lastInc' = frame.inc /\ emitted' = motion'.stamp
        /\ isPersistent' = isPersistent
    BY <1>2, <2>2 DEF TakeFrame, SetMotionData, Return
  <2>4. Source'.from = frame.inc
    BY <2>3 DEF Source
  <2>5. frame.inc - toReplicate' = lastInc + 1
    BY <1>1, <2>1
  <2>6. GapInv' /\ SessionInv'
    BY <1>2, <2>3, <2>4, <2>5 DEF GapInv, SessionInv, Source
  <2>7. emitted' = emitted + ScanTime
    BY <1>1, <2>1, <2>3, NextTimestamp DEF SessionInv
  <2>8. QED BY <2>6, <2>7
<1>3. CASE ~(toReplicate' > 0)
  <2>1. Missed(frame) \in Nat /\ toReplicate' = 0
    BY <1>1, <1>3 DEF TakeFrame, SetMotionData, Missed, Diff
  <2>2. lastInc' = frame.inc /\ emitted' = ToTimestamp(frame.inc)
    BY <1>3 DEF TakeFrame, SetMotionData, Return
  <2>3. GapInv' /\ SessionInv'
    BY <2>1, <2>2 DEF GapInv, SessionInv
  <2>4. lastInc # 0 => \/ frame.inc = lastInc + 1
                       \/ frame.inc - lastInc > cMaxDiffReplicate
                       \/ frame.inc - lastInc <= -RepeatWindow
    BY <1>1, <2>1 DEF TakeFrame, SetMotionData, Repeated, Missed, Diff
  <2>5. QED
    BY <1>1, <2>2, <2>3, <2>4, NextTimestamp DEF SessionInv
<1>4. QED BY <1>2, <1>3

(* A replica is one scan time later than the motion before it.             *)
LEMMA GapAfterReplicate ==
  ASSUME IInv, Replicate
  PROVE  /\ TypeOK' /\ GapInv' /\ SessionInv'
         /\ lastInc # 0 => emitted' = emitted + ScanTime
<1>1. /\ toReplicate \in Int /\ toReplicate > 0 /\ Source.from \in Int
      /\ lastInc \in Int /\ lastTimestamp \in Int /\ ScanTime \in Int
      /\ motion \in Motions /\ data \in Motions
  BY AdapterAssumption DEF IInv, TypeOK, Replicate, Source, Motions, Increments
<1>2. /\ toReplicate' = toReplicate - 1
      /\ lastTimestamp' = lastTimestamp + ScanTime
      /\ lastInc' = lastInc /\ pc' = "idle"
  BY DEF Replicate, Return
<1>3. /\ motion' \in Motions /\ data' \in Motions
      /\ motion'.stamp = lastTimestamp' /\ motion'.from = Source.from
      /\ Source'.from = Source.from /\ emitted' = lastTimestamp'
  BY <1>1, <1>2 DEF Replicate, Return, Motions, Source
<1>4. lastTimestamp' = ToTimestamp(Source.from - toReplicate')
  <2>1. lastTimestamp = ToTimestamp(Source.from - toReplicate)
    BY <1>1 DEF IInv, GapInv
  <2>2. ToTimestamp((Source.from - toReplicate) + 1)
          = ToTimestamp(Source.from - toReplicate) + ScanTime
    BY <1>1, NextTimestamp
  <2>3. (Source.from - toReplicate) + 1 = Source.from - toReplicate'
    BY <1>1, <1>2
  <2>4. QED BY <1>2, <2>1, <2>2, <2>3
<1>5. TypeOK'
  BY <1>1, <1>2, <1>3 DEF Replicate, Return, IInv, TypeOK
<1>6. GapInv'
  BY <1>2, <1>3, <1>4 DEF GapInv
<1>7. SessionInv'
  <2>1. lastInc # 0 => Source.from = lastInc
    BY <1>1 DEF IInv, SessionInv
  <2>2. toReplicate' = 0 => Source.from - toReplicate' = Source.from
    BY <1>1
  <2>3. QED BY <1>1, <1>2, <1>3, <1>4, <2>1, <2>2 DEF SessionInv
<1>8. lastInc # 0 => emitted' = emitted + ScanTime
  BY <1>1, <1>2, <1>3 DEF IInv, SessionInv
<1>9. QED BY <1>5, <1>6, <1>7, <1>8

(* A repetition changes nothing but the counters of this call.             *)
LEMMA InvAfterSkip ==
  ASSUME IInv, NEW frame \in Frames, pc = "loop", CheckGyro(frame),
         SkipRepeated(frame), UNCHANGED ignoreFirst, toReplicate = 0
  PROVE  IInv'
<1>1. repeatedLoop' \in Nat /\ pc' \in {"loop", "idle"}
  BY DEF SkipRepeated, IInv, TypeOK
<1>2. /\ signal' \in BOOLEAN /\ noGyroCooldown' \in 0..cNoGyroCooldownFrames
      /\ sinceSignal' \in 0..cNoGyroCooldownFrames
  BY TypeAfterCheckGyro DEF IInv
<1>3. TypeOK'
  BY <1>1, <1>2 DEF SkipRepeated, IInv, TypeOK
<1>4. GapInv' /\ SessionInv'
  BY DEF SkipRepeated, IInv, GapInv, SessionInv, Source
<1>5. QED BY <1>3, <1>4 DEF IInv

-----------------------------------------------------------------------------
(* The inductive invariant holds in every reachable state.                 *)
THEOREM GapInvariant == Spec => []IInv
<1>1. Init => IInv
  <2> SUFFICES ASSUME Init PROVE IInv
    OBVIOUS
  <2>1. motion \in Motions /\ data \in Motions /\ emitted \in Int /\ lastTimestamp \in Int
    BY DEF Init, Motions, Blank, Unset
  <2>2. /\ lastInc \in Increments /\ toReplicate \in Nat /\ repeatedLoop \in Nat
        /\ noGyroCooldown \in 0..cNoGyroCooldownFrames
        /\ sinceSignal \in 0..cNoGyroCooldownFrames
    BY AdapterAssumption DEF Init, Increments
  <2>3. TypeOK
    BY <2>1, <2>2 DEF Init, TypeOK
  <2>4. QED
    BY <2>3 DEF Init, IInv, GapInv, SessionInv
<1>2. IInv /\ [Next]_vars => IInv'
  <2> SUFFICES ASSUME IInv, [Next]_vars PROVE IInv'
    OBVIOUS
  <2>1. CASE StartFrameGrab
    BY <2>1, AdapterAssumption
       DEF StartFrameGrab, IInv, TypeOK, GapInv, SessionInv, Source, Increments
  <2>2. CASE StopFrameGrab
    BY <2>2 DEF StopFrameGrab, IInv, TypeOK, GapInv, SessionInv, Source
  <2>3. CASE SetMotionDataNewFrame
    <3>1. motion' \in Motions /\ isPersistent => motion' = motion
      BY <2>3 DEF SetMotionDataNewFrame, IInv, TypeOK, Motions, Blank, Unset
    <3>2. motion' \in Motions
      BY <2>3 DEF SetMotionDataNewFrame, IInv, TypeOK, Motions, Blank, Unset
    <3>3. Source' = Source
      BY <2>3 DEF SetMotionDataNewFrame, Source
    <3>4. TypeOK'
      BY <2>3, <3>2, AdapterAssumption DEF SetMotionDataNewFrame, CoolDown, IInv, TypeOK
    <3>5. GapInv' /\ SessionInv'
      BY <2>3, <3>3 DEF SetMotionDataNewFrame, IInv, GapInv, SessionInv
    <3>6. QED BY <3>4, <3>5 DEF IInv
  <2>4. CASE IgnoreFirst
    BY <2>4 DEF IgnoreFirst, IInv, TypeOK, GapInv, SessionInv, Source
  <2>5. CASE Replicate
    BY <2>5, GapAfterReplicate DEF IInv
  <2>6. ASSUME NEW frame \in Frames, ConsumeFrame(frame) PROVE IInv'
    <3>1. CASE SkipRepeated(frame)
      BY <2>6, <3>1, InvAfterSkip DEF ConsumeFrame
    <3>2. CASE TakeFrame(frame)
      BY <2>6, <3>2, TypeAfterTake, GapAfterTake DEF ConsumeFrame, IInv
    <3>3. QED BY <2>6, <3>1, <3>2 DEF ConsumeFrame
  <2>7. CASE TrySignal
    BY <2>7 DEF TrySignal, IInv, TypeOK, GapInv, SessionInv, Source
  <2>8. CASE UNCHANGED vars
    BY <2>8 DEF vars, IInv, TypeOK, GapInv, SessionInv, Source
  <2>9. QED
    BY <2>1, <2>2, <2>3, <2>4, <2>5, <2>6, <2>7, <2>8 DEF Next, Loop
<1>3. QED
  BY <1>1, <1>2, PTL DEF Spec

(* The types of the adapter's state. *)
THEOREM TypeCorrect == Spec => []TypeOK
<1>1. IInv => TypeOK
  BY DEF IInv
<1>2. QED
  BY GapInvariant, <1>1, PTL

(* Every gap is filled with the motion of the frame that ended it, stamped *)
(* as the missing frames would have been, for both kinds of callers.       *)
THEOREM GapsAreFilled == Spec => []GapFilled
<1>1. IInv => GapFilled
  BY DEF IInv, GapInv, GapFilled
<1>2. QED
  BY GapInvariant, <1>1, PTL

(* Within a session the timestamps go up one scan time per call, with the  *)
(* exceptions that StampsInStep names.                                     *)
THEOREM StampsGoInStep == Spec => StampsInStep
<1>1. IInv /\ [Next]_vars =>
        [(pc = "loop" /\ pc' = "idle" /\ lastInc # 0) =>
           \/ emitted' = emitted + ScanTime
           \/ lastInc' - lastInc > cMaxDiffReplicate
           \/ lastInc' - lastInc <= -RepeatWindow
           \/ repeatedLoop = 0 /\ motion' = motion]_vars
  <2> SUFFICES ASSUME IInv, [Next]_vars, pc = "loop", pc' = "idle", lastInc # 0
               PROVE  \/ emitted' = emitted + ScanTime
                      \/ lastInc' - lastInc > cMaxDiffReplicate
                      \/ lastInc' - lastInc <= -RepeatWindow
                      \/ repeatedLoop = 0 /\ motion' = motion
    OBVIOUS
  <2>1. Loop
    BY DEF Next, StartFrameGrab, StopFrameGrab, SetMotionDataNewFrame,
           IgnoreFirst, TrySignal, vars
  <2>2. CASE Replicate
    BY <2>2, GapAfterReplicate
  <2>3. ASSUME NEW frame \in Frames, ConsumeFrame(frame)
        PROVE  \/ emitted' = emitted + ScanTime
               \/ lastInc' - lastInc > cMaxDiffReplicate
               \/ lastInc' - lastInc <= -RepeatWindow
               \/ repeatedLoop = 0 /\ motion' = motion
    <3>1. CASE SkipRepeated(frame)
      BY <3>1 DEF SkipRepeated, IInv, TypeOK
    <3>2. CASE TakeFrame(frame)
      BY <2>3, <3>2, GapAfterTake DEF ConsumeFrame, IInv
    <3>3. QED BY <2>3, <3>1, <3>2 DEF ConsumeFrame
  <2>4. QED BY <2>1, <2>2, <2>3 DEF Loop
<1>2. QED
  BY <1>1, GapInvariant, PTL DEF Spec, StampsInStep

-----------------------------------------------------------------------------
(* The calls since the last NoGyro signal and the calls before the next    *)
(* one add up to the cooldown.  So a call that may signal again, with no   *)
(* cooldown left, is a whole cooldown after the last signal.               *)
CoolInv == sinceSignal + noGyroCooldown = cNoGyroCooldownFrames

(* A step that signals. *)
Signalled == (~signal /\ signal') \/ sinceSignal' < sinceSignal

LEMMA SignalStartsCooldown ==
  ASSUME TypeOK, CoolInv, NEW frame \in Frames, CheckGyro(frame)
  PROVE  CoolInv' /\ (Signalled => sinceSignal = cNoGyroCooldownFrames)
<1>0. /\ sinceSignal \in Nat /\ noGyroCooldown \in Nat /\ cNoGyroCooldownFrames \in Nat
      /\ sinceSignal + noGyroCooldown = cNoGyroCooldownFrames
  BY AdapterAssumption DEF TypeOK, CoolInv
<1>1. CASE noGyroCooldown <= 0 /\ frame.zero
  BY <1>0, <1>1 DEF CheckGyro, CoolInv, Signalled
<1>2. CASE ~(noGyroCooldown <= 0 /\ frame.zero)
  BY <1>0, <1>2 DEF CheckGyro, CoolInv, Signalled
<1> QED BY <1>1, <1>2

LEMMA CoolStep ==
  ASSUME TypeOK, CoolInv, [Next]_vars
  PROVE  CoolInv' /\ (Signalled => sinceSignal = cNoGyroCooldownFrames)
<1>0. /\ sinceSignal \in Nat /\ noGyroCooldown \in Nat /\ cNoGyroCooldownFrames \in Nat
      /\ sinceSignal + noGyroCooldown = cNoGyroCooldownFrames
  BY AdapterAssumption DEF TypeOK, CoolInv
<1>1. CASE SetMotionDataNewFrame
  BY <1>0, <1>1 DEF SetMotionDataNewFrame, CoolDown, CoolInv, Signalled
<1>2. ASSUME NEW frame \in Frames, ConsumeFrame(frame)
      PROVE  CoolInv' /\ (Signalled => sinceSignal = cNoGyroCooldownFrames)
  BY <1>2, SignalStartsCooldown DEF ConsumeFrame
<1>3. CASE StartFrameGrab \/ StopFrameGrab \/ IgnoreFirst \/ Replicate \/ TrySignal
           \/ UNCHANGED vars
  <2>1. UNCHANGED <<sinceSignal, noGyroCooldown>> /\ (signal' => signal)
    BY <1>3 DEF StartFrameGrab, StopFrameGrab, IgnoreFirst, Replicate, TrySignal, vars
  <2> QED BY <1>0, <2>1 DEF CoolInv, Signalled
<1> QED BY <1>1, <1>2, <1>3 DEF Next, Loop

(* Two NoGyro signals are at least cNoGyroCooldownFrames calls apart,      *)
(* however many calls a reader needs to pick one up.                       *)
THEOREM SignalsAreApart == Spec => SignalsApart
<1>1. Init => CoolInv
  BY AdapterAssumption DEF Init, CoolInv
<1>2. TypeOK /\ CoolInv /\ [Next]_vars =>
        /\ CoolInv'
        /\ [(~signal /\ signal') \/ sinceSignal' < sinceSignal
              => sinceSignal = cNoGyroCooldownFrames]_vars
  BY CoolStep DEF Signalled
<1>3. QED
  BY <1>1, <1>2, TypeCorrect, PTL DEF Spec, SignalsApart

=============================================================================
