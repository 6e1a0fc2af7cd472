---------------------------- MODULE PipeOutProofs ----------------------------
(***************************************************************************)
(* Theorems about PipeOut and about two threads that share one.  The       *)
(* argument is ownership: the pointers bufMod, bufSent and bufRcv always   *)
(* own three different instances, the writer fills the one of bufMod, the  *)
(* reader reads the one of bufRcv, and neither pointer moves while its     *)
(* side is at work.                                                        *)
(***************************************************************************)
EXTENDS PipeOutThreads, TLAPS

(* The three pointers own three different instances. *)
LEMMA PointersDistinct ==
  ASSUME PipeTypeOK
  PROVE  /\ bufMod # bufSent /\ bufMod # bufRcv /\ bufSent # bufRcv
         /\ bufMod \in Instances /\ bufSent \in Instances /\ bufRcv \in Instances
BY InstancesDistinct DEF PipeTypeOK, Instances

(* SendData keeps the ownership of the instances intact. *)
LEMMA SendDataKeepsType ==
  ASSUME PipeTypeOK, SendData PROVE PipeTypeOK'
BY DEF PipeTypeOK, SendData, Instances

(* So does receiving, whichever of the receiving methods is called. *)
LEMMA TryDataKeepsType ==
  ASSUME PipeTypeOK, NEW obtained \in BOOLEAN, TryData(obtained) PROVE PipeTypeOK'
BY DEF PipeTypeOK, TryData, WaitForData, TakeSent, WasReceived, pipeVars, Instances

(* And Flush, which moves no pointer. *)
LEMMA FlushKeepsType ==
  ASSUME PipeTypeOK, Flush PROVE PipeTypeOK'
BY DEF PipeTypeOK, Flush, Instances

-----------------------------------------------------------------------------
(* Each side works on the instance its own pointer owns. *)
OwnInstance ==
  /\ writer = "filling" => filling = bufMod
  /\ reader = "reading" => reading = bufRcv

IInv == TypeOK /\ OwnInstance

(* The strengthening of NoTornRead holds in every reachable state, for any *)
(* number of objects and with Flush called at any time.                    *)
THEOREM Ownership == Spec => []IInv
<1>1. Init => IInv
  <2>1. PipeInit => PipeTypeOK
    BY DEF PipeInit, PipeTypeOK, Instances
  <2>2. QED
    BY <2>1, PointersDistinct DEF Init, IInv, TypeOK, OwnInstance
<1>2. IInv /\ [Next]_vars => IInv'
  <2> SUFFICES ASSUME IInv, [Next]_vars PROVE IInv'
    OBVIOUS
  <2> USE DEF IInv, TypeOK, OwnInstance
  <2>1. CASE BeginFill
    <3>1. PipeTypeOK' BY <2>1 DEF BeginFill, pipeVars, PipeTypeOK, Instances
    <3>2. QED BY <2>1, <3>1, PointersDistinct DEF BeginFill, pipeVars, Instances
  <2>2. CASE EndFill
    <3>1. PipeTypeOK' BY <2>2 DEF EndFill, pipeVars, PipeTypeOK, Instances
    <3>2. QED BY <2>2, <3>1 DEF EndFill, pipeVars, Instances
  <2>3. CASE Send
    <3>1. PipeTypeOK' BY <2>3, SendDataKeepsType DEF Send
    <3>2. QED BY <2>3, <3>1 DEF Send, SendData, Instances
  <2>4. CASE Receive
    <3>1. PICK obtained \in BOOLEAN :
            TryData(obtained) /\ reader' = IF obtained THEN "reading" ELSE "idle"
      BY <2>4 DEF Receive
    <3>2. PipeTypeOK' BY <3>1, TryDataKeepsType
    <3>3. bufMod' = bufMod
      BY <3>1 DEF TryData, WaitForData, TakeSent, pipeVars
    <3>4. bufRcv' \in Instances BY <3>2 DEF PipeTypeOK, Instances
    <3>5. QED BY <2>4, <3>1, <3>2, <3>3, <3>4 DEF Receive, Instances
  <2>5. CASE EndRead
    <3>1. PipeTypeOK' BY <2>5 DEF EndRead, pipeVars, PipeTypeOK, Instances
    <3>2. QED BY <2>5, <3>1 DEF EndRead, pipeVars, Instances
  <2>6. CASE ForceWait
    <3>1. PipeTypeOK' BY <2>6, FlushKeepsType DEF ForceWait
    <3>2. QED BY <2>6, <3>1 DEF ForceWait, Flush, threadVars, Instances
  <2>7. CASE UNCHANGED vars
    <3>1. PipeTypeOK' BY <2>7 DEF vars, pipeVars, PipeTypeOK, Instances
    <3>2. QED BY <2>7, <3>1 DEF vars, pipeVars, threadVars, Instances
  <2>8. QED
    BY <2>1, <2>2, <2>3, <2>4, <2>5, <2>6, <2>7 DEF Next
<1>3. QED
  BY <1>1, <1>2, PTL DEF Spec

(* The type invariant of the writer-reader system. *)
THEOREM TypeCorrect == Spec => []TypeOK
<1>1. IInv => TypeOK
  BY DEF IInv
<1>2. QED
  BY Ownership, <1>1, PTL

(* No instance is read while it is being filled, for any number of objects *)
(* and whether or not the receiver is forced on by Flush.                  *)
THEOREM NeverTorn == Spec => []NoTornRead
<1>1. IInv => NoTornRead
  BY PointersDistinct DEF IInv, TypeOK, OwnInstance, NoTornRead
<1>2. QED
  BY Ownership, <1>1, PTL

-----------------------------------------------------------------------------
(* What the instances hold: one that is filled holds the newest object,    *)
(* the other two hold objects that were sent.                              *)
OnlySent ==
  /\ writer = "filled" => content[bufMod] = produced /\ produced > 0
  /\ content[bufSent] <= SentCount /\ content[bufRcv] <= SentCount

LInv == IInv /\ OnlySent

(* An object that is filled but not sent yet is nowhere but in the         *)
(* writer's own instance, also when Flush is called.                       *)
THEOREM UnsentIsKept == Spec => []LInv
<1>1. Init => OnlySent
  <2> SUFFICES ASSUME Init PROVE OnlySent
    OBVIOUS
  <2>1. PipeTypeOK BY DEF Init, PipeInit, PipeTypeOK, Instances
  <2>2. QED
    BY <2>1, PointersDistinct DEF Init, PipeInit, OnlySent, SentCount
<1>2. IInv /\ OnlySent /\ [Next]_vars => OnlySent'
  <2> SUFFICES ASSUME IInv, OnlySent, [Next]_vars PROVE OnlySent'
    OBVIOUS
  <2>0. /\ bufMod # bufSent /\ bufMod # bufRcv /\ bufSent # bufRcv
        /\ bufMod \in Instances /\ bufSent \in Instances /\ bufRcv \in Instances
        /\ produced \in Nat /\ content \in [Instances -> Nat]
        /\ writer = "filling" => filling = bufMod
        /\ bufWasSent \in BOOLEAN
    BY PointersDistinct DEF IInv, TypeOK, OwnInstance, PipeTypeOK
  <2> USE DEF OnlySent, SentCount
  <2>1. CASE BeginFill
    BY <2>0, <2>1 DEF BeginFill, pipeVars
  <2>2. CASE EndFill
    BY <2>0, <2>2 DEF EndFill, pipeVars
  <2>3. CASE Send
    BY <2>0, <2>3 DEF Send, SendData
  <2>4. CASE Receive
    BY <2>0, <2>4 DEF Receive, TryData, WaitForData, TakeSent, WasReceived, pipeVars
  <2>5. CASE EndRead
    BY <2>0, <2>5 DEF EndRead, pipeVars
  <2>6. CASE ForceWait
    BY <2>0, <2>6 DEF ForceWait, Flush, threadVars
  <2>7. CASE UNCHANGED vars
    BY <2>7 DEF vars, pipeVars, threadVars
  <2>8. QED
    BY <2>1, <2>2, <2>3, <2>4, <2>5, <2>6, <2>7 DEF Next
<1>3. QED
  BY <1>1, <1>2, Ownership, PTL DEF Spec, LInv

(* The triple buffer with its two threads implements the mailbox of one    *)
(* place: every initial state maps to an initial state of LatestValue and  *)
(* every step to a step of it or to a stutter.                             *)
THEOREM ImplementsLatestValue == Spec => IsLatestValue
<1> SUFFICES Spec => Latest!Spec
  BY DEF IsLatestValue
<1>1. Init => Latest!Init
  <2> SUFFICES ASSUME Init PROVE Latest!Init
    OBVIOUS
  <2>1. PipeTypeOK BY DEF Init, PipeInit, PipeTypeOK, Instances
  <2>2. QED
    BY <2>1, PointersDistinct DEF Init, PipeInit, SentCount, Latest!Init
<1>2. LInv /\ [Next]_vars => [Latest!Next]_(Latest!latestVars)
  <2> SUFFICES ASSUME LInv, [Next]_vars
               PROVE  Latest!Next \/ UNCHANGED Latest!latestVars
    OBVIOUS
  <2>0. /\ bufMod # bufSent /\ bufMod # bufRcv /\ bufSent # bufRcv
        /\ bufMod \in Instances /\ bufSent \in Instances /\ bufRcv \in Instances
        /\ produced \in Nat /\ content \in [Instances -> Nat]
        /\ writer = "filling" => filling = bufMod
        /\ bufWasSent \in BOOLEAN
    BY PointersDistinct DEF LInv, IInv, TypeOK, OwnInstance, PipeTypeOK
  <2> USE DEF Latest!latestVars
  <2>1. CASE BeginFill
    BY <2>1 DEF BeginFill, pipeVars, SentCount
  <2>2. CASE EndFill
    BY <2>0, <2>2 DEF EndFill, pipeVars, SentCount
  <2>3. CASE Send
    <3>1. /\ bufSent' = bufMod /\ bufRcv' = bufRcv /\ bufWasSent' = TRUE
          /\ content' = content /\ produced' = produced
          /\ writer = "filled" /\ writer' = "idle"
      BY <2>3 DEF Send, SendData
    <3>2. content[bufMod] = produced
      BY <3>1 DEF LInv, OnlySent
    <3>3. SentCount' = SentCount + 1 /\ content'[bufSent'] = SentCount'
      BY <2>0, <3>1, <3>2 DEF SentCount
    <3>4. QED
      BY <3>1, <3>3 DEF Latest!Next, Latest!Send
  <2>4. CASE Receive
    <3>1. SentCount' = SentCount
      BY <2>4 DEF Receive, SentCount
    <3>2. QED
      BY <2>0, <2>4, <3>1 DEF Receive, TryData, WaitForData, TakeSent,
                              WasReceived, pipeVars, Latest!Next, Latest!Receive
  <2>5. CASE EndRead
    BY <2>5 DEF EndRead, pipeVars, SentCount
  <2>6. CASE ForceWait
    <3>1. /\ bufWasSent' = TRUE /\ bufSent' = bufSent /\ bufRcv' = bufRcv
          /\ content' = content /\ SentCount' = SentCount
      BY <2>6 DEF ForceWait, Flush, threadVars, SentCount
    <3>2. SentCount \in Int /\ content[bufSent] \in 0..SentCount
      BY <2>0 DEF LInv, OnlySent, SentCount
    <3>3. QED
      BY <2>0, <3>1, <3>2 DEF Latest!Next, Latest!Flush
  <2>7. CASE UNCHANGED vars
    BY <2>7 DEF vars, pipeVars, threadVars, SentCount
  <2>8. QED
    BY <2>1, <2>2, <2>3, <2>4, <2>5, <2>6, <2>7 DEF Next
<1>3. QED
  BY <1>1, <1>2, UnsentIsKept, PTL DEF Spec, Latest!Spec

=============================================================================
