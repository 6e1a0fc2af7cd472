--------------------------- MODULE PipeOutThreads ---------------------------
(***************************************************************************)
(* One thread that fills and sends and one thread that receives and reads, *)
(* sharing a PipeOut the way its header prescribes: the first group of its *)
(* methods is called by the current operation only, the second by the next *)
(* operation only.  Filling and reading an instance take time and hold no  *)
(* lock: that is the point of the triple buffer.                           *)
(***************************************************************************)
EXTENDS PipeOut, Integers

CONSTANT MaxSent   \* bound on the number of objects the writer fills

ASSUME MaxSentAssumption == MaxSent \in Nat

VARIABLES
  content,   \* instance -> number of the object last written into it
  produced,  \* number of objects filled so far
  writer,    \* "idle", "filling" or "filled"
  filling,   \* the instance being written to while writer = "filling"
  reader,    \* "idle" or "reading"
  reading    \* the instance being read while reader = "reading"

threadVars == <<content, produced, writer, filling, reader, reading>>
vars == <<pipeVars, threadVars>>

TypeOK ==
  /\ PipeTypeOK
  /\ content \in [Instances -> Nat]
  /\ produced \in Nat
  /\ writer \in {"idle", "filling", "filled"}
  /\ reader \in {"idle", "reading"}
  /\ filling \in Instances /\ reading \in Instances

Init ==
  /\ PipeInit
  /\ content = [b \in Instances |-> 0]
  /\ produced = 0
  /\ writer = "idle" /\ filling = bufMod
  /\ reader = "idle" /\ reading = bufRcv

-----------------------------------------------------------------------------
(* The writer dereferences the pointer to fill once per object. *)
BeginFill ==
  /\ writer = "idle" /\ produced < MaxSent
  /\ writer' = "filling"
  /\ filling' = bufMod
  /\ UNCHANGED <<pipeVars, content, produced, reader, reading>>

EndFill ==
  /\ writer = "filling"
  /\ writer' = "filled"
  /\ produced' = produced + 1
  /\ content' = [content EXCEPT ![filling] = produced']
  /\ UNCHANGED <<pipeVars, filling, reader, reading>>

Send ==
  /\ writer = "filled"
  /\ writer' = "idle"
  /\ SendData
  /\ UNCHANGED <<content, produced, filling, reader, reading>>

(* The three ways to receive, and what follows when data was obtained. *)
Receive ==
  /\ reader = "idle"
  /\ \E obtained \in BOOLEAN :
       /\ TryData(obtained)
       /\ reader' = IF obtained THEN "reading" ELSE "idle"
       /\ reading' = bufRcv'
  /\ UNCHANGED <<content, produced, writer, filling>>

EndRead ==
  /\ reader = "reading"
  /\ reader' = "idle"
  /\ UNCHANGED <<pipeVars, content, produced, writer, filling, reading>>

(* Flush may be called by anybody at any time. *)
ForceWait == Flush /\ UNCHANGED threadVars

Next == BeginFill \/ EndFill \/ Send \/ Receive \/ EndRead \/ ForceWait

Spec == Init /\ [][Next]_vars

-----------------------------------------------------------------------------
(* The receiver never reads the instance the writer is filling, although   *)
(* neither holds a lock while it works (pipeout.h: triple buffering).      *)
NoTornRead ==
  (writer = "filling" /\ reader = "reading") => filling # reading

SentCount == IF writer = "filled" THEN produced - 1 ELSE produced

(* The triple buffer is the mailbox of LatestValue: no object is lost but  *)
(* to a newer one, none is altered on its way, and only Flush can make an  *)
(* older one be received again.                                            *)
Latest == INSTANCE LatestValue WITH
            sent     <- SentCount,
            offered  <- IF bufWasSent THEN content[bufSent] ELSE content[bufRcv],
            waiting  <- bufWasSent,
            received <- content[bufRcv]
IsLatestValue == Latest!Spec

=============================================================================
