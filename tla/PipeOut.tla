------------------------------- MODULE PipeOut -------------------------------
(***************************************************************************)
(* The triple buffer that hands an object from one pipeline thread to the  *)
(* next: class PipeOut<T> of inc/pipeline/pipeout.h and pipeout.hpp.       *)
(*                                                                         *)
(* Three instances of T are owned through three pointers, and the          *)
(* operations only exchange pointers.  Every access to bufSent and to      *)
(* bufWasSent happens inside one critical section of bufSentMutex that     *)
(* never blocks, so each operation is one action.  The flag changes only   *)
(* under the mutex of the condition variable, so a wait with a predicate   *)
(* is an action that is enabled while the predicate is true.               *)
(***************************************************************************)

CONSTANTS inst1, inst2, inst3    \* the instances given to the constructor

ASSUME InstancesDistinct == inst1 # inst2 /\ inst1 # inst3 /\ inst2 # inst3

VARIABLES
  bufMod,       \* the instance the sending side fills
  bufSent,      \* the instance handed over but not yet picked up
  bufRcv,       \* the instance the receiving side reads
  bufWasSent    \* TRUE while bufSent has not been picked up

pipeVars == <<bufMod, bufSent, bufRcv, bufWasSent>>

Instances == {inst1, inst2, inst3}

(* Every instance is owned by exactly one of the three pointers. *)
PipeTypeOK ==
  /\ {bufMod, bufSent, bufRcv} = Instances
  /\ bufWasSent \in BOOLEAN

PipeInit ==
  /\ bufMod = inst1 /\ bufSent = inst2 /\ bufRcv = inst3
  /\ bufWasSent = FALSE

-----------------------------------------------------------------------------
(* The sending side *)

\* Slip: the pointer is copied where the code swaps.
SendDataCopy ==
  /\ bufSent' = bufMod
  /\ bufWasSent' = TRUE
  /\ UNCHANGED <<bufMod, bufRcv>>

SendData ==
  /\ bufMod' = bufSent
  /\ bufSent' = bufMod
  /\ bufWasSent' = TRUE
  /\ UNCHANGED bufRcv

WasReceived == ~bufWasSent

-----------------------------------------------------------------------------
(* The receiving side *)

\* Slip: the flag is not cleared.
TakeSentKeepFlag ==
  /\ bufSent' = bufRcv
  /\ bufRcv' = bufSent
  /\ UNCHANGED <<bufMod, bufWasSent>>

\* Slip: the receiver swaps with the buffer being filled.
TakeSentFromMod ==
  /\ bufMod' = bufRcv
  /\ bufRcv' = bufMod
  /\ bufWasSent' = FALSE
  /\ UNCHANGED bufSent

TakeSent ==
  /\ bufSent' = bufRcv
  /\ bufRcv' = bufSent
  /\ bufWasSent' = FALSE
  /\ UNCHANGED bufMod

WaitForData == bufWasSent /\ TakeSent

(* TryData and the wait with a timeout: both look at the flag once more    *)
(* before they report that nothing was obtained.                           *)
TryData(obtained) ==
  \/ obtained /\ WaitForData
  \/ ~obtained /\ WasReceived /\ UNCHANGED pipeVars

(* Flush makes the receiver pick bufSent up again, whatever it holds. *)
Flush == bufWasSent' = TRUE /\ UNCHANGED <<bufMod, bufSent, bufRcv>>

=============================================================================
