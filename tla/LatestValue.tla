----------------------------- MODULE LatestValue -----------------------------
(***************************************************************************)
(* What PipeOut promises its two sides: a mailbox of one place in which a  *)
(* newer object replaces one nobody has picked up.  Objects are numbered   *)
(* in the order in which they are sent.  A receiver waits when there is no *)
(* object it has not received, and gets the newest one sent; only Flush    *)
(* makes it go on without a new one, and then it gets some older one.      *)
(***************************************************************************)
EXTENDS Naturals

VARIABLES
  sent,       \* number of the newest object sent
  offered,    \* number of the object in the mailbox
  waiting,    \* TRUE while that object has not been received
  received    \* number of the object the receiver holds

latestVars == <<sent, offered, waiting, received>>

Init == sent = 0 /\ offered = 0 /\ waiting = FALSE /\ received = 0

Send ==
  /\ sent' = sent + 1 /\ offered' = sent' /\ waiting' = TRUE
  /\ UNCHANGED received

Receive ==
  /\ waiting /\ waiting' = FALSE
  /\ received' = offered
  /\ UNCHANGED <<sent, offered>>

Flush ==
  /\ ~waiting /\ waiting' = TRUE
  /\ offered' \in 0..sent
  /\ UNCHANGED <<sent, received>>

Next == Send \/ Receive \/ Flush

Spec == Init /\ [][Next]_latestVars

=============================================================================
