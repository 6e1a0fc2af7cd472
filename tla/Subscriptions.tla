---------------------------- MODULE Subscriptions ----------------------------
(***************************************************************************)
(* What the DSU server promises to those who ask it for data: whoever asks *)
(* is subscribed until it has been silent for more than cSendTimeout       *)
(* ticks, and every packet goes to everyone who is subscribed when it is   *)
(* begun, once.  Server implements it (IsSubscription): nobody joins or    *)
(* leaves while a packet is on its way, nobody is dropped early, and one   *)
(* who joined again or with another id is not served twice.                *)
(***************************************************************************)
EXTENDS Naturals

CONSTANTS Addresses, cSendTimeout

VARIABLES
  silence,   \* subscribed address -> ticks since it last asked, up to the
             \* first number that is greater than cSendTimeout
  pending    \* those who have yet to be sent the packet on its way

Init == silence = [a \in {} |-> 0] /\ pending = {}

Request(a) ==
  /\ pending = {}
  /\ silence' = [b \in DOMAIN silence \cup {a} |-> IF b = a THEN 0 ELSE silence[b]]
  /\ UNCHANGED pending

Ticked ==
  [a \in DOMAIN silence |->
     IF silence[a] > cSendTimeout THEN silence[a] ELSE silence[a] + 1]

Tick ==
  /\ pending = {}
  /\ silence' = Ticked
  /\ UNCHANGED pending

(* Everyone who has been silent for too long is dropped, after a tick or   *)
(* some time later.                                                        *)
Expire(count) ==
  /\ pending = {}
  /\ silence' = [a \in {b \in DOMAIN count : count[b] <= cSendTimeout} |-> count[a]]
  /\ UNCHANGED pending

Begin ==
  /\ pending = {}
  /\ pending' = DOMAIN silence
  /\ UNCHANGED silence

Deliver ==
  /\ \E a \in pending : pending' = pending \ {a}
  /\ UNCHANGED silence

Next ==
  \/ \E a \in Addresses : Request(a)
  \/ Tick \/ Expire(silence) \/ Expire(Ticked)
  \/ Begin \/ Deliver

vars == <<silence, pending>>

Safety == Init /\ [][Next]_vars

(* A packet that was begun reaches everyone. *)
Spec == Safety /\ WF_vars(Deliver)

=============================================================================
