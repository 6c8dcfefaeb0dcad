---------------------------- MODULE OutboundQueue ----------------------------
(***************************************************************************)
(* What the outbound queue of one remote server promises: an item that was *)
(* accepted stays pending until the remote server has received it.  It may *)
(* be received more than once and may be pending again after it was sent;  *)
(* it is never dropped unsent.                                             *)
(***************************************************************************)
CONSTANT Items

VARIABLES
  pending,   \* accepted items the queue still holds
  received   \* items the remote server has received

vars == <<pending, received>>

Init == pending = {} /\ received = {}

Accept(i) ==
  /\ i \notin pending \cup received
  /\ pending' = pending \cup {i}
  /\ UNCHANGED received

Receive(S) ==
  /\ received' = received \cup S
  /\ UNCHANGED pending

(* Only what was received leaves the queue, or comes back to it. *)
Settle(gone, back) ==
  /\ pending' = (pending \ gone) \cup back
  /\ UNCHANGED received

Next ==
  \/ \E i \in Items : Accept(i)
  \/ \E S \in SUBSET pending : Receive(S)
  \/ \E gone, back \in SUBSET received : Settle(gone, back)

Spec == Init /\ [][Next]_vars
=============================================================================
