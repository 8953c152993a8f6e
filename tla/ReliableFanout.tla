--------------------------- MODULE ReliableFanout ---------------------------
(***************************************************************************)
(* What the transactional outbox promises to the rest of the system: every *)
(* accepted event is delivered at least once and then confirmed, or given  *)
(* up; an event may be delivered more than once; confirmed and given up    *)
(* are final.                                                              *)
(***************************************************************************)

CONSTANT Events

VARIABLES
  status,    \* "none" until the event is accepted, then as its row says
  delivered  \* events that have been delivered at least once

vars == <<status, delivered>>

Init ==
  /\ status = [e \in Events |-> "none"]
  /\ delivered = [e \in Events |-> FALSE]

\* The event is accepted: from now on it may not be lost.
Accept(e) ==
  /\ status[e] = "none"
  /\ status' = [status EXCEPT ![e] = "pending"]
  /\ UNCHANGED delivered

\* The event reaches the subscribers.
Deliver(e) ==
  /\ status[e] = "pending"
  /\ delivered' = [delivered EXCEPT ![e] = TRUE]
  /\ UNCHANGED status

\* Only a delivered event is confirmed.
Confirm(e) ==
  /\ status[e] = "pending"
  /\ delivered[e]
  /\ status' = [status EXCEPT ![e] = "published"]
  /\ UNCHANGED delivered

GiveUp(e) ==
  /\ status[e] = "pending"
  /\ status' = [status EXCEPT ![e] = "failed"]
  /\ UNCHANGED delivered

Next == \E e \in Events : Accept(e) \/ Deliver(e) \/ Confirm(e) \/ GiveUp(e)

Spec == Init /\ [][Next]_vars

\* No accepted event waits for ever.
FairSpec == Spec /\ \A e \in Events : WF_vars(Confirm(e) \/ GiveUp(e))

=============================================================================
