------------------------------- MODULE Outbox -------------------------------
(***************************************************************************)
(* What the notification outbox promises of its durable records: a         *)
(* dispatch waits until it is settled, once and for ever; settling it by a *)
(* delivery records its notifications, in the same step; settling it by a  *)
(* cancellation, or after its entity has ended, records none.              *)
(***************************************************************************)
CONSTANT Dispatches

VARIABLES state,      \* state[d]: "absent", "waiting" or "settled"
          recorded    \* the dispatches whose notifications are recorded

vars == <<state, recorded>>

Init ==
  /\ state = [d \in Dispatches |-> "absent"]
  /\ recorded = {}

Add(d) ==
  /\ state[d] = "absent"
  /\ state' = [state EXCEPT ![d] = "waiting"]
  /\ UNCHANGED recorded

\* One delivery settles a whole batch; some of it may have nobody to notify.
Deliver(batch) ==
  /\ batch # {}
  /\ \A d \in batch : state[d] = "waiting"
  /\ state' = [d \in Dispatches |-> IF d \in batch THEN "settled" ELSE state[d]]
  /\ \E some \in SUBSET batch : recorded' = recorded \cup some

Cancel(d) ==
  /\ state[d] = "waiting"
  /\ state' = [state EXCEPT ![d] = "settled"]
  /\ UNCHANGED recorded

Next ==
  \/ \E d \in Dispatches : Add(d) \/ Cancel(d)
  \/ \E batch \in SUBSET Dispatches : Deliver(batch)

Spec == Init /\ [][Next]_vars
=============================================================================
