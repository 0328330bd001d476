--------------------------- MODULE DeliveryService ---------------------------
(***************************************************************************)
(* What the transactional outbox promises to whoever relies on delivery: a *)
(* committed event is tried only under a durable, counted claim; it is      *)
(* recorded as delivered only after the destination took it; it is given    *)
(* up only when its attempts are used up or the destination refused it for  *)
(* good; and neither verdict is ever taken back.  A destination may take    *)
(* the same event more than once: delivery is at least once.                *)
(***************************************************************************)
EXTENDS Naturals

CONSTANTS MaxEvents, MaxAttempts

Events == 1..MaxEvents

VARIABLES
    emitted,     \* how many events have been committed
    tries,       \* attempts counted against each event
    received,    \* events the destination has taken at least once
    rejected,    \* events the destination refused for good
    fate         \* "open", "delivered" or "dead"

svars == <<emitted, tries, received, rejected, fate>>

ServiceInit ==
    /\ emitted = 0
    /\ tries = [e \in Events |-> 0]
    /\ received = {}
    /\ rejected = {}
    /\ fate = [e \in Events |-> "open"]

Open == {e \in 1..emitted : fate[e] = "open"}

Emit ==
    /\ emitted' = emitted + 1
    /\ UNCHANGED <<tries, received, rejected, fate>>

\* Claims are taken for a group of open events at once.
Claim(S) ==
    /\ \A e \in S : tries[e] < MaxAttempts
    /\ tries' = [e \in Events |-> IF e \in S THEN tries[e] + 1 ELSE tries[e]]
    /\ UNCHANGED <<emitted, received, rejected, fate>>

Receive(e) ==
    /\ tries[e] > 0
    /\ received' = received \cup {e}
    /\ UNCHANGED <<emitted, tries, rejected, fate>>

Reject(e) ==
    /\ tries[e] > 0
    /\ rejected' = rejected \cup {e}
    /\ UNCHANGED <<emitted, tries, received, fate>>

Confirm(S) ==
    /\ S \subseteq received
    /\ fate' = [e \in Events |-> IF e \in S THEN "delivered" ELSE fate[e]]
    /\ UNCHANGED <<emitted, tries, received, rejected>>

GiveUp(e) ==
    /\ tries[e] = MaxAttempts \/ e \in rejected
    /\ fate' = [fate EXCEPT ![e] = "dead"]
    /\ UNCHANGED <<emitted, tries, received, rejected>>

ServiceNext ==
    \/ Emit
    \/ \E S \in SUBSET Open : Claim(S) \/ Confirm(S)
    \/ \E e \in Open : Receive(e) \/ Reject(e) \/ GiveUp(e)

Service == ServiceInit /\ [][ServiceNext]_svars
=============================================================================
