------------------------ MODULE NotificationDelivery ------------------------
(***************************************************************************)
(* What the outbox promises of each notice: once it is queued it may be    *)
(* handed to the provider, perhaps more than once, and leaves the queue    *)
(* only delivered, and then the provider has accepted it, or abandoned.  A *)
(* notice may be queued again.  That it leaves the queue is not promised:  *)
(* OutboxWorker says when it does.                                         *)
(***************************************************************************)
CONSTANT Item   \* deduplication keys

VARIABLES
    notice,     \* what the seller's dashboard may say of each notice
    accepted    \* the provider accepted the notice at least once

vars == <<notice, accepted>>

NoticeState == {"none", "queued", "delivered", "abandoned"}

Init ==
    /\ notice = [i \in Item |-> "none"]
    /\ accepted = [i \in Item |-> FALSE]

Queue(i) ==
    /\ notice' = [notice EXCEPT ![i] = "queued"]
    /\ accepted' = [accepted EXCEPT ![i] = FALSE]

Accept(i) ==
    /\ notice[i] = "queued"
    /\ accepted' = [accepted EXCEPT ![i] = TRUE]
    /\ UNCHANGED notice

Deliver(i) ==
    /\ notice[i] = "queued"
    /\ accepted[i]
    /\ notice' = [notice EXCEPT ![i] = "delivered"]
    /\ UNCHANGED accepted

Abandon(i) ==
    /\ notice[i] = "queued"
    /\ notice' = [notice EXCEPT ![i] = "abandoned"]
    /\ UNCHANGED accepted

Next == \E i \in Item : Queue(i) \/ Accept(i) \/ Deliver(i) \/ Abandon(i)

Spec == Init /\ [][Next]_vars
=============================================================================
