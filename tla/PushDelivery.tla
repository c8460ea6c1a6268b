---------------------------- MODULE PushDelivery ----------------------------
(***************************************************************************)
(* The notices of an outbox worker that go to browsers by Web Push         *)
(* (send_push_outbox_item), and the push-subscriptions endpoint and the    *)
(* admin, which change the rows of the devices meanwhile.                  *)
(*                                                                         *)
(* A worker lists a seller's devices once and sends to the copies, each    *)
(* send as slow as the push service makes it; every save is a transaction  *)
(* of its own.  Of the outbox only what a push row adds is here: claims,   *)
(* batches, backoff and locks are OutboxWorker's, so a worker takes one    *)
(* row at a time, a backoff may end at any moment, and the lock of a dead  *)
(* worker is stale or not yet when a worker starts.                        *)
(***************************************************************************)
EXTENDS Integers, FiniteSets

CONSTANTS
    Device,        \* rows of PushSubscription, one per endpoint registered
    Seller,
    Item,          \* deduplication keys of webpush.send rows
    Worker,        \* run_outbox_worker processes
    NoSeller,      \* a device nobody has registered yet
    Deleted,       \* a device whose row was deleted
    NoDevice,      \* a worker with no device in hand
    NoItem,        \* a worker with no row in hand
    MaxFailures,   \* failures in a row that retire a device (5)
    MaxAttempts,   \* MAX_NOTIFICATION_ATTEMPTS
    MaxFaults      \* bound on crashes, lost answers and failed saves

ASSUME ConstantsAssumption ==
    /\ {NoSeller, Deleted} \intersect Seller = {}
    /\ NoSeller # Deleted
    /\ NoDevice \notin Device
    /\ NoItem \notin Item
    /\ MaxFailures \in Nat \ {0}
    /\ MaxAttempts \in Nat \ {0}
    /\ MaxFaults \in Nat

VARIABLES
    owner,      \* PushSubscription.seller, or why there is no row
    active,     \* PushSubscription.is_active
    failures,   \* PushSubscription.failure_count
    status,     \* NotificationOutbox.status
    attempts,   \* NotificationOutbox.attempts
    recipient,  \* the payload's seller_id
    progress,   \* the payload's _delivered_subscription_ids
    pc,         \* where each worker is
    item,       \* the row it has in hand
    todo,       \* devices of its list it has not begun
    seen,       \* failure_count of each device of the list, as it read it
    dev,        \* the device in hand
    answer,     \* what webpush told of it
    delivered,  \* delivered_ids, the progress in memory
    transient,  \* transient_failure
    faults,     \* faults so far
    received,   \* times each device was sent each notice (history)
    listed,     \* the last list of each row's devices (history)
    expired,    \* those of them the push service no longer knows (history)
    orphans,    \* rows in hand when their worker died, not recovered since (history)
    removed     \* a device removed by its seller since it registered (history)

devices == <<owner, active, failures>>
rows == <<status, attempts, recipient, progress>>
memory == <<item, todo, seen, dev, answer, delivered, transient>>
history == <<received, listed, expired, orphans>>
vars == <<devices, rows, pc, memory, faults, history, removed>>

RowStatus == {"ABSENT", "PENDING", "PROCESSING", "DONE", "DEAD"}
PC == {"down", "idle", "list", "next", "save", "progress", "settle"}
Answers == {"accepted", "expired", "error"}
Removal == {"no", "quiet", "raced"}

TypeOK ==
    /\ owner \in [Device -> Seller \union {NoSeller, Deleted}]
    /\ active \in [Device -> BOOLEAN]
    /\ failures \in [Device -> 0..MaxFailures]
    /\ status \in [Item -> RowStatus]
    /\ attempts \in [Item -> 0..MaxAttempts]
    /\ recipient \in [Item -> Seller \union {NoSeller}]
    /\ progress \in [Item -> SUBSET Device]
    /\ pc \in [Worker -> PC]
    /\ item \in [Worker -> Item \union {NoItem}]
    /\ todo \in [Worker -> SUBSET Device]
    /\ seen \in [Worker -> [Device -> 0..MaxFailures]]
    /\ dev \in [Worker -> Device \union {NoDevice}]
    /\ answer \in [Worker -> Answers]
    /\ delivered \in [Worker -> SUBSET Device]
    /\ transient \in [Worker -> BOOLEAN]
    /\ faults \in 0..MaxFaults
    /\ received \in [Item -> [Device -> Nat]]
    /\ listed \in [Item -> SUBSET Device]
    /\ expired \in [Item -> SUBSET Device]
    /\ orphans \subseteq Item
    /\ removed \in [Device -> Removal]

Init ==
    /\ owner = [d \in Device |-> NoSeller]
    /\ active = [d \in Device |-> FALSE]
    /\ failures = [d \in Device |-> 0]
    /\ status = [i \in Item |-> "ABSENT"]
    /\ attempts = [i \in Item |-> 0]
    /\ recipient = [i \in Item |-> NoSeller]
    /\ progress = [i \in Item |-> {}]
    /\ pc = [w \in Worker |-> "down"]
    /\ item = [w \in Worker |-> NoItem]
    /\ todo = [w \in Worker |-> {}]
    /\ seen = [w \in Worker |-> [d \in Device |-> 0]]
    /\ dev = [w \in Worker |-> NoDevice]
    /\ answer = [w \in Worker |-> "error"]
    /\ delivered = [w \in Worker |-> {}]
    /\ transient = [w \in Worker |-> FALSE]
    /\ faults = 0
    /\ received = [i \in Item |-> [d \in Device |-> 0]]
    /\ listed = [i \in Item |-> {}]
    /\ expired = [i \in Item |-> {}]
    /\ orphans = {}
    /\ removed = [d \in Device |-> "no"]

Goto(w, label) == pc' = [pc EXCEPT ![w] = label]

Fault == faults < MaxFaults /\ faults' = faults + 1

\* The copies of devices a worker may still save.
Copies(w) == todo[w] \union (IF pc[w] \in {"save", "progress"} THEN {dev[w]} ELSE {})

-----------------------------------------------------------------------------
(* push_subscriptions, and the admin                                        *)

\* POST: the endpoint's row is created or updated, and becomes the caller's.
Register(s, d) ==
    /\ owner[d] # Deleted
    /\ owner' = [owner EXCEPT ![d] = s]
    /\ active' = [active EXCEPT ![d] = TRUE]
    /\ failures' = [failures EXCEPT ![d] = 0]
    /\ removed' = [removed EXCEPT ![d] = "no"]
    /\ UNCHANGED <<rows, pc, memory, faults, history>>

\* DELETE: the row is switched off, if it is the caller's.  The history tells
\* whether some worker had a copy of it.
Remove(s, d) ==
    /\ owner[d] = s
    /\ active' = [active EXCEPT ![d] = FALSE]
    /\ removed' = [removed EXCEPT
          ![d] = IF \E w \in Worker : d \in Copies(w) THEN "raced" ELSE "quiet"]
    /\ UNCHANGED <<owner, failures, rows, pc, memory, faults, history>>

\* The row is deleted in the admin.  (An endpoint that comes back is a new row.)
Delete(d) ==
    /\ owner[d] \in Seller
    /\ owner' = [owner EXCEPT ![d] = Deleted]
    /\ active' = [active EXCEPT ![d] = FALSE]
    /\ UNCHANGED <<failures, rows, pc, memory, faults, history, removed>>

\* queue_payment_status_push: one row per key, whatever became of it.
Queue(i, s) ==
    /\ status[i] = "ABSENT"
    /\ status' = [status EXCEPT ![i] = "PENDING"]
    /\ recipient' = [recipient EXCEPT ![i] = s]
    /\ UNCHANGED <<devices, attempts, progress, pc, memory, faults, history, removed>>

-----------------------------------------------------------------------------
(* The worker                                                               *)

\* A row whose worker died: its lock may be stale.
Obsolete(i) == status[i] = "PROCESSING" /\ \A w \in Worker : item[w] # i

\* The process starts: the rows whose locks are stale become PENDING again.  It may
\* start so soon after its death that none is.
Boot(w) ==
    /\ pc[w] = "down"
    /\ \E released \in SUBSET {i \in Item : Obsolete(i)} :
          /\ status' = [i \in Item |-> IF i \in released THEN "PENDING" ELSE status[i]]
          /\ orphans' = orphans \ released
    /\ Goto(w, "idle")
    /\ UNCHANGED <<devices, attempts, recipient, progress, memory, faults, received, listed,
                   expired, removed>>

\* Mutant: only rows that were never tried are selected.
Claimable_FirstTry(i) == status[i] = "PENDING" /\ attempts[i] = 0

Claimable(i) == status[i] = "PENDING"

Claim(w) ==
    /\ pc[w] = "idle"
    /\ \E i \in Item :
          /\ Claimable(i)
          /\ status' = [status EXCEPT ![i] = "PROCESSING"]
          /\ item' = [item EXCEPT ![w] = i]
    /\ Goto(w, "list")
    /\ UNCHANGED <<devices, attempts, recipient, progress, todo, seen, dev, answer,
                   delivered, transient, faults, history, removed>>

\* Mutant: no exclude(id__in=delivered_ids).
Targets_Again(i) == {d \in Device : owner[d] = recipient[i] /\ active[d]}

\* Mutant: no is_active=True.
Targets_Inactive(i) == {d \in Device : owner[d] = recipient[i]} \ progress[i]

\* The seller's active devices the notice has not reached.
Targets(i) == {d \in Device : owner[d] = recipient[i] /\ active[d]} \ progress[i]

\* The query runs when the loop begins, and its rows are read at once.
ListDevices(w) ==
    /\ pc[w] = "list"
    /\ LET i == item[w] IN
          /\ todo' = [todo EXCEPT ![w] = Targets(i)]
          /\ delivered' = [delivered EXCEPT ![w] = progress[i]]
          /\ listed' = [listed EXCEPT ![i] = Targets(i)]
          /\ expired' = [expired EXCEPT ![i] = {}]
    /\ seen' = [seen EXCEPT ![w] = failures]
    /\ transient' = [transient EXCEPT ![w] = FALSE]
    /\ Goto(w, "next")
    /\ UNCHANGED <<devices, rows, item, dev, answer, faults, received, orphans, removed>>

\* webpush to the next copy.  An accepted notice may be answered by an error or
\* by nothing; an acceptance clears the copy's count of failures.
Send(w) ==
    /\ pc[w] = "next"
    /\ \E d \in todo[w], a \in Answers, reaches \in BOOLEAN :
          /\ a = "accepted" => reaches
          /\ a = "expired" => ~reaches
          /\ IF a = "error" /\ reaches THEN Fault ELSE UNCHANGED faults
          /\ dev' = [dev EXCEPT ![w] = d]
          /\ todo' = [todo EXCEPT ![w] = @ \ {d}]
          /\ answer' = [answer EXCEPT ![w] = a]
          /\ seen' = IF a = "accepted" THEN [seen EXCEPT ![w][d] = 0] ELSE seen
          /\ received' = IF reaches
                         THEN [received EXCEPT ![item[w]][d] = @ + 1]
                         ELSE received
          /\ expired' = IF a = "expired"
                        THEN [expired EXCEPT ![item[w]] = @ \union {d}]
                        ELSE expired
    /\ Goto(w, "save")
    /\ UNCHANGED <<devices, rows, item, delivered, transient, listed, orphans, removed>>

\* The row of the device in hand, which a save of some of its fields needs.
Present(w) == owner[dev[w]] # Deleted

SaveDelivered(w) ==
    /\ pc[w] = "save" /\ answer[w] = "accepted" /\ Present(w)
    /\ failures' = [failures EXCEPT ![dev[w]] = 0]
    /\ Goto(w, "progress")
    /\ UNCHANGED <<owner, active, rows, memory, faults, history, removed>>

\* 404 or 410: the device is retired.
SaveExpired(w) ==
    /\ pc[w] = "save" /\ answer[w] = "expired" /\ Present(w)
    /\ active' = [active EXCEPT ![dev[w]] = FALSE]
    /\ Goto(w, "next")
    /\ UNCHANGED <<owner, failures, rows, memory, faults, history, removed>>

\* Mutant: > for >=.
Failing_Late(n) == n > MaxFailures

\* So many failures retire a device.
Failing(n) == n >= MaxFailures

\* Mutant: the failure is logged and no more.
FailureIsTransient_Logged(w) == UNCHANGED transient

FailureIsTransient(w) == transient' = [transient EXCEPT ![w] = TRUE]

\* Any other failure: the copy's count and its is_active overwrite the row's.
SaveFailed(w) ==
    /\ pc[w] = "save" /\ answer[w] = "error" /\ Present(w)
    /\ LET n == seen[w][dev[w]] + 1 IN
          /\ failures' = [failures EXCEPT ![dev[w]] = n]
          /\ active' = [active EXCEPT ![dev[w]] = ~Failing(n)]
    /\ FailureIsTransient(w)
    /\ Goto(w, "next")
    /\ UNCHANGED <<owner, rows, item, todo, seen, dev, answer, delivered, faults, history,
                   removed>>

\* The save of the device raises: its row was deleted, or the database failed.
\* After an accepted notice the except clause counts a failure and saves again;
\* an exception in an except clause ends the loop.
SaveRaises(w) ==
    /\ pc[w] = "save"
    /\ IF Present(w) THEN Fault ELSE UNCHANGED faults
    /\ IF answer[w] = "accepted"
       THEN /\ answer' = [answer EXCEPT ![w] = "error"]
            /\ UNCHANGED <<pc, todo, transient>>
       ELSE /\ todo' = [todo EXCEPT ![w] = {}]
            /\ transient' = [transient EXCEPT ![w] = TRUE]
            /\ Goto(w, "settle")
            /\ UNCHANGED answer
    /\ UNCHANGED <<devices, rows, item, seen, dev, delivered, history, removed>>

\* The progress is saved in the row's payload.
SaveProgress(w) ==
    /\ pc[w] = "progress"
    /\ delivered' = [delivered EXCEPT ![w] = @ \union {dev[w]}]
    /\ progress' = [progress EXCEPT ![item[w]] = delivered[w] \union {dev[w]}]
    /\ Goto(w, "next")
    /\ UNCHANGED <<devices, status, attempts, recipient, item, todo, seen, dev, answer,
                   transient, faults, history, removed>>

\* Or it is not, and the device counts as one that failed.
ProgressRaises(w) ==
    /\ pc[w] = "progress"
    /\ Fault
    /\ delivered' = [delivered EXCEPT ![w] = @ \union {dev[w]}]
    /\ answer' = [answer EXCEPT ![w] = "error"]
    /\ Goto(w, "save")
    /\ UNCHANGED <<devices, rows, item, todo, seen, dev, transient, history, removed>>

EndDevices(w) ==
    /\ pc[w] = "next" /\ todo[w] = {}
    /\ Goto(w, "settle")
    /\ UNCHANGED <<devices, rows, memory, faults, history, removed>>

\* _process_item and _handle_failure: the row is DONE, is DEAD, or waits.
Settle(w) ==
    /\ pc[w] = "settle"
    /\ LET i == item[w]
           n == attempts[i] + 1
       IN  IF transient[w]
           THEN /\ status' = [status EXCEPT ![i] = IF n >= MaxAttempts THEN "DEAD" ELSE "PENDING"]
                /\ attempts' = [attempts EXCEPT ![i] = n]
           ELSE /\ status' = [status EXCEPT ![i] = "DONE"]
                /\ UNCHANGED attempts
    /\ item' = [item EXCEPT ![w] = NoItem]
    /\ Goto(w, "idle")
    /\ UNCHANGED <<devices, recipient, progress, todo, seen, dev, answer, delivered,
                   transient, faults, history, removed>>

\* The process dies, and what it had in memory is lost.
Crash(w) ==
    /\ pc[w] # "down"
    /\ Fault
    /\ orphans' = orphans \union ({item[w]} \ {NoItem})
    /\ item' = [item EXCEPT ![w] = NoItem]
    /\ todo' = [todo EXCEPT ![w] = {}]
    /\ Goto(w, "down")
    /\ UNCHANGED <<devices, rows, seen, dev, answer, delivered, transient, received, listed,
                   expired, removed>>

\* The steps of a worker that need nobody's answer.
OwnStep(w) ==
    \/ Boot(w) \/ Claim(w) \/ ListDevices(w) \/ SaveDelivered(w)
    \/ SaveExpired(w) \/ SaveFailed(w) \/ SaveRaises(w) \/ SaveProgress(w)
    \/ ProgressRaises(w) \/ EndDevices(w) \/ Settle(w)

Next ==
    \/ \E w \in Worker : OwnStep(w) \/ Send(w) \/ Crash(w)
    \/ \E s \in Seller, d \in Device : Register(s, d) \/ Remove(s, d)
    \/ \E d \in Device : Delete(d)
    \/ \E i \in Item, s \in Seller : Queue(i, s)

Spec == Init /\ [][Next]_vars

(***************************************************************************)
(* Fairness: the command loops for ever and docker restarts it.  Nothing   *)
(* makes a push service answer: webpush is called with no timeout.         *)
(***************************************************************************)
FairSpec == Spec /\ \A w \in Worker : WF_vars(OwnStep(w))

-----------------------------------------------------------------------------
(* Properties                                                               *)

\* "no retry, o worker preserva os aparelhos que já receberam para não duplicar
\* a entrega": a device is sent a notice more than once only if a worker died,
\* an answer was lost or a save failed, and no more often than that happened.
AtMostOncePerFault ==
    \A i \in Item, d \in Device : received[i][d] <= 1 + faults

\* The same promise with no exception for faults.
AtMostOnce ==
    \A i \in Item, d \in Device : received[i][d] <= 1

\* A notice is DONE only when every device of its last list has been sent it or
\* is unknown to the push service: a failure in the middle of the list, even one
\* whose save fails, is never lost.
DoneReachedEveryone ==
    \A i \in Item : status[i] = "DONE" => listed[i] \subseteq progress[i] \union expired[i]

\* A device its seller removed while no worker had a copy of it stays switched
\* off until it registers again, whatever is being sent or retried.
QuietRemovalHolds ==
    \A d \in Device : removed[d] = "quiet" => ~active[d]

\* "The server is already disabled" (push-notifications.js, after the DELETE):
\* a device its seller removed is switched off until it registers again.
RemovalHolds ==
    \A d \in Device : removed[d] # "no" => ~active[d]

\* A device that is sent notices has failed fewer times in a row than the limit,
\* though the count that is saved is that of a copy as old as the list, which a
\* registration or another worker's failure may have overtaken.
RetiredInTime ==
    \A d \in Device : active[d] => failures[d] < MaxFailures

\* The worker waits for a push service, or is about to.
InCall(w) == pc[w] = "next" /\ todo[w] # {}

\* If no push service keeps a worker waiting for ever, every queued notice is
\* settled, through failures and lost answers, or a worker dies with it in hand.
\* One recovered from that is PENDING again, and held to the same.
EveryPushSettles ==
    (\A w \in Worker : []<>~InCall(w)) =>
    \A i \in Item : status[i] = "PENDING" ~> (status[i] \in {"DONE", "DEAD"} \/ i \in orphans)
=============================================================================
