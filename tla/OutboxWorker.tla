---------------------------- MODULE OutboxWorker ----------------------------
(***************************************************************************)
(* run_outbox_worker of apps/notifications: it claims PENDING rows of the  *)
(* outbox, sends them from the copies it has in memory, and saves what     *)
(* became of them.  Every save is a transaction of its own, so the process *)
(* may die between any two of them.  Meanwhile the web process queues      *)
(* notices with _queue_message, whose check and insert two threads may     *)
(* interleave.                                                             *)
(*                                                                         *)
(* A row is a deduplication key.  Time is abstract: a backoff that passes  *)
(* makes a row due, and a lock that outlives OUTBOX_STALE_LOCK_SECONDS     *)
(* makes it stale.  A dead process may start again at once, before the     *)
(* locks it left are stale (docker's restart: always), or later.           *)
(***************************************************************************)
EXTENDS Integers, FiniteSets

CONSTANTS
    Item,          \* deduplication keys
    Worker,        \* run_outbox_worker processes
    Callback,      \* calls of _queue_message
    NoItem,        \* a worker or a callback that has no row in hand
    BatchSize,     \* rows a worker claims at a time (10)
    MaxAttempts,   \* MAX_NOTIFICATION_ATTEMPTS
    MaxCrashes,    \* bound on the deaths of worker processes
    MaxDeletions,  \* bound on the messages an administrator deletes
    Timely         \* a batch is finished before its locks are stale

ASSUME ConstantsAssumption ==
    /\ NoItem \notin Item
    /\ BatchSize \in Nat \ {0}
    /\ MaxAttempts \in Nat \ {0}
    /\ MaxCrashes \in Nat
    /\ MaxDeletions \in Nat
    /\ Timely \in BOOLEAN

RowStatus     == {"ABSENT", "PENDING", "PROCESSING", "DONE", "DEAD"}
MessageStatus == {"NONE", "QUEUED", "SENDING", "SENT", "FAILED", "DEAD"}

VARIABLES
    status,    \* NotificationOutbox.status
    attempts,  \* NotificationOutbox.attempts
    due,       \* available_at has passed
    stale,     \* locked_at of a PROCESSING row is older than the cutoff
    complete,  \* the payload has a message, a phone and a text
    message,   \* WhatsAppMessage.status of the row's message, NONE if it is deleted
    accepted,  \* the provider accepted the row's message (history)
    tries,     \* calls of send_text for the row (history)
    refusals,  \* attempts that found nothing to send (history)
    orphans,   \* rows in hand when their process ended, not recovered since (history)
    queueing,  \* the row each callback has checked and not yet inserted
    called,    \* callbacks that have run
    pc,        \* where each worker is
    held,      \* rows of its batch it has not begun
    item,      \* the row it is sending
    copy,      \* attempts of each row of the batch, as it read them (0 for others)
    gone,      \* rows of its batch that were deleted under it
    ok,        \* what send_text returned
    crashes,   \* deaths so far
    deletions  \* messages deleted so far

counts == <<accepted, tries, refusals>>
row == <<status, attempts, due, stale, complete, message, counts>>
queue == <<queueing, called>>
batch == <<held, item, copy, gone, ok>>
faults == <<crashes, deletions>>
vars == <<row, orphans, queue, pc, batch, faults>>

PC == {"down", "poll", "batch", "send", "record", "bury", "settle"}

TypeOK ==
    /\ status \in [Item -> RowStatus]
    /\ attempts \in [Item -> 0..MaxAttempts]
    /\ due \in [Item -> BOOLEAN]
    /\ stale \in [Item -> BOOLEAN]
    /\ complete \in [Item -> BOOLEAN]
    /\ message \in [Item -> MessageStatus]
    /\ accepted \in [Item -> BOOLEAN]
    /\ tries \in [Item -> Nat]
    /\ refusals \in [Item -> Nat]
    /\ orphans \subseteq Item
    /\ queueing \in [Callback -> Item \union {NoItem}]
    /\ called \subseteq Callback
    /\ pc \in [Worker -> PC]
    /\ held \in [Worker -> SUBSET Item]
    /\ item \in [Worker -> Item \union {NoItem}]
    /\ copy \in [Worker -> [Item -> 0..MaxAttempts]]
    /\ gone \in [Worker -> SUBSET Item]
    /\ ok \in [Worker -> BOOLEAN]
    /\ crashes \in 0..MaxCrashes
    /\ deletions \in 0..MaxDeletions

Init ==
    /\ status = [i \in Item |-> "ABSENT"]
    /\ attempts = [i \in Item |-> 0]
    /\ due = [i \in Item |-> FALSE]
    /\ stale = [i \in Item |-> FALSE]
    /\ complete = [i \in Item |-> TRUE]
    /\ message = [i \in Item |-> "NONE"]
    /\ accepted = [i \in Item |-> FALSE]
    /\ tries = [i \in Item |-> 0]
    /\ refusals = [i \in Item |-> 0]
    /\ orphans = {}
    /\ queueing = [c \in Callback |-> NoItem]
    /\ called = {}
    /\ pc = [w \in Worker |-> "down"]
    /\ held = [w \in Worker |-> {}]
    /\ item = [w \in Worker |-> NoItem]
    /\ copy = [w \in Worker |-> [i \in Item |-> 0]]
    /\ gone = [w \in Worker |-> {}]
    /\ ok = [w \in Worker |-> FALSE]
    /\ crashes = 0
    /\ deletions = 0

\* The rows in the hands of a worker, deleted ones left out.
Holding(w) == (held[w] \union ({item[w]} \ {NoItem})) \ gone[w]

Goto(w, label) == pc' = [pc EXCEPT ![w] = label]

\* What the worker remembers of the rows of its batch is forgotten.
Forget(w) ==
    /\ copy' = [copy EXCEPT ![w] = [i \in Item |-> 0]]
    /\ gone' = [gone EXCEPT ![w] = {}]

-----------------------------------------------------------------------------
(* _queue_message, in the web process                                       *)

\* No row of the key is PENDING or PROCESSING: the callback goes on to insert.
\* (When there is one it returns None, and nothing changes.)
QueueCheck(c, i) ==
    /\ c \notin called
    /\ status[i] \notin {"PENDING", "PROCESSING"}
    /\ queueing' = [queueing EXCEPT ![c] = i]
    /\ called' = called \union {c}
    /\ UNCHANGED <<row, orphans, pc, batch, faults>>

\* The row of the key is deleted, whatever it has become since the check, and a
\* new one is inserted with a new message, and with what the caller passed for a
\* phone and a text, which may be nothing.
QueueInsert(c, i) ==
    /\ queueing[c] = i
    /\ queueing' = [queueing EXCEPT ![c] = NoItem]
    /\ status' = [status EXCEPT ![i] = "PENDING"]
    /\ attempts' = [attempts EXCEPT ![i] = 0]
    /\ due' = [due EXCEPT ![i] = TRUE]
    /\ stale' = [stale EXCEPT ![i] = FALSE]
    /\ \E whole \in BOOLEAN : complete' = [complete EXCEPT ![i] = whole]
    /\ message' = [message EXCEPT ![i] = "QUEUED"]
    /\ accepted' = [accepted EXCEPT ![i] = FALSE]
    /\ tries' = [tries EXCEPT ![i] = 0]
    /\ refusals' = [refusals EXCEPT ![i] = 0]
    /\ orphans' = orphans \ {i}
    /\ gone' = [w \in Worker |-> IF i \in Holding(w) THEN gone[w] \union {i} ELSE gone[w]]
    /\ UNCHANGED <<called, pc, held, item, copy, ok, faults>>

\* An administrator deletes the message of a row (WhatsAppMessageAdmin).
DeleteMessage(i) ==
    /\ message[i] # "NONE"
    /\ deletions < MaxDeletions
    /\ deletions' = deletions + 1
    /\ message' = [message EXCEPT ![i] = "NONE"]
    /\ UNCHANGED <<status, attempts, due, stale, complete, counts, orphans, queue, pc, batch,
                   crashes>>

-----------------------------------------------------------------------------
(* handle and _recover_stale_items                                          *)

\* A row whose lock is older than the cutoff.
Obsolete(i) == status[i] = "PROCESSING" /\ stale[i]

\* The process starts (or docker restarts it): stale rows become PENDING again.
Boot(w) ==
    /\ pc[w] = "down"
    /\ status' = [i \in Item |-> IF Obsolete(i) THEN "PENDING" ELSE status[i]]
    /\ due' = [i \in Item |-> due[i] \/ Obsolete(i)]
    /\ stale' = [i \in Item |-> stale[i] /\ ~Obsolete(i)]
    /\ orphans' = {i \in orphans : ~Obsolete(i)}
    /\ Goto(w, "poll")
    /\ UNCHANGED <<attempts, complete, message, counts, queue, batch, faults>>

-----------------------------------------------------------------------------
(* _process_batch                                                           *)

\* Mutant: the due rows are selected whatever their status.
Claimable_AnyStatus(i) == status[i] \in {"PENDING", "PROCESSING"} /\ due[i]

\* Mutant: only rows that were never tried are selected.
Claimable_FirstTry(i) == status[i] = "PENDING" /\ due[i] /\ attempts[i] = 0

Claimable(i) == status[i] = "PENDING" /\ due[i]

\* SELECT ... FOR UPDATE SKIP LOCKED, and the UPDATEs, in one transaction.
Claim(w) ==
    /\ pc[w] = "poll"
    /\ \E S \in SUBSET {i \in Item : Claimable(i)} :
          /\ S # {}
          /\ Cardinality(S) = BatchSize \/ S = {i \in Item : Claimable(i)}
          /\ Cardinality(S) <= BatchSize
          /\ status' = [i \in Item |-> IF i \in S THEN "PROCESSING" ELSE status[i]]
          /\ stale' = [i \in Item |-> stale[i] /\ i \notin S]
          /\ held' = [held EXCEPT ![w] = S]
          /\ copy' = [copy EXCEPT ![w] = [i \in Item |-> IF i \in S THEN attempts[i] ELSE 0]]
    /\ gone' = [gone EXCEPT ![w] = {}]
    /\ Goto(w, "batch")
    /\ UNCHANGED <<attempts, due, complete, message, counts, orphans, queue, item, ok,
                   faults>>

\* The batch is finished: the worker polls again.
EndBatch(w) ==
    /\ pc[w] = "batch"
    /\ held[w] = {}
    /\ Forget(w)
    /\ Goto(w, "poll")
    /\ UNCHANGED <<row, orphans, queue, held, item, ok, faults>>

-----------------------------------------------------------------------------
(* _process_item, for a whatsapp.send row                                   *)

\* The message of the row w has in hand is saved, unless it is the message of a
\* row that was deleted, which nothing refers to any more.
SaveMessage(w, i, s) ==
    message' = IF i \in gone[w] THEN message ELSE [message EXCEPT ![i] = s]

\* The worker takes the next row of its batch.
TakeNext(w, i) ==
    /\ pc[w] = "batch"
    /\ i \in held[w]
    /\ item' = [item EXCEPT ![w] = i]
    /\ held' = [held EXCEPT ![w] = @ \ {i}]

\* The payload is complete, and its message is found.  (What became of the
\* message of a deleted row is not recorded: the worker may find it or not.)
Sendable(i) == complete[i] /\ message[i] # "NONE"

\* The message becomes SENDING.
MarkSending(w, i) ==
    /\ TakeNext(w, i)
    /\ Sendable(i) \/ i \in gone[w]
    /\ SaveMessage(w, i, "SENDING")
    /\ Goto(w, "send")
    /\ UNCHANGED <<status, attempts, due, stale, complete, counts, orphans, queue, copy, gone, ok,
                   faults>>

\* Mutant: one attempt fewer than the setting allows.
Exhausted_Early(w, i) == copy[w][i] + 2 >= MaxAttempts

\* A failure of this row is the last one MAX_NOTIFICATION_ATTEMPTS allows.
Exhausted(w, i) == copy[w][i] + 1 >= MaxAttempts

\* _handle_failure marks the message before it saves the row.
AfterFailure(w, i) == IF Exhausted(w, i) THEN "bury" ELSE "settle"

\* There is nothing to send: the attempt fails without a call of the provider.
Refuse(w, i) ==
    /\ TakeNext(w, i)
    /\ ~Sendable(i) \/ i \in gone[w]
    /\ refusals' = IF i \in gone[w] THEN refusals ELSE [refusals EXCEPT ![i] = @ + 1]
    /\ ok' = [ok EXCEPT ![w] = FALSE]
    /\ Goto(w, AfterFailure(w, i))
    /\ UNCHANGED <<status, attempts, due, stale, complete, message, accepted, tries, orphans,
                   queue, copy, gone, faults>>

\* client.send_text: the provider accepts the message or not, and the worker
\* learns of it, or gets an error or a timeout for an answer.
SendText(w, accepts, answers) ==
    /\ pc[w] = "send"
    /\ answers => accepts
    /\ IF item[w] \in gone[w]
       THEN UNCHANGED <<accepted, tries>>
       ELSE /\ accepted' = [accepted EXCEPT ![item[w]] = @ \/ accepts]
            /\ tries' = [tries EXCEPT ![item[w]] = @ + 1]
    /\ ok' = [ok EXCEPT ![w] = answers]
    /\ Goto(w, "record")
    /\ UNCHANGED <<status, attempts, due, stale, complete, message, refusals, orphans, queue,
                   held, item, copy, gone, faults>>

\* The message is saved before the row is: as SENT by a save() that inserts it
\* again if it was deleted, or as FAILED by one of three fields, which does not.
Record(w) ==
    /\ pc[w] = "record"
    /\ IF ok[w]
       THEN SaveMessage(w, item[w], "SENT")
       ELSE SaveMessage(w, item[w], IF message[item[w]] = "NONE" THEN "NONE" ELSE "FAILED")
    /\ Goto(w, IF ok[w] THEN "settle" ELSE AfterFailure(w, item[w]))
    /\ UNCHANGED <<status, attempts, due, stale, complete, counts, orphans, queue, batch, faults>>

\* The message of an accepted send was deleted with its seller, so that it cannot
\* be inserted again: the exception makes the attempt a failure.
RecordFails(w) ==
    /\ pc[w] = "record"
    /\ ok[w]
    /\ message[item[w]] = "NONE" \/ item[w] \in gone[w]
    /\ ok' = [ok EXCEPT ![w] = FALSE]
    /\ Goto(w, AfterFailure(w, item[w]))
    /\ UNCHANGED <<row, orphans, queue, held, item, copy, gone, faults>>

\* _mark_message_dead, which ignores a message that is gone.
Bury(w) ==
    /\ pc[w] = "bury"
    /\ SaveMessage(w, item[w], IF message[item[w]] = "NONE" THEN "NONE" ELSE "DEAD")
    /\ Goto(w, "settle")
    /\ UNCHANGED <<status, attempts, due, stale, complete, counts, orphans, queue, batch, faults>>

\* Mutant: a failed send is saved as DONE as well.
Outcome_AlwaysDone(w) == "DONE"

\* Mutant: _handle_failure leaves the status of a row it will retry alone.
Outcome_Unreset(w) ==
    IF ok[w] THEN "DONE" ELSE IF Exhausted(w, item[w]) THEN "DEAD" ELSE "PROCESSING"

\* The status the row is saved with.
Outcome(w) ==
    IF ok[w] THEN "DONE" ELSE IF Exhausted(w, item[w]) THEN "DEAD" ELSE "PENDING"

\* The row is saved, if it still exists: as DONE, or by _handle_failure with one
\* attempt more than the worker read, either DEAD or PENDING with a backoff.
Settle(w) ==
    /\ pc[w] = "settle"
    /\ item[w] \notin gone[w]
    /\ status' = [status EXCEPT ![item[w]] = Outcome(w)]
    /\ IF ok[w]
       THEN UNCHANGED <<attempts, due>>
       ELSE /\ attempts' = [attempts EXCEPT ![item[w]] = copy[w][item[w]] + 1]
            /\ due' = [due EXCEPT ![item[w]] = @ /\ Exhausted(w, item[w])]
    /\ stale' = [stale EXCEPT ![item[w]] = FALSE]
    /\ item' = [item EXCEPT ![w] = NoItem]
    /\ ok' = [ok EXCEPT ![w] = FALSE]
    /\ Goto(w, "batch")
    /\ UNCHANGED <<complete, message, counts, orphans, queue, held, copy, gone, faults>>

-----------------------------------------------------------------------------
(* Failure and time                                                         *)

\* The process ends, and what it had in memory is lost.
Stop(w) ==
    /\ Goto(w, "down")
    /\ orphans' = orphans \union Holding(w)
    /\ held' = [held EXCEPT ![w] = {}]
    /\ item' = [item EXCEPT ![w] = NoItem]
    /\ ok' = [ok EXCEPT ![w] = FALSE]
    /\ Forget(w)
    /\ UNCHANGED <<row, queue>>

\* Saving a deleted row raises out of _process_item's handler too: the command
\* ends with the traceback.
DatabaseError(w) ==
    /\ pc[w] = "settle"
    /\ item[w] \in gone[w]
    /\ Stop(w)
    /\ UNCHANGED faults

\* A deploy, an out-of-memory kill, a lost database connection.
Crash(w) ==
    /\ pc[w] # "down"
    /\ crashes < MaxCrashes
    /\ crashes' = crashes + 1
    /\ Stop(w)
    /\ UNCHANGED deletions

BecomeDue(i) ==
    /\ status[i] = "PENDING" /\ ~due[i]
    /\ due' = [due EXCEPT ![i] = TRUE]
    /\ UNCHANGED <<status, attempts, stale, complete, message, counts, orphans, queue, pc, batch,
                   faults>>

BecomeStale(i) ==
    /\ status[i] = "PROCESSING" /\ ~stale[i]
    /\ Timely => \A w \in Worker : i \notin Holding(w)
    /\ stale' = [stale EXCEPT ![i] = TRUE]
    /\ UNCHANGED <<status, attempts, due, complete, message, counts, orphans, queue, pc, batch,
                   faults>>

WorkerStep(w) ==
    \/ Boot(w) \/ Claim(w) \/ EndBatch(w)
    \/ \E i \in Item : MarkSending(w, i) \/ Refuse(w, i)
    \/ \E accepts, answers \in BOOLEAN : SendText(w, accepts, answers)
    \/ Record(w) \/ RecordFails(w) \/ Bury(w) \/ Settle(w) \/ DatabaseError(w)

Next ==
    \/ \E w \in Worker : WorkerStep(w) \/ Crash(w)
    \/ \E c \in Callback, i \in Item : QueueCheck(c, i) \/ QueueInsert(c, i)
    \/ \E i \in Item : DeleteMessage(i) \/ BecomeDue(i) \/ BecomeStale(i)

Spec == Init /\ [][Next]_vars

(***************************************************************************)
(* Fairness: the command loops for ever and docker restarts it when it     *)
(* ends (restart: always), a callback in the middle of _queue_message runs *)
(* on, and time passes.  send_text ends for want of an answer (10 s), but  *)
(* nothing makes the provider accept, and nothing makes a restart wait     *)
(* until the locks are stale.                                              *)
(***************************************************************************)
Fairness ==
    /\ \A w \in Worker : WF_vars(WorkerStep(w))
    /\ \A c \in Callback : WF_vars(\E i \in Item : QueueInsert(c, i))
    /\ \A i \in Item : WF_vars(BecomeDue(i) \/ BecomeStale(i))

FairSpec == Spec /\ Fairness

-----------------------------------------------------------------------------
(* Properties                                                               *)

\* A row is in the hands of one worker at most, and is PROCESSING while it is:
\* no claim, recovery, replacement or crash makes two workers send it.
ClaimExclusive ==
    /\ \A w, v \in Worker : w # v => Holding(w) \intersect Holding(v) = {}
    /\ \A w \in Worker : \A i \in Holding(w) : status[i] = "PROCESSING"

\* A DONE row was accepted by the provider, and its message, unless somebody
\* deleted it, says SENT.
DoneWasSent ==
    \A i \in Item : status[i] = "DONE" => accepted[i] /\ message[i] \in {"SENT", "NONE"}

\* A row is given up only after as many attempts as the setting allows, a crash
\* or a recovery never counting for one: calls of the provider, every one of
\* them, if there is a message to send still, and else calls and refusals; and
\* the message that is there is DEAD.
DeadWasTried ==
    \A i \in Item : status[i] = "DEAD" =>
        /\ message[i] \in {"DEAD", "NONE"}
        /\ tries[i] + refusals[i] >= MaxAttempts
        /\ Sendable(i) => tries[i] >= MaxAttempts

\* Only the end of a process strands a row: one that is PROCESSING in no worker's
\* hands was in the hands of a process when it ended, and no start since found
\* its lock stale.  Whatever else fails, a claimed row is settled or put back.
NothingIsStranded ==
    \A i \in Item : status[i] = "PROCESSING" =>
        (\E w \in Worker : i \in Holding(w)) \/ i \in orphans

\* A queued notice is delivered or given up, or a process ends with its row in
\* hand.  A row recovered from that is PENDING again, and held to the same.
EveryNoticeSettles ==
    \A i \in Item : status[i] = "PENDING" ~> (status[i] \in {"DONE", "DEAD"} \/ i \in orphans)

\* "A tabela NotificationOutbox evita perder mensagens": every queued notice is
\* delivered or given up.  A worker that starts before the locks it left are
\* stale never looks at them again.
NoNoticeIsLost ==
    \A i \in Item : status[i] = "PENDING" ~> status[i] \in {"DONE", "DEAD"}

\* What a reader of the outbox sees of it.
Notice(s) ==
    CASE s = "ABSENT" -> "none"
      [] s \in {"PENDING", "PROCESSING"} -> "queued"
      [] s = "DONE" -> "delivered"
      [] s = "DEAD" -> "abandoned"

Delivery == INSTANCE NotificationDelivery WITH notice <- [i \in Item |-> Notice(status[i])]

\* The worker and the queueing callbacks implement NotificationDelivery: no
\* notice is delivered that the provider did not accept, and a notice leaves the
\* queue only delivered, abandoned or replaced.
ImplementsDelivery == Delivery!Spec
=============================================================================
