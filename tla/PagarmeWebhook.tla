--------------------------- MODULE PagarmeWebhook ---------------------------
(***************************************************************************)
(* The webhook receiver and the event processor of apps/webhooks, at the   *)
(* granularity of the SQL statements they issue.                           *)
(*                                                                         *)
(* A Worker is a gunicorn thread (or an administrator's request) that runs *)
(* process_webhook_event on one WebhookEvent row: it reads the payment     *)
(* link without a lock, evaluates the guard on that in-memory copy, runs   *)
(* the handler inside transaction.atomic(), and then runs the on_commit    *)
(* callbacks that put the notifications in the outbox.  The database is    *)
(* PostgreSQL at READ COMMITTED: a transaction's writes become visible at  *)
(* its commit, an UPDATE keeps its row locked until then, and a cycle of   *)
(* lock waits ends with one of the transactions aborted.                   *)
(***************************************************************************)
EXTENDS FiniteSets

CONSTANTS
    Worker,     \* threads that may be processing an event
    Event,      \* WebhookEvent rows (provider_event_id is unique)
    Link,       \* PaymentLink rows
    AttemptId,  \* primary keys PaymentAttempt rows can get
    OrderId,    \* Pagar.me order ids
    ChargeId,   \* Pagar.me charge ids
    Payload,    \* the normalised events Pagar.me may send
    NoLink,     \* _find_payment_link returned None
    Raises,     \* normalize_event or _find_payment_link raised
    NoId,       \* an id the payload does not carry
    NoAttempt,  \* .first() found no attempt
    NoWorker,   \* an unlocked row
    NoEvent     \* what an idle worker processes

(***************************************************************************)
(* The event types, one for each distinct entry of EVENT_MAP.  Types with  *)
(* the same entry behave alike: charge.payment_failed as                   *)
(* order.payment_failed, payment-link.cancelled as order.canceled,         *)
(* checkout.canceled, checkout.closed and payment-link.expired as          *)
(* order.closed, chargeback.received as charge.chargedback; order.created  *)
(* stands for every type that is mapped to "ignore" or not mapped at all.  *)
(* "none" stands for a key the entry lacks.                                *)
(***************************************************************************)
EventType == {"order.paid", "order.payment_failed", "order.canceled",
              "order.closed", "order.created", "charge.paid",
              "charge.refunded", "charge.chargedback"}

Config(action, link, att) ==
    [action |-> action, link_status |-> link, attempt_status |-> att]

EVENT_MAP == [t \in EventType |->
    CASE t = "order.paid"           -> Config("mark_paid", "PAID", "PAID")
      [] t = "order.payment_failed" -> Config("create_attempt", "none", "FAILED")
      [] t = "order.canceled"       -> Config("mark_canceled", "CANCELED", "none")
      [] t = "order.closed"         -> Config("mark_expired", "EXPIRED", "none")
      [] t = "charge.paid"          -> Config("create_attempt", "none", "PAID")
      [] t = "charge.refunded"      -> Config("mark_refunded", "REFUNDED", "REFUNDED")
      [] t = "charge.chargedback"   -> Config("create_attempt", "none", "CHARGEDBACK")
      [] t = "order.created"        -> Config("ignore", "none", "none")]

FINAL_STATES      == {"PAID", "CANCELED", "EXPIRED", "REFUNDED"}
NO_REGRESS_STATES == {"PAID", "REFUNDED"}

LinkStatus    == {"ACTIVE"} \union FINAL_STATES
AttemptStatus == {"PAID", "FAILED", "REFUNDED", "CHARGEDBACK"}
EventStatus   == {"ABSENT", "RECEIVED", "PROCESSED", "IGNORED", "FAILED"}
\* _queue_message tells PENDING and PROCESSING rows from DONE and DEAD ones, and
\* nothing else: PENDING and DONE stand for the two pairs.
OutboxStatus  == {"ABSENT", "PENDING", "DONE"}
Notice        == {"payment_approved", "payment_failed", "payment_canceled",
                  "payment_expired", "payment_refunded", "payment_chargedback"}

(***************************************************************************)
(* What normalize_event and _find_payment_link make of a payload: the link *)
(* it resolves to, and the order and charge ids an attempt is looked up by.*)
(* Both raise on payloads they do not expect: "order": null, or metadata   *)
(* whose internal id is no UUID.                                           *)
(***************************************************************************)
Normalized == [type : EventType, link : Link \union {NoLink, Raises},
               order : OrderId \union {NoId}, charge : ChargeId \union {NoId}]

AttemptRow == [link : Link, order : OrderId \union {NoId},
               charge : ChargeId \union {NoId}, status : AttemptStatus]

ASSUME ConstantsAssumption ==
    /\ Payload # {}
    /\ Payload \subseteq Normalized
    /\ NoLink \notin Link
    /\ Raises \notin Link \union {NoLink}
    /\ NoAttempt \notin AttemptId \union AttemptRow
    /\ NoWorker \notin Worker
    /\ NoEvent \notin Event
    /\ NoId \notin OrderId \union ChargeId

VARIABLES
    eventStatus,  \* WebhookEvent.processing_status
    content,      \* the normalised payload of each stored event
    linkStatus,   \* PaymentLink.status, committed
    attempt,      \* PaymentAttempt rows, committed
    recorded,     \* history: the attempt statuses commits wrote, by link and charge
    linkLock,     \* the open transaction that updated each link row
    attemptLock,  \* the open transaction that updated each attempt row
    outbox,       \* NotificationOutbox rows of topic whatsapp.send
    push,         \* keys of the rows of topic webpush.send
    pc,           \* where each worker is in process_webhook_event
    cur,          \* the event it processes
    seen,         \* status of the PaymentLink object it has in memory
    found         \* the attempt its lookup returned

vars == <<eventStatus, content, linkStatus, attempt, recorded, linkLock,
          attemptLock, outbox, push, pc, cur, seen, found>>

rows == <<linkStatus, attempt, recorded>>
locks == <<linkLock, attemptLock>>
queues == <<outbox, push>>
local == <<cur, seen, found>>

PC == {"idle", "screen", "link", "find", "attempt", "commit",
       "whatsapp", "insert", "push"}
InTransaction == {"link", "find", "attempt", "commit"}

TypeOK ==
    /\ eventStatus \in [Event -> EventStatus]
    /\ content \in [Event -> Normalized]
    /\ linkStatus \in [Link -> LinkStatus]
    /\ attempt \in [AttemptId -> AttemptRow \union {NoAttempt}]
    /\ recorded \subseteq Link \X AttemptStatus \X (ChargeId \union {NoId})
    /\ linkLock \in [Link -> Worker \union {NoWorker}]
    /\ attemptLock \in [AttemptId -> Worker \union {NoWorker}]
    /\ outbox \in [Link -> [Notice -> OutboxStatus]]
    /\ push \subseteq Link \X Notice \X (ChargeId \union {NoId})
    /\ pc \in [Worker -> PC]
    /\ cur \in [Worker -> Event \union {NoEvent}]
    /\ seen \in [Worker -> LinkStatus]
    /\ found \in [Worker -> AttemptId \union {NoAttempt}]

Init ==
    /\ eventStatus = [e \in Event |-> "ABSENT"]
    /\ content = [e \in Event |-> CHOOSE p \in Payload : TRUE]
    /\ linkStatus = [l \in Link |-> "ACTIVE"]
    /\ attempt = [a \in AttemptId |-> NoAttempt]
    /\ recorded = {}
    /\ linkLock = [l \in Link |-> NoWorker]
    /\ attemptLock = [a \in AttemptId |-> NoWorker]
    /\ outbox = [l \in Link |-> [n \in Notice |-> "ABSENT"]]
    /\ push = {}
    /\ pc = [w \in Worker |-> "idle"]
    /\ cur = [w \in Worker |-> NoEvent]
    /\ seen = [w \in Worker |-> "ACTIVE"]
    /\ found = [w \in Worker |-> NoAttempt]

-----------------------------------------------------------------------------
(* The event a worker holds, its configuration and what its handler does.   *)

Cfg(w)    == EVENT_MAP[content[cur[w]].type]
LinkOf(w) == content[cur[w]].link
ChargeOf(w) == content[cur[w]].charge

\* mark_expired returns at once when the link in memory is already final.
EarlyReturn(w) == Cfg(w).action = "mark_expired" /\ seen[w] \in FINAL_STATES

TouchesAttempt(w) == Cfg(w).action \in {"mark_paid", "mark_refunded", "create_attempt"}

\* The status the handler's UPDATE writes into the link row.
NewLinkStatus(w) ==
    IF Cfg(w).action = "create_attempt" THEN "PAID" ELSE Cfg(w).link_status

\* The first statement of the handler: create_attempt begins with the attempt,
\* every other handler with the link row.
FirstStatement(w, read) ==
    IF Cfg(w).action = "create_attempt" THEN "find"
    ELSE IF Cfg(w).action = "mark_expired" /\ read \in FINAL_STATES THEN "commit"
    ELSE "link"

\* Mutant: every handler that updates the link goes on to an attempt.
AfterLink_Always(w) == "find"

AfterLink(w) ==
    IF Cfg(w).action \in {"mark_paid", "mark_refunded"} THEN "find" ELSE "commit"

AfterAttempt(w) ==
    IF Cfg(w).action = "create_attempt" /\ Cfg(w).attempt_status = "PAID"
    THEN "link" ELSE "commit"

NoticeOf(w) ==
    CASE Cfg(w).action = "mark_canceled"        -> "payment_canceled"
      [] Cfg(w).action = "mark_expired"         -> "payment_expired"
      [] Cfg(w).attempt_status = "PAID"         -> "payment_approved"
      [] Cfg(w).attempt_status = "FAILED"       -> "payment_failed"
      [] Cfg(w).attempt_status = "REFUNDED"     -> "payment_refunded"
      [] Cfg(w).attempt_status = "CHARGEDBACK"  -> "payment_chargedback"

\* Only the failure, refund and chargeback notices carry a suffix in the key.
PushKey(w) ==
    <<LinkOf(w), NoticeOf(w),
      IF NoticeOf(w) \in {"payment_failed", "payment_refunded", "payment_chargedback"}
      THEN ChargeOf(w) ELSE NoId>>

\* The attempts the two lookups of _create_or_update_attempt can return: by
\* order id when it finds one, else by charge id.  Several rows can match only
\* if duplicates exist; the newest one is then an arbitrary one here.
ByOrder(w) ==
    {a \in AttemptId : /\ attempt[a] # NoAttempt
                       /\ attempt[a].link = LinkOf(w)
                       /\ content[cur[w]].order # NoId
                       /\ attempt[a].order = content[cur[w]].order}
ByCharge(w) ==
    {a \in AttemptId : /\ attempt[a] # NoAttempt
                       /\ attempt[a].link = LinkOf(w)
                       /\ content[cur[w]].charge # NoId
                       /\ attempt[a].charge = content[cur[w]].charge}

\* Mutant: the lookup by order id is gone.
Matches_ChargeOnly(w) == ByCharge(w)

Matches(w) == IF ByOrder(w) # {} THEN ByOrder(w) ELSE ByCharge(w)

Goto(w, label) == pc' = [pc EXCEPT ![w] = label]

\* process_webhook_event returns: nothing it held in memory survives.
Finish(w) ==
    /\ pc' = [pc EXCEPT ![w] = "idle"]
    /\ cur' = [cur EXCEPT ![w] = NoEvent]
    /\ seen' = [seen EXCEPT ![w] = "ACTIVE"]
    /\ found' = [found EXCEPT ![w] = NoAttempt]

SetEvent(w, s) == eventStatus' = [eventStatus EXCEPT ![cur[w]] = s]

\* The row locks a transaction of w leaves behind when it ends.
ReleaseLocks(w) ==
    /\ linkLock' = [l \in Link |-> IF linkLock[l] = w THEN NoWorker ELSE linkLock[l]]
    /\ attemptLock' = [a \in AttemptId |->
                          IF attemptLock[a] = w THEN NoWorker ELSE attemptLock[a]]

-----------------------------------------------------------------------------
(* pagarme_webhook, and reprocess_event of the admin                        *)

\* First delivery: the row is created in its own transaction, then the view's
\* on_commit runs process_webhook_event in the same thread.
Receive(w, e, p) ==
    /\ pc[w] = "idle"
    /\ eventStatus[e] = "ABSENT"
    /\ eventStatus' = [eventStatus EXCEPT ![e] = "RECEIVED"]
    /\ content' = [content EXCEPT ![e] = p]
    /\ cur' = [cur EXCEPT ![w] = e]
    /\ Goto(w, "screen")
    /\ UNCHANGED <<rows, locks, queues, seen, found>>

\* Any later delivery hits the unique index; only a FAILED event is run again,
\* every other one is answered as a duplicate and nothing changes.
Redeliver(w, e) ==
    /\ pc[w] = "idle"
    /\ eventStatus[e] = "FAILED"
    /\ cur' = [cur EXCEPT ![w] = e]
    /\ Goto(w, "screen")
    /\ UNCHANGED <<eventStatus, content, rows, locks, queues, seen, found>>

\* The admin action runs any stored event again, after setting a settled one
\* back to RECEIVED.
Reprocess(w, e) ==
    /\ pc[w] = "idle"
    /\ eventStatus[e] # "ABSENT"
    /\ eventStatus' = [eventStatus EXCEPT ![e] =
                          IF @ \in {"PROCESSED", "IGNORED"} THEN "RECEIVED" ELSE @]
    /\ cur' = [cur EXCEPT ![w] = e]
    /\ Goto(w, "screen")
    /\ UNCHANGED <<content, rows, locks, queues, seen, found>>

-----------------------------------------------------------------------------
(* process_webhook_event                                                    *)

\* Mutant: PAID is missing from NO_REGRESS_STATES.
Blocked_RefundedOnly(cfg, s) == cfg.link_status # "none" /\ s = "REFUNDED"

\* Mutant: REFUNDED is missing from NO_REGRESS_STATES.
Blocked_PaidOnly(cfg, s) == cfg.link_status # "none" /\ s = "PAID"

\* "Never regress final states": what the processor does with an event of
\* configuration cfg on a link whose object reads status s.
Blocked(cfg, s) == cfg.link_status # "none" /\ s \in NO_REGRESS_STATES

\* Mutant: an ignored event is not saved as IGNORED.
Ignore_Unsaved(w) ==
    /\ pc[w] = "screen"
    /\ \/ Cfg(w).action = "ignore"
       \/ LinkOf(w) = NoLink
       \/ LinkOf(w) \in Link /\ Blocked(Cfg(w), linkStatus[LinkOf(w)])
    /\ Finish(w)
    /\ UNCHANGED <<eventStatus, content, rows, locks, queues>>

\* Unmapped or ignored type, no such link, or a guarded final state.
Ignore(w) ==
    /\ pc[w] = "screen"
    /\ \/ Cfg(w).action = "ignore"
       \/ LinkOf(w) = NoLink
       \/ LinkOf(w) \in Link /\ Blocked(Cfg(w), linkStatus[LinkOf(w)])
    /\ SetEvent(w, "IGNORED")
    /\ Finish(w)
    /\ UNCHANGED <<content, rows, locks, queues>>

\* An exception of normalize_event or _find_payment_link is outside the try: it
\* leaves process_webhook_event, and the event as it was.
Raise(w) ==
    /\ pc[w] = "screen"
    /\ Cfg(w).action # "ignore"
    /\ LinkOf(w) = Raises
    /\ Finish(w)
    /\ UNCHANGED <<eventStatus, content, rows, locks, queues>>

\* The link is read and the guard passed: the handler's transaction begins,
\* with the link object as it was read.
Begin(w) ==
    /\ pc[w] = "screen"
    /\ Cfg(w).action # "ignore"
    /\ LinkOf(w) \in Link
    /\ ~Blocked(Cfg(w), linkStatus[LinkOf(w)])
    /\ seen' = [seen EXCEPT ![w] = linkStatus[LinkOf(w)]]
    /\ found' = [found EXCEPT ![w] = NoAttempt]
    /\ Goto(w, FirstStatement(w, linkStatus[LinkOf(w)]))
    /\ UNCHANGED <<eventStatus, content, rows, locks, queues, cur>>

\* payment_link.save(update_fields=...): waits for the row, then keeps it.
UpdateLink(w) ==
    /\ pc[w] = "link"
    /\ linkLock[LinkOf(w)] = NoWorker
    /\ linkLock' = [linkLock EXCEPT ![LinkOf(w)] = w]
    /\ Goto(w, AfterLink(w))
    /\ UNCHANGED <<eventStatus, content, rows, attemptLock, queues, local>>

\* The lookups of _create_or_update_attempt: an unlocked read of committed rows.
FindAttempt(w) ==
    /\ pc[w] = "find"
    /\ \E a \in IF Matches(w) = {} THEN {NoAttempt} ELSE Matches(w) :
          found' = [found EXCEPT ![w] = a]
    /\ Goto(w, "attempt")
    /\ UNCHANGED <<eventStatus, content, rows, locks, queues, cur, seen>>

\* attempt.save() waits for the row it found; create() has no row to wait for.
WriteAttempt(w) ==
    /\ pc[w] = "attempt"
    /\ IF found[w] = NoAttempt
       THEN UNCHANGED attemptLock
       ELSE /\ attemptLock[found[w]] = NoWorker
            /\ attemptLock' = [attemptLock EXCEPT ![found[w]] = w]
    /\ Goto(w, AfterAttempt(w))
    /\ UNCHANGED <<eventStatus, content, rows, linkLock, queues, local>>

\* The attempt row the transaction of w leaves: the one found with its new
\* status, or a new one under key a.
SavedAttempts(w, a) ==
    [attempt EXCEPT ![a] =
        IF found[w] # NoAttempt
        THEN [@ EXCEPT !.status = Cfg(w).attempt_status]
        ELSE [link   |-> LinkOf(w),
              order  |-> content[cur[w]].order,
              charge |-> ChargeOf(w),
              status |-> Cfg(w).attempt_status]]

\* The event is marked PROCESSED in the same transaction, and all the writes
\* become visible together.
Commit(w) ==
    /\ pc[w] = "commit"
    /\ linkStatus' = [l \in Link |-> IF linkLock[l] = w THEN NewLinkStatus(w)
                                                        ELSE linkStatus[l]]
    /\ IF TouchesAttempt(w)
       THEN \E a \in IF found[w] # NoAttempt THEN {found[w]}
                     ELSE {b \in AttemptId : attempt[b] = NoAttempt} :
               /\ attempt' = SavedAttempts(w, a)
               /\ recorded' = recorded \union
                     {<<attempt'[a].link, attempt'[a].status, ChargeOf(w)>>}
       ELSE UNCHANGED <<attempt, recorded>>
    /\ SetEvent(w, "PROCESSED")
    /\ ReleaseLocks(w)
    /\ IF EarlyReturn(w) THEN Finish(w) ELSE Goto(w, "whatsapp") /\ UNCHANGED local
    /\ UNCHANGED <<content, queues>>

\* Mutant: the handler runs outside transaction.atomic(), its UPDATE stays.
Abort_NoRollback(w) ==
    /\ pc[w] \in InTransaction
    /\ linkStatus' = [l \in Link |-> IF linkLock[l] = w THEN NewLinkStatus(w)
                                                        ELSE linkStatus[l]]
    /\ ReleaseLocks(w)
    /\ SetEvent(w, "FAILED")
    /\ Finish(w)
    /\ UNCHANGED <<content, attempt, recorded, queues>>

\* Mutant: the notices are queued even though the transaction rolled back.
Abort_StillNotifies(w) ==
    /\ pc[w] \in InTransaction
    /\ ReleaseLocks(w)
    /\ SetEvent(w, "FAILED")
    /\ Goto(w, "whatsapp")
    /\ UNCHANGED <<content, rows, queues, local>>

\* Mutant: FAILED is saved inside the transaction, and rolled back with it.
Abort_Forgets(w) ==
    /\ pc[w] \in InTransaction
    /\ ReleaseLocks(w)
    /\ Finish(w)
    /\ UNCHANGED <<eventStatus, content, rows, queues>>

\* Any exception in the handler: rollback, and the event is marked FAILED.
Abort(w) ==
    /\ pc[w] \in InTransaction
    /\ ReleaseLocks(w)
    /\ SetEvent(w, "FAILED")
    /\ Finish(w)
    /\ UNCHANGED <<content, rows, queues>>

\* w's next statement needs a row that v's transaction has updated.
WaitsFor(w, v) ==
    /\ v # w
    /\ \/ pc[w] = "link" /\ linkLock[LinkOf(w)] = v
       \/ pc[w] = "attempt" /\ found[w] # NoAttempt /\ attemptLock[found[w]] = v

\* PostgreSQL aborts one transaction of a cycle of waits; cycles have length
\* two, because every attempt row belongs to one link row.
DeadlockVictim(w) ==
    /\ \E v \in Worker : WaitsFor(w, v) /\ WaitsFor(v, w)
    /\ Abort(w)

-----------------------------------------------------------------------------
(* The on_commit callbacks: _queue_message, then queue_payment_status_push  *)

\* Mutant: the message is taken for a duplicate whatever the lookup returned.
CheckOutbox_Skips(w) ==
    /\ pc[w] = "whatsapp"
    /\ Goto(w, "push")
    /\ UNCHANGED <<eventStatus, content, rows, locks, queues, local>>

\* The callback first looks for a row still PENDING or PROCESSING.
CheckOutbox(w) ==
    /\ pc[w] = "whatsapp"
    /\ Goto(w, IF outbox[LinkOf(w)][NoticeOf(w)] = "PENDING" THEN "push" ELSE "insert")
    /\ UNCHANGED <<eventStatus, content, rows, locks, queues, local>>

\* Delete whatever row has the key, then insert a PENDING one.
InsertOutbox(w) ==
    /\ pc[w] = "insert"
    /\ outbox' = [outbox EXCEPT ![LinkOf(w)][NoticeOf(w)] = "PENDING"]
    /\ Goto(w, "push")
    /\ UNCHANGED <<eventStatus, content, rows, locks, push, local>>

\* Another thread's row appeared between the delete and the insert: the unique
\* key raises out of the callback, the callbacks left are dropped, and the
\* except branch marks the committed event FAILED.
InsertClash(w) ==
    /\ pc[w] = "insert"
    /\ outbox[LinkOf(w)][NoticeOf(w)] = "PENDING"
    /\ SetEvent(w, "FAILED")
    /\ Finish(w)
    /\ UNCHANGED <<content, rows, locks, queues>>

\* get_or_create: at most one row per key, whatever became of the first.
QueuePush(w) ==
    /\ pc[w] = "push"
    /\ push' = push \union {PushKey(w)}
    /\ Finish(w)
    /\ UNCHANGED <<eventStatus, content, rows, locks, outbox>>

-----------------------------------------------------------------------------
(* The environment                                                          *)

\* The thread dies (deploy, OOM, worker timeout) or loses its database, so that
\* the save of FAILED raises as well: its transaction is rolled back by the
\* server, and what it had not done yet is not done.
Crash(w) ==
    /\ pc[w] # "idle"
    /\ ReleaseLocks(w)
    /\ Finish(w)
    /\ UNCHANGED <<eventStatus, content, rows, queues>>

\* Meanwhile run_outbox_worker sends the message of a row, or gives it up.
Deliver(l, n) ==
    /\ outbox[l][n] = "PENDING"
    /\ outbox' = [outbox EXCEPT ![l][n] = "DONE"]
    /\ UNCHANGED <<eventStatus, content, rows, locks, push, pc, local>>

Step(w) ==
    \/ Ignore(w) \/ Raise(w) \/ Begin(w) \/ UpdateLink(w) \/ FindAttempt(w) \/ WriteAttempt(w)
    \/ Commit(w) \/ DeadlockVictim(w)
    \/ CheckOutbox(w) \/ InsertOutbox(w) \/ InsertClash(w) \/ QueuePush(w)

Deliveries ==
    \E w \in Worker, e \in Event :
        \/ \E p \in Payload : Receive(w, e, p)
        \/ Redeliver(w, e)

\* Everything but crashes and the administrator.
Running ==
    \/ \E w \in Worker : Step(w) \/ Abort(w)
    \/ Deliveries
    \/ \E l \in Link, n \in Notice : Deliver(l, n)

Next ==
    \/ Running
    \/ \E w \in Worker, e \in Event : Reprocess(w, e)
    \/ \E w \in Worker : Crash(w)

Spec == Init /\ [][Next]_vars

(***************************************************************************)
(* Fairness, for the behaviours without crashes: a thread that is inside   *)
(* process_webhook_event runs on.  PostgreSQL grants a row to its waiters  *)
(* in order, so a statement whose row is free again and again gets it.     *)
(***************************************************************************)
Fairness ==
    \A w \in Worker :
        /\ WF_vars(Step(w))
        /\ SF_vars(UpdateLink(w))
        /\ SF_vars(WriteAttempt(w))

RunningSpec == Init /\ [][Running]_vars /\ Fairness

-----------------------------------------------------------------------------
(* Safety                                                                   *)

\* A row is locked only by a transaction that is still open, and only the rows
\* its handler has updated: no path out of process_webhook_event (commit,
\* exception, deadlock, crash) leaves a link or an attempt locked.
LockInv ==
    /\ \A l \in Link, w \in Worker : linkLock[l] = w =>
          pc[w] \in InTransaction /\ LinkOf(w) = l
    /\ \A a \in AttemptId, w \in Worker : attemptLock[a] = w =>
          pc[w] \in {"link", "commit"} /\ found[w] = a

\* A link is PAID only if a payment event for it was stored and an attempt row
\* records it: no exception, crash or redelivery leaves the half of
\* _handle_mark_paid or _handle_create_attempt behind.
PaidHasEvidence ==
    \A l \in Link : linkStatus[l] = "PAID" =>
        /\ \E a \in AttemptId : attempt[a] # NoAttempt /\ attempt[a].link = l
        /\ \E e \in Event : /\ eventStatus[e] # "ABSENT"
                            /\ content[e].link = l
                            /\ content[e].type \in {"order.paid", "charge.paid"}

\* The attempt status each notice tells of.
Told == [payment_approved |-> "PAID", payment_failed |-> "FAILED",
         payment_refunded |-> "REFUNDED", payment_chargedback |-> "CHARGEDBACK"]

\* A payment, failure, refund or chargeback notice is in the outbox only if a
\* commit recorded the status it tells of on its link, and, where its key names
\* a charge, for that charge: a handler that rolled back announces nothing, not
\* even when earlier events of the link were committed.
NoticesAreBacked ==
    \A l \in Link, n \in DOMAIN Told :
        /\ outbox[l][n] # "ABSENT" =>
              \E c \in ChargeId \union {NoId} : <<l, Told[n], c>> \in recorded
        /\ \A s \in ChargeId \union {NoId} : <<l, n, s>> \in push =>
              \E c \in ChargeId \union {NoId} :
                  /\ <<l, Told[n], c>> \in recorded
                  /\ n # "payment_approved" => c = s

\* Two transactions wait for each other only when charge.paid, which writes the
\* attempt and then the link, meets a handler that writes them in the other
\* order, on the same link and the same attempt.
DeadlockShape ==
    \A w, v \in Worker : WaitsFor(w, v) /\ WaitsFor(v, w) /\ pc[w] = "link" =>
        /\ Cfg(w).action = "create_attempt"
        /\ Cfg(v).action \in {"mark_paid", "mark_refunded"}
        /\ LinkOf(w) = LinkOf(v)
        /\ found[w] = found[v]

\* The row that the next statement of w needs, if it needs one, is free.
HasItsRow(w) ==
    \/ pc[w] \in {"find", "commit"}
    \/ pc[w] = "link" /\ linkLock[LinkOf(w)] = NoWorker
    \/ pc[w] = "attempt" /\ (found[w] = NoAttempt \/ attemptLock[found[w]] = NoWorker)

\* While transactions are open, one of them has the row it needs, or two of them
\* wait for each other, which is the only cycle of waits there is and the one
\* DeadlockVictim breaks: the threads never all wait.
SomeTransactionMoves ==
    (\E w \in Worker : pc[w] \in InTransaction) =>
        \/ \E w \in Worker : HasItsRow(w)
        \/ \E w, v \in Worker : WaitsFor(w, v) /\ WaitsFor(v, w)

\* A PAID link becomes something else only through a handler whose copy of the
\* link was read before the payment committed.
RegressOnlyOnStaleRead ==
    [][\A l \in Link : linkStatus[l] = "PAID" /\ linkStatus'[l] # "PAID" =>
           \E w \in Worker : linkLock[l] = w /\ seen[w] # "PAID"]_vars

\* A refund is undone only by charge.paid, which the guard does not see, or by a
\* handler whose copy of the link was read before the refund committed.
RefundUndoneOnlyByCharge ==
    [][\A l \in Link : linkStatus[l] = "REFUNDED" /\ linkStatus'[l] # "REFUNDED" =>
           \E w \in Worker : /\ linkLock[l] = w
                             /\ seen[w] # "REFUNDED" \/ content[cur[w]].type = "charge.paid"]_vars

\* With one delivery processed at a time, no event but a refund takes a link away
\* from PAID, whatever the order of the events and wherever the thread dies.
PaidNeverRegresses ==
    [][\A l \in Link : linkStatus[l] = "PAID" /\ linkStatus'[l] # "PAID" =>
           \E w \in Worker : /\ linkLock[l] = w
                             /\ content[cur[w]].type = "charge.refunded"]_vars

\* With one delivery processed at a time, all the events of an order share one
\* attempt, although no constraint of the table says so.
OneAttemptPerOrder ==
    \A a, b \in AttemptId :
        /\ attempt[a] # NoAttempt /\ attempt[b] # NoAttempt
        /\ attempt[a].link = attempt[b].link
        /\ attempt[a].order = attempt[b].order
        /\ attempt[a].order # NoId
        => a = b

\* process_webhook_event gets past the lines that may raise outside its try.
Processable(e) ==
    EVENT_MAP[content[e].type].action = "ignore" \/ content[e].link # Raises

\* w is on its way to queue the approval of link l.
Approves(w, l) ==
    /\ pc[w] \in {"whatsapp", "insert", "push"}
    /\ LinkOf(w) = l
    /\ NoticeOf(w) = "payment_approved"

\* While no thread dies, what is still to be done is in some thread's hands: an
\* event that is RECEIVED, and that the lines before the try do not raise on, is
\* being processed, a PAID link without its WhatsApp
\* message has a thread between the commit and the insert, and one with it has
\* its push as well or a thread about to queue it.  No early return, rollback,
\* duplicate message or clash of the unique key drops the last of them.
NothingIsForgotten ==
    /\ \A e \in Event : eventStatus[e] = "RECEIVED" /\ Processable(e) =>
          \E w \in Worker : pc[w] \in {"screen"} \union InTransaction /\ cur[w] = e
    /\ \A l \in Link : linkStatus[l] = "PAID" =>
          \/ outbox[l]["payment_approved"] # "ABSENT"
          \/ \E w \in Worker : Approves(w, l) /\ pc[w] # "push"
    /\ \A l \in Link : outbox[l]["payment_approved"] # "ABSENT" =>
          \/ <<l, "payment_approved", NoId>> \in push
          \/ \E w \in Worker : Approves(w, l) /\ pc[w] = "push"

-----------------------------------------------------------------------------
(* Liveness                                                                 *)

\* Without crashes every stored event that normalize_event and _find_payment_link
\* do not raise on leaves RECEIVED: ignored events, blocked events, deadlock victims
\* and clashes of the unique key included.
EveryEventSettles ==
    \A e \in Event :
        eventStatus[e] = "RECEIVED" /\ Processable(e) ~> eventStatus[e] # "RECEIVED"

\* "A tabela NotificationOutbox evita perder mensagens depois de um pagamento
\* aprovado": a paid link ends up with its WhatsApp message and its push queued.
PaidIsNotified ==
    \A l \in Link : linkStatus[l] = "PAID" ~>
        /\ outbox[l]["payment_approved"] # "ABSENT"
        /\ <<l, "payment_approved", NoId>> \in push

-----------------------------------------------------------------------------
(* What the documents say and the code does not do                          *)

\* "Estorno integral altera para REFUNDED": a refund of a link that was paid is
\* not dropped as IGNORED.
RefundOfPaidIsNotIgnored ==
    [][\A e \in Event :
           /\ content[e].type = "charge.refunded"
           /\ content[e].link \in Link
           /\ eventStatus[e] = "RECEIVED" /\ eventStatus'[e] = "IGNORED"
           => linkStatus[content[e].link] # "PAID"]_vars

\* "Ordem de eventos fora de sequência não regride estado final": a refunded link
\* stays refunded when its events come out of order, one at a time.
RefundedIsFinal ==
    [][\A l \in Link : linkStatus[l] = "REFUNDED" => linkStatus'[l] = "REFUNDED"]_vars

\* "O vendedor recebe uma notificacao": once the approval was delivered it is
\* not queued again.
ApprovalSentOnce ==
    [][\A l \in Link : outbox[l]["payment_approved"] = "DONE" =>
                          outbox'[l]["payment_approved"] = "DONE"]_vars
=============================================================================
