------------------------ MODULE PagarmeWebhookProofs ------------------------
(***************************************************************************)
(* Theorems of PagarmeWebhook, for any number of threads, events, links,   *)
(* attempts and payloads.                                                  *)
(*                                                                         *)
(* The inductive invariant is IInv.  None of the properties is inductive:  *)
(* what a transaction may write depends on the guard it passed several     *)
(* statements ago, on the attempt its lookup returned and on the locks it  *)
(* took, and ControlInv, LockOrder and QueueInv say what of that is still  *)
(* true at each label of process_webhook_event.                            *)
(***************************************************************************)
EXTENDS PagarmeWebhook, TLAPS

\* A thread beyond the guard works on a stored event of an existing link, its
\* copy of the link passed the guard, and its attempt is a row of that link.
Control(w) ==
    /\ pc[w] # "idle" => cur[w] \in Event /\ eventStatus[cur[w]] # "ABSENT"
    /\ pc[w] \notin {"idle", "screen"} =>
          LinkOf(w) \in Link /\ Cfg(w).action # "ignore"
    /\ pc[w] \in InTransaction /\ Cfg(w).link_status # "none" =>
          seen[w] \notin NO_REGRESS_STATES
    /\ pc[w] = "link" /\ Cfg(w).action = "create_attempt" =>
          Cfg(w).attempt_status = "PAID"
    /\ pc[w] \in {"find", "attempt"} => TouchesAttempt(w)
    /\ found[w] # NoAttempt =>
          /\ pc[w] \notin {"idle", "screen"}
          /\ attempt[found[w]] # NoAttempt
          /\ attempt[found[w]].link = LinkOf(w)

ControlInv == \A w \in Worker : Control(w)

\* The order in which a handler takes its locks: create_attempt the attempt and
\* then, for charge.paid only, the link; the others the link first; and none waits
\* for a row of its own.
LockOrder ==
    /\ \A l \in Link, w \in Worker : linkLock[l] = w =>
          /\ pc[w] # "link"
          /\ Cfg(w).action = "create_attempt" =>
                pc[w] = "commit" /\ Cfg(w).attempt_status = "PAID"
          /\ pc[w] \in {"find", "attempt"} =>
                Cfg(w).action \in {"mark_paid", "mark_refunded"}
    /\ \A a \in AttemptId, w \in Worker :
          attemptLock[a] = w /\ pc[w] = "link" => Cfg(w).action = "create_attempt"

\* A thread whose handler touched an attempt reaches its callbacks only after
\* the status it gives the attempt was committed, for the charge of its event.
QueueInv ==
    \A w \in Worker :
        pc[w] \in {"whatsapp", "insert", "push"} /\ TouchesAttempt(w) =>
            <<LinkOf(w), Cfg(w).attempt_status, ChargeOf(w)>> \in recorded

IInv ==
    /\ TypeOK
    /\ ControlInv
    /\ LockInv /\ LockOrder
    /\ PaidHasEvidence
    /\ QueueInv /\ NoticesAreBacked

\* With a single thread, what it read of its link is still what is committed.
FreshRead ==
    \A w \in Worker : pc[w] \in InTransaction => seen[w] = linkStatus[LinkOf(w)]

-----------------------------------------------------------------------------
(* Facts about EVENT_MAP and about the event a thread holds                 *)

\* The shapes an entry of EVENT_MAP can have.
IsConfig(c) ==
    \/ c = Config("mark_paid", "PAID", "PAID")
    \/ c = Config("mark_canceled", "CANCELED", "none")
    \/ c = Config("mark_expired", "EXPIRED", "none")
    \/ c = Config("mark_refunded", "REFUNDED", "REFUNDED")
    \/ c = Config("ignore", "none", "none")
    \/ \E s \in {"PAID", "FAILED", "CHARGEDBACK"} : c = Config("create_attempt", "none", s)

\* Every entry of EVENT_MAP has one of those shapes, and only order.paid and
\* charge.paid record a payment.
LEMMA ConfigShapes ==
    \A t \in EventType :
        /\ IsConfig(EVENT_MAP[t])
        /\ EVENT_MAP[t].attempt_status = "PAID" => t \in {"order.paid", "charge.paid"}
<1> SUFFICES ASSUME NEW t \in EventType
             PROVE  /\ IsConfig(EVENT_MAP[t])
                    /\ EVENT_MAP[t].attempt_status = "PAID" =>
                          t \in {"order.paid", "charge.paid"}
  OBVIOUS
<1>1. CASE t = "order.paid"
  <2>1. EVENT_MAP[t] = Config("mark_paid", "PAID", "PAID")
    BY <1>1 DEF EVENT_MAP
  <2>2. QED BY <1>1, <2>1 DEF IsConfig, Config
<1>2. CASE t = "charge.paid"
  <2>1. EVENT_MAP[t] = Config("create_attempt", "none", "PAID")
    BY <1>2 DEF EVENT_MAP
  <2>2. QED BY <1>2, <2>1 DEF IsConfig, Config
<1>3. CASE t = "order.payment_failed"
  <2>1. EVENT_MAP[t] = Config("create_attempt", "none", "FAILED")
    BY <1>3 DEF EVENT_MAP
  <2>2. QED BY <1>3, <2>1 DEF IsConfig, Config
<1>4. CASE t = "charge.chargedback"
  <2>1. EVENT_MAP[t] = Config("create_attempt", "none", "CHARGEDBACK")
    BY <1>4 DEF EVENT_MAP
  <2>2. QED BY <1>4, <2>1 DEF IsConfig, Config
<1>5. CASE t = "order.canceled"
  <2>1. EVENT_MAP[t] = Config("mark_canceled", "CANCELED", "none")
    BY <1>5 DEF EVENT_MAP
  <2>2. QED BY <1>5, <2>1 DEF IsConfig, Config
<1>6. CASE t = "order.closed"
  <2>1. EVENT_MAP[t] = Config("mark_expired", "EXPIRED", "none")
    BY <1>6 DEF EVENT_MAP
  <2>2. QED BY <1>6, <2>1 DEF IsConfig, Config
<1>7. CASE t = "charge.refunded"
  <2>1. EVENT_MAP[t] = Config("mark_refunded", "REFUNDED", "REFUNDED")
    BY <1>7 DEF EVENT_MAP
  <2>2. QED BY <1>7, <2>1 DEF IsConfig, Config
<1>8. CASE t = "order.created"
  <2>1. EVENT_MAP[t] = Config("ignore", "none", "none")
    BY <1>8 DEF EVENT_MAP
  <2>2. QED BY <1>8, <2>1 DEF IsConfig, Config
<1>9. QED BY <1>1, <1>2, <1>3, <1>4, <1>5, <1>6, <1>7, <1>8 DEF EventType

\* The same of the event a thread holds, with the types of its payload.
LEMMA CurrentEvent ==
    ASSUME TypeOK, NEW w \in Worker, cur[w] \in Event
    PROVE  /\ content[cur[w]] \in Normalized
           /\ LinkOf(w) \in Link \union {NoLink, Raises}
           /\ IsConfig(Cfg(w))
           /\ Cfg(w).attempt_status = "PAID" =>
                content[cur[w]].type \in {"order.paid", "charge.paid"}
<1>1. content[cur[w]] \in Normalized
  BY DEF TypeOK
<1>2. content[cur[w]].type \in EventType /\ LinkOf(w) \in Link \union {NoLink, Raises}
  BY <1>1 DEF Normalized, LinkOf
<1>3. QED
  BY <1>1, <1>2, ConfigShapes DEF Cfg

\* What a configuration's action says of its two statuses.
LEMMA ConfigFields ==
    ASSUME NEW c, IsConfig(c)
    PROVE  /\ c.action = "create_attempt" =>
                c.link_status = "none" /\ c.attempt_status \in {"PAID", "FAILED", "CHARGEDBACK"}
           /\ c.action = "mark_paid" => c.link_status = "PAID" /\ c.attempt_status = "PAID"
           /\ c.action = "mark_refunded" =>
                c.link_status = "REFUNDED" /\ c.attempt_status = "REFUNDED"
           /\ c.action = "mark_canceled" => c.link_status = "CANCELED" /\ c.attempt_status = "none"
           /\ c.action = "mark_expired" => c.link_status = "EXPIRED" /\ c.attempt_status = "none"
           /\ c.action \in {"create_attempt", "mark_paid", "mark_refunded",
                            "mark_canceled", "mark_expired", "ignore"}
BY DEF IsConfig, Config

-----------------------------------------------------------------------------
(* Type correctness                                                         *)

\* NoticeOf is a notice the outbox knows.
LEMMA NoticeType ==
    ASSUME TypeOK, NEW w \in Worker, cur[w] \in Event, Cfg(w).action # "ignore"
    PROVE  NoticeOf(w) \in Notice
<1>1. IsConfig(Cfg(w))
  BY CurrentEvent
<1>2. \/ Cfg(w).action = "mark_canceled"
      \/ Cfg(w).action = "mark_expired"
      \/ Cfg(w).attempt_status \in {"PAID", "FAILED", "REFUNDED", "CHARGEDBACK"}
  BY <1>1, ConfigFields
<1>3. CASE Cfg(w).action = "mark_canceled"
  BY <1>3 DEF NoticeOf, Notice
<1>4. CASE Cfg(w).action = "mark_expired"
  BY <1>4 DEF NoticeOf, Notice
<1>5. CASE /\ Cfg(w).action \notin {"mark_canceled", "mark_expired"}
           /\ Cfg(w).attempt_status = "PAID"
  BY <1>5 DEF NoticeOf, Notice
<1>6. CASE /\ Cfg(w).action \notin {"mark_canceled", "mark_expired"}
           /\ Cfg(w).attempt_status = "FAILED"
  BY <1>6 DEF NoticeOf, Notice
<1>7. CASE /\ Cfg(w).action \notin {"mark_canceled", "mark_expired"}
           /\ Cfg(w).attempt_status = "REFUNDED"
  BY <1>7 DEF NoticeOf, Notice
<1>8. CASE /\ Cfg(w).action \notin {"mark_canceled", "mark_expired"}
           /\ Cfg(w).attempt_status = "CHARGEDBACK"
  BY <1>8 DEF NoticeOf, Notice
<1>9. QED BY <1>2, <1>3, <1>4, <1>5, <1>6, <1>7, <1>8

\* The initial state is well typed.
LEMMA InitType == Init => TypeOK
<1> SUFFICES ASSUME Init PROVE TypeOK
  OBVIOUS
<1>1. (CHOOSE p \in Payload : TRUE) \in Normalized
  BY ConstantsAssumption
<1>2. content \in [Event -> Normalized]
  BY <1>1 DEF Init
<1>3. outbox \in [Link -> [Notice -> OutboxStatus]]
  BY DEF Init, OutboxStatus
<1>4. QED
  BY <1>2, <1>3 DEF Init, TypeOK, EventStatus, LinkStatus, PC

\* The end of a transaction of w leaves the lock tables well typed.
LEMMA ReleaseType ==
    ASSUME TypeOK, NEW w \in Worker, ReleaseLocks(w)
    PROVE  /\ linkLock' \in [Link -> Worker \union {NoWorker}]
           /\ attemptLock' \in [AttemptId -> Worker \union {NoWorker}]
BY DEF TypeOK, ReleaseLocks

\* process_webhook_event returns into a well-typed local state.
LEMMA FinishType ==
    ASSUME TypeOK, NEW w \in Worker, Finish(w)
    PROVE  /\ pc' \in [Worker -> PC]
           /\ cur' \in [Worker -> Event \union {NoEvent}]
           /\ seen' \in [Worker -> LinkStatus]
           /\ found' \in [Worker -> AttemptId \union {NoAttempt}]
BY DEF TypeOK, Finish, PC, LinkStatus

\* The attempt row a commit leaves is well typed.
LEMMA SavedType ==
    ASSUME TypeOK, ControlInv, NEW w \in Worker, pc[w] = "commit", TouchesAttempt(w),
           NEW a \in AttemptId, attempt[a] # NoAttempt \/ found[w] = NoAttempt,
           found[w] # NoAttempt => a = found[w]
    PROVE  /\ SavedAttempts(w, a) \in [AttemptId -> AttemptRow \union {NoAttempt}]
           /\ SavedAttempts(w, a)[a] # NoAttempt
           /\ SavedAttempts(w, a)[a].link = LinkOf(w)
           /\ SavedAttempts(w, a)[a].status = Cfg(w).attempt_status
           /\ \A b \in AttemptId \ {a} : SavedAttempts(w, a)[b] = attempt[b]
<1>1. cur[w] \in Event /\ LinkOf(w) \in Link
  BY DEF ControlInv, Control, TypeOK
<1>2. content[cur[w]] \in Normalized /\ IsConfig(Cfg(w))
  BY <1>1, CurrentEvent
<1>3. Cfg(w).attempt_status \in AttemptStatus
  BY <1>2, ConfigFields DEF TouchesAttempt, AttemptStatus
<1>4. /\ content[cur[w]].order \in OrderId \union {NoId}
      /\ ChargeOf(w) \in ChargeId \union {NoId}
  BY <1>2 DEF Normalized, ChargeOf
<1> DEFINE new == [link   |-> LinkOf(w),
                   order  |-> content[cur[w]].order,
                   charge |-> ChargeOf(w),
                   status |-> Cfg(w).attempt_status]
<1>5. new \in AttemptRow /\ new.link = LinkOf(w) /\ new.status = Cfg(w).attempt_status
  BY <1>1, <1>3, <1>4 DEF AttemptRow
<1>6. /\ attempt \in [AttemptId -> AttemptRow \union {NoAttempt}]
      /\ NoAttempt \notin AttemptRow
  BY ConstantsAssumption DEF TypeOK
<1>7. CASE found[w] = NoAttempt
  <2>1. SavedAttempts(w, a) = [attempt EXCEPT ![a] = new]
    BY <1>7 DEF SavedAttempts
  <2> HIDE DEF new
  <2>2. QED
    BY <2>1, <1>5, <1>6
<1>8. CASE found[w] # NoAttempt
  <2>1. attempt[a] \in AttemptRow /\ attempt[a].link = LinkOf(w)
    BY <1>6, <1>8 DEF ControlInv, Control
  <2> DEFINE row == [attempt[a] EXCEPT !.status = Cfg(w).attempt_status]
  <2>2. row \in AttemptRow /\ row.link = LinkOf(w) /\ row.status = Cfg(w).attempt_status
    BY <2>1, <1>3 DEF AttemptRow
  <2>3. SavedAttempts(w, a) = [attempt EXCEPT ![a] = row]
    BY <1>8 DEF SavedAttempts
  <2> HIDE DEF row
  <2>4. QED
    BY <2>2, <2>3, <1>6
<1>9. QED BY <1>7, <1>8

\* What the commit of a handler that touches an attempt writes.
LEMMA CommitWrites ==
    ASSUME TypeOK, ControlInv, NEW w \in Worker, Commit(w), TouchesAttempt(w)
    PROVE  /\ attempt' \in [AttemptId -> AttemptRow \union {NoAttempt}]
           /\ \E a \in AttemptId : attempt'[a] # NoAttempt /\ attempt'[a].link = LinkOf(w)
           /\ recorded' = recorded \union
                  {<<LinkOf(w), Cfg(w).attempt_status, ChargeOf(w)>>}
           /\ recorded' \subseteq Link \X AttemptStatus \X (ChargeId \union {NoId})
<1>1. PICK a \in AttemptId : /\ attempt' = SavedAttempts(w, a)
                             /\ recorded' = recorded \union
                                   {<<attempt'[a].link, attempt'[a].status, ChargeOf(w)>>}
                             /\ found[w] # NoAttempt => a = found[w]
  BY DEF Commit, TypeOK
<1>2. pc[w] = "commit" /\ (attempt[a] # NoAttempt \/ found[w] = NoAttempt)
  BY <1>1 DEF Commit, ControlInv, Control
<1>3. /\ attempt' \in [AttemptId -> AttemptRow \union {NoAttempt}]
      /\ attempt'[a] # NoAttempt
      /\ attempt'[a].link = LinkOf(w)
      /\ attempt'[a].status = Cfg(w).attempt_status
  BY <1>1, <1>2, SavedType
<1>4. cur[w] \in Event /\ LinkOf(w) \in Link
  BY <1>2 DEF ControlInv, Control
<1>5. IsConfig(Cfg(w)) /\ ChargeOf(w) \in ChargeId \union {NoId}
  BY <1>4, CurrentEvent DEF Normalized, ChargeOf
<1>6. Cfg(w).attempt_status \in AttemptStatus
  BY <1>5, ConfigFields DEF TouchesAttempt, AttemptStatus
<1>7. QED
  BY <1>1, <1>3, <1>4, <1>5, <1>6 DEF TypeOK

\* Every step keeps the types.
LEMMA TypeStep ==
    ASSUME TypeOK, ControlInv, [Next]_vars
    PROVE  TypeOK'
<1> USE DEF TypeOK
<1>1. ASSUME NEW w \in Worker, NEW e \in Event, NEW p \in Payload, Receive(w, e, p)
      PROVE  TypeOK'
  <2>1. p \in Normalized
    BY ConstantsAssumption
  <2>2. QED
    BY <1>1, <2>1 DEF Receive, Goto, PC, EventStatus, rows, locks, queues
<1>2. ASSUME NEW w \in Worker, NEW e \in Event, Redeliver(w, e)
      PROVE  TypeOK'
  BY <1>2 DEF Redeliver, Goto, PC, rows, locks, queues
<1>3. ASSUME NEW w \in Worker, NEW e \in Event, Reprocess(w, e)
      PROVE  TypeOK'
  BY <1>3 DEF Reprocess, Goto, PC, EventStatus, rows, locks, queues
<1>4. ASSUME NEW w \in Worker, Ignore(w)
      PROVE  TypeOK'
  <2>1. eventStatus' \in [Event -> EventStatus]
    BY <1>4 DEF Ignore, Raise, SetEvent, EventStatus
  <2>2. QED
    BY <1>4, <2>1, FinishType DEF Ignore, Raise, rows, locks, queues
<1>4a. ASSUME NEW w \in Worker, Raise(w)
       PROVE  TypeOK'
  BY <1>4a, FinishType DEF Raise, rows, locks, queues
<1>5. ASSUME NEW w \in Worker, Begin(w)
      PROVE  TypeOK'
  <2>1. LinkOf(w) \in Link
    BY <1>5 DEF Begin
  <2>2. FirstStatement(w, linkStatus[LinkOf(w)]) \in PC
    BY DEF FirstStatement, PC
  <2>3. QED
    BY <1>5, <2>1, <2>2 DEF Begin, Goto, rows, locks, queues
<1>6. ASSUME NEW w \in Worker, UpdateLink(w)
      PROVE  TypeOK'
  <2>1. LinkOf(w) \in Link /\ AfterLink(w) \in PC
    BY <1>6 DEF UpdateLink, ControlInv, Control, AfterLink, PC
  <2>2. QED
    BY <1>6, <2>1 DEF UpdateLink, Goto, rows, queues, local
<1>7. ASSUME NEW w \in Worker, FindAttempt(w)
      PROVE  TypeOK'
  <2>1. Matches(w) \subseteq AttemptId
    BY DEF Matches, ByOrder, ByCharge
  <2>2. QED
    BY <1>7, <2>1 DEF FindAttempt, Goto, PC, rows, locks, queues
<1>8. ASSUME NEW w \in Worker, WriteAttempt(w)
      PROVE  TypeOK'
  <2>1. AfterAttempt(w) \in PC
    BY DEF AfterAttempt, PC
  <2>2. QED
    BY <1>8, <2>1 DEF WriteAttempt, Goto, rows, queues, local
<1>9. ASSUME NEW w \in Worker, Commit(w)
      PROVE  TypeOK'
  <2>1. /\ cur[w] \in Event
        /\ LinkOf(w) \in Link
        /\ Cfg(w).action # "ignore"
        /\ IsConfig(Cfg(w))
    BY <1>9, CurrentEvent DEF Commit, ControlInv, Control
  <2>2. NewLinkStatus(w) \in LinkStatus
    BY <2>1, ConfigFields DEF NewLinkStatus, LinkStatus, FINAL_STATES
  <2>3. linkStatus' \in [Link -> LinkStatus]
    BY <1>9, <2>2 DEF Commit
  <2>4. /\ attempt' \in [AttemptId -> AttemptRow \union {NoAttempt}]
        /\ recorded' \subseteq Link \X AttemptStatus \X (ChargeId \union {NoId})
    BY <1>9, <2>1, CommitWrites DEF Commit, rows
  <2>5. eventStatus' \in [Event -> EventStatus]
    BY <1>9, <2>1 DEF Commit, SetEvent, EventStatus
  <2>6. /\ pc' \in [Worker -> PC]
        /\ cur' \in [Worker -> Event \union {NoEvent}]
        /\ seen' \in [Worker -> LinkStatus]
        /\ found' \in [Worker -> AttemptId \union {NoAttempt}]
    BY <1>9, FinishType DEF Commit, Goto, PC, local
  <2>7. QED
    BY <1>9, <2>3, <2>4, <2>5, <2>6, ReleaseType DEF Commit, queues
<1>10. ASSUME NEW w \in Worker, Abort(w)
       PROVE  TypeOK'
  <2>1. eventStatus' \in [Event -> EventStatus]
    BY <1>10 DEF Abort, SetEvent, EventStatus
  <2>2. QED
    BY <1>10, <2>1, FinishType, ReleaseType DEF Abort, rows, queues
<1>11. ASSUME NEW w \in Worker, CheckOutbox(w)
       PROVE  TypeOK'
  BY <1>11 DEF CheckOutbox, Goto, PC, rows, locks, queues, local
<1>12. ASSUME NEW w \in Worker, InsertOutbox(w)
       PROVE  TypeOK'
  BY <1>12 DEF InsertOutbox, Goto, PC, OutboxStatus, rows, locks, local
<1>13. ASSUME NEW w \in Worker, InsertClash(w)
       PROVE  TypeOK'
  <2>1. eventStatus' \in [Event -> EventStatus]
    BY <1>13 DEF InsertClash, SetEvent, EventStatus
  <2>2. QED
    BY <1>13, <2>1, FinishType DEF InsertClash, rows, locks, queues
<1>14. ASSUME NEW w \in Worker, QueuePush(w)
       PROVE  TypeOK'
  <2>1. /\ cur[w] \in Event
        /\ LinkOf(w) \in Link
        /\ ChargeOf(w) \in ChargeId \union {NoId}
    BY <1>14, CurrentEvent DEF QueuePush, ControlInv, Control, Normalized, ChargeOf
  <2>2. NoticeOf(w) \in Notice
    BY <1>14, <2>1, NoticeType DEF QueuePush, ControlInv, Control
  <2>3. PushKey(w) \in Link \X Notice \X (ChargeId \union {NoId})
    BY <2>1, <2>2 DEF PushKey
  <2>4. QED
    BY <1>14, <2>3, FinishType DEF QueuePush, rows, locks
<1>15. ASSUME NEW w \in Worker, Crash(w)
       PROVE  TypeOK'
  BY <1>15, FinishType, ReleaseType DEF Crash, rows, queues
<1>16. ASSUME NEW l \in Link, NEW n \in Notice, Deliver(l, n)
       PROVE  TypeOK'
  BY <1>16 DEF Deliver, OutboxStatus, rows, locks, local
<1>17. CASE UNCHANGED vars
  BY <1>17 DEF vars
<1>18. QED
  BY <1>1, <1>2, <1>3, <1>4, <1>4a, <1>5, <1>6, <1>7, <1>8, <1>9, <1>10, <1>11, <1>12,
     <1>13, <1>14, <1>15, <1>16, <1>17
  DEF Next, Running, Deliveries, Step, DeadlockVictim

-----------------------------------------------------------------------------
(* What one step leaves alone                                               *)

\* The steps taken by thread w.
ActsFor(w) ==
    \/ Step(w) \/ Abort(w) \/ Crash(w)
    \/ \E e \in Event : \/ \E p \in Payload : Receive(w, e, p)
                        \/ Redeliver(w, e) \/ Reprocess(w, e)

\* Every step is one of a thread, a delivery by the outbox worker or a stutter.
LEMMA StepCases ==
    ASSUME [Next]_vars
    PROVE  \/ \E w \in Worker : ActsFor(w)
           \/ \E l \in Link, n \in Notice : Deliver(l, n)
           \/ UNCHANGED vars
BY DEF Next, Running, Deliveries, ActsFor

\* Stored events keep their payload, and attempt rows their link.
LEMMA Durable ==
    ASSUME TypeOK, ControlInv, [Next]_vars
    PROVE  /\ \A e \in Event : eventStatus[e] # "ABSENT" =>
                eventStatus'[e] # "ABSENT" /\ content'[e] = content[e]
           /\ \A a \in AttemptId : attempt[a] # NoAttempt =>
                attempt'[a] # NoAttempt /\ attempt'[a].link = attempt[a].link
<1>1. ASSUME NEW w \in Worker, Commit(w)
      PROVE  \A a \in AttemptId : attempt[a] # NoAttempt =>
                attempt'[a] # NoAttempt /\ attempt'[a].link = attempt[a].link
  <2>1. CASE TouchesAttempt(w)
    <3>1. PICK a \in AttemptId : /\ attempt' = SavedAttempts(w, a)
                                 /\ found[w] # NoAttempt => a = found[w]
                                 /\ found[w] = NoAttempt => attempt[a] = NoAttempt
      BY <1>1, <2>1 DEF Commit, TypeOK
    <3>2. attempt[a] # NoAttempt => found[w] = a /\ attempt[a].link = LinkOf(w)
      BY <3>1 DEF ControlInv, Control
    <3>3. /\ attempt'[a] # NoAttempt
          /\ attempt'[a].link = LinkOf(w)
          /\ \A b \in AttemptId \ {a} : attempt'[b] = attempt[b]
      BY <1>1, <2>1, <3>1, SavedType DEF ControlInv, Control, Commit
    <3>4. QED BY <3>2, <3>3
  <2>2. CASE ~TouchesAttempt(w)
    BY <1>1, <2>2 DEF Commit
  <2>3. QED BY <2>1, <2>2
<1>2. ASSUME NEW w \in Worker, ActsFor(w), ~Commit(w)
      PROVE  attempt' = attempt
  BY <1>2 DEF ActsFor, Step, DeadlockVictim, Receive, Redeliver, Reprocess, Ignore, Raise,
     Begin, UpdateLink, FindAttempt, WriteAttempt, Abort, CheckOutbox, InsertOutbox,
     InsertClash, QueuePush, Crash, rows
<1>3. ASSUME NEW w \in Worker, ActsFor(w)
      PROVE  \A e \in Event : eventStatus[e] # "ABSENT" =>
                eventStatus'[e] # "ABSENT" /\ content'[e] = content[e]
  BY <1>3 DEF ActsFor, Step, DeadlockVictim, Receive, Redeliver, Reprocess, Ignore, Raise,
     Begin, UpdateLink, FindAttempt, WriteAttempt, Commit, Abort, CheckOutbox,
     InsertOutbox, InsertClash, QueuePush, Crash, SetEvent, TypeOK
<1>4. QED
  BY <1>1, <1>2, <1>3, StepCases DEF Deliver, vars, rows

\* A step of w leaves every other thread where it was, with what it holds.
LEMMA Frame ==
    ASSUME TypeOK, ControlInv, [Next]_vars,
           NEW w \in Worker, ActsFor(w), NEW v \in Worker, v # w
    PROVE  /\ pc'[v] = pc[v] /\ cur'[v] = cur[v]
           /\ seen'[v] = seen[v] /\ found'[v] = found[v]
           /\ pc[v] # "idle" => Cfg(v)' = Cfg(v) /\ LinkOf(v)' = LinkOf(v)
                                /\ TouchesAttempt(v)' = TouchesAttempt(v)
<1>1. /\ pc'[v] = pc[v] /\ cur'[v] = cur[v]
      /\ seen'[v] = seen[v] /\ found'[v] = found[v]
  BY DEF ActsFor, Step, DeadlockVictim, Receive, Redeliver, Reprocess, Ignore, Raise,
     Begin, UpdateLink, FindAttempt, WriteAttempt, Commit, Abort, CheckOutbox,
     InsertOutbox, InsertClash, QueuePush, Crash, Finish, Goto, local, TypeOK
<1>2. pc[v] # "idle" => content'[cur'[v]] = content[cur[v]]
  BY <1>1, Durable DEF ControlInv, Control
<1>3. QED
  BY <1>1, <1>2 DEF Cfg, LinkOf, TouchesAttempt

\* A thread that keeps its event keeps what it knows of it.
LEMMA SameEvent ==
    ASSUME TypeOK, ControlInv, [Next]_vars,
           NEW w \in Worker, pc[w] # "idle", cur'[w] = cur[w]
    PROVE  /\ Cfg(w)' = Cfg(w) /\ LinkOf(w)' = LinkOf(w)
           /\ TouchesAttempt(w)' = TouchesAttempt(w)
           /\ NoticeOf(w)' = NoticeOf(w) /\ ChargeOf(w)' = ChargeOf(w)
           /\ eventStatus'[cur[w]] # "ABSENT"
<1>1. /\ content'[cur'[w]] = content[cur[w]]
      /\ eventStatus'[cur[w]] # "ABSENT"
  BY Durable DEF ControlInv, Control
<1>2. Cfg(w)' = Cfg(w) /\ LinkOf(w)' = LinkOf(w)
  BY <1>1 DEF Cfg, LinkOf
<1>3. QED
  BY <1>1, <1>2 DEF TouchesAttempt, NoticeOf, ChargeOf

-----------------------------------------------------------------------------
(* ControlInv is inductive                                                  *)

\* A thread that has returned holds nothing.
LEMMA FinishControl ==
    ASSUME TypeOK, NEW w \in Worker, Finish(w)
    PROVE  Control(w)'
BY DEF Finish, Control, TypeOK, InTransaction

\* Every step keeps ControlInv.
LEMMA ControlStep ==
    ASSUME TypeOK, ControlInv, [Next]_vars
    PROVE  ControlInv'
<1>1. ASSUME NEW w \in Worker, ActsFor(w), NEW v \in Worker, v # w
      PROVE  Control(v)'
  <2>1. Control(v)
    BY DEF ControlInv
  <2>2. /\ pc'[v] = pc[v] /\ cur'[v] = cur[v]
        /\ seen'[v] = seen[v] /\ found'[v] = found[v]
        /\ pc[v] # "idle" => Cfg(v)' = Cfg(v) /\ LinkOf(v)' = LinkOf(v)
                             /\ TouchesAttempt(v)' = TouchesAttempt(v)
    BY <1>1, Frame
  <2>3. found[v] \in AttemptId \union {NoAttempt}
    BY DEF TypeOK
  <2>4. QED
    BY <2>1, <2>2, <2>3, Durable DEF Control, InTransaction
<1>2. ASSUME NEW w \in Worker, ActsFor(w)
      PROVE  Control(w)'
  <2> SUFFICES ASSUME ~Finish(w)
               PROVE  Control(w)'
    BY FinishControl
  <2>1. Control(w) /\ found[w] \in AttemptId \union {NoAttempt}
    BY DEF ControlInv, TypeOK
  <2>2. ASSUME NEW e \in Event, NEW p \in Payload, Receive(w, e, p)
        PROVE  Control(w)'
    BY <2>1, <2>2 DEF Receive, Goto, Control, InTransaction, TypeOK
  <2>3. ASSUME NEW e \in Event, Redeliver(w, e) \/ Reprocess(w, e)
        PROVE  Control(w)'
    BY <2>1, <2>3 DEF Redeliver, Reprocess, Goto, Control, InTransaction, TypeOK
  <2>4. CASE Begin(w)
    <3>1. cur'[w] = cur[w] /\ pc[w] # "idle" /\ cur[w] \in Event
      BY <2>1, <2>4 DEF Begin, Control
    <3>2. /\ Cfg(w)' = Cfg(w) /\ LinkOf(w)' = LinkOf(w)
          /\ TouchesAttempt(w)' = TouchesAttempt(w)
          /\ eventStatus'[cur[w]] # "ABSENT"
      BY <3>1, SameEvent
    <3>3. LinkOf(w) \in Link /\ IsConfig(Cfg(w))
      BY <3>1, <2>4, CurrentEvent DEF Begin
    <3>4. /\ pc'[w] = FirstStatement(w, linkStatus[LinkOf(w)])
          /\ seen'[w] = linkStatus[LinkOf(w)]
          /\ found'[w] = NoAttempt
          /\ ~Blocked(Cfg(w), linkStatus[LinkOf(w)])
          /\ Cfg(w).action # "ignore"
      BY <2>4 DEF Begin, Goto, TypeOK
    <3>5. pc'[w] = "link" => Cfg(w).action # "create_attempt"
      BY <3>4 DEF FirstStatement
    <3>6. pc'[w] \in {"find", "attempt"} => TouchesAttempt(w)
      BY <3>4 DEF FirstStatement, TouchesAttempt
    <3>7. pc'[w] \notin {"idle", "screen"}
      BY <3>4 DEF FirstStatement
    <3>8. QED
      BY <3>1, <3>2, <3>3, <3>4, <3>5, <3>6, <3>7 DEF Control, Blocked
  <2>5. CASE UpdateLink(w)
    <3>1. /\ cur'[w] = cur[w] /\ pc[w] = "link" /\ pc'[w] = AfterLink(w)
          /\ found'[w] = found[w] /\ seen'[w] = seen[w]
      BY <2>5 DEF UpdateLink, Goto, local, TypeOK
    <3>2. /\ Cfg(w)' = Cfg(w) /\ LinkOf(w)' = LinkOf(w)
          /\ TouchesAttempt(w)' = TouchesAttempt(w)
          /\ eventStatus'[cur[w]] # "ABSENT"
      BY <3>1, SameEvent
    <3>3. /\ pc'[w] \in {"find", "commit"}
          /\ pc'[w] = "find" => TouchesAttempt(w)
      BY <3>1 DEF AfterLink, TouchesAttempt
    <3>4. QED
      BY <2>1, <3>1, <3>2, <3>3, Durable DEF Control, InTransaction
  <2>6. CASE FindAttempt(w)
    <3>1. /\ cur'[w] = cur[w] /\ pc[w] = "find" /\ pc'[w] = "attempt"
          /\ seen'[w] = seen[w] /\ attempt' = attempt
          /\ found'[w] = NoAttempt \/ found'[w] \in Matches(w)
      BY <2>6 DEF FindAttempt, Goto, TypeOK, rows
    <3>2. /\ Cfg(w)' = Cfg(w) /\ LinkOf(w)' = LinkOf(w)
          /\ TouchesAttempt(w)' = TouchesAttempt(w)
          /\ eventStatus'[cur[w]] # "ABSENT"
      BY <3>1, SameEvent
    <3>3. \A a \in Matches(w) : attempt[a] # NoAttempt /\ attempt[a].link = LinkOf(w)
      BY DEF Matches, ByOrder, ByCharge
    <3>4. QED
      BY <2>1, <3>1, <3>2, <3>3 DEF Control, InTransaction
  <2>7. CASE WriteAttempt(w)
    <3>1. /\ cur'[w] = cur[w] /\ pc[w] = "attempt" /\ pc'[w] = AfterAttempt(w)
          /\ found'[w] = found[w] /\ seen'[w] = seen[w]
      BY <2>7 DEF WriteAttempt, Goto, local, TypeOK
    <3>2. /\ Cfg(w)' = Cfg(w) /\ LinkOf(w)' = LinkOf(w)
          /\ TouchesAttempt(w)' = TouchesAttempt(w)
          /\ eventStatus'[cur[w]] # "ABSENT"
      BY <3>1, SameEvent
    <3>3. /\ pc'[w] \in {"link", "commit"}
          /\ pc'[w] = "link" => Cfg(w).attempt_status = "PAID"
      BY <3>1 DEF AfterAttempt
    <3>4. QED
      BY <2>1, <3>1, <3>2, <3>3, Durable DEF Control, InTransaction
  <2>8. CASE Commit(w)
    <3>1. /\ cur'[w] = cur[w] /\ pc[w] = "commit" /\ pc'[w] = "whatsapp"
          /\ found'[w] = found[w] /\ seen'[w] = seen[w]
      BY <2>8 DEF Commit, Goto, local, TypeOK
    <3>2. /\ Cfg(w)' = Cfg(w) /\ LinkOf(w)' = LinkOf(w)
          /\ eventStatus'[cur[w]] # "ABSENT"
      BY <3>1, SameEvent
    <3>3. QED
      BY <2>1, <3>1, <3>2, Durable DEF Control, InTransaction
  <2>9. CASE CheckOutbox(w) \/ InsertOutbox(w)
    <3>1. /\ cur'[w] = cur[w] /\ pc[w] \in {"whatsapp", "insert"}
          /\ pc'[w] \in {"insert", "push"}
          /\ found'[w] = found[w] /\ seen'[w] = seen[w]
      BY <2>9 DEF CheckOutbox, InsertOutbox, Goto, local, TypeOK
    <3>2. /\ Cfg(w)' = Cfg(w) /\ LinkOf(w)' = LinkOf(w)
          /\ eventStatus'[cur[w]] # "ABSENT"
      BY <3>1, SameEvent
    <3>3. QED
      BY <2>1, <3>1, <3>2, Durable DEF Control, InTransaction
  <2>10. CASE \/ Ignore(w) \/ Raise(w) \/ Abort(w) \/ Crash(w) \/ DeadlockVictim(w)
              \/ InsertClash(w) \/ QueuePush(w)
    BY <2>10 DEF Ignore, Raise, Abort, Crash, DeadlockVictim, InsertClash, QueuePush
  <2>11. QED
    BY <1>2, <2>2, <2>3, <2>4, <2>5, <2>6, <2>7, <2>8, <2>9, <2>10
    DEF ActsFor, Step
<1>3. ASSUME \/ \E l \in Link, n \in Notice : Deliver(l, n)
             \/ UNCHANGED vars
      PROVE  ControlInv'
  BY <1>3 DEF Deliver, vars, rows, locks, local, ControlInv, Control, LinkOf, Cfg,
     TouchesAttempt
<1>4. QED
  BY <1>1, <1>2, <1>3, StepCases DEF ControlInv

-----------------------------------------------------------------------------
(* The row locks                                                            *)

\* LockInv and LockOrder, of one thread.
Locks(w) ==
    /\ \A l \in Link : linkLock[l] = w =>
          /\ pc[w] \in InTransaction \ {"link"} /\ LinkOf(w) = l
          /\ Cfg(w).action = "create_attempt" =>
                pc[w] = "commit" /\ Cfg(w).attempt_status = "PAID"
          /\ pc[w] \in {"find", "attempt"} =>
                Cfg(w).action \in {"mark_paid", "mark_refunded"}
    /\ \A a \in AttemptId : attemptLock[a] = w =>
          /\ pc[w] \in {"link", "commit"} /\ found[w] = a
          /\ pc[w] = "link" => Cfg(w).action = "create_attempt"

LEMMA LocksPerThread == (LockInv /\ LockOrder) <=> (\A w \in Worker : Locks(w))
BY DEF LockInv, LockOrder, Locks

\* A thread that ends its transaction holds no row, and no other thread's rows
\* are released.
LEMMA ReleaseAll ==
    ASSUME TypeOK, NEW w \in Worker, ReleaseLocks(w)
    PROVE  /\ \A l \in Link : linkLock'[l] # w
           /\ \A a \in AttemptId : attemptLock'[a] # w
           /\ \A v \in Worker \ {w} :
                /\ \A l \in Link : linkLock'[l] = v => linkLock[l] = v
                /\ \A a \in AttemptId : attemptLock'[a] = v => attemptLock[a] = v
BY ConstantsAssumption DEF TypeOK, ReleaseLocks

\* Every step keeps LockInv and LockOrder.
LEMMA LockStep ==
    ASSUME TypeOK, ControlInv, LockInv, LockOrder, [Next]_vars
    PROVE  LockInv' /\ LockOrder'
<1> SUFFICES \A w \in Worker : Locks(w)'
  BY LocksPerThread DEF LockInv, LockOrder, Locks
<1>0. \A w \in Worker : Locks(w) /\ Control(w)
  BY LocksPerThread DEF ControlInv
<1>1. ASSUME NEW w \in Worker, ActsFor(w), NEW v \in Worker, v # w
      PROVE  Locks(v)'
  <2>1. /\ pc'[v] = pc[v] /\ cur'[v] = cur[v] /\ found'[v] = found[v]
        /\ pc[v] # "idle" => Cfg(v)' = Cfg(v) /\ LinkOf(v)' = LinkOf(v)
    BY <1>1, Frame
  <2>2. /\ \A l \in Link : linkLock'[l] = v => linkLock[l] = v
        /\ \A a \in AttemptId : attemptLock'[a] = v => attemptLock[a] = v
    BY <1>1, ReleaseAll DEF ActsFor, Step, DeadlockVictim, Receive, Redeliver,
       Reprocess, Ignore, Raise, Begin, UpdateLink, FindAttempt, WriteAttempt, Commit, Abort,
       CheckOutbox, InsertOutbox, InsertClash, QueuePush, Crash, locks, TypeOK
  <2>3. Locks(v)
    BY <1>0
  <2>4. QED
    BY <2>1, <2>2, <2>3 DEF Locks, InTransaction
<1>2. ASSUME NEW w \in Worker, ActsFor(w)
      PROVE  Locks(w)'
  <2>1. Locks(w) /\ Control(w)
    BY <1>0
  <2>2. CASE ReleaseLocks(w)
    BY <2>2, ReleaseAll DEF Locks
  <2>3. CASE pc[w] \notin InTransaction /\ UNCHANGED locks
    <3>1. /\ \A l \in Link : linkLock'[l] # w
          /\ \A a \in AttemptId : attemptLock'[a] # w
      BY <2>1, <2>3 DEF Locks, locks, InTransaction
    <3>2. QED BY <3>1 DEF Locks
  <2>4. CASE UpdateLink(w)
    <3>1. /\ cur'[w] = cur[w] /\ pc[w] = "link" /\ pc'[w] = AfterLink(w)
          /\ found'[w] = found[w] /\ attemptLock' = attemptLock
          /\ \A l \in Link \ {LinkOf(w)} : linkLock'[l] = linkLock[l]
          /\ linkLock[LinkOf(w)] = NoWorker
          /\ LinkOf(w) \in Link
      BY <2>1, <2>4 DEF UpdateLink, Goto, local, TypeOK, Control
    <3>2. Cfg(w)' = Cfg(w) /\ LinkOf(w)' = LinkOf(w)
      BY <3>1, SameEvent
    <3>3. /\ pc'[w] \in {"find", "commit"}
          /\ Cfg(w).action = "create_attempt" => pc'[w] = "commit"
          /\ pc'[w] = "find" => Cfg(w).action \in {"mark_paid", "mark_refunded"}
      BY <3>1 DEF AfterLink
    <3>4. \A l \in Link : linkLock[l] = w => l = LinkOf(w)
      BY <2>1 DEF Locks
    <3>5. \A a \in AttemptId : attemptLock[a] = w =>
             found[w] = a /\ Cfg(w).action = "create_attempt"
      BY <2>1, <3>1 DEF Locks
    <3>6. Cfg(w).action = "create_attempt" => Cfg(w).attempt_status = "PAID"
      BY <2>1, <3>1 DEF Control
    <3>7. QED
      BY <3>1, <3>2, <3>3, <3>4, <3>5, <3>6 DEF Locks, InTransaction
  <2>5. CASE FindAttempt(w)
    <3>1. /\ cur'[w] = cur[w] /\ pc[w] = "find" /\ pc'[w] = "attempt"
          /\ linkLock' = linkLock /\ attemptLock' = attemptLock
      BY <2>5 DEF FindAttempt, Goto, locks, TypeOK
    <3>2. Cfg(w)' = Cfg(w) /\ LinkOf(w)' = LinkOf(w)
      BY <3>1, SameEvent
    <3>3. QED
      BY <2>1, <3>1, <3>2 DEF Locks, InTransaction
  <2>6. CASE WriteAttempt(w)
    <3>1. /\ cur'[w] = cur[w] /\ pc[w] = "attempt" /\ pc'[w] = AfterAttempt(w)
          /\ linkLock' = linkLock /\ found'[w] = found[w]
          /\ \A a \in AttemptId : attemptLock'[a] = w =>
                attemptLock[a] = w \/ found[w] = a
      BY <2>6 DEF WriteAttempt, Goto, local, TypeOK
    <3>2. Cfg(w)' = Cfg(w) /\ LinkOf(w)' = LinkOf(w)
      BY <3>1, SameEvent
    <3>3. /\ pc'[w] \in {"link", "commit"}
          /\ pc'[w] = "link" => Cfg(w).action = "create_attempt"
      BY <3>1 DEF AfterAttempt
    <3>4. \A a \in AttemptId : attemptLock[a] # w
      BY <2>1, <3>1 DEF Locks
    <3>5. \A l \in Link : linkLock[l] = w =>
             LinkOf(w) = l /\ Cfg(w).action \in {"mark_paid", "mark_refunded"}
      BY <2>1, <3>1 DEF Locks
    <3>6. QED
      BY <3>1, <3>2, <3>3, <3>4, <3>5 DEF Locks, InTransaction
  <2>7. QED
    BY <1>2, <2>2, <2>3, <2>4, <2>5, <2>6 DEF ActsFor, Step, DeadlockVictim, Receive,
       Redeliver, Reprocess, Ignore, Raise, Begin, Commit, Abort, CheckOutbox, InsertOutbox,
       InsertClash, QueuePush, Crash, InTransaction
<1>3. ASSUME \/ \E l \in Link, n \in Notice : Deliver(l, n)
             \/ UNCHANGED vars
      PROVE  \A w \in Worker : Locks(w)'
  BY <1>0, <1>3 DEF Deliver, vars, rows, locks, local, Locks, LinkOf, Cfg
<1>4. QED
  BY <1>1, <1>2, <1>3, StepCases

-----------------------------------------------------------------------------
(* What a commit writes                                                     *)

\* A link row changes only when the transaction that has locked it commits.
LEMMA LinkChanges ==
    ASSUME TypeOK, LockInv, [Next]_vars,
           NEW l \in Link, linkStatus'[l] # linkStatus[l]
    PROVE  \E w \in Worker : /\ Commit(w)
                             /\ linkLock[l] = w
                             /\ LinkOf(w) = l
                             /\ linkStatus'[l] = NewLinkStatus(w)
<1>1. PICK w \in Worker : ActsFor(w)
  BY StepCases DEF Deliver, vars, rows
<1>2. Commit(w)
  BY <1>1 DEF ActsFor, Step, DeadlockVictim, Receive, Redeliver, Reprocess, Ignore, Raise,
     Begin, UpdateLink, FindAttempt, WriteAttempt, Abort, CheckOutbox, InsertOutbox,
     InsertClash, QueuePush, Crash, rows
<1>3. QED
  BY <1>2 DEF Commit, LockInv

\* Every step keeps PaidHasEvidence.
LEMMA EvidenceStep ==
    ASSUME TypeOK, ControlInv, LockInv, LockOrder, PaidHasEvidence, [Next]_vars
    PROVE  PaidHasEvidence'
<1> SUFFICES ASSUME NEW l \in Link, linkStatus'[l] = "PAID"
             PROVE  /\ \E a \in AttemptId : attempt'[a] # NoAttempt /\ attempt'[a].link = l
                    /\ \E e \in Event : /\ eventStatus'[e] # "ABSENT"
                                        /\ content'[e].link = l
                                        /\ content'[e].type \in {"order.paid", "charge.paid"}
  BY DEF PaidHasEvidence
<1>1. CASE linkStatus[l] = "PAID"
  BY <1>1, Durable DEF PaidHasEvidence
<1>2. CASE linkStatus[l] # "PAID"
  <2>1. PICK w \in Worker : /\ Commit(w)
                            /\ linkLock[l] = w
                            /\ LinkOf(w) = l
                            /\ NewLinkStatus(w) = "PAID"
    BY <1>2, LinkChanges
  <2>2. /\ cur[w] \in Event /\ eventStatus[cur[w]] # "ABSENT"
        /\ Cfg(w).action # "ignore"
    BY <2>1 DEF Commit, ControlInv, Control
  <2>3. IsConfig(Cfg(w))
    BY <2>2, CurrentEvent
  <2>4. Cfg(w).action = "create_attempt" => Cfg(w).attempt_status = "PAID"
    BY <2>1 DEF LockOrder
  <2>5. TouchesAttempt(w) /\ Cfg(w).attempt_status = "PAID"
    BY <2>1, <2>2, <2>3, <2>4, ConfigFields DEF NewLinkStatus, TouchesAttempt
  <2>6. content[cur[w]].type \in {"order.paid", "charge.paid"} /\ content[cur[w]].link = l
    BY <2>1, <2>2, <2>5, CurrentEvent DEF LinkOf
  <2>7. QED
    BY <2>1, <2>2, <2>5, <2>6, CommitWrites, Durable
<1>3. QED BY <1>1, <1>2

-----------------------------------------------------------------------------
(* The notices                                                              *)

\* The statuses recorded so far are never forgotten.
LEMMA RecordStays ==
    ASSUME TypeOK, ControlInv, [Next]_vars
    PROVE  recorded \subseteq recorded'
<1>1. ASSUME NEW w \in Worker, Commit(w)
      PROVE  recorded \subseteq recorded'
  BY <1>1, CommitWrites DEF Commit
<1>2. ASSUME NEW w \in Worker, ActsFor(w), ~Commit(w)
      PROVE  recorded' = recorded
  BY <1>2 DEF ActsFor, Step, DeadlockVictim, Receive, Redeliver, Reprocess, Ignore, Raise,
     Begin, UpdateLink, FindAttempt, WriteAttempt, Abort, CheckOutbox, InsertOutbox,
     InsertClash, QueuePush, Crash, rows
<1>3. QED
  BY <1>1, <1>2, StepCases DEF Deliver, vars, rows

\* Every step keeps QueueInv.
LEMMA QueueStep ==
    ASSUME TypeOK, ControlInv, QueueInv, [Next]_vars
    PROVE  QueueInv'
<1> DEFINE After == {"whatsapp", "insert", "push"}
<1> SUFFICES ASSUME NEW w \in Worker, pc'[w] \in After, TouchesAttempt(w)'
             PROVE  <<LinkOf(w), Cfg(w).attempt_status, ChargeOf(w)>>' \in recorded'
  BY DEF QueueInv
<1>1. ASSUME pc[w] \in After \/ Commit(w), cur'[w] = cur[w]
      PROVE  <<LinkOf(w), Cfg(w).attempt_status, ChargeOf(w)>>' \in recorded'
  <2>1. /\ LinkOf(w)' = LinkOf(w) /\ TouchesAttempt(w)
        /\ Cfg(w)' = Cfg(w) /\ ChargeOf(w)' = ChargeOf(w)
    BY <1>1, SameEvent DEF Commit
  <2>2. <<LinkOf(w), Cfg(w).attempt_status, ChargeOf(w)>> \in recorded'
    <3>1. CASE pc[w] \in After
      BY <2>1, <3>1, RecordStays DEF QueueInv
    <3>2. CASE Commit(w)
      BY <2>1, <3>2, CommitWrites
    <3>3. QED BY <1>1, <3>1, <3>2
  <2>3. QED BY <2>1, <2>2
<1>2. ASSUME NEW v \in Worker, ActsFor(v), v # w
      PROVE  pc[w] \in After /\ cur'[w] = cur[w]
  BY <1>2, Frame
<1>3. ASSUME ActsFor(w)
      PROVE  cur'[w] = cur[w] /\ (Commit(w) \/ pc[w] \in After)
  BY <1>3 DEF ActsFor, Step, DeadlockVictim, Receive, Redeliver, Reprocess, Ignore, Raise,
     Begin, UpdateLink, FindAttempt, WriteAttempt, Commit, Abort, CheckOutbox,
     InsertOutbox, InsertClash, QueuePush, Crash, Finish, Goto, local, TypeOK,
     FirstStatement, AfterLink, AfterAttempt
<1>4. ASSUME \/ \E l \in Link, n \in Notice : Deliver(l, n)
             \/ UNCHANGED vars
      PROVE  pc[w] \in After /\ cur'[w] = cur[w]
  BY <1>4 DEF Deliver, vars, local
<1>5. QED
  BY <1>1, <1>2, <1>3, <1>4, StepCases

\* The notices that tell of an attempt.
LEMMA ToldNotices ==
    DOMAIN Told = {"payment_approved", "payment_failed", "payment_refunded",
                   "payment_chargedback"}
BY DEF Told

\* A notice that a thread is about to queue is backed, if it tells of an attempt.
LEMMA NoticeBacked ==
    ASSUME TypeOK, ControlInv, QueueInv, NEW w \in Worker, pc[w] \in {"insert", "push"},
           NoticeOf(w) \in DOMAIN Told
    PROVE  /\ <<LinkOf(w), Told[NoticeOf(w)], ChargeOf(w)>> \in recorded
           /\ ChargeOf(w) \in ChargeId \union {NoId}
<1>1. cur[w] \in Event /\ Cfg(w).action # "ignore"
  BY DEF ControlInv, Control
<1>2. IsConfig(Cfg(w)) /\ ChargeOf(w) \in ChargeId \union {NoId}
  BY <1>1, CurrentEvent DEF Normalized, ChargeOf
<1>3. Cfg(w).action \notin {"mark_canceled", "mark_expired"}
  <2>1. ASSUME Cfg(w).action = "mark_canceled" PROVE FALSE
    <3>1. Cfg(w).attempt_status = "none"
      BY <1>2, <2>1, ConfigFields
    <3>2. NoticeOf(w) = "payment_canceled"
      BY <2>1, <3>1 DEF NoticeOf
    <3>3. QED BY <3>2, ToldNotices
  <2>2. ASSUME Cfg(w).action = "mark_expired" PROVE FALSE
    <3>1. Cfg(w).attempt_status = "none"
      BY <1>2, <2>2, ConfigFields
    <3>2. NoticeOf(w) = "payment_expired"
      BY <2>2, <3>1 DEF NoticeOf
    <3>3. QED BY <3>2, ToldNotices
  <2>3. QED BY <2>1, <2>2
<1>4. /\ TouchesAttempt(w)
      /\ Cfg(w).attempt_status \in {"PAID", "FAILED", "REFUNDED", "CHARGEDBACK"}
  BY <1>1, <1>2, <1>3, ConfigFields DEF TouchesAttempt
<1>5. Told[NoticeOf(w)] = Cfg(w).attempt_status
  <2>1. CASE Cfg(w).attempt_status = "PAID"
    BY <1>3, <2>1 DEF NoticeOf, Told
  <2>2. CASE Cfg(w).attempt_status = "FAILED"
    BY <1>3, <2>2 DEF NoticeOf, Told
  <2>3. CASE Cfg(w).attempt_status = "REFUNDED"
    BY <1>3, <2>3 DEF NoticeOf, Told
  <2>4. CASE Cfg(w).attempt_status = "CHARGEDBACK"
    BY <1>3, <2>4 DEF NoticeOf, Told
  <2>5. QED BY <1>4, <2>1, <2>2, <2>3, <2>4
<1>6. QED
  BY <1>2, <1>4, <1>5 DEF QueueInv

\* Every step keeps NoticesAreBacked.
LEMMA NoticesStep ==
    ASSUME TypeOK, ControlInv, QueueInv, NoticesAreBacked, [Next]_vars
    PROVE  NoticesAreBacked'
<1> DEFINE Suffix == ChargeId \union {NoId}
<1>0. recorded \subseteq recorded' /\ DOMAIN Told \subseteq Notice
  BY RecordStays, ToldNotices DEF Notice
<1>1. ASSUME NEW l \in Link, NEW n \in DOMAIN Told, outbox'[l][n] # "ABSENT"
      PROVE  \E c \in Suffix : <<l, Told[n], c>> \in recorded
  <2>1. CASE outbox[l][n] # "ABSENT"
    BY <2>1 DEF NoticesAreBacked
  <2>2. CASE outbox[l][n] = "ABSENT"
    <3>1. ASSUME NEW k \in Link, NEW m \in Notice, Deliver(k, m)
          PROVE  FALSE
      BY <1>0, <1>1, <2>2, <3>1 DEF Deliver, TypeOK
    <3>2. PICK w \in Worker : ActsFor(w)
      BY <1>1, <2>2, <3>1, StepCases DEF vars
    <3>3. InsertOutbox(w)
      BY <1>1, <2>2, <3>2 DEF ActsFor, Step, DeadlockVictim, Receive, Redeliver, Reprocess,
         Ignore, Raise, Begin, UpdateLink, FindAttempt, WriteAttempt, Commit, Abort,
         CheckOutbox, InsertClash, QueuePush, Crash, queues
    <3>4. NoticeOf(w) = n /\ LinkOf(w) = l /\ pc[w] = "insert"
      BY <1>0, <1>1, <2>2, <3>3 DEF InsertOutbox, TypeOK
    <3>5. QED BY <3>4, NoticeBacked
  <2>3. QED BY <2>1, <2>2
<1>2. ASSUME NEW l \in Link, NEW n \in DOMAIN Told, NEW s \in Suffix, <<l, n, s>> \in push'
      PROVE  \E c \in Suffix : <<l, Told[n], c>> \in recorded /\ (n # "payment_approved" => c = s)
  <2>1. CASE <<l, n, s>> \in push
    BY <2>1 DEF NoticesAreBacked
  <2>2. CASE <<l, n, s>> \notin push
    <3>1. ~\E k \in Link, m \in Notice : Deliver(k, m)
      BY <1>2, <2>2 DEF Deliver
    <3>2. PICK w \in Worker : ActsFor(w)
      BY <1>2, <2>2, <3>1, StepCases DEF vars
    <3>3. QueuePush(w)
      BY <1>2, <2>2, <3>2 DEF ActsFor, Step, DeadlockVictim, Receive, Redeliver, Reprocess,
         Ignore, Raise, Begin, UpdateLink, FindAttempt, WriteAttempt, Commit, Abort,
         CheckOutbox, InsertOutbox, InsertClash, Crash, queues
    <3>4. <<l, n, s>> = PushKey(w) /\ pc[w] = "push"
      BY <1>2, <2>2, <3>3 DEF QueuePush
    <3>5. /\ NoticeOf(w) = n /\ LinkOf(w) = l
          /\ n # "payment_approved" => s = ChargeOf(w)
      BY <3>4, ToldNotices DEF PushKey
    <3>6. QED BY <3>4, <3>5, NoticeBacked
  <2>3. QED BY <2>1, <2>2
<1>3. QED
  BY <1>0, <1>1, <1>2 DEF NoticesAreBacked

-----------------------------------------------------------------------------
(* The theorems                                                             *)

\* IInv holds initially, and every step keeps it.
LEMMA InitIInv == Init => IInv
<1> SUFFICES ASSUME Init PROVE IInv
  OBVIOUS
<1>1. TypeOK
  BY InitType
<1>2. ControlInv
  BY DEF Init, ControlInv, Control, InTransaction
<1>3. LockInv /\ LockOrder
  BY ConstantsAssumption DEF Init, LockInv, LockOrder
<1>4. PaidHasEvidence
  BY DEF Init, PaidHasEvidence
<1>5. QueueInv /\ NoticesAreBacked
  <2>1. QueueInv
    BY DEF Init, QueueInv
  <2>2. NoticesAreBacked
    BY ToldNotices DEF Init, NoticesAreBacked, Notice
  <2>3. QED BY <2>1, <2>2
<1>6. QED
  BY <1>1, <1>2, <1>3, <1>4, <1>5 DEF IInv

LEMMA NextIInv == IInv /\ [Next]_vars => IInv'
<1> SUFFICES ASSUME IInv, [Next]_vars PROVE IInv'
  OBVIOUS
<1>1. TypeOK'
  BY TypeStep DEF IInv
<1>2. ControlInv'
  BY ControlStep DEF IInv
<1>3. LockInv' /\ LockOrder'
  BY LockStep DEF IInv
<1>4. PaidHasEvidence'
  BY EvidenceStep DEF IInv
<1>5. QueueInv' /\ NoticesAreBacked'
  BY QueueStep, NoticesStep DEF IInv
<1>6. QED
  BY <1>1, <1>2, <1>3, <1>4, <1>5 DEF IInv

\* The inductive invariant of the webhook threads: what each has locked and written
\* at each step of its handler, and what is committed behind the statuses and notices.
THEOREM Invariance == Spec => []IInv
<1>1. QED
  BY InitIInv, NextIInv, PTL DEF Spec

\* The webhook processor keeps its types: every status written to a link, an
\* attempt or an event is one of the model's choices, and every notice has a key.
THEOREM TypeCorrect == Spec => []TypeOK
<1>1. IInv => TypeOK
  BY DEF IInv
<1>2. QED
  BY <1>1, Invariance, PTL

\* No path out of process_webhook_event leaves a row locked.
THEOREM NoLockLeaks == Spec => []LockInv
<1>1. IInv => LockInv
  BY DEF IInv
<1>2. QED
  BY <1>1, Invariance, PTL

\* A PAID link has a stored payment event and an attempt, whatever fails.
THEOREM PaymentsAreEvidenced == Spec => []PaidHasEvidence
<1>1. IInv => PaidHasEvidence
  BY DEF IInv
<1>2. QED
  BY <1>1, Invariance, PTL

\* A notice is queued only after a commit recorded the status it tells of, for its
\* link and, where its key names one, its charge.
THEOREM NoticesFollowCommits == Spec => []NoticesAreBacked
<1>1. IInv => NoticesAreBacked
  BY DEF IInv
<1>2. QED
  BY <1>1, Invariance, PTL

\* Two transactions that wait for each other are a charge.paid and a handler
\* that writes the link first, on the same two rows.
THEOREM Deadlocks == Spec => []DeadlockShape
<1>1. ASSUME IInv, NEW w \in Worker, NEW v \in Worker,
             WaitsFor(w, v), WaitsFor(v, w), pc[w] = "link"
      PROVE  /\ Cfg(w).action = "create_attempt"
             /\ Cfg(v).action \in {"mark_paid", "mark_refunded"}
             /\ LinkOf(w) = LinkOf(v)
             /\ found[w] = found[v]
  <2>1. Locks(w) /\ Locks(v)
    BY <1>1, LocksPerThread DEF IInv
  <2>2. LinkOf(w) \in Link /\ found[w] \in AttemptId \union {NoAttempt}
        /\ found[v] \in AttemptId \union {NoAttempt}
    BY <1>1 DEF IInv, ControlInv, Control, TypeOK
  <2>3. v # w /\ linkLock[LinkOf(w)] = v
    BY <1>1 DEF WaitsFor
  <2>4. LinkOf(v) = LinkOf(w)
    BY <2>1, <2>2, <2>3 DEF Locks
  <2>5. pc[v] = "attempt" /\ found[v] \in AttemptId /\ attemptLock[found[v]] = w
    BY <1>1, <2>2, <2>3, <2>4 DEF WaitsFor
  <2>6. found[w] = found[v] /\ Cfg(w).action = "create_attempt"
    BY <1>1, <2>1, <2>5 DEF Locks
  <2>7. Cfg(v).action \in {"mark_paid", "mark_refunded"}
    BY <2>1, <2>2, <2>3, <2>5 DEF Locks
  <2>8. QED BY <2>4, <2>6, <2>7
<1>2. IInv => DeadlockShape
  BY <1>1 DEF DeadlockShape
<1>3. QED
  BY <1>2, Invariance, PTL

\* A thread whose transaction is open has its row, or waits for another thread.
LEMMA MovesOrWaits ==
    ASSUME IInv, NEW w \in Worker, pc[w] \in InTransaction
    PROVE  HasItsRow(w) \/ \E v \in Worker : WaitsFor(w, v)
<1>1. Locks(w) /\ LinkOf(w) \in Link /\ found[w] \in AttemptId \union {NoAttempt}
  BY LocksPerThread DEF IInv, ControlInv, Control, TypeOK, InTransaction
<1>2. CASE pc[w] \in {"find", "commit"}
  BY <1>2 DEF HasItsRow
<1>3. CASE pc[w] = "link"
  <2>1. linkLock[LinkOf(w)] \in Worker \union {NoWorker} /\ linkLock[LinkOf(w)] # w
    BY <1>1, <1>3 DEF IInv, TypeOK, Locks
  <2>2. QED BY <1>3, <2>1 DEF HasItsRow, WaitsFor
<1>4. CASE pc[w] = "attempt" /\ found[w] # NoAttempt
  <2>1. attemptLock[found[w]] \in Worker \union {NoWorker} /\ attemptLock[found[w]] # w
    BY <1>1, <1>4 DEF IInv, TypeOK, Locks
  <2>2. QED BY <1>4, <2>1 DEF HasItsRow, WaitsFor
<1>5. CASE pc[w] = "attempt" /\ found[w] = NoAttempt
  BY <1>5 DEF HasItsRow
<1>6. QED BY <1>2, <1>3, <1>4, <1>5 DEF InTransaction

\* The thread that another waits for is in a transaction on the same link, and is
\* not about to update the same of the two rows.
LEMMA WaitedFor ==
    ASSUME IInv, NEW w \in Worker, NEW v \in Worker, WaitsFor(w, v)
    PROVE  /\ pc[v] \in InTransaction
           /\ LinkOf(v) = LinkOf(w) /\ LinkOf(w) \in Link
           /\ pc[w] = "link" => linkLock[LinkOf(w)] = v /\ pc[v] # "link"
           /\ pc[w] # "link" => pc[v] # "attempt"
<1>1. Locks(v) /\ LinkOf(w) \in Link /\ found[w] \in AttemptId \union {NoAttempt}
  BY LocksPerThread DEF WaitsFor, IInv, ControlInv, Control, TypeOK
<1>2. CASE pc[w] = "link"
  <2>1. linkLock[LinkOf(w)] = v
    BY <1>2 DEF WaitsFor
  <2>2. pc[v] \in InTransaction \ {"link"} /\ LinkOf(v) = LinkOf(w)
    BY <1>1, <2>1 DEF Locks
  <2>3. QED BY <1>1, <1>2, <2>1, <2>2
<1>3. CASE pc[w] # "link"
  <2>1. found[w] # NoAttempt /\ attemptLock[found[w]] = v
    BY <1>3 DEF WaitsFor
  <2>2. pc[v] \in {"link", "commit"} /\ found[v] = found[w]
    BY <1>1, <2>1 DEF Locks
  <2>3. LinkOf(v) = LinkOf(w)
    BY <2>1, <2>2 DEF IInv, ControlInv, Control
  <2>4. QED BY <1>1, <1>3, <2>2, <2>3 DEF InTransaction
<1>4. QED BY <1>2, <1>3

\* Three waits in a row that begin with a link row end where the second began: a
\* cycle of waits has two threads, as DeadlockVictim has it.
LEMMA CyclesAreShort ==
    ASSUME IInv, NEW w \in Worker, NEW v \in Worker, NEW u \in Worker, NEW x \in Worker,
           WaitsFor(w, v), WaitsFor(v, u), WaitsFor(u, x), pc[w] = "link"
    PROVE  x = v
<1>1. linkLock[LinkOf(w)] = v /\ LinkOf(v) = LinkOf(w) /\ pc[v] # "link"
  BY WaitedFor
<1>2. LinkOf(u) = LinkOf(v) /\ pc[u] # "attempt"
  BY <1>1, WaitedFor
<1>3. linkLock[LinkOf(u)] = x
  BY <1>2 DEF WaitsFor
<1>4. QED BY <1>1, <1>2, <1>3

\* However many threads there are, they never all wait for rows, but where two of
\* them wait for each other, which the server resolves.
THEOREM NeverAllWaiting == Spec => []SomeTransactionMoves
<1>1. IInv => SomeTransactionMoves
  <2> SUFFICES ASSUME IInv, NEW w \in Worker, pc[w] \in InTransaction,
                      \A t \in Worker : ~HasItsRow(t)
               PROVE  \E t, s \in Worker : WaitsFor(t, s) /\ WaitsFor(s, t)
    BY DEF SomeTransactionMoves
  <2>1. ASSUME NEW t \in Worker, pc[t] \in InTransaction
        PROVE  \E s \in Worker : WaitsFor(t, s) /\ pc[s] \in InTransaction
    BY <2>1, MovesOrWaits, WaitedFor
  <2>2. PICK v \in Worker : WaitsFor(w, v) /\ pc[v] \in InTransaction
    BY <2>1
  <2>3. PICK u \in Worker : WaitsFor(v, u) /\ pc[u] \in InTransaction
    BY <2>1, <2>2
  <2>4. PICK x \in Worker : WaitsFor(u, x) /\ pc[x] \in InTransaction
    BY <2>1, <2>3
  <2>5. PICK y \in Worker : WaitsFor(x, y)
    BY <2>1, <2>4
  <2>6. CASE pc[w] = "link"
    <3>1. x = v
      BY <2>2, <2>3, <2>4, <2>6, CyclesAreShort
    <3>2. QED BY <2>3, <2>4, <3>1
  <2>7. CASE pc[w] # "link"
    <3>1. pc[v] = "link"
      BY <2>2, <2>3, <2>7, WaitedFor DEF WaitsFor
    <3>2. y = u
      BY <2>3, <2>4, <2>5, <3>1, CyclesAreShort
    <3>3. QED BY <2>4, <2>5, <3>2
  <2>8. QED BY <2>6, <2>7
<1>2. QED
  BY <1>1, Invariance, PTL

\* What a commit that takes a link away from PAID had read of it.
LEMMA RegressStep ==
    ASSUME IInv, [Next]_vars, NEW l \in Link, linkStatus[l] = "PAID", linkStatus'[l] # "PAID"
    PROVE  \E w \in Worker : /\ linkLock[l] = w /\ LinkOf(w) = l
                             /\ pc[w] \in InTransaction /\ seen[w] # "PAID"
<1>1. PICK w \in Worker : /\ Commit(w)
                          /\ linkLock[l] = w
                          /\ LinkOf(w) = l
                          /\ NewLinkStatus(w) # "PAID"
  BY LinkChanges DEF IInv
<1>2. cur[w] \in Event /\ Cfg(w).action # "ignore"
  BY <1>1 DEF Commit, IInv, ControlInv, Control
<1>3. IsConfig(Cfg(w))
  BY <1>2, CurrentEvent DEF IInv
<1>4. Cfg(w).link_status # "none"
  BY <1>1, <1>2, <1>3, ConfigFields DEF NewLinkStatus
<1>5. seen[w] # "PAID"
  BY <1>1, <1>4 DEF Commit, IInv, ControlInv, Control, InTransaction, NO_REGRESS_STATES
<1>6. QED
  BY <1>1, <1>5 DEF Commit, InTransaction

\* A payment is undone only by a thread that read the link before it committed.
THEOREM RegressionsAreStale == Spec => RegressOnlyOnStaleRead
<1>1. IInv /\ [Next]_vars =>
        [\A l \in Link : linkStatus[l] = "PAID" /\ linkStatus'[l] # "PAID" =>
             \E w \in Worker : linkLock[l] = w /\ seen[w] # "PAID"]_vars
  BY RegressStep
<1>2. QED
  BY <1>1, Invariance, PTL DEF Spec, RegressOnlyOnStaleRead

\* What a commit that takes a link away from REFUNDED had read of it, or what it is.
LEMMA RefundStep ==
    ASSUME IInv, [Next]_vars, NEW l \in Link,
           linkStatus[l] = "REFUNDED", linkStatus'[l] # "REFUNDED"
    PROVE  \E w \in Worker :
              /\ linkLock[l] = w
              /\ seen[w] # "REFUNDED" \/ content[cur[w]].type = "charge.paid"
<1>1. PICK w \in Worker : Commit(w) /\ linkLock[l] = w /\ LinkOf(w) = l
  BY LinkChanges DEF IInv
<1>2. cur[w] \in Event /\ Cfg(w).action # "ignore"
  BY <1>1 DEF Commit, IInv, ControlInv, Control
<1>3. /\ IsConfig(Cfg(w))
      /\ Cfg(w).attempt_status = "PAID" =>
            content[cur[w]].type \in {"order.paid", "charge.paid"}
  BY <1>2, CurrentEvent DEF IInv
<1>4. CASE Cfg(w).link_status # "none"
  <2>1. seen[w] # "REFUNDED"
    BY <1>1, <1>4 DEF Commit, IInv, ControlInv, Control, InTransaction, NO_REGRESS_STATES
  <2>2. QED BY <1>1, <2>1
<1>5. CASE Cfg(w).link_status = "none"
  <2>1. Cfg(w).action = "create_attempt"
    BY <1>2, <1>3, <1>5 DEF IsConfig, Config
  <2>2. Cfg(w).attempt_status = "PAID"
    BY <1>1, <2>1 DEF IInv, LockOrder
  <2>3. content[cur[w]].type \in {"order.paid", "charge.paid"}
    BY <1>3, <2>2
  <2>4. EVENT_MAP["order.paid"].link_status = "PAID"
    BY DEF EVENT_MAP, EventType, Config
  <2>5. content[cur[w]].type = "charge.paid"
    BY <1>5, <2>3, <2>4 DEF Cfg
  <2>6. QED BY <1>1, <2>5
<1>6. QED BY <1>4, <1>5

\* A refund is undone only by charge.paid or by a thread that read the link before it.
THEOREM RefundsAreUndone == Spec => RefundUndoneOnlyByCharge
<1>1. IInv /\ [Next]_vars =>
        [\A l \in Link : linkStatus[l] = "REFUNDED" /\ linkStatus'[l] # "REFUNDED" =>
             \E w \in Worker :
                /\ linkLock[l] = w
                /\ seen[w] # "REFUNDED" \/ content[cur[w]].type = "charge.paid"]_vars
  BY RefundStep
<1>2. QED
  BY <1>1, Invariance, PTL DEF Spec, RefundUndoneOnlyByCharge

\* With a single thread FreshRead is inductive, relative to IInv.
LEMMA FreshStep ==
    ASSUME \A w, v \in Worker : w = v, IInv, FreshRead, [Next]_vars
    PROVE  FreshRead'
<1> SUFFICES ASSUME NEW w \in Worker, pc'[w] \in InTransaction
             PROVE  seen'[w] = linkStatus'[LinkOf(w)']
  BY DEF FreshRead
<1>1. CASE Begin(w)
  <2>1. cur'[w] = cur[w] /\ pc[w] # "idle"
    BY <1>1 DEF Begin
  <2>2. LinkOf(w)' = LinkOf(w)
    BY <2>1, SameEvent DEF IInv
  <2>3. QED
    BY <1>1, <2>2 DEF Begin, rows, IInv, TypeOK
<1>2. CASE ~Begin(w)
  <2>1. /\ pc[w] \in InTransaction /\ seen'[w] = seen[w] /\ cur'[w] = cur[w]
        /\ linkStatus' = linkStatus
    <3>1. ASSUME ActsFor(w)
          PROVE  <2>1
      BY <1>2, <3>1 DEF ActsFor, Step, DeadlockVictim, Receive, Redeliver, Reprocess, Ignore, Raise,
         UpdateLink, FindAttempt, WriteAttempt, Commit, Abort, CheckOutbox, InsertOutbox,
         InsertClash, QueuePush, Crash, Finish, Goto, local, rows, IInv, TypeOK, InTransaction
    <3>2. QED
      BY <3>1, StepCases DEF Deliver, vars, local, rows
  <2>2. LinkOf(w)' = LinkOf(w)
    BY <2>1, SameEvent DEF IInv, InTransaction
  <2>3. QED
    BY <2>1, <2>2 DEF FreshRead
<1>3. QED BY <1>1, <1>2

\* A single thread does not undo a payment, by whatever event that is no refund: the
\* guard it passed is still true when it commits, in any order of the events and
\* wherever it dies.
THEOREM SerialPaymentsStay ==
    ASSUME \A w, v \in Worker : w = v
    PROVE  Spec => PaidNeverRegresses
<1>1. Init => FreshRead
  BY DEF Init, FreshRead, InTransaction
<1>2. IInv /\ FreshRead /\ [Next]_vars => FreshRead'
  BY FreshStep
<1>3. IInv /\ FreshRead /\ [Next]_vars =>
        [\A l \in Link : linkStatus[l] = "PAID" /\ linkStatus'[l] # "PAID" =>
             \E w \in Worker : /\ linkLock[l] = w
                               /\ content[cur[w]].type = "charge.refunded"]_vars
  BY RegressStep DEF FreshRead
<1>4. QED
  BY <1>1, <1>2, <1>3, Invariance, PTL DEF Spec, PaidNeverRegresses

-----------------------------------------------------------------------------
(* One attempt for each order                                               *)

\* The handler is past the lookups of _create_or_update_attempt.
LookedUp(w) ==
    \/ pc[w] = "attempt"
    \/ pc[w] = "commit" /\ TouchesAttempt(w)
    \/ pc[w] = "link" /\ Cfg(w).action = "create_attempt"

\* With a single thread, the order for which it found no attempt still has none.
FreshLookup ==
    \A w \in Worker, a \in AttemptId :
        /\ LookedUp(w) /\ found[w] = NoAttempt
        /\ attempt[a] # NoAttempt /\ attempt[a].link = LinkOf(w)
        /\ content[cur[w]].order # NoId
        => attempt[a].order # content[cur[w]].order

\* A commit adds an attempt only for an order that has none.
LEMMA CommitUnique ==
    ASSUME IInv, FreshLookup, OneAttemptPerOrder, NEW w \in Worker, Commit(w)
    PROVE  OneAttemptPerOrder'
<1>1. CASE ~TouchesAttempt(w)
  BY <1>1 DEF Commit, OneAttemptPerOrder
<1>2. CASE TouchesAttempt(w)
  <2>1. PICK a \in AttemptId : /\ attempt' = SavedAttempts(w, a)
                               /\ found[w] # NoAttempt => a = found[w]
                               /\ found[w] = NoAttempt => attempt[a] = NoAttempt
    BY <1>2 DEF Commit, IInv, TypeOK
  <2>2. attempt[a] # NoAttempt => found[w] = a /\ attempt[a].link = LinkOf(w)
    BY <2>1 DEF IInv, ControlInv, Control
  <2>3. attempt[a] # NoAttempt \/ found[w] = NoAttempt
    BY <2>1 DEF IInv, ControlInv, Control
  <2>4. /\ attempt'[a].link = LinkOf(w)
        /\ \A b \in AttemptId \ {a} : attempt'[b] = attempt[b]
    BY <1>2, <2>1, <2>3, SavedType DEF Commit, IInv
  <2>5. CASE found[w] # NoAttempt
    <3>1. attempt[a] # NoAttempt /\ attempt[a].link = LinkOf(w)
      BY <2>1, <2>2, <2>3, <2>5
    <3>2. attempt[a] \in AttemptRow /\ attempt \in [AttemptId -> AttemptRow \union {NoAttempt}]
      BY <3>1 DEF IInv, TypeOK
    <3>3. attempt'[a].order = attempt[a].order
      BY <2>1, <2>5, <3>2 DEF SavedAttempts, AttemptRow
    <3> QED BY <2>4, <3>1, <3>3 DEF OneAttemptPerOrder
  <2>6. CASE found[w] = NoAttempt
    <3>1. attempt'[a].order = content[cur[w]].order
      BY <2>1, <2>6 DEF SavedAttempts, IInv, TypeOK
    <3>2. ASSUME NEW b \in AttemptId \ {a}, attempt[b] # NoAttempt,
                 attempt[b].link = LinkOf(w), content[cur[w]].order # NoId
          PROVE  attempt[b].order # content[cur[w]].order
      BY <1>2, <2>6, <3>2 DEF FreshLookup, LookedUp, Commit
    <3> QED BY <2>4, <3>1, <3>2 DEF OneAttemptPerOrder
  <2> QED BY <2>5, <2>6
<1> QED BY <1>1, <1>2

\* With a single thread FreshLookup is inductive, relative to IInv.
LEMMA LookupStep ==
    ASSUME \A w, v \in Worker : w = v, IInv, FreshLookup, [Next]_vars
    PROVE  FreshLookup'
<1> SUFFICES ASSUME NEW w \in Worker, NEW a \in AttemptId,
                    LookedUp(w)', found'[w] = NoAttempt,
                    attempt'[a] # NoAttempt, attempt'[a].link = LinkOf(w)',
                    content'[cur'[w]].order # NoId
             PROVE  attempt'[a].order # content'[cur'[w]].order
  BY DEF FreshLookup
<1>1. pc'[w] \in {"attempt", "commit", "link"}
  BY DEF LookedUp
<1>2. /\ pc[w] # "idle" /\ cur'[w] = cur[w] /\ attempt' = attempt
      /\ found'[w] = found[w] \/ FindAttempt(w)
      /\ \/ Begin(w) \/ UpdateLink(w) \/ FindAttempt(w) \/ WriteAttempt(w)
         \/ pc'[w] = pc[w]
  <2>1. CASE ActsFor(w)
    <3>1. Begin(w) \/ UpdateLink(w) \/ FindAttempt(w) \/ WriteAttempt(w)
      BY <1>1, <2>1 DEF ActsFor, Step, DeadlockVictim, Receive, Redeliver, Reprocess, Ignore, Raise,
         Commit, Abort, CheckOutbox, InsertOutbox, InsertClash, QueuePush, Crash, Finish, Goto,
         IInv, TypeOK
    <3>2. CASE Begin(w)
      <4>1. found'[w] = found[w]
        BY <3>2 DEF Begin, IInv, TypeOK, ControlInv, Control
      <4> QED BY <3>2, <4>1 DEF Begin, rows
    <3>3. CASE UpdateLink(w)
      BY <3>3 DEF UpdateLink, local, rows
    <3>4. CASE FindAttempt(w)
      BY <3>4 DEF FindAttempt, rows
    <3>5. CASE WriteAttempt(w)
      BY <3>5 DEF WriteAttempt, local, rows
    <3> QED BY <3>1, <3>2, <3>3, <3>4, <3>5
  <2>2. CASE ~ActsFor(w)
    BY <1>1, <2>2, StepCases DEF Deliver, vars, local, rows
  <2> QED BY <2>1, <2>2
<1>3. /\ LinkOf(w)' = LinkOf(w) /\ Cfg(w)' = Cfg(w) /\ TouchesAttempt(w)' = TouchesAttempt(w)
      /\ content'[cur'[w]] = content[cur[w]]
  BY <1>2, SameEvent, Durable DEF IInv, ControlInv, Control
<1>4. CASE FindAttempt(w)
  <2>1. Matches(w) = {}
    <3>1. SUFFICES ASSUME Matches(w) # {} PROVE FALSE
      OBVIOUS
    <3>2. found'[w] \in Matches(w)
      BY <1>4, <3>1 DEF FindAttempt, IInv, TypeOK
    <3> QED BY <3>2, ConstantsAssumption DEF Matches, ByOrder, ByCharge
  <2>2. ByOrder(w) = {}
    BY <2>1 DEF Matches
  <2> QED BY <1>2, <1>3, <2>2 DEF ByOrder
<1>5. CASE ~FindAttempt(w)
  <2>1. LookedUp(w)
    <3>1. CASE Begin(w)
      <4>1. pc'[w] = FirstStatement(w, linkStatus[LinkOf(w)])
        BY <3>1 DEF Begin, Goto, IInv, TypeOK
      <4> QED BY <1>3, <4>1 DEF FirstStatement, LookedUp, TouchesAttempt
    <3>2. CASE UpdateLink(w)
      <4>1. pc[w] = "link" /\ pc'[w] = AfterLink(w)
        BY <3>2 DEF UpdateLink, Goto, IInv, TypeOK
      <4> QED BY <1>3, <4>1 DEF AfterLink, LookedUp, TouchesAttempt
    <3>3. CASE WriteAttempt(w)
      BY <3>3 DEF WriteAttempt, LookedUp
    <3>4. CASE pc'[w] = pc[w]
      BY <1>3, <3>4 DEF LookedUp
    <3> QED BY <1>2, <1>5, <3>1, <3>2, <3>3, <3>4
  <2> QED BY <1>2, <1>3, <1>5, <2>1 DEF FreshLookup
<1> QED BY <1>4, <1>5

\* A single thread never gives an order two attempts, though no constraint of the
\* table forbids it: what its lookup found is still true when it commits.
THEOREM SerialOrdersHaveOneAttempt ==
    ASSUME \A w, v \in Worker : w = v
    PROVE  Spec => []OneAttemptPerOrder
<1>1. Init => FreshLookup /\ OneAttemptPerOrder
  BY DEF Init, FreshLookup, OneAttemptPerOrder
<1>2. IInv /\ FreshLookup /\ OneAttemptPerOrder /\ [Next]_vars =>
        FreshLookup' /\ OneAttemptPerOrder'
  <2> SUFFICES ASSUME IInv, FreshLookup, OneAttemptPerOrder, [Next]_vars
               PROVE  FreshLookup' /\ OneAttemptPerOrder'
    OBVIOUS
  <2>1. ASSUME NEW w \in Worker, Commit(w) PROVE OneAttemptPerOrder'
    BY <2>1, CommitUnique
  <2>2. ASSUME ~\E w \in Worker : Commit(w) PROVE OneAttemptPerOrder'
    <3>1. attempt' = attempt
      BY <2>2, StepCases DEF ActsFor, Step, DeadlockVictim, Receive, Redeliver, Reprocess,
         Ignore, Raise, Begin, UpdateLink, FindAttempt, WriteAttempt, Abort, CheckOutbox,
         InsertOutbox, InsertClash, QueuePush, Crash, Deliver, vars, rows
    <3> QED BY <3>1 DEF OneAttemptPerOrder
  <2>3. FreshLookup'
    BY LookupStep
  <2> QED BY <2>1, <2>2, <2>3
<1>3. QED
  BY <1>1, <1>2, Invariance, PTL DEF Spec

-----------------------------------------------------------------------------
(* Nothing is forgotten while no thread dies                                *)

\* The conjuncts of NothingIsForgotten, of one event and of one link.
EventInHand(e) ==
    eventStatus[e] = "RECEIVED" /\ Processable(e) =>
        \E w \in Worker : pc[w] \in {"screen"} \union InTransaction /\ cur[w] = e
MessageInHand(l) ==
    linkStatus[l] = "PAID" =>
        \/ outbox[l]["payment_approved"] # "ABSENT"
        \/ \E w \in Worker : Approves(w, l) /\ pc[w] # "push"
PushInHand(l) ==
    outbox[l]["payment_approved"] # "ABSENT" =>
        \/ <<l, "payment_approved", NoId>> \in push
        \/ \E w \in Worker : Approves(w, l) /\ pc[w] = "push"

\* The steps of thread w when nothing dies.
Runs(w) ==
    \/ Step(w) \/ Abort(w)
    \/ \E e \in Event : Redeliver(w, e) \/ \E p \in Payload : Receive(w, e, p)

LEMMA RunningCases ==
    ASSUME [Running]_vars
    PROVE  /\ [Next]_vars
           /\ \/ \E w \in Worker : Runs(w) /\ ActsFor(w)
              \/ \E l \in Link, n \in Notice : Deliver(l, n)
              \/ UNCHANGED vars
BY DEF Running, Next, Deliveries, Runs, ActsFor

\* A thread that keeps its event still approves the same link.
LEMMA ApprovesStays ==
    ASSUME TypeOK, ControlInv, [Next]_vars, NEW v \in Worker, NEW l \in Link,
           Approves(v, l), cur'[v] = cur[v], pc'[v] \in {"whatsapp", "insert", "push"}
    PROVE  Approves(v, l)'
<1>1. pc[v] # "idle"
  BY DEF Approves
<1>2. LinkOf(v)' = LinkOf(v) /\ NoticeOf(v)' = NoticeOf(v)
  BY <1>1, SameEvent
<1>3. QED BY <1>2 DEF Approves

\* Another thread than the one that moves still approves, where it did.
LEMMA ApprovesFrame ==
    ASSUME TypeOK, ControlInv, [Next]_vars, NEW w \in Worker, ActsFor(w),
           NEW v \in Worker, v # w, NEW l \in Link, Approves(v, l)
    PROVE  Approves(v, l)' /\ pc'[v] = pc[v]
<1>1. pc'[v] = pc[v] /\ cur'[v] = cur[v]
  BY Frame
<1>2. QED BY <1>1, ApprovesStays DEF Approves

\* A RECEIVED event stays in hand until it is settled.
LEMMA EventStep ==
    ASSUME IInv, [Running]_vars, NEW e \in Event, EventInHand(e)
    PROVE  EventInHand(e)'
<1> USE DEF IInv
<1> SUFFICES ASSUME eventStatus'[e] = "RECEIVED", Processable(e)'
             PROVE  \E v \in Worker : pc'[v] \in {"screen"} \union InTransaction /\ cur'[v] = e
  BY DEF EventInHand
<1>0. ASSUME eventStatus[e] = "RECEIVED"
      PROVE  Processable(e)
  <2>1. content'[e] = content[e]
    BY <1>0, RunningCases, Durable
  <2>2. QED BY <2>1 DEF Processable
<1>1. ASSUME NEW w \in Worker, Runs(w), ActsFor(w)
      PROVE  \E v \in Worker : pc'[v] \in {"screen"} \union InTransaction /\ cur'[v] = e
  <2>1. CASE \E p \in Payload : Receive(w, e, p)
    <3>1. pc'[w] = "screen" /\ cur'[w] = e
      BY <2>1 DEF Receive, Goto, TypeOK
    <3>2. QED BY <3>1
  <2>2. CASE ~\E p \in Payload : Receive(w, e, p)
    <3>1. eventStatus[e] = "RECEIVED"
      BY <1>1, <2>2 DEF Runs, Step, DeadlockVictim, Receive, Redeliver, Ignore, Raise, Begin,
         UpdateLink, FindAttempt, WriteAttempt, Commit, Abort, CheckOutbox, InsertOutbox,
         InsertClash, QueuePush, SetEvent, TypeOK
    <3>2. PICK v \in Worker : pc[v] \in {"screen"} \union InTransaction /\ cur[v] = e
      BY <1>0, <3>1 DEF EventInHand
    <3>3. CASE v # w
      <4>1. pc'[v] = pc[v] /\ cur'[v] = cur[v]
        BY <1>1, <3>3, RunningCases, Frame
      <4>2. QED BY <3>2, <4>1
    <3>4. CASE v = w
      <4>0. ~Raise(w)
        BY <1>0, <3>1, <3>2, <3>4 DEF Raise, Processable, Cfg, LinkOf
      <4>1. Begin(w) \/ UpdateLink(w) \/ FindAttempt(w) \/ WriteAttempt(w)
        BY <1>1, <3>1, <3>2, <3>4, <4>0 DEF Runs, Step, DeadlockVictim, Receive, Redeliver,
           Ignore, Commit, Abort, CheckOutbox, InsertOutbox, InsertClash, QueuePush, SetEvent,
           InTransaction, TypeOK
      <4>2. pc'[w] \in InTransaction /\ cur'[w] = cur[w]
        BY <4>1 DEF Begin, UpdateLink, FindAttempt, WriteAttempt, FirstStatement, AfterLink,
           AfterAttempt, Goto, local, InTransaction, TypeOK
      <4>3. QED BY <3>2, <3>4, <4>2
    <3>5. QED BY <3>3, <3>4
  <2>3. QED BY <2>1, <2>2
<1>2. CASE \/ \E l \in Link, n \in Notice : Deliver(l, n)
           \/ UNCHANGED vars
  BY <1>0, <1>2 DEF EventInHand, Deliver, vars, local
<1>3. QED BY <1>1, <1>2, RunningCases

\* What a commit that makes a link PAID goes on to.
LEMMA PaymentApproves ==
    ASSUME IInv, [Next]_vars, NEW l \in Link, linkStatus[l] # "PAID", linkStatus'[l] = "PAID"
    PROVE  \E w \in Worker : Approves(w, l)' /\ pc'[w] = "whatsapp"
<1> USE DEF IInv
<1>1. PICK w \in Worker : /\ Commit(w) /\ linkLock[l] = w /\ LinkOf(w) = l
                          /\ NewLinkStatus(w) = "PAID"
  BY LinkChanges
<1>2. pc[w] = "commit" /\ cur[w] \in Event /\ Cfg(w).action # "ignore"
  BY <1>1 DEF Commit, ControlInv, Control
<1>3. IsConfig(Cfg(w))
  BY <1>2, CurrentEvent
<1>4. Cfg(w).action \in {"create_attempt", "mark_paid"}
  BY <1>1, <1>2, <1>3, ConfigFields DEF NewLinkStatus
<1>5. Cfg(w).attempt_status = "PAID"
  BY <1>1, <1>3, <1>4, ConfigFields DEF LockOrder
<1>6. NoticeOf(w) = "payment_approved"
  BY <1>4, <1>5 DEF NoticeOf
<1>7. pc'[w] = "whatsapp" /\ cur'[w] = cur[w]
  BY <1>1, <1>4 DEF Commit, EarlyReturn, Goto, local, TypeOK
<1>8. LinkOf(w)' = LinkOf(w) /\ NoticeOf(w)' = NoticeOf(w)
  BY <1>2, <1>7, SameEvent
<1>9. QED BY <1>1, <1>6, <1>7, <1>8 DEF Approves

\* A message that is in the outbox stays there, as far as its key goes.
LEMMA MessageStays ==
    ASSUME TypeOK, ControlInv, [Next]_vars, NEW l \in Link,
           outbox[l]["payment_approved"] # "ABSENT"
    PROVE  outbox'[l]["payment_approved"] # "ABSENT"
<1>1. "payment_approved" \in Notice
  BY DEF Notice
<1>2. ASSUME NEW w \in Worker, InsertOutbox(w)
      PROVE  outbox'[l]["payment_approved"] # "ABSENT"
  BY <1>1, <1>2 DEF InsertOutbox, TypeOK
<1>3. ASSUME NEW k \in Link, NEW n \in Notice, Deliver(k, n)
      PROVE  outbox'[l]["payment_approved"] # "ABSENT"
  BY <1>1, <1>3 DEF Deliver, TypeOK
<1>4. ASSUME NEW w \in Worker, ActsFor(w), ~InsertOutbox(w)
      PROVE  outbox' = outbox
  BY <1>4 DEF ActsFor, Step, DeadlockVictim, Receive, Redeliver, Reprocess, Ignore, Raise,
     Begin, UpdateLink, FindAttempt, WriteAttempt, Commit, Abort, CheckOutbox,
     InsertClash, QueuePush, Crash, queues
<1>5. QED BY <1>2, <1>3, <1>4, StepCases DEF vars, queues

\* A PAID link has its message, or a thread between the commit and the insert.
LEMMA MessageStep ==
    ASSUME IInv, [Running]_vars, NEW l \in Link, MessageInHand(l)
    PROVE  MessageInHand(l)'
<1> USE DEF IInv
<1>0. [Next]_vars
  BY RunningCases
<1> SUFFICES ASSUME linkStatus'[l] = "PAID", linkStatus[l] = "PAID",
                    outbox[l]["payment_approved"] = "ABSENT"
             PROVE  MessageInHand(l)'
  BY <1>0, PaymentApproves, MessageStays DEF MessageInHand
<1>1. PICK v \in Worker : Approves(v, l) /\ pc[v] # "push"
  BY DEF MessageInHand
<1>2. ASSUME NEW w \in Worker, Runs(w), ActsFor(w)
      PROVE  MessageInHand(l)'
  <2>1. CASE v # w
    BY <1>0, <1>1, <1>2, <2>1, ApprovesFrame DEF MessageInHand
  <2>2. CASE v = w
    <3>1. /\ pc[w] \in {"whatsapp", "insert"}
          /\ LinkOf(w) = l /\ NoticeOf(w) = "payment_approved"
      BY <1>1, <2>2 DEF Approves
    <3>2. CheckOutbox(w) \/ InsertOutbox(w)
      BY <1>2, <3>1 DEF Runs, Step, DeadlockVictim, Receive, Redeliver, Ignore, Raise, Begin,
         UpdateLink, FindAttempt, WriteAttempt, Commit, Abort, InsertClash, QueuePush,
         InTransaction
    <3>3. CASE CheckOutbox(w)
      <4>1. pc'[w] = "insert" /\ cur'[w] = cur[w]
        BY <3>1, <3>3 DEF CheckOutbox, Goto, local, TypeOK
      <4>2. Approves(w, l)'
        BY <1>0, <1>1, <2>2, <4>1, ApprovesStays
      <4>3. QED BY <4>1, <4>2 DEF MessageInHand
    <3>4. CASE InsertOutbox(w)
      <4>1. outbox'[l]["payment_approved"] = "PENDING"
        BY <3>1, <3>4 DEF InsertOutbox, Notice, TypeOK
      <4>2. QED BY <4>1 DEF MessageInHand
    <3>5. QED BY <3>2, <3>3, <3>4
  <2>3. QED BY <2>1, <2>2
<1>3. CASE \/ \E k \in Link, n \in Notice : Deliver(k, n)
           \/ UNCHANGED vars
  <2>1. cur'[v] = cur[v] /\ pc'[v] = pc[v]
    BY <1>3 DEF Deliver, vars, local
  <2>2. Approves(v, l)'
    BY <1>0, <1>1, <2>1, ApprovesStays DEF Approves
  <2>3. QED BY <1>1, <2>1, <2>2 DEF MessageInHand
<1>4. QED BY <1>2, <1>3, RunningCases

\* A message in the outbox has its push, or a thread about to queue it.
LEMMA PushStep ==
    ASSUME IInv, [Running]_vars, NEW l \in Link, PushInHand(l)
    PROVE  PushInHand(l)'
<1> USE DEF IInv
<1>0. [Next]_vars
  BY RunningCases
<1>1. push \subseteq push'
  BY <1>0, StepCases DEF ActsFor, Step, DeadlockVictim, Receive, Redeliver, Reprocess, Ignore, Raise,
     Begin, UpdateLink, FindAttempt, WriteAttempt, Commit, Abort, CheckOutbox, InsertOutbox,
     InsertClash, QueuePush, Crash, Deliver, vars, queues
<1>2. CASE outbox[l]["payment_approved"] = "ABSENT"
  <2> SUFFICES ASSUME outbox'[l]["payment_approved"] # "ABSENT"
               PROVE  \E w \in Worker : Approves(w, l)' /\ pc'[w] = "push"
    BY DEF PushInHand
  <2>1. PICK w \in Worker : /\ InsertOutbox(w)
                            /\ LinkOf(w) = l /\ NoticeOf(w) = "payment_approved"
    <3>1. ASSUME NEW k \in Link, NEW n \in Notice, Deliver(k, n) PROVE FALSE
      BY <1>2, <3>1 DEF Deliver, Notice, TypeOK
    <3>2. ASSUME NEW w \in Worker, ActsFor(w), ~InsertOutbox(w) PROVE FALSE
      BY <1>2, <3>2 DEF ActsFor, Step, DeadlockVictim, Receive, Redeliver, Reprocess, Ignore, Raise,
         Begin, UpdateLink, FindAttempt, WriteAttempt, Commit, Abort, CheckOutbox,
         InsertClash, QueuePush, Crash, queues
    <3>3. PICK w \in Worker : InsertOutbox(w)
      BY <1>0, <1>2, <3>1, <3>2, StepCases DEF vars, queues
    <3>4. LinkOf(w) = l /\ NoticeOf(w) = "payment_approved"
      BY <1>2, <3>3 DEF InsertOutbox, Notice, TypeOK
    <3>5. QED BY <3>3, <3>4
  <2>2. pc[w] = "insert" /\ pc'[w] = "push" /\ cur'[w] = cur[w]
    BY <2>1 DEF InsertOutbox, Goto, local, TypeOK
  <2>3. Approves(w, l)'
    BY <1>0, <2>1, <2>2, ApprovesStays DEF Approves
  <2>4. QED BY <2>2, <2>3
<1>3. CASE <<l, "payment_approved", NoId>> \in push
  BY <1>1, <1>3 DEF PushInHand
<1>4. CASE /\ outbox[l]["payment_approved"] # "ABSENT"
           /\ <<l, "payment_approved", NoId>> \notin push
  <2>1. PICK v \in Worker : Approves(v, l) /\ pc[v] = "push"
    BY <1>4 DEF PushInHand
  <2>2. ASSUME NEW w \in Worker, Runs(w), ActsFor(w)
        PROVE  PushInHand(l)'
    <3>1. CASE v # w
      BY <1>0, <2>1, <2>2, <3>1, ApprovesFrame DEF PushInHand
    <3>2. CASE v = w
      <4>1. QueuePush(w)
        BY <2>1, <2>2, <3>2 DEF Runs, Step, DeadlockVictim, Receive, Redeliver, Ignore, Raise, Begin,
           UpdateLink, FindAttempt, WriteAttempt, Commit, Abort, CheckOutbox, InsertOutbox,
           InsertClash, InTransaction
      <4>2. PushKey(w) = <<l, "payment_approved", NoId>>
        BY <2>1, <3>2 DEF PushKey, Approves
      <4>3. QED BY <4>1, <4>2 DEF QueuePush, PushInHand
    <3>3. QED BY <3>1, <3>2
  <2>3. CASE \/ \E k \in Link, n \in Notice : Deliver(k, n)
             \/ UNCHANGED vars
    <3>1. cur'[v] = cur[v] /\ pc'[v] = pc[v]
      BY <2>3 DEF Deliver, vars, local
    <3>2. Approves(v, l)'
      BY <1>0, <2>1, <3>1, ApprovesStays DEF Approves
    <3>3. QED BY <2>1, <3>1, <3>2 DEF PushInHand
  <2>4. QED BY <2>2, <2>3, RunningCases
<1>5. QED BY <1>2, <1>3, <1>4

\* However many threads, events and links there are, and through every rollback,
\* deadlock, duplicate and clash, an event that is not settled and a payment that
\* is not announced are in the hands of a running thread: only a death loses them.
THEOREM NothingForgotten == RunningSpec => []NothingIsForgotten
<1> DEFINE InHand == /\ \A e \in Event : EventInHand(e)
                     /\ \A l \in Link : MessageInHand(l) /\ PushInHand(l)
<1>1. Init => InHand
  BY DEF Init, EventInHand, MessageInHand, PushInHand, Notice
<1>2. IInv /\ InHand /\ [Running]_vars => InHand'
  BY EventStep, MessageStep, PushStep
<1>3. InHand => NothingIsForgotten
  BY DEF NothingIsForgotten, EventInHand, MessageInHand, PushInHand
<1>4. [Running]_vars => [Next]_vars
  BY RunningCases
<1> HIDE DEF InHand
<1>5. QED
  BY <1>1, <1>2, <1>3, <1>4, Invariance, PTL DEF RunningSpec, Spec
=============================================================================
