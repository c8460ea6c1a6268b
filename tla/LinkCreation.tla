---------------------------- MODULE LinkCreation ----------------------------
(***************************************************************************)
(* create_payment_link of apps/payment_links, as the API runs it: requests *)
(* with an Idempotency-Key are served by concurrent threads, each of which *)
(* looks for a row of its key, inserts one, calls Pagar.me with no         *)
(* transaction open, saves the whole row with what came back, queues the   *)
(* WhatsApp message and answers.  Retries are requests with the same key.  *)
(*                                                                         *)
(* One seller; a link row is identified by its key, which the database     *)
(* keeps unique per seller.                                                *)
(***************************************************************************)
EXTENDS Naturals, FiniteSets

CONSTANTS
    Request,     \* HTTP requests, retries included
    Key,         \* idempotency keys
    Payload,     \* amount, installments and reference of a request
    NoLink,      \* no row of the key
    NoValue,     \* the key or payload of a request that has not arrived
    MaxCrashes   \* bound on the threads that die

ASSUME ConstantsAssumption ==
    /\ NoValue \notin Key \union Payload
    /\ MaxCrashes \in Nat

\* The states a link has at its creation, and those webhooks give it.
LinkStatus == {"CREATING", "ACTIVE", "CREATION_ERROR", "CREATION_UNKNOWN", "PAID", "CANCELED"}

\* url: payment_url is not empty.
LinkRow == [payload : Payload, status : LinkStatus, url : BOOLEAN]

ASSUME NoLinkAssumption == NoLink \notin LinkRow

VARIABLES
    link,      \* PaymentLink row of each key
    charges,   \* links Pagar.me made for the row: who asked, and for what
    message,   \* text of the payment_link_created message: with a URL or blank
    pending,   \* its outbox row is PENDING or PROCESSING
    pc,        \* where each request is
    key,       \* its Idempotency-Key
    payload,   \* its body
    result,    \* what create_payment_link returns
    url,       \* the payment_link object in memory has a URL
    answer,    \* the HTTP answer
    crashes    \* threads that died

store == <<link, charges>>
outbox == <<message, pending>>
body == <<key, payload>>
vars == <<store, outbox, pc, body, result, url, answer, crashes>>

PC == {"idle", "check", "insert", "call", "save", "queue", "message", "done"}

\* What the provider answered, or how a row was found without calling it.
Result == {"none", "active", "building", "refused", "unknown", "replay", "resend"}

\* 201, 202, 422, 409, 500, the validation errors, and no answer at all.
Answer == {"none", "created", "uncertain", "refused", "conflict", "failed", "rejected", "lost"}

TypeOK ==
    /\ link \in [Key -> LinkRow \union {NoLink}]
    /\ charges \in [Key -> SUBSET (Request \X Payload)]
    /\ message \in [Key -> {"none", "blank", "url"}]
    /\ pending \in [Key -> BOOLEAN]
    /\ pc \in [Request -> PC]
    /\ key \in [Request -> Key \union {NoValue}]
    /\ payload \in [Request -> Payload \union {NoValue}]
    /\ result \in [Request -> Result]
    /\ url \in [Request -> BOOLEAN]
    /\ answer \in [Request -> Answer]
    /\ crashes \in 0..MaxCrashes

Init ==
    /\ link = [k \in Key |-> NoLink]
    /\ charges = [k \in Key |-> {}]
    /\ message = [k \in Key |-> "none"]
    /\ pending = [k \in Key |-> FALSE]
    /\ pc = [r \in Request |-> "idle"]
    /\ key = [r \in Request |-> NoValue]
    /\ payload = [r \in Request |-> NoValue]
    /\ result = [r \in Request |-> "none"]
    /\ url = [r \in Request |-> FALSE]
    /\ answer = [r \in Request |-> "none"]
    /\ crashes = 0

Goto(r, label) == pc' = [pc EXCEPT ![r] = label]

Reply(r, a) ==
    /\ Goto(r, "done")
    /\ answer' = [answer EXCEPT ![r] = a]

-----------------------------------------------------------------------------
(* The requests                                                             *)

\* A request that passes authentication and validation.
Arrive(r, k, p) ==
    /\ pc[r] = "idle"
    /\ key' = [key EXCEPT ![r] = k]
    /\ payload' = [payload EXCEPT ![r] = p]
    /\ Goto(r, "check")
    /\ UNCHANGED <<store, outbox, result, url, answer, crashes>>

\* One that does not: nothing is stored.
Reject(r) ==
    /\ pc[r] = "idle"
    /\ Reply(r, "rejected")
    /\ UNCHANGED <<store, outbox, body, result, url, crashes>>

\* resend_payment_link_view: the message of a link with a URL is queued again.
Resend(r, k) ==
    /\ pc[r] = "idle"
    /\ link[k] # NoLink /\ link[k].url
    /\ key' = [key EXCEPT ![r] = k]
    /\ payload' = [payload EXCEPT ![r] = link[k].payload]
    /\ result' = [result EXCEPT ![r] = "resend"]
    /\ url' = [url EXCEPT ![r] = TRUE]
    /\ Goto(r, "queue")
    /\ UNCHANGED <<store, outbox, answer, crashes>>

-----------------------------------------------------------------------------
(* create_payment_link                                                      *)

\* Mutant: the row of the key is returned whatever was asked for.
SamePayload_Any(r) == TRUE

\* Mutant: the bodies are compared in two forms, and no retry is recognised.
SamePayload_Never(r) == FALSE

SamePayload(r) == link[key[r]].payload = payload[r]

\* The idempotency check: a row of the key is returned as it is, whatever its
\* status, or the key was used for something else.
Check(r) ==
    /\ pc[r] = "check"
    /\ \/ /\ link[key[r]] = NoLink
          /\ Goto(r, "insert")
          /\ UNCHANGED <<result, url, answer>>
       \/ /\ link[key[r]] # NoLink /\ SamePayload(r)
          /\ result' = [result EXCEPT ![r] = "replay"]
          /\ url' = [url EXCEPT ![r] = link[key[r]].url]
          /\ Goto(r, "queue")
          /\ UNCHANGED answer
       \/ /\ link[key[r]] # NoLink /\ ~SamePayload(r)
          /\ Reply(r, "conflict")
          /\ UNCHANGED <<result, url>>
    /\ UNCHANGED <<store, outbox, body, crashes>>

\* Mutant: the table has no unique constraint to stop the second insert.
KeyTaken_Never(k) == FALSE

\* unique_seller_idempotency.
KeyTaken(k) == link[k] # NoLink

\* The row is inserted as CREATING.  When another thread inserted one since the
\* check, the unique constraint ends the request with an uncaught error.
Insert(r) ==
    /\ pc[r] = "insert"
    /\ IF KeyTaken(key[r])
       THEN Reply(r, "failed") /\ UNCHANGED link
       ELSE /\ link' = [link EXCEPT ![key[r]] =
                          [payload |-> payload[r], status |-> "CREATING", url |-> FALSE]]
            /\ Goto(r, "call")
            /\ UNCHANGED answer
    /\ UNCHANGED <<charges, outbox, body, result, url, crashes>>

\* POST /paymentlinks: the provider makes a link or not, and the thread learns
\* that it did, gets an HTTP error (from the provider or from a gateway before
\* it), or gets no usable answer.
Call(r, makes, reply) ==
    /\ pc[r] = "call"
    /\ reply \in {"active", "building"} => makes
    /\ charges' = IF makes
                  THEN [charges EXCEPT ![key[r]] = @ \union {<<r, payload[r]>>}]
                  ELSE charges
    /\ result' = [result EXCEPT ![r] = reply]
    /\ url' = [url EXCEPT ![r] = reply \in {"active", "building"}]
    /\ Goto(r, "save")
    /\ UNCHANGED <<link, outbox, body, answer, crashes>>

\* The status of the row after the call.
CreationStatus(reply) ==
    CASE reply = "active"   -> "ACTIVE"
      [] reply = "building" -> "CREATING"
      [] reply = "refused"  -> "CREATION_ERROR"
      [] reply = "unknown"  -> "CREATION_UNKNOWN"

\* save() without update_fields: every column is written from memory.  After a
\* PagarmeError the use case fails, otherwise the view goes on.
Save(r) ==
    /\ pc[r] = "save"
    /\ link' = [link EXCEPT ![key[r]] =
                  [payload |-> payload[r], status |-> CreationStatus(result[r]), url |-> url[r]]]
    /\ IF result[r] = "refused"
       THEN Reply(r, "refused")
       ELSE Goto(r, "queue") /\ UNCHANGED answer
    /\ UNCHANGED <<charges, outbox, body, result, url, crashes>>

-----------------------------------------------------------------------------
(* _queue_whatsapp_notifications, and the answer                            *)

Answered(r) ==
    Reply(r, IF result[r] \in {"unknown", "resend"} THEN "uncertain" ELSE "created")

\* A message of the link is waiting to be sent: this one is a duplicate.
QueueDuplicate(r) ==
    /\ pc[r] = "queue"
    /\ pending[key[r]]
    /\ Answered(r)
    /\ UNCHANGED <<store, outbox, body, result, url, crashes>>

QueueNew(r) ==
    /\ pc[r] = "queue"
    /\ ~pending[key[r]]
    /\ Goto(r, "message")
    /\ UNCHANGED <<store, outbox, body, result, url, answer, crashes>>

\* The old row is deleted and the new one inserted; the text is rendered from
\* the object in memory.
QueueMessage(r) ==
    /\ pc[r] = "message"
    /\ message' = [message EXCEPT ![key[r]] = IF url[r] THEN "url" ELSE "blank"]
    /\ pending' = [pending EXCEPT ![key[r]] = TRUE]
    /\ Answered(r)
    /\ UNCHANGED <<store, body, result, url, crashes>>

\* Another thread inserted its row between the delete and the insert: the unique
\* key of the outbox ends the request with an uncaught error.
QueueClash(r) ==
    /\ pc[r] = "message"
    /\ pending[key[r]]
    /\ Reply(r, "failed")
    /\ UNCHANGED <<store, outbox, body, result, url, crashes>>

-----------------------------------------------------------------------------
(* The others                                                               *)

\* The outbox worker settles the message.
Deliver(k) ==
    /\ pending[k]
    /\ pending' = [pending EXCEPT ![k] = FALSE]
    /\ UNCHANGED <<store, message, pc, body, result, url, answer, crashes>>

\* A webhook: a link is paid by who was given its URL, and canceled at the
\* provider's dashboard once the provider has it.
Webhook(k, s) ==
    /\ link[k] # NoLink /\ charges[k] # {}
    /\ \/ s = "PAID" /\ link[k].url
       \/ s = "CANCELED" /\ link[k].status # "PAID"
    /\ link' = [link EXCEPT ![k].status = s]
    /\ UNCHANGED <<charges, outbox, pc, body, result, url, answer, crashes>>

\* The thread dies: gunicorn's timeout, a deploy.
Crash(r) ==
    /\ pc[r] \notin {"idle", "done"}
    /\ crashes < MaxCrashes
    /\ crashes' = crashes + 1
    /\ Reply(r, "lost")
    /\ UNCHANGED <<store, outbox, body, result, url>>

Create(r) ==
    \/ Check(r) \/ Insert(r)
    \/ \E makes \in BOOLEAN, reply \in {"active", "building", "refused", "unknown"} :
          Call(r, makes, reply)
    \/ Save(r)

Queue(r) == QueueDuplicate(r) \/ QueueNew(r) \/ QueueMessage(r) \/ QueueClash(r)

Next ==
    \/ \E r \in Request :
          \/ \E k \in Key : Resend(r, k) \/ \E p \in Payload : Arrive(r, k, p)
          \/ Reject(r) \/ Create(r) \/ Queue(r) \/ Crash(r)
    \/ \E k \in Key : Deliver(k) \/ \E s \in {"PAID", "CANCELED"} : Webhook(k, s)

Spec == Init /\ [][Next]_vars

-----------------------------------------------------------------------------
(* Properties                                                               *)

\* A key never makes two links at the provider, however often it is retried and
\* whatever the retries race with; and a link the provider made has its row, by
\* which its webhooks find it.
OneCharge ==
    \A k \in Key :
        /\ Cardinality(charges[k]) <= 1
        /\ charges[k] # {} => link[k] # NoLink

\* A URL that a request is answered with is that of a link the provider made for
\* this very body, even if another request of the key made it.
UrlIsForThisBody ==
    \A r \in Request : answer[r] = "created" /\ url[r] =>
        \E q \in Request : charges[key[r]] = {<<q, payload[r]>>}

\* Saving the row after the provider call never undoes a payment: no creation,
\* retry or replay writes over a PAID link.
PaidIsKept ==
    [][\A k \in Key : link[k] # NoLink /\ link[k].status = "PAID" =>
          link'[k].status = "PAID"]_vars

\* What each request was told in the end, of which key and body.
Told(r) ==
    IF answer[r] = "created" /\ url[r]
    THEN [key |-> key[r], body |-> payload[r], word |-> "url"]
    ELSE IF answer[r] = "conflict"
    THEN [key |-> key[r], body |-> payload[r], word |-> "conflict"]
    ELSE NoValue

Promise == INSTANCE IdempotentCreation WITH
    Nothing <- NoValue,
    bound <- [k \in Key |-> IF link[k] = NoLink THEN NoValue ELSE link[k].payload],
    paid <- {k \in Key : link[k] # NoLink /\ link[k].status = "PAID"},
    told <- [r \in Request |-> Told(r)]

\* "Same key, same payload = return existing", "Different payload = conflict": whatever
\* races between the check, the insert, the provider call and the late save, what the
\* requests are told is what an idempotent creation would have told them.
ImplementsCreation == Promise!Spec

\* "Depois da criação, o link deve ser enviado ao WhatsApp cadastrado do
\* vendedor": a link that was answered with its URL was queued with it.
UrlIsSent ==
    \A r \in Request : answer[r] = "created" /\ url[r] => message[key[r]] = "url"
=============================================================================
