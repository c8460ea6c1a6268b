------------------------- MODULE PaymentCorrelation -------------------------
(***************************************************************************)
(* How a webhook of apps/webhooks finds its payment link: normalize_event  *)
(* on a payload that may lack any of its parts, the lookups of             *)
(* _find_payment_link in their order, each a query of its own, and the     *)
(* rows that create_payment_link inserts and saves and an administrator    *)
(* may delete meanwhile.  PagarmeWebhook begins where this module ends:    *)
(* there an event carries the link it was found to be about.               *)
(***************************************************************************)
EXTENDS Naturals, FiniteSets

CONSTANTS
    Link,         \* PaymentLink rows
    Reference,    \* references, which the sellers choose and may repeat
    Event,        \* WebhookEvent rows
    NoLink,       \* no link found, or an order that no link of ours made
    NoReference,  \* data.code is missing
    NoPayload,    \* an event that has not arrived
    MaxRetries    \* bound on the events that are processed again

ASSUME ConstantsAssumption ==
    /\ NoLink \notin Link
    /\ NoReference \notin Reference
    /\ MaxRetries \in Nat

VARIABLES
    row,      \* the row of each link: none, or one without or with the provider's id
    call,     \* where create_payment_link is with each link
    made,     \* links that the provider has made
    ref,      \* PaymentLink.reference, also of the copy that create_payment_link has
    payload,  \* what each event carries
    status,   \* WebhookEvent.processing_status
    step,     \* where process_webhook_event is
    found,    \* the link it found
    marked,   \* the link that its last run has marked (history)
    known,    \* provider_link_id was stored when that run began (history)
    kept,     \* and the event's own row was there all through it (history)
    retries   \* events processed again so far

links == <<row, call, made, ref>>
work == <<step, found>>
history == <<marked, known, kept>>
vars == <<links, payload, status, work, history, retries>>

\* A payload is about the link "of", which it does not say as such.  "id" is an
\* object with internal_payment_link_id, "none" an object without it or nothing
\* at all, "null" a value of another type, "bad" an id that is not a UUID.
\* named: payment_link.id, checkout.id or data.id is the provider's id of the link.
\* null: payment_link, checkout or order is there and is null.
\* An order that another system made carries no id of ours.
Payload ==
    {p \in [of : Link \union {NoLink},
            metadata : {"id", "none", "null", "bad"},
            order_metadata : {"id", "none", "null"},
            charge_metadata : {"id", "none"},
            named : BOOLEAN,
            code : Reference \union {NoReference},
            null : BOOLEAN] :
        p.of = NoLink =>
            ~p.named /\ "id" \notin {p.metadata, p.order_metadata, p.charge_metadata}}

TypeOK ==
    /\ row \in [Link -> {"none", "plain", "known"}]
    /\ call \in [Link -> {"before", "calling", "over"}]
    /\ made \in SUBSET Link
    /\ ref \in [Link -> Reference \union {NoReference}]
    /\ payload \in [Event -> Payload \union {NoPayload}]
    /\ status \in [Event -> {"ABSENT", "RECEIVED", "PROCESSED", "IGNORED", "FAILED"}]
    /\ step \in [Event -> {"idle", "normalize", "internal", "provider", "reference", "mark"}]
    /\ found \in [Event -> Link \union {NoLink}]
    /\ marked \in [Event -> Link \union {NoLink}]
    /\ known \in [Event -> BOOLEAN]
    /\ kept \in [Event -> BOOLEAN]
    /\ retries \in 0..MaxRetries
    /\ \A l \in Link : IF call[l] = "before"
                         THEN row[l] = "none" /\ l \notin made /\ ref[l] = NoReference
                         ELSE ref[l] # NoReference
    /\ \A l \in Link : row[l] = "known" => call[l] = "over"
    /\ \A e \in Event : IF status[e] = "ABSENT"
                          THEN payload[e] = NoPayload /\ step[e] = "idle"
                          ELSE payload[e] \in Payload
    /\ \A e \in Event : IF step[e] = "mark" THEN found[e] \in Link ELSE found[e] = NoLink

Init ==
    /\ row = [l \in Link |-> "none"]
    /\ call = [l \in Link |-> "before"]
    /\ made = {}
    /\ ref = [l \in Link |-> NoReference]
    /\ payload = [e \in Event |-> NoPayload]
    /\ status = [e \in Event |-> "ABSENT"]
    /\ step = [e \in Event |-> "idle"]
    /\ found = [e \in Event |-> NoLink]
    /\ marked = [e \in Event |-> NoLink]
    /\ known = [e \in Event |-> FALSE]
    /\ kept = [e \in Event |-> FALSE]
    /\ retries = 0

-----------------------------------------------------------------------------
(* The rows                                                                 *)

Exists(l) == row[l] # "none"

\* PaymentLink.objects.create, before the provider hears of the link.
Insert(l, r) ==
    /\ call[l] = "before"
    /\ call' = [call EXCEPT ![l] = "calling"]
    /\ row' = [row EXCEPT ![l] = "plain"]
    /\ ref' = [ref EXCEPT ![l] = r]
    /\ UNCHANGED <<made, payload, status, work, history, retries>>

\* client.create_payment_link: from here on the provider may send its events.
Make(l) ==
    /\ call[l] = "calling" /\ l \notin made
    /\ made' = made \union {l}
    /\ UNCHANGED <<row, call, ref, payload, status, work, history, retries>>

\* The end of the call: save() with the provider's id, or without it after an exception.
\* It writes the whole row, and inserts it again if it was deleted during the call.
SaveLink(l, s) ==
    /\ call[l] = "calling"
    /\ s = "known" => l \in made
    /\ call' = [call EXCEPT ![l] = "over"]
    /\ row' = [row EXCEPT ![l] = s]
    /\ UNCHANGED <<made, ref, payload, status, work, history, retries>>

\* An administrator deletes the row, at any time.
Delete(l) ==
    /\ Exists(l)
    /\ row' = [row EXCEPT ![l] = "none"]
    /\ kept' = [e \in Event |-> kept[e] /\ (step[e] # "idle" => payload[e].of # l)]
    /\ UNCHANGED <<call, made, ref, payload, status, work, marked, known, retries>>

-----------------------------------------------------------------------------
(* An event                                                                 *)

\* The provider sends events of the links it has, with the reference each was made
\* with, and of the orders of other systems.
Sendable(p) ==
    p.of # NoLink => p.of \in made /\ p.code \in {ref[p.of], NoReference}

Begin(e, p) ==
    /\ step' = [step EXCEPT ![e] = "normalize"]
    /\ marked' = [marked EXCEPT ![e] = NoLink]
    /\ known' = [known EXCEPT ![e] = p.of # NoLink /\ row[p.of] = "known"]
    /\ kept' = [kept EXCEPT ![e] = p.of # NoLink /\ Exists(p.of)]
    /\ UNCHANGED <<links, found>>

\* pagarme_webhook stores the event and processes it in the same thread.
Receive(e, p) ==
    /\ status[e] = "ABSENT"
    /\ Sendable(p)
    /\ payload' = [payload EXCEPT ![e] = p]
    /\ status' = [status EXCEPT ![e] = "RECEIVED"]
    /\ Begin(e, p)
    /\ UNCHANGED retries

\* A second delivery of a FAILED event, or reprocess_event of the admin.
Again(e) ==
    /\ step[e] = "idle" /\ status[e] # "ABSENT"
    /\ retries < MaxRetries
    /\ retries' = retries + 1
    /\ status' = [status EXCEPT ![e] = IF @ = "FAILED" THEN @ ELSE "RECEIVED"]
    /\ Begin(e, payload[e])
    /\ UNCHANGED payload

\* An exception before the try of process_webhook_event leaves the event as it is.
Raise(e) ==
    /\ step' = [step EXCEPT ![e] = "idle"]
    /\ UNCHANGED <<links, payload, status, found, history, retries>>

Goto(e, s) ==
    /\ step' = [step EXCEPT ![e] = s]
    /\ UNCHANGED <<links, payload, status, found, history, retries>>

\* The object is found and the handler will write to it.
Find(e, l) ==
    /\ step' = [step EXCEPT ![e] = "mark"]
    /\ found' = [found EXCEPT ![e] = l]
    /\ UNCHANGED <<links, payload, status, history, retries>>

Settle(e, s) ==
    /\ step' = [step EXCEPT ![e] = "idle"]
    /\ found' = [found EXCEPT ![e] = NoLink]
    /\ status' = [status EXCEPT ![e] = s]
    /\ UNCHANGED <<links, payload, known, kept, retries>>

\* normalize_event: .get() of a null raises.
Normalize(e) ==
    /\ step[e] = "normalize"
    /\ IF payload[e].null THEN Raise(e) ELSE Goto(e, "internal")

\* Mutant: only the metadata of the order is read.
InternalId_OrderOnly(p) == IF p.order_metadata # "null" THEN p.order_metadata ELSE p.charge_metadata

\* _extract_internal_id returns with the first metadata that is an object, whether or
\* not the id is in it; a missing metadata is an empty object.
InternalId(p) ==
    IF p.metadata # "null" THEN p.metadata
    ELSE IF p.order_metadata # "null" THEN p.order_metadata
    ELSE p.charge_metadata

\* The row of the internal id; an id that is no UUID raises a ValidationError, which
\* is not one of the exceptions that are caught.
ByInternal(e) ==
    /\ step[e] = "internal"
    /\ LET p == payload[e]
       IN  CASE InternalId(p) = "bad" -> Raise(e)
             [] InternalId(p) = "id" /\ Exists(p.of) -> Find(e, p.of)
             [] OTHER -> Goto(e, "provider")

\* The row of the provider's id, by payment_link.id, checkout.id and order id, which
\* is data.id where there is no order.
ByProvider(e) ==
    /\ step[e] = "provider"
    /\ IF payload[e].named /\ row[payload[e].of] = "known"
       THEN Find(e, payload[e].of)
       ELSE Goto(e, "reference")

Candidates(e) == {l \in Link : Exists(l) /\ ref[l] = payload[e].code}

\* Mutant: the first of several rows is taken.
Chosen_First(e) == Candidates(e)

\* A row is found by its reference if no other row has it.
Chosen(e) == {l \in Candidates(e) : Candidates(e) = {l}}

\* Mutant: .get() for the reference, which raises when several rows have it.
ByReference_Get(e) ==
    /\ step[e] = "reference"
    /\ \/ \E l \in Chosen(e) : Find(e, l)
       \/ Chosen(e) = {} /\ Candidates(e) # {} /\ Raise(e)
       \/ Candidates(e) = {} /\ Settle(e, "IGNORED") /\ UNCHANGED marked

ByReference(e) ==
    /\ step[e] = "reference"
    /\ \/ \E l \in Chosen(e) : Find(e, l)
       \/ Chosen(e) = {} /\ Settle(e, "IGNORED") /\ UNCHANGED marked

\* The handlers' transaction.  A row that is gone makes it fail, as whatever else raises
\* in it does, and nothing is marked; what raises in its callbacks comes after the
\* commit.  Both end in the one except clause.  The guard before the handlers, which may
\* ignore an event whose link was found, is in PagarmeWebhook.
Mark(e) ==
    /\ step[e] = "mark"
    /\ \/ /\ Exists(found[e])
          /\ marked' = [marked EXCEPT ![e] = found[e]]
          /\ \E s \in {"PROCESSED", "FAILED"} : Settle(e, s)
       \/ Settle(e, "FAILED") /\ UNCHANGED marked

Next ==
    \/ \E l \in Link :
          \/ \E r \in Reference : Insert(l, r)
          \/ Make(l) \/ Delete(l)
          \/ \E s \in {"plain", "known"} : SaveLink(l, s)
    \/ \E e \in Event :
          \/ \E p \in Payload : Receive(e, p)
          \/ Again(e) \/ Normalize(e) \/ ByInternal(e) \/ ByProvider(e) \/ ByReference(e) \/ Mark(e)

Spec == Init /\ [][Next]_vars

-----------------------------------------------------------------------------
(* Properties                                                               *)

\* A payment marks another link than its own only by that link's reference, and only
\* if it is none of ours or its own row was missing at some moment of its processing:
\* neither a reference that links share nor a row that is still being created, or was
\* deleted and saved again before, can lead it astray.
ForeignIsOrphan ==
    \A e \in Event : marked[e] # NoLink /\ marked[e] # payload[e].of =>
        ~kept[e] /\ payload[e].code = ref[marked[e]]

\* An event whose own row was there all through its processing is ignored for want of a
\* link only if nothing in its payload singled the row out: no internal id where it is
\* looked for, no provider's id that was stored when the event came, and no reference or
\* one that another link was made with.
IgnoredIsExplained ==
    \A e \in Event : status[e] = "IGNORED" /\ kept[e] =>
        /\ payload[e].metadata # "id"
        /\ payload[e].metadata = "null" => payload[e].order_metadata # "id"
        /\ ~(payload[e].named /\ known[e])
        /\ \/ payload[e].code = NoReference
           \/ \E l \in Link \ {payload[e].of} : ref[l] = payload[e].code

\* normalize_event or the look-up by internal id raises.
Raises(p) == p.null \/ InternalId(p) = "bad"

\* Whatever fails and whichever rows come and go, processing leaves an event RECEIVED
\* only if its payload raises before the try, which has then stopped it short of every
\* link; it is FAILED only if it got as far as the handlers, so that the redelivery
\* which runs it again is not wasted; and PROCESSED only with a link that it marked.
UnsettledIsExplained ==
    \A e \in Event : step[e] = "idle" =>
        /\ status[e] = "RECEIVED" => Raises(payload[e]) /\ marked[e] = NoLink
        /\ status[e] = "FAILED" => ~Raises(payload[e])
        /\ status[e] = "PROCESSED" => marked[e] # NoLink

\* "payload inválido não quebra worker" (10_TESTES_E_ACEITE): processing an event ends
\* with a status; left RECEIVED, the event is helped by no second delivery.
EveryEventSettles ==
    \A e \in Event : step[e] = "idle" => status[e] # "RECEIVED"
=============================================================================
