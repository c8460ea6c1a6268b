-------------------------- MODULE MCPagarmeWebhook --------------------------
(***************************************************************************)
(* Instances of PagarmeWebhook for TLC: one payment link and one order     *)
(* whose charge the order events name and the charge events do not         *)
(* (_extract_charge_id reads data.charges, which a charge payload lacks).  *)
(***************************************************************************)
EXTENDS PagarmeWebhook, TLC

CONSTANTS l1, o1, c1

OneEvent(t, l) ==
    [type |-> t, link |-> l, order |-> o1,
     charge |-> IF t \in {"order.paid", "order.payment_failed"} THEN c1 ELSE NoId]

\* Three events, one after the other: every handler but the chargeback's, which
\* writes an attempt as a failure's does.
SerialPayload ==
    {OneEvent(t, l1) : t \in EventType \ {"order.created", "charge.chargedback"}}

\* Two events at once: the handlers that lock rows in either order, one that
\* leaves the link alone, and events that resolve to no link or raise.
ConcurrentPayload ==
    {OneEvent(t, l1) : t \in {"order.paid", "charge.paid", "charge.refunded",
                              "order.canceled", "charge.chargedback"}}
    \union {OneEvent("order.paid", NoLink), OneEvent("order.paid", Raises)}

\* The two confirmations of one payment, an event that is mapped to "ignore", and
\* one whose normalisation raises.
PaymentPayload ==
    {OneEvent(t, l1) : t \in {"order.paid", "charge.paid", "order.created"}}
    \union {OneEvent("order.paid", Raises)}

Symmetry == Permutations(Worker) \union Permutations(Event) \union Permutations(AttemptId)
=============================================================================
