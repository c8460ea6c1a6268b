-------------------------- MODULE IdempotentCreation --------------------------
(***************************************************************************)
(* What POST /payment-links promises to those who retry: the first body of *)
(* a key is its body for ever, the provider is asked once for it, and a    *)
(* request that is answered with a URL or a conflict was told the truth    *)
(* about it.  Nothing is promised of the other answers.                    *)
(***************************************************************************)
CONSTANTS
    Request,   \* HTTP requests
    Key,       \* idempotency keys
    Payload,   \* bodies
    Nothing    \* no body yet, and a request that was told nothing

VARIABLES
    bound,     \* the body of each key
    charges,   \* links the provider made for it: who asked, and for what
    paid,      \* keys whose link was paid
    told       \* what each request was told of which key and body

vars == <<bound, charges, paid, told>>

Init ==
    /\ bound = [k \in Key |-> Nothing]
    /\ charges = [k \in Key |-> {}]
    /\ paid = {}
    /\ told = [r \in Request |-> Nothing]

\* A key is used for the first time.
Bind(k, p) ==
    /\ bound[k] = Nothing
    /\ bound' = [bound EXCEPT ![k] = p]
    /\ UNCHANGED <<charges, paid, told>>

\* The provider makes its only link, for the body of the key.
Charge(r, k) ==
    /\ bound[k] # Nothing
    /\ charges[k] = {}
    /\ charges' = [charges EXCEPT ![k] = {<<r, bound[k]>>}]
    /\ UNCHANGED <<bound, paid, told>>

\* A link that exists is paid, and stays so.
Pay(k) ==
    /\ charges[k] # {}
    /\ paid' = paid \union {k}
    /\ UNCHANGED <<bound, charges, told>>

\* A URL is given for the body it charges, a conflict when the key has another.
Tell(r, k, p, word) ==
    /\ told[r] = Nothing
    /\ \/ word = "url" /\ charges[k] # {} /\ bound[k] = p
       \/ word = "conflict" /\ bound[k] \notin {Nothing, p}
    /\ told' = [told EXCEPT ![r] = [key |-> k, body |-> p, word |-> word]]
    /\ UNCHANGED <<bound, charges, paid>>

Next ==
    \/ \E k \in Key :
          \/ \E p \in Payload : Bind(k, p)
          \/ \E r \in Request : Charge(r, k)
          \/ Pay(k)
    \/ \E r \in Request, k \in Key, p \in Payload, word \in {"url", "conflict"} :
          Tell(r, k, p, word)

Spec == Init /\ [][Next]_vars
=============================================================================
