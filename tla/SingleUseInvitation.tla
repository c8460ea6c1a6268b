------------------------- MODULE SingleUseInvitation -------------------------
(***************************************************************************)
(* What the invitations of a seller promise, with no threads and no locks: *)
(* an invitation is open once, until it is used or revoked, for ever; its  *)
(* use and the session it opens are one step; and that step finds the      *)
(* seller active.                                                          *)
(***************************************************************************)
CONSTANTS
    Invitation,
    Device   \* what a session is opened for

VARIABLES
    active,    \* the seller may log in
    born,      \* invitations that were issued
    used,      \* those that opened a session
    revoked,   \* those that never will
    sessions,  \* the sessions ever opened: by which invitation, for what
    live       \* those that still work

life == <<born, used, revoked>>
access == <<sessions, live>>
vars == <<active, life, access>>

Init ==
    /\ active = TRUE
    /\ born = {} /\ used = {} /\ revoked = {}
    /\ sessions = {} /\ live = {}

Open == born \ (used \union revoked)

\* Some of the open invitations, or none, are revoked, and nothing is ever restored.
Withdraw ==
    /\ revoked' \in SUBSET (revoked \union Open)
    /\ revoked \subseteq revoked'

Revoke ==
    /\ Withdraw
    /\ UNCHANGED <<active, born, used, access>>

\* A new invitation, in place of some.
Issue(i) ==
    /\ i \notin born
    /\ born' = born \union {i}
    /\ Withdraw
    /\ UNCHANGED <<active, used, access>>

Redeem(i, d) ==
    /\ active
    /\ i \in Open
    /\ used' = used \union {i}
    /\ sessions' = sessions \union {<<i, d>>}
    /\ live' = live \union {<<i, d>>}
    /\ UNCHANGED <<active, born, revoked>>

\* Sessions are closed, and never opened again.
Close ==
    /\ live' \in SUBSET live
    /\ UNCHANGED <<active, life, sessions>>

Toggle ==
    /\ active' \in BOOLEAN
    /\ UNCHANGED <<life, access>>

Next ==
    \/ Revoke \/ Close \/ Toggle
    \/ \E i \in Invitation : Issue(i) \/ \E d \in Device : Redeem(i, d)

Spec == Init /\ [][Next]_vars
=============================================================================
