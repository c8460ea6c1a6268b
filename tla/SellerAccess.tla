---------------------------- MODULE SellerAccess ----------------------------
(***************************************************************************)
(* Invitations and sessions of one seller (apps/sellers, and the actions   *)
(* of apps/admin_panel and the Django admin): threads generate, revoke and *)
(* activate invitations, deactivate the seller and revoke sessions, in     *)
(* READ COMMITTED transactions that wait for each other's row locks.       *)
(*                                                                         *)
(* An UPDATE selects its rows when it starts and visits them in any order: *)
(* it waits for a row that another transaction holds, while it holds those *)
(* it visited, and takes the row if that still matches.                    *)
(* What a transaction wrote is kept with its thread until it commits.      *)
(***************************************************************************)
EXTENDS Naturals, FiniteSets

CONSTANTS
    Thread,        \* threads that serve requests
    Invitation,    \* rows of SellerInvitation, existing or to come
    NoThread,      \* owner of a row that is not locked
    NoInvitation   \* a thread or a message without an invitation

ASSUME ConstantsAssumption ==
    /\ NoThread \notin Thread
    /\ NoInvitation \notin Invitation

VARIABLES
    active,      \* Seller.is_active
    born,        \* invitations that exist
    used,        \* used_at is set
    revoked,     \* revoked_at is set
    expired,     \* expires_at has passed
    sessions,    \* SellerSession rows: the invitation and the thread that made it
    live,        \* sessions whose revoked_at is not set
    message,     \* the invitation whose URL the outbox's message has
    pending,     \* that message waits for the worker
    lock,        \* transaction that holds each invitation row
    sellerLock,  \* transaction that holds the seller row
    pc,          \* where each thread is
    target,      \* the invitation it works on
    late,        \* that was expired when the request read the clock
    found,       \* invitations that were open when its UPDATE started
    todo,        \* those of them that the UPDATE has yet to visit
    sweep,       \* sessions revoke_all_sessions has read and not yet revoked
    wasActive    \* is_active as toggle_seller read it

seller == <<active>>
invitations == <<born, used, revoked, expired>>
access == <<sessions, live>>
outbox == <<message, pending>>
locks == <<lock, sellerLock>>
local == <<target, late, found, todo, sweep, wasActive>>
vars == <<seller, invitations, access, outbox, locks, pc, local>>

Session == Invitation \X Thread

PC == {"idle", "update", "queue", "message", "revoke", "lock", "seller", "session",
       "toggle", "logout_all", "revoke_access"}

TypeOK ==
    /\ active \in BOOLEAN
    /\ born \subseteq Invitation
    /\ used \subseteq born
    /\ revoked \subseteq born
    /\ expired \subseteq born
    /\ sessions \subseteq Session
    /\ live \subseteq sessions
    /\ message \in born \union {NoInvitation}
    /\ pending \in BOOLEAN
    /\ lock \in [Invitation -> Thread \union {NoThread}]
    /\ sellerLock \in Thread \union {NoThread}
    /\ pc \in [Thread -> PC]
    /\ target \in [Thread -> born \union {NoInvitation}]
    /\ late \in [Thread -> BOOLEAN]
    /\ found \in [Thread -> SUBSET born]
    /\ todo \in [Thread -> SUBSET born]
    /\ sweep \in [Thread -> SUBSET sessions]
    /\ wasActive \in [Thread -> BOOLEAN]

Init ==
    /\ active = TRUE
    /\ born = {} /\ used = {} /\ revoked = {} /\ expired = {}
    /\ sessions = {} /\ live = {}
    /\ message = NoInvitation /\ pending = FALSE
    /\ lock = [i \in Invitation |-> NoThread]
    /\ sellerLock = NoThread
    /\ pc = [t \in Thread |-> "idle"]
    /\ target = [t \in Thread |-> NoInvitation]
    /\ late = [t \in Thread |-> FALSE]
    /\ found = [t \in Thread |-> {}]
    /\ todo = [t \in Thread |-> {}]
    /\ sweep = [t \in Thread |-> {}]
    /\ wasActive = [t \in Thread |-> FALSE]

Goto(t, label) == pc' = [pc EXCEPT ![t] = label]

Free(i) == lock[i] = NoThread

\* used_at IS NULL AND revoked_at IS NULL.
Open == born \ (used \union revoked)

\* The transaction of the thread ends, by COMMIT or ROLLBACK.
Unlock(t) ==
    /\ lock' = [i \in Invitation |-> IF lock[i] = t THEN NoThread ELSE lock[i]]
    /\ sellerLock' = IF sellerLock = t THEN NoThread ELSE sellerLock

\* The request is answered.
End(t) ==
    /\ Goto(t, "idle")
    /\ target' = [target EXCEPT ![t] = NoInvitation]
    /\ late' = [late EXCEPT ![t] = FALSE]
    /\ found' = [found EXCEPT ![t] = {}]
    /\ todo' = [todo EXCEPT ![t] = {}]
    /\ sweep' = [sweep EXCEPT ![t] = {}]
    /\ wasActive' = [wasActive EXCEPT ![t] = FALSE]

-----------------------------------------------------------------------------
(* generate_invitation, and its callers                                     *)

\* Mutant: the renewal locks the seller row first.
StartUpdate_LocksSeller(t, label) ==
    /\ sellerLock = NoThread
    /\ sellerLock' = t
    /\ found' = [found EXCEPT ![t] = Open]
    /\ todo' = [todo EXCEPT ![t] = Open]
    /\ Goto(t, label)
    /\ UNCHANGED <<seller, invitations, access, outbox, lock, target, late, sweep, wasActive>>

\* Mutant: the UPDATE skips the rows others hold.
StartUpdate_SkipsLocked(t, label) ==
    /\ found' = [found EXCEPT ![t] = Open]
    /\ todo' = [todo EXCEPT ![t] = {i \in Open : Free(i)}]
    /\ Goto(t, label)
    /\ UNCHANGED <<seller, invitations, access, outbox, locks, target, late, sweep, wasActive>>

\* The UPDATE that revokes the open invitations starts.
StartUpdate(t, label) ==
    /\ found' = [found EXCEPT ![t] = Open]
    /\ todo' = [todo EXCEPT ![t] = Open]
    /\ Goto(t, label)
    /\ UNCHANGED <<seller, invitations, access, outbox, locks, target, late, sweep, wasActive>>

\* generate_invitation, which also ends the administrator's revocation of accesses.
Generate(t) ==
    /\ \/ pc[t] = "idle"
       \/ pc[t] = "revoke_access" /\ sweep[t] = {}
    /\ StartUpdate(t, "update")

\* Its UPDATE, or the panel's, has the next row, and keeps it if that still is open.
TakeRow(t, i) ==
    /\ i \in todo[t]
    /\ Free(i)
    /\ todo' = [todo EXCEPT ![t] = @ \ {i}]
    /\ lock' = IF i \in Open THEN [lock EXCEPT ![i] = t] ELSE lock
    /\ UNCHANGED <<seller, invitations, access, outbox, sellerLock, pc, target, late, found, sweep,
                   wasActive>>

\* The rows its UPDATE wrote.
Taken(t) == {i \in Invitation : lock[i] = t}

\* The UPDATE is over: the new row, whose foreign key waits for the seller row, and COMMIT.
InsertInvitation(t, i) ==
    /\ pc[t] = "update"
    /\ todo[t] = {}
    /\ i \notin born
    /\ sellerLock = NoThread
    /\ born' = born \union {i}
    /\ revoked' = revoked \union Taken(t)
    /\ target' = [target EXCEPT ![t] = i]
    /\ found' = [found EXCEPT ![t] = {}]
    /\ Unlock(t)
    /\ Goto(t, "queue")
    /\ UNCHANGED <<seller, used, expired, access, outbox, late, todo, sweep, wasActive>>

\* queue_invitation: its deduplication key is the seller's, not the invitation's,
\* so a message that waits for the worker keeps the new one out.
QueueDuplicate(t) ==
    /\ pc[t] = "queue"
    /\ pending
    /\ End(t)
    /\ UNCHANGED <<seller, invitations, access, outbox, locks>>

QueueNew(t) ==
    /\ pc[t] = "queue"
    /\ ~pending
    /\ Goto(t, "message")
    /\ UNCHANGED <<seller, invitations, access, outbox, locks, local>>

QueueMessage(t) ==
    /\ pc[t] = "message"
    /\ message' = target[t]
    /\ pending' = TRUE
    /\ End(t)
    /\ UNCHANGED <<seller, invitations, access, locks>>

\* Another thread inserted its row meanwhile: the request ends with an error.
QueueClash(t) ==
    /\ pc[t] = "message"
    /\ pending
    /\ End(t)
    /\ UNCHANGED <<seller, invitations, access, outbox, locks>>

\* revoke_invitation of the panel: the same UPDATE in a transaction of its own.
StartRevoke(t) ==
    /\ pc[t] = "idle"
    /\ StartUpdate(t, "revoke")

\* Mutant: the rows are read, and saved from the copies.
Revoke_Copies(t) ==
    /\ pc[t] = "revoke"
    /\ todo[t] = {}
    /\ revoked' = revoked \union found[t]
    /\ Unlock(t)
    /\ End(t)
    /\ UNCHANGED <<seller, born, used, expired, access, outbox>>

\* It is over, and with it the transaction.
Revoke(t) ==
    /\ pc[t] = "revoke"
    /\ todo[t] = {}
    /\ revoked' = revoked \union Taken(t)
    /\ Unlock(t)
    /\ End(t)
    /\ UNCHANGED <<seller, born, used, expired, access, outbox>>

-----------------------------------------------------------------------------
(* activate_session                                                         *)

\* The clock is read before the invitation is locked.
StartActivation(t, i) ==
    /\ pc[t] = "idle"
    /\ i \in born
    /\ target' = [target EXCEPT ![t] = i]
    /\ late' = [late EXCEPT ![t] = i \in expired]
    /\ Goto(t, "lock")
    /\ UNCHANGED <<seller, invitations, access, outbox, locks, found, todo, sweep, wasActive>>

\* Mutant: select_for_update(of=("self",)), which leaves the seller row alone.
SellerOwner_Nobody(t) == sellerLock

\* select_related with select_for_update locks the seller row too.
SellerOwner(t) == t

\* Mutant: used_at is not looked at again under the lock.
Valid_IgnoresUse(t) == target[t] \notin revoked /\ ~late[t] /\ active

Valid(t) == target[t] \in Open /\ ~late[t] /\ active

\* SELECT ... FOR UPDATE has the row of the invitation, and waits for the seller's ...
LockInvitation(t) ==
    /\ pc[t] = "lock"
    /\ Free(target[t])
    /\ lock' = [lock EXCEPT ![target[t]] = t]
    /\ Goto(t, "seller")
    /\ UNCHANGED <<seller, invitations, access, outbox, sellerLock, local>>

\* ... and returns both as they are now.
LockSeller(t) ==
    /\ pc[t] = "seller"
    /\ sellerLock = NoThread
    /\ IF Valid(t)
       THEN /\ sellerLock' = SellerOwner(t)
            /\ Goto(t, "session")
            /\ UNCHANGED <<lock, local>>
       ELSE Unlock(t) /\ End(t)
    /\ UNCHANGED <<seller, invitations, access, outbox>>

\* The Django session, the SellerSession, used_at, and COMMIT.
CreateSession(t) ==
    /\ pc[t] = "session"
    /\ sessions' = sessions \union {<<target[t], t>>}
    /\ live' = live \union {<<target[t], t>>}
    /\ used' = used \union {target[t]}
    /\ Unlock(t)
    /\ End(t)
    /\ UNCHANGED <<seller, born, revoked, expired, outbox>>

\* The request fails: an exception, which activate_session catches; the victim of a
\* deadlock; or its thread dies, anywhere.
Rollback(t) ==
    /\ pc[t] # "idle"
    /\ Unlock(t)
    /\ End(t)
    /\ UNCHANGED <<seller, invitations, access, outbox>>

-----------------------------------------------------------------------------
(* toggle_seller, the logouts, and revoke_all_sessions                      *)

ReadActive(t) ==
    /\ pc[t] = "idle"
    /\ wasActive' = [wasActive EXCEPT ![t] = active]
    /\ Goto(t, "toggle")
    /\ UNCHANGED <<seller, invitations, access, outbox, locks, target, late, found, todo, sweep>>

WriteActive(t) ==
    /\ pc[t] = "toggle"
    /\ sellerLock = NoThread
    /\ active' = ~wasActive[t]
    /\ End(t)
    /\ UNCHANGED <<invitations, access, outbox, locks>>

\* seller_logout, or the revocation of one session by the administrator.
Logout(s) ==
    /\ s \in live
    /\ live' = live \ {s}
    /\ UNCHANGED <<seller, invitations, sessions, outbox, locks, pc, local>>

\* revoke_all_sessions, for seller_logout_all or for the administrator's
\* "Revogar acessos e enviar novo convite", reads the sessions first ...
ReadSessions(t, caller) ==
    /\ pc[t] = "idle"
    /\ caller = "logout_all" => sessions # {}
    /\ sweep' = [sweep EXCEPT ![t] = live]
    /\ Goto(t, caller)
    /\ UNCHANGED <<seller, invitations, access, outbox, locks, target, late, found, todo, wasActive>>

\* ... and saves them one by one.
RevokeSession(t) ==
    /\ pc[t] \in {"logout_all", "revoke_access"}
    /\ \E s \in sweep[t] :
          /\ live' = live \ {s}
          /\ sweep' = [sweep EXCEPT ![t] = @ \ {s}]
    /\ UNCHANGED <<seller, invitations, sessions, outbox, locks, pc, target, late, found, todo,
                   wasActive>>

LogoutAllDone(t) ==
    /\ pc[t] = "logout_all"
    /\ sweep[t] = {}
    /\ End(t)
    /\ UNCHANGED <<seller, invitations, access, outbox, locks>>

-----------------------------------------------------------------------------
(* The others                                                               *)

\* An invitation that was used or revoked is refused for that, whatever its date.
Expire(i) ==
    /\ i \in Open \ expired
    /\ expired' = expired \union {i}
    /\ UNCHANGED <<seller, born, used, revoked, access, outbox, locks, pc, local>>

\* The worker settles the message.
Deliver ==
    /\ pending
    /\ pending' = FALSE
    /\ UNCHANGED <<seller, invitations, access, message, locks, pc, local>>

Invite(t) ==
    \/ Generate(t) \/ (\E i \in Invitation : TakeRow(t, i) \/ InsertInvitation(t, i))
    \/ QueueDuplicate(t) \/ QueueNew(t) \/ QueueMessage(t) \/ QueueClash(t)
    \/ StartRevoke(t) \/ Revoke(t)

Activate(t) ==
    \/ \E i \in Invitation : StartActivation(t, i)
    \/ LockInvitation(t) \/ LockSeller(t) \/ CreateSession(t)

Administer(t) ==
    \/ ReadActive(t) \/ WriteActive(t)
    \/ \E caller \in {"logout_all", "revoke_access"} : ReadSessions(t, caller)
    \/ RevokeSession(t) \/ LogoutAllDone(t)

\* Every step but those of a request that fails.
Work ==
    \/ \E t \in Thread : Invite(t) \/ Activate(t) \/ Administer(t)
    \/ \E s \in sessions : Logout(s)
    \/ \E i \in Invitation : Expire(i)
    \/ Deliver

Next == Work \/ \E t \in Thread : Rollback(t)

Spec == Init /\ [][Next]_vars

\* No request fails.
UnfailingSpec == Init /\ [][Work]_vars

-----------------------------------------------------------------------------
(* Properties                                                               *)

\* "Duas requisições simultâneas não podem criar duas sessões", and an
\* invitation is never both used and revoked: whichever commits first wins.
OneSessionPerInvitation ==
    /\ \A r, s \in sessions : r[1] = s[1] => r = s
    /\ \A s \in sessions : s[1] \in used
    /\ used \intersect revoked = {}

\* "vendedor inativo não inicia nova sessão": no deactivation slips between the
\* check of is_active and the session's commit.
NoSessionForInactive == [][sessions' # sessions => active]_vars

\* "novos convites revogam os anteriores": a new invitation replaces the ones that
\* were open when it was asked for, even one that an activation held meanwhile and
\* gave back.
InvitationsAreReplaced ==
    [][\A t \in Thread : pc[t] = "update" /\ pc'[t] = "queue" =>
          found[t] \intersect Open' = {}]_vars

\* The statement of t waits for a row that u holds, or will if it visits that next.
WaitsFor(t, u) ==
    \/ \E i \in todo[t] : lock[i] = u
    \/ pc[t] = "lock" /\ lock[target[t]] = u
    \/ pc[t] \in {"seller", "toggle", "update"} /\ todo[t] = {} /\ sellerLock = u

\* Requests whose statements wait for each other's rows in a circle, one of which the
\* database has to fail, are all in the middle of an UPDATE of open invitations: any
\* other request that holds a row waits only for one that waits for nobody.
CirclesAreOfUpdates ==
    \A t, u, v, w \in Thread :
        todo[u] = {} /\ WaitsFor(t, u) /\ WaitsFor(u, v) => ~WaitsFor(v, w)

Promise == INSTANCE SingleUseInvitation WITH Device <- Thread

\* "convite secreto de uso único": whatever requests wait for whose rows, fail or
\* overtake each other, what is committed is what single-use invitations would do.
ImplementsInvitations == Promise!Spec

\* "revoga todas as SellerSession ativas": when the administrator's revocation of
\* accesses goes on to the invitations, no session is left.
AccessesAreRevoked ==
    [][\A t \in Thread : pc[t] = "revoke_access" /\ pc'[t] = "update" => live = {}]_vars

\* "existe um convite válido no banco e uma mensagem enfileirada": when the requests
\* have ended without an error, the URL in the message opens the valid invitation.
InvitationIsSent ==
    (\A t \in Thread : pc[t] = "idle") => \A i \in Open : message = i
=============================================================================
