------------------------- MODULE SellerAccessProofs -------------------------
(***************************************************************************)
(* Theorems of SellerAccess, for any number of threads and invitations.    *)
(***************************************************************************)
EXTENDS SellerAccess, TLAPS

\* Where a thread works on an invitation.
Targeting == {"queue", "message", "lock", "seller", "session"}

TargetInv == \A t \in Thread : pc[t] \in Targeting => target[t] \in born

\* Where a thread's UPDATE is.
Updating == {"update", "revoke"}

\* Only an UPDATE that visited it, or the activation of it, holds an invitation, and
\* what is held is open, unless the activation has yet to look at it.
HolderInv ==
    \A t \in Thread : \A i \in Invitation :
        lock[i] = t => /\ pc[t] \in Updating \union {"seller", "session"}
                       /\ pc[t] # "seller" => i \in Open
                       /\ pc[t] \notin Updating => i = target[t]

\* An activation holds its invitation, and once it found it valid, the row of a
\* seller who is active, which nobody else holds.
ActivationInv ==
    \A t \in Thread :
        /\ pc[t] \in {"seller", "session"} => lock[target[t]] = t
        /\ pc[t] = "session" => sellerLock = t /\ active
        /\ sellerLock = t => pc[t] = "session"

\* An UPDATE holds what is still open of what it selected and has visited.
UpdateInv ==
    \A t \in Thread :
        /\ todo[t] # {} => pc[t] \in Updating
        /\ pc[t] \in Updating => \A i \in (found[t] \intersect Open) \ todo[t] : lock[i] = t

IInv ==
    /\ TypeOK
    /\ TargetInv
    /\ HolderInv
    /\ ActivationInv
    /\ UpdateInv
    /\ OneSessionPerInvitation

-----------------------------------------------------------------------------
LEMMA InitIInv == Init => IInv
<1> SUFFICES ASSUME Init PROVE IInv
  OBVIOUS
<1>1. TypeOK
  BY DEF Init, TypeOK, PC
<1>2. \A t \in Thread : pc[t] = "idle" /\ sellerLock # t /\ \A i \in Invitation : lock[i] # t
  BY ConstantsAssumption DEF Init
<1>3. TargetInv /\ HolderInv /\ ActivationInv /\ UpdateInv
  BY <1>2 DEF Init, TargetInv, Targeting, HolderInv, ActivationInv, UpdateInv
<1>4. OneSessionPerInvitation
  BY DEF Init, OneSessionPerInvitation
<1>5. QED BY <1>1, <1>3, <1>4 DEF IInv

\* What a request changes when it ends.
LEMMA EndFacts ==
    ASSUME TypeOK, NEW t \in Thread, End(t)
    PROVE  /\ pc' = [pc EXCEPT ![t] = "idle"]
           /\ pc' \in [Thread -> PC]
           /\ target' \in [Thread -> born \union {NoInvitation}]
           /\ late' \in [Thread -> BOOLEAN]
           /\ found' \in [Thread -> SUBSET born]
           /\ todo' \in [Thread -> SUBSET born]
           /\ todo'[t] = {}
           /\ sweep' \in [Thread -> SUBSET sessions]
           /\ wasActive' \in [Thread -> BOOLEAN]
           /\ \A q \in Thread \ {t} : /\ target'[q] = target[q]
                                       /\ found'[q] = found[q]
                                       /\ todo'[q] = todo[q]
<1>1. late' \in [Thread -> BOOLEAN] /\ wasActive' \in [Thread -> BOOLEAN]
  BY DEF End, TypeOK
<1>2. QED BY <1>1 DEF End, Goto, TypeOK, PC

\* What an UPDATE changes when it starts.
LEMMA StartUpdateStep ==
    ASSUME IInv, NEW t \in Thread, NEW label \in {"update", "revoke"}, StartUpdate(t, label),
           pc[t] \in {"idle", "revoke_access"}
    PROVE  IInv'
<1>1. TypeOK'
  BY DEF IInv, TypeOK, StartUpdate, Goto, PC, Open, seller, invitations, access, outbox, locks
<1>2. OneSessionPerInvitation'
  BY DEF IInv, OneSessionPerInvitation, StartUpdate, invitations, access
<1>3. TargetInv' /\ HolderInv' /\ ActivationInv' /\ UpdateInv'
  BY DEF IInv, TypeOK, StartUpdate, Goto, Targeting, TargetInv, HolderInv, ActivationInv, UpdateInv, Updating, Open,
         seller, invitations, locks
<1>4. QED BY <1>1, <1>2, <1>3 DEF IInv

\* A step that only ends a request that held no lock.
LEMMA EndStep ==
    ASSUME IInv, NEW t \in Thread, End(t), pc[t] \notin Updating \union {"seller", "session"},
           UNCHANGED <<invitations, access, locks>>,
           active' = active \/ (active' \in BOOLEAN /\ sellerLock = NoThread),
           message' \in born \union {NoInvitation}, pending' \in BOOLEAN
    PROVE  IInv'
<1>1. TypeOK'
  BY EndFacts DEF IInv, TypeOK, invitations, access, locks
<1>2. OneSessionPerInvitation'
  BY DEF IInv, OneSessionPerInvitation, invitations, access
<1>3. TargetInv' /\ HolderInv' /\ UpdateInv'
  BY EndFacts DEF IInv, TypeOK, Targeting, TargetInv, HolderInv, UpdateInv, Updating, Open, invitations, locks
<1>4. ActivationInv'
  BY EndFacts, ConstantsAssumption DEF IInv, TypeOK, ActivationInv, locks
<1>5. QED BY <1>1, <1>2, <1>3, <1>4 DEF IInv

-----------------------------------------------------------------------------
(* One lemma per group of actions                                           *)

\* What holds of the others' rows when a transaction ends.
LEMMA UnlockedStep ==
    ASSUME IInv, NEW t \in Thread, End(t), Unlock(t), active' = active, Open' \subseteq Open,
           \A j \in Invitation : \A q \in Thread : lock'[j] = q <=> q # t /\ lock[j] = q
    PROVE  ActivationInv' /\ UpdateInv'
<1>1. ActivationInv'
  <2>1. ASSUME NEW q \in Thread, pc'[q] \in {"seller", "session"}
        PROVE  lock'[target'[q]] = q /\ (pc'[q] = "session" => sellerLock' = q /\ active')
    <3>1. q # t /\ pc'[q] = pc[q] /\ target'[q] = target[q]
      BY <2>1, EndFacts DEF IInv, TypeOK
    <3>2. /\ lock[target[q]] = q /\ target[q] \in Invitation
          /\ pc[q] = "session" => sellerLock = q /\ active
      BY <2>1, <3>1 DEF IInv, ActivationInv, TargetInv, Targeting, TypeOK
    <3>3. QED BY <3>1, <3>2 DEF Unlock
  <2>2. ASSUME NEW q \in Thread, sellerLock' = q
        PROVE  pc'[q] = "session"
    <3>1. q # t /\ sellerLock = q
      BY <2>2, ConstantsAssumption DEF Unlock
    <3>2. QED BY <3>1, EndFacts DEF IInv, TypeOK, ActivationInv
  <2>3. QED BY <2>1, <2>2 DEF ActivationInv
<1>2. UpdateInv'
  <2>1. ASSUME NEW q \in Thread, pc'[q] \in Updating, NEW j \in (found'[q] \intersect Open') \ todo'[q]
        PROVE  lock'[j] = q
    <3>1. /\ q # t /\ pc[q] \in Updating /\ j \in Invitation
          /\ j \in (found[q] \intersect Open) \ todo[q]
      BY <2>1, EndFacts DEF IInv, TypeOK, Updating
    <3>2. QED BY <3>1 DEF IInv, UpdateInv
  <2>2. \A q \in Thread : todo'[q] # {} => pc'[q] \in Updating
    BY EndFacts DEF IInv, TypeOK, UpdateInv
  <2>3. QED BY <2>1, <2>2 DEF UpdateInv
<1>3. QED BY <1>1, <1>2

LEMMA InviteStep ==
    ASSUME IInv, NEW t \in Thread, Invite(t)
    PROVE  IInv'
<1> USE DEF Goto
<1>1. ASSUME Generate(t)
      PROVE  IInv'
  BY <1>1, StartUpdateStep DEF Generate
<1>2. ASSUME StartRevoke(t)
      PROVE  IInv'
  BY <1>2, StartUpdateStep DEF StartRevoke
<1>3. ASSUME NEW i \in Invitation, TakeRow(t, i)
      PROVE  IInv'
  <2>1. /\ i \in todo[t] /\ lock[i] = NoThread /\ pc[t] \in Updating
        /\ todo' = [todo EXCEPT ![t] = @ \ {i}]
        /\ lock' = IF i \in Open THEN [lock EXCEPT ![i] = t] ELSE lock
        /\ UNCHANGED <<seller, invitations, access, outbox, sellerLock, pc, target, late, found, sweep,
                       wasActive>>
    BY <1>3 DEF IInv, TypeOK, UpdateInv, TakeRow, Free
  <2>2. TypeOK'
    BY <2>1 DEF IInv, TypeOK, seller, invitations, access, outbox
  <2>3. OneSessionPerInvitation'
    BY <2>1 DEF IInv, OneSessionPerInvitation, invitations, access
  <2>4. Open' = Open
    BY <2>1 DEF Open, invitations
  <2>5. TargetInv'
    BY <2>1 DEF IInv, TargetInv, invitations
  <2>6. \A j \in Invitation : lock'[j] # lock[j] => lock'[j] = t /\ j \in Open
    BY <2>1 DEF IInv, TypeOK
  <2>7. HolderInv'
    BY <2>1, <2>4, <2>6 DEF IInv, HolderInv, Updating
  <2>8. ActivationInv'
    <3>1. ASSUME NEW q \in Thread, pc[q] \in {"seller", "session"}
          PROVE  lock'[target[q]] = q
      <4>1. lock[target[q]] = q /\ target[q] \in Invitation
        BY <3>1 DEF IInv, ActivationInv, TargetInv, Targeting, TypeOK
      <4>2. target[q] # i
        BY <2>1, <4>1, ConstantsAssumption
      <4>3. QED BY <2>1, <4>1, <4>2 DEF IInv, TypeOK
    <3>2. QED BY <2>1, <3>1 DEF IInv, ActivationInv, seller
  <2>9. UpdateInv'
    <3>1. ASSUME NEW q \in Thread, NEW j \in (found[q] \intersect Open) \ todo'[q], pc[q] \in Updating
          PROVE  lock'[j] = q
      <4>1. j \in Invitation
        BY DEF IInv, TypeOK
      <4>2. CASE q = t /\ j = i
        BY <2>1, <4>1, <4>2 DEF IInv, TypeOK
      <4>3. CASE ~(q = t /\ j = i)
        <5>1. lock[j] = q
          BY <2>1, <3>1, <4>3 DEF IInv, UpdateInv, TypeOK
        <5>2. j # i
          BY <2>1, <5>1, ConstantsAssumption
        <5>3. QED BY <2>1, <4>1, <5>1, <5>2 DEF IInv, TypeOK
      <4>4. QED BY <4>2, <4>3
    <3>2. \A q \in Thread : todo'[q] # {} => pc[q] \in Updating
      BY <2>1 DEF IInv, UpdateInv, TypeOK
    <3>3. QED BY <2>1, <2>4, <3>1, <3>2 DEF UpdateInv
  <2>10. QED BY <2>2, <2>3, <2>5, <2>7, <2>8, <2>9 DEF IInv
<1>4. ASSUME NEW i \in Invitation, InsertInvitation(t, i)
      PROVE  IInv'
  <2>1. \A j \in Invitation : lock[j] = t => j \in Open /\ lock'[j] = NoThread
    BY <1>4 DEF IInv, HolderInv, InsertInvitation, Unlock
  <2>2. /\ i \notin born
        /\ \A q \in Thread \ {t} : pc'[q] = pc[q] /\ target'[q] = target[q] /\ found'[q] = found[q]
        /\ pc'[t] = "queue" /\ target'[t] = i
        /\ todo' = todo /\ todo[t] = {} /\ sellerLock = NoThread /\ sellerLock' = NoThread
    BY <1>4 DEF IInv, TypeOK, InsertInvitation, Unlock
  <2>3. Open' = (Open \union {i}) \ Taken(t)
    <3>1. i \notin used /\ i \notin revoked /\ lock[i] # t
      BY <2>1, <2>2 DEF IInv, TypeOK, Open
    <3>2. QED BY <1>4, <3>1 DEF InsertInvitation, Taken, Open
  <2>4. TypeOK'
    <3>1. revoked' \subseteq born' /\ used' \subseteq born' /\ expired' \subseteq born'
      BY <1>4, <2>1 DEF IInv, TypeOK, InsertInvitation, Taken, Open
    <3>2. lock' \in [Invitation -> Thread \union {NoThread}]
      BY <1>4 DEF IInv, TypeOK, InsertInvitation, Unlock
    <3>3. /\ target' \in [Thread -> born' \union {NoInvitation}]
          /\ found' \in [Thread -> SUBSET born']
          /\ todo' \in [Thread -> SUBSET born']
          /\ pc' \in [Thread -> PC]
      BY <1>4 DEF IInv, TypeOK, InsertInvitation, PC
    <3>4. QED BY <1>4, <2>2, <3>1, <3>2, <3>3 DEF IInv, TypeOK, InsertInvitation, seller, access, outbox
  <2>5. OneSessionPerInvitation'
    BY <1>4, <2>1 DEF IInv, OneSessionPerInvitation, InsertInvitation, Taken, access, Open
  <2>6. TargetInv'
    BY <1>4, <2>2 DEF IInv, Targeting, TargetInv, InsertInvitation
  <2>7. HolderInv'
    <3>1. ASSUME NEW q \in Thread, NEW j \in Invitation, lock'[j] = q
          PROVE  q # t /\ lock[j] = q
      BY <1>4, <3>1, ConstantsAssumption DEF IInv, TypeOK, InsertInvitation, Unlock
    <3>2. QED BY <2>2, <2>3, <3>1 DEF IInv, HolderInv, Taken
  <2>8. ActivationInv'
    <3>1. ASSUME NEW q \in Thread, pc'[q] \in {"seller", "session"}
          PROVE  pc'[q] = "seller" /\ lock'[target'[q]] = q
      <4>1. q # t /\ pc'[q] = pc[q] /\ target'[q] = target[q]
        BY <2>2, <3>1
      <4>2. target[q] \in Invitation /\ lock[target[q]] = q /\ pc[q] = "seller"
        BY <2>2, <3>1, <4>1, ConstantsAssumption DEF IInv, ActivationInv, TargetInv, Targeting, TypeOK
      <4>3. QED BY <1>4, <4>1, <4>2 DEF InsertInvitation, Unlock
    <3>2. QED BY <2>2, <3>1, ConstantsAssumption DEF ActivationInv
  <2>9. UpdateInv'
    <3>1. ASSUME NEW q \in Thread, pc'[q] \in Updating, NEW j \in (found'[q] \intersect Open') \ todo'[q]
          PROVE  lock'[j] = q
      <4>1. q # t /\ pc[q] \in Updating /\ j \in found[q] \ todo[q] /\ j \in born
        BY <2>2, <3>1 DEF IInv, TypeOK, Updating
      <4>2. j \in Open
        BY <2>2, <2>3, <3>1, <4>1
      <4>3. lock[j] = q /\ j \in Invitation
        BY <4>1, <4>2 DEF IInv, UpdateInv, TypeOK
      <4>4. QED BY <1>4, <4>1, <4>3 DEF InsertInvitation, Unlock
    <3>2. \A q \in Thread : todo'[q] # {} => pc'[q] \in Updating
      BY <2>2 DEF IInv, UpdateInv
    <3>3. QED BY <3>1, <3>2 DEF UpdateInv
  <2>10. QED BY <2>4, <2>5, <2>6, <2>7, <2>8, <2>9 DEF IInv
<1>5. ASSUME QueueDuplicate(t) \/ QueueClash(t)
      PROVE  IInv'
  BY <1>5, EndStep DEF Updating, QueueDuplicate, QueueClash, seller, outbox, IInv, TypeOK
<1>6. ASSUME QueueMessage(t)
      PROVE  IInv'
  <2>1. target[t] \in born
    BY <1>6 DEF IInv, TargetInv, Targeting, QueueMessage
  <2>2. QED BY <1>6, <2>1, EndStep DEF Updating, QueueMessage, seller
<1>7. ASSUME QueueNew(t)
      PROVE  IInv'
  <2>1. TypeOK'
    BY <1>7 DEF IInv, TypeOK, QueueNew, PC, seller, invitations, access, outbox, locks, local
  <2>2. OneSessionPerInvitation'
    BY <1>7 DEF IInv, OneSessionPerInvitation, QueueNew, invitations, access
  <2>3. TargetInv' /\ HolderInv' /\ ActivationInv' /\ UpdateInv'
    BY <1>7 DEF IInv, TypeOK, QueueNew, Targeting, TargetInv, HolderInv, ActivationInv, UpdateInv, Updating, Open,
                seller, invitations, locks, local
  <2>4. QED BY <2>1, <2>2, <2>3 DEF IInv
<1>8. ASSUME Revoke(t)
      PROVE  IInv'
  <2>1. /\ End(t) /\ Unlock(t) /\ pc[t] = "revoke"
        /\ revoked' = revoked \union Taken(t)
        /\ UNCHANGED <<seller, born, used, expired, access, outbox>>
    BY <1>8 DEF Revoke
  <2>2. Taken(t) \subseteq Open /\ Open' = Open \ Taken(t)
    BY <2>1 DEF IInv, HolderInv, Taken, Open
  <2>3. TypeOK'
    <3>1. /\ lock' \in [Invitation -> Thread \union {NoThread}]
          /\ sellerLock' \in Thread \union {NoThread}
          /\ revoked' \subseteq born
      BY <2>1, <2>2 DEF IInv, TypeOK, Unlock, Open
    <3>2. QED BY <2>1, <3>1, EndFacts DEF IInv, TypeOK, seller, access, outbox
  <2>4. OneSessionPerInvitation'
    BY <2>1, <2>2 DEF IInv, OneSessionPerInvitation, access, Open
  <2>5. TargetInv'
    BY <2>1, EndFacts DEF IInv, TypeOK, Targeting, TargetInv
  <2>6. \A j \in Invitation : \A q \in Thread : lock'[j] = q <=> q # t /\ lock[j] = q
    BY <2>1, ConstantsAssumption DEF IInv, TypeOK, Unlock
  <2>7. HolderInv'
    BY <2>1, <2>2, <2>6, EndFacts DEF IInv, TypeOK, HolderInv, Taken
  <2>8. ActivationInv'
    BY <2>1, <2>2, <2>6, UnlockedStep DEF seller
  <2>9. UpdateInv'
    BY <2>1, <2>2, <2>6, UnlockedStep DEF seller
  <2>10. QED BY <2>3, <2>4, <2>5, <2>7, <2>8, <2>9 DEF IInv
<1>9. QED BY <1>1, <1>2, <1>3, <1>4, <1>5, <1>6, <1>7, <1>8 DEF Invite

\* A step that only gives a transaction up.
LEMMA AbandonStep ==
    ASSUME IInv, NEW t \in Thread, End(t), Unlock(t),
           UNCHANGED <<seller, invitations, access, outbox>>
    PROVE  IInv'
<1>1. End(t) /\ Unlock(t) /\ UNCHANGED <<seller, invitations, access, outbox>>
  OBVIOUS
<1>2. Open' = Open
  BY <1>1 DEF Open, invitations
<1>3. TypeOK'
  <2>1. /\ lock' \in [Invitation -> Thread \union {NoThread}]
        /\ sellerLock' \in Thread \union {NoThread}
    BY <1>1 DEF IInv, TypeOK, Unlock
  <2>2. QED BY <1>1, <2>1, EndFacts DEF IInv, TypeOK, seller, invitations, access, outbox
<1>4. OneSessionPerInvitation'
  BY <1>1 DEF IInv, OneSessionPerInvitation, invitations, access
<1>5. TargetInv'
  BY <1>1, EndFacts DEF IInv, TypeOK, Targeting, TargetInv, invitations
<1>6. \A j \in Invitation : \A q \in Thread : lock'[j] = q <=> q # t /\ lock[j] = q
  BY <1>1, ConstantsAssumption DEF IInv, TypeOK, Unlock
<1>7. HolderInv'
  BY <1>1, <1>2, <1>6, EndFacts DEF IInv, TypeOK, HolderInv
<1>8. ActivationInv' /\ UpdateInv'
  BY <1>1, <1>2, <1>6, UnlockedStep DEF seller
<1>9. QED BY <1>3, <1>4, <1>5, <1>7, <1>8 DEF IInv

LEMMA ActivateStep ==
    ASSUME IInv, NEW t \in Thread, Activate(t)
    PROVE  IInv'
<1> USE DEF Goto
<1>1. ASSUME NEW i \in Invitation, StartActivation(t, i)
      PROVE  IInv'
  <2>1. (i \in expired) \in BOOLEAN
    OBVIOUS
  <2>2. late' \in [Thread -> BOOLEAN]
    BY <1>1, <2>1 DEF IInv, TypeOK, StartActivation
  <2>3. TypeOK'
    BY <1>1, <2>2 DEF IInv, TypeOK, StartActivation, PC, seller, invitations, access, outbox, locks
  <2>4. OneSessionPerInvitation'
    BY <1>1 DEF IInv, OneSessionPerInvitation, StartActivation, invitations, access
  <2>5. TargetInv' /\ HolderInv' /\ ActivationInv' /\ UpdateInv'
    BY <1>1 DEF IInv, TypeOK, StartActivation, Targeting, TargetInv, HolderInv, ActivationInv, UpdateInv, Updating, Open,
                seller, invitations, locks
  <2>6. QED BY <2>3, <2>4, <2>5 DEF IInv
<1>2. ASSUME LockInvitation(t)
      PROVE  IInv'
  <2>1. /\ pc[t] = "lock" /\ pc' = [pc EXCEPT ![t] = "seller"]
        /\ target[t] \in Invitation /\ lock[target[t]] = NoThread
        /\ lock' = [lock EXCEPT ![target[t]] = t] /\ sellerLock' = sellerLock
        /\ UNCHANGED <<seller, invitations, access, outbox>> /\ UNCHANGED local
    BY <1>2 DEF IInv, TypeOK, TargetInv, Targeting, LockInvitation, Free
  <2>2. TypeOK'
    BY <2>1 DEF IInv, TypeOK, PC, seller, invitations, access, outbox, local
  <2>3. OneSessionPerInvitation'
    BY <2>1 DEF IInv, OneSessionPerInvitation, invitations, access
  <2>4. Open' = Open
    BY <2>1 DEF Open, invitations
  <2>5. TargetInv'
    BY <2>1 DEF IInv, TypeOK, Targeting, TargetInv, invitations, local
  <2>6. HolderInv'
    BY <2>1, <2>4, ConstantsAssumption DEF IInv, TypeOK, HolderInv, Updating, local
  <2>7. ActivationInv'
    BY <2>1, ConstantsAssumption DEF IInv, TypeOK, ActivationInv, seller, local
  <2>8. UpdateInv'
    BY <2>1, <2>4, ConstantsAssumption DEF IInv, TypeOK, UpdateInv, Updating, local
  <2>9. QED BY <2>2, <2>3, <2>5, <2>6, <2>7, <2>8 DEF IInv
<1>3. ASSUME LockSeller(t)
      PROVE  IInv'
  <2>1. CASE ~Valid(t)
    BY <1>3, <2>1, AbandonStep DEF LockSeller
  <2>2. CASE Valid(t)
    <3>1. /\ pc[t] = "seller" /\ pc' = [pc EXCEPT ![t] = "session"]
          /\ target[t] \in Open /\ target[t] \in Invitation /\ active
          /\ lock' = lock /\ sellerLock = NoThread /\ sellerLock' = t
          /\ UNCHANGED <<seller, invitations, access, outbox>> /\ UNCHANGED local
      BY <1>3, <2>2 DEF IInv, TypeOK, TargetInv, Targeting, LockSeller, Valid, SellerOwner
    <3>2. TypeOK'
      BY <3>1 DEF IInv, TypeOK, PC, seller, invitations, access, outbox, local
    <3>3. OneSessionPerInvitation'
      BY <3>1 DEF IInv, OneSessionPerInvitation, invitations, access
    <3>4. Open' = Open
      BY <3>1 DEF Open, invitations
    <3>5. TargetInv'
      BY <3>1 DEF IInv, TypeOK, Targeting, TargetInv, invitations, local
    <3>6. \A i \in Invitation : lock[i] = t => i = target[t]
      BY <3>1 DEF IInv, HolderInv, Updating
    <3>7. HolderInv'
      BY <3>1, <3>4, <3>6 DEF IInv, TypeOK, HolderInv, local
    <3>8. ActivationInv'
      BY <3>1, ConstantsAssumption DEF IInv, TypeOK, ActivationInv, seller, local
    <3>9. UpdateInv'
      BY <3>1, <3>4 DEF IInv, TypeOK, UpdateInv, Updating, local
    <3>10. QED BY <3>2, <3>3, <3>5, <3>7, <3>8, <3>9 DEF IInv
  <2>3. QED BY <2>1, <2>2
<1>4. ASSUME CreateSession(t)
      PROVE  IInv'
  <2>1. /\ target[t] \in Open /\ target[t] \in Invitation
        /\ lock[target[t]] = t /\ sellerLock = t /\ active
    BY <1>4 DEF IInv, TypeOK, TargetInv, Targeting, ActivationInv, HolderInv, CreateSession
  <2>2. /\ pc[t] = "session" /\ End(t) /\ Unlock(t)
        /\ sessions' = sessions \union {<<target[t], t>>}
        /\ live' = live \union {<<target[t], t>>}
        /\ used' = used \union {target[t]}
        /\ UNCHANGED <<seller, born, revoked, expired, outbox>>
    BY <1>4 DEF CreateSession
  <2>3. Open' = Open \ {target[t]}
    BY <2>2 DEF Open
  <2>4. TypeOK'
    <3>1. /\ lock' \in [Invitation -> Thread \union {NoThread}]
          /\ sellerLock' \in Thread \union {NoThread}
      BY <2>2 DEF IInv, TypeOK, Unlock
    <3>2. <<target[t], t>> \in Session
      BY <2>1 DEF Session
    <3>3. sessions' \subseteq Session /\ live' \subseteq sessions' /\ used' \subseteq born'
      BY <2>1, <2>2, <3>2 DEF IInv, TypeOK, Open
    <3>4. sweep' \in [Thread -> SUBSET sessions']
      BY <2>2, EndFacts DEF IInv
    <3>5. QED BY <2>2, <3>1, <3>3, <3>4, EndFacts DEF IInv, TypeOK, seller, outbox
  <2>5. OneSessionPerInvitation'
    <3>1. \A s \in sessions : s[1] # target[t]
      BY <2>1 DEF IInv, OneSessionPerInvitation, Open
    <3>2. QED BY <2>1, <2>2, <3>1 DEF IInv, OneSessionPerInvitation, Open
  <2>6. TargetInv'
    BY <2>2, EndFacts DEF IInv, TypeOK, Targeting, TargetInv
  <2>7. HolderInv'
    <3>1. ASSUME NEW q \in Thread, NEW j \in Invitation, lock'[j] = q
          PROVE  q # t /\ lock[j] = q /\ j # target[t]
      BY <2>1, <2>2, <3>1, ConstantsAssumption DEF IInv, TypeOK, Unlock
    <3>2. QED BY <2>2, <2>3, <3>1, EndFacts DEF IInv, TypeOK, HolderInv
  <2>8. ActivationInv'
    <3>1. \A q \in Thread \ {t} : pc[q] # "session"
      BY <2>1 DEF IInv, ActivationInv
    <3>2. sellerLock' = NoThread
      BY <2>1, <2>2 DEF Unlock
    <3>3. ASSUME NEW q \in Thread, pc'[q] \in {"seller", "session"}
          PROVE  pc'[q] = "seller" /\ lock'[target'[q]] = q
      <4>1. q # t /\ pc'[q] = pc[q] /\ target'[q] = target[q]
        BY <2>2, <3>3, EndFacts DEF IInv, TypeOK
      <4>2. target[q] \in Invitation /\ lock[target[q]] = q /\ pc[q] = "seller"
        BY <3>1, <3>3, <4>1 DEF IInv, ActivationInv, TargetInv, Targeting, TypeOK
      <4>3. QED BY <2>2, <4>1, <4>2 DEF Unlock
    <3>4. QED BY <3>2, <3>3, ConstantsAssumption DEF ActivationInv
  <2>9. UpdateInv'
    <3>1. \A j \in Invitation : \A q \in Thread : lock'[j] = q <=> q # t /\ lock[j] = q
      BY <2>2, ConstantsAssumption DEF IInv, TypeOK, Unlock
    <3>2. QED BY <2>2, <2>3, <3>1, UnlockedStep DEF seller
  <2>10. QED BY <2>4, <2>5, <2>6, <2>7, <2>8, <2>9 DEF IInv
<1>5. QED BY <1>1, <1>2, <1>3, <1>4 DEF Activate

LEMMA AdministerStep ==
    ASSUME IInv, NEW t \in Thread, Administer(t)
    PROVE  IInv'
<1> USE DEF Goto
<1>1. ASSUME ReadActive(t)
      PROVE  IInv'
  <2>1. wasActive' \in [Thread -> BOOLEAN]
    BY <1>1 DEF IInv, TypeOK, ReadActive
  <2>2. TypeOK'
    BY <1>1, <2>1 DEF IInv, TypeOK, ReadActive, PC, seller, invitations, access, outbox, locks
  <2>3. OneSessionPerInvitation'
    BY <1>1 DEF IInv, OneSessionPerInvitation, ReadActive, invitations, access
  <2>4. TargetInv' /\ HolderInv' /\ ActivationInv' /\ UpdateInv'
    BY <1>1 DEF IInv, TypeOK, ReadActive, Targeting, TargetInv, HolderInv, ActivationInv, UpdateInv, Updating, Open,
                seller, invitations, locks
  <2>5. QED BY <2>2, <2>3, <2>4 DEF IInv
<1>2. ASSUME WriteActive(t)
      PROVE  IInv'
  <2>1. active' \in BOOLEAN
    BY <1>2 DEF WriteActive
  <2>2. QED BY <1>2, <2>1, EndStep DEF Updating, WriteActive, IInv, TypeOK, outbox
<1>3. ASSUME NEW caller \in {"logout_all", "revoke_access"}, ReadSessions(t, caller)
      PROVE  IInv'
  <2>1. TypeOK'
    BY <1>3 DEF IInv, TypeOK, ReadSessions, PC, seller, invitations, access, outbox, locks
  <2>2. OneSessionPerInvitation'
    BY <1>3 DEF IInv, OneSessionPerInvitation, ReadSessions, invitations, access
  <2>3. TargetInv' /\ HolderInv' /\ ActivationInv' /\ UpdateInv'
    BY <1>3 DEF IInv, TypeOK, ReadSessions, Targeting, TargetInv, HolderInv, ActivationInv, UpdateInv, Updating, Open,
                seller, invitations, locks
  <2>4. QED BY <2>1, <2>2, <2>3 DEF IInv
<1>4. ASSUME RevokeSession(t)
      PROVE  IInv'
  <2>1. TypeOK'
    BY <1>4 DEF IInv, TypeOK, RevokeSession, seller, invitations, outbox, locks
  <2>2. OneSessionPerInvitation'
    BY <1>4 DEF IInv, OneSessionPerInvitation, RevokeSession, invitations
  <2>3. TargetInv' /\ HolderInv' /\ ActivationInv' /\ UpdateInv'
    BY <1>4 DEF IInv, RevokeSession, TargetInv, HolderInv, ActivationInv, UpdateInv, Updating, Open,
                seller, invitations, locks
  <2>4. QED BY <2>1, <2>2, <2>3 DEF IInv
<1>5. ASSUME LogoutAllDone(t)
      PROVE  IInv'
  BY <1>5, EndStep DEF Updating, LogoutAllDone, seller, outbox, IInv, TypeOK
<1>6. QED BY <1>1, <1>2, <1>3, <1>4, <1>5 DEF Administer

LEMMA OthersStep ==
    ASSUME IInv,
           \/ \E s \in sessions : Logout(s)
           \/ \E i \in Invitation : Expire(i)
           \/ Deliver
           \/ UNCHANGED vars
    PROVE  IInv'
<1>1. /\ UNCHANGED <<active, born, used, revoked, sessions, lock, sellerLock, pc, local>>
      /\ live' \subseteq live /\ expired' \subseteq born
      /\ message' = message /\ pending' \in BOOLEAN
  BY DEF Logout, Expire, Deliver, Open, IInv, TypeOK, vars, seller, invitations, access, outbox, locks
<1>2. TypeOK'
  BY <1>1 DEF IInv, TypeOK, local
<1>3. OneSessionPerInvitation'
  BY <1>1 DEF IInv, OneSessionPerInvitation
<1>4. TargetInv' /\ HolderInv' /\ ActivationInv' /\ UpdateInv'
  BY <1>1 DEF IInv, TargetInv, HolderInv, ActivationInv, UpdateInv, Updating, Open, local
<1>5. QED BY <1>2, <1>3, <1>4 DEF IInv

LEMMA NextIInv == IInv /\ [Next]_vars => IInv'
BY InviteStep, ActivateStep, AdministerStep, AbandonStep, OthersStep DEF Next, Work, Rollback

-----------------------------------------------------------------------------
(* Theorems                                                                 *)

\* The invariant of the row locks: what is locked, by whom, and what it promises.
THEOREM Invariance == Spec => []IInv
BY InitIInv, NextIInv, PTL DEF Spec

\* Every variable keeps its type.
THEOREM TypeCorrect == Spec => []TypeOK
<1>1. IInv => TypeOK
  BY DEF IInv
<1>2. QED BY <1>1, Invariance, PTL

\* However many threads confirm it, an invitation opens one session, and none once
\* it is revoked (activate_session's lock, and generate_invitation's UPDATE).
THEOREM InvitationsOpenOneSession == Spec => []OneSessionPerInvitation
<1>1. IInv => OneSessionPerInvitation
  BY DEF IInv
<1>2. QED BY <1>1, Invariance, PTL

\* A seller who is being deactivated opens no session: the lock of the joined
\* seller row keeps toggle_seller out until the session is committed.
THEOREM InactiveSellersStayOut == Spec => NoSessionForInactive
<1>1. IInv /\ [Next]_vars => [sessions' # sessions => active]_vars
  <2>1. SUFFICES ASSUME IInv, Next, sessions' # sessions
                 PROVE  active
    OBVIOUS
  <2>2. PICK t \in Thread : Invite(t) \/ Activate(t) \/ Administer(t) \/ Rollback(t)
    BY <2>1 DEF Next, Work, Logout, Expire, Deliver, access
  <2>3. CreateSession(t)
    BY <2>1, <2>2 DEF Invite, Activate, Administer, Rollback, StartUpdate, Generate, TakeRow, InsertInvitation,
       QueueDuplicate, QueueNew, QueueMessage, QueueClash, StartRevoke, Revoke, StartActivation,
       LockInvitation, LockSeller, ReadActive, WriteActive, ReadSessions, RevokeSession, LogoutAllDone, access
  <2>4. QED BY <2>1, <2>3 DEF CreateSession, IInv, ActivationInv
<1>2. QED BY <1>1, Invariance, PTL DEF Spec, NoSessionForInactive

\* A new invitation leaves none of those it was meant to replace open, whatever
\* held them when it was asked for.
THEOREM RenewalsReplace == Spec => InvitationsAreReplaced
<1> DEFINE Replaced == \A t \in Thread : pc[t] = "update" /\ pc'[t] = "queue" => found[t] \intersect Open' = {}
<1>1. IInv /\ [Next]_vars => [Replaced]_vars
  <2>1. SUFFICES ASSUME IInv, Next, NEW t \in Thread, pc[t] = "update", pc'[t] = "queue"
                 PROVE  found[t] \intersect Open' = {}
    OBVIOUS
  <2>2. PICK q \in Thread : Invite(q) \/ Activate(q) \/ Administer(q) \/ Rollback(q)
    BY <2>1 DEF Next, Work, Logout, Expire, Deliver
  <2>3. PICK i \in Invitation : InsertInvitation(t, i)
    <3>1. q = t
      BY <2>1, <2>2 DEF IInv, TypeOK, Invite, Activate, Administer, Rollback, StartUpdate, Generate, TakeRow,
         InsertInvitation, QueueDuplicate, QueueNew, QueueMessage, QueueClash, StartRevoke, Revoke,
         StartActivation, LockInvitation, LockSeller, CreateSession, ReadActive, WriteActive, ReadSessions, RevokeSession,
         LogoutAllDone, End, Goto
    <3>2. QED
      BY <2>1, <2>2, <3>1 DEF IInv, TypeOK, Invite, Activate, Administer, Rollback, Generate, TakeRow,
         QueueDuplicate, QueueNew, QueueMessage, QueueClash, StartRevoke, Revoke, StartActivation,
         LockInvitation, LockSeller, CreateSession, ReadActive, WriteActive, ReadSessions, RevokeSession, LogoutAllDone,
         End, Goto
  <2>4. \A j \in found[t] : j \in Open => j \in Invitation /\ lock[j] = t
    BY <2>1, <2>3 DEF IInv, UpdateInv, Updating, TypeOK, InsertInvitation
  <2>5. \A j \in found[t] : j \in born /\ j # i
    BY <2>1, <2>3 DEF IInv, TypeOK, InsertInvitation
  <2>6. QED BY <2>3, <2>4, <2>5 DEF InsertInvitation, Taken, Open
<1>2. QED BY <1>1, Invariance, PTL DEF Spec, InvitationsAreReplaced

\* However many requests there are, those whose statements wait for each other in a
\* circle are UPDATEs: an activation waits for an invitation before it holds anything,
\* and then, like the INSERT of an invitation, for the seller row alone, which only an
\* activation that has all it needs keeps.
THEOREM OnlyUpdatesWaitInCircles == Spec => []CirclesAreOfUpdates
<1>1. ASSUME IInv, NEW t \in Thread, NEW u \in Thread, WaitsFor(t, u)
      PROVE  pc[u] \in Updating \union {"seller", "session"}
  <2>1. \A i \in todo[t] : i \in Invitation
    BY <1>1 DEF IInv, TypeOK
  <2>2. pc[t] = "lock" => target[t] \in Invitation
    BY <1>1 DEF IInv, TypeOK, TargetInv, Targeting
  <2>3. QED BY <1>1, <2>1, <2>2 DEF WaitsFor, IInv, HolderInv, ActivationInv
<1>2. ASSUME IInv, NEW t \in Thread, NEW u \in Thread, WaitsFor(t, u), todo[t] = {},
             pc[t] \in Updating \union {"seller", "session"}
      PROVE  pc[u] = "session"
  BY <1>2 DEF WaitsFor, IInv, ActivationInv, Updating
<1>3. ASSUME IInv, NEW t \in Thread, NEW u \in Thread, pc[t] = "session"
      PROVE  ~WaitsFor(t, u)
  BY <1>3 DEF IInv, UpdateInv, Updating, WaitsFor
<1>4. IInv => CirclesAreOfUpdates
  BY <1>1, <1>2, <1>3 DEF CirclesAreOfUpdates
<1>5. QED BY <1>4, Invariance, PTL

-----------------------------------------------------------------------------
(* The single-use invitations                                               *)

\* Each step is a step of the single-use invitations, or none.
LEMMA PromiseStep ==
    ASSUME IInv, [Next]_vars
    PROVE  [Promise!Next]_(Promise!vars)
<1> USE DEF Promise!vars, Promise!life, Promise!access
<1>1. ASSUME NEW t \in Thread, NEW i \in Invitation, InsertInvitation(t, i)
      PROVE  Promise!Issue(i)
  <2>1. \A j \in Invitation : lock[j] = t => j \in Open
    BY <1>1 DEF IInv, HolderInv, InsertInvitation
  <2>2. revoked' \in SUBSET (revoked \union Open) /\ revoked \subseteq revoked'
    BY <1>1, <2>1 DEF InsertInvitation, Taken
  <2>3. QED
    BY <1>1, <2>2 DEF InsertInvitation, Promise!Issue, Promise!Withdraw, Promise!Open, Open, seller, access
<1>2. ASSUME NEW t \in Thread, Revoke(t)
      PROVE  Promise!Revoke
  <2>1. Taken(t) \subseteq Open
    BY <1>2 DEF IInv, HolderInv, Updating, Taken, Revoke
  <2>2. revoked' \in SUBSET (revoked \union Open) /\ revoked \subseteq revoked'
    BY <1>2, <2>1 DEF Revoke
  <2>3. QED
    BY <1>2, <2>2 DEF Revoke, Promise!Revoke, Promise!Withdraw, Promise!Open, Open, seller, access
<1>3. ASSUME NEW t \in Thread, CreateSession(t)
      PROVE  \E i \in Invitation : Promise!Redeem(i, t)
  <2>1. target[t] \in born /\ born \subseteq Invitation
    BY <1>3 DEF CreateSession, IInv, TargetInv, Targeting, TypeOK
  <2>2. active /\ lock[target[t]] = t
    BY <1>3 DEF CreateSession, IInv, ActivationInv
  <2>3. target[t] \in Open
    BY <1>3, <2>1, <2>2 DEF IInv, HolderInv, CreateSession
  <2>4. PICK i \in Invitation : i = target[t]
    BY <2>1
  <2>5. Promise!Redeem(i, t)
    BY <1>3, <2>2, <2>3, <2>4 DEF CreateSession, Promise!Redeem, Promise!Open, Open, seller
  <2>6. QED BY <2>5
<1>4. ASSUME NEW t \in Thread, RevokeSession(t)
      PROVE  Promise!Close
  BY <1>4 DEF RevokeSession, Promise!Close, seller, invitations
<1>5. ASSUME NEW s \in sessions, Logout(s)
      PROVE  Promise!Close
  BY <1>5 DEF Logout, Promise!Close, seller, invitations
<1>6. ASSUME NEW t \in Thread, WriteActive(t)
      PROVE  Promise!Toggle
  BY <1>6 DEF WriteActive, Promise!Toggle, IInv, TypeOK, invitations, access
<1>7. ASSUME NEW t \in Thread, Invite(t), \A i \in Invitation : ~InsertInvitation(t, i), ~Revoke(t)
      PROVE  UNCHANGED Promise!vars
  BY <1>7 DEF Invite, Generate, StartUpdate, TakeRow, QueueDuplicate, QueueNew, QueueMessage, QueueClash,
     StartRevoke, seller, invitations, access
<1>8. ASSUME NEW t \in Thread,
             \/ \E i \in Invitation : StartActivation(t, i)
             \/ LockInvitation(t) \/ LockSeller(t) \/ ReadActive(t) \/ LogoutAllDone(t) \/ Rollback(t)
             \/ \E caller \in {"logout_all", "revoke_access"} : ReadSessions(t, caller)
      PROVE  UNCHANGED Promise!vars
  BY <1>8 DEF StartActivation, LockInvitation, LockSeller, ReadActive, LogoutAllDone, Rollback, ReadSessions,
     seller, invitations, access
<1>9. CASE (\E i \in Invitation : Expire(i)) \/ Deliver \/ UNCHANGED vars
  BY <1>9 DEF Expire, Deliver, vars, seller, invitations, access
<1>10. QED
  BY <1>1, <1>2, <1>3, <1>4, <1>5, <1>6, <1>7, <1>8, <1>9
  DEF Next, Work, Activate, Administer, Promise!Next

\* Seen in what is committed, the requests with their locks, their UPDATEs that wait and
\* their failures are single-use invitations: each is used or revoked once and for ever,
\* and used in one step with the session it opens for an active seller.
THEOREM InvitationsAreSingleUse == Spec => ImplementsInvitations
<1>1. Init => Promise!Init
  BY DEF Init, Promise!Init
<1>2. IInv /\ [Next]_vars => [Promise!Next]_(Promise!vars)
  BY PromiseStep
<1>3. QED BY <1>1, <1>2, Invariance, PTL DEF Spec, ImplementsInvitations, Promise!Spec
=============================================================================
