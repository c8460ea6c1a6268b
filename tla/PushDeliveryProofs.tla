------------------------- MODULE PushDeliveryProofs -------------------------
(***************************************************************************)
(* Theorems of PushDelivery, for any number of devices, sellers, notices,  *)
(* workers, attempts and faults.                                           *)
(***************************************************************************)
EXTENDS PushDelivery, TLAPS

Sending == {"next", "save", "progress"}

\* What a worker has in hand at each label.
MemoryInv ==
    \A w \in Worker :
        /\ pc[w] \in {"down", "idle"} => item[w] = NoItem
        /\ pc[w] \in {"list", "next", "save", "progress", "settle"} => item[w] \in Item
        /\ pc[w] \notin Sending => todo[w] = {}
        /\ pc[w] \in {"save", "progress"} => dev[w] \in Device /\ dev[w] \notin todo[w]

\* A row that may still be tried has attempts left, and a worker's row is its
\* own and PROCESSING.
ClaimInv ==
    /\ \A i \in Item : status[i] \in {"ABSENT", "PENDING", "PROCESSING"} => attempts[i] < MaxAttempts
    /\ \A w \in Worker : item[w] \in Item => status[item[w]] = "PROCESSING"
    /\ \A w, v \in Worker : item[w] \in Item /\ item[w] = item[v] => w = v

\* A device that has failed too often is not active, and no copy of it is taken.
FailureInv ==
    /\ \A d \in Device : active[d] => failures[d] < MaxFailures
    /\ \A w \in Worker : \A d \in Copies(w) : seen[w][d] < MaxFailures

\* A row that exists has a recipient.
OwnerInv == \A i \in Item : status[i] # "ABSENT" => recipient[i] \in Seller

TypeInv == TypeOK /\ MemoryInv /\ ClaimInv /\ FailureInv

\* No worker that has row i will send to device d from the list it holds.
NotListed(i, d) == \A w \in Worker : item[w] = i => d \notin todo[w]

\* The acceptance of device d is known to a worker and not yet saved.
Unsaved(i, d) ==
    \E w \in Worker :
        /\ item[w] = i /\ dev[w] = d
        /\ pc[w] = "progress" \/ (pc[w] = "save" /\ answer[w] = "accepted")

\* Device d will not be sent notice i again unless something fails.
Reached(i, d) ==
    /\ NotListed(i, d)
    /\ d \in progress[i] \/ Unsaved(i, d) \/ owner[d] = Deleted

CountInv ==
    \A i \in Item, d \in Device :
        /\ received[i][d] <= 1 + faults
        /\ ~Reached(i, d) => received[i][d] <= faults

\* A worker's progress in memory is never behind the row's.
ProgressInv ==
    \A w \in Worker : pc[w] \in Sending => progress[item[w]] \subseteq delivered[w]

\* What became of the devices of a list on which nothing failed.
ListInv ==
    \A w \in Worker :
        /\ pc[w] \in Sending \union {"settle"} /\ ~transient[w] =>
              listed[item[w]] \subseteq progress[item[w]] \union expired[item[w]] \union Copies(w)
        /\ pc[w] = "save" /\ answer[w] = "expired" => dev[w] \in expired[item[w]]

\* No worker has a copy of a device that was removed quietly.
QuietInv ==
    \A d \in Device : removed[d] = "quiet" => ~active[d] /\ \A w \in Worker : d \notin Copies(w)

SentInv == TypeInv /\ OwnerInv /\ ProgressInv /\ CountInv

IInv == SentInv /\ ListInv /\ DoneReachedEveryone /\ QuietInv

-----------------------------------------------------------------------------
(* Type correctness                                                         *)

LEMMA InitTypeInv == Init => TypeInv
BY ConstantsAssumption
DEF Init, TypeInv, TypeOK, MemoryInv, ClaimInv, FailureInv, Copies, Sending, RowStatus, PC,
    Answers, Removal

\* Every step keeps the types.
LEMMA TypeStep ==
    ASSUME TypeInv, [Next]_vars
    PROVE  TypeInv'
<1> USE ConstantsAssumption
<1>1. ASSUME NEW s \in Seller, NEW d \in Device, Register(s, d)
      PROVE  TypeInv'
  BY <1>1 DEF Register,
     Goto, Fault, Copies, Sending, Present, Failing, FailureIsTransient, Obsolete, Targets,
     TypeInv, TypeOK, MemoryInv, ClaimInv, FailureInv, RowStatus, PC, Answers, Removal,
     devices, rows, memory, history
<1>2. ASSUME NEW s \in Seller, NEW d \in Device, Remove(s, d)
      PROVE  TypeInv'
  BY <1>2 DEF Remove,
     Goto, Fault, Copies, Sending, Present, Failing, FailureIsTransient, Obsolete, Targets,
     TypeInv, TypeOK, MemoryInv, ClaimInv, FailureInv, RowStatus, PC, Answers, Removal,
     devices, rows, memory, history
<1>3. ASSUME NEW d \in Device, Delete(d)
      PROVE  TypeInv'
  BY <1>3 DEF Delete,
     Goto, Fault, Copies, Sending, Present, Failing, FailureIsTransient, Obsolete, Targets,
     TypeInv, TypeOK, MemoryInv, ClaimInv, FailureInv, RowStatus, PC, Answers, Removal,
     devices, rows, memory, history
<1>4. ASSUME NEW i \in Item, NEW s \in Seller, Queue(i, s)
      PROVE  TypeInv'
  BY <1>4 DEF Queue,
     Goto, Fault, Copies, Sending, Present, Failing, FailureIsTransient, Obsolete, Targets,
     TypeInv, TypeOK, MemoryInv, ClaimInv, FailureInv, RowStatus, PC, Answers, Removal,
     devices, rows, memory, history
<1>5. ASSUME NEW w \in Worker, Boot(w)
      PROVE  TypeInv'
  <2>1. TypeOK'
    BY <1>5 DEF Boot, Goto, TypeInv, TypeOK, RowStatus, PC, devices, memory, history
  <2>2. MemoryInv'
    BY <1>5 DEF Boot, Goto, TypeInv, TypeOK, MemoryInv, Sending, PC, devices, memory, history
  <2>3. ClaimInv'
    <3>1. \A i \in Item : status'[i] = status[i] \/ (Obsolete(i) /\ status'[i] = "PENDING")
      BY <1>5 DEF Boot, TypeInv, TypeOK
    <3>2. QED
      BY <1>5, <3>1 DEF Boot, TypeInv, ClaimInv, Obsolete, memory
  <2>4. FailureInv'
    BY <1>5 DEF Boot, Goto, TypeInv, TypeOK, FailureInv, Copies, PC, devices, memory
  <2>5. QED BY <2>1, <2>2, <2>3, <2>4 DEF TypeInv
<1>6. ASSUME NEW w \in Worker, Claim(w)
      PROVE  TypeInv'
  BY <1>6 DEF Claim, Claimable,
     Goto, Fault, Copies, Sending, Present, Failing, FailureIsTransient, Obsolete, Targets,
     TypeInv, TypeOK, MemoryInv, ClaimInv, FailureInv, RowStatus, PC, Answers, Removal,
     devices, rows, memory, history
<1>7. ASSUME NEW w \in Worker, ListDevices(w)
      PROVE  TypeInv'
  BY <1>7 DEF ListDevices,
     Goto, Fault, Copies, Sending, Present, Failing, FailureIsTransient, Obsolete, Targets,
     TypeInv, TypeOK, MemoryInv, ClaimInv, FailureInv, RowStatus, PC, Answers, Removal,
     devices, rows, memory, history
<1>8. ASSUME NEW w \in Worker, Send(w)
      PROVE  TypeInv'
  BY <1>8 DEF Send,
     Goto, Fault, Copies, Sending, Present, Failing, FailureIsTransient, Obsolete, Targets,
     TypeInv, TypeOK, MemoryInv, ClaimInv, FailureInv, RowStatus, PC, Answers, Removal,
     devices, rows, memory, history
<1>9. ASSUME NEW w \in Worker, SaveDelivered(w)
      PROVE  TypeInv'
  BY <1>9 DEF SaveDelivered,
     Goto, Fault, Copies, Sending, Present, Failing, FailureIsTransient, Obsolete, Targets,
     TypeInv, TypeOK, MemoryInv, ClaimInv, FailureInv, RowStatus, PC, Answers, Removal,
     devices, rows, memory, history
<1>10. ASSUME NEW w \in Worker, SaveExpired(w)
      PROVE  TypeInv'
  BY <1>10 DEF SaveExpired,
     Goto, Fault, Copies, Sending, Present, Failing, FailureIsTransient, Obsolete, Targets,
     TypeInv, TypeOK, MemoryInv, ClaimInv, FailureInv, RowStatus, PC, Answers, Removal,
     devices, rows, memory, history
<1>11. ASSUME NEW w \in Worker, SaveFailed(w)
      PROVE  TypeInv'
  <2> DEFINE n == seen[w][dev[w]] + 1
  <2>1. /\ dev[w] \in Device /\ dev[w] \in Copies(w) /\ w \in Worker
        /\ n \in 1..MaxFailures
    BY <1>11 DEF SaveFailed, TypeInv, TypeOK, MemoryInv, FailureInv, Copies
  <2>2. /\ failures' = [failures EXCEPT ![dev[w]] = n]
        /\ active' = [active EXCEPT ![dev[w]] = ~(n >= MaxFailures)]
    BY <1>11 DEF SaveFailed, Failing
  <2> HIDE DEF n
  <2>3. TypeOK'
    BY <1>11, <2>1, <2>2
    DEF SaveFailed, FailureIsTransient, Goto, TypeInv, TypeOK, PC, rows, history
  <2>4. MemoryInv'
    BY <1>11 DEF SaveFailed, Goto, TypeInv, TypeOK, MemoryInv, Sending, PC
  <2>5. ClaimInv'
    BY <1>11 DEF SaveFailed, TypeInv, ClaimInv, rows
  <2>6. FailureInv'
    <3>1. \A d \in Device : active'[d] => failures'[d] < MaxFailures
      <4> SUFFICES ASSUME NEW d \in Device, active'[d]
                   PROVE  failures'[d] < MaxFailures
        OBVIOUS
      <4>1. CASE d = dev[w]
        <5>1. failures'[d] = n
          BY <2>1, <2>2, <4>1 DEF TypeInv, TypeOK
        <5>2. ~(n >= MaxFailures)
          BY <2>1, <2>2, <4>1 DEF TypeInv, TypeOK
        <5>3. QED BY <2>1, <5>1, <5>2
      <4>2. CASE d # dev[w]
        <5>1. active'[d] = active[d] /\ failures'[d] = failures[d]
          BY <2>1, <2>2, <4>2 DEF TypeInv, TypeOK
        <5>2. QED BY <5>1 DEF TypeInv, FailureInv
      <4>3. QED BY <4>1, <4>2
    <3>2. \A v \in Worker : Copies(v)' \subseteq Copies(v)
      BY <1>11 DEF SaveFailed, Goto, Copies, TypeInv, TypeOK
    <3>3. QED BY <1>11, <3>1, <3>2 DEF SaveFailed, FailureInv, TypeInv
  <2>7. QED BY <2>3, <2>4, <2>5, <2>6 DEF TypeInv
<1>12. ASSUME NEW w \in Worker, SaveRaises(w)
      PROVE  TypeInv'
  <2>1. faults' \in 0..MaxFaults
    BY <1>12 DEF SaveRaises, Fault, TypeInv, TypeOK
  <2>2. CASE answer[w] = "accepted"
    <3>1. TypeOK' /\ MemoryInv'
      BY <1>12, <2>1, <2>2 DEF SaveRaises, TypeInv, TypeOK, MemoryInv, Answers,
         devices, rows, history
    <3>2. ClaimInv' /\ FailureInv'
      BY <1>12, <2>2 DEF SaveRaises, TypeInv, ClaimInv, FailureInv, Copies, devices, rows
    <3>3. QED BY <3>1, <3>2 DEF TypeInv
  <2>3. CASE answer[w] # "accepted"
    <3>1. TypeOK'
      BY ZenonT(40), <1>12, <2>1, <2>3 DEF SaveRaises, Goto, TypeInv, TypeOK, PC, devices, rows, history
    <3>2. MemoryInv'
      BY <1>12, <2>3 DEF SaveRaises, Goto, TypeInv, TypeOK, MemoryInv, Sending, PC
    <3>3. ClaimInv'
      BY <1>12 DEF SaveRaises, TypeInv, ClaimInv, rows
    <3>4. \A v \in Worker : Copies(v)' \subseteq Copies(v)
      <4>1. pc' = [pc EXCEPT ![w] = "settle"] /\ todo' = [todo EXCEPT ![w] = {}] /\ dev' = dev
        BY <1>12, <2>3 DEF SaveRaises, Goto
      <4>2. QED BY <4>1 DEF Copies, TypeInv, TypeOK
    <3>5. FailureInv'
      BY <1>12, <3>4 DEF SaveRaises, TypeInv, FailureInv, devices
    <3>6. QED BY <3>1, <3>2, <3>3, <3>5 DEF TypeInv
  <2>4. QED BY <2>2, <2>3
<1>13. ASSUME NEW w \in Worker, SaveProgress(w)
      PROVE  TypeInv'
  BY <1>13 DEF SaveProgress,
     Goto, Fault, Copies, Sending, Present, Failing, FailureIsTransient, Obsolete, Targets,
     TypeInv, TypeOK, MemoryInv, ClaimInv, FailureInv, RowStatus, PC, Answers, Removal,
     devices, rows, memory, history
<1>14. ASSUME NEW w \in Worker, ProgressRaises(w)
      PROVE  TypeInv'
  BY <1>14 DEF ProgressRaises,
     Goto, Fault, Copies, Sending, Present, Failing, FailureIsTransient, Obsolete, Targets,
     TypeInv, TypeOK, MemoryInv, ClaimInv, FailureInv, RowStatus, PC, Answers, Removal,
     devices, rows, memory, history
<1>15. ASSUME NEW w \in Worker, EndDevices(w)
      PROVE  TypeInv'
  BY <1>15 DEF EndDevices,
     Goto, Fault, Copies, Sending, Present, Failing, FailureIsTransient, Obsolete, Targets,
     TypeInv, TypeOK, MemoryInv, ClaimInv, FailureInv, RowStatus, PC, Answers, Removal,
     devices, rows, memory, history
<1>16. ASSUME NEW w \in Worker, Settle(w)
      PROVE  TypeInv'
  <2> DEFINE i == item[w]
             n == attempts[i] + 1
             last == n >= MaxAttempts
  <2>1. /\ i \in Item /\ status[i] = "PROCESSING" /\ todo[w] = {}
        /\ n \in 1..MaxAttempts
    <3>1. pc[w] = "settle"
      BY <1>16 DEF Settle
    <3>2. i \in Item /\ todo[w] = {}
      BY <3>1 DEF TypeInv, MemoryInv, Sending
    <3>3. status[i] = "PROCESSING"
      BY <3>2 DEF TypeInv, ClaimInv
    <3>4. attempts[i] \in 0..MaxAttempts /\ attempts[i] < MaxAttempts
      BY <3>2, <3>3 DEF TypeInv, TypeOK, ClaimInv
    <3>5. QED BY <3>2, <3>3, <3>4
  <2>2. \/ /\ status' = [status EXCEPT ![i] = IF last THEN "DEAD" ELSE "PENDING"]
           /\ attempts' = [attempts EXCEPT ![i] = n]
        \/ status' = [status EXCEPT ![i] = "DONE"] /\ UNCHANGED attempts
    BY <1>16 DEF Settle
  <2>3. /\ item' = [item EXCEPT ![w] = NoItem]
        /\ pc' = [pc EXCEPT ![w] = "idle"]
        /\ UNCHANGED <<devices, recipient, progress, todo, seen, dev, answer, delivered,
                        transient, faults, history, removed>>
    BY <1>16 DEF Settle, Goto
  <2>4. TypeOK'
    <3>1. status' \in [Item -> RowStatus] /\ attempts' \in [Item -> 0..MaxAttempts]
      <4>1. n \in 0..MaxAttempts
        BY <2>1
      <4>2. (IF last THEN "DEAD" ELSE "PENDING") \in RowStatus /\ "DONE" \in RowStatus
        BY DEF RowStatus
      <4> DEFINE left == IF last THEN "DEAD" ELSE "PENDING"
      <4> HIDE DEF n, last, left
      <4>3. status' \in [Item -> RowStatus]
        <5>1. \E v \in RowStatus : status' = [status EXCEPT ![i] = v]
          BY <2>2, <4>2 DEF left
        <5>2. QED BY <5>1 DEF TypeInv, TypeOK
      <4>4. attempts' \in [Item -> 0..MaxAttempts]
        BY <2>1, <2>2, <4>1 DEF TypeInv, TypeOK
      <4>5. QED BY <4>3, <4>4
    <3>2. QED BY <2>1, <2>3, <3>1 DEF TypeInv, TypeOK, PC, devices, history
  <2>5. MemoryInv'
    BY <2>1, <2>3 DEF TypeInv, TypeOK, MemoryInv, Sending, PC
  <2>6. ClaimInv'
    <3>1. \A j \in Item : status'[j] \in {"ABSENT", "PENDING", "PROCESSING"} =>
                             attempts'[j] < MaxAttempts
      <4> SUFFICES ASSUME NEW j \in Item,
                          status'[j] \in {"ABSENT", "PENDING", "PROCESSING"}
                   PROVE  attempts'[j] < MaxAttempts
        OBVIOUS
      <4>1. CASE j # i
        <5>1. status'[j] = status[j] /\ attempts'[j] = attempts[j]
          BY <2>1, <2>2, <4>1 DEF TypeInv, TypeOK
        <5>2. QED BY <5>1 DEF TypeInv, ClaimInv
      <4>2. CASE j = i
        <5>1. \/ status'[j] = (IF last THEN "DEAD" ELSE "PENDING") /\ attempts'[j] = n
              \/ status'[j] = "DONE"
          BY <2>1, <2>2, <4>2 DEF TypeInv, TypeOK
        <5>2. ~last /\ attempts'[j] = n
          BY <5>1
        <5>3. QED BY <2>1, <5>2
      <4>3. QED BY <4>1, <4>2
    <3>2. \A v \in Worker : item'[v] \in Item =>
             item'[v] = item[v] /\ item[v] # i /\ status'[item[v]] = status[item[v]]
      BY <2>1, <2>2, <2>3 DEF TypeInv, TypeOK, ClaimInv
    <3>3. QED BY <3>1, <3>2 DEF TypeInv, ClaimInv
  <2>7. FailureInv'
    <3>1. \A v \in Worker : Copies(v)' \subseteq Copies(v)
      BY <2>3 DEF Copies, TypeInv, TypeOK
    <3>2. QED BY <2>3, <3>1 DEF TypeInv, FailureInv, devices
  <2>8. QED BY <2>4, <2>5, <2>6, <2>7 DEF TypeInv
<1>17. ASSUME NEW w \in Worker, Crash(w)
      PROVE  TypeInv'
  BY <1>17 DEF Crash,
     Goto, Fault, Copies, Sending, Present, Failing, FailureIsTransient, Obsolete, Targets,
     TypeInv, TypeOK, MemoryInv, ClaimInv, FailureInv, RowStatus, PC, Answers, Removal,
     devices, rows, memory, history
<1>18. CASE UNCHANGED vars
  BY <1>18 DEF vars, Goto, Fault, Copies, Sending, Present, Failing, FailureIsTransient, Obsolete, Targets,
     TypeInv, TypeOK, MemoryInv, ClaimInv, FailureInv, RowStatus, PC, Answers, Removal,
     devices, rows, memory, history
<1>19. QED
  BY <1>1, <1>2, <1>3, <1>4, <1>5, <1>6, <1>7, <1>8, <1>9, <1>10, <1>11, <1>12, <1>13, <1>14, <1>15, <1>16, <1>17, <1>18 DEF Next, OwnStep

-----------------------------------------------------------------------------
(* A notice is sent once, but for faults                                    *)

LEMMA OwnerStep ==
    ASSUME TypeInv, OwnerInv, [Next]_vars
    PROVE  OwnerInv'
<1>1. ASSUME NEW s \in Seller, NEW d \in Device, Register(s, d)
      PROVE  OwnerInv'
  BY <1>1 DEF Register, OwnerInv, TypeInv, TypeOK, rows
<1>2. ASSUME NEW s \in Seller, NEW d \in Device, Remove(s, d)
      PROVE  OwnerInv'
  BY <1>2 DEF Remove, OwnerInv, TypeInv, TypeOK, rows
<1>3. ASSUME NEW d \in Device, Delete(d)
      PROVE  OwnerInv'
  BY <1>3 DEF Delete, OwnerInv, TypeInv, TypeOK, rows
<1>4. ASSUME NEW i \in Item, NEW s \in Seller, Queue(i, s)
      PROVE  OwnerInv'
  BY <1>4 DEF Queue, OwnerInv, TypeInv, TypeOK, rows
<1>5. ASSUME NEW w \in Worker, Boot(w)
      PROVE  OwnerInv'
  <2>1. \A i \in Item : status'[i] # "ABSENT" => status[i] # "ABSENT"
    BY <1>5 DEF Boot, Obsolete, TypeInv, TypeOK
  <2>2. QED BY <1>5, <2>1 DEF Boot, OwnerInv
<1>6. ASSUME NEW w \in Worker, Claim(w)
      PROVE  OwnerInv'
  BY <1>6 DEF Claim, Claimable, OwnerInv, TypeInv, TypeOK, rows
<1>7. ASSUME NEW w \in Worker, ListDevices(w)
      PROVE  OwnerInv'
  BY <1>7 DEF ListDevices, OwnerInv, TypeInv, TypeOK, rows
<1>8. ASSUME NEW w \in Worker, Send(w)
      PROVE  OwnerInv'
  BY <1>8 DEF Send, OwnerInv, TypeInv, TypeOK, rows
<1>9. ASSUME NEW w \in Worker, SaveDelivered(w)
      PROVE  OwnerInv'
  BY <1>9 DEF SaveDelivered, OwnerInv, TypeInv, TypeOK, rows
<1>10. ASSUME NEW w \in Worker, SaveExpired(w)
      PROVE  OwnerInv'
  BY <1>10 DEF SaveExpired, OwnerInv, TypeInv, TypeOK, rows
<1>11. ASSUME NEW w \in Worker, SaveFailed(w)
      PROVE  OwnerInv'
  BY <1>11 DEF SaveFailed, OwnerInv, TypeInv, TypeOK, rows
<1>12. ASSUME NEW w \in Worker, SaveRaises(w)
      PROVE  OwnerInv'
  BY <1>12 DEF SaveRaises, OwnerInv, TypeInv, TypeOK, rows
<1>13. ASSUME NEW w \in Worker, SaveProgress(w)
      PROVE  OwnerInv'
  BY <1>13 DEF SaveProgress, OwnerInv, TypeInv, TypeOK, rows
<1>14. ASSUME NEW w \in Worker, ProgressRaises(w)
      PROVE  OwnerInv'
  BY <1>14 DEF ProgressRaises, OwnerInv, TypeInv, TypeOK, rows
<1>15. ASSUME NEW w \in Worker, EndDevices(w)
      PROVE  OwnerInv'
  BY <1>15 DEF EndDevices, OwnerInv, TypeInv, TypeOK, rows
<1>16. ASSUME NEW w \in Worker, Settle(w)
      PROVE  OwnerInv'
  <2>1. item[w] \in Item /\ status[item[w]] = "PROCESSING"
    BY <1>16 DEF Settle, TypeInv, MemoryInv, ClaimInv
  <2>2. \A i \in Item : i # item[w] => status'[i] = status[i]
    BY <1>16 DEF Settle, TypeInv, TypeOK
  <2>3. QED BY <1>16, <2>1, <2>2 DEF Settle, OwnerInv
<1>17. ASSUME NEW w \in Worker, Crash(w)
      PROVE  OwnerInv'
  BY <1>17 DEF Crash, OwnerInv, TypeInv, TypeOK, rows
<1>18. CASE UNCHANGED vars
  BY <1>18 DEF vars, OwnerInv, rows
<1>19. QED
  BY <1>1, <1>2, <1>3, <1>4, <1>5, <1>6, <1>7, <1>8, <1>9, <1>10, <1>11, <1>12, <1>13, <1>14, <1>15, <1>16, <1>17, <1>18 DEF Next, OwnStep

LEMMA ProgressStep ==
    ASSUME TypeInv, ProgressInv, [Next]_vars
    PROVE  ProgressInv'
<1>1. ASSUME NEW s \in Seller, NEW d \in Device, Register(s, d)
      PROVE  ProgressInv'
  BY <1>1 DEF Register, Goto, ProgressInv, Sending, TypeInv, TypeOK, MemoryInv, ClaimInv,
     PC, rows, memory
<1>2. ASSUME NEW s \in Seller, NEW d \in Device, Remove(s, d)
      PROVE  ProgressInv'
  BY <1>2 DEF Remove, Goto, ProgressInv, Sending, TypeInv, TypeOK, MemoryInv, ClaimInv,
     PC, rows, memory
<1>3. ASSUME NEW d \in Device, Delete(d)
      PROVE  ProgressInv'
  BY <1>3 DEF Delete, Goto, ProgressInv, Sending, TypeInv, TypeOK, MemoryInv, ClaimInv,
     PC, rows, memory
<1>4. ASSUME NEW i \in Item, NEW s \in Seller, Queue(i, s)
      PROVE  ProgressInv'
  BY <1>4 DEF Queue, Goto, ProgressInv, Sending, TypeInv, TypeOK, MemoryInv, ClaimInv,
     PC, rows, memory
<1>5. ASSUME NEW w \in Worker, Boot(w)
      PROVE  ProgressInv'
  BY <1>5 DEF Boot, Goto, ProgressInv, Sending, TypeInv, TypeOK, MemoryInv, ClaimInv,
     PC, rows, memory
<1>6. ASSUME NEW w \in Worker, Claim(w)
      PROVE  ProgressInv'
  BY <1>6 DEF Claim, Goto, ProgressInv, Sending, TypeInv, TypeOK, MemoryInv, ClaimInv,
     PC, rows, memory
<1>7. ASSUME NEW w \in Worker, ListDevices(w)
      PROVE  ProgressInv'
  BY <1>7 DEF ListDevices, Goto, ProgressInv, Sending, TypeInv, TypeOK, MemoryInv, ClaimInv,
     PC, rows, memory
<1>8. ASSUME NEW w \in Worker, Send(w)
      PROVE  ProgressInv'
  BY <1>8 DEF Send, Goto, ProgressInv, Sending, TypeInv, TypeOK, MemoryInv, ClaimInv,
     PC, rows, memory
<1>9. ASSUME NEW w \in Worker, SaveDelivered(w)
      PROVE  ProgressInv'
  BY <1>9 DEF SaveDelivered, Goto, ProgressInv, Sending, TypeInv, TypeOK, MemoryInv, ClaimInv,
     PC, rows, memory
<1>10. ASSUME NEW w \in Worker, SaveExpired(w)
      PROVE  ProgressInv'
  BY <1>10 DEF SaveExpired, Goto, ProgressInv, Sending, TypeInv, TypeOK, MemoryInv, ClaimInv,
     PC, rows, memory
<1>11. ASSUME NEW w \in Worker, SaveFailed(w)
      PROVE  ProgressInv'
  BY <1>11 DEF SaveFailed, Goto, ProgressInv, Sending, TypeInv, TypeOK, MemoryInv, ClaimInv,
     PC, rows, memory
<1>12. ASSUME NEW w \in Worker, SaveRaises(w)
      PROVE  ProgressInv'
  BY <1>12 DEF SaveRaises, Goto, ProgressInv, Sending, TypeInv, TypeOK, MemoryInv, ClaimInv,
     PC, rows, memory
<1>13. ASSUME NEW w \in Worker, SaveProgress(w)
      PROVE  ProgressInv'
  BY <1>13 DEF SaveProgress, Goto, ProgressInv, Sending, TypeInv, TypeOK, MemoryInv, ClaimInv,
     PC, rows, memory
<1>14. ASSUME NEW w \in Worker, ProgressRaises(w)
      PROVE  ProgressInv'
  BY <1>14 DEF ProgressRaises, Goto, ProgressInv, Sending, TypeInv, TypeOK, MemoryInv, ClaimInv,
     PC, rows, memory
<1>15. ASSUME NEW w \in Worker, EndDevices(w)
      PROVE  ProgressInv'
  BY <1>15 DEF EndDevices, Goto, ProgressInv, Sending, TypeInv, TypeOK, MemoryInv, ClaimInv,
     PC, rows, memory
<1>16. ASSUME NEW w \in Worker, Settle(w)
      PROVE  ProgressInv'
  BY <1>16 DEF Settle, Goto, ProgressInv, Sending, TypeInv, TypeOK, MemoryInv, ClaimInv,
     PC, rows, memory
<1>17. ASSUME NEW w \in Worker, Crash(w)
      PROVE  ProgressInv'
  BY <1>17 DEF Crash, Goto, ProgressInv, Sending, TypeInv, TypeOK, MemoryInv, ClaimInv,
     PC, rows, memory
<1>18. CASE UNCHANGED vars
  BY <1>18 DEF vars, ProgressInv, rows, memory
<1>19. QED
  BY <1>1, <1>2, <1>3, <1>4, <1>5, <1>6, <1>7, <1>8, <1>9, <1>10, <1>11, <1>12, <1>13, <1>14, <1>15, <1>16, <1>17, <1>18 DEF Next, OwnStep

\* A step that sends nothing and costs a fault.
LEMMA FaultStep ==
    ASSUME TypeInv, CountInv, Fault, UNCHANGED received
    PROVE  CountInv'
<1>1. faults' = faults + 1 /\ faults \in Nat
  BY ConstantsAssumption DEF Fault, TypeInv, TypeOK
<1>2. \A i \in Item, d \in Device : received[i][d] \in Nat
  BY DEF TypeInv, TypeOK
<1>3. \A i \in Item, d \in Device : received'[i][d] <= faults'
  BY <1>1, <1>2 DEF CountInv
<1>4. QED BY <1>1, <1>2, <1>3 DEF CountInv

\* A step that sends nothing and after which no device is left out.
LEMMA ReachedStep ==
    ASSUME CountInv, UNCHANGED <<received, faults>>,
           \A j \in Item, c \in Device : Reached(j, c) => Reached(j, c)'
    PROVE  CountInv'
BY DEF CountInv

LEMMA CountStep ==
    ASSUME SentInv, [Next]_vars
    PROVE  CountInv'
<1>1. ASSUME NEW s \in Seller, NEW d \in Device, Register(s, d)
      PROVE  CountInv'
  <2>1. UNCHANGED <<received, faults>>
    BY <1>1 DEF Register, history
  <2>2. \A j \in Item, c \in Device : Reached(j, c) => Reached(j, c)'
    BY <1>1 DEF Register, Goto, SentInv, Reached, NotListed, Unsaved, TypeInv, TypeOK, MemoryInv,
       Sending, PC, devices, rows, memory
  <2>3. QED BY <2>1, <2>2, ReachedStep DEF SentInv
<1>2. ASSUME NEW s \in Seller, NEW d \in Device, Remove(s, d)
      PROVE  CountInv'
  <2>1. UNCHANGED <<received, faults>>
    BY <1>2 DEF Remove, history
  <2>2. \A j \in Item, c \in Device : Reached(j, c) => Reached(j, c)'
    BY <1>2 DEF Remove, Goto, SentInv, Reached, NotListed, Unsaved, TypeInv, TypeOK, MemoryInv,
       Sending, PC, devices, rows, memory
  <2>3. QED BY <2>1, <2>2, ReachedStep DEF SentInv
<1>3. ASSUME NEW d \in Device, Delete(d)
      PROVE  CountInv'
  <2>1. UNCHANGED <<received, faults>>
    BY <1>3 DEF Delete, history
  <2>2. \A j \in Item, c \in Device : Reached(j, c) => Reached(j, c)'
    BY <1>3 DEF Delete, Goto, SentInv, Reached, NotListed, Unsaved, TypeInv, TypeOK, MemoryInv,
       Sending, PC, devices, rows, memory
  <2>3. QED BY <2>1, <2>2, ReachedStep DEF SentInv
<1>4. ASSUME NEW i \in Item, NEW s \in Seller, Queue(i, s)
      PROVE  CountInv'
  <2>1. UNCHANGED <<received, faults>>
    BY <1>4 DEF Queue, history
  <2>2. \A j \in Item, c \in Device : Reached(j, c) => Reached(j, c)'
    BY <1>4 DEF Queue, Goto, SentInv, Reached, NotListed, Unsaved, TypeInv, TypeOK, MemoryInv,
       Sending, PC, devices, rows, memory
  <2>3. QED BY <2>1, <2>2, ReachedStep DEF SentInv
<1>5. ASSUME NEW w \in Worker, Boot(w)
      PROVE  CountInv'
  <2>1. UNCHANGED <<received, faults>>
    BY <1>5 DEF Boot, history
  <2>2. \A j \in Item, c \in Device : Reached(j, c) => Reached(j, c)'
    BY <1>5 DEF Boot, Goto, SentInv, Reached, NotListed, Unsaved, TypeInv, TypeOK, MemoryInv,
       Sending, PC, devices, rows, memory
  <2>3. QED BY <2>1, <2>2, ReachedStep DEF SentInv
<1>6. ASSUME NEW w \in Worker, Claim(w)
      PROVE  CountInv'
  <2>1. UNCHANGED <<received, faults>>
    BY <1>6 DEF Claim, history
  <2>2. \A j \in Item, c \in Device : Reached(j, c) => Reached(j, c)'
    BY ZenonT(40), <1>6 DEF Claim, Goto, SentInv, Reached, NotListed, Unsaved, TypeInv, TypeOK, MemoryInv,
       Sending, PC, devices, rows, memory
  <2>3. QED BY <2>1, <2>2, ReachedStep DEF SentInv
<1>7. ASSUME NEW w \in Worker, ListDevices(w)
      PROVE  CountInv'
  <2> DEFINE i == item[w]
  <2>1. /\ pc[w] = "list" /\ i \in Item
        /\ todo' = [todo EXCEPT ![w] = Targets(i)]
        /\ pc' = [pc EXCEPT ![w] = "next"]
        /\ UNCHANGED <<devices, rows, item, dev, answer, faults, received>>
    BY <1>7 DEF ListDevices, Goto, SentInv, TypeInv, MemoryInv
  <2>2. recipient[i] # Deleted
    BY <2>1, ConstantsAssumption DEF SentInv, OwnerInv, TypeInv, ClaimInv
  <2>3. ASSUME NEW j \in Item, NEW d \in Device, Reached(j, d)
        PROVE  Reached(j, d)'
    <3>1. Unsaved(j, d) => Unsaved(j, d)'
      BY <2>1 DEF Unsaved, SentInv, TypeInv, TypeOK
    <3>2. CASE j # i
      BY <2>1, <2>3, <3>1, <3>2 DEF Reached, NotListed, SentInv, TypeInv, TypeOK, devices, rows
    <3>3. CASE j = i
      <4>1. ~Unsaved(j, d)
        BY <2>1, <3>3 DEF Unsaved, SentInv, TypeInv, ClaimInv
      <4>2. d \in progress[i] \/ owner[d] = Deleted
        BY <2>3, <3>3, <4>1 DEF Reached
      <4>3. d \notin Targets(i)
        BY <2>2, <4>2 DEF Targets
      <4>4. NotListed(j, d)'
        BY <2>1, <2>3, <4>3 DEF Reached, NotListed, SentInv, TypeInv, TypeOK
      <4>5. QED BY <2>1, <3>3, <4>2, <4>4 DEF Reached, devices, rows
    <3>4. QED BY <3>2, <3>3
  <2>4. QED BY <2>1, <2>3, ReachedStep DEF SentInv
<1>8. ASSUME NEW w \in Worker, Send(w)
      PROVE  CountInv'
  <2>1. PICK d \in todo[w], a \in Answers, reaches \in BOOLEAN :
          /\ a = "accepted" => reaches
          /\ IF a = "error" /\ reaches THEN Fault ELSE UNCHANGED faults
          /\ a = "expired" => ~reaches
          /\ dev' = [dev EXCEPT ![w] = d]
          /\ todo' = [todo EXCEPT ![w] = @ \ {d}]
          /\ answer' = [answer EXCEPT ![w] = a]
          /\ received' = IF reaches
                         THEN [received EXCEPT ![item[w]][d] = @ + 1]
                         ELSE received
    BY <1>8 DEF Send
  <2>0. PICK i \in Item : i = item[w]
    BY <1>8 DEF Send, SentInv, TypeInv, MemoryInv
  <2>2. /\ pc[w] = "next" /\ item[w] = i /\ d \in Device
        /\ pc' = [pc EXCEPT ![w] = "save"]
        /\ UNCHANGED <<devices, rows, item>>
    BY <1>8, <2>0 DEF Send, Goto, SentInv, TypeInv, TypeOK
  <2>3. received[i][d] <= faults
    BY <2>1, <2>2 DEF SentInv, CountInv, Reached, NotListed
  <2>4. faults' \in Nat /\ faults \in Nat /\ faults <= faults'
    BY <2>1, ConstantsAssumption DEF Fault, SentInv, TypeInv, TypeOK
  <2>5. ASSUME NEW j \in Item, NEW e \in Device, ~(j = i /\ e = d)
        PROVE  /\ received'[j][e] = received[j][e]
               /\ Reached(j, e) => Reached(j, e)'
    <3>1. received'[j][e] = received[j][e]
      BY <2>1, <2>2, <2>5 DEF SentInv, TypeInv, TypeOK
    <3>2. NotListed(j, e) => NotListed(j, e)'
      BY <2>1, <2>2 DEF NotListed, SentInv, TypeInv, TypeOK
    <3>3. Unsaved(j, e) => Unsaved(j, e)'
      BY <2>1, <2>2 DEF Unsaved, SentInv, TypeInv, TypeOK
    <3>4. QED BY <2>2, <3>1, <3>2, <3>3 DEF Reached, devices, rows
  <2>6. /\ received'[i][d] <= 1 + faults'
        /\ ~Reached(i, d)' => received'[i][d] <= faults'
    <3>1. CASE ~reaches
      BY <2>1, <2>3, <2>4, <3>1, <2>2 DEF SentInv, TypeInv, TypeOK
    <3>2. CASE reaches
      <4>1. received'[i][d] = received[i][d] + 1 /\ received[i][d] \in Nat
        BY <2>1, <2>2, <3>2 DEF SentInv, TypeInv, TypeOK
      <4>2. CASE a = "error"
        BY <2>1, <2>3, <2>4, <3>2, <4>1, <4>2 DEF Fault
      <4>3. CASE a = "accepted"
        <5>1. Unsaved(i, d)'
          BY <2>1, <2>2, <4>3 DEF Unsaved, SentInv, TypeInv, TypeOK
        <5>2. NotListed(i, d)'
          BY <2>1, <2>2 DEF NotListed, SentInv, TypeInv, TypeOK, ClaimInv
        <5>3. QED BY <2>3, <2>4, <4>1, <5>1, <5>2 DEF Reached
      <4>4. QED BY <2>1, <3>2, <4>2, <4>3 DEF Answers
    <3>3. QED BY <3>1, <3>2
  <2>7. ASSUME NEW j \in Item, NEW e \in Device
        PROVE  /\ received'[j][e] <= 1 + faults'
               /\ ~Reached(j, e)' => received'[j][e] <= faults'
    <3>1. CASE j = i /\ e = d
      BY <2>6, <3>1
    <3>2. CASE ~(j = i /\ e = d)
      <4>1. received[j][e] \in Nat
        BY DEF SentInv, TypeInv, TypeOK
      <4>2. QED BY <2>4, <2>5, <3>2, <4>1 DEF SentInv, CountInv
    <3>3. QED BY <3>1, <3>2
  <2>8. QED BY <2>7 DEF CountInv
<1>9. ASSUME NEW w \in Worker, SaveDelivered(w)
      PROVE  CountInv'
  <2>1. UNCHANGED <<received, faults>>
    BY <1>9 DEF SaveDelivered, history
  <2>2. \A j \in Item, c \in Device : Reached(j, c) => Reached(j, c)'
    BY <1>9 DEF SaveDelivered, Goto, SentInv, Reached, NotListed, Unsaved, TypeInv, TypeOK, MemoryInv,
       Sending, PC, devices, rows, memory
  <2>3. QED BY <2>1, <2>2, ReachedStep DEF SentInv
<1>10. ASSUME NEW w \in Worker, SaveExpired(w)
      PROVE  CountInv'
  <2>1. UNCHANGED <<received, faults>>
    BY <1>10 DEF SaveExpired, history
  <2>2. \A j \in Item, c \in Device : Reached(j, c) => Reached(j, c)'
    BY <1>10 DEF SaveExpired, Goto, SentInv, Reached, NotListed, Unsaved, TypeInv, TypeOK, MemoryInv,
       Sending, PC, devices, rows, memory
  <2>3. QED BY <2>1, <2>2, ReachedStep DEF SentInv
<1>11. ASSUME NEW w \in Worker, SaveFailed(w)
      PROVE  CountInv'
  <2>1. UNCHANGED <<received, faults>>
    BY <1>11 DEF SaveFailed, history
  <2>2. \A j \in Item, c \in Device : Reached(j, c) => Reached(j, c)'
    BY <1>11 DEF SaveFailed, Goto, SentInv, Reached, NotListed, Unsaved, TypeInv, TypeOK, MemoryInv,
       Sending, PC, devices, rows, memory
  <2>3. QED BY <2>1, <2>2, ReachedStep DEF SentInv
<1>12. ASSUME NEW w \in Worker, SaveRaises(w)
      PROVE  CountInv'
  <2>1. CASE Present(w)
    BY <1>12, <2>1, FaultStep DEF SaveRaises, SentInv, history
  <2>2. CASE ~Present(w)
    <3>1. UNCHANGED <<received, faults>>
      BY <1>12, <2>2 DEF SaveRaises, history
    <3>2. ASSUME NEW i \in Item, NEW d \in Device, Reached(i, d)
          PROVE  Reached(i, d)'
      <4>1. NotListed(i, d)'
        BY <1>12, <3>2 DEF SaveRaises, Reached, NotListed, SentInv, TypeInv, TypeOK
      <4>2. owner' = owner /\ progress' = progress
        BY <1>12 DEF SaveRaises, devices, rows
      <4>3. Unsaved(i, d) => Unsaved(i, d)' \/ owner[d] = Deleted
        BY <1>12, <2>2 DEF SaveRaises, Goto, Unsaved, Present, SentInv, TypeInv, TypeOK
      <4>4. QED BY <3>2, <4>1, <4>2, <4>3 DEF Reached
    <3>3. QED BY <3>1, <3>2, ReachedStep DEF SentInv
  <2>3. QED BY <2>1, <2>2
<1>13. ASSUME NEW w \in Worker, SaveProgress(w)
      PROVE  CountInv'
  <2>1. /\ pc[w] = "progress" /\ item[w] \in Item /\ dev[w] \in Device
        /\ progress' = [progress EXCEPT ![item[w]] = delivered[w] \union {dev[w]}]
        /\ pc' = [pc EXCEPT ![w] = "next"]
        /\ UNCHANGED <<devices, item, todo, dev, answer, received, faults>>
    BY <1>13 DEF SaveProgress, Goto, SentInv, TypeInv, TypeOK, MemoryInv, history
  <2>2. progress[item[w]] \subseteq delivered[w]
    BY <2>1 DEF SentInv, ProgressInv, Sending
  <2>3. ASSUME NEW i \in Item, NEW d \in Device, Reached(i, d)
        PROVE  Reached(i, d)'
    <3>1. NotListed(i, d)'
      BY <2>1, <2>3 DEF Reached, NotListed
    <3>2. d \in progress[i] => d \in progress'[i]
      BY <2>1, <2>2 DEF SentInv, TypeInv, TypeOK
    <3>3. Unsaved(i, d) => Unsaved(i, d)' \/ d \in progress'[i]
      BY <2>1 DEF Unsaved, SentInv, TypeInv, TypeOK
    <3>4. QED BY <2>1, <2>3, <3>1, <3>2, <3>3 DEF Reached, devices
  <2>4. QED BY <2>1, <2>3, ReachedStep DEF SentInv
<1>14. ASSUME NEW w \in Worker, ProgressRaises(w)
      PROVE  CountInv'
  BY <1>14, FaultStep DEF ProgressRaises, SentInv, history
<1>15. ASSUME NEW w \in Worker, EndDevices(w)
      PROVE  CountInv'
  <2>1. UNCHANGED <<received, faults>>
    BY <1>15 DEF EndDevices, history
  <2>2. \A j \in Item, c \in Device : Reached(j, c) => Reached(j, c)'
    BY <1>15 DEF EndDevices, Goto, SentInv, Reached, NotListed, Unsaved, TypeInv, TypeOK, MemoryInv,
       Sending, PC, devices, rows, memory
  <2>3. QED BY <2>1, <2>2, ReachedStep DEF SentInv
<1>16. ASSUME NEW w \in Worker, Settle(w)
      PROVE  CountInv'
  <2>1. UNCHANGED <<received, faults>>
    BY <1>16 DEF Settle, history
  <2>2. \A j \in Item, c \in Device : Reached(j, c) => Reached(j, c)'
    BY <1>16 DEF Settle, Goto, SentInv, Reached, NotListed, Unsaved, TypeInv, TypeOK, MemoryInv,
       Sending, PC, devices, rows, memory
  <2>3. QED BY <2>1, <2>2, ReachedStep DEF SentInv
<1>17. ASSUME NEW w \in Worker, Crash(w)
      PROVE  CountInv'
  BY <1>17, FaultStep DEF Crash, SentInv, history
<1>18. CASE UNCHANGED vars
  BY <1>18 DEF vars, SentInv, CountInv, Reached, NotListed, Unsaved, devices, rows, memory, history
<1>19. QED
  BY <1>1, <1>2, <1>3, <1>4, <1>5, <1>6, <1>7, <1>8, <1>9, <1>10, <1>11, <1>12, <1>13, <1>14, <1>15, <1>16, <1>17, <1>18 DEF Next, OwnStep

-----------------------------------------------------------------------------
(* A notice that is DONE reached everyone                                   *)

LEMMA ListStep ==
    ASSUME SentInv, ListInv, DoneReachedEveryone, [Next]_vars
    PROVE  (ListInv /\ DoneReachedEveryone)'
<1>1. ASSUME NEW s \in Seller, NEW d \in Device, Register(s, d)
      PROVE  (ListInv /\ DoneReachedEveryone)'
  BY <1>1 DEF Register, Goto, FailureIsTransient, SentInv, ListInv, DoneReachedEveryone, Copies,
     TypeInv, TypeOK, MemoryInv, ClaimInv, ProgressInv, Sending, PC, Answers, rows, memory, history
<1>2. ASSUME NEW s \in Seller, NEW d \in Device, Remove(s, d)
      PROVE  (ListInv /\ DoneReachedEveryone)'
  BY <1>2 DEF Remove, Goto, FailureIsTransient, SentInv, ListInv, DoneReachedEveryone, Copies,
     TypeInv, TypeOK, MemoryInv, ClaimInv, ProgressInv, Sending, PC, Answers, rows, memory, history
<1>3. ASSUME NEW d \in Device, Delete(d)
      PROVE  (ListInv /\ DoneReachedEveryone)'
  BY <1>3 DEF Delete, Goto, FailureIsTransient, SentInv, ListInv, DoneReachedEveryone, Copies,
     TypeInv, TypeOK, MemoryInv, ClaimInv, ProgressInv, Sending, PC, Answers, rows, memory, history
<1>4. ASSUME NEW i \in Item, NEW s \in Seller, Queue(i, s)
      PROVE  (ListInv /\ DoneReachedEveryone)'
  BY <1>4 DEF Queue, Goto, FailureIsTransient, SentInv, ListInv, DoneReachedEveryone, Copies,
     TypeInv, TypeOK, MemoryInv, ClaimInv, ProgressInv, Sending, PC, Answers, rows, memory, history
<1>5. ASSUME NEW w \in Worker, Boot(w)
      PROVE  (ListInv /\ DoneReachedEveryone)'
  BY <1>5 DEF Boot, Goto, FailureIsTransient, SentInv, ListInv, DoneReachedEveryone, Copies,
     TypeInv, TypeOK, MemoryInv, ClaimInv, ProgressInv, Sending, PC, Answers, rows, memory, history
<1>6. ASSUME NEW w \in Worker, Claim(w)
      PROVE  (ListInv /\ DoneReachedEveryone)'
  BY <1>6 DEF Claim, Goto, FailureIsTransient, SentInv, ListInv, DoneReachedEveryone, Copies,
     TypeInv, TypeOK, MemoryInv, ClaimInv, ProgressInv, Sending, PC, Answers, rows, memory, history
<1>7. ASSUME NEW w \in Worker, ListDevices(w)
      PROVE  (ListInv /\ DoneReachedEveryone)'
  BY <1>7 DEF ListDevices, Goto, FailureIsTransient, SentInv, ListInv, DoneReachedEveryone, Copies,
     TypeInv, TypeOK, MemoryInv, ClaimInv, ProgressInv, Sending, PC, Answers, rows, memory, history
<1>8. ASSUME NEW w \in Worker, Send(w)
      PROVE  (ListInv /\ DoneReachedEveryone)'
  BY <1>8 DEF Send, Goto, FailureIsTransient, SentInv, ListInv, DoneReachedEveryone, Copies,
     TypeInv, TypeOK, MemoryInv, ClaimInv, ProgressInv, Sending, PC, Answers, rows, memory, history
<1>9. ASSUME NEW w \in Worker, SaveDelivered(w)
      PROVE  (ListInv /\ DoneReachedEveryone)'
  BY <1>9 DEF SaveDelivered, Goto, FailureIsTransient, SentInv, ListInv, DoneReachedEveryone, Copies,
     TypeInv, TypeOK, MemoryInv, ClaimInv, ProgressInv, Sending, PC, Answers, rows, memory, history
<1>10. ASSUME NEW w \in Worker, SaveExpired(w)
      PROVE  (ListInv /\ DoneReachedEveryone)'
  BY <1>10 DEF SaveExpired, Goto, FailureIsTransient, SentInv, ListInv, DoneReachedEveryone, Copies,
     TypeInv, TypeOK, MemoryInv, ClaimInv, ProgressInv, Sending, PC, Answers, rows, memory, history
<1>11. ASSUME NEW w \in Worker, SaveFailed(w)
      PROVE  (ListInv /\ DoneReachedEveryone)'
  BY <1>11 DEF SaveFailed, Goto, FailureIsTransient, SentInv, ListInv, DoneReachedEveryone, Copies,
     TypeInv, TypeOK, MemoryInv, ClaimInv, ProgressInv, Sending, PC, Answers, rows, memory, history
<1>12. ASSUME NEW w \in Worker, SaveRaises(w)
      PROVE  (ListInv /\ DoneReachedEveryone)'
  <2>1. UNCHANGED <<status, progress, item, delivered, listed, expired>>
    BY <1>12 DEF SaveRaises, rows, history
  <2>2. DoneReachedEveryone'
    BY <2>1 DEF DoneReachedEveryone
  <2>3. ListInv'
    <3>1. /\ pc[w] = "save" /\ pc'[w] \in {"save", "settle"}
          /\ dev' = dev
      BY <1>12 DEF SaveRaises, Goto, SentInv, TypeInv, TypeOK
    <3>2. pc'[w] = "settle" => transient'[w]
      BY <1>12, <3>1 DEF SaveRaises, SentInv, TypeInv, TypeOK
    <3>3. pc'[w] = "save" => transient'[w] = transient[w] /\ todo'[w] = todo[w] /\ answer'[w] = "error"
      BY <1>12, <3>1 DEF SaveRaises, Goto, SentInv, TypeInv, TypeOK
    <3>4. \A v \in Worker \ {w} : pc'[v] = pc[v] /\ transient'[v] = transient[v]
                                   /\ todo'[v] = todo[v] /\ answer'[v] = answer[v]
      BY <1>12, <3>1 DEF SaveRaises, Goto, SentInv, TypeInv, TypeOK
    <3>5. QED
      BY <2>1, <3>1, <3>2, <3>3, <3>4 DEF ListInv, Copies, Sending
  <2>4. QED BY <2>2, <2>3
<1>13. ASSUME NEW w \in Worker, SaveProgress(w)
      PROVE  (ListInv /\ DoneReachedEveryone)'
  BY <1>13 DEF SaveProgress, Goto, FailureIsTransient, SentInv, ListInv, DoneReachedEveryone, Copies,
     TypeInv, TypeOK, MemoryInv, ClaimInv, ProgressInv, Sending, PC, Answers, rows, memory, history
<1>14. ASSUME NEW w \in Worker, ProgressRaises(w)
      PROVE  (ListInv /\ DoneReachedEveryone)'
  BY <1>14 DEF ProgressRaises, Goto, FailureIsTransient, SentInv, ListInv, DoneReachedEveryone, Copies,
     TypeInv, TypeOK, MemoryInv, ClaimInv, ProgressInv, Sending, PC, Answers, rows, memory, history
<1>15. ASSUME NEW w \in Worker, EndDevices(w)
      PROVE  (ListInv /\ DoneReachedEveryone)'
  BY <1>15 DEF EndDevices, Goto, FailureIsTransient, SentInv, ListInv, DoneReachedEveryone, Copies,
     TypeInv, TypeOK, MemoryInv, ClaimInv, ProgressInv, Sending, PC, Answers, rows, memory, history
<1>16. ASSUME NEW w \in Worker, Settle(w)
      PROVE  (ListInv /\ DoneReachedEveryone)'
  <2>1. /\ item[w] \in Item /\ pc[w] = "settle" /\ Copies(w) = {}
    BY <1>16 DEF Settle, Copies, SentInv, TypeInv, MemoryInv, Sending
  <2>2. \A i \in Item : i # item[w] => status'[i] = status[i]
    BY <1>16 DEF Settle, SentInv, TypeInv, TypeOK
  <2>3. status'[item[w]] = "DONE" => ~transient[w]
    BY <1>16, <2>1 DEF Settle, SentInv, TypeInv, TypeOK
  <2>4. /\ progress' = progress /\ listed' = listed /\ expired' = expired
        /\ transient' = transient /\ todo' = todo /\ dev' = dev /\ answer' = answer
        /\ pc' = [pc EXCEPT ![w] = "idle"] /\ item' = [item EXCEPT ![w] = NoItem]
    BY <1>16 DEF Settle, Goto, history
  <2>5. DoneReachedEveryone'
    BY <2>1, <2>2, <2>3, <2>4 DEF DoneReachedEveryone, ListInv
  <2>6. ListInv'
    BY <2>4 DEF ListInv, Copies, Sending, SentInv, TypeInv, TypeOK
  <2>7. QED BY <2>5, <2>6
<1>17. ASSUME NEW w \in Worker, Crash(w)
      PROVE  (ListInv /\ DoneReachedEveryone)'
  BY <1>17 DEF Crash, Goto, FailureIsTransient, SentInv, ListInv, DoneReachedEveryone, Copies,
     TypeInv, TypeOK, MemoryInv, ClaimInv, ProgressInv, Sending, PC, Answers, rows, memory, history
<1>18. CASE UNCHANGED vars
  BY <1>18 DEF vars, ListInv, DoneReachedEveryone, Copies, rows, memory, history
<1>19. QED
  BY <1>1, <1>2, <1>3, <1>4, <1>5, <1>6, <1>7, <1>8, <1>9, <1>10, <1>11, <1>12, <1>13, <1>14, <1>15, <1>16, <1>17, <1>18 DEF Next, OwnStep

-----------------------------------------------------------------------------
(* A quiet removal holds                                                    *)

LEMMA QuietStep ==
    ASSUME TypeInv, QuietInv, [Next]_vars
    PROVE  QuietInv'
<1>1. ASSUME NEW s \in Seller, NEW d \in Device, Register(s, d)
      PROVE  QuietInv'
  BY <1>1 DEF Register, Goto, QuietInv, Copies, Targets,
     TypeInv, TypeOK, MemoryInv, Sending, PC, Removal, devices, memory
<1>2. ASSUME NEW s \in Seller, NEW d \in Device, Remove(s, d)
      PROVE  QuietInv'
  BY <1>2 DEF Remove, Goto, QuietInv, Copies, Targets,
     TypeInv, TypeOK, MemoryInv, Sending, PC, Removal, devices, memory
<1>3. ASSUME NEW d \in Device, Delete(d)
      PROVE  QuietInv'
  BY <1>3 DEF Delete, Goto, QuietInv, Copies, Targets,
     TypeInv, TypeOK, MemoryInv, Sending, PC, Removal, devices, memory
<1>4. ASSUME NEW i \in Item, NEW s \in Seller, Queue(i, s)
      PROVE  QuietInv'
  BY <1>4 DEF Queue, Goto, QuietInv, Copies, Targets,
     TypeInv, TypeOK, MemoryInv, Sending, PC, Removal, devices, memory
<1>5. ASSUME NEW w \in Worker, Boot(w)
      PROVE  QuietInv'
  BY <1>5 DEF Boot, Goto, QuietInv, Copies, Targets,
     TypeInv, TypeOK, MemoryInv, Sending, PC, Removal, devices, memory
<1>6. ASSUME NEW w \in Worker, Claim(w)
      PROVE  QuietInv'
  BY <1>6 DEF Claim, Goto, QuietInv, Copies, Targets,
     TypeInv, TypeOK, MemoryInv, Sending, PC, Removal, devices, memory
<1>7. ASSUME NEW w \in Worker, ListDevices(w)
      PROVE  QuietInv'
  BY <1>7 DEF ListDevices, Goto, QuietInv, Copies, Targets,
     TypeInv, TypeOK, MemoryInv, Sending, PC, Removal, devices, memory
<1>8. ASSUME NEW w \in Worker, Send(w)
      PROVE  QuietInv'
  BY <1>8 DEF Send, Goto, QuietInv, Copies, Targets,
     TypeInv, TypeOK, MemoryInv, Sending, PC, Removal, devices, memory
<1>9. ASSUME NEW w \in Worker, SaveDelivered(w)
      PROVE  QuietInv'
  BY <1>9 DEF SaveDelivered, Goto, QuietInv, Copies, Targets,
     TypeInv, TypeOK, MemoryInv, Sending, PC, Removal, devices, memory
<1>10. ASSUME NEW w \in Worker, SaveExpired(w)
      PROVE  QuietInv'
  BY <1>10 DEF SaveExpired, Goto, QuietInv, Copies, Targets,
     TypeInv, TypeOK, MemoryInv, Sending, PC, Removal, devices, memory
<1>11. ASSUME NEW w \in Worker, SaveFailed(w)
      PROVE  QuietInv'
  BY <1>11 DEF SaveFailed, Goto, QuietInv, Copies, Targets,
     TypeInv, TypeOK, MemoryInv, Sending, PC, Removal, devices, memory
<1>12. ASSUME NEW w \in Worker, SaveRaises(w)
      PROVE  QuietInv'
  <2>1. \A v \in Worker : Copies(v)' \subseteq Copies(v)
    <3>1. CASE answer[w] = "accepted"
      BY <1>12, <3>1 DEF SaveRaises, Copies
    <3>2. CASE answer[w] # "accepted"
      <4>1. pc' = [pc EXCEPT ![w] = "settle"] /\ todo' = [todo EXCEPT ![w] = {}] /\ dev' = dev
        BY <1>12, <3>2 DEF SaveRaises, Goto
      <4>2. QED BY <4>1 DEF Copies, TypeInv, TypeOK
    <3>3. QED BY <3>1, <3>2
  <2>2. QED BY <1>12, <2>1 DEF SaveRaises, QuietInv, devices
<1>13. ASSUME NEW w \in Worker, SaveProgress(w)
      PROVE  QuietInv'
  BY <1>13 DEF SaveProgress, Goto, QuietInv, Copies, Targets,
     TypeInv, TypeOK, MemoryInv, Sending, PC, Removal, devices, memory
<1>14. ASSUME NEW w \in Worker, ProgressRaises(w)
      PROVE  QuietInv'
  BY <1>14 DEF ProgressRaises, Goto, QuietInv, Copies, Targets,
     TypeInv, TypeOK, MemoryInv, Sending, PC, Removal, devices, memory
<1>15. ASSUME NEW w \in Worker, EndDevices(w)
      PROVE  QuietInv'
  BY <1>15 DEF EndDevices, Goto, QuietInv, Copies, Targets,
     TypeInv, TypeOK, MemoryInv, Sending, PC, Removal, devices, memory
<1>16. ASSUME NEW w \in Worker, Settle(w)
      PROVE  QuietInv'
  BY <1>16 DEF Settle, Goto, QuietInv, Copies, Targets,
     TypeInv, TypeOK, MemoryInv, Sending, PC, Removal, devices, memory
<1>17. ASSUME NEW w \in Worker, Crash(w)
      PROVE  QuietInv'
  BY <1>17 DEF Crash, Goto, QuietInv, Copies, Targets,
     TypeInv, TypeOK, MemoryInv, Sending, PC, Removal, devices, memory
<1>18. CASE UNCHANGED vars
  BY <1>18 DEF vars, QuietInv, Copies, devices, memory
<1>19. QED
  BY <1>1, <1>2, <1>3, <1>4, <1>5, <1>6, <1>7, <1>8, <1>9, <1>10, <1>11, <1>12, <1>13, <1>14, <1>15, <1>16, <1>17, <1>18 DEF Next, OwnStep

-----------------------------------------------------------------------------
(* Theorems                                                                 *)

LEMMA InitIInv == Init => IInv
<1>1. Init => TypeInv
  BY InitTypeInv
<1>2. Init => OwnerInv /\ ProgressInv /\ CountInv
  BY ConstantsAssumption DEF Init, OwnerInv, ProgressInv, CountInv, Sending
<1>3. Init => ListInv /\ DoneReachedEveryone /\ QuietInv
  BY DEF Init, ListInv, DoneReachedEveryone, QuietInv, Sending
<1>4. QED BY <1>1, <1>2, <1>3 DEF IInv, SentInv

LEMMA StepIInv == IInv /\ [Next]_vars => IInv'
BY TypeStep, OwnerStep, ProgressStep, CountStep, ListStep, QuietStep DEF IInv, SentInv

THEOREM IInvHolds == Spec => []IInv
BY InitIInv, StepIInv, PTL DEF Spec

\* The variables have their types.
THEOREM TypeCorrect == Spec => []TypeOK
<1>1. IInv => TypeOK
  BY DEF IInv, SentInv, TypeInv
<1>2. QED BY <1>1, IInvHolds, PTL

\* However many devices, workers, retries and registrations there are, a device is
\* sent a notice once, plus at most once for each crash, lost answer or failed save
\* (the progress kept in the payload by send_push_outbox_item).
THEOREM SentOnceButForFaults == Spec => []AtMostOncePerFault
<1>1. IInv => AtMostOncePerFault
  BY DEF IInv, SentInv, CountInv, AtMostOncePerFault
<1>2. QED BY <1>1, IInvHolds, PTL

\* However many workers count the failures of a device from copies of their own,
\* and whatever is registered, removed or deleted meanwhile, no device at the limit
\* is active.
THEOREM FailingDevicesAreRetired == Spec => []RetiredInTime
<1>1. IInv => RetiredInTime
  BY DEF IInv, SentInv, TypeInv, FailureInv, RetiredInTime
<1>2. QED BY <1>1, IInvHolds, PTL

\* A row becomes DONE only when its whole list was reached or retired.
THEOREM DoneMeansReached == Spec => []DoneReachedEveryone
<1>1. IInv => DoneReachedEveryone
  BY DEF IInv
<1>2. QED BY <1>1, IInvHolds, PTL

\* A removal no worker raced with holds until the device registers again.
THEOREM QuietRemoval == Spec => []QuietRemovalHolds
<1>1. IInv => QuietRemovalHolds
  BY DEF IInv, QuietInv, QuietRemovalHolds
<1>2. QED BY <1>1, IInvHolds, PTL
=============================================================================
