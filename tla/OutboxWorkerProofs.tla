------------------------- MODULE OutboxWorkerProofs -------------------------
(***************************************************************************)
(* Theorems of OutboxWorker, for any number of rows, workers, callbacks,   *)
(* attempts and crashes, and restarts that come at any moment.  The types, *)
(* and what becomes of the locks of a dead worker, need no assumption      *)
(* about time; the other properties hold when a batch is finished before   *)
(* its locks are stale (Timely).                                           *)
(***************************************************************************)
EXTENDS OutboxWorker, TLAPS

\* The rows of a batch, deleted or not.
Batch(w) == held[w] \union ({item[w]} \ {NoItem})

\* What a worker has in memory at each label.
MemoryInv ==
    \A w \in Worker :
        /\ pc[w] \in {"down", "poll"} => held[w] = {}
        /\ pc[w] \in {"down", "poll", "batch"} => item[w] = NoItem
        /\ pc[w] \in {"send", "record", "bury", "settle"} =>
              item[w] \in Item /\ item[w] \notin held[w]

\* A row that may still be tried has not used up its attempts, and neither has
\* the copy of one.
AttemptsLeft ==
    /\ \A i \in Item : status[i] \in {"PENDING", "PROCESSING"} => attempts[i] < MaxAttempts
    /\ \A w \in Worker : \A i \in Batch(w) : copy[w][i] < MaxAttempts

\* A worker's copy is still what the table says, and its lock is fresh.
CopyInv ==
    \A w \in Worker : \A i \in Holding(w) :
        copy[w][i] = attempts[i] /\ ~stale[i]

\* A row's attempts are backed by calls of the provider, or by refusals when
\* there is nothing to send, and a settled row says what became of them.
RowInv(i) ==
    /\ attempts[i] <= tries[i] + refusals[i]
    /\ refusals[i] > 0 => ~Sendable(i)
    /\ status[i] = "DEAD" => attempts[i] >= MaxAttempts /\ message[i] \in {"DEAD", "NONE"}
    /\ status[i] = "DONE" => accepted[i] /\ message[i] \in {"SENT", "NONE"}

\* The worker has a row in hand that nobody deleted.
Live(w) == pc[w] \in {"send", "record", "bury", "settle"} /\ item[w] \notin gone[w]

\* A row whose message is being sent was never refused.
SendingInv(w) ==
    Live(w) /\ pc[w] \in {"send", "record"} => refusals[item[w]] = 0

\* What the worker knows, and has saved, of a row whose attempt has ended.
EndedInv(w) ==
    Live(w) /\ pc[w] # "send" =>
        /\ attempts[item[w]] + 1 <= tries[item[w]] + refusals[item[w]]
        /\ ok[w] => accepted[item[w]]
        /\ pc[w] = "bury" => ~ok[w]
        /\ pc[w] = "settle" /\ ok[w] => message[item[w]] \in {"SENT", "NONE"}
        /\ pc[w] = "settle" /\ ~ok[w] /\ Exhausted(w, item[w]) =>
              message[item[w]] \in {"DEAD", "NONE"}

SettlingInv(w) == SendingInv(w) /\ EndedInv(w)

TypeInv == TypeOK /\ MemoryInv /\ AttemptsLeft

IInv ==
    /\ TypeInv
    /\ ClaimExclusive
    /\ CopyInv
    /\ \A i \in Item : RowInv(i)
    /\ \A w \in Worker : SettlingInv(w)

-----------------------------------------------------------------------------
(* Type correctness                                                         *)

LEMMA InitTypeInv == Init => TypeInv
BY ConstantsAssumption
DEF Init, TypeInv, TypeOK, MemoryInv, AttemptsLeft, Batch, RowStatus, MessageStatus, PC

\* The process ends: its memory is empty again.
LEMMA StopType ==
    ASSUME TypeInv, NEW w \in Worker, Stop(w), crashes' \in 0..MaxCrashes,
           deletions' = deletions
    PROVE  TypeInv'
<1>1. TypeOK'
  <2>1. orphans' \subseteq Item
    BY ConstantsAssumption DEF Stop, Holding, TypeInv, TypeOK
  <2>2. QED
    BY <2>1, ConstantsAssumption DEF Stop, Forget, Goto, TypeInv, TypeOK, PC, row, counts, queue
<1>2. MemoryInv'
  BY DEF Stop, Goto, TypeInv, TypeOK, MemoryInv, PC, row, queue
<1>3. AttemptsLeft'
  BY ConstantsAssumption DEF Stop, Forget, Goto, TypeInv, TypeOK, AttemptsLeft, Batch, row, queue
<1>4. QED BY <1>1, <1>2, <1>3 DEF TypeInv

\* Every step keeps the types.
LEMMA TypeStep ==
    ASSUME TypeInv, [Next]_vars
    PROVE  TypeInv'
<1> USE DEF TypeInv
<1>1. ASSUME NEW c \in Callback, NEW i \in Item, QueueCheck(c, i)
      PROVE  TypeInv'
  BY <1>1 DEF QueueCheck, TypeOK, MemoryInv, AttemptsLeft, Batch, row, counts, batch, faults
<1>2. ASSUME NEW c \in Callback, NEW i \in Item, QueueInsert(c, i)
      PROVE  TypeInv'
  BY <1>2, ConstantsAssumption
  DEF QueueInsert, TypeOK, MemoryInv, AttemptsLeft, Batch, RowStatus, MessageStatus, faults
<1>3. ASSUME NEW w \in Worker, Boot(w)
      PROVE  TypeInv'
  BY <1>3 DEF Boot, Obsolete, Goto, TypeOK, counts, MemoryInv, AttemptsLeft, Batch, RowStatus,
     PC, queue, batch, faults
<1>4. ASSUME NEW w \in Worker, Claim(w)
      PROVE  TypeInv'
  <2>1. PICK S \in SUBSET {i \in Item : Claimable(i)} :
          /\ status' = [i \in Item |-> IF i \in S THEN "PROCESSING" ELSE status[i]]
          /\ stale' = [i \in Item |-> stale[i] /\ i \notin S]
          /\ held' = [held EXCEPT ![w] = S]
          /\ copy' = [copy EXCEPT ![w] = [i \in Item |-> IF i \in S THEN attempts[i] ELSE 0]]
    BY <1>4 DEF Claim
  <2>2. \A i \in S : i \in Item /\ attempts[i] < MaxAttempts
    BY DEF Claimable, AttemptsLeft
  <2>3. TypeOK'
    BY <1>4, <2>1, <2>2, ConstantsAssumption
    DEF Claim, Goto, TypeOK, RowStatus, PC, counts, queue, faults
  <2>4. MemoryInv'
    BY <1>4, <2>1 DEF Claim, Goto, TypeOK, MemoryInv, PC
  <2>5. AttemptsLeft'
    <3>1. item[w] = NoItem
      BY <1>4 DEF Claim, MemoryInv
    <3>2. QED
      BY <1>4, <2>1, <2>2, <3>1 DEF Claim, TypeOK, AttemptsLeft, Batch, Claimable
  <2>6. QED BY <2>3, <2>4, <2>5
<1>5. ASSUME NEW w \in Worker, EndBatch(w)
      PROVE  TypeInv'
  <2>1. TypeOK'
    BY <1>5, ConstantsAssumption DEF EndBatch, Forget, Goto, TypeOK, PC, row, counts, queue, faults
  <2>2. MemoryInv'
    BY <1>5 DEF EndBatch, Goto, TypeOK, MemoryInv, PC
  <2>3. AttemptsLeft'
    <3>1. held[w] = {} /\ item[w] = NoItem
      BY <1>5 DEF EndBatch, MemoryInv
    <3>2. QED
      BY <1>5, <3>1 DEF EndBatch, Forget, TypeOK, AttemptsLeft, Batch, row
  <2>4. QED BY <2>1, <2>2, <2>3
<1>6. ASSUME NEW w \in Worker, NEW i \in Item, MarkSending(w, i) \/ Refuse(w, i)
      PROVE  TypeInv'
  <2>1. TakeNext(w, i)
    BY <1>6 DEF MarkSending, Refuse
  <2>2. TypeOK'
    <3>1. CASE MarkSending(w, i)
      BY <2>1, <3>1 DEF MarkSending, TakeNext, SaveMessage, Goto, TypeOK, MessageStatus, PC,
         queue, counts, faults
    <3>2. CASE Refuse(w, i)
      <4>1. refusals' \in [Item -> Nat]
        BY <3>2 DEF Refuse, TypeOK
      <4>2. QED
        BY <2>1, <3>2, <4>1 DEF Refuse, TakeNext, AfterFailure, Goto, TypeOK, PC, queue, faults
    <3>3. QED BY <1>6, <3>1, <3>2
  <2>3. MemoryInv'
    <3>1. pc' = [pc EXCEPT ![w] = pc'[w]] /\ pc'[w] \in {"send", "bury", "settle"}
      BY <1>6 DEF MarkSending, Refuse, AfterFailure, Goto, TypeOK
    <3>2. QED
      BY <2>1, <3>1, ConstantsAssumption DEF TakeNext, TypeOK, MemoryInv, PC
  <2>4. AttemptsLeft'
    <3>1. UNCHANGED <<status, attempts, copy>>
      BY <1>6 DEF MarkSending, Refuse
    <3>2. QED BY <2>1, <3>1 DEF TakeNext, TypeOK, AttemptsLeft, Batch
  <2>5. QED BY <2>2, <2>3, <2>4
<1>7. ASSUME NEW w \in Worker, NEW accepts \in BOOLEAN, NEW answers \in BOOLEAN,
             SendText(w, accepts, answers)
      PROVE  TypeInv'
  <2>1. item[w] \in Item
    BY <1>7 DEF SendText, MemoryInv
  <2>2. TypeOK'
    <3>1. accepted' \in [Item -> BOOLEAN]
      <4>1. (accepted[item[w]] \/ accepts) \in BOOLEAN
        OBVIOUS
      <4> DEFINE new == accepted[item[w]] \/ accepts
      <4>2. accepted' = accepted \/ accepted' = [accepted EXCEPT ![item[w]] = new]
        BY <1>7 DEF SendText
      <4> HIDE DEF new
      <4>3. QED BY <4>1, <4>2 DEF TypeOK, new
    <3>2. tries' \in [Item -> Nat]
      BY <1>7, <2>1 DEF SendText, TypeOK
    <3>3. ok' \in [Worker -> BOOLEAN]
      BY <1>7 DEF SendText, TypeOK
    <3>4. QED
      BY <1>7, <3>1, <3>2, <3>3 DEF SendText, Goto, TypeOK, PC, queue, faults
  <2>3. MemoryInv' /\ AttemptsLeft'
    BY <1>7 DEF SendText, Goto, TypeOK, MemoryInv, AttemptsLeft, Batch, PC
  <2>4. QED BY <2>2, <2>3
<1>8. ASSUME NEW w \in Worker, Record(w) \/ RecordFails(w) \/ Bury(w)
      PROVE  TypeInv'
  <2>1. item[w] \in Item
    BY <1>8 DEF Record, RecordFails, Bury, MemoryInv
  <2>2. message' \in [Item -> MessageStatus]
    BY <1>8, <2>1 DEF Record, RecordFails, Bury, SaveMessage, TypeOK, MessageStatus, row
  <2>3. ok' \in [Worker -> BOOLEAN]
    BY <1>8 DEF Record, RecordFails, Bury, TypeOK, batch
  <2>4. TypeOK'
    BY <1>8, <2>2, <2>3 DEF Record, RecordFails, Bury, AfterFailure, Goto, TypeOK, PC, row,
       counts, queue, batch, faults
  <2>5. MemoryInv' /\ AttemptsLeft'
    BY <1>8 DEF Record, RecordFails, Bury, AfterFailure, Goto, TypeOK, MemoryInv, AttemptsLeft,
       Batch, PC, row, batch
  <2>6. QED BY <2>4, <2>5
<1>9. ASSUME NEW w \in Worker, Settle(w)
      PROVE  TypeInv'
  <2>1. item[w] \in Item /\ item[w] \in Batch(w)
    BY <1>9, ConstantsAssumption DEF Settle, MemoryInv, Batch
  <2>2. copy[w][item[w]] < MaxAttempts /\ copy[w][item[w]] \in 0..MaxAttempts
    BY <2>1 DEF AttemptsLeft, TypeOK
  <2>3. copy[w][item[w]] + 1 \in 0..MaxAttempts
    BY <2>2, ConstantsAssumption
  <2>4. Outcome(w) \in RowStatus
    BY DEF Outcome, RowStatus
  <2>5. TypeOK'
    <3>1. due' \in [Item -> BOOLEAN]
      <4> DEFINE new == due[item[w]] /\ Exhausted(w, item[w])
      <4>1. new \in BOOLEAN
        OBVIOUS
      <4>2. due' = due \/ due' = [due EXCEPT ![item[w]] = new]
        BY <1>9 DEF Settle
      <4> HIDE DEF new
      <4>3. QED BY <4>1, <4>2 DEF TypeOK
    <3>2. attempts' \in [Item -> 0..MaxAttempts]
      BY <1>9, <2>3 DEF Settle, TypeOK
    <3>3. status' \in [Item -> RowStatus] /\ stale' \in [Item -> BOOLEAN]
      BY <1>9, <2>4 DEF Settle, TypeOK
    <3>4. QED
      BY <1>9, <3>1, <3>2, <3>3 DEF Settle, Goto, TypeOK, PC, counts, queue, faults
  <2>6. MemoryInv'
    BY <1>9 DEF Settle, Goto, TypeOK, MemoryInv, PC
  <2>7. ~ok[w] /\ Outcome(w) = "PENDING" => copy[w][item[w]] + 1 < MaxAttempts
    BY <2>2, ConstantsAssumption DEF Outcome, Exhausted
  <2>8. ok[w] => Outcome(w) = "DONE"
    BY DEF Outcome
  <2>9. Outcome(w) # "PROCESSING"
    BY DEF Outcome
  <2>10. AttemptsLeft'
    BY <1>9, <2>1, <2>7, <2>8, <2>9 DEF Settle, TypeOK, AttemptsLeft, Batch
  <2>11. QED BY <2>5, <2>6, <2>10
<1>10. ASSUME NEW w \in Worker, DatabaseError(w) \/ Crash(w)
       PROVE  TypeInv'
  BY <1>10, StopType, ConstantsAssumption DEF DatabaseError, Crash, TypeOK, faults
<1>11. ASSUME NEW i \in Item, DeleteMessage(i) \/ BecomeDue(i) \/ BecomeStale(i)
       PROVE  TypeInv'
  <2>1. /\ UNCHANGED <<queue, batch, status, attempts, complete, counts, orphans, pc, crashes>>
        /\ deletions' \in 0..MaxDeletions
        /\ due' \in [Item -> BOOLEAN] /\ stale' \in [Item -> BOOLEAN]
        /\ message' \in [Item -> MessageStatus]
    <3>1. CASE DeleteMessage(i)
      BY <3>1, ConstantsAssumption DEF DeleteMessage, TypeOK, MessageStatus
    <3>2. CASE BecomeDue(i)
      BY <3>2 DEF BecomeDue, TypeOK, faults
    <3>3. CASE BecomeStale(i)
      BY <3>3 DEF BecomeStale, TypeOK, faults
    <3>4. QED BY <1>11, <3>1, <3>2, <3>3
  <2>2. TypeOK'
    BY <2>1 DEF TypeOK, queue, counts, batch
  <2>3. MemoryInv' /\ AttemptsLeft'
    BY <2>1 DEF MemoryInv, AttemptsLeft, Batch, queue, batch
  <2>4. QED BY <2>2, <2>3
<1>12. CASE UNCHANGED vars
  BY <1>12 DEF vars, row, counts, queue, batch, faults, TypeOK, MemoryInv, AttemptsLeft, Batch
<1>13. QED
  BY <1>1, <1>2, <1>3, <1>4, <1>5, <1>6, <1>7, <1>8, <1>9, <1>10, <1>11, <1>12
  DEF Next, WorkerStep

-----------------------------------------------------------------------------
(* One worker per row                                                       *)

\* Only a claim puts rows in the hands of a worker; an insert takes its row out
\* of every worker's hands.
LEMMA HoldingStep ==
    ASSUME TypeInv, [Next]_vars, NEW v \in Worker
    PROVE  /\ ~Claim(v) => Holding(v)' \subseteq Holding(v)
           /\ \A c \in Callback, i \in Item :
                QueueInsert(c, i) => i \notin Holding(v)'
           /\ Settle(v) => item[v] \notin Holding(v)'
<1> USE DEF TypeInv
<1>1. ASSUME NEW c \in Callback, NEW i \in Item, QueueInsert(c, i)
      PROVE  Holding(v)' = Holding(v) \ {i}
  <2>1. /\ held'[v] = held[v] /\ item'[v] = item[v]
        /\ gone'[v] = IF i \in Holding(v) THEN gone[v] \union {i} ELSE gone[v]
    BY <1>1 DEF QueueInsert, TypeOK
  <2>2. QED
    BY <2>1 DEF Holding
<1>2. ASSUME NEW w \in Worker, Claim(w), w # v
      PROVE  Holding(v)' = Holding(v)
  <2>1. held'[v] = held[v] /\ item'[v] = item[v] /\ gone'[v] = gone[v]
    BY <1>2 DEF Claim, TypeOK
  <2>2. QED
    BY <2>1 DEF Holding
<1>3. ASSUME NEW w \in Worker, NEW i \in Item, MarkSending(w, i) \/ Refuse(w, i)
      PROVE  Holding(v)' = Holding(v)
  <2>1. TakeNext(w, i) /\ gone' = gone
    BY <1>3 DEF MarkSending, Refuse
  <2>2. CASE v = w
    <3>1. item[w] = NoItem /\ i \in held[w]
      BY <2>1 DEF TakeNext, MemoryInv
    <3>2. held'[w] = held[w] \ {i} /\ item'[w] = i
      BY <2>1 DEF TakeNext, TypeOK
    <3>3. QED BY <2>1, <2>2, <3>1, <3>2, ConstantsAssumption DEF Holding
  <2>3. CASE v # w
    BY <2>1, <2>3 DEF TakeNext, Holding, TypeOK
  <2>4. QED BY <2>2, <2>3
<1>4. ASSUME NEW w \in Worker, Settle(w)
      PROVE  /\ Holding(v)' \subseteq Holding(v)
             /\ v = w => item[v] \notin Holding(v)'
  <2>1. /\ held' = held /\ gone' = gone
        /\ item' = [item EXCEPT ![w] = NoItem]
        /\ item[w] \notin held[w]
    BY <1>4 DEF Settle, MemoryInv
  <2>2. item[w] \in Item
    BY <1>4 DEF Settle, MemoryInv
  <2>3. CASE v = w
    BY <2>1, <2>2, <2>3, ConstantsAssumption DEF Holding, TypeOK
  <2>4. CASE v # w
    BY <2>1, <2>4 DEF Holding, TypeOK
  <2>5. QED BY <2>3, <2>4
<1>5. ASSUME NEW w \in Worker, DatabaseError(w) \/ Crash(w)
      PROVE  Holding(v)' \subseteq Holding(v)
  <2>1. Stop(w)
    BY <1>5 DEF DatabaseError, Crash
  <2>2. CASE v = w
    BY <2>1, <2>2 DEF Stop, Holding, TypeOK
  <2>3. CASE v # w
    BY <2>1, <2>3 DEF Stop, Forget, Holding, TypeOK
  <2>4. QED BY <2>2, <2>3
<1>6. ASSUME held' = held, item' = item, gone' = gone
      PROVE  Holding(v)' = Holding(v)
  BY <1>6 DEF Holding
<1>7. ASSUME NEW w \in Worker, WorkerStep(w),
             ~Claim(w), \A i \in Item : ~MarkSending(w, i) /\ ~Refuse(w, i),
             ~Settle(w), ~DatabaseError(w)
      PROVE  Holding(v)' \subseteq Holding(v)
  <2>1. CASE EndBatch(w)
    <3>1. held' = held /\ item' = item /\ held[w] = {} /\ item[w] = NoItem
      BY <2>1 DEF EndBatch, MemoryInv
    <3>2. gone'[v] = gone[v] \/ v = w
      BY <2>1 DEF EndBatch, Forget, TypeOK
    <3>3. QED BY <3>1, <3>2 DEF Holding
  <2>2. CASE ~EndBatch(w)
    <3>1. held' = held /\ item' = item /\ gone' = gone
      BY <1>7, <2>2 DEF WorkerStep, Boot, SendText, Record, RecordFails, Bury, batch
    <3>2. QED BY <1>6, <3>1
  <2>3. QED BY <2>1, <2>2
<1>8. ASSUME \/ \E c \in Callback, i \in Item : QueueCheck(c, i)
             \/ \E i \in Item : DeleteMessage(i) \/ BecomeDue(i) \/ BecomeStale(i)
             \/ UNCHANGED vars
      PROVE  held' = held /\ item' = item /\ gone' = gone
  BY <1>8 DEF QueueCheck, DeleteMessage, BecomeDue, BecomeStale, vars, batch
<1>9. /\ ~Claim(v) => Holding(v)' \subseteq Holding(v)
      /\ Settle(v) => item[v] \notin Holding(v)'
  BY <1>1, <1>2, <1>3, <1>4, <1>5, <1>6, <1>7, <1>8 DEF Next, WorkerStep
<1>10. QED BY <1>1, <1>9

\* Every step keeps ClaimExclusive and CopyInv.
LEMMA ClaimStep ==
    ASSUME Timely, TypeInv, ClaimExclusive, CopyInv, [Next]_vars
    PROVE  ClaimExclusive' /\ CopyInv'
<1> USE DEF TypeInv
<1> DEFINE Kept(v) == \A i \in Holding(v)' :
                         status'[i] = "PROCESSING" /\ copy'[v][i] = attempts'[i] /\ ~stale'[i]
<1>0. \A w \in Worker : Holding(w) \subseteq Item
  BY ConstantsAssumption DEF Holding, TypeOK
<1>1. ASSUME NEW w \in Worker, Claim(w)
      PROVE  ClaimExclusive' /\ CopyInv'
  <2>1. PICK S \in SUBSET {i \in Item : Claimable(i)} :
          /\ status' = [i \in Item |-> IF i \in S THEN "PROCESSING" ELSE status[i]]
          /\ stale' = [i \in Item |-> stale[i] /\ i \notin S]
          /\ held' = [held EXCEPT ![w] = S]
          /\ copy' = [copy EXCEPT ![w] = [i \in Item |-> IF i \in S THEN attempts[i] ELSE 0]]
    BY <1>1 DEF Claim
  <2>2. /\ item' = item /\ item[w] = NoItem /\ attempts' = attempts
        /\ gone' = [gone EXCEPT ![w] = {}]
    BY <1>1 DEF Claim, MemoryInv
  <2>3. Holding(w)' = S
    BY <2>1, <2>2, ConstantsAssumption DEF Holding, TypeOK
  <2>4. \A v \in Worker \ {w} : Holding(v)' = Holding(v)
    BY <2>1, <2>2 DEF Holding, TypeOK
  <2>5. \A i \in S : i \in Item /\ status[i] = "PENDING"
    BY DEF Claimable
  <2>6. \A v \in Worker \ {w} : \A i \in Holding(v) :
           /\ i \in Item /\ i \notin S
           /\ status[i] = "PROCESSING" /\ copy[v][i] = attempts[i] /\ ~stale[i]
    BY <1>0, <2>5 DEF ClaimExclusive, CopyInv
  <2>7. \A v \in Worker \ {w} : Kept(v)
    BY <2>1, <2>2, <2>4, <2>6 DEF TypeOK
  <2>8. Kept(w)
    BY <2>1, <2>2, <2>3, <2>5 DEF TypeOK
  <2>9. \A v, u \in Worker : v # u => Holding(v)' \intersect Holding(u)' = {}
    BY <2>3, <2>4, <2>6 DEF ClaimExclusive
  <2>10. QED BY <2>7, <2>8, <2>9 DEF ClaimExclusive, CopyInv
<1>2. ASSUME \A w \in Worker : ~Claim(w)
      PROVE  ClaimExclusive' /\ CopyInv'
  <2>1. \A v \in Worker : Holding(v)' \subseteq Holding(v)
    BY <1>2, HoldingStep
  <2>2. \A v, u \in Worker : v # u => Holding(v)' \intersect Holding(u)' = {}
    BY <2>1 DEF ClaimExclusive
  <2>3. ASSUME NEW v \in Worker, NEW i \in Holding(v)'
        PROVE  status'[i] = "PROCESSING" /\ copy'[v][i] = attempts'[i] /\ ~stale'[i]
    <3>1. /\ i \in Item /\ i \in Holding(v)
          /\ status[i] = "PROCESSING" /\ copy[v][i] = attempts[i] /\ ~stale[i]
      BY <1>0, <2>1, <2>3 DEF ClaimExclusive, CopyInv
    <3>2. ASSUME NEW c \in Callback, NEW j \in Item, QueueInsert(c, j)
          PROVE  status'[i] = status[i] /\ copy' = copy /\ attempts'[i] = attempts[i]
                 /\ stale'[i] = stale[i]
      <4>1. i # j
        BY <2>3, <3>2, HoldingStep
      <4>2. QED
        BY <3>1, <3>2, <4>1 DEF QueueInsert, TypeOK
    <3>3. ASSUME NEW w \in Worker, Settle(w)
          PROVE  status'[i] = status[i] /\ copy' = copy /\ attempts'[i] = attempts[i]
                 /\ stale'[i] = stale[i]
      <4>1. item[w] \in Item /\ item[w] \in Holding(w)
        BY <3>3, ConstantsAssumption DEF Settle, MemoryInv, Holding
      <4>2. i # item[w]
        <5>1. CASE v = w
          BY <2>3, <3>3, <5>1, HoldingStep
        <5>2. CASE v # w
          BY <3>1, <4>1, <5>2 DEF ClaimExclusive
        <5>3. QED BY <5>1, <5>2
      <4>3. QED
        BY <3>1, <3>3, <4>1, <4>2 DEF Settle, TypeOK
    <3>4. ASSUME NEW w \in Worker, Boot(w)
          PROVE  status'[i] = status[i] /\ copy' = copy /\ attempts'[i] = attempts[i]
                 /\ ~stale'[i]
      BY <3>1, <3>4 DEF Boot, Obsolete, batch
    <3>5. ASSUME NEW j \in Item, BecomeStale(j)
          PROVE  status'[i] = status[i] /\ copy' = copy /\ attempts'[i] = attempts[i]
                 /\ stale'[i] = stale[i]
      BY <3>1, <3>5 DEF BecomeStale, batch, TypeOK
    <3>6. ASSUME NEW w \in Worker, WorkerStep(w) \/ Crash(w), ~Claim(w), ~Settle(w), ~Boot(w)
          PROVE  /\ status' = status /\ attempts' = attempts /\ stale' = stale
                 /\ copy'[v] = copy[v]
      <4>1. status' = status /\ attempts' = attempts /\ stale' = stale
        BY <3>6 DEF WorkerStep, EndBatch, MarkSending, Refuse, SendText, Record, RecordFails,
           Bury, DatabaseError, Crash, Stop, row
      <4>2. CASE EndBatch(w) \/ DatabaseError(w) \/ Crash(w)
        <5>1. held'[w] = {} /\ item'[w] = NoItem
          BY <4>2 DEF EndBatch, DatabaseError, Crash, Stop, MemoryInv, TypeOK
        <5>2. v # w
          BY <2>3, <5>1 DEF Holding
        <5>3. QED
          BY <4>1, <4>2, <5>2 DEF EndBatch, DatabaseError, Crash, Stop, Forget, TypeOK
      <4>3. CASE ~EndBatch(w) /\ ~DatabaseError(w) /\ ~Crash(w)
        BY <3>6, <4>1, <4>3 DEF WorkerStep, MarkSending, Refuse, SendText, Record, RecordFails,
           Bury, batch
      <4>4. QED BY <4>2, <4>3
    <3>7. ASSUME \/ \E c \in Callback, j \in Item : QueueCheck(c, j)
                 \/ \E j \in Item : DeleteMessage(j) \/ BecomeDue(j)
                 \/ UNCHANGED vars
          PROVE  status' = status /\ copy' = copy /\ attempts' = attempts /\ stale' = stale
      BY <3>7 DEF QueueCheck, DeleteMessage, BecomeDue, vars, row, batch
    <3>8. QED
      BY <1>2, <3>1, <3>2, <3>3, <3>4, <3>5, <3>6, <3>7 DEF Next
  <2>4. QED BY <2>2, <2>3 DEF ClaimExclusive, CopyInv
<1>3. QED BY <1>1, <1>2

-----------------------------------------------------------------------------
(* What became of a row                                                     *)

\* The row a worker has in hand is locked by it alone, and its copy is current.
LEMMA InHand ==
    ASSUME TypeInv, ClaimExclusive, CopyInv, NEW w \in Worker, Live(w)
    PROVE  /\ item[w] \in Item
           /\ status[item[w]] = "PROCESSING"
           /\ copy[w][item[w]] = attempts[item[w]]
           /\ \A v \in Worker \ {w} : Live(v) => item[v] # item[w]
<1>1. \A v \in Worker : Live(v) => item[v] \in Item /\ item[v] \in Holding(v)
  BY ConstantsAssumption DEF TypeInv, MemoryInv, Live, Holding
<1>2. QED
  BY <1>1 DEF ClaimExclusive, CopyInv

\* A worker keeps what it knows through a step that leaves its row alone, or
\* deletes its message.
LEMMA SettlingFrame ==
    ASSUME NEW w \in Worker, SettlingInv(w),
           pc'[w] = pc[w], item'[w] = item[w], ok'[w] = ok[w], copy'[w] = copy[w],
           Live(w)' => /\ Live(w)
                       /\ attempts'[item[w]] = attempts[item[w]]
                       /\ tries'[item[w]] = tries[item[w]]
                       /\ refusals'[item[w]] = refusals[item[w]]
                       /\ accepted'[item[w]] = accepted[item[w]]
                       /\ message'[item[w]] \in {message[item[w]], "NONE"}
    PROVE  SettlingInv(w)'
<1>1. SendingInv(w)'
  BY DEF SettlingInv, SendingInv
<1>2. EndedInv(w)'
  BY DEF SettlingInv, EndedInv, Exhausted
<1>3. QED BY <1>1, <1>2 DEF SettlingInv

\* Saving the message of a row that exists touches that message only.
LEMMA SaveMessageStep ==
    ASSUME TypeInv, NEW w \in Worker, NEW i \in Item, NEW s, SaveMessage(w, i, s)
    PROVE  /\ \A j \in Item \ {i} : message'[j] = message[j]
           /\ i \notin gone[w] => message'[i] = s
           /\ i \in gone[w] => message' = message
BY DEF TypeInv, TypeOK, SaveMessage

\* A worker that works on its row leaves the rows of the others alone.
LEMMA OthersKeep ==
    ASSUME TypeInv, ClaimExclusive, CopyInv, \A v \in Worker : SettlingInv(v),
           NEW w \in Worker, NEW i \in Item, i \notin gone[w] => i \in Holding(w),
           UNCHANGED <<attempts, copy, gone>>,
           \A v \in Worker \ {w} : pc'[v] = pc[v] /\ item'[v] = item[v] /\ ok'[v] = ok[v],
           \A j \in Item : j # i \/ i \in gone[w] =>
              /\ tries'[j] = tries[j] /\ refusals'[j] = refusals[j]
              /\ accepted'[j] = accepted[j] /\ message'[j] = message[j]
    PROVE  \A v \in Worker \ {w} : SettlingInv(v)'
<1> SUFFICES ASSUME NEW v \in Worker, v # w PROVE SettlingInv(v)'
  OBVIOUS
<1>1. Live(v) => item[v] \in Item /\ item[v] \in Holding(v)
  BY ConstantsAssumption DEF TypeInv, MemoryInv, Live, Holding
<1>2. Live(v) => item[v] # i \/ i \in gone[w]
  BY <1>1 DEF ClaimExclusive
<1>3. Live(v)' => Live(v)
  BY DEF Live
<1>4. QED BY <1>1, <1>2, <1>3, SettlingFrame

\* The worker takes a row: it sends its message, or there is none to send.
LEMMA TakingStep ==
    ASSUME Timely, TypeInv, ClaimExclusive, CopyInv,
           \A i \in Item : RowInv(i), \A v \in Worker : SettlingInv(v),
           NEW w \in Worker, NEW i \in Item, MarkSending(w, i) \/ Refuse(w, i)
    PROVE  /\ \A j \in Item : RowInv(j)'
           /\ \A v \in Worker : SettlingInv(v)'
<1> USE DEF TypeInv
<1>1. TakeNext(w, i)
  BY DEF MarkSending, Refuse
<1>2. /\ UNCHANGED <<status, attempts, complete, accepted, tries, copy, gone>>
      /\ \A v \in Worker \ {w} : pc'[v] = pc[v] /\ item'[v] = item[v] /\ ok'[v] = ok[v]
      /\ item'[w] = i
  BY <1>1 DEF MarkSending, Refuse, TakeNext, Goto, TypeOK, counts
<1>3. i \notin gone[w] => i \in Holding(w) /\ status[i] = "PROCESSING"
  BY <1>1, ConstantsAssumption DEF TakeNext, Holding, ClaimExclusive
<1>4. /\ tries[i] \in Nat /\ refusals[i] \in Nat /\ attempts[i] \in Nat
      /\ \A j \in Item : refusals[j] \in Nat
  BY ConstantsAssumption DEF TypeOK
<1>5. CASE MarkSending(w, i)
  <2>1. /\ UNCHANGED refusals /\ SaveMessage(w, i, "SENDING")
        /\ pc'[w] = "send" /\ (Sendable(i) \/ i \in gone[w])
    BY <1>5 DEF MarkSending, Goto, TypeOK, counts
  <2>2. i \notin gone[w] => refusals[i] = 0
    BY <1>4, <2>1 DEF RowInv
  <2>3. ASSUME NEW j \in Item PROVE RowInv(j)'
    BY <1>2, <1>3, <1>4, <2>1, <2>2, SaveMessageStep DEF RowInv, Sendable
  <2>4. \A v \in Worker \ {w} : SettlingInv(v)'
    BY <1>2, <1>3, <2>1, SaveMessageStep, OthersKeep
  <2>5. SettlingInv(w)'
    BY <1>2, <2>1, <2>2 DEF SettlingInv, SendingInv, EndedInv, Live
  <2>6. QED BY <2>3, <2>4, <2>5
<1>6. CASE Refuse(w, i)
  <2>1. /\ UNCHANGED message /\ (~Sendable(i) \/ i \in gone[w])
        /\ ok'[w] = FALSE
        /\ pc'[w] = IF Exhausted(w, i) THEN "bury" ELSE "settle"
    BY <1>6 DEF Refuse, AfterFailure, Goto, TypeOK
  <2>2. /\ \A j \in Item : j # i \/ i \in gone[w] => refusals'[j] = refusals[j]
        /\ i \notin gone[w] => refusals'[i] = refusals[i] + 1
    BY <1>6 DEF Refuse, TypeOK
  <2>3. ASSUME NEW j \in Item PROVE RowInv(j)'
    <3>1. CASE j = i /\ i \notin gone[w]
      <4>1. attempts[j] <= tries[j] + refusals[j] /\ ~Sendable(j)
        BY <2>1, <3>1 DEF RowInv
      <4>2. attempts'[j] <= tries'[j] + refusals'[j]
        BY <1>2, <1>4, <2>2, <3>1, <4>1
      <4>3. QED
        BY <1>2, <1>3, <2>1, <3>1, <4>1, <4>2 DEF RowInv, Sendable
    <3>2. CASE j # i \/ i \in gone[w]
      BY <1>2, <2>1, <2>2, <3>2 DEF RowInv, Sendable
    <3>3. QED BY <3>1, <3>2
  <2>4. \A v \in Worker \ {w} : SettlingInv(v)'
    BY <1>2, <1>3, <2>1, <2>2, OthersKeep
  <2>5. SettlingInv(w)'
    <3>1. SendingInv(w)'
      BY <2>1 DEF SendingInv
    <3>2. ASSUME i \notin gone[w]
          PROVE  attempts'[i] + 1 <= tries'[i] + refusals'[i]
      BY <1>2, <1>4, <2>2, <3>2 DEF RowInv
    <3>3. Exhausted(w, i)' <=> Exhausted(w, i)
      BY <1>2 DEF Exhausted
    <3>4. EndedInv(w)'
      BY <1>2, <2>1, <3>2, <3>3 DEF EndedInv, Live
    <3>5. QED BY <3>1, <3>4 DEF SettlingInv
  <2>6. QED BY <2>3, <2>4, <2>5
<1>7. QED BY <1>5, <1>6

\* The worker calls the provider and saves what came of it.
LEMMA SendingStep ==
    ASSUME Timely, TypeInv, ClaimExclusive, CopyInv,
           \A i \in Item : RowInv(i), \A v \in Worker : SettlingInv(v),
           NEW w \in Worker,
           \/ Record(w) \/ RecordFails(w) \/ Bury(w)
           \/ \E accepts, answers \in BOOLEAN : SendText(w, accepts, answers)
    PROVE  /\ \A i \in Item : RowInv(i)'
           /\ \A v \in Worker : SettlingInv(v)'
<1> USE DEF TypeInv
<1>1. /\ pc[w] \in {"send", "record", "bury"} /\ item[w] \in Item
      /\ UNCHANGED <<status, attempts, complete, refusals, item, copy, gone>>
      /\ \A v \in Worker \ {w} : pc'[v] = pc[v] /\ ok'[v] = ok[v]
  BY DEF Record, RecordFails, Bury, SendText, Goto, MemoryInv, TypeOK, row, counts, batch
<1>2. item[w] \notin gone[w] => item[w] \in Holding(w) /\ status[item[w]] = "PROCESSING"
  BY <1>1, ConstantsAssumption DEF Holding, ClaimExclusive
<1>3. \A j \in Item : tries[j] \in Nat /\ refusals[j] \in Nat /\ attempts[j] \in Nat
  BY ConstantsAssumption DEF TypeOK
<1>4. ASSUME NEW accepts \in BOOLEAN, NEW answers \in BOOLEAN, SendText(w, accepts, answers)
      PROVE  /\ \A i \in Item : RowInv(i)'
             /\ \A v \in Worker : SettlingInv(v)'
  <2>1. /\ pc[w] = "send" /\ pc'[w] = "record" /\ ok'[w] = answers /\ message' = message
        /\ answers => accepts
    BY <1>4 DEF SendText, Goto, TypeOK
  <2>2. /\ \A j \in Item : j # item[w] \/ item[w] \in gone[w] =>
              tries'[j] = tries[j] /\ accepted'[j] = accepted[j]
        /\ item[w] \notin gone[w] =>
              tries'[item[w]] = tries[item[w]] + 1 /\ (accepts => accepted'[item[w]])
    <3>1. CASE item[w] \in gone[w]
      BY <1>4, <3>1 DEF SendText
    <3>2. CASE item[w] \notin gone[w]
      <4> DEFINE new == accepted[item[w]] \/ accepts
      <4>1. accepted' = [accepted EXCEPT ![item[w]] = new]
        BY <1>4, <3>2 DEF SendText
      <4>2. accepts => new
        OBVIOUS
      <4> HIDE DEF new
      <4>3. /\ \A j \in Item : j # item[w] => accepted'[j] = accepted[j]
            /\ accepted'[item[w]] = new
        BY <1>1, <4>1 DEF TypeOK
      <4>4. tries' = [tries EXCEPT ![item[w]] = @ + 1]
        BY <1>4, <3>2 DEF SendText
      <4>5. /\ \A j \in Item : j # item[w] => tries'[j] = tries[j]
            /\ tries'[item[w]] = tries[item[w]] + 1
        BY <1>1, <4>4 DEF TypeOK
      <4>6. QED BY <3>2, <4>2, <4>3, <4>5
    <3>3. QED BY <3>1, <3>2
  <2>3. ASSUME NEW j \in Item PROVE RowInv(j)'
    <3>1. CASE j = item[w] /\ item[w] \notin gone[w]
      <4>1. attempts'[j] <= tries'[j] + refusals'[j]
        <5>1. attempts[j] <= tries[j] + refusals[j]
          BY DEF RowInv
        <5>2. QED BY <1>1, <1>3, <2>2, <3>1, <5>1
      <4>2. QED BY <1>1, <1>2, <2>1, <3>1, <4>1 DEF RowInv, Sendable
    <3>2. CASE j # item[w] \/ item[w] \in gone[w]
      BY <1>1, <2>1, <2>2, <3>2 DEF RowInv, Sendable
    <3>3. QED BY <3>1, <3>2
  <2>4. \A v \in Worker \ {w} : SettlingInv(v)'
    BY <1>1, <1>2, <2>1, <2>2, OthersKeep
  <2>5. SettlingInv(w)'
    <3>1. Live(w)' => Live(w)
      BY <1>1, <2>1 DEF Live
    <3>2. SendingInv(w)'
      BY <1>1, <2>1, <3>1 DEF SettlingInv, SendingInv
    <3>3. ASSUME item[w] \notin gone[w]
          PROVE  attempts'[item[w]] + 1 <= tries'[item[w]] + refusals'[item[w]]
      <4>1. attempts[item[w]] <= tries[item[w]] + refusals[item[w]]
        BY <1>1 DEF RowInv
      <4>2. QED BY <1>1, <1>3, <2>2, <3>3, <4>1
    <3>4. EndedInv(w)'
      BY <1>1, <2>1, <2>2, <3>3 DEF EndedInv, Live
    <3>5. QED BY <3>2, <3>4 DEF SettlingInv
  <2>6. QED BY <2>3, <2>4, <2>5
<1>5. CASE Record(w) \/ RecordFails(w) \/ Bury(w)
  <2>1. UNCHANGED <<accepted, tries>>
    BY <1>5 DEF Record, RecordFails, Bury, row, counts
  <2>2. /\ \A j \in Item : j # item[w] \/ item[w] \in gone[w] => message'[j] = message[j]
        /\ item[w] \notin gone[w] /\ message'[item[w]] # "NONE" =>
              message[item[w]] # "NONE" \/ (Record(w) /\ ok[w])
    <3>1. CASE Record(w) \/ Bury(w)
      BY <1>1, <3>1, SaveMessageStep DEF Record, Bury
    <3>2. CASE RecordFails(w)
      BY <3>2 DEF RecordFails, row
    <3>3. QED BY <1>5, <3>1, <3>2
  <2>3. Record(w) /\ item[w] \notin gone[w] => refusals[item[w]] = 0
    BY DEF Record, SettlingInv, SendingInv, Live
  <2>4. ASSUME NEW j \in Item PROVE RowInv(j)'
    <3>1. CASE j = item[w] /\ item[w] \notin gone[w]
      BY <1>1, <1>2, <1>3, <2>1, <2>2, <2>3, <3>1 DEF RowInv, Sendable
    <3>2. CASE j # item[w] \/ item[w] \in gone[w]
      BY <1>1, <2>1, <2>2, <3>2 DEF RowInv, Sendable
    <3>3. QED BY <3>1, <3>2
  <2>5. \A v \in Worker \ {w} : SettlingInv(v)'
    BY <1>1, <1>2, <2>1, <2>2, OthersKeep
  <2>6. SettlingInv(w)'
    <3>1. pc'[w] \in {"bury", "settle"}
      BY <1>5 DEF Record, RecordFails, Bury, AfterFailure, Goto, TypeOK
    <3>2. SendingInv(w)'
      BY <3>1 DEF SendingInv
    <3>3. Exhausted(w, item[w])' <=> Exhausted(w, item[w])
      BY <1>1 DEF Exhausted
    <3>4. Live(w)' => Live(w) /\ pc[w] # "send"
      BY <1>1, <1>5 DEF Live, Record, RecordFails, Bury
    <3>5. EndedInv(w)
      BY DEF SettlingInv
    <3>6. CASE Record(w)
      <4>1. /\ pc'[w] = IF ok[w] \/ ~Exhausted(w, item[w]) THEN "settle" ELSE "bury"
            /\ ok' = ok
        BY <3>6 DEF Record, AfterFailure, Goto, TypeOK, batch
      <4>2. ok[w] /\ item[w] \notin gone[w] => message'[item[w]] = "SENT"
        BY <1>1, <3>6, SaveMessageStep DEF Record
      <4>3. QED
        <5>1. EndedInv(w)'
          BY <1>1, <2>1, <3>3, <3>4, <3>5, <4>1, <4>2 DEF EndedInv, Live
        <5>2. QED BY <3>2, <5>1 DEF SettlingInv
    <3>7. CASE RecordFails(w)
      <4>1. /\ pc'[w] = IF Exhausted(w, item[w]) THEN "bury" ELSE "settle"
            /\ ok'[w] = FALSE
        BY <3>7 DEF RecordFails, AfterFailure, Goto, TypeOK
      <4>2. EndedInv(w)'
        BY <1>1, <2>1, <3>3, <3>4, <3>5, <4>1 DEF EndedInv, Live
      <4>3. QED BY <3>2, <4>2 DEF SettlingInv
    <3>8. CASE Bury(w)
      <4>1. pc[w] = "bury" /\ pc'[w] = "settle" /\ ok' = ok
        BY <3>8 DEF Bury, Goto, TypeOK, batch
      <4>2. item[w] \notin gone[w] => message'[item[w]] \in {"DEAD", "NONE"}
        BY <1>1, <3>8, SaveMessageStep DEF Bury
      <4>3. EndedInv(w)'
        BY <1>1, <2>1, <3>4, <3>5, <4>1, <4>2 DEF EndedInv, Live
      <4>4. QED BY <3>2, <4>3 DEF SettlingInv
    <3>9. QED BY <1>5, <3>6, <3>7, <3>8
  <2>7. QED BY <2>4, <2>5, <2>6
<1>6. QED BY <1>4, <1>5

\* Every step keeps RowInv and SettlingInv.
LEMMA OutcomeStep ==
    ASSUME Timely, TypeInv, ClaimExclusive, CopyInv,
           \A i \in Item : RowInv(i), \A v \in Worker : SettlingInv(v), [Next]_vars
    PROVE  /\ \A i \in Item : RowInv(i)'
           /\ \A v \in Worker : SettlingInv(v)'
<1> USE DEF TypeInv
<1>1. ASSUME NEW c \in Callback, NEW i \in Item, QueueInsert(c, i)
      PROVE  /\ \A j \in Item : RowInv(j)'
             /\ \A v \in Worker : SettlingInv(v)'
  <2>1. ASSUME NEW j \in Item PROVE RowInv(j)'
    BY <1>1 DEF QueueInsert, RowInv, Sendable, TypeOK
  <2>2. ASSUME NEW v \in Worker PROVE SettlingInv(v)'
    <3>1. /\ UNCHANGED <<pc, item, ok, copy>>
          /\ gone'[v] = IF i \in Holding(v) THEN gone[v] \union {i} ELSE gone[v]
      BY <1>1 DEF QueueInsert
    <3>2. Live(v)' => Live(v)
      BY <3>1 DEF Live
    <3>3. Live(v) => item[v] \in Item /\ item[v] \in Holding(v)
      BY ConstantsAssumption DEF MemoryInv, Live, Holding
    <3>4. Live(v)' => item[v] \in Item /\ item[v] # i
      BY <3>1, <3>2, <3>3 DEF Live
    <3>5. QED BY <1>1, <3>1, <3>2, <3>4, SettlingFrame DEF QueueInsert, TypeOK
  <2>3. QED BY <2>1, <2>2
<1>2. ASSUME NEW w \in Worker, Settle(w)
      PROVE  /\ \A j \in Item : RowInv(j)'
             /\ \A v \in Worker : SettlingInv(v)'
  <2>1. /\ pc[w] = "settle" /\ item[w] \in Item /\ item[w] \notin gone[w]
        /\ UNCHANGED <<complete, message, accepted, tries, refusals, copy, gone>>
        /\ ok' = [ok EXCEPT ![w] = FALSE]
        /\ status' = [status EXCEPT ![item[w]] = Outcome(w)]
        /\ pc' = [pc EXCEPT ![w] = "batch"] /\ item' = [item EXCEPT ![w] = NoItem]
    BY <1>2 DEF Settle, MemoryInv, Goto, counts
  <2>2. Live(w)
    BY <2>1 DEF Live
  <2>3. /\ copy[w][item[w]] = attempts[item[w]]
        /\ \A v \in Worker \ {w} : Live(v) => item[v] \in Item /\ item[v] # item[w]
    BY <2>2, InHand
  <2>4. /\ \A j \in Item \ {item[w]} : attempts'[j] = attempts[j] /\ status'[j] = status[j]
        /\ attempts'[item[w]] = IF ok[w] THEN attempts[item[w]] ELSE attempts[item[w]] + 1
        /\ status'[item[w]] = Outcome(w)
    BY <1>2, <2>1, <2>3 DEF Settle, TypeOK
  <2>5. /\ attempts[item[w]] + 1 <= tries[item[w]] + refusals[item[w]]
        /\ ok[w] => accepted[item[w]] /\ message[item[w]] \in {"SENT", "NONE"}
        /\ ~ok[w] /\ Exhausted(w, item[w]) => message[item[w]] \in {"DEAD", "NONE"}
    BY <2>1, <2>2 DEF SettlingInv, EndedInv
  <2>6. attempts[item[w]] \in Nat /\ tries[item[w]] \in Nat /\ refusals[item[w]] \in Nat
    BY <2>1, ConstantsAssumption DEF TypeOK
  <2>7. ASSUME NEW j \in Item, j = item[w] PROVE RowInv(j)'
    <3>1. attempts'[j] <= tries'[j] + refusals'[j]
      BY <2>1, <2>4, <2>5, <2>6, <2>7
    <3>2. Outcome(w) = "DONE" => ok[w]
      BY DEF Outcome
    <3>3. Outcome(w) = "DEAD" =>
            ~ok[w] /\ Exhausted(w, item[w]) /\ attempts[item[w]] + 1 >= MaxAttempts
      BY <2>3 DEF Outcome, Exhausted
    <3>4. /\ status'[j] = "DEAD" => attempts'[j] >= MaxAttempts /\ message'[j] \in {"DEAD", "NONE"}
          /\ status'[j] = "DONE" => accepted'[j] /\ message'[j] \in {"SENT", "NONE"}
      BY <2>1, <2>4, <2>5, <2>7, <3>2, <3>3
    <3>5. refusals'[j] > 0 => ~Sendable(j)'
      BY <2>1 DEF RowInv, Sendable
    <3>6. QED BY <3>1, <3>4, <3>5 DEF RowInv
  <2>8. ASSUME NEW j \in Item, j # item[w] PROVE RowInv(j)'
    BY <2>1, <2>4, <2>8 DEF RowInv, Sendable
  <2>9. ASSUME NEW v \in Worker, v # w PROVE SettlingInv(v)'
    <3>1. pc'[v] = pc[v] /\ item'[v] = item[v] /\ ok'[v] = ok[v]
      BY <2>1, <2>9 DEF TypeOK
    <3>2. Live(v)' => Live(v)
      BY <2>1, <3>1 DEF Live
    <3>3. Live(v) => attempts'[item[v]] = attempts[item[v]]
      BY <2>3, <2>4, <2>9
    <3>4. QED BY <2>1, <3>1, <3>2, <3>3, SettlingFrame
  <2>10. SettlingInv(w)'
    <3>1. pc'[w] = "batch"
      BY <2>1 DEF TypeOK
    <3>2. QED BY <3>1 DEF SettlingInv, SendingInv, EndedInv, Live
  <2>11. QED BY <2>7, <2>8, <2>9, <2>10
<1>3. ASSUME NEW w \in Worker, Boot(w) \/ Claim(w) \/ EndBatch(w) \/ DatabaseError(w) \/ Crash(w)
      PROVE  /\ \A j \in Item : RowInv(j)'
             /\ \A v \in Worker : SettlingInv(v)'
  <2>1. UNCHANGED <<attempts, complete, message, accepted, tries, refusals>>
    BY <1>3 DEF Boot, Claim, EndBatch, DatabaseError, Crash, Stop, row, counts, batch
  <2>2. \A j \in Item : status'[j] \in {"DEAD", "DONE"} => status[j] = status'[j]
    <3>1. CASE Boot(w)
      BY <3>1 DEF Boot
    <3>2. CASE Claim(w)
      BY <3>2 DEF Claim
    <3>3. CASE EndBatch(w) \/ DatabaseError(w) \/ Crash(w)
      BY <3>3 DEF EndBatch, DatabaseError, Crash, Stop, row
    <3>4. QED BY <1>3, <3>1, <3>2, <3>3
  <2>3. ASSUME NEW j \in Item PROVE RowInv(j)'
    BY <2>1, <2>2 DEF RowInv, Sendable
  <2>4. pc'[w] \in {"down", "poll", "batch"}
    BY <1>3 DEF Boot, Claim, EndBatch, DatabaseError, Crash, Stop, Goto, TypeOK
  <2>5. SettlingInv(w)'
    BY <2>4 DEF SettlingInv, SendingInv, EndedInv, Live
  <2>6. ASSUME NEW v \in Worker, v # w PROVE SettlingInv(v)'
    <3>1. /\ pc'[v] = pc[v] /\ item'[v] = item[v] /\ ok'[v] = ok[v]
          /\ copy'[v] = copy[v] /\ gone'[v] = gone[v]
      BY <1>3, <2>6 DEF Boot, Claim, EndBatch, DatabaseError, Crash, Stop, Forget, Goto, TypeOK,
         batch
    <3>2. Live(v)' => Live(v)
      BY <3>1 DEF Live
    <3>3. QED BY <2>1, <3>1, <3>2, SettlingFrame
  <2>7. QED BY <2>3, <2>5, <2>6
<1>4. ASSUME \/ \E c \in Callback, i \in Item : QueueCheck(c, i)
             \/ \E i \in Item : DeleteMessage(i) \/ BecomeDue(i) \/ BecomeStale(i)
             \/ UNCHANGED vars
      PROVE  /\ \A j \in Item : RowInv(j)'
             /\ \A v \in Worker : SettlingInv(v)'
  <2>1. /\ UNCHANGED <<status, attempts, complete, accepted, tries, refusals, pc, item, copy,
                        gone, ok>>
        /\ \A j \in Item : message'[j] \in {message[j], "NONE"}
    BY <1>4 DEF QueueCheck, DeleteMessage, BecomeDue, BecomeStale, vars, row, counts, batch, TypeOK
  <2>2. ASSUME NEW j \in Item PROVE RowInv(j)'
    BY <2>1 DEF RowInv, Sendable
  <2>3. ASSUME NEW v \in Worker PROVE SettlingInv(v)'
    <3>1. Live(v) => item[v] \in Item
      BY DEF Live, MemoryInv
    <3>2. Live(v)' => Live(v)
      BY <2>1 DEF Live
    <3>3. QED BY <2>1, <3>1, <3>2, SettlingFrame
  <2>4. QED BY <2>2, <2>3
<1>5. QED
  BY <1>1, <1>2, <1>3, <1>4, TakingStep, SendingStep DEF Next, WorkerStep

-----------------------------------------------------------------------------
(* Theorems                                                                 *)

LEMMA InitIInv == Init => IInv
<1> SUFFICES ASSUME Init PROVE IInv
  OBVIOUS
<1>1. TypeInv
  BY InitTypeInv
<1>2. \A w \in Worker : Holding(w) = {}
  BY DEF Init, Holding
<1>3. ClaimExclusive /\ CopyInv
  BY <1>2 DEF ClaimExclusive, CopyInv
<1>4. \A i \in Item : RowInv(i)
  BY ConstantsAssumption DEF Init, RowInv, Sendable
<1>5. \A w \in Worker : SettlingInv(w)
  BY DEF Init, SettlingInv, SendingInv, EndedInv, Live
<1>6. QED BY <1>1, <1>3, <1>4, <1>5 DEF IInv

\* Every reachable state has its variables in range, whatever the clock does.
THEOREM TypeCorrect == Spec => []TypeOK
<1>1. Init => TypeInv
  BY InitTypeInv
<1>2. TypeInv /\ [Next]_vars => TypeInv'
  BY TypeStep
<1>3. TypeInv => TypeOK
  BY DEF TypeInv
<1>4. QED BY <1>1, <1>2, <1>3, PTL DEF Spec

\* The inductive invariant of workers that finish their batches in time.
THEOREM Invariance ==
    ASSUME Timely
    PROVE  Spec => []IInv
<1>1. Init => IInv
  BY InitIInv
<1>2. IInv /\ [Next]_vars => IInv'
  <2> SUFFICES ASSUME IInv, [Next]_vars PROVE IInv'
    OBVIOUS
  <2>1. TypeInv'
    BY TypeStep DEF IInv
  <2>2. ClaimExclusive' /\ CopyInv'
    BY ClaimStep DEF IInv
  <2>3. (\A i \in Item : RowInv(i)') /\ (\A v \in Worker : SettlingInv(v)')
    BY OutcomeStep DEF IInv
  <2>4. QED BY <2>1, <2>2, <2>3 DEF IInv
<1>3. QED BY <1>1, <1>2, PTL DEF Spec

\* No row is ever in the hands of two workers, however many there are and
\* whenever they die.
THEOREM ClaimsAreExclusive ==
    ASSUME Timely
    PROVE  Spec => []ClaimExclusive
<1>1. IInv => ClaimExclusive
  BY DEF IInv
<1>2. QED BY <1>1, Invariance, PTL

\* A row is DONE only when the provider accepted its message.
THEOREM DoneRowsWereSent ==
    ASSUME Timely
    PROVE  Spec => []DoneWasSent
<1>1. IInv => DoneWasSent
  BY DEF IInv, RowInv, DoneWasSent
<1>2. QED BY <1>1, Invariance, PTL

\* A row is DEAD only after all the attempts the setting allows, each of them a
\* call of the provider, or the discovery that there is nothing to send.
THEOREM DeadRowsWereTried ==
    ASSUME Timely
    PROVE  Spec => []DeadWasTried
<1>1. ASSUME IInv PROVE DeadWasTried
  <2>1. ASSUME NEW i \in Item, status[i] = "DEAD"
        PROVE  /\ message[i] \in {"DEAD", "NONE"}
               /\ tries[i] + refusals[i] >= MaxAttempts
               /\ Sendable(i) => tries[i] >= MaxAttempts
    <3>1. /\ attempts[i] <= tries[i] + refusals[i] /\ attempts[i] >= MaxAttempts
          /\ message[i] \in {"DEAD", "NONE"}
          /\ refusals[i] > 0 => ~Sendable(i)
      BY <1>1, <2>1 DEF IInv, RowInv
    <3>2. attempts[i] \in Int /\ tries[i] \in Nat /\ refusals[i] \in Nat /\ MaxAttempts \in Int
      BY <1>1, ConstantsAssumption DEF IInv, TypeInv, TypeOK
    <3>3. QED BY <3>1, <3>2
  <2>2. QED BY <2>1 DEF DeadWasTried
<1>2. QED BY <1>1, Invariance, PTL

-----------------------------------------------------------------------------
(* Locks left behind                                                        *)

\* Every step keeps NothingIsStranded: a claim takes a row in hand, and the end of
\* a process makes orphans of what it had; a start takes back only what it puts
\* back.
LEMMA StrandedStep ==
    ASSUME TypeInv, NothingIsStranded, [Next]_vars
    PROVE  NothingIsStranded'
<1> USE DEF TypeInv
<1> DEFINE Safe(j) == (\E v \in Worker : j \in Holding(v)) \/ j \in orphans
<1> SUFFICES ASSUME NEW j \in Item, status'[j] = "PROCESSING"
             PROVE  Safe(j)'
  BY DEF NothingIsStranded
<1>0. status[j] = "PROCESSING" => Safe(j)
  BY DEF NothingIsStranded
<1>1. ASSUME NEW c \in Callback, NEW i \in Item, QueueInsert(c, i)
      PROVE  Safe(j)'
  <2>1. j # i /\ status[j] = "PROCESSING" /\ orphans' = orphans \ {i}
    BY <1>1 DEF QueueInsert, TypeOK
  <2>2. \A v \in Worker : j \in Holding(v) => j \in Holding(v)'
    BY <1>1, <2>1 DEF QueueInsert, Holding
  <2>3. QED BY <1>0, <2>1, <2>2
<1>2. ASSUME NEW w \in Worker, Boot(w)
      PROVE  Safe(j)'
  <2>1. status[j] = "PROCESSING" /\ ~Obsolete(j)
    BY <1>2 DEF Boot, Obsolete, TypeOK
  <2>2. /\ orphans' = {i \in orphans : ~Obsolete(i)}
        /\ \A v \in Worker : Holding(v)' = Holding(v)
    BY <1>2 DEF Boot, Holding, batch
  <2>3. QED BY <1>0, <2>1, <2>2
<1>3. ASSUME NEW w \in Worker, Claim(w)
      PROVE  Safe(j)'
  <2>1. PICK S \in SUBSET {i \in Item : Claimable(i)} :
          /\ status' = [i \in Item |-> IF i \in S THEN "PROCESSING" ELSE status[i]]
          /\ held' = [held EXCEPT ![w] = S]
    BY <1>3 DEF Claim
  <2>2. /\ pc[w] = "poll" /\ gone' = [gone EXCEPT ![w] = {}] /\ item' = item
        /\ orphans' = orphans
    BY <1>3 DEF Claim
  <2>3. CASE j \in S
    <3>1. j \in Holding(w)'
      BY <2>1, <2>2, <2>3 DEF Holding, TypeOK
    <3>2. QED BY <3>1
  <2>4. CASE j \notin S
    <3>1. status[j] = "PROCESSING"
      BY <2>1, <2>4
    <3>2. Holding(w) = {}
      BY <2>2 DEF MemoryInv, Holding
    <3>3. \A v \in Worker \ {w} : Holding(v)' = Holding(v)
      BY <2>1, <2>2 DEF Holding, TypeOK
    <3>4. QED BY <1>0, <2>2, <3>1, <3>2, <3>3
  <2>5. QED BY <2>3, <2>4
<1>4. ASSUME NEW w \in Worker, NEW i \in Item, MarkSending(w, i) \/ Refuse(w, i)
      PROVE  Safe(j)'
  <2>1. TakeNext(w, i) /\ UNCHANGED <<status, gone, orphans>>
    BY <1>4 DEF MarkSending, Refuse
  <2>2. Holding(w)' = Holding(w)
    <3>1. item[w] = NoItem /\ i \in held[w]
      BY <2>1 DEF TakeNext, MemoryInv
    <3>2. held'[w] = held[w] \ {i} /\ item'[w] = i
      BY <2>1 DEF TakeNext, TypeOK
    <3>3. QED BY <2>1, <3>1, <3>2, ConstantsAssumption DEF Holding
  <2>3. \A v \in Worker \ {w} : Holding(v)' = Holding(v)
    BY <2>1 DEF TakeNext, Holding, TypeOK
  <2>4. QED BY <1>0, <2>1, <2>2, <2>3
<1>5. ASSUME NEW w \in Worker, Settle(w)
      PROVE  Safe(j)'
  <2>1. /\ status' = [status EXCEPT ![item[w]] = Outcome(w)]
        /\ item' = [item EXCEPT ![w] = NoItem]
        /\ held' = held /\ gone' = gone /\ orphans' = orphans
    BY <1>5 DEF Settle
  <2>2. Outcome(w) # "PROCESSING"
    BY DEF Outcome
  <2>3. j # item[w] /\ status[j] = "PROCESSING"
    BY <2>1, <2>2 DEF TypeOK
  <2>4. \A v \in Worker : j \in Holding(v) => j \in Holding(v)'
    BY <2>1, <2>3 DEF Holding, TypeOK
  <2>5. QED BY <1>0, <2>1, <2>3, <2>4
<1>6. ASSUME NEW w \in Worker, DatabaseError(w) \/ Crash(w)
      PROVE  Safe(j)'
  <2>1. Stop(w)
    BY <1>6 DEF DatabaseError, Crash
  <2>2. status[j] = "PROCESSING" /\ orphans' = orphans \union Holding(w)
    BY <2>1 DEF Stop, row
  <2>3. \A v \in Worker \ {w} : Holding(v)' = Holding(v)
    BY <2>1 DEF Stop, Forget, Holding, TypeOK
  <2>4. QED BY <1>0, <2>2, <2>3
<1>7. ASSUME NEW w \in Worker, EndBatch(w)
      PROVE  Safe(j)'
  <2>1. held' = held /\ item' = item /\ orphans' = orphans /\ status' = status
    BY <1>7 DEF EndBatch, row
  <2>2. Holding(w) = {}
    BY <1>7 DEF EndBatch, MemoryInv, Holding
  <2>3. \A v \in Worker \ {w} : Holding(v)' = Holding(v)
    BY <1>7, <2>1 DEF EndBatch, Forget, Holding, TypeOK
  <2>4. QED BY <1>0, <2>1, <2>2, <2>3
<1>8. ASSUME \/ \E w \in Worker : \/ Record(w) \/ RecordFails(w) \/ Bury(w)
                                  \/ \E accepts, answers \in BOOLEAN : SendText(w, accepts, answers)
             \/ \E c \in Callback, i \in Item : QueueCheck(c, i)
             \/ \E i \in Item : DeleteMessage(i) \/ BecomeDue(i) \/ BecomeStale(i)
             \/ UNCHANGED vars
      PROVE  Safe(j)'
  <2>1. UNCHANGED <<held, item, gone, orphans>> /\ status[j] = status'[j]
    BY <1>8 DEF Record, RecordFails, Bury, SendText, QueueCheck, DeleteMessage,
       BecomeDue, BecomeStale, vars, row, batch
  <2>2. \A v \in Worker : Holding(v)' = Holding(v)
    BY <2>1 DEF Holding
  <2>3. QED BY <1>0, <2>1, <2>2
<1>9. QED
  BY <1>1, <1>2, <1>3, <1>4, <1>5, <1>6, <1>7, <1>8 DEF Next, WorkerStep

\* A row is never PROCESSING in nobody's hands unless a process ended with it in
\* hand, however many workers there are, whenever they die and start again, and
\* even when their batches outlive their locks.
THEOREM NothingStranded == Spec => []NothingIsStranded
<1>1. Init => TypeInv /\ NothingIsStranded
  <2>1. Init => NothingIsStranded
    BY DEF Init, NothingIsStranded
  <2>2. QED BY <2>1, InitTypeInv
<1>2. TypeInv /\ NothingIsStranded /\ [Next]_vars => TypeInv' /\ NothingIsStranded'
  BY TypeStep, StrandedStep
<1>3. QED BY <1>1, <1>2, PTL DEF Spec

-----------------------------------------------------------------------------
(* The promise                                                              *)

LEMMA NoticeValues ==
    /\ Notice("ABSENT") = "none"
    /\ Notice("PENDING") = "queued"
    /\ Notice("PROCESSING") = "queued"
    /\ Notice("DONE") = "delivered"
    /\ Notice("DEAD") = "abandoned"
BY Zenon DEF Notice

\* A step that leaves the status and the acceptance of every row alone, or moves
\* rows between PENDING and PROCESSING only, is invisible.
LEMMA Invisible ==
    ASSUME TypeOK, TypeOK', accepted' = accepted,
           \A i \in Item : \/ status'[i] = status[i]
                           \/ {status[i], status'[i]} \subseteq {"PENDING", "PROCESSING"}
    PROVE  UNCHANGED Delivery!vars
<1>1. \A i \in Item : Notice(status[i]) = Notice(status'[i])
  BY NoticeValues
<1>2. QED BY <1>1 DEF Delivery!vars

\* A step that changes the row of one key.
LEMMA OneRow ==
    ASSUME NEW i \in Item, NEW s, status \in [Item -> RowStatus],
           status' = [status EXCEPT ![i] = s]
    PROVE  [j \in Item |-> Notice(status[j])]' =
              [[j \in Item |-> Notice(status[j])] EXCEPT ![i] = Notice(s)]
<1>1. \A j \in Item : Notice(status'[j]) = IF j = i THEN Notice(s) ELSE Notice(status[j])
  OBVIOUS
<1>2. QED BY <1>1

\* Every step is one of the abstract steps, or invisible.
LEMMA DeliveryStep ==
    ASSUME IInv, IInv', [Next]_vars
    PROVE  [Delivery!Next]_(Delivery!vars)
<1> USE DEF IInv, TypeInv
<1>1. ASSUME NEW c \in Callback, NEW i \in Item, QueueInsert(c, i)
      PROVE  Delivery!Queue(i)
  <2>1. /\ status' = [status EXCEPT ![i] = "PENDING"]
        /\ accepted' = [accepted EXCEPT ![i] = FALSE]
    BY <1>1 DEF QueueInsert
  <2>2. QED BY <2>1, OneRow, NoticeValues DEF Delivery!Queue, TypeOK
<1>2. ASSUME NEW w \in Worker, NEW accepts \in BOOLEAN, NEW answers \in BOOLEAN,
             SendText(w, accepts, answers)
      PROVE  (Delivery!Accept(item[w]) /\ item[w] \in Item) \/ UNCHANGED Delivery!vars
  <2>1. pc[w] = "send" /\ item[w] \in Item /\ status' = status
    BY <1>2 DEF SendText, MemoryInv
  <2>2. CASE accepted' = accepted
    BY <2>1, <2>2, Invisible
  <2>3. CASE accepted' # accepted
    <3>1. item[w] \notin gone[w]
      BY <1>2, <2>3 DEF SendText
    <3>2. Live(w)
      BY <2>1, <3>1 DEF Live
    <3>3. Notice(status[item[w]]) = "queued"
      BY <3>2, InHand, NoticeValues
    <3>4. accepted' = [accepted EXCEPT ![item[w]] = TRUE]
      <4> DEFINE new == accepted[item[w]] \/ accepts
      <4>1. accepted' = [accepted EXCEPT ![item[w]] = new]
        BY <1>2, <3>1 DEF SendText
      <4>2. accepted \in [Item -> BOOLEAN] /\ accepted[item[w]] \in BOOLEAN
        BY <2>1 DEF TypeOK
      <4>3. CASE new
        BY <4>1, <4>3
      <4>4. CASE ~new
        <5>1. accepted[item[w]] = FALSE /\ new = FALSE
          BY <4>2, <4>4
        <5> HIDE DEF new
        <5>2. accepted' = accepted
          BY <4>1, <4>2, <5>1
        <5>3. QED BY <2>3, <5>2
      <4>5. QED BY <4>3, <4>4
    <3>5. Delivery!Accept(item[w])
      BY <2>1, <3>3, <3>4 DEF Delivery!Accept
    <3>6. QED BY <2>1, <3>5
  <2>4. QED BY <2>2, <2>3
<1>3. ASSUME NEW w \in Worker, Settle(w)
      PROVE  \/ \E i \in Item : Delivery!Deliver(i) \/ Delivery!Abandon(i)
             \/ UNCHANGED Delivery!vars
  <2>1. /\ pc[w] = "settle" /\ item[w] \in Item /\ item[w] \notin gone[w]
        /\ accepted' = accepted
        /\ status' = [status EXCEPT ![item[w]] = Outcome(w)]
    BY <1>3 DEF Settle, MemoryInv, counts
  <2>2. Live(w)
    BY <2>1 DEF Live
  <2>3. status[item[w]] = "PROCESSING" /\ (ok[w] => accepted[item[w]])
    BY <2>1, <2>2, InHand DEF SettlingInv, EndedInv
  <2>4. CASE Outcome(w) = "DONE"
    <3>1. ok[w] /\ accepted[item[w]]
      BY <2>3, <2>4 DEF Outcome
    <3>2. Delivery!Deliver(item[w])
      <4>1. [j \in Item |-> Notice(status[j])]' =
               [[j \in Item |-> Notice(status[j])] EXCEPT ![item[w]] = "delivered"]
        BY <2>1, <2>4, OneRow, NoticeValues DEF TypeOK
      <4>2. [j \in Item |-> Notice(status[j])][item[w]] = "queued"
        BY <2>1, <2>3, NoticeValues
      <4>3. QED BY <2>1, <3>1, <4>1, <4>2 DEF Delivery!Deliver
    <3>3. QED BY <2>1, <3>2
  <2>5. CASE Outcome(w) = "DEAD"
    <3>1. Delivery!Abandon(item[w])
      <4>1. [j \in Item |-> Notice(status[j])]' =
               [[j \in Item |-> Notice(status[j])] EXCEPT ![item[w]] = "abandoned"]
        BY <2>1, <2>5, OneRow, NoticeValues DEF TypeOK
      <4>2. [j \in Item |-> Notice(status[j])][item[w]] = "queued"
        BY <2>1, <2>3, NoticeValues
      <4>3. QED BY <2>1, <4>1, <4>2 DEF Delivery!Abandon
    <3>2. QED BY <2>1, <3>1
  <2>6. CASE Outcome(w) = "PENDING"
    <3>1. \A j \in Item : \/ status'[j] = status[j]
                          \/ {status[j], status'[j]} \subseteq {"PENDING", "PROCESSING"}
      BY <2>1, <2>3, <2>6 DEF TypeOK
    <3>2. QED BY <2>1, <3>1, Invisible
  <2>7. QED BY <2>4, <2>5, <2>6 DEF Outcome
<1>4. ASSUME NEW w \in Worker, Boot(w) \/ Claim(w)
      PROVE  UNCHANGED Delivery!vars
  <2>1. \A j \in Item : \/ status'[j] = status[j]
                        \/ {status[j], status'[j]} \subseteq {"PENDING", "PROCESSING"}
    <3>1. CASE Boot(w)
      BY <3>1 DEF Boot, Obsolete
    <3>2. CASE Claim(w)
      BY <3>2 DEF Claim, Claimable
    <3>3. QED BY <1>4, <3>1, <3>2
  <2>2. accepted' = accepted
    BY <1>4 DEF Boot, Claim, counts
  <2>3. QED BY <2>1, <2>2, Invisible
<1>5. ASSUME NEW w \in Worker,
             \/ EndBatch(w) \/ Record(w) \/ RecordFails(w) \/ Bury(w)
             \/ \E i \in Item : MarkSending(w, i) \/ Refuse(w, i)
             \/ DatabaseError(w) \/ Crash(w)
      PROVE  UNCHANGED Delivery!vars
  <2>1. status' = status /\ accepted' = accepted
    BY <1>5 DEF EndBatch, MarkSending, Refuse, Record, RecordFails, Bury, DatabaseError, Crash,
       Stop, row, counts
  <2>2. QED BY <2>1, Invisible
<1>6. ASSUME \/ \E c \in Callback, i \in Item : QueueCheck(c, i)
             \/ \E i \in Item : DeleteMessage(i) \/ BecomeDue(i) \/ BecomeStale(i)
             \/ UNCHANGED vars
      PROVE  UNCHANGED Delivery!vars
  <2>1. status' = status /\ accepted' = accepted
    BY <1>6 DEF QueueCheck, DeleteMessage, BecomeDue, BecomeStale, vars, row, counts
  <2>2. QED BY <2>1, Invisible
<1>7. QED
  BY <1>1, <1>2, <1>3, <1>4, <1>5, <1>6 DEF Next, WorkerStep, Delivery!Next

\* The worker and the queueing callbacks implement NotificationDelivery: nothing
\* is delivered that was not accepted, and a notice leaves the queue only
\* delivered, abandoned or replaced.
THEOREM PromiseIsKept ==
    ASSUME Timely
    PROVE  Spec => ImplementsDelivery
<1>1. Init => Delivery!Init
  BY NoticeValues DEF Init, Delivery!Init
<1>2. IInv /\ IInv' /\ [Next]_vars => [Delivery!Next]_(Delivery!vars)
  BY DeliveryStep
<1>3. QED BY <1>1, <1>2, Invariance, PTL DEF Spec, ImplementsDelivery, Delivery!Spec
=============================================================================
